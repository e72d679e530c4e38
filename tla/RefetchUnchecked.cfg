SPECIFICATION Spec
CONSTANTS
  Sizes <- FiveFiveSix
  Block = 2
  Prefix = 2
  Slots = 2
  MemberAt = 1
  NoBlock = NoBlock
  Readers = {1}
  Servers <- Careless
  MaxChanges = 2
  MaxFaults = 1
  MaxReads = 3
INVARIANTS SoundReadsAreTrue
CHECK_DEADLOCK FALSE
