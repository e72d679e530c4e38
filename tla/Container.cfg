SPECIFICATION Spec
CONSTANTS
  Packages <- PlainAndNested
  Rewrites <- NewBytes
  Reverts = FALSE
  MaxEdits = 2
  MaxDamage = 2
  Moves = TRUE
INVARIANTS PackedAsVerified DamageIsNoticed RecoveryKeepsTheWhole
CHECK_DEADLOCK FALSE
