SPECIFICATION Spec
CONSTANTS
  Releases = {1, 2}
  Manifests <- OneVaries
  MaxIngests = 2
  MaxAborts = 1
INVARIANTS ContentMirrorsManifest
PROPERTIES IdsFollowContent
CHECK_DEADLOCK FALSE
