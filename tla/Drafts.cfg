SPECIFICATION Spec
CONSTANTS
  Albums <- MCAlbums
  MaxEdits = 2
INVARIANTS ValidDraftsBuild TracksAreThemselves SaveChangesNothing
