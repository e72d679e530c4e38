SPECIFICATION Spec
CONSTANTS
  i1 = i1  i2 = i2  i3 = i3
  Items = {i1, i2, i3}
  HistoryLimit = 2
SYMMETRY ItemSymmetry
INVARIANTS OrderVisitsAll PreloadIsWhatFollows
PROPERTIES CursorKeepsItem
