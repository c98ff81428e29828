SPECIFICATION Spec
CONSTANTS
  Tracks = {t1, t2}
  NoTrack = NoTrack
  NoLyric = NoLyric
  MaxChanges = 3
PROPERTY SavedSelectionIsHonored
CHECK_DEADLOCK FALSE
