SPECIFICATION Spec
CONSTANTS
  Second = 2
  Minute = 5
  CloseSecond = 1
  Intervals <- OneAndTwoMinutes
  SlicesPerSec = {1, 2}
  Sections <- TwoSections
  Begin = 32
  End = 70
  Behind = 6
  Ahead = 1
  MaxVolume = 2
CHECK_DEADLOCK FALSE
INVARIANTS
  VolumeKept
  SectionBarsGiven
PROPERTIES
  WindowsInOrder
