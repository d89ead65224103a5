SPECIFICATION Spec
CONSTANTS
  SectAlign = 4
  FileAlign = 2
  FirstSectOff = 1
  DataSizes = {1, 2, 5}
  FirstRaws = {4, 6, 8}
  MaxOverlay = 3
  Images <- MCImages
PROPERTIES
  OverlayKept
CHECK_DEADLOCK FALSE
