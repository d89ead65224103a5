SPECIFICATION FileSpec
CONSTANTS
  SectAlign = 4
  FileAlign = 2
  FirstSectOff = 1
  ImageBase = 1000
  FirstRaws = {4, 6}
  MaxData = 60
  DataSizes <- MCDataSizes
  Images <- MCImages
  Dlls <- MCDlls
  Symbols <- MCSymbols
  Ordinals <- MCOrdinals
  Slots <- MCSlots
  Files <- MCFiles
  Targets <- MCTargets
INVARIANTS
  ImageLoadable
  SectionsIntact
  ImportsReadBack
  TableFound
  TornRefused
PROPERTIES
  NothingOverwritten
  MemoryKept
CHECK_DEADLOCK FALSE
