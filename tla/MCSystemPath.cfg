SPECIFICATION Spec
CONSTANTS
  a = a
  A = A
  s = s
  l = l
  Saved = Saved
  z = z
  Nul = z
  Backslash = s
  NoName = NoName
  System32 = System32
  Units <- MCUnits
  Separators <- MCSeparators
  Fold <- MCFold
  Names <- MCNames
  MissingDlls <- MCMissing
  Dirs <- MCDirs
  Cap = 8
  MaxPath = 4
  SearchFlags = {System32, DefaultDirs}
  OtherFlags = {AsDatafile}
INVARIANTS
  FrameIntact
  SystemOnly
  PathsAsGiven
  MissingAnswered
