SPECIFICATION Spec
CONSTANTS
  Threads = {t1, t2}
  Sentinel = Sentinel
  Null = Null
  Dlls <- MCDlls
  MissingDlls <- MCMissing
  Names <- MCNames
  Early <- MCEarly
  Late <- MCLate
  Stubs <- MCStubs
  Overrides <- MCOverrides
  Procs <- MCProcs
  Systems <- MCSystems
  Variable <- MCVariable
  OtherSymbols <- MCOther
  Capitalised <- MCCapitalised
  Kernel32 = "kernel32.dll"
  ExportLists <- MCExportLists
  Pending <- MCPending
  Advapi32OnXP = {"OpenThreadToken"}
SYMMETRY Symmetry
INVARIANTS
  EarlyCallReported
