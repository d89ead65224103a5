SPECIFICATION Spec
CONSTANTS
  a1 = a1
  a2 = a2
  a3 = a3
  a4 = a4
  Null = Null
  NoSlot = NoSlot
  Absent = Absent
  Torn = Torn
  None = None
  CaseVariants = TRUE
  MaxRoom = 1
  Paths = {"app.exe", "out.exe"}
  Dlls <- MCDlls
  Symbols <- MCSymbols
  Funcs <- MCFuncs
  Slots <- MCSlots
  FoldCase <- MCFold
  Addresses <- MCAddresses
  Profiles <- MCProfiles
  Originals <- MCOriginals
  Kernel32 = "kernel32.dll"
  HookFuncs <- MCHooks
INVARIANTS
  NothingMissingImported
