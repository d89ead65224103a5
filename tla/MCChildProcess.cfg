SPECIFICATION Spec
CONSTANTS
  Launchers = {l1, l2}
  Dialers = {d1}
  Askers = {a1, a2}
  Modes = {0, 1}
  MaxChildren = 1
  None = None
  Systems <- MCSystems
SYMMETRY Symmetry
INVARIANTS
  NeverMisread
  ChildHandles
  SocketsPrivate
  ModeKept
