SPECIFICATION Spec
CONSTANTS
  L = L
  Q = Q
  W = W
  listed_dir = listed_dir
  other = other
  Listers = {L}
  Queriers = {}
  Watchers = {W}
  Handles = {listed_dir, other}
  handle <- MCShared
  Sizes = {0, 1, 3}
  Batch = 2
INVARIANTS
  NothingPendingBehind
