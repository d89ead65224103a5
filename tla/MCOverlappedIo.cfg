SPECIFICATION FairSpec
CONSTANTS
  L = L
  Q = Q
  W = W
  listed_dir = listed_dir
  other = other
  Listers = {L}
  Queriers = {Q}
  Watchers = {W}
  Handles = {listed_dir, other}
  handle <- MCHandle
  Sizes = {0, 1, 3}
  Batch = 2
INVARIANTS
  TypeOK
  NothingPendingBehind
  ListingRight
  SuccessHasData
PROPERTY
  EveryQueryReturns
