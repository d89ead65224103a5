SPECIFICATION Spec
CONSTANTS
  Names = {n, m}
  Parent = Parent
  Inside = {child, other, below}
  Outside = {target}
  Below = below
  Target = target
  NoObject = NoObject
  NoHandle = NoHandle
SYMMETRY MCSymmetry
INVARIANTS
  TypeOK
  Contained
  LinkRefused
  HandlesAccounted
  AnswersAsNative
