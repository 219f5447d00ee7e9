SPECIFICATION Spec
CONSTANTS
  leaf = leaf
  a = a
  b = b
  anchor = anchor
  Entities = {leaf, a, b, anchor}
  Federations <- SomeFederations
  NoKey = NoKey
  MaxChanges = 2
  Start = leaf
CHECK_DEADLOCK FALSE
INVARIANT TypeOK
INVARIANT ChainsAreAuthentic
INVARIANT NoBranchIsDropped
INVARIANT ChainsAreComplete
PROPERTY Terminates
