SPECIFICATION Spec
CONSTANTS
  Kids = {k1, k2, k3}
  NoKid = NoKid
  Times = {1, 2}
  NoTime = NoTime
  SignerLists <- AllSignerLists
  ForeignRecords <- ForeignLists
INVARIANT OnlyCurrentKeysSign
INVARIANT JwksArePublishable
INVARIANT EveryKeyIsAccountedFor
INVARIANT KeySetsCanBeRestored
PROPERTY SavedHistoryIsKept
PROPERTY SavedRolloverMovesForward
\* A process that is refused the stored records cannot start.
CHECK_DEADLOCK FALSE
