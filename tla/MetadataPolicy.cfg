SPECIFICATION Spec
CONSTANTS
  None = None
  Chains <- MCChains
  Listed <- MCListed
  Metadata <- MCMetadata
  Parameters <- MCParameters
  Urls = {"a", "b"}
  Endpoints = {"a"}
  NoAlgorithm = "b"
INVARIANT TypeOK
INVARIANT NoSubordinateLoosens
INVARIANT CriticalIsNeverIgnored
INVARIANT ApplicationIsIdempotent
CHECK_DEADLOCK FALSE
