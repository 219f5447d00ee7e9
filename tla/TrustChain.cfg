SPECIFICATION Spec
CONSTANTS
  Entities <- SomeEntities
  Keys <- SomeKeys
  Kids <- SomeKids
  NoKid = "none"
  Claims = {"known", "unknown"}
  Understood = {"known"}
  Leeway = 1
  Chains <- SomeChains
  MaxTime = 2
  Owner <- Owns
  Honest = {"low", "high", "anchor"}
INVARIANT AcceptedIsAuthentic
INVARIANT RejectedIsNotAuthentic
INVARIANT LeafSignedItself
INVARIANT AcceptedUntilExpiry
CHECK_DEADLOCK FALSE
