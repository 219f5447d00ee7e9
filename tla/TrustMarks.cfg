SPECIFICATION Spec
CONSTANTS
  None = None
  Entities <- MCEntities
  Keys <- MCKeys
  Types <- MCTypes
  Anchor = "anchor"
  AnchorKeys = {"anchor key"}
  TrustMarkIssuers <- MCTrustMarkIssuers
  TrustMarkOwners <- MCTrustMarkOwners
  Subject = "leaf"
  KeySets <- MCKeySets
  Presentations <- MCPresentations
  Leeway = 1
  MaxTime = 2
  MaxChanges = 2
INVARIANT VerifiedWereTrusted
INVARIANT RejectionsAreTrue
INVARIANT IssuedVerify
INVARIANT OnlyRecognizedIssuersAreAsked
INVARIANT OneViewPerIssuer
CHECK_DEADLOCK FALSE
