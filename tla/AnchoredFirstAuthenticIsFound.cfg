SPECIFICATION AnchoredSpec
CONSTANTS
  leaf = leaf
  a = a
  b = b
  anchor = anchor
  Entities = {leaf, a, b, anchor}
  Federations <- SomeFederations
  NoKey = NoKey
  MaxChanges = 0
  Start = leaf
  TrustedAnchors <- SomeAnchors
  TrustAnchorHints <- SomeAnchorHints
  NoAnchors = NoAnchors
CHECK_DEADLOCK FALSE
INVARIANT FirstAuthenticIsFound
