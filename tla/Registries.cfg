SPECIFICATION EndpointsSpec
CONSTANTS
  None = None
  Malformed = Malformed
  Issuer = "issuer"
  Received <- MCReceived
  Entities <- MCEntities
  Jwts <- MCJwts
  Types = {"member", "audited"}
  EntityTypes = {"op", "rp"}
  TypesOf <- MCTypesOf
  Leeway = 1
  MaxTime = 1
  MaxChanges = 2
INVARIANT StatusOfRecordWasTrue
INVARIANT TrustMarkIsLatest
INVARIANT ListingHonoursParameters
INVARIANT ClientsLearnTheAnswer
CHECK_DEADLOCK FALSE
