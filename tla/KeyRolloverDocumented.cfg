SPECIFICATION RolloverSpec
CONSTANTS
  Kids = {k1, k2}
  NoKid = NoKid
  Times = {1, 2, 3, 4, 5, 6, 7}
  NoTime = NoTime
  SignerLists <- AllSigners
  ForeignRecords = {}
  ConfigurationLifetime = 2
  StatementLifetime = 1
  Slack = 0
  NoEndpoint = NoEndpoint
  MaxTime = 4
INVARIANT StatementsVerify
