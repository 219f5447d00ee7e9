SPECIFICATION RolloverSpec
CONSTANTS
  Kids = {k1, k2}
  NoKid = NoKid
  Times = {4, 5, 6}
  NoTime = NoTime
  SignerLists <- AllSigners
  ForeignRecords = {}
  ConfigurationLifetime = 2
  StatementLifetime = 1
  Slack = 1
  NoEndpoint = NoEndpoint
  MaxTime = 6
SYMMETRY Symmetry
VIEW View
INVARIANT StatementsVerify
INVARIANT HistoricalAnswersVerify
INVARIANT KeysStayFindable
INVARIANT HistoryCoversStatements
