\* One check and one fetch request at a time, against the operator's writes to
\* the store and the clock.
SPECIFICATION Spec

CONSTANTS
  Entities = {"superior", "op", "insecure"}
  Keys = {"one", "two", "superior"}
  Kids = {"a", "s"}
  NoKid = NoKid
  Claims = {"extension"}
  Understood = {}
  Leeway = 1
  Superior = "superior"
  SigningKey <- SuperiorKey
  Insecure = {"insecure"}
  Configurations <- AnsweredConfigurations
  Policies <- RequiredPolicies
  Lifetime = 1
  None = None
  MaxTime = 2
  MaxChanges = 2

INVARIANT StatementsCompleteAChain
INVARIANT AnswersWereRegistered
INVARIANT RegisteredCanBeIssued
