SPECIFICATION FairSpec
CONSTANTS
  Requests = {r1, r2, r3}
  Settings <- SomeSettings
  NoConfig = NoConfig
  NoAnswer = NoAnswer
  Error = Error
  NoRequest = NoRequest
  MaxTime = 5
PROPERTY ImplementsService
PROPERTY NoStarvation
