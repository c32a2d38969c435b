SPECIFICATION FairSpec
CONSTANTS
  cli = cli
  issuer = issuer
  none = none
  get = get
  success = success
  failed = failed
  Callers <- MCCallers
  Values = {0, 1}
  Unwritable = {2}
  Requests <- MCRequests
  Results <- MCResults
  NoMessage = none
  Get = get
  Success = success
  Failed = failed
  MaxCalls = 3
INVARIANTS ShowsAcknowledged DeathExplained
PROPERTIES CallsEnd
CHECK_DEADLOCK FALSE
