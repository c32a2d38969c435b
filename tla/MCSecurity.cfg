SPECIFICATION SecuritySpec
CONSTANTS
  cli = cli
  none = none
  get = get
  success = success
  failed = failed
  unread = unread
  Unread = unread
  Callers <- MCCallers
  Values = {0, 1, 2}
  Unwritable = {3}
  Requests <- MCRequests
  Results <- MCResults
  NoMessage = none
  Get = get
  Success = success
  Failed = failed
  MaxCalls = 3
  MaxChanges = 3
INVARIANTS MismatchReported
CHECK_DEADLOCK FALSE
