SPECIFICATION TraceSpec
CONSTANTS
  g1 = g1  n1 = n1  e1 = e1
  GasNames = {g1}
  Amounts = {600}
  SpanNames = {n1}
  Ok = Ok
  SysAssertionFailed = SysAssertionFailed
  None = None
  ExitCodes = {Ok}
  ErrorNumbers = {e1}
  MaxEvents = 8
INVARIANT StacksAgree
INVARIANT GasFollowsInvocations
INVARIANT ConvertsWhatRan
CHECK_DEADLOCK FALSE
