SPECIFICATION InvocationSpec
CONSTANTS
  Ok = Ok
  SysAssertionFailed = SysAssertionFailed
  None = None
  forbidden = forbidden  e1 = e1
  ExitCodes = {Ok, forbidden}
  ErrorNumbers = {e1}
  MaxEvents = 8
INVARIANT InvocationTypeOK
INVARIANT FiledOnce
INVARIANT TreeExact
INVARIANT ExitCodesExact
INVARIANT ConvertsOneRootedTrace
CHECK_DEADLOCK FALSE
