SPECIFICATION Spec
CONSTANTS
  Depth = 3
  Timeout = 2
  Validators = {query, body, size}
  FileFunctions = {size}
  None = None
  MaxAge = 4
INVARIANTS
  ControllersRunChecked
  AnsweredInTime
  AnswerIsWhole
CHECK_DEADLOCK FALSE
