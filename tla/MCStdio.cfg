CONSTANTS
  W = 8
  Calls <- MCCalls
  Lines <- MCLines
  Texts <- MCTexts
SPECIFICATION Spec
INVARIANTS ScanInvertsPrint ExecveRunsNamed
PROPERTY CallsAsNamed
CHECK_DEADLOCK FALSE
