CONSTANTS
  MAX_PROC_NUM = 4
  SLICE = 2
  NULL = NULL
  Kernel = Kernel
SPECIFICATION FairSpec
PROPERTIES TimerKeepsTicking BlockedInTimeReturns ImplementsProcessLife
