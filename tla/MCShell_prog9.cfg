CONSTANTS
  MAX_PROC_NUM = 4
  SLICE = 1
  NULL = NULL
  Kernel = Kernel
SPECIFICATION FairShellSpec
PROPERTY Prog9Reports
