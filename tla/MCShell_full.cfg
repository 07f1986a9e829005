CONSTANTS
  MAX_PROC_NUM = 4
  SLICE = 1
  NULL = NULL
  Kernel = Kernel
SPECIFICATION ShellSpec
PROPERTY FullLineIsDiscarded
