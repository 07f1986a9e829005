CONSTANTS
  MAX_PROC_NUM = 6
  SLICE = 1
  NULL = NULL
  Kernel = Kernel
SPECIFICATION ShellSpec
INVARIANTS ShellTypeOK PromptMeansQuiet TerminalIsTheReaders ParentSeesCount SharedOnlyByProg9
