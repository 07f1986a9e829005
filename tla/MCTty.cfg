CONSTANTS
  VGA_WIDTH = 2
  VGA_HEIGHT = 3
  LEN = 4
  Char = {"a"}
SPECIFICATION Spec
INVARIANTS TypeOK 
PROPERTY PromptKept
