CONSTANTS
  VGA_WIDTH = 2
  VGA_HEIGHT = 3
  LEN = 2
  Char = {"a", "b"}
SPECIFICATION Spec
INVARIANT OnlyNormalKeys
