CONSTANTS
  SLICE = 5
  ANIM_INTERVAL = 7
SPECIFICATION Spec
INVARIANT TickEvery10ms
