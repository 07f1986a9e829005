CONSTANTS
  SLICE = 5
  ANIM_INTERVAL = 7
SPECIFICATION BootSpec
INVARIANTS BootTypeOK OnTime GatesReady AcknowledgedInTime
PROPERTY PressIsQueued
