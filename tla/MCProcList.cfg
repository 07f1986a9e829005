CONSTANTS
  MAX_PROC_NUM = 5
  SLICE = 2
  NULL = NULL
  Kernel = Kernel
SPECIFICATION ListSpec
INVARIANTS TypeOK OnePlace StatusMatchesPlace OwnContext InterruptFlag ListsRepresent
PROPERTIES WokenByChild NoOvertaking StepsImplementLife
