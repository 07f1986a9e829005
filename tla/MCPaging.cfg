CONSTANTS
  ENTRIES = 20
  TEMP = 35
  num_of_page = 60
  REFS = 6
  kernel_page_break = 2
  MAX_PID = 3
  Data = {d1, d2}
  NoData = NoData
SPECIFICATION Spec
INVARIANTS TypeOK StructuresVisible MemoryIsPrivate UsedPagesCounted
PROPERTY ForkCopies
SYMMETRY Values
