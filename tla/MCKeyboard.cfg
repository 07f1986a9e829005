CONSTANTS
  Key = {k1, k2, k3}
  NoKey = NoKey
  BUF_SIZE = 4
  WORD = 16
SPECIFICATION Spec
INVARIANTS TypeOK FrontIsTheReaders
PROPERTY ImplementsKeyFifo
