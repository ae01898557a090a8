SPECIFICATION Spec
CONSTANTS
  Cells = {e1, e2, e3, e4}
  Payloads = {w1, w2}
  Keys = {k1, k2}
  KeyOf <- KeyOfTwo
  NULL = NULL
  w1 = w1
  w2 = w2
  k1 = k1
  k2 = k2
INVARIANTS ListShape NoDanglingEntry
PROPERTIES ImplementsQueue SearchEnds
