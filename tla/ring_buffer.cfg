SPECIFICATION Spec
CONSTANTS
  Bytes = {b0, b1}
  Size = 3
  MaxRead = 4
  MaxWrite = 4
  Chunks <- MCChunks
INVARIANTS
  CopiesStayApart
  PeeksStayTrue
PROPERTY
  ImplementsFifo
