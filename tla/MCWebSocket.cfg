SPECIFICATION PartsSpec
CONSTANTS
  Drains = {d1, d2}
  Nobody = Nobody
  SendCap = 1
  SendBound = 2
  MsgBound = 1
  d1 = d1
  d2 = d2
  Lengths <- MCLengths
  Opcodes <- MCOpcodes
SYMMETRY DrainSymmetry
INVARIANTS
  CloseIsLast
  SentInOrder
  NeverStuck
  FramesReadable
CHECK_DEADLOCK FALSE
