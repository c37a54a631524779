SPECIFICATION FrameSpec
CONSTANTS
  Lengths <- MCLengths
  Opcodes <- MCOpcodes
INVARIANT ClientFramesReadable
CHECK_DEADLOCK FALSE
