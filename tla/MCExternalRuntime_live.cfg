CONSTANTS
  i1 = i1
  i2 = i2
  i3 = i3
  p1 = p1
  Instr <- MCInstr
  Plain <- MCPlain
  Streams <- MCStreams
  MaxChunk = 3
SPECIFICATION Spec
PROPERTY EveryInstructionRuns
CHECK_DEADLOCK FALSE
