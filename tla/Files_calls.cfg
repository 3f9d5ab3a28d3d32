SPECIFICATION Spec
CONSTANTS
  a = a
  k1 = k1
  k2 = k2
  EOF = EOF
  Junk = Junk
  Fd <- Descriptors
  Byte <- Bytes
  Modes <- OpenModes
  W = 8
  Memory = 5
  MaxLen = 2
  Seeks = {0, 2, 7}
SYMMETRY Sym
INVARIANTS
  TypeOK
  InBuffer
  NoJunkFromStart
PROPERTY
  ContentsByWrite
CHECK_DEADLOCK FALSE
