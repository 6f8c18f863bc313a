SPECIFICATION Spec
CONSTANTS
  addr1 = addr1
  addr2 = addr2
  Main = Main
  Lib = Lib
  m1 = m1
  m2 = m2
  e1 = e1
  h1 = h1
  Register <- MCRegister
  Program <- MCProgram
  Object <- MCObject
  Host <- MCHost
  External <- MCExternal
  Declared <- TwoBlocks
  Address <- MCAddress
  Stride <- MCStride
  Count <- MCCount
  Word <- MCWord
  Transfer <- MCTransfer
  PushSize = 2
  Operand <- NarrowOperands
  Mod = 16
INVARIANT StackInBlock
