SPECIFICATION Spec
CONSTANTS
  Byte <- MCByte
  Key <- MCKey
  Xor <- MCXor
  CrcStep <- MCCrcStep
  Rc5Encrypt <- MCRc5Encrypt
  Rc5Decrypt <- MCRc5Decrypt
  SharedKey = 1
  Fillings <- MCFillings
  Rand = {0, 3}
  SeqSpan = 2
INVARIANTS
  TypeOK
  ControllerRecovers
  ClearBeyondBlocks
