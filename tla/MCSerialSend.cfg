SPECIFICATION Spec
CONSTANTS
  ByteBits = 2
  SIZE_KEYBOARD_BUFFER = 2
  CRValues <- MCSend
  TxBytes <- MCTwoBytes
  KeyBytes <- NoByte
  Delays <- MCDelays
PROPERTIES ToKeyboard StaysAligned 
