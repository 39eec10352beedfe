SPECIFICATION Spec
CONSTANTS
  ByteBits = 2
  SIZE_KEYBOARD_BUFFER = 2
  CRValues <- MCReceive
  TxBytes <- NoByte
  KeyBytes <- MCTwoBytes
  Delays <- MCDelays
INVARIANT RequestOnLine
PROPERTIES FromKeyboard OverrunSeen
