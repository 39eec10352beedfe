SPECIFICATION Spec
CONSTANTS
  SIZE_KEYBOARD_BUFFER = 8
  Bytes = {1, 2, 8, 9, 10, 13, 15, 18, 19, 20, 21, 22, 23, 26, 28, 32, 34, 128, 136, 255}
  MaxPackets = 2
  MaxLoad = 2
INVARIANTS TypeOK WholePackets ParserInSync AnswerFirst ProgramLoaded
