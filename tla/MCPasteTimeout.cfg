CONSTANTS
  None = None
  Letter <- MCLetter
  Char <- PasteChar
  Pasted <- PastePieces
  Commands <- MCCommands
  FlagsOf <- MCFlagsOf
  MaxShow = 2
  MaxLen = 1
  MaxChange = 4
  MaxDraft = 0
SPECIFICATION MCPasteSpec
PROPERTIES PasteModeEnds
CHECK_DEADLOCK FALSE
