CONSTANTS
  None = None
  Letter <- MCLetter
  Char <- MCChar
  Pasted <- MCPasted
  Commands <- MCCommands
  FlagsOf <- MCFlagsOf
  MaxShow = 2
  MaxLen = 1
  MaxChange = 4
  MaxDraft = 0
SPECIFICATION MCEditorSpec
INVARIANTS EditorTypeOK DropdownIsCurrent
PROPERTIES PasteRunsNothing
CHECK_DEADLOCK FALSE
