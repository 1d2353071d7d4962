CONSTANTS
  None = None
  Letter <- MCLetter
  Char <- MCChar
  Pasted <- MCPasted
  Commands <- MCCommands
  FlagsOf <- MCFlagsOf
  MaxShow = 2
  MaxLen = 0
  MaxChange = 1
  MaxDraft = 0
  Exits <- MCNone
  Clears <- MCNone
  MaxHistory = 2
  MaxRequests = 2
  MaxIterations = 1
SPECIFICATION MCReplSpec
INVARIANTS ResultsFollowTheirCall StragglersWereAborted
PROPERTIES AbortedStartsNothing OnlyTheCurrentSpeaks AbortGivesPromptBack
CHECK_DEADLOCK FALSE
