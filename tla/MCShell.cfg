SPECIFICATION Spec
CONSTANTS
  Chars <- MCChars
  Space = " "
  Nul = "0"
  MAX_INPUT_LENGTH = 4
  MAX_HISTORY_ENTRIES = 2
  MAX_ARGS = 2
  MAX_ARG_LENGTH = 2
  ExitCommand <- MCExit
INVARIANTS
  TypeOK
  LineSound
  NoHoles
  ArgsKeepText
PROPERTY
  EditorSpec
