SPECIFICATION Spec
CONSTANTS
  Keys = {"lshift", "rshift", "rctrl", "prtsc", "c", "enter"}
  MaxWire = 4
  MAX_INPUT_LENGTH = 2
  MAX_HISTORY_ENTRIES = 1
INVARIANTS
  PrefixInStep
  NoStuckModifier
