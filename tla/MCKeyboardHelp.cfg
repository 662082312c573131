SPECIFICATION Spec
CONSTANTS
  Keys = {"lctrl", "lalt", "a", "l", "slash", "home"}
  MaxWire = 2
  MAX_INPUT_LENGTH = 3
  MAX_HISTORY_ENTRIES = 1
PROPERTY
  HelpHome
