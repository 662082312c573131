SPECIFICATION FairSpec
CONSTANTS
  Seconds = 3
  Minutes = 2
  Junk = 1
INVARIANTS
  NeverTorn
  DisplaysTime
PROPERTY
  Returns
