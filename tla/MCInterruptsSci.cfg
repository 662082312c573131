SPECIFICATION Spec
CONSTANTS
  MaxBytes = 1
  Wait = 1
  TickMicros = 3
  TickMillis = 3
  Frequency = 2
  UIntMod = 16
INVARIANT
  InstallReported
