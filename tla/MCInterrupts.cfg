SPECIFICATION FairSpec
CONSTANTS
  MaxBytes = 3
  Wait = 2
  TickMicros = 3
  TickMillis = 3
  Frequency = 2
  UIntMod = 16
INVARIANTS
  TypeOK
  ServiceMatches
  NoWedge
  TakesInOrder
  CpuAlive
  WaitsLongEnough
  
PROPERTIES
  ScancodesHandled
  WaitReturns
