SPECIFICATION FairSpec
CONSTANTS
  Blocks = 2
  Value = {0, 1}
  BLOCKLEN = 4
  MaxRetries = 2
  MaxFaults = 2
CHECK_DEADLOCK FALSE
INVARIANTS
  TypeOK
PROPERTIES
  DeviceKept
  SecondTrySucceeds
  CallReturns
  ImplementsBlockDevice
