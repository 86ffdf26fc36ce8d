CONSTANTS
  c1 = c1
  c2 = c2
  c3 = c3
  NoCnx = NoCnx
  Cnx <- MCCnx
  FdOf <- MCFdOf
  TimeoutOf <- MCTimeoutOf
  AutoDestroy <- MCAutoDestroy
  IoModes <- MCIoModesDuplex
  ResetModes <- MCResetModes
  FdSetSize = 2
  MaxTime = 1
  MaxErrors = 1
  MaxServCount = 3
SPECIFICATION Spec
INVARIANT
  NoNullDereference
