\* Two uploads without a restart, with the bytes of the code.
SPECIFICATION Spec
CONSTANTS
  Blocks = 3
  Width = 256
  Soh = 1
  Eot = 4
  Can = 24
  Old = Old
  Erased = Erased
  Zero = Zero
  Mixed = Mixed
  Files <- MCFiles
  MaxErrors = 10
  Retry = 10
  MaxFaults = 1
  MaxTransfers = 2
INVARIANT StartableIsWhole
CHECK_DEADLOCK FALSE
