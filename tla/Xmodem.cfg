\* Nine blocks with numbers of three bits, so that they wrap, and with the
\* control characters among them; three faults, two uploads.
SPECIFICATION Spec
CONSTANTS
  Blocks = 9
  Width = 8
  Soh = 1
  Eot = 4
  Can = 6
  Old = Old
  Erased = Erased
  Zero = Zero
  Mixed = Mixed
  Files <- MCFiles
  MaxErrors = 10
  Retry = 10
  MaxFaults = 3
  MaxTransfers = 2
INVARIANTS TypeOK FirstUploadIsWhole
PROPERTIES TakesTheFile Ends Succeeds
CHECK_DEADLOCK FALSE
