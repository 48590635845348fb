\* One slot of two sections, over either connection.
SPECIFICATION Spec
CONSTANTS
  Slot = {1}
  Writable = {1}
  Sections = 2
  Room = 2
  Ramp = Ramp
  Script <- MCScript
  Broken = {}
  Size <- MCSize
  None = None
  BuiltIn = 0
  MsgId = {1, 2}
  Kinds = {"serial", "ws"}
  FifoSize = 2
  Crowded = TRUE
INVARIANTS TypeOK MenuIsCurrent RunsInASession
PROPERTIES RunsWhatWasListed Answers
