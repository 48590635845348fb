\* A serial connection that may be reset in the middle of a message.
SPECIFICATION Spec
CONSTANTS
  Slot = {1}
  Writable = {1}
  Sections = 2
  Room = 2
  Ramp = Ramp
  Script <- MCScript
  Broken = {}
  Size <- MCSize
  None = None
  BuiltIn = 0
  MsgId = {1}
  Kinds = {"serial"}
  FifoSize = 2
  Crowded = FALSE
PROPERTY EveryMessageAnswered
