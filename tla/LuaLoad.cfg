\* One writable slot of three sections, four cells each, and one built-in
\* script.  Ramp can be sent in every length from nothing to too large.
SPECIFICATION Spec
CONSTANTS
  Slot = {s1, s2}
  Writable = {s1}
  Sections = 3
  Room = 4
  Ramp = Ramp
  Wave = Wave
  Typo = Typo
  Script <- MCScript
  Broken = {Typo}
  Size <- MCSize
  None = None
INVARIANTS TypeOK AckedIsShown
PROPERTY StoresWholeScripts
