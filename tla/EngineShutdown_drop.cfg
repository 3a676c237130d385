SPECIFICATION Spec
CONSTANTS
  Slots = {s1}
  None = None
PROPERTIES DropEnds
CHECK_DEADLOCK FALSE
