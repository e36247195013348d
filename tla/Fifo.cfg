SPECIFICATION Spec
CONSTANTS
  Byte = {0, 1}
  Size = 4
PROPERTIES IsByteQueue
