\* Three frames, one lost byte and one debug message.
SPECIFICATION Spec
CONSTANTS
  Payloads <- SomePayloads
  BufSize = 6
  MaxFrames = 3
  MaxDrops = 1
INVARIANTS WithinBuffer CrcIsRemainder Genuine Accounted
CHECK_DEADLOCK FALSE
