SPECIFICATION Spec
CONSTANTS
  x = x
  s = s
  t = t
  Byte = {x, s, t}
  StreamMax = 7
  Framing <- AllModes
  MaxLength = 3
  Chunk = 3
  MaxResyncs = 1
INVARIANTS FramesSound NoMessageLost BufferBounded FailsForCause
CHECK_DEADLOCK FALSE
