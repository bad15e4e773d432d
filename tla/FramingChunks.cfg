SPECIFICATION Spec
CONSTANTS
  x = x
  s = s
  t = t
  Byte = {x, s, t}
  StreamMax = 6
  Framing <- OneByteMarkers
  MaxLength = 3
  Chunk = 3
  MaxResyncs = 1
INVARIANTS FirstHeadCounts
CHECK_DEADLOCK FALSE
