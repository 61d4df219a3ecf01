\* Streams of whole buffers: close with no partial buffer left.
CONSTANTS
  SIZE = 2
  Counts = {2}
  MaxUnits = 4
SPECIFICATION Spec
INVARIANT ReleasePlaysAll
