\* One write of a buffer and a half: close always has a partial buffer.
CONSTANTS
  SIZE = 2
  Counts = {3}
  MaxUnits = 3
SPECIFICATION Spec
INVARIANT ReleasePlaysAll
