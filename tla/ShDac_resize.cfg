\* ShDac: a five-byte data_buffer, a ring of four frames (or, for the
\* resize check, of three or four) with periods of two, and streams of up
\* to six frames, so that a stream wraps the ring once and ends anywhere
\* in it.
CONSTANTS
  Cap = 5
  Sizes = {3, 4}
  Period = 2
  MaxFrames = 6
SPECIFICATION Spec
INVARIANT NoReadPastBuffer
