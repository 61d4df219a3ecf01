\* One process writing streams of up to ten units in writes of one, two
\* or four units into two buffers of three units, with breaks, STEREO
\* ioctls and signals at any point.
CONSTANTS
  SIZE = 3
  Counts = {1, 2, 4}
  MaxUnits = 10
SPECIFICATION Spec
INVARIANT TypeOK
PROPERTY NoUnplayedOverwrite
PROPERTY ReleaseReturns
