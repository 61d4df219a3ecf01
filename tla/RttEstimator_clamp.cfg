\* RttEstimator: HZ = 4 keeps the numbers small while keeping the
\* one-second floor (4 jiffies) and the 60-second cap (240 jiffies)
\* distinct.  The samples cover r = 0 (srtt 0), RTTs just above and below
\* 8 jiffies (where the shifted EWMA loses precision), one whose first RTO
\* 3r lands in (60 s, 61 s), and one beyond the cap.
CONSTANTS
  HZ = 4
  Samples = {0, 7, 9, 81, 250}
SPECIFICATION Spec
INVARIANT RtoWithinSpec
