\* Rs5c313: six structs for SET_TIME, the epochs 1900 and 2000
\* (those ReadValid is stated for), two garbage
\* chips after a battery loss, and two carries into the hour, enough for a
\* carry at 1999-12-31 23h to race a read.
CONSTANTS
    Tms <- UserTms
    Epochs <- UserEpochs
    Garbage <- BatteryGarbage
    MaxTicks = 2
SPECIFICATION Spec
INVARIANT TypeOK
INVARIANT ReadValid
PROPERTY ReadKeepsValidTime
INVARIANT ReadNotTorn
PROPERTY AccessReturns
