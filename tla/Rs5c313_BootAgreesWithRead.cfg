CONSTANTS
    Tms <- UserTms
    Epochs <- UserEpochs
    Garbage <- BatteryGarbage
    MaxTicks = 0
SPECIFICATION Spec
INVARIANT BootAgreesWithRead
