CONSTANTS
    Tms <- UserTms
    Epochs <- UserEpochs1970
    Garbage <- BatteryGarbage
    MaxTicks = 0
SPECIFICATION Spec
INVARIANT ReadValid
