\* RtcDev: HZ is the SH default of 250, so sh03_rtc_dropped_irq adds no
\* count at 1 and 64 Hz and 16 at 4096 Hz; 128 Hz is a rate the chip lacks.
\* Three interrupt ioctls reach PIE_ON, PIE_OFF, PIE_ON with the timer
\* handler in between.
CONSTANTS
  HZ = 250
  MaxUserFreq = 64
  Freqs = {1, 64, 128, 4096}
  IrqCountCap = 2
  MaxIoctls = 3
SPECIFICATION Spec
INVARIANT TypeOK
INVARIANT NoAddPendingTimer
PROPERTY ReaderServed
