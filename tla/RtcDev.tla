-------------------------------- MODULE RtcDev --------------------------------
(***************************************************************************)
(* The /dev/rtc character device of the CTP/PCI-SH03 real-time clock       *)
(* (drivers/char/sh03rtc.c): open/release, the interrupt ioctls, the      *)
(* blocking read, the interrupt handler and the missed-interrupt timer    *)
(* sh03_rtc_irq_timer with its handler sh03_rtc_dropped_irq.             *)
(*                                                                         *)
(* Actors: the chip (periodic tick and alarm set its TF / AF flags; an     *)
(* interrupt is asserted while a flag is set and its enable bit TIE / AIE  *)
(* is on), the interrupt handler, the timer handler (on SMP, concurrent    *)
(* with everything else), a control thread that opens, ioctl()s and       *)
(* releases the device, and a reader thread blocked in read().  ioctl()s  *)
(* are serialised by the big kernel lock, and release runs only once no   *)
(* read holds the file.  Every spin_lock_irq section is one step; a       *)
(* handler or ioctl with two lock sections is two steps, and the other    *)
(* actors may run in between.                                              *)
(*                                                                         *)
(* rtc_irq_data is the pair irqCount (the interrupts since the last read, *)
(* bits 8 and up) and irqFlags (the low byte: AF >> 1 and TF).  Counts    *)
(* above IrqCountCap are not told apart.                                   *)
(***************************************************************************)
EXTENDS Naturals, FiniteSets

CONSTANTS HZ,          \* jiffies per second
          MaxUserFreq, \* rtc_max_user_freq
          Freqs,       \* the rates RTC_IRQP_SET is called with
          IrqCountCap, \* saturation bound of the interrupt count
          MaxIoctls    \* bound on the interrupt ioctls the control thread makes

ASSUME HZ \in Nat \ {0} /\ IrqCountCap \in Nat \ {0} /\ MaxIoctls \in Nat

VARIABLES
    isOpen,       \* rtc_status & RTC_IS_OPEN
    timerOn,      \* rtc_status & RTC_TIMER_ON
    freq,         \* rtc_freq
    irqCount,     \* rtc_irq_data >> 8
    irqFlags,     \* rtc_irq_data & 0xff, as a set of "AF", "TF"
    chipEnable,   \* AIE of ATCTL, TIE of TMCTL, as a set of "AIE", "TIE"
    chipFlags,    \* AF of ATCTL, TF of TMCTL
    stalled,      \* the chip's interrupt was lost; it raises no new one
                  \* until its flags are cleared
    irqPc,        \* sh03_rtc_interrupt: "idle" or "wake" (after unlock)
    timerPending, \* sh03_rtc_irq_timer is queued
    dropPc,       \* sh03_rtc_dropped_irq: "idle", "run" or "wake"
    ctlPc,        \* control thread: "idle" or the second lock section of
                  \* "pieOn", "pieOff" or "release" still to run
    rdPc,         \* reader: "idle", "check", "sched" or "asleep"
    sleepy,       \* the reader's task state is TASK_INTERRUPTIBLE
    nonblock,     \* the reader's file has O_NONBLOCK
    sigPending,   \* a signal is pending for the reader
    aieReq,       \* history: the last alarm ioctl was RTC_AIE_ON
    ioctls,       \* interrupt ioctls made so far (bounded by MaxIoctls)
    bugs          \* kernel misuse that has happened

vars == <<isOpen, timerOn, freq, irqCount, irqFlags, chipEnable, chipFlags,
          stalled, irqPc, timerPending, dropPc, ctlPc, rdPc, sleepy,
          nonblock, sigPending, aieReq, ioctls, bugs>>

\* rtc_irq_data != 0
HasData == irqCount > 0 \/ irqFlags # {}

\* The chip's interrupt output.
Asserted == ("AF" \in chipFlags /\ "AIE" \in chipEnable)
            \/ ("TF" \in chipFlags /\ "TIE" \in chipEnable)

SatAdd(c, n) == IF c + n > IrqCountCap THEN IrqCountCap ELSE c + n

\* sh03_rtc_init: rtc_freq = 1, the timer initialised and idle; the
\* static rtc_status and rtc_irq_data are 0.  The chip's control
\* registers hold whatever they held, flags included.
Init ==
    /\ isOpen = FALSE
    /\ timerOn = FALSE
    /\ freq = 1
    /\ irqCount = 0
    /\ irqFlags = {}
    /\ chipEnable \in SUBSET {"AIE", "TIE"}
    /\ chipFlags \in SUBSET {"AF", "TF"}
    /\ stalled = FALSE
    /\ irqPc = "idle"
    /\ timerPending = FALSE
    /\ dropPc = "idle"
    /\ ctlPc = "idle"
    /\ rdPc = "idle"
    /\ sleepy = FALSE
    /\ nonblock = FALSE
    /\ sigPending = FALSE
    /\ aieReq = FALSE
    /\ ioctls = 0
    /\ bugs = {}

-----------------------------------------------------------------------------
(* The chip.                                                               *)

\* The periodic timer of the chip sets TF at the rate rtc_freq selects.
Tick ==
    /\ "TF" \notin chipFlags
    /\ chipFlags' = chipFlags \cup {"TF"}
    /\ UNCHANGED <<isOpen, timerOn, freq, irqCount, irqFlags, chipEnable,
                   stalled, irqPc, timerPending, dropPc, ctlPc, rdPc, sleepy,
                   nonblock, sigPending, aieReq, ioctls, bugs>>

\* The time reaches the alarm registers: AF is set.
AlarmMatch ==
    /\ "AF" \notin chipFlags
    /\ chipFlags' = chipFlags \cup {"AF"}
    /\ UNCHANGED <<isOpen, timerOn, freq, irqCount, irqFlags, chipEnable,
                   stalled, irqPc, timerPending, dropPc, ctlPc, rdPc, sleepy,
                   nonblock, sigPending, aieReq, ioctls, bugs>>

\* The asserted interrupt is lost (the case the driver's comment above
\* sh03_rtc_dropped_irq describes): the handler is not called and the
\* chip raises no new interrupt until its flags are cleared.
IrqLost ==
    /\ irqPc = "idle" /\ Asserted /\ ~stalled
    /\ stalled' = TRUE
    /\ UNCHANGED <<isOpen, timerOn, freq, irqCount, irqFlags, chipEnable,
                   chipFlags, irqPc, timerPending, dropPc, ctlPc, rdPc, sleepy,
                   nonblock, sigPending, aieReq, ioctls, bugs>>

-----------------------------------------------------------------------------
(* The interrupt handler and the missed-interrupt timer.                   *)

\* wake_up_interruptible(&sh03_rtc_wait): a reader on the wait queue in
\* TASK_INTERRUPTIBLE is made runnable.
Wake == sleepy' = FALSE

\* sh03_rtc_interrupt, its rtc_lock section: count the interrupt, replace
\* the low byte by AF >> 1 and TF, clear both chip flags, and push the
\* missed-interrupt timer on if RTC_TIMER_ON.
IrqUpdate ==
    /\ irqPc = "idle" /\ Asserted /\ ~stalled
    /\ irqCount' = SatAdd(irqCount, 1)
    /\ irqFlags' = chipFlags
    /\ chipFlags' = {}
    /\ timerPending' = (timerOn \/ timerPending)
    /\ irqPc' = "wake"
    /\ UNCHANGED <<isOpen, timerOn, freq, chipEnable, stalled, dropPc, ctlPc,
                   rdPc, sleepy, nonblock, sigPending, aieReq, ioctls, bugs>>

\* sh03_rtc_interrupt after the unlock: the callback (never registered
\* here), wake_up_interruptible and kill_fasync.
IrqWake ==
    /\ irqPc = "wake"
    /\ irqPc' = "idle"
    /\ Wake
    /\ UNCHANGED <<isOpen, timerOn, freq, irqCount, irqFlags, chipEnable,
                   chipFlags, stalled, timerPending, dropPc, ctlPc, rdPc,
                   nonblock, sigPending, aieReq, ioctls, bugs>>

\* sh03_rtc_irq_timer expires; its handler starts (and, on SMP, may wait
\* for rtc_lock).  A timer is not run twice at once.
TimerExpire ==
    /\ timerPending /\ dropPc = "idle"
    /\ timerPending' = FALSE
    /\ dropPc' = "run"
    /\ UNCHANGED <<isOpen, timerOn, freq, irqCount, irqFlags, chipEnable,
                   chipFlags, stalled, irqPc, ctlPc, rdPc, sleepy, nonblock,
                   sigPending, aieReq, ioctls, bugs>>

\* Mutant: sh03_rtc_dropped_irq without the reads of ATCTL and TMCTL.
DroppedIrqNoStatus ==
    /\ dropPc = "run"
    /\ timerPending' = (timerOn \/ timerPending)
    /\ irqCount' = SatAdd(irqCount, freq \div HZ)
    /\ irqFlags' = {}
    /\ dropPc' = "wake"
    /\ UNCHANGED <<isOpen, timerOn, freq, chipEnable, chipFlags, stalled, irqPc,
                   ctlPc, rdPc, sleepy, nonblock, sigPending, aieReq, ioctls, bugs>>

\* Mutant: sh03_rtc_dropped_irq re-arms the timer without testing
\* RTC_TIMER_ON.
DroppedIrqAlwaysRearm ==
    /\ dropPc = "run"
    /\ timerPending' = TRUE
    /\ irqCount' = SatAdd(irqCount, freq \div HZ)
    /\ irqFlags' = chipFlags
    /\ dropPc' = "wake"
    /\ UNCHANGED <<isOpen, timerOn, freq, chipEnable, chipFlags, stalled, irqPc,
                   ctlPc, rdPc, sleepy, nonblock, sigPending, aieReq, ioctls, bugs>>

\* sh03_rtc_dropped_irq, its rtc_lock section: re-arm the timer if
\* RTC_TIMER_ON, add rtc_freq / HZ interrupts to the count (none below
\* HZ), and replace the low byte by the chip's flags, which it reads but,
\* unlike the interrupt handler, does not clear.
DroppedIrq ==
    /\ dropPc = "run"
    /\ timerPending' = (timerOn \/ timerPending)
    /\ irqCount' = SatAdd(irqCount, freq \div HZ)
    /\ irqFlags' = chipFlags
    /\ dropPc' = "wake"
    /\ UNCHANGED <<isOpen, timerOn, freq, chipEnable, chipFlags, stalled, irqPc,
                   ctlPc, rdPc, sleepy, nonblock, sigPending, aieReq, ioctls, bugs>>

\* sh03_rtc_dropped_irq after the unlock: the warning, the wake-up and
\* kill_fasync.
DroppedWake ==
    /\ dropPc = "wake"
    /\ dropPc' = "idle"
    /\ Wake
    /\ UNCHANGED <<isOpen, timerOn, freq, irqCount, irqFlags, chipEnable,
                   chipFlags, stalled, irqPc, timerPending, ctlPc, rdPc,
                   nonblock, sigPending, aieReq, ioctls, bugs>>

-----------------------------------------------------------------------------
(* The control thread: open, the interrupt ioctls, release.               *)

\* The interrupt-enable bit sh03_set_rtc_irq_bit / sh03_mask_rtc_irq_bit
\* change for their argument: their switch has the cases RTC_AIE_ON /
\* RTC_AIE_OFF and RTC_PIE_ON / RTC_PIE_OFF (the ioctl numbers).
IrqBit(bit) ==
    CASE bit \in {"RTC_AIE_ON", "RTC_AIE_OFF"} -> {"AIE"}
      [] bit \in {"RTC_PIE_ON", "RTC_PIE_OFF"} -> {"TIE"}
      [] OTHER -> {}

\* Both helpers end by clearing rtc_irq_data, in the same lock section.
SetIrqBit(bit) ==
    /\ chipEnable' = chipEnable \cup IrqBit(bit)
    /\ irqCount' = 0 /\ irqFlags' = {}

MaskIrqBit(bit) ==
    /\ chipEnable' = chipEnable \ IrqBit(bit)
    /\ irqCount' = 0 /\ irqFlags' = {}

\* sh03_rtc_open: under rtc_lock, fail with EBUSY if open (no step),
\* else mark open and clear rtc_irq_data.
Open ==
    /\ ~isOpen /\ ctlPc = "idle"
    /\ isOpen' = TRUE
    /\ irqCount' = 0 /\ irqFlags' = {}
    /\ UNCHANGED <<timerOn, freq, chipEnable, chipFlags, stalled, irqPc,
                   timerPending, dropPc, ctlPc, rdPc, sleepy, nonblock,
                   sigPending, aieReq, ioctls, bugs>>

\* An interrupt ioctl; each counts towards MaxIoctls.
Ioctl == isOpen /\ ctlPc = "idle" /\ ioctls < MaxIoctls /\ ioctls' = ioctls + 1

\* RTC_AIE_ON / RTC_AIE_OFF: sh03_set/mask_rtc_irq_bit(RTC_AIE).  RTC_AIE
\* is the chip's bit value 1, which is neither RTC_AIE_ON nor RTC_AIE_OFF.
AieOn ==
    /\ Ioctl
    /\ SetIrqBit("RTC_AIE")
    /\ aieReq' = TRUE
    /\ UNCHANGED <<isOpen, timerOn, freq, chipFlags, stalled, irqPc,
                   timerPending, dropPc, ctlPc, rdPc, sleepy, nonblock,
                   sigPending, bugs>>

AieOff ==
    /\ Ioctl
    /\ MaskIrqBit("RTC_AIE")
    /\ aieReq' = FALSE
    /\ UNCHANGED <<isOpen, timerOn, freq, chipFlags, stalled, irqPc,
                   timerPending, dropPc, ctlPc, rdPc, sleepy, nonblock,
                   sigPending, bugs>>

\* RTC_PIE_ON, first part: EACCES (no step) above rtc_max_user_freq
\* without CAP_SYS_RESOURCE; if RTC_TIMER_ON is clear, add_timer and set
\* it under rtc_lock.  add_timer of a queued timer is a BUG.
PieOn(cap) ==
    /\ Ioctl
    /\ freq <= MaxUserFreq \/ cap
    /\ IF timerOn
         THEN UNCHANGED <<timerOn, timerPending, bugs>>
         ELSE /\ timerOn' = TRUE
              /\ timerPending' = TRUE
              /\ bugs' = IF timerPending THEN bugs \cup {"add_pending"} ELSE bugs
    /\ ctlPc' = "pieOn"
    /\ UNCHANGED <<isOpen, freq, irqCount, irqFlags, chipEnable, chipFlags,
                   stalled, irqPc, dropPc, rdPc, sleepy, nonblock, sigPending,
                   aieReq>>

\* RTC_PIE_ON, second part: sh03_set_rtc_irq_bit(RTC_PIE_ON).
PieOnEnable ==
    /\ ctlPc = "pieOn"
    /\ SetIrqBit("RTC_PIE_ON")
    /\ ctlPc' = "idle"
    /\ UNCHANGED <<isOpen, timerOn, freq, chipFlags, stalled, irqPc,
                   timerPending, dropPc, rdPc, sleepy, nonblock, sigPending,
                   aieReq, ioctls, bugs>>

\* RTC_PIE_OFF, first part: sh03_mask_rtc_irq_bit(RTC_PIE_OFF).
PieOff ==
    /\ Ioctl
    /\ MaskIrqBit("RTC_PIE_OFF")
    /\ ctlPc' = "pieOff"
    /\ UNCHANGED <<isOpen, timerOn, freq, chipFlags, stalled, irqPc,
                   timerPending, dropPc, rdPc, sleepy, nonblock, sigPending,
                   aieReq, bugs>>

\* RTC_PIE_OFF, second part: if RTC_TIMER_ON, clear it and del_timer
\* under rtc_lock.  del_timer does not wait for a running handler.
PieOffTimer ==
    /\ ctlPc = "pieOff"
    /\ timerOn' = FALSE
    /\ timerPending' = (timerPending /\ ~timerOn)
    /\ ctlPc' = "idle"
    /\ UNCHANGED <<isOpen, freq, irqCount, irqFlags, chipEnable, chipFlags,
                   stalled, irqPc, dropPc, rdPc, sleepy, nonblock, sigPending,
                   aieReq, ioctls, bugs>>

\* Mutant: RTC_IRQP_SET without the switch on the rate.
AnyFreq(f) == TRUE

\* The rates RTC_IRQP_SET's switch accepts; any other is EINVAL.
ValidFreq(f) == f \in {1, 64, 4096}

\* RTC_IRQP_SET: EACCES above rtc_max_user_freq without CAP_SYS_RESOURCE,
\* EINVAL for a rate the chip lacks (no step for either); else set
\* rtc_freq (and the chip's clock select) under rtc_lock.
IrqpSet(f, cap) ==
    /\ Ioctl
    /\ f <= MaxUserFreq \/ cap
    /\ ValidFreq(f)
    /\ freq' = f
    /\ UNCHANGED <<isOpen, timerOn, irqCount, irqFlags, chipEnable, chipFlags,
                   stalled, irqPc, timerPending, dropPc, ctlPc, rdPc, sleepy,
                   nonblock, sigPending, aieReq, bugs>>

\* sh03_rtc_release, first lock section, once no read holds the file:
\* write 0 to ATCTL and TMCTL (enables and flags), clear RTC_TIMER_ON
\* and del_timer.  The alarm request of the closed file is void.
Release ==
    /\ isOpen /\ ctlPc = "idle" /\ rdPc = "idle"
    /\ chipEnable' = {} /\ chipFlags' = {} /\ stalled' = FALSE
    /\ timerOn' = FALSE
    /\ timerPending' = (timerPending /\ ~timerOn)
    /\ ctlPc' = "release"
    /\ aieReq' = FALSE
    /\ UNCHANGED <<isOpen, freq, irqCount, irqFlags, irqPc, dropPc, rdPc,
                   sleepy, nonblock, sigPending, ioctls, bugs>>

\* sh03_rtc_release, second lock section: clear rtc_irq_data and
\* RTC_IS_OPEN.
ReleaseDone ==
    /\ ctlPc = "release"
    /\ irqCount' = 0 /\ irqFlags' = {}
    /\ isOpen' = FALSE
    /\ ctlPc' = "idle"
    /\ UNCHANGED <<timerOn, freq, chipEnable, chipFlags, stalled, irqPc,
                   timerPending, dropPc, rdPc, sleepy, nonblock, sigPending,
                   aieReq, ioctls, bugs>>

-----------------------------------------------------------------------------
(* The reader: sh03_rtc_read.                                              *)

\* read() on the open file (with or without O_NONBLOCK): add_wait_queue.
ReadStart(nb) ==
    /\ rdPc = "idle" /\ isOpen /\ ctlPc # "release"
    /\ rdPc' = "check"
    /\ nonblock' = nb
    /\ UNCHANGED <<isOpen, timerOn, freq, irqCount, irqFlags, chipEnable,
                   chipFlags, stalled, irqPc, timerPending, dropPc, ctlPc,
                   sleepy, sigPending, aieReq, ioctls, bugs>>

\* One pass of the loop: __set_current_state(TASK_INTERRUPTIBLE), take
\* and clear rtc_irq_data under rtc_lock; return it if nonzero, else
\* return EAGAIN under O_NONBLOCK or ERESTARTSYS with a signal pending
\* (setting TASK_RUNNING and leaving the wait queue), else go to
\* schedule().
ReadCheck ==
    /\ rdPc = "check"
    /\ irqCount' = 0 /\ irqFlags' = {}
    /\ IF HasData \/ nonblock \/ sigPending
         THEN /\ rdPc' = "idle" /\ sleepy' = FALSE
              /\ sigPending' = FALSE  \* delivered on the way out
         ELSE /\ rdPc' = "sched" /\ sleepy' = TRUE
              /\ UNCHANGED sigPending
    /\ UNCHANGED <<isOpen, timerOn, freq, chipEnable, chipFlags, stalled,
                   irqPc, timerPending, dropPc, ctlPc, nonblock, aieReq,
                   ioctls, bugs>>

\* schedule(): a task still TASK_INTERRUPTIBLE sleeps; one a wake-up made
\* runnable since returns at once to the loop.
ReadSchedule ==
    /\ rdPc = "sched"
    /\ rdPc' = IF sleepy THEN "asleep" ELSE "check"
    /\ UNCHANGED <<isOpen, timerOn, freq, irqCount, irqFlags, chipEnable,
                   chipFlags, stalled, irqPc, timerPending, dropPc, ctlPc,
                   sleepy, nonblock, sigPending, aieReq, ioctls, bugs>>

\* The sleeping reader, made runnable, is scheduled again.
ReadWoken ==
    /\ rdPc = "asleep" /\ ~sleepy
    /\ rdPc' = "check"
    /\ UNCHANGED <<isOpen, timerOn, freq, irqCount, irqFlags, chipEnable,
                   chipFlags, stalled, irqPc, timerPending, dropPc, ctlPc,
                   sleepy, nonblock, sigPending, aieReq, ioctls, bugs>>

\* A signal for the reader in read(): signal_wake_up makes it runnable.
Signal ==
    /\ rdPc # "idle" /\ ~sigPending
    /\ sigPending' = TRUE
    /\ Wake
    /\ UNCHANGED <<isOpen, timerOn, freq, irqCount, irqFlags, chipEnable,
                   chipFlags, stalled, irqPc, timerPending, dropPc, ctlPc,
                   rdPc, nonblock, aieReq, ioctls, bugs>>

-----------------------------------------------------------------------------
Next ==
    \/ Tick \/ AlarmMatch \/ IrqLost
    \/ IrqUpdate \/ IrqWake \/ TimerExpire \/ DroppedIrq \/ DroppedWake
    \/ Open \/ AieOn \/ AieOff \/ PieOnEnable \/ PieOff \/ PieOffTimer
    \/ \E cap \in BOOLEAN : PieOn(cap) \/ \E f \in Freqs : IrqpSet(f, cap)
    \/ Release \/ ReleaseDone
    \/ \E nb \in BOOLEAN : ReadStart(nb)
    \/ ReadCheck \/ ReadSchedule \/ ReadWoken \/ Signal

\* The chip's periodic timer runs; an asserted interrupt is delivered
\* unless lost; expired kernel timers run; a started handler, ioctl or
\* release finishes; a runnable reader is scheduled.
Fairness ==
    /\ WF_vars(Tick)
    /\ WF_vars(IrqUpdate) /\ WF_vars(IrqWake)
    /\ WF_vars(TimerExpire) /\ WF_vars(DroppedIrq) /\ WF_vars(DroppedWake)
    /\ WF_vars(PieOnEnable) /\ WF_vars(PieOffTimer) /\ WF_vars(ReleaseDone)
    /\ WF_vars(ReadCheck) /\ WF_vars(ReadSchedule) /\ WF_vars(ReadWoken)

Spec == Init /\ [][Next]_vars /\ Fairness

-----------------------------------------------------------------------------
TypeOK ==
    /\ isOpen \in BOOLEAN /\ timerOn \in BOOLEAN
    /\ freq \in {1, 64, 4096}
    /\ irqCount \in 0..IrqCountCap
    /\ irqFlags \subseteq {"AF", "TF"} /\ chipFlags \subseteq {"AF", "TF"}
    /\ chipEnable \subseteq {"AIE", "TIE"}
    /\ stalled \in BOOLEAN /\ timerPending \in BOOLEAN
    /\ irqPc \in {"idle", "wake"} /\ dropPc \in {"idle", "run", "wake"}
    /\ ctlPc \in {"idle", "pieOn", "pieOff", "release"}
    /\ rdPc \in {"idle", "check", "sched", "asleep"}
    /\ sleepy \in BOOLEAN /\ nonblock \in BOOLEAN /\ sigPending \in BOOLEAN
    /\ aieReq \in BOOLEAN /\ ioctls \in 0..MaxIoctls
    /\ bugs \subseteq {"add_pending"}

\* RTC_PIE_ON never add_timer()s sh03_rtc_irq_timer while it is queued,
\* whatever the interrupt handler and the timer handler (running on
\* another CPU, waiting for rtc_lock) do between an RTC_PIE_OFF or a
\* release and the next RTC_PIE_ON.
NoAddPendingTimer == "add_pending" \notin bugs

\* A reader asleep in read() while the periodic interrupt's watchdog
\* timer is on is eventually woken with data (or the interrupt is
\* switched off): the interrupt handler counts and wakes, and when the
\* chip's interrupt is lost, sh03_rtc_dropped_irq does.
ReaderServed == (rdPc = "asleep" /\ timerOn) ~> (rdPc = "idle" \/ ~timerOn)

\* After RTC_AIE_ON the chip's alarm interrupt is enabled (until
\* RTC_AIE_OFF or release).
AlarmFollowsIoctl == aieReq => "AIE" \in chipEnable
=============================================================================
