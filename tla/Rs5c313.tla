------------------------------- MODULE Rs5c313 -------------------------------
(***************************************************************************)
(* The RICOH RS5C313 real-time-clock driver of the SH LANDISK board       *)
(* (drivers/char/rs5c313_rtc.c): a single-open misc device whose ioctls   *)
(* read and set the chip's calendar and the driver's epoch, and            *)
(* rs5c313_get_cmos_time, which the kernel also calls at boot to take the *)
(* system time from the chip.                                              *)
(*                                                                         *)
(* The chip keeps BCD counters in pairs of 4-bit registers.  A field of    *)
(* `chip' is the byte its two registers make (rs5c313_read_reg returns a  *)
(* nibble, rs5c313_write_reg writes one); the fields kept are yr, mon,    *)
(* day and hr.  min and sec pass through the same code as hr and are left *)
(* out, so the chip's counting is kept as the carry into the hour: a      *)
(* Tick is the second after xx:59:59.  The chip performs a carry with its *)
(* ADJ/BSY bit set (TickStart .. TickDone); while CE is high and no carry *)
(* is under way it holds a carry back until CE goes low.  The driver's    *)
(* chip accesses are steps of one caller at a time (rtc_lock or boot):    *)
(* rtc_lock does not stop the chip, so a carry can come between any two.  *)
(* xstp is the chip's oscillator-stop flag, which the adjust write of the *)
(* repair path clears.  A struct rtc_time is a record with tm_year,       *)
(* tm_mon, tm_mday, tm_hour.                                               *)
(***************************************************************************)
EXTENDS Integers

CONSTANTS Tms,      \* struct rtc_time values userspace passes to RTC_SET_TIME
          Epochs,   \* epochs userspace passes to RTC_EPOCH_SET
          Garbage,  \* chip contents after the backup battery ran out
          MaxTicks  \* bound on the chip's carries into the hour

VARIABLES
    chip,      \* the chip's time registers
    xstp,      \* the chip's XSTP (oscillator stopped) flag
    bsy,       \* the chip is carrying (ADJ/BSY reads 1)
    held,      \* a carry the chip holds back while CE is high
    ce,        \* the CE line is high
    epoch,     \* the driver's static epoch
    isOpen,    \* RTC_IS_OPEN in rtc_status
    call,      \* the chip access under way: "none", "rd" (RTC_RD_TIME),
               \* "boot" (time_init) or "set" (RTC_SET_TIME)
    pc,        \* its step: "xstp", "cur", "regs", "check", "sbusy", "swrite"
    clkstop,   \* get_cmos_time's clkstop
    got,       \* the bytes get_cur_time read
    pending,   \* the bytes set_cur_time is to write
    ticks,     \* carries so far (bounded by MaxTicks)
    seen,      \* history: the chip's contents since the access began
    lastGot,   \* history: what the last get_cmos_time returned, and seen
    lastSet,   \* history: the last SET_TIME accepted, with its epoch
    lastRead,  \* history: what the last RTC_RD_TIME returned
    bootTime   \* history: the date the kernel took at its last boot

vars == <<chip, xstp, bsy, held, ce, epoch, isOpen, call, pc, clkstop, got,
          pending, ticks, seen, lastGot, lastSet, lastRead, bootTime>>

NoTm == [tm_year |-> -1, tm_mon |-> -1, tm_mday |-> -1, tm_hour |-> -1]
NoSet == [tm |-> NoTm, epoch |-> 0]
NoChip == [yr |-> -1, mon |-> -1, day |-> -1, hr |-> -1]
NoGot == [got |-> NoChip, seen |-> {}]

BCD2BIN(b) == (b % 16) + ((b \div 16) * 10)
BIN2BCD(v) == (((v \div 10) * 16) + (v % 10)) % 256

\* days_in_mo[], indexed by month 1..12; entry 0 is 0.
days_in_mo == <<31, 28, 31, 30, 31, 30, 31, 31, 30, 31, 30, 31>>
DaysInMo(m) == IF m \in 1..12 THEN days_in_mo[m] ELSE 0
LeapYr(y) == (y % 4 = 0 /\ y % 100 # 0) \/ y % 400 = 0

\* The field values RTC_SET_TIME computes from a struct rtc_time: unsigned
\* char fields keep the low 8 bits, and yrs is relative to the epoch.
SetFields(tm) ==
    [yrs |-> tm.tm_year + 1900, mon |-> (tm.tm_mon + 1) % 256,
     day |-> tm.tm_mday % 256, hrs |-> tm.tm_hour % 256]

\* Mutant: the days_in_mo check dropped.
AcceptsNoMonthLength(tm, e) ==
    LET f == SetFields(tm) IN
    /\ f.yrs >= 1970
    /\ f.mon <= 12 /\ f.day # 0 /\ f.mon # 0
    /\ f.hrs < 24
    /\ f.yrs >= e /\ f.yrs - e <= 169

\* RTC_SET_TIME's checks, each returning -EINVAL.  "(yrs -= epoch) > 255"
\* is unsigned, so a year before the epoch fails it too.
Accepts(tm, e) ==
    LET f == SetFields(tm) IN
    /\ f.yrs >= 1970
    /\ f.mon <= 12 /\ f.day # 0
    /\ f.day <= DaysInMo(f.mon) + (IF f.mon = 2 /\ LeapYr(f.yrs) THEN 1 ELSE 0)
    /\ f.hrs < 24
    /\ f.yrs >= e /\ f.yrs - e <= 169

\* The BCD register values RTC_SET_TIME hands to rs5c313_set_cmos_time:
\* years past epoch + 99 fold down by 100.
Encode(tm, e) ==
    LET f == SetFields(tm)
        y == f.yrs - e
    IN  [yr |-> BIN2BCD(IF y >= 100 THEN y - 100 ELSE y),
         mon |-> BIN2BCD(f.mon), day |-> BIN2BCD(f.day), hr |-> BIN2BCD(f.hrs)]

\* The range check of rs5c313_get_cmos_time.
ChipValid(c) ==
    /\ BCD2BIN(c.yr) <= 99
    /\ BCD2BIN(c.mon) \in 1..12
    /\ BCD2BIN(c.day) \in 1..31
    /\ BCD2BIN(c.hr) <= 23

ResetTime == [yr |-> 0, mon |-> 1, day |-> 1, hr |-> 0]

\* Mutant: "yr > 99" written "yr >= 99".
NeedsResetYrOffByOne(c, stop) == stop \/ ~ChipValid(c) \/ BCD2BIN(c.yr) = 99

\* Mutant: the "|| clkstop" of the range check dropped.
NeedsResetNoClkstop(c, stop) == ~ChipValid(c)

\* get_cmos_time's test after get_cur_time: out of range, or the clock had
\* stopped, means reset to 2000-01-01 00:00 and "goto again".
NeedsReset(c, stop) == stop \/ ~ChipValid(c)

\* Mutant: the closing tm_mon-- dropped.
RtcTmNoMonDec(c, e) ==
    LET y == BCD2BIN(c.yr) + (e - 1900)
    IN  [tm_year |-> IF y <= 69 THEN y + 100 ELSE y, tm_mon |-> BCD2BIN(c.mon),
         tm_mday |-> BCD2BIN(c.day), tm_hour |-> BCD2BIN(c.hr)]

\* rtc_get_rtc_time: the struct rtc_time for chip contents c, the epoch e.
RtcTm(c, e) ==
    LET y == BCD2BIN(c.yr) + (e - 1900)
    IN  [tm_year |-> IF y <= 69 THEN y + 100 ELSE y,
         tm_mon |-> BCD2BIN(c.mon) - 1,
         tm_mday |-> BCD2BIN(c.day), tm_hour |-> BCD2BIN(c.hr)]

\* The date rs5c313_get_cmos_time gives mktime: the century is fixed at
\* yr100 = 20.  Kept as a struct rtc_time for comparison.
BootTm(c) ==
    [tm_year |-> 100 + BCD2BIN(c.yr), tm_mon |-> BCD2BIN(c.mon) - 1,
     tm_mday |-> BCD2BIN(c.day), tm_hour |-> BCD2BIN(c.hr)]

-----------------------------------------------------------------------------
(* The chip's calendar.                                                    *)

IsBcd(b) == b % 16 <= 9 /\ b \div 16 <= 9

\* The last day of the chip's month: its leap years are those divisible by 4.
ChipLast(c) ==
    DaysInMo(BCD2BIN(c.mon)) + (IF BCD2BIN(c.mon) = 2 /\ BCD2BIN(c.yr) % 4 = 0 THEN 1 ELSE 0)

\* Contents the chip counts from: BCD digits and a day of its calendar.
ChipDate(c) ==
    /\ \A f \in DOMAIN c : IsBcd(c[f])
    /\ ChipValid(c) /\ BCD2BIN(c.day) <= ChipLast(c)

\* The carry into the hour: 23h rolls over into the next day, month, year.
NextHour(c) ==
    LET h == BCD2BIN(c.hr)
        d == BCD2BIN(c.day)
        m == BCD2BIN(c.mon)
    IN  CASE h < 23 -> [c EXCEPT !.hr = BIN2BCD(h + 1)]
          [] d < ChipLast(c) -> [c EXCEPT !.hr = 0, !.day = BIN2BCD(d + 1)]
          [] m < 12 -> [c EXCEPT !.hr = 0, !.day = 1, !.mon = BIN2BCD(m + 1)]
          [] OTHER -> [hr |-> 0, day |-> 1, mon |-> 1,
                       yr |-> BIN2BCD((BCD2BIN(c.yr) + 1) % 100)]

\* The order get_cur_time reads the registers in (after sec and min), the
\* order a carry ripples through them.
ReadOrder == [hr |-> 1, day |-> 2, mon |-> 3, yr |-> 4]

\* Registers read while a carry ripples from `old' to `new': those read
\* before the carry reached them hold the old count.
Torn(old, new, k) == [f \in DOMAIN old |-> IF ReadOrder[f] < k THEN old[f] ELSE new[f]]

\* What rs5c313_read_reg returns for each register of get_cur_time.
ReadRegs(c) == IF bsy THEN {Torn(c, NextHour(c), k) : k \in 1..5} ELSE {c}

Init ==
    /\ chip \in Garbage
    /\ xstp = TRUE
    /\ bsy = FALSE /\ held = FALSE /\ ce = FALSE
    /\ epoch = 1900
    /\ isOpen = FALSE
    /\ call = "none" /\ pc = "idle"
    /\ clkstop = FALSE /\ got = NoChip /\ pending = NoChip
    /\ ticks = 0
    /\ seen = {}
    /\ lastGot = NoGot
    /\ lastSet = NoSet
    /\ lastRead = NoTm
    /\ bootTime = NoTm

\* A second elapses at xx:59:59 on a running chip: with CE low the carry
\* starts and ADJ/BSY reads 1; with CE high it is held back.
TickStart ==
    /\ ~xstp /\ ~bsy /\ ~held /\ ticks < MaxTicks /\ ChipDate(chip)
    /\ IF ce THEN held' = TRUE /\ UNCHANGED bsy
             ELSE bsy' = TRUE /\ UNCHANGED held
    /\ ticks' = ticks + 1
    /\ UNCHANGED <<chip, xstp, ce, epoch, isOpen, call, pc, clkstop, got,
                   pending, seen, lastGot, lastSet, lastRead, bootTime>>

\* The carry completes and ADJ/BSY reads 0 again.
TickDone ==
    /\ bsy
    /\ chip' = NextHour(chip)
    /\ bsy' = FALSE
    /\ seen' = IF call # "none" THEN seen \cup {chip'} ELSE seen
    /\ UNCHANGED <<xstp, held, ce, epoch, isOpen, call, pc, clkstop, got,
                   pending, ticks, lastGot, lastSet, lastRead, bootTime>>

\* CE goes low: a carry held back starts.
CeLow ==
    /\ ce' = FALSE
    /\ bsy' = (bsy \/ held)
    /\ held' = FALSE

-----------------------------------------------------------------------------
(* rs5c313_get_cmos_time, rs5c313_get_cur_time, rs5c313_set_cur_time.     *)

\* Mutant: the adjust write of the XSTP branch dropped; XSTP stays set.
CmosXstpNoAdjust ==
    /\ pc = "xstp"
    /\ clkstop' = xstp
    /\ pc' = "cur"
    /\ UNCHANGED <<chip, xstp, bsy, held, ce, epoch, isOpen, call, got, pending,
                   ticks, seen, lastGot, lastSet, lastRead, bootTime>>

\* The start of get_cmos_time (after rs5c313_initialize leaves CE low):
\* with CE high, read the control register; on XSTP switch the interrupt
\* interval off, write 24-hour mode with the adjust bit (which restarts the
\* oscillator and clears XSTP), wait out ADJ/BSY (no count runs while the
\* oscillator is stopped) and write 24-hour mode; then CE low.
CmosXstp ==
    /\ pc = "xstp"
    /\ clkstop' = xstp
    /\ xstp' = FALSE
    /\ pc' = "cur"
    /\ UNCHANGED <<chip, bsy, held, ce, epoch, isOpen, call, got, pending,
                   ticks, seen, lastGot, lastSet, lastRead, bootTime>>

\* Mutant: get_cur_time goes on to read without testing ADJ/BSY.
GetCurBusyNoCheck ==
    /\ pc = "cur"
    /\ ce' = TRUE
    /\ pc' = "regs"
    /\ UNCHANGED <<chip, xstp, bsy, held, epoch, isOpen, call, clkstop, got,
                   pending, ticks, seen, lastGot, lastSet, lastRead, bootTime>>

\* get_cur_time's loop: CE high, write 24-hour mode, read the control
\* register; while ADJ/BSY is 1, CE low and again (a pass that changes
\* nothing, so the step is taken once ADJ/BSY reads 0).  CE stays high.
GetCurBusy ==
    /\ pc = "cur" /\ ~bsy
    /\ ce' = TRUE
    /\ pc' = "regs"
    /\ UNCHANGED <<chip, xstp, bsy, held, epoch, isOpen, call, clkstop, got,
                   pending, ticks, seen, lastGot, lastSet, lastRead, bootTime>>

\* get_cur_time reads sec, min, hr, day, mon, yr, two nibbles each, and
\* drops CE.
GetCurRegs ==
    /\ pc = "regs"
    /\ got' \in ReadRegs(chip)
    /\ CeLow
    /\ pc' = "check"
    /\ UNCHANGED <<chip, xstp, epoch, isOpen, call, clkstop, pending, ticks,
                   seen, lastGot, lastSet, lastRead, bootTime>>

\* get_cmos_time's range and clkstop test: reset the chip to 2000-01-01
\* 00:00 with set_cur_time and "goto again", or return what was read: to
\* rtc_get_rtc_time, which converts it with the epoch, or to time_init,
\* which takes the century 20.
CmosCheck ==
    /\ pc = "check"
    /\ IF NeedsReset(got, clkstop)
         THEN /\ pc' = "sbusy" /\ pending' = ResetTime
              /\ UNCHANGED <<call, clkstop, lastGot, lastRead, bootTime>>
         ELSE /\ pc' = "idle" /\ call' = "none" /\ clkstop' = FALSE
              /\ lastGot' = [got |-> got, seen |-> seen]
              /\ lastRead' = IF call = "rd" THEN RtcTm(got, epoch) ELSE lastRead
              /\ bootTime' = IF call = "boot" THEN BootTm(got) ELSE bootTime
              /\ UNCHANGED pending
    /\ UNCHANGED <<chip, xstp, bsy, held, ce, epoch, isOpen, got, ticks, seen,
                   lastSet>>

\* set_cur_time's busy loop, as get_cur_time's.
SetCurBusy ==
    /\ pc = "sbusy" /\ ~bsy
    /\ ce' = TRUE
    /\ pc' = "swrite"
    /\ UNCHANGED <<chip, xstp, bsy, held, epoch, isOpen, call, clkstop, got,
                   pending, ticks, seen, lastGot, lastSet, lastRead, bootTime>>

\* set_cur_time writes sec, min, hr, day, mon, yr and drops CE.  A carry
\* held meanwhile applies to the written count: it reaches the hour only if
\* the written min:sec are 59:59, never for the reset's 00:00 and maybe for
\* a struct of RTC_SET_TIME.  The reset returns to "again".
SetCurWrite ==
    /\ pc = "swrite"
    /\ chip' = pending
    /\ ce' = FALSE /\ held' = FALSE
    /\ \E carries \in IF call = "set" THEN BOOLEAN ELSE {FALSE} :
          bsy' = (held /\ carries)
    /\ seen' = seen \cup {pending}
    /\ IF call = "set"
         THEN pc' = "idle" /\ call' = "none"
         ELSE pc' = "xstp" /\ UNCHANGED call
    /\ UNCHANGED <<xstp, epoch, isOpen, clkstop, got, pending, ticks, lastGot,
                   lastSet, lastRead, bootTime>>

-----------------------------------------------------------------------------
(* The kernel and the ioctls.                                              *)

Idle == call = "none"

\* The kernel boots (or reboots): time_init takes the system time from
\* rs5c313_get_cmos_time.  The driver's statics start over: epoch is 1900
\* again and the device is closed.
Boot ==
    /\ Idle
    /\ call' = "boot" /\ pc' = "xstp"
    /\ seen' = {chip}
    /\ bootTime' = NoTm
    /\ epoch' = 1900
    /\ isOpen' = FALSE
    /\ lastRead' = NoTm
    /\ UNCHANGED <<chip, xstp, bsy, held, ce, clkstop, got, pending, ticks,
                   lastGot, lastSet>>

\* The backup battery runs out while the board is off: the oscillator
\* stops and the counters hold anything.
PowerLoss ==
    /\ Idle
    /\ xstp' = TRUE
    /\ chip' \in Garbage
    /\ bsy' = FALSE /\ held' = FALSE
    /\ lastSet' = NoSet
    /\ bootTime' = NoTm
    /\ isOpen' = FALSE
    /\ lastRead' = NoTm
    /\ UNCHANGED <<ce, epoch, call, pc, clkstop, got, pending, ticks, seen,
                   lastGot>>

Booted == bootTime # NoTm

\* rtc_open: one user at a time, -EBUSY otherwise.
rtc_open ==
    /\ Idle /\ Booted /\ ~isOpen
    /\ isOpen' = TRUE
    /\ UNCHANGED <<chip, xstp, bsy, held, ce, epoch, call, pc, clkstop, got,
                   pending, ticks, seen, lastGot, lastSet, lastRead, bootTime>>

\* rtc_release.
rtc_release ==
    /\ Idle /\ isOpen
    /\ isOpen' = FALSE
    /\ UNCHANGED <<chip, xstp, bsy, held, ce, epoch, call, pc, clkstop, got,
                   pending, ticks, seen, lastGot, lastSet, lastRead, bootTime>>

\* RTC_RD_TIME: rtc_get_rtc_time calls get_cmos_time under rtc_lock.
RdTime ==
    /\ Idle /\ isOpen
    /\ call' = "rd" /\ pc' = "xstp"
    /\ seen' = {chip}
    /\ UNCHANGED <<chip, xstp, bsy, held, ce, epoch, isOpen, clkstop, got,
                   pending, ticks, lastGot, lastSet, lastRead, bootTime>>

\* RTC_SET_TIME with CAP_SYS_TIME and a struct it accepts: set_cmos_time
\* under rtc_lock writes the encoded registers.  A rejected struct changes
\* nothing.
SetTime(tm) ==
    /\ Idle /\ isOpen
    /\ Accepts(tm, epoch)
    /\ call' = "set" /\ pc' = "sbusy"
    /\ pending' = Encode(tm, epoch)
    /\ seen' = {chip}
    /\ lastSet' = [tm |-> tm, epoch |-> epoch]
    /\ lastRead' = NoTm
    /\ UNCHANGED <<chip, xstp, bsy, held, ce, epoch, isOpen, clkstop, got,
                   ticks, lastGot, bootTime>>

\* RTC_EPOCH_SET with CAP_SYS_TIME: any epoch from 1900 on.
EpochSet(e) ==
    /\ Idle /\ isOpen /\ e >= 1900
    /\ epoch' = e
    /\ UNCHANGED <<chip, xstp, bsy, held, ce, isOpen, call, pc, clkstop, got,
                   pending, ticks, seen, lastGot, lastSet, lastRead, bootTime>>

\* The chip accesses of a caller.
Access ==
    CmosXstp \/ GetCurBusy \/ GetCurRegs \/ CmosCheck \/ SetCurBusy \/ SetCurWrite

Next ==
    \/ TickStart \/ TickDone
    \/ Access
    \/ Boot \/ PowerLoss \/ rtc_open \/ rtc_release \/ RdTime
    \/ \E tm \in Tms : SetTime(tm)
    \/ \E e \in Epochs : EpochSet(e)

\* A caller spins with interrupts off under rtc_lock (or alone at boot)
\* until its access ends, and the chip finishes a carry in microseconds.
Spec == Init /\ [][Next]_vars /\ WF_vars(Access) /\ WF_vars(TickDone)

-----------------------------------------------------------------------------
\* The struct rtc_time values a read can produce: tm_mon counts from 0.
StructTm ==
    [tm_year : 70..269, tm_mon : 0..11, tm_mday : 1..31, tm_hour : 0..23]

Regs == [{"yr", "mon", "day", "hr"} -> 0..255]

TypeOK ==
    /\ chip \in Regs
    /\ xstp \in BOOLEAN /\ bsy \in BOOLEAN /\ held \in BOOLEAN /\ ce \in BOOLEAN
    /\ epoch \in {1900} \cup Epochs
    /\ isOpen \in BOOLEAN
    /\ call \in {"none", "rd", "boot", "set"}
    /\ pc \in {"idle", "xstp", "cur", "regs", "check", "sbusy", "swrite"}
    /\ (call = "none") = (pc = "idle")
    /\ clkstop \in BOOLEAN
    /\ got \in Regs \cup {NoChip} /\ pending \in Regs \cup {NoChip}
    /\ ticks \in 0..MaxTicks
    /\ seen \subseteq Regs
    /\ lastGot \in [got : Regs \cup {NoChip}, seen : SUBSET Regs]
    /\ lastSet \in {NoSet} \cup [tm : Tms, epoch : {1900} \cup Epochs]
    /\ lastRead \in {NoTm} \cup StructTm
    /\ bootTime \in {NoTm} \cup StructTm

\* A struct rtc_time that names a real calendar date and hour.
IsDate(tm) ==
    LET y == tm.tm_year + 1900
        m == tm.tm_mon + 1
    IN  /\ m \in 1..12
        /\ tm.tm_mday \in 1..(DaysInMo(m) + (IF m = 2 /\ LeapYr(y) THEN 1 ELSE 0))
        /\ tm.tm_hour \in 0..23

\* Under the default epoch 1900 and under 2000 (the epochs whose year
\* numbering agrees with the chip's leap years, yr % 4 = 0), whatever
\* userspace set and however often the chip lost power, RTC_RD_TIME and the
\* boot read return a real date: SET_TIME only writes checked dates,
\* get_cmos_time resets a stopped or out-of-range chip before it returns,
\* and the chip counts on from a date.  Under epoch 1970 it fails
\* (Rs5c313_epoch.cfg): rtc_get_rtc_time rebases without a check.
ReadValid ==
    /\ lastRead # NoTm => IsDate(lastRead)
    /\ bootTime # NoTm => IsDate(bootTime)

\* get_cmos_time never clobbers a running chip that holds a valid time:
\* a step that is neither SET_TIME's write, nor a power loss, nor the
\* chip's own carry leaves such a chip alone, so RTC_RD_TIME and a reboot
\* keep the time.
ReadKeepsValidTime ==
    [][(~xstp /\ ~clkstop /\ ChipValid(chip) /\ ~xstp' /\ call # "set"
          /\ (bsy => bsy'))
         => chip' = chip]_vars

\* What get_cmos_time returns (to RTC_RD_TIME or to the boot) is what the
\* chip held at one moment of the call: a carry that ripples through the
\* registers while get_cur_time reads them would mix two hours, or at
\* midnight on New Year's Eve two years.  The ADJ/BSY loop and CE's hold
\* are what keep the carry out of the reads.
ReadNotTorn == lastGot.got # NoChip => lastGot.got \in lastGot.seen

\* Every chip access returns: the reset of get_cmos_time leaves a running
\* chip with a valid time, so "goto again" passes the second time, and
\* ADJ/BSY drops when the carry is done.
AccessReturns == call # "none" ~> call = "none"

\* What RTC_RD_TIME returns is the struct RTC_SET_TIME last accepted, as
\* long as the epoch is the one it was set with, the chip has not lost
\* power and no hour has passed since.
ReadBack ==
    (lastSet # NoSet /\ lastRead # NoTm /\ lastSet.epoch = epoch) => lastRead = lastSet.tm

\* The kernel's boot-time clock and RTC_RD_TIME with the default epoch
\* agree on the date a running chip holds.
BootAgreesWithRead ==
    (~xstp /\ ChipValid(chip)) => BootTm(chip) = RtcTm(chip, 1900)

-----------------------------------------------------------------------------
(* The values the configurations give the constants.  The structs          *)
(* userspace sets cover a 19xx and a 20xx date, a leap day, a day past the *)
(* month's end, a year past epoch + 99 and a day of month that does not   *)
(* fit an unsigned char; 1999-12-31 23h carries into every field.  The     *)
(* garbage holds a chip that fails the range check and one that passes it *)
(* but is no date.                                                         *)

Tm(y, m, d, h) == [tm_year |-> y, tm_mon |-> m, tm_mday |-> d, tm_hour |-> h]
Chip(y, m, d, h) == [yr |-> y, mon |-> m, day |-> d, hr |-> h]

UserTms ==
    { Tm(99, 11, 31, 23),    \* 1999-12-31 23h
      Tm(105, 1, 28, 0),     \* 2005-02-28
      Tm(100, 1, 29, 12),    \* 2000-02-29, a leap day
      Tm(101, 1, 30, 0),     \* 2001-02-30, rejected
      Tm(205, 0, 1, 0),      \* 2105-01-01, only within reach of epoch 2000
      Tm(105, 0, 257, 0) }   \* day 257 of January 2005
\* The default epoch and 2000.
UserEpochs == {1900, 2000}
\* An epoch that moves the leap day of the chip's year 00.
UserEpochs1970 == {1970, 2000}
BatteryGarbage == { Chip(255, 31, 63, 63),    \* out of range
                    Chip(1, 2, 48, 0) }       \* "01-02-30": passes the check
=============================================================================
