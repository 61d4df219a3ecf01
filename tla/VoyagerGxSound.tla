--------------------------- MODULE VoyagerGxSound ---------------------------
(***************************************************************************)
(* The Voyager GX OSS sound driver (sound/oss/voyagergx_sound.c): a        *)
(* process writing /dev/dsp fills two VRAM buffers, and DMA channel 0      *)
(* feeds them to the 8051's FIFO, one at a time.  Its completion           *)
(* interrupt (do_irq) frees the buffer just played and starts the other    *)
(* one if the writer has filled it, or records an underrun (abnml_flg)     *)
(* that the writer's next fill restarts.  The writer sleeps on int_wq      *)
(* while both buffers are full, with an 11 s timeout.                      *)
(*                                                                         *)
(* One open file and one process are modelled: the process makes the      *)
(* open, write, ioctl and close calls in any order, and runs its write and *)
(* release as steps between which the interrupt can run.  do_irq runs      *)
(* under spin_lock_irq on a uniprocessor, so it is one step.  A unit is    *)
(* four bytes (one stereo transfer); the buffer holds SIZE units.          *)
(*                                                                         *)
(* The stream is the sequence of units the process has written.  apos is   *)
(* the position of the next unit it writes, data[b] the stretch of the     *)
(* stream buffer b holds, and played the position after the last unit DMA  *)
(* fed to the 8051.  These three are bookkeeping of the model: the code    *)
(* keeps only the flags and sizes.                                         *)
(***************************************************************************)
EXTENDS Naturals

CONSTANTS SIZE,      \* VOYAGER_SOUND_SIZE in units of four bytes
          Counts,    \* the write sizes the process uses, in units
          MaxUnits   \* bound on the length of one stream

ASSUME SIZE \in Nat \ {0} /\ Counts \subseteq Nat \ {0} /\ MaxUnits \in Nat

Bufs == {1, 2}

VARIABLES
  buff,      \* buff_flg1, buff_flg2: the buffer is full and waits for DMA
  proc,      \* proc_flg: the buffer DMA plays (or played last)
  first,     \* first_flg: DMA has been started for this stream
  last,      \* last_flg: a short last transfer is outstanding
  wari,      \* wari_flg: cleared by each interrupt
  brk,       \* break_flg: the stream was stopped by voy_break
  abnml,     \* abnml_flg: DMA stopped for want of a full buffer
  nextWrite, \* next_write: the buffer the writer fills next
  nextSize,  \* next_size: room left in that buffer
  dmaReq,    \* dma_req[0..1]: the transfer size of each buffer
  dma,       \* DMA channel 0: CHCR enable bit, SAR buffer (0: none), TCR
  pc,        \* where the process is
  cont,      \* where a wait on int_wq returns to
  left,      \* data_size: what is left of the current write
  woken,     \* a wake_up has reached the sleeping process
  rel,       \* how the last release returned
  data, apos, played, misplay   \* stream bookkeeping (see above)

vars == <<buff, proc, first, last, wari, brk, abnml, nextWrite, nextSize,
          dmaReq, dma, pc, cont, left, woken, rel, data, apos, played, misplay>>

Pcs == {"closed", "idle", "wait", "sleep", "w_loop", "r_tail", "r_drain", "r_sleep"}
Release == {"r_tail", "r_drain", "r_sleep"}
NoData == [from |-> 0, n |-> 0]

TypeOK ==
  /\ buff \in [Bufs -> BOOLEAN]
  /\ proc \in Bufs /\ nextWrite \in Bufs
  /\ {first, last, wari, brk, abnml, woken, misplay} \subseteq BOOLEAN
  /\ nextSize \in 1..SIZE
  /\ dmaReq \in [Bufs -> 1..SIZE]
  /\ dma \in [on : BOOLEAN, buf : {0} \cup Bufs, len : 0..SIZE]
  /\ pc \in Pcs /\ cont \in {"w_loop", "r_tail"}
  /\ left \in 0..MaxUnits
  /\ rel \in {"none", "ok", "cancelled", "error"}
  /\ data \in [Bufs -> [from : 0..MaxUnits, n : 0..SIZE]]
  /\ apos \in 0..MaxUnits /\ played \in 0..MaxUnits

-----------------------------------------------------------------------------
(* DMA and the 8051 *)

\* dma2_queue_buffer and dma2_start: load SAR and TCR, set CHCR.DE.
Kick(b, len) == dma' = [on |-> TRUE, buf |-> b, len |-> len]

\* voy_break: command 7 with data 0 stops the 8051, dma2_stop clears
\* CHCR.DE, and break_flg is set.
VoyBreak ==
  /\ dma' = [dma EXCEPT !.on = FALSE]
  /\ brk' = TRUE

\* The transfer completes: the 8051 receives len units of buffer buf,
\* then do_irq runs.  The units are the stream's next ones only if the
\* buffer holds exactly the stretch that starts at played.
Played(d, len) == d.n = len /\ d.from = played

\* do_irq, under spin_lock_irq: stop the channel, clear wari_flg, free the
\* buffer that was played and start the other one if it is full, else
\* record the underrun; a transfer of a buffer that is not marked full is
\* the short last one.  wake_up_interruptible wakes the sleeping process.
DoIrq ==
  LET o == 3 - proc IN
  /\ dma.on
  /\ misplay' = (misplay \/ ~Played(data[dma.buf], dma.len))
  /\ played' = data[dma.buf].from + dma.len
  /\ wari' = FALSE
  /\ woken' = (woken \/ pc \in {"sleep", "r_sleep"})
  /\ IF buff[proc]
       THEN /\ buff' = [buff EXCEPT ![proc] = FALSE]
            /\ proc' = o
            /\ IF buff[o] THEN Kick(o, dmaReq[o]) /\ UNCHANGED abnml
                          ELSE dma' = [dma EXCEPT !.on = FALSE] /\ abnml' = TRUE
            /\ UNCHANGED last
       ELSE /\ last' = FALSE
            /\ dma' = [dma EXCEPT !.on = FALSE]
            /\ UNCHANGED <<buff, proc, abnml>>
  /\ UNCHANGED <<first, brk, nextWrite, nextSize, dmaReq, pc, cont, left, rel,
                 data, apos>>

-----------------------------------------------------------------------------
(* open and ioctl *)

\* voyagergx_open: clear the flags, buffer 1 first, full-size transfers,
\* command 7 with data 0 to the 8051.  The stream starts afresh.
Open ==
  /\ pc = "closed"
  /\ pc' = "idle"
  /\ first' = FALSE /\ last' = FALSE /\ buff' = [b \in Bufs |-> FALSE]
  /\ proc' = 1 /\ nextSize' = SIZE /\ dmaReq' = [b \in Bufs |-> SIZE]
  /\ brk' = FALSE /\ abnml' = FALSE /\ nextWrite' = 1
  /\ data' = [b \in Bufs |-> NoData] /\ apos' = 0 /\ played' = 0
  /\ misplay' = FALSE /\ rel' = "none"
  /\ UNCHANGED <<wari, dma, cont, left, woken>>

\* ioctl(-1): voy_break.
IoctlBreak ==
  /\ pc = "idle"
  /\ VoyBreak
  /\ UNCHANGED <<buff, proc, first, last, wari, abnml, nextWrite, nextSize,
                 dmaReq, pc, cont, left, woken, rel, data, apos, played, misplay>>

\* ioctl(SNDCTL_DSP_STEREO): command 5 to the 8051, then dma2_set_device
\* rewrites the channel: SAR 0, TCR 0 and a CHCR without DE.
IoctlStereo ==
  /\ pc = "idle"
  /\ dma' = [on |-> FALSE, buf |-> 0, len |-> 0]
  /\ UNCHANGED <<buff, proc, first, last, wari, brk, abnml, nextWrite, nextSize,
                 dmaReq, pc, cont, left, woken, rel, data, apos, played, misplay>>
-----------------------------------------------------------------------------
(* write *)

\* copy_from_user of k units into buffer b at offset SIZE - next_size.
Copy(b, k) ==
  /\ data' = [data EXCEPT ![b] = IF nextSize = SIZE THEN [from |-> apos, n |-> k]
                                                    ELSE [@ EXCEPT !.n = @ + k]]
  /\ apos' = apos + k

BothFull(bf) == bf[1] /\ bf[2]

\* voyagergx_write up to its first loop: return at once after a break,
\* and wait while both buffers are full.  The data of a write after a
\* break is discarded.
Write(count) ==
  /\ pc = "idle"
  /\ apos + count <= MaxUnits
  /\ IF brk
       THEN /\ apos' = apos + count
            /\ UNCHANGED <<wari, pc, cont, left>>
       ELSE /\ left' = count
            /\ IF BothFull(buff)
                 THEN wari' = TRUE /\ pc' = "wait" /\ cont' = "w_loop"
                 ELSE pc' = "w_loop" /\ UNCHANGED <<wari, cont>>
            /\ UNCHANGED apos
  /\ UNCHANGED <<buff, proc, first, last, brk, abnml, nextWrite, nextSize,
                 dmaReq, dma, woken, rel, data, played, misplay>>

\* Mutant: the fill ignores buff_flg and copies into a busy buffer.
WriteFillNoFlagCheck ==
  LET b == nextWrite
      bf == [buff EXCEPT ![b] = TRUE]
      start == ~first /\ bf[1]
  IN
  /\ pc = "w_loop"
  /\ left >= nextSize
  /\ Copy(b, nextSize)
  /\ nextWrite' = 3 - b /\ left' = left - nextSize /\ nextSize' = SIZE
  /\ buff' = bf
  /\ abnml' = FALSE
  /\ dma' = CASE start -> [on |-> TRUE, buf |-> 1, len |-> SIZE]
              [] abnml -> [on |-> TRUE, buf |-> b, len |-> dmaReq[b]]
              [] OTHER -> dma
  /\ first' = (first \/ start)
  /\ IF BothFull(bf)
       THEN wari' = TRUE /\ pc' = "wait" /\ cont' = "w_loop"
       ELSE UNCHANGED <<wari, pc, cont>>
  /\ UNCHANGED <<proc, last, brk, dmaReq, woken, rel, played, misplay>>

\* One turn of the loop while data_size >= next_size: fill the next_write
\* buffer if it is free (and restart DMA on it after an underrun), start
\* DMA with buffer 1 the first time it is full (with command 7, data 1,
\* to the 8051), and wait while both buffers are full.  When the buffer
\* to fill is busy and the other one free, nothing changes and the loop
\* spins.
WriteFill ==
  LET b == nextWrite
      free == ~buff[b]
      bf == IF free THEN [buff EXCEPT ![b] = TRUE] ELSE buff
      restart == free /\ abnml
      start == ~first /\ bf[1]
  IN
  /\ pc = "w_loop"
  /\ left >= nextSize
  /\ IF free
       THEN /\ Copy(b, nextSize)
            /\ nextWrite' = 3 - b /\ left' = left - nextSize /\ nextSize' = SIZE
       ELSE UNCHANGED <<data, apos, nextWrite, left, nextSize>>
  /\ buff' = bf
  /\ abnml' = (abnml /\ ~restart)
  /\ dma' = CASE start -> [on |-> TRUE, buf |-> 1, len |-> SIZE]
              [] restart -> [on |-> TRUE, buf |-> b, len |-> dmaReq[b]]
              [] OTHER -> dma
  /\ first' = (first \/ start)
  /\ IF BothFull(bf)
       THEN wari' = TRUE /\ pc' = "wait" /\ cont' = "w_loop"
       ELSE UNCHANGED <<wari, pc, cont>>
  /\ UNCHANGED <<proc, last, brk, dmaReq, woken, rel, played, misplay>>

\* The rest of the write, smaller than next_size, is copied into the
\* next_write buffer if it is free and dropped if not; count is returned
\* either way.  (The copy never fills the buffer, so the code's branch
\* for next_size reaching 0 is dead.)  DMA is started as in WriteFill.
WriteTail ==
  LET b == nextWrite
      copy == left # 0 /\ ~buff[b]
      start == ~first /\ buff[1]
  IN
  /\ pc = "w_loop"
  /\ left < nextSize
  /\ IF copy THEN Copy(b, left) /\ nextSize' = nextSize - left
             ELSE apos' = apos + left /\ UNCHANGED <<data, nextSize>>
  /\ dma' = IF start THEN [on |-> TRUE, buf |-> 1, len |-> SIZE] ELSE dma
  /\ first' = (first \/ start)
  /\ pc' = "idle" /\ left' = 0
  /\ UNCHANGED <<buff, proc, last, wari, brk, abnml, nextWrite, dmaReq, cont,
                 woken, rel, played, misplay>>

\* The loop that waits on int_wq while wari_flg is set: leave it at once
\* after an underrun, else sleep.
WaitCheck ==
  /\ pc = "wait"
  /\ IF ~wari \/ abnml THEN pc' = cont /\ UNCHANGED woken
                      ELSE pc' = "sleep" /\ woken' = FALSE
  /\ UNCHANGED <<buff, proc, first, last, wari, brk, abnml, nextWrite, nextSize,
                 dmaReq, dma, cont, left, rel, data, apos, played, misplay>>
\* interruptible_sleep_on_timeout returns: woken by do_irq, the loop
\* runs again; after the full WAIT_TIMEOUT it breaks out of the loop.
Wake ==
  /\ pc = "sleep" /\ woken
  /\ pc' = "wait"
  /\ UNCHANGED <<buff, proc, first, last, wari, brk, abnml, nextWrite, nextSize,
                 dmaReq, dma, cont, left, woken, rel, data, apos, played, misplay>>

Timeout ==
  /\ pc = "sleep" /\ ~woken
  /\ pc' = cont
  /\ UNCHANGED <<buff, proc, first, last, wari, brk, abnml, nextWrite, nextSize,
                 dmaReq, dma, cont, left, woken, rel, data, apos, played, misplay>>

\* A signal ends any of the sleeps: voy_break and -ERESTARTSYS, from the
\* write back to the caller, from the release to a closed file.
Interrupted ==
  /\ pc \in {"sleep", "r_sleep"}
  /\ VoyBreak
  /\ IF pc = "sleep" /\ cont = "w_loop"
       THEN pc' = "idle" /\ left' = 0 /\ UNCHANGED rel
       ELSE pc' = "closed" /\ rel' = "error" /\ UNCHANGED left
  /\ UNCHANGED <<buff, proc, first, last, wari, abnml, nextWrite, nextSize,
                 dmaReq, cont, woken, data, apos, played, misplay>>

-----------------------------------------------------------------------------
(* release *)

\* voyagergx_release: return at once after a break; wait while both
\* buffers are full.
ReleaseStart ==
  /\ pc = "idle"
  /\ IF brk
       THEN pc' = "closed" /\ rel' = "cancelled" /\ UNCHANGED <<wari, cont>>
       ELSE /\ IF BothFull(buff)
                 THEN wari' = TRUE /\ pc' = "wait" /\ cont' = "r_tail"
                 ELSE pc' = "r_tail" /\ UNCHANGED <<wari, cont>>
            /\ UNCHANGED rel
  /\ UNCHANGED <<buff, proc, first, last, brk, abnml, nextWrite, nextSize,
                 dmaReq, dma, left, woken, data, apos, played, misplay>>

\* Mutant: release without the test for less than four bytes.
ReleaseTailNoSizeCheck ==
  LET part == SIZE - nextSize
      m == 3 - proc
  IN
  /\ pc = "r_tail"
  /\ \/ /\ ~first
        /\ IF proc = 1 THEN Kick(1, part) /\ last' = TRUE
                       ELSE dma' = [dma EXCEPT !.on = TRUE] /\ UNCHANGED last
        /\ UNCHANGED <<buff, abnml, dmaReq>>
     \/ /\ first
        /\ dmaReq' = [dmaReq EXCEPT ![m] = part]
        /\ buff' = [buff EXCEPT ![m] = TRUE]
        /\ last' = TRUE
        /\ IF abnml THEN Kick(m, part) /\ abnml' = FALSE
                    ELSE UNCHANGED <<dma, abnml>>
  /\ pc' = "r_drain"
  /\ UNCHANGED <<brk, first, rel, proc, wari, nextWrite, nextSize, cont, left,
                 woken, data, apos, played, misplay>>

\* Less than four bytes in the next_write buffer: voy_break and return.
\* Otherwise queue the partly filled buffer as the last transfer: before
\* the first start with buffer 1 and a short count; after it, as the
\* buffer after proc_flg's (buffer 1 if proc_flg is 2, else buffer 2)
\* with dma_req set to the short count, restarted after an underrun.
ReleaseTail ==
  LET part == SIZE - nextSize
      m == 3 - proc
  IN
  /\ pc = "r_tail"
  /\ \/ /\ part = 0
        /\ VoyBreak
        /\ pc' = "closed" /\ rel' = "ok"
        /\ UNCHANGED <<buff, abnml, first, last, dmaReq>>
     \/ /\ part > 0 /\ ~first
        /\ IF proc = 1 THEN Kick(1, part) /\ last' = TRUE
                       ELSE dma' = [dma EXCEPT !.on = TRUE] /\ UNCHANGED last
        /\ pc' = "r_drain"
        /\ UNCHANGED <<buff, abnml, brk, first, dmaReq, rel>>
     \/ /\ part > 0 /\ first
        /\ dmaReq' = [dmaReq EXCEPT ![m] = part]
        /\ buff' = [buff EXCEPT ![m] = TRUE]
        /\ last' = TRUE
        /\ IF abnml THEN Kick(m, part) /\ abnml' = FALSE
                    ELSE UNCHANGED <<dma, abnml>>
        /\ pc' = "r_drain"
        /\ UNCHANGED <<brk, first, rel>>
  /\ UNCHANGED <<proc, wari, nextWrite, nextSize, cont, left, woken, data, apos,
                 played, misplay>>

\* The final wait: until an underrun or the last transfer's interrupt,
\* then voy_break and return 0; a timeout is voy_break and -EFAULT.
ReleaseDrain ==
  /\ pc = "r_drain"
  /\ IF abnml \/ ~last
       THEN VoyBreak /\ pc' = "closed" /\ rel' = "ok" /\ UNCHANGED <<wari, woken>>
       ELSE wari' = TRUE /\ pc' = "r_sleep" /\ woken' = FALSE
            /\ UNCHANGED <<dma, brk, rel>>
  /\ UNCHANGED <<buff, proc, first, last, abnml, nextWrite, nextSize, dmaReq,
                 cont, left, data, apos, played, misplay>>

ReleaseWake ==
  /\ pc = "r_sleep" /\ woken
  /\ pc' = "r_drain"
  /\ UNCHANGED <<buff, proc, first, last, wari, brk, abnml, nextWrite, nextSize,
                 dmaReq, dma, cont, left, woken, rel, data, apos, played, misplay>>

\* Mutant: the final wait treats a timeout like a wakeup and waits on.
ReleaseTimeoutKeepsWaiting ==
  /\ pc = "r_sleep" /\ ~woken
  /\ pc' = "r_drain"
  /\ UNCHANGED <<buff, proc, first, last, wari, brk, abnml, nextWrite, nextSize,
                 dmaReq, dma, cont, left, woken, rel, data, apos, played, misplay>>

ReleaseTimeout ==
  /\ pc = "r_sleep" /\ ~woken
  /\ VoyBreak
  /\ pc' = "closed" /\ rel' = "error"
  /\ UNCHANGED <<buff, proc, first, last, wari, abnml, nextWrite, nextSize,
                 dmaReq, cont, left, woken, data, apos, played, misplay>>

-----------------------------------------------------------------------------
(* The specification *)

Init ==
  /\ buff = [b \in Bufs |-> FALSE] /\ proc = 1 /\ nextWrite = 1
  /\ first = FALSE /\ last = FALSE /\ wari = FALSE /\ brk = FALSE
  /\ abnml = FALSE /\ nextSize = SIZE /\ dmaReq = [b \in Bufs |-> SIZE]
  /\ dma = [on |-> FALSE, buf |-> 0, len |-> 0]
  /\ pc = "closed" /\ cont = "w_loop" /\ left = 0 /\ woken = FALSE
  /\ rel = "none" /\ data = [b \in Bufs |-> NoData]
  /\ apos = 0 /\ played = 0 /\ misplay = FALSE

\* The calls the process makes.
Calls ==
  Open \/ (\E c \in Counts : Write(c)) \/ IoctlBreak \/ IoctlStereo \/ ReleaseStart

\* The steps inside write and release, run by the scheduler: write's fill
\* and tail, the wait while both buffers are full (write's loop, and the
\* same loop at the start of release), and release's tail and drain.
WriteSteps == WriteFill \/ WriteTail
WaitSteps == WaitCheck \/ Wake
ReleaseSteps == ReleaseTail \/ ReleaseDrain \/ ReleaseWake
Steps == WriteSteps \/ WaitSteps \/ ReleaseSteps

Next == Calls \/ Steps \/ DoIrq \/ Timeout \/ ReleaseTimeout \/ Interrupted

\* The scheduler runs the runnable process, the DMA channel completes a
\* started transfer, and the timer of a sleep fires.  Signals and the
\* process's calls need not happen.
Spec == Init /\ [][Next]_vars /\ WF_vars(Steps) /\ WF_vars(DoIrq)
          /\ WF_vars(Timeout) /\ WF_vars(ReleaseTimeout)
-----------------------------------------------------------------------------
(* Properties *)

\* The writer never overwrites data DMA has not yet played: whenever a
\* write starts refilling a buffer (copy_from_user at offset 0), the
\* stretch the buffer held has been fed to the 8051.  This rests on
\* do_irq freeing only the buffer it played and on the fill tests of
\* buff_flg1/buff_flg2, across any interleaving of the interrupt with the
\* steps of write.
NoUnplayedOverwrite ==
  [][pc # "closed" =>
       \A b \in Bufs : data'[b].from # data[b].from =>
                         data[b].from + data[b].n <= played]_vars

InRelease == pc \in Release \/ (pc \in {"wait", "sleep"} /\ cont = "r_tail")

\* close always returns, even when DMA stops without an interrupt (after
\* SNDCTL_DSP_STEREO rewrote the channel): each of release's sleeps ends
\* by an interrupt or by its timeout, and the final wait treats a
\* timeout as the end.
ReleaseReturns == InRelease ~> pc = "closed"

\* A release that returns 0 on a stream that was not broken has had all
\* the stream played, in order: release "plays again if data remains in
\* buffer" and waits "for all sound play".
ReleasePlaysAll == rel = "ok" => played = apos /\ ~misplay
====
