-------------------------------- MODULE Hp6xx --------------------------------
(***************************************************************************)
(* The two HP Jornada 6xx drivers that share the HD64461 GPADR register:   *)
(* the DAC audio driver powers the speaker through its SPEAKER bit and the *)
(* PCMCIA socket driver powers socket 0 through its PCMCIA0 bit.  Each     *)
(* changes its own bit with a read-modify-write from process context       *)
(* (dac_audio_start/stop; hd64461_init/suspend), so neither bit may be     *)
(* lost to the other driver's write-back.                                  *)
(*                                                                         *)
(* Without kernel preemption (PREEMPT = FALSE) a process is not switched   *)
(* out between the inw and the outw, so the other driver's process         *)
(* context does not run there; interrupts run at any time but never touch  *)
(* GPADR.  With PREEMPT the two read-modify-writes interleave freely.      *)
(***************************************************************************)
EXTENDS Naturals, FiniteSets

CONSTANTS Cap, Sizes, Period, MaxFrames,   \* of ShDac
          Sockets, States, DeadSocket,     \* of Hd64461Ss
          PREEMPT                          \* CONFIG_PREEMPT

VARIABLES
  pcm, rsize, appl, hw, begin, end, empty, processed, bsize, tmu, dac,
  dacRmw, wr, ring, played,
  st, icmem, gcr, scr, stbcr, cscier, cscr, card, irqv, core, ssRmw, lost,
  pm, pmi, saved,
  gpadr

Dac == INSTANCE ShDac
Ss == INSTANCE Hd64461Ss

\* The socket states of the configurations, those of Hd64461Ss, taken from
\* an instance that does not depend on the constants they are given to.
SsCore == INSTANCE Hd64461Ss WITH States <- {}, DeadSocket <- {}
CoreDead == SsCore!CoreDead
CoreStates == SsCore!CoreStates

dacVars == <<pcm, rsize, appl, hw, begin, end, empty, processed, bsize, tmu,
             dac, dacRmw, wr, ring, played>>
ssVars == <<st, icmem, gcr, scr, stbcr, cscier, cscr, card, irqv, core, ssRmw, lost,
           pm, pmi, saved>>
vars == <<dacVars, ssVars, gpadr>>

Init == Dac!Init /\ Ss!Init

\* Process context of one driver runs when no interrupt handler is midway
\* and, without preemption, when the other driver is not between its read
\* and its write of GPADR.
DacMayRun == Ss!NoIrq /\ (PREEMPT \/ ssRmw = Ss!NoRmw)
SsMayRun == PREEMPT \/ ~Dac!DacInRmw

Next ==
  \/ Dac!DacProcNext /\ DacMayRun /\ UNCHANGED ssVars
  \/ Dac!DacIrq /\ Ss!NoIrq /\ UNCHANGED ssVars
  \/ Ss!SsProcNext /\ SsMayRun /\ UNCHANGED dacVars
  \/ Ss!SsIrqNext /\ UNCHANGED dacVars

Spec == Init /\ [][Next]_vars

-----------------------------------------------------------------------------
TypeOK == Dac!TypeOK /\ Ss!TypeOK

\* Whatever the DAC interrupt has still to play it will play (ShDac).
PendingPlays == Dac!PendingPlays

\* Outside their read-modify-writes, each GPADR bit says what its driver
\* did last: the speaker is on exactly while the DAC is enabled
\* (dac_audio_start until dac_audio_stop), and socket 0 is powered exactly
\* while the core has it initialised (hd64461_init until hd64461_suspend).
\* Neither driver's write-back may carry a stale copy of the other's bit.
GpadrFollowsDrivers ==
  (~Dac!DacInRmw /\ ssRmw = Ss!NoRmw) =>
     /\ ("speaker" \notin gpadr) = dac
     /\ ("pcmcia0" \notin gpadr) = (core[0] = "up")
====
