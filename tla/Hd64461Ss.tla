------------------------------ MODULE Hd64461Ss ------------------------------
(***************************************************************************)
(* The HD64461 PCMCIA socket driver (drivers/pcmcia/hd64461_ss.c) under    *)
(* the PCMCIA core that calls its pccard_operations, and the socket        *)
(* hardware: a card is inserted or removed, or changes its status, and the *)
(* controller latches the change in CSCR; a latched change whose enable    *)
(* bit is set in CSCIER raises the socket's interrupt.                     *)
(*                                                                         *)
(* The core, per socket and under its skt_mutex: at startup and on resume  *)
(* init followed by set_socket(dead_socket); set_socket with the states    *)
(* it uses; on suspend set_socket(dead_socket) followed by suspend.        *)
(* set_socket runs with interrupts off; init and suspend do not, and on    *)
(* socket 0 each runs a read-modify-write of GPADR, shared with the DAC   *)
(* audio driver, which is split here into its read and its write.          *)
(*                                                                         *)
(* Register bits are named after the status bits they stand for: CSCIER   *)
(* CDE/RE/BDE/BWE/SCE and CSCR CDC/RC/BD/BW/SC are "detect", "ready",      *)
(* "batdead", "batwarn" and "stschg".                                      *)
(***************************************************************************)
EXTENDS Naturals, FiniteSets

CONSTANTS Sockets,   \* the sockets: {0} or {0, 1} (CONFIG_HD64461_PCMCIA_SOCKETS)
          States,    \* the socket_state_t values the core passes to set_socket
          DeadSocket \* dead_socket of the core

CscBits == {"detect", "ready", "batdead", "batwarn", "stschg"}
FlagBits == {"iocard", "reset", "output_ena"}
SocketState == [vcc : {0, 33, 50}, vpp : {0, 33, 50}, flags : SUBSET FlagBits,
                csc : SUBSET CscBits]

\* The values the PCMCIA core passes, as the configurations instantiate
\* them.  dead_socket: no power, no flags, only card detect enabled.
CoreDead == [vcc |-> 0, vpp |-> 0, flags |-> {}, csc |-> {"detect"}]

\* socket_setup powers up, socket_reset raises and drops RESET with the
\* outputs on, and the configured card: an I/O card (Vpp 0, STSCHG
\* enabled) or a memory card (READY enabled).
CoreStates ==
  { CoreDead,
    [vcc |-> 50, vpp |-> 50, flags |-> {}, csc |-> {"detect"}],
    [vcc |-> 50, vpp |-> 50, flags |-> {"reset", "output_ena"}, csc |-> {"detect"}],
    [vcc |-> 50, vpp |-> 0, flags |-> {"output_ena", "iocard"}, csc |-> {"detect", "stschg"}],
    [vcc |-> 50, vpp |-> 50, flags |-> {"output_ena"}, csc |-> {"detect", "ready"}] }

ASSUME Sockets \subseteq {0, 1} /\ 0 \in Sockets
ASSUME States \subseteq SocketState /\ DeadSocket \in States

VARIABLES
  st,       \* sp->state: the last socket_state_t set_socket was given
  icmem,    \* sp->IC_memory
  gcr,      \* PCC GCR bits set among "vcc0", "pcct", "pccr", "drve"
  scr,      \* PCC SCR VCC1 bit
  stbcr,    \* sockets whose SPCxST standby bit is set in STBCR
  cscier,   \* PCC CSCIER enable bits
  cscr,     \* PCC CSCR: status changes latched by the controller
  card,     \* the card in the socket: "none", "mem" or "io"
  irqv,     \* hd64461_interrupt between its read of CSCR and its write
  core,     \* the core's view: "down", "up" or "suspended"
  ssRmw,    \* socket 0's init/suspend between GPADR read and write
  gpadr,    \* bits of HD64461_GPADR that are set
  lost,     \* history: a latched, enabled change cleared unreported
  pm,       \* the platform device: "on", "suspend", "suspended", "resume", "remove"
  pmi,      \* the loop index i of drv_suspend, drv_resume or drv_remove
  saved     \* hd64461_sockets[i].cscier, the CSCIER kept over a suspend

pmVars == <<pm, pmi, saved>>
ssVars == <<st, icmem, gcr, scr, stbcr, cscier, cscr, card, irqv, core, ssRmw, lost, pmVars>>
vars == <<ssVars, gpadr>>

NoRmw == [op |-> "none", val |-> {}]
Idle == [busy |-> FALSE, val |-> {}]

Init ==
  /\ st = [s \in Sockets |-> [vcc |-> 0, vpp |-> 0, flags |-> {}, csc |-> {}]]
  /\ icmem = [s \in Sockets |-> TRUE]            \* hd64461_init_socket
  /\ gcr = [s \in Sockets |-> {"vcc0"}] /\ scr = [s \in Sockets |-> TRUE]
  /\ stbcr = Sockets
  /\ cscier = [s \in Sockets |-> {}]              \* cleared by init_socket
  /\ cscr = [s \in Sockets |-> {}]
  /\ card = [s \in Sockets |-> "none"]
  /\ irqv = [s \in Sockets |-> Idle]
  /\ core = [s \in Sockets |-> "down"]
  /\ ssRmw = NoRmw
  /\ gpadr = {"speaker", "pcmcia0"}               \* the devices are off at boot
  /\ lost = FALSE
  /\ pm = "on" /\ pmi = 0
  /\ saved = [s \in Sockets |-> {}]              \* the memset of init_socket

\* The driver's state of socket s and the registers set_socket touches,
\* as one record, so that init, set_socket and suspend compose.
Sock(s) == [state |-> st[s], ic |-> icmem[s], g |-> gcr[s], sc |-> scr[s],
            sb |-> stbcr, ier |-> cscier[s]]

\* Write such a record back.
Store(s, r) ==
  /\ st' = [st EXCEPT ![s] = r.state]
  /\ icmem' = [icmem EXCEPT ![s] = r.ic]
  /\ gcr' = [gcr EXCEPT ![s] = r.g]
  /\ scr' = [scr EXCEPT ![s] = r.sc]
  /\ stbcr' = r.sb
  /\ cscier' = [cscier EXCEPT ![s] = r.ier]

\* Mutant: the STBCR standby bits of the two sockets swapped.
SetVoltageSwapStbcr(s, r, vcc) ==
  [r EXCEPT !.g  = IF vcc = 0 \/ (vcc = 33 /\ s = 0) THEN @ \cup {"vcc0"}
                                                   ELSE @ \ {"vcc0"},
           !.sc = (vcc = 0),
           !.sb = IF vcc > 0 THEN @ \ {1 - s} ELSE @ \cup {1 - s}]

\* hd64461_set_voltage: the GCR VCC0 and SCR VCC1 encoding of Vcc (33 V is
\* encoded like 5 V on socket 1), then the socket's STBCR standby bit.
SetVoltage(s, r, vcc) ==
  [r EXCEPT !.g  = IF vcc = 0 \/ (vcc = 33 /\ s = 0) THEN @ \cup {"vcc0"}
                                                      ELSE @ \ {"vcc0"},
           !.sc = (vcc = 0),
           !.sb = IF vcc > 0 THEN @ \ {s} ELSE @ \cup {s}]

\* The socket is powered, as the hardware reads the bits.
HwPowered(s) == ~("vcc0" \in gcr[s] /\ scr[s]) /\ s \notin stbcr

\* A register bit b follows a state bit f only when f changed:
\* if (changed & f) { if (new & f) reg |= b; else reg &= ~b; }
Follow(reg, f, b, changed, new) ==
  IF f \in changed THEN IF f \in new THEN reg \cup {b} ELSE reg \ {b} ELSE reg

Changed(a, b) == (a \ b) \cup (b \ a)

\* hd64461_set_socket, given whether it sets the voltage: the CSCIER enable
\* bits and the GCR PCCT/PCCR/DRVE bits follow the bits of the state that
\* changed; socket 1 refuses an I/O card with a printk, leaving PCCT and
\* IC_memory alone; then sp->state = *state, whatever was refused.
SetSocketWith(s, r, ns, setv) ==
  LET v   == IF setv THEN SetVoltage(s, r, ns.vcc) ELSE r
      cc  == Changed(r.state.csc, ns.csc)
      fc  == Changed(r.state.flags, ns.flags)
      io  == "iocard" \in fc /\ ~("iocard" \in ns.flags /\ s = 1)
      g1  == IF io THEN Follow(v.g, "iocard", "pcct", fc, ns.flags) ELSE v.g
      g2  == Follow(Follow(g1, "reset", "pccr", fc, ns.flags),
                    "output_ena", "drve", fc, ns.flags)
  IN  [v EXCEPT !.ier   = (@ \ cc) \cup (cc \cap ns.csc),
                !.g     = g2,
                !.ic    = IF io THEN "iocard" \notin ns.flags ELSE @,
                !.state = ns]

\* Mutant: the voltage is compared on Vpp only.
SetSocketVppOnly(s, r, ns) == SetSocketWith(s, r, ns, ns.vpp # r.state.vpp)

\* hd64461_set_socket: the voltage is set only when Vcc or Vpp changed.
SetSocket(s, r, ns) == SetSocketWith(s, r, ns, ns.vpp # r.state.vpp \/ ns.vcc # r.state.vcc)

\* hd64461_init without its GPADR write: Vcc = Vpp = 0 in the state and
\* in the hardware.
DoInit(s, r) == SetVoltage(s, [r EXCEPT !.state.vcc = 0, !.state.vpp = 0], 0)

\* hd64461_suspend without its GPADR write: clear DRVE, power off.  The
\* state is left as it was.
DoSuspend(s, r) == SetVoltage(s, [r EXCEPT !.g = @ \ {"drve"}], 0)

NoIrq == \A s \in Sockets : ~irqv[s].busy

\* Process-context steps of the core: none while an interrupt handler runs
\* or while socket 0's init or suspend is between its GPADR read and write.
CoreMayRun == NoIrq /\ ssRmw = NoRmw

\* The socket's init through the core (pccardd startup, socket_resume
\* from a card suspend or from drv_resume's pcmcia_socket_dev_resume):
\* hd64461_init, whose GPADR read-modify-write on socket 0 is split, then
\* set_socket(dead_socket).
SsInit(s) ==
  /\ CoreMayRun
  /\ \/ pm = "on" /\ core[s] \in {"down", "suspended"}
     \/ pm = "resume" /\ core[s] = "suspended"
  /\ IF s = 0
       THEN /\ Store(s, DoInit(s, Sock(s)))
            /\ ssRmw' = [op |-> "init", val |-> gpadr]
            /\ UNCHANGED core
       ELSE /\ Store(s, SetSocket(s, DoInit(s, Sock(s)), DeadSocket))
            /\ core' = [core EXCEPT ![s] = "up"]
            /\ UNCHANGED ssRmw
  /\ UNCHANGED <<cscr, card, irqv, gpadr, lost, pmVars>>

\* hd64461_init on socket 0 writes GPADR back with PCMCIA0 cleared; the
\* core follows with set_socket(dead_socket).
SsInitWrite ==
  /\ ssRmw.op = "init"
  /\ gpadr' = ssRmw.val \ {"pcmcia0"}
  /\ Store(0, SetSocket(0, Sock(0), DeadSocket))
  /\ core' = [core EXCEPT ![0] = "up"]
  /\ ssRmw' = NoRmw
  /\ UNCHANGED <<cscr, card, irqv, lost, pmVars>>

\* The core sets a new socket state: hd64461_set_socket, interrupts off.
SsSetSocket(s, ns) ==
  /\ CoreMayRun /\ pm = "on" /\ core[s] = "up"
  /\ Store(s, SetSocket(s, Sock(s), ns))
  /\ UNCHANGED <<cscr, card, irqv, core, ssRmw, gpadr, lost, pmVars>>

\* socket_suspend (a card suspend, or drv_suspend's
\* pcmcia_socket_dev_suspend): set_socket(dead_socket), then
\* hd64461_suspend, whose GPADR read-modify-write on socket 0 is split.
SsSuspend(s) ==
  /\ CoreMayRun /\ pm \in {"on", "suspend"} /\ core[s] = "up"
  /\ Store(s, DoSuspend(s, SetSocket(s, Sock(s), DeadSocket)))
  /\ IF s = 0
       THEN ssRmw' = [op |-> "suspend", val |-> gpadr] /\ UNCHANGED core
       ELSE core' = [core EXCEPT ![s] = "suspended"] /\ UNCHANGED ssRmw
  /\ UNCHANGED <<cscr, card, irqv, gpadr, lost, pmVars>>

\* socket_suspend leaves the socket suspended; exit_socket leaves it gone.
AfterSuspend == IF ssRmw.op = "suspend" THEN "suspended" ELSE "gone"

\* Mutant: suspend writes PCMCIA0 alone, without reading GPADR first.
SsSuspendWriteNoRead ==
  /\ ssRmw.op \in {"suspend", "exit"}
  /\ gpadr' = {"pcmcia0"}
  /\ core' = [core EXCEPT ![0] = AfterSuspend]
  /\ ssRmw' = NoRmw
  /\ UNCHANGED <<st, icmem, gcr, scr, stbcr, cscier, cscr, card, irqv, lost, pmVars>>

\* hd64461_suspend on socket 0 writes GPADR back with PCMCIA0 set.
SsSuspendWrite ==
  /\ ssRmw.op \in {"suspend", "exit"}
  /\ gpadr' = ssRmw.val \cup {"pcmcia0"}
  /\ core' = [core EXCEPT ![0] = AfterSuspend]
  /\ ssRmw' = NoRmw
  /\ UNCHANGED <<st, icmem, gcr, scr, stbcr, cscier, cscr, card, irqv, lost, pmVars>>

\* pcmcia_socket_dev_suspend or _resume has returned: every socket of the
\* device is suspended (resumed) and no GPADR write-back is pending.
DevSuspended == CoreMayRun /\ \A s \in Sockets : core[s] = "suspended"
DevResumed == CoreMayRun /\ \A s \in Sockets : core[s] = "up"

\* One turn of hd64461_pcmcia_drv_suspend's loop, on socket i: keep
\* CSCIER, clear it, then pcmcia_socket_dev_suspend, which suspends every
\* socket of the device (SsSuspend) before the next turn.  The platform
\* suspend comes after pcmcia_register_socket has had pccardd initialise
\* every socket.
DrvSuspend(i) ==
  /\ pmi = i
  /\ \/ pm = "on" /\ i = 0 /\ CoreMayRun /\ \A s \in Sockets : core[s] # "down"
     \/ pm = "suspend" /\ DevSuspended
  /\ saved' = [saved EXCEPT ![i] = cscier[i]]
  /\ cscier' = [cscier EXCEPT ![i] = {}]
  /\ pm' = "suspend" /\ pmi' = i + 1
  /\ UNCHANGED <<st, icmem, gcr, scr, stbcr, cscr, card, irqv, core, ssRmw, gpadr, lost>>

\* Mutant: resume leaves CSCIER as suspend cleared it.
DrvResumeNoRestore(i) ==
  /\ pmi = i
  /\ \/ pm = "suspended" /\ i = 0 /\ CoreMayRun
     \/ pm = "resume" /\ DevResumed
  /\ pm' = "resume" /\ pmi' = i + 1
  /\ UNCHANGED <<st, icmem, gcr, scr, stbcr, cscier, cscr, card, irqv, core, ssRmw, gpadr, lost, saved>>

\* One turn of hd64461_pcmcia_drv_resume's loop, on socket i: write the
\* kept CSCIER back, then pcmcia_socket_dev_resume, which resumes every
\* suspended socket of the device (SsInit) before the next turn.
DrvResume(i) ==
  /\ pmi = i
  /\ \/ pm = "suspended" /\ i = 0 /\ CoreMayRun
     \/ pm = "resume" /\ DevResumed
  /\ cscier' = [cscier EXCEPT ![i] = saved[i]]
  /\ pm' = "resume" /\ pmi' = i + 1
  /\ UNCHANGED <<st, icmem, gcr, scr, stbcr, cscr, card, irqv, core, ssRmw, gpadr, lost, saved>>

\* The last turn's dev_suspend or dev_resume has returned, and so has the
\* driver's callback.
DrvPmDone ==
  /\ pmi = Cardinality(Sockets)
  /\ \/ pm = "suspend" /\ DevSuspended /\ pm' = "suspended"
     \/ pm = "resume" /\ DevResumed /\ pm' = "on"
  /\ pmi' = 0
  /\ UNCHANGED <<st, icmem, gcr, scr, stbcr, cscier, cscr, card, irqv, core, ssRmw, gpadr, lost, saved>>

\* One turn of hd64461_pcmcia_drv_remove's loop, on socket i:
\* pcmcia_unregister_socket takes the socket from the core, then
\* hd64461_exit_socket clears CSCIER and runs hd64461_suspend (its GPADR
\* read-modify-write on socket 0 split as in SsSuspend) and frees the irq.
DrvRemove(i) ==
  /\ pmi = i /\ CoreMayRun
  /\ (pm = "on" /\ i = 0) \/ pm = "remove"
  /\ Store(i, DoSuspend(i, [Sock(i) EXCEPT !.ier = {}]))
  /\ core' = [core EXCEPT ![i] = "gone"]
  /\ ssRmw' = IF i = 0 THEN [op |-> "exit", val |-> gpadr] ELSE ssRmw
  /\ pm' = "remove" /\ pmi' = i + 1
  /\ UNCHANGED <<cscr, card, irqv, gpadr, lost, saved>>

\* The socket's interrupt line is asserted: a latched change is enabled.
\* hd64461_interrupt reads CSCR; handlers do not nest.
IrqRead(s) ==
  /\ NoIrq /\ cscr[s] \cap cscier[s] # {}
  /\ irqv' = [irqv EXCEPT ![s] = [busy |-> TRUE, val |-> cscr[s]]]
  /\ UNCHANGED <<st, icmem, gcr, scr, stbcr, cscier, cscr, card, core, ssRmw, gpadr, lost, pmVars>>

CardBits == {"ready", "batwarn", "batdead", "stschg"}

\* What hd64461_interrupt writes back to CSCR from the value it read: a
\* card detect change is cleared, with the other changes if the card is
\* gone (ISR PCD, read now); then RC/BW/BD for a memory card or SC for an
\* I/O card, as sp->IC_memory says.
IrqClear(s, v) ==
  LET c1 == IF "detect" \in v
              THEN (v \ {"detect"}) \ (IF card[s] = "none" THEN CardBits ELSE {})
              ELSE v
  IN  IF icmem[s] THEN c1 \ {"ready", "batwarn", "batdead"} ELSE c1 \ {"stschg"}

\* hd64461_interrupt writes CSCR back and passes the events to the core.
\* The write also clears whatever the controller latched since the read.
IrqWrite(s) ==
  /\ irqv[s].busy
  /\ cscr' = [cscr EXCEPT ![s] = IrqClear(s, irqv[s].val)]
  /\ lost' = (lost \/ (cscr[s] \ irqv[s].val) \cap cscier[s] # {})
  /\ irqv' = [irqv EXCEPT ![s] = Idle]
  /\ UNCHANGED <<st, icmem, gcr, scr, stbcr, cscier, card, core, ssRmw, gpadr, pmVars>>

\* A card is inserted or removed: the controller latches CDC.
HwCard(s, k) ==
  /\ (card[s] = "none") # (k = "none")
  /\ card' = [card EXCEPT ![s] = k]
  /\ cscr' = [cscr EXCEPT ![s] = @ \cup {"detect"}]
  /\ UNCHANGED <<st, icmem, gcr, scr, stbcr, cscier, irqv, core, ssRmw, gpadr, lost, pmVars>>

\* The card changes READY, its battery voltage or STSCHG (BVD1 of an I/O
\* card): the controller latches RC, BW, BD or SC.
HwStatus(s, b) ==
  /\ b \in (CASE card[s] = "mem" -> {"ready", "batwarn", "batdead"}
              [] card[s] = "io"  -> {"stschg"}
              [] OTHER           -> {})
  /\ cscr' = [cscr EXCEPT ![s] = @ \cup {b}]
  /\ UNCHANGED <<st, icmem, gcr, scr, stbcr, cscier, card, irqv, core, ssRmw, gpadr, lost, pmVars>>

\* Steps of the core's process context.
SsProcNext ==
  \/ \E s \in Sockets : SsInit(s) \/ SsSuspend(s)
  \/ \E s \in Sockets, ns \in States : SsSetSocket(s, ns)
  \/ SsInitWrite \/ SsSuspendWrite
  \/ \E i \in Sockets : DrvRemove(i)

\* The platform device's suspend and resume callbacks, with the core's
\* socket_suspend and socket_resume they call.
SsPmNext == \E i \in Sockets : DrvSuspend(i) \/ DrvResume(i) \/ DrvPmDone

\* Interrupt handlers and the hardware.
SsIrqNext ==
  \/ \E s \in Sockets : IrqRead(s) \/ IrqWrite(s)
  \/ \E s \in Sockets, k \in {"none", "mem", "io"} : HwCard(s, k)
  \/ \E s \in Sockets, b \in CardBits : HwStatus(s, b)

Next == SsProcNext \/ SsPmNext \/ SsIrqNext

Spec == Init /\ [][Next]_vars

-----------------------------------------------------------------------------
TypeOK ==
  /\ st \in [Sockets -> SocketState]
  /\ icmem \in [Sockets -> BOOLEAN]
  /\ gcr \in [Sockets -> SUBSET {"vcc0", "pcct", "pccr", "drve"}]
  /\ scr \in [Sockets -> BOOLEAN]
  /\ stbcr \subseteq Sockets
  /\ cscier \in [Sockets -> SUBSET CscBits]
  /\ cscr \in [Sockets -> SUBSET CscBits]
  /\ card \in [Sockets -> {"none", "mem", "io"}]
  /\ irqv \in [Sockets -> [busy : BOOLEAN, val : SUBSET CscBits]]
  /\ core \in [Sockets -> {"down", "up", "suspended", "gone"}]
  /\ ssRmw \in [op : {"none", "init", "suspend", "exit"}, val : SUBSET {"speaker", "pcmcia0"}]
  /\ gpadr \subseteq {"speaker", "pcmcia0"}
  /\ lost \in BOOLEAN
  /\ pm \in {"on", "suspend", "suspended", "resume", "remove"}
  /\ pmi \in 0 .. Cardinality(Sockets)
  /\ saved \in [Sockets -> SUBSET CscBits]

\* hd64461_get_status reports SS_POWERON from sp->state (Vcc or Vpp not 0)
\* and the core trusts it; the socket is powered in the hardware exactly
\* then.  set_socket touches the voltage only when the state's Vcc or Vpp
\* changed, so every path that powers the socket up or down (init,
\* set_socket, suspend, the platform suspend and resume) must keep the two
\* together, as long as the socket is registered with the core.
PowerReported ==
  \A s \in Sockets : core[s] # "gone" =>
    ((st[s].vcc # 0 \/ st[s].vpp # 0) <=> HwPowered(s))

\* The card type the core set (SS_IOCARD) is the one the driver handles:
\* sp->IC_memory, which decides which status changes the interrupt reports,
\* and the PCCT bit of GCR.
CardTypeAgrees ==
  \A s \in Sockets : /\ ("iocard" \in st[s].flags) = ~icmem[s]
                     /\ ("pcct" \in gcr[s]) = ~icmem[s]

\* Every status change the controller latches with its interrupt enabled
\* is reported to the core, or dropped because the card was removed.
NoLostChange == ~lost

\* Every status change the core enables through set_socket's csc_mask is
\* enabled in CSCIER while the core has the socket up: set_socket only
\* touches the bits of the mask that changed, so the platform suspend
\* (which clears CSCIER) and resume (which writes back the copy it kept)
\* must leave CSCIER holding at least the mask the core last set.
IerCoversState ==
  \A s \in Sockets : (core[s] = "up" /\ pm = "on") => st[s].csc \subseteq cscier[s]

\* CSCIER enables exactly the changes of the core's csc_mask: none that
\* the core did not ask for is reported.
IerFollowsState ==
  \A s \in Sockets : (core[s] = "up" /\ pm = "on") => cscier[s] = st[s].csc
====
