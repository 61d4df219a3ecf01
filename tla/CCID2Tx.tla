------------------------------- MODULE CCID2Tx -------------------------------
(***************************************************************************)
(* Sender half-connection of DCCP CCID2 (TCP-like congestion control),     *)
(* net/dccp/ccids/ccid2.c: the circular buffer of sent-packet records,     *)
(* pipe/cwnd/ssthresh, the ack-vector scan, the NUMDUPACK loss detection,  *)
(* the local Ack Ratio, and the RTO timer with its handler.                *)
(*                                                                         *)
(* Contexts.  The user process sends under lock_sock (owned); the receive  *)
(* softirq processes incoming packets; the RTO timer handler takes         *)
(* bh_lock_sock and defers itself when the socket is owned by the user.    *)
(* Each ccid2 entry point is one atomic step.  On SMP the timer's expiry   *)
(* (the timer stops being pending) and the run of its handler (after it    *)
(* got bh_lock_sock) are separate steps; on UP they are one step.          *)
(*                                                                         *)
(* Data abstraction.  Time is not modelled: the RTT/RTO arithmetic lives   *)
(* in module RttEstimator, and here the timer may expire whenever it is    *)
(* pending.  The peer's packet sequence number enters only through its    *)
(* relation to rpseq (the only use the code makes of it).  Sequence        *)
(* numbers do not wrap (48 bits).                                          *)
(***************************************************************************)
EXTENDS Integers, FiniteSets, Sequences, SequencesExt

CONSTANTS
  SeqLen,        \* ccid2_seq_len: slots of the circular buffer
  NumDupAck,     \* ccid2hctx_numdupack (3 in ccid2_hc_tx_init)
  InitSsthresh,  \* initial ccid2hctx_ssthresh (10 in ccid2_hc_tx_init)
  InitAckRatios, \* possible dccps_l_ack_ratio values when the CCID starts
  SMP,           \* TRUE: timer expiry and handler run are distinct steps
  MaxSeq,        \* bound: highest sequence number the sender transmits
  MaxCwnd,       \* bound: behaviours are explored while cwnd <= MaxCwnd
  MaxRunLen,     \* bound: largest run length field of an ack-vector byte
  MaxVecLen,     \* bound: most run bytes in one incoming ack
  MaxCoverage,   \* bound: most sequence numbers one ack vector describes
  MaxHandlers,   \* bound: expired-timer handlers waiting for the lock
  AckStates      \* ack-vector states the peer reports (ECN marking or not)

ASSUME SeqLen >= 2 /\ NumDupAck >= 1 /\ MaxSeq >= 1 /\ MaxCwnd >= 1
ASSUME InitSsthresh >= 2 /\ InitAckRatios \subseteq Nat \ {0}
\* A run never reaches back over a whole buffer (63 < 128 in the code).
ASSUME MaxRunLen \in 0 .. SeqLen - 1
ASSUME AckStates \subseteq {"Received", "EcnMarked", "NotReceived"}

VARIABLES
  seqbuf,    \* ccid2hctx_seqbuf: slot -> [seq, acked]
  seqh,      \* ccid2hctx_seqh: slot the next sent packet is written to
  seqt,      \* ccid2hctx_seqt: oldest slot of the live window
  cwnd, ssthresh, pipe,
  sendwait,  \* ccid2hctx_sendwait
  ssacks,    \* ccid2hctx_ssacks: new acks counted in slow start
  acks,      \* ccid2hctx_acks: new acks counted in congestion avoidance
  arsent,    \* ccid2hctx_arsent
  ackloss,   \* ccid2hctx_ackloss
  rpdupack,  \* ccid2hctx_rpdupack (-1: bootstrap)
  ackratio,  \* dp->dccps_l_ack_ratio
  gss,       \* dp->dccps_gss: greatest sequence number sent
  timer,     \* ccid2hctx_rtotimer: "idle" or "pending"
  handlers,  \* expired timer handlers not yet run (SMP)
  owned,     \* sock_owned_by_user(sk)
  exited,    \* ccid2_hc_tx_exit has run: the connection is torn down
  bugs       \* BUG_ON/WARN_ON sites that have fired

vars == <<seqbuf, seqh, seqt, cwnd, ssthresh, pipe, sendwait, ssacks, acks,
          arsent, ackloss, rpdupack, ackratio, gss, timer, handlers, owned,
          exited, bugs>>

Slots == 0 .. SeqLen - 1
\* kmalloc does not zero the buffer: a never-written slot holds Uninit, a
\* garbage sequence number that compares either below or above every
\* sequence number sent; InRun treats it as outside every run.
Uninit == -1
\* How the peer packet's sequence number relates to rpseq: "later" is
\* after48(seqno, rpseq) but not rpseq + 1; "other" is rpseq + 1 (rpseq is
\* incremented, which nothing else observes) or not after rpseq.
RpKinds == {"later", "other"}
Bugs == {"pipe_negative", "timer_rearm", "window_full", "after_exit"}

SlotNext(i) == (i + 1) % SeqLen
SlotPrev(i) == (i + SeqLen - 1) % SeqLen

\* The live window [seqt, seqh) in send order: WinSlot(1) is the oldest.
WinLen == (seqh - seqt + SeqLen) % SeqLen
WinSlot(k) == (seqt + k - 1) % SeqLen
Window == {WinSlot(k) : k \in 1 .. WinLen}

-----------------------------------------------------------------------------
(* ccid2_change_cwnd and ccid2_change_l_ack_ratio                          *)

\* Mutant: without the guard against a zero window.
ChangeCwndNoFloor(val) == val

ChangeCwnd(val) == IF val = 0 THEN 1 ELSE val

\* val is capped at cwnd/2 rounded up, except when it is 2.
ChangeAckRatio(val, cw) ==
  IF val # 2 THEN Min({val, cw \div 2 + (cw % 2)}) ELSE val

-----------------------------------------------------------------------------
Init ==
  /\ seqbuf = [s \in Slots |-> [seq |-> Uninit, acked |-> FALSE]]
  /\ seqh = 0 /\ seqt = 0
  /\ cwnd = 1 /\ ssthresh = InitSsthresh /\ pipe = 0
  /\ sendwait = FALSE /\ ssacks = 0 /\ acks = 0 /\ arsent = 0
  /\ ackloss = FALSE /\ rpdupack = -1
  /\ ackratio \in InitAckRatios
  /\ gss = 0 /\ timer = "idle" /\ handlers = 0 /\ owned = FALSE
  /\ exited = FALSE /\ bugs = {}

\* A process enters the socket layer (lock_sock: sendmsg, recvmsg,
\* setsockopt, ...); while it owns the socket, incoming packets wait in
\* the backlog and the RTO handler only re-arms the timer.
UserLock ==
  /\ ~owned /\ ~exited
  /\ owned' = TRUE
  /\ UNCHANGED <<seqbuf, seqh, seqt, cwnd, ssthresh, pipe, sendwait, ssacks,
                 acks, arsent, ackloss, rpdupack, ackratio, gss, timer,
                 handlers, exited, bugs>>

\* release_sock, never between send_packet and packet_sent.
UserRelease ==
  /\ owned /\ ~sendwait
  /\ owned' = FALSE
  /\ UNCHANGED <<seqbuf, seqh, seqt, cwnd, ssthresh, pipe, sendwait, ssacks,
                 acks, arsent, ackloss, rpdupack, ackratio, gss, timer,
                 handlers, exited, bugs>>

\* Mutant: send_packet lets a packet go whatever pipe and cwnd are.
TxSendPacketNoCwnd ==
  /\ owned /\ gss < MaxSeq /\ ~sendwait
  /\ sendwait' = TRUE
  /\ UNCHANGED <<seqbuf, seqh, seqt, cwnd, ssthresh, pipe, ssacks, acks,
                 arsent, ackloss, rpdupack, ackratio, gss, timer, handlers,
                 owned, exited, bugs>>

\* ccid2_hc_tx_send_packet for a data packet, returning 0 (may send) when
\* pipe < cwnd and no packet awaits packet_sent; otherwise it returns 100
\* and the caller retries later, a step that changes nothing.
TxSendPacket ==
  /\ owned /\ gss < MaxSeq
  /\ pipe < cwnd /\ ~sendwait
  /\ sendwait' = TRUE
  /\ UNCHANGED <<seqbuf, seqh, seqt, cwnd, ssthresh, pipe, ssacks, acks,
                 arsent, ackloss, rpdupack, ackratio, gss, timer, handlers,
                 owned, exited, bugs>>

\* A packet without congestion control (e.g. an Ack for reverse data):
\* send_packet returns 0 at once and packet_sent is not called, but the
\* packet consumes a sequence number.
TxSendNonData ==
  /\ gss < MaxSeq /\ ~sendwait /\ ~exited
  /\ gss' = gss + 1
  /\ UNCHANGED <<seqbuf, seqh, seqt, cwnd, ssthresh, pipe, sendwait, ssacks,
                 acks, arsent, ackloss, rpdupack, ackratio, timer, handlers,
                 owned, exited, bugs>>

\* Ack Ratio bookkeeping of ccid2_hc_tx_packet_sent: [arsent, ackloss, ratio].
AckRatioOnSent(ars, ar, cw) ==
  IF ackloss
  THEN IF ars >= cw THEN [arsent |-> 0, ackloss |-> FALSE, ratio |-> ar]
                    ELSE [arsent |-> ars, ackloss |-> TRUE, ratio |-> ar]
  ELSE IF ar > 1
       THEN IF ars >= (cw * cw) \div (ar * ar - ar)
            THEN [arsent |-> 0, ackloss |-> FALSE, ratio |-> ChangeAckRatio(ar - 1, cw)]
            ELSE [arsent |-> ars, ackloss |-> FALSE, ratio |-> ar]
       ELSE [arsent |-> 0, ackloss |-> FALSE, ratio |-> ar]

\* dccp_transmit_skb numbers the packet (++gss), then
\* ccid2_hc_tx_packet_sent records it at seqh.
TxPacketSent ==
  LET seq == gss + 1
      h   == SlotNext(seqh)
      ar  == AckRatioOnSent(arsent + 1, ackratio, cwnd)
  IN
  /\ owned /\ sendwait
  /\ gss' = seq
  /\ sendwait' = FALSE
  /\ pipe' = pipe + 1
  /\ seqbuf' = [seqbuf EXCEPT ![seqh] = [seq |-> seq, acked |-> FALSE]]
  /\ seqh' = h
  /\ arsent' = ar.arsent
  /\ ackloss' = ar.ackloss
  /\ ackratio' = ar.ratio
  /\ timer' = "pending"
  /\ bugs' = bugs \cup (IF h = seqt THEN {"window_full"} ELSE {})
  /\ UNCHANGED <<seqt, cwnd, ssthresh, ssacks, acks, rpdupack, handlers,
                 owned, exited>>

-----------------------------------------------------------------------------
(* ccid2_hc_tx_packet_recv.  The handler threads a context record c        *)
(* through its loops: buf, pipe, cwnd, ssacks, acks, maxincr, loss, timer, *)
(* bugs, and the cursor seqp with the current ackno and the done flag.     *)

\* Mutant: the timer is killed on every decrement, not only at zero.
DecPipeAlwaysKill(c) ==
  [c EXCEPT !.pipe  = @ - 1,
            !.bugs  = IF c.pipe - 1 < 0 THEN @ \cup {"pipe_negative"} ELSE @,
            !.timer = "idle"]

\* ccid2_hc_tx_dec_pipe
DecPipe(c) ==
  [c EXCEPT !.pipe  = @ - 1,
            !.bugs  = IF c.pipe - 1 < 0 THEN @ \cup {"pipe_negative"} ELSE @,
            !.timer = IF c.pipe - 1 = 0 THEN "idle" ELSE @]

\* ccid2_new_ack without its RTT sample (module RttEstimator); it ends by
\* restarting the RTO timer (kill, then start: never found pending).
NewAck(c) ==
  LET grow == c.cwnd < ssthresh /\ c.maxincr > 0 /\ c.ssacks + 1 = 2
      ca   == c.cwnd >= ssthresh
  IN [c EXCEPT
       !.ssacks  = IF ~ca /\ c.maxincr > 0 /\ ~grow THEN @ + 1 ELSE 0,
       !.acks    = IF ca /\ c.acks + 1 < c.cwnd THEN @ + 1 ELSE 0,
       !.cwnd    = IF grow \/ (ca /\ c.acks + 1 >= c.cwnd)
                   THEN ChangeCwnd(@ + 1) ELSE @,
       !.maxincr = IF grow THEN @ - 1 ELSE @,
       !.timer   = "pending"]

\* One record newly reported Received or EcnMarked.
MarkAcked(c, s, state) ==
  LET a == IF state = "EcnMarked" THEN [c EXCEPT !.loss = TRUE] ELSE NewAck(c)
  IN DecPipe([a EXCEPT !.buf[s].acked = TRUE])

\* after48(seq, ackno); for a garbage seq the outcome is c.high.
After(c, seq) == IF seq = Uninit THEN c.high ELSE seq > c.ackno

\* between48(seq, ackno_end_rl, ackno) for run r; never for garbage.
InRun(c, seq, r) == seq # Uninit /\ c.ackno - r.rl <= seq /\ seq <= c.ackno

\* The loops over the ack-vector bytes.  Phase "walk":
\* while (after48(seqp->ccid2s_seq, ackno)) moves seqp towards the tail.
\* Phase "run": while (between48(...)) handles the record at seqp and moves
\* the cursor to ccid2s_next, as the code does.  Then ackno steps to
\* ackno_end_rl - 1 and the next byte starts.  Reaching seqt ends the scan.
RECURSIVE Scan(_, _)
Scan(cc, vec) ==
  \* c is cc evaluated once (the steps below read it many times)
  CHOOSE res \in
    { LET s   == c.seqp
          seq == c.buf[s].seq
          r   == Head(vec)
      IN
      IF c.done \/ vec = <<>> THEN c
      ELSE IF c.phase = "walk"
      THEN IF ~After(c, seq) THEN Scan([c EXCEPT !.phase = "run"], vec)
           ELSE IF s = seqt THEN [c EXCEPT !.done = TRUE]
           ELSE Scan([c EXCEPT !.seqp = SlotPrev(s)], vec)
      ELSE IF ~InRun(c, seq, r)
      THEN Scan([c EXCEPT !.phase = "walk", !.ackno = @ - r.rl - 1], Tail(vec))
      ELSE LET m == IF r.state # "NotReceived" /\ ~c.buf[s].acked
                    THEN MarkAcked(c, s, r.state) ELSE c
           IN IF s = seqt THEN [m EXCEPT !.done = TRUE]
              ELSE Scan([m EXCEPT !.seqp = SlotNext(s)], vec)
    : c \in {cc} } : TRUE

RECURSIVE DecPipeTimes(_, _)
DecPipeTimes(cc, n) ==
  CHOOSE res \in {IF n = 0 THEN c ELSE DecPipeTimes(DecPipe(c), n - 1) : c \in {cc}}
    : TRUE

\* Reverse-path congestion check: [rpdupack, ratio] after a peer packet
\* whose sequence number stands in relation rp to rpseq.
RpCheck(rp) ==
  IF rpdupack = -1 THEN [rpdupack |-> 0, ratio |-> ackratio]
  ELSE IF rp = "later"
       THEN IF rpdupack + 1 >= NumDupAck
            THEN [rpdupack |-> -1, ratio |-> ChangeAckRatio(2 * ackratio, cwnd)]
            ELSE [rpdupack |-> rpdupack + 1, ratio |-> ackratio]
       ELSE [rpdupack |-> rpdupack, ratio |-> ackratio]

\* The forward path of an Ack or DataAck: the context the scan starts from.
ScanStart(ackno, ratio, high) ==
  [buf |-> seqbuf, pipe |-> pipe, cwnd |-> cwnd, ssacks |-> ssacks,
   acks |-> acks, maxincr |-> ratio \div 2 + 1, loss |-> FALSE,
   timer |-> timer, bugs |-> bugs, seqp |-> SlotPrev(seqh), ackno |-> ackno,
   done |-> FALSE, high |-> high, phase |-> "walk", tail |-> 1]

\* Mutant: the records found lost are not taken out of pipe.
DetectLossNoDecPipe(c) ==
  LET acked == {k \in 1 .. WinLen : c.buf[WinSlot(k)].acked}
      last  == CHOOSE k \in acked : Cardinality({j \in acked : j >= k}) = NumDupAck
  IN IF Cardinality(acked) >= NumDupAck
     THEN [c EXCEPT !.loss = @ \/ \E k \in 1 .. last : ~c.buf[WinSlot(k)].acked,
                    !.tail = last]
     ELSE c

\* The NUMDUPACK check after the scan: walking from the head, the
\* NumDupAck-th acked record becomes the tail (position tail of the
\* window) and every unacked record at or below it is lost.
DetectLoss(c) ==
  LET acked == {k \in 1 .. WinLen : c.buf[WinSlot(k)].acked}
      dup   == Cardinality(acked) >= NumDupAck
      last  == CHOOSE k \in acked : Cardinality({j \in acked : j >= k}) = NumDupAck
      lost  == {k \in 1 .. last : ~c.buf[WinSlot(k)].acked}
  IN IF dup
     THEN [DecPipeTimes(c, Cardinality(lost)) EXCEPT
             !.loss = @ \/ lost # {}, !.tail = last]
     ELSE c

\* Mutant: trimming starts at the old seqt, ignoring last_acked.
TrimTailFromOldTail(c) ==
  LET keep == {k \in 1 .. WinLen : ~c.buf[WinSlot(k)].acked}
  IN [c EXCEPT !.seqp = IF keep = {} THEN seqh ELSE WinSlot(Min(keep)),
               !.cwnd = IF c.loss THEN ChangeCwnd(@ \div 2) ELSE @]

\* Trimming acked records at the tail, then halving cwnd on loss; seqp
\* carries the new seqt.
TrimTail(c) ==
  LET keep == {k \in c.tail .. WinLen : ~c.buf[WinSlot(k)].acked}
  IN [c EXCEPT !.seqp = IF keep = {} THEN seqh ELSE WinSlot(Min(keep)),
               !.cwnd = IF c.loss THEN ChangeCwnd(@ \div 2) ELSE @]

\* An incoming Ack/DataAck (kind "ack") or Data (kind "data") packet.
\* high: how a garbage sequence number compares (undefined contents).
RecvPacket(kind, rp, ackno, vec, high) ==
  LET r == RpCheck(rp)
      forward == seqh # seqt /\ kind = "ack"
  IN
  /\ ~owned /\ ~exited
  /\ rpdupack' = r.rpdupack
  /\ ackratio' = r.ratio
  /\ \E c1 \in {Scan(ScanStart(ackno, r.ratio, high), vec)} :
     \E c2 \in {DetectLoss(c1)} :
     \E o \in {TrimTail(c2)} :
     IF forward
     THEN /\ seqbuf' = o.buf /\ pipe' = o.pipe /\ cwnd' = o.cwnd
          /\ ssacks' = o.ssacks /\ acks' = o.acks /\ timer' = o.timer
          /\ seqt' = o.seqp
          /\ ssthresh' = IF o.loss THEN Max({2, o.cwnd}) ELSE ssthresh
          /\ bugs' = o.bugs
     ELSE UNCHANGED <<seqbuf, pipe, cwnd, ssacks, acks, timer, seqt,
                      ssthresh, bugs>>
  /\ cwnd' <= MaxCwnd
  /\ UNCHANGED <<seqh, sendwait, arsent, ackloss, gss, handlers, owned, exited>>

-----------------------------------------------------------------------------
(* The RTO timer.  timer_pending() is FALSE from the moment the timer      *)
(* expires; its handler then spins on bh_lock_sock.                        *)

\* A handler that runs after ccid2_hc_tx_exit works on the torn-down
\* ccid2_hc_tx_sock.
Freed == IF exited THEN {"after_exit"} ELSE {}

\* Mutant: the deferred handler does not re-arm the timer.
RtoHandlerNoRearm(t) ==
  /\ timer' = IF owned THEN t ELSE "pending"
  /\ IF owned
     THEN /\ bugs' = bugs \cup Freed
          /\ UNCHANGED <<seqbuf, seqh, seqt, cwnd, ssthresh, pipe, ssacks, acks,
                         arsent, ackloss, rpdupack, ackratio>>
     ELSE /\ bugs' = bugs \cup Freed \cup (IF t = "pending" THEN {"timer_rearm"} ELSE {})
          /\ pipe' = 0
          /\ ssthresh' = Max({2, cwnd \div 2})
          /\ cwnd' = ChangeCwnd(1)
          /\ seqt' = seqh
          /\ ssacks' = 0 /\ acks' = 0 /\ arsent' = 0 /\ ackloss' = FALSE
          /\ rpdupack' = -1
          /\ ackratio' = ChangeAckRatio(1, 1)
          /\ UNCHANGED <<seqbuf, seqh>>

\* ccid2_hc_tx_rto_expire, run with the timer in state t.  If the user owns
\* the socket it only re-arms the timer; otherwise it backs off the RTO
\* (module RttEstimator), restarts the timer (BUG_ON(timer_pending) in
\* ccid2_start_rto_timer) and resets the window.
RtoHandler(t) ==
  /\ timer' = "pending"
  /\ IF owned
     THEN /\ bugs' = bugs \cup Freed
          /\ UNCHANGED <<seqbuf, seqh, seqt, cwnd, ssthresh, pipe, ssacks, acks,
                         arsent, ackloss, rpdupack, ackratio>>
     ELSE /\ bugs' = bugs \cup Freed \cup (IF t = "pending" THEN {"timer_rearm"} ELSE {})
          /\ pipe' = 0
          /\ ssthresh' = Max({2, cwnd \div 2})
          /\ cwnd' = ChangeCwnd(1)
          /\ seqt' = seqh
          /\ ssacks' = 0 /\ acks' = 0 /\ arsent' = 0 /\ ackloss' = FALSE
          /\ rpdupack' = -1
          /\ ackratio' = ChangeAckRatio(1, 1)
          /\ UNCHANGED <<seqbuf, seqh>>

\* UP: the handler runs in the softirq in which the timer expires.
TimerFireUP ==
  /\ ~SMP /\ timer = "pending"
  /\ RtoHandler("idle")
  /\ UNCHANGED <<sendwait, gss, handlers, owned, exited>>

\* SMP: the timer expires; its handler waits for bh_lock_sock ...
TimerExpireSMP ==
  /\ SMP /\ timer = "pending" /\ handlers < MaxHandlers
  /\ timer' = "idle"
  /\ handlers' = handlers + 1
  /\ UNCHANGED <<seqbuf, seqh, seqt, cwnd, ssthresh, pipe, sendwait, ssacks,
                 acks, arsent, ackloss, rpdupack, ackratio, gss, owned, exited, bugs>>

\* ... and runs once it holds it, whatever happened to the timer meanwhile.
RtoExpireSMP ==
  /\ handlers > 0
  /\ handlers' = handlers - 1
  /\ RtoHandler(timer)
  /\ UNCHANGED <<sendwait, gss, owned, exited>>

\* ccid2_hc_tx_exit, called by the DCCP core when it destroys the socket
\* (under bh_lock_sock, the user gone): ccid2_hc_tx_kill_rto_timer stops
\* a pending timer with sk_stop_timer, which does not wait for a handler
\* that has already expired, and seqbuf is freed.
TxExit ==
  /\ ~exited /\ ~owned
  /\ exited' = TRUE
  /\ timer' = "idle"
  /\ UNCHANGED <<seqbuf, seqh, seqt, cwnd, ssthresh, pipe, sendwait, ssacks,
                 acks, arsent, ackloss, rpdupack, ackratio, gss, handlers,
                 owned, bugs>>

\* The connection is gone and no timer or handler is left: nothing more
\* happens.
Closed == exited /\ timer = "idle" /\ handlers = 0 /\ UNCHANGED vars

-----------------------------------------------------------------------------
\* The runs of all ack-vector options of a packet, in order (ccid2_ackvector
\* hands them over option by option; ackno runs on across options).
AckVectors == BoundedSeq([state : AckStates, rl : 0 .. MaxRunLen], MaxVecLen)

\* Runs cover rl + 1 sequence numbers each and stay above sequence 0.
Coverage(vec) == FoldLeft(LAMBDA acc, r : acc + r.rl + 1, 0, vec)

Next ==
  \/ UserLock \/ UserRelease
  \/ TxSendPacket \/ TxPacketSent \/ TxSendNonData
  \/ \E kind \in {"ack", "data"},
        rp \in IF rpdupack = -1 THEN {"other"} ELSE RpKinds :
       IF kind = "data" \/ seqh = seqt
       THEN RecvPacket(kind, rp, gss, <<>>, FALSE)
       ELSE \E ackno \in seqbuf[seqt].seq .. gss, vec \in AckVectors,
                high \in IF seqbuf[seqh].seq = Uninit THEN BOOLEAN ELSE {FALSE} :
              /\ Coverage(vec) <= Min({ackno, MaxCoverage})
              /\ RecvPacket(kind, rp, ackno, vec, high)
  \/ TimerFireUP \/ TimerExpireSMP \/ RtoExpireSMP
  \/ TxExit \/ Closed

Spec == Init /\ [][Next]_vars

\* The kernel expires a pending timer and runs its handler once it holds
\* bh_lock_sock; a process holding the socket reaches packet_sent and
\* releases it.  A deferred handler retries every HZ/5 while processes
\* take and release the socket at unrelated times, so a handler that
\* could find the socket free infinitely often eventually does (strong
\* fairness).  Packet arrivals carry no fairness: acks may all be lost.
Fairness ==
  /\ WF_vars(TxPacketSent) /\ WF_vars(UserRelease)
  /\ WF_vars(TimerFireUP) /\ WF_vars(TimerExpireSMP) /\ WF_vars(RtoExpireSMP)
  /\ SF_vars(TimerFireUP /\ ~owned) /\ SF_vars(TimerExpireSMP /\ ~owned)
  /\ SF_vars(RtoExpireSMP /\ ~owned)

LiveSpec == Spec /\ Fairness

-----------------------------------------------------------------------------
(* Properties                                                              *)

\* Every variable stays in its domain; in particular ccid2_change_cwnd
\* keeps cwnd >= 1 and ccid2_change_l_ack_ratio never sets a ratio <= 0
\* (its WARN_ON).
TypeOK ==
  /\ seqbuf \in [Slots -> [seq : {Uninit} \cup 1 .. MaxSeq, acked : BOOLEAN]]
  /\ seqh \in Slots /\ seqt \in Slots
  /\ cwnd \in 1 .. MaxCwnd /\ ssthresh \in 2 .. Max({InitSsthresh, MaxCwnd})
  /\ pipe \in Int /\ sendwait \in BOOLEAN
  /\ ssacks \in 0 .. 1 /\ acks \in 0 .. MaxCwnd
  /\ arsent \in Nat /\ ackloss \in BOOLEAN
  /\ rpdupack \in -1 .. NumDupAck - 1
  /\ ackratio \in 1 .. Max({2, MaxCwnd} \cup InitAckRatios)
  /\ gss \in 0 .. MaxSeq /\ timer \in {"idle", "pending"}
  /\ handlers \in 0 .. MaxHandlers /\ owned \in BOOLEAN /\ exited \in BOOLEAN
  /\ bugs \subseteq Bugs

\* ccid2_hc_tx_check_sanity: pipe counts exactly the unacked records of the
\* live window [seqt, seqh), whose sequence numbers increase from tail to
\* head.  Sends, ack scans, loss detection, trimming and RTO resets all
\* change pipe and the window separately.
\* The buffer wrapping onto live records is a separate finding
\* (NoWindowOverflow); the property is claimed for the states before it.
PipeMatchesWindow ==
  "window_full" \notin bugs =>
  /\ pipe = Cardinality({s \in Window : ~seqbuf[s].acked})
  /\ \A k \in 1 .. WinLen - 1 : seqbuf[WinSlot(k)].seq < seqbuf[WinSlot(k + 1)].seq

\* After every packet the live window starts at an unacknowledged record,
\* and fewer than NUMDUPACK of its records are acknowledged: the scan, the
\* NUMDUPACK check (which moves seqt to the last acked record and counts
\* the records below as lost) and the tail trim together keep it so.
WindowTrimmed ==
  "window_full" \notin bugs =>
  /\ seqh # seqt => ~seqbuf[seqt].acked
  /\ Cardinality({s \in Window : seqbuf[s].acked}) < NumDupAck

\* The RTO timer is never started while it is pending: BUG_ON in
\* ccid2_start_rto_timer, reached from ccid2_hc_tx_rto_expire after the
\* handler waited for bh_lock_sock while the send or receive path (which
\* holds it) re-armed the expired timer.
NoTimerRearm == "timer_rearm" \notin bugs

\* The buffer never wraps onto unacknowledged records (WARN_ON in
\* ccid2_hc_tx_packet_sent: "XXX allocate more space").
NoWindowOverflow == "window_full" \notin bugs

\* No RTO handler runs after ccid2_hc_tx_exit: the timer is stopped at
\* teardown, so neither the handler nor the timer it re-arms (in both of
\* its branches) touches the freed ccid2_hc_tx_sock.
NoHandlerAfterExit == "after_exit" \notin bugs

\* While packets are outstanding, an RTO is always on its way: the timer is
\* pending or an expired handler is still to run.  Without it a sender
\* whose acks are all lost stalls with pipe >= cwnd forever.
OutstandingHasTimer ==
  ~exited /\ pipe > 0 => timer = "pending" \/ handlers > 0

\* Outstanding packets are eventually resolved even if no ack ever arrives:
\* the RTO handler (or acks and losses) bring pipe back to zero.  The
\* handler re-arms the timer while the user owns the socket, and dec_pipe
\* stops it only when pipe reaches zero.  A torn-down connection has
\* nothing left to clear.
OutstandingCleared == pipe > 0 ~> pipe = 0 \/ exited

-----------------------------------------------------------------------------
(* Properties of the ack-vector scan, checked for every ack a reachable    *)
(* state may receive.                                                      *)

\* Reference: the sequence numbers a vector reports Received or EcnMarked,
\* its runs walking backwards from ackno, each covering rl + 1 numbers.
RECURSIVE Reported(_, _)
Reported(ackno, vec) ==
  IF vec = <<>> THEN {}
  ELSE LET r == Head(vec)
       IN (IF r.state # "NotReceived" THEN ackno - r.rl .. ackno ELSE {})
          \cup Reported(ackno - r.rl - 1, Tail(vec))

\* The scan of ccid2_hc_tx_packet_recv marks acked every record of the
\* live window whose sequence number a run reports Received or EcnMarked.
ScanAcksReported ==
  \A ackno \in 1 .. gss, vec \in AckVectors :
    Coverage(vec) <= Min({ackno, MaxCoverage}) =>
      LET c == Scan(ScanStart(ackno, ackratio, FALSE), vec)
      IN \A s \in Window : seqbuf[s].seq \in Reported(ackno, vec) => c.buf[s].acked

\* An incoming packet only ever marks acked records of the live window
\* [seqt, seqh): a run reaching below the tail finds nothing to ack.
AcksOnlyLiveRecords ==
  [][\A s \in Slots : ~seqbuf[s].acked /\ seqbuf'[s].acked => s \in Window]_vars

-----------------------------------------------------------------------------
(* Refinement of the abstract sender window (module CCID2Window).          *)

\* The outstanding packets: the sequence numbers of the unacked records of
\* the live window, what ccid2_hc_tx_check_sanity counts against pipe.
Outstanding == {seqbuf[s].seq : s \in {s \in Window : ~seqbuf[s].acked}}

Abs == INSTANCE CCID2Window
         WITH outstanding <- Outstanding, overflow <- "window_full" \in bugs

\* The circular buffer with its scan, NUMDUPACK check, trim and RTO reset
\* implements the abstract window: packets are recorded only while
\* pipe < cwnd, a resolved packet never becomes outstanding again, pipe
\* falls by exactly the packets resolved, and cwnd never grows by more
\* than one per packet an incoming ack resolves.
WindowRefined == Abs!Spec

\* In slow start one incoming ack grows cwnd by at most ceil(ratio / 2),
\* ratio the Ack Ratio in force for it (the bound maxincr implements).
SlowStartBurstBounded ==
  [][cwnd < ssthresh /\ cwnd' > cwnd => cwnd' - cwnd <= (ackratio' + 1) \div 2]_vars
=============================================================================
