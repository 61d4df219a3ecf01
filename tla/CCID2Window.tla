----------------------------- MODULE CCID2Window -----------------------------
(***************************************************************************)
(* What the CCID2 sender window promises (net/dccp/ccids/ccid2.c), with    *)
(* the circular buffer, the ack-vector scan, the NUMDUPACK check and the   *)
(* tail trim abstracted away: a set of outstanding sequence numbers.       *)
(*                                                                         *)
(*  - a packet is recorded as outstanding only while pipe < cwnd, and it   *)
(*    is the newest sequence number sent;                                  *)
(*  - packets leave the outstanding set (acked, found lost, or dropped by  *)
(*    an RTO) and never come back to it;                                   *)
(*  - pipe falls by exactly the number of packets that left it;            *)
(*  - cwnd grows by at most one per packet resolved in the same step.      *)
(*                                                                         *)
(* Once the buffer wraps onto live records (the WARN_ON "XXX allocate     *)
(* more space" of ccid2_hc_tx_packet_sent) nothing is promised.           *)
(***************************************************************************)
EXTENDS Naturals, FiniteSets

VARIABLES
  outstanding,  \* sequence numbers sent and not yet resolved
  pipe,         \* ccid2hctx_pipe
  cwnd,         \* ccid2hctx_cwnd
  gss,          \* greatest sequence number sent
  overflow      \* the buffer has wrapped onto live records

wvars == <<outstanding, pipe, cwnd, gss, overflow>>

Init ==
  /\ outstanding = {} /\ pipe = 0 /\ cwnd = 1 /\ gss = 0 /\ overflow = FALSE

\* A congestion-controlled packet is sent and recorded: send_packet allowed
\* it because pipe < cwnd, packet_sent records the new sequence number.
RecordSent ==
  /\ ~overflow /\ pipe < cwnd
  /\ gss' = gss + 1
  /\ outstanding' = outstanding \cup {gss'}
  /\ pipe' = pipe + 1
  /\ UNCHANGED <<cwnd, overflow>>

\* A packet outside congestion control consumes a sequence number only.
SendUnmetered ==
  /\ gss' = gss + 1
  /\ UNCHANGED <<outstanding, pipe, cwnd, overflow>>

\* An incoming ack or an RTO resolves some outstanding packets and sets
\* the window anew: never above one more packet per packet resolved.
Resolve ==
  LET gone == outstanding \ outstanding'
  IN /\ ~overflow
     /\ outstanding' \subseteq outstanding
     /\ pipe' = pipe - Cardinality(gone)
     /\ cwnd' \in 1 .. cwnd + Cardinality(gone)
     /\ UNCHANGED <<gss, overflow>>

\* The buffer wraps: from here on the window is not described.
Overflow == overflow' = TRUE

Next == RecordSent \/ SendUnmetered \/ Resolve \/ Overflow

Spec == Init /\ [][Next]_wvars
=============================================================================
