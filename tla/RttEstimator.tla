---------------------------- MODULE RttEstimator ----------------------------
(***************************************************************************)
(* The round-trip-time estimator and retransmission timeout of the CCID2   *)
(* sender (net/dccp/ccids/ccid2.c): the RTO update at the end of           *)
(* ccid2_new_ack and the exponential backoff of ccid2_hc_tx_rto_expire.    *)
(* Time is measured in jiffies; HZ jiffies make one second.                *)
(*                                                                         *)
(* The code samples the RTT only when srtt is unset or at least srtt       *)
(* jiffies have passed since the last sample.  Since jiffies advance       *)
(* freely, that throttle only decides WHICH acks sample, never the value   *)
(* sampled, and is left out: every step Sample(r) is an ack that passed    *)
(* it.  The measured r = jiffies - ccid2s_sent ranges over Samples.        *)
(*                                                                         *)
(* specSrtt is a history variable: the srtt that spec.md section 4.3       *)
(* prescribes, (7*srtt + r)/8, fed the same samples.  It does not          *)
(* influence the modelled variables.                                       *)
(***************************************************************************)
EXTENDS Integers

CONSTANTS HZ,       \* jiffies per second
          Samples   \* measured RTTs r (jiffies) an ack may yield

ASSUME HZ \in Nat \ {0} /\ Samples \subseteq Nat

VARIABLES srtt, rttvar, rto, specSrtt

vars == <<srtt, rttvar, rto, specSrtt>>

\* ccid2_hc_tx_init: rto = 3 * HZ, srtt = rttvar = -1 (no sample yet).
Init ==
    /\ srtt = -1
    /\ rttvar = -1
    /\ rto = 3 * HZ
    /\ specSrtt = -1

\* The "must be at least a second" and "max 60 seconds" clamps: both test
\* the whole seconds rto / HZ, not rto itself.
ClampRto(r) ==
    LET s == r \div HZ
    IN  IF s < 1 THEN HZ ELSE IF s > 60 THEN HZ * 60 ELSE r

\* Mutant: the "if (tmp < 0) tmp *= -1" absolute value dropped.
NextRttvarNoAbs(r) ==
    IF srtt = -1 THEN r \div 2 ELSE (3 * rttvar) \div 4 + ((srtt - r) \div 4)

\* The RTTVAR / SRTT fixed-point updates of ccid2_new_ack.
NextRttvar(r) ==
    IF srtt = -1 THEN r \div 2
    ELSE (3 * rttvar) \div 4 + ((IF srtt >= r THEN srtt - r ELSE r - srtt) \div 4)

NextSrtt(r) ==
    IF srtt = -1 THEN r ELSE (7 * srtt) \div 8 + r \div 8

\* Mutant: the "if (!s) s = 1" granularity floor dropped.
GranularityNoFloor(var) == 4 * var

\* s = rttvar << 2, at least one jiffy of clock granularity.
Granularity(var) == IF 4 * var = 0 THEN 1 ELSE 4 * var

\* ccid2_new_ack, the "update RTO" block, for an ack that measured r.
Sample(r) ==
    LET v == NextRttvar(r)
        m == NextSrtt(r)
    IN  /\ srtt' = m
        /\ rttvar' = v
        /\ rto' = ClampRto(m + Granularity(v))
        /\ specSrtt' = IF specSrtt = -1 THEN r ELSE (7 * specSrtt + r) \div 8

\* Mutant: the backoff without the 60-second cap.
BackoffRtoNoCap(r) == 2 * r

\* ccid2_hc_tx_rto_expire (the socket not owned): back off the timer.
\* The deferred path (socket owned) leaves rto alone.
BackoffRto(r) == IF (2 * r) \div HZ > 60 THEN 60 * HZ ELSE 2 * r

RtoExpire ==
    /\ rto' = BackoffRto(rto)
    /\ UNCHANGED <<srtt, rttvar, specSrtt>>

Next ==
    \/ \E r \in Samples : Sample(r)
    \/ RtoExpire

Spec == Init /\ [][Next]_vars

-----------------------------------------------------------------------------
TypeOK ==
    /\ srtt \in {-1} \cup Nat
    /\ rttvar \in {-1} \cup Nat
    /\ rto \in Nat \ {0}
    /\ specSrtt \in {-1} \cup Nat

\* The timeout is never below one second, and once an RTT has been sampled
\* it exceeds the smoothed RTT by at least the one-jiffy clock granularity,
\* unless the 60-second cap holds it lower.  Breaking it needs the
\* granularity floor of ccid2_new_ack or the one-second clamp to go wrong,
\* through either the sample path or the backoff path.
RtoFloor ==
    /\ rto >= HZ
    /\ srtt >= 0 => rto >= IF srtt + 1 < 60 * HZ THEN srtt + 1 ELSE 60 * HZ

\* What the code's whole-second clamps do guarantee: after any mix of
\* samples and backoffs the RTO stays below 61 seconds.  Backing off
\* doubles it, so without the cap of either path it grows without bound.
RtoCapped == rto < 61 * HZ

\* spec.md 4.3: the RTO is clamped to [1 s, 60 s], after a sample and after
\* a backoff alike.
RtoWithinSpec == rto <= 60 * HZ

\* spec.md 4.3: srtt = (7*srtt + r)/8.  The code shifts 7*srtt and r
\* separately, losing up to one jiffy per sample; allowing for one rounding,
\* the estimate stays within a jiffy of the specified one.
SrttTracksSpec == srtt >= specSrtt - 1
=============================================================================
