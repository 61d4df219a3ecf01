------------------------------- MODULE ScanKeyb -------------------------------
(***************************************************************************)
(* The generic scan-keyboard core (drivers/input/keyboard/scan_keyb.c) and *)
(* the keyboards that use it (hp620_keyb.c, hp680_keyb.c).  Each keyboard  *)
(* module's init registers its static scan_keyboard and its exit           *)
(* unregisters it; all of them share one list, `keyboards', and one timer, *)
(* scan_timer, whose handler scan_kbd scans every listed keyboard into the *)
(* s0/s1 double buffer and reports the changed keys to the input layer.   *)
(*                                                                         *)
(* A keyboard's matrix is a set of Positions; Code maps each to its        *)
(* keycode (0 for an unused position, which register clears from keybit,  *)
(* so the input layer drops its reports).  A buffer holds the set of      *)
(* pressed positions (a 0 bit in the hardware byte).                       *)
(***************************************************************************)
EXTENDS Naturals, FiniteSets, Sequences

CONSTANTS Kbds,       \* the keyboard modules (their static scan_keyboard)
          Positions,  \* key positions of a matrix
          Code,       \* [Positions -> Nat]: the keycode table
          NoKbd       \* the NULL pointer

ASSUME NoKbd \notin Kbds

VARIABLES
    loaded,    \* modules whose init succeeded and exit has not run
    keyboards, \* the list head
    next,      \* kbd->next of every scan_keyboard
    timer,     \* scan_timer: "idle" or "pending"
    odd,       \* scan_jiffies & 1
    s0, s1,    \* the two scan buffers of each keyboard
    reported,  \* keys the input layer holds down for each keyboard's device
    physical,  \* keys really held down on each keyboard
    bugs       \* kernel misuse that has happened

vars == <<loaded, keyboards, next, timer, odd, s0, s1, reported, physical, bugs>>

Bugs == {"timer_reinit", "use_after_free"}


\* Keycodes of a set of pressed positions, as the input device holds them:
\* register sets keybit only for nonzero table entries and clears bit 0, so
\* the input layer drops reports of unused positions.
Codes(S) == {Code[p] : p \in S} \ {0}

\* The list as scan_kbd walks it, following next from the head; at most
\* one visit per keyboard, which is enough since a walk that meets a
\* keyboard twice never ends in the code either.
RECURSIVE Walk(_, _)
Walk(k, n) ==
    IF k = NoKbd \/ n = 0 THEN <<>> ELSE <<k>> \o Walk(next[k], n - 1)

Listed == LET w == Walk(keyboards, Cardinality(Kbds)) IN {w[i] : i \in DOMAIN w}

Init ==
    /\ loaded = {}
    /\ keyboards = NoKbd
    /\ next = [k \in Kbds |-> NoKbd]
    /\ timer = "idle"
    /\ odd = FALSE
    /\ s0 = [k \in Kbds |-> {}]
    /\ s1 = [k \in Kbds |-> {}]
    /\ reported = [k \in Kbds |-> {}]
    /\ physical = [k \in Kbds |-> {}]
    /\ bugs = {}

\* register_scan_keyboard, called from the module's init.  Both buffers are
\* set to "all released"; the device is new, so it reports nothing held.
\* kbd goes to the list head, then scan_timer is init_timer()ed and
\* add_timer()ed unconditionally: if another keyboard already has it
\* pending, the pending timer is re-initialised while still queued.  An
\* allocation failure frees what was allocated and fails the module load,
\* leaving no state behind, so it is not a step of its own.
Register(k) ==
    /\ k \notin loaded
    /\ loaded' = loaded \cup {k}
    /\ next' = [next EXCEPT ![k] = keyboards]
    /\ keyboards' = k
    /\ s0' = [s0 EXCEPT ![k] = {}]
    /\ s1' = [s1 EXCEPT ![k] = {}]
    /\ reported' = [reported EXCEPT ![k] = {}]
    /\ timer' = "pending"
    /\ bugs' = IF timer = "pending" THEN bugs \cup {"timer_reinit"} ELSE bugs
    /\ UNCHANGED <<odd, physical>>

\* unregister_scan_keyboard: keyboards = kbd->next.
Unlink(k) == next[k]

\* unregister_scan_keyboard, called from the module's exit: del_timer_sync,
\* unlink, unregister and free the input device.  The module's static
\* scan_keyboard goes away with it.
Unregister(k) ==
    /\ k \in loaded
    /\ loaded' = loaded \ {k}
    /\ timer' = "idle"
    /\ keyboards' = Unlink(k)
    /\ UNCHANGED <<next, odd, s0, s1, reported, physical, bugs>>

\* check_kbd(kbd, new, old): report every position whose bit differs
\* between the two buffers, pressed when it is set in new.
CheckKbd(rep, new, old) == (rep \ Codes(old \ new)) \cup Codes(new \ old)

\* hp620/hp680_japanese_scan_kbd: read every matrix row into the buffer
\* (a 0 bit for a pressed key) and return 0, the scan never fails.
Scan(k) == physical[k]

\* Mutant: scan_kbd always scans into s0 and compares it with s1.
ScanOneNoToggle(k, o) ==
    [s0 |-> Scan(k), s1 |-> s1[k], rep |-> CheckKbd(reported[k], Scan(k), s1[k])]

\* One keyboard in scan_kbd's loop: scan into s0 on odd scan_jiffies and
\* into s1 on even ones, then compare with the other buffer.  Both
\* scanners (hp620/hp680_japanese_scan_kbd) always return 0, so the
\* memcpy branch for a failed scan is never taken.
ScanOne(k, o) ==
    IF o THEN [s0 |-> Scan(k), s1 |-> s1[k], rep |-> CheckKbd(reported[k], Scan(k), s1[k])]
         ELSE [s0 |-> s0[k], s1 |-> Scan(k), rep |-> CheckKbd(reported[k], Scan(k), s0[k])]

\* scan_kbd, the scan_timer handler: scan_jiffies++, scan every listed
\* keyboard, mod_timer.  A listed keyboard whose module is gone is a freed
\* scan_keyboard: the scan is a use after free and is recorded as such.
ScanKbd ==
    LET o    == ~odd
        live == Listed \cap loaded
        r    == [k \in live |-> ScanOne(k, o)]
    IN  /\ timer = "pending"
        /\ odd' = o
        /\ s0' = [k \in Kbds |-> IF k \in live THEN r[k].s0 ELSE s0[k]]
        /\ s1' = [k \in Kbds |-> IF k \in live THEN r[k].s1 ELSE s1[k]]
        /\ reported' = [k \in Kbds |-> IF k \in live THEN r[k].rep ELSE reported[k]]
        /\ bugs' = IF Listed \subseteq loaded THEN bugs ELSE bugs \cup {"use_after_free"}
        /\ timer' = "pending"
        /\ UNCHANGED <<loaded, keyboards, next, physical>>

\* A key of keyboard k is pressed or released.
KeyChange(k, p) ==
    /\ physical' = [physical EXCEPT ![k] = IF p \in @ THEN @ \ {p} ELSE @ \cup {p}]
    /\ UNCHANGED <<loaded, keyboards, next, timer, odd, s0, s1, reported, bugs>>

Next ==
    \/ \E k \in Kbds : Register(k) \/ Unregister(k)
    \/ ScanKbd
    \/ \E k \in Kbds, p \in Positions : KeyChange(k, p)

\* The kernel runs a pending timer.
Spec == Init /\ [][Next]_vars /\ WF_vars(ScanKbd)

-----------------------------------------------------------------------------
TypeOK ==
    /\ loaded \subseteq Kbds
    /\ keyboards \in Kbds \cup {NoKbd}
    /\ next \in [Kbds -> Kbds \cup {NoKbd}]
    /\ timer \in {"idle", "pending"}
    /\ odd \in BOOLEAN
    /\ s0 \in [Kbds -> SUBSET Positions]
    /\ s1 \in [Kbds -> SUBSET Positions]
    /\ reported \in [Kbds -> SUBSET (Nat \ {0})]  \* never KEY_RESERVED
    /\ physical \in [Kbds -> SUBSET Positions]
    /\ bugs \subseteq Bugs

\* What the input layer holds down for a registered keyboard is exactly the
\* set of keys in the buffer scan_kbd filled last: check_kbd reports only
\* the differences against the other buffer, so this holds only if the
\* s0/s1 alternation always compares a scan with the one before it.
ReportedMatchesScan ==
    \A k \in loaded \cap Listed : reported[k] = Codes(IF odd THEN s0[k] ELSE s1[k])

\* A key state that stays put on a registered keyboard is eventually what
\* its input device reports: the shared scan_timer keeps scanning every
\* registered keyboard.
KeysEventuallyReported ==
    \A k \in Kbds, P \in SUBSET Positions :
        (k \in loaded /\ physical[k] = P)
            ~> (k \notin loaded \/ physical[k] # P \/ reported[k] = Codes(P))

\* The keyboards scan_kbd walks are exactly the registered ones, whatever
\* the order of module loads and unloads.
RegisteredListed == Listed = loaded

\* register_scan_keyboard never init_timer()s scan_timer while it is
\* pending: re-initialising a queued timer corrupts the timer list.
NoTimerReinit == "timer_reinit" \notin bugs

\* scan_kbd only walks keyboards whose module is still loaded: never the
\* scan_keyboard (and input device) of a module that has been unloaded.
NoScanAfterFree == "use_after_free" \notin bugs
=============================================================================
