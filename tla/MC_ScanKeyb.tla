----------------------------- MODULE MC_ScanKeyb -----------------------------
(* Model-checking instance of ScanKeyb.  Two key positions with distinct  *)
(* keycodes (KEY_A = 0x1e and KEY_B = 0x30 of the HP680 table) and one    *)
(* unused position (code 0) are enough for presses, releases and two keys *)
(* changing between scans.  One keyboard checks the scanning on its own; *)
(* two (both modules loaded) check the shared list and timer, with one  *)
(* used and one unused position each to keep the product of the two      *)
(* keyboards' buffers small.                                              *)
EXTENDS ScanKeyb, TLC

CONSTANTS hp620, hp680, pA, pB, pUnused

MCPositions == {pA, pB, pUnused}
MCCode == (pA :> 30) @@ (pB :> 48) @@ (pUnused :> 0)
MCSmallPositions == {pA, pUnused}
MCOneKbd == {hp680}
MCTwoKbds == {hp620, hp680}
\* Both keyboards run the same code with the same modelled table.
MCKbdSymmetry == Permutations(MCTwoKbds)
=============================================================================
