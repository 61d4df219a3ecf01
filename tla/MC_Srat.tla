------------------------------- MODULE MC_Srat -------------------------------
(* Model-checking instance of Srat.  Three nodes and four PXMs, so that  *)
(* the fourth PXM overflows MAX_NUMNODES.  The RAM has a hole at 640 KB.. *)
(* 1 MB (here 640..1024 MB) and ends at 6 GB.  The memory entries: PXM 0 *)
(* split into two ranges around PXM 1 (its hull covers PXM 1's range),   *)
(* an entry overlapping two nodes, an entry past the end of RAM (cut to *)
(* nothing), a hot-pluggable one, a disabled one and one of bad length. *)
(* The processor entries put a CPU on each PXM (two on PXM 0), PXM 2   *)
(* having no RAM, plus a disabled entry and one of bad length.          *)
EXTENDS Srat

Cpu(apic, pxm, en, ok) == [apic |-> apic, pxm |-> pxm, enabled |-> en, lenOk |-> ok]
Mem(pxm, base, len, en, hot, ok) ==
    [pxm |-> pxm, base |-> base, len |-> len, enabled |-> en, hot |-> hot, lenOk |-> ok]

MCProcEntries ==
    {Cpu(0, 0, TRUE, TRUE), Cpu(1, 1, TRUE, TRUE), Cpu(2, 2, TRUE, TRUE),
     Cpu(3, 3, TRUE, TRUE), Cpu(4, 1, FALSE, TRUE), Cpu(5, 0, TRUE, FALSE), Cpu(6, 0, TRUE, TRUE)}

MCMemEntries ==
    {Mem(0, 0, 2048, TRUE, FALSE, TRUE),       \* PXM 0, low half
     Mem(1, 2048, 2048, TRUE, FALSE, TRUE),    \* PXM 1
     Mem(0, 4096, 2048, TRUE, FALSE, TRUE),    \* PXM 0 again, above PXM 1
     Mem(1, 1024, 2048, TRUE, FALSE, TRUE),    \* overlaps PXM 0 and PXM 1
     Mem(2, 6144, 2, TRUE, FALSE, TRUE),       \* past the RAM
     Mem(1, 4096, 2048, TRUE, TRUE, TRUE),     \* hot-pluggable
     Mem(1, 4096, 2048, FALSE, FALSE, TRUE),   \* disabled
     Mem(0, 0, 2048, TRUE, FALSE, FALSE)}      \* bad length

MCRam == {<<0, 640>>, <<1024, 6144>>}

\* A SLIT over the four PXMs, one that passes slit_valid and one that
\* fills in 10 everywhere.
MCSlits ==
    {[loc |-> 4, d |-> [k \in 0..15 |-> IF k % 5 = 0 THEN 10 ELSE 20 + k]],
     [loc |-> 4, d |-> [k \in 0..15 |-> 10]]}
=============================================================================
