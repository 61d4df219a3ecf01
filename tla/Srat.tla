-------------------------------- MODULE Srat --------------------------------
(***************************************************************************)
(* ACPI SRAT parsing for x86_64 NUMA (arch/x86_64/mm/srat.c): the         *)
(* callbacks the ACPI table parser makes for each processor-affinity and  *)
(* memory-affinity entry, then acpi_scan_nodes, which cuts the nodes to   *)
(* the memory, drops the small ones and decides whether the SRAT is used. *)
(*                                                                         *)
(* acpi_numa_init (drivers/acpi/numa.c, not in this tree) hands over all  *)
(* processor entries in table order, then all memory entries in table     *)
(* order; the model lets the table hold any subset of the entries in any  *)
(* order.  Addresses are in MB (a page is 1/256 MB).  Hot-pluggable areas *)
(* are ignored, as with the default hotadd_percent = 0.  The e820 map and *)
(* compute_hash_shift (e820.c, numa.c) are outside this file: the first   *)
(* is the constant Ram, and the second fails exactly when two nodes share *)
(* a megabyte of address space.                                           *)
(***************************************************************************)
EXTENDS Integers, FiniteSets, FiniteSetsExt

CONSTANTS MaxNumNodes,   \* MAX_NUMNODES
          ProcEntries,   \* [apic, pxm, enabled, lenOk] processor entries
          MemEntries,    \* [pxm, base, len, enabled, hot, lenOk] memory entries
          Ram,           \* the e820 RAM ranges, as [s, e) pairs in MB
          Slits,         \* SLITs: [loc, d], d the loc * loc distance matrix
          NoNode         \* 0xff in pxm2node, NUMA_NO_NODE in apicid_to_node

Nodes == 0..(MaxNumNodes - 1)
Pxms == {e.pxm : e \in ProcEntries \cup MemEntries}
Apics == {e.apic : e \in ProcEntries}

PagesPerMB == 256
NODE_MIN_SIZE == 4              \* 4 MB

VARIABLES
    phase,        \* "cpu", "mem", "scan" or "done"
    acpiNuma,     \* acpi_numa
    pxm2node,
    nodesFound,   \* nodes_found
    nodesParsed,  \* nodes_parsed
    nodes,        \* nodes[]: [start, end] in MB
    apicToNode,   \* apicid_to_node
    seen,         \* history: the entries the table held so far
    accepted,     \* history: the memory entries merged into a node
    acpiSlit,     \* acpi_slit
    result        \* "used" (acpi_scan_nodes returned 0), "notused" (-1) or "none"

vars == <<phase, acpiNuma, pxm2node, nodesFound, nodesParsed, nodes,
          apicToNode, seen, accepted, acpiSlit, result>>

NoSlit == [loc |-> 0, d |-> [k \in {} |-> 0]]     \* acpi_slit == NULL

\* e820_hole_size(s, e) in MB: the part of [s, e) no RAM range covers
\* (the RAM ranges are disjoint).
Overlap(s, e, r) == LET lo == Max({s, r[1]}) hi == Min({e, r[2]})
                    IN  IF hi > lo THEN hi - lo ELSE 0
HoleSize(s, e) ==
    (IF e > s THEN e - s ELSE 0) - MapThenSumSet(LAMBDA r : Overlap(s, e, r), Ram)

RamEnd == Max({r[2] : r \in Ram})      \* end_pfn, in MB

Init ==
    /\ phase = "cpu"
    /\ acpiNuma = 0
    /\ pxm2node = [p \in Pxms |-> NoNode]
    /\ nodesFound = {}
    /\ nodesParsed = {}
    /\ nodes = [n \in Nodes |-> [start |-> 0, end |-> 0]]
    /\ apicToNode = [a \in Apics |-> NoNode]
    /\ seen = {}
    /\ accepted = {}
    /\ acpiSlit = NoSlit
    /\ result = "none"

srat_disabled == acpiNuma < 0

\* setup_node: the node of a PXM, a fresh one (the lowest not yet found)
\* for a new PXM, or -1 once MAX_NUMNODES nodes are found.
NewNode == Min(Nodes \ nodesFound)

\* Mutant: '>' for '>=' in the MAX_NUMNODES check; first_unset_node of a
\* full mask is MAX_NUMNODES.
SetupNodeOffByOne(pxm) ==
    IF pxm2node[pxm] # NoNode THEN pxm2node[pxm]
    ELSE IF Cardinality(nodesFound) > MaxNumNodes THEN -1
    ELSE IF nodesFound = Nodes THEN MaxNumNodes
    ELSE NewNode

SetupNode(pxm) ==
    IF pxm2node[pxm] # NoNode THEN pxm2node[pxm]
    ELSE IF Cardinality(nodesFound) >= MaxNumNodes THEN -1
    ELSE NewNode

AllocNode(pxm) ==
    IF pxm2node[pxm] = NoNode /\ SetupNode(pxm) # -1
      THEN /\ nodesFound' = nodesFound \cup {SetupNode(pxm)}
           /\ pxm2node' = [pxm2node EXCEPT ![pxm] = SetupNode(pxm)]
      ELSE UNCHANGED <<nodesFound, pxm2node>>

\* bad_srat: the SRAT is not used.  Its loop clears nodes_add[i].start and
\* nodes[i].end, leaving nodes[i].start as it is.
BadSrat ==
    /\ acpiNuma' = -1
    /\ apicToNode' = [a \in Apics |-> NoNode]
    /\ nodes' = [n \in Nodes |-> [start |-> nodes[n].start, end |-> 0]]

\* A memory entry's range: start = base, end = start + length.
EStart(ma) == ma.base
EEnd(ma) == ma.base + ma.len

\* conflicting_nodes(start, end): the lowest parsed node with a nonempty
\* range that overlaps [start, end) or equals it, or -1.
ConflictingNodes(s, e) ==
    LET C == {i \in nodesParsed :
                /\ nodes[i].start # nodes[i].end
                /\ \/ nodes[i].end > s /\ nodes[i].start < e
                   \/ nodes[i].end = e /\ nodes[i].start = s}
    IN  IF C = {} THEN -1 ELSE Min(C)

\* Mutant: every entry replaces the node's range.
MergeLastWins(nd, first, s, e) == [start |-> s, end |-> e]

\* The merge in acpi_numa_memory_affinity_init: a node parsed for the
\* first time takes the entry's range, otherwise it grows to cover it.
Merge(nd, first, s, e) ==
    IF first THEN [start |-> s, end |-> e]
    ELSE [start |-> IF s < nd.start THEN s ELSE nd.start,
          end   |-> IF nd.end < e THEN e ELSE nd.end]

Keep == UNCHANGED <<phase, nodesParsed, accepted, acpiSlit, result>>

\* acpi_numa_processor_affinity_init, one disjunct per way out of it.
ProcIgnored(pa) ==
    /\ srat_disabled \/ (pa.lenOk /\ ~pa.enabled)
    /\ UNCHANGED <<acpiNuma, pxm2node, nodesFound, nodes, apicToNode>>

ProcBad(pa) ==
    /\ ~srat_disabled
    /\ ~pa.lenOk \/ (pa.enabled /\ SetupNode(pa.pxm) = -1)
    /\ BadSrat
    /\ UNCHANGED <<pxm2node, nodesFound>>

ProcMapped(pa) ==
    /\ ~srat_disabled /\ pa.lenOk /\ pa.enabled
    /\ SetupNode(pa.pxm) # -1
    /\ AllocNode(pa.pxm)
    /\ apicToNode' = [apicToNode EXCEPT ![pa.apic] = SetupNode(pa.pxm)]
    /\ acpiNuma' = 1
    /\ UNCHANGED nodes

ProcessorAffinity(pa) ==
    /\ phase = "cpu" /\ pa \notin seen
    /\ seen' = seen \cup {pa}
    /\ ProcIgnored(pa) \/ ProcBad(pa) \/ ProcMapped(pa)
    /\ Keep

\* acpi_numa_memory_affinity_init.  setup_node has already allocated the
\* node when a conflict sends the SRAT to bad_srat.
MemIgnored(ma) ==
    /\ srat_disabled \/ (ma.lenOk /\ (~ma.enabled \/ ma.hot))
    /\ UNCHANGED <<acpiNuma, pxm2node, nodesFound, nodes, apicToNode,
                   nodesParsed, accepted>>

MemBadLength(ma) ==
    /\ ~srat_disabled /\ ~ma.lenOk
    /\ BadSrat
    /\ UNCHANGED <<pxm2node, nodesFound, nodesParsed, accepted>>

MemBadNode(ma) ==
    LET node == SetupNode(ma.pxm)
        i    == ConflictingNodes(EStart(ma), EEnd(ma))
    IN  /\ ~srat_disabled /\ ma.lenOk /\ ma.enabled /\ ~ma.hot
        /\ node = -1 \/ (i >= 0 /\ i # node)
        /\ AllocNode(ma.pxm)
        /\ BadSrat
        /\ UNCHANGED <<nodesParsed, accepted>>

MemMerged(ma) ==
    LET node == SetupNode(ma.pxm)
        i    == ConflictingNodes(EStart(ma), EEnd(ma))
    IN  /\ ~srat_disabled /\ ma.lenOk /\ ma.enabled /\ ~ma.hot
        /\ node # -1 /\ (i < 0 \/ i = node)
        /\ AllocNode(ma.pxm)
        /\ nodes' = [nodes EXCEPT ![node] =
                        Merge(@, node \notin nodesParsed, EStart(ma), EEnd(ma))]
        /\ nodesParsed' = nodesParsed \cup {node}
        /\ accepted' = accepted \cup {ma}
        /\ UNCHANGED <<acpiNuma, apicToNode>>

MemoryAffinity(ma) ==
    /\ phase = "mem" /\ ma \notin seen
    /\ seen' = seen \cup {ma}
    /\ \/ MemIgnored(ma) \/ MemBadLength(ma)
       \/ MemBadNode(ma) \/ MemMerged(ma)
    /\ UNCHANGED <<phase, acpiSlit, result>>

\* The table has no further entry of this kind.
EndOfEntries ==
    /\ phase \in {"cpu", "mem"}
    /\ phase' = IF phase = "cpu" THEN "mem" ELSE "slit"
    /\ UNCHANGED <<acpiNuma, pxm2node, nodesFound, nodesParsed, nodes,
                   apicToNode, seen, accepted, acpiSlit, result>>

\* slit_valid: 10 on the diagonal, more than 10 everywhere else.
SlitValid(sl) ==
    \A i, j \in 0..(sl.loc - 1) :
        IF i = j THEN sl.d[sl.loc * i + j] = 10 ELSE sl.d[sl.loc * i + j] > 10

\* acpi_numa_slit_init, called after the SRAT whatever became of it.  A
\* firmware without a SLIT leaves acpi_slit NULL, as an invalid one does.
SlitInit(sl) ==
    /\ phase = "slit"
    /\ phase' = "scan"
    /\ acpiSlit' = IF SlitValid(sl) THEN sl ELSE acpiSlit
    /\ UNCHANGED <<acpiNuma, pxm2node, nodesFound, nodesParsed, nodes,
                   apicToNode, seen, accepted, result>>

\* Mutant: node_to_pxm without the search loop.
NodeToPxmNoSearch(n) == IF n \in Pxms /\ pxm2node[n] = n THEN n ELSE 0

\* node_to_pxm(n): n itself when PXM n is node n, else the lowest PXM of
\* node n, else 0.
NodeToPxm(n) ==
    IF n \in Pxms /\ pxm2node[n] = n THEN n
    ELSE LET I == {p \in Pxms : pxm2node[p] = n} IN IF I = {} THEN 0 ELSE Min(I)

\* __node_distance(a, b): the SLIT entry of the two nodes' PXMs, or 10/20
\* without a SLIT.  An index past the matrix reads whatever follows the
\* table; it is -1 here.
NodeDistance(a, b) ==
    IF acpiSlit = NoSlit THEN (IF a = b THEN 10 ELSE 20)
    ELSE LET idx == acpiSlit.loc * NodeToPxm(a) + NodeToPxm(b)
         IN  IF idx \in DOMAIN acpiSlit.d THEN acpiSlit.d[idx] ELSE -1

\* cutoff_node(i, start, end), found_add_area being 0.
Cutoff(nd, s, e) ==
    LET a == IF nd.start < s
               THEN [start |-> IF nd.end < s THEN nd.end ELSE s, end |-> nd.end]
               ELSE nd
    IN  IF a.end > e
          THEN [start |-> IF a.start > e THEN e ELSE a.start, end |-> e]
          ELSE a

\* (nodes[i].end - nodes[i].start) < NODE_MIN_SIZE, in unsigned long: an
\* end below the start wraps to a difference near 2^64, never small.
Small(nd) == nd.end >= nd.start /\ nd.end - nd.start < NODE_MIN_SIZE

\* nodes_cover_memory, in pages: RAM not inside a parsed node must stay
\* under 1*1024*1024 (pages).  nodes_add is empty, so no term of pxmram
\* is negative and the clamp never applies.
PxmRam(nds, parsed) ==
    MapThenSumSet(LAMBDA i : (nds[i].end - nds[i].start)
                              - HoleSize(nds[i].start, nds[i].end), parsed)
E820Ram == RamEnd - HoleSize(0, RamEnd)
NodesCoverMemory(nds, parsed) ==
    (E820Ram - PxmRam(nds, parsed)) * PagesPerMB < 1 * 1024 * 1024

\* compute_hash_shift (numa.c) fails when two nonempty nodes of nodes[]
\* share address space.
HashFails(nds) ==
    \E i, j \in Nodes :
        /\ i # j
        /\ nds[i].start < nds[i].end /\ nds[j].start < nds[j].end
        /\ nds[i].start < nds[j].end /\ nds[j].start < nds[i].end

\* Mutant: unparse_node without its apicid_to_node loop.
UnparseNoApic(small) ==
    /\ nodesParsed' = nodesParsed \ small
    /\ UNCHANGED apicToNode

\* unparse_node on a set of nodes: they leave nodes_parsed, and every APIC
\* mapped to one of them is mapped to no node.
Unparse(small) ==
    /\ nodesParsed' = nodesParsed \ small
    /\ apicToNode' = [a \in Apics |->
                        IF apicToNode[a] \in small THEN NoNode ELSE apicToNode[a]]

\* acpi_scan_nodes(0, end_pfn << PAGE_SHIFT): cut every node to the memory
\* and unparse the small ones, then give up unless an entry was mapped,
\* the nodes cover the RAM and the hash function exists.  What follows
\* the checks is not modelled: setup_node_bootmem and numa_init_array live
\* in numa.c, and the cpu_to_node fixup acts on cpu_to_node, which no code
\* of this tree writes, so the model has no variable for it.
AcpiScanNodes ==
    LET cut   == [i \in Nodes |-> Cutoff(nodes[i], 0, RamEnd)]
        small == {i \in Nodes : Small(cut[i])}
        ok    == NodesCoverMemory(cut, nodesParsed \ small) /\ ~HashFails(cut)
    IN  /\ phase = "scan"
        /\ phase' = "done"
        /\ \/ /\ acpiNuma <= 0
              /\ result' = "notused"
              /\ nodes' = cut /\ Unparse(small)
              /\ UNCHANGED acpiNuma
           \/ /\ acpiNuma > 0 /\ ~ok
              /\ result' = "notused"
              /\ acpiNuma' = -1
              /\ nodes' = [n \in Nodes |-> [start |-> cut[n].start, end |-> 0]]
              /\ nodesParsed' = nodesParsed \ small
              /\ apicToNode' = [a \in Apics |-> NoNode]
           \/ /\ acpiNuma > 0 /\ ok
              /\ result' = "used"
              /\ nodes' = cut /\ Unparse(small)
              /\ UNCHANGED acpiNuma
        /\ UNCHANGED <<pxm2node, nodesFound, seen, accepted, acpiSlit>>

Next ==
    \/ \E pa \in ProcEntries : ProcessorAffinity(pa)
    \/ \E ma \in MemEntries : MemoryAffinity(ma)
    \/ EndOfEntries
    \/ \E sl \in Slits : SlitInit(sl)
    \/ AcpiScanNodes

\* Boot ends once acpi_scan_nodes has returned.
Spec == Init /\ [][Next]_vars

-----------------------------------------------------------------------------
TypeOK ==
    /\ phase \in {"cpu", "mem", "slit", "scan", "done"}
    /\ acpiNuma \in {-1, 0, 1}
    /\ pxm2node \in [Pxms -> Nodes \cup {NoNode}]
    /\ nodesFound \subseteq Nodes /\ nodesParsed \subseteq Nodes
    /\ nodes \in [Nodes -> [start : Nat, end : Nat]]
    /\ apicToNode \in [Apics -> Nodes \cup {NoNode}]
    /\ acpiSlit \in Slits \cup {NoSlit}
    /\ result \in {"none", "used", "notused"}

\* The memory entries merged into node n, and the node they describe: the
\* hull of their ranges, cut to the RAM.
Owned(n) == {ma \in accepted : pxm2node[ma.pxm] = n}
RefNode(n) ==
    Cutoff([start |-> Min({EStart(ma) : ma \in Owned(n)}),
            end   |-> Max({EEnd(ma) : ma \in Owned(n)})], 0, RamEnd)

\* When acpi_scan_nodes accepts the SRAT, the nodes are exactly what the
\* accepted memory entries describe, whatever their order in the table:
\* a node is parsed iff it owns an entry and the hull of its entries, cut
\* to the RAM, is not too small, and its range is that cut hull.  This is
\* the incremental merge of acpi_numa_memory_affinity_init, cutoff_node
\* and the small-node loop together.
NodesFromEntries ==
    result = "used" =>
        \A n \in Nodes :
            /\ n \in nodesParsed <=> (Owned(n) # {} /\ ~Small(RefNode(n)))
            /\ n \in nodesParsed => nodes[n] = RefNode(n)

\* When the SRAT is used, every CPU the processor entries placed on a node
\* is on a parsed node: a PXM with CPUs but no (or too little) memory
\* must take its CPUs with it when acpi_scan_nodes unparses it.
CpusOnParsedNodes ==
    result = "used" => \A a \in Apics : apicToNode[a] \in nodesParsed \cup {NoNode}

\* When the SRAT and a SLIT are used, __node_distance(a, b) is the SLIT
\* entry of the PXMs the two nodes were set up for: node_to_pxm inverts
\* the pxm2node allocation of setup_node.
DistancesFromSlit ==
    (result = "used" /\ acpiSlit # NoSlit) =>
        \A a, b \in nodesParsed, p, q \in Pxms :
            (pxm2node[p] = a /\ pxm2node[q] = b) =>
                /\ p < acpiSlit.loc /\ q < acpiSlit.loc
                /\ NodeDistance(a, b) = acpiSlit.d[acpiSlit.loc * p + q]

\* When the SRAT is used, the nodes hold all of the e820 RAM: the check in
\* nodes_cover_memory allows for a few lost pages ("We seem to lose 3
\* pages somewhere"), and its message counts in MB.
CoversRam ==
    result = "used" => E820Ram - PxmRam(nodes, nodesParsed) < 1
====
