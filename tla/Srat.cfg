SPECIFICATION Spec
CONSTANTS
    MaxNumNodes = 3
    ProcEntries <- MCProcEntries
    MemEntries <- MCMemEntries
    Ram <- MCRam
    Slits <- MCSlits
    NoNode = NoNode
\* Boot stops once acpi_scan_nodes has returned.
CHECK_DEADLOCK FALSE
INVARIANT TypeOK
INVARIANT NodesFromEntries
INVARIANT CpusOnParsedNodes
INVARIANT DistancesFromSlit
