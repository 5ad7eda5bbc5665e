--------------------------- MODULE McpTransportMC ---------------------------
\* A small instance: two concurrent calls, two sockets, two backend processes.
EXTENDS McpTransport, TLC
Symmetry == Permutations(Calls) \cup Permutations(Sockets) \cup Permutations(Procs) \cup Permutations(Ids)
=============================================================================
