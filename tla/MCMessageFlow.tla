--------------------------- MODULE MCMessageFlow ---------------------------
EXTENDS MessageFlow, TLC

Symmetry == Permutations(Sessions) \cup Permutations(Sends)
=============================================================================
