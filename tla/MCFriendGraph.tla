--------------------------- MODULE MCFriendGraph ---------------------------
EXTENDS FriendGraph, TLC

Symmetry == Permutations(Users) \cup Permutations(Handlers)
                \cup Permutations(Requests) \cup Permutations(Convs)
=============================================================================
