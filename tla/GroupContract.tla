---------------------------- MODULE GroupContract ---------------------------
(***************************************************************************)
(* What the server promises about who is in a group, with every request    *)
(* taken as one atomic change: the founder owns the group until it is      *)
(* dissolved, the others come and go and change rank, and a dissolved      *)
(* group stays dissolved and empty.                                        *)
(***************************************************************************)
CONSTANTS Users, NoUser

VARIABLES phase,   \* "none", "live" or "gone"
          founder, \* the user who created the group
          rank     \* rank of each user, "NONE" for those outside

vars == <<phase, founder, rank>>

Init ==
    /\ phase = "none"
    /\ founder = NoUser
    /\ rank = [u \in Users |-> "NONE"]

\* A group is founded with at least three members.
Found ==
    /\ phase = "none"
    /\ \E u \in Users, others \in SUBSET Users :
          /\ u \notin others
          /\ \E a, b \in others : a # b
          /\ founder' = u
          /\ rank' = [v \in Users |-> IF v = u THEN "OWNER"
                                      ELSE IF v \in others THEN "MEMBER" ELSE "NONE"]
    /\ phase' = "live"

Others == Users \ {founder}

\* The rank of one user other than the founder changes: admitted as MEMBER,
\* promoted, demoted, or gone.  Nobody is admitted straight to ADMIN.
Change ==
    /\ phase = "live"
    /\ \E u \in Others, r \in {"NONE", "MEMBER", "ADMIN"} :
          /\ rank[u] = "NONE" => r # "ADMIN"
          /\ rank' = [rank EXCEPT ![u] = r]
    /\ UNCHANGED <<phase, founder>>

DissolveGroup ==
    /\ phase = "live"
    /\ phase' = "gone"
    /\ rank' = [u \in Users |-> "NONE"]
    /\ UNCHANGED founder

Next == Found \/ Change \/ DissolveGroup

Spec == Init /\ [][Next]_vars
=============================================================================
