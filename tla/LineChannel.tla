---------------------------- MODULE LineChannel ----------------------------
(***************************************************************************)
(* What a session promises the client it writes to: the lines it has       *)
(* accepted arrive whole, once each and in the order accepted, up to a     *)
(* point where the connection is cut for good.                             *)
(***************************************************************************)
EXTENDS Sequences

CONSTANT Lines

VARIABLES taken, \* the lines the session was given
          queue, \* accepted and not yet delivered
          delivered,
          cut

vars == <<taken, queue, delivered, cut>>

Init ==
    /\ taken = {}
    /\ queue = <<>>
    /\ delivered = <<>>
    /\ cut = FALSE

Accept ==
    /\ ~cut
    /\ \E l \in Lines \ taken :
          /\ taken' = taken \cup {l}
          /\ queue' = Append(queue, l)
    /\ UNCHANGED <<delivered, cut>>

\* A line that comes too late is dropped.
Drop ==
    /\ cut
    /\ \E l \in Lines \ taken : taken' = taken \cup {l}
    /\ UNCHANGED <<queue, delivered, cut>>

Deliver ==
    /\ ~cut
    /\ queue # <<>>
    /\ delivered' = Append(delivered, Head(queue))
    /\ queue' = Tail(queue)
    /\ UNCHANGED <<taken, cut>>

\* The line that breaks the connection, if it is one, is lost with the queue.
Cut ==
    /\ ~cut
    /\ cut' = TRUE
    /\ queue' = <<>>
    /\ taken' = taken \/ \E l \in Lines \ taken : taken' = taken \cup {l}
    /\ UNCHANGED delivered

Next == Accept \/ Drop \/ Deliver \/ Cut

Spec == Init /\ [][Next]_vars
=============================================================================
