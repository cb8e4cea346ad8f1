---------------------------- MODULE MCClientSync ----------------------------
EXTENDS ClientSync

\* Bound: after one of the Losses, of which NothingSkipped says nothing, one
\* message less and one request or line on its way.
SmallAfterLoss == blind # {} => rows < MaxRows /\ Len(requests) + Len(lines) <= 1
=============================================================================
