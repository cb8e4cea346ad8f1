---------------------------- MODULE MCConnPool -----------------------------
(***************************************************************************)
(* ConnPool with three tasks: each the only one of its session, or two of  *)
(* them sends that one session has pipelined.                              *)
(***************************************************************************)
EXTENDS ConnPool

CONSTANTS t1, t2, t3

OneEach == [t \in {t1, t2, t3} |-> t]
Pipelined == [t \in {t1, t2} |-> "session"]
=============================================================================
