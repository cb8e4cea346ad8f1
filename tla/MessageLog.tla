----------------------------- MODULE MessageLog -----------------------------
(***************************************************************************)
(* What the server promises of a conversation: its messages are announced  *)
(* in one log, and whoever is online from then on is told the log, entry   *)
(* after entry, each once.  Only an entry of its own may come to a session *)
(* early, when it is put into the log.  The sender is told first that its  *)
(* message has been stored, and only of a message that is in the log.  A   *)
(* message that is stored and withheld never gets into it.                 *)
(***************************************************************************)
EXTENDS Naturals, Sequences

CONSTANT Sessions

VARIABLES
    exists, \* the conversation has not been dissolved
    stored, \* messages stored: seqs 1..stored
    unsent, \* seqs stored, and neither announced nor withheld
    log,    \* the seqs announced, in order
    due,    \* the places in log each session has still to be told
    told,   \* what each session has been told
    online  \* sessions logged in and connected

vars == <<exists, stored, unsent, log, due, told, online>>

Ack(r) == [kind |-> "ack", seq |-> r]
Push(r) == [kind |-> "push", seq |-> r]

Init ==
    /\ exists = TRUE
    /\ stored = 0
    /\ unsent = {}
    /\ log = <<>>
    /\ due = [s \in Sessions |-> {}]
    /\ told = [s \in Sessions |-> <<>>]
    /\ online = {}

Store ==
    /\ exists
    /\ stored' = stored + 1
    /\ unsent' = unsent \cup {stored'}
    /\ UNCHANGED <<exists, log, due, told, online>>

\* The sender has gone, or its handler failed: nobody is told.
Withhold ==
    /\ \E r \in unsent : unsent' = unsent \ {r}
    /\ UNCHANGED <<exists, stored, log, due, told, online>>

\* The message of s is put into the log, for everyone who is online to be told.  At
\* once s learns that it has been stored, or that and the message itself, ahead of
\* what it is still due, unless telling it breaks its connection.
Announce(s) ==
    /\ s \in online
    /\ \E r \in unsent, to \in SUBSET Sessions :
          /\ unsent' = unsent \ {r}
          /\ log' = Append(log, r)
          /\ due' = [t \in Sessions |-> IF t \in to THEN due[t] \cup {Len(log')} ELSE due[t]]
          /\ online \ {s} \subseteq to
          /\ \/ /\ s \in to
                /\ told' = [told EXCEPT ![s] = Append(@, Ack(r))]
                /\ UNCHANGED online
             \/ /\ s \notin to
                /\ told' = [told EXCEPT ![s] = Append(Append(@, Ack(r)), Push(r))]
                /\ UNCHANGED online
             \/ /\ told' \in {told, [told EXCEPT ![s] = Append(@, Ack(r))]}
                /\ online' = online \ {s}
    /\ UNCHANGED <<exists, stored>>

\* The first entry of the log that s has not been told.
Tell(s) ==
    /\ \E i \in due[s] :
          /\ \A j \in due[s] : i <= j
          /\ due' = [due EXCEPT ![s] = @ \ {i}]
          /\ told' = [told EXCEPT ![s] = Append(@, Push(log[i]))]
    /\ UNCHANGED <<exists, stored, unsent, log, online>>

Join(s) ==
    /\ online' = online \cup {s}
    /\ UNCHANGED <<exists, stored, unsent, log, due, told>>

\* Sessions leave.  Whoever is not online may miss entries.
Leave ==
    /\ online' \subseteq online
    /\ due' \in [Sessions -> SUBSET Nat]
    /\ \A s \in Sessions : \/ due'[s] = due[s]
                           \/ due'[s] \subseteq due[s] /\ s \notin online'
    /\ UNCHANGED <<exists, stored, unsent, log, told>>

\* What is still told of a dissolved conversation is no part of the promise.
Dissolve ==
    /\ exists
    /\ exists' = FALSE
    /\ stored' = 0
    /\ unsent' = {}
    /\ log' = <<>>
    /\ due' = [s \in Sessions |-> {}]
    /\ told' = [s \in Sessions |-> <<>>]
    /\ UNCHANGED online

Next ==
    \/ Store \/ Withhold \/ Leave \/ Dissolve
    \/ \E s \in Sessions : Announce(s) \/ Tell(s) \/ Join(s)

Spec == Init /\ [][Next]_vars
=============================================================================
