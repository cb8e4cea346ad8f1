----------------------------- MODULE Reactions -----------------------------
(***************************************************************************)
(* Reactions to one message, and its recall: the three handlers of         *)
(* reaction.cpp with one query per step, their broadcasts, and what each   *)
(* client keeps of the message.                                            *)
(*                                                                         *)
(* Everybody is online and has the message, and a client does with a line  *)
(* only what is written here, so that it may as well get it at once when   *)
(* the session takes it for writing.  An answer is taken in the handler's  *)
(* own turn on the session's strand.  Broadcasts and pushes are dispatched *)
(* (asio::dispatch): they wait for a turn of the strand they are for, but  *)
(* run at once when it is free, or when it is the strand of the caller.    *)
(* Messages are not deleted; roles are GroupMembership's.                  *)
(***************************************************************************)
EXTENDS Naturals, Sequences, FiniteSets

CONSTANTS
    Users,       \* each with a client and a session
    Sender,      \* who has sent the message
    Admins,      \* users with the role ADMIN or OWNER
    MaxRequests  \* bound on the requests made

ASSUME ReactionConstants ==
    Sender \in Users /\ Admins \subseteq Users /\ MaxRequests \in Nat

VARIABLES
    table,     \* message_reactions: the row of each user, which a key makes unique
    recalled,  \* messages.is_recalled, which nothing reads back
    changes,   \* history: how many times the table has changed
    made,      \* requests made so far
    job,       \* what each session's handler is at
    strand,    \* broadcasts queued on the server's strand
    inbox,     \* pushes queued on each session's strand
    file,      \* the reactions in each client's cache
    gone,      \* clients that show the message as recalled
    reopened,  \* history: clients that have opened the conversation since
    lost,      \* history: "failed", a query after a change; "overtaken", a
               \* result of an older read broadcast after one of a newer
    newest,    \* history: the latest of the reads broadcast
    ahead      \* history: who made the latest broadcast of reactions, when its own
               \* push has gone ahead of older ones waiting for it

tables == <<table, recalled, changes>>
clients == <<file, gone, reopened>>
histories == <<lost, newest, ahead>>
vars == <<tables, made, job, strand, inbox, clients, histories>>

Reactions == {"LIKE", "DISLIKE"}
Snapshots == [Users -> Reactions \cup {"none"}]
Nothing == [u \in Users |-> "none"]

Ops == [op: {"react", "unreact"}, reaction: Reactions] \cup {[op |-> "recall", reaction |-> "none"]}
Idle == [step |-> "idle"]
Jobs == {Idle}
            \cup [step: {"check", "role", "write", "read"}, op: Ops]
            \cup [step: {"finish"}, op: Ops, seen: Snapshots, at: Nat]
Pushes == {[push |-> "recalled"]} \cup [push: {"reactions"}, seen: Snapshots]

TypeOK ==
    /\ table \in Snapshots /\ table[Sender] = "none"
    /\ recalled \in BOOLEAN
    /\ changes \in Nat /\ newest \in 0..changes
    /\ made \in 0..MaxRequests
    /\ job \in [Users -> Jobs]
    /\ strand \in Seq(Pushes)
    /\ inbox \in [Users -> Seq(Pushes)]
    /\ file \in [Users -> Snapshots]
    /\ gone \subseteq Users /\ reopened \subseteq Users
    /\ lost \subseteq {"failed", "overtaken"}
    /\ ahead \subseteq Users

Init ==
    /\ table = Nothing /\ recalled = FALSE /\ changes = 0
    /\ made = 0
    /\ job = [u \in Users |-> Idle]
    /\ strand = <<>>
    /\ inbox = [u \in Users |-> <<>>]
    /\ file = [u \in Users |-> Nothing]
    /\ gone = {} /\ reopened = {}
    /\ lost = {} /\ newest = 0 /\ ahead = {}

-----------------------------------------------------------------------------
(* The handlers, of user u's session *)

Goto(u, step) == job' = [job EXCEPT ![u].step = step]
End(u) == job' = [job EXCEPT ![u] = Idle]
At(u, step) == job[u].step = step

\* The read loop takes a request: an unreaction asks nothing before it deletes.
Take(u, op) ==
    /\ job[u] = Idle /\ made < MaxRequests
    /\ made' = made + 1
    /\ job' = [job EXCEPT ![u] = [step |-> IF op.op = "unreact" THEN "write" ELSE "check",
                                  op |-> op]]
    /\ UNCHANGED <<tables, strand, inbox, clients, histories>>

\* Fault: one may react to one's own message.
CheckAny(u) ==
    /\ At(u, "check")
    /\ IF job[u].op.op = "react" THEN Goto(u, "write")
       ELSE IF u = Sender THEN Goto(u, "write") ELSE Goto(u, "role")
    /\ UNCHANGED <<tables, made, strand, inbox, clients, histories>>

\* SELECT sender_id: CANNOT_REACT_OWN, or for a recall whether the role is needed
Check(u) ==
    /\ At(u, "check")
    /\ IF job[u].op.op = "react"
       THEN IF u = Sender THEN End(u) ELSE Goto(u, "write")
       ELSE IF u = Sender THEN Goto(u, "write") ELSE Goto(u, "role")
    /\ UNCHANGED <<tables, made, strand, inbox, clients, histories>>

\* get_conversation_member: NO_PERMISSION
Role(u) ==
    /\ At(u, "role")
    /\ IF u \in Admins THEN Goto(u, "write") ELSE End(u)
    /\ UNCHANGED <<tables, made, strand, inbox, clients, histories>>

Finish(u) ==
    job' = [job EXCEPT ![u] = [step |-> "finish", op |-> @.op, seen |-> table, at |-> changes]]

\* INSERT ... ON DUPLICATE KEY UPDATE, DELETE of the reaction named, or UPDATE
\* is_recalled.
Write(u) ==
    /\ At(u, "write")
    /\ LET op == job[u].op IN
       \/ /\ op.op = "react"
          /\ table' = [table EXCEPT ![u] = op.reaction]
          /\ Goto(u, "read") /\ UNCHANGED recalled
       \/ /\ op.op = "unreact"
          /\ table' = IF table[u] = op.reaction THEN [table EXCEPT ![u] = "none"] ELSE table
          /\ Goto(u, "read") /\ UNCHANGED recalled
       \/ /\ op.op = "recall"
          /\ recalled' = TRUE
          /\ Finish(u) /\ UNCHANGED table
    /\ changes' = IF table' # table THEN changes + 1 ELSE changes
    /\ UNCHANGED <<made, strand, inbox, clients, histories>>

\* get_message_reactions
Read(u) ==
    /\ At(u, "read")
    /\ Finish(u)
    /\ UNCHANGED <<tables, made, strand, inbox, clients, histories>>

\* A query fails: SERVER_ERROR, and nobody hears of what has been written.
Fail(u) ==
    /\ job[u].step \in {"check", "role", "write", "read"}
    /\ End(u)
    /\ lost' = IF At(u, "read") THEN lost \cup {"failed"} ELSE lost
    /\ UNCHANGED <<tables, made, strand, inbox, clients, newest, ahead>>

\* What a client does with the reactions in an answer or a push, and with a
\* MSG_RECALLED_PUSH: the cache keeps the message as it was.
\* Fault: a reaction brings a recalled message back.
ShowReactionsAnew(u, seen) ==
    /\ file' = [file EXCEPT ![u] = seen]
    /\ gone' = gone \ {u}
    /\ UNCHANGED reopened
ShowReactions(u, seen) ==
    /\ file' = [file EXCEPT ![u] = seen]
    /\ UNCHANGED <<gone, reopened>>
ShowRecalled(u) ==
    /\ gone' = gone \cup {u}
    /\ reopened' = reopened \ {u}
    /\ UNCHANGED file

Show(u, push) ==
    IF push.push = "recalled" THEN ShowRecalled(u) ELSE ShowReactions(u, push.seen)

-----------------------------------------------------------------------------
(* The strands *)

\* Fault: who shows these reactions already is not pushed to.
ReceiversButActor(push) ==
    IF push.push = "recalled" THEN Users
    ELSE {u \in Users : file[u] # push.seen}

\* get_conversation_cache finds nothing: every authenticated session
Receivers(push) == Users

\* send_text to each of these users.
SendText(users, push) ==
    [u \in Users |-> IF u \in users THEN Append(inbox[u], push) ELSE inbox[u]]

\* The broadcast is queued on the server's strand, and the answer shown.
AnswerAndQueue(u, push) ==
    /\ strand' = Append(strand, push)
    /\ IF push.push = "recalled" THEN UNCHANGED clients ELSE ShowReactions(u, push.seen)
    /\ ahead' = IF push.push = "recalled" THEN ahead ELSE {}
    /\ UNCHANGED inbox

\* The server's strand is free, and the broadcast runs at once, inside the turn of
\* u's strand: u's push is not queued behind those that wait there, and the answer
\* that follows shows the same.
AnswerAndBroadcast(u, push) ==
    /\ strand = <<>>
    /\ inbox' = SendText(Receivers(push) \ {u}, push)
    /\ Show(u, push)
    /\ ahead' = IF push.push = "recalled" THEN ahead
                ELSE {v \in {u} : \E i \in DOMAIN inbox[v] : inbox[v][i].push = "reactions"}
    /\ UNCHANGED strand

Announcement(u) ==
    IF job[u].op.op = "recall" THEN [push |-> "recalled"]
    ELSE [push |-> "reactions", seen |-> job[u].seen]

\* There is no await between the broadcast and the answer.
Answer(u) ==
    /\ At(u, "finish")
    /\ AnswerAndQueue(u, Announcement(u)) \/ AnswerAndBroadcast(u, Announcement(u))
    /\ IF job[u].op.op = "recall" THEN UNCHANGED <<lost, newest>>
       ELSE /\ lost' = IF job[u].at < newest THEN lost \cup {"overtaken"} ELSE lost
            /\ newest' = IF job[u].at > newest THEN job[u].at ELSE newest
    /\ End(u)
    /\ UNCHANGED <<tables, made>>

\* broadcast_message_reaction and broadcast_message_recalled, in a turn of their own
Broadcast ==
    /\ strand # <<>>
    /\ inbox' = SendText(Receivers(Head(strand)), Head(strand))
    /\ strand' = Tail(strand)
    /\ UNCHANGED <<tables, made, job, clients, histories>>

\* send_text's turn on the session's strand
Deliver(u) ==
    /\ inbox[u] # <<>>
    /\ inbox' = [inbox EXCEPT ![u] = Tail(@)]
    /\ Show(u, Head(inbox[u]))
    /\ UNCHANGED <<tables, made, job, strand, histories>>

\* The user comes back to the conversation: it is shown from the cache, which
\* knows nothing of recalls.
Reopen(u) ==
    /\ u \in gone
    /\ gone' = gone \ {u}
    /\ reopened' = reopened \cup {u}
    /\ UNCHANGED <<tables, made, job, strand, inbox, file, histories>>

Next ==
    \/ \E u \in Users :
         \/ \E op \in Ops : Take(u, op)
         \/ Check(u) \/ Role(u) \/ Write(u) \/ Read(u) \/ Fail(u) \/ Answer(u)
         \/ Deliver(u) \/ Reopen(u)
    \/ Broadcast

Spec == Init /\ [][Next]_vars

-----------------------------------------------------------------------------
(* Properties *)

Pushed == strand = <<>> /\ \A u \in Users : inbox[u] = <<>>
Done == \A u \in Users : job[u] = Idle

\* Clients do not stay at odds about the reactions: once every push has arrived
\* they show the same, although each actor has also been given an answer, read
\* before or after what the others pushed.  The one that may stay on an older
\* reading is the actor of the latest broadcast, when its own push has gone ahead of
\* older ones.  What they show is what the table holds, unless a query failed after
\* a change or an older read was broadcast after a newer one.
ClientsAgree ==
    Pushed => /\ \A u, v \in Users \ ahead : file[u] = file[v]
              /\ Done /\ lost = {} => \A u \in Users \ ahead : file[u] = table

\* A message recalled is shown so by everyone until they open the conversation
\* again, whatever reactions are still on their way when it is recalled.
RecalledStays == Pushed /\ Done /\ recalled => Users \subseteq gone \cup reopened
=============================================================================
