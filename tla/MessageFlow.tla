---------------------------- MODULE MessageFlow ----------------------------
(***************************************************************************)
(* The way of a message through the server: SEND_MSG lines read by the     *)
(* sessions' read loops, handle_send_msg running once per line, the rows   *)
(* append_text_message inserts, the SEND_ACK to the sender and the         *)
(* MSG_PUSH to every online session.                                       *)
(*                                                                         *)
(* SEND_MSG is the one command Session::run does not await: it spawns a    *)
(* coroutine and reads on, so the sends of one session run concurrently    *)
(* with each other as well as with those of other sessions.  Code of one   *)
(* session runs on the session's strand and code of the server's session   *)
(* table on the server's strand.  A strand runs one handler at a time;     *)
(* asio::dispatch queues a handler behind those that wait, but runs it     *)
(* inside the caller's turn when the strand is free, or is the caller's    *)
(* own.  So a broadcast may run in the turn that acknowledges the message, *)
(* and hand the sender its push ahead of the lines queued for it.  A       *)
(* handler of a free strand that does not depend on whose turn it runs in  *)
(* is queued here, to be run by the next step.                             *)
(*                                                                         *)
(* One conversation, a group (or the world), is modelled; the tables are   *)
(* per conversation.  Whether a send is refused for a mute or a missing    *)
(* friendship is decided by state of GroupMembership and FriendGraph, and  *)
(* left open here.                                                         *)
(***************************************************************************)
EXTENDS Naturals, Sequences, SequencesExt, FiniteSetsExt

CONSTANTS
    Sessions,   \* connections that may be accepted
    Sends,      \* SEND_MSG lines the sessions may read
    NoSession   \* the sender of a line not read yet

ASSUME FlowConstants ==
    /\ NoSession \notin Sessions
    /\ IsFiniteSet(Sends)

VARIABLES
    exists,     \* the conversations row is there
    seqOf,      \* seq of the messages row a send has inserted, 0 without one
    pc,         \* the await each send's coroutine is at
    by,         \* the session that read the line
    seen,       \* StoredMessage.seq as append_text_message returned it
    after,      \* history: the sends acknowledged to the session before this one
    announced,  \* history: the sends whose broadcasts were dispatched, in order
    conn,       \* Session::run: "none", "open", "closing" (waiting for sends), "ended"
    auth,       \* sessions with authenticated_
    socket,     \* sessions whose socket_.is_open()
    pending,    \* pending_ops_
    timedOut,   \* sessions that stopped waiting with sends pending
    registered, \* sessions in Server::sessions_
    strand,     \* handlers queued on the server's strand
    inbox,      \* lines send_text has queued on each session's strand
    out         \* lines send_text_impl has accepted, in order

histories == <<after, announced>>
sendVars == <<pc, by, seen, histories, pending>>
connVars == <<conn, auth, timedOut>>
lineVars == <<socket, out>>
vars == <<exists, seqOf, sendVars, connVars, lineVars, registered, strand, inbox>>

Steps == {"unsent", "spawned", "checks", "append", "readSeq", "reply", "done"}

Seqs == 0..Cardinality(Sends)
Lines == [kind: {"ack", "push"}, send: Sends, seq: Seqs]
Tasks == [task: {"register", "remove"}, session: Sessions]
            \cup [task: {"broadcast"}, send: Sends, seq: Seqs]

TypeOK ==
    /\ exists \in BOOLEAN
    /\ seqOf \in [Sends -> Seqs]
    /\ pc \in [Sends -> Steps]
    /\ by \in [Sends -> Sessions \cup {NoSession}]
    /\ seen \in [Sends -> Seqs]
    /\ after \in [Sends -> SUBSET Sends]
    /\ announced \in Seq(Sends)
    /\ conn \in [Sessions -> {"none", "open", "closing", "ended"}]
    /\ auth \subseteq Sessions
    /\ socket \subseteq Sessions
    /\ pending \in [Sessions -> 0..Cardinality(Sends)]
    /\ timedOut \subseteq Sessions
    /\ registered \subseteq Sessions
    /\ strand \in Seq(Tasks)
    /\ inbox \in [Sessions -> Seq(Lines)]
    /\ out \in [Sessions -> Seq(Lines)]

Init ==
    /\ exists = TRUE
    /\ seqOf = [o \in Sends |-> 0]
    /\ pc = [o \in Sends |-> "unsent"]
    /\ by = [o \in Sends |-> NoSession]
    /\ seen = [o \in Sends |-> 0]
    /\ after = [o \in Sends |-> {}]
    /\ announced = <<>>
    /\ conn = [s \in Sessions |-> "none"]
    /\ auth = {}
    /\ socket = {}
    /\ pending = [s \in Sessions |-> 0]
    /\ timedOut = {}
    /\ registered = {}
    /\ strand = <<>>
    /\ inbox = [s \in Sessions |-> <<>>]
    /\ out = [s \in Sessions |-> <<>>]

-----------------------------------------------------------------------------
(* Lines and strands *)

Ack(o, seq) == [kind |-> "ack", send |-> o, seq |-> seq]
Push(o, seq) == [kind |-> "push", send |-> o, seq |-> seq]

Acked(s) == {o \in Sends : \E i \in DOMAIN out[s] : out[s][i].kind = "ack" /\ out[s][i].send = o}
Pushed(s) == {o \in Sends : \E i \in DOMAIN out[s] : out[s][i].kind = "push" /\ out[s][i].send = o}

\* send_text_impl: the line is queued for the writer; or it does not fit in
\* MAX_OUTGOING_BYTES and the socket is closed (how many lines fit depends on
\* their sizes and on the client, so it may be any line); or the socket has
\* been closed and the line is dropped.
SendTextImpl(s, line) ==
    \/ /\ s \in socket
       /\ out' = [out EXCEPT ![s] = Append(@, line)]
       /\ UNCHANGED socket
    \/ /\ s \in socket
       /\ socket' = socket \ {s}
       /\ UNCHANGED out
    \/ /\ s \notin socket
       /\ UNCHANGED lineVars

\* Two lines in one turn of the strand, the first of which may close the socket.
SendTextImplTwice(s, first, second) ==
    \/ /\ s \in socket
       /\ out' = [out EXCEPT ![s] = Append(Append(@, first), second)]
       /\ UNCHANGED socket
    \/ /\ s \in socket
       /\ socket' = socket \ {s}
       /\ out' \in {out, [out EXCEPT ![s] = Append(@, first)]}
    \/ /\ s \notin socket
       /\ UNCHANGED lineVars

\* broadcast_world_message: the conversation cache is always empty, so every
\* authenticated session in the table gets the line.
Recipients == registered \cap auth

\* send_text to each of the sessions.
SendText(sessions, line) ==
    [s \in Sessions |-> IF s \in sessions THEN Append(inbox[s], line) ELSE inbox[s]]

Closing(s) == conn[s] \in {"closing", "ended"}

-----------------------------------------------------------------------------
(* Connections *)

\* Fault: the session is never entered in the server's table.
AcceptUnregistered(s) ==
    /\ conn[s] = "none"
    /\ conn' = [conn EXCEPT ![s] = "open"]
    /\ socket' = socket \cup {s}
    /\ UNCHANGED <<exists, seqOf, sendVars, auth, timedOut, out, registered, strand, inbox>>

\* Server::run accepts a connection, queues its registration and spawns run().
Accept(s) ==
    /\ conn[s] = "none"
    /\ conn' = [conn EXCEPT ![s] = "open"]
    /\ socket' = socket \cup {s}
    /\ strand' = Append(strand, [task |-> "register", session |-> s])
    /\ UNCHANGED <<exists, seqOf, sendVars, auth, timedOut, out, registered, inbox>>

\* handle_login succeeds.
Login(s) ==
    /\ conn[s] = "open"
    /\ s \notin auth
    /\ auth' = auth \cup {s}
    /\ UNCHANGED <<exists, seqOf, sendVars, conn, timedOut, lineVars, registered, strand, inbox>>

\* The read loop ends: EOF, reset, or the read of a closed socket is aborted.
\* Nothing closes the socket here.
ReadError(s) ==
    /\ conn[s] = "open"
    /\ conn' = [conn EXCEPT ![s] = "closing"]
    /\ UNCHANGED <<exists, seqOf, sendVars, auth, timedOut, lineVars, registered, strand, inbox>>

\* Fault: one send still pending is taken for none.
StopWaitingEarly(s) ==
    /\ conn[s] = "closing"
    /\ conn' = [conn EXCEPT ![s] = "ended"]
    /\ timedOut' = IF pending[s] > 1 THEN timedOut \cup {s} ELSE timedOut
    /\ strand' = Append(strand, [task |-> "remove", session |-> s])
    /\ UNCHANGED <<exists, seqOf, sendVars, auth, lineVars, registered, inbox>>

\* run() waits until no send is pending, or for 200 rounds of 10 ms, which may
\* pass at any time; the removal is queued on the server's strand.
StopWaiting(s) ==
    /\ conn[s] = "closing"
    /\ conn' = [conn EXCEPT ![s] = "ended"]
    /\ timedOut' = IF pending[s] > 0 THEN timedOut \cup {s} ELSE timedOut
    /\ strand' = Append(strand, [task |-> "remove", session |-> s])
    /\ UNCHANGED <<exists, seqOf, sendVars, auth, lineVars, registered, inbox>>

-----------------------------------------------------------------------------
(* SEND_MSG *)

\* run() reads a SEND_MSG, counts it and spawns its coroutine.  A SEND_MSG sent
\* again is a send like any other: its clientMsgId is only echoed.
Submit(s, o) ==
    /\ conn[s] = "open"
    /\ pc[o] = "unsent"
    /\ pc' = [pc EXCEPT ![o] = "spawned"]
    /\ by' = [by EXCEPT ![o] = s]
    /\ pending' = [pending EXCEPT ![s] = @ + 1]
    /\ after' = [after EXCEPT ![o] = Acked(s)]
    /\ UNCHANGED <<exists, seqOf, seen, announced, connVars, lineVars, registered, strand, inbox>>

\* Fault: the guard is destroyed at the first await.
GoToCountedOff(o, step) ==
    /\ pc' = [pc EXCEPT ![o] = step]
    /\ pending' = [pending EXCEPT ![by[o]] = @ - 1]

GoTo(o, step) == pc' = [pc EXCEPT ![o] = step] /\ UNCHANGED pending

\* The coroutine ends, and PendingGuard counts it off.
Finish(o) ==
    /\ pc' = [pc EXCEPT ![o] = "done"]
    /\ pending' = [pending EXCEPT ![by[o]] = @ - 1]

\* A spawned send gives up on a closing session, handle_send_msg on one that
\* is not logged in.
Start(o) ==
    /\ pc[o] = "spawned"
    /\ IF Closing(by[o]) \/ by[o] \notin socket \/ by[o] \notin auth
       THEN Finish(o) ELSE GoTo(o, "checks")
    /\ UNCHANGED <<exists, seqOf, by, seen, histories, connVars, lineVars,
                   registered, strand, inbox>>

\* The queries about the sender's mute and friendship: refused, or stopped by
\* closing_ before the write, or on to the write.
Check(o) ==
    /\ pc[o] = "checks"
    /\ Finish(o) \/ (~Closing(by[o]) /\ GoTo(o, "append"))
    /\ UNCHANGED <<exists, seqOf, by, seen, histories, connVars, lineVars,
                   registered, strand, inbox>>

\* COALESCE(MAX(seq), 0) + 1
NextSeq == Max({seqOf[p] : p \in Sends} \cup {0}) + 1

\* Fault: MAX(seq) is read before the INSERT, by a statement of its own.
InsertStale(o) ==
    /\ pc[o] = "append"
    /\ \/ exists /\ (\E n \in 1..NextSeq : seqOf' = [seqOf EXCEPT ![o] = n]) /\ GoTo(o, "readSeq")
       \/ ~exists /\ Finish(o) /\ UNCHANGED seqOf
    /\ UNCHANGED <<exists, by, seen, histories, connVars, lineVars,
                   registered, strand, inbox>>

\* Fault: the message is broadcast as soon as it is stored.
InsertAndBroadcast(o) ==
    /\ pc[o] = "append"
    /\ exists
    /\ seqOf' = [seqOf EXCEPT ![o] = NextSeq]
    /\ GoTo(o, "readSeq")
    /\ strand' = Append(strand, [task |-> "broadcast", send |-> o, seq |-> NextSeq])
    /\ announced' = Append(announced, o)
    /\ UNCHANGED <<exists, by, seen, after, connVars, lineVars, registered, inbox>>

\* INSERT ... SELECT, one statement; the foreign key refuses it when the
\* conversation is gone.
Insert(o) ==
    /\ pc[o] = "append"
    /\ \/ exists /\ seqOf' = [seqOf EXCEPT ![o] = NextSeq] /\ GoTo(o, "readSeq")
       \/ ~exists /\ Finish(o) /\ UNCHANGED seqOf
    /\ UNCHANGED <<exists, by, seen, histories, connVars, lineVars,
                   registered, strand, inbox>>

\* Fault: SELECT MAX(seq) instead of the row's own.
ReadSeqMax(o) ==
    /\ pc[o] = "readSeq"
    /\ seen' = [seen EXCEPT ![o] = IF exists THEN NextSeq - 1 ELSE 1]
    /\ GoTo(o, "reply")
    /\ UNCHANGED <<exists, seqOf, by, histories, connVars, lineVars,
                   registered, strand, inbox>>

\* SELECT seq of the row just inserted; 1 when the row is gone again.
ReadSeq(o) ==
    /\ pc[o] = "readSeq"
    /\ seen' = [seen EXCEPT ![o] = IF seqOf[o] = 0 THEN 1 ELSE seqOf[o]]
    /\ GoTo(o, "reply")
    /\ UNCHANGED <<exists, seqOf, by, histories, connVars, lineVars,
                   registered, strand, inbox>>

\* Fault: closing_ is looked at between the ack and the broadcast.
ReplyThenCheck(o) ==
    /\ pc[o] = "reply"
    /\ Finish(o)
    /\ SendTextImpl(by[o], Ack(o, seen[o]))
    /\ IF Closing(by[o])
       THEN UNCHANGED <<strand, announced>>
       ELSE /\ strand' = Append(strand, [task |-> "broadcast", send |-> o, seq |-> seen[o]])
            /\ announced' = Append(announced, o)
    /\ UNCHANGED <<exists, seqOf, by, seen, after, connVars, registered, inbox>>

\* The SEND_ACK is sent on the session's own strand; then the broadcast is queued on
\* the server's.
AckAndQueue(o) ==
    /\ SendTextImpl(by[o], Ack(o, seen[o]))
    /\ strand' = Append(strand, [task |-> "broadcast", send |-> o, seq |-> seen[o]])
    /\ UNCHANGED inbox

\* The server's strand is free, and the broadcast runs at once.  The strand of the
\* sender is the one it runs in, so the sender's own push is not queued behind the
\* lines that wait there.
AckAndBroadcast(o) ==
    LET s == by[o]  push == Push(o, seen[o]) IN
    /\ strand = <<>>
    /\ IF s \in Recipients
       THEN SendTextImplTwice(s, Ack(o, seen[o]), push)
       ELSE SendTextImpl(s, Ack(o, seen[o]))
    /\ inbox' = SendText(Recipients \ {s}, push)
    /\ UNCHANGED strand

\* A closing session sends neither ack nor broadcast.
Reply(o) ==
    /\ pc[o] = "reply"
    /\ Finish(o)
    /\ IF Closing(by[o]) \/ by[o] \notin socket
       THEN UNCHANGED <<lineVars, strand, inbox, announced>>
       ELSE /\ AckAndQueue(o) \/ AckAndBroadcast(o)
            /\ announced' = Append(announced, o)
    /\ UNCHANGED <<exists, seqOf, by, seen, after, connVars, registered>>

\* A statement throws; what it was to send is an ERROR, or nothing.
Fail(o) ==
    /\ pc[o] \in {"append", "readSeq"}
    /\ Finish(o)
    /\ UNCHANGED <<exists, seqOf, by, seen, histories, connVars, lineVars,
                   registered, strand, inbox>>

-----------------------------------------------------------------------------
(* The server's strand and the sessions' strands *)

\* Fault: handlers are posted to the pool, which runs them in any order.
RunAnyTask ==
    \E i \in DOMAIN strand :
       LET t == strand[i] IN
       /\ strand' = RemoveAt(strand, i)
       /\ \/ /\ t.task = "register"
             /\ registered' = registered \cup {t.session}
             /\ UNCHANGED inbox
          \/ /\ t.task = "remove"
             /\ registered' = registered \ {t.session}
             /\ UNCHANGED inbox
          \/ /\ t.task = "broadcast"
             /\ inbox' = SendText(Recipients, Push(t.send, t.seq))
             /\ UNCHANGED registered
       /\ UNCHANGED <<exists, seqOf, sendVars, connVars, lineVars>>

\* The first handler queued on the server's strand runs, in a turn of its own.
RunStrand ==
    /\ strand # <<>>
    /\ strand' = Tail(strand)
    /\ LET t == Head(strand) IN
       \/ /\ t.task = "register"
          /\ registered' = registered \cup {t.session}
          /\ UNCHANGED inbox
       \/ /\ t.task = "remove"
          /\ registered' = registered \ {t.session}
          /\ UNCHANGED inbox
       \/ /\ t.task = "broadcast"
          /\ inbox' = SendText(Recipients, Push(t.send, t.seq))
          /\ UNCHANGED registered
    /\ UNCHANGED <<exists, seqOf, sendVars, connVars, lineVars>>

\* Fault: send_text posts to the pool and not to the session's strand.
DeliverAnyLine(s) ==
    /\ \E i \in DOMAIN inbox[s] :
          /\ inbox' = [inbox EXCEPT ![s] = RemoveAt(@, i)]
          /\ SendTextImpl(s, inbox[s][i])
    /\ UNCHANGED <<exists, seqOf, sendVars, connVars, registered, strand>>

\* The first line queued on the strand of s goes to send_text_impl.
DeliverLine(s) ==
    /\ inbox[s] # <<>>
    /\ inbox' = [inbox EXCEPT ![s] = Tail(@)]
    /\ SendTextImpl(s, Head(inbox[s]))
    /\ UNCHANGED <<exists, seqOf, sendVars, connVars, registered, strand>>

\* dissolve_conversation deletes the conversation and its messages.
Dissolve ==
    /\ exists
    /\ exists' = FALSE
    /\ seqOf' = [o \in Sends |-> 0]
    /\ UNCHANGED <<sendVars, connVars, lineVars, registered, strand, inbox>>

-----------------------------------------------------------------------------
Send(o) == Start(o) \/ Check(o) \/ Insert(o) \/ ReadSeq(o) \/ Reply(o)

Next ==
    \/ \E s \in Sessions : Accept(s) \/ Login(s) \/ ReadError(s) \/ StopWaiting(s) \/ DeliverLine(s)
    \/ \E s \in Sessions, o \in Sends : Submit(s, o)
    \/ \E o \in Sends : Send(o) \/ Fail(o)
    \/ RunStrand
    \/ Dissolve

Spec == Init /\ [][Next]_vars

\* The thread pool runs every handler that is ready, and every query returns.
\* Clients, the network and the failures owe nothing.
Fairness ==
    /\ \A o \in Sends : WF_vars(Send(o))
    /\ \A s \in Sessions : WF_vars(DeliverLine(s)) /\ WF_vars(StopWaiting(s))
    /\ WF_vars(RunStrand)

FairSpec == Spec /\ Fairness

-----------------------------------------------------------------------------
(* Properties *)

Stored == {o \in Sends : seqOf[o] # 0}

\* Concurrent sends of any sessions give the messages of a conversation the
\* numbers 1, 2, ... with no number twice and none left out.
SeqDense == {seqOf[o] : o \in Stored} = 1..Cardinality(Stored)

\* While the conversation exists, whatever a client is told of a message, in its
\* SEND_ACK or in anyone's MSG_PUSH, is the row that was stored for it; an ack
\* goes to its sender only.
LinesMatchRows ==
    \A s \in Sessions : \A i \in DOMAIN out[s] :
        LET line == out[s][i] IN
        /\ exists => line.seq = seqOf[line.send]
        /\ line.kind = "ack" => by[line.send] = s

\* The numbers clients page and count unread messages by are those of the rows,
\* without a gap, although numbering, reading back and sending are apart.
NumberedAsStored == SeqDense /\ LinesMatchRows

\* The place of a push in what a session is sent.
PushAt(s, o) == CHOOSE i \in DOMAIN out[s] : out[s][i].kind = "push" /\ out[s][i].send = o

\* No line is sent twice, and a sender hears the ack of a message before the
\* push of it, although they take different ways.
AckThenPushOnce ==
    \A s \in Sessions : \A i, j \in DOMAIN out[s] :
        LET a == out[s][i]  b == out[s][j] IN
        /\ a.kind = b.kind /\ a.send = b.send => i = j
        /\ a.kind = "push" /\ by[a.send] = s => a.send \in Acked(s)
        /\ a.kind = "ack" /\ b.kind = "push" /\ a.send = b.send => i < j

\* Two clients see two messages in different orders only where one of them sees its
\* own message early.
SameOrder ==
    \A s, t \in Sessions : \A a, b \in Pushed(s) \cap Pushed(t) :
        PushAt(s, b) < PushAt(s, a) /\ PushAt(t, a) < PushAt(t, b) => by[b] = s \/ by[a] = t

\* A message sent after another was acknowledged comes after it in seq, and in what
\* every client but its sender's sees: its sender may see it first.
CausalOrder ==
    \A o \in Sends : \A a \in after[o] :
        /\ o \in Stored => seqOf[a] < seqOf[o]
        /\ \A s \in Sessions \ {by[o]} :
              {a, o} \subseteq Pushed(s) => PushAt(s, a) < PushAt(s, o)

\* A session that did not time out is removed only when every send it has read
\* is over: no coroutine works for a session the server has forgotten.
DrainedBeforeRemoval ==
    \A s \in Sessions : conn[s] = "ended" /\ s \notin timedOut =>
        \A o \in Sends : by[o] = s => pc[o] = "done"

\* The messages whose push to s is on the server's strand, behind its registration,
\* or on its own.
Owed(s) ==
    {o \in Sends :
       \/ \E i \in DOMAIN strand :
             /\ strand[i].task = "broadcast" /\ strand[i].send = o
             /\ \A j \in DOMAIN strand :
                   strand[j].task = "register" /\ strand[j].session = s => j < i
       \/ \E i \in DOMAIN inbox[s] : inbox[s][i].send = o}

\* The variables of MessageLog.  The places of the log are those of announced;
\* a session is online when it is logged in, connected, and not about to be removed.
Unsent == {seqOf[o] : o \in {p \in Stored : pc[p] # "done"}}
Entries == IF exists THEN [i \in DOMAIN announced |-> seqOf[announced[i]]] ELSE <<>>
Due == [s \in Sessions |->
          IF exists THEN {i \in DOMAIN announced : announced[i] \in Owed(s)} ELSE {}]
Told == [s \in Sessions |->
          IF exists THEN [i \in DOMAIN out[s] |-> [kind |-> out[s][i].kind, seq |-> out[s][i].seq]]
          ELSE <<>>]
Online == {s \in auth \cap socket : conn[s] # "ended"}

Log == INSTANCE MessageLog WITH
    stored <- Cardinality(Stored), unsent <- Unsent, log <- Entries,
    due <- Due, told <- Told, online <- Online

\* Coroutines that number, answer and announce at their own pace, and three kinds
\* of queues, come to one log that every session which is online is told in order,
\* but for messages of its own that come early: an ack only for what is in the log,
\* nothing twice, nothing left out.
ImplementsLog == Log!Spec

Gone(s) == conn[s] # "open" \/ s \notin socket

\* An acknowledged message reaches its sender again as a push, and every session
\* that was logged in when its broadcast was dispatched, unless they leave.
AckedIsPushed ==
    \A o \in Sends, s \in Sessions :
        /\ o \in Acked(s) ~> o \in Pushed(s) \/ Gone(s)
        /\ (o \in Owed(s) /\ s \in auth) ~> (o \in Pushed(s) \/ Gone(s))
=============================================================================
