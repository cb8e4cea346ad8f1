------------------------- MODULE MessageFlowProofs -------------------------
(***************************************************************************)
(* The messages of a conversation for any sessions and sends: numbering,   *)
(* acks, pushes and their order, and the draining of a closing session.    *)
(* That an acknowledged message is pushed is liveness and TLC's part.      *)
(***************************************************************************)
EXTENDS MessageFlow, FiniteSetTheorems, TLAPS

\* pending_ops_ counts the coroutines of a session that have not ended.
Running(s) == {o \in Sends : by[o] = s /\ pc[o] \notin {"unsent", "done"}}
Counted == \A s \in Sessions : pending[s] = Cardinality(Running(s))
ReadByOne ==
    \A o \in Sends : /\ pc[o] = "unsent" => by[o] = NoSession
                     /\ pc[o] # "unsent" => by[o] \in Sessions /\ conn[by[o]] # "none"

\* What a coroutine knows of its row, step by step.
RowInv ==
    /\ \A o \in Sends : pc[o] \in {"unsent", "spawned", "checks", "append"} => seqOf[o] = 0
    /\ exists => \A o \in Sends :
          /\ pc[o] \in {"readSeq", "reply"} => seqOf[o] # 0
          /\ pc[o] = "reply" => seen[o] = seqOf[o]
    /\ ~exists => \A o \in Sends : seqOf[o] = 0

\* Whatever is on its way is of a send that is over, with the number of its row.
LineOK(line) == pc[line.send] = "done" /\ (exists => line.seq = seqOf[line.send])
LineInv ==
    /\ \A i \in DOMAIN strand : strand[i].task = "broadcast" => LineOK(strand[i])
    /\ \A s \in Sessions : \A i \in DOMAIN inbox[s] : LineOK(inbox[s][i]) /\ inbox[s][i].kind = "push"
    /\ \A s \in Sessions : \A i \in DOMAIN out[s] :
          /\ LineOK(out[s][i])
          /\ out[s][i].kind = "ack" => by[out[s][i].send] = s

\* The places of a push on its way to s: behind its broadcast, on the strand of
\* s, sent.
InStrand(i, o) == i \in DOMAIN strand /\ strand[i].task = "broadcast" /\ strand[i].send = o
InBox(s, i, o) == i \in DOMAIN inbox[s] /\ inbox[s][i].send = o
InOut(s, i, o) == i \in DOMAIN out[s] /\ out[s][i].kind = "push" /\ out[s][i].send = o

OnWay(s, o) == \E i \in Nat : InStrand(i, o) \/ InBox(s, i, o) \/ InOut(s, i, o)

\* The push of a is ahead of that of b on the way to s.
Ahead(s, a, b) ==
    \E i, j \in Nat :
       \/ InOut(s, i, a) /\ InOut(s, j, b) /\ i < j
       \/ InOut(s, i, a) /\ (InBox(s, j, b) \/ InStrand(j, b))
       \/ InBox(s, i, a) /\ InBox(s, j, b) /\ i < j
       \/ InBox(s, i, a) /\ InStrand(j, b)
       \/ InStrand(i, a) /\ InStrand(j, b) /\ i < j

\* No push is on its way twice.
WayInv == \A s \in Sessions, o \in Sends : ~Ahead(s, o, o)

AfterInv ==
    \A o \in Sends : \A a \in after[o] :
        /\ pc[a] = "done" /\ a # o
        /\ seqOf[o] # 0 => seqOf[a] < seqOf[o]

\* The sender has its ack before its push, and each once.
AckInv ==
    /\ \A s \in Sessions, o \in Sends :
          by[o] = s /\ OnWay(s, o) => s \notin socket \/ o \in Acked(s)
    /\ \A s \in Sessions : \A i, j \in DOMAIN out[s] :
          LET a == out[s][i]  b == out[s][j] IN
          a.send = b.send =>
             /\ a.kind = "ack" /\ b.kind = "ack" => i = j
             /\ a.kind = "ack" /\ b.kind = "push" => i < j
    /\ \A s \in Sessions : \A i \in DOMAIN out[s] :
          out[s][i].kind = "push" /\ by[out[s][i].send] = s => out[s][i].send \in Acked(s)

\* The registration of s is queued on the server's strand.
Registers(s, i) == i \in DOMAIN strand /\ strand[i].task = "register" /\ strand[i].session = s

\* A session is registered once, and from then on until it is removed; only one that is
\* logged in sends.
LifeOf(s) ==
    /\ conn[s] = "none" => s \notin auth /\ s \notin registered /\ \A i \in Nat : ~Registers(s, i)
    /\ conn[s] \in {"open", "closing"} => s \in registered \/ \E i \in Nat : Registers(s, i)
    /\ \A i \in Nat : Registers(s, i) =>
          s \notin registered /\ \A j \in Nat : Registers(s, j) => i = j
RemovedEnded ==
    \A i \in DOMAIN strand : strand[i].task = "remove" => conn[strand[i].session] = "ended"
SendersIn ==
    \A o \in Sends : pc[o] \in {"checks", "append", "readSeq", "reply"} => by[o] \in auth
LifeInv == (\A s \in Sessions : LifeOf(s)) /\ RemovedEnded /\ SendersIn

\* s has been sent a message of its own.
SentOwn(s, o) == by[o] = s /\ \E i \in Nat : InOut(s, i, o)

\* A message is announced once, when its send is over and after those acknowledged to
\* its sender; it is on no way to a session before, and in no other order but that its
\* sender may have it early.
LogInv ==
    /\ \A i \in DOMAIN announced : pc[announced[i]] = "done" /\ (exists => seqOf[announced[i]] # 0)
    /\ \A i, j \in DOMAIN announced : announced[i] = announced[j] => i = j
    /\ \A i, j \in DOMAIN announced : announced[i] \in after[announced[j]] => i < j
    /\ \A s \in Sessions, o \in Sends :
          OnWay(s, o) => \E i \in DOMAIN announced : announced[i] = o
    /\ \A s \in Sessions : \A i, j \in DOMAIN announced :
          Ahead(s, announced[i], announced[j]) => i < j \/ SentOwn(s, announced[i])

TypeInv == TypeOK /\ Counted /\ ReadByOne
IInv == /\ TypeInv /\ DrainedBeforeRemoval
        /\ RowInv /\ SeqDense
        /\ LineInv /\ WayInv /\ AfterInv /\ AckInv
        /\ LifeInv /\ LogInv

USE FlowConstants
-----------------------------------------------------------------------------
(* Queues and lines *)

LEMMA Appended ==
  ASSUME NEW S, NEW q \in Seq(S), NEW x \in S
  PROVE  /\ Append(q, x) \in Seq(S)
         /\ Len(q) \in Nat /\ DOMAIN q = 1..Len(q)
         /\ DOMAIN Append(q, x) = DOMAIN q \cup {Len(q) + 1}
         /\ Append(q, x)[Len(q) + 1] = x
         /\ \A i \in DOMAIN q : Append(q, x)[i] = q[i]
  OBVIOUS

LEMMA AppendedTwice ==
  ASSUME NEW S, NEW q \in Seq(S), NEW x \in S, NEW y \in S
  PROVE  /\ DOMAIN Append(Append(q, x), y) = DOMAIN q \cup {Len(q) + 1, Len(q) + 2}
         /\ Append(Append(q, x), y)[Len(q) + 1] = x
         /\ Append(Append(q, x), y)[Len(q) + 2] = y
         /\ \A i \in DOMAIN q : Append(Append(q, x), y)[i] = q[i]
<1>1. Append(q, x) \in Seq(S) /\ Len(Append(q, x)) = Len(q) + 1 /\ Len(q) \in Nat
  OBVIOUS
<1> QED
  BY <1>1, Appended

LEMMA Taken ==
  ASSUME NEW S, NEW q \in Seq(S), q # <<>>
  PROVE  /\ Tail(q) \in Seq(S) /\ Head(q) \in S
         /\ DOMAIN q = 1..Len(q) /\ Len(q) \in Nat
         /\ 1 \in DOMAIN q /\ Head(q) = q[1]
         /\ \A i \in DOMAIN Tail(q) : i \in Nat \ {0} /\ i + 1 \in DOMAIN q /\ Tail(q)[i] = q[i + 1]
  OBVIOUS

LEMMA LinesAre ==
  ASSUME NEW o \in Sends, NEW n \in Seqs
  PROVE  /\ Ack(o, n) \in Lines /\ Ack(o, n).kind = "ack" /\ Ack(o, n).send = o /\ Ack(o, n).seq = n
         /\ Push(o, n) \in Lines /\ Push(o, n).kind = "push" /\ Push(o, n).send = o /\ Push(o, n).seq = n
BY DEF Ack, Push, Lines

LEMMA TasksAre ==
  \A t : t \in Tasks <=>
     \/ \E s \in Sessions : \/ t = [task |-> "register", session |-> s]
                            \/ t = [task |-> "remove", session |-> s]
     \/ \E o \in Sends, n \in Seqs : t = [task |-> "broadcast", send |-> o, seq |-> n]
BY DEF Tasks

\* A line is put behind those of the session, or the socket is closed.
LEMMA LineSent ==
  ASSUME TypeOK, NEW s \in Sessions, NEW line \in Lines, SendTextImpl(s, line)
  PROVE  /\ out' \in [Sessions -> Seq(Lines)] /\ socket' \subseteq socket
         /\ \A t \in Sessions : t # s => out'[t] = out[t]
         /\ \/ out'[s] = Append(out[s], line) /\ s \in socket
            \/ out'[s] = out[s] /\ s \notin socket'
<1>1. out \in [Sessions -> Seq(Lines)] /\ out[s] \in Seq(Lines)
  BY DEF TypeOK
<1>2. CASE s \in socket /\ out' = [out EXCEPT ![s] = Append(@, line)] /\ UNCHANGED socket
  BY <1>1, <1>2, Appended
<1>3. CASE s \in socket /\ socket' = socket \ {s} /\ UNCHANGED out
  BY <1>1, <1>3
<1>4. CASE s \notin socket /\ UNCHANGED lineVars
  BY <1>1, <1>4 DEF lineVars
<1> QED
  BY <1>2, <1>3, <1>4 DEF SendTextImpl

LEMMA LinesSent ==
  ASSUME TypeOK, NEW s \in Sessions, NEW x \in Lines, NEW y \in Lines, SendTextImplTwice(s, x, y)
  PROVE  /\ out' \in [Sessions -> Seq(Lines)] /\ socket' \subseteq socket
         /\ \A t \in Sessions : t # s => out'[t] = out[t]
         /\ \/ out'[s] = Append(Append(out[s], x), y) /\ s \in socket
            \/ out'[s] = Append(out[s], x) /\ s \in socket /\ s \notin socket'
            \/ out'[s] = out[s] /\ s \notin socket'
<1>1. /\ out \in [Sessions -> Seq(Lines)] /\ out[s] \in Seq(Lines)
      /\ Append(out[s], x) \in Seq(Lines) /\ Append(Append(out[s], x), y) \in Seq(Lines)
  BY Appended DEF TypeOK
<1>2. CASE s \in socket /\ out' = [out EXCEPT ![s] = Append(Append(@, x), y)] /\ UNCHANGED socket
  BY <1>1, <1>2
<1>3. CASE s \in socket /\ socket' = socket \ {s} /\ out' = [out EXCEPT ![s] = Append(@, x)]
  BY <1>1, <1>3
<1>4. CASE s \in socket /\ socket' = socket \ {s} /\ out' = out
  BY <1>1, <1>4
<1>5. CASE s \notin socket /\ UNCHANGED lineVars
  BY <1>1, <1>5 DEF lineVars
<1> QED
  BY <1>2, <1>3, <1>4, <1>5 DEF SendTextImplTwice

-----------------------------------------------------------------------------
(* Coroutines *)

\* What every step of a coroutine leaves alone, and where it goes.
LEMMA SendStep ==
  ASSUME TypeOK, NEW o \in Sends, Send(o) \/ Fail(o)
  PROVE  /\ UNCHANGED <<exists, by, after, conn, auth, timedOut, registered>>
         /\ pc[o] \notin {"unsent", "done"}
         /\ Finish(o) \/ \E step \in {"checks", "append", "readSeq", "reply"} : GoTo(o, step)
<1>1. CASE Start(o)
  BY <1>1 DEF Start, connVars, lineVars, histories
<1>2. CASE Check(o)
  BY <1>2 DEF Check, connVars, lineVars, histories
<1>3. CASE Insert(o)
  BY <1>3 DEF Insert, connVars, lineVars, histories
<1>4. CASE ReadSeq(o)
  BY <1>4 DEF ReadSeq, connVars, lineVars, histories
<1>5. CASE Reply(o)
  BY <1>5 DEF Reply, connVars, lineVars, histories
<1>6. CASE Fail(o)
  BY <1>6 DEF Fail, connVars, lineVars, histories
<1> QED
  BY <1>1, <1>2, <1>3, <1>4, <1>5, <1>6 DEF Send

LEMMA StepTo ==
  ASSUME TypeOK, NEW o \in Sends, Send(o) \/ Fail(o)
  PROVE  /\ pc' \in [Sends -> Steps] /\ pc'[o] # "unsent"
         /\ \A p \in Sends : p # o => pc'[p] = pc[p]
<1>1. pc \in [Sends -> Steps]
  BY DEF TypeOK
<1>2. \E step \in Steps \ {"unsent"} : pc' = [pc EXCEPT ![o] = step]
  BY SendStep DEF Finish, GoTo, Steps
<1> QED
  BY <1>1, <1>2

LEMMA RunningFinite ==
  ASSUME NEW s
  PROVE  /\ IsFiniteSet(Running(s))
         /\ Cardinality(Running(s)) \in 0..Cardinality(Sends)
         /\ IsFiniteSet(Running(s)')
         /\ Cardinality(Running(s)') \in 0..Cardinality(Sends)
<1>1. ASSUME NEW T \in SUBSET Sends
      PROVE  IsFiniteSet(T) /\ Cardinality(T) \in 0..Cardinality(Sends)
  <2>1. IsFiniteSet(T) /\ Cardinality(T) <= Cardinality(Sends)
    BY FS_Subset
  <2> QED
    BY <2>1, FS_CardinalityType
<1> QED
  BY <1>1 DEF Running

\* pending_ops_ goes with the coroutines: counted up by run(), down by the guard.
LEMMA CountStep ==
  ASSUME TypeInv, [Next]_vars
  PROVE  Counted' /\ pending' \in [Sessions -> 0..Cardinality(Sends)]
<1>1. /\ pending \in [Sessions -> 0..Cardinality(Sends)] /\ pc \in [Sends -> Steps]
      /\ by \in [Sends -> Sessions \cup {NoSession}] /\ Counted /\ ReadByOne
      /\ Cardinality(Sends) \in Nat
  BY FS_CardinalityType DEF TypeInv, TypeOK
<1>2. SUFFICES pending' \in [Sessions -> Int] /\ Counted'
  BY <1>1, RunningFinite DEF Counted
<1>3. CASE UNCHANGED <<pending, pc, by>>
  BY <1>1, <1>3 DEF Counted, Running
<1>4. ASSUME NEW s \in Sessions, NEW o \in Sends, Submit(s, o)
      PROVE  pending' \in [Sessions -> Int] /\ Counted'
  <2>1. /\ pc[o] = "unsent" /\ pc' = [pc EXCEPT ![o] = "spawned"]
        /\ by' = [by EXCEPT ![o] = s] /\ pending' = [pending EXCEPT ![s] = @ + 1]
    BY <1>4 DEF Submit
  <2>2. Running(s)' = Running(s) \cup {o} /\ o \notin Running(s)
    BY <1>1, <2>1 DEF Running
  <2>3. ASSUME NEW t \in Sessions, t # s PROVE Running(t)' = Running(t)
    BY <1>1, <2>1, <2>3 DEF Running
  <2>4. Cardinality(Running(s)') = Cardinality(Running(s)) + 1
    BY <2>2, RunningFinite, FS_AddElement
  <2> QED
    BY <1>1, <2>1, <2>3, <2>4 DEF Counted
<1>5. ASSUME NEW o \in Sends, Send(o) \/ Fail(o)
      PROVE  pending' \in [Sessions -> Int] /\ Counted'
  <2>1. pc[o] \notin {"unsent", "done"} /\ by' = by /\ by[o] \in Sessions
    BY <1>1, <1>5, SendStep DEF TypeInv, ReadByOne
  <2>2. CASE Finish(o)
    <3>1. pc' = [pc EXCEPT ![o] = "done"] /\ pending' = [pending EXCEPT ![by[o]] = @ - 1]
      BY <2>2 DEF Finish
    <3>2. Running(by[o])' = Running(by[o]) \ {o} /\ o \in Running(by[o])
      BY <1>1, <2>1, <3>1 DEF Running
    <3>3. ASSUME NEW t \in Sessions, t # by[o] PROVE Running(t)' = Running(t)
      BY <1>1, <2>1, <3>1, <3>3 DEF Running
    <3>4. Cardinality(Running(by[o])') = Cardinality(Running(by[o])) - 1
      BY <3>2, RunningFinite, FS_RemoveElement
    <3> QED
      BY <1>1, <2>1, <3>1, <3>3, <3>4 DEF Counted
  <2>3. CASE \E step \in {"checks", "append", "readSeq", "reply"} : GoTo(o, step)
    <3>1. PICK step \in {"checks", "append", "readSeq", "reply"} :
             pc' = [pc EXCEPT ![o] = step] /\ pending' = pending
      BY <2>3 DEF GoTo
    <3>2. ASSUME NEW t \in Sessions PROVE Running(t)' = Running(t)
      BY <1>1, <2>1, <3>1 DEF Running
    <3> QED
      BY <1>1, <3>1, <3>2 DEF Counted
  <2> QED
    BY <1>5, <2>2, <2>3, SendStep DEF TypeInv
<1>6. ASSUME NEW s \in Sessions,
             Accept(s) \/ Login(s) \/ ReadError(s) \/ StopWaiting(s) \/ DeliverLine(s)
      PROVE  UNCHANGED <<pending, pc, by>>
  BY <1>6 DEF Accept, Login, ReadError, StopWaiting, DeliverLine, sendVars
<1>7. CASE RunStrand \/ Dissolve \/ UNCHANGED vars
  BY <1>3, <1>7 DEF RunStrand, Dissolve, sendVars, vars
<1> QED
  BY <1>3, <1>4, <1>5, <1>6, <1>7 DEF Next

-----------------------------------------------------------------------------
(* Rows *)

LEMMA Numbering ==
  ASSUME TypeOK, SeqDense
  PROVE  /\ IsFiniteSet(Stored) /\ Cardinality(Stored) \in Nat
         /\ NextSeq = Cardinality(Stored) + 1
         /\ \A p \in Sends : seqOf[p] < NextSeq
<1>1. IsFiniteSet(Stored) /\ Cardinality(Stored) \in Nat
  <2>1. IsFiniteSet(Stored)
    BY FS_Subset DEF Stored
  <2> QED
    BY <2>1, FS_CardinalityType
<1> DEFINE n == Cardinality(Stored)
           S == {seqOf[p] : p \in Sends} \cup {0}
<1>2. \A p \in Sends : seqOf[p] \in 0..n
  <2> SUFFICES ASSUME NEW p \in Sends, seqOf[p] # 0 PROVE seqOf[p] \in 1..n
    BY <1>1
  <2>1. p \in Stored
    BY DEF Stored
  <2> QED
    BY <2>1 DEF SeqDense
<1>3. n \in S
  <2>1. CASE n = 0
    BY <2>1
  <2>2. CASE n # 0
    <3>1. n \in 1..n
      BY <1>1, <2>2
    <3>2. n \in {seqOf[p] : p \in Stored}
      BY <3>1 DEF SeqDense
    <3> QED
      BY <3>2 DEF Stored
  <2> QED
    BY <2>1, <2>2
<1>4. S \subseteq 0..n
  BY <1>1, <1>2
<1>5. Max(S) = n
  <2> HIDE DEF S, n
  <2>1. n \in Nat
    BY <1>1 DEF n
  <2>2. \A y \in S : n >= y
    BY <1>4, <2>1
  <2>3. \A x \in S : (\A y \in S : x >= y) => x = n
    BY <1>3, <1>4, <2>1
  <2> QED
    BY <1>3, <2>2, <2>3 DEF Max
<1> QED
  BY <1>1, <1>2, <1>5 DEF NextSeq

\* The one INSERT ... SELECT, and what is left when the conversation is gone.
LEMMA SeqStep ==
  ASSUME TypeOK, SeqDense, RowInv, [Next]_vars
  PROVE  /\ seqOf' \in [Sends -> Seqs] /\ SeqDense'
         /\ \/ seqOf' = seqOf /\ exists' = exists
            \/ /\ seqOf' = [p \in Sends |-> 0] /\ exists' = FALSE
               /\ UNCHANGED <<sendVars, connVars, lineVars, registered, strand, inbox>>
            \/ \E o \in Sends : /\ Insert(o) /\ exists /\ exists' /\ seqOf[o] = 0
                                /\ seqOf' = [seqOf EXCEPT ![o] = NextSeq] /\ GoTo(o, "readSeq")
<1>1. seqOf \in [Sends -> Seqs] /\ Cardinality(Sends) \in Nat /\ pc \in [Sends -> Steps]
  BY FS_CardinalityType DEF TypeOK
<1>2. CASE seqOf' = seqOf /\ exists' = exists
  BY <1>1, <1>2 DEF SeqDense, Stored
<1>3. CASE Dissolve
  <2>1. /\ seqOf' = [p \in Sends |-> 0] /\ exists' = FALSE
        /\ UNCHANGED <<sendVars, connVars, lineVars, registered, strand, inbox>>
    BY <1>3 DEF Dissolve
  <2>2. Stored' = {}
    BY <2>1 DEF Stored
  <2>3. Cardinality(Stored') = 0
    BY <2>2, FS_EmptySet
  <2>4. SeqDense'
    <3>1. {seqOf'[p] : p \in Stored'} = 1..0
      BY <2>2
    <3> QED
      BY <2>3, <3>1 DEF SeqDense
  <2>5. seqOf' \in [Sends -> Seqs]
    BY <1>1, <2>1 DEF Seqs
  <2> QED
    BY <2>1, <2>4, <2>5
<1>4. ASSUME NEW o \in Sends, Insert(o), exists, seqOf' = [seqOf EXCEPT ![o] = NextSeq],
             GoTo(o, "readSeq")
      PROVE  /\ seqOf' \in [Sends -> Seqs] /\ SeqDense'
             /\ Insert(o) /\ exists /\ exists' /\ seqOf[o] = 0
             /\ seqOf' = [seqOf EXCEPT ![o] = NextSeq] /\ GoTo(o, "readSeq")
  <2>1. seqOf[o] = 0 /\ exists'
    BY <1>4 DEF Insert, RowInv
  <2> DEFINE n == Cardinality(Stored)
  <2>2. IsFiniteSet(Stored) /\ n \in Nat /\ NextSeq = n + 1
    BY Numbering
  <2>3. Stored' = Stored \cup {o} /\ o \notin Stored /\ Stored' \subseteq Sends
    BY <1>1, <1>4, <2>1, <2>2 DEF Stored
  <2>4. Cardinality(Stored') = n + 1
    BY <2>2, <2>3, FS_AddElement
  <2>5. n + 1 <= Cardinality(Sends)
    BY <2>3, <2>4, FS_Subset
  <2>6. seqOf' \in [Sends -> Seqs]
    BY <1>1, <1>4, <2>2, <2>5 DEF Seqs
  <2>7. {seqOf'[p] : p \in Stored'} = {seqOf[p] : p \in Stored} \cup {n + 1}
    BY <1>1, <1>4, <2>2, <2>3 DEF Stored
  <2>8. SeqDense'
    <3>1. {seqOf'[p] : p \in Stored'} = (1..n) \cup {n + 1}
      BY <2>7 DEF SeqDense
    <3>2. ASSUME NEW k \in Nat PROVE (1..k) \cup {k + 1} = 1..(k + 1)
      OBVIOUS
    <3>3. {seqOf'[p] : p \in Stored'} = 1..(n + 1)
      BY <2>2, <3>1, <3>2
    <3> QED
      BY <2>4, <3>3 DEF SeqDense
  <2> QED
    BY <1>4, <2>1, <2>6, <2>8
<1>5. ASSUME NEW s \in Sessions,
             Accept(s) \/ Login(s) \/ ReadError(s) \/ StopWaiting(s) \/ DeliverLine(s)
      PROVE  UNCHANGED <<seqOf, exists>>
  BY <1>5 DEF Accept, Login, ReadError, StopWaiting, DeliverLine
<1>6. ASSUME NEW s \in Sessions, NEW o \in Sends, Submit(s, o) PROVE UNCHANGED <<seqOf, exists>>
  BY <1>6 DEF Submit
<1>7. ASSUME NEW o \in Sends, Start(o) \/ Check(o) \/ ReadSeq(o) \/ Reply(o) \/ Fail(o)
      PROVE  UNCHANGED <<seqOf, exists>>
  BY <1>7 DEF Start, Check, ReadSeq, Reply, Fail
<1>8. ASSUME NEW o \in Sends, Insert(o)
      PROVE  \/ UNCHANGED <<seqOf, exists>>
             \/ /\ exists /\ seqOf' = [seqOf EXCEPT ![o] = NextSeq] /\ GoTo(o, "readSeq")
  BY <1>8 DEF Insert
<1>9. CASE RunStrand \/ UNCHANGED vars
  BY <1>2, <1>9 DEF RunStrand, vars
<1> QED
  BY <1>2, <1>3, <1>4, <1>5, <1>6, <1>7, <1>8, <1>9 DEF Next, Send

LEMMA RowStep ==
  ASSUME TypeOK, SeqDense, RowInv, [Next]_vars
  PROVE  RowInv' /\ seen' \in [Sends -> Seqs]
<1>1. /\ seqOf \in [Sends -> Seqs] /\ pc \in [Sends -> Steps] /\ seen \in [Sends -> Seqs]
      /\ exists \in BOOLEAN /\ exists' \in BOOLEAN
  BY SeqStep DEF TypeOK
<1>2. CASE UNCHANGED <<pc, seen>> /\ (UNCHANGED <<seqOf, exists>> \/ Dissolve)
  BY <1>1, <1>2 DEF RowInv, Dissolve
<1>3. ASSUME NEW o \in Sends, NEW step \in {"spawned", "checks", "append"},
             UNCHANGED <<seqOf, exists, seen>>,
             pc' = [pc EXCEPT ![o] = step], pc[o] \in {"unsent", "spawned", "checks"}
      PROVE  RowInv' /\ seen' \in [Sends -> Seqs]
  BY <1>1, <1>3 DEF RowInv
<1>4. ASSUME NEW o \in Sends, Finish(o), UNCHANGED <<seqOf, exists, seen>>
      PROVE  RowInv' /\ seen' \in [Sends -> Seqs]
  BY <1>1, <1>4 DEF RowInv, Finish
<1>5. ASSUME NEW o \in Sends, Insert(o) PROVE RowInv' /\ seen' \in [Sends -> Seqs]
  <2>1. CASE exists /\ seqOf' = [seqOf EXCEPT ![o] = NextSeq] /\ GoTo(o, "readSeq")
    <3>1. NextSeq # 0
      BY Numbering
    <3>2. /\ pc[o] = "append" /\ UNCHANGED <<exists, seen>>
          /\ pc' = [pc EXCEPT ![o] = "readSeq"]
      BY <1>5, <2>1 DEF Insert, GoTo
    <3> QED
      BY <1>1, <2>1, <3>1, <3>2 DEF RowInv
  <2> QED
    BY <1>4, <1>5, <2>1 DEF Insert
<1>6. ASSUME NEW o \in Sends, ReadSeq(o) PROVE RowInv' /\ seen' \in [Sends -> Seqs]
  <2>1. /\ pc[o] = "readSeq" /\ UNCHANGED <<seqOf, exists>>
        /\ pc' = [pc EXCEPT ![o] = "reply"]
        /\ seen' = [seen EXCEPT ![o] = IF seqOf[o] = 0 THEN 1 ELSE seqOf[o]]
    BY <1>6 DEF ReadSeq, GoTo
  <2>2. 1 \in Seqs
    <3>1. Cardinality(Sends) \in Nat /\ Cardinality(Sends) # 0
      BY FS_CardinalityType, FS_EmptySet
    <3> QED
      BY <3>1 DEF Seqs
  <2> QED
    BY <1>1, <2>1, <2>2 DEF RowInv
<1>7. ASSUME NEW o \in Sends, Send(o) \/ Fail(o) PROVE RowInv' /\ seen' \in [Sends -> Seqs]
  BY <1>3, <1>4, <1>5, <1>6, <1>7 DEF Send, Start, Check, Reply, Fail, GoTo
<1>8. ASSUME NEW s \in Sessions, NEW o \in Sends, Submit(s, o)
      PROVE  RowInv' /\ seen' \in [Sends -> Seqs]
  BY <1>3, <1>8 DEF Submit
<1>9. ASSUME NEW s \in Sessions,
             Accept(s) \/ Login(s) \/ ReadError(s) \/ StopWaiting(s) \/ DeliverLine(s)
      PROVE  UNCHANGED <<pc, seen, seqOf, exists>>
  BY <1>9 DEF Accept, Login, ReadError, StopWaiting, DeliverLine, sendVars
<1>10. CASE RunStrand \/ Dissolve \/ UNCHANGED vars
  BY <1>2, <1>10 DEF RunStrand, Dissolve, sendVars, vars
<1> QED
  BY <1>2, <1>7, <1>8, <1>9, <1>10 DEF Next

-----------------------------------------------------------------------------
(* Queues *)

Registering == {t \in Tasks : t.task # "broadcast"}
Broadcast(o, n) == [task |-> "broadcast", send |-> o, seq |-> n]

\* The five things a step does to the queues.
Idle ==
    /\ UNCHANGED <<inbox, out, announced>>
    /\ strand' = strand \/ \E t \in Registering : strand' = Append(strand, t)
Answering(o) ==
    /\ pc[o] = "reply" /\ by[o] \in socket
    /\ pc' = [pc EXCEPT ![o] = "done"] /\ UNCHANGED <<exists, seqOf, by, after>>
    /\ announced' = Append(announced, o)
AnswerQueued(o) ==
    /\ Answering(o)
    /\ SendTextImpl(by[o], Ack(o, seen[o]))
    /\ strand' = Append(strand, Broadcast(o, seen[o]))
    /\ UNCHANGED inbox
AnswerHere(o) == Answering(o) /\ AckAndBroadcast(o)
Answer(o) == AnswerQueued(o) \/ AnswerHere(o)
Spread ==
    /\ strand # <<>> /\ strand' = Tail(strand)
    /\ UNCHANGED <<pc, by, out, socket, exists, seqOf, histories>>
    /\ \/ Head(strand) \in Registering /\ UNCHANGED inbox
       \/ \E o \in Sends, n \in Seqs :
             /\ Head(strand) = Broadcast(o, n)
             /\ inbox' = SendText(Recipients, Push(o, n))

LEMMA QueueStep ==
  ASSUME TypeOK, [Next]_vars
  PROVE  \/ Idle
         \/ \E o \in Sends : Answer(o)
         \/ Spread
         \/ \E s \in Sessions : DeliverLine(s)
<1>1. ASSUME NEW o \in Sends, Send(o) \/ Fail(o) PROVE Idle \/ Answer(o)
  <2>1. CASE Reply(o)
    <3>1. CASE Closing(by[o]) \/ by[o] \notin socket
      BY <2>1, <3>1 DEF Reply, lineVars, Idle
    <3>2. CASE ~Closing(by[o]) /\ by[o] \in socket
      BY <2>1, <3>2 DEF Reply, Finish, AckAndQueue, Answer, Answering, AnswerQueued, AnswerHere, Broadcast
    <3> QED
      BY <3>1, <3>2
  <2> QED
    BY <1>1, <2>1 DEF Send, Start, Check, Insert, ReadSeq, Fail, lineVars, histories, Idle
<1>2. ASSUME NEW s \in Sessions, Accept(s) \/ Login(s) \/ ReadError(s) \/ StopWaiting(s)
      PROVE  Idle
  <2>1. /\ [task |-> "register", session |-> s] \in Registering
        /\ [task |-> "remove", session |-> s] \in Registering
    BY TasksAre DEF Registering
  <2> QED
    BY <1>2, <2>1 DEF Accept, Login, ReadError, StopWaiting, lineVars, sendVars, histories, Idle
<1>3. ASSUME NEW s \in Sessions, NEW o \in Sends, Submit(s, o) PROVE Idle
  BY <1>3 DEF Submit, lineVars, Idle
<1>4. CASE RunStrand
  <2>1. Head(strand) \in Tasks
    BY <1>4, Taken DEF TypeOK, RunStrand
  <2>2. CASE Head(strand).task # "broadcast"
    <3>1. /\ strand # <<>> /\ strand' = Tail(strand) /\ Head(strand) \in Registering
          /\ UNCHANGED <<pc, by, out, socket, exists, seqOf, histories, inbox>>
      BY <1>4, <2>1, <2>2 DEF RunStrand, lineVars, sendVars, histories, Registering
    <3> QED
      BY <3>1 DEF Spread
  <2>3. CASE Head(strand).task = "broadcast"
    <3>1. PICK o \in Sends, n \in Seqs : Head(strand) = Broadcast(o, n)
      BY <2>1, <2>3, TasksAre DEF Broadcast
    <3>2. Head(strand).send = o /\ Head(strand).seq = n
      BY <3>1 DEF Broadcast
    <3>3. /\ strand # <<>> /\ strand' = Tail(strand)
          /\ UNCHANGED <<pc, by, out, socket, exists, seqOf, histories>>
          /\ inbox' = SendText(Recipients, Push(Head(strand).send, Head(strand).seq))
      BY <1>4, <2>3 DEF RunStrand, lineVars, sendVars, histories
    <3> QED
      BY <3>1, <3>2, <3>3 DEF Spread
  <2> QED
    BY <2>2, <2>3
<1>5. CASE Dissolve \/ UNCHANGED vars
  BY <1>5 DEF Dissolve, lineVars, sendVars, histories, vars, Idle
<1> QED
  BY <1>1, <1>2, <1>3, <1>4, <1>5 DEF Next

LEMMA InboxSent ==
  ASSUME TypeOK, NEW to, NEW line \in Lines, inbox' = SendText(to, line)
  PROVE  /\ inbox' \in [Sessions -> Seq(Lines)]
         /\ \A s \in Sessions :
               inbox'[s] = IF s \in to THEN Append(inbox[s], line) ELSE inbox[s]
<1>1. inbox \in [Sessions -> Seq(Lines)]
  BY DEF TypeOK
<1>2. \A s \in Sessions : Append(inbox[s], line) \in Seq(Lines)
  BY <1>1, Appended
<1> QED
  BY <1>1, <1>2 DEF SendText

\* The broadcast in the sender's turn: the sender's push is behind its ack.
LEMMA Here ==
  ASSUME TypeInv, NEW o \in Sends, AnswerHere(o)
  PROVE  /\ by[o] \in Sessions /\ seen[o] \in Seqs /\ strand = <<>> /\ strand' = <<>>
         /\ out' \in [Sessions -> Seq(Lines)] /\ inbox' \in [Sessions -> Seq(Lines)]
         /\ socket' \subseteq socket
         /\ \A s \in Sessions : s # by[o] => out'[s] = out[s]
         /\ LET s == by[o]  ack == Ack(o, seen[o])  push == Push(o, seen[o]) IN
            \/ out'[s] = Append(Append(out[s], ack), push) /\ s \in socket /\ s \in Recipients
            \/ out'[s] = Append(out[s], ack) /\ s \in socket /\ (s \notin socket' \/ s \notin Recipients)
            \/ out'[s] = out[s] /\ s \notin socket'
         /\ \A s \in Sessions :
               inbox'[s] = IF s \in Recipients /\ s # by[o]
                           THEN Append(inbox[s], Push(o, seen[o])) ELSE inbox[s]
<1> DEFINE s == by[o]
           ack == Ack(o, seen[o])
           push == Push(o, seen[o])
<1>1. /\ s \in Sessions /\ seen[o] \in Seqs /\ strand = <<>> /\ strand' = strand
      /\ TypeOK /\ inbox' = SendText(Recipients \ {s}, push)
      /\ IF s \in Recipients THEN SendTextImplTwice(s, ack, push) ELSE SendTextImpl(s, ack)
  BY DEF TypeInv, TypeOK, ReadByOne, AnswerHere, Answering, AckAndBroadcast
<1>2. ack \in Lines /\ push \in Lines
  BY <1>1, LinesAre
<1> HIDE DEF s, ack, push
<1>3. /\ inbox' \in [Sessions -> Seq(Lines)]
      /\ \A t \in Sessions :
            inbox'[t] = IF t \in Recipients /\ t # s THEN Append(inbox[t], push) ELSE inbox[t]
  BY <1>1, <1>2, InboxSent DEF SendText
<1>4. /\ out' \in [Sessions -> Seq(Lines)] /\ socket' \subseteq socket
      /\ \A t \in Sessions : t # s => out'[t] = out[t]
      /\ \/ out'[s] = Append(Append(out[s], ack), push) /\ s \in socket /\ s \in Recipients
         \/ out'[s] = Append(out[s], ack) /\ s \in socket /\ (s \notin socket' \/ s \notin Recipients)
         \/ out'[s] = out[s] /\ s \notin socket'
  BY <1>1, <1>2, LineSent, LinesSent
<1> QED
  BY <1>1, <1>3, <1>4 DEF s, ack, push

LEMMA QueueTypes ==
  ASSUME TypeInv, [Next]_vars
  PROVE  /\ strand' \in Seq(Tasks)
         /\ inbox' \in [Sessions -> Seq(Lines)]
         /\ out' \in [Sessions -> Seq(Lines)]
         /\ announced' \in Seq(Sends)
<1>1. /\ strand \in Seq(Tasks) /\ inbox \in [Sessions -> Seq(Lines)]
      /\ out \in [Sessions -> Seq(Lines)] /\ seen \in [Sends -> Seqs]
      /\ announced \in Seq(Sends)
  BY DEF TypeInv, TypeOK
<1>2. announced' \in Seq(Sends)
  <2>1. ASSUME NEW o \in Sends, announced' = Append(announced, o) PROVE announced' \in Seq(Sends)
    BY <1>1, <2>1, Appended
  <2>2. ASSUME NEW s \in Sessions, DeliverLine(s) PROVE announced' = announced
    BY <2>2 DEF DeliverLine, sendVars, histories
  <2> QED
    BY <1>1, <2>1, <2>2, QueueStep
       DEF TypeInv, Idle, Answer, Answering, AnswerQueued, AnswerHere, Spread, histories
<1> SUFFICES /\ strand' \in Seq(Tasks) /\ inbox' \in [Sessions -> Seq(Lines)]
             /\ out' \in [Sessions -> Seq(Lines)]
  BY <1>2
<1>3. CASE Idle
  <2>1. ASSUME NEW task \in Registering, strand' = Append(strand, task) PROVE strand' \in Seq(Tasks)
    BY <1>1, <2>1, Appended DEF Registering
  <2> QED
    BY <1>1, <1>3, <2>1 DEF Idle
<1>4. ASSUME NEW o \in Sends, AnswerQueued(o)
      PROVE  strand' \in Seq(Tasks) /\ inbox' = inbox /\ out' \in [Sessions -> Seq(Lines)]
  <2>1. by[o] \in Sessions /\ Ack(o, seen[o]) \in Lines
    BY <1>1, <1>4, LinesAre DEF TypeInv, ReadByOne, AnswerQueued, Answering
  <2>2. out' \in [Sessions -> Seq(Lines)]
    BY <1>4, <2>1, LineSent DEF TypeInv, AnswerQueued
  <2>3. Broadcast(o, seen[o]) \in Tasks
    BY <1>1, TasksAre DEF Broadcast
  <2> QED
    BY <1>1, <1>4, <2>2, <2>3, Appended DEF AnswerQueued
<1>5. CASE Spread
  <2>1. strand' \in Seq(Tasks) /\ out' = out
    BY <1>1, <1>5, Taken DEF Spread
  <2>2. inbox' \in [Sessions -> Seq(Lines)]
    <3>1. CASE inbox' = inbox
      BY <1>1, <3>1
    <3>2. ASSUME NEW o \in Sends, NEW n \in Seqs, inbox' = SendText(Recipients, Push(o, n))
          PROVE  inbox' \in [Sessions -> Seq(Lines)]
      BY <3>2, LinesAre, InboxSent DEF TypeInv, SendText
    <3> QED
      BY <1>5, <3>1, <3>2 DEF Spread
  <2> QED
    BY <1>1, <2>1, <2>2
<1>6. ASSUME NEW s \in Sessions, DeliverLine(s)
      PROVE  /\ strand' = strand /\ inbox' \in [Sessions -> Seq(Lines)]
             /\ out' \in [Sessions -> Seq(Lines)]
  <2>1. /\ strand' = strand /\ inbox' = [inbox EXCEPT ![s] = Tail(@)]
        /\ inbox[s] # <<>> /\ SendTextImpl(s, Head(inbox[s]))
    BY <1>6 DEF DeliverLine
  <2>2. Tail(inbox[s]) \in Seq(Lines) /\ Head(inbox[s]) \in Lines
    BY <1>1, <2>1, Taken
  <2>3. out' \in [Sessions -> Seq(Lines)]
    BY <2>1, <2>2, LineSent DEF TypeInv
  <2> QED
    BY <1>1, <2>1, <2>2, <2>3
<1>7. ASSUME NEW o \in Sends, AnswerHere(o)
      PROVE  /\ strand' = strand /\ inbox' \in [Sessions -> Seq(Lines)]
             /\ out' \in [Sessions -> Seq(Lines)]
  BY <1>7, Here
<1> QED
  BY <1>1, <1>3, <1>4, <1>5, <1>6, <1>7, QueueStep DEF TypeInv, Answer

\* A send that is over stays as it is.
LEMMA DoneStays ==
  ASSUME TypeOK, SeqDense, RowInv, [Next]_vars, NEW p \in Sends, pc[p] = "done"
  PROVE  /\ pc'[p] = "done" /\ by'[p] = by[p] /\ after'[p] = after[p]
         /\ exists' => exists /\ seqOf'[p] = seqOf[p]
<1>1. /\ seqOf \in [Sends -> Seqs] /\ pc \in [Sends -> Steps] /\ after \in [Sends -> SUBSET Sends]
      /\ by \in [Sends -> Sessions \cup {NoSession}]
  BY DEF TypeOK
<1>2. exists' => exists /\ seqOf'[p] = seqOf[p]
  <2>1. ASSUME NEW o \in Sends, Insert(o) PROVE o # p
    BY <2>1 DEF Insert
  <2> QED
    BY <1>1, <2>1, SeqStep
<1>3. ASSUME NEW o \in Sends, Send(o) \/ Fail(o)
      PROVE  pc'[p] = "done" /\ by'[p] = by[p] /\ after'[p] = after[p]
  BY <1>3, SendStep, StepTo
<1>4. ASSUME NEW s \in Sessions, NEW o \in Sends, Submit(s, o)
      PROVE  pc'[p] = "done" /\ by'[p] = by[p] /\ after'[p] = after[p]
  BY <1>1, <1>4 DEF Submit
<1>5. ASSUME NEW s \in Sessions,
             Accept(s) \/ Login(s) \/ ReadError(s) \/ StopWaiting(s) \/ DeliverLine(s)
      PROVE  UNCHANGED <<pc, by, after>>
  BY <1>5 DEF Accept, Login, ReadError, StopWaiting, DeliverLine, sendVars, histories
<1>6. CASE RunStrand \/ Dissolve \/ UNCHANGED vars
  BY <1>6 DEF RunStrand, Dissolve, sendVars, histories, vars
<1> QED
  BY <1>2, <1>3, <1>4, <1>5, <1>6 DEF Next

LEMMA LineStep ==
  ASSUME TypeInv, SeqDense, RowInv, LineInv, [Next]_vars
  PROVE  LineInv'
<1> DEFINE Later(line) == pc'[line.send] = "done" /\ (exists' => line.seq = seqOf'[line.send])
<1>1. /\ strand \in Seq(Tasks) /\ inbox \in [Sessions -> Seq(Lines)]
      /\ out \in [Sessions -> Seq(Lines)] /\ seen \in [Sends -> Seqs]
  BY DEF TypeInv, TypeOK
<1>2. ASSUME NEW line, line.send \in Sends, LineOK(line)
      PROVE  Later(line) /\ by'[line.send] = by[line.send]
  BY <1>2, DoneStays DEF TypeInv, LineOK
<1>3. ASSUME NEW s \in Sessions, NEW i \in DOMAIN out[s]
      PROVE  /\ Later(out[s][i])
             /\ out[s][i].kind = "ack" => by'[out[s][i].send] = s
  <2>1. out[s][i] \in Lines
    BY <1>1
  <2> QED
    BY <1>2, <2>1 DEF LineInv, Lines
<1>4. ASSUME NEW s \in Sessions, NEW i \in DOMAIN inbox[s]
      PROVE  Later(inbox[s][i]) /\ inbox[s][i].kind = "push"
  <2>1. inbox[s][i] \in Lines
    BY <1>1
  <2> QED
    BY <1>2, <2>1 DEF LineInv, Lines
<1>5. ASSUME NEW i \in DOMAIN strand, strand[i].task = "broadcast"
      PROVE  Later(strand[i])
  <2>1. strand[i] \in Tasks
    BY <1>1
  <2>2. strand[i].send \in Sends
    BY <1>5, <2>1, TasksAre
  <2> QED
    BY <1>2, <1>5, <2>2 DEF LineInv
<1> HIDE DEF Later
<1>6. CASE Idle
  <2>1. \A i \in DOMAIN strand' : strand'[i].task = "broadcast" => Later(strand'[i])
    <3>1. CASE strand' = strand
      BY <1>5, <3>1
    <3>2. ASSUME NEW t \in Registering, strand' = Append(strand, t)
          PROVE  \A i \in DOMAIN strand' : strand'[i].task = "broadcast" => Later(strand'[i])
      BY <1>1, <1>5, <3>2, Appended DEF Registering
    <3> QED
      BY <1>6, <3>1, <3>2 DEF Idle
  <2> QED
    BY <1>3, <1>4, <1>6, <2>1 DEF Idle, LineInv, LineOK, Later
<1>7. ASSUME NEW o \in Sends, AnswerQueued(o) PROVE LineInv'
  <2>1. by[o] \in Sessions /\ by' = by /\ inbox' = inbox /\ seen[o] \in Seqs
    BY <1>1, <1>7 DEF TypeInv, ReadByOne, AnswerQueued, Answering
  <2>2. pc'[o] = "done" /\ (exists' => seen[o] = seqOf'[o])
    BY <1>7 DEF TypeInv, TypeOK, RowInv, AnswerQueued, Answering
  <2>3. Later(Ack(o, seen[o])) /\ Later(Broadcast(o, seen[o]))
    BY <2>1, <2>2, LinesAre DEF Later, Broadcast
  <2>4. \A i \in DOMAIN strand' : strand'[i].task = "broadcast" => Later(strand'[i])
    <3>1. Broadcast(o, seen[o]) \in Tasks
      BY <2>1, TasksAre DEF Broadcast
    <3> QED
      BY <1>1, <1>5, <1>7, <2>3, <3>1, Appended DEF AnswerQueued
  <2>5. ASSUME NEW s \in Sessions, NEW i \in DOMAIN out'[s]
        PROVE  Later(out'[s][i]) /\ (out'[s][i].kind = "ack" => by'[out'[s][i].send] = s)
    <3>1. CASE out'[s] = out[s]
      BY <1>3, <3>1
    <3>2. CASE s = by[o] /\ out'[s] = Append(out[s], Ack(o, seen[o]))
      <4>1. Ack(o, seen[o]) \in Lines /\ Ack(o, seen[o]).send = o
        BY <2>1, LinesAre
      <4> QED
        BY <1>1, <1>3, <2>1, <2>3, <3>2, <4>1, Appended
    <3> QED
      BY <1>7, <2>1, <3>1, <3>2, LinesAre, LineSent DEF TypeInv, AnswerQueued
  <2> QED
    BY <1>4, <2>1, <2>4, <2>5 DEF LineInv, LineOK, Later
<1>8. CASE Spread
  <2>1. strand # <<>> /\ strand' = Tail(strand) /\ out' = out /\ by' = by
    BY <1>8 DEF Spread
  <2>2. \A i \in DOMAIN strand' : strand'[i].task = "broadcast" => Later(strand'[i])
    BY <1>1, <1>5, <2>1, Taken
  <2>3. ASSUME NEW s \in Sessions, NEW i \in DOMAIN inbox'[s]
        PROVE  Later(inbox'[s][i]) /\ inbox'[s][i].kind = "push"
    <3>1. CASE inbox'[s] = inbox[s]
      BY <1>4, <3>1
    <3>2. ASSUME NEW o \in Sends, NEW n \in Seqs, Head(strand) = Broadcast(o, n),
                 inbox'[s] = Append(inbox[s], Push(o, n))
          PROVE  Later(inbox'[s][i]) /\ inbox'[s][i].kind = "push"
      <4>1. Later(Broadcast(o, n))
        <5>1. 1 \in DOMAIN strand /\ strand[1] = Broadcast(o, n)
          BY <1>1, <2>1, <3>2, Taken
        <5>2. strand[1].task = "broadcast"
          BY <5>1 DEF Broadcast
        <5> QED
          BY <1>5, <5>1, <5>2
      <4>2. Later(Push(o, n)) /\ Push(o, n) \in Lines /\ Push(o, n).kind = "push"
        BY <4>1, LinesAre DEF Later, Broadcast
      <4> QED
        BY <1>1, <1>4, <3>2, <4>2, Appended
    <3> QED
      BY <1>8, <3>1, <3>2, LinesAre, InboxSent DEF TypeInv, Spread, SendText
  <2> QED
    BY <1>3, <2>1, <2>2, <2>3 DEF LineInv, LineOK, Later
<1>9. ASSUME NEW t \in Sessions, DeliverLine(t) PROVE LineInv'
  <2>1. /\ strand' = strand /\ inbox' = [inbox EXCEPT ![t] = Tail(@)] /\ by' = by
        /\ inbox[t] # <<>> /\ SendTextImpl(t, Head(inbox[t]))
    BY <1>9 DEF DeliverLine, sendVars
  <2>2. /\ Head(inbox[t]) \in Lines /\ Later(Head(inbox[t])) /\ Head(inbox[t]).kind = "push"
        /\ \A i \in DOMAIN Tail(inbox[t]) : i + 1 \in DOMAIN inbox[t] /\ Tail(inbox[t])[i] = inbox[t][i + 1]
    BY <1>1, <1>4, <2>1, Taken
  <2>3. ASSUME NEW s \in Sessions, NEW i \in DOMAIN inbox'[s]
        PROVE  Later(inbox'[s][i]) /\ inbox'[s][i].kind = "push"
    BY <1>1, <1>4, <2>1, <2>2
  <2>4. ASSUME NEW s \in Sessions, NEW i \in DOMAIN out'[s]
        PROVE  Later(out'[s][i]) /\ (out'[s][i].kind = "ack" => by'[out'[s][i].send] = s)
    <3>1. CASE out'[s] = out[s]
      BY <1>3, <3>1
    <3>2. CASE s = t /\ out'[s] = Append(out[s], Head(inbox[t]))
      BY <1>1, <1>3, <2>2, <3>2, Appended
    <3> QED
      BY <2>1, <2>2, <3>1, <3>2, LineSent DEF TypeInv
  <2> QED
    BY <1>5, <2>1, <2>3, <2>4 DEF LineInv, LineOK, Later
<1>10. ASSUME NEW o \in Sends, AnswerHere(o) PROVE LineInv'
  <2> DEFINE ack == Ack(o, seen[o])
             push == Push(o, seen[o])
  <2>1. by[o] \in Sessions /\ by' = by /\ seen[o] \in Seqs /\ strand' = <<>>
    BY <1>10, Here DEF AnswerHere, Answering
  <2>2. pc'[o] = "done" /\ (exists' => seen[o] = seqOf'[o])
    BY <1>10 DEF TypeInv, TypeOK, RowInv, AnswerHere, Answering
  <2>3. /\ ack \in Lines /\ Later(ack) /\ ack.send = o
        /\ push \in Lines /\ Later(push) /\ push.kind = "push"
    BY <2>1, <2>2, LinesAre DEF Later
  <2> HIDE DEF ack, push
  <2>4. ASSUME NEW s \in Sessions, NEW i \in DOMAIN inbox'[s]
        PROVE  Later(inbox'[s][i]) /\ inbox'[s][i].kind = "push"
    <3>1. inbox'[s] = inbox[s] \/ inbox'[s] = Append(inbox[s], push)
      BY <1>10, Here DEF push
    <3>2. CASE inbox'[s] = inbox[s]
      BY <1>4, <2>4, <3>2
    <3>3. CASE inbox'[s] = Append(inbox[s], push)
      <4>1. inbox[s] \in Seq(Lines)
        BY <1>1
      <4>2. /\ DOMAIN inbox'[s] = DOMAIN inbox[s] \cup {Len(inbox[s]) + 1}
            /\ inbox'[s][Len(inbox[s]) + 1] = push
            /\ \A k \in DOMAIN inbox[s] : inbox'[s][k] = inbox[s][k]
        BY <2>3, <3>3, <4>1, Appended
      <4> QED
        BY <1>4, <2>3, <2>4, <4>2
    <3> QED
      BY <3>1, <3>2, <3>3
  <2>5. ASSUME NEW s \in Sessions, NEW i \in DOMAIN out'[s]
        PROVE  Later(out'[s][i]) /\ (out'[s][i].kind = "ack" => by'[out'[s][i].send] = s)
    <3>1. CASE out'[s] = out[s]
      BY <1>3, <3>1
    <3>2. ASSUME s = by[o], NEW q, q = Append(out[s], ack)
          PROVE  /\ q \in Seq(Lines)
                 /\ \A k \in DOMAIN q : Later(q[k]) /\ (q[k].kind = "ack" => by'[q[k].send] = s)
      BY <1>1, <1>3, <2>1, <2>3, <3>2, Appended
    <3>3. CASE s = by[o] /\ out'[s] = Append(out[s], ack)
      BY <3>2, <3>3
    <3>4. CASE s = by[o] /\ out'[s] = Append(Append(out[s], ack), push)
      <4>1. PICK q : q = Append(out[s], ack)
        OBVIOUS
      <4> QED
        BY <2>3, <3>2, <3>4, <4>1, Appended
    <3> QED
      BY <1>10, <3>1, <3>3, <3>4, Here DEF ack, push
  <2> QED
    BY <2>1, <2>4, <2>5 DEF LineInv, LineOK, Later
<1> QED
  BY <1>6, <1>7, <1>8, <1>9, <1>10, QueueStep DEF TypeInv, Answer

-----------------------------------------------------------------------------
(* The way of a push *)

\* A step moves every push on by one place, or lets it go; Answer(o) puts that
\* of o behind all others, but for the sender of o, who may be sent it at once.
LEMMA Places ==
  ASSUME TypeInv, LineInv, NEW s \in Sessions
  PROVE  \A i, o : /\ InStrand(i, o) => i \in 1..Len(strand) /\ o \in Sends /\ pc[o] = "done"
                   /\ InBox(s, i, o) => i \in 1..Len(inbox[s]) /\ o \in Sends /\ pc[o] = "done"
                   /\ InOut(s, i, o) => i \in 1..Len(out[s]) /\ o \in Sends /\ pc[o] = "done"
<1>1. /\ strand \in Seq(Tasks) /\ inbox[s] \in Seq(Lines) /\ out[s] \in Seq(Lines)
  BY DEF TypeInv, TypeOK
<1>2. ASSUME NEW i, NEW o, InStrand(i, o) PROVE i \in 1..Len(strand) /\ o \in Sends /\ pc[o] = "done"
  <2>1. strand[i] \in Tasks /\ i \in 1..Len(strand)
    BY <1>1, <1>2 DEF InStrand
  <2>2. strand[i].send \in Sends
    BY <1>2, <2>1, TasksAre DEF InStrand
  <2> QED
    BY <1>2, <2>1, <2>2 DEF InStrand, LineInv, LineOK
<1>3. ASSUME NEW i, NEW o, InBox(s, i, o) PROVE i \in 1..Len(inbox[s]) /\ o \in Sends /\ pc[o] = "done"
  <2>1. inbox[s][i] \in Lines /\ i \in 1..Len(inbox[s])
    BY <1>1, <1>3 DEF InBox
  <2> QED
    BY <1>3, <2>1 DEF InBox, LineInv, LineOK, Lines
<1>4. ASSUME NEW i, NEW o, InOut(s, i, o) PROVE i \in 1..Len(out[s]) /\ o \in Sends /\ pc[o] = "done"
  <2>1. out[s][i] \in Lines /\ i \in 1..Len(out[s])
    BY <1>1, <1>4 DEF InOut
  <2> QED
    BY <1>4, <2>1 DEF InOut, LineInv, LineOK, Lines
<1> QED
  BY <1>2, <1>3, <1>4

LEMMA IdleStep ==
  ASSUME TypeInv, Idle, NEW s \in Sessions
  PROVE  \A i, o : /\ InStrand(i, o)' <=> InStrand(i, o)
                   /\ InBox(s, i, o)' <=> InBox(s, i, o)
                   /\ InOut(s, i, o)' <=> InOut(s, i, o)
<1>1. strand \in Seq(Tasks)
  BY DEF TypeInv, TypeOK
<1>2. ASSUME NEW t \in Registering, strand' = Append(strand, t), NEW i, NEW o
      PROVE  InStrand(i, o)' <=> InStrand(i, o)
  BY <1>1, <1>2, Appended DEF InStrand, Registering
<1> QED
  BY <1>2 DEF Idle, InStrand, InBox, InOut

LEMMA AnswerStep ==
  ASSUME TypeInv, NEW o \in Sends, AnswerQueued(o), NEW s \in Sessions
  PROVE  \A i, p : /\ InStrand(i, p)' <=> InStrand(i, p) \/ (i = Len(strand) + 1 /\ p = o)
                   /\ InBox(s, i, p)' <=> InBox(s, i, p)
                   /\ InOut(s, i, p)' <=> InOut(s, i, p)
<1>1. /\ strand \in Seq(Tasks) /\ inbox' = inbox /\ strand' = Append(strand, Broadcast(o, seen[o]))
      /\ out[s] \in Seq(Lines) /\ by[o] \in Sessions /\ seen[o] \in Seqs
      /\ SendTextImpl(by[o], Ack(o, seen[o]))
  BY DEF TypeInv, TypeOK, ReadByOne, AnswerQueued, Answering
<1>2. Broadcast(o, seen[o]) \in Tasks /\ Broadcast(o, seen[o]).task = "broadcast"
      /\ Broadcast(o, seen[o]).send = o
  BY <1>1, TasksAre DEF Broadcast
<1>3. ASSUME NEW i, NEW p
      PROVE  InStrand(i, p)' <=> InStrand(i, p) \/ (i = Len(strand) + 1 /\ p = o)
  BY <1>1, <1>2, Appended DEF InStrand
<1>4. ASSUME NEW i, NEW p PROVE InOut(s, i, p)' <=> InOut(s, i, p)
  <2>1. CASE out'[s] = out[s]
    BY <2>1 DEF InOut
  <2>2. CASE out'[s] = Append(out[s], Ack(o, seen[o]))
    BY <1>1, <2>2, LinesAre, Appended DEF InOut
  <2> QED
    BY <1>1, <2>1, <2>2, LinesAre, LineSent DEF TypeInv
<1> QED
  BY <1>1, <1>3, <1>4 DEF InBox

LEMMA HereStep ==
  ASSUME TypeInv, NEW o \in Sends, AnswerHere(o), NEW s \in Sessions
  PROVE  \A i, p : /\ ~InStrand(i, p) /\ ~InStrand(i, p)'
                   /\ s = by[o] => /\ InBox(s, i, p)' <=> InBox(s, i, p)
                                   /\ InOut(s, i, p) => InOut(s, i, p)'
                                   /\ InOut(s, i, p)' => \/ InOut(s, i, p)
                                                         \/ i = Len(out[s]) + 2 /\ p = o
                   /\ s # by[o] => /\ InBox(s, i, p)' => \/ InBox(s, i, p)
                                                         \/ i = Len(inbox[s]) + 1 /\ p = o
                                   /\ InOut(s, i, p)' <=> InOut(s, i, p)
<1> DEFINE ack == Ack(o, seen[o])
           push == Push(o, seen[o])
<1>1. /\ inbox[s] \in Seq(Lines) /\ out[s] \in Seq(Lines) /\ strand = <<>> /\ strand' = <<>>
      /\ ack \in Lines /\ ack.kind = "ack" /\ push \in Lines /\ push.kind = "push" /\ push.send = o
      /\ Append(out[s], ack) \in Seq(Lines)
  BY Here, LinesAre, Appended DEF TypeInv, TypeOK
<1>2. \A i, p : ~InStrand(i, p) /\ ~InStrand(i, p)'
  BY <1>1 DEF InStrand
<1>3. CASE s # by[o]
  <2>1. out'[s] = out[s] /\ (inbox'[s] = inbox[s] \/ inbox'[s] = Append(inbox[s], push))
    BY <1>3, Here
  <2> HIDE DEF push
  <2> QED
    BY <1>1, <1>2, <1>3, <2>1, Appended DEF InBox, InOut
<1>4. CASE s = by[o]
  <2>1. /\ inbox'[s] = inbox[s]
        /\ \/ out'[s] = out[s]
           \/ out'[s] = Append(out[s], ack)
           \/ out'[s] = Append(Append(out[s], ack), push)
    BY <1>4, Here
  <2> HIDE DEF ack, push
  <2>2. ASSUME NEW i, NEW p
        PROVE  /\ InOut(s, i, p) => InOut(s, i, p)'
               /\ InOut(s, i, p)' => InOut(s, i, p) \/ (i = Len(out[s]) + 2 /\ p = o)
    <3>1. /\ DOMAIN Append(out[s], ack) = DOMAIN out[s] \cup {Len(out[s]) + 1}
          /\ Append(out[s], ack)[Len(out[s]) + 1] = ack
          /\ \A k \in DOMAIN out[s] : Append(out[s], ack)[k] = out[s][k]
          /\ Len(Append(out[s], ack)) + 1 = Len(out[s]) + 2
      BY <1>1, Appended
    <3>2. /\ DOMAIN Append(Append(out[s], ack), push) =
                DOMAIN Append(out[s], ack) \cup {Len(out[s]) + 2}
          /\ Append(Append(out[s], ack), push)[Len(out[s]) + 2] = push
          /\ \A k \in DOMAIN Append(out[s], ack) :
                Append(Append(out[s], ack), push)[k] = Append(out[s], ack)[k]
      BY <1>1, <3>1, Appended
    <3> QED
      BY <1>1, <2>1, <3>1, <3>2 DEF InOut
  <2> QED
    BY <1>2, <1>4, <2>1, <2>2 DEF InBox
<1> QED
  BY <1>3, <1>4

LEMMA SpreadStep ==
  ASSUME TypeInv, Spread, NEW s \in Sessions
  PROVE  \A i, p : /\ InStrand(i, p)' => i \in Nat /\ InStrand(i + 1, p) /\ i + 1 # 1
                   /\ InBox(s, i, p)' => \/ InBox(s, i, p)
                                         \/ i = Len(inbox[s]) + 1 /\ InStrand(1, p)
                   /\ InOut(s, i, p)' <=> InOut(s, i, p)
<1>1. /\ strand \in Seq(Tasks) /\ inbox[s] \in Seq(Lines) /\ inbox \in [Sessions -> Seq(Lines)]
      /\ strand # <<>> /\ strand' = Tail(strand) /\ out' = out
  BY DEF TypeInv, TypeOK, Spread
<1>2. 1 \in DOMAIN strand /\ Head(strand) = strand[1]
  BY <1>1, Taken
<1>3. ASSUME NEW i, NEW p, InStrand(i, p)' PROVE i \in Nat /\ InStrand(i + 1, p) /\ i + 1 # 1
  BY <1>1, <1>3, Taken DEF InStrand
<1>4. ASSUME NEW i, NEW p, InBox(s, i, p)'
      PROVE  InBox(s, i, p) \/ (i = Len(inbox[s]) + 1 /\ InStrand(1, p))
  <2>1. CASE inbox'[s] = inbox[s]
    BY <1>4, <2>1 DEF InBox
  <2>2. ASSUME NEW o \in Sends, NEW n \in Seqs, Head(strand) = Broadcast(o, n),
               inbox'[s] = Append(inbox[s], Push(o, n))
        PROVE  InBox(s, i, p) \/ (i = Len(inbox[s]) + 1 /\ InStrand(1, p))
    <3>1. strand[1].task = "broadcast" /\ strand[1].send = o
      BY <1>2, <2>2 DEF Broadcast
    <3>2. Push(o, n) \in Lines /\ Push(o, n).send = o
      BY LinesAre
    <3> QED
      BY <1>1, <1>2, <1>4, <2>2, <3>1, <3>2, Appended DEF InBox, InStrand
  <2> QED
    BY <2>1, <2>2, LinesAre, InboxSent DEF TypeInv, Spread, SendText
<1> QED
  BY <1>1, <1>3, <1>4 DEF InOut

LEMMA DeliverStep ==
  ASSUME TypeInv, LineInv, NEW t \in Sessions, DeliverLine(t), NEW s \in Sessions
  PROVE  /\ \A i, p : InStrand(i, p)' <=> InStrand(i, p)
         /\ s # t => \A i, p : /\ InBox(s, i, p)' <=> InBox(s, i, p)
                               /\ InOut(s, i, p)' <=> InOut(s, i, p)
         /\ s = t => \A i, p : /\ InBox(s, i, p)' => i \in Nat /\ InBox(s, i + 1, p) /\ i + 1 # 1
                               /\ InOut(s, i, p)' => \/ InOut(s, i, p)
                                                     \/ i = Len(out[s]) + 1 /\ InBox(s, 1, p)
<1>1. /\ inbox \in [Sessions -> Seq(Lines)] /\ out[t] \in Seq(Lines)
      /\ strand' = strand /\ inbox' = [inbox EXCEPT ![t] = Tail(@)]
      /\ inbox[t] # <<>> /\ SendTextImpl(t, Head(inbox[t]))
  BY DEF TypeInv, TypeOK, DeliverLine
<1>2. Head(inbox[t]) \in Lines /\ 1 \in DOMAIN inbox[t] /\ Head(inbox[t]) = inbox[t][1]
  BY <1>1, Taken
<1>3. /\ \A u \in Sessions : u # t => out'[u] = out[u]
      /\ out'[t] = out[t] \/ out'[t] = Append(out[t], Head(inbox[t]))
  BY <1>1, <1>2, LineSent DEF TypeInv
<1>4. ASSUME NEW i, NEW p, InBox(t, i, p)' PROVE i \in Nat /\ InBox(t, i + 1, p) /\ i + 1 # 1
  <2>1. inbox'[t] = Tail(inbox[t])
    BY <1>1
  <2> QED
    BY <1>1, <1>4, <2>1, Taken DEF InBox
<1>5. ASSUME NEW i, NEW p, InOut(t, i, p)'
      PROVE  InOut(t, i, p) \/ (i = Len(out[t]) + 1 /\ InBox(t, 1, p))
  <2>1. CASE out'[t] = out[t]
    BY <1>5, <2>1 DEF InOut
  <2>2. CASE out'[t] = Append(out[t], Head(inbox[t]))
    <3>1. /\ DOMAIN out'[t] = DOMAIN out[t] \cup {Len(out[t]) + 1}
          /\ out'[t][Len(out[t]) + 1] = inbox[t][1]
          /\ \A k \in DOMAIN out[t] : out'[t][k] = out[t][k]
      BY <1>1, <1>2, <2>2, Appended
    <3> QED
      BY <1>2, <1>5, <3>1 DEF InOut, InBox
  <2> QED
    BY <1>3, <2>1, <2>2
<1> QED
  BY <1>1, <1>3, <1>4, <1>5 DEF InStrand, InBox, InOut

\* No step lets one push overtake another, but a message of one's own when it is
\* answered.
LEMMA AheadStep ==
  ASSUME TypeInv, LineInv, [Next]_vars, NEW s \in Sessions
  PROVE  /\ \A o : OnWay(s, o)' => \/ OnWay(s, o)
                                   \/ o \in Sends /\ Answer(o)
         /\ \A a, b : Ahead(s, a, b)' =>
               \/ Ahead(s, a, b)
               \/ OnWay(s, a) /\ b \in Sends /\ Answer(b)
               \/ a \in Sends /\ Answer(a) /\ OnWay(s, b) /\ SentOwn(s, a)'
<1>1. \A i, o : /\ InStrand(i, o) => i \in 1..Len(strand)
                /\ InBox(s, i, o) => i \in 1..Len(inbox[s])
                /\ InOut(s, i, o) => i \in 1..Len(out[s])
  BY Places
<1>2. Len(strand) \in Nat /\ Len(inbox[s]) \in Nat /\ Len(out[s]) \in Nat
  BY DEF TypeInv, TypeOK
<1>3. CASE Idle
  BY <1>3, IdleStep DEF OnWay, Ahead
<1>4. ASSUME NEW o \in Sends, AnswerQueued(o)
      PROVE  /\ \A p : OnWay(s, p)' => OnWay(s, p) \/ p = o
             /\ \A a, b : Ahead(s, a, b)' => Ahead(s, a, b) \/ (OnWay(s, a) /\ b = o)
  BY <1>1, <1>2, <1>4, AnswerStep DEF OnWay, Ahead
<1>5. CASE Spread
  BY <1>1, <1>2, <1>5, SpreadStep DEF OnWay, Ahead
<1>6. ASSUME NEW t \in Sessions, DeliverLine(t)
      PROVE  /\ \A p : OnWay(s, p)' => OnWay(s, p)
             /\ \A a, b : Ahead(s, a, b)' => Ahead(s, a, b)
  BY <1>1, <1>2, <1>6, DeliverStep DEF OnWay, Ahead
<1>7. ASSUME NEW o \in Sends, AnswerHere(o)
      PROVE  /\ \A p : OnWay(s, p)' => OnWay(s, p) \/ p = o
             /\ \A a, b : Ahead(s, a, b)' => \/ Ahead(s, a, b)
                                             \/ OnWay(s, a) /\ b = o
                                             \/ a = o /\ OnWay(s, b) /\ SentOwn(s, o)'
  <2>1. CASE s # by[o]
    BY <1>1, <1>2, <1>7, <2>1, HereStep DEF OnWay, Ahead
  <2>2. CASE s = by[o]
    <3>1. by'[o] = s
      BY <1>7, <2>2 DEF AnswerHere, Answering
    <3>2. \A i, p : /\ ~InStrand(i, p) /\ ~InStrand(i, p)'
                    /\ InBox(s, i, p)' <=> InBox(s, i, p)
                    /\ InOut(s, i, p)' => InOut(s, i, p) \/ (i = Len(out[s]) + 2 /\ p = o)
      BY <1>7, <2>2, HereStep
    <3>3. \A p : OnWay(s, p)' => OnWay(s, p) \/ p = o
      BY <3>2 DEF OnWay
    <3>4. ASSUME NEW a, NEW b, Ahead(s, a, b)'
          PROVE  \/ Ahead(s, a, b)
                 \/ OnWay(s, a) /\ b = o
                 \/ a = o /\ OnWay(s, b) /\ SentOwn(s, o)'
      <4>1. PICK i \in Nat, j \in Nat :
               \/ InOut(s, i, a)' /\ InOut(s, j, b)' /\ i < j
               \/ InOut(s, i, a)' /\ InBox(s, j, b)
               \/ InBox(s, i, a) /\ InBox(s, j, b) /\ i < j
        BY <3>2, <3>4 DEF Ahead
      <4>2. CASE InOut(s, i, a)' /\ InOut(s, j, b)' /\ i < j
        BY <1>1, <1>2, <3>2, <4>2 DEF OnWay, Ahead
      <4>3. CASE InOut(s, i, a)' /\ InBox(s, j, b)
        BY <3>1, <3>2, <4>3 DEF OnWay, Ahead, SentOwn
      <4>4. CASE InBox(s, i, a) /\ InBox(s, j, b) /\ i < j
        BY <4>4 DEF Ahead
      <4> QED
        BY <4>1, <4>2, <4>3, <4>4
    <3> QED
      BY <3>3, <3>4
  <2> QED
    BY <2>1, <2>2
<1> QED
  BY <1>3, <1>4, <1>5, <1>6, <1>7, QueueStep DEF TypeInv, Answer

-----------------------------------------------------------------------------
(* Types *)

ConnTypes ==
    /\ conn \in [Sessions -> {"none", "open", "closing", "ended"}]
    /\ auth \subseteq Sessions /\ socket \subseteq Sessions
    /\ timedOut \subseteq Sessions /\ registered \subseteq Sessions

\* A session gets a socket once, and is never again without a connection.
LEMMA ConnStep ==
  ASSUME TypeInv, [Next]_vars
  PROVE  /\ ConnTypes'
         /\ \A s \in Sessions : /\ s \in socket' => s \in socket \/ conn[s] = "none"
                                /\ conn[s] # "none" => conn'[s] # "none"
<1>1. /\ ConnTypes /\ strand \in Seq(Tasks) /\ inbox \in [Sessions -> Seq(Lines)]
      /\ seen \in [Sends -> Seqs]
  BY DEF TypeInv, TypeOK, ConnTypes
<1> USE DEF ConnTypes
<1>2. CASE UNCHANGED <<connVars, registered>> /\ socket' \subseteq socket
  BY <1>1, <1>2 DEF connVars
<1>3. ASSUME NEW s \in Sessions, Accept(s) \/ Login(s) \/ ReadError(s) \/ StopWaiting(s)
      PROVE  /\ ConnTypes'
             /\ \A t \in Sessions : /\ t \in socket' => t \in socket \/ conn[t] = "none"
                                    /\ conn[t] # "none" => conn'[t] # "none"
  <2>1. CASE Accept(s)
    BY <1>1, <2>1 DEF Accept
  <2>2. CASE Login(s)
    BY <1>1, <2>2 DEF Login, lineVars
  <2>3. CASE ReadError(s)
    BY <1>1, <2>3 DEF ReadError, lineVars
  <2>4. CASE StopWaiting(s)
    BY <1>1, <2>4 DEF StopWaiting, lineVars
  <2> QED
    BY <1>3, <2>1, <2>2, <2>3, <2>4
<1>4. ASSUME NEW s \in Sessions, DeliverLine(s)
      PROVE  UNCHANGED <<connVars, registered>> /\ socket' \subseteq socket
  BY <1>4 DEF DeliverLine, SendTextImpl, lineVars
<1>5. ASSUME NEW s \in Sessions, NEW o \in Sends, Submit(s, o)
      PROVE  UNCHANGED <<connVars, registered>> /\ socket' \subseteq socket
  BY <1>5 DEF Submit, lineVars
<1>6. ASSUME NEW o \in Sends, Send(o) \/ Fail(o)
      PROVE  UNCHANGED <<connVars, registered>> /\ socket' \subseteq socket
  <2>1. CASE Reply(o)
    <3>1. ASSUME NEW s, NEW x, NEW y, SendTextImpl(s, x) \/ SendTextImplTwice(s, x, y)
          PROVE  socket' \subseteq socket
      BY <3>1 DEF SendTextImpl, SendTextImplTwice, lineVars
    <3>2. socket' \subseteq socket
      BY <2>1, <3>1 DEF Reply, AckAndQueue, AckAndBroadcast, lineVars
    <3> QED
      BY <2>1, <3>2 DEF Reply
  <2> QED
    BY <1>6, <2>1 DEF Send, Start, Check, Insert, ReadSeq, Fail, lineVars
<1>7. CASE RunStrand
  <2>1. Head(strand) \in Tasks /\ UNCHANGED <<connVars, lineVars>>
    BY <1>1, <1>7, Taken DEF RunStrand
  <2>2. Head(strand).task \in {"register", "remove"} => Head(strand).session \in Sessions
    BY <2>1, TasksAre
  <2>3. registered' \subseteq Sessions
    BY <1>1, <1>7, <2>2 DEF RunStrand
  <2> QED
    BY <1>1, <2>1, <2>3 DEF connVars, lineVars
<1>8. CASE Dissolve \/ UNCHANGED vars
  BY <1>2, <1>8 DEF Dissolve, vars, lineVars
<1> QED
  BY <1>2, <1>3, <1>4, <1>5, <1>6, <1>7, <1>8 DEF Next

\* A line is a session's for good, and so is what the session had heard by then.
LEMMA ReadStep ==
  ASSUME TypeInv, [Next]_vars
  PROVE  /\ pc' \in [Sends -> Steps]
         /\ by' \in [Sends -> Sessions \cup {NoSession}] /\ ReadByOne'
         /\ after' \in [Sends -> SUBSET Sends]
         /\ \/ after' = after
            \/ \E s \in Sessions, o \in Sends :
                  /\ pc[o] = "unsent" /\ UNCHANGED <<seqOf, out>>
                  /\ after' = [after EXCEPT ![o] = Acked(s)]
         /\ \A o \in Sends : by'[o] = by[o] \/ (pc[o] = "unsent" /\ pc'[o] # "unsent")
<1>1. /\ pc \in [Sends -> Steps] /\ by \in [Sends -> Sessions \cup {NoSession}]
      /\ after \in [Sends -> SUBSET Sends] /\ ReadByOne
      /\ conn \in [Sessions -> {"none", "open", "closing", "ended"}]
  BY DEF TypeInv, TypeOK
<1>2. \A s \in Sessions : conn[s] # "none" => conn'[s] # "none"
  BY ConnStep
<1>3. CASE UNCHANGED <<pc, by, after>>
  BY <1>1, <1>2, <1>3 DEF ReadByOne
<1>4. ASSUME NEW s \in Sessions, NEW o \in Sends, Submit(s, o)
      PROVE  /\ pc' \in [Sends -> Steps]
             /\ by' \in [Sends -> Sessions \cup {NoSession}] /\ ReadByOne'
             /\ after' \in [Sends -> SUBSET Sends]
             /\ pc[o] = "unsent" /\ UNCHANGED <<seqOf, out>>
             /\ after' = [after EXCEPT ![o] = Acked(s)]
             /\ \A p \in Sends : by'[p] = by[p] \/ (pc[p] = "unsent" /\ pc'[p] # "unsent")
  <2>1. /\ conn[s] = "open" /\ conn' = conn /\ pc[o] = "unsent"
        /\ pc' = [pc EXCEPT ![o] = "spawned"] /\ by' = [by EXCEPT ![o] = s]
        /\ after' = [after EXCEPT ![o] = Acked(s)] /\ UNCHANGED <<seqOf, out>>
    BY <1>4 DEF Submit, connVars, lineVars
  <2>2. Acked(s) \subseteq Sends
    BY DEF Acked
  <2> QED
    BY <1>1, <2>1, <2>2 DEF Steps, ReadByOne
<1>5. ASSUME NEW o \in Sends, Send(o) \/ Fail(o)
      PROVE  /\ pc' \in [Sends -> Steps] /\ UNCHANGED <<by, after>> /\ ReadByOne'
  <2>1. UNCHANGED <<by, after, conn>> /\ pc[o] # "unsent"
    BY <1>5, SendStep DEF TypeInv
  <2>2. /\ pc' \in [Sends -> Steps] /\ pc'[o] # "unsent"
        /\ \A p \in Sends : p # o => pc'[p] = pc[p]
    BY <1>5, StepTo DEF TypeInv
  <2> QED
    BY <1>1, <2>1, <2>2 DEF ReadByOne
<1>6. ASSUME NEW s \in Sessions,
             Accept(s) \/ Login(s) \/ ReadError(s) \/ StopWaiting(s) \/ DeliverLine(s)
      PROVE  UNCHANGED <<pc, by, after>>
  BY <1>6 DEF Accept, Login, ReadError, StopWaiting, DeliverLine, sendVars, histories
<1>7. CASE RunStrand \/ Dissolve \/ UNCHANGED vars
  BY <1>3, <1>7 DEF RunStrand, Dissolve, sendVars, histories, vars
<1> QED
  BY <1>1, <1>3, <1>4, <1>5, <1>6, <1>7 DEF Next

LEMMA TypeStep ==
  ASSUME TypeInv, RowInv, SeqDense, [Next]_vars
  PROVE  TypeInv'
<1>1. exists' \in BOOLEAN
  BY SeqStep DEF TypeInv, TypeOK
<1>2. seqOf' \in [Sends -> Seqs] /\ seen' \in [Sends -> Seqs]
  BY SeqStep, RowStep DEF TypeInv
<1>3. /\ pending' \in [Sessions -> 0..Cardinality(Sends)] /\ Counted'
  BY CountStep
<1>4. /\ strand' \in Seq(Tasks) /\ inbox' \in [Sessions -> Seq(Lines)]
      /\ out' \in [Sessions -> Seq(Lines)] /\ announced' \in Seq(Sends)
  BY QueueTypes
<1>5. /\ pc' \in [Sends -> Steps] /\ by' \in [Sends -> Sessions \cup {NoSession}] /\ ReadByOne'
      /\ after' \in [Sends -> SUBSET Sends]
  BY ReadStep
<1>6. ConnTypes'
  BY ConnStep
<1> QED
  BY <1>1, <1>2, <1>3, <1>4, <1>5, <1>6 DEF TypeInv, TypeOK, ConnTypes

-----------------------------------------------------------------------------
(* Draining *)

\* run() goes on to the removal with nothing pending, or has timed out; it
\* reads no more lines.
LEMMA DrainStep ==
  ASSUME TypeInv, DrainedBeforeRemoval, [Next]_vars
  PROVE  DrainedBeforeRemoval'
<1>1. /\ pc \in [Sends -> Steps] /\ by \in [Sends -> Sessions \cup {NoSession}]
      /\ conn \in [Sessions -> {"none", "open", "closing", "ended"}]
      /\ Counted /\ ReadByOne
  BY DEF TypeInv, TypeOK
<1>2. CASE UNCHANGED <<connVars, pc, by>>
  BY <1>2 DEF connVars, DrainedBeforeRemoval
<1>3. ASSUME NEW s \in Sessions, StopWaiting(s) PROVE DrainedBeforeRemoval'
  <2>1. /\ conn' = [conn EXCEPT ![s] = "ended"] /\ UNCHANGED <<pc, by>>
        /\ timedOut' = IF pending[s] > 0 THEN timedOut \cup {s} ELSE timedOut
    BY <1>3 DEF StopWaiting, sendVars
  <2>2. s \notin timedOut' => \A o \in Sends : by[o] = s => pc[o] = "done"
    <3> SUFFICES ASSUME s \notin timedOut', NEW o \in Sends, by[o] = s PROVE pc[o] = "done"
      OBVIOUS
    <3>1. IsFiniteSet(Running(s)) /\ Cardinality(Running(s)) \in Nat
      BY RunningFinite, FS_CardinalityType
    <3>2. Cardinality(Running(s)) = 0
      BY <1>1, <2>1, <3>1 DEF Counted
    <3>3. Running(s) = {}
      BY <3>1, <3>2, FS_EmptySet
    <3>4. pc[o] # "unsent"
      BY <1>1 DEF ReadByOne
    <3> QED
      BY <1>1, <3>3, <3>4 DEF Running
  <2> QED
    BY <1>1, <2>1, <2>2 DEF DrainedBeforeRemoval
<1>4. ASSUME NEW s \in Sessions, NEW o \in Sends, Submit(s, o) PROVE DrainedBeforeRemoval'
  <2>1. /\ conn[s] = "open" /\ UNCHANGED <<conn, timedOut>>
        /\ pc' = [pc EXCEPT ![o] = "spawned"] /\ by' = [by EXCEPT ![o] = s]
    BY <1>4 DEF Submit, connVars
  <2> QED
    BY <1>1, <2>1 DEF DrainedBeforeRemoval
<1>5. ASSUME NEW o \in Sends, Send(o) \/ Fail(o) PROVE DrainedBeforeRemoval'
  <2>1. UNCHANGED <<conn, timedOut, by>> /\ pc[o] \notin {"unsent", "done"}
    BY <1>5, SendStep DEF TypeInv
  <2>2. \A p \in Sends : p # o => pc'[p] = pc[p]
    BY <1>5, StepTo DEF TypeInv
  <2> QED
    BY <1>1, <2>1, <2>2 DEF DrainedBeforeRemoval
<1>6. ASSUME NEW s \in Sessions, Accept(s) \/ ReadError(s) PROVE DrainedBeforeRemoval'
  <2>1. /\ conn'[s] # "ended" /\ UNCHANGED <<pc, by, timedOut>>
        /\ \A t \in Sessions : t # s => conn'[t] = conn[t]
    BY <1>1, <1>6 DEF Accept, ReadError, sendVars
  <2> QED
    BY <2>1 DEF DrainedBeforeRemoval
<1>7. ASSUME NEW s \in Sessions, Login(s) \/ DeliverLine(s) PROVE DrainedBeforeRemoval'
  BY <1>7 DEF Login, DeliverLine, sendVars, connVars, DrainedBeforeRemoval
<1>8. CASE RunStrand \/ Dissolve \/ UNCHANGED vars
  BY <1>2, <1>8 DEF RunStrand, Dissolve, sendVars, vars
<1> QED
  BY <1>3, <1>4, <1>5, <1>6, <1>7, <1>8 DEF Next

-----------------------------------------------------------------------------
(* Order *)

LEMMA AckedDone ==
  ASSUME TypeInv, LineInv, NEW s \in Sessions, NEW a \in Acked(s)
  PROVE  a \in Sends /\ pc[a] = "done"
<1>1. a \in Sends
  BY DEF Acked
<1>2. PICK i \in DOMAIN out[s] : out[s][i].send = a
  BY DEF Acked
<1> QED
  BY <1>1, <1>2 DEF LineInv, LineOK

LEMMA AfterStep ==
  ASSUME TypeInv, RowInv, SeqDense, LineInv, AfterInv, [Next]_vars
  PROVE  AfterInv'
<1>1. /\ seqOf \in [Sends -> Seqs] /\ seqOf' \in [Sends -> Seqs]
      /\ after \in [Sends -> SUBSET Sends] /\ after' \in [Sends -> SUBSET Sends]
  BY SeqStep, ReadStep DEF TypeInv, TypeOK
<1> SUFFICES ASSUME NEW o \in Sends, NEW a \in after'[o]
             PROVE  pc'[a] = "done" /\ a # o /\ (seqOf'[o] # 0 => seqOf'[a] < seqOf'[o])
  BY DEF AfterInv
<1>2. pc[a] = "done" /\ a # o /\ (seqOf[o] # 0 => seqOf[a] < seqOf[o]) /\ a \in Sends
  <2>1. CASE a \in after[o]
    BY <1>1, <2>1 DEF AfterInv
  <2>2. ASSUME NEW s \in Sessions, pc[o] = "unsent", a \in Acked(s)
        PROVE  pc[a] = "done" /\ a # o /\ (seqOf[o] # 0 => seqOf[a] < seqOf[o]) /\ a \in Sends
    BY <2>2, AckedDone DEF RowInv
  <2> QED
    BY <1>1, <2>1, <2>2, ReadStep
<1>3. pc'[a] = "done"
  BY <1>2, DoneStays DEF TypeInv
<1>4. ASSUME seqOf'[o] # 0 PROVE seqOf'[a] < seqOf'[o]
  <2>1. CASE seqOf' = seqOf
    BY <1>2, <1>4, <2>1
  <2>2. ASSUME NEW p \in Sends, Insert(p), seqOf' = [seqOf EXCEPT ![p] = NextSeq]
        PROVE  seqOf'[a] < seqOf'[o]
    <3>1. a # p
      BY <1>2, <2>2 DEF Insert
    <3>2. seqOf[a] < NextSeq
      BY <1>2, Numbering DEF TypeInv
    <3> QED
      BY <1>1, <1>2, <1>4, <2>2, <3>1, <3>2
  <2> QED
    BY <1>4, <2>1, <2>2, SeqStep DEF TypeInv
<1> QED
  BY <1>2, <1>3, <1>4

LEMMA OnWayDone ==
  ASSUME TypeInv, LineInv, NEW s \in Sessions, NEW o, OnWay(s, o)
  PROVE  o \in Sends /\ pc[o] = "done"
BY Places DEF OnWay

LEMMA AheadOnWay ==
  ASSUME NEW s, NEW a, NEW b, Ahead(s, a, b)
  PROVE  OnWay(s, a) /\ OnWay(s, b)
BY DEF Ahead, OnWay

LEMMA WayStep ==
  ASSUME TypeInv, LineInv, WayInv, [Next]_vars
  PROVE  WayInv'
<1> SUFFICES ASSUME NEW s \in Sessions, NEW o \in Sends, Ahead(s, o, o)' PROVE FALSE
  BY DEF WayInv
<1>1. OnWay(s, o) /\ Answer(o)
  BY AheadStep DEF WayInv
<1> QED
  BY <1>1, OnWayDone DEF Answer, AnswerQueued, AnswerHere, Answering

-----------------------------------------------------------------------------
(* Acks *)

\* The lines that are sent to a session, if any.
LEMMA OutStep ==
  ASSUME TypeInv, LineInv, [Next]_vars, NEW s \in Sessions
  PROVE  \/ out'[s] = out[s]
         \/ \E o \in Sends : /\ Answer(o) /\ by[o] = s
                             /\ Ack(o, seen[o]) \in Lines /\ Push(o, seen[o]) \in Lines
                             /\ \/ out'[s] = Append(out[s], Ack(o, seen[o]))
                                \/ out'[s] = Append(Append(out[s], Ack(o, seen[o])), Push(o, seen[o]))
         \/ \E line \in Lines : /\ s \in socket /\ OnWay(s, line.send) /\ line.kind = "push"
                                /\ out'[s] = Append(out[s], line) /\ UNCHANGED by
<1>1. ASSUME NEW o \in Sends, Answer(o)
      PROVE  \/ out'[s] = out[s]
             \/ /\ by[o] = s
                /\ Ack(o, seen[o]) \in Lines /\ Push(o, seen[o]) \in Lines
                /\ \/ out'[s] = Append(out[s], Ack(o, seen[o]))
                   \/ out'[s] = Append(Append(out[s], Ack(o, seen[o])), Push(o, seen[o]))
  <2>1. by[o] \in Sessions /\ Ack(o, seen[o]) \in Lines /\ Push(o, seen[o]) \in Lines
    BY <1>1, LinesAre DEF TypeInv, TypeOK, ReadByOne, Answer, AnswerQueued, AnswerHere, Answering
  <2>2. CASE AnswerQueued(o)
    BY <2>1, <2>2, LineSent DEF TypeInv, AnswerQueued
  <2>3. CASE AnswerHere(o)
    BY <2>1, <2>3, Here
  <2> QED
    BY <1>1, <2>2, <2>3 DEF Answer
<1>2. ASSUME NEW t \in Sessions, DeliverLine(t)
      PROVE  \/ out'[s] = out[s]
             \/ \E line \in Lines : /\ s \in socket /\ OnWay(s, line.send) /\ line.kind = "push"
                                    /\ out'[s] = Append(out[s], line) /\ UNCHANGED by
  <2>1. /\ inbox[t] \in Seq(Lines) /\ inbox[t] # <<>> /\ SendTextImpl(t, Head(inbox[t]))
        /\ UNCHANGED by
    BY <1>2 DEF DeliverLine, sendVars, TypeInv, TypeOK
  <2>2. Head(inbox[t]) \in Lines /\ 1 \in DOMAIN inbox[t] /\ Head(inbox[t]) = inbox[t][1]
    BY <2>1, Taken
  <2>3. OnWay(t, Head(inbox[t]).send) /\ Head(inbox[t]).kind = "push"
    BY <2>2 DEF OnWay, InBox, LineInv
  <2> QED
    BY <2>1, <2>2, <2>3, LineSent DEF TypeInv
<1> QED
  BY <1>1, <1>2, QueueStep DEF Idle, Spread, TypeInv

\* What has been sent is not taken back.
LEMMA OutGrows ==
  ASSUME TypeInv, LineInv, [Next]_vars, NEW s \in Sessions
  PROVE  /\ \A i \in DOMAIN out[s] : i \in DOMAIN out'[s] /\ out'[s][i] = out[s][i]
         /\ Acked(s) \subseteq Acked(s)'
<1>1. out[s] \in Seq(Lines)
  BY DEF TypeInv, TypeOK
<1>2. \A i \in DOMAIN out[s] : i \in DOMAIN out'[s] /\ out'[s][i] = out[s][i]
  <2>1. ASSUME NEW line \in Lines, out'[s] = Append(out[s], line),
               NEW i \in DOMAIN out[s]
        PROVE  i \in DOMAIN out'[s] /\ out'[s][i] = out[s][i]
    BY <1>1, <2>1, Appended
  <2>2. ASSUME NEW x \in Lines, NEW y \in Lines, out'[s] = Append(Append(out[s], x), y),
               NEW i \in DOMAIN out[s]
        PROVE  i \in DOMAIN out'[s] /\ out'[s][i] = out[s][i]
    BY <1>1, <2>2, AppendedTwice
  <2> QED
    BY <2>1, <2>2, OutStep
<1> QED
  BY <1>2 DEF Acked

LEMMA AckStep ==
  ASSUME TypeInv, RowInv, SeqDense, LineInv, AckInv, [Next]_vars
  PROVE  AckInv'
<1>1. \A s \in Sessions : out[s] \in Seq(Lines)
  BY DEF TypeInv, TypeOK
<1>2. ASSUME NEW s \in Sessions, NEW o \in Sends, by'[o] = s, OnWay(s, o)'
      PROVE  s \notin socket' \/ o \in Acked(s)'
  <2>1. CASE OnWay(s, o)
    <3>1. pc[o] = "done" /\ by[o] = s
      BY <1>2, <2>1, OnWayDone, DoneStays DEF TypeInv
    <3>2. s \notin socket \/ o \in Acked(s)
      BY <2>1, <3>1 DEF AckInv
    <3>3. s \in socket' => s \in socket
      BY <3>1, ConnStep DEF TypeInv, ReadByOne
    <3> QED
      BY <3>2, <3>3, OutGrows
  <2>2. CASE Answer(o)
    <3>1. /\ by[o] = s /\ seen[o] \in Seqs
          /\ Ack(o, seen[o]) \in Lines /\ Push(o, seen[o]) \in Lines
      BY <1>2, <2>2, LinesAre DEF Answer, AnswerQueued, AnswerHere, Answering, TypeInv, TypeOK
    <3>2. CASE \/ out'[s] = Append(out[s], Ack(o, seen[o]))
               \/ out'[s] = Append(Append(out[s], Ack(o, seen[o])), Push(o, seen[o]))
      <4>1. LET i == Len(out[s]) + 1 IN
            i \in DOMAIN out'[s] /\ out'[s][i] = Ack(o, seen[o])
        BY <1>1, <3>1, <3>2, Appended, AppendedTwice
      <4> QED
        BY <3>1, <4>1, LinesAre DEF Acked
    <3>3. CASE AnswerQueued(o)
      BY <3>1, <3>2, <3>3, LineSent DEF TypeInv, AnswerQueued
    <3>4. CASE AnswerHere(o)
      BY <3>1, <3>2, <3>4, Here
    <3> QED
      BY <2>2, <3>3, <3>4 DEF Answer
  <2> QED
    BY <1>2, <2>1, <2>2, AheadStep
<1>3. ASSUME NEW s \in Sessions, NEW i \in DOMAIN out'[s], NEW j \in DOMAIN out'[s],
             out'[s][i].send = out'[s][j].send, out'[s][i].kind = "ack"
      PROVE  /\ out'[s][j].kind = "ack" => i = j
             /\ out'[s][j].kind = "push" => i < j
  <2>1. CASE out'[s] = out[s]
    BY <1>3, <2>1 DEF AckInv
  <2>2. ASSUME NEW o \in Sends, Answer(o), out'[s] = Append(out[s], Ack(o, seen[o])),
               Ack(o, seen[o]) \in Lines
        PROVE  /\ out'[s][j].kind = "ack" => i = j
               /\ out'[s][j].kind = "push" => i < j
    <3>1. \A k \in DOMAIN out[s] : out[s][k].send # o
      BY <2>2 DEF Answer, AnswerQueued, AnswerHere, Answering, LineInv, LineOK
    <3>2. Ack(o, seen[o]).kind = "ack" /\ Ack(o, seen[o]).send = o
      BY DEF Ack
    <3>3. /\ DOMAIN out'[s] = DOMAIN out[s] \cup {Len(out[s]) + 1}
          /\ out'[s][Len(out[s]) + 1] = Ack(o, seen[o])
          /\ \A k \in DOMAIN out[s] : out'[s][k] = out[s][k]
      BY <1>1, <2>2, Appended
    <3> QED
      BY <1>3, <3>1, <3>2, <3>3 DEF AckInv
  <2>4. ASSUME NEW o \in Sends, Answer(o),
               Ack(o, seen[o]) \in Lines, Push(o, seen[o]) \in Lines,
               out'[s] = Append(Append(out[s], Ack(o, seen[o])), Push(o, seen[o]))
        PROVE  /\ out'[s][j].kind = "ack" => i = j
               /\ out'[s][j].kind = "push" => i < j
    <3>1. \A k \in DOMAIN out[s] : out[s][k].send # o
      BY <2>4 DEF Answer, AnswerQueued, AnswerHere, Answering, LineInv, LineOK
    <3>2. /\ Ack(o, seen[o]).kind = "ack" /\ Ack(o, seen[o]).send = o
          /\ Push(o, seen[o]).kind = "push" /\ Push(o, seen[o]).send = o
      BY DEF Ack, Push
    <3>3. /\ DOMAIN out'[s] = DOMAIN out[s] \cup {Len(out[s]) + 1, Len(out[s]) + 2}
          /\ out'[s][Len(out[s]) + 1] = Ack(o, seen[o]) /\ Len(out[s]) \in Nat
          /\ out'[s][Len(out[s]) + 2] = Push(o, seen[o])
          /\ \A k \in DOMAIN out[s] : out'[s][k] = out[s][k]
      BY <1>1, <2>4, AppendedTwice
    <3> QED
      BY <1>3, <3>1, <3>2, <3>3 DEF AckInv
  <2>3. ASSUME NEW line \in Lines, line.kind = "push", out'[s] = Append(out[s], line)
        PROVE  /\ out'[s][j].kind = "ack" => i = j
               /\ out'[s][j].kind = "push" => i < j
    <3>1. /\ DOMAIN out'[s] = DOMAIN out[s] \cup {Len(out[s]) + 1}
          /\ DOMAIN out[s] = 1..Len(out[s]) /\ Len(out[s]) \in Nat
          /\ out'[s][Len(out[s]) + 1] = line
          /\ \A k \in DOMAIN out[s] : out'[s][k] = out[s][k]
      BY <1>1, <2>3, Appended
    <3> QED
      BY <1>3, <2>3, <3>1 DEF AckInv
  <2> QED
    BY <2>1, <2>2, <2>3, <2>4, OutStep
<1>4. ASSUME NEW s \in Sessions, NEW i \in DOMAIN out'[s],
             out'[s][i].kind = "push", by'[out'[s][i].send] = s
      PROVE  out'[s][i].send \in Acked(s)'
  <2>1. ASSUME i \in DOMAIN out[s], out'[s][i] = out[s][i] PROVE out'[s][i].send \in Acked(s)'
    <3>1. out[s][i].send \in Sends /\ pc[out[s][i].send] = "done"
      <4>1. out[s][i] \in Lines
        BY <1>1, <2>1
      <4> QED
        BY <2>1, <4>1 DEF LineInv, LineOK, Lines
    <3>2. by[out[s][i].send] = s
      BY <1>4, <2>1, <3>1, DoneStays DEF TypeInv
    <3>3. out[s][i].send \in Acked(s)
      BY <1>4, <2>1, <3>2 DEF AckInv
    <3> QED
      BY <2>1, <3>3, OutGrows
  <2>2. CASE \E o \in Sends : /\ out'[s] = Append(out[s], Ack(o, seen[o]))
                              /\ Ack(o, seen[o]) \in Lines
    BY <1>1, <1>4, <2>1, <2>2, Appended DEF Ack
  <2>4. ASSUME NEW o \in Sends, Ack(o, seen[o]) \in Lines, Push(o, seen[o]) \in Lines,
               out'[s] = Append(Append(out[s], Ack(o, seen[o])), Push(o, seen[o]))
        PROVE  out'[s][i].send \in Acked(s)'
    <3>1. /\ DOMAIN out'[s] = DOMAIN out[s] \cup {Len(out[s]) + 1, Len(out[s]) + 2}
          /\ out'[s][Len(out[s]) + 1] = Ack(o, seen[o])
          /\ out'[s][Len(out[s]) + 2] = Push(o, seen[o])
          /\ \A k \in DOMAIN out[s] : out'[s][k] = out[s][k]
      BY <1>1, <2>4, AppendedTwice
    <3>2. CASE i \in DOMAIN out[s]
      BY <2>1, <3>1, <3>2
    <3>3. o \in Acked(s)'
      BY <3>1 DEF Acked, Ack
    <3> QED
      BY <3>1, <3>2, <3>3 DEF Ack, Push
  <2>3. ASSUME NEW line \in Lines, s \in socket, OnWay(s, line.send),
               out'[s] = Append(out[s], line), UNCHANGED by
        PROVE  out'[s][i].send \in Acked(s)'
    <3>1. CASE i \in DOMAIN out[s]
      BY <1>1, <2>1, <2>3, <3>1, Appended
    <3>2. CASE out'[s][i] = line
      <4>1. line.send \in Acked(s)
        BY <1>4, <2>3, <3>2 DEF AckInv, Lines
      <4> QED
        BY <3>2, <4>1, OutGrows
    <3> QED
      BY <1>1, <2>3, <3>1, <3>2, Appended
  <2> QED
    BY <2>1, <2>2, <2>3, <2>4, OutStep
<1> QED
  BY <1>2, <1>3, <1>4 DEF AckInv

-----------------------------------------------------------------------------
(* The life of a session *)

LEMMA TakenAll ==
  ASSUME NEW S, NEW q \in Seq(S), q # <<>>
  PROVE  \A i \in Nat : i \in DOMAIN Tail(q) <=> i # 0 /\ i + 1 \in DOMAIN q
  OBVIOUS

LEMMA RegistersStep ==
  ASSUME TypeInv, NEW s
  PROVE  /\ strand' = strand => \A i \in Nat : Registers(s, i)' <=> Registers(s, i)
         /\ \A t \in Tasks : strand' = Append(strand, t) =>
               \A i \in Nat : Registers(s, i)' <=>
                  \/ Registers(s, i)
                  \/ i = Len(strand) + 1 /\ t.task = "register" /\ t.session = s
         /\ strand # <<>> /\ strand' = Tail(strand) =>
               \A i \in Nat : Registers(s, i)' <=> i # 0 /\ Registers(s, i + 1)
<1>1. strand \in Seq(Tasks)
  BY DEF TypeInv, TypeOK
<1>2. ASSUME NEW t \in Tasks, strand' = Append(strand, t), NEW i \in Nat
      PROVE  Registers(s, i)' <=>
                \/ Registers(s, i)
                \/ i = Len(strand) + 1 /\ t.task = "register" /\ t.session = s
  <2>1. /\ DOMAIN strand' = DOMAIN strand \cup {Len(strand) + 1}
        /\ strand'[Len(strand) + 1] = t
        /\ \A k \in DOMAIN strand : strand'[k] = strand[k]
        /\ Len(strand) + 1 \notin DOMAIN strand
    BY <1>1, <1>2, Appended
  <2>2. CASE i \in DOMAIN strand
    <3>1. i \in DOMAIN strand' /\ strand'[i] = strand[i] /\ i # Len(strand) + 1
      BY <2>1, <2>2
    <3> QED
      BY <2>2, <3>1 DEF Registers
  <2>3. CASE i = Len(strand) + 1
    BY <2>1, <2>3 DEF Registers
  <2>4. CASE i \notin DOMAIN strand /\ i # Len(strand) + 1
    BY <2>1, <2>4 DEF Registers
  <2> QED
    BY <2>2, <2>3, <2>4
<1>3. ASSUME strand # <<>>, strand' = Tail(strand), NEW i \in Nat
      PROVE  Registers(s, i)' <=> i # 0 /\ Registers(s, i + 1)
  BY <1>1, <1>3, Taken, TakenAll DEF Registers
<1> QED
  BY <1>2, <1>3 DEF Registers

\* Nothing but a broadcast is queued, and no session comes or goes.
LEMMA LifeKept ==
  ASSUME TypeInv, LifeInv, UNCHANGED <<conn, registered, auth>>,
         strand' = strand \/ \E o \in Sends, n \in Seqs : strand' = Append(strand, Broadcast(o, n))
  PROVE  (\A s \in Sessions : LifeOf(s)') /\ RemovedEnded'
<1>1. strand \in Seq(Tasks)
  BY DEF TypeInv, TypeOK
<1>2. ASSUME NEW o \in Sends, NEW n \in Seqs
      PROVE  Broadcast(o, n) \in Tasks /\ Broadcast(o, n).task = "broadcast"
  BY TasksAre DEF Broadcast
<1>3. ASSUME NEW s \in Sessions, NEW i \in Nat PROVE Registers(s, i)' <=> Registers(s, i)
  BY <1>2, RegistersStep
<1>4. RemovedEnded'
  <2>1. ASSUME NEW o \in Sends, NEW n \in Seqs, strand' = Append(strand, Broadcast(o, n))
        PROVE  RemovedEnded'
    BY <1>1, <1>2, <2>1, Appended DEF LifeInv, RemovedEnded
  <2> QED
    BY <2>1 DEF LifeInv, RemovedEnded
<1> QED
  BY <1>3, <1>4 DEF LifeInv, LifeOf

\* Sessions other than s, and a task of s queued.
LEMMA LifeOthers ==
  ASSUME TypeInv, LifeInv, NEW s \in Sessions, NEW t \in Tasks,
         strand' = strand \/ (strand' = Append(strand, t) /\ t.task # "broadcast" /\ t.session = s),
         UNCHANGED registered,
         \A u \in Sessions : u # s => conn'[u] = conn[u] /\ (u \in auth' <=> u \in auth)
  PROVE  \A u \in Sessions : u # s => LifeOf(u)'
<1>1. ASSUME NEW u \in Sessions, u # s, NEW i \in Nat PROVE Registers(u, i)' <=> Registers(u, i)
  BY <1>1, RegistersStep
<1> QED
  BY <1>1 DEF LifeInv, LifeOf

LEMMA LifeStep ==
  ASSUME TypeInv, LifeInv, [Next]_vars
  PROVE  LifeInv'
<1>1. /\ strand \in Seq(Tasks) /\ auth \subseteq Sessions /\ seen \in [Sends -> Seqs]
      /\ conn \in [Sessions -> {"none", "open", "closing", "ended"}]
      /\ pc \in [Sends -> Steps] /\ by \in [Sends -> Sessions \cup {NoSession}]
      /\ Len(strand) \in Nat
  BY DEF TypeInv, TypeOK
<1>2. CASE /\ UNCHANGED <<conn, registered, auth, strand>>
           /\ SendersIn'
  BY <1>2, LifeKept DEF LifeInv
<1>3. CASE UNCHANGED <<conn, registered, auth, strand, pc, by>>
  BY <1>2, <1>3 DEF LifeInv, SendersIn
<1>4. ASSUME NEW s \in Sessions, Accept(s) PROVE LifeInv'
  <2> DEFINE t == [task |-> "register", session |-> s]
  <2>1. t \in Tasks /\ t.task = "register" /\ t.session = s
    BY TasksAre
  <2> HIDE DEF t
  <2>2. /\ conn[s] = "none" /\ conn' = [conn EXCEPT ![s] = "open"]
        /\ strand' = Append(strand, t) /\ UNCHANGED <<registered, auth, pc, by>>
    BY <1>4 DEF Accept, sendVars, t
  <2>3. \A u \in Sessions : u # s => LifeOf(u)'
    BY <1>1, <2>1, <2>2, LifeOthers
  <2>4. \A i \in Nat : Registers(s, i)' <=> i = Len(strand) + 1
    BY <2>1, <2>2, RegistersStep DEF LifeInv, LifeOf
  <2>5. LifeOf(s)'
    BY <1>1, <2>2, <2>4 DEF LifeInv, LifeOf
  <2>6. RemovedEnded'
    BY <1>1, <2>1, <2>2, Appended DEF LifeInv, RemovedEnded, LifeOf
  <2> QED
    BY <2>2, <2>3, <2>5, <2>6 DEF LifeInv, SendersIn
<1>5. ASSUME NEW s \in Sessions, Login(s) \/ ReadError(s) PROVE LifeInv'
  <2>1. /\ conn[s] = "open" /\ conn'[s] \in {"open", "closing"} /\ auth \subseteq auth'
        /\ UNCHANGED <<registered, strand, pc, by>>
        /\ \A u \in Sessions : u # s => conn'[u] = conn[u] /\ (u \in auth' <=> u \in auth)
    BY <1>1, <1>5 DEF Login, ReadError, sendVars
  <2>2. \A u \in Sessions : u # s => LifeOf(u)'
    BY <2>1, LifeOthers, TasksAre
  <2>3. \A i \in Nat : Registers(s, i)' <=> Registers(s, i)
    BY <2>1, RegistersStep
  <2>4. LifeOf(s)'
    BY <2>1, <2>3 DEF LifeInv, LifeOf
  <2>5. RemovedEnded'
    <3>1. ASSUME NEW i \in DOMAIN strand, strand[i].task = "remove"
          PROVE  conn'[strand[i].session] = "ended"
      <4>1. strand[i] \in Tasks
        BY <1>1
      <4>2. strand[i].session \in Sessions /\ conn[strand[i].session] = "ended"
        BY <3>1, <4>1, TasksAre DEF LifeInv, RemovedEnded
      <4> QED
        BY <2>1, <4>2
    <3> QED
      BY <2>1, <3>1 DEF RemovedEnded
  <2> QED
    BY <2>1, <2>2, <2>4, <2>5 DEF LifeInv, SendersIn
<1>6. ASSUME NEW s \in Sessions, StopWaiting(s) PROVE LifeInv'
  <2> DEFINE t == [task |-> "remove", session |-> s]
  <2>1. t \in Tasks /\ t.task = "remove" /\ t.session = s
    BY TasksAre
  <2> HIDE DEF t
  <2>2. /\ conn[s] = "closing" /\ conn' = [conn EXCEPT ![s] = "ended"]
        /\ strand' = Append(strand, t) /\ UNCHANGED <<registered, auth, pc, by>>
    BY <1>6 DEF StopWaiting, sendVars, t
  <2>3. \A u \in Sessions : u # s => LifeOf(u)'
    BY <1>1, <2>1, <2>2, LifeOthers
  <2>4. \A i \in Nat : Registers(s, i)' <=> Registers(s, i)
    BY <2>1, <2>2, RegistersStep
  <2>5. LifeOf(s)'
    BY <1>1, <2>2, <2>4 DEF LifeInv, LifeOf
  <2>6. RemovedEnded'
    <3>1. ASSUME NEW i \in DOMAIN strand, strand[i].task = "remove"
          PROVE  conn'[strand[i].session] = "ended"
      <4>1. strand[i] \in Tasks
        BY <1>1
      <4>2. strand[i].session \in Sessions /\ conn[strand[i].session] = "ended"
        BY <3>1, <4>1, TasksAre DEF LifeInv, RemovedEnded
      <4> QED
        BY <1>1, <2>2, <4>2
    <3> QED
      BY <1>1, <2>1, <2>2, <3>1, Appended DEF RemovedEnded
  <2> QED
    BY <2>2, <2>3, <2>5, <2>6 DEF LifeInv, SendersIn
<1>7. ASSUME NEW s \in Sessions, NEW o \in Sends, Submit(s, o) PROVE LifeInv'
  <2>1. /\ pc' = [pc EXCEPT ![o] = "spawned"] /\ by' = [by EXCEPT ![o] = s]
        /\ UNCHANGED <<conn, registered, auth, strand>>
    BY <1>7 DEF Submit, connVars
  <2>2. SendersIn'
    BY <1>1, <2>1 DEF LifeInv, SendersIn
  <2> QED
    BY <1>2, <2>1, <2>2
<1>8. ASSUME NEW o \in Sends, Send(o) \/ Fail(o) PROVE LifeInv'
  <2>1. UNCHANGED <<by, conn, auth, registered>>
    BY <1>8, SendStep DEF TypeInv
  <2>2. SendersIn'
    <3>1. CASE Start(o)
      BY <1>1, <2>1, <3>1 DEF Start, GoTo, Finish, LifeInv, SendersIn
    <3>2. CASE ~Start(o)
      <4>1. pc[o] \in {"checks", "append", "readSeq", "reply"}
        BY <1>8, <3>2 DEF Send, Check, Insert, ReadSeq, Reply, Fail
      <4>2. \A p \in Sends : p # o => pc'[p] = pc[p]
        BY <1>8, StepTo DEF TypeInv
      <4> QED
        BY <2>1, <4>1, <4>2 DEF LifeInv, SendersIn
    <3> QED
      BY <3>1, <3>2
  <2>3. strand' = strand \/ \E n \in Seqs : strand' = Append(strand, Broadcast(o, n))
    BY <1>1, <1>8 DEF Send, Start, Check, Insert, ReadSeq, Reply, AckAndQueue, AckAndBroadcast, Fail, Broadcast
  <2> QED
    BY <2>1, <2>2, <2>3, LifeKept DEF LifeInv
<1>9. CASE RunStrand
  <2> DEFINE t == Head(strand)
  <2>1. /\ strand # <<>> /\ strand' = Tail(strand) /\ UNCHANGED <<conn, auth, pc, by>>
        /\ \/ t.task = "register" /\ registered' = registered \cup {t.session}
           \/ t.task = "remove" /\ registered' = registered \ {t.session}
           \/ t.task = "broadcast" /\ registered' = registered
    BY <1>9 DEF RunStrand, sendVars, connVars
  <2>2. /\ t \in Tasks /\ 1 \in DOMAIN strand /\ t = strand[1]
        /\ \A i \in DOMAIN Tail(strand) : i + 1 \in DOMAIN strand /\ Tail(strand)[i] = strand[i + 1]
    BY <1>1, <2>1, Taken
  <2> HIDE DEF t
  <2>3. RemovedEnded'
    BY <2>1, <2>2 DEF LifeInv, RemovedEnded
  <2>4. ASSUME NEW s \in Sessions PROVE LifeOf(s)'
    <3>1. \A i \in Nat : Registers(s, i)' <=> i # 0 /\ Registers(s, i + 1)
      BY <2>1, RegistersStep
    <3>2. Registers(s, 1) <=> t.task = "register" /\ t.session = s
      BY <2>2 DEF Registers
    <3>3. t.task = "remove" => conn[t.session] = "ended"
      BY <2>2 DEF LifeInv, RemovedEnded
    <3>4. ~Registers(s, 0)
      BY <1>1 DEF Registers
    <3>5. CASE t.task = "register" /\ t.session = s
      <4>1. \A i \in Nat : ~Registers(s, i)'
        BY <3>1, <3>2, <3>5 DEF LifeInv, LifeOf
      <4>2. conn[s] # "none" /\ s \in registered'
        BY <2>1, <3>2, <3>5 DEF LifeInv, LifeOf
      <4> QED
        BY <2>1, <4>1, <4>2 DEF LifeOf
    <3>6. CASE ~(t.task = "register" /\ t.session = s)
      <4>1. \A i \in Nat : Registers(s, i) => i # 0 /\ i - 1 \in Nat /\ Registers(s, i - 1)'
        <5> SUFFICES ASSUME NEW i \in Nat, Registers(s, i)
                     PROVE  i # 0 /\ i - 1 \in Nat /\ Registers(s, i - 1)'
          OBVIOUS
        <5>1. i # 0 /\ i # 1
          BY <3>2, <3>4, <3>6
        <5>2. i - 1 \in Nat /\ i - 1 # 0 /\ (i - 1) + 1 = i
          BY <5>1
        <5> QED
          BY <3>1, <5>1, <5>2
      <4>2. s \in registered' => s \in registered
        BY <2>1, <3>6
      <4>3. s \in registered => s \in registered' \/ conn[s] = "ended"
        BY <2>1, <3>3
      <4>4. conn'[s] = "none" => s \notin auth' /\ s \notin registered' /\ \A i \in Nat : ~Registers(s, i)'
        BY <2>1, <3>1, <4>2 DEF LifeInv, LifeOf
      <4>5. conn'[s] \in {"open", "closing"} => s \in registered' \/ \E i \in Nat : Registers(s, i)'
        BY <2>1, <4>1, <4>3 DEF LifeInv, LifeOf
      <4>6. ASSUME NEW i \in Nat, Registers(s, i)'
            PROVE  s \notin registered' /\ \A j \in Nat : Registers(s, j)' => i = j
        <5>1. Registers(s, i + 1) /\ i + 1 \in Nat
          BY <3>1, <4>6
        <5>2. ASSUME NEW j \in Nat, Registers(s, j)' PROVE i = j
          <6>1. Registers(s, j + 1) /\ j + 1 \in Nat
            BY <3>1, <5>2
          <6>2. i + 1 = j + 1
            BY <5>1, <6>1 DEF LifeInv, LifeOf
          <6> QED
            BY <6>2
        <5>3. s \notin registered
          BY <5>1 DEF LifeInv, LifeOf
        <5> QED
          BY <4>2, <5>2, <5>3
      <4> QED
        BY <4>4, <4>5, <4>6 DEF LifeOf
    <3> QED
      BY <3>5, <3>6
  <2> QED
    BY <2>1, <2>3, <2>4 DEF LifeInv, SendersIn
<1>10. ASSUME NEW s \in Sessions, DeliverLine(s)
       PROVE  UNCHANGED <<conn, registered, auth, strand, pc, by>>
  BY <1>10 DEF DeliverLine, connVars, sendVars
<1>11. CASE Dissolve \/ UNCHANGED vars
  BY <1>3, <1>11 DEF Dissolve, connVars, sendVars, vars
<1> QED
  BY <1>3, <1>4, <1>5, <1>6, <1>7, <1>8, <1>9, <1>10, <1>11 DEF Next

-----------------------------------------------------------------------------
(* The log *)

\* What is announced is behind all that has been.
LEMMA LogStep ==
  ASSUME TypeInv, RowInv, SeqDense, LineInv, AfterInv, LogInv, [Next]_vars
  PROVE  LogInv'
<1>1. /\ announced \in Seq(Sends) /\ Len(announced) \in Nat /\ DOMAIN announced = 1..Len(announced)
      /\ \A i \in DOMAIN announced : announced[i] \in Sends
  BY DEF TypeInv, TypeOK
<1>2. ASSUME NEW i \in DOMAIN announced
      PROVE  pc'[announced[i]] = "done" /\ (exists' => seqOf'[announced[i]] # 0)
  BY <1>1, DoneStays DEF TypeInv, LogInv
<1>6. \A i \in DOMAIN announced : after'[announced[i]] = after[announced[i]]
  BY <1>1, DoneStays DEF TypeInv, LogInv
<1>7. ASSUME NEW s \in Sessions, NEW i \in DOMAIN announced, NEW a, a = announced[i], SentOwn(s, a)
      PROVE  SentOwn(s, a)'
  <2>1. by'[a] = by[a]
    BY <1>1, <1>7, DoneStays DEF TypeInv, LogInv
  <2>2. PICK k \in Nat : InOut(s, k, a)
    BY <1>7 DEF SentOwn
  <2>3. InOut(s, k, a)'
    <3>1. k \in DOMAIN out'[s] /\ out'[s][k] = out[s][k]
      BY <2>2, OutGrows DEF InOut
    <3> QED
      BY <2>2, <3>1 DEF InOut
  <2> QED
    BY <1>7, <2>1, <2>3 DEF SentOwn
<1>3. CASE announced' = announced /\ \A o \in Sends : ~Answer(o)
  <2>1. \A s \in Sessions, o \in Sends : OnWay(s, o)' => OnWay(s, o)
    BY <1>3, AheadStep
  <2>2. \A s \in Sessions, a, b \in Sends : Ahead(s, a, b)' => Ahead(s, a, b)
    BY <1>3, AheadStep
  <2> QED
    BY <1>1, <1>2, <1>3, <1>6, <1>7, <2>1, <2>2 DEF LogInv
<1>4. ASSUME NEW o \in Sends, Answer(o) PROVE LogInv'
  <2>1. pc[o] = "reply" /\ pc'[o] = "done" /\ announced' = Append(announced, o)
        /\ UNCHANGED <<exists, seqOf>>
    BY <1>4 DEF Answer, AnswerQueued, AnswerHere, Answering, TypeInv, TypeOK
  <2> DEFINE n == Len(announced) + 1
  <2>2. /\ DOMAIN announced' = DOMAIN announced \cup {n} /\ announced'[n] = o
        /\ \A i \in DOMAIN announced : announced'[i] = announced[i] /\ announced[i] # o /\ i < n
    <3>1. \A i \in DOMAIN announced : announced[i] # o
      BY <2>1 DEF LogInv
    <3> QED
      BY <1>1, <2>1, <3>1, Appended
  <2>3. exists => seqOf[o] # 0
    BY <2>1 DEF RowInv
  <2>4. \A p \in Sends : Answer(p) => p = o
    <3> SUFFICES ASSUME NEW p \in Sends, Answer(p), p # o PROVE FALSE
      OBVIOUS
    <3>1. pc[p] = "reply" /\ pc'[p] = "done" /\ pc' = [pc EXCEPT ![o] = "done"]
      BY <1>4 DEF Answer, AnswerQueued, AnswerHere, Answering, TypeInv, TypeOK
    <3> QED
      BY <3>1
  <2> HIDE DEF n
  <2>5. ASSUME NEW s \in Sessions, NEW p \in Sends, OnWay(s, p)'
        PROVE  \E i \in DOMAIN announced' : announced'[i] = p
    <3>1. CASE OnWay(s, p)
      BY <2>2, <3>1 DEF LogInv
    <3>2. CASE p = o
      BY <2>2, <3>2
    <3> QED
      BY <2>4, <2>5, <3>1, <3>2, AheadStep
  <2>6. ASSUME NEW s \in Sessions, NEW i \in DOMAIN announced', NEW j \in DOMAIN announced',
               NEW a, NEW b, a = announced'[i], b = announced'[j], Ahead(s, a, b)'
        PROVE  i < j \/ SentOwn(s, a)'
    <3>1. a \in Sends /\ b \in Sends
      BY <1>1, <2>2, <2>6
    <3>2. CASE Ahead(s, a, b)
      <4>1. pc[a] = "done" /\ pc[b] = "done"
        BY <3>2, AheadOnWay, OnWayDone
      <4>2. i \in DOMAIN announced /\ j \in DOMAIN announced
        BY <2>1, <2>2, <2>6, <4>1
      <4> QED
        BY <1>7, <2>2, <2>6, <3>2, <4>2 DEF LogInv
    <3>3. CASE OnWay(s, a) /\ b = o
      <4>1. pc[a] = "done"
        BY <3>3, OnWayDone
      <4>2. i \in DOMAIN announced /\ j = n
        BY <2>1, <2>2, <2>6, <3>3, <4>1
      <4> QED
        BY <2>2, <4>2
    <3> QED
      BY <2>4, <2>6, <3>1, <3>2, <3>3, AheadStep
  <2>7. ASSUME NEW i \in DOMAIN announced', NEW j \in DOMAIN announced', announced'[i] = announced'[j]
        PROVE  i = j
    BY <2>2, <2>7 DEF LogInv
  <2>8. ASSUME NEW i \in DOMAIN announced'
        PROVE  pc'[announced'[i]] = "done" /\ (exists' => seqOf'[announced'[i]] # 0)
    BY <1>2, <2>1, <2>2, <2>3
  <2>9. ASSUME NEW i \in DOMAIN announced', NEW j \in DOMAIN announced',
               announced'[i] \in after'[announced'[j]]
        PROVE  i < j
    <3>1. after' = after
      BY <1>4 DEF Answer, AnswerQueued, AnswerHere, Answering
    <3>2. pc[announced'[i]] = "done"
      <4>1. announced'[j] \in Sends
        BY <1>1, <2>2
      <4> QED
        BY <2>9, <3>1, <4>1 DEF AfterInv
    <3>3. i \in DOMAIN announced
      BY <2>1, <2>2, <3>2
    <3> QED
      BY <2>2, <2>9, <3>1, <3>3 DEF LogInv
  <2> QED
    BY <2>5, <2>6, <2>7, <2>8, <2>9 DEF LogInv
<1>5. ASSUME \A o \in Sends : ~Answer(o) PROVE announced' = announced
  <2>1. ASSUME NEW s \in Sessions, DeliverLine(s) PROVE announced' = announced
    BY <2>1 DEF DeliverLine, sendVars, histories
  <2> QED
    BY <1>5, <2>1, QueueStep DEF TypeInv, Idle, Spread, histories
<1> QED
  BY <1>3, <1>4, <1>5

-----------------------------------------------------------------------------
(* The invariant *)

LEMMA InitInv == Init => IInv
<1> SUFFICES ASSUME Init PROVE IInv
  OBVIOUS
<1>1. Cardinality(Sends) \in Nat
  BY FS_CardinalityType
<1>2. TypeOK
  <2>1. 0 \in Seqs
    BY <1>1 DEF Seqs
  <2> QED
    BY <1>1, <2>1 DEF Init, TypeOK, Steps
<1>3. Counted /\ ReadByOne
  <2>1. \A s \in Sessions : Running(s) = {}
    BY DEF Init, Running
  <2> QED
    BY <2>1, FS_EmptySet DEF Init, Counted, ReadByOne
<1>4. SeqDense
  <2>1. Stored = {}
    BY DEF Init, Stored
  <2>2. {seqOf[o] : o \in Stored} = 1..0
    BY <2>1
  <2> QED
    BY <2>1, <2>2, FS_EmptySet DEF SeqDense
<1>5. DrainedBeforeRemoval /\ RowInv /\ LineInv /\ AfterInv
  BY DEF Init, DrainedBeforeRemoval, RowInv, LineInv, AfterInv
<1>6. \A s \in Sessions : \A i, o : ~InStrand(i, o) /\ ~InBox(s, i, o) /\ ~InOut(s, i, o)
  BY DEF Init, InStrand, InBox, InOut
<1>7. WayInv /\ AckInv /\ LogInv
  BY <1>6 DEF Init, Ahead, OnWay, WayInv, AckInv, LogInv
<1>8. LifeInv
  BY DEF Init, LifeInv, LifeOf, Registers, RemovedEnded, SendersIn
<1> QED
  BY <1>2, <1>3, <1>4, <1>5, <1>7, <1>8 DEF IInv, TypeInv

LEMMA Invariance == Spec => []IInv
<1>1. IInv /\ [Next]_vars => IInv'
  BY TypeStep, DrainStep, RowStep, SeqStep, LineStep, WayStep, AfterStep, AckStep, LifeStep, LogStep
     DEF IInv, TypeInv
<1> QED
  BY <1>1, InitInv, PTL DEF Spec

-----------------------------------------------------------------------------
(* The results *)

\* The state is of its type: pending_ops_ never goes below zero, and no message
\* has a number above the number of messages.
THEOREM TypeCorrect == Spec => []TypeOK
<1>1. IInv => TypeOK
  BY DEF IInv, TypeInv
<1> QED
  BY <1>1, Invariance, PTL

\* However many sends run at once, the messages of a conversation are numbered
\* 1, 2, ... and every SEND_ACK and MSG_PUSH has its row's number.
THEOREM Numbers == Spec => []NumberedAsStored
<1>1. IInv => NumberedAsStored
  <2> SUFFICES ASSUME IInv PROVE LinesMatchRows
    BY DEF IInv, NumberedAsStored
  <2> QED
    BY DEF IInv, LineInv, LineOK, LinesMatchRows
<1> QED
  BY <1>1, Invariance, PTL

\* handle_send_msg's ack, sent on the session's strand, is ahead of the push,
\* which goes over the server's; neither comes twice.
THEOREM AckFirst == Spec => []AckThenPushOnce
<1>1. IInv => AckThenPushOnce
  <2> SUFFICES ASSUME IInv, NEW s \in Sessions, NEW i \in DOMAIN out[s], NEW j \in DOMAIN out[s]
               PROVE  LET a == out[s][i]  b == out[s][j] IN
                      /\ a.kind = b.kind /\ a.send = b.send => i = j
                      /\ a.kind = "push" /\ by[a.send] = s => a.send \in Acked(s)
                      /\ a.kind = "ack" /\ b.kind = "push" /\ a.send = b.send => i < j
    BY DEF AckThenPushOnce
  <2>1. out[s][i] \in Lines /\ i \in Nat /\ j \in Nat
    BY DEF IInv, TypeInv, TypeOK
  <2>2. ASSUME out[s][i].kind = "push", out[s][j].kind = "push", out[s][i].send = out[s][j].send
        PROVE  i = j
    <3>1. InOut(s, i, out[s][i].send) /\ InOut(s, j, out[s][i].send) /\ out[s][i].send \in Sends
      BY <2>1, <2>2 DEF InOut, Lines
    <3> QED
      BY <2>1, <3>1 DEF IInv, WayInv, Ahead
  <2>3. out[s][i].kind \in {"ack", "push"}
    BY <2>1 DEF Lines
  <2> QED
    BY <2>2, <2>3 DEF IInv, AckInv
<1> QED
  BY <1>1, Invariance, PTL

LEMMA PushedAt ==
  ASSUME TypeOK, NEW s \in Sessions, NEW o \in Pushed(s)
  PROVE  PushAt(s, o) \in Nat /\ InOut(s, PushAt(s, o), o)
<1>1. out[s] \in Seq(Lines)
  BY DEF TypeOK
<1>2. PICK i \in DOMAIN out[s] : out[s][i].kind = "push" /\ out[s][i].send = o
  BY DEF Pushed
<1>3. InOut(s, PushAt(s, o), o)
  BY <1>2 DEF PushAt, InOut
<1> QED
  BY <1>1, <1>3 DEF InOut

\* Two pushes in one place are of one send.
LEMMA PushOrder ==
  ASSUME TypeOK, NEW s \in Sessions, NEW a \in Pushed(s), NEW b \in Pushed(s)
  PROVE  /\ PushAt(s, a) < PushAt(s, b) => Ahead(s, a, b)
         /\ PushAt(s, a) = PushAt(s, b) => a = b
<1>1. PushAt(s, a) = PushAt(s, b) => a = b
  BY PushedAt DEF InOut
<1>2. PushAt(s, a) < PushAt(s, b) => Ahead(s, a, b)
  BY PushedAt DEF Ahead
<1> QED
  BY <1>1, <1>2

\* What a session is pushed is in the log, and in its order but for messages of its own.
LEMMA PushedInLog ==
  ASSUME IInv, NEW s \in Sessions, NEW a \in Pushed(s), NEW b \in Pushed(s),
         PushAt(s, a) < PushAt(s, b), by[a] # s
  PROVE  \E i, j \in DOMAIN announced : announced[i] = a /\ announced[j] = b /\ i < j
<1>1. a \in Sends /\ b \in Sends
  BY DEF Pushed
<1>2. Ahead(s, a, b) /\ OnWay(s, a) /\ OnWay(s, b)
  BY PushOrder, AheadOnWay DEF IInv, TypeInv
<1>3. PICK i \in DOMAIN announced, j \in DOMAIN announced : announced[i] = a /\ announced[j] = b
  BY <1>1, <1>2 DEF IInv, LogInv
<1> QED
  BY <1>2, <1>3 DEF IInv, LogInv, SentOwn

\* What two clients are both pushed they are pushed in one order, that in which
\* the broadcasts were dispatched to the server's strand, unless send_text finds one
\* of them in the turn of its own message.
THEOREM OneOrder == Spec => []SameOrder
<1>1. IInv => SameOrder
  <2> SUFFICES ASSUME IInv, NEW s \in Sessions, NEW t \in Sessions,
                      NEW a \in Pushed(s) \cap Pushed(t), NEW b \in Pushed(s) \cap Pushed(t),
                      PushAt(s, b) < PushAt(s, a), PushAt(t, a) < PushAt(t, b),
                      by[b] # s, by[a] # t
               PROVE  FALSE
    BY DEF SameOrder
  <2>1. PICK i \in DOMAIN announced, j \in DOMAIN announced :
           announced[i] = b /\ announced[j] = a /\ i < j
    BY PushedInLog
  <2>2. PICK k \in DOMAIN announced, l \in DOMAIN announced :
           announced[k] = a /\ announced[l] = b /\ k < l
    BY PushedInLog
  <2>3. i = l /\ j = k
    BY <2>1, <2>2 DEF IInv, LogInv
  <2>4. i \in Nat /\ j \in Nat
    BY DEF IInv, TypeInv, TypeOK
  <2> QED
    BY <2>1, <2>2, <2>3, <2>4
<1> QED
  BY <1>1, Invariance, PTL

\* A message sent after another was acknowledged has the higher number, and
\* nobody but its sender, whose push may be written in the turn of the ack, sees it
\* first.
THEOREM Causality == Spec => []CausalOrder
<1>1. IInv => CausalOrder
  <2> SUFFICES ASSUME IInv, NEW o \in Sends, NEW a \in after[o]
               PROVE  /\ o \in Stored => seqOf[a] < seqOf[o]
                      /\ \A s \in Sessions \ {by[o]} :
                            {a, o} \subseteq Pushed(s) => PushAt(s, a) < PushAt(s, o)
    BY DEF CausalOrder
  <2>1. a # o /\ (o \in Stored => seqOf[a] < seqOf[o])
    BY DEF IInv, AfterInv, Stored
  <2>2. ASSUME NEW s \in Sessions, s # by[o], a \in Pushed(s), o \in Pushed(s)
        PROVE  PushAt(s, a) < PushAt(s, o)
    <3>1. PushAt(s, a) \in Nat /\ PushAt(s, o) \in Nat
      BY <2>2, PushedAt DEF IInv, TypeInv
    <3>2. ASSUME PushAt(s, o) < PushAt(s, a) PROVE FALSE
      <4>1. PICK i \in DOMAIN announced, j \in DOMAIN announced :
               announced[i] = o /\ announced[j] = a /\ i < j
        BY <2>2, <3>2, PushedInLog
      <4>2. j < i
        BY <4>1 DEF IInv, LogInv
      <4>3. i \in Nat /\ j \in Nat
        BY DEF IInv, TypeInv, TypeOK
      <4> QED
        BY <4>1, <4>2, <4>3
    <3>3. PushAt(s, a) # PushAt(s, o)
      BY <2>1, <2>2, PushOrder DEF IInv, TypeInv
    <3> QED
      BY <3>1, <3>2, <3>3
  <2> QED
    BY <2>1, <2>2
<1> QED
  BY <1>1, Invariance, PTL

\* run() queues the removal of a session only after its coroutines, unless the
\* two seconds are over.
THEOREM Drained == Spec => []DrainedBeforeRemoval
<1>1. IInv => DrainedBeforeRemoval
  BY DEF IInv
<1> QED
  BY <1>1, Invariance, PTL
-----------------------------------------------------------------------------
(* Who is owed which message *)

OwedIn(s, o) ==
    /\ o \in Sends
    /\ \/ \E i \in Nat : InStrand(i, o) /\ \A j \in Nat : Registers(s, j) => j < i
       \/ \E i \in Nat : InBox(s, i, o)

LEMMA OwedIs ==
  ASSUME TypeInv, TypeInv', NEW s \in Sessions
  PROVE  /\ \A o : o \in Owed(s) <=> OwedIn(s, o)
         /\ \A o : o \in Owed(s)' <=> OwedIn(s, o)'
<1>1. /\ DOMAIN strand \subseteq Nat /\ DOMAIN inbox[s] \subseteq Nat
      /\ DOMAIN strand' \subseteq Nat /\ DOMAIN inbox'[s] \subseteq Nat
  <2>1. /\ strand \in Seq(Tasks) /\ inbox[s] \in Seq(Lines)
        /\ strand' \in Seq(Tasks) /\ inbox'[s] \in Seq(Lines)
    BY DEF TypeInv, TypeOK
  <2> QED
    BY <2>1
<1>2. ASSUME NEW o PROVE o \in Owed(s) <=> OwedIn(s, o)
  BY <1>1, Zenon DEF Owed, OwedIn, InStrand, InBox, Registers
<1>3. ASSUME NEW o PROVE o \in Owed(s)' <=> OwedIn(s, o)'
  BY <1>1, Zenon DEF Owed, OwedIn, InStrand, InBox, Registers
<1> QED
  BY <1>2, <1>3

\* A session that registers is owed no more what was queued before.
LEMMA OwedIdle ==
  ASSUME TypeInv, TypeInv', Idle, NEW s \in Sessions
  PROVE  /\ Owed(s)' \subseteq Owed(s)
         /\ \/ Owed(s)' = Owed(s)
            \/ \E t \in Tasks : /\ strand' = Append(strand, t)
                                /\ t.task = "register" /\ t.session = s
<1>1. \A i, o : /\ InStrand(i, o)' <=> InStrand(i, o)
                /\ InBox(s, i, o)' <=> InBox(s, i, o)
  BY IdleStep
<1>2. \A i \in Nat : Registers(s, i) => Registers(s, i)'
  BY RegistersStep DEF Idle, Registering
<1>3. \/ \A i \in Nat : Registers(s, i)' => Registers(s, i)
      \/ \E t \in Tasks : strand' = Append(strand, t) /\ t.task = "register" /\ t.session = s
  BY RegistersStep DEF Idle, Registering
<1>4. Owed(s)' \subseteq Owed(s)
  BY <1>1, <1>2, OwedIs DEF OwedIn
<1>5. ASSUME \A i \in Nat : Registers(s, i)' => Registers(s, i) PROVE Owed(s) \subseteq Owed(s)'
  BY <1>1, <1>5, OwedIs DEF OwedIn
<1> QED
  BY <1>3, <1>4, <1>5

LEMMA OwedAnswer ==
  ASSUME TypeInv, TypeInv', NEW o \in Sends, AnswerQueued(o), NEW s \in Sessions
  PROVE  Owed(s)' = Owed(s) \cup {o}
<1>1. Len(strand) \in Nat /\ Len(strand) + 1 \in Nat /\ seen[o] \in Seqs
      /\ \A j \in Nat : Registers(s, j) => j < Len(strand) + 1
  BY DEF TypeInv, TypeOK, Registers
<1>2. \A i, p : /\ InStrand(i, p)' <=> InStrand(i, p) \/ (i = Len(strand) + 1 /\ p = o)
                /\ InBox(s, i, p)' <=> InBox(s, i, p)
  BY AnswerStep
<1>3. \A i \in Nat : Registers(s, i)' <=> Registers(s, i)
  <2>1. Broadcast(o, seen[o]) \in Tasks /\ Broadcast(o, seen[o]).task = "broadcast"
    BY <1>1, TasksAre DEF Broadcast
  <2> QED
    BY <2>1, RegistersStep DEF AnswerQueued
<1>4. ASSUME NEW p, OwedIn(s, p)' PROVE OwedIn(s, p) \/ p = o
  BY <1>2, <1>3, <1>4 DEF OwedIn
<1>5. ASSUME NEW p, OwedIn(s, p) PROVE OwedIn(s, p)'
  BY <1>2, <1>3, <1>5 DEF OwedIn
<1>6. OwedIn(s, o)'
  BY <1>1, <1>2, <1>3 DEF OwedIn
<1> QED
  BY <1>4, <1>5, <1>6, OwedIs

\* A broadcast that runs at once owes its push to those that are registered, the sender
\* apart.
LEMMA OwedHere ==
  ASSUME TypeInv, TypeInv', NEW o \in Sends, AnswerHere(o), NEW s \in Sessions
  PROVE  Owed(s)' = IF s \in Recipients /\ s # by[o] THEN Owed(s) \cup {o} ELSE Owed(s)
<1>1. /\ inbox[s] \in Seq(Lines) /\ Len(inbox[s]) + 1 \in Nat
      /\ Push(o, seen[o]) \in Lines /\ Push(o, seen[o]).send = o
      /\ inbox'[s] = IF s \in Recipients /\ s # by[o]
                     THEN Append(inbox[s], Push(o, seen[o])) ELSE inbox[s]
  <2>1. inbox[s] \in Seq(Lines)
    BY DEF TypeInv, TypeOK
  <2> QED
    BY <2>1, Here, LinesAre
<1>2. \A i, p : ~InStrand(i, p) /\ ~InStrand(i, p)'
  BY HereStep
<1>3. CASE s \in Recipients /\ s # by[o]
  <2>1. inbox'[s] = Append(inbox[s], Push(o, seen[o]))
    BY <1>1, <1>3
  <2>2. \A i, p : InBox(s, i, p)' <=> InBox(s, i, p) \/ (i = Len(inbox[s]) + 1 /\ p = o)
    BY <1>1, <2>1, Appended DEF InBox
  <2>3. \A p : OwedIn(s, p)' <=> OwedIn(s, p) \/ p = o
    BY <1>1, <1>2, <2>2 DEF OwedIn
  <2> QED
    BY <1>3, <2>3, OwedIs
<1>4. CASE ~(s \in Recipients /\ s # by[o])
  <2>1. \A i, p : InBox(s, i, p)' <=> InBox(s, i, p)
    BY <1>1, <1>4 DEF InBox
  <2>2. \A p : OwedIn(s, p)' <=> OwedIn(s, p)
    BY <1>2, <2>1 DEF OwedIn
  <2> QED
    BY <1>4, <2>2, OwedIs
<1> QED
  BY <1>3, <1>4

\* The first handler of the strand takes what it carries to those that are registered;
\* who is online and not yet registered has its registration ahead of what it is owed.
LEMMA OwedSpread ==
  ASSUME TypeInv, TypeInv', LifeInv, Spread, NEW s \in Sessions
  PROVE  /\ Owed(s)' \subseteq Owed(s)
         /\ s \in Online => Owed(s)' = Owed(s)
<1>1. /\ strand \in Seq(Tasks) /\ inbox[s] \in Seq(Lines) /\ Len(inbox[s]) \in Nat
      /\ strand # <<>> /\ strand' = Tail(strand)
  BY DEF TypeInv, TypeOK, Spread
<1>2. /\ 1 \in DOMAIN strand /\ Head(strand) = strand[1]
      /\ \A i \in Nat : i \in DOMAIN strand => i # 0
  BY <1>1, Taken
<1>3. \A i \in Nat : Registers(s, i)' <=> i # 0 /\ Registers(s, i + 1)
  BY <1>1, RegistersStep
<1>4. \A i \in Nat : \A p : InStrand(i, p)' <=> i # 0 /\ InStrand(i + 1, p)
  BY <1>1, Taken, TakenAll DEF InStrand
<1>5. \/ inbox'[s] = inbox[s] /\ (s \in Recipients => \A p : ~InStrand(1, p))
      \/ \E o \in Sends, n \in Seqs :
            /\ s \in Recipients /\ InStrand(1, o) /\ \A p : InStrand(1, p) => p = o
            /\ inbox'[s] = Append(inbox[s], Push(o, n))
      \/ inbox'[s] = inbox[s] /\ s \notin Recipients
  <2>1. CASE Head(strand) \in Registering /\ UNCHANGED inbox
    BY <1>2, <2>1 DEF Registering, InStrand
  <2>2. ASSUME NEW o \in Sends, NEW n \in Seqs, Head(strand) = Broadcast(o, n), s \in Recipients,
               inbox'[s] = Append(inbox[s], Push(o, n))
        PROVE  InStrand(1, o) /\ \A p : InStrand(1, p) => p = o
    BY <1>2, <2>2 DEF Broadcast, InStrand
  <2> QED
    BY <2>1, <2>2, LinesAre, InboxSent DEF TypeInv, Spread, SendText
<1>6. s \in registered => \A j \in Nat : ~Registers(s, j)
  BY DEF LifeInv, LifeOf
<1>7. ASSUME NEW p, NEW i \in Nat, InBox(s, i, p)'
      PROVE  InBox(s, i, p) \/ (s \in Recipients /\ InStrand(1, p))
  <2>1. CASE inbox'[s] = inbox[s]
    BY <1>7, <2>1 DEF InBox
  <2>2. ASSUME NEW o \in Sends, NEW n \in Seqs, s \in Recipients, InStrand(1, o),
               inbox'[s] = Append(inbox[s], Push(o, n))
        PROVE  InBox(s, i, p) \/ (s \in Recipients /\ InStrand(1, p))
    BY <1>1, <1>7, <2>2, LinesAre, Appended DEF InBox
  <2> QED
    BY <1>5, <2>1, <2>2
<1>8. ASSUME NEW p, NEW i \in Nat, InBox(s, i, p) PROVE InBox(s, i, p)'
  <2>1. ASSUME NEW o \in Sends, NEW n \in Seqs, inbox'[s] = Append(inbox[s], Push(o, n))
        PROVE  InBox(s, i, p)'
    BY <1>1, <1>8, <2>1, LinesAre, Appended DEF InBox
  <2> QED
    BY <1>5, <1>8, <2>1 DEF InBox
<1>9. ASSUME NEW p, OwedIn(s, p)' PROVE OwedIn(s, p)
  <2>1. ASSUME NEW i \in Nat, InStrand(i, p)', \A j \in Nat : Registers(s, j)' => j < i
        PROVE  OwedIn(s, p)
    <3>1. InStrand(i + 1, p) /\ i + 1 \in Nat /\ i # 0
      BY <1>4, <2>1
    <3>2. ASSUME NEW j \in Nat, Registers(s, j) PROVE j < i + 1
      <4>1. CASE j \in {0, 1}
        BY <2>1, <3>1, <4>1
      <4>2. CASE j \notin {0, 1}
        <5>1. j - 1 \in Nat /\ j - 1 # 0 /\ (j - 1) + 1 = j
          BY <4>2
        <5>2. j - 1 < i
          BY <1>3, <2>1, <3>2, <5>1
        <5> QED
          BY <5>1, <5>2
      <4> QED
        BY <4>1, <4>2
    <3> QED
      BY <1>9, <3>1, <3>2 DEF OwedIn
  <2>2. ASSUME NEW i \in Nat, InBox(s, i, p)' PROVE OwedIn(s, p)
    BY <1>6, <1>7, <1>9, <2>2 DEF OwedIn, Recipients
  <2> QED
    BY <1>9, <2>1, <2>2 DEF OwedIn
<1>10. ASSUME NEW p, OwedIn(s, p), s \in Online PROVE OwedIn(s, p)'
  <2>1. ASSUME NEW i \in Nat, InStrand(i, p), \A j \in Nat : Registers(s, j) => j < i
        PROVE  OwedIn(s, p)'
    <3>1. i # 0
      BY <1>2, <2>1 DEF InStrand
    <3>2. CASE i = 1
      <4>1. \A j \in Nat : ~Registers(s, j)
        BY <1>2, <2>1, <3>2 DEF Registers
      <4>2. s \in Recipients
        BY <1>10, <4>1 DEF LifeInv, LifeOf, Online, TypeInv, TypeOK, Recipients
      <4>3. PICK n \in Seqs : inbox'[s] = Append(inbox[s], Push(p, n))
        BY <1>5, <2>1, <3>2, <4>2
      <4>4. PICK k \in Nat : k = Len(inbox[s]) + 1
        BY <1>1
      <4>5. InBox(s, k, p)'
        <5>1. p \in Sends
          BY <1>10 DEF OwedIn
        <5>2. Push(p, n) \in Lines /\ Push(p, n).send = p
          BY <5>1, LinesAre
        <5>3. Len(inbox[s]) + 1 \in DOMAIN inbox'[s] /\ inbox'[s][Len(inbox[s]) + 1] = Push(p, n)
          BY <1>1, <4>3, <5>2, Appended
        <5> QED
          BY <4>4, <5>2, <5>3 DEF InBox
      <4> QED
        BY <1>10, <4>5 DEF OwedIn
    <3>3. CASE i # 1
      <4>1. i - 1 \in Nat /\ i - 1 # 0 /\ (i - 1) + 1 = i
        BY <3>1, <3>3
      <4>2. InStrand(i - 1, p)'
        BY <1>4, <2>1, <4>1
      <4>3. ASSUME NEW j \in Nat, Registers(s, j)' PROVE j < i - 1
        <5>1. Registers(s, j + 1) /\ j + 1 \in Nat
          BY <1>3, <4>3
        <5>2. j + 1 < i
          BY <2>1, <5>1
        <5> QED
          BY <5>2
      <4> QED
        BY <1>10, <4>1, <4>2, <4>3 DEF OwedIn
    <3> QED
      BY <3>2, <3>3
  <2>2. ASSUME NEW i \in Nat, InBox(s, i, p) PROVE OwedIn(s, p)'
    BY <1>8, <1>10, <2>2 DEF OwedIn
  <2> QED
    BY <1>10, <2>1, <2>2 DEF OwedIn
<1> QED
  BY <1>9, <1>10, OwedIs

\* The line that leaves the strand of t is owed no more: it is on no other way to t.
LEMMA OwedDeliver ==
  ASSUME TypeInv, TypeInv', LineInv, WayInv, NEW t \in Sessions, DeliverLine(t), NEW s \in Sessions
  PROVE  Owed(s)' = IF s = t THEN Owed(s) \ {Head(inbox[t]).send} ELSE Owed(s)
<1>1. /\ inbox \in [Sessions -> Seq(Lines)] /\ strand' = strand
      /\ inbox' = [inbox EXCEPT ![t] = Tail(@)] /\ inbox[t] # <<>> /\ inbox[t] \in Seq(Lines)
  BY DEF TypeInv, TypeOK, DeliverLine
<1>2. \A i, p : (InStrand(i, p)' <=> InStrand(i, p)) /\ (Registers(s, i)' <=> Registers(s, i))
  BY <1>1 DEF InStrand, Registers
<1>3. CASE s # t
  <2>1. \A i, p : InBox(s, i, p)' <=> InBox(s, i, p)
    BY <1>1, <1>3 DEF InBox
  <2>2. \A p : OwedIn(s, p)' <=> OwedIn(s, p)
    BY <1>2, <2>1 DEF OwedIn
  <2> QED
    BY <1>3, <2>2, OwedIs
<1>4. CASE s = t
  <2>0. PICK h : h = Head(inbox[t]).send
    OBVIOUS
  <2>1. InBox(t, 1, h) /\ h \in Sends /\ \A p : InBox(t, 1, p) => p = h
    <3>1. /\ Head(inbox[t]) \in Lines /\ 1 \in DOMAIN inbox[t]
          /\ Head(inbox[t]) = inbox[t][1]
      BY <1>1, Taken
    <3> QED
      BY <2>0, <3>1 DEF InBox, Lines
  <2>2. \A i \in Nat : \A p : InBox(t, i, p)' <=> i # 0 /\ InBox(t, i + 1, p)
    <3>1. inbox'[t] = Tail(inbox[t])
      BY <1>1
    <3> QED
      BY <1>1, <3>1, Taken, TakenAll DEF InBox
  <2>3. ~OwedIn(t, h)'
    <3>0. ~Ahead(t, h, h) /\ 1 \in Nat
      BY <2>1 DEF WayInv
    <3>1. ASSUME NEW i \in Nat, InStrand(i, h)' PROVE FALSE
      <4>1. InStrand(i, h)
        BY <1>2, <3>1
      <4> QED
        BY <2>1, <3>0, <4>1 DEF Ahead
    <3>2. ASSUME NEW i \in Nat, InBox(t, i, h)' PROVE FALSE
      <4>1. InBox(t, i + 1, h) /\ i + 1 \in Nat /\ 1 < i + 1
        BY <2>2, <3>2
      <4> QED
        BY <2>1, <3>0, <4>1 DEF Ahead
    <3> QED
      BY <3>1, <3>2 DEF OwedIn
  <2>4. ASSUME NEW p, OwedIn(t, p)' PROVE OwedIn(t, p)
    <3>1. ASSUME NEW i \in Nat, InBox(t, i, p)' PROVE \E k \in Nat : InBox(t, k, p)
      <4>1. InBox(t, i + 1, p) /\ i + 1 \in Nat
        BY <2>2, <3>1
      <4> QED
        BY <4>1
    <3> QED
      BY <1>2, <1>4, <2>4, <3>1 DEF OwedIn
  <2>5. ASSUME NEW p, OwedIn(t, p), p # h PROVE OwedIn(t, p)'
    <3>1. ASSUME NEW i \in Nat, InBox(t, i, p) PROVE \E k \in Nat : InBox(t, k, p)'
      <4>1. i # 0 /\ i # 1
        BY <1>1, <2>1, <2>5, <3>1 DEF InBox
      <4>2. i - 1 \in Nat /\ i - 1 # 0 /\ (i - 1) + 1 = i
        BY <4>1
      <4>3. InBox(t, i - 1, p)'
        BY <2>2, <3>1, <4>2
      <4> QED
        BY <4>2, <4>3
    <3> QED
      BY <1>2, <1>4, <2>5, <3>1 DEF OwedIn
  <2>6. Owed(t)' = Owed(t) \ {h}
    <3>1. /\ \A p : p \in Owed(t) <=> OwedIn(t, p)
          /\ \A p : p \in Owed(t)' <=> OwedIn(t, p)'
      BY OwedIs
    <3>2. \A p : p \in Owed(t)' <=> p \in Owed(t) /\ p # h
      BY <2>3, <2>4, <2>5, <3>1
    <3> QED
      BY <3>2
  <2> QED
    BY <1>4, <2>0, <2>6
<1> QED
  BY <1>3, <1>4
-----------------------------------------------------------------------------
(* The log's variables *)

LEMMA Distinct ==
  ASSUME TypeInv, SeqDense, NEW p \in Stored, NEW q \in Stored, seqOf[p] = seqOf[q]
  PROVE  p = q
<1> DEFINE n == Cardinality(Stored)
           f == [o \in Stored |-> seqOf[o]]
<1>1. IsFiniteSet(Stored) /\ n \in Nat
  BY Numbering DEF TypeInv
<1>2. Cardinality(1..n) = n
  BY <1>1, FS_Interval
<1>3. f \in Surjection(Stored, 1..n)
  BY Zenon DEF SeqDense, Surjection
<1>4. f \in Injection(Stored, 1..n)
  <2> HIDE DEF f, n
  <2> QED
    BY <1>1, <1>2, <1>3, FS_SurjSameCardinalityImpliesInj DEF n
<1> QED
  BY <1>4 DEF Injection, IsInjective

LEMMA RowsKept ==
  ASSUME UNCHANGED seqOf, \A p \in Stored : pc'[p] = "done" <=> pc[p] = "done"
  PROVE  Cardinality(Stored)' = Cardinality(Stored) /\ Unsent' = Unsent
<1>1. Stored' = Stored
  BY DEF Stored
<1>2. {p \in Stored' : pc'[p] # "done"} = {p \in Stored : pc[p] # "done"}
  BY <1>1
<1>3. Unsent' = Unsent
  BY <1>2 DEF Unsent
<1> QED
  BY <1>1, <1>3

\* A send that ends with its row stored is no longer unsent.
LEMMA RowsSent ==
  ASSUME TypeInv, SeqDense, UNCHANGED seqOf, NEW o \in Stored,
         pc[o] # "done", pc' = [pc EXCEPT ![o] = "done"]
  PROVE  /\ Cardinality(Stored)' = Cardinality(Stored)
         /\ seqOf[o] \in Unsent /\ Unsent' = Unsent \ {seqOf[o]}
<1>1. Stored' = Stored /\ pc \in [Sends -> Steps] /\ Stored \subseteq Sends
  BY DEF Stored, TypeInv, TypeOK
<1>2. {p \in Stored' : pc'[p] # "done"} = {p \in Stored : pc[p] # "done"} \ {o}
  BY <1>1
<1>3. \A p \in Stored : p # o => seqOf[p] # seqOf[o]
  BY Distinct
<1>4. Unsent' = {seqOf[p] : p \in {q \in Stored : pc[q] # "done"} \ {o}}
  BY <1>2 DEF Unsent
<1>5. Unsent' = Unsent \ {seqOf[o]}
  BY <1>3, <1>4 DEF Unsent
<1> QED
  BY <1>1, <1>5 DEF Unsent

LEMMA LogKept ==
  ASSUME TypeInv, SeqDense, RowInv, LogInv, [Next]_vars, exists' = exists, announced' = announced
  PROVE  Entries' = Entries
<1>1. \A i \in DOMAIN announced : announced[i] \in Sends
  BY DEF TypeInv, TypeOK
<1>2. \A i \in DOMAIN announced : exists => seqOf'[announced[i]] = seqOf[announced[i]]
  BY <1>1, DoneStays DEF TypeInv, LogInv
<1>3. CASE exists
  <2>1. [i \in DOMAIN announced |-> seqOf'[announced[i]]] = [i \in DOMAIN announced |-> seqOf[announced[i]]]
    BY <1>2, <1>3
  <2> QED
    BY <1>3, <2>1 DEF Entries
<1> QED
  BY <1>3 DEF Entries

LEMMA ToldKept ==
  ASSUME UNCHANGED <<exists, out>>
  PROVE  Told' = Told
BY DEF Told

\* What send_text_impl has accepted is what the session is told.
Heads(q) == [i \in DOMAIN q |-> [kind |-> q[i].kind, seq |-> q[i].seq]]

LEMMA HeadsAppend ==
  ASSUME NEW q \in Seq(Lines), NEW line \in Lines
  PROVE  Heads(Append(q, line)) = Append(Heads(q), [kind |-> line.kind, seq |-> line.seq])
<1> DEFINE T == [kind: {"ack", "push"}, seq: Seqs]
           x == [kind |-> line.kind, seq |-> line.seq]
           r == Append(q, line)
<1>1. /\ r \in Seq(Lines) /\ Len(q) \in Nat
      /\ DOMAIN q = 1..Len(q)
      /\ DOMAIN r = 1..(Len(q) + 1)
      /\ r[Len(q) + 1] = line
      /\ \A i \in DOMAIN q : r[i] = q[i]
  OBVIOUS
<1>2. \A y \in Lines : [kind |-> y.kind, seq |-> y.seq] \in T
  BY DEF Lines
<1>3. ASSUME NEW u \in Seq(Lines) PROVE Heads(u) \in Seq(T) /\ Len(Heads(u)) = Len(u)
  <2>1. Len(u) \in Nat /\ DOMAIN u = 1..Len(u) /\ \A i \in 1..Len(u) : u[i] \in Lines
    OBVIOUS
  <2>2. Heads(u) \in [1..Len(u) -> T]
    BY <1>2, <2>1 DEF Heads
  <2> HIDE DEF T
  <2> QED
    BY <2>1, <2>2
<1> HIDE DEF r
<1>4. /\ Heads(q) \in Seq(T) /\ x \in T /\ Len(Heads(q)) = Len(q)
      /\ Heads(r) \in Seq(T) /\ Len(Heads(r)) = Len(q) + 1
  <2>1. x \in T
    BY <1>2
  <2>2. Heads(q) \in Seq(T) /\ Len(Heads(q)) = Len(q)
    BY <1>3
  <2>3. Heads(r) \in Seq(T) /\ Len(Heads(r)) = Len(r)
    BY <1>1, <1>3
  <2>4. Len(r) = Len(q) + 1
    BY DEF r
  <2> HIDE DEF T, x
  <2> QED
    BY <2>1, <2>2, <2>3, <2>4
<1>5. Append(Heads(q), x) \in Seq(T) /\ Len(Append(Heads(q), x)) = Len(q) + 1
  <2> HIDE DEF T, x
  <2> QED
    BY <1>1, <1>4
<1>6. ASSUME NEW i \in 1..(Len(q) + 1) PROVE Heads(r)[i] = Append(Heads(q), x)[i]
  <2>1. CASE i = Len(q) + 1
    <3>1. Heads(r)[i] = x
      BY <1>1, <2>1 DEF Heads
    <3>2. Append(Heads(q), x)[i] = x
      <4> HIDE DEF T, x
      <4> QED
        BY <1>1, <1>4, <2>1
    <3> QED
      BY <3>1, <3>2
  <2>2. CASE i \in 1..Len(q)
    <3>1. Heads(r)[i] = Heads(q)[i]
      BY <1>1, <2>2 DEF Heads
    <3>2. Append(Heads(q), x)[i] = Heads(q)[i]
      <4> HIDE DEF T, x
      <4> QED
        BY <1>1, <1>4, <2>2
    <3> QED
      BY <3>1, <3>2
  <2>3. i = Len(q) + 1 \/ i \in 1..Len(q)
    BY <1>1
  <2> HIDE DEF T, x
  <2> QED
    BY <2>1, <2>2, <2>3
<1>7. Heads(r) = Append(Heads(q), x)
  <2> HIDE DEF T, x
  <2> QED
    BY <1>1, <1>4, <1>5, <1>6
<1> QED
  BY <1>7 DEF r, x

LEMMA ToldLine ==
  ASSUME TypeInv, exists, exists', NEW s \in Sessions, NEW line \in Lines,
         out' = [out EXCEPT ![s] = Append(@, line)]
  PROVE  Told' = [Told EXCEPT ![s] = Append(@, [kind |-> line.kind, seq |-> line.seq])]
<1>1. out \in [Sessions -> Seq(Lines)] /\ out[s] \in Seq(Lines)
  BY DEF TypeInv, TypeOK
<1>2. Told = [t \in Sessions |-> Heads(out[t])] /\ Told' = [t \in Sessions |-> Heads(out'[t])]
  BY DEF Told, Heads
<1>3. \A t \in Sessions :
         Told'[t] = IF t = s THEN Append(Told[s], [kind |-> line.kind, seq |-> line.seq]) ELSE Told[t]
  BY <1>1, <1>2, HeadsAppend
<1> QED
  BY <1>2, <1>3

LEMMA ToldTwo ==
  ASSUME TypeInv, exists, exists', NEW s \in Sessions, NEW x \in Lines, NEW y \in Lines,
         out' = [out EXCEPT ![s] = Append(Append(@, x), y)]
  PROVE  Told' = [Told EXCEPT ![s] = Append(Append(@, [kind |-> x.kind, seq |-> x.seq]),
                                            [kind |-> y.kind, seq |-> y.seq])]
<1>1. out \in [Sessions -> Seq(Lines)] /\ out[s] \in Seq(Lines) /\ Append(out[s], x) \in Seq(Lines)
  BY Appended DEF TypeInv, TypeOK
<1>2. Told = [t \in Sessions |-> Heads(out[t])] /\ Told' = [t \in Sessions |-> Heads(out'[t])]
  BY DEF Told, Heads
<1>3. Heads(Append(Append(out[s], x), y)) =
         Append(Append(Heads(out[s]), [kind |-> x.kind, seq |-> x.seq]), [kind |-> y.kind, seq |-> y.seq])
  BY <1>1, HeadsAppend
<1>4. \A t \in Sessions :
         Told'[t] = IF t = s
                    THEN Append(Append(Told[s], [kind |-> x.kind, seq |-> x.seq]),
                                [kind |-> y.kind, seq |-> y.seq])
                    ELSE Told[t]
  BY <1>1, <1>2, <1>3
<1> QED
  BY <1>2, <1>4

LEMMA DueIs ==
  ASSUME TypeInv, TypeInv'
  PROVE  /\ Due \in [Sessions -> SUBSET Nat] /\ Due' \in [Sessions -> SUBSET Nat]
         /\ \A s \in Sessions : \A i : i \in Due[s] <=>
               exists /\ i \in DOMAIN announced /\ announced[i] \in Owed(s)
         /\ \A s \in Sessions : \A i : i \in Due'[s] <=>
               exists' /\ i \in DOMAIN announced' /\ announced'[i] \in Owed(s)'
<1>1. DOMAIN announced \subseteq Nat /\ DOMAIN announced' \subseteq Nat
  BY DEF TypeInv, TypeOK
<1> QED
  BY <1>1 DEF Due

LEMMA DueKept ==
  ASSUME TypeInv, TypeInv', UNCHANGED <<exists, announced>>, NEW s \in Sessions
  PROVE  /\ Owed(s)' = Owed(s) => Due'[s] = Due[s]
         /\ Owed(s)' \subseteq Owed(s) => Due'[s] \subseteq Due[s]
<1>1. /\ \A i : i \in Due[s] <=> exists /\ i \in DOMAIN announced /\ announced[i] \in Owed(s)
      /\ \A i : i \in Due'[s] <=> exists /\ i \in DOMAIN announced /\ announced[i] \in Owed(s)'
      /\ Due[s] \subseteq Nat /\ Due'[s] \subseteq Nat
  BY DueIs
<1> QED
  BY <1>1

\* Of a dissolved conversation nothing is left.
LEMMA Void ==
  ASSUME TypeInv, TypeInv', RowInv, RowInv'
  PROVE  /\ ~exists => /\ Cardinality(Stored) = 0 /\ Unsent = {} /\ Entries = <<>>
                       /\ Due = [s \in Sessions |-> {}] /\ Told = [s \in Sessions |-> <<>>]
         /\ ~exists' => /\ Cardinality(Stored)' = 0 /\ Unsent' = {} /\ Entries' = <<>>
                        /\ Due' = [s \in Sessions |-> {}] /\ Told' = [s \in Sessions |-> <<>>]
<1>1. ASSUME ~exists
      PROVE  /\ Cardinality(Stored) = 0 /\ Unsent = {} /\ Entries = <<>>
             /\ Due = [s \in Sessions |-> {}] /\ Told = [s \in Sessions |-> <<>>]
  <2>1. Stored = {}
    BY <1>1 DEF RowInv, Stored
  <2> QED
    BY <1>1, <2>1, FS_EmptySet DEF Unsent, Entries, Due, Told
<1>2. ASSUME ~exists'
      PROVE  /\ Cardinality(Stored)' = 0 /\ Unsent' = {} /\ Entries' = <<>>
             /\ Due' = [s \in Sessions |-> {}] /\ Told' = [s \in Sessions |-> <<>>]
  <2>1. Stored' = {}
    BY <1>2 DEF RowInv, Stored
  <2> QED
    BY <1>2, <2>1, FS_EmptySet DEF Unsent, Entries, Due, Told
<1> QED
  BY <1>1, <1>2

\* Only a login brings a session online.
LEMMA OnlineStep ==
  ASSUME TypeInv, LifeInv, [Next]_vars, NEW s \in Online'
  PROVE  s \in Sessions /\ (s \in Online \/ Login(s))
<1>1. /\ conn \in [Sessions -> {"none", "open", "closing", "ended"}]
      /\ s \in auth' /\ s \in socket' /\ conn'[s] # "ended" /\ auth \subseteq Sessions
  BY DEF TypeInv, TypeOK, Online
<1>2. s \in Sessions /\ (s \in socket \/ conn[s] = "none")
  BY <1>1, ConnStep DEF ConnTypes
<1>3. CASE UNCHANGED <<conn, auth>>
  BY <1>1, <1>2, <1>3 DEF LifeInv, LifeOf, Online
<1>4. ASSUME NEW u \in Sessions, Accept(u) \/ ReadError(u) \/ StopWaiting(u)
      PROVE  s \in Online
  <2>1. auth' = auth /\ (conn'[s] = conn[s] \/ (u = s /\ conn[u] # "ended"))
    BY <1>1, <1>4 DEF Accept, ReadError, StopWaiting
  <2> QED
    BY <1>1, <1>2, <2>1 DEF LifeInv, LifeOf, Online
<1>5. ASSUME NEW u \in Sessions, Login(u)
      PROVE  s \in Online \/ Login(s)
  <2>1. conn' = conn /\ auth' = auth \cup {u} /\ socket' = socket
    BY <1>5 DEF Login, lineVars
  <2> QED
    BY <1>1, <1>5, <2>1 DEF Online
<1>6. ASSUME NEW o \in Sends, Send(o) \/ Fail(o) PROVE UNCHANGED <<conn, auth>>
  BY <1>6, SendStep DEF TypeInv
<1>7. ASSUME NEW u \in Sessions, NEW o \in Sends, Submit(u, o) PROVE UNCHANGED <<conn, auth>>
  BY <1>7 DEF Submit, connVars
<1>8. CASE RunStrand \/ Dissolve \/ UNCHANGED vars \/ \E u \in Sessions : DeliverLine(u)
  BY <1>3, <1>8 DEF RunStrand, Dissolve, DeliverLine, connVars, vars
<1> QED
  BY <1>2, <1>3, <1>4, <1>5, <1>6, <1>7, <1>8 DEF Next

-----------------------------------------------------------------------------
(* Every step is one of the log's *)

LEMMA LeaveIs ==
  ASSUME TypeInv, TypeInv', exists' = exists, Cardinality(Stored)' = Cardinality(Stored),
         Unsent' = Unsent, Entries' = Entries, Told' = Told, Online' \subseteq Online,
         \A s \in Sessions : \/ Due'[s] = Due[s]
                             \/ Due'[s] \subseteq Due[s] /\ s \notin Online'
  PROVE  Log!Leave
BY DueIs DEF Log!Leave

LEMMA Joins ==
  ASSUME IInv, IInv', NEW s \in Sessions, Login(s)
  PROVE  Log!Join(s) \/ Log!Leave
<1>1. /\ auth' = auth \cup {s} /\ UNCHANGED <<exists, seqOf, announced, pc, conn, socket, out, strand, inbox>>
  BY DEF Login, sendVars, histories, lineVars
<1>2. Cardinality(Stored)' = Cardinality(Stored) /\ Unsent' = Unsent
  BY <1>1, RowsKept
<1>3. Entries' = Entries /\ Told' = Told /\ Due' = Due
  BY <1>1 DEF Entries, Told, Due, Owed
<1>4. Online' = Online \cup {s} \/ Online' = Online
  BY <1>1 DEF Online
<1>5. CASE Online' = Online \cup {s}
  BY <1>1, <1>2, <1>3, <1>5 DEF Log!Join
<1>6. CASE Online' = Online
  BY <1>1, <1>2, <1>3, <1>6, LeaveIs DEF IInv
<1> QED
  BY <1>4, <1>5, <1>6

\* Whatever is still sent of a conversation that is dissolved.
LEMMA StaysGone ==
  ASSUME IInv, IInv', [Next]_vars, ~exists, \A s \in Sessions : ~Login(s)
  PROVE  Log!Leave
<1>1. exists = FALSE /\ exists' = FALSE
  <2>1. exists \in BOOLEAN /\ exists' \in BOOLEAN
    BY DEF IInv, TypeInv, TypeOK
  <2> QED
    BY <2>1, SeqStep DEF IInv, TypeInv
<1>2. Online' \subseteq Online
  BY OnlineStep DEF IInv
<1>3. /\ Cardinality(Stored)' = Cardinality(Stored) /\ Unsent' = Unsent /\ Entries' = Entries
      /\ Told' = Told /\ Due' = Due
  BY <1>1, Void DEF IInv
<1> QED
  BY <1>1, <1>2, <1>3, LeaveIs DEF IInv

LEMMA Dissolves ==
  ASSUME IInv, IInv', Dissolve
  PROVE  Log!Dissolve
<1>1. exists /\ exists' = FALSE /\ UNCHANGED <<auth, socket, conn>>
  BY DEF Dissolve, connVars, lineVars
<1>2. Online' = Online
  BY <1>1 DEF Online
<1>3. /\ Cardinality(Stored)' = 0 /\ Unsent' = {} /\ Entries' = <<>>
      /\ Due' = [s \in Sessions |-> {}] /\ Told' = [s \in Sessions |-> <<>>]
  BY <1>1, Void DEF IInv
<1> QED
  BY <1>1, <1>2, <1>3 DEF Log!Dissolve

\* The steps that take no row, log or line any further; whoever registers in one of
\* them is not online.
LEMMA Quiet ==
  ASSUME IInv, IInv', [Next]_vars, exists' = exists, \A s \in Sessions : ~Login(s),
         Idle, UNCHANGED seqOf, \A p \in Stored : pc'[p] = "done" <=> pc[p] = "done",
         strand' = strand \/ \E s \in Sessions :
            \/ strand' = Append(strand, [task |-> "remove", session |-> s])
            \/ strand' = Append(strand, [task |-> "register", session |-> s]) /\ s \notin auth'
  PROVE  Log!Leave
<1>1. TypeInv /\ TypeInv' /\ strand \in Seq(Tasks) /\ UNCHANGED <<out, announced>>
  BY DEF IInv, TypeInv, TypeOK, Idle
<1>2. Cardinality(Stored)' = Cardinality(Stored) /\ Unsent' = Unsent
  BY RowsKept
<1>3. Entries' = Entries /\ Told' = Told
  BY <1>1, LogKept, ToldKept DEF IInv
<1>4. Online' \subseteq Online
  BY OnlineStep DEF IInv
<1>5. ASSUME NEW s \in Sessions
      PROVE  Due'[s] = Due[s] \/ (Due'[s] \subseteq Due[s] /\ s \notin Online')
  <2>1. CASE Owed(s)' = Owed(s)
    BY <1>1, <2>1, DueKept
  <2>2. ASSUME NEW t \in Tasks, strand' = Append(strand, t), t.task = "register", t.session = s
        PROVE  s \notin auth'
    <3>1. strand' # strand
      BY <1>1, <2>2
    <3>2. ASSUME NEW x \in Tasks, strand' = Append(strand, x) PROVE x = t
      <4>1. /\ Append(strand, x)[Len(strand) + 1] = x
            /\ Append(strand, t)[Len(strand) + 1] = t
        BY <1>1, Appended
      <4> QED
        BY <2>2, <3>2, <4>1
    <3>3. ASSUME NEW u \in Sessions
          PROVE  /\ [task |-> "remove", session |-> u] \in Tasks
                 /\ [task |-> "register", session |-> u] \in Tasks
      BY TasksAre
    <3>4. PICK u \in Sessions :
             \/ strand' = Append(strand, [task |-> "remove", session |-> u])
             \/ strand' = Append(strand, [task |-> "register", session |-> u]) /\ u \notin auth'
      BY <3>1
    <3>5. \/ t = [task |-> "remove", session |-> u]
          \/ t = [task |-> "register", session |-> u] /\ u \notin auth'
      BY <3>2, <3>3, <3>4
    <3> QED
      BY <2>2, <3>5
  <2> QED
    BY <1>1, <2>1, <2>2, OwedIdle, DueKept DEF Online
<1> QED
  BY <1>1, <1>2, <1>3, <1>4, <1>5, LeaveIs

LEMMA Quiets ==
  ASSUME IInv, IInv', [Next]_vars, exists,
         \/ \E s \in Sessions : Accept(s) \/ ReadError(s) \/ StopWaiting(s)
         \/ \E s \in Sessions, o \in Sends : Submit(s, o)
         \/ \E o \in Sends : Start(o) \/ Check(o) \/ ReadSeq(o)
         \/ UNCHANGED vars
  PROVE  Log!Leave
<1>1. TypeInv /\ LifeInv /\ RowInv /\ pc \in [Sends -> Steps]
      /\ \A s \in Sessions : {[task |-> "remove", session |-> s], [task |-> "register", session |-> s]}
                                \subseteq Registering
  <2>1. ASSUME NEW s \in Sessions
        PROVE  /\ [task |-> "remove", session |-> s] \in Registering
               /\ [task |-> "register", session |-> s] \in Registering
    BY TasksAre DEF Registering
  <2> QED
    BY <2>1 DEF IInv, TypeInv, TypeOK
<1>2. ASSUME UNCHANGED <<exists, seqOf, auth, inbox, out, announced>>,
             \A p \in Stored : pc'[p] = "done" <=> pc[p] = "done",
             strand' = strand \/ \E s \in Sessions :
                \/ strand' = Append(strand, [task |-> "remove", session |-> s])
                \/ strand' = Append(strand, [task |-> "register", session |-> s]) /\ s \notin auth
      PROVE  Log!Leave
  <2>1. \A s \in Sessions : ~Login(s)
    BY <1>2 DEF Login
  <2>2. Idle
    BY <1>1, <1>2 DEF Idle
  <2> QED
    BY <1>2, <2>1, <2>2, Quiet
<1>3. ASSUME NEW s \in Sessions, Accept(s) PROVE Log!Leave
  BY <1>1, <1>2, <1>3 DEF Accept, sendVars, histories, LifeInv, LifeOf
<1>4. ASSUME NEW s \in Sessions, ReadError(s) \/ StopWaiting(s) PROVE Log!Leave
  BY <1>2, <1>4 DEF ReadError, StopWaiting, sendVars, histories, lineVars
<1>5. ASSUME NEW s \in Sessions, NEW o \in Sends, Submit(s, o) PROVE Log!Leave
  <2>1. \A p \in Stored : pc'[p] = "done" <=> pc[p] = "done"
    BY <1>1, <1>5 DEF Submit, Stored
  <2> QED
    BY <1>2, <1>5, <2>1 DEF Submit, connVars, lineVars
<1>6. ASSUME NEW o \in Sends, Start(o) \/ Check(o) \/ ReadSeq(o) PROVE Log!Leave
  <2>1. \A p \in Stored : pc'[p] = "done" <=> pc[p] = "done"
    <3>1. CASE Start(o) \/ Check(o)
      <4>1. o \notin Stored
        BY <1>1, <3>1 DEF Start, Check, RowInv, Stored
      <4>2. \A p \in Sends : p # o => pc'[p] = pc[p]
        BY <3>1, StepTo DEF Send, IInv, TypeInv
      <4> QED
        BY <4>1, <4>2 DEF Stored
    <3>2. CASE ReadSeq(o)
      BY <1>1, <3>2 DEF ReadSeq, GoTo, Stored
    <3> QED
      BY <1>6, <3>1, <3>2
  <2>2. UNCHANGED <<exists, seqOf, auth, inbox, out, announced, strand>>
    BY <1>6 DEF Start, Check, ReadSeq, histories, connVars, lineVars
  <2> QED
    BY <1>2, <2>1, <2>2
<1>7. CASE UNCHANGED vars
  BY <1>2, <1>7 DEF vars, sendVars, histories, connVars, lineVars
<1> QED
  BY <1>3, <1>4, <1>5, <1>6, <1>7

LEMMA Stores ==
  ASSUME IInv, IInv', [Next]_vars, exists, NEW o \in Sends, Insert(o)
  PROVE  Log!Store
<1>1. /\ TypeInv /\ SeqDense /\ seqOf[o] = 0 /\ seqOf \in [Sends -> Seqs] /\ pc \in [Sends -> Steps]
      /\ pc[o] = "append" /\ pc' = [pc EXCEPT ![o] = "readSeq"]
      /\ seqOf' = [seqOf EXCEPT ![o] = NextSeq]
      /\ UNCHANGED <<exists, auth, conn, socket, inbox, out, announced, strand>>
  BY DEF Insert, GoTo, IInv, TypeInv, TypeOK, RowInv, histories, connVars, lineVars
<1> DEFINE n == Cardinality(Stored)
<1>2. IsFiniteSet(Stored) /\ n \in Nat /\ NextSeq = n + 1
  BY <1>1, Numbering DEF TypeInv
<1>3. Stored' = Stored \cup {o} /\ o \notin Stored
  BY <1>1, <1>2 DEF Stored
<1>4. Cardinality(Stored)' = n + 1
  BY <1>2, <1>3, FS_AddElement
<1>5. Unsent' = Unsent \cup {n + 1}
  <2>1. {p \in Stored' : pc'[p] # "done"} = {p \in Stored : pc[p] # "done"} \cup {o}
    BY <1>1, <1>3 DEF Stored
  <2>2. seqOf'[o] = n + 1 /\ \A p \in Stored : seqOf'[p] = seqOf[p]
    BY <1>1, <1>2, <1>3 DEF Stored
  <2> QED
    BY <2>1, <2>2 DEF Unsent
<1>6. Entries' = Entries /\ Told' = Told /\ Due' = Due /\ Online' = Online
  <2>1. Entries' = Entries
    BY <1>1, LogKept DEF IInv
  <2>2. Told' = Told /\ Due' = Due /\ Online' = Online
    BY <1>1 DEF Told, Due, Owed, Online
  <2> QED
    BY <2>1, <2>2
<1> QED
  BY <1>1, <1>4, <1>5, <1>6 DEF Log!Store

\* A handler that ends without a broadcast.
LEMMA Withholds ==
  ASSUME IInv, IInv', [Next]_vars, exists, NEW o \in Sends, Fail(o) \/ Reply(o), ~Answer(o)
  PROVE  Log!Withhold \/ Log!Leave
<1>1. /\ TypeInv /\ SeqDense /\ pc[o] # "done" /\ pc' = [pc EXCEPT ![o] = "done"]
      /\ pc \in [Sends -> Steps]
      /\ UNCHANGED <<exists, seqOf, auth, conn, socket, inbox, out, announced, strand>>
  <2>1. CASE Fail(o)
    BY <2>1 DEF Fail, Finish, IInv, TypeInv, TypeOK, histories, connVars, lineVars
  <2>2. CASE Reply(o) /\ (Closing(by[o]) \/ by[o] \notin socket)
    BY <2>2 DEF Reply, Finish, IInv, TypeInv, TypeOK, connVars, lineVars
  <2>3. CASE Reply(o) /\ ~(Closing(by[o]) \/ by[o] \notin socket)
    BY <2>3 DEF Reply, AckAndQueue, Finish, Answer, AnswerQueued, AnswerHere, Answering, Broadcast
  <2> QED
    BY <2>1, <2>2, <2>3
<1>2. Entries' = Entries
  BY <1>1, LogKept DEF IInv
<1>3. Told' = Told /\ Due' = Due /\ Online' = Online
  BY <1>1 DEF Told, Due, Owed, Online
<1>4. CASE o \in Stored
  <2>1. /\ Cardinality(Stored)' = Cardinality(Stored)
        /\ seqOf[o] \in Unsent /\ Unsent' = Unsent \ {seqOf[o]}
    BY <1>1, <1>4, RowsSent
  <2> QED
    BY <1>1, <1>2, <1>3, <2>1 DEF Log!Withhold
<1>5. CASE o \notin Stored
  <2>1. Cardinality(Stored)' = Cardinality(Stored) /\ Unsent' = Unsent
    BY <1>1, <1>5, RowsKept DEF Stored
  <2> QED
    BY <1>1, <1>2, <1>3, <2>1, LeaveIs DEF IInv
<1> QED
  BY <1>4, <1>5

\* The entry a broadcast makes, whoever is handed it.
LEMMA Announced ==
  ASSUME IInv, IInv', [Next]_vars, exists, NEW o \in Sends, Reply(o), Answer(o)
  PROVE  LET n == Len(announced) + 1 IN
         /\ by[o] \in Sessions /\ by[o] \in socket /\ by[o] \in Online
         /\ UNCHANGED <<exists, auth, conn>> /\ exists'
         /\ seen[o] = seqOf[o] /\ seen[o] \in Seqs
         /\ Cardinality(Stored)' = Cardinality(Stored)
         /\ seqOf[o] \in Unsent /\ Unsent' = Unsent \ {seqOf[o]}
         /\ Entries' = Append(Entries, seqOf[o]) /\ Len(Entries') = n
         /\ \A to \in SUBSET Sessions :
               (\A t \in Sessions : Owed(t)' = IF t \in to THEN Owed(t) \cup {o} ELSE Owed(t))
                  => Due' = [t \in Sessions |-> IF t \in to THEN Due[t] \cup {n} ELSE Due[t]]
<1>1. /\ TypeInv /\ TypeInv' /\ SeqDense /\ RowInv /\ LogInv /\ LineInv
      /\ pc[o] = "reply" /\ pc' = [pc EXCEPT ![o] = "done"]
      /\ by[o] \in Sessions /\ by[o] \in socket /\ ~Closing(by[o]) /\ by[o] \in auth
      /\ announced \in Seq(Sends) /\ announced' = Append(announced, o)
      /\ Len(announced) \in Nat /\ DOMAIN announced = 1..Len(announced)
      /\ UNCHANGED <<exists, seqOf, auth, conn>>
      /\ seen[o] = seqOf[o] /\ seqOf[o] # 0 /\ seen[o] \in Seqs
  <2>1. UNCHANGED <<exists, auth, conn>>
    BY SendStep DEF Send, IInv, TypeInv
  <2>2. Answering(o)
    BY DEF Answer, AnswerQueued, AnswerHere
  <2>3. ~Closing(by[o])
    <3>1. CASE Closing(by[o])
      <4>1. announced' = announced
        BY <3>1 DEF Reply
      <4>2. announced' = Append(announced, o) /\ announced \in Seq(Sends)
        BY <2>2 DEF Answering, IInv, TypeInv, TypeOK
      <4> QED
        BY <4>1, <4>2
    <3> QED
      BY <3>1
  <2> QED
    BY <2>1, <2>2, <2>3 DEF Answering, IInv, TypeInv, TypeOK, ReadByOne, RowInv, LifeInv, SendersIn
<1> DEFINE n == Len(announced) + 1
<1>2. /\ DOMAIN announced' = DOMAIN announced \cup {n} /\ announced'[n] = o /\ n \notin DOMAIN announced
      /\ \A i \in DOMAIN announced : announced'[i] = announced[i] /\ announced[i] # o
  <2>1. \A i \in DOMAIN announced : announced[i] # o
    BY <1>1 DEF LogInv
  <2> QED
    BY <1>1, <2>1, Appended
<1>3. o \in Stored /\ pc[o] # "done"
  BY <1>1 DEF Stored
<1>4. /\ Cardinality(Stored)' = Cardinality(Stored)
      /\ seqOf[o] \in Unsent /\ Unsent' = Unsent \ {seqOf[o]}
  BY <1>1, <1>3, RowsSent
<1>5. Entries' = Append(Entries, seqOf[o]) /\ Len(Entries') = n
  <2>1. /\ \A i \in DOMAIN announced : announced[i] \in Sends /\ seqOf[announced[i]] \in Seqs
        /\ seqOf[o] \in Seqs
    BY <1>1 DEF TypeInv, TypeOK
  <2>2. Entries = [i \in 1..Len(announced) |-> seqOf[announced[i]]]
    BY <1>1 DEF Entries
  <2>3. Entries \in Seq(Seqs) /\ Len(Entries) = Len(announced)
    BY <1>1, <2>1, <2>2
  <2>4. DOMAIN announced' = 1..n
    BY <1>1
  <2>5. Entries' = [i \in 1..n |-> seqOf[announced'[i]]]
    BY <1>1, <2>4 DEF Entries
  <2>6. /\ Entries' \in Seq(Seqs) /\ Len(Entries') = n
    BY <1>1, <1>2, <2>1, <2>4, <2>5
  <2>7. \A i \in 1..n : Entries'[i] = Append(Entries, seqOf[o])[i]
    BY <1>1, <1>2, <2>1, <2>2, <2>3, <2>5
  <2>8. Append(Entries, seqOf[o]) \in Seq(Seqs) /\ Len(Append(Entries, seqOf[o])) = n
    BY <2>1, <2>3
  <2> QED
    BY <2>6, <2>7, <2>8
<1>6. ASSUME NEW to \in SUBSET Sessions,
             \A t \in Sessions : Owed(t)' = IF t \in to THEN Owed(t) \cup {o} ELSE Owed(t)
      PROVE  Due' = [t \in Sessions |-> IF t \in to THEN Due[t] \cup {n} ELSE Due[t]]
  <2>1. ASSUME NEW t \in Sessions
        PROVE  Due'[t] = IF t \in to THEN Due[t] \cup {n} ELSE Due[t]
    <3>1. Owed(t)' = IF t \in to THEN Owed(t) \cup {o} ELSE Owed(t)
      BY <1>6
    <3>2. o \notin Owed(t)
      <4>1. ~OwedIn(t, o)
        BY <1>1, OnWayDone DEF OwedIn, OnWay
      <4> QED
        BY <1>1, <4>1, OwedIs
    <3>3. ASSUME NEW i PROVE i \in Due'[t] <=> i \in Due[t] \/ (t \in to /\ i = n)
      BY <1>1, <1>2, <3>1, <3>2, DueIs
    <3> QED
      BY <3>3
  <2> HIDE DEF n
  <2> QED
    BY <1>1, <2>1, DueIs
<1>7. by[o] \in Online
  BY <1>1 DEF Online, Closing
<1> HIDE DEF n
<1> QED
  BY <1>1, <1>4, <1>5, <1>6, <1>7 DEF n

\* Queued on the server's strand, the broadcast is due to everyone.
LEMMA AnnouncesQueued ==
  ASSUME IInv, IInv', [Next]_vars, exists, NEW o \in Sends, Reply(o), AnswerQueued(o)
  PROVE  Log!Announce(by[o])
<1> DEFINE s == by[o]
           n == Len(announced) + 1
<1>1. Answer(o) /\ TypeInv /\ TypeInv'
  BY DEF Answer, IInv
<1>2. /\ s \in Sessions /\ s \in socket /\ s \in Online /\ UNCHANGED <<exists, auth, conn>> /\ exists'
      /\ seen[o] = seqOf[o] /\ seen[o] \in Seqs
      /\ Cardinality(Stored)' = Cardinality(Stored)
      /\ seqOf[o] \in Unsent /\ Unsent' = Unsent \ {seqOf[o]}
      /\ Entries' = Append(Entries, seqOf[o]) /\ Len(Entries') = n
  BY <1>1, Announced
<1>3. Due' = [t \in Sessions |-> IF t \in Sessions THEN Due[t] \cup {n} ELSE Due[t]]
  <2>1. \A t \in Sessions : Owed(t)' = IF t \in Sessions THEN Owed(t) \cup {o} ELSE Owed(t)
    BY <1>1, OwedAnswer
  <2>2. Sessions \in SUBSET Sessions
    OBVIOUS
  <2> QED
    BY <1>1, <2>1, <2>2, Announced
<1>4. Online \subseteq Sessions
  BY <1>1 DEF Online, TypeInv, TypeOK
<1>5. \/ Told' = [Told EXCEPT ![s] = Append(@, [kind |-> "ack", seq |-> seqOf[o]])] /\ Online' = Online
      \/ Online' = Online \ {s} /\ Told' = Told
  <2>1. SendTextImpl(by[o], Ack(o, seen[o]))
    BY DEF AnswerQueued
  <2>2. CASE out' = [out EXCEPT ![by[o]] = Append(@, Ack(o, seen[o]))] /\ UNCHANGED socket
    <3>1. Ack(o, seen[o]) \in Lines /\ Ack(o, seen[o]).kind = "ack" /\ Ack(o, seen[o]).seq = seqOf[o]
      BY <1>2, LinesAre
    <3>2. Told' = [Told EXCEPT ![by[o]] = Append(@, [kind |-> "ack", seq |-> seqOf[o]])]
      BY <1>1, <1>2, <2>2, <3>1, ToldLine
    <3> QED
      BY <1>2, <2>2, <3>2 DEF Online
  <2>3. CASE socket' = socket \ {by[o]} /\ UNCHANGED out
    BY <1>2, <2>3, ToldKept DEF Online
  <2> QED
    BY <1>2, <2>1, <2>2, <2>3 DEF SendTextImpl
<1> HIDE DEF n, s
<1> QED
  BY <1>2, <1>3, <1>4, <1>5 DEF Log!Announce, Log!Ack, Log!Push, s

\* Run at once, it is due to all the registered sessions but the sender's own, which
\* has it behind the ack; with nothing on the strand, whoever is online is registered.
LEMMA AnnouncesHere ==
  ASSUME IInv, IInv', [Next]_vars, exists, NEW o \in Sends, Reply(o), AnswerHere(o)
  PROVE  Log!Announce(by[o])
<1> DEFINE s == by[o]
           n == Len(announced) + 1
           to == (Recipients \ {s}) \cap Sessions
           ack == [kind |-> "ack", seq |-> seqOf[o]]
           push == [kind |-> "push", seq |-> seqOf[o]]
<1>1. Answer(o) /\ TypeInv /\ TypeInv' /\ LifeInv
  BY DEF Answer, IInv
<1>2. /\ s \in Sessions /\ s \in socket /\ s \in Online /\ UNCHANGED <<exists, auth, conn>> /\ exists'
      /\ seen[o] = seqOf[o] /\ seen[o] \in Seqs
      /\ Cardinality(Stored)' = Cardinality(Stored)
      /\ seqOf[o] \in Unsent /\ Unsent' = Unsent \ {seqOf[o]}
      /\ Entries' = Append(Entries, seqOf[o]) /\ Len(Entries') = n
  BY <1>1, Announced
<1>3. Due' = [t \in Sessions |-> IF t \in to THEN Due[t] \cup {n} ELSE Due[t]]
  <2>1. \A t \in Sessions : Owed(t)' = IF t \in to THEN Owed(t) \cup {o} ELSE Owed(t)
    BY <1>1, OwedHere
  <2> HIDE DEF to
  <2>2. to \in SUBSET Sessions
    BY DEF to
  <2> QED
    BY <1>1, <2>1, <2>2, Announced
<1>4. Online \subseteq Recipients /\ Online \subseteq Sessions
  <2> SUFFICES ASSUME NEW t \in Online PROVE t \in Recipients /\ t \in Sessions
    OBVIOUS
  <2>1. t \in auth /\ t \in Sessions /\ conn[t] # "ended"
        /\ conn \in [Sessions -> {"none", "open", "closing", "ended"}]
    BY <1>1 DEF Online, TypeInv, TypeOK
  <2>2. \A i \in Nat : ~Registers(t, i)
    BY Here, <1>1 DEF Registers
  <2> QED
    BY <1>1, <2>1, <2>2 DEF LifeInv, LifeOf, Recipients
<1>5. SendTextImplTwice(s, Ack(o, seen[o]), Push(o, seen[o]))
  BY <1>2, <1>4 DEF AnswerHere, AckAndBroadcast
<1>6. /\ Ack(o, seen[o]) \in Lines /\ Ack(o, seen[o]).kind = "ack" /\ Ack(o, seen[o]).seq = seqOf[o]
      /\ Push(o, seen[o]) \in Lines /\ Push(o, seen[o]).kind = "push" /\ Push(o, seen[o]).seq = seqOf[o]
  BY <1>2, LinesAre
<1>7. \/ Told' = [Told EXCEPT ![s] = Append(Append(@, ack), push)] /\ Online' = Online
      \/ Told' \in {Told, [Told EXCEPT ![s] = Append(@, ack)]} /\ Online' = Online \ {s}
  <2>1. CASE /\ out' = [out EXCEPT ![s] = Append(Append(@, Ack(o, seen[o])), Push(o, seen[o]))]
             /\ UNCHANGED socket
    <3>1. Told' = [Told EXCEPT ![s] = Append(Append(@, ack), push)]
      BY <1>1, <1>2, <1>6, <2>1, ToldTwo
    <3> QED
      BY <1>2, <2>1, <3>1 DEF Online
  <2>2. CASE socket' = socket \ {s} /\ UNCHANGED out
    BY <1>2, <2>2, ToldKept DEF Online
  <2>3. CASE socket' = socket \ {s} /\ out' = [out EXCEPT ![s] = Append(@, Ack(o, seen[o]))]
    <3>1. Told' = [Told EXCEPT ![s] = Append(@, ack)]
      BY <1>1, <1>2, <1>6, <2>3, ToldLine
    <3> QED
      BY <1>2, <2>3, <3>1 DEF Online
  <2> QED
    BY <1>2, <1>5, <2>1, <2>2, <2>3 DEF SendTextImplTwice
<1>8. to \in SUBSET Sessions /\ Online \ {s} \subseteq to /\ s \notin to
  BY <1>4
<1> HIDE DEF n, s, to
<1> QED
  BY <1>2, <1>3, <1>7, <1>8 DEF Log!Announce, Log!Ack, Log!Push, s

LEMMA Spreads ==
  ASSUME IInv, IInv', [Next]_vars, exists, RunStrand
  PROVE  Log!Leave
<1>1. /\ TypeInv /\ TypeInv' /\ LifeInv /\ Spread
      /\ UNCHANGED <<exists, seqOf, auth, conn, socket, out, announced, pc>>
  <2>1. UNCHANGED <<exists, seqOf, auth, conn, socket, out, announced, pc, strand>> \/ Spread
    <3>1. strand' = Tail(strand) /\ strand # <<>> /\ strand \in Seq(Tasks)
      BY DEF RunStrand, IInv, TypeInv, TypeOK
    <3>2. strand' # strand /\ \A t : strand' # Append(strand, t)
      BY <3>1
    <3> QED
      BY <3>1, <3>2, QueueStep
         DEF IInv, TypeInv, Idle, Answer, AnswerQueued, AnswerHere, AckAndBroadcast, DeliverLine
  <2> QED
    BY <2>1 DEF RunStrand, IInv, connVars, lineVars, sendVars, histories
<1>2. Cardinality(Stored)' = Cardinality(Stored) /\ Unsent' = Unsent
  BY <1>1, RowsKept
<1>3. Entries' = Entries /\ Told' = Told
  BY <1>1, LogKept, ToldKept DEF IInv
<1>4. Online' = Online
  BY <1>1 DEF Online
<1>5. ASSUME NEW s \in Sessions
      PROVE  Due'[s] = Due[s] \/ (Due'[s] \subseteq Due[s] /\ s \notin Online')
  BY <1>1, <1>4, OwedSpread, DueKept
<1> QED
  BY <1>1, <1>2, <1>3, <1>4, <1>5, LeaveIs

\* The push that leaves the strand of s is of the first place of the log that s is owed.
LEMMA Tells ==
  ASSUME IInv, IInv', [Next]_vars, exists, NEW s \in Sessions, DeliverLine(s)
  PROVE  Log!Tell(s) \/ Log!Leave
<1> DEFINE line == Head(inbox[s])
<1>1. /\ TypeInv /\ TypeInv' /\ LineInv /\ WayInv /\ LogInv
      /\ inbox[s] # <<>> /\ inbox[s] \in Seq(Lines) /\ SendTextImpl(s, line)
      /\ UNCHANGED <<exists, seqOf, pc, announced, auth, conn>>
      /\ exists' = TRUE
  BY DEF IInv, TypeInv, TypeOK, DeliverLine, sendVars, histories, connVars
<1>2. /\ line \in Lines /\ line.kind = "push" /\ line.send \in Sends /\ line.seq = seqOf[line.send]
      /\ InBox(s, 1, line.send)
  <2>1. line \in Lines /\ 1 \in DOMAIN inbox[s] /\ line = inbox[s][1]
    BY <1>1, Taken
  <2> QED
    BY <1>1, <2>1 DEF LineInv, LineOK, InBox, Lines
<1>3. PICK h \in Sends : h = line.send
  BY <1>2
<1>4. PICK i \in DOMAIN announced : announced[i] = h
  BY <1>1, <1>2, <1>3 DEF LogInv, OnWay
<1>5. i \in Nat /\ \A j \in DOMAIN announced : j \in Nat /\ announced[j] \in Sends
  BY <1>1, <1>4 DEF TypeInv, TypeOK
<1>6. /\ \A j : j \in Due[s] <=> j \in DOMAIN announced /\ announced[j] \in Owed(s)
      /\ \A j : j \in Due'[s] <=> j \in DOMAIN announced /\ announced[j] \in Owed(s)'
      /\ Due \in [Sessions -> SUBSET Nat] /\ Due' \in [Sessions -> SUBSET Nat]
  BY <1>1, DueIs
<1>7. Owed(s)' = Owed(s) \ {h} /\ h \in Owed(s)
  <2>1. Owed(s)' = Owed(s) \ {line.send}
    BY <1>1, OwedDeliver
  <2>2. OwedIn(s, h)
    BY <1>2, <1>3 DEF OwedIn
  <2> QED
    BY <1>1, <1>3, <2>1, <2>2, OwedIs
<1>8. Due'[s] = Due[s] \ {i} /\ i \in Due[s]
  <2>1. \A j \in DOMAIN announced : announced[j] = h => j = i
    BY <1>1, <1>4 DEF LogInv
  <2>2. \A j : j \in Due'[s] <=> j \in Due[s] /\ j # i
    BY <1>4, <1>6, <1>7, <2>1
  <2> QED
    BY <1>4, <1>6, <1>7, <2>2
<1>9. \A t \in Sessions : t # s => Due'[t] = Due[t]
  BY <1>1, OwedDeliver, DueKept
<1>10. ASSUME NEW j \in Due[s] PROVE i <= j
  <2>1. j \in DOMAIN announced /\ OwedIn(s, announced[j])
    BY <1>1, <1>6, <1>10, OwedIs
  <2>2. CASE announced[j] = h
    BY <1>1, <1>4, <1>5, <2>1, <2>2 DEF LogInv
  <2>3. CASE announced[j] # h
    <3>1. Ahead(s, h, announced[j])
      <4>1. ASSUME NEW k \in Nat, InStrand(k, announced[j]) PROVE Ahead(s, h, announced[j])
        BY <1>2, <1>3, <4>1 DEF Ahead
      <4>2. ASSUME NEW k \in Nat, InBox(s, k, announced[j]) PROVE Ahead(s, h, announced[j])
        <5>1. k # 0 /\ k # 1
          BY <1>1, <1>2, <1>3, <2>3, <4>2 DEF InBox
        <5>2. 1 < k
          BY <5>1
        <5> QED
          BY <1>2, <1>3, <4>2, <5>2 DEF Ahead
      <4> QED
        BY <2>1, <4>1, <4>2 DEF OwedIn
    <3>2. ~SentOwn(s, h)
      <4>1. ASSUME NEW k \in Nat, InOut(s, k, h) PROVE FALSE
        BY <1>1, <1>2, <1>3, <4>1 DEF WayInv, Ahead
      <4> QED
        BY <4>1 DEF SentOwn
    <3> QED
      BY <1>1, <1>4, <1>5, <2>1, <3>1, <3>2 DEF LogInv
  <2> QED
    BY <2>2, <2>3
<1>11. Cardinality(Stored)' = Cardinality(Stored) /\ Unsent' = Unsent
  BY <1>1, RowsKept
<1>12. Entries' = Entries /\ Entries[i] = seqOf[h]
  <2>1. Entries' = Entries
    BY <1>1, LogKept DEF IInv
  <2> QED
    BY <1>4, <2>1 DEF Entries
<1>13. CASE out' = [out EXCEPT ![s] = Append(@, line)] /\ UNCHANGED socket
  <2>1. Told' = [Told EXCEPT ![s] = Append(@, [kind |-> "push", seq |-> Entries[i]])]
    <3> HIDE DEF line
    <3>1. Told' = [Told EXCEPT ![s] = Append(@, [kind |-> line.kind, seq |-> line.seq])]
      BY <1>1, <1>2, <1>13, ToldLine
    <3> QED
      BY <1>2, <1>3, <1>12, <3>1
  <2>2. Online' = Online
    BY <1>1, <1>13 DEF Online
  <2>3. Due' = [Due EXCEPT ![s] = @ \ {i}]
    BY <1>6, <1>8, <1>9
  <2> QED
    BY <1>1, <1>8, <1>10, <1>11, <1>12, <2>1, <2>2, <2>3 DEF Log!Tell, Log!Push
<1>14. CASE socket' = socket \ {s} /\ UNCHANGED out
  <2>1. Online' \subseteq Online /\ s \notin Online'
    BY <1>1, <1>14 DEF Online
  <2>2. Told' = Told
    BY <1>1, <1>14, ToldKept
  <2> QED
    BY <1>1, <1>8, <1>9, <1>11, <1>12, <2>1, <2>2, LeaveIs
<1>15. CASE s \notin socket /\ UNCHANGED lineVars
  <2>1. Online' = Online /\ s \notin Online'
    BY <1>1, <1>15 DEF Online, lineVars
  <2>2. Told' = Told
    BY <1>1, <1>15, ToldKept DEF lineVars
  <2> QED
    BY <1>1, <1>8, <1>9, <1>11, <1>12, <2>1, <2>2, LeaveIs
<1> QED
  BY <1>1, <1>13, <1>14, <1>15 DEF SendTextImpl

LEMMA LogInit == Init => Log!Init
<1> SUFFICES ASSUME Init PROVE Log!Init
  OBVIOUS
<1>1. Stored = {} /\ exists = TRUE
  BY DEF Init, Stored
<1>2. Cardinality(Stored) = 0 /\ Unsent = {}
  BY <1>1, FS_EmptySet DEF Unsent
<1>3. Entries = <<>> /\ Due = [s \in Sessions |-> {}] /\ Told = [s \in Sessions |-> <<>>]
  <2>1. announced = <<>> /\ \A s \in Sessions : out[s] = <<>>
    BY DEF Init
  <2> QED
    BY <1>1, <2>1 DEF Entries, Due, Told
<1>4. Online = {}
  BY DEF Init, Online
<1> QED
  BY <1>1, <1>2, <1>3, <1>4 DEF Log!Init

LEMMA LogNext ==
  ASSUME IInv, IInv', [Next]_vars
  PROVE  Log!Next
<1>1. ASSUME NEW s \in Sessions, Login(s) PROVE Log!Next
  BY <1>1, Joins DEF Log!Next
<1>2. CASE Dissolve
  BY <1>2, Dissolves DEF Log!Next
<1>3. CASE ~exists /\ \A s \in Sessions : ~Login(s)
  BY <1>3, StaysGone DEF Log!Next
<1>4. ASSUME exists,
             \/ \E s \in Sessions : Accept(s) \/ ReadError(s) \/ StopWaiting(s)
             \/ \E s \in Sessions, o \in Sends : Submit(s, o)
             \/ \E o \in Sends : Start(o) \/ Check(o) \/ ReadSeq(o)
             \/ UNCHANGED vars
      PROVE  Log!Next
  BY <1>4, Quiets DEF Log!Next
<1>5. ASSUME exists, NEW o \in Sends, Insert(o) PROVE Log!Next
  BY <1>5, Stores DEF Log!Next
<1>6. ASSUME exists, NEW o \in Sends, Fail(o) \/ Reply(o) PROVE Log!Next
  <2>1. CASE ~Answer(o)
    BY <1>6, <2>1, Withholds DEF Log!Next
  <2>2. CASE Answer(o)
    <3>1. Reply(o)
      BY <1>6, <2>2 DEF Fail, Answer, AnswerQueued, AnswerHere, Answering
    <3>2. by[o] \in Sessions
      BY <2>2 DEF Answer, AnswerQueued, AnswerHere, Answering, IInv, TypeInv, ReadByOne
    <3> QED
      BY <1>6, <2>2, <3>1, <3>2, AnnouncesQueued, AnnouncesHere DEF Log!Next, Answer
  <2> QED
    BY <2>1, <2>2
<1>7. ASSUME exists, RunStrand PROVE Log!Next
  BY <1>7, Spreads DEF Log!Next
<1>8. ASSUME exists, NEW s \in Sessions, DeliverLine(s) PROVE Log!Next
  BY <1>8, Tells DEF Log!Next
<1> QED
  BY <1>1, <1>2, <1>3, <1>4, <1>5, <1>6, <1>7, <1>8 DEF Next, Send

\* The server's coroutines, strands and queues come to one log of the conversation, of
\* which every session that is online is told each entry once, in order, and the sender
\* of an entry first that it is stored.
THEOREM OneLog == Spec => ImplementsLog
<1>1. IInv /\ IInv' /\ [Next]_vars => [Log!Next]_(Log!vars)
  BY LogNext
<1> QED
  BY <1>1, LogInit, Invariance, PTL DEF Spec, ImplementsLog, Log!Spec
=============================================================================
