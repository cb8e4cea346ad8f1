-------------------------- MODULE ReactionsProofs --------------------------
(***************************************************************************)
(* Reactions for any users, admins and number of requests: the clients     *)
(* come to agree, but for one whose own push went ahead, on what the table *)
(* holds when no read was overtaken and no query failed, and a recall      *)
(* reaches everyone.                                                       *)
(*                                                                         *)
(* The pushes on their way to a client are those in its session's inbox    *)
(* and then those on the server's strand.  What a client will show once    *)
(* they have arrived is the same for all clients at any moment: an answer  *)
(* changes it for its actor only together with the push for all the        *)
(* others, and for the actor who goes ahead it is left open until the next *)
(* reactions are announced.                                                *)
(***************************************************************************)
EXTENDS Reactions, SequenceTheorems, TLAPS

Way(u) == inbox[u] \o strand

\* A client that shows f shows x once the pushes q have arrived.
Ends(q, f, x) ==
    \/ f = x /\ \A i \in DOMAIN q : q[i].push = "recalled"
    \/ \E i \in DOMAIN q : /\ q[i].push = "reactions" /\ q[i].seen = x
                           /\ \A j \in DOMAIN q : j > i => q[j].push = "recalled"

JobInv ==
    /\ \A u \in Users : At(u, "finish") =>
         /\ job[u].at <= changes
         /\ job[u].at = changes => job[u].seen = table
    /\ \A u \in Users : At(u, "read") => job[u].op.op # "recall"
    /\ ~At(Sender, "role")
    /\ At(Sender, "write") => job[Sender].op.op # "react"

\* The latest change has been broadcast, is about to be, or is lost.
ChangeInv ==
    \/ newest = changes \/ lost # {}
    \/ \E u \in Users : \/ At(u, "read")
                        \/ At(u, "finish") /\ job[u].op.op # "recall" /\ job[u].at = changes

AgreeInv ==
    \E x \in Snapshots :
       /\ \A u \in Users \ ahead : Ends(Way(u), file[u], x)
       /\ lost = {} /\ newest = changes => x = table

\* The recall is at everyone or on its way, or its handler is about to announce it.
RecallInv ==
    recalled =>
       \/ \A u \in Users : \/ u \in gone \cup reopened
                           \/ \E i \in DOMAIN Way(u) : Way(u)[i].push = "recalled"
       \/ \E v \in Users : At(v, "finish") /\ job[v].op.op = "recall"

IInv == TypeOK /\ JobInv /\ ChangeInv /\ AgreeInv /\ RecallInv

USE ReactionConstants
-----------------------------------------------------------------------------
(* Queues of pushes *)

LEMMA Appended ==
  ASSUME NEW S, NEW q \in Seq(S), NEW e \in S
  PROVE  /\ Append(q, e) \in Seq(S)
         /\ DOMAIN q = 1..Len(q) /\ Len(q) \in Nat
         /\ DOMAIN Append(q, e) = 1..(Len(q) + 1)
         /\ Append(q, e)[Len(q) + 1] = e
         /\ \A i \in 1..Len(q) : Append(q, e)[i] = q[i]
  OBVIOUS

LEMMA Taken ==
  ASSUME NEW S, NEW q \in Seq(S), q # <<>>
  PROVE  /\ Tail(q) \in Seq(S) /\ Head(q) \in S
         /\ DOMAIN q = 1..Len(q) /\ Len(q) \in Nat \ {0} /\ Head(q) = q[1]
         /\ DOMAIN Tail(q) = 1..(Len(q) - 1)
         /\ \A i \in 1..(Len(q) - 1) : Tail(q)[i] = q[i + 1]
  OBVIOUS

\* A push moves from the strand to an inbox, and leaves an inbox.
LEMMA Moved ==
  ASSUME NEW S, NEW a \in Seq(S), NEW s \in Seq(S), s # <<>>
  PROVE  Append(a, Head(s)) \o Tail(s) = a \o s
<1>1. s = <<Head(s)>> \o Tail(s) /\ Head(s) \in S /\ Tail(s) \in Seq(S)
  OBVIOUS
<1>2. Append(a, Head(s)) = a \o <<Head(s)>> /\ <<Head(s)>> \in Seq(S)
  BY <1>1
<1> QED
  BY <1>1, <1>2, ConcatAssociative

LEMMA Left ==
  ASSUME NEW S, NEW a \in Seq(S), NEW s \in Seq(S), a # <<>>
  PROVE  /\ a \o s \in Seq(S) /\ a \o s # <<>>
         /\ Head(a \o s) = Head(a) /\ Tail(a \o s) = Tail(a) \o s
  OBVIOUS

LEMMA EndsAppend ==
  ASSUME NEW q \in Seq(Pushes), NEW e \in Pushes, NEW f, NEW x
  PROVE  /\ e.push = "reactions" => Ends(Append(q, e), f, e.seen)
         /\ e.push = "recalled" /\ Ends(q, f, x) => Ends(Append(q, e), f, x)
<1> DEFINE r == Append(q, e)
           n == Len(q) + 1
<1>1. /\ DOMAIN q = 1..Len(q) /\ Len(q) \in Nat /\ DOMAIN r = 1..n
      /\ r[n] = e /\ \A i \in 1..Len(q) : r[i] = q[i]
  BY Appended
<1> HIDE DEF r
<1>2. ASSUME e.push = "reactions" PROVE Ends(r, f, e.seen)
  BY <1>1, <1>2 DEF Ends
<1>3. ASSUME e.push = "recalled", Ends(q, f, x) PROVE Ends(r, f, x)
  BY <1>1, <1>3 DEF Ends
<1> QED
  BY <1>2, <1>3 DEF r

LEMMA EndsTail ==
  ASSUME NEW q \in Seq(Pushes), q # <<>>, NEW f, NEW x, Ends(q, f, x)
  PROVE  /\ Head(q).push = "reactions" => Ends(Tail(q), Head(q).seen, x)
         /\ Head(q).push = "recalled" => Ends(Tail(q), f, x)
<1> DEFINE r == Tail(q)
           h == Head(q)
<1>1. /\ DOMAIN q = 1..Len(q) /\ Len(q) \in Nat \ {0} /\ DOMAIN r = 1..(Len(q) - 1)
      /\ h = q[1] /\ \A i \in 1..(Len(q) - 1) : r[i] = q[i + 1]
  BY Taken
<1> HIDE DEF r, h
<1>2. \A i \in DOMAIN q : i = 1 \/ (i - 1 \in DOMAIN r /\ r[i - 1] = q[i])
  BY <1>1
<1>3. \A i \in DOMAIN r : i + 1 \in DOMAIN q /\ r[i] = q[i + 1] /\ i + 1 > 1
  BY <1>1
<1> DEFINE Goal == /\ h.push = "reactions" => Ends(r, h.seen, x)
                   /\ h.push = "recalled" => Ends(r, f, x)
<1>4. ASSUME f = x /\ \A i \in DOMAIN q : q[i].push = "recalled"
      PROVE  Goal
  BY <1>1, <1>3, <1>4 DEF Ends
<1>5. ASSUME \E i \in DOMAIN q : /\ q[i].push = "reactions" /\ q[i].seen = x
                                 /\ \A j \in DOMAIN q : j > i => q[j].push = "recalled"
      PROVE  Goal
  <2>1. PICK i \in DOMAIN q : /\ q[i].push = "reactions" /\ q[i].seen = x
                              /\ \A j \in DOMAIN q : j > i => q[j].push = "recalled"
    BY <1>5
  <2>2. CASE i = 1
    <3>1. \A j \in DOMAIN r : r[j].push = "recalled"
      BY <1>1, <1>3, <2>1, <2>2
    <3> QED
      BY <1>1, <2>1, <2>2, <3>1 DEF Ends
  <2>3. CASE i # 1
    <3>1. i - 1 \in DOMAIN r /\ r[i - 1] = q[i]
      BY <1>2, <2>3
    <3>2. \A j \in DOMAIN r : j > i - 1 => r[j].push = "recalled"
      BY <1>1, <1>3, <2>1
    <3>3. \E k \in DOMAIN r : /\ r[k].push = "reactions" /\ r[k].seen = x
                               /\ \A j \in DOMAIN r : j > k => r[j].push = "recalled"
      BY <2>1, <3>1, <3>2
    <3> QED
      BY <3>3 DEF Ends
  <2> QED
    BY <2>2, <2>3
<1> QED
  BY <1>4, <1>5 DEF Ends, r, h

LEMMA PushKinds ==
  ASSUME NEW e \in Pushes
  PROVE  /\ e.push \in {"recalled", "reactions"}
         /\ e.push = "reactions" => e.seen \in Snapshots
  BY DEF Pushes

-----------------------------------------------------------------------------
(* Jobs *)

Asking == {"check", "role", "write", "read"}

LEMMA JobsAre ==
  ASSUME NEW j \in Jobs
  PROVE  /\ j.step \in {"idle", "finish"} \cup Asking
         /\ j.step = "idle" <=> j = Idle
         /\ j.step \in Asking =>
              /\ j.op \in Ops
              /\ \A s \in Asking : [j EXCEPT !.step = s] = [step |-> s, op |-> j.op]
         /\ j.step = "finish" => j.op \in Ops /\ j.seen \in Snapshots /\ j.at \in Nat
<1>1. CASE j = Idle
  BY <1>1 DEF Idle, Asking
<1>2. CASE j \in [step : Asking, op : Ops]
  BY <1>2 DEF Idle, Asking
<1>3. CASE j \in [step : {"finish"}, op : Ops, seen : Snapshots, at : Nat]
  BY <1>3 DEF Idle, Asking
<1> QED
  BY <1>1, <1>2, <1>3 DEF Jobs, Asking

LEMMA JobsIn ==
  /\ Idle \in Jobs
  /\ \A s \in Asking, op \in Ops : [step |-> s, op |-> op] \in Jobs
  /\ \A op \in Ops, seen \in Snapshots, at \in Nat :
       [step |-> "finish", op |-> op, seen |-> seen, at |-> at] \in Jobs
BY DEF Jobs, Asking

LEMMA OpsAre ==
  ASSUME NEW op \in Ops
  PROVE  /\ op.op \in {"react", "unreact", "recall"}
         /\ op.op # "recall" => op.reaction \in Reactions
BY DEF Ops

\* What a step does to the jobs: it ends one, moves one on, or hands one the
\* table to be broadcast.
LEMMA Moves ==
  ASSUME TypeOK, NEW u \in Users
  PROVE  /\ End(u) => /\ job' \in [Users -> Jobs] /\ job'[u] = Idle
                      /\ \A v \in Users : v # u => job'[v] = job[v]
         /\ \A s \in Asking : job[u].step \in Asking /\ Goto(u, s) =>
               /\ job' \in [Users -> Jobs] /\ job'[u] = [step |-> s, op |-> job[u].op]
               /\ \A v \in Users : v # u => job'[v] = job[v]
         /\ job[u].step \in Asking /\ Finish(u) =>
               /\ job' \in [Users -> Jobs]
               /\ job'[u] = [step |-> "finish", op |-> job[u].op, seen |-> table, at |-> changes]
               /\ \A v \in Users : v # u => job'[v] = job[v]
<1>1. job \in [Users -> Jobs] /\ table \in Snapshots /\ changes \in Nat
  BY DEF TypeOK
<1>2. job[u] \in Jobs
  BY <1>1
<1>3. ASSUME NEW k \in Jobs, job' = [job EXCEPT ![u] = k]
      PROVE  /\ job' \in [Users -> Jobs] /\ job'[u] = k
             /\ \A v \in Users : v # u => job'[v] = job[v]
  BY <1>1, <1>3
<1>4. ASSUME End(u) PROVE job' = [job EXCEPT ![u] = Idle] /\ Idle \in Jobs
  BY <1>4, JobsIn DEF End
<1>5. ASSUME NEW s \in Asking, job[u].step \in Asking, Goto(u, s)
      PROVE  /\ job' = [job EXCEPT ![u] = [step |-> s, op |-> job[u].op]]
             /\ [step |-> s, op |-> job[u].op] \in Jobs
  <2>1. job' = [job EXCEPT ![u] = [job[u] EXCEPT !.step = s]]
    BY <1>5 DEF Goto
  <2> QED
    BY <1>2, <1>5, <2>1, JobsAre, JobsIn
<1>6. ASSUME job[u].step \in Asking, Finish(u)
      PROVE  /\ job' = [job EXCEPT ![u] = [step |-> "finish", op |-> job[u].op,
                                           seen |-> table, at |-> changes]]
             /\ [step |-> "finish", op |-> job[u].op, seen |-> table, at |-> changes] \in Jobs
  <2>1. job[u].op \in Ops
    BY <1>2, <1>6, JobsAre
  <2> QED
    BY <1>1, <1>6, <2>1, JobsIn DEF Finish
<1> QED
  BY <1>3, <1>4, <1>5, <1>6

-----------------------------------------------------------------------------
(* What the steps do *)

\* A request taken, checked or failed: nothing is read or announced.
LEMMA PlainSteps ==
  ASSUME TypeOK, JobInv, NEW u \in Users,
         (\E op \in Ops : Take(u, op)) \/ Check(u) \/ Role(u) \/ Fail(u)
  PROVE  /\ UNCHANGED <<tables, strand, inbox, clients, newest, ahead>>
         /\ made' \in 0..MaxRequests
         /\ job' \in [Users -> Jobs]
         /\ \A v \in Users : v # u => job'[v] = job[v]
         /\ job'[u].step \in {"idle", "check", "role", "write"}
         /\ job'[u].step = "write" => job'[u].op.op # "react" \/ u # Sender
         /\ job'[u].step = "role" => u # Sender
         /\ ~At(u, "finish")
         /\ lost \subseteq lost' /\ lost' \subseteq lost \cup {"failed"}
         /\ At(u, "read") => lost' # {}
<1> USE DEF At, histories
<1>1. job \in [Users -> Jobs] /\ made \in 0..MaxRequests /\ job[u] \in Jobs
  BY DEF TypeOK
<1>2. ASSUME NEW op \in Ops, Take(u, op)
      PROVE  /\ job' = [job EXCEPT ![u] = [step |-> IF op.op = "unreact" THEN "write" ELSE "check",
                                           op |-> op]]
             /\ job[u] = Idle
  BY <1>2 DEF Take
<1>3. ASSUME NEW op \in Ops, Take(u, op)
      PROVE  /\ job' \in [Users -> Jobs] /\ \A v \in Users : v # u => job'[v] = job[v]
             /\ job'[u].op = op /\ job'[u].step \in {"check", "write"}
             /\ job'[u].step = "write" => op.op = "unreact"
             /\ job[u].step = "idle"
  <2> DEFINE k == [step |-> IF op.op = "unreact" THEN "write" ELSE "check", op |-> op]
  <2>1. k \in Jobs
    BY JobsIn DEF Asking
  <2>2. job' = [job EXCEPT ![u] = k] /\ job[u].step = "idle"
    BY <1>2, <1>3 DEF Idle
  <2> QED
    BY <1>1, <2>1, <2>2
<1>4. CASE \E op \in Ops : Take(u, op)
  <2>1. PICK op \in Ops : Take(u, op)
    BY <1>4
  <2>2. made' \in 0..MaxRequests /\ UNCHANGED <<tables, strand, inbox, clients, histories>>
    BY <1>1, <2>1 DEF Take
  <2> QED
    BY <1>3, <2>1, <2>2
<1>5. ASSUME Check(u) \/ Role(u)
      PROVE  /\ \/ End(u)
                \/ Goto(u, "role") /\ u # Sender
                \/ Goto(u, "write") /\ (job[u].op.op # "react" \/ u # Sender)
             /\ job[u].step \in {"check", "role"}
             /\ UNCHANGED <<tables, made, strand, inbox, clients, histories>>
  <2>1. u = Sender => job[u].step # "role"
    BY DEF JobInv
  <2>2. CASE Check(u)
    <3>1. job[u].step = "check" /\ UNCHANGED <<tables, made, strand, inbox, clients, histories>>
      BY <2>2 DEF Check
    <3>2. CASE job[u].op.op = "react"
      BY <2>2, <3>1, <3>2 DEF Check
    <3>3. CASE job[u].op.op # "react"
      BY <2>2, <3>1, <3>3 DEF Check
    <3> QED
      BY <3>2, <3>3
  <2>3. CASE Role(u)
    BY <2>1, <2>3 DEF Role
  <2> QED
    BY <1>5, <2>2, <2>3
<1>6. CASE Check(u) \/ Role(u)
  <2>1. job[u].step \in Asking /\ {"role", "write"} \subseteq Asking /\ Idle.step = "idle"
    BY <1>5, <1>6 DEF Asking, Idle
  <2>2. /\ job' \in [Users -> Jobs] /\ \A v \in Users : v # u => job'[v] = job[v]
        /\ \/ job'[u] = Idle
           \/ job'[u] = [step |-> "role", op |-> job[u].op] /\ u # Sender
           \/ /\ job'[u] = [step |-> "write", op |-> job[u].op]
              /\ job[u].op.op # "react" \/ u # Sender
    <3>1. CASE End(u)
      BY <2>1, <3>1, Moves
    <3>2. CASE Goto(u, "role") /\ u # Sender
      BY <2>1, <3>2, Moves
    <3>3. CASE Goto(u, "write") /\ (job[u].op.op # "react" \/ u # Sender)
      BY <2>1, <3>3, Moves
    <3> QED
      BY <1>5, <1>6, <3>1, <3>2, <3>3
  <2>3. /\ job'[u].step \in {"idle", "role", "write"}
        /\ job'[u].step = "write" => job'[u].op.op # "react" \/ u # Sender
        /\ job'[u].step = "role" => u # Sender
    BY <2>1, <2>2
  <2> QED
    BY <1>1, <1>5, <1>6, <2>2, <2>3
<1>7. CASE Fail(u)
  <2>1. /\ End(u) /\ job[u].step \in Asking
        /\ UNCHANGED <<tables, made, strand, inbox, clients, newest, ahead>>
        /\ lost' = IF job[u].step = "read" THEN lost \cup {"failed"} ELSE lost
    BY <1>7 DEF Fail, Asking
  <2>2. /\ job' \in [Users -> Jobs] /\ \A v \in Users : v # u => job'[v] = job[v]
        /\ job'[u] = Idle
    BY <2>1, Moves
  <2>3. Idle.step = "idle"
    BY DEF Idle
  <2> QED
    BY <1>1, <2>1, <2>2, <2>3 DEF Asking
<1> QED
  BY <1>4, <1>6, <1>7

LEMMA WriteStep ==
  ASSUME TypeOK, NEW u \in Users, Write(u)
  PROVE  /\ UNCHANGED <<made, strand, inbox, clients, histories>>
         /\ job' \in [Users -> Jobs]
         /\ \A v \in Users : v # u => job'[v] = job[v]
         /\ job[u].step = "write" /\ job'[u].op = job[u].op
         /\ changes' = IF table' # table THEN changes + 1 ELSE changes
         /\ \/ /\ job[u].op.op \in {"react", "unreact"} /\ job'[u].step = "read"
               /\ recalled' = recalled
               /\ \E r \in Reactions \cup {"none"} :
                     /\ table' = table \/ table' = [table EXCEPT ![u] = r]
                     /\ r # "none" => job[u].op.op = "react"
            \/ /\ job[u].op.op = "recall" /\ table' = table /\ recalled'
               /\ job'[u] = [step |-> "finish", op |-> job[u].op, seen |-> table, at |-> changes]
<1>1. job[u].step = "write" /\ job[u].step \in Asking /\ "read" \in Asking
  BY DEF Write, At, Asking
<1>2. job \in [Users -> Jobs] /\ job[u] \in Jobs
  BY DEF TypeOK
<1>3. job[u].op \in Ops
  BY <1>1, <1>2, JobsAre
<1>4. /\ UNCHANGED <<made, strand, inbox, clients, histories>>
      /\ changes' = IF table' # table THEN changes + 1 ELSE changes
  BY DEF Write
<1>5. CASE job[u].op.op = "recall"
  <2>1. Finish(u) /\ table' = table /\ recalled'
    BY <1>5 DEF Write
  <2>2. /\ job' \in [Users -> Jobs] /\ \A v \in Users : v # u => job'[v] = job[v]
        /\ job'[u] = [step |-> "finish", op |-> job[u].op, seen |-> table, at |-> changes]
    BY <1>1, <2>1, Moves
  <2> QED
    BY <1>1, <1>4, <1>5, <2>1, <2>2
<1>6. CASE job[u].op.op # "recall"
  <2>1. /\ Goto(u, "read") /\ recalled' = recalled /\ job[u].op.op \in {"react", "unreact"}
        /\ \/ table' = table \/ table' = [table EXCEPT ![u] = "none"]
           \/ job[u].op.op = "react" /\ table' = [table EXCEPT ![u] = job[u].op.reaction]
    BY <1>6 DEF Write
  <2>2. /\ job' \in [Users -> Jobs] /\ \A v \in Users : v # u => job'[v] = job[v]
        /\ job'[u] = [step |-> "read", op |-> job[u].op]
    BY <1>1, <2>1, Moves
  <2>3. job[u].op.reaction \in Reactions
    BY <1>3, <1>6, OpsAre
  <2> QED
    BY <1>1, <1>4, <2>1, <2>2, <2>3
<1> QED
  BY <1>5, <1>6

LEMMA ReadStep ==
  ASSUME TypeOK, NEW u \in Users, Read(u)
  PROVE  /\ UNCHANGED <<tables, made, strand, inbox, clients, histories>>
         /\ job' \in [Users -> Jobs]
         /\ \A v \in Users : v # u => job'[v] = job[v]
         /\ job[u].step = "read"
         /\ job'[u] = [step |-> "finish", op |-> job[u].op, seen |-> table, at |-> changes]
<1>1. job[u].step = "read" /\ job[u].step \in Asking /\ Finish(u)
  BY DEF Read, At, Asking
<1> QED
  BY <1>1, Moves DEF Read

LEMMA SendTextIs ==
  ASSUME TypeOK, NEW users \in SUBSET Users, NEW push \in Pushes,
         inbox' = SendText(users, push)
  PROVE  /\ inbox' \in [Users -> Seq(Pushes)]
         /\ \A v \in Users : inbox'[v] = IF v \in users THEN Append(inbox[v], push) ELSE inbox[v]
<1>1. inbox \in [Users -> Seq(Pushes)]
  BY DEF TypeOK
<1>2. \A v \in Users : inbox[v] \in Seq(Pushes) /\ Append(inbox[v], push) \in Seq(Pushes)
  BY <1>1, Appended
<1> QED
  BY <1>1, <1>2 DEF SendText

LEMMA AnnouncementIs ==
  ASSUME TypeOK, JobInv, NEW u \in Users, Answer(u)
  PROVE  /\ job[u].step = "finish" /\ job[u].op \in Ops
         /\ job[u].seen \in Snapshots /\ job[u].at \in Nat /\ job[u].at <= changes
         /\ Announcement(u) \in Pushes
         /\ job[u].op.op = "recall" => Announcement(u).push = "recalled"
         /\ job[u].op.op # "recall" => /\ Announcement(u).push = "reactions"
                                       /\ Announcement(u).seen = job[u].seen
<1>1. job[u] \in Jobs /\ job[u].step = "finish"
  BY DEF TypeOK, Answer, At
<1>2. job[u].op \in Ops /\ job[u].seen \in Snapshots /\ job[u].at \in Nat
  BY <1>1, JobsAre
<1>3. job[u].at <= changes
  BY <1>1 DEF JobInv, At
<1> QED
  BY <1>1, <1>2, <1>3 DEF Announcement, Pushes

\* What an answer shows its actor, and what it leaves.
LEMMA AnswerStep ==
  ASSUME TypeOK, JobInv, NEW u \in Users, Answer(u)
  PROVE  /\ UNCHANGED <<tables, made>>
         /\ job' = [job EXCEPT ![u] = Idle] /\ job' \in [Users -> Jobs]
         /\ job'[u] = Idle /\ \A v \in Users : v # u => job'[v] = job[v]
         /\ ahead' \subseteq ahead \cup {u}
         /\ gone' \subseteq gone \cup {u} /\ reopened' \subseteq reopened
         /\ gone \cup reopened \subseteq gone' \cup reopened'
         /\ \/ /\ job[u].op.op = "recall"
               /\ UNCHANGED <<file, histories>>
            \/ /\ job[u].op.op # "recall"
               /\ file' = [file EXCEPT ![u] = job[u].seen]
               /\ lost' = IF job[u].at < newest THEN lost \cup {"overtaken"} ELSE lost
               /\ newest' = IF job[u].at > newest THEN job[u].at ELSE newest
               /\ ahead' \subseteq {u}
<1> DEFINE e == Announcement(u)
<1>1. /\ End(u) /\ UNCHANGED <<tables, made>>
      /\ AnswerAndQueue(u, e) \/ AnswerAndBroadcast(u, e)
      /\ job[u].op.op = "recall" => UNCHANGED <<lost, newest>>
      /\ job[u].op.op # "recall" =>
           /\ lost' = IF job[u].at < newest THEN lost \cup {"overtaken"} ELSE lost
           /\ newest' = IF job[u].at > newest THEN job[u].at ELSE newest
  BY DEF Answer
<1>2. /\ job' = [job EXCEPT ![u] = Idle] /\ job' \in [Users -> Jobs]
      /\ job'[u] = Idle /\ \A v \in Users : v # u => job'[v] = job[v]
  BY <1>1, Moves DEF End
<1>3. CASE job[u].op.op = "recall"
  <2>1. e.push = "recalled"
    BY <1>3, AnnouncementIs
  <2> HIDE DEF e
  <2>2. \/ UNCHANGED clients /\ ahead' = ahead
        \/ ShowRecalled(u) /\ ahead' = ahead
    BY <1>1, <2>1 DEF AnswerAndQueue, AnswerAndBroadcast, Show
  <2> QED
    BY <1>1, <1>2, <1>3, <2>2 DEF ShowRecalled, clients, histories
<1>4. CASE job[u].op.op # "recall"
  <2>1. e.push = "reactions" /\ e.seen = job[u].seen
    BY <1>4, AnnouncementIs
  <2> HIDE DEF e
  <2>2. ShowReactions(u, job[u].seen) /\ ahead' \subseteq {u}
    BY <1>1, <2>1 DEF AnswerAndQueue, AnswerAndBroadcast, Show
  <2> QED
    BY <1>1, <1>2, <1>4, <2>2 DEF ShowReactions
<1> QED
  BY <1>3, <1>4

\* Its push comes last on the way to everyone, but its actor may have got it already.
LEMMA AnswerWays ==
  ASSUME TypeOK, JobInv, NEW u \in Users, Answer(u)
  PROVE  /\ strand' \in Seq(Pushes) /\ inbox' \in [Users -> Seq(Pushes)]
         /\ \A v \in Users : Way(v) \in Seq(Pushes)
         /\ \E e \in Pushes :
              /\ e = Announcement(u)
              /\ \A v \in Users : v # u => Way(v)' = Append(Way(v), e)
              /\ \/ Way(u)' = Append(Way(u), e)
                 \/ /\ Way(u)' = Way(u)
                    /\ e.push = "recalled" => u \in gone'
                    /\ e.push = "reactions" /\ u \notin ahead' =>
                         \A i \in DOMAIN Way(u) : Way(u)[i].push = "recalled"
<1>1. PICK e \in Pushes : /\ e = Announcement(u)
                          /\ AnswerAndQueue(u, e) \/ AnswerAndBroadcast(u, e)
  BY AnnouncementIs DEF Answer
<1>2. strand \in Seq(Pushes) /\ \A v \in Users : inbox[v] \in Seq(Pushes)
  BY DEF TypeOK
<1>3. \A v \in Users : Way(v) \in Seq(Pushes)
  BY <1>2 DEF Way
<1>4. CASE AnswerAndQueue(u, e)
  <2>1. strand' = Append(strand, e) /\ inbox' = inbox
    BY <1>4 DEF AnswerAndQueue
  <2>2. strand' \in Seq(Pushes) /\ inbox' \in [Users -> Seq(Pushes)]
    BY <1>1, <1>2, <2>1, Appended DEF TypeOK
  <2>3. \A v \in Users : Way(v)' = Append(Way(v), e)
    <3> SUFFICES ASSUME NEW v \in Users PROVE Way(v)' = Append(Way(v), e)
      OBVIOUS
    <3>1. \A a, s \in Seq(Pushes) : a \o Append(s, e) = Append(a \o s, e)
      BY <1>1
    <3>2. inbox[v] \in Seq(Pushes) /\ strand \in Seq(Pushes)
      BY <1>2
    <3> QED
      BY <2>1, <3>1, <3>2 DEF Way
  <2> QED
    BY <1>1, <1>3, <2>1, <2>2, <2>3
<1>5. CASE AnswerAndBroadcast(u, e)
  <2>1. /\ strand = <<>> /\ strand' = <<>> /\ inbox' = SendText(Users \ {u}, e)
        /\ Show(u, e)
        /\ ahead' = IF e.push = "recalled" THEN ahead
                    ELSE {v \in {u} : \E i \in DOMAIN inbox[v] : inbox[v][i].push = "reactions"}
    BY <1>5 DEF AnswerAndBroadcast, Receivers
  <2>2. /\ inbox' \in [Users -> Seq(Pushes)]
        /\ \A v \in Users : inbox'[v] = IF v \in Users \ {u} THEN Append(inbox[v], e) ELSE inbox[v]
    BY <1>1, <2>1, SendTextIs
  <2>3. \A q \in Seq(Pushes) : q \o <<>> = q
    OBVIOUS
  <2>4. \A v \in Users : Way(v) = inbox[v] /\ Way(v)' = inbox'[v]
    BY <1>2, <2>1, <2>2, <2>3 DEF Way
  <2>5. \A v \in Users : v # u => Way(v)' = Append(Way(v), e)
    BY <2>2, <2>4
  <2>6. Way(u)' = Way(u)
    BY <2>2, <2>4
  <2>7. e.push = "recalled" => u \in gone'
    BY <2>1 DEF Show, ShowRecalled
  <2>8. ASSUME e.push = "reactions", u \notin ahead', NEW i \in DOMAIN Way(u)
        PROVE  Way(u)[i].push = "recalled"
    <3>1. inbox[u][i] \in Pushes /\ inbox[u][i].push # "reactions"
      BY <1>2, <2>1, <2>4, <2>8
    <3> QED
      BY <2>4, <3>1, PushKinds
  <2> QED
    BY <1>1, <1>2, <1>3, <2>1, <2>2, <2>5, <2>6, <2>7, <2>8
<1> QED
  BY <1>1, <1>4, <1>5

LEMMA BroadcastStep ==
  ASSUME TypeOK, Broadcast
  PROVE  /\ UNCHANGED <<tables, made, job, clients, histories>>
         /\ strand' \in Seq(Pushes) /\ inbox' \in [Users -> Seq(Pushes)]
         /\ \A v \in Users : Way(v)' = Way(v)
<1>1. /\ strand \in Seq(Pushes) /\ strand # <<>> /\ strand' = Tail(strand)
      /\ inbox \in [Users -> Seq(Pushes)]
      /\ inbox' = [v \in Users |-> Append(inbox[v], Head(strand))]
      /\ UNCHANGED <<tables, made, job, clients, histories>>
  BY DEF TypeOK, Broadcast, Receivers, SendText
<1>2. Head(strand) \in Pushes /\ strand' \in Seq(Pushes)
  BY <1>1, Taken
<1>3. ASSUME NEW v \in Users
      PROVE  inbox'[v] \in Seq(Pushes) /\ Way(v)' = Way(v)
  <2>1. inbox[v] \in Seq(Pushes) /\ inbox'[v] = Append(inbox[v], Head(strand))
    BY <1>1
  <2>2. inbox'[v] \in Seq(Pushes)
    BY <1>2, <2>1, Appended
  <2>3. Append(inbox[v], Head(strand)) \o Tail(strand) = inbox[v] \o strand
    BY <1>1, <2>1, Moved
  <2> QED
    BY <1>1, <2>1, <2>2, <2>3 DEF Way
<1>4. inbox' \in [Users -> Seq(Pushes)]
  BY <1>1, <1>3
<1> QED
  BY <1>1, <1>2, <1>3, <1>4

LEMMA DeliverStep ==
  ASSUME TypeOK, NEW u \in Users, Deliver(u)
  PROVE  /\ UNCHANGED <<tables, made, job, strand, histories>>
         /\ inbox' \in [Users -> Seq(Pushes)]
         /\ Way(u) \in Seq(Pushes) /\ Way(u) # <<>> /\ Way(u)' = Tail(Way(u))
         /\ Head(Way(u)) \in Pushes
         /\ \A v \in Users : v # u => Way(v)' = Way(v)
         /\ \/ /\ Head(Way(u)).push = "recalled" /\ file' = file
               /\ gone' = gone \cup {u} /\ reopened' = reopened \ {u}
            \/ /\ Head(Way(u)).push = "reactions" /\ gone' = gone /\ reopened' = reopened
               /\ file' = [file EXCEPT ![u] = Head(Way(u)).seen]
<1>1. /\ strand \in Seq(Pushes) /\ inbox \in [Users -> Seq(Pushes)]
      /\ inbox[u] \in Seq(Pushes) /\ inbox[u] # <<>>
      /\ inbox' = [inbox EXCEPT ![u] = Tail(inbox[u])]
      /\ UNCHANGED <<tables, made, job, strand, histories>>
  BY DEF TypeOK, Deliver
<1>2. Tail(inbox[u]) \in Seq(Pushes) /\ Head(inbox[u]) \in Pushes
  BY <1>1, Taken
<1>3. /\ Way(u) \in Seq(Pushes) /\ Way(u) # <<>>
      /\ Head(Way(u)) = Head(inbox[u]) /\ Tail(Way(u)) = Tail(inbox[u]) \o strand
  BY <1>1, Left DEF Way
<1>4. /\ inbox' \in [Users -> Seq(Pushes)] /\ Way(u)' = Tail(Way(u))
      /\ \A v \in Users : v # u => Way(v)' = Way(v)
  BY <1>1, <1>2, <1>3 DEF Way
<1>5. Head(inbox[u]).push \in {"recalled", "reactions"}
  BY <1>2, PushKinds
<1>6. \/ Head(inbox[u]).push = "recalled" /\ ShowRecalled(u)
      \/ Head(inbox[u]).push = "reactions" /\ ShowReactions(u, Head(inbox[u]).seen)
  BY <1>5 DEF Deliver, Show
<1> QED
  BY <1>1, <1>2, <1>3, <1>4, <1>6 DEF ShowRecalled, ShowReactions

\* The steps by the lemmas about them.
LEMMA Cases ==
  ASSUME [Next]_vars
  PROVE  \/ \E u \in Users : \/ (\E op \in Ops : Take(u, op)) \/ Check(u) \/ Role(u) \/ Fail(u)
                             \/ Write(u) \/ Read(u) \/ Answer(u) \/ Deliver(u) \/ Reopen(u)
         \/ Broadcast
         \/ UNCHANGED vars
BY DEF Next

-----------------------------------------------------------------------------
(* The invariant *)

LEMMA TypeStep ==
  ASSUME TypeOK, JobInv, [Next]_vars
  PROVE  TypeOK'
<1> USE DEF tables, clients, histories
<1>1. /\ table \in Snapshots /\ table[Sender] = "none" /\ recalled \in BOOLEAN
      /\ changes \in Nat /\ newest \in 0..changes /\ made \in 0..MaxRequests
      /\ job \in [Users -> Jobs] /\ strand \in Seq(Pushes) /\ inbox \in [Users -> Seq(Pushes)]
      /\ file \in [Users -> Snapshots] /\ gone \subseteq Users /\ reopened \subseteq Users
      /\ lost \subseteq {"failed", "overtaken"} /\ ahead \subseteq Users
  BY DEF TypeOK
<1>2. ASSUME NEW u \in Users,
             (\E op \in Ops : Take(u, op)) \/ Check(u) \/ Role(u) \/ Fail(u)
      PROVE  TypeOK'
  <2>1. /\ UNCHANGED <<tables, strand, inbox, clients, newest, ahead>>
        /\ made' \in 0..MaxRequests /\ job' \in [Users -> Jobs]
        /\ lost' \subseteq lost \cup {"failed"}
    BY <1>2, PlainSteps
  <2> QED
    BY <1>1, <2>1 DEF TypeOK
<1>3. ASSUME NEW u \in Users, Write(u) PROVE TypeOK'
  <2>1. /\ UNCHANGED <<made, strand, inbox, clients, histories>> /\ job' \in [Users -> Jobs]
        /\ changes' = IF table' # table THEN changes + 1 ELSE changes
        /\ job[u].step = "write"
    BY <1>3, WriteStep
  <2>2. recalled' \in BOOLEAN
    BY <1>1, <1>3 DEF Write
  <2>3. table' \in Snapshots /\ table'[Sender] = "none"
    <3>1. CASE table' = table
      BY <1>1, <3>1
    <3>2. CASE table' # table
      <4>1. PICK r \in Reactions \cup {"none"} :
               table' = [table EXCEPT ![u] = r] /\ (r # "none" => job[u].op.op = "react")
        BY <1>3, <3>2, WriteStep
      <4>2. u = Sender => r = "none"
        BY <2>1, <4>1 DEF JobInv, At
      <4> QED
        BY <1>1, <4>1, <4>2 DEF Snapshots
    <3> QED
      BY <3>1, <3>2
  <2>4. changes' \in Nat /\ newest' \in 0..changes'
    BY <1>1, <2>1
  <2> QED
    BY <1>1, <2>1, <2>2, <2>3, <2>4 DEF TypeOK
<1>4. ASSUME NEW u \in Users, Read(u) PROVE TypeOK'
  <2>1. /\ UNCHANGED <<tables, made, strand, inbox, clients, histories>>
        /\ job' \in [Users -> Jobs]
    BY <1>4, ReadStep
  <2> QED
    BY <1>1, <2>1 DEF TypeOK
<1>5. ASSUME NEW u \in Users, Answer(u) PROVE TypeOK'
  <2>1. /\ UNCHANGED <<tables, made>> /\ job' \in [Users -> Jobs]
        /\ gone' \subseteq gone \cup {u} /\ reopened' \subseteq reopened /\ ahead' \subseteq ahead \cup {u}
        /\ strand' \in Seq(Pushes) /\ inbox' \in [Users -> Seq(Pushes)]
        /\ job[u].seen \in Snapshots /\ job[u].at \in Nat /\ job[u].at <= changes
    BY <1>5, AnnouncementIs, AnswerStep, AnswerWays
  <2>2. \/ UNCHANGED <<file, lost, newest>>
        \/ /\ file' = [file EXCEPT ![u] = job[u].seen]
           /\ lost' = IF job[u].at < newest THEN lost \cup {"overtaken"} ELSE lost
           /\ newest' = IF job[u].at > newest THEN job[u].at ELSE newest
    BY <1>5, AnswerStep
  <2>3. file' \in [Users -> Snapshots]
    BY <1>1, <2>1, <2>2
  <2>4. newest' \in 0..changes'
    BY <1>1, <2>1, <2>2
  <2>5. lost' \subseteq {"failed", "overtaken"}
    BY <1>1, <2>2
  <2> QED
    BY <1>1, <2>1, <2>3, <2>4, <2>5 DEF TypeOK
<1>6. ASSUME NEW u \in Users, Deliver(u) PROVE TypeOK'
  <2>1. /\ UNCHANGED <<tables, made, job, strand, histories>>
        /\ inbox' \in [Users -> Seq(Pushes)]
        /\ Head(Way(u)) \in Pushes
        /\ \/ file' = file /\ gone' = gone \cup {u} /\ reopened' = reopened \ {u}
           \/ /\ Head(Way(u)).push = "reactions" /\ gone' = gone /\ reopened' = reopened
              /\ file' = [file EXCEPT ![u] = Head(Way(u)).seen]
    BY <1>6, DeliverStep
  <2>2. Head(Way(u)).push = "reactions" => Head(Way(u)).seen \in Snapshots
    BY <2>1, PushKinds
  <2>3. file' \in [Users -> Snapshots]
    BY <1>1, <2>1, <2>2
  <2> QED
    BY <1>1, <2>1, <2>3 DEF TypeOK
<1>7. ASSUME NEW u \in Users, Reopen(u) PROVE TypeOK'
  BY <1>1, <1>7 DEF Reopen, TypeOK
<1>8. ASSUME Broadcast PROVE TypeOK'
  <2>1. /\ UNCHANGED <<tables, made, job, clients, histories>>
        /\ strand' \in Seq(Pushes) /\ inbox' \in [Users -> Seq(Pushes)]
    BY <1>8, BroadcastStep
  <2> QED
    BY <1>1, <2>1 DEF TypeOK
<1>9. CASE UNCHANGED vars
  BY <1>1, <1>9 DEF TypeOK, vars
<1> QED
  BY <1>2, <1>3, <1>4, <1>5, <1>6, <1>7, <1>8, <1>9, Cases

LEMMA JobStep ==
  ASSUME TypeOK, JobInv, [Next]_vars
  PROVE  JobInv'
<1> USE DEF tables, histories, At
<1>1. /\ changes \in Nat /\ job \in [Users -> Jobs]
      /\ \A v \in Users : job[v].step = "finish" => job[v].at \in Nat
  BY JobsAre DEF TypeOK
<1> DEFINE OK(v) == /\ job[v].step = "finish" =>
                         /\ job[v].at <= changes
                         /\ job[v].at = changes => job[v].seen = table
                    /\ job[v].step = "read" => job[v].op.op # "recall"
                    /\ v = Sender => /\ job[v].step # "role"
                                     /\ job[v].step = "write" => job[v].op.op # "react"
<1>2. \A v \in Users : OK(v)
  BY DEF JobInv
<1>3. ASSUME \A v \in Users : OK(v)' PROVE JobInv'
  BY <1>3 DEF JobInv
<1>4. ASSUME NEW u \in Users, \A v \in Users : v # u => job'[v] = job[v], OK(u)',
             UNCHANGED <<table, changes>>
      PROVE  JobInv'
  BY <1>2, <1>3, <1>4
<1>5. ASSUME UNCHANGED <<job, table, changes>> PROVE JobInv'
  BY <1>2, <1>3, <1>5
<1>6. ASSUME NEW u \in Users,
             (\E op \in Ops : Take(u, op)) \/ Check(u) \/ Role(u) \/ Fail(u)
      PROVE  JobInv'
  <2>1. /\ UNCHANGED <<table, changes>>
        /\ \A v \in Users : v # u => job'[v] = job[v]
        /\ job'[u].step \in {"idle", "check", "role", "write"}
        /\ job'[u].step = "write" => job'[u].op.op # "react" \/ u # Sender
        /\ job'[u].step = "role" => u # Sender
    BY <1>6, PlainSteps
  <2> QED
    BY <1>4, <2>1
<1>7. ASSUME NEW u \in Users, Write(u) PROVE JobInv'
  <2>1. /\ \A v \in Users : v # u => job'[v] = job[v]
        /\ changes' = IF table' # table THEN changes + 1 ELSE changes
    BY <1>7, WriteStep
  <2>2. \A v \in Users : v # u => OK(v)'
    BY <1>1, <1>2, <2>1
  <2>3. \/ job'[u].step = "read" /\ job'[u].op.op # "recall"
        \/ /\ table' = table
           /\ job'[u] = [step |-> "finish", op |-> job[u].op, seen |-> table, at |-> changes]
    BY <1>7, WriteStep
  <2>4. OK(u)'
    BY <1>1, <2>1, <2>3
  <2> QED
    BY <1>3, <2>2, <2>4
<1>8. ASSUME NEW u \in Users, Read(u) PROVE JobInv'
  <2>1. /\ UNCHANGED <<table, changes>>
        /\ \A v \in Users : v # u => job'[v] = job[v]
        /\ job'[u] = [step |-> "finish", op |-> job[u].op, seen |-> table, at |-> changes]
    BY <1>8, ReadStep
  <2>2. OK(u)'
    BY <1>1, <2>1
  <2> QED
    BY <1>4, <2>1, <2>2
<1>9. ASSUME NEW u \in Users, Answer(u) PROVE JobInv'
  <2>1. /\ UNCHANGED <<table, changes>> /\ job'[u] = Idle
        /\ \A v \in Users : v # u => job'[v] = job[v]
    BY <1>9, AnswerStep
  <2>2. OK(u)'
    BY <2>1 DEF Idle
  <2> QED
    BY <1>4, <2>1, <2>2
<1>10. ASSUME NEW u \in Users, Deliver(u) \/ Reopen(u) PROVE JobInv'
  BY <1>5, <1>10 DEF Deliver, Reopen
<1>11. CASE Broadcast
  BY <1>5, <1>11 DEF Broadcast
<1>12. CASE UNCHANGED vars
  BY <1>5, <1>12 DEF vars
<1> QED
  BY <1>6, <1>7, <1>8, <1>9, <1>10, <1>11, <1>12, Cases

LEMMA ChangeStep ==
  ASSUME TypeOK, JobInv, ChangeInv, [Next]_vars
  PROVE  ChangeInv'
<1> USE DEF tables, histories, At
<1> DEFINE Told(v) == \/ job[v].step = "read"
                      \/ job[v].step = "finish" /\ job[v].op.op # "recall" /\ job[v].at = changes
<1>1. newest \in 0..changes /\ changes \in Nat
  BY DEF TypeOK
<1>2. newest = changes \/ lost # {} \/ \E v \in Users : Told(v)
  BY DEF ChangeInv
<1>3. ASSUME newest' = changes' \/ lost' # {} \/ \E v \in Users : Told(v)'
      PROVE  ChangeInv'
  BY <1>3 DEF ChangeInv
<1>4. ASSUME NEW u \in Users, \A v \in Users : v # u => job'[v] = job[v],
             lost \subseteq lost', UNCHANGED <<newest, changes>>,
             Told(u) => Told(u)' \/ lost' # {}
      PROVE  ChangeInv'
  BY <1>2, <1>3, <1>4
<1>5. ASSUME UNCHANGED <<job, changes, newest, lost>> PROVE ChangeInv'
  BY <1>2, <1>3, <1>5
<1>6. ASSUME NEW u \in Users,
             (\E op \in Ops : Take(u, op)) \/ Check(u) \/ Role(u) \/ Fail(u)
      PROVE  ChangeInv'
  <2>1. /\ UNCHANGED <<changes, newest>> /\ \A v \in Users : v # u => job'[v] = job[v]
        /\ job[u].step # "finish" /\ lost \subseteq lost' /\ (job[u].step = "read" => lost' # {})
    BY <1>6, PlainSteps
  <2> QED
    BY <1>4, <2>1
<1>7. ASSUME NEW u \in Users, Write(u) PROVE ChangeInv'
  <2>1. /\ UNCHANGED <<newest, lost>> /\ \A v \in Users : v # u => job'[v] = job[v]
        /\ changes' = IF table' # table THEN changes + 1 ELSE changes
        /\ job[u].step = "write" /\ (job'[u].step = "read" \/ table' = table)
    BY <1>7, WriteStep
  <2>2. CASE job'[u].step = "read"
    BY <1>3, <2>2
  <2>3. CASE table' = table
    BY <1>4, <2>1, <2>3
  <2> QED
    BY <2>1, <2>2, <2>3
<1>8. ASSUME NEW u \in Users, Read(u) PROVE ChangeInv'
  <2>1. /\ UNCHANGED changes /\ job[u].step = "read"
        /\ job'[u] = [step |-> "finish", op |-> job[u].op, seen |-> table, at |-> changes]
    BY <1>8, ReadStep
  <2>2. job[u].op.op # "recall"
    BY <2>1 DEF JobInv
  <2>3. Told(u)'
    BY <2>1, <2>2
  <2> QED
    BY <1>3, <2>3
<1>9. ASSUME NEW u \in Users, Answer(u) PROVE ChangeInv'
  <2>1. /\ UNCHANGED changes /\ job[u].step = "finish" /\ job[u].at \in Nat
        /\ job[u].at <= changes /\ \A v \in Users : v # u => job'[v] = job[v]
    BY <1>9, AnnouncementIs, AnswerStep
  <2>2. \/ job[u].op.op = "recall" /\ UNCHANGED <<lost, newest>>
        \/ /\ lost' = IF job[u].at < newest THEN lost \cup {"overtaken"} ELSE lost
           /\ newest' = IF job[u].at > newest THEN job[u].at ELSE newest
    BY <1>9, AnswerStep
  <2>3. CASE job[u].op.op = "recall" /\ UNCHANGED <<lost, newest>>
    BY <1>4, <2>1, <2>3
  <2>4. CASE /\ lost' = IF job[u].at < newest THEN lost \cup {"overtaken"} ELSE lost
             /\ newest' = IF job[u].at > newest THEN job[u].at ELSE newest
    <3>1. lost \subseteq lost' /\ (newest = changes => newest' = changes)
      BY <1>1, <2>1, <2>4
    <3>2. job[u].at = changes => newest' = changes
      BY <1>1, <2>1, <2>4
    <3> QED
      BY <1>2, <1>3, <2>1, <3>1, <3>2
  <2> QED
    BY <2>2, <2>3, <2>4
<1>10. ASSUME NEW u \in Users, Deliver(u) \/ Reopen(u) PROVE ChangeInv'
  BY <1>5, <1>10 DEF Deliver, Reopen
<1>11. CASE Broadcast
  BY <1>5, <1>11 DEF Broadcast
<1>12. CASE UNCHANGED vars
  BY <1>5, <1>12 DEF vars
<1> QED
  BY <1>6, <1>7, <1>8, <1>9, <1>10, <1>11, <1>12, Cases

LEMMA AgreeStep ==
  ASSUME TypeOK, JobInv, AgreeInv, [Next]_vars
  PROVE  AgreeInv'
<1> USE DEF tables, clients, histories
<1>1. /\ newest \in 0..changes /\ changes \in Nat /\ file \in [Users -> Snapshots]
      /\ strand \in Seq(Pushes) /\ inbox \in [Users -> Seq(Pushes)]
  BY DEF TypeOK
<1>2. PICK x \in Snapshots : /\ \A v \in Users \ ahead : Ends(Way(v), file[v], x)
                             /\ lost = {} /\ newest = changes => x = table
  BY DEF AgreeInv
<1>3. ASSUME NEW y \in Snapshots, \A v \in Users \ ahead' : Ends(Way(v)', file'[v], y),
             lost' = {} /\ newest' = changes' => y = table'
      PROVE  AgreeInv'
  BY <1>3 DEF AgreeInv
<1>4. ASSUME UNCHANGED <<strand, inbox, file, newest, ahead>>, lost \subseteq lost',
             (table' = table /\ changes' = changes) \/ changes' = changes + 1
      PROVE  AgreeInv'
  <2>1. \A v \in Users : Way(v)' = Way(v)
    BY <1>4 DEF Way
  <2>2. lost' = {} /\ newest' = changes' => x = table'
    BY <1>1, <1>2, <1>4
  <2> QED
    BY <1>2, <1>3, <1>4, <2>1, <2>2
<1>5. ASSUME NEW u \in Users,
             (\E op \in Ops : Take(u, op)) \/ Check(u) \/ Role(u) \/ Fail(u)
      PROVE  AgreeInv'
  BY <1>4, <1>5, PlainSteps
<1>6. ASSUME NEW u \in Users, Write(u) PROVE AgreeInv'
  <2>1. /\ UNCHANGED <<strand, inbox, file, histories>>
        /\ (table' = table /\ changes' = changes) \/ changes' = changes + 1
    BY <1>6, WriteStep
  <2> QED
    BY <1>4, <2>1
<1>7. ASSUME NEW u \in Users, Read(u) PROVE AgreeInv'
  BY <1>4, <1>7, ReadStep
<1>8. ASSUME NEW u \in Users, Answer(u) PROVE AgreeInv'
  <2>1. /\ UNCHANGED <<table, changes>> /\ job[u].step = "finish"
        /\ job[u].seen \in Snapshots /\ job[u].at \in Nat /\ job[u].at <= changes
    BY <1>8, AnnouncementIs, AnswerStep
  <2>2. \A v \in Users : Way(v) \in Seq(Pushes)
    BY <1>8, AnswerWays
  <2>3. PICK e \in Pushes :
           /\ e = Announcement(u)
           /\ \A v \in Users : v # u => Way(v)' = Append(Way(v), e)
           /\ \/ Way(u)' = Append(Way(u), e)
              \/ /\ Way(u)' = Way(u)
                 /\ e.push = "reactions" /\ u \notin ahead' =>
                      \A i \in DOMAIN Way(u) : Way(u)[i].push = "recalled"
    BY <1>8, AnswerWays
  <2>4. \/ e.push = "recalled" /\ UNCHANGED <<file, lost, newest, ahead>>
        \/ /\ e.push = "reactions" /\ e.seen = job[u].seen
           /\ file' = [file EXCEPT ![u] = job[u].seen]
           /\ lost' = IF job[u].at < newest THEN lost \cup {"overtaken"} ELSE lost
           /\ newest' = IF job[u].at > newest THEN job[u].at ELSE newest
    BY <1>8, <2>3, AnnouncementIs, AnswerStep
  <2>5. CASE e.push = "recalled" /\ UNCHANGED <<file, lost, newest, ahead>>
    <3>1. ASSUME NEW v \in Users \ ahead' PROVE Ends(Way(v)', file'[v], x)
      <4>1. Ends(Way(v), file'[v], x) /\ Way(v) \in Seq(Pushes)
        <5>1. v \in Users \ ahead /\ v \in Users /\ file'[v] = file[v]
          BY <2>5
        <5> QED
          BY <1>2, <2>2, <5>1
      <4>2. Way(v)' = Append(Way(v), e) \/ Way(v)' = Way(v)
        BY <2>3
      <4> QED
        BY <2>5, <4>1, <4>2, EndsAppend
    <3> QED
      BY <1>2, <1>3, <2>1, <2>5, <3>1
  <2>6. CASE /\ e.push = "reactions" /\ e.seen = job[u].seen
             /\ file' = [file EXCEPT ![u] = job[u].seen]
             /\ lost' = IF job[u].at < newest THEN lost \cup {"overtaken"} ELSE lost
             /\ newest' = IF job[u].at > newest THEN job[u].at ELSE newest
    <3>1. ASSUME NEW v \in Users \ ahead' PROVE Ends(Way(v)', file'[v], e.seen)
      <4>1. CASE Way(v)' = Append(Way(v), e)
        <5>1. Way(v) \in Seq(Pushes)
          BY <2>2
        <5>2. Ends(Append(Way(v), e), file'[v], e.seen)
          BY <2>6, <5>1, EndsAppend
        <5> QED
          BY <4>1, <5>2
      <4>2. CASE /\ v = u /\ Way(u)' = Way(u)
                 /\ \A i \in DOMAIN Way(u) : Way(u)[i].push = "recalled"
        <5>1. file'[u] = e.seen
          BY <1>1, <2>6
        <5> QED
          BY <4>2, <5>1 DEF Ends
      <4>3. \/ Way(v)' = Append(Way(v), e)
            \/ /\ v = u /\ Way(u)' = Way(u)
               /\ \A i \in DOMAIN Way(u) : Way(u)[i].push = "recalled"
        <5>1. v \in Users /\ v \notin ahead'
          BY <3>1
        <5>2. CASE v = u
          BY <2>3, <2>6, <5>1, <5>2
        <5>3. CASE v # u
          BY <2>3, <5>1, <5>3
        <5> QED
          BY <5>2, <5>3
      <4> QED
        BY <4>1, <4>2, <4>3
    <3>2. lost' = {} /\ newest' = changes' => job[u].at = changes
      <4>1. job[u].at < newest => lost' # {}
        BY <2>6
      <4> QED
        BY <1>1, <2>1, <2>6, <4>1
    <3>3. job[u].at = changes => job[u].seen = table
      BY <2>1 DEF JobInv, At
    <3> QED
      BY <1>3, <2>1, <2>6, <3>1, <3>2, <3>3
  <2> QED
    BY <2>4, <2>5, <2>6
<1>9. ASSUME NEW u \in Users, Deliver(u) PROVE AgreeInv'
  <2>1. /\ UNCHANGED <<table, changes, histories>>
        /\ Way(u) \in Seq(Pushes) /\ Way(u) # <<>> /\ Way(u)' = Tail(Way(u))
        /\ \A v \in Users : v # u => Way(v)' = Way(v)
        /\ \/ Head(Way(u)).push = "recalled" /\ file' = file
           \/ /\ Head(Way(u)).push = "reactions"
              /\ file' = [file EXCEPT ![u] = Head(Way(u)).seen]
    BY <1>9, DeliverStep
  <2>2. \A v \in Users \ ahead : v # u => Ends(Way(v)', file'[v], x)
    BY <1>1, <1>2, <2>1
  <2>3. ASSUME u \notin ahead PROVE Ends(Way(u)', file'[u], x)
    <3>1. /\ Head(Way(u)).push = "reactions" => Ends(Way(u)', Head(Way(u)).seen, x)
          /\ Head(Way(u)).push = "recalled" => Ends(Way(u)', file[u], x)
      BY <1>2, <2>1, <2>3, EndsTail
    <3> QED
      BY <1>1, <2>1, <3>1
  <2> QED
    BY <1>2, <1>3, <2>1, <2>2, <2>3
<1>10. ASSUME NEW u \in Users, Reopen(u) PROVE AgreeInv'
  BY <1>4, <1>10 DEF Reopen
<1>11. CASE Broadcast
  BY <1>2, <1>3, <1>11, BroadcastStep
<1>12. CASE UNCHANGED vars
  BY <1>4, <1>12 DEF vars
<1> QED
  BY <1>5, <1>6, <1>7, <1>8, <1>9, <1>10, <1>11, <1>12, Cases

LEMMA RecallStep ==
  ASSUME TypeOK, JobInv, RecallInv, [Next]_vars
  PROVE  RecallInv'
<1> USE DEF tables, clients, histories, At
<1> DEFINE Sure(v) == \/ v \in gone \cup reopened
                      \/ \E i \in DOMAIN Way(v) : Way(v)[i].push = "recalled"
           Announcing(v) == job[v].step = "finish" /\ job[v].op.op = "recall"
<1>1. strand \in Seq(Pushes) /\ inbox \in [Users -> Seq(Pushes)]
  BY DEF TypeOK
<1>2. recalled => (\A v \in Users : Sure(v)) \/ \E v \in Users : Announcing(v)
  BY DEF RecallInv
<1>3. ASSUME recalled' => (\A v \in Users : Sure(v)') \/ \E v \in Users : Announcing(v)'
      PROVE  RecallInv'
  BY <1>3 DEF RecallInv
<1>4. ASSUME UNCHANGED <<recalled, strand, inbox, gone, reopened>>,
             \A v \in Users : Announcing(v) => Announcing(v)'
      PROVE  RecallInv'
  <2>1. \A v \in Users : Way(v)' = Way(v)
    BY <1>4 DEF Way
  <2> QED
    BY <1>2, <1>3, <1>4, <2>1
<1>5. ASSUME UNCHANGED <<recalled, job>>, \A v \in Users : Sure(v) => Sure(v)'
      PROVE  RecallInv'
  BY <1>2, <1>3, <1>5
<1>6. ASSUME NEW u \in Users,
             (\E op \in Ops : Take(u, op)) \/ Check(u) \/ Role(u) \/ Fail(u)
      PROVE  RecallInv'
  <2>1. /\ UNCHANGED <<recalled, strand, inbox, gone, reopened>>
        /\ \A v \in Users : v # u => job'[v] = job[v]
        /\ job[u].step # "finish"
    BY <1>6, PlainSteps
  <2> QED
    BY <1>4, <2>1
<1>7. ASSUME NEW u \in Users, Write(u) PROVE RecallInv'
  <2>1. /\ UNCHANGED <<strand, inbox, gone, reopened>> /\ job[u].step = "write"
        /\ \A v \in Users : v # u => job'[v] = job[v]
        /\ \/ recalled' = recalled
           \/ /\ job[u].op.op = "recall"
              /\ job'[u] = [step |-> "finish", op |-> job[u].op, seen |-> table, at |-> changes]
    BY <1>7, WriteStep
  <2>2. CASE recalled' = recalled
    BY <1>4, <2>1, <2>2
  <2>3. CASE recalled' # recalled
    <3>1. Announcing(u)'
      BY <2>1, <2>3
    <3> QED
      BY <1>3, <3>1
  <2> QED
    BY <2>2, <2>3
<1>8. ASSUME NEW u \in Users, Read(u) PROVE RecallInv'
  <2>1. /\ UNCHANGED <<recalled, strand, inbox, gone, reopened>>
        /\ \A v \in Users : v # u => job'[v] = job[v]
        /\ job[u].step = "read"
    BY <1>8, ReadStep
  <2> QED
    BY <1>4, <2>1
<1>9. ASSUME NEW u \in Users, Answer(u) PROVE RecallInv'
  <2>1. /\ UNCHANGED recalled /\ gone \cup reopened \subseteq gone' \cup reopened'
        /\ \A v \in Users : v # u => job'[v] = job[v]
    BY <1>9, AnswerStep
  <2>2. \A v \in Users : Way(v) \in Seq(Pushes)
    BY <1>9, AnswerWays
  <2>3. PICK e \in Pushes :
           /\ job[u].op.op = "recall" => e.push = "recalled"
           /\ \A v \in Users : v # u => Way(v)' = Append(Way(v), e)
           /\ \/ Way(u)' = Append(Way(u), e)
              \/ Way(u)' = Way(u) /\ (e.push = "recalled" => u \in gone')
    BY <1>9, AnnouncementIs, AnswerWays
  <2>4. ASSUME NEW v \in Users
        PROVE  /\ Sure(v) => Sure(v)'
               /\ e.push = "recalled" => Sure(v)'
    <3> DEFINE q == Way(v)
               r == Way(v)'
    <3>1. CASE r = Append(q, e)
      <4>1. q \in Seq(Pushes)
        BY <2>2
      <4> HIDE DEF q, r
      <4>2. /\ DOMAIN q = 1..Len(q) /\ Len(q) \in Nat /\ DOMAIN r = 1..(Len(q) + 1)
            /\ r[Len(q) + 1] = e /\ \A i \in 1..Len(q) : r[i] = q[i]
        BY <2>3, <3>1, <4>1, Appended
      <4>3. /\ (\E i \in DOMAIN q : q[i].push = "recalled") => \E i \in DOMAIN r : r[i].push = "recalled"
            /\ e.push = "recalled" => \E i \in DOMAIN r : r[i].push = "recalled"
        BY <4>2
      <4> QED
        BY <2>1, <4>3 DEF q, r
    <3>2. CASE v = u /\ r = q /\ (e.push = "recalled" => u \in gone')
      BY <2>1, <3>2
    <3> QED
      BY <2>3, <3>1, <3>2
  <2>5. CASE job[u].op.op = "recall"
    BY <1>3, <2>3, <2>4, <2>5
  <2>6. CASE job[u].op.op # "recall"
    BY <1>2, <1>3, <2>1, <2>4, <2>6
  <2> QED
    BY <2>5, <2>6
<1>10. ASSUME NEW u \in Users, Deliver(u) PROVE RecallInv'
  <2>1. /\ UNCHANGED <<recalled, job>>
        /\ Way(u) \in Seq(Pushes) /\ Way(u) # <<>> /\ Way(u)' = Tail(Way(u))
        /\ \A v \in Users : v # u => Way(v)' = Way(v)
        /\ \/ /\ Head(Way(u)).push = "recalled"
              /\ gone' = gone \cup {u} /\ reopened' = reopened \ {u}
           \/ Head(Way(u)).push = "reactions" /\ gone' = gone /\ reopened' = reopened
    BY <1>10, DeliverStep
  <2>2. \A v \in Users : v # u /\ Sure(v) => Sure(v)'
    BY <2>1
  <2>3. Sure(u) => Sure(u)'
    <3>1. CASE Head(Way(u)).push = "recalled"
      BY <2>1, <3>1
    <3>2. CASE Head(Way(u)).push = "reactions" /\ gone' = gone /\ reopened' = reopened
      <4> DEFINE q == Way(u)
                 r == Way(u)'
      <4>1. /\ DOMAIN q = 1..Len(q) /\ Len(q) \in Nat \ {0} /\ DOMAIN r = 1..(Len(q) - 1)
            /\ q[1].push = "reactions" /\ \A i \in 1..(Len(q) - 1) : r[i] = q[i + 1]
        BY <2>1, <3>2, Taken
      <4> HIDE DEF q, r
      <4>2. ASSUME NEW i \in DOMAIN q, q[i].push = "recalled"
            PROVE  i - 1 \in DOMAIN r /\ r[i - 1].push = "recalled"
        <5>1. i # 1 /\ i \in 1..Len(q)
          BY <4>1, <4>2
        <5>2. i - 1 \in 1..(Len(q) - 1) /\ (i - 1) + 1 = i
          BY <4>1, <5>1
        <5> QED
          BY <4>1, <4>2, <5>2
      <4> QED
        BY <3>2, <4>2 DEF q, r
    <3> QED
      BY <2>1, <3>1, <3>2
  <2> QED
    BY <1>5, <2>1, <2>2, <2>3
<1>11. ASSUME NEW u \in Users, Reopen(u) PROVE RecallInv'
  <2>1. /\ UNCHANGED <<recalled, job, strand, inbox>>
        /\ gone' \cup reopened' = gone \cup reopened
    BY <1>11 DEF Reopen
  <2>2. \A v \in Users : Way(v)' = Way(v)
    BY <2>1 DEF Way
  <2> QED
    BY <1>5, <2>1, <2>2
<1>12. CASE Broadcast
  <2>1. /\ UNCHANGED <<recalled, job, gone, reopened>>
        /\ \A v \in Users : Way(v)' = Way(v)
    BY <1>12, BroadcastStep
  <2> QED
    BY <1>5, <2>1
<1>13. CASE UNCHANGED vars
  BY <1>4, <1>13 DEF vars
<1> QED
  BY <1>6, <1>7, <1>8, <1>9, <1>10, <1>11, <1>12, <1>13, Cases

LEMMA InitInv == Init => IInv
<1> SUFFICES ASSUME Init PROVE IInv
  OBVIOUS
<1> USE DEF Init
<1>1. Nothing \in Snapshots /\ Nothing[Sender] = "none"
  BY DEF Nothing, Snapshots
<1>2. <<>> \in Seq(Pushes) /\ Idle \in Jobs /\ Idle.step = "idle"
  BY JobsIn DEF Idle
<1>3. TypeOK
  <2>1. table \in Snapshots /\ table[Sender] = "none" /\ file \in [Users -> Snapshots]
    BY <1>1
  <2>2. changes \in Nat /\ newest \in 0..changes /\ made \in 0..MaxRequests
    OBVIOUS
  <2>3. job \in [Users -> Jobs] /\ inbox \in [Users -> Seq(Pushes)] /\ strand \in Seq(Pushes)
    BY <1>2
  <2> QED
    BY <2>1, <2>2, <2>3 DEF TypeOK
<1>4. JobInv
  BY <1>2 DEF JobInv, At
<1>5. ChangeInv
  BY DEF ChangeInv
<1>6. AgreeInv
  <2>1. \A u \in Users : Way(u) = <<>>
    BY <1>2 DEF Way
  <2>2. \A u \in Users \ ahead : Ends(Way(u), file[u], Nothing)
    BY <2>1 DEF Ends
  <2> QED
    BY <1>1, <2>2 DEF AgreeInv
<1>7. RecallInv
  BY DEF RecallInv
<1> QED
  BY <1>3, <1>4, <1>5, <1>6, <1>7 DEF IInv

LEMMA Invariance == Spec => []IInv
<1>1. IInv /\ [Next]_vars => IInv'
  BY TypeStep, JobStep, ChangeStep, AgreeStep, RecallStep DEF IInv
<1> QED
  BY InitInv, <1>1, PTL DEF Spec

-----------------------------------------------------------------------------
(* The theorems *)

\* Every variable of the reactions keeps its type, of whatever users and
\* admins: nobody's own message comes to bear a reaction of theirs, and no read
\* is announced of a change that has not been made.
THEOREM TypeCorrect == Spec => []TypeOK
<1>1. IInv => TypeOK
  BY DEF IInv
<1> QED
  BY Invariance, <1>1, PTL

\* Once every push has arrived the clients show the same reactions, which are
\* those of the table unless a read was overtaken or a query failed; one actor may
\* be left behind, whose own push was the latest and went ahead of older ones.
THEOREM Agreement == Spec => []ClientsAgree
<1>1. IInv => ClientsAgree
  <2> SUFFICES ASSUME IInv, Pushed
               PROVE  /\ \A u, v \in Users \ ahead : file[u] = file[v]
                      /\ Done /\ lost = {} => \A u \in Users \ ahead : file[u] = table
    BY DEF ClientsAgree
  <2>1. PICK x \in Snapshots : /\ \A u \in Users \ ahead : Ends(Way(u), file[u], x)
                               /\ lost = {} /\ newest = changes => x = table
    BY DEF IInv, AgreeInv
  <2>2. \A u \in Users : Way(u) = <<>>
    BY DEF Pushed, Way
  <2>3. \A u \in Users \ ahead : file[u] = x
    BY <2>1, <2>2 DEF Ends
  <2>4. Done /\ lost = {} => newest = changes
    BY DEF IInv, ChangeInv, Done, Idle, At
  <2> QED
    BY <2>1, <2>3, <2>4
<1> QED
  BY Invariance, <1>1, PTL

\* A recall reaches everyone, whatever else is queued with it.
THEOREM RecallReaches == Spec => []RecalledStays
<1>1. IInv => RecalledStays
  <2> SUFFICES ASSUME IInv, Pushed, Done, recalled PROVE Users \subseteq gone \cup reopened
    BY DEF RecalledStays
  <2>1. \A u \in Users : Way(u) = <<>>
    BY DEF Pushed, Way
  <2>2. \A u \in Users : ~At(u, "finish")
    BY DEF Done, Idle, At
  <2> QED
    BY <2>1, <2>2 DEF IInv, RecallInv
<1> QED
  BY Invariance, <1>1, PTL
=============================================================================
