-------------------------- MODULE ListPushProofs ---------------------------
(***************************************************************************)
(* For any users, sessions, changes and logins: the types, the index that  *)
(* holds every session that is logged in, and a push that comes once.      *)
(* That a change reaches its clients is liveness and TLC's part.           *)
(***************************************************************************)
EXTENDS ListPush, FiniteSetTheorems, TLAPS

\* A list is the number of changes made to it.
Counted == \A u \in Users : stored[u] = Cardinality({c \in Changes : of[c] = u})

\* A handler has a user from its change on, a session from its login on.
Begun == \A c \in Changes : pc[c] # "none" => of[c] \in Users
Unbegun == \A c \in Changes : pc[c] = "none" => of[c] = NoUser
Known ==
    \A s \in Sessions :
       \/ loop[s] \in {"login", "list"}
       \/ \E i \in DOMAIN sent[s] : sent[s][i].kind = "welcome"
       => user[s] \in Users

TypeInv == TypeOK /\ Counted /\ Begun /\ Unbegun /\ Known

\* A queued handler finds its session or its change where it was queued.
TaskOK(t) ==
    /\ t.task = "index" => user[t.session] \in Users
    /\ t.task = "remove" => Ended(t.session)
    /\ t.task = "start" => pc[t.change] = "spawned"
    /\ t.task = "walk" => pc[t.change] = "loaded"

TaskInv == \A i \in DOMAIN strand : TaskOK(strand[i])
QueuedOnce ==
    \A i, j \in DOMAIN strand :
       strand[i] = strand[j] /\ strand[i].task \in {"start", "walk"} => i = j

\* Only a session that has ended is removed.
LifeInv == \A s \in Sessions : life[s] # "listed" => Ended(s)

\* What has been pushed, queued or sent, is of a change whose walk is over.
QueueInv ==
    \A s \in Sessions :
       /\ \A i \in DOMAIN inbox[s] : pc[inbox[s][i].change] = "pushed"
       /\ \A i, j \in DOMAIN inbox[s] : inbox[s][i].change = inbox[s][j].change => i = j
SentInv ==
    \A s \in Sessions : \A i \in DOMAIN sent[s] :
       sent[s][i].kind = "push" =>
          /\ pc[sent[s][i].change] = "pushed"
          /\ \A j \in DOMAIN inbox[s] : inbox[s][j].change # sent[s][i].change

PushInv == QueueInv /\ SentInv /\ PushedOnce

IInv == TypeInv /\ TaskInv /\ QueuedOnce /\ LifeInv /\ PushInv /\ Indexed

-----------------------------------------------------------------------------
(* Sequences *)

\* What a handler finds in a queue with one more entry, or one less.
LEMMA Appended ==
  ASSUME NEW S, NEW q \in Seq(S), NEW x \in S
  PROVE  /\ Append(q, x) \in Seq(S)
         /\ DOMAIN Append(q, x) = DOMAIN q \cup {Len(q) + 1}
         /\ Len(q) + 1 \notin DOMAIN q
         /\ Append(q, x)[Len(q) + 1] = x
         /\ \A i \in DOMAIN q : Append(q, x)[i] = q[i]
  OBVIOUS

LEMMA Taken ==
  ASSUME NEW S, NEW q \in Seq(S), q # <<>>
  PROVE  /\ Tail(q) \in Seq(S)
         /\ Head(q) \in S
         /\ 1 \in DOMAIN q /\ Head(q) = q[1]
         /\ \A i \in DOMAIN Tail(q) : i + 1 \in DOMAIN q /\ Tail(q)[i] = q[i + 1] /\ i + 1 # 1
         /\ \A i \in DOMAIN q : i = 1 \/ (i - 1 \in DOMAIN Tail(q) /\ Tail(q)[i - 1] = q[i])
         /\ \A i, j \in DOMAIN Tail(q) : i + 1 = j + 1 => i = j
  OBVIOUS

\* The one push of a walk.
LEMMA OneMore ==
  ASSUME NEW S, NEW q \in Seq(S), NEW x \in S
  PROVE  q \o [i \in 1..1 |-> x] = Append(q, x)
<1>1. [i \in 1..1 |-> x] = <<x>>
  OBVIOUS
<1> QED
  BY <1>1

-----------------------------------------------------------------------------
(* Types *)

IndexTask(s) == [task |-> "index", session |-> s]
RemoveTask(s) == [task |-> "remove", session |-> s]
StartTask(c) == [task |-> "start", change |-> c]
WalkTask(c) == [task |-> "walk", change |-> c]

LEMMA TasksAre ==
  \A t : t \in Tasks <=> \/ \E s \in Sessions : t = IndexTask(s) \/ t = RemoveTask(s)
                         \/ \E c \in Changes : t = StartTask(c) \/ t = WalkTask(c)
BY DEF Tasks, IndexTask, RemoveTask, StartTask, WalkTask

LEMMA CountWithin ==
  ASSUME NEW P \in SUBSET Changes
  PROVE  /\ IsFiniteSet(P)
         /\ Cardinality(P) \in Versions
         /\ \A c \in Changes \ P : /\ Cardinality(P) + 1 \in Versions
                                   /\ Cardinality(P \cup {c}) = Cardinality(P) + 1
<1> USE PushConstants
<1>1. ASSUME NEW Q \in SUBSET Changes
      PROVE  IsFiniteSet(Q) /\ Cardinality(Q) \in Versions
  <2>1. IsFiniteSet(Q) /\ Cardinality(Q) <= Cardinality(Changes)
    BY FS_Subset
  <2>2. Cardinality(Q) \in Nat /\ Cardinality(Changes) \in Nat
    BY <2>1, FS_CardinalityType
  <2> QED
    BY <2>1, <2>2 DEF Versions
<1>2. ASSUME NEW c \in Changes \ P
      PROVE  /\ Cardinality(P) + 1 \in Versions
             /\ Cardinality(P \cup {c}) = Cardinality(P) + 1
  <2>1. Cardinality(P \cup {c}) = Cardinality(P) + 1
    BY <1>1, FS_AddElement
  <2> QED
    BY <2>1, <1>1
<1> QED
  BY <1>1, <1>2

\* The handler at the head of the strand and what it does.
LEMMA RunCases ==
  ASSUME TypeOK, TaskInv, RunStrand
  PROVE  /\ strand # <<>> /\ strand' = Tail(strand) /\ TaskOK(Head(strand))
         /\ \/ \E s \in Sessions : Head(strand) = IndexTask(s) /\ Index(s)
            \/ \E s \in Sessions : Head(strand) = RemoveTask(s) /\ Remove(s)
            \/ \E c \in Changes : Head(strand) = StartTask(c) /\ Start(c)
            \/ \E c \in Changes : Head(strand) = WalkTask(c) /\ Walk(c)
<1>1. strand \in Seq(Tasks) /\ strand # <<>> /\ strand' = Tail(strand)
  BY DEF TypeOK, RunStrand
<1>2. Head(strand) \in Tasks /\ TaskOK(Head(strand))
  BY <1>1, Taken DEF TaskInv
<1>3. CASE \E s \in Sessions : Head(strand) = IndexTask(s)
  <2>1. PICK s \in Sessions : Head(strand) = IndexTask(s)
    BY <1>3
  <2>2. Head(strand).task = "index" /\ Head(strand).session = s
    BY <2>1 DEF IndexTask
  <2>3. Index(Head(strand).session)
    BY <2>2 DEF RunStrand
  <2> QED
    BY <1>1, <1>2, <2>1, <2>2, <2>3
<1>4. CASE \E s \in Sessions : Head(strand) = RemoveTask(s)
  <2>1. PICK s \in Sessions : Head(strand) = RemoveTask(s)
    BY <1>4
  <2>2. Head(strand).task = "remove" /\ Head(strand).session = s
    BY <2>1 DEF RemoveTask
  <2>3. Remove(Head(strand).session)
    BY <2>2 DEF RunStrand
  <2> QED
    BY <1>1, <1>2, <2>1, <2>2, <2>3
<1>5. CASE \E c \in Changes : Head(strand) = StartTask(c)
  <2>1. PICK c \in Changes : Head(strand) = StartTask(c)
    BY <1>5
  <2>2. Head(strand).task = "start" /\ Head(strand).change = c
    BY <2>1 DEF StartTask
  <2>3. Start(Head(strand).change)
    BY <2>2 DEF RunStrand
  <2> QED
    BY <1>1, <1>2, <2>1, <2>2, <2>3
<1>6. CASE \E c \in Changes : Head(strand) = WalkTask(c)
  <2>1. PICK c \in Changes : Head(strand) = WalkTask(c)
    BY <1>6
  <2>2. Head(strand).task = "walk" /\ Head(strand).change = c
    BY <2>1 DEF WalkTask
  <2>3. Walk(Head(strand).change)
    BY <2>2 DEF RunStrand
  <2> QED
    BY <1>1, <1>2, <2>1, <2>2, <2>3
<1> QED
  BY <1>2, <1>3, <1>4, <1>5, <1>6, TasksAre

\* Lines are put behind those of a session.
LEMMA LineSent ==
  ASSUME TypeOK, NEW s \in Sessions, NEW line \in Lines,
         sent' = [sent EXCEPT ![s] = Append(@, line)]
  PROVE  /\ sent' \in [Sessions -> Seq(Lines)]
         /\ \A t \in Sessions : t # s => sent'[t] = sent[t]
         /\ sent'[s] = Append(sent[s], line)
         /\ line.kind # "welcome" => \A t \in Sessions :
               (\E i \in DOMAIN sent'[t] : sent'[t][i].kind = "welcome")
                  => (\E i \in DOMAIN sent[t] : sent[t][i].kind = "welcome")
<1>1. sent[s] \in Seq(Lines) /\ sent \in [Sessions -> Seq(Lines)]
  BY DEF TypeOK
<1>2. /\ Append(sent[s], line) \in Seq(Lines)
      /\ DOMAIN Append(sent[s], line) = DOMAIN sent[s] \cup {Len(sent[s]) + 1}
      /\ Append(sent[s], line)[Len(sent[s]) + 1] = line
      /\ \A i \in DOMAIN sent[s] : Append(sent[s], line)[i] = sent[s][i]
  BY <1>1, Appended
<1>3. sent'[s] = Append(sent[s], line) /\ \A t \in Sessions : t # s => sent'[t] = sent[t]
  BY <1>1
<1> QED
  BY <1>1, <1>2, <1>3

\* A walk puts one push behind what is queued for a session, or nothing.
LEMMA WalkedInbox ==
  ASSUME TypeOK, NEW c \in Changes, of[c] \in Users, Walk(c), NEW s \in Sessions
  PROVE  /\ Push(c) \in Pushes
         /\ inbox'[s] = inbox[s] \/ inbox'[s] = Append(inbox[s], Push(c))
         /\ inbox'[s] \in Seq(Pushes)
<1>1. Push(c) \in Pushes
  BY DEF TypeOK, Push, Pushes
<1>2. inbox[s] \in Seq(Pushes) /\ index[of[c]][s] \in 0..1
  BY DEF TypeOK
<1>3. inbox'[s] = inbox[s] \/ inbox'[s] = inbox[s] \o [i \in 1..1 |-> Push(c)]
  <2>1. s \in Entries(of[c]) => index[of[c]][s] = 1
    BY <1>2 DEF Entries
  <2> QED
    BY <2>1 DEF Walk
<1>4. inbox'[s] = inbox[s] \/ inbox'[s] = Append(inbox[s], Push(c))
  BY <1>1, <1>2, <1>3, OneMore
<1> QED
  BY <1>1, <1>2, <1>4, Appended

LEMMA StrandGrows ==
  ASSUME TypeOK, NEW t \in Tasks
  PROVE  Append(strand, t) \in Seq(Tasks)
BY DEF TypeOK

LEMMA TypeInit == Init => TypeInv
<1> SUFFICES ASSUME Init PROVE TypeInv
  OBVIOUS
<1> USE PushConstants DEF Init
<1>1. 0 \in Versions
  BY FS_CardinalityType DEF Versions
<1>2. TypeOK
  BY <1>1 DEF TypeOK, Steps
<1>3. Counted
  <2> SUFFICES ASSUME NEW u \in Users
               PROVE  Cardinality({c \in Changes : of[c] = u}) = 0
    BY DEF Counted
  <2>1. {c \in Changes : of[c] = u} = {}
    OBVIOUS
  <2> QED
    BY <2>1, FS_EmptySet
<1>4. Begun /\ Unbegun /\ Known
  BY DEF Begun, Unbegun, Known
<1> QED
  BY <1>2, <1>3, <1>4 DEF TypeInv

LEMMA TypeStep ==
  ASSUME TypeInv, TaskInv, [Next]_vars
  PROVE  TypeInv'
<1> USE DEF TypeInv, Steps
<1>1. ASSUME NEW s \in Sessions, NEW u \in Users, Login(s, u) PROVE TypeInv'
  <2>1. CASE /\ user' = [user EXCEPT ![s] = u]
             /\ strand' = Append(strand, [task |-> "index", session |-> s])
             /\ loop' = [loop EXCEPT ![s] = "login"]
             /\ UNCHANGED lineVars
    <3>1. [task |-> "index", session |-> s] \in Tasks
      BY TasksAre DEF IndexTask
    <3>2. strand' \in Seq(Tasks)
      BY <2>1, <3>1, StrandGrows
    <3>3. TypeOK'
      BY <1>1, <2>1, <3>2, PushConstants DEF Login, TypeOK, lineVars, pushVars
    <3>4. Counted' /\ Begun' /\ Unbegun'
      BY <1>1 DEF Login, pushVars, Counted, Begun, Unbegun
    <3>5. Known'
      BY <1>1, <2>1 DEF Login, lineVars, Known, TypeOK
    <3> QED
      BY <3>3, <3>4, <3>5
  <2>2. CASE Send(s, [kind |-> "refused"]) /\ UNCHANGED <<user, strand, loop>>
    <3>1. [kind |-> "refused"] \in Lines /\ [kind |-> "refused"].kind # "welcome"
      BY DEF Lines
    <3>2. /\ sent' \in [Sessions -> Seq(Lines)]
          /\ \A t \in Sessions :
               (\E i \in DOMAIN sent'[t] : sent'[t][i].kind = "welcome")
                  => (\E i \in DOMAIN sent[t] : sent[t][i].kind = "welcome")
      BY <2>2, <3>1, LineSent DEF Send
    <3>3. TypeOK'
      BY <1>1, <2>2, <3>2, PushConstants DEF Login, TypeOK, pushVars, Send
    <3>4. Counted' /\ Begun' /\ Unbegun'
      BY <1>1 DEF Login, pushVars, Counted, Begun, Unbegun
    <3>5. Known'
      BY <2>2, <3>2 DEF Known
    <3> QED
      BY <3>3, <3>4, <3>5
  <2> QED
    BY <1>1, <2>1, <2>2 DEF Login
<1>2. ASSUME NEW s \in Sessions, Answer(s) PROVE TypeInv'
  <2>1. CASE AnswerLogin(s)
    <3>1. user[s] \in Users
      BY <2>1 DEF AnswerLogin, Known
    <3>2. PICK line \in Lines : Send(s, line)
      BY <2>1, <3>1 DEF AnswerLogin, Lines, Welcome
    <3>3. /\ sent' \in [Sessions -> Seq(Lines)]
          /\ \A t \in Sessions : t # s => sent'[t] = sent[t]
      BY <3>2, LineSent DEF Send
    <3>4. TypeOK'
      BY <2>1, <3>2, <3>3 DEF AnswerLogin, TypeOK, pushVars, Send
    <3>5. Counted' /\ Begun' /\ Unbegun'
      BY <2>1 DEF AnswerLogin, pushVars, Counted, Begun, Unbegun
    <3>6. Known'
      BY <2>1, <3>1, <3>3 DEF AnswerLogin, Known, TypeOK
    <3> QED
      BY <3>4, <3>5, <3>6
  <2>2. CASE ReadList(s)
    <3>1. user[s] \in Users
      BY <2>2 DEF ReadList, Known, Owes
    <3>2. TypeOK'
      BY <2>2, <3>1 DEF ReadList, TypeOK, pushVars, lineVars
    <3>3. Counted' /\ Begun' /\ Unbegun'
      BY <2>2 DEF ReadList, pushVars, Counted, Begun, Unbegun
    <3>4. Known'
      BY <2>2, <3>1 DEF ReadList, Known, TypeOK, lineVars
    <3> QED
      BY <3>2, <3>3, <3>4
  <2>3. CASE AnswerList(s)
    <3>1. user[s] \in Users
      BY <2>3 DEF AnswerList, Known
    <3>2. read[s] \in Versions
      BY DEF TypeOK
    <3>3. PICK line \in Lines : Send(s, line)
      BY <2>3, <3>1, <3>2 DEF AnswerList, Lines, List
    <3>4. /\ sent' \in [Sessions -> Seq(Lines)]
          /\ \A t \in Sessions : t # s => sent'[t] = sent[t]
      BY <3>3, LineSent DEF Send
    <3>5. TypeOK'
      BY <2>3, <3>3, <3>4 DEF AnswerList, TypeOK, pushVars, Send
    <3>6. Counted' /\ Begun' /\ Unbegun'
      BY <2>3 DEF AnswerList, pushVars, Counted, Begun, Unbegun
    <3>7. Known'
      BY <2>3, <3>1, <3>4 DEF AnswerList, Known, TypeOK
    <3> QED
      BY <3>5, <3>6, <3>7
  <2> QED
    BY <1>2, <2>1, <2>2, <2>3 DEF Answer
<1>3. ASSUME NEW s \in Sessions, EndReading(s) PROVE TypeInv'
  <2>1. [task |-> "remove", session |-> s] \in Tasks
    BY TasksAre DEF RemoveTask
  <2>2. strand' \in Seq(Tasks)
    BY <1>3, <2>1, StrandGrows DEF EndReading
  <2>3. TypeOK'
    BY <1>3, <2>2 DEF EndReading, TypeOK, pushVars, lineVars
  <2>4. Counted' /\ Begun' /\ Unbegun'
    BY <1>3 DEF EndReading, pushVars, Counted, Begun, Unbegun
  <2>5. Known'
    BY <1>3 DEF EndReading, Known, TypeOK, lineVars
  <2> QED
    BY <2>3, <2>4, <2>5
<1>4. ASSUME NEW s \in Sessions, Deliver(s) PROVE TypeInv'
  <2>1. inbox[s] \in Seq(Pushes) /\ inbox[s] # <<>>
    BY <1>4 DEF Deliver, TypeOK
  <2>2. Head(inbox[s]) \in Pushes /\ Tail(inbox[s]) \in Seq(Pushes)
    BY <2>1, Taken
  <2>3. Head(inbox[s]) \in Lines /\ Head(inbox[s]).kind # "welcome"
    BY <2>2 DEF Lines, Pushes
  <2>4. /\ sent' \in [Sessions -> Seq(Lines)]
        /\ \A t \in Sessions :
             (\E i \in DOMAIN sent'[t] : sent'[t][i].kind = "welcome")
                => (\E i \in DOMAIN sent[t] : sent[t][i].kind = "welcome")
    BY <1>4, <2>3, LineSent DEF Deliver
  <2>5. TypeOK'
    BY <1>4, <2>2, <2>4 DEF Deliver, TypeOK, pushVars, sessionVars
  <2>6. Counted' /\ Begun' /\ Unbegun'
    BY <1>4 DEF Deliver, pushVars, Counted, Begun, Unbegun
  <2>7. Known'
    BY <1>4, <2>4 DEF Deliver, Known, sessionVars
  <2> QED
    BY <2>5, <2>6, <2>7
<1>5. ASSUME NEW s \in Sessions, Destroy(s) PROVE TypeInv'
  <2>1. TypeOK'
    BY <1>5 DEF Destroy, TypeOK, pushVars, sessionVars, lineVars
  <2>2. Counted' /\ Begun' /\ Unbegun' /\ Known'
    BY <1>5 DEF Destroy, pushVars, sessionVars, lineVars, Counted, Begun, Unbegun, Known
  <2> QED
    BY <2>1, <2>2
<1>6. ASSUME NEW c \in Changes, NEW u \in Users, Change(c, u) PROVE TypeInv'
  <2> DEFINE P(v) == {d \in Changes : of[d] = v}
  <2>1. stored[u] = Cardinality(P(u)) /\ c \in Changes \ P(u)
    BY <1>6, PushConstants DEF Change, Unbegun, Counted
  <2>2. stored[u] + 1 \in Versions /\ Cardinality(P(u) \cup {c}) = stored[u] + 1
    <3> HIDE DEF P
    <3>1. P(u) \in SUBSET Changes
      BY DEF P
    <3> QED
      BY <2>1, <3>1, CountWithin
  <2>3. TypeOK'
    BY <1>6, <2>2 DEF Change, TypeOK, sessionVars, lineVars
  <2>4. Begun' /\ Unbegun'
    BY <1>6 DEF Change, TypeOK, Begun, Unbegun
  <2>5. Counted'
    <3> SUFFICES ASSUME NEW v \in Users
                 PROVE  stored'[v] = Cardinality({d \in Changes : of'[d] = v})
      BY DEF Counted
    <3>1. CASE v = u
      <4>1. {d \in Changes : of'[d] = v} = P(u) \cup {c}
        BY <1>6, <3>1 DEF Change, TypeOK
      <4>2. stored'[v] = stored[u] + 1
        BY <1>6, <3>1 DEF Change, TypeOK
      <4> QED
        BY <4>1, <4>2, <2>2
    <3>2. CASE v # u
      <4>1. of[c] = NoUser
        BY <1>6 DEF Change, Unbegun
      <4>2. {d \in Changes : of'[d] = v} = P(v)
        BY <1>6, <3>2, <4>1, PushConstants DEF Change, TypeOK
      <4>3. stored'[v] = stored[v]
        BY <1>6, <3>2 DEF Change, TypeOK
      <4> QED
        BY <4>2, <4>3 DEF Counted
    <3> QED
      BY <3>1, <3>2
  <2>6. Known'
    BY <1>6 DEF Change, sessionVars, lineVars, Known
  <2> QED
    BY <2>3, <2>4, <2>5, <2>6
<1>7. ASSUME NEW c \in Changes, Spawn(c) PROVE TypeInv'
  <2>1. [task |-> "start", change |-> c] \in Tasks
    BY TasksAre DEF StartTask
  <2>2. strand' \in Seq(Tasks)
    BY <1>7, <2>1, StrandGrows DEF Spawn, TypeOK
  <2>3. TypeOK'
    BY <1>7, <2>2 DEF Spawn, TypeOK, sessionVars, lineVars
  <2>4. Counted' /\ Begun' /\ Unbegun' /\ Known'
    BY <1>7 DEF Spawn, TypeOK, sessionVars, lineVars, Counted, Begun, Unbegun, Known
  <2> QED
    BY <2>3, <2>4
<1>8. ASSUME NEW c \in Changes, Load(c) PROVE TypeInv'
  <2>1. [task |-> "walk", change |-> c] \in Tasks
    BY TasksAre DEF WalkTask
  <2>2. strand' \in Seq(Tasks)
    BY <1>8, <2>1, StrandGrows DEF Load, TypeOK
  <2>3. of[c] \in Users
    BY <1>8 DEF Load, Begun
  <2>4. TypeOK'
    BY <1>8, <2>2, <2>3 DEF Load, TypeOK, sessionVars, lineVars
  <2>5. Counted' /\ Begun' /\ Unbegun' /\ Known'
    BY <1>8 DEF Load, TypeOK, sessionVars, lineVars, Counted, Begun, Unbegun, Known
  <2> QED
    BY <2>4, <2>5
<1>9. ASSUME RunStrand PROVE TypeInv'
  <2>1. strand' \in Seq(Tasks) /\ TaskOK(Head(strand))
    <3>1. strand \in Seq(Tasks)
      BY DEF TypeOK
    <3>2. strand # <<>> /\ strand' = Tail(strand) /\ TaskOK(Head(strand))
      BY <1>9, RunCases
    <3> QED
      BY <3>1, <3>2
  <2>2. ASSUME NEW s \in Sessions, Head(strand) = IndexTask(s), Index(s) PROVE TypeInv'
    <3>1. user[s] \in Users
      BY <2>1, <2>2 DEF TaskOK, IndexTask
    <3>2. index' \in [Users -> [Sessions -> 0..1]]
      BY <2>2, <3>1 DEF Index, Erase, TypeOK
    <3>3. TypeOK'
      BY <2>1, <2>2, <3>2 DEF Index, TypeOK, pushVars, sessionVars, lineVars
    <3> QED
      BY <3>3, <2>2 DEF Index, pushVars, sessionVars, lineVars, Counted, Begun, Unbegun, Known
  <2>3. ASSUME NEW s \in Sessions, Remove(s) PROVE TypeInv'
    <3>1. index' \in [Users -> [Sessions -> 0..1]]
      BY <2>3 DEF Remove, Erase, TypeOK
    <3>2. TypeOK'
      BY <2>1, <2>3, <3>1 DEF Remove, TypeOK, pushVars, sessionVars, lineVars
    <3> QED
      BY <3>2, <2>3 DEF Remove, pushVars, sessionVars, lineVars, Counted, Begun, Unbegun, Known
  <2>4. ASSUME NEW c \in Changes, Head(strand) = StartTask(c), Start(c) PROVE TypeInv'
    <3>1. pc[c] = "spawned"
      BY <2>1, <2>4 DEF TaskOK, StartTask
    <3>2. TypeOK'
      BY <2>1, <2>4 DEF Start, TypeOK, sessionVars, lineVars
    <3> QED
      <4>1. Begun' /\ Unbegun'
        BY <3>1, <2>4 DEF Start, TypeOK, Begun, Unbegun
      <4>2. Counted' /\ Known'
        BY <2>4 DEF Start, sessionVars, lineVars, Counted, Known
      <4> QED
        BY <3>2, <4>1, <4>2
  <2>5. ASSUME NEW c \in Changes, Head(strand) = WalkTask(c), Walk(c) PROVE TypeInv'
    <3>1. pc[c] = "loaded" /\ of[c] \in Users
      BY <2>1, <2>5 DEF TaskOK, WalkTask, Begun
    <3>2. index' \in [Users -> [Sessions -> 0..1]]
      BY <2>5, <3>1 DEF Walk, TypeOK
    <3>3. ASSUME NEW s \in Sessions PROVE inbox'[s] \in Seq(Pushes)
      BY <2>5, <3>1, WalkedInbox
    <3>4. inbox' \in [Sessions -> Seq(Pushes)]
      BY <2>5, <3>3 DEF Walk
    <3>5. TypeOK'
      BY <2>1, <2>5, <3>2, <3>4 DEF Walk, TypeOK, sessionVars
    <3> QED
      <4>1. Begun' /\ Unbegun'
        BY <3>1, <2>5 DEF Walk, TypeOK, Begun, Unbegun
      <4>2. Counted' /\ Known'
        BY <2>5 DEF Walk, sessionVars, Counted, Known
      <4> QED
        BY <3>5, <4>1, <4>2
  <2> QED
    BY <1>9, <2>2, <2>3, <2>4, <2>5, RunCases
<1>10. CASE UNCHANGED vars
  <2> USE DEF vars, pushVars, sessionVars, lineVars
  <2>1. TypeOK'
    BY <1>10 DEF TypeOK
  <2> QED
    BY <2>1, <1>10 DEF Counted, Begun, Unbegun, Known
<1> QED
  BY <1>1, <1>2, <1>3, <1>4, <1>5, <1>6, <1>7, <1>8, <1>9, <1>10 DEF Next
-----------------------------------------------------------------------------
(* The strand *)

\* A login is not undone, nor is a session's end.
SessionsKept ==
    \A s \in Sessions : /\ user[s] \in Users => user'[s] \in Users
                        /\ Ended(s) => Ended(s)'

LEMMA TaskKept ==
  ASSUME SessionsKept, NEW x \in Tasks, TaskOK(x),
         x.task \in {"start", "walk"} => pc'[x.change] = pc[x.change]
  PROVE  TaskOK(x)'
<1>1. CASE \E s \in Sessions : x = IndexTask(s) \/ x = RemoveTask(s)
  BY <1>1 DEF TaskOK, SessionsKept, IndexTask, RemoveTask
<1>2. CASE \E c \in Changes : x = StartTask(c) \/ x = WalkTask(c)
  BY <1>2 DEF TaskOK, StartTask, WalkTask
<1> QED
  BY <1>1, <1>2, TasksAre

LEMMA TaskUnchanged ==
  ASSUME TypeOK, TaskInv, QueuedOnce, UNCHANGED strand,
         \A x \in Tasks : TaskOK(x) => TaskOK(x)'
  PROVE  TaskInv' /\ QueuedOnce'
<1>1. \A i \in DOMAIN strand : strand[i] \in Tasks
  BY DEF TypeOK
<1>2. ASSUME NEW i \in DOMAIN strand PROVE TaskOK(strand[i])'
  <2>1. PICK x \in Tasks : x = strand[i]
    BY <1>1, <1>2
  <2>2. TaskOK(x)
    BY <1>2, <2>1 DEF TaskInv
  <2> QED
    BY <2>1, <2>2 DEF TaskOK, Ended
<1> QED
  BY <1>2 DEF TaskInv, QueuedOnce

LEMMA TasksGrow ==
  ASSUME TypeOK, TaskInv, QueuedOnce, NEW t \in Tasks, strand' = Append(strand, t),
         \A x \in Tasks : TaskOK(x) => TaskOK(x)',
         TaskOK(t)',
         t.task \in {"start", "walk"} => \A i \in DOMAIN strand : strand[i] # t
  PROVE  TaskInv' /\ QueuedOnce'
<1>1. strand \in Seq(Tasks)
  BY DEF TypeOK
<1>2. /\ DOMAIN strand' = DOMAIN strand \cup {Len(strand) + 1}
      /\ Len(strand) + 1 \notin DOMAIN strand
      /\ strand'[Len(strand) + 1] = t
      /\ \A i \in DOMAIN strand : strand'[i] = strand[i] /\ strand[i] \in Tasks
  BY <1>1
<1>3. TaskInv'
  <2> SUFFICES ASSUME NEW i \in DOMAIN strand' PROVE TaskOK(strand[i])'
    BY DEF TaskInv
  <2>1. CASE i \in DOMAIN strand
    <3>1. PICK x \in Tasks : x = strand[i]
      BY <1>2, <2>1
    <3>2. TaskOK(x)
      BY <2>1, <3>1 DEF TaskInv
    <3>3. strand'[i] = x
      BY <1>2, <2>1, <3>1
    <3> QED
      BY <3>2, <3>3 DEF TaskOK, Ended
  <2>2. CASE i = Len(strand) + 1
    <3>1. strand'[i] = t
      BY <1>2, <2>2
    <3> QED
      BY <3>1 DEF TaskOK, Ended
  <2> QED
    BY <1>2, <2>1, <2>2
<1>4. QueuedOnce'
  BY <1>2 DEF QueuedOnce
<1> QED
  BY <1>3, <1>4

LEMMA TasksShrink ==
  ASSUME TypeOK, TaskInv, QueuedOnce, strand # <<>>, strand' = Tail(strand),
         \A x \in Tasks : \/ x = Head(strand) /\ x.task \in {"start", "walk"}
                          \/ TaskOK(x) => TaskOK(x)'
  PROVE  TaskInv' /\ QueuedOnce'
<1>1. strand \in Seq(Tasks)
  BY DEF TypeOK
<1>2. /\ 1 \in DOMAIN strand /\ Head(strand) = strand[1]
      /\ \A i \in DOMAIN strand' : /\ i + 1 \in DOMAIN strand /\ i + 1 # 1
                                   /\ strand'[i] = strand[i + 1]
                                   /\ strand[i + 1] \in Tasks
      /\ \A i, j \in DOMAIN strand' : i + 1 = j + 1 => i = j
  BY <1>1
<1>3. TaskInv'
  <2> SUFFICES ASSUME NEW i \in DOMAIN strand' PROVE TaskOK(strand[i])'
    BY DEF TaskInv
  <2>1. PICK x \in Tasks : x = strand[i + 1] /\ x = strand'[i]
    BY <1>2
  <2>2. TaskOK(x)
    BY <1>2, <2>1 DEF TaskInv
  <2>3. ~(x = Head(strand) /\ x.task \in {"start", "walk"})
    BY <1>2, <2>1 DEF QueuedOnce
  <2> QED
    BY <2>1, <2>2, <2>3 DEF TaskOK, Ended
<1>4. QueuedOnce'
  BY <1>2 DEF QueuedOnce
<1> QED
  BY <1>3, <1>4

LEMMA KeptByStep ==
  ASSUME TypeOK, TaskInv, [Next]_vars
  PROVE  SessionsKept
<1> USE DEF SessionsKept, Ended, TypeOK, pushVars, sessionVars
<1>1. ASSUME NEW s \in Sessions, NEW u \in Users, Login(s, u) PROVE SessionsKept
  BY <1>1 DEF Login
<1>2. ASSUME NEW s \in Sessions, Answer(s) PROVE SessionsKept
  BY <1>2 DEF Answer, AnswerLogin, ReadList, AnswerList
<1>3. ASSUME NEW s \in Sessions, EndReading(s) \/ Deliver(s) \/ Destroy(s) PROVE SessionsKept
  BY <1>3 DEF EndReading, Deliver, Destroy
<1>4. ASSUME NEW c \in Changes, (\E u \in Users : Change(c, u)) \/ Spawn(c) \/ Load(c)
      PROVE  SessionsKept
  BY <1>4 DEF Change, Spawn, Load
<1>5. CASE RunStrand
  BY <1>5, RunCases DEF Index, Remove, Start, Walk
<1>6. CASE UNCHANGED vars
  BY <1>6 DEF vars
<1> QED
  BY <1>1, <1>2, <1>3, <1>4, <1>5, <1>6 DEF Next
LEMMA TaskStep ==
  ASSUME TypeInv, TaskInv, QueuedOnce, LifeInv, [Next]_vars
  PROVE  TaskInv' /\ QueuedOnce' /\ LifeInv'
<1> USE DEF TypeInv
<1>1. SessionsKept
  BY KeptByStep
<1>2. ASSUME NEW x \in Tasks, TaskOK(x), UNCHANGED pc PROVE TaskOK(x)'
  BY <1>1, <1>2, TaskKept
<1>3. ASSUME NEW s \in Sessions, NEW u \in Users, Login(s, u)
      PROVE  TaskInv' /\ QueuedOnce' /\ LifeInv'
  <2>1. UNCHANGED <<pc, life>>
    BY <1>3 DEF Login, pushVars
  <2>2. LifeInv'
    BY <1>1, <2>1 DEF LifeInv, SessionsKept
  <2>3. CASE UNCHANGED strand
    BY <1>2, <2>1, <2>2, <2>3, TaskUnchanged
  <2>4. CASE strand' = Append(strand, IndexTask(s)) /\ user' = [user EXCEPT ![s] = u]
    <3>1. IndexTask(s) \in Tasks /\ IndexTask(s).task = "index"
      BY TasksAre DEF IndexTask
    <3>2. user'[s] \in Users
      BY <2>4 DEF TypeOK
    <3>3. TaskOK(IndexTask(s))'
      BY <3>2 DEF TaskOK, IndexTask
    <3> QED
      BY <1>2, <2>1, <2>2, <2>4, <3>1, <3>3, TasksGrow
  <2> QED
    BY <1>3, <2>3, <2>4 DEF Login, IndexTask
<1>4. ASSUME NEW s \in Sessions, Answer(s) \/ Deliver(s) \/ Destroy(s)
      PROVE  TaskInv' /\ QueuedOnce' /\ LifeInv'
  <2>1. UNCHANGED <<pc, strand>>
    BY <1>4 DEF Answer, AnswerLogin, ReadList, AnswerList, Deliver, Destroy, pushVars
  <2>2. LifeInv'
    <3>1. CASE Destroy(s)
      BY <3>1 DEF Destroy, LifeInv, Ended, TypeOK, sessionVars
    <3>2. CASE UNCHANGED life
      BY <1>1, <3>2 DEF LifeInv, SessionsKept
    <3> QED
      BY <1>4, <3>1, <3>2 DEF Answer, AnswerLogin, ReadList, AnswerList, Deliver
  <2> QED
    BY <1>2, <2>1, <2>2, TaskUnchanged
<1>5. ASSUME NEW s \in Sessions, EndReading(s)
      PROVE  TaskInv' /\ QueuedOnce' /\ LifeInv'
  <2>1. /\ UNCHANGED <<pc, life>> /\ Ended(s)'
        /\ strand' = Append(strand, RemoveTask(s))
    BY <1>5 DEF EndReading, pushVars, Ended, TypeOK, RemoveTask
  <2>2. LifeInv'
    BY <1>1, <2>1 DEF LifeInv, SessionsKept
  <2>3. RemoveTask(s) \in Tasks /\ RemoveTask(s).task = "remove"
    BY TasksAre DEF RemoveTask
  <2>4. TaskOK(RemoveTask(s))'
    BY <2>1 DEF TaskOK, RemoveTask
  <2> QED
    BY <1>2, <2>1, <2>2, <2>3, <2>4, TasksGrow
<1>6. ASSUME NEW c \in Changes, (\E u \in Users : Change(c, u)) \/ Spawn(c) \/ Load(c)
      PROVE  TaskInv' /\ QueuedOnce' /\ LifeInv'
  <2>1. LifeInv'
    <3>1. UNCHANGED life
      BY <1>6 DEF Change, Spawn, Load
    <3> QED
      BY <1>1, <3>1 DEF LifeInv, SessionsKept
  <2>2. /\ \A d \in Changes : d # c => pc'[d] = pc[d]
        /\ pc[c] \notin {"spawned", "loaded"}
    BY <1>6 DEF Change, Spawn, Load, TypeOK
  <2>3. ASSUME NEW x \in Tasks, TaskOK(x) PROVE TaskOK(x)'
    <3>1. x.task \in {"start", "walk"} => x.change \in Changes
      BY DEF Tasks
    <3>2. x.task \in {"start", "walk"} => pc'[x.change] = pc[x.change]
      BY <2>2, <2>3, <3>1 DEF TaskOK
    <3> QED
      BY <1>1, <2>3, <3>2, TaskKept
  <2>4. CASE UNCHANGED strand
    BY <2>1, <2>3, <2>4, TaskUnchanged
  <2>5. CASE strand' = Append(strand, StartTask(c)) /\ pc' = [pc EXCEPT ![c] = "spawned"]
    <3>1. StartTask(c) \in Tasks
      BY TasksAre
    <3>2. TaskOK(StartTask(c))'
      BY <2>5 DEF TaskOK, StartTask, TypeOK
    <3>3. \A i \in DOMAIN strand : strand[i] # StartTask(c)
      BY <2>2 DEF TaskInv, TaskOK, StartTask
    <3> QED
      BY <2>1, <2>3, <2>5, <3>1, <3>2, <3>3, TasksGrow
  <2>6. CASE strand' = Append(strand, WalkTask(c)) /\ pc' = [pc EXCEPT ![c] = "loaded"]
    <3>1. WalkTask(c) \in Tasks
      BY TasksAre
    <3>2. TaskOK(WalkTask(c))'
      BY <2>6 DEF TaskOK, WalkTask, TypeOK
    <3>3. \A i \in DOMAIN strand : strand[i] # WalkTask(c)
      BY <2>2 DEF TaskInv, TaskOK, WalkTask
    <3> QED
      BY <2>1, <2>3, <2>6, <3>1, <3>2, <3>3, TasksGrow
  <2> QED
    BY <1>6, <2>4, <2>5, <2>6 DEF Change, Spawn, Load, StartTask, WalkTask
<1>7. CASE RunStrand
  <2>1. strand # <<>> /\ strand' = Tail(strand) /\ TaskOK(Head(strand))
    BY <1>7, RunCases
  <2>2. ASSUME NEW s \in Sessions, Index(s) \/ (Head(strand) = RemoveTask(s) /\ Remove(s))
        PROVE  TaskInv' /\ QueuedOnce' /\ LifeInv'
    <3>1. UNCHANGED pc
      BY <2>2 DEF Index, Remove, pushVars
    <3>2. LifeInv'
      <4>1. CASE Index(s)
        BY <1>1, <4>1 DEF Index, LifeInv, SessionsKept
      <4>2. CASE Head(strand) = RemoveTask(s) /\ Remove(s)
        <5>1. Ended(s)
          BY <2>1, <4>2 DEF TaskOK, RemoveTask
        <5> QED
          BY <4>2, <5>1 DEF Remove, LifeInv, TypeOK, Ended, sessionVars
      <4> QED
        BY <2>2, <4>1, <4>2
    <3> QED
      BY <1>2, <2>1, <3>1, <3>2, TasksShrink
  <2>3. ASSUME NEW c \in Changes, \/ Head(strand) = StartTask(c) /\ Start(c)
                                  \/ Head(strand) = WalkTask(c) /\ Walk(c)
        PROVE  TaskInv' /\ QueuedOnce' /\ LifeInv'
    <3>1. UNCHANGED life /\ \A d \in Changes : d # c => pc'[d] = pc[d]
      BY <2>3 DEF Start, Walk, TypeOK
    <3>2. LifeInv'
      BY <1>1, <3>1 DEF LifeInv, SessionsKept
    <3>3. ASSUME NEW x \in Tasks, TaskOK(x), ~(x = Head(strand) /\ x.task \in {"start", "walk"})
          PROVE  TaskOK(x)'
      <4>1. CASE x.task \in {"start", "walk"} /\ x.change = c
        <5>1. x = StartTask(c) \/ x = WalkTask(c)
          BY <4>1, TasksAre DEF StartTask, WalkTask, IndexTask, RemoveTask
        <5>2. FALSE
          BY <2>1, <2>3, <3>3, <5>1, <4>1 DEF TaskOK, StartTask, WalkTask
        <5> QED
          BY <5>2
      <4>2. CASE ~(x.task \in {"start", "walk"} /\ x.change = c)
        <5>1. x.task \in {"start", "walk"} => x.change \in Changes
          BY DEF Tasks
        <5> QED
          BY <1>1, <3>1, <3>3, <4>2, <5>1, TaskKept
      <4> QED
        BY <4>1, <4>2
    <3> QED
      BY <2>1, <3>2, <3>3, TasksShrink
  <2> QED
    BY <1>7, <2>2, <2>3, RunCases
<1>8. CASE UNCHANGED vars
  <2>1. UNCHANGED <<pc, life, strand>>
    BY <1>8 DEF vars, pushVars
  <2>2. LifeInv'
    BY <1>1, <2>1 DEF LifeInv, SessionsKept
  <2> QED
    BY <1>2, <2>1, <2>2, TaskUnchanged
<1> QED
  BY <1>3, <1>4, <1>5, <1>6, <1>7, <1>8 DEF Next
-----------------------------------------------------------------------------
(* Pushes *)

LEMMA PushSame ==
  ASSUME PushInv, UNCHANGED lineVars,
         \A c \in Changes : pc[c] = "pushed" => pc'[c] = "pushed",
         TypeOK
  PROVE  PushInv'
<1> USE DEF lineVars
<1>1. \A s \in Sessions : \A i \in DOMAIN inbox[s] : inbox[s][i].change \in Changes
  <2> SUFFICES ASSUME NEW s \in Sessions, NEW i \in DOMAIN inbox[s]
               PROVE  inbox[s][i].change \in Changes
    OBVIOUS
  <2>1. inbox[s][i] \in Pushes
    BY DEF TypeOK
  <2> QED
    BY <2>1 DEF Pushes
<1>2. \A s \in Sessions : \A i \in DOMAIN sent[s] :
         sent[s][i].kind = "push" => sent[s][i].change \in Changes
  <2> SUFFICES ASSUME NEW s \in Sessions, NEW i \in DOMAIN sent[s], sent[s][i].kind = "push"
               PROVE  sent[s][i].change \in Changes
    OBVIOUS
  <2>1. sent[s][i] \in Lines
    BY DEF TypeOK
  <2> QED
    BY <2>1 DEF Lines, Pushes
<1> QED
  BY <1>1, <1>2 DEF PushInv, QueueInv, SentInv, PushedOnce

LEMMA PushAnswer ==
  ASSUME TypeOK, PushInv, UNCHANGED pc, NEW s \in Sessions, NEW line \in Lines,
         line.kind # "push", Send(s, line)
  PROVE  PushInv'
<1>1. /\ inbox' = inbox
      /\ \A t \in Sessions : t # s => sent'[t] = sent[t]
      /\ sent'[s] = Append(sent[s], line)
  BY LineSent DEF Send
<1>2. sent[s] \in Seq(Lines)
  BY DEF TypeOK
<1>3. \A i \in DOMAIN sent'[s] :
         \/ i \in DOMAIN sent[s] /\ sent'[s][i] = sent[s][i]
         \/ sent'[s][i].kind # "push"
  BY <1>1, <1>2
<1>4. \A t \in Sessions : \A i \in DOMAIN sent'[t] :
         sent'[t][i].kind = "push" => i \in DOMAIN sent[t] /\ sent'[t][i] = sent[t][i]
  BY <1>1, <1>3
<1> QED
  BY <1>1, <1>4 DEF PushInv, QueueInv, SentInv, PushedOnce

LEMMA PushDelivered ==
  ASSUME TypeOK, PushInv, NEW s \in Sessions, Deliver(s)
  PROVE  PushInv'
<1> DEFINE q == inbox[s]
           h == Head(inbox[s])
<1>1. q \in Seq(Pushes) /\ q # <<>> /\ sent[s] \in Seq(Lines) /\ pc' = pc
  BY DEF TypeOK, Deliver, pushVars
<1>2. /\ 1 \in DOMAIN q /\ h = q[1] /\ h \in Pushes
      /\ \A i \in DOMAIN Tail(q) : i + 1 \in DOMAIN q /\ Tail(q)[i] = q[i + 1] /\ i + 1 # 1
      /\ \A i, j \in DOMAIN Tail(q) : i + 1 = j + 1 => i = j
  BY <1>1, Taken
<1>3. h \in Lines /\ h.kind = "push" /\ h.change \in Changes
  BY <1>2 DEF Pushes, Lines
<1>4. /\ \A t \in Sessions : t # s => sent'[t] = sent[t] /\ inbox'[t] = inbox[t]
      /\ sent'[s] = Append(sent[s], h) /\ inbox'[s] = Tail(q)
  BY <1>3, LineSent DEF Deliver, TypeOK
<1>5. \A i \in DOMAIN sent'[s] :
         \/ i \in DOMAIN sent[s] /\ sent'[s][i] = sent[s][i]
         \/ i = Len(sent[s]) + 1 /\ sent'[s][i] = h
  BY <1>1, <1>3, <1>4
<1>6. QueueInv'
  <2> SUFFICES ASSUME NEW t \in Sessions
               PROVE  /\ \A i \in DOMAIN inbox'[t] : pc'[inbox'[t][i].change] = "pushed"
                      /\ \A i, j \in DOMAIN inbox'[t] :
                            inbox'[t][i].change = inbox'[t][j].change => i = j
    BY DEF QueueInv
  <2>1. CASE t # s
    BY <1>1, <1>4, <2>1 DEF PushInv, QueueInv
  <2>2. CASE t = s
    <3>1. /\ \A i \in DOMAIN q : pc[q[i].change] = "pushed"
          /\ \A i, j \in DOMAIN q : q[i].change = q[j].change => i = j
      BY DEF PushInv, QueueInv
    <3>2. \A i \in DOMAIN Tail(q) : pc[Tail(q)[i].change] = "pushed"
      BY <1>2, <3>1
    <3>3. \A i, j \in DOMAIN Tail(q) : Tail(q)[i].change = Tail(q)[j].change => i = j
      BY <1>2, <3>1
    <3>4. inbox'[t] = Tail(q) /\ pc' = pc
      BY <1>1, <1>4, <2>2
    <3> HIDE DEF q
    <3> QED
      BY <3>2, <3>3, <3>4
  <2> QED
    BY <2>1, <2>2
<1>7. /\ pc[h.change] = "pushed"
      /\ \A i \in DOMAIN Tail(q) : Tail(q)[i].change # h.change
      /\ \A i \in DOMAIN sent[s] : sent[s][i].kind = "push" => sent[s][i].change # h.change
  BY <1>2 DEF PushInv, QueueInv, SentInv
<1>8. SentInv'
  <2> SUFFICES ASSUME NEW t \in Sessions, NEW i \in DOMAIN sent'[t], sent'[t][i].kind = "push"
               PROVE  /\ pc'[sent'[t][i].change] = "pushed"
                      /\ \A j \in DOMAIN inbox'[t] : inbox'[t][j].change # sent'[t][i].change
    BY DEF SentInv
  <2>1. CASE t # s
    BY <1>1, <1>4, <2>1 DEF PushInv, SentInv
  <2>2. CASE t = s /\ i \in DOMAIN sent[s] /\ sent'[s][i] = sent[s][i]
    <3>1. /\ pc[sent[s][i].change] = "pushed"
          /\ \A j \in DOMAIN q : q[j].change # sent[s][i].change
      BY <2>2 DEF PushInv, SentInv
    <3>2. \A j \in DOMAIN Tail(q) : Tail(q)[j].change # sent[s][i].change
      BY <1>2, <3>1
    <3>3. inbox'[t] = Tail(q) /\ pc' = pc /\ sent'[t][i] = sent[s][i]
      BY <1>1, <1>4, <2>2
    <3> HIDE DEF q
    <3> QED
      BY <3>1, <3>2, <3>3
  <2>3. CASE t = s /\ sent'[s][i] = h
    BY <1>1, <1>4, <1>7, <2>3
  <2> QED
    BY <1>5, <2>1, <2>2, <2>3
<1>9. PushedOnce'
  <2> SUFFICES ASSUME NEW t \in Sessions, NEW i \in DOMAIN sent'[t], NEW j \in DOMAIN sent'[t],
                      sent'[t][i].kind = "push", sent'[t][j].kind = "push",
                      sent'[t][i].change = sent'[t][j].change
               PROVE  i = j
    BY DEF PushedOnce
  <2>1. CASE t # s
    BY <1>4, <2>1 DEF PushInv, PushedOnce
  <2>2. CASE t = s
    <3>1. \A k, l \in DOMAIN sent[s] :
             sent[s][k].kind = "push" /\ sent[s][l].kind = "push"
             /\ sent[s][k].change = sent[s][l].change => k = l
      BY DEF PushInv, PushedOnce
    <3> QED
      BY <1>5, <1>7, <2>2, <3>1
  <2> QED
    BY <2>1, <2>2
<1> QED
  BY <1>6, <1>8, <1>9 DEF PushInv

LEMMA PushWalked ==
  ASSUME TypeOK, PushInv, NEW c \in Changes, of[c] \in Users, pc[c] = "loaded", Walk(c)
  PROVE  PushInv'
<1>1. /\ pc'[c] = "pushed" /\ \A d \in Changes : d # c => pc'[d] = pc[d]
      /\ sent' = sent
  BY DEF Walk, TypeOK
<1>2. Push(c) \in Pushes /\ Push(c).change = c
  BY DEF TypeOK, Push, Pushes
<1>3. ASSUME NEW s \in Sessions
      PROVE  /\ \A i \in DOMAIN inbox'[s] :
                   \/ i \in DOMAIN inbox[s] /\ inbox'[s][i] = inbox[s][i]
                   \/ i = Len(inbox[s]) + 1 /\ inbox'[s][i].change = c
             /\ \A i \in DOMAIN inbox[s] : inbox[s][i].change \in Changes \ {c}
  <2>1. inbox[s] \in Seq(Pushes)
    BY DEF TypeOK
  <2>2. inbox'[s] = inbox[s] \/ inbox'[s] = Append(inbox[s], Push(c))
    BY WalkedInbox
  <2>3. \A i \in DOMAIN inbox[s] : inbox[s][i].change \in Changes \ {c}
    <3>1. \A i \in DOMAIN inbox[s] : inbox[s][i] \in Pushes
      BY <2>1
    <3> QED
      BY <3>1 DEF Pushes, PushInv, QueueInv
  <2> QED
    BY <1>2, <2>1, <2>2, <2>3
<1>4. \A s \in Sessions : \A i \in DOMAIN sent[s] :
         sent[s][i].kind = "push" => sent[s][i].change \in Changes \ {c}
  <2> SUFFICES ASSUME NEW s \in Sessions, NEW i \in DOMAIN sent[s], sent[s][i].kind = "push"
               PROVE  sent[s][i].change \in Changes \ {c}
    OBVIOUS
  <2>1. sent[s][i] \in Lines
    BY DEF TypeOK
  <2> QED
    BY <2>1 DEF Lines, Pushes, PushInv, SentInv
<1>5. QueueInv'
  BY <1>1, <1>3 DEF PushInv, QueueInv
<1>6. SentInv'
  BY <1>1, <1>3, <1>4 DEF PushInv, SentInv
<1>7. PushedOnce'
  BY <1>1 DEF PushInv, PushedOnce
<1> QED
  BY <1>5, <1>6, <1>7 DEF PushInv

LEMMA PushStep ==
  ASSUME TypeInv, TaskInv, PushInv, [Next]_vars
  PROVE  PushInv'
<1> USE DEF TypeInv
<1>1. ASSUME NEW s \in Sessions, NEW u \in Users, Login(s, u) PROVE PushInv'
  <2>1. [kind |-> "refused"] \in Lines /\ [kind |-> "refused"].kind # "push"
    BY DEF Lines
  <2>2. UNCHANGED pc
    BY <1>1 DEF Login, pushVars
  <2>3. CASE UNCHANGED lineVars
    BY <2>2, <2>3, PushSame
  <2>4. CASE Send(s, [kind |-> "refused"])
    BY <2>1, <2>2, <2>4, PushAnswer
  <2> QED
    BY <1>1, <2>3, <2>4 DEF Login
<1>2. ASSUME NEW s \in Sessions, Answer(s) PROVE PushInv'
  <2>1. UNCHANGED pc
    BY <1>2 DEF Answer, AnswerLogin, ReadList, AnswerList, pushVars
  <2>2. CASE ReadList(s)
    BY <2>1, <2>2, PushSame DEF ReadList
  <2>3. CASE AnswerLogin(s) \/ AnswerList(s)
    <3>1. user[s] \in Users /\ read[s] \in Versions
      BY <2>3 DEF AnswerLogin, AnswerList, Known, TypeOK
    <3>2. PICK line \in Lines : line.kind # "push" /\ Send(s, line)
      BY <2>3, <3>1 DEF AnswerLogin, AnswerList, Lines, Welcome, List
    <3> QED
      BY <2>1, <3>2, PushAnswer
  <2> QED
    BY <1>2, <2>2, <2>3 DEF Answer
<1>3. ASSUME NEW s \in Sessions, EndReading(s) \/ Destroy(s) PROVE PushInv'
  BY <1>3, PushSame DEF EndReading, Destroy, pushVars
<1>4. ASSUME NEW s \in Sessions, Deliver(s) PROVE PushInv'
  BY <1>4, PushDelivered
<1>5. ASSUME NEW c \in Changes, (\E u \in Users : Change(c, u)) \/ Spawn(c) \/ Load(c)
      PROVE  PushInv'
  <2>1. UNCHANGED lineVars /\ \A d \in Changes : pc[d] = "pushed" => pc'[d] = "pushed"
    BY <1>5 DEF Change, Spawn, Load, TypeOK
  <2> QED
    BY <2>1, PushSame
<1>6. CASE RunStrand
  <2>1. TaskOK(Head(strand))
    BY <1>6, RunCases
  <2>2. ASSUME NEW s \in Sessions, Index(s) \/ Remove(s) PROVE PushInv'
    BY <2>2, PushSame DEF Index, Remove, pushVars
  <2>3. ASSUME NEW c \in Changes, Head(strand) = StartTask(c), Start(c) PROVE PushInv'
    <3>1. pc[c] = "spawned"
      BY <2>1, <2>3 DEF TaskOK, StartTask
    <3>2. UNCHANGED lineVars /\ \A d \in Changes : pc[d] = "pushed" => pc'[d] = "pushed"
      BY <2>3, <3>1 DEF Start, TypeOK
    <3> QED
      BY <3>2, PushSame
  <2>4. ASSUME NEW c \in Changes, Head(strand) = WalkTask(c), Walk(c) PROVE PushInv'
    <3>1. pc[c] = "loaded" /\ of[c] \in Users
      BY <2>1, <2>4 DEF TaskOK, WalkTask, Begun
    <3> QED
      BY <2>4, <3>1, PushWalked
  <2> QED
    BY <1>6, <2>2, <2>3, <2>4, RunCases
<1>7. CASE UNCHANGED vars
  BY <1>7, PushSame DEF vars, pushVars
<1> QED
  BY <1>1, <1>2, <1>3, <1>4, <1>5, <1>6, <1>7 DEF Next
-----------------------------------------------------------------------------
(* The index *)

LEMMA StillQueued ==
  ASSUME TypeOK, NEW s \in Sessions, Queued("index", s),
         \/ UNCHANGED strand
         \/ \E t \in Tasks : strand' = Append(strand, t)
         \/ strand # <<>> /\ strand' = Tail(strand) /\ Head(strand) # IndexTask(s)
  PROVE  Queued("index", s)'
<1> USE DEF Queued, IndexTask
<1>1. strand \in Seq(Tasks)
  BY DEF TypeOK
<1>2. PICK i \in DOMAIN strand : strand[i] = IndexTask(s)
  OBVIOUS
<1>3. CASE UNCHANGED strand
  BY <1>2, <1>3
<1>4. ASSUME NEW t \in Tasks, strand' = Append(strand, t) PROVE Queued("index", s)'
  <2>1. i \in DOMAIN strand' /\ strand'[i] = strand[i]
    BY <1>1, <1>4, Appended
  <2> QED
    BY <1>2, <2>1
<1>5. CASE strand # <<>> /\ strand' = Tail(strand) /\ Head(strand) # IndexTask(s)
  <2>1. /\ Head(strand) = strand[1]
        /\ i = 1 \/ (i - 1 \in DOMAIN Tail(strand) /\ Tail(strand)[i - 1] = strand[i])
    BY <1>1, <1>5, Taken
  <2>2. i - 1 \in DOMAIN strand' /\ strand'[i - 1] = IndexTask(s)
    BY <1>2, <1>5, <2>1
  <2> QED
    BY <2>2
<1> QED
  BY <1>3, <1>4, <1>5

\* One session: what it relies on is left alone.
LEMMA StillIndexed ==
  ASSUME TypeOK, Indexed, NEW s \in Sessions,
         user'[s] = user[s], Ended(s) => Ended(s)',
         user[s] # NoUser /\ ~Ended(s) => index'[user[s]][s] = index[user[s]][s],
         Queued("index", s) => Queued("index", s)'
  PROVE  user'[s] # NoUser /\ ~Ended(s)' => index'[user'[s]][s] = 1 \/ Queued("index", s)'
BY DEF Indexed

LEMMA IndexStep ==
  ASSUME TypeInv, TaskInv, LifeInv, Indexed, [Next]_vars
  PROVE  Indexed'
<1> USE DEF TypeInv
<1> DEFINE Held(t) == user'[t] # NoUser /\ ~Ended(t)'
                         => index'[user'[t]][t] = 1 \/ Queued("index", t)'
<1>1. SessionsKept
  BY KeptByStep
<1>2. SUFFICES ASSUME NEW t \in Sessions PROVE Held(t)
  BY DEF Indexed
<1>3. ASSUME user'[t] = user[t], UNCHANGED index,
             \/ UNCHANGED strand
             \/ \E x \in Tasks : strand' = Append(strand, x)
             \/ strand # <<>> /\ strand' = Tail(strand) /\ Head(strand) # IndexTask(t)
      PROVE  Held(t)
  BY <1>1, <1>3, StillQueued, StillIndexed DEF SessionsKept
<1>4. ASSUME NEW s \in Sessions, NEW u \in Users, Login(s, u) PROVE Held(t)
  <2>1. UNCHANGED index
    BY <1>4 DEF Login
  <2>2. IndexTask(s) \in Tasks
    BY TasksAre
  <2>3. CASE UNCHANGED <<user, strand>>
    BY <1>3, <2>1, <2>3
  <2>4. CASE strand' = Append(strand, IndexTask(s)) /\ user' = [user EXCEPT ![s] = u]
    <3>1. CASE t = s
      <4>1. strand \in Seq(Tasks)
        BY DEF TypeOK
      <4>2. Len(strand) + 1 \in DOMAIN strand' /\ strand'[Len(strand) + 1] = IndexTask(s)
        BY <2>2, <2>4, <4>1, Appended
      <4> QED
        BY <3>1, <4>2 DEF Queued, IndexTask
    <3>2. CASE t # s
      <4>1. user'[t] = user[t]
        BY <2>4, <3>2 DEF TypeOK
      <4> QED
        BY <1>3, <2>1, <2>2, <2>4, <4>1
    <3> QED
      BY <3>1, <3>2
  <2> QED
    BY <1>4, <2>3, <2>4 DEF Login, IndexTask
<1>5. ASSUME NEW s \in Sessions, Answer(s) \/ EndReading(s) \/ Deliver(s) \/ Destroy(s)
      PROVE  Held(t)
  <2>1. RemoveTask(s) \in Tasks
    BY TasksAre
  <2>2. user' = user /\ index' = index /\ (strand' = strand \/ strand' = Append(strand, RemoveTask(s)))
    BY <1>5 DEF Answer, AnswerLogin, ReadList, AnswerList, EndReading, Deliver, Destroy,
                sessionVars, RemoveTask
  <2> QED
    BY <1>3, <2>1, <2>2
<1>6. ASSUME NEW c \in Changes, (\E u \in Users : Change(c, u)) \/ Spawn(c) \/ Load(c)
      PROVE  Held(t)
  <2>1. StartTask(c) \in Tasks /\ WalkTask(c) \in Tasks
    BY TasksAre
  <2>2. /\ user' = user /\ index' = index
        /\ \/ strand' = strand
           \/ strand' = Append(strand, StartTask(c))
           \/ strand' = Append(strand, WalkTask(c))
    BY <1>6 DEF Change, Spawn, Load, sessionVars, StartTask, WalkTask
  <2> QED
    BY <1>3, <2>1, <2>2
<1>7. CASE RunStrand
  <2>1. strand # <<>> /\ strand' = Tail(strand) /\ TaskOK(Head(strand))
    BY <1>7, RunCases
  <2>2. user' = user /\ loop' = loop
    BY <1>7, RunCases DEF Index, Remove, Start, Walk, sessionVars
  <2>3. user[t] # NoUser /\ ~Ended(t) => user[t] \in Users /\ t \in Alive
    BY DEF TypeOK, LifeInv, Alive
  <2>4. ASSUME Head(strand) # IndexTask(t),
               user[t] # NoUser /\ ~Ended(t) => index'[user[t]][t] = index[user[t]][t]
        PROVE  Held(t)
    BY <1>1, <2>1, <2>2, <2>4, StillQueued, StillIndexed DEF SessionsKept
  <2>5. ASSUME NEW s \in Sessions, Head(strand) = IndexTask(s), Index(s) PROVE Held(t)
    <3>1. user[s] \in Users
      BY <2>1, <2>5 DEF TaskOK, IndexTask
    <3>2. CASE t = s
      <4>1. index'[user[s]][s] = 1
        BY <2>5, <3>1 DEF Index, Erase, TypeOK
      <4> QED
        BY <2>2, <3>2, <4>1
    <3>3. CASE t # s
      <4>1. Head(strand) # IndexTask(t)
        BY <2>5, <3>3 DEF IndexTask
      <4>2. user[t] # NoUser /\ ~Ended(t) => index'[user[t]][t] = index[user[t]][t]
        BY <2>3, <2>5, <3>1, <3>3 DEF Index, Erase, TypeOK
      <4> QED
        BY <2>4, <4>1, <4>2
    <3> QED
      BY <3>2, <3>3
  <2>6. ASSUME NEW s \in Sessions, Head(strand) = RemoveTask(s), Remove(s) PROVE Held(t)
    <3>1. Ended(s)
      BY <2>1, <2>6 DEF TaskOK, RemoveTask
    <3>2. Head(strand) # IndexTask(t)
      BY <2>6 DEF IndexTask, RemoveTask
    <3>3. user[t] # NoUser /\ ~Ended(t) => index'[user[t]][t] = index[user[t]][t]
      BY <2>3, <2>6, <3>1 DEF Remove, Erase, TypeOK
    <3> QED
      BY <2>4, <3>2, <3>3
  <2>7. ASSUME NEW c \in Changes, Head(strand) = StartTask(c), Start(c) PROVE Held(t)
    <3>1. Head(strand) # IndexTask(t)
      BY <2>7 DEF IndexTask, StartTask
    <3> QED
      BY <2>4, <2>7, <3>1 DEF Start
  <2>8. ASSUME NEW c \in Changes, Head(strand) = WalkTask(c), Walk(c) PROVE Held(t)
    <3>1. Head(strand) # IndexTask(t)
      BY <2>8 DEF IndexTask, WalkTask
    <3>2. of[c] \in Users
      BY <2>1, <2>8 DEF TaskOK, WalkTask, Begun
    <3>3. user[t] # NoUser /\ ~Ended(t) => index'[user[t]][t] = index[user[t]][t]
      BY <2>3, <2>8, <3>2 DEF Walk, TypeOK
    <3> QED
      BY <2>4, <3>1, <3>3
  <2> HIDE DEF Held
  <2> QED
    BY <1>7, <2>5, <2>6, <2>7, <2>8, RunCases
<1>8. CASE UNCHANGED vars
  BY <1>3, <1>8 DEF vars, sessionVars
<1> HIDE DEF Held
<1> QED
  BY <1>4, <1>5, <1>6, <1>7, <1>8 DEF Next

-----------------------------------------------------------------------------
(* The theorems *)

LEMMA InitInv == Init => IInv
<1> SUFFICES ASSUME Init PROVE IInv
  OBVIOUS
<1>1. TypeInv
  BY TypeInit
<1>2. /\ strand = <<>>
      /\ \A s \in Sessions : /\ inbox[s] = <<>> /\ sent[s] = <<>>
                             /\ user[s] = NoUser /\ life[s] = "listed"
  BY DEF Init
<1>3. TaskInv /\ QueuedOnce
  BY <1>2 DEF TaskInv, QueuedOnce
<1>4. LifeInv /\ Indexed
  BY <1>2 DEF LifeInv, Indexed
<1>5. PushInv
  BY <1>2 DEF PushInv, QueueInv, SentInv, PushedOnce
<1> QED
  BY <1>1, <1>3, <1>4, <1>5 DEF IInv

LEMMA StepInv == IInv /\ [Next]_vars => IInv'
BY TypeStep, TaskStep, PushStep, IndexStep DEF IInv, TypeInv

LEMMA Inductive == Spec => []IInv
BY InitInv, StepInv, PTL DEF Spec

\* The types, in which no session is in the index twice under a user.
THEOREM TypeCorrect == Spec => []TypeOK
<1>1. IInv => TypeOK
  BY DEF IInv, TypeInv
<1> QED
  BY Inductive, <1>1, PTL

\* A session that is logged in is in sessions_by_user_ or about to be, whatever
\* other sessions of its user do (index_authenticated_session, remove_session).
THEOREM AlwaysIndexed == Spec => []Indexed
<1>1. IInv => Indexed
  BY DEF IInv
<1> QED
  BY Inductive, <1>1, PTL

\* A push coroutine gives a session its list once (for_user_sessions).
THEOREM NeverPushedTwice == Spec => []PushedOnce
<1>1. IInv => PushedOnce
  BY DEF IInv, PushInv
<1> QED
  BY Inductive, <1>1, PTL
=============================================================================
