------------------------ MODULE LoginRegisterProofs ------------------------
(***************************************************************************)
(* Signing in and registering, for any clients, accounts and number of     *)
(* tries: an answer is for what is awaited, and an account has one owner.  *)
(*                                                                         *)
(* One request at most is under way on a connection, because the form is   *)
(* disabled while one is and a connection starts with a session of its     *)
(* own; a handler past its check has found or made the row it relies on.   *)
(***************************************************************************)
EXTENDS LoginRegister, TLAPS

\* What is under way at the session of c's connection is what c awaits.
Quiet(s) == requests[s] = <<>> /\ job[s] = Idle /\ answers[s] = <<>>
Asks(s, c) ==
    /\ \E q \in Requests : requests[s] = <<q>> /\ q.kind = pending[c] /\ q.account = account[c]
    /\ job[s] = Idle /\ answers[s] = <<>>
Works(s, c) ==
    /\ requests[s] = <<>> /\ answers[s] = <<>> /\ job[s] # Idle
    /\ KindOf(job[s]) = pending[c] /\ job[s].account = account[c]
Answered(s, c) ==
    /\ requests[s] = <<>> /\ job[s] = Idle
    /\ \E a \in Answers : answers[s] = <<a>> /\ a.kind = pending[c] /\ a.account = account[c]
UnderWay(s, c) ==
    \/ Quiet(s)
    \/ busy[c] /\ (Asks(s, c) \/ Works(s, c) \/ Answered(s, c))

ClientInv ==
    \A c \in Clients :
       /\ link[c] = "down" => ~busy[c]
       /\ link[c] = "connecting" => busy[c] /\ pending[c] # "None" /\ account[c] # NoAccount
       /\ user[c] # NoAccount => ~busy[c]

SessionInv ==
    \A s \in Sessions :
       /\ s[2] > conn[Owner(s)] => Quiet(s)
       /\ ~Live(s) => answers[s] = <<>>
       /\ Live(s) => UnderWay(s, Owner(s))

OneRow == \A row, other \in users : row[1] = other[1] => row = other

JobOwns ==
    \A s \in Sessions :
       /\ job[s].step \in {"member", "touch", "world"} => <<job[s].account, Owner(s)>> \in users
       /\ job[s].step = "world" => auth[s] = job[s].account

AnswerOwns ==
    \A s \in Sessions : \A i \in DOMAIN answers[s] : answers[s][i].ok =>
       /\ <<answers[s][i].account, Owner(s)>> \in users
       /\ answers[s][i].kind = "Register" => answers[s][i].account \in world
       /\ answers[s][i].kind = "Login" => auth[s] = answers[s][i].account

UserOwns ==
    \A c \in Clients : user[c] # NoAccount =>
       /\ <<user[c], c>> \in users
       /\ link[c] = "up" => auth[Current(c)] = user[c]

IInv == TypeOK /\ ClientInv /\ SessionInv /\ OneRow /\ JobOwns /\ AnswerOwns /\ UserOwns

USE LoginConstants
-----------------------------------------------------------------------------
(* Sessions, requests, jobs, answers *)

LEMMA SessionsAre ==
  /\ \A s \in Sessions : /\ Owner(s) \in Clients /\ s[2] \in 1..MaxTries[Owner(s)]
                         /\ s = <<Owner(s), s[2]>>
  /\ \A c \in Clients : \A i \in 1..MaxTries[c] :
       <<c, i>> \in Sessions /\ Owner(<<c, i>>) = c /\ <<c, i>>[2] = i
BY DEF Sessions, Owner

\* The session of a connection is one of its client's, and no other's.
LEMMA CurrentIs ==
  ASSUME TypeOK, NEW c \in Clients, link[c] = "up"
  PROVE  /\ Current(c) \in Sessions /\ Owner(Current(c)) = c /\ Current(c)[2] = conn[c]
         /\ Live(Current(c))
         /\ \A s \in Sessions : Owner(s) = c /\ Live(s) => s = Current(c)
<1>1. conn[c] \in 1..MaxTries[c]
  BY DEF TypeOK
<1> QED
  BY <1>1, SessionsAre DEF Current, Live

Steps == {"exists", "insert", "member", "find", "touch", "world"}

LEMMA JobsAre ==
  ASSUME NEW j \in Jobs
  PROVE  /\ j.step \in Steps \cup {"idle"}
         /\ j # Idle <=> j.step \in Steps
         /\ j # Idle => j.account \in Accounts
         /\ KindOf(j) \in Kinds
         /\ \A step \in Steps : j # Idle => /\ [j EXCEPT !.step = step] \in Jobs
                                            /\ [j EXCEPT !.step = step] # Idle
                                            /\ [j EXCEPT !.step = step].step = step
                                            /\ [j EXCEPT !.step = step].account = j.account
<1>1. CASE j = Idle
  BY <1>1 DEF Idle, Steps, KindOf, Kinds
<1>2. CASE j \in [step : Steps, account : Accounts]
  BY <1>2 DEF Idle, Steps, KindOf, Kinds, Jobs
<1> QED
  BY <1>1, <1>2 DEF Jobs, Steps

LEMMA Queues ==
  ASSUME NEW S, NEW q \in Seq(S), NEW x \in S
  PROVE  /\ Append(q, x) \in Seq(S)
         /\ q = <<>> => Append(q, x) = <<x>>
         /\ q # <<>> => Head(q) \in S /\ Tail(q) \in Seq(S)
         /\ q = <<x>> => q # <<>> /\ Head(q) = x /\ Tail(q) = <<>>
<1>1. /\ Append(q, x) \in Seq(S)
      /\ Append(<<>>, x) = <<x>>
  OBVIOUS
<1>2. q # <<>> => Head(q) \in S /\ Tail(q) \in Seq(S)
  OBVIOUS
<1>3. q = <<x>> => q # <<>> /\ Head(q) = x /\ Tail(q) = <<>>
  OBVIOUS
<1> QED
  BY <1>1, <1>2, <1>3

-----------------------------------------------------------------------------
(* What a step of a session does *)

Answer(s, ok) == [kind |-> KindOf(job[s]), account |-> job[s].account, ok |-> ok]

LEMMA ReplyIs ==
  ASSUME TypeOK, NEW s \in Sessions, job[s] # Idle, NEW ok \in BOOLEAN, Reply(s, ok)
  PROVE  /\ job' \in [Sessions -> Jobs] /\ job'[s] = Idle
         /\ \A t \in Sessions : t # s => job'[t] = job[t] /\ answers'[t] = answers[t]
         /\ Answer(s, ok) \in Answers
         /\ answers' \in [Sessions -> Seq(Answers)]
         /\ answers'[s] = IF Live(s) THEN Append(answers[s], Answer(s, ok)) ELSE answers[s]
<1>1. job \in [Sessions -> Jobs] /\ answers \in [Sessions -> Seq(Answers)] /\ Idle \in Jobs
  BY DEF TypeOK, Jobs
<1>2. Answer(s, ok) \in Answers
  <2>1. job[s].account \in Accounts /\ KindOf(job[s]) \in Kinds
    BY <1>1, JobsAre
  <2> QED
    BY <2>1 DEF Answer, Answers
<1>3. Append(answers[s], Answer(s, ok)) \in Seq(Answers)
  BY <1>1, <1>2, Queues
<1>4. /\ job' = [job EXCEPT ![s] = Idle]
      /\ answers' = IF Live(s) THEN [answers EXCEPT ![s] = Append(answers[s], Answer(s, ok))]
                    ELSE answers
  BY DEF Reply, Answer
<1> QED
  BY <1>1, <1>2, <1>3, <1>4

LEMMA GotoIs ==
  ASSUME TypeOK, NEW s \in Sessions, job[s] # Idle, NEW step \in Steps, Goto(s, step)
  PROVE  /\ job' \in [Sessions -> Jobs] /\ answers' = answers
         /\ \A t \in Sessions : t # s => job'[t] = job[t]
         /\ job'[s] # Idle /\ job'[s].step = step /\ job'[s].account = job[s].account
<1>1. job \in [Sessions -> Jobs] /\ job[s] \in Jobs
  BY DEF TypeOK
<1>2. job' = [job EXCEPT ![s] = [job[s] EXCEPT !.step = step]] /\ answers' = answers
  BY DEF Goto
<1>3. /\ [job[s] EXCEPT !.step = step] \in Jobs /\ [job[s] EXCEPT !.step = step] # Idle
      /\ [job[s] EXCEPT !.step = step].step = step
      /\ [job[s] EXCEPT !.step = step].account = job[s].account
  BY <1>1, JobsAre
<1> QED
  BY <1>1, <1>2, <1>3

LEMMA TakeIs ==
  ASSUME TypeOK, NEW s \in Sessions, Take(s)
  PROVE  /\ job[s] = Idle /\ requests[s] # <<>> /\ Head(requests[s]) \in Requests
         /\ UNCHANGED <<auth, answers, tables>>
         /\ requests' \in [Sessions -> Seq(Requests)] /\ requests'[s] = Tail(requests[s])
         /\ job' \in [Sessions -> Jobs] /\ job'[s] # Idle
         /\ job'[s].step \in {"find", "exists"}
         /\ KindOf(job'[s]) = Head(requests[s]).kind
         /\ job'[s].account = Head(requests[s]).account
         /\ \A t \in Sessions : t # s => job'[t] = job[t] /\ requests'[t] = requests[t]
<1> DEFINE q == Head(requests[s])
           j == [step |-> IF q.kind = "Login" THEN "find" ELSE "exists", account |-> q.account]
<1>1. /\ job \in [Sessions -> Jobs] /\ requests \in [Sessions -> Seq(Requests)]
      /\ requests[s] \in Seq(Requests) /\ requests[s] # <<>> /\ job[s] = Idle
      /\ requests' = [requests EXCEPT ![s] = Tail(requests[s])]
      /\ job' = [job EXCEPT ![s] = j] /\ UNCHANGED <<auth, answers, tables>>
  BY DEF TypeOK, Take
<1>2. q \in Requests /\ Tail(requests[s]) \in Seq(Requests)
  BY <1>1
<1>3. q.kind \in Kinds /\ q.account \in Accounts
  BY <1>2 DEF Requests
<1>4. j \in Jobs /\ j # Idle /\ KindOf(j) = q.kind /\ j.account = q.account
      /\ j.step \in {"find", "exists"}
  BY <1>3 DEF Jobs, Idle, KindOf, Kinds
<1> HIDE DEF j
<1> QED
  BY <1>1, <1>2, <1>4

\* A query of a handler: it goes on with the request, or answers it.
LEMMA QueryIs ==
  ASSUME TypeOK, NEW s \in Sessions,
         Exists(s) \/ Insert(s) \/ Member(s) \/ Find(s) \/ Touch(s) \/ World(s) \/ Fail(s)
  PROVE  /\ job[s] # Idle /\ requests' = requests
         /\ \/ Goto(s, "insert") /\ At(s, "exists")
            \/ Goto(s, "member") /\ At(s, "insert") /\ Insert(s)
            \/ Goto(s, "touch") /\ At(s, "find") /\ <<job[s].account, Owner(s)>> \in users
            \/ Goto(s, "world") /\ At(s, "touch") /\ Touch(s)
            \/ Reply(s, FALSE)
            \/ Reply(s, TRUE) /\ At(s, "member") /\ Member(s)
            \/ Reply(s, TRUE) /\ At(s, "world") /\ World(s)
<1>1. job[s] \in Jobs
  BY DEF TypeOK
<1>2. job[s] # Idle
  BY <1>1, JobsAre DEF Exists, Insert, Member, Find, Touch, World, Fail, At, Steps
<1>3. CASE Exists(s) \/ Find(s) \/ Fail(s)
  BY <1>2, <1>3 DEF Exists, Find, Fail, At, tables
<1>4. CASE Insert(s) \/ Member(s) \/ Touch(s) \/ World(s)
  BY <1>2, <1>4 DEF Insert, Member, Touch, World, At, tables
<1> QED
  BY <1>3, <1>4

LEMMA SendIs ==
  ASSUME TypeOK, NEW s \in Sessions, NEW kind \in Kinds, NEW a \in Accounts,
         SendCurrent(s, kind, a)
  PROVE  /\ requests' \in [Sessions -> Seq(Requests)]
         /\ [kind |-> kind, account |-> a] \in Requests
         /\ requests'[s] = Append(requests[s], [kind |-> kind, account |-> a])
         /\ \A t \in Sessions : t # s => requests'[t] = requests[t]
<1> DEFINE q == [kind |-> kind, account |-> a]
<1>1. q \in Requests /\ requests \in [Sessions -> Seq(Requests)]
  BY DEF TypeOK, Requests
<1>2. Append(requests[s], q) \in Seq(Requests)
  BY <1>1, Queues
<1>3. requests' = [requests EXCEPT ![s] = Append(requests[s], q)]
  BY DEF SendCurrent
<1> QED
  BY <1>1, <1>2, <1>3

LEMMA ReceiveIs ==
  ASSUME TypeOK, NEW c \in Clients, Receive(c)
  PROVE  /\ link[c] = "up" /\ Current(c) \in Sessions /\ answers[Current(c)] # <<>>
         /\ Head(answers[Current(c)]) \in Answers
         /\ answers' \in [Sessions -> Seq(Answers)]
         /\ answers'[Current(c)] = Tail(answers[Current(c)])
         /\ \A s \in Sessions : s # Current(c) => answers'[s] = answers[s]
         /\ UNCHANGED <<link, conn, account, tries, requests, job, auth, tables>>
         /\ glued' \in [Clients -> BOOLEAN] /\ swallowed' \in [Clients -> BOOLEAN]
         /\ \/ UNCHANGED <<busy, pending, user>>
            \/ busy' = [busy EXCEPT ![c] = FALSE] /\ UNCHANGED <<pending, user>>
            \/ /\ busy' = [busy EXCEPT ![c] = FALSE] /\ pending' = [pending EXCEPT ![c] = "None"]
               /\ Head(answers[Current(c)]).ok
               /\ user' = IF Head(answers[Current(c)]).kind = "Login"
                          THEN [user EXCEPT ![c] = Head(answers[Current(c)]).account] ELSE user
<1>1. link[c] = "up" /\ Current(c) \in Sessions
  BY CurrentIs DEF Receive
<1>2. /\ answers \in [Sessions -> Seq(Answers)] /\ answers[Current(c)] # <<>>
      /\ answers' = [answers EXCEPT ![Current(c)] = Tail(answers[Current(c)])]
      /\ glued \in [Clients -> BOOLEAN] /\ swallowed \in [Clients -> BOOLEAN]
      /\ glued' = [glued EXCEPT ![c] = FALSE]
  BY <1>1 DEF TypeOK, Receive
<1>3. answers[Current(c)] \in Seq(Answers)
  BY <1>1, <1>2
<1>4. Head(answers[Current(c)]) \in Answers /\ Tail(answers[Current(c)]) \in Seq(Answers)
  BY <1>2, <1>3
<1>5. swallowed' \in [Clients -> BOOLEAN]
  BY <1>2 DEF Receive
<1>6. UNCHANGED <<link, conn, account, tries, requests, job, auth, tables>>
  BY DEF Receive
<1>7. \/ UNCHANGED <<busy, pending, user>>
      \/ OnRefusal(c)
      \/ OnSuccess(c, Head(answers[Current(c)])) /\ Head(answers[Current(c)]).ok
  BY DEF Receive
<1> QED
  BY <1>1, <1>2, <1>4, <1>5, <1>6, <1>7 DEF OnRefusal, OnSuccess

LEMMA Cases ==
  ASSUME [Next]_vars
  PROVE  \/ \E c \in Clients : \/ \E kind \in Kinds, a \in Accounts : Submit(c, kind, a)
                               \/ Connected(c) \/ ConnectFails(c) \/ Drop(c) \/ Receive(c)
         \/ \E s \in Sessions :
              /\ UNCHANGED clientVars
              /\ \/ Take(s)
                 \/ Exists(s) \/ Insert(s) \/ Member(s) \/ Find(s) \/ Touch(s) \/ World(s) \/ Fail(s)
         \/ UNCHANGED vars
BY DEF Next, Serve

-----------------------------------------------------------------------------
(* The invariant *)

LEMMA TypeStep ==
  ASSUME TypeOK, ClientInv, JobOwns, [Next]_vars
  PROVE  TypeOK'
<1> USE DEF clientVars, sessionVars, tables
<1>1. /\ link \in [Clients -> {"down", "connecting", "up"}] /\ conn \in [Clients -> Nat]
      /\ busy \in [Clients -> BOOLEAN] /\ pending \in [Clients -> Kinds \cup {"None"}]
      /\ account \in [Clients -> Accounts \cup {NoAccount}]
      /\ user \in [Clients -> Accounts \cup {NoAccount}]
      /\ glued \in [Clients -> BOOLEAN] /\ swallowed \in [Clients -> BOOLEAN]
      /\ tries \in [Clients -> Nat]
  BY DEF TypeOK
<1>2. /\ requests \in [Sessions -> Seq(Requests)] /\ job \in [Sessions -> Jobs]
      /\ auth \in [Sessions -> Accounts \cup {NoAccount}] /\ answers \in [Sessions -> Seq(Answers)]
      /\ users \subseteq Accounts \X Clients /\ world \subseteq {row[1] : row \in users}
  BY DEF TypeOK
<1> DEFINE Made == \A c \in Clients : /\ link[c] = "connecting" => conn[c] < tries[c]
                                      /\ link[c] = "up" => conn[c] > 0
                                      /\ conn[c] <= tries[c] /\ tries[c] <= MaxTries[c]
           ClientOK == /\ link \in [Clients -> {"down", "connecting", "up"}]
                       /\ conn \in [Clients -> Nat]
                       /\ busy \in [Clients -> BOOLEAN] /\ pending \in [Clients -> Kinds \cup {"None"}]
                       /\ account \in [Clients -> Accounts \cup {NoAccount}]
                       /\ user \in [Clients -> Accounts \cup {NoAccount}]
                       /\ glued \in [Clients -> BOOLEAN] /\ swallowed \in [Clients -> BOOLEAN]
                       /\ tries \in [Clients -> Nat] /\ Made
           SessionOK == /\ requests \in [Sessions -> Seq(Requests)] /\ job \in [Sessions -> Jobs]
                        /\ auth \in [Sessions -> Accounts \cup {NoAccount}]
                        /\ answers \in [Sessions -> Seq(Answers)]
           TableOK == users \subseteq Accounts \X Clients /\ world \subseteq {row[1] : row \in users}
<1>3. Made /\ ClientOK /\ SessionOK /\ TableOK
  BY <1>1, <1>2 DEF TypeOK
<1>4. ASSUME ClientOK', SessionOK', TableOK' PROVE TypeOK'
  BY <1>4 DEF TypeOK
<1>5. ASSUME NEW c \in Clients, NEW kind \in Kinds, NEW a \in Accounts, Submit(c, kind, a)
      PROVE  TypeOK'
  <2>1. /\ tries[c] < MaxTries[c] /\ tries' = [tries EXCEPT ![c] = tries[c] + 1]
        /\ pending' = [pending EXCEPT ![c] = kind] /\ account' = [account EXCEPT ![c] = a]
        /\ busy' = [busy EXCEPT ![c] = TRUE]
        /\ UNCHANGED <<conn, user, glued, swallowed, job, auth, answers, tables>>
        /\ \/ link[c] = "up" /\ SendCurrent(Current(c), kind, a) /\ link' = link
           \/ link[c] # "up" /\ link' = [link EXCEPT ![c] = "connecting"] /\ requests' = requests
    BY <1>5 DEF Submit
  <2>2. Made'
    BY <1>1, <1>3, <2>1
  <2>3. ClientOK'
    BY <1>1, <2>1, <2>2
  <2>4. requests' \in [Sessions -> Seq(Requests)]
    BY <1>2, <2>1, SendIs, CurrentIs
  <2> QED
    BY <1>3, <1>4, <2>1, <2>3, <2>4
<1>6. ASSUME NEW c \in Clients, Connected(c) PROVE TypeOK'
  <2>1. /\ link[c] = "connecting" /\ link' = [link EXCEPT ![c] = "up"]
        /\ conn' = [conn EXCEPT ![c] = conn[c] + 1]
        /\ UNCHANGED <<busy, pending, account, user, glued, swallowed, tries, job, auth, answers,
                       tables>>
        /\ requests' = requests \/ SendCurrent(<<c, conn[c] + 1>>, pending[c], account[c])
    BY <1>6 DEF Connected
  <2>2. Made'
    BY <1>1, <1>3, <2>1
  <2>3. <<c, conn[c] + 1>> \in Sessions
    <3>1. conn[c] + 1 \in 1..MaxTries[c]
      BY <1>1, <1>3, <2>1
    <3> QED
      BY <3>1, SessionsAre
  <2>4. requests' \in [Sessions -> Seq(Requests)]
    <3>1. pending[c] \in Kinds /\ account[c] \in Accounts
      BY <1>1, <2>1 DEF ClientInv
    <3> QED
      BY <1>1, <1>2, <2>1, <2>3, <3>1, SendIs
  <2> QED
    BY <1>1, <1>3, <1>4, <2>1, <2>2, <2>4
<1>7. ASSUME NEW c \in Clients, ConnectFails(c) PROVE TypeOK'
  <2>1. Made' /\ ClientOK' /\ SessionOK' /\ TableOK'
    BY <1>1, <1>3, <1>7 DEF ConnectFails
  <2> QED
    BY <1>4, <2>1
<1>8. ASSUME NEW c \in Clients, Drop(c) PROVE TypeOK'
  <2>1. /\ link[c] = "up" /\ link' = [link EXCEPT ![c] = "down"]
        /\ busy' = [busy EXCEPT ![c] = FALSE] /\ swallowed' = [swallowed EXCEPT ![c] = FALSE]
        /\ answers' = [answers EXCEPT ![Current(c)] = <<>>]
        /\ UNCHANGED <<conn, pending, account, user, tries, job, auth, tables>>
    BY <1>8 DEF Drop
  <2>2. glued' \in [Clients -> BOOLEAN]
    BY <1>1, <1>8 DEF Drop
  <2>3. Current(c) \in Sessions /\ requests[Current(c)] \in Seq(Requests)
    BY <1>2, <2>1, CurrentIs
  <2>4. requests' \in [Sessions -> Seq(Requests)]
    <3>1. PICK left \in {requests[Current(c)], <<>>} :
             requests' = [requests EXCEPT ![Current(c)] = left]
      BY <1>8 DEF Drop
    <3>2. left \in Seq(Requests)
      <4>1. <<>> \in Seq(Requests)
        OBVIOUS
      <4> QED
        BY <2>3, <3>1, <4>1
    <3> QED
      BY <1>2, <2>3, <3>1, <3>2
  <2>5. Made' /\ ClientOK'
    BY <1>1, <1>3, <2>1, <2>2
  <2>6. answers' \in [Sessions -> Seq(Answers)]
    <3>1. <<>> \in Seq(Answers)
      OBVIOUS
    <3> QED
      BY <1>2, <2>1, <2>3, <3>1
  <2> QED
    BY <1>3, <1>4, <2>1, <2>4, <2>5, <2>6
<1>9. ASSUME NEW c \in Clients, Receive(c) PROVE TypeOK'
  <2>1. SessionOK' /\ TableOK' /\ UNCHANGED <<link, conn, account, tries>>
        /\ glued' \in [Clients -> BOOLEAN] /\ swallowed' \in [Clients -> BOOLEAN]
    BY <1>3, <1>9, ReceiveIs
  <2>2. Head(answers[Current(c)]).account \in Accounts
    BY <1>9, ReceiveIs DEF Answers
  <2>3. /\ busy' = busy \/ busy' = [busy EXCEPT ![c] = FALSE]
        /\ pending' = pending \/ pending' = [pending EXCEPT ![c] = "None"]
        /\ user' = user \/ user' = [user EXCEPT ![c] = Head(answers[Current(c)]).account]
    BY <1>9, ReceiveIs
  <2>4. busy' \in [Clients -> BOOLEAN]
    BY <1>1, <2>3
  <2>5. pending' \in [Clients -> Kinds \cup {"None"}]
    BY <1>1, <2>3
  <2>6. user' \in [Clients -> Accounts \cup {NoAccount}]
    BY <1>1, <2>2, <2>3
  <2> QED
    BY <1>3, <1>4, <2>1, <2>4, <2>5, <2>6
<1>10. ASSUME NEW s \in Sessions, UNCHANGED clientVars, Take(s) PROVE TypeOK'
  <2>1. SessionOK' /\ TableOK'
    BY <1>3, <1>10, TakeIs
  <2> QED
    BY <1>3, <1>4, <1>10, <2>1
<1>11. ASSUME NEW s \in Sessions, UNCHANGED clientVars,
              Exists(s) \/ Insert(s) \/ Member(s) \/ Find(s) \/ Touch(s) \/ World(s) \/ Fail(s)
       PROVE  TypeOK'
  <2>1. job[s] # Idle /\ requests' = requests
    BY <1>11, QueryIs
  <2>2. job[s] \in Jobs /\ job[s].account \in Accounts
    BY <1>2, <2>1, JobsAre
  <2>3. job' \in [Sessions -> Jobs] /\ answers' \in [Sessions -> Seq(Answers)]
    <3>1. \/ \E step \in Steps : Goto(s, step)
          \/ \E ok \in BOOLEAN : Reply(s, ok)
      BY <1>11, QueryIs DEF Steps
    <3> QED
      BY <1>2, <2>1, <3>1, GotoIs, ReplyIs
  <2>4. auth' \in [Sessions -> Accounts \cup {NoAccount}]
    BY <1>2, <1>11, <2>2 DEF Exists, Insert, Member, Find, Touch, World, Fail
  <2>5. TableOK'
    <3>1. Owner(s) \in Clients
      BY SessionsAre
    <3>2. CASE Insert(s)
      BY <1>3, <2>2, <3>1, <3>2 DEF Insert
    <3>3. CASE Member(s)
      <4>1. <<job[s].account, Owner(s)>> \in users
        BY <3>3 DEF Member, At, JobOwns
      <4>2. users' = users /\ world' = world \cup {job[s].account}
        BY <3>3 DEF Member
      <4>3. job[s].account \in {row[1] : row \in users}
        BY <4>1
      <4> QED
        BY <1>3, <4>2, <4>3
    <3>4. CASE Exists(s) \/ Find(s) \/ Touch(s) \/ World(s) \/ Fail(s)
      BY <1>3, <3>4 DEF Exists, Find, Touch, World, Fail
    <3> QED
      BY <1>11, <3>2, <3>3, <3>4
  <2> QED
    BY <1>3, <1>4, <1>11, <2>1, <2>3, <2>4, <2>5
<1>12. CASE UNCHANGED vars
  BY <1>3, <1>4, <1>12 DEF vars
<1> QED
  BY <1>5, <1>6, <1>7, <1>8, <1>9, <1>10, <1>11, <1>12, Cases

LEMMA ClientStep ==
  ASSUME TypeOK, ClientInv, SessionInv, [Next]_vars
  PROVE  ClientInv'
<1> USE DEF clientVars
<1>1. /\ link \in [Clients -> {"down", "connecting", "up"}] /\ busy \in [Clients -> BOOLEAN]
      /\ pending \in [Clients -> Kinds \cup {"None"}]
      /\ account \in [Clients -> Accounts \cup {NoAccount}]
      /\ user \in [Clients -> Accounts \cup {NoAccount}]
  BY DEF TypeOK
<1> DEFINE OK(c) == /\ link[c] = "down" => ~busy[c]
                    /\ link[c] = "connecting" =>
                         busy[c] /\ pending[c] # "None" /\ account[c] # NoAccount
                    /\ user[c] # NoAccount => ~busy[c]
<1>2. \A c \in Clients : OK(c)
  BY DEF ClientInv
<1>3. ASSUME NEW c \in Clients, OK(c)',
             \A d \in Clients : d # c => /\ link'[d] = link[d] /\ busy'[d] = busy[d]
                                         /\ pending'[d] = pending[d] /\ account'[d] = account[d]
                                         /\ user'[d] = user[d]
      PROVE  ClientInv'
  BY <1>2, <1>3 DEF ClientInv
<1>4. ASSUME UNCHANGED <<link, busy, pending, account, user>> PROVE ClientInv'
  BY <1>2, <1>4 DEF ClientInv
<1>5. ASSUME NEW c \in Clients, NEW kind \in Kinds, NEW a \in Accounts, Submit(c, kind, a)
      PROVE  ClientInv'
  <2>1. /\ user[c] = NoAccount /\ user' = user
        /\ pending' = [pending EXCEPT ![c] = kind] /\ account' = [account EXCEPT ![c] = a]
        /\ busy' = [busy EXCEPT ![c] = TRUE]
        /\ \/ link[c] = "up" /\ link' = link
           \/ link' = [link EXCEPT ![c] = "connecting"]
    BY <1>5 DEF Submit
  <2>2. kind # "None" /\ a # NoAccount
    BY DEF Kinds
  <2>3. OK(c)'
    BY <1>1, <2>1, <2>2
  <2> QED
    BY <1>1, <1>3, <2>1, <2>3
<1>6. ASSUME NEW c \in Clients, Connected(c) PROVE ClientInv'
  <2>1. /\ link' = [link EXCEPT ![c] = "up"] /\ UNCHANGED <<busy, pending, account, user>>
    BY <1>6 DEF Connected
  <2>2. OK(c)'
    BY <1>1, <1>2, <2>1
  <2> QED
    BY <1>1, <1>3, <2>1, <2>2
<1>7. ASSUME NEW c \in Clients, ConnectFails(c) \/ Drop(c) PROVE ClientInv'
  <2>1. /\ link' = [link EXCEPT ![c] = "down"] /\ busy' = [busy EXCEPT ![c] = FALSE]
        /\ UNCHANGED <<pending, account, user>>
    BY <1>7 DEF ConnectFails, Drop
  <2>2. OK(c)'
    BY <1>1, <2>1
  <2> QED
    BY <1>1, <1>3, <2>1, <2>2
<1>8. ASSUME NEW c \in Clients, Receive(c) PROVE ClientInv'
  <2>1. /\ link[c] = "up" /\ UNCHANGED <<link, account>>
        /\ \/ UNCHANGED <<busy, pending, user>>
           \/ busy' = [busy EXCEPT ![c] = FALSE] /\ UNCHANGED <<pending, user>>
           \/ /\ busy' = [busy EXCEPT ![c] = FALSE] /\ pending' = [pending EXCEPT ![c] = "None"]
              /\ user' = user \/ user' = [user EXCEPT ![c] = Head(answers[Current(c)]).account]
    BY <1>8, ReceiveIs
  <2>2. OK(c)'
    BY <1>1, <1>2, <2>1
  <2> QED
    BY <1>1, <1>3, <2>1, <2>2
<1>9. CASE UNCHANGED clientVars
  BY <1>4, <1>9
<1> QED
  BY <1>5, <1>6, <1>7, <1>8, <1>9, Cases DEF vars

LEMMA SessionStep ==
  ASSUME TypeOK, ClientInv, SessionInv, [Next]_vars
  PROVE  SessionInv'
<1> USE DEF clientVars, tables, sessionVars
<1>1. /\ link \in [Clients -> {"down", "connecting", "up"}] /\ conn \in [Clients -> Nat]
      /\ busy \in [Clients -> BOOLEAN] /\ pending \in [Clients -> Kinds \cup {"None"}]
      /\ account \in [Clients -> Accounts \cup {NoAccount}]
      /\ requests \in [Sessions -> Seq(Requests)] /\ job \in [Sessions -> Jobs]
      /\ answers \in [Sessions -> Seq(Answers)]
  BY DEF TypeOK
<1> DEFINE OK(s) == /\ s[2] > conn[Owner(s)] => Quiet(s)
                    /\ ~Live(s) => answers[s] = <<>>
                    /\ Live(s) => UnderWay(s, Owner(s))
<1>2. \A s \in Sessions : OK(s)
  BY DEF SessionInv
<1>3. ASSUME \A s \in Sessions : OK(s)' PROVE SessionInv'
  BY <1>3 DEF SessionInv
\* What a session's own state depends on.
<1>4. ASSUME NEW s \in Sessions,
             requests'[s] = requests[s], job'[s] = job[s], answers'[s] = answers[s],
             link'[Owner(s)] = link[Owner(s)], conn'[Owner(s)] = conn[Owner(s)],
             busy'[Owner(s)] = busy[Owner(s)], pending'[Owner(s)] = pending[Owner(s)],
             account'[Owner(s)] = account[Owner(s)]
      PROVE  OK(s)'
  BY <1>2, <1>4 DEF Quiet, UnderWay, Asks, Works, Answered, Live, Current
<1>5. ASSUME NEW s \in Sessions, Live(s), ~busy[Owner(s)] PROVE Quiet(s)
  BY <1>2, <1>5 DEF UnderWay
<1>6. ASSUME NEW c \in Clients, NEW kind \in Kinds, NEW a \in Accounts, Submit(c, kind, a)
      PROVE  SessionInv'
  <2>1. /\ ~busy[c] /\ pending' = [pending EXCEPT ![c] = kind]
        /\ account' = [account EXCEPT ![c] = a] /\ busy' = [busy EXCEPT ![c] = TRUE]
        /\ UNCHANGED <<conn, job, answers>>
        /\ \/ link[c] = "up" /\ SendCurrent(Current(c), kind, a) /\ link' = link
           \/ link[c] # "up" /\ link' = [link EXCEPT ![c] = "connecting"] /\ requests' = requests
    BY <1>6 DEF Submit
  <2>2. ASSUME NEW s \in Sessions, Owner(s) # c PROVE OK(s)'
    <3>1. requests'[s] = requests[s]
      <4>1. CASE link[c] # "up"
        BY <2>1, <4>1
      <4>2. CASE link[c] = "up"
        <5>1. Current(c) \in Sessions /\ Owner(Current(c)) = c
          BY <4>2, CurrentIs
        <5>2. s # Current(c)
          BY <2>2, <5>1
        <5> QED
          BY <2>1, <4>2, <5>1, <5>2, SendIs
      <4> QED
        BY <4>1, <4>2
    <3> QED
      BY <1>1, <1>4, <2>1, <2>2, <3>1, SessionsAre, ZenonT(40)
  <2>3. ASSUME NEW s \in Sessions, Owner(s) = c, link[c] # "up" PROVE OK(s)'
    <3>1. ~Live(s) /\ ~Live(s)' /\ Quiet(s)' = Quiet(s)
      BY <1>1, <2>1, <2>3 DEF Live, Quiet
    <3> QED
      BY <1>2, <2>1, <2>3, <3>1
  <2>4. ASSUME NEW s \in Sessions, Owner(s) = c, link[c] = "up" PROVE OK(s)'
    <3>1. Current(c) \in Sessions /\ Owner(Current(c)) = c /\ Current(c)[2] = conn[c]
          /\ Live(Current(c)) /\ (Live(s) => s = Current(c))
      BY <2>4, CurrentIs
    <3>2. Live(s)' <=> Live(s)
      BY <2>1, <2>4 DEF Live, Current
    <3>3. CASE s # Current(c)
      <4>1. requests'[s] = requests[s]
        BY <2>1, <2>4, <3>1, <3>3, SendIs
      <4> QED
        BY <1>2, <2>1, <3>1, <3>2, <3>3, <4>1 DEF Quiet
    <3>4. CASE s = Current(c)
      <4>1. Quiet(s) /\ ~(s[2] > conn[c])
        BY <1>1, <1>5, <2>1, <2>4, <3>1, <3>4
      <4>2. /\ [kind |-> kind, account |-> a] \in Requests
            /\ requests'[s] = Append(requests[s], [kind |-> kind, account |-> a])
        BY <2>1, <2>4, <3>1, <3>4, SendIs
      <4>3. requests'[s] = <<[kind |-> kind, account |-> a]>>
        BY <4>1, <4>2 DEF Quiet
      <4>4. job'[s] = Idle /\ answers'[s] = <<>> /\ busy'[c] /\ pending'[c] = kind /\ account'[c] = a
        BY <1>1, <2>1, <4>1 DEF Quiet
      <4>5. Asks(s, c)'
        BY <4>2, <4>3, <4>4 DEF Asks
      <4> QED
        BY <2>1, <2>4, <3>1, <3>2, <3>4, <4>1, <4>4, <4>5 DEF UnderWay
    <3> QED
      BY <3>3, <3>4
  <2> QED
    BY <1>3, <2>2, <2>3, <2>4
<1>7. ASSUME NEW c \in Clients, Connected(c) PROVE SessionInv'
  <2>1. /\ link[c] = "connecting" /\ link' = [link EXCEPT ![c] = "up"]
        /\ conn' = [conn EXCEPT ![c] = conn[c] + 1]
        /\ UNCHANGED <<busy, pending, account, job, answers>>
    BY <1>7 DEF Connected
  <2>2. busy[c] /\ pending[c] \in Kinds /\ account[c] \in Accounts
    BY <1>1, <2>1 DEF ClientInv
  <2>3. PICK n \in Sessions : n = <<c, conn[c] + 1>> /\ Owner(n) = c /\ n[2] = conn[c] + 1
    <3>1. conn[c] + 1 \in 1..MaxTries[c]
      BY <2>1 DEF TypeOK
    <3> QED
      BY <3>1, SessionsAre
  <2>4. SendCurrent(n, pending[c], account[c])
    BY <1>7, <2>2, <2>3 DEF Connected, Kinds
  <2>5. /\ [kind |-> pending[c], account |-> account[c]] \in Requests
        /\ requests'[n] = Append(requests[n], [kind |-> pending[c], account |-> account[c]])
        /\ \A s \in Sessions : s # n => requests'[s] = requests[s]
    <3>1. PICK kind \in Kinds, a \in Accounts : kind = pending[c] /\ a = account[c]
      BY <2>2
    <3>2. SendCurrent(n, kind, a)
      BY <2>4, <3>1
    <3>3. /\ [kind |-> kind, account |-> a] \in Requests
          /\ requests'[n] = Append(requests[n], [kind |-> kind, account |-> a])
          /\ \A s \in Sessions : s # n => requests'[s] = requests[s]
      BY <3>2, SendIs
    <3> QED
      BY <3>1, <3>3
  <2>6. ASSUME NEW s \in Sessions, Owner(s) # c PROVE OK(s)'
    BY <1>1, <1>4, <2>1, <2>3, <2>5, <2>6, SessionsAre
  <2>7. ASSUME NEW s \in Sessions, Owner(s) = c, s # n PROVE OK(s)'
    <3>1. ~Live(s) /\ ~Live(s)'
      BY <1>1, <2>1, <2>3, <2>7 DEF Live, Current
    <3>2. /\ requests'[s] = requests[s] /\ job'[s] = job[s] /\ answers'[s] = answers[s]
          /\ conn[c] \in Nat /\ s[2] \in Nat /\ conn'[c] = conn[c] + 1
      BY <1>1, <2>1, <2>5, <2>7, SessionsAre
    <3> QED
      BY <1>2, <2>7, <3>1, <3>2 DEF Quiet
  <2>8. OK(n)'
    <3>1. Quiet(n)
      BY <1>1, <1>2, <2>3
    <3>2. /\ requests'[n] = <<[kind |-> pending[c], account |-> account[c]]>>
          /\ job'[n] = Idle /\ answers'[n] = <<>>
      BY <2>1, <2>5, <3>1 DEF Quiet
    <3>3. Asks(n, c)'
      BY <2>1, <2>5, <3>2 DEF Asks
    <3>4. Live(n)' /\ ~(n[2] > conn'[c])
      BY <1>1, <2>1, <2>3 DEF Live, Current
    <3> QED
      BY <2>1, <2>2, <2>3, <3>3, <3>4 DEF UnderWay
  <2> QED
    BY <1>3, <2>6, <2>7, <2>8
<1>8. ASSUME NEW c \in Clients, ConnectFails(c) PROVE SessionInv'
  <2>1. /\ link[c] = "connecting" /\ link' = [link EXCEPT ![c] = "down"]
        /\ busy' = [busy EXCEPT ![c] = FALSE]
        /\ UNCHANGED <<conn, pending, account, requests, job, answers>>
    BY <1>8 DEF ConnectFails
  <2>2. ASSUME NEW s \in Sessions, Owner(s) # c PROVE OK(s)'
    BY <1>1, <1>4, <2>1, <2>2, SessionsAre
  <2>3. ASSUME NEW s \in Sessions, Owner(s) = c PROVE OK(s)'
    <3>1. ~Live(s) /\ ~Live(s)'
      BY <1>1, <2>1, <2>3 DEF Live
    <3> QED
      BY <1>2, <2>1, <3>1 DEF Quiet
  <2> QED
    BY <1>3, <2>2, <2>3
<1>9. ASSUME NEW c \in Clients, Drop(c) PROVE SessionInv'
  <2>1. /\ link[c] = "up" /\ link' = [link EXCEPT ![c] = "down"]
        /\ busy' = [busy EXCEPT ![c] = FALSE]
        /\ answers' = [answers EXCEPT ![Current(c)] = <<>>]
        /\ UNCHANGED <<conn, pending, account, job>>
    BY <1>9 DEF Drop
  <2>2. PICK left \in {requests[Current(c)], <<>>} :
           requests' = [requests EXCEPT ![Current(c)] = left]
    BY <1>9 DEF Drop
  <2>3. Current(c) \in Sessions /\ Owner(Current(c)) = c /\ Current(c)[2] = conn[c]
    BY <2>1, CurrentIs
  <2>4. ASSUME NEW s \in Sessions, Owner(s) # c PROVE OK(s)'
    <3>1. s # Current(c)
      BY <2>3, <2>4
    <3>2. requests'[s] = requests[s] /\ answers'[s] = answers[s]
      BY <1>1, <2>1, <2>2, <3>1
    <3> QED
      BY <1>1, <1>4, <2>1, <2>4, <3>2, SessionsAre, ZenonT(40)
  <2>5. ASSUME NEW s \in Sessions, Owner(s) = c PROVE OK(s)'
    <3>1. ~Live(s)'
      BY <1>1, <2>1, <2>5 DEF Live
    <3>2. CASE s = Current(c)
      <4>1. answers'[s] = <<>> /\ ~(s[2] > conn[c])
        BY <1>1, <2>1, <2>3, <3>2
      <4> QED
        BY <2>1, <2>5, <3>1, <4>1
    <3>3. CASE s # Current(c)
      <4>1. ~Live(s) /\ requests'[s] = requests[s] /\ answers'[s] = answers[s]
        BY <1>1, <2>1, <2>2, <2>5, <3>3 DEF Live
      <4> QED
        BY <1>2, <2>1, <2>5, <3>1, <4>1 DEF Quiet
    <3> QED
      BY <3>2, <3>3
  <2> QED
    BY <1>3, <2>4, <2>5
<1>10. ASSUME NEW c \in Clients, Receive(c) PROVE SessionInv'
  <2>1. /\ link[c] = "up" /\ Current(c) \in Sessions /\ answers[Current(c)] # <<>>
        /\ answers'[Current(c)] = Tail(answers[Current(c)])
        /\ \A s \in Sessions : s # Current(c) => answers'[s] = answers[s]
        /\ UNCHANGED <<link, conn, account, requests, job>>
    BY <1>10, ReceiveIs
  <2>2. \A d \in Clients : d # c => busy'[d] = busy[d] /\ pending'[d] = pending[d]
    <3>1. /\ busy' = busy \/ busy' = [busy EXCEPT ![c] = FALSE]
          /\ pending' = pending \/ pending' = [pending EXCEPT ![c] = "None"]
      BY <1>10, ReceiveIs
    <3> QED
      BY <1>1, <3>1
  <2>3. /\ Owner(Current(c)) = c /\ Current(c)[2] = conn[c] /\ Live(Current(c))
        /\ \A s \in Sessions : Owner(s) = c /\ Live(s) => s = Current(c)
    BY <2>1, CurrentIs
  <2>4. ASSUME NEW s \in Sessions, Owner(s) # c PROVE OK(s)'
    BY <1>4, <2>1, <2>2, <2>3, <2>4, SessionsAre
  <2>5. ASSUME NEW s \in Sessions, Owner(s) = c, s # Current(c) PROVE OK(s)'
    <3>1. ~Live(s) /\ ~Live(s)'
      BY <2>1, <2>3, <2>5 DEF Live, Current
    <3> QED
      BY <1>2, <2>1, <2>5, <3>1 DEF Quiet
  <2>6. ASSUME NEW s \in Sessions, s = Current(c) PROVE OK(s)'
    <3>1. Answered(s, c)
      BY <1>2, <2>1, <2>3, <2>6 DEF UnderWay, Quiet, Asks, Works
    <3>2. requests[s] = <<>> /\ job[s] = Idle /\ \E a \in Answers : answers[s] = <<a>>
      BY <3>1 DEF Answered
    <3>3. answers'[s] = <<>>
      BY <2>1, <2>6, <3>2
    <3>4. Quiet(s)'
      BY <2>1, <2>6, <3>2, <3>3 DEF Quiet
    <3> QED
      BY <3>3, <3>4 DEF UnderWay
  <2> QED
    BY <1>3, <2>1, <2>4, <2>5, <2>6
<1>11. ASSUME NEW s \in Sessions, UNCHANGED clientVars, NEW t \in Sessions, t # s,
              requests'[t] = requests[t], job'[t] = job[t], answers'[t] = answers[t]
       PROVE  OK(t)'
  BY <1>4, <1>11
<1>12. ASSUME NEW s \in Sessions, UNCHANGED clientVars, Take(s) PROVE SessionInv'
  <2>1. /\ job[s] = Idle /\ requests[s] # <<>> /\ answers' = answers
        /\ requests'[s] = Tail(requests[s])
        /\ job'[s] # Idle /\ KindOf(job'[s]) = Head(requests[s]).kind
        /\ job'[s].account = Head(requests[s]).account
        /\ \A t \in Sessions : t # s => job'[t] = job[t] /\ requests'[t] = requests[t]
    BY <1>12, TakeIs
  <2>2. \A t \in Sessions : t # s => OK(t)'
    BY <1>11, <1>12, <2>1
  <2>3. Live(s)' = Live(s)
    BY <1>12 DEF Live, Current
  <2>4. ASSUME ~Live(s) PROVE OK(s)'
    <3>1. answers[s] = <<>> /\ ~(s[2] > conn[Owner(s)])
      BY <1>2, <2>1, <2>4 DEF Quiet
    <3> QED
      BY <1>12, <2>1, <2>3, <2>4, <3>1
  <2>5. ASSUME Live(s) PROVE OK(s)'
    <3>1. busy[Owner(s)] /\ Asks(s, Owner(s)) /\ ~(s[2] > conn[Owner(s)])
      BY <1>2, <2>1, <2>5 DEF UnderWay, Quiet, Works, Answered
    <3>2. PICK q \in Requests :
             requests[s] = <<q>> /\ q.kind = pending[Owner(s)] /\ q.account = account[Owner(s)]
      BY <3>1 DEF Asks
    <3>3. Head(requests[s]) = q /\ requests'[s] = <<>>
      BY <2>1, <3>2
    <3>4. Works(s, Owner(s))'
      BY <1>12, <2>1, <3>1, <3>2, <3>3 DEF Works, Asks
    <3> QED
      BY <1>12, <2>3, <2>5, <3>1, <3>4 DEF UnderWay
  <2> QED
    BY <1>3, <2>2, <2>4, <2>5
<1>13. ASSUME NEW s \in Sessions, UNCHANGED clientVars,
              Exists(s) \/ Insert(s) \/ Member(s) \/ Find(s) \/ Touch(s) \/ World(s) \/ Fail(s)
       PROVE  SessionInv'
  <2>1. /\ job[s] # Idle /\ requests' = requests
        /\ \/ Goto(s, "insert") /\ At(s, "exists")
           \/ Goto(s, "member") /\ At(s, "insert")
           \/ Goto(s, "touch") /\ At(s, "find")
           \/ Goto(s, "world") /\ At(s, "touch")
           \/ \E ok \in BOOLEAN : Reply(s, ok)
    BY <1>13, QueryIs
  <2>2. \A t \in Sessions : t # s => job'[t] = job[t] /\ answers'[t] = answers[t]
    BY <2>1, GotoIs, ReplyIs DEF Steps
  <2>3. \A t \in Sessions : t # s => OK(t)'
    BY <1>11, <1>13, <2>1, <2>2
  <2>4. /\ Live(s)' = Live(s) /\ ~(s[2] > conn[Owner(s)])
        /\ Live(s) => busy[Owner(s)] /\ Works(s, Owner(s))
    BY <1>2, <1>13, <2>1 DEF Live, Current, UnderWay, Quiet, Asks, Answered
  <2>5. ASSUME NEW ok \in BOOLEAN, Reply(s, ok) PROVE OK(s)'
    <3>1. /\ job'[s] = Idle /\ Answer(s, ok) \in Answers
          /\ answers'[s] = IF Live(s) THEN Append(answers[s], Answer(s, ok)) ELSE answers[s]
      BY <2>1, <2>5, ReplyIs
    <3>2. CASE ~Live(s)
      BY <1>2, <1>13, <2>1, <2>4, <3>1, <3>2
    <3>3. CASE Live(s)
      <4>1. requests[s] = <<>> /\ answers'[s] = <<Answer(s, ok)>>
        <5>1. requests[s] = <<>> /\ answers[s] = <<>>
          BY <2>4, <3>3 DEF Works
        <5>2. Append(<<>>, Answer(s, ok)) = <<Answer(s, ok)>>
          OBVIOUS
        <5> QED
          BY <3>1, <3>3, <5>1, <5>2
      <4>2. /\ Answer(s, ok).kind = pending[Owner(s)]
            /\ Answer(s, ok).account = account[Owner(s)]
        BY <2>4, <3>3 DEF Works, Answer
      <4> HIDE DEF Answer
      <4>3. Answered(s, Owner(s))'
        BY <1>13, <2>1, <3>1, <4>1, <4>2 DEF Answered
      <4> QED
        BY <1>13, <2>4, <3>3, <4>3 DEF UnderWay
    <3> QED
      BY <3>2, <3>3
  <2>6. ASSUME \/ Goto(s, "insert") /\ At(s, "exists")
               \/ Goto(s, "member") /\ At(s, "insert")
               \/ Goto(s, "touch") /\ At(s, "find")
               \/ Goto(s, "world") /\ At(s, "touch")
        PROVE  OK(s)'
    <3>1. /\ answers' = answers /\ job'[s] # Idle /\ job'[s].account = job[s].account
          /\ KindOf(job'[s]) = KindOf(job[s])
      BY <2>1, <2>6, GotoIs DEF KindOf, At, Steps
    <3>2. Live(s) => Works(s, Owner(s))'
      BY <1>13, <2>1, <2>4, <3>1 DEF Works
    <3> QED
      BY <1>2, <1>13, <2>4, <3>1, <3>2 DEF UnderWay
  <2>7. OK(s)'
    BY <2>1, <2>5, <2>6
  <2> QED
    BY <1>3, <2>3, <2>7
<1>14. CASE UNCHANGED vars
  BY <1>3, <1>4, <1>14, SessionsAre DEF vars
<1> QED
  BY <1>6, <1>7, <1>8, <1>9, <1>10, <1>12, <1>13, <1>14, Cases

\* While a handler is at work no answer is on its way; one that is, is alone.
LEMMA Alone ==
  ASSUME TypeOK, SessionInv, NEW s \in Sessions
  PROVE  /\ job[s] # Idle => answers[s] = <<>>
         /\ job[s] # Idle /\ Live(s) => busy[Owner(s)]
         /\ answers[s] # <<>> => Live(s) /\ \E a \in Answers : answers[s] = <<a>>
BY DEF SessionInv, UnderWay, Quiet, Asks, Works, Answered

LEMMA OwnerStep ==
  ASSUME TypeOK, ClientInv, SessionInv, OneRow, JobOwns, AnswerOwns, UserOwns, [Next]_vars
  PROVE  OneRow' /\ JobOwns' /\ AnswerOwns' /\ UserOwns'
<1> USE DEF clientVars, tables, sessionVars
<1>1. /\ link \in [Clients -> {"down", "connecting", "up"}]
      /\ user \in [Clients -> Accounts \cup {NoAccount}]
      /\ job \in [Sessions -> Jobs] /\ answers \in [Sessions -> Seq(Answers)]
      /\ auth \in [Sessions -> Accounts \cup {NoAccount}]
  BY DEF TypeOK
<1> DEFINE JobOK(s) == /\ job[s].step \in {"member", "touch", "world"} =>
                             <<job[s].account, Owner(s)>> \in users
                       /\ job[s].step = "world" => auth[s] = job[s].account
           AnswersOK(s) == \A i \in DOMAIN answers[s] : answers[s][i].ok =>
                             /\ <<answers[s][i].account, Owner(s)>> \in users
                             /\ answers[s][i].kind = "Register" => answers[s][i].account \in world
                             /\ answers[s][i].kind = "Login" => auth[s] = answers[s][i].account
           UserOK(c) == user[c] # NoAccount => /\ <<user[c], c>> \in users
                                               /\ link[c] = "up" => auth[Current(c)] = user[c]
           Goal == OneRow /\ JobOwns /\ AnswerOwns /\ UserOwns
<1>2. /\ \A s \in Sessions : JobOK(s) /\ AnswersOK(s)
      /\ \A c \in Clients : UserOK(c)
  BY DEF JobOwns, AnswerOwns, UserOwns
<1>3. ASSUME UNCHANGED <<job, auth, users, world>>, \A s \in Sessions : AnswersOK(s)',
             \A c \in Clients : UserOK(c)'
      PROVE  Goal'
  BY <1>2, <1>3 DEF OneRow, JobOwns, AnswerOwns, UserOwns
<1> DEFINE EmptyOK == \A s \in Sessions : answers'[s] = <<>> => AnswersOK(s)'
<1>11. EmptyOK
  <2>1. DOMAIN <<>> = {}
    OBVIOUS
  <2> QED
    BY <2>1
<1> HIDE DEF EmptyOK
<1>12. ASSUME NEW s \in Sessions, answers'[s] = answers[s],
             auth' = auth, users' = users, world' = world
      PROVE  AnswersOK(s)'
  <2>1. AnswersOK(s)
    BY <1>2
  <2> QED
    BY <1>12, <2>1
<1>4. ASSUME NEW c \in Clients, NEW kind \in Kinds, NEW a \in Accounts, Submit(c, kind, a)
      PROVE  Goal'
  <2>1. /\ UNCHANGED <<job, auth, users, world, answers, conn, user>>
        /\ link' = link \/ link' = [link EXCEPT ![c] = "connecting"]
    BY <1>4 DEF Submit
  <2> QED
    BY <1>1, <1>2, <1>3, <2>1 DEF Current
<1>5. ASSUME NEW c \in Clients, Connected(c) PROVE Goal'
  <2>1. /\ UNCHANGED <<job, auth, users, world, answers, user>>
        /\ link[c] = "connecting" /\ link' = [link EXCEPT ![c] = "up"]
        /\ conn' = [conn EXCEPT ![c] = conn[c] + 1]
    BY <1>5 DEF Connected
  <2>2. user[c] = NoAccount
    BY <2>1 DEF ClientInv
  <2>3. \A d \in Clients : d # c => link'[d] = link[d] /\ conn'[d] = conn[d]
    BY <1>1, <2>1 DEF TypeOK
  <2>4. \A d \in Clients : UserOK(d)'
    BY <1>2, <2>1, <2>2, <2>3 DEF Current
  <2> QED
    BY <1>2, <1>3, <2>1, <2>4
<1>6. ASSUME NEW c \in Clients, ConnectFails(c) \/ Drop(c) PROVE Goal'
  <2>1. /\ UNCHANGED <<job, auth, users, world, conn, user>>
        /\ link' = [link EXCEPT ![c] = "down"]
        /\ answers' = answers \/ answers' = [answers EXCEPT ![Current(c)] = <<>>]
    BY <1>6 DEF ConnectFails, Drop
  <2>2. \A s \in Sessions : answers'[s] = answers[s] \/ answers'[s] = <<>>
    BY <1>1, <2>1
  <2>3. ASSUME NEW s \in Sessions PROVE AnswersOK(s)'
    <3>1. CASE answers'[s] = answers[s]
      BY <1>12, <2>1, <3>1
    <3>2. CASE answers'[s] = <<>>
      BY <1>11, <3>2 DEF EmptyOK
    <3> QED
      BY <2>2, <3>1, <3>2
  <2>4. \A d \in Clients : UserOK(d)'
    BY <1>1, <1>2, <2>1 DEF Current
  <2> QED
    BY <1>3, <2>1, <2>3, <2>4
<1>7. ASSUME NEW c \in Clients, Receive(c) PROVE Goal'
  <2>1. /\ link[c] = "up" /\ Current(c) \in Sessions /\ answers[Current(c)] # <<>>
        /\ answers'[Current(c)] = Tail(answers[Current(c)])
        /\ \A s \in Sessions : s # Current(c) => answers'[s] = answers[s]
        /\ UNCHANGED <<link, conn, job, auth, users, world>>
    BY <1>7, ReceiveIs
  <2>2. PICK a \in Answers : answers[Current(c)] = <<a>>
    BY <2>1, Alone
  <2>3. Head(answers[Current(c)]) = a /\ answers'[Current(c)] = <<>>
    BY <2>1, <2>2
  <2>4. /\ 1 \in DOMAIN answers[Current(c)] /\ answers[Current(c)][1] = a
        /\ Owner(Current(c)) = c
    BY <2>1, <2>2, CurrentIs
  <2>5. ASSUME NEW s \in Sessions PROVE AnswersOK(s)'
    <3>1. CASE s # Current(c)
      BY <1>12, <2>1, <3>1
    <3>2. CASE s = Current(c)
      BY <1>11, <2>3, <3>2 DEF EmptyOK
    <3> QED
      BY <3>1, <3>2
  <2>6. \/ user' = user
        \/ a.ok /\ a.kind = "Login" /\ user' = [user EXCEPT ![c] = a.account]
    BY <1>7, <2>3, ReceiveIs
  <2>7. \A d \in Clients : UserOK(d)'
    <3>1. CASE user' = user
      BY <1>2, <2>1, <3>1 DEF Current
    <3>2. CASE a.ok /\ a.kind = "Login" /\ user' = [user EXCEPT ![c] = a.account]
      <4>1. <<a.account, c>> \in users /\ auth[Current(c)] = a.account
        BY <1>2, <2>1, <2>4, <3>2
      <4> QED
        BY <1>1, <1>2, <2>1, <3>2, <4>1 DEF Current
    <3> QED
      BY <2>6, <3>1, <3>2
  <2> QED
    BY <1>3, <2>1, <2>5, <2>7
<1>8. ASSUME NEW s \in Sessions, UNCHANGED clientVars, Take(s) PROVE Goal'
  <2>1. /\ UNCHANGED <<auth, answers, users, world>> /\ job'[s].step \in {"find", "exists"}
        /\ \A t \in Sessions : t # s => job'[t] = job[t]
    BY <1>8, TakeIs
  <2>2. \A t \in Sessions : JobOK(t)' /\ AnswersOK(t)'
    BY <1>2, <2>1
  <2>3. \A c \in Clients : UserOK(c)'
    BY <1>2, <1>8, <2>1 DEF Current
  <2> QED
    BY <2>1, <2>2, <2>3 DEF OneRow, JobOwns, AnswerOwns, UserOwns
<1>9. ASSUME NEW s \in Sessions, UNCHANGED clientVars,
             Exists(s) \/ Insert(s) \/ Member(s) \/ Find(s) \/ Touch(s) \/ World(s) \/ Fail(s)
      PROVE  Goal'
  <2>1. /\ job[s] # Idle
        /\ \/ Goto(s, "insert") /\ At(s, "exists")
           \/ Goto(s, "member") /\ At(s, "insert") /\ Insert(s)
           \/ Goto(s, "touch") /\ At(s, "find") /\ <<job[s].account, Owner(s)>> \in users
           \/ Goto(s, "world") /\ At(s, "touch") /\ Touch(s)
           \/ Reply(s, FALSE)
           \/ Reply(s, TRUE) /\ At(s, "member") /\ Member(s)
           \/ Reply(s, TRUE) /\ At(s, "world") /\ World(s)
    BY <1>9, QueryIs
  <2>2. /\ users \subseteq users' /\ world \subseteq world'
        /\ auth' = auth \/ Touch(s)
    BY <1>9 DEF Exists, Insert, Member, Find, Touch, World, Fail
  <2>3. Touch(s) => auth' = [auth EXCEPT ![s] = job[s].account]
    BY DEF Touch
  <2>4. \A t \in Sessions : t # s => auth'[t] = auth[t]
    BY <1>1, <2>2, <2>3
  <2>5. \A t \in Sessions : t # s => job'[t] = job[t] /\ answers'[t] = answers[t]
    <3>1. (\E step \in Steps : Goto(s, step)) \/ \E ok \in BOOLEAN : Reply(s, ok)
      BY <2>1 DEF Steps
    <3> QED
      BY <2>1, <3>1, GotoIs, ReplyIs
  <2>6. \A t \in Sessions : t # s => JobOK(t)' /\ AnswersOK(t)'
    BY <1>2, <2>2, <2>4, <2>5
  <2>7. answers[s] = <<>> /\ (Live(s) => busy[Owner(s)])
    BY <2>1, Alone
  <2>8. OneRow'
    <3>1. CASE Insert(s)
      <4>1. /\ users' = users \cup {<<job[s].account, Owner(s)>>}
            /\ \A d \in Clients : <<job[s].account, d>> \notin users
        BY <3>1 DEF Insert, Registered
      <4>2. \A row \in users : row[2] \in Clients /\ row = <<row[1], row[2]>>
        BY DEF TypeOK
      <4>3. \A row \in users : row[1] # job[s].account
        BY <4>1, <4>2
      <4> QED
        BY <4>1, <4>3 DEF OneRow
    <3>2. CASE ~Insert(s)
      BY <1>9, <3>2 DEF Exists, Member, Find, Touch, World, Fail, OneRow
    <3> QED
      BY <3>1, <3>2
  <2>9. \A c \in Clients : UserOK(c)'
    <3> SUFFICES ASSUME NEW c \in Clients, user[c] # NoAccount, link[c] = "up",
                        Touch(s), s = Current(c)
                 PROVE  FALSE
      BY <1>2, <1>9, <2>2, <2>4, CurrentIs DEF Current
    <3> QED
      BY <2>7, CurrentIs DEF ClientInv
  <2>10. ASSUME NEW ok \in BOOLEAN, Reply(s, ok),
                ok => \/ At(s, "member") /\ Member(s)
                      \/ At(s, "world") /\ World(s)
         PROVE  JobOK(s)' /\ AnswersOK(s)'
    <3>1. /\ job'[s] = Idle
          /\ answers'[s] = IF Live(s) THEN Append(<<>>, Answer(s, ok)) ELSE <<>>
      BY <2>1, <2>7, <2>10, ReplyIs
    <3>2. Append(<<>>, Answer(s, ok)) = <<Answer(s, ok)>>
      OBVIOUS
    <3>3. \A i \in DOMAIN answers'[s] : answers'[s][i] = Answer(s, ok)
      BY <3>1, <3>2
    <3>4. /\ Answer(s, ok).ok = ok /\ Answer(s, ok).account = job[s].account
          /\ Answer(s, ok).kind = KindOf(job[s])
      BY DEF Answer
    <3>5. CASE ok = FALSE
      BY <3>1, <3>3, <3>4, <3>5 DEF Idle
    <3>6. CASE ok /\ At(s, "member") /\ Member(s)
      <4>1. <<job[s].account, Owner(s)>> \in users' /\ job[s].account \in world'
        BY <1>2, <2>2, <3>6 DEF At, Member
      <4>2. KindOf(job[s]) = "Register"
        BY <3>6 DEF At, KindOf
      <4> QED
        BY <3>1, <3>3, <3>4, <4>1, <4>2 DEF Idle
    <3>7. CASE ok /\ At(s, "world") /\ World(s)
      <4>1. <<job[s].account, Owner(s)>> \in users' /\ auth'[s] = job[s].account
        BY <1>2, <2>2, <3>7 DEF At, World
      <4>2. KindOf(job[s]) = "Login"
        BY <3>7 DEF At, KindOf
      <4> QED
        BY <3>1, <3>3, <3>4, <4>1, <4>2 DEF Idle
    <3> QED
      BY <2>10, <3>5, <3>6, <3>7
  <2>11. ASSUME NEW step \in Steps, Goto(s, step),
                \/ step = "insert"
                \/ step = "member" /\ Insert(s)
                \/ step = "touch" /\ <<job[s].account, Owner(s)>> \in users
                \/ step = "world" /\ At(s, "touch") /\ Touch(s)
         PROVE  JobOK(s)' /\ AnswersOK(s)'
    <3>1. answers'[s] = <<>> /\ job'[s].step = step /\ job'[s].account = job[s].account
      BY <2>1, <2>7, <2>11, GotoIs
    <3>2. step \in {"member", "touch", "world"} => <<job[s].account, Owner(s)>> \in users'
      <4>1. CASE step = "member" /\ Insert(s)
        BY <4>1 DEF Insert
      <4> QED
        BY <1>2, <2>2, <2>11, <4>1 DEF At
    <3>3. step = "world" => auth'[s] = job[s].account
      BY <1>1, <2>3, <2>11
    <3> QED
      BY <3>1, <3>2, <3>3
  <2>12. JobOK(s)' /\ AnswersOK(s)'
    BY <2>1, <2>10, <2>11 DEF Steps
  <2> QED
    BY <2>6, <2>8, <2>9, <2>12, ZenonT(40) DEF JobOwns, AnswerOwns, UserOwns
<1>10. CASE UNCHANGED vars
  BY <1>2, <1>3, <1>10 DEF vars, Current
<1> QED
  BY <1>4, <1>5, <1>6, <1>7, <1>8, <1>9, <1>10, Cases

LEMMA InitInv == Init => IInv
<1> SUFFICES ASSUME Init PROVE IInv
  OBVIOUS
<1> USE DEF Init
<1>1. <<>> \in Seq(Requests) /\ <<>> \in Seq(Answers) /\ Idle \in Jobs
  BY DEF Jobs
<1>2. Idle.step = "idle" /\ DOMAIN <<>> = {}
  BY DEF Idle
<1>3. TypeOK
  <2>1. ClientInv
    BY DEF ClientInv
  <2> QED
    BY <1>1 DEF TypeOK
<1>4. ClientInv
  BY DEF ClientInv
<1>5. SessionInv
  BY SessionsAre DEF SessionInv, Quiet, UnderWay
<1>6. OneRow /\ JobOwns /\ AnswerOwns /\ UserOwns
  BY <1>2 DEF OneRow, JobOwns, AnswerOwns, UserOwns
<1> QED
  BY <1>3, <1>4, <1>5, <1>6 DEF IInv

LEMMA Invariance == Spec => []IInv
<1>1. IInv /\ [Next]_vars => IInv'
  BY TypeStep, ClientStep, SessionStep, OwnerStep DEF IInv
<1> QED
  BY InitInv, <1>1, PTL DEF Spec

-----------------------------------------------------------------------------
(* The theorems *)

\* Clients, sessions and tables keep their types, of however many clients and
\* tries: no member of the world group without an account, no connection but
\* for a try.
THEOREM TypeCorrect == Spec => []TypeOK
<1>1. IInv => TypeOK
  BY DEF IInv
<1> QED
  BY Invariance, <1>1, PTL

\* What is under way on a connection is one request at most, and the one the
\* client awaits the answer of.
THEOREM OneAwaited == Spec => []AnswerIsForPending
<1>1. IInv => AnswerIsForPending
  <2> SUFFICES ASSUME IInv, NEW c \in Clients, link[c] = "up",
                      NEW q, q = Asked(Current(c))
               PROVE  /\ Len(q) <= 1
                      /\ q # <<>> => busy[c] /\ q[1].kind = pending[c] /\ q[1].account = account[c]
    BY DEF AnswerIsForPending
  <2>1. PICK s \in Sessions : s = Current(c)
    BY CurrentIs DEF IInv
  <2>2. UnderWay(s, c)
    BY <2>1, CurrentIs DEF IInv, SessionInv
  <2>3. CASE Quiet(s)
    <3>1. q = <<>> \o <<>> \o <<>>
      BY <2>1, <2>3 DEF Asked, Quiet
    <3> QED
      BY <3>1
  <2>4. CASE Asks(s, c) /\ busy[c]
    <3>1. PICK r \in Requests :
             requests[s] = <<r>> /\ r.kind = pending[c] /\ r.account = account[c]
      BY <2>4 DEF Asks
    <3>2. q = <<r>> \o <<>> \o <<>>
      BY <2>1, <2>4, <3>1 DEF Asked, Asks
    <3>3. q = <<r>>
      BY <3>2
    <3> QED
      BY <2>4, <3>1, <3>3
  <2>5. CASE Works(s, c) /\ busy[c]
    <3> DEFINE r == [kind |-> KindOf(job[s]), account |-> job[s].account]
    <3>1. q = <<>> \o <<r>> \o <<>>
      BY <2>1, <2>5 DEF Asked, Works
    <3>2. r.kind = pending[c] /\ r.account = account[c]
      BY <2>5 DEF Works
    <3> HIDE DEF r
    <3>3. q = <<r>>
      BY <3>1
    <3> QED
      BY <2>5, <3>2, <3>3
  <2>6. CASE Answered(s, c) /\ busy[c]
    <3>1. PICK a \in Answers :
             answers[s] = <<a>> /\ a.kind = pending[c] /\ a.account = account[c]
      BY <2>6 DEF Answered
    <3>2. q = <<>> \o <<>> \o <<a>>
      BY <2>1, <2>6, <3>1 DEF Asked, Answered
    <3>3. q = <<a>>
      BY <3>2
    <3> QED
      BY <2>6, <3>1, <3>3
  <2> QED
    BY <2>2, <2>3, <2>4, <2>5, <2>6 DEF UnderWay
<1> QED
  BY Invariance, <1>1, PTL

\* An account is one person's, whoever registers it at the same time, and who is
\* told to have it, or is signed in, has it.
THEOREM OneOwner == Spec => []AccountHasOneOwner
<1>1. IInv => AccountHasOneOwner
  BY DEF IInv, OneRow, AnswerOwns, UserOwns, AccountHasOneOwner
<1> QED
  BY Invariance, <1>1, PTL
=============================================================================
