--------------------------- MODULE LoginRegister ---------------------------
(***************************************************************************)
(* Signing in and registering: LoginBackend's busy flag and pending        *)
(* command over NetworkManager's one socket, the session at the other end, *)
(* and the queries handle_register and handle_login make, one per step.    *)
(*                                                                         *)
(* A client stands for a person with a password of their own, and tries    *)
(* accounts under it.  A connection that is lost leaves its session to     *)
(* finish the request it has read; the next connection has a new session.  *)
(* Pushes, which ListPush and MessageFlow have, are left out: nothing here *)
(* looks at them.                                                          *)
(***************************************************************************)
EXTENDS Naturals, Sequences

CONSTANTS
    Clients,  \* processes, and their users' passwords
    Accounts,
    MaxTries, \* bound on the logins and registrations of each client
    NoAccount

ASSUME LoginConstants == NoAccount \notin Accounts /\ MaxTries \in [Clients -> Nat]

VARIABLES
    link,      \* state of NetworkManager::socket_: "down", "connecting" or "up"
    conn,      \* connections the client has made; the last is the current one
    busy,      \* busy_
    pending,   \* pending_command_
    account,   \* pending_account_
    user,      \* the account LoginBackend::user_id_ belongs to
    glued,     \* NetworkManager::buffer_ ends in a part of a line
    swallowed, \* history: the answer awaited was read as the rest of such a line
    tries,     \* logins and registrations begun
    requests,  \* lines on their way to a session
    job,       \* what the session's handler is at
    auth,      \* the account of Session::user_id_
    answers,   \* lines on their way to the client
    users,     \* users rows: account and password
    world      \* accounts that are members of the world group

clientVars == <<link, conn, busy, pending, account, user, glued, swallowed, tries>>
sessionVars == <<requests, job, auth, answers>>
tables == <<users, world>>
vars == <<clientVars, sessionVars, tables>>

Sessions == UNION {{c} \X (1..MaxTries[c]) : c \in Clients}
Owner(s) == s[1]
Current(c) == <<c, conn[c]>>
Live(s) == link[Owner(s)] = "up" /\ s = Current(Owner(s))

Kinds == {"Login", "Register"}
Requests == [kind: Kinds, account: Accounts]
Idle == [step |-> "idle", account |-> NoAccount]
Jobs == {Idle} \cup [step: {"exists", "insert", "member", "find", "touch", "world"},
                     account: Accounts]
\* REGISTER_RESP names no account: the one here is the request's.
Answers == [kind: Kinds, account: Accounts, ok: BOOLEAN]

KindOf(j) == IF j.step \in {"exists", "insert", "member"} THEN "Register" ELSE "Login"

TypeOK ==
    /\ link \in [Clients -> {"down", "connecting", "up"}]
    /\ conn \in [Clients -> Nat]
    /\ busy \in [Clients -> BOOLEAN]
    /\ pending \in [Clients -> Kinds \cup {"None"}]
    /\ account \in [Clients -> Accounts \cup {NoAccount}]
    /\ user \in [Clients -> Accounts \cup {NoAccount}]
    /\ glued \in [Clients -> BOOLEAN]
    /\ swallowed \in [Clients -> BOOLEAN]
    /\ tries \in [Clients -> Nat]
    /\ requests \in [Sessions -> Seq(Requests)]
    /\ job \in [Sessions -> Jobs]
    /\ auth \in [Sessions -> Accounts \cup {NoAccount}]
    /\ answers \in [Sessions -> Seq(Answers)]
    /\ users \subseteq Accounts \X Clients
    /\ world \subseteq {row[1] : row \in users}
    \* a connection is made for a try
    /\ \A c \in Clients :
         /\ link[c] = "connecting" => conn[c] < tries[c]
         /\ link[c] = "up" => conn[c] > 0
         /\ conn[c] <= tries[c] /\ tries[c] <= MaxTries[c]

Init ==
    /\ link = [c \in Clients |-> "down"]
    /\ conn = [c \in Clients |-> 0]
    /\ busy = [c \in Clients |-> FALSE]
    /\ pending = [c \in Clients |-> "None"]
    /\ account = [c \in Clients |-> NoAccount]
    /\ user = [c \in Clients |-> NoAccount]
    /\ glued = [c \in Clients |-> FALSE]
    /\ swallowed = [c \in Clients |-> FALSE]
    /\ tries = [c \in Clients |-> 0]
    /\ requests = [s \in Sessions |-> <<>>]
    /\ job = [s \in Sessions |-> Idle]
    /\ auth = [s \in Sessions |-> NoAccount]
    /\ answers = [s \in Sessions |-> <<>>]
    /\ users = {} /\ world = {}

-----------------------------------------------------------------------------
(* The client *)

\* sendCurrentCommand over the connection of session s
SendCurrent(s, kind, a) ==
    requests' = [requests EXCEPT ![s] = Append(@, [kind |-> kind, account |-> a])]

\* Fault: the form can be sent again while an answer is awaited.
SubmitAgain(c, kind, a) ==
    /\ user[c] = NoAccount /\ tries[c] < MaxTries[c]
    /\ tries' = [tries EXCEPT ![c] = @ + 1]
    /\ pending' = [pending EXCEPT ![c] = kind]
    /\ account' = [account EXCEPT ![c] = a]
    /\ busy' = [busy EXCEPT ![c] = TRUE]
    /\ IF link[c] = "up"
       THEN SendCurrent(Current(c), kind, a) /\ UNCHANGED link
       ELSE link' = [link EXCEPT ![c] = "connecting"] /\ UNCHANGED requests
    /\ UNCHANGED <<conn, user, glued, swallowed, job, auth, answers, tables>>

\* login or registerAccount: over the connection there is, or once there is one.
\* The windows that call them close when the user has signed in.
Submit(c, kind, a) ==
    /\ ~busy[c]
    /\ user[c] = NoAccount /\ tries[c] < MaxTries[c]
    /\ tries' = [tries EXCEPT ![c] = @ + 1]
    /\ pending' = [pending EXCEPT ![c] = kind]
    /\ account' = [account EXCEPT ![c] = a]
    /\ busy' = [busy EXCEPT ![c] = TRUE]
    /\ IF link[c] = "up"
       THEN SendCurrent(Current(c), kind, a) /\ UNCHANGED link
       ELSE link' = [link EXCEPT ![c] = "connecting"] /\ UNCHANGED requests
    /\ UNCHANGED <<conn, user, glued, swallowed, job, auth, answers, tables>>

\* onNetworkConnected
Connected(c) ==
    /\ link[c] = "connecting"
    /\ link' = [link EXCEPT ![c] = "up"]
    /\ conn' = [conn EXCEPT ![c] = @ + 1]
    /\ IF pending[c] = "None"
       THEN UNCHANGED requests
       ELSE SendCurrent(<<c, conn[c] + 1>>, pending[c], account[c])
    /\ UNCHANGED <<busy, pending, account, user, glued, swallowed, tries, job, auth, answers, tables>>

\* onNetworkError without a connection: the pending command stays.
ConnectFails(c) ==
    /\ link[c] = "connecting"
    /\ link' = [link EXCEPT ![c] = "down"]
    /\ busy' = [busy EXCEPT ![c] = FALSE]
    /\ UNCHANGED <<conn, pending, account, user, glued, swallowed, tries, sessionVars, tables>>

\* The connection is lost: onNetworkError, and onNetworkDisconnected, which then
\* finds busy_ taken back.  A request may be lost, or be handled all the same; of
\* an answer on its way a part may have come, which stays in buffer_.
Drop(c) ==
    /\ link[c] = "up"
    /\ link' = [link EXCEPT ![c] = "down"]
    /\ busy' = [busy EXCEPT ![c] = FALSE]
    /\ swallowed' = [swallowed EXCEPT ![c] = FALSE]
    /\ \E cut \in {glued[c], glued[c] \/ answers[Current(c)] # <<>>} :
         glued' = [glued EXCEPT ![c] = cut]
    /\ \E left \in {requests[Current(c)], <<>>} :
         requests' = [requests EXCEPT ![Current(c)] = left]
    /\ answers' = [answers EXCEPT ![Current(c)] = <<>>]
    /\ UNCHANGED <<conn, pending, account, user, tries, job, auth, tables>>

\* onLoginSucceeded, and what is connected to registrationSucceeded.  The id
\* LOGIN_RESP carries is that of the session's user.
OnSuccess(c, answer) ==
    /\ busy' = [busy EXCEPT ![c] = FALSE]
    /\ pending' = [pending EXCEPT ![c] = "None"]
    /\ user' = IF answer.kind = "Login" THEN [user EXCEPT ![c] = answer.account] ELSE user

\* Fault: a refusal leaves the form disabled.
OnRefusalBusy(c) == UNCHANGED <<busy, pending, user>>

\* onProtocolError
OnRefusal(c) ==
    /\ busy' = [busy EXCEPT ![c] = FALSE]
    /\ UNCHANGED <<pending, user>>

\* onReadyRead: what the last connection left in buffer_ and the first line of
\* this one make a line that is no command.
Receive(c) ==
    /\ link[c] = "up" /\ answers[Current(c)] # <<>>
    /\ LET answer == Head(answers[Current(c)]) IN
       \/ /\ glued[c]
          /\ swallowed' = [swallowed EXCEPT ![c] = TRUE]
          /\ UNCHANGED <<busy, pending, user>>
       \/ ~glued[c] /\ answer.ok /\ OnSuccess(c, answer) /\ UNCHANGED swallowed
       \/ ~glued[c] /\ ~answer.ok /\ OnRefusal(c) /\ UNCHANGED swallowed
    /\ glued' = [glued EXCEPT ![c] = FALSE]
    /\ answers' = [answers EXCEPT ![Current(c)] = Tail(@)]
    /\ UNCHANGED <<link, conn, account, tries, requests, job, auth, tables>>

-----------------------------------------------------------------------------
(* The session: each step is one query *)

At(s, step) == job[s].step = step

Goto(s, step) ==
    /\ job' = [job EXCEPT ![s].step = step]
    /\ UNCHANGED answers

Reply(s, ok) ==
    /\ job' = [job EXCEPT ![s] = Idle]
    /\ answers' = IF Live(s)
                  THEN [answers EXCEPT ![s] = Append(@, [kind |-> KindOf(job[s]),
                                                         account |-> job[s].account,
                                                         ok |-> ok])]
                  ELSE answers

\* Session::run reads the next line; handle_register or handle_login begins.
Take(s) ==
    /\ job[s] = Idle /\ requests[s] # <<>>
    /\ LET q == Head(requests[s]) IN
       job' = [job EXCEPT ![s] = [step |-> IF q.kind = "Login" THEN "find" ELSE "exists",
                                  account |-> q.account]]
    /\ requests' = [requests EXCEPT ![s] = Tail(@)]
    /\ UNCHANGED <<auth, answers, tables>>

Registered(a) == \E c \in Clients : <<a, c>> \in users

\* register_user, SELECT: ACCOUNT_EXISTS
Exists(s) ==
    /\ At(s, "exists")
    /\ IF Registered(job[s].account) THEN Reply(s, FALSE) ELSE Goto(s, "insert")
    /\ UNCHANGED <<requests, auth, tables>>

\* Fault: no unique key.
InsertTwice(s) ==
    /\ At(s, "insert")
    /\ users' = users \cup {<<job[s].account, Owner(s)>>}
    /\ Goto(s, "member")
    /\ UNCHANGED <<requests, auth, world>>

\* INSERT INTO users: refused by the unique key when another has been quicker
Insert(s) ==
    /\ At(s, "insert")
    /\ ~Registered(job[s].account)
    /\ users' = users \cup {<<job[s].account, Owner(s)>>}
    /\ Goto(s, "member")
    /\ UNCHANGED <<requests, auth, world>>

\* INSERT IGNORE INTO conversation_members of the world group
Member(s) ==
    /\ At(s, "member")
    /\ world' = world \cup {job[s].account}
    /\ Reply(s, TRUE)
    /\ UNCHANGED <<requests, auth, users>>

\* login_user, SELECT: LOGIN_FAILED without the account, or with another password
Find(s) ==
    /\ At(s, "find")
    /\ IF <<job[s].account, Owner(s)>> \in users THEN Goto(s, "touch") ELSE Reply(s, FALSE)
    /\ UNCHANGED <<requests, auth, tables>>

\* UPDATE last_login_at; the session is authenticated after it.
Touch(s) ==
    /\ At(s, "touch")
    /\ auth' = [auth EXCEPT ![s] = job[s].account]
    /\ Goto(s, "world")
    /\ UNCHANGED <<requests, tables>>

\* get_world_conversation_id
World(s) ==
    /\ At(s, "world")
    /\ Reply(s, TRUE)
    /\ UNCHANGED <<requests, auth, tables>>

\* A query fails: SERVER_ERROR, with what the earlier ones have done.
Fail(s) ==
    /\ job[s] # Idle
    /\ Reply(s, FALSE)
    /\ UNCHANGED <<requests, auth, tables>>

Serve(s) ==
    /\ \/ Take(s)
       \/ Exists(s) \/ Insert(s) \/ Member(s)
       \/ Find(s) \/ Touch(s) \/ World(s)
       \/ Fail(s)
    /\ UNCHANGED clientVars

-----------------------------------------------------------------------------
Next ==
    \/ \E c \in Clients :
         \/ \E kind \in Kinds, a \in Accounts : Submit(c, kind, a)
         \/ Connected(c) \/ ConnectFails(c) \/ Drop(c) \/ Receive(c)
    \/ \E s \in Sessions : Serve(s)

\* An attempt to connect ends, a handler runs on, and a line that was sent
\* arrives unless the connection is lost.  Nobody need submit anything.
Fairness ==
    /\ \A c \in Clients : WF_vars(Connected(c) \/ ConnectFails(c)) /\ WF_vars(Receive(c))
    /\ \A s \in Sessions : WF_vars(Serve(s))

Spec == Init /\ [][Next]_vars /\ Fairness

-----------------------------------------------------------------------------
(* Properties *)

Asked(s) == requests[s] \o (IF job[s] = Idle THEN <<>>
                            ELSE <<[kind |-> KindOf(job[s]), account |-> job[s].account]>>)
                        \o answers[s]

\* The answer that comes is for what the user last asked: answers carry no name
\* of a request, and a registration's not even the account, which is taken from
\* pending_account_.  What is under way on the client's connection, as a request,
\* in the handler or as an answer, is one thing at most, and the one awaited.
AnswerIsForPending ==
    \A c \in Clients : link[c] = "up" =>
        LET q == Asked(Current(c)) IN
        /\ Len(q) <= 1
        /\ q # <<>> => busy[c] /\ q[1].kind = pending[c] /\ q[1].account = account[c]

\* Two that register one account at a time do not both get it, although the
\* handler looks first and inserts later; who is told that it worked is in the
\* table and the world group, and who is signed in owns the account and is known
\* under it by the session at the other end.
AccountHasOneOwner ==
    /\ \A row, other \in users : row[1] = other[1] => row = other
    /\ \A s \in Sessions : \A i \in DOMAIN answers[s] :
         answers[s][i].ok /\ answers[s][i].kind = "Register" =>
            <<answers[s][i].account, Owner(s)>> \in users /\ answers[s][i].account \in world
    /\ \A c \in Clients : user[c] # NoAccount =>
         /\ <<user[c], c>> \in users
         /\ link[c] = "up" => auth[Current(c)] = user[c]

\* The form comes back: a login or registration ends in an answer, an error or
\* the loss of the connection.  There is no timeout, and an answer glued to the
\* rest of the connection before is lost: then the form stays disabled.
BusySettles == \A c \in Clients : busy[c] ~> ~busy[c] \/ swallowed[c]
=============================================================================
