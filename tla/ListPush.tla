----------------------------- MODULE ListPush -----------------------------
(***************************************************************************)
(* The lists a client shows (friends, friend requests, conversations, join *)
(* requests) and how they are kept up to date: after LOGIN the client asks *)
(* for them; a handler that has changed a user's list spawns a coroutine   *)
(* on the server's strand, which loads the list anew and sends it to the   *)
(* user's sessions, found in sessions_by_user_ (src/server/server/push.cpp *)
(* and broadcast.cpp).                                                     *)
(*                                                                         *)
(* A list is represented by the number of changes made before it was read. *)
(* The server's strand is a FIFO queue; a coroutine on it gives it up at   *)
(* the load, so that loads overlap.  A push is queued on the session's own *)
(* strand, an answer is not; what follows is SessionWriter's part.         *)
(***************************************************************************)
EXTENDS Naturals, Sequences, FiniteSets

CONSTANTS
    Users,
    Sessions,  \* connections, accepted and in the server's table
    Changes,   \* handlers that change a list of one user
    MaxLogins, \* bound: LOGIN lines of all sessions together
    NoUser     \* the user of a session that has not logged in

ASSUME PushConstants ==
    /\ IsFiniteSet(Changes)
    /\ MaxLogins \in Nat
    /\ NoUser \notin Users

VARIABLES
    stored, \* each user's list in the database
    pc,     \* the place of each handler and then of its push coroutine
    of,     \* whose list it changes
    made,   \* history: the list with its change
    loaded, \* what the push coroutine has read
    strand, \* handlers queued on the server's strand
    index,  \* sessions_by_user_: how often it has a session under a user
    life,   \* each session: in sessions_, removed from it, destroyed
    loop,   \* the place of each session's read loop
    user,   \* user_id_, set with authenticated_
    logins, \* LOGIN lines read
    read,   \* the list a list request has read
    inbox,  \* pushes queued on each session's strand
    sent    \* history: the lines send_text_impl has taken, in order

pushVars == <<stored, pc, of, made, loaded>>
sessionVars == <<loop, user, logins, read>>
lineVars == <<inbox, sent>>
vars == <<pushVars, strand, index, life, sessionVars, lineVars>>

Steps == {"none", "changed", "failed", "spawned", "loading", "loaded", "pushed", "lost"}

Versions == 0..Cardinality(Changes)
Tasks == [task: {"index", "remove"}, session: Sessions]
            \cup [task: {"start", "walk"}, change: Changes]
Pushes == [kind: {"push"}, user: Users, list: Versions, change: Changes]
Lines == [kind: {"welcome"}, user: Users]
            \cup [kind: {"refused", "failed"}]
            \cup [kind: {"list"}, user: Users, list: Versions]
            \cup Pushes

TypeOK ==
    /\ stored \in [Users -> Versions]
    /\ pc \in [Changes -> Steps]
    /\ of \in [Changes -> Users \cup {NoUser}]
    /\ made \in [Changes -> Versions]
    /\ loaded \in [Changes -> Versions]
    /\ strand \in Seq(Tasks)
    /\ index \in [Users -> [Sessions -> 0..1]]
    /\ life \in [Sessions -> {"listed", "removed", "destroyed"}]
    /\ loop \in [Sessions -> {"read", "login", "list", "ended"}]
    /\ user \in [Sessions -> Users \cup {NoUser}]
    /\ logins \in 0..MaxLogins
    /\ read \in [Sessions -> Versions]
    /\ inbox \in [Sessions -> Seq(Pushes)]
    /\ sent \in [Sessions -> Seq(Lines)]

Init ==
    /\ stored = [u \in Users |-> 0]
    /\ pc = [c \in Changes |-> "none"]
    /\ of = [c \in Changes |-> NoUser]
    /\ made = [c \in Changes |-> 0]
    /\ loaded = [c \in Changes |-> 0]
    /\ strand = <<>>
    /\ index = [u \in Users |-> [s \in Sessions |-> 0]]
    /\ life = [s \in Sessions |-> "listed"]
    /\ loop = [s \in Sessions |-> "read"]
    /\ user = [s \in Sessions |-> NoUser]
    /\ logins = 0
    /\ read = [s \in Sessions |-> 0]
    /\ inbox = [s \in Sessions |-> <<>>]
    /\ sent = [s \in Sessions |-> <<>>]

-----------------------------------------------------------------------------
(* Lines *)

Welcome(u) == [kind |-> "welcome", user |-> u]
List(u, v) == [kind |-> "list", user |-> u, list |-> v]
Push(c) == [kind |-> "push", user |-> of[c], list |-> loaded[c], change |-> c]

Has(s, kind) == \E i \in DOMAIN sent[s] : sent[s][i].kind = kind
Welcomed(s, u) == \E i \in DOMAIN sent[s] : sent[s][i] = Welcome(u)

\* The client has been told that it is logged in, and has not asked for the
\* list since: Main.qml does so when it is loaded.
Owes(s) ==
    \E i \in DOMAIN sent[s] :
       /\ sent[s][i].kind = "welcome"
       /\ \A j \in DOMAIN sent[s] : j > i => sent[s][j].kind \notin {"list", "failed"}

\* send_text called by the session itself: send_text_impl runs at once.
Send(s, line) == sent' = [sent EXCEPT ![s] = Append(@, line)] /\ UNCHANGED inbox

-----------------------------------------------------------------------------
(* A session's read loop *)

\* handle_login up to its second query: the password is right, and the session
\* is queued for the index; or it is not.  The client may log in again, as the
\* same user or another.
Login(s, u) ==
    /\ loop[s] = "read" /\ logins < MaxLogins
    /\ logins' = logins + 1
    /\ \/ /\ user' = [user EXCEPT ![s] = u]
          /\ strand' = Append(strand, [task |-> "index", session |-> s])
          /\ loop' = [loop EXCEPT ![s] = "login"]
          /\ UNCHANGED lineVars
       \/ /\ Send(s, [kind |-> "refused"])
          /\ UNCHANGED <<user, strand, loop>>
    /\ UNCHANGED <<pushVars, index, life, read>>

\* The world's id is read and the client told; when the query throws, it is told
\* of a failure, and the session stays authenticated and indexed.
AnswerLogin(s) ==
    /\ loop[s] = "login"
    /\ loop' = [loop EXCEPT ![s] = "read"]
    /\ Send(s, Welcome(user[s])) \/ Send(s, [kind |-> "refused"])
    /\ UNCHANGED <<pushVars, strand, index, life, user, logins, read>>

\* A list request: the query has read the rows ...
ReadList(s) ==
    /\ loop[s] = "read" /\ Owes(s)
    /\ read' = [read EXCEPT ![s] = stored[user[s]]]
    /\ loop' = [loop EXCEPT ![s] = "list"]
    /\ UNCHANGED <<pushVars, strand, index, life, user, logins, lineVars>>

\* ... and the list is sent, or the query has thrown.
AnswerList(s) ==
    /\ loop[s] = "list"
    /\ loop' = [loop EXCEPT ![s] = "read"]
    /\ Send(s, List(user[s], read[s])) \/ Send(s, [kind |-> "failed"])
    /\ UNCHANGED <<pushVars, strand, index, life, user, logins, read>>

\* The client has gone; run() ends, and the removal is queued.
EndReading(s) ==
    /\ loop[s] = "read"
    /\ loop' = [loop EXCEPT ![s] = "ended"]
    /\ strand' = Append(strand, [task |-> "remove", session |-> s])
    /\ UNCHANGED <<pushVars, index, life, user, logins, read, lineVars>>

-----------------------------------------------------------------------------
(* Changes and pushes *)

\* A handler's change is committed.
Change(c, u) ==
    /\ pc[c] = "none"
    /\ stored' = [stored EXCEPT ![u] = @ + 1]
    /\ of' = [of EXCEPT ![c] = u]
    /\ made' = [made EXCEPT ![c] = stored[u] + 1]
    /\ pc' = [pc EXCEPT ![c] = "changed"]
    /\ UNCHANGED <<loaded, strand, index, life, sessionVars, lineVars>>

\* The handler calls send_..._list_to, which spawns a coroutine on the strand;
\* or a query it makes before that throws, and nothing is pushed.
Spawn(c) ==
    /\ pc[c] = "changed"
    /\ \/ /\ pc' = [pc EXCEPT ![c] = "spawned"]
          /\ strand' = Append(strand, [task |-> "start", change |-> c])
       \/ pc' = [pc EXCEPT ![c] = "failed"] /\ UNCHANGED strand
    /\ UNCHANGED <<stored, of, made, loaded, index, life, sessionVars, lineVars>>

\* The query has read the rows, and the coroutine is queued to go on; or it has
\* thrown, which the coroutine catches and ends.
Load(c) ==
    /\ pc[c] = "loading"
    /\ \/ /\ loaded' = [loaded EXCEPT ![c] = stored[of[c]]]
          /\ pc' = [pc EXCEPT ![c] = "loaded"]
          /\ strand' = Append(strand, [task |-> "walk", change |-> c])
       \/ pc' = [pc EXCEPT ![c] = "lost"] /\ UNCHANGED <<loaded, strand>>
    /\ UNCHANGED <<stored, of, made, index, life, sessionVars, lineVars>>

-----------------------------------------------------------------------------
(* The server's strand *)

Alive == {s \in Sessions : life[s] # "destroyed"}

\* The user's entries that are of this session or of none are erased.
Erase(u, s) == [t \in Sessions |-> IF t = s \/ t \notin Alive THEN 0 ELSE index[u][t]]

\* Fault: the entries there are are not looked at.
IndexAgain(s) ==
    /\ index' = [index EXCEPT ![user[s]][s] = @ + 1]
    /\ UNCHANGED <<pushVars, life, sessionVars, lineVars>>

\* index_authenticated_session, under the user the session has by now.
Index(s) ==
    /\ index' = [index EXCEPT ![user[s]] = [Erase(user[s], s) EXCEPT ![s] = 1]]
    /\ UNCHANGED <<pushVars, life, sessionVars, lineVars>>

\* Fault: all entries of the user are erased.
RemoveAll(s) ==
    /\ life' = [life EXCEPT ![s] = "removed"]
    /\ index' = IF user[s] = NoUser THEN index
                ELSE [index EXCEPT ![user[s]] = [t \in Sessions |-> 0]]
    /\ UNCHANGED <<pushVars, sessionVars, lineVars>>

\* remove_session; an entry under another user stays.
Remove(s) ==
    /\ life' = [life EXCEPT ![s] = "removed"]
    /\ index' = IF user[s] = NoUser THEN index
                ELSE [index EXCEPT ![user[s]] = Erase(user[s], s)]
    /\ UNCHANGED <<pushVars, sessionVars, lineVars>>

\* The push coroutine begins, and awaits its query.
Start(c) ==
    /\ pc' = [pc EXCEPT ![c] = "loading"]
    /\ UNCHANGED <<stored, of, made, loaded, index, life, sessionVars, lineVars>>

Entries(u) == {s \in Alive : index[u][s] > 0}

\* Fault: one session of the user is found.
WalkFirst(c) ==
    /\ pc' = [pc EXCEPT ![c] = "pushed"]
    /\ inbox' = [s \in Sessions |->
                    IF /\ s \in Entries(of[c])
                       /\ s = CHOOSE t \in Entries(of[c]) : TRUE
                    THEN Append(inbox[s], Push(c)) ELSE inbox[s]]
    /\ UNCHANGED <<stored, of, made, loaded, life, sessionVars, index, sent>>

\* for_user_sessions with send_text, once for every entry; dead entries are erased.
Walk(c) ==
    /\ pc' = [pc EXCEPT ![c] = "pushed"]
    /\ inbox' = [s \in Sessions |->
                    IF s \in Entries(of[c])
                    THEN inbox[s] \o [i \in 1..index[of[c]][s] |-> Push(c)] ELSE inbox[s]]
    /\ index' = [index EXCEPT ![of[c]] =
                   [s \in Sessions |-> IF s \in Alive THEN @[s] ELSE 0]]
    /\ UNCHANGED <<stored, of, made, loaded, life, sessionVars, sent>>

\* A push queued on the session's strand reaches send_text_impl.
Deliver(s) ==
    /\ inbox[s] # <<>>
    /\ inbox' = [inbox EXCEPT ![s] = Tail(@)]
    /\ sent' = [sent EXCEPT ![s] = Append(@, Head(inbox[s]))]
    /\ UNCHANGED <<pushVars, strand, index, life, sessionVars>>

\* The last shared_ptr goes; queued lines and the writer have kept one until now.
Destroy(s) ==
    /\ life[s] = "removed" /\ inbox[s] = <<>>
    /\ life' = [life EXCEPT ![s] = "destroyed"]
    /\ UNCHANGED <<pushVars, strand, index, sessionVars, lineVars>>

RunStrand ==
    /\ strand # <<>>
    /\ strand' = Tail(strand)
    /\ LET t == Head(strand) IN
          CASE t.task = "index" -> Index(t.session)
            [] t.task = "remove" -> Remove(t.session)
            [] t.task = "start" -> Start(t.change)
            [] t.task = "walk" -> Walk(t.change)

-----------------------------------------------------------------------------
Answer(s) == AnswerLogin(s) \/ ReadList(s) \/ AnswerList(s)

Next ==
    \/ \E s \in Sessions : (\E u \in Users : Login(s, u)) \/ Answer(s) \/ EndReading(s) \/ Deliver(s) \/ Destroy(s)
    \/ \E c \in Changes : (\E u \in Users : Change(c, u)) \/ Spawn(c) \/ Load(c)
    \/ RunStrand

Spec == Init /\ [][Next]_vars

\* The strands run, queries return or throw, handlers go on, and the client asks
\* once it is told; nobody need log in, leave or change anything.
FairSpec ==
    /\ Spec
    /\ WF_vars(RunStrand)
    /\ \A s \in Sessions : WF_vars(Answer(s)) /\ WF_vars(Deliver(s))
    /\ \A c \in Changes : WF_vars(Spawn(c)) /\ WF_vars(Load(c))

-----------------------------------------------------------------------------
(* Properties *)

Ended(s) == loop[s] = "ended"
Queued(task, s) == \E i \in DOMAIN strand : strand[i] = [task |-> task, session |-> s]

\* A session that is logged in is in the index under its user, or about to be:
\* neither a second LOGIN nor the end of another session of the user loses it.
Indexed ==
    \A s \in Sessions :
       user[s] # NoUser /\ ~Ended(s) => index[user[s]][s] = 1 \/ Queued("index", s)

\* A push reaches a session once at most, however often it has logged in.
PushedOnce ==
    \A s \in Sessions : \A i, j \in DOMAIN sent[s] :
       /\ sent[s][i].kind = "push" /\ sent[s][j].kind = "push"
       /\ sent[s][i].change = sent[s][j].change
       => i = j

Sees(s, c) ==
    \E i \in DOMAIN sent[s] :
       /\ sent[s][i].kind \in {"list", "push"}
       /\ sent[s][i].user = of[c] /\ sent[s][i].list >= made[c]

\* A client that has logged in is sent every change, whether it came before its
\* first request, after it, or while the login was under way; unless a query
\* fails, the session ends or goes over to another user.
ChangeReaches ==
    \A c \in Changes, s \in Sessions :
       pc[c] # "none" /\ user[s] = of[c] /\ Welcomed(s, user[s])
       ~> \/ Sees(s, c)
          \/ pc[c] \in {"failed", "lost"} \/ Has(s, "failed")
          \/ Ended(s) \/ user[s] # of[c]
=============================================================================
