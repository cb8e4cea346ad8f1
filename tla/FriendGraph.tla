---------------------------- MODULE FriendGraph ----------------------------
(***************************************************************************)
(* Friend requests, friendships and the single conversations of friends:   *)
(* the friend handlers of src/src/server/session/friend.cpp, the opening   *)
(* of a single conversation, the friend check of handle_send_msg, and the  *)
(* queries behind them in src/src/database/friend.cpp and conversation.cpp.*)
(*                                                                         *)
(* A handler runs one query per step, handlers of any sessions in between. *)
(* What a transaction writes is seen by the others from its COMMIT on, so  *)
(* its writes are one step; a row it has locked is held from the step that *)
(* locks it.  A plain SELECT neither takes a lock nor waits for one.       *)
(***************************************************************************)
CONSTANTS
    Users,
    Handlers,  \* requests of clients in flight at a time
    Requests,  \* ids of friend_requests rows
    Convs,     \* ids of SINGLE conversations
    None       \* an id a frame does not hold, and the holder of a free row

ASSUME FriendConstants == None \notin Users \cup Handlers \cup Requests \cup Convs

VARIABLES
    friends,   \* friends: pairs <<user_id, friend_user_id>>
    requests,  \* friend_requests
    rowLock,   \* the handler whose transaction has locked a request's row
    single,    \* single_conversations, by the set of the two users
    members,   \* conversation_members of each conversation
    pairOf,    \* history: the two users a conversation was made for, {} before
    frame,     \* the locals of each handler; found is what a SELECT told it: that a
               \* request is pending, that there is a SINGLE conversation of the id
    since      \* history: the pairs that have been friends since a handler began

vars == <<friends, requests, rowLock, single, members, pairOf, frame, since>>
convVars == <<single, members, pairOf>>

Pairs == {p \in SUBSET Users : \E u, v \in p : u # v /\ p = {u, v}}

Ops == {"add", "accept", "reject", "delete", "open", "send"}
Steps == {"idle", "readType", "snapshot", "checkFriend", "insert", "lock", "commit", "readRequest",
          "writeReject", "deleteRows", "findSingle", "removeMember", "readSingle", "create",
          "findPeer", "append"}

NoRequest == [from |-> None, to |-> None, status |-> "none"]
Statuses == {"none", "PENDING", "ACCEPTED", "REJECTED"}

Frames == [op: Ops \cup {"none"}, user: Users \cup {None}, peer: Users \cup {None},
           request: Requests \cup {None}, conv: Convs \cup {None}, step: Steps,
           found: BOOLEAN]
IdleFrame == [op |-> "none", user |-> None, peer |-> None, request |-> None,
              conv |-> None, step |-> "idle", found |-> FALSE]

TypeOK ==
    /\ friends \subseteq Users \X Users
    /\ requests \in [Requests -> [from: Users \cup {None}, to: Users \cup {None}, status: Statuses]]
    /\ rowLock \in [Requests -> Handlers \cup {None}]
    /\ single \in [Pairs -> Convs \cup {None}]
    /\ members \in [Convs -> SUBSET Users]
    /\ pairOf \in [Convs -> Pairs \cup {{}}]
    /\ frame \in [Handlers -> Frames]
    /\ since \in [Handlers -> SUBSET Pairs]

Init ==
    /\ friends = {}
    /\ requests = [r \in Requests |-> NoRequest]
    /\ rowLock = [r \in Requests |-> None]
    /\ single = [p \in Pairs |-> None]
    /\ members = [c \in Convs |-> {}]
    /\ pairOf = [c \in Convs |-> {}]
    /\ frame = [h \in Handlers |-> IdleFrame]
    /\ since = [h \in Handlers |-> {}]

-----------------------------------------------------------------------------
Us(h) == {frame[h].user, frame[h].peer}
Friends(u, v) == <<u, v>> \in friends
FriendPairs(f) == {p \in Pairs : \E u, v \in p : <<u, v>> \in f}

At(h, step) == frame[h].step = step
GoTo(h, step) == frame' = [frame EXCEPT ![h].step = step] /\ UNCHANGED since

\* The handler answers and ends; its connection, and with it any transaction
\* not committed, is gone.
Return(h) ==
    /\ frame' = [frame EXCEPT ![h] = IdleFrame]
    /\ since' = [since EXCEPT ![h] = {}]
    /\ rowLock' = [r \in Requests |-> IF rowLock[r] = h THEN None ELSE rowLock[r]]

Begin(h, f) ==
    /\ At(h, "idle")
    /\ frame' = [frame EXCEPT ![h] = f]
    /\ since' = [since EXCEPT ![h] = FriendPairs(friends)]
    /\ UNCHANGED <<friends, requests, rowLock, convVars>>

\* Fault: one may ask oneself.
BeginWithPeerOrSelf(h, u, v) ==
    \E first \in {[op |-> "add", step |-> "snapshot"], [op |-> "delete", step |-> "deleteRows"],
                  [op |-> "open", step |-> "checkFriend"]} :
       /\ u # v \/ first.op = "add"
       /\ Begin(h, [IdleFrame EXCEPT !.op = first.op, !.step = first.step, !.user = u, !.peer = v])

\* Requests that name a peer.
BeginWithPeer(h, u, v) ==
    /\ u # v
    /\ \E first \in {[op |-> "add", step |-> "snapshot"], [op |-> "delete", step |-> "deleteRows"],
                     [op |-> "open", step |-> "checkFriend"]} :
          Begin(h, [IdleFrame EXCEPT !.op = first.op, !.step = first.step, !.user = u, !.peer = v])

\* Requests that name a friend request the client knows of.
BeginWithRequest(h, u, r) ==
    /\ requests[r].status # "none"
    /\ \E first \in {[op |-> "accept", step |-> "lock"], [op |-> "reject", step |-> "readRequest"]} :
          Begin(h, [IdleFrame EXCEPT !.op = first.op, !.step = first.step, !.user = u, !.request = r])

\* A client may name any conversation, made for its user or for others, or not made yet.
BeginSend(h, u, c) ==
    Begin(h, [IdleFrame EXCEPT !.op = "send", !.step = "readType", !.user = u, !.conv = c])

-----------------------------------------------------------------------------
(* FRIEND_ADD *)

\* The transaction's first SELECT fixes what its later ones see: whether a
\* request is pending, in either direction, is read as of now.
Snapshot(h) ==
    /\ At(h, "snapshot")
    /\ frame' = [frame EXCEPT
          ![h].found = \E r \in Requests : requests[r].status = "PENDING"
                                             /\ {requests[r].from, requests[r].to} = Us(h),
          ![h].step = "checkFriend"]
    /\ UNCHANGED <<friends, requests, rowLock, convVars, since>>

\* Fault: a pending request opens a conversation.
CheckFriendOrAsked(h) ==
    /\ At(h, "checkFriend")
    /\ LET ok == Friends(frame[h].user, frame[h].peer)
           asked == \E r \in Requests : requests[r].status = "PENDING"
                                        /\ {requests[r].from, requests[r].to} = Us(h)
       IN  \/ frame[h].op = "add" /\ ~ok /\ GoTo(h, "insert") /\ UNCHANGED rowLock
           \/ frame[h].op = "open" /\ (ok \/ asked) /\ GoTo(h, "readSingle") /\ UNCHANGED rowLock
           \/ frame[h].op = "send" /\ ok /\ GoTo(h, "append") /\ UNCHANGED rowLock
           \/ ok = (frame[h].op = "add") /\ Return(h)
    /\ UNCHANGED <<friends, requests, convVars>>

\* is_friend, on a connection of its own: a friend is not asked again, and only
\* with a friend is a conversation opened or a message exchanged.
CheckFriend(h) ==
    /\ At(h, "checkFriend")
    /\ LET ok == Friends(frame[h].user, frame[h].peer)
       IN  \/ frame[h].op = "add" /\ ~ok /\ GoTo(h, "insert") /\ UNCHANGED rowLock
           \/ frame[h].op = "open" /\ ok /\ GoTo(h, "readSingle") /\ UNCHANGED rowLock
           \/ frame[h].op = "send" /\ ok /\ GoTo(h, "append") /\ UNCHANGED rowLock
           \/ ok = (frame[h].op = "add") /\ Return(h)
    /\ UNCHANGED <<friends, requests, convVars>>

\* The check of the snapshot, the INSERT and the COMMIT.
Insert(h) ==
    /\ At(h, "insert")
    /\ \/ frame[h].found /\ UNCHANGED requests
       \/ /\ ~frame[h].found
          /\ \E r \in Requests :
                /\ requests[r] = NoRequest
                /\ requests' = [requests EXCEPT ![r] =
                      [from |-> frame[h].user, to |-> frame[h].peer, status |-> "PENDING"]]
    /\ Return(h)
    /\ UNCHANGED <<friends, convVars>>

-----------------------------------------------------------------------------
(* FRIEND_ACCEPT, FRIEND_REJECT, FRIEND_DELETE *)

\* Fault: the one who asked may accept, too.
MayDecideEither(h, r) ==
    frame[h].user \in {requests[r].from, requests[r].to} /\ requests[r].status = "PENDING"

\* The checks of accept and reject: the request is the user's and undecided.
MayDecide(h, r) == frame[h].user = requests[r].to /\ requests[r].status = "PENDING"

\* Fault: SELECT without FOR UPDATE.
LockRequestPlain(h) ==
    /\ At(h, "lock")
    /\ LET r == frame[h].request IN
       \/ MayDecide(h, r) /\ GoTo(h, "commit") /\ UNCHANGED rowLock
       \/ ~MayDecide(h, r) /\ Return(h)
    /\ UNCHANGED <<friends, requests, convVars>>

\* SELECT ... FOR UPDATE waits for the row and reads what is committed.
LockRequest(h) ==
    /\ At(h, "lock")
    /\ LET r == frame[h].request IN
       /\ rowLock[r] = None
       /\ \/ MayDecide(h, r) /\ GoTo(h, "commit") /\ rowLock' = [rowLock EXCEPT ![r] = h]
          \/ ~MayDecide(h, r) /\ Return(h)
    /\ UNCHANGED <<friends, requests, convVars>>

\* INSERT IGNORE of both directions, the UPDATE of the request, the COMMIT.
Commit(h) ==
    /\ At(h, "commit")
    /\ LET r == frame[h].request
           u == requests[r].from
           v == requests[r].to
       IN  /\ friends' = friends \cup {<<u, v>>, <<v, u>>}
           /\ requests' = [requests EXCEPT ![r].status = "ACCEPTED"]
           /\ rowLock' = [rowLock EXCEPT ![r] = None]
           /\ frame' = [frame EXCEPT ![h].user = u, ![h].peer = v, ![h].step = "readSingle"]
           /\ since' = [g \in Handlers |->
                          IF At(g, "idle") THEN {} ELSE since[g] \cup {{u, v}}]
    /\ UNCHANGED convVars

\* reject_friend_request reads the row without a lock ...
ReadRequest(h) ==
    /\ At(h, "readRequest")
    /\ \/ MayDecide(h, frame[h].request) /\ GoTo(h, "writeReject") /\ UNCHANGED rowLock
       \/ ~MayDecide(h, frame[h].request) /\ Return(h)
    /\ UNCHANGED <<friends, requests, convVars>>

\* ... and updates it by id, whatever its status is by then.
WriteReject(h) ==
    /\ At(h, "writeReject")
    /\ rowLock[frame[h].request] = None
    /\ requests' = [requests EXCEPT ![frame[h].request].status = "REJECTED"]
    /\ Return(h)
    /\ UNCHANGED <<friends, convVars>>

\* Fault: only the deleter's row goes.
RowsBetweenOneWay(u, v) == {<<u, v>>}

\* The rows delete_friend deletes, in one statement.
RowsBetween(u, v) == {<<u, v>>, <<v, u>>}

DeleteRows(h) ==
    /\ At(h, "deleteRows")
    /\ friends' = friends \ RowsBetween(frame[h].user, frame[h].peer)
    /\ GoTo(h, "findSingle")
    /\ UNCHANGED <<requests, rowLock, convVars>>

\* find_single_conversation
FindSingle(h) ==
    /\ At(h, "findSingle")
    /\ LET c == single[Us(h)] IN
       \/ c = None /\ Return(h)
       \/ /\ c # None
          /\ frame' = [frame EXCEPT ![h].conv = c, ![h].step = "removeMember"]
          /\ UNCHANGED <<rowLock, since>>
    /\ UNCHANGED <<friends, requests, convVars>>

\* remove_conversation_member takes out the deleter alone.
RemoveMember(h) ==
    /\ At(h, "removeMember")
    /\ members' = [members EXCEPT ![frame[h].conv] = @ \ {frame[h].user}]
    /\ Return(h)
    /\ UNCHANGED <<friends, requests, single, pairOf>>

-----------------------------------------------------------------------------
(* get_or_create_single_conversation, and the peer of a send *)

ReadSingle(h) ==
    /\ At(h, "readSingle")
    /\ \/ single[Us(h)] # None /\ Return(h)
       \/ single[Us(h)] = None /\ GoTo(h, "create") /\ UNCHANGED rowLock
    /\ UNCHANGED <<friends, requests, convVars>>

\* The conversation, its two members and the pair's row, which an existing row
\* does not refuse: ON DUPLICATE KEY UPDATE points it to the new conversation.
Create(h) ==
    /\ At(h, "create")
    /\ \E c \in Convs :
          /\ pairOf[c] = {}
          /\ pairOf' = [pairOf EXCEPT ![c] = Us(h)]
          /\ members' = [members EXCEPT ![c] = Us(h)]
          /\ single' = [single EXCEPT ![Us(h)] = c]
    /\ Return(h)
    /\ UNCHANGED <<friends, requests>>

\* get_conversation_type: friendship is asked about in a SINGLE conversation alone,
\* and the answer is empty for an id not made yet.
ReadType(h) ==
    /\ At(h, "readType")
    /\ LET made == pairOf[frame[h].conv] # {} IN
       frame' = [frame EXCEPT ![h].found = made,
                              ![h].step = IF made THEN "findPeer" ELSE "append"]
    /\ UNCHANGED <<friends, requests, rowLock, convVars, since>>

\* Fault: the check is left out once a member is missing.
FindPeerIfComplete(h) ==
    /\ At(h, "findPeer")
    /\ LET c == frame[h].conv IN
       \/ members[c] # pairOf[c] /\ GoTo(h, "append")
       \/ /\ members[c] = pairOf[c]
          /\ \E v \in members[c] \ {frame[h].user} :
                frame' = [frame EXCEPT ![h].peer = v, ![h].step = "checkFriend"]
          /\ UNCHANGED since
    /\ UNCHANGED <<friends, requests, rowLock, convVars>>

\* get_single_peer_user_id: some member other than the sender, who need not be one;
\* without one the friend check is left out.
FindPeer(h) ==
    /\ At(h, "findPeer")
    /\ LET others == members[frame[h].conv] \ {frame[h].user} IN
       \/ others = {} /\ GoTo(h, "append")
       \/ /\ \E v \in others : frame' = [frame EXCEPT ![h].peer = v, ![h].step = "checkFriend"]
          /\ UNCHANGED since
    /\ UNCHANGED <<friends, requests, rowLock, convVars>>

\* The message is stored, or refused by the foreign key; MessageFlow has the rest.
AppendMessage(h) ==
    /\ At(h, "append")
    /\ Return(h)
    /\ UNCHANGED <<friends, requests, convVars>>

\* A statement throws, and the handler answers with an error; accept swallows
\* it once its transaction is committed.
Fail(h) ==
    /\ ~At(h, "idle")
    /\ Return(h)
    /\ UNCHANGED <<friends, requests, convVars>>

-----------------------------------------------------------------------------
Request(h) ==
    \/ \E u, v \in Users : BeginWithPeer(h, u, v)
    \/ \E u \in Users, r \in Requests : BeginWithRequest(h, u, r)
    \/ \E u \in Users, c \in Convs : BeginSend(h, u, c)

Handle(h) ==
    \/ Snapshot(h) \/ CheckFriend(h) \/ Insert(h)
    \/ LockRequest(h) \/ Commit(h) \/ ReadRequest(h) \/ WriteReject(h)
    \/ DeleteRows(h) \/ FindSingle(h) \/ RemoveMember(h)
    \/ ReadSingle(h) \/ Create(h) \/ ReadType(h) \/ FindPeer(h) \/ AppendMessage(h)
    \/ Fail(h)

Next == \E h \in Handlers : Request(h) \/ Handle(h)

Spec == Init /\ [][Next]_vars

-----------------------------------------------------------------------------
(* Properties *)

\* Friendship is mutual at every moment another session can look: accept and
\* delete, whatever they meet, change both directions or none.
FriendshipMutual == \A u, v \in Users : Friends(u, v) <=> Friends(v, u)

\* Two users become friends only when the one who was asked accepts a request
\* that is pending then; a decided request is not accepted again after a delete.
FriendsByAcceptance ==
    [][\A u, v \in Users : Friends(u, v)' /\ ~Friends(u, v) =>
          \E r \in Requests, h \in Handlers :
             /\ {requests[r].from, requests[r].to} = {u, v}
             /\ requests[r].status = "PENDING" /\ requests'[r].status = "ACCEPTED"
             /\ At(h, "commit") /\ frame[h].request = r /\ frame[h].user = requests[r].to]_vars

\* A rejected request stays rejected, and no accept that is under way revives
\* it.  (The other way round, a reject may overwrite an acceptance.)
RejectionFinal ==
    [][\A r \in Requests :
          /\ requests[r].status = "REJECTED" => requests'[r] = requests[r]
          /\ requests[r].status = "ACCEPTED" => requests'[r].status # "PENDING"]_vars

\* A conversation is opened only for users who have been friends at some moment
\* of the request that opens it.
OpenedByFriends ==
    \A h \in Handlers : At(h, "readSingle") \/ At(h, "create") => Us(h) \in since[h]

\* A message goes into a single conversation only if its sender has been a friend, at
\* some moment of the send, of another of the two it was made for: of the peer, when
\* the sender is one of them.  Or nobody else is left in it; or there was no such
\* conversation when its type was read.
SendsBetweenFriends ==
    \A h \in Handlers : At(h, "append") /\ frame[h].found =>
        LET u == frame[h].user
            c == frame[h].conv
        IN  (\E v \in pairOf[c] \ {u} : {u, v} \in since[h]) \/ members[c] \subseteq {u}

\* A check of friendship made awaits ago is no older than the request it is for.
ActsBetweenFriends == OpenedByFriends /\ SendsBetweenFriends

\* conversation.cpp:206 says the unique key of single_conversations keeps a
\* pair from having two conversations.
OneConversationPerPair ==
    \A c, d \in Convs : pairOf[c] = pairOf[d] /\ pairOf[c] # {} => c = d
=============================================================================
