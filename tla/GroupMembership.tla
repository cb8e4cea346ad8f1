-------------------------- MODULE GroupMembership --------------------------
(***************************************************************************)
(* One group conversation: its rows in `conversations`,                    *)
(* `conversation_members` and `group_join_requests`, and the request       *)
(* handlers of src/src/server/session/{conversation,group}.cpp that read   *)
(* and write them.                                                         *)
(*                                                                         *)
(* A handler is a coroutine that runs one request.  Every co_await of a    *)
(* database call is a point where other handlers run, so a handler is a    *)
(* sequence of steps, one per statement (or per transaction, where the     *)
(* code opens one and its effect appears at COMMIT).  The checks of a      *)
(* handler and the write they justify are different steps.                 *)
(*                                                                         *)
(* Handlers of different conversations touch different rows, so one group  *)
(* stands for all.  The default world conversation is not one of them: it  *)
(* has no owner and handle_leave_conv_req refuses it.                      *)
(***************************************************************************)
EXTENDS Naturals, FiniteSets

CONSTANTS
    Users,      \* user ids
    Handlers,   \* sessions; each runs at most one of these requests at a time
    Requests,   \* ids of rows in group_join_requests
    NoUser,     \* no user: owner_user_id before the group exists
    NoRequest,  \* no join request
    NoHandler   \* the holder of a row lock nobody holds

ASSUME GroupConstants ==
    /\ NoUser \notin Users
    /\ NoRequest \notin Requests
    /\ NoHandler \notin Handlers

Roles == {"OWNER", "ADMIN", "MEMBER"}
NoRow == "NONE"                       \* no row in conversation_members
Managers == {"OWNER", "ADMIN"}
Statuses == {"FREE", "PENDING", "ACCEPTED", "REJECTED", "GONE"}

RoleOps == {"promote", "demote"}      \* SET_ADMIN_REQ, isAdmin true and false
MuteOps == {"mute", "unmute"}
TargetOps == RoleOps \cup MuteOps
JoinOps == {"accept", "reject"}       \* GROUP_JOIN_ACCEPT_REQ, accept true and false
SelfOps == {"rename", "leave", "join"}
Ops == TargetOps \cup JoinOps \cup SelfOps \cup {"create", "none"}

\* The await a handler is suspended at.  "invalidate" is the code it runs when
\* its write has returned, up to its next await.
Steps == {"idle", "self", "target", "write", "load", "announceLeave", "remove",
          "announceDissolve", "dissolve", "joinCheck", "joinInsert",
          "lock", "role", "decide", "invalidate", "append"}

VARIABLES
    conv,         \* the conversations row: "none", "live" or "gone"
    owner,        \* its owner_user_id column
    role,         \* role column of each user's member row, NoRow without one
    muted,        \* users whose row has muted_until_ms # 0
    leaveNotices, \* users with a stored "left the group" system message
    joinReq,      \* group_join_requests: who asked, and the status
    reqLock,      \* the handler whose transaction holds a join request FOR UPDATE
    pc,           \* the step each handler is at
    frame         \* its request, and what it has read so far

rows == <<conv, owner, role, muted, leaveNotices, joinReq>>
vars == <<rows, reqLock, pc, frame>>

\* What a coroutine keeps: the request (op, user, target, id), the role of the
\* requester and the status of the join request as it read them.
Frames == [op: Ops, user: Users \cup {NoUser}, target: Users \cup {NoUser},
           id: Requests \cup {NoRequest},
           seenRole: Roles \cup {NoRow}, seenStatus: Statuses]

NewFrame(op, user, target, id) ==
    [op |-> op, user |-> user, target |-> target, id |-> id,
     seenRole |-> NoRow, seenStatus |-> "FREE"]

IdleFrame == NewFrame("none", NoUser, NoUser, NoRequest)

Members == {u \in Users : role[u] # NoRow}

TypeOK ==
    /\ conv \in {"none", "live", "gone"}
    /\ owner \in Users \cup {NoUser}
    /\ role \in [Users -> Roles \cup {NoRow}]
    /\ muted \subseteq Users
    /\ leaveNotices \subseteq Users
    /\ joinReq \in [Requests -> [from: Users \cup {NoUser}, status: Statuses]]
    /\ reqLock \in [Requests -> Handlers \cup {NoHandler}]
    /\ pc \in [Handlers -> Steps]
    /\ frame \in [Handlers -> Frames]

Init ==
    /\ conv = "none"
    /\ owner = NoUser
    /\ role = [u \in Users |-> NoRow]
    /\ muted = {}
    /\ leaveNotices = {}
    /\ joinReq = [r \in Requests |-> [from |-> NoUser, status |-> "FREE"]]
    /\ reqLock = [r \in Requests |-> NoHandler]
    /\ pc = [h \in Handlers |-> "idle"]
    /\ frame = [h \in Handlers |-> IdleFrame]

-----------------------------------------------------------------------------
(* Moving between awaits *)

GoTo(h, step) ==
    /\ pc' = [pc EXCEPT ![h] = step]
    /\ UNCHANGED frame

\* The handler returns its response; its frame is destroyed.
Return(h) ==
    /\ pc' = [pc EXCEPT ![h] = "idle"]
    /\ frame' = [frame EXCEPT ![h] = IdleFrame]

\* The write is done: only the text of the notice, not modelled, is left in use.
GoToAppend(h) ==
    /\ pc' = [pc EXCEPT ![h] = "append"]
    /\ frame' = [frame EXCEPT ![h] = IdleFrame]

\* COMMIT, ROLLBACK, or the destruction of the connection: row locks are freed.
Unlock(h) == reqLock' = [r \in Requests |-> IF reqLock[r] = h THEN NoHandler ELSE reqLock[r]]

-----------------------------------------------------------------------------
(* Requests *)

\* CREATE_GROUP_REQ: create_group_conversation inserts the conversation, the
\* OWNER row and the MEMBER rows in one transaction.  Its list of members is
\* deduplicated, loses the creator, and must still hold two users.
CreateGroup(h) ==
    /\ pc[h] = "idle"
    /\ conv = "none"
    /\ \E u \in Users, others \in SUBSET Users :
          /\ u \notin others
          /\ \E a, b \in others : a # b
          /\ owner' = u
          /\ role' = [v \in Users |-> IF v = u THEN "OWNER"
                                      ELSE IF v \in others THEN "MEMBER" ELSE NoRow]
          /\ frame' = [frame EXCEPT ![h] = NewFrame("create", NoUser, NoUser, NoRequest)]
    /\ conv' = "live"
    /\ pc' = [pc EXCEPT ![h] = "invalidate"]
    /\ UNCHANGED <<muted, leaveNotices, joinReq, reqLock>>

FirstStep(op) ==
    CASE op = "join" -> "joinCheck"
      [] op \in JoinOps -> "lock"
      [] OTHER -> "self"

\* Bound: join requests are asked while ids of Requests are left for them.
RequestIdsLeft ==
    Cardinality({g \in Handlers : frame[g].op = "join"}) <
        Cardinality({r \in Requests : joinReq[r].status = "FREE"})

\* A session takes the next request off its socket, for the user logged in on
\* it.  The conversation id is one it was told, so the group has been created.
Begin(h) ==
    /\ pc[h] = "idle"
    /\ conv # "none"
    /\ \E op \in Ops \ {"create", "none"}, u \in Users,
          t \in Users \cup {NoUser}, r \in Requests \cup {NoRequest} :
          /\ t \in Users <=> op \in TargetOps
          /\ r \in Requests <=> op \in JoinOps
          /\ op = "join" => RequestIdsLeft
          /\ frame' = [frame EXCEPT ![h] = NewFrame(op, u, t, r)]
          /\ pc' = [pc EXCEPT ![h] = FirstStep(op)]
    /\ UNCHANGED <<rows, reqLock>>

\* Fault: admins may set roles as well.
AllowedToManagers(op) == IF op = "leave" THEN Roles ELSE Managers

\* Roles allowed to go on: handle_set_admin_req wants the owner, mute, unmute
\* and rename an owner or admin, leave any member.
Allowed(op) ==
    CASE op \in RoleOps -> {"OWNER"}
      [] op = "leave" -> Roles
      [] OTHER -> Managers

\* get_conversation_member(conv_id, user_id_): the requester's own row.
CheckSelf(h) ==
    LET f == frame[h]
        next == CASE f.op = "rename" -> "write"
                  [] f.op = "leave" -> "load"
                  [] OTHER -> "target"
    IN
    /\ pc[h] = "self"
    /\ \/ /\ role[f.user] \in Allowed(f.op)
          /\ pc' = [pc EXCEPT ![h] = next]
          /\ frame' = [frame EXCEPT ![h].seenRole = role[f.user]]
       \/ /\ role[f.user] \notin Allowed(f.op)
          /\ Return(h)
    /\ UNCHANGED <<rows, reqLock>>

\* Fault: no check that the target is not the owner.
TargetAllowsOwner(f, r) ==
    /\ r # NoRow
    /\ f.op \in MuteOps => ~(f.seenRole = "ADMIN" /\ r = "ADMIN")
    /\ f.op = "promote" => r # "ADMIN"
    /\ f.op = "demote" => r # "MEMBER"

\* Whether the target's row lets the operation go on: it exists, the owner can
\* only be unmuted, admins do not mute or unmute admins, and setting the role
\* a member already has succeeds at once.
TargetAllows(f, r) ==
    /\ r # NoRow
    /\ r = "OWNER" => f.op = "unmute"
    /\ f.op \in MuteOps => ~(f.seenRole = "ADMIN" /\ r = "ADMIN")
    /\ f.op = "promote" => r # "ADMIN"
    /\ f.op = "demote" => r # "MEMBER"

\* get_conversation_member(conv_id, target_id)
CheckTarget(h) ==
    /\ pc[h] = "target"
    /\ \/ TargetAllows(frame[h], role[frame[h].target]) /\ GoTo(h, "write")
       \/ ~TargetAllows(frame[h], role[frame[h].target]) /\ Return(h)
    /\ UNCHANGED <<rows, reqLock>>

\* Fault: a role name the column does not know.
NewRoleMisspelt(op) == IF op = "promote" THEN "ADMIN" ELSE "USER"

\* The role handle_set_admin_req writes.
NewRole(op) == IF op = "promote" THEN "ADMIN" ELSE "MEMBER"

\* Fault: an upsert instead of an UPDATE.
RowCreated(f) == f.op \in TargetOps

\* An UPDATE changes nothing when the target's row is gone.
RowMatches(f) == f.op \in TargetOps /\ f.target \in Members

\* set_member_role, set_member_mute_until.  A rename updates conversations.name
\* and invalidates no member list.
Write(h) ==
    LET f == frame[h] IN
    /\ pc[h] = "write"
    /\ role' = IF RowMatches(f) /\ f.op \in RoleOps
               THEN [role EXCEPT ![f.target] = NewRole(f.op)] ELSE role
    /\ muted' = CASE RowMatches(f) /\ f.op = "mute" -> muted \cup {f.target}
                  [] RowMatches(f) /\ f.op = "unmute" -> muted \ {f.target}
                  [] OTHER -> muted
    /\ IF f.op = "rename" THEN GoToAppend(h) ELSE GoTo(h, "invalidate")
    /\ UNCHANGED <<conv, owner, leaveNotices, joinReq, reqLock>>

\* invalidate_member_list_cache (the cache is in MemberCache); then the system
\* message, which a dissolved group and a rejected applicant do not get.
Invalidate(h) ==
    /\ pc[h] = "invalidate"
    /\ IF frame[h].op \in {"leave", "reject"} THEN Return(h) ELSE GoToAppend(h)
    /\ UNCHANGED <<rows, reqLock>>

\* append_text_message of the system message, then the broadcasts and the
\* response.  The foreign key makes it throw once the group is dissolved; the
\* request has had its effect either way, only the response differs.
AppendNotice(h) ==
    /\ pc[h] = "append"
    /\ Return(h)
    /\ UNCHANGED <<rows, reqLock>>

-----------------------------------------------------------------------------
(* LEAVE_CONV_REQ *)

\* Fault: the owner leaves like anyone else.
DissolvesWhenSmall(f) == Cardinality(Members) <= 2

\* The owner, or anyone when at most two members are left, dissolves the group.
Dissolves(f) == f.seenRole = "OWNER" \/ Cardinality(Members) <= 2

\* Fault: the row is removed before the notice is stored.
LoadMembersThenRemove(h) ==
    /\ pc[h] = "load"
    /\ GoTo(h, IF Dissolves(frame[h]) THEN "announceDissolve" ELSE "remove")
    /\ UNCHANGED <<rows, reqLock>>

\* load_conversation_members decides between the two.
LoadMembers(h) ==
    /\ pc[h] = "load"
    /\ GoTo(h, IF Dissolves(frame[h]) THEN "announceDissolve" ELSE "announceLeave")
    /\ UNCHANGED <<rows, reqLock>>

\* The system message comes before the removal.  On a group dissolved since,
\* the append throws and the request ends with SERVER_ERROR.
AnnounceLeave(h) ==
    /\ pc[h] = "announceLeave"
    /\ \/ /\ conv = "live"
          /\ leaveNotices' = leaveNotices \cup {frame[h].user}
          /\ GoTo(h, "remove")
       \/ /\ conv = "gone"
          /\ UNCHANGED leaveNotices
          /\ Return(h)
    /\ UNCHANGED <<conv, owner, role, muted, joinReq, reqLock>>

AnnounceDissolve(h) ==
    /\ pc[h] = "announceDissolve"
    /\ IF conv = "live" THEN GoTo(h, "dissolve") ELSE Return(h)
    /\ UNCHANGED <<rows, reqLock>>

\* remove_conversation_member; no member list is invalidated.
Remove(h) ==
    /\ pc[h] = "remove"
    /\ role' = [role EXCEPT ![frame[h].user] = NoRow]
    /\ muted' = muted \ {frame[h].user}
    /\ Return(h)
    /\ UNCHANGED <<conv, owner, leaveNotices, joinReq, reqLock>>

\* dissolve_conversation: one transaction deletes the messages, the member rows
\* and the conversation; the foreign key deletes the join requests, so COMMIT
\* waits for the transaction that holds one of them.
Dissolve(h) ==
    /\ pc[h] = "dissolve"
    /\ \A r \in Requests : reqLock[r] = NoHandler
    /\ conv' = "gone"
    /\ role' = [u \in Users |-> NoRow]
    /\ muted' = {}
    /\ leaveNotices' = {}
    /\ joinReq' = [r \in Requests |->
                     [joinReq[r] EXCEPT !.status = IF @ = "FREE" THEN @ ELSE "GONE"]]
    /\ GoTo(h, "invalidate")
    /\ UNCHANGED <<owner, reqLock>>

-----------------------------------------------------------------------------
(* GROUP_JOIN_REQ and GROUP_JOIN_ACCEPT_REQ *)

\* create_group_join_request: the three SELECTs read one snapshot.
JoinCheck(h) ==
    LET u == frame[h].user
        pending == \E r \in Requests : joinReq[r] = [from |-> u, status |-> "PENDING"]
    IN
    /\ pc[h] = "joinCheck"
    /\ IF conv = "live" /\ u \notin Members /\ ~pending
       THEN GoTo(h, "joinInsert") ELSE Return(h)
    /\ UNCHANGED <<rows, reqLock>>

\* INSERT and COMMIT; the foreign key refuses it once the group is gone.
JoinInsert(h) ==
    /\ pc[h] = "joinInsert"
    /\ \/ /\ conv = "live"
          /\ \E r \in Requests :
                /\ joinReq[r].status = "FREE"
                /\ joinReq' = [joinReq EXCEPT ![r] =
                                 [from |-> frame[h].user, status |-> "PENDING"]]
       \/ /\ conv = "gone"
          /\ UNCHANGED joinReq
    /\ Return(h)
    /\ UNCHANGED <<conv, owner, role, muted, leaveNotices, reqLock>>

\* Fault: a plain SELECT, as in reject_friend_request.
LockRequestPlain(h) ==
    /\ pc[h] = "lock"
    /\ \/ joinReq[frame[h].id].status \in {"FREE", "GONE"} /\ Return(h)
       \/ /\ joinReq[frame[h].id].status \notin {"FREE", "GONE"}
          /\ frame' = [frame EXCEPT ![h].seenStatus = joinReq[frame[h].id].status]
          /\ pc' = [pc EXCEPT ![h] = "role"]
    /\ UNCHANGED <<rows, reqLock>>

\* SELECT ... FOR UPDATE waits for the row's lock.  A row that does not exist
\* is NOT_FOUND, and nothing is locked.
LockRequest(h) ==
    LET r == frame[h].id IN
    /\ pc[h] = "lock"
    /\ reqLock[r] = NoHandler
    /\ \/ /\ joinReq[r].status \in {"FREE", "GONE"}
          /\ Return(h)
          /\ UNCHANGED reqLock
       \/ /\ joinReq[r].status \notin {"FREE", "GONE"}
          /\ reqLock' = [reqLock EXCEPT ![r] = h]
          /\ frame' = [frame EXCEPT ![h].seenStatus = joinReq[r].status]
          /\ pc' = [pc EXCEPT ![h] = "role"]
    /\ UNCHANGED rows

\* The handler's role and the status it read decide; a refusal rolls back.
CheckHandlerRole(h) ==
    /\ pc[h] = "role"
    /\ \/ /\ role[frame[h].user] \in Managers
          /\ frame[h].seenStatus = "PENDING"
          /\ GoTo(h, "decide")
          /\ UNCHANGED reqLock
       \/ /\ role[frame[h].user] \notin Managers \/ frame[h].seenStatus # "PENDING"
          /\ Return(h)
          /\ Unlock(h)
    /\ UNCHANGED rows

\* UPDATE of the status and, to accept, INSERT of the member row, up to COMMIT.
\* The primary key refuses a second row for a user who is a member already: the
\* transaction is rolled back and the request stays PENDING.
Decide(h) ==
    LET f == frame[h]
        from == joinReq[f.id].from
        fits == f.op = "reject" \/ (conv = "live" /\ role[from] = NoRow)
    IN
    /\ pc[h] = "decide"
    /\ \/ /\ fits
          /\ joinReq' = [joinReq EXCEPT ![f.id].status =
                           IF f.op = "accept" THEN "ACCEPTED" ELSE "REJECTED"]
          /\ role' = IF f.op = "accept" THEN [role EXCEPT ![from] = "MEMBER"] ELSE role
          /\ GoTo(h, "invalidate")
       \/ /\ ~fits
          /\ UNCHANGED <<joinReq, role>>
          /\ Return(h)
    /\ Unlock(h)
    /\ UNCHANGED <<conv, owner, muted, leaveNotices>>

-----------------------------------------------------------------------------
\* A statement throws (lost connection, InnoDB chose the transaction as deadlock
\* victim): the handler answers SERVER_ERROR, what it had committed stays, and
\* its open transaction is rolled back with its connection.
Fail(h) ==
    /\ pc[h] \notin {"idle", "invalidate"}
    /\ Return(h)
    /\ Unlock(h)
    /\ UNCHANGED rows

Step(h) ==
    \/ CheckSelf(h) \/ CheckTarget(h) \/ Write(h) \/ AppendNotice(h)
    \/ LoadMembers(h) \/ AnnounceLeave(h) \/ AnnounceDissolve(h)
    \/ Remove(h) \/ Dissolve(h)
    \/ JoinCheck(h) \/ JoinInsert(h)
    \/ LockRequest(h) \/ CheckHandlerRole(h) \/ Decide(h)

Next == \E h \in Handlers :
    CreateGroup(h) \/ Begin(h) \/ Step(h) \/ Invalidate(h) \/ Fail(h)

Spec == Init /\ [][Next]_vars

-----------------------------------------------------------------------------
(* Properties *)

\* While the group lives its creator, and nobody else, is its OWNER; before and
\* after, no row refers to it.  Leave, removal, role changes and joins race, and
\* no handler locks the rows it has checked.
OwnerRow ==
    /\ conv = "live" => owner \in Users /\ {u \in Users : role[u] = "OWNER"} = {owner}
    /\ conv # "live" => Members = {} /\ muted = {}

\* handle_mute_member_req refuses the owner as a target on a role it read
\* earlier; the owner's row is never muted all the same.
OwnerNeverMuted == owner \notin muted

\* Whatever races with whatever, a live group has its one owner, who can speak.
OwnerStands == OwnerRow /\ OwnerNeverMuted

\* In this step h runs the UPDATE of u's row.
WritesTo(h, u) == pc[h] = "write" /\ pc'[h] # "write" /\ frame[h].target = u

\* Only a request of the owner turns a member into an admin or back, although
\* the owner's role is checked long before the write.
RolesSetByOwner ==
    [][\A u \in Users : role[u] \in Roles /\ role'[u] \in Roles /\ role'[u] # role[u] =>
          \E h \in Handlers : WritesTo(h, u) /\ frame[h].op \in RoleOps /\ frame[h].user = owner]_vars

\* Nobody is removed from a live group who has not announced it: the notice is
\* stored before the row is deleted, and removal never hits another user.
RemovalAnnounced ==
    [][\A u \in Members : role'[u] = NoRow =>
          u \in leaveNotices \/ conv' = "gone"]_vars

\* A user enters an existing group only in the transaction that accepts a
\* pending request of theirs, whatever writes are in flight for a row that a
\* leave has deleted; and a request once decided is never decided again.
JoinByAcceptance ==
    [][/\ \A u \in Users : role[u] = NoRow /\ role'[u] # NoRow /\ conv = "live" =>
             \E r \in Requests : /\ joinReq[r] = [from |-> u, status |-> "PENDING"]
                                 /\ joinReq'[r].status = "ACCEPTED"
       /\ \A r \in Requests : joinReq[r].status \in {"ACCEPTED", "REJECTED"} =>
             joinReq'[r].status \in {joinReq[r].status, "GONE"}]_vars

\* The group implements its contract: interleaved handlers change who is in it
\* only in the ways GroupContract allows, one user at a time.
Contract == INSTANCE GroupContract WITH phase <- conv, founder <- owner, rank <- role
ImplementsContract == Contract!Spec
=============================================================================
