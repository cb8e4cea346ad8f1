----------------------- MODULE GroupMembershipProofs -----------------------
(***************************************************************************)
(* Theorems about GroupMembership for every set of users, handlers and     *)
(* join requests.  What a handler has checked may be stale when it writes; *)
(* the inductive invariant IInv records what stays true of it, and why     *)
(* staleness cannot cost the group its owner.                              *)
(***************************************************************************)
EXTENDS GroupMembership, TLAPS

\* Steps at which a handler runs a request of a user on this group.
UserSteps == Steps \ {"idle", "invalidate", "append"}

\* What the checks a handler has passed still say about its request.
FrameInv ==
    \A h \in Handlers :
        /\ pc[h] \in UserSteps => frame[h].user \in Users /\ conv # "none"
        /\ pc[h] \in {"self", "target", "write"} /\ frame[h].op \in TargetOps =>
              frame[h].target \in Users
        /\ pc[h] = "self" => frame[h].op \in TargetOps \cup {"rename", "leave"}
        /\ pc[h] = "target" => frame[h].op \in TargetOps
        /\ pc[h] = "load" => (frame[h].user = owner <=> frame[h].seenRole = "OWNER")
        /\ pc[h] \in {"target", "write"} /\ frame[h].op \in RoleOps => frame[h].user = owner
        /\ pc[h] = "write" /\ frame[h].op \in RoleOps \cup {"mute"} => frame[h].target # owner
        /\ pc[h] \in {"announceLeave", "remove"} => frame[h].user # owner
        /\ pc[h] = "remove" => conv = "gone" \/ frame[h].user \in leaveNotices
        /\ pc[h] = "invalidate" => conv # "none"

\* A handler past LockRequest holds the lock of its request, what it read of
\* the request is still so, and a request that was made names a user.
LockInv ==
    /\ \A h \in Handlers :
        /\ pc[h] \in {"lock", "role", "decide"} =>
              frame[h].id \in Requests /\ frame[h].op \in JoinOps
        /\ pc[h] \in {"role", "decide"} =>
              /\ reqLock[frame[h].id] = h
              /\ frame[h].seenStatus = joinReq[frame[h].id].status
              /\ frame[h].seenStatus \notin {"FREE", "GONE"}
        /\ pc[h] = "decide" => frame[h].seenStatus = "PENDING"
    /\ \A r \in Requests : joinReq[r].status # "FREE" => joinReq[r].from \in Users

\* A pending request's group still exists; the owner column is set once.
GroupInv ==
    /\ conv # "none" => owner \in Users
    /\ conv # "live" => \A r \in Requests : joinReq[r].status \in {"FREE", "GONE"}

IInv == TypeOK /\ GroupInv /\ OwnerRow /\ OwnerNeverMuted /\ FrameInv /\ LockInv

USE GroupConstants
-----------------------------------------------------------------------------

(* Typing *)

LEMMA IdleFrameType == IdleFrame \in Frames
  BY DEF IdleFrame, NewFrame, Frames, Ops, NoRow, Statuses

LEMMA NewFrameType ==
  ASSUME NEW op \in Ops, NEW u \in Users \cup {NoUser}, NEW t \in Users \cup {NoUser},
         NEW r \in Requests \cup {NoRequest}
  PROVE  NewFrame(op, u, t, r) \in Frames
  BY DEF NewFrame, Frames, NoRow, Statuses

\* A read recorded in a frame gives a frame.
LEMMA FrameRead ==
  ASSUME NEW f \in Frames
  PROVE  /\ \A s \in Statuses : [f EXCEPT !.seenStatus = s] \in Frames
         /\ \A r \in Roles : [f EXCEPT !.seenRole = r] \in Frames
  BY DEF Frames

LEMMA AllowedRoles ==
  ASSUME NEW op
  PROVE  Allowed(op) \subseteq Roles
  BY DEF Allowed, Roles, Managers

\* Every step keeps every variable in its type.
LEMMA TypeStep == IInv /\ [Next]_vars => TypeOK'
<1> SUFFICES ASSUME IInv, [Next]_vars PROVE TypeOK'
  OBVIOUS
<1> USE IdleFrameType DEF IInv, TypeOK, Return, GoTo, GoToAppend, Unlock, rows, Roles,
                          NoRow, Steps, Statuses
<1>1. ASSUME NEW h \in Handlers, CreateGroup(h) PROVE TypeOK'
  <2>1. NewFrame("create", NoUser, NoUser, NoRequest) \in Frames
    BY NewFrameType DEF Ops
  <2>2. PICK u \in Users, others \in SUBSET Users :
          /\ owner' = u
          /\ role' = [v \in Users |-> IF v = u THEN "OWNER"
                                      ELSE IF v \in others THEN "MEMBER" ELSE NoRow]
          /\ frame' = [frame EXCEPT ![h] = NewFrame("create", NoUser, NoUser, NoRequest)]
    BY <1>1 DEF CreateGroup
  <2> QED
    BY <1>1, <2>1, <2>2 DEF CreateGroup
<1>2. ASSUME NEW h \in Handlers, Begin(h) PROVE TypeOK'
  <2>1. PICK op \in Ops \ {"create", "none"}, u \in Users,
             t \in Users \cup {NoUser}, r \in Requests \cup {NoRequest} :
          /\ frame' = [frame EXCEPT ![h] = NewFrame(op, u, t, r)]
          /\ pc' = [pc EXCEPT ![h] = FirstStep(op)]
    BY <1>2 DEF Begin
  <2>2. FirstStep(op) \in Steps
    BY DEF FirstStep
  <2>3. NewFrame(op, u, t, r) \in Frames
    BY NewFrameType
  <2> QED
    BY <1>2, <2>1, <2>2, <2>3 DEF Begin
<1>3. ASSUME NEW h \in Handlers, CheckSelf(h) PROVE TypeOK'
  <2>1. CASE role[frame[h].user] \in Allowed(frame[h].op)
    <3>1. role[frame[h].user] \in Roles
      BY <2>1, AllowedRoles
    <3>2. [frame[h] EXCEPT !.seenRole = role[frame[h].user]] \in Frames
      BY <3>1, FrameRead
    <3>3. pc' \in [Handlers -> Steps] /\ UNCHANGED <<rows, reqLock>>
      BY <1>3, <2>1 DEF CheckSelf
    <3>4. frame' = [frame EXCEPT ![h] = [frame[h] EXCEPT !.seenRole = role[frame[h].user]]]
      BY <1>3, <2>1 DEF CheckSelf
    <3> QED
      BY <3>2, <3>3, <3>4
  <2>2. CASE role[frame[h].user] \notin Allowed(frame[h].op)
    BY <1>3, <2>2 DEF CheckSelf
  <2> QED
    BY <2>1, <2>2
<1>4. ASSUME NEW h \in Handlers, CheckTarget(h) PROVE TypeOK'
  BY <1>4 DEF CheckTarget
<1>5. ASSUME NEW h \in Handlers, Write(h) PROVE TypeOK'
  <2>1. role' \in [Users -> Roles \cup {NoRow}]
    BY <1>5 DEF Write, RowMatches, NewRole
  <2>2. muted' \subseteq Users
    BY <1>5 DEF Write, RowMatches, NewRole, Members
  <2>3. pc' \in [Handlers -> Steps] /\ frame' \in [Handlers -> Frames]
    BY <1>5 DEF Write, RowMatches, NewRole
  <2> QED
    BY <1>5, <2>1, <2>2, <2>3 DEF Write, RowMatches, NewRole
<1>6. ASSUME NEW h \in Handlers, Invalidate(h) PROVE TypeOK'
  BY <1>6 DEF Invalidate
<1>7. ASSUME NEW h \in Handlers, AppendNotice(h) PROVE TypeOK'
  BY <1>7 DEF AppendNotice
<1>8. ASSUME NEW h \in Handlers, LoadMembers(h) PROVE TypeOK'
  BY <1>8 DEF LoadMembers, Dissolves
<1>9. ASSUME NEW h \in Handlers, AnnounceLeave(h) PROVE TypeOK'
  BY <1>9, SMTT(20) DEF AnnounceLeave, FrameInv, UserSteps
<1>10. ASSUME NEW h \in Handlers, AnnounceDissolve(h) PROVE TypeOK'
  BY <1>10 DEF AnnounceDissolve
<1>11. ASSUME NEW h \in Handlers, Remove(h) PROVE TypeOK'
  BY <1>11 DEF Remove
<1>12. ASSUME NEW h \in Handlers, Dissolve(h) PROVE TypeOK'
  BY <1>12 DEF Dissolve
<1>13. ASSUME NEW h \in Handlers, JoinCheck(h) PROVE TypeOK'
  BY <1>13 DEF JoinCheck
<1>14. ASSUME NEW h \in Handlers, JoinInsert(h) PROVE TypeOK'
  <2>1. frame[h].user \in Users
    BY <1>14 DEF JoinInsert, FrameInv, UserSteps
  <2> QED
    BY <1>14, <2>1 DEF JoinInsert
<1>15. ASSUME NEW h \in Handlers, LockRequest(h) PROVE TypeOK'
  <2> DEFINE r == frame[h].id
  <2>1. r \in Requests /\ joinReq[r].status \in Statuses
    BY <1>15 DEF LockRequest, LockInv
  <2>2. [frame[h] EXCEPT !.seenStatus = joinReq[r].status] \in Frames
    BY <2>1, FrameRead
  <2>3. CASE joinReq[r].status \in {"FREE", "GONE"}
    BY <1>15, <2>3 DEF LockRequest
  <2>4. CASE joinReq[r].status \notin {"FREE", "GONE"}
    <3>1. /\ frame' = [frame EXCEPT ![h] = [frame[h] EXCEPT !.seenStatus = joinReq[r].status]]
          /\ reqLock' = [reqLock EXCEPT ![r] = h]
          /\ pc' = [pc EXCEPT ![h] = "role"]
          /\ UNCHANGED rows
      BY <1>15, <2>4 DEF LockRequest
    <3> QED
      BY <2>1, <2>2, <3>1
  <2> QED
    BY <2>3, <2>4
<1>16. ASSUME NEW h \in Handlers, CheckHandlerRole(h) PROVE TypeOK'
  BY <1>16 DEF CheckHandlerRole
<1>17. ASSUME NEW h \in Handlers, Decide(h) PROVE TypeOK'
  BY <1>17 DEF Decide
<1>18. ASSUME NEW h \in Handlers, Fail(h) PROVE TypeOK'
  BY <1>18 DEF Fail
<1>19. CASE UNCHANGED vars
  BY <1>19 DEF vars
<1> QED
  BY <1>1, <1>2, <1>3, <1>4, <1>5, <1>6, <1>7, <1>8, <1>9, <1>10, <1>11, <1>12, <1>13, <1>14,
     <1>15, <1>16, <1>17, <1>18, <1>19 DEF Next, Step

-----------------------------------------------------------------------------
(* The owner *)

\* The owner's row survives every step, whatever the handlers had read.
LEMMA OwnerStep == IInv /\ [Next]_vars => (GroupInv /\ OwnerRow /\ OwnerNeverMuted)'
<1> SUFFICES ASSUME IInv, [Next]_vars PROVE (GroupInv /\ OwnerRow /\ OwnerNeverMuted)'
  OBVIOUS
<1> USE DEF IInv, TypeOK, Return, GoTo, GoToAppend, Unlock, rows, GroupInv, OwnerRow,
            OwnerNeverMuted, FrameInv, UserSteps, Roles, NoRow, Members, Statuses
<1>1. ASSUME NEW h \in Handlers, CreateGroup(h) PROVE (GroupInv /\ OwnerRow /\ OwnerNeverMuted)'
  BY <1>1 DEF CreateGroup
<1>2. ASSUME NEW h \in Handlers, Begin(h) PROVE (GroupInv /\ OwnerRow /\ OwnerNeverMuted)'
  BY <1>2 DEF Begin
<1>3. ASSUME NEW h \in Handlers, CheckSelf(h) PROVE (GroupInv /\ OwnerRow /\ OwnerNeverMuted)'
  BY <1>3 DEF CheckSelf
<1>4. ASSUME NEW h \in Handlers, CheckTarget(h) PROVE (GroupInv /\ OwnerRow /\ OwnerNeverMuted)'
  BY <1>4 DEF CheckTarget
<1>5. ASSUME NEW h \in Handlers, Write(h) PROVE (GroupInv /\ OwnerRow /\ OwnerNeverMuted)'
  BY <1>5 DEF Write, RowMatches, NewRole
<1>6. ASSUME NEW h \in Handlers, Invalidate(h) PROVE (GroupInv /\ OwnerRow /\ OwnerNeverMuted)'
  BY <1>6 DEF Invalidate
<1>7. ASSUME NEW h \in Handlers, AppendNotice(h) PROVE (GroupInv /\ OwnerRow /\ OwnerNeverMuted)'
  BY <1>7 DEF AppendNotice
<1>8. ASSUME NEW h \in Handlers, LoadMembers(h) PROVE (GroupInv /\ OwnerRow /\ OwnerNeverMuted)'
  BY <1>8 DEF LoadMembers, Dissolves
<1>9. ASSUME NEW h \in Handlers, AnnounceLeave(h) PROVE (GroupInv /\ OwnerRow /\ OwnerNeverMuted)'
  BY <1>9 DEF AnnounceLeave
<1>10. ASSUME NEW h \in Handlers, AnnounceDissolve(h) PROVE (GroupInv /\ OwnerRow /\ OwnerNeverMuted)'
  BY <1>10 DEF AnnounceDissolve
<1>11. ASSUME NEW h \in Handlers, Remove(h) PROVE (GroupInv /\ OwnerRow /\ OwnerNeverMuted)'
  BY <1>11 DEF Remove
<1>12. ASSUME NEW h \in Handlers, Dissolve(h) PROVE (GroupInv /\ OwnerRow /\ OwnerNeverMuted)'
  BY <1>12 DEF Dissolve
<1>13. ASSUME NEW h \in Handlers, JoinCheck(h) PROVE (GroupInv /\ OwnerRow /\ OwnerNeverMuted)'
  BY <1>13 DEF JoinCheck
<1>14. ASSUME NEW h \in Handlers, JoinInsert(h) PROVE (GroupInv /\ OwnerRow /\ OwnerNeverMuted)'
  BY <1>14 DEF JoinInsert
<1>15. ASSUME NEW h \in Handlers, LockRequest(h) PROVE (GroupInv /\ OwnerRow /\ OwnerNeverMuted)'
  BY <1>15 DEF LockRequest
<1>16. ASSUME NEW h \in Handlers, CheckHandlerRole(h) PROVE (GroupInv /\ OwnerRow /\ OwnerNeverMuted)'
  BY <1>16 DEF CheckHandlerRole
<1>17. ASSUME NEW h \in Handlers, Decide(h) PROVE (GroupInv /\ OwnerRow /\ OwnerNeverMuted)'
  <2> DEFINE r == frame[h].id
             from == joinReq[r].from
  <2>1. r \in Requests /\ joinReq[r].status = "PENDING" /\ from \in Users
    BY <1>17 DEF Decide, LockInv
  <2>2. conv = "live" /\ conv' = "live" /\ UNCHANGED <<owner, muted>>
    BY <1>17, <2>1 DEF Decide
  <2>3. role' = role \/ (role[from] = NoRow /\ role' = [role EXCEPT ![from] = "MEMBER"])
    BY <1>17 DEF Decide
  <2>4. {u \in Users : role'[u] = "OWNER"} = {u \in Users : role[u] = "OWNER"}
    BY <2>1, <2>3
  <2> QED
    BY <2>2, <2>4
<1>18. ASSUME NEW h \in Handlers, Fail(h) PROVE (GroupInv /\ OwnerRow /\ OwnerNeverMuted)'
  BY <1>18 DEF Fail
<1>19. CASE UNCHANGED vars
  BY <1>19 DEF vars
<1> QED
  BY <1>1, <1>2, <1>3, <1>4, <1>5, <1>6, <1>7, <1>8, <1>9, <1>10, <1>11, <1>12, <1>13, <1>14,
     <1>15, <1>16, <1>17, <1>18, <1>19 DEF Next, Step

\* What a handler's checks established stays true until it writes.
LEMMA FrameStep == IInv /\ [Next]_vars => FrameInv'
<1> SUFFICES ASSUME IInv, [Next]_vars PROVE FrameInv'
  OBVIOUS
<1> USE DEF IInv, TypeOK, Return, GoTo, GoToAppend, Unlock, rows, GroupInv, OwnerRow,
            FrameInv, UserSteps, Steps, Roles, NoRow, Members, RoleOps, MuteOps, TargetOps,
            JoinOps, SelfOps, Ops, Managers, NewFrame, IdleFrame
<1>1. ASSUME NEW h \in Handlers, CreateGroup(h) PROVE FrameInv'
  BY <1>1 DEF CreateGroup
<1>2. ASSUME NEW h \in Handlers, Begin(h) PROVE FrameInv'
  <2>1. PICK op \in Ops \ {"create", "none"}, u \in Users,
             t \in Users \cup {NoUser}, r \in Requests \cup {NoRequest} :
          /\ t \in Users <=> op \in TargetOps
          /\ r \in Requests <=> op \in JoinOps
          /\ frame' = [frame EXCEPT ![h] = NewFrame(op, u, t, r)]
          /\ pc' = [pc EXCEPT ![h] = FirstStep(op)]
    BY <1>2 DEF Begin
  <2>2. /\ FirstStep(op) \in {"self", "joinCheck", "lock"}
        /\ FirstStep(op) = "self" => op \in TargetOps \cup {"rename", "leave"}
        /\ FirstStep(op) = "lock" => op \in JoinOps
    BY DEF FirstStep
  <2>3. UNCHANGED <<conv, owner, role, leaveNotices, joinReq, reqLock>> /\ conv # "none"
    BY <1>2 DEF Begin
  <2>4. /\ pc'[h] = FirstStep(op) /\ frame'[h] = NewFrame(op, u, t, r)
        /\ \A g \in Handlers \ {h} : pc'[g] = pc[g] /\ frame'[g] = frame[g]
    BY <2>1
  <2> SUFFICES ASSUME NEW g \in Handlers PROVE FrameInv!(g)'
    BY DEF FrameInv
  <2>5. CASE g = h
    BY <2>1, <2>2, <2>3, <2>4, <2>5
  <2>6. CASE g # h
    BY <2>3, <2>4, <2>6
  <2> QED
    BY <2>5, <2>6
<1>3. ASSUME NEW h \in Handlers, CheckSelf(h) PROVE FrameInv'
  <2> DEFINE f == frame[h]
  <2>1. CASE role[f.user] \in Allowed(f.op)
    <3>1. /\ pc[h] = "self"
          /\ frame' = [frame EXCEPT ![h] = [f EXCEPT !.seenRole = role[f.user]]]
          /\ pc'[h] = (CASE f.op = "rename" -> "write" [] f.op = "leave" -> "load" [] OTHER -> "target")
          /\ \A g \in Handlers \ {h} : pc'[g] = pc[g]
          /\ UNCHANGED rows
      BY <1>3, <2>1 DEF CheckSelf
    <3>2. /\ frame'[h].user = f.user /\ frame'[h].op = f.op /\ frame'[h].target = f.target
          /\ frame'[h].seenRole = role[f.user]
          /\ \A g \in Handlers \ {h} : frame'[g] = frame[g]
      BY <3>1 DEF Frames
    <3>3. /\ f.user \in Users /\ conv # "none"
          /\ f.op \in TargetOps \cup {"rename", "leave"}
          /\ f.op \in TargetOps => f.target \in Users
      BY <3>1
    <3>4. role[f.user] # NoRow /\ conv = "live"
      BY <2>1, <3>3, AllowedRoles
    <3>5. role[f.user] = "OWNER" <=> f.user = owner
      BY <3>3, <3>4
    <3>6. f.op \in RoleOps => role[f.user] = "OWNER"
      BY <2>1 DEF Allowed
    <3>7. /\ pc'[h] \in {"write", "load", "target"}
          /\ pc'[h] = "write" => f.op = "rename"
          /\ pc'[h] = "load" => f.op = "leave"
          /\ pc'[h] = "target" => f.op \in TargetOps
      BY <3>1, <3>3
    <3> QED
      BY <3>1, <3>2, <3>3, <3>5, <3>6, <3>7
  <2>2. CASE role[f.user] \notin Allowed(f.op)
    BY <1>3, <2>2 DEF CheckSelf
  <2> QED
    BY <2>1, <2>2
<1>4. ASSUME NEW h \in Handlers, CheckTarget(h) PROVE FrameInv'
  <2> DEFINE f == frame[h]
  <2>1. CASE TargetAllows(f, role[f.target])
    <3>1. conv = "live" /\ (f.op # "unmute" => f.target # owner)
      BY <1>4, <2>1 DEF CheckTarget, TargetAllows
    <3>2. /\ pc[h] = "target" /\ pc' = [pc EXCEPT ![h] = "write"]
          /\ UNCHANGED <<rows, frame>>
      BY <1>4, <2>1 DEF CheckTarget
    <3> QED
      BY <3>1, <3>2
  <2>2. CASE ~TargetAllows(f, role[f.target])
    BY <1>4, <2>2 DEF CheckTarget
  <2> QED
    BY <2>1, <2>2
<1>5. ASSUME NEW h \in Handlers, Write(h) PROVE FrameInv'
  BY <1>5 DEF Write, RowMatches, NewRole
<1>6. ASSUME NEW h \in Handlers, Invalidate(h) PROVE FrameInv'
  BY <1>6 DEF Invalidate
<1>7. ASSUME NEW h \in Handlers, AppendNotice(h) PROVE FrameInv'
  BY <1>7 DEF AppendNotice
<1>8. ASSUME NEW h \in Handlers, LoadMembers(h) PROVE FrameInv'
  BY <1>8 DEF LoadMembers, Dissolves
<1>9. ASSUME NEW h \in Handlers, AnnounceLeave(h) PROVE FrameInv'
  BY <1>9 DEF AnnounceLeave
<1>10. ASSUME NEW h \in Handlers, AnnounceDissolve(h) PROVE FrameInv'
  BY <1>10 DEF AnnounceDissolve
<1>11. ASSUME NEW h \in Handlers, Remove(h) PROVE FrameInv'
  BY <1>11 DEF Remove
<1>12. ASSUME NEW h \in Handlers, Dissolve(h) PROVE FrameInv'
  BY <1>12 DEF Dissolve
<1>13. ASSUME NEW h \in Handlers, JoinCheck(h) PROVE FrameInv'
  BY <1>13 DEF JoinCheck
<1>14. ASSUME NEW h \in Handlers, JoinInsert(h) PROVE FrameInv'
  BY <1>14 DEF JoinInsert
<1>15. ASSUME NEW h \in Handlers, LockRequest(h) PROVE FrameInv'
  <2>1. frame[h] \in Frames /\ frame[h].id \in Requests
    BY <1>15 DEF LockRequest, LockInv
  <2>2. CASE joinReq[frame[h].id].status \in {"FREE", "GONE"}
    BY <1>15, <2>2 DEF LockRequest
  <2>3. CASE joinReq[frame[h].id].status \notin {"FREE", "GONE"}
    <3>1. /\ frame' = [frame EXCEPT ![h] = [frame[h] EXCEPT !.seenStatus = joinReq[frame[h].id].status]]
          /\ reqLock[frame[h].id] = NoHandler
          /\ reqLock' = [reqLock EXCEPT ![frame[h].id] = h]
          /\ pc' = [pc EXCEPT ![h] = "role"]
          /\ pc[h] = "lock"
          /\ UNCHANGED rows
      BY <1>15, <2>3 DEF LockRequest
    <3>2. /\ frame'[h].user = frame[h].user /\ frame'[h].op = frame[h].op
          /\ frame'[h].id = frame[h].id /\ frame'[h].target = frame[h].target
          /\ frame'[h].seenStatus = joinReq[frame[h].id].status
          /\ \A g \in Handlers \ {h} : pc'[g] = pc[g] /\ frame'[g] = frame[g]
      BY <2>1, <3>1 DEF Frames
    <3> QED
      BY <2>1, <2>3, <3>1, <3>2
  <2> QED
    BY <2>2, <2>3
<1>16. ASSUME NEW h \in Handlers, CheckHandlerRole(h) PROVE FrameInv'
  BY <1>16 DEF CheckHandlerRole
<1>17. ASSUME NEW h \in Handlers, Decide(h) PROVE FrameInv'
  BY <1>17 DEF Decide
<1>18. ASSUME NEW h \in Handlers, Fail(h) PROVE FrameInv'
  BY <1>18 DEF Fail
<1>19. CASE UNCHANGED vars
  BY <1>19 DEF vars
<1> QED
  BY <1>1, <1>2, <1>3, <1>4, <1>5, <1>6, <1>7, <1>8, <1>9, <1>10, <1>11, <1>12, <1>13, <1>14,
     <1>15, <1>16, <1>17, <1>18, <1>19 DEF Next, Step

\* What Begin does to the handler that takes a request, and to no other.
LEMMA BeginFrame ==
  ASSUME TypeOK, NEW h \in Handlers, Begin(h)
  PROVE  /\ \E op \in Ops \ {"create", "none"}, u \in Users,
               t \in Users \cup {NoUser}, r \in Requests \cup {NoRequest} :
               /\ t \in Users <=> op \in TargetOps
               /\ r \in Requests <=> op \in JoinOps
               /\ frame'[h] = NewFrame(op, u, t, r)
               /\ pc'[h] = FirstStep(op)
         /\ \A g \in Handlers \ {h} : pc'[g] = pc[g] /\ frame'[g] = frame[g]
         /\ UNCHANGED <<rows, reqLock>> /\ conv # "none"
  BY DEF Begin, TypeOK

\* A decided request stays decided, because its row lock is held from the read to COMMIT.
LEMMA LockStep == IInv /\ [Next]_vars => LockInv'
<1> SUFFICES ASSUME IInv, [Next]_vars PROVE LockInv'
  OBVIOUS
<1> USE DEF IInv, TypeOK, Return, GoTo, GoToAppend, Unlock, rows, GroupInv, LockInv, Steps,
            Statuses, JoinOps, TargetOps, RoleOps, MuteOps, SelfOps, Ops, FrameInv,
            UserSteps, NewFrame, IdleFrame
<1>1. ASSUME NEW h \in Handlers, CreateGroup(h) PROVE LockInv'
  BY <1>1 DEF CreateGroup
<1>2. ASSUME NEW h \in Handlers, Begin(h) PROVE LockInv'
  <2>1. PICK op \in Ops \ {"create", "none"}, u \in Users,
             t \in Users \cup {NoUser}, r \in Requests \cup {NoRequest} :
          /\ t \in Users <=> op \in TargetOps
          /\ r \in Requests <=> op \in JoinOps
          /\ frame'[h] = NewFrame(op, u, t, r)
          /\ pc'[h] = FirstStep(op)
    BY <1>2, BeginFrame
  <2>2. /\ FirstStep(op) \in {"self", "joinCheck", "lock"}
        /\ FirstStep(op) = "lock" => op \in JoinOps
    BY DEF FirstStep
  <2>3. frame'[h].id = r /\ frame'[h].op = op
    BY <2>1
  <2>4. /\ \A g \in Handlers \ {h} : pc'[g] = pc[g] /\ frame'[g] = frame[g]
        /\ UNCHANGED <<rows, reqLock>>
    BY <1>2, BeginFrame
  <2> QED
    BY <2>1, <2>2, <2>3, <2>4
<1>3. ASSUME NEW h \in Handlers, CheckSelf(h) PROVE LockInv'
  BY <1>3 DEF CheckSelf
<1>4. ASSUME NEW h \in Handlers, CheckTarget(h) PROVE LockInv'
  BY <1>4 DEF CheckTarget
<1>5. ASSUME NEW h \in Handlers, Write(h) PROVE LockInv'
  BY <1>5 DEF Write, RowMatches, NewRole
<1>6. ASSUME NEW h \in Handlers, Invalidate(h) PROVE LockInv'
  BY <1>6 DEF Invalidate
<1>7. ASSUME NEW h \in Handlers, AppendNotice(h) PROVE LockInv'
  BY <1>7 DEF AppendNotice
<1>8. ASSUME NEW h \in Handlers, LoadMembers(h) PROVE LockInv'
  BY <1>8 DEF LoadMembers, Dissolves
<1>9. ASSUME NEW h \in Handlers, AnnounceLeave(h) PROVE LockInv'
  BY <1>9 DEF AnnounceLeave
<1>10. ASSUME NEW h \in Handlers, AnnounceDissolve(h) PROVE LockInv'
  BY <1>10 DEF AnnounceDissolve
<1>11. ASSUME NEW h \in Handlers, Remove(h) PROVE LockInv'
  BY <1>11 DEF Remove
<1>12. ASSUME NEW h \in Handlers, Dissolve(h) PROVE LockInv'
  <2>1. \A g \in Handlers : pc[g] \notin {"role", "decide"}
    BY <1>12 DEF Dissolve
  <2>2. /\ \A g \in Handlers : pc'[g] \in {"role", "decide"} => pc[g] \in {"role", "decide"}
        /\ \A g \in Handlers : pc'[g] = "lock" => pc[g] = "lock"
        /\ UNCHANGED frame
    BY <1>12 DEF Dissolve
  <2>3. ASSUME NEW r \in Requests, joinReq'[r].status # "FREE" PROVE joinReq'[r].from \in Users
    <3>1. joinReq[r] \in [from: Users \cup {NoUser}, status: Statuses]
      OBVIOUS
    <3>2. joinReq'[r] = [joinReq[r] EXCEPT !.status = IF @ = "FREE" THEN @ ELSE "GONE"]
      BY <1>12 DEF Dissolve
    <3>3. joinReq'[r].from = joinReq[r].from
      BY <3>1, <3>2
    <3>4. joinReq[r].status # "FREE"
      BY <2>3, <3>1, <3>2
    <3> QED
      BY <3>3, <3>4
  <2> QED
    BY <2>1, <2>2, <2>3
<1>13. ASSUME NEW h \in Handlers, JoinCheck(h) PROVE LockInv'
  BY <1>13 DEF JoinCheck
<1>14. ASSUME NEW h \in Handlers, JoinInsert(h) PROVE LockInv'
  <2>1. frame[h].user \in Users
    BY <1>14 DEF JoinInsert
  <2>2. CASE conv = "live"
    <3>1. PICK r \in Requests :
             /\ joinReq[r].status = "FREE"
             /\ joinReq' = [joinReq EXCEPT ![r] = [from |-> frame[h].user, status |-> "PENDING"]]
      BY <1>14, <2>2 DEF JoinInsert
    <3>2. \A q \in Requests \ {r} : joinReq'[q] = joinReq[q]
      BY <3>1
    <3>3. joinReq'[r].from \in Users
      BY <2>1, <3>1
    <3>4. ASSUME NEW g \in Handlers, pc[g] \in {"role", "decide"} PROVE frame[g].id # r
      BY <3>1, <3>4
    <3> QED
      BY <1>14, <3>1, <3>2, <3>3, <3>4 DEF JoinInsert
  <2>3. CASE conv # "live"
    BY <1>14, <2>3 DEF JoinInsert
  <2> QED
    BY <2>2, <2>3
<1>15. ASSUME NEW h \in Handlers, LockRequest(h) PROVE LockInv'
  <2>1. frame[h] \in Frames /\ frame[h].id \in Requests
    BY <1>15 DEF LockRequest, LockInv
  <2>2. CASE joinReq[frame[h].id].status \in {"FREE", "GONE"}
    BY <1>15, <2>2 DEF LockRequest
  <2>3. CASE joinReq[frame[h].id].status \notin {"FREE", "GONE"}
    <3>1. /\ frame' = [frame EXCEPT ![h] = [frame[h] EXCEPT !.seenStatus = joinReq[frame[h].id].status]]
          /\ reqLock[frame[h].id] = NoHandler
          /\ reqLock' = [reqLock EXCEPT ![frame[h].id] = h]
          /\ pc' = [pc EXCEPT ![h] = "role"]
          /\ pc[h] = "lock"
          /\ UNCHANGED rows
      BY <1>15, <2>3 DEF LockRequest
    <3>2. /\ frame'[h].user = frame[h].user /\ frame'[h].op = frame[h].op
          /\ frame'[h].id = frame[h].id /\ frame'[h].target = frame[h].target
          /\ frame'[h].seenStatus = joinReq[frame[h].id].status
          /\ \A g \in Handlers \ {h} : pc'[g] = pc[g] /\ frame'[g] = frame[g]
      BY <2>1, <3>1 DEF Frames
    <3> QED
      BY <2>1, <2>3, <3>1, <3>2
  <2> QED
    BY <2>2, <2>3
<1>16. ASSUME NEW h \in Handlers, CheckHandlerRole(h) PROVE LockInv'
  BY <1>16 DEF CheckHandlerRole
<1>17. ASSUME NEW h \in Handlers, Decide(h) PROVE LockInv'
  <2> DEFINE r == frame[h].id
             from == joinReq[r].from
  <2>1. r \in Requests /\ joinReq[r].status = "PENDING" /\ from \in Users
    BY <1>17 DEF Decide, LockInv
  <2>2. \A q \in Requests : joinReq'[q].from = joinReq[q].from
    BY <1>17, <2>1 DEF Decide
  <2>3. \A q \in Requests \ {r} : joinReq'[q] = joinReq[q]
    BY <1>17, <2>1 DEF Decide
  <2>4. \A q \in Requests : joinReq'[q].status # "FREE" => joinReq[q].status # "FREE"
    BY <2>1, <2>3
  <2>5. /\ pc'[h] \in {"idle", "invalidate"}
        /\ \A g \in Handlers \ {h} : pc'[g] = pc[g] /\ frame'[g] = frame[g]
    BY <1>17 DEF Decide
  <2>6. \A g \in Handlers \ {h} : pc[g] \in {"role", "decide"} => frame[g].id # r
    BY <1>17 DEF Decide
  <2>7. \A g \in Handlers \ {h} : pc[g] \in {"role", "decide"} => reqLock'[frame[g].id] = g
    BY <1>17 DEF Decide
  <2> QED
    BY <2>2, <2>3, <2>4, <2>5, <2>6, <2>7
<1>18. ASSUME NEW h \in Handlers, Fail(h) PROVE LockInv'
  BY <1>18 DEF Fail
<1>19. CASE UNCHANGED vars
  BY <1>19 DEF vars
<1> QED
  BY <1>1, <1>2, <1>3, <1>4, <1>5, <1>6, <1>7, <1>8, <1>9, <1>10, <1>11, <1>12, <1>13, <1>14,
     <1>15, <1>16, <1>17, <1>18, <1>19 DEF Next, Step

-----------------------------------------------------------------------------
(* The theorems *)

LEMMA InitInv == Init => IInv
<1> SUFFICES ASSUME Init PROVE IInv
  OBVIOUS
<1>1. TypeOK
  BY IdleFrameType DEF Init, TypeOK, Steps, NoRow, Statuses
<1>2. Members = {}
  BY DEF Init, Members
<1> QED
  BY <1>1, <1>2 DEF Init, IInv, GroupInv, OwnerRow, OwnerNeverMuted, FrameInv, LockInv,
     UserSteps, Statuses

LEMMA StepInv == IInv /\ [Next]_vars => IInv'
  BY TypeStep, OwnerStep, FrameStep, LockStep DEF IInv

\* What the checks of a request have established about its frame survives
\* whatever the other handlers do between its awaits.
THEOREM Invariance == Spec => []IInv
<1> QED
  BY InitInv, StepInv, PTL DEF Spec

\* The tables and the frames of the handlers keep their types.
THEOREM TypeCorrect == Spec => []TypeOK
<1>1. IInv => TypeOK
  BY DEF IInv
<1> QED
  BY <1>1, Invariance, PTL

\* However leave, dissolve, join and role requests interleave, the creator is
\* the one OWNER of a live group and a dissolved group keeps no member row.
\* The owner is never muted either, by any interleaving of mute requests.
THEOREM OwnerKept == Spec => []OwnerStands
<1>1. IInv => OwnerStands
  BY DEF IInv, OwnerStands
<1> QED
  BY <1>1, Invariance, PTL

\* A step of one handler changes a role only by one of these writes.
LEMMA RoleWriters ==
  ASSUME IInv, [Next]_vars
  PROVE  \/ UNCHANGED role
         \/ \E h \in Handlers : CreateGroup(h) \/ Write(h) \/ Remove(h) \/ Dissolve(h) \/ Decide(h)
  BY DEF Next, Step, vars, rows, Begin, CheckSelf, CheckTarget, Invalidate, AppendNotice,
         LoadMembers, AnnounceLeave, AnnounceDissolve, JoinCheck, JoinInsert, LockRequest,
         CheckHandlerRole, Fail

\* Only a request of the owner changes the role of a member of the group.
THEOREM RolesByOwner == Spec => RolesSetByOwner
<1> DEFINE A == \A u \in Users : role[u] \in Roles /\ role'[u] \in Roles /\ role'[u] # role[u] =>
                  \E h \in Handlers : WritesTo(h, u) /\ frame[h].op \in RoleOps /\ frame[h].user = owner
<1>1. ASSUME IInv, [Next]_vars PROVE [A]_vars
  <2> SUFFICES ASSUME NEW u \in Users, role[u] \in Roles, role'[u] \in Roles, role'[u] # role[u]
               PROVE  \E h \in Handlers : WritesTo(h, u) /\ frame[h].op \in RoleOps
                                            /\ frame[h].user = owner
    OBVIOUS
  <2> USE DEF IInv, TypeOK, Roles, NoRow, GoTo, GoToAppend, Return, Steps
  <2>1. PICK h \in Handlers : CreateGroup(h) \/ Write(h) \/ Remove(h) \/ Dissolve(h) \/ Decide(h)
    BY <1>1, RoleWriters
  <2>2. CASE CreateGroup(h)
    BY <1>1, <2>2 DEF CreateGroup, OwnerRow, Members
  <2>3. CASE Write(h)
    <3>1. frame[h].target = u /\ frame[h].op \in RoleOps
      BY <1>1, <2>3 DEF Write, RowMatches, NewRole
    <3>2. pc[h] = "write" /\ pc'[h] # "write"
      BY <1>1, <2>3 DEF Write, RowMatches, NewRole
    <3>3. frame[h].user = owner
      BY <1>1, <3>1, <3>2 DEF FrameInv
    <3> QED
      BY <3>1, <3>2, <3>3 DEF WritesTo
  <2>4. CASE Remove(h)
    BY <1>1, <2>4 DEF Remove
  <2>5. CASE Dissolve(h)
    BY <1>1, <2>5 DEF Dissolve
  <2>6. CASE Decide(h)
    BY <1>1, <2>6 DEF Decide
  <2> QED
    BY <2>1, <2>2, <2>3, <2>4, <2>5, <2>6
<1> QED
  BY <1>1, Invariance, PTL DEF Spec, RolesSetByOwner

\* A member is removed only after the notice that they left has been stored.
THEOREM RemovalsAnnounced == Spec => RemovalAnnounced
<1> DEFINE A == \A u \in Members : role'[u] = NoRow => u \in leaveNotices \/ conv' = "gone"
<1>1. ASSUME IInv, [Next]_vars PROVE [A]_vars
  <2> SUFFICES ASSUME NEW u \in Members, role'[u] = NoRow
               PROVE  u \in leaveNotices \/ conv' = "gone"
    OBVIOUS
  <2> USE DEF IInv, TypeOK, Roles, NoRow, Members
  <2>0. u \in Users /\ role[u] # "NONE"
    OBVIOUS
  <2>1. CASE UNCHANGED role
    BY <2>0, <2>1
  <2>2. ASSUME NEW h \in Handlers, CreateGroup(h) PROVE conv' = "gone"
    BY <1>1, <2>0, <2>2 DEF CreateGroup, OwnerRow
  <2>3. ASSUME NEW h \in Handlers, Write(h) PROVE UNCHANGED role
    BY <1>1, <2>0, <2>3 DEF Write, RowMatches, NewRole
  <2>4. ASSUME NEW h \in Handlers, Remove(h) PROVE u \in leaveNotices \/ conv' = "gone"
    <3>1. pc[h] = "remove" /\ u = frame[h].user
      BY <1>1, <2>0, <2>4 DEF Remove
    <3> QED
      BY <1>1, <2>0, <2>4, <3>1 DEF Remove, FrameInv
  <2>5. ASSUME NEW h \in Handlers, Dissolve(h) PROVE conv' = "gone"
    BY <2>5 DEF Dissolve
  <2>6. ASSUME NEW h \in Handlers, Decide(h) PROVE FALSE
    BY <1>1, <2>0, <2>6 DEF Decide
  <2> QED
    BY <1>1, <2>1, <2>2, <2>3, <2>4, <2>5, <2>6, RoleWriters
<1> QED
  BY <1>1, Invariance, PTL DEF Spec, RemovalAnnounced

\* Statuses of join requests change only by these writes.
LEMMA RequestWriters ==
  ASSUME IInv, [Next]_vars
  PROVE  \/ UNCHANGED joinReq
         \/ \E h \in Handlers : JoinInsert(h) \/ Dissolve(h) \/ Decide(h)
  BY DEF Next, Step, vars, rows, CreateGroup, Begin, CheckSelf, CheckTarget, Write, Invalidate,
         AppendNotice, LoadMembers, AnnounceLeave, AnnounceDissolve, Remove, JoinCheck,
         LockRequest, CheckHandlerRole, Fail

\* What Decide does to the row that an accepted request is about.
LEMMA Accepting ==
  ASSUME IInv, NEW h \in Handlers, Decide(h)
  PROVE  LET r == frame[h].id IN
         /\ r \in Requests /\ joinReq[r].status = "PENDING" /\ joinReq[r].from \in Users
         /\ joinReq[r] = [from |-> joinReq[r].from, status |-> "PENDING"]
         /\ \A q \in Requests \ {r} : joinReq'[q] = joinReq[q]
         /\ UNCHANGED conv
         /\ \/ UNCHANGED role
            \/ /\ joinReq'[r].status = "ACCEPTED"
               /\ conv = "live" /\ role[joinReq[r].from] = NoRow
               /\ role' = [role EXCEPT ![joinReq[r].from] = "MEMBER"]
<1> DEFINE r == frame[h].id
<1>1. r \in Requests /\ joinReq[r].status = "PENDING" /\ joinReq[r].from \in Users
  BY DEF Decide, IInv, LockInv
<1>2. joinReq \in [Requests -> [from: Users \cup {NoUser}, status: Statuses]]
  BY DEF IInv, TypeOK
<1>3. joinReq[r] = [from |-> joinReq[r].from, status |-> "PENDING"]
  BY <1>1, <1>2
<1>4. (\A q \in Requests \ {r} : joinReq'[q] = joinReq[q]) /\ UNCHANGED conv
  BY <1>1, <1>2 DEF Decide
<1>5. frame[h].op \in JoinOps
  BY DEF Decide, IInv, LockInv
<1>6. CASE frame[h].op = "accept"
  BY <1>1, <1>2, <1>6 DEF Decide
<1>7. ASSUME frame[h].op = "reject" PROVE UNCHANGED role
  <2>1. "reject" # "accept"
    OBVIOUS
  <2> QED
    BY <1>7, <2>1 DEF Decide
<1> QED
  BY <1>1, <1>3, <1>4, <1>5, <1>6, <1>7 DEF JoinOps

\* Nobody enters an existing group but by the acceptance of a pending request
\* of theirs, and what has been decided about a request stays decided.
THEOREM JoinsAccepted == Spec => JoinByAcceptance
<1> DEFINE A == /\ \A u \in Users : role[u] = NoRow /\ role'[u] # NoRow /\ conv = "live" =>
                     \E r \in Requests : /\ joinReq[r] = [from |-> u, status |-> "PENDING"]
                                         /\ joinReq'[r].status = "ACCEPTED"
                /\ \A r \in Requests : joinReq[r].status \in {"ACCEPTED", "REJECTED"} =>
                     joinReq'[r].status \in {joinReq[r].status, "GONE"}
<1>1. ASSUME IInv, [Next]_vars PROVE [A]_vars
  <2>1. ASSUME NEW u \in Users, role[u] = NoRow, role'[u] # NoRow, conv = "live"
        PROVE  \E r \in Requests : /\ joinReq[r] = [from |-> u, status |-> "PENDING"]
                                   /\ joinReq'[r].status = "ACCEPTED"
    <3> USE <1>1 DEF IInv, TypeOK, Roles
    <3>1. PICK h \in Handlers : CreateGroup(h) \/ Write(h) \/ Remove(h) \/ Dissolve(h) \/ Decide(h)
      BY <2>1, RoleWriters
    <3>2. ~CreateGroup(h)
      BY <2>1 DEF CreateGroup
    <3>3. ~Write(h)
      BY <2>1 DEF Write, RowMatches, NewRole, Members
    <3>4. ~Remove(h)
      BY <2>1 DEF Remove
    <3>5. ~Dissolve(h)
      BY <2>1 DEF Dissolve
    <3>6. Decide(h)
      BY <3>1, <3>2, <3>3, <3>4, <3>5
    <3>7. u = joinReq[frame[h].id].from /\ joinReq'[frame[h].id].status = "ACCEPTED"
      BY <2>1, <3>6, Accepting
    <3> QED
      BY <3>6, <3>7, Accepting
  <2>2. ASSUME NEW r \in Requests, joinReq[r].status \in {"ACCEPTED", "REJECTED"}
        PROVE  joinReq'[r].status \in {joinReq[r].status, "GONE"}
    <3>1. joinReq \in [Requests -> [from: Users \cup {NoUser}, status: Statuses]]
      BY <1>1 DEF IInv, TypeOK
    <3>2. ASSUME NEW h \in Handlers, JoinInsert(h) PROVE joinReq'[r] = joinReq[r]
      BY <2>2, <3>1, <3>2 DEF JoinInsert
    <3>3. ASSUME NEW h \in Handlers, Dissolve(h) PROVE joinReq'[r].status = "GONE"
      <4>1. joinReq[r] \in [from: Users \cup {NoUser}, status: Statuses]
        BY <3>1
      <4>2. joinReq'[r] = [joinReq[r] EXCEPT !.status = IF @ = "FREE" THEN @ ELSE "GONE"]
        BY <3>3 DEF Dissolve
      <4> QED
        BY <2>2, <4>1, <4>2
    <3>4. ASSUME NEW h \in Handlers, Decide(h) PROVE joinReq'[r] = joinReq[r]
      BY <1>1, <2>2, <3>4, Accepting
    <3> QED
      BY <1>1, <3>2, <3>3, <3>4, RequestWriters
  <2> QED
    BY <2>1, <2>2
<1> QED
  BY <1>1, Invariance, PTL DEF Spec, JoinByAcceptance

\* The interleaved handlers implement the contract in which every request is
\* one atomic change.
THEOREM Implements == Spec => ImplementsContract
<1>1. Init => Contract!Init
  BY DEF Init, Contract!Init, NoRow
<1>2. ASSUME IInv, [Next]_vars PROVE [Contract!Next]_(Contract!vars)
  <2> USE DEF IInv, TypeOK, Roles, NoRow, GroupInv
  <2>1. ASSUME NEW h \in Handlers, CreateGroup(h) PROVE Contract!Found
    <3>1. \E u \in Users, others \in SUBSET Users :
             /\ u \notin others
             /\ \E a, b \in others : a # b
             /\ owner' = u
             /\ role' = [v \in Users |-> IF v = u THEN "OWNER"
                                         ELSE IF v \in others THEN "MEMBER" ELSE "NONE"]
      BY <2>1 DEF CreateGroup
    <3>2. conv = "none" /\ conv' = "live"
      BY <2>1 DEF CreateGroup
    <3> QED
      BY <3>1, <3>2 DEF Contract!Found
  <2>2. ASSUME NEW h \in Handlers, Write(h), role' # role PROVE Contract!Change
    <3>1. /\ frame[h].op \in RoleOps /\ frame[h].target \in Users /\ role[frame[h].target] # "NONE"
          /\ role' = [role EXCEPT ![frame[h].target] = NewRole(frame[h].op)]
          /\ UNCHANGED <<conv, owner>>
      BY <1>2, <2>2 DEF Write, RowMatches, NewRole, Members
    <3>2. frame[h].target # owner
      BY <1>2, <2>2, <3>1 DEF Write, RowMatches, NewRole, FrameInv
    <3>3. conv = "live"
      BY <1>2, <3>1 DEF OwnerRow, Members
    <3>4. PICK r \in {"MEMBER", "ADMIN"} : role' = [role EXCEPT ![frame[h].target] = r]
      BY <3>1 DEF NewRole
    <3>5. frame[h].target \in Users \ {owner}
      BY <3>1, <3>2
    <3> QED
      BY <3>1, <3>3, <3>4, <3>5 DEF Contract!Change, Contract!Others
  <2>3. ASSUME NEW h \in Handlers, Remove(h), role' # role PROVE Contract!Change
    <3>1. /\ frame[h].user \in Users \ {owner}
          /\ role' = [role EXCEPT ![frame[h].user] = "NONE"]
          /\ UNCHANGED <<conv, owner>>
      BY <1>2, <2>3 DEF Remove, FrameInv, UserSteps, Steps
    <3>2. role[frame[h].user] # "NONE"
      BY <1>2, <2>3, <3>1
    <3>3. conv = "live"
      BY <1>2, <3>1, <3>2 DEF OwnerRow, Members
    <3> QED
      BY <3>1, <3>3 DEF Contract!Change, Contract!Others
  <2>4. ASSUME NEW h \in Handlers, Dissolve(h) PROVE Contract!DissolveGroup \/ UNCHANGED <<conv, owner, role>>
    <3>1. conv # "none"
      BY <1>2, <2>4 DEF Dissolve, FrameInv, UserSteps, Steps
    <3>2. CASE conv = "live"
      BY <2>4, <3>2 DEF Dissolve, Contract!DissolveGroup
    <3>3. CASE conv = "gone"
      <4>1. \A u \in Users : role[u] = "NONE"
        BY <1>2, <3>3 DEF OwnerRow, Members
      <4>2. role = [u \in Users |-> "NONE"]
        BY <1>2, <4>1
      <4> QED
        BY <2>4, <3>3, <4>2 DEF Dissolve
    <3> QED
      BY <1>2, <3>1, <3>2, <3>3
  <2>5. ASSUME NEW h \in Handlers, Decide(h), role' # role PROVE Contract!Change
    <3> DEFINE u == joinReq[frame[h].id].from
    <3>1. /\ u \in Users /\ role[u] = "NONE" /\ conv = "live" /\ UNCHANGED <<conv, owner>>
          /\ role' = [role EXCEPT ![u] = "MEMBER"]
      BY <1>2, <2>5, Accepting DEF Decide
    <3>2. u # owner
      BY <1>2, <3>1 DEF OwnerRow
    <3> QED
      BY <3>1, <3>2 DEF Contract!Change, Contract!Others
  <2>6. \/ UNCHANGED <<conv, owner>>
        \/ \E h \in Handlers : CreateGroup(h) \/ Dissolve(h)
    <3>1. CASE UNCHANGED vars
      BY <3>1 DEF vars, rows
    <3>2. ASSUME NEW h \in Handlers, Begin(h) \/ Step(h) \/ Invalidate(h) \/ Fail(h), ~Dissolve(h)
          PROVE  UNCHANGED <<conv, owner>>
      BY <3>2 DEF rows, Step, Begin, CheckSelf, CheckTarget, Write, Invalidate, AppendNotice,
                  LoadMembers, AnnounceLeave, AnnounceDissolve, Remove, JoinCheck, JoinInsert,
                  LockRequest, CheckHandlerRole, Decide, Fail
    <3> QED
      BY <1>2, <3>1, <3>2 DEF Next
  <2> QED
    BY <1>2, <2>1, <2>2, <2>3, <2>4, <2>5, <2>6, RoleWriters DEF Contract!Next, Contract!vars
<1> QED
  BY <1>1, <1>2, Invariance, PTL DEF Spec, ImplementsContract, Contract!Spec

=============================================================================
