------------------------- MODULE FriendGraphProofs -------------------------
(***************************************************************************)
(* Theorems about FriendGraph for every set of users, handlers, requests   *)
(* and conversations.  A handler acts on what it has read; the inductive   *)
(* invariant IInv says what is still true of it when it acts.              *)
(***************************************************************************)
EXTENDS FriendGraph, TLAPS

\* A request that was made names two users, and only those a conversation was
\* made for are its members.
RowInv ==
    /\ \A r \in Requests : requests[r].status # "none" =>
          /\ requests[r].from \in Users /\ requests[r].to \in Users
          /\ requests[r].from # requests[r].to
    /\ \A c \in Convs : members[c] \subseteq pairOf[c]

\* Every friendship there is has been seen by every handler under way.
SinceInv == \A h \in Handlers : ~At(h, "idle") => FriendPairs(friends) \subseteq since[h]

\* Steps at which a frame holds two users.
PeerSteps == {"snapshot", "checkFriend", "insert", "deleteRows", "findSingle",
              "removeMember", "readSingle", "create"}
RequestSteps == {"lock", "commit", "readRequest", "writeReject"}
SendSteps == {"readType", "findPeer", "append"}

\* What the frame of h holds, and what is still so of what h has read.
FrameOK(h) ==
    /\ frame[h].step \in PeerSteps => Us(h) \in Pairs /\ frame[h].user # frame[h].peer
    /\ frame[h].step \in RequestSteps =>
          frame[h].request \in Requests /\ requests[frame[h].request].status # "none"
    /\ At(h, "commit") => rowLock[frame[h].request] = h /\ MayDecide(h, frame[h].request)
    /\ At(h, "removeMember") => frame[h].conv \in Convs
    /\ At(h, "snapshot") => frame[h].op = "add"
    /\ At(h, "checkFriend") => frame[h].op \in {"add", "open", "send"}
    /\ frame[h].step \in SendSteps => frame[h].op = "send"
    /\ frame[h].step \in SendSteps \cup {"checkFriend"} /\ frame[h].op = "send" =>
          /\ frame[h].user \in Users /\ frame[h].conv \in Convs
          /\ frame[h].found => pairOf[frame[h].conv] # {}
    /\ At(h, "checkFriend") /\ frame[h].op = "send" =>
          frame[h].found /\ frame[h].peer \in pairOf[frame[h].conv]
    /\ At(h, "findPeer") => frame[h].found

\* The properties of one handler that OpenedByFriends and SendsBetweenFriends state.
FriendOK(h) ==
    /\ At(h, "readSingle") \/ At(h, "create") => Us(h) \in since[h]
    /\ At(h, "append") /\ frame[h].found =>
          LET u == frame[h].user
              c == frame[h].conv
          IN  (\E v \in pairOf[c] \ {u} : {u, v} \in since[h]) \/ members[c] \subseteq {u}

IInv == /\ TypeOK /\ RowInv /\ SinceInv /\ FriendshipMutual
        /\ \A h \in Handlers : FrameOK(h) /\ FriendOK(h)

USE FriendConstants
-----------------------------------------------------------------------------
(* Pairs *)

LEMMA PairOfTwo ==
  ASSUME NEW u \in Users, NEW v \in Users, u # v
  PROVE  {u, v} \in Pairs
  BY DEF Pairs

LEMMA PairIsTwo ==
  ASSUME NEW p \in Pairs, NEW u \in p, NEW v \in p, u # v
  PROVE  p = {u, v} /\ u \in Users /\ v \in Users
  BY DEF Pairs

LEMMA FriendPairsGrow ==
  ASSUME NEW f, NEW u \in Users, NEW v \in Users, u # v
  PROVE  FriendPairs(f \cup {<<u, v>>, <<v, u>>}) \subseteq FriendPairs(f) \cup {{u, v}}
<1> SUFFICES ASSUME NEW p \in Pairs, NEW x \in p, NEW y \in p,
                    <<x, y>> \in f \cup {<<u, v>>, <<v, u>>}
             PROVE  p \in FriendPairs(f) \cup {{u, v}}
  BY DEF FriendPairs
<1>1. CASE <<x, y>> \in f
  BY <1>1 DEF FriendPairs
<1>2. CASE <<x, y>> \in {<<u, v>>, <<v, u>>}
  <2>1. u \in p /\ v \in p
    BY <1>2
  <2> QED
    BY <2>1, PairIsTwo
<1> QED
  BY <1>1, <1>2

LEMMA FriendPairsShrink ==
  ASSUME NEW f, NEW g, f \subseteq g
  PROVE  FriendPairs(f) \subseteq FriendPairs(g)
  BY DEF FriendPairs

-----------------------------------------------------------------------------
(* Frames: what beginning, going on and returning do to them *)

LEMMA FrameTypes ==
  ASSUME NEW f \in Frames
  PROVE  /\ \A s \in Steps : [f EXCEPT !.step = s] \in Frames
         /\ \A s \in Steps, c \in Convs : [f EXCEPT !.conv = c, !.step = s] \in Frames
         /\ \A s \in Steps, v \in Users : [f EXCEPT !.peer = v, !.step = s] \in Frames
         /\ \A s \in Steps, u, v \in Users :
               [f EXCEPT !.user = u, !.peer = v, !.step = s] \in Frames
         /\ \A s \in Steps, b \in BOOLEAN : [f EXCEPT !.found = b, !.step = s] \in Frames
  BY DEF Frames

\* The handler is idle, the others are as before, its locks are free.
LEMMA ReturnFacts ==
  ASSUME TypeOK, NEW h \in Handlers, Return(h)
  PROVE  /\ frame' \in [Handlers -> Frames]
         /\ since' \in [Handlers -> SUBSET Pairs]
         /\ rowLock' \in [Requests -> Handlers \cup {None}]
         /\ frame'[h].step = "idle"
         /\ \A g \in Handlers \ {h} : frame'[g] = frame[g] /\ since'[g] = since[g]
         /\ \A r \in Requests : rowLock[r] # h => rowLock'[r] = rowLock[r]
<1>1. IdleFrame \in Frames /\ IdleFrame.step = "idle"
  BY DEF IdleFrame, Frames, Steps
<1> QED
  BY <1>1 DEF Return, TypeOK

\* Only the step of the handler changes.
LEMMA GoToFacts ==
  ASSUME TypeOK, NEW h \in Handlers, NEW s \in Steps, GoTo(h, s)
  PROVE  /\ frame' \in [Handlers -> Frames]
         /\ frame'[h].step = s
         /\ frame'[h].op = frame[h].op /\ frame'[h].user = frame[h].user
         /\ frame'[h].peer = frame[h].peer /\ frame'[h].request = frame[h].request
         /\ frame'[h].conv = frame[h].conv /\ frame'[h].found = frame[h].found
         /\ \A g \in Handlers \ {h} : frame'[g] = frame[g]
         /\ since' = since
<1>1. frame[h] \in Frames /\ frame' = [frame EXCEPT ![h] = [frame[h] EXCEPT !.step = s]]
  BY DEF GoTo, TypeOK
<1>2. [frame[h] EXCEPT !.step = s] \in Frames
  BY <1>1, FrameTypes
<1>3. frame' \in [Handlers -> Frames] /\ frame'[h] = [frame[h] EXCEPT !.step = s]
  BY <1>1, <1>2 DEF TypeOK
<1>4. \A g \in Handlers \ {h} : frame'[g] = frame[g]
  BY <1>1 DEF TypeOK
<1> QED
  BY <1>1, <1>3, <1>4 DEF GoTo, Frames

\* A new frame holds what its first step needs.
LEMMA BeginFacts ==
  ASSUME IInv, NEW h \in Handlers, Request(h)
  PROVE  /\ frame' \in [Handlers -> Frames]
         /\ since' \in [Handlers -> SUBSET Pairs]
         /\ UNCHANGED <<friends, requests, rowLock, single, members, pairOf>>
         /\ At(h, "idle")
         /\ since'[h] = FriendPairs(friends)
         /\ frame'[h].step \notin {"idle", "commit", "removeMember", "append", "readSingle", "create"}
         /\ FrameOK(h)'
         /\ \A g \in Handlers \ {h} : frame'[g] = frame[g] /\ since'[g] = since[g]
<1> DEFINE Started(f) == /\ f \in Frames
                         /\ f.step \notin {"idle", "commit", "removeMember", "append", "readSingle", "create"}
                         /\ f.step \in PeerSteps => {f.user, f.peer} \in Pairs /\ f.user # f.peer
                         /\ f.step \in RequestSteps =>
                              f.request \in Requests /\ requests[f.request].status # "none"
                         /\ f.step = "checkFriend" => f.op = "open"
                         /\ f.step = "snapshot" => f.op = "add"
                         /\ f.step # "findPeer"
                         /\ f.step = "readType" =>
                              /\ f.op = "send" /\ f.user \in Users /\ f.conv \in Convs
                              /\ ~f.found
<1>1. \E f : Begin(h, f) /\ Started(f)
  <2>1. ASSUME NEW u \in Users, NEW v \in Users, BeginWithPeer(h, u, v)
        PROVE  \E f : Begin(h, f) /\ Started(f)
    <3>1. {u, v} \in Pairs /\ u # v
      BY <2>1, PairOfTwo DEF BeginWithPeer
    <3>2. PICK first \in {[op |-> "add", step |-> "snapshot"], [op |-> "delete", step |-> "deleteRows"],
                          [op |-> "open", step |-> "checkFriend"]} :
             Begin(h, [IdleFrame EXCEPT !.op = first.op, !.step = first.step, !.user = u, !.peer = v])
      BY <2>1 DEF BeginWithPeer
    <3>3. Started([IdleFrame EXCEPT !.op = first.op, !.step = first.step, !.user = u, !.peer = v])
      <4>1. CASE first = [op |-> "add", step |-> "snapshot"]
        BY <3>1, <4>1 DEF IdleFrame, Frames, Ops, Steps, PeerSteps, RequestSteps
      <4>2. CASE first = [op |-> "delete", step |-> "deleteRows"]
        BY <3>1, <4>2 DEF IdleFrame, Frames, Ops, Steps, PeerSteps, RequestSteps
      <4>3. CASE first = [op |-> "open", step |-> "checkFriend"]
        BY <3>1, <4>3 DEF IdleFrame, Frames, Ops, Steps, PeerSteps, RequestSteps
      <4> QED
        BY <3>2, <4>1, <4>2, <4>3
    <3> QED
      BY <3>2, <3>3
  <2>2. ASSUME NEW u \in Users, NEW r \in Requests, BeginWithRequest(h, u, r)
        PROVE  \E f : Begin(h, f) /\ Started(f)
    <3>1. PICK first \in {[op |-> "accept", step |-> "lock"], [op |-> "reject", step |-> "readRequest"]} :
             Begin(h, [IdleFrame EXCEPT !.op = first.op, !.step = first.step, !.user = u, !.request = r])
      BY <2>2 DEF BeginWithRequest
    <3>2. requests[r].status # "none"
      BY <2>2 DEF BeginWithRequest
    <3>3. Started([IdleFrame EXCEPT !.op = first.op, !.step = first.step, !.user = u, !.request = r])
      <4>1. CASE first = [op |-> "accept", step |-> "lock"]
        BY <3>2, <4>1 DEF IdleFrame, Frames, Ops, Steps, PeerSteps, RequestSteps
      <4>2. CASE first = [op |-> "reject", step |-> "readRequest"]
        BY <3>2, <4>2 DEF IdleFrame, Frames, Ops, Steps, PeerSteps, RequestSteps
      <4> QED
        BY <3>1, <4>1, <4>2
    <3> QED
      BY <3>1, <3>3
  <2>3. ASSUME NEW u \in Users, NEW c \in Convs, BeginSend(h, u, c)
        PROVE  \E f : Begin(h, f) /\ Started(f)
    <3>1. Begin(h, [IdleFrame EXCEPT !.op = "send", !.step = "readType", !.user = u, !.conv = c])
      BY <2>3 DEF BeginSend
    <3>2. Started([IdleFrame EXCEPT !.op = "send", !.step = "readType", !.user = u, !.conv = c])
      BY DEF IdleFrame, Frames, Ops, Steps, PeerSteps, RequestSteps
    <3> QED
      BY <3>1, <3>2
  <2> QED
    BY <2>1, <2>2, <2>3 DEF Request
<1>2. PICK f : Begin(h, f) /\ Started(f)
  BY <1>1
<1>3. FriendPairs(friends) \in SUBSET Pairs
  BY DEF FriendPairs
<1>4. /\ frame' = [frame EXCEPT ![h] = f]
      /\ since' = [since EXCEPT ![h] = FriendPairs(friends)]
      /\ UNCHANGED <<friends, requests, rowLock, single, members, pairOf>>
      /\ At(h, "idle")
  BY <1>2 DEF Begin, convVars
<1>5. frame' \in [Handlers -> Frames] /\ since' \in [Handlers -> SUBSET Pairs]
  BY <1>2, <1>3, <1>4 DEF IInv, TypeOK
<1>6. frame'[h] = f /\ since'[h] = FriendPairs(friends)
  BY <1>4 DEF IInv, TypeOK
<1>7. \A g \in Handlers \ {h} : frame'[g] = frame[g] /\ since'[g] = since[g]
  BY <1>4 DEF IInv, TypeOK
<1>8. FrameOK(h)'
  BY <1>2, <1>4, <1>6 DEF FrameOK, At, Us, PeerSteps, RequestSteps, SendSteps
<1> QED
  BY <1>2, <1>4, <1>5, <1>6, <1>7, <1>8

-----------------------------------------------------------------------------
(* Every step keeps IInv *)

\* Every variable keeps its type.
LEMMA TypeStep ==
  ASSUME IInv, NEW h \in Handlers, Request(h) \/ Handle(h)
  PROVE  TypeOK'
<1> USE DEF IInv, TypeOK, At, convVars, Steps
<1>1. CASE Request(h)
  BY <1>1, BeginFacts
<1>2. CASE Snapshot(h)
  <2>1. PICK b \in BOOLEAN :
        frame' = [frame EXCEPT ![h] = [frame[h] EXCEPT !.found = b, !.step = "checkFriend"]]
    BY <1>2 DEF Snapshot
  <2>2. [frame[h] EXCEPT !.found = b, !.step = "checkFriend"] \in Frames
    BY FrameTypes
  <2>3. UNCHANGED <<friends, requests, rowLock, single, members, pairOf, since>>
    BY <1>2 DEF Snapshot
  <2> QED
    BY <2>1, <2>2, <2>3
<1>3. CASE CheckFriend(h)
  BY <1>3, ReturnFacts, GoToFacts DEF CheckFriend
<1>4. CASE Insert(h)
  <2>1. requests' \in [Requests -> [from: Users \cup {None}, to: Users \cup {None}, status: Statuses]]
    <3>1. CASE frame[h].found
      BY <1>4, <3>1 DEF Insert
    <3>2. CASE ~frame[h].found
      <4>1. frame[h].user \in Users \cup {None} /\ frame[h].peer \in Users \cup {None}
        BY DEF Frames
      <4> QED
        BY <1>4, <3>2, <4>1 DEF Insert, Statuses
    <3> QED
      BY <3>1, <3>2
  <2> QED
    BY <1>4, <2>1, ReturnFacts DEF Insert
<1>5. CASE LockRequest(h)
  BY <1>5, ReturnFacts, GoToFacts DEF LockRequest
<1>6. CASE Commit(h)
  <2> DEFINE r == frame[h].request
         u == requests[r].from
         v == requests[r].to
  <2>1. r \in Requests /\ u \in Users /\ v \in Users /\ u # v
    BY <1>6 DEF Commit, FrameOK, RowInv, RequestSteps
  <2>2. /\ friends' = friends \cup {<<u, v>>, <<v, u>>}
        /\ requests' = [requests EXCEPT ![r] = [requests[r] EXCEPT !.status = "ACCEPTED"]]
        /\ rowLock' = [rowLock EXCEPT ![r] = None]
        /\ frame' = [frame EXCEPT ![h] = [frame[h] EXCEPT !.user = u, !.peer = v, !.step = "readSingle"]]
        /\ since' = [g \in Handlers |-> IF At(g, "idle") THEN {} ELSE since[g] \cup {{u, v}}]
        /\ UNCHANGED convVars
    BY <1>6 DEF Commit
  <2>3. [frame[h] EXCEPT !.user = u, !.peer = v, !.step = "readSingle"] \in Frames
    BY <2>1, FrameTypes
  <2>4. frame' \in [Handlers -> Frames]
    BY <2>2, <2>3
  <2>5. {u, v} \in Pairs
    BY <2>1, PairOfTwo
  <2>6. since' \in [Handlers -> SUBSET Pairs]
    BY <2>2, <2>5
  <2>7. requests' \in [Requests -> [from: Users \cup {None}, to: Users \cup {None}, status: Statuses]]
    <3>1. requests[r] \in [from: Users \cup {None}, to: Users \cup {None}, status: Statuses]
      BY <2>1
    <3>2. [requests[r] EXCEPT !.status = "ACCEPTED"] \in [from: Users \cup {None}, to: Users \cup {None}, status: Statuses]
      BY <3>1 DEF Statuses
    <3> HIDE DEF r
    <3> QED
      BY <2>2, <3>2
  <2> HIDE DEF r, u, v
  <2> QED
    BY <2>1, <2>2, <2>4, <2>6, <2>7
<1>7. CASE ReadRequest(h)
  BY <1>7, ReturnFacts, GoToFacts DEF ReadRequest
<1>8. CASE WriteReject(h)
  <2>1. requests' = [requests EXCEPT ![frame[h].request] =
                        [requests[frame[h].request] EXCEPT !.status = "REJECTED"]]
    BY <1>8 DEF WriteReject
  <2>2. frame[h].request \in Requests
    BY <1>8 DEF WriteReject, FrameOK, RequestSteps
  <2>3. requests' \in [Requests -> [from: Users \cup {None}, to: Users \cup {None}, status: Statuses]]
    BY <2>1, <2>2 DEF Statuses
  <2> QED
    BY <1>8, <2>3, ReturnFacts DEF WriteReject
<1>9. CASE DeleteRows(h)
  BY <1>9, GoToFacts DEF DeleteRows
<1>10. CASE FindSingle(h)
  <2>1. CASE single[Us(h)] = None
    BY <1>10, <2>1, ReturnFacts DEF FindSingle
  <2>2. CASE single[Us(h)] # None
    <3>1. single[Us(h)] \in Convs
      BY <1>10, <2>2 DEF FindSingle, FrameOK, PeerSteps
    <3>2. frame' = [frame EXCEPT ![h] = [frame[h] EXCEPT !.conv = single[Us(h)], !.step = "removeMember"]]
      BY <1>10, <2>2 DEF FindSingle
    <3>3. [frame[h] EXCEPT !.conv = single[Us(h)], !.step = "removeMember"] \in Frames
      BY <3>1, FrameTypes
    <3> QED
      BY <1>10, <2>2, <3>2, <3>3 DEF FindSingle
  <2> QED
    BY <2>1, <2>2
<1>11. CASE RemoveMember(h)
  BY <1>11, ReturnFacts, GoToFacts DEF RemoveMember
<1>12. CASE ReadSingle(h)
  BY <1>12, ReturnFacts, GoToFacts DEF ReadSingle
<1>13. CASE Create(h)
  <2>1. Us(h) \in Pairs /\ Us(h) \subseteq Users
    BY <1>13 DEF Create, FrameOK, PeerSteps, Pairs
  <2> QED
    BY <1>13, <2>1, ReturnFacts DEF Create
<1>14. CASE FindPeer(h)
  <2> DEFINE others == members[frame[h].conv] \ {frame[h].user}
  <2>1. CASE others = {}
    BY <1>14, <2>1, GoToFacts DEF FindPeer
  <2>2. CASE others # {}
    <3>1. PICK v \in others :
          frame' = [frame EXCEPT ![h] = [frame[h] EXCEPT !.peer = v, !.step = "checkFriend"]]
      BY <1>14, <2>2 DEF FindPeer
    <3>2. v \in Users
      BY <1>14 DEF FindPeer, FrameOK, SendSteps
    <3>3. [frame[h] EXCEPT !.peer = v, !.step = "checkFriend"] \in Frames
      BY <3>2, FrameTypes
    <3> QED
      BY <1>14, <2>2, <3>1, <3>3 DEF FindPeer
  <2> QED
    BY <2>1, <2>2
<1>15. CASE AppendMessage(h)
  BY <1>15, ReturnFacts, GoToFacts DEF AppendMessage
<1>16. CASE Fail(h)
  BY <1>16, ReturnFacts, GoToFacts DEF Fail
<1>17. CASE ReadType(h)
  <2>1. PICK b \in BOOLEAN, t \in {"findPeer", "append"} :
        frame' = [frame EXCEPT ![h] = [frame[h] EXCEPT !.found = b, !.step = t]]
    BY <1>17 DEF ReadType
  <2>2. [frame[h] EXCEPT !.found = b, !.step = t] \in Frames
    BY FrameTypes
  <2>3. UNCHANGED <<friends, requests, rowLock, single, members, pairOf, since>>
    BY <1>17 DEF ReadType
  <2> QED
    BY <2>1, <2>2, <2>3
<1> QED
  BY <1>1, <1>2, <1>3, <1>4, <1>5, <1>6, <1>7, <1>8, <1>9, <1>10, <1>11, <1>12, <1>13, <1>14,
     <1>15, <1>16, <1>17 DEF Handle

\* A step of h leaves alone what the frames of the others rely on.
Stable(h) ==
    /\ \A r \in Requests : requests[r].status # "none" => requests'[r].status # "none"
    /\ \A c \in Convs : pairOf[c] # {} => pairOf'[c] = pairOf[c] /\ members'[c] \subseteq members[c]
    /\ \A g \in Handlers \ {h} :
          /\ frame'[g] = frame[g]
          /\ ~At(g, "idle") => since[g] \subseteq since'[g]
          /\ At(g, "commit") => rowLock'[frame[g].request] = g
                                /\ requests'[frame[g].request] = requests[frame[g].request]

LEMMA OthersOK ==
  ASSUME IInv, NEW h \in Handlers, Stable(h), NEW g \in Handlers \ {h}
  PROVE  FrameOK(g)' /\ FriendOK(g)'
<1>1. FrameOK(g) /\ FriendOK(g)
  BY DEF IInv
<1>2. frame'[g] = frame[g]
  BY DEF Stable
<1>3. FrameOK(g)'
  BY <1>1, <1>2 DEF Stable, FrameOK, At, Us, MayDecide, SendSteps
<1>4. At(g, "append") /\ frame[g].found =>
        /\ frame[g].conv \in Convs /\ pairOf[frame[g].conv] # {} /\ since[g] \subseteq since'[g]
  BY <1>1 DEF FrameOK, At, SendSteps, Stable
<1>5. FriendOK(g)'
  <2>1. At(g, "readSingle") \/ At(g, "create") => Us(g) \in since'[g]
    BY <1>1 DEF Stable, FriendOK, At
  <2>2. ASSUME At(g, "append"), frame[g].found
        PROVE  LET u == frame[g].user
                   c == frame[g].conv
               IN  (\E v \in pairOf'[c] \ {u} : {u, v} \in since'[g]) \/ members'[c] \subseteq {u}
    <3> DEFINE u == frame[g].user
               c == frame[g].conv
    <3>1. (\E v \in pairOf[c] \ {u} : {u, v} \in since[g]) \/ members[c] \subseteq {u}
      BY <1>1, <2>2 DEF FriendOK
    <3>2. pairOf'[c] = pairOf[c] /\ members'[c] \subseteq members[c] /\ since[g] \subseteq since'[g]
      BY <1>4, <2>2 DEF Stable
    <3> HIDE DEF u, c
    <3>3. (\E v \in pairOf'[c] \ {u} : {u, v} \in since'[g]) \/ members'[c] \subseteq {u}
      BY <3>1, <3>2
    <3> QED
      BY <3>3 DEF u, c
  <2> QED
    BY <1>2, <2>1, <2>2 DEF FriendOK, At, Us
<1> QED
  BY <1>3, <1>5

LEMMA StableStep ==
  ASSUME IInv, NEW h \in Handlers, Request(h) \/ Handle(h)
  PROVE  Stable(h)
<1> USE DEF IInv, TypeOK, Stable, At, convVars, Steps
<1>0. ASSUME NEW g \in Handlers, At(g, "commit")
      PROVE  /\ frame[g].request \in Requests /\ rowLock[frame[g].request] = g
             /\ requests[frame[g].request].status # "none"
  BY <1>0 DEF FrameOK, RequestSteps
<1>1. CASE Request(h)
  BY <1>0, <1>1, BeginFacts
<1>2. CASE Snapshot(h)
  <2>1. UNCHANGED <<requests, rowLock, members, pairOf, since>>
    BY <1>2 DEF Snapshot
  <2>2. \A g \in Handlers \ {h} : frame'[g] = frame[g]
    BY <1>2 DEF Snapshot
  <2> QED
    BY <1>0, <2>1, <2>2
<1>3. CASE CheckFriend(h)
  BY <1>0, <1>3, ReturnFacts, GoToFacts DEF CheckFriend
<1>4. CASE Insert(h)
  <2>1. \A r \in Requests : requests[r].status # "none" => requests'[r] = requests[r]
    BY <1>4 DEF Insert, NoRequest
  <2>2. UNCHANGED convVars
    BY <1>4 DEF Insert
  <2> QED
    BY <1>0, <1>4, <2>1, <2>2, ReturnFacts DEF Insert
<1>5. CASE LockRequest(h)
  <2> DEFINE r == frame[h].request
  <2>1. rowLock[r] = None /\ r \in Requests
    BY <1>5 DEF LockRequest, FrameOK, RequestSteps
  <2>2. CASE MayDecide(h, r)
    BY <1>0, <1>5, <2>1, <2>2, GoToFacts DEF LockRequest
  <2>3. CASE ~MayDecide(h, r)
    BY <1>0, <1>5, <2>1, <2>3, ReturnFacts DEF LockRequest
  <2> QED
    BY <2>2, <2>3
<1>6. CASE Commit(h)
  <2> DEFINE r == frame[h].request
  <2>1. r \in Requests /\ rowLock[r] = h
    BY <1>6 DEF Commit, FrameOK, RequestSteps
  <2>2. /\ requests' = [requests EXCEPT ![r] = [requests[r] EXCEPT !.status = "ACCEPTED"]]
        /\ rowLock' = [rowLock EXCEPT ![r] = None]
        /\ UNCHANGED convVars
    BY <1>6 DEF Commit
  <2>3. ASSUME NEW g \in Handlers \ {h}
        PROVE  frame'[g] = frame[g] /\ (~At(g, "idle") => since[g] \subseteq since'[g])
    BY <1>6 DEF Commit
  <2>4. \A q \in Requests : q # r => requests'[q] = requests[q] /\ rowLock'[q] = rowLock[q]
    BY <2>1, <2>2
  <2>5. requests'[r].status = "ACCEPTED"
    BY <2>1, <2>2
  <2> HIDE DEF r
  <2> QED
    BY <1>0, <2>1, <2>2, <2>3, <2>4, <2>5
<1>7. CASE ReadRequest(h)
  BY <1>0, <1>7, ReturnFacts, GoToFacts DEF ReadRequest
<1>8. CASE WriteReject(h)
  <2>1. /\ requests' = [requests EXCEPT ![frame[h].request] =
                        [requests[frame[h].request] EXCEPT !.status = "REJECTED"]]
        /\ rowLock[frame[h].request] = None /\ frame[h].request \in Requests
    BY <1>8 DEF WriteReject, FrameOK, RequestSteps
  <2>2. requests'[frame[h].request].status = "REJECTED"
    BY <2>1
  <2>3. \A q \in Requests : q # frame[h].request => requests'[q] = requests[q]
    BY <2>1
  <2> QED
    BY <1>0, <1>8, <2>1, <2>2, <2>3, ReturnFacts DEF WriteReject
<1>9. CASE DeleteRows(h)
  BY <1>0, <1>9, ReturnFacts, GoToFacts DEF DeleteRows
<1>10. CASE FindSingle(h)
  BY <1>0, <1>10, ReturnFacts, GoToFacts DEF FindSingle
<1>11. CASE RemoveMember(h)
  BY <1>0, <1>11, ReturnFacts, GoToFacts DEF RemoveMember
<1>12. CASE ReadSingle(h)
  BY <1>0, <1>12, ReturnFacts, GoToFacts DEF ReadSingle
<1>13. CASE Create(h)
  BY <1>0, <1>13, ReturnFacts, GoToFacts DEF Create
<1>14. CASE FindPeer(h)
  <2>1. UNCHANGED <<requests, rowLock, members, pairOf, since>>
    BY <1>14, GoToFacts DEF FindPeer
  <2>2. \A g \in Handlers \ {h} : frame'[g] = frame[g]
    BY <1>14 DEF FindPeer, GoTo
  <2> QED
    BY <1>0, <2>1, <2>2
<1>15. CASE AppendMessage(h)
  BY <1>0, <1>15, ReturnFacts, GoToFacts DEF AppendMessage
<1>16. CASE Fail(h)
  BY <1>0, <1>16, ReturnFacts, GoToFacts DEF Fail
<1>17. CASE ReadType(h)
  <2>1. UNCHANGED <<requests, rowLock, members, pairOf, since>>
    BY <1>17 DEF ReadType
  <2>2. \A g \in Handlers \ {h} : frame'[g] = frame[g]
    BY <1>17 DEF ReadType
  <2> QED
    BY <1>0, <2>1, <2>2
<1> QED
  BY <1>1, <1>2, <1>3, <1>4, <1>5, <1>6, <1>7, <1>8, <1>9, <1>10, <1>11, <1>12, <1>13, <1>14,
     <1>15, <1>16, <1>17 DEF Handle

LEMMA RowStep ==
  ASSUME IInv, NEW h \in Handlers, Request(h) \/ Handle(h)
  PROVE  RowInv' /\ FriendshipMutual'
<1> USE DEF IInv, TypeOK, RowInv, FriendshipMutual, Friends, At, convVars
<1>1. CASE Request(h)
  BY <1>1, BeginFacts
<1>2. CASE Snapshot(h)
  <2>1. UNCHANGED <<friends, requests, members, pairOf>>
    BY <1>2 DEF Snapshot
  <2> QED
    BY <2>1
<1>3. CASE CheckFriend(h)
  <2>1. UNCHANGED <<friends, requests, members, pairOf>>
    BY <1>3 DEF CheckFriend
  <2> QED
    BY <2>1
<1>4. CASE Insert(h)
  <2>1. frame[h].user \in Users /\ frame[h].peer \in Users /\ frame[h].user # frame[h].peer
    <3>1. Us(h) \in Pairs /\ frame[h].user # frame[h].peer
      BY <1>4 DEF Insert, FrameOK, PeerSteps
    <3>2. frame[h].user \in Us(h) /\ frame[h].peer \in Us(h)
      BY DEF Us
    <3> QED
      BY <3>1, <3>2, PairIsTwo
  <2>2. UNCHANGED <<friends, members, pairOf>>
    BY <1>4 DEF Insert
  <2>3. CASE frame[h].found
    BY <1>4, <2>2, <2>3 DEF Insert
  <2>4. CASE ~frame[h].found
    <3>1. PICK r \in Requests : requests' = [requests EXCEPT ![r] =
                      [from |-> frame[h].user, to |-> frame[h].peer, status |-> "PENDING"]]
      BY <1>4, <2>4 DEF Insert
    <3> QED
      BY <2>1, <2>2, <3>1
  <2> QED
    BY <2>3, <2>4
<1>5. CASE LockRequest(h)
  <2>1. UNCHANGED <<friends, requests, members, pairOf>>
    BY <1>5 DEF LockRequest
  <2> QED
    BY <2>1
<1>6. CASE Commit(h)
  <2> DEFINE r == frame[h].request
         u == requests[r].from
         v == requests[r].to
  <2>1. r \in Requests /\ u \in Users /\ v \in Users /\ u # v
    BY <1>6 DEF Commit, FrameOK, RequestSteps
  <2>2. /\ friends' = friends \cup {<<u, v>>, <<v, u>>}
        /\ requests' = [requests EXCEPT ![r] = [requests[r] EXCEPT !.status = "ACCEPTED"]]
        /\ UNCHANGED <<members, pairOf>>
    BY <1>6 DEF Commit
  <2>3. requests'[r].from = u /\ requests'[r].to = v
    BY <2>1, <2>2
  <2>4. \A q \in Requests : q # r => requests'[q] = requests[q]
    BY <2>1, <2>2
  <2>5. RowInv'
    BY <2>1, <2>2, <2>3, <2>4
  <2> HIDE DEF r, u, v
  <2>6. FriendshipMutual'
    BY <2>1, <2>2
  <2> QED
    BY <2>5, <2>6
<1>7. CASE ReadRequest(h)
  <2>1. UNCHANGED <<friends, requests, members, pairOf>>
    BY <1>7 DEF ReadRequest
  <2> QED
    BY <2>1
<1>8. CASE WriteReject(h)
  <2>1. requests' = [requests EXCEPT ![frame[h].request] =
                        [requests[frame[h].request] EXCEPT !.status = "REJECTED"]]
    BY <1>8 DEF WriteReject
  <2>2. frame[h].request \in Requests /\ requests[frame[h].request].status # "none"
    BY <1>8 DEF WriteReject, FrameOK, RequestSteps
  <2>3. \A q \in Requests : requests'[q].from = requests[q].from /\ requests'[q].to = requests[q].to
    BY <2>1, <2>2
  <2>4. \A q \in Requests : q # frame[h].request => requests'[q] = requests[q]
    BY <2>1, <2>2
  <2>5. UNCHANGED <<friends, members, pairOf>>
    BY <1>8 DEF WriteReject
  <2> QED
    BY <2>2, <2>3, <2>4, <2>5
<1>9. CASE DeleteRows(h)
  <2>1. friends' = friends \ {<<frame[h].user, frame[h].peer>>, <<frame[h].peer, frame[h].user>>}
    BY <1>9 DEF DeleteRows, RowsBetween
  <2>2. UNCHANGED <<requests, members, pairOf>>
    BY <1>9 DEF DeleteRows
  <2> HIDE DEF TypeOK
  <2> QED
    BY <2>1, <2>2
<1>10. CASE FindSingle(h)
  <2>1. UNCHANGED <<friends, requests, members, pairOf>>
    BY <1>10 DEF FindSingle
  <2> QED
    BY <2>1
<1>11. CASE RemoveMember(h)
  <2>1. members' = [members EXCEPT ![frame[h].conv] = members[frame[h].conv] \ {frame[h].user}]
    BY <1>11 DEF RemoveMember
  <2>2. UNCHANGED <<friends, requests, pairOf>>
    BY <1>11 DEF RemoveMember
  <2> QED
    BY <2>1, <2>2
<1>12. CASE ReadSingle(h)
  <2>1. UNCHANGED <<friends, requests, members, pairOf>>
    BY <1>12 DEF ReadSingle
  <2> QED
    BY <2>1
<1>13. CASE Create(h)
  <2>1. \A c \in Convs : members'[c] \subseteq pairOf'[c]
    BY <1>13 DEF Create
  <2>2. UNCHANGED <<friends, requests>>
    BY <1>13 DEF Create
  <2> QED
    BY <2>1, <2>2
<1>14. CASE FindPeer(h)
  <2>1. UNCHANGED <<friends, requests, members, pairOf>>
    BY <1>14 DEF FindPeer
  <2> QED
    BY <2>1
<1>15. CASE AppendMessage(h)
  <2>1. UNCHANGED <<friends, requests, members, pairOf>>
    BY <1>15 DEF AppendMessage
  <2> QED
    BY <2>1
<1>16. CASE Fail(h)
  <2>1. UNCHANGED <<friends, requests, members, pairOf>>
    BY <1>16 DEF Fail
  <2> QED
    BY <2>1
<1>17. CASE ReadType(h)
  <2>1. UNCHANGED <<friends, requests, members, pairOf>>
    BY <1>17 DEF ReadType
  <2> QED
    BY <2>1
<1> QED
  BY <1>1, <1>2, <1>3, <1>4, <1>5, <1>6, <1>7, <1>8, <1>9, <1>10, <1>11, <1>12, <1>13, <1>14,
     <1>15, <1>16, <1>17 DEF Handle

LEMMA SinceStep ==
  ASSUME IInv, NEW h \in Handlers, Request(h) \/ Handle(h)
  PROVE  SinceInv'
<1> USE DEF IInv, TypeOK, SinceInv, At, convVars, Steps
<1>1. CASE Request(h)
  BY <1>1, BeginFacts
<1>2. CASE Snapshot(h)
  <2>1. UNCHANGED <<friends, since>> /\ ~At(h, "idle")
    BY <1>2 DEF Snapshot
  <2>2. \A g \in Handlers \ {h} : frame'[g] = frame[g]
    BY <1>2 DEF Snapshot
  <2> QED
    BY <2>1, <2>2
<1>3. CASE CheckFriend(h)
  BY <1>3, ReturnFacts, GoToFacts DEF CheckFriend
<1>4. CASE Insert(h)
  BY <1>4, ReturnFacts, GoToFacts DEF Insert
<1>5. CASE LockRequest(h)
  BY <1>5, ReturnFacts, GoToFacts DEF LockRequest
<1>6. CASE Commit(h)
  <2> DEFINE r == frame[h].request
         u == requests[r].from
         v == requests[r].to
  <2>1. r \in Requests /\ u \in Users /\ v \in Users /\ u # v
    BY <1>6 DEF Commit, FrameOK, RequestSteps, RowInv
  <2>2. friends' = friends \cup {<<u, v>>, <<v, u>>}
    BY <1>6 DEF Commit
  <2>3. FriendPairs(friends') \subseteq FriendPairs(friends) \cup {{u, v}}
    BY <2>1, <2>2, FriendPairsGrow
  <2>4. \A g \in Handlers : ~At(g, "idle") => since'[g] = since[g] \cup {{u, v}}
    BY <1>6 DEF Commit
  <2>5. \A g \in Handlers : ~At(g, "idle")' => ~At(g, "idle")
    BY <1>6 DEF Commit
  <2> HIDE DEF r, u, v
  <2> QED
    BY <2>3, <2>4, <2>5
<1>7. CASE ReadRequest(h)
  <2>1. CASE Return(h)
    BY <1>7, <2>1, ReturnFacts DEF ReadRequest
  <2>2. CASE GoTo(h, "writeReject")
    BY <1>7, <2>2, GoToFacts DEF ReadRequest
  <2> QED
    BY <1>7, <2>1, <2>2 DEF ReadRequest
<1>8. CASE WriteReject(h)
  BY <1>8, ReturnFacts, GoToFacts DEF WriteReject
<1>9. CASE DeleteRows(h)
  <2>1. friends' \subseteq friends
    BY <1>9 DEF DeleteRows
  <2>2. FriendPairs(friends') \subseteq FriendPairs(friends)
    BY <2>1, FriendPairsShrink
  <2> QED
    BY <1>9, <2>2, GoToFacts DEF DeleteRows
<1>10. CASE FindSingle(h)
  BY <1>10, ReturnFacts, GoToFacts DEF FindSingle
<1>11. CASE RemoveMember(h)
  BY <1>11, ReturnFacts, GoToFacts DEF RemoveMember
<1>12. CASE ReadSingle(h)
  <2>1. CASE Return(h)
    BY <1>12, <2>1, ReturnFacts DEF ReadSingle
  <2>2. CASE GoTo(h, "create")
    BY <1>12, <2>2, GoToFacts DEF ReadSingle
  <2> QED
    BY <1>12, <2>1, <2>2 DEF ReadSingle
<1>13. CASE Create(h)
  BY <1>13, ReturnFacts, GoToFacts DEF Create
<1>14. CASE FindPeer(h)
  <2>1. UNCHANGED <<friends, since>> /\ ~At(h, "idle")
    BY <1>14 DEF FindPeer, GoTo
  <2>2. \A g \in Handlers \ {h} : frame'[g] = frame[g]
    BY <1>14 DEF FindPeer, GoTo
  <2> QED
    BY <2>1, <2>2
<1>15. CASE AppendMessage(h)
  BY <1>15, ReturnFacts, GoToFacts DEF AppendMessage
<1>16. CASE Fail(h)
  BY <1>16, ReturnFacts, GoToFacts DEF Fail
<1>17. CASE ReadType(h)
  <2>1. UNCHANGED <<friends, since>> /\ ~At(h, "idle")
    BY <1>17 DEF ReadType
  <2>2. \A g \in Handlers \ {h} : frame'[g] = frame[g]
    BY <1>17 DEF ReadType
  <2> QED
    BY <2>1, <2>2
<1> QED
  BY <1>1, <1>2, <1>3, <1>4, <1>5, <1>6, <1>7, <1>8, <1>9, <1>10, <1>11, <1>12, <1>13, <1>14,
     <1>15, <1>16, <1>17 DEF Handle

\* A handler that has ended holds nothing.
LEMMA IdleOK ==
  ASSUME NEW h \in Handlers, frame'[h].step = "idle"
  PROVE  FrameOK(h)' /\ FriendOK(h)'
  BY DEF FrameOK, FriendOK, At, PeerSteps, RequestSteps, SendSteps

\* The frame of the handler that took the step.
LEMMA ActorOK ==
  ASSUME IInv, NEW h \in Handlers, Request(h) \/ Handle(h)
  PROVE  FrameOK(h)' /\ FriendOK(h)'
<1> USE DEF IInv, TypeOK, At, convVars, Steps
<1>1. CASE Request(h)
  BY <1>1, BeginFacts DEF FriendOK
<1>2. CASE Snapshot(h)
  <2>1. PICK b \in BOOLEAN :
        frame' = [frame EXCEPT ![h] = [frame[h] EXCEPT !.found = b, !.step = "checkFriend"]]
    BY <1>2 DEF Snapshot
  <2>2. frame'[h] = [frame[h] EXCEPT !.found = b, !.step = "checkFriend"]
    BY <2>1
  <2>3. Us(h) \in Pairs /\ frame[h].user # frame[h].peer /\ frame[h].op = "add"
    BY <1>2 DEF Snapshot, FrameOK, PeerSteps
  <2> QED
    BY <2>2, <2>3 DEF FrameOK, FriendOK, PeerSteps, RequestSteps, SendSteps, Us, Frames
<1>3. CASE CheckFriend(h)
  <2>1. /\ Us(h) \in Pairs /\ frame[h].user # frame[h].peer
        /\ frame[h].op = "send" => /\ frame[h].user \in Users /\ frame[h].conv \in Convs
                                   /\ frame[h].peer \in pairOf[frame[h].conv]
    BY <1>3 DEF CheckFriend, FrameOK, PeerSteps, SendSteps
  <2>2. Friends(frame[h].user, frame[h].peer) => Us(h) \in since[h]
    <3>1. FriendPairs(friends) \subseteq since[h]
      BY <1>3 DEF CheckFriend, SinceInv
    <3>2. Friends(frame[h].user, frame[h].peer) => Us(h) \in FriendPairs(friends)
      BY <2>1 DEF FriendPairs, Friends, Us
    <3> QED
      BY <3>1, <3>2
  <2>3. UNCHANGED pairOf
    BY <1>3 DEF CheckFriend
  <2>4. CASE Return(h)
    BY <2>4, ReturnFacts, IdleOK
  <2>5. CASE frame[h].op = "add" /\ GoTo(h, "insert")
    BY <2>1, <2>5, GoToFacts DEF FrameOK, FriendOK, PeerSteps, RequestSteps, SendSteps, Us
  <2>6. CASE /\ frame[h].op = "open" /\ GoTo(h, "readSingle")
             /\ Friends(frame[h].user, frame[h].peer)
    BY <2>1, <2>2, <2>6, GoToFacts DEF FrameOK, FriendOK, PeerSteps, RequestSteps, SendSteps, Us
  <2>7. CASE /\ frame[h].op = "send" /\ GoTo(h, "append")
             /\ Friends(frame[h].user, frame[h].peer)
    <3>1. FrameOK(h)'
      BY <2>1, <2>3, <2>7, GoToFacts DEF FrameOK, PeerSteps, RequestSteps, SendSteps
    <3>2. {frame[h].user, frame[h].peer} \in since[h]
      BY <2>2, <2>7 DEF Us
    <3>3. FriendOK(h)'
      BY <2>1, <2>3, <2>7, <3>2, GoToFacts DEF FriendOK
    <3> QED
      BY <3>1, <3>3
  <2> QED
    BY <1>3, <2>4, <2>5, <2>6, <2>7 DEF CheckFriend
<1>4. CASE Insert(h)
  BY <1>4, ReturnFacts, IdleOK DEF Insert
<1>5. CASE LockRequest(h)
  <2> DEFINE r == frame[h].request
  <2>1. r \in Requests /\ requests[r].status # "none"
    BY <1>5 DEF LockRequest, FrameOK, RequestSteps
  <2>2. CASE MayDecide(h, r)
    <3>1. /\ GoTo(h, "commit") /\ rowLock' = [rowLock EXCEPT ![r] = h]
          /\ UNCHANGED requests
      BY <1>5, <2>2 DEF LockRequest
    <3> QED
      BY <2>1, <2>2, <3>1, GoToFacts DEF FrameOK, FriendOK, PeerSteps, RequestSteps, SendSteps, MayDecide
  <2>3. CASE ~MayDecide(h, r)
    BY <1>5, <2>3, ReturnFacts, IdleOK DEF LockRequest
  <2> QED
    BY <2>2, <2>3
<1>6. CASE Commit(h)
  <2> DEFINE r == frame[h].request
         u == requests[r].from
         v == requests[r].to
  <2>1. r \in Requests /\ u \in Users /\ v \in Users /\ u # v
    BY <1>6 DEF Commit, FrameOK, RequestSteps, RowInv
  <2>2. /\ frame' = [frame EXCEPT ![h] = [frame[h] EXCEPT !.user = u, !.peer = v, !.step = "readSingle"]]
        /\ since' = [g \in Handlers |-> IF At(g, "idle") THEN {} ELSE since[g] \cup {{u, v}}]
        /\ ~At(h, "idle")
    BY <1>6 DEF Commit
  <2> HIDE DEF r, u, v
  <2>3. frame'[h].user = u /\ frame'[h].peer = v /\ frame'[h].step = "readSingle"
    BY <2>2 DEF Frames
  <2>4. {u, v} \in since'[h]
    BY <2>2
  <2>5. {u, v} \in Pairs
    BY <2>1, PairOfTwo
  <2> QED
    BY <2>1, <2>3, <2>4, <2>5 DEF FrameOK, FriendOK, PeerSteps, RequestSteps, SendSteps, Us
<1>7. CASE ReadRequest(h)
  <2>1. frame[h].request \in Requests /\ requests[frame[h].request].status # "none"
    BY <1>7 DEF ReadRequest, FrameOK, RequestSteps
  <2>2. UNCHANGED requests
    BY <1>7 DEF ReadRequest
  <2>3. CASE Return(h)
    BY <2>3, ReturnFacts, IdleOK
  <2>4. CASE GoTo(h, "writeReject")
    BY <2>1, <2>2, <2>4, GoToFacts DEF FrameOK, FriendOK, PeerSteps, RequestSteps, SendSteps
  <2> QED
    BY <1>7, <2>3, <2>4 DEF ReadRequest
<1>8. CASE WriteReject(h)
  BY <1>8, ReturnFacts, IdleOK DEF WriteReject
<1>9. CASE DeleteRows(h)
  <2>1. Us(h) \in Pairs /\ frame[h].user # frame[h].peer
    BY <1>9 DEF DeleteRows, FrameOK, PeerSteps
  <2> QED
    BY <1>9, <2>1, GoToFacts DEF DeleteRows, FrameOK, FriendOK, PeerSteps, RequestSteps, SendSteps, Us
<1>10. CASE FindSingle(h)
  <2>1. Us(h) \in Pairs /\ frame[h].user # frame[h].peer
    BY <1>10 DEF FindSingle, FrameOK, PeerSteps
  <2>2. CASE single[Us(h)] = None
    BY <1>10, <2>2, ReturnFacts, IdleOK DEF FindSingle
  <2>3. CASE single[Us(h)] # None
    <3>1. single[Us(h)] \in Convs
      BY <2>1, <2>3
    <3>2. frame' = [frame EXCEPT ![h] = [frame[h] EXCEPT !.conv = single[Us(h)], !.step = "removeMember"]]
      BY <1>10, <2>3 DEF FindSingle
    <3>3. /\ frame'[h].conv \in Convs /\ frame'[h].step = "removeMember"
          /\ frame'[h].user = frame[h].user /\ frame'[h].peer = frame[h].peer
      BY <3>1, <3>2 DEF Frames
    <3> QED
      BY <2>1, <3>3 DEF FrameOK, FriendOK, PeerSteps, RequestSteps, SendSteps, Us
  <2> QED
    BY <2>2, <2>3
<1>11. CASE RemoveMember(h)
  BY <1>11, ReturnFacts, IdleOK DEF RemoveMember
<1>12. CASE ReadSingle(h)
  <2>1. Us(h) \in Pairs /\ frame[h].user # frame[h].peer /\ Us(h) \in since[h]
    BY <1>12 DEF ReadSingle, FrameOK, FriendOK, PeerSteps
  <2>2. CASE Return(h)
    BY <2>2, ReturnFacts, IdleOK
  <2>3. CASE GoTo(h, "create")
    BY <2>1, <2>3, GoToFacts DEF FrameOK, FriendOK, PeerSteps, RequestSteps, SendSteps, Us
  <2> QED
    BY <1>12, <2>2, <2>3 DEF ReadSingle
<1>13. CASE Create(h)
  BY <1>13, ReturnFacts, IdleOK DEF Create
<1>14. CASE FindPeer(h)
  <2> DEFINE c == frame[h].conv
         others == members[c] \ {frame[h].user}
  <2>1. /\ frame[h].op = "send" /\ c \in Convs /\ frame[h].user \in Users /\ frame[h].found
        /\ pairOf[c] # {} /\ members[c] \subseteq pairOf[c] /\ members[c] \subseteq Users
    BY <1>14 DEF FindPeer, FrameOK, SendSteps, RowInv
  <2>2. UNCHANGED <<members, pairOf>>
    BY <1>14 DEF FindPeer
  <2>3. CASE others = {}
    <3>1. GoTo(h, "append")
      BY <1>14, <2>3 DEF FindPeer
    <3> QED
      BY <2>1, <2>2, <2>3, <3>1, GoToFacts DEF FrameOK, FriendOK, PeerSteps, RequestSteps, SendSteps
  <2>4. CASE others # {}
    <3>1. PICK v \in others :
          frame' = [frame EXCEPT ![h] = [frame[h] EXCEPT !.peer = v, !.step = "checkFriend"]]
      BY <1>14, <2>4 DEF FindPeer
    <3>2. frame'[h] = [frame[h] EXCEPT !.peer = v, !.step = "checkFriend"]
      BY <3>1
    <3>3. v \in pairOf[c] /\ {frame[h].user, v} \in Pairs /\ frame[h].user # v
      BY <2>1, PairOfTwo
    <3>4. /\ frame'[h].user = frame[h].user /\ frame'[h].peer = v /\ frame'[h].conv = c
          /\ frame'[h].op = "send" /\ frame'[h].step = "checkFriend" /\ frame'[h].found
      BY <2>1, <3>2 DEF Frames
    <3> HIDE DEF c
    <3> QED
      BY <2>1, <2>2, <3>3, <3>4 DEF FrameOK, FriendOK, PeerSteps, RequestSteps, SendSteps, Us
  <2> QED
    BY <2>3, <2>4
<1>15. CASE AppendMessage(h)
  BY <1>15, ReturnFacts, IdleOK DEF AppendMessage
<1>16. CASE Fail(h)
  BY <1>16, ReturnFacts, IdleOK DEF Fail
<1>17. CASE ReadType(h)
  <2> DEFINE made == pairOf[frame[h].conv] # {}
             t == IF made THEN "findPeer" ELSE "append"
  <2>1. /\ frame' = [frame EXCEPT ![h] = [frame[h] EXCEPT !.found = made, !.step = t]]
        /\ UNCHANGED pairOf
    BY <1>17 DEF ReadType
  <2>2. /\ frame[h].op = "send" /\ frame[h].user \in Users /\ frame[h].conv \in Convs
        /\ made \in BOOLEAN
    BY <1>17 DEF ReadType, FrameOK, SendSteps
  <2>3. /\ frame'[h].op = "send" /\ frame'[h].user = frame[h].user
        /\ frame'[h].conv = frame[h].conv /\ frame'[h].found = made /\ frame'[h].step = t
    BY <2>1, <2>2 DEF Frames
  <2>4. CASE made
    <3>1. frame'[h].step = "findPeer" /\ frame'[h].found /\ pairOf'[frame[h].conv] # {}
      BY <2>1, <2>3, <2>4
    <3> HIDE DEF made
    <3> QED
      BY <2>2, <2>3, <3>1 DEF FrameOK, FriendOK, PeerSteps, RequestSteps, SendSteps
  <2>5. CASE ~made
    <3>1. frame'[h].step = "append" /\ ~frame'[h].found
      BY <2>3, <2>5
    <3> HIDE DEF made
    <3> QED
      BY <2>2, <2>3, <3>1 DEF FrameOK, FriendOK, PeerSteps, RequestSteps, SendSteps
  <2> QED
    BY <2>4, <2>5
<1> QED
  BY <1>1, <1>2, <1>3, <1>4, <1>5, <1>6, <1>7, <1>8, <1>9, <1>10, <1>11, <1>12, <1>13, <1>14,
     <1>15, <1>16, <1>17 DEF Handle

LEMMA InitInv ==
  ASSUME Init
  PROVE  IInv
<1>1. IdleFrame \in Frames /\ IdleFrame.step = "idle"
  BY DEF IdleFrame, Frames, Steps
<1>2. TypeOK
  BY <1>1 DEF Init, TypeOK, NoRequest, Statuses
<1>3. RowInv /\ FriendshipMutual
  BY DEF Init, RowInv, FriendshipMutual, Friends, NoRequest
<1>4. \A h \in Handlers : At(h, "idle")
  BY <1>1 DEF Init, At
<1>5. SinceInv
  BY <1>4 DEF SinceInv
<1>6. \A h \in Handlers : FrameOK(h) /\ FriendOK(h)
  BY <1>4 DEF FrameOK, FriendOK, At, PeerSteps, RequestSteps, SendSteps
<1> QED
  BY <1>2, <1>3, <1>5, <1>6 DEF IInv

LEMMA StepInv ==
  ASSUME IInv, [Next]_vars
  PROVE  IInv'
<1>1. CASE Next
  <2>1. PICK h \in Handlers : Request(h) \/ Handle(h)
    BY <1>1 DEF Next
  <2>2. TypeOK' /\ RowInv' /\ SinceInv' /\ FriendshipMutual'
    BY <2>1, TypeStep, RowStep, SinceStep
  <2>3. FrameOK(h)' /\ FriendOK(h)'
    BY <2>1, ActorOK
  <2>4. ASSUME NEW g \in Handlers \ {h}
        PROVE  FrameOK(g)' /\ FriendOK(g)'
    BY <2>1, StableStep, OthersOK
  <2> QED
    BY <2>2, <2>3, <2>4 DEF IInv
<1>2. CASE UNCHANGED vars
  <2>1. TypeOK' /\ RowInv'
    BY <1>2 DEF vars, convVars, IInv, TypeOK, RowInv
  <2>2. SinceInv' /\ FriendshipMutual'
    BY <1>2 DEF vars, convVars, IInv, SinceInv, FriendshipMutual, Friends, At
  <2>3. ASSUME NEW h \in Handlers
        PROVE  FrameOK(h)' /\ FriendOK(h)'
    <3>1. FrameOK(h) /\ FriendOK(h)
      BY DEF IInv
    <3>2. UNCHANGED <<requests, rowLock, members, pairOf, frame, since>>
      BY <1>2 DEF vars, convVars
    <3> QED
      BY <3>1, <3>2 DEF FrameOK, FriendOK, At, Us, MayDecide
  <2> QED
    BY <2>1, <2>2, <2>3 DEF IInv
<1> QED
  BY <1>1, <1>2

-----------------------------------------------------------------------------
(* What a step does to friendships and to requests *)

\* Only the commit of an acceptance makes friends.
LEMMA AcceptanceStep ==
  ASSUME IInv, NEW h \in Handlers, Request(h) \/ Handle(h),
         NEW u \in Users, NEW v \in Users, Friends(u, v)', ~Friends(u, v)
  PROVE  \E r \in Requests :
            /\ {requests[r].from, requests[r].to} = {u, v}
            /\ requests[r].status = "PENDING" /\ requests'[r].status = "ACCEPTED"
            /\ At(h, "commit") /\ frame[h].request = r /\ frame[h].user = requests[r].to
<1>1. CASE Commit(h)
  <2> DEFINE r == frame[h].request
  <2>1. At(h, "commit") /\ r \in Requests /\ MayDecide(h, r)
    BY <1>1 DEF IInv, FrameOK, RequestSteps, Commit, At
  <2>2. /\ friends' = friends \cup {<<requests[r].from, requests[r].to>>,
                                    <<requests[r].to, requests[r].from>>}
        /\ requests' = [requests EXCEPT ![r] = [requests[r] EXCEPT !.status = "ACCEPTED"]]
    BY <1>1 DEF Commit
  <2>3. requests'[r].status = "ACCEPTED"
    BY <2>1, <2>2 DEF IInv, TypeOK
  <2>4. {requests[r].from, requests[r].to} = {u, v}
    BY <2>2 DEF Friends
  <2> QED
    BY <2>1, <2>3, <2>4 DEF MayDecide
<1>2. CASE ~Commit(h)
  <2>1. friends' \subseteq friends
    BY <1>2 DEF Request, BeginWithPeer, BeginWithRequest, BeginSend, Begin, Handle, Snapshot,
                CheckFriend, Insert, LockRequest, ReadRequest, WriteReject, DeleteRows, FindSingle,
                RemoveMember, ReadSingle, Create, ReadType, FindPeer, AppendMessage, Fail
  <2> QED
    BY <2>1 DEF Friends
<1> QED
  BY <1>1, <1>2

LEMMA FinalStep ==
  ASSUME IInv, NEW h \in Handlers, Request(h) \/ Handle(h), NEW q \in Requests
  PROVE  /\ requests[q].status = "REJECTED" => requests'[q] = requests[q]
         /\ requests[q].status = "ACCEPTED" => requests'[q].status # "PENDING"
<1> DEFINE r == frame[h].request
<1>1. CASE Insert(h)
  <2>1. requests[q].status # "none" => requests'[q] = requests[q]
    BY <1>1 DEF Insert, NoRequest, IInv, TypeOK
  <2> QED
    BY <2>1
<1>2. CASE Commit(h)
  <2>1. r \in Requests /\ requests[r].status = "PENDING"
    BY <1>2 DEF IInv, FrameOK, RequestSteps, Commit, At, MayDecide
  <2>2. requests' = [requests EXCEPT ![r] = [requests[r] EXCEPT !.status = "ACCEPTED"]]
    BY <1>2 DEF Commit
  <2> QED
    BY <2>1, <2>2 DEF IInv, TypeOK
<1>3. CASE WriteReject(h)
  <2>1. requests' = [requests EXCEPT ![r] = [requests[r] EXCEPT !.status = "REJECTED"]]
    BY <1>3 DEF WriteReject
  <2>2. requests[r].status = "REJECTED" /\ r \in Requests =>
           [requests[r] EXCEPT !.status = "REJECTED"] = requests[r]
    BY DEF IInv, TypeOK
  <2> HIDE DEF r
  <2>3. q # r => requests'[q] = requests[q]
    BY <2>1 DEF IInv, TypeOK
  <2>4. q = r => requests'[q] = [requests[q] EXCEPT !.status = "REJECTED"]
    BY <2>1 DEF IInv, TypeOK
  <2>5. [requests[q] EXCEPT !.status = "REJECTED"].status = "REJECTED"
    BY DEF IInv, TypeOK
  <2> QED
    BY <2>2, <2>3, <2>4, <2>5
<1>4. CASE ~Insert(h) /\ ~Commit(h) /\ ~WriteReject(h)
  <2>1. UNCHANGED requests
    BY <1>4 DEF Request, BeginWithPeer, BeginWithRequest, BeginSend, Begin, Handle, Snapshot,
                CheckFriend, LockRequest, ReadRequest, DeleteRows, FindSingle,
                RemoveMember, ReadSingle, Create, ReadType, FindPeer, AppendMessage, Fail
  <2> QED
    BY <2>1
<1> QED
  BY <1>1, <1>2, <1>3, <1>4

-----------------------------------------------------------------------------
(* Theorems *)

\* What the handlers have read is still true when they act on it.
THEOREM Invariance == Spec => []IInv
<1>1. Init => IInv
  BY InitInv
<1>2. IInv /\ [Next]_vars => IInv'
  BY StepInv
<1> QED
  BY <1>1, <1>2, PTL DEF Spec

\* Every variable keeps its type.
THEOREM TypeCorrect == Spec => []TypeOK
<1>1. IInv => TypeOK
  BY DEF IInv
<1> QED
  BY <1>1, Invariance, PTL

\* accept_friend_request and delete_friend keep friendship mutual, whatever
\* other requests they run among.
THEOREM Mutual == Spec => []FriendshipMutual
<1>1. IInv => FriendshipMutual
  BY DEF IInv
<1> QED
  BY <1>1, Invariance, PTL

\* get_or_create_single_conversation makes a conversation only for users who were
\* friends at some moment of the request; handle_send_msg stores a message in one only
\* for a sender who was a friend, at some moment of the send, of another of the two it
\* was made for, or when nobody else is left in it.
THEOREM FriendsAct == Spec => []ActsBetweenFriends
<1>1. IInv => ActsBetweenFriends
  BY DEF IInv, FriendOK, ActsBetweenFriends, OpenedByFriends, SendsBetweenFriends
<1> QED
  BY <1>1, Invariance, PTL

\* Users become friends only by the acceptance, by the one who was asked, of a
\* request pending at that moment: the lock of the row keeps what was read.
THEOREM ByAcceptance == Spec => FriendsByAcceptance
<1> DEFINE Accepted ==
      \A u, v \in Users : Friends(u, v)' /\ ~Friends(u, v) =>
          \E r \in Requests, h \in Handlers :
             /\ {requests[r].from, requests[r].to} = {u, v}
             /\ requests[r].status = "PENDING" /\ requests'[r].status = "ACCEPTED"
             /\ At(h, "commit") /\ frame[h].request = r /\ frame[h].user = requests[r].to
<1>1. IInv /\ [Next]_vars => [Accepted]_vars
  <2> SUFFICES ASSUME IInv, Next PROVE Accepted
    OBVIOUS
  <2>1. PICK h \in Handlers : Request(h) \/ Handle(h)
    BY DEF Next
  <2> SUFFICES ASSUME NEW u \in Users, NEW v \in Users, Friends(u, v)', ~Friends(u, v)
               PROVE  \E r \in Requests, g \in Handlers :
                         /\ {requests[r].from, requests[r].to} = {u, v}
                         /\ requests[r].status = "PENDING" /\ requests'[r].status = "ACCEPTED"
                         /\ At(g, "commit") /\ frame[g].request = r /\ frame[g].user = requests[r].to
    OBVIOUS
  <2> QED
    BY <2>1, AcceptanceStep
<1> QED
  BY <1>1, Invariance, PTL DEF Spec, FriendsByAcceptance

\* A rejection stands, and an acceptance never becomes pending again.
THEOREM Final == Spec => RejectionFinal
<1> DEFINE Kept ==
      \A r \in Requests :
          /\ requests[r].status = "REJECTED" => requests'[r] = requests[r]
          /\ requests[r].status = "ACCEPTED" => requests'[r].status # "PENDING"
<1>1. IInv /\ [Next]_vars => [Kept]_vars
  BY FinalStep DEF Next
<1> QED
  BY <1>1, Invariance, PTL DEF Spec, RejectionFinal
=============================================================================
