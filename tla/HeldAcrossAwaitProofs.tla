------------------------ MODULE HeldAcrossAwaitProofs -----------------------
(***************************************************************************)
(* The two things the server holds across an await.                        *)
(*                                                                         *)
(* The connection pool, for any tasks, strands, threads and pool size: a   *)
(* connection has one user, the mutex is held across an await by who makes *)
(* a pooled connection, and never once the pool is warm.                   *)
(*                                                                         *)
(* writing_ of a session, for any lines, sizes and number of writers: one  *)
(* writer at a time, no line left without one, outgoing_bytes_ the bytes   *)
(* of what is queued, and LineChannel as what the client sees.             *)
(***************************************************************************)
EXTENDS ConnPool, SessionWriter, FiniteSetTheorems, SequenceTheorems, TLAPS

(* The connection pool *)

\* Who has a connection, and that nobody else has it, nor the pool.
Holding == {"connected", "using", "finished", "waitReturn"}
Holds == \A t \in Tasks : conn[t] # 0 <=> pc[t] \in Holding
Apart ==
    /\ \A t, u \in Tasks : t # u /\ conn[t] # 0 => conn[u] # conn[t]
    /\ \A t \in Tasks : \A i \in DOMAIN idle : conn[t] # idle[i]
    /\ \A i, j \in DOMAIN idle : idle[i] = idle[j] => i = j

IInv == TypeOK /\ Holds /\ Apart /\ LockHeldToConnect

USE PoolConstants
-----------------------------------------------------------------------------
(* There is an id for a new connection *)

LEMMA UpTo ==
  ASSUME NEW n \in Nat
  PROVE  IsFiniteSet(1..n) /\ Cardinality(1..n) = n
<1>1. IsFiniteSet(1..n) /\ Cardinality(1..n) = IF 1 > n THEN 0 ELSE n - 1 + 1
  BY FS_Interval
<1> QED
  BY <1>1

LEMMA ConnsAre ==
  /\ Cardinality(Tasks) \in Nat /\ Conns \subseteq Nat /\ 0 \notin Conns
  /\ IsFiniteSet(Conns) /\ Cardinality(Conns) = Cardinality(Tasks) + PoolSize
<1>1. Cardinality(Tasks) \in Nat
  BY FS_CardinalityType
<1> DEFINE n == Cardinality(Tasks) + PoolSize
<1>2. n \in Nat /\ Conns = 1..n
  BY <1>1 DEF Conns
<1> HIDE DEF n
<1>3. Conns \subseteq Nat /\ 0 \notin Conns
  BY <1>2
<1>4. IsFiniteSet(Conns) /\ Cardinality(Conns) = n
  BY <1>2, UpTo
<1> QED
  BY <1>1, <1>3, <1>4 DEF n

\* The other tasks and the pool cannot have them all.
LEMMA Fresh ==
  ASSUME TypeOK, NEW t \in Tasks, conn[t] = 0
  PROVE  /\ FreshConn \in Conns
         /\ \A i \in DOMAIN idle : idle[i] # FreshConn
         /\ \A u \in Tasks : conn[u] # FreshConn
<1> DEFINE Others == Tasks \ {t}
           Used == {conn[u] : u \in Others}
           f == [u \in Others |-> conn[u]]
<1>1. /\ idle \in Seq(Conns) /\ Len(idle) \in Nat /\ Len(idle) <= PoolSize
      /\ DOMAIN idle = 1..Len(idle)
  BY DEF TypeOK
<1>2. IsFiniteSet(IdleConns) /\ Cardinality(IdleConns) <= PoolSize
  <2>1. IsFiniteSet(1..Len(idle)) /\ Cardinality(1..Len(idle)) <= PoolSize
    BY <1>1, UpTo
  <2>2. idle \in Surjection(1..Len(idle), IdleConns)
    <3>1. idle \in [1..Len(idle) -> Conns]
      BY <1>1
    <3> QED
      BY <1>1, <3>1 DEF Surjection, IdleConns
  <2>3. IsFiniteSet(IdleConns) /\ Cardinality(IdleConns) <= Cardinality(1..Len(idle))
    BY <2>1, <2>2, FS_Surjection
  <2> QED
    BY <2>1, <2>3, FS_CardinalityType
<1>3. IsFiniteSet(Used) /\ Cardinality(Used) <= Cardinality(Tasks) - 1
  <2>1. IsFiniteSet(Others) /\ Cardinality(Others) = Cardinality(Tasks) - 1
    BY FS_RemoveElement
  <2>2. f \in Surjection(Others, Used)
    BY DEF Surjection
  <2>3. IsFiniteSet(Used) /\ Cardinality(Used) <= Cardinality(Others)
    BY <2>1, <2>2, FS_Surjection
  <2> QED
    BY <2>1, <2>3
<1>4. \E c \in Conns : c \notin IdleConns \cup Used
  <2> SUFFICES ASSUME Conns \subseteq IdleConns \cup Used PROVE FALSE
    OBVIOUS
  <2>1. /\ IsFiniteSet(IdleConns \cup Used)
        /\ Cardinality(IdleConns \cup Used)
             = Cardinality(IdleConns) + Cardinality(Used) - Cardinality(IdleConns \cap Used)
    BY <1>2, <1>3, FS_Union
  <2>2. Cardinality(IdleConns \cap Used) \in Nat
    <3>1. IsFiniteSet(IdleConns \cap Used)
      BY <1>2, FS_Subset
    <3> QED
      BY <3>1, FS_CardinalityType
  <2>3. Cardinality(Conns) <= Cardinality(IdleConns \cup Used)
    BY <2>1, FS_Subset
  <2>4. /\ Cardinality(IdleConns) \in Nat /\ Cardinality(Used) \in Nat
        /\ Cardinality(Tasks) \in Nat
    BY <1>2, <1>3, FS_CardinalityType
  <2> HIDE DEF Used, Others
  <2> QED
    BY <1>2, <1>3, <2>1, <2>2, <2>3, <2>4, ConnsAre
<1>5. \E c \in Conns : c \notin IdleConns /\ \A u \in Tasks : conn[u] # c
  BY <1>4, ConnsAre
<1>6. FreshConn \in Conns /\ FreshConn \notin IdleConns /\ \A u \in Tasks : conn[u] # FreshConn
  BY <1>5 DEF FreshConn
<1> QED
  BY <1>6 DEF IdleConns

-----------------------------------------------------------------------------
(* The stack of idle connections *)

LEMMA Popped ==
  ASSUME NEW q \in Seq(Conns), q # <<>>
  PROVE  /\ Len(q) \in DOMAIN q /\ q[Len(q)] \in Conns
         /\ SubSeq(q, 1, Len(q) - 1) \in Seq(Conns)
         /\ Len(SubSeq(q, 1, Len(q) - 1)) = Len(q) - 1
         /\ \A i \in DOMAIN SubSeq(q, 1, Len(q) - 1) :
              i \in DOMAIN q /\ i # Len(q) /\ SubSeq(q, 1, Len(q) - 1)[i] = q[i]
<1>1. Len(q) \in Nat \ {0} /\ DOMAIN q = 1..Len(q) /\ q \in [1..Len(q) -> Conns]
  OBVIOUS
<1> DEFINE r == SubSeq(q, 1, Len(q) - 1)
<1>2. \A i \in 1..(Len(q) - 1) : q[i] \in Conns
  BY <1>1
<1>3. r \in Seq(Conns) /\ Len(r) = Len(q) - 1 /\ \A i \in 1..(Len(q) - 1) : r[i] = q[i]
  BY <1>1, <1>2, SubSeqProperties
<1>4. DOMAIN r = 1..(Len(q) - 1)
  BY <1>3
<1> QED
  BY <1>1, <1>3, <1>4

LEMMA Pushed ==
  ASSUME NEW q \in Seq(Conns), NEW c \in Conns
  PROVE  /\ Append(q, c) \in Seq(Conns) /\ Len(Append(q, c)) = Len(q) + 1
         /\ \A i \in DOMAIN Append(q, c) : \/ i \in DOMAIN q /\ Append(q, c)[i] = q[i]
                                           \/ i = Len(q) + 1 /\ Append(q, c)[i] = c
OBVIOUS

-----------------------------------------------------------------------------
(* The invariant *)

LEMMA TypeStep ==
  ASSUME TypeOK, Holds, [Next]_vars
  PROVE  TypeOK'
<1>1. /\ pc \in [Tasks -> Steps] /\ kind \in [Tasks -> {"plain", "handle"}]
      /\ conn \in [Tasks -> Conns \cup {0}] /\ lock \in Tasks \cup {NoTask}
      /\ created \in 0..PoolSize /\ idle \in Seq(Conns) /\ Len(idle) <= PoolSize
  BY DEF TypeOK
<1> DEFINE PcOK == pc' \in [Tasks -> Steps]
           RestOK == /\ conn' \in [Tasks -> Conns \cup {0}] /\ lock' \in Tasks \cup {NoTask}
                     /\ created' \in 0..PoolSize
                     /\ idle' \in Seq(Conns) /\ Len(idle') <= PoolSize
<1>2. ASSUME NEW t \in Tasks, NEW step \in Steps, GoTo(t, step) PROVE PcOK
  BY <1>1, <1>2 DEF GoTo
<1>3. ASSUME NEW t \in Tasks, TakeConnection(t) PROVE PcOK /\ RestOK
  <2>1. PcOK
    <3>1. GoTo(t, "using") \/ GoTo(t, "connecting")
      BY <1>3 DEF TakeConnection
    <3> QED
      BY <1>2, <3>1 DEF Steps
  <2>2. CASE /\ idle # <<>> /\ conn' = [conn EXCEPT ![t] = idle[Len(idle)]]
             /\ idle' = SubSeq(idle, 1, Len(idle) - 1) /\ UNCHANGED <<lock, created>>
    <3>1. idle[Len(idle)] \in Conns /\ idle' \in Seq(Conns) /\ Len(idle') = Len(idle) - 1
      BY <1>1, <2>2, Popped
    <3> QED
      BY <1>1, <2>1, <2>2, <3>1
  <2>3. CASE created < PoolSize /\ created' = created + 1 /\ lock' = t /\ UNCHANGED <<conn, idle>>
    BY <1>1, <2>1, <2>3
  <2>4. CASE UNCHANGED <<conn, lock, created, idle>>
    BY <1>1, <2>1, <2>4
  <2> QED
    BY <1>3, <2>2, <2>3, <2>4 DEF TakeConnection
<1>4. ASSUME NEW t \in Tasks, pc[t] \in Holding, UNCHANGED <<lock, created>>,
             ReturnConnection(t) \/ (conn' = [conn EXCEPT ![t] = 0] /\ UNCHANGED idle)
      PROVE  RestOK
  <2>1. conn[t] \in Conns
    BY <1>1, <1>4 DEF Holds
  <2>2. /\ conn' = [conn EXCEPT ![t] = 0]
        /\ idle' = idle \/ (Len(idle) < PoolSize /\ idle' = Append(idle, conn[t]))
    BY <1>4 DEF ReturnConnection
  <2>3. conn' \in [Tasks -> Conns \cup {0}]
    BY <1>1, <2>2
  <2>4. Len(idle) \in Nat
    BY <1>1
  <2>5. idle' \in Seq(Conns) /\ Len(idle') <= PoolSize
    BY <1>1, <2>1, <2>2, <2>4, Pushed, SMTT(20)
  <2> QED
    BY <1>1, <1>4, <2>3, <2>5
<1>5. ASSUME UNCHANGED <<conn, lock, created, idle>> PROVE RestOK
  BY <1>1, <1>5
<1>6. ASSUME NEW t \in Tasks, Begin(t) PROVE TypeOK'
  <2>1. PcOK /\ RestOK /\ kind' \in [Tasks -> {"plain", "handle"}]
    BY <1>1, <1>2, <1>5, <1>6 DEF Begin, Steps
  <2> QED
    BY <2>1 DEF TypeOK
<1>7. ASSUME NEW t \in Tasks, Work(t) PROVE PcOK /\ RestOK /\ kind' = kind
  <2>1. CASE Acquire(t)
    BY <1>2, <1>3, <1>5, <2>1 DEF Acquire, Steps
  <2>2. CASE AcquireWoken(t)
    BY <1>3, <2>2 DEF AcquireWoken
  <2>3. CASE Connect(t)
    <3>1. /\ PcOK
          /\ UNCHANGED <<kind, lock, created, idle>>
          /\ conn' = conn \/ conn' = [conn EXCEPT ![t] = FreshConn]
      BY <1>2, <2>3 DEF Connect, Steps
    <3>2. FreshConn \in Conns
      BY <2>3, Fresh DEF Holds, Holding, Connect
    <3> QED
      BY <1>1, <3>1, <3>2
  <2>4. CASE Resume(t)
    <3>1. /\ GoTo(t, "using") \/ GoTo(t, "idle")
          /\ lock' = lock \/ lock' = NoTask
          /\ UNCHANGED <<kind, conn, created, idle>>
      BY <2>4 DEF Resume
    <3> QED
      BY <1>1, <1>2, <3>1 DEF Steps
  <2>5. CASE Query(t)
    BY <1>2, <1>5, <2>5 DEF Query, Steps
  <2>6. CASE Finish(t)
    <3>1. /\ pc[t] \in Holding /\ UNCHANGED <<kind, lock, created>>
          /\ GoTo(t, "idle") \/ GoTo(t, "waitReturn")
          /\ \/ ReturnConnection(t) \/ UNCHANGED <<conn, idle>>
             \/ conn' = [conn EXCEPT ![t] = 0] /\ UNCHANGED idle
      BY <2>6 DEF Finish, Holding, ReturnConnection
    <3> QED
      BY <1>2, <1>4, <1>5, <3>1 DEF Steps
  <2>7. CASE FinishWoken(t)
    <3>1. /\ pc[t] \in Holding /\ UNCHANGED <<kind, lock, created>>
          /\ GoTo(t, "idle") /\ ReturnConnection(t)
      BY <2>7 DEF FinishWoken, Holding, ReturnConnection
    <3> QED
      BY <1>2, <1>4, <3>1 DEF Steps
  <2> QED
    BY <1>7, <2>1, <2>2, <2>3, <2>4, <2>5, <2>6, <2>7 DEF Work
<1>8. CASE UNCHANGED vars
  BY <1>8 DEF vars, TypeOK
<1> QED
  BY <1>1, <1>6, <1>7, <1>8 DEF Next, TypeOK

\* What a step does to one task's connection and to the pool.
LEMMA Cases ==
  ASSUME IInv, NEW t \in Tasks, Work(t)
  PROVE  /\ \A u \in Tasks : u # t => conn'[u] = conn[u] /\ pc'[u] = pc[u]
         /\ \/ /\ idle # <<>> /\ conn[t] = 0 /\ conn'[t] = idle[Len(idle)] /\ pc'[t] = "using"
               /\ idle' = SubSeq(idle, 1, Len(idle) - 1)
            \/ /\ conn[t] = 0 /\ conn'[t] = FreshConn /\ pc'[t] = "connected"
               /\ idle' = idle
            \/ /\ conn'[t] = conn[t] /\ idle' = idle
               /\ pc[t] \in Holding <=> pc'[t] \in Holding
            \/ /\ conn[t] # 0 /\ conn'[t] = 0 /\ pc'[t] = "idle"
               /\ idle' = idle \/ idle' = Append(idle, conn[t])
<1>1. /\ pc \in [Tasks -> Steps] /\ conn \in [Tasks -> Conns \cup {0}]
      /\ conn[t] # 0 <=> pc[t] \in Holding
  BY DEF IInv, TypeOK, Holds
<1>2. ASSUME NEW step, GoTo(t, step)
      PROVE  pc'[t] = step /\ \A u \in Tasks : u # t => pc'[u] = pc[u]
  BY <1>1, <1>2 DEF GoTo
<1>3. ASSUME NEW c, conn' = [conn EXCEPT ![t] = c]
      PROVE  conn'[t] = c /\ \A u \in Tasks : u # t => conn'[u] = conn[u]
  BY <1>1, <1>3
<1> USE DEF Holding
<1>4. CASE Acquire(t) \/ AcquireWoken(t)
  <2>1. CASE TakeConnection(t)
    BY <1>1, <1>2, <1>3, <1>4, <2>1 DEF Acquire, AcquireWoken, TakeConnection
  <2>2. CASE GoTo(t, "waitLock") /\ UNCHANGED <<conn, lock, created, idle>>
    BY <1>1, <1>2, <1>4, <2>2 DEF Acquire, AcquireWoken
  <2> QED
    BY <1>4, <2>1, <2>2 DEF Acquire, AcquireWoken
<1>5. CASE Connect(t)
  BY <1>1, <1>2, <1>3, <1>5 DEF Connect
<1>6. CASE Resume(t)
  <2>1. /\ UNCHANGED <<conn, idle>>
        /\ \/ pc[t] = "connected" /\ GoTo(t, "using")
           \/ pc[t] = "failed" /\ GoTo(t, "idle")
    BY <1>6 DEF Resume
  <2> QED
    BY <1>2, <2>1
<1>7. CASE Query(t)
  BY <1>2, <1>7 DEF Query
<1>8. CASE Finish(t) \/ FinishWoken(t)
  <2>1. /\ pc[t] \in Holding
        /\ \/ GoTo(t, "waitReturn") /\ UNCHANGED <<conn, idle>>
           \/ /\ GoTo(t, "idle") /\ conn' = [conn EXCEPT ![t] = 0]
              /\ idle' = idle \/ idle' = Append(idle, conn[t])
    BY <1>8 DEF Finish, FinishWoken, ReturnConnection
  <2> QED
    BY <1>1, <1>2, <1>3, <2>1
<1> QED
  BY <1>4, <1>5, <1>6, <1>7, <1>8 DEF Work

LEMMA ApartStep ==
  ASSUME IInv, NEW t \in Tasks, Work(t)
  PROVE  Holds' /\ Apart'
<1>1. /\ conn \in [Tasks -> Conns \cup {0}] /\ idle \in Seq(Conns) /\ 0 \notin Conns
      /\ Holds /\ Apart
  BY ConnsAre DEF IInv, TypeOK
<1>2. \A u \in Tasks : u # t => conn'[u] = conn[u] /\ pc'[u] = pc[u]
  BY Cases
<1>3. ASSUME conn'[t] # 0 <=> pc'[t] \in Holding PROVE Holds'
  BY <1>1, <1>2, <1>3 DEF Holds
<1>4. CASE /\ idle # <<>> /\ conn[t] = 0 /\ conn'[t] = idle[Len(idle)] /\ pc'[t] = "using"
           /\ idle' = SubSeq(idle, 1, Len(idle) - 1)
  <2>1. /\ Len(idle) \in DOMAIN idle /\ idle[Len(idle)] \in Conns
        /\ \A i \in DOMAIN idle' : i \in DOMAIN idle /\ i # Len(idle) /\ idle'[i] = idle[i]
    BY <1>1, <1>4, Popped
  <2>2. Holds'
    BY <1>1, <1>3, <1>4, <2>1 DEF Holding
  <2>3. Apart'
    BY <1>1, <1>2, <1>4, <2>1 DEF Apart
  <2> QED
    BY <2>2, <2>3
<1>5. CASE /\ conn[t] = 0 /\ conn'[t] = FreshConn /\ pc'[t] = "connected" /\ idle' = idle
  <2>1. /\ FreshConn \in Conns /\ \A i \in DOMAIN idle : idle[i] # FreshConn
        /\ \A u \in Tasks : conn[u] # FreshConn
    BY <1>5, Fresh DEF IInv
  <2>2. Holds'
    BY <1>1, <1>3, <1>5, <2>1 DEF Holding
  <2>3. Apart'
    BY <1>1, <1>2, <1>5, <2>1 DEF Apart
  <2> QED
    BY <2>2, <2>3
<1>6. CASE /\ conn'[t] = conn[t] /\ idle' = idle /\ (pc[t] \in Holding <=> pc'[t] \in Holding)
  <2>1. Holds'
    BY <1>1, <1>3, <1>6 DEF Holds
  <2>2. Apart'
    BY <1>1, <1>2, <1>6 DEF Apart
  <2> QED
    BY <2>1, <2>2
<1>7. CASE /\ conn[t] # 0 /\ conn'[t] = 0 /\ pc'[t] = "idle"
           /\ idle' = idle \/ idle' = Append(idle, conn[t])
  <2>1. Holds'
    BY <1>3, <1>7 DEF Holding
  <2>2. conn[t] \in Conns
    BY <1>1, <1>7
  <2>3. CASE idle' = idle
    BY <1>1, <1>2, <1>7, <2>1, <2>2, <2>3 DEF Apart
  <2>4. CASE idle' = Append(idle, conn[t])
    <3>1. \A i \in DOMAIN idle' : \/ i \in DOMAIN idle /\ idle'[i] = idle[i]
                                  \/ i = Len(idle) + 1 /\ idle'[i] = conn[t]
      BY <1>1, <2>2, <2>4, Pushed
    <3>2. \A u \in Tasks : \A i \in DOMAIN idle' : conn'[u] # idle'[i]
      <4>1. \A i \in DOMAIN idle' : idle'[i] # 0
        BY <1>1, <2>2, <3>1
      <4> QED
        BY <1>1, <1>2, <1>7, <3>1, <4>1 DEF Apart
    <3>3. \A i, j \in DOMAIN idle' : idle'[i] = idle'[j] => i = j
      BY <1>1, <3>1 DEF Apart
    <3>4. \A v, u \in Tasks : v # u /\ conn'[v] # 0 => conn'[u] # conn'[v]
      BY <1>1, <1>2, <1>7 DEF Apart
    <3> QED
      BY <2>1, <3>2, <3>3, <3>4 DEF Apart
  <2> QED
    BY <1>7, <2>3, <2>4
<1> QED
  BY <1>4, <1>5, <1>6, <1>7, Cases

\* The mutex is taken when it is free, and freed by its holder.
LEMMA LockStep ==
  ASSUME TypeOK, LockHeldToConnect, NEW t \in Tasks, Work(t)
  PROVE  LockHeldToConnect'
<1>1. /\ pc \in [Tasks -> Steps] /\ lock \in Tasks \cup {NoTask}
      /\ created \in 0..PoolSize
  BY DEF TypeOK
<1> DEFINE Awaiting == {"connecting", "connected", "failed"}
<1>2. ASSUME NEW step, GoTo(t, step)
      PROVE  pc'[t] = step /\ \A u \in Tasks : u # t => pc'[u] = pc[u]
  BY <1>1, <1>2 DEF GoTo
<1>3. ASSUME UNCHANGED <<lock, created>>, NEW step, GoTo(t, step),
             pc[t] \in Awaiting => step \in Awaiting
      PROVE  LockHeldToConnect'
  BY <1>1, <1>2, <1>3 DEF LockHeldToConnect
<1>4. CASE Acquire(t) \/ AcquireWoken(t)
  <2>1. CASE lock = NoTask /\ TakeConnection(t)
    <3>1. CASE lock' = t /\ created' = created + 1 /\ GoTo(t, "connecting")
      BY <1>1, <1>2, <3>1 DEF LockHeldToConnect
    <3>2. CASE lock' = lock
      BY <2>1, <3>2 DEF LockHeldToConnect
    <3> QED
      BY <2>1, <3>1, <3>2 DEF TakeConnection
  <2>2. CASE /\ pc[t] = "ready" /\ GoTo(t, "waitLock") /\ UNCHANGED <<conn, lock, created, idle>>
    BY <1>3, <2>2
  <2> QED
    BY <1>4, <2>1, <2>2 DEF Acquire, AcquireWoken
<1>5. CASE Connect(t)
  BY <1>3, <1>5 DEF Connect
<1>6. CASE Resume(t)
  <2>1. /\ lock' = IF lock = t THEN NoTask ELSE lock
        /\ created' = created
        /\ GoTo(t, "using") \/ GoTo(t, "idle")
    BY <1>6 DEF Resume
  <2>2. lock' # NoTask => lock' = lock /\ lock # t /\ lock \in Tasks
    BY <1>1, <2>1
  <2>3. \A u \in Tasks : u # t => pc'[u] = pc[u]
    BY <1>2, <2>1
  <2> QED
    BY <2>1, <2>2, <2>3 DEF LockHeldToConnect
<1>7. CASE Query(t)
  BY <1>3, <1>7 DEF Query
<1>8. CASE Finish(t) \/ FinishWoken(t)
  <2>1. /\ pc[t] \notin Awaiting /\ UNCHANGED <<lock, created>>
        /\ GoTo(t, "idle") \/ GoTo(t, "waitReturn")
    BY <1>8 DEF Finish, FinishWoken, ReturnConnection
  <2> QED
    BY <1>3, <2>1
<1> QED
  BY <1>4, <1>5, <1>6, <1>7, <1>8 DEF Work

LEMMA InitInv == Init => IInv
<1> SUFFICES ASSUME Init PROVE IInv
  OBVIOUS
<1>1. Len(idle) = 0 /\ idle \in Seq(Conns) /\ DOMAIN idle = {}
  BY DEF Init
<1>2. TypeOK
  BY <1>1 DEF Init, TypeOK, Steps
<1>3. Holds /\ Apart /\ LockHeldToConnect
  BY <1>1 DEF Init, Holds, Holding, Apart, LockHeldToConnect
<1> QED
  BY <1>2, <1>3 DEF IInv

LEMMA StepInv == IInv /\ [Next]_vars => IInv'
<1> SUFFICES ASSUME IInv, [Next]_vars PROVE IInv'
  OBVIOUS
<1>1. TypeOK'
  BY TypeStep DEF IInv
<1>2. /\ pc \in [Tasks -> Steps]
      /\ \A t \in Tasks : Holds /\ Apart /\ LockHeldToConnect
  BY DEF IInv, TypeOK
<1>3. CASE UNCHANGED vars
  BY <1>1, <1>3 DEF vars, IInv, Holds, Apart, LockHeldToConnect
<1>4. ASSUME NEW t \in Tasks, Work(t) PROVE IInv'
  BY <1>1, <1>4, ApartStep, LockStep DEF IInv
<1>5. ASSUME NEW t \in Tasks, Begin(t) PROVE IInv'
  <2>1. /\ pc[t] = "idle" /\ pc' = [pc EXCEPT ![t] = "ready"]
        /\ UNCHANGED <<conn, lock, created, idle>>
    BY <1>5 DEF Begin, GoTo
  <2>2. Holds'
    BY <1>2, <2>1 DEF IInv, Holds, Holding
  <2>3. Apart'
    BY <2>1 DEF IInv, Apart
  <2>4. LockHeldToConnect'
    BY <1>2, <2>1 DEF IInv, TypeOK, LockHeldToConnect
  <2> QED
    BY <1>1, <2>2, <2>3, <2>4 DEF IInv
<1> QED
  BY <1>3, <1>4, <1>5 DEF Next

LEMMA Invariance == Spec => []IInv
BY InitInv, StepInv, PTL DEF Spec

-----------------------------------------------------------------------------
(* The results *)

\* The state is of its type; no more than pool_size connections idle or are
\* counted as created.
THEOREM TypeCorrect == Spec => []TypeOK
<1>1. IInv => TypeOK
  BY DEF IInv
<1> QED
  BY <1>1, Invariance, PTL

\* A connection is never used by two requests at once, nor handed out while it
\* idles in the pool, and who holds the mutex across an await is making a pooled
\* connection: acquire_connection and ~ConnectionHandle in any order.
THEOREM OneHolderAlways == Spec => []OneHolder
<1>1. IInv => OneHolder
  <2> SUFFICES ASSUME IInv PROVE ExclusiveUse /\ LockHeldToConnect
    BY DEF OneHolder
  <2>1. ASSUME NEW t \in Tasks, pc[t] \in {"using", "finished", "waitReturn"}
        PROVE  /\ conn[t] # 0 /\ conn[t] \notin IdleConns
               /\ \A u \in Tasks \ {t} : conn[u] # conn[t]
    <3>1. conn[t] # 0
      BY <2>1 DEF IInv, Holds, Holding
    <3>2. conn[t] \notin IdleConns
      BY <2>1 DEF IInv, Apart, IdleConns
    <3> QED
      BY <3>1, <3>2 DEF IInv, Apart
  <2> QED
    BY <2>1 DEF IInv, Apart, ExclusiveUse
<1> QED
  BY <1>1, Invariance, PTL

\* When the pool is warm, acquire_connection no longer keeps the mutex across
\* `co_await make_connection()`, so no thread waits for the network in it.
THEOREM WarmPool == Spec => WarmPoolNeverBlocks
<1>1. IInv /\ [Next]_vars => [created = PoolSize /\ lock = NoTask => lock' = NoTask]_vars
  <2> SUFFICES ASSUME IInv, Next, created = PoolSize, lock = NoTask PROVE lock' = NoTask
    OBVIOUS
  <2>1. PICK t \in Tasks : Begin(t) \/ Work(t)
    BY DEF Next
  <2>2. ASSUME TakeConnection(t) PROVE lock' = lock
    BY <2>2 DEF TakeConnection
  <2> QED
    BY <2>1, <2>2 DEF Begin, Work, Acquire, AcquireWoken, Connect, Resume, Query, Finish, FinishWoken
<1> QED
  BY <1>1, Invariance, PTL DEF Spec, WarmPoolNeverBlocks

-----------------------------------------------------------------------------
(* The writer of a session *)

\* The variables but for the count of bytes.
Typed ==
    /\ given \subseteq Lines
    /\ outgoing \in Seq(Lines)
    /\ wire \in Seq(Lines)
    /\ writing \in BOOLEAN
    /\ place \in [Writers -> WriterSteps]
    /\ current \in [Writers -> Lines \cup {NoLine}]

\* A writer at a write has a line, and one whose write failed has seen the
\* connection lost.
WriterInv ==
    \A w \in Writers : /\ place[w] = "write" => current[w] \in Lines
                       /\ place[w] = "failed" => Lost

WInv == Typed /\ WriterInv /\ OneWriter /\ NoneStranded

-----------------------------------------------------------------------------
LEMMA HeadTail ==
  ASSUME NEW q \in Seq(Lines), q # <<>>
  PROVE  Head(q) \in Lines /\ Tail(q) \in Seq(Lines) /\ q = <<Head(q)>> \o Tail(q)
  OBVIOUS

LEMMA Behind ==
  ASSUME NEW x \in Lines, NEW q \in Seq(Lines), NEW l \in Lines
  PROVE  /\ Append(<<x>> \o q, l) = <<x>> \o Append(q, l)
         /\ <<x>> \o q # <<>> /\ Head(<<x>> \o q) = x /\ Tail(<<x>> \o q) = q
  OBVIOUS

\* What the writer has in hand.
LEMMA InHandOf ==
  ASSUME WInv
  PROVE  /\ \A w \in Writers : place[w] = "write" => InHand = <<current[w]>>
         /\ (\A w \in Writers : place[w] # "write") => InHand = <<>>
<1>1. ASSUME NEW w \in Writers, place[w] = "write"
      PROVE  InHand = <<current[w]>>
  <2>1. \A v \in Writers : place[v] = "write" => v = w
    BY <1>1 DEF WInv, OneWriter, Active
  <2>2. (CHOOSE v \in Writers : place[v] = "write") = w
    BY <1>1, <2>1
  <2> QED
    BY <1>1, <2>2 DEF InHand
<1> QED
  BY <1>1 DEF InHand

-----------------------------------------------------------------------------
(* The count of bytes *)

Weight(q) == Len(q) + Cardinality(LargeIn(q))

\* The connection's own variables.
LinkTyped ==
    /\ socket \in {"open", "overflow", "release"}
    /\ broken \in BOOLEAN /\ reading \in BOOLEAN

\* outgoing_bytes_ is what outgoing_ holds.
Counted == bytes \in 0..MaxOutgoing /\ bytes = Weight(outgoing)

LEMMA LargeInFinite ==
  ASSUME NEW q \in Seq(Lines)
  PROVE  IsFiniteSet(LargeIn(q)) /\ Cardinality(LargeIn(q)) \in Nat
<1>1. LargeIn(q) \in SUBSET (1..Len(q)) /\ Len(q) \in Nat
  BY DEF LargeIn
<1>2. IsFiniteSet(1..Len(q))
  BY <1>1, FS_Interval
<1>3. IsFiniteSet(LargeIn(q))
  BY <1>1, <1>2, FS_Subset
<1> QED
  BY <1>3, FS_CardinalityType

LEMMA WeightAppend ==
  ASSUME NEW q \in Seq(Lines), NEW l \in Lines
  PROVE  Weight(Append(q, l)) = Weight(q) + Size(l)
<1> DEFINE n == Len(q) + 1
<1>1. IsFiniteSet(LargeIn(q)) /\ Cardinality(LargeIn(q)) \in Nat
  BY LargeInFinite
<1>2. Len(Append(q, l)) = n /\ Len(q) \in Nat
  OBVIOUS
<1>3. CASE l \in Large
  <2>1. LargeIn(Append(q, l)) = LargeIn(q) \cup {n} /\ n \notin LargeIn(q)
    BY <1>3 DEF LargeIn
  <2>2. Cardinality(LargeIn(q) \cup {n}) = Cardinality(LargeIn(q)) + 1
    BY <1>1, <2>1, FS_AddElement
  <2> QED
    BY <1>1, <1>2, <1>3, <2>1, <2>2 DEF Weight, Size
<1>4. CASE l \notin Large
  <2>1. LargeIn(Append(q, l)) = LargeIn(q)
    BY <1>4 DEF LargeIn
  <2> QED
    BY <1>1, <1>2, <1>4, <2>1 DEF Weight, Size
<1> QED
  BY <1>3, <1>4

\* Taking the head off moves every other line one place forward.
LEMMA WeightTail ==
  ASSUME NEW q \in Seq(Lines), q # <<>>
  PROVE  Weight(q) = Size(Head(q)) + Weight(Tail(q))
<1> DEFINE T == LargeIn(Tail(q))
           R == LargeIn(q) \ {1}
           f == [i \in T |-> i + 1]
<1>1. /\ Tail(q) \in Seq(Lines) /\ Len(q) \in Nat \ {0} /\ Len(Tail(q)) = Len(q) - 1
      /\ \A i \in 1..(Len(q) - 1) : Tail(q)[i] = q[i + 1]
  OBVIOUS
<1>2. /\ IsFiniteSet(T) /\ Cardinality(T) \in Nat
      /\ IsFiniteSet(LargeIn(q)) /\ Cardinality(LargeIn(q)) \in Nat
  BY <1>1, LargeInFinite
<1>3. T \subseteq 1..(Len(q) - 1) /\ R \subseteq 2..Len(q)
  BY <1>1 DEF LargeIn
<1>4. \A i \in 1..(Len(q) - 1) : i \in T <=> i + 1 \in R
  BY <1>1 DEF LargeIn
<1>5. ExistsBijection(T, R)
  <2>1. f \in [T -> R]
    BY <1>3, <1>4
  <2>2. \A a, b \in T : f[a] = f[b] => a = b
    BY <1>3
  <2>3. \A r \in R : \E i \in T : f[i] = r
    <3>1. ASSUME NEW r \in R PROVE r - 1 \in T /\ f[r - 1] = r
      BY <1>3, <1>4
    <3> QED
      BY <3>1
  <2>4. f \in Bijection(T, R)
    BY <2>1, <2>2, <2>3 DEF Bijection, Injection, Surjection, IsInjective
  <2> QED
    BY <2>4 DEF ExistsBijection
<1>6. Cardinality(R) = Cardinality(T)
  BY <1>2, <1>5, FS_Bijection
<1>7. Cardinality(R) = IF 1 \in LargeIn(q) THEN Cardinality(LargeIn(q)) - 1
                       ELSE Cardinality(LargeIn(q))
  BY <1>2, FS_RemoveElement
<1>8. 1 \in LargeIn(q) <=> Head(q) \in Large
  BY <1>1 DEF LargeIn
<1> HIDE DEF T, R
<1>9. Cardinality(LargeIn(q)) = Cardinality(T) + (IF Head(q) \in Large THEN 1 ELSE 0)
  BY <1>2, <1>6, <1>7, <1>8
<1> QED
  BY <1>1, <1>2, <1>9 DEF Weight, Size, T

LEMMA StepLink == LinkTyped /\ [WriterNext]_sessionVars => LinkTyped'
<1> SUFFICES ASSUME LinkTyped, [WriterNext]_sessionVars PROVE LinkTyped'
  OBVIOUS
<1> USE DEF LinkTyped
<1>1. ASSUME NEW l \in Lines, SendText(l) PROVE LinkTyped'
  BY <1>1 DEF SendText
<1>2. ASSUME NEW w \in Writers, Write(w) PROVE LinkTyped'
  BY <1>2 DEF Write, Loop, Written, WriteError, Catch
<1>3. ASSUME Break \/ EndReading \/ Release \/ UNCHANGED sessionVars PROVE LinkTyped'
  BY <1>3 DEF Break, EndReading, Release, sessionVars
<1> QED
  BY <1>1, <1>2, <1>3 DEF WriterNext

LEMMA InitCounted == WriterInit => Counted
<1>1. LargeIn(<<>>) = {}
  BY DEF LargeIn
<1>2. Cardinality(LargeIn(<<>>)) = 0
  BY <1>1, FS_EmptySet
<1>3. Weight(<<>>) = 0
  BY <1>2 DEF Weight
<1> QED
  BY <1>3, WriterConstants DEF WriterInit, Counted

LEMMA StepCounted == Typed /\ Counted /\ [WriterNext]_sessionVars => Counted'
<1> SUFFICES ASSUME Typed, Counted, [WriterNext]_sessionVars PROVE Counted'
  OBVIOUS
<1> USE DEF Counted
<1>1. ASSUME NEW l \in Lines, SendText(l) PROVE Counted'
  <2>1. CASE Open /\ Fits(l)
    <3>1. outgoing' = Append(outgoing, l) /\ bytes' = bytes + Size(l) /\ bytes' <= MaxOutgoing
      BY <1>1, <2>1 DEF SendText, Enqueue, Fits
    <3>2. Weight(outgoing') = bytes'
      BY <3>1, WeightAppend DEF Typed
    <3>3. bytes' \in Nat
      BY <3>1 DEF Size
    <3> QED
      BY <3>1, <3>2, <3>3, WriterConstants
  <2>2. CASE ~(Open /\ Fits(l))
    BY <1>1, <2>2 DEF SendText, queueVars
  <2> QED
    BY <2>1, <2>2
<1>2. ASSUME NEW w \in Writers, Loop(w) PROVE Counted'
  <2>1. CASE outgoing # <<>> /\ Open
    <3>1. outgoing' = Tail(outgoing) /\ bytes' = bytes - Size(Head(outgoing))
      BY <1>2, <2>1 DEF Loop
    <3>2. Tail(outgoing) \in Seq(Lines) /\ bytes = Size(Head(outgoing)) + Weight(Tail(outgoing))
      BY <2>1, WeightTail, HeadTail DEF Typed
    <3>3. Weight(Tail(outgoing)) \in Nat
      <4>1. Len(Tail(outgoing)) \in Nat
        BY <3>2
      <4>2. Cardinality(LargeIn(Tail(outgoing))) \in Nat
        BY <3>2, LargeInFinite
      <4> QED
        BY <4>1, <4>2 DEF Weight
    <3> QED
      BY <3>1, <3>2, <3>3, WriterConstants DEF Size
  <2>2. CASE outgoing = <<>> \/ ~Open
    BY <1>2, <2>2 DEF Loop
  <2> QED
    BY <2>1, <2>2
<1>3. ASSUME UNCHANGED <<outgoing, bytes>> PROVE Counted'
  BY <1>3
<1>4. ASSUME NEW w \in Writers, Written(w) \/ WriteError(w) \/ Catch(w) PROVE Counted'
  BY <1>3, <1>4 DEF Written, WriteError, Catch, queueVars
<1>5. ASSUME Break \/ EndReading \/ Release \/ UNCHANGED sessionVars PROVE Counted'
  BY <1>3, <1>5 DEF Break, EndReading, Release, sessionVars, queueVars
<1> QED
  BY <1>1, <1>2, <1>4, <1>5 DEF WriterNext, Write

-----------------------------------------------------------------------------
(* The invariant *)

LEMMA InitWInv == WriterInit => WInv
<1> SUFFICES ASSUME WriterInit PROVE WInv
  OBVIOUS
<1>1. \A w \in Writers : place[w] = "none"
  BY DEF WriterInit
<1>2. Typed
  <2>1. outgoing \in Seq(Lines) /\ wire \in Seq(Lines)
    BY DEF WriterInit
  <2>2. place \in [Writers -> WriterSteps] /\ current \in [Writers -> Lines \cup {NoLine}]
    BY DEF WriterInit, WriterSteps
  <2> QED
    BY <2>1, <2>2 DEF WriterInit, Typed
<1>3. WriterInv /\ OneWriter /\ NoneStranded
  BY <1>1 DEF WriterInit, WriterInv, OneWriter, NoneStranded, Active
<1> QED
  BY <1>2, <1>3 DEF WInv

LEMMA StepWInv == WInv /\ [WriterNext]_sessionVars => WInv'
<1> SUFFICES ASSUME WInv, [WriterNext]_sessionVars PROVE WInv'
  OBVIOUS
<1> USE DEF WInv, Typed, WriterInv, OneWriter, NoneStranded, Active, WriterSteps, Open, Lost,
            queueVars, writerVars
<1>1. ASSUME NEW l \in Lines, SendText(l) PROVE WInv'
  <2>1. CASE ~Open
    BY <1>1, <2>1 DEF SendText
  <2>2. CASE Open /\ ~Fits(l)
    BY <1>1, <2>2 DEF SendText
  <2>3. CASE Open /\ Fits(l)
    <3>1. /\ given' = given \cup {l} /\ outgoing' = Append(outgoing, l) /\ Spawn
          /\ UNCHANGED <<socket, broken, wire>>
      BY <1>1, <2>3 DEF SendText, Enqueue
    <3>2. CASE writing
      BY <3>1, <3>2 DEF Spawn
    <3>3. CASE ~writing
      <4>1. PICK w \in Writers \ Active :
              writing' = TRUE /\ place' = [place EXCEPT ![w] = "loop"] /\ UNCHANGED current
        BY <3>1, <3>3 DEF Spawn
      <4>2. \A v \in Writers : place[v] = "none"
        BY <3>3
      <4> QED
        BY <3>1, <4>1, <4>2
    <3> QED
      BY <3>2, <3>3
  <2> QED
    BY <2>1, <2>2, <2>3
<1>2. ASSUME NEW w \in Writers, Loop(w) PROVE WInv'
  <2>1. CASE outgoing # <<>> /\ Open
    <3>1. Head(outgoing) \in Lines /\ Tail(outgoing) \in Seq(Lines)
      BY <2>1, HeadTail
    <3>2. \A v \in Writers \ {w} : place[v] = "none"
      BY <1>2 DEF Loop
    <3>3. /\ outgoing' = Tail(outgoing) /\ current' = [current EXCEPT ![w] = Head(outgoing)]
          /\ place' = [place EXCEPT ![w] = "write"] /\ writing
          /\ UNCHANGED <<given, socket, broken, writing, wire>>
      BY <1>2, <2>1 DEF Loop
    <3>4. NoneStranded'
      BY <3>3
    <3>5. (Typed /\ WriterInv /\ OneWriter)'
      BY <3>1, <3>2, <3>3
    <3> QED
      BY <3>4, <3>5
  <2>2. CASE outgoing = <<>> \/ ~Open
    <3>1. \A v \in Writers \ {w} : place[v] = "none"
      BY <1>2 DEF Loop
    <3> QED
      BY <1>2, <2>2, <3>1, ZenonT(40) DEF Loop
  <2> QED
    BY <2>1, <2>2
<1>3. ASSUME NEW w \in Writers, Written(w) PROVE WInv'
  BY <1>3 DEF Written
<1>4. ASSUME NEW w \in Writers, WriteError(w) PROVE WInv'
  BY <1>4 DEF WriteError
<1>5. ASSUME NEW w \in Writers, Catch(w) PROVE WInv'
  <2>1. \A v \in Writers \ {w} : place[v] = "none"
    BY <1>5 DEF Catch
  <2> QED
    BY <1>5, <2>1 DEF Catch
<1>6. CASE Break
  BY <1>6 DEF Break
<1>7. CASE EndReading
  BY <1>7 DEF EndReading
<1>8. CASE Release
  BY <1>8 DEF Release
<1>9. CASE UNCHANGED sessionVars
  BY <1>9 DEF sessionVars
<1> QED
  BY <1>1, <1>2, <1>3, <1>4, <1>5, <1>6, <1>7, <1>8, <1>9 DEF WriterNext, Write

-----------------------------------------------------------------------------
(* The refinement *)

LEMMA InitChannel == WriterInit => Channel!Init
  BY DEF WriterInit, Channel!Init, InHand, Lost, Open

LEMMA StepChannel == WInv /\ WInv' /\ [WriterNext]_sessionVars => [Channel!Next]_Channel!vars
<1> SUFFICES ASSUME WInv, WInv', [WriterNext]_sessionVars PROVE [Channel!Next]_Channel!vars
  OBVIOUS
<1> DEFINE OnTheWay == IF Lost THEN <<>> ELSE InHand \o outgoing
<1>1. ASSUME NEW l \in Lines, SendText(l) PROVE Channel!Next
  <2>1. CASE Lost /\ Lost'
    BY <1>1, <2>1 DEF SendText, Channel!Next, Channel!Drop
  <2>2. CASE ~Lost /\ Lost'
    BY <1>1, <2>2 DEF SendText, Channel!Next, Channel!Cut
  <2>3. CASE ~Lost /\ ~Lost'
    <3>1. /\ given' = given \cup {l} /\ l \notin given
          /\ outgoing' = Append(outgoing, l) /\ Spawn /\ UNCHANGED wire
      BY <1>1, <2>3 DEF SendText, Enqueue, Lost, Open
    <3>2. CASE \E w \in Writers : place[w] = "write"
      <4>1. PICK w \in Writers : place[w] = "write"
        BY <3>2
      <4>2. writing /\ UNCHANGED <<place, current>>
        BY <3>1, <4>1 DEF Spawn, WInv, OneWriter, Active, writerVars
      <4>3. InHand = <<current[w]>> /\ InHand' = InHand /\ current[w] \in Lines
        BY <4>1, <4>2, InHandOf DEF WInv, WriterInv, InHand
      <4>4. InHand' \o outgoing' = Append(InHand \o outgoing, l)
        BY <3>1, <4>3, Behind DEF WInv, Typed
      <4> QED
        BY <2>3, <3>1, <4>4 DEF Channel!Next, Channel!Accept, Lost
    <3>3. CASE \A w \in Writers : place[w] # "write"
      <4>1. \A w \in Writers : place'[w] # "write"
        BY <3>1, <3>3 DEF Spawn, writerVars, WInv, Typed
      <4>2. InHand = <<>> /\ InHand' = <<>>
        BY <3>3, <4>1 DEF InHand
      <4>3. InHand' \o outgoing' = Append(InHand \o outgoing, l)
        BY <3>1, <4>2 DEF WInv, Typed
      <4> QED
        BY <2>3, <3>1, <4>3 DEF Channel!Next, Channel!Accept, Lost
    <3> QED
      BY <3>2, <3>3
  <2>4. ~(Lost /\ ~Lost')
    BY <1>1 DEF SendText, Lost, Open
  <2> QED
    BY <2>1, <2>2, <2>3, <2>4
<1>2. ASSUME NEW w \in Writers, Loop(w) PROVE UNCHANGED Channel!vars
  <2>1. UNCHANGED <<given, wire>> /\ Lost' = Lost
    BY <1>2 DEF Loop, Lost, Open
  <2>2. CASE Lost
    BY <2>1, <2>2 DEF Channel!vars
  <2>3. CASE ~Lost /\ outgoing # <<>>
    <3>1. /\ current' = [current EXCEPT ![w] = Head(outgoing)] /\ outgoing' = Tail(outgoing)
          /\ place' = [place EXCEPT ![w] = "write"]
      BY <1>2, <2>3 DEF Loop, Lost, Open
    <3>2. \A v \in Writers : place[v] # "write"
      BY <1>2 DEF Loop, WInv, OneWriter, Active
    <3>3. InHand = <<>>
      BY <3>2 DEF InHand
    <3>4. place'[w] = "write" /\ current'[w] = Head(outgoing) /\ \A v \in Writers \ {w} : place'[v] # "write"
      BY <3>1, <3>2 DEF WInv, Typed
    <3>5. (CHOOSE v \in Writers : place'[v] = "write") = w
      BY <3>4
    <3>6. InHand' = <<Head(outgoing)>>
      BY <3>4, <3>5 DEF InHand
    <3>7. InHand' \o outgoing' = InHand \o outgoing
      BY <2>3, <3>1, <3>3, <3>6, HeadTail DEF WInv, Typed
    <3> QED
      BY <2>1, <2>3, <3>7 DEF Channel!vars
  <2>4. CASE ~Lost /\ outgoing = <<>>
    <3>1. place' = [place EXCEPT ![w] = "none"] /\ UNCHANGED outgoing
      BY <1>2, <2>4 DEF Loop
    <3>2. \A v \in Writers : place[v] # "write"
      BY <1>2 DEF Loop, WInv, OneWriter, Active
    <3>3. InHand = <<>> /\ InHand' = <<>>
      BY <3>1, <3>2 DEF InHand, WInv, Typed
    <3> QED
      BY <2>1, <3>1, <3>3 DEF Channel!vars
  <2> QED
    BY <2>2, <2>3, <2>4
<1>3. ASSUME NEW w \in Writers, Written(w) PROVE Channel!Next
  <2>1. /\ ~Lost /\ ~Lost' /\ place[w] = "write" /\ current[w] \in Lines
        /\ wire' = Append(wire, current[w]) /\ UNCHANGED <<given, outgoing>>
        /\ place' = [place EXCEPT ![w] = "loop"]
    BY <1>3 DEF Written, Lost, Open, WInv, WriterInv, queueVars
  <2>2. InHand = <<current[w]>>
    BY <2>1, InHandOf
  <2>3. \A v \in Writers : place'[v] # "write"
    BY <2>1 DEF WInv, OneWriter, Active, Typed
  <2>4. InHand' = <<>>
    BY <2>3 DEF InHand
  <2>5. outgoing \in Seq(Lines)
    BY DEF WInv, Typed
  <2>6. /\ InHand \o outgoing # <<>> /\ Head(InHand \o outgoing) = current[w]
        /\ InHand' \o outgoing' = Tail(InHand \o outgoing)
    BY <2>1, <2>2, <2>4, <2>5, Behind
  <2> QED
    BY <2>1, <2>6 DEF Channel!Next, Channel!Deliver, Lost
<1>4. ASSUME NEW w \in Writers, WriteError(w) \/ Catch(w) PROVE UNCHANGED Channel!vars
  <2>1. Lost /\ Lost' /\ UNCHANGED <<given, wire>>
    BY <1>4 DEF WriteError, Catch, Lost, Open, WInv, WriterInv
  <2> QED
    BY <2>1 DEF Channel!vars
<1>5. ASSUME Break \/ Release PROVE Channel!Next \/ UNCHANGED Channel!vars
  <2>1. Lost' /\ UNCHANGED <<given, wire>>
    BY <1>5 DEF Break, Release, Lost, Open
  <2> QED
    BY <2>1 DEF Channel!Next, Channel!Cut, Channel!vars
<1>6. ASSUME EndReading \/ UNCHANGED sessionVars PROVE UNCHANGED Channel!vars
  <2>1. UNCHANGED <<given, socket, broken, outgoing, place, current, wire>>
    BY <1>6 DEF EndReading, sessionVars, queueVars, writerVars
  <2> QED
    BY <2>1 DEF Channel!vars, InHand, Lost, Open
<1> QED
  BY <1>1, <1>2, <1>3, <1>4, <1>5, <1>6 DEF WriterNext, Write

-----------------------------------------------------------------------------
(* Theorems *)

LEMMA WInvariance == WriterSpec => []WInv
<1> QED
  BY InitWInv, StepWInv, PTL DEF WriterSpec

LEMMA CountInvariance == WriterSpec => [](WInv /\ LinkTyped /\ Counted)
<1>1. WriterInit => LinkTyped
  BY DEF WriterInit, LinkTyped
<1>2. WInv /\ Counted /\ [WriterNext]_sessionVars => Counted'
  BY StepCounted DEF WInv
<1> QED
  BY <1>1, <1>2, InitCounted, StepLink, WInvariance, PTL DEF WriterSpec

\* outgoing_bytes_ never drifts from what outgoing_ holds, and never passes the
\* limit: no client that reads is cut off for bytes long sent.
THEOREM BytesCounted == WriterSpec => []WriterTypeOK
<1>1. WInv /\ LinkTyped /\ Counted => WriterTypeOK
  BY DEF WInv, Typed, LinkTyped, Counted, Weight, WriterTypeOK
<1> QED
  BY <1>1, CountInvariance, PTL

\* writing_ is a lock: a session never has two async_writes under way.
\* send_text_impl leaves no line without one while the connection holds.
THEOREM WriterServes == WriterSpec => []QueueServed
<1>1. WInv => QueueServed
  BY DEF WInv, QueueServed
<1> QED
  BY <1>1, WInvariance, PTL

\* The client gets what was accepted, whole, once, in order, up to a cut.
THEOREM Implements == WriterSpec => ImplementsChannel
<1> QED
  BY InitChannel, StepChannel, WInvariance, PTL DEF WriterSpec, ImplementsChannel, Channel!Spec
=============================================================================
