------------------------------ MODULE ConnPool -----------------------------
(***************************************************************************)
(* The database connection pool of src/src/database/connection.cpp and the *)
(* threads it runs on.                                                     *)
(*                                                                         *)
(* acquire_connection is a coroutine that takes a std::mutex; while fewer  *)
(* than pool_size connections have been created it keeps the mutex across  *)
(* `co_await make_connection()`.  A coroutine that awaits gives its thread *)
(* back, but one that finds the mutex taken blocks its thread, and with it *)
(* the strand it runs on.  The lock_guard of a coroutine resumed on        *)
(* another thread unlocks there, which the mutex of the platform allows.   *)
(***************************************************************************)
EXTENDS Naturals, Sequences, FiniteSets

CONSTANTS
    Tasks,    \* handlers that need a connection, again and again
    StrandOf, \* the strand each of them runs on: that of its session
    Threads,  \* size of the thread pool
    PoolSize, \* PoolConfig::pool_size
    NoTask    \* the holder of the mutex when it is free

ASSUME PoolConstants ==
    /\ IsFiniteSet(Tasks)
    /\ DOMAIN StrandOf = Tasks
    /\ Threads \in Nat \ {0}
    /\ PoolSize \in Nat
    /\ NoTask \notin Tasks

VARIABLES
    pc,      \* where each task is
    kind,    \* "plain" for acquire_connection, "handle" for acquire_handle
    conn,    \* the connection it uses, 0 for none
    lock,    \* the task that holds PoolState::mutex across an await
    created, \* PoolState::created
    idle     \* PoolState::idle, used as a stack

vars == <<pc, kind, conn, lock, created, idle>>

Steps == {"idle",       \* no request
          "ready",      \* about to call acquire_connection
          "waitLock",   \* its thread is blocked on the mutex in there
          "connecting", \* awaits make_connection
          "connected", "failed",  \* which has completed, or thrown
          "using",      \* awaits its queries
          "finished",   \* which have completed
          "waitReturn"} \* its thread is blocked on the mutex in ~ConnectionHandle

\* Bound: ids of open connections; no more can be open at a time.
Conns == 1..(Cardinality(Tasks) + PoolSize)

TypeOK ==
    /\ pc \in [Tasks -> Steps]
    /\ kind \in [Tasks -> {"plain", "handle"}]
    /\ conn \in [Tasks -> Conns \cup {0}]
    /\ lock \in Tasks \cup {NoTask}
    /\ created \in 0..PoolSize
    /\ idle \in Seq(Conns) /\ Len(idle) <= PoolSize

Init ==
    /\ pc = [t \in Tasks |-> "idle"]
    /\ kind = [t \in Tasks |-> "plain"]
    /\ conn = [t \in Tasks |-> 0]
    /\ lock = NoTask
    /\ created = 0
    /\ idle = <<>>

IdleConns == {idle[i] : i \in DOMAIN idle}
FreshConn == CHOOSE c \in Conns : c \notin IdleConns /\ \A t \in Tasks : conn[t] # c

Blocked == {t \in Tasks : pc[t] \in {"waitLock", "waitReturn"}}

\* A thread takes up t: one is not blocked, and no task blocks t's strand.
CanRun(t) ==
    /\ Cardinality(Blocked) < Threads
    /\ \A b \in Blocked : StrandOf[b] # StrandOf[t]

GoTo(t, step) == pc' = [pc EXCEPT ![t] = step]

-----------------------------------------------------------------------------
\* A request comes in.
Begin(t) ==
    /\ pc[t] = "idle"
    /\ GoTo(t, "ready")
    /\ \E k \in {"plain", "handle"} : kind' = [kind EXCEPT ![t] = k]
    /\ UNCHANGED <<conn, lock, created, idle>>

\* Fault: the connection that is handed out stays in the pool.
TakeWithoutPop(t) ==
    \/ /\ idle # <<>>
       /\ conn' = [conn EXCEPT ![t] = idle[Len(idle)]]
       /\ GoTo(t, "using")
       /\ UNCHANGED <<lock, created, idle>>
    \/ /\ idle = <<>>
       /\ IF created < PoolSize
          THEN created' = created + 1 /\ lock' = t
          ELSE UNCHANGED <<created, lock>>
       /\ GoTo(t, "connecting")
       /\ UNCHANGED <<conn, idle>>

\* Fault: a temporary connection, too, is made with the mutex held.
TakeLocked(t) ==
    \/ /\ idle # <<>>
       /\ conn' = [conn EXCEPT ![t] = idle[Len(idle)]]
       /\ idle' = SubSeq(idle, 1, Len(idle) - 1)
       /\ GoTo(t, "using")
       /\ UNCHANGED <<lock, created>>
    \/ /\ idle = <<>>
       /\ created' = IF created < PoolSize THEN created + 1 ELSE created
       /\ lock' = t
       /\ GoTo(t, "connecting")
       /\ UNCHANGED <<conn, idle>>

\* acquire_connection once it has the mutex: the connection returned last, or a
\* new one made with the mutex held, or, all created, a temporary one made
\* without it.
TakeConnection(t) ==
    \/ /\ idle # <<>>
       /\ conn' = [conn EXCEPT ![t] = idle[Len(idle)]]
       /\ idle' = SubSeq(idle, 1, Len(idle) - 1)
       /\ GoTo(t, "using")
       /\ UNCHANGED <<lock, created>>
    \/ /\ idle = <<>> /\ created < PoolSize
       /\ created' = created + 1
       /\ lock' = t
       /\ GoTo(t, "connecting")
       /\ UNCHANGED <<conn, idle>>
    \/ /\ idle = <<>> /\ created = PoolSize
       /\ GoTo(t, "connecting")
       /\ UNCHANGED <<conn, lock, created, idle>>

Acquire(t) ==
    /\ pc[t] = "ready"
    /\ CanRun(t)
    /\ \/ lock = NoTask /\ TakeConnection(t)
       \/ lock # NoTask /\ GoTo(t, "waitLock") /\ UNCHANGED <<conn, lock, created, idle>>
    /\ UNCHANGED kind

AcquireWoken(t) ==
    /\ pc[t] = "waitLock"
    /\ lock = NoTask
    /\ TakeConnection(t)
    /\ UNCHANGED kind

\* The resolver and the handshake complete or throw; no thread is needed.
Connect(t) ==
    /\ pc[t] = "connecting"
    /\ \/ conn' = [conn EXCEPT ![t] = FreshConn] /\ GoTo(t, "connected")
       \/ UNCHANGED conn /\ GoTo(t, "failed")
    /\ UNCHANGED <<kind, lock, created, idle>>

\* Fault: an exception leaves the mutex locked.
ResumeFailedLocked(t) ==
    /\ pc[t] \in {"connected", "failed"}
    /\ CanRun(t)
    /\ lock' = IF lock = t /\ pc[t] = "connected" THEN NoTask ELSE lock
    /\ GoTo(t, IF pc[t] = "connected" THEN "using" ELSE "idle")
    /\ UNCHANGED <<kind, conn, created, idle>>

\* The coroutine goes on, and leaves the scope of its lock_guard.  created is
\* not taken back when make_connection has thrown.
Resume(t) ==
    /\ pc[t] \in {"connected", "failed"}
    /\ CanRun(t)
    /\ lock' = IF lock = t THEN NoTask ELSE lock
    /\ GoTo(t, IF pc[t] = "connected" THEN "using" ELSE "idle")
    /\ UNCHANGED <<kind, conn, created, idle>>

\* The last query of the request completes or throws.
Query(t) ==
    /\ pc[t] = "using"
    /\ GoTo(t, "finished")
    /\ UNCHANGED <<kind, conn, lock, created, idle>>

\* Fault: a full pool takes temporary connections, too.
ReturnAlways(t) ==
    /\ idle' = Append(idle, conn[t])
    /\ conn' = [conn EXCEPT ![t] = 0]
    /\ GoTo(t, "idle")

\* ~ConnectionHandle once it has the mutex.
ReturnConnection(t) ==
    /\ idle' = IF Len(idle) < PoolSize THEN Append(idle, conn[t]) ELSE idle
    /\ conn' = [conn EXCEPT ![t] = 0]
    /\ GoTo(t, "idle")

\* A plain connection is closed with its last shared_ptr.
Finish(t) ==
    /\ pc[t] = "finished"
    /\ CanRun(t)
    /\ \/ /\ kind[t] = "plain"
          /\ conn' = [conn EXCEPT ![t] = 0]
          /\ GoTo(t, "idle")
          /\ UNCHANGED idle
       \/ kind[t] = "handle" /\ lock = NoTask /\ ReturnConnection(t)
       \/ kind[t] = "handle" /\ lock # NoTask /\ GoTo(t, "waitReturn") /\ UNCHANGED <<conn, idle>>
    /\ UNCHANGED <<kind, lock, created>>

FinishWoken(t) ==
    /\ pc[t] = "waitReturn"
    /\ lock = NoTask
    /\ ReturnConnection(t)
    /\ UNCHANGED <<kind, lock, created>>

Work(t) == Acquire(t) \/ AcquireWoken(t) \/ Connect(t) \/ Resume(t) \/ Query(t)
              \/ Finish(t) \/ FinishWoken(t)

Next == \E t \in Tasks : Begin(t) \/ Work(t)

\* Threads take up what they can, waiters get a free mutex, and the network and
\* the database answer.  Requests need not come.
Fairness == \A t \in Tasks : WF_vars(Work(t))

Spec == Init /\ [][Next]_vars /\ Fairness

-----------------------------------------------------------------------------
(* Properties *)

\* No connection is used by two tasks, or used and idle, or idle twice; a task
\* that runs queries has one.
ExclusiveUse ==
    /\ \A t \in Tasks : pc[t] \in {"using", "finished", "waitReturn"} =>
          /\ conn[t] # 0
          /\ conn[t] \notin IdleConns
          /\ \A u \in Tasks \ {t} : conn[u] # conn[t]
    /\ \A i, j \in DOMAIN idle : idle[i] = idle[j] => i = j

\* While a task holds the mutex across an await it is the only one to create a
\* pooled connection, and the mutex is held by nobody else.
LockHeldToConnect ==
    lock # NoTask => pc[lock] \in {"connecting", "connected", "failed"} /\ created > 0

\* Connections and the mutex that guards them have one holder each, although the
\* holder of the mutex gives up its thread while it waits for the network.
OneHolder == ExclusiveUse /\ LockHeldToConnect

\* Once pool_size connections have been created the mutex is never again held
\* across an await: what can block threads is the warming up of the pool.
WarmPoolNeverBlocks == [][created = PoolSize /\ lock = NoTask => lock' = NoTask]_vars

\* Every call of acquire_connection returns or throws.  connection.cpp:98 takes
\* it that a saturated pool does not make its callers wait.
EveryRequestServed ==
    \A t \in Tasks : pc[t] = "ready" ~> pc[t] \in {"using", "idle"}
=============================================================================
