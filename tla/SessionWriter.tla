--------------------------- MODULE SessionWriter ---------------------------
(***************************************************************************)
(* The writing half of a session (src/include/session.h): send_text_impl   *)
(* puts a line into outgoing_ and, when no writer is at work, spawns a     *)
(* coroutine that writes lines until none is left.  Both run on the        *)
(* session's strand, so what a handler does between two awaits is one      *)
(* step; the writer awaits each async_write, and lines come in meanwhile.  *)
(*                                                                         *)
(* MessageFlow ends where this module begins, at send_text_impl.           *)
(***************************************************************************)
EXTENDS Naturals, Sequences, FiniteSets

CONSTANTS
    Lines,       \* lines the session is given, each once
    Large,       \* those of them of two units, the others are of one
    MaxOutgoing, \* MAX_OUTGOING_BYTES, in units
    Writers,     \* coroutines that may be spawned at a time
    NoLine       \* what a writer that is not at a line holds

ASSUME WriterConstants ==
    /\ Large \subseteq Lines
    /\ MaxOutgoing \in Nat
    /\ NoLine \notin Lines

VARIABLES
    given,    \* history: the lines send_text_impl was called with
    socket,   \* "open", or what closed socket_: "overflow" or "release"
    broken,   \* the peer has gone, or the network: no write succeeds any more
    reading,  \* Session::run is in its read loop
    outgoing, \* outgoing_
    bytes,    \* outgoing_bytes_
    writing,  \* writing_
    place,    \* where each writer is
    current,  \* its local of that name
    wire      \* history: the lines written whole, in order

queueVars == <<outgoing, bytes, writing>>
writerVars == <<place, current>>
sessionVars == <<given, socket, broken, reading, queueVars, writerVars, wire>>

WriterSteps == {"none", "loop", "write", "failed"}

Size(l) == IF l \in Large THEN 2 ELSE 1

\* The places of the large lines in a queue.
LargeIn(q) == {i \in DOMAIN q : q[i] \in Large}

WriterTypeOK ==
    /\ given \subseteq Lines
    /\ socket \in {"open", "overflow", "release"}
    /\ broken \in BOOLEAN /\ reading \in BOOLEAN
    /\ outgoing \in Seq(Lines)
    /\ bytes \in 0..MaxOutgoing
    /\ writing \in BOOLEAN
    /\ place \in [Writers -> WriterSteps]
    /\ current \in [Writers -> Lines \cup {NoLine}]
    /\ wire \in Seq(Lines)
    \* outgoing_bytes_ does not drift: that would in the end cut off a client
    \* that reads, or let the queue of one that does not grow for ever.
    /\ bytes = Len(outgoing) + Cardinality(LargeIn(outgoing))

WriterInit ==
    /\ given = {}
    /\ socket = "open" /\ broken = FALSE /\ reading = TRUE
    /\ outgoing = <<>>
    /\ bytes = 0
    /\ writing = FALSE
    /\ place = [w \in Writers |-> "none"]
    /\ current = [w \in Writers |-> NoLine]
    /\ wire = <<>>

Open == socket = "open"
Active == {w \in Writers : place[w] # "none"}

-----------------------------------------------------------------------------
\* Fault: every line spawns a writer.
SpawnAlways ==
    \E w \in Writers \ Active :
       /\ writing' = TRUE
       /\ place' = [place EXCEPT ![w] = "loop"]
       /\ UNCHANGED current

\* A writer is spawned unless one is at work.
Spawn ==
    \/ /\ ~writing
       /\ \E w \in Writers \ Active :
             /\ writing' = TRUE
             /\ place' = [place EXCEPT ![w] = "loop"]
             /\ UNCHANGED current
    \/ writing /\ UNCHANGED <<writing, writerVars>>

\* Fault: the line that is added is not counted in the test.
FitsLate(l) == bytes <= MaxOutgoing

\* The test for a slow client.
Fits(l) == bytes + Size(l) <= MaxOutgoing

\* Fault: urgent lines go first.
EnqueueFirst(l) == outgoing' = <<l>> \o outgoing

Enqueue(l) == outgoing' = Append(outgoing, l)

\* send_text_impl.  Closing the socket aborts the write under way.
SendText(l) ==
    /\ l \notin given
    /\ given' = given \cup {l}
    /\ \/ ~Open /\ UNCHANGED <<socket, queueVars, writerVars>>
       \/ Open /\ ~Fits(l) /\ socket' = "overflow" /\ UNCHANGED <<queueVars, writerVars>>
       \/ /\ Open /\ Fits(l)
          /\ bytes' = bytes + Size(l)
          /\ Enqueue(l)
          /\ Spawn
          /\ UNCHANGED socket
    /\ UNCHANGED <<broken, reading, wire>>

\* Fault: the bytes are taken off again when the line has been written.
LoopKeepsBytes(w) ==
    /\ place[w] = "loop"
    /\ \/ /\ outgoing # <<>> /\ Open
          /\ current' = [current EXCEPT ![w] = Head(outgoing)]
          /\ outgoing' = Tail(outgoing)
          /\ place' = [place EXCEPT ![w] = "write"]
          /\ UNCHANGED <<writing, bytes>>
       \/ /\ outgoing = <<>> \/ ~Open
          /\ writing' = FALSE
          /\ place' = [place EXCEPT ![w] = "none"]
          /\ UNCHANGED <<outgoing, bytes, current>>
    /\ UNCHANGED <<given, socket, broken, reading, wire>>

\* Fault: `if` for `while`.
LoopOnce(w) ==
    /\ place[w] = "loop"
    /\ \/ /\ outgoing # <<>> /\ Open /\ current[w] = NoLine
          /\ current' = [current EXCEPT ![w] = Head(outgoing)]
          /\ outgoing' = Tail(outgoing)
          /\ bytes' = bytes - Size(Head(outgoing))
          /\ place' = [place EXCEPT ![w] = "write"]
          /\ UNCHANGED writing
       \/ /\ outgoing = <<>> \/ ~Open \/ current[w] # NoLine
          /\ writing' = FALSE
          /\ place' = [place EXCEPT ![w] = "none"]
          /\ current' = [current EXCEPT ![w] = NoLine]
          /\ UNCHANGED <<outgoing, bytes>>
    /\ UNCHANGED <<given, socket, broken, reading, wire>>

\* The writer starts or goes on after a write: the next line, or the end.
Loop(w) ==
    /\ place[w] = "loop"
    /\ \/ /\ outgoing # <<>> /\ Open
          /\ current' = [current EXCEPT ![w] = Head(outgoing)]
          /\ outgoing' = Tail(outgoing)
          /\ bytes' = bytes - Size(Head(outgoing))
          /\ place' = [place EXCEPT ![w] = "write"]
          /\ UNCHANGED writing
       \/ /\ outgoing = <<>> \/ ~Open
          /\ writing' = FALSE
          /\ place' = [place EXCEPT ![w] = "none"]
          /\ current' = [current EXCEPT ![w] = NoLine]
          /\ UNCHANGED <<outgoing, bytes>>
    /\ UNCHANGED <<given, socket, broken, reading, wire>>

\* async_write has written the whole line ...
Written(w) ==
    /\ place[w] = "write"
    /\ Open /\ ~broken
    /\ wire' = Append(wire, current[w])
    /\ place' = [place EXCEPT ![w] = "loop"]
    /\ UNCHANGED <<given, socket, broken, reading, queueVars, current>>

\* ... or throws, a part of the line written or none.
WriteError(w) ==
    /\ place[w] = "write"
    /\ ~Open \/ broken
    /\ place' = [place EXCEPT ![w] = "failed"]
    /\ UNCHANGED <<given, socket, broken, reading, queueVars, current, wire>>

\* The catch, and writing_ = false; neither outgoing_ nor the socket is touched.
Catch(w) ==
    /\ place[w] = "failed"
    /\ writing' = FALSE
    /\ place' = [place EXCEPT ![w] = "none"]
    /\ current' = [current EXCEPT ![w] = NoLine]
    /\ UNCHANGED <<given, socket, broken, reading, outgoing, bytes, wire>>

\* The connection is reset.
Break ==
    /\ Open /\ ~broken
    /\ broken' = TRUE
    /\ UNCHANGED <<given, socket, reading, queueVars, writerVars, wire>>

\* The read loop ends: EOF from a client that has stopped sending but may still
\* read, a reset, or the socket was closed.
EndReading ==
    /\ reading
    /\ reading' = FALSE
    /\ UNCHANGED <<given, socket, broken, queueVars, writerVars, wire>>

\* Fault: the writer does not keep its session.
ReleaseUnderWriter ==
    /\ ~reading /\ Open
    /\ socket' = "release"
    /\ UNCHANGED <<given, broken, reading, queueVars, writerVars, wire>>

\* The last shared_ptr goes, with it the session, and its socket closes.  The
\* writer's `self` is one; so are those of handlers still to send a line.
Release ==
    /\ ~reading /\ Open /\ Active = {}
    /\ socket' = "release"
    /\ UNCHANGED <<given, broken, reading, queueVars, writerVars, wire>>

-----------------------------------------------------------------------------
Write(w) == Loop(w) \/ Written(w) \/ WriteError(w) \/ Catch(w)

WriterNext ==
    \/ \E l \in Lines : SendText(l)
    \/ \E w \in Writers : Write(w)
    \/ Break \/ EndReading \/ Release

\* The strand runs the writer, and a write ends: the client goes on reading, or
\* TCP gives it up.
WriterSpec == WriterInit /\ [][WriterNext]_sessionVars /\ \A w \in Writers : WF_sessionVars(Write(w))

-----------------------------------------------------------------------------
(* Properties *)

\* There is at most one writer, and writing_ says whether: two concurrent
\* async_writes would mix their lines on the wire.
OneWriter == (writing <=> Active # {}) /\ \A v, w \in Active : v = w

\* A queued line has a writer, whatever was added when the writer was about to
\* end; only a connection that is lost may leave lines behind.
NoneStranded == outgoing # <<>> /\ Open /\ ~broken => writing

\* writing_ works as a lock: never two writers, and never a line without one.
QueueServed == OneWriter /\ NoneStranded

\* Every line accepted by a session whose connection holds is written, even when
\* the client has stopped sending and the server has forgotten the session.
AcceptedIsWritten ==
    \A l \in Lines : (\E i \in DOMAIN outgoing : outgoing[i] = l) ~>
        (\E i \in DOMAIN wire : wire[i] = l) \/ broken \/ socket = "overflow"

\* The session implements LineChannel: what is on its way is the line being
\* written and then outgoing_, until the socket closes or the connection breaks.
InHand == IF \E w \in Writers : place[w] = "write"
          THEN <<current[CHOOSE w \in Writers : place[w] = "write"]>> ELSE <<>>
Lost == ~Open \/ broken
Channel == INSTANCE LineChannel WITH
              taken <- given, delivered <- wire, cut <- Lost,
              queue <- IF Lost THEN <<>> ELSE InHand \o outgoing
ImplementsChannel == Channel!Spec
=============================================================================
