# JuXin (bigxin): a formal model of the chat server

JuXin is an instant messenger: a C++26 server of Boost.Asio coroutines over a
MySQL database, a Qt client, and a line protocol of `COMMAND:JSON` lines over
TCP (`doc/protocol.md`). This directory holds TLA+ modules of the parts of it
where concurrency, partial failure and ordering decide whether it is right,
the TLC configurations that check them, and proofs for TLAPS.

Paths are relative to the repository. Line numbers are those of the modelled
commit; `PROJECT.json` maps every definition to the lines it stands for.

## 1. The system

### How it runs

`src/server/server.cpp` starts a thread pool of eight threads per core and
runs one `io_context` on it. Every request is a C++ coroutine. Three facts
shape every module here:

* **An await is a switching point.** A database call is
  `co_await db::f(...)`. Each such function takes a connection of its own from
  the pool and runs one statement, or one transaction. Between two of them any
  other handler of any other session may run, and the rows just read may
  change. Almost no handler locks the rows it has checked.
* **A strand is a queue.** Every `Session` has a strand, and `Server` has one.
  Handlers of one strand run one at a time; a coroutine gives its strand up at an
  await. Handlers are handed over by `dispatch`, which queues them in order, with two
  exceptions: a handler runs inside the caller's turn when the strand is free, or when
  the caller is already in it. A session that tells a free server strand to broadcast runs
  the broadcast itself, and the line to itself is not queued but sent at once.
* **`SEND_MSG` is not awaited.** `Session::run` awaits every command it reads,
  except `SEND_MSG`, for which it spawns a coroutine and reads on. The
  other requests of one session therefore run one after the other, its sends
  concurrently with them and with each other.

### Components

| component | source | state it keeps | operations | what makes it hard |
|---|---|---|---|---|
| group membership | `src/server/session/{conversation,group}.cpp`, `src/database/{conversation,group}.cpp` | rows of `conversations`, `conversation_members`, `group_join_requests` | create, join request, accept, reject, mute, unmute, set admin, rename, leave, dissolve | checks on rows that other handlers change before the write |
| message delivery | `session/message.cpp`, `database/message.cpp`, `server/broadcast.cpp`, `include/session.h` | rows of `messages`, `sessions_`, queued handlers, outgoing lines | send, ack, push, connect, log in, disconnect | three queues of their own order between a row and a client |
| connection pool | `database/connection.cpp` | `idle`, `created`, a `std::mutex`; threads and strands | acquire, return | a mutex held across an await |
| friends, single conversations | `session/friend.cpp`, `database/friend.cpp`, parts of `conversation.cpp` | rows of `friends`, `friend_requests`, `single_conversations` | add, accept, reject, delete, open, send | transactions that meet; unlocked check-then-write |
| read loop and writer | `include/session.h` | `outgoing_`, `writing_`, socket | dispatch, `send_text_impl`, `writer_loop` | overflow, a failing write, a writer that ends while a line is added |
| online index | `server/broadcast.cpp` | `sessions_by_user_` | index, remove | a second login on one connection |
| list pushes | `server/push.cpp` | none: lists loaded, then sent | friend, request, conversation, join request, member lists | the order of loads need not be that of the sends |
| caches | `server/cache.cpp` | `conv_cache_`, `member_cache_` | load, store, invalidate | an invalidation between a load and its store |
| recall, reactions | `session/{message,reaction}.cpp`, `server/push.cpp` | rows of `message_reactions`, `messages.is_recalled` | react, take back, recall | read after the write, broadcast later; answers overtake pushes |
| read marks, history | `session/{message,conversation}.cpp` | `last_read_seq` | mark, page | marks of two devices |
| login, registration | `session/auth.cpp`, `database/auth.cpp`, client's `login_backend.cpp`, `network_manager.cpp` | `users`, world group; `busy_`, `pending_command_`, `buffer_` | register, log in, connect, lose the connection | look, then insert; answers without the name of a request |
| profiles, avatars | `session/conversation.cpp` | files, columns | upload, set | none modelled |
| line protocol | `include/protocol.h` | none | split, parse | none modelled |
| client backend | `src/client/backend/*.cpp` | message cache file, `conv_last_seq_`, `local_last_seq_` | catch up, page, push, open, leave | pages that overwrite pushes, numbers of failed sends, a process killed while it writes |
| client views | `src/client/qml` | bindings | | |
| benchmark, web site, sender demo | `src/benchmark`, `website-react`, `src/main.cpp` | | | |

### How they interact

A line arrives at a session's read loop, whose handler calls the database
(through the pool), answers with `send_text`, and tells the server to broadcast
or push. `Server::broadcast_*` dispatches to the server's strand, which walks
`sessions_` and dispatches a line to the strand of every authenticated session;
`send_text_impl` there puts it before the writer. All of this may happen in the
handler's own turn, and what then goes to the handler's own session is ahead of the lines
that wait on its strand. `conv_cache_`, which would
limit a broadcast to members, is never filled (`broadcast.cpp`, `cache.cpp`), so
every message of every conversation goes to every authenticated session.
The database's rows are all that the handlers of two sessions share, besides
the server's tables and the pool.

### What each component owes

* *Group*: one owner for as long as it lives; nobody removed without having
  left; nobody in it who was not accepted; roles and mutes set only by those
  who may.
* *Delivery*: sequence numbers without gaps or doubles; an ack and a push say
  what was stored; the ack first, each once; all clients in one order, but for
  a client's own messages, which it may see early; what was acknowledged arrives; a session forgotten only when its work is over.
* *Pool*: no connection in two hands; nobody blocked for ever.
* *Friends*: mutual, and only by acceptance; a decision is final; a conversation is
  opened by friends only, and a message of one of its users stored only if the two are
  friends; one conversation for a pair.
* *Writer*: what the client reads is a prefix of what was accepted.
* *Lists and caches*: the last thing shown is, in the end, what is stored.
* *Reactions*: all clients end up showing the same, but for one actor whose own push
  overtook older ones; a recall is not undone by
  what was on its way.
* *Login*: an account has one owner; an answer is taken for the request it
  answers; the form is enabled again.
* *Client*: what it shows is an unbroken end of the conversation, and what it caches
  is what it shows.

## 2. The modules

| module | lines it stands for | what it is |
|---|---|---|
| `GroupContract` | | the abstract specification: a group as one atomic object |
| `GroupMembership` | group handlers and their queries | one action per await, refines `GroupContract` |
| `GroupMembershipProofs` | | its proofs |
| `MessageLog` | | the abstract specification: one log of a conversation, which every session online is told in order, its own messages perhaps early |
| `MessageFlow` | send, ack, broadcast, session life | one action per await or strand handler, refines `MessageLog` |
| `MessageFlowProofs` | | its proofs |
| `ConnPool` | pool, threads, strands | one action per resumption |
| `FriendGraph` | friend handlers and their queries | one action per await |
| `FriendGraphProofs` | | its proofs |
| `LineChannel` | | the abstract specification: a FIFO that may be cut, never reordered |
| `SessionWriter` | `send_text_impl`, `writer_loop`, the session's end | one action per strand handler, refines `LineChannel` |
| `HeldAcrossAwaitProofs` | | the proofs of `ConnPool` and `SessionWriter`, each about something held across an await: a connection and a mutex, a line and the right to write |
| `ListPush` | login, list requests, list pushes, `sessions_by_user_` | one action per await or strand handler |
| `ListPushProofs` | | its proofs |
| `ClientSync` | the client's cache, last seqs, pushes, lists and pages; `handle_history_req`, `send_conv_list_to` | one action per line, request and user's click |
| `ClientSyncProofs` | | its proofs |
| `LoginRegister` | the client's login machine and socket; `handle_login`, `handle_register` and their queries | one action per await, line and socket event |
| `LoginRegisterProofs` | | its proofs |
| `Reactions` | reaction, unreaction and recall handlers, their broadcasts, what a client keeps | one action per await or strand handler |
| `ReactionsProofs` | | its proofs |
| `MC*` | | symmetry sets, strand assignments, numbers of tries and a state constraint for TLC |

### GroupMembership

State: the row of the conversation (`conv`, `owner`), the members' rows (`role`,
`muted`), the join requests (`joinReq`) and who holds one `FOR UPDATE` (`reqLock`); for
every handler the await it is at (`pc`) and what it has read (`frame`).
`leaveNotices` is the stored "left the group" messages. A handler's checks and the
write they justify are different actions, for example `CheckSelf`, `CheckTarget`,
`Write` for mute, unmute and set admin. Accepting a join request is a transaction
in the code: `LockRequest` takes the row's lock, `CheckHandlerRole` reads the role of
the one who decides, `Decide` is the rest up to COMMIT. `Fail` is a statement that
throws anywhere. One group stands for all, since handlers of two groups touch
different rows.

`GroupContract` says the same with requests as atomic changes: `Found`,
`Change` (one user other than the founder), `DissolveGroup`. The refinement
mapping is `phase <- conv, founder <- owner, rank <- role`: no history or
prophecy is needed, every step of a handler is a change or a stutter.

### MessageFlow

State: the stored rows (`seqOf`), for every send its coroutine's await, session
and what it read; for every session its life (`conn`, `auth`, `socket`, `pending`);
`registered` is `sessions_`; `strand` is the server's strand as a queue of tasks, `inbox` the
lines queued on each session's strand, `out` what `send_text_impl` has accepted in order.
`Submit` is the read loop taking a `SEND_MSG`; `Start`, `Check`, `Insert`, `ReadSeq`
and `Reply` are its coroutine. `Reply` has two ways: `AckAndQueue` acknowledges and queues
the broadcast on the server's strand; `AckAndBroadcast`, when that strand is free, runs the
broadcast in the same turn: the others' lines go into their `inbox`, the sender's own
behind its ack into `out`, ahead of its `inbox`. `RunStrand` runs the strand's first task
(register, remove, broadcast) in a turn of its own; `DeliverLine` runs `send_text_impl`; `ReadError` and `StopWaiting` end a
session, the latter with its sends over or after the two seconds it waits for
them. How many lines fit in `MAX_OUTGOING_BYTES` depends on their sizes and on
the client, so that any line may overflow. The reasons a send is refused
(mute, friendship) are the state of the other modules and left open. `after` and
`announced` are history: the sends acknowledged before one was made, and the order in
which `Reply` dispatched the broadcasts.

`MessageLog` says what comes of it for those in a conversation. A message is stored, and
then either announced, which puts it into the log for everyone to be told and lets its
sender know, or withheld. The sender may be told the entry itself at the same moment,
ahead of what it is still due. Everything else is told entry after entry to whoever is
online; a session that is not may miss some. The refinement mapping: `stored` is the number of rows,
`unsent` the rows whose send is not over, `log` the seqs of `announced`, `told` is `out`,
`online` are those logged in, connected and not about to be removed, and `due` are
the places in the log whose broadcast is on the server's strand, behind the session's
registration if that is there too, or on the session's own. When the conversation is
dissolved its numbers go, and the promise with them.

### ConnPool

State: each task's place (`pc`), whether it asked for a plain connection or a
handle (`kind`), its connection, the holder of the mutex (`lock`), `created`, `idle`.
A task awaiting gives its thread back; a task blocked on the mutex keeps thread
*and* strand, so `CanRun` asks for a free thread and that nobody blocks the
strand. Sections that take and release the mutex without awaiting are one
action.

### FriendGraph

State: the tables (`friends` one direction per row, `requests`, `single`, `members`),
row locks, the handlers' frames; `pairOf` and `since` are history: whom a
conversation was made for, and which pairs have been friends since a handler
began. Two facts of MySQL matter and are in the model: `SELECT ... FOR UPDATE` waits
and reads what is committed (`LockRequest`), a plain `SELECT` of a transaction
reads the snapshot of its first one (`Snapshot` in `FRIEND_ADD`). Accepting ends in the
code that opens the conversation, as does opening one. A send may name any conversation,
whether the sender is in it or not, and even one that is not there yet: nothing in the
code asks. `ReadType` finds the conversation or does not (`found`), `FindPeer` returns
some member other than the sender, `CheckFriend` asks about that one, and `AppendMessage` stores.

### SessionWriter

`MessageFlow` ends where a line is put into a session's hands; this module is
what becomes of it. State: `outgoing`, `bytes`, `writing` are the session's fields of those
names, `socket` says what has closed the socket, `reading` whether `Session::run` is
still in its loop; `place` and `current` are the place and the local line of each
writer coroutine; `broken` is the network. `SendText` is `send_text_impl` with the
spawn of a writer in it, `Loop` the writer from one await to the next, `Written` and
`WriteError` the two ends of `async_write`, `Catch` its handler, `Release` the last
`shared_ptr`, which the writer's own keeps away. `given` and `wire` are history.

`LineChannel` is what it owes the client: what was accepted arrives in that
order, once, until the connection is cut for good. The refinement mapping makes
`queue` the line in the writer's hand followed by `outgoing`, and empty once the
socket is closed or the network gone.

### ListPush

State: `stored` is each user's list in the database, as the number of changes made
to it; `pc`, `of`, `made`, `loaded` are the handlers that change a list and, after `Spawn`,
the coroutine that pushes it; `strand` is the server's strand, `index` is
`sessions_by_user_`, `life` says whether a session is in `sessions_`, removed from it,
or destroyed, which is what a `weak_ptr` finds out; `loop`, `user` and `read` are a
session's read loop, `inbox` the pushes on its strand, `sent` what `send_text_impl` got.
`Login` is `handle_login` to its second query, with the session queued for the
index; `Change`, `Spawn`, `Load`, `Start` and `Walk` are a push from the commit to
`for_user_sessions`; `ReadList` and `AnswerList` are the client's own request. An answer is
sent on the session's strand at once, a push is queued behind what that
strand is doing, so that an answer may overtake a push. The four
lists that `push.cpp` loads and pushes are alike and one stands for all; the
module is about one of them at a time.

### ClientSync

`MessageFlow` and `ListPush` end at the client; this is what the client makes of what
comes, for one conversation. The server is reduced to what those two leave: `rows`
stored, `unpushed` those whose broadcast has not run (what `MessageLog` promises, with
`unpushed` for a row that is unsent or due, and with its `Withhold`), and one connection with its
`requests`, the `answer` a handler has read and not sent, the list a coroutine has
read (`listing`) and the `lines` on their way. The client's memory is `known` and
`convLast` (`conv_last_seq_`), `localLast` (`local_last_seq_`), `listed` (`ChatList` has the
conversation), `opened` and `view` (what `ChatArea` shows); `file` is the cache file. A
message is its seq. A refused send is cached under the time in milliseconds,
greater than any seq: a stamp.

`Receive` is `ProtocolHandler::handleCommand` with one line, `Open` is `openConversation`:
show the cache, then ask for the newest page, or for what follows the cache if
the server is known to have more. `Restart` and `DieWriting` are the process gone, the latter
between truncating the file and writing it; a process connects once, since its
login window goes away with the login. `blind` is history: which of six `Losses` have
happened, the ways in which the code passes over messages (see below).
Left out are a list request that fails, which changes nothing, the details
view's own opening of a conversation, and read marks.

### LoginRegister

State of a client: `link` (the socket), `conn` (which connection it is on), `busy`,
`pending` and `account` (`busy_`, `pending_command_`, `pending_account_`), `user` and
`glued`, a part of a line that a lost connection left in `buffer_`; `swallowed` is
history. Of a session, one for each connection: the `requests` on their way to it, the
`job` of its handler, `auth` and the `answers` on their way back. `users` and `world`
are the tables. `Exists`, `Insert` and `Member` are `register_user`, `Find`, `Touch` and
`World` a login, one query each, and `Fail` a query that throws. `Drop` loses a
connection: its request may be handled all the same, and a part of an answer may have
come. The client has no timer. The index of who is online is in `ListPush`, pushes are
left out.

### Reactions

State: `table` and `recalled` are the rows for one message; `job` is what each user's
handler is at, `strand` and `inbox` are the queues of the server's strand and of the
sessions'; `file` is what each client has cached, `gone` who shows the message as
recalled and `reopened` who has opened the conversation since. `changes`, `newest` and
`lost` are history: how often the table has changed, which of these reads was broadcast,
and what went wrong. An actor gets an answer in the handler's own turn, and everyone a
push: in a later turn (`AnswerAndQueue`), or, when the server's strand is free, in the same
one (`AnswerAndBroadcast`), where the actor's own push goes ahead of its `inbox`. `ahead` is
history too: the actor of the latest reactions broadcast, if its own push went ahead of
older reactions that were waiting for it. The way from there to the client delays lines and changes nothing else,
so that a client takes a line when its session does. The cache has nothing about
recalls, and the server reads `is_recalled` nowhere, so that opening the conversation
again shows the message.

## 3. What TLC checks

| run | instance | distinct states | result |
|---|---|---|---|
| `group` | 3 users, 2 handlers, 2 join requests | 2,990,000 | passes |
| `message_flow` | 2 sessions, 2 sends | 156,000 | passes |
| `message_delivery` | 2 sessions, 1 send, fairness | 11,700 | passes |
| `conn_pool` | 3 tasks of 3 strands, 3 threads, pool of 2, fairness | 27,900 | passes |
| `conn_pool_deadlock` | 2 tasks of one strand, 3 threads, pool of 2, fairness | | violated |
| `friend_graph` | 3 users, 2 handlers, 2 requests, 1 conversation | 2,960,000 | passes |
| `friend_duplicate` | 2 users, 2 handlers, 1 request, 2 conversations | | violated |
| `session_writer` | 4 lines of two sizes, room for 3 units, 2 writers, fairness | 8,910 | passes |
| `list_push` | 2 users, 2 sessions, 2 logins, 1 change, fairness | 481,000 | passes |
| `client_sync` | 3 messages, a first page of 1 and later ones of 2, 1 refused send, 2 requests, 2 lines | 6,140,000 | passes |
| `login_register` | 2 clients with 3 tries and 1, 1 account, fairness | 144,000 | passes |
| `reactions` | 3 users, the sender and an admin among them, 3 requests | 721,000 | passes |

**group.** Any two requests of any of three users meet in every order of their
awaits: `OwnerStands` (one owner while the group lives, never muted, no rows after),
`RolesSetByOwner`, `RemovalAnnounced`, `JoinByAcceptance` and
`ImplementsContract`. Why they hold though nothing is locked: the owner's row is
written by no handler, as each refuses the owner as its target and there is no
transfer of ownership; updates of rows that are gone match nothing; a deletion
names the leaver only; and a decision is made under the request's lock.

**message_flow.** `NumberedAsStored`, `AckThenPushOnce`, `SameOrder`, `CausalOrder`,
`DrainedBeforeRemoval`. They hold because numbering and inserting are one statement,
the ack is sent on the session's strand before the broadcast is dispatched,
and what is queued keeps its order. Two clients agree on the order of any two pushes, unless
one of the two messages is a client's own, which that client may see early; the order need
not be that of `seq`. A number may be sent wrong once the group is
dissolved under the send (`ReadSeq`): the property is for a conversation that exists.
`ImplementsLog` puts the order together with who is told: from a client's login on nothing
announced passes it by, because its registration was queued before it could log in, and a
sender is told of nothing that will not be told to all, because `Reply` acknowledges and
dispatches the broadcast in one step, with no await in between.

**message_delivery.** `AckedIsPushed`: what is acknowledged arrives, unless the
receiver goes.

**conn_pool.** `OneHolder` (no connection in two hands, and the mutex held across an await
only to connect), `WarmPoolNeverBlocks` and `EveryRequestServed`, the liveness
of every acquire, with deadlock checked.

**friend_graph.** `FriendshipMutual`, `FriendsByAcceptance`, `RejectionFinal`, and
`ActsBetweenFriends`: a conversation is opened only between users who have been friends at
some moment of the request; a message is stored in one that was there when its type was
read only if its sender has been a friend, at some moment of the send, of another of the
two it was made for, or if nobody else is left in it. For one of the two this is the peer. An
outsider needs one of them as a friend, which is all that the code asks.

**session_writer.** `QueueServed` (one writer at a time, and a line never left without
one), `AcceptedIsWritten` and `ImplementsChannel`; `WriterTypeOK` holds the count of
bytes against the queue. They hold because everything but the write itself runs on
the strand: the writer finds the queue empty and clears `writing_` in one step, so
that no line can be added in between; and the writer holds its session, so
that a client that has only stopped sending still gets what was queued. A write
that fails leaves lines behind, but only when the connection is lost.

**list_push.** `Indexed`, `PushedOnce` and `ChangeReaches`. A client asks for its lists once,
after login, and relies on pushes from then on. Nothing falls between the
two because a session is queued for the index before it is told of the login: a
push that does not find it has loaded what the client's first request will read
as well. The handlers of the index are FIFO, so that a session is never put
into it after it was removed.

**client_sync.** `FileWithinView`: whatever the cache file of the open conversation has is
on the screen, although pushes and pages reach the two by different calls.
`NothingSkipped`: once nothing is on its way, what is shown is an unbroken end of the
conversation up to its newest message, unless one of the six `Losses` has
happened. What makes it hold is `Open`: it compares the list's seq with the cache's
and asks for what follows, so that a page and a push that come next continue what was
cached or overlap it. One that does neither is a gap, and one of the `Losses`. This
includes a case that the proof brought to light: with more messages missed than the
first page holds, a push under way may come before that page and be cached, and the
page then replaces a cache that it is not next to.
Killing the process with the file truncated costs a page, no message.
The run goes on after a loss, of which `NothingSkipped` says nothing more, and
`FileWithinView` holds there too.

**login_register.** `AnswerIsForPending`: an answer carries no id of its request, yet it is for
the one awaited, because the form is disabled while one is and a new connection
has a new session, so that what the last one still does is answered to nobody.
`AccountHasOneOwner`: both of two that register at once may find the name free; the unique key
refuses the second. `BusySettles`: the form is enabled again, unless the answer was
`swallowed` (see below).

**reactions.** `ClientsAgree`: with every push delivered, all clients show the same reactions.
An actor's own answer may overtake older pushes to it, but the push of the same
reading follows for everyone, behind them. The exception is an actor whose push was sent
in the turn of its answer, while older ones waited on its strand: `ahead`, which the next
broadcast of reactions ends. `RecalledStays`: no reaction on its way brings a
recalled message back.

### Where the code and what is said of it differ

Two are runs:

* `conn_pool_deadlock`: while the pool warms up, the mutex is held over an await
  (`connection.cpp:95`). A second send of the same session blocks a thread inside
  the strand that the first needs to go on. Both wait for ever, although a comment has a
  caller never wait (`connection.cpp:98`).
* `friend_duplicate`: a comment relies on the unique key to keep a pair from
  having two conversations (`src/database/conversation.cpp:206`). `ON DUPLICATE KEY UPDATE`
  overwrites instead.

The others need no run: the models have them, as steps the code takes, and the
properties are stated so as to say what holds in spite of them. They are in
`PROJECT.json` under hazards.

* An admin may mute an admin, against the comment at `session/conversation.cpp:710`: the
  target's role is read before the write at 721; promote in between.
* A message whose sender's session closes between the insert and the reply
  (`session/message.cpp:155`) is stored and nobody is told, against `doc/protocol.md:380`:
  `Withhold` in `MessageLog`.
* The list pushed is to be the newest (`include/server.h:105`). It is loaded, then sent,
  with an await in between (`push.cpp:68`); the client may be left with the older of two.
* The client sees that a push leaves a gap and has a TODO there
  (`protocol_handler.cpp:284`); a page takes the place of what pushes appended (332), and
  `hasMore` is not looked at; a list older than a push sets the known seq back (393).
* The text and notice of a refused send are cached with the time as their seq
  (`protocol_handler.cpp:170`), after which the cache seems to be ahead of the server.
* What a lost connection left of a line is glued to the first answer of the next
  (`network_manager.cpp:66`), which is then no command: the form stays disabled, which the
  comment at `login_backend.cpp:140` wants to avoid.
* Two clients may see two messages in different orders, when one of the messages is one
  of theirs: B's push of A's message waits on B's strand while B's own message is broadcast in
  B's turn (`include/server.h:50`, `include/session.h:410`). In the same way the actor of a
  reaction may stay on an older reading than all others (`push.cpp:303`). No document
  promises the order; `doc/protocol.md:54` leaves it to `seq`.
* Of two reactions at once, the older reading may be broadcast last
  (`reaction.cpp:163`): all clients agree, on reactions the table no longer has.
* A reject may overwrite an acceptance and leave the friendship; a deletion
  leaves the deleter out of the conversation for good, and lets the other go on sending
  to it unchecked; sending needs no membership (`session/message.cpp:60`), so that an outsider
  who is a friend of one of the two may send into their conversation, and an id of a
  conversation made only after its type was read is checked for no friendship; a send repeated with the
  same `clientMsgId` is stored twice (`doc/protocol.md:350`); `created` is never taken back,
  neither when a connection fails nor when a plain one is closed.

### Bounds, and why they are enough

* *Handlers, tasks, sends: two or three.* The properties relate a check to a
  write of one handler and a change by another in between; a third changes
  nothing that two steps of the second, which may run any number of requests,
  do not. The proofs below are for any number.
* *Users: three* in groups, as a group is founded with three and the requester,
  the target and another may then differ; *three* for friends, the two of a
  conversation and an outsider; *three* for reactions: the sender, an admin who may recall, and another.
* *Rows: two requests*, so that one can be decided while the other is pending;
  *one conversation* in `friend_graph`, about which a handler may ask before and after it
  is made; *two* in `friend_duplicate`, for one pair, one more than it should have. No id is
  reused, so runs end in states where ids are used up; handlers go on with
  the rows there are.
* *Pool of two, three threads, three tasks*: one task more than pooled
  connections makes a temporary one; two blocked waiters leave one thread, the
  least with which the pool can still get ahead.
* *Connections*: `Cardinality(Tasks) + PoolSize` ids, all that can be open.
* *Lines: four, two of them large, room for three units.* Lines can be added before,
  during and after a write, fit exactly, and overflow by one unit; the second
  writer is one more than there should ever be.
* *Logins: two in all*: of two devices of one user, of two users, or twice on one
  connection, which are the cases the index tells apart. *Changes: one* to
  reach a client.
* *Messages: three, a first page of one and later ones of two* in `client_sync`: a
  conversation longer than either page, a cache that is one or two behind, a push on
  either side of a page, a page that does not reach back to what was pushed. The code's
  pages are of 50 and 100. *Lines: two* on their way at a time, enough for a push to be
  on either side of an answer; *requests: two*, so that leaving and opening again
  asks twice. No more than one list is on its way.
  After a loss, `SmallAfterLoss` keeps to two messages, and to one request or line on its
  way besides the answer a handler is at.
* *Tries: three and one*, so that one client can fail, try again over the same or a
  new connection and then sign in, while the other takes its account;
  *requests: three* in `reactions`, which is two reactions and a recall, or two changes of one
  user around one of another.
* *Symmetry* is used only in safety runs and for values that are compared,
  never ordered.
* *Deadlock* is checked in `group`, `conn_pool`, `friend_graph` and `client_sync`. The sends, lines,
  logins, changes, tries and requests of the other modules are finite: when
  all are over and the sessions gone, they stop.

### Fairness

`MessageFlow.FairSpec` has weak fairness of a send's coroutine, of each strand and of
the two seconds' wait: the pool of threads runs any handler that is ready, a
query returns or throws, and a timer fires. Nothing is asked of clients, the
network or failures. `ConnPool.Spec` has weak fairness of every step but `Begin`: a thread
takes up what it can, a free mutex is given to a waiter, the network answers.
Weak fairness suffices for waiting on the mutex in the checked instance, as
connecting under it happens at most `PoolSize` times. `SessionWriter.WriterSpec` has weak
fairness of each writer: the strand runs it, and a write comes to an end, since
the client reads on or TCP gives the connection up. Neither a client that stops
sending nor the release of the session is made to happen. `ListPush.FairSpec` has weak
fairness of the strands, of the handlers and coroutines under way, whose
queries return or throw, and of the client's request after a login, which
`Main.qml` makes when it is loaded. `LoginRegister.Spec` has weak fairness of an attempt to
connect, which succeeds or fails, of a session's handler, and of the arrival of
an answer on a connection that holds. Nobody has to submit anything, and no connection
has to be lost.

### Every property can fail

`PROJECT.json` pairs every property of a passing run with a fault: an operator
that changes one modelled definition as a likely bug would (the operators
commented "Fault:"). With it, TLC finds the property violated under the run's
own configuration.

## 4. What is proved

For every set of users, handlers, requests, conversations, sessions, sends, tasks,
threads, lines, writers, clients, accounts and tries, from the assumptions that the
modules make of their constants alone: the values standing for "none" are not ids,
bounds are numbers, sends, tasks and changes are finitely many (`FlowConstants`,
`PoolConstants`, `PushConstants`), every task has a strand and there is a thread
(`PoolConstants`), the sender is a user and so are the admins (`ReactionConstants`);
a page has room for a message (`SyncConstants`); `GroupConstants`, `FriendConstants`,
`WriterConstants` and `LoginConstants` ask no more than the first two. In each module the safety property is not inductive by itself, as a
handler acts on what it has read; `IInv` adds what is still true of that when it acts.

`GroupMembershipProofs`: `TypeCorrect`, `OwnerKept`, `RolesByOwner`,
`RemovalsAnnounced`, `JoinsAccepted`, and `Implements`, the refinement of
`GroupContract`. That a write spares the owner depends on the target the handler checked
earlier. `IInv` adds `FrameInv` (a handler past its checks for a role change acts for
the owner, and never targets the owner; one that is leaving is not the owner; one about
to delete a row has stored the notice, or the group is gone), `LockInv` (a handler
deciding a join request holds its lock and what it read of it is still so) and
`GroupInv`. The key is that ownership never changes hands, so "is the owner" and "is not
the owner" cannot become stale, although "is an admin" can.

`FriendGraphProofs`: `TypeCorrect`, `Mutual`, `FriendsAct`, `ByAcceptance`, `Final`.
`IInv` adds that a frame at a step that acts on two users holds two different
ones, that a handler about to commit an acceptance holds the lock of a request
still pending, and `SinceInv`: every friendship there is has been seen by every
handler under way, so that a check that finds friends puts the pair into
`since`. The proof has two halves. `ActorOK` is about the frame of the handler
that takes the step; `StableStep` and `OthersOK` say that the step leaves alone all that
the other frames rely on: requests stay made, a conversation's pair is fixed
and its members only leave, `since` grows, a locked row is not changed. For a send, the frame
carries the peer from `FindPeer`: one of the pair the conversation was made for, whoever
the sender is, so that the check that passes puts the sender and one of the two into
`since`; a send without a peer is about a conversation nobody else was left in, and
members do not come back.

`HeldAcrossAwaitProofs`, about `SessionWriter`: `BytesCounted`, `WriterServes`, and
`Implements`, the refinement of `LineChannel`. Its invariant joins `WriterTypeOK` with
`OneWriter` and `NoneStranded`, the parts of `QueueServed`, and with `WriterInv`: a writer
at a write has a line in hand, one whose write failed has seen the connection lost. With
one writer, "the line in hand" is well defined, and every action is an `Accept`, `Drop`,
`Deliver`, `Cut` or a stutter. The bytes are stated as the length of `outgoing` and, once
more, its large lines, which are a set since no line is given twice: a sum over the
sequence would need an induction that the provers cannot do.

The same module, about `ConnPool`: `TypeCorrect`, `OneHolderAlways`, `WarmPool`. `Holds` says which steps
have a connection in hand, `Apart` that one is in the hands of one task or idle, once.
That a connection is new is a count: `Fresh` shows that the ids exceed those in use,
which are at most one for each task and `PoolSize` idle ones.

`ListPushProofs`: `TypeCorrect`, `AlwaysIndexed`, `NeverPushedTwice`. A handler on the
strand acts on what was true when it was queued; `TaskInv` says that it still is: who is
to be removed has ended, who is to be indexed has a user, a change to be walked is
loaded. `QueuedOnce` keeps two walks of a change apart, `LifeInv` removed sessions from
those that read on, `Counted` the number in `stored` from growing past the changes, and
`PushInv` says that what is queued or sent is of a walk that is over.

`MessageFlowProofs`: `TypeCorrect`, `Numbers`, `AckFirst`, `OneOrder`, `Causality`,
`Drained`, and `OneLog`, the refinement of `MessageLog`. `IInv` has the types, with `Counted` (`pending` of a session is the number of
its sends under way) and the draining; `RowInv` and `SeqDense` for the rows, `LineInv`
for what the lines say. A push is on its way in `out`, then `inbox`, then `strand`, and
`Ahead` is the order in which a session gets two of them. It stays: `AheadStep` shows that
no step lets one push overtake another, but for a session's own, which `Reply` may put in
front of those that wait for it; any other push it adds behind all. `WayInv` says that no
push is on its way twice, `AckInv` that an ack is in front of the push of its message, and
`AfterInv` is about a message sent after an ack. `LogInv` has the order: a message is
announced once, when its send is over and after those acknowledged to its sender; it is on
no way to a session before that, and `Ahead` agrees with the places in `announced`, but for
a session's own messages. Since `announced` is one sequence for all, so is the order.

The refinement needs one more part. `LifeInv`: a session is registered once, with nothing
queued to remove it before it ends, and only those logged in send. Each step is then shown to be one of the log's, or a
stutter: `AnnouncesQueued` and `AnnouncesHere` for the two ways of `Reply`, `Tells` for a push that gets through, `Withholds` for a send
that ends without a reply, and `LeaveIs` for all that makes a session miss entries, which is
sound as it is not online, for instance a broadcast that passes one not
registered. That the entry told is the first one due is `LogInv` and the order of the queues: what
`DeliverLine` takes was queued, and a message sent early was never due.
Storing a row is a count: it makes `Cardinality(Stored)` one more, which by `SeqDense` is its
seq.

`ClientSyncProofs`: `TypeCorrect`, `CacheShown`, `Followed`, `NothingLeftOut`. `Linked` says
where a connection, a user and a conversation can be taken for granted. The rest is claimed
while none of the `Losses` has happened: `WithinRows` (no stamps, nothing that is not stored), `FileUnbroken` (the cache has no
gap), `UnknownComes` and `ListTrue` (what the client does not know of will be pushed to it,
or is in a list on its way), `PageToEnd` and `PageBehindPage` (what a page that is not full
leaves out has been pushed since, or will be). The key is to look at `Reach`, what is shown
together with the pushes to come: `ToCache`, `WithoutCache` and `ToEnd` say that it has no
hole from any message shown to the end of the cache, and, when no page is to come, to the
end of the conversation. With nothing on its way `Reach` is what is shown.

`LoginRegisterProofs`: `TypeCorrect`, `OneAwaited`, `OneOwner`. `ClientInv` and
`SessionInv` say that one thing at most is under way on a connection, and nothing when
the form is enabled; `JobOwns`, `AnswerOwns` and `UserOwns` follow a row of `users` from
the handler that found or made it to the answer and to the client.

`ReactionsProofs`: `TypeCorrect`, `Agreement`, `RecallReaches`. The way to a client is
its session's `inbox` and then `strand`. `AgreeInv` says that what a client will show
once its way has arrived is the same for all clients but those in `ahead`, at any moment, in
the middle of everything; with the queues empty, that is `ClientsAgree`. `AnswerWays` has the two
ways of an answer: the queued push puts the actor in line with the others, the one sent at
once ends up last on its way only if no older reactions wait there, which is when it does not
put the actor into `ahead`. `ChangeInv` ties it to the
table, by `changes` and `newest`; `RecallInv` has a recall on its way to whoever has not
seen it.

Model-checked only: liveness (`AckedIsPushed`, `EveryRequestServed`,
`AcceptedIsWritten`, `ChangeReaches`, `BusySettles`), since the prover cannot reason
about fairness; and the violations, which are single behaviours. Every other property of a
passing run is a theorem.

## 5. Not modelled

`PROJECT.json` lists every component. In short:

* Views, the benchmark, the web site and the demo keep no state of the system. JSON,
  splitting lines, base64, files, password hashing and the wording of messages are data the
  properties do not tell apart. Profiles and avatars are one `UPDATE` each, which nothing
  else depends on.
* Caches: `conv_cache_` is never filled. `member_cache_` is stored after an await with nothing
  to compare, and not invalidated by a leave; no comment, document or caller relies on it
  being fresh, so that there is nothing to check beyond the hazards listed.
* Read marks: `update_last_read_seq` writes what the client says, unconditionally, and only
  unread counts read it. Pages before a seq (`beforeSeq`): no client asks for one.
* System notices take the same way as messages (`broadcast_system_message` is
  `broadcast_world_message` but for the line), and are left out of `MessageFlow`.
* Requests that the client sends and forgets, whose answers only make it ask for a
  list again.

MySQL is external and assumed to do what InnoDB at REPEATABLE READ does: a
statement is atomic, a transaction's effects appear at COMMIT, `FOR UPDATE`
locks, a deadlock victim fails (`Fail`), rows persist. Boost.Asio is assumed to run what
is queued on a strand in FIFO order, and `dispatch` to queue a handler unless the strand is
free or the caller's own.

## 6. Plan

Done, in this order: `GroupContract`, `GroupMembership`, `MessageFlow`, `MessageLog`, `ConnPool`,
`FriendGraph`, `LineChannel`, `SessionWriter`, `ListPush`, `ClientSync`,
`LoginRegister`, `Reactions`, and proofs about each of them.

Left:

1. When the code closes one of the `Losses`, by asking for what a gap or a cut page left
   out, take it from `Losses` and let `NothingSkipped` hold in spite of it.
2. `member_cache_` and read marks, once they have a version or a maximum to keep.
