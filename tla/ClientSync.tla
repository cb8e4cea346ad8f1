----------------------------- MODULE ClientSync -----------------------------
(***************************************************************************)
(* How the desktop client follows one conversation: the cache file         *)
(* MessageCache keeps for it, the two last seqs ProtocolHandler remembers, *)
(* the messages ChatArea shows, and the pushes, lists and pages of history *)
(* that arrive on the one connection while the user opens and leaves the   *)
(* conversation and the process is cut off, killed and started again.      *)
(*                                                                         *)
(* The server is taken as MessageFlow and ListPush leave it: rows get      *)
(* consecutive seqs, every row is pushed once to each session that is      *)
(* authenticated when its broadcast runs, not always in the order of seq,  *)
(* unless the sender's handler ends before that, and a session's requests  *)
(* are answered one after the other.  A message is its seq.  A send        *)
(* refused with NOT_FRIEND is cached under the time in milliseconds, which *)
(* is greater than every seq: a stamp.                                     *)
(***************************************************************************)
EXTENDS Naturals, Sequences, FiniteSetsExt, SequencesExt

CONSTANTS
    MaxRows,     \* bound on the messages stored
    MaxRefused,  \* bound on the sends refused
    MaxRequests, \* bound on the requests waiting when the user opens a conversation
    MaxLines,    \* bound on the lines on their way to the client
    FirstPage,   \* limit of the page asked for without a cache (50)
    SincePage    \* limit of the page asked for after the cached seq (100)

ASSUME SyncConstants ==
    /\ MaxRows \in Nat /\ MaxRefused \in Nat /\ MaxRequests \in Nat /\ MaxLines \in Nat
    /\ FirstPage \in Nat \ {0} /\ SincePage \in Nat \ {0}

VARIABLES
    rows,      \* messages stored for the conversation: seqs 1..rows
    unpushed,  \* rows whose broadcast has not run
    up,        \* the client's socket is connected
    auth,      \* Session::authenticated_
    requests,  \* lines on their way to the server
    answer,    \* what the session's handler has read and not sent yet, as a sequence
    listing,   \* what send_conv_list_to has read and not sent yet, likewise
    lines,     \* lines on their way to the client
    signedIn,  \* user_id_ of ProtocolHandler and MessageCache is set
    known,     \* conv_last_seq_.contains(the conversation)
    convLast,  \* conv_last_seq_ of the conversation, 0 when it has none
    localLast, \* local_last_seq_ of the conversation
    listed,    \* the conversation is in ChatList's chatModel
    opened,    \* ChatArea shows the conversation
    view,      \* ChatArea's messageModel
    file,      \* messages of the cache file conv_<id>.json
    refused,   \* sends refused so far: the clock the stamps are taken from
    blind      \* history: which of the Losses have happened

serverVars == <<rows, unpushed, listing>>
linkVars == <<up, auth, requests, answer, lines>>
memory == <<signedIn, known, convLast, localLast, listed, opened, view>>
vars == <<serverVars, linkVars, memory, file, refused, blind>>

Rows == 1..MaxRows

\* What can make the client pass over messages: a push or a page that does not
\* continue the cache, a list older than a push, a page cut off by its limit, a
\* failed query, a refused send in the cache, and a row that is never pushed.
Losses == {"gap", "staleList", "cutPage", "failed", "refused", "withheld"}

LastStamp == MaxRows + 2 * MaxRefused
Entries == 1..LastStamp

Requests == [kind: {"login", "list"}] \cup [kind: {"history"}, after: 0..LastStamp]
Lines == [kind: {"login"}]
            \cup [kind: {"list"}, last: 0..MaxRows]
            \cup [kind: {"push"}, row: Rows]
            \cup [kind: {"page"}, rows: Seq(Rows), hasMore: BOOLEAN]
            \cup [kind: {"refused"}, stamps: Seq(Entries)]

TypeOK ==
    /\ rows \in 0..MaxRows
    /\ unpushed \subseteq Rows
    /\ up \in BOOLEAN /\ auth \in BOOLEAN /\ (auth => up)
    /\ requests \in Seq(Requests)
    /\ answer \in Seq(Lines)
    /\ listing \in Seq(Lines)
    /\ lines \in Seq(Lines)
    /\ signedIn \in BOOLEAN
    /\ known \in BOOLEAN /\ listed \in BOOLEAN /\ opened \in BOOLEAN
    /\ convLast \in 0..LastStamp
    /\ localLast \in 0..LastStamp
    /\ view \in Seq(Entries)
    /\ file \in Seq(Entries)
    /\ refused \in 0..MaxRefused
    /\ blind \subseteq Losses

\* The seq writeMessages stores as lastSeq: the greatest, 0 without messages.
Newest(s) == Max(ToSet(s) \cup {0})
Larger(m, n) == IF m > n THEN m ELSE n

\* What a process starts with: no user, and both maps empty.
Forgotten ==
    /\ signedIn' = FALSE
    /\ known' = FALSE
    /\ convLast' = 0
    /\ localLast' = 0
    /\ listed' = FALSE
    /\ opened' = FALSE
    /\ view' = <<>>

\* The connection and what was on its way are gone.
Unlinked ==
    /\ up' = FALSE
    /\ auth' = FALSE
    /\ requests' = <<>>
    /\ answer' = <<>>
    /\ listing' = <<>>
    /\ lines' = <<>>

Init ==
    /\ rows = 0 /\ unpushed = {}
    /\ up = FALSE /\ auth = FALSE
    /\ requests = <<>> /\ answer = <<>> /\ listing = <<>> /\ lines = <<>>
    /\ signedIn = FALSE /\ known = FALSE /\ convLast = 0 /\ localLast = 0
    /\ listed = FALSE /\ opened = FALSE /\ view = <<>>
    /\ file = <<>> /\ refused = 0 /\ blind = {}

-----------------------------------------------------------------------------
(* The server *)

\* append_text_message of some member.
Store ==
    /\ rows < MaxRows
    /\ rows' = rows + 1
    /\ unpushed' = unpushed \cup {rows + 1}
    /\ UNCHANGED <<listing, linkVars, memory, file, refused, blind>>

Room == Len(lines) < MaxLines

\* The broadcast of r runs: the session gets the push if it is authenticated.
Broadcast(r) ==
    /\ r \in unpushed /\ Room
    /\ unpushed' = unpushed \ {r}
    /\ lines' = IF auth THEN Append(lines, [kind |-> "push", row |-> r]) ELSE lines
    /\ UNCHANGED <<rows, listing, up, auth, requests, answer, memory, file, refused, blind>>

\* The sender's handler fails after the insert, or finds its session closing: r
\* stays stored and nobody is told.
Withhold(r) ==
    /\ r \in unpushed
    /\ unpushed' = unpushed \ {r}
    /\ blind' = blind \cup {"withheld"}
    /\ UNCHANGED <<rows, listing, linkVars, memory, file, refused>>

\* n rows from first on
Span(first, n) == [i \in 1..n |-> first + i - 1]
Smaller(m, n) == IF m < n THEN m ELSE n
Page(first, n, limit) == [kind |-> "page", rows |-> Span(first, n), hasMore |-> n >= limit]

\* Fault: the page starts one row early.
HistoryEarly(after) == Page(rows - Smaller(rows, FirstPage), Smaller(rows, FirstPage), FirstPage)
\* Fault: the rows from after + 2 on.
HistoryLate(after) ==
    IF after = 0 THEN Page(rows + 1 - Smaller(rows, FirstPage), Smaller(rows, FirstPage), FirstPage)
    ELSE LET left == IF rows > after + 1 THEN rows - after - 1 ELSE 0
         IN Page(after + 2, Smaller(left, SincePage), SincePage)

\* handle_history_req: the newest rows, or with afterSeq the first rows after it.
History(after) ==
    IF after = 0 THEN Page(rows + 1 - Smaller(rows, FirstPage), Smaller(rows, FirstPage), FirstPage)
    ELSE LET left == IF rows > after THEN rows - after ELSE 0
         IN Page(after + 1, Smaller(left, SincePage), SincePage)

ConvList == [kind |-> "list", last |-> rows]

\* The session's read loop takes the next line and the handler reads the tables.
\* A history request may fail: its answer changes nothing in the client.
Handle ==
    /\ requests # <<>> /\ answer = <<>>
    /\ requests' = Tail(requests)
    /\ LET q == Head(requests) IN
       \/ q.kind = "login" /\ auth' = TRUE /\ answer' = <<[kind |-> "login"]>> /\ UNCHANGED blind
       \/ q.kind = "list" /\ answer' = <<ConvList>> /\ UNCHANGED <<auth, blind>>
       \/ q.kind = "history" /\ answer' = <<History(q.after)>> /\ UNCHANGED <<auth, blind>>
       \/ q.kind = "history" /\ blind' = blind \cup {"failed"} /\ UNCHANGED <<answer, auth>>
    /\ UNCHANGED <<serverVars, up, lines, memory, file, refused>>

\* The answer is sent; lines sent since it was read are ahead of it.
Reply ==
    /\ answer # <<>> /\ Room
    /\ lines' = lines \o answer
    /\ answer' = <<>>
    /\ UNCHANGED <<serverVars, up, auth, requests, memory, file, refused, blind>>

\* send_conv_list_to reads the list in a coroutine of its own.  Bound: not while a
\* list is on its way.
ReadList ==
    /\ auth /\ listing = <<>>
    /\ \A i \in DOMAIN lines : lines[i].kind # "list"
    /\ listing' = <<ConvList>>
    /\ UNCHANGED <<rows, unpushed, linkVars, memory, file, refused, blind>>

PushList ==
    /\ listing # <<>> /\ Room
    /\ lines' = lines \o listing
    /\ listing' = <<>>
    /\ UNCHANGED <<rows, unpushed, up, auth, requests, answer, memory, file, refused, blind>>

\* A message the user sends is answered SEND_FAILED, NOT_FRIEND.
Refuse ==
    /\ opened /\ auth /\ refused < MaxRefused /\ Room
    /\ refused' = refused + 1
    /\ lines' = Append(lines, [kind |-> "refused",
                               stamps |-> Span(MaxRows + 2 * refused + 1, 2)])
    /\ UNCHANGED <<serverVars, up, auth, requests, answer, memory, file, blind>>

-----------------------------------------------------------------------------
(* The connection and the process *)

\* The user signs in: a process connects once, its Login window goes with it.
SignIn ==
    /\ ~up /\ ~signedIn
    /\ up' = TRUE
    /\ requests' = <<[kind |-> "login"]>>
    /\ UNCHANGED <<serverVars, auth, answer, lines, memory, file, refused, blind>>

\* The connection drops.  The process goes on, and never connects again once
\* the user has signed in.
Cut ==
    /\ up
    /\ Unlinked
    /\ UNCHANGED <<rows, unpushed, memory, file, refused, blind>>

\* The process ends and is started again.
Restart ==
    /\ Unlinked /\ Forgotten
    /\ UNCHANGED <<rows, unpushed, file, refused, blind>>

\* The process dies between truncating the cache file and writing it.
DieWriting ==
    /\ lines # <<>> /\ Head(lines).kind \in {"push", "page", "refused"} /\ signedIn
    /\ file' = <<>>
    /\ Unlinked /\ Forgotten
    /\ UNCHANGED <<rows, unpushed, refused, blind>>

-----------------------------------------------------------------------------
(* ProtocolHandler: one line at a time *)

\* messageReceived of each entry: ChatArea appends it when it shows the conversation.
Emit(s) == view' = IF opened THEN view \o s ELSE view

\* MessageCache writes nothing before the user is known.
Write(s) == file' = IF signedIn THEN s ELSE file

\* sendCommand does nothing without a connection.
Send(q) == requests' = IF up THEN Append(requests, q) ELSE requests

ListRequest == [kind |-> "list"]

If(happens, loss) == IF happens THEN {loss} ELSE {}

\* handleLoginResponse; the main window asks for the conversation list.
OnLogin ==
    /\ signedIn' = TRUE
    /\ Send(ListRequest)
    /\ UNCHANGED <<known, convLast, localLast, listed, opened, view, file, blind>>

\* handleConversationListResponse and ChatList's onConversationsReset: the seq
\* in the list replaces the known one, even by a smaller one.
OnList(line) ==
    /\ convLast' = line.last
    /\ known' = TRUE
    /\ listed' = (listed \/ signedIn)
    /\ blind' = blind \cup If(line.last < convLast, "staleList")
    /\ UNCHANGED <<requests, signedIn, localLast, opened, view, file>>

\* None of the rows is in the cache or next to what it holds.
Apart(new) == signedIn /\ file # <<>> /\ \A e \in ToSet(file) : {e - 1, e, e + 1} \cap new = {}

\* handleMessagePush.  The gap in the seqs it looks for has no consequence.
OnPush(line) ==
    /\ Emit(<<line.row>>)
    /\ Write(Append(file, line.row))
    /\ IF known THEN UNCHANGED requests ELSE Send(ListRequest)
    /\ convLast' = Larger(convLast, line.row)
    /\ known' = TRUE
    /\ blind' = blind \cup If(Apart({line.row}), "gap")
    /\ UNCHANGED <<signedIn, localLast, listed, opened>>

\* handleHistoryResponse: the page is shown, and takes the place of the whole
\* cache; hasMore is not looked at.
OnPage(line) ==
    LET newest == Larger(localLast, Newest(line.rows)) IN
    /\ Emit(line.rows)
    /\ IF newest > 0
       THEN localLast' = newest /\ convLast' = Larger(convLast, newest) /\ known' = TRUE
       ELSE UNCHANGED <<localLast, convLast, known>>
    /\ Write(line.rows)
    /\ blind' = blind \cup If(line.rows # <<>> /\ Apart(ToSet(line.rows)), "gap")
                     \cup If(line.hasMore /\ convLast > Newest(line.rows), "cutPage")
    /\ UNCHANGED <<requests, signedIn, listed, opened>>

\* handleCommand, SEND_FAILED: the text and the notice are cached and shown.
OnRefused(line) ==
    /\ Emit(line.stamps)
    /\ Write(file \o line.stamps)
    /\ blind' = blind \cup {"refused"}
    /\ UNCHANGED <<requests, signedIn, known, convLast, localLast, listed, opened>>

Receive ==
    /\ lines # <<>>
    /\ lines' = Tail(lines)
    /\ LET line == Head(lines) IN
       \/ line.kind = "login" /\ OnLogin
       \/ line.kind = "list" /\ OnList(line)
       \/ line.kind = "push" /\ OnPush(line)
       \/ line.kind = "page" /\ OnPage(line)
       \/ line.kind = "refused" /\ OnRefused(line)
    /\ UNCHANGED <<serverVars, up, auth, answer, refused>>

-----------------------------------------------------------------------------
(* The user *)

Ask(after) == Send([kind |-> "history", after |-> after])

\* Fault: ChatArea clears its model after the cache was loaded into it.
OpenThenClear ==
    /\ signedIn /\ listed /\ ~opened
    /\ Len(requests) < MaxRequests
    /\ opened' = TRUE
    /\ view' = <<>>
    /\ localLast' = IF file = <<>> THEN localLast ELSE Newest(file)
    /\ \/ file = <<>> /\ Ask(0)
       \/ file # <<>> /\ convLast > Newest(file) /\ Ask(Newest(file))
       \/ file # <<>> /\ convLast <= Newest(file) /\ UNCHANGED requests
    /\ UNCHANGED <<serverVars, up, auth, answer, lines, signedIn, known, convLast, listed,
                   file, refused, blind>>

\* The user selects the conversation: ChatArea clears its model, and
\* openConversation shows the cache, then asks for the newest page when there
\* is none, or for what follows the cache when the server is known to have more.
Open ==
    /\ signedIn /\ listed /\ ~opened
    /\ Len(requests) < MaxRequests
    /\ opened' = TRUE
    /\ view' = file
    /\ localLast' = IF file = <<>> THEN localLast ELSE Newest(file)
    /\ \/ file = <<>> /\ Ask(0)
       \/ file # <<>> /\ convLast > Newest(file) /\ Ask(Newest(file))
       \/ file # <<>> /\ convLast <= Newest(file) /\ UNCHANGED requests
    /\ UNCHANGED <<serverVars, up, auth, answer, lines, signedIn, known, convLast, listed,
                   file, refused, blind>>

\* The user selects another conversation.
Leave ==
    /\ opened
    /\ opened' = FALSE
    /\ view' = <<>>
    /\ UNCHANGED <<serverVars, linkVars, signedIn, known, convLast, localLast, listed,
                   file, refused, blind>>

-----------------------------------------------------------------------------
Next ==
    \/ Store
    \/ \E r \in Rows : Broadcast(r) \/ Withhold(r)
    \/ Handle \/ Reply
    \/ ReadList \/ PushList
    \/ Refuse
    \/ SignIn \/ Cut \/ Restart \/ DieWriting
    \/ Receive
    \/ Open \/ Leave

Spec == Init /\ [][Next]_vars

-----------------------------------------------------------------------------
(* Properties *)

\* What the conversation shows and what would be shown after opening it again
\* never part: whatever is in the cache file of the open conversation is on the
\* screen, although pushes and pages reach the two in different ways.
FileWithinView == opened => ToSet(file) \subseteq ToSet(view)

\* Nothing about the conversation is on its way.
Settled ==
    /\ up /\ opened
    /\ requests = <<>> /\ answer = <<>> /\ listing = <<>> /\ lines = <<>> /\ unpushed = {}

\* What the open conversation shows runs up to the newest message stored, with
\* none left out in between.
Whole == rows > 0 => /\ rows \in ToSet(view)
                     /\ \A e \in ToSet(view) : e..rows \subseteq ToSet(view)

\* Cache, list, pushes and pages fit together: after being away or killed, in
\* whatever order they arrive, the client shows an unbroken end of the
\* conversation, unless one of the six Losses has happened.
NothingSkipped == Settled /\ blind = {} => Whole
=============================================================================
