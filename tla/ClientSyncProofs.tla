-------------------------- MODULE ClientSyncProofs --------------------------
(***************************************************************************)
(* What ClientSync promises, for any number of messages, sizes of pages,   *)
(* and requests and lines on their way: the cache file never has what the  *)
(* open conversation does not show, and, as long as none of the Losses has *)
(* happened, what is shown or still on its way leaves no message out.      *)
(***************************************************************************)
EXTENDS ClientSync, FiniteSetTheorems, WellFoundedInduction, TLAPS

Push(r) == [kind |-> "push", row |-> r]
Of(kind, S) == {l \in S : l.kind = kind}
Interval(S) == \A a, b \in S : a..b \subseteq S
\* The lines after the one at i.
After(q, i) == {q[j] : j \in (i + 1)..Len(q)}

\* Pages and lists read and not received yet, requests for a page not handled.
Pages == Of("page", ToSet(lines) \cup ToSet(answer))
Lists == Of("list", ToSet(lines) \cup ToSet(answer) \cup ToSet(listing))
Histories == Of("history", ToSet(requests))
Pending == Histories # {} \/ Pages # {}

\* The rows whose push is still to come, and those together with what is shown.
Way == unpushed \cup {r \in 1..rows : Push(r) \in ToSet(lines)}
Reach == ToSet(view) \cup Way
Shown == opened /\ auth

-----------------------------------------------------------------------------
(* The inductive invariant *)

\* Where a connection, a user and a conversation are taken for granted.
Linked ==
    /\ (lines # <<>> \/ answer # <<>> \/ listing # <<>>) => auth
    /\ requests # <<>> => up
    /\ \A q \in ToSet(requests) : q.kind # "login" => auth
    /\ signedIn /\ up => auth
    /\ (listed => signedIn) /\ (opened => listed) /\ (Pending => listed)
    /\ Len(answer) <= 1 /\ \A l \in ToSet(answer) : l.kind # "push"
    /\ Len(listing) <= 1 /\ \A l \in ToSet(listing) : l.kind = "list"

\* Nothing is known, shown or on its way that is not stored: no stamps.
WithinRows ==
    /\ unpushed \subseteq 1..rows
    /\ \A l \in Of("push", ToSet(lines)) : l.row \in 1..rows
    /\ \A l \in Lists : l.last <= rows
    /\ \A p \in Pages : /\ ToSet(p.rows) \subseteq 1..rows /\ Interval(ToSet(p.rows))
                        /\ p.hasMore => p.rows # <<>>
    /\ \A q \in Histories : q.after = 0 \/ q.after < rows
    /\ ToSet(file) \subseteq 1..rows /\ ToSet(view) \subseteq 1..rows
    /\ convLast <= rows /\ localLast <= rows

\* The cache has no gap.
FileUnbroken == Interval(ToSet(file))

\* What a client with the list does not know of will be pushed to it ...
UnknownComes == listed /\ auth => \A r \in 1..rows : r <= convLast \/ r \in Way

\* ... and what a list on its way does not cover.
ListTrue == \A l \in Lists : \A r \in (l.last + 1)..rows : r <= convLast \/ r \in Way

\* What a page that is not full does not cover has been pushed since, or will be.
PageToEnd ==
    \A p \in Pages : ~p.hasMore =>
        \A r \in (Newest(p.rows) + 1)..rows : r \in Way \cup ToSet(file)

\* Behind another page it is pushed after that one: the cache is to be replaced.
PageBehindPage ==
    \A i \in DOMAIN lines : lines[i].kind = "page" =>
        \A p \in Of("page", After(lines, i) \cup ToSet(answer)) : ~p.hasMore =>
            \A r \in (Newest(p.rows) + 1)..rows :
                r \in unpushed \/ Push(r) \in After(lines, i)

\* From each message shown to the end of the cache none is left out.
ToCache ==
    Shown /\ file # <<>> => \A e \in ToSet(view) : e..Newest(file) \subseteq Reach

\* Without a cache everything is there, or nothing and a page will come.
WithoutCache ==
    Shown /\ file = <<>> => 1..rows \subseteq Reach \/ (view = <<>> /\ Pending)

\* When no page is to come, what is shown and the pushes to come reach the end.
ToEnd ==
    Shown /\ ~Pending =>
        /\ rows > 0 => rows \in Reach
        /\ \A e \in ToSet(view) : e..rows \subseteq Reach
        /\ file = <<>> => 1..rows \subseteq Reach

Follows ==
    /\ WithinRows /\ FileUnbroken
    /\ UnknownComes /\ ListTrue
    /\ PageToEnd /\ PageBehindPage
    /\ ToCache /\ WithoutCache /\ ToEnd

IInv == TypeOK /\ FileWithinView /\ Linked /\ (blind = {} => Follows)

-----------------------------------------------------------------------------
(* Sequences and the sets of their elements *)

LEMMA SetOf ==
  ASSUME NEW S, NEW q \in Seq(S)
  PROVE  /\ ToSet(q) \subseteq S
         /\ q = <<>> <=> ToSet(q) = {}
         /\ \A x : x \in ToSet(q) <=> \E i \in 1..Len(q) : q[i] = x
<1>1. q = <<>> <=> Len(q) = 0
  OBVIOUS
<1> QED
  BY <1>1 DEF ToSet

LEMMA SetOfEmpty == ToSet(<<>>) = {}
  BY DEF ToSet

LEMMA SetOfOne == ASSUME NEW x PROVE ToSet(<<x>>) = {x}
  BY DEF ToSet

LEMMA SetOfConcat ==
  ASSUME NEW S, NEW p \in Seq(S), NEW q \in Seq(S)
  PROVE  p \o q \in Seq(S) /\ ToSet(p \o q) = ToSet(p) \cup ToSet(q)
<1> DEFINE m == Len(p)
           n == Len(q)
           s == p \o q
<1>1. /\ m \in Nat /\ n \in Nat /\ s \in Seq(S)
      /\ DOMAIN p = 1..m /\ DOMAIN q = 1..n /\ DOMAIN s = 1..(m + n)
      /\ \A i \in 1..(m + n) : s[i] = IF i <= m THEN p[i] ELSE q[i - m]
  OBVIOUS
<1> HIDE DEF m, n, s
<1>2. ASSUME NEW i \in 1..(m + n) PROVE s[i] \in ToSet(p) \cup ToSet(q)
  <2>1. CASE i <= m
    BY <1>1, <2>1 DEF ToSet
  <2>2. CASE i > m
    <3>1. i - m \in 1..n /\ s[i] = q[i - m]
      BY <1>1, <2>2
    <3> QED
      BY <1>1, <3>1 DEF ToSet
  <2> QED
    BY <1>1, <2>1, <2>2
<1>3. ASSUME NEW i \in 1..m PROVE p[i] \in ToSet(s)
  <2>1. i \in 1..(m + n) /\ s[i] = p[i]
    BY <1>1
  <2> QED
    BY <1>1, <2>1 DEF ToSet
<1>4. ASSUME NEW i \in 1..n PROVE q[i] \in ToSet(s)
  <2>1. i + m \in 1..(m + n) /\ s[i + m] = q[i]
    BY <1>1
  <2> QED
    BY <1>1, <2>1 DEF ToSet
<1>5. ToSet(s) \subseteq ToSet(p) \cup ToSet(q)
  BY <1>1, <1>2 DEF ToSet
<1>6. ToSet(p) \subseteq ToSet(s) /\ ToSet(q) \subseteq ToSet(s)
  BY <1>1, <1>3, <1>4 DEF ToSet
<1> QED
  BY <1>1, <1>5, <1>6 DEF s

LEMMA SetOfAppend ==
  ASSUME NEW S, NEW q \in Seq(S), NEW x \in S
  PROVE  /\ Append(q, x) \in Seq(S) /\ ToSet(Append(q, x)) = ToSet(q) \cup {x}
         /\ Append(q, x) # <<>> /\ q \o <<x>> = Append(q, x)
<1> DEFINE one == <<x>>
<1>1. one \in Seq(S)
  OBVIOUS
<1>2. ToSet(one) = {x}
  BY SetOfOne
<1> HIDE DEF one
<1>3. q \o one \in Seq(S) /\ ToSet(q \o one) = ToSet(q) \cup ToSet(one)
  BY <1>1, SetOfConcat
<1>4. q \o one = Append(q, x) /\ Append(q, x) # <<>>
  BY DEF one
<1> QED
  BY <1>2, <1>3, <1>4 DEF one

LEMMA SetOfTail ==
  ASSUME NEW S, NEW q \in Seq(S), q # <<>>
  PROVE  /\ Head(q) \in S /\ Tail(q) \in Seq(S)
         /\ Head(q) \in ToSet(q) /\ ToSet(q) = {Head(q)} \cup ToSet(Tail(q))
<1> DEFINE h == Head(q)
           t == Tail(q)
           one == <<h>>
<1>1. h \in S /\ t \in Seq(S) /\ q = one \o t /\ one \in Seq(S)
  OBVIOUS
<1>2. ToSet(one) = {h}
  BY SetOfOne
<1> HIDE DEF h, t, one
<1>3. ToSet(one \o t) = ToSet(one) \cup ToSet(t)
  BY <1>1, SetOfConcat
<1> QED
  BY <1>1, <1>2, <1>3 DEF h, t

\* A sequence of at most one.
LEMMA Single ==
  ASSUME NEW S, NEW q \in Seq(S), Len(q) <= 1, q # <<>>
  PROVE  \E x \in S : q = <<x>> /\ ToSet(q) = {x}
<1>1. q[1] \in S /\ q = <<q[1]>>
  <2>1. Len(q) \in Nat /\ Len(q) # 0
    OBVIOUS
  <2>2. ASSUME NEW n \in Nat, n <= 1, n # 0 PROVE n = 1
    BY <2>2
  <2>3. Len(q) = 1
    BY <2>1, <2>2
  <2> QED
    BY <2>3
<1> QED
  BY <1>1, SetOfOne

LEMMA AfterAppend ==
  ASSUME NEW S, NEW q \in Seq(S), NEW x \in S
  PROVE  /\ DOMAIN Append(q, x) = DOMAIN q \cup {Len(q) + 1}
         /\ \A i \in DOMAIN q : Append(q, x)[i] = q[i]
         /\ Append(q, x)[Len(q) + 1] = x
         /\ \A i \in DOMAIN q : After(Append(q, x), i) = After(q, i) \cup {x}
         /\ After(Append(q, x), Len(q) + 1) = {}
<1> DEFINE s == Append(q, x)
           n == Len(q)
<1>1. n \in Nat /\ Len(s) = n + 1 /\ (\A i \in 1..n : s[i] = q[i]) /\ s[n + 1] = x
      /\ DOMAIN q = 1..n /\ DOMAIN s = 1..(n + 1)
  OBVIOUS
<1>2. ASSUME NEW i \in 1..n PROVE After(s, i) = After(q, i) \cup {x}
  <2>1. (i + 1)..(n + 1) = ((i + 1)..n) \cup {n + 1} /\ \A j \in (i + 1)..n : j \in 1..n
    BY <1>1
  <2> HIDE DEF s, n
  <2>2. After(q, i) = {q[j] : j \in (i + 1)..n} /\ After(s, i) = {s[j] : j \in (i + 1)..(n + 1)}
    BY <1>1 DEF After, n
  <2> QED
    BY <1>1, <2>1, <2>2
<1>3. After(s, n + 1) = {}
  <2>1. (n + 1 + 1)..(n + 1) = {}
    BY <1>1
  <2> QED
    BY <1>1, <2>1 DEF After
<1> QED
  BY <1>1, <1>2, <1>3

LEMMA AfterTail ==
  ASSUME NEW S, NEW q \in Seq(S), q # <<>>
  PROVE  /\ \A i \in DOMAIN Tail(q) : i + 1 \in DOMAIN q /\ Tail(q)[i] = q[i + 1]
         /\ \A i \in DOMAIN Tail(q) : After(Tail(q), i) = After(q, i + 1)
         /\ 1 \in DOMAIN q /\ q[1] = Head(q) /\ After(q, 1) = ToSet(Tail(q))
<1> DEFINE t == Tail(q)
           n == Len(q)
<1>1. /\ n \in Nat \ {0} /\ Len(t) = n - 1 /\ \A i \in 1..(n - 1) : t[i] = q[i + 1]
      /\ DOMAIN q = 1..n /\ DOMAIN t = 1..(n - 1) /\ q[1] = Head(q)
  OBVIOUS
<1> HIDE DEF t, n
<1>2. ASSUME NEW i \in 0..(n - 1) PROVE {t[j] : j \in (i + 1)..(n - 1)} = {q[j] : j \in (i + 2)..n}
  <2>1. ASSUME NEW j \in (i + 1)..(n - 1) PROVE j + 1 \in (i + 2)..n /\ t[j] = q[j + 1]
    BY <1>1
  <2>2. ASSUME NEW j \in (i + 2)..n PROVE j - 1 \in (i + 1)..(n - 1) /\ t[j - 1] = q[j]
    BY <1>1
  <2>3. {t[j] : j \in (i + 1)..(n - 1)} \subseteq {q[j] : j \in (i + 2)..n}
    BY <2>1
  <2>4. {q[j] : j \in (i + 2)..n} \subseteq {t[j] : j \in (i + 1)..(n - 1)}
    BY <2>2
  <2> QED
    BY <2>3, <2>4
<1>3. ASSUME NEW i \in 1..(n - 1) PROVE After(t, i) = After(q, i + 1)
  <2>1. i + 1 + 1 = i + 2 /\ i \in 0..(n - 1) /\ Len(t) = n - 1 /\ Len(q) = n
    BY <1>1 DEF n
  <2>2. {t[j] : j \in (i + 1)..(n - 1)} = {q[j] : j \in (i + 2)..n}
    BY <1>2, <2>1
  <2> QED
    BY <2>1, <2>2 DEF After
<1>4. After(q, 1) = ToSet(t)
  <2>1. 0 \in 0..(n - 1) /\ 0 + 1 = 1 /\ 0 + 2 = 2 /\ 1 + 1 = 2 /\ Len(q) = n
    BY <1>1 DEF n
  <2>2. {t[j] : j \in (0 + 1)..(n - 1)} = {q[j] : j \in (0 + 2)..n}
    BY <1>2, <2>1
  <2> QED
    BY <1>1, <2>1, <2>2 DEF After, ToSet
<1> QED
  BY <1>1, <1>3, <1>4 DEF t, n

-----------------------------------------------------------------------------
(* The newest of a sequence, and pages of history *)

USE SyncConstants

LEMMA Greatest ==
  ASSUME NEW n \in Nat, NEW S, S \subseteq 0..n, S # {}
  PROVE  Max(S) \in S /\ \A x \in S : x <= Max(S)
<1> DEFINE T == {n - x : x \in S}
<1>1. T \subseteq Nat /\ T # {}
  OBVIOUS
<1>2. PICK m \in T : \A y \in T : ~ (<<y, m>> \in OpToRel(<, Nat))
  <2> HIDE DEF T
  <2> QED
    BY <1>1, NatLessThanWellFounded, WFMin
<1>3. PICK g \in S : m = n - g
  OBVIOUS
<1>4. ASSUME NEW x \in S PROVE x <= g
  <2>1. n - x \in T /\ n - x \in Nat /\ m \in Nat
    BY <1>1
  <2>2. ~ (n - x < m)
    BY <1>2, <2>1 DEF OpToRel
  <2> QED
    BY <1>3, <2>2
<1>5. \E x \in S : \A y \in S : x >= y
  BY <1>4
<1> QED
  BY <1>5 DEF Max

LEMMA Stamps ==
  /\ LastStamp \in Nat /\ MaxRows <= LastStamp /\ Rows \subseteq Entries
  /\ \A n : n \in Entries <=> n \in Nat /\ 1 <= n /\ n <= LastStamp
  /\ Seq(Rows) \subseteq Seq(Entries)
<1>1. LastStamp \in Nat /\ MaxRows <= LastStamp
  BY DEF LastStamp
<1>2. Rows \subseteq Entries
  BY <1>1 DEF Rows, Entries
<1>3. ASSUME NEW s \in Seq(Rows) PROVE s \in Seq(Entries)
  BY <1>2, <1>3
<1>4. \A n : n \in Entries <=> n \in Nat /\ 1 <= n /\ n <= LastStamp
  BY <1>1 DEF Entries
<1> QED
  BY <1>1, <1>2, <1>3, <1>4

LEMMA NewestOf ==
  ASSUME NEW s \in Seq(Entries)
  PROVE  /\ Newest(s) \in 0..LastStamp
         /\ \A x \in ToSet(s) : x \in Nat /\ x <= Newest(s)
         /\ IF s = <<>> THEN Newest(s) = 0 ELSE Newest(s) \in ToSet(s)
<1>1. ToSet(s) \subseteq 1..LastStamp /\ (s = <<>> <=> ToSet(s) = {}) /\ LastStamp \in Nat
  BY SetOf, Stamps DEF Entries
<1> DEFINE S == ToSet(s) \cup {0}
<1>2. S \subseteq 0..LastStamp /\ S # {}
  BY <1>1
<1>3. Max(S) \in S /\ \A x \in S : x <= Max(S)
  <2> HIDE DEF S
  <2> QED
    BY <1>1, <1>2, Greatest
<1>4. Newest(s) = Max(S)
  BY DEF Newest
<1> HIDE DEF S
<1>5. Newest(s) \in S /\ \A x \in S : x <= Newest(s)
  BY <1>3, <1>4
<1> QED
  BY <1>1, <1>5 DEF S

\* All that is to be known of the newest of a sequence without a gap.
LEMMA NewestIs ==
  ASSUME NEW s \in Seq(Entries), NEW a \in Nat, NEW b \in Nat, ToSet(s) = a..b, a <= b
  PROVE  Newest(s) = b
<1>1. s # <<>>
  BY SetOf
<1>2. b \in ToSet(s)
  OBVIOUS
<1>3. b <= Newest(s) /\ Newest(s) \in ToSet(s)
  BY <1>1, <1>2, NewestOf
<1> QED
  BY <1>3

LEMMA SpanOf ==
  ASSUME NEW a \in Nat, NEW n \in Nat
  PROVE  /\ ToSet(Span(a, n)) = a..(a + n - 1) /\ (Span(a, n) = <<>> <=> n = 0)
         /\ \A S : a..(a + n - 1) \subseteq S => Span(a, n) \in Seq(S)
<1>1. /\ DOMAIN Span(a, n) = 1..n
      /\ \A i \in 1..n : Span(a, n)[i] = a + i - 1
      /\ Span(a, n) \in Seq(Nat) /\ Len(Span(a, n)) = n
  BY DEF Span
<1>2. \A i \in 1..n : a + i - 1 \in a..(a + n - 1)
  OBVIOUS
<1>3. ASSUME NEW x \in a..(a + n - 1) PROVE \E i \in 1..n : a + i - 1 = x
  <2>1. x - a + 1 \in 1..n /\ a + (x - a + 1) - 1 = x
    OBVIOUS
  <2> QED
    BY <2>1
<1>4. ToSet(Span(a, n)) = a..(a + n - 1)
  <2>1. ToSet(Span(a, n)) = {a + i - 1 : i \in 1..n}
    BY <1>1 DEF ToSet
  <2>2. {a + i - 1 : i \in 1..n} \subseteq a..(a + n - 1)
    BY <1>2
  <2>3. a..(a + n - 1) \subseteq {a + i - 1 : i \in 1..n}
    BY <1>3
  <2> QED
    BY <2>1, <2>2, <2>3
<1>5. ASSUME NEW S, a..(a + n - 1) \subseteq S PROVE Span(a, n) \in Seq(S)
  <2>1. [i \in 1..n |-> a + i - 1] \in Seq(S)
    BY <1>2, <1>5
  <2> QED
    BY <2>1 DEF Span
<1>6. Span(a, n) = <<>> <=> n = 0
  BY <1>1
<1> QED
  BY <1>4, <1>5, <1>6

\* What handle_history_req answers.
LEMMA HistoryOf ==
  ASSUME rows \in 0..MaxRows, NEW after \in Nat
  PROVE  /\ History(after) \in Lines /\ History(after).kind = "page"
         /\ ToSet(History(after).rows) \subseteq 1..rows
         /\ Interval(ToSet(History(after).rows))
         /\ History(after).hasMore => History(after).rows # <<>>
         /\ (after = 0 \/ after < rows) /\ ~History(after).hasMore
              => rows <= Newest(History(after).rows)
<1>1. PICK a \in Nat, n \in Nat, limit \in Nat \ {0} :
        /\ History(after) = Page(a, n, limit) /\ 1 <= a
        /\ n > 0 => a + n - 1 <= rows
        /\ (after = 0 \/ after < rows) /\ n < limit => a + n - 1 = rows /\ (n = 0 => rows = 0)
  <2>1. CASE after = 0
    <3> DEFINE n == Smaller(rows, FirstPage)
               a == rows + 1 - n
    <3>1. a \in Nat /\ n \in Nat /\ 1 <= a /\ a + n - 1 = rows /\ (n = 0 => rows = 0)
      BY DEF Smaller
    <3> QED
      BY <2>1, <3>1 DEF History
  <2>2. CASE after # 0
    <3> DEFINE left == IF rows > after THEN rows - after ELSE 0
               n == Smaller(left, SincePage)
    <3>1. n \in Nat /\ (n > 0 => after + n <= rows) /\ (after < rows /\ n < SincePage => after + n = rows)
      BY DEF Smaller
    <3>2. after + 1 \in Nat /\ 1 <= after + 1 /\ after + 1 + n - 1 = after + n
      BY <3>1
    <3>3. History(after) = Page(after + 1, n, SincePage)
      BY <2>2 DEF History
    <3> HIDE DEF n
    <3> QED
      BY <2>2, <3>1, <3>2, <3>3
  <2> QED
    BY <2>1, <2>2
<1> DEFINE p == History(after)
<1>2. p = [kind |-> "page", rows |-> Span(a, n), hasMore |-> n >= limit]
  BY <1>1 DEF Page
<1>3. p.kind = "page" /\ p.rows = Span(a, n) /\ (p.hasMore <=> n >= limit)
  <2> HIDE DEF p
  <2>1. p.kind = "page" /\ p.rows = Span(a, n) /\ p.hasMore = (n >= limit)
    BY <1>2, Zenon
  <2> QED
    BY <2>1, Zenon
<1>4. a..(a + n - 1) \subseteq 1..rows
  BY <1>1
<1>5. a..(a + n - 1) \subseteq Rows
  BY <1>4 DEF Rows
<1>6. /\ ToSet(Span(a, n)) = a..(a + n - 1) /\ (Span(a, n) = <<>> <=> n = 0)
      /\ Span(a, n) \in Seq(Rows)
  BY <1>5, SpanOf
<1>7. p \in Lines
  BY <1>2, <1>6 DEF Lines
<1>8. Interval(a..(a + n - 1))
  BY DEF Interval
<1>9. ASSUME after = 0 \/ after < rows, n < limit PROVE rows <= Newest(Span(a, n))
  <2>1. a + n - 1 = rows /\ (n = 0 => rows = 0)
    BY <1>1, <1>9
  <2>2. Span(a, n) \in Seq(Entries)
    BY <1>6, Stamps
  <2>3. CASE n = 0
    BY <1>6, <2>1, <2>2, <2>3, NewestOf
  <2>4. CASE n > 0
    BY <1>1, <1>6, <2>1, <2>2, <2>4, NewestIs
  <2> QED
    BY <1>1, <2>3, <2>4
<1> HIDE DEF p
<1>10. n < limit <=> ~(n >= limit)
  BY <1>1
<1>11. p.hasMore => n # 0
  BY <1>1, <1>3
<1> QED
  BY <1>3, <1>4, <1>6, <1>7, <1>8, <1>9, <1>10, <1>11 DEF p

-----------------------------------------------------------------------------
(* Types *)

LEMMA LineKinds ==
  ASSUME NEW l \in Lines
  PROVE  /\ l.kind \in {"login", "list", "push", "page", "refused"}
         /\ l.kind = "list" => l.last \in 0..MaxRows
         /\ l.kind = "push" => l.row \in Rows /\ l = Push(l.row)
         /\ l.kind = "page" => l.rows \in Seq(Rows) /\ l.hasMore \in BOOLEAN
         /\ l.kind = "refused" => l.stamps \in Seq(Entries)
<1>1. CASE l \in [kind: {"push"}, row: Rows]
  BY <1>1 DEF Push
<1>2. CASE l \notin [kind: {"push"}, row: Rows]
  BY <1>2 DEF Lines
<1> QED
  BY <1>1, <1>2

LEMMA NewLines ==
  /\ [kind |-> "login"] \in Lines
  /\ \A n \in 0..MaxRows : [kind |-> "list", last |-> n] \in Lines
  /\ \A r \in Rows : Push(r) \in Lines
  /\ \A s \in Seq(Entries) : [kind |-> "refused", stamps |-> s] \in Lines
  BY DEF Lines, Push

LEMMA NewRequests ==
  /\ [kind |-> "login"] \in Requests /\ [kind |-> "list"] \in Requests
  /\ \A n \in 0..LastStamp : [kind |-> "history", after |-> n] \in Requests
  BY DEF Requests

LEMMA NoneIn == ASSUME NEW S PROVE <<>> \in Seq(S)
  OBVIOUS

\* What a step of the server changes, and what it leaves to be shown.
ServerTypes ==
    /\ rows \in 0..MaxRows /\ unpushed \subseteq Rows
    /\ refused \in 0..MaxRefused /\ blind \subseteq Losses
LinkTypes ==
    /\ requests \in Seq(Requests) /\ answer \in Seq(Lines)
    /\ listing \in Seq(Lines) /\ lines \in Seq(Lines)
BondTypes ==
    /\ up \in BOOLEAN /\ auth \in BOOLEAN /\ (auth => up)
    /\ requests # <<>> => up
ClientTypes ==
    /\ signedIn \in BOOLEAN /\ known \in BOOLEAN /\ listed \in BOOLEAN /\ opened \in BOOLEAN
    /\ convLast \in 0..LastStamp /\ localLast \in 0..LastStamp
FileTypes == view \in Seq(Entries) /\ file \in Seq(Entries)

\* A connection is authenticated by a request that comes over it.
Typed == TypeOK /\ (requests # <<>> => up)

LEMMA TypeParts ==
  /\ Typed <=> ServerTypes /\ LinkTypes /\ BondTypes /\ ClientTypes /\ FileTypes
  /\ Typed' <=> ServerTypes' /\ LinkTypes' /\ BondTypes' /\ ClientTypes' /\ FileTypes'
  BY DEF Typed, TypeOK, ServerTypes, LinkTypes, BondTypes, ClientTypes, FileTypes

LEMMA UnlinkedType == Unlinked => LinkTypes' /\ BondTypes'
<1> SUFFICES ASSUME Unlinked PROVE LinkTypes' /\ BondTypes'
  OBVIOUS
<1>1. LinkTypes'
  BY NoneIn DEF Unlinked, LinkTypes
<1>2. BondTypes'
  BY DEF Unlinked, BondTypes
<1> QED
  BY <1>1, <1>2

LEMMA ForgottenType == Forgotten => ClientTypes' /\ view' \in Seq(Entries)
<1> SUFFICES ASSUME Forgotten PROVE ClientTypes' /\ view' \in Seq(Entries)
  OBVIOUS
<1>1. view' \in Seq(Entries)
  BY NoneIn DEF Forgotten
<1>2. 0 \in 0..LastStamp
  BY Stamps
<1>3. ClientTypes'
  BY <1>2 DEF Forgotten, ClientTypes
<1> QED
  BY <1>1, <1>3

LEMMA InitType == Init => Typed
<1> SUFFICES ASSUME Init PROVE Typed
  OBVIOUS
<1>1. FileTypes /\ LinkTypes
  BY NoneIn DEF Init, FileTypes, LinkTypes
<1>2. 0 \in 0..LastStamp /\ 0 \in 0..MaxRows /\ 0 \in 0..MaxRefused
  BY Stamps
<1>3. ClientTypes /\ ServerTypes
  BY <1>2 DEF Init, ClientTypes, ServerTypes
<1>4. BondTypes
  BY DEF Init, BondTypes
<1> QED
  BY <1>1, <1>3, <1>4, TypeParts

\* Everything but the receipt of a line, the opening, and what ends a process.
LEMMA ServerType ==
  ASSUME Typed, UNCHANGED <<memory, file>>, ServerTypes', LinkTypes', BondTypes'
  PROVE  Typed'
<1>1. ClientTypes' /\ FileTypes'
  BY TypeParts DEF ClientTypes, FileTypes, memory
<1> QED
  BY <1>1, TypeParts

LEMMA StoreType == Typed /\ Store => Typed'
<1> SUFFICES ASSUME Typed, Store PROVE Typed'
  OBVIOUS
<1>1. rows + 1 \in Rows /\ rows + 1 \in 0..MaxRows
  BY TypeParts DEF Store, ServerTypes, Rows
<1>2. ServerTypes'
  BY <1>1, TypeParts DEF Store, ServerTypes
<1>3. LinkTypes' /\ BondTypes'
  BY TypeParts DEF Store, LinkTypes, BondTypes, linkVars
<1> QED
  BY <1>2, <1>3, ServerType DEF Store

LEMMA BroadcastType == ASSUME NEW r \in Rows, Typed, Broadcast(r) PROVE Typed'
<1>1. lines' \in Seq(Lines)
  <2>1. Push(r) \in Lines /\ lines \in Seq(Lines)
    BY NewLines, TypeParts DEF LinkTypes
  <2>2. Append(lines, Push(r)) \in Seq(Lines)
    BY <2>1, SetOfAppend
  <2> QED
    BY <2>1, <2>2 DEF Broadcast, Push
<1>2. ServerTypes' /\ LinkTypes' /\ BondTypes'
  BY <1>1, TypeParts DEF Broadcast, ServerTypes, LinkTypes, BondTypes
<1> QED
  BY <1>2, ServerType DEF Broadcast

LEMMA WithholdType == ASSUME NEW r \in Rows, Typed, Withhold(r) PROVE Typed'
<1>1. ServerTypes' /\ LinkTypes' /\ BondTypes'
  BY TypeParts DEF Withhold, ServerTypes, LinkTypes, BondTypes, linkVars, Losses
<1> QED
  BY <1>1, ServerType DEF Withhold

LEMMA HandleType == Typed /\ Handle => Typed'
<1> SUFFICES ASSUME Typed, Handle PROVE Typed'
  OBVIOUS
<1> DEFINE q == Head(requests)
<1>1. q \in Requests /\ Tail(requests) \in Seq(Requests) /\ requests # <<>>
  BY TypeParts DEF Handle, LinkTypes
<1>2. answer' \in Seq(Lines) /\ (auth' = auth \/ auth' = TRUE) /\ blind' \subseteq Losses
  <2>1. CASE q.kind = "login" /\ auth' = TRUE /\ answer' = <<[kind |-> "login"]>> /\ UNCHANGED blind
    BY <2>1, NewLines, TypeParts DEF ServerTypes
  <2>2. CASE q.kind = "list" /\ answer' = <<ConvList>> /\ UNCHANGED <<auth, blind>>
    BY <2>2, NewLines, TypeParts DEF ServerTypes, ConvList
  <2>3. CASE q.kind = "history" /\ answer' = <<History(q.after)>> /\ UNCHANGED <<auth, blind>>
    <3>1. q.after \in Nat
      BY <1>1, <2>3, Stamps DEF Requests
    <3>2. History(q.after) \in Lines
      BY <3>1, HistoryOf, TypeParts DEF ServerTypes
    <3> HIDE DEF q
    <3> QED
      BY <2>3, <3>2, TypeParts DEF ServerTypes
  <2>4. CASE q.kind = "history" /\ blind' = blind \cup {"failed"} /\ UNCHANGED <<answer, auth>>
    BY <2>4, TypeParts DEF ServerTypes, LinkTypes, Losses
  <2> QED
    BY <2>1, <2>2, <2>3, <2>4 DEF Handle
<1>3. requests' = Tail(requests) /\ UNCHANGED <<serverVars, up, lines, refused>>
  BY DEF Handle
<1>4. ServerTypes' /\ LinkTypes'
  BY <1>1, <1>2, <1>3, TypeParts DEF ServerTypes, LinkTypes, serverVars
<1>5. BondTypes'
  BY <1>1, <1>2, <1>3, TypeParts DEF BondTypes
<1> QED
  BY <1>4, <1>5, ServerType DEF Handle

\* A line joins the others on their way.
LEMMA LinesType ==
  ASSUME Typed, NEW q \in Seq(Lines), lines' = lines \o q,
         answer' \in Seq(Lines), listing' \in Seq(Lines), ServerTypes',
         UNCHANGED <<up, auth, requests, memory, file>>
  PROVE  Typed'
<1>1. lines' \in Seq(Lines)
  BY SetOfConcat, TypeParts DEF LinkTypes
<1>2. LinkTypes' /\ BondTypes'
  BY <1>1, TypeParts DEF LinkTypes, BondTypes
<1> QED
  BY <1>2, ServerType

LEMMA ReplyType == Typed /\ Reply => Typed'
<1> SUFFICES ASSUME Typed, Reply PROVE Typed'
  OBVIOUS
<1>1. answer \in Seq(Lines) /\ listing' \in Seq(Lines) /\ ServerTypes'
  BY TypeParts DEF Reply, LinkTypes, ServerTypes, serverVars
<1>2. answer' \in Seq(Lines)
  BY NoneIn DEF Reply
<1> QED
  BY <1>1, <1>2, LinesType DEF Reply

LEMMA PushListType == Typed /\ PushList => Typed'
<1> SUFFICES ASSUME Typed, PushList PROVE Typed'
  OBVIOUS
<1>1. listing \in Seq(Lines) /\ answer' \in Seq(Lines) /\ ServerTypes'
  BY TypeParts DEF PushList, LinkTypes, ServerTypes
<1>2. listing' \in Seq(Lines)
  BY NoneIn DEF PushList
<1> QED
  BY <1>1, <1>2, LinesType DEF PushList

LEMMA ReadListType == Typed /\ ReadList => Typed'
<1> SUFFICES ASSUME Typed, ReadList PROVE Typed'
  OBVIOUS
<1>1. ConvList \in Lines
  BY NewLines, TypeParts DEF ServerTypes, ConvList
<1>2. listing' \in Seq(Lines)
  BY <1>1 DEF ReadList
<1>3. ServerTypes' /\ LinkTypes' /\ BondTypes'
  BY <1>2, TypeParts DEF ReadList, ServerTypes, LinkTypes, BondTypes, linkVars
<1> QED
  BY <1>3, ServerType DEF ReadList

LEMMA RefuseType == Typed /\ Refuse => Typed'
<1> SUFFICES ASSUME Typed, Refuse PROVE Typed'
  OBVIOUS
<1> DEFINE s == Span(MaxRows + 2 * refused + 1, 2)
           l == [kind |-> "refused", stamps |-> s]
<1>1. refused \in Nat /\ refused + 1 <= MaxRefused /\ refused' = refused + 1
  BY TypeParts DEF Refuse, ServerTypes
<1>2. (MaxRows + 2 * refused + 1)..(MaxRows + 2 * refused + 1 + 2 - 1) \subseteq Entries
  BY <1>1 DEF Entries, LastStamp
<1>3. s \in Seq(Entries)
  <2>1. MaxRows + 2 * refused + 1 \in Nat
    BY <1>1
  <2> QED
    BY <1>2, <2>1, SpanOf
<1> HIDE DEF s
<1>4. l \in Lines
  BY <1>3, NewLines
<1> HIDE DEF l
<1>5. lines' \in Seq(Lines)
  <2>1. lines' = Append(lines, l)
    BY DEF Refuse, l, s
  <2> QED
    BY <1>4, <2>1, SetOfAppend, TypeParts DEF LinkTypes
<1>6. LinkTypes' /\ BondTypes'
  BY <1>5, TypeParts DEF Refuse, LinkTypes, BondTypes, serverVars
<1>7. ServerTypes'
  BY <1>1, TypeParts DEF Refuse, ServerTypes, serverVars
<1> QED
  BY <1>6, <1>7, ServerType DEF Refuse

LEMMA SignInType == Typed /\ SignIn => Typed'
<1> SUFFICES ASSUME Typed, SignIn PROVE Typed'
  OBVIOUS
<1>1. requests' \in Seq(Requests)
  BY NewRequests DEF SignIn
<1>2. LinkTypes'
  BY <1>1, TypeParts DEF SignIn, LinkTypes, serverVars
<1>3. ServerTypes' /\ BondTypes'
  BY TypeParts DEF SignIn, ServerTypes, BondTypes, serverVars
<1> QED
  BY <1>2, <1>3, ServerType DEF SignIn

LEMMA EndType == Typed /\ (Cut \/ Restart \/ DieWriting) => Typed'
<1> SUFFICES ASSUME Typed, Cut \/ Restart \/ DieWriting PROVE Typed'
  OBVIOUS
<1>1. Unlinked /\ UNCHANGED <<rows, unpushed, refused, blind>>
  BY DEF Cut, Restart, DieWriting
<1>2. ServerTypes' /\ LinkTypes' /\ BondTypes'
  BY <1>1, UnlinkedType, TypeParts DEF ServerTypes
<1>3. CASE Cut
  BY <1>2, <1>3, ServerType DEF Cut
<1>4. CASE Restart \/ DieWriting
  <2>1. Forgotten /\ (file' = file \/ file' = <<>>)
    BY <1>4 DEF Restart, DieWriting
  <2>2. file' \in Seq(Entries)
    BY <2>1, NoneIn, TypeParts DEF FileTypes
  <2> QED
    BY <1>2, <2>1, <2>2, ForgottenType, TypeParts DEF FileTypes
<1> QED
  BY <1>3, <1>4

LEMMA SendType ==
  ASSUME Typed, NEW q \in Requests, Send(q), UNCHANGED up
  PROVE  requests' \in Seq(Requests) /\ (requests' # <<>> => up')
<1>1. requests \in Seq(Requests) /\ (requests # <<>> => up)
  BY TypeParts DEF LinkTypes, BondTypes
<1>2. Append(requests, q) \in Seq(Requests)
  BY <1>1, SetOfAppend
<1> QED
  BY <1>1, <1>2 DEF Send

LEMMA OneLoss ==
  ASSUME NEW happens, NEW loss \in Losses
  PROVE  If(happens, loss) \subseteq Losses
  BY DEF If

\* A part of the client's variables that a line can change.
LineTypes ==
    /\ requests \in Seq(Requests) /\ (requests # <<>> => up)
    /\ blind \subseteq Losses

LEMMA LargerType ==
  ASSUME NEW n \in Nat, NEW a \in 0..n, NEW b \in 0..n
  PROVE  Larger(a, b) \in 0..n /\ a <= Larger(a, b) /\ b <= Larger(a, b) /\ Larger(a, b) \in {a, b}
  BY DEF Larger

LEMMA ShownType ==
  ASSUME Typed, NEW s \in Seq(Entries), NEW f \in Seq(Entries), Emit(s), Write(f)
  PROVE  FileTypes'
<1>1. view \o s \in Seq(Entries)
  BY SetOfConcat, TypeParts DEF FileTypes
<1>2. view' \in Seq(Entries)
  BY <1>1, TypeParts DEF Emit, FileTypes
<1>3. file' \in Seq(Entries)
  BY TypeParts DEF Write, FileTypes
<1> QED
  BY <1>2, <1>3 DEF FileTypes

LEMMA OnLoginType ==
  ASSUME Typed, OnLogin, UNCHANGED up
  PROVE  LineTypes' /\ ClientTypes' /\ FileTypes'
<1>1. requests' \in Seq(Requests) /\ (requests' # <<>> => up')
  BY SendType, NewRequests DEF OnLogin, ListRequest
<1> QED
  BY <1>1, TypeParts DEF OnLogin, LineTypes, ServerTypes, ClientTypes, FileTypes

LEMMA OnListType ==
  ASSUME Typed, NEW l \in Lines, l.kind = "list", OnList(l), UNCHANGED up
  PROVE  LineTypes' /\ ClientTypes' /\ FileTypes'
<1>1. l.last \in 0..LastStamp
  BY LineKinds, Stamps
<1>2. If(l.last < convLast, "staleList") \subseteq Losses
  BY OneLoss DEF Losses
<1> HIDE DEF OnList
<1>3. /\ convLast' = l.last /\ known' = TRUE /\ listed' = (listed \/ signedIn)
      /\ blind' = blind \cup If(l.last < convLast, "staleList")
      /\ UNCHANGED <<requests, signedIn, localLast, opened, view, file>>
  BY DEF OnList
<1>4. LineTypes'
  BY <1>2, <1>3, TypeParts DEF LineTypes, ServerTypes, LinkTypes, BondTypes
<1>5. ClientTypes' /\ FileTypes'
  BY <1>1, <1>3, TypeParts DEF ClientTypes, FileTypes
<1> QED
  BY <1>4, <1>5

LEMMA OnPushType ==
  ASSUME Typed, NEW l \in Lines, l.kind = "push", OnPush(l), UNCHANGED up
  PROVE  LineTypes' /\ ClientTypes' /\ FileTypes'
<1>1. l.row \in Rows /\ l.row \in Entries /\ l.row \in 0..LastStamp
  BY LineKinds, Stamps DEF Rows
<1>2. <<l.row>> \in Seq(Entries) /\ Append(file, l.row) \in Seq(Entries)
  BY <1>1, TypeParts DEF FileTypes
<1>3. FileTypes'
  BY <1>2, ShownType DEF OnPush
<1>4. If(Apart({l.row}), "gap") \subseteq Losses
  BY OneLoss DEF Losses
<1>5. blind' \subseteq Losses
  BY <1>4, TypeParts DEF OnPush, ServerTypes
<1>6. requests' \in Seq(Requests) /\ (requests' # <<>> => up')
  BY SendType, NewRequests, TypeParts DEF OnPush, ListRequest, LinkTypes, BondTypes
<1>7. convLast' \in 0..LastStamp
  BY <1>1, LargerType, Stamps, TypeParts DEF OnPush, ClientTypes
<1>8. ClientTypes'
  BY <1>7, TypeParts DEF OnPush, ClientTypes
<1> QED
  BY <1>3, <1>5, <1>6, <1>8 DEF LineTypes

LEMMA OnPageType ==
  ASSUME Typed, NEW l \in Lines, l.kind = "page", OnPage(l), UNCHANGED up
  PROVE  LineTypes' /\ ClientTypes' /\ FileTypes'
<1>1. l.rows \in Seq(Entries)
  BY LineKinds, Stamps
<1>2. FileTypes'
  BY <1>1, ShownType DEF OnPage
<1>3. Newest(l.rows) \in 0..LastStamp
  BY <1>1, NewestOf
<1> DEFINE newest == Larger(localLast, Newest(l.rows))
<1>4. newest \in 0..LastStamp
  BY <1>3, LargerType, Stamps, TypeParts DEF ClientTypes
<1>5. Larger(convLast, newest) \in 0..LastStamp
  <2> HIDE DEF newest
  <2> QED
    BY <1>4, LargerType, Stamps, TypeParts DEF ClientTypes
<1>6. /\ \/ localLast' = newest /\ convLast' = Larger(convLast, newest) /\ known' = TRUE
         \/ UNCHANGED <<localLast, convLast, known>>
      /\ UNCHANGED <<requests, signedIn, listed, opened>>
  BY DEF OnPage
<1> HIDE DEF newest
<1>7. ClientTypes'
  BY <1>4, <1>5, <1>6, TypeParts DEF ClientTypes
<1>8. blind' \subseteq Losses
  <2>1. "gap" \in Losses /\ "cutPage" \in Losses
    BY DEF Losses
  <2>2. /\ If(l.rows # <<>> /\ Apart(ToSet(l.rows)), "gap") \subseteq Losses
        /\ If(l.hasMore /\ convLast > Newest(l.rows), "cutPage") \subseteq Losses
    BY <2>1, OneLoss
  <2> QED
    BY <2>2, TypeParts DEF OnPage, ServerTypes
<1> QED
  BY <1>2, <1>6, <1>7, <1>8, TypeParts DEF LineTypes, LinkTypes, BondTypes

LEMMA OnRefusedType ==
  ASSUME Typed, NEW l \in Lines, l.kind = "refused", OnRefused(l), UNCHANGED up
  PROVE  LineTypes' /\ ClientTypes' /\ FileTypes'
<1>1. l.stamps \in Seq(Entries) /\ file \in Seq(Entries)
  BY LineKinds, TypeParts DEF FileTypes
<1>2. file \o l.stamps \in Seq(Entries)
  BY <1>1, SetOfConcat
<1>3. FileTypes'
  BY <1>1, <1>2, ShownType DEF OnRefused
<1>4. LineTypes'
  BY TypeParts DEF OnRefused, LineTypes, ServerTypes, LinkTypes, BondTypes, Losses
<1>5. ClientTypes'
  BY TypeParts DEF OnRefused, ClientTypes
<1> QED
  BY <1>3, <1>4, <1>5

LEMMA ReceiveType == Typed /\ Receive => Typed'
<1> SUFFICES ASSUME Typed, Receive PROVE Typed'
  OBVIOUS
<1> DEFINE l == Head(lines)
<1>1. l \in Lines /\ lines' = Tail(lines) /\ Tail(lines) \in Seq(Lines)
  BY SetOfTail, TypeParts DEF Receive, LinkTypes
<1>2. UNCHANGED <<serverVars, up, auth, answer, refused>>
  BY DEF Receive
<1>3. LineTypes' /\ ClientTypes' /\ FileTypes'
  <2>1. UNCHANGED up
    BY <1>2
  <2>2. \/ l.kind = "login" /\ OnLogin
        \/ l.kind = "list" /\ OnList(l)
        \/ l.kind = "push" /\ OnPush(l)
        \/ l.kind = "page" /\ OnPage(l)
        \/ l.kind = "refused" /\ OnRefused(l)
    BY DEF Receive
  <2> HIDE DEF l
  <2> QED
    BY <1>1, <2>1, <2>2, OnLoginType, OnListType, OnPushType, OnPageType, OnRefusedType
<1>4. LinkTypes' /\ BondTypes'
  BY <1>1, <1>2, <1>3, TypeParts DEF LineTypes, LinkTypes, BondTypes, serverVars
<1>5. ServerTypes'
  BY <1>2, <1>3, TypeParts DEF LineTypes, ServerTypes, serverVars
<1> QED
  BY <1>3, <1>4, <1>5, TypeParts

LEMMA OpenType == Typed /\ Open => Typed'
<1> SUFFICES ASSUME Typed, Open PROVE Typed'
  OBVIOUS
<1>1. /\ opened' = TRUE /\ view' = file
      /\ localLast' = IF file = <<>> THEN localLast ELSE Newest(file)
      /\ Ask(0) \/ Ask(Newest(file)) \/ UNCHANGED requests
      /\ UNCHANGED <<serverVars, up, auth, answer, lines, signedIn, known, convLast, listed,
                     file, refused, blind>>
  BY DEF Open
<1>2. Newest(file) \in 0..LastStamp /\ 0 \in 0..LastStamp
  BY NewestOf, Stamps, TypeParts DEF FileTypes
<1>3. requests' \in Seq(Requests) /\ (requests' # <<>> => up')
  <2>1. \A n \in 0..LastStamp : [kind |-> "history", after |-> n] \in Requests
    BY NewRequests
  <2>2. ASSUME NEW n \in 0..LastStamp, Ask(n)
        PROVE  requests' \in Seq(Requests) /\ (requests' # <<>> => up')
    <3> DEFINE q == [kind |-> "history", after |-> n]
    <3>1. q \in Requests /\ Send(q) /\ UNCHANGED up
      BY <1>1, <2>1, <2>2 DEF Ask
    <3> HIDE DEF q
    <3> QED
      BY <3>1, SendType
  <2> QED
    BY <1>1, <1>2, <2>2, TypeParts DEF LinkTypes, BondTypes
<1>4. LinkTypes' /\ BondTypes'
  BY <1>1, <1>3, TypeParts DEF LinkTypes, BondTypes, serverVars
<1>5. ClientTypes'
  BY <1>1, <1>2, TypeParts DEF ClientTypes
<1>6. FileTypes' /\ ServerTypes'
  BY <1>1, TypeParts DEF FileTypes, ServerTypes, serverVars
<1> QED
  BY <1>4, <1>5, <1>6, TypeParts

LEMMA LeaveType == Typed /\ Leave => Typed'
<1> SUFFICES ASSUME Typed, Leave PROVE Typed'
  OBVIOUS
<1>1. FileTypes'
  BY NoneIn, TypeParts DEF Leave, FileTypes
<1>2. ServerTypes' /\ LinkTypes' /\ BondTypes' /\ ClientTypes'
  BY TypeParts DEF Leave, ServerTypes, LinkTypes, BondTypes, ClientTypes, serverVars, linkVars
<1> QED
  BY <1>1, <1>2, TypeParts

LEMMA StepType == Typed /\ [Next]_vars => Typed'
<1> SUFFICES ASSUME Typed, [Next]_vars PROVE Typed'
  OBVIOUS
<1>1. CASE UNCHANGED vars
  BY <1>1 DEF vars, serverVars, linkVars, memory, Typed, TypeOK
<1> QED
  BY <1>1, StoreType, BroadcastType, WithholdType, HandleType, ReplyType, ReadListType, PushListType,
     RefuseType, SignInType, EndType, ReceiveType, OpenType, LeaveType DEF Next

-----------------------------------------------------------------------------
(* What is cached is shown *)

LEMMA ShowsWhatItWrites ==
  ASSUME Typed, FileWithinView, NEW s \in Seq(Entries), NEW f, Emit(s), Write(f),
         opened' = opened, ToSet(f) \subseteq ToSet(file) \cup ToSet(s)
  PROVE  FileWithinView'
<1> SUFFICES ASSUME opened PROVE ToSet(file') \subseteq ToSet(view')
  BY DEF FileWithinView
<1>1. view' = view \o s /\ ToSet(view \o s) = ToSet(view) \cup ToSet(s)
  BY SetOfConcat, TypeParts DEF Emit, FileTypes
<1>2. ToSet(file') \subseteq ToSet(file) \cup ToSet(s)
  BY DEF Write
<1> QED
  BY <1>1, <1>2 DEF FileWithinView

LEMMA StepShows == Typed /\ FileWithinView /\ [Next]_vars => FileWithinView'
<1> SUFFICES ASSUME Typed, FileWithinView, [Next]_vars PROVE FileWithinView'
  OBVIOUS
<1>1. ASSUME UNCHANGED <<opened, view, file>> PROVE FileWithinView'
  BY <1>1 DEF FileWithinView
<1>2. ASSUME opened' = FALSE PROVE FileWithinView'
  BY <1>2 DEF FileWithinView
<1>3. CASE Receive
  <2> DEFINE l == Head(lines)
  <2>1. l \in Lines
    BY <1>3, SetOfTail, TypeParts DEF Receive, LinkTypes
  <2>2. CASE l.kind = "login" /\ OnLogin
    BY <1>1, <2>2 DEF OnLogin
  <2>3. CASE l.kind = "list" /\ OnList(l)
    BY <1>1, <2>3 DEF OnList
  <2>4. CASE l.kind = "push" /\ OnPush(l)
    <3>1. l.row \in Entries /\ <<l.row>> \in Seq(Entries)
      BY <2>1, <2>4, LineKinds, Stamps
    <3>2. ToSet(Append(file, l.row)) = ToSet(file) \cup {l.row} /\ ToSet(<<l.row>>) = {l.row}
      BY <3>1, SetOfAppend, SetOfOne, TypeParts DEF FileTypes
    <3>3. Emit(<<l.row>>) /\ Write(Append(file, l.row)) /\ opened' = opened
      BY <2>4 DEF OnPush
    <3> QED
      BY <3>1, <3>2, <3>3, ShowsWhatItWrites
  <2>5. CASE l.kind = "page" /\ OnPage(l)
    <3>1. l.rows \in Seq(Entries)
      BY <2>1, <2>5, LineKinds, Stamps
    <3> QED
      BY <2>5, <3>1, ShowsWhatItWrites DEF OnPage
  <2>6. CASE l.kind = "refused" /\ OnRefused(l)
    <3>1. l.stamps \in Seq(Entries)
      BY <2>1, <2>6, LineKinds
    <3>2. ToSet(file \o l.stamps) = ToSet(file) \cup ToSet(l.stamps)
      BY <3>1, SetOfConcat, TypeParts DEF FileTypes
    <3> QED
      BY <2>6, <3>1, <3>2, ShowsWhatItWrites DEF OnRefused
  <2> QED
    BY <1>3, <2>2, <2>3, <2>4, <2>5, <2>6 DEF Receive
<1>4. CASE Open
  BY <1>4 DEF Open, FileWithinView
<1>5. CASE Leave \/ Restart \/ DieWriting
  BY <1>2, <1>5 DEF Leave, Restart, DieWriting, Forgotten
<1>6. CASE Store \/ Handle \/ Reply \/ ReadList \/ PushList
  BY <1>1, <1>6 DEF Store, Handle, Reply, ReadList, PushList, memory
<1>7. CASE Refuse \/ SignIn \/ Cut \/ UNCHANGED vars \/ \E r \in Rows : Broadcast(r)
  BY <1>1, <1>7 DEF Refuse, SignIn, Cut, vars, memory, Broadcast
<1>8. CASE \E r \in Rows : Withhold(r)
  BY <1>1, <1>8 DEF Withhold, memory
<1> QED
  BY <1>3, <1>4, <1>5, <1>6, <1>7, <1>8 DEF Next

-----------------------------------------------------------------------------
(* The steps as changes of the sets of what is on its way *)

Sets ==
    /\ ToSet(lines) \subseteq Lines /\ (lines = <<>> <=> ToSet(lines) = {})
    /\ ToSet(answer) \subseteq Lines /\ (answer = <<>> <=> ToSet(answer) = {})
    /\ ToSet(listing) \subseteq Lines /\ (listing = <<>> <=> ToSet(listing) = {})
    /\ ToSet(requests) \subseteq Requests /\ (requests = <<>> <=> ToSet(requests) = {})
    /\ ToSet(view) \subseteq Entries /\ (view = <<>> <=> ToSet(view) = {})
    /\ ToSet(file) \subseteq Entries /\ (file = <<>> <=> ToSet(file) = {})

LEMMA SetsOf == (Typed => Sets) /\ (Typed' => Sets')
<1>1. ASSUME Typed PROVE Sets
  <2>1. /\ requests \in Seq(Requests) /\ answer \in Seq(Lines)
        /\ listing \in Seq(Lines) /\ lines \in Seq(Lines)
        /\ view \in Seq(Entries) /\ file \in Seq(Entries)
    BY <1>1, TypeParts DEF LinkTypes, FileTypes
  <2> QED
    BY <2>1, SetOf DEF Sets
<1>2. ASSUME Typed' PROVE Sets'
  <2>1. /\ requests' \in Seq(Requests) /\ answer' \in Seq(Lines)
        /\ listing' \in Seq(Lines) /\ lines' \in Seq(Lines)
        /\ view' \in Seq(Entries) /\ file' \in Seq(Entries)
    BY <1>2, TypeParts DEF LinkTypes, FileTypes
  <2> QED
    BY <2>1, SetOf DEF Sets
<1> QED
  BY <1>1, <1>2

LEMMA BroadcastSets ==
  ASSUME Typed, NEW r \in Rows, Broadcast(r)
  PROVE  ToSet(lines') = IF auth THEN ToSet(lines) \cup {Push(r)} ELSE ToSet(lines)
<1>1. Push(r) \in Lines /\ lines \in Seq(Lines)
  BY NewLines, TypeParts DEF LinkTypes
<1>2. ToSet(Append(lines, Push(r))) = ToSet(lines) \cup {Push(r)}
  BY <1>1, SetOfAppend
<1> QED
  BY <1>2 DEF Broadcast, Push

LEMMA HandleSets ==
  ASSUME Typed, Handle
  PROVE  /\ Head(requests) \in Requests /\ ToSet(answer) = {} /\ requests # <<>>
         /\ ToSet(requests) = {Head(requests)} \cup ToSet(requests')
<1>1. requests \in Seq(Requests) /\ requests # <<>> /\ requests' = Tail(requests) /\ answer = <<>>
  BY TypeParts DEF Handle, LinkTypes
<1> QED
  BY <1>1, SetOfTail, SetOfEmpty

LEMMA ReplySets ==
  ASSUME Typed, Len(answer) <= 1, Reply
  PROVE  \E x \in Lines : /\ ToSet(answer) = {x} /\ ToSet(answer') = {}
                          /\ lines' = Append(lines, x) /\ ToSet(lines') = ToSet(lines) \cup {x}
<1>1. /\ answer \in Seq(Lines) /\ answer # <<>> /\ lines' = lines \o answer /\ answer' = <<>>
      /\ lines \in Seq(Lines)
  BY TypeParts DEF Reply, LinkTypes
<1>2. PICK x \in Lines : answer = <<x>> /\ ToSet(answer) = {x}
  BY <1>1, Single
<1>3. lines \o <<x>> = Append(lines, x) /\ ToSet(Append(lines, x)) = ToSet(lines) \cup {x}
  <2>1. lines \in Seq(Lines) /\ x \in Lines
    BY <1>1
  <2> QED
    BY <2>1, SetOfAppend
<1>4. lines' = Append(lines, x)
  BY <1>1, <1>2, <1>3
<1> QED
  BY <1>1, <1>2, <1>3, <1>4, SetOfEmpty

LEMMA PushListSets ==
  ASSUME Typed, Len(listing) <= 1, PushList
  PROVE  \E x \in Lines : /\ ToSet(listing) = {x} /\ ToSet(listing') = {}
                          /\ lines' = Append(lines, x) /\ ToSet(lines') = ToSet(lines) \cup {x}
<1>1. /\ listing \in Seq(Lines) /\ listing # <<>> /\ lines' = lines \o listing /\ listing' = <<>>
      /\ lines \in Seq(Lines)
  BY TypeParts DEF PushList, LinkTypes
<1>2. PICK x \in Lines : listing = <<x>> /\ ToSet(listing) = {x}
  BY <1>1, Single
<1>3. lines \o <<x>> = Append(lines, x) /\ ToSet(Append(lines, x)) = ToSet(lines) \cup {x}
  <2>1. lines \in Seq(Lines) /\ x \in Lines
    BY <1>1
  <2> QED
    BY <2>1, SetOfAppend
<1>4. lines' = Append(lines, x)
  BY <1>1, <1>2, <1>3
<1> QED
  BY <1>1, <1>2, <1>3, <1>4, SetOfEmpty

LEMMA RefuseSets ==
  ASSUME Typed, Typed', Refuse
  PROVE  \E x \in Lines : /\ x.kind = "refused"
                          /\ lines' = Append(lines, x) /\ ToSet(lines') = ToSet(lines) \cup {x}
<1> DEFINE x == [kind |-> "refused", stamps |-> Span(MaxRows + 2 * refused + 1, 2)]
<1>1. lines' = Append(lines, x) /\ x.kind = "refused"
  BY DEF Refuse
<1> HIDE DEF x
<1>2. lines \in Seq(Lines) /\ lines' \in Seq(Lines)
  BY TypeParts DEF LinkTypes
<1>3. x \in Lines
  <2>1. lines'[Len(lines')] = x /\ Len(lines') \in 1..Len(lines')
    BY <1>1, <1>2
  <2> QED
    BY <1>2, <2>1
<1>4. ToSet(lines') = ToSet(lines) \cup {x}
  BY <1>1, <1>2, <1>3, SetOfAppend
<1> QED
  BY <1>1, <1>3, <1>4

LEMMA ReceiveSets ==
  ASSUME Typed, Receive
  PROVE  /\ Head(lines) \in Lines /\ lines # <<>> /\ lines' = Tail(lines)
         /\ ToSet(lines) = {Head(lines)} \cup ToSet(lines')
<1>1. lines \in Seq(Lines) /\ lines # <<>> /\ lines' = Tail(lines)
  BY TypeParts DEF Receive, LinkTypes
<1> QED
  BY <1>1, SetOfTail

LEMMA SendSets ==
  ASSUME Typed, NEW q \in Requests, Send(q)
  PROVE  ToSet(requests') = IF up THEN ToSet(requests) \cup {q} ELSE ToSet(requests)
<1>1. requests \in Seq(Requests)
  BY TypeParts DEF LinkTypes
<1>2. ToSet(Append(requests, q)) = ToSet(requests) \cup {q}
  BY <1>1, SetOfAppend
<1> QED
  BY <1>2 DEF Send

LEMMA UnlinkedSets ==
  Unlinked => /\ ToSet(lines') = {} /\ ToSet(answer') = {} /\ ToSet(listing') = {}
              /\ ToSet(requests') = {} /\ auth' = FALSE /\ up' = FALSE
              /\ lines' = <<>> /\ answer' = <<>> /\ listing' = <<>> /\ requests' = <<>>
  BY SetOfEmpty DEF Unlinked

-----------------------------------------------------------------------------
(* The links between connection, user and conversation *)

LEMMA InitLinked == Init => Linked
<1> SUFFICES ASSUME Init PROVE Linked
  OBVIOUS
<1>1. /\ ToSet(lines) = {} /\ ToSet(answer) = {} /\ ToSet(listing) = {} /\ ToSet(requests) = {}
      /\ Len(answer) = 0 /\ Len(listing) = 0
  BY SetOfEmpty DEF Init
<1> QED
  BY <1>1 DEF Init, Linked, Pending, Pages, Histories, Of

\* What Linked says of requests and lines, by their sets.
LEMMA LinkedSets ==
  ASSUME Typed, Linked
  PROVE  /\ (ToSet(lines) # {} \/ ToSet(answer) # {} \/ ToSet(listing) # {}) => auth
         /\ \A q \in ToSet(requests) : up /\ (q.kind # "login" => auth)
         /\ signedIn /\ up => auth
         /\ (listed => signedIn) /\ (opened => listed) /\ (auth => up)
         /\ \A q \in ToSet(requests) : q.kind = "history" => listed
         /\ \A l \in ToSet(lines) \cup ToSet(answer) : l.kind = "page" => listed
         /\ \A l \in ToSet(answer) : l.kind # "push"
         /\ \A l \in ToSet(listing) : l.kind = "list"
<1>1. Sets /\ (auth => up)
  BY SetsOf, TypeParts DEF BondTypes
<1> QED
  BY <1>1 DEF Sets, Linked, Pending, Pages, Histories, Of

LEMMA LinkedNext ==
  ASSUME Typed',
         (ToSet(lines') # {} \/ ToSet(answer') # {} \/ ToSet(listing') # {}) => auth',
         \A q \in ToSet(requests') : q.kind # "login" => auth',
         signedIn' /\ up' => auth',
         (listed' => signedIn') /\ (opened' => listed'),
         \A q \in ToSet(requests') : q.kind = "history" => listed',
         \A l \in ToSet(lines') \cup ToSet(answer') : l.kind = "page" => listed',
         Len(answer') <= 1, \A l \in ToSet(answer') : l.kind # "push",
         Len(listing') <= 1, \A l \in ToSet(listing') : l.kind = "list"
  PROVE  Linked'
<1>1. Sets' /\ (requests' # <<>> => up')
  BY SetsOf, TypeParts DEF BondTypes
<1>2. Pending' => listed'
  BY DEF Pending, Pages, Histories, Of
<1> QED
  BY <1>1, <1>2 DEF Sets, Linked

LEMMA BroadcastLinked ==
  ASSUME Typed, Typed', Linked, NEW r \in Rows, Broadcast(r) PROVE Linked'
<1>1. /\ ToSet(lines') = IF auth THEN ToSet(lines) \cup {Push(r)} ELSE ToSet(lines)
      /\ Push(r).kind = "push"
      /\ UNCHANGED <<listing, up, auth, requests, answer, signedIn, listed, opened>>
  BY BroadcastSets DEF Broadcast, memory, Push
<1>2. Len(answer) <= 1 /\ Len(listing) <= 1
  BY DEF Linked
<1> QED
  BY <1>1, <1>2, LinkedSets, LinkedNext

LEMMA HandleLinked ==
  ASSUME Typed, Typed', Linked, Handle PROVE Linked'
<1> DEFINE q == Head(requests)
<1>1. q \in ToSet(requests) /\ ToSet(requests') \subseteq ToSet(requests) /\ ToSet(answer) = {}
  BY HandleSets
<1>2. UNCHANGED <<listing, up, lines, signedIn, listed, opened>>
  BY DEF Handle, serverVars, memory
<1>3. Len(listing) <= 1
  BY DEF Linked
<1>4. CASE q.kind = "login" /\ auth' = TRUE /\ answer' = <<[kind |-> "login"]>>
  <2>1. ToSet(answer') = {[kind |-> "login"]} /\ Len(answer') = 1
    BY <1>4, SetOfOne
  <2> QED
    BY <1>1, <1>2, <1>3, <1>4, <2>1, LinkedSets, LinkedNext
<1>5. CASE q.kind = "list" /\ answer' = <<ConvList>> /\ UNCHANGED auth
  <2>1. ToSet(answer') = {ConvList} /\ Len(answer') = 1 /\ ConvList.kind = "list"
    BY <1>5, SetOfOne DEF ConvList
  <2> QED
    BY <1>1, <1>2, <1>3, <1>5, <2>1, LinkedSets, LinkedNext
<1>6. CASE q.kind = "history" /\ answer' = <<History(q.after)>> /\ UNCHANGED auth
  <2>1. q.after \in Nat /\ rows \in 0..MaxRows
    BY <1>6, HandleSets, Stamps, TypeParts DEF Requests, ServerTypes
  <2>2. History(q.after).kind = "page"
    BY <2>1, HistoryOf
  <2>3. ToSet(answer') = {History(q.after)} /\ Len(answer') = 1
    BY <1>6, SetOfOne
  <2> HIDE DEF q
  <2> QED
    BY <1>1, <1>2, <1>3, <1>6, <2>2, <2>3, LinkedSets, LinkedNext
<1>7. CASE UNCHANGED <<answer, auth>>
  BY <1>1, <1>2, <1>3, <1>7, LinkedSets, LinkedNext DEF Linked
<1> QED
  BY <1>4, <1>5, <1>6, <1>7 DEF Handle

LEMMA ReplyLinked ==
  ASSUME Typed, Typed', Linked, Reply \/ PushList PROVE Linked'
<1>1. Len(answer) <= 1 /\ Len(listing) <= 1
  BY DEF Linked
<1>2. CASE Reply
  <2>1. PICK x \in Lines : /\ ToSet(answer) = {x} /\ ToSet(answer') = {}
                           /\ ToSet(lines') = ToSet(lines) \cup {x}
    BY <1>1, <1>2, ReplySets
  <2>2. UNCHANGED <<listing, up, auth, requests, signedIn, listed, opened>> /\ answer' = <<>>
    BY <1>2 DEF Reply, serverVars, memory
  <2>3. Len(answer') = 0
    BY <2>2
  <2> QED
    BY <1>1, <2>1, <2>2, <2>3, LinkedSets, LinkedNext
<1>3. CASE PushList
  <2>1. PICK x \in Lines : /\ ToSet(listing) = {x} /\ ToSet(listing') = {}
                           /\ ToSet(lines') = ToSet(lines) \cup {x}
    BY <1>1, <1>3, PushListSets
  <2>2. UNCHANGED <<answer, up, auth, requests, signedIn, listed, opened>> /\ listing' = <<>>
    BY <1>3 DEF PushList, memory
  <2>3. Len(listing') = 0
    BY <2>2
  <2> QED
    BY <1>1, <2>1, <2>2, <2>3, LinkedSets, LinkedNext
<1> QED
  BY <1>2, <1>3

LEMMA ReadListLinked ==
  ASSUME Typed, Typed', Linked, ReadList PROVE Linked'
<1>1. ToSet(listing') = {ConvList} /\ ConvList.kind = "list" /\ Len(listing') = 1
  BY SetOfOne DEF ReadList, ConvList
<1>2. UNCHANGED <<lines, answer, up, auth, requests, signedIn, listed, opened>> /\ auth
  BY DEF ReadList, linkVars, memory
<1>3. Len(answer) <= 1
  BY DEF Linked
<1> QED
  BY <1>1, <1>2, <1>3, LinkedSets, LinkedNext

LEMMA RefuseLinked ==
  ASSUME Typed, Typed', Linked, Refuse PROVE Linked'
<1>1. PICK x \in Lines : x.kind = "refused" /\ ToSet(lines') = ToSet(lines) \cup {x}
  BY RefuseSets
<1>2. UNCHANGED <<listing, answer, up, auth, requests, signedIn, listed, opened>> /\ auth
  BY DEF Refuse, serverVars, memory
<1>3. Len(answer) <= 1 /\ Len(listing) <= 1
  BY DEF Linked
<1> QED
  BY <1>1, <1>2, <1>3, LinkedSets, LinkedNext

LEMMA SignInLinked ==
  ASSUME Typed, Typed', Linked, SignIn PROVE Linked'
<1>1. ToSet(requests') = {[kind |-> "login"]}
  BY SetOfOne DEF SignIn
<1>2. UNCHANGED <<lines, listing, answer, auth, signedIn, listed, opened>> /\ ~signedIn
  BY DEF SignIn, serverVars, memory
<1>3. Len(answer) <= 1 /\ Len(listing) <= 1
  BY DEF Linked
<1> QED
  BY <1>1, <1>2, <1>3, LinkedSets, LinkedNext

LEMMA EndLinked ==
  ASSUME Typed, Typed', Linked, Cut \/ Restart \/ DieWriting PROVE Linked'
<1>1. Unlinked
  BY DEF Cut, Restart, DieWriting
<1>2. UNCHANGED <<signedIn, listed, opened>> \/ (signedIn' = FALSE /\ listed' = FALSE /\ opened' = FALSE)
  BY DEF Cut, Restart, DieWriting, Forgotten, memory
<1>3. Len(answer') = 0 /\ Len(listing') = 0
  BY <1>1 DEF Unlinked
<1> QED
  BY <1>1, <1>2, <1>3, UnlinkedSets, LinkedSets, LinkedNext

LEMMA ReceiveLinked ==
  ASSUME Typed, Typed', Linked, Receive PROVE Linked'
<1> DEFINE l == Head(lines)
<1>1. l \in ToSet(lines) /\ ToSet(lines') \subseteq ToSet(lines) /\ l \in Lines
  BY ReceiveSets
<1>2. UNCHANGED <<listing, answer, up, auth>> /\ auth
  BY <1>1, LinkedSets DEF Receive, serverVars
<1>3. Len(answer) <= 1 /\ Len(listing) <= 1
  BY DEF Linked
<1>4. ListRequest \in Requests /\ ListRequest.kind = "list"
  BY NewRequests DEF ListRequest
<1>5. CASE l.kind = "login" /\ OnLogin
  <2>1. ToSet(requests') = ToSet(requests) \cup {ListRequest}
    BY <1>2, <1>4, <1>5, SendSets, LinkedSets DEF OnLogin
  <2>2. signedIn' = TRUE /\ UNCHANGED <<listed, opened>>
    BY <1>5 DEF OnLogin
  <2> HIDE DEF l
  <2> QED
    BY <1>1, <1>2, <1>3, <1>4, <2>1, <2>2, LinkedSets, LinkedNext
<1>6. CASE l.kind = "list" /\ OnList(l)
  <2>1. UNCHANGED <<requests, signedIn, opened>> /\ listed' = (listed \/ signedIn)
    BY <1>6 DEF OnList
  <2> HIDE DEF l
  <2> QED
    BY <1>1, <1>2, <1>3, <2>1, LinkedSets, LinkedNext
<1>7. CASE l.kind = "push" /\ OnPush(l)
  <2>1. ToSet(requests') = ToSet(requests) \cup {ListRequest} \/ requests' = requests
    BY <1>2, <1>4, <1>7, SendSets, LinkedSets DEF OnPush
  <2>2. UNCHANGED <<signedIn, listed, opened>>
    BY <1>7 DEF OnPush
  <2> HIDE DEF l
  <2> QED
    BY <1>1, <1>2, <1>3, <1>4, <2>1, <2>2, LinkedSets, LinkedNext
<1>8. CASE OnPage(l) \/ OnRefused(l)
  <2>1. UNCHANGED <<requests, signedIn, listed, opened>>
    BY <1>8 DEF OnPage, OnRefused
  <2> HIDE DEF l
  <2> QED
    BY <1>1, <1>2, <1>3, <2>1, LinkedSets, LinkedNext
<1> QED
  BY <1>5, <1>6, <1>7, <1>8 DEF Receive

LEMMA OpenSets ==
  ASSUME Typed, Linked, Open
  PROVE  \/ requests' = requests /\ file # <<>> /\ convLast <= Newest(file)
         \/ \E q \in Requests :
               /\ q.kind = "history" /\ ToSet(requests') = IF up THEN ToSet(requests) \cup {q} ELSE ToSet(requests)
               /\ q.after = 0 \/ (q.after = Newest(file) /\ convLast > Newest(file))
<1>1. Newest(file) \in 0..LastStamp /\ 0 \in 0..LastStamp
  BY NewestOf, Stamps, TypeParts DEF FileTypes
<1>2. ASSUME NEW n \in 0..LastStamp, Ask(n)
      PROVE  \E q \in Requests :
                /\ q.kind = "history" /\ ToSet(requests') = IF up THEN ToSet(requests) \cup {q} ELSE ToSet(requests)
                /\ q.after = n
  <2> DEFINE q == [kind |-> "history", after |-> n]
  <2>1. q \in Requests /\ q.kind = "history" /\ q.after = n
    BY NewRequests
  <2>2. Send(q)
    BY <1>2 DEF Ask
  <2> HIDE DEF q
  <2> QED
    BY <2>1, <2>2, SendSets
<1> QED
  BY <1>1, <1>2 DEF Open

LEMMA OpenLinked ==
  ASSUME Typed, Typed', Linked, Open PROVE Linked'
<1>1. /\ UNCHANGED <<lines, listing, answer, up, auth, signedIn, listed>>
      /\ listed /\ signedIn /\ opened' = TRUE
  BY DEF Open, serverVars
<1>2. Len(answer) <= 1 /\ Len(listing) <= 1
  BY DEF Linked
<1>3. \/ requests' = requests \/ (~up /\ ToSet(requests') = ToSet(requests))
      \/ \E q \in Requests : up /\ ToSet(requests') = ToSet(requests) \cup {q}
  BY OpenSets
<1> QED
  BY <1>1, <1>2, <1>3, LinkedSets, LinkedNext

LEMMA StepLinked == Typed /\ Linked /\ [Next]_vars => Linked'
<1> SUFFICES ASSUME Typed, Linked, [Next]_vars PROVE Linked'
  OBVIOUS
<1>1. Typed'
  BY StepType
<1>2. ASSUME UNCHANGED <<lines, listing, answer, up, auth, requests, signedIn, listed>>,
             opened' => opened
      PROVE  Linked'
  <2>1. Len(answer) <= 1 /\ Len(listing) <= 1
    BY DEF Linked
  <2>2. opened' => listed'
    BY <1>2, LinkedSets
  <2> QED
    BY <1>1, <1>2, <2>1, <2>2, LinkedSets, LinkedNext
<1>3. CASE Store \/ Leave \/ UNCHANGED vars
  BY <1>2, <1>3 DEF Store, Leave, vars, serverVars, linkVars, memory
<1>4. CASE \E r \in Rows : Withhold(r)
  BY <1>2, <1>4 DEF Withhold, linkVars, memory
<1> QED
  BY <1>1, <1>3, <1>4, BroadcastLinked, HandleLinked, ReplyLinked, ReadListLinked, RefuseLinked,
     SignInLinked, EndLinked, ReceiveLinked, OpenLinked DEF Next

-----------------------------------------------------------------------------
(* A push, a page and a cache without a gap, as sets of numbers: V is what *)
(* is shown, F the cache, W the rows on their way.                         *)

Newer(t, S) == t \in Nat /\ IF S = {} THEN t = 0 ELSE t \in S /\ \A x \in S : x <= t

\* Of n rows, the page P takes the place of the cache F; t and f are their newest.
Replaces(n, V, F, P, W, t, f) ==
    /\ n \in Nat /\ V \subseteq 1..n /\ F \subseteq V /\ P \subseteq 1..n
    /\ Interval(P) /\ Newer(t, P) /\ Newer(f, F)
    /\ \A r \in (t + 1)..n : r \in V \cup W
    /\ P # {} /\ F # {} => \E a \in F : {a - 1, a, a + 1} \cap P # {}
    /\ F # {} => \A e \in V : e..f \subseteq V \cup W
    /\ F = {} => 1..n \subseteq V \cup W \/ V = {}

LEMMA JoinPage ==
  ASSUME NEW n, NEW V, NEW F, NEW P, NEW W, NEW t, NEW f, Replaces(n, V, F, P, W, t, f)
  PROVE  /\ \A e \in V \cup P : e..n \subseteq V \cup P \cup W
         /\ n > 0 => n \in V \cup P \cup W
         /\ P = {} => 1..n \subseteq V \cup P \cup W
<1> USE DEF Replaces
<1>1. t \in Nat /\ f \in Nat
  BY DEF Newer
<1>2. ASSUME NEW e \in V \cup P, NEW x \in e..n PROVE x \in V \cup P \cup W
  <2>1. e \in 1..n /\ x \in 1..n /\ e <= x
    OBVIOUS
  <2>2. CASE x > t
    BY <1>1, <2>1, <2>2
  <2>3. CASE x <= t /\ \E b \in P : b <= x
    <3>1. PICK b \in P : b <= x
      BY <2>3
    <3>2. t \in P /\ x \in b..t
      BY <1>1, <2>1, <2>3, <3>1 DEF Newer
    <3> QED
      BY <3>1, <3>2 DEF Interval
  <2>4. CASE x <= t /\ \A b \in P : b > x
    <3>1. P # {} /\ e \in V
      BY <1>1, <2>1, <2>4 DEF Newer
    <3>2. CASE F = {}
      BY <2>1, <3>1, <3>2
    <3>3. CASE F # {}
      <4>1. PICK a \in F, y \in P : y \in {a - 1, a, a + 1}
        BY <3>1, <3>3
      <4>2. a \in 1..n /\ y \in 1..n /\ a <= f /\ x < y
        BY <2>4, <4>1, <3>3 DEF Newer
      <4>3. x \in e..f
        BY <1>1, <2>1, <4>1, <4>2
      <4> QED
        BY <3>1, <3>3, <4>3
    <3> QED
      BY <3>2, <3>3
  <2> QED
    BY <1>1, <2>1, <2>2, <2>3, <2>4
<1>3. ASSUME n > 0 PROVE n \in V \cup P \cup W
  <2>1. CASE t < n
    BY <1>1, <2>1
  <2>2. CASE t >= n
    <3>1. t \in P
      BY <1>1, <1>3, <2>2 DEF Newer
    <3>2. t = n
      BY <2>2, <3>1
    <3> QED
      BY <3>1, <3>2
  <2> QED
    BY <1>1, <2>1, <2>2
<1>4. ASSUME P = {} PROVE 1..n \subseteq V \cup P \cup W
  <2>1. t = 0
    BY <1>4 DEF Newer
  <2> QED
    BY <2>1
<1> QED
  BY <1>2, <1>3, <1>4

\* Of n rows, r continues the cache F; f and g are the newest without and with r.
Continues(n, V, F, W, f, g, r) ==
    /\ n \in Nat /\ r \in 1..n /\ V \subseteq 1..n /\ F \subseteq V
    /\ Interval(F) /\ Newer(f, F) /\ Newer(g, F \cup {r})
    /\ F # {} => \E a \in F : r \in {a - 1, a, a + 1}
    /\ F # {} => \A e \in V : e..f \subseteq V \cup W
    /\ F = {} => 1..n \subseteq V \cup W \/ V = {}

LEMMA JoinPush ==
  ASSUME NEW n, NEW V, NEW F, NEW W, NEW f, NEW g, NEW r, Continues(n, V, F, W, f, g, r)
  PROVE  \A e \in V \cup {r} : e..g \subseteq V \cup {r} \cup W
<1> USE DEF Continues
<1>1. f \in Nat /\ g \in Nat /\ g \in F \cup {r} /\ r <= g
  BY DEF Newer
<1>2. ASSUME NEW e \in V \cup {r}, NEW x \in e..g, x # r PROVE x \in V \cup W
  <2>1. e \in 1..n /\ x \in 1..n /\ e <= x /\ x <= g
    <3>1. e \in 1..n /\ g \in 1..n
      BY <1>1
    <3> QED
      BY <3>1
  <2>2. CASE F = {}
    <3>1. g = r /\ e \in V
      BY <1>1, <1>2, <2>1, <2>2
    <3> QED
      BY <2>1, <2>2, <3>1
  <2>3. CASE F # {}
    <3>1. PICK a \in F : r \in {a - 1, a, a + 1}
      BY <2>3
    <3>2. a \in 1..n /\ f \in F /\ a <= f
      BY <2>3, <3>1 DEF Newer
    <3>3. x <= f
      <4>1. CASE g \in F
        BY <2>1, <2>3, <4>1, <1>1 DEF Newer
      <4>2. CASE g = r
        BY <1>1, <1>2, <2>1, <3>1, <3>2, <4>2
      <4> QED
        BY <1>1, <4>1, <4>2
    <3>4. CASE e \in V
      <4>1. x \in e..f
        BY <1>1, <2>1, <3>3
      <4> QED
        BY <2>3, <3>4, <4>1
    <3>5. CASE e = r
      <4>1. x \in a..f
        BY <1>1, <1>2, <2>1, <3>1, <3>2, <3>3, <3>5
      <4> QED
        BY <3>1, <3>2, <4>1 DEF Interval
    <3> QED
      BY <3>4, <3>5
  <2> QED
    BY <2>2, <2>3
<1> QED
  BY <1>2

LEMMA JoinPushToEnd ==
  ASSUME NEW n \in Nat, NEW V, NEW F, NEW W, NEW r \in 1..n, V \subseteq 1..n, F \subseteq V,
         F # {} => \E a \in F : r \in {a - 1, a, a + 1},
         \A e \in V : e..n \subseteq V \cup W,
         F = {} => 1..n \subseteq V \cup W
  PROVE  \A e \in V \cup {r} : e..n \subseteq V \cup {r} \cup W
<1>1. ASSUME NEW x \in r..n, x # r PROVE x \in V \cup W
  <2>1. CASE F = {}
    BY <2>1
  <2>2. CASE F # {}
    <3>1. PICK a \in F : r \in {a - 1, a, a + 1}
      BY <2>2
    <3>2. a \in 1..n
      BY <3>1
    <3>3. x \in a..n /\ a \in V
      BY <1>1, <3>1, <3>2
    <3> QED
      BY <3>3
  <2> QED
    BY <2>1, <2>2
<1> QED
  BY <1>1

LEMMA JoinInterval ==
  ASSUME NEW n \in Nat, NEW F, NEW r \in 1..n, F \subseteq 1..n, Interval(F),
         F # {} => \E a \in F : r \in {a - 1, a, a + 1}
  PROVE  Interval(F \cup {r})
<1> SUFFICES ASSUME NEW a \in F \cup {r}, NEW b \in F \cup {r}, NEW x \in a..b, x # r
             PROVE  x \in F
  BY DEF Interval
<1>1. a \in 1..n /\ b \in 1..n /\ x \in 1..n
  OBVIOUS
<1>2. F # {}
  BY <1>1
<1>3. PICK c \in F : r \in {c - 1, c, c + 1}
  BY <1>2
<1>4. c \in 1..n
  BY <1>3
<1>5. CASE a \in F /\ b \in F
  BY <1>5 DEF Interval
<1>6. CASE a = r /\ b \in F
  <2>1. x \in c..b
    BY <1>1, <1>3, <1>4, <1>6
  <2> QED
    BY <1>3, <1>6, <2>1 DEF Interval
<1>7. CASE a \in F /\ b = r
  <2>1. x \in a..c
    BY <1>1, <1>3, <1>4, <1>7
  <2> QED
    BY <1>3, <1>7, <2>1 DEF Interval
<1>8. CASE a = r /\ b = r
  BY <1>1, <1>8
<1> QED
  BY <1>5, <1>6, <1>7, <1>8

LEMMA JoinCache ==
  ASSUME NEW n \in Nat, NEW F, NEW W, NEW f, NEW c \in Nat,
         F \subseteq 1..n, F # {}, Interval(F), Newer(f, F), c <= f,
         \A r \in 1..n : r <= c \/ r \in W
  PROVE  /\ \A e \in F : e..n \subseteq F \cup W
         /\ n > 0 => n \in F \cup W
<1>1. f \in F /\ f \in 1..n
  BY DEF Newer
<1>2. ASSUME NEW e \in F, NEW x \in e..n PROVE x \in F \cup W
  <2>1. e \in 1..n /\ x \in 1..n
    OBVIOUS
  <2>2. CASE x <= f
    <3>1. x \in e..f
      BY <1>1, <2>1, <2>2
    <3> QED
      BY <1>1, <3>1 DEF Interval
  <2>3. CASE x > f
    BY <1>1, <2>1, <2>3
  <2> QED
    BY <1>1, <2>1, <2>2, <2>3
<1>3. n \in f..n
  BY <1>1
<1> QED
  BY <1>1, <1>2, <1>3

-----------------------------------------------------------------------------
(* What keeps each part of Follows *)

LEMMA KeepsUnknownComes ==
  ASSUME UnknownComes, rows' = rows, rows \in Nat, convLast \in Nat, convLast' \in Nat,
         convLast <= convLast', listed' /\ auth' => listed /\ auth,
         \A r \in 1..rows : r \in Way => r \in Way' \/ r <= convLast'
  PROVE  UnknownComes'
<1> SUFFICES ASSUME listed, auth, NEW r \in 1..rows PROVE r <= convLast' \/ r \in Way'
  BY DEF UnknownComes
<1>1. r <= convLast \/ r \in Way
  BY DEF UnknownComes
<1> QED
  BY <1>1

LEMMA KeepsListTrue ==
  ASSUME ListTrue, rows' = rows, rows \in Nat, convLast \in Nat, convLast' \in Nat,
         convLast <= convLast', \A l \in Lists' : l \in Lists \/ l.last = rows,
         \A l \in Lists : l.last \in Nat,
         \A r \in 1..rows : r \in Way => r \in Way' \/ r <= convLast'
  PROVE  ListTrue'
<1> SUFFICES ASSUME NEW l \in Lists', NEW r \in (l.last + 1)..rows PROVE r <= convLast' \/ r \in Way'
  BY DEF ListTrue
<1>1. CASE l \in Lists
  <2>1. r \in 1..rows /\ (r <= convLast \/ r \in Way)
    BY <1>1 DEF ListTrue
  <2> QED
    BY <2>1
<1>2. CASE l.last = rows
  BY <1>2
<1> QED
  BY <1>1, <1>2

\* A page that covers all that is stored.
Ends(p) == Newest(p.rows) \in Nat /\ rows <= Newest(p.rows)

LEMMA KeepsShown ==
  ASSUME PageToEnd, ToCache, WithoutCache, ToEnd, FileUnbroken,
         UNCHANGED <<rows, file>>, rows \in Nat, Way \subseteq Way', Pending => Pending',
         Shown' => Shown /\ view' = view,
         \A p \in Pages' : p \in Pages \/ p.hasMore \/ Ends(p)
  PROVE  PageToEnd' /\ ToCache' /\ WithoutCache' /\ ToEnd' /\ FileUnbroken'
<1>1. FileUnbroken'
  BY DEF FileUnbroken
<1>2. Shown' => Reach \subseteq Reach'
  BY DEF Reach
<1>3. PageToEnd'
  <2> SUFFICES ASSUME NEW p \in Pages', ~p.hasMore, NEW r \in (Newest(p.rows) + 1)..rows
               PROVE  r \in Way' \cup ToSet(file)
    BY DEF PageToEnd
  <2>1. p \in Pages
    BY DEF Ends
  <2> QED
    BY <2>1 DEF PageToEnd
<1>4. ToCache'
  BY <1>2 DEF ToCache
<1>5. WithoutCache'
  BY <1>2 DEF WithoutCache
<1>6. ToEnd'
  BY <1>2 DEF ToEnd
<1> QED
  BY <1>1, <1>3, <1>4, <1>5, <1>6

\* Without a connection there is nothing on its way, and nothing to say.
LEMMA KeepsUnlinked ==
  ASSUME auth' = FALSE, Pages' = {}, Lists' = {}, lines' = <<>>,
         FileUnbroken \/ file' = <<>>, file' \in {file, <<>>}
  PROVE  /\ FileUnbroken' /\ UnknownComes' /\ ListTrue' /\ PageToEnd' /\ PageBehindPage'
         /\ ToCache' /\ WithoutCache' /\ ToEnd'
<1>1. FileUnbroken'
  <2>1. CASE file' = <<>>
    BY <2>1, SetOfEmpty DEF FileUnbroken, Interval
  <2>2. CASE file' = file
    BY <2>1, <2>2 DEF FileUnbroken
  <2> QED
    BY <2>1, <2>2
<1>2. DOMAIN lines' = {}
  OBVIOUS
<1> QED
  BY <1>1, <1>2 DEF UnknownComes, ListTrue, PageToEnd, PageBehindPage, ToCache, WithoutCache,
                    ToEnd, Shown

LEMMA KeepsWithinRows ==
  ASSUME WithinRows, rows \in Nat, rows' \in Nat, rows <= rows', unpushed' \subseteq 1..rows',
         \A l \in ToSet(lines') : l.kind = "push" => l \in ToSet(lines) \/ l.row \in 1..rows',
         \A l \in Lists' : l.last \in Nat /\ (l \in Lists \/ l.last <= rows'),
         \A p \in Pages' : p \in Pages
            \/ /\ ToSet(p.rows) \subseteq 1..rows' /\ Interval(ToSet(p.rows))
               /\ p.hasMore => p.rows # <<>>,
         \A q \in Histories' : q.after \in Nat /\ (q \in Histories \/ q.after = 0 \/ q.after < rows'),
         ToSet(file') \subseteq 1..rows', ToSet(view') \subseteq 1..rows',
         convLast' <= rows', localLast' <= rows'
  PROVE  WithinRows'
<1>1. 1..rows \subseteq 1..rows'
  OBVIOUS
<1>2. \A l \in Of("push", ToSet(lines')) : l.row \in 1..rows'
  BY <1>1 DEF WithinRows, Of
<1>3. \A l \in Lists' : l.last <= rows'
  BY DEF WithinRows
<1>4. \A p \in Pages' : /\ ToSet(p.rows) \subseteq 1..rows' /\ Interval(ToSet(p.rows))
                        /\ p.hasMore => p.rows # <<>>
  BY <1>1 DEF WithinRows
<1>5. \A q \in Histories' : q.after = 0 \/ q.after < rows'
  BY DEF WithinRows
<1> QED
  BY <1>2, <1>3, <1>4, <1>5 DEF WithinRows

LEMMA OrderSame ==
  ASSUME PageBehindPage, UNCHANGED <<lines, rows, unpushed>>, rows \in Nat,
         \A p \in Of("page", ToSet(answer')) : p \in ToSet(answer) \/ p.hasMore \/ Ends(p)
  PROVE  PageBehindPage'
<1> SUFFICES ASSUME NEW i \in DOMAIN lines, lines[i].kind = "page",
                    NEW p \in Of("page", After(lines, i) \cup ToSet(answer')), ~p.hasMore,
                    NEW r \in (Newest(p.rows) + 1)..rows
             PROVE  r \in unpushed \/ Push(r) \in After(lines, i)
  BY DEF PageBehindPage
<1>1. p \in Of("page", After(lines, i) \cup ToSet(answer))
  BY DEF Ends, Of
<1> QED
  BY <1>1 DEF PageBehindPage

LEMMA OrderAppend ==
  ASSUME PageBehindPage, Typed, NEW x \in Lines, lines' = Append(lines, x), rows' = rows,
         x.kind = "page" => x \in ToSet(answer) /\ ToSet(answer') = {},
         ToSet(answer') \subseteq ToSet(answer),
         \A r \in unpushed : r \in unpushed' \/ x = Push(r)
  PROVE  PageBehindPage'
<1> SUFFICES ASSUME NEW i \in DOMAIN lines', lines'[i].kind = "page",
                    NEW p \in Of("page", After(lines', i) \cup ToSet(answer')), ~p.hasMore,
                    NEW r \in (Newest(p.rows) + 1)..rows
             PROVE  r \in unpushed' \/ Push(r) \in After(lines', i)
  BY DEF PageBehindPage
<1>1. lines \in Seq(Lines)
  BY TypeParts DEF LinkTypes
<1>2. /\ DOMAIN lines' = DOMAIN lines \cup {Len(lines) + 1}
      /\ \A j \in DOMAIN lines : lines'[j] = lines[j] /\ After(lines', j) = After(lines, j) \cup {x}
      /\ lines'[Len(lines) + 1] = x /\ After(lines', Len(lines) + 1) = {}
  BY <1>1, AfterAppend
<1>3. CASE i \in DOMAIN lines
  <2>1. p \in Of("page", After(lines, i) \cup ToSet(answer))
    BY <1>2, <1>3 DEF Of
  <2>2. r \in unpushed \/ Push(r) \in After(lines, i)
    BY <1>2, <1>3, <2>1 DEF PageBehindPage
  <2> QED
    BY <1>2, <1>3, <2>2
<1>4. CASE i = Len(lines) + 1
  BY <1>2, <1>4 DEF Of
<1> QED
  BY <1>2, <1>3, <1>4

LEMMA OrderTail ==
  ASSUME PageBehindPage, Typed, lines # <<>>, lines' = Tail(lines), UNCHANGED <<answer, rows, unpushed>>
  PROVE  PageBehindPage'
<1> SUFFICES ASSUME NEW i \in DOMAIN lines', lines'[i].kind = "page",
                    NEW p \in Of("page", After(lines', i) \cup ToSet(answer)), ~p.hasMore,
                    NEW r \in (Newest(p.rows) + 1)..rows
             PROVE  r \in unpushed \/ Push(r) \in After(lines', i)
  BY DEF PageBehindPage
<1>1. lines \in Seq(Lines)
  BY TypeParts DEF LinkTypes
<1>2. i + 1 \in DOMAIN lines /\ lines'[i] = lines[i + 1] /\ After(lines', i) = After(lines, i + 1)
  BY <1>1, AfterTail
<1> QED
  BY <1>2 DEF PageBehindPage

\* The numbers a type-correct state is made of.
Numbers ==
    /\ rows \in Nat /\ rows <= MaxRows /\ convLast \in Nat /\ localLast \in Nat
    /\ \A r \in unpushed : r \in Nat
    /\ \A l \in Lists : l.last \in Nat
    /\ \A q \in Histories : q.after \in Nat
    /\ \A p \in Pages : p.rows \in Seq(Rows) /\ Newest(p.rows) \in Nat /\ p.hasMore \in BOOLEAN

LEMMA NumbersOf == (Typed => Numbers) /\ (Typed' => Numbers')
<1>1. ASSUME NEW l \in Lines, l.kind = "page"
      PROVE  l.rows \in Seq(Rows) /\ Newest(l.rows) \in Nat /\ l.hasMore \in BOOLEAN
  <2>1. l.rows \in Seq(Rows) /\ l.rows \in Seq(Entries) /\ l.hasMore \in BOOLEAN
    BY <1>1, LineKinds, Stamps
  <2>2. Newest(l.rows) \in 0..LastStamp
    BY <2>1, NewestOf
  <2> QED
    BY <2>1, <2>2
<1>2. \A l \in Lines : l.kind = "list" => l.last \in Nat
  BY LineKinds
<1>3. \A q \in Requests : q.kind = "history" => q.after \in Nat
  BY Stamps DEF Requests
<1>4. ASSUME Typed PROVE Numbers
  <2>1. Sets /\ ServerTypes /\ ClientTypes
    BY <1>4, SetsOf, TypeParts
  <2>2. /\ rows \in Nat /\ rows <= MaxRows /\ convLast \in Nat /\ localLast \in Nat
        /\ \A r \in unpushed : r \in Nat
    BY <2>1 DEF ServerTypes, ClientTypes, Rows
  <2>3. Lists \subseteq Lines /\ Pages \subseteq Lines /\ Histories \subseteq Requests
    BY <2>1 DEF Sets, Lists, Pages, Histories, Of
  <2>4. \A l \in Lists : l.kind = "list"
    BY DEF Lists, Of
  <2>5. \A q \in Histories : q.kind = "history"
    BY DEF Histories, Of
  <2>6. \A p \in Pages : p.kind = "page"
    BY DEF Pages, Of
  <2> QED
    BY <1>1, <1>2, <1>3, <2>2, <2>3, <2>4, <2>5, <2>6 DEF Numbers
<1>5. ASSUME Typed' PROVE Numbers'
  <2>1. Sets' /\ ServerTypes' /\ ClientTypes'
    BY <1>5, SetsOf, TypeParts
  <2>2. /\ rows' \in Nat /\ rows' <= MaxRows /\ convLast' \in Nat /\ localLast' \in Nat
        /\ \A r \in unpushed' : r \in Nat
    BY <2>1 DEF ServerTypes, ClientTypes, Rows
  <2>3. Lists' \subseteq Lines /\ Pages' \subseteq Lines /\ Histories' \subseteq Requests
    BY <2>1 DEF Sets, Lists, Pages, Histories, Of
  <2>4. \A l \in Lists' : l.kind = "list"
    BY DEF Lists, Of
  <2>5. \A q \in Histories' : q.kind = "history"
    BY DEF Histories, Of
  <2>6. \A p \in Pages' : p.kind = "page"
    BY DEF Pages, Of
  <2> QED
    BY <1>1, <1>2, <1>3, <2>2, <2>3, <2>4, <2>5, <2>6 DEF Numbers
<1> QED
  BY <1>4, <1>5

-----------------------------------------------------------------------------
(* The steps of the server *)

Sound == Typed /\ FileWithinView /\ Linked /\ Follows

\* A step that changes nothing the client keeps of the conversation.
LEMMA ServerFollows ==
  ASSUME Sound, Typed', UNCHANGED <<rows, listed, opened, view, file, convLast, localLast>>,
         unpushed' \subseteq unpushed, listed /\ auth' => auth, Way \subseteq Way',
         \A l \in ToSet(lines') : l.kind = "push" => l \in ToSet(lines) \/ l.row \in unpushed,
         \A l \in Lists' : l \in Lists \/ l.last = rows,
         \A p \in Pages' : p \in Pages
            \/ /\ ToSet(p.rows) \subseteq 1..rows /\ Interval(ToSet(p.rows))
               /\ p.hasMore => p.rows # <<>>
               /\ p.hasMore \/ Ends(p),
         Histories' \subseteq Histories, Pending => Pending', PageBehindPage'
  PROVE  Follows'
<1>1. Numbers /\ Numbers'
  BY NumbersOf DEF Sound
<1>2. /\ WithinRows /\ FileUnbroken /\ UnknownComes /\ ListTrue
      /\ PageToEnd /\ PageBehindPage /\ ToCache /\ WithoutCache /\ ToEnd
  BY DEF Sound, Follows
<1>3. unpushed \subseteq 1..rows
  BY <1>2 DEF WithinRows
<1>4. WithinRows'
  <2>1. rows \in Nat /\ rows' \in Nat /\ rows <= rows' /\ rows' = rows
    BY <1>1 DEF Numbers
  <2>2. /\ ToSet(file') \subseteq 1..rows' /\ ToSet(view') \subseteq 1..rows'
        /\ convLast' <= rows' /\ localLast' <= rows'
    BY <1>2 DEF WithinRows
  <2>3. \A l \in ToSet(lines') : l.kind = "push" => l \in ToSet(lines) \/ l.row \in 1..rows'
    BY <1>3
  <2>4. \A l \in Lists' : l.last \in Nat /\ (l \in Lists \/ l.last <= rows')
    BY <1>1, <2>1 DEF Numbers
  <2>5. \A q \in Histories' : q.after \in Nat /\ (q \in Histories \/ q.after = 0 \/ q.after < rows')
    BY <1>1 DEF Numbers
  <2>6. unpushed' \subseteq 1..rows'
    BY <1>3
  <2> QED
    BY <1>2, <2>1, <2>2, <2>3, <2>4, <2>5, <2>6, KeepsWithinRows
<1>5. UnknownComes'
  BY <1>1, <1>2, KeepsUnknownComes DEF Numbers
<1>6. ListTrue'
  BY <1>1, <1>2, KeepsListTrue DEF Numbers
<1>7. PageToEnd' /\ ToCache' /\ WithoutCache' /\ ToEnd' /\ FileUnbroken'
  <2>1. Shown' => Shown /\ view' = view
    BY LinkedSets DEF Sound, Shown
  <2>2. rows \in Nat
    BY <1>1 DEF Numbers
  <2>3. \A p \in Pages' : p \in Pages \/ p.hasMore \/ Ends(p)
    OBVIOUS
  <2> QED
    BY <1>2, <2>1, <2>2, <2>3, KeepsShown
<1> QED
  BY <1>4, <1>5, <1>6, <1>7 DEF Follows

\* A step that ends with the connection gone, or leaves it so.
LEMMA UnlinkedFollows ==
  ASSUME Sound, Typed', UNCHANGED rows, unpushed' \subseteq unpushed,
         auth' = FALSE, lines' = <<>>, answer' = <<>>, listing' = <<>>, Histories' = {},
         file' \in {file, <<>>}, view' \in {view, <<>>},
         convLast' \in {convLast, 0}, localLast' \in {localLast, 0}
  PROVE  Follows'
<1>1. Numbers /\ Numbers'
  BY NumbersOf DEF Sound
<1>2. WithinRows /\ FileUnbroken
  BY DEF Sound, Follows
<1>3. ToSet(lines') = {} /\ ToSet(answer') = {} /\ ToSet(listing') = {}
  BY SetOfEmpty
<1>4. Pages' = {} /\ Lists' = {}
  BY <1>3 DEF Pages, Lists, Of
<1>5. WithinRows'
  <2>1. rows \in Nat /\ rows' \in Nat /\ rows <= rows' /\ rows' = rows
    BY <1>1 DEF Numbers
  <2>2. ToSet(file') \subseteq 1..rows' /\ ToSet(view') \subseteq 1..rows'
    BY <1>2, SetOfEmpty DEF WithinRows
  <2>3. convLast' <= rows' /\ localLast' <= rows' /\ unpushed' \subseteq 1..rows'
    BY <1>2, <2>1 DEF WithinRows
  <2> QED
    BY <1>2, <1>3, <1>4, <2>1, <2>2, <2>3, KeepsWithinRows
<1>6. /\ FileUnbroken' /\ UnknownComes' /\ ListTrue' /\ PageToEnd' /\ PageBehindPage'
      /\ ToCache' /\ WithoutCache' /\ ToEnd'
  BY <1>2, <1>4, KeepsUnlinked
<1> QED
  BY <1>5, <1>6 DEF Follows

LEMMA StoreFollows ==
  ASSUME Sound, Typed', Store PROVE Follows'
<1>1. Numbers /\ Numbers'
  BY NumbersOf DEF Sound
<1>2. /\ WithinRows /\ FileUnbroken /\ UnknownComes /\ ListTrue
      /\ PageToEnd /\ PageBehindPage /\ ToCache /\ WithoutCache /\ ToEnd
  BY DEF Sound, Follows
<1>3. /\ rows' = rows + 1 /\ unpushed' = unpushed \cup {rows + 1} /\ rows \in Nat
      /\ UNCHANGED <<lines, answer, listing, requests, auth, listed, opened, view, file,
                     convLast, localLast>>
  BY <1>1 DEF Store, linkVars, memory, Numbers
<1>4. Pages' = Pages /\ Lists' = Lists /\ Histories' = Histories /\ (Pending' <=> Pending)
      /\ (Shown' <=> Shown)
  BY <1>3 DEF Pages, Lists, Histories, Pending, Shown
<1>5. /\ \A r \in 1..rows' : r \in 1..rows \/ r = rows + 1
      /\ \A m \in Nat : \A r \in m..rows' : r \in m..rows \/ r = rows + 1
  BY <1>3
<1>6. Way \subseteq Way' /\ rows + 1 \in Way'
  <2>1. 1..rows \subseteq 1..rows'
    BY <1>3
  <2> QED
    BY <1>3, <2>1 DEF Way
<1>7. Reach \subseteq Reach' /\ rows + 1 \in Reach'
  BY <1>3, <1>6 DEF Reach
<1>8. WithinRows'
  <2>1. rows' \in Nat /\ rows <= rows' /\ 1..rows \subseteq 1..rows' /\ rows + 1 \in 1..rows'
    BY <1>3
  <2>2. unpushed' \subseteq 1..rows' /\ ToSet(file') \subseteq 1..rows' /\ ToSet(view') \subseteq 1..rows'
    BY <1>2, <1>3, <2>1 DEF WithinRows
  <2>3. convLast' <= rows' /\ localLast' <= rows'
    BY <1>1, <1>2, <1>3 DEF WithinRows, Numbers
  <2>4. /\ \A l \in Lists' : l.last \in Nat /\ l \in Lists
        /\ \A q \in Histories' : q.after \in Nat /\ q \in Histories
    BY <1>1, <1>4 DEF Numbers
  <2> QED
    BY <1>2, <1>3, <1>4, <2>1, <2>2, <2>3, <2>4, KeepsWithinRows
<1>9. FileUnbroken'
  BY <1>2, <1>3 DEF FileUnbroken
<1>10. UnknownComes'
  BY <1>2, <1>3, <1>5, <1>6 DEF UnknownComes
<1>11. ListTrue'
  <2> SUFFICES ASSUME NEW l \in Lists, NEW r \in (l.last + 1)..rows' PROVE r <= convLast \/ r \in Way'
    BY <1>3, <1>4 DEF ListTrue
  <2>1. r \in (l.last + 1)..rows \/ r = rows + 1
    BY <1>1, <1>5 DEF Numbers
  <2> QED
    BY <1>2, <1>6, <2>1 DEF ListTrue
<1>12. PageToEnd'
  <2> SUFFICES ASSUME NEW p \in Pages, ~p.hasMore, NEW r \in (Newest(p.rows) + 1)..rows'
               PROVE  r \in Way' \cup ToSet(file)
    BY <1>3, <1>4 DEF PageToEnd
  <2>1. r \in (Newest(p.rows) + 1)..rows \/ r = rows + 1
    BY <1>1, <1>5 DEF Numbers
  <2> QED
    BY <1>2, <1>6, <2>1 DEF PageToEnd
<1>13. PageBehindPage'
  <2> SUFFICES ASSUME NEW i \in DOMAIN lines, lines[i].kind = "page",
                      NEW p \in Of("page", After(lines, i) \cup ToSet(answer)), ~p.hasMore,
                      NEW r \in (Newest(p.rows) + 1)..rows'
               PROVE  r \in unpushed' \/ Push(r) \in After(lines, i)
    BY <1>3 DEF PageBehindPage
  <2>1. Newest(p.rows) \in Nat
    <3>1. lines \in Seq(Lines)
      BY TypeParts DEF Sound, LinkTypes
    <3>2. After(lines, i) \subseteq ToSet(lines)
      <4>1. DOMAIN lines = 1..Len(lines) /\ Len(lines) \in Nat
        BY <3>1
      <4> QED
        BY <4>1 DEF After, ToSet
    <3>3. p \in Pages
      BY <3>2 DEF Pages, Of
    <3> QED
      BY <1>1, <3>3 DEF Numbers
  <2>2. r \in (Newest(p.rows) + 1)..rows \/ r = rows + 1
    BY <1>5, <2>1
  <2> QED
    BY <1>2, <1>3, <2>2 DEF PageBehindPage
<1>14. ToCache'
  BY <1>2, <1>3, <1>4, <1>7 DEF ToCache
<1>15. WithoutCache'
  BY <1>2, <1>3, <1>4, <1>5, <1>7 DEF WithoutCache
<1>16. ToEnd'
  <2> SUFFICES ASSUME Shown, ~Pending
               PROVE  /\ rows' \in Reach' /\ \A e \in ToSet(view) : e..rows' \subseteq Reach'
                      /\ file = <<>> => 1..rows' \subseteq Reach'
    BY <1>3, <1>4 DEF ToEnd
  <2>1. \A e \in ToSet(view) : e \in Nat
    BY <1>2 DEF WithinRows
  <2> QED
    BY <1>2, <1>3, <1>5, <1>7, <2>1 DEF ToEnd
<1> QED
  BY <1>8, <1>9, <1>10, <1>11, <1>12, <1>13, <1>14, <1>15, <1>16 DEF Follows

LEMMA BroadcastFollows ==
  ASSUME Sound, Typed', NEW r \in Rows, Broadcast(r) PROVE Follows'
<1>1. /\ r \in unpushed /\ unpushed' = unpushed \ {r}
      /\ lines' = IF auth THEN Append(lines, Push(r)) ELSE lines
      /\ UNCHANGED <<rows, listing, auth, answer, requests, listed, opened, view, file,
                     convLast, localLast>>
  BY DEF Broadcast, memory, Push
<1>2. Push(r) \in Lines /\ Push(r).kind = "push" /\ Push(r).row = r
  BY NewLines DEF Push
<1>3. CASE auth
  <2>1. ToSet(lines') = ToSet(lines) \cup {Push(r)}
    BY <1>3, BroadcastSets DEF Sound
  <2>2. Pages' = Pages /\ Lists' = Lists /\ Histories' = Histories /\ (Pending => Pending')
    BY <1>1, <1>2, <2>1 DEF Pages, Lists, Histories, Pending, Of
  <2>3. Way \subseteq Way'
    <3>1. r \in 1..rows
      BY <1>1 DEF Sound, Follows, WithinRows
    <3> QED
      BY <1>1, <2>1, <3>1 DEF Way
  <2>4. PageBehindPage'
    <3>1. PageBehindPage /\ Typed
      BY DEF Sound, Follows
    <3>2. lines' = Append(lines, Push(r)) /\ \A x \in unpushed : x \in unpushed' \/ Push(r) = Push(x)
      BY <1>1, <1>3
    <3> QED
      BY <1>1, <1>2, <3>1, <3>2, OrderAppend
  <2>5. \A l \in ToSet(lines') : l.kind = "push" => l \in ToSet(lines) \/ l.row \in unpushed
    BY <1>1, <1>2, <2>1
  <2> QED
    BY <1>1, <1>3, <2>2, <2>3, <2>4, <2>5, ServerFollows
<1>4. CASE ~auth
  <2>1. ToSet(lines) = {} /\ ToSet(answer) = {} /\ ToSet(listing) = {} /\ auth' = FALSE
    BY <1>1, <1>4, LinkedSets, TypeParts DEF Sound, BondTypes
  <2>2. lines' = <<>> /\ answer' = <<>> /\ listing' = <<>>
    BY <1>1, <1>4, <2>1, SetsOf DEF Sound, Sets
  <2>3. Histories' = {}
    BY <1>1, <1>4, LinkedSets DEF Sound, Histories, Of
  <2> QED
    BY <1>1, <2>1, <2>2, <2>3, UnlinkedFollows
<1> QED
  BY <1>3, <1>4

LEMMA HandleFollows ==
  ASSUME Sound, Typed', Handle, blind' = {} PROVE Follows'
<1> DEFINE q == Head(requests)
<1>1. /\ UNCHANGED <<rows, unpushed, listing, lines, listed, opened, view, file, convLast, localLast>>
      /\ ToSet(answer) = {} /\ ToSet(requests) = {q} \cup ToSet(requests') /\ q \in Requests
  BY HandleSets DEF Handle, memory, serverVars, Sound
<1>2. Numbers /\ WithinRows /\ PageBehindPage /\ Typed
  BY NumbersOf DEF Sound, Follows
<1>3. Way' = Way /\ Histories' \subseteq Histories
  BY <1>1 DEF Way, Histories, Of
<1>4. rows \in Nat
  BY <1>2 DEF Numbers
<1>5. CASE q.kind = "login" /\ auth' = TRUE /\ answer' = <<[kind |-> "login"]>>
  <2>1. ToSet(answer') = {[kind |-> "login"]}
    BY <1>5, SetOfOne
  <2>2. Pages' = Pages /\ Lists' = Lists /\ Histories' = Histories /\ (Pending => Pending')
    BY <1>1, <1>5, <2>1 DEF Pages, Lists, Histories, Pending, Of
  <2>3. \A p \in Of("page", ToSet(answer')) : FALSE
    BY <2>1 DEF Of
  <2>4. PageBehindPage'
    BY <1>1, <1>2, <1>4, <2>3, OrderSame
  <2>5. listed => auth
    <3>1. q \in ToSet(requests)
      BY <1>1
    <3> HIDE DEF q
    <3> QED
      BY <3>1, LinkedSets DEF Sound
  <2> HIDE DEF q
  <2> QED
    BY <1>1, <1>3, <2>2, <2>4, <2>5, ServerFollows
<1>6. CASE q.kind = "list" /\ answer' = <<ConvList>> /\ UNCHANGED auth
  <2>1. ToSet(answer') = {ConvList} /\ ConvList.kind = "list" /\ ConvList.last = rows
    BY <1>6, SetOfOne DEF ConvList
  <2>2. /\ Pages' = Pages /\ Lists' = Lists \cup {ConvList} /\ Histories' = Histories
        /\ (Pending => Pending')
    BY <1>1, <1>6, <2>1 DEF Pages, Lists, Histories, Pending, Of
  <2>3. \A p \in Of("page", ToSet(answer')) : FALSE
    BY <2>1 DEF Of
  <2>4. PageBehindPage'
    BY <1>1, <1>2, <1>4, <2>3, OrderSame
  <2> HIDE DEF q
  <2> QED
    BY <1>1, <1>3, <1>6, <2>1, <2>2, <2>4, ServerFollows
<1>7. CASE q.kind = "history" /\ answer' = <<History(q.after)>> /\ UNCHANGED auth
  <2> DEFINE p == History(q.after)
  <2>1. q \in Histories
    BY <1>1, <1>7 DEF Histories, Of
  <2>2. q.after \in Nat /\ (q.after = 0 \/ q.after < rows) /\ rows \in 0..MaxRows
    BY <1>2, <2>1, TypeParts DEF Numbers, WithinRows, ServerTypes
  <2>3. ToSet(answer') = {p}
    BY <1>7, SetOfOne
  <2>4. /\ p \in Lines /\ p.kind = "page" /\ ToSet(p.rows) \subseteq 1..rows
        /\ Interval(ToSet(p.rows)) /\ (p.hasMore => p.rows # <<>>)
        /\ ~p.hasMore => rows <= Newest(p.rows)
    BY <2>2, HistoryOf
  <2> HIDE DEF p, q
  <2>5. Pages' = Pages \cup {p} /\ Lists' = Lists
    BY <1>1, <2>3, <2>4 DEF Pages, Lists, Of
  <2>6. Pending'
    BY <2>5 DEF Pending
  <2>7. p.hasMore \/ Ends(p)
    <3>1. Numbers'
      BY NumbersOf
    <3>2. Newest(p.rows) \in Nat
      BY <2>5, <3>1 DEF Numbers
    <3> QED
      BY <2>4, <3>2 DEF Ends
  <2>8. PageBehindPage'
    <3>1. \A x \in Of("page", ToSet(answer')) : x = p
      BY <2>3 DEF Of
    <3> QED
      BY <1>1, <1>2, <1>4, <2>7, <3>1, OrderSame
  <2> QED
    BY <1>1, <1>3, <1>7, <2>4, <2>5, <2>6, <2>7, <2>8, ServerFollows
<1>8. q.kind # "history" \/ blind' # blind \cup {"failed"}
  OBVIOUS
<1> QED
  BY <1>5, <1>6, <1>7, <1>8 DEF Handle

\* A line read before joins the lines on their way.
LEMMA JoinedFollows ==
  ASSUME Sound, Typed', NEW x \in Lines, lines' = Append(lines, x),
         ToSet(lines') = ToSet(lines) \cup {x}, x.kind # "push",
         UNCHANGED <<rows, unpushed, auth, requests, memory, file>>,
         \/ UNCHANGED <<answer, listing>> /\ x.kind = "refused"
         \/ ToSet(answer) = {x} /\ ToSet(answer') = {} /\ UNCHANGED listing
         \/ ToSet(listing) = {x} /\ ToSet(listing') = {} /\ UNCHANGED answer /\ x.kind = "list"
  PROVE  Follows'
<1>1. UNCHANGED <<listed, opened, view, convLast, localLast>>
  BY DEF memory
<1>2. /\ Pages' = Pages /\ Lists' = Lists /\ Histories' = Histories /\ (Pending => Pending')
      /\ Way' = Way
  <2>1. Pages' = Pages /\ Lists' = Lists
    BY DEF Pages, Lists, Of
  <2>2. Histories' = Histories
    BY DEF Histories
  <2>3. Way' = Way
    <3>1. \A r \in 1..rows : Push(r) # x
      BY DEF Push
    <3> QED
      BY <3>1 DEF Way
  <2> QED
    BY <2>1, <2>2, <2>3 DEF Pending
<1>3. PageBehindPage'
  <2>1. PageBehindPage /\ Typed
    BY DEF Sound, Follows
  <2>2. /\ x.kind = "page" => x \in ToSet(answer) /\ ToSet(answer') = {}
        /\ ToSet(answer') \subseteq ToSet(answer)
    OBVIOUS
  <2> QED
    BY <2>1, <2>2, OrderAppend
<1> QED
  BY <1>1, <1>2, <1>3, ServerFollows

LEMMA ReplyFollows ==
  ASSUME Sound, Typed', Reply \/ PushList \/ Refuse PROVE Follows'
<1>1. Typed /\ Linked /\ Len(answer) <= 1 /\ Len(listing) <= 1
  BY DEF Sound, Linked
<1>2. CASE Reply
  <2>1. PICK x \in Lines : /\ ToSet(answer) = {x} /\ ToSet(answer') = {}
                           /\ lines' = Append(lines, x) /\ ToSet(lines') = ToSet(lines) \cup {x}
    BY <1>1, <1>2, ReplySets
  <2>2. UNCHANGED <<rows, unpushed, listing, auth, requests, memory, file>>
    BY <1>2 DEF Reply, serverVars
  <2>3. x.kind # "push"
    BY <1>1, <2>1, LinkedSets
  <2> QED
    BY <2>1, <2>2, <2>3, JoinedFollows
<1>3. CASE PushList
  <2>1. PICK x \in Lines : /\ ToSet(listing) = {x} /\ ToSet(listing') = {}
                           /\ lines' = Append(lines, x) /\ ToSet(lines') = ToSet(lines) \cup {x}
    BY <1>1, <1>3, PushListSets
  <2>2. UNCHANGED <<rows, unpushed, answer, auth, requests, memory, file>>
    BY <1>3 DEF PushList
  <2>3. x.kind = "list"
    BY <1>1, <2>1, LinkedSets
  <2> QED
    BY <2>1, <2>2, <2>3, JoinedFollows
<1>4. CASE Refuse
  <2>1. PICK x \in Lines : /\ x.kind = "refused"
                           /\ lines' = Append(lines, x) /\ ToSet(lines') = ToSet(lines) \cup {x}
    BY <1>1, <1>4, RefuseSets
  <2>2. UNCHANGED <<rows, unpushed, listing, answer, auth, requests, memory, file>>
    BY <1>4 DEF Refuse, serverVars
  <2> QED
    BY <2>1, <2>2, JoinedFollows
<1> QED
  BY <1>2, <1>3, <1>4

LEMMA ReadListFollows ==
  ASSUME Sound, Typed', ReadList PROVE Follows'
<1>1. ToSet(listing') = {ConvList} /\ ToSet(listing) = {}
      /\ ConvList.kind = "list" /\ ConvList.last = rows
  BY SetOfOne, SetOfEmpty DEF ReadList, ConvList
<1>2. UNCHANGED <<rows, unpushed, lines, answer, auth, requests, listed, opened, view, file,
                  convLast, localLast>>
  BY DEF ReadList, linkVars, memory
<1>3. /\ Pages' = Pages /\ Lists' = Lists \cup {ConvList} /\ Histories' = Histories
      /\ (Pending => Pending') /\ Way' = Way
  BY <1>1, <1>2 DEF Pages, Lists, Histories, Pending, Of, Way
<1>4. PageBehindPage'
  BY <1>2 DEF Sound, Follows, PageBehindPage
<1> QED
  BY <1>1, <1>2, <1>3, <1>4, ServerFollows

LEMMA SignInFollows ==
  ASSUME Sound, Typed', SignIn PROVE Follows'
<1>1. ToSet(requests') = {[kind |-> "login"]}
  BY SetOfOne DEF SignIn
<1>2. /\ UNCHANGED <<rows, unpushed, lines, listing, answer, auth, file, view, convLast, localLast>>
      /\ ~up
  BY DEF SignIn, serverVars, memory
<1>3. auth = FALSE /\ lines = <<>> /\ answer = <<>> /\ listing = <<>>
  <2>1. auth \in BOOLEAN /\ ~auth
    BY <1>2, TypeParts DEF Sound, BondTypes
  <2>2. ToSet(lines) = {} /\ ToSet(answer) = {} /\ ToSet(listing) = {}
    BY <2>1, LinkedSets DEF Sound
  <2> QED
    BY <2>1, <2>2, SetsOf DEF Sound, Sets
<1>4. Histories' = {}
  BY <1>1 DEF Histories, Of
<1> QED
  BY <1>2, <1>3, <1>4, UnlinkedFollows

LEMMA EndFollows ==
  ASSUME Sound, Typed', Cut \/ Restart \/ DieWriting PROVE Follows'
<1>1. Unlinked /\ UNCHANGED <<rows, unpushed>>
  BY DEF Cut, Restart, DieWriting
<1>2. /\ file' \in {file, <<>>} /\ view' \in {view, <<>>}
      /\ convLast' \in {convLast, 0} /\ localLast' \in {localLast, 0}
  BY DEF Cut, Restart, DieWriting, Forgotten, memory
<1>3. Histories' = {}
  BY <1>1, UnlinkedSets DEF Histories, Of
<1> QED
  BY <1>1, <1>2, <1>3, UnlinkedSets, UnlinkedFollows

-----------------------------------------------------------------------------
(* The lines the client receives *)

\* A page is asked for, read and received while the conversation is listed.
LEMMA PageListed ==
  ASSUME Sound, Pages # {} PROVE listed /\ signedIn /\ auth
<1>1. listed
  BY DEF Sound, Linked, Pending
<1>2. ToSet(lines) # {} \/ ToSet(answer) # {}
  BY DEF Pages, Of
<1> QED
  BY <1>1, <1>2, LinkedSets DEF Sound

\* What Receive takes and leaves alone.
LEMMA Received ==
  ASSUME Sound, Typed', Receive
  PROVE  /\ Head(lines) \in Lines /\ Head(lines) \in ToSet(lines) /\ auth
         /\ ToSet(lines) = {Head(lines)} \cup ToSet(lines')
         /\ UNCHANGED <<rows, unpushed, listing, up, auth, answer>>
         /\ Lists' \subseteq Lists /\ Pages' \subseteq Pages
         /\ Head(lines).kind # "page" => Pages' = Pages
         /\ Head(lines).kind # "push" => Way' = Way
         /\ PageBehindPage'
<1> DEFINE l == Head(lines)
<1>1. /\ l \in Lines /\ lines # <<>> /\ lines' = Tail(lines)
      /\ ToSet(lines) = {l} \cup ToSet(lines')
      /\ UNCHANGED <<rows, unpushed, listing, up, auth, answer>>
  BY ReceiveSets DEF Receive, serverVars, Sound
<1> HIDE DEF l
<1>2. auth
  BY <1>1, LinkedSets DEF Sound
<1>3. Lists' \subseteq Lists /\ Pages' \subseteq Pages /\ (l.kind # "page" => Pages' = Pages)
  BY <1>1 DEF Lists, Pages, Of
<1>4. l.kind # "push" => Way' = Way
  <2>1. \A r \in 1..rows : Push(r).kind = "push"
    BY DEF Push
  <2> QED
    BY <1>1, <2>1 DEF Way
<1>5. PageBehindPage'
  BY <1>1, OrderTail DEF Sound, Follows
<1> QED
  BY <1>1, <1>2, <1>3, <1>4, <1>5 DEF l

LEMMA RequestsKept ==
  ASSUME Sound, Send(ListRequest) \/ UNCHANGED requests
  PROVE  Histories' = Histories
<1>1. ListRequest \in Requests /\ ListRequest.kind = "list"
  BY NewRequests DEF ListRequest
<1>2. CASE Send(ListRequest)
  <2>1. ToSet(requests') = ToSet(requests) \cup {ListRequest} \/ ToSet(requests') = ToSet(requests)
    BY <1>1, <1>2, SendSets DEF Sound
  <2> QED
    BY <1>1, <2>1 DEF Histories, Of
<1> QED
  BY <1>2 DEF Histories

LEMMA LoginFollows ==
  ASSUME Sound, Typed', Receive, Head(lines).kind = "login", OnLogin PROVE Follows'
<1>1. Histories' = Histories
  BY RequestsKept DEF OnLogin
<1>2. UNCHANGED <<listed, opened, view, file, convLast, localLast>>
  BY DEF OnLogin
<1>3. Pages' = Pages /\ (Pending => Pending') /\ Way' = Way
  BY <1>1, Received DEF Pending
<1>4. \A p \in ToSet(lines') : p \in ToSet(lines)
  BY Received
<1> QED
  BY <1>1, <1>2, <1>3, <1>4, Received, ServerFollows

LEMMA ListFollows ==
  ASSUME Sound, Typed', Receive, Head(lines).kind = "list", OnList(Head(lines)), blind' = {}
  PROVE  Follows'
<1> DEFINE l == Head(lines)
<1>1. /\ l \in Lists /\ l \in Lines /\ Lists' \subseteq Lists /\ Pages' = Pages /\ Way' = Way
      /\ UNCHANGED <<rows, unpushed, auth, up>> /\ PageBehindPage' /\ \A p \in ToSet(lines') : p \in ToSet(lines)
  BY Received DEF Lists, Of
<1>2. /\ convLast' = l.last /\ listed' = (listed \/ signedIn)
      /\ blind' = blind \cup If(l.last < convLast, "staleList")
      /\ UNCHANGED <<requests, signedIn, localLast, opened, view, file>>
  BY DEF OnList
<1> HIDE DEF l
<1>3. Numbers /\ Numbers'
  BY NumbersOf DEF Sound
<1>4. convLast <= l.last /\ l.last \in Nat /\ convLast \in Nat /\ rows \in Nat
  <2>1. ~(l.last < convLast)
    BY <1>2 DEF If
  <2> QED
    BY <1>1, <1>3, <2>1 DEF Numbers
<1>5. /\ WithinRows /\ FileUnbroken /\ UnknownComes /\ ListTrue
      /\ PageToEnd /\ PageBehindPage /\ ToCache /\ WithoutCache /\ ToEnd
  BY DEF Sound, Follows
<1>6. Histories' = Histories /\ (Pending => Pending')
  BY <1>1, <1>2 DEF Histories, Pending
<1>7. WithinRows'
  <2>1. rows \in Nat /\ rows' \in Nat /\ rows <= rows' /\ unpushed' \subseteq 1..rows'
    BY <1>1, <1>4, <1>5 DEF WithinRows
  <2>2. /\ ToSet(file') \subseteq 1..rows' /\ ToSet(view') \subseteq 1..rows'
        /\ convLast' <= rows' /\ localLast' <= rows'
    BY <1>1, <1>2, <1>5 DEF WithinRows
  <2>3. /\ \A x \in Lists' : x.last \in Nat /\ x \in Lists
        /\ \A q \in Histories' : q.after \in Nat /\ q \in Histories
    BY <1>1, <1>3, <1>6 DEF Numbers
  <2> QED
    BY <1>1, <1>5, <2>1, <2>2, <2>3, KeepsWithinRows
<1>8. UnknownComes'
  <2> SUFFICES ASSUME NEW r \in 1..rows PROVE r <= l.last \/ r \in Way
    BY <1>1, <1>2 DEF UnknownComes
  <2>1. CASE r > l.last
    <3>1. r \in (l.last + 1)..rows
      BY <1>4, <2>1
    <3>2. r <= convLast \/ r \in Way
      BY <1>1, <1>5, <3>1 DEF ListTrue
    <3> QED
      BY <1>4, <2>1, <3>2
  <2> QED
    BY <1>4, <2>1
<1>9. ListTrue'
  BY <1>1, <1>2, <1>3, <1>4, <1>5, KeepsListTrue DEF Numbers
<1>10. PageToEnd' /\ ToCache' /\ WithoutCache' /\ ToEnd' /\ FileUnbroken'
  <2>1. Shown' => Shown /\ view' = view
    BY <1>1, <1>2 DEF Shown
  <2> QED
    BY <1>1, <1>2, <1>4, <1>5, <1>6, <2>1, KeepsShown
<1> QED
  BY <1>1, <1>7, <1>8, <1>9, <1>10 DEF Follows

\* The sets a line makes of what is shown and cached.
LEMMA ShownSets ==
  ASSUME Sound, NEW s \in Seq(Entries), Emit(s)
  PROVE  ToSet(view') = IF opened THEN ToSet(view) \cup ToSet(s) ELSE ToSet(view)
<1>1. view \in Seq(Entries)
  BY TypeParts DEF FileTypes, Sound
<1>2. ToSet(view \o s) = ToSet(view) \cup ToSet(s)
  BY <1>1, SetOfConcat
<1> QED
  BY <1>2 DEF Emit

\* Newest, as the lemmas on sets of numbers want it.
LEMMA NewestNewer ==
  ASSUME NEW s \in Seq(Entries) PROVE Newer(Newest(s), ToSet(s))
<1>1. /\ Newest(s) \in 0..LastStamp /\ LastStamp \in Nat
      /\ \A x \in ToSet(s) : x \in Nat /\ x <= Newest(s)
      /\ IF s = <<>> THEN Newest(s) = 0 ELSE Newest(s) \in ToSet(s)
  BY NewestOf, Stamps
<1>2. s = <<>> <=> ToSet(s) = {}
  BY SetOf
<1>3. Newest(s) \in Nat
  BY <1>1
<1> QED
  BY <1>1, <1>2, <1>3 DEF Newer

\* The cache before a step, as those lemmas want it.
LEMMA CacheSets ==
  ASSUME Sound
  PROVE  /\ Newer(Newest(file), ToSet(file)) /\ ToSet(file) \subseteq 1..rows
         /\ ToSet(view) \subseteq 1..rows /\ (file = <<>> <=> ToSet(file) = {})
         /\ (view = <<>> <=> ToSet(view) = {}) /\ Interval(ToSet(file))
         /\ opened => ToSet(file) \subseteq ToSet(view)
<1>1. file \in Seq(Entries) /\ Sets
  BY SetsOf, TypeParts DEF Sound, FileTypes
<1>2. Newer(Newest(file), ToSet(file))
  BY <1>1, NewestNewer
<1> QED
  BY <1>1, <1>2 DEF Sound, Follows, WithinRows, FileUnbroken, FileWithinView, Sets

\* The opened conversation is listed, and its user known.
LEMMA ShownListed ==
  ASSUME Sound PROVE opened => listed /\ signedIn
  BY LinkedSets DEF Sound

LEMMA PushFollows ==
  ASSUME Sound, Typed', Receive, Head(lines).kind = "push", OnPush(Head(lines)), blind' = {}
  PROVE  Follows'
<1> DEFINE l == Head(lines)
           row == l.row
           V == ToSet(view)
           F == ToSet(file)
           f == Newest(file)
<1>1. /\ l \in ToSet(lines) /\ l \in Lines /\ Lists' \subseteq Lists /\ Pages' = Pages
      /\ UNCHANGED <<rows, unpushed, auth, up>> /\ auth /\ PageBehindPage'
      /\ ToSet(lines) = {l} \cup ToSet(lines')
  BY Received
<1>2. /\ Emit(<<row>>) /\ Write(Append(file, row))
      /\ Send(ListRequest) \/ UNCHANGED requests
      /\ convLast' = Larger(convLast, row)
      /\ blind' = blind \cup If(Apart({row}), "gap")
      /\ UNCHANGED <<signedIn, localLast, listed, opened>>
  BY DEF OnPush
<1>3. row \in Rows /\ l = Push(row)
  BY <1>1, LineKinds
<1> HIDE DEF l, row
<1>4. Numbers /\ Numbers'
  BY NumbersOf DEF Sound
<1>5. /\ WithinRows /\ FileUnbroken /\ UnknownComes /\ ListTrue
      /\ PageToEnd /\ PageBehindPage /\ ToCache /\ WithoutCache /\ ToEnd
  BY DEF Sound, Follows
<1>6. row \in 1..rows /\ row \in Entries /\ <<row>> \in Seq(Entries) /\ rows \in Nat /\ convLast \in Nat
  <2>1. l.row \in 1..rows
    BY <1>1, <1>5 DEF WithinRows, Of, l
  <2>2. row \in Entries
    BY <1>3, Stamps
  <2> QED
    BY <1>4, <2>1, <2>2 DEF Numbers, l, row
<1>7. convLast' \in Nat /\ convLast <= convLast' /\ row <= convLast' /\ convLast' <= rows
  BY <1>2, <1>5, <1>6 DEF Larger, WithinRows
<1>8. Way \subseteq Way' \cup {row} /\ \A r \in 1..rows : r \in Way => r \in Way' \/ r <= convLast'
  <2>1. \A r \in 1..rows : Push(r) = Push(row) => r = row
    BY DEF Push
  <2>2. Way \subseteq Way' \cup {row}
    BY <1>1, <1>3, <2>1 DEF Way
  <2> QED
    BY <1>7, <2>2
<1>9. Histories' = Histories /\ (Pending' <=> Pending)
  BY <1>1, <1>2, RequestsKept DEF Pending
<1>10. /\ ToSet(view') = IF opened THEN V \cup {row} ELSE V
       /\ ToSet(file') = IF signedIn THEN F \cup {row} ELSE F
       /\ signedIn => file' # <<>>
  <2>1. ToSet(<<row>>) = {row}
    BY SetOfOne
  <2>2. ToSet(view') = IF opened THEN V \cup ToSet(<<row>>) ELSE V
    BY <1>2, <1>6, ShownSets
  <2>3. file \in Seq(Entries)
    BY TypeParts DEF Sound, FileTypes
  <2>4. ToSet(Append(file, row)) = F \cup {row} /\ Append(file, row) # <<>>
    BY <1>6, <2>3, SetOfAppend
  <2> QED
    BY <1>2, <2>1, <2>2, <2>4 DEF Write
<1>11. /\ Newer(f, F) /\ F \subseteq 1..rows /\ V \subseteq 1..rows /\ (file = <<>> <=> F = {})
       /\ Interval(F) /\ (opened => F \subseteq V)
  BY CacheSets
<1> HIDE DEF V, F, f
<1>12. signedIn /\ F # {} => \E a \in F : row \in {a - 1, a, a + 1}
  <2>1. ~Apart({row})
    BY <1>2 DEF If
  <2> QED
    BY <1>11, <2>1 DEF Apart, F
<1>13. WithinRows'
  <2>1. rows \in Nat /\ rows' \in Nat /\ rows <= rows' /\ unpushed' \subseteq 1..rows'
    BY <1>1, <1>5, <1>6 DEF WithinRows
  <2>2. ToSet(file') \subseteq 1..rows' /\ ToSet(view') \subseteq 1..rows'
    BY <1>1, <1>6, <1>10, <1>11
  <2>3. convLast' <= rows' /\ localLast' <= rows'
    BY <1>1, <1>2, <1>5, <1>7 DEF WithinRows
  <2>4. /\ \A x \in Lists' : x.last \in Nat /\ x \in Lists
        /\ \A q \in Histories' : q.after \in Nat /\ q \in Histories
    BY <1>1, <1>4, <1>9 DEF Numbers
  <2> QED
    BY <1>1, <1>5, <2>1, <2>2, <2>3, <2>4, KeepsWithinRows
<1>14. FileUnbroken'
  <2>1. CASE signedIn
    <3>1. Interval(F \cup {row})
      BY <1>6, <1>11, <1>12, <2>1, JoinInterval
    <3> QED
      BY <1>10, <2>1, <3>1 DEF FileUnbroken
  <2>2. CASE ~signedIn
    BY <1>10, <1>11, <2>2 DEF FileUnbroken
  <2> QED
    BY <2>1, <2>2
<1>15. UnknownComes'
  BY <1>1, <1>2, <1>5, <1>6, <1>7, <1>8, KeepsUnknownComes
<1>16. ListTrue'
  BY <1>1, <1>4, <1>5, <1>6, <1>7, <1>8, KeepsListTrue DEF Numbers
<1>17. PageToEnd'
  <2> SUFFICES ASSUME NEW p \in Pages, ~p.hasMore, NEW r \in (Newest(p.rows) + 1)..rows
               PROVE  r \in Way' \cup ToSet(file')
    BY <1>1 DEF PageToEnd
  <2>1. r \in Way \cup F
    BY <1>5 DEF PageToEnd, F
  <2>2. signedIn
    BY PageListed
  <2> QED
    BY <1>8, <1>10, <2>1, <2>2
<1>18. ASSUME Shown'
       PROVE  /\ Shown /\ signedIn /\ ToSet(view') = V \cup {row} /\ ToSet(file') = F \cup {row}
              /\ F \subseteq V /\ Reach \subseteq Reach'
              /\ V \cup {row} \cup Way \subseteq Reach' /\ V \cup Way = Reach
  <2>1. Shown /\ opened
    BY <1>1, <1>2, <1>18 DEF Shown
  <2>2. signedIn
    BY <2>1, ShownListed
  <2>3. ToSet(view') = V \cup {row} /\ ToSet(file') = F \cup {row} /\ F \subseteq V
    BY <1>10, <1>11, <2>1, <2>2
  <2>4. V \cup {row} \cup Way \subseteq Reach' /\ V \cup Way = Reach
    BY <1>8, <2>3 DEF Reach, V
  <2> QED
    BY <2>1, <2>2, <2>3, <2>4
<1>19. ToCache'
  <2> SUFFICES ASSUME Shown', NEW e \in ToSet(view') PROVE e..Newest(file') \subseteq Reach'
    BY DEF ToCache
  <2>1. Newer(Newest(file'), F \cup {row})
    <3>1. file' \in Seq(Entries)
      BY TypeParts DEF FileTypes
    <3>2. Newer(Newest(file'), ToSet(file'))
      BY <3>1, NewestNewer
    <3> QED
      BY <1>18, <3>2
  <2>2. F # {} => \A x \in V : x..f \subseteq V \cup Way
    BY <1>5, <1>11, <1>18 DEF ToCache, V, f
  <2>3. F = {} => 1..rows \subseteq V \cup Way \/ V = {}
    <3>1. view = <<>> => V = {}
      BY SetOfEmpty DEF V
    <3> QED
      BY <1>5, <1>11, <1>18, <3>1 DEF WithoutCache
  <2> DEFINE g == Newest(file')
  <2> HIDE DEF g
  <2>4. Newer(g, F \cup {row})
    BY <2>1 DEF g
  <2>5. \A x \in V \cup {row} : x..g \subseteq V \cup {row} \cup Way
    <3>1. /\ rows \in Nat /\ row \in 1..rows /\ V \subseteq 1..rows /\ F \subseteq V
          /\ Interval(F) /\ Newer(f, F)
      BY <1>6, <1>11, <1>18
    <3>2. F # {} => \E a \in F : row \in {a - 1, a, a + 1}
      BY <1>12, <1>18
    <3> DEFINE W == Way
    <3> HIDE DEF W
    <3>3. /\ F # {} => \A x \in V : x..f \subseteq V \cup W
          /\ F = {} => 1..rows \subseteq V \cup W \/ V = {}
      BY <2>2, <2>3 DEF W
    <3>4. \A x \in V \cup {row} : x..g \subseteq V \cup {row} \cup W
      <4>1. Continues(rows, V, F, W, f, g, row)
        BY <2>4, <3>1, <3>2, <3>3 DEF Continues
      <4> QED
        BY <4>1, JoinPush
    <3> QED
      BY <3>4 DEF W
  <2>6. e \in V \cup {row}
    BY <1>18
  <2>7. e..g \subseteq V \cup {row} \cup Way
    BY <2>5, <2>6
  <2> QED
    BY <1>18, <2>7 DEF g
<1>20. WithoutCache'
  BY <1>10, <1>18 DEF WithoutCache
<1>21. ToEnd'
  <2> SUFFICES ASSUME Shown', ~Pending
               PROVE  (rows > 0 => rows \in Reach') /\ \A e \in ToSet(view') : e..rows \subseteq Reach'
    BY <1>1, <1>9, <1>10, <1>18 DEF ToEnd
  <2>1. (rows > 0 => rows \in Reach) /\ (\A e \in V : e..rows \subseteq V \cup Way)
        /\ (F = {} => 1..rows \subseteq V \cup Way)
    BY <1>5, <1>11, <1>18 DEF ToEnd, V
  <2>2. \A e \in V \cup {row} : e..rows \subseteq V \cup {row} \cup Way
    <3>1. rows \in Nat /\ row \in 1..rows /\ V \subseteq 1..rows /\ F \subseteq V
      BY <1>6, <1>11, <1>18
    <3>2. F # {} => \E a \in F : row \in {a - 1, a, a + 1}
      BY <1>12, <1>18
    <3> DEFINE W == Way
    <3> HIDE DEF W
    <3>3. (\A e \in V : e..rows \subseteq V \cup W) /\ (F = {} => 1..rows \subseteq V \cup W)
      BY <2>1 DEF W
    <3>4. \A e \in V \cup {row} : e..rows \subseteq V \cup {row} \cup W
      BY <3>1, <3>2, <3>3, JoinPushToEnd
    <3> QED
      BY <3>4 DEF W
  <2> QED
    BY <1>18, <2>1, <2>2
<1> QED
  BY <1>1, <1>13, <1>14, <1>15, <1>16, <1>17, <1>19, <1>20, <1>21 DEF Follows

LEMMA PageFollows ==
  ASSUME Sound, Typed', Receive, Head(lines).kind = "page", OnPage(Head(lines)), blind' = {}
  PROVE  Follows'
<1> DEFINE l == Head(lines)
           page == l.rows
           t == Newest(page)
           V == ToSet(view)
           F == ToSet(file)
           P == ToSet(page)
           f == Newest(file)
<1>1. /\ l \in Pages /\ l \in Lines /\ Lists' \subseteq Lists /\ Pages' \subseteq Pages /\ Way' = Way
      /\ UNCHANGED <<rows, unpushed, auth, up, answer>> /\ PageBehindPage'
      /\ ToSet(lines) = {l} \cup ToSet(lines')
  BY Received DEF Pages, Of
<1>2. listed /\ signedIn /\ auth
  BY <1>1, PageListed
<1> DEFINE newest == Larger(localLast, t)
<1>3. /\ Emit(page) /\ Write(page)
      /\ \/ newest > 0 /\ localLast' = newest /\ convLast' = Larger(convLast, newest)
         \/ UNCHANGED <<localLast, convLast>>
      /\ blind' = blind \cup If(page # <<>> /\ Apart(P), "gap")
                        \cup If(l.hasMore /\ convLast > t, "cutPage")
      /\ UNCHANGED <<requests, signedIn, listed, opened>>
  BY DEF OnPage
<1> HIDE DEF newest
<1>4. Numbers /\ Numbers'
  BY NumbersOf DEF Sound
<1>5. /\ WithinRows /\ FileUnbroken /\ UnknownComes /\ ListTrue
      /\ PageToEnd /\ PageBehindPage /\ ToCache /\ WithoutCache /\ ToEnd
  BY DEF Sound, Follows
<1>6. /\ rows \in Nat /\ convLast \in Nat /\ localLast \in Nat /\ t \in Nat
      /\ page \in Seq(Rows) /\ page \in Seq(Entries) /\ l.hasMore \in BOOLEAN
      /\ P \subseteq 1..rows /\ Interval(P) /\ (l.hasMore => page # <<>>)
  <2>1. page \in Seq(Entries)
    BY <1>1, <1>4, Stamps DEF Numbers
  <2> QED
    BY <1>1, <1>4, <1>5, <2>1 DEF Numbers, WithinRows
<1>7. Newer(t, P) /\ t <= rows /\ (page = <<>> <=> P = {})
  <2>1. Newer(t, P) /\ (page = <<>> <=> P = {})
    BY <1>6, NewestNewer, SetOf
  <2>2. t \in P \/ t = 0
    BY <2>1 DEF Newer
  <2> QED
    BY <1>6, <2>1, <2>2
<1>8. /\ ToSet(view') = IF opened THEN V \cup P ELSE V
      /\ file' = page
  BY <1>2, <1>3, <1>6, ShownSets DEF Write
<1>9. /\ Newer(f, F) /\ F \subseteq 1..rows /\ V \subseteq 1..rows /\ (file = <<>> <=> F = {})
      /\ (view = <<>> <=> V = {}) /\ Interval(F) /\ (opened => F \subseteq V)
  BY CacheSets
<1>10. /\ ~(page # <<>> /\ Apart(P)) /\ ~(l.hasMore /\ convLast > t)
  BY <1>3 DEF If
<1>11. P # {} /\ F # {} => \E a \in F : {a - 1, a, a + 1} \cap P # {}
  BY <1>2, <1>7, <1>9, <1>10 DEF Apart
<1>12. \A r \in (t + 1)..rows : r \in Way \cup F
  <2>1. CASE ~l.hasMore
    BY <1>1, <1>5, <2>1 DEF PageToEnd
  <2>2. CASE l.hasMore
    <3>1. convLast <= t
      BY <1>6, <1>10, <2>2
    <3> SUFFICES ASSUME NEW r \in (t + 1)..rows PROVE r \in Way
      OBVIOUS
    <3>2. r \in 1..rows /\ ~(r <= convLast)
      BY <1>6, <3>1
    <3> QED
      BY <1>2, <1>5, <3>2 DEF UnknownComes
  <2> QED
    BY <1>6, <2>1, <2>2
<1>13. /\ convLast' \in Nat /\ convLast <= convLast' /\ convLast' <= rows /\ localLast' <= rows
  <2>1. convLast <= rows /\ localLast <= rows
    BY <1>5 DEF WithinRows
  <2>2. newest \in Nat /\ newest <= rows
    BY <1>6, <1>7, <2>1 DEF Larger, newest
  <2>3. Larger(convLast, newest) \in Nat /\ convLast <= Larger(convLast, newest) /\ Larger(convLast, newest) <= rows
    BY <1>6, <2>1, <2>2 DEF Larger
  <2> QED
    BY <1>3, <1>6, <2>1, <2>2, <2>3
<1> HIDE DEF l, page, t, V, F, P, f
<1>14. Histories' = Histories /\ (Pending' => Pending)
  BY <1>1, <1>3 DEF Histories, Pending
<1>15. ToSet(file') = P
  BY <1>8 DEF P
<1>16. WithinRows'
  <2>1. rows \in Nat /\ rows' \in Nat /\ rows <= rows' /\ unpushed' \subseteq 1..rows'
    BY <1>1, <1>5, <1>6 DEF WithinRows
  <2>2. ToSet(file') \subseteq 1..rows' /\ ToSet(view') \subseteq 1..rows'
    BY <1>1, <1>6, <1>8, <1>9, <1>15
  <2>3. convLast' <= rows' /\ localLast' <= rows'
    BY <1>1, <1>13
  <2>4. /\ \A x \in Lists' : x.last \in Nat /\ x \in Lists
        /\ \A q \in Histories' : q.after \in Nat /\ q \in Histories
    BY <1>1, <1>4, <1>14 DEF Numbers
  <2> QED
    BY <1>1, <1>5, <2>1, <2>2, <2>3, <2>4, KeepsWithinRows
<1>17. FileUnbroken'
  BY <1>6, <1>15 DEF FileUnbroken
<1>18. UnknownComes'
  BY <1>1, <1>3, <1>5, <1>6, <1>13, KeepsUnknownComes
<1>19. ListTrue'
  BY <1>1, <1>4, <1>5, <1>6, <1>13, KeepsListTrue DEF Numbers
<1>20. PageToEnd'
  <2> SUFFICES ASSUME NEW p \in Pages', ~p.hasMore, NEW r \in (Newest(p.rows) + 1)..rows
               PROVE  r \in Way'
    BY <1>1 DEF PageToEnd
  <2>1. lines \in Seq(Lines) /\ lines # <<>> /\ lines' = Tail(lines)
    BY TypeParts DEF Sound, LinkTypes, Receive
  <2>2. 1 \in DOMAIN lines /\ lines[1] = l /\ After(lines, 1) = ToSet(lines')
    BY <2>1, AfterTail DEF l
  <2>3. p \in Of("page", After(lines, 1) \cup ToSet(answer))
    BY <1>1, <2>2 DEF Pages
  <2>4. l.kind = "page"
    BY DEF l
  <2>5. r \in unpushed \/ Push(r) \in ToSet(lines')
    BY <1>5, <2>2, <2>3, <2>4 DEF PageBehindPage
  <2>6. r \in 1..rows
    <3>1. Newest(p.rows) \in Nat
      BY <1>1, <1>4 DEF Numbers
    <3> QED
      BY <1>6, <3>1
  <2> QED
    BY <1>1, <2>5, <2>6 DEF Way
<1>21. ASSUME Shown'
       PROVE  /\ ToSet(view') = V \cup P /\ Reach' = V \cup P \cup Way
              /\ \A e \in V \cup P : e..rows \subseteq V \cup P \cup Way
              /\ rows > 0 => rows \in V \cup P \cup Way
              /\ P = {} => 1..rows \subseteq V \cup P \cup Way
  <2>1. Shown /\ opened
    BY <1>1, <1>3, <1>21 DEF Shown
  <2>2. ToSet(view') = V \cup P /\ Reach' = V \cup P \cup Way /\ F \subseteq V
    BY <1>1, <1>8, <1>9, <2>1 DEF Reach
  <2> DEFINE W == Way
  <2>3. F # {} => \A e \in V : e..f \subseteq V \cup W
    BY <1>5, <1>9, <2>1 DEF ToCache, Reach, V, f
  <2>4. F = {} => 1..rows \subseteq V \cup W \/ V = {}
    BY <1>5, <1>9, <2>1 DEF WithoutCache, Reach, V
  <2>5. \A r \in (t + 1)..rows : r \in V \cup W
    BY <1>12, <2>2
  <2> HIDE DEF W
  <2>6. Replaces(rows, V, F, P, W, t, f)
    BY <1>6, <1>7, <1>9, <1>11, <2>2, <2>3, <2>4, <2>5 DEF Replaces
  <2>7. /\ \A e \in V \cup P : e..rows \subseteq V \cup P \cup W
        /\ rows > 0 => rows \in V \cup P \cup W
        /\ P = {} => 1..rows \subseteq V \cup P \cup W
    BY <2>6, JoinPage
  <2> QED
    BY <2>2, <2>7 DEF W
<1>22. ToCache'
  <2> SUFFICES ASSUME Shown', NEW e \in V \cup P PROVE e..Newest(page) \subseteq Reach'
    BY <1>8, <1>21 DEF ToCache
  <2>1. e..Newest(page) \subseteq e..rows
    <3>1. e \in 1..rows
      BY <1>6, <1>9
    <3> QED
      BY <1>6, <1>7, <3>1 DEF t
  <2> QED
    BY <1>21, <2>1
<1>23. WithoutCache'
  BY <1>1, <1>7, <1>8, <1>21 DEF WithoutCache
<1>24. ToEnd'
  BY <1>1, <1>7, <1>8, <1>21 DEF ToEnd
<1> QED
  BY <1>1, <1>16, <1>17, <1>18, <1>19, <1>20, <1>22, <1>23, <1>24 DEF Follows

\* A refused send is one of the Losses.
LEMMA ReceiveFollows ==
  ASSUME Sound, Typed', Receive, blind' = {} PROVE Follows'
<1>1. Head(lines).kind = "refused" /\ OnRefused(Head(lines)) => FALSE
  BY DEF OnRefused
<1> QED
  BY <1>1, LoginFollows, ListFollows, PushFollows, PageFollows DEF Receive

-----------------------------------------------------------------------------
(* The user's steps, and all of them *)

LEMMA OpenFollows ==
  ASSUME Sound, Typed', Open PROVE Follows'
<1> DEFINE F == ToSet(file)
           f == Newest(file)
<1>1. /\ opened' = TRUE /\ view' = file /\ signedIn /\ listed
      /\ localLast' = IF file = <<>> THEN localLast ELSE f
      /\ UNCHANGED <<rows, unpushed, listing, up, auth, answer, lines, listed, file, convLast>>
  BY DEF Open, serverVars
<1>2. Numbers /\ Numbers'
  BY NumbersOf DEF Sound
<1>3. WithinRows /\ FileUnbroken /\ UnknownComes /\ ListTrue /\ PageToEnd /\ PageBehindPage
  BY DEF Sound, Follows
<1>4. /\ Newer(f, F) /\ F \subseteq 1..rows /\ (file = <<>> <=> F = {}) /\ Interval(F)
  BY CacheSets
<1>5. \/ requests' = requests /\ file # <<>> /\ convLast <= f
      \/ \E q \in Requests :
            /\ q.kind = "history" /\ ToSet(requests') = IF up THEN ToSet(requests) \cup {q} ELSE ToSet(requests)
            /\ q.after = 0 \/ (q.after = f /\ convLast > f)
  BY OpenSets DEF Sound
<1> HIDE DEF F, f
<1>6. rows \in Nat /\ convLast \in Nat /\ localLast \in Nat /\ f \in Nat /\ convLast <= rows /\ localLast <= rows
      /\ (F # {} => f \in F) /\ f <= rows
  <2>1. f \in Nat /\ (F # {} => f \in F) /\ (F = {} => f = 0)
    BY <1>4 DEF Newer
  <2>2. rows \in Nat /\ convLast \in Nat /\ localLast \in Nat /\ convLast <= rows /\ localLast <= rows
    BY <1>2, <1>3 DEF Numbers, WithinRows
  <2> QED
    BY <1>4, <2>1, <2>2
<1>7. Pages' = Pages /\ Lists' = Lists /\ Way' = Way
  BY <1>1 DEF Pages, Lists, Way
<1>8. \A q \in Histories' : q \in Histories \/ q.after = 0 \/ q.after < rows
  <2>1. CASE requests' = requests
    BY <2>1 DEF Histories
  <2>2. CASE \E q \in Requests : /\ ToSet(requests') = IF up THEN ToSet(requests) \cup {q} ELSE ToSet(requests)
                                 /\ q.after = 0 \/ (q.after = f /\ convLast > f)
    BY <1>6, <2>2 DEF Histories, Of
  <2> QED
    BY <1>5, <2>1, <2>2
<1>9. WithinRows'
  <2>1. rows \in Nat /\ rows' \in Nat /\ rows <= rows' /\ unpushed' \subseteq 1..rows'
    BY <1>1, <1>3, <1>6 DEF WithinRows
  <2>2. /\ ToSet(file') \subseteq 1..rows' /\ ToSet(view') \subseteq 1..rows'
        /\ convLast' <= rows' /\ localLast' <= rows'
    BY <1>1, <1>4, <1>6 DEF F
  <2>3. /\ \A x \in Lists' : x.last \in Nat /\ x \in Lists
        /\ \A q \in Histories' : q.after \in Nat /\ (q \in Histories \/ q.after = 0 \/ q.after < rows')
    BY <1>1, <1>2, <1>7, <1>8 DEF Numbers
  <2> QED
    BY <1>1, <1>3, <1>7, <2>1, <2>2, <2>3, KeepsWithinRows
<1>10. FileUnbroken' /\ UnknownComes' /\ ListTrue' /\ PageBehindPage' /\ PageToEnd'
  BY <1>1, <1>3, <1>7 DEF FileUnbroken, UnknownComes, ListTrue, PageBehindPage, PageToEnd
<1>11. ASSUME Shown', ~Pending' PROVE requests' = requests /\ file # <<>> /\ convLast <= f
  <2>1. up
    BY <1>1, <1>11, LinkedSets DEF Sound, Shown
  <2>2. \A q \in ToSet(requests') : q.kind # "history"
    BY <1>11 DEF Pending, Histories, Of
  <2> QED
    BY <1>5, <2>1, <2>2
<1>12. \A e \in F : e..f \subseteq F
  BY <1>4, <1>6 DEF Interval
<1>13. ToCache'
  BY <1>1, <1>12 DEF ToCache, Reach, F, f
<1>14. WithoutCache'
  BY <1>1, <1>11 DEF WithoutCache
<1>15. ToEnd'
  <2> SUFFICES ASSUME Shown', ~Pending'
               PROVE  (rows > 0 => rows \in Reach') /\ \A e \in F : e..rows \subseteq Reach'
    BY <1>1, <1>11 DEF ToEnd, F
  <2>1. \A r \in 1..rows : r <= convLast \/ r \in Way
    BY <1>1, <1>3 DEF UnknownComes, Shown
  <2>2. F # {} /\ convLast <= f
    BY <1>4, <1>11
  <2> DEFINE W == Way
  <2>3. \A r \in 1..rows : r <= convLast \/ r \in W
    BY <2>1
  <2> HIDE DEF W
  <2>4. (\A e \in F : e..rows \subseteq F \cup W) /\ (rows > 0 => rows \in F \cup W)
    BY <1>4, <1>6, <2>2, <2>3, JoinCache
  <2>5. Reach' = F \cup W
    BY <1>1, <1>7 DEF Reach, F, W
  <2> QED
    BY <2>4, <2>5
<1> QED
  BY <1>9, <1>10, <1>13, <1>14, <1>15 DEF Follows

LEMMA LeaveFollows ==
  ASSUME Sound, Typed', Leave PROVE Follows'
<1>1. /\ opened' = FALSE /\ view' = <<>>
      /\ UNCHANGED <<rows, unpushed, listing, auth, requests, answer, lines, convLast, localLast, listed, file>>
  BY DEF Leave, serverVars, linkVars
<1>2. Pages' = Pages /\ Lists' = Lists /\ Way' = Way /\ Histories' = Histories
  BY <1>1 DEF Pages, Lists, Way, Histories
<1>3. WithinRows /\ FileUnbroken /\ UnknownComes /\ ListTrue /\ PageToEnd /\ PageBehindPage
  BY DEF Sound, Follows
<1>4. WithinRows'
  BY <1>1, <1>2, <1>3, SetOfEmpty DEF WithinRows
<1>5. FileUnbroken' /\ UnknownComes' /\ ListTrue' /\ PageToEnd' /\ PageBehindPage'
  BY <1>1, <1>2, <1>3 DEF FileUnbroken, UnknownComes, ListTrue, PageToEnd, PageBehindPage
<1>6. ToCache' /\ WithoutCache' /\ ToEnd'
  BY <1>1 DEF Shown, ToCache, WithoutCache, ToEnd
<1> QED
  BY <1>4, <1>5, <1>6 DEF Follows

LEMMA SameFollows ==
  ASSUME Follows, UNCHANGED vars PROVE Follows'
<1>1. UNCHANGED <<rows, unpushed, listing, up, auth, requests, answer, lines, signedIn, known,
                  convLast, localLast, listed, opened, view, file>>
  BY DEF vars, serverVars, linkVars, memory
<1>2. /\ Pages' = Pages /\ Lists' = Lists /\ Way' = Way /\ Histories' = Histories /\ Reach' = Reach
      /\ (Pending' <=> Pending) /\ (Shown' <=> Shown)
  BY <1>1 DEF Pages, Lists, Way, Histories, Pending, Shown, Reach
<1>3. WithinRows' /\ FileUnbroken' /\ UnknownComes' /\ ListTrue' /\ PageToEnd' /\ PageBehindPage'
  BY <1>1, <1>2 DEF Follows, WithinRows, FileUnbroken, UnknownComes, ListTrue, PageToEnd, PageBehindPage
<1>4. ToCache' /\ WithoutCache' /\ ToEnd'
  BY <1>1, <1>2 DEF Follows, ToCache, WithoutCache, ToEnd
<1> QED
  BY <1>3, <1>4 DEF Follows

\* What has happened is not forgotten.
LEMMA BlindKept == [Next]_vars /\ blind' = {} => blind = {}
<1>1. CASE Store \/ Reply \/ ReadList \/ PushList \/ SignIn \/ Refuse \/ Leave
  BY <1>1 DEF Store, Reply, ReadList, PushList, SignIn, Refuse, Leave
<1>2. CASE Handle \/ Open \/ \E r \in Rows : Broadcast(r)
  BY <1>2 DEF Handle, Open, Broadcast
<1>3. CASE Cut \/ Restart \/ DieWriting \/ UNCHANGED vars
  BY <1>3 DEF Cut, Restart, DieWriting, vars
<1>4. CASE Receive
  BY <1>4 DEF Receive, OnLogin, OnList, OnPush, OnPage, OnRefused
<1>5. CASE \E r \in Rows : Withhold(r)
  BY <1>5 DEF Withhold
<1> QED
  BY <1>1, <1>2, <1>3, <1>4, <1>5 DEF Next

LEMMA StepFollows == Sound /\ [Next]_vars /\ blind' = {} => Follows'
<1> SUFFICES ASSUME Sound, [Next]_vars, blind' = {} PROVE Follows'
  OBVIOUS
<1>1. Typed'
  BY StepType DEF Sound
<1>2. CASE UNCHANGED vars
  BY <1>2, SameFollows DEF Sound
<1>3. ~\E r \in Rows : Withhold(r)
  BY DEF Withhold
<1> QED
  BY <1>1, <1>2, <1>3, StoreFollows, BroadcastFollows, HandleFollows, ReplyFollows, ReadListFollows,
     SignInFollows, EndFollows, ReceiveFollows, OpenFollows, LeaveFollows DEF Next

LEMMA InitFollows == Init => Follows
<1> SUFFICES ASSUME Init PROVE Follows
  OBVIOUS
<1>1. /\ rows = 0 /\ unpushed = {} /\ lines = <<>> /\ convLast = 0 /\ localLast = 0
      /\ auth = FALSE /\ listed = FALSE
  BY DEF Init
<1>2. /\ ToSet(lines) = {} /\ ToSet(answer) = {} /\ ToSet(listing) = {} /\ ToSet(requests) = {}
      /\ ToSet(file) = {} /\ ToSet(view) = {} /\ DOMAIN lines = {}
  BY SetOfEmpty DEF Init
<1>3. Pages = {} /\ Lists = {} /\ Histories = {}
  BY <1>2 DEF Pages, Lists, Histories, Of
<1>4. WithinRows
  BY <1>1, <1>2, <1>3 DEF WithinRows, Of
<1>5. FileUnbroken /\ UnknownComes /\ ListTrue /\ PageToEnd
  BY <1>1, <1>2, <1>3 DEF FileUnbroken, Interval, UnknownComes, ListTrue, PageToEnd
<1>6. PageBehindPage
  BY <1>2 DEF PageBehindPage
<1>7. ToCache /\ WithoutCache /\ ToEnd
  BY <1>1 DEF ToCache, WithoutCache, ToEnd, Shown
<1> QED
  BY <1>4, <1>5, <1>6, <1>7 DEF Follows

-----------------------------------------------------------------------------
(* Theorems *)

\* Every variable keeps its type: the seqs and stamps a client remembers, shows and
\* caches, and the lines and requests on their way (handleCommand, openConversation).
THEOREM TypeCorrect == Spec => []TypeOK
<1>1. Typed => TypeOK
  BY DEF Typed
<1> QED
  BY <1>1, InitType, StepType, PTL DEF Spec

\* What the cache file of the open conversation has, ChatArea shows: pushes and
\* pages are emitted and written in one step, and openConversation shows the file.
THEOREM CacheShown == Spec => []FileWithinView
<1>1. Init => FileWithinView
  BY DEF Init, FileWithinView
<1> QED
  BY <1>1, InitType, StepType, StepShows, PTL DEF Spec

\* The inductive invariant: while none of the Losses has happened, every message
\* the client is not going to be pushed is one it knows of, and from each message
\* it shows to the newest stored all are shown, on their way, or to come in a page.
THEOREM Followed == Spec => []IInv
<1>1. Init => IInv /\ Typed
  BY InitType, InitLinked, InitFollows DEF Init, FileWithinView, IInv, Typed
<1>2. IInv /\ Typed /\ [Next]_vars => (IInv /\ Typed)'
  <2> SUFFICES ASSUME IInv, Typed, [Next]_vars PROVE (IInv /\ Typed)'
    OBVIOUS
  <2>1. Typed' /\ FileWithinView' /\ Linked'
    BY StepType, StepShows, StepLinked DEF IInv
  <2>2. blind' = {} => Follows'
    BY BlindKept, StepFollows DEF IInv, Sound
  <2> QED
    BY <2>1, <2>2 DEF IInv, Typed
<1> QED
  BY <1>1, <1>2, PTL DEF Spec

\* Once nothing about the open conversation is on its way, what it shows runs up to
\* the newest message with none left out, unless one of the Losses has happened.
THEOREM NothingLeftOut == Spec => []NothingSkipped
<1>1. IInv => NothingSkipped
  <2> SUFFICES ASSUME IInv, Settled, blind = {} PROVE Whole
    BY DEF NothingSkipped
  <2>1. /\ up /\ opened /\ unpushed = {}
        /\ ToSet(requests) = {} /\ ToSet(answer) = {} /\ ToSet(lines) = {}
    BY SetOfEmpty DEF Settled
  <2>2. Shown
    BY <2>1 DEF IInv, Linked, Shown
  <2>3. ~Pending /\ Way = {} /\ Reach = ToSet(view)
    BY <2>1 DEF Pending, Pages, Histories, Of, Way, Reach
  <2> QED
    BY <2>2, <2>3 DEF IInv, Follows, ToEnd, Whole
<1> QED
  BY <1>1, Followed, PTL
=============================================================================
