------------------------- MODULE OrderThreadProofs -------------------------
(***************************************************************************)
(* The page of an order, for any sizes of its pages and of those a jump    *)
(* asks for, and any number of messages, edits, errors and visits: the     *)
(* history it shows has no hole, and a comment that is being written is    *)
(* not lost.  At the end, the card behind the page (OrderEdits), and the   *)
(* page of a chat (ChatThread) and the board of orders (OrderBoard), which *)
(* are proved with what is known here of lists and their order.            *)
(***************************************************************************)
EXTENDS MCPages, FiniteSetTheorems, SequenceTheorems, WellFoundedInduction, TLAPS

-----------------------------------------------------------------------------
(* The invariant. *)

\* What the server has answered to a request for the messages before an id, 0 for the
\* newest, when there were n: those from the cursor on, each of them.
IsPage(list, before, n) ==
    /\ list = [items |-> list.items, more |-> list.more, cursor |-> list.cursor]
    /\ list.more \in BOOLEAN /\ list.items \subseteq 1..n
    /\ before # 0 => \A id \in list.items : id < before
    /\ list.more => /\ list.cursor \in list.items
                    /\ \A id \in list.items : list.cursor <= id
    /\ \A id \in 1..n :
          /\ IF before = 0 THEN \E top \in list.items : id <= top ELSE id < before
          /\ list.more => list.cursor <= id
          => id \in list.items

Todos(kind) ==
    CASE kind = "load" -> {<<"order", "list">>, <<"list", "order">>, <<"order">>, <<"list">>, <<>>}
      [] kind \in {"older", "jump"} -> {<<"list">>, <<>>}
      [] kind = "send" -> {<<"upload", "post">>, <<"post">>, <<>>}
      [] kind \in {"save", "edit"} -> {<<"write", "order">>, <<"order">>, <<>>}
      [] kind \in {"poll", "meta"} -> {<<"order">>, <<>>}

IsRequest(c) ==
    /\ c = [kind |-> c.kind, todo |-> c.todo, order |-> c.order, list |-> c.list,
            field |-> c.field, value |-> c.value, prev |-> c.prev, live |-> c.live]
    /\ c.kind \in Kinds /\ c.live \in BOOLEAN
    /\ c.todo \in Todos(c.kind)

IsThread(p) ==
    /\ p = [open |-> p.open, loading |-> p.loading, error |-> p.error, order |-> p.order,
            draft |-> p.draft, saved |-> p.saved, messages |-> p.messages,
            cursor |-> p.cursor, more |-> p.more, newest |-> p.newest, older |-> p.older,
            poll |-> p.poll, saving |-> p.saving, form |-> p.form, sending |-> p.sending]
    /\ p.open \in BOOLEAN /\ p.loading \in BOOLEAN /\ p.error \in BOOLEAN
    /\ p.more \in BOOLEAN /\ p.older \in BOOLEAN /\ p.sending \in BOOLEAN

\* The messages of the page, oldest first: from the cursor to the newest that it was
\* loaded with, and what it has sent itself.
History(p, n) ==
    /\ p.messages \in Seq(1..n)
    /\ \A i, j \in DOMAIN p.messages : i < j => p.messages[i] < p.messages[j]
    /\ p.newest \in 0..n
    /\ p.newest # 0 => \E i \in DOMAIN p.messages : p.messages[i] = p.newest
    /\ p.more => /\ p.cursor \in 1..p.newest
                 /\ \A i \in DOMAIN p.messages : p.cursor <= p.messages[i]
    /\ \A id \in 1..p.newest :
          (p.more => p.cursor <= id) => \E i \in DOMAIN p.messages : p.messages[i] = id

\* A page that has not loaded, or could not, shows nothing and waits for nothing.
Idle(p) ==
    /\ p.messages = <<>> /\ p.newest = 0 /\ ~p.more /\ ~p.older /\ ~p.sending
    /\ "comment" \notin p.saving /\ p.draft = p.saved

Thread(p, n) ==
    /\ IsThread(p) /\ History(p, n)
    /\ ~p.open => p = Closed
    /\ p.loading \/ p.error => Idle(p)
    /\ ~(p.loading /\ p.error)

\* What a jump has collected goes from where it asks next up to the cursor.
Collected(c) == UNION Range(c.prev)

\* A request that the page waits for, and what it has locked.
Awaited(c, p, n) ==
    /\ p.open
    /\ c.kind = "load" =>
          /\ p.loading /\ c.value = 0
          /\ c.todo \in {<<"order">>, <<>>} => IsPage(c.list, 0, n)
    /\ c.kind \in {"older", "jump"} =>
          /\ p.older /\ p.more /\ c.value \in 1..p.cursor
          /\ c.todo = <<>> => IsPage(c.list, c.value, n)
    /\ c.kind = "older" => c.value = p.cursor
    /\ c.kind = "jump" =>
          /\ c.prev \in Seq(SUBSET Nat)
          /\ Collected(c) = {id \in 1..n : c.value <= id /\ id < p.cursor}
    /\ c.kind = "send" =>
          /\ p.sending
          /\ c.todo = <<>> => /\ c.value \in 1..n
                              /\ \A i \in DOMAIN p.messages : p.messages[i] < c.value
    /\ c.kind = "save" /\ c.field = "comment" =>
          /\ "comment" \in p.saving
          /\ p.draft # p.saved => c.value = p.draft

\* Two requests that hold the same lock.
Rivals(c, d) ==
    \/ c.kind = "load" /\ d.kind = "load"
    \/ c.kind \in {"older", "jump"} /\ d.kind \in {"older", "jump"}
    \/ c.kind = "send" /\ d.kind = "send"
    \/ c.kind = "save" /\ c.field = "comment" /\ d.kind = "save" /\ d.field = "comment"

Requests(S, p, n) ==
    /\ \A c \in S : IsRequest(c) /\ (c.live => Awaited(c, p, n))
    /\ \A c, d \in S : c.live /\ d.live /\ Rivals(c, d) => c = d

IInv == count \in Nat /\ Thread(page, count) /\ Requests(calls, page, count)

-----------------------------------------------------------------------------
(* Sets of message ids. *)

\* A set of natural numbers has a least one.
LEMMA LeastExists ==
    ASSUME NEW P \in SUBSET Nat, P # {}
    PROVE  \E n \in P : \A k \in P : n <= k
<1>1. PICK n \in P : \A k \in P : ~(<<k, n>> \in OpToRel(<, Nat))
  BY NatLessThanWellFounded, WFMin
<1>2. \A k \in P : <<k, n>> \in Nat \X Nat
  OBVIOUS
<1>3. \A k \in P : ~(k < n)
  BY <1>1, <1>2 DEF OpToRel
<1> QED
  BY <1>3

\* One that is bounded has a greatest one.
LEMMA GreatestExists ==
    ASSUME NEW n \in Nat, NEW P \in SUBSET (1..n), P # {}
    PROVE  \E g \in P : \A k \in P : k <= g
<1> DEFINE Gaps == {n - k : k \in P}
<1>1. Gaps \in SUBSET Nat /\ Gaps # {}
  <2>1. \A k \in P : n - k \in Nat
    OBVIOUS
  <2> QED
    BY <2>1, Zenon
<1>2. PICK m \in Gaps : \A k \in Gaps : m <= k
  <2> HIDE DEF Gaps
  <2> QED
    BY <1>1, LeastExists
<1>3. PICK g \in P : m = n - g
  BY <1>2
<1>4. \A k \in P : n - g <= n - k
  BY <1>2, <1>3
<1> QED
  BY <1>4

LEMMA MinMax ==
    ASSUME NEW n \in Nat, NEW P \in SUBSET (1..n), P # {}
    PROVE  /\ Min(P) \in P /\ \A k \in P : Min(P) <= k
           /\ Max(P) \in P /\ \A k \in P : k <= Max(P)
<1>1. \E g \in P : \A k \in P : g >= k
  BY GreatestExists
<1>2. \E g \in P : \A k \in P : g <= k
  BY LeastExists
<1>3. Min(P) \in P /\ \A k \in P : Min(P) <= k
  BY <1>2 DEF Min
<1>4. Max(P) \in P /\ \A k \in P : Max(P) >= k
  BY <1>1 DEF Max
<1> QED
  BY <1>3, <1>4

\* A bounded set is finite, and so are its parts.
LEMMA BoundedIsFinite ==
    ASSUME NEW n \in Nat, NEW P \in SUBSET (1..n)
    PROVE  /\ IsFiniteSet(P) /\ Cardinality(P) \in Nat
           /\ \A Q \in SUBSET P : /\ IsFiniteSet(Q) /\ Cardinality(Q) \in Nat
                                  /\ Cardinality(Q) <= Cardinality(P)
                                  /\ Cardinality(Q) = Cardinality(P) => Q = P
<1>1. IsFiniteSet(P)
  <2>1. IsFiniteSet(1..n)
    BY FS_Interval
  <2> QED
    BY <2>1, FS_Subset
<1>2. Cardinality(P) \in Nat
  BY <1>1, FS_CardinalityType
<1>3. ASSUME NEW Q \in SUBSET P
      PROVE  /\ IsFiniteSet(Q) /\ Cardinality(Q) \in Nat
             /\ Cardinality(Q) <= Cardinality(P)
             /\ Cardinality(Q) = Cardinality(P) => Q = P
  <2>1. /\ IsFiniteSet(Q) /\ Cardinality(Q) <= Cardinality(P)
        /\ Cardinality(P) = Cardinality(Q) => P = Q
    BY <1>1, FS_Subset
  <2>2. Cardinality(Q) \in Nat
    BY <2>1, FS_CardinalityType
  <2> QED
    BY <2>1, <2>2
<1> QED
  BY <1>1, <1>2, <1>3

\* Ascending lists each id of a set once, in its order: the ranks of its ids are all
\* different and less than their number, so each of these numbers is a rank.
LEMMA FiniteAscends ==
    ASSUME NEW ids \in SUBSET Nat, IsFiniteSet(ids)
    PROVE  /\ Ascending(ids) \in Seq(ids)
           /\ \A id \in ids : \E i \in DOMAIN Ascending(ids) : Ascending(ids)[i] = id
           /\ \A i, j \in DOMAIN Ascending(ids) : i < j => Ascending(ids)[i] < Ascending(ids)[j]
<1> DEFINE Below(id) == {k \in ids : k < id}
           rank == [id \in ids |-> Cardinality(Below(id))]
           N == Cardinality(ids)
<1>0. ids \subseteq Nat
  OBVIOUS
<1>1. IsFiniteSet(ids) /\ N \in Nat
  BY FS_CardinalityType
<1>2. ASSUME NEW id \in ids
      PROVE  IsFiniteSet(Below(id)) /\ Cardinality(Below(id)) \in Nat /\ Cardinality(Below(id)) < N
  <2>1. Below(id) \in SUBSET ids /\ Below(id) # ids
    OBVIOUS
  <2>2. /\ IsFiniteSet(Below(id)) /\ Cardinality(Below(id)) \in Nat
        /\ Cardinality(Below(id)) <= N /\ Cardinality(Below(id)) # N
    <3> HIDE DEF Below
    <3> QED
      BY <1>1, <2>1, FS_Subset, FS_CardinalityType
  <2> QED
    BY <1>1, <2>2
<1>3. ASSUME NEW a \in ids, NEW b \in ids, a < b
      PROVE  Cardinality(Below(a)) < Cardinality(Below(b))
  <2>1. Below(a) \in SUBSET Below(b) /\ a \in Below(b) /\ a \notin Below(a)
    <3>1. a \in Nat /\ b \in Nat /\ \A k \in ids : k \in Nat
      BY <1>0
    <3>2. \A k \in ids : k < a => k < b
      BY <1>3, <3>1
    <3>3. ~(a < a)
      BY <3>1
    <3> QED
      BY <1>3, <3>2, <3>3
  <2>2. IsFiniteSet(Below(b)) /\ Cardinality(Below(b)) \in Nat /\ Cardinality(Below(a)) \in Nat
    BY <1>2
  <2> HIDE DEF Below
  <2>3. Cardinality(Below(a)) <= Cardinality(Below(b)) /\ Cardinality(Below(a)) # Cardinality(Below(b))
    BY <2>1, <2>2, FS_Subset
  <2> QED
    BY <2>2, <2>3
<1>4. rank \in [ids -> 0..(N - 1)]
  BY <1>1, <1>2
<1>5. \A a, b \in ids : rank[a] = rank[b] => a = b
  <2>1. SUFFICES ASSUME NEW a \in ids, NEW b \in ids, a # b PROVE rank[a] # rank[b]
    BY Zenon
  <2>2. a \in Nat /\ b \in Nat
    OBVIOUS
  <2>3. CASE a < b
    BY <1>2, <1>3, <2>3
  <2>4. CASE b < a
    BY <1>2, <1>3, <2>4
  <2> QED
    BY <2>1, <2>2, <2>3, <2>4
<1>6. \A i \in 1..N : \E id \in ids : Cardinality(Below(id)) = i - 1
  <2>1. rank \in Injection(ids, 0..(N - 1))
    BY <1>4, <1>5 DEF Injection, IsInjective
  <2>2. IsFiniteSet(0..(N - 1)) /\ Cardinality(0..(N - 1)) = N
    <3> HIDE DEF N
    <3> QED
      BY <1>1, FS_Interval
  <2>3. rank \in Surjection(ids, 0..(N - 1))
    <3> HIDE DEF rank
    <3> QED
      BY <2>1, <2>2, FS_Injection
  <2>4. \A i \in 0..(N - 1) : \E id \in ids : rank[id] = i
    BY <2>3 DEF Surjection
  <2> QED
    BY <1>1, <2>4
<1>7. \A i \in 1..N : Ascending(ids)[i] \in ids /\ Cardinality(Below(Ascending(ids)[i])) = i - 1
  BY <1>6 DEF Ascending
<1>8. DOMAIN Ascending(ids) = 1..N
  BY DEF Ascending
<1>9. Ascending(ids) \in [1..N -> ids]
  BY <1>7 DEF Ascending
<1>10. \A id \in ids : \E i \in 1..N : Ascending(ids)[i] = id
  <2> TAKE id \in ids
  <2> DEFINE i == Cardinality(Below(id)) + 1
  <2>1. i \in 1..N
    BY <1>1, <1>2
  <2>2. Ascending(ids)[i] \in ids /\ rank[Ascending(ids)[i]] = rank[id]
    BY <1>2, <1>7, <2>1
  <2> QED
    BY <1>5, <2>1, <2>2
<1>11. ASSUME NEW i \in 1..N, NEW j \in 1..N, i < j
       PROVE  Ascending(ids)[i] < Ascending(ids)[j]
  <2> DEFINE a == Ascending(ids)[i]  b == Ascending(ids)[j]
  <2>1. a \in ids /\ b \in ids /\ Cardinality(Below(a)) = i - 1 /\ Cardinality(Below(b)) = j - 1
    BY <1>7
  <2>2. a # b
    BY <1>1, <1>11, <2>1
  <2>3. ~(b < a)
    <3> SUFFICES ASSUME b < a PROVE FALSE
      OBVIOUS
    <3>1. Cardinality(Below(b)) < Cardinality(Below(a))
      BY <1>3, <2>1
    <3> QED
      BY <1>1, <1>11, <2>1, <3>1
  <2>4. a \in Nat /\ b \in Nat
    BY <1>0, <2>1
  <2>5. a < b
    <3> HIDE DEF a, b
    <3> QED
      BY <2>2, <2>3, <2>4
  <2> QED
    BY <2>5
<1> QED
  <2> HIDE DEF Below, rank
  <2>1. Ascending(ids) \in Seq(ids)
    <3> HIDE DEF N
    <3> QED
      BY <1>1, <1>9
  <2> QED
    BY <1>8, <1>10, <1>11, <2>1

\* In particular the ids of a part of the messages.
LEMMA AscendingSorts ==
    ASSUME NEW n \in Nat, NEW ids \in SUBSET (1..n)
    PROVE  /\ Ascending(ids) \in Seq(ids)
           /\ \A id \in ids : \E i \in DOMAIN Ascending(ids) : Ascending(ids)[i] = id
           /\ \A i, j \in DOMAIN Ascending(ids) : i < j => Ascending(ids)[i] < Ascending(ids)[j]
<1>1. IsFiniteSet(ids)
  BY BoundedIsFinite
<1>2. ids \in SUBSET Nat
  OBVIOUS
<1> QED
  BY <1>1, <1>2, FiniteAscends

\* A part of a list has the elements at its places, and only them, in their order.
IsList(s) == s \in Seq(Range(s))

LEMMA SublistPicks ==
    ASSUME NEW s, IsList(s), NEW P \in SUBSET DOMAIN s
    PROVE  LET at == Ascending(P)  t == Sublist(s, P)
           IN /\ IsList(t) /\ DOMAIN t = DOMAIN at /\ at \in Seq(P)
              /\ \A i \in DOMAIN t : at[i] \in P /\ t[i] = s[at[i]]
              /\ \A k \in P : \E i \in DOMAIN t : at[i] = k
              /\ \A i, j \in DOMAIN t : i < j => at[i] < at[j]
<1> DEFINE at == Ascending(P)  t == Sublist(s, P)
<1>1. Len(s) \in Nat /\ P \in SUBSET (1..Len(s))
  BY DEF IsList
<1>2. /\ at \in Seq(P)
      /\ \A k \in P : \E i \in DOMAIN at : at[i] = k
      /\ \A i, j \in DOMAIN at : i < j => at[i] < at[j]
  BY <1>1, AscendingSorts
<1>3. t = [i \in DOMAIN at |-> s[at[i]]]
  BY DEF Sublist
<1> HIDE DEF at, t
<1>4. Len(at) \in Nat /\ DOMAIN at = 1..Len(at) /\ \A i \in DOMAIN at : at[i] \in P
  BY <1>2
<1>5. t \in [1..Len(at) -> Range(t)]
  BY <1>3, <1>4 DEF Range
<1>6. IsList(t)
  BY <1>4, <1>5 DEF IsList
<1>7. DOMAIN t = DOMAIN at /\ \A i \in DOMAIN t : at[i] \in P /\ t[i] = s[at[i]]
  BY <1>3, <1>4
<1> QED
  BY <1>2, <1>6, <1>7 DEF at, t

-----------------------------------------------------------------------------
(* Pages of messages. *)

\* The newest rows before an id, as many as a page holds, are a page of n messages.
Rows(n, before) == {i \in 1..n : before # 0 => i < before}
Newest(rows, limit) == {i \in rows : Cardinality({j \in rows : j >= i}) <= limit}

LEMMA NewestArePage ==
    ASSUME NEW n \in Nat, NEW limit \in Nat \ {0}, NEW before \in Nat
    PROVE  LET rows == Rows(n, before)
               slice == Newest(rows, limit)
               more == Cardinality(rows) > limit
           IN /\ IsPage([items |-> slice, more |-> more, cursor |-> IF more THEN Min(slice) ELSE 0],
                        before, n)
              /\ slice \subseteq 1..n
<1> DEFINE rows == Rows(n, before)
           above(i) == {j \in rows : j >= i}
           slice == {i \in rows : Cardinality(above(i)) <= limit}
           more == Cardinality(rows) > limit
           list == [items |-> slice, more |-> more, cursor |-> IF more THEN Min(slice) ELSE 0]
<1>0. rows = {i \in 1..n : before # 0 => i < before} /\ Newest(rows, limit) = slice
  BY DEF Rows, Newest
<1>1. list = [items |-> slice, more |-> more, cursor |-> IF more THEN Min(slice) ELSE 0]
  OBVIOUS
<1>2. rows \in SUBSET (1..n)
  BY <1>0
<1>3. \A i \in rows : above(i) \in SUBSET rows
  OBVIOUS
<1> HIDE DEF rows
<1>4. \A i \in rows : Cardinality(above(i)) \in Nat /\ Cardinality(above(i)) <= Cardinality(rows)
  BY <1>2, <1>3, BoundedIsFinite
<1>5. Cardinality(rows) \in Nat
  BY <1>2, BoundedIsFinite
\* Above a row of the slice all are in it.
<1>6. ASSUME NEW i \in slice, NEW k \in rows, i <= k
      PROVE  k \in slice
  <2>1. above(k) \in SUBSET above(i) /\ i \in rows
    <3>1. rows \subseteq Nat /\ i \in rows
      BY <1>2
    <3>2. ASSUME NEW j \in rows, j >= k PROVE j >= i
      BY <1>6, <3>1, <3>2
    <3> QED
      BY <3>1, <3>2
  <2>2. Cardinality(above(k)) <= Cardinality(above(i)) /\ Cardinality(above(i)) <= limit
    <3>1. above(i) \in SUBSET (1..n)
      BY <1>2
    <3>2. Cardinality(above(i)) <= limit
      BY <1>6
    <3> QED
      BY <2>1, <3>1, <3>2, BoundedIsFinite
  <2> QED
    BY <1>4, <2>1, <2>2
<1>7. more => slice # {}
  <2> SUFFICES ASSUME more PROVE \E g \in rows : g \in slice
    OBVIOUS
  <2>1. rows # {}
    <3>1. Cardinality({}) = 0
      BY FS_EmptySet
    <3> QED
      BY <1>5, <3>1
  <2>2. PICK g \in rows : \A k \in rows : k <= g
    BY <1>2, <2>1, GreatestExists
  <2>3. above(g) = {g}
    <3>1. rows \subseteq Nat
      BY <1>2
    <3>2. \A j \in rows : j >= g => j = g
      BY <2>2, <3>1
    <3>3. g >= g
      BY <3>1
    <3> QED
      BY <3>2, <3>3
  <2>4. Cardinality(above(g)) = 1
    BY <2>3, FS_Singleton
  <2> QED
    BY <2>4
<1>8. ~more => slice = rows
  BY <1>4, <1>5
<1>9. slice \in SUBSET (1..n)
  BY <1>2
<1>10. more => Min(slice) \in slice /\ \A k \in slice : Min(slice) <= k
  <2> HIDE DEF slice, more
  <2> QED
    BY <1>7, <1>9, MinMax
<1>11. list.items = slice /\ list.more = more /\ (more => list.cursor = Min(slice))
  BY <1>1
<1>12. before # 0 => \A id \in slice : id < before
  BY <1>0
<1>13. ASSUME NEW id \in 1..n, IF before = 0 THEN \E top \in slice : id <= top ELSE id < before,
              more => Min(slice) <= id
       PROVE  id \in slice
  <2>1. id \in rows
    BY <1>0, <1>13
  <2>2. CASE more
    BY <1>6, <1>10, <1>13, <2>1, <2>2
  <2>3. CASE ~more
    BY <1>8, <2>1, <2>3
  <2> QED
    BY <2>2, <2>3
<1>14. more \in BOOLEAN
  OBVIOUS
<1>15. list = [items |-> list.items, more |-> list.more, cursor |-> list.cursor]
  BY <1>1
<1> HIDE DEF slice, more, list
<1>16. IsPage(list, before, n)
  BY <1>9, <1>10, <1>11, <1>12, <1>13, <1>14, <1>15 DEF IsPage
<1> QED
  BY <1>0, <1>9, <1>16 DEF list, slice, more, rows

\* MessagesService.list answers a page.
LEMMA ListIsPage ==
    ASSUME count \in Nat, NEW limit \in Nat \ {0}, NEW before \in Nat
    PROVE  IsPage(ListPage(limit, before), before, count)
<1> DEFINE rows == Rows(count, before)  slice == Newest(rows, limit)
           more == Cardinality(rows) > limit
           list == [items |-> slice, more |-> more, cursor |-> IF more THEN Min(slice) ELSE 0]
<1>1. ListPage(limit, before) = list
  BY DEF ListPage, Rows, Newest
<1>2. IsPage(list, before, count)
  BY NewestArePage
<1> QED
  BY <1>1, <1>2

\* More messages change nothing in what has been answered.
LEMMA PageStays ==
    ASSUME NEW n \in Nat, NEW m \in Nat, n <= m, NEW list, NEW before \in 0..(n + 1),
           IsPage(list, before, n)
    PROVE  IsPage(list, before, m)
<1>1. ASSUME NEW id \in 1..m,
             IF before = 0 THEN \E top \in list.items : id <= top ELSE id < before
      PROVE  id \in 1..n
  <2>1. list.items \subseteq 1..n
    BY DEF IsPage
  <2> QED
    BY <1>1, <2>1
<1>2. 1..n \subseteq 1..m
  OBVIOUS
<1> QED
  BY <1>1, <1>2 DEF IsPage

Climbs(s) == \A i, j \in DOMAIN s : i < j => s[i] < s[j]

\* One history goes up to c, the other begins there.
Apart(F, M, c) == (\A i \in DOMAIN F : F[i] < c) /\ (\A i \in DOMAIN M : c <= M[i])

\* J has what F has and what M has, in order.
Joins(J, F, M, n) ==
    /\ J \in Seq(1..n) /\ Climbs(J)
    /\ \A i \in DOMAIN F : \E k \in DOMAIN J : J[k] = F[i]
    /\ \A i \in DOMAIN M : \E k \in DOMAIN J : J[k] = M[i]
    /\ \A k \in DOMAIN J : (\E i \in DOMAIN F : J[k] = F[i]) \/ (\E i \in DOMAIN M : J[k] = M[i])

\* Two histories, one older than the other.
LEMMA Joined ==
    ASSUME NEW n \in Nat, NEW F \in Seq(1..n), NEW M \in Seq(1..n), NEW c \in Nat,
           Climbs(F), Climbs(M), Apart(F, M, c)
    PROVE  Joins(F \o M, F, M, n)
<1> USE DEF Climbs, Apart
<1> DEFINE K == Len(F)  L == Len(M)  J == F \o M
<1>1. /\ K \in Nat /\ L \in Nat /\ DOMAIN F = 1..K /\ DOMAIN M = 1..L /\ DOMAIN J = 1..(K + L)
      /\ J \in Seq(1..n)
  OBVIOUS
<1>2. \A i \in 1..K : J[i] = F[i] /\ i \in 1..(K + L)
  BY <1>1
<1>3. \A i \in 1..L : J[K + i] = M[i] /\ K + i \in 1..(K + L)
  BY <1>1
<1>4. \A k \in 1..(K + L) : k > K => J[k] = M[k - K] /\ k - K \in 1..L
  BY <1>1
<1>5. \A k \in 1..(K + L) : k <= K => k \in 1..K
  BY <1>1
<1>6. /\ \A i \in 1..K : F[i] \in Nat
      /\ \A i \in 1..L : M[i] \in Nat
  BY <1>1
<1> HIDE DEF K, L, J
<1>7. ASSUME NEW i \in 1..(K + L), NEW j \in 1..(K + L), i < j
      PROVE  J[i] < J[j]
  <2>1. CASE j <= K
    <3>1. i <= K
      BY <1>1, <1>7, <2>1
    <3> QED
      BY <1>1, <1>2, <1>5, <1>7, <2>1, <3>1
  <2>2. CASE i <= K /\ j > K
    <3>1. J[i] = F[i] /\ i \in 1..K
      BY <1>2, <1>5, <2>2
    <3>2. J[j] = M[j - K] /\ j - K \in 1..L
      BY <1>4, <2>2
    <3>3. F[i] < c /\ c <= M[j - K] /\ F[i] \in Nat /\ M[j - K] \in Nat
      BY <1>1, <1>6, <3>1, <3>2
    <3> QED
      BY <3>1, <3>2, <3>3, SMTT(40)
  <2>3. CASE i > K
    <3>1. j > K
      BY <1>1, <1>7, <2>3
    <3>2. i - K \in 1..L /\ j - K \in 1..L /\ J[i] = M[i - K] /\ J[j] = M[j - K]
      BY <1>4, <2>3, <3>1
    <3>3. i - K < j - K
      BY <1>1, <1>7
    <3> QED
      BY <1>1, <3>2, <3>3
  <2> QED
    BY <1>1, <2>1, <2>2, <2>3
<1>8. \A k \in 1..(K + L) : \/ \E i \in 1..K : J[k] = F[i]
                            \/ \E i \in 1..L : J[k] = M[i]
  <2> TAKE k \in 1..(K + L)
  <2>1. CASE k <= K
    BY <1>2, <1>5, <2>1
  <2>2. CASE k > K
    BY <1>4, <2>2
  <2> QED
    BY <1>1, <2>1, <2>2
<1> QED
  BY <1>1, <1>2, <1>3, <1>7, <1>8 DEF J, Joins

\* A message that is on the page.
Holds(messages, id) == \E i \in DOMAIN messages : messages[i] = id

\* Older messages go in front of those that the page has.
LEMMA OlderComesFirst ==
    ASSUME NEW n \in Nat, NEW M \in Seq(1..n), NEW cursor \in 1..n,
           \A i, j \in DOMAIN M : i < j => M[i] < M[j],
           \A i \in DOMAIN M : cursor <= M[i],
           NEW ids \in SUBSET (1..n), \A id \in ids : id < cursor
    PROVE  /\ Prepend(M, ids) \in Seq(1..n)
           /\ \A i, j \in DOMAIN Prepend(M, ids) :
                 i < j => Prepend(M, ids)[i] < Prepend(M, ids)[j]
           /\ \A id \in ids : Holds(Prepend(M, ids), id)
           /\ \A i \in DOMAIN M : Holds(Prepend(M, ids), M[i])
           /\ \A i \in DOMAIN Prepend(M, ids) :
                 Prepend(M, ids)[i] \in ids \/ Holds(M, Prepend(M, ids)[i])
<1> DEFINE F == Ascending(ids)
<1>1. ids \ Range(M) = ids
  <2> SUFFICES ASSUME NEW id \in ids, id \in Range(M) PROVE FALSE
    OBVIOUS
  <2>1. PICK i \in DOMAIN M : id = M[i]
    BY DEF Range
  <2>2. cursor <= id /\ id < cursor /\ id \in Nat
    BY <2>1
  <2> QED
    BY <2>2
<1>2. Prepend(M, ids) = F \o M
  BY <1>1 DEF Prepend
<1>3. /\ F \in Seq(ids)
      /\ \A id \in ids : \E i \in DOMAIN F : F[i] = id
      /\ \A i, j \in DOMAIN F : i < j => F[i] < F[j]
  BY AscendingSorts
<1> HIDE DEF F
<1>4. F \in Seq(1..n) /\ \A i \in DOMAIN F : F[i] \in ids
  <2>1. \A i \in DOMAIN F : F[i] \in ids
    BY <1>3
  <2> QED
    BY <1>3, <2>1, SeqMonotonic
<1>5. cursor \in Nat /\ \A i \in DOMAIN F : F[i] < cursor
  BY <1>4
<1>6. /\ F \o M \in Seq(1..n)
      /\ \A i, j \in DOMAIN (F \o M) : i < j => (F \o M)[i] < (F \o M)[j]
      /\ \A i \in DOMAIN F : Holds(F \o M, F[i])
      /\ \A i \in DOMAIN M : Holds(F \o M, M[i])
      /\ \A k \in DOMAIN (F \o M) : \/ \E i \in DOMAIN F : (F \o M)[k] = F[i]
                                    \/ Holds(M, (F \o M)[k])
  <2>1. Climbs(F) /\ Climbs(M) /\ Apart(F, M, cursor)
    BY <1>3, <1>5 DEF Climbs, Apart
  <2>2. Joins(F \o M, F, M, n)
    BY <1>4, <1>5, <2>1, Joined
  <2> QED
    BY <2>2, Zenon DEF Joins, Climbs, Holds
<1>7. \A id \in ids : Holds(F \o M, id)
  BY <1>3, <1>6
<1>8. \A k \in DOMAIN (F \o M) : (F \o M)[k] \in ids \/ Holds(M, (F \o M)[k])
  BY <1>4, <1>6
<1> QED
  BY <1>2, <1>6, <1>7, <1>8

LEMMA OlderKeepsHistory ==
    ASSUME NEW n \in Nat, NEW p, Thread(p, n), p.open, p.more, NEW list, IsPage(list, p.cursor, n)
    PROVE  LET q == OlderLoaded(p, list)
           IN  /\ Thread(q, n)
               /\ \A i \in DOMAIN q.messages : \E j \in DOMAIN p.messages : q.messages[i] <= p.messages[j]
<1> DEFINE q == OlderLoaded(p, list)
           M == p.messages
           Q == q.messages
<1>1. /\ IsThread(p) /\ M \in Seq(1..n) /\ p.newest \in 0..n /\ p.cursor \in 1..p.newest
      /\ \A i \in DOMAIN M : p.cursor <= M[i]
      /\ \A i, j \in DOMAIN M : i < j => M[i] < M[j]
      /\ Holds(M, p.newest)
      /\ \A id \in 1..p.newest : p.cursor <= id => Holds(M, id)
      /\ ~p.loading /\ ~p.error
  BY SMTT(30) DEF Thread, History, Idle, Holds
<1>2. /\ Q = Prepend(M, list.items) /\ q.newest = p.newest /\ q.open /\ ~q.older
      /\ q.cursor = list.cursor /\ q.more = list.more /\ ~q.loading /\ ~q.error
      /\ IsThread(q)
  <2>1. q = [p EXCEPT !.older = FALSE, !.messages = Prepend(M, list.items),
                      !.cursor = list.cursor, !.more = list.more]
    BY DEF OlderLoaded
  <2> QED
    BY <1>1, <2>1 DEF IsThread, IsPage
<1>3. /\ list.items \subseteq 1..n /\ \A id \in list.items : id < p.cursor
      /\ list.more => list.cursor \in list.items /\ \A id \in list.items : list.cursor <= id
      /\ \A id \in 1..n : id < p.cursor /\ (list.more => list.cursor <= id) => id \in list.items
  BY <1>1 DEF IsPage
<1>4. p.cursor \in 1..n /\ p.cursor \in Nat /\ p.newest \in Nat /\ p.cursor <= p.newest
  BY <1>1
<1> HIDE DEF q, M, Q
<1>5. /\ Q \in Seq(1..n) /\ \A i, j \in DOMAIN Q : i < j => Q[i] < Q[j]
      /\ \A id \in list.items : Holds(Q, id)
      /\ \A i \in DOMAIN M : Holds(Q, M[i])
      /\ \A i \in DOMAIN Q : Q[i] \in list.items \/ Holds(M, Q[i])
  BY <1>1, <1>2, <1>3, <1>4, OlderComesFirst
<1>6. \A id : Holds(M, id) => Holds(Q, id)
  BY <1>5 DEF Holds
<1>7. ASSUME NEW id \in 1..p.newest, list.more => list.cursor <= id
      PROVE  Holds(Q, id)
  <2>0. id \in 1..n /\ id \in Nat
    BY <1>1
  <2>1. CASE p.cursor <= id
    BY <1>1, <1>6, <2>1
  <2>2. CASE id < p.cursor
    BY <1>3, <1>5, <1>7, <2>0, <2>2
  <2> QED
    BY <1>4, <2>0, <2>1, <2>2
<1>8. ASSUME list.more
      PROVE  list.cursor \in 1..p.newest /\ \A i \in DOMAIN Q : list.cursor <= Q[i]
  <2>1. list.cursor \in Nat /\ list.cursor >= 1 /\ list.cursor < p.cursor
    BY <1>3, <1>8
  <2>2. ASSUME NEW i \in DOMAIN Q PROVE list.cursor <= Q[i]
    <3>1. CASE Q[i] \in list.items
      BY <1>3, <1>8, <3>1
    <3>2. CASE Holds(M, Q[i])
      <4>1. p.cursor <= Q[i] /\ Q[i] \in Nat
        BY <1>1, <1>5, <3>2, SMTT(40) DEF Holds
      <4> QED
        BY <1>4, <2>1, <4>1
    <3> QED
      BY <1>5, <3>1, <3>2
  <2> QED
    BY <1>4, <2>1, <2>2
<1>9. History(q, n)
  BY <1>1, <1>2, <1>5, <1>6, <1>7, <1>8, SMTT(30) DEF History, Holds, Q
<1>10. ASSUME NEW i \in DOMAIN Q
       PROVE  \E j \in DOMAIN M : Q[i] <= M[j]
  <2>1. Q[i] \in Nat
    BY <1>5
  <2>2. CASE Q[i] \in list.items
    <3>1. PICK j \in DOMAIN M : M[j] = p.newest
      BY <1>1 DEF Holds
    <3>2. Q[i] < p.cursor
      BY <1>3, <2>2
    <3> QED
      BY <1>4, <2>1, <3>1, <3>2
  <2>3. CASE Holds(M, Q[i])
    BY <2>1, <2>3 DEF Holds
  <2> QED
    BY <1>5, <2>2, <2>3
<1>11. Thread(q, n)
  BY <1>2, <1>9 DEF Thread
<1> QED
  BY <1>10, <1>11 DEF q, M, Q

-----------------------------------------------------------------------------
(* Requests. *)

\* A step that takes away requests, and leaves what the others rely on.
LEMMA CallsKept ==
    ASSUME NEW S, NEW T \in SUBSET S, NEW p, NEW q, NEW n, NEW m, Requests(S, p, n),
           \A c \in T : c.live /\ Awaited(c, p, n) => Awaited(c, q, m)
    PROVE  Requests(T, q, m)
BY DEF Requests

\* One that sends another.
LEMMA CallAdded ==
    ASSUME NEW S, NEW d, NEW p, NEW n, Requests(S, p, n), IsRequest(d),
           d.live => Awaited(d, p, n) /\ \A c \in S : c.live => ~Rivals(c, d)
    PROVE  Requests(S \cup {d}, p, n)
BY DEF Requests, Rivals

\* One in which a request goes on.
LEMMA CallGoesOn ==
    ASSUME NEW S, NEW c \in S, NEW d, NEW p, NEW n, Requests(S, p, n), IsRequest(d),
           d.live => Awaited(d, p, n),
           d.kind = c.kind, d.field = c.field, d.live = c.live
    PROVE  Requests((S \ {c}) \cup {d}, p, n)
<1>1. Requests(S \ {c}, p, n)
  BY CallsKept
<1>2. \A e \in S \ {c} : d.live /\ e.live => ~Rivals(e, d)
  BY DEF Requests, Rivals
<1> QED
  BY <1>1, <1>2, CallAdded

\* What a request relies on.
LEMMA AwaitedStays ==
    ASSUME NEW c, NEW p, NEW q, NEW n, Awaited(c, p, n),
           q.open = p.open, q.loading = p.loading, q.older = p.older, q.more = p.more,
           q.cursor = p.cursor, q.messages = p.messages, q.sending = p.sending,
           "comment" \in p.saving => "comment" \in q.saving,
           "comment" \in p.saving /\ q.draft # q.saved => p.draft # p.saved /\ q.draft = p.draft
    PROVE  Awaited(c, q, n)
BY DEF Awaited

\* More messages disturb no request and no history.
LEMMA AwaitedGrows ==
    ASSUME NEW n \in Nat, NEW m \in Nat, n <= m, NEW p, Thread(p, n), NEW c, Awaited(c, p, n)
    PROVE  Awaited(c, p, m)
<1>1. p.newest \in 0..n /\ (p.more => p.cursor \in 1..p.newest)
  BY DEF Thread, History
<1>2. c.kind = "load" => (c.todo \in {<<"order">>, <<>>} => IsPage(c.list, 0, m))
  <2>1. 0 \in 0..(n + 1)
    OBVIOUS
  <2> QED
    BY <2>1, PageStays DEF Awaited
<1>3. c.kind \in {"older", "jump"} => p.more /\ c.value \in 1..p.cursor /\ p.cursor \in 1..n
  BY <1>1 DEF Awaited
<1>4. c.kind \in {"older", "jump"} => (c.todo = <<>> => IsPage(c.list, c.value, m))
  <2>1. c.kind \in {"older", "jump"} => c.value \in 0..(n + 1)
    BY <1>3
  <2> QED
    BY <2>1, PageStays DEF Awaited
<1>5. c.kind = "jump" =>
         {id \in 1..n : c.value <= id /\ id < p.cursor} = {id \in 1..m : c.value <= id /\ id < p.cursor}
  BY <1>3
<1>6. 1..n \subseteq 1..m
  OBVIOUS
<1> QED
  BY <1>2, <1>4, <1>5, <1>6 DEF Awaited

LEMMA HistoryGrows ==
    ASSUME NEW n \in Nat, NEW m \in Nat, n <= m, NEW p, Thread(p, n)
    PROVE  Thread(p, m)
<1>1. 1..n \subseteq 1..m /\ 0..n \subseteq 0..m
  OBVIOUS
<1>2. p.messages \in Seq(1..m)
  BY <1>1, SeqMonotonic DEF Thread, History
<1> QED
  BY <1>1, <1>2 DEF Thread, History

LEMMA InitInv ==
    ASSUME Init
    PROVE  IInv
<1>1. count \in Nat /\ page = Closed /\ calls = {}
  BY LimitsAreNatural DEF Init
<1>2. Thread(Closed, count)
  BY <1>1 DEF Thread, IsThread, History, Idle, Closed
<1>3. Requests({}, Closed, count)
  BY DEF Requests
<1> QED
  BY <1>1, <1>2, <1>3 DEF IInv

-----------------------------------------------------------------------------
(* What the page does. *)

\* A change that touches no history and no lock, and a draft only while it is that of
\* the order.
Alike(p, q) ==
    /\ IsThread(q)
    /\ q.open = p.open /\ q.loading = p.loading /\ q.error = p.error
    /\ q.messages = p.messages /\ q.cursor = p.cursor /\ q.more = p.more
    /\ q.newest = p.newest /\ q.older = p.older /\ q.sending = p.sending
    /\ "comment" \in q.saving <=> "comment" \in p.saving
    /\ \/ q.draft = p.draft /\ q.saved = p.saved
       \/ p.draft = p.saved /\ q.draft = q.saved

LEMMA AlikeKeeps ==
    ASSUME NEW n, NEW p, NEW q, Thread(p, n), p.open, Alike(p, q)
    PROVE  Thread(q, n) /\ \A c : Awaited(c, p, n) => Awaited(c, q, n)
<1>1. Thread(q, n)
  BY DEF Thread, History, Idle, Alike
<1>2. ASSUME NEW c, Awaited(c, p, n) PROVE Awaited(c, q, n)
  <2>1. /\ q.open = p.open /\ q.loading = p.loading /\ q.older = p.older /\ q.more = p.more
        /\ q.cursor = p.cursor /\ q.messages = p.messages /\ q.sending = p.sending
        /\ "comment" \in p.saving => "comment" \in q.saving
        /\ "comment" \in p.saving /\ q.draft # q.saved => p.draft # p.saved /\ q.draft = p.draft
    BY DEF Alike
  <2> QED
    BY <1>2, <2>1, AwaitedStays
<1> QED
  BY <1>1, <1>2

\* A request as the page sends it.
LEMMA RequestIsOne ==
    ASSUME NEW kind \in Kinds, NEW todo \in Todos(kind)
    PROVE  /\ IsRequest(Request(kind, todo))
           /\ Request(kind, todo).kind = kind /\ Request(kind, todo).todo = todo
           /\ Request(kind, todo).live /\ Request(kind, todo).value = 0
BY DEF IsRequest, Request

LEMMA OpenInv ==
    ASSUME IInv, NEW todo \in {<<"order", "list">>, <<"list", "order">>}, Open(todo)
    PROVE  IInv'
<1> DEFINE d == Request("load", todo)
<1>0. PICK q : q = [Closed EXCEPT !.open = TRUE, !.loading = TRUE]
  OBVIOUS
<1>1. page' = q /\ calls' = calls \cup {d} /\ count' = count /\ ~page.open /\ count \in Nat
  BY <1>0 DEF Open, Send, IInv
<1>2. /\ IsThread(q) /\ q.open /\ q.loading /\ ~q.error /\ q.messages = <<>> /\ q.newest = 0
      /\ ~q.more /\ ~q.older /\ ~q.sending /\ q.saving = {} /\ q.draft = q.saved
  <2>1. IsThread(Closed) /\ Closed.messages = <<>> /\ Closed.newest = 0 /\ Closed.error = FALSE
        /\ Closed.more = FALSE /\ Closed.older = FALSE /\ Closed.sending = FALSE
        /\ Closed.saving = {} /\ Closed.draft = 0 /\ Closed.saved = 0
    BY DEF IsThread, Closed
  <2> QED
    BY <1>0, <2>1 DEF IsThread
<1>3. "load" \in Kinds /\ todo \in Todos("load")
  BY DEF Kinds, Todos
<1>4. IsRequest(d) /\ d.kind = "load" /\ d.todo = todo /\ d.live /\ d.value = 0
  BY <1>3, RequestIsOne
<1> HIDE DEF d
<1>5. Thread(q, count)
  BY <1>1, <1>2 DEF Thread, History, Idle
<1>6. Requests(calls, q, count)
  BY <1>1 DEF IInv, Requests, Awaited
<1>7. Awaited(d, q, count)
  <2>1. todo # <<"order">> /\ todo # <<>>
    OBVIOUS
  <2> QED
    BY <1>2, <1>4, <2>1 DEF Awaited
<1>8. \A c \in calls : ~c.live
  BY <1>1 DEF IInv, Requests, Awaited
<1>9. Requests(calls \cup {d}, q, count)
  BY <1>4, <1>6, <1>7, <1>8, CallAdded
<1> QED
  BY <1>1, <1>5, <1>9 DEF IInv

LEMMA LeaveInv ==
    ASSUME IInv, Leave
    PROVE  IInv'
<1>1. page' = Closed /\ count' = count /\ count \in Nat
  BY DEF Leave, IInv
<1>2. Thread(Closed, count)
  BY <1>1 DEF Thread, IsThread, History, Idle, Closed
<1>3. ASSUME NEW d \in calls'
      PROVE  IsRequest(d) /\ ~d.live
  <2>1. PICK c \in calls : d = [c EXCEPT !.live = FALSE]
    BY DEF Leave
  <2>2. IsRequest(c)
    BY DEF IInv, Requests
  <2> QED
    BY <2>1, <2>2 DEF IsRequest
<1>4. Requests(calls', Closed, count)
  BY <1>3 DEF Requests
<1> QED
  BY <1>1, <1>2, <1>4 DEF IInv

\* A change of the page's own, with a request that locks nothing or without one.
LEMMA QuietInv ==
    ASSUME IInv, page.open, Alike(page, page'), count' = count,
           \/ calls' = calls
           \/ \E d : /\ calls' = calls \cup {d} /\ IsRequest(d)
                     /\ \/ d.kind \in {"poll", "meta", "edit"}
                        \/ d.kind = "save" /\ d.field # "comment"
    PROVE  IInv'
<1>1. Thread(page', count) /\ \A c : Awaited(c, page, count) => Awaited(c, page', count)
  BY AlikeKeeps DEF IInv
<1>2. Requests(calls, page', count)
  BY <1>1, CallsKept DEF IInv
<1>3. ASSUME NEW d, IsRequest(d),
             \/ d.kind \in {"poll", "meta", "edit"}
             \/ d.kind = "save" /\ d.field # "comment"
      PROVE  Requests(calls \cup {d}, page', count)
  <2>1. Awaited(d, page', count)
    BY <1>3 DEF Awaited, Alike
  <2>2. \A c \in calls : ~Rivals(c, d)
    BY <1>3 DEF Rivals
  <2> QED
    BY <1>2, <1>3, <2>1, <2>2, CallAdded
<1>4. Requests(calls', page', count)
  BY <1>2, <1>3
<1> QED
  BY <1>1, <1>4 DEF IInv

LEMMA PollInv ==
    ASSUME IInv, Poll
    PROVE  IInv'
<1>1. page.open /\ count' = count /\ calls' = calls \cup {Request("poll", <<"order">>)}
  BY DEF Poll, Send
<1>2. Alike(page, page')
  BY DEF Poll, Alike, IInv, Thread, IsThread
<1>3. "poll" \in Kinds /\ <<"order">> \in Todos("poll")
  BY DEF Kinds, Todos
<1>4. /\ IsRequest(Request("poll", <<"order">>))
      /\ Request("poll", <<"order">>).kind = "poll"
  BY <1>3, RequestIsOne
<1> QED
  BY <1>1, <1>2, <1>4, QuietInv

\* What the page locks when it asks for older messages.
LEMMA OlderAsked ==
    ASSUME IInv, Shown, ~page.older, page.more, count' = count,
           page' = [page EXCEPT !.older = TRUE],
           NEW d, IsRequest(d), d.kind \in {"older", "jump"}, d.live, d.todo = <<"list">>,
           d.value = page.cursor, d.kind = "jump" => d.prev = <<>>, calls' = calls \cup {d}
    PROVE  IInv'
<1>1. /\ page'.open /\ page.open /\ page'.older /\ page'.more /\ page'.cursor = page.cursor
      /\ page'.newest = page.newest /\ page'.messages = page.messages
      /\ page'.loading = page.loading /\ page'.error = page.error /\ page'.sending = page.sending
      /\ page'.draft = page.draft /\ page'.saved = page.saved /\ page'.saving = page.saving
      /\ IsThread(page') /\ ~page.loading /\ ~page.error
  BY DEF Shown, IInv, Thread, IsThread
<1>2. Thread(page', count)
  BY <1>1 DEF IInv, Thread, History
<1>3. \A c \in calls : c.live => c.kind \notin {"older", "jump"}
  BY DEF IInv, Requests, Awaited
<1>4. Requests(calls, page', count)
  BY <1>1, <1>3 DEF IInv, Requests, Awaited
<1>5. page.cursor \in 1..page.newest /\ page.newest \in 0..count /\ count \in Nat
  BY DEF IInv, Thread, History
<1>6. d.kind = "jump" => Collected(d) = {} /\ d.prev \in Seq(SUBSET Nat)
  <2>1. Range(<<>>) = {}
    BY DEF Range
  <2> QED
    BY <2>1, EmptySeq DEF Collected
<1>7. {id \in 1..count : d.value <= id /\ id < page'.cursor} = {}
  BY <1>1, <1>5
<1>8. <<"list">> # <<>> /\ d.value \in 1..page'.cursor
  BY <1>1, <1>5
<1>9. Awaited(d, page', count)
  BY <1>1, <1>6, <1>7, <1>8 DEF Awaited
<1>10. Requests(calls \cup {d}, page', count)
  BY <1>3, <1>4, <1>9, CallAdded DEF Rivals
<1> QED
  BY <1>2, <1>10 DEF IInv

LEMMA LoadOlderInv ==
    ASSUME IInv, LoadOlder
    PROVE  IInv'
<1> DEFINE r == Request("older", <<"list">>)
<1>0. PICK d : d = [r EXCEPT !.value = page.cursor]
  OBVIOUS
<1>1. "older" \in Kinds /\ <<"list">> \in Todos("older")
  BY DEF Kinds, Todos
<1>2. IsRequest(d) /\ d.kind = "older" /\ d.live /\ d.todo = <<"list">> /\ d.value = page.cursor
  <2>1. IsRequest(r) /\ r.kind = "older" /\ r.todo = <<"list">> /\ r.live
    BY <1>1, RequestIsOne
  <2> HIDE DEF r
  <2> QED
    BY <1>0, <2>1 DEF IsRequest
<1>3. calls' = calls \cup {d}
  BY <1>0 DEF LoadOlder, Send
<1> QED
  BY <1>2, <1>3, OlderAsked DEF LoadOlder

LEMMA JumpInv ==
    ASSUME IInv, NEW target, JumpToPinnedSketch(target)
    PROVE  IInv'
<1> DEFINE r == Request("jump", <<"list">>)
<1>0. PICK d : d = [r EXCEPT !.field = target, !.value = page.cursor, !.prev = <<>>]
  OBVIOUS
<1>1. "jump" \in Kinds /\ <<"list">> \in Todos("jump")
  BY DEF Kinds, Todos
<1>2. /\ IsRequest(d) /\ d.kind = "jump" /\ d.live /\ d.todo = <<"list">> /\ d.value = page.cursor
      /\ d.prev = <<>>
  <2>1. IsRequest(r) /\ r.kind = "jump" /\ r.todo = <<"list">> /\ r.live
    BY <1>1, RequestIsOne
  <2> HIDE DEF r
  <2> QED
    BY <1>0, <2>1 DEF IsRequest
<1>3. calls' = calls \cup {d}
  BY <1>0 DEF JumpToPinnedSketch, Send
<1> QED
  BY <1>2, <1>3, OlderAsked DEF JumpToPinnedSketch

\* The draft is only changed, and only saved, while it is not being saved.
LEMMA TypeCommentInv ==
    ASSUME IInv, TypeComment
    PROVE  IInv'
<1>1. /\ page.open /\ ~page.loading /\ ~page.error /\ "comment" \notin page.saving
      /\ count' = count /\ calls' = calls
  BY DEF TypeComment, Shown
<1>2. /\ IsThread(page')
      /\ page'.open = page.open /\ page'.loading = page.loading /\ page'.error = page.error
      /\ page'.messages = page.messages /\ page'.cursor = page.cursor /\ page'.more = page.more
      /\ page'.newest = page.newest /\ page'.older = page.older /\ page'.sending = page.sending
      /\ page'.saving = page.saving
  BY DEF TypeComment, IInv, Thread, IsThread
<1>3. Thread(page', count)
  BY <1>1, <1>2 DEF IInv, Thread, History
<1>4. \A c \in calls : c.live => ~(c.kind = "save" /\ c.field = "comment")
  BY <1>1 DEF IInv, Requests, Awaited
<1>5. Requests(calls, page', count)
  BY <1>2, <1>4 DEF IInv, Requests, Awaited
<1> QED
  BY <1>1, <1>3, <1>5 DEF IInv

LEMMA SaveCommentInv ==
    ASSUME IInv, SaveComment
    PROVE  IInv'
<1> DEFINE r == Request("save", <<"write", "order">>)
<1>0. PICK d : d = [r EXCEPT !.field = "comment", !.value = page.draft]
  OBVIOUS
<1>1. /\ page.open /\ ~page.loading /\ ~page.error /\ "comment" \notin page.saving
      /\ count' = count /\ calls' = calls \cup {d}
  BY <1>0 DEF SaveComment, Shown, Send
<1>2. "save" \in Kinds /\ <<"write", "order">> \in Todos("save")
  BY DEF Kinds, Todos
<1>3. /\ IsRequest(d) /\ d.kind = "save" /\ d.live /\ d.field = "comment" /\ d.value = page.draft
  <2>1. IsRequest(r) /\ r.kind = "save" /\ r.todo = <<"write", "order">> /\ r.live
    BY <1>2, RequestIsOne
  <2> HIDE DEF r
  <2> QED
    BY <1>0, <2>1 DEF IsRequest
<1>4. /\ IsThread(page')
      /\ page'.open = page.open /\ page'.loading = page.loading /\ page'.error = page.error
      /\ page'.messages = page.messages /\ page'.cursor = page.cursor /\ page'.more = page.more
      /\ page'.newest = page.newest /\ page'.older = page.older /\ page'.sending = page.sending
      /\ page'.draft = page.draft /\ page'.saved = page.saved /\ "comment" \in page'.saving
  BY DEF SaveComment, IInv, Thread, IsThread
<1>5. Thread(page', count)
  BY <1>1, <1>4 DEF IInv, Thread, History
<1>6. \A c \in calls : c.live => ~(c.kind = "save" /\ c.field = "comment")
  BY <1>1 DEF IInv, Requests, Awaited
<1>7. Requests(calls, page', count)
  BY <1>4, <1>6 DEF IInv, Requests, Awaited
<1>8. Awaited(d, page', count)
  BY <1>1, <1>3, <1>4 DEF Awaited
<1>9. Requests(calls \cup {d}, page', count)
  BY <1>3, <1>6, <1>7, <1>8, CallAdded DEF Rivals
<1> QED
  BY <1>1, <1>5, <1>9 DEF IInv

LEMMA SaveFieldInv ==
    ASSUME IInv, NEW f \in Fields \ {"comment"}, SaveField(f)
    PROVE  IInv'
<1> DEFINE r == Request("save", <<"write", "order">>)
<1>0. PICK d : d = [r EXCEPT !.field = f, !.value = edits', !.prev = page.order]
  OBVIOUS
<1>1. page.open /\ count' = count /\ calls' = calls \cup {d}
  BY <1>0 DEF SaveField, Shown, Send
<1>2. Alike(page, page')
  BY DEF SaveField, Alike, IInv, Thread, IsThread
<1>3. "save" \in Kinds /\ <<"write", "order">> \in Todos("save")
  BY DEF Kinds, Todos
<1>4. IsRequest(d) /\ d.kind = "save" /\ d.field # "comment"
  <2>1. IsRequest(r) /\ r.kind = "save" /\ r.todo = <<"write", "order">> /\ r.live
    BY <1>3, RequestIsOne
  <2> HIDE DEF r
  <2> QED
    BY <1>0, <2>1 DEF IsRequest
<1> QED
  BY <1>1, <1>2, <1>4, QuietInv

LEMMA EditInv ==
    ASSUME IInv, OpenEdit \/ CancelEdit
    PROVE  IInv'
<1>1. page.open /\ count' = count /\ calls' = calls
  BY DEF OpenEdit, CancelEdit, Shown
<1>2. Alike(page, page')
  BY DEF OpenEdit, CancelEdit, Alike, IInv, Thread, IsThread
<1> QED
  BY <1>1, <1>2, QuietInv

LEMMA SaveEditInv ==
    ASSUME IInv, NEW changed, SaveEdit(changed)
    PROVE  IInv'
<1> DEFINE form == IF changed THEN edits' ELSE page.form
           r == Request("edit", <<"write", "order">>)
<1>0. PICK d : d = [r EXCEPT !.field = "rest", !.value = form]
  OBVIOUS
<1>1. page.open /\ count' = count /\ calls' = calls \cup {d}
  BY <1>0 DEF SaveEdit, Shown, Send
<1>2. Alike(page, page')
  BY DEF SaveEdit, Alike, IInv, Thread, IsThread
<1>3. "edit" \in Kinds /\ <<"write", "order">> \in Todos("edit")
  BY DEF Kinds, Todos
<1>4. IsRequest(d) /\ d.kind = "edit"
  <2>1. IsRequest(r) /\ r.kind = "edit" /\ r.todo = <<"write", "order">> /\ r.live
    BY <1>3, RequestIsOne
  <2> HIDE DEF r
  <2> QED
    BY <1>0, <2>1 DEF IsRequest
<1> QED
  BY <1>1, <1>2, <1>4, QuietInv

LEMMA SendMessageInv ==
    ASSUME IInv, NEW todo \in {<<"post">>, <<"upload", "post">>}, SendMessage(todo)
    PROVE  IInv'
<1> DEFINE d == Request("send", todo)
<1>1. /\ page.open /\ ~page.loading /\ ~page.error /\ ~page.sending
      /\ count' = count /\ calls' = calls \cup {d}
  BY DEF SendMessage, Shown, Send
<1>3. "send" \in Kinds /\ todo \in Todos("send")
  BY DEF Kinds, Todos
<1>4. IsRequest(d) /\ d.kind = "send" /\ d.live /\ d.todo = todo
  BY <1>3, RequestIsOne
<1>5. todo # <<>>
  OBVIOUS
<1> HIDE DEF d
<1>6. /\ IsThread(page')
      /\ page'.open = page.open /\ page'.loading = page.loading /\ page'.error = page.error
      /\ page'.messages = page.messages /\ page'.cursor = page.cursor /\ page'.more = page.more
      /\ page'.newest = page.newest /\ page'.older = page.older /\ page'.sending
      /\ page'.draft = page.draft /\ page'.saved = page.saved /\ page'.saving = page.saving
  BY DEF SendMessage, IInv, Thread, IsThread
<1>7. Thread(page', count)
  BY <1>1, <1>6 DEF IInv, Thread, History
<1>8. \A c \in calls : c.live => c.kind # "send"
  BY <1>1 DEF IInv, Requests, Awaited
<1>9. Requests(calls, page', count)
  <2>1. ASSUME NEW c \in calls, c.live PROVE Awaited(c, page', count)
    <3>1. Awaited(c, page, count) /\ c.kind # "send"
      BY <1>8, <2>1 DEF IInv, Requests
    <3> QED
      BY <1>6, <3>1 DEF Awaited
  <2> QED
    BY <2>1 DEF IInv, Requests
<1>10. Awaited(d, page', count)
  BY <1>1, <1>4, <1>5, <1>6 DEF Awaited
<1>11. Requests(calls \cup {d}, page', count)
  BY <1>4, <1>8, <1>9, <1>10, CallAdded DEF Rivals
<1> QED
  BY <1>1, <1>7, <1>11 DEF IInv

-----------------------------------------------------------------------------
(* What the server does. *)

\* The steps that a request still takes.
LEMMA Steps ==
    ASSUME NEW c, IsRequest(c), c.todo # <<>>
    PROVE  /\ Tail(c.todo) \in Todos(c.kind)
           /\ Head(c.todo) \in {"order", "list", "upload", "write", "post"}
           /\ Head(c.todo) = "post" => c.kind = "send" /\ Tail(c.todo) = <<>>
           /\ Head(c.todo) = "list" => c.kind \in {"load", "older", "jump"}
           /\ c.kind \in {"older", "jump"} => Head(c.todo) = "list"
           /\ c.kind = "load" /\ Head(c.todo) # "list" =>
                 /\ Head(c.todo) = "order"
                 /\ Tail(c.todo) \in {<<"order">>, <<>>} => c.todo = <<"order">>
           /\ c.kind = "send" /\ Tail(c.todo) = <<>> => Head(c.todo) = "post"
<1>1. /\ Head(<<"order", "list">>) = "order" /\ Tail(<<"order", "list">>) = <<"list">>
      /\ Head(<<"list", "order">>) = "list" /\ Tail(<<"list", "order">>) = <<"order">>
      /\ Head(<<"upload", "post">>) = "upload" /\ Tail(<<"upload", "post">>) = <<"post">>
      /\ Head(<<"write", "order">>) = "write" /\ Tail(<<"write", "order">>) = <<"order">>
      /\ Head(<<"order">>) = "order" /\ Tail(<<"order">>) = <<>>
      /\ Head(<<"list">>) = "list" /\ Tail(<<"list">>) = <<>>
      /\ Head(<<"post">>) = "post" /\ Tail(<<"post">>) = <<>>
  OBVIOUS
<1>2. <<"list">> # <<"order">> /\ <<"list">> # <<>> /\ <<"order">> # <<>> /\ <<"post">> # <<>>
  OBVIOUS
<1>3. CASE c.kind = "load"
  <2>1. c.todo \in {<<"order", "list">>, <<"list", "order">>, <<"order">>, <<"list">>}
    BY <1>3 DEF IsRequest, Todos
  <2> QED
    BY <1>1, <1>2, <1>3, <2>1 DEF Todos
<1>4. CASE c.kind \in {"older", "jump"}
  <2>1. c.todo = <<"list">>
    BY <1>4 DEF IsRequest, Todos
  <2> QED
    BY <1>1, <1>4, <2>1 DEF Todos
<1>5. CASE c.kind = "send"
  <2>1. c.todo \in {<<"upload", "post">>, <<"post">>}
    BY <1>5 DEF IsRequest, Todos
  <2> QED
    BY <1>1, <1>2, <1>5, <2>1 DEF Todos
<1>6. CASE c.kind \in {"save", "edit"}
  <2>1. c.todo \in {<<"write", "order">>, <<"order">>}
    BY <1>6 DEF IsRequest, Todos
  <2> QED
    BY <1>1, <1>6, <2>1 DEF Todos
<1>7. CASE c.kind \in {"poll", "meta"}
  <2>1. c.todo = <<"order">>
    BY <1>7 DEF IsRequest, Todos
  <2> QED
    BY <1>1, <1>7, <2>1 DEF Todos
<1> QED
  BY <1>3, <1>4, <1>5, <1>6, <1>7 DEF IsRequest, Kinds

\* The messages have become more.
LEMMA CountGrows ==
    ASSUME IInv, NEW m \in Nat, count <= m
    PROVE  Thread(page, m) /\ Requests(calls, page, m)
<1>1. Thread(page, m)
  BY HistoryGrows DEF IInv
<1>2. \A c \in calls : c.live /\ Awaited(c, page, count) => Awaited(c, page, m)
  BY AwaitedGrows DEF IInv
<1> QED
  BY <1>1, <1>2, CallsKept DEF IInv

LEMMA ServeInv ==
    ASSUME IInv, NEW c \in calls, Serve(c)
    PROVE  IInv'
<1>1. /\ page' = page /\ count \in Nat /\ count' \in Nat /\ count <= count'
      /\ count' = IF Head(c.todo) = "post" THEN count + 1 ELSE count
      /\ IsRequest(c) /\ c.todo # <<>>
  BY DEF Serve, IInv, Requests
<1>2. Thread(page, count') /\ Requests(calls, page, count')
  BY <1>1, CountGrows
<1>3. c.live => Awaited(c, page, count') /\ Awaited(c, page, count)
  BY <1>2 DEF Requests, IInv
<1>4. /\ Tail(c.todo) \in Todos(c.kind)
      /\ Head(c.todo) = "post" => c.kind = "send" /\ Tail(c.todo) = <<>>
      /\ Head(c.todo) = "list" => c.kind \in {"load", "older", "jump"}
      /\ c.kind \in {"older", "jump"} => Head(c.todo) = "list"
      /\ c.kind = "load" /\ Head(c.todo) # "list" /\ Tail(c.todo) \in {<<"order">>, <<>>} =>
            c.todo = <<"order">>
      /\ c.kind = "send" /\ Tail(c.todo) = <<>> => Head(c.todo) = "post"
  BY <1>1, Steps
<1>5. ASSUME NEW d, calls' = (calls \ {c}) \cup {d}, IsRequest(d),
             d.live => Awaited(d, page, count'), d.kind = c.kind, d.field = c.field, d.live = c.live
      PROVE  IInv'
  <2>1. Requests((calls \ {c}) \cup {d}, page, count')
    BY <1>2, <1>5, CallGoesOn
  <2> QED
    BY <1>1, <1>2, <1>5, <2>1 DEF IInv
<1>6. PICK done : done = [c EXCEPT !.todo = Tail(@)]
  OBVIOUS
<1>7. /\ IsRequest(done) /\ done.todo = Tail(c.todo) /\ done.kind = c.kind /\ done.field = c.field
      /\ done.live = c.live /\ done.value = c.value /\ done.list = c.list /\ done.prev = c.prev
  BY <1>1, <1>4, <1>6 DEF IsRequest
\* A step that answers nothing that the page waits for.
<1>8. ASSUME NEW d, calls' = (calls \ {c}) \cup {d}, IsRequest(d), d.todo = Tail(c.todo),
             d.kind = c.kind, d.field = c.field, d.live = c.live, d.value = c.value,
             d.list = c.list, d.prev = c.prev, Head(c.todo) \notin {"list", "post"}
      PROVE  IInv'
  <2>1. c.kind \notin {"older", "jump"} /\ (c.kind = "send" => d.todo # <<>>)
    BY <1>4, <1>8
  <2>2. c.kind = "load" /\ d.todo \in {<<"order">>, <<>>} => c.todo \in {<<"order">>, <<>>}
    BY <1>4, <1>8
  <2>3. d.live => Awaited(d, page, count')
    BY <1>3, <1>8, <2>1, <2>2 DEF Awaited
  <2> QED
    BY <1>5, <1>8, <2>3
<1>9. CASE Head(c.todo) = "order"
  <2>1. PICK d : d = [done EXCEPT !.order = order]
    OBVIOUS
  <2>2. calls' = (calls \ {c}) \cup {d}
    BY <1>6, <1>9, <2>1 DEF Serve
  <2>3. /\ IsRequest(d) /\ d.todo = done.todo /\ d.kind = done.kind /\ d.field = done.field
        /\ d.live = done.live /\ d.value = done.value /\ d.list = done.list /\ d.prev = done.prev
    BY <1>7, <2>1 DEF IsRequest
  <2> QED
    BY <1>7, <1>8, <1>9, <2>2, <2>3
<1>10. CASE Head(c.todo) = "list"
  <2>1. PICK d : d = [done EXCEPT !.list = ListPage(Limit(c.kind), c.value)]
    OBVIOUS
  <2>2. calls' = (calls \ {c}) \cup {d}
    BY <1>6, <1>10, <2>1 DEF Serve
  <2>3. /\ IsRequest(d) /\ d.todo = done.todo /\ d.kind = done.kind /\ d.field = done.field
        /\ d.live = done.live /\ d.value = done.value /\ d.prev = done.prev
        /\ d.list = ListPage(Limit(c.kind), c.value)
    BY <1>7, <2>1 DEF IsRequest
  <2>4. count' = count
    BY <1>1, <1>10
  <2>5. c.live => c.value \in Nat
    <3>1. page.more => page.cursor \in 1..page.newest /\ page.newest \in 0..count
      BY DEF IInv, Thread, History
    <3> QED
      BY <1>1, <1>3, <1>4, <1>10, <3>1 DEF Awaited
  <2>6. c.live => IsPage(d.list, c.value, count)
    <3>1. Limit(c.kind) \in Nat \ {0}
      BY LimitsAreNatural DEF Limit
    <3> QED
      BY <1>1, <2>3, <2>5, <3>1, ListIsPage
  <2>7. d.live => Awaited(d, page, count')
    BY <1>3, <1>4, <1>7, <1>10, <2>3, <2>4, <2>6 DEF Awaited, Collected
  <2> QED
    BY <1>5, <1>7, <2>2, <2>3, <2>7
<1>11. CASE Head(c.todo) = "post"
  <2>1. PICK d : d = [done EXCEPT !.value = count + 1]
    OBVIOUS
  <2>2. calls' = (calls \ {c}) \cup {d}
    BY <1>6, <1>11, <2>1 DEF Serve
  <2>3. /\ IsRequest(d) /\ d.todo = done.todo /\ d.kind = done.kind /\ d.field = done.field
        /\ d.live = done.live /\ d.value = count + 1
    BY <1>7, <2>1 DEF IsRequest
  <2>4. \A i \in DOMAIN page.messages : page.messages[i] \in 1..count
    BY DEF IInv, Thread, History
  <2>5. \A i \in DOMAIN page.messages : page.messages[i] < count + 1
    BY <1>1, <2>4
  <2>6. d.kind = "send" /\ count' = count + 1 /\ count + 1 \in 1..(count + 1)
    BY <1>1, <1>4, <1>7, <1>11, <2>3
  <2>7. d.live => Awaited(d, page, count')
    BY <1>3, <1>7, <2>3, <2>5, <2>6 DEF Awaited
  <2> QED
    BY <1>5, <1>7, <2>2, <2>3, <2>7
<1>12. CASE Head(c.todo) \notin {"order", "list", "post"}
  <2>1. calls' = (calls \ {c}) \cup {done}
    BY <1>6, <1>12 DEF Serve
  <2> QED
    BY <1>7, <1>8, <1>12, <2>1
<1> QED
  BY <1>9, <1>10, <1>11, <1>12

LEMMA ElsewhereInv ==
    ASSUME IInv, WrittenElsewhere \/ \E f \in Fields : EditedElsewhere(f)
    PROVE  IInv'
<1>1. /\ page' = page /\ calls' = calls /\ count \in Nat /\ count' \in Nat /\ count <= count'
  BY DEF WrittenElsewhere, EditedElsewhere, IInv
<1>2. Thread(page, count') /\ Requests(calls, page, count')
  BY <1>1, CountGrows
<1> QED
  BY <1>1, <1>2 DEF IInv

-----------------------------------------------------------------------------
(* What the page hears. *)

\* An answer, or an error, ends a request: the page keeps what its rivals do not hold.
LEMMA SettledInv ==
    ASSUME IInv, NEW c \in calls, c.live, count' = count, calls' = calls \ {c},
           Thread(page', count),
           \A d : Awaited(d, page, count) /\ ~Rivals(c, d) => Awaited(d, page', count)
    PROVE  IInv'
<1>1. ASSUME NEW d \in calls \ {c}, d.live, Awaited(d, page, count)
      PROVE  Awaited(d, page', count)
  <2>1. ~Rivals(c, d)
    BY <1>1 DEF IInv, Requests
  <2> QED
    BY <1>1, <2>1
<1>2. Requests(calls \ {c}, page', count)
  BY <1>1, CallsKept DEF IInv
<1> QED
  BY <1>2 DEF IInv

LEMMA QuietlySettledInv ==
    ASSUME IInv, NEW c \in calls, c.live, count' = count, calls' = calls \ {c},
           Alike(page, page')
    PROVE  IInv'
<1>1. page.open
  BY DEF IInv, Requests, Awaited
<1>2. Thread(page', count) /\ \A d : Awaited(d, page, count) => Awaited(d, page', count)
  BY <1>1, AlikeKeeps DEF IInv
<1> QED
  BY <1>2, SettledInv

\* While the page loads it waits for nothing else that it has locked.
LEMMA LoadEndsInv ==
    ASSUME IInv, NEW c \in calls, c.live, c.kind = "load", count' = count,
           calls' = calls \ {c}, Thread(page', count), page'.open
    PROVE  IInv'
<1>1. Idle(page)
  BY DEF IInv, Requests, Awaited, Thread
<1>2. ASSUME NEW d, Awaited(d, page, count), ~Rivals(c, d)
      PROVE  Awaited(d, page', count)
  BY <1>1, <1>2 DEF Awaited, Idle, Rivals
<1> QED
  BY <1>2, SettledInv

LEMMA LoadedInv ==
    ASSUME IInv, NEW c \in calls, c.live, c.kind = "load", c.todo = <<>>, count' = count,
           page' = Loaded(page, c), calls' = calls \ {c}
    PROVE  IInv'
<1> DEFINE list == c.list  items == c.list.items  M == Ascending(items)
<1>1. /\ page.open /\ page.loading /\ IsPage(list, 0, count) /\ count \in Nat
      /\ IsThread(page) /\ Idle(page) /\ ~page.error
  BY DEF IInv, Requests, Awaited, Thread
<1>2. PICK q : q = Loaded(page, c)
  OBVIOUS
<1>3. /\ IsThread(q) /\ q.open = page.open /\ ~q.loading /\ q.error = page.error
      /\ q.messages = M /\ q.cursor = list.cursor /\ q.more = list.more
      /\ q.newest = IF items = {} THEN 0 ELSE Max(items)
  BY <1>1, <1>2 DEF Loaded, IsThread, IsPage
<1>4. /\ items \in SUBSET (1..count)
      /\ list.more => list.cursor \in items /\ \A id \in items : list.cursor <= id
      /\ \A id \in 1..count :
            (\E top \in items : id <= top) /\ (list.more => list.cursor <= id) => id \in items
  BY <1>1 DEF IsPage
<1>5. /\ M \in Seq(items)
      /\ \A id \in items : \E i \in DOMAIN M : M[i] = id
      /\ \A i, j \in DOMAIN M : i < j => M[i] < M[j]
  BY <1>1, <1>4, AscendingSorts
<1> HIDE DEF M
<1>6. M \in Seq(1..count) /\ \A i \in DOMAIN M : M[i] \in items
  <2>1. Seq(items) \subseteq Seq(1..count)
    <3> HIDE DEF items
    <3> QED
      BY <1>4, SeqMonotonic
  <2> QED
    BY <1>5, <2>1
<1>7. items # {} => Max(items) \in items /\ \A k \in items : k <= Max(items)
  BY <1>1, <1>4, MinMax
<1>8. History(q, count)
  <2>1. q.newest \in 0..count /\ (q.newest # 0 => q.newest \in items)
    BY <1>1, <1>3, <1>4, <1>7
  <2>2. ASSUME q.more
        PROVE  q.cursor \in 1..q.newest /\ \A i \in DOMAIN q.messages : q.cursor <= q.messages[i]
    <3>1. q.cursor \in items /\ \A id \in items : q.cursor <= id
      BY <1>3, <1>4, <2>2
    <3>2. q.newest = Max(items) /\ q.cursor <= q.newest
      BY <1>3, <1>7, <3>1
    <3>3. q.cursor \in 1..count
      BY <1>4, <3>1
    <3> QED
      BY <1>1, <1>3, <1>6, <2>1, <3>1, <3>2, <3>3
  <2>3. ASSUME NEW id \in 1..q.newest, q.more => q.cursor <= id
        PROVE  \E i \in DOMAIN q.messages : q.messages[i] = id
    <3>1. id \in 1..count /\ q.newest # 0 /\ id <= q.newest
      BY <1>1, <2>1
    <3>2. id \in items
      BY <1>3, <1>4, <2>1, <2>3, <3>1
    <3> QED
      BY <1>3, <1>5, <3>2
  <2> QED
    BY <1>3, <1>5, <1>6, <2>1, <2>2, <2>3 DEF History
<1>9. Thread(q, count)
  BY <1>1, <1>3, <1>8 DEF Thread
<1> QED
  BY <1>1, <1>2, <1>3, <1>9, LoadEndsInv

\* Older messages have come, a page of them or what a jump has collected.
LEMMA OlderLoadedInv ==
    ASSUME IInv, NEW c \in calls, c.live, c.kind \in {"older", "jump"}, count' = count,
           NEW list, IsPage(list, page.cursor, count),
           page' = OlderLoaded(page, list), calls' = calls \ {c}
    PROVE  IInv'
<1>1. /\ page.open /\ page.older /\ page.more /\ count \in Nat /\ Thread(page, count)
      /\ IsThread(page) /\ ~page.loading /\ page.messages \in Seq(1..count)
  BY DEF IInv, Requests, Awaited, Thread, History, Idle
<1>2. PICK q : q = OlderLoaded(page, list)
  OBVIOUS
<1>3. /\ Thread(q, count)
      /\ \A i \in DOMAIN q.messages : \E j \in DOMAIN page.messages : q.messages[i] <= page.messages[j]
  BY <1>1, <1>2, OlderKeepsHistory
<1>4. /\ q.open = page.open /\ q.sending = page.sending /\ q.saving = page.saving
      /\ q.draft = page.draft /\ q.saved = page.saved
  BY <1>1, <1>2 DEF OlderLoaded, IsThread
<1>5. q.messages \in Seq(1..count)
  BY <1>3 DEF Thread, History
<1>6. ASSUME NEW d, Awaited(d, page, count), ~Rivals(c, d)
      PROVE  Awaited(d, q, count)
  <2>1. d.kind \notin {"older", "jump", "load"}
    BY <1>1, <1>6 DEF Rivals, Awaited
  <2>2. ASSUME d.kind = "send", d.todo = <<>>, NEW i \in DOMAIN q.messages
        PROVE  q.messages[i] < d.value
    <3>1. PICK j \in DOMAIN page.messages : q.messages[i] <= page.messages[j]
      BY <1>3
    <3>2. page.messages[j] < d.value /\ d.value \in 1..count
      BY <1>6, <2>2 DEF Awaited
    <3>3. q.messages[i] \in 1..count /\ page.messages[j] \in 1..count
      BY <1>1, <1>5, SMTT(40)
    <3> QED
      BY <1>1, <3>1, <3>2, <3>3
  <2> QED
    BY <1>4, <1>6, <2>1, <2>2 DEF Awaited
<1> QED
  BY <1>2, <1>3, <1>6, SettledInv

\* Nothing older has come: the sketch was not there, or the request has failed.
LEMMA OlderGivenUpInv ==
    ASSUME IInv, NEW c \in calls, c.live, c.kind \in {"older", "jump"}, count' = count,
           calls' = calls \ {c}, page' = [page EXCEPT !.older = FALSE]
    PROVE  IInv'
<1>1. IsThread(page) /\ page.open /\ page.older /\ ~page.loading /\ ~page.error
  BY DEF IInv, Requests, Awaited, Thread, Idle
<1>2. /\ IsThread(page')
      /\ page'.open = page.open /\ page'.loading = page.loading /\ page'.error = page.error
      /\ page'.messages = page.messages /\ page'.cursor = page.cursor /\ page'.more = page.more
      /\ page'.newest = page.newest /\ page'.sending = page.sending
      /\ page'.draft = page.draft /\ page'.saved = page.saved /\ page'.saving = page.saving
  BY <1>1 DEF IsThread
<1>3. Thread(page', count)
  BY <1>1, <1>2 DEF IInv, Thread, History
<1>4. ASSUME NEW d, Awaited(d, page, count), ~Rivals(c, d)
      PROVE  Awaited(d, page', count)
  BY <1>1, <1>2, <1>4 DEF Awaited, Rivals
<1> QED
  BY <1>3, <1>4, SettledInv

\* A comment has been saved, or could not be.
LEMMA CommentSettledInv ==
    ASSUME IInv, NEW c \in calls, c.live, c.kind = "save", c.field = "comment", count' = count,
           calls' = calls \ {c}, IsThread(page'),
           page'.open = page.open, page'.loading = page.loading, page'.error = page.error,
           page'.messages = page.messages, page'.cursor = page.cursor, page'.more = page.more,
           page'.newest = page.newest, page'.older = page.older, page'.sending = page.sending
    PROVE  IInv'
<1>1. page.open /\ ~page.loading /\ ~page.error
  BY DEF IInv, Requests, Awaited, Thread, Idle
<1>2. Thread(page', count)
  BY <1>1 DEF IInv, Thread, History
<1>3. ASSUME NEW d, Awaited(d, page, count), ~Rivals(c, d)
      PROVE  Awaited(d, page', count)
  BY <1>3 DEF Awaited, Rivals
<1> QED
  BY <1>2, <1>3, SettledInv

LEMMA AnswerInv ==
    ASSUME IInv, NEW c \in calls, Answer(c)
    PROVE  IInv'
<1>1. /\ c.live /\ c.todo = <<>> /\ c.kind \in Kinds \ {"jump", "send"} /\ count' = count
      /\ calls' = calls \ {c} /\ Awaited(c, page, count) /\ IsThread(page)
  BY DEF Answer, Answered, IInv, Requests, IsRequest, Thread
<1>2. CASE c.kind = "load"
  <2>1. page' = Loaded(page, c)
    BY <1>2 DEF Answer
  <2> QED
    BY <1>1, <1>2, <2>1, LoadedInv
<1>3. CASE c.kind = "older"
  <2>1. page' = OlderLoaded(page, c.list) /\ IsPage(c.list, page.cursor, count)
    BY <1>1, <1>3 DEF Answer, Awaited
  <2> QED
    BY <1>1, <1>3, <2>1, OlderLoadedInv
<1>4. CASE c.kind = "poll"
  <2>1. page' = [RefreshMeta(page, c.order) EXCEPT !.poll = FALSE]
    BY <1>4 DEF Answer
  <2>2. Alike(page, page')
    BY <1>1, <2>1 DEF RefreshMeta, Alike, IsThread
  <2> QED
    BY <1>1, <2>2, QuietlySettledInv
<1>5. CASE c.kind = "meta"
  <2>1. page' = RefreshMeta(page, c.order)
    BY <1>5 DEF Answer
  <2>2. Alike(page, page')
    BY <1>1, <2>1 DEF RefreshMeta, Alike, IsThread
  <2> QED
    BY <1>1, <2>2, QuietlySettledInv
<1>6. CASE c.kind = "edit"
  <2>1. page' = [page EXCEPT !.order = c.order, !.form = Nothing, !.saving = @ \ {"edit"}]
    BY <1>6 DEF Answer
  <2>2. Alike(page, page')
    BY <1>1, <2>1 DEF Alike, IsThread
  <2> QED
    BY <1>1, <2>2, QuietlySettledInv
<1>7. CASE c.kind = "save"
  <2>1. page' = Saved(page, c)
    BY <1>7 DEF Answer
  <2>2. CASE c.field = "comment"
    <3>1. page' = [[page EXCEPT !.saving = @ \ {c.field}] EXCEPT
                       !.order = c.order, !.draft = c.order.comment, !.saved = c.order.comment]
      BY <2>1, <2>2 DEF Saved
    <3>2. /\ IsThread(page')
          /\ page'.open = page.open /\ page'.loading = page.loading /\ page'.error = page.error
          /\ page'.messages = page.messages /\ page'.cursor = page.cursor
          /\ page'.more = page.more /\ page'.newest = page.newest
          /\ page'.older = page.older /\ page'.sending = page.sending
      BY <1>1, <3>1 DEF IsThread
    <3> QED
      BY <1>1, <1>7, <2>2, <3>2, CommentSettledInv
  <2>3. CASE c.field # "comment"
    <3>1. Alike(page, page')
      BY <1>1, <2>1, <2>3 DEF Saved, Alike, IsThread
    <3> QED
      BY <1>1, <3>1, QuietlySettledInv
  <2> QED
    BY <2>2, <2>3
<1> QED
  BY <1>1, <1>2, <1>3, <1>4, <1>5, <1>6, <1>7 DEF Kinds

\* The message that was sent is newer than all that the page has.
LEMMA AnswerSendInv ==
    ASSUME IInv, NEW c \in calls, AnswerSend(c)
    PROVE  IInv'
<1> DEFINE r == Request("meta", <<"order">>)  M == page.messages
<1>1. /\ c.live /\ c.todo = <<>> /\ c.kind = "send" /\ count' = count /\ count \in Nat
      /\ calls' = (calls \ {c}) \cup {r} /\ Awaited(c, page, count) /\ IsThread(page)
      /\ Thread(page, count) /\ ~page.loading /\ ~page.error
  BY DEF AnswerSend, Answered, IInv, Requests, Awaited, Thread, Idle
<1>2. /\ IsThread(page') /\ page'.messages = Append(M, c.value)
      /\ page'.open = page.open /\ page'.loading = page.loading /\ page'.error = page.error
      /\ page'.cursor = page.cursor /\ page'.more = page.more
      /\ page'.newest = page.newest /\ page'.older = page.older
      /\ page'.draft = page.draft /\ page'.saved = page.saved /\ page'.saving = page.saving
  BY <1>1 DEF AnswerSend, IsThread
<1>3. /\ c.value \in 1..count /\ \A i \in DOMAIN M : M[i] < c.value
      /\ M \in Seq(1..count) /\ page.open
  BY <1>1 DEF Awaited, Thread, History
<1>4. PICK Q : Q = Append(M, c.value)
  OBVIOUS
<1>5. /\ Q \in Seq(1..count) /\ DOMAIN Q = 1..(Len(M) + 1) /\ DOMAIN M = 1..Len(M)
      /\ Len(M) \in Nat
      /\ \A i \in 1..Len(M) : Q[i] = M[i] /\ i \in DOMAIN Q
      /\ Q[Len(M) + 1] = c.value /\ Len(M) + 1 \in DOMAIN Q
      /\ \A i \in DOMAIN Q : i \in DOMAIN M \/ i = Len(M) + 1
  BY <1>3, <1>4
<1>6. /\ \A i, j \in DOMAIN M : i < j => M[i] < M[j]
      /\ page.newest \in 0..count
      /\ page.newest # 0 => \E i \in DOMAIN M : M[i] = page.newest
      /\ page.more => page.cursor \in 1..page.newest /\ \A i \in DOMAIN M : page.cursor <= M[i]
      /\ \A id \in 1..page.newest :
            (page.more => page.cursor <= id) => \E i \in DOMAIN M : M[i] = id
  BY <1>1 DEF Thread, History
<1> HIDE DEF M
<1>7. \A i, j \in DOMAIN Q : i < j => Q[i] < Q[j]
  BY <1>3, <1>5, <1>6
<1>8. page.more => \A i \in DOMAIN Q : page.cursor <= Q[i]
  <2> SUFFICES ASSUME page.more PROVE \A i \in DOMAIN Q : page.cursor <= Q[i]
    OBVIOUS
  <2>1. PICK k \in DOMAIN M : M[k] = page.newest
    BY <1>6
  <2>2. page.cursor <= page.newest /\ page.newest < c.value /\ page.cursor \in Nat
        /\ page.newest \in Nat /\ c.value \in Nat
    BY <1>1, <1>3, <1>6, <2>1, SMTT(30)
  <2>3. page.cursor <= c.value
    BY <2>2
  <2> QED
    BY <1>5, <1>6, <2>3
<1>9. \A id : (\E i \in DOMAIN M : M[i] = id) => \E i \in DOMAIN Q : Q[i] = id
  BY <1>5
<1>10. History(page', count)
  BY <1>2, <1>4, <1>5, <1>6, <1>7, <1>8, <1>9 DEF History, M
<1>11. Thread(page', count)
  BY <1>1, <1>2, <1>3, <1>10 DEF Thread
<1>12. ASSUME NEW d \in calls \ {c}, d.live, Awaited(d, page, count)
       PROVE  Awaited(d, page', count)
  <2>1. d.kind \notin {"send", "load"}
    BY <1>1, <1>12 DEF IInv, Requests, Rivals, Awaited
  <2> QED
    BY <1>2, <1>12, <2>1 DEF Awaited
<1>13. Requests(calls \ {c}, page', count)
  BY <1>12, CallsKept DEF IInv
<1>14. IsRequest(r) /\ r.kind = "meta"
  BY RequestIsOne DEF Kinds, Todos
<1> HIDE DEF r
<1>15. Awaited(r, page', count) /\ \A d \in calls : ~Rivals(d, r)
  BY <1>2, <1>3, <1>14 DEF Awaited, Rivals
<1>16. Requests((calls \ {c}) \cup {r}, page', count)
  BY <1>13, <1>14, <1>15, CallAdded
<1> QED
  BY <1>1, <1>11, <1>16 DEF IInv

\* A page in front of what a jump has collected.
LEMMA CollectedGrows ==
    ASSUME NEW items \in SUBSET Nat, NEW prev \in Seq(SUBSET Nat)
    PROVE  /\ <<items>> \o prev \in Seq(SUBSET Nat)
           /\ UNION Range(<<items>> \o prev) = items \cup UNION Range(prev)
<1> DEFINE all == <<items>> \o prev
<1>1. /\ all \in Seq(SUBSET Nat) /\ DOMAIN all = 1..(Len(prev) + 1) /\ DOMAIN prev = 1..Len(prev)
      /\ Len(prev) \in Nat /\ all[1] = items
      /\ \A i \in 1..Len(prev) : all[i + 1] = prev[i]
  OBVIOUS
<1> HIDE DEF all
<1>2. Range(all) = {items} \cup Range(prev)
  <2>1. ASSUME NEW i \in DOMAIN all PROVE all[i] \in {items} \cup Range(prev)
    <3>1. CASE i = 1
      BY <1>1, <3>1
    <3>2. CASE i # 1
      <4>1. i - 1 \in 1..Len(prev) /\ (i - 1) + 1 = i
        BY <1>1, <3>2
      <4>2. all[i] = prev[i - 1]
        BY <1>1, <4>1
      <4> QED
        BY <1>1, <4>1, <4>2 DEF Range
    <3> QED
      BY <3>1, <3>2
  <2>2. ASSUME NEW i \in DOMAIN prev PROVE \E k \in DOMAIN all : prev[i] = all[k]
    <3>1. i + 1 \in DOMAIN all /\ all[i + 1] = prev[i]
      BY <1>1
    <3> QED
      BY <3>1
  <2>3. \E k \in DOMAIN all : items = all[k]
    BY <1>1
  <2> QED
    BY <2>1, <2>2, <2>3 DEF Range
<1> QED
  BY <1>1, <1>2 DEF all

LEMMA AnswerJumpInv ==
    ASSUME IInv, NEW c \in calls, AnswerJump(c)
    PROVE  IInv'
<1> DEFINE list == c.list  all == <<list.items>> \o c.prev  older == UNION Range(all)
           found == c.field \in list.items
<1>1. /\ c.live /\ c.todo = <<>> /\ c.kind = "jump" /\ count' = count /\ count \in Nat
      /\ Awaited(c, page, count) /\ IsThread(page) /\ Thread(page, count) /\ IsRequest(c)
      /\ ~page.loading /\ ~page.error
  BY DEF AnswerJump, Answered, IInv, Requests, Awaited, Thread, Idle
<1>2. /\ page.open /\ page.older /\ page.more /\ c.value \in 1..page.cursor
      /\ IsPage(list, c.value, count) /\ c.prev \in Seq(SUBSET Nat)
      /\ Collected(c) = {id \in 1..count : c.value <= id /\ id < page.cursor}
      /\ page.cursor \in 1..page.newest /\ page.newest \in 0..count
  BY <1>1 DEF Awaited, Thread, History
<1>3. page.cursor \in Nat /\ c.value \in Nat /\ c.value # 0 /\ c.value <= page.cursor
      /\ page.cursor <= count /\ page.cursor # 0
  BY <1>1, <1>2
<1>4. /\ list = [items |-> list.items, more |-> list.more, cursor |-> list.cursor]
      /\ list.more \in BOOLEAN /\ list.items \subseteq 1..count
      /\ \A id \in list.items : id < c.value
      /\ list.more => list.cursor \in list.items /\ \A id \in list.items : list.cursor <= id
      /\ \A id \in 1..count : id < c.value /\ (list.more => list.cursor <= id) => id \in list.items
  BY <1>2, <1>3 DEF IsPage
<1>5. all \in Seq(SUBSET Nat) /\ older = list.items \cup Collected(c)
  <2>1. list.items \in SUBSET Nat
    BY <1>4
  <2> QED
    BY <1>2, <2>1, CollectedGrows DEF Collected
<1>6. older = {id \in 1..count : (list.more => list.cursor <= id) /\ id < page.cursor}
  <2>1. ASSUME NEW id \in older
        PROVE  id \in 1..count /\ (list.more => list.cursor <= id) /\ id < page.cursor
    <3>1. CASE id \in list.items
      BY <1>3, <1>4, <3>1
    <3>2. CASE id \in Collected(c)
      <4>1. id \in 1..count /\ c.value <= id /\ id < page.cursor
        BY <1>2, <3>2
      <4>2. list.more => list.cursor \in 1..count /\ list.cursor < c.value
        BY <1>4
      <4> QED
        BY <1>3, <4>1, <4>2
    <3> QED
      BY <1>5, <2>1, <3>1, <3>2
  <2>2. ASSUME NEW id \in 1..count, list.more => list.cursor <= id, id < page.cursor
        PROVE  id \in older
    <3>1. CASE id < c.value
      BY <1>4, <1>5, <2>2, <3>1
    <3>2. CASE c.value <= id
      BY <1>2, <1>5, <2>2, <3>2
    <3> QED
      BY <1>3, <3>1, <3>2
  <2> QED
    BY <2>1, <2>2
<1>7. CASE ~found /\ list.more
  <2>1. /\ calls' = (calls \ {c}) \cup {[c EXCEPT !.todo = <<"list">>, !.list = Nothing,
                                                   !.prev = all, !.value = list.cursor]}
        /\ page' = page
    BY <1>7 DEF AnswerJump
  <2>2. PICK d : d = [c EXCEPT !.todo = <<"list">>, !.list = Nothing, !.prev = all,
                               !.value = list.cursor]
    OBVIOUS
  <2>3. <<"list">> \in Todos("jump") /\ <<"list">> # <<>>
    BY DEF Todos
  <2>4. /\ IsRequest(d) /\ d.kind = c.kind /\ d.field = c.field /\ d.live = c.live
        /\ d.todo = <<"list">> /\ d.prev = all /\ d.value = list.cursor
    BY <1>1, <2>2, <2>3 DEF IsRequest
  <2>5. list.cursor \in 1..page.cursor
    BY <1>3, <1>4, <1>7
  <2>6. Collected(d) = {id \in 1..count : d.value <= id /\ id < page.cursor}
    BY <1>6, <1>7, <2>4 DEF Collected
  <2>7. Awaited(d, page, count)
    BY <1>1, <1>2, <1>5, <2>3, <2>4, <2>5, <2>6 DEF Awaited
  <2>8. Requests((calls \ {c}) \cup {d}, page, count)
    BY <2>4, <2>7, CallGoesOn DEF IInv
  <2> QED
    BY <1>1, <2>1, <2>2, <2>8 DEF IInv
<1>8. CASE found
  <2>1. PICK l : l = [list EXCEPT !.items = older]
    OBVIOUS
  <2>2. page' = OlderLoaded(page, l) /\ calls' = calls \ {c}
    BY <1>8, <2>1 DEF AnswerJump
  <2>3. /\ l = [items |-> l.items, more |-> l.more, cursor |-> l.cursor]
        /\ l.items = older /\ l.more = list.more /\ l.cursor = list.cursor
    <3> HIDE DEF list, older
    <3> QED
      BY <1>4, <2>1
  <2>4. l.more => l.cursor \in older /\ \A id \in older : l.cursor <= id
    BY <1>4, <1>5, <1>6, <2>3
  <2>5. \A id \in 1..count : id < page.cursor /\ (l.more => l.cursor <= id) => id \in older
    BY <1>6, <2>3
  <2>6. older \subseteq 1..count /\ \A id \in older : id < page.cursor
    BY <1>6
  <2> HIDE DEF older, list
  <2>7. IsPage(l, page.cursor, count)
    BY <1>3, <1>4, <2>3, <2>4, <2>5, <2>6 DEF IsPage
  <2> QED
    BY <1>1, <2>2, <2>7, OlderLoadedInv
<1>9. CASE ~found /\ ~list.more
  <2>1. page' = [page EXCEPT !.older = FALSE] /\ calls' = calls \ {c}
    BY <1>9 DEF AnswerJump
  <2> QED
    BY <1>1, <2>1, OlderGivenUpInv
<1> QED
  BY <1>4, <1>7, <1>8, <1>9

\* Nobody waits any more for this one.
LEMMA UnheardInv ==
    ASSUME IInv, NEW c \in calls, page' = page, count' = count, calls' = calls \ {c}
    PROVE  IInv'
<1>1. Requests(calls \ {c}, page, count)
  BY CallsKept DEF IInv
<1> QED
  BY <1>1 DEF IInv

LEMMA FailInv ==
    ASSUME IInv, NEW c \in calls, Fail(c)
    PROVE  IInv'
<1>1. count' = count /\ calls' = calls \ {c} /\ IsRequest(c) /\ IsThread(page)
  BY DEF Fail, IInv, Requests, Thread
<1>2. CASE ~c.live
  BY <1>1, <1>2, UnheardInv DEF Fail
<1>3. CASE c.live
  <2>1. page' = Failed(page, c) /\ Awaited(c, page, count) /\ page.open
    BY <1>3 DEF Fail, IInv, Requests, Awaited
  <2>2. CASE c.kind = "load"
    <3>1. page' = [page EXCEPT !.loading = FALSE, !.error = TRUE] /\ Idle(page)
      BY <2>1, <2>2 DEF Failed, Awaited, IInv, Thread
    <3>2. /\ IsThread(page') /\ page'.open /\ ~page'.loading /\ page'.error
          /\ page'.messages = page.messages /\ page'.cursor = page.cursor
          /\ page'.more = page.more /\ page'.newest = page.newest
          /\ page'.older = page.older /\ page'.sending = page.sending
          /\ page'.draft = page.draft /\ page'.saved = page.saved /\ page'.saving = page.saving
      BY <1>1, <2>1, <3>1 DEF IsThread
    <3>3. Idle(page')
      BY <3>1, <3>2 DEF Idle
    <3>4. Thread(page', count)
      BY <3>2, <3>3 DEF IInv, Thread, History
    <3> QED
      BY <1>1, <1>3, <2>2, <3>2, <3>4, LoadEndsInv
  <2>3. CASE c.kind \in {"older", "jump"}
    <3>1. page' = [page EXCEPT !.older = FALSE]
      BY <2>1, <2>3 DEF Failed
    <3> QED
      BY <1>1, <1>3, <2>3, <3>1, OlderGivenUpInv
  <2>4. CASE c.kind = "send"
    <3>1. page' = [page EXCEPT !.sending = FALSE] /\ ~page.loading /\ ~page.error
      BY <2>1, <2>4 DEF Failed, Awaited, IInv, Thread, Idle
    <3>2. /\ IsThread(page') /\ page'.open /\ page'.loading = page.loading
          /\ page'.error = page.error
          /\ page'.messages = page.messages /\ page'.cursor = page.cursor
          /\ page'.more = page.more /\ page'.newest = page.newest
          /\ page'.older = page.older
          /\ page'.draft = page.draft /\ page'.saved = page.saved /\ page'.saving = page.saving
      BY <1>1, <2>1, <3>1 DEF IsThread
    <3>3. Thread(page', count)
      BY <3>1, <3>2 DEF IInv, Thread, History
    <3>4. ASSUME NEW d, Awaited(d, page, count), ~Rivals(c, d)
          PROVE  Awaited(d, page', count)
      BY <2>4, <3>2, <3>4 DEF Awaited, Rivals
    <3> QED
      BY <1>1, <1>3, <3>3, <3>4, SettledInv
  <2>5. CASE c.kind = "save" /\ c.field = "comment"
    <3>1. /\ IsThread(page')
          /\ page'.open = page.open /\ page'.loading = page.loading /\ page'.error = page.error
          /\ page'.messages = page.messages /\ page'.cursor = page.cursor
          /\ page'.more = page.more /\ page'.newest = page.newest
          /\ page'.older = page.older /\ page'.sending = page.sending
      BY <1>1, <2>1, <2>5 DEF Failed, IsThread
    <3> QED
      BY <1>1, <1>3, <2>5, <3>1, CommentSettledInv
  <2>6. CASE c.kind \in {"poll", "meta", "edit"} \/ (c.kind = "save" /\ c.field # "comment")
    <3>1. Alike(page, page')
      BY <1>1, <2>1, <2>6 DEF Failed, Alike, IsThread
    <3> QED
      BY <1>1, <1>3, <3>1, QuietlySettledInv
  <2>7. c.kind \in Kinds
    BY <1>1 DEF IsRequest
  <2> QED
    BY <2>2, <2>3, <2>4, <2>5, <2>6, <2>7 DEF Kinds
<1> QED
  BY <1>2, <1>3

-----------------------------------------------------------------------------
(* The theorems. *)

LEMMA NextInv ==
    ASSUME IInv, [Next]_vars
    PROVE  IInv'
<1>1. CASE User
  BY <1>1, OpenInv, LeaveInv, LoadOlderInv, TypeCommentInv, SaveCommentInv, EditInv,
     SaveEditInv, SaveFieldInv, JumpInv, SendMessageInv DEF User
<1>2. CASE Poll
  BY <1>2, PollInv
<1>3. CASE Arrive
  <2>1. PICK c \in calls : Answer(c) \/ AnswerSend(c) \/ AnswerJump(c) \/ AnswerNobody(c)
    BY <1>3 DEF Arrive
  <2>2. CASE AnswerNobody(c)
    BY <2>2, UnheardInv DEF AnswerNobody
  <2> QED
    BY <2>1, <2>2, AnswerInv, AnswerSendInv, AnswerJumpInv
<1>4. CASE \E c \in calls : Serve(c) \/ Fail(c)
  BY <1>4, ServeInv, FailInv
<1>5. CASE WrittenElsewhere \/ \E f \in Fields : EditedElsewhere(f)
  BY <1>5, ElsewhereInv
<1>6. CASE UNCHANGED vars
  BY <1>6 DEF vars, IInv, Thread, Requests
<1> QED
  BY <1>1, <1>2, <1>3, <1>4, <1>5, <1>6 DEF Next

\* Every state of the page, and of the requests under way, is one that the invariant
\* describes.
THEOREM Invariance == Spec => []IInv
<1>1. Init => IInv
  BY InitInv
<1>2. IInv /\ [Next]_vars => IInv'
  BY NextInv
<1> QED
  BY <1>1, <1>2, PTL DEF Spec

\* The history that the page shows is contiguous, from the cursor to the newest message
\* it was loaded with, each message once and in its place, whatever scrolls, jumps, sent
\* messages, errors and late answers come in between.
THEOREM NoHole == Spec => []HistoryHasNoHole
<1>1. IInv => HistoryHasNoHole
  <2> SUFFICES ASSUME IInv PROVE HistoryHasNoHole
    OBVIOUS
  <2>1. /\ \A i, j \in DOMAIN page.messages : i < j => page.messages[i] < page.messages[j]
        /\ \A id \in 1..page.newest : (page.more => page.cursor <= id) =>
              \E i \in DOMAIN page.messages : page.messages[i] = id
        /\ page.newest \in Nat /\ (page.more => page.cursor \in Nat)
        /\ page.messages \in Seq(1..count)
    BY DEF IInv, Thread, History
  <2> QED
    BY <2>1 DEF HistoryHasNoHole, Contains
<1> QED
  BY <1>1, Invariance, PTL

\* The only answer that changes a draft that differs from what is saved.
LEMMA DraftAnswered ==
    ASSUME IInv, NEW c \in calls, Answer(c), page.draft # page.saved, page'.draft # page.draft
    PROVE  Answered(c) /\ c.field = "comment" /\ c.value = page.draft
<1>1. /\ Answered(c) /\ Awaited(c, page, count) /\ IsThread(page) /\ ~page.loading
      /\ c.kind \in Kinds \ {"load", "jump", "send"}
  <2>1. /\ Answered(c) /\ Awaited(c, page, count) /\ IsThread(page) /\ IsRequest(c)
        /\ page.loading => Idle(page)
    BY DEF Answer, Answered, IInv, Requests, Thread
  <2> QED
    BY <2>1 DEF Answer, Awaited, Idle, IsRequest
<1>2. CASE c.kind = "older"
  BY <1>1, <1>2 DEF Answer, OlderLoaded, IsThread
<1>3. CASE c.kind = "poll"
  <2>1. page' = [RefreshMeta(page, c.order) EXCEPT !.poll = FALSE]
    BY <1>3 DEF Answer
  <2> QED
    BY <1>1, <2>1 DEF RefreshMeta, IsThread
<1>4. CASE c.kind = "meta"
  <2>1. page' = RefreshMeta(page, c.order)
    BY <1>4 DEF Answer
  <2> QED
    BY <1>1, <2>1 DEF RefreshMeta, IsThread
<1>5. CASE c.kind = "edit"
  <2>1. page' = [page EXCEPT !.order = c.order, !.form = Nothing, !.saving = @ \ {"edit"}]
    BY <1>5 DEF Answer
  <2> QED
    BY <1>1, <2>1 DEF IsThread
<1>6. CASE c.kind = "save"
  <2>1. page' = Saved(page, c)
    BY <1>6 DEF Answer
  <2>2. CASE c.field = "comment"
    BY <1>1, <1>6, <2>2 DEF Awaited
  <2>3. CASE c.field # "comment"
    BY <1>1, <2>1, <2>3 DEF Saved, IsThread
  <2> QED
    BY <2>2, <2>3
<1> QED
  BY <1>1, <1>2, <1>3, <1>4, <1>5, <1>6 DEF Kinds

\* A comment that somebody is writing is replaced by no answer but that which says that
\* this very text is saved, and by nothing else that the page does while it is open.
THEOREM DraftSurvives == Spec => DraftIsKept
<1> DEFINE Step == page.draft # page.saved /\ page.draft' # page.draft /\ page'.open =>
                      \/ TypeComment
                      \/ \E c \in calls : Answered(c) /\ c.field = "comment" /\ c.value = page.draft
<1>1. ASSUME IInv, [Next]_vars
      PROVE  [Step]_page
  <2>1. SUFFICES ASSUME page.draft # page.saved, page'.draft # page.draft, page'.open,
                        ~TypeComment
                 PROVE  \E c \in calls : Answered(c) /\ c.field = "comment" /\ c.value = page.draft
    OBVIOUS
  <2>2. IsThread(page) /\ (~page.open => page = Closed)
    BY <1>1 DEF IInv, Thread
  <2>3. page.open
    BY <2>1, <2>2 DEF Closed
  <2>4. page' # page /\ page' # Closed
    BY <2>1 DEF Closed
  <2>5. CASE User
    <3>1. ASSUME NEW todo, Open(todo) PROVE FALSE
      BY <2>3, <3>1 DEF Open
    <3>2. ASSUME Leave PROVE FALSE
      BY <2>4, <3>2 DEF Leave
    <3>3. ASSUME LoadOlder \/ SaveComment \/ OpenEdit \/ CancelEdit PROVE FALSE
      BY <2>1, <2>2, <3>3 DEF LoadOlder, SaveComment, OpenEdit, CancelEdit, IsThread
    <3>4. ASSUME NEW changed, SaveEdit(changed) PROVE FALSE
      BY <2>1, <2>2, <3>4 DEF SaveEdit, IsThread
    <3>5. ASSUME NEW f, SaveField(f) PROVE FALSE
      BY <2>1, <2>2, <3>5 DEF SaveField, IsThread
    <3>6. ASSUME NEW target, JumpToPinnedSketch(target) PROVE FALSE
      BY <2>1, <2>2, <3>6 DEF JumpToPinnedSketch, IsThread
    <3>7. ASSUME NEW todo, SendMessage(todo) PROVE FALSE
      BY <2>1, <2>2, <3>7 DEF SendMessage, IsThread
    <3> QED
      BY <2>1, <2>5, <3>1, <3>2, <3>3, <3>4, <3>5, <3>6, <3>7 DEF User
  <2>6. CASE Poll
    BY <2>1, <2>2, <2>6 DEF Poll, IsThread
  <2>7. CASE Arrive
    <3>1. PICK c \in calls : Answer(c) \/ AnswerSend(c) \/ AnswerJump(c) \/ AnswerNobody(c)
      BY <2>7 DEF Arrive
    <3>2. CASE Answer(c)
      BY <1>1, <2>1, <3>2, DraftAnswered
    <3>3. CASE AnswerSend(c)
      BY <2>1, <2>2, <3>3 DEF AnswerSend, IsThread
    <3>4. CASE AnswerJump(c)
      BY <2>1, <2>2, <3>4 DEF AnswerJump, OlderLoaded, IsThread
    <3>5. CASE AnswerNobody(c)
      BY <2>4, <3>5 DEF AnswerNobody
    <3> QED
      BY <3>1, <3>2, <3>3, <3>4, <3>5
  <2>8. CASE \E c \in calls : Serve(c) \/ Fail(c)
    <3>1. PICK c \in calls : Fail(c)
      BY <2>4, <2>8 DEF Serve
    <3>2. IsRequest(c) /\ page' = Failed(page, c)
      BY <1>1, <2>4, <3>1 DEF Fail, IInv, Requests
    <3>3. c.kind \in Kinds
      BY <3>2 DEF IsRequest
    <3> QED
      BY <2>1, <2>2, <3>2, <3>3 DEF Failed, Kinds, IsThread
  <2>9. CASE WrittenElsewhere \/ (\E f \in Fields : EditedElsewhere(f)) \/ UNCHANGED vars
    BY <2>4, <2>9 DEF WrittenElsewhere, EditedElsewhere, vars
  <2> QED
    BY <1>1, <2>5, <2>6, <2>7, <2>8, <2>9 DEF Next
<1>2. Spec => [][Step]_page
  BY <1>1, Invariance, PTL DEF Spec
<1> QED
  BY <1>2 DEF DraftIsKept

-----------------------------------------------------------------------------
(* The card behind the page (OrderEdits), for any editors, files, sketches   *)
(* and values.                                                               *)

\* What a request knows, and, once it is about photos or sketches, that it names one.
IsEdit(r) ==
    \/ r = Edits!NoRequest
    \/ /\ r = [at |-> r.at, op |-> r.op, item |-> r.item, seen |-> r.seen]
       /\ r.at \in {"check", "write"} => r.op \in {"add", "remove"} /\ r.item \in Edits!Items

\* What was asked for is there, and every request is in shape.
EditsInv ==
    /\ photos \subseteq Photos /\ pins \subseteq Sketches
    /\ request = [e \in Editors |-> request[e]]
    /\ \A e \in Editors : IsEdit(request[e])
    /\ Edits!AdditionsStay

\* A request of one editor begins, goes on or ends, the others stay as they are.
LEMMA OneRequest ==
    ASSUME EditsInv, NEW e \in Editors, NEW r, IsEdit(r), request' = [request EXCEPT ![e] = r]
    PROVE  /\ request' = [d \in Editors |-> request'[d]]
           /\ \A d \in Editors : IsEdit(request'[d])
BY DEF EditsInv

\* A request that ends leaves its place empty.
LEMMA EndsKeeps ==
    ASSUME EditsInv, NEW e \in Editors, Edits!Ends(e)
    PROVE  /\ request' = [d \in Editors |-> request'[d]]
           /\ \A d \in Editors : IsEdit(request'[d])
BY OneRequest DEF Edits!Ends, IsEdit

\* A request that goes on writes only what it has checked.
LEMMA GoesKeeps ==
    ASSUME EditsInv, NEW e \in Editors, NEW place, Edits!Goes(e, place),
          request[e] # Edits!NoRequest,
           place = "write" => request[e].at = "check",
           place # "check"
    PROVE  /\ request' = [d \in Editors |-> request'[d]]
           /\ \A d \in Editors : IsEdit(request'[d])
<1> DEFINE r == [request[e] EXCEPT !.at = place]
<1>1. request' = [request EXCEPT ![e] = r]
  BY DEF Edits!Goes
<1>2. IsEdit(r)
  BY DEF EditsInv, IsEdit
<1> QED
  BY <1>1, <1>2, OneRequest

\* A request begins: what it names may be named.
LEMMA BeginsKeeps ==
    ASSUME EditsInv, NEW e \in Editors,
          Edits!Update(e) \/ Edits!UpdateDate(e) \/ Edits!UpdateComment(e)
    PROVE  EditsInv'
<1>1. PICK r : IsEdit(r) /\ request' = [request EXCEPT ![e] = r]
  <2>1. CASE Edits!Update(e)
    <3>1. PICK op \in {"add", "remove"}, item \in Edits!Items :
             request' = [request EXCEPT ![e] = [at |-> "check", op |-> op, item |-> item,
                   seen |-> Edits!Seen]]
      BY <2>1 DEF Edits!Update
    <3>2. IsEdit([at |-> "check", op |-> op, item |-> item, seen |-> Edits!Seen])
      BY DEF IsEdit
    <3> QED
      BY <3>1, <3>2
  <2>2. CASE Edits!UpdateDate(e)
    <3>1. PICK name \in {"started", "ready"}, day \in 0..2 :
             request' = [request EXCEPT ![e] = [at |-> "checkDate", op |-> name, item |-> day,
                   seen |-> Edits!Seen]]
      BY <2>2 DEF Edits!UpdateDate
    <3>2. IsEdit([at |-> "checkDate", op |-> name, item |-> day, seen |-> Edits!Seen])
      BY DEF IsEdit
    <3> QED
      BY <3>1, <3>2
  <2>3. CASE Edits!UpdateComment(e)
    <3>1. PICK v \in Values \ {local.comment} :
             request' = [request EXCEPT ![e] = [at |-> "send", op |-> "comment", item |-> v,
                   seen |-> Edits!Seen]]
      BY <2>3 DEF Edits!UpdateComment
    <3>2. IsEdit([at |-> "send", op |-> "comment", item |-> v, seen |-> Edits!Seen])
      BY DEF IsEdit
    <3> QED
      BY <3>1, <3>2
  <2> QED
    BY <2>1, <2>2, <2>3
<1>2. UNCHANGED <<photos, pins, wanted>>
  BY DEF Edits!Update, Edits!UpdateDate, Edits!UpdateComment, Edits!card
<1> QED
  BY <1>1, <1>2, OneRequest DEF EditsInv, Edits!AdditionsStay

\* A check changes nothing that others have added.
LEMMA ChecksKeep ==
    ASSUME EditsInv, NEW e \in Editors, Edits!Check(e) \/ Edits!CheckDate(e)
    PROVE  EditsInv'
<1>1. Edits!Ends(e) \/ Edits!Goes(e, IF request[e].at = "check" THEN "write" ELSE "writeDate")
  BY DEF Edits!Check, Edits!CheckDate
<1>2. request[e].at \in {"check", "checkDate"}
  BY DEF Edits!Check, Edits!CheckDate
<1>3. request[e] # Edits!NoRequest
  BY <1>2 DEF Edits!NoRequest
<1>4. /\ request' = [d \in Editors |-> request'[d]]
      /\ \A d \in Editors : IsEdit(request'[d])
  BY <1>1, <1>2, <1>3, EndsKeeps, GoesKeeps
<1>5. UNCHANGED <<photos, pins>> /\ wanted' \subseteq wanted
  BY DEF Edits!Check, Edits!CheckDate, Edits!card
<1> QED
  BY <1>4, <1>5 DEF EditsInv, Edits!AdditionsStay

\* Whoever has written since the request has read: only what it names is added or removed.
LEMMA WriteKeeps ==
    ASSUME EditsInv, NEW e \in Editors, Edits!Write(e)
    PROVE  EditsInv'
<1> DEFINE r == request[e]
           pinned == r.op = "add" /\ r.item \in Sketches /\ r.item \in pins
           items == IF pinned THEN photos \cup pins ELSE Edits!Written(r, photos \cup pins)
<1>1. /\ r.at = "write" /\ Edits!Ends(e)
      /\ photos' = items \cap Photos /\ pins' = items \cap Sketches
      /\ wanted' = IF r.op = "add" THEN wanted \cup {r.item} ELSE wanted \ {r.item}
  BY DEF Edits!Write
<1>2. r.item \in Edits!Items /\ r.op \in {"add", "remove"}
  BY <1>1 DEF EditsInv, IsEdit, Edits!NoRequest
<1>3. items \subseteq Edits!Items /\ wanted' \subseteq items
  BY <1>1, <1>2 DEF EditsInv, Edits!AdditionsStay, Edits!Written, Edits!Items
<1>4. photos' \subseteq Photos /\ pins' \subseteq Sketches /\ Edits!AdditionsStay'
  BY <1>1, <1>3 DEF Edits!AdditionsStay, Edits!Items
<1> QED
  BY <1>1, <1>4, EndsKeeps DEF EditsInv

\* Comments and dates do not touch photos and sketches.
LEMMA CommentKeeps ==
    ASSUME EditsInv, NEW e \in Editors,
          Edits!SendComment(e) \/ Edits!SaveComment(e) \/ Edits!WriteDate(e)
    PROVE  EditsInv'
<1>1. Edits!Ends(e) \/ (request[e].at = "send" /\ Edits!Goes(e, "save"))
  BY DEF Edits!SendComment, Edits!SaveComment, Edits!WriteDate
<1>2. /\ request' = [d \in Editors |-> request'[d]]
      /\ \A d \in Editors : IsEdit(request'[d])
  BY <1>1, EndsKeeps, GoesKeeps DEF Edits!NoRequest
<1>3. UNCHANGED <<photos, pins, wanted>>
  BY DEF Edits!SendComment, Edits!SaveComment, Edits!WriteDate, Edits!card
<1> QED
  BY <1>2, <1>3 DEF EditsInv, Edits!AdditionsStay

\* What a request has added to the order, a photo for print or a pinned sketch, stays on
\* it until a request names it for removal, however the requests of others read and write
\* the same lists meanwhile.
THEOREM AdditionsAreKept == Edits!Spec => []Edits!AdditionsStay
<1>1. Edits!Init => EditsInv
  BY DEF Edits!Init, EditsInv, IsEdit, Edits!AdditionsStay
<1>2. ASSUME EditsInv, [Edits!Next]_Edits!vars PROVE EditsInv'
  <2>1. CASE UNCHANGED <<photos, pins, request, wanted>>
    BY <1>2, <2>1 DEF EditsInv, Edits!AdditionsStay
  <2>2. CASE Edits!UpdateCrmStatus \/ Edits!EditRemote \/ Edits!AskImport \/
             Edits!Import \/ Edits!ImportFails
    BY <2>1, <2>2 DEF Edits!UpdateCrmStatus, Edits!EditRemote, Edits!AskImport, Edits!Import,
          Edits!ImportFails, Edits!card
  <2>3. ASSUME NEW e \in Editors,
        Edits!Update(e) \/ Edits!UpdateDate(e) \/ Edits!UpdateComment(e) \/ Edits!Step(e)
        PROVE  EditsInv'
    BY <1>2, <2>3, BeginsKeeps, ChecksKeep, WriteKeeps, CommentKeeps DEF Edits!Step
  <2> QED
    BY <1>2, <2>1, <2>2, <2>3 DEF Edits!Next, Edits!vars, Edits!card
<1>3. EditsInv => Edits!AdditionsStay
  BY DEF EditsInv
<1> QED
  BY <1>1, <1>2, <1>3, PTL DEF Edits!Spec

-----------------------------------------------------------------------------
(* The page of a chat (ChatThread), for any size of its pages and any number *)
(* of messages, edits, errors and sockets.                                   *)

Ids(messages) == Chat!Ids(messages)

Once(messages) == \A i, j \in DOMAIN messages : i # j => messages[i].id # messages[j].id

\* What the server has answered to a request for the messages before an id.
IsAnswer(list, before, n) ==
    /\ IsList(list.items) /\ Once(list.items)
    /\ IsPage([items |-> Ids(list.items), more |-> list.more, cursor |-> list.cursor], before, n)

\* A page that has not loaded, or could not, knows nothing of the history yet, though it
\* may have heard of messages.
ChatPage(p, n) ==
    /\ p = [open |-> p.open, loading |-> p.loading, error |-> p.error, chat |-> p.chat,
            messages |-> p.messages, cursor |-> p.cursor, more |-> p.more,
            newest |-> p.newest, older |-> p.older, sending |-> p.sending]
    /\ IsList(p.messages) /\ Once(p.messages)
    /\ p.loading \in BOOLEAN /\ p.error \in BOOLEAN /\ p.more \in BOOLEAN /\ p.older \in BOOLEAN
    /\ p.newest \in 0..n /\ (p.more => p.cursor \in 1..n)
    /\ p.loading \/ p.error => p.newest = 0 /\ ~p.more /\ ~p.older
    /\ ~(p.loading /\ p.error)
    /\ \A id \in 1..p.newest : (p.more => p.cursor <= id) => id \in Ids(p.messages)

ChatTodos(kind) ==
    CASE kind = "load" -> {<<"chat", "list">>, <<"list", "chat">>, <<"chat">>, <<"list">>, <<>>}
      [] kind = "older" -> {<<"list">>, <<>>}
      [] kind = "send" -> {<<"post">>, <<>>}
      [] kind = "edit" -> {<<"write">>, <<>>}
      [] kind = "members" -> {<<"members">>, <<>>}

IsChatRequest(c) ==
    /\ c = [kind |-> c.kind, todo |-> c.todo, chat |-> c.chat, list |-> c.list,
            id |-> c.id, text |-> c.text]
    /\ c.kind \in {"load", "older", "send", "edit", "members"}
    /\ c.todo \in ChatTodos(c.kind)

\* A request that the page waits for, and what it has locked.
Expected(c, p, n) ==
    /\ p.open
    /\ c.kind = "load" =>
          /\ p.loading /\ c.id = 0
          /\ c.todo \in {<<"chat">>, <<>>} => IsAnswer(c.list, 0, n)
    /\ c.kind = "older" =>
          /\ p.older /\ p.more /\ c.id = p.cursor
          /\ c.todo = <<>> => IsAnswer(c.list, c.id, n)

ChatRequests(S, p, n) ==
    /\ \A c \in S : IsChatRequest(c) /\ Expected(c, p, n)
    /\ \A c, d \in S : c.kind \in {"load", "older"} /\ c.kind = d.kind => c = d

ChatInv ==
    /\ IsList(texts)
    /\ ChatPage(chatPage, Len(texts)) /\ ChatRequests(chatCalls, chatPage, Len(texts))

-----------------------------------------------------------------------------
(* Lists of messages. *)

\* One more at the end.
LEMMA Appended ==
    ASSUME NEW s, IsList(s), NEW m
    PROVE  /\ IsList(Append(s, m)) /\ Len(Append(s, m)) = Len(s) + 1
           /\ Ids(Append(s, m)) = Ids(s) \cup {m.id}
           /\ Once(s) /\ m.id \notin Ids(s) => Once(Append(s, m))
<1> DEFINE T == Range(s) \cup {m}  t == Append(s, m)  k == Len(s)
<1>1. s \in Seq(T) /\ k \in Nat /\ DOMAIN s = 1..k
  BY DEF IsList
<1>2. /\ t \in Seq(T) /\ Len(t) = k + 1 /\ DOMAIN t = 1..(k + 1)
      /\ \A i \in 1..k : t[i] = s[i]
      /\ t[k + 1] = m
  BY <1>1
<1> HIDE DEF t, k, T
<1>3. t \in Seq(Range(t))
  <2>1. t \in [1..(k + 1) -> Range(t)]
    BY <1>2 DEF Range
  <2> QED
    BY <1>1, <2>1
<1>4. \A i \in 1..(k + 1) : i \in 1..k \/ i = k + 1
  BY <1>1
<1>5. 1..k \subseteq 1..(k + 1) /\ k + 1 \in 1..(k + 1) /\ k + 1 \notin 1..k
  BY <1>1
<1>6. Ids(t) = Ids(s) \cup {m.id}
  BY <1>1, <1>2, <1>4, <1>5 DEF Ids, Chat!Ids
<1>7. ASSUME Once(s), m.id \notin Ids(s) PROVE Once(t)
  <2>1. \A i \in 1..k : s[i].id # m.id
    BY <1>1, <1>7 DEF Ids, Chat!Ids
  <2> QED
    BY <1>1, <1>2, <1>4, <1>5, <1>7, <2>1 DEF Once
<1> QED
  BY <1>2, <1>3, <1>6, <1>7 DEF IsList, t, k

\* A message that the page hears of is shown once.
LEMMA ShownOnce ==
    ASSUME NEW s, IsList(s), Once(s), NEW m
    PROVE  LET t == Chat!ShowNew(s, m) IN IsList(t) /\ Once(t) /\ Ids(s) \subseteq Ids(t)
BY Appended DEF Chat!ShowNew, Ids

\* A new text changes no id.
LEMMA TextShown ==
    ASSUME NEW s, IsList(s), Once(s), NEW m
    PROVE  LET t == Chat!ShowText(s, m) IN IsList(t) /\ Once(t) /\ Ids(s) \subseteq Ids(t)
<1> DEFINE t == Chat!ShowText(s, m)  k == Len(s)
<1>1. k \in Nat /\ DOMAIN s = 1..k
  BY DEF IsList
<1>2. t = [i \in 1..k |-> IF s[i].id = m.id THEN m ELSE s[i]]
  BY <1>1 DEF Chat!ShowText
<1>3. DOMAIN t = 1..k /\ \A i \in 1..k : t[i].id = s[i].id
  BY <1>2
<1>4. t \in [1..k -> Range(t)]
  BY <1>2 DEF Range
<1> HIDE DEF t, k
<1>5. IsList(t)
  BY <1>1, <1>4 DEF IsList
<1>6. Once(t) /\ Ids(s) \subseteq Ids(t)
  BY <1>1, <1>3 DEF Once, Ids, Chat!Ids
<1> QED
  BY <1>5, <1>6 DEF t

\* The ids of a set, and a part of a list, as the order's page takes them.
LEMMA SameSorting ==
    /\ \A S : Chat!Ascending(S) = Ascending(S)
    /\ \A s, places : Chat!Sublist(s, places) = Sublist(s, places)
BY DEF Chat!Ascending, Ascending, Chat!Sublist, Sublist, Chat!Cardinality, Cardinality

\* An older page is put in front, and no message is there twice.
LEMMA Prepended ==
    ASSUME NEW s, IsList(s), Once(s), NEW older, IsList(older), Once(older)
    PROVE  LET t == Chat!Prepend(s, older)
           IN IsList(t) /\ Once(t) /\ Ids(s) \subseteq Ids(t) /\ Ids(older) \subseteq Ids(t)
<1> DEFINE new == {i \in DOMAIN older : older[i].id \notin Ids(s)}
           fresh == Ascending(new)  F == Sublist(older, new)
           K == Len(F)  L == Len(s)  t == F \o s
           T == Range(F) \cup Range(s)
<1>1. Chat!Prepend(s, older) = t
  BY SameSorting DEF Chat!Prepend, Ids
<1>2. Len(older) \in Nat /\ DOMAIN older = 1..Len(older) /\ new \in SUBSET (1..Len(older))
  BY DEF IsList
<1>3. /\ IsList(F)
      /\ \A i \in DOMAIN F : fresh[i] \in new /\ F[i] = older[fresh[i]]
      /\ \A k \in new : \E i \in DOMAIN F : fresh[i] = k
      /\ \A i, j \in DOMAIN F : i < j => fresh[i] < fresh[j]
  <2>1. new \in SUBSET DOMAIN older
    OBVIOUS
  <2> HIDE DEF new
  <2> QED
    BY <2>1, SublistPicks
<1> HIDE DEF fresh, F
<1>4. K \in Nat /\ DOMAIN F = 1..K /\ L \in Nat /\ DOMAIN s = 1..L
  BY <1>3 DEF IsList
<1>6. F \in Seq(T) /\ s \in Seq(T)
  BY <1>3 DEF IsList
<1> HIDE DEF T
<1>7. \A i \in 1..K : fresh[i] \in new /\ F[i] = older[fresh[i]]
  BY <1>3, <1>4
<1>8. /\ t \in Seq(T) /\ Len(t) = K + L /\ DOMAIN t = 1..(K + L)
      /\ \A i \in 1..K : t[i] = F[i]
      /\ \A i \in 1..L : t[K + i] = s[i]
  BY <1>4, <1>6
<1> HIDE DEF t
<1>9. IsList(t)
  <2>1. t \in [1..(K + L) -> Range(t)] /\ K + L \in Nat
    BY <1>4, <1>8 DEF Range
  <2>2. t \in Seq(Range(t))
    <3> DEFINE N == K + L
    <3> HIDE DEF N
    <3>1. t \in [1..N -> Range(t)] /\ N \in Nat
      BY <2>1 DEF N
    <3> QED
      BY <3>1
  <2> QED
    BY <2>2 DEF IsList
<1>10. \A i \in 1..K : i \in 1..(K + L) /\ t[i].id \in Ids(older) \ Ids(s)
  BY <1>2, <1>4, <1>7, <1>8, SMTT(40) DEF Ids, Chat!Ids
<1>11. \A i \in 1..L : K + i \in 1..(K + L) /\ t[K + i].id \in Ids(s)
  BY <1>4, <1>8 DEF Ids, Chat!Ids
<1>12. \A i \in 1..(K + L) : i \in 1..K \/ \E j \in 1..L : i = K + j
  <2> TAKE i \in 1..(K + L)
  <2>1. i \in 1..K \/ i - K \in 1..L
    BY <1>4
  <2>2. i = K + (i - K)
    BY <1>4
  <2> QED
    BY <2>1, <2>2
<1>13. ASSUME NEW i \in 1..K, NEW j \in 1..K, i # j PROVE t[i].id # t[j].id
  <2>1. fresh[i] # fresh[j]
    <3>1. \A k \in 1..K : fresh[k] \in Nat
      BY <1>2, <1>7
    <3>2. i < j \/ j < i
      BY <1>4, <1>13
    <3> QED
      BY <1>3, <1>4, <3>1, <3>2, SMTT(30)
  <2> QED
    <3>1. /\ t[i].id = older[fresh[i]].id /\ fresh[i] \in DOMAIN older
          /\ t[j].id = older[fresh[j]].id /\ fresh[j] \in DOMAIN older
      BY <1>2, <1>7, <1>8
    <3> QED
      BY <2>1, <3>1 DEF Once
<1>14. ASSUME NEW i \in 1..L, NEW j \in 1..L, i # j PROVE t[K + i].id # t[K + j].id
  <2>1. t[K + i] = s[i] /\ t[K + j] = s[j]
    BY <1>8
  <2>2. i \in DOMAIN s /\ j \in DOMAIN s
    BY <1>4
  <2> QED
    BY <1>14, <2>1, <2>2 DEF Once
<1>15. Once(t)
  <2> SUFFICES ASSUME NEW i \in 1..(K + L), NEW j \in 1..(K + L), i # j
               PROVE  t[i].id # t[j].id
    BY <1>8 DEF Once
  <2>1. CASE i \in 1..K /\ j \in 1..K
    BY <1>13, <2>1
  <2>2. CASE i \in 1..K /\ j \notin 1..K
    BY <1>10, <1>11, <1>12, <2>2
  <2>3. CASE i \notin 1..K /\ j \in 1..K
    BY <1>10, <1>11, <1>12, <2>3
  <2>4. CASE i \notin 1..K /\ j \notin 1..K
    <3>1. PICK a \in 1..L, b \in 1..L : i = K + a /\ j = K + b
      BY <1>12, <2>4
    <3> QED
      BY <1>14, <3>1
  <2> QED
    BY <2>1, <2>2, <2>3, <2>4
<1>16. ASSUME NEW id \in Ids(s) PROVE id \in Ids(t)
  <2>1. PICK i \in 1..L : s[i].id = id
    BY <1>4, <1>16 DEF Ids, Chat!Ids
  <2>2. K + i \in 1..(K + L) /\ t[K + i].id = id
    BY <1>8, <1>11, <2>1
  <2> QED
    BY <1>8, <2>2 DEF Ids, Chat!Ids
<1>17. ASSUME NEW id \in Ids(older) PROVE id \in Ids(t)
  <2>1. PICK k \in DOMAIN older : older[k].id = id
    BY <1>17 DEF Ids, Chat!Ids
  <2>2. CASE id \in Ids(s)
    BY <1>16, <2>2
  <2>3. CASE id \notin Ids(s)
    <3>1. PICK i \in 1..K : fresh[i] = k
      BY <1>3, <1>4, <2>1, <2>3
    <3> QED
      BY <1>4, <1>7, <1>8, <1>10, <2>1, <3>1 DEF Ids, Chat!Ids
  <2> QED
    BY <2>2, <2>3
<1> QED
  BY <1>1, <1>9, <1>15, <1>16, <1>17 DEF t

\* listMessages answers a page.
LEMMA ChatListIsAnswer ==
    ASSUME IsList(texts), NEW before \in Nat
    PROVE  IsAnswer(Chat!ListPage(before), before, Len(texts))
<1> DEFINE n == Len(texts)
           rows == Rows(n, before)
           slice == Newest(rows, PageSize)
           more == Cardinality(rows) > PageSize
           sorted == Ascending(slice)
           cursor == IF more THEN Min(slice) ELSE 0
           list == Chat!ListPage(before)
<1>1. n \in Nat /\ DOMAIN texts = 1..n
  BY DEF IsList
<1>2. /\ \A S : Chat!Cardinality(S) = Cardinality(S)
      /\ \A S : Chat!Min(S) = Min(S)
  BY DEF Chat!Cardinality, Cardinality, Chat!Min, Min
<1>3. /\ list.items = [i \in DOMAIN sorted |-> Chat!Message(sorted[i])]
      /\ list.more = more /\ list.cursor = cursor
  BY <1>1, <1>2, SameSorting DEF Chat!ListPage, Rows, Newest
<1>4. IsPage([items |-> slice, more |-> more, cursor |-> cursor], before, n) /\ slice \subseteq 1..n
  BY <1>1, NewestArePage, LimitsAreNatural
<1> HIDE DEF slice, n, list, more, cursor
<1>5. /\ sorted \in Seq(slice)
      /\ \A id \in slice : \E i \in DOMAIN sorted : sorted[i] = id
      /\ \A i, j \in DOMAIN sorted : i < j => sorted[i] < sorted[j]
  BY <1>1, <1>4, AscendingSorts
<1> HIDE DEF sorted
<1> DEFINE items == list.items  K == Len(sorted)
<1>6. K \in Nat /\ DOMAIN sorted = 1..K /\ \A i \in 1..K : sorted[i] \in slice
  BY <1>5
<1>7. DOMAIN items = 1..K /\ \A i \in 1..K : items[i].id = sorted[i]
  BY <1>3, <1>6 DEF Chat!Message
<1>8. IsList(items)
  <2>1. items \in [1..K -> Range(items)]
    BY <1>3, <1>6 DEF Range
  <2> QED
    BY <1>6, <2>1, SMTT(40) DEF IsList
<1> HIDE DEF items, K
<1>9. Once(items)
  <2> SUFFICES ASSUME NEW i \in 1..K, NEW j \in 1..K, i # j PROVE sorted[i] # sorted[j]
    BY <1>7 DEF Once
  <2>1. sorted[i] \in Nat /\ sorted[j] \in Nat
    <3>1. slice \subseteq Nat
      BY <1>1, <1>4
    <3> QED
      BY <1>6, <3>1
  <2>2. CASE i < j
    BY <1>5, <1>6, <2>1, <2>2
  <2>3. CASE j < i
    BY <1>5, <1>6, <2>1, <2>3
  <2> QED
    BY <1>6, <2>2, <2>3
<1>10. Ids(items) = slice
  BY <1>5, <1>6, <1>7 DEF Ids, Chat!Ids
<1> QED
  BY <1>3, <1>4, <1>8, <1>9, <1>10 DEF IsAnswer, items, n, list

-----------------------------------------------------------------------------
(* What the steps of a chat leave alone. *)

\* A page that goes on: it may have heard more.
GoesOn(p, q) ==
    /\ q = [p EXCEPT !.chat = q.chat, !.messages = q.messages, !.sending = q.sending]
    /\ IsList(q.messages) /\ Once(q.messages) /\ Ids(p.messages) \subseteq Ids(q.messages)

LEMMA PageGoesOn ==
    ASSUME NEW n \in Nat, NEW p, ChatPage(p, n), NEW q, GoesOn(p, q)
    PROVE  /\ ChatPage(q, n)
           /\ \A c : Expected(c, p, n) => Expected(c, q, n)
<1>1. /\ q.open = p.open /\ q.loading = p.loading /\ q.error = p.error /\ q.cursor = p.cursor
      /\ q.more = p.more /\ q.newest = p.newest /\ q.older = p.older
  BY DEF ChatPage, GoesOn
<1>2. q = [open |-> q.open, loading |-> q.loading, error |-> q.error, chat |-> q.chat,
           messages |-> q.messages, cursor |-> q.cursor, more |-> q.more,
           newest |-> q.newest, older |-> q.older, sending |-> q.sending]
  BY DEF ChatPage, GoesOn
<1>3. IsList(q.messages) /\ Once(q.messages) /\ Ids(p.messages) \subseteq Ids(q.messages)
  BY DEF GoesOn
<1>4. ChatPage(q, n)
  BY <1>1, <1>2, <1>3 DEF ChatPage
<1>5. \A c : Expected(c, p, n) => Expected(c, q, n)
  BY <1>1 DEF Expected
<1> QED
  BY <1>4, <1>5

\* So does one with fewer requests.
LEMMA GoesOnInv ==
    ASSUME ChatInv, GoesOn(chatPage, chatPage'), chatCalls' \subseteq chatCalls, texts' = texts
    PROVE  ChatInv'
<1>1. Len(texts) \in Nat /\ IsList(texts') /\ Len(texts') = Len(texts)
  BY DEF ChatInv, IsList
<1>2. ChatPage(chatPage', Len(texts)) /\ \A c : Expected(c, chatPage, Len(texts)) => Expected(c, chatPage', Len(texts))
  BY <1>1, PageGoesOn DEF ChatInv
<1>3. ChatRequests(chatCalls', chatPage', Len(texts))
  BY <1>2 DEF ChatInv, ChatRequests
<1> QED
  BY <1>1, <1>2, <1>3 DEF ChatInv

LEMMA StaysPut ==
    ASSUME ChatInv
    PROVE  GoesOn(chatPage, chatPage)
BY DEF ChatInv, ChatPage, GoesOn

\* More messages change nothing in what has been answered.
LEMMA ChatGrows ==
    ASSUME ChatInv, NEW m \in Nat, Len(texts) <= m
    PROVE  /\ ChatPage(chatPage, m)
           /\ \A c \in chatCalls : Expected(c, chatPage, m)
<1> DEFINE n == Len(texts)
<1>1. n \in Nat /\ ChatPage(chatPage, n) /\ \A c \in chatCalls : Expected(c, chatPage, n)
  BY DEF ChatInv, IsList, ChatRequests
<1> HIDE DEF n
<1>2. n <= m
  BY DEF n
<1>3. 0..n \subseteq 0..m /\ 1..n \subseteq 1..m
  BY <1>1, <1>2
<1>4. ChatPage(chatPage, m)
  BY <1>1, <1>3 DEF ChatPage
<1>5. ASSUME NEW c \in chatCalls PROVE Expected(c, chatPage, m)
  <2>1. ASSUME NEW list, NEW before \in 0..(n + 1), IsAnswer(list, before, n)
        PROVE  IsAnswer(list, before, m)
    BY <1>1, <1>2, <2>1, PageStays DEF IsAnswer
  <2>2. c.kind = "load" => c.id \in 0..(n + 1)
    BY <1>1 DEF Expected
  <2>3. c.kind = "older" => c.id \in 0..(n + 1)
    BY <1>1 DEF Expected, ChatPage
  <2> QED
    BY <1>1, <2>1, <2>2, <2>3 DEF Expected
<1> QED
  BY <1>4, <1>5

\* What the server writes: texts are changed or added.
LEMMA WritesGrow ==
    ASSUME IsList(texts),
           \/ Chat!CreateMessage \/ \E id, text : Chat!UpdateText(id, text)
           \/ \E version : Chat!UpdateChat(version) \/ Chat!RemoveChat
    PROVE  IsList(texts') /\ Len(texts') \in Nat /\ Len(texts) <= Len(texts')
<1>1. Len(texts) \in Nat /\ DOMAIN texts = 1..Len(texts)
  BY DEF IsList
<1>2. CASE Chat!CreateMessage
  <2>1. texts' = Append(texts, rewrites)
    BY <1>2 DEF Chat!CreateMessage
  <2> QED
    BY <1>1, <2>1, Appended
<1>3. ASSUME NEW id, NEW text, Chat!UpdateText(id, text)
      PROVE  IsList(texts') /\ Len(texts') = Len(texts)
  <2>1. texts' = [i \in 1..Len(texts) |-> IF i = id THEN text ELSE texts[i]]
    BY <1>1, <1>3 DEF Chat!UpdateText
  <2>2. texts' \in [1..Len(texts) -> Range(texts')]
    BY <2>1 DEF Range
  <2> QED
    BY <1>1, <2>2 DEF IsList
<1>4. ASSUME NEW version, Chat!UpdateChat(version) \/ Chat!RemoveChat
      PROVE  texts' = texts
  BY <1>4 DEF Chat!UpdateChat, Chat!RemoveChat
<1> QED
  BY <1>1, <1>2, <1>3, <1>4

-----------------------------------------------------------------------------
(* The steps of a chat. *)

LEMMA ChatInitInv ==
    ASSUME Chat!Init
    PROVE  ChatInv
<1>1. PICK n \in 0..MaxChatMessages : texts = [i \in 1..n |-> 0]
  BY DEF Chat!Init
<1>2. n \in Nat
  BY LimitsAreNatural
<1>3. texts \in [1..n -> Range(texts)]
  BY <1>1 DEF Range
<1>4. IsList(texts) /\ Len(texts) \in Nat
  BY <1>2, <1>3 DEF IsList
<1>5. IsList(<<>>) /\ Once(<<>>)
  BY DEF IsList, Once, Range
<1>6. ChatPage(chatPage, Len(texts))
  BY <1>4, <1>5 DEF Chat!Init, Chat!Closed, ChatPage
<1>7. ChatRequests(chatCalls, chatPage, Len(texts))
  BY DEF Chat!Init, ChatRequests
<1> QED
  BY <1>4, <1>6, <1>7 DEF ChatInv

LEMMA WrittenInv ==
    ASSUME ChatInv, Chat!WrittenElsewhere \/ Chat!EditedElsewhere
    PROVE  ChatInv'
<1>1. /\ chatPage' = chatPage /\ chatCalls' = chatCalls
      /\ \/ Chat!CreateMessage \/ \E id, text : Chat!UpdateText(id, text)
         \/ \E version : Chat!UpdateChat(version) \/ Chat!RemoveChat
  BY DEF Chat!WrittenElsewhere, Chat!EditedElsewhere
<1>2. IsList(texts') /\ Len(texts') \in Nat /\ Len(texts) <= Len(texts')
  BY <1>1, WritesGrow DEF ChatInv
<1>3. ChatPage(chatPage, Len(texts')) /\ \A c \in chatCalls : Expected(c, chatPage, Len(texts'))
  BY <1>2, ChatGrows
<1> QED
  BY <1>1, <1>2, <1>3 DEF ChatInv, ChatRequests

\* The page is left, or the chat is removed: nothing is shown and nothing is awaited.
LEMMA ClosedInv ==
    ASSUME ChatInv, chatPage' = Chat!Closed, chatCalls' = {}, texts' = texts
    PROVE  ChatInv'
<1>1. Len(texts) \in Nat
  BY DEF ChatInv, IsList
<1>2. IsList(<<>>) /\ Once(<<>>)
  BY DEF IsList, Once, Range
<1>3. ChatPage(chatPage', Len(texts))
  BY <1>1, <1>2 DEF Chat!Closed, ChatPage
<1>4. ChatRequests(chatCalls', chatPage', Len(texts))
  BY DEF ChatRequests
<1> QED
  BY <1>3, <1>4 DEF ChatInv

LEMMA HearInv ==
    ASSUME ChatInv, Chat!Hear
    PROVE  ChatInv'
<1> DEFINE e == Head(wire)  m == [id |-> e.id, text |-> e.text]
<1>1. texts' = texts /\ IsList(chatPage.messages) /\ Once(chatPage.messages)
  BY DEF Chat!Hear, Chat!server, ChatInv, ChatPage
<1>2. CASE e.name = "deleted"
  BY <1>1, <1>2, ClosedInv DEF Chat!Hear, Chat!Closing
<1>3. CASE e.name # "deleted"
  <2>1. /\ chatCalls' = chatCalls
        /\ \/ chatPage' = [chatPage EXCEPT !.messages = Chat!ShowNew(@, m)]
           \/ chatPage' = [chatPage EXCEPT !.messages = Chat!ShowText(@, m)]
           \/ chatPage' = [chatPage EXCEPT !.chat = e.chat]
    BY <1>3 DEF Chat!Hear
  <2> HIDE DEF m, e
  <2>2. GoesOn(chatPage, chatPage')
    <3>1. CASE chatPage' = [chatPage EXCEPT !.messages = Chat!ShowNew(@, m)]
      <4>1. chatPage'.messages = Chat!ShowNew(chatPage.messages, m)
        BY <3>1 DEF ChatInv, ChatPage
      <4> QED
        BY <1>1, <3>1, <4>1, ShownOnce DEF ChatInv, ChatPage, GoesOn
    <3>2. CASE chatPage' = [chatPage EXCEPT !.messages = Chat!ShowText(@, m)]
      <4>1. chatPage'.messages = Chat!ShowText(chatPage.messages, m)
        BY <3>2 DEF ChatInv, ChatPage
      <4> QED
        BY <1>1, <3>2, <4>1, TextShown DEF ChatInv, ChatPage, GoesOn
    <3>3. CASE chatPage' = [chatPage EXCEPT !.chat = e.chat]
      BY <1>1, <3>3 DEF ChatInv, ChatPage, GoesOn
    <3> QED
      BY <2>1, <3>1, <3>2, <3>3
  <2> QED
    BY <1>1, <2>1, <2>2, GoesOnInv
<1> QED
  BY <1>2, <1>3

LEMMA OpenChatInv ==
    ASSUME ChatInv, Chat!Open
    PROVE  ChatInv'
<1>1. PICK todo \in {<<"chat", "list">>, <<"list", "chat">>} :
          chatCalls' = chatCalls \cup {Chat!Request("load", todo)}
  BY DEF Chat!Open, Chat!Ask
<1>2. /\ ~chatPage.open /\ chatPage' = [Chat!Closed EXCEPT !.open = TRUE, !.loading = TRUE]
      /\ texts' = texts
  BY DEF Chat!Open, Chat!server
<1>3. chatCalls = {}
  BY <1>2 DEF ChatInv, ChatRequests, Expected
<1>4. IsList(<<>>) /\ Once(<<>>)
  BY DEF IsList, Once, Range
<1>5. Len(texts) \in Nat
  BY DEF ChatInv, IsList
<1>6. ChatPage(chatPage', Len(texts))
  <2>1. /\ ChatPage(Chat!Closed, Len(texts)) /\ Chat!Closed.messages = <<>>
        /\ Chat!Closed.error = FALSE /\ Chat!Closed.newest = 0
        /\ Chat!Closed.more = FALSE /\ Chat!Closed.older = FALSE
    BY <1>4, <1>5 DEF Chat!Closed, ChatPage
  <2>2. /\ chatPage'.loading = TRUE /\ chatPage'.error = FALSE /\ chatPage'.messages = <<>> /\ chatPage'.newest = 0
        /\ chatPage'.more = FALSE /\ chatPage'.older = FALSE
    BY <1>2, <2>1 DEF ChatPage
  <2>3. chatPage' = [open |-> chatPage'.open, loading |-> chatPage'.loading, error |-> chatPage'.error,
            chat |-> chatPage'.chat, messages |-> chatPage'.messages, cursor |-> chatPage'.cursor,
            more |-> chatPage'.more, newest |-> chatPage'.newest, older |-> chatPage'.older,
            sending |-> chatPage'.sending]
    BY <1>2, <2>1 DEF ChatPage
  <2>4. IsList(chatPage'.messages) /\ Once(chatPage'.messages) /\ chatPage'.newest \in 0..Len(texts)
    BY <1>4, <1>5, <2>2
  <2>5. 1..chatPage'.newest = {}
    BY <2>2
  <2> QED
    BY <2>2, <2>3, <2>4, <2>5 DEF ChatPage
<1> DEFINE c == Chat!Request("load", todo)
<1>7. IsChatRequest(c) /\ Expected(c, chatPage', Len(texts))
  <2>1. c.kind = "load" /\ c.todo = todo /\ c.id = 0 /\ chatPage'.open /\ chatPage'.loading
    BY <1>2 DEF Chat!Request, Chat!Closed
  <2>2. todo \notin {<<"chat">>, <<>>}
    BY <1>1
  <2> QED
    BY <1>1, <2>1, <2>2 DEF Chat!Request, IsChatRequest, ChatTodos, Expected
<1>8. chatCalls' = {c}
  BY <1>1, <1>3
<1> HIDE DEF c
<1>9. ChatRequests(chatCalls', chatPage', Len(texts))
  BY <1>7, <1>8 DEF ChatRequests
<1> QED
  BY <1>2, <1>6, <1>9 DEF ChatInv

LEMMA LoadOlderChatInv ==
    ASSUME ChatInv, Chat!LoadOlder
    PROVE  ChatInv'
<1> DEFINE n == Len(texts)  c == [Chat!Request("older", <<"list">>) EXCEPT !.id = chatPage.cursor]
<1>1. /\ chatPage.open /\ ~chatPage.loading /\ ~chatPage.error /\ ~chatPage.older /\ chatPage.more
      /\ chatPage' = [chatPage EXCEPT !.older = TRUE] /\ chatCalls' = chatCalls \cup {c} /\ texts' = texts
  BY DEF Chat!LoadOlder, Chat!Shown, Chat!Ask, Chat!server
<1>2. ChatPage(chatPage, n) /\ ChatRequests(chatCalls, chatPage, n)
  BY DEF ChatInv
<1>3. ChatPage(chatPage', n)
  BY <1>1, <1>2 DEF ChatPage
<1>4. /\ c.kind = "older" /\ c.todo = <<"list">> /\ c.id = chatPage.cursor
      /\ IsChatRequest(c)
  BY DEF Chat!Request, IsChatRequest, ChatTodos
<1> HIDE DEF c, n
<1>5. /\ chatPage'.open = chatPage.open /\ chatPage'.loading = chatPage.loading /\ chatPage'.more = chatPage.more
      /\ chatPage'.cursor = chatPage.cursor /\ chatPage'.older
  BY <1>1, <1>2 DEF ChatPage
<1>6. Expected(c, chatPage', n)
  <2>1. <<"list">> # <<>>
    OBVIOUS
  <2> QED
    BY <1>1, <1>4, <1>5, <2>1 DEF Expected
<1>7. \A d \in chatCalls : Expected(d, chatPage', n) /\ d.kind # "older"
  BY <1>1, <1>2, <1>5 DEF Expected, ChatRequests
<1>8. ChatRequests(chatCalls', chatPage', n)
  BY <1>1, <1>2, <1>4, <1>6, <1>7 DEF ChatRequests
<1> QED
  BY <1>1, <1>3, <1>8 DEF ChatInv, n

\* A request that locks nothing.
LEMMA AskedInv ==
    ASSUME ChatInv, chatPage.open, GoesOn(chatPage, chatPage'), texts' = texts,
           NEW c, IsChatRequest(c), c.kind \in {"send", "edit", "members"},
           chatCalls' = chatCalls \cup {c}
    PROVE  ChatInv'
<1>1. ChatPage(chatPage', Len(texts)) /\ \A d : Expected(d, chatPage, Len(texts)) => Expected(d, chatPage', Len(texts))
  BY PageGoesOn DEF ChatInv, IsList
<1>2. Expected(c, chatPage, Len(texts))
  BY DEF Expected
<1>3. ChatRequests(chatCalls', chatPage', Len(texts))
  BY <1>1, <1>2 DEF ChatInv, ChatRequests
<1> QED
  BY <1>1, <1>3 DEF ChatInv

LEMMA UserInv ==
    ASSUME ChatInv, Chat!HandleSend \/ Chat!ChangeMembers \/ \E id \in DOMAIN texts : Chat!SaveEdit(id)
    PROVE  ChatInv'
<1>1. CASE Chat!HandleSend
  <2> DEFINE c == Chat!Request("send", <<"post">>)
  <2>1. IsChatRequest(c) /\ c.kind = "send"
    BY DEF Chat!Request, IsChatRequest, ChatTodos
  <2>2. /\ chatPage.open /\ chatPage' = [chatPage EXCEPT !.sending = TRUE] /\ chatCalls' = chatCalls \cup {c}
        /\ texts' = texts
    BY <1>1 DEF Chat!HandleSend, Chat!Shown, Chat!Ask, Chat!server
  <2> HIDE DEF c
  <2>3. GoesOn(chatPage, chatPage')
    BY <2>2 DEF ChatInv, ChatPage, GoesOn
  <2> QED
    BY <2>1, <2>2, <2>3, AskedInv
<1>2. CASE Chat!ChangeMembers
  <2> DEFINE c == [Chat!Request("members", <<"members">>) EXCEPT !.text = rewrites']
  <2>1. IsChatRequest(c) /\ c.kind = "members"
    BY DEF Chat!Request, IsChatRequest, ChatTodos
  <2>2. chatPage.open /\ chatPage' = chatPage /\ chatCalls' = chatCalls \cup {c} /\ texts' = texts
    BY <1>2 DEF Chat!ChangeMembers, Chat!Shown, Chat!Ask, Chat!server
  <2> HIDE DEF c
  <2> QED
    BY <2>1, <2>2, StaysPut, AskedInv
<1>3. ASSUME NEW k \in DOMAIN texts, Chat!SaveEdit(k) PROVE ChatInv'
  <2> DEFINE c == [Chat!Request("edit", <<"write">>) EXCEPT !.id = k, !.text = rewrites']
  <2>1. IsChatRequest(c) /\ c.kind = "edit"
    <3>1. PICK r : r = Chat!Request("edit", <<"write">>)
      OBVIOUS
    <3>2. IsChatRequest(r) /\ r.kind = "edit"
      BY <3>1 DEF Chat!Request, IsChatRequest, ChatTodos
    <3>3. c = [r EXCEPT !.id = k, !.text = rewrites']
      BY <3>1
    <3> HIDE DEF c
    <3> QED
      BY <3>2, <3>3 DEF IsChatRequest
  <2>2. chatPage.open /\ chatPage' = chatPage /\ chatCalls' = chatCalls \cup {c} /\ texts' = texts
    BY <1>3 DEF Chat!SaveEdit, Chat!Shown, Chat!Ask, Chat!server
  <2> HIDE DEF c
  <2> QED
    BY <2>1, <2>2, StaysPut, AskedInv
<1> QED
  BY <1>1, <1>2, <1>3

\* The steps that a request still takes.
LEMMA ChatSteps ==
    ASSUME NEW c, IsChatRequest(c), c.todo # <<>>
    PROVE  /\ Tail(c.todo) \in ChatTodos(c.kind)
           /\ c.kind = "older" => Head(c.todo) = "list"
           /\ c.kind = "load" /\ Head(c.todo) # "list" =>
                 /\ Head(c.todo) = "chat"
                 /\ Tail(c.todo) \in {<<"chat">>, <<>>} => c.todo = <<"chat">>
<1>1. /\ Head(<<"chat", "list">>) = "chat" /\ Tail(<<"chat", "list">>) = <<"list">>
      /\ Head(<<"list", "chat">>) = "list" /\ Tail(<<"list", "chat">>) = <<"chat">>
      /\ Head(<<"chat">>) = "chat" /\ Tail(<<"chat">>) = <<>>
      /\ Head(<<"list">>) = "list" /\ Tail(<<"list">>) = <<>>
      /\ Tail(<<"post">>) = <<>> /\ Tail(<<"write">>) = <<>> /\ Tail(<<"members">>) = <<>>
  OBVIOUS
<1>2. <<"list">> # <<"chat">> /\ <<"list">> # <<>>
  OBVIOUS
<1>3. CASE c.kind = "load"
  <2>1. c.todo \in {<<"chat", "list">>, <<"list", "chat">>, <<"chat">>, <<"list">>}
    BY <1>3 DEF IsChatRequest, ChatTodos
  <2> QED
    BY <1>1, <1>2, <1>3, <2>1 DEF ChatTodos
<1>4. CASE c.kind = "older"
  <2>1. c.todo = <<"list">>
    BY <1>4 DEF IsChatRequest, ChatTodos
  <2> QED
    BY <1>1, <1>4, <2>1 DEF ChatTodos
<1>5. CASE c.kind \in {"send", "edit", "members"}
  <2>1. \/ c.kind = "send" /\ c.todo = <<"post">>
        \/ c.kind = "edit" /\ c.todo = <<"write">>
        \/ c.kind = "members" /\ c.todo = <<"members">>
    BY <1>5 DEF IsChatRequest, ChatTodos
  <2> QED
    BY <1>1, <1>5, <2>1 DEF ChatTodos
<1> QED
  BY <1>3, <1>4, <1>5 DEF IsChatRequest

\* A request takes its next step: a list that is read is a page of the messages there are,
\* a message that is written leaves the pages that were read before as they are.
LEMMA ServeChatInv ==
    ASSUME ChatInv, NEW c \in chatCalls, Chat!Serve(c)
    PROVE  ChatInv'
<1> DEFINE n == Len(texts)  done == [c EXCEPT !.todo = Tail(@)]
<1>1. IsChatRequest(c) /\ Expected(c, chatPage, n) /\ n \in Nat /\ ChatPage(chatPage, n)
  BY DEF ChatInv, ChatRequests, IsList
<1>2. c.todo # <<>> /\ chatPage' = chatPage
  BY DEF Chat!Serve
<1>3. PICK d : /\ chatCalls' = (chatCalls \ {c}) \cup {d}
               /\ \/ d = [done EXCEPT !.chat = chat] /\ Head(c.todo) = "chat" /\ texts' = texts
                  \/ d = [done EXCEPT !.list = Chat!ListPage(c.id)] /\ Head(c.todo) = "list" /\ texts' = texts
                  \/ /\ d = [done EXCEPT !.id = Len(texts) + 1, !.text = rewrites]
                     /\ Head(c.todo) = "post" /\ Chat!CreateMessage
                  \/ d = done /\ Head(c.todo) = "write" /\ Chat!UpdateText(c.id, c.text)
                  \/ /\ d = [done EXCEPT !.chat = c.text] /\ Chat!UpdateChat(c.text)
                     /\ Head(c.todo) \notin {"chat", "list", "post", "write"}
  BY DEF Chat!Serve, Chat!server
<1>4. IsList(texts') /\ Len(texts') \in Nat /\ n <= Len(texts')
  <2>1. \/ texts' = texts
        \/ Chat!CreateMessage \/ \E id, text : Chat!UpdateText(id, text)
        \/ \E version : Chat!UpdateChat(version) \/ Chat!RemoveChat
    BY <1>3
  <2> QED
    BY <1>1, <2>1, WritesGrow DEF ChatInv
<1>5. ChatPage(chatPage, Len(texts')) /\ \A b \in chatCalls : Expected(b, chatPage, Len(texts'))
  BY <1>4, ChatGrows
<1>6. /\ d = [kind |-> d.kind, todo |-> d.todo, chat |-> d.chat, list |-> d.list,
              id |-> d.id, text |-> d.text]
      /\ d.kind = c.kind /\ d.todo = Tail(c.todo)
  BY <1>1, <1>3 DEF IsChatRequest
<1>7. IsChatRequest(d)
  <2>1. d.todo \in ChatTodos(d.kind)
    BY <1>1, <1>2, <1>6, ChatSteps
  <2> QED
    BY <1>1, <1>6, <2>1 DEF IsChatRequest
<1>8. Expected(d, chatPage, Len(texts'))
  <2>1. CASE c.kind \notin {"load", "older"}
    BY <1>1, <1>6, <2>1 DEF Expected
  <2>2. CASE c.kind \in {"load", "older"} /\ Head(c.todo) = "list"
    <3>1. d.list = Chat!ListPage(c.id) /\ d.id = c.id /\ texts' = texts
      BY <1>1, <1>3, <2>2 DEF IsChatRequest
    <3>2. c.id \in Nat
      BY <1>1, <2>2 DEF Expected, ChatPage
    <3>3. IsAnswer(d.list, c.id, n)
      BY <3>1, <3>2, ChatListIsAnswer DEF ChatInv
    <3> QED
      BY <1>1, <1>6, <2>2, <3>1, <3>3 DEF Expected
  <2>3. CASE c.kind \in {"load", "older"} /\ Head(c.todo) # "list"
    <3>1. /\ c.kind = "load" /\ Head(c.todo) = "chat"
          /\ d.todo \in {<<"chat">>, <<>>} => c.todo = <<"chat">>
      BY <1>1, <1>2, <1>6, <2>3, ChatSteps
    <3>3. d.list = c.list /\ d.id = c.id /\ texts' = texts
      BY <1>1, <1>3, <3>1 DEF IsChatRequest
    <3> QED
      BY <1>1, <1>6, <3>1, <3>3 DEF Expected
  <2> QED
    BY <2>1, <2>2, <2>3
<1>9. ChatRequests(chatCalls', chatPage', Len(texts'))
  <2>1. \A a, b \in chatCalls : a.kind \in {"load", "older"} /\ a.kind = b.kind => a = b
    BY DEF ChatInv, ChatRequests
  <2>2. \A b \in chatCalls : IsChatRequest(b)
    BY DEF ChatInv, ChatRequests
  <2> QED
    BY <1>2, <1>3, <1>5, <1>6, <1>7, <1>8, <2>1, <2>2 DEF ChatRequests
<1> QED
  BY <1>2, <1>4, <1>5, <1>9 DEF ChatInv

-----------------------------------------------------------------------------
(* What the page makes of an answer, or of an error. *)

\* The other requests of a page that has had its answer to one.
LEMMA AnsweredInv ==
    ASSUME ChatInv, NEW c \in chatCalls, chatCalls' = chatCalls \ {c}, texts' = texts,
           ChatPage(chatPage', Len(texts)), chatPage'.open = chatPage.open,
           c.kind = "load" \/ chatPage'.loading = chatPage.loading,
           c.kind = "older" \/ (/\ chatPage'.older = chatPage.older /\ chatPage'.more = chatPage.more
                                /\ chatPage'.cursor = chatPage.cursor)
           \/ c.kind = "load"
    PROVE  ChatInv'
<1>1. /\ \A d \in chatCalls : IsChatRequest(d) /\ Expected(d, chatPage, Len(texts))
      /\ \A b, d \in chatCalls : b.kind \in {"load", "older"} /\ b.kind = d.kind => b = d
      /\ chatPage.loading => ~chatPage.older
  BY DEF ChatInv, ChatRequests, ChatPage
<1>2. \A d \in chatCalls' : Expected(d, chatPage', Len(texts))
  BY <1>1 DEF Expected
<1>3. ChatRequests(chatCalls', chatPage', Len(texts))
  BY <1>1, <1>2 DEF ChatRequests
<1> QED
  BY <1>3 DEF ChatInv

\* The first page of the history.
LEMMA ChatLoadedInv ==
    ASSUME ChatInv, NEW c \in chatCalls, c.kind = "load", Chat!Answer(c)
    PROVE  ChatInv'
<1> DEFINE n == Len(texts)  items == c.list.items
           newest == IF items = <<>> THEN 0 ELSE Last(items).id
<1>1. n \in Nat /\ IsChatRequest(c) /\ Expected(c, chatPage, n) /\ ChatPage(chatPage, n)
  BY DEF ChatInv, ChatRequests, IsList
<1>2. c.todo = <<>> /\ chatCalls' = chatCalls \ {c} /\ texts' = texts
  BY DEF Chat!Answer, Chat!server
<1>3. chatPage' = [chatPage EXCEPT !.loading = FALSE, !.chat = c.chat, !.messages = items,
                                   !.cursor = c.list.cursor, !.more = c.list.more, !.newest = newest]
  BY DEF Chat!Answer, Chat!Last, Last
<1>4. chatPage.loading /\ ~chatPage.error /\ ~chatPage.older /\ chatPage.open /\ IsAnswer(c.list, 0, n)
  BY <1>1, <1>2 DEF Expected, ChatPage
<1> DEFINE list == [items |-> Ids(items), more |-> c.list.more, cursor |-> c.list.cursor]
<1>5. IsList(items) /\ Once(items) /\ IsPage(list, 0, n)
  BY <1>4 DEF IsAnswer
<1>6. /\ c.list.more \in BOOLEAN /\ Ids(items) \subseteq 1..n
      /\ c.list.more => c.list.cursor \in Ids(items)
      /\ \A id \in 1..n : (/\ \E top \in Ids(items) : id <= top
                           /\ c.list.more => c.list.cursor <= id) => id \in Ids(items)
  BY <1>5 DEF IsPage
<1>7. newest \in 0..n /\ (newest # 0 => newest \in Ids(items))
  <2>1. CASE items = <<>>
    BY <1>1, <2>1
  <2>2. CASE items # <<>>
    <3>1. Len(items) \in DOMAIN items
      BY <1>5, <2>2 DEF IsList
    <3>2. newest = items[Len(items)].id
      BY <2>2 DEF Last
    <3>3. newest \in Ids(items)
      BY <3>1, <3>2 DEF Ids, Chat!Ids
    <3> QED
      BY <1>1, <1>6, <3>3
  <2> QED
    BY <2>1, <2>2
<1> HIDE DEF items, newest, n
<1>8. /\ chatPage'.open = chatPage.open /\ chatPage'.loading = FALSE /\ chatPage'.error = chatPage.error
      /\ chatPage'.messages = items /\ chatPage'.cursor = c.list.cursor /\ chatPage'.more = c.list.more
      /\ chatPage'.newest = newest /\ chatPage'.older = chatPage.older
      /\ chatPage' = [open |-> chatPage'.open, loading |-> chatPage'.loading, error |-> chatPage'.error,
            chat |-> chatPage'.chat, messages |-> chatPage'.messages, cursor |-> chatPage'.cursor,
            more |-> chatPage'.more, newest |-> chatPage'.newest, older |-> chatPage'.older,
            sending |-> chatPage'.sending]
  BY <1>1, <1>3 DEF ChatPage
<1>9. \A id \in 1..newest : (c.list.more => c.list.cursor <= id) => id \in Ids(items)
  BY <1>1, <1>6, <1>7
<1>10. ChatPage(chatPage', n)
  <2>1. chatPage'.error = FALSE /\ chatPage'.older = FALSE /\ (c.list.more => c.list.cursor \in 1..n)
    BY <1>1, <1>4, <1>6, <1>8 DEF ChatPage
  <2> QED
    BY <1>1, <1>5, <1>6, <1>7, <1>8, <1>9, <2>1 DEF ChatPage
<1> QED
  BY <1>2, <1>8, <1>10, AnsweredInv DEF n

\* A page of older messages reaches up to the cursor.
LEMMA ChatOlderInv ==
    ASSUME ChatInv, NEW c \in chatCalls, c.kind = "older", Chat!Answer(c)
    PROVE  ChatInv'
<1> DEFINE n == Len(texts)  items == c.list.items  shown == Chat!Prepend(chatPage.messages, items)
<1>1. n \in Nat /\ IsChatRequest(c) /\ Expected(c, chatPage, n) /\ ChatPage(chatPage, n)
  BY DEF ChatInv, ChatRequests, IsList
<1>2. c.todo = <<>> /\ chatCalls' = chatCalls \ {c} /\ texts' = texts
  BY DEF Chat!Answer, Chat!server
<1>3. chatPage' = [chatPage EXCEPT !.older = FALSE, !.messages = Chat!Prepend(@, items),
                                   !.cursor = c.list.cursor, !.more = c.list.more]
  BY DEF Chat!Answer
<1>4. /\ chatPage.older /\ chatPage.more /\ c.id = chatPage.cursor /\ chatPage.cursor \in 1..n
      /\ ~chatPage.loading /\ ~chatPage.error /\ IsAnswer(c.list, chatPage.cursor, n)
  BY <1>1, <1>2 DEF Expected, ChatPage
<1> DEFINE list == [items |-> Ids(items), more |-> c.list.more, cursor |-> c.list.cursor]
<1>5. IsList(items) /\ Once(items) /\ IsPage(list, chatPage.cursor, n)
  BY <1>4 DEF IsAnswer
<1>6. /\ c.list.more \in BOOLEAN /\ Ids(items) \subseteq 1..n
      /\ c.list.more => c.list.cursor \in Ids(items)
      /\ \A id \in 1..n : (/\ id < chatPage.cursor
                           /\ c.list.more => c.list.cursor <= id) => id \in Ids(items)
  BY <1>1, <1>4, <1>5 DEF IsPage
<1>7. /\ IsList(shown) /\ Once(shown)
      /\ Ids(chatPage.messages) \subseteq Ids(shown) /\ Ids(items) \subseteq Ids(shown)
  <2>1. IsList(chatPage.messages) /\ Once(chatPage.messages)
    BY <1>1 DEF ChatPage
  <2> HIDE DEF items
  <2> QED
    BY <1>5, <2>1, Prepended
<1> HIDE DEF items, n
<1>8. /\ chatPage'.open = chatPage.open /\ chatPage'.loading = chatPage.loading /\ chatPage'.error = chatPage.error
      /\ chatPage'.messages = shown /\ chatPage'.cursor = c.list.cursor /\ chatPage'.more = c.list.more
      /\ chatPage'.newest = chatPage.newest /\ chatPage'.older = FALSE
      /\ chatPage' = [open |-> chatPage'.open, loading |-> chatPage'.loading, error |-> chatPage'.error,
            chat |-> chatPage'.chat, messages |-> chatPage'.messages, cursor |-> chatPage'.cursor,
            more |-> chatPage'.more, newest |-> chatPage'.newest, older |-> chatPage'.older,
            sending |-> chatPage'.sending]
  BY <1>1, <1>3 DEF ChatPage
<1> HIDE DEF shown
<1>9. ASSUME NEW id \in 1..chatPage.newest, c.list.more => c.list.cursor <= id
      PROVE  id \in Ids(shown)
  <2>1. id \in 1..n
    BY <1>1 DEF ChatPage
  <2>2. CASE id < chatPage.cursor
    BY <1>6, <1>7, <1>9, <2>1, <2>2
  <2>3. CASE chatPage.cursor <= id
    BY <1>1, <1>7, <2>3 DEF ChatPage
  <2> QED
    BY <1>4, <2>1, <2>2, <2>3
<1>10. ChatPage(chatPage', n)
  <2>1. /\ chatPage'.newest \in 0..n /\ (c.list.more => c.list.cursor \in 1..n)
        /\ chatPage'.loading = FALSE /\ chatPage'.error = FALSE
    BY <1>1, <1>4, <1>6, <1>8 DEF ChatPage
  <2> QED
    BY <1>6, <1>7, <1>8, <1>9, <2>1 DEF ChatPage
<1> QED
  BY <1>2, <1>8, <1>10, AnsweredInv DEF n

LEMMA AnswerChatInv ==
    ASSUME ChatInv, NEW c \in chatCalls, Chat!Answer(c)
    PROVE  ChatInv'
<1> DEFINE m == [id |-> c.id, text |-> c.text]
<1>1. /\ IsChatRequest(c) /\ ChatPage(chatPage, Len(texts))
      /\ chatCalls' \subseteq chatCalls /\ texts' = texts
  BY DEF ChatInv, ChatRequests, Chat!Answer, Chat!server
<1>2. c.kind \in {"load", "older", "send", "edit", "members"}
  BY <1>1 DEF IsChatRequest
<1>3. ASSUME c.kind \notin {"load", "older"} PROVE GoesOn(chatPage, chatPage')
  <2>1. CASE c.kind = "send"
    <3>1. chatPage' = [chatPage EXCEPT !.sending = FALSE, !.messages = Chat!ShowNew(@, m)]
      BY <2>1 DEF Chat!Answer
    <3> HIDE DEF m
    <3>2. chatPage'.messages = Chat!ShowNew(chatPage.messages, m)
      BY <1>1, <3>1 DEF ChatPage
    <3> QED
      BY <1>1, <3>1, <3>2, ShownOnce DEF ChatPage, GoesOn
  <2>2. CASE c.kind = "edit"
    <3>1. chatPage' = [chatPage EXCEPT !.messages = Chat!ShowText(@, m)]
      BY <2>2 DEF Chat!Answer
    <3> HIDE DEF m
    <3>2. chatPage'.messages = Chat!ShowText(chatPage.messages, m)
      BY <1>1, <3>1 DEF ChatPage
    <3> QED
      BY <1>1, <3>1, <3>2, TextShown DEF ChatPage, GoesOn
  <2>3. CASE c.kind = "members"
    <3>1. chatPage' = [chatPage EXCEPT !.chat = c.chat]
      BY <2>3 DEF Chat!Answer
    <3> QED
      BY <1>1, <3>1 DEF ChatPage, GoesOn
  <2> QED
    BY <1>2, <1>3, <2>1, <2>2, <2>3
<1> QED
  BY <1>1, <1>2, <1>3, GoesOnInv, ChatLoadedInv, ChatOlderInv

LEMMA FailChatInv ==
    ASSUME ChatInv, NEW c \in chatCalls, Chat!Fail(c)
    PROVE  ChatInv'
<1> DEFINE n == Len(texts)
<1>1. /\ IsChatRequest(c) /\ ChatPage(chatPage, n) /\ Expected(c, chatPage, n)
      /\ chatCalls' = chatCalls \ {c} /\ texts' = texts
  BY DEF ChatInv, ChatRequests, Chat!Fail, Chat!server
<1> HIDE DEF n
<1>2. CASE c.kind = "load"
  <2>1. chatPage' = [chatPage EXCEPT !.loading = FALSE, !.error = TRUE]
    BY <1>2 DEF Chat!Fail
  <2>2. ChatPage(chatPage', n) /\ chatPage'.open = chatPage.open
    BY <1>1, <1>2, <2>1 DEF ChatPage, Expected
  <2> QED
    BY <1>1, <1>2, <2>2, AnsweredInv DEF n
<1>3. CASE c.kind = "older"
  <2>1. chatPage' = [chatPage EXCEPT !.older = FALSE]
    BY <1>3 DEF Chat!Fail
  <2>2. ChatPage(chatPage', n) /\ chatPage'.open = chatPage.open /\ chatPage'.loading = chatPage.loading
    BY <1>1, <2>1 DEF ChatPage
  <2> QED
    BY <1>1, <1>3, <2>2, AnsweredInv DEF n
<1>4. CASE c.kind \notin {"load", "older"}
  <2>1. chatPage' = [chatPage EXCEPT !.sending = FALSE] \/ chatPage' = chatPage
    BY <1>4 DEF Chat!Fail
  <2>2. GoesOn(chatPage, chatPage')
    BY <1>1, <2>1 DEF ChatPage, GoesOn
  <2> QED
    BY <1>1, <2>2, GoesOnInv
<1> QED
  BY <1>2, <1>3, <1>4

\* A message is shown once, though the page hears of it from the answer to its own
\* request, from the room and from the pages of the history, in any order; and from
\* the newest message it has loaded down to the cursor it has them all.
THEOREM ChatHasNoHole == Chat!Spec => []Chat!ThreadHasNoHole
<1>1. Chat!Init => ChatInv
  BY ChatInitInv
<1>2. ASSUME ChatInv, [Chat!Next]_Chat!vars PROVE ChatInv'
  <2>1. CASE UNCHANGED Chat!vars
    BY <1>2, <2>1 DEF Chat!vars, Chat!server, ChatInv
  <2>2. CASE (\E e \in unsaid : Chat!Emit(e)) \/ Chat!Join \/ Chat!Reconnect
    <3>1. UNCHANGED <<texts, chatPage, chatCalls>>
      BY <2>2 DEF Chat!Emit, Chat!Join, Chat!Reconnect, Chat!server
    <3> QED
      BY <1>2, <3>1 DEF ChatInv
  <2>3. CASE Chat!Leave
    BY <1>2, <2>3, ClosedInv DEF Chat!Leave, Chat!Closing, Chat!server
  <2> QED
    BY <1>2, <2>1, <2>2, <2>3, WrittenInv, HearInv, OpenChatInv, LoadOlderChatInv, UserInv,
       ServeChatInv, AnswerChatInv, FailChatInv DEF Chat!Next
<1>3. ChatInv => Chat!ThreadHasNoHole
  <2> SUFFICES ASSUME ChatInv PROVE Chat!ThreadHasNoHole
    OBVIOUS
  <2>1. ChatPage(chatPage, Len(texts)) /\ Len(texts) \in Nat
    BY DEF ChatInv, IsList
  <2> QED
    BY <2>1 DEF ChatPage, Once, Ids, Chat!ThreadHasNoHole
<1> QED
  BY <1>1, <1>2, <1>3, PTL DEF Chat!Spec
-----------------------------------------------------------------------------
(* The board of orders (OrderBoard), for any finite set of orders, any       *)
(* columns, searches and filters, and any number of moves, errors and pages. *)

LEMMA SameBoardSorting ==
    /\ \A S : Board!Ascending(S) = Ascending(S)
    /\ \A s, places : Board!Sublist(s, places) = Sublist(s, places)
BY DEF Board!Ascending, Ascending, Board!Sublist, Sublist, Board!Cardinality, Cardinality

\* What is put together from lists of elements of T is a list of them. Whatever holds for the
\* first of some things and goes from each to the next has no least exception.
LEMMA Flattened ==
    ASSUME NEW T, NEW seqs \in Seq(Seq(T))
    PROVE  Board!FlattenSeq(seqs) \in Seq(T)
<1> DEFINE L == Len(seqs)
           Flat(g, k) == g = [i \in 1..k |-> IF i = 1 THEN seqs[i] ELSE g[i - 1] \o seqs[i]]
           Missing == {k \in 1..L : ~ \E g : Flat(g, k)}
<1>1. L \in Nat /\ \A i \in 1..L : seqs[i] \in Seq(T)
  OBVIOUS
<1> HIDE DEF Flat
<1>2. CASE L = 0
  BY <1>2 DEF Board!FlattenSeq
<1>3. CASE L # 0
  <2>1. Missing = {}
    <3> SUFFICES ASSUME Missing # {} PROVE FALSE
      OBVIOUS
    <3>1. PICK k \in Missing : \A j \in Missing : k <= j
      <4>1. Missing \in SUBSET Nat
        BY <1>1
      <4> HIDE DEF Missing
      <4> QED
        BY <4>1, LeastExists
    <3>2. k \in 1..L /\ ~ \E g : Flat(g, k)
      OBVIOUS
    <3>3. CASE k = 1
      <4>1. Flat([i \in 1..1 |-> seqs[i]], 1)
        BY DEF Flat
      <4> QED
        BY <3>2, <3>3, <4>1
    <3>4. CASE k # 1
      <4>1. k - 1 \in 1..L /\ k - 1 \notin Missing
        <5>1. k - 1 \in 1..L /\ ~(k <= k - 1)
          BY <1>1, <3>2, <3>4
        <5> HIDE DEF Missing
        <5> QED
          BY <3>1, <5>1
      <4>2. PICK g : Flat(g, k - 1)
        BY <4>1
      <4> DEFINE h == [i \in 1..k |-> IF i = k THEN g[k - 1] \o seqs[k] ELSE g[i]]
      <4>3. ASSUME NEW i \in 1..k
            PROVE  h[i] = IF i = 1 THEN seqs[i] ELSE h[i - 1] \o seqs[i]
        <5>1. k \in Nat /\ 1 <= k
          BY <1>1, <3>2
        <5>2. CASE i = k
          <6>1. i # 1 /\ i - 1 \in 1..k /\ i - 1 # k /\ i - 1 = k - 1
            BY <3>4, <5>1, <5>2
          <6>2. h[i] = g[k - 1] \o seqs[k] /\ h[i - 1] = g[k - 1]
            BY <5>2, <6>1
          <6> QED
            BY <5>2, <6>1, <6>2
        <5>3. CASE i # k
          <6>1. i \in 1..(k - 1) /\ (i # 1 => i - 1 \in 1..k /\ i - 1 # k)
            BY <5>1, <5>3
          <6>2. g[i] = IF i = 1 THEN seqs[i] ELSE g[i - 1] \o seqs[i]
            BY <4>2, <6>1 DEF Flat
          <6> QED
            BY <5>3, <6>1, <6>2
        <5> QED
          BY <5>2, <5>3
      <4>4. Flat(h, k)
        <5> DEFINE f == [i \in 1..k |-> IF i = 1 THEN seqs[i] ELSE h[i - 1] \o seqs[i]]
        <5>1. DOMAIN h = 1..k /\ DOMAIN f = 1..k /\ h = [i \in 1..k |-> h[i]]
          OBVIOUS
        <5>2. h = f
          BY <4>3
        <5> QED
          BY <5>2 DEF Flat
      <4> QED
        BY <3>2, <4>4
    <3> QED
      BY <3>3, <3>4
  <2>2. L \in 1..L
    BY <1>1, <1>3
  <2>3. \E g : Flat(g, L)
    BY <2>1, <2>2
  <2> DEFINE flat == CHOOSE g : Flat(g, L)
  <2>4. Flat(flat, L)
    BY <2>3
  <2>5. Board!FlattenSeq(seqs) = flat[L]
    BY <1>3 DEF Board!FlattenSeq, Flat
  <2> HIDE DEF flat
  <2>6. \A i \in 1..L : flat[i] = IF i = 1 THEN seqs[i] ELSE flat[i - 1] \o seqs[i]
    BY <2>4 DEF Flat
  <2> DEFINE Bad == {i \in 1..L : flat[i] \notin Seq(T)}
  <2>7. Bad = {}
    <3> SUFFICES ASSUME Bad # {} PROVE FALSE
      OBVIOUS
    <3>1. PICK k \in Bad : \A j \in Bad : k <= j
      <4>1. Bad \in SUBSET Nat
        BY <1>1
      <4> HIDE DEF Bad
      <4> QED
        BY <4>1, LeastExists
    <3>2. k \in 1..L /\ flat[k] \notin Seq(T)
      OBVIOUS
    <3>3. k # 1
      BY <1>1, <2>6, <3>2
    <3>4. k - 1 \in 1..L /\ k - 1 \notin Bad
      BY <1>1, <3>1, <3>2, <3>3
    <3>5. flat[k - 1] \in Seq(T) /\ seqs[k] \in Seq(T)
      BY <1>1, <3>2, <3>4
    <3>6. flat[k] = flat[k - 1] \o seqs[k]
      BY <2>6, <3>2, <3>3
    <3>7. \A a, b \in Seq(T) : a \o b \in Seq(T)
      OBVIOUS
    <3> QED
      BY <3>2, <3>5, <3>6, <3>7
  <2> QED
    BY <2>2, <2>5, <2>7
<1> QED
  BY <1>2, <1>3

-----------------------------------------------------------------------------
(* The invariant of the board. *)

Syncs == {"none", "pending", "failed"}
Cards(S) == [id : S, status : Board!ColumnSet, sync : Syncs]

IsColumn(col) ==
    /\ col = [items |-> col.items, query |-> col.query, page |-> col.page, more |-> col.more,
              loading |-> col.loading, loaded |-> col.loaded]
    /\ col.items \in Seq(Cards(Orders))
    /\ col.page \in Nat /\ col.loading \in BOOLEAN

\* A request for pages 1 to d, or for page d alone; what it has got passes its filters.
IsFetch(r) ==
    /\ r.kind = "fetch"
    /\ r = [kind |-> r.kind, column |-> r.column, last |-> r.last, filter |-> r.filter,
            replace |-> r.replace, preserve |-> r.preserve, todo |-> r.todo, got |-> r.got]
    /\ r.column \in Board!ColumnSet /\ r.filter \in Filters
    /\ r.last \in BOOLEAN /\ r.replace \in BOOLEAN /\ r.preserve \in BOOLEAN
    /\ \E d \in Nat \ {0} : r.todo \cup DOMAIN r.got = IF r.replace THEN 1..d ELSE {d}
    /\ \A p \in DOMAIN r.got : r.got[p].items \in Seq(Cards(Matches[r.filter]))

\* A card that was dragged, from one column to another.
IsMove(r, moved) ==
    /\ r.kind = "move"
    /\ r = [kind |-> r.kind, view |-> r.view, from |-> r.from, to |-> r.to, step |-> r.step]
    /\ r.view \in Cards(moved)
    /\ r.from \in Board!ColumnSet /\ r.to \in Board!ColumnSet \ {r.from}

\* The last request of a column, whose answer is taken.
Counts(r, c) == r.kind = "fetch" /\ r.last /\ r.column = c

\* A column of the board that is filtered by f, some of whose orders have been moved:
\* what is asked for it passes this filter, and so does what it shows, unless that will
\* be replaced or emptied.
IsFresh(c, col, S, f, moved) ==
    /\ \A r \in S : Counts(r, c) => r.filter = f
    /\ \/ col.items \in Seq(Cards(Matches[f] \cup moved))
       \/ col.loading /\ \A r \in S : Counts(r, c) => r.replace /\ ~r.preserve

ShownColumns == ToSet(Board!Shown(filter))

ServerInv ==
    /\ status \in [Orders -> Board!ColumnSet] /\ sync \in [Orders -> Syncs]
    /\ filter \in Filters /\ due \in BOOLEAN /\ dragged \subseteq Orders

TurnsInv == turn \in Nat \ {0} /\ (Board!Shown(filter) # <<>> => turn <= Len(Board!Shown(filter)))

RequestsInv ==
    /\ \A r \in requests : IsFetch(r) \/ IsMove(r, dragged)
    /\ \A r, q \in requests, c \in Board!ColumnSet : Counts(r, c) /\ Counts(q, c) => r = q

ColumnsInv ==
    /\ columns = [c \in Board!ColumnSet |-> columns[c]]
    /\ \A c \in Board!ColumnSet :
          /\ IsColumn(columns[c])
          /\ \A r \in requests : Counts(r, c) => columns[c].loading

FreshInv == ~due => \A c \in ShownColumns : IsFresh(c, columns[c], requests, filter, dragged)

BoardInv == ServerInv /\ TurnsInv /\ RequestsInv /\ ColumnsInv /\ FreshInv

\* The board shows its columns, all of them or those that are selected.
LEMMA ShownAreColumns ==
    ASSUME Board!BoardAssumption, NEW f
    PROVE  /\ Len(Board!Shown(f)) \in Nat
           /\ Board!Shown(f) \in Seq(ToSet(Board!Shown(f)))
           /\ ToSet(Board!Shown(f)) \subseteq Board!ColumnSet
<1> DEFINE P == {i \in DOMAIN Columns : Columns[i] \in Selected}
           S == Sublist(Columns, P)
<1>1. Board!ColumnSet = Range(Columns) /\ IsList(Columns)
  BY DEF Board!BoardAssumption, Board!ColumnSet, Board!ToSet, Range, IsList
<1>2. Board!Shown(f) = IF f \in Searches THEN Columns ELSE S
  BY SameBoardSorting DEF Board!Shown
<1>3. IsList(S) /\ \A i \in DOMAIN S : S[i] \in Range(Columns)
  <2>1. P \in SUBSET DOMAIN Columns
    OBVIOUS
  <2> HIDE DEF P
  <2>2. /\ IsList(S) /\ \A i \in DOMAIN S : Ascending(P)[i] \in P /\ S[i] = Columns[Ascending(P)[i]]
    BY <1>1, <2>1, SublistPicks
  <2> QED
    BY <2>1, <2>2 DEF Range
<1> HIDE DEF S
<1>4. \A s : ToSet(s) = Range(s)
  BY DEF ToSet, Range
<1>5. CASE f \in Searches
  BY <1>1, <1>2, <1>4, <1>5 DEF IsList
<1>6. CASE f \notin Searches
  <2>1. Board!Shown(f) = S /\ Range(S) \subseteq Range(Columns)
    BY <1>2, <1>3, <1>6 DEF Range
  <2> QED
    BY <1>1, <1>3, <1>4, <2>1 DEF IsList
<1> QED
  BY <1>5, <1>6

\* Fewer cards may be shown as more, and part of a list is a list.
LEMMA CardsGrow ==
    ASSUME NEW S, NEW R, S \subseteq R
    PROVE  Cards(S) \subseteq Cards(R) /\ Seq(Cards(S)) \subseteq Seq(Cards(R))
<1>1. Cards(S) \subseteq Cards(R)
  BY DEF Cards
<1>2. ASSUME NEW s \in Seq(Cards(S)) PROVE s \in Seq(Cards(R))
  BY <1>1
<1> QED
  BY <1>1, <1>2

LEMMA PartOfCards ==
    ASSUME NEW S, NEW s \in Seq(Cards(S)), NEW o
    PROVE  Board!Without(s, o) \in Seq(Cards(S))
<1> DEFINE P == DOMAIN s \ Board!Places(s, o)  t == Sublist(s, P)
<1>1. IsList(s) /\ P \in SUBSET DOMAIN s
  BY DEF IsList, Range
<1>2. Board!Without(s, o) = t
  BY SameBoardSorting DEF Board!Without
<1> HIDE DEF P
<1>3. /\ IsList(t)
      /\ \A i \in DOMAIN t : Ascending(P)[i] \in P /\ t[i] = s[Ascending(P)[i]]
  BY <1>1, SublistPicks
<1> HIDE DEF t
<1>4. \A i \in DOMAIN t : t[i] \in Cards(S)
  BY <1>1, <1>3
<1> QED
  BY <1>2, <1>3, <1>4 DEF IsList

\* findAll lists orders that pass the filters it was asked for.
LEMMA FindAllPasses ==
    ASSUME Board!BoardAssumption, ServerInv, NEW c, NEW f \in Filters, NEW p \in Nat \ {0}
    PROVE  Board!FindAll(c, f, p).items \in Seq(Cards(Matches[f]))
<1> DEFINE S == Board!Listed(c, f)  up == Ascending(S)  all == Board!Reverse(up)
           skip == (p - 1) * PageSize  top == Min({skip + PageSize, Len(all)})
           rows == SubSeq(all, skip + 1, top)
<1>1. S \subseteq Matches[f] /\ Matches[f] \subseteq Orders
  BY DEF Board!BoardAssumption, Board!Listed
<1>2. IsFiniteSet(S) /\ S \in SUBSET Nat
  <2>1. IsFiniteSet(Orders) /\ Orders \subseteq Nat
    <3>1. \A T : Board!IsFiniteSet(T) = IsFiniteSet(T)
      BY DEF Board!IsFiniteSet, IsFiniteSet
    <3> QED
      BY <3>1 DEF Board!BoardAssumption
  <2> QED
    BY <1>1, <2>1, FS_Subset
<1> HIDE DEF S
<1>3. up \in Seq(S)
  BY <1>2, FiniteAscends
<1> HIDE DEF up
<1>4. all \in Seq(S)
  BY <1>3 DEF Board!Reverse
<1> HIDE DEF all
<1>5. skip \in Nat
  <2>1. p - 1 \in Nat /\ PageSize \in Nat
    BY DEF Board!BoardAssumption
  <2> QED
    BY <2>1
<1> HIDE DEF skip
<1>6. top \in Nat /\ top <= Len(all)
  <2>1. Len(all) \in Nat /\ skip + PageSize \in Nat
    BY <1>4, <1>5 DEF Board!BoardAssumption
  <2>2. \A a, b \in Nat : Min({a, b}) \in Nat /\ Min({a, b}) <= b
    <3> TAKE a, b \in Nat
    <3>1. \E x \in {a, b} : \A y \in {a, b} : x <= y
      OBVIOUS
    <3>2. Min({a, b}) \in {a, b} /\ \A y \in {a, b} : Min({a, b}) <= y
      BY <3>1 DEF Min
    <3> QED
      BY <3>2
  <2> QED
    BY <2>1, <2>2
<1>7. Board!FindAll(c, f, p).items = [i \in DOMAIN rows |-> Board!View(rows[i])]
  <2>1. \A T : Board!Min(T) = Min(T)
    BY DEF Board!Min, Min
  <2> QED
    BY <2>1, SameBoardSorting DEF Board!FindAll, S, up, all, skip
<1> HIDE DEF top
<1>8. rows \in Seq(S)
  BY <1>4, <1>5, <1>6
<1> HIDE DEF rows
<1>9. \A o \in S : Board!View(o) \in Cards(Matches[f])
  BY <1>1 DEF ServerInv, Cards, Board!View
<1>10. \A i \in DOMAIN rows : Board!View(rows[i]) \in Cards(Matches[f])
  BY <1>8, <1>9
<1>11. Len(rows) \in Nat /\ DOMAIN rows = 1..Len(rows)
  BY <1>8
<1>12. [i \in DOMAIN rows |-> Board!View(rows[i])] \in [1..Len(rows) -> Cards(Matches[f])]
  BY <1>10, <1>11
<1> QED
  BY <1>7, <1>11, <1>12

-----------------------------------------------------------------------------
(* Requests begin. *)

\* The columns that are asked for load, and what was asked for them before counts no more.
LEMMA BeginInv ==
    ASSUME Board!BoardAssumption, BoardInv, NEW new, Board!Begin(new),
           UNCHANGED <<status, sync, filter, dragged>>, due' \in BOOLEAN, TurnsInv',
           \A r \in new : IsFetch(r) /\ r.last /\ r.filter = filter,
           \A r, q \in new : r.column = q.column => r = q,
           ~due' => \A c \in ShownColumns :
                       \/ \E r \in new : r.column = c /\ r.replace /\ ~r.preserve
                       \/ ~due /\ \A r \in new : r.column = c => ~columns[c].loading
    PROVE  BoardInv'
<1> DEFINE began == {r.column : r \in new}
           Old(r) == IF r.kind = "fetch" /\ r.column \in began THEN [r EXCEPT !.last = FALSE] ELSE r
<1>1. /\ columns' = [c \in Board!ColumnSet |->
                        IF c \in began THEN [columns[c] EXCEPT !.loading = TRUE] ELSE columns[c]]
      /\ requests' = {Old(r) : r \in requests} \cup new
  BY DEF Board!Begin
<1>2. /\ ServerInv /\ ServerInv' /\ filter' = filter /\ dragged' = dragged
      /\ RequestsInv /\ ColumnsInv /\ FreshInv
  BY DEF BoardInv, ServerInv
<1>3. ASSUME NEW r \in requests
      PROVE  /\ IsFetch(Old(r)) \/ IsMove(Old(r), dragged)
             /\ \A c : Counts(Old(r), c) => c \notin began /\ Counts(r, c) /\ Old(r) = r
  <2>1. CASE r.kind = "fetch" /\ r.column \in began
    <3>1. IsFetch(r)
      BY <1>2, <2>1 DEF RequestsInv, IsMove
    <3>2. IsFetch(Old(r)) /\ Old(r).last = FALSE
      BY <2>1, <3>1 DEF IsFetch
    <3> QED
      BY <3>2 DEF Counts
  <2>2. CASE ~(r.kind = "fetch" /\ r.column \in began)
    BY <1>2, <2>2 DEF RequestsInv, Counts
  <2> QED
    BY <2>1, <2>2
<1>4. \A r \in new : r.column \in began /\ (\A c : Counts(r, c) => c = r.column)
  BY DEF Counts
<1>5. \A c \in began : \E r \in new : r.column = c
  OBVIOUS
<1>6. \A q \in requests' : q \in new \/ \E r \in requests : q = Old(r)
  BY <1>1
<1> HIDE DEF Old, began
\* A request that counts is new, or its column is as it was.
<1>7. ASSUME NEW q \in requests', NEW c, Counts(q, c)
      PROVE  \/ q \in new /\ c \in began /\ q.column = c
             \/ q \in requests /\ c \notin began
  BY <1>3, <1>4, <1>6, <1>7 DEF Counts
<1>8. RequestsInv'
  <2>1. \A q \in requests' : IsFetch(q) \/ IsMove(q, dragged)
    BY <1>3, <1>6
  <2>3. ASSUME NEW r \in requests', NEW q \in requests', NEW c \in Board!ColumnSet, Counts(r, c), Counts(q, c)
        PROVE  r = q
    BY <1>2, <1>7, <2>3 DEF RequestsInv
  <2> QED
    BY <1>2, <2>1, <2>3 DEF RequestsInv
<1>9. ColumnsInv'
  <2>1. columns' = [c \in Board!ColumnSet |-> columns'[c]]
    BY <1>1
  <2>2. ASSUME NEW c \in Board!ColumnSet
        PROVE  /\ IsColumn(columns'[c])
               /\ c \in began => columns'[c].loading
               /\ c \notin began => columns'[c] = columns[c]
    <3>1. IsColumn(columns[c])
      BY <1>2 DEF ColumnsInv
    <3>2. columns'[c] = IF c \in began THEN [columns[c] EXCEPT !.loading = TRUE] ELSE columns[c]
      BY <1>1
    <3> QED
      BY <3>1, <3>2 DEF IsColumn
  <2>3. \A c \in Board!ColumnSet : \A r \in requests' : Counts(r, c) => columns'[c].loading
    BY <1>2, <1>7, <2>2 DEF ColumnsInv
  <2> QED
    BY <2>1, <2>2, <2>3 DEF ColumnsInv
<1>10. FreshInv'
  <2> SUFFICES ASSUME ~due', NEW c \in ShownColumns PROVE IsFresh(c, columns'[c], requests', filter, dragged)
    BY <1>2 DEF FreshInv, ShownColumns, Board!Shown
  <2>0. c \in Board!ColumnSet
    BY ShownAreColumns DEF ShownColumns
  <2>1. columns'[c] = IF c \in began THEN [columns[c] EXCEPT !.loading = TRUE] ELSE columns[c]
    BY <1>1, <2>0
  <2>2. IsColumn(columns[c])
    BY <1>2, <2>0 DEF ColumnsInv
  <2>3. CASE \E r \in new : r.column = c /\ r.replace /\ ~r.preserve
    <3>1. c \in began /\ \A q \in requests' : Counts(q, c) => q.filter = filter /\ q.replace /\ ~q.preserve
      BY <1>4, <1>7, <2>3
    <3>2. columns'[c].loading
      BY <2>1, <2>2, <3>1 DEF IsColumn
    <3> QED
      BY <3>1, <3>2 DEF IsFresh
  <2>4. CASE ~due /\ \A r \in new : r.column = c => ~columns[c].loading
    <3>1. IsFresh(c, columns[c], requests, filter, dragged)
      BY <1>2, <2>4 DEF FreshInv
    <3>2. columns'[c].items = columns[c].items
      BY <2>1, <2>2 DEF IsColumn
    <3>3. CASE c \in began
      <4>1. ~columns[c].loading
        BY <1>5, <2>4, <3>3
      <4>2. columns[c].items \in Seq(Cards(Matches[filter] \cup dragged))
        BY <3>1, <4>1 DEF IsFresh
      <4>3. \A q \in requests' : Counts(q, c) => q.filter = filter
        BY <1>7, <3>3
      <4> QED
        BY <1>2, <3>2, <4>2, <4>3 DEF IsFresh
    <3>4. CASE c \notin began
      <4>1. \A q \in requests' : Counts(q, c) => q \in requests
        BY <1>7, <3>4
      <4> QED
        BY <1>2, <2>1, <3>1, <3>4, <4>1 DEF IsFresh
    <3> QED
      BY <3>3, <3>4
  <2> QED
    BY <2>3, <2>4
<1> QED
  BY <1>2, <1>8, <1>9, <1>10 DEF BoardInv

\* A new request for pages of a column.
IsNew(r, c) == IsFetch(r) /\ r.last /\ r.filter = filter /\ r.column = c

\* A request for the first pages, or for one.
LEMMA FetchIsFetch ==
    ASSUME BoardInv, NEW c \in Board!ColumnSet, NEW d \in Nat \ {0}, NEW pages,
           NEW replace \in BOOLEAN, NEW preserve \in BOOLEAN,
           replace => pages = 1..d, ~replace => pages = {d}
    PROVE  /\ IsNew(Board!Fetch(c, pages, replace, preserve), c)
           /\ replace => Board!Fetch(c, pages, replace, preserve).replace
           /\ ~preserve => ~Board!Fetch(c, pages, replace, preserve).preserve
<1> DEFINE r == Board!Fetch(c, pages, replace, preserve)
<1>1. PICK none : none = [p \in {} |-> <<>>] /\ DOMAIN none = {}
  OBVIOUS
<1>2. r = [kind |-> "fetch", column |-> c, last |-> TRUE, filter |-> filter,
           replace |-> replace, preserve |-> preserve, todo |-> pages, got |-> none]
  BY <1>1 DEF Board!Fetch
<1> HIDE DEF r
<1>3. /\ r.kind = "fetch" /\ r.column = c /\ r.filter = filter /\ r.todo = pages /\ r.got = none
      /\ r.last = TRUE /\ r.replace = replace /\ r.preserve = preserve
  BY <1>2
<1>4. r = [kind |-> r.kind, column |-> r.column, last |-> r.last, filter |-> r.filter,
           replace |-> r.replace, preserve |-> r.preserve, todo |-> r.todo, got |-> r.got]
  BY <1>2, <1>3
<1>5. r.todo \cup DOMAIN r.got = IF r.replace THEN 1..d ELSE {d}
  BY <1>1, <1>3
<1>6. IsFetch(r)
  BY <1>1, <1>3, <1>4, <1>5 DEF IsFetch, BoardInv, ServerInv
<1> QED
  BY <1>3, <1>6 DEF r, IsNew

LEMMA ReloadInv ==
    ASSUME Board!BoardAssumption, BoardInv, Board!Reload
    PROVE  BoardInv'
<1> DEFINE shown == Board!Shown(filter)
           F(i) == Board!Fetch(shown[i], {1}, TRUE, FALSE)
           new == {F(i) : i \in DOMAIN shown}
<1>1. /\ due' = FALSE /\ Board!Begin(new)
      /\ UNCHANGED <<status, sync, filter, turn, dragged>>
  BY DEF Board!Reload, Board!server
<1>2. \A i \in DOMAIN shown : shown[i] \in Board!ColumnSet
  BY ShownAreColumns
<1>3. ASSUME NEW i \in DOMAIN shown
      PROVE  IsNew(F(i), shown[i]) /\ F(i).replace /\ ~F(i).preserve
  <2>1. {1} = 1..1 /\ 1 \in Nat \ {0}
    OBVIOUS
  <2>2. shown[i] \in Board!ColumnSet
    BY <1>2
  <2> HIDE DEF shown
  <2> QED
    BY <2>1, <2>2, FetchIsFetch, Zenon
<1>4. ASSUME NEW i \in DOMAIN shown, NEW j \in DOMAIN shown, F(i).column = F(j).column
      PROVE  F(i) = F(j)
  BY <1>3, <1>4 DEF IsNew
<1>5. \A c \in ShownColumns : \E i \in DOMAIN shown : shown[i] = c
  BY DEF ShownColumns, ToSet
<1>6. TurnsInv'
  BY <1>1 DEF BoardInv, TurnsInv, Board!Shown
<1> HIDE DEF F
<1>7. \A r \in new : IsFetch(r) /\ r.last /\ r.filter = filter
  BY <1>3 DEF IsNew
<1>8. \A r, q \in new : r.column = q.column => r = q
  BY <1>4
<1>9. \A c \in ShownColumns : \E r \in new : r.column = c /\ r.replace /\ ~r.preserve
  <2> SUFFICES ASSUME NEW c \in ShownColumns
               PROVE  \E r \in new : r.column = c /\ r.replace /\ ~r.preserve
    OBVIOUS
  <2>1. PICK i \in DOMAIN shown : shown[i] = c
    BY <1>5
  <2>2. F(i) \in new /\ F(i).column = c /\ F(i).replace /\ ~F(i).preserve
    BY <1>3, <2>1 DEF IsNew
  <2> HIDE DEF new
  <2> QED
    BY <2>2
<1> HIDE DEF new
<1> QED
  BY <1>1, <1>6, <1>7, <1>8, <1>9, BeginInv

LEMMA RefreshInv ==
    ASSUME Board!BoardAssumption, BoardInv, Board!Refresh
    PROVE  BoardInv'
<1> DEFINE shown == Board!Shown(filter)  column == shown[turn]
           depth == Board!Max({1, columns[column].page})
           r == Board!Fetch(column, 1..depth, TRUE, TRUE)
<1>1. /\ shown # <<>> /\ ~columns[column].loading /\ Board!Begin({r})
      /\ turn' = (turn % Len(shown)) + 1 /\ due' = due
      /\ UNCHANGED <<status, sync, filter, dragged>>
  BY DEF Board!Refresh, Board!server
<1>2. Len(shown) \in Nat \ {0} /\ turn \in DOMAIN shown /\ column \in Board!ColumnSet
  <2>1. /\ Len(shown) \in Nat /\ shown \in Seq(ToSet(shown)) /\ ToSet(shown) \subseteq Board!ColumnSet
        /\ turn \in Nat \ {0} /\ turn <= Len(shown)
    BY <1>1, ShownAreColumns DEF BoardInv, TurnsInv
  <2> HIDE DEF shown
  <2> QED
    BY <1>1, <2>1
<1>3. depth \in Nat \ {0}
  <2>1. columns[column].page \in Nat
    BY <1>2 DEF BoardInv, ColumnsInv, IsColumn
  <2>2. \A a \in Nat : Max({1, a}) \in Nat \ {0}
    <3> TAKE a \in Nat
    <3>1. \E x \in {1, a} : \A y \in {1, a} : x >= y
      OBVIOUS
    <3>2. Max({1, a}) \in {1, a} /\ \A y \in {1, a} : Max({1, a}) >= y
      BY <3>1 DEF Max
    <3> QED
      BY <3>2
  <2>3. \A T : Board!Max(T) = Max(T)
    BY DEF Board!Max, Max
  <2> QED
    BY <2>1, <2>2, <2>3
<1> HIDE DEF depth
<1>4. IsNew(r, column)
  BY <1>2, <1>3, FetchIsFetch, Zenon
<1>5. TurnsInv'
  <2>1. turn' \in Nat \ {0} /\ turn' <= Len(shown)
    <3> HIDE DEF shown
    <3> QED
      BY <1>1, <1>2 DEF BoardInv, TurnsInv
  <2>2. Board!Shown(filter)' = shown
    BY <1>1 DEF Board!Shown
  <2> QED
    BY <2>1, <2>2 DEF TurnsInv
<1> HIDE DEF r, column
<1>6. due' \in BOOLEAN
  BY <1>1 DEF BoardInv, ServerInv
<1> QED
  BY <1>1, <1>4, <1>5, <1>6, BeginInv DEF IsNew

LEMMA LoadMoreInv ==
    ASSUME Board!BoardAssumption, BoardInv, NEW column \in Board!ColumnSet, Board!LoadMore(column)
    PROVE  BoardInv'
<1> DEFINE d == columns[column].page + 1  r == Board!Fetch(column, {d}, FALSE, FALSE)
<1>1. /\ ~columns[column].loading /\ Board!Begin({r}) /\ due' = due
      /\ UNCHANGED <<status, sync, filter, turn, dragged>>
  BY DEF Board!LoadMore, Board!server
<1>2. d \in Nat \ {0}
  BY DEF BoardInv, ColumnsInv, IsColumn
<1> HIDE DEF d
<1>3. IsNew(r, column)
  BY <1>2, FetchIsFetch, Zenon
<1>4. TurnsInv'
  BY <1>1 DEF BoardInv, TurnsInv, Board!Shown
<1> HIDE DEF r
<1>5. due' \in BOOLEAN
  BY <1>1 DEF BoardInv, ServerInv
<1> QED
  BY <1>1, <1>3, <1>4, <1>5, BeginInv DEF IsNew

-----------------------------------------------------------------------------
(* Requests are read and answered. *)

LEMMA ServePageInv ==
    ASSUME Board!BoardAssumption, BoardInv, NEW r \in requests, NEW p \in Nat \ {0},
           Board!ServePage(r, p)
    PROVE  BoardInv'
<1> DEFINE rows == Board!FindAll(r.column, r.filter, p)
           got == [q \in DOMAIN r.got \cup {p} |-> IF q = p THEN rows ELSE r.got[q]]
<1>0. PICK n : n = [r EXCEPT !.todo = @ \ {p}, !.got = got]
  OBVIOUS
<1>1. /\ r.kind = "fetch" /\ p \in r.todo /\ requests' = (requests \ {r}) \cup {n}
      /\ UNCHANGED <<status, sync, filter, due, columns, turn, dragged>>
  BY <1>0 DEF Board!ServePage, Board!server
<1> HIDE DEF rows, got
<1>2. IsFetch(r)
  BY <1>1 DEF BoardInv, RequestsInv, IsMove
<1>3. /\ n.kind = "fetch" /\ n.column = r.column /\ n.last = r.last /\ n.filter = r.filter
      /\ n.replace = r.replace /\ n.preserve = r.preserve
      /\ n.todo = r.todo \ {p} /\ n.got = got
      /\ n = [kind |-> n.kind, column |-> n.column, last |-> n.last, filter |-> n.filter,
              replace |-> n.replace, preserve |-> n.preserve, todo |-> n.todo, got |-> n.got]
  BY <1>0, <1>2 DEF IsFetch
<1>4. DOMAIN got = DOMAIN r.got \cup {p} /\ got[p].items = rows.items
      /\ \A q \in DOMAIN r.got : q # p => got[q] = r.got[q]
  BY DEF got
<1>5. rows.items \in Seq(Cards(Matches[r.filter]))
  BY <1>2, FindAllPasses DEF IsFetch, BoardInv, rows
<1>6. IsFetch(n)
  <2>1. n.todo \cup DOMAIN n.got = r.todo \cup DOMAIN r.got
    BY <1>1, <1>3, <1>4
  <2>2. \A q \in DOMAIN n.got : n.got[q].items \in Seq(Cards(Matches[n.filter]))
    BY <1>2, <1>3, <1>4, <1>5 DEF IsFetch
  <2>3. \E d \in Nat \ {0} : n.todo \cup DOMAIN n.got = IF n.replace THEN 1..d ELSE {d}
    BY <1>2, <1>3, <2>1 DEF IsFetch
  <2> QED
    BY <1>2, <1>3, <2>2, <2>3 DEF IsFetch
<1>7. \A c : Counts(n, c) <=> Counts(r, c)
  BY <1>1, <1>3 DEF Counts
<1>8. RequestsInv'
  <2>1. \A q \in requests' : IsFetch(q) \/ IsMove(q, dragged)
    BY <1>1, <1>6 DEF BoardInv, RequestsInv
  <2>2. \A q, s \in requests', c \in Board!ColumnSet : Counts(q, c) /\ Counts(s, c) => q = s
    BY <1>1, <1>7 DEF BoardInv, RequestsInv
  <2> QED
    BY <1>1, <2>1, <2>2 DEF RequestsInv
<1>9. ColumnsInv'
  BY <1>1, <1>7 DEF BoardInv, ColumnsInv
<1>10. FreshInv'
  <2> SUFFICES ASSUME ~due, NEW c \in ShownColumns PROVE IsFresh(c, columns[c], requests', filter, dragged)
    BY <1>1 DEF FreshInv, ShownColumns, Board!Shown
  <2>1. IsFresh(c, columns[c], requests, filter, dragged)
    BY DEF BoardInv, FreshInv
  <2>2. ASSUME NEW q \in requests', Counts(q, c)
        PROVE  \E s \in requests : /\ Counts(s, c) /\ q.filter = s.filter
                                   /\ q.replace = s.replace /\ q.preserve = s.preserve
    BY <1>1, <1>3, <1>7, <2>2
  <2> QED
    BY <2>1, <2>2 DEF IsFresh
<1> QED
  BY <1>1, <1>8, <1>9, <1>10 DEF BoardInv, ServerInv, TurnsInv, Board!Shown

\* A request ends; if it is the last of its column the column is what it leaves.
LEMMA EndInv ==
    ASSUME Board!BoardAssumption, BoardInv, NEW r \in requests, r.kind = "fetch", NEW col,
           requests' = requests \ {r},
           columns' = IF r.last THEN [columns EXCEPT ![r.column] = col] ELSE columns,
           UNCHANGED <<status, sync, filter, due, turn, dragged>>,
           r.last => /\ IsColumn(col)
                     /\ ~due /\ r.column \in ShownColumns =>
                            col.items \in Seq(Cards(Matches[filter] \cup dragged))
    PROVE  BoardInv'
<1>1. IsFetch(r)
  BY DEF BoardInv, RequestsInv, IsMove
<1>2. RequestsInv'
  BY DEF BoardInv, RequestsInv
<1>3. ASSUME r.last, NEW q \in requests' PROVE ~Counts(q, r.column)
  BY <1>1, <1>3 DEF BoardInv, RequestsInv, Counts, IsFetch
<1>4. ASSUME NEW c \in Board!ColumnSet
      PROVE  columns'[c] = IF r.last /\ c = r.column THEN col ELSE columns[c]
  BY <1>1 DEF BoardInv, ColumnsInv, IsFetch
<1>5. ColumnsInv'
  <2>1. columns' = [c \in Board!ColumnSet |-> columns'[c]]
    BY DEF BoardInv, ColumnsInv
  <2>2. ASSUME NEW c \in Board!ColumnSet
        PROVE  IsColumn(columns'[c]) /\ \A q \in requests' : Counts(q, c) => columns'[c].loading
    <3>1. CASE r.last /\ c = r.column
      BY <1>3, <1>4, <3>1
    <3>2. CASE ~(r.last /\ c = r.column)
      BY <1>4, <3>2 DEF BoardInv, ColumnsInv
    <3> QED
      BY <3>1, <3>2
  <2> QED
    BY <2>1, <2>2 DEF ColumnsInv
<1>6. FreshInv'
  <2> SUFFICES ASSUME ~due, NEW c \in ShownColumns PROVE IsFresh(c, columns'[c], requests', filter, dragged)
    BY DEF FreshInv, ShownColumns, Board!Shown
  <2>1. c \in Board!ColumnSet
    BY ShownAreColumns DEF ShownColumns
  <2>2. IsFresh(c, columns[c], requests, filter, dragged)
    BY DEF BoardInv, FreshInv
  <2>3. CASE r.last /\ c = r.column
    <3>1. columns'[c] = col /\ \A q \in requests' : ~Counts(q, c)
      BY <1>3, <1>4, <2>1, <2>3
    <3>2. col.items \in Seq(Cards(Matches[filter] \cup dragged))
      BY <2>3
    <3> QED
      BY <3>1, <3>2 DEF IsFresh
  <2>4. CASE ~(r.last /\ c = r.column)
    BY <1>4, <2>1, <2>2, <2>4 DEF IsFresh
  <2> QED
    BY <2>3, <2>4
<1> QED
  BY <1>2, <1>5, <1>6 DEF BoardInv, ServerInv, TurnsInv, Board!Shown

\* The pages of a request that was answered are the first ones, or one.
LEMMA PagesOfAnswer ==
    ASSUME NEW r, IsFetch(r), r.todo = {}
    PROVE  \E d \in Nat \ {0} :
              /\ Board!Max(DOMAIN r.got) = d
              /\ Board!Cardinality(DOMAIN r.got) = IF r.replace THEN d ELSE 1
              /\ DOMAIN r.got = IF r.replace THEN 1..d ELSE {d}
<1>1. PICK d \in Nat \ {0} : DOMAIN r.got = IF r.replace THEN 1..d ELSE {d}
  BY DEF IsFetch
<1>2. \A T : Board!Cardinality(T) = Cardinality(T) /\ Board!Max(T) = Max(T)
  BY DEF Board!Cardinality, Cardinality, Board!Max, Max
<1>3. Cardinality(1..d) = d /\ Cardinality({d}) = 1
  <2>1. Cardinality(1..d) = IF 1 > d THEN 0 ELSE d - 1 + 1
    BY FS_Interval
  <2>2. Cardinality({d}) = 1
    BY FS_Singleton
  <2> QED
    BY <2>1, <2>2
<1>4. Max(1..d) = d /\ Max({d}) = d
  <2>1. ASSUME NEW T, d \in T, \A y \in T : y \in Nat /\ d >= y
        PROVE  Max(T) = d
    <3>1. Max(T) \in T /\ \A y \in T : Max(T) >= y
      <4>1. \E x \in T : \A y \in T : x >= y
        BY <2>1
      <4> QED
        BY <4>1 DEF Max
    <3>2. Max(T) \in Nat /\ d >= Max(T) /\ Max(T) >= d
      BY <2>1, <3>1
    <3> QED
      BY <3>2
  <2> QED
    BY <2>1
<1> QED
  BY <1>1, <1>2, <1>3, <1>4

LEMMA PagesAnsweredInv ==
    ASSUME Board!BoardAssumption, BoardInv, NEW r \in requests, Board!Answer(r)
    PROVE  BoardInv'
<1> DEFINE col == Board!Answered(r)  c == r.column  M == Matches[r.filter]
<1>1. /\ r.kind = "fetch" /\ r.todo = {} /\ requests' = requests \ {r}
      /\ columns' = IF r.last THEN [columns EXCEPT ![c] = col] ELSE columns
      /\ UNCHANGED <<status, sync, filter, due, turn, dragged>>
  BY DEF Board!Answer, Board!IsLast, Board!server
<1>2. IsFetch(r)
  BY <1>1 DEF BoardInv, RequestsInv, IsMove
<1>3. PICK d \in Nat \ {0} :
         /\ Board!Max(DOMAIN r.got) = d
         /\ Board!Cardinality(DOMAIN r.got) = IF r.replace THEN d ELSE 1
         /\ DOMAIN r.got = IF r.replace THEN 1..d ELSE {d}
  BY <1>1, <1>2, PagesOfAnswer
<1> DEFINE n == IF r.replace THEN d ELSE 1
           piece(i) == r.got[IF r.replace THEN i ELSE d].items
           pages == [i \in 1..n |-> piece(i)]
           items == Board!FlattenSeq(pages)
<1>4. items \in Seq(Cards(M))
  <2>1. n \in Nat
    BY <1>3
  <2>2. ASSUME NEW i \in 1..n PROVE piece(i) \in Seq(Cards(M))
    <3>1. (IF r.replace THEN i ELSE d) \in DOMAIN r.got
      BY <1>3
    <3> QED
      BY <1>2, <3>1 DEF IsFetch
  <2> HIDE DEF piece, n
  <2>3. pages \in Seq(Seq(Cards(M)))
    BY <2>1, <2>2
  <2> HIDE DEF pages
  <2> QED
    BY <2>3, Flattened
<1>5. col = [items |-> IF r.replace THEN items ELSE columns[c].items \o items,
             query |-> Board!Query(r.filter), page |-> d, more |-> r.got[d].more,
             loading |-> FALSE, loaded |-> TRUE]
  BY <1>3 DEF Board!Answered
<1> HIDE DEF items, col, pages, piece, n
<1>6. /\ col.items = IF r.replace THEN items ELSE columns[c].items \o items
      /\ col.page = d /\ col.loading = FALSE
      /\ col = [items |-> col.items, query |-> col.query, page |-> col.page, more |-> col.more,
                loading |-> col.loading, loaded |-> col.loaded]
  BY <1>5
<1>7. c \in Board!ColumnSet /\ IsColumn(columns[c])
  BY <1>2 DEF IsFetch, BoardInv, ColumnsInv
<1>8. ASSUME NEW S, M \subseteq S, r.replace \/ columns[c].items \in Seq(Cards(S))
      PROVE  col.items \in Seq(Cards(S))
  <2>1. items \in Seq(Cards(S))
    BY <1>4, <1>8, CardsGrow
  <2>2. \A a, b \in Seq(Cards(S)) : a \o b \in Seq(Cards(S))
    OBVIOUS
  <2> QED
    BY <1>6, <1>8, <2>1, <2>2
<1>9. IsColumn(col)
  <2>1. M \subseteq Orders
    BY <1>2 DEF IsFetch, Board!BoardAssumption
  <2>2. col.items \in Seq(Cards(Orders))
    BY <1>7, <1>8, <2>1 DEF IsColumn
  <2> QED
    BY <1>6, <2>2 DEF IsColumn
<1>10. ASSUME r.last, ~due, c \in ShownColumns
       PROVE  col.items \in Seq(Cards(Matches[filter] \cup dragged))
  <2>1. IsFresh(c, columns[c], requests, filter, dragged) /\ Counts(r, c)
    BY <1>1, <1>10 DEF BoardInv, FreshInv, Counts
  <2>2. r.filter = filter /\ (r.replace \/ columns[c].items \in Seq(Cards(M \cup dragged)))
    BY <2>1 DEF IsFresh
  <2>3. col.items \in Seq(Cards(M \cup dragged))
    BY <1>8, <2>2
  <2> QED
    BY <2>2, <2>3
<1> QED
  <2>1. r.last => IsColumn(col) /\ (~due /\ c \in ShownColumns =>
                                       col.items \in Seq(Cards(Matches[filter] \cup dragged)))
    BY <1>9, <1>10
  <2> QED
    BY <1>1, <2>1, EndInv, Zenon

LEMMA PagesFailedInv ==
    ASSUME Board!BoardAssumption, BoardInv, NEW r \in requests, Board!Fail(r)
    PROVE  BoardInv'
<1> DEFINE c == r.column  emptied == r.replace /\ ~r.preserve
<1>0. PICK col : col = Board!Failed(r)
  OBVIOUS
<1>1. /\ r.kind = "fetch" /\ requests' = requests \ {r}
      /\ columns' = IF r.last THEN [columns EXCEPT ![c] = col] ELSE columns
      /\ UNCHANGED <<status, sync, filter, due, turn, dragged>>
  BY <1>0 DEF Board!Fail, Board!IsLast, Board!server
<1>2. IsFetch(r)
  BY <1>1 DEF BoardInv, RequestsInv, IsMove
<1>3. c \in Board!ColumnSet /\ IsColumn(columns[c])
  BY <1>2 DEF IsFetch, BoardInv, ColumnsInv
<1>4. IsColumn(col) /\ col.items = IF emptied THEN <<>> ELSE columns[c].items
  <2>1. CASE emptied
    <3>1. PICK e : e = [Board!EmptyColumn EXCEPT !.query = Board!Query(r.filter)]
      OBVIOUS
    <3>2. e = [items |-> <<>>, query |-> Board!Query(r.filter), page |-> 0, more |-> FALSE,
               loading |-> FALSE, loaded |-> FALSE]
      BY <3>1 DEF Board!EmptyColumn
    <3>3. col = [e EXCEPT !.loading = FALSE, !.loaded = TRUE]
      BY <1>0, <2>1, <3>1 DEF Board!Failed
    <3>4. <<>> \in Seq(Cards(Orders))
      OBVIOUS
    <3> QED
      BY <2>1, <3>2, <3>3, <3>4 DEF IsColumn
  <2>2. CASE ~emptied
    <3>1. col = [columns[c] EXCEPT !.loading = FALSE, !.loaded = TRUE]
      BY <1>0, <2>2 DEF Board!Failed
    <3> QED
      BY <1>3, <2>2, <3>1 DEF IsColumn
  <2> QED
    BY <2>1, <2>2
<1>5. ASSUME r.last, ~due, c \in ShownColumns
      PROVE  col.items \in Seq(Cards(Matches[filter] \cup dragged))
  <2>1. IsFresh(c, columns[c], requests, filter, dragged) /\ Counts(r, c)
    BY <1>1, <1>5 DEF BoardInv, FreshInv, Counts
  <2>2. emptied \/ columns[c].items \in Seq(Cards(Matches[filter] \cup dragged))
    BY <2>1 DEF IsFresh
  <2>3. <<>> \in Seq(Cards(Matches[filter] \cup dragged))
    OBVIOUS
  <2> QED
    BY <1>4, <2>2, <2>3
<1> QED
  <2>1. r.last => IsColumn(col) /\ (~due /\ c \in ShownColumns =>
                                       col.items \in Seq(Cards(Matches[filter] \cup dragged)))
    BY <1>4, <1>5
  <2> QED
    BY <1>1, <2>1, EndInv, Zenon

-----------------------------------------------------------------------------
(* Cards change. *)

\* Whatever shows only cards of S, those that were dragged included, goes on doing so.
LEMMA CardsInv ==
    ASSUME Board!BoardAssumption, BoardInv, ServerInv', NEW items,
           columns' = [c \in Board!ColumnSet |-> [columns[c] EXCEPT !.items = items[c]]],
           \A c \in Board!ColumnSet, S \in SUBSET Orders :
               dragged' \subseteq S /\ columns[c].items \in Seq(Cards(S)) => items[c] \in Seq(Cards(S)),
           dragged \subseteq dragged',
           \A q \in requests' : q \in requests \/ IsMove(q, dragged'),
           UNCHANGED <<filter, due, turn>>
    PROVE  BoardInv'
<1>1. \A q, c : q \in requests' /\ Counts(q, c) => q \in requests
  BY DEF IsMove, Counts
<1>2. RequestsInv'
  <2>1. ASSUME NEW q \in requests' PROVE IsFetch(q) \/ IsMove(q, dragged')
    <3>1. q \in requests => IsFetch(q) \/ IsMove(q, dragged)
      BY DEF BoardInv, RequestsInv
    <3>2. IsMove(q, dragged) => IsMove(q, dragged')
      BY CardsGrow DEF IsMove
    <3> QED
      BY <2>1, <3>1, <3>2
  <2>2. \A q, r \in requests', c \in Board!ColumnSet : Counts(q, c) /\ Counts(r, c) => q = r
    BY <1>1 DEF BoardInv, RequestsInv
  <2> QED
    BY <2>1, <2>2 DEF RequestsInv
<1>3. ASSUME NEW c \in Board!ColumnSet
      PROVE  /\ IsColumn(columns'[c]) /\ columns'[c].items = items[c]
             /\ columns'[c].loading = columns[c].loading
  <2>1. IsColumn(columns[c]) /\ columns'[c] = [columns[c] EXCEPT !.items = items[c]]
    BY DEF BoardInv, ColumnsInv
  <2>2. items[c] \in Seq(Cards(Orders))
    <3>1. dragged' \subseteq Orders /\ Orders \in SUBSET Orders
      BY DEF ServerInv
    <3> QED
      BY <2>1, <3>1 DEF IsColumn
  <2> QED
    BY <2>1, <2>2 DEF IsColumn
<1>4. ColumnsInv'
  <2>1. columns' = [c \in Board!ColumnSet |-> columns'[c]]
    OBVIOUS
  <2>2. \A c \in Board!ColumnSet : \A q \in requests' : Counts(q, c) => columns'[c].loading
    BY <1>1, <1>3 DEF BoardInv, ColumnsInv
  <2> QED
    BY <1>3, <2>1, <2>2 DEF ColumnsInv
<1>5. FreshInv'
  <2> SUFFICES ASSUME ~due, NEW c \in ShownColumns PROVE IsFresh(c, columns'[c], requests', filter, dragged')
    BY DEF FreshInv, ShownColumns, Board!Shown
  <2>1. c \in Board!ColumnSet
    BY ShownAreColumns DEF ShownColumns
  <2>2. IsFresh(c, columns[c], requests, filter, dragged)
    BY DEF BoardInv, FreshInv
  <2> DEFINE S == Matches[filter] \cup dragged  R == Matches[filter] \cup dragged'
  <2>3. columns[c].items \in Seq(Cards(S)) => columns'[c].items \in Seq(Cards(R))
    <3>1. S \subseteq R /\ dragged' \subseteq R
      OBVIOUS
    <3>2. R \in SUBSET Orders
      <4>1. dragged' \subseteq Orders /\ filter \in Filters
        BY DEF ServerInv
      <4> QED
        BY <4>1 DEF Board!BoardAssumption
    <3> HIDE DEF S, R
    <3>3. columns[c].items \in Seq(Cards(S)) => columns[c].items \in Seq(Cards(R))
      BY <3>1, CardsGrow
    <3> QED
      BY <1>3, <2>1, <3>1, <3>2, <3>3
  <2>4. \A q \in requests' : Counts(q, c) => q \in requests
    BY <1>1
  <2>5. columns'[c].loading = columns[c].loading
    BY <1>3, <2>1
  <2> QED
    BY <2>2, <2>3, <2>4, <2>5 DEF IsFresh
<1> QED
  BY <1>2, <1>4, <1>5 DEF BoardInv, TurnsInv, Board!Shown

\* A list with one more card at its head, without a card, or with another view of one.
LEMMA ListsOfCards ==
    ASSUME NEW S, NEW s \in Seq(Cards(S))
    PROVE  /\ \A o : Board!Without(s, o) \in Seq(Cards(S))
           /\ \A v \in Cards(S) : \A o : <<v>> \o Board!Without(s, o) \in Seq(Cards(S))
           /\ \A v \in Cards(S) : Board!Replaced(s, v) \in Seq(Cards(S))
<1>1. \A o : Board!Without(s, o) \in Seq(Cards(S))
  BY PartOfCards
<1>2. \A v \in Cards(S) : \A o : <<v>> \o Board!Without(s, o) \in Seq(Cards(S))
  <2>1. \A v \in Cards(S), t \in Seq(Cards(S)) : <<v>> \o t \in Seq(Cards(S))
    OBVIOUS
  <2> QED
    BY <1>1, <2>1
<1>3. \A v \in Cards(S) : Board!Replaced(s, v) \in Seq(Cards(S))
  BY DEF Board!Replaced
<1> QED
  BY <1>1, <1>2, <1>3

\* Only the server changes: a status, or how far its change has got.
LEMMA ServerMovesInv ==
    ASSUME Board!BoardAssumption, BoardInv, NEW o \in Orders,
           Board!MovedElsewhere(o) \/ Board!Synced(o)
    PROVE  BoardInv'
<1>1. UNCHANGED <<filter, due, columns, turn, requests, dragged>>
  BY DEF Board!MovedElsewhere, Board!Synced
<1>2. status' \in [Orders -> Board!ColumnSet] /\ sync' \in [Orders -> Syncs]
  BY DEF Board!MovedElsewhere, Board!Synced, Board!SetStatus, BoardInv, ServerInv, Syncs
<1> QED
  BY <1>1, <1>2 DEF BoardInv, ServerInv, TurnsInv, RequestsInv, ColumnsInv, FreshInv,
                    ShownColumns, Board!Shown

LEMMA FilterChangesInv ==
    ASSUME Board!BoardAssumption, BoardInv, NEW f \in Filters, Board!ChangeFilter(f)
    PROVE  BoardInv'
<1>1. /\ filter' = f /\ due' = TRUE /\ turn' = 1
      /\ UNCHANGED <<status, sync, columns, requests, dragged>>
  BY DEF Board!ChangeFilter, Board!server
<1>2. TurnsInv'
  <2>1. /\ Len(Board!Shown(f)) \in Nat /\ Board!Shown(f) \in Seq(ToSet(Board!Shown(f)))
    BY ShownAreColumns
  <2>2. Board!Shown(f) # <<>> => 1 <= Len(Board!Shown(f))
    BY <2>1
  <2>3. Board!Shown(filter)' = Board!Shown(f)
    BY <1>1 DEF Board!Shown
  <2> QED
    BY <1>1, <2>2, <2>3 DEF TurnsInv
<1> QED
  BY <1>1, <1>2 DEF BoardInv, ServerInv, RequestsInv, ColumnsInv, FreshInv

LEMMA MoveOrderInv ==
    ASSUME Board!BoardAssumption, BoardInv, NEW o \in Orders,
           NEW from \in Board!ColumnSet, NEW to \in Board!ColumnSet,
           Board!MoveOrderToColumn(o, from, to)
    PROVE  BoardInv'
<1> DEFINE list == columns[from].items
           places == Board!Places(list, o)
           original == list[Board!Min(places)]
<1>0. PICK card : card = [original EXCEPT !.status = to]
  OBVIOUS
<1>1. PICK r : r = [kind |-> "move", view |-> original, from |-> from, to |-> to, step |-> "sent"]
  OBVIOUS
<1>2. /\ from # to /\ places # {}
      /\ columns' = [columns EXCEPT ![from].items = Board!Without(@, o),
                                    ![to].items = <<card>> \o Board!Without(@, o)]
      /\ requests' = requests \cup {r} /\ dragged' = dragged \cup {o}
      /\ UNCHANGED <<status, sync, filter, due, turn>>
  BY <1>0, <1>1 DEF Board!MoveOrderToColumn, Board!server, Board!Has
<1>3. original \in Cards({o})
  <2>1. list \in Seq(Cards(Orders))
    BY DEF BoardInv, ColumnsInv, IsColumn
  <2>2. Board!Min(places) \in places
    <3>1. places \in SUBSET Nat /\ \A T : Board!Min(T) = Min(T)
      BY <2>1 DEF Board!Places, Board!Min, Min
    <3> HIDE DEF places
    <3>2. PICK x \in places : \A y \in places : x <= y
      BY <1>2, <3>1, LeastExists
    <3> QED
      BY <3>1, <3>2 DEF Min
  <2>3. original \in Cards(Orders) /\ original.id = o
    <3>1. \A i \in places : list[i] \in Cards(Orders) /\ list[i].id = o
      BY <2>1 DEF Board!Places
    <3> HIDE DEF places
    <3> QED
      BY <2>2, <3>1
  <2> HIDE DEF original
  <2> QED
    BY <2>3 DEF Cards
<1> HIDE DEF original
<1>4. card \in Cards({o})
  BY <1>0, <1>3 DEF Cards
<1>5. IsMove(r, dragged')
  <2>1. original \in Cards(dragged')
    BY <1>2, <1>3, CardsGrow
  <2> QED
    BY <1>1, <1>2, <2>1 DEF IsMove
<1> DEFINE items == [c \in Board!ColumnSet |->
                       IF c = from THEN Board!Without(columns[c].items, o)
                       ELSE IF c = to THEN <<card>> \o Board!Without(columns[c].items, o)
                       ELSE columns[c].items]
<1>6. columns' = [c \in Board!ColumnSet |-> [columns[c] EXCEPT !.items = items[c]]]
  <2>1. columns = [c \in Board!ColumnSet |-> columns[c]]
    BY DEF BoardInv, ColumnsInv
  <2>2. \A c \in Board!ColumnSet : columns[c] = [columns[c] EXCEPT !.items = columns[c].items]
    BY DEF BoardInv, ColumnsInv, IsColumn
  <2> QED
    BY <1>2, <2>1, <2>2
<1>7. ASSUME NEW c \in Board!ColumnSet, NEW S \in SUBSET Orders, dragged' \subseteq S,
             columns[c].items \in Seq(Cards(S))
      PROVE  items[c] \in Seq(Cards(S))
  <2>1. card \in Cards(S)
    BY <1>2, <1>4, <1>7, CardsGrow
  <2> QED
    BY <1>7, <2>1, ListsOfCards
<1>8. ServerInv'
  BY <1>2 DEF BoardInv, ServerInv
<1> HIDE DEF items
<1> QED
  BY <1>2, <1>5, <1>6, <1>7, <1>8, CardsInv

LEMMA ServeMoveInv ==
    ASSUME Board!BoardAssumption, BoardInv, NEW r \in requests, Board!ServeMove(r)
    PROVE  BoardInv'
<1> DEFINE items == [c \in Board!ColumnSet |-> columns[c].items]
<1>0. PICK q : q = [r EXCEPT !.step = "done", !.view.status = r.to, !.view.sync = "pending"]
  OBVIOUS
<1>1. /\ r.kind = "move" /\ requests' = (requests \ {r}) \cup {q}
      /\ Board!SetStatus(r.view.id, r.to)
      /\ UNCHANGED <<filter, due, columns, turn, dragged>>
  BY <1>0 DEF Board!ServeMove
<1>2. IsMove(r, dragged)
  BY <1>1 DEF BoardInv, RequestsInv, IsFetch
<1>3. IsMove(q, dragged')
  <2>1. PICK v : v = [r.view EXCEPT !.status = r.to, !.sync = "pending"]
    OBVIOUS
  <2>2. v \in Cards(dragged)
    BY <1>2, <2>1 DEF IsMove, Cards, Syncs
  <2>3. q.view = v /\ q.kind = r.kind /\ q.from = r.from /\ q.to = r.to
        /\ q = [kind |-> q.kind, view |-> q.view, from |-> q.from, to |-> q.to, step |-> q.step]
    BY <1>0, <1>2, <2>1 DEF IsMove
  <2> QED
    BY <1>1, <1>2, <2>2, <2>3 DEF IsMove
<1>4. ServerInv'
  <2>1. r.to \in Board!ColumnSet
    BY <1>2 DEF IsMove
  <2> QED
    BY <1>1, <2>1 DEF BoardInv, ServerInv, Board!SetStatus, Syncs
<1>5. columns' = [c \in Board!ColumnSet |-> [columns[c] EXCEPT !.items = items[c]]]
  <2>1. columns = [c \in Board!ColumnSet |-> columns[c]]
    BY DEF BoardInv, ColumnsInv
  <2>2. \A c \in Board!ColumnSet : columns[c] = [columns[c] EXCEPT !.items = columns[c].items]
    BY DEF BoardInv, ColumnsInv, IsColumn
  <2> QED
    BY <1>1, <2>1, <2>2
<1>6. \A c \in Board!ColumnSet : items[c] = columns[c].items
  OBVIOUS
<1> HIDE DEF items
<1> QED
  BY <1>1, <1>3, <1>4, <1>5, <1>6, CardsInv

LEMMA AnswerMoveInv ==
    ASSUME Board!BoardAssumption, BoardInv, NEW r \in requests, Board!AnswerMove(r)
    PROVE  BoardInv'
<1> DEFINE items == [c \in Board!ColumnSet |-> IF c = r.to THEN Board!Replaced(columns[c].items, r.view)
                                               ELSE columns[c].items]
<1>1. /\ r.kind = "move" /\ requests' = requests \ {r}
      /\ columns' = [columns EXCEPT ![r.to].items = Board!Replaced(@, r.view)]
      /\ UNCHANGED <<status, sync, filter, due, turn, dragged>>
  BY DEF Board!AnswerMove, Board!server
<1>2. IsMove(r, dragged)
  BY <1>1 DEF BoardInv, RequestsInv, IsFetch
<1>3. columns' = [c \in Board!ColumnSet |-> [columns[c] EXCEPT !.items = items[c]]]
  <2>1. columns = [c \in Board!ColumnSet |-> columns[c]]
    BY DEF BoardInv, ColumnsInv
  <2>2. \A c \in Board!ColumnSet : columns[c] = [columns[c] EXCEPT !.items = columns[c].items]
    BY DEF BoardInv, ColumnsInv, IsColumn
  <2> QED
    BY <1>1, <2>1, <2>2
<1>4. ASSUME NEW c \in Board!ColumnSet, NEW S \in SUBSET Orders, dragged \subseteq S,
             columns[c].items \in Seq(Cards(S))
      PROVE  items[c] \in Seq(Cards(S))
  <2>1. r.view \in Cards(S)
    BY <1>2, <1>4, CardsGrow DEF IsMove
  <2> QED
    BY <1>4, <2>1, ListsOfCards
<1>5. ServerInv'
  BY <1>1 DEF BoardInv, ServerInv
<1> HIDE DEF items
<1> QED
  BY <1>1, <1>3, <1>4, <1>5, CardsInv

LEMMA FailMoveInv ==
    ASSUME Board!BoardAssumption, BoardInv, NEW r \in requests, Board!FailMove(r)
    PROVE  BoardInv'
<1> DEFINE o == r.view.id
           items == [c \in Board!ColumnSet |->
                       IF c = r.to THEN Board!Without(columns[c].items, o)
                       ELSE IF c = r.from THEN <<[r.view EXCEPT !.status = r.from]>> \o
                                               Board!Without(columns[c].items, o)
                       ELSE columns[c].items]
<1>1. /\ r.kind = "move" /\ requests' = requests \ {r}
      /\ columns' = [columns EXCEPT
            ![r.to].items = Board!Without(@, o),
            ![r.from].items = <<[r.view EXCEPT !.status = r.from]>> \o Board!Without(@, o)]
      /\ UNCHANGED <<status, sync, filter, due, turn, dragged>>
  BY DEF Board!FailMove, Board!server
<1>2. IsMove(r, dragged)
  BY <1>1 DEF BoardInv, RequestsInv, IsFetch
<1>3. columns' = [c \in Board!ColumnSet |-> [columns[c] EXCEPT !.items = items[c]]]
  <2>1. columns = [c \in Board!ColumnSet |-> columns[c]]
    BY DEF BoardInv, ColumnsInv
  <2>2. \A c \in Board!ColumnSet : columns[c] = [columns[c] EXCEPT !.items = columns[c].items]
    BY DEF BoardInv, ColumnsInv, IsColumn
  <2>3. r.to # r.from
    BY <1>2 DEF IsMove
  <2> QED
    BY <1>1, <2>1, <2>2, <2>3
<1>4. ASSUME NEW c \in Board!ColumnSet, NEW S \in SUBSET Orders, dragged \subseteq S,
             columns[c].items \in Seq(Cards(S))
      PROVE  items[c] \in Seq(Cards(S))
  <2>1. [r.view EXCEPT !.status = r.from] \in Cards(dragged)
    BY <1>2 DEF IsMove, Cards
  <2>2. [r.view EXCEPT !.status = r.from] \in Cards(S)
    BY <1>4, <2>1, CardsGrow
  <2> QED
    BY <1>4, <2>2, ListsOfCards
<1>5. ServerInv'
  BY <1>1 DEF BoardInv, ServerInv
<1> HIDE DEF items
<1> QED
  BY <1>1, <1>3, <1>4, <1>5, CardsInv

\* A poll only changes how far a change has got.
LEMMA BoardPollInv ==
    ASSUME Board!BoardAssumption, BoardInv, Board!Poll
    PROVE  BoardInv'
<1> DEFINE polled(v) == IF v.sync = "pending" THEN [v EXCEPT !.sync = sync[v.id]] ELSE v
           items == [c \in Board!ColumnSet |->
                       [i \in DOMAIN columns[c].items |-> polled(columns[c].items[i])]]
<1>1. /\ columns' = [c \in Board!ColumnSet |-> [columns[c] EXCEPT
                       !.items = [i \in DOMAIN @ |-> polled(@[i])]]]
      /\ UNCHANGED <<status, sync, filter, due, turn, requests, dragged>>
  BY DEF Board!Poll, Board!server
<1>2. columns' = [c \in Board!ColumnSet |-> [columns[c] EXCEPT !.items = items[c]]]
  <2> HIDE DEF polled
  <2> QED
    BY <1>1
<1>3. ASSUME NEW c \in Board!ColumnSet, NEW S \in SUBSET Orders, columns[c].items \in Seq(Cards(S))
      PROVE  items[c] \in Seq(Cards(S))
  <2>1. ASSUME NEW v \in Cards(S) PROVE polled(v) \in Cards(S)
    BY DEF BoardInv, ServerInv, Cards
  <2>2. \A s \in Seq(Cards(S)) : [i \in DOMAIN s |-> polled(s[i])] \in Seq(Cards(S))
    <3> HIDE DEF polled
    <3> QED
      BY <2>1
  <2> HIDE DEF polled
  <2> QED
    BY <1>3, <2>2
<1>4. ServerInv'
  BY <1>1 DEF BoardInv, ServerInv
<1> HIDE DEF items
<1> QED
  BY <1>1, <1>2, <1>3, <1>4, CardsInv

LEMMA BoardInitInv ==
    ASSUME Board!BoardAssumption, Board!Init
    PROVE  BoardInv
<1>1. ServerInv /\ RequestsInv
  BY DEF Board!Init, ServerInv, RequestsInv, Syncs
<1>2. ColumnsInv
  <2>1. <<>> \in Seq(Cards(Orders))
    OBVIOUS
  <2> QED
    BY <2>1 DEF Board!Init, ColumnsInv, IsColumn, Board!EmptyColumn
<1>3. TurnsInv
  <2>1. /\ Len(Board!Shown(filter)) \in Nat
        /\ Board!Shown(filter) \in Seq(ToSet(Board!Shown(filter)))
    BY ShownAreColumns
  <2>2. Board!Shown(filter) # <<>> => 1 <= Len(Board!Shown(filter))
    BY <2>1
  <2> QED
    BY <2>2 DEF Board!Init, TurnsInv
<1> QED
  BY <1>1, <1>2, <1>3 DEF Board!Init, BoardInv, FreshInv

LEMMA BoardNextInv ==
    ASSUME Board!BoardAssumption, BoardInv, [Board!Next]_(Board!vars)
    PROVE  BoardInv'
<1>1. CASE \E o \in Orders : Board!MovedElsewhere(o) \/ Board!Synced(o)
  BY <1>1, ServerMovesInv
<1>2. CASE Board!Reload \/ Board!Refresh \/ Board!Poll
  BY <1>2, ReloadInv, RefreshInv, BoardPollInv
<1>3. CASE \E c \in Board!ColumnSet : Board!LoadMore(c)
  BY <1>3, LoadMoreInv
<1>4. CASE \E f \in Filters : Board!ChangeFilter(f)
  BY <1>4, FilterChangesInv
<1>5. CASE \E r \in requests : Board!CallStep(r) \/ Board!Fail(r) \/ Board!FailMove(r)
  <2>1. PICK r \in requests : Board!CallStep(r) \/ Board!Fail(r) \/ Board!FailMove(r)
    BY <1>5
  <2>2. CASE \E p \in 1..Board!Cardinality(Orders) : Board!ServePage(r, p)
    <3>1. PICK p \in 1..Board!Cardinality(Orders) : Board!ServePage(r, p)
      BY <2>2
    <3>2. p \in Nat \ {0}
      OBVIOUS
    <3> QED
      BY <3>1, <3>2, ServePageInv
  <2>3. CASE Board!Answer(r) \/ Board!ServeMove(r) \/ Board!AnswerMove(r)
    BY <2>3, PagesAnsweredInv, ServeMoveInv, AnswerMoveInv
  <2>4. CASE Board!Fail(r) \/ Board!FailMove(r)
    BY <2>4, PagesFailedInv, FailMoveInv
  <2> QED
    BY <2>1, <2>2, <2>3, <2>4 DEF Board!CallStep
<1>6. CASE \E o \in Orders, from, to \in Board!ColumnSet : Board!MoveOrderToColumn(o, from, to)
  BY <1>6, MoveOrderInv
<1>7. CASE UNCHANGED Board!vars
  BY <1>7 DEF Board!vars, Board!server, Board!bounds, BoardInv, ServerInv, TurnsInv, RequestsInv,
              ColumnsInv, FreshInv, ShownColumns, Board!Shown
<1> QED
  BY <1>1, <1>2, <1>3, <1>4, <1>5, <1>6, <1>7 DEF Board!Next

\* Whatever was asked for before, answered late or given up, and wherever cards were dragged:
\* a column that is not being loaded shows orders that pass the filters that are set now,
\* or that the person has moved.
THEOREM ColumnsAreFiltered ==
    ASSUME Board!BoardAssumption
    PROVE  Board!Spec => []Board!ColumnsMatchTheFilter
<1>1. ASSUME BoardInv PROVE Board!ColumnsMatchTheFilter
  <2> SUFFICES ASSUME NEW c \in Board!Visible, ~due, ~columns[c].loading,
                      NEW i \in DOMAIN columns[c].items
               PROVE  columns[c].items[i].id \in Matches[filter] \cup dragged
    BY DEF Board!ColumnsMatchTheFilter
  <2>1. c \in ShownColumns
    <3>1. \A s : Board!ToSet(s) = ToSet(s)
      BY DEF Board!ToSet, ToSet
    <3> QED
      BY <3>1 DEF Board!Visible, ShownColumns
  <2>2. columns[c].items \in Seq(Cards(Matches[filter] \cup dragged))
    BY <1>1, <2>1 DEF BoardInv, FreshInv, IsFresh
  <2>3. columns[c].items[i] \in Cards(Matches[filter] \cup dragged)
    BY <2>2
  <2> QED
    BY <2>3 DEF Cards
<1>2. Board!Init => BoardInv
  BY BoardInitInv
<1>3. BoardInv /\ [Board!Next]_(Board!vars) => BoardInv'
  BY BoardNextInv
<1> QED
  BY <1>1, <1>2, <1>3, PTL DEF Board!Spec

-----------------------------------------------------------------------------
(* The pages side by side (MCPages), as they are model-checked. *)

\* Whichever page a behaviour is of, it is a behaviour of the board, of the card and of
\* the chat: the pages that keep still stutter.
LEMMA PagesAreTheirs == MCSpec => Board!Spec /\ Edits!Spec /\ Chat!Spec
<1> DEFINE mcVars == <<part, boardVars, threadVars, cardVars, chatVars>>
<1>1. MCInit => Board!Init /\ Edits!Init /\ Chat!Init
  BY DEF MCInit
<1>2. [MCNext]_mcVars => [Board!Next]_(Board!vars)
  <2>1. UNCHANGED boardVars => UNCHANGED Board!vars
    BY DEF boardVars, Board!vars, Board!server, Board!bounds
  <2> QED
    BY <2>1 DEF MCNext
<1>3. [MCNext]_mcVars => [Edits!Next]_(Edits!vars)
  <2>1. UNCHANGED cardVars => UNCHANGED Edits!vars
    BY DEF cardVars, Edits!vars, Edits!card
  <2> QED
    BY <2>1 DEF MCNext
<1>4. [MCNext]_mcVars => [Chat!Next]_(Chat!vars)
  <2>1. UNCHANGED chatVars => UNCHANGED Chat!vars
    BY DEF chatVars, Chat!vars, Chat!server, Chat!socket
  <2> QED
    BY <2>1 DEF MCNext
<1> QED
  BY <1>1, <1>2, <1>3, <1>4, PTL DEF MCSpec, Board!Spec, Edits!Spec, Chat!Spec

\* What a column of the board shows passes the filters that are set now, or was moved there.
THEOREM BoardShowsWhatIsAsked == MCSpec => []ColumnsMatchTheFilter
BY ColumnsAreFiltered, BoardIsABoard, PagesAreTheirs, PTL DEF ColumnsMatchTheFilter

\* No request of an overlapping pair takes away what the other has added to an order.
THEOREM AdditionsAreNotLost == MCSpec => []AdditionsStay
BY AdditionsAreKept, PagesAreTheirs, PTL DEF AdditionsStay

\* The page of a chat has each message once, and all from the cursor to the newest loaded.
THEOREM ThreadIsWhole == MCSpec => []ThreadHasNoHole
BY ChatHasNoHole, PagesAreTheirs, PTL DEF ThreadHasNoHole
=============================================================================
