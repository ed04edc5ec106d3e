-------------------------- MODULE OrderFilesProofs --------------------------
(***************************************************************************)
(* The end of an order's files, for any number of orders, any originals    *)
(* and any bounds: the cleanup takes no original that an attachment uses,  *)
(* late attachments have a term of their own, and an automatic completion  *)
(* never overrules a manager.                                              *)
(*                                                                         *)
(* The slots for work on images (ImageSlots) are counted right and kept to *)
(* their limits, for any jobs and limits.  And what the run of MCFiles     *)
(* checks holds for every value of its constants: each of its parts is a   *)
(* behaviour of the module it is about.                                    *)
(***************************************************************************)
EXTENDS MCFiles, SequenceTheorems, FiniteSetTheorems, WellFoundedInduction, TLAPS

\* ORDER_ATTACHMENT_CLEANUP's page and delay.
LimitsAreNatural == NumOrders \in Nat /\ Delay \in Nat /\ PageSize \in Nat \ {0}

Ages == 0..(Delay + 1)
Tags == [there : BOOLEAN, age : Ages, done : BOOLEAN]
Attachments == [preview : {"none", "pending", "shown", "failed"}, tries : 0..2,
                age : Ages, late : BOOLEAN]
Places == {"idle", "mark", "act", "sent", "delivered", "completed"}
Ticks == [at : Places, page : SUBSET Orders, cursor : Orders \cup {0}, actions : Orders \cup {0}]
Renders == [at : {"idle", "render", "record", "count"}, for : Orders \cup {0}]
Requests == [order : Orders, key : Keys, preview : {"none", "pending", "shown"}]

\* The order that a step of the completion is about is on its page.
Types ==
    /\ TypeOK
    /\ meta \in [Keys -> {"none", "pending", "shown"}]
    /\ deletion \in [Keys -> {"none", "later", "due"}]
    /\ worker \in [Kinds -> Ticks]
    /\ \A kind \in Kinds :
          worker[kind].at \in {"sent", "delivered", "completed"} => worker[kind].page # {}
    /\ render \in [Keys -> Renders]
    /\ attaching \subseteq Requests
    /\ removal \in [order : Orders \cup {0}, keys : SUBSET Keys]

\* The objects of an order are only removed once the order is gone.
RemovalInv ==
    removal.order # 0 /\ status[removal.order] = "gone" => removal.keys \subseteq spoiled

\* A term that is running began no earlier than a late attachment came.
TermInv ==
    \A o \in Orders, k \in Keys :
        (att[o][k].late /\ tags["cleanup"][o].there /\ ~tags["cleanup"][o].done)
            => tags["cleanup"][o].age <= att[o][k].age

IInv == Types /\ RemovalInv /\ SharedOriginalsStay /\ TermInv

-----------------------------------------------------------------------------
(* Pages. *)

\* A set of natural numbers has a least one.
LEMMA LeastExists ==
    ASSUME NEW P \in SUBSET Nat, P # {}
    PROVE  \E n \in P : \A k \in P : n <= k
<1>1. PICK n \in P : \A k \in P : ~(<<k, n>> \in OpToRel(<, Nat))
  BY NatLessThanWellFounded, WFMin
<1>2. \A k \in P : <<k, n>> \in Nat \X Nat
  OBVIOUS
<1>3. \A k \in P : ~(k < n)
  BY <1>1, <1>2 DEF OpToRel
<1> QED
  BY <1>3

LEMMA OrdersAreNumbers ==
    ASSUME LimitsAreNatural
    PROVE  Orders \subseteq Nat /\ 0 \notin Orders /\ \A o \in Orders : o <= NumOrders
BY DEF LimitsAreNatural, Orders

\* The first order of a page is on it.
LEMMA FirstIsThere ==
    ASSUME LimitsAreNatural, NEW page \in SUBSET Orders, page # {}
    PROVE  First(page) \in page
<1>1. page \in SUBSET Nat
  BY OrdersAreNumbers
<1>2. \E n \in page : \A k \in page : n <= k
  BY <1>1, LeastExists
<1> QED
  BY <1>2 DEF First

\* The last order of a page exists: the least bound of the page is on it.
LEMMA LastExists ==
    ASSUME LimitsAreNatural, NEW page \in SUBSET Orders, page # {}
    PROVE  \E o \in page : \A p \in page : p <= o
<1> DEFINE bounds == {n \in Nat : \A p \in page : p <= n}
<1>1. page \subseteq Nat /\ 0 \notin page
  BY OrdersAreNumbers
<1>2. NumOrders \in bounds
  BY OrdersAreNumbers DEF LimitsAreNatural
<1>3. PICK n \in bounds : \A k \in bounds : n <= k
  <2> HIDE DEF bounds
  <2>1. bounds \in SUBSET Nat
    BY DEF bounds
  <2> QED
    BY <1>2, <2>1, LeastExists
<1>4. n \in page
  <2> SUFFICES ASSUME n \notin page PROVE FALSE
    OBVIOUS
  <2>1. \A p \in page : p < n
    BY <1>1, <1>3
  <2>2. n # 0
    <3>1. PICK p \in page : TRUE
      OBVIOUS
    <3>2. p \in Nat /\ p < n
      BY <1>1, <2>1, <3>1
    <3> QED
      BY <3>2
  <2>3. n - 1 \in bounds
    BY <1>1, <1>3, <2>1, <2>2
  <2> QED
    BY <1>3, <2>3
<1> QED
  BY <1>3, <1>4

LEMMA CursorIsAnOrder ==
    ASSUME LimitsAreNatural, NEW page \in SUBSET Orders
    PROVE  After(page) \in Orders \cup {0}
<1>1. CASE Cardinality(page) = PageSize
  <2>1. page # {}
    BY <1>1, FS_EmptySet DEF LimitsAreNatural
  <2> QED
    BY <1>1, <2>1, LastExists DEF After
<1>2. CASE Cardinality(page) # PageSize
  BY <1>2 DEF After
<1> QED
  BY <1>1, <1>2

LEMMA PagesAreOrders == \A S, cursor : Page(S, cursor) \subseteq S
  BY DEF Page

-----------------------------------------------------------------------------
(* What every step keeps. *)

\* What TypeOK says, in the words of this module.
LEMMA TypeForms ==
    TypeOK <=> /\ status \in [Orders -> {"work", "sent", "cancelled", "delivered", "gone"}]
               /\ tags \in [Kinds -> [Orders -> Tags]]
               /\ att \in [Orders -> [Keys -> Attachments]]
               /\ \A k \in Keys : render[k].for # 0 <=> render[k].at # "idle"
BY DEF TypeOK, Tags, Attachments, Ages

\* The originals are safe in a step that attaches nothing, takes no original of an
\* attachment away and hands none over.
LEMMA NothingIsTaken ==
    ASSUME SharedOriginalsStay, spoiled \subseteq spoiled',
           \A k \in Keys \ spoiled' : Attached(k)' # {} =>
               /\ Attached(k) # {}
               /\ k \in original => k \in original'
               /\ deletion[k] = "none" => deletion'[k] = "none"
    PROVE  SharedOriginalsStay'
BY DEF SharedOriginalsStay

\* An order in removal keeps its promise as long as no other becomes one.
LEMMA RemovalStays ==
    ASSUME Types, RemovalInv, UNCHANGED removal, spoiled \subseteq spoiled',
           \A o \in Orders : status'[o] = "gone" => status[o] = "gone"
    PROVE  RemovalInv'
BY DEF RemovalInv, Types

\* Terms go on, end, or begin.
LEMMA TermsGoOn ==
    ASSUME Types, TermInv,
           \A o \in Orders, k \in Keys : att'[o][k].late =>
               att[o][k].late /\ att'[o][k].age = att[o][k].age,
           \A o \in Orders : \/ tags'["cleanup"][o] = tags["cleanup"][o]
                             \/ ~tags'["cleanup"][o].there \/ tags'["cleanup"][o].done
                             \/ tags'["cleanup"][o].age = 0
    PROVE  TermInv'
<1> SUFFICES ASSUME NEW o \in Orders, NEW k \in Keys, att'[o][k].late,
                    tags'["cleanup"][o].there, ~tags'["cleanup"][o].done
             PROVE  tags'["cleanup"][o].age <= att'[o][k].age
  BY DEF TermInv
<1>1. att[o][k].late /\ att'[o][k].age = att[o][k].age
  OBVIOUS
<1>2. att[o][k].age \in Nat
  BY TypeForms DEF Types, Attachments, Ages
<1>3. CASE tags'["cleanup"][o] = tags["cleanup"][o]
  BY <1>1, <1>3 DEF TermInv
<1>4. CASE tags'["cleanup"][o].age = 0
  BY <1>1, <1>2, <1>4
<1> QED
  BY <1>3, <1>4

LEMMA InitInv ==
    ASSUME LimitsAreNatural, Init
    PROVE  IInv
<1> USE DEF LimitsAreNatural
<1>1. 0 \in Ages /\ 0 \notin Orders
  BY DEF Ages, Orders
<1>2. TypeOK
  <2>1. status \in [Orders -> {"work", "sent", "cancelled", "delivered", "gone"}]
    BY DEF Init
  <2>2. tags \in [Kinds -> [Orders -> Tags]]
    BY <1>1 DEF Init, NoTag, Tags
  <2>3. att \in [Orders -> [Keys -> Attachments]]
    <3>1. NoAttachment \in Attachments
      BY <1>1 DEF NoAttachment, Attachments
    <3>2. \A p \in {"none", "pending", "shown"} : [NoAttachment EXCEPT !.preview = p] \in Attachments
      BY <3>1 DEF Attachments
    <3> QED
      BY <3>1, <3>2 DEF Init
  <2>4. \A k \in Keys : render[k].for # 0 <=> render[k].at # "idle"
    BY DEF Init, NoRender
  <2> QED
    BY <2>1, <2>2, <2>3, <2>4 DEF TypeOK, Tags, Attachments, Ages
<1>3. Types
  BY <1>2 DEF Init, Types, NoTick, NoRender, NoRemoval, Ticks, Places, Renders, Kinds
<1>4. RemovalInv
  BY DEF Init, RemovalInv, NoRemoval
<1>5. SharedOriginalsStay
  <2> SUFFICES ASSUME NEW k \in Keys, NEW o \in Orders, att[o][k].preview # "none"
               PROVE  k \in original /\ deletion[k] = "none"
    BY DEF SharedOriginalsStay, Attached
  <2>1. att[o][k].preview = meta[k]
    BY DEF Init, NoAttachment
  <2>2. original = {l \in Keys : meta[l] # "none"} /\ deletion = [l \in Keys |-> "none"]
    BY DEF Init
  <2> QED
    BY <2>1, <2>2
<1>6. TermInv
  <2>1. tags = [kind \in Kinds |-> [o \in Orders |-> NoTag]]
    BY DEF Init
  <2>2. \A o \in Orders : ~tags["cleanup"][o].there
    BY <2>1 DEF NoTag, Kinds
  <2> QED
    BY <2>2 DEF TermInv
<1> QED
  BY <1>3, <1>4, <1>5, <1>6 DEF IInv

\* What deleteBatch does to the order it has found due.
Deletes(o, batch) ==
    LET tag == tags["cleanup"][o] IN
    /\ batch \in Batch(o) /\ tag.there /\ ~tag.done /\ tag.age > Delay
    /\ att' = [att EXCEPT ![o] = [k \in Keys |-> IF k \in batch THEN NoAttachment ELSE att[o][k]]]
    /\ deletion' = [k \in Keys |->
           IF k \notin Unused(o, batch) THEN deletion[k]
           ELSE IF att[o][k].preview = "pending" THEN "later" ELSE "due"]
    /\ tags' = IF batch = KeysOf(o) THEN [tags EXCEPT !["cleanup"][o] = [tag EXCEPT !.done = TRUE]]
               ELSE tags

LEMMA DeletesOrNot ==
    ASSUME DeleteBatch
    PROVE  \/ UNCHANGED <<att, deletion, tags>>
           \/ \E batch : Deletes(First(worker["cleanup"].page), batch)
BY DEF DeleteBatch, Deletes

LEMMA ChangesOfTypes ==
    ASSUME LimitsAreNatural
    PROVE  /\ NoTag \in Tags /\ NoAttachment \in Attachments
           /\ \A t \in Tags : /\ Older(t) \in Tags /\ Rearm(t) \in Tags
                              /\ [t EXCEPT !.done = TRUE] \in Tags
                              /\ [NoTag EXCEPT !.there = TRUE] \in Tags
           /\ \A a \in Attachments : /\ Older(a) \in Attachments
                                     /\ [a EXCEPT !.preview = "shown"] \in Attachments
<1>1. 0 \in Ages
  BY DEF LimitsAreNatural, Ages
<1>2. \A g \in Ages : (IF g > Delay THEN g ELSE g + 1) \in Ages
  BY DEF LimitsAreNatural, Ages
<1>3. NoTag \in Tags
  BY <1>1 DEF NoTag, Tags
<1>4. NoAttachment \in Attachments
  BY <1>1 DEF NoAttachment, Attachments
<1>5. ASSUME NEW t \in Tags
      PROVE  Older(t) \in Tags /\ Rearm(t) \in Tags /\ [t EXCEPT !.done = TRUE] \in Tags
  BY <1>1, <1>2 DEF Older, Rearm, Tags
<1>6. [NoTag EXCEPT !.there = TRUE] \in Tags
  BY <1>3 DEF Tags
<1>7. ASSUME NEW a \in Attachments
      PROVE  Older(a) \in Attachments /\ [a EXCEPT !.preview = "shown"] \in Attachments
  BY <1>2 DEF Older, Attachments
<1> QED
  BY <1>3, <1>4, <1>5, <1>6, <1>7

\* The tag a marked order is left with is a tag.
LEMMA MarkedIsATag ==
    ASSUME LimitsAreNatural, Types, NEW kind \in Kinds, NEW o \in Orders
    PROVE  Marked(kind, o) \in Tags
<1> DEFINE tag == tags[kind][o]
<1>1. tag \in Tags
  BY TypeForms DEF Types
<1>2. Rearm(tag) \in Tags
  BY <1>1, ChangesOfTypes
<1>3. NoTag \in Tags /\ [NoTag EXCEPT !.there = TRUE] \in Tags
  BY <1>1, ChangesOfTypes
<1>4. Marked(kind, o) \in {tag, NoTag, [NoTag EXCEPT !.there = TRUE], Rearm(tag)}
  BY DEF Marked
<1> HIDE DEF tag
<1> QED
  BY <1>1, <1>2, <1>3, <1>4

\* A day more for a tag and for an attachment.
LEMMA TickKeepsTypes ==
    ASSUME LimitsAreNatural, Types, Tick
    PROVE  tags' \in [Kinds -> [Orders -> Tags]] /\ att' \in [Orders -> [Keys -> Attachments]]
<1> DEFINE tag(kind, o) == IF tags[kind][o].there /\ ~tags[kind][o].done
                           THEN Older(tags[kind][o]) ELSE tags[kind][o]
           a(o, k) == IF att[o][k].late THEN Older(att[o][k]) ELSE att[o][k]
<1>1. /\ \A kind \in Kinds, o \in Orders : tags[kind][o] \in Tags
      /\ \A o \in Orders, k \in Keys : att[o][k] \in Attachments
  BY TypeForms DEF Types
<1>2. \A kind \in Kinds, o \in Orders : tag(kind, o) \in Tags
  BY <1>1, ChangesOfTypes
<1>3. \A o \in Orders, k \in Keys : a(o, k) \in Attachments
  BY <1>1, ChangesOfTypes
<1>4. /\ tags' = [kind \in Kinds |-> [o \in Orders |-> tag(kind, o)]]
      /\ att' = [o \in Orders |-> [k \in Keys |-> a(o, k)]]
  BY DEF Tick
<1> HIDE DEF tag, a
<1> QED
  BY <1>2, <1>3, <1>4

\* One attachment more, or another in its place.
LEMMA AttachmentIsPut ==
    ASSUME Types, NEW o \in Orders, NEW k \in Keys, NEW b \in Attachments
    PROVE  [att EXCEPT ![o][k] = b] \in [Orders -> [Keys -> Attachments]]
<1>1. att \in [Orders -> [Keys -> Attachments]]
  BY TypeForms DEF Types
<1>2. [att[o] EXCEPT ![k] = b] \in [Keys -> Attachments]
  BY <1>1
<1> QED
  BY <1>1, <1>2

\* The steps of the orders and the people.
LEMMA PeopleKeepTypes ==
    ASSUME LimitsAreNatural, Types,
           \/ Tick \/ RemoveOrder \/ RemoveObjects
           \/ \E o \in Orders : SetStatus(o) \/ AskToRemove(o)
           \/ \E o \in Orders, k \in Keys : AskToAttach(o, k) \/ RemovePhoto(o, k)
           \/ \E a \in attaching : Attach(a)
    PROVE  Types'
<1> USE TypeForms
<1>1. CASE Tick
  <2>1. tags' \in [Kinds -> [Orders -> Tags]]
    BY <1>1, TickKeepsTypes
  <2>2. att' \in [Orders -> [Keys -> Attachments]]
    BY <1>1, TickKeepsTypes
  <2>3. UNCHANGED <<status, meta, deletion, worker, render, attaching, removal>>
    BY <1>1 DEF Tick, store, people
  <2>4. TypeOK'
    BY <2>1, <2>2, <2>3 DEF Types, TypeOK, Tags, Attachments, Ages
  <2> QED
    BY <2>3, <2>4 DEF Types
<1>2. CASE RemoveOrder
  <2>1. UNCHANGED <<meta, deletion, worker, render, attaching, removal>>
    BY <1>2 DEF RemoveOrder, store, people
  <2>2. removal.order \in Orders
    BY <1>2 DEF RemoveOrder, Types
  <2>3. status' \in [Orders -> {"work", "sent", "cancelled", "delivered", "gone"}]
    BY <1>2, <2>2 DEF RemoveOrder, Types
  <2>4. tags' \in [Kinds -> [Orders -> Tags]]
    BY <1>2, <2>2, ChangesOfTypes DEF RemoveOrder, Types
  <2>5. att' \in [Orders -> [Keys -> Attachments]]
    BY <1>2, <2>2, ChangesOfTypes DEF RemoveOrder, Types
  <2>6. TypeOK'
    BY <2>1, <2>3, <2>4, <2>5 DEF Types, TypeOK, Tags, Attachments, Ages
  <2> QED
    BY <2>1, <2>6 DEF Types
<1>3. CASE RemoveObjects
  BY <1>3 DEF RemoveObjects, Types, TypeOK, NoRemoval
<1>4. ASSUME NEW o \in Orders, SetStatus(o) \/ AskToRemove(o)
      PROVE  Types'
  <2>1. CASE SetStatus(o)
    BY <1>4, <2>1 DEF SetStatus, Types, TypeOK, store, people
  <2>2. CASE AskToRemove(o)
    BY <1>4, <2>2 DEF AskToRemove, Types, TypeOK, store, KeysOf
  <2> QED
    BY <1>4, <2>1, <2>2
<1>5. ASSUME NEW o \in Orders, NEW k \in Keys, AskToAttach(o, k) \/ RemovePhoto(o, k)
      PROVE  Types'
  <2>1. CASE AskToAttach(o, k)
    <3>1. attaching' \subseteq Requests
      BY <2>1 DEF AskToAttach, Types, Requests
    <3> QED
      BY <2>1, <3>1 DEF AskToAttach, Types, TypeOK, store
  <2>2. CASE RemovePhoto(o, k)
    <3>1. att' \in [Orders -> [Keys -> Attachments]]
      BY <2>2, ChangesOfTypes DEF RemovePhoto, Types
    <3>2. UNCHANGED <<status, tags, meta, deletion, worker, render, attaching, removal>>
      BY <2>2 DEF RemovePhoto, store, people
    <3>3. TypeOK'
      BY <3>1, <3>2 DEF Types, TypeOK, Tags, Attachments, Ages
    <3> QED
      BY <3>2, <3>3 DEF Types
  <2> QED
    BY <1>5, <2>1, <2>2
<1>6. ASSUME NEW a \in attaching, Attach(a)
      PROVE  Types'
  <2>1. a \in Requests
    BY DEF Types
  <2>2. UNCHANGED <<status, tags, meta, deletion, worker, render, removal>>
    BY <1>6 DEF Attach, store
  <2>3. att' \in [Orders -> [Keys -> Attachments]]
    <3>1. CASE status[a.order] = "gone"
      BY <1>6, <3>1 DEF Attach, Types
    <3>2. CASE status[a.order] # "gone"
      <4>1. tags["cleanup"][a.order].done \in BOOLEAN
        BY <2>1 DEF Types, Tags, Requests, Kinds
      <4>2. [preview |-> a.preview, tries |-> 0, age |-> 0,
             late |-> tags["cleanup"][a.order].done] \in Attachments
        <5>1. 0 \in Ages /\ a.preview \in {"none", "pending", "shown", "failed"}
          BY <2>1 DEF Requests, LimitsAreNatural, Ages
        <5> QED
          BY <4>1, <5>1 DEF Attachments
      <4>3. att' = [att EXCEPT ![a.order][a.key] =
                       [preview |-> a.preview, tries |-> 0, age |-> 0,
                        late |-> tags["cleanup"][a.order].done]]
        BY <1>6, <3>2 DEF Attach
      <4> QED
        BY <2>1, <4>2, <4>3 DEF Types, Requests
    <3> QED
      BY <3>1, <3>2
  <2>4. attaching' \subseteq Requests
    BY <1>6 DEF Attach, Types
  <2>5. TypeOK'
    BY <2>2, <2>3 DEF Types, TypeOK, Tags, Attachments, Ages
  <2> QED
    BY <2>2, <2>4, <2>5 DEF Types
<1> QED
  BY <1>1, <1>2, <1>3, <1>4, <1>5, <1>6

\* The steps of the workers.
LEMMA WorkersKeepTypes ==
    ASSUME LimitsAreNatural, Types,
           \/ \E kind \in Kinds : Lifecycle(kind) \/ RowFails(kind)
           \/ DeleteBatch \/ Completion
    PROVE  Types'
<1> USE TypeForms
<1>1. \A kind \in Kinds : worker[kind] \in Ticks
  BY DEF Types
<1>2. \A kind \in Kinds : worker[kind].page # {} =>
         /\ First(worker[kind].page) \in worker[kind].page
         /\ First(worker[kind].page) \in Orders
  BY <1>1, FirstIsThere DEF Ticks
<1>3. \A kind \in Kinds : \A o : Without(kind, o) \in Ticks
  BY <1>1 DEF Without, Ticks
\* A worker that keeps to its places keeps its type.
<1>4. ASSUME NEW kind \in Kinds, NEW w \in Ticks, At(kind, w),
             w.at \in {"sent", "delivered", "completed"} => w.page # {}
      PROVE  /\ worker' \in [Kinds -> Ticks]
             /\ \A k \in Kinds :
                   worker'[k].at \in {"sent", "delivered", "completed"} => worker'[k].page # {}
  BY <1>4 DEF At, Types
\* The columns that the steps of the workers leave alone.
<1>5. ASSUME UNCHANGED <<meta, render, people>>, deletion' \in [Keys -> {"none", "later", "due"}],
             status' \in [Orders -> {"work", "sent", "cancelled", "delivered", "gone"}],
             tags' \in [Kinds -> [Orders -> Tags]], att' \in [Orders -> [Keys -> Attachments]],
             worker' \in [Kinds -> Ticks],
             \A k \in Kinds :
                worker'[k].at \in {"sent", "delivered", "completed"} => worker'[k].page # {}
      PROVE  Types'
  <2>1. TypeOK'
    BY <1>5 DEF Types, TypeOK, Tags, Attachments, Ages
  <2> QED
    BY <1>5, <2>1 DEF Types, people
<1>6. ASSUME NEW kind \in Kinds, StartTick(kind)
      PROVE  Types'
  <2> DEFINE page == Page({o \in Orders : status[o] # "gone"}, worker[kind].cursor)
             w == [worker[kind] EXCEPT !.at = "mark", !.page = page, !.cursor = After(page)]
  <2>1. page \in SUBSET Orders
    BY PagesAreOrders
  <2>2. After(page) \in Orders \cup {0}
    BY <2>1, CursorIsAnOrder
  <2>3. w \in Ticks /\ w.at = "mark"
    <3> HIDE DEF page
    <3> QED
      BY <1>1, <2>1, <2>2 DEF Ticks, Places
  <2>4. At(kind, w)
    BY <1>6 DEF StartTick
  <2> HIDE DEF w
  <2>5. UNCHANGED <<status, tags, att, meta, deletion, render, people>>
    BY <1>6 DEF StartTick, store
  <2> QED
    BY <1>4, <1>5, <2>3, <2>4, <2>5 DEF Types
<1>7. ASSUME NEW kind \in Kinds, Mark(kind)
      PROVE  Types'
  <2> DEFINE o == First(worker[kind].page)
  <2>1. o \in Orders
    BY <1>2, <1>7 DEF Mark
  <2>2. Marked(kind, o) \in Tags
    BY <2>1, MarkedIsATag
  <2>3. tags' \in [Kinds -> [Orders -> Tags]]
    BY <1>7, <2>1, <2>2 DEF Mark, Types
  <2>4. At(kind, Without(kind, o)) /\ Without(kind, o).at = "mark"
    BY <1>1, <1>7 DEF Mark, Without, Ticks
  <2>5. UNCHANGED <<status, att, meta, deletion, render, people>>
    BY <1>7 DEF Mark, store
  <2> QED
    BY <1>3, <1>4, <1>5, <2>3, <2>4, <2>5 DEF Types
<1>8. ASSUME NEW kind \in Kinds, StartActions(kind)
      PROVE  Types'
  <2> DEFINE due == {o \in Orders : /\ tags[kind][o].there /\ ~tags[kind][o].done
                                    /\ kind = "cleanup" => tags[kind][o].age > Delay}
             page == Page(due, worker[kind].actions)
             w == IF Enabled
                  THEN [worker[kind] EXCEPT !.at = "act", !.page = page, !.actions = After(page)]
                  ELSE [worker[kind] EXCEPT !.at = "idle"]
  <2>1. page \in SUBSET Orders
    <3>1. page \subseteq due
      BY PagesAreOrders
    <3> QED
      BY <3>1
  <2>2. After(page) \in Orders \cup {0}
    BY <2>1, CursorIsAnOrder
  <2>3. w \in Ticks /\ w.at \in {"act", "idle"}
    <3> HIDE DEF page
    <3> QED
      BY <1>1, <2>1, <2>2 DEF Ticks, Places
  <2>4. At(kind, w)
    BY <1>8 DEF StartActions
  <2> HIDE DEF w
  <2>5. UNCHANGED <<status, tags, att, meta, deletion, render, people>>
    BY <1>8 DEF StartActions, store
  <2> QED
    BY <1>4, <1>5, <2>3, <2>4, <2>5 DEF Types
<1>9. ASSUME NEW kind \in Kinds, EndTick(kind)
      PROVE  Types'
  <2> DEFINE w == [worker[kind] EXCEPT !.at = "idle"]
  <2>1. w \in Ticks /\ w.at = "idle"
    BY <1>1 DEF Ticks, Places
  <2>2. At(kind, w) /\ UNCHANGED <<status, tags, att, meta, deletion, render, people>>
    BY <1>9 DEF EndTick, store
  <2> HIDE DEF w
  <2> QED
    BY <1>4, <1>5, <2>1, <2>2 DEF Types
<1>10. ASSUME NEW kind \in Kinds, RowFails(kind)
       PROVE  Types'
  <2> DEFINE v == Without(kind, First(worker[kind].page))
             w == [v EXCEPT !.at = IF @ = "mark" THEN @ ELSE "act"]
  <2>1. w \in Ticks /\ w.at \in {"mark", "act"}
    <3>1. v \in Ticks
      BY <1>3
    <3> HIDE DEF v
    <3> QED
      BY <3>1 DEF Ticks, Places
  <2>2. At(kind, w) /\ UNCHANGED <<status, tags, att, meta, deletion, render, people>>
    BY <1>10 DEF RowFails, store
  <2> HIDE DEF w
  <2> QED
    BY <1>4, <1>5, <2>1, <2>2 DEF Types
<1>11. CASE DeleteBatch
  <2> DEFINE o == First(worker["cleanup"].page)
             tag == tags["cleanup"][o]
             w == Without("cleanup", o)
  <2>1. "cleanup" \in Kinds /\ o \in Orders
    BY <1>2, <1>11 DEF DeleteBatch, Kinds
  <2>2. w \in Ticks /\ w.at = "act"
    <3>1. worker["cleanup"] \in Ticks /\ worker["cleanup"].at = "act"
      BY <1>1, <1>11, <2>1 DEF DeleteBatch
    <3> QED
      BY <3>1 DEF Without, Ticks
  <2>3. At("cleanup", w) /\ UNCHANGED <<status, meta, render, people>>
    BY <1>11 DEF DeleteBatch
  <2>4. /\ deletion' \in [Keys -> {"none", "later", "due"}]
        /\ tags' \in [Kinds -> [Orders -> Tags]]
        /\ att' \in [Orders -> [Keys -> Attachments]]
    <3>1. CASE UNCHANGED <<att, deletion, tags>>
      BY <3>1 DEF Types
    <3>2. ASSUME NEW batch, Deletes(o, batch)
          PROVE  /\ deletion' \in [Keys -> {"none", "later", "due"}]
                 /\ tags' \in [Kinds -> [Orders -> Tags]]
                 /\ att' \in [Orders -> [Keys -> Attachments]]
      <4>1. deletion' \in [Keys -> {"none", "later", "due"}]
        BY <3>2 DEF Deletes, Types
      <4>2. tags' \in [Kinds -> [Orders -> Tags]]
        BY <2>1, <3>2, ChangesOfTypes DEF Deletes, Types
      <4>3. att' \in [Orders -> [Keys -> Attachments]]
        BY <2>1, <3>2, ChangesOfTypes DEF Deletes, Types
      <4> QED
        BY <4>1, <4>2, <4>3
    <3> QED
      BY <1>11, <3>1, <3>2, DeletesOrNot
  <2> HIDE DEF w
  <2> QED
    BY <1>4, <1>5, <2>1, <2>2, <2>3, <2>4 DEF Types
<1>12. CASE Completion
  <2> DEFINE o == First(worker["completion"].page)
             old == worker["completion"]
  <2>1. "completion" \in Kinds /\ old \in Ticks
    BY <1>1 DEF Kinds
  <2>2. CASE CheckOrder
    <3> DEFINE w == IF Eligible(status[o], "completion")
                    THEN [old EXCEPT !.at = status[o]] ELSE Without("completion", o)
    <3>1. CASE Eligible(status[o], "completion")
      <4>1. status[o] \in {"sent", "delivered"}
        BY <3>1 DEF Eligible
      <4>2. w \in Ticks /\ w.page = old.page
        BY <2>1, <3>1, <4>1 DEF Ticks, Places
      <4>3. At("completion", w) /\ old.page # {}
        BY <2>2 DEF CheckOrder
      <4>4. UNCHANGED <<status, tags, att, meta, deletion, render, people>>
        BY <2>2 DEF CheckOrder, store
      <4> HIDE DEF w
      <4> QED
        BY <1>4, <1>5, <2>1, <4>2, <4>3, <4>4 DEF Types
    <3>2. CASE ~Eligible(status[o], "completion")
      <4>1. w \in Ticks /\ w.at = "act"
        BY <1>3, <2>1, <2>2, <3>2 DEF CheckOrder, Without, Ticks
      <4>2. At("completion", w)
        BY <2>2 DEF CheckOrder
      <4>3. UNCHANGED <<status, tags, att, meta, deletion, render, people>>
        BY <2>2 DEF CheckOrder, store
      <4> HIDE DEF w
      <4> QED
        BY <1>4, <1>5, <2>1, <4>1, <4>2, <4>3 DEF Types
    <3> QED
      BY <3>1, <3>2
  <2>3. CASE Complete
    <3> DEFINE w == [old EXCEPT !.at = "completed"]
    <3>1. o \in Orders /\ old.page # {}
      BY <1>2, <2>1, <2>3 DEF Complete, Types
    <3>2. w \in Ticks /\ w.page # {}
      BY <2>1, <3>1 DEF Ticks, Places
    <3>3. At("completion", w) /\ UNCHANGED <<tags, att, meta, deletion, render, people>>
      BY <2>3 DEF Complete, store
    <3>4. status' \in [Orders -> {"work", "sent", "cancelled", "delivered", "gone"}]
      BY <2>3, <3>1 DEF Complete, Types
    <3> HIDE DEF w
    <3> QED
      BY <1>4, <1>5, <2>1, <3>2, <3>3, <3>4 DEF Types
  <2>4. CASE MarkCompleted
    <3> DEFINE w == [Without("completion", o) EXCEPT !.at = "act"]
    <3>1. o \in Orders
      BY <1>2, <2>1, <2>4 DEF MarkCompleted, Types
    <3>2. w \in Ticks /\ w.at = "act"
      BY <1>3, <2>1 DEF Ticks, Places
    <3>3. At("completion", w) /\ UNCHANGED <<status, att, meta, deletion, render, people>>
      BY <2>4 DEF MarkCompleted, store
    <3>4. tags' \in [Kinds -> [Orders -> Tags]]
      <4>1. \/ tags' = tags
            \/ tags' = [tags EXCEPT !["completion"][o].done = TRUE]
        BY <2>4 DEF MarkCompleted
      <4>2. tags["completion"][o] \in Tags
        BY <2>1, <3>1 DEF Types
      <4> DEFINE tag == [tags["completion"][o] EXCEPT !.done = TRUE]
      <4>3. tag \in Tags
        BY <4>2, ChangesOfTypes
      <4>4. tags' = tags \/ tags' = [tags EXCEPT !["completion"][o] = tag]
        BY <4>1
      <4>5. tags \in [Kinds -> [Orders -> Tags]]
        BY DEF Types
      <4> HIDE DEF tag, o
      <4>6. [tags EXCEPT !["completion"][o] = tag] \in [Kinds -> [Orders -> Tags]]
        BY <2>1, <3>1, <4>3, <4>5
      <4> QED
        BY <4>4, <4>5, <4>6
    <3> HIDE DEF w
    <3> QED
      BY <1>4, <1>5, <2>1, <3>2, <3>3, <3>4 DEF Types
  <2> QED
    BY <1>12, <2>2, <2>3, <2>4 DEF Completion
<1> QED
  BY <1>6, <1>7, <1>8, <1>9, <1>10, <1>11, <1>12 DEF Lifecycle

\* The steps of the previews, the queue of deletions and a crash.
LEMMA StoreKeepsTypes ==
    ASSUME LimitsAreNatural, Types,
           \/ \E k \in Keys : Upload(k) \/ Preview(k) \/ RenderFails(k) \/ BecomesDue(k) \/ Delete(k)
           \/ Crash
    PROVE  Types'
<1> USE TypeForms
<1>1. ASSUME NEW k \in Keys, Upload(k) \/ BecomesDue(k) \/ Delete(k)
      PROVE  Types'
  <2>1. CASE Upload(k)
    <3>1. PICK p \in {"shown", "pending"} : meta' = [meta EXCEPT ![k] = p]
      BY <2>1 DEF Upload
    <3>2. meta' \in [Keys -> {"none", "pending", "shown"}]
      BY <3>1 DEF Types
    <3>3. UNCHANGED <<status, tags, att, deletion, worker, render, attaching, removal>>
      BY <2>1 DEF Upload, people
    <3>4. TypeOK'
      BY <3>3 DEF Types, TypeOK
    <3> QED
      BY <3>2, <3>3, <3>4 DEF Types
  <2>2. CASE BecomesDue(k)
    BY <2>2 DEF BecomesDue, Types, TypeOK, people
  <2>3. CASE Delete(k)
    BY <2>3 DEF Delete, Types, TypeOK, people
  <2> QED
    BY <1>1, <2>1, <2>2, <2>3
\* A rendering that moves on.
<1>2. ASSUME NEW k \in Keys, NEW r \in Renders, render' = [render EXCEPT ![k] = r],
             r.for # 0 <=> r.at # "idle",
             UNCHANGED <<status, tags, meta, worker, people>>,
             att' \in [Orders -> [Keys -> Attachments]],
             deletion' \in [Keys -> {"none", "later", "due"}]
      PROVE  Types'
  <2>1. render' \in [Keys -> Renders]
    BY <1>2 DEF Types
  <2>2. \A l \in Keys : render'[l].for # 0 <=> render'[l].at # "idle"
    BY <1>2 DEF Types
  <2>3. TypeOK'
    BY <1>2, <2>2 DEF Types, TypeOK, Tags, Attachments, Ages
  <2> QED
    BY <1>2, <2>1, <2>3 DEF Types, people
<1>3. \A k \in Keys : /\ render[k] \in Renders
                      /\ render[k].for # 0 <=> render[k].at # "idle"
  BY DEF Types
<1>4. NoRender \in Renders /\ NoRender.for = 0 /\ NoRender.at = "idle"
  BY DEF NoRender, Renders
<1>5. ASSUME NEW k \in Keys, NEW o \in Orders, StartRender(o, k)
      PROVE  Types'
  <2> DEFINE r == [at |-> "render", for |-> o]
  <2>1. r \in Renders /\ r.for # 0 /\ r.at # "idle"
    BY OrdersAreNumbers DEF Renders
  <2>2. render' = [render EXCEPT ![k] = r]
    BY <1>5 DEF StartRender
  <2>3. UNCHANGED <<status, tags, att, meta, deletion, worker, people>>
    BY <1>5 DEF StartRender, store
  <2> HIDE DEF r
  <2> QED
    BY <1>2, <2>1, <2>2, <2>3 DEF Types
<1>6. ASSUME NEW k \in Keys, Render(k)
      PROVE  Types'
  <2> DEFINE r == [render[k] EXCEPT !.at = "record"]
  <2>1. r \in Renders /\ r.for # 0 /\ r.at # "idle"
    BY <1>3, <1>6 DEF Render, Renders
  <2>2. render' = [render EXCEPT ![k] = r]
    BY <1>6 DEF Render, Rendering
  <2>3. UNCHANGED <<status, tags, att, meta, deletion, worker, people>>
    BY <1>6 DEF Render
  <2> HIDE DEF r
  <2> QED
    BY <1>2, <2>1, <2>2, <2>3 DEF Types
<1>7. ASSUME NEW k \in Keys, Record(k)
      PROVE  Types'
  <2> DEFINE r == [render[k] EXCEPT !.at = "count"]
  <2>1. r \in Renders /\ r.for # 0 /\ r.at # "idle"
    BY <1>3, <1>7 DEF Record, Renders
  <2>2. render' = [render EXCEPT ![k] = r]
    BY <1>7 DEF Record, Rendering
  <2>3. UNCHANGED <<status, tags, meta, deletion, worker, people>>
    BY <1>7 DEF Record, store
  <2>4. att' \in [Orders -> [Keys -> Attachments]]
    <3>1. ASSUME NEW o \in Orders
          PROVE  [att[o] EXCEPT ![k].preview = "shown"] \in [Keys -> Attachments]
      <4> DEFINE a == [att[o][k] EXCEPT !.preview = "shown"]
      <4>1. a \in Attachments
        <5>1. att[o][k] \in Attachments
          BY DEF Types
        <5> QED
          BY <5>1, ChangesOfTypes
      <4>2. [att[o] EXCEPT ![k].preview = "shown"] = [att[o] EXCEPT ![k] = a]
        OBVIOUS
      <4> HIDE DEF a
      <4> QED
        BY <4>1, <4>2 DEF Types
    <3> QED
      BY <1>7, <3>1 DEF Record, Types
  <2> HIDE DEF r
  <2> QED
    BY <1>2, <2>1, <2>2, <2>3, <2>4 DEF Types
<1>8. ASSUME NEW k \in Keys, EndRender(k)
      PROVE  Types'
  <2>1. deletion' \in [Keys -> {"none", "later", "due"}]
    BY <1>8 DEF EndRender, HandOver, Types
  <2>2. render' = [render EXCEPT ![k] = NoRender] /\ UNCHANGED <<status, tags, att, meta, worker, people>>
    BY <1>8 DEF EndRender
  <2> QED
    BY <1>2, <1>4, <2>1, <2>2 DEF Types
<1>9. ASSUME NEW k \in Keys, RenderFails(k)
      PROVE  Types'
  <2> DEFINE o == render[k].for
             a == att[o][k]
             b == [a EXCEPT !.tries = IF @ < 2 THEN @ + 1 ELSE @,
                            !.preview = IF a.tries >= 2 THEN "failed" ELSE @]
  <2>1. o \in Orders
    BY <1>3, <1>9 DEF RenderFails, Renders
  <2>2. b \in Attachments
    <3>1. a \in Attachments
      BY <2>1 DEF Types
    <3>2. \A n \in 0..2 : (IF n < 2 THEN n + 1 ELSE n) \in 0..2
      OBVIOUS
    <3> HIDE DEF a
    <3> QED
      BY <3>1, <3>2 DEF Attachments
  <2>3. att' = att \/ att' = [att EXCEPT ![o][k] = b]
    BY <1>9 DEF RenderFails
  <2>4. att' \in [Orders -> [Keys -> Attachments]]
    <3>1. att \in [Orders -> [Keys -> Attachments]]
      BY DEF Types
    <3> HIDE DEF a, b, o
    <3>2. [att EXCEPT ![o][k] = b] \in [Orders -> [Keys -> Attachments]]
      BY <2>1, <2>2, AttachmentIsPut
    <3> QED
      BY <2>3, <3>1, <3>2
  <2>5. /\ render' = [render EXCEPT ![k] = NoRender]
        /\ UNCHANGED <<status, tags, meta, deletion, worker, people>>
    BY <1>9 DEF RenderFails, store
  <2> QED
    BY <1>2, <1>4, <2>4, <2>5 DEF Types
<1>10. CASE Crash
  <2>1. UNCHANGED <<status, tags, att, meta, deletion>>
    BY <1>10 DEF Crash, store
  <2>2. worker' = [kind \in Kinds |-> NoTick] /\ render' = [k \in Keys |-> NoRender]
    BY <1>10 DEF Crash
  <2>3. NoTick \in Ticks /\ NoTick.at = "idle"
    BY DEF NoTick, Ticks, Places
  <2>4. attaching' \subseteq Requests
    BY <1>10 DEF Crash
  <2>5. removal' \in [order : Orders \cup {0}, keys : SUBSET Keys]
    BY <1>10 DEF Crash, NoRemoval
  <2>6. TypeOK'
    BY <1>4, <2>1, <2>2 DEF Types, TypeOK, Tags, Attachments, Ages
  <2> QED
    BY <1>4, <2>1, <2>2, <2>3, <2>4, <2>5, <2>6 DEF Types
<1> QED
  BY <1>1, <1>5, <1>6, <1>7, <1>8, <1>9, <1>10 DEF Preview

LEMMA NextKeepsTypes ==
    ASSUME LimitsAreNatural, Types, [Next]_vars
    PROVE  Types'
<1>1. CASE UNCHANGED vars
  BY <1>1 DEF vars, store, people, history, Types, TypeOK
<1> QED
  BY <1>1, PeopleKeepTypes, WorkersKeepTypes, StoreKeepsTypes DEF Next

-----------------------------------------------------------------------------
(* The steps, one by one. *)

Kept == RemovalInv /\ SharedOriginalsStay /\ TermInv

\* Steps that do not concern attachments, originals and terms.
LEMMA QuietStep ==
    ASSUME IInv, UNCHANGED <<att, original, deletion, spoiled, removal>>,
           tags'["cleanup"] = tags["cleanup"],
           \A o \in Orders : status'[o] = "gone" => status[o] = "gone"
    PROVE  Kept'
<1>1. RemovalInv'
  BY RemovalStays DEF IInv
<1>2. SharedOriginalsStay'
  BY DEF IInv, SharedOriginalsStay, Attached
<1>3. TermInv'
  BY DEF IInv, TermInv
<1> QED
  BY <1>1, <1>2, <1>3 DEF Kept

LEMMA WorkersStep ==
    ASSUME IInv, UNCHANGED <<status, tags, att, original, deletion, spoiled, removal>>
    PROVE  Kept'
<1>1. tags'["cleanup"] = tags["cleanup"] /\ \A o \in Orders : status'[o] = "gone" => status[o] = "gone"
  OBVIOUS
<1> QED
  BY <1>1, QuietStep

LEMMA QuietSteps ==
    ASSUME LimitsAreNatural, IInv,
           \/ \E o \in Orders : SetStatus(o)
           \/ \E o \in Orders, k \in Keys : AskToAttach(o, k)
           \/ \E kind \in Kinds : StartTick(kind) \/ StartActions(kind) \/ EndTick(kind) \/ RowFails(kind)
           \/ Completion
           \/ \E k \in Keys : (\E o \in Orders : StartRender(o, k)) \/ Render(k)
           \/ UNCHANGED vars
    PROVE  Kept'
<1> USE TypeForms
<1>1. ASSUME NEW o \in Orders, SetStatus(o)
      PROVE  Kept'
  <2>1. \A p \in Orders : status'[p] = "gone" => status[p] = "gone"
    BY <1>1 DEF SetStatus, IInv, Types
  <2>2. UNCHANGED <<tags, att, original, deletion, spoiled, removal>>
    BY <1>1 DEF SetStatus, store, people, history
  <2> QED
    BY <2>1, <2>2, QuietStep
<1>2. ASSUME NEW o \in Orders, NEW k \in Keys, AskToAttach(o, k)
      PROVE  Kept'
  <2>1. UNCHANGED <<status, tags, att, original, deletion, spoiled, removal>>
    BY <1>2 DEF AskToAttach, store, history
  <2> QED
    BY <2>1, WorkersStep
<1>3. ASSUME NEW kind \in Kinds,
             StartTick(kind) \/ StartActions(kind) \/ EndTick(kind) \/ RowFails(kind)
      PROVE  Kept'
  <2>1. UNCHANGED <<status, tags, att, original, deletion, spoiled, removal>>
    BY <1>3 DEF StartTick, StartActions, EndTick, RowFails, store, people, history
  <2> QED
    BY <2>1, WorkersStep
<1>4. CASE CheckOrder
  <2>1. UNCHANGED <<status, tags, att, original, deletion, spoiled, removal>>
    BY <1>4 DEF CheckOrder, store, people, history
  <2> QED
    BY <2>1, WorkersStep
<1>5. CASE Complete
  <2>1. UNCHANGED <<tags, att, original, deletion, spoiled, removal>>
    BY <1>5 DEF Complete, store, people, history
  <2>2. \A p \in Orders : status'[p] = "gone" => status[p] = "gone"
    BY <1>5 DEF Complete, IInv, Types
  <2> QED
    BY <2>1, <2>2, QuietStep
<1>6. CASE MarkCompleted
  <2>1. UNCHANGED <<status, att, original, deletion, spoiled, removal>>
    BY <1>6 DEF MarkCompleted, store, people, history
  <2>2. tags'["cleanup"] = tags["cleanup"]
    BY <1>6 DEF MarkCompleted, IInv, Types, Kinds
  <2> QED
    BY <2>1, <2>2, QuietStep
<1>7. ASSUME NEW k \in Keys, (\E o \in Orders : StartRender(o, k)) \/ Render(k)
      PROVE  Kept'
  <2>1. UNCHANGED <<status, tags, att, original, deletion, spoiled, removal>>
    BY <1>7 DEF StartRender, Render, store, people, history
  <2> QED
    BY <2>1, WorkersStep
<1>8. CASE UNCHANGED vars
  <2>1. UNCHANGED <<status, tags, att, original, deletion, spoiled, removal>>
    BY <1>8 DEF vars, store, people, history
  <2> QED
    BY <2>1, WorkersStep
<1> QED
  BY <1>1, <1>2, <1>3, <1>4, <1>5, <1>6, <1>7, <1>8 DEF Completion

LEMMA TickKeeps ==
    ASSUME LimitsAreNatural, IInv, Tick
    PROVE  Kept'
<1> USE TypeForms
<1>1. UNCHANGED <<status, original, deletion, spoiled, removal>>
  BY DEF Tick, store, people, history
<1>2. RemovalInv'
  BY <1>1, RemovalStays DEF IInv
<1>3. \A o \in Orders, k \in Keys :
         /\ att[o][k] \in Attachments
         /\ att'[o][k] = IF att[o][k].late THEN Older(att[o][k]) ELSE att[o][k]
  BY DEF Tick, IInv, Types
<1>4. \A a \in Attachments : /\ Older(a).preview = a.preview /\ Older(a).late = a.late
                             /\ Older(a).age = IF a.age > Delay THEN a.age ELSE a.age + 1
  BY DEF Older, Attachments
<1>5. SharedOriginalsStay'
  <2>1. \A k \in Keys : Attached(k)' # {} => Attached(k) # {}
    BY <1>3, <1>4 DEF Attached
  <2> QED
    BY <1>1, <2>1, NothingIsTaken DEF IInv
<1>6. TermInv'
  <2> SUFFICES ASSUME NEW o \in Orders, NEW k \in Keys, att'[o][k].late,
                      tags'["cleanup"][o].there, ~tags'["cleanup"][o].done
               PROVE  tags'["cleanup"][o].age <= att'[o][k].age
    BY DEF TermInv
  <2> DEFINE t == tags["cleanup"][o]
  <2>1. t \in Tags /\ tags'["cleanup"][o] = IF t.there /\ ~t.done THEN Older(t) ELSE t
    BY DEF Tick, IInv, Types, Kinds
  <2>2. /\ Older(t).there = t.there /\ Older(t).done = t.done
        /\ Older(t).age = IF t.age > Delay THEN t.age ELSE t.age + 1
    BY <2>1 DEF Older, Tags
  <2>3. t.there /\ ~t.done
    BY <2>1, <2>2
  <2>4. att[o][k].late
    BY <1>3, <1>4
  <2>5. t.age <= att[o][k].age
    BY <2>3, <2>4 DEF IInv, TermInv
  <2>6. t.age \in Ages /\ att[o][k].age \in Ages
    BY <1>3, <2>1 DEF Tags, Attachments
  <2>7. tags'["cleanup"][o].age = IF t.age > Delay THEN t.age ELSE t.age + 1
    BY <2>1, <2>2, <2>3
  <2>8. att'[o][k].age = IF att[o][k].age > Delay THEN att[o][k].age ELSE att[o][k].age + 1
    BY <1>3, <1>4, <2>4
  <2> QED
    BY <2>5, <2>6, <2>7, <2>8 DEF Ages, LimitsAreNatural
<1> QED
  BY <1>2, <1>5, <1>6 DEF Kept

LEMMA RemovalKeeps ==
    ASSUME LimitsAreNatural, IInv, RemoveOrder \/ RemoveObjects \/ \E o \in Orders : AskToRemove(o)
    PROVE  Kept'
<1> USE TypeForms
<1>1. CASE RemoveOrder
  <2> DEFINE o == removal.order
  <2>1. o \in Orders /\ UNCHANGED <<original, deletion, removal>> /\ spoiled' = spoiled \cup removal.keys
    BY <1>1 DEF RemoveOrder, store, people, IInv, Types
  <2>2. RemovalInv'
    BY <2>1 DEF RemovalInv
  <2>3. \A p \in Orders, k \in Keys : att'[p][k] = IF p = o THEN NoAttachment ELSE att[p][k]
    BY <1>1, <2>1 DEF RemoveOrder, IInv, Types
  <2>4. \A p \in Orders : tags'["cleanup"][p] = IF p = o THEN NoTag ELSE tags["cleanup"][p]
    BY <1>1, <2>1 DEF RemoveOrder, IInv, Types, Kinds
  <2>5. SharedOriginalsStay'
    <3>1. \A k \in Keys : Attached(k)' # {} => Attached(k) # {}
      BY <2>3 DEF Attached, NoAttachment
    <3> QED
      BY <2>1, <3>1, NothingIsTaken DEF IInv
  <2>6. TermInv'
    BY <2>3, <2>4, TermsGoOn DEF IInv, NoAttachment, NoTag
  <2> QED
    BY <2>2, <2>5, <2>6 DEF Kept
<1>2. CASE RemoveObjects
  <2>1. UNCHANGED <<status, tags, att, deletion, spoiled>> /\ removal' = NoRemoval
    BY <1>2 DEF RemoveObjects, history
  <2>2. RemovalInv'
    BY <2>1 DEF RemovalInv, NoRemoval
  <2>3. removal.keys \subseteq spoiled
    BY <1>2 DEF RemoveObjects, IInv, RemovalInv
  <2>4. SharedOriginalsStay'
    <3>1. \A k \in Keys \ spoiled : k \in original => k \in original'
      BY <1>2, <2>3 DEF RemoveObjects
    <3>2. \A k \in Keys : Attached(k)' = Attached(k)
      BY <2>1 DEF Attached
    <3> QED
      BY <2>1, <3>1, <3>2, NothingIsTaken DEF IInv
  <2>5. TermInv'
    BY <2>1 DEF IInv, TermInv
  <2> QED
    BY <2>2, <2>4, <2>5 DEF Kept
<1>3. ASSUME NEW o \in Orders, AskToRemove(o)
      PROVE  Kept'
  <2>1. UNCHANGED <<status, tags, att, original, deletion, spoiled>>
    BY <1>3 DEF AskToRemove, store, history
  <2>2. RemovalInv'
    BY <1>3, <2>1 DEF AskToRemove, RemovalInv
  <2>3. SharedOriginalsStay' /\ TermInv'
    BY <2>1 DEF IInv, SharedOriginalsStay, Attached, TermInv
  <2> QED
    BY <2>2, <2>3 DEF Kept
<1> QED
  BY <1>1, <1>2, <1>3

LEMMA AttachmentsKeep ==
    ASSUME LimitsAreNatural, IInv,
           \/ \E o \in Orders, k \in Keys : RemovePhoto(o, k)
           \/ \E a \in attaching : Attach(a)
    PROVE  Kept'
<1> USE TypeForms
<1>1. ASSUME NEW o \in Orders, NEW k \in Keys, RemovePhoto(o, k)
      PROVE  Kept'
  <2>1. UNCHANGED <<status, tags, original, deletion, spoiled, removal>>
    BY <1>1 DEF RemovePhoto, store, people, history
  <2>2. \A p \in Orders, l \in Keys :
           att'[p][l] = IF p = o /\ l = k THEN NoAttachment ELSE att[p][l]
    BY <1>1 DEF RemovePhoto, IInv, Types
  <2>3. RemovalInv'
    BY <2>1, RemovalStays DEF IInv
  <2>4. SharedOriginalsStay'
    <3>1. \A l \in Keys : Attached(l)' # {} => Attached(l) # {}
      BY <2>2 DEF Attached, NoAttachment
    <3> QED
      BY <2>1, <3>1, NothingIsTaken DEF IInv
  <2>5. TermInv'
    BY <2>1, <2>2, TermsGoOn DEF IInv, NoAttachment
  <2> QED
    BY <2>3, <2>4, <2>5 DEF Kept
<1>2. ASSUME NEW a \in attaching, Attach(a)
      PROVE  Kept'
  <2>1. a.order \in Orders /\ a.key \in Keys
    BY DEF IInv, Types, Requests
  <2>2. UNCHANGED <<status, tags, original, deletion, removal>>
    BY <1>2 DEF Attach, store
  <2>3. CASE status[a.order] = "gone"
    BY <1>2, <2>2, <2>3, QuietStep DEF Attach
  <2>4. CASE status[a.order] # "gone"
    <3> DEFINE new == [preview |-> a.preview, tries |-> 0, age |-> 0,
                       late |-> tags["cleanup"][a.order].done]
    <3>1. att' = [att EXCEPT ![a.order][a.key] = new]
      BY <1>2, <2>4 DEF Attach
    <3>2. spoiled' = IF a.key \notin original \/ deletion[a.key] # "none"
                     THEN spoiled \cup {a.key} ELSE spoiled
      BY <1>2, <2>4 DEF Attach
    <3>3. new.late = tags["cleanup"][a.order].done
      OBVIOUS
    <3> HIDE DEF new
    <3>4. \A p \in Orders, l \in Keys :
             att'[p][l] = IF p = a.order /\ l = a.key THEN new ELSE att[p][l]
      BY <2>1, <3>1 DEF IInv, Types
    <3>5. RemovalInv'
      BY <2>2, <3>2, RemovalStays DEF IInv
    <3>6. SharedOriginalsStay'
      <4> SUFFICES ASSUME NEW l \in Keys \ spoiled', NEW p \in Orders, att'[p][l].preview # "none"
                   PROVE  l \in original' /\ deletion'[l] = "none"
        BY DEF SharedOriginalsStay, Attached
      <4>1. CASE l = a.key
        BY <2>2, <3>2, <4>1
      <4>2. CASE l # a.key
        BY <2>2, <3>2, <3>4, <4>2 DEF IInv, SharedOriginalsStay, Attached
      <4> QED
        BY <4>1, <4>2
    <3>7. TermInv'
      BY <2>2, <3>3, <3>4 DEF IInv, TermInv
    <3> QED
      BY <3>5, <3>6, <3>7 DEF Kept
  <2> QED
    BY <2>3, <2>4
<1> QED
  BY <1>1, <1>2

LEMMA MarkKeeps ==
    ASSUME LimitsAreNatural, IInv, NEW kind \in Kinds, Mark(kind)
    PROVE  Kept'
<1> USE TypeForms
<1> DEFINE o == First(worker[kind].page)
<1>1. UNCHANGED <<status, att, original, deletion, spoiled, removal>>
  BY DEF Mark, store, people, history
<1>2. RemovalInv' /\ SharedOriginalsStay'
  BY <1>1, RemovalStays DEF IInv, SharedOriginalsStay, Attached
<1>3. ASSUME NEW p \in Orders
      PROVE  \/ tags'["cleanup"][p] = tags["cleanup"][p]
             \/ ~tags'["cleanup"][p].there \/ tags'["cleanup"][p].done
             \/ tags'["cleanup"][p].age = 0
  <2>1. CASE tags' = tags
    BY <2>1
  <2>2. CASE tags' = [tags EXCEPT ![kind][o] = Marked(kind, o)]
    <3>1. CASE kind # "cleanup" \/ p # o
      <4> HIDE DEF o
      <4> QED
        BY <2>2, <3>1 DEF IInv, Types, Kinds
    <3>2. CASE kind = "cleanup" /\ p = o
      <4>1. tags'["cleanup"][p] = Marked("cleanup", p)
        <5> HIDE DEF o
        <5> QED
          BY <2>2, <3>2 DEF IInv, Types, Kinds
      <4>2. tags["cleanup"][p] \in Tags
        BY DEF IInv, Types, Kinds
      <4>3. /\ ~NoTag.there /\ NoTag.age = 0 /\ [NoTag EXCEPT !.there = TRUE].age = 0
            /\ Rearm(tags["cleanup"][p]).age = 0
        BY <4>2 DEF NoTag, Rearm, Tags
      <4> QED
        BY <4>1, <4>3 DEF Marked
    <3> QED
      BY <3>1, <3>2
  <2> QED
    BY <2>1, <2>2 DEF Mark
<1>4. TermInv'
  BY <1>1, <1>3, TermsGoOn DEF IInv
<1> QED
  BY <1>2, <1>4 DEF Kept

\* The heart of the matter: only what the order alone refers to is handed over.
LEMMA DeleteBatchKeeps ==
    ASSUME LimitsAreNatural, IInv, DeleteBatch
    PROVE  Kept'
<1> USE TypeForms
<1> DEFINE o == First(worker["cleanup"].page)
<1>1. UNCHANGED <<status, original, spoiled, removal>>
  BY DEF DeleteBatch, people
<1>2. RemovalInv'
  BY <1>1, RemovalStays DEF IInv
<1>3. CASE UNCHANGED <<att, deletion, tags>>
  BY <1>1, <1>3, QuietStep
<1>4. ASSUME NEW batch, Deletes(o, batch)
      PROVE  Kept'
  <2>1. o \in Orders
    <3>1. worker["cleanup"].page # {} /\ worker["cleanup"].page \in SUBSET Orders
      BY DEF DeleteBatch, IInv, Types, Ticks, Kinds
    <3> QED
      BY <3>1, FirstIsThere
  <2> HIDE DEF o
  <2>2. \A p \in Orders, k \in Keys :
           att'[p][k] = IF p = o /\ k \in batch THEN NoAttachment ELSE att[p][k]
    BY <1>4, <2>1 DEF Deletes, IInv, Types
  <2>3. \A p \in Orders : \/ tags'["cleanup"][p] = tags["cleanup"][p]
                          \/ tags'["cleanup"][p].done
    <3>1. CASE tags' = tags
      BY <3>1
    <3>2. CASE tags' = [tags EXCEPT !["cleanup"][o] = [tags["cleanup"][o] EXCEPT !.done = TRUE]]
      <4> TAKE p \in Orders
      <4>1. CASE p # o
        BY <3>2, <4>1 DEF IInv, Types, Kinds
      <4>2. CASE p = o
        BY <3>2, <4>2 DEF IInv, Types, Kinds, Tags
      <4> QED
        BY <4>1, <4>2
    <3> QED
      BY <1>4, <3>1, <3>2 DEF Deletes
  <2>4. SharedOriginalsStay'
    <3> SUFFICES ASSUME NEW k \in Keys \ spoiled, NEW p \in Orders, att'[p][k].preview # "none"
                 PROVE  k \in original /\ deletion'[k] = "none"
      BY <1>1 DEF SharedOriginalsStay, Attached
    <3>1. att[p][k].preview # "none" /\ ~(p = o /\ k \in batch)
      BY <2>2 DEF NoAttachment
    <3>2. k \in original /\ deletion[k] = "none"
      BY <3>1 DEF IInv, SharedOriginalsStay, Attached
    <3>3. p \in Attached(k)
      BY <3>1 DEF Attached
    <3>4. k \notin Unused(o, batch)
      BY <3>1, <3>3 DEF Unused
    <3> QED
      BY <1>4, <3>2, <3>4 DEF Deletes
  <2>5. TermInv'
    BY <2>2, <2>3, TermsGoOn DEF IInv, NoAttachment
  <2> QED
    BY <1>2, <2>4, <2>5 DEF Kept
<1> QED
  BY <1>3, <1>4, DeletesOrNot

LEMMA StoreKeeps ==
    ASSUME LimitsAreNatural, IInv,
           NEW k \in Keys, Upload(k) \/ BecomesDue(k) \/ Delete(k) \/ EndRender(k)
    PROVE  Kept'
<1> USE TypeForms
<1>1. UNCHANGED <<status, tags, att, spoiled, removal>>
  BY DEF Upload, BecomesDue, Delete, EndRender, people, history
<1>2. RemovalInv' /\ TermInv'
  BY <1>1, RemovalStays DEF IInv, TermInv
<1>3. \A l \in Keys : Attached(l)' = Attached(l)
  BY <1>1 DEF Attached
<1>4. \A l \in Keys \ spoiled : Attached(l) # {} =>
         /\ l \in original => l \in original'
         /\ deletion[l] = "none" => deletion'[l] = "none"
  <2>1. CASE Upload(k)
    BY <2>1 DEF Upload
  <2>2. CASE BecomesDue(k)
    BY <2>2 DEF BecomesDue, IInv, Types
  <2>3. CASE Delete(k)
    <3>1. k \in spoiled \/ Attached(k) = {}
      BY <2>3 DEF Delete, IInv, SharedOriginalsStay
    <3> QED
      BY <2>3, <3>1 DEF Delete, IInv, Types
  <2>4. CASE EndRender(k)
    BY <2>4 DEF EndRender, HandOver, IInv, Types
  <2> QED
    BY <2>1, <2>2, <2>3, <2>4
<1>5. SharedOriginalsStay'
  BY <1>1, <1>3, <1>4, NothingIsTaken DEF IInv
<1> QED
  BY <1>2, <1>5 DEF Kept

\* Recording a preview, or that it cannot be made, leaves the attachment there.
LEMMA RendersKeep ==
    ASSUME LimitsAreNatural, IInv, NEW k \in Keys, Record(k) \/ RenderFails(k)
    PROVE  Kept'
<1> USE TypeForms
<1>1. UNCHANGED <<status, tags, original, deletion, spoiled, removal>>
  BY DEF Record, RenderFails, store, people, history
<1>2. ASSUME NEW o \in Orders, NEW l \in Keys
      PROVE  /\ att'[o][l].preview # "none" => att[o][l].preview # "none"
             /\ att'[o][l].late = att[o][l].late /\ att'[o][l].age = att[o][l].age
  <2>1. att[o][l] \in Attachments /\ att[o] \in [Keys -> Attachments]
    BY DEF IInv, Types
  <2>2. CASE Record(k)
    <3>1. att'[o] = IF att[o][k].preview = "pending" THEN [att[o] EXCEPT ![k].preview = "shown"] ELSE att[o]
      BY <2>2 DEF Record
    <3>2. att'[o][l] = att[o][l] \/ (att[o][l].preview = "pending"
                                     /\ att'[o][l] = [att[o][l] EXCEPT !.preview = "shown"])
      BY <2>1, <3>1
    <3> QED
      BY <2>1, <3>2 DEF Attachments
  <2>3. CASE RenderFails(k)
    <3> DEFINE p == render[k].for
               a == att[p][k]
               b == [a EXCEPT !.tries = IF @ < 2 THEN @ + 1 ELSE @,
                              !.preview = IF a.tries >= 2 THEN "failed" ELSE @]
    <3>1. att' = IF a.preview = "pending" THEN [att EXCEPT ![p][k] = b] ELSE att
      BY <2>3 DEF RenderFails
    <3>2. CASE p = o /\ l = k /\ a.preview = "pending"
      <4>1. att'[o][l] = b
        <5> HIDE DEF b, p
        <5> QED
          BY <3>1, <3>2 DEF IInv, Types
      <4>2. b.late = a.late /\ b.age = a.age
        BY <2>1, <3>2 DEF Attachments
      <4> QED
        BY <3>2, <4>1, <4>2
    <3>3. CASE ~(p = o /\ l = k /\ a.preview = "pending")
      <4>1. att'[o][l] = att[o][l]
        <5> HIDE DEF b, p
        <5> QED
          BY <3>1, <3>3 DEF IInv, Types
      <4> QED
        BY <4>1
    <3> QED
      BY <3>2, <3>3
  <2> QED
    BY <2>2, <2>3
<1>3. RemovalInv'
  BY <1>1, RemovalStays DEF IInv
<1>4. SharedOriginalsStay'
  <2>1. \A l \in Keys : Attached(l)' # {} => Attached(l) # {}
    BY <1>2 DEF Attached
  <2>2. SharedOriginalsStay
    BY DEF IInv
  <2> QED
    BY <1>1, <2>1, <2>2, NothingIsTaken
<1>5. TermInv'
  BY <1>1, <1>2, TermsGoOn DEF IInv
<1> QED
  BY <1>3, <1>4, <1>5 DEF Kept

LEMMA CrashKeeps ==
    ASSUME LimitsAreNatural, IInv, Crash
    PROVE  Kept'
<1>1. UNCHANGED <<status, tags, att, original, deletion, spoiled>> /\ removal' = NoRemoval
  BY DEF Crash, store, history
<1>2. RemovalInv'
  BY <1>1 DEF RemovalInv, NoRemoval
<1>3. SharedOriginalsStay' /\ TermInv'
  BY <1>1 DEF IInv, SharedOriginalsStay, Attached, TermInv
<1> QED
  BY <1>2, <1>3 DEF Kept

LEMMA NextKeepsInv ==
    ASSUME LimitsAreNatural, IInv, [Next]_vars
    PROVE  IInv'
<1>1. Types'
  BY NextKeepsTypes DEF IInv
<1>2. Kept'
  BY QuietSteps, TickKeeps, RemovalKeeps, AttachmentsKeep, MarkKeeps, DeleteBatchKeeps,
     StoreKeeps, RendersKeep, CrashKeeps
     DEF Next, Lifecycle, Preview
<1> QED
  BY <1>1, <1>2 DEF IInv, Kept

-----------------------------------------------------------------------------
(* The theorems. *)

\* OrderFiles: the four parts of the invariant hold together in every state, whatever the
\* lifecycle, the managers, the renderings and the deletions do to one order's files.
THEOREM Invariance ==
    ASSUME LimitsAreNatural
    PROVE  Spec => []IInv
<1>1. Init => IInv
  BY InitInv
<1>2. IInv /\ [Next]_vars => IInv'
  BY NextKeepsInv
<1> QED
  BY <1>1, <1>2, PTL DEF Spec

\* OrderFiles, deleteBatch: an original that an attachment of any order uses is stored and
\* not scheduled for deletion, unless it was attached during its deletion or belonged to
\* an order that was removed by hand.
THEOREM OriginalsAreKept ==
    ASSUME LimitsAreNatural
    PROVE  Spec => []SharedOriginalsStay
<1>1. IInv => SharedOriginalsStay
  BY DEF IInv
<1> QED
  BY <1>1, Invariance, PTL

\* The state is typed: the cursors of the lifecycle name orders, a rendering knows whom
\* it is for, and ages stay within the term.
THEOREM TypeCorrect ==
    ASSUME LimitsAreNatural
    PROVE  Spec => []TypeOK
<1>1. IInv => TypeOK
  BY DEF IInv, Types
<1> QED
  BY <1>1, Invariance, PTL

\* tick, rearmed: what is attached after a cleanup is only taken by the next one when
\* its own seven days are over.
THEOREM LateOnesWait ==
    ASSUME LimitsAreNatural
    PROVE  Spec => LateOnesGetTheirTerm
<1>1. ASSUME IInv, [Next]_vars
      PROVE  [TermKept]_vars
  <2> USE TypeForms
  <2> SUFFICES ASSUME DeleteBatch, NEW o \in Orders, NEW k \in Keys, att[o][k].preview # "none",
                      att[o][k].late, att'[o][k].preview = "none"
               PROVE  att[o][k].age > Delay
    BY DEF TermKept, KeysOf
  <2> DEFINE p == First(worker["cleanup"].page)
  <2>1. PICK batch : Deletes(p, batch)
    BY DeletesOrNot
  <2>2. p \in Orders
    <3>1. worker["cleanup"].page # {} /\ worker["cleanup"].page \in SUBSET Orders
      BY <1>1 DEF DeleteBatch, IInv, Types, Ticks, Kinds
    <3> QED
      BY <3>1, FirstIsThere
  <2> HIDE DEF p
  <2>3. o = p
    BY <1>1, <2>1, <2>2 DEF Deletes, IInv, Types
  <2>4. tags["cleanup"][o].age <= att[o][k].age /\ tags["cleanup"][o].age > Delay
    BY <1>1, <2>1, <2>3 DEF Deletes, IInv, TermInv
  <2>5. tags["cleanup"][o].age \in Nat /\ att[o][k].age \in Nat
    BY <1>1 DEF IInv, Types, Tags, Attachments, Ages, Kinds
  <2> QED
    BY <2>4, <2>5 DEF LimitsAreNatural
<1> QED
  BY <1>1, Invariance, PTL DEF Spec, LateOnesGetTheirTerm

\* updateOrderStatus with expectedStatusId: an order that becomes delivered by itself was
\* eligible at that moment, whatever was set since the lifecycle looked at it.
THEOREM ManagersDecide ==
    ASSUME LimitsAreNatural
    PROVE  Spec => ManagerDecides
<1>1. ASSUME IInv, [Next]_vars
      PROVE  [OnlyEligible]_vars
  <2> SUFFICES ASSUME NEW o \in Orders, status'[o] = "delivered", Next
               PROVE  Eligible(status[o], "completion")
    BY <1>1 DEF OnlyEligible
  <2>1. CASE status'[o] = status[o]
    BY <2>1 DEF Eligible
  <2>2. CASE Complete
    BY <1>1, <2>2, TypeForms DEF Complete, AsRead, Eligible, IInv, Types
  <2>3. CASE \E p \in Orders : SetStatus(p)
    BY <1>1, <2>3, TypeForms DEF SetStatus, Eligible, IInv, Types
  <2>4. CASE RemoveOrder
    <3>1. status' = [status EXCEPT ![removal.order] = "gone"]
      BY <2>4 DEF RemoveOrder
    <3>2. status'[o] = status[o]
      BY <1>1, <3>1, TypeForms DEF IInv, Types
    <3> QED
      BY <2>1, <3>2
  <2>5. Complete \/ (\E p \in Orders : SetStatus(p)) \/ RemoveOrder \/ UNCHANGED status
    <3>1. \A kind \in Kinds : Lifecycle(kind) => UNCHANGED status
      BY DEF Lifecycle, StartTick, Mark, StartActions, EndTick
    <3>2. \A kind \in Kinds : Lifecycle(kind) \/ RowFails(kind) => UNCHANGED status
      BY <3>1 DEF RowFails
    <3>3. DeleteBatch \/ Completion => Complete \/ UNCHANGED status
      BY DEF DeleteBatch, Completion, CheckOrder, MarkCompleted
    <3>4. \A k \in Keys : Upload(k) \/ Preview(k) \/ RenderFails(k) \/ BecomesDue(k) \/ Delete(k)
                            => UNCHANGED status
      BY DEF Upload, Preview, StartRender, Render, Record, EndRender, RenderFails, BecomesDue, Delete
    <3>5. \A p \in Orders : AskToRemove(p) \/ (\E k \in Keys : AskToAttach(p, k) \/ RemovePhoto(p, k))
                            => UNCHANGED status
      BY DEF AskToRemove, AskToAttach, RemovePhoto
    <3>6. /\ Tick \/ RemoveObjects \/ Crash => UNCHANGED status
          /\ \A r \in attaching : Attach(r) => UNCHANGED status
      BY DEF Tick, RemoveObjects, Crash, Attach
    <3>7. CASE \E kind \in Kinds : Lifecycle(kind) \/ RowFails(kind)
      BY <3>2, <3>7
    <3>8. CASE \E k \in Keys : Upload(k) \/ Preview(k) \/ RenderFails(k) \/ BecomesDue(k) \/ Delete(k)
      BY <3>4, <3>8
    <3>9. CASE \E p \in Orders : SetStatus(p) \/ AskToRemove(p)
      BY <3>5, <3>9
    <3>10. CASE \E p \in Orders, k \in Keys : AskToAttach(p, k) \/ RemovePhoto(p, k)
      BY <3>5, <3>10
    <3> QED
      BY <3>3, <3>6, <3>7, <3>8, <3>9, <3>10 DEF Next
  <2> QED
    BY <2>1, <2>2, <2>3, <2>4, <2>5
<1> QED
  BY <1>1, Invariance, PTL DEF Spec, ManagerDecides

-----------------------------------------------------------------------------
(* The slots for work on images. *)

\* A job is in one place, and only once.
PlaceInv ==
    /\ \A i, k \in DOMAIN waiting : waiting[i] = waiting[k] => i = k
    /\ Slots!ToSet(waiting) \cap running = {}
    /\ IsFiniteSet(Slots!ToSet(waiting)) /\ IsFiniteSet(running)

\* The inductive invariant.
SlotsInv == Slots!TypeOK /\ PlaceInv /\ Slots!SlotsAreCounted

\* Both modules mean the same by it.
LEMMA SameCardinality == \A S : Slots!Cardinality(S) = Cardinality(S)
  BY DEF Slots!Cardinality, Cardinality

LEMMA KindIsKnown == \A j : Slots!Kind(j) \in Slots!Kinds
  BY DEF Slots!Kind, Slots!Kinds

LEMMA SequenceFacts ==
    ASSUME NEW S, NEW q \in Seq(S)
    PROVE  Len(q) \in Nat /\ DOMAIN q = 1..Len(q) /\ \A i \in DOMAIN q : q[i] \in S
  OBVIOUS

\* Who comes last is added to those who wait.
LEMMA AppendAdds ==
    ASSUME NEW S, NEW q \in Seq(S), NEW j \in S \ Slots!ToSet(q),
           \A i, k \in DOMAIN q : q[i] = q[k] => i = k
    PROVE  /\ Append(q, j) \in Seq(S)
           /\ Slots!ToSet(Append(q, j)) = Slots!ToSet(q) \cup {j}
           /\ \A i, k \in DOMAIN Append(q, j) : Append(q, j)[i] = Append(q, j)[k] => i = k
  <1>1. /\ Append(q, j) \in Seq(S)
        /\ DOMAIN q = 1..Len(q) /\ DOMAIN Append(q, j) = 1..(Len(q) + 1)
        /\ Len(q) \in Nat
        /\ Append(q, j)[Len(q) + 1] = j
        /\ \A i \in 1..Len(q) : Append(q, j)[i] = q[i]
    OBVIOUS
  <1>2. \A i \in DOMAIN q : q[i] # j
    BY DEF Slots!ToSet
  <1>3. \A i \in 1..(Len(q) + 1) : i \in 1..Len(q) \/ i = Len(q) + 1
    BY <1>1
  <1>4. 1..Len(q) \subseteq 1..(Len(q) + 1) /\ Len(q) + 1 \in 1..(Len(q) + 1)
    BY <1>1
  <1>5. Slots!ToSet(Append(q, j)) = Slots!ToSet(q) \cup {j}
    <2>1. \A i \in DOMAIN Append(q, j) : Append(q, j)[i] \in Slots!ToSet(q) \cup {j}
      BY <1>1, <1>3 DEF Slots!ToSet
    <2>2. \A x \in Slots!ToSet(q) \cup {j} : \E i \in DOMAIN Append(q, j) : x = Append(q, j)[i]
      <3>1. \A i \in DOMAIN q : i \in DOMAIN Append(q, j) /\ q[i] = Append(q, j)[i]
        BY <1>1, <1>4
      <3>2. Len(q) + 1 \in DOMAIN Append(q, j) /\ j = Append(q, j)[Len(q) + 1]
        BY <1>1, <1>4
      <3> QED
        BY <3>1, <3>2, Zenon DEF Slots!ToSet
    <2>3. \A x : x \in Slots!ToSet(Append(q, j)) <=>
                   \E i \in DOMAIN Append(q, j) : x = Append(q, j)[i]
      BY Zenon DEF Slots!ToSet
    <2>4. \A x : x \in Slots!ToSet(Append(q, j)) <=> x \in Slots!ToSet(q) \cup {j}
      BY <2>1, <2>2, <2>3
    <2> QED
      BY <2>4
  <1> QED
    BY <1>1, <1>2, <1>3, <1>5

\* Who gets a slot does not wait any more, and the others do.
LEMMA RemoveAtRemoves ==
    ASSUME NEW S, NEW q \in Seq(S), NEW n \in DOMAIN q,
           \A i, k \in DOMAIN q : q[i] = q[k] => i = k
    PROVE  /\ Slots!RemoveAt(q, n) \in Seq(S)
           /\ Slots!ToSet(Slots!RemoveAt(q, n)) = Slots!ToSet(q) \ {q[n]}
           /\ \A i, k \in DOMAIN Slots!RemoveAt(q, n) :
                  Slots!RemoveAt(q, n)[i] = Slots!RemoveAt(q, n)[k] => i = k
  <1> DEFINE front == SubSeq(q, 1, n - 1)
             back  == SubSeq(q, n + 1, Len(q))
             rest  == front \o back
  <1>1. /\ Len(q) \in Nat /\ n \in 1..Len(q) /\ DOMAIN q = 1..Len(q)
        /\ \A i \in 1..Len(q) : q[i] \in S
    OBVIOUS
  <1>2. /\ front \in Seq(S) /\ Len(front) = n - 1
        /\ \A i \in 1..(n - 1) : front[i] = q[i]
    BY <1>1, SubSeqProperties
  <1>3. /\ back \in Seq(S) /\ Len(back) = Len(q) - n
        /\ \A i \in 1..(Len(q) - n) : back[i] = q[n + i]
    <2>1. n + 1 \in 1..(Len(q) + 1)
      BY <1>1
    <2> QED
      BY <1>1, <2>1, SubSeqProperties, SMTT(30)
  <1> HIDE DEF front, back
  <1>4. /\ rest \in Seq(S) /\ Len(rest) = Len(q) - 1
        /\ DOMAIN rest = 1..(Len(q) - 1)
        /\ \A i \in 1..(Len(q) - 1) :
               rest[i] = IF i < n THEN q[i] ELSE q[i + 1]
    <2>1. /\ front \o back \in Seq(S)
          /\ Len(front \o back) = Len(front) + Len(back)
          /\ \A i \in 1..(Len(front) + Len(back)) : (front \o back)[i] =
                 IF i <= Len(front) THEN front[i] ELSE back[i - Len(front)]
      <3>1. front \in Seq(S) /\ back \in Seq(S)
        BY <1>2, <1>3
      <3> QED
        BY <3>1, ConcatProperties
    <2>4. rest = front \o back
      OBVIOUS
    <2> HIDE DEF rest
    <2>2. Len(rest) = Len(q) - 1 /\ DOMAIN rest = 1..(Len(q) - 1)
      <3>1. Len(rest) = Len(q) - 1
        <4>1. Len(rest) = (n - 1) + (Len(q) - n)
          BY <1>2, <1>3, <2>1, <2>4, Zenon
        <4> QED
          BY <1>1, <4>1
      <3>2. DOMAIN rest = 1..Len(rest)
        BY <2>1, <2>4, SequenceFacts
      <3> QED
        BY <3>1, <3>2
    <2>3. ASSUME NEW i \in 1..(Len(q) - 1)
          PROVE  rest[i] = IF i < n THEN q[i] ELSE q[i + 1]
      <3>0. rest[i] = IF i <= n - 1 THEN front[i] ELSE back[i - (n - 1)]
        <4>1. i \in 1..(Len(front) + Len(back))
          BY <1>1, <1>2, <1>3
        <4>2. rest[i] = IF i <= Len(front) THEN front[i] ELSE back[i - Len(front)]
          BY <2>1, <2>4, <4>1, Zenon
        <4> QED
          BY <1>2, <4>2
      <3>1. CASE i < n
        <4>1. i \in 1..(n - 1) /\ i <= n - 1
          BY <1>1, <3>1
        <4> QED
          BY <1>2, <3>0, <3>1, <4>1
      <3>2. CASE ~(i < n)
        <4>1. i - (n - 1) \in 1..(Len(q) - n) /\ n + (i - (n - 1)) = i + 1
          BY <1>1, <3>2
        <4>2. rest[i] = back[i - (n - 1)]
          <5>1. ~(i <= n - 1)
            BY <1>1, <3>2
          <5> QED
            BY <3>0, <5>1
        <4> QED
          BY <1>3, <3>2, <4>1, <4>2
      <3> QED
        BY <3>1, <3>2
    <2> QED
      BY <2>1, <2>2, <2>3, <2>4
  <1>5. Slots!RemoveAt(q, n) = rest
    BY DEF Slots!RemoveAt, front, back
  <1> HIDE DEF rest
  <1>6. \A i, k \in DOMAIN rest : rest[i] = rest[k] => i = k
    <2> DEFINE at(i) == IF i < n THEN i ELSE i + 1
    <2>1. \A i \in DOMAIN rest : rest[i] = q[at(i)] /\ at(i) \in DOMAIN q
      BY <1>1, <1>4
    <2>2. \A i, k \in DOMAIN rest : at(i) = at(k) => i = k
      BY <1>1, <1>4
    <2> HIDE DEF at
    <2> QED
      BY <2>1, <2>2
  <1>7. \A i \in DOMAIN rest : \E k \in DOMAIN q : k # n /\ rest[i] = q[k]
    <2> TAKE i \in DOMAIN rest
    <2>1. CASE i < n
      <3>1. i \in DOMAIN q /\ i # n /\ rest[i] = q[i]
        BY <1>1, <1>4, <2>1
      <3> QED
        BY <3>1
    <2>2. CASE ~(i < n)
      <3>1. i + 1 \in DOMAIN q /\ i + 1 # n /\ rest[i] = q[i + 1]
        BY <1>1, <1>4, <2>2
      <3> QED
        BY <3>1
    <2> QED
      BY <2>1, <2>2
  <1>8. \A k \in DOMAIN q : k # n => \E i \in DOMAIN rest : rest[i] = q[k]
    <2> SUFFICES ASSUME NEW k \in DOMAIN q, k # n
                 PROVE  \E i \in DOMAIN rest : rest[i] = q[k]
      OBVIOUS
    <2>1. CASE k < n
      BY <1>1, <1>4, <2>1
    <2>2. CASE ~(k < n)
      <3>1. k - 1 \in DOMAIN rest /\ ~(k - 1 < n) /\ (k - 1) + 1 = k
        BY <1>1, <1>4, <2>2
      <3> QED
        BY <1>4, <3>1
    <2> QED
      BY <2>1, <2>2
  <1>9. Slots!ToSet(rest) = Slots!ToSet(q) \ {q[n]}
    <2>1. \A i \in DOMAIN rest : rest[i] \in Slots!ToSet(q) \ {q[n]}
      BY <1>7 DEF Slots!ToSet
    <2>2. \A x \in Slots!ToSet(q) \ {q[n]} : \E i \in DOMAIN rest : x = rest[i]
      BY <1>8 DEF Slots!ToSet
    <2>3. \A x : x \in Slots!ToSet(rest) <=> \E i \in DOMAIN rest : x = rest[i]
      BY Zenon DEF Slots!ToSet
    <2>4. \A x : x \in Slots!ToSet(rest) <=> x \in Slots!ToSet(q) \ {q[n]}
      BY <2>1, <2>2, <2>3
    <2> QED
      BY <2>4
  <1> QED
    BY <1>4, <1>5, <1>6, <1>9

\* What one job more, or less, makes of the numbers of a kind.
LEMMA KindCounts ==
    ASSUME NEW S, IsFiniteSet(S), NEW j, NEW kind
    PROVE  /\ Cardinality(Slots!OfKind(S, kind)) \in Nat
           /\ j \notin S => Cardinality(Slots!OfKind(S \cup {j}, kind)) =
                 IF Slots!Kind(j) = kind THEN Cardinality(Slots!OfKind(S, kind)) + 1
                 ELSE Cardinality(Slots!OfKind(S, kind))
           /\ j \in S => Cardinality(Slots!OfKind(S \ {j}, kind)) =
                 IF Slots!Kind(j) = kind THEN Cardinality(Slots!OfKind(S, kind)) - 1
                 ELSE Cardinality(Slots!OfKind(S, kind))
  <1>1. IsFiniteSet(Slots!OfKind(S, kind)) /\ Cardinality(Slots!OfKind(S, kind)) \in Nat
    <2>1. Slots!OfKind(S, kind) \in SUBSET S
      BY DEF Slots!OfKind
    <2> QED
      BY <2>1, FS_Subset, FS_CardinalityType
  <1>2. Slots!OfKind(S \cup {j}, kind) = IF Slots!Kind(j) = kind THEN Slots!OfKind(S, kind) \cup {j}
                                   ELSE Slots!OfKind(S, kind)
    BY DEF Slots!OfKind
  <1>3. Slots!OfKind(S \ {j}, kind) = IF Slots!Kind(j) = kind THEN Slots!OfKind(S, kind) \ {j}
                                ELSE Slots!OfKind(S, kind)
    BY DEF Slots!OfKind
  <1>4. (j \in Slots!OfKind(S, kind)) <=> j \in S /\ Slots!Kind(j) = kind
    BY DEF Slots!OfKind
  <1>5. j \notin S => Cardinality(Slots!OfKind(S \cup {j}, kind)) =
          IF Slots!Kind(j) = kind THEN Cardinality(Slots!OfKind(S, kind)) + 1
          ELSE Cardinality(Slots!OfKind(S, kind))
    BY <1>1, <1>2, <1>4, FS_AddElement
  <1>6. j \in S => Cardinality(Slots!OfKind(S \ {j}, kind)) =
          IF Slots!Kind(j) = kind THEN Cardinality(Slots!OfKind(S, kind)) - 1
          ELSE Cardinality(Slots!OfKind(S, kind))
    BY <1>1, <1>3, <1>4, FS_RemoveElement
  <1> QED
    BY <1>1, <1>5, <1>6

LEMMA SlotsInitInv ==
    ASSUME Slots!LimitsArePositive
    PROVE  Slots!Init => SlotsInv
  <1> SUFFICES ASSUME Slots!Init PROVE SlotsInv
    OBVIOUS
  <1>1. Slots!TypeOK
    <2>1. waiting \in Seq(Slots!Jobs)
      BY DEF Slots!Init
    <2>2. counts \in [Slots!Kinds -> [waiting : Nat, running : Nat]]
      BY DEF Slots!Init
    <2> QED
      BY <2>1, <2>2 DEF Slots!Init, Slots!TypeOK
  <1>2. Slots!ToSet(waiting) = {} /\ DOMAIN waiting = {}
    BY DEF Slots!Init, Slots!ToSet
  <1>3. PlaceInv
    BY <1>2, FS_EmptySet DEF Slots!Init, PlaceInv
  <1>4. \A kind \in Slots!Kinds : Slots!OfKind(Slots!ToSet(waiting), kind) = {} /\ Slots!OfKind(running, kind) = {}
    BY <1>2 DEF Slots!Init, Slots!OfKind
  <1>5. \A kind \in Slots!Kinds : Slots!Limit(kind) \in Nat
    BY DEF Slots!LimitsArePositive, Slots!Limit
  <1>6. Slots!SlotsAreCounted
    <2>1. active = Cardinality(running) /\ active <= Total
      BY FS_EmptySet DEF Slots!Init, Slots!LimitsArePositive
    <2>2. \A kind \in Slots!Kinds : counts[kind].waiting = 0 /\ counts[kind].running = 0
      BY DEF Slots!Init
    <2>3. \A kind \in Slots!Kinds : 0 <= Slots!Limit(kind)
      BY <1>5
    <2>4. \A kind \in Slots!Kinds : Cardinality(Slots!OfKind(Slots!ToSet(waiting), kind)) = 0 /\ Cardinality(Slots!OfKind(running, kind)) = 0
      BY <1>4, FS_EmptySet
    <2> QED
      BY <2>1, <2>2, <2>3, <2>4, SameCardinality DEF Slots!SlotsAreCounted
  <1> QED
    BY <1>1, <1>3, <1>6 DEF SlotsInv

\* The position that drain takes is one of the candidates.
LEMMA NextIsCandidate ==
    ASSUME Slots!TypeOK, Slots!Candidates # {}
    PROVE  Slots!NextIndex \in Slots!Candidates /\ Slots!NextIndex \in DOMAIN waiting
  <1> DEFINE P == IF Slots!Pressing # {} THEN Slots!Pressing ELSE Slots!Candidates
  <1>1. Slots!Candidates \subseteq DOMAIN waiting /\ DOMAIN waiting \subseteq Nat
    <2>1. DOMAIN waiting = 1..Len(waiting)
      BY SequenceFacts DEF Slots!TypeOK
    <2> QED
      BY <2>1 DEF Slots!Candidates
  <1>2. P \subseteq Slots!Candidates /\ P # {}
    BY DEF Slots!Pressing
  <1>3. \E n \in P : \A k \in P : n <= k
    BY <1>1, <1>2, LeastExists
  <1>4. Slots!NextIndex = CHOOSE n \in P : \A k \in P : n <= k
    BY DEF Slots!NextIndex
  <1> HIDE DEF P
  <1>5. Slots!NextIndex \in P
    BY <1>3, <1>4
  <1> QED
    BY <1>1, <1>2, <1>5

LEMMA RunKeepsInv ==
    ASSUME Slots!LimitsArePositive, SlotsInv, NEW j \in Slots!Jobs, Slots!Run(j)
    PROVE  SlotsInv'
  <1> USE DEF SlotsInv
  <1>1. /\ j \notin Slots!ToSet(waiting) /\ j \notin running
        /\ waiting' = Append(waiting, j) /\ running' = running /\ active' = active
        /\ counts' = [counts EXCEPT ![Slots!Kind(j)].waiting = @ + 1]
        /\ draining' = TRUE
    BY DEF Slots!Run, Slots!Known
  <1>2. /\ waiting' \in Seq(Slots!Jobs) /\ Slots!ToSet(waiting') = Slots!ToSet(waiting) \cup {j}
        /\ \A i, k \in DOMAIN waiting' : waiting'[i] = waiting'[k] => i = k
    BY <1>1, AppendAdds DEF Slots!TypeOK, PlaceInv
  <1>3. PlaceInv'
    <2>1. IsFiniteSet(Slots!ToSet(waiting) \cup {j})
      BY FS_AddElement DEF PlaceInv
    <2> QED
      BY <1>1, <1>2, <2>1 DEF PlaceInv
  <1>4. /\ counts' \in [Slots!Kinds -> [waiting : Nat, running : Nat]]
        /\ \A kind \in Slots!Kinds :
              /\ counts'[kind].running = counts[kind].running
              /\ counts'[kind].waiting = IF Slots!Kind(j) = kind THEN counts[kind].waiting + 1
                                         ELSE counts[kind].waiting
    <2> DEFINE k == Slots!Kind(j)
    <2>1. /\ k \in Slots!Kinds /\ counts \in [Slots!Kinds -> [waiting : Nat, running : Nat]]
          /\ counts' = [counts EXCEPT ![k].waiting = @ + 1]
      BY <1>1, KindIsKnown DEF Slots!TypeOK
    <2> HIDE DEF k
    <2>2. \A kind \in Slots!Kinds : /\ counts'[kind].running = counts[kind].running
                              /\ counts'[kind].waiting = IF k = kind THEN counts[kind].waiting + 1
                                                          ELSE counts[kind].waiting
      BY <2>1
    <2>3. counts' \in [Slots!Kinds -> [waiting : Nat, running : Nat]]
      BY <2>1
    <2> QED
      BY <2>2, <2>3 DEF k
  <1>5. Slots!TypeOK'
    BY <1>1, <1>2, <1>4 DEF Slots!TypeOK
  <1>6. ASSUME NEW kind \in Slots!Kinds
        PROVE  counts'[kind].waiting = Cardinality(Slots!OfKind(Slots!ToSet(waiting'), kind))
    <2>1. Slots!ToSet(waiting') = Slots!ToSet(waiting) \cup {j} /\ j \notin Slots!ToSet(waiting)
      BY <1>1, <1>2
    <2>2. IsFiniteSet(Slots!ToSet(waiting))
      BY DEF PlaceInv
    <2>3. Cardinality(Slots!OfKind(Slots!ToSet(waiting) \cup {j}, kind)) =
             IF Slots!Kind(j) = kind THEN Cardinality(Slots!OfKind(Slots!ToSet(waiting), kind)) + 1
             ELSE Cardinality(Slots!OfKind(Slots!ToSet(waiting), kind))
      BY <2>1, <2>2, KindCounts
    <2> QED
      BY <1>4, <2>1, <2>3, SameCardinality DEF Slots!SlotsAreCounted
  <1>7. \A kind \in Slots!Kinds : Slots!OfKind(running', kind) = Slots!OfKind(running, kind)
    BY <1>1 
  <1>8. Slots!SlotsAreCounted'
    BY <1>1, <1>4, <1>6, <1>7, SameCardinality DEF Slots!SlotsAreCounted
  <1> QED
    BY <1>3, <1>5, <1>8

LEMMA FinishKeepsInv ==
    ASSUME Slots!LimitsArePositive, SlotsInv, NEW j \in Slots!Jobs, Slots!Finish(j)
    PROVE  SlotsInv'
  <1> USE DEF SlotsInv
  <1>1. /\ j \in running /\ waiting' = waiting /\ running' = running \ {j}
        /\ active' = active - 1
        /\ counts' = [counts EXCEPT ![Slots!Kind(j)].running = @ - 1]
        /\ draining' = TRUE
    BY DEF Slots!Finish
  <1>2. PlaceInv'
    <2>1. IsFiniteSet(running \ {j})
      BY FS_RemoveElement DEF PlaceInv
    <2> QED
      BY <1>1, <2>1 DEF PlaceInv
  <1>3. ASSUME NEW kind \in Slots!Kinds
        PROVE  /\ Slots!OfKind(Slots!ToSet(waiting'), kind) = Slots!OfKind(Slots!ToSet(waiting), kind)
               /\ Cardinality(Slots!OfKind(running', kind)) =
                     IF Slots!Kind(j) = kind THEN Cardinality(Slots!OfKind(running, kind)) - 1
                     ELSE Cardinality(Slots!OfKind(running, kind))
               /\ Cardinality(Slots!OfKind(running', kind)) \in Nat
    <2>1. Slots!OfKind(Slots!ToSet(waiting'), kind) = Slots!OfKind(Slots!ToSet(waiting), kind)
      BY <1>1
    <2>2. running' = running \ {j} /\ j \in running
      BY <1>1
    <2>3. IsFiniteSet(running \ {j}) /\ IsFiniteSet(running)
      BY FS_RemoveElement DEF PlaceInv
    <2>4. Cardinality(Slots!OfKind(running \ {j}, kind)) \in Nat
      BY <2>3, KindCounts
    <2>5. Cardinality(Slots!OfKind(running \ {j}, kind)) =
             IF Slots!Kind(j) = kind THEN Cardinality(Slots!OfKind(running, kind)) - 1
             ELSE Cardinality(Slots!OfKind(running, kind))
      BY <2>2, <2>3, KindCounts
    <2> QED
      BY <2>1, <2>2, <2>4, <2>5
  <1>4. /\ counts' \in [Slots!Kinds -> [waiting : Nat, running : Int]]
        /\ \A kind \in Slots!Kinds :
              /\ counts'[kind].waiting = counts[kind].waiting
              /\ counts'[kind].running = IF Slots!Kind(j) = kind THEN counts[kind].running - 1
                                         ELSE counts[kind].running
    BY <1>1, KindIsKnown DEF Slots!TypeOK
  <1>5. \A kind \in Slots!Kinds : /\ counts'[kind].running = Cardinality(Slots!OfKind(running', kind))
                            /\ counts'[kind].running \in Nat
                            /\ counts'[kind].running <= counts[kind].running
    <2> TAKE kind \in Slots!Kinds
    <2>1. counts[kind].running \in Nat /\ counts[kind].running = Cardinality(Slots!OfKind(running, kind))
      BY SameCardinality DEF Slots!SlotsAreCounted, Slots!TypeOK
    <2>2. counts'[kind].running = Cardinality(Slots!OfKind(running', kind))
      BY <1>3, <1>4, <2>1
    <2>3. counts'[kind].running <= counts[kind].running
      BY <1>4, <2>1
    <2> QED
      BY <1>3, <2>2, <2>3
  <1>6. active' = Cardinality(running') /\ active' \in Nat /\ active' <= active
    BY <1>1, <1>2, FS_RemoveElement, FS_CardinalityType, SameCardinality, SMTT(40) DEF PlaceInv, Slots!SlotsAreCounted, Slots!TypeOK
  <1>7. counts' \in [Slots!Kinds -> [waiting : Nat, running : Nat]]
    BY <1>4, <1>5
  <1>8. Slots!TypeOK'
    BY <1>1, <1>6, <1>7 DEF Slots!TypeOK
  <1>9. \A kind \in Slots!Kinds : Slots!Limit(kind) \in Nat
    BY DEF Slots!LimitsArePositive, Slots!Limit
  <1>10. Slots!SlotsAreCounted'
    <2>1. active' <= Total
      BY <1>6, SameCardinality DEF Slots!SlotsAreCounted, Slots!TypeOK, Slots!LimitsArePositive
    <2>2. \A kind \in Slots!Kinds : counts'[kind].running <= Slots!Limit(kind)
      BY <1>5, <1>9, SameCardinality DEF Slots!SlotsAreCounted, Slots!TypeOK
    <2>3. \A kind \in Slots!Kinds : counts'[kind].waiting = Cardinality(Slots!OfKind(Slots!ToSet(waiting'), kind))
      BY <1>3, <1>4, SameCardinality DEF Slots!SlotsAreCounted
    <2> QED
      BY <1>5, <1>6, <2>1, <2>2, <2>3, SameCardinality DEF Slots!SlotsAreCounted
  <1> QED
    BY <1>2, <1>8, <1>10

LEMMA StartKeepsInv ==
    ASSUME Slots!LimitsArePositive, SlotsInv, Slots!Start
    PROVE  SlotsInv'
  <1> USE DEF SlotsInv
  <1> DEFINE j == waiting[Slots!NextIndex]
  <1>1. /\ active < Total /\ Slots!Candidates # {}
        /\ waiting' = Slots!RemoveAt(waiting, Slots!NextIndex) /\ running' = running \cup {j}
        /\ active' = active + 1 /\ draining' = draining
        /\ counts' = [counts EXCEPT ![Slots!Kind(j)] =
                         [waiting |-> @.waiting - 1, running |-> @.running + 1]]
    BY DEF Slots!Start
  <1>2. Slots!NextIndex \in Slots!Candidates /\ Slots!NextIndex \in DOMAIN waiting
    BY <1>1, NextIsCandidate
  <1>3. j \in Slots!Jobs /\ j \in Slots!ToSet(waiting) /\ j \notin running
    BY <1>2, SequenceFacts DEF Slots!TypeOK, PlaceInv, Slots!ToSet
  <1>4. counts[Slots!Kind(j)].running < Slots!Limit(Slots!Kind(j))
    BY <1>2 DEF Slots!Candidates, Slots!Eligible
  <1>5. /\ waiting' \in Seq(Slots!Jobs) /\ Slots!ToSet(waiting') = Slots!ToSet(waiting) \ {j}
        /\ \A i, k \in DOMAIN waiting' : waiting'[i] = waiting'[k] => i = k
    BY <1>1, <1>2, RemoveAtRemoves DEF Slots!TypeOK, PlaceInv
  <1> HIDE DEF j
  <1>6. PlaceInv'
    <2>1. IsFiniteSet(Slots!ToSet(waiting) \ {j}) /\ IsFiniteSet(running \cup {j})
      BY FS_AddElement, FS_RemoveElement DEF PlaceInv
    <2> QED
      BY <1>1, <1>5, <2>1 DEF PlaceInv
  <1>7. ASSUME NEW kind \in Slots!Kinds
        PROVE  /\ Cardinality(Slots!OfKind(Slots!ToSet(waiting'), kind)) =
                     IF Slots!Kind(j) = kind THEN Cardinality(Slots!OfKind(Slots!ToSet(waiting), kind)) - 1
                     ELSE Cardinality(Slots!OfKind(Slots!ToSet(waiting), kind))
               /\ Cardinality(Slots!OfKind(Slots!ToSet(waiting'), kind)) \in Nat
               /\ Cardinality(Slots!OfKind(running', kind)) =
                     IF Slots!Kind(j) = kind THEN Cardinality(Slots!OfKind(running, kind)) + 1
                     ELSE Cardinality(Slots!OfKind(running, kind))
    <2>1. /\ Slots!ToSet(waiting') = Slots!ToSet(waiting) \ {j} /\ j \in Slots!ToSet(waiting)
          /\ running' = running \cup {j} /\ j \notin running
      BY <1>1, <1>3, <1>5
    <2>2. /\ IsFiniteSet(Slots!ToSet(waiting) \ {j}) /\ IsFiniteSet(Slots!ToSet(waiting))
          /\ IsFiniteSet(running)
      BY FS_RemoveElement DEF PlaceInv
    <2>3. Cardinality(Slots!OfKind(Slots!ToSet(waiting) \ {j}, kind)) \in Nat
      BY <2>2, KindCounts
    <2>4. Cardinality(Slots!OfKind(Slots!ToSet(waiting) \ {j}, kind)) =
             IF Slots!Kind(j) = kind THEN Cardinality(Slots!OfKind(Slots!ToSet(waiting), kind)) - 1
             ELSE Cardinality(Slots!OfKind(Slots!ToSet(waiting), kind))
      BY <2>1, <2>2, KindCounts
    <2>5. Cardinality(Slots!OfKind(running \cup {j}, kind)) =
             IF Slots!Kind(j) = kind THEN Cardinality(Slots!OfKind(running, kind)) + 1
             ELSE Cardinality(Slots!OfKind(running, kind))
      BY <2>1, <2>2, KindCounts
    <2> QED
      BY <2>1, <2>3, <2>4, <2>5
  <1>8. /\ counts' \in [Slots!Kinds -> [waiting : Int, running : Nat]]
        /\ \A kind \in Slots!Kinds :
              /\ counts'[kind].waiting = IF Slots!Kind(j) = kind THEN counts[kind].waiting - 1
                                         ELSE counts[kind].waiting
              /\ counts'[kind].running = IF Slots!Kind(j) = kind THEN counts[kind].running + 1
                                         ELSE counts[kind].running
    BY <1>1, KindIsKnown DEF Slots!TypeOK
  <1>9. \A kind \in Slots!Kinds : /\ counts'[kind].waiting = Cardinality(Slots!OfKind(Slots!ToSet(waiting'), kind))
                            /\ counts'[kind].waiting \in Nat
                            /\ counts'[kind].running = Cardinality(Slots!OfKind(running', kind))
    BY <1>7, <1>8, SameCardinality, ZenonT(40) DEF Slots!SlotsAreCounted, Slots!TypeOK
  <1>10. counts' \in [Slots!Kinds -> [waiting : Nat, running : Nat]]
    BY <1>8, <1>9
  <1>11. active' = Cardinality(running') /\ active' \in Nat /\ active' <= Total
    <2>1. Cardinality(running \cup {j}) = Cardinality(running) + 1
      BY <1>3, FS_AddElement DEF PlaceInv
    <2>2. active = Cardinality(running) /\ active \in Nat /\ Total \in Nat
      BY SameCardinality DEF Slots!SlotsAreCounted, Slots!TypeOK, Slots!LimitsArePositive
    <2> QED
      BY <1>1, <2>1, <2>2
  <1>12. Slots!TypeOK'
    BY <1>1, <1>3, <1>5, <1>10, <1>11 DEF Slots!TypeOK
  <1>13. \A kind \in Slots!Kinds : Slots!Limit(kind) \in Nat
    BY DEF Slots!LimitsArePositive, Slots!Limit
  <1>14. \A kind \in Slots!Kinds : counts'[kind].running <= Slots!Limit(kind)
    <2> TAKE kind \in Slots!Kinds
    <2>1. /\ counts[kind].running \in Nat /\ counts[kind].running <= Slots!Limit(kind)
          /\ Slots!Limit(kind) \in Nat
      BY <1>13, SameCardinality DEF Slots!SlotsAreCounted, Slots!TypeOK
    <2>2. CASE Slots!Kind(j) = kind
      BY <1>4, <1>8, <2>1, <2>2
    <2>3. CASE Slots!Kind(j) # kind
      BY <1>8, <2>1, <2>3
    <2> QED
      BY <2>2, <2>3
  <1>15. Slots!SlotsAreCounted'
    BY <1>9, <1>11, <1>14, SameCardinality DEF Slots!SlotsAreCounted
  <1> QED
    BY <1>6, <1>12, <1>15

LEMMA SlotsNextInv ==
    ASSUME Slots!LimitsArePositive, SlotsInv, [Slots!Next]_Slots!vars
    PROVE  SlotsInv'
  <1>1. CASE \E j \in Slots!Jobs : Slots!Run(j)
    BY <1>1, RunKeepsInv
  <1>2. CASE \E j \in Slots!Jobs : Slots!Finish(j)
    BY <1>2, FinishKeepsInv
  <1>3. CASE Slots!Start
    BY <1>3, StartKeepsInv
  <1>4. CASE UNCHANGED <<waiting, running, active, counts>> /\ draining' \in BOOLEAN
    BY <1>4, SameCardinality DEF SlotsInv, Slots!TypeOK, PlaceInv, Slots!SlotsAreCounted
  <1>5. CASE Slots!EndDrain
    BY <1>4, <1>5 DEF Slots!EndDrain
  <1>6. CASE UNCHANGED Slots!vars
    BY <1>4, <1>6 DEF Slots!vars, SlotsInv, Slots!TypeOK
  <1> QED
    BY <1>1, <1>2, <1>3, <1>5, <1>6 DEF Slots!Next

\* ImagePreviewQueue: whatever comes and goes, the four counters and the number of slots
\* in use are those of the jobs that wait and run, no job waits twice or runs twice, and
\* neither the limit for all nor the limit of a kind is ever exceeded.
THEOREM SlotsStayCounted ==
    ASSUME Slots!LimitsArePositive
    PROVE  Slots!Spec => [](Slots!TypeOK /\ Slots!SlotsAreCounted)
  <1>1. Slots!Init => SlotsInv
    BY SlotsInitInv
  <1>2. SlotsInv /\ [Slots!Next]_Slots!vars => SlotsInv'
    BY SlotsNextInv
  <1>3. SlotsInv => Slots!TypeOK /\ Slots!SlotsAreCounted
    BY DEF SlotsInv
  <1> QED
    BY <1>1, <1>2, <1>3, PTL DEF Slots!Spec

\* drain goes on until nobody else can start: between two calls every job that waits does
\* so because all slots are in use, or as many as its kind may have.
THEOREM NoSlotIsIdle ==
    ASSUME Slots!LimitsArePositive
    PROVE  Slots!Spec => []Slots!NoSlotIdles
  <1> DEFINE Drained == ~draining => active >= Total \/ Slots!Candidates = {}
  <1>1. Slots!Init => Drained
    <2>1. Slots!Init => DOMAIN waiting = {}
      BY DEF Slots!Init
    <2> QED
      BY <2>1 DEF Slots!Candidates
  <1>2. Drained /\ [Slots!Next]_Slots!vars => Drained'
    <2> SUFFICES ASSUME Drained, [Slots!Next]_Slots!vars PROVE Drained'
      OBVIOUS
    <2>1. CASE \E j \in Slots!Jobs : Slots!Run(j) \/ Slots!Finish(j)
      BY <2>1 DEF Slots!Run, Slots!Finish
    <2>2. CASE Slots!Start
      BY <2>2 DEF Slots!Start
    <2>3. CASE Slots!EndDrain
      BY <2>3 DEF Slots!EndDrain, Slots!Candidates, Slots!Eligible
    <2>4. CASE UNCHANGED Slots!vars
      BY <2>4 DEF Slots!vars, Slots!Candidates, Slots!Eligible
    <2> QED
      BY <2>1, <2>2, <2>3, <2>4 DEF Slots!Next
  <1>3. SlotsInv /\ Drained => Slots!NoSlotIdles
    <2> SUFFICES ASSUME SlotsInv, Drained, ~draining, NEW i \in DOMAIN waiting
                 PROVE  \/ Cardinality(running) = Total
                        \/ Cardinality(Slots!OfKind(running, Slots!Kind(waiting[i]))) =
                               Slots!Limit(Slots!Kind(waiting[i]))
      BY SameCardinality DEF Slots!NoSlotIdles
    <2> DEFINE kind == Slots!Kind(waiting[i])
    <2>1. /\ active = Cardinality(running) /\ active <= Total /\ active \in Nat /\ Total \in Nat
          /\ counts[kind].running = Cardinality(Slots!OfKind(running, kind))
          /\ counts[kind].running <= Slots!Limit(kind) /\ counts[kind].running \in Nat
          /\ Slots!Limit(kind) \in Nat
      BY KindIsKnown, SameCardinality
         DEF SlotsInv, Slots!TypeOK, Slots!SlotsAreCounted, Slots!LimitsArePositive, Slots!Limit
    <2>2. CASE active >= Total
      BY <2>1, <2>2
    <2>3. CASE Slots!Candidates = {}
      <3>1. ~(counts[kind].running < Slots!Limit(kind))
        BY <2>3 DEF Slots!Candidates, Slots!Eligible
      <3> QED
        BY <2>1, <3>1
    <2> QED
      BY <2>2, <2>3
  <1>4. Slots!Init => SlotsInv
    BY SlotsInitInv
  <1>5. SlotsInv /\ [Slots!Next]_Slots!vars => SlotsInv'
    BY SlotsNextInv
  <1> QED
    BY <1>1, <1>2, <1>3, <1>4, <1>5, PTL DEF Slots!Spec

\* drain, findIndex: the next slot goes to a job that somebody is waiting for, if there is
\* one that may have it, however long the others have waited.
THEOREM UrgentGoFirst ==
    ASSUME Slots!LimitsArePositive
    PROVE  Slots!Spec => Slots!UrgentFirst
  <1> DEFINE Pressed == \A j \in running' \ running : Slots!Pressing # {} => j \in Urgent
  <1>1. ASSUME SlotsInv, [Slots!Next]_Slots!vars
        PROVE  [Pressed]_Slots!vars
    <2> SUFFICES ASSUME Slots!Start, Slots!Pressing # {}
                 PROVE  waiting[Slots!NextIndex] \in Urgent
      BY <1>1 DEF Slots!Next, Slots!Run, Slots!Finish, Slots!Start, Slots!EndDrain
    <2>1. Slots!Pressing \in SUBSET Nat
      <3>1. waiting \in Seq(Slots!Jobs)
        BY <1>1 DEF SlotsInv, Slots!TypeOK
      <3> QED
        BY <3>1 DEF Slots!Pressing, Slots!Candidates
    <2>2. \E i \in Slots!Pressing : \A k \in Slots!Pressing : i <= k
      BY <2>1, LeastExists
    <2>3. Slots!NextIndex \in Slots!Pressing
      BY <2>2 DEF Slots!NextIndex
    <2> QED
      BY <2>3 DEF Slots!Pressing
  <1>2. Slots!Init => SlotsInv
    BY SlotsInitInv
  <1>3. SlotsInv /\ [Slots!Next]_Slots!vars => SlotsInv'
    BY SlotsNextInv
  <1> QED
    BY <1>1, <1>2, <1>3, PTL DEF Slots!Spec, Slots!UrgentFirst

-----------------------------------------------------------------------------
(* The instance of MCFiles. *)

Queue == INSTANCE StorageCleanupProofs WITH
    Keys <- Objects, stored <- objects, deletion <- generations, due <- dueRows, batch <- reading,
    removed <- taken, writers <- writing, tracked <- recorded, served <- promised, condemned <- given

LEMMA SameCleanup ==
    /\ Cleanup!Spec <=> Queue!Spec
    /\ Cleanup!NoOrphan <=> Queue!NoOrphan
    /\ Cleanup!ServedStays <=> Queue!ServedStays
    /\ Cleanup!MaxGenerationIsPositive <=> Queue!MaxGenerationIsPositive
  <1>1. /\ Cleanup!Scheduled = Queue!Scheduled /\ Cleanup!InBatch = Queue!InBatch
        /\ Cleanup!NoBatch = Queue!NoBatch
        /\ Cleanup!cleaner = Queue!cleaner /\ Cleanup!client = Queue!client
    BY DEF Cleanup!Scheduled, Queue!Scheduled, Cleanup!InBatch, Queue!InBatch, Cleanup!NoBatch,
           Queue!NoBatch, Cleanup!cleaner, Queue!cleaner, Cleanup!client, Queue!client
  <1>2. Cleanup!ClientStep <=> Queue!ClientStep
    BY DEF Cleanup!ClientStep, Queue!ClientStep, Cleanup!Scheduled, Queue!Scheduled,
           Cleanup!InBatch, Queue!InBatch, Cleanup!Enqueue, Queue!Enqueue, Cleanup!Fresh,
           Queue!Fresh, Cleanup!Work, Queue!Work, Cleanup!cleaner, Queue!cleaner
  <1>3. Cleanup!Crash <=> Queue!Crash
    BY DEF Cleanup!Crash, Queue!Crash, Cleanup!Scheduled, Queue!Scheduled, Cleanup!NoBatch,
           Queue!NoBatch
  <1>4. /\ Cleanup!CleanerStep <=> Queue!CleanerStep
        /\ \A k : Cleanup!BecomesDue(k) <=> Queue!BecomesDue(k)
    <2>1. /\ Cleanup!StartBatch <=> Queue!StartBatch
          /\ Cleanup!AbandonBatch <=> Queue!AbandonBatch
          /\ \A k : /\ Cleanup!RemoveObject(k) <=> Queue!RemoveObject(k)
                    /\ Cleanup!DeleteRow(k) <=> Queue!DeleteRow(k)
                    /\ Cleanup!Postpone(k) <=> Queue!Postpone(k)
                    /\ Cleanup!BecomesDue(k) <=> Queue!BecomesDue(k)
      BY DEF Cleanup!StartBatch, Queue!StartBatch, Cleanup!AbandonBatch, Queue!AbandonBatch,
             Cleanup!RemoveObject, Queue!RemoveObject, Cleanup!DeleteRow, Queue!DeleteRow,
             Cleanup!Postpone, Queue!Postpone, Cleanup!BecomesDue, Queue!BecomesDue,
             Cleanup!Scheduled, Queue!Scheduled, Cleanup!InBatch, Queue!InBatch, Cleanup!NoBatch,
             Queue!NoBatch, Cleanup!client, Queue!client, Cleanup!cleaner, Queue!cleaner
    <2> QED
      BY <2>1 DEF Cleanup!CleanerStep, Queue!CleanerStep
  <1>5. Cleanup!Next <=> Queue!Next
    BY <1>2, <1>3, <1>4 DEF Cleanup!Next, Queue!Next
  <1>6. Cleanup!Init <=> Queue!Init
    BY DEF Cleanup!Init, Queue!Init, Cleanup!NoBatch, Queue!NoBatch
  <1>7. Cleanup!vars = Queue!vars
    BY DEF Cleanup!vars, Queue!vars, Cleanup!client, Queue!client, Cleanup!cleaner, Queue!cleaner
  <1>8. Cleanup!Spec <=> Queue!Spec
    <2>1. [Cleanup!Next]_(Cleanup!vars) <=> [Queue!Next]_(Queue!vars)
      BY <1>5 DEF Cleanup!vars, Queue!vars, Cleanup!client, Queue!client, Cleanup!cleaner,
                  Queue!cleaner
    <2> QED
      BY <1>6, <2>1, PTL DEF Cleanup!Spec, Queue!Spec
  <1>9. /\ Cleanup!NoOrphan <=> Queue!NoOrphan
        /\ Cleanup!ServedStays <=> Queue!ServedStays
    BY <1>1 DEF Cleanup!NoOrphan, Queue!NoOrphan, Cleanup!ServedStays, Queue!ServedStays
  <1>10. Cleanup!MaxGenerationIsPositive <=> Queue!MaxGenerationIsPositive
    BY DEF Cleanup!MaxGenerationIsPositive, Queue!MaxGenerationIsPositive
  <1> QED
    BY <1>8, <1>9, <1>10

\* Each part is a behaviour of its module, and so is one that stands still.
LEMMA PartsAreTheirs == MCSpec => Spec /\ Cleanup!Spec /\ Slots!Spec
  <1> DEFINE all == <<part, filesVars, cleanupVars, slotsVars>>
  <1>1. MCInit => Init /\ Cleanup!Init /\ Slots!Init
    BY DEF MCInit
  <1>2. [MCNext]_all => /\ [Next]_vars
                        /\ [Cleanup!Next]_(Cleanup!vars)
                        /\ [Slots!Next]_(Slots!vars)
    <2>1. UNCHANGED cleanupVars => UNCHANGED Cleanup!vars
      BY DEF cleanupVars, Cleanup!vars, Cleanup!cleaner, Cleanup!client
    <2>2. UNCHANGED slotsVars => UNCHANGED Slots!vars
      BY DEF slotsVars, Slots!vars
    <2>3. UNCHANGED filesVars => UNCHANGED vars
      BY DEF filesVars
    <2>4. MCNext =>
              \/ Next /\ UNCHANGED cleanupVars /\ UNCHANGED slotsVars
              \/ Cleanup!Next /\ UNCHANGED filesVars /\ UNCHANGED slotsVars
              \/ Slots!Next /\ UNCHANGED filesVars /\ UNCHANGED cleanupVars
      BY DEF MCNext
    <2>5. UNCHANGED all => UNCHANGED filesVars /\ UNCHANGED cleanupVars /\ UNCHANGED slotsVars
      OBVIOUS
    <2> QED
      BY <2>1, <2>2, <2>3, <2>4, <2>5
  <1> QED
    BY <1>1, <1>2, PTL DEF MCSpec, Spec, Cleanup!Spec, Slots!Spec

\* The generations of storage-cleanup.service.ts: every object is the client's, or
\* scheduled for deletion, or in the hands of a live worker.
THEOREM NothingIsForgotten == MCSpec => []NoOrphan
  <1>1. Cleanup!Spec => []Cleanup!NoOrphan
    BY SameCleanup, Queue!ObjectsAreTracked, FilesAssumption, PTL
  <1> QED
    BY <1>1, PartsAreTheirs, PTL DEF NoOrphan

\* What is promised to readers is stored and not about to be deleted.
THEOREM ServedFilesStay == MCSpec => []ServedStays
  <1>1. Cleanup!Spec => []Cleanup!ServedStays
    BY SameCleanup, Queue!ServedObjectsStay, FilesAssumption, PTL
  <1> QED
    BY <1>1, PartsAreTheirs, PTL DEF ServedStays

\* ImagePreviewQueue: the counters agree with the jobs, and no limit is exceeded.
THEOREM CountersAgree == MCSpec => []SlotsAreCounted
  <1>1. Slots!Spec => [](Slots!TypeOK /\ Slots!SlotsAreCounted)
    BY SlotsStayCounted, FilesAssumption
  <1> QED
    BY <1>1, PartsAreTheirs, PTL DEF SlotsAreCounted
=============================================================================
