-------------------------- MODULE SyncEngineProofs --------------------------
(***************************************************************************)
(* The engine for every casilla, page size and number of syncs: types,     *)
(* attachments that are backed whatever fails and however the syncs        *)
(* interleave and, where no two syncs of the account run at a time,        *)
(* attachments filed under their own notification and an early stop that   *)
(* leaves nothing out.                                                     *)
(***************************************************************************)
EXTENDS SyncEngine, FiniteSetTheorems, SequenceTheorems, TLAPS

Work == [row : Notifs, under : Notifs]

-----------------------------------------------------------------------------
(* The order of the bandeja.                                               *)

\* In a finite set of numbers there is one with each rank.
LEMMA RankTaken ==
  ASSUME NEW ns \in SUBSET Int, IsFiniteSet(ns), NEW j \in 1..Cardinality(ns)
  PROVE  \E n \in ns : Cardinality({m \in ns : m >= n}) = j
<1> DEFINE Up(n) == {m \in ns : m >= n}
           size == Cardinality(ns)
           rank == [n \in ns |-> Cardinality(Up(n))]
<1>0. size \in Nat
  BY FS_CardinalityType
<1>1. ASSUME NEW n \in ns
      PROVE  IsFiniteSet(Up(n)) /\ Cardinality(Up(n)) \in 1..size
  <2>1. Up(n) \in SUBSET ns /\ Up(n) # {}
    OBVIOUS
  <2>2. IsFiniteSet(Up(n)) /\ Cardinality(Up(n)) <= size
    BY <2>1, FS_Subset
  <2>3. Cardinality(Up(n)) \in Nat
    BY <2>2, FS_CardinalityType
  <2>4. Cardinality(Up(n)) # 0
    BY <2>1, <2>2, FS_EmptySet
  <2> QED
    BY <1>0, <2>2, <2>3, <2>4
<1>2. ASSUME NEW n \in ns, NEW k \in ns, n < k
      PROVE  Cardinality(Up(n)) # Cardinality(Up(k))
  <2>1. \A m \in ns : m \in Int /\ (m >= k => m >= n)
    BY <1>2
  <2>2. n >= n /\ ~(n >= k)
    BY <1>2, <2>1
  <2>3. Up(k) \in SUBSET Up(n) /\ n \in Up(n) /\ n \notin Up(k)
    BY <2>1, <2>2
  <2>4. IsFiniteSet(Up(n))
    BY <1>1
  <2> QED
    BY <2>3, <2>4, FS_Subset
<1>3. rank \in Injection(ns, 1..size)
  <2>1. rank \in [ns -> 1..size]
    BY <1>1
  <2>2. \A n, k \in ns : rank[n] = rank[k] => n = k
    <3> SUFFICES ASSUME NEW n \in ns, NEW k \in ns, n # k
                 PROVE  rank[n] # rank[k]
      OBVIOUS
    <3>1. n < k \/ k < n
      OBVIOUS
    <3> QED
      BY <1>2, <3>1
  <2> QED
    BY <2>1, <2>2 DEF Injection, IsInjective
<1>4. rank \in Surjection(ns, 1..size)
  <2>1. IsFiniteSet(1..size) /\ Cardinality(1..size) = size
    BY <1>0, FS_Interval
  <2> QED
    BY <1>3, <2>1, FS_Injection
<1> QED
  BY <1>4 DEF Surjection

LEMMA NotifsFinite ==
  ASSUME NEW ns \in SUBSET Notifs
  PROVE  IsFiniteSet(ns) /\ Cardinality(ns) \in Nat
<1>1. IsFiniteSet(Notifs)
  BY EngineAssumption, FS_Interval DEF Notifs
<1>2. IsFiniteSet(ns)
  BY <1>1, FS_Subset
<1> QED
  BY <1>2, FS_CardinalityType

\* NewestFirst gives notifications of the set, as many as there are.
LEMMA NewestFirstTyped ==
  ASSUME NEW ns \in SUBSET Notifs
  PROVE  /\ Cardinality(ns) \in Nat
         /\ DOMAIN NewestFirst(ns) = 1..Cardinality(ns)
         /\ \A j \in 1..Cardinality(ns) : NewestFirst(ns)[j] \in ns
<1>1. IsFiniteSet(ns) /\ Cardinality(ns) \in Nat
  BY NotifsFinite
<1>2. ns \in SUBSET Int
  BY EngineAssumption DEF Notifs
<1>3. ASSUME NEW j \in 1..Cardinality(ns)
      PROVE  NewestFirst(ns)[j] \in ns
  <2>1. \E n \in ns : Cardinality({m \in ns : m >= n}) = j
    BY <1>1, <1>2, RankTaken
  <2> QED
    BY <2>1 DEF NewestFirst
<1> QED
  BY <1>1, <1>3 DEF NewestFirst

\* The rows of a page are notifications, when the casilla is one.
LEMMA ShownTyped ==
  ASSUME TypeOK, NEW s \in Syncs, NEW p \in Nat \ {0}
  PROVE  Shown(s, p) \subseteq Notifs
<1> DEFINE skip == (p - 1) * PageSize
<1>1. skip \in Nat /\ box \in 0..MaxBox /\ since[s] \in Nat
  BY EngineAssumption DEF TypeOK
<1>2. Shown(s, p) \subseteq (since[s] + 1)..(box - skip)
  BY DEF Shown
<1> HIDE DEF skip
<1> QED
  BY <1>1, <1>2, EngineAssumption DEF Notifs

-----------------------------------------------------------------------------
(* Types.                                                                  *)

\* A list without its first entry has no entry it had not before.
LEMMA TailEntries ==
  ASSUME NEW S, NEW w \in Seq(S), w # <<>>
  PROVE  /\ Tail(w) \in Seq(S)
         /\ 1 \in DOMAIN w /\ Head(w) = w[1] /\ w[1] \in S
         /\ \A j \in DOMAIN Tail(w) : \E i \in DOMAIN w : Tail(w)[j] = w[i]
<1>1. /\ Len(w) \in Nat \ {0} /\ DOMAIN w = 1..Len(w)
      /\ Tail(w) \in Seq(S) /\ Len(Tail(w)) = Len(w) - 1
      /\ \A i \in 1..Len(Tail(w)) : Tail(w)[i] = w[i + 1]
  BY EmptySeq, LenProperties, HeadTailProperties
<1>2. DOMAIN Tail(w) = 1..(Len(w) - 1)
  BY <1>1, LenProperties
<1>3. 1 \in DOMAIN w /\ Head(w) = w[1] /\ w[1] \in S
  BY <1>1
<1>4. ASSUME NEW j \in DOMAIN Tail(w)
      PROVE  \E i \in DOMAIN w : Tail(w)[j] = w[i]
  <2>1. j \in 1..(Len(w) - 1)
    BY <1>2
  <2>2. j + 1 \in DOMAIN w /\ Tail(w)[j] = w[j + 1]
    BY <1>1, <2>1
  <2> QED
    BY <2>2
<1> QED
  BY <1>1, <1>3, <1>4

\* The modals that Upsert leaves to open.
News(rows) ==
  [j \in 1..Cardinality((rows \ Undated) \ db) |->
     [row |-> NewestFirst(rows \ Undated)[j],
      under |-> NewestFirst((rows \ Undated) \ db)[j]]]

\* Upsert works through rows that have a date, under the ids of rows that
\* nobody had inserted; where nobody had, each under its own.
LEMMA NewsTyped ==
  ASSUME NEW rows \in SUBSET Notifs
  PROVE  /\ News(rows) \in Seq(Work)
         /\ \A j \in DOMAIN News(rows) :
              /\ News(rows)[j].under \in rows \ Undated
              /\ rows \cap db = {} => News(rows)[j].under = News(rows)[j].row
<1> DEFINE dated == rows \ Undated
           new == dated \ db
<1>1. dated \in SUBSET Notifs /\ new \in SUBSET Notifs /\ new \in SUBSET dated
  OBVIOUS
<1>2. Cardinality(dated) \in Nat /\ IsFiniteSet(dated)
  BY <1>1, NotifsFinite
<1>3. Cardinality(new) \in Nat /\ Cardinality(new) <= Cardinality(dated)
  BY <1>1, <1>2, NotifsFinite, FS_Subset
<1>4. /\ \A j \in 1..Cardinality(dated) : NewestFirst(dated)[j] \in dated
      /\ \A j \in 1..Cardinality(new) : NewestFirst(new)[j] \in new
  BY <1>1, NewestFirstTyped
<1>5. News(rows) = [j \in 1..Cardinality(new) |->
                      [row |-> NewestFirst(dated)[j], under |-> NewestFirst(new)[j]]]
  BY DEF News
<1>6. rows \cap db = {} => new = dated
  OBVIOUS
<1> HIDE DEF dated, new
<1>7. \A j \in 1..Cardinality(new) : j \in 1..Cardinality(dated)
  BY <1>2, <1>3
<1>8. \A j \in 1..Cardinality(new) :
        /\ News(rows)[j] = [row |-> NewestFirst(dated)[j], under |-> NewestFirst(new)[j]]
        /\ NewestFirst(dated)[j] \in Notifs /\ NewestFirst(new)[j] \in Notifs
        /\ NewestFirst(new)[j] \in dated
  BY <1>1, <1>4, <1>5, <1>7
<1>9. ASSUME NEW j \in 1..Cardinality(new)
      PROVE  News(rows)[j] \in Work
  <2> DEFINE r == NewestFirst(dated)[j]
             u == NewestFirst(new)[j]
  <2>1. News(rows)[j] = [row |-> r, under |-> u] /\ r \in Notifs /\ u \in Notifs
    BY <1>8
  <2> HIDE DEF r, u
  <2> QED
    BY <2>1 DEF Work
<1>10. News(rows) \in Seq(Work)
  BY <1>3, <1>5, <1>9
<1>11. DOMAIN News(rows) = 1..Cardinality(new)
  BY <1>5
<1>12. \A j \in DOMAIN News(rows) : News(rows)[j].under \in rows \ Undated
  BY <1>8, <1>11 DEF dated
<1>13. ASSUME rows \cap db = {}, NEW j \in DOMAIN News(rows)
       PROVE  News(rows)[j].under = News(rows)[j].row
  BY <1>6, <1>8, <1>11, <1>13
<1> QED
  BY <1>10, <1>12, <1>13

\* The modals a backfill opens.
Gaps(rows) ==
  [j \in 1..Cardinality(rows) |-> Row(NewestFirst(rows)[j])]

LEMMA GapsTyped ==
  ASSUME NEW rows \in SUBSET Notifs
  PROVE  /\ Gaps(rows) \in Seq(Work)
         /\ \A j \in DOMAIN Gaps(rows) :
              /\ Gaps(rows)[j].under \in rows
              /\ Gaps(rows)[j].under = Gaps(rows)[j].row
<1>1. /\ Cardinality(rows) \in Nat
      /\ \A j \in 1..Cardinality(rows) : NewestFirst(rows)[j] \in rows
  BY NewestFirstTyped
<1>2. DOMAIN Gaps(rows) = 1..Cardinality(rows)
  BY DEF Gaps
<1>3. \A j \in 1..Cardinality(rows) :
        /\ Gaps(rows)[j] = [row |-> NewestFirst(rows)[j], under |-> NewestFirst(rows)[j]]
        /\ NewestFirst(rows)[j] \in Notifs
  BY <1>1 DEF Gaps, Row
<1>4. ASSUME NEW j \in 1..Cardinality(rows)
      PROVE  Gaps(rows)[j] \in Work
  <2> DEFINE r == NewestFirst(rows)[j]
  <2>1. Gaps(rows)[j] = [row |-> r, under |-> r] /\ r \in Notifs
    BY <1>3
  <2> HIDE DEF r
  <2> QED
    BY <2>1 DEF Work
<1>5. Gaps(rows) \in Seq(Work)
  BY <1>1, <1>4 DEF Gaps
<1> QED
  BY <1>1, <1>2, <1>3, <1>5

\* Attachments are pending under an open modal only, the one that was uploaded is
\* pending, and a sync that is off or about to read a page has none of these.
OpenModals ==
  \A s \in Syncs :
    /\ pend[s] # {} => todo[s] # <<>>
    /\ sent[s] \subseteq pend[s]
    /\ pc[s] \in {"off", "read"} => todo[s] = <<>> /\ pend[s] = {}

TypeInv == TypeOK /\ OpenModals

LEMMA TypeInit == Init => TypeInv
<1> SUFFICES ASSUME Init
             PROVE  TypeInv
  OBVIOUS
<1>1. TypeOK
  BY EngineAssumption DEF Init, TypeOK, Notifs
<1>2. OpenModals
  BY DEF Init, OpenModals
<1> QED
  BY <1>1, <1>2 DEF TypeInv

\* What TypeInv says of a list of modals.
LEMMA TodoTyped ==
  ASSUME TypeOK, NEW s \in Syncs
  PROVE  todo[s] \in Seq(Work)
  BY DEF TypeOK, Work

LEMMA ArriveTyped ==
  ASSUME TypeInv, Arrive
  PROVE  TypeInv'
<1>1. arrived' \in [Syncs -> 0..Burst]
  BY EngineAssumption DEF TypeInv, TypeOK, Arrive
<1>2. box' \in 0..MaxBox
  BY EngineAssumption DEF TypeInv, TypeOK, Arrive
<1> QED
  BY <1>1, <1>2 DEF TypeInv, TypeOK, OpenModals, Arrive, tables, local

LEMMA AgeTyped ==
  ASSUME TypeInv, Age
  PROVE  TypeInv'
<1>1. aged' \in 0..MaxBox
  BY EngineAssumption DEF TypeInv, TypeOK, Age
<1> QED
  BY <1>1 DEF TypeInv, TypeOK, OpenModals, Age, tables, local, history

LEMMA BeginTyped ==
  ASSUME TypeInv, NEW s \in Syncs, Begin(s)
  PROVE  TypeInv'
<1>1. /\ page' \in [Syncs -> 1..(MaxBox + 1)]
      /\ since' \in [Syncs -> 0..MaxBox]
      /\ startBox' \in [Syncs -> 0..MaxBox]
      /\ arrived' \in [Syncs -> 0..Burst]
      /\ pc' \in [Syncs -> {"off", "read", "backfill", "fetch"}]
  BY EngineAssumption DEF TypeInv, TypeOK, Begin
<1>2. OpenModals'
  BY DEF TypeInv, TypeOK, OpenModals, Begin
<1> QED
  BY <1>1, <1>2 DEF TypeInv, TypeOK, Begin, tables, portal

\* A new list of modals, at a page where no modal is open.
LEMMA ListTyped ==
  ASSUME TypeInv, NEW s \in Syncs, NEW w \in Seq(Work), pend[s] = {},
         todo' = [todo EXCEPT ![s] = w], UNCHANGED <<pend, sent>>,
         pc' = [pc EXCEPT ![s] = "fetch"] \/ pc' = [pc EXCEPT ![s] = "backfill"]
  PROVE  /\ todo' \in [Syncs -> Seq([row : Notifs, under : Notifs])]
         /\ pc' \in [Syncs -> {"off", "read", "backfill", "fetch"}]
         /\ OpenModals'
<1>1. todo' \in [Syncs -> Seq([row : Notifs, under : Notifs])]
  BY DEF TypeInv, TypeOK, Work
<1>2. pc' \in [Syncs -> {"off", "read", "backfill", "fetch"}]
  BY DEF TypeInv, TypeOK
<1>3. ASSUME NEW t \in Syncs
      PROVE  /\ pend'[t] # {} => todo'[t] # <<>>
             /\ sent'[t] \subseteq pend'[t]
             /\ pc'[t] \in {"off", "read"} => todo'[t] = <<>> /\ pend'[t] = {}
  <2>1. CASE t = s
    BY <2>1 DEF TypeInv, TypeOK, OpenModals
  <2>2. CASE t # s
    BY <2>2 DEF TypeInv, TypeOK, OpenModals
  <2> QED
    BY <2>1, <2>2
<1> QED
  BY <1>1, <1>2, <1>3 DEF OpenModals

LEMMA UpsertIs ==
  ASSUME NEW s, NEW rows, Upsert(s, rows)
  PROVE  /\ db' = db \cup (rows \ Undated)
         /\ todo' = [todo EXCEPT ![s] = News(rows)]
         /\ pc' = [pc EXCEPT ![s] = "fetch"]
<1>1. DOMAIN NewestFirst((rows \ Undated) \ db) = 1..Cardinality((rows \ Undated) \ db)
  BY DEF NewestFirst
<1> QED
  BY <1>1 DEF Upsert, News

\* The two outcomes of reading a page.
LEMMA ReadPageIs ==
  ASSUME NEW s, ReadPage(s)
  PROVE  LET new == Shown(s, page[s]) \ db
             missing == {n \in Shown(s, page[s]) : Missing(n)}
         IN  /\ pc[s] = "read"
             /\ fresh' = [fresh EXCEPT ![s] = new]
             /\ arrived' = [arrived EXCEPT ![s] = 0]
             /\ UNCHANGED <<portal, attachments, objects, since, page, pend, sent,
                            startBox, faults>>
             /\ \/ /\ todo' = [todo EXCEPT ![s] = Gaps(missing)]
                   /\ pc' = [pc EXCEPT ![s] = "backfill"]
                   /\ UNCHANGED db
                \/ Upsert(s, new)
  BY DEF ReadPage, Gaps

LEMMA ReadPageTyped ==
  ASSUME TypeInv, NEW s \in Syncs, ReadPage(s)
  PROVE  TypeInv'
<1> DEFINE new == Shown(s, page[s]) \ db
           missing == {n \in Shown(s, page[s]) : Missing(n)}
<1>1. page[s] \in Nat \ {0}
  BY EngineAssumption DEF TypeInv, TypeOK
<1>2. new \in SUBSET Notifs /\ missing \in SUBSET Notifs
  BY <1>1, ShownTyped DEF TypeInv
<1>3. /\ pc[s] = "read" /\ fresh' = [fresh EXCEPT ![s] = new]
      /\ arrived' = [arrived EXCEPT ![s] = 0]
      /\ UNCHANGED <<portal, attachments, objects, since, page, pend, sent,
                            startBox, faults>>
      /\ \/ /\ todo' = [todo EXCEPT ![s] = Gaps(missing)]
            /\ pc' = [pc EXCEPT ![s] = "backfill"]
            /\ UNCHANGED db
         \/ Upsert(s, new)
  BY ReadPageIs
<1> HIDE DEF new, missing
<1>4. pend[s] = {}
  BY <1>3 DEF TypeInv, OpenModals
<1>5. fresh' \in [Syncs -> SUBSET Notifs] /\ arrived' \in [Syncs -> 0..Burst]
  BY <1>2, <1>3, EngineAssumption DEF TypeInv, TypeOK
<1>6. Gaps(missing) \in Seq(Work) /\ News(new) \in Seq(Work)
  BY <1>2, GapsTyped, NewsTyped
<1>7. /\ db' \in SUBSET Notifs
      /\ \E w \in Seq(Work) :
           /\ todo' = [todo EXCEPT ![s] = w]
           /\ \/ pc' = [pc EXCEPT ![s] = "fetch"]
              \/ pc' = [pc EXCEPT ![s] = "backfill"]
  BY <1>2, <1>3, <1>6, UpsertIs DEF TypeInv, TypeOK
<1>8. /\ todo' \in [Syncs -> Seq([row : Notifs, under : Notifs])]
      /\ pc' \in [Syncs -> {"off", "read", "backfill", "fetch"}]
      /\ OpenModals'
  BY <1>3, <1>4, <1>7, ListTyped
<1> QED
  BY <1>3, <1>5, <1>7, <1>8 DEF TypeInv, TypeOK, portal

LEMMA EndBackfillTyped ==
  ASSUME TypeInv, NEW s \in Syncs, EndBackfill(s)
  PROVE  TypeInv'
<1>1. fresh[s] \in SUBSET Notifs /\ pend[s] = {}
  BY DEF TypeInv, TypeOK, EndBackfill
<1>2. Upsert(s, fresh[s]) /\ UNCHANGED <<pend, sent>>
  BY DEF EndBackfill
<1>3. /\ db' = db \cup (fresh[s] \ Undated)
      /\ todo' = [todo EXCEPT ![s] = News(fresh[s])]
      /\ pc' = [pc EXCEPT ![s] = "fetch"]
  BY <1>2, UpsertIs
<1>4. News(fresh[s]) \in Seq(Work)
  BY <1>1, NewsTyped
<1>5. /\ todo' \in [Syncs -> Seq([row : Notifs, under : Notifs])]
      /\ pc' \in [Syncs -> {"off", "read", "backfill", "fetch"}]
      /\ OpenModals'
  BY <1>1, <1>2, <1>3, <1>4, ListTyped
<1>6. db' \in SUBSET Notifs
  BY <1>1, <1>3 DEF TypeInv, TypeOK
<1> QED
  BY <1>5, <1>6 DEF TypeInv, TypeOK, EndBackfill, history, portal

LEMMA OpenModalTyped ==
  ASSUME TypeInv, NEW s \in Syncs, OpenModal(s)
  PROVE  TypeInv'
<1>1. /\ pc[s] \in {"backfill", "fetch"} /\ todo[s] # <<>> /\ pend[s] = {}
      /\ UNCHANGED <<portal, tables, pc, since, page, fresh, sent, history, faults>>
      /\ \/ todo' = [todo EXCEPT ![s] = Tail(@)] /\ UNCHANGED pend
         \/ \E is \in SUBSET Idents :
              pend' = [pend EXCEPT ![s] = is] /\ UNCHANGED todo
  BY DEF OpenModal
<1>2. Tail(todo[s]) \in Seq(Work)
  BY <1>1, TodoTyped, TailEntries DEF TypeInv
<1>3. CASE todo' = [todo EXCEPT ![s] = Tail(@)] /\ UNCHANGED pend
  <2>1. todo' \in [Syncs -> Seq([row : Notifs, under : Notifs])]
    BY <1>2, <1>3 DEF TypeInv, TypeOK, Work
  <2>2. OpenModals'
    BY <1>1, <1>3 DEF TypeInv, TypeOK, OpenModals
  <2> QED
    BY <1>1, <1>3, <2>1, <2>2 DEF TypeInv, TypeOK, tables, history, portal
<1>4. CASE \E is \in SUBSET Idents :
             pend' = [pend EXCEPT ![s] = is] /\ UNCHANGED todo
  <2>1. pend' \in [Syncs -> SUBSET Idents]
    BY <1>4 DEF TypeInv, TypeOK
  <2>2. OpenModals'
    BY <1>1, <1>4 DEF TypeInv, TypeOK, OpenModals
  <2> QED
    BY <1>1, <1>4, <2>1, <2>2 DEF TypeInv, TypeOK, tables, history, portal
<1> QED
  BY <1>1, <1>3, <1>4

LEMMA FaultTyped ==
  ASSUME TypeInv, faults < MaxFaults, faults' = faults + 1
  PROVE  faults' \in 0..MaxFaults
  BY EngineAssumption DEF TypeInv, TypeOK

LEMMA ModalFailsTyped ==
  ASSUME TypeInv, NEW s \in Syncs, ModalFails(s)
  PROVE  TypeInv'
<1>1. Tail(todo[s]) \in Seq(Work)
  BY TodoTyped, TailEntries DEF TypeInv, ModalFails
<1>2. todo' \in [Syncs -> Seq([row : Notifs, under : Notifs])]
  BY <1>1 DEF TypeInv, TypeOK, ModalFails, Work
<1>3. OpenModals'
  BY DEF TypeInv, TypeOK, OpenModals, ModalFails
<1>4. faults' \in 0..MaxFaults
  BY FaultTyped DEF ModalFails
<1> QED
  BY <1>2, <1>3, <1>4 DEF TypeInv, TypeOK, ModalFails, tables, history, portal

\* A pending attachment belongs to the modal at the head of the list.
LEMMA PendingTyped ==
  ASSUME TypeInv, NEW s \in Syncs, NEW i \in pend[s]
  PROVE  /\ pc[s] \in {"backfill", "fetch"} /\ todo[s] # <<>>
         /\ Head(todo[s]) \in Work /\ i \in Idents
         /\ 1 \in DOMAIN todo[s] /\ Head(todo[s]) = todo[s][1]
<1>1. todo[s] # <<>> /\ pc[s] \in {"backfill", "fetch"} /\ i \in Idents
  BY DEF TypeInv, TypeOK, OpenModals
<1> QED
  BY <1>1, TodoTyped, TailEntries DEF TypeInv

LEMMA LeaveTyped ==
  ASSUME TypeInv, NEW s \in Syncs, NEW i \in pend[s], Leave(s, i), UNCHANGED pc
  PROVE  /\ todo' \in [Syncs -> Seq([row : Notifs, under : Notifs])]
         /\ pend' \in [Syncs -> SUBSET Idents]
         /\ sent' \in [Syncs -> SUBSET Idents]
         /\ OpenModals'
<1>1. todo[s] # <<>> /\ pc[s] \in {"backfill", "fetch"}
  BY PendingTyped
<1>2. Tail(todo[s]) \in Seq(Work)
  BY <1>1, TodoTyped, TailEntries DEF TypeInv
<1>3. todo' \in [Syncs -> Seq([row : Notifs, under : Notifs])]
  BY <1>2 DEF TypeInv, TypeOK, Leave, Work
<1>4. /\ pend' \in [Syncs -> SUBSET Idents]
      /\ sent' \in [Syncs -> SUBSET Idents]
  BY DEF TypeInv, TypeOK, Leave
<1>5. OpenModals'
  BY <1>1 DEF TypeInv, TypeOK, OpenModals, Leave
<1> QED
  BY <1>3, <1>4, <1>5

LEMMA UploadTyped ==
  ASSUME TypeInv, NEW s \in Syncs, Upload(s)
  PROVE  TypeInv'
<1> DEFINE d == Head(todo[s])
<1>1. PICK i \in pend[s] :
        /\ objects' = objects \cup {<<d.row, i>>}
        /\ sent' = [sent EXCEPT ![s] = {i}]
        /\ UNCHANGED <<portal, db, attachments, pc, since, page, fresh, todo, pend,
                       history, faults>>
  BY DEF Upload
<1>2. d \in Work /\ i \in Idents
  BY PendingTyped
<1>3. d.row \in Notifs
  BY <1>2 DEF Work
<1> HIDE DEF d
<1>4. objects' \subseteq Notifs \X Idents
  BY <1>1, <1>2, <1>3 DEF TypeInv, TypeOK
<1>5. sent' \in [Syncs -> SUBSET Idents]
  BY <1>1, <1>2 DEF TypeInv, TypeOK
<1>6. OpenModals'
  BY <1>1 DEF TypeInv, TypeOK, OpenModals
<1> QED
  BY <1>1, <1>4, <1>5, <1>6 DEF TypeInv, TypeOK, history, portal

\* The row that Create adds is that of the open modal.
LEMMA CreateIs ==
  ASSUME TypeInv, NEW s \in Syncs, Create(s)
  PROVE  \E i \in sent[s] \cap pend[s] :
           LET d == Head(todo[s])
           IN  /\ attachments' \in {attachments,
                                    attachments \cup {[under |-> d.under, of |-> d.row,
                                                       ident |-> i]}}
               /\ Leave(s, i)
               /\ UNCHANGED <<portal, db, objects, pc, since, page, fresh, history,
                              faults>>
<1>1. sent[s] \subseteq pend[s]
  BY DEF TypeInv, OpenModals
<1> QED
  BY <1>1 DEF Create

LEMMA CreateTyped ==
  ASSUME TypeInv, NEW s \in Syncs, Create(s)
  PROVE  TypeInv'
<1> DEFINE d == Head(todo[s])
<1>1. PICK i \in sent[s] \cap pend[s] :
        /\ attachments' \in {attachments,
                             attachments \cup {[under |-> d.under, of |-> d.row,
                                                ident |-> i]}}
        /\ Leave(s, i)
        /\ UNCHANGED <<portal, db, objects, pc, since, page, fresh, history, faults>>
  BY CreateIs
<1>2. d \in Work /\ i \in Idents
  BY PendingTyped
<1>3. d.row \in Notifs /\ d.under \in Notifs
  BY <1>2 DEF Work
<1> HIDE DEF d
<1>4. attachments' \subseteq [under : Notifs, of : Notifs, ident : Idents]
  BY <1>1, <1>2, <1>3 DEF TypeInv, TypeOK
<1>5. /\ todo' \in [Syncs -> Seq([row : Notifs, under : Notifs])]
      /\ pend' \in [Syncs -> SUBSET Idents]
      /\ sent' \in [Syncs -> SUBSET Idents]
      /\ OpenModals'
  BY <1>1, LeaveTyped
<1> QED
  BY <1>1, <1>4, <1>5 DEF TypeInv, TypeOK, history, portal

LEMMA DownloadFailsTyped ==
  ASSUME TypeInv, NEW s \in Syncs, DownloadFails(s)
  PROVE  TypeInv'
<1> DEFINE d == Head(todo[s])
<1>1. PICK i \in pend[s] :
        /\ faults < MaxFaults /\ faults' = faults + 1
        /\ objects' \in {objects, objects \cup {<<d.row, i>>}}
        /\ Leave(s, i)
        /\ UNCHANGED <<portal, db, attachments, pc, since, page, fresh, history>>
  BY DEF DownloadFails
<1>2. d \in Work /\ i \in Idents
  BY PendingTyped
<1>3. d.row \in Notifs
  BY <1>2 DEF Work
<1> HIDE DEF d
<1>4. objects' \subseteq Notifs \X Idents
  BY <1>1, <1>2, <1>3 DEF TypeInv, TypeOK
<1>5. /\ todo' \in [Syncs -> Seq([row : Notifs, under : Notifs])]
      /\ pend' \in [Syncs -> SUBSET Idents]
      /\ sent' \in [Syncs -> SUBSET Idents]
      /\ OpenModals'
  BY <1>1, LeaveTyped
<1>6. faults' \in 0..MaxFaults
  BY <1>1, FaultTyped
<1> QED
  BY <1>1, <1>4, <1>5, <1>6 DEF TypeInv, TypeOK, history, portal

LEMMA EndTyped ==
  ASSUME TypeInv, NEW s \in Syncs, End(s)
  PROVE  TypeInv'
<1>1. pc' \in [Syncs -> {"off", "read", "backfill", "fetch"}]
  BY DEF TypeInv, TypeOK, End
<1>2. OpenModals'
  BY DEF TypeInv, TypeOK, OpenModals, End, PageDone
<1> QED
  BY <1>1, <1>2 DEF TypeInv, TypeOK, End, tables, history, portal

LEMMA TurnTyped ==
  ASSUME TypeInv, NEW s \in Syncs, Turn(s)
  PROVE  TypeInv'
<1>1. pc' \in [Syncs -> {"off", "read", "backfill", "fetch"}]
  BY DEF TypeInv, TypeOK, Turn
<1>2. /\ page[s] \in Nat \ {0} /\ box \in 0..MaxBox /\ since[s] \in Nat
      /\ box - since[s] > page[s] * PageSize
  BY EngineAssumption DEF TypeInv, TypeOK, Turn, HasNext
<1>3. \A p \in Nat : p * PageSize >= p
  BY EngineAssumption
<1>4. page[s] + 1 \in 1..(MaxBox + 1)
  BY <1>2, <1>3, EngineAssumption
<1>5. page' \in [Syncs -> 1..(MaxBox + 1)]
  BY <1>4 DEF TypeInv, TypeOK, Turn
<1>6. OpenModals'
  BY DEF TypeInv, TypeOK, OpenModals, Turn, PageDone
<1> QED
  BY <1>1, <1>5, <1>6 DEF TypeInv, TypeOK, Turn, tables, history, portal

LEMMA TurnStaleTyped ==
  ASSUME TypeInv, NEW s \in Syncs, TurnStale(s)
  PROVE  TypeInv'
<1>1. pc' \in [Syncs -> {"off", "read", "backfill", "fetch"}]
  BY DEF TypeInv, TypeOK, TurnStale
<1>2. OpenModals'
  BY DEF TypeInv, TypeOK, OpenModals, TurnStale, PageDone
<1>3. faults' \in 0..MaxFaults
  BY FaultTyped DEF TurnStale
<1> QED
  BY <1>1, <1>2, <1>3 DEF TypeInv, TypeOK, TurnStale, tables, history, portal

LEMMA AbortTyped ==
  ASSUME TypeInv, NEW s \in Syncs, Abort(s)
  PROVE  TypeInv'
<1>1. /\ pc' \in [Syncs -> {"off", "read", "backfill", "fetch"}]
      /\ pend' \in [Syncs -> SUBSET Idents]
      /\ sent' \in [Syncs -> SUBSET Idents]
  BY DEF TypeInv, TypeOK, Abort
<1>2. todo' \in [Syncs -> Seq([row : Notifs, under : Notifs])]
  <2>1. <<>> \in Seq(Work)
    BY EmptySeq
  <2> QED
    BY <2>1 DEF TypeInv, TypeOK, Abort, Work
<1>3. OpenModals'
  BY DEF TypeInv, TypeOK, OpenModals, Abort
<1>4. faults' \in 0..MaxFaults
  BY FaultTyped DEF Abort
<1> QED
  BY <1>1, <1>2, <1>3, <1>4 DEF TypeInv, TypeOK, Abort, tables, history, portal

LEMMA StutterTyped ==
  ASSUME TypeInv, UNCHANGED vars
  PROVE  TypeInv'
  BY DEF TypeInv, TypeOK, OpenModals, vars, tables, local, history, portal

LEMMA TypeStep == TypeInv /\ [Next]_vars => TypeInv'
<1> SUFFICES ASSUME TypeInv, [Next]_vars
             PROVE  TypeInv'
  OBVIOUS
<1> QED
  BY ArriveTyped, AgeTyped, BeginTyped, ReadPageTyped, EndBackfillTyped,
     OpenModalTyped, UploadTyped, CreateTyped, EndTyped, TurnTyped, ModalFailsTyped, DownloadFailsTyped,
     TurnStaleTyped, AbortTyped, StutterTyped
     DEF Next, Walk

LEMMA Typed == Spec => []TypeInv
  BY TypeInit, TypeStep, PTL DEF Spec

\* Every variable of the engine keeps its type (sync_engine.py, run and
\* _iterate_pages), whatever interleaves and fails.
THEOREM TypeCorrect == Spec => []TypeOK
<1>1. TypeInv => TypeOK
  BY DEF TypeInv
<1> QED
  BY <1>1, Typed, PTL

-----------------------------------------------------------------------------
(* Attachments are backed, whatever fails and however syncs interleave.    *)

\* No list of modals gets an entry it had not.
KeepsWork ==
  \A t \in Syncs : \A j \in DOMAIN todo'[t] :
    \E i \in DOMAIN todo[t] : todo'[t][j] = todo[t][i]

\* Only reading a page and the end of a backfill touch SINOE_NOTIFICATION or
\* give a sync something to do.
Inserts(s) == ReadPage(s) \/ EndBackfill(s)

LEMMA TailKeepsWork ==
  ASSUME TypeInv, NEW s \in Syncs, todo[s] # <<>>,
         todo' = [todo EXCEPT ![s] = Tail(@)] \/ UNCHANGED todo
  PROVE  KeepsWork
<1>1. \A j \in DOMAIN Tail(todo[s]) : \E i \in DOMAIN todo[s] : Tail(todo[s])[j] = todo[s][i]
  BY TodoTyped, TailEntries DEF TypeInv
<1>2. DOMAIN todo = Syncs
  BY DEF TypeInv, TypeOK
<1>3. CASE todo' = [todo EXCEPT ![s] = Tail(@)]
  <2>1. todo'[s] = Tail(todo[s]) /\ \A t \in Syncs \ {s} : todo'[t] = todo[t]
    BY <1>2, <1>3
  <2>2. ASSUME NEW t \in Syncs, NEW j \in DOMAIN todo'[t]
        PROVE  \E i \in DOMAIN todo[t] : todo'[t][j] = todo[t][i]
    <3>1. CASE t = s
      BY <1>1, <2>1, <3>1
    <3>2. CASE t # s
      BY <2>1, <3>2
    <3> QED
      BY <3>1, <3>2
  <2> QED
    BY <2>2 DEF KeepsWork
<1>4. CASE UNCHANGED todo
  BY <1>4 DEF KeepsWork
<1> QED
  BY <1>3, <1>4

LEMMA LeaveKeepsWork ==
  ASSUME TypeInv, NEW s \in Syncs, NEW i \in pend[s], Leave(s, i)
  PROVE  KeepsWork
<1>1. todo[s] # <<>>
  BY PendingTyped
<1>2. todo' = [todo EXCEPT ![s] = Tail(@)] \/ todo' = [todo EXCEPT ![s] = @]
  BY DEF Leave
<1>3. todo = [todo EXCEPT ![s] = @]
  BY DEF TypeInv, TypeOK
<1> QED
  BY <1>1, <1>2, <1>3, TailKeepsWork

LEMMA OtherSteps ==
  ASSUME TypeInv, [Next]_vars, \A s \in Syncs : ~Inserts(s)
  PROVE  KeepsWork /\ UNCHANGED db
<1>1. CASE UNCHANGED <<db, todo>>
  BY <1>1 DEF KeepsWork
<1>2. CASE \E s \in Syncs : OpenModal(s) \/ ModalFails(s)
  <2>1. PICK s \in Syncs : OpenModal(s) \/ ModalFails(s)
    BY <1>2
  <2>2. todo[s] # <<>> /\ (todo' = [todo EXCEPT ![s] = Tail(@)] \/ UNCHANGED todo)
    BY <2>1 DEF OpenModal, ModalFails
  <2> QED
    BY <2>1, <2>2, TailKeepsWork DEF OpenModal, ModalFails, tables
<1>3. CASE \E s \in Syncs : Create(s) \/ DownloadFails(s)
  <2>1. PICK s \in Syncs : \E i \in pend[s] : Leave(s, i) /\ UNCHANGED db
    BY <1>3, CreateIs DEF DownloadFails
  <2> QED
    BY <2>1, LeaveKeepsWork
<1>4. CASE \E s \in Syncs : Abort(s)
  <2>1. PICK s \in Syncs : todo' = [todo EXCEPT ![s] = <<>>] /\ UNCHANGED db
    BY <1>4 DEF Abort, tables
  <2>2. todo'[s] = <<>> /\ \A t \in Syncs \ {s} : todo'[t] = todo[t]
    BY <2>1 DEF TypeInv, TypeOK
  <2> QED
    BY <2>1, <2>2 DEF KeepsWork
<1>5. ASSUME Arrive \/ Age \/ UNCHANGED vars
      PROVE  UNCHANGED <<db, todo>>
  BY <1>5 DEF Arrive, Age, vars, tables, local
<1>6. ASSUME NEW s \in Syncs, Begin(s) \/ Upload(s) \/ End(s) \/ Turn(s) \/ TurnStale(s)
      PROVE  UNCHANGED <<db, todo>>
  BY <1>6 DEF Begin, Upload, End, Turn, TurnStale, tables
<1> QED
  BY <1>1, <1>2, <1>3, <1>4, <1>5, <1>6 DEF Next, Walk, Inserts

\* What an inserting step does to the sync that takes it and to the database.
LEMMA InsertSteps ==
  ASSUME TypeInv, NEW s \in Syncs, Inserts(s)
  PROVE  /\ \A j \in DOMAIN todo'[s] : todo'[s][j].under \in db'
         /\ \A t \in Syncs \ {s} : todo'[t] = todo[t] /\ pc'[t] = pc[t]
         /\ db \subseteq db' /\ UNCHANGED <<attachments, objects, portal, faults, startBox>>
         /\ pc[s] # "off" /\ pc'[s] # "off"
<1> DEFINE new == Shown(s, page[s]) \ db
           missing == {n \in Shown(s, page[s]) : Missing(n)}
<1>0. DOMAIN todo = Syncs /\ DOMAIN pc = Syncs
  BY DEF TypeInv, TypeOK
<1>1. ASSUME NEW rows \in SUBSET Notifs, Upsert(s, rows)
      PROVE  /\ \A j \in DOMAIN todo'[s] : todo'[s][j].under \in db'
             /\ \A t \in Syncs \ {s} : todo'[t] = todo[t] /\ pc'[t] = pc[t]
             /\ db \subseteq db' /\ pc'[s] # "off"
  <2>1. /\ db' = db \cup (rows \ Undated)
        /\ todo' = [todo EXCEPT ![s] = News(rows)]
        /\ pc' = [pc EXCEPT ![s] = "fetch"]
    BY <1>1, UpsertIs
  <2>2. \A j \in DOMAIN News(rows) : News(rows)[j].under \in rows \ Undated
    BY NewsTyped
  <2> QED
    BY <1>0, <2>1, <2>2
<1>2. CASE EndBackfill(s)
  <2>1. fresh[s] \in SUBSET Notifs /\ Upsert(s, fresh[s])
    BY <1>2 DEF EndBackfill, TypeInv, TypeOK
  <2> QED
    BY <1>1, <1>2, <2>1 DEF EndBackfill, history
<1>3. CASE ReadPage(s)
  <2>1. page[s] \in Nat \ {0}
    BY EngineAssumption DEF TypeInv, TypeOK
  <2>2. new \in SUBSET Notifs /\ missing \in SUBSET Notifs /\ missing \subseteq db
    BY <2>1, ShownTyped DEF Missing, TypeInv
  <2>3. /\ pc[s] = "read"
        /\ UNCHANGED <<portal, attachments, objects, since, page, pend, sent,
                            startBox, faults>>
        /\ \/ /\ todo' = [todo EXCEPT ![s] = Gaps(missing)]
              /\ pc' = [pc EXCEPT ![s] = "backfill"]
              /\ UNCHANGED db
           \/ Upsert(s, new)
    BY <1>3, ReadPageIs
  <2> HIDE DEF new, missing
  <2>4. \A j \in DOMAIN Gaps(missing) : Gaps(missing)[j].under \in missing
    BY <2>2, GapsTyped
  <2>5. CASE /\ todo' = [todo EXCEPT ![s] = Gaps(missing)]
             /\ pc' = [pc EXCEPT ![s] = "backfill"]
             /\ UNCHANGED db
    BY <1>0, <2>2, <2>3, <2>4, <2>5
  <2>6. CASE Upsert(s, new)
    BY <1>1, <2>2, <2>3, <2>6
  <2> QED
    BY <2>3, <2>5, <2>6
<1> QED
  BY <1>2, <1>3 DEF Inserts

\* Every modal that is open or will be belongs to a row of the database.
WorkInserted ==
  \A s \in Syncs : \A j \in DOMAIN todo[s] : todo[s][j].under \in db

\* An attachment whose row is still to be made has its file in S3, under the key
\* of the open modal's notification.
SentStored ==
  \A s \in Syncs : \A i \in sent[s] : <<Head(todo[s]).row, i>> \in objects

BackedInv == AttachmentBacked /\ WorkInserted /\ SentStored

LEMMA WorkInsertedStep ==
  ASSUME TypeInv, WorkInserted, [Next]_vars
  PROVE  WorkInserted' /\ db \subseteq db'
<1>1. CASE \E s \in Syncs : Inserts(s)
  <2>1. PICK s \in Syncs : Inserts(s)
    BY <1>1
  <2>2. /\ \A j \in DOMAIN todo'[s] : todo'[s][j].under \in db'
        /\ \A t \in Syncs \ {s} : todo'[t] = todo[t]
        /\ db \subseteq db'
    BY <2>1, InsertSteps
  <2> QED
    BY <2>2 DEF WorkInserted
<1>2. CASE \A s \in Syncs : ~Inserts(s)
  <2>1. KeepsWork /\ UNCHANGED db
    BY <1>2, OtherSteps
  <2> QED
    BY <2>1 DEF KeepsWork, WorkInserted
<1> QED
  BY <1>1, <1>2

\* Attachment rows are added by Create alone, and files are never removed.
LEMMA AttachmentsStep ==
  ASSUME [Next]_vars
  PROVE  /\ objects \subseteq objects'
         /\ \/ UNCHANGED attachments
            \/ \E s \in Syncs : Create(s)
<1>1. CASE Arrive \/ Age \/ UNCHANGED vars
  BY <1>1 DEF Arrive, Age, vars, tables
<1>2. ASSUME NEW s \in Syncs, Inserts(s)
      PROVE  UNCHANGED <<objects, attachments>>
  BY <1>2 DEF Inserts, ReadPage, EndBackfill
<1>3. ASSUME NEW s \in Syncs,
             \/ Begin(s) \/ OpenModal(s) \/ ModalFails(s)
             \/ End(s) \/ Turn(s) \/ TurnStale(s) \/ Abort(s)
      PROVE  UNCHANGED <<objects, attachments>>
  BY <1>3 DEF Begin, OpenModal, ModalFails, End, Turn, TurnStale, Abort, tables
<1>4. ASSUME NEW s \in Syncs, DownloadFails(s) \/ Upload(s)
      PROVE  objects \subseteq objects' /\ UNCHANGED attachments
  BY <1>4 DEF DownloadFails, Upload
<1>5. ASSUME NEW s \in Syncs, Create(s)
      PROVE  objects \subseteq objects'
  BY <1>5 DEF Create
<1> QED
  BY <1>1, <1>2, <1>3, <1>4, <1>5 DEF Next, Walk, Inserts

\* While a file is uploaded and its row not yet made, the modal it came from stays
\* the open one.
LEMMA SentStoredStep ==
  ASSUME TypeInv, SentStored, [Next]_vars
  PROVE  SentStored'
<1>0. /\ objects \subseteq objects' /\ DOMAIN sent = Syncs /\ DOMAIN todo = Syncs
  BY AttachmentsStep DEF TypeInv, TypeOK
<1>1. ASSUME NEW s \in Syncs,
             \A t \in Syncs \ {s} : todo'[t] = todo[t] /\ sent'[t] = sent[t],
             \A i \in sent'[s] : <<Head(todo'[s]).row, i>> \in objects'
      PROVE  SentStored'
  BY <1>0, <1>1 DEF SentStored
<1>2. CASE UNCHANGED <<todo, sent>>
  BY <1>0, <1>2 DEF SentStored
<1>3. ASSUME NEW s \in Syncs, Upload(s)
      PROVE  SentStored'
  <2>1. PICK i \in pend[s] : /\ objects' = objects \cup {<<Head(todo[s]).row, i>>}
                             /\ sent' = [sent EXCEPT ![s] = {i}] /\ UNCHANGED todo
    BY <1>3 DEF Upload
  <2>2. sent'[s] = {i} /\ \A t \in Syncs \ {s} : sent'[t] = sent[t]
    BY <1>0, <2>1
  <2>3. \A k \in sent'[s] : <<Head(todo'[s]).row, k>> \in objects'
    BY <2>1, <2>2
  <2> QED
    BY <1>1, <2>1, <2>2, <2>3
<1>4. ASSUME NEW s \in Syncs, Create(s) \/ DownloadFails(s)
      PROVE  SentStored'
  <2>1. PICK i : Leave(s, i)
    BY <1>4 DEF Create, DownloadFails
  <2>2. /\ sent'[s] = {}
        /\ \A t \in Syncs \ {s} : todo'[t] = todo[t] /\ sent'[t] = sent[t]
    BY <1>0, <2>1 DEF Leave
  <2> QED
    BY <1>1, <2>2
<1>5. ASSUME NEW s \in Syncs, Abort(s)
      PROVE  SentStored'
  <2>1. /\ sent'[s] = {}
        /\ \A t \in Syncs \ {s} : todo'[t] = todo[t] /\ sent'[t] = sent[t]
    BY <1>0, <1>5 DEF Abort
  <2> QED
    BY <1>1, <2>1
<1>6. ASSUME NEW s \in Syncs, Inserts(s)
      PROVE  SentStored'
  <2>1. pend[s] = {} /\ UNCHANGED sent
    BY <1>6 DEF Inserts, ReadPage, EndBackfill, TypeInv, OpenModals
  <2>2. sent'[s] = {}
    BY <2>1 DEF TypeInv, OpenModals
  <2>3. \A t \in Syncs \ {s} : todo'[t] = todo[t]
    BY <1>6, InsertSteps
  <2> QED
    BY <1>1, <2>1, <2>2, <2>3
<1>7. ASSUME NEW s \in Syncs, OpenModal(s) \/ ModalFails(s)
      PROVE  SentStored'
  <2>1. pend[s] = {} /\ UNCHANGED sent
    BY <1>7 DEF OpenModal, ModalFails
  <2>2. sent'[s] = {}
    BY <2>1 DEF TypeInv, OpenModals
  <2>3. \A t \in Syncs \ {s} : todo'[t] = todo[t]
    BY <1>0, <1>7 DEF OpenModal, ModalFails
  <2> QED
    BY <1>1, <2>1, <2>2, <2>3
<1>8. ASSUME Arrive \/ Age \/ UNCHANGED vars
      PROVE  UNCHANGED <<todo, sent>>
  BY <1>8 DEF Arrive, Age, vars, local
<1>9. ASSUME NEW s \in Syncs, Begin(s) \/ End(s) \/ Turn(s) \/ TurnStale(s)
      PROVE  UNCHANGED <<todo, sent>>
  BY <1>9 DEF Begin, End, Turn, TurnStale
<1> QED
  BY <1>2, <1>3, <1>4, <1>5, <1>6, <1>7, <1>8, <1>9 DEF Next, Walk, Inserts

LEMMA BackedStep ==
  ASSUME TypeInv, BackedInv, [Next]_vars
  PROVE  BackedInv'
<1>1. WorkInserted' /\ db \subseteq db'
  BY WorkInsertedStep DEF BackedInv
<1>2. SentStored' /\ objects \subseteq objects'
  BY SentStoredStep, AttachmentsStep DEF BackedInv
<1>3. CASE UNCHANGED attachments
  BY <1>1, <1>2, <1>3 DEF BackedInv, AttachmentBacked
<1>4. CASE \E s \in Syncs : Create(s)
  <2>0. PICK s \in Syncs : Create(s)
    BY <1>4
  <2>1. PICK i \in sent[s] \cap pend[s] :
          attachments' \in {attachments,
                            attachments \cup
                              {[under |-> Head(todo[s]).under,
                                of |-> Head(todo[s]).row, ident |-> i]}}
    BY <2>0, CreateIs
  <2>2. 1 \in DOMAIN todo[s] /\ Head(todo[s]) = todo[s][1]
    BY PendingTyped
  <2>3. Head(todo[s]).under \in db /\ <<Head(todo[s]).row, i>> \in objects
    BY <2>2 DEF BackedInv, WorkInserted, SentStored
  <2>4. ASSUME NEW at \in attachments'
        PROVE  <<at.of, at.ident>> \in objects' /\ at.under \in db'
    <3>1. \/ at \in attachments
          \/ at = [under |-> Head(todo[s]).under, of |-> Head(todo[s]).row, ident |-> i]
      BY <2>1, <2>4
    <3> QED
      BY <1>1, <1>2, <2>3, <3>1 DEF BackedInv, AttachmentBacked
  <2> QED
    BY <1>1, <1>2, <2>4 DEF BackedInv, AttachmentBacked
<1> QED
  BY <1>3, <1>4, AttachmentsStep

\* An attachment row has its file in S3, uploaded before the row was created,
\* and hangs from a notification that was inserted (sync_engine.py:490-540), for
\* any number of syncs that overlap in any way, whatever fails.
THEOREM AttachmentsBacked == Spec => []AttachmentBacked
<1>1. Init => BackedInv
  BY DEF Init, BackedInv, AttachmentBacked, WorkInserted, SentStored
<1>2. TypeInv /\ BackedInv /\ [Next]_vars => BackedInv'
  BY BackedStep
<1>3. BackedInv => AttachmentBacked
  BY DEF BackedInv
<1> QED
  BY <1>1, <1>2, <1>3, Typed, PTL DEF Spec

-----------------------------------------------------------------------------
(* Attachments are filed under their own notification.                     *)

\* No two syncs of the account run at a time: what SyncDispatch's lock is for,
\* and gives as long as no sync outlasts its window.
NoOverlap == \A s, t \in Syncs : pc[s] # "off" /\ pc[t] # "off" => s = t

\* What a backfill has still to insert is in the database by nobody else.
NewsUnknown == \A s \in Syncs : pc[s] = "backfill" => fresh[s] \cap db = {}

OwnInv == IdsAligned /\ NewsUnknown /\ OwnAttachments

LEMMA NewsUnknownStep ==
  ASSUME TypeInv, NewsUnknown, NoOverlap, [Next]_vars
  PROVE  NewsUnknown'
<1>1. CASE \E s \in Syncs : Inserts(s)
  <2>1. PICK s \in Syncs : Inserts(s)
    BY <1>1
  <2>2. /\ \A t \in Syncs \ {s} : pc'[t] = pc[t]
        /\ pc[s] # "off"
    BY <2>1, InsertSteps
  <2>3. \A t \in Syncs \ {s} : pc'[t] # "backfill"
    BY <2>2 DEF NoOverlap
  <2>4. CASE EndBackfill(s)
    <3>1. pc' = [pc EXCEPT ![s] = "fetch"]
      BY <2>4, UpsertIs DEF EndBackfill
    <3>2. pc'[s] = "fetch"
      BY <3>1 DEF TypeInv, TypeOK
    <3> QED
      BY <2>3, <3>2 DEF NewsUnknown
  <2>5. CASE ReadPage(s)
    <3>1. /\ fresh' = [fresh EXCEPT ![s] = Shown(s, page[s]) \ db]
          /\ \/ UNCHANGED db
             \/ pc' = [pc EXCEPT ![s] = "fetch"]
      BY <2>5, ReadPageIs, UpsertIs
    <3>2. pc'[s] = "backfill" => fresh'[s] \cap db' = {}
      BY <3>1 DEF TypeInv, TypeOK
    <3> QED
      BY <2>3, <3>2 DEF NewsUnknown
  <2> QED
    BY <2>1, <2>4, <2>5 DEF Inserts
<1>2. CASE \A s \in Syncs : ~Inserts(s)
  <2>1. UNCHANGED db
    BY <1>2, OtherSteps
  <2>2. UNCHANGED <<pc, fresh>> \/ \E s \in Syncs :
          /\ \/ pc' = [pc EXCEPT ![s] = "read"]
             \/ pc' = [pc EXCEPT ![s] = "off"]
          /\ UNCHANGED fresh
    <3>1. CASE Arrive \/ Age \/ UNCHANGED vars
      BY <3>1 DEF Arrive, Age, vars, local
    <3>2. ASSUME NEW s \in Syncs,
                 \/ OpenModal(s) \/ ModalFails(s)
                 \/ Upload(s) \/ Create(s) \/ DownloadFails(s)
          PROVE  UNCHANGED <<pc, fresh>>
      BY <3>2 DEF OpenModal, ModalFails, Upload, Create, DownloadFails
    <3>3. ASSUME NEW s \in Syncs,
                 Begin(s) \/ End(s) \/ Turn(s) \/ TurnStale(s) \/ Abort(s)
          PROVE  /\ \/ pc' = [pc EXCEPT ![s] = "read"]
                    \/ pc' = [pc EXCEPT ![s] = "off"]
                 /\ UNCHANGED fresh
      BY <3>3 DEF Begin, End, Turn, TurnStale, Abort
    <3> QED
      BY <1>2, <3>1, <3>2, <3>3 DEF Next, Walk, Inserts
  <2>3. \A t \in Syncs : pc'[t] = "backfill" => pc[t] = "backfill" /\ fresh'[t] = fresh[t]
    BY <2>2 DEF TypeInv, TypeOK
  <2> QED
    BY <2>1, <2>3 DEF NewsUnknown
<1> QED
  BY <1>1, <1>2

LEMMA IdsAlignedStep ==
  ASSUME TypeInv, IdsAligned, NewsUnknown, [Next]_vars
  PROVE  IdsAligned'
<1>0. DOMAIN todo = Syncs
  BY DEF TypeInv, TypeOK
<1>1. CASE \E s \in Syncs : Inserts(s)
  <2>1. PICK s \in Syncs : Inserts(s)
    BY <1>1
  <2>2. \A t \in Syncs \ {s} : todo'[t] = todo[t]
    BY <2>1, InsertSteps
  <2>3. ASSUME NEW rows \in SUBSET Notifs, rows \cap db = {}, Upsert(s, rows)
        PROVE  \A j \in DOMAIN todo'[s] : todo'[s][j].under = todo'[s][j].row
    <3>1. todo'[s] = News(rows)
      BY <1>0, <2>3, UpsertIs
    <3> QED
      BY <2>3, <3>1, NewsTyped
  <2>4. CASE EndBackfill(s)
    <3>1. fresh[s] \in SUBSET Notifs /\ fresh[s] \cap db = {} /\ Upsert(s, fresh[s])
      BY <2>4 DEF EndBackfill, TypeInv, TypeOK, NewsUnknown
    <3> QED
      BY <2>2, <2>3, <3>1 DEF IdsAligned
  <2>5. CASE ReadPage(s)
    <3> DEFINE new == Shown(s, page[s]) \ db
               missing == {n \in Shown(s, page[s]) : Missing(n)}
    <3>1. page[s] \in Nat \ {0}
      BY EngineAssumption DEF TypeInv, TypeOK
    <3>2. new \in SUBSET Notifs /\ missing \in SUBSET Notifs /\ new \cap db = {}
      BY <3>1, ShownTyped DEF TypeInv
    <3>3. todo' = [todo EXCEPT ![s] = Gaps(missing)] \/ Upsert(s, new)
      BY <2>5, ReadPageIs
    <3> HIDE DEF new, missing
    <3>4. \A j \in DOMAIN Gaps(missing) : Gaps(missing)[j].under = Gaps(missing)[j].row
      BY <3>2, GapsTyped
    <3>5. \A j \in DOMAIN todo'[s] : todo'[s][j].under = todo'[s][j].row
      BY <1>0, <2>3, <3>2, <3>3, <3>4
    <3> QED
      BY <2>2, <3>5 DEF IdsAligned
  <2> QED
    BY <2>1, <2>4, <2>5 DEF Inserts
<1>2. CASE \A s \in Syncs : ~Inserts(s)
  <2>1. KeepsWork
    BY <1>2, OtherSteps
  <2> QED
    BY <2>1 DEF KeepsWork, IdsAligned
<1> QED
  BY <1>1, <1>2

LEMMA OwnAttachmentsStep ==
  ASSUME TypeInv, IdsAligned, OwnAttachments, [Next]_vars
  PROVE  OwnAttachments'
<1>1. CASE UNCHANGED attachments
  BY <1>1 DEF OwnAttachments
<1>2. CASE \E s \in Syncs : Create(s)
  <2>1. PICK s \in Syncs : Create(s)
    BY <1>2
  <2>2. PICK i \in sent[s] \cap pend[s] :
          attachments' \in {attachments,
                            attachments \cup
                              {[under |-> Head(todo[s]).under,
                                of |-> Head(todo[s]).row, ident |-> i]}}
    BY <2>1, CreateIs
  <2>3. 1 \in DOMAIN todo[s] /\ Head(todo[s]) = todo[s][1]
    BY PendingTyped
  <2>4. Head(todo[s]).under = Head(todo[s]).row
    BY <2>3 DEF IdsAligned
  <2> QED
    BY <2>2, <2>4 DEF OwnAttachments
<1> QED
  BY <1>1, <1>2, AttachmentsStep

\* Where no two syncs of the account run at a time, every attachment is filed
\* under the notification it was downloaded from: rows that are skipped, a
\* backfill between the reading of a page and its insert, failed downloads and
\* aborted syncs do not shift the ids that sync_engine.py:377-431 pairs with the
\* rows.  (Two syncs that overlap do: see IdsAligned in SyncEngine.)
THEOREM OwnUnlessOverlap == Spec /\ []NoOverlap => []OwnAttachments
<1>1. Init => OwnInv
  BY DEF Init, OwnInv, IdsAligned, NewsUnknown, OwnAttachments
<1>2. TypeInv /\ NoOverlap /\ OwnInv /\ [Next]_vars => OwnInv'
  BY NewsUnknownStep, IdsAlignedStep, OwnAttachmentsStep DEF OwnInv
<1>3. OwnInv => OwnAttachments
  BY DEF OwnInv
<1> QED
  BY <1>1, <1>2, <1>3, Typed, PTL DEF Spec

\* With one sync at most there is no overlap.
THEOREM OwnWhenSingle ==
  ASSUME NEW s0, Syncs = {s0}
  PROVE  Spec => []OwnAttachments
<1>1. TypeInv => NoOverlap
  BY DEF NoOverlap
<1> QED
  BY <1>1, Typed, OwnUnlessOverlap, PTL

-----------------------------------------------------------------------------
(* The early stop hides nothing.                                           *)

\* Below low, a known notification has only known ones, or undated, under it, down
\* to the oldest that came after from.
Closed(known, low, from) ==
  \A n \in known : n < low => \A k \in (from + 1)..n : k \in known \/ k \in Undated

\* From low upwards nothing dated that came after from is missing and was there
\* when the sync began, or is older than a known one.
Covered(known, low, from, began) ==
  \A k \in Notifs \ Undated :
    /\ k >= low /\ k > from
    /\ k <= began \/ \E n \in known : k <= n
    => k \in known

\* The rows that are in the database or will be before the sync does more.
Known(s) == db \cup (IF pc[s] = "backfill" THEN fresh[s] \ Undated ELSE {})

PagesRead(s) == IF pc[s] = "read" THEN page[s] - 1 ELSE page[s]

\* The oldest row the sync has seen: where a page was read, arrivals since have
\* not moved it.
Low(s) == box - arrived[s] - PagesRead(s) * PageSize + 1

\* The walk of a running sync splits the window at Low: above it everything is
\* known, below it what earlier syncs left, which has no gap.  A page without
\* news lies in that part, hence there is none at all.  Days that end while the
\* sync walks take nothing out of its own window.
WalkInv(s) ==
  /\ since[s] <= aged
  /\ Closed(Known(s), Low(s), since[s])
  /\ Covered(Known(s), Low(s), since[s], startBox[s])
  /\ pc[s] # "read" /\ fresh[s] = {} => Covered(Known(s), 1, since[s], startBox[s])

\* Without failures: between syncs the database has no gap in what the portal
\* still shows.
CompleteInv ==
  faults = 0 =>
    /\ \A s \in Syncs : pc[s] # "off" => WalkInv(s)
    /\ (\A s \in Syncs : pc[s] = "off") => Covered(db, 1, aged, 0)

\* One page: with less than a page of arrivals since the last read, it reaches
\* from below the oldest row seen up to it or beyond, so no row falls between
\* two pages, and a page of known rows meets the part that has no gap.
LEMMA OnePage ==
  ASSUME NEW known \in SUBSET Notifs, NEW last \in Int, NEW from \in Nat,
         NEW a \in Nat, a < PageSize, NEW began,
         NEW rows,
         rows = {n \in (from + 1)..last : n > last - PageSize},
         Closed(known, last - a + 1, from), Covered(known, last - a + 1, from, began)
  PROVE  /\ Closed(known \cup (rows \ Undated), last - PageSize + 1, from)
         /\ Covered(known \cup (rows \ Undated), last - PageSize + 1, from, began)
         /\ rows \subseteq known =>
              Covered(known \cup (rows \ Undated), 1, from, began)
<1> DEFINE more == known \cup (rows \ Undated)
<1>0. /\ PageSize \in Nat \ {0}
      /\ \A k \in Notifs : k \in Int /\ k >= 1
      /\ \A k : k \in rows <=> k \in Int /\ k > from /\ k <= last /\ k > last - PageSize
  BY EngineAssumption DEF Notifs
<1>1. ASSUME NEW n \in more, n < last - PageSize + 1, NEW k \in (from + 1)..n
      PROVE  k \in more \/ k \in Undated
  <2>1. n \in known
    BY <1>0, <1>1
  <2>2. n \in Int /\ n < last - a + 1
    BY <1>0, <1>1, <2>1
  <2> QED
    BY <2>1, <2>2 DEF Closed
<1>2. ASSUME NEW k \in Notifs \ Undated, k >= last - a + 1, k > from,
             k <= began \/ \E n \in more : k <= n
      PROVE  k \in more
  <2>1. k \in Int /\ k >= 1
    BY <1>0
  <2>2. CASE k \in rows
    BY <2>2
  <2>3. CASE k \notin rows
    <3>1. k > last
      BY <1>0, <1>2, <2>1, <2>3
    <3>2. k <= began \/ \E n \in known : k <= n
      BY <1>0, <1>2, <2>1, <3>1
    <3> QED
      BY <1>2, <3>2 DEF Covered
  <2> QED
    BY <2>2, <2>3
<1>3. ASSUME NEW k \in Notifs \ Undated, k >= last - PageSize + 1, k > from,
             k <= began \/ \E n \in more : k <= n
      PROVE  k \in more
  <2>1. k \in Int /\ k >= 1
    BY <1>0
  <2>2. k \in rows \/ k >= last - a + 1
    BY <1>0, <1>3, <2>1
  <2> QED
    BY <1>2, <1>3, <2>2
<1>4. ASSUME rows \subseteq known, NEW k \in Notifs \ Undated, k > from,
             k <= began \/ \E n \in more : k <= n
      PROVE  k \in more
  <2>1. k \in Int /\ k >= 1
    BY <1>0
  <2>2. CASE k >= last - PageSize + 1
    BY <1>3, <1>4, <2>2
  <2>3. CASE k < last - PageSize + 1
    <3>1. last - a \in rows
      BY <1>0, <1>4, <2>1, <2>3
    <3>2. last - a \in known /\ last - a < last - a + 1 /\ k \in (from + 1)..(last - a)
      BY <1>0, <1>4, <2>1, <2>3, <3>1
    <3> QED
      BY <3>2 DEF Closed
  <2> QED
    BY <1>0, <2>1, <2>2, <2>3
<1>5. Closed(more, last - PageSize + 1, from)
  BY <1>1 DEF Closed
<1>6. Covered(more, last - PageSize + 1, from, began)
  BY <1>3 DEF Covered
<1>7. rows \subseteq known => Covered(more, 1, from, began)
  BY <1>4 DEF Covered
<1> QED
  BY <1>5, <1>6, <1>7

\* A sync keeps its walk while it reads nothing; arrivals do not move it, nor do
\* days that end.
LEMMA SameWalk ==
  ASSUME TypeInv, TypeInv', NEW s \in Syncs, WalkInv(s),
         UNCHANGED db, startBox'[s] = startBox[s],
         box' - arrived'[s] = box - arrived[s], since'[s] = since[s], aged' >= aged,
         pc'[s] = pc[s], page'[s] = page[s], fresh'[s] = fresh[s]
  PROVE  WalkInv(s)'
<1>1. Known(s)' = Known(s)
  BY DEF Known
<1>2. PagesRead(s)' = PagesRead(s)
  BY DEF PagesRead
<1>3. Low(s)' = Low(s)
  BY <1>2 DEF Low
<1>4. since'[s] <= aged'
  BY EngineAssumption DEF TypeInv, TypeOK, WalkInv
<1> QED
  BY <1>1, <1>3, <1>4 DEF WalkInv

LEMMA ArriveWalk ==
  ASSUME TypeInv, TypeInv', CompleteInv, Arrive
  PROVE  CompleteInv'
<1>1. UNCHANGED <<aged, since, db, startBox, pc, page, fresh, faults>>
  BY DEF Arrive, tables, local
<1>2. ASSUME NEW s \in Syncs, pc[s] # "off", WalkInv(s)
      PROVE  WalkInv(s)'
  <2>1. box' = box + 1 /\ arrived'[s] = arrived[s] + 1
    BY <1>2 DEF Arrive
  <2>2. box \in Int /\ arrived[s] \in Int /\ aged \in Int
    BY EngineAssumption DEF TypeInv, TypeOK
  <2>3. box' - arrived'[s] = box - arrived[s] /\ aged' >= aged
    BY <1>1, <2>1, <2>2
  <2> QED
    BY <1>1, <1>2, <2>3, SameWalk
<1> QED
  BY <1>1, <1>2 DEF CompleteInv

\* What the portal no longer shows is not asked for.
LEMMA AgeWalk ==
  ASSUME TypeInv, TypeInv', CompleteInv, Age
  PROVE  CompleteInv'
<1>1. aged' = aged + 1 /\ UNCHANGED <<box, since, db, startBox, arrived, pc, page, fresh, faults>>
  BY DEF Age, tables, local, history
<1>2. aged \in Int /\ aged' >= aged
  BY <1>1, EngineAssumption DEF TypeInv, TypeOK
<1>3. ASSUME NEW s \in Syncs, WalkInv(s)
      PROVE  WalkInv(s)'
  BY <1>1, <1>2, <1>3, SameWalk
<1>4. ASSUME Covered(db, 1, aged, 0)
      PROVE  Covered(db, 1, aged', 0)
  <2>1. \A k \in Notifs : k > aged + 1 => k > aged
    BY <1>2, EngineAssumption DEF Notifs
  <2> QED
    BY <1>1, <1>4, <2>1 DEF Covered
<1> QED
  BY <1>1, <1>3, <1>4 DEF CompleteInv

\* Steps that leave alone what the walk is made of.
LEMMA IdleWalk ==
  ASSUME TypeInv, TypeInv', CompleteInv,
         UNCHANGED <<portal, since, db, pc, page, fresh, startBox, arrived, faults>>
  PROVE  CompleteInv'
<1>1. UNCHANGED <<box, aged>> /\ aged \in Int
  BY EngineAssumption DEF portal, TypeInv, TypeOK
<1>2. aged' >= aged
  BY <1>1
<1>3. ASSUME NEW s \in Syncs, WalkInv(s)
      PROVE  WalkInv(s)'
  BY <1>1, <1>2, <1>3, SameWalk
<1> QED
  BY <1>1, <1>3 DEF CompleteInv

LEMMA BeginWalk ==
  ASSUME TypeInv, TypeInv', NoOverlap', CompleteInv, NEW s \in Syncs, Begin(s)
  PROVE  CompleteInv'
<1>1. /\ pc[s] = "off" /\ pc' = [pc EXCEPT ![s] = "read"] /\ page'[s] = 1
      /\ since'[s] = aged /\ startBox'[s] = box /\ arrived'[s] = 0
      /\ UNCHANGED <<box, aged, db, faults>>
  BY DEF Begin, TypeInv, TypeOK, tables, portal
<1>2. pc'[s] = "read" /\ \A t \in Syncs \ {s} : pc'[t] = pc[t]
  BY <1>1 DEF TypeInv, TypeOK
<1>3. \A t \in Syncs \ {s} : pc[t] = "off" /\ pc'[t] = "off"
  BY <1>2 DEF NoOverlap
<1>4. ASSUME faults = 0
      PROVE  WalkInv(s)'
  <2>1. Covered(db, 1, aged, 0)
    BY <1>1, <1>3, <1>4 DEF CompleteInv
  <2>2. Known(s)' = db
    BY <1>1, <1>2 DEF Known
  <2>3. Low(s)' = box + 1 /\ box \in Nat
    BY <1>1, <1>2, EngineAssumption DEF Low, PagesRead, TypeInv, TypeOK
  <2>4. db \subseteq Notifs /\ aged \in Nat
    BY EngineAssumption DEF TypeInv, TypeOK
  <2>5. \A n \in db : \A k \in (aged + 1)..n :
          k \in Notifs /\ k >= 1 /\ k > aged /\ k <= n
    BY <2>4, EngineAssumption DEF Notifs
  <2>6. Closed(db, box + 1, aged)
    BY <2>1, <2>5 DEF Closed, Covered
  <2>7. ASSUME NEW k \in Notifs \ Undated, k >= box + 1, k > aged,
               k <= box \/ \E n \in db : k <= n
        PROVE  k \in db
    <3>1. k \in Int /\ k >= 1 /\ ~(k <= box)
      BY <2>3, <2>7, EngineAssumption DEF Notifs
    <3> QED
      BY <2>1, <2>7, <3>1 DEF Covered
  <2>8. Covered(db, box + 1, aged, box)
    BY <2>7 DEF Covered
  <2>9. aged <= aged'
    BY <1>1, <2>4
  <2> QED
    BY <1>1, <1>2, <2>2, <2>3, <2>6, <2>8, <2>9 DEF WalkInv
<1> QED
  BY <1>1, <1>2, <1>3, <1>4 DEF CompleteInv

LEMMA ReadPageWalk ==
  ASSUME Burst < PageSize, TypeInv, TypeInv', NoOverlap, CompleteInv,
         NEW s \in Syncs, ReadPage(s)
  PROVE  CompleteInv'
<1> DEFINE rows == Shown(s, page[s])
           skip == (page[s] - 1) * PageSize
           last == box - skip
<1>1. /\ pc[s] = "read" /\ fresh' = [fresh EXCEPT ![s] = rows \ db]
      /\ arrived' = [arrived EXCEPT ![s] = 0]
      /\ UNCHANGED <<box, aged, since, page, startBox, faults>>
      /\ \/ pc' = [pc EXCEPT ![s] = "backfill"] /\ UNCHANGED db
         \/ /\ db' = db \cup ((rows \ db) \ Undated)
            /\ pc' = [pc EXCEPT ![s] = "fetch"]
  BY ReadPageIs, UpsertIs DEF portal
<1>2. /\ pc'[s] \in {"backfill", "fetch"} /\ fresh'[s] = rows \ db /\ arrived'[s] = 0
      /\ \A t \in Syncs \ {s} : pc'[t] = pc[t]
  BY <1>1 DEF TypeInv, TypeOK
<1>3. \A t \in Syncs \ {s} : pc'[t] = "off"
  BY <1>1, <1>2 DEF NoOverlap
<1>4. Known(s)' = db \cup (rows \ Undated) /\ Known(s) = db
  BY <1>1, <1>2 DEF Known, TypeInv, TypeOK
<1>5. /\ box \in Nat /\ since[s] \in Nat /\ arrived[s] \in Nat /\ arrived[s] < PageSize
      /\ page[s] \in Nat \ {0} /\ PageSize \in Nat \ {0} /\ db \in SUBSET Notifs
  BY EngineAssumption DEF TypeInv, TypeOK
<1>6. skip \in Int /\ page[s] * PageSize = skip + PageSize
  BY <1>5
<1>7. Low(s) = box - arrived[s] - skip + 1
  BY <1>1 DEF Low, PagesRead
<1>8. Low(s)' = box - 0 - page[s] * PageSize + 1
  BY <1>1, <1>2 DEF Low, PagesRead
<1>9. rows = {n \in (since[s] + 1)..last : n > last - PageSize}
  BY DEF Shown
<1> HIDE DEF skip, rows
<1>10. last \in Int /\ Low(s) = last - arrived[s] + 1 /\ Low(s)' = last - PageSize + 1
  BY <1>5, <1>6, <1>7, <1>8
<1> HIDE DEF last
<1>11. ASSUME faults = 0
       PROVE  WalkInv(s)'
  <2>1. /\ since[s] <= aged
        /\ Closed(db, last - arrived[s] + 1, since[s])
        /\ Covered(db, last - arrived[s] + 1, since[s], startBox[s])
    BY <1>1, <1>4, <1>10, <1>11 DEF CompleteInv, WalkInv
  <2>2. /\ Closed(db \cup (rows \ Undated), last - PageSize + 1, since[s])
        /\ Covered(db \cup (rows \ Undated), last - PageSize + 1, since[s], startBox[s])
        /\ rows \subseteq db =>
             Covered(db \cup (rows \ Undated), 1, since[s], startBox[s])
    BY <1>5, <1>9, <1>10, <2>1, OnePage
  <2>3. fresh'[s] = {} => rows \subseteq db
    BY <1>2
  <2> QED
    BY <1>1, <1>4, <1>10, <2>1, <2>2, <2>3 DEF WalkInv
<1> QED
  BY <1>1, <1>2, <1>3, <1>11 DEF CompleteInv

LEMMA EndBackfillWalk ==
  ASSUME TypeInv, TypeInv', NoOverlap, CompleteInv, NEW s \in Syncs, EndBackfill(s)
  PROVE  CompleteInv'
<1>1. /\ pc[s] = "backfill" /\ pc' = [pc EXCEPT ![s] = "fetch"]
      /\ db' = db \cup (fresh[s] \ Undated)
      /\ UNCHANGED <<box, aged, since, page, fresh, startBox, arrived, faults>>
  BY UpsertIs DEF EndBackfill, history, portal
<1>2. pc'[s] = "fetch" /\ \A t \in Syncs \ {s} : pc'[t] = pc[t]
  BY <1>1 DEF TypeInv, TypeOK
<1>3. \A t \in Syncs \ {s} : pc'[t] = "off"
  BY <1>1, <1>2 DEF NoOverlap
<1>4. Known(s)' = Known(s) /\ Low(s)' = Low(s)
  BY <1>1, <1>2 DEF Known, Low, PagesRead
<1>5. WalkInv(s) => WalkInv(s)'
  BY <1>1, <1>2, <1>4 DEF WalkInv
<1> QED
  BY <1>1, <1>2, <1>3, <1>5 DEF CompleteInv

LEMMA TurnWalk ==
  ASSUME TypeInv, TypeInv', NoOverlap, CompleteInv, NEW s \in Syncs, Turn(s)
  PROVE  CompleteInv'
<1>1. /\ pc[s] = "fetch" /\ pc' = [pc EXCEPT ![s] = "read"]
      /\ page' = [page EXCEPT ![s] = @ + 1]
      /\ UNCHANGED <<box, aged, since, db, fresh, startBox, arrived, faults>>
  BY DEF Turn, PageDone, tables, history, portal
<1>2. /\ pc'[s] = "read" /\ page'[s] = page[s] + 1 /\ page[s] \in Int
      /\ \A t \in Syncs \ {s} : pc'[t] = pc[t]
  BY <1>1, EngineAssumption DEF TypeInv, TypeOK
<1>3. \A t \in Syncs \ {s} : pc'[t] = "off"
  BY <1>1, <1>2 DEF NoOverlap
<1>4. PagesRead(s)' = PagesRead(s)
  BY <1>1, <1>2 DEF PagesRead
<1>5. Known(s)' = Known(s) /\ Low(s)' = Low(s)
  BY <1>1, <1>2, <1>4 DEF Known, Low
<1>6. WalkInv(s) => WalkInv(s)'
  BY <1>1, <1>2, <1>5 DEF WalkInv
<1> QED
  BY <1>1, <1>2, <1>3, <1>6 DEF CompleteInv

\* A sync that ends, in a history without failures, has brought in all that its
\* window held when it began, and leaves no gap in it.
LEMMA EndCovers ==
  ASSUME TypeInv, CompleteInv, faults = 0, NEW s \in Syncs, End(s)
  PROVE  since[s] <= aged /\ Covered(db, 1, since[s], startBox[s])
<1>1. pc[s] = "fetch" /\ (fresh[s] = {} \/ ~HasNext(s, page[s]))
  BY DEF End, PageDone
<1>2. WalkInv(s) /\ Known(s) = db
  BY <1>1 DEF CompleteInv, Known
<1>3. CASE fresh[s] = {}
  BY <1>1, <1>2, <1>3 DEF WalkInv
<1>4. CASE ~HasNext(s, page[s])
  <2> DEFINE seen == page[s] * PageSize
  <2>1. ~(box - since[s] > seen) /\ seen \in Int /\ box \in Int /\ since[s] \in Int
    BY <1>4, EngineAssumption DEF HasNext, TypeInv, TypeOK
  <2>2. Low(s) = box - arrived[s] - seen + 1
    BY <1>1 DEF Low, PagesRead
  <2>3. arrived[s] \in Nat
    BY EngineAssumption DEF TypeInv, TypeOK
  <2> HIDE DEF seen
  <2>4. Low(s) \in Int /\ Low(s) <= since[s] + 1
    BY <2>1, <2>2, <2>3
  <2>5. \A k \in Notifs : k > since[s] => k >= Low(s)
    BY <2>1, <2>4, EngineAssumption DEF Notifs
  <2> QED
    BY <1>2, <2>5 DEF WalkInv, Covered
<1> QED
  BY <1>1, <1>3, <1>4

LEMMA EndWalk ==
  ASSUME TypeInv, TypeInv', NoOverlap, CompleteInv, NEW s \in Syncs, End(s)
  PROVE  CompleteInv'
<1>1. pc[s] = "fetch" /\ pc' = [pc EXCEPT ![s] = "off"] /\ UNCHANGED <<aged, db, faults>>
  BY DEF End, PageDone, tables, portal
<1>2. \A t \in Syncs : pc'[t] = "off"
  BY <1>1 DEF NoOverlap, TypeInv, TypeOK
<1>3. ASSUME faults = 0
      PROVE  Covered(db, 1, aged, 0)
  <2>1. since[s] <= aged /\ Covered(db, 1, since[s], startBox[s])
    BY <1>3, EndCovers
  <2>2. \A k \in Notifs : ~(k <= 0) /\ (k > aged => k > since[s])
    BY <2>1, EngineAssumption DEF Notifs, TypeInv, TypeOK
  <2> QED
    BY <2>1, <2>2 DEF Covered
<1> QED
  BY <1>1, <1>2, <1>3 DEF CompleteInv

LEMMA FaultWalk ==
  ASSUME TypeInv, faults' = faults + 1
  PROVE  CompleteInv'
  BY EngineAssumption DEF TypeInv, TypeOK, CompleteInv

LEMMA CompleteStep ==
  ASSUME Burst < PageSize, TypeInv, TypeInv', NoOverlap, NoOverlap', CompleteInv,
         [Next]_vars
  PROVE  CompleteInv'
<1>1. CASE Arrive \/ Age
  BY <1>1, ArriveWalk, AgeWalk
<1>2. ASSUME NEW s \in Syncs, Begin(s)
      PROVE  CompleteInv'
  BY <1>2, BeginWalk
<1>3. ASSUME NEW s \in Syncs, ReadPage(s)
      PROVE  CompleteInv'
  BY <1>3, ReadPageWalk
<1>4. ASSUME NEW s \in Syncs, EndBackfill(s)
      PROVE  CompleteInv'
  BY <1>4, EndBackfillWalk
<1>5. ASSUME NEW s \in Syncs, OpenModal(s) \/ Upload(s) \/ Create(s)
      PROVE  CompleteInv'
  <2>1. UNCHANGED <<portal, since, db, pc, page, fresh, startBox, arrived, faults>>
    BY <1>5 DEF OpenModal, Upload, Create, tables, history
  <2> QED
    BY <2>1, IdleWalk
<1>6. ASSUME NEW s \in Syncs, Turn(s)
      PROVE  CompleteInv'
  BY <1>6, TurnWalk
<1>7. ASSUME NEW s \in Syncs, End(s)
      PROVE  CompleteInv'
  BY <1>7, EndWalk
<1>8. ASSUME NEW s \in Syncs,
             ModalFails(s) \/ DownloadFails(s) \/ TurnStale(s) \/ Abort(s)
      PROVE  CompleteInv'
  <2>1. faults' = faults + 1
    BY <1>8 DEF ModalFails, DownloadFails, TurnStale, Abort
  <2> QED
    BY <2>1, FaultWalk
<1>9. CASE UNCHANGED vars
  <2>1. UNCHANGED <<portal, since, db, pc, page, fresh, startBox, arrived, faults>>
    BY <1>9 DEF vars, tables, local, history
  <2> QED
    BY <2>1, IdleWalk
<1> QED
  BY <1>1, <1>2, <1>3, <1>4, <1>5, <1>6, <1>7, <1>8, <1>9 DEF Next, Walk

\* The early stop of sync_engine.py:362-371 hides nothing of what the portal shows,
\* where no two syncs of the account run at a time, nothing has failed so far, and
\* less than a page arrives between two reads of a sync: a sync that ends has
\* brought in every dated notification that the portal's default window, its last
\* seven days, held when it began, for any casilla, window, page size and number
\* of syncs before it, and whatever leaves the window meanwhile.
THEOREM EarlyStopComplete ==
  ASSUME Burst < PageSize
  PROVE  Spec /\ []NoOverlap => CompleteAtEnd
<1>1. Init => CompleteInv
  <2>1. \A k \in Notifs : ~(k <= 0)
    BY EngineAssumption DEF Notifs
  <2> QED
    BY <2>1 DEF Init, CompleteInv, Covered
<1>2. /\ TypeInv /\ TypeInv' /\ NoOverlap /\ NoOverlap' /\ CompleteInv
      /\ [Next]_vars
      => CompleteInv'
  BY CompleteStep
<1>3. TypeInv /\ CompleteInv =>
        \A s \in Syncs :
          End(s) /\ faults = 0 => WasShown(s) \ Undated \subseteq db
  <2> SUFFICES ASSUME TypeInv, CompleteInv, NEW s \in Syncs, End(s), faults = 0,
                      NEW k \in WasShown(s) \ Undated
               PROVE  k \in db
    OBVIOUS
  <2>1. Covered(db, 1, since[s], startBox[s])
    BY EndCovers
  <2>2. k \in Notifs \ Undated /\ k >= 1 /\ k > since[s] /\ k <= startBox[s]
    BY EngineAssumption DEF TypeInv, TypeOK, Notifs, WasShown
  <2> QED
    BY <2>1, <2>2 DEF Covered
<1> QED
  BY <1>1, <1>2, <1>3, Typed, PTL DEF Spec, CompleteAtEnd

=============================================================================
