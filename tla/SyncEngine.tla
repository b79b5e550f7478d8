----------------------------- MODULE SyncEngine -----------------------------
(***************************************************************************)
(* What one sync does to the database and to S3: SyncEngine walks the      *)
(* pages of the account's casilla, newest notification first, inserts the  *)
(* ones it does not know, and downloads their attachments; a page without  *)
(* news ends the walk.  It leaves the portal's date filter as it finds it, *)
(* so the pages hold the portal's default window, the last seven days.     *)
(*                                                                         *)
(* Notifications are numbered in their order of arrival, and a database    *)
(* row has the number of its notification.  Database calls do not await,   *)
(* so everything from reading a page to opening the first modal is one     *)
(* action.  Several syncs of one account can run at a time (SyncDispatch   *)
(* shows when), and new notifications arrive while they do.                *)
(***************************************************************************)
EXTENDS Integers, Sequences, FiniteSets

CONSTANTS
  Syncs,        \* the syncs of the account that may overlap
  MaxBox,       \* bound: notifications that ever arrive
  PageSize,     \* rows of one page of the bandeja
  Idents,       \* the attachments of each notification
  Undated,      \* notifications whose date does not parse
  Burst,        \* bound: arrivals between two page reads of one sync
  MaxFaults     \* bound: failed portal, S3 and database calls, aborted syncs

ASSUME EngineAssumption ==
  /\ MaxBox \in Nat /\ PageSize \in Nat \ {0}
  /\ Undated \subseteq 1..MaxBox
  /\ Burst \in Nat /\ MaxFaults \in Nat

VARIABLES
  box,          \* SINOE: notifications in the casilla, 1..box
  aged,         \* SINOE: those that are older than its default window, 1..aged
  db,           \* SINOE_NOTIFICATION
  attachments,  \* SINOE_NOTIFICATION_ATTACHMENT: filed under, really of, ident
  objects,      \* S3: the key is made of the real notification and the ident
  pc,           \* where each sync is
  since,        \* its date filter: it is shown what came after this one
  page,         \* the page the portal shows it
  fresh,        \* new_rows of that page, as a set
  todo,         \* rows whose modal it has still to open, with their row ids
  pend,         \* attachments of the open modal it has still to download
  sent,         \* the one of them whose file is in S3 and whose row is not made
  startBox,     \* the box when the sync began (history)
  arrived,      \* arrivals since the sync last read a page (history)
  faults        \* failures so far

Notifs == 1..MaxBox

tables == <<db, attachments, objects>>
portal == <<box, aged>>
local == <<pc, since, page, fresh, todo, pend, sent>>
history == <<startBox, arrived>>
vars == <<portal, tables, local, history, faults>>

Init ==
  /\ box \in 0..MaxBox /\ aged \in 0..box
  /\ db = {} /\ attachments = {} /\ objects = {}
  /\ pc = [s \in Syncs |-> "off"]
  /\ since = [s \in Syncs |-> 0]
  /\ page = [s \in Syncs |-> 1]
  /\ fresh = [s \in Syncs |-> {}]
  /\ todo = [s \in Syncs |-> <<>>]
  /\ pend = [s \in Syncs |-> {}]
  /\ sent = [s \in Syncs |-> {}]
  /\ startBox = [s \in Syncs |-> 0]
  /\ arrived = [s \in Syncs |-> 0]
  /\ faults = 0

-----------------------------------------------------------------------------
(* SINOE: the bandeja, newest first, PageSize rows at a time, from the     *)
(* first day of the filter on.                                             *)

\* The notifications of a set in the order of the bandeja.
NewestFirst(ns) ==
  [j \in 1..Cardinality(ns) |->
     CHOOSE n \in ns : Cardinality({m \in ns : m >= n}) = j]

\* Mutant of Shown: the filter lets through the last one before its first day.
MutShownDayBefore(s, p) ==
  LET last == box - (p - 1) * PageSize
  IN  {n \in since[s]..last : n > last - PageSize}

Shown(s, p) ==
  LET last == box - (p - 1) * PageSize
  IN  {n \in (since[s] + 1)..last : n > last - PageSize}

HasNext(s, p) == box - since[s] > p * PageSize

Arrive ==
  /\ box < MaxBox
  /\ \A s \in Syncs : pc[s] # "off" => arrived[s] < Burst
  /\ box' = box + 1
  /\ arrived' = [s \in Syncs |-> IF pc[s] = "off" THEN 0 ELSE arrived[s] + 1]
  /\ UNCHANGED <<aged, tables, local, startBox, faults>>

\* A day ends, and the oldest notification of the default window leaves it.
Age ==
  /\ aged < box
  /\ aged' = aged + 1
  /\ UNCHANGED <<box, tables, local, history, faults>>

-----------------------------------------------------------------------------
(* The sync.                                                               *)

\* run up to the first page: login, module, filter and page size are done.  The
\* dates of the form are those the portal filled in when it served the module.
Begin(s) ==
  /\ pc[s] = "off"
  /\ pc' = [pc EXCEPT ![s] = "read"]
  /\ since' = [since EXCEPT ![s] = aged]
  /\ page' = [page EXCEPT ![s] = 1]
  /\ startBox' = [startBox EXCEPT ![s] = box]
  /\ arrived' = [arrived EXCEPT ![s] = 0]
  /\ UNCHANGED <<portal, tables, fresh, todo, pend, sent, faults>>

\* find_missing_attachments: rows with no attachment at all.
Missing(n) == n \in db /\ \A at \in attachments : at.under # n

Row(n) == [row |-> n, under |-> n]

\* Mutant of Upsert: ids are zipped with all the rows, the skipped ones too.
MutUpsertUnaligned(s, rows) ==
  LET newIds == NewestFirst((rows \ Undated) \ db)
  IN  /\ db' = db \cup (rows \ Undated)
      /\ todo' = [todo EXCEPT ![s] =
                    [j \in DOMAIN newIds |-> [row |-> NewestFirst(rows)[j], under |-> newIds[j]]]]
      /\ pc' = [pc EXCEPT ![s] = "fetch"]

\* bulk_upsert and the pairing of its ids with the rows: rows without a date
\* and rows somebody inserted first get no id, and ids are handed out in order.
Upsert(s, rows) ==
  LET valid == NewestFirst(rows \ Undated)
      newIds == NewestFirst((rows \ Undated) \ db)
  IN  /\ db' = db \cup (rows \ Undated)
      /\ todo' = [todo EXCEPT ![s] =
                    [j \in DOMAIN newIds |-> [row |-> valid[j], under |-> newIds[j]]]]
      /\ pc' = [pc EXCEPT ![s] = "fetch"]

\* Mutant of ReadPage: attachments are looked after on pages with news only.
MutReadPageNoBackfill(s) ==
  LET rows == Shown(s, page[s])
      new == rows \ db
      missing == {n \in rows : Missing(n)}
  IN  /\ pc[s] = "read"
      /\ fresh' = [fresh EXCEPT ![s] = new]
      /\ IF new # {} /\ missing # {}
           THEN /\ todo' = [todo EXCEPT ![s] =
                              [j \in 1..Cardinality(missing) |-> Row(NewestFirst(missing)[j])]]
                /\ pc' = [pc EXCEPT ![s] = "backfill"]
                /\ UNCHANGED db
           ELSE Upsert(s, new)
      /\ arrived' = [arrived EXCEPT ![s] = 0]
      /\ UNCHANGED <<portal, attachments, objects, since, page, pend, sent,
                     startBox, faults>>

\* One turn of _iterate_pages up to its first await.
ReadPage(s) ==
  LET rows == Shown(s, page[s])
      new == rows \ db
      missing == {n \in rows : Missing(n)}
  IN  /\ pc[s] = "read"
      /\ fresh' = [fresh EXCEPT ![s] = new]
      /\ IF missing # {}
           THEN /\ todo' = [todo EXCEPT ![s] =
                              [j \in 1..Cardinality(missing) |-> Row(NewestFirst(missing)[j])]]
                /\ pc' = [pc EXCEPT ![s] = "backfill"]
                /\ UNCHANGED db
           ELSE Upsert(s, new)
      /\ arrived' = [arrived EXCEPT ![s] = 0]
      /\ UNCHANGED <<portal, attachments, objects, since, page, pend, sent,
                     startBox, faults>>

\* The last backfill is over: new rows are inserted, whatever became of the
\* database since find_existing_n_notifs.
EndBackfill(s) ==
  /\ pc[s] = "backfill" /\ todo[s] = <<>> /\ pend[s] = {}
  /\ Upsert(s, fresh[s])
  /\ UNCHANGED <<portal, attachments, objects, since, page, fresh, pend, sent,
                 history, faults>>

\* open_anexos_modal, list_anexos and existing_idents_for on the next row.
OpenModal(s) ==
  /\ pc[s] \in {"backfill", "fetch"} /\ todo[s] # <<>> /\ pend[s] = {}
  /\ LET known == {at.ident : at \in {x \in attachments :
                                        x.under = Head(todo[s]).under}}
     IN  IF Idents \subseteq known
           THEN /\ todo' = [todo EXCEPT ![s] = Tail(@)]
                /\ UNCHANGED pend
           ELSE /\ pend' = [pend EXCEPT ![s] = Idents \ known]
                /\ UNCHANGED todo
  /\ UNCHANGED <<portal, tables, pc, since, page, fresh, sent, history, faults>>

\* The modal does not open, or stays empty for all of list_anexos' retries.
ModalFails(s) ==
  /\ pc[s] \in {"backfill", "fetch"} /\ todo[s] # <<>> /\ pend[s] = {}
  /\ faults < MaxFaults
  /\ faults' = faults + 1
  /\ todo' = [todo EXCEPT ![s] = Tail(@)]
  /\ UNCHANGED <<portal, tables, pc, since, page, fresh, pend, sent, history>>

\* One attachment of the open modal is done with; the last one closes it.
Leave(s, i) ==
  /\ pend' = [pend EXCEPT ![s] = @ \ {i}]
  /\ sent' = [sent EXCEPT ![s] = {}]
  /\ todo' = [todo EXCEPT ![s] = IF pend[s] = {i} THEN Tail(@) ELSE @]

\* _download_one up to the end of its upload, which runs in a thread.
Upload(s) ==
  \E i \in pend[s] :
    /\ sent[s] = {}
    /\ objects' = objects \cup {<<Head(todo[s]).row, i>>}
    /\ sent' = [sent EXCEPT ![s] = {i}]
    /\ UNCHANGED <<portal, db, attachments, pc, since, page, fresh, todo, pend,
                   history, faults>>

\* The row is created.  If another sync has created it meanwhile there is a
\* second one, or an error that is logged: a comment speaks of a UNIQUE key on
\* the table, and its model declares none.
Create(s) ==
  \E i \in sent[s] :
    LET d == Head(todo[s])
    IN  /\ \/ attachments' = attachments \cup
                              {[under |-> d.under, of |-> d.row, ident |-> i]}
           \/ /\ \E x \in attachments : x.under = d.under /\ x.ident = i
              /\ UNCHANGED attachments
        /\ Leave(s, i)
        /\ UNCHANGED <<portal, db, objects, pc, since, page, fresh, history,
                       faults>>

\* Mutant of DownloadFails: the row is created before the upload that fails.
MutDownloadFailsAfterRow(s) ==
  \E i \in pend[s] :
    LET d == Head(todo[s])
    IN  /\ sent[s] \subseteq {i}
        /\ faults < MaxFaults
        /\ faults' = faults + 1
        /\ attachments' = attachments \cup
                            {[under |-> d.under, of |-> d.row, ident |-> i]}
        /\ Leave(s, i)
        /\ UNCHANGED <<portal, db, objects, pc, since, page, fresh, history>>

\* The download, the upload or the insert fails: the error is logged and the
\* next attachment is tried.
DownloadFails(s) ==
  \E i \in pend[s] :
    /\ sent[s] \subseteq {i}
    /\ faults < MaxFaults
    /\ faults' = faults + 1
    /\ \/ UNCHANGED objects
       \/ objects' = objects \cup {<<Head(todo[s]).row, i>>}
    /\ Leave(s, i)
    /\ UNCHANGED <<portal, db, attachments, pc, since, page, fresh, history>>

PageDone(s) == pc[s] = "fetch" /\ todo[s] = <<>> /\ pend[s] = {}

\* Mutant of End: one known row is enough to stop.
MutEndOnKnownRow(s) ==
  /\ PageDone(s)
  /\ Cardinality(fresh[s]) < PageSize \/ ~HasNext(s, page[s])
  /\ pc' = [pc EXCEPT ![s] = "off"]
  /\ UNCHANGED <<portal, tables, since, page, fresh, todo, pend, sent, history,
                 faults>>

\* A page without news, or the last page, ends the sync.
End(s) ==
  /\ PageDone(s)
  /\ fresh[s] = {} \/ ~HasNext(s, page[s])
  /\ pc' = [pc EXCEPT ![s] = "off"]
  /\ UNCHANGED <<portal, tables, since, page, fresh, todo, pend, sent, history,
                 faults>>

Turn(s) ==
  /\ PageDone(s)
  /\ fresh[s] # {} /\ HasNext(s, page[s])
  /\ page' = [page EXCEPT ![s] = @ + 1]
  /\ pc' = [pc EXCEPT ![s] = "read"]
  /\ UNCHANGED <<portal, tables, since, fresh, todo, pend, sent, history, faults>>

\* go_to_next_page gives up waiting for the portal and returns True: the same
\* page is read again.
TurnStale(s) ==
  /\ PageDone(s)
  /\ fresh[s] # {} /\ HasNext(s, page[s])
  /\ faults < MaxFaults
  /\ faults' = faults + 1
  /\ pc' = [pc EXCEPT ![s] = "read"]
  /\ UNCHANGED <<portal, tables, since, page, fresh, todo, pend, sent, history>>

\* An error outside the downloads, a cancelled worker or a killed process; or a
\* page whose table is not there, which ends the walk as if it were over.
Abort(s) ==
  /\ pc[s] # "off"
  /\ faults < MaxFaults
  /\ faults' = faults + 1
  /\ pc' = [pc EXCEPT ![s] = "off"]
  /\ todo' = [todo EXCEPT ![s] = <<>>]
  /\ pend' = [pend EXCEPT ![s] = {}]
  /\ sent' = [sent EXCEPT ![s] = {}]
  /\ UNCHANGED <<portal, tables, since, page, fresh, history>>

-----------------------------------------------------------------------------
Walk(s) ==
  \/ ReadPage(s) \/ EndBackfill(s)
  \/ OpenModal(s) \/ Upload(s) \/ Create(s)
  \/ End(s) \/ Turn(s)

Next ==
  \/ Arrive \/ Age
  \/ \E s \in Syncs :
       \/ Begin(s) \/ Walk(s)
       \/ ModalFails(s) \/ DownloadFails(s) \/ TurnStale(s) \/ Abort(s)

Spec == Init /\ [][Next]_vars

\* The scheduler keeps starting syncs, and a running one is not left alone.
Fairness == \A s \in Syncs : WF_vars(Begin(s)) /\ WF_vars(Walk(s))

FairSpec == Spec /\ Fairness

-----------------------------------------------------------------------------
\* Every variable keeps its type.
TypeOK ==
  /\ box \in 0..MaxBox
  /\ aged \in 0..MaxBox
  /\ db \subseteq Notifs
  /\ attachments \subseteq [under : Notifs, of : Notifs, ident : Idents]
  /\ objects \subseteq Notifs \X Idents
  /\ pc \in [Syncs -> {"off", "read", "backfill", "fetch"}]
  /\ since \in [Syncs -> 0..MaxBox]
  /\ page \in [Syncs -> 1..(MaxBox + 1)]
  /\ fresh \in [Syncs -> SUBSET Notifs]
  /\ todo \in [Syncs -> Seq([row : Notifs, under : Notifs])]
  /\ pend \in [Syncs -> SUBSET Idents]
  /\ sent \in [Syncs -> SUBSET Idents]
  /\ startBox \in [Syncs -> 0..MaxBox]
  /\ arrived \in [Syncs -> 0..Burst]
  /\ faults \in 0..MaxFaults

\* What the portal's default window held when the sync began.
WasShown(s) == (since[s] + 1)..startBox[s]

\* A sync that ends by itself, in a history without failures, has brought in
\* everything the portal's default window held when it began: early stop never
\* hides an older page of it, as long as less than a page arrives between two
\* reads.  What had left the window before is not brought in, by this sync or
\* by any later one.
CompleteAtEnd ==
  [][\A s \in Syncs :
       End(s) /\ faults = 0 => WasShown(s) \ Undated \subseteq db]_vars

\* Every attachment row, and the notification row it hangs from, is backed: the
\* file is in S3 under its own key, and the notification was inserted before.
AttachmentBacked ==
  \A at \in attachments : <<at.of, at.ident>> \in objects /\ at.under \in db

\* An attachment is filed under the notification it was downloaded from.
OwnAttachments == \A at \in attachments : at.under = at.of

\* A notification on the first page that has no attachment gets one, is pushed
\* off the page, or leaves the portal's default window: the next syncs repair a
\* modal that did not open.
BackfillRepairs ==
  \A n \in Notifs :
    (n \in db /\ Missing(n)) ~> (~Missing(n) \/ n <= box - PageSize \/ n <= aged)

-----------------------------------------------------------------------------
(* What comments and docs say, and the code does not do.                   *)

\* sync_engine.py:362-363: if nothing on a page was new, nothing on the older
\* pages is.
EarlyStopSound ==
  [][\A s \in Syncs :
       End(s) /\ fresh[s] = {} => WasShown(s) \ Undated \subseteq db]_vars

\* sync_engine.py:353-355: the next sync retries an attachment whose row is
\* missing.
AttachmentsRetried ==
  \A n \in Notifs, i \in Idents :
    n \in db ~> \/ \E at \in attachments : at.under = n /\ at.ident = i
                \/ n <= box - PageSize \/ n <= aged

\* sync_engine.py:378-380: the ids are aligned one to one with the rows, also
\* when another sync inserts first.
IdsAligned == \A s \in Syncs : \A j \in DOMAIN todo[s] :
                todo[s][j].under = todo[s][j].row

=============================================================================
