-------------------------- MODULE CaseFileMatching --------------------------
(***************************************************************************)
(* How notifications find their case file, and attachments their S3        *)
(* prefix.  bulk_upsert inserts new notifications in one transaction and   *)
(* links every unlinked notification of the customer in a second one; the  *)
(* sync then reads the links of its rows and builds the key of each        *)
(* attachment from what it read.  Syncs of other accounts, the backend     *)
(* that opens case files, and its own matching run in between.             *)
(***************************************************************************)
EXTENDS Naturals

CONSTANTS
  Syncs,          \* the syncs of different accounts that run at a time
  Notifications,
  CaseFiles,
  None,           \* not linked; no attachment
  Unmatched,      \* the S3 segment of attachments without a case file
  Casilla,        \* the notifications each sync's account can show
  Customer,       \* whose notification, or whose case file, it is
  Spelling,       \* its expediente number, as [number, dash]
  Dashes,         \* the dashes the SQL rewrites
  MaxFaults       \* bound: failed calls, aborted syncs, deletions

ASSUME MatchingAssumption ==
  /\ Casilla \in [Syncs -> SUBSET Notifications]
  /\ \A s, t \in Syncs : s # t => Casilla[s] \cap Casilla[t] = {}
  /\ \A s \in Syncs : \A n, m \in Casilla[s] : Customer[n] = Customer[m]
  /\ MaxFaults \in Nat
  /\ None \notin CaseFiles /\ Unmatched \notin CaseFiles /\ None # Unmatched

VARIABLES
  files,    \* JUDICIAL_CASE_FILE
  stored,   \* SINOE_NOTIFICATION
  deleted,  \* those with a deleted_at
  link,     \* judicial_case_file_id
  segment,  \* the case-file segment of the attachment's s3_key
  pc,       \* where each sync is
  batch,    \* the rows it is working on
  routes,   \* case_file_ids: the links it has read
  known,    \* the case files there were when its rows were linked (history)
  faults

tables == <<files, stored, deleted, link, segment>>
local == <<pc, batch, routes, known>>
vars == <<tables, local, faults>>

Fault == faults < MaxFaults /\ faults' = faults + 1

Goes(s, place) == pc' = [pc EXCEPT ![s] = place]

NoRoutes == [n \in Notifications |-> None]

Init ==
  /\ files = {} /\ stored = {} /\ deleted = {}
  /\ link = [n \in Notifications |-> None]
  /\ segment = [n \in Notifications |-> None]
  /\ pc = [s \in Syncs |-> "page"]
  /\ batch = [s \in Syncs |-> {}]
  /\ routes = [s \in Syncs |-> NoRoutes]
  /\ known = [s \in Syncs |-> {}]
  /\ faults = 0

-----------------------------------------------------------------------------
(* The matching UPDATE.                                                    *)

\* _normalize_sql: five Unicode dashes become the ASCII one.
Normalized(x) ==
  [Spelling[x] EXCEPT !.dash = IF @ \in Dashes THEN "ascii" ELSE @]

\* Mutant of Candidates: the join with CUSTOMER_HAS_BANK is left out.
MutCandidatesOfAnyone(n) == {f \in files : Normalized(f) = Normalized(n)}

\* The case files the joins find for a notification.
Candidates(n) ==
  {f \in files : Normalized(f) = Normalized(n) /\ Customer[f] = Customer[n]}

\* Mutant of Orphans: linked notifications are matched again.
MutOrphansLinked(c) == {n \in stored \ deleted : Customer[n] = c}

Orphans(c) ==
  {n \in stored \ deleted : Customer[n] = c /\ link[n] = None}

\* _MATCH_BULK_SQL: of several case files with the number, any one is taken.
LinkOrphans(c) ==
  LET found == {n \in Orphans(c) : Candidates(n) # {}}
  IN \E choice \in [found -> CaseFiles] :
       /\ \A n \in found : choice[n] \in Candidates(n)
       /\ link' = [n \in Notifications |->
                     IF n \in found THEN choice[n] ELSE link[n]]

-----------------------------------------------------------------------------
(* A sync.  A page gives it rows without attachments, new rows, or both.   *)

\* find_missing_attachments on the rows of the page that are known.
Backfill(s) ==
  /\ pc[s] = "page"
  /\ \E missing \in SUBSET {n \in Casilla[s] \cap stored : segment[n] = None} :
       /\ missing # {}
       /\ batch' = [batch EXCEPT ![s] = missing]
  /\ Goes(s, "route")
  /\ UNCHANGED <<tables, routes, known, faults>>

\* bulk_upsert, up to its first commit.
Insert(s) ==
  /\ pc[s] = "page"
  /\ \E new \in SUBSET (Casilla[s] \ stored) :
       /\ new # {}
       /\ stored' = stored \cup new
       /\ batch' = [batch EXCEPT ![s] = new]
  /\ Goes(s, "match")
  /\ UNCHANGED <<files, deleted, link, segment, routes, known, faults>>

\* Mutant of Match: the sync does not link what it inserted.
MutMatchSkipped(s) ==
  /\ pc[s] = "match"
  /\ known' = [known EXCEPT ![s] = files]
  /\ Goes(s, "route")
  /\ UNCHANGED <<tables, batch, routes, faults>>

\* bulk_upsert, its second transaction.
Match(s) ==
  /\ pc[s] = "match"
  /\ \E n \in batch[s] : LinkOrphans(Customer[n])
  /\ known' = [known EXCEPT ![s] = files]
  /\ Goes(s, "route")
  /\ UNCHANGED <<files, stored, deleted, segment, batch, routes, faults>>

\* get_case_file_ids.
ReadRoutes(s) ==
  /\ pc[s] = "route"
  /\ routes' = [routes EXCEPT ![s] =
                   [n \in Notifications |-> IF n \in batch[s] THEN link[n] ELSE None]]
  /\ Goes(s, "upload")
  /\ UNCHANGED <<tables, batch, known, faults>>

Leaves(s) ==
  /\ Goes(s, "page")
  /\ batch' = [batch EXCEPT ![s] = {}]
  /\ routes' = [routes EXCEPT ![s] = NoRoutes]
  /\ known' = [known EXCEPT ![s] = {}]

Done(s, n) ==
  \/ batch[s] = {n} /\ Leaves(s)
  \/ /\ batch[s] # {n}
     /\ batch' = [batch EXCEPT ![s] = @ \ {n}]
     /\ UNCHANGED <<pc, routes, known>>

\* build_attachment_key, upload_attachment and AttachmentRepository.create.
Upload(s) ==
  \E n \in batch[s] :
    /\ pc[s] = "upload"
    /\ segment' = [segment EXCEPT ![n] =
                     IF routes[s][n] = None THEN Unmatched ELSE routes[s][n]]
    /\ Done(s, n)
    /\ UNCHANGED <<files, stored, deleted, link, faults>>

\* The attachment fails and is left for a later backfill.
UploadFails(s) ==
  \E n \in batch[s] :
    /\ pc[s] = "upload"
    /\ Fault
    /\ Done(s, n)
    /\ UNCHANGED tables

\* The sync fails between two steps: what is committed stays.
Abort(s) ==
  /\ pc[s] # "page"
  /\ Fault
  /\ Leaves(s)
  /\ UNCHANGED tables

-----------------------------------------------------------------------------
(* The backend.                                                            *)

OpenCaseFile ==
  /\ \E f \in CaseFiles \ files : files' = files \cup {f}
  /\ UNCHANGED <<stored, deleted, link, segment, local, faults>>

\* match_orphan_notifications, or the same SQL in the backend.
MatchOrphanNotifications ==
  /\ \E n \in stored : LinkOrphans(Customer[n])
  /\ UNCHANGED <<files, stored, deleted, segment, local, faults>>

Delete ==
  /\ Fault
  /\ \E n \in stored \ deleted : deleted' = deleted \cup {n}
  /\ UNCHANGED <<files, stored, link, segment, local>>

-----------------------------------------------------------------------------
Step(s) == Backfill(s) \/ Insert(s) \/ Match(s) \/ ReadRoutes(s) \/ Upload(s)

Next ==
  \/ \E s \in Syncs : Step(s) \/ UploadFails(s) \/ Abort(s)
  \/ OpenCaseFile \/ MatchOrphanNotifications \/ Delete

Spec == Init /\ [][Next]_vars

-----------------------------------------------------------------------------
\* Every variable keeps its type, and only stored notifications have links,
\* attachments or deletion stamps.
TypeOK ==
  /\ files \subseteq CaseFiles
  /\ stored \subseteq Notifications
  /\ deleted \subseteq stored
  /\ link \in [Notifications -> CaseFiles \cup {None}]
  /\ segment \in [Notifications -> CaseFiles \cup {None, Unmatched}]
  /\ \A n \in Notifications \ stored : link[n] = None /\ segment[n] = None
  /\ pc \in [Syncs -> {"page", "match", "route", "upload"}]
  /\ batch \in [Syncs -> SUBSET stored]
  /\ \A s \in Syncs : batch[s] \subseteq Casilla[s]
  /\ routes \in [Syncs -> [Notifications -> CaseFiles \cup {None}]]
  /\ known \in [Syncs -> SUBSET files]
  /\ faults \in 0..MaxFaults

\* Nothing crosses customers: neither the link of a notification nor the S3
\* folder of its attachment is a case file of another customer, or of another
\* expediente.
NothingCrosses ==
  \A n \in Notifications : \A f \in {link[n], segment[n]} \cap CaseFiles :
    f \in files /\ Customer[f] = Customer[n] /\ Normalized(f) = Normalized(n)

\* An attachment in a case file's folder belongs to a notification linked to
\* that case file: the links a sync has read do not grow stale while it
\* downloads.
FolderMatchesLink ==
  \A n \in Notifications : segment[n] \in CaseFiles => link[n] = segment[n]

\* A notification that has its case file keeps it, however many case files
\* have its number and whoever matches.
LinkKept ==
  [][\A n \in Notifications : link[n] # None => link'[n] = link[n]]_vars

\* A new notification whose case file was there when the sync linked its rows
\* gets its attachment into that case file's folder with the first upload
\* (sync_engine.py:441-444), unless it was deleted meanwhile.
FirstUploadRouted ==
  [][\A s \in Syncs : \A n \in Notifications \ deleted :
       segment[n] = None /\ segment'[n] = Unmatched /\ n \in batch[s] =>
         known[s] \cap Candidates(n) = {}]_vars

=============================================================================
