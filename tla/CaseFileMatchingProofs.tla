------------------------ MODULE CaseFileMatchingProofs ------------------------
(***************************************************************************)
(* Whatever the accounts, customers, case files and spellings: links stay  *)
(* what they are, and folders agree with them.  The invariant adds to the  *)
(* checked properties that the links a sync has read are still those of    *)
(* the table when it builds its keys.                                      *)
(***************************************************************************)
EXTENDS CaseFileMatching, TLAPS

\* The links a sync has read are not stale.
RoutesCurrent ==
  \A s \in Syncs, n \in Notifications : routes[s][n] # None => routes[s][n] = link[n]

IInv == TypeOK /\ RoutesCurrent /\ NothingCrosses /\ FolderMatchesLink

-----------------------------------------------------------------------------
\* The matching UPDATE leaves links alone that are there, and adds only case
\* files of the same customer and expediente.
LEMMA LinkOrphansKeeps ==
  ASSUME TypeOK, NEW c, LinkOrphans(c)
  PROVE  /\ link' \in [Notifications -> CaseFiles \cup {None}]
         /\ \A n \in Notifications : link[n] # None => link'[n] = link[n]
         /\ \A n \in Notifications :
              link'[n] = link[n] \/ (n \in stored /\ link'[n] \in Candidates(n))
<1> DEFINE found == {n \in Orphans(c) : Candidates(n) # {}}
<1>1. PICK choice \in [found -> CaseFiles] :
        /\ \A n \in found : choice[n] \in Candidates(n)
        /\ link' = [n \in Notifications |->
                      IF n \in found THEN choice[n] ELSE link[n]]
  BY DEF LinkOrphans
<1>2. \A n \in found : n \in stored /\ link[n] = None
  BY DEF Orphans
<1>3. \A n \in Notifications : link[n] \in CaseFiles \cup {None}
  BY DEF TypeOK
<1> HIDE DEF found
<1>4. link' \in [Notifications -> CaseFiles \cup {None}]
  BY <1>1, <1>3
<1>5. \A n \in Notifications : link[n] # None => link'[n] = link[n]
  BY <1>1, <1>2
<1>6. \A n \in Notifications :
        link'[n] = link[n] \/ (n \in stored /\ link'[n] \in Candidates(n))
  BY <1>1, <1>2
<1> QED
  BY <1>4, <1>5, <1>6

\* A step that changes no segment and links as the UPDATE does keeps folders and
\* links in agreement.
LEMMA LinkingPreserves ==
  ASSUME MatchingAssumption, IInv,
         UNCHANGED <<files, stored, segment>>,
         \A n \in Notifications : link[n] # None => link'[n] = link[n],
         \A n \in Notifications :
           link'[n] = link[n] \/ (n \in stored /\ link'[n] \in Candidates(n))
  PROVE  NothingCrosses' /\ FolderMatchesLink'
<1>1. NothingCrosses'
  <2>1. ASSUME NEW n \in Notifications,
               NEW f \in {link'[n], segment'[n]} \cap CaseFiles
        PROVE  f \in files /\ Customer[f] = Customer[n] /\ Normalized(f) = Normalized(n)
    <3>1. CASE f \in {link[n], segment[n]}
      BY <2>1, <3>1 DEF IInv, NothingCrosses
    <3>2. CASE f \notin {link[n], segment[n]}
      <4>1. f \in Candidates(n)
        BY <2>1, <3>2
      <4> QED
        BY <4>1 DEF Candidates
    <3> QED
      BY <3>1, <3>2
  <2> QED
    BY <2>1 DEF NothingCrosses, Normalized
<1>2. FolderMatchesLink'
  BY DEF FolderMatchesLink, IInv, MatchingAssumption
<1> QED
  BY <1>1, <1>2

LEMMA InitHolds == ASSUME MatchingAssumption, Init PROVE IInv
<1>1. TypeOK
  BY DEF Init, TypeOK, NoRoutes, MatchingAssumption
<1>2. RoutesCurrent
  BY DEF Init, RoutesCurrent, NoRoutes
<1>3. NothingCrosses
  BY DEF Init, NothingCrosses, MatchingAssumption
<1>4. FolderMatchesLink
  BY DEF Init, FolderMatchesLink, MatchingAssumption
<1> QED
  BY <1>1, <1>2, <1>3, <1>4 DEF IInv

-----------------------------------------------------------------------------
(* One lemma per action that changes a table.                              *)

LEMMA RoutesDrop ==
  ASSUME TypeOK, RoutesCurrent, NEW s \in Syncs, Leaves(s), UNCHANGED link
  PROVE  RoutesCurrent'
<1>1. routes' = [routes EXCEPT ![s] = NoRoutes] /\ link' = link
  BY DEF Leaves
<1>2. \A t \in Syncs : routes'[t] = routes[t] \/ routes'[t] = NoRoutes
  BY <1>1 DEF TypeOK
<1>3. \A n \in Notifications : NoRoutes[n] = None
  BY DEF NoRoutes
<1> QED
  BY <1>1, <1>2, <1>3 DEF RoutesCurrent

LEMMA LeavesTyped ==
  ASSUME TypeOK, NEW s \in Syncs, Leaves(s), UNCHANGED <<files, stored>>
  PROVE  /\ pc' \in [Syncs -> {"page", "match", "route", "upload"}]
         /\ batch' \in [Syncs -> SUBSET stored']
         /\ \A t \in Syncs : batch'[t] \subseteq Casilla[t]
         /\ routes' \in [Syncs -> [Notifications -> CaseFiles \cup {None}]]
         /\ known' \in [Syncs -> SUBSET files']
<1>1. NoRoutes \in [Notifications -> CaseFiles \cup {None}]
  BY DEF NoRoutes
<1>2. \A t \in Syncs : batch'[t] = batch[t] \/ batch'[t] = {}
  BY DEF Leaves, TypeOK
<1>3. pc' \in [Syncs -> {"page", "match", "route", "upload"}]
  BY DEF Leaves, Goes, TypeOK
<1>4. routes' \in [Syncs -> [Notifications -> CaseFiles \cup {None}]]
  BY <1>1 DEF Leaves, TypeOK
<1>5. known' \in [Syncs -> SUBSET files']
  BY DEF Leaves, TypeOK
<1>6. batch' \in [Syncs -> SUBSET stored'] /\ \A t \in Syncs : batch'[t] \subseteq Casilla[t]
  BY <1>2 DEF Leaves, TypeOK
<1> QED
  BY <1>3, <1>4, <1>5, <1>6

LEMMA FaultTyped ==
  ASSUME MatchingAssumption, TypeOK, Fault
  PROVE  faults' \in 0..MaxFaults
BY DEF MatchingAssumption, TypeOK, Fault

LEMMA BackfillPreserves ==
  ASSUME IInv, NEW s \in Syncs, Backfill(s)
  PROVE  IInv'
<1>1. TypeOK'
  BY DEF IInv, TypeOK, Backfill, Goes, tables
<1>2. RoutesCurrent' /\ NothingCrosses' /\ FolderMatchesLink'
  BY DEF IInv, RoutesCurrent, NothingCrosses, FolderMatchesLink, Normalized,
         Backfill, tables
<1> QED
  BY <1>1, <1>2 DEF IInv

LEMMA InsertPreserves ==
  ASSUME MatchingAssumption, IInv, NEW s \in Syncs, Insert(s)
  PROVE  IInv'
<1>1. PICK new \in SUBSET (Casilla[s] \ stored) :
        /\ stored' = stored \cup new
        /\ batch' = [batch EXCEPT ![s] = new]
  BY DEF Insert
<1>2. Casilla[s] \subseteq Notifications
  BY DEF MatchingAssumption
<1>3. TypeOK'
  BY <1>1, <1>2 DEF IInv, TypeOK, Insert, Goes
<1>4. RoutesCurrent' /\ NothingCrosses' /\ FolderMatchesLink'
  BY DEF IInv, RoutesCurrent, NothingCrosses, FolderMatchesLink, Normalized, Insert
<1> QED
  BY <1>3, <1>4 DEF IInv

LEMMA MatchPreserves ==
  ASSUME MatchingAssumption, IInv, NEW s \in Syncs, Match(s)
  PROVE  IInv'
<1>1. PICK n \in batch[s] : LinkOrphans(Customer[n])
  BY DEF Match
<1>2. /\ link' \in [Notifications -> CaseFiles \cup {None}]
      /\ \A m \in Notifications : link[m] # None => link'[m] = link[m]
      /\ \A m \in Notifications :
           link'[m] = link[m] \/ (m \in stored /\ link'[m] \in Candidates(m))
  BY <1>1, LinkOrphansKeeps DEF IInv
<1>3. TypeOK'
  BY <1>2 DEF IInv, TypeOK, Match, Goes
<1>4. RoutesCurrent'
  BY <1>2 DEF IInv, RoutesCurrent, Match
<1>5. NothingCrosses' /\ FolderMatchesLink'
  BY <1>2, LinkingPreserves DEF Match
<1> QED
  BY <1>3, <1>4, <1>5 DEF IInv

LEMMA ReadRoutesPreserves ==
  ASSUME IInv, NEW s \in Syncs, ReadRoutes(s)
  PROVE  IInv'
<1> DEFINE read == [n \in Notifications |-> IF n \in batch[s] THEN link[n] ELSE None]
<1>1. routes' = [routes EXCEPT ![s] = read] /\ link' = link
  BY DEF ReadRoutes, tables
<1>2. read \in [Notifications -> CaseFiles \cup {None}]
  BY DEF IInv, TypeOK
<1>3. \A n \in Notifications : read[n] # None => read[n] = link[n]
  OBVIOUS
<1> HIDE DEF read
<1>4. \A t \in Syncs : routes'[t] = routes[t] \/ routes'[t] = read
  BY <1>1 DEF IInv, TypeOK
<1>5. TypeOK'
  BY <1>1, <1>2 DEF IInv, TypeOK, ReadRoutes, Goes, tables
<1>6. RoutesCurrent'
  BY <1>1, <1>3, <1>4 DEF IInv, RoutesCurrent
<1>7. NothingCrosses' /\ FolderMatchesLink'
  BY DEF IInv, NothingCrosses, FolderMatchesLink, Normalized, ReadRoutes, tables
<1> QED
  BY <1>5, <1>6, <1>7 DEF IInv

\* The part of a state that Done and Leaves write.
LEMMA DoneTyped ==
  ASSUME TypeOK, RoutesCurrent, NEW s \in Syncs, NEW n, Done(s, n),
         UNCHANGED <<files, stored, link>>
  PROVE  /\ pc' \in [Syncs -> {"page", "match", "route", "upload"}]
         /\ batch' \in [Syncs -> SUBSET stored']
         /\ \A t \in Syncs : batch'[t] \subseteq Casilla[t]
         /\ routes' \in [Syncs -> [Notifications -> CaseFiles \cup {None}]]
         /\ known' \in [Syncs -> SUBSET files']
         /\ RoutesCurrent'
<1>1. CASE Leaves(s)
  BY <1>1, LeavesTyped, RoutesDrop
<1>2. CASE /\ batch' = [batch EXCEPT ![s] = @ \ {n}]
           /\ UNCHANGED <<pc, routes, known>>
  <2>1. \A t \in Syncs : batch'[t] \subseteq batch[t]
    BY <1>2 DEF TypeOK
  <2>2. RoutesCurrent'
    BY <1>2 DEF RoutesCurrent
  <2> QED
    BY <1>2, <2>1, <2>2 DEF TypeOK
<1> QED
  BY <1>1, <1>2 DEF Done

LEMMA UploadPreserves ==
  ASSUME MatchingAssumption, IInv, NEW s \in Syncs, Upload(s)
  PROVE  IInv'
<1>1. PICK n \in batch[s] :
        /\ segment' = [segment EXCEPT ![n] =
                         IF routes[s][n] = None THEN Unmatched ELSE routes[s][n]]
        /\ Done(s, n)
        /\ UNCHANGED <<files, stored, deleted, link, faults>>
  BY DEF Upload
<1>2. n \in Notifications /\ n \in stored
  BY <1>1 DEF MatchingAssumption, IInv, TypeOK
<1>3. \/ segment'[n] = Unmatched
      \/ segment'[n] = link[n] /\ link[n] \in CaseFiles
  BY <1>1, <1>2 DEF IInv, TypeOK, RoutesCurrent
<1>4. \A m \in Notifications \ {n} : segment'[m] = segment[m]
  BY <1>1 DEF IInv, TypeOK
<1>5. segment' \in [Notifications -> CaseFiles \cup {None, Unmatched}]
  BY <1>1, <1>2, <1>3, <1>4 DEF IInv, TypeOK
<1>6. TypeOK' /\ RoutesCurrent'
  <2>1. /\ pc' \in [Syncs -> {"page", "match", "route", "upload"}]
        /\ batch' \in [Syncs -> SUBSET stored']
        /\ \A t \in Syncs : batch'[t] \subseteq Casilla[t]
        /\ routes' \in [Syncs -> [Notifications -> CaseFiles \cup {None}]]
        /\ known' \in [Syncs -> SUBSET files']
        /\ RoutesCurrent'
    BY <1>1, DoneTyped DEF IInv
  <2>2. \A m \in Notifications \ stored : link[m] = None /\ segment'[m] = None
    BY <1>2, <1>4 DEF IInv, TypeOK
  <2> QED
    BY <1>1, <1>5, <2>1, <2>2 DEF IInv, TypeOK
<1>7. FolderMatchesLink'
  BY <1>1, <1>3, <1>4 DEF IInv, FolderMatchesLink, MatchingAssumption
<1>8. NothingCrosses'
  <2>1. ASSUME NEW m \in Notifications,
               NEW f \in {link'[m], segment'[m]} \cap CaseFiles
        PROVE  f \in {link[m], segment[m]}
    BY <1>1, <1>3, <1>4, <2>1 DEF MatchingAssumption
  <2> QED
    BY <1>1, <2>1 DEF IInv, NothingCrosses, Normalized
<1> QED
  BY <1>6, <1>7, <1>8 DEF IInv

LEMMA UploadFailsPreserves ==
  ASSUME MatchingAssumption, IInv, NEW s \in Syncs, UploadFails(s)
  PROVE  IInv'
<1>1. PICK n \in batch[s] : Done(s, n)
  BY DEF UploadFails
<1>2. UNCHANGED tables /\ Fault
  BY DEF UploadFails
<1>3. TypeOK' /\ RoutesCurrent'
  BY <1>1, <1>2, DoneTyped, FaultTyped DEF IInv, TypeOK, tables
<1>4. NothingCrosses' /\ FolderMatchesLink'
  BY <1>2 DEF IInv, NothingCrosses, FolderMatchesLink, Normalized, tables
<1> QED
  BY <1>3, <1>4 DEF IInv

LEMMA AbortPreserves ==
  ASSUME MatchingAssumption, IInv, NEW s \in Syncs, Abort(s)
  PROVE  IInv'
<1>1. UNCHANGED tables /\ Fault /\ Leaves(s)
  BY DEF Abort
<1>2. TypeOK' /\ RoutesCurrent'
  BY <1>1, LeavesTyped, RoutesDrop, FaultTyped DEF IInv, TypeOK, tables
<1>3. NothingCrosses' /\ FolderMatchesLink'
  BY <1>1 DEF IInv, NothingCrosses, FolderMatchesLink, Normalized, tables
<1> QED
  BY <1>2, <1>3 DEF IInv

LEMMA OpenCaseFilePreserves ==
  ASSUME IInv, OpenCaseFile
  PROVE  IInv'
<1>1. PICK f \in CaseFiles \ files : files' = files \cup {f}
  BY DEF OpenCaseFile
<1>2. UNCHANGED <<stored, deleted, link, segment, local, faults>>
  BY DEF OpenCaseFile
<1>3. TypeOK'
  BY <1>1, <1>2 DEF IInv, TypeOK, local
<1>4. RoutesCurrent' /\ NothingCrosses' /\ FolderMatchesLink'
  BY <1>1, <1>2 DEF IInv, RoutesCurrent, NothingCrosses, FolderMatchesLink,
                    Normalized, local
<1> QED
  BY <1>3, <1>4 DEF IInv

LEMMA MatchOrphanNotificationsPreserves ==
  ASSUME MatchingAssumption, IInv, MatchOrphanNotifications
  PROVE  IInv'
<1>1. PICK n \in stored : LinkOrphans(Customer[n])
  BY DEF MatchOrphanNotifications
<1>2. UNCHANGED <<files, stored, deleted, segment, local, faults>>
  BY DEF MatchOrphanNotifications
<1>3. /\ link' \in [Notifications -> CaseFiles \cup {None}]
      /\ \A m \in Notifications : link[m] # None => link'[m] = link[m]
      /\ \A m \in Notifications :
           link'[m] = link[m] \/ (m \in stored /\ link'[m] \in Candidates(m))
  BY <1>1, LinkOrphansKeeps DEF IInv
<1>4. TypeOK'
  BY <1>2, <1>3 DEF IInv, TypeOK, local
<1>5. RoutesCurrent'
  BY <1>2, <1>3 DEF IInv, RoutesCurrent, local
<1>6. NothingCrosses' /\ FolderMatchesLink'
  BY <1>2, <1>3, LinkingPreserves
<1> QED
  BY <1>4, <1>5, <1>6 DEF IInv

LEMMA DeletePreserves ==
  ASSUME MatchingAssumption, IInv, Delete
  PROVE  IInv'
<1>1. TypeOK'
  BY FaultTyped DEF IInv, TypeOK, Delete, local
<1>2. RoutesCurrent' /\ NothingCrosses' /\ FolderMatchesLink'
  BY DEF IInv, RoutesCurrent, NothingCrosses, FolderMatchesLink, Normalized,
         Delete, local
<1> QED
  BY <1>1, <1>2 DEF IInv

LEMMA NextPreserves ==
  ASSUME MatchingAssumption, IInv, [Next]_vars
  PROVE  IInv'
<1>1. CASE UNCHANGED vars
  <2>1. TypeOK'
    BY <1>1 DEF IInv, TypeOK, vars, tables, local
  <2>2. RoutesCurrent' /\ FolderMatchesLink'
    BY <1>1 DEF IInv, RoutesCurrent, FolderMatchesLink, vars, tables, local
  <2>3. NothingCrosses'
    BY <1>1 DEF IInv, NothingCrosses, Normalized, vars, tables
  <2> QED
    BY <2>1, <2>2, <2>3 DEF IInv
<1>2. ASSUME NEW s \in Syncs, Step(s) PROVE IInv'
  BY <1>2, BackfillPreserves, InsertPreserves, MatchPreserves,
     ReadRoutesPreserves, UploadPreserves DEF Step
<1>3. ASSUME NEW s \in Syncs, UploadFails(s) \/ Abort(s) PROVE IInv'
  BY <1>3, UploadFailsPreserves, AbortPreserves
<1>4. CASE OpenCaseFile \/ MatchOrphanNotifications \/ Delete
  BY <1>4, OpenCaseFilePreserves, MatchOrphanNotificationsPreserves, DeletePreserves
<1> QED
  BY <1>1, <1>2, <1>3, <1>4 DEF Next

LEMMA Inductive == Spec => []IInv
<1>1. Init => IInv
  BY InitHolds, MatchingAssumption
<1>2. IInv /\ [Next]_vars => IInv'
  BY NextPreserves, MatchingAssumption
<1> QED
  BY <1>1, <1>2, PTL DEF Spec

-----------------------------------------------------------------------------
\* Every reachable state of the matching has its types.
THEOREM TypeCorrect == Spec => []TypeOK
<1>1. IInv => TypeOK
  BY DEF IInv
<1> QED
  BY <1>1, Inductive, PTL

\* No link and no S3 folder belongs to another customer or another expediente.
THEOREM NothingEverCrosses == Spec => []NothingCrosses
<1>1. IInv => NothingCrosses
  BY DEF IInv
<1> QED
  BY <1>1, Inductive, PTL

\* What is in a case file's folder belongs to a notification of that case file.
THEOREM FoldersMatch == Spec => []FolderMatchesLink
<1>1. IInv => FolderMatchesLink
  BY DEF IInv
<1> QED
  BY <1>1, Inductive, PTL

\* A linked notification keeps its case file in every step.
LEMMA LinkStep ==
  ASSUME IInv, [Next]_vars
  PROVE  \A n \in Notifications : link[n] # None => link'[n] = link[n]
<1>1. ASSUME NEW c, LinkOrphans(c)
      PROVE  \A n \in Notifications : link[n] # None => link'[n] = link[n]
  BY <1>1, LinkOrphansKeeps DEF IInv
<1>2. CASE UNCHANGED link
  BY <1>2
<1>3. ASSUME NEW s \in Syncs, Step(s) \/ UploadFails(s) \/ Abort(s)
      PROVE  UNCHANGED link \/ \E n \in batch[s] : LinkOrphans(Customer[n])
  BY <1>3 DEF Step, Backfill, Insert, Match, ReadRoutes, Upload, UploadFails,
              Abort, tables
<1>4. CASE OpenCaseFile \/ Delete \/ UNCHANGED vars
  BY <1>2, <1>4 DEF OpenCaseFile, Delete, vars, tables
<1>5. CASE MatchOrphanNotifications
  BY <1>1, <1>5 DEF MatchOrphanNotifications
<1> QED
  BY <1>1, <1>2, <1>3, <1>4, <1>5 DEF Next

\* A linked notification keeps its case file, whoever matches and with whatever.
THEOREM LinksAreKept == Spec => LinkKept
<1>1. IInv /\ [Next]_vars =>
        [\A n \in Notifications : link[n] # None => link'[n] = link[n]]_vars
  BY LinkStep
<1> QED
  BY <1>1, Inductive, PTL DEF Spec, LinkKept

\* Case files and deletion stamps are not taken back.
LEMMA TablesGrow ==
  ASSUME [Next]_vars
  PROVE  files \subseteq files' /\ deleted \subseteq deleted'
<1>1. ASSUME NEW s \in Syncs, Step(s) \/ UploadFails(s) \/ Abort(s)
      PROVE  UNCHANGED <<files, deleted>>
  BY <1>1 DEF Step, Backfill, Insert, Match, ReadRoutes, Upload, UploadFails,
              Abort, tables
<1>2. CASE OpenCaseFile \/ MatchOrphanNotifications \/ Delete \/ UNCHANGED vars
  BY <1>2 DEF OpenCaseFile, MatchOrphanNotifications, Delete, vars, tables
<1> QED
  BY <1>1, <1>2 DEF Next

-----------------------------------------------------------------------------
(* The first upload is routed.                                             *)

\* A row that is not routed had no case file when the sync linked its rows:
\* going by the link it has yet to read, and then by the one it has read.
\* Between two pages a sync has linked nothing.
RoutedAt(s) ==
  /\ pc[s] = "page" => known[s] = {}
  /\ \A n \in batch[s] \ deleted :
       /\ pc[s] = "route" /\ link[n] = None => known[s] \cap Candidates(n) = {}
       /\ pc[s] = "upload" /\ routes[s][n] = None =>
            known[s] \cap Candidates(n) = {}

RoutedInv == \A s \in Syncs : RoutedAt(s)

\* A case file that is opened later is not among those a sync knew.
LEMMA KnownCandidates ==
  ASSUME TypeOK, files \subseteq files', NEW s \in Syncs, NEW n
  PROVE  known[s] \cap Candidates(n)' = known[s] \cap Candidates(n)
<1>1. known[s] \subseteq files
  BY DEF TypeOK
<1>2. Candidates(n)' = {f \in files' : Normalized(f) = Normalized(n)
                                       /\ Customer[f] = Customer[n]}
  BY DEF Candidates, Normalized
<1> QED
  BY <1>1, <1>2 DEF Candidates

\* Steps of others, and of the sync itself as long as it stays where it is.
LEMMA SameRouted ==
  ASSUME IInv, [Next]_vars, NEW s \in Syncs, RoutedAt(s),
         pc'[s] = pc[s], batch'[s] \subseteq batch[s],
         routes'[s] = routes[s], known'[s] = known[s]
  PROVE  RoutedAt(s)'
<1>1. ASSUME NEW n \in batch'[s] \ deleted'
      PROVE  /\ pc'[s] = "route" /\ link'[n] = None =>
                  known'[s] \cap Candidates(n)' = {}
             /\ pc'[s] = "upload" /\ routes'[s][n] = None =>
                  known'[s] \cap Candidates(n)' = {}
  <2>1. files \subseteq files' /\ deleted \subseteq deleted'
    BY TablesGrow
  <2>2. n \in batch[s] \ deleted /\ n \in Notifications
    BY <1>1, <2>1 DEF IInv, TypeOK
  <2>3. link'[n] = None => link[n] = None
    BY <2>2, LinkStep
  <2>4. known[s] \cap Candidates(n)' = known[s] \cap Candidates(n)
    BY <2>1, KnownCandidates DEF IInv
  <2> QED
    BY <2>2, <2>3, <2>4 DEF RoutedAt
<1> QED
  BY <1>1 DEF RoutedAt

\* The sync's own match: what it leaves unlinked has no case file.
LEMMA MatchRoutes ==
  ASSUME MatchingAssumption, TypeOK, NEW s \in Syncs, Match(s)
  PROVE  \A n \in batch[s] \ deleted : link'[n] = None => Candidates(n) = {}
<1> SUFFICES ASSUME NEW n \in batch[s], n \notin deleted, link'[n] = None
             PROVE  Candidates(n) = {}
  OBVIOUS
<1>1. PICK m \in batch[s] : LinkOrphans(Customer[m])
  BY DEF Match
<1> DEFINE found == {x \in Orphans(Customer[m]) : Candidates(x) # {}}
<1>2. PICK choice \in [found -> CaseFiles] :
        link' = [x \in Notifications |-> IF x \in found THEN choice[x] ELSE link[x]]
  BY <1>1 DEF LinkOrphans
<1>3. n \in Notifications /\ n \in stored /\ Customer[n] = Customer[m]
  BY DEF MatchingAssumption, TypeOK
<1>4. n \in found => link'[n] \in CaseFiles
  BY <1>2, <1>3
<1>5. n \notin found
  BY <1>4 DEF MatchingAssumption
<1>6. link[n] = None
  BY <1>2, <1>3, <1>5
<1>7. n \in Orphans(Customer[m])
  BY <1>3, <1>6 DEF Orphans
<1> QED
  BY <1>5, <1>7

\* A sync that is back between two pages.
LEMMA LeavesRouted ==
  ASSUME TypeOK, NEW s \in Syncs, Leaves(s)
  PROVE  /\ RoutedAt(s)'
         /\ \A t \in Syncs \ {s} : /\ pc'[t] = pc[t] /\ batch'[t] = batch[t]
                                   /\ routes'[t] = routes[t] /\ known'[t] = known[t]
<1>1. pc'[s] = "page" /\ batch'[s] = {} /\ known'[s] = {}
  BY DEF Leaves, Goes, TypeOK
<1>2. \A t \in Syncs \ {s} : /\ pc'[t] = pc[t] /\ batch'[t] = batch[t]
                             /\ routes'[t] = routes[t] /\ known'[t] = known[t]
  BY DEF Leaves, Goes, TypeOK
<1> QED
  BY <1>1, <1>2 DEF RoutedAt

\* A sync that reads a page, or inserts its rows, has not linked them yet; one
\* that has matched, or read its links, keeps what its match left.
LEMMA OwnStepRouted ==
  ASSUME IInv, RoutedInv, NEW s \in Syncs,
         Backfill(s) \/ Insert(s) \/ Match(s) \/ ReadRoutes(s)
  PROVE  /\ RoutedAt(s)'
         /\ \A t \in Syncs \ {s} : /\ pc'[t] = pc[t] /\ batch'[t] = batch[t]
                                   /\ routes'[t] = routes[t] /\ known'[t] = known[t]
<1>1. RoutedAt(s)
  BY DEF RoutedInv
<1>2. CASE Backfill(s) \/ Insert(s)
  <2>1. /\ pc'[s] \in {"route", "match"} /\ known'[s] = known[s] /\ known[s] = {}
        /\ \A t \in Syncs \ {s} : /\ pc'[t] = pc[t] /\ batch'[t] = batch[t]
                                  /\ routes'[t] = routes[t] /\ known'[t] = known[t]
    BY <1>1, <1>2 DEF Backfill, Insert, Goes, RoutedAt, IInv, TypeOK
  <2> QED
    BY <2>1 DEF RoutedAt
<1>3. CASE Match(s)
  <2>1. /\ pc'[s] = "route" /\ known'[s] = files /\ batch'[s] = batch[s]
        /\ UNCHANGED <<files, deleted>>
        /\ \A t \in Syncs \ {s} : /\ pc'[t] = pc[t] /\ batch'[t] = batch[t]
                                  /\ routes'[t] = routes[t] /\ known'[t] = known[t]
    BY <1>3 DEF Match, Goes, IInv, TypeOK
  <2>2. \A n \in batch[s] \ deleted : link'[n] = None => Candidates(n) = {}
    BY <1>3, MatchRoutes, MatchingAssumption DEF IInv
  <2>3. \A n : Candidates(n)' = Candidates(n)
    BY <2>1 DEF Candidates, Normalized
  <2> QED
    BY <2>1, <2>2, <2>3 DEF RoutedAt
<1>4. CASE ReadRoutes(s)
  <2>1. /\ pc[s] = "route" /\ pc'[s] = "upload"
        /\ known'[s] = known[s] /\ batch'[s] = batch[s]
        /\ routes'[s] = [n \in Notifications |->
                           IF n \in batch[s] THEN link[n] ELSE None]
        /\ UNCHANGED <<files, deleted>>
        /\ \A t \in Syncs \ {s} : /\ pc'[t] = pc[t] /\ batch'[t] = batch[t]
                                  /\ routes'[t] = routes[t] /\ known'[t] = known[t]
    BY <1>4 DEF ReadRoutes, Goes, IInv, TypeOK, tables
  <2>2. \A n : Candidates(n)' = Candidates(n)
    BY <2>1 DEF Candidates, Normalized
  <2>3. \A n \in batch[s] : n \in Notifications
    BY DEF IInv, TypeOK
  <2> QED
    BY <1>1, <2>1, <2>2, <2>3 DEF RoutedAt
<1> QED
  BY <1>2, <1>3, <1>4

\* A step that is done with a row, or leaves the page.
LEMMA DoneRouted ==
  ASSUME IInv, RoutedInv, [Next]_vars, NEW s \in Syncs, NEW n,
         Done(s, n) \/ Leaves(s)
  PROVE  /\ RoutedAt(s)'
         /\ \A t \in Syncs \ {s} : /\ pc'[t] = pc[t] /\ batch'[t] = batch[t]
                                   /\ routes'[t] = routes[t] /\ known'[t] = known[t]
<1>1. CASE Leaves(s)
  BY <1>1, LeavesRouted DEF IInv
<1>2. CASE /\ batch' = [batch EXCEPT ![s] = @ \ {n}]
           /\ UNCHANGED <<pc, routes, known>>
  <2>1. /\ pc'[s] = pc[s] /\ batch'[s] \subseteq batch[s]
        /\ routes'[s] = routes[s] /\ known'[s] = known[s]
        /\ \A t \in Syncs \ {s} : /\ pc'[t] = pc[t] /\ batch'[t] = batch[t]
                                  /\ routes'[t] = routes[t] /\ known'[t] = known[t]
    BY <1>2 DEF IInv, TypeOK
  <2> QED
    BY <2>1, SameRouted DEF RoutedInv
<1> QED
  BY <1>1, <1>2 DEF Done

LEMMA RoutedStep ==
  ASSUME IInv, RoutedInv, [Next]_vars
  PROVE  RoutedInv'
<1>1. ASSUME NEW s \in Syncs, RoutedAt(s)',
             \A t \in Syncs \ {s} : /\ pc'[t] = pc[t] /\ batch'[t] = batch[t]
                                    /\ routes'[t] = routes[t] /\ known'[t] = known[t]
      PROVE  RoutedInv'
  <2>1. \A t \in Syncs \ {s} : RoutedAt(t)'
    BY <1>1, SameRouted DEF RoutedInv
  <2> QED
    BY <1>1, <2>1 DEF RoutedInv
<1>2. ASSUME NEW s \in Syncs,
             Backfill(s) \/ Insert(s) \/ Match(s) \/ ReadRoutes(s)
      PROVE  RoutedInv'
  BY <1>1, <1>2, OwnStepRouted
<1>3. ASSUME NEW s \in Syncs, Upload(s) \/ UploadFails(s) \/ Abort(s)
      PROVE  RoutedInv'
  <2>1. \E n : Done(s, n) \/ Leaves(s)
    BY <1>3 DEF Upload, UploadFails, Abort
  <2> QED
    BY <1>1, <2>1, DoneRouted
<1>4. CASE UNCHANGED local
  <2>1. \A t \in Syncs : RoutedAt(t)'
    BY <1>4, SameRouted DEF RoutedInv, local
  <2> QED
    BY <2>1 DEF RoutedInv
<1>5. OpenCaseFile \/ MatchOrphanNotifications \/ Delete \/ UNCHANGED vars
        => UNCHANGED local
  BY DEF OpenCaseFile, MatchOrphanNotifications, Delete, vars
<1> QED
  BY <1>2, <1>3, <1>4, <1>5 DEF Next, Step

\* A notification whose case file was open when the sync linked its rows gets
\* its first attachment into that case file's folder (sync_engine.py:441-444),
\* unless it was deleted meanwhile: whatever other syncs and the backend link
\* between the match and the upload, and however the number is spelled.
THEOREM FirstUploadIsRouted == Spec => FirstUploadRouted
<1>1. Init => RoutedInv
  BY DEF Init, RoutedInv, RoutedAt
<1>2. IInv /\ RoutedInv /\ [Next]_vars => RoutedInv'
  BY RoutedStep
<1>3. ASSUME IInv, RoutedInv, [Next]_vars, NEW s \in Syncs,
             NEW n \in Notifications \ deleted,
             segment[n] = None, segment'[n] = Unmatched, n \in batch[s]
      PROVE  known[s] \cap Candidates(n) = {}
  <2>1. None # Unmatched /\ Unmatched \notin CaseFiles
    BY MatchingAssumption
  <2>2. PICK t \in Syncs : Upload(t)
    <3>1. ~UNCHANGED segment
      BY <1>3, <2>1
    <3>2. ASSUME NEW t \in Syncs,
                 \/ Backfill(t) \/ Insert(t) \/ Match(t) \/ ReadRoutes(t)
                 \/ UploadFails(t) \/ Abort(t)
          PROVE  UNCHANGED segment
      BY <3>2 DEF Backfill, Insert, Match, ReadRoutes, UploadFails, Abort, tables
    <3>3. ASSUME OpenCaseFile \/ MatchOrphanNotifications \/ Delete \/ UNCHANGED vars
          PROVE  UNCHANGED segment
      BY <3>3 DEF OpenCaseFile, MatchOrphanNotifications, Delete, vars, tables
    <3> QED
      BY <1>3, <3>1, <3>2, <3>3 DEF Next, Step
  <2>3. PICK m \in batch[t] :
          /\ pc[t] = "upload"
          /\ segment' = [segment EXCEPT ![m] =
                           IF routes[t][m] = None THEN Unmatched ELSE routes[t][m]]
    BY <2>2 DEF Upload
  <2>4. m = n
    BY <1>3, <2>1, <2>3 DEF IInv, TypeOK
  <2>5. t = s
    <3>1. n \in Casilla[s] /\ n \in Casilla[t]
      BY <1>3, <2>3, <2>4 DEF IInv, TypeOK
    <3> QED
      BY <3>1, MatchingAssumption
  <2>6. segment'[n] = IF routes[s][n] = None THEN Unmatched ELSE routes[s][n]
    BY <1>3, <2>3, <2>4, <2>5 DEF IInv, TypeOK
  <2>7. routes[s][n] \in CaseFiles \cup {None}
    BY <1>3 DEF IInv, TypeOK
  <2>8. routes[s][n] = None
    BY <1>3, <2>1, <2>6, <2>7
  <2> QED
    BY <1>3, <2>3, <2>5, <2>8 DEF RoutedInv, RoutedAt
<1>4. IInv /\ RoutedInv /\ [Next]_vars =>
        [\A s \in Syncs : \A n \in Notifications \ deleted :
           segment[n] = None /\ segment'[n] = Unmatched /\ n \in batch[s] =>
             known[s] \cap Candidates(n) = {}]_vars
  BY <1>3
<1> QED
  BY <1>1, <1>2, <1>4, Inductive, PTL DEF Spec, FirstUploadRouted

=============================================================================
