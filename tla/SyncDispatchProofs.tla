------------------------- MODULE SyncDispatchProofs -------------------------
(***************************************************************************)
(* Theorems about SyncDispatch, for any accounts, workers and bounds: its  *)
(* type, the exclusion its claim window gives, that it implements          *)
(* SyncLease, and the account its log rows give of the running syncs.      *)
(***************************************************************************)
EXTENDS SyncDispatch, FiniteSetTheorems, TLAPS

LEMMA OlderType ==
  ASSUME NEW limit \in Nat, NEW age \in 0..limit
  PROVE  Older(age, limit) \in 0..limit
  BY DEF Older

LEMMA DueSnapshot ==
  ASSUME NEW S \in FindDue
  PROVE  {<<a, QueueFor(a)>> : a \in S} \subseteq Accounts \X Queues
<1>1. S \subseteq Accounts
  BY DEF FindDue
<1>2. \A a \in Accounts : QueueFor(a) \in Queues
  <2>1. SUFFICES ASSUME NEW a \in Accounts
                 PROVE  QueueFor(a) \in Queues
    OBVIOUS
  <2>2. CASE requested[a]
    BY <2>2 DEF QueueFor, Queues
  <2>3. CASE ~requested[a] /\ ~synced[a]
    BY <2>3 DEF QueueFor, Queues
  <2>4. CASE ~requested[a] /\ synced[a]
    BY <2>4 DEF QueueFor, Queues
  <2>5. QED
    BY <2>2, <2>3, <2>4
<1>3. QED
  BY <1>1, <1>2

\* Every step keeps the type.
LEMMA TypeStep ==
  ASSUME TypeOK, [Next]_vars
  PROVE  TypeOK'
<1> USE DispatchAssumption
<1> USE DEF TypeOK, account, scheduler, worker, history
<1>1. CASE Tick
  BY <1>1, DueSnapshot DEF Tick
<1>2. CASE FindDueFails
  <2>1. faults' \in 0..MaxFaults
    BY <1>2 DEF FindDueFails
  <2>2. slept' \in BOOLEAN
    BY <1>2 DEF FindDueFails
  <2>3. QED
    BY <1>2, <2>1, <2>2 DEF FindDueFails
<1>3. CASE Enqueue
  <2>1. PICK p \in pending :
          /\ queue' = [queue EXCEPT ![p[2]] =
                         IF Copies(p[1], @) < MaxCopies THEN Append(@, p[1])
                                                        ELSE @]
          /\ pending' = pending \ {p}
          /\ UNCHANGED <<account, openLogs, server, slept, worker, faults>>
    BY <1>3 DEF Enqueue
  <2>2. p[1] \in Accounts /\ p[2] \in Queues
    OBVIOUS
  <2>3. queue' \in [Queues -> Seq(Accounts)]
    BY <2>1, <2>2
  <2>4. QED
    BY <2>1, <2>3
<1>4. CASE EnqueueFails
  BY <1>4 DEF EnqueueFails
<1>5. ASSUME NEW w \in Workers, Pop(w)
      PROVE  TypeOK'
  <2>1. PICK q \in Queues :
          /\ queue[q] # <<>>
          /\ job' = [job EXCEPT ![w] = Head(queue[q])]
          /\ queue' = [queue EXCEPT ![q] = Tail(@)]
    BY <1>5 DEF Pop
  <2>2. Head(queue[q]) \in Accounts /\ Tail(queue[q]) \in Seq(Accounts)
    BY <2>1
  <2>3. phase' \in [Workers -> Phases]
    BY <1>5 DEF Pop, Phases
  <2>4. QED
    BY <1>5, <2>1, <2>2, <2>3 DEF Pop
<1>6. ASSUME NEW w \in Workers, Refuse(w)
      PROVE  TypeOK'
  BY <1>6 DEF Refuse, Phases
<1>7. ASSUME NEW w \in Workers, Claim(w)
      PROVE  TypeOK'
  BY <1>7 DEF Claim, TakeClaim, Phases
<1>8. ASSUME NEW w \in Workers, Finish(w)
      PROVE  TypeOK'
  BY <1>8 DEF Finish, MarkSyncComplete, ExposeFresh, Phases
<1>9. ASSUME NEW w \in Workers, ClaimFails(w)
      PROVE  TypeOK'
  BY <1>9 DEF ClaimFails, Phases
<1>10. ASSUME NEW w \in Workers, ClaimLogFails(w)
       PROVE  TypeOK'
  BY <1>10 DEF ClaimLogFails, TakeClaim, Phases
<1>11. ASSUME NEW w \in Workers, FinishFails(w)
       PROVE  TypeOK'
  BY <1>11 DEF FinishFails, Phases
<1>12. CASE ClockTick
  <2>1. startedAge' \in [Accounts -> 0..LockWindow]
    BY <1>12, OlderType DEF ClockTick
  <2>2. completedAge' \in [Accounts -> 0..(Frequency + 1)]
    BY <1>12, OlderType DEF ClockTick
  <2>3. claimAge' \in [Workers -> 0..LockWindow]
    BY <1>12, OlderType DEF ClockTick
  <2>4. slept' \in BOOLEAN
    BY <1>12 DEF ClockTick
  <2>5. QED
    BY <1>12, <2>1, <2>2, <2>3, <2>4 DEF ClockTick
<1>13. ASSUME NEW a \in Accounts, Request(a) \/ SetActive(a)
       PROVE  TypeOK'
  <2>1. CASE Request(a)
    BY <2>1 DEF Request
  <2>2. CASE SetActive(a)
    <3>1. active' \in [Accounts -> BOOLEAN]
      BY <2>2 DEF SetActive
    <3>2. QED
      BY <2>2, <3>1 DEF SetActive
  <2>3. QED
    BY <1>13, <2>1, <2>2
<1>14. CASE Start
  BY <1>14 DEF Start
<1>15. CASE StopScheduler
  <2>1. faults' \in 0..MaxFaults
    BY <1>15 DEF StopScheduler
  <2>2. QED
    BY <1>15, <2>1 DEF StopScheduler
<1>16. CASE StopWorkers \/ Crash
  BY <1>16 DEF StopWorkers, Crash, EndWorkers, Phases
<1>17. CASE UNCHANGED vars
  BY <1>17 DEF vars
<1>18. QED
  BY <1>1, <1>2, <1>3, <1>4, <1>5, <1>6, <1>7, <1>8, <1>9, <1>10, <1>11,
     <1>12, <1>13, <1>14, <1>15, <1>16, <1>17 DEF Next, WorkerStep

\* Type correctness of the dispatch: every reachable state has its type, with
\* every age inside the range the claim and due tests distinguish.
THEOREM TypeCorrect == Spec => []TypeOK
<1>1. Init => TypeOK
  BY DispatchAssumption DEF Init, TypeOK, Queues, Phases
<1>2. TypeOK /\ [Next]_vars => TypeOK'
  BY TypeStep
<1>3. QED
  BY <1>1, <1>2, PTL DEF Spec

-----------------------------------------------------------------------------
\* A step that leaves the stamps alone and starts no sync keeps the window
\* guarded.
LEMMA NoNewSync ==
  ASSUME TypeOK, WindowGuarded,
         startedAge' = startedAge, sameInstant' = sameInstant,
         \A w \in Workers : phase'[w] = "syncing" =>
           /\ phase[w] = "syncing"
           /\ job'[w] = job[w]
           /\ claimAge'[w] = claimAge[w]
           /\ w \in exposed' <=> w \in exposed
  PROVE  WindowGuarded'
  BY DEF WindowGuarded, Syncing

\* A claim was refused if any sync of the account that is not exposed is inside
\* its window.
LEMMA ClaimNeedsOutlived ==
  ASSUME TypeOK, WindowGuarded,
         NEW a \in Accounts, ~Locked(a),
         NEW v \in Workers, Syncing(v, a), v \notin exposed
  PROVE  claimAge[v] = LockWindow
<1>1. claimAge[v] \in 0..LockWindow /\ LockWindow \in Nat
  BY DispatchAssumption DEF TypeOK
<1>2. CASE claimAge[v] < LockWindow
  <2>1. startedAge[a] = claimAge[v] /\ ~sameInstant[a]
    BY <1>2 DEF WindowGuarded
  <2>2. QED
    BY <1>2, <2>1 DEF Locked
<1>3. QED
  BY <1>1, <1>2

\* The window stays guarded: each action that touches a stamp or starts a
\* sync, one by one.
LEMMA WindowStep ==
  ASSUME TypeOK, WindowGuarded, [Next]_vars
  PROVE  WindowGuarded'
<1> USE DEF account, scheduler, worker, history
<1>1. CASE Tick \/ FindDueFails \/ Enqueue \/ EnqueueFails
  <2>1. UNCHANGED <<startedAge, sameInstant, phase, job, history>>
    BY <1>1 DEF Tick, FindDueFails, Enqueue, EnqueueFails
  <2>2. QED
    BY <2>1, NoNewSync
<1>2. ASSUME NEW w \in Workers,
             Pop(w) \/ Refuse(w) \/ ClaimFails(w) \/ FinishFails(w)
      PROVE  WindowGuarded'
  <2>1. /\ UNCHANGED <<startedAge, sameInstant, claimAge>>
        /\ \A v \in Workers \ {w} :
             /\ phase'[v] = phase[v] /\ job'[v] = job[v]
             /\ v \in exposed' <=> v \in exposed
        /\ phase'[w] # "syncing"
    BY <1>2 DEF Pop, Refuse, ClaimFails, FinishFails, TypeOK
  <2>2. QED
    BY <2>1, NoNewSync
<1>3. ASSUME NEW w \in Workers, Claim(w)
      PROVE  WindowGuarded'
  <2> DEFINE a == job[w]
  <2>1. a \in Accounts /\ ~Locked(a)
    BY <1>3 DEF Claim, TakeClaim, TypeOK
  <2>2. PICK same \in BOOLEAN :
          /\ startedAge' = [startedAge EXCEPT ![a] = 0]
          /\ sameInstant' = [sameInstant EXCEPT ![a] = same]
    BY <1>3 DEF Claim, TakeClaim
  <2>3. /\ phase' = [phase EXCEPT ![w] = "syncing"]
        /\ claimAge' = [claimAge EXCEPT ![w] = 0]
        /\ job' = job
        /\ exposed' = IF sameInstant'[a] THEN exposed \cup {w}
                                        ELSE exposed \ {w}
    BY <1>3 DEF Claim
  <2>4. SUFFICES ASSUME NEW u \in Workers, NEW b \in Accounts,
                        Syncing(u, b)', claimAge'[u] < LockWindow,
                        u \notin exposed'
                 PROVE  /\ startedAge'[b] = claimAge'[u]
                        /\ ~sameInstant'[b]
                        /\ \A v \in Workers \ {u} :
                             Syncing(v, b)' => \/ claimAge'[v] = LockWindow
                                               \/ v \in exposed'
    BY DEF WindowGuarded
  <2>5. CASE u = w
    <3>1. b = a
      BY <2>3, <2>4, <2>5 DEF Syncing
    <3>2. startedAge'[b] = 0 /\ claimAge'[u] = 0 /\ ~sameInstant'[b]
      BY <2>1, <2>2, <2>3, <2>4, <2>5, <3>1 DEF TypeOK
    <3>3. ASSUME NEW v \in Workers \ {u}, Syncing(v, b)', v \notin exposed'
          PROVE  claimAge'[v] = LockWindow
      <4>1. Syncing(v, a)
        BY <2>3, <2>5, <3>1, <3>3 DEF Syncing, TypeOK
      <4>2. claimAge[v] = LockWindow
        <5>1. v \notin exposed
          BY <2>3, <2>5, <3>3
        <5>2. QED
          BY <2>1, <4>1, <5>1, ClaimNeedsOutlived
      <4>3. QED
        BY <2>3, <2>5, <4>2 DEF TypeOK
    <3>4. QED
      BY <3>2, <3>3
  <2>6. CASE u # w
    <3>1. Syncing(u, b) /\ claimAge'[u] = claimAge[u] /\ u \notin exposed
      BY <2>3, <2>4, <2>6 DEF Syncing, TypeOK
    <3>2. b # a
      <4>1. claimAge[u] \in 0..LockWindow /\ LockWindow \in Nat
        BY DispatchAssumption DEF TypeOK
      <4>2. QED
        BY <2>1, <2>4, <3>1, <4>1, ClaimNeedsOutlived
    <3>3. startedAge'[b] = startedAge[b] /\ sameInstant'[b] = sameInstant[b]
      BY <2>2, <3>2 DEF TypeOK
    <3>4. ASSUME NEW v \in Workers \ {u}, Syncing(v, b)'
          PROVE  claimAge'[v] = LockWindow \/ v \in exposed'
      <4>1. v # w
        BY <2>3, <3>2, <3>4 DEF Syncing
      <4>2. Syncing(v, b) /\ claimAge'[v] = claimAge[v]
        BY <2>3, <3>4, <4>1 DEF Syncing, TypeOK
      <4>3. claimAge[v] = LockWindow \/ v \in exposed
        BY <2>4, <3>1, <4>2 DEF WindowGuarded
      <4>4. QED
        BY <2>3, <4>1, <4>2, <4>3
    <3>5. QED
      BY <2>4, <3>1, <3>3, <3>4 DEF WindowGuarded
  <2>7. QED
    BY <2>5, <2>6
<1>4. ASSUME NEW w \in Workers, ClaimLogFails(w)
      PROVE  WindowGuarded'
  <2> DEFINE a == job[w]
  <2>1. a \in Accounts /\ ~Locked(a)
    BY <1>4 DEF ClaimLogFails, TakeClaim, TypeOK
  <2>2. PICK same \in BOOLEAN :
          /\ startedAge' = [startedAge EXCEPT ![a] = 0]
          /\ sameInstant' = [sameInstant EXCEPT ![a] = same]
    BY <1>4 DEF ClaimLogFails, TakeClaim
  <2>3. /\ phase' = [phase EXCEPT ![w] = "idle"]
        /\ UNCHANGED <<job, history>>
    BY <1>4 DEF ClaimLogFails
  <2>4. SUFFICES ASSUME NEW u \in Workers, NEW b \in Accounts,
                        Syncing(u, b)', claimAge[u] < LockWindow,
                        u \notin exposed
                 PROVE  /\ startedAge'[b] = claimAge[u]
                        /\ ~sameInstant'[b]
                        /\ \A v \in Workers \ {u} :
                             Syncing(v, b)' => \/ claimAge[v] = LockWindow
                                               \/ v \in exposed
    BY <2>3 DEF WindowGuarded
  <2>5. \A v \in Workers, c \in Accounts : Syncing(v, c)' => Syncing(v, c)
    BY <2>3 DEF Syncing, TypeOK
  <2>6. b # a
    <3>1. claimAge[u] \in 0..LockWindow /\ LockWindow \in Nat
      BY DispatchAssumption DEF TypeOK
    <3>2. QED
      BY <2>1, <2>4, <2>5, <3>1, ClaimNeedsOutlived
  <2>7. startedAge'[b] = startedAge[b] /\ sameInstant'[b] = sameInstant[b]
    BY <2>2, <2>6 DEF TypeOK
  <2>8. QED
    BY <2>4, <2>5, <2>7 DEF WindowGuarded
<1>5. ASSUME NEW w \in Workers, Finish(w)
      PROVE  WindowGuarded'
  <2> DEFINE a == job[w]
  <2>1. PICK same \in BOOLEAN : sameInstant' = [sameInstant EXCEPT ![a] = same]
    BY <1>5 DEF Finish, MarkSyncComplete
  <2>2. /\ UNCHANGED <<startedAge, job, claimAge>>
        /\ phase' = [phase EXCEPT ![w] = "idle"]
        /\ same => startedAge[a] = 0
    <3>1. UNCHANGED <<startedAge, job, claimAge>>
      BY <1>5 DEF Finish, MarkSyncComplete
    <3>2. sameInstant'[a] => startedAge[a] = 0
      BY <1>5 DEF Finish, MarkSyncComplete, TypeOK
    <3>3. QED
      BY <1>5, <2>1, <3>1, <3>2 DEF Finish, TypeOK
  <2>3. exposed' = IF sameInstant'[a]
                   THEN (exposed \cup {v \in Workers :
                                          Syncing(v, a) /\ claimAge[v] = 0})
                          \ {w}
                   ELSE exposed \ {w}
    BY <1>5 DEF Finish, ExposeFresh
  <2>4. SUFFICES ASSUME NEW u \in Workers, NEW b \in Accounts,
                        Syncing(u, b)', claimAge[u] < LockWindow,
                        u \notin exposed'
                 PROVE  /\ startedAge[b] = claimAge[u]
                        /\ ~sameInstant'[b]
                        /\ \A v \in Workers \ {u} :
                             Syncing(v, b)' => \/ claimAge[v] = LockWindow
                                               \/ v \in exposed'
    BY <2>2 DEF WindowGuarded
  <2>5. \A v \in Workers, c \in Accounts :
          Syncing(v, c)' => v # w /\ Syncing(v, c)
    BY <2>2 DEF Syncing, TypeOK
  <2>6. u # w /\ Syncing(u, b) /\ u \notin exposed
    BY <2>3, <2>4, <2>5
  <2>7. /\ startedAge[b] = claimAge[u]
        /\ ~sameInstant[b]
        /\ \A v \in Workers \ {u} :
             Syncing(v, b) => claimAge[v] = LockWindow \/ v \in exposed
    BY <2>4, <2>6 DEF WindowGuarded
  <2>8. ~sameInstant'[b]
    <3>1. CASE b # a
      BY <2>1, <2>7, <3>1 DEF TypeOK
    <3>2. CASE b = a
      BY <2>1, <2>2, <2>3, <2>4, <2>6, <2>7, <3>2 DEF TypeOK
    <3>3. QED
      BY <3>1, <3>2
  <2>9. ASSUME NEW v \in Workers \ {u}, Syncing(v, b)'
        PROVE  claimAge[v] = LockWindow \/ v \in exposed'
    <3>1. v # w /\ Syncing(v, b)
      BY <2>5, <2>9
    <3>2. QED
      BY <2>3, <2>7, <3>1
  <2>10. QED
    BY <2>7, <2>8, <2>9
<1>6. CASE ClockTick
  <2>1. /\ UNCHANGED <<sameInstant, phase, job, exposed>>
        /\ \A c \in Accounts : startedAge'[c] = Older(startedAge[c], LockWindow)
        /\ \A v \in Workers : phase[v] = "syncing" =>
             claimAge'[v] = Older(claimAge[v], LockWindow)
    BY <1>6 DEF ClockTick
  <2>2. LockWindow \in Nat
    BY DispatchAssumption
  <2>3. SUFFICES ASSUME NEW u \in Workers, NEW b \in Accounts,
                        Syncing(u, b), claimAge'[u] < LockWindow,
                        u \notin exposed
                 PROVE  /\ startedAge'[b] = claimAge'[u]
                        /\ ~sameInstant[b]
                        /\ \A v \in Workers \ {u} :
                             Syncing(v, b) => \/ claimAge'[v] = LockWindow
                                              \/ v \in exposed
    BY <2>1 DEF WindowGuarded, Syncing
  <2>4. phase[u] = "syncing" /\ claimAge[u] < LockWindow
    BY <2>1, <2>2, <2>3 DEF Syncing, Older, TypeOK
  <2>5. startedAge'[b] = claimAge'[u] /\ ~sameInstant[b]
    BY <2>1, <2>3, <2>4 DEF WindowGuarded
  <2>6. ASSUME NEW v \in Workers \ {u}, Syncing(v, b), v \notin exposed
        PROVE  claimAge'[v] = LockWindow
    <3>1. claimAge[v] = LockWindow
      BY <2>3, <2>4, <2>6 DEF WindowGuarded
    <3>2. QED
      BY <2>1, <2>2, <2>6, <3>1 DEF Syncing, Older
  <2>7. QED
    BY <2>5, <2>6
<1>7. CASE \E a \in Accounts : Request(a) \/ SetActive(a)
  <2>1. UNCHANGED <<startedAge, sameInstant, phase, job, history>>
    BY <1>7 DEF Request, SetActive
  <2>2. QED
    BY <2>1, NoNewSync
<1>8. CASE Start \/ StopScheduler
  <2>1. UNCHANGED <<startedAge, sameInstant, phase, job, history>>
    BY <1>8 DEF Start, StopScheduler
  <2>2. QED
    BY <2>1, NoNewSync
<1>9. CASE StopWorkers \/ Crash
  <2>1. \A w \in Workers : phase'[w] # "syncing"
    BY <1>9 DEF StopWorkers, Crash, EndWorkers
  <2>2. QED
    BY <2>1 DEF WindowGuarded, Syncing
<1>10. CASE UNCHANGED vars
  BY <1>10 DEF vars, WindowGuarded, Syncing
<1>11. QED
  BY <1>1, <1>2, <1>3, <1>4, <1>5, <1>6, <1>7, <1>8, <1>9, <1>10
  DEF Next, WorkerStep

\* The row's stamp stands for every claim inside its window: a worker that
\* claimed an account less than five minutes ago, in a second in which no other
\* sync of it ended, still has its stamp in the row, and beside it only syncs
\* that outlived their claim or are exposed.
THEOREM WindowIsGuarded == Spec => [](TypeOK /\ WindowGuarded)
<1>1. Init => TypeOK /\ WindowGuarded
  <2>1. Init => TypeOK
    BY DispatchAssumption DEF Init, TypeOK, Queues, Phases
  <2>2. Init => WindowGuarded
    BY DEF Init, WindowGuarded, Syncing
  <2>3. QED
    BY <2>1, <2>2
<1>2. TypeOK /\ WindowGuarded /\ [Next]_vars => (TypeOK /\ WindowGuarded)'
  BY TypeStep, WindowStep
<1>3. QED
  BY <1>1, <1>2, PTL DEF Spec

\* The exclusion claim_for_sync really gives: of two workers syncing one
\* account, one has been at it for the whole window, or its claim and the end
\* of another sync of the account fell into one second.
THEOREM Exclusion == Spec => []ExclusiveWithinWindow
<1>1. TypeOK /\ WindowGuarded => ExclusiveWithinWindow
  <2>1. SUFFICES ASSUME TypeOK, WindowGuarded,
                        NEW v \in Workers, NEW w \in Workers,
                        NEW a \in Accounts,
                        v # w, Syncing(v, a), Syncing(w, a),
                        claimAge[w] # LockWindow, w \notin exposed
                 PROVE  claimAge[v] = LockWindow \/ v \in exposed
    BY DEF ExclusiveWithinWindow
  <2>2. claimAge[w] < LockWindow
    BY <2>1, DispatchAssumption DEF TypeOK
  <2>3. QED
    BY <2>1, <2>2 DEF WindowGuarded
<1>2. QED
  BY <1>1, WindowIsGuarded, PTL

-----------------------------------------------------------------------------
\* A request is only taken back by the claim that serves it, in every step of
\* every behaviour, failures included.
THEOREM RequestsAreKept == Spec => RequestKept
<1> DEFINE Served(a) == \E w \in Workers : phase[w] = "delivered"
                                           /\ job[w] = a /\ ~Locked(a)
<1>1. ASSUME TypeOK, [Next]_vars,
             NEW a \in Accounts, requested[a], ~requested'[a]
      PROVE  Served(a)
  <2> USE DEF account, scheduler, worker, history
  <2>1. ASSUME NEW w \in Workers, Claim(w) \/ ClaimLogFails(w)
        PROVE  Served(a)
    <3>1. /\ phase[w] = "delivered" /\ ~Locked(job[w])
          /\ requested' = [requested EXCEPT ![job[w]] = FALSE]
      BY <2>1 DEF Claim, ClaimLogFails, TakeClaim
    <3>2. job[w] = a
      BY <1>1, <3>1 DEF TypeOK
    <3>3. QED
      BY <3>1, <3>2
  <2>2. ASSUME NEW b \in Accounts, Request(b)
        PROVE  FALSE
    BY <1>1, <2>2 DEF Request, TypeOK
  <2>3. ASSUME requested' # requested
        PROVE  \/ \E w \in Workers : Claim(w) \/ ClaimLogFails(w)
               \/ \E b \in Accounts : Request(b)
    BY <1>1, <2>3
    DEF Next, WorkerStep, vars, Tick, FindDueFails, Enqueue, EnqueueFails,
        Pop, Refuse, ClaimFails, Finish, MarkSyncComplete, FinishFails,
        ClockTick, SetActive, Start, StopScheduler, StopWorkers, Crash,
        EndWorkers
  <2>4. QED
    BY <1>1, <2>1, <2>2, <2>3
<1>2. TypeOK /\ [Next]_vars =>
        [\A a \in Accounts : requested[a] /\ ~requested'[a] => Served(a)]_vars
  BY <1>1
<1>3. QED
  BY <1>2, TypeCorrect, PTL DEF Spec, RequestKept

-----------------------------------------------------------------------------
(* SyncDispatch implements SyncLease.                                      *)

\* Who holds what changes only through phase and job.
LEMMA HoldingIs ==
  ASSUME NEW w \in Workers, NEW a \in Accounts
  PROVE  <<w, a>> \in Holding <=> Syncing(w, a)
  BY DEF Holding

\* A step that ends the syncs of some workers, without a stamp, and starts none
\* loses their leases.
LEMMA EndingLoses ==
  ASSUME TypeOK, NEW W \in SUBSET Workers,
         UNCHANGED <<claimAge, synced, completedAge>>,
         exposed' = exposed \ W,
         \A w \in Workers \ W :
           /\ phase'[w] = "syncing" <=> phase[w] = "syncing"
           /\ phase[w] = "syncing" => job'[w] = job[w],
         \A w \in W : phase'[w] # "syncing"
  PROVE  Lease!Lose
<1>1. Holding' = Holding \ (W \X Accounts)
  BY DEF Holding, Syncing
<1>2. JustEnded' = JustEnded
  BY DEF JustEnded
<1>3. QED
  BY <1>1, <1>2 DEF Lease!Lose

\* A claim starts a lease; every other sync of the account has outlived its own
\* or holds a weak one.
LEMMA ClaimAcquires ==
  ASSUME TypeOK, WindowGuarded, NEW w \in Workers, Claim(w)
  PROVE  Lease!Acquire(w, job[w])
<1> DEFINE a == job[w]
<1>1. a \in Accounts /\ ~Locked(a) /\ phase[w] = "delivered"
  BY DEF Claim, TakeClaim, TypeOK
<1>2. /\ phase' = [phase EXCEPT ![w] = "syncing"]
      /\ claimAge' = [claimAge EXCEPT ![w] = 0]
      /\ job' = job
      /\ UNCHANGED <<synced, completedAge>>
  BY DEF Claim, TakeClaim
<1>3. \A b \in Accounts : <<w, b>> \notin Holding
  BY <1>1, HoldingIs DEF Syncing
<1>4. \A v \in Workers :
        <<v, a>> \in Holding => claimAge[v] = LockWindow \/ v \in exposed
  BY <1>1, HoldingIs, ClaimNeedsOutlived
<1>5. Holding' = Holding \cup {<<w, a>>}
  <2>1. \A v \in Workers, b \in Accounts :
          Syncing(v, b)' <=> (Syncing(v, b) \/ (v = w /\ b = a))
    BY <1>1, <1>2 DEF Syncing, TypeOK
  <2>2. QED
    BY <1>1, <2>1 DEF Holding
<1>6. JustEnded' = JustEnded
  BY <1>2 DEF JustEnded
<1>7. \/ exposed' = exposed \ {w}
      \/ a \in JustEnded /\ exposed' = exposed \cup {w}
  <2>1. sameInstant'[a] => a \in JustEnded
    BY <1>1 DEF Claim, TakeClaim, JustEnded, TypeOK
  <2>2. exposed' = IF sameInstant'[a] THEN exposed \cup {w} ELSE exposed \ {w}
    BY DEF Claim
  <2>3. QED
    BY <2>1, <2>2
<1>8. QED
  BY <1>2, <1>3, <1>4, <1>5, <1>6, <1>7 DEF Lease!Acquire

\* The normal end of a sync gives its lease back.
LEMMA FinishGivesBack ==
  ASSUME TypeOK, NEW w \in Workers, Finish(w)
  PROVE  Lease!GiveBack(w, job[w])
<1> DEFINE a == job[w]
<1>1. a \in Accounts /\ Syncing(w, a)
  BY DEF Finish, Syncing, TypeOK
<1>2. /\ phase' = [phase EXCEPT ![w] = "idle"]
      /\ synced' = [synced EXCEPT ![a] = TRUE]
      /\ completedAge' = [completedAge EXCEPT ![a] = 0]
      /\ UNCHANGED <<job, claimAge>>
  BY DEF Finish, MarkSyncComplete
<1>3. <<w, a>> \in Holding
  BY <1>1, HoldingIs
<1>4. Holding' = Holding \ {<<w, a>>}
  <2>1. \A v \in Workers, b \in Accounts :
          Syncing(v, b)' <=> (Syncing(v, b) /\ ~(v = w /\ b = a))
    BY <1>1, <1>2 DEF Syncing, TypeOK
  <2>2. QED
    BY <2>1 DEF Holding
<1>5. JustEnded' = JustEnded \cup {a}
  <2>1. \A b \in Accounts : (synced'[b] /\ completedAge'[b] = 0)
                             <=> (synced[b] /\ completedAge[b] = 0) \/ b = a
    BY <1>1, <1>2 DEF TypeOK
  <2>2. QED
    BY <1>1, <2>1 DEF JustEnded
<1>6. {v \in Workers : Syncing(v, a) /\ claimAge[v] = 0} = Lease!Fresh(a)
  BY <1>1, HoldingIs DEF Lease!Fresh
<1>7. exposed' \in {exposed \ {w}, (exposed \cup Lease!Fresh(a)) \ {w}}
  BY <1>6 DEF Finish, ExposeFresh
<1>8. QED
  BY <1>2, <1>3, <1>4, <1>5, <1>7 DEF Lease!GiveBack

\* Time runs for the leases as it does for the claims.
LEMMA ClockElapses ==
  ASSUME TypeOK, ClockTick
  PROVE  Lease!Elapse
<1>1. Holding' = Holding
  BY DEF ClockTick, Holding, Syncing
<1>2. \A w \in Workers :
        (\E a \in Accounts : <<w, a>> \in Holding) <=> phase[w] = "syncing"
  BY HoldingIs DEF Syncing, TypeOK
<1>3. \A w \in Workers :
        claimAge[w] \in 0..LockWindow /\ LockWindow \in Nat
  BY DispatchAssumption DEF TypeOK
<1>4. claimAge' = [w \in Workers |->
                     IF phase[w] = "syncing" /\ claimAge[w] < LockWindow
                     THEN claimAge[w] + 1 ELSE claimAge[w]]
  BY <1>3 DEF ClockTick, Older
<1>5. claimAge' = [w \in Workers |->
                     IF /\ \E a \in Accounts : <<w, a>> \in Holding
                        /\ claimAge[w] < LockWindow
                     THEN claimAge[w] + 1 ELSE claimAge[w]]
  BY <1>2, <1>4
<1>6. JustEnded' = {}
  <2>1. SUFFICES ASSUME NEW a \in Accounts
                 PROVE  completedAge'[a] # 0
    BY DEF JustEnded
  <2>2. completedAge'[a] = Older(completedAge[a], Frequency + 1)
    BY DEF ClockTick
  <2>3. completedAge[a] \in 0..(Frequency + 1) /\ Frequency \in Nat
    BY DispatchAssumption DEF TypeOK
  <2>4. QED
    BY <2>2, <2>3 DEF Older
<1>7. exposed' = exposed
  BY DEF ClockTick
<1>8. QED
  BY <1>1, <1>5, <1>6, <1>7 DEF Lease!Elapse

\* The dispatch implements the lease specification: claims acquire, normal ends
\* give back, failures and stops lose, the clock elapses, and everything else
\* stutters.
THEOREM ImplementsLease == Spec => LeaseSpec
<1>1. Init => Lease!Init
  <2>1. Init => Holding = {} /\ JustEnded = {}
    BY DEF Init, Holding, JustEnded, Syncing
  <2>2. QED
    BY <2>1 DEF Init, Lease!Init
<1>2. ASSUME TypeOK, WindowGuarded, [Next]_vars
      PROVE  [Lease!Next]_(Lease!vars)
  <2> USE DEF account, scheduler, worker, history
  <2>1. ASSUME UNCHANGED <<claimAge, exposed, synced, completedAge>>,
               \A w \in Workers, a \in Accounts :
                 Syncing(w, a)' <=> Syncing(w, a)
        PROVE  UNCHANGED Lease!vars
    <3>1. Holding' = Holding
      BY <2>1 DEF Holding
    <3>2. JustEnded' = JustEnded
      BY <2>1 DEF JustEnded
    <3>3. QED
      BY <2>1, <3>1, <3>2 DEF Lease!vars
  <2>2. ASSUME NEW w \in Workers,
               Pop(w) \/ Refuse(w) \/ ClaimFails(w) \/ ClaimLogFails(w)
        PROVE  UNCHANGED Lease!vars
    <3>1. /\ UNCHANGED <<claimAge, exposed, synced, completedAge>>
          /\ \A v \in Workers \ {w} : phase'[v] = phase[v] /\ job'[v] = job[v]
          /\ phase[w] # "syncing" /\ phase'[w] # "syncing"
      BY <1>2, <2>2 DEF Pop, Refuse, ClaimFails, ClaimLogFails, TakeClaim, TypeOK
    <3>2. \A v \in Workers, a \in Accounts : Syncing(v, a)' <=> Syncing(v, a)
      BY <3>1 DEF Syncing
    <3>3. QED
      BY <2>1, <3>1, <3>2
  <2>3. ASSUME NEW w \in Workers, Claim(w)
        PROVE  Lease!Next
    BY <1>2, <2>3, ClaimAcquires DEF Lease!Next, TypeOK
  <2>4. ASSUME NEW w \in Workers, Finish(w)
        PROVE  Lease!Next
    BY <1>2, <2>4, FinishGivesBack DEF Lease!Next, TypeOK
  <2>5. ASSUME NEW w \in Workers, FinishFails(w)
        PROVE  Lease!Next
    <3>1. /\ UNCHANGED <<claimAge, synced, completedAge, job>>
          /\ exposed' = exposed \ {w}
          /\ \A v \in Workers \ {w} : phase'[v] = phase[v]
          /\ phase'[w] # "syncing"
      BY <1>2, <2>5 DEF FinishFails, TypeOK
    <3>2. {w} \in SUBSET Workers
      OBVIOUS
    <3>3. Lease!Lose
      BY <1>2, <3>1, <3>2, EndingLoses
    <3>4. QED
      BY <3>3 DEF Lease!Next
  <2>6. CASE ClockTick
    BY <1>2, <2>6, ClockElapses DEF Lease!Next
  <2>7. CASE StopWorkers \/ Crash
    <3>1. /\ UNCHANGED <<claimAge, synced, completedAge>>
          /\ exposed' = {}
          /\ \A v \in Workers : phase'[v] # "syncing"
      BY <2>7 DEF StopWorkers, Crash, EndWorkers
    <3>2. exposed' = exposed \ Workers
      BY <1>2, <3>1 DEF TypeOK
    <3>3. Lease!Lose
      BY <1>2, <3>1, <3>2, EndingLoses
    <3>4. QED
      BY <3>3 DEF Lease!Next
  <2>8. CASE \/ Tick \/ FindDueFails \/ Enqueue \/ EnqueueFails
             \/ (\E a \in Accounts : Request(a) \/ SetActive(a))
             \/ Start \/ StopScheduler \/ UNCHANGED vars
    <3>1. UNCHANGED <<phase, job, history, synced, completedAge>>
      BY <2>8 DEF Tick, FindDueFails, Enqueue, EnqueueFails, Request,
                  SetActive, Start, StopScheduler, vars
    <3>2. QED
      BY <2>1, <3>1 DEF Syncing
  <2>9. QED
    BY <1>2, <2>2, <2>3, <2>4, <2>5, <2>6, <2>7, <2>8 DEF Next, WorkerStep
<1>3. TypeOK /\ WindowGuarded /\ [Next]_vars => [Lease!Next]_(Lease!vars)
  BY <1>2
<1>4. QED
  BY <1>1, <1>3, WindowIsGuarded, PTL DEF Spec, LeaseSpec, Lease!Spec

-----------------------------------------------------------------------------
(* The log rows.  A draining server has stopped its scheduler, which the   *)
(* model counts as a fault: that no failure has happened means that nobody *)
(* is about to cancel the workers.                                         *)

Running(a) == {w \in Workers : Syncing(w, a)}

Undisturbed == faults = 0 => server # "draining"

LEMMA RunningFinite ==
  ASSUME NEW a
  PROVE  IsFiniteSet(Running(a)) /\ Cardinality(Running(a)) \in Nat
<1>1. Running(a) \in SUBSET Workers
  BY DEF Running
<1>2. IsFiniteSet(Running(a))
  BY <1>1, DispatchAssumption, FS_Subset
<1>3. QED
  BY <1>2, FS_CardinalityType

\* What the invariant says of one account.
Accounted(a) ==
  /\ openLogs[a] >= Cardinality(Running(a))
  /\ faults = 0 => openLogs[a] = Cardinality(Running(a))

LEMMA AccountedAll == LogAccounting <=> \A a \in Accounts : Accounted(a)
  BY DEF LogAccounting, Accounted, Running

LEMMA AccountedAllNext ==
  LogAccounting' <=> \A a \in Accounts : Accounted(a)'
  BY DEF LogAccounting, Accounted, Running

\* A step that starts and ends no sync.
LEMMA SameSyncs ==
  ASSUME LogAccounting, UNCHANGED openLogs, faults' = 0 => faults = 0,
         \A w \in Workers, a \in Accounts : Syncing(w, a)' <=> Syncing(w, a)
  PROVE  LogAccounting'
<1>1. \A a \in Accounts : Running(a)' = Running(a)
  BY DEF Running
<1>2. \A a \in Accounts : Accounted(a)'
  BY <1>1, AccountedAll DEF Accounted
<1>3. QED
  BY <1>2, AccountedAllNext

\* Worker w starts a sync of account a and opens its row.
LEMMA SyncStarts ==
  ASSUME TypeOK, LogAccounting, NEW w \in Workers, NEW a \in Accounts,
         phase[w] # "syncing",
         phase' = [phase EXCEPT ![w] = "syncing"], job' = job, job[w] = a,
         openLogs' = [openLogs EXCEPT ![a] = @ + 1], faults' = faults
  PROVE  LogAccounting'
<1>1. ASSUME NEW b \in Accounts
      PROVE  Accounted(b)'
  <2>1. Accounted(b) /\ openLogs[b] \in Int
    BY AccountedAll DEF TypeOK
  <2>2. IsFiniteSet(Running(b)) /\ Cardinality(Running(b)) \in Nat
    BY RunningFinite
  <2>3. CASE b = a
    <3>1. Running(b)' = Running(b) \cup {w} /\ w \notin Running(b)
      BY <2>3 DEF Running, Syncing, TypeOK
    <3>2. Cardinality(Running(b)') = Cardinality(Running(b)) + 1
      BY <2>2, <3>1, FS_AddElement
    <3>3. openLogs'[b] = openLogs[b] + 1
      BY <2>3 DEF TypeOK
    <3>4. QED
      BY <2>1, <2>2, <3>2, <3>3 DEF Accounted
  <2>4. CASE b # a
    <3>1. Running(b)' = Running(b)
      BY <2>4 DEF Running, Syncing, TypeOK
    <3>2. openLogs'[b] = openLogs[b]
      BY <2>4 DEF TypeOK
    <3>3. QED
      BY <2>1, <3>1, <3>2 DEF Accounted
  <2>5. QED
    BY <2>3, <2>4
<1>2. QED
  BY <1>1, AccountedAllNext

\* Worker w ends its sync of account a; it closes the row, or a failure has
\* kept it from that.
LEMMA SyncEnds ==
  ASSUME TypeOK, LogAccounting, NEW w \in Workers, NEW a \in Accounts,
         Syncing(w, a),
         phase' = [phase EXCEPT ![w] = "idle"], job' = job,
         \/ openLogs' = [openLogs EXCEPT ![a] = @ - 1]
         \/ openLogs' = openLogs /\ faults' # 0,
         faults' = 0 => faults = 0
  PROVE  LogAccounting'
<1>1. ASSUME NEW b \in Accounts
      PROVE  Accounted(b)'
  <2>1. Accounted(b) /\ openLogs[b] \in Int
    BY AccountedAll DEF TypeOK
  <2>2. IsFiniteSet(Running(b)) /\ Cardinality(Running(b)) \in Nat
    BY RunningFinite
  <2>3. CASE b = a
    <3>1. Running(b)' = Running(b) \ {w} /\ w \in Running(b)
      BY <2>3 DEF Running, Syncing, TypeOK
    <3>2. Cardinality(Running(b)') = Cardinality(Running(b)) - 1
      BY <2>2, <3>1, FS_RemoveElement
    <3>3. \/ openLogs'[b] = openLogs[b] - 1
          \/ openLogs'[b] = openLogs[b] /\ faults' # 0
      BY <2>3 DEF TypeOK
    <3>4. QED
      BY <2>1, <2>2, <3>2, <3>3 DEF Accounted
  <2>4. CASE b # a
    <3>1. Running(b)' = Running(b)
      BY <2>4 DEF Running, Syncing, TypeOK
    <3>2. openLogs'[b] = openLogs[b]
      BY <2>4 DEF TypeOK
    <3>3. QED
      BY <2>1, <3>1, <3>2 DEF Accounted
  <2>5. QED
    BY <2>3, <2>4
<1>2. QED
  BY <1>1, AccountedAllNext

\* Every worker is cancelled, which only a failure brings about.
LEMMA AllSyncsEnd ==
  ASSUME TypeOK, LogAccounting, UNCHANGED openLogs, faults' # 0,
         \A w \in Workers : phase'[w] # "syncing"
  PROVE  LogAccounting'
<1>1. ASSUME NEW b \in Accounts
      PROVE  Accounted(b)'
  <2>1. Accounted(b) /\ openLogs[b] \in Int
    BY AccountedAll DEF TypeOK
  <2>2. Cardinality(Running(b)) \in Nat
    BY RunningFinite
  <2>3. Running(b)' = {}
    BY DEF Running, Syncing
  <2>4. Cardinality(Running(b)') = 0
    BY <2>3, FS_EmptySet
  <2>5. QED
    BY <2>1, <2>2, <2>4 DEF Accounted
<1>2. QED
  BY <1>1, AccountedAllNext

LEMMA LogStep ==
  ASSUME TypeOK, LogAccounting, Undisturbed, [Next]_vars
  PROVE  LogAccounting' /\ Undisturbed'
<1> USE DEF account, scheduler, worker, history
<1> DEFINE SyncsKept == /\ UNCHANGED openLogs
                        /\ \A w \in Workers, a \in Accounts :
                             Syncing(w, a)' <=> Syncing(w, a)
<1>1. faults \in Nat /\ faults' \in Nat /\ (faults' = 0 => faults = 0)
  <2>1. faults \in Nat
    BY DispatchAssumption DEF TypeOK
  <2>2. faults' = faults \/ faults' = faults + 1
    BY DEF Next, WorkerStep, vars, Tick, FindDueFails, Enqueue, EnqueueFails,
           Pop, Refuse, Claim, ClaimFails, ClaimLogFails, Finish, FinishFails,
           ClockTick, Request, SetActive, Start, StopScheduler, StopWorkers,
           Crash
  <2>3. QED
    BY <2>1, <2>2
<1>2. ASSUME SyncsKept
      PROVE  LogAccounting'
  BY <1>1, <1>2, SameSyncs
<1>3. CASE \/ Tick \/ FindDueFails \/ Enqueue \/ EnqueueFails \/ ClockTick
           \/ (\E a \in Accounts : Request(a) \/ SetActive(a))
           \/ UNCHANGED vars
  <2>1. UNCHANGED <<openLogs, phase, job, server>>
    BY <1>3 DEF Tick, FindDueFails, Enqueue, EnqueueFails, ClockTick, Request,
                SetActive, vars
  <2>2. SyncsKept
    BY <2>1 DEF Syncing
  <2>3. QED
    BY <1>1, <1>2, <2>1, <2>2 DEF Undisturbed
<1>4. CASE Start \/ StopScheduler
  <2>1. UNCHANGED <<openLogs, phase, job>>
    BY <1>4 DEF Start, StopScheduler
  <2>2. server' = "up" \/ faults' = faults + 1
    BY <1>4 DEF Start, StopScheduler
  <2>3. SyncsKept
    BY <2>1 DEF Syncing
  <2>4. QED
    BY <1>1, <1>2, <2>2, <2>3 DEF Undisturbed
<1>5. ASSUME NEW w \in Workers,
             Pop(w) \/ Refuse(w) \/ ClaimFails(w) \/ ClaimLogFails(w)
      PROVE  LogAccounting' /\ Undisturbed'
  <2>1. /\ UNCHANGED <<openLogs, server>>
        /\ \A v \in Workers \ {w} : phase'[v] = phase[v] /\ job'[v] = job[v]
        /\ phase[w] # "syncing" /\ phase'[w] # "syncing"
    BY <1>5 DEF Pop, Refuse, ClaimFails, ClaimLogFails, TypeOK
  <2>2. SyncsKept
    BY <2>1 DEF Syncing
  <2>3. QED
    BY <1>1, <1>2, <2>1, <2>2 DEF Undisturbed
<1>6. ASSUME NEW w \in Workers, Claim(w)
      PROVE  LogAccounting' /\ Undisturbed'
  <2>1. /\ phase[w] # "syncing"
        /\ phase' = [phase EXCEPT ![w] = "syncing"]
        /\ openLogs' = [openLogs EXCEPT ![job[w]] = @ + 1]
        /\ UNCHANGED <<job, server, faults>>
    BY <1>6 DEF Claim
  <2>2. job[w] \in Accounts
    BY DEF TypeOK
  <2>3. LogAccounting'
    BY <2>1, <2>2, SyncStarts
  <2>4. QED
    BY <2>1, <2>3 DEF Undisturbed
<1>7. ASSUME NEW w \in Workers, Finish(w) \/ FinishFails(w)
      PROVE  LogAccounting' /\ Undisturbed'
  <2>1. /\ Syncing(w, job[w])
        /\ phase' = [phase EXCEPT ![w] = "idle"]
        /\ UNCHANGED <<job, server>>
    BY <1>7 DEF Finish, FinishFails, Syncing
  <2>2. \/ openLogs' = [openLogs EXCEPT ![job[w]] = @ - 1]
        \/ openLogs' = openLogs /\ faults' # 0
    BY <1>1, <1>7 DEF Finish, FinishFails
  <2>3. job[w] \in Accounts
    BY DEF TypeOK
  <2>4. faults' = 0 => faults = 0
    BY <1>1
  <2>5. LogAccounting'
    BY <2>1, <2>2, <2>3, <2>4, SyncEnds
  <2>6. QED
    BY <2>1, <2>4, <2>5 DEF Undisturbed
<1>8. CASE StopWorkers \/ Crash
  <2>1. /\ UNCHANGED openLogs
        /\ \A w \in Workers : phase'[w] # "syncing"
        /\ server' = "down"
    BY <1>8 DEF StopWorkers, Crash, EndWorkers
  <2>2. faults' # 0
    <3>1. CASE StopWorkers
      BY <3>1 DEF StopWorkers, Undisturbed
    <3>2. CASE Crash
      BY <1>1, <3>2 DEF Crash
    <3>3. QED
      BY <1>8, <3>1, <3>2
  <2>3. QED
    BY <2>1, <2>2, AllSyncsEnd DEF Undisturbed
<1>9. QED
  BY <1>3, <1>4, <1>5, <1>6, <1>7, <1>8 DEF Next, WorkerStep

\* Whatever dies, every running sync has a SINOE_SYNC_LOG row of its own in
\* status "running"; and as long as nothing failed, no other row has it.
THEOREM LogsAreAccounted == Spec => []LogAccounting
<1>1. Init => LogAccounting /\ Undisturbed
  <2>1. SUFFICES ASSUME Init
                 PROVE  (\A a \in Accounts : Accounted(a)) /\ Undisturbed
    BY AccountedAll
  <2>2. ASSUME NEW a \in Accounts
        PROVE  Accounted(a)
    <3>1. Running(a) = {}
      BY <2>1 DEF Init, Running, Syncing
    <3>2. Cardinality(Running(a)) = 0
      BY <3>1, FS_EmptySet
    <3>3. openLogs[a] = 0
      BY <2>1 DEF Init
    <3>4. QED
      BY <3>2, <3>3 DEF Accounted
  <2>3. QED
    BY <2>1, <2>2 DEF Init, Undisturbed
<1>2. TypeOK /\ LogAccounting /\ Undisturbed /\ [Next]_vars
        => LogAccounting' /\ Undisturbed'
  BY LogStep
<1>3. QED
  BY <1>1, <1>2, TypeCorrect, PTL DEF Spec

=============================================================================
