---------------------------- MODULE SyncDispatch ----------------------------
(***************************************************************************)
(* How a due account becomes a running sync: the scheduler reads           *)
(* SINOE_ACCOUNT and pushes jobs onto three Redis lists, the worker loops  *)
(* pop them, claim the account, write SINOE_SYNC_LOG, run the sync and     *)
(* stamp the account, while the backend requests syncs and switches        *)
(* accounts on and off and the server is stopped, killed and restarted.    *)
(*                                                                         *)
(* All of it runs on one asyncio loop with blocking database calls, so an  *)
(* action spans the code between two awaits.  The unit of time is the      *)
(* scheduler's TICK_INTERVAL_SECONDS; stamps are kept as ages, which stop  *)
(* growing once no comparison in the code can tell them apart.  The stamps *)
(* are DATETIME columns: two events of one second get the same stamp.      *)
(***************************************************************************)
EXTENDS Integers, FiniteSets, Sequences

CONSTANTS
  Accounts,      \* rows of SINOE_ACCOUNT
  Workers,       \* the worker_concurrency worker loops
  LockWindow,    \* the five minutes of claim_for_sync
  Frequency,     \* sync_frequency_minutes, the same for every account
  DueLimit,      \* find_due's LIMIT
  Requestable,   \* bound: accounts the backend may request a sync of
  Switchable,    \* bound: accounts the backend may switch on and off
  MaxCopies,     \* bound: jobs of one account kept in one Redis list
  MaxFaults      \* bound: kills, shutdowns and failed calls

ASSUME DispatchAssumption ==
  /\ IsFiniteSet(Accounts)
  /\ IsFiniteSet(Workers)
  /\ Requestable \subseteq Accounts
  /\ Switchable \subseteq Accounts
  /\ LockWindow \in Nat \ {0}
  /\ Frequency \in Nat
  /\ DueLimit \in Nat \ {0}
  /\ MaxCopies \in Nat \ {0}
  /\ MaxFaults \in Nat

VARIABLES
  \* SINOE_ACCOUNT
  active,        \* is_active and not deleted
  requested,     \* sync_requested_at is set
  startedAge,    \* age of last_sync_started_at; LockWindow: that old or NULL
  synced,        \* last_sync_completed_at is not NULL
  completedAge,  \* age of last_sync_completed_at, when synced
  sameInstant,   \* last_sync_completed_at = last_sync_started_at
  \* SINOE_SYNC_LOG
  openLogs,      \* rows of the account in status "running"
  \* Redis
  queue,         \* the three lists, next job to pop first
  \* the server process
  server,        \* "up", "draining" (scheduler stopped) or "down"
  pending,       \* jobs the running tick has read but not pushed yet
  slept,         \* the scheduler's wait since its last tick has elapsed
  phase,         \* what each worker loop is awaiting
  job,           \* the account of the worker's last job
  claimAge,      \* age of the worker's own claim (history variable)
  exposed,       \* workers whose claim shares its second with the end of
                 \* another sync of the account (history variable)
  faults         \* kills, shutdowns and failed calls so far

account == <<active, requested, startedAge, synced, completedAge, sameInstant>>
scheduler == <<pending, slept>>
history == <<claimAge, exposed>>
worker == <<phase, job, history>>
vars == <<account, openLogs, queue, server, scheduler, worker, faults>>

Queues == {"priority", "monitor", "initial"}
Phases == {"idle", "delivered", "syncing"}

\* BRPOP takes the first non-empty list of QUEUES_BY_PRIORITY.
PoppedBefore == [priority |-> {},
                 monitor  |-> {"priority"},
                 initial  |-> {"priority", "monitor"}]

\* find_due sorts requested rows first and NULL completions before stamps.
PushedBefore == [priority |-> {},
                 initial  |-> {"priority"},
                 monitor  |-> {"priority", "initial"}]

Older(age, limit) == IF age < limit THEN age + 1 ELSE limit

Syncing(w, a) == phase[w] = "syncing" /\ job[w] = a

-----------------------------------------------------------------------------
Init ==
  /\ active = [a \in Accounts |-> TRUE]
  /\ requested = [a \in Accounts |-> FALSE]
  /\ startedAge = [a \in Accounts |-> LockWindow]
  /\ synced = [a \in Accounts |-> FALSE]
  /\ completedAge = [a \in Accounts |-> Frequency + 1]
  /\ sameInstant = [a \in Accounts |-> FALSE]
  /\ openLogs = [a \in Accounts |-> 0]
  /\ queue = [q \in Queues |-> <<>>]
  /\ server = "down"
  /\ pending = {}
  /\ slept = TRUE
  /\ phase = [w \in Workers |-> "idle"]
  /\ job \in [Workers -> Accounts]
  /\ claimAge = [w \in Workers |-> 0]
  /\ exposed = {}
  /\ faults = 0

-----------------------------------------------------------------------------
(* The scheduler: _tick reads the due accounts once, then awaits one LPUSH *)
(* per account with the queue chosen from that snapshot.                   *)

\* Mutant of Due: the filter forgets last_sync_completed_at IS NULL.
MutDueNoNull(a) ==
  /\ active[a]
  /\ requested[a] \/ (synced[a] /\ completedAge[a] > Frequency)

Due(a) ==
  /\ active[a]
  /\ \/ requested[a]
     \/ ~synced[a]
     \/ completedAge[a] > Frequency

QueueFor(a) ==
  CASE requested[a]                -> "priority"
    [] ~requested[a] /\ ~synced[a] -> "initial"
    [] ~requested[a] /\ synced[a]  -> "monitor"

\* ORDER BY sync_requested_at DESC, last_sync_completed_at ASC.  Request times
\* are not modelled: two requested accounts come in either order.
SortsBefore(a, b) ==
  \/ QueueFor(a) \in PushedBefore[QueueFor(b)]
  \/ /\ QueueFor(a) = "monitor" /\ QueueFor(b) = "monitor"
     /\ completedAge[a] > completedAge[b]

FindDue ==
  LET due == {a \in Accounts : Due(a)}
  IN  {S \in SUBSET due :
         /\ \/ S = due /\ Cardinality(S) <= DueLimit
            \/ Cardinality(S) = DueLimit
         /\ \A a \in S, b \in due \ S : ~SortsBefore(b, a)}

Tick ==
  /\ server = "up" /\ pending = {} /\ slept
  /\ \E S \in FindDue : pending' = {<<a, QueueFor(a)>> : a \in S}
  /\ slept' = FALSE
  /\ UNCHANGED <<account, openLogs, queue, server, worker, faults>>

\* find_due raises: _loop logs the error and waits for the next tick.
FindDueFails ==
  /\ server = "up" /\ pending = {} /\ slept
  /\ faults < MaxFaults
  /\ faults' = faults + 1
  /\ slept' = FALSE
  /\ UNCHANGED <<account, openLogs, queue, server, pending, worker>>

Copies(a, jobs) == Cardinality({i \in DOMAIN jobs : jobs[i] = a})

\* LPUSH has no limit and never waits.  A push beyond the bound leaves the
\* list as it is: the copies already there stand for it.
Enqueue ==
  \E p \in pending :
    /\ server = "up"
    /\ \A o \in pending : o[2] \notin PushedBefore[p[2]]
    /\ queue' = [queue EXCEPT ![p[2]] =
                   IF Copies(p[1], @) < MaxCopies THEN Append(@, p[1]) ELSE @]
    /\ pending' = pending \ {p}
    /\ UNCHANGED <<account, openLogs, server, slept, worker, faults>>

\* LPUSH raises: _loop logs the error and the rest of the tick is dropped.
EnqueueFails ==
  /\ server = "up" /\ pending # {}
  /\ faults < MaxFaults
  /\ faults' = faults + 1
  /\ pending' = {}
  /\ UNCHANGED <<account, openLogs, queue, server, slept, worker>>

-----------------------------------------------------------------------------
(* A worker loop: pop a job, claim its account, sync, close the log and    *)
(* stamp the account.                                                      *)

Pop(w) ==
  /\ server # "down" /\ phase[w] = "idle"
  /\ \E q \in Queues :
       /\ queue[q] # <<>>
       /\ \A p \in PoppedBefore[q] : queue[p] = <<>>
       /\ job' = [job EXCEPT ![w] = Head(queue[q])]
       /\ queue' = [queue EXCEPT ![q] = Tail(@)]
  /\ phase' = [phase EXCEPT ![w] = "delivered"]
  /\ UNCHANGED <<account, openLogs, server, scheduler, history, faults>>

\* Mutant of Locked: an account that has ever completed is never refused.
MutLockedNeverSynced(a) == startedAge[a] < LockWindow /\ ~synced[a]

\* Mutant of Locked: the window ends one unit early.
MutLockedOffByOne(a) == startedAge[a] < LockWindow - 1 /\ ~sameInstant[a]

\* claim_for_sync's refusal test, on the row it locked.
Locked(a) == startedAge[a] < LockWindow /\ ~sameInstant[a]

\* Mutant of Refuse: the request is cleared before the refusal is known.
MutRefuseClears(w) ==
  /\ phase[w] = "delivered"
  /\ Locked(job[w])
  /\ requested' = [requested EXCEPT ![job[w]] = FALSE]
  /\ phase' = [phase EXCEPT ![w] = "idle"]
  /\ UNCHANGED <<active, startedAge, synced, completedAge, sameInstant,
                 openLogs, queue, server, scheduler, job, history, faults>>

Refuse(w) ==
  /\ phase[w] = "delivered"
  /\ Locked(job[w])
  /\ phase' = [phase EXCEPT ![w] = "idle"]
  /\ UNCHANGED <<account, openLogs, queue, server, scheduler, job, history,
                 faults>>

\* claim_for_sync raises: nothing is committed and the job is gone.
ClaimFails(w) ==
  /\ phase[w] = "delivered"
  /\ faults < MaxFaults
  /\ faults' = faults + 1
  /\ phase' = [phase EXCEPT ![w] = "idle"]
  /\ UNCHANGED <<account, openLogs, queue, server, scheduler, job, history>>

\* Mutant of TakeClaim: sync_requested_at is left set.
MutTakeClaimKeepsRequest(a) ==
  /\ ~Locked(a)
  /\ startedAge' = [startedAge EXCEPT ![a] = 0]
  /\ \E same \in BOOLEAN :
       /\ same => synced[a] /\ completedAge[a] = 0
       /\ sameInstant' = [sameInstant EXCEPT ![a] = same]
  /\ UNCHANGED <<active, requested, synced, completedAge>>

\* The stamps claim_for_sync commits for account a.
TakeClaim(a) ==
  /\ ~Locked(a)
  /\ startedAge' = [startedAge EXCEPT ![a] = 0]
  /\ requested' = [requested EXCEPT ![a] = FALSE]
  /\ \E same \in BOOLEAN :
       /\ same => synced[a] /\ completedAge[a] = 0
       /\ sameInstant' = [sameInstant EXCEPT ![a] = same]
  /\ UNCHANGED <<active, synced, completedAge>>

Claim(w) ==
  /\ phase[w] = "delivered"
  /\ TakeClaim(job[w])
  /\ openLogs' = [openLogs EXCEPT ![job[w]] = @ + 1]
  /\ phase' = [phase EXCEPT ![w] = "syncing"]
  /\ claimAge' = [claimAge EXCEPT ![w] = 0]
  /\ exposed' = IF sameInstant'[job[w]] THEN exposed \cup {w}
                                        ELSE exposed \ {w}
  /\ UNCHANGED <<queue, server, scheduler, job, faults>>

\* sync_logs.start raises after the claim was committed: the worker loop
\* catches it and goes back to BRPOP, the claim stays.
ClaimLogFails(w) ==
  /\ phase[w] = "delivered"
  /\ faults < MaxFaults
  /\ faults' = faults + 1
  /\ TakeClaim(job[w])
  /\ phase' = [phase EXCEPT ![w] = "idle"]
  /\ UNCHANGED <<openLogs, queue, server, scheduler, job, history>>

\* The stamp mark_sync_complete commits for account a.
MarkSyncComplete(a) ==
  /\ synced' = [synced EXCEPT ![a] = TRUE]
  /\ completedAge' = [completedAge EXCEPT ![a] = 0]
  /\ \E same \in BOOLEAN :
       /\ same => startedAge[a] = 0
       /\ sameInstant' = [sameInstant EXCEPT ![a] = same]
  /\ UNCHANGED <<active, requested, startedAge>>

\* An end of account a's sync that shares the second of the last claim exposes
\* whoever claimed in it.
ExposeFresh(w, a) ==
  exposed' = IF sameInstant'[a]
             THEN (exposed \cup {v \in Workers : Syncing(v, a) /\ claimAge[v] = 0})
                    \ {w}
             ELSE exposed \ {w}

\* Mutant of Finish: sync_logs.finish is left out.
MutFinishKeepsLog(w) ==
  /\ phase[w] = "syncing"
  /\ MarkSyncComplete(job[w])
  /\ ExposeFresh(w, job[w])
  /\ phase' = [phase EXCEPT ![w] = "idle"]
  /\ UNCHANGED <<openLogs, queue, server, scheduler, job, claimAge, faults>>

\* process ends, whatever its status: both stamps are written with no await
\* in between.
Finish(w) ==
  /\ phase[w] = "syncing"
  /\ openLogs' = [openLogs EXCEPT ![job[w]] = @ - 1]
  /\ MarkSyncComplete(job[w])
  /\ ExposeFresh(w, job[w])
  /\ phase' = [phase EXCEPT ![w] = "idle"]
  /\ UNCHANGED <<queue, server, scheduler, job, claimAge, faults>>

\* sync_logs.finish raises, or it commits and mark_sync_complete raises.
FinishFails(w) ==
  /\ phase[w] = "syncing"
  /\ faults < MaxFaults
  /\ faults' = faults + 1
  /\ \/ UNCHANGED openLogs
     \/ openLogs' = [openLogs EXCEPT ![job[w]] = @ - 1]
  /\ phase' = [phase EXCEPT ![w] = "idle"]
  /\ exposed' = exposed \ {w}
  /\ UNCHANGED <<account, queue, server, scheduler, job, claimAge>>

-----------------------------------------------------------------------------
(* The clock and the backend.                                              *)

ClockTick ==
  /\ startedAge' = [a \in Accounts |-> Older(startedAge[a], LockWindow)]
  /\ completedAge' = [a \in Accounts |-> Older(completedAge[a], Frequency + 1)]
  /\ claimAge' = [w \in Workers |->
                    IF phase[w] = "syncing" THEN Older(claimAge[w], LockWindow)
                                            ELSE claimAge[w]]
  /\ slept' = (slept \/ pending = {})
  /\ UNCHANGED <<active, requested, synced, sameInstant, openLogs, queue,
                 server, pending, phase, job, exposed, faults>>

Request(a) ==
  /\ a \in Requestable
  /\ requested' = [requested EXCEPT ![a] = TRUE]
  /\ UNCHANGED <<active, startedAge, synced, completedAge, sameInstant,
                 openLogs, queue, server, scheduler, worker, faults>>

SetActive(a) ==
  /\ a \in Switchable
  /\ active' = [active EXCEPT ![a] = ~@]
  /\ UNCHANGED <<requested, startedAge, synced, completedAge, sameInstant,
                 openLogs, queue, server, scheduler, worker, faults>>

-----------------------------------------------------------------------------
(* The server's life: lifespan starts everything, stops the scheduler and  *)
(* then cancels the worker tasks; a kill does both at any moment.  Redis   *)
(* and the database keep their state.                                      *)

Start ==
  /\ server = "down"
  /\ server' = "up"
  /\ slept' = TRUE
  /\ UNCHANGED <<account, openLogs, queue, pending, worker, faults>>

StopScheduler ==
  /\ server = "up"
  /\ faults < MaxFaults
  /\ faults' = faults + 1
  /\ server' = "draining"
  /\ pending' = {}
  /\ UNCHANGED <<account, openLogs, queue, slept, worker>>

\* Every worker task dies: a popped job is lost, a cancelled process skips
\* finish and mark_sync_complete.
EndWorkers ==
  /\ server' = "down"
  /\ phase' = [w \in Workers |-> "idle"]
  /\ exposed' = {}
  /\ pending' = {}
  /\ UNCHANGED <<account, openLogs, queue, slept, job, claimAge>>

StopWorkers ==
  /\ server = "draining"
  /\ EndWorkers
  /\ UNCHANGED faults

Crash ==
  /\ server # "down"
  /\ faults < MaxFaults
  /\ faults' = faults + 1
  /\ EndWorkers

-----------------------------------------------------------------------------
WorkerStep(w) ==
  \/ Pop(w) \/ Refuse(w) \/ Claim(w) \/ Finish(w)
  \/ ClaimFails(w) \/ ClaimLogFails(w) \/ FinishFails(w)

Next ==
  \/ Tick \/ FindDueFails \/ Enqueue \/ EnqueueFails
  \/ \E w \in Workers : WorkerStep(w)
  \/ ClockTick
  \/ \E a \in Accounts : Request(a) \/ SetActive(a)
  \/ Start \/ StopScheduler \/ StopWorkers \/ Crash

Spec == Init /\ [][Next]_vars

\* The event loop runs every ready task, every await of a sync has a timeout,
\* time passes, and a stopped server is started again.
Fairness ==
  /\ WF_vars(Tick) /\ WF_vars(Enqueue)
  /\ \A w \in Workers : /\ WF_vars(Pop(w))
                        /\ WF_vars(Refuse(w) \/ Claim(w))
                        /\ WF_vars(Finish(w))
  /\ WF_vars(ClockTick)
  /\ WF_vars(StopWorkers) /\ WF_vars(Start)

FairSpec == Spec /\ Fairness

-----------------------------------------------------------------------------
\* Every variable keeps its type; the ages never pass the value at which the
\* code's comparisons stop changing.
TypeOK ==
  /\ active \in [Accounts -> BOOLEAN]
  /\ requested \in [Accounts -> BOOLEAN]
  /\ startedAge \in [Accounts -> 0..LockWindow]
  /\ synced \in [Accounts -> BOOLEAN]
  /\ completedAge \in [Accounts -> 0..(Frequency + 1)]
  /\ sameInstant \in [Accounts -> BOOLEAN]
  /\ openLogs \in [Accounts -> Int]
  /\ queue \in [Queues -> Seq(Accounts)]
  /\ server \in {"up", "draining", "down"}
  /\ pending \subseteq Accounts \X Queues
  /\ slept \in BOOLEAN
  /\ phase \in [Workers -> Phases]
  /\ job \in [Workers -> Accounts]
  /\ claimAge \in [Workers -> 0..LockWindow]
  /\ exposed \subseteq Workers
  /\ faults \in 0..MaxFaults

\* Two workers sync one account only if one of them has been at it for the
\* whole lock window, or claimed in the second in which another sync of the
\* account ended: any other claim's stamp keeps others out for its window.
ExclusiveWithinWindow ==
  \A v, w \in Workers, a \in Accounts :
    v # w /\ Syncing(v, a) /\ Syncing(w, a) =>
      \/ claimAge[v] = LockWindow \/ claimAge[w] = LockWindow
      \/ v \in exposed \/ w \in exposed

\* Why: while a claim that is not exposed is inside its window the row still
\* shows its stamp, the stamps differ, and every other sync of the account has
\* outlived its own claim or is exposed.
WindowGuarded ==
  \A w \in Workers, a \in Accounts :
    Syncing(w, a) /\ claimAge[w] < LockWindow /\ w \notin exposed =>
      /\ startedAge[a] = claimAge[w]
      /\ ~sameInstant[a]
      /\ \A v \in Workers \ {w} :
           Syncing(v, a) => claimAge[v] = LockWindow \/ v \in exposed

\* The leases of SyncLease: the accounts the workers are syncing, and those
\* whose last sync ended in this unit of time.
Holding == {h \in Workers \X Accounts : Syncing(h[1], h[2])}
JustEnded == {a \in Accounts : synced[a] /\ completedAge[a] = 0}

Lease == INSTANCE SyncLease
           WITH Window <- LockWindow, holds <- Holding, age <- claimAge,
                weak <- exposed, recent <- JustEnded

\* The dispatch implements the lease claim_for_sync promises: only ends weaken
\* leases, and only those that began in the same unit of time.
LeaseSpec == Lease!Spec

\* Every running sync has its own SINOE_SYNC_LOG row in status "running", and
\* without a failure no other row stays in that status.
LogAccounting ==
  \A a \in Accounts :
    LET live == Cardinality({w \in Workers : Syncing(w, a)})
    IN  /\ openLogs[a] >= live
        /\ faults = 0 => openLogs[a] = live

\* Nothing but the claim that serves it takes a sync request back: not a
\* refused or lost job, not a finishing sync, not a stop or a crash.
RequestKept ==
  [][\A a \in Accounts :
       requested[a] /\ ~requested'[a] =>
         \E w \in Workers : phase[w] = "delivered" /\ job[w] = a
                            /\ ~Locked(a)]_vars

\* A request survives duplicates, refused and lost jobs, Redis errors, stops
\* and crashes until a worker claims the account, unless it is switched off.
RequestClaimed ==
  \A a \in Accounts : requested[a] ~> ~requested[a] \/ ~active[a]

\* Account a waits in a list other than the first one, no job of it is being
\* claimed, and a list that is popped before holds a job of another account.
Waiting(a, q) ==
  /\ \E i \in DOMAIN queue[q] : queue[q][i] = a
  /\ \A w \in Workers : phase[w] = "delivered" => job[w] # a

Starved(a) ==
  \E q \in Queues \ {"priority"} :
    /\ <>[]Waiting(a, q)
    /\ []<>(\E p \in PoppedBefore[q] : \E i \in DOMAIN queue[p] : queue[p][i] # a)

\* An account that stays active keeps completing syncs, whatever was lost: no
\* claim left behind by a dead worker locks it for good.  One thing alone stops
\* it: its job waits for ever behind those of lists that BRPOP prefers.
KeepsSyncing ==
  \A a \in Accounts :
    []<>(completedAge[a] = 0 \/ ~active[a]) \/ Starved(a)

\* Without that exception it does not hold: monitor jobs of other accounts can
\* keep an account from its first sync.
NobodyStarves ==
  \A a \in Accounts : []<>(completedAge[a] = 0 \/ ~active[a])

-----------------------------------------------------------------------------
(* What comments of the code say, and the code does not do.                *)

\* account_repo.py:96-99: FOR UPDATE keeps two jobs of one account from both
\* going ahead.
MutualExclusion ==
  \A v, w \in Workers, a \in Accounts :
    Syncing(v, a) /\ Syncing(w, a) => v = w

\* account_repo.py:93-94: None is returned if another worker is processing
\* the account.
RefusedOnlyWhenBusy ==
  [][\A w \in Workers :
       Refuse(w) => \E v \in Workers : Syncing(v, job[w])]_vars

\* account_repo.py:112-113: equal stamps mean that the last sync ended.
SameInstantMeansDone ==
  \A a \in Accounts :
    sameInstant[a] /\ startedAge[a] < LockWindow =>
      ~ \E w \in Workers : Syncing(w, a)

=============================================================================
