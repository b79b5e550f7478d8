------------------------------- MODULE Service -------------------------------
(***************************************************************************)
(* The server's lifespan around the pool: start launches the browsers      *)
(* before the worker loops begin; a shutdown stops the scheduler, cancels  *)
(* the worker loops where they are, waits for them, and stops the pool     *)
(* last.  The clients of the pool are the worker loops.                    *)
(***************************************************************************)
EXTENDS BrowserPool

VARIABLES
  service,  \* "boot", "serving", "draining" (no scheduler), "cancelling", "down"
  worker    \* each loop's task: "none", "loop", "cancelled", "done"

lifespan == <<service, worker>>
serviceVars == <<vars, lifespan>>

ServiceInit ==
  /\ Init
  /\ service = "boot"
  /\ worker = [c \in Clients |-> "none"]

-----------------------------------------------------------------------------
(* Startup.                                                                *)

\* browser_pool.start, browser by browser.
BootPool(p) == service = "boot" /\ Launch(p) /\ UNCHANGED lifespan

\* An exception in startup ends the process.
BootFails ==
  /\ service = "boot" /\ LaunchFails
  /\ service' = "down"
  /\ UNCHANGED worker

\* Mutant of StartWorkers: the loops begin while the pool is starting.
MutStartWorkersEarly ==
  /\ service = "boot"
  /\ service' = IF pool = "on" THEN "serving" ELSE service
  /\ worker' = [c \in Clients |-> "loop"]
  /\ UNCHANGED vars

\* worker_manager.start and scheduler.start do not await.
StartWorkers ==
  /\ service = "boot" /\ pool = "on"
  /\ service' = "serving"
  /\ worker' = [c \in Clients |-> "loop"]
  /\ UNCHANGED vars

-----------------------------------------------------------------------------
(* The worker loops.                                                       *)

\* A job is popped and its sync begins, or a step of it.
Works(c) ==
  /\ worker[c] = "loop"
  /\ Call(c) \/ Wake(c) \/ Advance(c) \/ Abandon(c)
  /\ UNCHANGED lifespan

-----------------------------------------------------------------------------
(* Shutdown.                                                               *)

\* scheduler.stop: its task is cancelled; jobs it has queued go on being popped.
StopScheduler ==
  /\ service = "serving"
  /\ service' = "draining"
  /\ UNCHANGED <<vars, worker>>

\* WorkerManager.stop up to gather.
StopWorkers ==
  /\ service = "draining"
  /\ service' = "cancelling"
  /\ worker' = [c \in Clients |-> "cancelled"]
  /\ UNCHANGED vars

\* Mutant of Cancelled: the loop catches the cancellation like any error.
MutCancelledGoesOn(c) ==
  /\ worker[c] = "cancelled"
  /\ IF pc[c] = "out"
       THEN worker' = [worker EXCEPT ![c] = "loop"] /\ UNCHANGED vars
       ELSE Cancel(c) /\ UNCHANGED worker
  /\ UNCHANGED service

\* CancelledError leaves process and the with statements, and ends the loop.
Cancelled(c) ==
  /\ worker[c] = "cancelled"
  /\ IF pc[c] = "out"
       THEN worker' = [worker EXCEPT ![c] = "done"] /\ UNCHANGED vars
       ELSE Cancel(c) /\ UNCHANGED worker
  /\ UNCHANGED service

\* gather returns when all loops have ended; browser_pool.stop follows.
StopPool ==
  /\ service = "cancelling" /\ \A c \in Clients : worker[c] = "done"
  /\ Stop
  /\ service' = "down"
  /\ UNCHANGED worker

PoolCloses == (StopEnds \/ StopFails) /\ UNCHANGED lifespan

-----------------------------------------------------------------------------
ServiceNext ==
  \/ \E p \in Pooled : BootPool(p) \/ (Crash(p) /\ UNCHANGED lifespan)
  \/ \E c \in Clients : Works(c) \/ Cancelled(c)
  \/ BootFails \/ StartWorkers \/ StopScheduler \/ StopWorkers \/ StopPool \/ PoolCloses

ServiceSpec == ServiceInit /\ [][ServiceNext]_serviceVars

\* Playwright calls return or time out, the event loop runs woken and cancelled
\* tasks, and the worker loops come back for their next job.  Nothing has to
\* shut the server down.
ServiceFairness ==
  /\ \A p \in Pooled : WF_serviceVars(BootPool(p))
  /\ \A c \in Clients :
       /\ WF_serviceVars(worker[c] = "loop" /\ Advance(c) /\ UNCHANGED lifespan)
       /\ WF_serviceVars(worker[c] = "loop" /\ Wake(c) /\ UNCHANGED lifespan)
       /\ WF_serviceVars(worker[c] = "loop" /\ Call(c) /\ UNCHANGED lifespan)
       /\ WF_serviceVars(Cancelled(c))
  /\ WF_serviceVars(StartWorkers) /\ WF_serviceVars(StopWorkers)
  /\ WF_serviceVars(StopPool) /\ WF_serviceVars(PoolCloses)

FairServiceSpec == ServiceSpec /\ ServiceFairness

-----------------------------------------------------------------------------
\* server.py:48-49, 61-63: the pool is on as long as a worker loop runs or winds
\* up: acquire_context never refuses, and nobody is in the pool when it stops.
PoolOutlivesWorkers ==
  \A c \in Clients :
    /\ worker[c] \in {"loop", "cancelled"} => pool = "on"
    /\ pool # "on" => pc[c] = "out"

\* When the pool stops every browser is at home, and stop closes it itself,
\* whatever the workers were doing when they were cancelled.
AllHome == [][StopPool => Range(avail) = Pooled]_serviceVars

\* A shutdown ends, although workers wait for browsers, relaunch them or use
\* them when it begins.
ShutsDown == service = "draining" ~> service = "down"

=============================================================================
