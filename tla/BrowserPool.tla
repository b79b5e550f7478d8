----------------------------- MODULE BrowserPool -----------------------------
(***************************************************************************)
(* The pool of Chromium browsers the syncs share: acquire_context takes a  *)
(* pooled browser from an asyncio queue, relaunches it when it has served  *)
(* its share of contexts, opens a context and a page, and gives it back    *)
(* whatever happened.  Browsers crash, every Playwright call can fail,     *)
(* clients are cancelled at every await, and stop runs at any moment:      *)
(* Service shows how the server uses it.                                   *)
(***************************************************************************)
EXTENDS Integers, FiniteSets, Sequences, Functions

CONSTANTS
  Pooled,     \* the _PooledBrowser objects: as many as the pool's size
  Clients,    \* the coroutines that call acquire_context
  MaxPages,   \* max_pages_per_browser
  MaxFaults   \* bound: crashes and failed calls

ASSUME PoolAssumption ==
  /\ IsFiniteSet(Pooled) /\ Pooled # {}
  /\ MaxPages \in Nat \ {0}
  /\ MaxFaults \in Nat

VARIABLES
  pool,     \* "starting", "on", "stopping", "off"; "broken": start or stop raised
  avail,    \* the queue _available
  browser,  \* each object's Chromium: "none", "up" or "dead"
  served,   \* pages_served
  opened,   \* contexts ever opened on its present Chromium (history)
  pc,       \* what each client is awaiting
  held,     \* the object it has taken, while it has one
  faults    \* failures so far

client == <<pc, held>>
vars == <<pool, avail, browser, served, opened, client, faults>>

Size == Cardinality(Pooled)

Busy == {"recycling", "launching", "opening", "paging", "using", "leaving"}

Holds(c, p) == pc[c] \in Busy /\ held[c] = p

Fault == faults < MaxFaults /\ faults' = faults + 1

Init ==
  /\ pool = "starting"
  /\ avail = <<>>
  /\ browser = [p \in Pooled |-> "none"]
  /\ served = [p \in Pooled |-> 0]
  /\ opened = [p \in Pooled |-> 0]
  /\ pc = [c \in Clients |-> "out"]
  /\ held \in {[c \in Clients |-> p] : p \in Pooled}
  /\ faults = 0

-----------------------------------------------------------------------------
(* start launches the browsers one after another; the server exits when a  *)
(* launch fails.                                                           *)

Launch(p) ==
  /\ pool = "starting" /\ browser[p] = "none"
  /\ browser' = [browser EXCEPT ![p] = "up"]
  /\ avail' = Append(avail, p)
  /\ pool' = IF Len(avail') = Size THEN "on" ELSE "starting"
  /\ UNCHANGED <<served, opened, client, faults>>

LaunchFails ==
  /\ pool = "starting"
  /\ Fault
  /\ pool' = "broken"
  /\ UNCHANGED <<avail, browser, served, opened, client>>

-----------------------------------------------------------------------------
(* acquire_context.                                                        *)

\* Mutant of Saturated: the browser serves one context more.
MutSaturatedLate(p) == served[p] > MaxPages

Saturated(p) == served[p] >= MaxPages

Take(c) ==
  /\ avail # <<>>
  /\ avail' = Tail(avail)
  /\ held' = [held EXCEPT ![c] = Head(avail)]
  /\ pc' = [pc EXCEPT ![c] = IF Saturated(Head(avail)) THEN "recycling"
                                                        ELSE "opening"]
  /\ UNCHANGED <<pool, browser, served, opened, faults>>

\* Outside "on" the call raises at once.
Call(c) ==
  /\ pc[c] = "out" /\ pool = "on"
  /\ \/ Take(c)
     \/ /\ avail = <<>>
        /\ pc' = [pc EXCEPT ![c] = "waiting"]
        /\ UNCHANGED <<pool, avail, browser, served, opened, held, faults>>

\* A waiter does not look at the pool's flags again.
Wake(c) == pc[c] = "waiting" /\ Take(c)

\* The old Chromium is closed; an error of close is only logged.
Recycle(c) ==
  /\ pc[c] = "recycling"
  /\ browser' = [browser EXCEPT ![held[c]] = "dead"]
  /\ pc' = [pc EXCEPT ![c] = "launching"]
  /\ UNCHANGED <<pool, avail, served, opened, held, faults>>

Playwright == pool \in {"starting", "on", "stopping"}

Relaunch(c) ==
  /\ pc[c] = "launching" /\ Playwright
  /\ browser' = [browser EXCEPT ![held[c]] = "up"]
  /\ served' = [served EXCEPT ![held[c]] = 0]
  /\ opened' = [opened EXCEPT ![held[c]] = 0]
  /\ pc' = [pc EXCEPT ![c] = "opening"]
  /\ UNCHANGED <<pool, avail, held, faults>>

OpenContext(c) ==
  /\ pc[c] = "opening" /\ browser[held[c]] = "up"
  /\ opened' = [opened EXCEPT ![held[c]] = @ + 1]
  /\ pc' = [pc EXCEPT ![c] = "paging"]
  /\ UNCHANGED <<pool, avail, browser, served, held, faults>>

OpenPage(c) ==
  /\ pc[c] = "paging" /\ browser[held[c]] = "up"
  /\ pc' = [pc EXCEPT ![c] = "using"]
  /\ UNCHANGED <<pool, avail, browser, served, opened, held, faults>>

\* The body of the async with ends, or raises, or is cancelled: the context is
\* closed in each case.
Leave(c) ==
  /\ pc[c] = "using"
  /\ pc' = [pc EXCEPT ![c] = "leaving"]
  /\ UNCHANGED <<pool, avail, browser, served, opened, held, faults>>

\* Mutant of GiveBack: an abandoned browser is not given back.
MutGiveBackOnlyLeaving(c) ==
  /\ served' = [served EXCEPT ![held[c]] = @ + 1]
  /\ avail' = IF pc[c] = "leaving" THEN Append(avail, held[c]) ELSE avail
  /\ pc' = [pc EXCEPT ![c] = "out"]
  /\ UNCHANGED <<pool, browser, opened, held>>

\* Mutant of GiveBack: a browser that has served its share is not given back.
MutGiveBackUnlessFull(c) ==
  /\ served' = [served EXCEPT ![held[c]] = @ + 1]
  /\ avail' = IF served'[held[c]] < MaxPages THEN Append(avail, held[c]) ELSE avail
  /\ pc' = [pc EXCEPT ![c] = "out"]
  /\ UNCHANGED <<pool, browser, opened, held>>

\* Mutant of GiveBack: only contexts that were used are counted.
MutGiveBackCountsUsed(c) ==
  /\ served' = [served EXCEPT ![held[c]] = IF pc[c] = "leaving" THEN @ + 1 ELSE @]
  /\ avail' = Append(avail, held[c])
  /\ pc' = [pc EXCEPT ![c] = "out"]
  /\ UNCHANGED <<pool, browser, opened, held>>

\* The outer finally.
GiveBack(c) ==
  /\ served' = [served EXCEPT ![held[c]] = @ + 1]
  /\ avail' = Append(avail, held[c])
  /\ pc' = [pc EXCEPT ![c] = "out"]
  /\ UNCHANGED <<pool, browser, opened, held>>

Return(c) == pc[c] = "leaving" /\ GiveBack(c) /\ UNCHANGED faults

\* The awaited call raises, because the browser is dead or Playwright gone ...
Raises(c) ==
  /\ \/ pc[c] = "launching" /\ ~Playwright
     \/ pc[c] \in {"opening", "paging"} /\ browser[held[c]] = "dead"
  /\ GiveBack(c)
  /\ UNCHANGED faults

\* ... or for a reason of its own.
Abandon(c) ==
  /\ pc[c] \in Busy \ {"using", "leaving"}
  /\ Fault
  /\ GiveBack(c)

\* The client's task is cancelled where it is: a waiter leaves the queue as it
\* is, the body still closes its context.
Cancel(c) ==
  /\ \/ /\ pc[c] = "waiting"
        /\ pc' = [pc EXCEPT ![c] = "out"]
        /\ UNCHANGED <<pool, avail, browser, served, opened, held>>
     \/ /\ pc[c] = "using"
        /\ pc' = [pc EXCEPT ![c] = "leaving"]
        /\ UNCHANGED <<pool, avail, browser, served, opened, held>>
     \/ pc[c] \in Busy \ {"using"} /\ GiveBack(c)
  /\ UNCHANGED faults

-----------------------------------------------------------------------------
Crash(p) ==
  /\ browser[p] = "up"
  /\ Fault
  /\ browser' = [browser EXCEPT ![p] = "dead"]
  /\ UNCHANGED <<pool, avail, served, opened, client>>

\* stop up to its first await: what is in the queue is drained.
Stop ==
  /\ pool = "on"
  /\ pool' = "stopping"
  /\ avail' = <<>>
  /\ UNCHANGED <<browser, served, opened, client, faults>>

\* The drained browsers are closed, and Playwright takes the others with it.
StopEnds ==
  /\ pool = "stopping"
  /\ pool' = "off"
  /\ browser' = [p \in Pooled |-> "dead"]
  /\ UNCHANGED <<avail, served, opened, client, faults>>

\* playwright.stop raises: _started and _stopping stay set.
StopFails ==
  /\ pool = "stopping"
  /\ Fault
  /\ pool' = "broken"
  /\ UNCHANGED <<avail, browser, served, opened, client>>

-----------------------------------------------------------------------------
Advance(c) ==
  \/ Recycle(c) \/ Relaunch(c) \/ OpenContext(c) \/ OpenPage(c)
  \/ Leave(c) \/ Return(c) \/ Raises(c)

Next ==
  \/ \E p \in Pooled : Launch(p) \/ Crash(p)
  \/ \E c \in Clients : Call(c) \/ Wake(c) \/ Advance(c) \/ Abandon(c) \/ Cancel(c)
  \/ LaunchFails \/ Stop \/ StopEnds \/ StopFails

Spec == Init /\ [][Next]_vars

-----------------------------------------------------------------------------
\* Every variable keeps its type.
TypeOK ==
  /\ pool \in {"starting", "on", "stopping", "off", "broken"}
  /\ avail \in Seq(Pooled)
  /\ browser \in [Pooled -> {"none", "up", "dead"}]
  /\ served \in [Pooled -> Nat]
  /\ opened \in [Pooled -> Nat]
  /\ pc \in [Clients -> Busy \cup {"out", "waiting"}]
  /\ held \in [Clients -> Pooled]
  /\ faults \in 0..MaxFaults

\* No browser is in two hands: not twice in the queue, not queued while a
\* client has it, not with two clients, so that put_nowait always finds room
\* and accounts never meet in one browser.
OneHolder ==
  /\ IsInjective(avail)
  /\ \A c \in Clients, p \in Pooled :
       Holds(c, p) => p \notin Range(avail)
                      /\ \A d \in Clients \ {c} : ~Holds(d, p)

\* While the pool is on no browser gets lost: whatever failed, each one is in
\* the queue or with a client.
NoneLost ==
  pool = "on" =>
    \A p \in Pooled : p \in Range(avail) \/ \E c \in Clients : Holds(c, p)

\* No Chromium opens more contexts than its share, also when relaunches fail,
\* contexts are abandoned half open and clients are cancelled.
RecycledInTime == \A p \in Pooled : opened[p] <= MaxPages

\* pool.py:212-214: a dead browser goes on being handed out, and its counter
\* gets it relaunched in the end.
ZombieRecycled ==
  \A p \in Pooled :
    browser[p] = "dead" ~> browser[p] = "up" \/ pool # "on"

\* A pool that stays on goes on serving clients, whatever crashed before.
KeepsServing ==
  <>[](pool = "on") => []<>(\E c \in Clients : pc[c] = "using")

=============================================================================
