------------------------------ MODULE SyncLease ------------------------------
(***************************************************************************)
(* What claim_for_sync promises, without queues, stamps or failures: a     *)
(* worker that starts a sync holds a lease on the account for Window units *)
(* of time, and nobody else gets one before the lease has run out or been  *)
(* given back.  A sync may outlive its lease: it is not told.              *)
(*                                                                         *)
(* A lease that begins in the unit of time in which another one on the     *)
(* account was given back may be weak: it keeps nobody out.                *)
(***************************************************************************)
EXTENDS Integers

CONSTANTS Accounts, Workers, Window   \* Window: a positive number

VARIABLES
  holds,   \* pairs <<worker, account>>: the worker is syncing the account
  age,     \* time since the worker's last lease began, up to Window
  weak,    \* workers whose lease keeps nobody out
  recent   \* accounts given back in this unit of time

vars == <<holds, age, weak, recent>>

Init ==
  /\ holds = {}
  /\ age = [w \in Workers |-> 0]
  /\ weak = {}
  /\ recent = {}

Acquire(w, a) ==
  /\ \A b \in Accounts : <<w, b>> \notin holds
  /\ \A v \in Workers : <<v, a>> \in holds => age[v] = Window \/ v \in weak
  /\ holds' = holds \cup {<<w, a>>}
  /\ age' = [age EXCEPT ![w] = 0]
  /\ \/ weak' = weak \ {w}
     \/ a \in recent /\ weak' = weak \cup {w}
  /\ UNCHANGED recent

\* The leases on account a that began in this unit of time.
Fresh(a) == {v \in Workers : <<v, a>> \in holds /\ age[v] = 0}

\* A sync ends well.  Its end may weaken a lease as young as itself.
GiveBack(w, a) ==
  /\ <<w, a>> \in holds
  /\ holds' = holds \ {<<w, a>>}
  /\ weak' \in {weak \ {w}, (weak \cup Fresh(a)) \ {w}}
  /\ recent' = recent \cup {a}
  /\ UNCHANGED age

\* Some workers lose their syncs: one that fails, or all when the server stops.
Lose ==
  /\ \E W \in SUBSET Workers : /\ holds' = holds \ (W \X Accounts)
                               /\ weak' = weak \ W
  /\ UNCHANGED <<age, recent>>

Elapse ==
  /\ age' = [w \in Workers |->
               IF (\E a \in Accounts : <<w, a>> \in holds) /\ age[w] < Window
               THEN age[w] + 1 ELSE age[w]]
  /\ recent' = {}
  /\ UNCHANGED <<holds, weak>>

Next ==
  \/ \E w \in Workers, a \in Accounts : Acquire(w, a) \/ GiveBack(w, a)
  \/ Lose
  \/ Elapse

Spec == Init /\ [][Next]_vars

=============================================================================
