----------------------------- MODULE RateLimiter -----------------------------
(***************************************************************************)
(* The RateLimiter every worker shares: a token bucket refilled lazily,    *)
(* when somebody calls acquire, with the waiters asleep outside the lock.  *)
(* Nothing is awaited while the asyncio lock is held, so one turn of the   *)
(* loop in acquire is one action.                                          *)
(*                                                                         *)
(* The unit of time is the time one unit of bucket content takes to flow   *)
(* in, and a request costs Cost of them (twelve seconds at 5/60 per        *)
(* second).  An observer may start to count grants at any moment: what     *)
(* holds of its count holds of every window of time.                       *)
(***************************************************************************)
EXTENDS Integers

CONSTANTS
  Clients,    \* the coroutines that call acquire
  Cost,       \* one token
  Capacity,   \* the bucket's size: max(1, rate * 60) tokens
  Horizon     \* bound: how long the observer counts

ASSUME LimiterAssumption ==
  /\ Cost \in Nat \ {0}
  /\ Capacity \in Nat
  /\ Cost <= Capacity
  /\ Horizon \in Nat

VARIABLES
  tokens,       \* _state.tokens
  sinceRefill,  \* now - _state.last_refill, up to Capacity
  asleep,       \* the clients inside asyncio.sleep
  sleepLeft,    \* what is left of each client's sleep
  span,         \* time the observer has been counting, up to Horizon
  count         \* grants it has seen

vars == <<tokens, sinceRefill, asleep, sleepLeft, span, count>>

\* min(capacity, tokens + elapsed * rate); before the first call the bucket is
\* full, so the last_refill = 0.0 sentinel makes no difference.
Refilled ==
  IF tokens + sinceRefill < Capacity THEN tokens + sinceRefill ELSE Capacity

Init ==
  /\ tokens = Capacity
  /\ sinceRefill = 0
  /\ asleep = {}
  /\ sleepLeft = [c \in Clients |-> 0]
  /\ span = 0
  /\ count = 0

-----------------------------------------------------------------------------
\* One turn of acquire's loop for a client that calls or has slept enough.
Runs(c) == c \in asleep => sleepLeft[c] = 0

\* Mutant of Grant: any content is enough.
MutGrantOnCredit(c) ==
  /\ Runs(c)
  /\ Refilled > 0
  /\ tokens' = Refilled - Cost
  /\ sinceRefill' = 0
  /\ asleep' = asleep \ {c}
  /\ count' = IF span < Horizon THEN count + 1 ELSE count
  /\ UNCHANGED <<sleepLeft, span>>

Grant(c) ==
  /\ Runs(c)
  /\ Refilled >= Cost
  /\ tokens' = Refilled - Cost
  /\ sinceRefill' = 0
  /\ asleep' = asleep \ {c}
  /\ count' = IF span < Horizon THEN count + 1 ELSE count
  /\ UNCHANGED <<sleepLeft, span>>

\* Mutant of Sleep: last_refill is only written by a grant.
MutSleepKeepsRefillTime(c) ==
  /\ Runs(c)
  /\ Refilled < Cost
  /\ tokens' = Refilled
  /\ asleep' = asleep \cup {c}
  /\ sleepLeft' = [sleepLeft EXCEPT ![c] = Cost - Refilled]
  /\ UNCHANGED <<sinceRefill, span, count>>

\* Mutant of Sleep: the refill is computed and thrown away.
MutSleepDropsRefill(c) ==
  /\ Runs(c)
  /\ Refilled < Cost
  /\ sinceRefill' = 0
  /\ asleep' = asleep \cup {c}
  /\ sleepLeft' = [sleepLeft EXCEPT ![c] = Cost - Refilled]
  /\ UNCHANGED <<tokens, span, count>>

\* Mutant of Sleep: it sleeps for a whole token instead of the deficit.
MutSleepWholeToken(c) ==
  /\ Runs(c)
  /\ Refilled < Cost
  /\ tokens' = Refilled
  /\ sinceRefill' = 0
  /\ asleep' = asleep \cup {c}
  /\ sleepLeft' = [sleepLeft EXCEPT ![c] = Cost]
  /\ UNCHANGED <<span, count>>

\* Too few tokens: the refill is kept, and c sleeps for the deficit.
Sleep(c) ==
  /\ Runs(c)
  /\ Refilled < Cost
  /\ tokens' = Refilled
  /\ sinceRefill' = 0
  /\ asleep' = asleep \cup {c}
  /\ sleepLeft' = [sleepLeft EXCEPT ![c] = Cost - Refilled]
  /\ UNCHANGED <<span, count>>

-----------------------------------------------------------------------------
ClockTick ==
  /\ sinceRefill' = IF sinceRefill < Capacity THEN sinceRefill + 1 ELSE Capacity
  /\ sleepLeft' = [c \in Clients |->
                     IF sleepLeft[c] > 0 THEN sleepLeft[c] - 1 ELSE 0]
  /\ span' = IF span < Horizon THEN span + 1 ELSE Horizon
  /\ UNCHANGED <<tokens, asleep, count>>

\* The observer turns to the window of time that starts now.
Observe ==
  /\ span' = 0
  /\ count' = 0
  /\ UNCHANGED <<tokens, sinceRefill, asleep, sleepLeft>>

Next ==
  \/ \E c \in Clients : Grant(c) \/ Sleep(c)
  \/ ClockTick
  \/ Observe

Spec == Init /\ [][Next]_vars

\* Time passes and the event loop resumes a client whose sleep is over.  No
\* client has to call acquire.
Fairness ==
  /\ WF_vars(ClockTick)
  /\ \A c \in Clients : WF_vars(c \in asleep /\ (Grant(c) \/ Sleep(c)))

FairSpec == Spec /\ Fairness

-----------------------------------------------------------------------------
\* Every variable keeps its type, and no sleep is longer than one token takes.
TypeOK ==
  /\ tokens \in 0..Capacity
  /\ sinceRefill \in 0..Capacity
  /\ asleep \subseteq Clients
  /\ sleepLeft \in [Clients -> 0..Cost]
  /\ span \in 0..Horizon
  /\ count \in Nat

\* No window of time sees more grants than a full bucket and the window's own
\* refill pay for, however many clients call, sleep and wake in it.
WindowBound == count * Cost <= Capacity + span

\* Why: what the observer has seen granted, and what is in the bucket now, fit
\* in a full bucket and the refill since.
Conserved == span < Horizon => count * Cost + Refilled <= Capacity + span

\* The lazily refilled bucket implements the one that fills all the time.
Bucket == INSTANCE TokenBucket WITH level <- Refilled

BucketSpec == Bucket!Spec

\* Nobody sleeps on while a token is there: a sleep computed from the deficit
\* ends no later than the refill, whatever other clients did meanwhile.
NoOversleep == Refilled >= Cost => \A c \in asleep : sleepLeft[c] = 0

\* Why: a sleep never lasts longer than the token it is for needs to flow in.
SleepFits == \A c \in asleep : sleepLeft[c] = 0 \/ Refilled + sleepLeft[c] <= Cost

\* While somebody waits, grants keep being made: sleepers that lose a token to
\* another client never starve the whole limiter.
Progress ==
  <>[](asleep # {}) => []<><<\E c \in Clients : Grant(c)>>_vars

-----------------------------------------------------------------------------
(* What a comment says, and the code does not do.                          *)

\* rate_limiter.py:3: at most a bucket's worth of requests in any period as
\* long as the bucket takes to fill (5 requests in 60 seconds).
AtMostCapacityPerPeriod == span <= Capacity => count * Cost <= Capacity

=============================================================================
