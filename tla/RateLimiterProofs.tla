-------------------------- MODULE RateLimiterProofs --------------------------
(***************************************************************************)
(* Theorems about RateLimiter, for any number of clients, token cost,      *)
(* bucket size and window.                                                 *)
(***************************************************************************)
EXTENDS RateLimiter, TLAPS

\* One more grant costs one more token.
LEMMA OneMore ==
  ASSUME NEW n \in Nat
  PROVE  (n + 1) * Cost = n * Cost + Cost /\ n * Cost \in Nat
  BY LimiterAssumption

\* The refilled content lies between the stored content and the capacity.
LEMMA RefillBounds ==
  ASSUME TypeOK
  PROVE  /\ Refilled \in 0..Capacity
         /\ Refilled >= tokens
  BY LimiterAssumption DEF TypeOK, Refilled

\* The same after a step.
LEMMA RefillBoundsNext ==
  ASSUME TypeOK'
  PROVE  Refilled' \in 0..Capacity
<1>1. \A t, s \in 0..Capacity :
        (IF t + s < Capacity THEN t + s ELSE Capacity) \in 0..Capacity
  BY LimiterAssumption
<1>2. tokens' \in 0..Capacity /\ sinceRefill' \in 0..Capacity
  BY DEF TypeOK
<1>3. QED
  BY <1>1, <1>2 DEF Refilled

\* What a tick of the clock does to the amounts n granted and r in the bucket.
LEMMA TickArithmetic ==
  \A n \in Nat, r, q \in 0..Capacity, s, t \in 0..Horizon :
    /\ q <= r + 1
    /\ t = IF s < Horizon THEN s + 1 ELSE Horizon
    /\ s < Horizon => n + r <= Capacity + s
    /\ n <= Capacity + s
    => (t < Horizon => n + q <= Capacity + t) /\ n <= Capacity + t
  BY LimiterAssumption

LEMMA TypeInit == Init => TypeOK
  BY LimiterAssumption DEF Init, TypeOK

\* Every step keeps the type.
LEMMA TypeStep ==
  ASSUME TypeOK, [Next]_vars
  PROVE  TypeOK'
<1> USE LimiterAssumption
<1>1. ASSUME NEW c \in Clients, Grant(c)
      PROVE  TypeOK'
  BY <1>1, RefillBounds DEF Grant, TypeOK
<1>2. ASSUME NEW c \in Clients, Sleep(c)
      PROVE  TypeOK'
  <2>1. Cost - Refilled \in 0..Cost
    BY <1>2, RefillBounds DEF Sleep
  <2>2. QED
    BY <1>2, <2>1, RefillBounds DEF Sleep, TypeOK
<1>3. CASE ClockTick
  BY <1>3 DEF ClockTick, TypeOK
<1>4. CASE Observe
  BY <1>4 DEF Observe, TypeOK
<1>5. CASE UNCHANGED vars
  BY <1>5 DEF vars, TypeOK
<1>6. QED
  BY <1>1, <1>2, <1>3, <1>4, <1>5 DEF Next

\* The variables of the limiter keep their types: the bucket is never overdrawn
\* nor overfull, and nobody sleeps for more than a token.
THEOREM TypeCorrect == Spec => []TypeOK
  BY TypeInit, TypeStep, PTL DEF Spec

\* What each kind of step does to the refilled content.
LEMMA RefilledStep ==
  ASSUME TypeOK
  PROVE  /\ \A c \in Clients : Grant(c) => Refilled' = Refilled - Cost
         /\ \A c \in Clients : Sleep(c) => Refilled' = Refilled
         /\ ClockTick => Refilled' = IF Refilled < Capacity THEN Refilled + 1
                                                            ELSE Capacity
         /\ UNCHANGED <<tokens, sinceRefill>> => Refilled' = Refilled
<1> USE LimiterAssumption, RefillBounds
<1>1. ASSUME NEW c \in Clients, Grant(c)
      PROVE  Refilled' = Refilled - Cost
  BY <1>1 DEF Grant, Refilled, TypeOK
<1>2. ASSUME NEW c \in Clients, Sleep(c)
      PROVE  Refilled' = Refilled
  BY <1>2 DEF Sleep, Refilled, TypeOK
<1>3. ClockTick => Refilled' = IF Refilled < Capacity THEN Refilled + 1
                                                      ELSE Capacity
  BY DEF ClockTick, Refilled, TypeOK
<1>4. UNCHANGED <<tokens, sinceRefill>> => Refilled' = Refilled
  BY DEF Refilled
<1>5. QED
  BY <1>1, <1>2, <1>3, <1>4

\* The conservation invariant: what the observer saw granted plus what is left.
WindowInv == TypeOK /\ Conserved /\ WindowBound

LEMMA WindowStep ==
  ASSUME WindowInv, [Next]_vars
  PROVE  WindowInv'
<1> USE LimiterAssumption DEF WindowInv
<1>1. TypeOK'
  BY TypeStep
<1>2. /\ count \in Nat /\ span \in 0..Horizon
      /\ Refilled \in 0..Capacity /\ Refilled' \in 0..Capacity
      /\ count * Cost \in Nat
  <2>1. Refilled' \in 0..Capacity
    BY <1>1, RefillBoundsNext
  <2>2. count \in Nat /\ span \in 0..Horizon
    BY DEF TypeOK
  <2>3. count * Cost \in Nat
    BY <2>2, OneMore
  <2>4. QED
    BY <2>1, <2>2, <2>3, RefillBounds
<1>3. ASSUME NEW c \in Clients, Grant(c)
      PROVE  Conserved' /\ WindowBound'
  <2>1. Refilled >= Cost /\ Refilled' = Refilled - Cost /\ span' = span
    BY <1>3, RefilledStep DEF Grant
  <2>2. CASE span < Horizon
    <3>1. count' * Cost = count * Cost + Cost
      BY <1>2, <1>3, <2>2, OneMore DEF Grant
    <3>2. QED
      BY <1>2, <2>1, <2>2, <3>1 DEF Conserved, WindowBound
  <2>3. CASE ~(span < Horizon)
    <3>1. count' = count
      BY <1>3, <2>3 DEF Grant
    <3>2. QED
      BY <1>2, <2>1, <2>3, <3>1 DEF Conserved, WindowBound
  <2>4. QED
    BY <2>2, <2>3
<1>4. ASSUME NEW c \in Clients, Sleep(c)
      PROVE  Conserved' /\ WindowBound'
  <2>1. Refilled' = Refilled /\ UNCHANGED <<span, count>>
    BY <1>4, RefilledStep DEF Sleep
  <2>2. QED
    BY <2>1 DEF Conserved, WindowBound
<1>5. ASSUME ClockTick
      PROVE  Conserved' /\ WindowBound'
  <2>1. /\ Refilled' <= Refilled + 1 /\ count' = count
        /\ span' = IF span < Horizon THEN span + 1 ELSE Horizon
    BY <1>2, <1>5, RefilledStep DEF ClockTick
  <2>2. count' * Cost = count * Cost
    BY <2>1
  <2>3. span' \in 0..Horizon
    BY <1>1 DEF TypeOK
  <2> DEFINE n == count * Cost
             r == Refilled
             q == Refilled'
  <2>4. /\ n \in Nat /\ r \in 0..Capacity /\ q \in 0..Capacity /\ span \in 0..Horizon
        /\ q <= r + 1
    BY <1>2, <2>1
  <2>5. (span < Horizon => n + r <= Capacity + span) /\ n <= Capacity + span
    BY DEF Conserved, WindowBound
  <2>6. span' = IF span < Horizon THEN span + 1 ELSE Horizon
    BY <2>1
  <2>7. (span' < Horizon => n + q <= Capacity + span') /\ n <= Capacity + span'
    <3> HIDE DEF n, r, q
    <3> QED
      BY ONLY <2>3, <2>4, <2>5, <2>6, TickArithmetic
  <2>8. QED
    BY <2>2, <2>7 DEF Conserved, WindowBound
<1>6. ASSUME Observe
      PROVE  Conserved' /\ WindowBound'
  <2>1. count' = 0 /\ span' = 0
    BY <1>6 DEF Observe
  <2>2. count' * Cost = 0
    BY <2>1
  <2>3. \A r \in 0..Capacity : 0 + r <= Capacity + 0 /\ 0 <= Capacity + 0
    OBVIOUS
  <2>4. QED
    BY <1>2, <2>1, <2>2, <2>3 DEF Conserved, WindowBound
<1>7. ASSUME UNCHANGED vars
      PROVE  Conserved' /\ WindowBound'
  <2>1. Refilled' = Refilled /\ UNCHANGED <<span, count>>
    BY <1>7, RefilledStep DEF vars
  <2>2. QED
    BY <2>1 DEF Conserved, WindowBound
<1>8. QED
  BY <1>1, <1>3, <1>4, <1>5, <1>6, <1>7 DEF Next

\* What was granted in a window and what is in the bucket after it fit in a
\* full bucket and the window's refill.
THEOREM ContentIsConserved == Spec => []Conserved
<1>1. Init => WindowInv
  BY TypeInit, LimiterAssumption
  DEF Init, WindowInv, Conserved, WindowBound, Refilled
<1>2. WindowInv /\ [Next]_vars => WindowInv'
  BY WindowStep
<1>3. WindowInv => Conserved
  BY DEF WindowInv
<1>4. QED
  BY <1>1, <1>2, <1>3, PTL DEF Spec

\* The bound on any window: a full bucket plus the window's own refill, for any
\* number of clients sharing the limiter.
THEOREM WindowIsBounded == Spec => []WindowBound
<1>1. Init => WindowInv
  BY TypeInit, LimiterAssumption
  DEF Init, WindowInv, Conserved, WindowBound, Refilled
<1>2. WindowInv /\ [Next]_vars => WindowInv'
  BY WindowStep
<1>3. WindowInv => WindowBound
  BY DEF WindowInv
<1>4. QED
  BY <1>1, <1>2, <1>3, PTL DEF Spec

\* Consequence for the documented period: in the time the bucket takes to fill
\* the limiter grants at most twice its capacity, not once.
THEOREM TwicePerPeriod ==
  Spec => [](span <= Capacity => count * Cost <= 2 * Capacity)
<1>1. WindowBound /\ TypeOK => (span <= Capacity => count * Cost <= 2 * Capacity)
  BY LimiterAssumption, OneMore DEF WindowBound, TypeOK
<1>2. QED
  BY <1>1, TypeCorrect, WindowIsBounded, PTL

-----------------------------------------------------------------------------
\* A sleep fits in the time its token needs to flow in.
LEMMA SleepStep ==
  ASSUME TypeOK, SleepFits, [Next]_vars
  PROVE  SleepFits'
<1> USE LimiterAssumption
<1>1. Refilled \in 0..Capacity /\ \A d \in Clients : sleepLeft[d] \in 0..Cost
  BY RefillBounds DEF TypeOK
<1>2. ASSUME NEW c \in Clients, Grant(c)
      PROVE  SleepFits'
  <2>1. Refilled' = Refilled - Cost /\ sleepLeft' = sleepLeft
    BY <1>2, RefilledStep DEF Grant
  <2>2. asleep' \subseteq asleep /\ asleep \subseteq Clients
    BY <1>2 DEF Grant, TypeOK
  <2>3. QED
    BY <1>1, <2>1, <2>2 DEF SleepFits
<1>3. ASSUME NEW c \in Clients, Sleep(c)
      PROVE  SleepFits'
  <2>1. Refilled' = Refilled
    BY <1>3, RefilledStep
  <2>2. sleepLeft' = [sleepLeft EXCEPT ![c] = Cost - Refilled]
        /\ asleep' = asleep \cup {c}
    BY <1>3 DEF Sleep
  <2>3. SUFFICES ASSUME NEW d \in asleep'
                 PROVE  sleepLeft'[d] = 0 \/ Refilled + sleepLeft'[d] <= Cost
    BY <2>1 DEF SleepFits
  <2>4. CASE d = c
    BY <1>1, <2>2, <2>4 DEF TypeOK
  <2>5. CASE d # c
    BY <2>2, <2>3, <2>5 DEF SleepFits, TypeOK
  <2>6. QED
    BY <2>4, <2>5
<1>4. CASE ClockTick
  <2>1. Refilled' <= Refilled + 1 /\ Refilled' \in Int
    BY <1>1, <1>4, RefilledStep
  <2>2. asleep' = asleep
        /\ \A d \in Clients : sleepLeft'[d] = IF sleepLeft[d] > 0
                                              THEN sleepLeft[d] - 1 ELSE 0
    BY <1>4 DEF ClockTick
  <2>3. QED
    BY <1>1, <2>1, <2>2 DEF SleepFits, TypeOK
<1>5. CASE Observe \/ UNCHANGED vars
  <2>1. UNCHANGED <<tokens, sinceRefill, asleep, sleepLeft>>
    BY <1>5 DEF Observe, vars
  <2>2. QED
    BY <2>1, RefilledStep DEF SleepFits
<1>6. QED
  BY <1>2, <1>3, <1>4, <1>5 DEF Next

\* A sleeper's rest and the content of the bucket are one token at most, on every
\* run.
LEMMA SleepsFit == Spec => []SleepFits
<1>1. Init => SleepFits
  BY DEF Init, SleepFits
<1>2. TypeOK /\ SleepFits /\ [Next]_vars => (TypeOK /\ SleepFits)'
  BY TypeStep, SleepStep
<1>3. QED
  BY <1>1, <1>2, TypeInit, PTL DEF Spec

\* Nobody sleeps on while a token is there.
THEOREM NobodyOversleeps == Spec => []NoOversleep
<1>1. TypeOK /\ SleepFits => NoOversleep
  BY RefillBounds, LimiterAssumption DEF TypeOK, SleepFits, NoOversleep
<1>2. QED
  BY <1>1, TypeCorrect, SleepsFit, PTL

-----------------------------------------------------------------------------
\* The lazily refilled limiter implements the bucket that fills all the time.
THEOREM ImplementsBucket == Spec => BucketSpec
<1>1. Init => Bucket!Init
  BY LimiterAssumption DEF Init, Bucket!Init, Refilled
<1>2. TypeOK /\ [Next]_vars => [Bucket!Next]_Refilled
  <2>1. SUFFICES ASSUME TypeOK, [Next]_vars
                 PROVE  Bucket!Next \/ Refilled' = Refilled
    OBVIOUS
  <2>2. ASSUME NEW c \in Clients, Grant(c)
        PROVE  Bucket!Next
    BY <2>1, <2>2, RefilledStep DEF Grant, Bucket!Next, Bucket!Grant
  <2>3. ASSUME NEW c \in Clients, Sleep(c)
        PROVE  Refilled' = Refilled
    BY <2>1, <2>3, RefilledStep
  <2>4. CASE ClockTick
    BY <2>1, <2>4, RefilledStep DEF Bucket!Next, Bucket!Fill
  <2>5. CASE Observe \/ UNCHANGED vars
    BY <2>1, <2>5, RefilledStep DEF Observe, vars
  <2>6. QED
    BY <2>1, <2>2, <2>3, <2>4, <2>5 DEF Next
<1>3. TypeOK /\ [Next]_vars => TypeOK'
  BY TypeStep
<1>4. QED
  BY <1>1, <1>2, <1>3, TypeInit, PTL DEF Spec, BucketSpec, Bucket!Spec

=============================================================================
