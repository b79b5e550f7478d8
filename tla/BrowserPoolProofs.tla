-------------------------- MODULE BrowserPoolProofs --------------------------
(***************************************************************************)
(* The safety of the pool for any number of browsers and clients: nobody   *)
(* shares a browser, none gets lost, none serves beyond its share.  And of *)
(* the server around it: its pool is that pool, and outlives the workers.  *)
(***************************************************************************)
EXTENDS Service, FiniteSetTheorems, SequenceTheorems, TLAPS

-----------------------------------------------------------------------------
(* What the steps do to the queue and to the hands.                        *)

Served == {"paging", "using", "leaving"}

\* No step but these: a browser is taken, kept, given back, launched or drained.
Takes(c) ==
  /\ avail # <<>> /\ avail' = Tail(avail)
  /\ held' = [held EXCEPT ![c] = Head(avail)]
  /\ pc[c] \in {"out", "waiting"}
  /\ pc' = [pc EXCEPT ![c] = IF Saturated(Head(avail)) THEN "recycling" ELSE "opening"]
  /\ UNCHANGED <<pool, browser, served, opened>>

Keeps(c) ==
  /\ pc[c] \in Busy /\ \E place \in Busy : pc' = [pc EXCEPT ![c] = place]
  /\ \/ browser' = browser
     \/ \E state \in {"up", "dead"} : browser' = [browser EXCEPT ![held[c]] = state]
  /\ UNCHANGED <<pool, avail, held>>

Gives(c) == pc[c] \in Busy /\ GiveBack(c)

Waits(c) ==
  /\ pc[c] \in {"out", "waiting"} /\ \E place \in {"out", "waiting"} : pc' = [pc EXCEPT ![c] = place]
  /\ UNCHANGED <<pool, avail, browser, served, opened, held>>

Drains ==
  /\ pool' # "on" /\ pool' # "starting" /\ pool' \in {"stopping", "off", "broken"}
  /\ avail' \in {avail, <<>>}
  /\ browser' = browser \/ browser' = [p \in Pooled |-> "dead"]
  /\ UNCHANGED <<client, served, opened>>

Crashes == (\E p \in Pooled : Crash(p)) \/ UNCHANGED vars

LEMMA StepKinds ==
  ASSUME TypeOK, [Next]_vars
  PROVE  \/ \E c \in Clients : Takes(c) \/ Keeps(c) \/ Gives(c) \/ Waits(c)
         \/ \E p \in Pooled : Launch(p)
         \/ Drains \/ Crashes
<1>1. ASSUME NEW c \in Clients, Call(c) \/ Wake(c)
      PROVE  Takes(c) \/ Waits(c)
  BY <1>1 DEF Call, Wake, Take, Takes, Waits
<1>2. ASSUME NEW c \in Clients,
             Recycle(c) \/ Relaunch(c) \/ OpenContext(c) \/ OpenPage(c) \/ Leave(c)
      PROVE  Keeps(c)
  <2>1. browser' = browser \/ browser' = [browser EXCEPT ![held[c]] = "up"]
                           \/ browser' = [browser EXCEPT ![held[c]] = "dead"]
    BY <1>2 DEF Recycle, Relaunch, OpenContext, OpenPage, Leave
  <2>2. pc[c] \in Busy /\ \E place \in Busy : pc' = [pc EXCEPT ![c] = place]
    BY <1>2 DEF Recycle, Relaunch, OpenContext, OpenPage, Leave, Busy
  <2>3. UNCHANGED <<pool, avail, held>>
    BY <1>2 DEF Recycle, Relaunch, OpenContext, OpenPage, Leave
  <2>4. \/ browser' = browser
        \/ \E state \in {"up", "dead"} : browser' = [browser EXCEPT ![held[c]] = state]
    BY <2>1
  <2> QED
    BY <2>2, <2>3, <2>4 DEF Keeps
<1>3. ASSUME NEW c \in Clients, Return(c) \/ Raises(c) \/ Abandon(c)
      PROVE  Gives(c)
  BY <1>3 DEF Return, Raises, Abandon, Gives, Busy
<1>4. ASSUME NEW c \in Clients, Cancel(c)
      PROVE  Keeps(c) \/ Gives(c) \/ Waits(c)
  <2>1. CASE pc[c] = "waiting"
    BY <1>4, <2>1 DEF Cancel, Waits, Busy
  <2>2. CASE pc[c] = "using"
    <3>1. \E place \in Busy : pc' = [pc EXCEPT ![c] = place]
      BY <1>4, <2>2 DEF Cancel, Busy
    <3> QED
      BY <1>4, <2>2, <3>1 DEF Cancel, Keeps, Busy
  <2>3. CASE pc[c] \notin {"waiting", "using"}
    BY <1>4, <2>3 DEF Cancel, Gives, Busy
  <2> QED
    BY <2>1, <2>2, <2>3
<1>5. ASSUME LaunchFails \/ Stop \/ StopEnds \/ StopFails
      PROVE  Drains
  BY <1>5 DEF LaunchFails, Stop, StopEnds, StopFails, Drains, client
<1> QED
  BY <1>1, <1>2, <1>3, <1>4, <1>5 DEF Next, Advance, Crashes

-----------------------------------------------------------------------------
(* Types.                                                                  *)

LEMMA TypeInit == Init => TypeOK
  BY PoolAssumption DEF Init, TypeOK

LEMMA TypeStep ==
  ASSUME TypeOK, [Next]_vars
  PROVE  TypeOK'
<1> USE PoolAssumption DEF Fault
<1>1. ASSUME NEW c \in Clients, Call(c) \/ Wake(c)
      PROVE  TypeOK'
  <2>1. CASE Take(c)
    <3>1. Head(avail) \in Pooled /\ avail' \in Seq(Pooled)
      BY <2>1, HeadTailProperties DEF Take, TypeOK
    <3>2. held' \in [Clients -> Pooled] /\ pc' \in [Clients -> Busy \cup {"out", "waiting"}]
      BY <2>1, <3>1 DEF Take, TypeOK, Busy
    <3> QED
      BY <2>1, <3>1, <3>2 DEF Take, TypeOK
  <2>2. CASE ~ Take(c)
    BY <1>1, <2>2 DEF Call, Wake, TypeOK
  <2> QED
    BY <2>1, <2>2
<1>2. ASSUME NEW c \in Clients, GiveBack(c), UNCHANGED faults \/ Fault
      PROVE  TypeOK'
  BY <1>2 DEF GiveBack, TypeOK
<1>3. ASSUME NEW c \in Clients, Advance(c) \/ Abandon(c) \/ Cancel(c)
      PROVE  TypeOK'
  <2>1. CASE Recycle(c)
    BY <2>1 DEF Recycle, TypeOK, Busy
  <2>2. CASE Relaunch(c)
    BY <2>2 DEF Relaunch, TypeOK, Busy
  <2>3. CASE OpenContext(c)
    BY <2>3 DEF OpenContext, TypeOK, Busy
  <2>4. CASE OpenPage(c)
    BY <2>4 DEF OpenPage, TypeOK, Busy
  <2>5. CASE Leave(c)
    BY <2>5 DEF Leave, TypeOK, Busy
  <2>6. CASE Return(c) \/ Raises(c) \/ Abandon(c)
    BY <2>6, <1>2 DEF Return, Raises, Abandon
  <2>7. CASE Cancel(c)
    BY <2>7, <1>2 DEF Cancel, TypeOK, Busy
  <2> QED
    BY <1>3, <2>1, <2>2, <2>3, <2>4, <2>5, <2>6, <2>7 DEF Advance
<1>4. ASSUME NEW p \in Pooled, Launch(p) \/ Crash(p)
      PROVE  TypeOK'
  <2>1. CASE Launch(p)
    <3>1. avail' \in Seq(Pooled) /\ pool' \in {"starting", "on"}
      BY <2>1 DEF Launch, TypeOK
    <3> QED
      BY <2>1, <3>1 DEF Launch, TypeOK, client
  <2>2. CASE Crash(p)
    BY <2>2 DEF Crash, TypeOK, client
  <2> QED
    BY <1>4, <2>1, <2>2
<1>5. CASE LaunchFails \/ Stop \/ StopEnds \/ StopFails
  <2>1. CASE LaunchFails \/ StopFails
    BY <2>1 DEF LaunchFails, StopFails, TypeOK, client
  <2>2. CASE Stop
    BY <2>2 DEF Stop, TypeOK, client
  <2>3. CASE StopEnds
    BY <2>3 DEF StopEnds, TypeOK, client
  <2> QED
    BY <1>5, <2>1, <2>2, <2>3
<1>6. CASE UNCHANGED vars
  BY <1>6 DEF vars, client, TypeOK
<1> QED
  BY <1>1, <1>3, <1>4, <1>5, <1>6 DEF Next

\* The variables of the pool keep their types.
THEOREM TypeCorrect == Spec => []TypeOK
  BY TypeInit, TypeStep, PTL DEF Spec

-----------------------------------------------------------------------------
(* Hands.                                                                  *)

\* A browser that was never launched is nowhere.
NoneOut ==
  \A p \in Pooled : browser[p] = "none" =>
    p \notin Range(avail) /\ \A c \in Clients : ~ Holds(c, p)

Hands == OneHolder /\ NoneOut

LEMMA HandsInit == Init => Hands
  BY DEF Init, Hands, OneHolder, NoneOut, Holds, Busy, IsInjective, Range

\* The rest of the queue lacks its head, and nothing else.
LEMMA TailRange ==
  ASSUME NEW q \in Seq(Pooled), q # <<>>, IsInjective(q)
  PROVE  /\ IsInjective(Tail(q))
         /\ Head(q) \in Pooled
         /\ Head(q) \in Range(q)
         /\ Range(Tail(q)) = Range(q) \ {Head(q)}
<1>1. /\ Head(q) = q[1] /\ Head(q) \in Pooled /\ Tail(q) \in Seq(Pooled)
      /\ Len(Tail(q)) = Len(q) - 1
      /\ \A i \in 1..Len(Tail(q)) : Tail(q)[i] = q[i + 1]
  BY HeadTailProperties
<1>2. Len(q) \in Nat \ {0} /\ DOMAIN q = 1..Len(q) /\ DOMAIN Tail(q) = 1..Len(Tail(q))
  BY <1>1, EmptySeq
<1>3. \A i, j \in 1..Len(q) : q[i] = q[j] => i = j
  BY <1>2 DEF IsInjective
<1>4. IsInjective(Tail(q))
  BY <1>1, <1>2, <1>3 DEF IsInjective
<1>5. Range(Tail(q)) \subseteq Range(q) \ {Head(q)}
  BY <1>1, <1>2, <1>3 DEF Range
<1>6. ASSUME NEW i \in 2..Len(q)
      PROVE  q[i] \in Range(Tail(q))
  <2>1. i - 1 \in 1..Len(Tail(q)) /\ Tail(q)[i - 1] = q[i]
    BY <1>1, <1>2
  <2> QED
    BY <1>2, <2>1 DEF Range
<1>7. Range(q) \ {Head(q)} \subseteq Range(Tail(q))
  BY <1>1, <1>2, <1>6 DEF Range
<1>8. Range(Tail(q)) = Range(q) \ {Head(q)}
  BY <1>5, <1>7
<1>9. Head(q) \in Range(q)
  <2>1. 1 \in DOMAIN q /\ Head(q) = q[1]
    BY <1>1, <1>2
  <2> QED
    BY <2>1 DEF Range
<1> QED
  BY <1>1, <1>4, <1>8, <1>9

LEMMA AppendRange ==
  ASSUME NEW q \in Seq(Pooled), NEW p \in Pooled
  PROVE  /\ Range(Append(q, p)) = Range(q) \cup {p}
         /\ IsInjective(q) /\ p \notin Range(q) => IsInjective(Append(q, p))
<1> DEFINE a == Append(q, p)
<1>1. /\ Len(q) \in Nat /\ DOMAIN q = 1..Len(q) /\ DOMAIN a = 1..Len(q) + 1
      /\ \A i \in 1..Len(q) : a[i] = q[i]
      /\ a[Len(q) + 1] = p
  OBVIOUS
<1> HIDE DEF a
<1>2. Range(a) = Range(q) \cup {p}
  <2>1. ASSUME NEW i \in DOMAIN a
        PROVE  a[i] \in Range(q) \cup {p}
    BY <1>1 DEF Range
  <2>2. ASSUME NEW i \in DOMAIN q
        PROVE  i \in DOMAIN a /\ a[i] = q[i]
    BY <1>1
  <2>3. Len(q) + 1 \in DOMAIN a
    BY <1>1
  <2> QED
    BY <1>1, <2>1, <2>2, <2>3 DEF Range
<1>3. ASSUME IsInjective(q), p \notin Range(q)
      PROVE  IsInjective(a)
  <2>1. \A i \in 1..Len(q) : q[i] # p
    BY <1>1, <1>3 DEF Range
  <2>2. \A i, j \in 1..Len(q) : q[i] = q[j] => i = j
    BY <1>1, <1>3 DEF IsInjective
  <2> QED
    BY <1>1, <2>1, <2>2 DEF IsInjective
<1> QED
  BY <1>2, <1>3 DEF a

LEMMA HandsStep ==
  ASSUME TypeOK, Hands, [Next]_vars
  PROVE  Hands'
<1> USE DEF Hands, OneHolder, NoneOut, Holds
<1>1. ASSUME NEW c \in Clients, Takes(c)
      PROVE  Hands'
  <2>1. /\ IsInjective(avail') /\ Head(avail) \in Pooled
        /\ Range(avail') = Range(avail) \ {Head(avail)}
        /\ Head(avail) \in Range(avail)
    BY <1>1, TailRange DEF Takes, TypeOK
  <2>2. \A d \in Clients, p \in Pooled :
          (pc'[d] \in Busy /\ held'[d] = p)
            => (d = c /\ p = Head(avail)) \/ (d # c /\ Holds(d, p))
    BY <1>1 DEF Takes, TypeOK, Busy
  <2> QED
    BY <1>1, <2>1, <2>2 DEF Takes
<1>2. ASSUME NEW c \in Clients, Keeps(c)
      PROVE  Hands'
  <2>1. \A d \in Clients, p \in Pooled : (pc'[d] \in Busy /\ held'[d] = p) => Holds(d, p)
    BY <1>2 DEF Keeps, TypeOK
  <2> QED
    BY <1>2, <2>1 DEF Keeps, TypeOK
<1>3. ASSUME NEW c \in Clients, Gives(c)
      PROVE  Hands'
  <2>1. held[c] \in Pooled /\ Holds(c, held[c])
    BY <1>3 DEF Gives, TypeOK
  <2>2. Range(avail') = Range(avail) \cup {held[c]} /\ IsInjective(avail')
    BY <1>3, <2>1, AppendRange DEF Gives, GiveBack, TypeOK
  <2>3. \A d \in Clients, p \in Pooled :
          (pc'[d] \in Busy /\ held'[d] = p) => d # c /\ Holds(d, p)
    BY <1>3 DEF Gives, GiveBack, TypeOK, Busy
  <2> QED
    BY <1>3, <2>1, <2>2, <2>3 DEF Gives, GiveBack
<1>4. ASSUME NEW c \in Clients, Waits(c)
      PROVE  Hands'
  <2>1. \A d \in Clients, p \in Pooled : (pc'[d] \in Busy /\ held'[d] = p) => Holds(d, p)
    BY <1>4 DEF Waits, TypeOK, Busy
  <2> QED
    BY <1>4, <2>1 DEF Waits
<1>5. ASSUME NEW p \in Pooled, Launch(p)
      PROVE  Hands'
  <2>1. Range(avail') = Range(avail) \cup {p} /\ IsInjective(avail')
    BY <1>5, AppendRange DEF Launch, TypeOK
  <2> QED
    BY <1>5, <2>1 DEF Launch, client, TypeOK
<1>6. CASE Drains
  <2>1. IsInjective(<<>>) /\ Range(<<>>) = {}
    BY DEF IsInjective, Range
  <2> QED
    BY <1>6, <2>1 DEF Drains, client
<1>7. CASE Crashes
  BY <1>7 DEF Crashes, Crash, vars, client, TypeOK
<1> QED
  BY <1>1, <1>2, <1>3, <1>4, <1>5, <1>6, <1>7, StepKinds

\* No browser is ever in two hands: not with two clients, not with a client
\* and in the queue, not twice in the queue.
THEOREM NobodyShares == Spec => []OneHolder
<1>1. Hands => OneHolder
  BY DEF Hands
<1> QED
  BY <1>1, TypeInit, TypeStep, HandsInit, HandsStep, PTL DEF Spec

-----------------------------------------------------------------------------
(* Nothing gets lost.                                                      *)

\* A queue as long as there are browsers has them all.
LEMMA FullQueue ==
  ASSUME NEW q \in Seq(Pooled), IsInjective(q), Len(q) = Size
  PROVE  Range(q) = Pooled
<1>1. Len(q) \in Nat /\ q \in [1..Len(q) -> Pooled]
  OBVIOUS
<1>2. q \in Injection(1..Len(q), Pooled)
  BY <1>1 DEF Injection
<1>3. Cardinality(1..Len(q)) = Len(q)
  <2>1. \A a \in Int, b \in Int : Cardinality(a..b) = IF a > b THEN 0 ELSE b - a + 1
    BY FS_Interval
  <2>2. 1 \in Int /\ Len(q) \in Int
    BY <1>1
  <2>3. Cardinality(1..Len(q)) = IF 1 > Len(q) THEN 0 ELSE Len(q) - 1 + 1
    BY ONLY <2>1, <2>2
  <2> QED
    BY <1>1, <2>3
<1>4. q \in Surjection(1..Len(q), Pooled)
  BY <1>2, <1>3, FS_Injection, PoolAssumption DEF Size
<1> QED
  BY <1>1, <1>4 DEF Surjection, Range

LEMMA LostStep ==
  ASSUME TypeOK, Hands, NoneLost, [Next]_vars
  PROVE  NoneLost'
<1> USE DEF NoneLost, Holds
<1>1. ASSUME NEW c \in Clients, Takes(c)
      PROVE  NoneLost'
  <2>1. Range(avail') = Range(avail) \ {Head(avail)} /\ Head(avail) \in Pooled
    BY <1>1, TailRange DEF Takes, TypeOK, Hands, OneHolder
  <2>2. pc'[c] \in Busy /\ held'[c] = Head(avail)
    BY <1>1, <2>1 DEF Takes, TypeOK, Busy
  <2>3. \A d \in Clients \ {c} : pc'[d] = pc[d] /\ held'[d] = held[d]
    BY <1>1 DEF Takes, TypeOK
  <2>4. pc[c] \notin Busy
    BY <1>1 DEF Takes, Busy
  <2> QED
    BY <1>1, <2>1, <2>2, <2>3, <2>4 DEF Takes
<1>2. ASSUME NEW c \in Clients, Keeps(c)
      PROVE  NoneLost'
  <2>1. \A d \in Clients, p \in Pooled : Holds(d, p) => pc'[d] \in Busy /\ held'[d] = p
    BY <1>2 DEF Keeps, TypeOK
  <2> QED
    BY <1>2, <2>1 DEF Keeps
<1>3. ASSUME NEW c \in Clients, Gives(c)
      PROVE  NoneLost'
  <2>1. Range(avail') = Range(avail) \cup {held[c]}
    BY <1>3, AppendRange DEF Gives, GiveBack, TypeOK
  <2>2. \A d \in Clients, p \in Pooled :
          Holds(d, p) => p = held[c] \/ (pc'[d] \in Busy /\ held'[d] = p)
    BY <1>3 DEF Gives, GiveBack, TypeOK
  <2> QED
    BY <1>3, <2>1, <2>2 DEF Gives, GiveBack
<1>4. ASSUME NEW c \in Clients, Waits(c)
      PROVE  NoneLost'
  <2>1. \A d \in Clients, p \in Pooled : Holds(d, p) => pc'[d] \in Busy /\ held'[d] = p
    BY <1>4 DEF Waits, TypeOK, Busy
  <2> QED
    BY <1>4, <2>1 DEF Waits
<1>5. ASSUME NEW p \in Pooled, Launch(p), pool' = "on"
      PROVE  NoneLost'
  <2>1. IsInjective(avail') /\ avail' \in Seq(Pooled) /\ Len(avail') = Size
    <3>1. avail' \in Seq(Pooled) /\ Len(avail') = Size
      BY <1>5 DEF Launch, TypeOK
    <3> QED
      BY <1>5, <3>1, AppendRange DEF Launch, TypeOK, Hands, OneHolder, NoneOut
  <2> QED
    BY <2>1, FullQueue
<1>6. CASE Drains
  BY <1>6 DEF Drains
<1>7. CASE Crashes
  BY <1>7 DEF Crashes, Crash, vars, client
<1> QED
  BY <1>1, <1>2, <1>3, <1>4, <1>5, <1>6, <1>7, StepKinds

\* While the pool is on each browser is in the queue or with a client.
THEOREM NobodyLost == Spec => []NoneLost
<1>1. Init => NoneLost
  BY DEF Init, NoneLost
<1> QED
  BY <1>1, TypeInit, TypeStep, HandsInit, HandsStep, LostStep, PTL DEF Spec

-----------------------------------------------------------------------------
(* Shares.                                                                 *)

\* The client that has opened a context has yet to count it.
Owes(p) == \E c \in Clients : held[c] = p /\ pc[c] \in Served

Share ==
  /\ \A p \in Pooled :
       /\ opened[p] <= MaxPages /\ opened[p] <= served[p] + 1
       /\ opened[p] <= served[p] \/ Owes(p)
  /\ \A c \in Clients : pc[c] = "opening" => served[held[c]] < MaxPages

LEMMA ShareGiven ==
  ASSUME TypeOK, OneHolder, Share, NEW c \in Clients, pc[c] \in Busy, GiveBack(c)
  PROVE  Share'
<1>1. /\ served' = [served EXCEPT ![held[c]] = @ + 1] /\ opened' = opened
      /\ held[c] \in Pooled /\ held' = held /\ pc' = [pc EXCEPT ![c] = "out"]
  BY DEF GiveBack, TypeOK
<1>2. \A d \in Clients \ {c} : pc'[d] = pc[d] /\ (pc[d] \in Busy => held[d] # held[c])
  BY <1>1 DEF TypeOK, OneHolder, Holds
<1>3. \A p \in Pooled : Owes(p) => p = held[c] \/ Owes(p)'
  BY <1>1, <1>2 DEF Owes, Served
<1>4. \A p \in Pooled : served'[p] = IF p = held[c] THEN served[p] + 1 ELSE served[p]
  BY <1>1 DEF TypeOK
<1>5. \A p \in Pooled : opened[p] \in Nat /\ served[p] \in Nat
  BY DEF TypeOK
<1>6. ASSUME NEW p \in Pooled
      PROVE  /\ opened'[p] <= MaxPages /\ opened'[p] <= served'[p] + 1
             /\ opened'[p] <= served'[p] \/ Owes(p)'
  BY <1>1, <1>3, <1>4, <1>5 DEF Share
<1>7. ASSUME NEW d \in Clients, pc'[d] = "opening"
      PROVE  served'[held'[d]] < MaxPages
  <2>1. d # c /\ pc[d] = "opening" /\ held[d] \in Pooled /\ held[d] # held[c]
    BY <1>1, <1>2, <1>7 DEF TypeOK, Busy
  <2> QED
    BY <1>1, <1>4, <2>1 DEF Share
<1> QED
  BY <1>6, <1>7 DEF Share

LEMMA ShareStep ==
  ASSUME TypeOK, Hands, Share, [Next]_vars
  PROVE  Share'
<1> USE PoolAssumption
<1>0. OneHolder /\ \A p \in Pooled : opened[p] \in Nat /\ served[p] \in Nat
  BY DEF Hands, TypeOK
<1>1. ASSUME NEW c \in Clients, Take(c), pc[c] \in {"out", "waiting"}
      PROVE  Share'
  <2>1. /\ Head(avail) \in Pooled /\ held'[c] = Head(avail)
        /\ pc'[c] = "opening" => served[Head(avail)] < MaxPages
    <3>1. Head(avail) \in Pooled
      BY <1>1, HeadTailProperties DEF Take, TypeOK
    <3> QED
      BY <1>1, <3>1 DEF Take, TypeOK, Saturated
  <2>2. \A d \in Clients \ {c} : pc'[d] = pc[d] /\ held'[d] = held[d]
    BY <1>1 DEF Take, TypeOK
  <2>3. \A p \in Pooled : Owes(p) => Owes(p)'
    BY <1>1, <2>2 DEF Owes, Served
  <2> QED
    BY <1>1, <2>1, <2>2, <2>3 DEF Share, Take
<1>2. ASSUME NEW c \in Clients,
             Recycle(c) \/ OpenPage(c) \/ Leave(c) \/ (Cancel(c) /\ pc[c] \in {"using", "waiting"})
      PROVE  Share'
  <2>1. UNCHANGED <<served, opened, held>>
    BY <1>2 DEF Recycle, OpenPage, Leave, Cancel, Busy
  <2>2. pc' \in {[pc EXCEPT ![c] = "launching"], [pc EXCEPT ![c] = "using"],
                 [pc EXCEPT ![c] = "leaving"], [pc EXCEPT ![c] = "out"]}
    BY <1>2 DEF Recycle, OpenPage, Leave, Cancel, Busy
  <2>3. pc[c] \in Served => pc'[c] \in Served
    BY <1>2 DEF Recycle, OpenPage, Leave, Cancel, Busy, Served, TypeOK
  <2>4. \A d \in Clients : d # c => pc'[d] = pc[d]
    BY <2>2 DEF TypeOK
  <2>5. pc'[c] # "opening"
    BY <2>2 DEF TypeOK
  <2>6. \A p \in Pooled : Owes(p) => Owes(p)'
    BY <2>1, <2>3, <2>4 DEF Owes
  <2> QED
    BY <2>1, <2>4, <2>5, <2>6 DEF Share
<1>3. ASSUME NEW c \in Clients, Relaunch(c)
      PROVE  Share'
  <2>1. /\ held' = held /\ held[c] \in Pooled /\ pc[c] = "launching"
        /\ \A d \in Clients : d # c => pc'[d] = pc[d]
        /\ \A p \in Pooled : /\ served'[p] = IF p = held[c] THEN 0 ELSE served[p]
                             /\ opened'[p] = IF p = held[c] THEN 0 ELSE opened[p]
    BY <1>3 DEF Relaunch, TypeOK
  <2>2. \A d \in Clients : held[d] \in Pooled
    BY DEF TypeOK
  <2>3. \A p \in Pooled : Owes(p) => Owes(p)'
    BY <2>1 DEF Owes, Served
  <2>4. ASSUME NEW p \in Pooled
        PROVE  /\ opened'[p] <= MaxPages /\ opened'[p] <= served'[p] + 1
               /\ opened'[p] <= served'[p] \/ Owes(p)'
    BY <1>0, <2>1, <2>3 DEF Share
  <2>5. ASSUME NEW d \in Clients, pc'[d] = "opening"
        PROVE  served'[held'[d]] < MaxPages
    BY <1>0, <2>1, <2>2, <2>5 DEF Share
  <2> QED
    BY <2>4, <2>5 DEF Share
<1>4. ASSUME NEW c \in Clients, OpenContext(c)
      PROVE  Share'
  <2>1. /\ held' = held /\ held[c] \in Pooled /\ served' = served
        /\ pc[c] = "opening" /\ pc'[c] = "paging"
        /\ \A d \in Clients : d # c => pc'[d] = pc[d]
        /\ \A p \in Pooled : opened'[p] = IF p = held[c] THEN opened[p] + 1 ELSE opened[p]
    BY <1>4 DEF OpenContext, TypeOK
  <2>2. ~ Owes(held[c])
    BY <1>0, <2>1 DEF OneHolder, Holds, Owes, Served, Busy
  <2>3. \A p \in Pooled : Owes(p) => Owes(p)'
    BY <2>1 DEF Owes, Served
  <2>4. Owes(held[c])'
    BY <2>1 DEF Owes, Served
  <2>5. served[held[c]] < MaxPages /\ opened[held[c]] <= served[held[c]]
    BY <2>1, <2>2 DEF Share
  <2>6. ASSUME NEW p \in Pooled
        PROVE  /\ opened'[p] <= MaxPages /\ opened'[p] <= served'[p] + 1
               /\ opened'[p] <= served'[p] \/ Owes(p)'
    BY <1>0, <2>1, <2>3, <2>4, <2>5 DEF Share
  <2>7. ASSUME NEW d \in Clients, pc'[d] = "opening"
        PROVE  served'[held'[d]] < MaxPages
    BY <2>1, <2>7 DEF Share
  <2> QED
    BY <2>6, <2>7 DEF Share
<1>5. ASSUME NEW c \in Clients,
             Return(c) \/ Raises(c) \/ Abandon(c) \/ (Cancel(c) /\ pc[c] \notin {"using", "waiting"})
      PROVE  Share'
  <2>1. pc[c] \in Busy /\ GiveBack(c)
    BY <1>5 DEF Return, Raises, Abandon, Cancel, Busy
  <2> QED
    BY <1>0, <2>1, ShareGiven
<1>6. ASSUME UNCHANGED <<served, opened, held>>,
             \A c \in Clients : pc'[c] = pc[c] \/ (pc[c] = "out" /\ pc'[c] = "waiting")
      PROVE  Share'
  <2>1. \A p \in Pooled : Owes(p) => Owes(p)'
    BY <1>6 DEF Owes, Served
  <2> QED
    BY <1>6, <2>1 DEF Share
<1>7. ASSUME NEW c \in Clients, Call(c), ~ Take(c)
      PROVE  Share'
  BY <1>7, <1>6 DEF Call, TypeOK
<1>8. ASSUME NEW p \in Pooled, Launch(p) \/ Crash(p)
      PROVE  Share'
  BY <1>8, <1>6 DEF Launch, Crash, client
<1>9. CASE LaunchFails \/ Stop \/ StopEnds \/ StopFails \/ UNCHANGED vars
  BY <1>9, <1>6 DEF LaunchFails, Stop, StopEnds, StopFails, client, vars
<1> QED
  BY <1>1, <1>2, <1>3, <1>4, <1>5, <1>7, <1>8, <1>9 DEF Next, Advance, Call, Wake

\* No Chromium opens more than max_pages_per_browser contexts.
THEOREM RecycledAlways == Spec => []RecycledInTime
<1>1. Init => Share
  BY PoolAssumption DEF Init, Share
<1>2. Share => RecycledInTime
  BY DEF Share, RecycledInTime
<1> QED
  BY <1>1, <1>2, TypeInit, TypeStep, HandsInit, HandsStep, ShareStep, PTL DEF Spec

-----------------------------------------------------------------------------
(* The server around the pool.                                             *)

\* A step of the server is a step of the pool or leaves it alone, so what holds of
\* the pool under any use holds of it in the server.
LEMMA ServiceStep ==
  ASSUME [ServiceNext]_serviceVars
  PROVE  [Next]_vars
<1>1. ASSUME NEW c \in Clients, Works(c) \/ Cancelled(c)
      PROVE  [Next]_vars
  BY <1>1 DEF Works, Cancelled, Next
<1>2. ASSUME NEW p \in Pooled, BootPool(p) \/ Crash(p)
      PROVE  [Next]_vars
  BY <1>2 DEF BootPool, Next
<1>3. CASE BootFails \/ StopPool \/ PoolCloses
  BY <1>3 DEF BootFails, StopPool, PoolCloses, Next
<1>4. CASE StartWorkers \/ StopScheduler \/ StopWorkers \/ UNCHANGED serviceVars
  BY <1>4 DEF StartWorkers, StopScheduler, StopWorkers, serviceVars
<1> QED
  BY <1>1, <1>2, <1>3, <1>4 DEF ServiceNext

\* Which loops there are, and whether the pool is on, in each phase.
Phases ==
  /\ service \in {"boot", "serving", "draining", "cancelling", "down"}
  /\ service \in {"serving", "draining", "cancelling"} => pool = "on"
  /\ service = "boot" => \A c \in Clients : worker[c] = "none"
  /\ service = "cancelling" => \A c \in Clients : worker[c] \in {"cancelled", "done"}
  /\ service = "down" => \A c \in Clients : worker[c] \in {"none", "done"}
  /\ \A c \in Clients : worker[c] \in {"none", "done"} => pc[c] = "out"
  /\ worker \in [Clients -> {"none", "loop", "cancelled", "done"}]

LEMMA PhasesStep ==
  ASSUME TypeOK, Phases, [ServiceNext]_serviceVars
  PROVE  Phases'
<1>1. ASSUME NEW p \in Pooled, BootPool(p)
      PROVE  Phases'
  BY <1>1 DEF BootPool, Launch, Phases, lifespan, client
<1>2. ASSUME NEW p \in Pooled, Crash(p), UNCHANGED lifespan
      PROVE  Phases'
  BY <1>2 DEF Crash, Phases, lifespan, client
<1>3. ASSUME NEW c \in Clients, Works(c)
      PROVE  Phases'
  <2>1. UNCHANGED <<pool, lifespan>> /\ worker[c] = "loop"
    BY <1>3 DEF Works, Call, Wake, Take, Advance, Recycle, Relaunch, OpenContext, OpenPage,
                Leave, Return, Raises, Abandon, GiveBack
  <2>2. \A d \in Clients : d # c => pc'[d] = pc[d]
    <3>1. \E place : pc' = [pc EXCEPT ![c] = place]
      BY <1>3 DEF Works, Call, Wake, Take, Advance, Recycle, Relaunch, OpenContext, OpenPage,
                  Leave, Return, Raises, Abandon, GiveBack
    <3> QED
      BY <3>1 DEF TypeOK
  <2> QED
    BY <2>1, <2>2 DEF Phases, lifespan
<1>4. ASSUME NEW c \in Clients, Cancelled(c)
      PROVE  Phases'
  <2>1. CASE pc[c] = "out"
    BY <1>4, <2>1 DEF Cancelled, Phases, vars, client
  <2>2. CASE pc[c] # "out"
    <3>1. UNCHANGED <<pool, lifespan>> /\ worker[c] = "cancelled"
      BY <1>4, <2>2 DEF Cancelled, Cancel, GiveBack, lifespan
    <3>2. \A d \in Clients : d # c => pc'[d] = pc[d]
      BY <1>4, <2>2 DEF Cancelled, Cancel, GiveBack, TypeOK
    <3> QED
      BY <3>1, <3>2 DEF Phases, lifespan
  <2> QED
    BY <2>1, <2>2
<1>5. CASE BootFails \/ StartWorkers \/ StopScheduler \/ StopWorkers
  BY <1>5 DEF BootFails, LaunchFails, StartWorkers, StopScheduler, StopWorkers, Phases, vars, client
<1>6. CASE StopPool \/ PoolCloses
  BY <1>6 DEF StopPool, Stop, PoolCloses, StopEnds, StopFails, Phases, lifespan, client
<1>7. CASE UNCHANGED serviceVars
  BY <1>7 DEF serviceVars, vars, lifespan, client, Phases
<1> QED
  BY <1>1, <1>2, <1>3, <1>4, <1>5, <1>6, <1>7 DEF ServiceNext

LEMMA PhasesHold == ServiceSpec => [](TypeOK /\ Hands /\ NoneLost /\ Phases)
<1>1. ServiceInit => TypeOK /\ Hands /\ NoneLost /\ Phases
  <2>1. ServiceInit => Phases
    BY DEF ServiceInit, Init, Phases
  <2> QED
    BY <2>1, TypeInit, HandsInit DEF ServiceInit, Init, NoneLost
<1>2. TypeOK /\ Hands /\ NoneLost /\ Phases /\ [ServiceNext]_serviceVars
        => (TypeOK /\ Hands /\ NoneLost /\ Phases)'
  BY ServiceStep, TypeStep, HandsStep, LostStep, PhasesStep
<1> QED
  BY <1>1, <1>2, PTL DEF ServiceSpec

\* The pool is on whenever a worker loop runs, and empty of them otherwise.
THEOREM OutlivesWorkers == ServiceSpec => []PoolOutlivesWorkers
<1>1. Phases => PoolOutlivesWorkers
  BY DEF Phases, PoolOutlivesWorkers
<1> QED
  BY <1>1, PhasesHold, PTL

\* When the pool is stopped each browser is in the queue, whatever the workers
\* were doing when they were cancelled.
THEOREM EveryoneHome == ServiceSpec => AllHome
<1>1. ASSUME TypeOK, NoneLost, Phases, StopPool
      PROVE  Range(avail) = Pooled
  <2>1. pool = "on" /\ \A c \in Clients : pc[c] = "out"
    BY <1>1 DEF StopPool, Stop, Phases
  <2>2. Pooled \subseteq Range(avail)
    BY <1>1, <2>1 DEF NoneLost, Holds, Busy
  <2>3. avail \in [1..Len(avail) -> Pooled]
    BY <1>1 DEF TypeOK
  <2>4. Range(avail) \subseteq Pooled
    BY <2>3 DEF Range
  <2> QED
    BY <2>2, <2>4
<1>2. TypeOK /\ NoneLost /\ Phases /\ [ServiceNext]_serviceVars
        => [StopPool => Range(avail) = Pooled]_serviceVars
  BY <1>1
<1> QED
  BY <1>2, PhasesHold, PTL DEF ServiceSpec, AllHome

=============================================================================
