--------------------------- MODULE ExplorerProofs ---------------------------
(***************************************************************************)
(* The safety of the crawl for every portal, every number of pages and     *)
(* every depth: types, one listener, politeness, harmless links only, a    *)
(* report that leaves nothing out, and the shortest way to every page.     *)
(***************************************************************************)
EXTENDS Explorer, SequenceTheorems, WellFoundedInduction, TLAPS

Entries == [url : Urls, from : Urls \cup {None}, depth : Nat]

LEMMA StartTyped == Entry(Start, None, 0) \in Entries
  BY ExplorerAssumption DEF Entry, Entries

\* The queue crawl starts with.
LEMMA FirstQueueTyped ==
  <<Entry(Start, None, 0)>> \o [i \in DOMAIN Seeds |-> Entry(Seeds[i], Start, 1)]
    \in Seq(Entries)
<1>1. <<Entry(Start, None, 0)>> \in Seq(Entries)
  BY StartTyped
<1>2. [i \in DOMAIN Seeds |-> Entry(Seeds[i], Start, 1)] \in Seq(Entries)
  <2>1. Seeds \in Seq(Urls) /\ Start \in Urls
    BY ExplorerAssumption
  <2>2. DOMAIN Seeds = 1..Len(Seeds) /\ Len(Seeds) \in Nat
    BY <2>1
  <2>3. \A i \in DOMAIN Seeds : Entry(Seeds[i], Start, 1) \in Entries
    BY <2>1, <2>2 DEF Entry, Entries
  <2> QED
    BY <2>2, <2>3
<1> QED
  BY <1>1, <1>2, ConcatProperties

\* An entry that is taken is one of the queue, and the rest of it is a queue.
LEMMA PopTyped ==
  ASSUME NEW q \in Seq(Entries), q # <<>>
  PROVE  PopLeft(q).job \in Entries /\ PopLeft(q).rest \in Seq(Entries)
  BY HeadTailProperties DEF PopLeft

LEMMA RangeTyped ==
  ASSUME NEW S, NEW q \in Seq(S)
  PROVE  Range(q) \subseteq S
<1>1. DOMAIN q = 1..Len(q) /\ \A i \in 1..Len(q) : q[i] \in S
  OBVIOUS
<1> QED
  BY <1>1 DEF Range

Page == [asked : Urls, url : Urls, from : Urls \cup {None}, depth : 0..MaxDepth]

LEMMA VisitedTyped ==
  ASSUME TypeOK
  PROVE  \A v \in Range(visited) : v.url \in Urls /\ v.depth \in 0..MaxDepth
<1>1. visited \in Seq(Page)
  BY DEF TypeOK, Page
<1>2. Range(visited) \subseteq Page
  BY <1>1, RangeTyped
<1> QED
  BY <1>2 DEF Page

\* The entry in work is not too deep.
Deep == pc \in {"delay", "loaded", "captured", "links"} => job.depth <= MaxDepth

Typed == TypeOK /\ OneListener /\ Deep

LEMMA LandedTyped ==
  ASSUME TypeOK
  PROVE  Landed \in Urls /\ site.links[Landed] \in Seq(Urls)
  BY ExplorerAssumption DEF TypeOK, Landed

LEMMA SlugTyped == \A u \in Urls : Slug[u] \in Range(Slug)
  BY ExplorerAssumption DEF Range

LEMMA TypedInit == Init => Typed
<1> SUFFICES ASSUME Init PROVE Typed
  OBVIOUS
<1>1. queue \in Seq(Entries)
  BY FirstQueueTyped DEF Init
<1>2. job \in Entries
  BY StartTyped DEF Init
<1> QED
  BY <1>1, <1>2, ExplorerAssumption DEF Init, Typed, TypeOK, OneListener, Deep, Entries

\* Why an entry is refused is one of the reasons; no reason, not too deep.
LEMMA RefusedReasons ==
  ASSUME NEW e \in Entries
  PROVE  /\ Refused(e) \subseteq {"host", "depth"}
         /\ Refused(e) = {} => Host[e.url] \in Allowed /\ e.depth <= MaxDepth
<1>1. e.depth \in Nat /\ MaxDepth \in Nat
  BY ExplorerAssumption DEF Entries
<1>2. CASE Host[e.url] \notin Allowed
  <2>1. Refused(e) = {"host"}
    BY <1>2 DEF Refused
  <2> QED
    BY <2>1
<1>3. CASE Host[e.url] \in Allowed /\ e.depth > MaxDepth
  <2>1. Refused(e) = {"depth"}
    BY <1>3 DEF Refused
  <2> QED
    BY <2>1
<1>4. CASE Host[e.url] \in Allowed /\ ~ e.depth > MaxDepth
  <2>1. Refused(e) = {}
    BY <1>4 DEF Refused
  <2> QED
    BY <1>1, <1>4, <2>1
<1> QED
  BY <1>2, <1>3, <1>4

\* What a report lists was skipped.
LEMMA ListedTyped ==
  ASSUME TypeOK
  PROVE  ListedSkips \subseteq Skips
<1>1. skipped \in Seq(Skips)
  BY DEF TypeOK
<1>2. DOMAIN skipped = 1..Len(skipped) /\ \A i \in 1..Len(skipped) : skipped[i] \in Skips
  BY <1>1
<1> QED
  BY <1>2 DEF ListedSkips

\* Every step keeps the types, the listener count and the depth.
LEMMA TypedStep ==
  ASSUME Typed, [Next]_vars
  PROVE  Typed'
<1> USE ExplorerAssumption
<1>e. queue \in Seq(Entries) /\ job \in Entries
  BY DEF Typed, TypeOK, Entries
<1>1. ASSUME Loops
      PROVE  /\ PopLeft(queue).job \in Entries
             /\ PopLeft(queue).rest \in Seq(Entries)
  BY <1>1, <1>e, PopTyped DEF Loops
<1>2. CASE Login
  BY <1>2, SMTT(30) DEF Login, Typed, TypeOK, OneListener, Deep
<1>3. CASE LoginFails
  BY <1>3 DEF LoginFails, Fault, Typed, TypeOK, OneListener, Deep
<1>4. CASE Drop
  <2>1. queue' \in Seq(Entries)
    BY <1>1, <1>4 DEF Drop
  <2> QED
    BY <1>4, <2>1 DEF Drop, Typed, TypeOK, OneListener, Deep, Entries
<1>5. CASE Refuse
  <2>1. Loops /\ PopLeft(queue).job \in Entries /\ PopLeft(queue).rest \in Seq(Entries)
    BY <1>1, <1>5 DEF Refuse
  <2>2. \A why \in Refused(PopLeft(queue).job) : Skip(PopLeft(queue).job.url, why) \in Skips
    BY <2>1, RefusedReasons DEF Skip, Skips, Entries
  <2>3. skipped' \in Seq(Skips)
    BY <1>5, <2>2, AppendProperties DEF Refuse, Typed, TypeOK
  <2> QED
    BY <1>5, <2>1, <2>3 DEF Refuse, Typed, TypeOK, OneListener, Deep, Entries
<1>6. CASE Attach
  <2>1. Loops /\ PopLeft(queue).job \in Entries /\ PopLeft(queue).rest \in Seq(Entries)
    BY <1>1, <1>6 DEF Attach
  <2>2. PopLeft(queue).job.depth <= MaxDepth
    BY <1>6, <2>1, RefusedReasons DEF Attach
  <2>3. listeners = 0
    BY <1>6 DEF Attach, Loops, Typed, OneListener
  <2> QED
    BY <1>6, <2>1, <2>2, <2>3, SMTT(30) DEF Attach, Typed, TypeOK, OneListener, Deep, Entries
<1>7. CASE Goto
  BY <1>7, SMTT(30) DEF Goto, Typed, TypeOK, OneListener, Deep
<1>8. CASE GotoFails
  <2>1. Skip(job.url, "goto") \in Skips
    BY <1>e DEF Skip, Skips, Entries
  <2>2. skipped' \in Seq(Skips)
    BY <1>8, <2>1, AppendProperties DEF GotoFails, Typed, TypeOK
  <2> QED
    BY <1>8, <2>2, SMTT(30) DEF GotoFails, Fault, Typed, TypeOK, OneListener, Deep
<1>9. CASE Capture
  <2>1. disk' \in [Range(Slug) -> Urls \cup {None}]
    BY <1>9, LandedTyped, SlugTyped DEF Capture, Typed, TypeOK
  <2> QED
    BY <1>9, <2>1 DEF Capture, Typed, TypeOK, OneListener, Deep
<1>10. CASE Record
  <2>1. [asked |-> job.url, url |-> Landed, from |-> job.from, depth |-> job.depth]
          \in [asked : Urls, url : Urls, from : Urls \cup {None}, depth : 0..MaxDepth]
    BY <1>10, <1>e, LandedTyped DEF Record, Typed, Deep, Entries
  <2>2. visited' \in Seq([asked : Urls, url : Urls, from : Urls \cup {None}, depth : 0..MaxDepth])
    BY <1>10, <2>1, AppendProperties DEF Record, Typed, TypeOK
  <2>3. todo' \in Seq(Urls)
    BY <1>10, LandedTyped DEF Record, Typed
  <2> QED
    BY <1>10, <2>2, <2>3 DEF Record, Typed, TypeOK, OneListener, Deep
<1>11. CASE Link
  <2>1. Head(todo) \in Urls /\ todo' \in Seq(Urls)
    BY <1>11, HeadTailProperties DEF Link, Typed, TypeOK
  <2>2. Entry(Head(todo), Landed, job.depth + 1) \in Entries
    BY <1>e, <2>1, LandedTyped DEF Entry, Entries, Typed
  <2>3. queue' \in Seq(Entries)
    BY <1>e, <1>11, <2>2, AppendProperties DEF Link
  <2>4. Skip(Head(todo), "text") \in Skips
    BY <2>1 DEF Skip, Skips
  <2>5. skipped' \in Seq(Skips)
    BY <1>11, <2>4, AppendProperties DEF Link, Typed, TypeOK
  <2> QED
    BY <1>11, <2>1, <2>3, <2>5 DEF Link, Typed, TypeOK, OneListener, Deep, Entries
<1>12. CASE Leave
  BY <1>12 DEF Leave, Typed, TypeOK, OneListener, Deep
<1>13. CASE Abort
  BY <1>13 DEF Abort, Fault, Typed, TypeOK, OneListener, Deep
<1>14. CASE Finish
  <2>0. \A v \in Range(visited) : v.url \in Urls
    BY VisitedTyped DEF Typed
  <2>1. \A d \in 0..MaxDepth : {v.url : v \in {w \in Range(visited) : w.depth = d}} \subseteq Urls
    BY <2>0
  <2>2. ListedSkips \subseteq Skips /\ Len(skipped) \in Nat
    BY ListedTyped, LenProperties DEF Typed, TypeOK
  <2>3. report' \in [pages : [0..MaxDepth -> SUBSET Urls], count : Nat,
                     skipped : SUBSET Skips]
    BY <1>14, <2>1, <2>2 DEF Finish, Report
  <2> QED
    BY <1>14, <2>3 DEF Finish, Typed, TypeOK, OneListener, Deep
<1>15. CASE UNCHANGED vars
  BY <1>15 DEF vars, Typed, TypeOK, OneListener, Deep
<1> QED
  BY <1>2, <1>3, <1>4, <1>5, <1>6, <1>7, <1>8, <1>9, <1>10, <1>11, <1>12, <1>13, <1>14,
     <1>15 DEF Next, Step

\* Every variable of the crawl keeps its type, whatever the portal answers.
THEOREM TypeCorrect == Spec => []TypeOK
<1>1. Typed => TypeOK
  BY DEF Typed
<1> QED
  BY <1>1, TypedInit, TypedStep, PTL DEF Spec

\* The page never has two listeners, nor one that is left over after a failed
\* navigation, a failed recording or the end of the crawl.
THEOREM Listener == Spec => []OneListener
<1>1. Typed => OneListener
  BY DEF Typed
<1> QED
  BY <1>1, TypedInit, TypedStep, PTL DEF Spec

-----------------------------------------------------------------------------
(* Politeness.                                                             *)

\* What is asked for has been seen and is allowed, and the entry whose delay is
\* running has not been asked for.
PoliteInv ==
  /\ Polite
  /\ \A u \in Urls : gotos[u] > 0 => u \in seen
  /\ pc = "delay" => /\ job.url \in seen /\ Host[job.url] \in Allowed
                     /\ gotos[job.url] = 0

LEMMA PoliteInit == Init => PoliteInv
  BY DEF Init, PoliteInv, Polite

LEMMA PoliteStep ==
  ASSUME Typed, PoliteInv, [Next]_vars
  PROVE  PoliteInv'
<1>e. queue \in Seq(Entries) /\ job.url \in Urls /\ gotos \in [Urls -> Nat]
  BY DEF Typed, TypeOK, Entries
<1>1. CASE Attach
  <2>1. /\ PopLeft(queue).job \in Entries
        /\ Host[PopLeft(queue).job.url] \in Allowed
    BY <1>1, <1>e, PopTyped, RefusedReasons DEF Attach, Loops
  <2>2. gotos[PopLeft(queue).job.url] = 0
    BY <1>1, <1>e, <2>1 DEF Attach, PoliteInv, Entries
  <2> QED
    BY <1>1, <1>e, <2>1, <2>2 DEF Attach, PoliteInv, Polite
<1>2. CASE Goto
  BY <1>2, <1>e DEF Goto, PoliteInv, Polite
<1>3. CASE GotoFails
  BY <1>3, <1>e DEF GotoFails, PoliteInv, Polite
<1>4. CASE Refuse
  BY <1>4, <1>e DEF Refuse, Loops, PoliteInv, Polite
<1>5. CASE Login \/ LoginFails \/ Drop \/ Capture \/ Record \/ Link
  BY <1>5, <1>e DEF Login, LoginFails, Drop, Loops, Capture, Record, Link, PoliteInv, Polite
<1>6. CASE Leave \/ Abort \/ Finish \/ UNCHANGED vars
  BY <1>6, <1>e DEF Leave, Abort, Finish, vars, PoliteInv, Polite
<1> QED
  BY <1>1, <1>2, <1>3, <1>4, <1>5, <1>6 DEF Next, Step

\* No URL is asked for twice, and none on a host that is not allowed, on any
\* portal: the polite crawl the explore command promises.
THEOREM PoliteAlways == Spec => []Polite
<1>1. PoliteInv => Polite
  BY DEF PoliteInv
<1> QED
  BY <1>1, TypedInit, TypedStep, PoliteInit, PoliteStep, PTL DEF Spec

-----------------------------------------------------------------------------
(* Harmless links only.                                                    *)

LEMMA RangeOfTail ==
  ASSUME NEW S, NEW q \in Seq(S), q # <<>>
  PROVE  Head(q) \in Range(q) /\ Range(Tail(q)) \subseteq Range(q)
<1>1. /\ Len(q) \in Nat \ {0} /\ DOMAIN q = 1..Len(q) /\ Head(q) = q[1]
      /\ DOMAIN Tail(q) = 1..(Len(q) - 1)
      /\ \A i \in 1..(Len(q) - 1) : Tail(q)[i] = q[i + 1]
  BY HeadTailProperties, EmptySeq
<1> QED
  BY <1>1 DEF Range

LEMMA RangeOfAppend ==
  ASSUME NEW S, NEW q \in Seq(S), NEW e \in S
  PROVE  Range(Append(q, e)) = Range(q) \cup {e}
<1>1. /\ Len(q) \in Nat /\ DOMAIN q = 1..Len(q)
      /\ DOMAIN Append(q, e) = 1..(Len(q) + 1)
      /\ \A i \in 1..Len(q) : Append(q, e)[i] = q[i]
      /\ Append(q, e)[Len(q) + 1] = e
  BY AppendProperties
<1> QED
  BY <1>1 DEF Range

\* An entry is the first one, a seed, or a harmless link of a page recorded
\* before.
Linked(u, from, d) ==
  \E j \in DOMAIN visited :
    /\ visited[j].url = from /\ visited[j].depth + 1 = d
    /\ u \in Range(site.links[from])
    /\ Harmless(from, u)

Justified(e) ==
  e.url = Start \/ e.url \in Range(Seeds) \/ Linked(e.url, e.from, e.depth)

HarmlessInv ==
  /\ OnlyHarmless
  /\ \A e \in Range(queue) : Justified(e)
  /\ Justified(job)
  /\ pc = "links" =>
       /\ \E j \in DOMAIN visited : visited[j].url = Landed /\ visited[j].depth = job.depth
       /\ Range(todo) \subseteq Range(site.links[Landed])

LEMMA HarmlessInit == Init => HarmlessInv
<1> SUFFICES ASSUME Init PROVE HarmlessInv
  OBVIOUS
<1> DEFINE first == <<Entry(Start, None, 0)>>
           seeds == [i \in DOMAIN Seeds |-> Entry(Seeds[i], Start, 1)]
<1>1. queue = first \o seeds
  BY DEF Init
<1>2. \A e \in Range(queue) : Justified(e)
  <2>1. Seeds \in Seq(Urls) /\ Len(Seeds) \in Nat /\ DOMAIN Seeds = 1..Len(Seeds)
    BY ExplorerAssumption
  <2>2. Len(first) = 1 /\ Len(seeds) = Len(Seeds)
    BY <2>1
  <2>3. \A i \in DOMAIN queue :
          IF i = 1 THEN queue[i] = Entry(Start, None, 0)
                   ELSE i - 1 \in DOMAIN Seeds /\ queue[i] = Entry(Seeds[i - 1], Start, 1)
    <3>1. first \in Seq(Entries) /\ seeds \in Seq(Entries)
      <4>1. \A i \in DOMAIN Seeds : Entry(Seeds[i], Start, 1) \in Entries
        BY <2>1, ExplorerAssumption DEF Entry, Entries
      <4> QED
        BY <2>1, <4>1, StartTyped
    <3>2. /\ Len(queue) = 1 + Len(Seeds)
          /\ \A i \in 1..(1 + Len(Seeds)) :
               queue[i] = IF i <= 1 THEN first[i] ELSE seeds[i - 1]
      BY <1>1, <2>2, <3>1, ConcatProperties
    <3>3. DOMAIN queue = 1..(1 + Len(Seeds))
      BY <1>1, <3>1, <3>2, ConcatProperties
    <3> SUFFICES ASSUME NEW i \in 1..(1 + Len(Seeds))
                 PROVE  IF i = 1 THEN queue[i] = Entry(Start, None, 0)
                        ELSE i - 1 \in DOMAIN Seeds /\ queue[i] = Entry(Seeds[i - 1], Start, 1)
      BY <3>3
    <3>4. i = 1 => queue[i] = Entry(Start, None, 0)
      <4>1. first[1] = Entry(Start, None, 0)
        OBVIOUS
      <4>2. \A n \in 1..(1 + Len(Seeds)) : n <= 1 => queue[n] = first[n]
        BY <3>2
      <4> HIDE DEF first
      <4> QED
        BY <4>1, <4>2
    <3>5. i # 1 => i - 1 \in DOMAIN Seeds /\ queue[i] = seeds[i - 1]
      BY <2>1, <3>2
    <3> QED
      BY <3>4, <3>5
  <2>4. ASSUME NEW i \in DOMAIN queue
        PROVE  queue[i].url = Start \/ queue[i].url \in Range(Seeds)
    BY <2>3 DEF Entry, Range
  <2> QED
    BY <2>4 DEF Range, Justified
<1>3. Justified(job)
  BY DEF Init, Justified, Entry
<1>4. OnlyHarmless /\ pc # "links"
  BY DEF Init, OnlyHarmless
<1> QED
  BY <1>2, <1>3, <1>4 DEF HarmlessInv

\* What is justified stays so when the result grows.
LEMMA JustifiedKept ==
  ASSUME NEW e, Justified(e), site' = site,
         \A j \in DOMAIN visited : j \in DOMAIN visited' /\ visited'[j] = visited[j]
  PROVE  Justified(e)'
  BY DEF Justified, Linked, Harmless

LEMMA HarmlessStep ==
  ASSUME Typed, HarmlessInv, [Next]_vars
  PROVE  HarmlessInv'
<1>e. queue \in Seq(Entries) /\ job \in Entries /\ site' = site
  BY DEF Typed, TypeOK, Entries, Next, Step, Login, LoginFails, Drop, Refuse, Attach, Goto,
         GotoFails, Capture, Record, Link, Leave, Abort, Finish, vars
<1>1. ASSUME Loops
      PROVE  /\ PopLeft(queue).job \in Range(queue)
             /\ Range(PopLeft(queue).rest) \subseteq Range(queue)
  BY <1>1, <1>e, RangeOfTail DEF Loops, PopLeft
<1>2. ASSUME UNCHANGED visited, \A e \in Range(queue') : Justified(e), Justified(job'),
             pc' = "links" => pc = "links" /\ todo' = todo /\ job' = job
      PROVE  HarmlessInv'
  BY <1>e, <1>2 DEF HarmlessInv, OnlyHarmless, Justified, Linked, Harmless, Landed
<1>3. CASE Drop \/ Refuse
  BY <1>1, <1>2, <1>3 DEF Drop, Refuse, HarmlessInv
<1>4. CASE Attach
  BY <1>1, <1>2, <1>4 DEF Attach, HarmlessInv
<1>5. CASE Login \/ LoginFails \/ Goto \/ GotoFails \/ Capture
  BY <1>2, <1>5 DEF Login, LoginFails, Goto, GotoFails, Capture, HarmlessInv
<1>6. CASE Leave \/ Abort \/ Finish \/ UNCHANGED vars
  BY <1>2, <1>6 DEF Leave, Abort, Finish, vars, HarmlessInv
<1>7. CASE Record
  <2> DEFINE page == [asked |-> job.url, url |-> Landed, from |-> job.from, depth |-> job.depth]
  <2>1. visited \in Seq(Page) /\ page \in Page
    BY <1>7, <1>e, LandedTyped DEF Record, Typed, TypeOK, Deep, Entries, Page
  <2>2. /\ DOMAIN visited = 1..Len(visited) /\ Len(visited) \in Nat
        /\ DOMAIN visited' = 1..(Len(visited) + 1)
        /\ \A i \in 1..Len(visited) : visited'[i] = visited[i]
        /\ visited'[Len(visited) + 1] = page
    BY <1>7, <2>1, AppendProperties DEF Record
  <2>3. (\A e \in Range(queue) : Justified(e)') /\ Justified(job)'
    BY <1>7, <1>e, <2>2, JustifiedKept DEF HarmlessInv, Record
  <2>4. OnlyHarmless'
    <3> SUFFICES ASSUME NEW i \in DOMAIN visited'
                 PROVE  \/ visited'[i].asked = Start \/ visited'[i].asked \in Range(Seeds)
                        \/ \E j \in 1..(i - 1) :
                             /\ visited'[j].url = visited'[i].from
                             /\ visited'[j].depth + 1 = visited'[i].depth
                             /\ visited'[i].asked \in Range(site.links[visited'[i].from])
                             /\ Harmless(visited'[i].from, visited'[i].asked)
      BY <1>e DEF OnlyHarmless, Harmless
    <3>1. CASE i \in DOMAIN visited
      <4>1. \A j \in 1..(i - 1) : visited'[j] = visited[j]
        BY <2>2, <3>1
      <4>2. visited'[i] = visited[i]
        BY <2>2, <3>1
      <4> QED
        BY <3>1, <4>1, <4>2 DEF HarmlessInv, OnlyHarmless
    <3>2. CASE i = Len(visited) + 1
      <4>1. visited'[i] = page /\ Justified(job)
        BY <2>2, <3>2 DEF HarmlessInv
      <4>2. DOMAIN visited = 1..(i - 1) /\ \A j \in 1..(i - 1) : visited'[j] = visited[j]
        BY <2>2, <3>2
      <4> QED
        BY <4>1, <4>2 DEF Justified, Linked
    <3> QED
      BY <2>2, <3>1, <3>2
  <2>5. /\ \E j \in DOMAIN visited' : visited'[j].url = Landed /\ visited'[j].depth = job.depth
        /\ Landed' = Landed /\ job' = job
    BY <1>7, <1>e, <2>2 DEF Record, Landed
  <2>6. Range(todo') \subseteq Range(site.links[Landed])
    BY <1>7 DEF Record, Range
  <2> QED
    BY <1>7, <1>e, <2>3, <2>4, <2>5, <2>6 DEF Record, HarmlessInv
<1>8. CASE Link
  <2> DEFINE u == Head(todo)
  <2>1. u \in Range(todo) /\ Range(todo') \subseteq Range(todo) /\ u \in Urls
    BY <1>8, RangeOfTail, HeadTailProperties DEF Link, Typed, TypeOK
  <2>2. PICK j \in DOMAIN visited : visited[j].url = Landed /\ visited[j].depth = job.depth
    BY <1>8 DEF Link, HarmlessInv
  <2>3. \A e \in Range(queue') : Justified(e)
    <3>1. CASE Follow(Landed, u) /\ u \notin seen
      <4>1. Entry(u, Landed, job.depth + 1) \in Entries
        BY <1>e, <2>1, LandedTyped DEF Entry, Entries, Typed
      <4>2. Range(queue') = Range(queue) \cup {Entry(u, Landed, job.depth + 1)}
        BY <1>8, <1>e, <3>1, <4>1, RangeOfAppend DEF Link
      <4>3. Linked(u, Landed, job.depth + 1)
        BY <1>8, <2>1, <2>2, <3>1 DEF Link, Linked, HarmlessInv, Follow, Harmless
      <4> QED
        BY <4>2, <4>3 DEF HarmlessInv, Justified, Entry
    <3>2. CASE ~ (Follow(Landed, u) /\ u \notin seen)
      BY <1>8, <3>2 DEF Link, HarmlessInv
    <3> QED
      BY <3>1, <3>2
  <2>4. UNCHANGED <<visited, job, pc>> /\ Landed' = Landed
    BY <1>8, <1>e DEF Link, Landed
  <2>5. OnlyHarmless'
    BY <1>e, <2>4 DEF HarmlessInv, OnlyHarmless, Harmless
  <2>6. \A e : Justified(e)' = Justified(e)
    BY <1>e, <2>4 DEF Justified, Linked, Harmless
  <2>7. Range(todo') \subseteq Range(site'.links[Landed'])
    BY <1>8, <1>e, <2>1, <2>4 DEF Link, HarmlessInv
  <2> QED
    BY <2>2, <2>3, <2>4, <2>5, <2>6, <2>7 DEF HarmlessInv
<1> QED
  BY <1>3, <1>4, <1>5, <1>6, <1>7, <1>8 DEF Next, Step

\* The crawl opens no destructive and no foreign link, on any portal, whatever
\* its pages and redirects are.
THEOREM HarmlessAlways == Spec => []OnlyHarmless
<1>1. HarmlessInv => OnlyHarmless
  BY DEF HarmlessInv
<1> QED
  BY <1>1, TypedInit, TypedStep, HarmlessInit, HarmlessStep, PTL DEF Spec

-----------------------------------------------------------------------------
(* The accounts.                                                           *)

\* A seen URL is on its way to the report.
Told(u) ==
  \/ u \in Asked
  \/ \E x \in Range(skipped) : x.url = u /\ x.why # "text"
  \/ pc \in {"delay", "loaded", "captured", "aborted"} /\ u = job.url

OnDisk == \A v \in Range(visited) : disk[Slug[v.url]] \in {u \in Urls : Slug[u] = Slug[v.url]}

AccountInv ==
  /\ \A u \in seen : Told(u)
  /\ OnDisk
  /\ pc = "captured" => disk[Slug[Landed]] = Landed
  /\ pc # "done" => report = None
  /\ pc = "done" => report = Report

LEMMA AccountInit == Init => AccountInv
<1> SUFFICES ASSUME Init PROVE AccountInv
  OBVIOUS
<1>1. seen = {} /\ Range(visited) = {} /\ pc = "login" /\ report = None
  BY DEF Init, Range
<1> QED
  BY <1>1 DEF AccountInv, OnDisk

\* An entry more in the list of skipped URLs.
LEMMA MoreSkipped ==
  ASSUME TypeOK, NEW x \in Skips
  PROVE  /\ x \in Range(Append(skipped, x))
         /\ Range(skipped) \subseteq Range(Append(skipped, x))
  BY RangeOfAppend DEF TypeOK

LEMMA AccountStep ==
  ASSUME Typed, AccountInv, [Next]_vars
  PROVE  AccountInv'
<1>1. CASE Login \/ LoginFails \/ Drop \/ Goto
  BY <1>1 DEF Login, LoginFails, Drop, Loops, Goto, AccountInv, Told, OnDisk, Asked
<1>2. CASE Refuse
  <2> DEFINE e == PopLeft(queue).job
  <2>1. PICK why \in Refused(e) : skipped' = Append(skipped, Skip(e.url, why))
    BY <1>2 DEF Refuse
  <2>0. e \in Entries
    BY <1>2, PopTyped DEF Refuse, Loops, Typed, TypeOK, Entries
  <2>2. why \in {"host", "depth"}
    BY <2>0, <2>1, RefusedReasons
  <2>3. \A u \in seen' : Told(u)'
    <3>0. Skip(e.url, why) \in Skips
      BY <2>0, <2>2 DEF Skip, Skips, Entries
    <3>1. /\ Skip(e.url, why) \in Range(skipped') /\ Range(skipped) \subseteq Range(skipped')
          /\ Skip(e.url, why).url = e.url /\ Skip(e.url, why).why # "text"
      BY <2>1, <2>2, <3>0, MoreSkipped DEF Skip, Typed
    <3>2. seen' = seen \cup {e.url} /\ Asked' = Asked /\ pc = "pop"
      BY <1>2 DEF Refuse, Loops, Asked
    <3> QED
      BY <3>1, <3>2 DEF AccountInv, Told
  <2> QED
    BY <1>2, <2>3 DEF Refuse, Loops, AccountInv, OnDisk
<1>3. CASE Attach
  BY <1>3 DEF Attach, Loops, AccountInv, Told, OnDisk, Asked
<1>4. CASE GotoFails
  <2>0. Skip(job.url, "goto") \in Skips /\ skipped' = Append(skipped, Skip(job.url, "goto"))
    BY <1>4 DEF GotoFails, Skip, Skips, Typed, TypeOK
  <2>1. /\ Skip(job.url, "goto") \in Range(skipped') /\ Range(skipped) \subseteq Range(skipped')
        /\ Skip(job.url, "goto").url = job.url /\ Skip(job.url, "goto").why # "text"
    BY <2>0, MoreSkipped DEF Skip, Typed
  <2>2. seen' = seen /\ Asked' = Asked /\ pc = "delay"
    BY <1>4 DEF GotoFails, Asked
  <2>3. \A u \in seen' : Told(u)'
    BY <2>1, <2>2 DEF AccountInv, Told
  <2> QED
    BY <1>4, <2>3 DEF GotoFails, AccountInv, OnDisk
<1>5. CASE Capture
  <2>1. Landed \in Urls /\ Slug[Landed] \in Range(Slug) /\ Landed' = Landed
    BY <1>5, LandedTyped, SlugTyped DEF Capture, Typed, Landed
  <2>2. disk' = [disk EXCEPT ![Slug[Landed]] = Landed] /\ disk \in [Range(Slug) -> Urls \cup {None}]
    BY <1>5 DEF Capture, Typed, TypeOK
  <2>3. disk'[Slug[Landed]] = Landed /\ (OnDisk)'
    <3>1. \A v \in Range(visited) : v.url \in Urls
      BY VisitedTyped DEF Typed
    <3>2. \A v \in Range(visited) : Slug[v.url] \in Range(Slug)
      BY <3>1, SlugTyped
    <3> QED
      BY <1>5, <2>1, <2>2, <3>2 DEF Capture, AccountInv, OnDisk
  <2> QED
    BY <1>5, <2>1, <2>3 DEF Capture, AccountInv, Told, Asked
<1>6. CASE Record
  <2> DEFINE page == [asked |-> job.url, url |-> Landed, from |-> job.from, depth |-> job.depth]
  <2>1. visited \in Seq(Page) /\ page \in Page
    BY <1>6, LandedTyped DEF Record, Typed, TypeOK, Deep, Entries, Page
  <2>0. visited' = Append(visited, page)
    BY <1>6 DEF Record
  <2>2. Range(visited') = Range(visited) \cup {page}
    BY <2>0, <2>1, RangeOfAppend
  <2>3. Asked' = Asked \cup {job.url}
    <3>1. page.asked = job.url
      OBVIOUS
    <3> HIDE DEF page
    <3> QED
      BY <2>2, <3>1 DEF Asked
  <2>4. (OnDisk)'
    BY <1>6, <2>2, LandedTyped DEF Record, AccountInv, OnDisk, Typed
  <2> QED
    BY <1>6, <2>3, <2>4 DEF Record, AccountInv, Told
<1>7. CASE Link
  <2>1. Skip(Head(todo), "text") \in Skips
    BY <1>7, HeadTailProperties DEF Link, Skip, Skips, Typed, TypeOK
  <2>2. Range(skipped) \subseteq Range(skipped')
    BY <1>7, <2>1, MoreSkipped DEF Link, Typed
  <2>3. /\ UNCHANGED <<seen, visited, pc, job, disk, report>>
        /\ pc = "links"
    BY <1>7 DEF Link
  <2>4. \A u \in seen' : Told(u)'
    BY <2>2, <2>3 DEF AccountInv, Told, Asked
  <2> QED
    BY <2>3, <2>4 DEF AccountInv, OnDisk
<1>8. CASE Leave
  BY <1>8 DEF Leave, AccountInv, Told, OnDisk, Asked
<1>9. CASE Abort
  BY <1>9 DEF Abort, AccountInv, Told, OnDisk, Asked
<1>10. CASE Finish
  BY <1>10 DEF Finish, AccountInv, Told, OnDisk, Asked, Report, ListedSkips
<1>11. CASE UNCHANGED vars
  BY <1>11 DEF vars, AccountInv, Told, OnDisk, Asked, Report, ListedSkips, Landed
<1> QED
  BY <1>1, <1>2, <1>3, <1>4, <1>5, <1>6, <1>7, <1>8, <1>9, <1>10, <1>11 DEF Next, Step

\* The report has every page that was recorded.
LEMMA ReportComplete ==
  ASSUME TypeOK
  PROVE  UNION {Report.pages[d] : d \in 0..MaxDepth} = {v.url : v \in Range(visited)}
<1>1. \A v \in Range(visited) : v.depth \in 0..MaxDepth
  BY VisitedTyped
<1>2. \A d \in 0..MaxDepth :
        Report.pages[d] = {v.url : v \in {w \in Range(visited) : w.depth = d}}
  BY DEF Report
<1> QED
  BY <1>1, <1>2

\* What a report says of the skipped URLs is all there is, where it lists as many
\* as it counts.
LEMMA ReportTells ==
  ASSUME TypeOK, Len(skipped) <= ReportLimit
  PROVE  ListedSkips = Range(skipped)
<1>1. DOMAIN skipped = 1..Len(skipped) /\ Len(skipped) \in Nat
  BY DEF TypeOK
<1>2. DOMAIN skipped \cap 1..ReportLimit = DOMAIN skipped
  BY <1>1, ExplorerAssumption
<1> QED
  BY <1>2 DEF ListedSkips, Range

\* Nothing the crawl touched gets lost: every URL it took from the queue is in
\* the result, skipped for a reason or being worked on, every page is on disk
\* under its slug; the report lists every page, and tells why each other URL was
\* left out unless more were skipped than reporter.py:80 lists.
THEOREM NothingUntold == Spec => []Accounted
<1>1. Typed /\ AccountInv => Accounted
  <2> SUFFICES ASSUME Typed, AccountInv PROVE Accounted
    OBVIOUS
  <2>1. report # None => pc = "done" /\ report = Report
    BY DEF AccountInv
  <2>2. Report.skipped = ListedSkips /\ Report.count = Len(skipped)
    BY DEF Report
  <2>3. ASSUME report # None, report.count <= ReportLimit, NEW u \in seen \ Asked
        PROVE  \E x \in report.skipped : x.url = u /\ x.why # "text"
    <3>1. report.skipped = Range(skipped)
      BY <2>1, <2>2, <2>3, ReportTells DEF Typed
    <3> QED
      BY <2>1, <2>3, <3>1 DEF AccountInv, Told
  <2> QED
    BY <2>1, <2>3, ReportComplete DEF AccountInv, Accounted, Told, OnDisk, Typed
<1> QED
  BY <1>1, TypedInit, TypedStep, AccountInit, AccountStep, PTL DEF Spec

-----------------------------------------------------------------------------
(* The URLs within a number of links.                                      *)

\* A set of natural numbers has a least element.
LEMMA LeastNumber ==
  ASSUME NEW T \in SUBSET Nat, T # {}
  PROVE  \E n \in T : \A m \in T : n <= m
<1> DEFINE less == {ss \in Nat \X Nat : ss[1] < ss[2]}
<1>0. IsWellFoundedOn(less, Nat)
  BY NatLessThanWellFounded DEF OpToRel
<1>1. PICK n \in T : \A m \in T : ~ (<<m, n>> \in less)
  <2> HIDE DEF less
  <2> QED
    BY <1>0, WFMin
<1>2. \A m \in T : ~ m < n
  BY <1>1
<1> QED
  BY <1>2

\* The pages that are one followed link farther than those of a set.
Farther(d, S) ==
  LET pages == {site.lands[u] : u \in {w \in S : Host[w] \in Allowed}}
  IN  S \cup (IF d = 1 THEN Range(Seeds) ELSE {})
        \cup UNION {{u \in Range(site.links[p]) : Harmless(p, u)} : p \in pages}

LEMMA FartherTyped ==
  ASSUME TypeOK, NEW d, NEW S \in SUBSET Urls
  PROVE  Farther(d, S) \in SUBSET Urls
<1>1. \A u \in Urls : site.lands[u] \in Urls /\ site.links[u] \in Seq(Urls)
  BY ExplorerAssumption DEF TypeOK
<1>2. \A u \in Urls : Range(site.links[u]) \subseteq Urls
  BY <1>1, RangeTyped
<1>3. Range(Seeds) \subseteq Urls
  BY ExplorerAssumption, RangeTyped
<1> QED
  BY <1>1, <1>2, <1>3 DEF Farther

\* Within, up to a depth.
UpTo(n) ==
  {f \in [0..n -> SUBSET Urls] :
     f[0] = {Start} /\ \A i \in 1..n : f[i] = Farther(i, f[i - 1])}

LEMMA UpToUnique ==
  ASSUME NEW m \in Nat, NEW n \in Nat, NEW f \in UpTo(m), NEW g \in UpTo(n),
         NEW k \in Nat, k <= m, k <= n
  PROVE  f[k] = g[k]
<1> DEFINE T == {i \in 0..k : f[i] # g[i]}
<1>1. SUFFICES ASSUME T # {} PROVE FALSE
  BY <1>1
<1>2. T \in SUBSET Nat
  OBVIOUS
<1>3. PICK i \in T : \A j \in T : i <= j
  BY <1>1, <1>2, LeastNumber
<1>4. i # 0
  BY <1>3 DEF UpTo
<1>5. i - 1 \in 0..k /\ i - 1 \notin T
  BY <1>3, <1>4
<1>6. f[i - 1] = g[i - 1]
  BY <1>5
<1>7. i \in 1..m /\ i \in 1..n
  BY <1>3, <1>4
<1> QED
  BY <1>3, <1>6, <1>7 DEF UpTo

LEMMA UpToExists ==
  ASSUME TypeOK, NEW n \in Nat
  PROVE  UpTo(n) # {}
<1> DEFINE T == {i \in Nat : UpTo(i) = {}}
<1>1. SUFFICES ASSUME T # {} PROVE FALSE
  BY <1>1
<1>2. PICK i \in T : \A j \in T : i <= j
  BY <1>1, LeastNumber
<1>3. i # 0
  <2>1. [j \in 0..0 |-> {Start}] \in UpTo(0)
    BY ExplorerAssumption DEF UpTo
  <2> QED
    BY <1>2, <2>1
<1>4. PICK f \in UpTo(i - 1) : TRUE
  BY <1>2, <1>3
<1>5. f[i - 1] \in SUBSET Urls
  BY <1>2, <1>3, <1>4 DEF UpTo
<1> DEFINE last == Farther(i, f[i - 1])
           g == [j \in 0..i |-> IF j = i THEN last ELSE f[j]]
<1>6. last \in SUBSET Urls
  BY <1>5, FartherTyped
<1> HIDE DEF last
<1>7. g \in [0..i -> SUBSET Urls] /\ g[0] = {Start}
  BY <1>2, <1>3, <1>4, <1>6 DEF UpTo
<1>8. \A j \in 1..i : g[j] = Farther(j, g[j - 1])
  <2>1. ASSUME NEW j \in 1..(i - 1) PROVE g[j] = Farther(j, g[j - 1])
    <3>1. g[j] = f[j] /\ g[j - 1] = f[j - 1]
      BY <1>2, <2>1
    <3> QED
      BY <3>1, <1>4 DEF UpTo
  <2>2. g[i] = Farther(i, g[i - 1])
    <3>1. g[i] = last /\ g[i - 1] = f[i - 1]
      BY <1>2, <1>3
    <3> QED
      BY <3>1 DEF last
  <2>3. \A j \in 1..i : j = i \/ j \in 1..(i - 1)
    BY <1>2
  <2> HIDE DEF g
  <2> QED
    BY <2>1, <2>2, <2>3
<1>9. g \in UpTo(i)
  BY <1>7, <1>8 DEF UpTo
<1> QED
  BY <1>2, <1>9

\* Within is what its definition says.
LEMMA WithinIs ==
  ASSUME TypeOK
  PROVE  /\ Within[0] = {Start}
         /\ \A d \in Nat \ {0} : Within[d] = Farther(d, Within[d - 1])
<1> DEFINE pick(n) == CHOOSE f \in UpTo(n) : TRUE
           F == [n \in Nat |-> pick(n)[n]]
           Def(n, g) == IF n = 0 THEN {Start} ELSE Farther(n, g[n - 1])
<1>1. \A n \in Nat : pick(n) \in UpTo(n)
  BY UpToExists
<1> HIDE DEF pick
<1>2. F[0] = {Start}
  BY <1>1 DEF UpTo
<1>3. ASSUME NEW n \in Nat \ {0} PROVE F[n] = Farther(n, F[n - 1])
  <2>1. pick(n)[n] = Farther(n, pick(n)[n - 1])
    BY <1>1 DEF UpTo
  <2>2. pick(n)[n - 1] = pick(n - 1)[n - 1]
    <3>1. n - 1 \in Nat /\ n - 1 <= n /\ n - 1 <= n - 1
      OBVIOUS
    <3> QED
      BY <1>1, <3>1, UpToUnique
  <2>3. F[n] = pick(n)[n] /\ F[n - 1] = pick(n - 1)[n - 1]
    OBVIOUS
  <2> QED
    BY <2>1, <2>2, <2>3
<1>4. F = [n \in Nat |-> Def(n, F)]
  <2>1. \A n \in Nat : F[n] = Def(n, F)
    BY <1>2, <1>3
  <2>2. F = [n \in Nat |-> F[n]]
    OBVIOUS
  <2> HIDE DEF F, Def
  <2> QED
    BY <2>1, <2>2
<1>5. Within = [n \in Nat |-> Def(n, Within)]
  <2> HIDE DEF F
  <2> QED
    BY <1>4 DEF Within, Farther
<1> HIDE DEF Def
<1>6. \A n \in Nat : Within[n] = Def(n, Within)
  BY <1>5
<1> QED
  BY <1>6 DEF Def

LEMMA WithinGrows ==
  ASSUME TypeOK, NEW c \in Nat, NEW d \in Nat, c <= d
  PROVE  Within[c] \subseteq Within[d]
<1> DEFINE T == {i \in Nat : c <= i /\ ~ Within[c] \subseteq Within[i]}
<1>1. SUFFICES ASSUME T # {} PROVE FALSE
  BY <1>1
<1>2. PICK i \in T : \A j \in T : i <= j
  BY <1>1, LeastNumber
<1>3. i # c
  BY <1>2
<1>4. i - 1 \in Nat /\ c <= i - 1 /\ i - 1 \notin T
  BY <1>2, <1>3
<1>5. Within[c] \subseteq Within[i - 1]
  BY <1>4
<1>6. Within[i - 1] \subseteq Within[i]
  BY <1>2, <1>4, WithinIs DEF Farther
<1> QED
  BY <1>2, <1>5, <1>6

-----------------------------------------------------------------------------
(* Nearest first.                                                          *)

\* A URL is in hand, or an entry of the queue leads to it within d links.
Coming(q, s, u, d) == u \in s \/ \E e \in Range(q) : e.url = u /\ e.depth <= d

Busy == pc \in {"delay", "loaded", "captured"}

\* d is the length of the shortest way to u, and whatever is nearer was seen.
Shortest(u, d) ==
  u \in Within[d] /\ (d > 0 => u \notin Within[d - 1] /\ Within[d - 1] \subseteq seen)

\* The queue goes from the depth of the present page to the next one.
Layered ==
  /\ \A i, j \in DOMAIN queue : i <= j => queue[i].depth <= queue[j].depth
  /\ \A e \in Range(queue) :
       e.depth \in job.depth..(job.depth + 1) /\ e.url \in Within[e.depth]
  /\ job.url \in Within[job.depth] /\ job.depth <= MaxDepth
  /\ Busy \/ pc = "links" => Host[job.url] \in Allowed

Depths ==
  /\ \A v \in Range(visited) : Shortest(v.asked, v.depth)
  /\ Busy => Shortest(job.url, job.depth)

\* Links that are followed, but for those the present page has still to go through.
Followed ==
  /\ Coming(queue, seen, Start, 0)
  /\ \A u \in Range(Seeds) : Coming(queue, seen, u, 1)
  /\ \A v \in Range(visited) : \A u \in Range(site.links[site.lands[v.asked]]) :
       v.depth < MaxDepth /\ Harmless(site.lands[v.asked], u) =>
         \/ Coming(queue, seen, u, v.depth + 1)
         \/ pc = "links" /\ v.asked = job.url /\ v.depth = job.depth /\ u \in Range(todo)

\* No page within the depth is given up.
Visits ==
  \A u \in seen \cap Within[MaxDepth] :
    Host[u] \in Allowed => u \in Asked \/ (Busy /\ u = job.url)

Room == Len(visited) <= MaxPages /\ (Busy => Len(visited) < MaxPages)

NothingNearer ==
  pc = "done" =>
    \A d \in 0..MaxDepth : \A u \in Within[d] \ Asked :
      Host[u] \in Allowed =>
        Len(visited) = MaxPages /\ \A v \in Range(visited) : v.depth <= d

NearParts == Layered /\ Depths /\ Followed /\ Visits /\ Room

NearInv == faults = 0 => NearParts /\ NothingNearer

\* Between two pages, what is nearer than the whole queue has been seen.
LEMMA NearerSeen ==
  ASSUME Typed, pc = "pop", Depths, Followed, Visits,
         NEW d \in 0..MaxDepth, \A e \in Range(queue) : e.depth > d
  PROVE  Within[d] \subseteq seen
<1> USE ExplorerAssumption
<1>0. MaxDepth \in Nat /\ TypeOK /\ \A v \in Range(visited) : v.depth \in 0..MaxDepth
  BY VisitedTyped DEF Typed
<1>q. \A e \in Range(queue) : e.depth \in Nat
  <2>1. queue \in Seq(Entries)
    BY <1>0 DEF TypeOK, Entries
  <2>2. Range(queue) \subseteq Entries
    BY <2>1, RangeTyped
  <2> QED
    BY <2>2 DEF Entries
<1> DEFINE T == {i \in 0..d : ~ Within[i] \subseteq seen}
<1>1. SUFFICES ASSUME T # {} PROVE FALSE
  BY <1>0, <1>1
<1>2. PICK i \in T : \A j \in T : i <= j
  <2>1. T \in SUBSET Nat
    BY <1>0
  <2> HIDE DEF T
  <2> QED
    BY <1>1, <2>1, LeastNumber
<1>3. ASSUME NEW u, NEW k \in 0..i, Coming(queue, seen, u, k)
      PROVE  u \in seen
  BY <1>0, <1>2, <1>3, <1>q DEF Coming
<1>4. CASE i = 0
  <2>1. Start \in seen
    BY <1>2, <1>3, <1>4 DEF Followed
  <2> QED
    BY <1>0, <1>2, <1>4, <2>1, WithinIs
<1>5. CASE i # 0
  <2>1. i - 1 \in 0..d /\ i \in Nat \ {0} /\ i <= MaxDepth
    BY <1>0, <1>2, <1>5
  <2>2. Within[i - 1] \subseteq seen
    <3>1. i - 1 \notin T
      BY <1>2, <2>1
    <3> QED
      BY <2>1, <3>1
  <2>3. i = 1 => Range(Seeds) \subseteq seen
    BY <1>2, <1>3 DEF Followed
  <2>4. ASSUME NEW w \in Within[i - 1], Host[w] \in Allowed,
               NEW u \in Range(site.links[site.lands[w]]), Harmless(site.lands[w], u)
        PROVE  u \in seen
    <3>1. w \in seen \cap Within[MaxDepth]
      BY <1>0, <2>1, <2>2, WithinGrows
    <3>2. w \in Asked
      BY <2>4, <3>1 DEF Visits, Busy
    <3>3. PICK v \in Range(visited) : v.asked = w
      BY <3>2 DEF Asked
    <3>4. v.depth <= i - 1
      <4>1. SUFFICES ASSUME v.depth > i - 1 PROVE FALSE
        BY <1>0, <2>1
      <4>2. v.depth - 1 \in Nat /\ i - 1 <= v.depth - 1 /\ v.depth > 0
        BY <1>0, <2>1, <4>1
      <4>3. w \notin Within[v.depth - 1]
        BY <3>3, <4>2 DEF Depths, Shortest
      <4>4. Within[i - 1] \subseteq Within[v.depth - 1]
        BY <1>0, <2>1, <4>2, WithinGrows
      <4> QED
        BY <4>3, <4>4
    <3>5. v.depth < MaxDepth /\ v.depth + 1 \in 0..i
      BY <1>0, <2>1, <3>4
    <3>6. Coming(queue, seen, u, v.depth + 1)
      BY <2>4, <3>3, <3>5 DEF Followed
    <3> QED
      BY <1>3, <3>5, <3>6
  <2>5. Within[i] = Farther(i, Within[i - 1])
    BY <1>0, <2>1, WithinIs
  <2>6. Within[i] \subseteq seen
    BY <2>2, <2>3, <2>4, <2>5 DEF Farther
  <2> QED
    BY <1>2, <2>6
<1> QED
  BY <1>4, <1>5

\* Taking the first entry leaves the order of the others.
LEMMA PopSorted ==
  ASSUME NEW q \in Seq(Entries), q # <<>>,
         \A i, j \in DOMAIN q : i <= j => q[i].depth <= q[j].depth
  PROVE  /\ PopLeft(q).job \in Range(q)
         /\ Range(q) = Range(PopLeft(q).rest) \cup {PopLeft(q).job}
         /\ \A e \in Range(q) : PopLeft(q).job.depth <= e.depth
         /\ LET r == PopLeft(q).rest
            IN  \A i, j \in DOMAIN r : i <= j => r[i].depth <= r[j].depth
<1> DEFINE r == Tail(q)
<1>1. /\ Len(q) \in Nat \ {0} /\ DOMAIN q = 1..Len(q) /\ Head(q) = q[1]
      /\ DOMAIN r = 1..(Len(q) - 1)
      /\ \A i \in 1..(Len(q) - 1) : r[i] = q[i + 1]
  BY HeadTailProperties, EmptySeq
<1>2. PopLeft(q).job = q[1] /\ PopLeft(q).rest = r
  BY <1>1 DEF PopLeft
<1> HIDE DEF r
<1>3. q[1] \in Range(q) /\ \A e \in Range(q) : q[1].depth <= e.depth
  BY <1>1 DEF Range
<1>4. Range(q) = Range(r) \cup {q[1]}
  <2>1. ASSUME NEW i \in 1..Len(q) PROVE q[i] \in Range(r) \cup {q[1]}
    <3>1. CASE i = 1
      BY <3>1
    <3>2. CASE i # 1
      <4>1. i - 1 \in DOMAIN r /\ r[i - 1] = q[i]
        BY <1>1, <3>2
      <4> QED
        BY <4>1 DEF Range
    <3> QED
      BY <3>1, <3>2
  <2>2. ASSUME NEW i \in DOMAIN r PROVE r[i] \in Range(q)
    <3>1. i + 1 \in DOMAIN q /\ r[i] = q[i + 1]
      BY <1>1
    <3> QED
      BY <3>1 DEF Range
  <2> QED
    BY <1>1, <1>3, <2>1, <2>2 DEF Range
<1>5. ASSUME NEW i \in DOMAIN r, NEW j \in DOMAIN r, i <= j
      PROVE  r[i].depth <= r[j].depth
  <2>1. /\ i + 1 \in DOMAIN q /\ j + 1 \in DOMAIN q /\ i + 1 <= j + 1
        /\ r[i] = q[i + 1] /\ r[j] = q[j + 1]
    BY <1>1, <1>5
  <2> QED
    BY <2>1
<1> QED
  BY <1>2, <1>3, <1>4, <1>5

LEMMA NearInit == Init => NearInv
<1> SUFFICES ASSUME Init PROVE NearInv
  OBVIOUS
<1> USE ExplorerAssumption
<1> DEFINE first == <<Entry(Start, None, 0)>>
           seeds == [i \in DOMAIN Seeds |-> Entry(Seeds[i], Start, 1)]
<1>1. queue = first \o seeds /\ TypeOK
  BY TypedInit DEF Init, Typed
<1>2. Seeds \in Seq(Urls) /\ Len(Seeds) \in Nat /\ DOMAIN Seeds = 1..Len(Seeds)
  OBVIOUS
<1>3. /\ DOMAIN queue = 1..(1 + Len(Seeds))
      /\ queue[1] = Entry(Start, None, 0)
      /\ \A i \in 1..Len(Seeds) : queue[i + 1] = Entry(Seeds[i], Start, 1)
  <2>1. first \in Seq(Entries) /\ first[1] = Entry(Start, None, 0) /\ Len(first) = 1
    BY StartTyped
  <2>2. /\ seeds \in Seq(Entries) /\ Len(seeds) = Len(Seeds)
        /\ \A i \in 1..Len(Seeds) : seeds[i] = Entry(Seeds[i], Start, 1)
    <3>1. \A i \in DOMAIN Seeds : Entry(Seeds[i], Start, 1) \in Entries
      BY <1>2 DEF Entry, Entries
    <3> QED
      BY <1>2, <3>1
  <2>3. /\ Len(queue) = 1 + Len(Seeds)
        /\ \A i \in 1..(1 + Len(Seeds)) :
             queue[i] = IF i <= 1 THEN first[i] ELSE seeds[i - 1]
    BY <1>1, <2>1, <2>2, ConcatProperties
  <2>4. DOMAIN queue = 1..(1 + Len(Seeds))
    BY <1>1, <2>1, <2>2, <2>3, ConcatProperties
  <2> HIDE DEF first, seeds
  <2>5. queue[1] = Entry(Start, None, 0)
    BY <1>2, <2>1, <2>3
  <2>6. ASSUME NEW i \in 1..Len(Seeds) PROVE queue[i + 1] = Entry(Seeds[i], Start, 1)
    <3>1. i + 1 \in 1..(1 + Len(Seeds)) /\ ~ i + 1 <= 1 /\ (i + 1) - 1 = i
      BY <1>2
    <3>2. queue[i + 1] = seeds[i]
      BY <2>3, <3>1
    <3> QED
      BY <2>2, <3>2
  <2> QED
    BY <2>4, <2>5, <2>6
<1>4. Within[0] = {Start} /\ Range(Seeds) \subseteq Within[1]
  <2>1. 1 \in Nat \ {0} /\ 1 - 1 = 0
    OBVIOUS
  <2>2. Within[0] = {Start} /\ Within[1] = Farther(1, Within[0])
    BY <1>1, <2>1, WithinIs
  <2> QED
    BY <2>2 DEF Farther
<1>5. \A i \in DOMAIN queue :
        \/ i = 1 /\ queue[i].depth = 0 /\ queue[i].url = Start
        \/ i > 1 /\ queue[i].depth = 1 /\ queue[i].url \in Range(Seeds)
  <2>1. ASSUME NEW i \in 1..(1 + Len(Seeds)), i # 1
        PROVE  i > 1 /\ queue[i].depth = 1 /\ queue[i].url \in Range(Seeds)
    <3>1. i - 1 \in 1..Len(Seeds) /\ i = (i - 1) + 1 /\ i > 1
      BY <1>2, <2>1
    <3>2. queue[i] = Entry(Seeds[i - 1], Start, 1)
      BY <1>3, <3>1
    <3> QED
      BY <1>2, <3>1, <3>2 DEF Entry, Range
  <2> QED
    BY <1>3, <2>1 DEF Entry
<1>6. Layered
  <2>1. job.depth = 0 /\ job.url = Start /\ pc = "login"
    BY DEF Init, Entry
  <2>2. \A e \in Range(queue) : e.depth \in 0..1 /\ e.url \in Within[e.depth]
    BY <1>4, <1>5 DEF Range
  <2>3. \A i, j \in DOMAIN queue : i <= j => queue[i].depth <= queue[j].depth
    BY <1>3, <1>5
  <2> QED
    BY <1>4, <2>1, <2>2, <2>3 DEF Layered, Busy
<1>7. Coming(queue, seen, Start, 0)
  <2>0. 1 \in DOMAIN queue
    BY <1>2, <1>3
  <2>1. 1 \in DOMAIN queue /\ queue[1].url = Start /\ queue[1].depth = 0
    BY <2>0, <1>5
  <2>2. queue[1] \in Range(queue)
    BY <2>1 DEF Range
  <2> QED
    BY <2>1, <2>2 DEF Coming
<1>8. \A u \in Range(Seeds) : Coming(queue, seen, u, 1)
  <2> SUFFICES ASSUME NEW u \in Range(Seeds) PROVE Coming(queue, seen, u, 1)
    OBVIOUS
  <2>1. PICK i \in 1..Len(Seeds) : u = Seeds[i]
    BY <1>2 DEF Range
  <2>2. i + 1 \in DOMAIN queue /\ queue[i + 1] = Entry(Seeds[i], Start, 1)
    BY <1>2, <1>3, <2>1
  <2>3. queue[i + 1].url = u /\ queue[i + 1].depth = 1
    BY <2>1, <2>2 DEF Entry
  <2> QED
    BY <2>2, <2>3 DEF Coming, Range
<1>9. seen = {} /\ Range(visited) = {} /\ Len(visited) = 0 /\ pc = "login"
  BY DEF Init, Range
<1> QED
  BY <1>6, <1>7, <1>8, <1>9 DEF NearInv, NearParts, Depths, Followed, Visits, Room,
                                NothingNearer, Busy

LEMMA WithinFixed ==
  ASSUME site' = site
  PROVE  Within' = Within
  BY DEF Within, Harmless

\* What comes, comes, as long as entries that leave the queue are seen.
LEMMA ComingKept ==
  ASSUME seen \subseteq seen',
         \A e \in Range(queue) : e \in Range(queue') \/ e.url \in seen'
  PROVE  \A u, d : Coming(queue, seen, u, d) => Coming(queue', seen', u, d)
  BY DEF Coming

\* A followed link stays followed.
LEMMA FollowedKept ==
  ASSUME Followed, site' = site, UNCHANGED visited, seen \subseteq seen',
         \A e \in Range(queue) : e \in Range(queue') \/ e.url \in seen',
         \A u \in Range(site.links[Landed]) :
           pc = "links" /\ job.depth < MaxDepth /\ Harmless(Landed, u) /\ u \in Range(todo) =>
             \/ Coming(queue', seen', u, job.depth + 1)
             \/ pc' = "links" /\ job' = job /\ u \in Range(todo')
  PROVE  Followed'
<1>1. \A u, d : Coming(queue, seen, u, d) => Coming(queue', seen', u, d)
  BY ComingKept
<1>2. ASSUME NEW v \in Range(visited), NEW u \in Range(site.links[site.lands[v.asked]]),
             v.depth < MaxDepth, Harmless(site.lands[v.asked], u)
      PROVE  \/ Coming(queue', seen', u, v.depth + 1)
             \/ pc' = "links" /\ v.asked = job'.url /\ v.depth = job'.depth /\ u \in Range(todo')
  <2>1. CASE Coming(queue, seen, u, v.depth + 1)
    BY <2>1 DEF Coming
  <2>2. CASE ~ Coming(queue, seen, u, v.depth + 1)
    <3>1. pc = "links" /\ v.asked = job.url /\ v.depth = job.depth /\ u \in Range(todo)
      BY <1>2, <2>2 DEF Followed
    <3>2. u \in Range(site.links[Landed]) /\ Harmless(Landed, u) /\ job.depth < MaxDepth
      BY <1>2, <3>1 DEF Landed
    <3> QED
      BY <3>1, <3>2
  <2> QED
    BY <2>1, <2>2
<1>3. Coming(queue', seen', Start, 0) /\ \A u \in Range(Seeds) : Coming(queue', seen', u, 1)
  BY DEF Followed, Coming
<1>4. Range(visited') = Range(visited)
  OBVIOUS
<1>5. \A v \in Range(visited') : \A u \in Range(site'.links[site'.lands[v.asked]]) :
        v.depth < MaxDepth /\ Harmless(site'.lands[v.asked], u) =>
          \/ Coming(queue', seen', u, v.depth + 1)
          \/ pc' = "links" /\ v.asked = job'.url /\ v.depth = job'.depth /\ u \in Range(todo')
  BY <1>2, <1>4 DEF Harmless, Coming
<1> QED
  BY <1>3, <1>5 DEF Followed, Coming

\* Steps inside one page, and between the login and the crawl.
LEMMA SamePage ==
  ASSUME Typed, NearParts, UNCHANGED <<site, queue, seen, visited, job, todo>>,
         Busy' = Busy, pc' = "links" => pc = "links",
         pc = "links" /\ pc' # "links" => todo = <<>>
  PROVE  NearParts'
<1>1. Within' = Within
  BY WithinFixed
<1>2. Layered'
  BY <1>1 DEF NearParts, Layered
<1>3. Depths'
  BY <1>1 DEF NearParts, Depths, Shortest
<1>4. Followed'
  <2>1. todo = <<>> => Range(todo) = {}
    BY DEF Range
  <2> QED
    BY <2>1, FollowedKept DEF NearParts
<1>5. Visits'
  BY <1>1 DEF NearParts, Visits, Asked
<1>6. Room'
  BY DEF NearParts, Room
<1> QED
  BY <1>2, <1>3, <1>4, <1>5, <1>6 DEF NearParts

LEMMA QueueTyped ==
  ASSUME Typed
  PROVE  queue \in Seq(Entries) /\ Range(queue) \subseteq Entries /\ job \in Entries
<1>1. queue \in Seq(Entries) /\ job \in Entries
  BY DEF Typed, TypeOK, Entries
<1> QED
  BY <1>1, RangeTyped

\* The first entry of the queue, if it was not seen, is at its distance.
LEMMA FrontShortest ==
  ASSUME Typed, NearParts, Loops, PopLeft(queue).job.url \notin seen
  PROVE  Shortest(PopLeft(queue).job.url, PopLeft(queue).job.depth)
<1> DEFINE e == PopLeft(queue).job
<1>1. e \in Range(queue) /\ \A x \in Range(queue) : e.depth <= x.depth
  BY QueueTyped, PopSorted DEF Loops, NearParts, Layered
<1>2. e \in Entries /\ job \in Entries /\ MaxDepth \in Nat
  BY <1>1, QueueTyped, ExplorerAssumption
<1>3. e.url \in Within[e.depth] /\ e.depth <= job.depth + 1 /\ job.depth <= MaxDepth
  BY <1>1, <1>2 DEF NearParts, Layered, Entries
<1>4. ASSUME e.depth > 0 PROVE Within[e.depth - 1] \subseteq seen
  <2>1. e.depth - 1 \in 0..MaxDepth
    BY <1>2, <1>3, <1>4 DEF Entries
  <2>2. \A x \in Range(queue) : x.depth > e.depth - 1
    BY <1>1, <1>2, QueueTyped DEF Entries
  <2> HIDE DEF e
  <2> QED
    BY <2>1, <2>2, NearerSeen DEF NearParts, Loops
<1> QED
  BY <1>3, <1>4 DEF Shortest

\* Taking an entry from the queue; it is worked on only when it was not seen
\* and is allowed.
LEMMA PopNear ==
  ASSUME Typed, NearParts, Loops, Drop \/ Refuse \/ Attach
  PROVE  NearParts'
<1> USE ExplorerAssumption
<1> DEFINE e == PopLeft(queue).job
           r == PopLeft(queue).rest
<1>1. /\ e \in Range(queue) /\ Range(queue) = Range(r) \cup {e}
      /\ \A x \in Range(queue) : e.depth <= x.depth
      /\ \A i, j \in DOMAIN r : i <= j => r[i].depth <= r[j].depth
  BY QueueTyped, PopSorted DEF Loops, NearParts, Layered
<1>2. e \in Entries /\ job \in Entries /\ MaxDepth \in Nat /\ TypeOK
  BY <1>1, QueueTyped DEF Typed
<1>3. /\ queue' = r /\ UNCHANGED <<site, visited, todo>> /\ seen' = seen \cup {e.url}
      /\ pc = "pop" /\ Len(visited) < MaxPages
  BY DEF Drop, Refuse, Attach, Loops
<1>4. Within' = Within /\ Asked' = Asked
  BY <1>3, WithinFixed DEF Asked
<1>5. e.url \notin seen => Shortest(e.url, e.depth)
  BY FrontShortest
<1>6. CASE Drop \/ Refuse
  <2>1. UNCHANGED <<job, pc>>
    BY <1>6 DEF Drop, Refuse
  <2>2. Layered'
    BY <1>1, <1>3, <1>4, <2>1 DEF NearParts, Layered, Busy
  <2>3. ASSUME e.url \notin seen, e.url \in Within[MaxDepth]
        PROVE  Host[e.url] \notin Allowed
    <3>1. SUFFICES ASSUME Host[e.url] \in Allowed PROVE FALSE
      OBVIOUS
    <3>2. Refused(e) # {}
      BY <1>6, <2>3 DEF Drop, Refuse
    <3>3. e.depth > MaxDepth
      BY <3>1, <3>2 DEF Refused
    <3>4. e.depth - 1 = MaxDepth
      BY <1>1, <1>2, <3>3 DEF NearParts, Layered, Entries
    <3>5. e.depth > 0
      BY <1>2, <3>3 DEF Entries
    <3> HIDE DEF e
    <3> QED
      BY <1>5, <2>3, <3>4, <3>5 DEF Shortest
  <2>4. Visits'
    BY <1>3, <1>4, <2>1, <2>3 DEF NearParts, Visits, Busy
  <2>5. Depths'
    BY <1>3, <1>4, <2>1 DEF NearParts, Depths, Shortest, Busy
  <2>6. Followed'
    BY <1>1, <1>3, FollowedKept DEF NearParts
  <2>7. Room'
    BY <1>3, <2>1 DEF NearParts, Room, Busy
  <2> QED
    BY <2>2, <2>4, <2>5, <2>6, <2>7 DEF NearParts
<1>7. CASE Attach
  <2>1. job' = e /\ pc' = "delay" /\ e.url \notin seen /\ Refused(e) = {}
    BY <1>7 DEF Attach
  <2>2. Host[e.url] \in Allowed /\ e.depth <= MaxDepth
    BY <1>2, <2>1, RefusedReasons
  <2>3. Layered'
    <3>1. \A x \in Range(r) : x.depth \in e.depth..(e.depth + 1) /\ x.url \in Within[x.depth]
      BY <1>1, <1>2, QueueTyped DEF NearParts, Layered, Entries
    <3>2. e.url \in Within[e.depth]
      BY <1>1 DEF NearParts, Layered
    <3> HIDE DEF e, r
    <3> QED
      BY <1>1, <1>3, <1>4, <2>1, <2>2, <3>1, <3>2 DEF Layered
  <2>4. Depths'
    <3> HIDE DEF e
    <3> QED
      BY <1>3, <1>4, <1>5, <2>1 DEF NearParts, Depths, Shortest
  <2>5. Followed'
    BY <1>1, <1>3, FollowedKept DEF NearParts
  <2>6. Visits'
    <3> HIDE DEF e
    <3> QED
      BY <1>3, <1>4, <2>1 DEF NearParts, Visits, Busy
  <2>7. Room'
    BY <1>3, <2>1 DEF NearParts, Room, Busy
  <2> QED
    BY <2>3, <2>4, <2>5, <2>6, <2>7 DEF NearParts
<1> QED
  BY <1>6, <1>7

LEMMA RecordNear ==
  ASSUME Typed, NearParts, Record
  PROVE  NearParts'
<1> DEFINE page == [asked |-> job.url, url |-> Landed, from |-> job.from, depth |-> job.depth]
<1>1. /\ UNCHANGED <<site, queue, seen, job>> /\ visited' = Append(visited, page)
      /\ pc = "captured" /\ pc' = "links"
      /\ todo' = IF job.depth + 1 <= MaxDepth THEN site.links[Landed] ELSE <<>>
  BY DEF Record
<1>2. visited \in Seq(Page) /\ page \in Page
  BY <1>1, QueueTyped, LandedTyped DEF Typed, TypeOK, Deep, Entries, Page
<1>3. Range(visited') = Range(visited) \cup {page} /\ Len(visited') = Len(visited) + 1
  BY <1>1, <1>2, RangeOfAppend, AppendProperties
<1>4. page.asked = job.url /\ page.depth = job.depth
  OBVIOUS
<1>5. job.depth \in Nat /\ MaxDepth \in Nat /\ MaxPages \in Nat
  BY QueueTyped, ExplorerAssumption DEF Entries
<1> HIDE DEF page
<1>6. Within' = Within /\ Busy /\ ~ Busy' /\ Asked' = Asked \cup {job.url}
  BY <1>1, <1>3, <1>4, WithinFixed DEF Busy, Asked
<1>7. Layered'
  BY <1>1, <1>6 DEF NearParts, Layered
<1>8. Depths'
  BY <1>1, <1>3, <1>4, <1>6 DEF NearParts, Depths, Shortest
<1>9. Followed'
  <2>1. ASSUME NEW u \in Range(site.links[Landed]), job.depth < MaxDepth
        PROVE  u \in Range(todo')
    BY <1>1, <1>5, <2>1
  <2>2. \A v \in Range(visited) : \A u \in Range(site.links[site.lands[v.asked]]) :
          v.depth < MaxDepth /\ Harmless(site.lands[v.asked], u) =>
            Coming(queue, seen, u, v.depth + 1)
    BY <1>1 DEF NearParts, Followed
  <2>3. Landed = site.lands[job.url]
    BY DEF Landed
  <2>4. \A v \in Range(visited') : \A u \in Range(site.links[site.lands[v.asked]]) :
          v.depth < MaxDepth /\ Harmless(site.lands[v.asked], u) =>
            \/ Coming(queue, seen, u, v.depth + 1)
            \/ v.asked = job.url /\ v.depth = job.depth /\ u \in Range(todo')
    BY <1>3, <1>4, <2>1, <2>2, <2>3
  <2> QED
    BY <1>1, <2>4 DEF NearParts, Followed
<1>10. Visits'
  BY <1>1, <1>6 DEF NearParts, Visits
<1>11. Room'
  BY <1>2, <1>3, <1>5, <1>6 DEF NearParts, Room
<1> QED
  BY <1>7, <1>8, <1>9, <1>10, <1>11 DEF NearParts

LEMMA LinkNear ==
  ASSUME Typed, HarmlessInv, NearParts, Link
  PROVE  NearParts'
<1> USE ExplorerAssumption
<1> DEFINE u == Head(todo)
           x == Entry(u, Landed, job.depth + 1)
<1>1. /\ UNCHANGED <<site, seen, visited, pc, job>> /\ pc = "links"
      /\ todo # <<>> /\ todo' = Tail(todo) /\ todo \in Seq(Urls)
      /\ queue' = IF Follow(Landed, u) /\ u \notin seen THEN Append(queue, x) ELSE queue
  BY DEF Link, Typed, TypeOK
<1>2. u \in Range(todo) /\ u \in Urls /\ Range(todo) = Range(todo') \cup {u}
  <2>1. /\ Len(todo) \in Nat \ {0} /\ DOMAIN todo = 1..Len(todo) /\ Head(todo) = todo[1]
        /\ DOMAIN todo' = 1..(Len(todo) - 1)
        /\ \A i \in 1..(Len(todo) - 1) : todo'[i] = todo[i + 1]
        /\ todo[1] \in Urls
    BY <1>1, HeadTailProperties, EmptySeq
  <2>2. ASSUME NEW i \in 1..Len(todo) PROVE todo[i] \in Range(todo') \cup {u}
    <3>1. CASE i = 1
      BY <2>1, <3>1
    <3>2. CASE i # 1
      <4>1. i - 1 \in DOMAIN todo' /\ todo'[i - 1] = todo[i]
        BY <2>1, <3>2
      <4> QED
        BY <4>1 DEF Range
    <3> QED
      BY <3>1, <3>2
  <2>3. ASSUME NEW i \in DOMAIN todo' PROVE todo'[i] \in Range(todo)
    <3>1. i + 1 \in DOMAIN todo /\ todo'[i] = todo[i + 1]
      BY <2>1
    <3> QED
      BY <3>1 DEF Range
  <2>4. u = todo[1] /\ 1 \in DOMAIN todo
    BY <2>1
  <2>5. u \in Range(todo) /\ u \in Urls
    BY <2>1, <2>4 DEF Range
  <2>6. Range(todo) \subseteq Range(todo') \cup {u}
    BY <2>1, <2>2 DEF Range
  <2>7. Range(todo') \subseteq Range(todo)
    BY <2>3 DEF Range
  <2> QED
    BY <2>5, <2>6, <2>7
<1>3. job.depth \in Nat /\ TypeOK /\ queue \in Seq(Entries) /\ x \in Entries
  BY <1>2, QueueTyped, LandedTyped DEF Entry, Entries, Typed
<1>4. x.url = u /\ x.depth = job.depth + 1
  BY DEF Entry
<1>5. Within' = Within /\ Landed' = Landed /\ Asked' = Asked /\ (Busy' = Busy)
  BY <1>1, WithinFixed DEF Landed, Asked, Busy
<1>6. u \in Range(site.links[Landed])
  BY <1>1, <1>2 DEF HarmlessInv
<1>7. Follow(Landed, u) = Harmless(Landed, u)
  BY DEF Follow, Harmless
<1> HIDE DEF u, x
<1>8. ASSUME Follow(Landed, u)
      PROVE  u \in Within[job.depth + 1]
  <2>1. job.url \in Within[job.depth] /\ Host[job.url] \in Allowed
    BY <1>1 DEF NearParts, Layered
  <2>2. job.depth + 1 \in Nat \ {0} /\ (job.depth + 1) - 1 = job.depth
    BY <1>3
  <2>3. Within[job.depth + 1] = Farther(job.depth + 1, Within[job.depth])
    BY <1>3, <2>2, WithinIs
  <2> DEFINE pages == {site.lands[w] : w \in {y \in Within[job.depth] : Host[y] \in Allowed}}
  <2>4. Landed \in pages
    BY <2>1 DEF Landed
  <2>5. u \in {w \in Range(site.links[Landed]) : Harmless(Landed, w)}
    BY <1>6, <1>7, <1>8
  <2>6. u \in UNION {{w \in Range(site.links[p]) : Harmless(p, w)} : p \in pages}
    <3> HIDE DEF pages
    <3> QED
      BY <2>4, <2>5
  <2> QED
    BY <2>3, <2>6 DEF Farther
<1>9. Layered'
  <2>1. CASE Follow(Landed, u) /\ u \notin seen
    <3>1. Range(queue') = Range(queue) \cup {x}
      BY <1>1, <1>3, <2>1, RangeOfAppend
    <3>2. \A e \in Range(queue') :
            e.depth \in job.depth..(job.depth + 1) /\ e.url \in Within[e.depth]
      BY <1>3, <1>4, <1>8, <2>1, <3>1 DEF NearParts, Layered
    <3>3. /\ Len(queue) \in Nat /\ DOMAIN queue = 1..Len(queue)
          /\ DOMAIN queue' = 1..(Len(queue) + 1)
          /\ \A i \in 1..Len(queue) : queue'[i] = queue[i]
          /\ queue'[Len(queue) + 1] = x
      BY <1>1, <1>3, <2>1, AppendProperties
    <3>4. \A i \in DOMAIN queue : queue[i].depth <= x.depth
      BY <1>3, <1>4 DEF NearParts, Layered, Range
    <3>5. ASSUME NEW i \in DOMAIN queue', NEW j \in DOMAIN queue', i <= j
          PROVE  queue'[i].depth <= queue'[j].depth
      <4>1. CASE j = Len(queue) + 1 /\ i = Len(queue) + 1
        BY <1>3, <1>4, <3>3, <4>1
      <4>2. CASE j = Len(queue) + 1 /\ i # Len(queue) + 1
        BY <3>3, <3>4, <4>2
      <4>3. CASE j # Len(queue) + 1
        <5>1. i \in DOMAIN queue /\ j \in DOMAIN queue
          BY <3>3, <3>5, <4>3
        <5> QED
          BY <3>3, <3>5, <5>1 DEF NearParts, Layered
      <4> QED
        BY <4>1, <4>2, <4>3
    <3> QED
      BY <1>1, <1>5, <3>2, <3>5 DEF NearParts, Layered
  <2>2. CASE ~ (Follow(Landed, u) /\ u \notin seen)
    BY <1>1, <1>5, <2>2 DEF NearParts, Layered
  <2> QED
    BY <2>1, <2>2
<1>10. Depths' /\ Visits' /\ Room'
  BY <1>1, <1>5 DEF NearParts, Depths, Shortest, Visits, Room
<1>11. Followed'
  <2>1. Range(queue) \subseteq Range(queue')
    BY <1>1, <1>3, RangeOfAppend
  <2>2. Harmless(Landed, u) => Coming(queue', seen', u, job.depth + 1)
    <3>1. CASE Follow(Landed, u) /\ u \notin seen
      <4>1. x \in Range(queue')
        BY <1>1, <1>3, <3>1, RangeOfAppend
      <4> QED
        BY <1>3, <1>4, <4>1 DEF Coming
    <3>2. CASE ~ (Follow(Landed, u) /\ u \notin seen)
      BY <1>1, <1>7, <3>2 DEF Coming
    <3> QED
      BY <3>1, <3>2
  <2>3. \A w \in Range(site.links[Landed]) :
          pc = "links" /\ job.depth < MaxDepth /\ Harmless(Landed, w) /\ w \in Range(todo) =>
            \/ Coming(queue', seen', w, job.depth + 1)
            \/ pc' = "links" /\ job' = job /\ w \in Range(todo')
    BY <1>1, <1>2, <2>2
  <2> QED
    BY <1>1, <2>1, <2>3, FollowedKept DEF NearParts
<1> QED
  BY <1>9, <1>10, <1>11 DEF NearParts

\* What the crawl leaves out when it ends is no nearer than what it has.
LEMMA FinishNear ==
  ASSUME Typed, NearParts, Finish
  PROVE  NearParts' /\ NothingNearer'
<1> USE ExplorerAssumption
<1>1. /\ UNCHANGED <<site, queue, seen, visited, job, todo>> /\ pc = "pop" /\ pc' = "done"
      /\ queue = <<>> \/ Len(visited) >= MaxPages
  BY DEF Finish
<1>2. NearParts'
  <2>1. Busy' = Busy /\ pc' # "links" /\ pc # "links"
    BY <1>1 DEF Busy
  <2> QED
    BY <1>1, <2>1, SamePage
<1>3. Within' = Within /\ Asked' = Asked /\ TypeOK
  BY <1>1, WithinFixed DEF Asked, Typed
<1>4. /\ MaxDepth \in Nat /\ MaxPages \in Nat /\ Len(visited) \in Nat
      /\ Len(visited) <= MaxPages
      /\ \A v \in Range(visited) : v.depth \in 0..MaxDepth
  <2>1. visited \in Seq(Page)
    BY <1>3 DEF TypeOK, Page
  <2> QED
    BY <1>3, <2>1, VisitedTyped DEF NearParts, Room
<1>5. ASSUME NEW d \in 0..MaxDepth, NEW u \in Within[d] \ Asked, Host[u] \in Allowed
      PROVE  Len(visited) = MaxPages /\ \A v \in Range(visited) : v.depth <= d
  <2>1. u \in Within[MaxDepth]
    BY <1>3, <1>4, WithinGrows
  <2>2. u \notin seen
    BY <1>1, <1>5, <2>1 DEF NearParts, Visits, Busy
  <2>3. queue # <<>>
    <3>1. SUFFICES ASSUME queue = <<>> PROVE FALSE
      OBVIOUS
    <3>2. \A e \in Range(queue) : e.depth > d
      BY <3>1 DEF Range
    <3>3. Within[d] \subseteq seen
      BY <1>1, <3>2, NearerSeen DEF NearParts
    <3> QED
      BY <2>2, <3>3
  <2>4. Len(visited) = MaxPages
    BY <1>1, <1>4, <2>3
  <2>5. ASSUME NEW v \in Range(visited), v.depth > d PROVE FALSE
    <3>1. v.depth - 1 \in Nat /\ d <= v.depth - 1 /\ v.depth > 0
      BY <1>4, <2>5
    <3>2. Within[v.depth - 1] \subseteq seen
      BY <3>1 DEF NearParts, Depths, Shortest
    <3>3. Within[d] \subseteq Within[v.depth - 1]
      BY <1>3, <1>4, <3>1, WithinGrows
    <3> QED
      BY <2>2, <3>2, <3>3
  <2> QED
    BY <1>4, <2>4, <2>5
<1>6. NothingNearer'
  BY <1>1, <1>3, <1>5 DEF NothingNearer
<1> QED
  BY <1>2, <1>6

LEMMA NearStep ==
  ASSUME Typed, HarmlessInv, NearInv, [Next]_vars
  PROVE  NearInv'
<1> SUFFICES ASSUME faults' = 0
             PROVE  NearParts' /\ NothingNearer'
  BY DEF NearInv
<1>1. CASE LoginFails \/ GotoFails \/ Abort
  <2>1. faults \in Nat /\ faults' = faults + 1
    BY <1>1, ExplorerAssumption DEF LoginFails, GotoFails, Abort, Fault, Typed, TypeOK
  <2> QED
    BY <2>1
<1>2. CASE [Step]_vars
  <2>1. faults' = faults
    BY <1>2 DEF Step, Login, Drop, Refuse, Attach, Goto, Capture, Record, Link, Leave, Finish, vars
  <2>2. NearParts /\ NothingNearer
    BY <2>1 DEF NearInv
  <2>3. ASSUME pc' # "done" PROVE NothingNearer'
    BY <2>3 DEF NothingNearer
  <2>4. CASE Login \/ Goto \/ Capture
    <3>1. /\ UNCHANGED <<site, queue, seen, visited, job, todo>> /\ Busy' = Busy
          /\ pc # "links" /\ pc' # "links" /\ pc' # "done"
      BY <2>4 DEF Login, Goto, Capture, Busy
    <3> QED
      BY <2>2, <2>3, <3>1, SamePage
  <2>5. CASE Leave
    <3>1. /\ UNCHANGED <<site, queue, seen, visited, job, todo>> /\ Busy' = Busy
          /\ todo = <<>> /\ pc' # "links" /\ pc' # "done"
      BY <2>5 DEF Leave, Busy
    <3> QED
      BY <2>2, <2>3, <3>1, SamePage
  <2>6. CASE Drop \/ Refuse \/ Attach
    <3>1. Loops /\ pc' # "done"
      BY <2>6 DEF Drop, Refuse, Attach, Loops
    <3> QED
      BY <2>2, <2>3, <2>6, <3>1, PopNear
  <2>7. CASE Record
    <3>1. pc' # "done"
      BY <2>7 DEF Record
    <3> QED
      BY <2>2, <2>3, <2>7, <3>1, RecordNear
  <2>8. CASE Link
    <3>1. pc' # "done"
      BY <2>8 DEF Link
    <3> QED
      BY <2>2, <2>3, <2>8, <3>1, LinkNear
  <2>9. CASE Finish
    BY <2>2, <2>9, FinishNear
  <2>10. CASE UNCHANGED vars
    <3>1. UNCHANGED <<site, queue, seen, visited, job, todo, pc>> /\ Busy' = Busy
      BY <2>10 DEF vars, Busy
    <3>2. NearParts'
      BY <2>2, <3>1, SamePage
    <3>3. Within' = Within /\ Asked' = Asked
      BY <3>1, WithinFixed DEF Asked
    <3> QED
      BY <2>2, <3>1, <3>2, <3>3 DEF NothingNearer
  <2> QED
    BY <1>2, <2>4, <2>5, <2>6, <2>7, <2>8, <2>9, <2>10 DEF Step
<1> QED
  BY <1>1, <1>2 DEF Next

\* Without failures the crawl visits every page by its shortest way, and leaves
\* out no allowed page within the depth unless it has as many pages as it may,
\* all of them at least as near; on any portal, and with any limits and seeds.
THEOREM NearestAlways == Spec => []NearestFirst
<1>1. NearInv => NearestFirst
  BY DEF NearInv, NearParts, NearestFirst, Depths, Shortest, NothingNearer
<1> QED
  BY <1>1, TypedInit, TypedStep, HarmlessInit, HarmlessStep, NearInit, NearStep, PTL DEF Spec

=============================================================================
