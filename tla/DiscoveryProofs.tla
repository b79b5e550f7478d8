--------------------------- MODULE DiscoveryProofs ---------------------------
(***************************************************************************)
(* The discovery scripts on every casilla and page size, with any number   *)
(* of failures and late answers.                                           *)
(***************************************************************************)
EXTENDS Discovery, FiniteSetTheorems, SequenceTheorems, TLAPS

Forms ==
  [dates : {"week", "april", "limit", "reset", "year"},
   estado : {"", "1", "0"},
   expediente : {"", Expediente, Filtered}]

Views == [form : Forms, page : Nat \ {0}]

Requests ==
  [to : {"table"}, view : Views] \cup [to : {"dialog"}, of : Notifications]

Rows == [place : Nat, of : Notifications]

Results == [row : Notifications, of : Notifications \cup {None}]

Calls == [request : Requests, answer : Requests \cup {None}]

-----------------------------------------------------------------------------
(* The page.                                                               *)

\* In a finite set of numbers there is one with each rank.
LEMMA RankTaken ==
  ASSUME NEW ns \in SUBSET Int, IsFiniteSet(ns), NEW k \in 1..Cardinality(ns)
  PROVE  \E n \in ns : Cardinality({m \in ns : m <= n}) = k
<1> DEFINE Down(n) == {m \in ns : m <= n}
           size == Cardinality(ns)
           rank == [n \in ns |-> Cardinality(Down(n))]
<1>0. size \in Nat
  BY FS_CardinalityType
<1>1. ASSUME NEW n \in ns
      PROVE  IsFiniteSet(Down(n)) /\ Cardinality(Down(n)) \in 1..size
  <2>1. Down(n) \in SUBSET ns /\ Down(n) # {}
    OBVIOUS
  <2>2. IsFiniteSet(Down(n)) /\ Cardinality(Down(n)) <= size
    BY <2>1, FS_Subset
  <2>3. Cardinality(Down(n)) \in Nat
    BY <2>2, FS_CardinalityType
  <2>4. Cardinality(Down(n)) # 0
    BY <2>1, <2>2, FS_EmptySet
  <2> QED
    BY <1>0, <2>2, <2>3, <2>4
<1>2. ASSUME NEW n \in ns, NEW m \in ns, n < m
      PROVE  Cardinality(Down(n)) # Cardinality(Down(m))
  <2>1. \A i \in ns : i \in Int /\ (i <= n => i <= m)
    BY <1>2
  <2>2. m <= m /\ ~(m <= n)
    BY <1>2, <2>1
  <2>3. Down(n) \in SUBSET Down(m) /\ m \in Down(m) /\ m \notin Down(n)
    BY <2>1, <2>2
  <2>4. IsFiniteSet(Down(m))
    BY <1>1
  <2> QED
    BY <2>3, <2>4, FS_Subset
<1>3. rank \in Injection(ns, 1..size)
  <2>1. rank \in [ns -> 1..size]
    BY <1>1
  <2>2. \A n, m \in ns : rank[n] = rank[m] => n = m
    <3> SUFFICES ASSUME NEW n \in ns, NEW m \in ns, n # m
                 PROVE  rank[n] # rank[m]
      OBVIOUS
    <3>1. n < m \/ m < n
      OBVIOUS
    <3> QED
      BY <1>2, <3>1
  <2> QED
    BY <2>1, <2>2 DEF Injection, IsInjective
<1>4. rank \in Surjection(ns, 1..size)
  <2>1. IsFiniteSet(1..size) /\ Cardinality(1..size) = size
    BY <1>0, FS_Interval
  <2> QED
    BY <1>3, <2>1, FS_Injection
<1> QED
  BY <1>4 DEF Surjection

LEMMA PlacesFinite ==
  ASSUME NEW n \in Nat, NEW places \in SUBSET (1..n)
  PROVE  IsFiniteSet(places) /\ Cardinality(places) \in Nat
<1>1. IsFiniteSet(1..n)
  BY FS_Interval
<1>2. IsFiniteSet(places)
  BY <1>1, FS_Subset
<1> QED
  BY <1>2, FS_CardinalityType

\* Downwards gives the places of the set, as many as there are.
LEMMA DownwardsTyped ==
  ASSUME NEW n \in Nat, NEW places \in SUBSET (1..n)
  PROVE  Downwards(places) \in Seq(places)
<1>1. IsFiniteSet(places) /\ Cardinality(places) \in Nat
  BY PlacesFinite
<1>2. ASSUME NEW k \in 1..Cardinality(places)
      PROVE  Downwards(places)[k] \in places
  <2>1. \E i \in places : Cardinality({j \in places : j <= i}) = k
    BY <1>1, RankTaken
  <2> QED
    BY <2>1 DEF Downwards
<1>3. Downwards(places) \in [1..Cardinality(places) -> places]
  BY <1>2 DEF Downwards
<1> QED
  BY <1>1, <1>3, SeqDef

\* The latest of a sequence's places of some kind.
LEMMA LatestPlace ==
  ASSUME NEW n \in Nat, NEW places \in SUBSET (1..n), places # {}
  PROVE  \E i \in places : \A j \in places : j <= i
<1>1. IsFiniteSet(places) /\ Cardinality(places) \in Nat /\ Cardinality(places) # 0
  BY PlacesFinite, FS_EmptySet
<1>2. PICK i \in places : Cardinality({j \in places : j <= i}) = Cardinality(places)
  BY <1>1, RankTaken
<1>3. {j \in places : j <= i} = places
  BY <1>1, <1>2, FS_Subset
<1> QED
  BY <1>3

LEMMA MatchesTyped ==
  ASSUME NEW f
  PROVE  Matches(f) \in Seq(Notifications)
<1> DEFINE hits == {i \in DOMAIN Box : Lets(f, Box[i])}
<1>1. Len(Box) \in Nat /\ DOMAIN Box = 1..Len(Box) /\ \A i \in DOMAIN Box : Box[i] \in Notifications
  BY PageAssumption, LenProperties
<1>2. Downwards(hits) \in Seq(hits)
  BY <1>1, DownwardsTyped
<1>3. /\ Len(Downwards(hits)) \in Nat /\ DOMAIN Downwards(hits) = 1..Len(Downwards(hits))
      /\ \A k \in DOMAIN Downwards(hits) : Downwards(hits)[k] \in hits
  BY <1>2, LenProperties
<1>4. Matches(f) = [k \in 1..Len(Downwards(hits)) |-> Box[Downwards(hits)[k]]]
  BY <1>3 DEF Matches
<1> HIDE DEF hits
<1>5. Matches(f) \in [1..Len(Downwards(hits)) -> Notifications]
  BY <1>1, <1>3, <1>4 DEF hits
<1> QED
  BY <1>3, <1>5, SeqDef

\* The rows on the screen are notifications of the casilla.
LEMMA TableTyped ==
  ASSUME shown \in Views \cup {None}
  PROVE  Table \in Seq(Notifications)
<1>1. CASE shown = None
  BY <1>1, EmptySeq DEF Table
<1>2. CASE shown # None
  <2> DEFINE all == Matches(shown.form)
             from == (shown.page - 1) * PageSize
             to == IF from + PageSize < Len(all) THEN from + PageSize ELSE Len(all)
  <2>1. all \in Seq(Notifications)
    BY MatchesTyped
  <2>2. Len(all) \in Nat /\ \A i \in 1..Len(all) : all[i] \in Notifications
    BY <2>1, LenProperties
  <2>3. shown.page \in Nat \ {0}
    BY <1>2 DEF Views
  <2>4. from \in Nat
    BY <2>3, PageAssumption
  <2>5. Table = SubSeq(all, from + 1, to)
    BY <1>2 DEF Table
  <2> HIDE DEF all, from
  <2>6. from + 1 \in Int /\ to \in Int /\ \A i \in (from + 1)..to : all[i] \in Notifications
    BY <2>2, <2>4, PageAssumption
  <2> HIDE DEF to
  <2> QED
    BY <2>5, <2>6, SubSeqProperties
<1> QED
  BY <1>1, <1>2

\* A row of ReadRows is where it says it is, and has been read.
LEMMA ReadRowsTyped ==
  ASSUME shown \in Views \cup {None}
  PROVE  /\ ReadRows \in Seq(Rows)
         /\ \A k \in DOMAIN ReadRows :
              /\ ReadRows[k].place \in DOMAIN Table
              /\ ReadRows[k].of = Table[ReadRows[k].place]
              /\ ReadRows[k].of \notin Unread
<1> DEFINE places == {i \in DOMAIN Table : Table[i] \notin Unread}
           down == Downwards(places)
<1>1. Len(Table) \in Nat /\ DOMAIN Table = 1..Len(Table) /\ \A i \in DOMAIN Table : Table[i] \in Notifications
  BY TableTyped, LenProperties
<1>2. down \in Seq(places)
  BY <1>1, DownwardsTyped
<1>3. Len(down) \in Nat /\ DOMAIN down = 1..Len(down) /\ \A k \in DOMAIN down : down[k] \in places
  BY <1>2, LenProperties
<1>4. ReadRows = [k \in 1..Len(down) |-> [place |-> down[k], of |-> Table[down[k]]]]
  BY <1>3 DEF ReadRows
<1> HIDE DEF down
<1>5. ReadRows \in [1..Len(down) -> Rows]
  BY <1>1, <1>3, <1>4 DEF Rows
<1>6. ReadRows \in Seq(Rows)
  BY <1>3, <1>5, SeqDef
<1> QED
  BY <1>3, <1>4, <1>6

-----------------------------------------------------------------------------
(* Forms and requests.                                                     *)

LEMMA WithTyped ==
  ASSUME form \in Forms, NEW values,
         "dates" \in DOMAIN values => values["dates"] \in {"week", "april", "limit", "reset", "year"},
         "estado" \in DOMAIN values => values["estado"] \in {"", "1", "0"},
         "expediente" \in DOMAIN values => values["expediente"] \in {"", Expediente, Filtered}
  PROVE  With(values) \in Forms
<1> DEFINE w == With(values)
<1>1. form = [dates |-> form.dates, estado |-> form.estado, expediente |-> form.expediente]
  BY DEF Forms
<1>2. DOMAIN form = {"dates", "estado", "expediente"}
  BY <1>1
<1>3. w = [f \in {"dates", "estado", "expediente"} |-> IF f \in DOMAIN values THEN values[f] ELSE form[f]]
  BY <1>2 DEF With
<1>4. w = [dates |-> w["dates"], estado |-> w["estado"], expediente |-> w["expediente"]]
  BY <1>3
<1>5. /\ w["dates"] \in {"week", "april", "limit", "reset", "year"}
      /\ w["estado"] \in {"", "1", "0"}
      /\ w["expediente"] \in {"", Expediente, Filtered}
  BY <1>3 DEF Forms
<1> HIDE DEF w
<1> QED
  BY <1>4, <1>5 DEF Forms, w

\* What a step changes in the form.
LEMMA ChangeDates ==
  ASSUME NEW s \in {"april", "limit", "reset"}
  PROVE  DOMAIN Change(s) = {"dates"} /\ Change(s)["dates"] = s
  BY DEF Change, DatesOf

LEMMA ChangeEstado ==
  /\ DOMAIN Change("leidos") = {"estado"} /\ Change("leidos")["estado"] = "1"
  /\ DOMAIN Change("no_leidos") = {"estado"} /\ Change("no_leidos")["estado"] = "0"
  BY DEF Change

LEMMA ChangeScenario ==
  ASSUME NEW s \in Scenarios
  PROVE  /\ DOMAIN Change(s) = IF s = "A" THEN {"expediente"} ELSE {"expediente", "dates"}
         /\ Change(s)["expediente"] \in {Expediente, Filtered}
         /\ Change(s).expediente = Change(s)["expediente"]
         /\ s # "A" => Change(s)["dates"] = DatesOf(s) /\ DatesOf(s) \in {"reset", "year", "week"}
<1>1. CASE s = "A"
  <2>1. Change(s) = [expediente |-> Expediente]
    BY <1>1 DEF Change
  <2> QED
    BY <1>1, <2>1
<1>2. CASE s \in {"B", "C"}
  <2>1. Change(s) = [expediente |-> Expediente, dates |-> DatesOf(s)]
    BY <1>2 DEF Change
  <2>2. DatesOf(s) \in {"reset", "year", "week"}
    BY <1>2 DEF DatesOf
  <2> QED
    BY <1>2, <2>1, <2>2
<1>3. CASE s = "D"
  <2>1. Change(s) = [expediente |-> Filtered, dates |-> DatesOf(s)]
    BY <1>3 DEF Change
  <2>2. DatesOf(s) \in {"reset", "year", "week"}
    BY <1>3 DEF DatesOf
  <2> QED
    BY <1>3, <2>1, <2>2
<1> QED
  BY <1>1, <1>2, <1>3 DEF Scenarios

\* A step fills in inputs that there are, with values they take.
LEMMA ChangeTyped ==
  ASSUME form \in Forms, NEW s \in Filters \cup Scenarios
  PROVE  With(Change(s)) \in Forms
<1> DEFINE v == Change(s)
<1>1. /\ "dates" \in DOMAIN v => v["dates"] \in {"week", "april", "limit", "reset", "year"}
      /\ "estado" \in DOMAIN v => v["estado"] \in {"", "1", "0"}
      /\ "expediente" \in DOMAIN v => v["expediente"] \in {"", Expediente, Filtered}
  <2>1. CASE s \in {"april", "limit", "reset"}
    <3>1. DOMAIN v = {"dates"}
      BY <2>1, ChangeDates
    <3>2. v["dates"] = s
      BY <2>1, ChangeDates
    <3> HIDE DEF v
    <3>3. v["dates"] \in {"week", "april", "limit", "reset", "year"}
      BY <2>1, <3>2
    <3> QED
      BY <3>1, <3>3
  <2>2. CASE s \in {"leidos", "no_leidos"}
    <3>1. DOMAIN v = {"estado"}
      BY <2>2, ChangeEstado
    <3>2. v["estado"] \in {"", "1", "0"}
      BY <2>2, ChangeEstado
    <3> HIDE DEF v
    <3> QED
      BY <3>1, <3>2
  <2>3. CASE s \in Scenarios
    <3>1. DOMAIN v \subseteq {"expediente", "dates"}
      BY <2>3, ChangeScenario
    <3>2. v["expediente"] \in {"", Expediente, Filtered}
      BY <2>3, ChangeScenario
    <3>3. "dates" \in DOMAIN v => v["dates"] \in {"week", "april", "limit", "reset", "year"}
      <4>1. CASE s = "A"
        <5>1. DOMAIN v = {"expediente"}
          BY <4>1, <2>3, ChangeScenario
        <5> HIDE DEF v
        <5> QED
          BY <5>1
      <4>2. CASE s # "A"
        <5>1. v["dates"] \in {"reset", "year", "week"}
          BY <4>2, <2>3, ChangeScenario
        <5> HIDE DEF v
        <5> QED
          BY <5>1
      <4> QED
        BY <4>1, <4>2
    <3> HIDE DEF v
    <3> QED
      BY <3>1, <3>2, <3>3
  <2> QED
    BY <2>1, <2>2, <2>3 DEF Filters
<1> HIDE DEF v
<1>2. With(v) \in Forms
  BY <1>1, WithTyped
<1> QED
  BY <1>2 DEF v

LEMMA RequestKinds ==
  ASSUME NEW r \in Requests
  PROVE  \/ r.to = "table" /\ r.view \in Views
         \/ r.to = "dialog" /\ r.of \in Notifications
  BY DEF Requests

LEMMA SearchTyped ==
  ASSUME NEW f \in Forms
  PROVE  Search(f) \in Requests
  BY DEF Search, Requests, Views

LEMMA AnexosTyped ==
  ASSUME NEW n \in Notifications
  PROVE  Anexos(n) \in Requests
  BY DEF Anexos, Requests

LEMMA TurnTyped ==
  ASSUME asked \in Seq(Requests), shown \in Views, NEW p \in Nat \ {0}
  PROVE  Turn(p) \in Requests
<1> DEFINE tables == {i \in DOMAIN asked : asked[i].to = "table"}
           latest == CHOOSE i \in tables : \A j \in tables : j <= i
<1>1. Len(asked) \in Nat /\ DOMAIN asked = 1..Len(asked) /\ \A i \in DOMAIN asked : asked[i] \in Requests
  BY LenProperties
<1>2. CASE tables = {}
  <2>1. Searched = shown.form
    BY <1>2 DEF Searched
  <2> QED
    BY <2>1 DEF Turn, Requests, Views
<1>3. CASE tables # {}
  <2>1. latest \in tables
    BY <1>1, <1>3, LatestPlace
  <2>2. asked[latest] \in Requests /\ asked[latest].to = "table"
    BY <1>1, <2>1
  <2>3. asked[latest].view \in Views
    BY <2>2, RequestKinds
  <2>4. Searched = asked[latest].view.form
    BY <1>3 DEF Searched
  <2>5. Searched \in Forms
    <3> HIDE DEF latest
    <3> QED BY <2>3, <2>4 DEF Views
  <2> QED
    BY <2>5 DEF Turn, Requests, Views
<1> QED
  BY <1>2, <1>3

-----------------------------------------------------------------------------
(* Types.                                                                  *)

Basics ==
  /\ at \in DOMAIN Steps[script]
  /\ phase \in {"begin", "wait", "read", "first", "end", "rows", "opening", "dates", "search"}
  /\ dialog \in Notifications \cup {None}
  /\ Len(rows) <= MaxNotifications
  /\ opened \subseteq [by : {"anexos", "row"}, of : Notifications]
  /\ outcome \in {"running", "written", "died"}
  /\ faults \in 0..MaxFaults

Kinds ==
  /\ script \in DOMAIN Steps
  /\ form \in Forms /\ asked \in Seq(Requests) /\ shown \in Views \cup {None}
  /\ growl \in BOOLEAN /\ keyed \in BOOLEAN /\ calm \in BOOLEAN /\ recording \in BOOLEAN
  /\ rows \in Seq(Rows) /\ first \in Rows \cup {None}

\* A step has phases of its own.
Placed ==
  /\ Step \in {"login", "row", "write"} => phase = "begin"
  /\ Step \in {"module"} \cup Filters => phase \in {"begin", "wait", "read"}
  /\ Step = "pages" => phase \in {"begin", "wait", "read", "first", "end"}
  /\ Step = "anexos" => phase \in {"begin", "rows", "opening"}
  /\ Step \in Scenarios => phase \in {"begin", "dates", "search", "wait", "read"}

\* So does what it logs, and a log has room for what the phase will add.
Logged ==
  /\ Step = "pages" =>
       /\ log \in Seq(Views \cup {None})
       /\ Len(log) <= (IF phase \in {"wait", "read"} THEN LastPage - 1 ELSE LastPage)
  /\ Step = "anexos" =>
       /\ log \in Seq(Results)
       /\ Len(log) + (IF phase = "begin" THEN 0 ELSE Len(rows)) <= MaxNotifications
       /\ phase = "opening" => rows # <<>>
       /\ phase = "begin" => log = <<>>
  /\ Step \in Scenarios =>
       /\ log \in Seq(Calls)
       /\ Len(log) <= (IF phase \in {"wait", "read"} THEN 1 ELSE 0)
  /\ Step \notin {"pages", "anexos"} \cup Scenarios => log = <<>>
  /\ recording => Step \in Scenarios /\ phase \in {"wait", "read"}

TypeInv == Basics /\ Kinds /\ Placed /\ Logged

LEMMA ScriptSteps ==
  /\ DOMAIN Steps = {"discover_bandeja", "discover_expediente_search"}
  /\ Steps["discover_bandeja"] =
       <<"login", "module", "april", "pages", "limit", "reset", "anexos",
         "row", "leidos", "no_leidos", "write">>
  /\ Steps["discover_expediente_search"] = <<"login", "module", "A", "B", "C", "D", "write">>
  BY DEF Steps

\* The steps there are.
LEMMA StepKinds ==
  ASSUME script \in DOMAIN Steps, at \in DOMAIN Steps[script]
  PROVE  Step \in {"login", "module", "pages", "anexos", "row", "write"} \cup Filters \cup Scenarios
<1>1. CASE script = "discover_bandeja"
  BY <1>1, ScriptSteps DEF Step, Filters
<1>2. CASE script = "discover_expediente_search"
  BY <1>2, ScriptSteps DEF Step, Scenarios
<1> QED
  BY <1>1, <1>2, ScriptSteps

\* The step after a step.
LEMMA StepAfter ==
  ASSUME script \in DOMAIN Steps, at \in DOMAIN Steps[script], Step # "write"
  PROVE  /\ at + 1 \in DOMAIN Steps[script]
         /\ Steps[script][at + 1] =
              CASE Step = "login" -> "module"
                [] Step = "module" -> IF script = "discover_bandeja" THEN "april" ELSE "A"
                [] Step = "april" -> "pages"
                [] Step = "pages" -> "limit"
                [] Step = "limit" -> "reset"
                [] Step = "reset" -> "anexos"
                [] Step = "anexos" -> "row"
                [] Step = "row" -> "leidos"
                [] Step = "leidos" -> "no_leidos"
                [] Step = "A" -> "B"
                [] Step = "B" -> "C"
                [] Step = "C" -> "D"
                [] OTHER -> "write"
         /\ Step = "april" => at + 2 \in DOMAIN Steps[script] /\ Steps[script][at + 2] = "limit"
<1>1. CASE script = "discover_bandeja"
  BY <1>1, ScriptSteps DEF Step
<1>2. CASE script = "discover_expediente_search"
  BY <1>2, ScriptSteps DEF Step
<1> QED
  BY <1>1, <1>2, ScriptSteps

LEMMA LastStep ==
  ASSUME script \in DOMAIN Steps
  PROVE  Len(Steps[script]) \in DOMAIN Steps[script] /\ Steps[script][Len(Steps[script])] = "write"
<1>1. CASE script = "discover_bandeja"
  BY <1>1, ScriptSteps
<1>2. CASE script = "discover_expediente_search"
  BY <1>2, ScriptSteps
<1> QED
  BY <1>1, <1>2, ScriptSteps

LEMMA StepSame ==
  ASSUME script' = script, at' = at
  PROVE  Step' = Step
  BY DEF Step

\* The types imply that the logs keep their bounds.
LEMMA TypesHold == TypeInv => TypeOK
<1> SUFFICES ASSUME TypeInv
             PROVE  TypeOK
  OBVIOUS
<1>1. Len(log) <= (IF Step = "pages" THEN LastPage
                   ELSE IF Step = "anexos" THEN MaxNotifications ELSE 1)
  <2>1. CASE Step = "pages"
    <3>1. Len(log) \in Nat
      BY <2>1, LenProperties DEF TypeInv, Logged
    <3> QED
      BY <2>1, <3>1, DiscoveryAssumption DEF TypeInv, Logged
  <2>2. CASE Step = "anexos"
    <3>1. Len(log) \in Nat /\ Len(rows) \in Nat
      BY <2>2, LenProperties DEF TypeInv, Logged, Kinds
    <3> QED
      BY <2>2, <3>1, DiscoveryAssumption DEF TypeInv, Logged
  <2>3. CASE Step \in Scenarios
    <3>1. Len(log) \in Nat
      BY <2>3, LenProperties DEF TypeInv, Logged
    <3> QED
      BY <2>3, <3>1 DEF TypeInv, Logged, Scenarios
  <2>4. CASE Step \notin {"pages", "anexos"} \cup Scenarios
    BY <2>4 DEF TypeInv, Logged
  <2> QED
    BY <2>1, <2>2, <2>3, <2>4
<1> QED
  BY <1>1 DEF TypeInv, Basics, Logged, TypeOK

\* A step that begins has no log and no recorder.
LEMMA Begins ==
  ASSUME phase = "begin", log = <<>>, recording = FALSE
  PROVE  Placed /\ Logged
  BY DiscoveryAssumption DEF Placed, Logged

LEMMA TypeInit == Init => TypeInv
<1> SUFFICES ASSUME Init
             PROVE  TypeInv
  OBVIOUS
<1>1. Placed /\ Logged
  BY Begins DEF Init
<1>2. form \in Forms
  BY DEF Init, PageInit, Cleared, Forms
<1>3. Kinds
  <2>1. asked \in Seq(Requests) /\ rows \in Seq(Rows)
    BY EmptySeq DEF Init, PageInit
  <2> QED
    BY <1>2, <2>1 DEF Init, PageInit, Kinds
<1>4. at \in DOMAIN Steps[script]
  BY ScriptSteps DEF Init
<1>5. Basics
  BY <1>4, DiscoveryAssumption DEF Init, PageInit, Basics
<1> QED
  BY <1>1, <1>3, <1>5 DEF TypeInv

\* The next step begins.
LEMMA NextTyped ==
  ASSUME TypeInv, NextStep, Step # "write", log' = <<>>, recording' = FALSE,
         UNCHANGED <<bandeja, script, rows, first, calm, faults>>,
         opened' \subseteq [by : {"anexos", "row"}, of : Notifications]
  PROVE  TypeInv'
<1>1. at' \in DOMAIN Steps[script] /\ phase' = "begin" /\ outcome' = outcome
  BY StepAfter DEF TypeInv, Basics, Kinds, NextStep
<1>2. Placed' /\ Logged'
  BY <1>1, DiscoveryAssumption DEF Placed, Logged
<1> QED
  BY <1>1, <1>2 DEF TypeInv, Basics, Kinds, bandeja

LEMMA SentTyped ==
  ASSUME asked \in Seq(Requests), NEW r \in Requests, Sends(r)
  PROVE  asked' \in Seq(Requests)
  BY AppendProperties DEF Sends

\* What a click on the table or on the row hits is a notification, or nothing.
LEMMA HitTyped ==
  ASSUME Kinds, NEW place
  PROVE  /\ Hit(place) \in Notifications \cup {None}
         /\ Hit(place) # None => dialog = None /\ place \in DOMAIN Table /\ Hit(place) = Table[place]
<1>1. \A i \in DOMAIN Table : Table[i] \in Notifications
  BY TableTyped, LenProperties DEF Kinds
<1> QED
  BY <1>1 DEF Hit

LEMMA RowTargetTyped ==
  ASSUME Kinds, first # None
  PROVE  RowTarget \in Notifications \cup {None}
<1>1. first.of \in Notifications
  BY DEF Kinds, Rows
<1> QED
  BY <1>1, HitTyped DEF RowTarget

\* The steps that leave a step to the next one.
LEMMA EndingsTyped ==
  ASSUME TypeInv,
         \/ Login \/ Landing \/ FilterRead \/ ResetDone \/ PagesEnd
         \/ AnexosDone \/ ClickRow \/ ScenarioRead
  PROVE  TypeInv'
<1>1. CASE Login \/ Landing \/ FilterRead \/ ResetDone
  <2>1. Step \in {"login", "module"} \cup Filters
    BY <1>1 DEF Login, Landing, FilterRead, ResetDone, Running, Filters
  <2>2. log = <<>> /\ recording = FALSE
    BY <2>1 DEF TypeInv, Logged, Kinds, Filters, Scenarios
  <2>3. NextStep /\ UNCHANGED <<bandeja, script, step, opened, calm, faults>>
    BY <1>1 DEF Login, Landing, FilterRead, ResetDone
  <2> QED
    BY <2>1, <2>2, <2>3, NextTyped DEF step, TypeInv, Basics, Filters
<1>2. CASE PagesEnd \/ AnexosDone
  <2>1. Step \in {"pages", "anexos"} /\ recording = FALSE
    BY <1>2 DEF PagesEnd, AnexosDone, Running, TypeInv, Logged, Kinds, Scenarios
  <2>2. /\ NextStep /\ log' = <<>>
        /\ UNCHANGED <<bandeja, script, rows, first, recording, opened, calm, faults>>
    BY <1>2 DEF PagesEnd, AnexosDone
  <2> QED
    BY <2>1, <2>2, NextTyped DEF TypeInv, Basics
<1>3. CASE ScenarioRead
  <2>1. Step \in Scenarios
    BY <1>3 DEF ScenarioRead, Running
  <2> QED
    BY <1>3, <2>1, NextTyped DEF ScenarioRead, Listens, TypeInv, Basics, Scenarios
<1>4. CASE ClickRow
  <2>1. Step = "row" /\ NextStep /\ UNCHANGED <<bandeja, script, step, calm, faults>>
    BY <1>4 DEF ClickRow, Running
  <2>2. log = <<>> /\ recording = FALSE
    BY <2>1 DEF TypeInv, Logged, Kinds, Scenarios
  <2>3. opened' \subseteq [by : {"anexos", "row"}, of : Notifications]
    <3>1. CASE first = None
      BY <1>4, <3>1 DEF ClickRow, TypeInv, Basics
    <3>2. CASE first # None
      <4>1. opened' = opened \cup ({[by |-> "row", of |-> RowTarget]} \ {[by |-> "row", of |-> None]})
        BY <1>4, <3>2 DEF ClickRow
      <4>2. RowTarget \in Notifications \/ RowTarget = None
        BY <3>2, RowTargetTyped DEF TypeInv
      <4> QED
        BY <4>1, <4>2 DEF TypeInv, Basics
    <3> QED
      BY <3>1, <3>2
  <2> QED
    BY <2>1, <2>2, <2>3, NextTyped DEF step
<1> QED
  BY <1>1, <1>2, <1>3, <1>4

\* The first page is logged, and the loop over the others begins.
LEMMA AprilTyped ==
  ASSUME TypeInv, April
  PROVE  TypeInv'
<1>1. /\ Step = "april" /\ NextStep /\ log' = <<shown>>
      /\ UNCHANGED <<bandeja, script, rows, first, recording, opened, calm, faults>>
  BY DEF April, Running
<1>2. at' \in DOMAIN Steps[script] /\ phase' = "begin" /\ outcome' = outcome /\ Step' = "pages"
  BY <1>1, StepAfter DEF TypeInv, Basics, Kinds, NextStep, Step
<1>3. recording = FALSE
  BY <1>1 DEF TypeInv, Logged, Kinds, Scenarios
<1>4. log' \in Seq(Views \cup {None}) /\ Len(log') = 1
  BY <1>1 DEF TypeInv, Kinds
<1>5. Placed' /\ Logged'
  BY <1>1, <1>2, <1>3, <1>4, DiscoveryAssumption DEF Placed, Logged, Filters, Scenarios
<1> QED
  BY <1>1, <1>2, <1>5 DEF TypeInv, Basics, Kinds, bandeja

\* A failure leaves the step, or all of them.
LEMMA LeavingTyped ==
  ASSUME TypeInv, NoModule \/ StepFails
  PROVE  TypeInv'
<1>1. at' \in DOMAIN Steps[script]
  <2>1. CASE NoModule
    BY <2>1, LastStep DEF NoModule, TypeInv, Kinds
  <2>2. CASE StepFails
    BY <2>2, StepAfter DEF StepFails, Tolerant, Filters, TypeInv, Kinds, Basics
  <2> QED
    BY <2>1, <2>2
<1>2. /\ phase' = "begin" /\ log' = <<>> /\ recording = FALSE
      /\ calm' \in BOOLEAN /\ outcome' = outcome
      /\ UNCHANGED <<bandeja, script, rows, first, recording, opened>>
  <2>1. CASE NoModule
    BY <2>1 DEF NoModule, Running, step, TypeInv, Logged, Kinds, Scenarios
  <2>2. CASE StepFails
    <3>1. Step \in Filters \cup {"pages"}
      BY <2>2 DEF StepFails, Tolerant
    <3> QED
      BY <2>2, <3>1 DEF StepFails, TypeInv, Logged, Kinds, Scenarios, Filters
  <2> QED
    BY <2>1, <2>2
<1>3. faults' \in 0..MaxFaults
  BY DiscoveryAssumption DEF NoModule, StepFails, Fault, TypeInv, Basics
<1>4. Placed' /\ Logged'
  BY <1>2, DiscoveryAssumption DEF Placed, Logged
<1> QED
  BY <1>1, <1>2, <1>3, <1>4 DEF TypeInv, Basics, Kinds, bandeja

\* What a step does to the page, and its next phase.
LEMMA StaysTyped ==
  ASSUME TypeInv, UNCHANGED <<script, at>>,
         form' \in Forms, asked' \in Seq(Requests), shown' \in Views \cup {None},
         growl' \in BOOLEAN, keyed' \in BOOLEAN, dialog' \in Notifications \cup {None},
         calm' \in BOOLEAN, faults' \in 0..MaxFaults,
         outcome' \in {"running", "written", "died"},
         UNCHANGED <<rows, first, opened>>,
         phase' \in {"begin", "wait", "read", "first", "end", "rows", "opening", "dates", "search"},
         recording' \in BOOLEAN, Placed', Logged'
  PROVE  TypeInv'
  BY DEF TypeInv, Basics, Kinds

\* A failure, and a wait that may be too short.
LEMMA FaultTyped ==
  ASSUME TypeInv, Fault \/ UNCHANGED faults
  PROVE  faults' \in 0..MaxFaults
  BY DiscoveryAssumption DEF TypeInv, Basics, Fault

LEMMA AskingTyped ==
  ASSUME TypeInv, EnterModule \/ Filter \/ ControlMissing
  PROVE  TypeInv'
<1>1. Step \in {"module"} \cup Filters /\ log = <<>> /\ recording = FALSE
  <2>1. Step \in {"module"} \cup Filters
    BY DEF EnterModule, Filter, ControlMissing, Running
  <2> QED
    BY <2>1 DEF TypeInv, Logged, Kinds, Filters, Scenarios
<1>2. /\ phase' = "wait" /\ UNCHANGED <<script, at, outcome, shown, growl, dialog, keyed, step, opened>>
      /\ calm' \in BOOLEAN
  BY DEF EnterModule, Filter, ControlMissing, Goes, Submits, TypeInv, Kinds
<1>3. form' \in Forms /\ asked' \in Seq(Requests)
  <2>1. CASE EnterModule
    BY <2>1, SearchTyped, SentTyped DEF EnterModule, TypeInv, Kinds
  <2>2. CASE Filter
    <3>1. form' = With(Change(Step)) /\ Sends(Search(form'))
      BY <2>2 DEF Filter, Submits
    <3>2. With(Change(Step)) \in Forms
      BY <2>2, ChangeTyped DEF Filter, Running, TypeInv, Kinds
    <3> QED
      BY <3>1, <3>2, SearchTyped, SentTyped DEF TypeInv, Kinds
  <2>3. CASE ControlMissing
    <3>1. (form' = With(Change(Step)) \/ UNCHANGED form) /\ UNCHANGED asked
      BY <2>3 DEF ControlMissing
    <3>2. With(Change(Step)) \in Forms
      BY <2>3, ChangeTyped DEF ControlMissing, Running, TypeInv, Kinds
    <3> QED
      BY <3>1, <3>2 DEF TypeInv, Kinds
  <2> QED
    BY <2>1, <2>2, <2>3
<1>4. faults' \in 0..MaxFaults
  BY FaultTyped DEF EnterModule, Filter, ControlMissing
<1>5. Step' = Step
  BY <1>2, StepSame
<1>6. Placed' /\ Logged'
  BY <1>1, <1>2, <1>5, DiscoveryAssumption DEF Placed, Logged, step, Filters, Scenarios
<1> QED
  BY <1>1, <1>2, <1>3, <1>4, <1>6, StaysTyped DEF step, TypeInv, Basics, Kinds

LEMMA WaitedTyped ==
  ASSUME TypeInv, Waited
  PROVE  TypeInv'
<1>1. /\ phase \in {"wait", "first", "dates"} /\ phase' = After(phase)
      /\ calm' \in BOOLEAN
      /\ UNCHANGED <<script, at, outcome, bandeja, step, opened>>
  BY DEF Waited, Goes, TypeInv, Kinds
<1>2. Step' = Step
  BY <1>1, StepSame
<1>3. Placed'
  BY <1>1, <1>2, StepKinds DEF After, Placed, TypeInv, Basics, Kinds, Filters, Scenarios
<1>4. Logged'
  BY <1>1, <1>2 DEF After, Logged, Placed, TypeInv, step
<1>5. faults' \in 0..MaxFaults
  BY FaultTyped DEF Waited
<1> QED
  BY <1>1, <1>3, <1>4, <1>5, StaysTyped DEF After, step, bandeja, TypeInv, Basics, Kinds

LEMMA PagesTyped ==
  ASSUME TypeInv, TurnPage \/ PageRead \/ PagesDone
  PROVE  TypeInv'
<1>1. Step = "pages" /\ recording = FALSE /\ log \in Seq(Views \cup {None}) /\ Len(log) \in Nat
  <2>1. Step = "pages"
    BY DEF TurnPage, PageRead, PagesDone, Running
  <2> QED
    BY <2>1, LenProperties DEF TypeInv, Logged, Kinds, Scenarios
<1>2. /\ UNCHANGED <<script, at, outcome, form, shown, growl, dialog, keyed, rows, first, recording, opened>>
      /\ calm' \in BOOLEAN
  BY DEF TurnPage, PageRead, PagesDone, Goes, bandeja, step, TypeInv, Kinds
<1>3. Step' = Step
  BY <1>2, StepSame
<1>4. faults' \in 0..MaxFaults
  BY FaultTyped DEF TurnPage, PageRead, PagesDone
<1>5. asked' \in Seq(Requests)
  <2>1. CASE TurnPage
    <3>1. shown \in Views /\ Sends(Turn(shown.page + 1))
      BY <2>1 DEF TurnPage, CanTurn, HasNext, TypeInv, Kinds
    <3>2. shown.page + 1 \in Nat \ {0}
      BY <3>1 DEF Views
    <3> QED
      BY <3>1, <3>2, TurnTyped, SentTyped DEF TypeInv, Kinds
  <2>2. CASE PageRead
    BY <2>2 DEF PageRead, bandeja, TypeInv, Kinds
  <2>3. CASE PagesDone
    <3>1. UNCHANGED asked \/ (shown \in Views /\ Sends(Turn(1)))
      BY <2>3 DEF PagesDone, TypeInv, Kinds
    <3> QED
      BY <3>1, TurnTyped, SentTyped DEF TypeInv, Kinds
  <2> QED
    BY <2>1, <2>2, <2>3
<1>6. /\ phase' \in {"begin", "wait", "first"}
      /\ log' \in Seq(Views \cup {None})
      /\ Len(log') <= (IF phase' = "wait" THEN LastPage - 1 ELSE LastPage)
  <2>1. CASE TurnPage
    BY <1>1, <2>1, DiscoveryAssumption DEF TurnPage, Goes, CanTurn, step
  <2>2. CASE PageRead
    <3>1. log' = Append(log, shown) /\ phase' = "begin" /\ phase = "read"
      BY <2>2 DEF PageRead, Goes, Running
    <3>2. shown \in Views \cup {None} /\ Len(log) <= LastPage - 1
      BY <1>1, <3>1 DEF TypeInv, Logged, Kinds
    <3> QED
      BY <1>1, <3>1, <3>2, AppendProperties, DiscoveryAssumption
  <2>3. CASE PagesDone
    <3>1. log' = log /\ phase' = "first" /\ Len(log) <= LastPage
      BY <1>1, <2>3, DiscoveryAssumption DEF PagesDone, Goes, step, TypeInv, Logged
    <3> QED
      BY <1>1, <3>1
  <2> QED
    BY <2>1, <2>2, <2>3
<1>7. Placed' /\ Logged'
  BY <1>1, <1>2, <1>3, <1>6 DEF Placed, Logged, Filters, Scenarios
<1> QED
  BY <1>1, <1>2, <1>4, <1>5, <1>6, <1>7, StaysTyped DEF TypeInv, Basics, Kinds

\* The rows that are parsed: the first read ones, no more than are wanted.
LEMMA ParsedRows ==
  ASSUME Kinds, ParseRows
  PROVE  /\ rows' \in Seq(Rows) /\ Len(rows') <= MaxNotifications
         /\ \A k \in DOMAIN rows' : k \in DOMAIN ReadRows /\ rows'[k] = ReadRows[k]
         /\ first' = None \/ (1 \in DOMAIN ReadRows /\ first' = ReadRows[1])
         /\ first' \in Rows \cup {None}
<1> DEFINE n == IF MaxNotifications < Len(ReadRows) THEN MaxNotifications ELSE Len(ReadRows)
<1>1. ReadRows \in Seq(Rows)
  BY ReadRowsTyped DEF Kinds
<1>2. Len(ReadRows) \in Nat /\ DOMAIN ReadRows = 1..Len(ReadRows)
      /\ \A k \in 1..Len(ReadRows) : ReadRows[k] \in Rows
  BY <1>1, LenProperties
<1>3. n \in Nat /\ n <= MaxNotifications /\ n <= Len(ReadRows)
  BY <1>2, DiscoveryAssumption
<1>4. rows' = SubSeq(ReadRows, 1, n)
  BY DEF ParseRows
<1> HIDE DEF n
<1>5. \A k \in 1..n : ReadRows[k] \in Rows
  BY <1>2, <1>3
<1>6. /\ SubSeq(ReadRows, 1, n) \in Seq(Rows)
      /\ Len(SubSeq(ReadRows, 1, n)) = IF 1 <= n THEN n - 1 + 1 ELSE 0
      /\ \A k \in 1..(n - 1 + 1) : SubSeq(ReadRows, 1, n)[k] = ReadRows[1 + k - 1]
  BY <1>3, <1>5, SubSeqProperties
<1>7. rows' \in Seq(Rows) /\ Len(rows') = n /\ \A k \in 1..n : rows'[k] = ReadRows[k]
  BY <1>3, <1>4, <1>6
<1>8. DOMAIN rows' = 1..n
  BY <1>7, LenProperties
<1>9. first' = None \/ (1 \in DOMAIN ReadRows /\ first' = ReadRows[1])
  <2>1. CASE ReadRows = <<>>
    BY <2>1 DEF ParseRows
  <2>2. CASE ReadRows # <<>>
    <3>1. Len(ReadRows) # 0
      BY <1>1, <2>2, EmptySeq
    <3>2. first' = Head(ReadRows) /\ Head(ReadRows) = ReadRows[1]
      BY <1>1, <2>2 DEF ParseRows
    <3> QED
      BY <1>2, <3>1, <3>2
  <2> QED
    BY <2>1, <2>2
<1> QED
  BY <1>2, <1>3, <1>7, <1>8, <1>9

\* One row is done with.
LEMMA LeavesTyped ==
  ASSUME TypeInv, Step = "anexos", phase # "begin", rows # <<>>,
         NEW result \in Results, Leaves(result)
  PROVE  /\ rows' \in Seq(Rows) /\ Len(rows') \in Nat /\ Len(rows') = Len(rows) - 1
         /\ log' \in Seq(Results) /\ Len(log') = Len(log) + 1
         /\ Len(log') + Len(rows') <= MaxNotifications /\ Len(rows') <= MaxNotifications
<1>1. rows \in Seq(Rows) /\ log \in Seq(Results) /\ Len(log) + Len(rows) <= MaxNotifications
  BY DEF TypeInv, Kinds, Logged
<1>2. rows' = Tail(rows) /\ log' = Append(log, result)
  BY DEF Leaves
<1>3. Len(rows) \in Nat /\ Len(log) \in Nat
  BY <1>1, LenProperties
<1>4. rows' \in Seq(Rows) /\ Len(rows') = Len(rows) - 1
  BY <1>1, <1>2, HeadTailProperties
<1>5. log' \in Seq(Results) /\ Len(log') = Len(log) + 1
  BY <1>1, <1>2, AppendProperties
<1>6. Len(rows') \in Nat
  BY <1>4, LenProperties
<1> QED
  BY <1>1, <1>3, <1>4, <1>5, <1>6, DiscoveryAssumption

LEMMA HeadRow ==
  ASSUME TypeInv, rows # <<>>
  PROVE  /\ Head(rows) \in Rows /\ Head(rows).of \in Notifications
         /\ 1 \in DOMAIN rows /\ Head(rows) = rows[1]
<1>1. rows \in Seq(Rows)
  BY DEF TypeInv, Kinds
<1>2. Head(rows) \in Rows /\ Head(rows) = rows[1]
  BY <1>1, HeadTailProperties
<1>3. Len(rows) \in Nat \ {0} /\ DOMAIN rows = 1..Len(rows)
  BY <1>1, EmptySeq, LenProperties
<1> QED
  BY <1>2, <1>3 DEF Rows

LEMMA AnexosTypedStep ==
  ASSUME TypeInv, ParseRows \/ ClickAnexos \/ ReadAnexos \/ NoAnexos
  PROVE  TypeInv'
<1>1. Step = "anexos" /\ recording = FALSE /\ log \in Seq(Results) /\ rows \in Seq(Rows)
  <2>1. Step = "anexos"
    BY DEF ParseRows, ClickAnexos, ReadAnexos, NoAnexos, Running
  <2> QED
    BY <2>1 DEF TypeInv, Logged, Kinds, Scenarios
<1>2. /\ UNCHANGED <<script, at, outcome, form, shown, growl, keyed, recording>>
      /\ calm' \in BOOLEAN
  BY DEF ParseRows, ClickAnexos, ReadAnexos, NoAnexos, Goes, bandeja, TypeInv, Kinds
<1>3. Step' = Step
  BY <1>2, StepSame
<1>4. faults' \in 0..MaxFaults
  BY FaultTyped DEF ParseRows, ClickAnexos, ReadAnexos, NoAnexos
<1>5. /\ phase' \in {"rows", "opening"}
      /\ rows' \in Seq(Rows) /\ Len(rows') <= MaxNotifications /\ first' \in Rows \cup {None}
      /\ log' \in Seq(Results) /\ Len(log') + Len(rows') <= MaxNotifications
      /\ phase' = "opening" => rows' # <<>>
      /\ asked' \in Seq(Requests) /\ dialog' \in Notifications \cup {None}
      /\ opened' \subseteq [by : {"anexos", "row"}, of : Notifications]
  <2>1. CASE ParseRows
    <3>1. log' = <<>> /\ Len(log') = 0 /\ log' \in Seq(Results)
      BY <2>1, EmptySeq DEF ParseRows
    <3>2. rows' \in Seq(Rows) /\ Len(rows') <= MaxNotifications /\ first' \in Rows \cup {None}
      BY <2>1, ParsedRows DEF TypeInv
    <3>3. Len(rows') \in Nat
      BY <3>2, LenProperties
    <3>4. phase' = "rows" /\ UNCHANGED <<bandeja, opened>>
      BY <2>1 DEF ParseRows, Goes
    <3> QED
      BY <3>1, <3>2, <3>3, <3>4, DiscoveryAssumption DEF bandeja, TypeInv, Basics, Kinds
  <2>2. CASE ClickAnexos
    <3> DEFINE target == Hit(Head(rows).place)
    <3>1. rows # <<>> /\ phase = "rows" /\ UNCHANGED <<dialog, first>>
      BY <2>2 DEF ClickAnexos, Running
    <3>2. CASE target = None
      <4>1. Leaves([row |-> Head(rows).of, of |-> None]) /\ UNCHANGED <<asked, phase, opened>>
        BY <2>2, <3>2 DEF ClickAnexos
      <4>2. [row |-> Head(rows).of, of |-> None] \in Results
        BY <3>1, HeadRow DEF Results
      <4> QED
        BY <1>1, <3>1, <4>1, <4>2, LeavesTyped DEF TypeInv, Basics, Kinds
    <3>3. CASE target # None
      <4>1. /\ opened' = opened \cup {[by |-> "anexos", of |-> target]}
            /\ Sends(Anexos(target)) /\ phase' = "opening"
            /\ UNCHANGED <<rows, log>>
        BY <2>2, <3>3 DEF ClickAnexos
      <4>2. target \in Notifications
        BY <3>3, HitTyped DEF TypeInv
      <4>3. opened' \subseteq [by : {"anexos", "row"}, of : Notifications]
        BY <4>1, <4>2 DEF TypeInv, Basics
      <4>4. asked' \in Seq(Requests)
        BY <4>1, <4>2, AnexosTyped, SentTyped DEF TypeInv, Kinds
      <4> QED
        BY <1>1, <3>1, <4>1, <4>3, <4>4 DEF TypeInv, Basics, Kinds, Logged
    <3> QED
      BY <3>2, <3>3
  <2>3. CASE ReadAnexos
    <3>1. phase = "opening" /\ dialog \in Notifications /\ phase' = "rows"
          /\ (dialog' = None \/ dialog' = dialog)
          /\ UNCHANGED <<asked, first, opened>>
          /\ Leaves([row |-> Head(rows).of, of |-> dialog])
      BY <2>3 DEF ReadAnexos, Running, Goes, TypeInv, Basics
    <3>2. rows # <<>>
      BY <1>1, <3>1 DEF TypeInv, Logged
    <3>3. [row |-> Head(rows).of, of |-> dialog] \in Results
      BY <3>1, <3>2, HeadRow DEF Results
    <3> QED
      BY <1>1, <3>1, <3>2, <3>3, LeavesTyped DEF TypeInv, Basics, Kinds
  <2>4. CASE NoAnexos
    <3>1. phase \in {"rows", "opening"} /\ rows # <<>> /\ phase' = "rows"
          /\ UNCHANGED <<asked, dialog, first, opened>>
          /\ Leaves([row |-> Head(rows).of, of |-> None])
      BY <2>4 DEF NoAnexos, Goes, bandeja
    <3>2. [row |-> Head(rows).of, of |-> None] \in Results
      BY <3>1, HeadRow DEF Results
    <3> QED
      BY <1>1, <3>1, <3>2, LeavesTyped DEF TypeInv, Basics, Kinds
  <2> QED
    BY <2>1, <2>2, <2>3, <2>4
<1>6. Placed' /\ Logged'
  BY <1>1, <1>2, <1>3, <1>5 DEF Placed, Logged, Filters, Scenarios
<1> QED
  BY <1>1, <1>2, <1>4, <1>5, <1>6 DEF TypeInv, Basics, Kinds

LEMMA ScenarioTyped ==
  ASSUME TypeInv, BeginScenario \/ RunScenario \/ ButtonMissing
  PROVE  TypeInv'
<1>1. Step \in Scenarios /\ log \in Seq(Calls)
  <2>1. Step \in Scenarios
    BY DEF BeginScenario, RunScenario, ButtonMissing, Running
  <2> QED
    BY <2>1 DEF TypeInv, Logged
<1>2. /\ UNCHANGED <<script, at, outcome, shown, growl, dialog, keyed, rows, first, opened>>
      /\ calm' \in BOOLEAN /\ recording' \in BOOLEAN
  BY DEF BeginScenario, RunScenario, ButtonMissing, Goes, Listens, Submits, TypeInv, Kinds
<1>3. Step' = Step
  BY <1>2, StepSame
<1>4. faults' \in 0..MaxFaults
  BY FaultTyped DEF BeginScenario, RunScenario, ButtonMissing
<1>5. form' \in Forms
  <2>1. CASE BeginScenario
    <3>1. CASE Step = "A"
      <4> DEFINE v == [expediente |-> ""]
      <4>1. form' = With(v)
        BY <2>1, <3>1 DEF BeginScenario
      <4>2. DOMAIN v = {"expediente"} /\ v["expediente"] = ""
        OBVIOUS
      <4> HIDE DEF v
      <4> QED
        BY <4>1, <4>2, WithTyped DEF TypeInv, Kinds
    <3>2. CASE Step # "A"
      <4> DEFINE v == [expediente |-> "", dates |-> DatesOf(Step)]
      <4>1. form' = With(v)
        BY <2>1, <3>2 DEF BeginScenario
      <4>2. DatesOf(Step) \in {"reset", "year", "week"}
        BY <1>1, <3>2, ChangeScenario
      <4>3. DOMAIN v = {"expediente", "dates"} /\ v["expediente"] = "" /\ v["dates"] = DatesOf(Step)
        OBVIOUS
      <4> HIDE DEF v
      <4> QED
        BY <4>1, <4>2, <4>3, WithTyped DEF TypeInv, Kinds
    <3> QED
      BY <3>1, <3>2
  <2>2. CASE RunScenario \/ ButtonMissing
    <3> DEFINE v == [expediente |-> Change(Step).expediente]
    <3>1. form' = With(v)
      BY <2>2 DEF RunScenario, ButtonMissing, Submits
    <3>2. Change(Step).expediente \in {Expediente, Filtered}
      BY <1>1, ChangeScenario
    <3>3. DOMAIN v = {"expediente"} /\ v["expediente"] = Change(Step).expediente
      OBVIOUS
    <3> HIDE DEF v
    <3> QED
      BY <3>1, <3>2, <3>3, WithTyped DEF TypeInv, Kinds
  <2> QED
    BY <2>1, <2>2
<1>6. asked' \in Seq(Requests)
  <2>1. UNCHANGED asked \/ Sends(Search(form'))
    BY DEF BeginScenario, RunScenario, ButtonMissing, Submits
  <2> QED
    BY <1>5, <2>1, SearchTyped, SentTyped DEF TypeInv, Kinds
<1>7. /\ phase' \in {"dates", "search", "wait"}
      /\ log' \in Seq(Calls)
      /\ Len(log') <= (IF phase' = "wait" THEN 1 ELSE 0)
      /\ recording' => phase' = "wait"
  <2>1. CASE BeginScenario
    <3>1. log' = <<>> /\ phase' \in {"dates", "search"} /\ recording' = recording /\ phase = "begin"
      BY <2>1 DEF BeginScenario, Goes, Running
    <3>2. log' \in Seq(Calls) /\ Len(log') = 0
      BY <3>1, EmptySeq
    <3> QED
      BY <3>1, <3>2 DEF TypeInv, Logged
  <2>2. CASE RunScenario
    <3>1. phase = "search" /\ phase' = "wait" /\ log' = Append(log, Call(Last(asked')))
          /\ Sends(Search(form'))
      BY <2>2 DEF RunScenario, Running, Goes, Submits
    <3>2. Len(log) <= 0 /\ Len(log) \in Nat
      BY <1>1, <3>1, LenProperties DEF TypeInv, Logged
    <3>3. Last(asked') = Search(form') /\ Search(form') \in Requests
      <4>1. Search(form') \in Requests
        BY <1>5, SearchTyped
      <4> QED
        BY <3>1, <4>1, <1>6, AppendProperties, LenProperties DEF Sends, Last, TypeInv, Kinds
    <3>4. Call(Last(asked')) \in Calls
      BY <3>3 DEF Call, Calls
    <3> QED
      BY <1>1, <3>1, <3>2, <3>4, AppendProperties
  <2>3. CASE ButtonMissing
    <3>1. phase = "search" /\ phase' = "wait" /\ log' = log
      BY <2>3 DEF ButtonMissing, Running, Goes
    <3>2. Len(log) <= 0 /\ Len(log) \in Nat
      BY <1>1, <3>1, LenProperties DEF TypeInv, Logged
    <3> QED
      BY <1>1, <3>1, <3>2
  <2> QED
    BY <2>1, <2>2, <2>3
<1>8. Placed' /\ Logged'
  BY <1>1, <1>3, <1>7 DEF Placed, Logged, Filters, Scenarios
<1> QED
  BY <1>2, <1>4, <1>5, <1>6, <1>7, <1>8, StaysTyped DEF TypeInv, Basics, Kinds

\* An answer: the table, a message or a dialog; and the recorder's callback.
LEMMA AnswerTyped ==
  ASSUME TypeInv, PortalAnswers
  PROVE  TypeInv'
<1>1. /\ asked # <<>> /\ asked' = Tail(asked) /\ log' = Recorded(Head(asked))
      /\ UNCHANGED <<form, keyed, script, at, phase, rows, first, recording, opened, findings, outcome, calm, faults>>
  BY DEF PortalAnswers, Answer
<1>2. asked \in Seq(Requests) /\ Head(asked) \in Requests /\ asked' \in Seq(Requests)
  BY <1>1, HeadTailProperties DEF TypeInv, Kinds
<1>3. /\ shown' \in Views \cup {None} /\ growl' \in BOOLEAN
      /\ dialog' \in Notifications \cup {None}
  <2> DEFINE r == Head(asked)
  <2>1. \/ r.to = "table" /\ shown' = r.view /\ growl' = FALSE /\ UNCHANGED dialog
        \/ growl' = TRUE /\ UNCHANGED <<shown, dialog>>
        \/ r.to = "dialog" /\ dialog' = r.of /\ UNCHANGED <<shown, growl>>
    BY DEF PortalAnswers, Answer
  <2>2. \/ r.to = "table" /\ r.view \in Views
        \/ r.to = "dialog" /\ r.of \in Notifications
    BY <1>2, RequestKinds
  <2> HIDE DEF r
  <2> QED
    BY <2>1, <2>2 DEF TypeInv, Kinds, Basics
<1>4. Step' = Step
  BY <1>1, StepSame
<1>5. Placed'
  BY <1>1, <1>4 DEF TypeInv, Placed
<1>6. Logged'
  <2>1. CASE ~ recording
    <3>1. log' = log
      BY <1>1, <2>1 DEF Recorded
    <3> QED
      BY <1>1, <1>4, <3>1 DEF TypeInv, Logged
  <2>2. CASE recording
    <3>1. Step \in Scenarios /\ phase \in {"wait", "read"} /\ log \in Seq(Calls)
      BY <2>2 DEF TypeInv, Logged
    <3>2. Len(log) \in Nat /\ DOMAIN log = 1..Len(log) /\ \A i \in DOMAIN log : log[i] \in Calls
      BY <3>1, LenProperties
    <3>3. log' = [i \in 1..Len(log) |->
                    IF log[i].request = Head(asked) THEN [log[i] EXCEPT !.answer = Head(asked)] ELSE log[i]]
      BY <1>1, <2>2, <3>2 DEF Recorded
    <3>4. \A i \in DOMAIN log : [log[i] EXCEPT !.answer = Head(asked)] \in Calls
      BY <1>2, <3>2 DEF Calls
    <3>5. log' \in [1..Len(log) -> Calls]
      BY <3>2, <3>3, <3>4
    <3>6. log' \in Seq(Calls) /\ Len(log') = Len(log)
      BY <3>2, <3>5, SeqDef, LenProperties
    <3> QED
      BY <1>1, <1>4, <3>1, <3>6 DEF TypeInv, Logged, Scenarios
  <2> QED
    BY <2>1, <2>2
<1> QED
  BY <1>1, <1>2, <1>3, <1>5, <1>6, StaysTyped DEF TypeInv, Basics, Kinds

LEMMA OverTyped ==
  ASSUME TypeInv, Write \/ Crash \/ UNCHANGED vars
  PROVE  TypeInv'
<1>1. /\ UNCHANGED <<bandeja, script, at, phase, rows, first, log, opened>>
      /\ outcome' \in {"running", "written", "died"} /\ calm' \in BOOLEAN
      /\ recording' = recording \/ recording' = FALSE
  BY DEF Write, Crash, Listens, vars, step, TypeInv, Basics, Kinds
<1>2. faults' \in 0..MaxFaults
  BY FaultTyped DEF Write, Crash, vars
<1>3. Step' = Step
  BY <1>1, StepSame
<1>4. Placed' /\ Logged'
  BY <1>1, <1>3 DEF TypeInv, Placed, Logged, Kinds
<1> QED
  BY <1>1, <1>2, <1>4, StaysTyped DEF TypeInv, Basics, Kinds, bandeja

LEMMA TypeStep ==
  ASSUME TypeInv, [Next]_vars
  PROVE  TypeInv'
  BY EndingsTyped, AprilTyped, LeavingTyped, AskingTyped, WaitedTyped, PagesTyped,
     AnexosTypedStep, ScenarioTyped, AnswerTyped, OverTyped
     DEF Next, Proceeds

LEMMA Typed == Spec => []TypeInv
  BY TypeInit, TypeStep, PTL DEF Spec

\* The variables of the scripts keep their types: no step reads more pages, rows
\* or calls than it may.
THEOREM TypeCorrect == Spec => []TypeOK
  BY Typed, TypesHold, PTL

-----------------------------------------------------------------------------
(* What every step has in common.                                          *)

\* A step of the script stays, or another one begins; calm does not come back.
LEMMA Moves ==
  ASSUME TypeInv, [Next]_vars
  PROVE  /\ UNCHANGED <<script, keyed>>
         /\ (UNCHANGED at /\ Step' = Step) \/ phase' = "begin"
         /\ calm' => calm
<1>1. UNCHANGED <<script, keyed>>
  BY DEF Next, Proceeds, Login, EnterModule, Landing, Filter, Submits, Waited, FilterRead, ResetDone,
         April, TurnPage, PageRead, PagesDone, PagesEnd, ParseRows, ClickAnexos, ReadAnexos,
         AnexosDone, ClickRow, BeginScenario, RunScenario, ScenarioRead, Write, PortalAnswers,
         Answer, NoModule, ControlMissing, ButtonMissing, NoAnexos, StepFails, Crash, vars, bandeja
<1>2. UNCHANGED at \/ phase' = "begin"
  BY DEF Next, Proceeds, Login, EnterModule, Landing, Filter, Waited, FilterRead, ResetDone,
         April, TurnPage, PageRead, PagesDone, PagesEnd, ParseRows, ClickAnexos, ReadAnexos,
         AnexosDone, ClickRow, BeginScenario, RunScenario, ScenarioRead, Write, PortalAnswers,
         NoModule, ControlMissing, ButtonMissing, NoAnexos, StepFails, Crash, vars,
         NextStep, Goes, Running
<1>3. calm' => calm
  BY DEF Next, Proceeds, Login, EnterModule, Landing, Filter, Waited, FilterRead, ResetDone,
         April, TurnPage, PageRead, PagesDone, PagesEnd, ParseRows, ClickAnexos, ReadAnexos,
         AnexosDone, ClickRow, BeginScenario, RunScenario, ScenarioRead, Write, PortalAnswers,
         NoModule, ControlMissing, ButtonMissing, NoAnexos, StepFails, Crash, vars
<1> QED
  BY <1>1, <1>2, <1>3, StepSame

\* What is reported, and by which steps.
LEMMA Reports ==
  ASSUME [Next]_vars
  PROVE  \/ UNCHANGED findings
         \/ /\ Login \/ NoModule \/ Landing \/ FilterRead \/ April \/ ClickRow
            /\ Finds(<<>>)
         \/ /\ PagesDone \/ AnexosDone \/ ScenarioRead
            /\ Finds(log)
  BY DEF Next, Proceeds, Login, EnterModule, Landing, Filter, Waited, FilterRead, ResetDone,
         April, TurnPage, PageRead, PagesDone, PagesEnd, ParseRows, ClickAnexos, ReadAnexos,
         AnexosDone, ClickRow, BeginScenario, RunScenario, ScenarioRead, Write, PortalAnswers,
         NoModule, ControlMissing, ButtonMissing, NoAnexos, StepFails, Crash, vars

-----------------------------------------------------------------------------
(* The calls of a scenario.                                                *)

OwnLog ==
  Step \in Scenarios =>
    \A i \in DOMAIN log :
      /\ log[i].request.view.form.expediente = Change(Step).expediente
      /\ log[i].answer \in {None, log[i].request}

LEMMA EmptyLog ==
  ASSUME TypeInv, Step \in Scenarios, phase \notin {"wait", "read"}
  PROVE  log = <<>>
<1>1. log \in Seq(Calls) /\ Len(log) <= 0
  BY DEF TypeInv, Logged
<1> QED
  BY <1>1, EmptySeq

LEMMA OwnLogStep ==
  ASSUME TypeInv, TypeInv', OwnLog, [Next]_vars
  PROVE  OwnLog'
<1>1. CASE Step' \notin Scenarios \/ phase' \notin {"wait", "read"}
  <2>1. Step' \in Scenarios => log' \in Seq(Calls) /\ Len(log') <= 0
    BY <1>1 DEF TypeInv, Logged
  <2>2. Step' \in Scenarios => log' = <<>>
    BY <2>1, EmptySeq
  <2> QED
    BY <2>2 DEF OwnLog
<1>2. CASE Step' \in Scenarios /\ phase' \in {"wait", "read"}
  <2>0. Step' = Step /\ Step \in Scenarios
    BY <1>2, Moves
  <2>1. CASE RunScenario
    <3>1. log = <<>>
      BY <2>1, <2>0, EmptyLog DEF RunScenario, Running
    <3>2. /\ form' = With([expediente |-> Change(Step).expediente])
          /\ asked' = Append(asked, Search(form')) /\ log' = <<Call(Last(asked'))>>
      BY <2>1, <3>1 DEF RunScenario, Submits, Sends
    <3>3. Last(asked') = Search(form')
      <4>1. Search(form') \in Requests
        BY SearchTyped DEF TypeInv, Kinds
      <4> QED
        BY <3>2, <4>1, AppendProperties, LenProperties DEF Last, TypeInv, Kinds
    <3>4. form'.expediente = Change(Step).expediente
      <4> DEFINE v == [expediente |-> Change(Step).expediente]
      <4>1. DOMAIN v = {"expediente"} /\ v["expediente"] = Change(Step).expediente
        OBVIOUS
      <4>2. "expediente" \in DOMAIN form
        BY DEF TypeInv, Kinds, Forms
      <4> HIDE DEF v
      <4>3. form' = With(v)
        BY <3>2 DEF v
      <4> QED
        BY <4>1, <4>2, <4>3 DEF With
    <3>5. log'[1].request.view.form.expediente = Change(Step).expediente /\ log'[1].answer = None
          /\ DOMAIN log' = {1}
      BY <3>2, <3>3, <3>4 DEF Call, Search
    <3> QED
      BY <2>0, <3>5 DEF OwnLog
  <2>2. CASE PortalAnswers
    <3>1. log' = Recorded(Head(asked))
      BY <2>2 DEF PortalAnswers
    <3>2. log \in Seq(Calls)
      BY <2>0 DEF TypeInv, Logged
    <3>3. \A i \in DOMAIN log : log[i] \in Calls
      BY <3>2, LenProperties
    <3>4. DOMAIN log' = DOMAIN log
          /\ \A i \in DOMAIN log : log'[i] = log[i]
               \/ (log[i].request = Head(asked) /\ log'[i] = [log[i] EXCEPT !.answer = Head(asked)])
      BY <3>1 DEF Recorded
    <3>5. ASSUME NEW i \in DOMAIN log
          PROVE  log'[i].request = log[i].request /\ log'[i].answer \in {log[i].answer, log[i].request}
      BY <3>3, <3>4, <3>5 DEF Calls
    <3> QED
      BY <2>0, <3>4, <3>5 DEF OwnLog
  <2>3. CASE ~ RunScenario /\ ~ PortalAnswers
    <3>1. log' = log
      BY <1>2, <2>0, <2>3
         DEF Next, Proceeds, Login, EnterModule, Landing, Filter, Waited, FilterRead, ResetDone,
         April, TurnPage, PageRead, PagesDone, PagesEnd, ParseRows, ClickAnexos, ReadAnexos,
         AnexosDone, ClickRow, BeginScenario, ScenarioRead, Write,
         NoModule, ControlMissing, ButtonMissing, NoAnexos, StepFails, Crash, vars,
         NextStep, Goes, Running, step, Scenarios, Filters, Tolerant
    <3> QED
      BY <2>0, <3>1 DEF OwnLog
  <2> QED
    BY <2>1, <2>2, <2>3
<1> QED
  BY <1>1, <1>2

LEMMA OwnCallsStep ==
  ASSUME OwnLog, OwnCalls, [Next]_vars
  PROVE  OwnCalls'
<1>1. CASE UNCHANGED findings
  BY <1>1 DEF OwnCalls
<1>2. CASE Finds(<<>>) /\ (Login \/ NoModule \/ Landing \/ FilterRead \/ April \/ ClickRow)
  <2>1. Step \notin Scenarios
    BY <1>2 DEF Login, NoModule, Landing, FilterRead, April, ClickRow, Running, Scenarios, Filters
  <2>2. Entry(<<>>).step \notin Scenarios /\ findings' = findings \cup {Entry(<<>>)}
    BY <1>2, <2>1 DEF Entry, Finds
  <2> QED
    BY <2>2 DEF OwnCalls
<1>3. CASE Finds(log)
  <2>1. Entry(log).step = Step /\ Entry(log).seen = log /\ findings' = findings \cup {Entry(log)}
    BY <1>3 DEF Entry, Finds
  <2> QED
    BY <2>1 DEF OwnCalls, OwnLog
<1> QED
  BY <1>1, <1>2, <1>3, Reports

\* Whatever answers arrive while a scenario listens, the calls it reports are its
\* own search's, with its own answer or none.
THEOREM OwnCallsAlways == Spec => []OwnCalls
<1>1. Init => OwnLog /\ OwnCalls
  BY DEF Init, OwnLog, OwnCalls
<1>2. TypeInv /\ TypeInv' /\ OwnLog /\ OwnCalls /\ [Next]_vars => OwnLog' /\ OwnCalls'
  BY OwnLogStep, OwnCallsStep
<1> QED
  BY <1>1, <1>2, Typed, PTL DEF Spec

-----------------------------------------------------------------------------
(* Only notifications that had been read are opened.                       *)

\* What has been parsed had been read.
ReadBefore ==
  /\ \A k \in DOMAIN rows : rows[k].of \notin Unread
  /\ first # None => first.of \notin Unread

There(row) == row.place \in DOMAIN Table /\ Table[row.place] = row.of

\* In calm a step begins, and reads, with nothing asked.
Quiet == calm /\ phase \in {"begin", "read", "rows", "end", "search"} => asked = <<>>

OnRows == phase \in {"rows", "opening"} \/ Step = "row"

\* And the rows are still where they were parsed.
RowsThere ==
  calm /\ OnRows =>
    /\ \A k \in DOMAIN rows : There(rows[k])
    /\ first # None => There(first)

\* The dialog that opens is the first row's.
Opening ==
  calm /\ phase = "opening" =>
    \/ dialog = None /\ asked = <<Anexos(Head(rows).of)>>
    \/ dialog = Head(rows).of /\ asked = <<>>

RowsInv == ReadBefore /\ Quiet /\ RowsThere /\ Opening

\* A row that is left is the first one.
LEMMA RowsMove ==
  ASSUME TypeInv, [Next]_vars
  PROVE  ParseRows \/ (UNCHANGED first /\ (UNCHANGED rows \/ (rows # <<>> /\ rows' = Tail(rows))))
<1>1. CASE ClickAnexos
  BY <1>1 DEF ClickAnexos, Running, Leaves
<1>2. CASE ReadAnexos
  <2>1. UNCHANGED first /\ rows' = Tail(rows) /\ rows # <<>>
    BY <1>2 DEF ReadAnexos, Running, Leaves, TypeInv, Logged
  <2> QED
    BY <2>1
<1>3. CASE NoAnexos
  BY <1>3 DEF NoAnexos, Leaves
<1>4. CASE ~ (ClickAnexos \/ ReadAnexos \/ NoAnexos)
  BY <1>4 DEF Next, Proceeds, Login, EnterModule, Landing, Filter, Waited, FilterRead, ResetDone,
         April, TurnPage, PageRead, PagesDone, PagesEnd,
         AnexosDone, ClickRow, BeginScenario, RunScenario, ScenarioRead, Write, PortalAnswers,
         NoModule, ControlMissing, ButtonMissing, StepFails, Crash, vars, step
<1> QED
  BY <1>1, <1>2, <1>3, <1>4

LEMMA TailRows ==
  ASSUME TypeInv, rows # <<>>, rows' = Tail(rows)
  PROVE  \A k \in DOMAIN rows' : k + 1 \in DOMAIN rows /\ rows'[k] = rows[k + 1]
<1>1. rows \in Seq(Rows)
  BY DEF TypeInv, Kinds
<1>2. Len(rows) \in Nat /\ DOMAIN rows = 1..Len(rows)
  BY <1>1, LenProperties
<1>3. /\ Tail(rows) \in Seq(Rows) /\ Len(Tail(rows)) = Len(rows) - 1
      /\ \A k \in 1..Len(Tail(rows)) : Tail(rows)[k] = rows[k + 1]
  BY <1>1, HeadTailProperties
<1>4. DOMAIN Tail(rows) = 1..(Len(rows) - 1)
  BY <1>3, LenProperties
<1> QED
  BY <1>2, <1>3, <1>4

LEMMA ReadBeforeStep ==
  ASSUME TypeInv, ReadBefore, [Next]_vars
  PROVE  ReadBefore'
<1>1. CASE ParseRows
  <2>1. \A k \in DOMAIN ReadRows : ReadRows[k].of \notin Unread
    BY ReadRowsTyped DEF TypeInv, Kinds
  <2> QED
    BY <1>1, <2>1, ParsedRows DEF ReadBefore, TypeInv
<1>2. CASE UNCHANGED <<first, rows>>
  BY <1>2 DEF ReadBefore
<1>3. CASE UNCHANGED first /\ rows # <<>> /\ rows' = Tail(rows)
  BY <1>3, TailRows DEF ReadBefore
<1> QED
  BY <1>1, <1>2, <1>3, RowsMove

LEMMA QuietStep ==
  ASSUME TypeInv, Quiet, Opening, [Next]_vars
  PROVE  Quiet'
<1> SUFFICES ASSUME calm', phase' \in {"begin", "read", "rows", "end", "search"}
             PROVE  asked' = <<>>
  BY DEF Quiet
<1>0. calm
  BY Moves
<1>1. CASE PortalAnswers
  <2>1. asked # <<>> /\ phase' = phase
    BY <1>1 DEF PortalAnswers, Answer
  <2> QED
    BY <1>0, <2>1 DEF Quiet
<1>2. CASE Waited \/ NoAnexos \/ StepFails
  BY <1>2 DEF Waited, NoAnexos, StepFails, bandeja
<1>3. CASE ReadAnexos
  BY <1>0, <1>3 DEF ReadAnexos, Opening, Running
<1>4. CASE \/ Login \/ NoModule \/ Landing \/ FilterRead \/ ResetDone \/ April \/ PageRead \/ PagesEnd
           \/ ParseRows \/ AnexosDone \/ ClickRow \/ ScenarioRead \/ Write
  BY <1>0, <1>4 DEF Login, NoModule, Landing, FilterRead, ResetDone, April, PageRead, PagesEnd,
     ParseRows, AnexosDone, ClickRow, ScenarioRead, Write, Quiet, Running, bandeja
<1>5. CASE ClickAnexos
  BY <1>0, <1>5 DEF ClickAnexos, Quiet, Running
<1>6. CASE BeginScenario
  BY <1>0, <1>6 DEF BeginScenario, Quiet, Running, Goes
<1>7. CASE \/ EnterModule \/ Filter \/ TurnPage \/ PagesDone \/ RunScenario
           \/ ControlMissing \/ ButtonMissing
  BY <1>7 DEF EnterModule, Filter, TurnPage, PagesDone, RunScenario, ControlMissing, ButtonMissing, Goes
<1>8. CASE Crash \/ UNCHANGED vars
  BY <1>0, <1>8 DEF Crash, Quiet, vars, bandeja
<1> QED
  BY <1>1, <1>2, <1>3, <1>4, <1>5, <1>6, <1>7, <1>8 DEF Next, Proceeds

\* A click in calm hits the row that was parsed.
LEMMA CalmHit ==
  ASSUME calm, OnRows, RowsThere, dialog = None, NEW k \in DOMAIN rows
  PROVE  Hit(rows[k].place) = rows[k].of
  BY DEF RowsThere, There, Hit

LEMMA OpeningStep ==
  ASSUME TypeInv, Quiet, RowsThere, Opening, [Next]_vars
  PROVE  Opening'
<1> SUFFICES ASSUME calm', phase' = "opening"
             PROVE  \/ dialog' = None /\ asked' = <<Anexos(Head(rows').of)>>
                    \/ dialog' = Head(rows').of /\ asked' = <<>>
  BY DEF Opening, Anexos
<1>0. calm
  BY Moves
<1>1. CASE ClickAnexos
  <2>1. /\ phase = "rows" /\ rows # <<>> /\ Hit(Head(rows).place) # None
        /\ Sends(Anexos(Hit(Head(rows).place))) /\ UNCHANGED <<rows, dialog>>
    BY <1>1 DEF ClickAnexos, Running
  <2>2. asked = <<>>
    BY <1>0, <2>1 DEF Quiet
  <2>3. dialog = None
    BY <2>1 DEF Hit
  <2>4. Hit(Head(rows).place) = Head(rows).of
    <3>1. 1 \in DOMAIN rows /\ Head(rows) = rows[1]
      BY <2>1, HeadRow
    <3> QED
      BY <1>0, <2>1, <2>3, <3>1, CalmHit DEF OnRows
  <2>5. asked' = <<Anexos(Head(rows).of)>>
    BY <2>1, <2>2, <2>4 DEF Sends
  <2> QED
    BY <2>1, <2>3, <2>5
<1>2. CASE PortalAnswers
  <2>1. phase = "opening" /\ UNCHANGED rows /\ asked # <<>> /\ asked' = Tail(asked)
    BY <1>2 DEF PortalAnswers, Answer
  <2>2. asked = <<Anexos(Head(rows).of)>>
    BY <1>0, <2>1 DEF Opening
  <2>3. Head(asked) = Anexos(Head(rows).of) /\ asked' = <<>>
    BY <2>1, <2>2
  <2>4. Head(asked).to = "dialog" /\ Head(asked).of = Head(rows).of
    BY <2>3 DEF Anexos
  <2>5. dialog' = Head(rows).of
    BY <1>2, <2>4 DEF PortalAnswers, Answer
  <2> QED
    BY <2>1, <2>3, <2>5
<1>3. CASE ~ ClickAnexos /\ ~ PortalAnswers
  <2>1. phase = "opening" /\ UNCHANGED <<rows, dialog, asked>>
    BY <1>3 DEF Next, Proceeds, Login, EnterModule, Landing, Filter, Waited, FilterRead, ResetDone,
         April, TurnPage, PageRead, PagesDone, PagesEnd, ParseRows, ReadAnexos,
         AnexosDone, ClickRow, BeginScenario, RunScenario, ScenarioRead, Write,
         NoModule, ControlMissing, ButtonMissing, NoAnexos, StepFails, Crash, vars, bandeja,
         NextStep, Goes, Running, After, step
  <2> QED
    BY <1>0, <2>1 DEF Opening
<1> QED
  BY <1>1, <1>2, <1>3

\* The rows a step is on are those of the step before, unless it parses them.
LEMMA OnRowsMove ==
  ASSUME TypeInv, [Next]_vars, OnRows'
  PROVE  ParseRows \/ OnRows
<1>1. CASE \/ Login \/ Landing \/ FilterRead \/ ResetDone \/ April \/ PagesEnd
           \/ ClickRow \/ ScenarioRead
  <2>1. Step \in {"login", "module", "pages", "row"} \cup Filters \cup Scenarios /\ NextStep
        /\ UNCHANGED script
    BY <1>1 DEF Login, Landing, FilterRead, ResetDone, April, PagesEnd, ClickRow, ScenarioRead,
       Running, Filters
  <2>2. Step # "write" /\ Step # "anexos"
    BY <2>1 DEF Filters, Scenarios
  <2>3. Step' # "row" /\ phase' = "begin"
    BY <2>1, <2>2, StepAfter DEF NextStep, Step, TypeInv, Basics, Kinds
  <2> QED
    BY <2>3 DEF OnRows
<1>2. CASE NoModule
  <2>1. Step' = "write" /\ phase' = "begin"
    BY <1>2, LastStep DEF NoModule, Running, Step, TypeInv, Kinds, step
  <2> QED
    BY <2>1 DEF OnRows
<1>3. CASE StepFails
  <2>1. Step \in Filters \cup {"pages"} /\ phase' = "begin" /\ UNCHANGED script
        /\ at' = at + (IF Step = "april" THEN 2 ELSE 1)
    BY <1>3 DEF StepFails, Tolerant
  <2>2. Step # "write" /\ Step # "anexos"
    BY <2>1 DEF Filters
  <2>3. Step' # "row"
    BY <2>1, <2>2, StepAfter DEF Step, TypeInv, Basics, Kinds
  <2> QED
    BY <2>1, <2>3 DEF OnRows
<1>4. CASE \/ EnterModule \/ Filter \/ Waited \/ TurnPage \/ PageRead \/ PagesDone
           \/ BeginScenario \/ RunScenario \/ ControlMissing \/ ButtonMissing
  <2>1. UNCHANGED <<script, at>> /\ phase' \notin {"rows", "opening"}
    BY <1>4 DEF EnterModule, Filter, Waited, TurnPage, PageRead, PagesDone, BeginScenario,
       RunScenario, ControlMissing, ButtonMissing, Goes, After
  <2> QED
    BY <2>1, StepSame DEF OnRows
<1>5. CASE ClickAnexos \/ ReadAnexos \/ NoAnexos \/ AnexosDone
  BY <1>5 DEF ClickAnexos, ReadAnexos, NoAnexos, AnexosDone, Running, OnRows
<1>6. CASE Write \/ Crash \/ PortalAnswers \/ UNCHANGED vars
  <2>1. UNCHANGED <<script, at, phase>>
    BY <1>6 DEF Write, Crash, PortalAnswers, vars
  <2> QED
    BY <2>1, StepSame DEF OnRows
<1> QED
  BY <1>1, <1>2, <1>3, <1>4, <1>5, <1>6 DEF Next, Proceeds

\* In calm no answer changes the table under the rows.
LEMMA TableStays ==
  ASSUME TypeInv, Quiet, Opening, [Next]_vars, calm, OnRows
  PROVE  UNCHANGED shown
<1>1. CASE PortalAnswers
  <2>1. asked # <<>>
    BY <1>1 DEF PortalAnswers, Answer
  <2>2. phase # "rows" /\ phase # "begin"
    BY <2>1 DEF Quiet
  <2>3. phase = "opening"
    BY <2>2 DEF OnRows, TypeInv, Placed
  <2>4. Head(asked).to = "dialog"
    BY <2>1, <2>3 DEF Opening, Anexos
  <2> QED
    BY <1>1, <2>4 DEF PortalAnswers, Answer
<1>2. CASE ~ PortalAnswers
  BY <1>2 DEF Next, Proceeds, Login, EnterModule, Landing, Filter, Submits, Waited, FilterRead, ResetDone,
         April, TurnPage, PageRead, PagesDone, PagesEnd, ParseRows, ClickAnexos, ReadAnexos,
         AnexosDone, ClickRow, BeginScenario, RunScenario, ScenarioRead, Write,
         NoModule, ControlMissing, ButtonMissing, NoAnexos, StepFails, Crash, vars, bandeja
<1> QED
  BY <1>1, <1>2

LEMMA RowsThereStep ==
  ASSUME TypeInv, Quiet, RowsThere, Opening, [Next]_vars
  PROVE  RowsThere'
<1> SUFFICES ASSUME calm', OnRows'
             PROVE  /\ \A k \in DOMAIN rows' :
                         rows'[k].place \in DOMAIN Table' /\ Table'[rows'[k].place] = rows'[k].of
                    /\ first' # None =>
                         first'.place \in DOMAIN Table' /\ Table'[first'.place] = first'.of
  BY DEF RowsThere, There
<1>0. calm
  BY Moves
<1>1. CASE ParseRows
  <2>1. Table' = Table
    BY <1>1 DEF ParseRows, bandeja, Table
  <2>2. \A k \in DOMAIN ReadRows :
          /\ ReadRows[k].place \in DOMAIN Table
          /\ ReadRows[k].of = Table[ReadRows[k].place]
    BY ReadRowsTyped DEF TypeInv, Kinds
  <2>3. /\ \A k \in DOMAIN rows' : k \in DOMAIN ReadRows /\ rows'[k] = ReadRows[k]
        /\ first' = None \/ (1 \in DOMAIN ReadRows /\ first' = ReadRows[1])
    BY <1>1, ParsedRows DEF TypeInv
  <2> QED
    BY <2>1, <2>2, <2>3
<1>2. CASE ~ ParseRows
  <2>1. OnRows
    BY <1>2, OnRowsMove
  <2>2. Table' = Table
    BY <1>0, <2>1, TableStays DEF Table
  <2>3. /\ \A k \in DOMAIN rows : rows[k].place \in DOMAIN Table /\ Table[rows[k].place] = rows[k].of
        /\ first # None => first.place \in DOMAIN Table /\ Table[first.place] = first.of
    BY <1>0, <2>1 DEF RowsThere, There
  <2>4. CASE UNCHANGED <<first, rows>>
    BY <2>2, <2>3, <2>4
  <2>5. CASE UNCHANGED first /\ rows # <<>> /\ rows' = Tail(rows)
    <3>1. \A k \in DOMAIN rows' : k + 1 \in DOMAIN rows /\ rows'[k] = rows[k + 1]
      BY <2>5, TailRows
    <3> QED
      BY <2>2, <2>3, <2>5, <3>1
  <2> QED
    BY <1>2, <2>4, <2>5, RowsMove
<1> QED
  BY <1>1, <1>2

\* What a step opens.
LEMMA OnlyReadStep ==
  ASSUME TypeInv, RowsInv, OnlyReadOpened, [Next]_vars
  PROVE  OnlyReadOpened'
<1>0. calm' => calm
  BY Moves
<1>1. keyed' = keyed
  BY Moves
<1>2. \A o \in opened : o.of \in Unread => ~ calm' /\ (o.by = "row" => ~ keyed')
  BY <1>0, <1>1 DEF OnlyReadOpened
<1>3. CASE UNCHANGED opened
  BY <1>2, <1>3 DEF OnlyReadOpened
<1>4. CASE ClickAnexos /\ opened' # opened
  <2> DEFINE target == Hit(Head(rows).place)
  <2>1. phase = "rows" /\ rows # <<>>
    BY <1>4 DEF ClickAnexos, Running
  <2>2. target # None /\ opened' = opened \cup {[by |-> "anexos", of |-> target]}
    BY <1>4 DEF ClickAnexos
  <2>3. ASSUME calm
        PROVE  target \notin Unread
    <3>1. dialog = None
      BY <2>2 DEF Hit
    <3>2. 1 \in DOMAIN rows /\ Head(rows) = rows[1]
      BY <2>1, HeadRow
    <3>3. target = rows[1].of
      BY <2>1, <2>3, <3>1, <3>2, CalmHit DEF RowsInv, OnRows
    <3> QED
      BY <3>2, <3>3 DEF RowsInv, ReadBefore
  <2> HIDE DEF target
  <2> QED
    BY <1>0, <1>2, <2>2, <2>3 DEF OnlyReadOpened
<1>5. CASE ClickRow /\ opened' # opened
  <2>1. Step = "row" /\ first # None
        /\ opened' = opened \cup ({[by |-> "row", of |-> RowTarget]} \ {[by |-> "row", of |-> None]})
    BY <1>5 DEF ClickRow, Running
  <2>2. RowTarget # None
    BY <1>5, <2>1
  <2>3. first.of \notin Unread
    BY <2>1 DEF RowsInv, ReadBefore
  <2>4. keyed => RowTarget \notin Unread
    BY <2>2, <2>3 DEF RowTarget
  <2>5. ASSUME calm, ~ keyed
        PROVE  RowTarget \notin Unread
    <3>1. There(first)
      BY <2>1, <2>5 DEF RowsInv, RowsThere, OnRows
    <3>2. RowTarget = first.of
      BY <2>2, <2>5, <3>1 DEF RowTarget, Hit, There
    <3> QED
      BY <2>3, <3>2
  <2>6. \A o \in opened' : o \in opened \/ (o.of = RowTarget /\ o.by = "row")
    BY <2>1
  <2>7. RowTarget \in Unread => ~ calm' /\ ~ keyed'
    BY <1>0, <1>1, <2>4, <2>5
  <2> QED
    BY <1>2, <2>6, <2>7 DEF OnlyReadOpened
<1>6. UNCHANGED opened \/ ClickAnexos \/ ClickRow
  BY DEF Next, Proceeds, Login, EnterModule, Landing, Filter, Waited, FilterRead, ResetDone,
         April, TurnPage, PageRead, PagesDone, PagesEnd, ParseRows, ReadAnexos,
         AnexosDone, BeginScenario, RunScenario, ScenarioRead, Write, PortalAnswers,
         NoModule, ControlMissing, ButtonMissing, NoAnexos, StepFails, Crash, vars
<1> QED
  BY <1>3, <1>4, <1>5, <1>6

LEMMA RowsAlways == Spec => []RowsInv
<1>1. Init => RowsInv
  <2> SUFFICES ASSUME Init
               PROVE  RowsInv
    OBVIOUS
  <2>1. Step = "login"
    BY ScriptSteps DEF Init, Step
  <2> QED
    BY <2>1 DEF Init, PageInit, RowsInv, ReadBefore, Quiet, RowsThere, Opening, OnRows
<1>2. TypeInv /\ RowsInv /\ [Next]_vars => RowsInv'
  BY ReadBeforeStep, QuietStep, RowsThereStep, OpeningStep DEF RowsInv
<1> QED
  BY <1>1, <1>2, Typed, PTL DEF Spec

\* Only notifications that had been read are opened, as long as the portal answers
\* within the waits; a row that is clicked by its key had been read in any case.
THEOREM OnlyReadAlways == Spec => []OnlyReadOpened
<1>1. Init => OnlyReadOpened
  BY DEF Init, OnlyReadOpened
<1>2. TypeInv /\ RowsInv /\ OnlyReadOpened /\ [Next]_vars => OnlyReadOpened'
  BY OnlyReadStep
<1> QED
  BY <1>1, <1>2, Typed, RowsAlways, PTL DEF Spec


-----------------------------------------------------------------------------
(* The findings are true.                                                  *)

OwnAnexos == calm /\ Step = "anexos" => \A i \in DOMAIN log : log[i].of \in {log[i].row, None}

\* The table shows a search, or the portal refused one.
Answered(view) == shown = view \/ (growl /\ view.form \in Refusable)

\* It does, or it will with the next answer.
Awaits(view) ==
  \/ asked = <<[to |-> "table", view |-> view]>>
  \/ asked = <<>> /\ Answered(view)

Untouched == Step \in {"login", "module"} \/ (Step = "april" /\ phase = "begin") => form = Cleared

\* A step that searches has filled in its own inputs, and the answer it waits for,
\* or reads, is that search's.
Searches ==
  calm =>
    /\ Step \in {"B", "C", "D"} /\ phase # "begin" => form.dates = DatesOf(Step)
    /\ Step \in Filters \cup Scenarios /\ phase \in {"wait", "read"} =>
         /\ \A f \in DOMAIN Change(Step) : form[f] = Change(Step)[f]
         /\ phase = "wait" => Awaits([form |-> form, page |-> 1])
         /\ phase = "read" => Answered([form |-> form, page |-> 1])

AprilForm == [Cleared EXCEPT !.dates = "april"]

Turned(p) == [form |-> AprilForm, page |-> p]

AprilFilled == calm /\ Step = "april" /\ phase # "begin" => form = AprilForm

\* The paginator logs the pages of April, and turns to the next of them.
Pages ==
  calm /\ Step = "pages" =>
    /\ log # <<>> /\ \A k \in DOMAIN log : log[k] = Turned(k)
    /\ phase = "begin" => shown = Turned(Len(log))
    /\ phase = "wait" => Awaits(Turned(Len(log) + 1))
    /\ phase = "read" => shown = Turned(Len(log) + 1)

LEMMA WithGives ==
  ASSUME form \in Forms, NEW values
  PROVE  /\ DOMAIN form = {"dates", "estado", "expediente"}
         /\ \A f \in DOMAIN form :
              With(values)[f] = IF f \in DOMAIN values THEN values[f] ELSE form[f]
  BY DEF With, Forms

LEMMA ChangeDomain ==
  ASSUME NEW s \in Filters \cup Scenarios
  PROVE  DOMAIN Change(s) \subseteq {"dates", "estado", "expediente"}
<1>1. CASE s \in {"april", "limit", "reset"}
  BY <1>1, ChangeDates
<1>2. CASE s \in {"leidos", "no_leidos"}
  BY <1>2, ChangeEstado
<1>3. CASE s \in Scenarios
  BY <1>3, ChangeScenario
<1> QED
  BY <1>1, <1>2, <1>3 DEF Filters

\* Where a step comes from.
LEMMA Comes ==
  ASSUME TypeInv, [Next]_vars
  PROVE  \/ UNCHANGED at /\ Step' = Step
         \/ /\ NextStep
            /\ Step' # "login"
            /\ Step' = "module" => Login
            /\ Step' = "april" => Landing
            /\ Step' = "pages" => April
         \/ (NoModule \/ StepFails) /\ Step' \notin {"login", "module", "april", "pages"}
<1>1. CASE \/ Login \/ Landing \/ FilterRead \/ ResetDone \/ April \/ PagesEnd
           \/ AnexosDone \/ ClickRow \/ ScenarioRead
  <2>1. NextStep /\ UNCHANGED script /\ Step # "write"
    BY <1>1 DEF Login, Landing, FilterRead, ResetDone, April, PagesEnd, AnexosDone, ClickRow,
       ScenarioRead, Running, Filters, Scenarios
  <2>2. /\ Step' # "login"
        /\ Step' = "module" => Step = "login"
        /\ Step' = "april" => Step = "module"
        /\ Step' = "pages" => Step = "april"
    BY <2>1, StepAfter, StepKinds DEF NextStep, Step, TypeInv, Basics, Kinds, Filters, Scenarios
  <2>3. /\ Step = "login" => Login
        /\ Step = "module" => Landing
        /\ Step = "april" => April
    BY <1>1 DEF Login, Landing, FilterRead, ResetDone, April, PagesEnd, AnexosDone, ClickRow,
       ScenarioRead, Running, Filters, Scenarios
  <2> QED
    BY <2>1, <2>2, <2>3
<1>2. CASE NoModule
  <2>1. Step' = "write"
    BY <1>2, LastStep DEF NoModule, Running, Step, TypeInv, Kinds, step
  <2> QED
    BY <1>2, <2>1
<1>3. CASE StepFails
  <2>1. Step \in Filters \cup {"pages"} /\ UNCHANGED script
        /\ at' = at + (IF Step = "april" THEN 2 ELSE 1)
    BY <1>3 DEF StepFails, Tolerant
  <2>2. Step # "write"
    BY <2>1 DEF Filters
  <2>3. Step' \notin {"login", "module", "april", "pages"}
    BY <2>1, <2>2, StepAfter DEF Step, TypeInv, Basics, Kinds, Filters
  <2> QED
    BY <1>3, <2>3
<1>4. CASE ~ (\/ Login \/ Landing \/ FilterRead \/ ResetDone \/ April \/ PagesEnd
              \/ AnexosDone \/ ClickRow \/ ScenarioRead \/ NoModule \/ StepFails)
  <2>1. UNCHANGED <<script, at>>
    BY <1>4 DEF Next, Proceeds, EnterModule, Filter, Waited, TurnPage, PageRead, PagesDone, ParseRows,
       ClickAnexos, ReadAnexos, BeginScenario, RunScenario, Write, PortalAnswers,
       ControlMissing, ButtonMissing, NoAnexos, Crash, vars, Goes
  <2> QED
    BY <2>1, StepSame
<1> QED
  BY <1>1, <1>2, <1>3, <1>4

\* The steps that fill in the form.
LEMMA FormMoves ==
  ASSUME [Next]_vars
  PROVE  UNCHANGED form \/ Filter \/ ControlMissing \/ BeginScenario \/ RunScenario \/ ButtonMissing
  BY DEF Next, Proceeds, Login, EnterModule, Landing, Waited, FilterRead, ResetDone,
     April, TurnPage, PageRead, PagesDone, PagesEnd, ParseRows, ClickAnexos, ReadAnexos,
     AnexosDone, ClickRow, ScenarioRead, Write, PortalAnswers, Answer,
     NoModule, NoAnexos, StepFails, Crash, vars, bandeja

LEMMA UntouchedStep ==
  ASSUME TypeInv, Untouched, [Next]_vars
  PROVE  Untouched'
<1> SUFFICES ASSUME Step' \in {"login", "module"} \/ (Step' = "april" /\ phase' = "begin")
             PROVE  form' = Cleared
  BY DEF Untouched, Cleared
<1>1. CASE UNCHANGED at /\ Step' = Step
  <2>1. Step \notin Scenarios
    BY <1>1 DEF Scenarios
  <2>2. ~ BeginScenario /\ ~ RunScenario /\ ~ ButtonMissing
    BY <2>1 DEF BeginScenario, RunScenario, ButtonMissing, Running
  <2>3. ~ Filter /\ ~ ControlMissing
    BY <1>1 DEF Filter, ControlMissing, Running, Goes, Filters
  <2>4. UNCHANGED form
    BY <2>2, <2>3, FormMoves
  <2>5. ASSUME phase' = "begin", Step = "april"
        PROVE  phase = "begin"
    <3>1. at \in Int
      BY ScriptSteps DEF TypeInv, Basics, Kinds
    <3>2. ~ StepFails /\ ~ NoModule
      BY <1>1, <2>5, <3>1 DEF StepFails, NoModule, Running
    <3>3. ~ NextStep
      BY <1>1, <3>1 DEF NextStep
    <3> QED
      BY <2>5, <3>2, <3>3 DEF Next, Proceeds, Login, EnterModule, Landing, Filter, Waited, FilterRead,
       ResetDone, April, TurnPage, PageRead, PagesDone, PagesEnd, ParseRows, ClickAnexos, ReadAnexos,
       AnexosDone, ClickRow, BeginScenario, RunScenario, ScenarioRead, Write, PortalAnswers,
       ControlMissing, ButtonMissing, NoAnexos, Crash, vars, Goes, Running, After
  <2> QED
    BY <1>1, <2>4, <2>5 DEF Untouched
<1>2. CASE Login \/ Landing
  BY <1>2 DEF Login, Landing, Running, bandeja, Untouched
<1> QED
  BY <1>1, <1>2, Comes

\* A step is waiting or reading because it has searched, because an answer came, or
\* because all of them had come.
LEMMA SearchMoves ==
  ASSUME TypeInv, [Next]_vars, calm', Step' \in Filters \cup Scenarios, phase' \in {"wait", "read"}
  PROVE  /\ Step' = Step
         /\ \/ Filter \/ RunScenario \/ (PortalAnswers /\ UNCHANGED <<phase, form>>)
            \/ UNCHANGED bandeja /\ (UNCHANGED phase \/ (phase = "wait" /\ asked = <<>>))
<1>1. Step' = Step
  BY Moves
<1>2. Step \notin {"module", "pages"}
  BY <1>1 DEF Filters, Scenarios
<1> QED
  BY <1>1, <1>2 DEF Next, Proceeds, Login, EnterModule, Landing, Waited, FilterRead, ResetDone,
     April, TurnPage, PageRead, PagesDone, PagesEnd, ParseRows, ClickAnexos, ReadAnexos,
     AnexosDone, ClickRow, BeginScenario, ScenarioRead, Write, PortalAnswers, Answer,
     NoModule, ControlMissing, ButtonMissing, NoAnexos, StepFails, Crash, vars,
     NextStep, Goes, Running, After, bandeja

LEMMA DatesStep ==
  ASSUME TypeInv, Searches, [Next]_vars, calm', Step' \in {"B", "C", "D"}, phase' # "begin"
  PROVE  form'.dates = DatesOf(Step)
<1>1. calm /\ Step' = Step /\ Step \in Scenarios
  BY Moves DEF Scenarios
<1>2. form \in Forms
  BY DEF TypeInv, Kinds
<1>3. CASE BeginScenario
  <2> DEFINE v == [expediente |-> "", dates |-> DatesOf(Step)]
  <2>1. form' = With(v)
    BY <1>1, <1>3 DEF BeginScenario
  <2>2. "dates" \in DOMAIN v /\ v["dates"] = DatesOf(Step)
    OBVIOUS
  <2> HIDE DEF v
  <2> QED
    BY <1>2, <2>1, <2>2, WithGives
<1>4. CASE RunScenario \/ ButtonMissing
  <2> DEFINE v == [expediente |-> Change(Step).expediente]
  <2>1. form' = With(v) /\ phase = "search"
    BY <1>4 DEF RunScenario, ButtonMissing, Submits, Running
  <2>2. "dates" \notin DOMAIN v
    OBVIOUS
  <2> HIDE DEF v
  <2>3. form'.dates = form.dates
    BY <1>2, <2>1, <2>2, WithGives
  <2> QED
    BY <1>1, <2>1, <2>3 DEF Searches
<1>5. CASE ~ BeginScenario /\ ~ RunScenario /\ ~ ButtonMissing
  <2>1. UNCHANGED form
    BY <1>1, <1>5, FormMoves DEF Filter, ControlMissing, Running, Filters, Scenarios
  <2>2. phase # "begin"
    BY <1>1, <1>5 DEF Next, Proceeds, Login, EnterModule, Landing, Filter, Waited, FilterRead, ResetDone,
       April, TurnPage, PageRead, PagesDone, PagesEnd, ParseRows, ClickAnexos, ReadAnexos,
       AnexosDone, ClickRow, ScenarioRead, Write, PortalAnswers,
       NoModule, ControlMissing, NoAnexos, StepFails, Crash, vars,
       NextStep, Goes, Running, Filters, Scenarios
  <2> QED
    BY <1>1, <2>1, <2>2 DEF Searches
<1> QED
  BY <1>3, <1>4, <1>5

\* An answer in calm is the one that is awaited.
LEMMA AwaitedAnswer ==
  ASSUME TypeInv, PortalAnswers, NEW view, Awaits(view)
  PROVE  asked' = <<>> /\ (shown' = view \/ (growl' /\ view.form \in Refusable))
<1> DEFINE r == [to |-> "table", view |-> view]
<1>1. asked # <<>>
  BY DEF PortalAnswers, Answer
<1>2. asked = <<r>>
  BY <1>1 DEF Awaits
<1>3. r.to = "table" /\ r.view = view
  OBVIOUS
<1> HIDE DEF r
<1>4. Head(asked) = r /\ Tail(asked) = <<>>
  BY <1>2
<1> QED
  BY <1>3, <1>4 DEF PortalAnswers, Answer

LEMMA SearchesStep ==
  ASSUME TypeInv, Quiet, Searches, [Next]_vars
  PROVE  Searches'
<1>1. ASSUME calm', Step' \in {"B", "C", "D"}, phase' # "begin"
      PROVE  form'.dates = DatesOf(Step')
  <2>1. Step' = Step
    BY <1>1, Moves
  <2> QED
    BY <1>1, <2>1, DatesStep
<1>2. ASSUME calm', Step' \in Filters \cup Scenarios, phase' \in {"wait", "read"}
      PROVE  /\ \A f \in DOMAIN Change(Step') : form'[f] = Change(Step')[f]
             /\ phase' = "wait" => Awaits([form |-> form, page |-> 1])'
             /\ phase' = "read" => Answered([form |-> form, page |-> 1])'
  <2>0. calm /\ Step' = Step /\ Step \in Filters \cup Scenarios
    BY <1>2, Moves
  <2>1. form \in Forms /\ DOMAIN Change(Step) \subseteq {"dates", "estado", "expediente"}
    BY <2>0, ChangeDomain DEF TypeInv, Kinds
  <2>2. CASE Filter
    <3>1. /\ phase' = "wait" /\ phase = "begin"
          /\ form' = With(Change(Step)) /\ asked' = Append(asked, Search(form'))
      BY <2>2 DEF Filter, Running, Goes, Submits, Sends
    <3>2. asked = <<>>
      BY <2>0, <3>1 DEF Quiet
    <3>3. asked' = <<[to |-> "table", view |-> [form |-> form', page |-> 1]]>>
      BY <3>1, <3>2 DEF Search
    <3>4. \A f \in DOMAIN Change(Step) : form'[f] = Change(Step)[f]
      BY <2>1, <3>1, WithGives
    <3> QED
      BY <2>0, <3>1, <3>3, <3>4 DEF Awaits
  <2>3. CASE RunScenario
    <3> DEFINE v == [expediente |-> Change(Step).expediente]
    <3>1. /\ phase' = "wait" /\ phase = "search" /\ Step \in Scenarios
          /\ form' = With(v) /\ asked' = Append(asked, Search(form'))
      BY <2>3 DEF RunScenario, Running, Goes, Submits, Sends
    <3>2. asked = <<>>
      BY <2>0, <3>1 DEF Quiet
    <3>3. asked' = <<[to |-> "table", view |-> [form |-> form', page |-> 1]]>>
      BY <3>1, <3>2 DEF Search
    <3>4. DOMAIN v = {"expediente"} /\ v["expediente"] = Change(Step)["expediente"]
      BY <3>1, ChangeScenario
    <3> HIDE DEF v
    <3>5. form'["expediente"] = Change(Step)["expediente"] /\ form'["dates"] = form["dates"]
      BY <2>1, <3>1, <3>4, WithGives
    <3>6. /\ DOMAIN Change(Step) \subseteq {"expediente", "dates"}
          /\ "dates" \in DOMAIN Change(Step) => form["dates"] = Change(Step)["dates"]
      <4>1. CASE Step = "A"
        BY <3>1, <4>1, ChangeScenario
      <4>2. CASE Step # "A"
        <5>1. Step \in {"B", "C", "D"}
          BY <3>1, <4>2 DEF Scenarios
        <5>2. form["dates"] = DatesOf(Step)
          BY <2>0, <3>1, <5>1 DEF Searches
        <5> QED
          BY <3>1, <4>2, <5>2, ChangeScenario
      <4> QED
        BY <4>1, <4>2
    <3>7. \A f \in DOMAIN Change(Step) : form'[f] = Change(Step)[f]
      BY <3>5, <3>6
    <3> QED
      BY <2>0, <3>1, <3>3, <3>7 DEF Awaits
  <2>4. CASE PortalAnswers /\ UNCHANGED <<phase, form>>
    <3>1. asked # <<>>
      BY <2>4 DEF PortalAnswers, Answer
    <3>2. phase = "wait" /\ phase' = "wait"
      BY <1>2, <2>0, <2>4, <3>1 DEF Quiet
    <3>3. /\ \A f \in DOMAIN Change(Step) : form[f] = Change(Step)[f]
          /\ Awaits([form |-> form, page |-> 1])
      BY <2>0, <3>2 DEF Searches
    <3> DEFINE view == [form |-> form, page |-> 1]
    <3>4. asked' = <<>> /\ (shown' = view \/ (growl' /\ view.form \in Refusable))
      <4> HIDE DEF view
      <4> QED
        BY <2>4, <3>3, AwaitedAnswer DEF view
    <3>5. view = [form |-> form', page |-> 1]
      BY <2>4
    <3> QED
      BY <2>0, <2>4, <3>2, <3>3, <3>4, <3>5 DEF Awaits, Answered
  <2>5. CASE UNCHANGED bandeja /\ (UNCHANGED phase \/ (phase = "wait" /\ asked = <<>>))
    <3>1. phase \in {"wait", "read"} /\ UNCHANGED <<form, asked, shown, growl>>
      BY <1>2, <2>5 DEF bandeja
    <3>2. /\ \A f \in DOMAIN Change(Step) : form[f] = Change(Step)[f]
          /\ phase = "wait" => Awaits([form |-> form, page |-> 1])
          /\ phase = "read" => Answered([form |-> form, page |-> 1])
      BY <2>0, <3>1 DEF Searches
    <3>3. CASE UNCHANGED phase
      BY <2>0, <3>1, <3>2, <3>3 DEF Awaits, Answered
    <3>4. CASE phase = "wait" /\ asked = <<>> /\ phase' # phase
      <4>1. phase' = "read" /\ Answered([form |-> form, page |-> 1])
        BY <1>2, <3>2, <3>4 DEF Awaits
      <4> QED
        BY <2>0, <3>1, <3>2, <4>1 DEF Answered
    <3> QED
      BY <2>5, <3>3, <3>4
  <2> QED
    BY <1>2, <2>2, <2>3, <2>4, <2>5, SearchMoves
<1> QED
  BY <1>1, <1>2 DEF Searches

LEMMA AprilFilledStep ==
  ASSUME TypeInv, Untouched, AprilFilled, [Next]_vars
  PROVE  AprilFilled'
<1> SUFFICES ASSUME calm', Step' = "april", phase' # "begin"
             PROVE  form' = AprilForm
  BY DEF AprilFilled, AprilForm, Cleared
<1>1. calm /\ Step = "april"
  BY Moves
<1>2. CASE Filter
  <2>1. form' = With(Change("april")) /\ form = Cleared
    BY <1>1, <1>2 DEF Filter, Running, Submits, Untouched
  <2>2. DOMAIN Change("april") = {"dates"} /\ Change("april")["dates"] = "april"
    BY ChangeDates
  <2>3. With(Change("april")) = [f \in DOMAIN form |-> IF f = "dates" THEN "april" ELSE form[f]]
    BY <2>2 DEF With
  <2> QED
    BY <2>1, <2>3 DEF Cleared, AprilForm
<1>3. CASE ~ Filter
  <2>1. UNCHANGED form
    BY <1>1, <1>3, FormMoves DEF ControlMissing, BeginScenario, RunScenario, ButtonMissing, Running, Scenarios
  <2>2. phase # "begin"
    BY <1>1, <1>3 DEF Next, Proceeds, Login, EnterModule, Landing, Waited, FilterRead, ResetDone,
       April, TurnPage, PageRead, PagesDone, PagesEnd, ParseRows, ClickAnexos, ReadAnexos,
       AnexosDone, ClickRow, BeginScenario, RunScenario, ScenarioRead, Write, PortalAnswers,
       NoModule, ControlMissing, ButtonMissing, NoAnexos, StepFails, Crash, vars,
       NextStep, Goes, Running, Filters, Scenarios
  <2> QED
    BY <1>1, <2>1, <2>2 DEF AprilFilled
<1> QED
  BY <1>2, <1>3

\* What the paginator does.
LEMMA PagesMoves ==
  ASSUME TypeInv, [Next]_vars, Step = "pages", Step' = "pages"
  PROVE  TurnPage \/ PageRead \/ PagesDone \/ Waited \/ PortalAnswers \/ UNCHANGED vars
<1>1. at \in Int
  BY ScriptSteps DEF TypeInv, Basics, Kinds
<1>2. ~ April
  BY DEF April, Running
<1>3. UNCHANGED at
  BY <1>2, Comes
<1>4. ~ NextStep
  BY <1>1, <1>3 DEF NextStep
<1>5. ~ StepFails
  BY <1>1, <1>3 DEF StepFails
<1> QED
  BY <1>2, <1>4, <1>5 DEF Next, Proceeds, Login, EnterModule, Landing, Filter, FilterRead, ResetDone,
     PagesEnd, ParseRows, ClickAnexos, ReadAnexos,
     AnexosDone, ClickRow, BeginScenario, RunScenario, ScenarioRead, Write,
     NoModule, ControlMissing, ButtonMissing, NoAnexos, Crash, Running, Tolerant, Filters, Scenarios

LEMMA PagesStep ==
  ASSUME AprilForm \notin Refusable,
         TypeInv, Quiet, Searches, AprilFilled, Pages, [Next]_vars
  PROVE  Pages'
<1> SUFFICES ASSUME calm', Step' = "pages"
             PROVE  /\ log' # <<>> /\ \A k \in DOMAIN log' : log'[k] = Turned(k)
                    /\ phase' = "begin" => shown' = Turned(Len(log'))
                    /\ phase' = "wait" =>
                         \/ asked' = <<[to |-> "table", view |-> Turned(Len(log') + 1)]>>
                         \/ asked' = <<>> /\ shown' = Turned(Len(log') + 1)
                    /\ phase' = "read" => shown' = Turned(Len(log') + 1)
  BY DEF Pages, Awaits, Answered, Turned, AprilForm, Cleared
<1>0. calm
  BY Moves
<1>1. CASE April
  <2>1. Step = "april" /\ phase = "read" /\ phase' = "begin" /\ log' = <<shown>> /\ UNCHANGED bandeja
    BY <1>1 DEF April, Running, NextStep
  <2>2. form = AprilForm
    BY <1>0, <2>1 DEF AprilFilled
  <2>3. Answered([form |-> AprilForm, page |-> 1])
    BY <1>0, <2>1, <2>2 DEF Searches, Filters
  <2>4. shown = Turned(1)
    BY <2>3 DEF Answered, Turned
  <2>5. shown' = shown /\ Len(log') = 1 /\ DOMAIN log' = {1} /\ log'[1] = shown /\ log' # <<>>
    BY <2>1 DEF bandeja
  <2> QED
    BY <2>1, <2>4, <2>5
<1>2. CASE ~ April
  <2>1. Step = "pages"
    BY <1>2, Comes
  <2>2. /\ log # <<>> /\ \A k \in DOMAIN log : log[k] = Turned(k)
        /\ phase = "begin" => shown = Turned(Len(log))
        /\ phase = "wait" =>
             \/ asked = <<[to |-> "table", view |-> Turned(Len(log) + 1)]>>
             \/ asked = <<>> /\ shown = Turned(Len(log) + 1)
        /\ phase = "read" => shown = Turned(Len(log) + 1)
    BY <1>0, <2>1 DEF Pages, Awaits, Answered, Turned
  <2>3. log \in Seq(Views \cup {None}) /\ Len(log) \in Nat
    BY <2>1, LenProperties DEF TypeInv, Logged
  <2>4. CASE TurnPage
    <3>1. /\ phase = "begin" /\ phase' = "wait" /\ UNCHANGED <<log, shown>>
          /\ asked' = Append(asked, Turn(shown.page + 1))
      BY <2>4 DEF TurnPage, Running, Goes, Sends, step
    <3>2. asked = <<>>
      BY <1>0, <3>1 DEF Quiet
    <3>3. shown.form = AprilForm /\ shown.page = Len(log)
      BY <2>2, <3>1 DEF Turned
    <3>4. Searched = shown.form
      BY <3>2 DEF Searched
    <3>5. asked' = <<[to |-> "table", view |-> Turned(Len(log) + 1)]>>
      BY <3>1, <3>2, <3>3, <3>4 DEF Turn, Turned
    <3> QED
      BY <2>2, <3>1, <3>5
  <2>5. CASE PageRead
    <3>1. phase = "read" /\ phase' = "begin" /\ log' = Append(log, shown) /\ UNCHANGED shown
      BY <2>5 DEF PageRead, Running, Goes, bandeja
    <3>2. shown = Turned(Len(log) + 1)
      BY <2>2, <3>1
    <3>3. /\ shown \in Views \cup {None}
          /\ log' # <<>> /\ Len(log') = Len(log) + 1
          /\ \A k \in 1..Len(log) : log'[k] = log[k]
          /\ log'[Len(log) + 1] = shown
          /\ DOMAIN log' = 1..(Len(log) + 1) /\ DOMAIN log = 1..Len(log)
      <4>1. shown \in Views \cup {None}
        BY DEF TypeInv, Kinds
      <4>2. log' \in Seq(Views \cup {None})
        BY <2>3, <3>1, <4>1, AppendProperties
      <4> QED
        BY <2>3, <3>1, <4>1, <4>2, AppendProperties, LenProperties, EmptySeq
    <3>4. \A k \in DOMAIN log' : log'[k] = Turned(k)
      <4> SUFFICES ASSUME NEW k \in DOMAIN log'
                   PROVE  log'[k] = Turned(k)
        OBVIOUS
      <4>1. CASE k \in 1..Len(log)
        BY <2>2, <3>3, <4>1
      <4>2. CASE k = Len(log) + 1
        BY <3>2, <3>3, <4>2
      <4> QED
        BY <2>3, <3>3, <4>1, <4>2
    <3> QED
      BY <3>1, <3>2, <3>3, <3>4
  <2>6. CASE PagesDone
    <3>1. phase' = "first" /\ UNCHANGED log
      BY <2>6 DEF PagesDone, Goes, step
    <3> QED
      BY <2>2, <3>1
  <2>7. CASE Waited
    <3>1. phase \in {"wait", "first"} /\ UNCHANGED <<log, asked, shown>> /\ asked = <<>>
          /\ phase' = After(phase)
      BY <2>1, <2>7 DEF Waited, Goes, bandeja, step, TypeInv, Placed
    <3>2. phase' \in {"read", "end"} /\ (phase' = "read" => phase = "wait")
      BY <3>1 DEF After
    <3> QED
      BY <2>2, <3>1, <3>2
  <2>8. CASE PortalAnswers
    <3>1. asked # <<>> /\ phase' = phase /\ recording = FALSE
      BY <2>1, <2>8 DEF PortalAnswers, Answer, TypeInv, Kinds, Logged, Scenarios
    <3>2. log' = log
      BY <2>8, <3>1 DEF PortalAnswers, Recorded
    <3>3. phase \notin {"begin", "read"}
      BY <1>0, <3>1 DEF Quiet
    <3>4. CASE phase = "wait"
      <4> DEFINE view == Turned(Len(log) + 1)
      <4>1. Awaits(view)
        BY <2>2, <3>1, <3>4 DEF Awaits
      <4>2. view.form \notin Refusable
        BY DEF Turned
      <4> HIDE DEF view
      <4>3. asked' = <<>> /\ shown' = view
        BY <2>8, <4>1, <4>2, AwaitedAnswer
      <4> QED
        BY <2>2, <3>1, <3>2, <3>4, <4>3 DEF view
    <3> QED
      BY <2>2, <3>1, <3>2, <3>3, <3>4
  <2>9. CASE UNCHANGED vars
    BY <2>2, <2>9 DEF vars, step, bandeja
  <2> QED
    BY <2>1, <2>4, <2>5, <2>6, <2>7, <2>8, <2>9, PagesMoves
<1> QED
  BY <1>1, <1>2

\* What a row is left with, in calm.
LEMMA OwnAnexosStep ==
  ASSUME TypeInv, TypeInv', Opening, OwnAnexos, [Next]_vars
  PROVE  OwnAnexos'
<1> SUFFICES ASSUME calm', Step' = "anexos"
             PROVE  \A i \in DOMAIN log' : log'[i].of \in {log'[i].row, None}
  BY DEF OwnAnexos
<1>0. calm
  BY Moves
<1>1. CASE phase' = "begin" \/ ParseRows
  <2>1. log' = <<>>
    BY <1>1 DEF ParseRows, TypeInv, Logged
  <2> QED
    BY <2>1
<1>2. CASE phase' # "begin" /\ ~ ParseRows
  <2>1. Step = "anexos" /\ UNCHANGED at
    BY <1>2, Moves
  <2>2. log \in Seq(Results) /\ \A i \in DOMAIN log : log[i].of \in {log[i].row, None}
    BY <1>0, <2>1 DEF TypeInv, Logged, OwnAnexos
  <2>3. ASSUME NEW r \in Results, log' = Append(log, r), r.of \in {r.row, None}
        PROVE  \A i \in DOMAIN log' : log'[i].of \in {log'[i].row, None}
    <3>1. /\ Len(log) \in Nat /\ DOMAIN log = 1..Len(log) /\ DOMAIN log' = 1..(Len(log) + 1)
          /\ \A i \in 1..Len(log) : log'[i] = log[i]
          /\ log'[Len(log) + 1] = r
      BY <2>2, <2>3, AppendProperties, LenProperties
    <3> SUFFICES ASSUME NEW i \in DOMAIN log'
                 PROVE  log'[i].of \in {log'[i].row, None}
      OBVIOUS
    <3>2. CASE i \in 1..Len(log)
      BY <2>2, <3>1, <3>2
    <3>3. CASE i = Len(log) + 1
      BY <2>3, <3>1, <3>3
    <3> QED
      BY <3>1, <3>2, <3>3
  <2>4. CASE ReadAnexos
    <3> DEFINE r == [row |-> Head(rows).of, of |-> dialog]
    <3>1. phase = "opening" /\ dialog # None /\ log' = Append(log, r)
      BY <2>4 DEF ReadAnexos, Running, Leaves
    <3>2. rows # <<>>
      BY <2>1, <3>1 DEF TypeInv, Logged
    <3>3. r \in Results
      BY <3>1, <3>2, HeadRow DEF Results, TypeInv, Basics
    <3>4. r.of = r.row
      BY <1>0, <3>1 DEF Opening
    <3> HIDE DEF r
    <3> QED
      BY <2>3, <3>1, <3>3, <3>4
  <2>5. CASE (ClickAnexos \/ NoAnexos) /\ log' # log
    <3> DEFINE r == [row |-> Head(rows).of, of |-> None]
    <3>1. rows # <<>> /\ log' = Append(log, r)
      BY <2>5 DEF ClickAnexos, NoAnexos, Leaves
    <3>2. r \in Results /\ r.of = None
      BY <3>1, HeadRow DEF Results
    <3> HIDE DEF r
    <3> QED
      BY <2>3, <3>1, <3>2
  <2>6. CASE UNCHANGED log
    BY <2>2, <2>6
  <2>7. UNCHANGED log \/ ReadAnexos \/ ClickAnexos \/ NoAnexos
    <3>1. recording = FALSE
      BY <2>1 DEF TypeInv, Kinds, Logged, Scenarios
    <3>2. ~ NextStep
      BY <1>2 DEF NextStep
    <3> QED
      BY <1>2, <2>1, <3>1, <3>2
         DEF Next, Proceeds, Login, EnterModule, Landing, Filter, Waited, FilterRead, ResetDone,
         April, TurnPage, PageRead, PagesDone, PagesEnd,
         AnexosDone, ClickRow, BeginScenario, RunScenario, ScenarioRead, Write, PortalAnswers,
         NoModule, ControlMissing, ButtonMissing, StepFails, Crash, vars,
         Goes, Running, step, Scenarios, Filters, Tolerant, Recorded
  <2> QED
    BY <2>4, <2>5, <2>6, <2>7
<1> QED
  BY <1>1, <1>2

LEMMA FaultsGrow ==
  ASSUME TypeInv, [Next]_vars
  PROVE  faults \in Nat /\ faults' \in Nat /\ faults <= faults'
<1>1. faults' = faults \/ faults' = faults + 1
  BY DEF Next, Proceeds, Login, EnterModule, Landing, Filter, Waited, FilterRead, ResetDone,
     April, TurnPage, PageRead, PagesDone, PagesEnd, ParseRows, ClickAnexos, ReadAnexos,
     AnexosDone, ClickRow, BeginScenario, RunScenario, ScenarioRead, Write, PortalAnswers,
     NoModule, ControlMissing, ButtonMissing, NoAnexos, StepFails, Crash, vars, Fault
<1> QED
  BY <1>1, DiscoveryAssumption DEF TypeInv, Basics

\* The entry of a search that was read in calm.
LEMMA SearchEntry ==
  ASSUME calm, Searches, Step \in Filters \cup Scenarios, phase = "read", NEW seen
  PROVE  SearchesTrue(Entry(seen))
<1>1. /\ \A f \in DOMAIN Change(Step) : form[f] = Change(Step)[f]
      /\ Answered([form |-> form, page |-> 1])
  BY DEF Searches
<1>2. ~ growl => shown = [form |-> form, page |-> 1]
  BY <1>1 DEF Answered
<1>3. ~ growl => shown.page = 1 /\ shown.form = form
  BY <1>2
<1>4. Entry(seen).step = Step /\ Entry(seen).view = shown /\ Entry(seen).growl = growl
  BY DEF Entry
<1> QED
  BY <1>1, <1>3, <1>4 DEF SearchesTrue

\* The entry of the paginator: it stopped because a turn failed, because no page was
\* left or because the limit was reached.
LEMMA PagesEntry ==
  ASSUME TypeInv, Pages, PagesDone, calm'
  PROVE  /\ \A k \in DOMAIN log : log[k] = [form |-> log[1].form, page |-> k]
         /\ faults' = 0 => Len(log) = LastPage \/ ~ HasNext(Last(log))
<1>1. calm /\ Step = "pages"
  BY DEF PagesDone, Running
<1>2. log # <<>> /\ \A k \in DOMAIN log : log[k] = Turned(k)
  BY <1>1 DEF Pages
<1>3. log \in Seq(Views \cup {None}) /\ Len(log) <= LastPage
  BY <1>1, DiscoveryAssumption, LenProperties DEF TypeInv, Logged
<1>4. Len(log) \in Nat \ {0} /\ DOMAIN log = 1..Len(log)
  BY <1>2, <1>3, LenProperties, EmptySeq
<1>5. log[1] = Turned(1)
  BY <1>2, <1>4
<1>6. log[1].form = AprilForm
  BY <1>5 DEF Turned
<1>7. \A k \in DOMAIN log : log[k] = [form |-> log[1].form, page |-> k]
  BY <1>2, <1>6 DEF Turned
<1>8. ASSUME faults' = 0
      PROVE  Len(log) = LastPage \/ ~ HasNext(Last(log))
  <2>1. phase = "begin" /\ ~ CanTurn
    BY <1>8, DiscoveryAssumption DEF PagesDone, Fault, TypeInv, Basics
  <2>2. shown = Turned(Len(log))
    BY <1>1, <2>1 DEF Pages
  <2>3. Last(log) = shown
    BY <1>2, <1>4, <2>2 DEF Last
  <2>4. HasNext(Last(log)) = HasNext(shown)
    BY <2>3
  <2>5. ~ HasNext(Last(log)) \/ ~ (Len(log) < LastPage)
    BY <2>1, <2>4 DEF CanTurn
  <2>6. Len(log) < LastPage \/ Len(log) = LastPage
    <3> DEFINE n == Len(log)
    <3>1. n \in Nat /\ n <= LastPage
      BY <1>3, <1>4
    <3> HIDE DEF n
    <3>2. n < LastPage \/ n = LastPage
      BY <3>1, DiscoveryAssumption
    <3> QED
      BY <3>2 DEF n
  <2> QED
    BY <2>5, <2>6, Zenon
<1> QED
  BY <1>7, <1>8

LEMMA FindingsStep ==
  ASSUME TypeInv, Searches, Pages, OwnAnexos, FindingsTrue, [Next]_vars
  PROVE  FindingsTrue'
<1> SUFFICES ASSUME calm', NEW e \in findings'
             PROVE  /\ SearchesTrue(e) /\ AnexosTrue(e)
                    /\ e.step = "pages" =>
                         /\ \A k \in DOMAIN e.seen : e.seen[k] = [form |-> e.seen[1].form, page |-> k]
                         /\ faults' = 0 => Len(e.seen) = LastPage \/ ~ HasNext(Last(e.seen))
  BY DEF FindingsTrue, SearchesTrue, PagesTrue, AnexosTrue, HasNext, Matches, Lets
<1>0. calm
  BY Moves
<1>1. CASE e \in findings
  <2>1. SearchesTrue(e) /\ PagesTrue(e) /\ AnexosTrue(e)
    BY <1>0, <1>1 DEF FindingsTrue
  <2>2. faults' = 0 => faults = 0
    BY FaultsGrow
  <2> QED
    BY <2>1, <2>2 DEF PagesTrue
<1>2. CASE e \notin findings /\ Finds(<<>>)
           /\ (Login \/ NoModule \/ Landing \/ FilterRead \/ April \/ ClickRow)
  <2>1. e = Entry(<<>>)
    BY <1>2 DEF Finds
  <2>2. e.step = Step
    BY <2>1 DEF Entry
  <2>3. Step \notin {"pages", "anexos"} /\ (Step \in Filters \cup Scenarios => phase = "read")
    BY <1>2 DEF Login, NoModule, Landing, FilterRead, April, ClickRow, Running, Filters, Scenarios
  <2>4. SearchesTrue(e)
    <3>1. CASE Step \in Filters \cup Scenarios
      BY <1>0, <2>1, <2>3, <3>1, SearchEntry
    <3>2. CASE Step \notin Filters \cup Scenarios
      BY <2>2, <3>2 DEF SearchesTrue
    <3> QED
      BY <3>1, <3>2
  <2> QED
    BY <2>2, <2>3, <2>4 DEF AnexosTrue
<1>3. CASE e \notin findings /\ Finds(log) /\ PagesDone
  <2>1. e = Entry(log) /\ Step = "pages"
    BY <1>3 DEF Finds, PagesDone, Running
  <2>2. e.step = "pages" /\ e.seen = log
    BY <2>1 DEF Entry
  <2> QED
    BY <1>3, <2>2, PagesEntry DEF SearchesTrue, AnexosTrue, Filters, Scenarios
<1>4. CASE e \notin findings /\ Finds(log) /\ AnexosDone
  <2>1. e = Entry(log) /\ Step = "anexos"
    BY <1>4 DEF Finds, AnexosDone, Running
  <2>2. e.step = "anexos" /\ e.seen = log
    BY <2>1 DEF Entry
  <2> QED
    BY <1>0, <2>1, <2>2 DEF OwnAnexos, SearchesTrue, AnexosTrue, Filters, Scenarios
<1>5. CASE e \notin findings /\ Finds(log) /\ ScenarioRead
  <2>1. e = Entry(log) /\ Step \in Scenarios /\ phase = "read"
    BY <1>5 DEF Finds, ScenarioRead, Running
  <2>2. e.step = Step
    BY <2>1 DEF Entry
  <2>3. SearchesTrue(e)
    BY <1>0, <2>1, SearchEntry
  <2> QED
    BY <2>1, <2>2, <2>3 DEF AnexosTrue, Scenarios
<1> QED
  BY <1>1, <1>2, <1>3, <1>4, <1>5, Reports

FindingsInv == Untouched /\ Searches /\ AprilFilled /\ Pages /\ OwnAnexos /\ FindingsTrue

\* An entry reports what its own step asked for: whatever fails on the way, and
\* whatever the steps before left in the form and on the page.  The portal must not
\* refuse the search for April: a turn it refused would leave the page before on the
\* screen, to be logged a second time.
THEOREM FindingsAlwaysTrue ==
  ASSUME AprilForm \notin Refusable
  PROVE  Spec => []FindingsTrue
<1>1. Init => FindingsInv
  <2> SUFFICES ASSUME Init
               PROVE  FindingsInv
    OBVIOUS
  <2>1. Step = "login" /\ phase = "begin" /\ form = Cleared /\ findings = {}
    BY ScriptSteps DEF Init, PageInit, Step
  <2> QED
    BY <2>1 DEF FindingsInv, Untouched, Searches, AprilFilled, Pages, OwnAnexos, FindingsTrue,
       Filters, Scenarios
<1>2. TypeInv /\ TypeInv' /\ RowsInv /\ FindingsInv /\ [Next]_vars => FindingsInv'
  BY UntouchedStep, SearchesStep, AprilFilledStep, PagesStep, OwnAnexosStep, FindingsStep
     DEF FindingsInv, RowsInv
<1>3. FindingsInv => FindingsTrue
  BY DEF FindingsInv
<1> QED
  BY <1>1, <1>2, <1>3, Typed, RowsAlways, PTL DEF Spec

-----------------------------------------------------------------------------
(* What is written lacks no more than what failed.                         *)

Past == {Steps[script][i] : i \in 1..(at - 1)}

Exempt == {"reset"} \cup (IF first = None THEN {"row"} ELSE {})

Reported == {e.step : e \in findings}

\* The steps that are over, and of which nothing was reported.
Gaps == (Past \ Exempt) \ Reported

\* The first page had no link to the module, and the findings say so.
NoHub == \E e \in findings : e.step = "module" /\ e.view = None

Counted == Cardinality(Gaps) <= 2 * faults \/ (Step = "write" /\ calm /\ NoHub)

Blank == Step \in {"login", "module"} /\ phase = "begin" => calm /\ shown = None /\ asked = <<>>

PagesReported == Step = "pages" /\ phase \in {"first", "end"} => "pages" \in Reported

WrittenLast == outcome = "written" => Step = "write"

GapsInv == Counted /\ Blank /\ PagesReported /\ WrittenLast

LEMMA AtTyped ==
  ASSUME script \in DOMAIN Steps, at \in DOMAIN Steps[script]
  PROVE  at \in Nat \ {0}
  BY ScriptSteps

LEMMA GapsFinite ==
  ASSUME TypeInv
  PROVE  IsFiniteSet(Gaps) /\ Cardinality(Gaps) \in Nat
<1>1. at - 1 \in Int
  BY AtTyped DEF TypeInv, Basics, Kinds
<1>2. IsFiniteSet(1..(at - 1))
  BY <1>1, FS_Interval
<1>3. IsFiniteSet(Past)
  <2> DEFINE ran == [i \in 1..(at - 1) |-> Steps[script][i]]
  <2>1. ran \in Surjection(1..(at - 1), Past)
    BY DEF Surjection, Past
  <2> HIDE DEF ran
  <2> QED
    BY <1>2, <2>1, FS_Surjection
<1>4. IsFiniteSet(Gaps)
  BY <1>3, FS_Subset DEF Gaps
<1> QED
  BY <1>4, FS_CardinalityType

LEMMA TwoMore ==
  ASSUME NEW S, IsFiniteSet(S), NEW a, NEW b, NEW T, T \subseteq S \cup {a, b}
  PROVE  Cardinality(T) <= Cardinality(S) + 2
<1>1. IsFiniteSet(S \cup {a}) /\ Cardinality(S \cup {a}) <= Cardinality(S) + 1
      /\ Cardinality(S) \in Nat /\ Cardinality(S \cup {a}) \in Nat
  <2>1. IsFiniteSet(S \cup {a}) /\ Cardinality(S) \in Nat
    BY FS_AddElement, FS_CardinalityType
  <2>2. Cardinality(S \cup {a}) \in Nat
    BY <2>1, FS_CardinalityType
  <2>3. Cardinality(S \cup {a}) \in {Cardinality(S), Cardinality(S) + 1}
    BY <2>1, FS_AddElement
  <2> QED
    BY <2>1, <2>2, <2>3
<1> DEFINE A == S \cup {a}
<1>2. IsFiniteSet(A \cup {b}) /\ Cardinality(A \cup {b}) <= Cardinality(A) + 1
      /\ Cardinality(A \cup {b}) \in Nat
  <2> HIDE DEF A
  <2>0. IsFiniteSet(A) /\ Cardinality(A) \in Nat
    BY <1>1 DEF A
  <2>1. IsFiniteSet(A \cup {b})
    BY <2>0, FS_AddElement
  <2>2. Cardinality(A \cup {b}) \in Nat
    BY <2>1, FS_CardinalityType
  <2>3. Cardinality(A \cup {b}) \in {Cardinality(A), Cardinality(A) + 1}
    BY <2>0, FS_AddElement
  <2> QED
    BY <2>0, <2>1, <2>2, <2>3
<1>3. T \subseteq A \cup {b}
  OBVIOUS
<1>4. Cardinality(T) <= Cardinality(A \cup {b}) /\ Cardinality(T) \in Nat
  <2> HIDE DEF A
  <2>1. IsFiniteSet(T) /\ Cardinality(T) <= Cardinality(A \cup {b})
    BY <1>2, <1>3, FS_Subset
  <2> QED
    BY <2>1, FS_CardinalityType
<1> QED
  BY <1>1, <1>2, <1>4

\* The steps that are over when the next one begins.
LEMMA PastNext ==
  ASSUME TypeInv, UNCHANGED script, at' = at + 1
  PROVE  Past' = Past \cup {Step}
<1>1. at \in Nat \ {0}
  BY AtTyped DEF TypeInv, Basics, Kinds
<1>2. 1..(at' - 1) = (1..(at - 1)) \cup {at}
  BY <1>1
<1>3. Past' = {Steps[script][i] : i \in (1..(at - 1)) \cup {at}}
  BY <1>2 DEF Past
<1> QED
  BY <1>3 DEF Past, Step

LEMMA ReportedGrows ==
  ASSUME [Next]_vars
  PROVE  findings \subseteq findings' /\ Reported \subseteq Reported'
<1>1. findings \subseteq findings'
  BY Reports DEF Finds
<1> QED
  BY <1>1 DEF Reported

LEMMA FindsReports ==
  ASSUME NEW seen, Finds(seen)
  PROVE  Step \in Reported'
<1>1. Entry(seen) \in findings' /\ Entry(seen).step = Step
  BY DEF Finds, Entry
<1> QED
  BY <1>1 DEF Reported

\* Once the script is on the row, or before it is, the step of the row is as it was.
LEMMA RowAhead ==
  ASSUME TypeInv, Step = "anexos"
  PROVE  "row" \notin Past
<1>1. script = "discover_bandeja" /\ at = 7
  <2>1. CASE script = "discover_bandeja"
    BY <2>1, ScriptSteps DEF TypeInv, Basics, Step
  <2>2. CASE script = "discover_expediente_search"
    BY <2>2, ScriptSteps DEF TypeInv, Basics, Step
  <2> QED
    BY <2>1, <2>2, ScriptSteps DEF TypeInv, Kinds
<1>2. \A i \in 1..6 : Steps[script][i] # "row"
  BY <1>1, ScriptSteps
<1> QED
  BY <1>1, <1>2 DEF Past

\* Where no step fails, nothing new is missing.
LEMMA NoNewGaps ==
  ASSUME TypeInv, [Next]_vars, ~ NoModule, ~ StepFails, PagesReported
  PROVE  Gaps' \subseteq Gaps
<1>1. Reported \subseteq Reported'
  BY ReportedGrows
<1>2. CASE ParseRows
  <2>1. Past' = Past /\ "row" \notin Past
    BY <1>2, RowAhead DEF ParseRows, Running, Goes, Past
  <2> QED
    BY <1>1, <2>1 DEF Gaps, Exempt
<1>3. CASE UNCHANGED at /\ ~ ParseRows
  <2>1. UNCHANGED <<script, first>>
    BY <1>3, Moves, RowsMove
  <2>2. Past' = Past /\ Exempt' = Exempt
    BY <1>3, <2>1 DEF Past, Exempt
  <2> QED
    BY <1>1, <2>2 DEF Gaps
<1>4. CASE NextStep /\ ~ ParseRows
  <2>1. UNCHANGED <<script, first>>
    BY <1>4, Moves, RowsMove
  <2>2. Past' = Past \cup {Step} /\ Exempt' = Exempt
    BY <1>4, <2>1, PastNext DEF NextStep, Exempt
  <2>3. Step \in Exempt \/ Step \in Reported'
    <3>1. CASE ResetDone
      BY <3>1 DEF ResetDone, Running, Exempt
    <3>2. CASE PagesEnd
      BY <1>1, <3>2 DEF PagesEnd, Running, PagesReported
    <3>3. CASE ClickRow
      <4>1. CASE first = None
        BY <3>3, <4>1 DEF ClickRow, Running, Exempt
      <4>2. CASE first # None
        <5>1. Finds(<<>>)
          BY <3>3, <4>2 DEF ClickRow
        <5> QED
          BY <5>1, FindsReports
      <4> QED
        BY <4>1, <4>2
    <3>4. CASE Login \/ Landing \/ FilterRead \/ April
      <4>1. Finds(<<>>)
        BY <3>4 DEF Login, Landing, FilterRead, April
      <4> QED
        BY <4>1, FindsReports
    <3>5. CASE AnexosDone \/ ScenarioRead
      <4>1. Finds(log)
        BY <3>5 DEF AnexosDone, ScenarioRead
      <4> QED
        BY <4>1, FindsReports
    <3>6. \/ ResetDone \/ PagesEnd \/ ClickRow \/ Login \/ Landing \/ FilterRead \/ April
          \/ AnexosDone \/ ScenarioRead
      <4>1. ~ UNCHANGED at
        BY <1>4, AtTyped DEF NextStep, TypeInv, Basics, Kinds
      <4> QED
        BY <4>1 DEF Next, Proceeds, EnterModule, Filter, Waited, TurnPage, PageRead, PagesDone, ParseRows,
           ClickAnexos, ReadAnexos, BeginScenario, RunScenario, Write, PortalAnswers,
           ControlMissing, ButtonMissing, NoAnexos, Crash, vars, Goes
    <3> QED
      BY <3>1, <3>2, <3>3, <3>4, <3>5, <3>6
  <2> QED
    BY <1>1, <2>2, <2>3 DEF Gaps
<1>5. UNCHANGED at \/ NextStep
  BY Comes
<1> QED
  BY <1>2, <1>3, <1>4, <1>5

\* A step that fails is missing; April takes the paginator with it.
LEMMA FailureGaps ==
  ASSUME TypeInv, StepFails
  PROVE  \E s : Gaps' \subseteq Gaps \cup {Step, s}
<1>0. at \in Nat \ {0}
  BY AtTyped DEF TypeInv, Basics, Kinds
<1>1. UNCHANGED <<script, first, findings>> /\ (at' = at + 1 \/ at' = at + 2)
  BY DEF StepFails
<1>2. Past' \subseteq Past \cup {Step, Steps[script][at + 1]}
  <2>1. 1..(at' - 1) \subseteq (1..(at - 1)) \cup {at, at + 1}
    BY <1>0, <1>1
  <2> QED
    BY <1>1, <2>1 DEF Past, Step
<1>3. Exempt' = Exempt /\ Reported' = Reported
  BY <1>1 DEF Exempt, Reported
<1>4. Gaps' \subseteq Gaps \cup {Step, Steps[script][at + 1]}
  BY <1>2, <1>3 DEF Gaps
<1> QED
  BY <1>4

LEMMA CountedStep ==
  ASSUME TypeInv, TypeInv', Counted, Blank, PagesReported, [Next]_vars
  PROVE  Counted'
<1>0. faults \in Nat /\ faults' \in Nat /\ faults <= faults'
  BY FaultsGrow
<1>1. IsFiniteSet(Gaps) /\ Cardinality(Gaps) \in Nat
  BY GapsFinite
<1>2. CASE NoModule
  <2>1. Step = "module" /\ phase = "begin" /\ Finds(<<>>) /\ calm' = calm
        /\ at' = Len(Steps[script]) /\ UNCHANGED script
    BY <1>2 DEF NoModule, Running
  <2>2. calm /\ shown = None
    BY <2>1 DEF Blank
  <2>3. Entry(<<>>) \in findings' /\ Entry(<<>>).step = "module" /\ Entry(<<>>).view = None
    BY <2>1, <2>2 DEF Finds, Entry
  <2>4. Step' = "write"
    BY <2>1, LastStep DEF Step, TypeInv, Kinds
  <2> QED
    BY <2>1, <2>2, <2>3, <2>4 DEF Counted, NoHub
<1>3. CASE StepFails
  <2>1. Step # "write" /\ faults' = faults + 1
    BY <1>3 DEF StepFails, Fault, Tolerant, Filters
  <2>2. Cardinality(Gaps) <= 2 * faults
    BY <2>1 DEF Counted
  <2>3. PICK s : Gaps' \subseteq Gaps \cup {Step, s}
    BY <1>3, FailureGaps
  <2> DEFINE later == Gaps'
  <2>4. Cardinality(later) <= Cardinality(Gaps) + 2
    <3> HIDE DEF later
    <3>1. later \subseteq Gaps \cup {Step, s}
      BY <2>3 DEF later
    <3> QED
      BY <1>1, <3>1, TwoMore
  <2>5. Cardinality(later) \in Nat
    <3>1. IsFiniteSet(Gaps \cup {Step, s})
      <4>1. IsFiniteSet(Gaps \cup {Step})
        BY <1>1, FS_AddElement
      <4>2. IsFiniteSet((Gaps \cup {Step}) \cup {s})
        BY <4>1, FS_AddElement
      <4>3. (Gaps \cup {Step}) \cup {s} = Gaps \cup {Step, s}
        OBVIOUS
      <4> QED
        BY <4>2, <4>3
    <3> HIDE DEF later
    <3>2. IsFiniteSet(later)
      BY <2>3, <3>1, FS_Subset DEF later
    <3> QED
      BY <3>2, FS_CardinalityType
  <2>6. Cardinality(later) <= 2 * faults'
    <3> HIDE DEF later
    <3> QED
      BY <1>0, <1>1, <2>1, <2>2, <2>4, <2>5
  <2> QED
    BY <2>6 DEF Counted
<1>4. CASE ~ NoModule /\ ~ StepFails
  <2>1. Gaps' \subseteq Gaps
    BY <1>4, NoNewGaps
  <2>2. CASE Cardinality(Gaps) <= 2 * faults
    <3> DEFINE later == Gaps'
    <3>1. Cardinality(later) <= Cardinality(Gaps) /\ Cardinality(later) \in Nat
      <4> HIDE DEF later
      <4>1. IsFiniteSet(later) /\ Cardinality(later) <= Cardinality(Gaps)
        BY <1>1, <2>1, FS_Subset DEF later
      <4> QED
        BY <4>1, FS_CardinalityType
    <3>2. Cardinality(later) <= 2 * faults'
      <4> HIDE DEF later
      <4> QED
        BY <1>0, <1>1, <2>2, <3>1
    <3> QED
      BY <3>2 DEF Counted
  <2>3. CASE Step = "write" /\ calm /\ NoHub
    <3>1. Write \/ Crash \/ PortalAnswers \/ UNCHANGED vars
      <4>1. phase = "begin"
        BY <2>3 DEF TypeInv, Placed
      <4> QED
        BY <1>4, <2>3, <4>1
           DEF Next, Proceeds, Login, EnterModule, Landing, Filter, Waited, FilterRead, ResetDone,
           April, TurnPage, PageRead, PagesDone, PagesEnd, ParseRows, ClickAnexos, ReadAnexos,
           AnexosDone, ClickRow, BeginScenario, RunScenario, ScenarioRead,
           ControlMissing, ButtonMissing, NoAnexos, Running, Filters, Scenarios
    <3>2. UNCHANGED <<script, at, calm, findings>>
      BY <3>1 DEF Write, Crash, PortalAnswers, vars
    <3> QED
      BY <2>3, <3>2, StepSame DEF Counted, NoHub
  <2> QED
    BY <2>2, <2>3 DEF Counted
<1> QED
  BY <1>2, <1>3, <1>4

LEMMA BlankStep ==
  ASSUME TypeInv, Blank, [Next]_vars
  PROVE  Blank'
<1> SUFFICES ASSUME Step' \in {"login", "module"}, phase' = "begin"
             PROVE  calm' /\ shown' = None /\ asked' = <<>>
  BY DEF Blank
<1>1. CASE UNCHANGED at /\ Step' = Step
  <2>1. at \in Int
    BY ScriptSteps DEF TypeInv, Basics, Kinds
  <2>2. ~ NextStep /\ ~ StepFails
    BY <1>1, <2>1 DEF NextStep, StepFails, Tolerant, Filters
  <2>3. ~ NoModule
    <3>1. NoModule => Step' = "write"
      BY LastStep DEF NoModule, Running, Step, TypeInv, Kinds, step
    <3> QED
      BY <3>1
  <2>4. Crash \/ PortalAnswers \/ UNCHANGED vars
    BY <1>1, <2>2, <2>3
       DEF Next, Proceeds, Login, EnterModule, Landing, Filter, Waited, FilterRead, ResetDone,
       April, TurnPage, PageRead, PagesDone, PagesEnd, ParseRows, ClickAnexos, ReadAnexos,
       AnexosDone, ClickRow, BeginScenario, RunScenario, ScenarioRead, Write,
       ControlMissing, ButtonMissing, NoAnexos, Running, Goes, After, Filters, Scenarios
  <2>5. UNCHANGED phase
    BY <2>4 DEF Crash, PortalAnswers, vars
  <2>6. calm /\ shown = None /\ asked = <<>>
    BY <1>1, <2>5 DEF Blank
  <2> QED
    BY <2>4, <2>6 DEF Crash, PortalAnswers, Answer, vars, bandeja
<1>2. CASE Login
  BY <1>2 DEF Login, Running, Blank, bandeja
<1> QED
  BY <1>1, <1>2, Comes

LEMMA PagesReportedStep ==
  ASSUME TypeInv, PagesReported, [Next]_vars
  PROVE  PagesReported'
<1> SUFFICES ASSUME Step' = "pages", phase' \in {"first", "end"}
             PROVE  "pages" \in Reported'
  BY DEF PagesReported
<1>1. Step = "pages"
  BY Moves
<1>2. CASE PagesDone
  <2>1. Finds(log)
    BY <1>2 DEF PagesDone
  <2> QED
    BY <1>1, <2>1, FindsReports
<1>3. CASE ~ PagesDone
  <2>1. phase \in {"first", "end"}
    BY <1>1, <1>3, PagesMoves DEF TurnPage, PageRead, Waited, PortalAnswers, vars, Goes, After
  <2> QED
    BY <1>1, <2>1, ReportedGrows DEF PagesReported
<1> QED
  BY <1>2, <1>3

LEMMA WrittenLastStep ==
  ASSUME TypeInv, WrittenLast, [Next]_vars
  PROVE  WrittenLast'
<1> SUFFICES ASSUME outcome' = "written"
             PROVE  Step' = "write"
  BY DEF WrittenLast
<1>1. CASE Write
  BY <1>1, StepSame DEF Write, Running
<1>2. CASE ~ Write
  <2>1. outcome = "written"
    BY <1>2 DEF Next, Proceeds, Login, EnterModule, Landing, Filter, Waited, FilterRead, ResetDone,
       April, TurnPage, PageRead, PagesDone, PagesEnd, ParseRows, ClickAnexos, ReadAnexos,
       AnexosDone, ClickRow, BeginScenario, RunScenario, ScenarioRead, PortalAnswers,
       NoModule, ControlMissing, ButtonMissing, NoAnexos, StepFails, Crash, vars, NextStep, Goes, step
  <2>2. UNCHANGED <<script, at>>
    BY <2>1 DEF Next, Proceeds, Login, EnterModule, Landing, Filter, Waited, FilterRead, ResetDone,
       April, TurnPage, PageRead, PagesDone, PagesEnd, ParseRows, ClickAnexos, ReadAnexos,
       AnexosDone, ClickRow, BeginScenario, RunScenario, ScenarioRead, Write, PortalAnswers,
       NoModule, ControlMissing, ButtonMissing, NoAnexos, StepFails, Crash, vars, Running
  <2> QED
    BY <2>1, <2>2, StepSame DEF WrittenLast
<1> QED
  BY <1>1, <1>2

\* When a script has written, the steps that are due are over.
LEMMA DueOver ==
  ASSUME TypeInv, Step = "write"
  PROVE  Due \ Reported = Gaps
<1>1. {Steps[script][i] : i \in DOMAIN Steps[script]} \ {"write"} = Past \ {"write"}
  <2>1. CASE script = "discover_bandeja"
    <3>1. at = 11 /\ DOMAIN Steps[script] = 1..11
      BY <2>1, ScriptSteps DEF TypeInv, Basics, Step
    <3>2. 1..11 = (1..(at - 1)) \cup {at}
      BY <3>1
    <3> QED
      BY <3>1, <3>2 DEF Past, Step
  <2>2. CASE script = "discover_expediente_search"
    <3>1. at = 7 /\ DOMAIN Steps[script] = 1..7
      BY <2>2, ScriptSteps DEF TypeInv, Basics, Step
    <3>2. 1..7 = (1..(at - 1)) \cup {at}
      BY <3>1
    <3> QED
      BY <3>1, <3>2 DEF Past, Step
  <2> QED
    BY <2>1, <2>2, ScriptSteps DEF TypeInv, Kinds
<1>2. "write" \notin Past
  <2>1. CASE script = "discover_bandeja"
    <3>1. at = 11
      BY <2>1, ScriptSteps DEF TypeInv, Basics, Step
    <3>2. \A i \in 1..10 : Steps[script][i] # "write"
      BY <2>1, ScriptSteps
    <3> QED
      BY <3>1, <3>2 DEF Past
  <2>2. CASE script = "discover_expediente_search"
    <3>1. at = 7
      BY <2>2, ScriptSteps DEF TypeInv, Basics, Step
    <3>2. \A i \in 1..6 : Steps[script][i] # "write"
      BY <2>2, ScriptSteps
    <3> QED
      BY <3>1, <3>2 DEF Past
  <2> QED
    BY <2>1, <2>2, ScriptSteps DEF TypeInv, Kinds
<1> QED
  BY <1>1, <1>2 DEF Due, Gaps, Exempt

LEMMA GapsReported ==
  ASSUME TypeInv, GapsInv
  PROVE  StepsReported
<1> SUFFICES ASSUME outcome = "written", \A e \in findings : e.step = "module" => e.view # None \/ ~ calm
             PROVE  Cardinality(Due \ {e.step : e \in findings}) <= 2 * faults
  BY DEF StepsReported
<1>1. Step = "write"
  BY DEF GapsInv, WrittenLast
<1>2. Due \ {e.step : e \in findings} = Gaps
  BY <1>1, DueOver DEF Reported
<1>3. ~ (calm /\ NoHub)
  BY DEF NoHub
<1> QED
  BY <1>2, <1>3 DEF GapsInv, Counted

\* What a script writes lacks no more than the steps that failed, two of them where
\* they share a try, however many fail; a script that dies writes nothing.
THEOREM StepsAlwaysReported == Spec => []StepsReported
<1>1. Init => GapsInv
  <2> SUFFICES ASSUME Init
               PROVE  GapsInv
    OBVIOUS
  <2>1. at = 1 /\ phase = "begin" /\ outcome = "running" /\ calm /\ faults = 0
        /\ shown = None /\ asked = <<>>
    BY DEF Init, PageInit
  <2>2. Past = {}
    BY <2>1 DEF Past
  <2>3. Cardinality(Gaps) = 0
    BY <2>2, FS_EmptySet DEF Gaps
  <2> QED
    BY <2>1, <2>3 DEF GapsInv, Counted, Blank, PagesReported, WrittenLast
<1>2. TypeInv /\ TypeInv' /\ GapsInv /\ [Next]_vars => GapsInv'
  BY CountedStep, BlankStep, PagesReportedStep, WrittenLastStep DEF GapsInv
<1>3. TypeInv /\ GapsInv => StepsReported
  BY GapsReported
<1> QED
  BY <1>1, <1>2, <1>3, Typed, PTL DEF Spec
=============================================================================
