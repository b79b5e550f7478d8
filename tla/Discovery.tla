------------------------------ MODULE Discovery ------------------------------
(***************************************************************************)
(* The two discovery scripts on the bandeja of a live casilla.             *)
(* discover_bandeja tries filters, the paginator and the attachments of    *)
(* notifications that have been read, step by step; a step that fails is   *)
(* logged and the next one begins.  discover_expediente_search runs four   *)
(* searches and records the AJAX calls of each; there a failure ends the   *)
(* script.  Both write what they found when they are through.              *)
(*                                                                         *)
(* Their waits are sleeps: wait_for_load_state returns at once on a page   *)
(* that was loaded before, or its timeout is swallowed.  So a script can   *)
(* read the table, or click on it, while an answer is still outstanding.   *)
(***************************************************************************)
EXTENDS BandejaPage

CONSTANTS
  Expediente,   \* the case file of the searches A to C
  Filtered,     \* what the keyboard filter lets through of the invalid one
  MaxNotifications,  \* --max-notifications
  LastPage,     \* the page the paginator loop stops at
  MaxFaults     \* bound: failed calls, and waits shorter than the answer

ASSUME DiscoveryAssumption ==
  MaxNotifications \in Nat /\ LastPage \in Nat \ {0} /\ MaxFaults \in Nat

VARIABLES
  script,    \* which of the two runs
  at,        \* its step
  phase,     \* and where in the step it is
  rows,      \* what the step has parsed and not used yet
  first,     \* the first read row
  log,       \* what the step has seen so far: pages, attachments or calls
  recording, \* the AjaxRecorder listens
  opened,    \* notifications the script has clicked on
  findings,  \* findings["steps"], findings["scenarios"]
  outcome,   \* findings.json written, or the script died
  calm,      \* every answer came within its wait, every control was there (history)
  faults     \* failures so far

step == <<rows, first, log, recording>>
vars == <<bandeja, script, at, phase, step, opened, findings, outcome, calm, faults>>

Steps ==
  [discover_bandeja |-> <<"login", "module", "april", "pages", "limit", "reset", "anexos",
                          "row", "leidos", "no_leidos", "write">>,
   discover_expediente_search |-> <<"login", "module", "A", "B", "C", "D", "write">>]

Step == Steps[script][at]

Scenarios == {"A", "B", "C", "D"}

Init ==
  /\ PageInit
  /\ script \in DOMAIN Steps
  /\ at = 1 /\ phase = "begin"
  /\ rows = <<>> /\ first = None /\ log = <<>> /\ recording = FALSE
  /\ opened = {} /\ findings = {}
  /\ outcome = "running" /\ calm = TRUE /\ faults = 0

Fault == faults < MaxFaults /\ faults' = faults + 1

Running(s, p) == outcome = "running" /\ Step \in s /\ phase = p

Goes(p) == phase' = p /\ UNCHANGED <<at, outcome>>

NextStep == at' = at + 1 /\ phase' = "begin" /\ UNCHANGED outcome

\* capture and the entry it goes into: what the page shows now.
Entry(seen) == [step |-> Step, view |-> shown, growl |-> growl, seen |-> seen]

Finds(seen) == findings' = findings \cup {Entry(seen)}

-----------------------------------------------------------------------------
(* Login and module.                                                       *)

\* login, and the first capture.
Login ==
  /\ Running({"login"}, "begin")
  /\ Finds(<<>>) /\ NextStep
  /\ UNCHANGED <<bandeja, script, step, opened, calm, faults>>

\* The module's link is not on the hub: the findings say so, and that is all.
NoModule ==
  /\ Running({"module"}, "begin") /\ Fault
  /\ Finds(<<>>)
  /\ at' = Len(Steps[script]) /\ UNCHANGED <<phase, outcome>>
  /\ UNCHANGED <<bandeja, script, step, opened, calm>>

\* The click; a navigation that does not come is no failure.
EnterModule ==
  /\ Running({"module"}, "begin")
  /\ Sends(Search(form)) /\ Goes("wait")
  /\ UNCHANGED <<form, shown, growl, dialog, keyed, script, step, opened, findings, calm, faults>>

Landing ==
  /\ Running({"module"}, "read")
  /\ Finds(<<>>) /\ NextStep
  /\ UNCHANGED <<bandeja, script, step, opened, calm, faults>>

-----------------------------------------------------------------------------
(* Searches.                                                               *)

\* The dates a step searches with.
DatesOf(s) ==
  [april |-> "april", limit |-> "limit", reset |-> "reset", B |-> "reset", C |-> "year", D |-> "week"][s]

\* The inputs a step fills in, and what with.
Change(s) ==
  CASE s \in {"april", "limit", "reset"} -> [dates |-> DatesOf(s)]
    [] s \in {"leidos", "no_leidos"}     -> [estado |-> IF s = "leidos" THEN "1" ELSE "0"]
    [] s = "A"                           -> [expediente |-> Expediente]
    [] s \in {"B", "C"}                  -> [expediente |-> Expediente, dates |-> DatesOf(s)]
    [] s = "D"                           -> [expediente |-> Filtered, dates |-> DatesOf(s)]

With(values) ==
  [f \in DOMAIN form |-> IF f \in DOMAIN values THEN values[f] ELSE form[f]]

\* Mutant of Submits: Buscar is clicked before the inputs are filled in.
MutSubmitsEarly(values) ==
  /\ form' = With(values)
  /\ Sends(Search(form))
  /\ UNCHANGED <<shown, growl, dialog, keyed>>

\* apply_date_filter, apply_estado_filter, apply_expediente_filter: the inputs
\* are filled in and Buscar is clicked.
Submits(values) ==
  /\ form' = With(values)
  /\ Sends(Search(form'))
  /\ UNCHANGED <<shown, growl, dialog, keyed>>

Filters == {"april", "limit", "reset", "leidos", "no_leidos"}

Filter ==
  /\ Running(Filters, "begin")
  /\ Submits(Change(Step)) /\ Goes("wait")
  /\ UNCHANGED <<script, step, opened, findings, calm, faults>>

\* The button is not found, or the select: nothing is asked, and the step goes
\* on as if it were.
ControlMissing ==
  /\ Running(Filters, "begin") /\ Fault
  /\ \/ form' = With(Change(Step))
     \/ "estado" \in DOMAIN Change(Step) /\ UNCHANGED form
  /\ Goes("wait") /\ calm' = FALSE
  /\ UNCHANGED <<asked, shown, growl, dialog, keyed, script, step, opened, findings>>

\* The wait is over: the answers are there, or they are not.
After(p) == CASE p = "first" -> "end" [] p = "dates" -> "search" [] OTHER -> "read"

Waited ==
  /\ outcome = "running" /\ phase \in {"wait", "first", "dates"}
  /\ \/ asked = <<>> /\ UNCHANGED <<calm, faults>>
     \/ asked # <<>> /\ Fault /\ calm' = FALSE
  /\ Goes(After(phase))
  /\ UNCHANGED <<bandeja, script, step, opened, findings>>

\* The capture after a filter, with the rows and what the portal said to it.
FilterRead ==
  /\ Running(Filters \ {"april", "reset"}, "read")
  /\ Finds(<<>>) /\ NextStep
  /\ UNCHANGED <<bandeja, script, step, opened, calm, faults>>

\* The last reset is for the attachments to begin on, and not reported.
ResetDone ==
  /\ Running({"reset"}, "read")
  /\ NextStep
  /\ UNCHANGED <<bandeja, script, step, opened, findings, calm, faults>>

-----------------------------------------------------------------------------
(* The paginator.                                                          *)

\* The first page of April: the loop over the others begins with it.
April ==
  /\ Running({"april"}, "read")
  /\ Finds(<<>>) /\ NextStep
  /\ log' = <<shown>>
  /\ UNCHANGED <<bandeja, script, rows, first, recording, opened, calm, faults>>

\* The button is there and enabled, by the last parse and by the page.
CanTurn == HasNext(Last(log)) /\ HasNext(shown) /\ Len(log) < LastPage

TurnPage ==
  /\ Running({"pages"}, "begin") /\ CanTurn
  /\ Sends(Turn(shown.page + 1)) /\ Goes("wait")
  /\ UNCHANGED <<form, shown, growl, dialog, keyed, script, step, opened, findings, calm, faults>>

PageRead ==
  /\ Running({"pages"}, "read")
  /\ log' = Append(log, shown) /\ Goes("begin")
  /\ UNCHANGED <<bandeja, script, rows, first, recording, opened, findings, calm, faults>>

\* No more pages, or a turn that failed before or after its click: back to the
\* first page.
PagesDone ==
  /\ Running({"pages"}, phase)
  /\ \/ phase = "begin" /\ ~ CanTurn /\ UNCHANGED faults
     \/ phase \in {"begin", "wait"} /\ Fault
  /\ calm' = (calm /\ asked = <<>>)
  /\ Finds(log)
  /\ IF shown # None /\ shown.page > 1 THEN Sends(Turn(1)) ELSE UNCHANGED asked
  /\ Goes("first")
  /\ UNCHANGED <<form, shown, growl, dialog, keyed, script, step, opened>>

PagesEnd ==
  /\ Running({"pages"}, "end")
  /\ NextStep /\ log' = <<>>
  /\ UNCHANGED <<bandeja, script, rows, first, recording, opened, findings, calm, faults>>

-----------------------------------------------------------------------------
(* Attachments and rows.                                                   *)

\* Mutant of ReadRows: unread notifications are not left out.
MutReadRowsAll == [i \in DOMAIN Table |-> [place |-> i, of |-> Table[i]]]

\* parse_bandeja_rows, and the rows of it that have been read.
ReadRows ==
  LET places == Downwards({i \in DOMAIN Table : Table[i] \notin Unread})
  IN  [k \in DOMAIN places |-> [place |-> places[k], of |-> Table[places[k]]]]

ParseRows ==
  /\ Running({"anexos"}, "begin")
  /\ first' = IF ReadRows = <<>> THEN None ELSE Head(ReadRows)
  /\ rows' = SubSeq(ReadRows, 1,
                    IF MaxNotifications < Len(ReadRows) THEN MaxNotifications ELSE Len(ReadRows))
  /\ log' = <<>> /\ Goes("rows")
  /\ UNCHANGED <<bandeja, script, recording, opened, findings, calm, faults>>

\* What a click on this place of the table hits; an open dialog is in the way.
Hit(place) == IF dialog = None /\ place \in DOMAIN Table THEN Table[place] ELSE None

\* One row is done with.
Leaves(result) == rows' = Tail(rows) /\ log' = Append(log, result)

\* click_row_attachments: the button with the row's id.
ClickAnexos ==
  /\ Running({"anexos"}, "rows") /\ rows # <<>>
  /\ LET target == Hit(Head(rows).place)
     IN  IF target = None
           THEN /\ Leaves([row |-> Head(rows).of, of |-> None])
                /\ UNCHANGED <<asked, phase, opened>>
           ELSE /\ opened' = opened \cup {[by |-> "anexos", of |-> target]}
                /\ Sends(Anexos(target)) /\ phase' = "opening"
                /\ UNCHANGED <<rows, log>>
  /\ UNCHANGED <<form, shown, growl, dialog, keyed, script, at, first, recording, findings,
                 outcome, calm, faults>>

\* The dialog is on the screen: it is parsed, captured and closed.
ReadAnexos ==
  /\ Running({"anexos"}, "opening") /\ dialog # None
  /\ Leaves([row |-> Head(rows).of, of |-> dialog])
  /\ \/ dialog' = None /\ UNCHANGED faults
     \/ UNCHANGED dialog /\ Fault
  /\ Goes("rows")
  /\ UNCHANGED <<form, asked, shown, growl, keyed, script, first, recording, opened, findings, calm>>

\* No dialog for ten seconds, or a click that failed: the row is given up.
NoAnexos ==
  /\ outcome = "running" /\ Step = "anexos" /\ phase \in {"rows", "opening"}
  /\ rows # <<>> /\ dialog = None /\ Fault
  /\ Leaves([row |-> Head(rows).of, of |-> None])
  /\ calm' = (calm /\ asked = <<>>)
  /\ Goes("rows")
  /\ UNCHANGED <<bandeja, script, first, recording, opened, findings>>

AnexosDone ==
  /\ Running({"anexos"}, "rows") /\ rows = <<>>
  /\ Finds(log) /\ NextStep /\ log' = <<>>
  /\ UNCHANGED <<bandeja, script, rows, first, recording, opened, calm, faults>>

\* The row itself, by its key where the table has keys.
RowTarget ==
  IF ~ keyed THEN Hit(first.place)
  ELSE IF dialog = None /\ first.of \in {Table[i] : i \in DOMAIN Table} THEN first.of ELSE None

ClickRow ==
  /\ Running({"row"}, "begin")
  /\ IF first = None
       THEN UNCHANGED <<opened, findings>>
       ELSE /\ opened' = opened \cup ({[by |-> "row", of |-> RowTarget]} \ {[by |-> "row", of |-> None]})
            /\ Finds(<<>>)
  /\ NextStep
  /\ UNCHANGED <<bandeja, script, step, calm, faults>>

-----------------------------------------------------------------------------
(* The scenarios of discover_expediente_search.                            *)

\* The input is cleared, and all but the first scenario search by date first.
BeginScenario ==
  /\ Running(Scenarios, "begin")
  /\ IF Step = "A"
       THEN form' = With([expediente |-> ""]) /\ Goes("search") /\ UNCHANGED asked
       ELSE /\ form' = With([expediente |-> "", dates |-> DatesOf(Step)])
            /\ Sends(Search(form')) /\ Goes("dates")
  /\ log' = <<>>
  /\ UNCHANGED <<shown, growl, dialog, keyed, script, rows, first, recording, opened, findings, calm, faults>>

\* AjaxRecorder._on_request.
Call(request) == [request |-> request, answer |-> None]

\* AjaxRecorder.start and stop.
Listens(on) == recording' = on

\* run_scenario up to its wait: the recorder starts, the expediente is searched.
RunScenario ==
  /\ Running(Scenarios, "search")
  /\ Submits([expediente |-> Change(Step).expediente]) /\ Goes("wait")
  /\ Listens(TRUE)
  /\ log' = Append(log, Call(Last(asked')))
  /\ UNCHANGED <<script, rows, first, opened, findings, calm, faults>>

\* The button is not found: the scenario goes on without a call.
ButtonMissing ==
  /\ Running(Scenarios, "search") /\ Fault
  /\ form' = With([expediente |-> Change(Step).expediente]) /\ Goes("wait")
  /\ Listens(TRUE) /\ calm' = FALSE
  /\ UNCHANGED <<asked, shown, growl, dialog, keyed, script, rows, first, log, opened, findings>>

\* Mutant of Recorded: a response goes to the latest call, whoever asked.
MutRecorded(request) ==
  IF recording /\ log # <<>> THEN [log EXCEPT ![Len(log)].answer = request] ELSE log

\* AjaxRecorder._on_response: the call the response belongs to, if it is known.
Recorded(request) ==
  IF ~ recording THEN log
  ELSE [i \in DOMAIN log |->
          IF log[i].request = request THEN [log[i] EXCEPT !.answer = request] ELSE log[i]]

\* Mutant of ScenarioRead: the recorder is not stopped.
MutScenarioReadListens ==
  /\ Running(Scenarios, "read")
  /\ Finds(log) /\ NextStep /\ log' = <<>>
  /\ UNCHANGED <<bandeja, script, rows, first, recording, opened, calm, faults>>

\* The recorder stops, the scenario is read off the page.
ScenarioRead ==
  /\ Running(Scenarios, "read")
  /\ Listens(FALSE)
  /\ Finds(log) /\ NextStep /\ log' = <<>>
  /\ UNCHANGED <<bandeja, script, rows, first, opened, calm, faults>>

-----------------------------------------------------------------------------
(* Endings, and the portal.                                                *)

Write ==
  /\ Running({"write"}, "begin")
  /\ outcome' = "written"
  /\ UNCHANGED <<bandeja, script, at, phase, step, opened, findings, calm, faults>>

Tolerant == Filters \cup {"pages"}

\* Mutant of StepFails: the failure ends the script's steps.
MutStepFailsAll ==
  /\ outcome = "running" /\ Step \in Tolerant /\ Fault
  /\ at' = Len(Steps[script]) /\ phase' = "begin"
  /\ log' = <<>>
  /\ calm' = (calm /\ asked = <<>>)
  /\ UNCHANGED <<bandeja, script, rows, first, recording, opened, findings, outcome>>

\* A call of a step inside its try fails: the next step begins.  April and the
\* paginator share one try.
StepFails ==
  /\ outcome = "running" /\ Step \in Tolerant /\ Fault
  /\ at' = at + (IF Step = "april" THEN 2 ELSE 1)
  /\ phase' = "begin" /\ log' = <<>>
  /\ calm' = (calm /\ asked = <<>>)
  /\ UNCHANGED <<bandeja, script, rows, first, recording, opened, findings, outcome>>

\* Outside a try a failure ends the script, with nothing written.
Crash ==
  /\ outcome = "running" /\ Step \notin Tolerant \cup {"row"} /\ Fault
  /\ outcome' = "died" /\ Listens(FALSE)
  /\ UNCHANGED <<bandeja, script, at, phase, rows, first, log, opened, findings, calm>>

PortalAnswers ==
  /\ Answer
  /\ log' = Recorded(Head(asked))
  /\ UNCHANGED <<script, at, phase, rows, first, recording, opened, findings, outcome, calm, faults>>

\* What the script does by itself.
Proceeds ==
  \/ Login \/ EnterModule \/ Landing \/ Filter \/ Waited \/ FilterRead \/ ResetDone
  \/ April \/ TurnPage \/ PageRead \/ PagesDone \/ PagesEnd
  \/ ParseRows \/ ClickAnexos \/ ReadAnexos \/ AnexosDone \/ ClickRow
  \/ BeginScenario \/ RunScenario \/ ScenarioRead \/ Write

Next ==
  \/ Proceeds \/ PortalAnswers
  \/ NoModule \/ ControlMissing \/ ButtonMissing \/ NoAnexos \/ StepFails \/ Crash

Spec == Init /\ [][Next]_vars

-----------------------------------------------------------------------------
\* Every variable keeps its type; no step reads more than it may.
TypeOK ==
  /\ at \in DOMAIN Steps[script]
  /\ phase \in {"begin", "wait", "read", "first", "end", "rows", "opening", "dates", "search"}
  /\ dialog \in Notifications \cup {None}
  /\ Len(rows) <= MaxNotifications
  /\ Len(log) <= (IF Step = "pages" THEN LastPage
                  ELSE IF Step = "anexos" THEN MaxNotifications ELSE 1)
  /\ recording => Step \in Scenarios
  /\ opened \subseteq [by : {"anexos", "row"}, of : Notifications]
  /\ outcome \in {"running", "written", "died"}
  /\ faults \in 0..MaxFaults

\* discover_bandeja.py:9: only notifications that were read before are opened,
\* as long as the portal answers within the waits: else a positional id may
\* have become another row's.  A row that is clicked by its key is one that
\* was read, whatever the portal does.
OnlyReadOpened ==
  \A o \in opened :
    o.of \in Unread => ~ calm /\ (o.by = "row" => ~ keyed)

\* A filter's entry, or a scenario's, shows its own search on the first page,
\* unless the portal refused that search.
SearchesTrue(e) ==
  e.step \in Filters \cup Scenarios /\ ~ e.growl =>
    /\ e.view.page = 1
    /\ \A f \in DOMAIN Change(e.step) : e.view.form[f] = Change(e.step)[f]

\* The pages reported are the pages of April, one after the other, all of them
\* unless a click failed or the loop's limit was reached.
PagesTrue(e) ==
  e.step = "pages" =>
    /\ \A k \in DOMAIN e.seen : e.seen[k] = [form |-> e.seen[1].form, page |-> k]
    /\ faults = 0 => Len(e.seen) = LastPage \/ ~ HasNext(Last(e.seen))

\* The attachments reported for a row are that row's.
AnexosTrue(e) ==
  e.step = "anexos" => \A i \in DOMAIN e.seen : e.seen[i].of \in {e.seen[i].row, None}

\* The findings are true: whatever fails on the way, and whatever the steps
\* before left in the form and on the page, an entry reports what its own step
\* asked for, as long as the portal answers within the waits.
FindingsTrue ==
  calm => \A e \in findings : SearchesTrue(e) /\ PagesTrue(e) /\ AnexosTrue(e)

\* The calls reported for a scenario are its own search's, with its own answer
\* or none, also when the answer to an earlier search arrives meanwhile.
OwnCalls ==
  \A e \in findings : e.step \in Scenarios =>
    \A i \in DOMAIN e.seen :
      /\ e.seen[i].request.view.form.expediente = Change(e.step).expediente
      /\ e.seen[i].answer \in {None, e.seen[i].request}

\* What a script writes lacks no more than the steps that failed, two of them
\* where they share a try; a script that dies writes nothing.
Due == {Steps[script][i] : i \in DOMAIN Steps[script]}
         \ ({"reset", "write"} \cup (IF first = None THEN {"row"} ELSE {}))

StepsReported ==
  outcome = "written" /\ (\A e \in findings : e.step = "module" => e.view # None \/ ~ calm) =>
    Cardinality(Due \ {e.step : e \in findings}) <= 2 * faults

=============================================================================
