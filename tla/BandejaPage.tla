----------------------------- MODULE BandejaPage -----------------------------
(***************************************************************************)
(* The page of the SINOE bandeja as the discovery scripts use it: a form   *)
(* of filters, a table that shows one page of one search, and the dialog   *)
(* of a row's attachments.  Every click sends a request; the portal        *)
(* answers them in order, and when an answer comes the table is rendered   *)
(* again under whoever is reading it.  Rows and buttons have positional    *)
(* ids: an id names whatever row has its place now.                        *)
(***************************************************************************)
EXTENDS Integers, Sequences, FiniteSets, SequencesExt

CONSTANTS
  Box,        \* the notifications of the casilla, newest first
  Unread,     \* those nobody has opened yet
  Window,     \* the notifications of each range of dates
  CaseFile,   \* the expediente of each notification
  Refusable,  \* forms the portal may answer with a message instead
  PageSize,   \* rows of one page
  None        \* no table, no dialog, no row

Notifications == Range(Box)

ASSUME PageAssumption ==
  /\ Box \in Seq(Notifications) /\ None \notin Notifications
  /\ PageSize \in Nat \ {0}

VARIABLES
  form,     \* what the inputs hold: dates, estado and expediente
  asked,    \* requests without an answer yet
  shown,    \* the page of the search the table shows
  growl,    \* the portal refused the last search
  dialog,   \* the notification whose attachments the dialog lists
  keyed     \* the rows carry the key of their notification

bandeja == <<form, asked, shown, growl, dialog, keyed>>

Cleared == [dates |-> "week", estado |-> "", expediente |-> ""]

PageInit ==
  /\ form = Cleared /\ asked = <<>> /\ shown = None
  /\ growl = FALSE /\ dialog = None
  /\ keyed \in BOOLEAN

Lets(f, n) ==
  /\ n \in Window[f.dates]
  /\ f.estado = "" \/ (f.estado = "0") = (n \in Unread)
  /\ f.expediente \in {"", CaseFile[n]}

\* Places from the top of the page down.
Downwards(places) ==
  [k \in 1..Cardinality(places) |->
     CHOOSE i \in places : Cardinality({j \in places : j <= i}) = k]

\* What a filter lets through, in the order of the casilla.
Matches(f) ==
  LET places == Downwards({i \in DOMAIN Box : Lets(f, Box[i])})
  IN  [k \in DOMAIN places |-> Box[places[k]]]

\* The rows on the screen.
Table ==
  IF shown = None THEN <<>>
  ELSE LET all == Matches(shown.form)
           first == (shown.page - 1) * PageSize
       IN  SubSeq(all, first + 1, IF first + PageSize < Len(all) THEN first + PageSize ELSE Len(all))

HasNext(view) == view # None /\ view.page * PageSize < Len(Matches(view.form))

\* The search the server has in hand, answered or not.
Searched ==
  LET tables == {i \in DOMAIN asked : asked[i].to = "table"}
  IN  IF tables = {} THEN shown.form
      ELSE asked[CHOOSE i \in tables : \A j \in tables : j <= i].view.form

Search(f) == [to |-> "table", view |-> [form |-> f, page |-> 1]]
Turn(p) == [to |-> "table", view |-> [form |-> Searched, page |-> p]]
Anexos(n) == [to |-> "dialog", of |-> n]

Sends(request) == asked' = Append(asked, request)

\* The next answer arrives.
Answer ==
  /\ asked # <<>>
  /\ asked' = Tail(asked)
  /\ LET r == Head(asked)
     IN  \/ r.to = "table" /\ shown' = r.view /\ growl' = FALSE /\ UNCHANGED dialog
         \/ /\ r.to = "table" /\ r.view.form \in Refusable
            /\ growl' = TRUE /\ UNCHANGED <<shown, dialog>>
         \/ r.to = "dialog" /\ dialog' = r.of /\ UNCHANGED <<shown, growl>>
  /\ UNCHANGED <<form, keyed>>

=============================================================================
