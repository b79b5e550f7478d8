------------------------------ MODULE Explorer ------------------------------
(***************************************************************************)
(* The crawl of `lolo-sinoe explore`: breadth first from the page login    *)
(* landed on, through internal links whose text is harmless, on the        *)
(* allowed hosts only, down to a depth and up to a number of pages.  Each  *)
(* page is captured to disk and kept in the result the report is made of.  *)
(* The portal answers a URL with the page of another one when it likes (a  *)
(* session that ended, a moved page), and every call to it can fail.       *)
(***************************************************************************)
EXTENDS Integers, Sequences, SequencesExt

CONSTANTS
  Urls,       \* canonical URLs
  Host,       \* the host name of each
  Allowed,    \* the host names _is_allowed_host accepts
  Start,      \* the page login landed on
  Seeds,      \* seed_urls, in their order
  None,       \* reached from nowhere
  Unsafe,     \* <<page, target>> of the links whose text gives them away
  Sites,      \* the sites the portal may be: links in document order, redirects
  Slug,       \* url_to_slug of each URL, under which its captures are stored
  MaxPages,   \* max_pages
  MaxDepth,   \* max_depth
  ReportLimit,  \* skipped URLs that a report lists
  MaxFaults   \* bound: failed navigations and recordings, interruptions

ASSUME ExplorerAssumption ==
  /\ Slug = [u \in Urls |-> Slug[u]]
  /\ Start \in Urls /\ Seeds \in Seq(Urls) /\ None \notin Urls
  /\ \A w \in Sites : w.links \in [Urls -> Seq(Urls)] /\ w.lands \in [Urls -> Urls]
  /\ MaxPages \in Nat /\ MaxDepth \in Nat /\ ReportLimit \in Nat /\ MaxFaults \in Nat

VARIABLES
  site,       \* the portal
  queue,      \* deque of (url, parent, depth)
  seen,       \* URLs taken from the queue
  visited,    \* result.visited, with the URL each page was asked under
  skipped,    \* result.skipped
  pc,         \* what crawl is awaiting
  job,        \* the entry it is working on
  todo,       \* links of the recorded page still to be gone through
  listeners,  \* NetworkLoggers attached to the page
  disk,       \* output_dir: the page captured under each slug
  report,     \* REPORT.md: the pages and skipped URLs it lists, or None
  gotos,      \* navigations to each URL (history)
  faults

vars == <<site, queue, seen, visited, skipped, pc, job, todo, listeners, disk,
          report, gotos, faults>>

Entry(u, from, d) == [url |-> u, from |-> from, depth |-> d]

Skip(u, why) == [url |-> u, why |-> why]

Fault == faults < MaxFaults /\ faults' = faults + 1

Init ==
  /\ site \in Sites
  /\ queue = <<Entry(Start, None, 0)>> \o
               [i \in DOMAIN Seeds |-> Entry(Seeds[i], Start, 1)]
  /\ seen = {} /\ visited = <<>> /\ skipped = <<>>
  /\ pc = "login" /\ job = Entry(Start, None, 0)
  /\ todo = <<>> /\ listeners = 0
  /\ disk = [f \in Range(Slug) |-> None]
  /\ report = None
  /\ gotos = [u \in Urls |-> 0]
  /\ faults = 0

-----------------------------------------------------------------------------
(* explore: the login, then the crawl from the page it landed on.          *)

Login ==
  /\ pc = "login"
  /\ pc' = "pop"
  /\ UNCHANGED <<site, queue, seen, visited, skipped, job, todo, listeners, disk, report, gotos, faults>>

\* explore_aborted_login_failed: nothing is crawled, nothing is written.
LoginFails ==
  /\ pc = "login" /\ Fault
  /\ pc' = "aborted"
  /\ UNCHANGED <<site, queue, seen, visited, skipped, job, todo, listeners, disk, report, gotos>>

-----------------------------------------------------------------------------
(* The loop: one entry of the queue.                                       *)

Loops == pc = "pop" /\ queue # <<>> /\ Len(visited) < MaxPages

\* Mutant of PopLeft: the newest entry is taken.
MutPopLeftNewest(q) == [job |-> Last(q), rest |-> Front(q)]

PopLeft(q) == [job |-> Head(q), rest |-> Tail(q)]

\* Seen before: `continue`.
Drop ==
  /\ Loops
  /\ PopLeft(queue).job.url \in seen
  /\ queue' = PopLeft(queue).rest
  /\ UNCHANGED <<site, seen, visited, skipped, pc, job, todo, listeners, disk, report, gotos, faults>>

\* Mutant of Refused: the host is not looked at.
MutRefusedAbroad(e) == IF e.depth > MaxDepth THEN {"depth"} ELSE {}

\* Why an entry is not navigated to: the first reason, if there is one.
Refused(e) ==
  IF Host[e.url] \notin Allowed THEN {"host"}
  ELSE IF e.depth > MaxDepth THEN {"depth"} ELSE {}

Refuse ==
  LET e == PopLeft(queue).job
  IN  /\ Loops
      /\ e.url \notin seen
      /\ queue' = PopLeft(queue).rest
      /\ seen' = seen \cup {e.url}
      /\ \E why \in Refused(e) : skipped' = Append(skipped, Skip(e.url, why))
      /\ UNCHANGED <<site, visited, pc, job, todo, listeners, disk, report, gotos, faults>>

\* A NetworkLogger is attached; then the crawl waits for min_delay_ms.
Attach ==
  LET e == PopLeft(queue).job
  IN  /\ Loops
      /\ e.url \notin seen /\ Refused(e) = {}
      /\ queue' = PopLeft(queue).rest
      /\ seen' = seen \cup {e.url}
      /\ job' = e
      /\ listeners' = listeners + 1
      /\ pc' = "delay"
      /\ UNCHANGED <<site, visited, skipped, todo, disk, report, gotos, faults>>

Goto ==
  /\ pc = "delay"
  /\ gotos' = [gotos EXCEPT ![job.url] = @ + 1]
  /\ pc' = "loaded"
  /\ UNCHANGED <<site, queue, seen, visited, skipped, job, todo, listeners, disk, report, faults>>

\* Mutant of GotoFails: the failure is only logged.
MutGotoFailsSilently ==
  /\ pc = "delay" /\ Fault
  /\ gotos' = [gotos EXCEPT ![job.url] = @ + 1]
  /\ listeners' = listeners - 1
  /\ pc' = "pop"
  /\ UNCHANGED <<site, queue, seen, visited, skipped, job, todo, disk, report>>

\* page.goto raises: the page does not count, and is not tried again.
GotoFails ==
  /\ pc = "delay" /\ Fault
  /\ gotos' = [gotos EXCEPT ![job.url] = @ + 1]
  /\ skipped' = Append(skipped, Skip(job.url, "goto"))
  /\ listeners' = listeners - 1
  /\ pc' = "pop"
  /\ UNCHANGED <<site, queue, seen, visited, job, todo, disk, report>>

Landed == site.lands[job.url]

\* record_page up to its extractions: the files are written; a screenshot that
\* fails is only logged.
Capture ==
  /\ pc = "loaded"
  /\ disk' = [disk EXCEPT ![Slug[Landed]] = Landed]
  /\ pc' = "captured"
  /\ UNCHANGED <<site, queue, seen, visited, skipped, job, todo, listeners, report, gotos, faults>>

\* Mutant of Follow: the text of a link is not looked at.
MutFollowAnyText(page, u) == Host[u] = Host[page]

\* The links that are followed from a page: internal, harmless text.
Follow(page, u) == Host[u] = Host[page] /\ <<page, u>> \notin Unsafe

\* record_page returns: the page goes into the result.  Its links are gone
\* through unless they would be too deep.
Record ==
  /\ pc = "captured"
  /\ visited' = Append(visited, [asked |-> job.url, url |-> Landed,
                                 from |-> job.from, depth |-> job.depth])
  /\ todo' = IF job.depth + 1 <= MaxDepth THEN site.links[Landed] ELSE <<>>
  /\ pc' = "links"
  /\ UNCHANGED <<site, queue, seen, skipped, job, listeners, disk, report, gotos, faults>>

Link ==
  LET u == Head(todo)
  IN  /\ pc = "links" /\ todo # <<>>
      /\ todo' = Tail(todo)
      /\ queue' = IF Follow(Landed, u) /\ u \notin seen
                    THEN Append(queue, Entry(u, Landed, job.depth + 1)) ELSE queue
      /\ skipped' = IF Host[u] = Host[Landed] /\ ~ Follow(Landed, u)
                      THEN Append(skipped, Skip(u, "text")) ELSE skipped
      /\ UNCHANGED <<site, seen, visited, pc, job, listeners, disk, report, gotos, faults>>

\* The finally: the logger is detached.
Leave ==
  /\ pc = "links" /\ todo = <<>>
  /\ listeners' = listeners - 1
  /\ pc' = "pop"
  /\ UNCHANGED <<site, queue, seen, visited, skipped, job, todo, disk, report, gotos, faults>>

\* Mutant of Abort: the detach is not in a finally.
MutAbortAttached ==
  /\ pc \in {"delay", "loaded", "captured"} /\ Fault
  /\ pc' = "aborted"
  /\ UNCHANGED <<site, queue, seen, visited, skipped, job, todo, listeners, disk, report, gotos>>

\* An exception of record_page, or an interruption, ends the crawl.
Abort ==
  /\ pc \in {"delay", "loaded", "captured"} /\ Fault
  /\ listeners' = listeners - 1
  /\ pc' = "aborted"
  /\ UNCHANGED <<site, queue, seen, visited, skipped, job, todo, disk, report, gotos>>

\* The section of the skipped URLs: the first ones, each with its reason.
ListedSkips == {skipped[i] : i \in DOMAIN skipped \cap 1..ReportLimit}

\* generate_report: the pages by their depth, and how many URLs were skipped.
Report ==
  [pages |-> [d \in 0..MaxDepth |-> {v.url : v \in {w \in Range(visited) : w.depth = d}}],
   count |-> Len(skipped),
   skipped |-> ListedSkips]

\* crawl returns and the report is written.
Finish ==
  /\ pc = "pop"
  /\ queue = <<>> \/ Len(visited) >= MaxPages
  /\ report' = Report
  /\ pc' = "done"
  /\ UNCHANGED <<site, queue, seen, visited, skipped, job, todo, listeners, disk, gotos, faults>>

-----------------------------------------------------------------------------
Step == Login \/ Drop \/ Refuse \/ Attach \/ Goto \/ Capture \/ Record \/ Link \/ Leave \/ Finish

Next == Step \/ LoginFails \/ GotoFails \/ Abort

Spec == Init /\ [][Next]_vars

-----------------------------------------------------------------------------
Skips == [url : Urls, why : {"host", "depth", "goto", "text"}]

\* Every variable keeps its type.
TypeOK ==
  /\ site \in Sites
  /\ queue \in Seq([url : Urls, from : Urls \cup {None}, depth : Nat])
  /\ seen \subseteq Urls
  /\ visited \in Seq([asked : Urls, url : Urls, from : Urls \cup {None}, depth : 0..MaxDepth])
  /\ skipped \in Seq(Skips)
  /\ pc \in {"login", "pop", "delay", "loaded", "captured", "links", "done", "aborted"}
  /\ job \in [url : Urls, from : Urls \cup {None}, depth : Nat]
  /\ todo \in Seq(Urls)
  /\ listeners \in 0..1
  /\ disk \in [Range(Slug) -> Urls \cup {None}]
  /\ report \in {None} \cup [pages : [0..MaxDepth -> SUBSET Urls], count : Nat,
                            skipped : SUBSET Skips]
  /\ gotos \in [Urls -> Nat]
  /\ faults \in 0..MaxFaults

\* A link that may be followed: to the same host, with a harmless text.
Harmless(page, u) == Host[page] = Host[u] /\ <<page, u>> \notin Unsafe

Asked == {v.asked : v \in Range(visited)}

\* The crawl is polite: it asks for a URL once at most, however many links and
\* redirects lead to it, and never for one on another host.
Polite ==
  \A u \in Urls : gotos[u] <= 1 /\ (gotos[u] > 0 => Host[u] \in Allowed)

\* It never follows a link whose text is destructive, nor one to another host:
\* a page in the result is the first one, a seed, or the target of a harmless
\* internal link of a page that came into the result before.
OnlyHarmless ==
  \A i \in DOMAIN visited :
    LET v == visited[i]
    IN  \/ v.asked = Start \/ v.asked \in Range(Seeds)
        \/ \E j \in 1..(i - 1) :
             /\ visited[j].url = v.from /\ visited[j].depth + 1 = v.depth
             /\ v.asked \in Range(site.links[v.from])
             /\ Harmless(v.from, v.asked)

\* Nothing gets lost on the way to the report: a URL that was taken from the
\* queue is in the result, or among the skipped ones with its reason, or it is
\* the one the crawl is busy with (or was, when it was interrupted); for every
\* page of the result there is a file, its own unless a later page has the same
\* slug; a report that was written lists every page, and unless it counts more
\* skipped URLs than it lists, it tells of every URL that was taken.  (The links
\* with a destructive text take up that list too, so past ReportLimit entries a
\* page that failed to load can be missing from the report.)
Accounted ==
  /\ \A u \in seen :
       \/ u \in Asked
       \/ \E x \in Range(skipped) : x.url = u /\ x.why # "text"
       \/ pc \in {"delay", "loaded", "captured", "aborted"} /\ u = job.url
  /\ \A v \in Range(visited) :
       disk[Slug[v.url]] \in {u \in Urls : Slug[u] = Slug[v.url]}
  /\ report # None =>
       /\ UNION {report.pages[d] : d \in 0..MaxDepth} = {v.url : v \in Range(visited)}
       /\ report.count <= ReportLimit =>
            \A u \in seen \ Asked : \E x \in report.skipped : x.url = u /\ x.why # "text"

\* No logger outlives its URL: the page has one listener while a URL is worked on
\* and none before and after, also when a navigation or a recording fails, so no
\* request is logged under two URLs.  (Each is attached before the delay, so what
\* the page before still loads during the delay is logged under the new URL.)
OneListener ==
  listeners = IF pc \in {"delay", "loaded", "captured", "links"} THEN 1 ELSE 0

\* The URLs within d followed links of the first page; seeds count as one away.
Within[d \in Nat] ==
  IF d = 0 THEN {Start}
  ELSE LET pages == {site.lands[u] : u \in {w \in Within[d - 1] : Host[w] \in Allowed}}
       IN  Within[d - 1] \cup (IF d = 1 THEN Range(Seeds) ELSE {})
             \cup UNION {{u \in Range(site.links[p]) : Harmless(p, u)} : p \in pages}

\* Without failures every page has the depth of the shortest way to it, and
\* when the crawl ends it has every page within the depth, or as many as it
\* may, and then none that is farther away than one it left out.
NearestFirst ==
  faults = 0 =>
    /\ \A v \in Range(visited) :
         /\ v.asked \in Within[v.depth]
         /\ v.depth > 0 => v.asked \notin Within[v.depth - 1]
    /\ pc = "done" =>
         \A d \in 0..MaxDepth : \A u \in Within[d] \ Asked :
           Host[u] \in Allowed =>
             Len(visited) = MaxPages /\ \A v \in Range(visited) : v.depth <= d

=============================================================================
