# Formal models of lolo-sinoe-scraping

The program logs into SINOE, the electronic notification portal of the Peruvian
judiciary, on behalf of law firms. It walks the *casilla* (mailbox) of every
account, stores the notifications in MariaDB and their attachments in S3, and
links each notification to the judicial case file it belongs to. One Python
process runs the scheduler, the workers, a pool of Chromium browsers and a small
status API; jobs travel through Redis.

This directory holds TLA+ modules translated from the code, TLC configurations
that check them, and proofs for TLAPS. Paths are relative to the repository;
`src/lolo_sinoe/` is written `lolo_sinoe/`.

- [1. Inventory](#1-inventory)
- [2. Modules and how they correspond to the code](#2-modules-and-how-they-correspond-to-the-code)
- [3. Runs](#3-runs)
- [4. Fairness](#4-fairness)
- [5. Proofs](#5-proofs)
- [6. Where the code and its documents differ](#6-where-the-code-and-its-documents-differ)
- [7. What is not modelled](#7-what-is-not-modelled)
- [8. Plan](#8-plan)
- [9. Running the checks](#9-running-the-checks)

## 1. Inventory

| Component | Code | State it keeps | Operations | Correct when |
|---|---|---|---|---|
| Sync dispatch | `scheduler/`, `workers/worker_manager.py`, `workers/scrape_worker.py`, `account_repo.py`, `sync_log_repo.py` | columns of `SINOE_ACCOUNT`, rows of `SINOE_SYNC_LOG`, three Redis lists, worker tasks | tick, enqueue, BRPOP, claim, start log, finish, mark complete | nobody else syncs an account inside its claim window, but for a claim in the second another sync ended; no request and no account is forgotten |
| Server lifespan | `api/server.py` (lifespan), `worker_manager.py`, `scheduler.py` (start and stop) | which of scheduler, worker tasks and pool are running | startup, shutdown, kill | the pool outlives its workers; a shutdown ends and finds every browser at home |
| Rate limiter | `workers/rate_limiter.py` | tokens, time of last refill | `acquire` | every window of time is bounded, nobody sleeps past a token |
| Sync engine | `workers/sync_engine.py`, `exploration/sinoe_navigator.py`, `notification_repo.py`, `s3_client.py` | notification and attachment rows, S3 objects, place in the walk | read page, backfill, insert, open modal, download, turn, stop early | all that the portal's default window held comes in; attachments hang from their own notification and exist in S3 |
| Browser pool | `browser/pool.py` | queue of browsers, pages served by each | `start`, `acquire_context`, `stop` | no browser is lost, shared or used beyond its share |
| Portal session | `auth/login.py`, session cache in `scrape_worker.py`/`account_repo.py` | SINOE's live session, cached storage state, login attempts | probe, login, terminate other session, save, clear | the account always gets to work in a live session again |
| Captcha solvers | `captcha/` | retry and provider loops, ninety-second limit | `solve_image` | a captcha is given up only when all were asked; a login always ends |
| Case-file matching | `notification_repo.py`, `sync_engine.py`, `s3_client.py` | links, S3 prefixes | match after insert, orphan match, read links, build key | nothing crosses customers; links and folders agree |
| Key management | `persistence/kms/`, `config.py` (key settings), `shared_resources.py` | current and secondary key, the key each blob was encrypted with | encrypt, decrypt, rotate | no account is locked out by a rotation |
| Explorer | `exploration/crawler.py`, `recorder.py`, `reporter.py`, `types.py`, `cli.py` (`explore`) | frontier, seen and visited pages, skipped URLs, captures, report | breadth-first crawl | asks for a page once, stays on its hosts and off destructive links, loses no page on the way to the report, and tells of the skipped URLs as far as the report goes |
| Discovery scripts | `scripts/discover_bandeja.py`, `scripts/discover_expediente_search.py` | form and table of the bandeja, findings, recorded calls | filters, paginator, attachments, searches | opens only what was read before; what is reported is what was searched for |
| Status API | `api/` | none | reads | - |
| Configuration, errors, glue | `config.py`, `errors.py`, `logging.py`, `cli.py`, `shared_resources.py` | settings, singletons | wiring | - |

How they interact. The scheduler reads due accounts and pushes jobs; a worker
loop pops one, claims the account in the database and runs a sync: it waits for
the rate limiter, borrows a browser from the pool, gets a session (cached or by
login, which calls the captcha chain), and walks the casilla with the engine,
which writes notifications, matches them with case files and uploads
attachments. The server's lifespan starts the pool first and stops it last, with
the workers in between. Another program, the backend, writes the same tables: it requests
syncs, switches accounts off, opens case files, deletes notifications and encrypts
passwords with a key the scraper must be able to read. The explorer and the
discovery scripts are run by hand; they share the login and the browser code with
the service and nothing else.

What is hard here. Everything runs in one event loop, so code between two awaits
is atomic, but everything else interleaves: worker loops with each other, with
the scheduler's stale snapshot and with shutdown; clients of the limiter and of
the pool with whoever wakes first; a sync with the portal, which goes on
receiving notifications while it pages, and with the owner of the casilla, whose
login ends the worker's session. Every call to the portal, S3, Redis, the
captcha providers and the database can fail, each commit is a transaction of its
own, and the process can die between any two of them. The explorer and the
scripts are sequential; what is hard in them is the portal, which answers with
other pages than those asked for, or after the script has stopped waiting.
`hazards` in `PROJECT.json` lists these by source line, each with the properties that cover it
or the reason why none does.

## 2. Modules and how they correspond to the code

`map` in `PROJECT.json` gives the lines behind every definition. All modules
follow one rule: the code between two awaits is one action; an `except` or an
early return is an action, or a disjunct, of its own; what others do to shared
state (the backend, the portal, the owner, the clock) is a separate action marked
external. Operators named `Mut...` are variants of the definition that follows
them, with a plausible bug. No specification uses them: each one documents a bug
that some property would catch (`mutants` in `PROJECT.json`).

Some properties are defined in a module and checked by no run. They are either
proved (section 5) or do not hold, and then section 6 says so.

**`SyncLease`** states what `claim_for_sync` promises and nothing else: a worker
holds a lease on an account, nobody gets another one for `Window` units of time,
and a holder may outlive its lease without being told. A lease that begins in the
unit of time in which another one on the account was given back may be weak: it
keeps nobody out.

**`SyncDispatch`** is the detailed system. `Tick` is `Scheduler._tick` with
`find_due` (the WHERE of `Due`, the ORDER BY of `SortsBefore`, the LIMIT); it
leaves a snapshot in `pending` that `Enqueue` pushes job by job, since each
`lpush` awaits. `lpush` has no limit and never waits; the model keeps at most
`MaxCopies` jobs of one account in a list, and a push beyond that changes nothing,
since the copies already there stand for it. `Pop` is BRPOP over the lists in order of priority; `Claim` is
`claim_for_sync` with `sync_logs.start`, up to the first await of
`ScrapeWorker.process`; `Refuse` its `None`; `Finish` the two commits that close a
sync. Each can fail (`FindDueFails`, `EnqueueFails`, `ClaimFails`,
`ClaimLogFails`, `FinishFails`), which leaves behind what was committed before.
`StopScheduler`, `StopWorkers` and `Start` are the lifespan, `Crash` is a kill.
Time stamps are kept as ages up to the value at which the code's comparisons stop
changing; `sameInstant` is whether the two stamps the claim compares are equal.
They are DATETIME columns (`models.py:62-63`), so a claim and an end of another sync
in one second may leave them equal, and `TakeClaim` and `MarkSyncComplete` both allow
it whenever the other stamp is of this unit of time (units begin with a second).
While they are equal nobody is refused. `claimAge` and `exposed` are history
variables: `exposed` holds the workers that claimed in such a second.

**`TokenBucket`** is a bucket that fills all the time; **`RateLimiter`** is the
lazily refilled one of the code, with its clients asleep outside the lock. The
unit of time is what one unit of content takes to flow in, so a token costs
`Cost` units. An observer starts to count grants at arbitrary moments: what holds
of its count holds of every window of time. The refinement mapping takes the
abstract level to be `Refilled`, what `acquire` would compute now.

**`SyncEngine`** is the walk of one sync, and several can overlap. `run` sets the
filter for the state and the page size and leaves the dates alone
(`sync_engine.py:240-254`), so the portal shows what it fills in by itself, the
last seven days (`sinoe_navigator.py:221-222`): `Begin` takes the start of that window
as it is then (`since`), `Age` moves the window on, and `Shown` and `HasNext` page over
what came after `since`. `ReadPage` is
one page from `list_notifications` up to the first modal: known rows, the start
of the backfill, or the insert with the pairing of rows and ids; `EndBackfill` is
the insert that comes after a backfill. `OpenModal`, `Upload`, `Create` and their failures
are the attachments: the upload runs in a thread, so other syncs act between it and
the row, and `SINOE_NOTIFICATION_ATTACHMENT` declares no key that would stop a second row (`models.py:137-157`),
though a comment speaks of one (`s3_client.py:87`); `Create` allows both. `End`, `Turn` and `TurnStale` are what follows a page.
Notifications are numbered in order of arrival, and `NewestFirst` puts a set of them
in the portal's order.
An attachment records the notification it is filed under, the one it was
downloaded from, and its name.

**`BrowserPool`** has one action for every await of `acquire_context`, with its
failures (`Raises`, `Abandon`) and its cancellation (`Cancel`), `start` and `stop`
in parts, and crashes of Chromium. Its clients may be cancelled, and the pool
stopped, at any moment. `opened` counts the contexts a Chromium has really had, to
be compared with the code's counter `served`.

**`Service`** extends it with the lifespan of `api/server.py`: `BootPool` and
`StartWorkers` are the startup in its order, `StopScheduler`, `StopWorkers`,
`Cancelled` and `StopPool` the shutdown, in which every worker loop gets its
cancellation where it happens to be and gives back what it holds before
`gather` returns. The clients of the pool are the worker loops, and its actions on the
pool are those of `BrowserPool`.

**`AccountKeys`** is the state of a key rotation: the keys of the scraper's
`KmsClient`, the backend's key, and the key the password was encrypted with. It
assumes that a rotation is done in this order: the scraper is restarted with both
keys, the backend follows, passwords are encrypted again, and then the old key goes.

**`SinoeSession`** extends it with the session of one account: the portal has one
live session per casilla; `Begin`, `Probe` and `ProbeFails` are the cache;
`OpenLogin`, `Solve`, `WrongCaptcha`, `Rejected`, `SubmitWarned`,
`SubmitAccepted`, `FormGone`, `Terminate` and `Save` are the login loop; `Walk` is the
engine seen from here. `FormGone` is a page without the form and without a session,
which `login` takes for a success (`login.py:404-416`): its dead cookie is cached. `Clears`
is `invalidate_cached_session`, whose failure is swallowed. `Restart` is a restart of the server under running syncs, with the
same keys or with those of the next step of the rotation. The owner logs in,
sessions end and cache entries expire at any time.

**`CaptchaChain`** is one login's captchas: login's attempts, the providers of
`FallbackSolver`, tenacity's retries and waits, all under `wait_for`, in seconds.

**`CaseFileMatching`** has the two transactions of `bulk_upsert` (`Insert`,
`Match`), the read of the links (`ReadRoutes`), the uploads whose key is built
from what was read, and the backend's matching, new case files and deletions. A
number is compared as the SQL compares it, with its dashes rewritten
(`Normalized`).

**`Explorer`** is `lolo-sinoe explore`. `Drop`, `Refuse` and `Attach` are the head
of the crawl's loop (seen before, not allowed, next page); `Goto`, `Capture`,
`Record`, `Link` and `Leave` are one page, the links one by one; `GotoFails` and
`Abort` are the two ways it fails, the second one for everything that leaves the
loop; `Finish` writes the report, which counts the skipped URLs and lists the first
`ReportLimit` of them (200, `reporter.py:80`). The portal is fixed in each behaviour: the
links of every page, in order, and the page each URL is answered with. `gotos`
is a history variable.

**`BandejaPage`** is the bandeja as a script sees it through Playwright: a form, a
queue of requests the portal has not answered, and the table and dialog of the
last answers. `Lets` is what a search lets through, and `Downwards` gives the places of
such rows from the top. Rows have positional ids, so a click goes to whatever row is in
that place now. **`Discovery`** runs either script on it, step by step: `Filter`
to `FilterRead` are the filters, `April` to `PagesEnd` the paginator, `ParseRows`
to `AnexosDone` the attachments, `ClickRow` the probe of one row, `BeginScenario`
to `ScenarioRead` the searches by case file with `AjaxRecorder`. The waits are
sleeps in the code, so `Waited` may happen before the answer; each such wait counts
as a fault and clears the history variable `calm`. `StepFails` is the `except`
around a step, `Crash` a failure outside of one.

`MCSyncDispatch` adds a symmetry set; `MCCaseFileMatching`, `MCExplorer` and
`MCDiscovery` give the functions among the constants their values. The
`...Proofs` modules hold the theorems of the module they are named after;
`BrowserPoolProofs` has those of `Service` too, and `LoginProofs` those of
`SinoeSession` and of `CaptchaChain`, which is why the specification of the latter
has names of its own (`ChainSpec`, `chainVars`).

## 3. Runs

The run `engine_earlystop` checks what a comment says and the code does not do: TLC
finds a counterexample. All others pass.

| Run | What it asks | Instance |
|---|---|---|
| `dispatch_lock` | `ExclusiveWithinWindow`, `LogAccounting`, `RequestKept`, refinement of `SyncLease` (`LeaseSpec`) | 1 account, 2 workers, window 2, stamps that may be equal, two failures |
| `dispatch_live` | `RequestClaimed`: a request survives anything; `KeepsSyncing`: no claim left by a dead worker locks an account for good, and only starvation behind a list that is popped first keeps one from syncing | 2 accounts, requests for one of them, 1 worker, one failure |
| `limiter_fair` | `WindowBound`, `NoOversleep`, refinement of `TokenBucket` (`BucketSpec`), `Progress` | 3 clients, 3 tokens of 3 units, 12 units observed |
| `engine_single` | `TypeOK`, `OwnAttachments` under failures, `CompleteAtEnd` without them | 1 sync at a time, 5 notifications, pages of 2, 2 attachments each, one undated, every size of the default window, two failures |
| `engine_overlap` | `AttachmentBacked`, `BackfillRepairs` | 2 syncs, 3 notifications, pages of 2, 1 attachment each, arrivals between syncs only, one failure |
| `engine_earlystop` | violation of `EarlyStopSound` | 1 sync, 4 notifications, one failure |
| `pool_serve` | `NoneLost`, `RecycledInTime`, `PoolOutlivesWorkers`, `ZombieRecycled`, `KeepsServing`, `ShutsDown` | the server with 2 browsers, 3 worker loops, two contexts per Chromium, one failure, a shutdown at any moment |
| `session_recover` | `PasswordRead`, `OkLeavesSession`, `Recovers` | 1 sync at a time, 2 attempts, three disturbances, restarts and one key rotation |
| `captcha_solve` | `UnsolvableMeansAllAsked`, `Settles` | 2 providers, 3 retries, 90 seconds: the code's values |
| `matching_route` | `NothingCrosses`, `FolderMatchesLink`, `FirstUploadRouted` | 3 accounts of 2 customers, 3 case files, one number in two spellings and another one, one failure |
| `explorer_crawl` | `Polite`, `OnlyHarmless`, `Accounted`, `OneListener`, `NearestFirst` | every site of `MCSites`: four pages and one page elsewhere; 3 pages, depth 2, a report of two skipped URLs, two failures |
| `discovery_explore` | `TypeOK`, `OnlyReadOpened`, `FindingsTrue`, `OwnCalls`, `StepsReported` | both scripts, 6 notifications, pages of 2, three failures or late answers |

Bounds, and why they are enough:

- **Dispatch.** Exclusion is about pairs of workers at one account, and accounts
  share nothing but the lists: two workers and one account show every
  interleaving of claim, finish, refusal and kill, and two accounts show the
  competition for one worker. `LockWindow` 2 tells apart "just claimed", "inside"
  and "outlived"; in `dispatch_live`, where only its end matters, it is 1.
  `MaxCopies` 2 allows duplicates of one job in a list; in `dispatch_live`, with one
  worker, 1 still lets an account be in all three lists at a time. `MaxFaults` 2 allows
  a failure during the recovery from another. The theorems of section 5 leave
  all of these arbitrary.
- **Limiter.** Three clients and three tokens let a client wait behind another
  and two wake together; a token of three units leaves fractions of tokens;
  `Horizon` exceeds the capacity. Again the theorems hold for all values.
- **Engine.** Three pages, the last one short, and up to `Burst` arrivals between
  two reads. The default window may hold any number of the newest notifications when a sync
  begins. `Burst` is less than `PageSize`, here and in the code's world (the engine
  asks for pages of 50 rows, `PAGE_SIZE`, and reads them seconds apart): a whole page arriving between two reads would push rows past
  the walk, and `CompleteAtEnd` assumes that this does not happen, here and in its
  theorem. Undated rows are left out of it, since the code skips them on purpose.
  `engine_overlap` has no arrivals while a sync walks: its questions are about what
  two syncs do to the same rows, and arrivals between syncs are enough to push a row
  off the first page.
- **Pool and server.** More worker loops than browsers, so that some wait; two
  contexts per browser, so that recycling happens at once. One failure is enough
  here, since any number of cancellations comes with the shutdown, at every await;
  the safety theorems hold for every `MaxFaults`. Deadlock checking is off, because
  a server that could not start or was shut down is over.
- **Session.** `Tokens` are enough for a new one at every login; three
  disturbances can hit the cache, the live session and the login of one recovery.
  A rotation is four steps that each happen at most once, at any moment.
- **Captcha.** The defaults of `config.py`; deadlock checking is off because a
  login that has ended is the end of the model.
- **Explorer.** Four pages within the hosts are enough for a cycle, a diamond, a
  page of two depths, more skipped URLs than the report lists and fewer, two
  pages whose slugs coincide, a redirect to a page of
  the site or away from it, and for both limits to cut the queue. The first page
  has up to two links, in every order; one link has a destructive text. One seed
  is queued; the command passes none, so this is more than it does. The theorems
  hold for any sites and limits. Deadlock checking is off because a crawl ends.
- **Discovery.** Six notifications of which a third is unread give searches of
  one, two and three pages, rows of both kinds on one page, and a search the
  portal may refuse. `LastPage` is 3 (9 in the code), the number of pages the
  longest search has here. Three faults allow an answer that is late for two steps
  and a failure in the second of them. Deadlock checking is off because a script
  ends.
- **Matching.** Two accounts of one customer is what lets one sync link the other's
  notifications; the second customer has a case file of the same number.

## 4. Fairness

| Module | Assumed | Why the code justifies it |
|---|---|---|
| `SyncDispatch` | weak fairness of `Tick`, `Enqueue`, `Pop`, claim-or-refuse, `Finish`, the clock, `StopWorkers`, `Start` | the event loop runs every ready task; each await of a sync has a timeout (Playwright's, `wait_for`); a stopped server is started again by its supervisor. Failures need no fairness and are bounded |
| `RateLimiter` | weak fairness of the clock and of a client whose sleep is over | `asyncio.sleep` returns. No client has to call `acquire` |
| `SyncEngine` | weak fairness of `Begin` and of the walk | the scheduler keeps starting syncs (`KeepsSyncing`, while no other account's jobs starve this one's), awaits time out |
| `Service` | weak fairness of every step of a worker loop in the pool and of its next job, of a cancelled loop, of each browser's launch and of the steps of startup and shutdown | Playwright calls return or time out; the event loop runs woken and cancelled tasks. A shutdown itself need not come |
| `SinoeSession` | weak fairness of each sync's steps | as for the engine |
| `CaptchaChain` | weak fairness of time, of the loops, of the timeout and of the portal's reply | none for an answer of a provider: it may hang |

`CaseFileMatching`, `Explorer` and `Discovery` state no liveness and assume no
fairness. Nothing is assumed strongly fair. Failures, kills, logins of the owner and the
like are bounded by `MaxFaults`, so a liveness property says: once they stop, the
system recovers.

## 5. Proofs

TLAPS proves the following for all values of the constants, under the named
assumptions of the modules (`DispatchAssumption`, `LimiterAssumption`,
`PoolAssumption`, `KeysAssumption`, `SessionAssumption`, `ChainAssumption`,
`EngineAssumption`, `MatchingAssumption`, `ExplorerAssumption`, `PageAssumption`,
`DiscoveryAssumption`: finite sets, positive windows, limits and costs, distinct
keys, one sync per account; TLC evaluates them on every run).

**`SyncDispatchProofs`.** `TypeCorrect`; `WindowIsGuarded`; `Exclusion`;
`RequestsAreKept`; `ImplementsLease`; `LogsAreAccounted`. Exclusion alone is not inductive: that two
workers are not both inside their window says nothing about the row of
`SINOE_ACCOUNT`, which is all the claim looks at. `WindowGuarded` adds it: while a
worker is inside its window and not exposed the row's stamp is as old as its claim,
the stamps differ, and every other sync of the account has outlived its own claim or
is exposed. With `TypeOK` this is inductive, one lemma or step per action. Nothing is
assumed of the stamps: they may be equal whenever two events share a second, and
`exposed` says whose claims that leaves unprotected. The refinement maps a claim to
`Acquire`, an end to `GiveBack`, failed ends, shutdowns and kills to `Lose`, the
clock to `Elapse`, and everything else to a stutter; `exposed` is the set of weak
leases. `LogsAreAccounted` counts the
running syncs of an account with the cardinality theorems of the library; besides
`TypeOK` its invariant needs that a server that is draining has been disturbed,
for that is how a cancelled sync leaves its row open.

**`RateLimiterProofs`.** `TypeCorrect`; `ContentIsConserved`; `WindowIsBounded`;
`TwicePerPeriod`; `NobodyOversleeps`; `ImplementsBucket`.
`WindowIsBounded` follows from `Conserved`, an accounting
identity in the style of an invariant sum: grants times their cost, plus the
content of the bucket now, never exceed a full bucket plus the time observed.
`TwicePerPeriod` is the bound that the code really has on a period of sixty
seconds (section 6). `NobodyOversleeps` follows from a bound on the sleeps (`SleepFits`): a sleeper's rest
and the content together are at most one token. `ImplementsBucket` maps a
refill by the clock to `Fill` and a grant to `Grant`; going to sleep, which only
stores the refill, is a stutter.

**`BrowserPoolProofs`.** `TypeCorrect`, `NobodyShares`, `NobodyLost`,
`RecycledAlways` of the pool under any use; `OutlivesWorkers`, `EveryoneHome` of the server. That nobody is lost needs that nobody shares: a
browser given back is still its holder's until then. `RecycledInTime` is not
inductive, since `opened` runs ahead of the counter `served` while a client holds
the browser; `Share` bounds `opened` by `served`, plus one where a client has opened
a context and not counted it yet, and says that a client about to open one has
a browser below its share. Every step of the server is one that the pool allows or
leaves it alone (`ServiceStep`), so the pool's invariants carry over. `OutlivesWorkers` follows from `Phases`, which says in each
phase of the server which loops there are; `EveryoneHome` combines it with
`NoneLost`: when the pool is stopped nobody is in it, so all browsers are queued.

**`LoginProofs`.** Of `SinoeSession`: `TypeCorrect`; `RotationSafe`: the password's key is one
the scraper has, in each phase of the rotation; `SessionLeft`, for one sync at a
time: from login or probe to the end of the walk the sync's cookie is the cached
one. Of `CaptchaChain`: `ChainTypeCorrect`; `AllAsked`: providers before the present
one were asked `MaxRetries` times, the present one as often as tenacity counts.

**`SyncEngineProofs`.** `TypeCorrect`; `AttachmentsBacked`, for any number of
overlapping syncs; `OwnUnlessOverlap`, `OwnWhenSingle`; `EarlyStopComplete`. That a row
of `SINOE_NOTIFICATION_ATTACHMENT` has its object in the bucket is inductive once the
work list of a sync is known to hold inserted notifications only (`WorkInserted`) and
what it has sent to be in the bucket (`SentStored`). Whether an
attachment is filed under its own notification depends on the rows of a page and
the ids that came back for them: `OwnInv` says that the two lists pair up
(`IdsAligned`) and that what a sync takes for new is not in the table yet
(`NewsUnknown`). A second sync that inserts the same page breaks both (section 6), so
these theorems carry the hypothesis `[]NoOverlap`, which is what `Exclusion` proves of
the dispatch for syncs that end within the window; it is stated, not assumed of the
constants, and an instance with one sync meets it. `EarlyStopComplete` says why
stopping at the first known page is sound as long as nothing failed: the invariant
(`CompleteInv`) splits the default window at the oldest row the walk has seen: below it is
what earlier syncs left, which has no gap under a known row (`Closed`); from it upwards
nothing is missing that was there when the sync began, or that is older than a
known row (`Covered`). The window only moves forwards, so what a later sync is shown is
part of what an earlier one was shown, and what arrived since. Its hypotheses are `[]NoOverlap` and `Burst < PageSize`: with a
whole page of arrivals between two reads it is false.

**`CaseFileMatchingProofs`.** `TypeCorrect`, `NothingEverCrosses`, `FoldersMatch`,
`LinksAreKept`, `FirstUploadIsRouted`. The inductive invariant adds `RoutesCurrent`:
what a sync has read of the links is still so, because a link once set never
changes. That makes a read done many awaits before the upload harmless. For the
first upload of a notification (`RoutedInv`) it says that a row without a link had no
case file among those that the sync knew when it linked its rows.

**`ExplorerProofs`.** `TypeCorrect`, `Listener`, `PoliteAlways`, `HarmlessAlways`,
`NothingUntold`, for any portal. Politeness is about `gotos`, a count; the invariant
says that a URL that was asked for is in `seen` and that the one about to be asked
for was not asked for yet. `HarmlessAlways` needs that every entry of the queue
is the first page, a seed, or the target of a harmless internal link of a page that
is in the result already. `NearestAlways` is the correctness of the crawl as a
breadth-first search: a page is visited at its distance from the start, and nothing
nearer is left out unless the limits cut it, whatever redirects do, as long as no
navigation fails. The queue is shown to be
layered (its depths never decrease and differ by one at most); from that, when the
crawl takes a URL of depth `d`, everything that can be reached in fewer clicks has
been seen (`NearerSeen`). `Within`, the reference definition of what can be reached in
`d` clicks, is a recursive function. `WithinIs` proves that it is well defined and
`WithinGrows` that it is monotonic, both from a least-number principle
(`LeastNumber`) that is derived from the well-foundedness of the naturals.

**`DiscoveryProofs`.** `TypeCorrect`, `OnlyReadAlways`, `OwnCallsAlways`,
`FindingsAlwaysTrue`, `StepsAlwaysReported`: the five invariants of the scripts, for
any casilla, page size and number of failures. The types need that each step has
phases of its own (`Placed`) and that a log has room for what its phase will add
(`Logged`); that the rows of a page are notifications rests on `RankTaken`, by which
a finite set of numbers has a member of every rank. `OnlyReadAlways`: what has been
parsed had been read (`ReadBefore`), and in calm nothing is asked when a step begins
or reads (`Quiet`), so the rows are still where they were parsed (`RowsThere`) and a
dialog that opens is the first row's (`Opening`). `OwnCallsAlways`: a recorder's log
holds its own search only, and an answer is matched with its call. `FindingsAlwaysTrue`
follows one request: a step that waits has asked for its own form, on the first page,
and nothing else is outstanding (`Searches`, `Awaits`); the paginator waits for the page
after the last one it logged (`Pages`). It carries a hypothesis, that the portal does
not refuse the search for April: it refuses ranges that are longer than its limit,
and a month is not. Without it the invariant is false: a turn that is refused leaves
the page before on the screen, and the loop logs it a second time.
`StepsAlwaysReported` counts: a step that is over and unreported has failed, or April
took the paginator with it (`Counted`), two steps at most for each failure.

Out of the prover's reach, and only model-checked: everything about liveness
(`RequestClaimed`, `KeepsSyncing`, `Progress`, `BackfillRepairs`,
`ZombieRecycled`, `KeepsServing`, `ShutsDown`, `Recovers`, `Settles`). Every invariant
and every safety property that a passing run checks is proved.

`TypeOK` of the proved modules, `WindowGuarded`, `Conserved`, `SleepFits`,
`OneHolder`, `AllHome` and `LinkKept` are proved and in no run: the theorems say
more than an instance would, and the runs check what follows from them.

## 6. Where the code and its documents differ

One difference is a run of its own, `engine_earlystop`: a sync that fails after the
first page leaves the older pages unread behind known rows; every later sync stops
at the known page (`sync_engine.py:362-364`), and nobody looks behind it.

The modules state some more claims that fail. They are not runs; to see the
counterexample, put the name in place of the properties of the configuration, with
the changes given:

| Claim (module) | Source of the claim | What the code does | Configuration |
|---|---|---|---|
| `MutualExclusion` (`SyncDispatch`) | `account_repo.py:96-99` | the lock of FOR UPDATE ends with the commit; what lasts is the stamp, and only for five minutes: a longer sync is joined by another one. `SyncLease` is the promise that is kept | `SyncDispatch_lock.cfg` |
| `IdsAligned` (`SyncEngine`) | `sync_engine.py:378-380` | of two overlapping syncs that insert the same page, one gets ids for some of its rows only, and hands them out from the front: attachments are filed under the wrong notification | `SyncEngine_overlap.cfg` with `PageSize = 3` |
| `RefusedOnlyWhenBusy` (`SyncDispatch`) | `account_repo.py:93-94` | after a normal end the stamps differ, and the account is refused for the rest of its five minutes with nobody working on it | `SyncDispatch_lock.cfg` |
| `SameInstantMeansDone` (`SyncDispatch`) | `account_repo.py:112-113` | the stamps hold whole seconds: a claim in the very second another sync of the account ended makes them equal while the new sync runs | `SyncDispatch_lock.cfg` |
| `AtMostCapacityPerPeriod` (`RateLimiter`) | `rate_limiter.py:3` | a full bucket and its refill: up to ten requests in sixty seconds, not five | `RateLimiter_fair.cfg` |
| `AttachmentsRetried` (`SyncEngine`) | `sync_engine.py:353-355` | a notification that has one of its attachments is never completed | `SyncEngine_overlap.cfg` with `Idents = {i1, i2}` |
| `FailedReuseClears` (`SinoeSession`) | `scrape_worker.py:165` | only `login_failed` clears the cache in practice, and a reused session does not log in | `SinoeSession_recover.cfg` |
| `OkMeansWalked` (`SinoeSession`) | `sync_engine.py:230-231` | a lost session shows a page without rows, which ends the sync as ok | `SinoeSession_recover.cfg` |
| `TimeoutCostsOneAttempt`, `EverySolverTried` (`CaptchaChain`) | `login.py:319`, `fallback_solver.py:14` | the `TimeoutError` of `wait_for` leaves `login` with attempts unused, perhaps before the second provider was asked | `CaptchaChain_solve.cfg` |

The claim of `discover_bandeja.py:9`, "Only opens notifications confirmed as ALREADY
READ", holds with the proviso in `OnlyReadOpened`: when the answer to a search comes
after the wait for it, the table is rendered again between the parse and the
click, and the positional id is another row's. A row with a key is safe.

Read in the code while modelling, without a property: the warning about an active
session does use up an attempt (`login.py:400-402`); shutdown cancels the syncs in
flight (`server.py:61-62`, `worker_manager.py:58`); the S3 segment of an attachment
is not updated when its notification is linked later (`s3_client.py:69-70`); the
engine opens unread notifications too (`README.md:144`, `sync_engine.py:332`);
waiters of the limiter are not served in order (`test_rate_limiter.py:54-55`); the
crawler's `skip_unread_notifications` (`crawler.py:5`, `crawler.py:48`) is read
nowhere, and no caller passes `seed_urls` or `is_safe_to_open`; a client of the
pool that waits when `stop` drains the queue is woken by nobody (`pool.py:126-130`),
which the order of the lifespan makes harmless (`PoolOutlivesWorkers`).

`NobodyStarves` (`SyncDispatch`) is `KeepsSyncing` without its exception, and nobody
promises it. It fails in `SyncDispatch_live.cfg`: BRPOP prefers the monitor list to
the initial one (`worker_manager.py:32`), so where the workers cannot keep up with the
monitor jobs, a new account never gets its first sync.

`Recovers` is checked for one sync at a time. With two overlapping syncs of an
account it fails, without any other disturbance: each finds the other's session
active, terminates it and logs in, and the other's next probe or walk fails in
turn. No document promises otherwise; it is one more consequence of the overlap
that `MutualExclusion` is about.

## 7. What is not modelled

- **Status API and dashboard**: reads and formats tables, changes no state.
- **Configuration, errors, logging, command line**: parsing and wiring, no state
  of their own. What the models depend on (statuses, key settings, limits) is
  mapped where it is used.
- Inside modelled components: HTML selectors and captcha images (a step works or
  fails); ciphers, key formats and data keys (a blob decrypts or not); counters and
  `last_seen` stamps; `LIMIT 100` with more than a hundred requests; the time zone of
  the database session; the thread pool behind `to_thread`;
  `upsert_notification`, which only tests call; what the scripts harvest from a page
  besides rows, dialog and calls (texts, options, markup), and the dialog that
  parses as empty; `scripts/capture_login_html.py`, a single page capture.
- Whether the default window is long enough. A notification that leaves it before any
  sync has seen it is never brought in, however many syncs follow; to exclude that one
  would have to bound the time between two good syncs of an account, which starvation
  and repeated failures make as long as they like. The engine swallows a failing filter
  for the state or page size (`sync_engine.py:243-254`); the model's page size and
  the rows it shows are the ones that come out.
- What a report leaves out once it counts more skipped URLs than it lists: links with a
  destructive text, one for every page that has them, can crowd out a page that failed to load.
- `SyncDispatch` and `SyncEngine` are not composed. The engine's runs assume what
  the dispatch is shown to give: one sync at a time, or overlap after the window.
- The rotation follows the order given in section 2. A backend that switches keys
  before the scraper can read both is not considered.

## 8. Plan

The order was: what decides whether two syncs meet (`SyncDispatch`), what every
request to the portal passes (`RateLimiter`), what a sync leaves in the database
(`SyncEngine`), then what it borrows and depends on (`BrowserPool`,
`SinoeSession`, `CaptchaChain`) and where its results go (`CaseFileMatching`); then
the server around the pool (`Service`), the rotation of keys (`AccountKeys`), and
what is run by hand (`Explorer`, `Discovery`).

Left for later, in this order:

1. A composition of `SyncDispatch` with `SyncEngine`, in which overlap is not
   assumed but arises from claims that outlive their window; then with
   `SinoeSession`, where it ends sessions.
2. The sync-log metrics: counters of a sync that failed half way, captchas paid
   and captchas counted.
3. `find_due` beyond its limit; a bound on the load under which `NobodyStarves`
   holds, and from it a bound on the time between two syncs, to be compared with
   the portal's window.

## 9. Running the checks

    tlc -config SyncDispatch_lock.cfg MCSyncDispatch
    tlapm SyncDispatchProofs.tla

`runs` in `PROJECT.json` pairs every configuration with its module.
