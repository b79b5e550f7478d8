----------------------------- MODULE SinoeSession -----------------------------
(***************************************************************************)
(* The portal session a sync runs in.  SINOE keeps one live session per    *)
(* casilla.  A worker reuses the session cached in SINOE_ACCOUNT when a    *)
(* probe finds it alive; otherwise login submits credentials and captchas, *)
(* ends the session that is in its way and caches the new one.  The owner  *)
(* and other syncs of the account log in at any time, sessions and cache   *)
(* entries expire, keys are rotated with the server restarted under its    *)
(* syncs, and each call to the portal or to KMS can fail.                  *)
(***************************************************************************)
EXTENDS Integers, AccountKeys

CONSTANTS
  Syncs,      \* the syncs of the account that may overlap
  Tokens,     \* session cookies: enough to hand out a new one every time
  None,       \* no session
  Owner,      \* the session of the casilla's owner
  Retries,    \* captcha_max_retries
  MaxFaults   \* bound: failures, wrong captchas, and what others do

ASSUME SessionAssumption ==
  /\ None \notin Tokens /\ Owner \notin Tokens /\ None # Owner
  /\ Retries \in Nat \ {0} /\ MaxFaults \in Nat

VARIABLES
  live,     \* SINOE: the casilla's session
  cached,   \* cached_storage_state_blob
  usable,   \* "fresh" or "expired"
  sealed,   \* the key the blob was encrypted with
  pc,       \* where each sync is
  cookie,   \* the session cookie of its browser context
  reused,   \* session_was_reused
  attempt,  \* login's loop counter
  outcome,  \* how the sync last ended
  faults    \* failures so far

cache == <<cached, usable, sealed>>
run == <<reused, attempt>>
vars == <<live, cache, pc, cookie, run, outcome, faults, keyring>>

Fault == faults < MaxFaults /\ faults' = faults + 1

Goes(s, place) == pc' = [pc EXCEPT ![s] = place]

Init ==
  /\ live \in {None, Owner}
  /\ cached = None /\ usable = "fresh" /\ sealed = OldKey
  /\ KeysInit
  /\ pc = [s \in Syncs |-> "off"]
  /\ cookie = [s \in Syncs |-> None]
  /\ reused = [s \in Syncs |-> FALSE]
  /\ attempt = [s \in Syncs |-> 0]
  /\ outcome = [s \in Syncs |-> "none"]
  /\ faults = 0

-----------------------------------------------------------------------------
(* How a sync ends.  Both endings of login are the status login_failed,    *)
(* and no other status clears the cache: nothing raises a session_conflict *)
(* error.  The browser context goes, with its cookie.                      *)

LoginFailed == {"exhausted", "rejected"}

\* invalidate_cached_session, whose failure is swallowed.
Clears == cached' \in {None, cached}

Ends(s, how) ==
  /\ outcome' = [outcome EXCEPT ![s] = how]
  /\ IF how \in LoginFailed THEN Clears ELSE UNCHANGED cached
  /\ cookie' = [cookie EXCEPT ![s] = None]
  /\ Goes(s, "off")
  /\ UNCHANGED <<usable, sealed>>

\* login's loop turns once more, or it is over.
NextAttempt(s) ==
  \/ attempt[s] < Retries /\ Goes(s, "form") /\ UNCHANGED <<cache, cookie, outcome>>
  \/ attempt[s] = Retries /\ Ends(s, "exhausted")

\* An awaited call raises something that is not a LoginFailed.
Fails(s) ==
  /\ pc[s] # "off"
  /\ Fault
  /\ Ends(s, "other")
  /\ UNCHANGED <<live, run, keyring>>

-----------------------------------------------------------------------------
(* The worker, up to its first await: _try_load_cached_state.              *)

Readable == Decrypts(OpenSession, sealed)

\* The password must decrypt; a cached session that does not is dropped.
Begin(s) ==
  /\ pc[s] = "off"
  /\ attempt' = [attempt EXCEPT ![s] = 0]
  /\ reused' = [reused EXCEPT ![s] = FALSE]
  /\ IF ~ Decrypts(OpenSession, password)
       THEN Ends(s, "unreadable")
       ELSE LET state == IF usable = "fresh" /\ Readable THEN cached ELSE None
            IN  /\ cookie' = [cookie EXCEPT ![s] = state]
                /\ Goes(s, IF state # None THEN "probe" ELSE "login")
                /\ IF usable = "fresh" /\ ~ Readable THEN Clears ELSE UNCHANGED cached
                /\ UNCHANGED <<usable, sealed, outcome>>
  /\ UNCHANGED <<live, faults, keyring>>

\* KMS does not hand out the account's key.
OpenFails(s) ==
  /\ pc[s] = "off" /\ Fault
  /\ Ends(s, "other")
  /\ UNCHANGED <<live, run, keyring>>

\* Mutant of Probe: the worker trusts expires_at and does not look.
MutProbeTrusts(s) ==
  /\ pc[s] = "probe"
  /\ reused' = [reused EXCEPT ![s] = TRUE]
  /\ Goes(s, "engine")
  /\ UNCHANGED <<live, cache, cookie, attempt, outcome, faults, keyring>>

\* _session_is_alive: a dead cookie leads to the login form.
Probe(s) ==
  /\ pc[s] = "probe"
  /\ reused' = [reused EXCEPT ![s] = (cookie[s] = live)]
  /\ Goes(s, IF cookie[s] = live THEN "engine" ELSE "login")
  /\ UNCHANGED <<live, cache, cookie, attempt, outcome, faults, keyring>>

\* The probe's navigation raises: the session counts as dead.
ProbeFails(s) ==
  /\ pc[s] = "probe"
  /\ Fault
  /\ Goes(s, "login")
  /\ UNCHANGED <<live, cache, cookie, run, outcome, keyring>>

-----------------------------------------------------------------------------
(* login.                                                                  *)

\* The login page of a session that is alive after all has no form to fill.
OpenLogin(s) ==
  /\ pc[s] = "login"
  /\ IF cookie[s] # None /\ cookie[s] = live
       THEN Ends(s, "other")
       ELSE Goes(s, "form") /\ UNCHANGED <<cache, cookie, outcome>>
  /\ UNCHANGED <<live, run, faults, keyring>>

Solve(s) ==
  /\ pc[s] = "form"
  /\ attempt' = [attempt EXCEPT ![s] = @ + 1]
  /\ Goes(s, "solved")
  /\ UNCHANGED <<live, cache, cookie, reused, outcome, faults, keyring>>

WrongCaptcha(s) ==
  /\ pc[s] = "solved"
  /\ Fault
  /\ NextAttempt(s)
  /\ UNCHANGED <<live, reused, attempt, keyring>>

Rejected(s) ==
  /\ pc[s] = "solved"
  /\ Fault
  /\ Ends(s, "rejected")
  /\ UNCHANGED <<live, run, keyring>>

\* Somebody is logged in: SINOE shows the warning instead.
SubmitWarned(s) ==
  /\ pc[s] = "solved" /\ live # None
  /\ Goes(s, "warned")
  /\ UNCHANGED <<live, cache, cookie, run, outcome, faults, keyring>>

InUse == {cached, live} \cup {cookie[s] : s \in Syncs}

SubmitAccepted(s) ==
  /\ pc[s] = "solved" /\ live = None
  /\ \E t \in Tokens \ InUse :
       live' = t /\ cookie' = [cookie EXCEPT ![s] = t]
  /\ Goes(s, "landed")
  /\ UNCHANGED <<cache, run, outcome, faults, keyring>>

\* The form is gone and there is no session: the page is slow, or an error page.
\* login takes it for a success, with an indicator of one or without.
FormGone(s) ==
  /\ pc[s] = "solved"
  /\ Fault
  /\ \E t \in Tokens \ InUse : cookie' = [cookie EXCEPT ![s] = t]
  /\ Goes(s, "landed")
  /\ UNCHANGED <<live, cache, run, outcome, keyring>>

\* FINALIZAR SESIONES ends whatever session there is, and the loop continues.
Terminate(s) ==
  /\ pc[s] = "warned"
  /\ live' = None
  /\ NextAttempt(s)
  /\ UNCHANGED <<run, faults, keyring>>

\* Mutant of Save: a session is cached only where none is.
MutSaveOnce(s) ==
  /\ pc[s] = "landed"
  /\ cached' = IF cached = None THEN cookie[s] ELSE cached
  /\ usable' = "fresh" /\ sealed' = Encrypted(OpenSession)
  /\ Goes(s, "engine")
  /\ UNCHANGED <<live, cookie, run, outcome, faults, keyring>>

\* _capture_session, encrypt and update_cached_session.
Save(s) ==
  /\ pc[s] = "landed"
  /\ cached' = cookie[s]
  /\ usable' = "fresh" /\ sealed' = Encrypted(OpenSession)
  /\ Goes(s, "engine")
  /\ UNCHANGED <<live, cookie, run, outcome, faults, keyring>>

-----------------------------------------------------------------------------
\* The walk of SyncEngine.  Without its session it does not find the module,
\* or it finds a page without rows, which is how a casilla ends.
Walk(s) ==
  /\ pc[s] = "engine"
  /\ \/ Ends(s, "ok")
     \/ cookie[s] # live /\ Ends(s, "other")
  /\ UNCHANGED <<live, run, faults, keyring>>

-----------------------------------------------------------------------------
(* Everybody else.                                                         *)

OwnerLogsIn ==
  /\ Fault
  /\ live' = Owner
  /\ UNCHANGED <<cache, pc, cookie, run, outcome, keyring>>

SessionEnds ==
  /\ live # None
  /\ Fault
  /\ live' = None
  /\ UNCHANGED <<cache, pc, cookie, run, outcome, keyring>>

\* The TTL of the cache entry passes.
CacheExpires ==
  /\ cached # None /\ usable # "expired"
  /\ usable' = "expired"
  /\ UNCHANGED <<live, cached, sealed, pc, cookie, run, outcome, faults, keyring>>

\* The server is restarted, by itself or with other keys: its syncs are gone,
\* and none of their endings runs.
Restarts ==
  /\ pc' = [s \in Syncs |-> "off"]
  /\ cookie' = [s \in Syncs |-> None]
  /\ UNCHANGED <<live, cache, run, outcome>>

Restart ==
  /\ Restarts
  /\ \/ Fault /\ UNCHANGED keyring
     \/ (BeginRotation \/ EndRotation) /\ UNCHANGED faults

BackendMoves ==
  /\ BackendFollows \/ Reencrypt
  /\ UNCHANGED <<live, cache, pc, cookie, run, outcome, faults>>

-----------------------------------------------------------------------------
Step(s) ==
  \/ Begin(s) \/ Probe(s) \/ OpenLogin(s) \/ Solve(s)
  \/ SubmitWarned(s) \/ SubmitAccepted(s) \/ Terminate(s) \/ Save(s) \/ Walk(s)

Next ==
  \/ \E s \in Syncs :
       \/ Step(s) \/ OpenFails(s) \/ Fails(s) \/ ProbeFails(s)
       \/ WrongCaptcha(s) \/ Rejected(s) \/ FormGone(s)
  \/ OwnerLogsIn \/ SessionEnds \/ CacheExpires \/ Restart \/ BackendMoves

Spec == Init /\ [][Next]_vars

\* The scheduler keeps starting syncs and every await has a timeout.
Fairness == \A s \in Syncs : WF_vars(Step(s))

FairSpec == Spec /\ Fairness

-----------------------------------------------------------------------------
Places == {"off", "probe", "login", "form", "solved", "warned", "landed", "engine"}

\* Every variable keeps its type; no login asks for more than Retries captchas.
TypeOK ==
  /\ live \in Tokens \cup {None, Owner}
  /\ cached \in Tokens \cup {None}
  /\ usable \in {"fresh", "expired"}
  /\ sealed \in {OldKey, NewKey}
  /\ KeysTypeOK
  /\ pc \in [Syncs -> Places]
  /\ cookie \in [Syncs -> Tokens \cup {None}]
  /\ reused \in [Syncs -> BOOLEAN]
  /\ attempt \in [Syncs -> 0..Retries]
  /\ outcome \in [Syncs -> {"none", "ok", "other", "unreadable"} \cup LoginFailed]
  /\ faults \in 0..MaxFaults

\* A sync walks the casilla in a session that is alive.
Healthy(s) == pc[s] = "engine" /\ cookie[s] = live

\* A rotation never locks an account out: whatever the scraper and the backend
\* encrypt meanwhile, and whenever the server is restarted, no sync finds a
\* password it cannot decrypt.
PasswordRead == \A s \in Syncs : outcome[s] # "unreadable"

\* A sync that works to its end leaves its own session for the next one,
\* however it came by it.
OkLeavesSession ==
  [][\A s \in Syncs : Walk(s) /\ outcome'[s] = "ok" => cached' = cookie[s]]_vars

\* Dead or expired cache entries, entries under a withdrawn key, sessions of
\* the owner and failed logins never lock the account in failing syncs: it
\* always gets to walk the casilla in a live session again.
Recovers == []<>(\E s \in Syncs : Healthy(s))

-----------------------------------------------------------------------------
(* What comments and docs say, and the code does not do.                   *)

\* scrape_worker.py:165-167: when a sync fails on a reused session, the cache
\* is cleared.
FailedReuseClears ==
  [][\A s \in Syncs :
       Walk(s) /\ reused[s] /\ outcome'[s] = "other" => cached' = None]_vars

\* sync_engine.py:230-232: a page the engine cannot walk raises an error: what
\* ends "ok" had its session.
OkMeansWalked ==
  [][\A s \in Syncs : Walk(s) /\ outcome'[s] = "ok" => cookie[s] = live]_vars

=============================================================================
