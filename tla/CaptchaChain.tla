---------------------------- MODULE CaptchaChain ----------------------------
(***************************************************************************)
(* The captchas of one login.  Each attempt of login shows the image to    *)
(* the first provider; a provider is asked up to MaxRetries times, with    *)
(* exponential waits, and only then the next one.  The whole chain runs    *)
(* under login's wait_for.  A provider answers rightly or wrongly, fails,  *)
(* or does not come back.  Time is in seconds.                             *)
(***************************************************************************)
EXTENDS Integers, Sequences

CONSTANTS
  Providers,   \* solvers in the chain
  MaxRetries,  \* captcha_max_retries: of login, and of each solver
  Guard        \* the timeout of wait_for

ASSUME ChainAssumption ==
  Providers \in Nat \ {0} /\ MaxRetries \in Nat \ {0} /\ Guard \in Nat \ {0}

VARIABLES
  phase,         \* "form", "calling", "waiting", "answered", or how login ended
  loginAttempt,  \* login's loop counter
  provider,      \* the solver of FallbackSolver's loop
  try,           \* tenacity's attempt_number
  wait,          \* seconds of its sleep that are left
  elapsed,       \* seconds since wait_for began
  asked          \* calls each provider got for this captcha (history)

chainVars == <<phase, loginAttempt, provider, try, wait, elapsed, asked>>

ChainInit ==
  /\ phase = "form" /\ loginAttempt = 1
  /\ provider = 1 /\ try = 1 /\ wait = 0 /\ elapsed = 0
  /\ asked = [p \in 1..Providers |-> 0]

\* wait_exponential(multiplier=2, min=2, max=20) after the k-th call.
Backoff(k) == IF k < 5 THEN <<2, 4, 8, 16>>[k] ELSE 20

-----------------------------------------------------------------------------
\* A new captcha goes to the first provider of the chain.
ShowCaptcha ==
  /\ phase = "form"
  /\ phase' = "calling"
  /\ provider' = 1 /\ try' = 1 /\ elapsed' = 0
  /\ asked' = [p \in 1..Providers |-> IF p = 1 THEN 1 ELSE 0]
  /\ UNCHANGED <<loginAttempt, wait>>

Answers ==
  /\ phase = "calling"
  /\ phase' = "answered"
  /\ UNCHANGED <<loginAttempt, provider, try, wait, elapsed, asked>>

\* The provider raises, or its answer is empty: it is asked again later.
CallFails ==
  /\ phase = "calling" /\ try < MaxRetries
  /\ phase' = "waiting"
  /\ wait' = Backoff(try)
  /\ UNCHANGED <<loginAttempt, provider, try, elapsed, asked>>

AsksAgain ==
  /\ phase = "waiting" /\ wait = 0
  /\ phase' = "calling"
  /\ try' = try + 1
  /\ asked' = [asked EXCEPT ![provider] = @ + 1]
  /\ UNCHANGED <<loginAttempt, provider, wait, elapsed>>

\* Mutant of FallsBack: the chain does not go back to the first try.
MutFallsBackKeepsTry ==
  /\ phase = "calling" /\ try = MaxRetries /\ provider < Providers
  /\ provider' = provider + 1
  /\ asked' = [asked EXCEPT ![provider + 1] = 1]
  /\ UNCHANGED <<phase, loginAttempt, try, wait, elapsed>>

\* RetryError becomes CaptchaUnsolvable: FallbackSolver asks the next one.
FallsBack ==
  /\ phase = "calling" /\ try = MaxRetries /\ provider < Providers
  /\ provider' = provider + 1 /\ try' = 1
  /\ asked' = [asked EXCEPT ![provider + 1] = 1]
  /\ UNCHANGED <<phase, loginAttempt, wait, elapsed>>

\* The last provider has failed: login lets CaptchaUnsolvable through.
GivesUp ==
  /\ phase = "calling" /\ try = MaxRetries /\ provider = Providers
  /\ phase' = "captcha_unsolvable"
  /\ UNCHANGED <<loginAttempt, provider, try, wait, elapsed, asked>>

\* Mutant of TimesOut: only the waits are cut short, not a call that hangs.
MutTimesOutWaits ==
  /\ phase = "waiting" /\ elapsed = Guard
  /\ phase' = "timeout"
  /\ UNCHANGED <<loginAttempt, provider, try, wait, elapsed, asked>>

\* wait_for raises TimeoutError, and nothing in login catches it.
TimesOut ==
  /\ phase \in {"calling", "waiting"} /\ elapsed = Guard
  /\ phase' = "timeout"
  /\ UNCHANGED <<loginAttempt, provider, try, wait, elapsed, asked>>

\* The answer was right.
LogsIn ==
  /\ phase = "answered"
  /\ phase' = "logged_in"
  /\ UNCHANGED <<loginAttempt, provider, try, wait, elapsed, asked>>

\* The form is still there: a new captcha, as long as there are attempts.
WrongAnswer ==
  /\ phase = "answered"
  /\ IF loginAttempt < MaxRetries
       THEN phase' = "form" /\ loginAttempt' = loginAttempt + 1
       ELSE phase' = "login_failed" /\ UNCHANGED loginAttempt
  /\ UNCHANGED <<provider, try, wait, elapsed, asked>>

Tick ==
  /\ \/ phase = "calling" /\ UNCHANGED wait
     \/ phase = "waiting" /\ wait > 0 /\ wait' = wait - 1
  /\ elapsed < Guard
  /\ elapsed' = elapsed + 1
  /\ UNCHANGED <<phase, loginAttempt, provider, try, asked>>

-----------------------------------------------------------------------------
ChainNext ==
  \/ ShowCaptcha \/ Answers \/ CallFails \/ AsksAgain \/ FallsBack \/ GivesUp
  \/ TimesOut \/ LogsIn \/ WrongAnswer \/ Tick

ChainSpec == ChainInit /\ [][ChainNext]_chainVars

\* Time passes and the event loop runs; no provider has to come back.
ChainFairSpec ==
  /\ ChainSpec
  /\ WF_chainVars(Tick) /\ WF_chainVars(ShowCaptcha)
  /\ WF_chainVars(AsksAgain) /\ WF_chainVars(TimesOut)
  /\ WF_chainVars(LogsIn \/ WrongAnswer)

-----------------------------------------------------------------------------
Endings == {"captcha_unsolvable", "timeout", "logged_in", "login_failed"}

\* Every variable keeps its type: no call exceeds a solver's retries, and no
\* captcha takes longer than its timeout.
ChainTypeOK ==
  /\ phase \in {"form", "calling", "waiting", "answered"} \cup Endings
  /\ loginAttempt \in 1..MaxRetries
  /\ provider \in 1..Providers
  /\ try \in 1..MaxRetries
  /\ wait \in 0..20
  /\ elapsed \in 0..Guard
  /\ asked \in [1..Providers -> 0..MaxRetries]

\* A login gives a captcha up as unsolvable only when every provider of the
\* chain has been asked as often as it may be.
UnsolvableMeansAllAsked ==
  phase = "captcha_unsolvable" => asked = [p \in 1..Providers |-> MaxRetries]

\* Every login comes to an end, also when a provider never comes back.
Settles == <>(phase \in Endings)

-----------------------------------------------------------------------------
(* What comments and docs say, and the code does not do.                   *)

\* login.py:319-321: a provider that does not answer within ninety seconds
\* costs this attempt, and the remaining ones are used.
TimeoutCostsOneAttempt == phase = "timeout" => loginAttempt = MaxRetries

\* fallback_solver.py:14: each solver is tried in order, before a captcha is
\* given up.
EverySolverTried ==
  phase \in {"timeout", "captcha_unsolvable"} => \A p \in 1..Providers : asked[p] > 0

=============================================================================
