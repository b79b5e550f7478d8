----------------------------- MODULE LoginProofs -----------------------------
(***************************************************************************)
(* Theorems about SinoeSession, for any number of overlapping syncs, of    *)
(* retries and of failures: its types, the readability of the password     *)
(* through a rotation of the keys, and, where an account has one sync at a *)
(* time, the session a sync leaves behind.  And about CaptchaChain, the    *)
(* captchas of one of its logins, for any number of providers and retries  *)
(* and any timeout.                                                        *)
(***************************************************************************)
EXTENDS SinoeSession, CaptchaChain, TLAPS

\* A login that is about to show the form has an attempt left.
Tries == \A s \in Syncs : pc[s] \in {"probe", "login", "form"} => attempt[s] < Retries

LEMMA TypeInit == Init => TypeOK /\ Tries
  BY SessionAssumption, KeysAssumption DEF Init, TypeOK, KeysTypeOK, KeysInit, Places, Tries

\* An ending keeps the types of what it touches.
LEMMA EndsTyped ==
  ASSUME TypeOK, NEW s \in Syncs, NEW how \in {"ok", "other", "unreadable"} \cup LoginFailed,
         Ends(s, how)
  PROVE  /\ outcome' \in [Syncs -> {"none", "ok", "other", "unreadable"} \cup LoginFailed]
         /\ cached' \in Tokens \cup {None}
         /\ cookie' \in [Syncs -> Tokens \cup {None}]
         /\ pc' \in [Syncs -> Places]
         /\ UNCHANGED <<usable, sealed>>
  BY DEF TypeOK, Ends, Clears, Goes, Places

\* So does a turn of login's loop.
LEMMA NextAttemptTyped ==
  ASSUME TypeOK, NEW s \in Syncs, NextAttempt(s)
  PROVE  /\ outcome' \in [Syncs -> {"none", "ok", "other", "unreadable"} \cup LoginFailed]
         /\ cached' \in Tokens \cup {None}
         /\ cookie' \in [Syncs -> Tokens \cup {None}]
         /\ pc' \in [Syncs -> Places]
         /\ UNCHANGED <<usable, sealed>>
<1>1. CASE Ends(s, "exhausted")
  BY <1>1, EndsTyped DEF LoginFailed
<1>2. CASE Goes(s, "form") /\ UNCHANGED <<cache, cookie, outcome>>
  BY <1>2 DEF TypeOK, Goes, cache, Places
<1> QED
  BY <1>1, <1>2 DEF NextAttempt

\* Every step of one sync keeps the types.
LEMMA SyncTyped ==
  ASSUME TypeOK, Tries, NEW s \in Syncs,
         \/ Step(s) \/ OpenFails(s) \/ Fails(s) \/ ProbeFails(s)
         \/ WrongCaptcha(s) \/ Rejected(s) \/ FormGone(s)
  PROVE  TypeOK'
<1> USE SessionAssumption, KeysAssumption
<1> USE DEF cache, run, keyring, Goes, Fault, KeysTypeOK
<1>1. CASE Begin(s)
  <2>1. CASE ~ Decrypts(OpenSession, password)
    <3>1. Ends(s, "unreadable")
      BY <1>1, <2>1 DEF Begin
    <3> QED
      BY <1>1, <3>1, EndsTyped DEF Begin, TypeOK
  <2>2. CASE Decrypts(OpenSession, password)
    <3> DEFINE state == IF usable = "fresh" /\ Readable THEN cached ELSE None
    <3>1. state \in Tokens \cup {None}
      BY DEF TypeOK
    <3>2. /\ cookie' = [cookie EXCEPT ![s] = state]
          /\ pc' = [pc EXCEPT ![s] = IF state # None THEN "probe" ELSE "login"]
          /\ cached' \in {None, cached}
          /\ UNCHANGED <<usable, sealed, outcome>>
      BY <1>1, <2>2 DEF Begin, Clears
    <3> HIDE DEF state
    <3> QED
      BY <1>1, <3>1, <3>2 DEF Begin, TypeOK, Places
  <2> QED
    BY <2>1, <2>2
<1>2. CASE Probe(s)
  BY <1>2 DEF Probe, TypeOK, Places
<1>3. CASE OpenLogin(s)
  <2>1. CASE Ends(s, "other")
    BY <1>3, <2>1, EndsTyped DEF OpenLogin, TypeOK
  <2>2. CASE Goes(s, "form") /\ UNCHANGED <<cache, cookie, outcome>>
    BY <1>3, <2>2 DEF OpenLogin, TypeOK, Places
  <2> QED
    BY <1>3, <2>1, <2>2 DEF OpenLogin
<1>4. CASE Solve(s)
  BY <1>4 DEF Solve, TypeOK, Places, Tries
<1>5. CASE SubmitWarned(s)
  BY <1>5 DEF SubmitWarned, TypeOK, Places
<1>6. CASE SubmitAccepted(s)
  BY <1>6 DEF SubmitAccepted, TypeOK, Places
<1>7. CASE Terminate(s)
  BY <1>7, NextAttemptTyped DEF Terminate, TypeOK
<1>8. CASE Save(s)
  BY <1>8 DEF Save, TypeOK, Places, Encrypted, OpenSession
<1>9. CASE Walk(s)
  <2>1. Ends(s, "ok") \/ Ends(s, "other")
    BY <1>9 DEF Walk
  <2> QED
    BY <1>9, <2>1, EndsTyped DEF Walk, TypeOK
<1>10. CASE OpenFails(s)
  BY <1>10, EndsTyped DEF OpenFails, TypeOK
<1>11. CASE Fails(s)
  BY <1>11, EndsTyped DEF Fails, TypeOK
<1>12. CASE ProbeFails(s)
  BY <1>12 DEF ProbeFails, TypeOK, Places
<1>13. CASE WrongCaptcha(s)
  BY <1>13, NextAttemptTyped DEF WrongCaptcha, TypeOK
<1>14. CASE Rejected(s)
  BY <1>14, EndsTyped DEF Rejected, TypeOK, LoginFailed
<1>15. CASE FormGone(s)
  BY <1>15 DEF FormGone, TypeOK, Places
<1> QED
  BY <1>1, <1>2, <1>3, <1>4, <1>5, <1>6, <1>7, <1>8, <1>9, <1>10, <1>11, <1>12, <1>13, <1>14,
     <1>15 DEF Step

\* The steps of everybody else, with the rotation of the keys.
Elsewhere == OwnerLogsIn \/ SessionEnds \/ CacheExpires \/ Restart \/ BackendMoves

LEMMA ElsewhereTyped ==
  ASSUME TypeOK, Elsewhere
  PROVE  TypeOK'
<1> USE SessionAssumption, KeysAssumption
<1> USE DEF cache, run, keyring, Fault, KeysTypeOK
<1>1. CASE OwnerLogsIn \/ SessionEnds
  BY <1>1 DEF OwnerLogsIn, SessionEnds, TypeOK
<1>2. CASE CacheExpires
  BY <1>2 DEF CacheExpires, TypeOK
<1>3. CASE Restart
  BY <1>3 DEF Restart, Restarts, BeginRotation, EndRotation, KeysAt, TypeOK, Places
<1>4. CASE BackendMoves
  BY <1>4 DEF BackendMoves, BackendFollows, Reencrypt, TypeOK
<1> QED
  BY <1>1, <1>2, <1>3, <1>4 DEF Elsewhere

LEMMA TriesStep ==
  ASSUME TypeOK, Tries, [Next]_vars
  PROVE  Tries'
<1> USE SessionAssumption DEF Goes, Tries
<1>1. ASSUME NEW s \in Syncs,
             \/ Step(s) \/ OpenFails(s) \/ Fails(s) \/ ProbeFails(s)
             \/ WrongCaptcha(s) \/ Rejected(s) \/ FormGone(s)
      PROVE  Tries'
  <2>1. ASSUME NEW how, Ends(s, how), UNCHANGED attempt
        PROVE  Tries'
    BY <2>1 DEF Ends, TypeOK
  <2>2. ASSUME NextAttempt(s), UNCHANGED attempt
        PROVE  Tries'
    BY <2>1, <2>2 DEF NextAttempt, TypeOK
  <2>3. CASE Begin(s)
    <3>1. CASE Ends(s, "unreadable")
      BY <2>3, <3>1 DEF Begin, Ends, TypeOK
    <3>2. CASE \E place : Goes(s, place)
      BY <2>3, <3>2 DEF Begin, TypeOK
    <3> QED
      BY <2>3, <3>1, <3>2 DEF Begin
  <2>7. CASE Probe(s)
    BY <2>7 DEF Probe, TypeOK
  <2>8. CASE Solve(s)
    BY <2>8 DEF Solve, TypeOK
  <2>4. CASE Save(s) \/ SubmitWarned(s) \/ SubmitAccepted(s) \/ FormGone(s)
    BY <2>4 DEF Save, SubmitWarned, SubmitAccepted, FormGone, run, TypeOK
  <2>5. CASE OpenLogin(s) \/ Walk(s) \/ OpenFails(s) \/ Fails(s) \/ Rejected(s) \/ ProbeFails(s)
    BY <2>1, <2>5 DEF OpenLogin, Walk, OpenFails, Fails, Rejected, ProbeFails, run, TypeOK
  <2>6. CASE Terminate(s) \/ WrongCaptcha(s)
    BY <2>2, <2>6 DEF Terminate, WrongCaptcha, run
  <2> QED
    BY <1>1, <2>3, <2>7, <2>8, <2>4, <2>5, <2>6 DEF Step
<1>2. CASE Elsewhere
  BY <1>2 DEF Elsewhere, OwnerLogsIn, SessionEnds, CacheExpires, Restart, Restarts, BackendMoves, run
<1>3. CASE UNCHANGED vars
  BY <1>3 DEF vars, run
<1> QED
  BY <1>1, <1>2, <1>3 DEF Next, Elsewhere

LEMMA TypeStep ==
  ASSUME TypeOK, Tries, [Next]_vars
  PROVE  TypeOK' /\ Tries'
<1>0. Tries'
  BY TriesStep
<1>1. CASE UNCHANGED vars
  BY <1>0, <1>1 DEF vars, cache, run, keyring, TypeOK, KeysTypeOK
<1> QED
  BY <1>0, <1>1, SyncTyped, ElsewhereTyped DEF Next, Elsewhere

\* The variables of sessions, cache and login loop keep their types, and no
\* login spends more than Retries captchas.
THEOREM TypeCorrect == Spec => []TypeOK
  BY TypeInit, TypeStep, PTL DEF Spec

-----------------------------------------------------------------------------
(* The rotation.                                                           *)

\* How far the rotation is: the scraper reads what the backend writes.
RotationInv ==
  /\ KeysTypeOK
  /\ keys.current = OldKey => keys.old = NoKey /\ backend = OldKey /\ password = OldKey
  /\ keys.current = NewKey /\ keys.old = NoKey => backend = NewKey /\ password = NewKey
  /\ PasswordRead

LEMMA PasswordDecrypts == RotationInv => Decrypts(OpenSession, password)
  BY KeysAssumption DEF RotationInv, KeysTypeOK, Decrypts, OpenSession

LEMMA RotationInit == Init => RotationInv
  BY KeysAssumption DEF Init, KeysInit, RotationInv, KeysTypeOK, PasswordRead

LEMMA RotationStep ==
  ASSUME TypeOK, RotationInv, [Next]_vars
  PROVE  RotationInv'
<1> USE KeysAssumption
<1>1. ASSUME NEW s \in Syncs,
             \/ Step(s) \/ OpenFails(s) \/ Fails(s) \/ ProbeFails(s)
             \/ WrongCaptcha(s) \/ Rejected(s) \/ FormGone(s)
      PROVE  RotationInv'
  <2>1. UNCHANGED keyring
    BY <1>1 DEF Step, Begin, Probe, OpenLogin, Solve, SubmitWarned, SubmitAccepted, Terminate, Save,
           Walk, OpenFails, Fails, ProbeFails, WrongCaptcha, Rejected, FormGone
  <2>2. ASSUME NEW how \in {"ok", "other"} \cup LoginFailed, Ends(s, how)
        PROVE  PasswordRead'
    BY <2>2 DEF RotationInv, PasswordRead, TypeOK, Ends, LoginFailed
  <2>4. UNCHANGED outcome \/ \E how \in {"ok", "other"} \cup LoginFailed : Ends(s, how)
    BY <1>1, PasswordDecrypts
       DEF Step, Begin, Probe, OpenLogin, Solve, SubmitWarned, SubmitAccepted, Terminate, Save,
           Walk, OpenFails, Fails, ProbeFails, WrongCaptcha, Rejected, FormGone, NextAttempt, LoginFailed
  <2>5. PasswordRead'
    BY <2>2, <2>4 DEF RotationInv, PasswordRead
  <2> QED
    BY <2>1, <2>5 DEF RotationInv, keyring, KeysTypeOK
<1>2. CASE OwnerLogsIn \/ SessionEnds \/ CacheExpires
  BY <1>2 DEF OwnerLogsIn, SessionEnds, CacheExpires, RotationInv, keyring, KeysTypeOK, PasswordRead
<1>3. CASE Restart
  BY <1>3 DEF Restart, Restarts, BeginRotation, EndRotation, KeysAt, RotationInv, keyring,
              KeysTypeOK, PasswordRead
<1>4. CASE BackendMoves
  BY <1>4 DEF BackendMoves, BackendFollows, Reencrypt, RotationInv, KeysTypeOK, PasswordRead
<1>5. CASE UNCHANGED vars
  BY <1>5 DEF vars, keyring, RotationInv, KeysTypeOK, PasswordRead
<1> QED
  BY <1>1, <1>2, <1>3, <1>4, <1>5 DEF Next

\* In a rotation that follows its steps no sync ever meets a password it
\* cannot decrypt, however many accounts' syncs run and wherever it is
\* interrupted.
THEOREM RotationSafe == Spec => []PasswordRead
<1>1. RotationInv => PasswordRead
  BY DEF RotationInv
<1> QED
  BY <1>1, TypeInit, TypeStep, RotationInit, RotationStep, PTL DEF Spec

-----------------------------------------------------------------------------
(* What a sync leaves behind, one sync at a time.                          *)

\* A sync that probes or walks does it in the session that is cached.
InCachedSession == \A s \in Syncs : pc[s] \in {"probe", "engine"} => cookie[s] = cached

LEMMA CachedInit == Init => InCachedSession
  BY DEF Init, InCachedSession

LEMMA CachedStep ==
  ASSUME NEW s0, Syncs = {s0}, TypeOK, InCachedSession, [Next]_vars
  PROVE  InCachedSession'
<1> USE DEF cache, Goes, InCachedSession
<1>1. ASSUME NEW s \in Syncs,
             \/ Step(s) \/ OpenFails(s) \/ Fails(s) \/ ProbeFails(s)
             \/ WrongCaptcha(s) \/ Rejected(s) \/ FormGone(s)
      PROVE  InCachedSession'
  <2>1. ASSUME NEW how, Ends(s, how)
        PROVE  InCachedSession'
    BY <2>1 DEF Ends, TypeOK
  <2>2. ASSUME NextAttempt(s)
        PROVE  InCachedSession'
    BY <2>1, <2>2 DEF NextAttempt, TypeOK
  <2>3. CASE Begin(s)
    BY <2>1, <2>3 DEF Begin, TypeOK
  <2>7. CASE Probe(s)
    BY <2>7 DEF Probe, TypeOK
  <2>8. CASE Solve(s)
    BY <2>8 DEF Solve, TypeOK
  <2>4. CASE Save(s) \/ SubmitWarned(s) \/ SubmitAccepted(s) \/ FormGone(s)
    BY <2>4 DEF Save, SubmitWarned, SubmitAccepted, FormGone, run, TypeOK
  <2>5. CASE OpenLogin(s) \/ Walk(s) \/ OpenFails(s) \/ Fails(s) \/ Rejected(s) \/ ProbeFails(s)
    BY <2>1, <2>5 DEF OpenLogin, Walk, OpenFails, Fails, Rejected, ProbeFails, TypeOK
  <2>6. CASE Terminate(s) \/ WrongCaptcha(s)
    BY <2>2, <2>6 DEF Terminate, WrongCaptcha
  <2> QED
    BY <1>1, <2>3, <2>7, <2>8, <2>4, <2>5, <2>6 DEF Step
<1>2. CASE Elsewhere
  BY <1>2 DEF Elsewhere, OwnerLogsIn, SessionEnds, CacheExpires, Restart, Restarts, BackendMoves
<1>3. CASE UNCHANGED vars
  BY <1>3 DEF vars
<1> QED
  BY <1>1, <1>2, <1>3 DEF Next, Elsewhere

\* Where an account has one sync at a time, a sync that works to its end leaves
\* its own session for the next one: no captcha is spent that was not needed.
THEOREM SessionLeft ==
  ASSUME NEW s0, Syncs = {s0}
  PROVE  Spec => OkLeavesSession
<1>1. TypeOK /\ InCachedSession /\ [Next]_vars
        => [\A s \in Syncs : Walk(s) /\ outcome'[s] = "ok" => cached' = cookie[s]]_vars
  <2> SUFFICES ASSUME TypeOK, InCachedSession, NEW s \in Syncs, Walk(s), outcome'[s] = "ok"
               PROVE  cached' = cookie[s]
    OBVIOUS
  <2>1. Ends(s, "ok") \/ Ends(s, "other")
    BY DEF Walk
  <2>2. cached' = cached
    BY <2>1 DEF Ends, LoginFailed
  <2> QED
    BY <2>2 DEF Walk, InCachedSession
<1>2. TypeOK /\ InCachedSession /\ [Next]_vars => InCachedSession'
  BY CachedStep
<1> QED
  BY <1>1, <1>2, TypeInit, TypeStep, CachedInit, PTL DEF Spec, OkLeavesSession

-----------------------------------------------------------------------------
(* The captchas of a login.                                                *)

\* A wait lies between two and twenty seconds.
LEMMA BackoffBounds ==
  ASSUME NEW k \in Nat \ {0}
  PROVE  Backoff(k) \in 2..20
<1>1. CASE k < 5
  <2>1. k = 1 \/ k = 2 \/ k = 3 \/ k = 4
    BY <1>1
  <2> QED
    BY <1>1, <2>1 DEF Backoff
<1>2. CASE ~ (k < 5)
  BY <1>2 DEF Backoff
<1> QED
  BY <1>1, <1>2

\* The providers before the present one have used up their retries, and the
\* present one has been asked as often as tenacity has counted.
UsedUp ==
  phase # "form" =>
    /\ asked[provider] = try
    /\ \A p \in 1..Providers : p < provider => asked[p] = MaxRetries

\* Only a provider with retries left is waited for.
RetriesLeft == phase = "waiting" => try < MaxRetries

LastOneAsked == phase = "captcha_unsolvable" => provider = Providers /\ try = MaxRetries

Chain == ChainTypeOK /\ UsedUp /\ RetriesLeft /\ LastOneAsked

LEMMA ChainBegins == ChainInit => Chain
  BY ChainAssumption DEF ChainInit, Chain, ChainTypeOK, UsedUp, RetriesLeft, LastOneAsked, Endings

LEMMA ChainStep ==
  ASSUME Chain, [ChainNext]_chainVars
  PROVE  Chain'
<1> USE ChainAssumption DEF Chain, UsedUp, RetriesLeft, LastOneAsked
<1>1. CASE ShowCaptcha
  <2>1. asked' \in [1..Providers -> 0..MaxRetries] /\ asked'[1] = 1
    BY <1>1 DEF ShowCaptcha, ChainTypeOK
  <2> QED
    BY <1>1, <2>1 DEF ShowCaptcha, ChainTypeOK, Endings
<1>2. CASE CallFails
  <2>1. wait' \in 0..20
    <3>1. try \in Nat \ {0}
      BY DEF ChainTypeOK
    <3>2. Backoff(try) \in 2..20
      BY <3>1, BackoffBounds
    <3> QED
      BY <1>2, <3>2 DEF CallFails
  <2>2. ChainTypeOK'
    BY <1>2, <2>1 DEF CallFails, ChainTypeOK, Endings
  <2>3. UsedUp' /\ RetriesLeft' /\ LastOneAsked'
    BY <1>2 DEF CallFails
  <2> QED
    BY <2>2, <2>3
<1>3. CASE AsksAgain
  <2>1. try' \in 1..MaxRetries /\ asked[provider] + 1 = try' /\ provider \in 1..Providers
    BY <1>3 DEF AsksAgain, ChainTypeOK
  <2>2. asked' \in [1..Providers -> 0..MaxRetries] /\ asked'[provider] = try'
    BY <1>3, <2>1 DEF AsksAgain, ChainTypeOK
  <2>3. \A p \in 1..Providers : p < provider => asked'[p] = MaxRetries
    BY <1>3, <2>1 DEF AsksAgain, ChainTypeOK
  <2> QED
    BY <1>3, <2>1, <2>2, <2>3 DEF AsksAgain, ChainTypeOK, Endings
<1>4. CASE FallsBack
  <2>1. provider + 1 \in 1..Providers /\ provider \in 1..Providers
    BY <1>4 DEF FallsBack, ChainTypeOK
  <2>2. asked' \in [1..Providers -> 0..MaxRetries] /\ asked'[provider + 1] = 1
    BY <1>4, <2>1 DEF FallsBack, ChainTypeOK
  <2>3. \A p \in 1..Providers : p < provider + 1 => asked'[p] = MaxRetries
    BY <1>4, <2>1 DEF FallsBack, ChainTypeOK
  <2> QED
    BY <1>4, <2>1, <2>2, <2>3 DEF FallsBack, ChainTypeOK, Endings
<1>5. CASE Answers \/ GivesUp \/ TimesOut \/ LogsIn
  BY <1>5 DEF Answers, GivesUp, TimesOut, LogsIn, ChainTypeOK, Endings
<1>6. CASE WrongAnswer
  <2>1. loginAttempt' \in 1..MaxRetries /\ phase' \in {"form", "login_failed"} /\ phase = "answered"
    BY <1>6 DEF WrongAnswer, ChainTypeOK
  <2>2. UNCHANGED <<provider, try, wait, elapsed, asked>>
    BY <1>6 DEF WrongAnswer
  <2>3. ChainTypeOK'
    BY <2>1, <2>2 DEF ChainTypeOK, Endings
  <2> QED
    BY <2>1, <2>2, <2>3
<1>7. CASE Tick
  <2>1. elapsed' \in 0..Guard
    BY <1>7 DEF Tick, ChainTypeOK
  <2>2. wait' \in 0..20
    <3>1. wait \in 0..20
      BY DEF ChainTypeOK
    <3>2. wait' = wait \/ (wait > 0 /\ wait' = wait - 1)
      BY <1>7 DEF Tick
    <3> QED
      BY ONLY <3>1, <3>2
  <2>3. UNCHANGED <<phase, loginAttempt, provider, try, asked>>
    BY <1>7 DEF Tick
  <2>4. ChainTypeOK'
    BY <2>1, <2>2, <2>3 DEF ChainTypeOK
  <2> QED
    BY <2>3, <2>4
<1>8. CASE UNCHANGED chainVars
  BY <1>8 DEF chainVars, ChainTypeOK, Endings
<1> QED
  BY <1>1, <1>2, <1>3, <1>4, <1>5, <1>6, <1>7, <1>8 DEF ChainNext

LEMMA ChainAlways == ChainSpec => []Chain
  BY ChainBegins, ChainStep, PTL DEF ChainSpec

\* The variables of the chain keep their types: no provider is asked more than
\* MaxRetries times for a captcha, and wait_for's limit is never passed.
THEOREM ChainTypeCorrect == ChainSpec => []ChainTypeOK
<1>1. Chain => ChainTypeOK
  BY DEF Chain
<1> QED
  BY <1>1, ChainAlways, PTL

\* A captcha is given up as unsolvable only after every provider of the chain
\* was asked as often as it may be.
THEOREM AllAsked == ChainSpec => []UnsolvableMeansAllAsked
<1>1. ASSUME Chain, phase = "captcha_unsolvable"
      PROVE  asked = [p \in 1..Providers |-> MaxRetries]
  <2>1. \A p \in 1..Providers : asked[p] = MaxRetries
    BY <1>1, ChainAssumption DEF Chain, UsedUp, LastOneAsked, ChainTypeOK
  <2> QED
    BY <1>1, <2>1 DEF Chain, ChainTypeOK
<1>2. Chain => UnsolvableMeansAllAsked
  BY <1>1 DEF UnsolvableMeansAllAsked
<1> QED
  BY <1>2, ChainAlways, PTL

=============================================================================
