----------------------------- MODULE AccountKeys -----------------------------
(***************************************************************************)
(* The keys an account's secrets are sealed with.  The backend encrypts    *)
(* the password, the scraper the cached session; both with the key that    *)
(* was current when they wrote.  In a rotation the scraper is restarted    *)
(* with the new key as current and the old one beside it, the backend      *)
(* follows, passwords are encrypted again, and only then the old key goes. *)
(***************************************************************************)
EXTENDS Integers

CONSTANTS
  OldKey, NewKey,   \* the two keys of a rotation
  NoKey             \* no secondary key configured

ASSUME KeysAssumption == OldKey # NewKey /\ NoKey \notin {OldKey, NewKey}

VARIABLES
  keys,       \* KmsClient: the current key and the old one
  backend,    \* the backend's current key
  password    \* the key encrypted_password_blob was encrypted with

keyring == <<keys, backend, password>>

KeysInit ==
  /\ keys = [current |-> OldKey, old |-> NoKey]
  /\ backend = OldKey /\ password = OldKey

\* Mutant of OpenSession: the old key is not handed on.
MutOpenSessionPrimary == [primary |-> keys.current, secondary |-> NoKey]

\* open_session: the keys of one sync.
OpenSession == [primary |-> keys.current, secondary |-> keys.old]

\* decrypt: the primary key, then the secondary one.
Decrypts(session, sealed) == sealed \in {session.primary, session.secondary} \ {NoKey}

\* encrypt: always the primary key.
Encrypted(session) == session.primary

\* The server comes up again with the keys of its environment.
KeysAt(current, old) == keys' = [current |-> current, old |-> old]

BeginRotation ==
  /\ keys.current = OldKey
  /\ KeysAt(NewKey, OldKey)
  /\ UNCHANGED <<backend, password>>

\* The backend gets the new key once the scraper reads both.
BackendFollows ==
  /\ backend = OldKey /\ keys.current = NewKey
  /\ backend' = NewKey
  /\ UNCHANGED <<keys, password>>

\* The owner changes the password, or rotate-encryption is run.
Reencrypt ==
  /\ password # backend
  /\ password' = backend
  /\ UNCHANGED <<keys, backend>>

\* The old key leaves the environment after rotate-encryption.
EndRotation ==
  /\ keys.old # NoKey /\ backend = NewKey /\ password = NewKey
  /\ KeysAt(keys.current, NoKey)
  /\ UNCHANGED <<backend, password>>

KeysTypeOK ==
  /\ keys \in [current : {OldKey, NewKey}, old : {OldKey, NoKey}]
  /\ backend \in {OldKey, NewKey}
  /\ password \in {OldKey, NewKey}

=============================================================================
