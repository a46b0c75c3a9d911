------------------------------ MODULE ApiKeys ------------------------------
(***************************************************************************)
(* The rows of api_keys (internal/store/keys.go): keys made in the console *)
(* and the one from SUPER_API_KEY, which every start of the service        *)
(* (main.go) makes the only active one of its kind; edits under a row      *)
(* lock, and what they do with the sealed SMTP password.                   *)
(*                                                                         *)
(* A key is named by its raw value, which is never generated twice but may *)
(* be put into SUPER_API_KEY once it is known. PostgreSQL ends the         *)
(* transactions of a killed process when it notices, and the next process  *)
(* waits for them: the ALTER TABLEs of its schema lock out every other     *)
(* transaction that uses api_keys. So a single statement that is under way *)
(* when the process dies takes effect, if at all, before the next one does *)
(* anything, as if just before the death.                                  *)
(***************************************************************************)
EXTENDS Naturals

CONSTANTS
  Keys,         \* raw API keys
  Edits,        \* PUT requests of the console, each once
  None,
  First,        \* the SMTP password typed in the form that creates a key
  Inputs,       \* what an edit may ask for
  Ciphers,      \* values of API_KEY_ENCRYPTION_KEY
  MaxCrashes    \* bound: how often the process is killed or gives up

Passwords == Edits \cup {First, None}

(* KeyInput, what matters of it here: active may be left out; the SMTP     *)
(* part has a new password, an empty one with a username, or no use for    *)
(* one.                                                                    *)
Input == [active : {"on", "off", "keep"}, super : BOOLEAN,
          password : {"new", "keep", "none"}]

ASSUME ApiKeysConstants ==
  /\ None \notin Keys /\ None \notin Edits
  /\ First \notin Edits /\ First # None
  /\ Inputs \subseteq Input
  /\ MaxCrashes \in Nat

VARIABLES
  rows,      \* api_keys
  known,     \* the raw keys generated or configured so far
  env,       \* SUPER_API_KEY and the cipher of API_KEY_ENCRYPTION_KEY
  phase,     \* how far main has got
  lock,      \* FOR UPDATE locks on the rows
  edit,      \* updateKey handlers and their transactions
  crashes,
  stated,    \* history: what was last asked for each key
  touched    \* history: keys the console changed since the last start

vars == <<rows, known, env, phase, lock, edit, crashes, stated, touched>>

(* origin stands for created_ip, sealed for the cipher of key_encrypted,   *)
(* password for the edit that typed the sealed SMTP password.              *)
Row == [exists : {TRUE}, origin : {"config", "console"}, active : BOOLEAN,
        super : BOOLEAN, password : Passwords, sealed : Ciphers]
NoRow == [exists |-> FALSE]
NewRow(origin, active, super, password, sealed) ==
  [exists |-> TRUE, origin |-> origin, active |-> active, super |-> super,
   password |-> password, sealed |-> sealed]

Waiting == [pc |-> "waiting"]
Done == [pc |-> "done"]
Editing(pc, k, input, password) ==
  [pc |-> pc, key |-> k, input |-> input, password |-> password]

Stated(active, password) == [active |-> active, password |-> password]

Init ==
  /\ rows = [k \in Keys |-> NoRow]
  /\ known = {}
  /\ env \in [configured : {None}, cipher : Ciphers]
  /\ phase = "down"
  /\ lock = [k \in Keys |-> None]
  /\ edit = [e \in Edits |-> Waiting]
  /\ crashes = 0
  /\ stated = [k \in Keys |-> Stated(FALSE, None)]
  /\ touched = {}

----------------------------------------------------------------------------
(* Start-up.                                                               *)

(* Somebody edits .env between two lives of the process.                   *)
ChangeEnv ==
  /\ phase = "down"
  /\ \E k \in Keys \cup {None}, cipher \in Ciphers :
       /\ env' = [configured |-> k, cipher |-> cipher]
       /\ known' = known \cup ({k} \ {None})
  /\ UNCHANGED <<rows, phase, lock, edit, crashes, stated, touched>>

RowLockFree(k) == lock[k] = None

(* store.Open applies the schema first.                                    *)
ApplySchema ==
  /\ phase = "down"
  /\ \A k \in Keys : RowLockFree(k)
  /\ phase' = "migrated"
  /\ UNCHANGED <<rows, known, env, lock, edit, crashes, stated, touched>>

(* EnsureSuperKey: INSERT ... ON CONFLICT (key_hash) DO UPDATE. Mutant: a  *)
(* conflict leaves the old sealed copy.                                    *)
EnsuredKeepingCopy(k) ==
  IF rows[k].exists
  THEN NewRow(rows[k].origin, TRUE, TRUE, rows[k].password, rows[k].sealed)
  ELSE NewRow("config", TRUE, TRUE, None, env.cipher)
Ensured(k) ==
  IF rows[k].exists
  THEN NewRow(rows[k].origin, TRUE, TRUE, rows[k].password, env.cipher)
  ELSE NewRow("config", TRUE, TRUE, None, env.cipher)

EnsureSuperKey ==
  /\ phase = "migrated"
  /\ env.configured # None
  /\ RowLockFree(env.configured)
  /\ rows' = [rows EXCEPT ![env.configured] = Ensured(env.configured)]
  /\ stated' = [stated EXCEPT ![env.configured] =
                  Stated(TRUE, IF rows[env.configured].exists
                               THEN stated[env.configured].password ELSE None)]
  /\ phase' = "ensured"
  /\ UNCHANGED <<known, env, lock, edit, crashes, touched>>

(* The second statement of SyncConfigSuperKey: the keys of earlier values. *)
(* Then the handlers are registered, and only they lock rows. Mutant:      *)
(* key_hash <> $1 alone, which no row satisfies when $1 is NULL.           *)
OutdatedByHash == {k \in Keys : rows[k].exists /\ rows[k].origin = "config" /\ rows[k].active
                                  /\ env.configured # None /\ k # env.configured}
Outdated == {k \in Keys : rows[k].exists /\ rows[k].origin = "config"
                            /\ rows[k].active /\ k # env.configured}

Revoke ==
  /\ phase = IF env.configured = None THEN "migrated" ELSE "ensured"
  /\ \A k \in Outdated : RowLockFree(k)
  /\ rows' = [k \in Keys |->
       IF k \in Outdated
       THEN NewRow("config", FALSE, rows[k].super, rows[k].password, rows[k].sealed)
       ELSE rows[k]]
  /\ stated' = [k \in Keys |->
       IF k \in Outdated THEN Stated(FALSE, stated[k].password) ELSE stated[k]]
  /\ phase' = "up"
  /\ touched' = {}
  /\ UNCHANGED <<known, env, lock, edit, crashes>>

(* The process is killed, or a statement of the start-up fails (log.Fatal);*)
(* it is started again with the environment it finds then.                 *)
Crash ==
  /\ phase # "down"
  /\ crashes < MaxCrashes
  /\ crashes' = crashes + 1
  /\ phase' = "down"
  /\ edit' = [e \in Edits |->
       IF edit[e].pc = "holding"
       THEN Editing("orphan", edit[e].key, edit[e].input, edit[e].password)
       ELSE edit[e]]
  /\ UNCHANGED <<rows, known, env, lock, stated, touched>>

----------------------------------------------------------------------------
(* The console.                                                            *)

(* createKey generates the raw key.                                        *)
CreateKey(k) ==
  /\ phase = "up"
  /\ k \notin known
  /\ known' = known \cup {k}
  /\ \E active, super \in BOOLEAN, password \in {First, None} :
       /\ rows' = [rows EXCEPT ![k] = NewRow("console", active, super, password, env.cipher)]
       /\ stated' = [stated EXCEPT ![k] = Stated(active, password)]
  /\ touched' = touched \cup {k}
  /\ UNCHANGED <<env, phase, lock, edit, crashes>>

SetKeyActive(k) ==
  /\ phase = "up"
  /\ rows[k].exists
  /\ RowLockFree(k)
  /\ \E active \in BOOLEAN :
       /\ rows' = [rows EXCEPT ![k] = NewRow(rows[k].origin, active, rows[k].super,
                                             rows[k].password, rows[k].sealed)]
       /\ stated' = [stated EXCEPT ![k] = Stated(active, stated[k].password)]
  /\ touched' = touched \cup {k}
  /\ UNCHANGED <<known, env, phase, lock, edit, crashes>>

DeleteKey(k) ==
  /\ phase = "up"
  /\ rows[k].exists
  /\ RowLockFree(k)
  /\ rows' = [rows EXCEPT ![k] = NoRow]
  /\ touched' = touched \cup {k}
  /\ UNCHANGED <<known, env, phase, lock, edit, crashes, stated>>

(* UpdateKey. SELECT ... FOR UPDATE reads the password to keep; it finds   *)
(* no row once the key is deleted. Mutant: a SELECT without FOR UPDATE.    *)
LocksNothing(k, e) == lock[k]
LockedBy(k, e) == e

ReadForUpdate(e) ==
  /\ phase = "up"
  /\ edit[e].pc = "waiting"
  /\ \E k \in Keys, input \in Inputs :
       /\ rows[k].exists
       /\ RowLockFree(k)
       /\ lock' = [lock EXCEPT ![k] = LockedBy(k, e)]
       /\ edit' = [edit EXCEPT ![e] = Editing("holding", k, input, rows[k].password)]
  /\ UNCHANGED <<rows, known, env, phase, crashes, stated, touched>>

(* The password rule of UpdateKey, and COALESCE($10, active) in its UPDATE,*)
(* which reads the row again. Mutant: no COALESCE, which stores NULL.      *)
NewPassword(e, input, old) ==
  CASE input.password = "new" -> e
    [] input.password = "keep" -> old
    [] input.password = "none" -> None
NewActiveOrNull(input, old) == IF input.active = "keep" THEN None ELSE input.active = "on"
NewActive(input, old) == IF input.active = "keep" THEN old ELSE input.active = "on"

(* The end of a transaction releases its row. Mutant: it does not.         *)
Unreleased(e) == lock
Released(e) == [k \in Keys |-> IF lock[k] = e THEN None ELSE lock[k]]

EndEdit(e) ==
  /\ lock' = Released(e)
  /\ edit' = [edit EXCEPT ![e] = Done]

(* The UPDATE and COMMIT; a killed process may have sent both.             *)
CommitEdit(e) ==
  /\ edit[e].pc \in {"holding", "orphan"}
  /\ LET k == edit[e].key
         input == edit[e].input
     IN /\ rows[k].exists
        /\ rows' = [rows EXCEPT ![k] =
             NewRow(rows[k].origin, NewActive(input, rows[k].active), input.super,
                    NewPassword(e, input, edit[e].password), rows[k].sealed)]
        /\ stated' = [stated EXCEPT ![k] =
             Stated(IF input.active = "keep" THEN stated[k].active ELSE input.active = "on",
                    IF input.password = "new" THEN e
                    ELSE IF input.password = "keep" THEN stated[k].password ELSE None)]
        /\ touched' = touched \cup {k}
  /\ EndEdit(e)
  /\ UNCHANGED <<known, env, phase, crashes>>

(* A statement fails, or the connection is found closed: ROLLBACK.         *)
AbortEdit(e) ==
  /\ edit[e].pc \in {"holding", "orphan"}
  /\ EndEdit(e)
  /\ UNCHANGED <<rows, known, env, phase, crashes, stated, touched>>

Console(k) == CreateKey(k) \/ SetKeyActive(k) \/ DeleteKey(k)
UpdateKey(e) == ReadForUpdate(e) \/ CommitEdit(e) \/ AbortEdit(e)

Next ==
  \/ ChangeEnv \/ ApplySchema \/ EnsureSuperKey \/ Revoke \/ Crash
  \/ \E k \in Keys : Console(k)
  \/ \E e \in Edits : UpdateKey(e)

Spec == Init /\ [][Next]_vars

(* main goes on; PostgreSQL notices the connections of a killed process.   *)
Fairness ==
  /\ WF_vars(ApplySchema \/ EnsureSuperKey \/ Revoke)
  /\ \A e \in Edits : WF_vars(CommitEdit(e) \/ AbortEdit(e))

FairSpec == Spec /\ Fairness

----------------------------------------------------------------------------
TypeOK ==
  /\ rows \in [Keys -> Row \cup {NoRow}]
  /\ known \subseteq Keys
  /\ \A k \in Keys : rows[k].exists => k \in known
  /\ env.configured \in known \cup {None}
  /\ env \in [configured : Keys \cup {None}, cipher : Ciphers]
  /\ phase \in {"down", "migrated", "ensured", "up"}
  /\ lock \in [Keys -> Edits \cup {None}]
  /\ edit \in [Edits -> {Waiting, Done} \cup
       [pc : {"holding", "orphan"}, key : Keys, input : Inputs, password : Passwords]]
  /\ crashes \in 0..MaxCrashes
  /\ stated \in [Keys -> [active : BOOLEAN, password : Passwords]]
  /\ touched \subseteq Keys

(* "Keys from earlier values are disabled, so changing or clearing         *)
(* SUPER_API_KEY revokes the old key" (keys.go:257): while the service is  *)
(* up no key it had put there itself is active but the present one, unless *)
(* the console changed the key since, and however often the process died   *)
(* between registering a new key and disabling the old one.                *)
OldKeysRevoked ==
  phase = "up" => \A k \in Keys \ (touched \cup {env.configured}) :
    rows[k].exists /\ rows[k].origin = "config" => ~rows[k].active

(* And the present one works: it is an active super key that can be        *)
(* revealed with the cipher of this start, whatever happened to its row    *)
(* in earlier lives of the process, until the console changes it.          *)
ConfiguredKeyWorks ==
  phase = "up" /\ env.configured # None /\ env.configured \notin touched =>
    LET row == rows[env.configured]
    IN row.exists /\ row.active /\ row.super /\ row.sealed = env.cipher

(* Edits are not lost to one another: a row is as active as it was last    *)
(* asked to be, and its SMTP password is the one typed last, even when the *)
(* edit that committed last asked for no change of either.                 *)
LastWordCounts ==
  \A k \in Keys : rows[k].exists =>
    rows[k].active = stated[k].active /\ rows[k].password = stated[k].password

(* The service comes up again after every crash: locks left behind by the  *)
(* process before cannot block its start-up.                               *)
ServiceComesUp == phase # "up" ~> phase = "up"
=============================================================================
