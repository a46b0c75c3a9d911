--------------------------- MODULE ApiKeys_proofs ---------------------------
(***************************************************************************)
(* Proofs about ApiKeys: revoking by start-up, the configured key, and the *)
(* edits of a row, for any number of keys, edits and restarts.             *)
(***************************************************************************)
EXTENDS ApiKeys, TLAPS

Held(e) == edit[e].pc \in {"holding", "orphan"}

(* An edit between its two statements has the lock of its row, and what it *)
(* read there is still so.                                                 *)
HeldRows ==
  \A e \in Edits : Held(e) =>
    /\ edit[e].key \in Keys
    /\ lock[edit[e].key] = e
    /\ rows[edit[e].key].exists
    /\ rows[edit[e].key].password = edit[e].password

Works(k) == rows[k].exists /\ rows[k].active /\ rows[k].super /\ rows[k].sealed = env.cipher

(* Between the two statements of the start-up nobody can touch the new key.*)
EnsuredWorks ==
  phase = "ensured" =>
    env.configured \in Keys /\ lock[env.configured] = None /\ Works(env.configured)

IInv ==
  /\ TypeOK
  /\ HeldRows
  /\ EnsuredWorks
  /\ OldKeysRevoked
  /\ ConfiguredKeyWorks
  /\ LastWordCounts

LEMMA NewRowFields ==
  ASSUME NEW origin, NEW active, NEW super, NEW password, NEW sealed
  PROVE  LET row == NewRow(origin, active, super, password, sealed)
         IN /\ row.exists /\ row.origin = origin /\ row.active = active
            /\ row.super = super /\ row.password = password /\ row.sealed = sealed
BY DEF NewRow

LEMMA NewRowTyped ==
  ASSUME NEW origin \in {"config", "console"}, NEW active \in BOOLEAN,
         NEW super \in BOOLEAN, NEW password \in Passwords, NEW sealed \in Ciphers
  PROVE  NewRow(origin, active, super, password, sealed) \in Row
BY DEF NewRow, Row

LEMMA RowFields ==
  ASSUME TypeOK, NEW k \in Keys, rows[k].exists
  PROVE  /\ rows[k].origin \in {"config", "console"} /\ rows[k].active \in BOOLEAN
         /\ rows[k].super \in BOOLEAN /\ rows[k].password \in Passwords
         /\ rows[k].sealed \in Ciphers
<1>1. rows[k] \in Row \cup {NoRow}
  BY DEF TypeOK
<1>2. rows[k] # NoRow
  BY DEF NoRow
<1> QED
  BY <1>1, <1>2 DEF Row

LEMMA InitIInv == Init => IInv
<1> SUFFICES ASSUME Init PROVE IInv
  OBVIOUS
<1>1. \A k \in Keys : rows[k] = NoRow /\ ~rows[k].exists
  BY DEF Init, NoRow
<1>2. \A e \in Edits : edit[e] = Waiting /\ ~Held(e)
  BY DEF Init, Waiting, Held
<1>3. TypeOK
  <2>1. rows \in [Keys -> Row \cup {NoRow}]
    BY DEF Init
  <2>2. stated \in [Keys -> [active : BOOLEAN, password : Passwords]]
    BY DEF Init, Stated, Passwords
  <2>3. edit \in [Edits -> {Waiting, Done}]
    BY DEF Init
  <2>4. crashes \in 0..MaxCrashes
    BY ApiKeysConstants DEF Init
  <2>5. /\ known \subseteq Keys /\ touched \subseteq Keys
        /\ lock \in [Keys -> Edits \cup {None}]
        /\ phase \in {"down", "migrated", "ensured", "up"}
    BY DEF Init
  <2>6. /\ env \in [configured : Keys \cup {None}, cipher : Ciphers]
        /\ env.configured \in known \cup {None}
    BY DEF Init
  <2> QED
    BY <1>1, <2>1, <2>2, <2>3, <2>4, <2>5, <2>6 DEF TypeOK
<1>4. HeldRows
  BY <1>2 DEF HeldRows
<1>5. EnsuredWorks /\ OldKeysRevoked /\ ConfiguredKeyWorks
  BY DEF Init, EnsuredWorks, OldKeysRevoked, ConfiguredKeyWorks
<1>6. LastWordCounts
  BY <1>1 DEF LastWordCounts
<1> QED
  BY <1>3, <1>4, <1>5, <1>6 DEF IInv

----------------------------------------------------------------------------
(* Types.                                                                  *)
LEMMA EnsuredFields ==
  ASSUME TypeOK, NEW k \in Keys
  PROVE  /\ Ensured(k) \in Row
         /\ Ensured(k).exists /\ Ensured(k).active /\ Ensured(k).super
         /\ Ensured(k).sealed = env.cipher
         /\ rows[k].exists => Ensured(k).password = rows[k].password
         /\ ~rows[k].exists => Ensured(k).password = None
<1>1. env.cipher \in Ciphers /\ None \in Passwords
  BY DEF TypeOK, Passwords
<1>2. CASE rows[k].exists
  <2>1. rows[k].origin \in {"config", "console"} /\ rows[k].password \in Passwords
    BY <1>2, RowFields
  <2>2. Ensured(k) = NewRow(rows[k].origin, TRUE, TRUE, rows[k].password, env.cipher)
    BY <1>2 DEF Ensured
  <2>3. Ensured(k) \in Row
    BY <1>1, <2>1, <2>2, NewRowTyped
  <2> QED
    BY <1>2, <2>2, <2>3 DEF NewRow
<1>3. CASE ~rows[k].exists
  <2>1. Ensured(k) = NewRow("config", TRUE, TRUE, None, env.cipher)
    BY <1>3 DEF Ensured
  <2>2. Ensured(k) \in Row
    BY <1>1, <2>1, NewRowTyped
  <2> QED
    BY <1>3, <2>1, <2>2 DEF NewRow
<1> QED
  BY <1>2, <1>3

LEMMA HeldFields ==
  ASSUME TypeOK, NEW e \in Edits, Held(e)
  PROVE  /\ edit[e].key \in Keys /\ edit[e].input \in Input
         /\ edit[e].password \in Passwords
<1>1. edit[e] \in {Waiting, Done} \cup
       [pc : {"holding", "orphan"}, key : Keys, input : Inputs, password : Passwords]
  BY DEF TypeOK
<1>2. edit[e] # Waiting /\ edit[e] # Done
  BY DEF Held, Waiting, Done
<1> QED
  BY <1>1, <1>2, ApiKeysConstants

LEMMA RowsReplaced ==
  ASSUME TypeOK, NEW k \in Keys, NEW row \in Row \cup {NoRow},
         rows' = [rows EXCEPT ![k] = row]
  PROVE  /\ rows' \in [Keys -> Row \cup {NoRow}]
         /\ rows'[k] = row
         /\ \A j \in Keys : j # k => rows'[j] = rows[j]
BY DEF TypeOK

LEMMA EditDone ==
  ASSUME TypeOK, NEW e \in Edits, EndEdit(e)
  PROVE  /\ lock' \in [Keys -> Edits \cup {None}]
         /\ edit' = [edit EXCEPT ![e] = Done]
         /\ edit' \in [Edits -> {Waiting, Done} \cup
              [pc : {"holding", "orphan"}, key : Keys, input : Inputs, password : Passwords]]
         /\ ~Held(e)'
         /\ \A k \in Keys : lock[k] # e => lock'[k] = lock[k]
         /\ \A d \in Edits : d # e => edit'[d] = edit[d]
<1>1. edit' = [edit EXCEPT ![e] = Done] /\ lock' = Released(e)
  BY DEF EndEdit
<1>2. edit'[e] = Done /\ \A d \in Edits : d # e => edit'[d] = edit[d]
  BY <1>1 DEF TypeOK
<1>3. edit' \in [Edits -> {Waiting, Done} \cup
              [pc : {"holding", "orphan"}, key : Keys, input : Inputs, password : Passwords]]
  BY <1>1 DEF TypeOK
<1>4. ~Held(e)'
  BY <1>2 DEF Held, Done
<1>5. lock' \in [Keys -> Edits \cup {None}]
  BY <1>1 DEF TypeOK, Released
<1>6. \A k \in Keys : lock[k] # e => lock'[k] = lock[k]
  BY <1>1 DEF Released
<1> QED
  BY <1>1, <1>2, <1>3, <1>4, <1>5, <1>6

(* What the UPDATE of an edit writes.                                      *)
Updated(e) ==
  NewRow(rows[edit[e].key].origin, NewActive(edit[e].input, rows[edit[e].key].active),
         edit[e].input.super, NewPassword(e, edit[e].input, edit[e].password),
         rows[edit[e].key].sealed)

LEMMA UpdatedFields ==
  ASSUME TypeOK, NEW e \in Edits, Held(e), rows[edit[e].key].exists
  PROVE  /\ Updated(e) \in Row
         /\ Updated(e).exists
         /\ Updated(e).active = NewActive(edit[e].input, rows[edit[e].key].active)
         /\ Updated(e).password = NewPassword(e, edit[e].input, edit[e].password)
         /\ Updated(e).active \in BOOLEAN /\ Updated(e).password \in Passwords
<1>1. /\ edit[e].key \in Keys /\ edit[e].input \in Input
      /\ edit[e].password \in Passwords
  BY HeldFields
<1>2. /\ rows[edit[e].key].origin \in {"config", "console"}
      /\ rows[edit[e].key].active \in BOOLEAN
      /\ rows[edit[e].key].sealed \in Ciphers
  BY <1>1, RowFields
<1>3. NewActive(edit[e].input, rows[edit[e].key].active) \in BOOLEAN
  BY <1>2 DEF NewActive
<1>4. edit[e].input.password \in {"new", "keep", "none"} /\ edit[e].input.super \in BOOLEAN
  BY <1>1 DEF Input
<1>5. NewPassword(e, edit[e].input, edit[e].password) \in Passwords
  BY <1>1, <1>4 DEF NewPassword, Passwords
<1> QED
  BY <1>2, <1>3, <1>4, <1>5, NewRowFields, NewRowTyped DEF Updated

(* What a commit does to the records of what was asked for.                *)
Asked(e) ==
  Stated(IF edit[e].input.active = "keep" THEN stated[edit[e].key].active
         ELSE edit[e].input.active = "on",
         IF edit[e].input.password = "new" THEN e
         ELSE IF edit[e].input.password = "keep" THEN stated[edit[e].key].password ELSE None)

LEMMA CommitWrites ==
  ASSUME TypeOK, NEW e \in Edits, CommitEdit(e)
  PROVE  /\ Held(e) /\ edit[e].key \in Keys /\ rows[edit[e].key].exists
         /\ rows' = [rows EXCEPT ![edit[e].key] = Updated(e)]
         /\ stated' = [stated EXCEPT ![edit[e].key] = Asked(e)]
         /\ touched' = touched \cup {edit[e].key}
<1>1. Held(e)
  BY DEF CommitEdit, Held
<1>2. edit[e].key \in Keys
  BY <1>1, HeldFields
<1> QED
  BY <1>1, <1>2 DEF CommitEdit, Updated, Asked

LEMMA StatedTyped ==
  ASSUME NEW active \in BOOLEAN, NEW password \in Passwords
  PROVE  Stated(active, password) \in [active : BOOLEAN, password : Passwords]
BY DEF Stated

LEMMA StatedFields ==
  ASSUME TypeOK, NEW k \in Keys
  PROVE  stated[k].active \in BOOLEAN /\ stated[k].password \in Passwords
BY DEF TypeOK

LEMMA AskedTyped ==
  ASSUME TypeOK, NEW e \in Edits, Held(e)
  PROVE  Asked(e) \in [active : BOOLEAN, password : Passwords]
<1>1. edit[e].key \in Keys
  BY HeldFields
<1>2. stated[edit[e].key].active \in BOOLEAN /\ stated[edit[e].key].password \in Passwords
  BY <1>1, StatedFields
<1>3. (IF edit[e].input.active = "keep" THEN stated[edit[e].key].active
       ELSE edit[e].input.active = "on") \in BOOLEAN
  BY <1>2
<1>4. (IF edit[e].input.password = "new" THEN e
       ELSE IF edit[e].input.password = "keep" THEN stated[edit[e].key].password ELSE None)
      \in Passwords
  BY <1>2 DEF Passwords
<1> QED
  BY <1>3, <1>4, StatedTyped DEF Asked

Revoked(k) ==
  IF k \in Outdated
  THEN NewRow("config", FALSE, rows[k].super, rows[k].password, rows[k].sealed)
  ELSE rows[k]

LEMMA RevokedFields ==
  ASSUME TypeOK, NEW k \in Keys
  PROVE  /\ Revoked(k) \in Row \cup {NoRow}
         /\ Revoked(k).exists <=> rows[k].exists
         /\ rows[k].exists => Revoked(k).password = rows[k].password
         /\ k \in Outdated => Revoked(k).active = FALSE
         /\ k \notin Outdated => Revoked(k) = rows[k]
<1>1. CASE k \in Outdated
  <2>1. rows[k].exists
    BY <1>1 DEF Outdated
  <2>2. Revoked(k) = NewRow("config", FALSE, rows[k].super, rows[k].password, rows[k].sealed)
    BY <1>1 DEF Revoked
  <2>3. Revoked(k) \in Row
    BY <2>1, <2>2, RowFields, NewRowTyped
  <2> QED
    BY <1>1, <2>1, <2>2, <2>3 DEF NewRow
<1>2. CASE k \notin Outdated
  BY <1>2 DEF Revoked, TypeOK
<1> QED
  BY <1>1, <1>2

LEMMA TypeStep ==
  ASSUME TypeOK, [Next]_vars
  PROVE  TypeOK'
<1>1. CASE ChangeEnv \/ ApplySchema
  BY <1>1 DEF ChangeEnv, ApplySchema, TypeOK
<1>2. CASE EnsureSuperKey
  <2> DEFINE k == env.configured
             asked == Stated(TRUE, IF rows[k].exists THEN stated[k].password ELSE None)
  <2>1. k \in Keys /\ k \in known
    BY <1>2 DEF EnsureSuperKey, TypeOK
  <2>2. Ensured(k) \in Row
    BY <2>1, EnsuredFields
  <2>3. rows' = [rows EXCEPT ![k] = Ensured(k)]
    BY <1>2 DEF EnsureSuperKey
  <2>4. /\ rows' \in [Keys -> Row \cup {NoRow}]
        /\ \A j \in Keys : j # k => rows'[j] = rows[j]
    BY <2>1, <2>2, <2>3, RowsReplaced
  <2>5. asked \in [active : BOOLEAN, password : Passwords]
    BY <2>1, StatedFields, StatedTyped DEF Passwords
  <2>6. stated' = [stated EXCEPT ![k] = asked] /\ phase' = "ensured"
        /\ UNCHANGED <<known, env, lock, edit, crashes, touched>>
    BY <1>2 DEF EnsureSuperKey
  <2>7. stated' \in [Keys -> [active : BOOLEAN, password : Passwords]]
    BY <2>1, <2>5, <2>6 DEF TypeOK
  <2> HIDE DEF k, asked
  <2> QED
    BY <2>1, <2>4, <2>6, <2>7 DEF TypeOK
<1>3. CASE Revoke
  <2>1. rows' = [k \in Keys |-> Revoked(k)]
    BY <1>3 DEF Revoke, Revoked
  <2>2. rows' \in [Keys -> Row \cup {NoRow}]
        /\ \A k \in Keys : rows'[k].exists => rows[k].exists
    BY <2>1, RevokedFields
  <2>3. \A k \in Keys : Stated(FALSE, stated[k].password)
                          \in [active : BOOLEAN, password : Passwords]
    BY StatedFields, StatedTyped
  <2>4. stated' \in [Keys -> [active : BOOLEAN, password : Passwords]]
    BY <1>3, <2>3 DEF Revoke, TypeOK
  <2> QED
    BY <1>3, <2>2, <2>4 DEF Revoke, TypeOK
<1>4. CASE Crash
  <2>1. \A e \in Edits : edit[e].pc = "holding" =>
          Editing("orphan", edit[e].key, edit[e].input, edit[e].password)
            \in [pc : {"holding", "orphan"}, key : Keys, input : Inputs, password : Passwords]
    <3> TAKE e \in Edits
    <3> HAVE edit[e].pc = "holding"
    <3>1. edit[e] # Waiting /\ edit[e] # Done
      BY DEF Waiting, Done
    <3> QED
      BY <3>1 DEF TypeOK, Editing
  <2>2. edit' \in [Edits -> {Waiting, Done} \cup
       [pc : {"holding", "orphan"}, key : Keys, input : Inputs, password : Passwords]]
    BY <1>4, <2>1 DEF Crash, TypeOK
  <2>3. crashes' \in 0..MaxCrashes
    BY <1>4, ApiKeysConstants DEF Crash, TypeOK
  <2>4. phase' = "down" /\ UNCHANGED <<rows, known, env, lock, stated, touched>>
    BY <1>4 DEF Crash
  <2> QED
    BY <2>2, <2>3, <2>4 DEF TypeOK
<1>5. ASSUME NEW k \in Keys, CreateKey(k) PROVE TypeOK'
  <2>1. PICK active \in BOOLEAN, super \in BOOLEAN, password \in {First, None} :
          /\ rows' = [rows EXCEPT ![k] = NewRow("console", active, super, password, env.cipher)]
          /\ stated' = [stated EXCEPT ![k] = Stated(active, password)]
    BY <1>5 DEF CreateKey
  <2>2. env.cipher \in Ciphers /\ password \in Passwords
    BY DEF TypeOK, Passwords
  <2>3. NewRow("console", active, super, password, env.cipher) \in Row
    BY <2>2, NewRowTyped
  <2>4. /\ rows' \in [Keys -> Row \cup {NoRow}]
        /\ \A j \in Keys : j # k => rows'[j] = rows[j]
    BY <2>1, <2>3, RowsReplaced
  <2>5. stated' \in [Keys -> [active : BOOLEAN, password : Passwords]]
    BY <2>1, <2>2, StatedTyped DEF TypeOK
  <2>6. known' = known \cup {k} /\ touched' = touched \cup {k}
        /\ UNCHANGED <<env, phase, lock, edit, crashes>>
    BY <1>5 DEF CreateKey
  <2> QED
    BY <2>4, <2>5, <2>6 DEF TypeOK
<1>6. ASSUME NEW k \in Keys, SetKeyActive(k) PROVE TypeOK'
  <2>1. PICK active \in BOOLEAN :
          /\ rows' = [rows EXCEPT ![k] = NewRow(rows[k].origin, active, rows[k].super,
                                                rows[k].password, rows[k].sealed)]
          /\ stated' = [stated EXCEPT ![k] = Stated(active, stated[k].password)]
    BY <1>6 DEF SetKeyActive
  <2>2. rows[k].exists
    BY <1>6 DEF SetKeyActive
  <2>3. NewRow(rows[k].origin, active, rows[k].super, rows[k].password, rows[k].sealed) \in Row
    BY <2>2, RowFields, NewRowTyped
  <2>4. /\ rows' \in [Keys -> Row \cup {NoRow}]
        /\ \A j \in Keys : j # k => rows'[j] = rows[j]
    BY <2>1, <2>3, RowsReplaced
  <2>5. Stated(active, stated[k].password) \in [active : BOOLEAN, password : Passwords]
    BY StatedFields, StatedTyped
  <2>6. stated' \in [Keys -> [active : BOOLEAN, password : Passwords]]
    BY <2>1, <2>5 DEF TypeOK
  <2>7. touched' = touched \cup {k} /\ UNCHANGED <<known, env, phase, lock, edit, crashes>>
    BY <1>6 DEF SetKeyActive
  <2> QED
    BY <2>2, <2>4, <2>6, <2>7 DEF TypeOK
<1>7. ASSUME NEW k \in Keys, DeleteKey(k) PROVE TypeOK'
  <2>1. /\ rows' \in [Keys -> Row \cup {NoRow}] /\ rows[k].exists
        /\ \A j \in Keys : j # k => rows'[j] = rows[j]
    BY <1>7, RowsReplaced DEF DeleteKey
  <2> QED
    BY <1>7, <2>1 DEF DeleteKey, TypeOK
<1>8. ASSUME NEW e \in Edits, ReadForUpdate(e) PROVE TypeOK'
  <2>1. PICK k \in Keys, input \in Inputs :
          /\ rows[k].exists
          /\ lock' = [lock EXCEPT ![k] = LockedBy(k, e)]
          /\ edit' = [edit EXCEPT ![e] = Editing("holding", k, input, rows[k].password)]
    BY <1>8 DEF ReadForUpdate
  <2>2. Editing("holding", k, input, rows[k].password)
          \in [pc : {"holding", "orphan"}, key : Keys, input : Inputs, password : Passwords]
    BY <2>1, RowFields DEF Editing
  <2>3. /\ lock' \in [Keys -> Edits \cup {None}]
        /\ edit' \in [Edits -> {Waiting, Done} \cup
             [pc : {"holding", "orphan"}, key : Keys, input : Inputs, password : Passwords]]
    BY <2>1, <2>2 DEF TypeOK, LockedBy
  <2>4. UNCHANGED <<rows, known, env, phase, crashes, stated, touched>>
    BY <1>8 DEF ReadForUpdate
  <2> QED
    BY <2>3, <2>4 DEF TypeOK
<1>9. ASSUME NEW e \in Edits, CommitEdit(e) PROVE TypeOK'
  <2> DEFINE k == edit[e].key
  <2>1. /\ Held(e) /\ k \in Keys /\ rows[k].exists
        /\ rows' = [rows EXCEPT ![k] = Updated(e)]
        /\ stated' = [stated EXCEPT ![k] = Asked(e)]
        /\ touched' = touched \cup {k}
    BY <1>9, CommitWrites
  <2>2. Updated(e) \in Row /\ Asked(e) \in [active : BOOLEAN, password : Passwords]
    BY <2>1, UpdatedFields, AskedTyped
  <2>3. /\ rows' \in [Keys -> Row \cup {NoRow}]
        /\ \A j \in Keys : j # k => rows'[j] = rows[j]
    BY <2>1, <2>2, RowsReplaced
  <2>4. stated' \in [Keys -> [active : BOOLEAN, password : Passwords]]
    BY <2>1, <2>2 DEF TypeOK
  <2>5. EndEdit(e) /\ UNCHANGED <<known, env, phase, crashes>>
    BY <1>9 DEF CommitEdit
  <2>6. /\ lock' \in [Keys -> Edits \cup {None}]
        /\ edit' \in [Edits -> {Waiting, Done} \cup
             [pc : {"holding", "orphan"}, key : Keys, input : Inputs, password : Passwords]]
    BY <2>5, EditDone
  <2> HIDE DEF k
  <2> QED
    BY <2>1, <2>3, <2>4, <2>5, <2>6 DEF TypeOK
<1>10. ASSUME NEW e \in Edits, AbortEdit(e) PROVE TypeOK'
  <2>1. EndEdit(e) /\ UNCHANGED <<rows, known, env, phase, crashes, stated, touched>>
    BY <1>10 DEF AbortEdit
  <2>2. /\ lock' \in [Keys -> Edits \cup {None}]
        /\ edit' \in [Edits -> {Waiting, Done} \cup
             [pc : {"holding", "orphan"}, key : Keys, input : Inputs, password : Passwords]]
    BY <2>1, EditDone
  <2> QED
    BY <2>1, <2>2 DEF TypeOK
<1>11. CASE UNCHANGED vars
  BY <1>11 DEF vars, TypeOK
<1> QED
  BY <1>1, <1>2, <1>3, <1>4, <1>5, <1>6, <1>7, <1>8, <1>9, <1>10, <1>11
  DEF Next, Console, UpdateKey

----------------------------------------------------------------------------
(* What an edit read stays so until it ends: every other change of the row *)
(* needs its lock.                                                         *)
LEMMA UnheldKept ==
  ASSUME HeldRows, NEW k \in Keys, k \notin {edit[d].key : d \in {e \in Edits : Held(e)}},
         UNCHANGED <<lock, edit>>, \A j \in Keys : j # k => rows'[j] = rows[j]
  PROVE  HeldRows'
BY DEF HeldRows, Held

LEMMA FreeIsUnheld ==
  ASSUME TypeOK, HeldRows, NEW k \in Keys, lock[k] = None
  PROVE  k \notin {edit[d].key : d \in {e \in Edits : Held(e)}}
BY ApiKeysConstants DEF HeldRows

LEMMA HeldStep ==
  ASSUME TypeOK, HeldRows, [Next]_vars
  PROVE  HeldRows'
<1>1. CASE ChangeEnv \/ ApplySchema
  BY <1>1 DEF ChangeEnv, ApplySchema, HeldRows, Held
<1>2. CASE EnsureSuperKey
  <2> DEFINE k == env.configured
  <2>1. k \in Keys /\ lock[k] = None
    BY <1>2 DEF EnsureSuperKey, TypeOK, RowLockFree
  <2>2. /\ \A j \in Keys : j # k => rows'[j] = rows[j]
        /\ UNCHANGED <<lock, edit>>
    BY <1>2 DEF EnsureSuperKey, TypeOK
  <2> HIDE DEF k
  <2> QED
    BY <2>1, <2>2, UnheldKept, FreeIsUnheld
<1>3. CASE Revoke
  <2>1. rows' = [k \in Keys |-> Revoked(k)] /\ UNCHANGED <<lock, edit>>
    BY <1>3 DEF Revoke, Revoked
  <2>2. \A k \in Keys : /\ rows'[k].exists <=> rows[k].exists
                        /\ rows[k].exists => rows'[k].password = rows[k].password
    BY <2>1, RevokedFields
  <2> QED
    BY <2>1, <2>2 DEF HeldRows, Held
<1>4. CASE Crash
  <2>1. \A e \in Edits : Held(e)' =>
          Held(e) /\ edit'[e].key = edit[e].key /\ edit'[e].password = edit[e].password
    BY <1>4 DEF Crash, Held, Editing
  <2>2. UNCHANGED <<rows, lock>>
    BY <1>4 DEF Crash
  <2> QED
    BY <2>1, <2>2 DEF HeldRows
<1>5. ASSUME NEW k \in Keys, CreateKey(k) PROVE HeldRows'
  <2>1. ~rows[k].exists
    BY <1>5 DEF CreateKey, TypeOK
  <2>2. k \notin {edit[d].key : d \in {e \in Edits : Held(e)}}
    BY <2>1 DEF HeldRows
  <2>3. /\ \A j \in Keys : j # k => rows'[j] = rows[j]
        /\ UNCHANGED <<lock, edit>>
    BY <1>5 DEF CreateKey, TypeOK
  <2> QED
    BY <2>2, <2>3, UnheldKept
<1>6. ASSUME NEW k \in Keys, SetKeyActive(k) \/ DeleteKey(k) PROVE HeldRows'
  <2>1. lock[k] = None
    BY <1>6 DEF SetKeyActive, DeleteKey, RowLockFree
  <2>2. /\ \A j \in Keys : j # k => rows'[j] = rows[j]
        /\ UNCHANGED <<lock, edit>>
    BY <1>6 DEF SetKeyActive, DeleteKey, TypeOK
  <2> QED
    BY <2>1, <2>2, UnheldKept, FreeIsUnheld
<1>7. ASSUME NEW e \in Edits, ReadForUpdate(e) PROVE HeldRows'
  <2>1. PICK k \in Keys, input \in Inputs :
          /\ rows[k].exists
          /\ lock[k] = None
          /\ lock' = [lock EXCEPT ![k] = e]
          /\ edit' = [edit EXCEPT ![e] = Editing("holding", k, input, rows[k].password)]
    BY <1>7 DEF ReadForUpdate, LockedBy, RowLockFree
  <2>2. /\ edit'[e].key = k /\ edit'[e].password = rows[k].password
        /\ lock'[k] = e /\ \A j \in Keys : j # k => lock'[j] = lock[j]
        /\ \A d \in Edits : d # e => edit'[d] = edit[d]
        /\ rows' = rows
    BY <1>7, <2>1 DEF ReadForUpdate, TypeOK, Editing
  <2>3. \A d \in Edits : Held(d) => edit[d].key # k
    BY <2>1, FreeIsUnheld
  <2>4. ASSUME NEW d \in Edits, d # e, Held(d)'
        PROVE  /\ edit'[d].key \in Keys /\ lock'[edit'[d].key] = d
               /\ rows'[edit'[d].key].exists
               /\ rows'[edit'[d].key].password = edit'[d].password
    <3>1. Held(d)
      BY <2>2, <2>4 DEF Held
    <3> QED
      BY <2>2, <2>3, <2>4, <3>1 DEF HeldRows
  <2> QED
    BY <2>1, <2>2, <2>4 DEF HeldRows
<1>8. ASSUME NEW e \in Edits, CommitEdit(e) PROVE HeldRows'
  <2> DEFINE k == edit[e].key
  <2>1. Held(e) /\ k \in Keys /\ \A j \in Keys : j # k => rows'[j] = rows[j]
    BY <1>8, CommitWrites DEF TypeOK
  <2>2. EndEdit(e)
    BY <1>8 DEF CommitEdit
  <2>3. /\ ~Held(e)'
        /\ \A j \in Keys : lock[j] # e => lock'[j] = lock[j]
        /\ \A d \in Edits : d # e => edit'[d] = edit[d]
    BY <2>2, EditDone
  <2>4. \A d \in Edits : Held(d) /\ d # e => edit[d].key # k
    BY <2>1 DEF HeldRows
  <2> HIDE DEF k
  <2> QED
    BY <2>1, <2>3, <2>4 DEF HeldRows, Held
<1>9. ASSUME NEW e \in Edits, AbortEdit(e) PROVE HeldRows'
  <2>1. EndEdit(e) /\ rows' = rows
    BY <1>9 DEF AbortEdit
  <2>2. /\ ~Held(e)'
        /\ \A j \in Keys : lock[j] # e => lock'[j] = lock[j]
        /\ \A d \in Edits : d # e => edit'[d] = edit[d]
    BY <2>1, EditDone
  <2> QED
    BY <2>1, <2>2 DEF HeldRows, Held
<1>10. CASE UNCHANGED vars
  BY <1>10 DEF vars, HeldRows, Held
<1> QED
  BY <1>1, <1>2, <1>3, <1>4, <1>5, <1>6, <1>7, <1>8, <1>9, <1>10
  DEF Next, Console, UpdateKey

----------------------------------------------------------------------------
(* A change of the console touches its key and leaves the others alone.    *)
LEMMA ConsoleTouches ==
  ASSUME TypeOK, NEW k \in Keys, Console(k)
  PROVE  /\ phase = "up" /\ UNCHANGED <<env, phase, lock>>
         /\ touched' = touched \cup {k}
         /\ \A j \in Keys : j # k => rows'[j] = rows[j]
         /\ \A j \in Keys : j # k => stated'[j] = stated[j]
<1>1. CASE CreateKey(k)
  BY <1>1 DEF CreateKey, TypeOK
<1>2. CASE SetKeyActive(k)
  BY <1>2 DEF SetKeyActive, TypeOK
<1>3. CASE DeleteKey(k)
  BY <1>3 DEF DeleteKey, TypeOK
<1> QED
  BY <1>1, <1>2, <1>3 DEF Console

LEMMA CommitTouches ==
  ASSUME TypeOK, NEW e \in Edits, CommitEdit(e)
  PROVE  /\ Held(e) /\ edit[e].key \in Keys /\ UNCHANGED <<env, phase>>
         /\ touched' = touched \cup {edit[e].key}
         /\ \A j \in Keys : j # edit[e].key => rows'[j] = rows[j]
         /\ \A j \in Keys : j # edit[e].key => stated'[j] = stated[j]
BY CommitWrites DEF CommitEdit, TypeOK

LEMMA RevokedStep ==
  ASSUME TypeOK, OldKeysRevoked, [Next]_vars
  PROVE  OldKeysRevoked'
<1>1. CASE ChangeEnv \/ ApplySchema \/ EnsureSuperKey \/ Crash
  BY <1>1 DEF ChangeEnv, ApplySchema, EnsureSuperKey, Crash, OldKeysRevoked
<1>2. CASE Revoke
  <2>1. rows' = [k \in Keys |-> Revoked(k)] /\ UNCHANGED env
    BY <1>2 DEF Revoke, Revoked
  <2>2. ASSUME NEW k \in Keys, k # env.configured, rows'[k].exists,
               rows'[k].origin = "config"
        PROVE  ~rows'[k].active
    <3>1. CASE k \in Outdated
      BY <2>1, <3>1, RevokedFields
    <3>2. CASE k \notin Outdated
      BY <2>1, <2>2, <3>2, RevokedFields DEF Outdated
    <3> QED
      BY <3>1, <3>2
  <2> QED
    BY <2>1, <2>2 DEF OldKeysRevoked
<1>3. ASSUME NEW k \in Keys, Console(k) PROVE OldKeysRevoked'
  BY <1>3, ConsoleTouches DEF OldKeysRevoked
<1>4. ASSUME NEW e \in Edits, CommitEdit(e) PROVE OldKeysRevoked'
  BY <1>4, CommitTouches DEF OldKeysRevoked
<1>5. ASSUME NEW e \in Edits, ReadForUpdate(e) \/ AbortEdit(e) PROVE OldKeysRevoked'
  BY <1>5 DEF ReadForUpdate, AbortEdit, OldKeysRevoked
<1>6. CASE UNCHANGED vars
  BY <1>6 DEF vars, OldKeysRevoked
<1> QED
  BY <1>1, <1>2, <1>3, <1>4, <1>5, <1>6 DEF Next, UpdateKey

(* The new key works from the first statement of the start-up on: what a   *)
(* killed process left open has another row's lock.                        *)
LEMMA WorksStep ==
  ASSUME TypeOK, HeldRows, EnsuredWorks, ConfiguredKeyWorks, [Next]_vars
  PROVE  EnsuredWorks' /\ ConfiguredKeyWorks'
<1> DEFINE c == env.configured
<1>1. CASE ChangeEnv \/ ApplySchema \/ Crash
  BY <1>1 DEF ChangeEnv, ApplySchema, Crash, EnsuredWorks, ConfiguredKeyWorks
<1>2. CASE EnsureSuperKey
  <2>1. /\ c \in Keys /\ lock[c] = None
        /\ rows' = [rows EXCEPT ![c] = Ensured(c)]
        /\ phase' = "ensured" /\ UNCHANGED <<env, lock>>
    BY <1>2 DEF EnsureSuperKey, TypeOK, RowLockFree
  <2>2. rows'[c] = Ensured(c)
    BY <2>1 DEF TypeOK
  <2>3. Ensured(c).exists /\ Ensured(c).active /\ Ensured(c).super
        /\ Ensured(c).sealed = env.cipher
    BY <2>1, EnsuredFields
  <2> QED
    BY <2>1, <2>2, <2>3 DEF EnsuredWorks, ConfiguredKeyWorks, Works
<1>3. CASE Revoke
  <2>1. /\ rows' = [k \in Keys |-> Revoked(k)] /\ UNCHANGED <<env, lock>>
        /\ phase' = "up"
        /\ phase = IF c = None THEN "migrated" ELSE "ensured"
    BY <1>3 DEF Revoke, Revoked
  <2>2. ASSUME c # None PROVE Works(c)'
    <3>1. c \in Keys /\ Works(c)
      BY <2>1, <2>2 DEF EnsuredWorks
    <3>2. c \notin Outdated
      BY DEF Outdated
    <3> QED
      BY <2>1, <3>1, <3>2, RevokedFields DEF Works
  <2> QED
    BY <2>1, <2>2 DEF EnsuredWorks, ConfiguredKeyWorks, Works
<1>4. ASSUME NEW k \in Keys, Console(k) PROVE EnsuredWorks' /\ ConfiguredKeyWorks'
  <2>1. /\ phase = "up" /\ UNCHANGED <<env, phase>>
        /\ touched' = touched \cup {k}
        /\ \A j \in Keys : j # k => rows'[j] = rows[j]
    BY <1>4, ConsoleTouches
  <2>2. c \in Keys \cup {None}
    BY DEF TypeOK
  <2> QED
    BY <2>1, <2>2 DEF EnsuredWorks, ConfiguredKeyWorks
<1>5. ASSUME NEW e \in Edits, CommitEdit(e) PROVE EnsuredWorks' /\ ConfiguredKeyWorks'
  <2>1. /\ Held(e) /\ UNCHANGED <<env, phase>>
        /\ touched' = touched \cup {edit[e].key}
        /\ \A j \in Keys : j # edit[e].key => rows'[j] = rows[j]
    BY <1>5, CommitTouches
  <2>2. lock[edit[e].key] = e /\ e # None
    BY <2>1, ApiKeysConstants DEF HeldRows
  <2>3. EnsuredWorks'
    <3>1. SUFFICES ASSUME phase = "ensured"
                   PROVE  c \in Keys /\ lock'[c] = None /\ Works(c)'
      BY <2>1 DEF EnsuredWorks
    <3>2. c \in Keys /\ lock[c] = None /\ Works(c)
      BY <3>1 DEF EnsuredWorks
    <3>3. lock'[c] = None
      BY <1>5, <2>2, <3>2, EditDone DEF CommitEdit
    <3>4. c # edit[e].key
      BY <2>2, <3>2
    <3> QED
      BY <2>1, <3>2, <3>3, <3>4 DEF Works
  <2>4. c \in Keys \cup {None}
    BY DEF TypeOK
  <2> QED
    BY <2>1, <2>3, <2>4 DEF ConfiguredKeyWorks
<1>6. ASSUME NEW e \in Edits, ReadForUpdate(e) PROVE EnsuredWorks' /\ ConfiguredKeyWorks'
  BY <1>6 DEF ReadForUpdate, EnsuredWorks, ConfiguredKeyWorks
<1>7. ASSUME NEW e \in Edits, AbortEdit(e) PROVE EnsuredWorks' /\ ConfiguredKeyWorks'
  <2>1. UNCHANGED <<rows, env, phase, touched>> /\ EndEdit(e)
    BY <1>7 DEF AbortEdit
  <2>2. \A k \in Keys : lock[k] = None => lock'[k] = None
    BY <2>1, EditDone, ApiKeysConstants
  <2> QED
    BY <2>1, <2>2 DEF EnsuredWorks, ConfiguredKeyWorks, Works
<1>8. CASE UNCHANGED vars
  BY <1>8 DEF vars, EnsuredWorks, ConfiguredKeyWorks, Works
<1> QED
  BY <1>1, <1>2, <1>3, <1>4, <1>5, <1>6, <1>7, <1>8 DEF Next, UpdateKey

----------------------------------------------------------------------------
(* A row says what was last asked of it: an edit that keeps the password   *)
(* writes the one it read, which nobody changed in between; one that keeps *)
(* active keeps what the row has when it commits.                          *)
AsAsked(k) ==
  rows[k].exists => rows[k].active = stated[k].active /\ rows[k].password = stated[k].password

LEMMA OneRowChanged ==
  ASSUME LastWordCounts, NEW k \in Keys, AsAsked(k)',
         \A j \in Keys : j # k => rows'[j] = rows[j],
         \A j \in Keys : j # k => stated'[j] = stated[j]
  PROVE  LastWordCounts'
BY DEF LastWordCounts, AsAsked

LEMMA LastWordStep ==
  ASSUME TypeOK, HeldRows, LastWordCounts, [Next]_vars
  PROVE  LastWordCounts'
<1>1. CASE EnsureSuperKey
  <2>0. PICK k \in Keys : k = env.configured
    BY <1>1 DEF EnsureSuperKey, TypeOK
  <2> DEFINE password == IF rows[k].exists THEN stated[k].password ELSE None
  <2>1. /\ rows' = [rows EXCEPT ![k] = Ensured(k)]
        /\ stated' = [stated EXCEPT ![k] = Stated(TRUE, password)]
    BY <1>1, <2>0 DEF EnsureSuperKey
  <2>2. /\ rows'[k] = Ensured(k) /\ stated'[k] = Stated(TRUE, password)
        /\ \A j \in Keys : j # k => rows'[j] = rows[j]
        /\ \A j \in Keys : j # k => stated'[j] = stated[j]
    BY <2>1 DEF TypeOK
  <2>3. Ensured(k).active = TRUE
    BY <2>0 DEF Ensured, NewRow
  <2>4. Ensured(k).password = password
    BY <2>0, EnsuredFields DEF LastWordCounts
  <2>5. Stated(TRUE, password).active = TRUE /\ Stated(TRUE, password).password = password
    BY DEF Stated
  <2>6. AsAsked(k)'
    BY <2>2, <2>3, <2>4, <2>5 DEF AsAsked
  <2> HIDE DEF password
  <2> QED
    BY <2>2, <2>6, OneRowChanged
<1>2. CASE Revoke
  <2>1. /\ rows' = [k \in Keys |-> Revoked(k)]
        /\ stated' = [k \in Keys |-> IF k \in Outdated THEN Stated(FALSE, stated[k].password)
                                     ELSE stated[k]]
    BY <1>2 DEF Revoke, Revoked
  <2>2. ASSUME NEW k \in Keys PROVE AsAsked(k)'
    <3>1. CASE k \in Outdated
      <4>1. /\ rows[k].exists
            /\ rows'[k].active = FALSE /\ rows'[k].password = rows[k].password
        BY <2>1, <3>1, RevokedFields DEF Outdated
      <4>2. stated'[k].active = FALSE /\ stated'[k].password = stated[k].password
        BY <2>1, <3>1 DEF Stated
      <4> QED
        BY <4>1, <4>2 DEF AsAsked, LastWordCounts
    <3>2. CASE k \notin Outdated
      BY <2>1, <3>2, RevokedFields DEF AsAsked, LastWordCounts
    <3> QED
      BY <3>1, <3>2
  <2> QED
    BY <2>2 DEF LastWordCounts, AsAsked
<1>3. ASSUME NEW k \in Keys, Console(k) PROVE LastWordCounts'
  <2>1. AsAsked(k)'
    <3>1. CASE CreateKey(k)
      <4>1. PICK active \in BOOLEAN, super \in BOOLEAN, password \in {First, None} :
              /\ rows' = [rows EXCEPT ![k] = NewRow("console", active, super, password, env.cipher)]
              /\ stated' = [stated EXCEPT ![k] = Stated(active, password)]
        BY <3>1 DEF CreateKey
      <4>2. rows'[k] = NewRow("console", active, super, password, env.cipher)
            /\ stated'[k] = Stated(active, password)
        BY <4>1 DEF TypeOK
      <4> QED
        BY <4>2 DEF AsAsked, NewRow, Stated
    <3>2. CASE SetKeyActive(k)
      <4>1. PICK active \in BOOLEAN :
              /\ rows' = [rows EXCEPT ![k] = NewRow(rows[k].origin, active, rows[k].super,
                                                    rows[k].password, rows[k].sealed)]
              /\ stated' = [stated EXCEPT ![k] = Stated(active, stated[k].password)]
        BY <3>2 DEF SetKeyActive
      <4>2. /\ rows'[k].active = active /\ rows'[k].password = rows[k].password
            /\ stated'[k].active = active /\ stated'[k].password = stated[k].password
        BY <4>1 DEF TypeOK, NewRow, Stated
      <4> QED
        BY <3>2, <4>2 DEF AsAsked, LastWordCounts, SetKeyActive
    <3>3. CASE DeleteKey(k)
      BY <3>3 DEF DeleteKey, AsAsked, NoRow, TypeOK
    <3> QED
      BY <1>3, <3>1, <3>2, <3>3 DEF Console
  <2> QED
    BY <1>3, <2>1, ConsoleTouches, OneRowChanged
<1>4. ASSUME NEW e \in Edits, CommitEdit(e) PROVE LastWordCounts'
  <2> DEFINE input == edit[e].input
  <2>0. PICK k \in Keys : k = edit[e].key
    BY <1>4, CommitWrites
  <2>1. /\ Held(e) /\ rows[k].exists
        /\ rows'[k] = Updated(e) /\ stated'[k] = Asked(e)
    BY <1>4, <2>0, CommitWrites DEF TypeOK
  <2>2. rows[k].password = edit[e].password
    BY <2>0, <2>1 DEF HeldRows
  <2>3. rows[k].active = stated[k].active /\ rows[k].password = stated[k].password
    BY <2>1 DEF LastWordCounts
  <2>4. /\ Updated(e).active = NewActive(input, rows[k].active)
        /\ Updated(e).password = NewPassword(e, input, edit[e].password)
    BY <2>0, <2>1, UpdatedFields
  <2>5. Asked(e).active = NewActive(input, stated[k].active)
    BY <2>0 DEF Asked, Stated, NewActive
  <2>6. Asked(e).password = NewPassword(e, input, stated[k].password)
    <3>1. input.password \in {"new", "keep", "none"}
      BY <2>1, HeldFields DEF Input
    <3>2. Asked(e).password = IF input.password = "new" THEN e
                              ELSE IF input.password = "keep" THEN stated[k].password ELSE None
      BY <2>0 DEF Asked, Stated
    <3> QED
      BY <3>1, <3>2 DEF NewPassword
  <2>7. AsAsked(k)'
    BY <2>1, <2>2, <2>3, <2>4, <2>5, <2>6 DEF AsAsked
  <2>8. /\ \A j \in Keys : j # k => rows'[j] = rows[j]
        /\ \A j \in Keys : j # k => stated'[j] = stated[j]
    BY <1>4, <2>0, CommitTouches
  <2> QED
    BY <2>7, <2>8, OneRowChanged
<1>5. ASSUME UNCHANGED <<rows, stated>> PROVE LastWordCounts'
  BY <1>5 DEF LastWordCounts
<1> QED
  BY <1>1, <1>2, <1>3, <1>4, <1>5
  DEF Next, UpdateKey, ChangeEnv, ApplySchema, Crash, ReadForUpdate, AbortEdit, vars

----------------------------------------------------------------------------
LEMMA IInvStep == IInv /\ [Next]_vars => IInv'
BY TypeStep, HeldStep, WorksStep, RevokedStep, LastWordStep DEF IInv

LEMMA Inductive == Spec => []IInv
BY InitIInv, IInvStep, PTL DEF Spec

(* The rows, locks and edits keep their types.                             *)
THEOREM TypeCorrect == Spec => []TypeOK
<1>1. IInv => TypeOK
  BY DEF IInv
<1> QED
  BY <1>1, Inductive, PTL

(* While the service is up no value of SUPER_API_KEY but the present one   *)
(* still works, unless somebody made it active again in the console.       *)
THEOREM OldKeysRevokedTheorem == Spec => []OldKeysRevoked
<1>1. IInv => OldKeysRevoked
  BY DEF IInv
<1> QED
  BY <1>1, Inductive, PTL

(* And the present one does, and can be revealed.                          *)
THEOREM ConfiguredKeyWorksTheorem == Spec => []ConfiguredKeyWorks
<1>1. IInv => ConfiguredKeyWorks
  BY DEF IInv
<1> QED
  BY <1>1, Inductive, PTL

(* No edit of a key loses another one's SMTP password or switch.           *)
THEOREM LastWordCountsTheorem == Spec => []LastWordCounts
<1>1. IInv => LastWordCounts
  BY DEF IInv
<1> QED
  BY <1>1, Inductive, PTL
=============================================================================
