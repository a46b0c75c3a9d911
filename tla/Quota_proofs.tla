---------------------------- MODULE Quota_proofs ----------------------------
(***************************************************************************)
(* Proofs about Quota, for any calls, windows and limits, with edits,      *)
(* deletion and faults: the advisory lock serializes the decisions of a    *)
(* key, each call is charged at most once, no interval holds more than a   *)
(* limit allows, and a refused call is told when its window has room.      *)
(*                                                                         *)
(* Three parts: the lock and the charges; sums of mails and the least and  *)
(* greatest numbers the limits are about; what usage does in each step.    *)
(***************************************************************************)
EXTENDS Quota, FiniteSetTheorems, WellFoundedInduction, TLAPS

(* What the handlers' records hold, as far as the proofs need it.          *)
Fields ==
  /\ call = [c \in Calls |-> call[c]]
  /\ \A c \in Calls : call[c].pc \in {"authed", "begun", "locked", "over", "commit", "reject"}
       => call[c].super \in BOOLEAN
  /\ key.exists \in BOOLEAN /\ key.super \in BOOLEAN

(* A call that has taken the lock keeps it to the end of its transaction.  *)
Locking(c) == call[c].pc \in {"locked", "over", "reject"} \/ Decided(c)

LockHeld == \A c \in Calls : Locking(c) => lock = c

IInv == Fields /\ LockHeld /\ ChargedOnce

----------------------------------------------------------------------------
LEMMA InitIInv == Init => IInv
<1> SUFFICES ASSUME Init PROVE IInv
  OBVIOUS
<1>1. \A c \in Calls : call[c].pc = "idle"
  BY DEF Init, Idle
<1>2. /\ call = [c \in Calls |-> Idle] /\ key.exists = TRUE /\ key.super = FALSE
      /\ \A l \in logs : l.call \notin Calls
  BY QuotaConstants DEF Init
<1>3. Fields
  BY <1>1, <1>2 DEF Fields
<1>4. LockHeld
  BY <1>1 DEF LockHeld, Locking, Decided
<1>5. ChargedOnce
  BY <1>1, <1>2 DEF ChargedOnce
<1> QED
  BY <1>3, <1>4, <1>5 DEF IInv

(* The pcs at which a call has not been answered.                          *)
Open == {"idle", "authed"} \cup InTransaction

(* Steps that write no log: the lock may be taken while it is free, or     *)
(* given up by the call that moves on.                                     *)
LEMMA CallStep ==
  ASSUME IInv, NEW c \in Calls, NEW s,
         UNCHANGED <<key, logs>>,
         call' = [call EXCEPT ![c] = s],
         call[c].pc \in Open,
         s.pc \in Open \cup {"error"},
         s.pc # "idle" /\ s.pc # "error" => s.super \in BOOLEAN,
         \/ lock' = lock
         \/ lock = None /\ lock' = c
         \/ lock = c /\ lock' = None,
         (s.pc \in {"locked", "over", "reject"} \/ (s.pc = "commit" /\ ~s.super)) => lock' = c
  PROVE  IInv'
<1>1. /\ call'[c] = s
      /\ \A d \in Calls : d # c => call'[d] = call[d]
      /\ call' = [d \in Calls |-> call'[d]]
  BY DEF IInv, Fields
<1>2. Fields'
  BY <1>1 DEF IInv, Fields, Open, InTransaction, Querying, Inserting
<1>3. LockHeld'
  <2> SUFFICES ASSUME NEW d \in Calls, Locking(d)' PROVE lock' = d
    BY DEF LockHeld
  <2>1. CASE d = c
    BY <1>1, <2>1 DEF Locking, Decided
  <2>2. CASE d # c
    <3>1. Locking(d)
      BY <1>1, <2>2 DEF Locking, Decided
    <3>2. lock = d
      BY <3>1 DEF IInv, LockHeld
    <3> QED
      BY <2>2, <3>2, QuotaConstants
  <2> QED
    BY <2>1, <2>2
<1>4. ChargedOnce'
  <2>1. \A l \in logs : l.call # c
    BY DEF IInv, ChargedOnce, Open
  <2> QED
    BY <1>1, <2>1 DEF IInv, ChargedOnce, Open, Accepted, InTransaction, Querying, Inserting
<1> QED
  BY <1>2, <1>3, <1>4 DEF IInv

LEMMA TxShape ==
  ASSUME NEW pc, NEW s, NEW now
  PROVE  /\ Tx(pc, s, now).pc = pc
         /\ Tx(pc, s, now).super = s.super
BY DEF Tx

LEMMA ReadKeyStep ==
  ASSUME IInv, NEW c \in Calls, ReadKey(c)
  PROVE  IInv'
<1> DEFINE s == Authed(key.super, key.limits)
<1>1. s.pc = "authed" /\ s.super \in BOOLEAN
  BY DEF Authed, IInv, Fields
<1>2. /\ call[c].pc = "idle" /\ UNCHANGED <<key, logs, lock>>
      /\ call' = [call EXCEPT ![c] = s]
  BY DEF ReadKey
<1> HIDE DEF s
<1> QED
  BY <1>1, <1>2, CallStep DEF Open

LEMMA BeginStep ==
  ASSUME IInv, NEW c \in Calls, Begin(c)
  PROVE  IInv'
<1> DEFINE s == Tx(IF call[c].super THEN "commit" ELSE "begun", call[c], clock)
<1>1. call[c].pc = "authed" /\ call[c].super \in BOOLEAN
  BY DEF Begin, IInv, Fields
<1>2. /\ s.super = call[c].super
      /\ s.pc = "begun" \/ (s.pc = "commit" /\ s.super)
  BY <1>1, TxShape
<1>3. UNCHANGED <<key, logs, lock>> /\ call' = [call EXCEPT ![c] = s]
  BY DEF Begin
<1> HIDE DEF s
<1> QED
  BY <1>1, <1>2, <1>3, CallStep DEF Open, InTransaction, Querying, Inserting

LEMMA LockStep ==
  ASSUME IInv, NEW c \in Calls, Lock(c)
  PROVE  IInv'
<1> DEFINE s == Tx("locked", call[c], call[c].now)
<1>1. call[c].pc = "begun" /\ call[c].super \in BOOLEAN
  BY DEF Lock, IInv, Fields
<1>2. s.super \in BOOLEAN /\ s.pc = "locked"
  BY <1>1, TxShape
<1>3. /\ UNCHANGED <<key, logs>> /\ call' = [call EXCEPT ![c] = s]
      /\ lock = None /\ lock' = c
  BY DEF Lock, LockIsFree
<1> HIDE DEF s
<1> QED
  BY <1>1, <1>2, <1>3, CallStep DEF Open, InTransaction, Querying

LEMMA ReadUsageStep ==
  ASSUME IInv, NEW c \in Calls, ReadUsage(c)
  PROVE  IInv'
<1>1. /\ call[c].pc = "locked" /\ call[c].super \in BOOLEAN /\ lock = c
      /\ UNCHANGED <<key, logs, lock>>
  BY DEF ReadUsage, IInv, Fields, LockHeld, Locking
<1>2. \/ call' = [call EXCEPT ![c] = Tx("commit", call[c], call[c].now)]
      \/ \E w, used : call' = [call EXCEPT ![c] = Over(call[c], w, used)]
  BY DEF ReadUsage
<1>3. PICK s : /\ call' = [call EXCEPT ![c] = s]
               /\ s.pc \in {"commit", "over"} /\ s.super = call[c].super
  <2>1. CASE call' = [call EXCEPT ![c] = Tx("commit", call[c], call[c].now)]
    <3>1. /\ Tx("commit", call[c], call[c].now).pc = "commit"
          /\ Tx("commit", call[c], call[c].now).super = call[c].super
      BY DEF Tx
    <3> QED
      BY <2>1, <3>1
  <2>2. ASSUME NEW w, NEW used, call' = [call EXCEPT ![c] = Over(call[c], w, used)]
        PROVE  \E s : /\ call' = [call EXCEPT ![c] = s]
                      /\ s.pc \in {"commit", "over"} /\ s.super = call[c].super
    <3>1. /\ Over(call[c], w, used).pc = "over"
          /\ Over(call[c], w, used).super = call[c].super
      BY DEF Over
    <3> QED
      BY <2>2, <3>1
  <2> QED
    BY <1>2, <2>1, <2>2
<1> QED
  BY <1>1, <1>3, CallStep DEF Open, InTransaction, Querying, Inserting

LEMMA ReadRetryTimeStep ==
  ASSUME IInv, NEW c \in Calls, ReadRetryTime(c)
  PROVE  IInv'
<1>1. /\ call[c].pc = "over" /\ call[c].super \in BOOLEAN /\ lock = c
      /\ UNCHANGED <<key, logs, lock>>
  BY DEF ReadRetryTime, IInv, Fields, LockHeld, Locking
<1>2. PICK retry : call' = [call EXCEPT ![c] = Refused("reject", call[c], retry, Accepted)]
  BY DEF ReadRetryTime
<1> DEFINE s == Refused("reject", call[c], retry, Accepted)
<1>3. s.pc = "reject" /\ s.super = call[c].super
  BY DEF Refused
<1>4. call' = [call EXCEPT ![c] = s]
  BY <1>2
<1> HIDE DEF s
<1> QED
  BY <1>1, <1>3, <1>4, CallStep DEF Open, InTransaction, Querying, Inserting

LEMMA AbortStep ==
  ASSUME IInv, NEW c \in Calls, Abort(c)
  PROVE  IInv'
<1> DEFINE s == Answer("error")
<1>1. /\ call[c].pc \in InTransaction
      /\ UNCHANGED <<key, logs>> /\ lock' = Released(c)
      /\ call' = [call EXCEPT ![c] = s]
  BY DEF Abort, InTransaction
<1>2. s.pc = "error"
  BY DEF Answer
<1>3. lock' = lock \/ (lock = c /\ lock' = None)
  BY <1>1 DEF Released
<1> HIDE DEF s
<1> QED
  BY <1>1, <1>2, <1>3, CallStep DEF Open

----------------------------------------------------------------------------
(* The two commits write the log of a call that had none.                  *)
LEMMA LogStep ==
  ASSUME IInv, NEW c \in Calls, NEW s, NEW status,
         key.exists, UNCHANGED key,
         call[c].pc \in Inserting,
         logs' = logs \cup {NewLog(c, status)},
         call' = [call EXCEPT ![c] = s],
         lock' = Released(c),
         \/ s.pc = "error"
         \/ s.pc = "accepted" /\ status = "accepted"
         \/ s.pc = "rejected" /\ status = "limit_exceeded"
  PROVE  IInv'
<1>1. /\ call'[c] = s
      /\ \A d \in Calls : d # c => call'[d] = call[d]
      /\ call' = [d \in Calls |-> call'[d]]
  BY DEF IInv, Fields
<1>2. Fields'
  BY <1>1 DEF IInv, Fields
<1>3. LockHeld'
  <2> SUFFICES ASSUME NEW d \in Calls, Locking(d)' PROVE lock' = d
    BY DEF LockHeld
  <2>1. d # c /\ call'[d] = call[d]
    BY <1>1 DEF Locking, Decided
  <2>2. lock = d
    BY <2>1 DEF IInv, LockHeld, Locking, Decided
  <2> QED
    BY <2>1, <2>2 DEF Released
<1> DEFINE new == NewLog(c, status)
<1>4. new.call = c /\ new.status = status
  BY DEF NewLog
<1>5. \A l \in logs : l.call # c
  BY DEF IInv, ChargedOnce, InTransaction
<1>6. logs' = logs \cup {new}
  OBVIOUS
<1> HIDE DEF new
<1>7. ChargedOnce'
  <2> SUFFICES ASSUME NEW d \in Calls
               PROVE  /\ call'[d].pc \in Open => \A l \in logs' : l.call # d
                      /\ call'[d].pc = "accepted" => \E l \in Accepted' : l.call = d
                      /\ call'[d].pc = "rejected" => \A l \in Accepted' : l.call # d
                      /\ \A l, k \in logs' : l.call = d /\ k.call = d => l = k
    BY DEF ChargedOnce, Open
  <2>1. CASE d = c
    <3>1. call'[d].pc \notin Open
      BY <1>1, <2>1 DEF Open, InTransaction, Querying, Inserting
    <3>2. call'[d].pc = "accepted" => new \in Accepted'
      BY <1>1, <1>4, <1>6, <2>1 DEF Accepted
    <3>3. call'[d].pc = "rejected" => new \notin Accepted'
      BY <1>1, <1>4, <1>6, <2>1 DEF Accepted
    <3> QED
      BY <1>4, <1>5, <1>6, <2>1, <3>1, <3>2, <3>3 DEF Accepted
  <2>2. CASE d # c
    <3>1. call'[d] = call[d] /\ new.call # d
      BY <1>1, <1>4, <2>2
    <3>2. /\ call[d].pc \in Open => \A l \in logs : l.call # d
          /\ call[d].pc = "accepted" => \E l \in Accepted : l.call = d
          /\ call[d].pc = "rejected" => \A l \in Accepted : l.call # d
          /\ \A l, k \in logs : l.call = d /\ k.call = d => l = k
      BY DEF IInv, ChargedOnce, Open
    <3> QED
      BY <1>6, <3>1, <3>2 DEF Accepted
  <2> QED
    BY <2>1, <2>2
<1> QED
  BY <1>2, <1>3, <1>7 DEF IInv

LEMMA CommitStep ==
  ASSUME IInv, NEW c \in Calls, CommitAccepted(c) \/ CommitRejected(c)
  PROVE  IInv'
<1>1. CASE CommitAccepted(c)
  <2>1. PICK s : s.pc \in {"accepted", "error"} /\ call' = [call EXCEPT ![c] = s]
    <3>1. Answer("accepted").pc = "accepted" /\ Answer("error").pc = "error"
      BY DEF Answer
    <3>2. \/ call' = [call EXCEPT ![c] = Answer("accepted")]
          \/ call' = [call EXCEPT ![c] = Answer("error")]
      BY <1>1 DEF CommitAccepted
    <3> QED
      BY <3>1, <3>2
  <2> QED
    BY <1>1, <2>1, LogStep DEF CommitAccepted, Inserting
<1>2. CASE CommitRejected(c)
  <2>1. PICK s : s.pc \in {"rejected", "error"} /\ call' = [call EXCEPT ![c] = s]
    <3>1. /\ Refused("rejected", call[c], call[c].retry, call[c].seen).pc = "rejected"
          /\ Answer("error").pc = "error"
      BY DEF Answer, Refused
    <3>2. \/ call' = [call EXCEPT ![c] = Refused("rejected", call[c], call[c].retry, call[c].seen)]
          \/ call' = [call EXCEPT ![c] = Answer("error")]
      BY <1>2 DEF CommitRejected
    <3> QED
      BY <3>1, <3>2
  <2> QED
    BY <1>2, <2>1, LogStep DEF CommitRejected, Inserting
<1> QED
  BY <1>1, <1>2

----------------------------------------------------------------------------
(* Edits leave the logs alone; a deletion takes them all with it.          *)
LEMMA EditKeyStep ==
  ASSUME IInv, EditKey
  PROVE  IInv'
<1>1. UNCHANGED <<logs, lock, call>> /\ key.exists
  BY DEF EditKey
<1>2. key'.exists \in BOOLEAN /\ key'.super \in BOOLEAN
  BY DEF EditKey
<1> QED
  BY <1>1, <1>2 DEF IInv, Fields, LockHeld, Locking, Decided, ChargedOnce, Accepted

LEMMA DeleteKeyStep ==
  ASSUME IInv, DeleteKey
  PROVE  IInv'
<1>1. UNCHANGED <<lock, call>> /\ logs' = {}
  BY DEF DeleteKey
<1>2. key'.exists = FALSE /\ key'.super = key.super
  BY DEF DeleteKey
<1> QED
  BY <1>1, <1>2 DEF IInv, Fields, LockHeld, Locking, Decided, ChargedOnce, Accepted

LEMMA UnchangedStep ==
  ASSUME IInv, UNCHANGED <<key, logs, lock, call>>
  PROVE  IInv'
BY DEF IInv, Fields, LockHeld, Locking, Decided, ChargedOnce, Accepted

LEMMA NextIInv ==
  ASSUME IInv, [Next]_vars
  PROVE  IInv'
<1>1. CASE Pass
  BY <1>1, UnchangedStep DEF Pass
<1>2. ASSUME NEW c \in Calls, Reserve(c) PROVE IInv'
  BY <1>2, ReadKeyStep, BeginStep, LockStep, ReadUsageStep, ReadRetryTimeStep, CommitStep,
     AbortStep DEF Reserve
<1>3. CASE UNCHANGED vars
  BY <1>3, UnchangedStep DEF vars
<1> QED
  BY <1>1, <1>2, <1>3, EditKeyStep, DeleteKeyStep DEF Next

THEOREM Invariance == Spec => []IInv
<1>1. Init => IInv
  BY InitIInv
<1>2. IInv /\ [Next]_vars => IInv'
  BY NextIInv
<1> QED
  BY <1>1, <1>2, PTL DEF Spec

(* No decision is stale when it is committed: while a limited call decides,*)
(* it holds the advisory lock of the key (usage.go, Reserve).              *)
THEOREM DecisionTheorem == Spec => []DecisionIsCurrent
<1>1. IInv => DecisionIsCurrent
  BY DEF IInv, LockHeld, Locking, DecisionIsCurrent
<1> QED
  BY <1>1, Invariance, PTL

(* A call is charged all its mails once or nothing, whatever fails, and    *)
(* however often the key is edited or deleted meanwhile.                   *)
THEOREM ChargedOnceTheorem == Spec => []ChargedOnce
<1>1. IInv => ChargedOnce
  BY DEF IInv
<1> QED
  BY <1>1, Invariance, PTL

----------------------------------------------------------------------------
(* Induction over the finite subsets of a set, by a least counterexample.  *)
LEMMA LeastSubset ==
  ASSUME NEW S, IsFiniteSet(S), NEW Bad, Bad \subseteq SUBSET S, Bad # {}
  PROVE  \E b \in Bad : \A s \in SUBSET b : s # b => s \notin Bad
<1>1. IsWellFoundedOn(StrictSubsetOrdering(S), SUBSET S)
  BY FS_StrictSubsetOrderingWellFounded, FS_FiniteSubsetsOfFinite
<1>2. PICK b \in Bad : \A s \in Bad : <<s, b>> \notin StrictSubsetOrdering(S)
  BY <1>1, WFMin
<1>3. ASSUME NEW s \in SUBSET b, s # b PROVE s \notin Bad
  <2>1. <<s, b>> \in (SUBSET S) \X (SUBSET S)
    BY <1>3
  <2>2. <<s, b>> \in StrictSubsetOrdering(S)
    BY <1>3, <2>1 DEF StrictSubsetOrdering
  <2> QED
    BY <1>2, <2>2
<1> QED
  BY <1>3

Chosen(s) == CHOOSE x \in s : TRUE

(* f is the function MapThenSumSet recurses with.                          *)
IsSum(f, S) ==
  f = [s \in SUBSET S |-> IF s = {} THEN 0 ELSE Chosen(s).mails + f[s \ {Chosen(s)}]]

TheSum(S) == CHOOSE f : IsSum(f, S)

LEMMA TotalIsSum ==
  ASSUME NEW S
  PROVE  Total(S) = TheSum(S)[S]
BY DEF Total, MapThenSumSet, MapThenFoldSet, TheSum, IsSum, Chosen

LEMMA ChosenIn ==
  ASSUME NEW s, s # {}
  PROVE  Chosen(s) \in s
BY DEF Chosen

LEMMA SumValue ==
  ASSUME NEW f, NEW S, IsSum(f, S), NEW s \in SUBSET S
  PROVE  f[s] = IF s = {} THEN 0 ELSE Chosen(s).mails + f[s \ {Chosen(s)}]
BY DEF IsSum

LEMMA SumsAgree ==
  ASSUME NEW S, IsFiniteSet(S), NEW T \in SUBSET S,
         NEW f, IsSum(f, S), NEW g, IsSum(g, T)
  PROVE  \A s \in SUBSET T : f[s] = g[s]
<1> DEFINE Bad == {s \in SUBSET T : f[s] # g[s]}
<1> SUFFICES ASSUME Bad # {} PROVE FALSE
  OBVIOUS
<1>1. PICK b \in Bad : \A s \in SUBSET b : s # b => s \notin Bad
  <2>1. Bad \subseteq SUBSET S
    OBVIOUS
  <2> HIDE DEF Bad
  <2> QED
    BY <2>1, LeastSubset
<1>2. b \in SUBSET T /\ b \in SUBSET S /\ f[b] # g[b]
  OBVIOUS
<1>3. b # {}
  BY <1>2, SumValue
<1>4. Chosen(b) \in b /\ b \ {Chosen(b)} \in SUBSET b /\ b \ {Chosen(b)} # b
  BY <1>3, ChosenIn
<1>5. f[b \ {Chosen(b)}] = g[b \ {Chosen(b)}]
  BY <1>1, <1>2, <1>4
<1>6. /\ f[b] = Chosen(b).mails + f[b \ {Chosen(b)}]
      /\ g[b] = Chosen(b).mails + g[b \ {Chosen(b)}]
  BY <1>2, <1>3, SumValue
<1> QED
  BY <1>2, <1>5, <1>6

LEMMA SumExists ==
  ASSUME NEW S, IsFiniteSet(S)
  PROVE  IsSum(TheSum(S), S)
<1> DEFINE Bad == {s \in SUBSET S : ~\E f : IsSum(f, s)}
<1>1. Bad = {}
  <2> SUFFICES ASSUME Bad # {} PROVE FALSE
    OBVIOUS
  <2>1. PICK b \in Bad : \A s \in SUBSET b : s # b => s \notin Bad
    <3>1. Bad \subseteq SUBSET S
      OBVIOUS
    <3> HIDE DEF Bad
    <3> QED
      BY <3>1, LeastSubset
  <2>2. b \in SUBSET S /\ ~\E f : IsSum(f, b)
    OBVIOUS
  <2>3. ASSUME NEW s \in SUBSET b, s # b PROVE IsSum(TheSum(s), s) /\ IsFiniteSet(s)
    <3>1. \E f : IsSum(f, s)
      BY <2>1, <2>2, <2>3
    <3> QED
      BY <2>2, <3>1, FS_Subset DEF TheSum
  <2> DEFINE step(s, f) == IF s = {} THEN 0 ELSE Chosen(s).mails + f[s \ {Chosen(s)}]
             below(s) == IF s = b THEN step(b, [r \in SUBSET b |-> TheSum(r)[r]]) ELSE TheSum(s)[s]
             f == [s \in SUBSET b |-> below(s)]
  <2>4. ASSUME NEW s \in SUBSET b PROVE below(s) = step(s, f)
    <3>1. CASE s = {}
      <4>1. CASE s = b
        BY <3>1, <4>1
      <4>2. CASE s # b
        <5>1. TheSum(s)[s] = 0
          BY <2>3, <3>1, <4>2, SumValue
        <5> QED
          BY <3>1, <4>2, <5>1
      <4> QED
        BY <4>1, <4>2
    <3>2. CASE s # {}
      <4> DEFINE r == s \ {Chosen(s)}
      <4>1. r \in SUBSET b /\ r # b /\ r \in SUBSET s /\ r # s
        BY <3>2, ChosenIn
      <4>2. f[r] = TheSum(r)[r]
        BY <4>1
      <4>3. CASE s = b
        <5>1. below(s) = Chosen(s).mails + [q \in SUBSET b |-> TheSum(q)[q]][r]
          BY <3>2, <4>3
        <5>2. [q \in SUBSET b |-> TheSum(q)[q]][r] = TheSum(r)[r]
          BY <4>1
        <5> QED
          BY <3>2, <4>2, <5>1, <5>2
      <4>4. CASE s # b
        <5>1. TheSum(s)[s] = Chosen(s).mails + TheSum(s)[r]
          BY <2>3, <3>2, <4>4, SumValue
        <5>2. TheSum(s)[r] = TheSum(r)[r]
          BY <2>3, <4>1, <4>4, SumsAgree
        <5> QED
          BY <3>2, <4>2, <4>4, <5>1, <5>2
      <4> QED
        BY <4>3, <4>4
    <3> QED
      BY <3>1, <3>2
  <2>5. f = [s \in SUBSET b |-> step(s, f)]
    <3> HIDE DEF below, step
    <3> QED
      BY <2>4
  <2>6. IsSum(f, b)
    <3> HIDE DEF below, f
    <3> QED
      BY <2>5 DEF IsSum
  <2> QED
    BY <2>2, <2>6
<1>2. \E f : IsSum(f, S)
  BY <1>1
<1> QED
  BY <1>2 DEF TheSum

(* Rows of mails: what the sums are taken of.                              *)
Countable(rows) == IsFiniteSet(rows) /\ \A l \in rows : l.mails \in Nat

LEMMA CountableSubset ==
  ASSUME NEW rows, Countable(rows), NEW some \in SUBSET rows
  PROVE  Countable(some)
BY FS_Subset DEF Countable

LEMMA TotalEmpty == Total({}) = 0
<1>1. IsSum(TheSum({}), {})
  BY SumExists, FS_EmptySet
<1> QED
  BY <1>1, SumValue, TotalIsSum

LEMMA TotalChosen ==
  ASSUME NEW rows, IsFiniteSet(rows), rows # {}
  PROVE  Total(rows) = Chosen(rows).mails + Total(rows \ {Chosen(rows)})
<1> DEFINE rest == rows \ {Chosen(rows)}
<1>1. rest \in SUBSET rows /\ IsFiniteSet(rest)
  BY FS_Subset
<1>2. IsSum(TheSum(rows), rows) /\ IsSum(TheSum(rest), rest)
  BY <1>1, SumExists
<1>3. TheSum(rows)[rest] = TheSum(rest)[rest]
  BY <1>1, <1>2, SumsAgree
<1>4. TheSum(rows)[rows] = Chosen(rows).mails + TheSum(rows)[rest]
  BY <1>2, SumValue
<1> QED
  BY <1>3, <1>4, TotalIsSum

LEMMA TotalNat ==
  ASSUME NEW rows, Countable(rows)
  PROVE  Total(rows) \in Nat
<1> DEFINE Bad == {s \in SUBSET rows : Total(s) \notin Nat}
<1> SUFFICES ASSUME Bad # {} PROVE FALSE
  OBVIOUS
<1>1. PICK b \in Bad : \A s \in SUBSET b : s # b => s \notin Bad
  <2>1. Bad \subseteq SUBSET rows /\ IsFiniteSet(rows)
    BY DEF Countable
  <2> HIDE DEF Bad
  <2> QED
    BY <2>1, LeastSubset
<1>2. b \in SUBSET rows /\ Total(b) \notin Nat /\ IsFiniteSet(b)
  BY CountableSubset DEF Countable
<1>3. b # {}
  BY <1>2, TotalEmpty
<1>4. Chosen(b) \in b
  BY <1>3, ChosenIn
<1>5. Total(b \ {Chosen(b)}) \in Nat /\ Chosen(b).mails \in Nat
  BY <1>1, <1>2, <1>4 DEF Countable
<1> QED
  BY <1>2, <1>3, <1>5, TotalChosen

(* A sum is a sum in whatever order.                                       *)
LEMMA TotalRemove ==
  ASSUME NEW rows, Countable(rows), NEW l \in rows
  PROVE  Total(rows) = l.mails + Total(rows \ {l})
<1> DEFINE Bad == {s \in SUBSET rows : \E y \in s : Total(s) # y.mails + Total(s \ {y})}
<1> SUFFICES ASSUME Bad # {} PROVE FALSE
  OBVIOUS
<1>1. PICK b \in Bad : \A s \in SUBSET b : s # b => s \notin Bad
  <2>1. Bad \subseteq SUBSET rows /\ IsFiniteSet(rows)
    BY DEF Countable
  <2> HIDE DEF Bad
  <2> QED
    BY <2>1, LeastSubset
<1>2. b \in SUBSET rows /\ Countable(b)
  BY CountableSubset
<1>3. PICK y \in b : Total(b) # y.mails + Total(b \ {y})
  OBVIOUS
<1>4. PICK x : x = Chosen(b)
  OBVIOUS
<1>5. x \in b /\ Total(b) = x.mails + Total(b \ {x})
  BY <1>2, <1>3, <1>4, ChosenIn, TotalChosen DEF Countable
<1>6. x # y
  BY <1>3, <1>5
<1>7. Total(b \ {x}) = y.mails + Total((b \ {x}) \ {y})
  <2>1. b \ {x} \in SUBSET b /\ b \ {x} # b /\ b \ {x} \in SUBSET rows /\ y \in b \ {x}
    BY <1>2, <1>3, <1>5, <1>6
  <2> QED
    BY <1>1, <2>1
<1>8. Total(b \ {y}) = x.mails + Total((b \ {x}) \ {y})
  <2>1. b \ {y} \in SUBSET b /\ b \ {y} # b /\ b \ {y} \in SUBSET rows /\ x \in b \ {y}
    BY <1>2, <1>3, <1>5, <1>6
  <2>2. (b \ {y}) \ {x} = (b \ {x}) \ {y}
    OBVIOUS
  <2>3. Total(b \ {y}) = x.mails + Total((b \ {y}) \ {x})
    BY <1>1, <2>1
  <2> QED
    BY <2>2, <2>3
<1>9. x.mails \in Nat /\ y.mails \in Nat /\ Total((b \ {x}) \ {y}) \in Nat
  <2>1. Countable((b \ {x}) \ {y})
    BY <1>2, CountableSubset
  <2> QED
    BY <1>2, <1>3, <1>5, <2>1, TotalNat DEF Countable
<1> QED
  BY <1>3, <1>5, <1>7, <1>8, <1>9

LEMMA TotalAdd ==
  ASSUME NEW rows, Countable(rows), NEW l, l \notin rows, l.mails \in Nat
  PROVE  /\ Countable(rows \cup {l})
         /\ Total(rows \cup {l}) = Total(rows) + l.mails
<1>1. Countable(rows \cup {l})
  BY FS_AddElement DEF Countable
<1>2. Total(rows \cup {l}) = l.mails + Total((rows \cup {l}) \ {l})
  BY <1>1, TotalRemove
<1>3. (rows \cup {l}) \ {l} = rows
  OBVIOUS
<1>4. Total(rows) \in Nat
  BY TotalNat
<1>5. Total(rows \cup {l}) = l.mails + Total(rows)
  BY <1>2, <1>3
<1>6. l.mails + Total(rows) = Total(rows) + l.mails
  BY <1>4
<1> QED
  BY <1>1, <1>5, <1>6

(* What is left out of a sum is the difference.                            *)
LEMMA TotalSplit ==
  ASSUME NEW rows, Countable(rows), NEW some \in SUBSET rows
  PROVE  Total(rows) = Total(some) + Total(rows \ some)
<1> DEFINE Bad == {s \in SUBSET some : Total((rows \ some) \cup s) # Total(s) + Total(rows \ some)}
<1> SUFFICES Bad = {}
  <2>1. (rows \ some) \cup some = rows
    OBVIOUS
  <2> QED
    BY <2>1
<1> SUFFICES ASSUME Bad # {} PROVE FALSE
  OBVIOUS
<1>1. PICK b \in Bad : \A s \in SUBSET b : s # b => s \notin Bad
  <2>1. Bad \subseteq SUBSET some /\ IsFiniteSet(some)
    BY FS_Subset DEF Countable
  <2> HIDE DEF Bad
  <2> QED
    BY <2>1, LeastSubset
<1>2. b \in SUBSET some /\ Total((rows \ some) \cup b) # Total(b) + Total(rows \ some)
  OBVIOUS
<1>3. Countable(b) /\ Countable(rows \ some) /\ Total(rows \ some) \in Nat
  BY <1>2, CountableSubset, TotalNat
<1>4. b # {}
  BY <1>2, <1>3, TotalEmpty
<1>5. PICK y \in b : TRUE
  BY <1>4
<1>6. /\ b \ {y} \in SUBSET b /\ b \ {y} # b /\ b \ {y} \in SUBSET some
      /\ y.mails \in Nat /\ y \notin (rows \ some) \cup (b \ {y})
      /\ (rows \ some) \cup b = ((rows \ some) \cup (b \ {y})) \cup {y}
  BY <1>2, <1>3, <1>5 DEF Countable
<1>7. Total((rows \ some) \cup (b \ {y})) = Total(b \ {y}) + Total(rows \ some)
  BY <1>1, <1>6
<1>8. Total((rows \ some) \cup b) = Total((rows \ some) \cup (b \ {y})) + y.mails
  <2>1. Countable((rows \ some) \cup (b \ {y}))
    BY <1>2, CountableSubset
  <2> QED
    BY <1>6, <2>1, TotalAdd
<1>9. Total(b) = y.mails + Total(b \ {y}) /\ Total(b \ {y}) \in Nat
  BY <1>3, <1>6, TotalRemove, TotalNat, CountableSubset
<1> QED
  BY <1>2, <1>3, <1>6, <1>7, <1>8, <1>9

LEMMA TotalMonotone ==
  ASSUME NEW rows, Countable(rows), NEW some \in SUBSET rows
  PROVE  Total(some) <= Total(rows)
<1>1. Countable(some) /\ Countable(rows \ some)
  BY CountableSubset
<1>2. Total(some) \in Nat /\ Total(rows \ some) \in Nat
  BY <1>1, TotalNat
<1>3. Total(rows) = Total(some) + Total(rows \ some)
  BY TotalSplit
<1> QED
  BY <1>2, <1>3

----------------------------------------------------------------------------
(* A set of numbers that is not empty has a least one; one with a bound a  *)
(* greatest one.                                                           *)
LEMMA MinOfNats ==
  ASSUME NEW T, T \subseteq Nat, T # {}
  PROVE  Min(T) \in T /\ \A y \in T : Min(T) <= y
<1> DEFINE less == {ss \in Nat \X Nat : ss[1] < ss[2]}
<1>1. IsWellFoundedOn(less, Nat)
  BY NatLessThanWellFounded, Zenon DEF OpToRel
<1>2. PICK x \in T : \A y \in T : <<y, x>> \notin less
  <2> HIDE DEF less
  <2> QED
    BY <1>1, WFMin
<1>3. ASSUME NEW y \in T PROVE x <= y
  <2>1. <<y, x>> \in Nat \X Nat /\ ~(y < x)
    BY <1>2
  <2> QED
    BY <2>1
<1> QED
  BY <1>3 DEF Min

LEMMA MaxBelow ==
  ASSUME NEW T, T \subseteq Nat, T # {}, NEW bound \in Nat, \A y \in T : y <= bound
  PROVE  \E x \in T : \A y \in T : y <= x
<1> DEFINE gaps == {bound - y : y \in T}
<1>1. gaps \subseteq Nat /\ gaps # {}
  <2>1. ASSUME NEW y \in T PROVE bound - y \in Nat
    <3>1. y \in Nat /\ y <= bound
      OBVIOUS
    <3> QED
      BY <3>1
  <2> QED
    BY <2>1
<1>2. PICK g \in gaps : \A h \in gaps : g <= h
  <2> HIDE DEF gaps
  <2> QED
    BY <1>1, MinOfNats
<1>3. PICK x \in T : g = bound - x
  BY <1>2
<1>4. ASSUME NEW y \in T PROVE bound - x <= bound - y
  BY <1>2, <1>3
<1>5. ASSUME NEW y \in T PROVE y <= x
  <2>1. x \in Nat /\ y \in Nat
    OBVIOUS
  <2> QED
    BY <1>4, <2>1
<1> QED
  BY <1>5

----------------------------------------------------------------------------
(* What the time a LimitError names is, and that it fits.                  *)
LEMMA WindowType ==
  ASSUME NEW w \in WindowNumbers
  PROVE  Windows[w] \in Nat /\ Windows[w] > 0
BY QuotaConstants DEF WindowNumbers

LEMMA RetryTimeType ==
  ASSUME NEW rows, \A l \in rows : l.at \in Nat, NEW now \in Nat, NEW w \in WindowNumbers,
         NEW need
  PROVE  \/ RetryTime(rows, now, w, need) = Never
         \/ RetryTime(rows, now, w, need) \in Nat /\ RetryTime(rows, now, w, need) > now
<1> DEFINE old == Within(rows, now, w)
           enough == {l.at : l \in {r \in old : FreedBy(old, r.at) >= need}}
<1>1. \A a \in enough : a \in Nat /\ a > now - Windows[w]
  BY DEF Within
<1>2. RetryTime(rows, now, w, need) = IF enough = {} THEN Never ELSE Min(enough) + Windows[w]
  BY DEF RetryTime
<1> HIDE DEF enough
<1>3. CASE enough # {}
  <2>1. Min(enough) \in Nat /\ Min(enough) > now - Windows[w]
    BY <1>1, <1>3, MinOfNats
  <2> QED
    BY <1>2, <1>3, <2>1, WindowType
<1> QED
  BY <1>2, <1>3

(* From now on usage only falls: by what has been freed.                   *)
LEMMA UsedLater ==
  ASSUME NEW rows, Countable(rows), \A l \in rows : l.at \in Nat,
         NEW now \in Nat, NEW w \in WindowNumbers, NEW t \in Nat, t >= now
  PROVE  /\ Used(rows, now, w) \in Nat /\ Used(rows, t, w) \in Nat
         /\ FreedBy(Within(rows, now, w), t - Windows[w]) \in Nat
         /\ Used(rows, now, w) = Used(rows, t, w) + FreedBy(Within(rows, now, w), t - Windows[w])
<1> DEFINE old == Within(rows, now, w)
           late == Within(rows, t, w)
           freed == {l \in old : l.at <= t - Windows[w]}
<1>1. Windows[w] \in Nat
  BY WindowType
<1>2. late \in SUBSET old /\ freed = old \ late
  BY <1>1 DEF Within
<1>3. Countable(old) /\ Countable(late) /\ Countable(freed)
  <2>1. old \in SUBSET rows /\ late \in SUBSET rows /\ freed \in SUBSET rows
    BY DEF Within
  <2> HIDE DEF old, late, freed
  <2> QED
    BY <2>1, CountableSubset
<1>4. /\ Used(rows, now, w) = Total(old) /\ Used(rows, t, w) = Total(late)
      /\ FreedBy(old, t - Windows[w]) = Total(freed)
  BY DEF Used, FreedBy
<1> HIDE DEF old, late, freed
<1>5. Total(old) = Total(late) + Total(freed)
  BY <1>2, <1>3, TotalSplit
<1>6. Total(old) \in Nat /\ Total(late) \in Nat /\ Total(freed) \in Nat
  BY <1>3, TotalNat
<1> QED
  BY <1>4, <1>5, <1>6 DEF old

LEMMA RetryTimeFits ==
  ASSUME NEW rows, Countable(rows), \A l \in rows : l.at \in Nat /\ l.at <= MaxTime,
         NEW now \in Nat, NEW w \in WindowNumbers, NEW limit \in Nat, NEW n \in Nat,
         limit # 0, n <= limit, Used(rows, now, w) + n > limit
  PROVE  RetryTime(rows, now, w, Used(rows, now, w) + n - limit)
           = EarliestFit(rows, now, w, limit, n)
<1> DEFINE old == Within(rows, now, w)
           W == Windows[w]
           used == Used(rows, now, w)
           need == used + n - limit
           enough == {l.at : l \in {r \in old : FreedBy(old, r.at) >= need}}
           fits == {t \in now..(now + MaxTime + W) : Fits(limit, Used(rows, t, w), n)}
           m == Min(enough)
<1>1. W \in Nat /\ W > 0 /\ MaxTime \in Nat /\ used \in Nat /\ need \in Nat /\ need > 0
  <2>1. used \in Nat
    BY UsedLater
  <2> QED
    BY <2>1, WindowType, QuotaConstants
<1>2. /\ Countable(old) /\ \A l \in old : l.at \in Nat /\ l.at <= MaxTime /\ l.at > now - W
      /\ Total(old) = used
  <2>1. old \in SUBSET rows
    BY DEF Within
  <2> QED
    BY <2>1, CountableSubset DEF Within, Used
<1>3. ASSUME NEW t \in Nat, t >= now
      PROVE  /\ FreedBy(old, t - W) \in Nat
             /\ Fits(limit, Used(rows, t, w), n) <=> FreedBy(old, t - W) >= need
  <2>1. /\ Used(rows, t, w) \in Nat /\ FreedBy(old, t - W) \in Nat
        /\ used = Used(rows, t, w) + FreedBy(old, t - W)
    BY <1>3, UsedLater
  <2> HIDE DEF used, old, W
  <2> QED
    BY <1>1, <2>1 DEF Fits
(* The latest row frees what all rows hold, so some row frees enough.      *)
<1>4. ASSUME NEW a \in Int, FreedBy(old, a) >= need
      PROVE  \E l \in old : l.at <= a /\ l.at \in enough
  <2> DEFINE freed == {l \in old : l.at <= a}
             times == {l.at : l \in freed}
  <2>1. freed # {}
    <3>1. Total(freed) >= need
      BY <1>4 DEF FreedBy
    <3> HIDE DEF freed, need
    <3> QED
      BY <1>1, <3>1, TotalEmpty
  <2>2. times \subseteq Nat /\ times # {} /\ \A y \in times : y <= MaxTime
    BY <1>2, <2>1
  <2>3. PICK x \in times : \A y \in times : y <= x
    <3> HIDE DEF times
    <3> QED
      BY <1>1, <2>2, MaxBelow
  <2>4. PICK l \in freed : l.at = x
    BY <2>3
  <2>5. \A r \in old : r.at <= a <=> r.at <= l.at
    <3> TAKE r \in old
    <3>1. r.at \in Nat /\ l.at \in Nat /\ l.at <= a
      BY <1>2, <2>4
    <3>2. r.at <= a => r.at <= l.at
      <4>1. r.at <= a => r.at \in times
        OBVIOUS
      <4> QED
        BY <2>3, <2>4, <4>1
    <3> QED
      BY <3>1, <3>2
  <2>6. {r \in old : r.at <= l.at} = {r \in old : r.at <= a}
    BY <2>5
  <2>7. FreedBy(old, l.at) >= need
    BY <1>4, <2>6 DEF FreedBy
  <2>8. l \in old /\ l.at <= a
    BY <2>4
  <2> QED
    BY <2>7, <2>8
<1>5. enough # {} /\ \A a \in enough : a \in Nat /\ a <= MaxTime /\ a > now - W
      /\ FreedBy(old, a) >= need
  <2>1. FreedBy(old, MaxTime) = used
    <3>1. {l \in old : l.at <= MaxTime} = old
      BY <1>2
    <3> QED
      BY <1>2, <3>1 DEF FreedBy
  <2>2. used >= need
    BY <1>1
  <2>3. enough # {}
    <3> HIDE DEF enough, old, used, need
    <3> QED
      BY <1>1, <1>4, <2>1, <2>2
  <2>4. \A a \in enough : a \in Nat /\ a <= MaxTime /\ a > now - W /\ FreedBy(old, a) >= need
    BY <1>2
  <2> QED
    BY <2>3, <2>4
<1>6. m \in enough /\ (\A a \in enough : m <= a) /\ m \in Nat
  <2> HIDE DEF enough
  <2> QED
    BY <1>5, MinOfNats
<1>7. RetryTime(rows, now, w, need) = m + W
  BY <1>5 DEF RetryTime
<1> HIDE DEF enough, m
<1>8. m + W \in fits
  <2>1. m + W \in now..(now + MaxTime + W)
    BY <1>1, <1>5, <1>6
  <2>2. (m + W) - W = m
    BY <1>1, <1>6
  <2>3. FreedBy(old, (m + W) - W) >= need
    BY <1>5, <1>6, <2>2
  <2>4. m + W \in Nat /\ m + W >= now
    BY <1>1, <2>1
  <2>5. Fits(limit, Used(rows, m + W, w), n)
    BY <1>3, <2>3, <2>4
  <2> QED
    BY <2>1, <2>5
<1>9. ASSUME NEW t \in fits PROVE m + W <= t
  <2>1. t \in Nat /\ t >= now /\ FreedBy(old, t - W) >= need
    BY <1>3, <1>9, <1>1
  <2>2. PICK l \in old : l.at <= t - W /\ l.at \in enough
    BY <1>1, <1>4, <2>1
  <2>3. m <= l.at /\ l.at \in Nat
    BY <1>2, <1>6, <2>2
  <2> QED
    BY <1>1, <1>6, <2>1, <2>2, <2>3
<1>10. fits \subseteq Nat
  BY <1>1
<1> HIDE DEF fits
<1>11. Min(fits) \in fits /\ Min(fits) \in Nat /\ Min(fits) <= m + W /\ m + W <= Min(fits)
  BY <1>8, <1>9, <1>10, MinOfNats
<1>12. Min(fits) = m + W
  BY <1>1, <1>6, <1>11
<1> QED
  BY <1>7, <1>12 DEF EarliestFit, fits

----------------------------------------------------------------------------
(* What the limits rest on: the rows are finitely many and no younger than *)
(* the clock; a limited call that is about to be charged still has room,   *)
(* counting the rows of limited calls alone; and a refused one knows the   *)
(* usage of its window, unless a super key's call was charged meanwhile.   *)
Dated ==
  /\ IsFiniteSet(logs) /\ \A l \in logs : l.at <= clock
  /\ \A c \in Calls : call[c].pc \in InTransaction => call[c].now <= clock

Limited(rows) == {l \in rows : l.status = "accepted" /\ ~l.super}

HasRoom(c) ==
  \A w \in WindowNumbers :
    \/ call[c].limits[w] = 0
    \/ Total(Within(Limited(logs), call[c].now, w)) + Mails[c] <= call[c].limits[w]

RoomKept == \A c \in Calls : call[c].pc = "commit" /\ ~call[c].super => HasRoom(c)

NoSuper(rows) == \A l \in rows : ~l.super

KnowsUsage(c) ==
  LET w == call[c].window
      limit == call[c].limits[w]
  IN /\ limit # 0 /\ call[c].used + Mails[c] > limit
     /\ key.exists /\ NoSuper(Accepted) => call[c].used = Used(Accepted, call[c].now, w)

KnowsRetry(c) ==
  LET limit == call[c].limits[call[c].window]
  IN NoSuper(call[c].seen) =>
       call[c].retry =
         IF Mails[c] > limit THEN Never
         ELSE EarliestFit(call[c].seen, call[c].now, call[c].window, limit, Mails[c])

RefusedRightly ==
  \A c \in Calls :
    /\ call[c].pc = "over" => KnowsUsage(c)
    /\ call[c].pc = "reject" /\ key.exists => KnowsRetry(c)
    /\ call[c].pc = "rejected" => KnowsRetry(c)

UInv == TypeOK /\ Dated /\ RoomKept /\ RefusedRightly /\ NoOvershoot

LEMMA HandlerFields ==
  ASSUME NEW s \in Handler
  PROVE  /\ s.pc \in {"idle", "authed", "begun", "locked", "over", "commit", "reject",
                      "rejected", "accepted", "error"}
         /\ s.pc = "authed" => s.super \in BOOLEAN /\ s.limits \in Limits
         /\ s.pc \in InTransaction \cup {"rejected"} =>
              s.super \in BOOLEAN /\ s.limits \in Limits /\ s.now \in Nat
         /\ s.pc \in {"over", "reject", "rejected"} =>
              s.window \in WindowNumbers /\ s.used \in Nat
         /\ s.pc \in {"reject", "rejected"} =>
              s.retry \in Nat \cup {Never} /\ s.seen \subseteq Log
BY DEF Handler, Idle, InTransaction, Querying, Inserting

LEMMA CallChange ==
  ASSUME TypeOK, NEW c \in Calls, NEW s \in Handler, call' = [call EXCEPT ![c] = s]
  PROVE  /\ call' \in [Calls -> Handler]
         /\ call'[c] = s
         /\ \A d \in Calls : d # c => call'[d] = call[d]
BY DEF TypeOK

LEMMA LimitType ==
  ASSUME NEW limits \in Limits, NEW w \in WindowNumbers
  PROVE  limits[w] \in Nat
BY DEF Limits

LEMMA LogFields ==
  ASSUME NEW l \in Log
  PROVE  /\ l.at \in Nat /\ l.mails \in Nat /\ l.super \in BOOLEAN /\ l.limits \in Limits
         /\ l.status \in {"accepted", "limit_exceeded"}
BY DEF Log

LEMMA LogsCountable ==
  ASSUME UInv
  PROVE  /\ Countable(logs) /\ Countable(Accepted) /\ Countable(Limited(logs))
         /\ \A l \in logs : l.at \in Nat /\ l.at <= MaxTime
<1>1. Countable(logs) /\ \A l \in logs : l.at \in Nat /\ l.at <= clock
  BY LogFields DEF UInv, TypeOK, Dated, Countable
<1>2. Accepted \in SUBSET logs /\ Limited(logs) \in SUBSET logs
  BY DEF Accepted, Limited
<1>3. Countable(Accepted) /\ Countable(Limited(logs))
  BY <1>1, <1>2, CountableSubset
<1>4. clock \in Nat /\ clock <= MaxTime /\ MaxTime \in Nat
  BY QuotaConstants DEF UInv, TypeOK
<1> QED
  BY <1>1, <1>3, <1>4

LEMMA InitUInv == Init => UInv
<1> SUFFICES ASSUME Init PROVE UInv
  OBVIOUS
<1>1. call = [c \in Calls |-> Idle] /\ Idle \in Handler
  BY DEF Init, Handler
<1>2. \A c \in Calls : call[c].pc = "idle"
  BY <1>1 DEF Idle
<1>3. /\ logs \subseteq Log /\ \A l \in logs : l.at <= clock
      /\ IsFiniteSet(logs) /\ LimitsKept(logs)
  BY QuotaConstants, PastKeptLimits DEF Init
<1>4. TypeOK
  <2>1. clock \in 0..MaxTime /\ lock \in Calls \cup {None}
    BY QuotaConstants DEF Init
  <2>2. key \in [exists : BOOLEAN, super : BOOLEAN, limits : LimitChoices]
    BY DEF Init
  <2> QED
    BY <1>1, <1>2, <1>3, <2>1, <2>2 DEF TypeOK
<1>5. Dated /\ RoomKept /\ RefusedRightly /\ NoOvershoot
  BY <1>2, <1>3 DEF Dated, RoomKept, RefusedRightly, NoOvershoot, InTransaction, Querying, Inserting
<1> QED
  BY <1>4, <1>5 DEF UInv

(* A step of one call that writes no row: the others decide as before.     *)
LEMMA QuietStep ==
  ASSUME UInv, NEW c \in Calls, NEW s \in Handler,
         UNCHANGED <<clock, key, logs>>, lock' \in Calls \cup {None},
         call' = [call EXCEPT ![c] = s],
         s.pc \in InTransaction => s.now <= clock,
         s.pc = "reject" => s.retry = Never \/ s.retry > s.now,
         call'[c] = s =>
           /\ s.pc = "commit" /\ ~s.super => HasRoom(c)'
           /\ s.pc = "over" => KnowsUsage(c)'
           /\ s.pc = "reject" /\ key.exists => KnowsRetry(c)'
           /\ s.pc # "rejected"
  PROVE  UInv'
<1>1. /\ call' \in [Calls -> Handler] /\ call'[c] = s
      /\ \A d \in Calls : d # c => call'[d] = call[d]
  BY CallChange DEF UInv
<1>2. TypeOK'
  BY <1>1 DEF UInv, TypeOK
<1>7. Dated'
  BY <1>1 DEF UInv, Dated
<1>3. ASSUME NEW d \in Calls, d # c
      PROVE  /\ HasRoom(d) => HasRoom(d)'
             /\ KnowsUsage(d) => KnowsUsage(d)'
             /\ KnowsRetry(d) => KnowsRetry(d)'
  <2>1. call'[d] = call[d] /\ logs' = logs /\ key' = key
    BY <1>1, <1>3
  <2>2. HasRoom(d) => HasRoom(d)'
    BY <2>1 DEF HasRoom, Limited
  <2>3. KnowsUsage(d) => KnowsUsage(d)'
    BY <2>1 DEF KnowsUsage, Accepted
  <2>4. KnowsRetry(d) => KnowsRetry(d)'
    BY <2>1 DEF KnowsRetry
  <2> QED
    BY <2>2, <2>3, <2>4
<1>4. RoomKept'
  BY <1>1, <1>3 DEF UInv, RoomKept
<1>5. RefusedRightly'
  BY <1>1, <1>3 DEF UInv, RefusedRightly
<1>6. NoOvershoot'
  BY DEF UInv, NoOvershoot
<1> QED
  BY <1>2, <1>4, <1>5, <1>6, <1>7 DEF UInv

LEMMA ReadKeyUsage ==
  ASSUME UInv, NEW c \in Calls, ReadKey(c)
  PROVE  UInv'
<1> DEFINE s == Authed(key.super, key.limits)
<1>1. s \in Handler /\ s.pc = "authed"
  <2>1. key.super \in BOOLEAN /\ key.limits \in Limits
    BY QuotaConstants DEF UInv, TypeOK
  <2> QED
    BY <2>1 DEF Authed, Handler
<1>2. /\ UNCHANGED <<clock, key, logs, lock>> /\ call' = [call EXCEPT ![c] = s]
      /\ lock \in Calls \cup {None}
  BY DEF ReadKey, UInv, TypeOK
<1> HIDE DEF s
<1> QED
  BY <1>1, <1>2, QuietStep DEF InTransaction, Querying, Inserting

LEMMA TxType ==
  ASSUME NEW pc \in {"begun", "locked", "commit"}, NEW s, s.super \in BOOLEAN,
         s.limits \in Limits, NEW now \in Nat
  PROVE  /\ Tx(pc, s, now) \in Handler
         /\ Tx(pc, s, now).pc = pc /\ Tx(pc, s, now).super = s.super
         /\ Tx(pc, s, now).limits = s.limits /\ Tx(pc, s, now).now = now
BY DEF Tx, Handler

LEMMA BeginUsage ==
  ASSUME UInv, NEW c \in Calls, Begin(c)
  PROVE  UInv'
<1> DEFINE pc == IF call[c].super THEN "commit" ELSE "begun"
           s == Tx(pc, call[c], clock)
<1>1. call[c] \in Handler /\ call[c].pc = "authed" /\ clock \in Nat
  BY QuotaConstants DEF Begin, UInv, TypeOK
<1>2. call[c].super \in BOOLEAN /\ call[c].limits \in Limits
  BY <1>1, HandlerFields
<1>3. pc \in {"begun", "locked", "commit"}
  OBVIOUS
<1>4. s \in Handler /\ s.pc = pc /\ s.super = call[c].super /\ s.now = clock
  <2> HIDE DEF pc
  <2> QED
    BY <1>1, <1>2, <1>3, TxType
<1>5. s.pc = "begun" \/ (s.pc = "commit" /\ s.super)
  BY <1>2, <1>4
<1>6. /\ UNCHANGED <<clock, key, logs, lock>> /\ call' = [call EXCEPT ![c] = s]
      /\ lock \in Calls \cup {None}
  BY DEF Begin, UInv, TypeOK
<1>7. s.now <= clock
  BY <1>1, <1>4
<1> HIDE DEF s
<1> QED
  BY <1>4, <1>5, <1>6, <1>7, QuietStep

LEMMA LockUsage ==
  ASSUME UInv, NEW c \in Calls, Lock(c)
  PROVE  UInv'
<1> DEFINE s == Tx("locked", call[c], call[c].now)
<1>1. call[c] \in Handler /\ call[c].pc = "begun" /\ call[c].now <= clock
  BY DEF Lock, UInv, TypeOK, Dated, InTransaction, Querying
<1>2. call[c].super \in BOOLEAN /\ call[c].limits \in Limits /\ call[c].now \in Nat
  BY <1>1, HandlerFields DEF InTransaction, Querying
<1>3. s \in Handler /\ s.pc = "locked" /\ s.now = call[c].now
  BY <1>2, TxType
<1>4. /\ UNCHANGED <<clock, key, logs>> /\ call' = [call EXCEPT ![c] = s]
      /\ lock' \in Calls \cup {None}
  BY DEF Lock
<1> HIDE DEF s
<1> QED
  BY <1>1, <1>3, <1>4, QuietStep

(* The loop over the windows finds the first one that is exceeded, or all  *)
(* have room, whatever super keys' calls were charged.                     *)
LEMMA ReadUsageUsage ==
  ASSUME UInv, NEW c \in Calls, ReadUsage(c)
  PROVE  UInv'
<1>1. call[c] \in Handler /\ call[c].pc = "locked" /\ call[c].now <= clock
  BY DEF ReadUsage, UInv, TypeOK, Dated, InTransaction, Querying
<1>2. call[c].super \in BOOLEAN /\ call[c].limits \in Limits /\ call[c].now \in Nat
  BY <1>1, HandlerFields DEF InTransaction, Querying
<1>3. /\ UNCHANGED <<clock, key, logs, lock>> /\ lock \in Calls \cup {None}
      /\ Mails[c] \in Nat
  BY QuotaConstants DEF ReadUsage, UInv, TypeOK
<1>4. ASSUME NEW w \in WindowNumbers
      PROVE  /\ Countable(Within(Accepted, call[c].now, w))
             /\ Used(Accepted, call[c].now, w) \in Nat
             /\ call[c].limits[w] \in Nat
  <2>1. Within(Accepted, call[c].now, w) \in SUBSET Accepted
    BY DEF Within
  <2>2. Countable(Within(Accepted, call[c].now, w))
    BY <2>1, LogsCountable, CountableSubset
  <2> QED
    BY <1>2, <2>2, TotalNat, LimitType DEF Used
<1> DEFINE over == {w \in WindowNumbers : Exceeded(c, w)}
<1>5. CASE over = {}
  <2> DEFINE s == Tx("commit", call[c], call[c].now)
  <2>1. call' = [call EXCEPT ![c] = s]
    BY <1>5 DEF ReadUsage
  <2>2. /\ s \in Handler /\ s.pc = "commit" /\ s.now = call[c].now
        /\ s.limits = call[c].limits
    BY <1>2, TxType
  <2> HIDE DEF s
  <2>3. ASSUME call'[c] = s PROVE HasRoom(c)'
    <3> SUFFICES ASSUME NEW w \in WindowNumbers, s.limits[w] # 0
                 PROVE  Total(Within(Limited(logs), s.now, w)) + Mails[c] <= s.limits[w]
      BY <1>3, <2>3 DEF HasRoom, Limited
    <3>1. ~Exceeded(c, w)
      BY <1>5
    <3>2. Used(Accepted, s.now, w) + Mails[c] <= s.limits[w]
      BY <2>2, <3>1 DEF Exceeded, Fits
    <3>3. Within(Limited(logs), s.now, w) \in SUBSET Within(Accepted, s.now, w)
      BY DEF Within, Limited, Accepted
    <3>4. Total(Within(Limited(logs), s.now, w)) <= Used(Accepted, s.now, w)
      BY <1>4, <2>2, <3>3, TotalMonotone DEF Used
    <3>5. Total(Within(Limited(logs), s.now, w)) \in Nat
      BY <1>4, <2>2, <3>3, CountableSubset, TotalNat
    <3> QED
      BY <1>3, <1>4, <2>2, <3>2, <3>4, <3>5
  <2> QED
    BY <1>1, <1>3, <2>1, <2>2, <2>3, QuietStep
<1>6. CASE over # {}
  <2>1. over \subseteq Nat
    BY DEF WindowNumbers
  <2>2. Min(over) \in over
    <3> HIDE DEF over
    <3> QED
      BY <1>6, <2>1, MinOfNats
  <2>3. PICK w : w = Min(over)
    OBVIOUS
  <2>4. w \in WindowNumbers /\ Exceeded(c, w)
    BY <2>2, <2>3
  <2> DEFINE used == Used(Accepted, call[c].now, w)
             s == Over(call[c], w, used)
  <2>5. call' = [call EXCEPT ![c] = s]
    BY <1>6, <2>3 DEF ReadUsage
  <2>6. used \in Nat
    BY <1>4, <2>4
  <2>7. /\ s \in Handler /\ s.pc = "over" /\ s.now = call[c].now /\ s.limits = call[c].limits
        /\ s.window = w /\ s.used = used
    <3> HIDE DEF used
    <3> QED
      BY <1>2, <2>4, <2>6 DEF Over, Handler
  <2>8. call[c].limits[w] # 0 /\ used + Mails[c] > call[c].limits[w]
    BY <1>3, <1>4, <2>4 DEF Exceeded, Fits
  <2> HIDE DEF s
  <2>9. ASSUME call'[c] = s PROVE KnowsUsage(c)'
    <3>1. Accepted' = Accepted
      BY <1>3 DEF Accepted
    <3> QED
      BY <1>3, <2>7, <2>8, <2>9, <3>1 DEF KnowsUsage
  <2> QED
    BY <1>1, <1>3, <2>5, <2>7, <2>9, QuietStep
<1> QED
  BY <1>5, <1>6

LEMMA ReadRetryTimeUsage ==
  ASSUME UInv, NEW c \in Calls, ReadRetryTime(c)
  PROVE  UInv'
<1> DEFINE w == call[c].window
           limit == call[c].limits[w]
           now == call[c].now
           need == call[c].used + Mails[c] - limit
           retry == IF Mails[c] > limit THEN Never ELSE RetryTime(Accepted, now, w, need)
           s == Refused("reject", call[c], retry, Accepted)
<1>1. call[c] \in Handler /\ call[c].pc = "over" /\ now <= clock
  BY DEF ReadRetryTime, UInv, TypeOK, Dated, InTransaction, Querying
<1>2. /\ call[c].super \in BOOLEAN /\ call[c].limits \in Limits /\ now \in Nat
      /\ w \in WindowNumbers /\ call[c].used \in Nat
  BY <1>1, HandlerFields DEF InTransaction, Querying
<1>3. /\ UNCHANGED <<clock, key, logs, lock>> /\ lock \in Calls \cup {None}
      /\ Mails[c] \in Nat
  BY QuotaConstants DEF ReadRetryTime, UInv, TypeOK
<1>4. limit \in Nat
  BY <1>2, LimitType
<1>5. call' = [call EXCEPT ![c] = s]
  BY DEF ReadRetryTime
<1>6. /\ limit # 0 /\ call[c].used + Mails[c] > limit
      /\ key.exists /\ NoSuper(Accepted) => call[c].used = Used(Accepted, now, w)
  BY <1>1 DEF UInv, RefusedRightly, KnowsUsage
<1>7. /\ Countable(Accepted) /\ Accepted \subseteq Log
      /\ \A l \in Accepted : l.at \in Nat /\ l.at <= MaxTime
  BY LogsCountable DEF Accepted, UInv, TypeOK
<1>8. retry \in Nat \cup {Never} /\ (retry = Never \/ retry > now)
  <2>1. \/ RetryTime(Accepted, now, w, need) = Never
        \/ RetryTime(Accepted, now, w, need) \in Nat /\ RetryTime(Accepted, now, w, need) > now
    <3> HIDE DEF need
    <3> QED
      BY <1>2, <1>7, RetryTimeType
  <2> HIDE DEF need, now, w, limit
  <2> QED
    BY <2>1
<1>9. key.exists /\ NoSuper(Accepted) =>
        retry = IF Mails[c] > limit THEN Never ELSE EarliestFit(Accepted, now, w, limit, Mails[c])
  <2> SUFFICES ASSUME key.exists, NoSuper(Accepted), ~(Mails[c] > limit)
               PROVE  retry = EarliestFit(Accepted, now, w, limit, Mails[c])
    OBVIOUS
  <2>1. call[c].used = Used(Accepted, now, w) /\ Mails[c] <= limit
    BY <1>3, <1>4, <1>6
  <2>2. need = Used(Accepted, now, w) + Mails[c] - limit
    BY <2>1
  <2>3. Used(Accepted, now, w) + Mails[c] > limit
    BY <1>6, <2>1
  <2>4. RetryTime(Accepted, now, w, Used(Accepted, now, w) + Mails[c] - limit)
          = EarliestFit(Accepted, now, w, limit, Mails[c])
    <3> HIDE DEF now, w, limit, need
    <3> QED
      BY <1>2, <1>3, <1>4, <1>6, <1>7, <2>1, <2>3, RetryTimeFits
  <2>5. retry = RetryTime(Accepted, now, w, need)
    OBVIOUS
  <2> HIDE DEF now, w, limit, need, retry
  <2> QED
    BY <2>2, <2>4, <2>5
<1>10. /\ s \in Handler /\ s.pc = "reject" /\ s.now = now /\ s.limits = call[c].limits
       /\ s.window = w /\ s.retry = retry /\ s.seen = Accepted
  <2> HIDE DEF retry
  <2> QED
    BY <1>2, <1>7, <1>8 DEF Refused, Handler
<1>11. ASSUME call'[c] = s, key.exists PROVE KnowsRetry(c)'
  <2>1. s.limits[s.window] = limit
    BY <1>10
  <2>2. NoSuper(s.seen) => s.retry = IF Mails[c] > limit THEN Never
                            ELSE EarliestFit(s.seen, s.now, s.window, limit, Mails[c])
    <3> HIDE DEF retry, s, limit, w, now
    <3> QED
      BY <1>9, <1>10, <1>11
  <2> HIDE DEF retry, s, limit, w, now
  <2> QED
    BY <1>11, <2>1, <2>2 DEF KnowsRetry
<1> HIDE DEF retry, s, limit, w
<1> QED
  BY <1>1, <1>3, <1>5, <1>8, <1>10, <1>11, QuietStep

LEMMA AbortUsage ==
  ASSUME UInv, NEW c \in Calls, Abort(c)
  PROVE  UInv'
<1> DEFINE s == Answer("error")
<1>1. s \in Handler /\ s.pc = "error"
  BY DEF Answer, Handler
<1>2. /\ UNCHANGED <<clock, key, logs>> /\ call' = [call EXCEPT ![c] = s]
      /\ lock' \in Calls \cup {None}
  BY DEF Abort, Released, UInv, TypeOK
<1> HIDE DEF s
<1> QED
  BY <1>1, <1>2, QuietStep DEF InTransaction, Querying, Inserting

(* The row a commit writes: younger than no clock, and new.                *)
LEMMA NewLogType ==
  ASSUME UInv, NEW c \in Calls, call[c].pc \in Inserting, NEW status \in {"accepted", "limit_exceeded"}
  PROVE  /\ NewLog(c, status) \in Log /\ NewLog(c, status).at = call[c].now
         /\ NewLog(c, status).mails = Mails[c] /\ NewLog(c, status).status = status
         /\ NewLog(c, status).super = call[c].super /\ NewLog(c, status).limits = call[c].limits
         /\ NewLog(c, status).call = c
         /\ call[c].now \in Nat /\ call[c].now <= clock
         /\ call[c].super \in BOOLEAN /\ call[c].limits \in Limits
<1>1. call[c] \in Handler /\ call[c].now <= clock
  BY DEF UInv, TypeOK, Dated, InTransaction
<1>2. call[c].super \in BOOLEAN /\ call[c].limits \in Limits /\ call[c].now \in Nat
  BY <1>1, HandlerFields DEF InTransaction
<1>3. Mails[c] \in Nat
  BY QuotaConstants
<1> QED
  BY <1>1, <1>2, <1>3 DEF NewLog, Log

(* A rejected request's row counts for nothing.                            *)
LEMMA CommitRejectedUsage ==
  ASSUME UInv, NEW c \in Calls, CommitRejected(c)
  PROVE  UInv'
<1> DEFINE new == NewLog(c, "limit_exceeded")
<1>1. call[c] \in Handler /\ call[c].pc = "reject"
  BY DEF CommitRejected, UInv, TypeOK
<1>2. /\ call[c].super \in BOOLEAN /\ call[c].limits \in Limits /\ call[c].now \in Nat
      /\ call[c].window \in WindowNumbers /\ call[c].used \in Nat
      /\ call[c].retry \in Nat \cup {Never} /\ call[c].seen \subseteq Log
      /\ call[c].retry = Never \/ call[c].retry > call[c].now
  BY <1>1, HandlerFields DEF InTransaction, Inserting, UInv, TypeOK
<1>3. new \in Log /\ new.status = "limit_exceeded" /\ new.at <= clock
  BY <1>1, NewLogType DEF Inserting
<1>4. /\ UNCHANGED <<clock, key>> /\ logs' = logs \cup {new} /\ key.exists
      /\ lock' \in Calls \cup {None}
  BY DEF CommitRejected, Released, UInv, TypeOK
<1> HIDE DEF new
<1>5. PICK s \in Handler :
        /\ call' = [call EXCEPT ![c] = s]
        /\ s.pc \in {"rejected", "error"}
        /\ s.pc = "rejected" =>
             /\ s.limits = call[c].limits /\ s.now = call[c].now /\ s.window = call[c].window
             /\ s.retry = call[c].retry /\ s.seen = call[c].seen
  <2> DEFINE r == Refused("rejected", call[c], call[c].retry, call[c].seen)
             e == Answer("error")
  <2>1. /\ r \in Handler /\ r.pc = "rejected"
        /\ r.limits = call[c].limits /\ r.now = call[c].now /\ r.window = call[c].window
        /\ r.retry = call[c].retry /\ r.seen = call[c].seen
    BY <1>2 DEF Refused, Handler
  <2>2. e \in Handler /\ e.pc = "error"
    BY DEF Answer, Handler
  <2>3. call' = [call EXCEPT ![c] = r] \/ call' = [call EXCEPT ![c] = e]
    BY DEF CommitRejected
  <2> HIDE DEF r, e
  <2> QED
    BY <2>1, <2>2, <2>3
<1>6. /\ call' \in [Calls -> Handler] /\ call'[c] = s
      /\ \A d \in Calls : d # c => call'[d] = call[d]
  BY <1>5, CallChange DEF UInv
<1>7. /\ Accepted' = Accepted /\ Limited(logs') = Limited(logs)
      /\ \A w, end : Interval(logs', w, end) = Interval(logs, w, end)
  BY <1>3, <1>4 DEF Accepted, Limited, Interval
<1>8. TypeOK'
  <2>1. s.pc = "rejected" => s.retry = Never \/ s.retry > s.now
    BY <1>2, <1>5
  <2> QED
    BY <1>3, <1>4, <1>5, <1>6, <2>1 DEF UInv, TypeOK
<1>9. Dated'
  BY <1>3, <1>4, <1>5, <1>6, FS_AddElement DEF UInv, Dated, InTransaction, Querying, Inserting
<1>10. ASSUME NEW d \in Calls, d # c
       PROVE  /\ HasRoom(d) => HasRoom(d)'
              /\ KnowsUsage(d) => KnowsUsage(d)'
              /\ KnowsRetry(d) => KnowsRetry(d)'
  <2>1. call'[d] = call[d]
    BY <1>6, <1>10
  <2> QED
    BY <1>4, <1>7, <2>1 DEF HasRoom, KnowsUsage, KnowsRetry
<1>11. RoomKept'
  BY <1>5, <1>6, <1>10 DEF UInv, RoomKept
<1>12. RefusedRightly'
  <2>1. KnowsRetry(c)
    BY <1>1, <1>4 DEF UInv, RefusedRightly
  <2>2. s.pc = "rejected" => KnowsRetry(c)'
    BY <1>5, <1>6, <2>1 DEF KnowsRetry
  <2> QED
    BY <1>4, <1>5, <1>6, <1>10, <2>2 DEF UInv, RefusedRightly
<1>13. NoOvershoot'
  BY <1>7 DEF UInv, NoOvershoot, LimitsKept
<1> QED
  BY <1>8, <1>9, <1>11, <1>12, <1>13 DEF UInv

(* The heart of the matter: an interval that ends after the row of the     *)
(* call holds, of older rows, none but those its usage query looked at.    *)
LEMMA CommitAcceptedUsage ==
  ASSUME UInv, IInv, NEW c \in Calls, CommitAccepted(c)
  PROVE  UInv'
<1> DEFINE new == NewLog(c, "accepted")
<1>1. call[c] \in Handler /\ call[c].pc = "commit"
  BY DEF CommitAccepted, UInv, TypeOK
<1>2. /\ new \in Log /\ new.status = "accepted" /\ new.at = call[c].now /\ new.at <= clock
      /\ new.mails = Mails[c] /\ new.super = call[c].super /\ new.limits = call[c].limits
      /\ new.call = c /\ new.super \in BOOLEAN /\ new.at \in Nat
  BY <1>1, NewLogType DEF Inserting
<1>3. /\ UNCHANGED <<clock, key>> /\ logs' = logs \cup {new} /\ key.exists
      /\ lock' \in Calls \cup {None} /\ Mails[c] \in Nat
  BY QuotaConstants DEF CommitAccepted, Released, UInv, TypeOK
<1>4. new \notin logs
  BY <1>1, <1>2 DEF IInv, ChargedOnce, InTransaction, Inserting
<1> HIDE DEF new
<1>5. PICK s \in Handler :
        call' = [call EXCEPT ![c] = s] /\ s.pc \in {"accepted", "error"}
  <2> DEFINE a == Answer("accepted")
             e == Answer("error")
  <2>1. a \in Handler /\ a.pc = "accepted" /\ e \in Handler /\ e.pc = "error"
    BY DEF Answer, Handler
  <2>2. call' = [call EXCEPT ![c] = a] \/ call' = [call EXCEPT ![c] = e]
    BY DEF CommitAccepted
  <2> HIDE DEF a, e
  <2> QED
    BY <2>1, <2>2
<1>6. /\ call' \in [Calls -> Handler] /\ call'[c] = s
      /\ \A d \in Calls : d # c => call'[d] = call[d]
  BY <1>5, CallChange DEF UInv
<1>7. Accepted' = Accepted \cup {new}
  BY <1>2, <1>3 DEF Accepted
<1>8. TypeOK'
  BY <1>2, <1>3, <1>5, <1>6 DEF UInv, TypeOK
<1>9. Dated'
  BY <1>2, <1>3, <1>5, <1>6, FS_AddElement DEF UInv, Dated, InTransaction, Querying, Inserting
(* Another limited call that is past the lock is not there.                *)
<1>10. ASSUME NEW d \in Calls, d # c, ~new.super
       PROVE  call[d].pc # "over" /\ ~(call[d].pc = "commit" /\ ~call[d].super)
  <2>1. Locking(c)
    BY <1>1, <1>2, <1>10 DEF Locking, Decided
  <2>2. ~Locking(d)
    BY <1>10, <2>1 DEF IInv, LockHeld
  <2> QED
    BY <2>2 DEF Locking, Decided
<1>11. RoomKept'
  <2> SUFFICES ASSUME NEW d \in Calls, call'[d].pc = "commit", ~call'[d].super
               PROVE  HasRoom(d)'
    BY DEF RoomKept
  <2>1. d # c /\ call'[d] = call[d]
    BY <1>5, <1>6
  <2>2. new.super
    BY <1>10, <2>1, <1>2
  <2>3. Limited(logs') = Limited(logs)
    BY <1>3, <2>2 DEF Limited
  <2>4. HasRoom(d)
    BY <2>1 DEF UInv, RoomKept
  <2> QED
    BY <2>1, <2>3, <2>4 DEF HasRoom
<1>12. RefusedRightly'
  <2>1. ASSUME NEW d \in Calls, call'[d].pc = "over" PROVE KnowsUsage(d)'
    <3>1. d # c /\ call'[d] = call[d]
      BY <1>5, <1>6, <2>1
    <3>2. new.super
      BY <1>2, <1>10, <2>1, <3>1
    <3>3. ~NoSuper(Accepted')
      BY <1>7, <3>2 DEF NoSuper
    <3>4. KnowsUsage(d)
      BY <2>1, <3>1 DEF UInv, RefusedRightly
    <3> QED
      BY <3>1, <3>3, <3>4 DEF KnowsUsage
  <2>2. ASSUME NEW d \in Calls, d # c, KnowsRetry(d) PROVE KnowsRetry(d)'
    BY <1>6, <2>2 DEF KnowsRetry
  <2>3. ASSUME NEW d \in Calls, call'[d].pc \in {"reject", "rejected"}
        PROVE  d # c /\ call'[d] = call[d]
    BY <1>5, <1>6, <2>3
  <2> QED
    BY <1>3, <2>1, <2>2, <2>3 DEF UInv, RefusedRightly
<1>13. NoOvershoot'
  <2> SUFFICES ASSUME NEW w \in WindowNumbers, NEW end \in 0..MaxTime,
                      Interval(logs', w, end) # {}
               PROVE  \E l \in Interval(logs', w, end) :
                        \/ l.super \/ l.limits[w] = 0
                        \/ Total(Interval(logs', w, end)) <= l.limits[w]
    BY DEF NoOvershoot, LimitsKept
  <2> DEFINE before == Interval(logs, w, end)
             charged == Interval(logs', w, end)
  <2>1. CASE new \notin charged
    <3>1. charged = before
      BY <1>3, <2>1 DEF Interval
    <3> QED
      BY <3>1 DEF UInv, NoOvershoot, LimitsKept
  <2>2. CASE new \in charged /\ \E l \in charged : l.super
    BY <2>2
  <2>3. CASE new \in charged /\ \A l \in charged : ~l.super
    <3>1. charged = before \cup {new} /\ new \notin before
      BY <1>3, <1>4, <2>3 DEF Interval
    <3>2. call[c].super = FALSE /\ new.at <= end
      BY <1>2, <2>3 DEF Interval
    <3>3. HasRoom(c)
      BY <1>1, <3>2 DEF UInv, RoomKept
    <3>4. Windows[w] \in Nat /\ end \in Nat
      BY WindowType, QuotaConstants
    <3>5. before \in SUBSET Within(Limited(logs), new.at, w)
      <4> SUFFICES ASSUME NEW l \in before PROVE l \in Within(Limited(logs), new.at, w)
        OBVIOUS
      <4>1. l \in logs /\ l.status = "accepted" /\ l.at > end - Windows[w] /\ l.at \in Nat
        BY LogsCountable DEF Interval
      <4>2. ~l.super
        BY <2>3, <3>1
      <4>3. l.at > new.at - Windows[w]
        BY <1>2, <3>2, <3>4, <4>1
      <4> QED
        BY <4>1, <4>2, <4>3 DEF Within, Limited
    <3>6. Countable(Within(Limited(logs), new.at, w)) /\ Countable(before)
      <4>1. Within(Limited(logs), new.at, w) \in SUBSET Limited(logs)
        BY DEF Within
      <4>2. Countable(Within(Limited(logs), new.at, w))
        BY <4>1, LogsCountable, CountableSubset
      <4> QED
        BY <3>5, <4>2, CountableSubset
    <3>7. /\ Total(before) <= Total(Within(Limited(logs), new.at, w))
          /\ Total(before) \in Nat /\ Total(Within(Limited(logs), new.at, w)) \in Nat
      BY <3>5, <3>6, TotalMonotone, TotalNat
    <3>8. Total(charged) = Total(before) + Mails[c]
      <4>1. Total(before \cup {new}) = Total(before) + new.mails
        BY <1>2, <1>3, <3>1, <3>6, TotalAdd
      <4> QED
        BY <1>2, <3>1, <4>1
    <3>9. \/ new.limits[w] = 0
          \/ Total(Within(Limited(logs), new.at, w)) + Mails[c] <= new.limits[w]
      BY <1>2, <3>3 DEF HasRoom
    <3>10. new.limits[w] \in Nat
      BY <1>2, LogFields, LimitType
    <3>11. new.limits[w] = 0 \/ Total(charged) <= new.limits[w]
      <4> HIDE DEF before, charged
      <4> QED
        BY <1>3, <3>7, <3>8, <3>9, <3>10
    <3> QED
      BY <2>3, <3>11
  <2> QED
    BY <2>1, <2>2, <2>3
<1> QED
  BY <1>8, <1>9, <1>11, <1>12, <1>13 DEF UInv

LEMMA PassUsage ==
  ASSUME UInv, Pass
  PROVE  UInv'
<1>1. /\ clock' = clock + 1 /\ clock < MaxTime /\ clock \in Nat /\ MaxTime \in Nat
      /\ UNCHANGED <<key, logs, lock, call>>
  BY QuotaConstants DEF Pass, UInv, TypeOK
<1>2. TypeOK'
  BY <1>1 DEF UInv, TypeOK
<1>3. Dated'
  <2>1. \A l \in logs : l.at \in Nat /\ l.at <= clock
    BY LogFields DEF UInv, TypeOK, Dated
  <2>2. ASSUME NEW d \in Calls, call[d].pc \in InTransaction
        PROVE  call[d].now \in Nat /\ call[d].now <= clock
    BY <2>2, HandlerFields DEF UInv, TypeOK, Dated
  <2> QED
    BY <1>1, <2>1, <2>2 DEF UInv, Dated
<1>4. Accepted' = Accepted
  BY <1>1 DEF Accepted
<1>5. RoomKept' /\ RefusedRightly' /\ NoOvershoot'
  BY <1>1, <1>4 DEF UInv, RoomKept, HasRoom, Limited, RefusedRightly, KnowsUsage, KnowsRetry,
     NoOvershoot
<1> QED
  BY <1>2, <1>3, <1>5 DEF UInv

LEMMA EditKeyUsage ==
  ASSUME UInv, EditKey
  PROVE  UInv'
<1>1. /\ UNCHANGED <<clock, logs, lock, call>> /\ key.exists /\ key'.exists
      /\ key' \in [exists : BOOLEAN, super : BOOLEAN, limits : LimitChoices]
  BY DEF EditKey
<1>2. TypeOK' /\ Dated'
  BY <1>1 DEF UInv, TypeOK, Dated
<1>3. Accepted' = Accepted
  BY <1>1 DEF Accepted
<1>4. RoomKept' /\ RefusedRightly' /\ NoOvershoot'
  BY <1>1, <1>3 DEF UInv, RoomKept, HasRoom, Limited, RefusedRightly, KnowsUsage, KnowsRetry,
     NoOvershoot
<1> QED
  BY <1>2, <1>4 DEF UInv

(* A deleted key has no rows, and nothing that is still under way for it   *)
(* can be committed.                                                       *)
LEMMA DeleteKeyUsage ==
  ASSUME UInv, DeleteKey
  PROVE  UInv'
<1>1. /\ UNCHANGED <<clock, lock, call>> /\ logs' = {} /\ ~key'.exists
      /\ key' \in [exists : BOOLEAN, super : BOOLEAN, limits : LimitChoices]
  BY DEF DeleteKey, UInv, TypeOK
<1>2. TypeOK' /\ Dated'
  BY <1>1, FS_EmptySet DEF UInv, TypeOK, Dated
<1>3. RoomKept'
  <2> SUFFICES ASSUME NEW c \in Calls, call[c].pc = "commit", ~call[c].super,
                      NEW w \in WindowNumbers, call[c].limits[w] # 0
               PROVE  Total(Within(Limited({}), call[c].now, w)) + Mails[c] <= call[c].limits[w]
    BY <1>1 DEF RoomKept, HasRoom
  <2>1. Total(Within(Limited(logs), call[c].now, w)) + Mails[c] <= call[c].limits[w]
    BY DEF UInv, RoomKept, HasRoom
  <2>2. Total(Within(Limited(logs), call[c].now, w)) \in Nat
    <3>1. Within(Limited(logs), call[c].now, w) \in SUBSET Limited(logs)
      BY DEF Within
    <3> QED
      BY <3>1, LogsCountable, CountableSubset, TotalNat
  <2>3. Within(Limited({}), call[c].now, w) = {}
    BY DEF Within, Limited
  <2>4. Mails[c] \in Nat /\ call[c].limits[w] \in Nat
    <3>1. call[c] \in Handler
      BY DEF UInv, TypeOK
    <3>2. call[c].limits \in Limits
      BY <3>1, HandlerFields DEF InTransaction, Inserting
    <3> QED
      BY <3>2, LimitType, QuotaConstants
  <2>5. 0 + Mails[c] <= call[c].limits[w]
    BY <2>1, <2>2, <2>4
  <2> QED
    BY <2>3, <2>5, TotalEmpty
<1>4. RefusedRightly'
  BY <1>1 DEF UInv, RefusedRightly, KnowsUsage, KnowsRetry
<1>5. NoOvershoot'
  BY <1>1 DEF NoOvershoot, LimitsKept, Interval
<1> QED
  BY <1>2, <1>3, <1>4, <1>5 DEF UInv

LEMMA NextUInv ==
  ASSUME UInv, IInv, [Next]_vars
  PROVE  UInv'
<1>1. ASSUME NEW c \in Calls, Reserve(c) PROVE UInv'
  BY <1>1, ReadKeyUsage, BeginUsage, LockUsage, ReadUsageUsage, ReadRetryTimeUsage,
     CommitAcceptedUsage, CommitRejectedUsage, AbortUsage DEF Reserve
<1>2. CASE UNCHANGED vars
  <2>1. UNCHANGED <<clock, key, logs, lock, call>> /\ Accepted' = Accepted
    BY <1>2 DEF vars, Accepted
  <2>2. TypeOK' /\ Dated'
    BY <2>1 DEF UInv, TypeOK, Dated
  <2>3. RoomKept' /\ RefusedRightly' /\ NoOvershoot'
    BY <2>1 DEF UInv, RoomKept, HasRoom, Limited, RefusedRightly, KnowsUsage, KnowsRetry,
       NoOvershoot
  <2> QED
    BY <2>2, <2>3 DEF UInv
<1> QED
  BY <1>1, <1>2, PassUsage, EditKeyUsage, DeleteKeyUsage DEF Next

THEOREM UsageInvariance == Spec => [](IInv /\ UInv)
<1>1. Init => IInv /\ UInv
  BY InitIInv, InitUInv
<1>2. IInv /\ UInv /\ [Next]_vars => IInv' /\ UInv'
  BY NextIInv, NextUInv
<1> QED
  BY <1>1, <1>2, PTL DEF Spec

(* The rows, the key and what the handlers know are always of their type,  *)
(* and a retry time lies in the future.                                    *)
THEOREM TypeCorrect == Spec => []TypeOK
<1>1. UInv => TypeOK
  BY DEF UInv
<1> QED
  BY <1>1, UsageInvariance, PTL

(* "Parallel requests cannot overshoot a limit" (README.md), for any       *)
(* number of calls, any windows and any limits: usage.go, Reserve.         *)
THEOREM NoOvershootTheorem == Spec => []NoOvershoot
<1>1. UInv => NoOvershoot
  BY DEF UInv
<1> QED
  BY <1>1, UsageInvariance, PTL

(* A refused call is told the earliest time at which the window that       *)
(* refused it has room: usage.go, retryTime.                               *)
THEOREM RetryAtTheorem == Spec => []RetryAtFitsItsWindow
<1>1. UInv => RetryAtFitsItsWindow
  BY DEF UInv, RefusedRightly, KnowsRetry, NoSuper, RetryAtFitsItsWindow
<1> QED
  BY <1>1, UsageInvariance, PTL
=============================================================================
