------------------------ MODULE AccessRequests_proofs ------------------------
(***************************************************************************)
(* Proofs about AccessRequests: reviews decide a request once, approval is *)
(* atomic, a successful answer stays true, and the limiter accepts so many *)
(* requests in a window and no more, for any numbers of posts and reviews, *)
(* any limits, any faults and any number of crashes.                       *)
(***************************************************************************)
EXTENDS AccessRequests, FiniteSetTheorems, TLAPS

----------------------------------------------------------------------------
(* The inductive invariant.                                                *)

PostStates == {"idle", "store", "record", "accepted", "refused", "error"}
ReviewStates ==
  {Idle} \cup [pc : Waiting \cup Holding \cup Answered, request : Posts, verdict : Verdicts]

Typed ==
  /\ rows \in [Posts -> Row]
  /\ apiKeys \subseteq Reviews
  /\ lock \in [Posts -> Reviews \cup {None}]
  /\ post \in [Posts -> PostStates]
  /\ review \in [Reviews -> ReviewStates]

(* A post that has not stored its request has no row yet.                  *)
NotYetStored == \A p \in Posts : post[p] \in {"idle", "store"} => rows[p].status = "none"

(* A review between its SELECT ... FOR UPDATE and its COMMIT holds the     *)
(* lock of a row that is still pending.                                    *)
HoldsPending ==
  \A v \in Reviews : review[v].pc \in Holding =>
    /\ lock[review[v].request] = v
    /\ rows[review[v].request].status = "pending"

(* A key exists only once the review that created it has been answered.    *)
KeysCommitted == \A k \in apiKeys : review[k].pc \in Answered

(* A row's key is there, and was created by an approval of that very row.  *)
LinkedKey ==
  \A p \in Posts : rows[p].key # None =>
    /\ rows[p].key \in apiKeys
    /\ rows[p].status = "approved"
    /\ review[rows[p].key].request = p

KeyHasRow == \A k \in apiKeys : \E p \in Posts : rows[p].key = k

IInv == Typed /\ NotYetStored /\ HoldsPending /\ KeysCommitted /\ LinkedKey
          /\ KeyHasRow /\ AnswerStands

----------------------------------------------------------------------------
(* What a review record is, and what Continue does to the reviews.         *)
LEMMA ReviewShape ==
  ASSUME Typed, NEW v \in Reviews, review[v].pc # "idle"
  PROVE  /\ review[v].request \in Posts
         /\ review[v].verdict \in Verdicts
         /\ review[v].pc \in Waiting \cup Holding \cup Answered
BY DEF Typed, ReviewStates, Idle

LEMMA ContinueEffect ==
  ASSUME Typed, NEW v \in Reviews, review[v].pc # "idle",
         NEW pc \in Waiting \cup Holding \cup Answered, Continue(v, pc)
  PROVE  /\ review' \in [Reviews -> ReviewStates]
         /\ review'[v].pc = pc
         /\ review'[v].request = review[v].request
         /\ review'[v].verdict = review[v].verdict
         /\ \A u \in Reviews : u # v => review'[u] = review[u]
<1> DEFINE s == Reviewing(pc, review[v].request, review[v].verdict)
<1>1. s \in ReviewStates
  BY ReviewShape DEF Reviewing, ReviewStates
<1>2. review' = [review EXCEPT ![v] = s]
  BY DEF Continue
<1>3. s.pc = pc /\ s.request = review[v].request /\ s.verdict = review[v].verdict
  BY DEF Reviewing
<1> HIDE DEF s
<1> QED
  BY <1>1, <1>2, <1>3 DEF Typed

LEMMA NewRowType ==
  ASSUME NEW status \in {"none", "pending"} \cup Verdicts,
         NEW key \in Reviews \cup {None}, NEW at \in Nat
  PROVE  /\ NewRow(status, key, at) \in Row
         /\ NewRow(status, key, at).status = status
         /\ NewRow(status, key, at).key = key
BY DEF NewRow, Row

----------------------------------------------------------------------------
LEMMA InitIInv == Init => IInv
<1> SUFFICES ASSUME Init PROVE IInv
  OBVIOUS
<1>1. Idle.pc = "idle"
  BY DEF Idle
<1>2. Typed
  <2>1. NewRow("none", None, 0) \in Row
    BY DEF NewRow, Row
  <2>2. Idle \in ReviewStates
    BY DEF ReviewStates
  <2> QED
    BY <2>1, <2>2 DEF Init, Typed, PostStates
<1>3. \A p \in Posts : rows[p].status = "none" /\ rows[p].key = None
  BY DEF Init, NewRow
<1>4. \A v \in Reviews : review[v].pc = "idle"
  BY <1>1 DEF Init
<1> QED
  BY <1>2, <1>3, <1>4 DEF Init, IInv, NotYetStored, HoldsPending, KeysCommitted, LinkedKey,
     KeyHasRow, AnswerStands, Holding

(* The steps of the public handlers leave reviews and keys alone, and      *)
(* change the row of a post that has none only.                            *)
LEMMA StoreStep ==
  ASSUME IInv, clock \in Nat, NEW p \in Posts, StoreRequest(p)
  PROVE  /\ IInv'
         /\ \A q \in Posts : rows'[q] # rows[q] => rows[q].status = "none"
<1> USE DEF IInv
<1>1. PICK row \in Row :
         /\ rows' = [rows EXCEPT ![p] = row]
         /\ row = rows[p] \/ (row.status = "pending" /\ row.key = None)
         /\ rows[p].status = "none"
  <2>1. rows[p].status = "none" /\ rows[p] \in Row
    BY DEF StoreRequest, NotYetStored, Typed
  <2>2. CASE rows' = rows
    <3>1. rows' = [rows EXCEPT ![p] = rows[p]]
      BY <2>2 DEF Typed
    <3> QED
      BY <2>1, <3>1
  <2>3. CASE rows' = [rows EXCEPT ![p] = NewRow("pending", None, clock)]
    <3>1. clock \in Nat
      OBVIOUS
    <3>2. /\ NewRow("pending", None, clock) \in Row
          /\ NewRow("pending", None, clock).status = "pending"
          /\ NewRow("pending", None, clock).key = None
      BY <3>1 DEF NewRow, Row
    <3> QED
      BY <2>1, <2>3, <3>2
  <2> QED
    BY <2>2, <2>3 DEF StoreRequest
<1>2. /\ post' \in [Posts -> PostStates]
      /\ post'[p] \notin {"idle", "store"}
      /\ \A q \in Posts : q # p => post'[q] = post[q]
  BY DEF StoreRequest, Typed, PostStates
<1>3. UNCHANGED <<apiKeys, lock, review>>
  BY DEF StoreRequest
<1>4. /\ rows' \in [Posts -> Row]
      /\ rows'[p] = row
      /\ \A q \in Posts : q # p => rows'[q] = rows[q]
  BY <1>1 DEF Typed
<1>5. rows[p].key = None
  BY <1>1 DEF LinkedKey
<1>6. \A q \in Posts : rows'[q].key = rows[q].key
  BY <1>1, <1>4, <1>5
<1>7. \A q \in Posts : rows[q].status # "none" => rows'[q].status = rows[q].status
  BY <1>1, <1>4
<1>8. Typed'
  BY <1>2, <1>3, <1>4 DEF Typed
<1>9. NotYetStored'
  BY <1>2, <1>4 DEF NotYetStored
<1>10. HoldsPending'
  BY <1>3, <1>7, ReviewShape DEF HoldsPending, Holding
<1>11. KeysCommitted' /\ KeyHasRow'
  BY <1>3, <1>6 DEF KeysCommitted, KeyHasRow
<1>12. LinkedKey'
  BY <1>3, <1>6, <1>7 DEF LinkedKey
<1>13. AnswerStands'
  <2> SUFFICES ASSUME NEW v \in Reviews, review[v].pc = "done"
               PROVE  rows'[review[v].request].status = review[v].verdict
    BY <1>3 DEF AnswerStands
  <2>1. review[v].request \in Posts /\ review[v].verdict \in Verdicts
    BY ReviewShape
  <2> QED
    BY <2>1, <1>7 DEF AnswerStands, Verdicts
<1> QED
  BY <1>4, <1>1, <1>8, <1>9, <1>10, <1>11, <1>12, <1>13

(* The other steps of the public handlers, and of time, touch neither      *)
(* rows nor reviews.                                                       *)
LEMMA PostStep ==
  ASSUME IInv, UNCHANGED <<rows, apiKeys, lock, review>>,
         post' \in [Posts -> PostStates],
         \A p \in Posts : post'[p] \in {"idle", "store"} => post[p] \in {"idle", "store"}
  PROVE  IInv'
BY DEF IInv, Typed, NotYetStored, HoldsPending, KeysCommitted, LinkedKey, KeyHasRow,
   AnswerStands

LEMMA PostActionStep ==
  ASSUME IInv, NEW p \in Posts, Allow(p) \/ Record(p)
  PROVE  IInv'
<1>1. /\ UNCHANGED <<rows, apiKeys, lock, review>>
      /\ post' \in [Posts -> PostStates]
      /\ \A q \in Posts : post'[q] \in {"idle", "store"} => post[q] \in {"idle", "store"}
  BY DEF IInv, Typed, PostStates, Allow, Record
<1> QED
  BY <1>1, PostStep

----------------------------------------------------------------------------
(* Steps of a review that change no row and no key: the locks of the other *)
(* reviews stay, and this one holds a pending row if it goes on.           *)
LEMMA ReviewStep ==
  ASSUME IInv, NEW v \in Reviews, UNCHANGED <<rows, apiKeys, post>>,
         review' \in [Reviews -> ReviewStates],
         lock' \in [Posts -> Reviews \cup {None}],
         \A u \in Reviews : u # v => review'[u] = review[u],
         \A p \in Posts : lock[p] # v /\ lock[p] # None => lock'[p] = lock[p],
         review[v].pc \notin Answered,
         review'[v].pc # "done",
         review'[v].pc \in Holding =>
           /\ review'[v].request \in Posts
           /\ lock'[review'[v].request] = v
           /\ rows[review'[v].request].status = "pending"
  PROVE  IInv'
<1> USE DEF IInv
<1>1. Typed'
  BY DEF Typed
<1>2. NotYetStored' /\ KeyHasRow'
  BY DEF NotYetStored, KeyHasRow
<1>3. HoldsPending'
  <2> SUFFICES ASSUME NEW u \in Reviews, review'[u].pc \in Holding
               PROVE  /\ lock'[review'[u].request] = u
                      /\ rows[review'[u].request].status = "pending"
    BY DEF HoldsPending
  <2>1. CASE u = v
    BY <2>1
  <2>2. CASE u # v
    <3>1. review'[u] = review[u] /\ review[u].request \in Posts
      BY <2>2, ReviewShape DEF Holding
    <3>2. lock[review[u].request] = u /\ rows[review[u].request].status = "pending"
      BY <3>1 DEF HoldsPending
    <3> QED
      BY <3>1, <3>2, <2>2, AccessRequestsConstants
  <2> QED
    BY <2>1, <2>2
<1>4. v \notin apiKeys
  BY DEF KeysCommitted
<1>5. KeysCommitted'
  BY <1>4 DEF KeysCommitted, Typed
<1>6. LinkedKey'
  BY <1>4 DEF LinkedKey, Typed
<1>7. AnswerStands'
  BY DEF AnswerStands
<1> QED
  BY <1>1, <1>2, <1>3, <1>5, <1>6, <1>7

LEMMA OpenStep ==
  ASSUME IInv, NEW v \in Reviews, NEW p \in Posts, NEW verdict \in Verdicts,
         Open(v, p, verdict)
  PROVE  IInv'
<1> DEFINE s == Reviewing("waiting", p, verdict)
<1>1. s \in ReviewStates /\ s.pc = "waiting"
  BY DEF Reviewing, ReviewStates, Waiting
<1>2. review' = [review EXCEPT ![v] = s] /\ UNCHANGED <<rows, apiKeys, post, lock>>
      /\ review[v].pc = "idle"
  BY DEF Open
<1> HIDE DEF s
<1>3. /\ review' \in [Reviews -> ReviewStates]
      /\ lock' \in [Posts -> Reviews \cup {None}]
      /\ \A u \in Reviews : u # v => review'[u] = review[u]
      /\ review'[v].pc = "waiting"
  BY <1>1, <1>2 DEF IInv, Typed
<1> QED
  BY <1>2, <1>3, ReviewStep DEF Holding, Answered

LEMMA LockStep ==
  ASSUME IInv, NEW v \in Reviews, LockPending(v)
  PROVE  IInv'
<1> DEFINE p == review[v].request
<1>1. review[v].pc = "waiting" /\ p \in Posts /\ Typed
  BY ReviewShape DEF LockPending, IInv
<1>2. UNCHANGED <<rows, apiKeys, post>> /\ lock[p] = None
  BY DEF LockPending, LockFree
<1>3. CASE IsPending(p)
  <2>1. PICK pc \in {"create", "commit"} : Continue(v, pc)
    BY <1>3 DEF LockPending
  <2>2. /\ review' \in [Reviews -> ReviewStates]
        /\ review'[v].pc = pc
        /\ review'[v].request = p
        /\ \A u \in Reviews : u # v => review'[u] = review[u]
    BY <1>1, <2>1, ContinueEffect DEF Holding
  <2>3. lock' = [lock EXCEPT ![p] = v]
    BY <1>3 DEF LockPending
  <2>4. /\ lock' \in [Posts -> Reviews \cup {None}]
        /\ lock'[p] = v
        /\ \A q \in Posts : lock[q] # None => lock'[q] = lock[q]
    BY <1>1, <1>2, <2>3 DEF Typed
  <2> QED
    BY <1>1, <1>2, <1>3, <2>2, <2>4, ReviewStep DEF IsPending, Answered
<1>4. CASE ~IsPending(p)
  <2>1. Continue(v, "already") /\ lock' = lock
    BY <1>4 DEF LockPending
  <2>2. /\ review' \in [Reviews -> ReviewStates]
        /\ review'[v].pc = "already"
        /\ \A u \in Reviews : u # v => review'[u] = review[u]
    BY <1>1, <2>1, ContinueEffect DEF Answered
  <2> QED
    BY <1>1, <1>2, <2>1, <2>2, ReviewStep DEF Typed, Answered, Holding
<1> QED
  BY <1>3, <1>4

LEMMA CreateKeyStep ==
  ASSUME IInv, NEW v \in Reviews, CreateKey(v)
  PROVE  IInv'
<1>1. /\ Typed /\ review[v].pc = "create" /\ Continue(v, "commit")
      /\ UNCHANGED <<rows, apiKeys, lock, post>>
  BY DEF CreateKey, IInv
<1>2. /\ review' \in [Reviews -> ReviewStates]
      /\ review'[v].pc = "commit"
      /\ review'[v].request = review[v].request
      /\ \A u \in Reviews : u # v => review'[u] = review[u]
  BY <1>1, ContinueEffect DEF Holding
<1>3. /\ review[v].request \in Posts
      /\ lock[review[v].request] = v
      /\ rows[review[v].request].status = "pending"
  BY <1>1, ReviewShape DEF IInv, HoldsPending, Holding
<1> QED
  BY <1>1, <1>2, <1>3, ReviewStep DEF Typed, Answered

LEMMA ReleasedEffect ==
  ASSUME Typed, NEW v \in Reviews
  PROVE  /\ Released(v) \in [Posts -> Reviews \cup {None}]
         /\ \A p \in Posts : lock[p] # v => Released(v)[p] = lock[p]
BY DEF Released, Typed

LEMMA AbortStep ==
  ASSUME IInv, NEW v \in Reviews, Abort(v)
  PROVE  IInv'
<1>1. /\ Typed /\ review[v].pc \in Waiting \cup Holding /\ Continue(v, "error")
      /\ UNCHANGED <<rows, apiKeys, post>> /\ lock' = Released(v)
  BY DEF Abort, IInv, Holding
<1>2. /\ review' \in [Reviews -> ReviewStates]
      /\ review'[v].pc = "error"
      /\ \A u \in Reviews : u # v => review'[u] = review[u]
  BY <1>1, ContinueEffect DEF Waiting, Holding, Answered
<1> QED
  BY <1>1, <1>2, ReleasedEffect, ReviewStep DEF Waiting, Answered, Holding
----------------------------------------------------------------------------
(* COMMIT, the one step that decides a request.                            *)
LEMMA CommitEffect ==
  ASSUME IInv, NEW v \in Reviews, Commit(v), rows \in [Posts -> Row]
  PROVE  /\ review[v].request \in Posts
         /\ rows[review[v].request].status = "pending"
         /\ rows[review[v].request].key = None
         /\ v \notin apiKeys
         /\ rows' \in [Posts -> Row]
         /\ rows'[review[v].request].status = review[v].verdict
         /\ rows'[review[v].request].key = NewKey(v)
         /\ \A q \in Posts : q # review[v].request => rows'[q] = rows[q]
<1> DEFINE p == review[v].request
           row == NewRow(review[v].verdict, NewKey(v), rows[p].at)
<1>1. Typed /\ review[v].pc = "commit" /\ p \in Posts /\ review[v].verdict \in Verdicts
  BY ReviewShape DEF IInv, Commit
<1>2. rows[p].status = "pending" /\ rows[p].key = None
  BY <1>1 DEF IInv, HoldsPending, LinkedKey, Holding
<1>3. v \notin apiKeys
  BY <1>1 DEF IInv, KeysCommitted, Answered
<1>4. row \in Row /\ row.status = review[v].verdict /\ row.key = NewKey(v)
  <2>1. rows[p].at \in Nat
    BY <1>1 DEF Row
  <2>2. NewKey(v) \in Reviews \cup {None}
    BY DEF NewKey
  <2> QED
    BY <1>1, <2>1, <2>2 DEF NewRow, Row
<1>5. rows' = [rows EXCEPT ![p] = row]
  BY DEF Commit
<1> HIDE DEF row
<1> QED
  BY <1>1, <1>2, <1>3, <1>4, <1>5

LEMMA CommitStep ==
  ASSUME IInv, NEW v \in Reviews, Commit(v)
  PROVE  IInv'
<1> DEFINE p == review[v].request
<1>1. /\ Typed /\ NotYetStored /\ HoldsPending /\ KeysCommitted /\ LinkedKey
      /\ KeyHasRow /\ AnswerStands
  BY DEF IInv
<1>2. /\ p \in Posts
      /\ rows[p].status = "pending"
      /\ rows[p].key = None
      /\ v \notin apiKeys
      /\ rows' \in [Posts -> Row]
      /\ rows'[p].status = review[v].verdict
      /\ rows'[p].key = NewKey(v)
      /\ \A q \in Posts : q # p => rows'[q] = rows[q]
  BY <1>1, CommitEffect DEF Typed
<1>3. /\ review[v].pc = "commit"
      /\ lock' = Released(v)
      /\ post' = post
      /\ apiKeys' = apiKeys \cup ({NewKey(v)} \ {None})
  BY DEF Commit
<1>4. /\ review' \in [Reviews -> ReviewStates]
      /\ review'[v].pc \in {"done", "error"}
      /\ review'[v].request = p
      /\ review'[v].verdict = review[v].verdict
      /\ \A u \in Reviews : u # v => review'[u] = review[u]
  <2>1. PICK pc \in {"done", "error"} : Continue(v, pc)
    BY DEF Commit
  <2> QED
    BY <1>1, <1>3, <2>1, ContinueEffect DEF Answered
<1>5. NewKey(v) \in Reviews \cup {None} /\ (NewKey(v) # None =>
        NewKey(v) = v /\ review[v].verdict = "approved")
  BY DEF NewKey
<1>6. lock[p] = v
  BY <1>1, <1>3 DEF HoldsPending, Holding
<1> HIDE DEF p
<1>7. Typed'
  <2>1. apiKeys' \subseteq Reviews
    BY <1>1, <1>3, <1>5 DEF Typed
  <2>2. lock' \in [Posts -> Reviews \cup {None}]
    BY <1>1, <1>3, ReleasedEffect
  <2> QED
    BY <1>1, <1>2, <1>3, <1>4, <2>1, <2>2 DEF Typed
<1>8. NotYetStored'
  <2> SUFFICES ASSUME NEW q \in Posts, post[q] \in {"idle", "store"}
               PROVE  rows'[q].status = "none"
    BY <1>3 DEF NotYetStored
  <2>1. rows[q].status = "none" /\ q # p
    BY <1>1, <1>2 DEF NotYetStored
  <2> QED
    BY <1>2, <2>1
<1>9. HoldsPending'
  <2> SUFFICES ASSUME NEW u \in Reviews, review'[u].pc \in Holding
               PROVE  /\ lock'[review'[u].request] = u
                      /\ rows'[review'[u].request].status = "pending"
    BY DEF HoldsPending
  <2>1. u # v /\ review'[u] = review[u]
    BY <1>4 DEF Holding
  <2>2. review[u].request \in Posts
    BY <1>1, <2>1, ReviewShape DEF Holding
  <2>3. lock[review[u].request] = u /\ rows[review[u].request].status = "pending"
    BY <1>1, <2>1 DEF HoldsPending
  <2>4. review[u].request # p /\ lock'[review[u].request] = u
    BY <1>1, <1>3, <1>6, <2>1, <2>2, <2>3, ReleasedEffect
  <2> QED
    BY <1>2, <2>1, <2>2, <2>3, <2>4
<1>10. KeysCommitted'
  <2> SUFFICES ASSUME NEW k \in apiKeys' PROVE review'[k].pc \in Answered
    BY DEF KeysCommitted
  <2>1. CASE k = v
    BY <1>4, <2>1 DEF Answered
  <2>2. CASE k # v
    <3>1. k \in apiKeys /\ k \in Reviews
      BY <1>1, <1>3, <1>5, <2>2 DEF Typed
    <3> QED
      BY <1>1, <1>4, <2>2, <3>1 DEF KeysCommitted
  <2> QED
    BY <2>1, <2>2
<1>11. LinkedKey'
  <2> SUFFICES ASSUME NEW q \in Posts, rows'[q].key # None
               PROVE  /\ rows'[q].key \in apiKeys'
                      /\ rows'[q].status = "approved"
                      /\ review'[rows'[q].key].request = q
    BY DEF LinkedKey
  <2>1. CASE q = p
    BY <1>2, <1>3, <1>4, <1>5, <2>1
  <2>2. CASE q # p
    <3>1. rows'[q] = rows[q]
      BY <1>2, <2>2
    <3>2. /\ rows[q].key \in apiKeys /\ rows[q].status = "approved"
          /\ review[rows[q].key].request = q
      BY <1>1, <3>1 DEF LinkedKey
    <3>3. rows[q].key # v /\ rows[q].key \in Reviews
      BY <1>1, <1>2, <3>2 DEF Typed
    <3> QED
      BY <1>3, <1>4, <3>1, <3>2, <3>3
  <2> QED
    BY <2>1, <2>2
<1>12. KeyHasRow'
  <2> SUFFICES ASSUME NEW k \in apiKeys' PROVE \E q \in Posts : rows'[q].key = k
    BY DEF KeyHasRow
  <2>1. CASE k \in apiKeys
    <3>1. PICK q \in Posts : rows[q].key = k
      BY <1>1, <2>1 DEF KeyHasRow
    <3>2. k # None
      BY <1>1, <2>1, AccessRequestsConstants DEF Typed
    <3> QED
      BY <1>2, <3>1, <3>2
  <2>2. CASE k \notin apiKeys
    BY <1>2, <1>3, <2>2
  <2> QED
    BY <2>1, <2>2
<1>13. AnswerStands'
  <2> SUFFICES ASSUME NEW u \in Reviews, review'[u].pc = "done"
               PROVE  rows'[review'[u].request].status = review'[u].verdict
    BY DEF AnswerStands
  <2>1. CASE u = v
    BY <1>2, <1>4, <2>1
  <2>2. CASE u # v
    <3>1. review'[u] = review[u]
      BY <1>4, <2>2
    <3>2. /\ review[u].request \in Posts /\ review[u].verdict \in Verdicts
          /\ rows[review[u].request].status = review[u].verdict
      BY <1>1, <3>1, ReviewShape DEF AnswerStands
    <3>3. review[u].request # p
      BY <1>2, <3>2 DEF Verdicts
    <3> QED
      BY <1>2, <3>1, <3>2, <3>3
  <2> QED
    BY <2>1, <2>2
<1> QED
  BY <1>7, <1>8, <1>9, <1>10, <1>11, <1>12, <1>13 DEF IInv

----------------------------------------------------------------------------
(* A deleted key leaves its row approved, without a key.                   *)
LEMMA UnlinkedRow ==
  ASSUME NEW row \in Row, NEW k \in Reviews
  PROVE  /\ Unlinked(row, k) \in Row
         /\ Unlinked(row, k).status = row.status
         /\ Unlinked(row, k).key = IF row.key = k THEN None ELSE row.key
BY DEF Unlinked, NewRow, Row

LEMMA DeleteKeyEffect ==
  ASSUME Typed, NEW k \in Reviews, DeleteKey(k)
  PROVE  /\ rows' \in [Posts -> Row]
         /\ \A p \in Posts :
              /\ rows'[p].status = rows[p].status
              /\ rows'[p].key = IF rows[p].key = k THEN None ELSE rows[p].key
<1>1. rows' = [p \in Posts |-> Unlinked(rows[p], k)]
  BY DEF DeleteKey
<1>2. \A p \in Posts : rows[p] \in Row
  BY DEF Typed
<1> QED
  BY <1>1, <1>2, UnlinkedRow

LEMMA DeleteKeyStep ==
  ASSUME IInv, NEW k \in Reviews, DeleteKey(k)
  PROVE  IInv'
<1>1. /\ Typed /\ NotYetStored /\ HoldsPending /\ KeysCommitted /\ LinkedKey
      /\ KeyHasRow /\ AnswerStands
  BY DEF IInv
<1>2. UNCHANGED <<lock, post, review>> /\ apiKeys' = apiKeys \ {k}
  BY DEF DeleteKey
<1>3. /\ rows' \in [Posts -> Row]
      /\ \A p \in Posts :
           /\ rows'[p].status = rows[p].status
           /\ rows'[p].key = IF rows[p].key = k THEN None ELSE rows[p].key
  BY <1>1, DeleteKeyEffect
<1>4. Typed'
  BY <1>1, <1>2, <1>3 DEF Typed
<1>5. NotYetStored'
  BY <1>1, <1>2, <1>3 DEF NotYetStored
<1>6. HoldsPending'
  BY <1>1, <1>2, <1>3, ReviewShape DEF HoldsPending, Holding
<1>7. KeysCommitted'
  BY <1>1, <1>2 DEF KeysCommitted
<1>8. LinkedKey'
  BY <1>1, <1>2, <1>3 DEF LinkedKey
<1>9. KeyHasRow'
  BY <1>1, <1>2, <1>3 DEF KeyHasRow
<1>10. AnswerStands'
  BY <1>1, <1>2, <1>3, ReviewShape DEF AnswerStands
<1> QED
  BY <1>4, <1>5, <1>6, <1>7, <1>8, <1>9, <1>10 DEF IInv

----------------------------------------------------------------------------
(* A crash rolls open transactions back.                                   *)
LEMMA ReviewKilledShape ==
  ASSUME NEW s \in ReviewStates
  PROVE  /\ ReviewKilled(s) \in ReviewStates
         /\ ReviewKilled(s).pc \notin Waiting \cup Holding
         /\ s.pc \in Answered => ReviewKilled(s) = s
         /\ ReviewKilled(s).pc = "done" => ReviewKilled(s) = s
BY DEF ReviewKilled, Reviewing, ReviewStates, Idle, Waiting, Holding, Answered

LEMMA CrashStep ==
  ASSUME IInv, Crash
  PROVE  IInv'
<1>1. /\ Typed /\ NotYetStored /\ HoldsPending /\ KeysCommitted /\ LinkedKey
      /\ KeyHasRow /\ AnswerStands
  BY DEF IInv
<1>2. UNCHANGED <<rows, apiKeys>> /\ lock' = [p \in Posts |-> None]
  BY DEF Crash
<1>3. /\ post' \in [Posts -> PostStates]
      /\ \A p \in Posts : post'[p] \in {"idle", "store"} => post[p] \in {"idle", "store"}
  BY <1>1 DEF Typed, PostStates, Crash, PostKilled
<1>4. /\ review' \in [Reviews -> ReviewStates]
      /\ \A v \in Reviews : /\ review'[v].pc \notin Waiting \cup Holding
                            /\ review[v].pc \in Answered => review'[v] = review[v]
                            /\ review'[v].pc = "done" => review'[v] = review[v]
  <2>1. review' = [v \in Reviews |-> ReviewKilled(review[v])]
    BY DEF Crash
  <2>2. \A v \in Reviews : review[v] \in ReviewStates
    BY <1>1 DEF Typed
  <2> QED
    BY <2>1, <2>2, ReviewKilledShape
<1>5. Typed'
  BY <1>1, <1>2, <1>3, <1>4 DEF Typed
<1>6. NotYetStored' /\ KeyHasRow'
  BY <1>1, <1>2, <1>3 DEF NotYetStored, KeyHasRow
<1>7. HoldsPending'
  BY <1>4 DEF HoldsPending
<1>8. KeysCommitted' /\ LinkedKey'
  BY <1>1, <1>2, <1>4 DEF KeysCommitted, LinkedKey, Typed
<1>9. AnswerStands'
  BY <1>1, <1>2, <1>4 DEF AnswerStands
<1> QED
  BY <1>5, <1>6, <1>7, <1>8, <1>9 DEF IInv

----------------------------------------------------------------------------
(* The clock is a number; the deadlines of the limiter need no more.       *)
ClockInv == clock \in Nat

LEMMA NextClock ==
  ASSUME ClockInv, [Next]_vars
  PROVE  ClockInv'
BY DEF ClockInv, Next, vars, Pass, Posting, Allow, StoreRequest, Record, Reviewed,
   Open, Deciding, LockPending, CreateKey, Commit, Abort, DeleteKey, Crash

LEMMA NextIInv ==
  ASSUME IInv, ClockInv, [Next]_vars
  PROVE  IInv'
<1>1. CASE Pass
  BY <1>1, PostStep DEF Pass, IInv, Typed
<1>2. CASE Posting
  BY <1>2, StoreStep, PostActionStep DEF Posting, ClockInv
<1>3. CASE Reviewed
  BY <1>3, OpenStep, LockStep, CreateKeyStep, CommitStep, AbortStep DEF Reviewed, Deciding
<1>4. CASE \E k \in Reviews : DeleteKey(k)
  BY <1>4, DeleteKeyStep
<1>5. CASE Crash
  BY <1>5, CrashStep
<1>6. CASE UNCHANGED vars
  BY <1>6, PostStep DEF vars, IInv, Typed
<1> QED
  BY <1>1, <1>2, <1>3, <1>4, <1>5, <1>6 DEF Next

(* The invariant holds in every reachable state.                           *)
THEOREM Invariance == Spec => [](IInv /\ ClockInv)
<1>1. Init => IInv /\ ClockInv
  BY InitIInv DEF Init, ClockInv
<1>2. (IInv /\ ClockInv) /\ [Next]_vars => (IInv /\ ClockInv)'
  BY NextIInv, NextClock
<1> QED
  BY <1>1, <1>2, PTL DEF Spec

(* Approval is atomic: keys and approved requests are linked one to one,   *)
(* whatever fails between createKey and the commit (ApproveKeyRequest).    *)
THEOREM KeysTheorem == Spec => []KeysAreLinked
<1>1. ASSUME IInv PROVE KeysAreLinked
  <2>1. \A k \in apiKeys : \E p \in Posts : rows[p].key = k /\ rows[p].status = "approved"
    <3> SUFFICES ASSUME NEW k \in apiKeys
                 PROVE  \E p \in Posts : rows[p].key = k /\ rows[p].status = "approved"
      OBVIOUS
    <3>1. PICK p \in Posts : rows[p].key = k
      BY <1>1 DEF IInv, KeyHasRow
    <3>2. k # None
      BY <1>1, AccessRequestsConstants DEF IInv, Typed
    <3> QED
      BY <1>1, <3>1, <3>2 DEF IInv, LinkedKey
  <2>2. \A p \in Posts : rows[p].key # None =>
          rows[p].key \in apiKeys /\ review[rows[p].key].request = p
    BY <1>1 DEF IInv, LinkedKey
  <2> QED
    BY <2>1, <2>2 DEF KeysAreLinked
<1> QED
  BY <1>1, Invariance, PTL

(* A review that was told it succeeded is never overruled.                 *)
THEOREM AnswerTheorem == Spec => []AnswerStands
<1>1. IInv => AnswerStands
  BY DEF IInv
<1> QED
  BY <1>1, Invariance, PTL

(* A request is reviewed once: lockPendingRequest lets a single verdict    *)
(* through, in any order of clicks, failures and crashes.                  *)
THEOREM ReviewedOnceTheorem == Spec => ReviewedOnce
<1> DEFINE Kept == \A p \in Posts : rows[p].status \in Verdicts =>
                     /\ rows'[p].status = rows[p].status
                     /\ rows'[p].key = rows[p].key \/ rows'[p].key = None
<1>1. ASSUME IInv, ClockInv, [Next]_vars
      PROVE  Kept
  <2>1. CASE UNCHANGED rows
    BY <2>1
  <2>2. ASSUME NEW p \in Posts, StoreRequest(p) PROVE Kept
    BY <1>1, <2>2, StoreStep DEF ClockInv, Verdicts
  <2>3. ASSUME NEW v \in Reviews, Commit(v) PROVE Kept
    BY <1>1, <2>3, CommitEffect DEF IInv, Typed, Verdicts
  <2>4. ASSUME NEW k \in Reviews, DeleteKey(k) PROVE Kept
    BY <1>1, <2>4, DeleteKeyEffect DEF IInv
  <2>5. CASE UNCHANGED vars
    BY <2>1, <2>5 DEF vars
  <2> HIDE DEF Kept
  <2>6. CASE Next
    BY <2>1, <2>2, <2>3, <2>4, <2>6 DEF Next, Pass, Posting, Reviewed, Deciding, Crash,
       Allow, Record, Open, LockPending, CreateKey, Abort
  <2> QED
    BY <1>1, <2>5, <2>6
<1>2. Spec => [][Kept]_vars
  BY <1>1, Invariance, PTL DEF Spec
<1> QED
  BY <1>2 DEF ReviewedOnce

----------------------------------------------------------------------------
(* The limiter. A crash forgets the attempts, so the posts are told apart  *)
(* by the life of the process: Old are those that began in earlier lives.  *)

Slack == MaxPerIP - 1 + Concurrent

Begun == {p \in Posts : post[p] # "idle"}

(* Accepted within the window that allow looks at now.                     *)
Lately == {p \in Posts : post[p] = "accepted" /\ rows[p].at > clock - Window}

(* What counts against the limit, or will when it is recorded.             *)
Active(Old) == (InFlight \cup Lately) \ Old

OldAreOver(Old) == \A p \in Old : post[p] \notin {"idle", "store", "record"}

(* An accepted post that allow must count has an attempt of its own, which *)
(* was recorded after the request was stored.                              *)
Recorded(Old) ==
  \A p \in Lately \ Old : \E a \in attempts : a.post = p /\ a.at >= rows[p].at

FewActive(Old) == Cardinality(Active(Old)) <= Slack

FewNew(Old) == \A end \in 0..MaxTime : Cardinality(AcceptedIn(end) \ Old) <= Slack

FewOld(Old) ==
  \A end \in 0..MaxTime : Cardinality(AcceptedIn(end) \cap Old) <= Slack * crashes

Limiter(Old) ==
  OldAreOver(Old) /\ Recorded(Old) /\ FewActive(Old) /\ FewNew(Old) /\ FewOld(Old)

(* Numbers are numbers, and only finitely many posts have begun.           *)
Counts ==
  /\ clock \in Nat
  /\ crashes \in Nat
  /\ attempts \subseteq Attempt
  /\ IsFiniteSet(attempts)
  /\ IsFiniteSet(Begun)

StoredBefore == \A p \in Posts : rows[p].at <= clock

LInv == Counts /\ StoredBefore /\ \E Old \in SUBSET Posts : Limiter(Old)

----------------------------------------------------------------------------
LEMMA SlackType == Slack \in Nat /\ \A n \in Nat : Slack * (n + 1) = Slack * n + Slack
<1>1. Slack \in Nat
  BY AccessRequestsConstants DEF Slack
<1>2. \A s, n \in Nat : s * (n + 1) = s * n + s
  OBVIOUS
<1> QED
  BY <1>1, <1>2

LEMMA RowTimes == ASSUME Typed, NEW p \in Posts PROVE rows[p].at \in Nat
BY DEF Typed, Row

(* A part of a finite set is finite, and no larger.                        *)
LEMMA PartOf ==
  ASSUME NEW T, IsFiniteSet(T), NEW S \in SUBSET T
  PROVE  IsFiniteSet(S) /\ Cardinality(S) \in Nat /\ Cardinality(S) <= Cardinality(T)
BY FS_Subset, FS_CardinalityType

LEMMA UnionBound ==
  ASSUME NEW S, NEW T, IsFiniteSet(S), IsFiniteSet(T)
  PROVE  /\ IsFiniteSet(S \cup T)
         /\ Cardinality(S \cup T) \in Nat
         /\ Cardinality(S \cup T) <= Cardinality(S) + Cardinality(T)
<1>1. /\ IsFiniteSet(S \cup T)
      /\ Cardinality(S \cup T) = Cardinality(S) + Cardinality(T) - Cardinality(S \cap T)
  BY FS_Union
<1>2. Cardinality(S) \in Nat /\ Cardinality(T) \in Nat /\ Cardinality(S \cup T) \in Nat
  BY <1>1, FS_CardinalityType
<1>3. Cardinality(S \cap T) \in Nat
  BY FS_Intersection, FS_CardinalityType
<1> QED
  BY <1>1, <1>2, <1>3

(* All the sets of posts that the invariant counts are finite.             *)
LEMMA CountedAreFinite ==
  ASSUME IsFiniteSet(Begun), NEW Old, NEW end
  PROVE  /\ IsFiniteSet(InFlight) /\ IsFiniteSet(Lately) /\ IsFiniteSet(Active(Old))
         /\ IsFiniteSet(AcceptedIn(end))
<1>1. /\ InFlight \subseteq Begun /\ Lately \subseteq Begun /\ Active(Old) \subseteq Begun
      /\ AcceptedIn(end) \subseteq Begun
  BY DEF InFlight, Lately, Active, AcceptedIn, Begun
<1> QED
  BY <1>1, FS_Subset

(* What a step within one life of the process must show: nothing is        *)
(* accepted into a window that is over, and no more posts are active than  *)
(* the slack.                                                              *)
LEMMA LimiterKept ==
  ASSUME Typed', Counts, Counts', StoredBefore', crashes' = crashes,
         NEW Old \in SUBSET Posts, Limiter(Old),
         OldAreOver(Old)', Recorded(Old)', FewActive(Old)',
         \A p \in Old : post'[p] = post[p] /\ rows'[p].at = rows[p].at,
         \A end \in 0..MaxTime : end < clock' => AcceptedIn(end)' \subseteq AcceptedIn(end)
  PROVE  LInv'
<1>1. FewNew(Old)'
  <2> SUFFICES ASSUME NEW end \in 0..MaxTime
               PROVE  Cardinality(AcceptedIn(end)' \ Old) <= Slack
    BY DEF FewNew
  <2>1. CASE end < clock'
    <3>1. /\ AcceptedIn(end)' \ Old \subseteq AcceptedIn(end) \ Old
          /\ AcceptedIn(end) \ Old \subseteq AcceptedIn(end)
      BY <2>1
    <3>2. IsFiniteSet(AcceptedIn(end))
      BY CountedAreFinite DEF Counts
    <3>3. /\ Cardinality(AcceptedIn(end)' \ Old) \in Nat
          /\ Cardinality(AcceptedIn(end) \ Old) \in Nat
          /\ Cardinality(AcceptedIn(end)' \ Old) <= Cardinality(AcceptedIn(end) \ Old)
      BY <3>1, <3>2, PartOf
    <3>4. Cardinality(AcceptedIn(end) \ Old) <= Slack
      BY DEF Limiter, FewNew
    <3> QED
      BY <3>3, <3>4, SlackType
  <2>2. CASE ~(end < clock')
    <3>1. AcceptedIn(end)' \ Old \subseteq Active(Old)'
      <4> SUFFICES ASSUME NEW p \in AcceptedIn(end)', p \notin Old
                   PROVE  p \in Active(Old)'
        OBVIOUS
      <4>1. /\ p \in Posts /\ post'[p] \in {"record", "accepted"}
            /\ rows'[p].at > end - Window
        BY DEF AcceptedIn
      <4>2. rows'[p].at \in Nat /\ clock' \in Nat /\ clock' <= end /\ end \in Nat /\ Window \in Nat
        BY <4>1, <2>2, AccessRequestsConstants DEF Typed, Row, Counts
      <4>3. rows'[p].at > clock' - Window
        BY <4>1, <4>2
      <4> QED
        BY <4>1, <4>3 DEF Active, InFlight, Lately
    <3>2. IsFiniteSet(Active(Old)')
      <4>1. Active(Old)' \subseteq Begun'
        BY DEF Active, InFlight, Lately, Begun
      <4> QED
        BY <4>1, FS_Subset DEF Counts
    <3>3. /\ Cardinality(AcceptedIn(end)' \ Old) \in Nat
          /\ Cardinality(Active(Old)') \in Nat
          /\ Cardinality(AcceptedIn(end)' \ Old) <= Cardinality(Active(Old)')
      BY <3>1, <3>2, PartOf, FS_CardinalityType
    <3> QED
      BY <3>3, SlackType DEF FewActive
  <2> QED
    BY <2>1, <2>2
<1>2. FewOld(Old)'
  <2> SUFFICES ASSUME NEW end \in 0..MaxTime
               PROVE  Cardinality(AcceptedIn(end)' \cap Old) <= Slack * crashes
    BY DEF FewOld
  <2>1. AcceptedIn(end)' \cap Old = AcceptedIn(end) \cap Old
    BY DEF AcceptedIn
  <2> QED
    BY <2>1 DEF Limiter, FewOld
<1>3. Limiter(Old)'
  BY <1>1, <1>2 DEF Limiter
<1> QED
  BY <1>3 DEF LInv

----------------------------------------------------------------------------
(* Every step of a post: how Begun and attempts change.                    *)
LEMMA AttemptType ==
  ASSUME NEW p \in Posts, NEW t \in Nat
  PROVE  [post |-> p, at |-> t] \in Attempt
BY DEF Attempt

(* Time passes: posts leave the window.                                    *)
LEMMA PassLimiter ==
  ASSUME IInv, IInv', LInv, Pass
  PROVE  LInv'
<1>1. /\ clock' = clock + 1 /\ clock \in Nat
      /\ UNCHANGED <<crashes, attempts, rows, post>>
      /\ Typed /\ Typed' /\ Counts /\ StoredBefore
  BY DEF Pass, IInv, LInv, Counts
<1>2. PICK Old \in SUBSET Posts : Limiter(Old)
  BY DEF LInv
<1>3. Counts'
  BY <1>1 DEF Counts, Begun
<1>4. StoredBefore'
  BY <1>1, RowTimes DEF StoredBefore
<1>5. OldAreOver(Old)'
  BY <1>1, <1>2 DEF Limiter, OldAreOver
<1>6. Lately' \subseteq Lately
  <2>1. \A p \in Posts : rows[p].at > clock' - Window => rows[p].at > clock - Window
    BY <1>1, RowTimes, AccessRequestsConstants
  <2> QED
    BY <1>1, <2>1 DEF Lately
<1>7. Recorded(Old)'
  BY <1>1, <1>2, <1>6 DEF Limiter, Recorded
<1>8. FewActive(Old)'
  <2>1. Active(Old)' \subseteq Active(Old)
    BY <1>1, <1>6 DEF Active, InFlight
  <2>2. Cardinality(Active(Old)') \in Nat /\ Cardinality(Active(Old)') <= Cardinality(Active(Old))
    BY <1>1, <2>1, CountedAreFinite, PartOf DEF Counts
  <2>3. Cardinality(Active(Old)) \in Nat /\ Cardinality(Active(Old)) <= Slack
    BY <1>1, <1>2, CountedAreFinite, FS_CardinalityType DEF Counts, Limiter, FewActive
  <2> QED
    BY <2>2, <2>3, SlackType DEF FewActive
<1>9. \A end \in 0..MaxTime : AcceptedIn(end)' = AcceptedIn(end)
  BY <1>1 DEF AcceptedIn
<1> QED
  BY <1>1, <1>2, <1>3, <1>4, <1>5, <1>7, <1>8, <1>9, LimiterKept

(* Reviews and deletions keep the time a request was stored at.            *)
LEMMA ReviewLimiter ==
  ASSUME IInv, LInv, UNCHANGED <<clock, crashes, attempts, post>>,
         \A p \in Posts : rows'[p].at = rows[p].at
  PROVE  LInv'
<1>1. Counts' /\ StoredBefore'
  BY DEF LInv, Counts, Begun, StoredBefore
<1>2. InFlight' = InFlight /\ Lately' = Lately
  BY DEF InFlight, Lately
<1>3. \A end \in 0..MaxTime : AcceptedIn(end)' = AcceptedIn(end)
  BY DEF AcceptedIn
<1>4. PICK Old \in SUBSET Posts : Limiter(Old)
  BY DEF LInv
<1>5. OldAreOver(Old)'
  BY <1>4 DEF Limiter, OldAreOver
<1>6. Recorded(Old)'
  BY <1>2, <1>4 DEF Limiter, Recorded, Lately
<1>7. FewActive(Old)'
  BY <1>2, <1>4 DEF Limiter, FewActive, Active
<1>8. FewNew(Old)' /\ FewOld(Old)'
  BY <1>3, <1>4 DEF Limiter, FewNew, FewOld
<1> QED
  BY <1>1, <1>4, <1>5, <1>6, <1>7, <1>8 DEF LInv, Limiter

----------------------------------------------------------------------------
(* Record: the attempt is added after the row, so it is no older.          *)
LEMMA RecordLimiter ==
  ASSUME IInv, IInv', LInv, NEW p \in Posts, Record(p)
  PROVE  LInv'
<1> DEFINE a0 == [post |-> p, at |-> clock]
<1>1. /\ post[p] = "record"
      /\ UNCHANGED <<clock, crashes, rows>>
      /\ attempts' = attempts \cup {a0}
      /\ Typed /\ Typed' /\ Counts /\ StoredBefore
  BY DEF Record, IInv, LInv
<1>2. post'[p] = "accepted" /\ \A q \in Posts : q # p => post'[q] = post[q]
  BY DEF Record, IInv, Typed
<1>3. PICK Old \in SUBSET Posts : Limiter(Old)
  BY DEF LInv
<1>4. a0 \in Attempt /\ a0.post = p /\ a0.at = clock
  BY <1>1, AttemptType DEF Counts
<1> HIDE DEF a0
<1>5. p \notin Old
  BY <1>1, <1>3 DEF Limiter, OldAreOver
<1>6. Counts'
  <2>1. Begun' = Begun
    BY <1>1, <1>2 DEF Begun
  <2>2. IsFiniteSet(attempts')
    BY <1>1, FS_AddElement DEF Counts
  <2> QED
    BY <1>1, <1>4, <2>1, <2>2 DEF Counts
<1>7. StoredBefore'
  BY <1>1 DEF StoredBefore
<1>8. OldAreOver(Old)'
  BY <1>2, <1>3, <1>5 DEF Limiter, OldAreOver
<1>9. InFlight' = InFlight \ {p} /\ p \in InFlight
  BY <1>1, <1>2 DEF InFlight
<1>10. Lately' \subseteq Lately \cup {p}
  BY <1>1, <1>2 DEF Lately
<1>11. Recorded(Old)'
  <2> SUFFICES ASSUME NEW q \in Lately', q \notin Old
               PROVE  \E a \in attempts' : a.post = q /\ a.at >= rows[q].at
    BY <1>1 DEF Recorded
  <2>1. CASE q = p
    <3>1. rows[p].at <= clock /\ rows[p].at \in Nat /\ clock \in Nat
      BY <1>1, RowTimes DEF StoredBefore, Counts
    <3> QED
      BY <1>1, <1>4, <2>1, <3>1
  <2>2. CASE q # p
    BY <1>1, <1>3, <1>10, <2>2 DEF Limiter, Recorded
  <2> QED
    BY <2>1, <2>2
<1>12. FewActive(Old)'
  <2>1. Active(Old)' \subseteq Active(Old)
    BY <1>5, <1>9, <1>10 DEF Active
  <2>2. Cardinality(Active(Old)') \in Nat /\ Cardinality(Active(Old)') <= Cardinality(Active(Old))
    BY <1>1, <2>1, CountedAreFinite, PartOf DEF Counts
  <2>3. Cardinality(Active(Old)) \in Nat /\ Cardinality(Active(Old)) <= Slack
    BY <1>1, <1>3, CountedAreFinite, FS_CardinalityType DEF Counts, Limiter, FewActive
  <2> QED
    BY <2>2, <2>3, SlackType DEF FewActive
<1>13. \A end \in 0..MaxTime : AcceptedIn(end)' = AcceptedIn(end)
  BY <1>1, <1>2 DEF AcceptedIn
<1>14. \A q \in Old : post'[q] = post[q] /\ rows'[q].at = rows[q].at
  BY <1>1, <1>2, <1>5
<1> QED
  BY <1>1, <1>3, <1>6, <1>7, <1>8, <1>11, <1>12, <1>13, <1>14, LimiterKept

(* CreateKeyRequest: the row gets the time of its insertion, so it enters  *)
(* no window that is over.                                                 *)
LEMMA StoreLimiter ==
  ASSUME IInv, IInv', LInv, NEW p \in Posts, StoreRequest(p)
  PROVE  LInv'
<1>1. /\ post[p] = "store"
      /\ UNCHANGED <<clock, crashes, attempts>>
      /\ Typed /\ Typed' /\ Counts /\ StoredBefore
  BY DEF StoreRequest, IInv, LInv
<1>2. /\ post'[p] \in {"record", "error"}
      /\ \A q \in Posts : q # p => post'[q] = post[q]
  BY DEF StoreRequest, IInv, Typed
<1>3. /\ post'[p] = "record" => rows'[p].at = clock
      /\ rows'[p].at <= clock
      /\ \A q \in Posts : q # p => rows'[q] = rows[q]
  <2> DEFINE row == NewRow("pending", None, clock)
  <2>1. row.at = clock /\ clock \in Nat
    BY <1>1 DEF NewRow, Counts
  <2>2. (rows' = [rows EXCEPT ![p] = row]) \/ (rows' = rows /\ post'[p] = "error")
    BY <1>1 DEF StoreRequest, Typed
  <2> HIDE DEF row
  <2>3. CASE rows' = [rows EXCEPT ![p] = row]
    <3>1. rows'[p] = row /\ \A q \in Posts : q # p => rows'[q] = rows[q]
      BY <1>1, <2>3 DEF Typed
    <3> QED
      BY <2>1, <3>1
  <2>4. CASE rows' = rows /\ post'[p] = "error"
    BY <1>1, <2>4 DEF StoredBefore
  <2> QED
    BY <2>2, <2>3, <2>4
<1>4. PICK Old \in SUBSET Posts : Limiter(Old)
  BY DEF LInv
<1>5. p \notin Old
  BY <1>1, <1>4 DEF Limiter, OldAreOver
<1>6. Counts'
  <2>1. Begun' = Begun
    BY <1>1, <1>2 DEF Begun
  <2> QED
    BY <1>1, <2>1 DEF Counts
<1>7. StoredBefore'
  BY <1>1, <1>3 DEF StoredBefore
<1>8. OldAreOver(Old)'
  BY <1>2, <1>4, <1>5 DEF Limiter, OldAreOver
<1>9. InFlight' \subseteq InFlight
  BY <1>1, <1>2 DEF InFlight
<1>10. Lately' = Lately /\ p \notin Lately
  BY <1>1, <1>2, <1>3 DEF Lately
<1>11. Recorded(Old)'
  <2> SUFFICES ASSUME NEW q \in Lately, q \notin Old
               PROVE  \E a \in attempts : a.post = q /\ a.at >= rows'[q].at
    BY <1>1, <1>10 DEF Recorded
  <2>1. q \in Posts /\ q # p
    BY <1>10 DEF Lately
  <2> QED
    BY <1>3, <1>4, <2>1 DEF Limiter, Recorded
<1>12. FewActive(Old)'
  <2>1. Active(Old)' \subseteq Active(Old)
    BY <1>9, <1>10 DEF Active
  <2>2. Cardinality(Active(Old)') \in Nat /\ Cardinality(Active(Old)') <= Cardinality(Active(Old))
    BY <1>1, <2>1, CountedAreFinite, PartOf DEF Counts
  <2>3. Cardinality(Active(Old)) \in Nat /\ Cardinality(Active(Old)) <= Slack
    BY <1>1, <1>4, CountedAreFinite, FS_CardinalityType DEF Counts, Limiter, FewActive
  <2> QED
    BY <2>2, <2>3, SlackType DEF FewActive
<1>13. \A end \in 0..MaxTime : end < clock' => AcceptedIn(end)' \subseteq AcceptedIn(end)
  <2> SUFFICES ASSUME NEW end \in 0..MaxTime, end < clock, NEW q \in AcceptedIn(end)'
               PROVE  q \in AcceptedIn(end)
    BY <1>1
  <2>1. q \in Posts /\ post'[q] \in {"record", "accepted"} /\ rows'[q].at <= end
    BY DEF AcceptedIn
  <2>2. q # p
    BY <1>1, <1>2, <1>3, <2>1 DEF Counts
  <2> QED
    BY <1>2, <1>3, <2>1, <2>2 DEF AcceptedIn
<1>14. \A q \in Old : post'[q] = post[q] /\ rows'[q].at = rows[q].at
  BY <1>2, <1>3, <1>5
<1> QED
  BY <1>1, <1>4, <1>6, <1>7, <1>8, <1>11, <1>12, <1>13, <1>14, LimiterKept

(* Each post that allow must count has an attempt, all different.          *)
LEMMA LatelyAreRecent ==
  ASSUME Typed, Counts, NEW Old \in SUBSET Posts, Recorded(Old)
  PROVE  Cardinality(Lately \ Old) <= Cardinality(Recent)
<1> DEFINE f == [p \in Lately \ Old |-> CHOOSE a \in attempts : a.post = p /\ a.at >= rows[p].at]
<1>1. \A p \in Lately \ Old : f[p] \in attempts /\ f[p].post = p /\ f[p].at >= rows[p].at
  BY DEF Recorded
<1>2. ASSUME NEW p \in Lately \ Old PROVE f[p] \in Recent
  <2>1. p \in Posts /\ rows[p].at > clock - Window
    BY DEF Lately
  <2>2. rows[p].at \in Nat /\ f[p].at \in Nat /\ clock \in Nat /\ Window \in Nat
    BY <1>1, <2>1, RowTimes, AccessRequestsConstants DEF Counts, Attempt
  <2>3. f[p].at > clock - Window
    BY <1>1, <2>1, <2>2
  <2> QED
    BY <1>1, <2>3 DEF Recent
<1>3. f \in [Lately \ Old -> Recent]
  BY <1>2
<1>4. f \in Injection(Lately \ Old, Recent)
  <2> HIDE DEF f
  <2> QED
    BY <1>1, <1>3 DEF Injection, IsInjective
<1>5. IsFiniteSet(Recent)
  BY FS_Subset DEF Recent, Counts
<1> HIDE DEF f
<1> QED
  BY <1>4, <1>5, FS_Injection

(* allow: a post goes on only while fewer than MaxPerIP attempts are       *)
(* recent; those in flight with it are the rest of the slack.              *)
LEMMA AllowLimiter ==
  ASSUME IInv, IInv', LInv, NEW p \in Posts, Allow(p)
  PROVE  LInv'
<1>1. /\ post[p] = "idle"
      /\ UNCHANGED <<clock, crashes, rows>>
      /\ attempts' = Recent
      /\ Cardinality(InFlight) < Concurrent
      /\ Typed /\ Typed' /\ Counts /\ StoredBefore
  BY DEF Allow, IInv, LInv
<1>2. /\ post'[p] = IF WithinLimit THEN "store" ELSE "refused"
      /\ \A q \in Posts : q # p => post'[q] = post[q]
  BY DEF Allow, IInv, Typed
<1>3. PICK Old \in SUBSET Posts : Limiter(Old)
  BY DEF LInv
<1>4. p \notin Old
  BY <1>1, <1>3 DEF Limiter, OldAreOver
<1>5. Counts'
  <2>1. Begun' = Begun \cup {p}
    BY <1>1, <1>2 DEF Begun
  <2>2. IsFiniteSet(Begun') /\ IsFiniteSet(attempts')
    BY <1>1, <2>1, FS_AddElement, FS_Subset DEF Counts, Recent
  <2>3. attempts' \subseteq Attempt
    BY <1>1 DEF Counts, Recent
  <2> QED
    BY <1>1, <2>2, <2>3 DEF Counts
<1>6. StoredBefore'
  BY <1>1 DEF StoredBefore
<1>7. OldAreOver(Old)'
  BY <1>2, <1>3, <1>4 DEF Limiter, OldAreOver
<1>8. Lately' = Lately /\ p \notin Lately
  BY <1>1, <1>2 DEF Lately
<1>9. Recorded(Old)'
  <2> SUFFICES ASSUME NEW q \in Lately, q \notin Old
               PROVE  \E a \in attempts' : a.post = q /\ a.at >= rows[q].at
    BY <1>1, <1>8 DEF Recorded
  <2>1. PICK a \in attempts : a.post = q /\ a.at >= rows[q].at
    BY <1>3 DEF Limiter, Recorded
  <2>2. q \in Posts /\ rows[q].at > clock - Window
    BY DEF Lately
  <2>3. rows[q].at \in Nat /\ a.at \in Nat /\ clock \in Nat /\ Window \in Nat
    BY <1>1, <2>1, <2>2, RowTimes, AccessRequestsConstants DEF Counts, Attempt
  <2>4. a.at > clock - Window
    BY <2>1, <2>2, <2>3
  <2> QED
    BY <1>1, <2>1, <2>4 DEF Recent
<1>10. FewActive(Old)'
  <2>1. CASE WithinLimit
    <3>1. InFlight' = InFlight \cup {p} /\ p \notin InFlight
      BY <1>1, <1>2, <2>1 DEF InFlight
    <3>2. IsFiniteSet(InFlight) /\ IsFiniteSet(Lately) /\ IsFiniteSet(Recent)
      BY <1>1, CountedAreFinite, FS_Subset DEF Counts, Recent
    <3>3. IsFiniteSet(InFlight') /\ Cardinality(InFlight') = Cardinality(InFlight) + 1
      BY <3>1, <3>2, FS_AddElement
    <3>4. /\ Cardinality(InFlight) \in Nat /\ Cardinality(InFlight') \in Nat
          /\ Cardinality(Recent) \in Nat
      BY <3>2, <3>3, FS_CardinalityType
    <3>5. /\ IsFiniteSet(Lately \ Old) /\ Cardinality(Lately \ Old) \in Nat
          /\ Cardinality(Lately \ Old) <= Cardinality(Recent)
      BY <1>1, <1>3, <3>2, LatelyAreRecent, PartOf DEF Limiter
    <3>6. /\ IsFiniteSet(InFlight' \cup (Lately \ Old))
          /\ Cardinality(InFlight' \cup (Lately \ Old)) \in Nat
          /\ Cardinality(InFlight' \cup (Lately \ Old))
               <= Cardinality(InFlight') + Cardinality(Lately \ Old)
      BY <3>3, <3>5, UnionBound
    <3>7. Active(Old)' \subseteq InFlight' \cup (Lately \ Old)
      BY <1>8 DEF Active
    <3>8. /\ Cardinality(Active(Old)') \in Nat
          /\ Cardinality(Active(Old)') <= Cardinality(InFlight' \cup (Lately \ Old))
      BY <3>6, <3>7, PartOf
    <3>9. Cardinality(Recent) < MaxPerIP /\ MaxPerIP \in Nat /\ Concurrent \in Nat
      BY <2>1, AccessRequestsConstants DEF WithinLimit
    <3>10. Cardinality(InFlight') <= Concurrent
      BY <1>1, <3>3, <3>4, <3>9
    <3>11. Cardinality(Active(Old)') <= MaxPerIP - 1 + Concurrent
      BY <3>4, <3>5, <3>6, <3>8, <3>9, <3>10
    <3> QED
      BY <3>11 DEF FewActive, Slack
  <2>2. CASE ~WithinLimit
    <3>1. InFlight' = InFlight
      BY <1>1, <1>2, <2>2 DEF InFlight
    <3>2. Active(Old)' = Active(Old)
      BY <1>8, <3>1 DEF Active
    <3> QED
      BY <1>3, <3>2 DEF Limiter, FewActive
  <2> QED
    BY <2>1, <2>2
<1>11. \A end \in 0..MaxTime : AcceptedIn(end)' = AcceptedIn(end)
  BY <1>1, <1>2 DEF AcceptedIn
<1>12. \A q \in Old : post'[q] = post[q] /\ rows'[q].at = rows[q].at
  BY <1>1, <1>2, <1>4
<1> QED
  BY <1>1, <1>3, <1>5, <1>6, <1>7, <1>9, <1>10, <1>11, <1>12, LimiterKept

(* The bound itself: one slack of this life, and one of each life before.  *)
LEMMA AcceptedBound ==
  ASSUME Counts, NEW Old \in SUBSET Posts, Limiter(Old), NEW end \in 0..MaxTime
  PROVE  Cardinality(AcceptedIn(end)) <= Slack * crashes + Slack
<1>1. IsFiniteSet(AcceptedIn(end))
  BY CountedAreFinite DEF Counts
<1> DEFINE New == AcceptedIn(end) \ Old
           Past == AcceptedIn(end) \cap Old
<1>2. /\ IsFiniteSet(New) /\ IsFiniteSet(Past)
      /\ Cardinality(New) \in Nat /\ Cardinality(Past) \in Nat
  BY <1>1, PartOf
<1>3. Cardinality(New) <= Slack /\ Cardinality(Past) <= Slack * crashes
  BY DEF Limiter, FewNew, FewOld
<1>4. AcceptedIn(end) = New \cup Past
  OBVIOUS
<1> HIDE DEF New, Past
<1>5. /\ Cardinality(AcceptedIn(end)) \in Nat
      /\ Cardinality(AcceptedIn(end)) <= Cardinality(New) + Cardinality(Past)
  BY <1>2, <1>4, UnionBound
<1>6. Slack \in Nat /\ Slack * crashes \in Nat
  BY SlackType DEF Counts
<1> QED
  BY <1>2, <1>3, <1>5, <1>6

(* A crash: every post that has begun is now of an earlier life, and the   *)
(* accepted ones of the life that ends add at most one slack to the past.  *)
LEMMA CrashLimiter ==
  ASSUME IInv, LInv, Crash
  PROVE  LInv'
<1>1. /\ crashes' = crashes + 1 /\ attempts' = {}
      /\ UNCHANGED <<clock, rows>>
      /\ Typed /\ Counts /\ StoredBefore
  BY DEF Crash, IInv, LInv
<1>2. \A p \in Posts : post'[p] = PostKilled(post[p])
  BY DEF Crash
<1>3. \A p \in Posts :
        /\ post'[p] \notin {"store", "record"}
        /\ post'[p] = "idle" <=> post[p] = "idle"
        /\ post'[p] = "accepted" => post[p] = "accepted"
  BY <1>2 DEF PostKilled
<1>4. PICK Was \in SUBSET Posts : Limiter(Was)
  BY DEF LInv
<1>5. PICK Old \in SUBSET Posts : Old = Begun
  BY DEF Begun
<1>6. Counts'
  <2>1. Begun' = Begun
    BY <1>3 DEF Begun
  <2> QED
    BY <1>1, <2>1, FS_EmptySet DEF Counts
<1>7. StoredBefore'
  BY <1>1 DEF StoredBefore
<1>8. OldAreOver(Old)'
  BY <1>3, <1>5 DEF OldAreOver, Begun
<1>9. InFlight' = {} /\ Lately' \subseteq Old
  BY <1>3, <1>5 DEF InFlight, Lately, Begun
<1>10. Recorded(Old)'
  BY <1>9 DEF Recorded
<1>11. FewActive(Old)'
  <2>1. Active(Old)' = {}
    BY <1>9 DEF Active
  <2> QED
    BY <2>1, FS_EmptySet, SlackType DEF FewActive
<1>12. \A end \in 0..MaxTime :
         AcceptedIn(end)' \subseteq Old /\ AcceptedIn(end)' \subseteq AcceptedIn(end)
  BY <1>1, <1>3, <1>5 DEF AcceptedIn, Begun
<1>13. FewNew(Old)'
  <2> SUFFICES ASSUME NEW end \in 0..MaxTime
               PROVE  Cardinality(AcceptedIn(end)' \ Old) <= Slack
    BY DEF FewNew
  <2>1. AcceptedIn(end)' \ Old = {}
    BY <1>12
  <2> QED
    BY <2>1, FS_EmptySet, SlackType
<1>14. FewOld(Old)'
  <2> SUFFICES ASSUME NEW end \in 0..MaxTime
               PROVE  Cardinality(AcceptedIn(end)' \cap Old) <= Slack * crashes'
    BY DEF FewOld
  <2> DEFINE A == AcceptedIn(end)
  <2>1. IsFiniteSet(A)
    BY <1>1, CountedAreFinite DEF Counts
  <2>2. AcceptedIn(end)' \cap Old \subseteq A
    BY <1>12
  <2>3. Cardinality(A) <= Slack * crashes + Slack
    BY <1>1, <1>4, <2>1, AcceptedBound
  <2>4. /\ Cardinality(AcceptedIn(end)' \cap Old) \in Nat
        /\ Cardinality(A) \in Nat
        /\ Cardinality(AcceptedIn(end)' \cap Old) <= Cardinality(A)
    BY <2>1, <2>2, PartOf, FS_CardinalityType
  <2>5. Slack * crashes' = Slack * crashes + Slack /\ Slack \in Nat /\ Slack * crashes \in Nat
    BY <1>1, SlackType DEF Counts
  <2> HIDE DEF A
  <2> QED
    BY <2>3, <2>4, <2>5
<1> QED
  BY <1>5, <1>6, <1>7, <1>8, <1>10, <1>11, <1>13, <1>14 DEF LInv, Limiter

----------------------------------------------------------------------------
LEMMA InitLInv == Init => LInv
<1> SUFFICES ASSUME Init PROVE LInv
  OBVIOUS
<1>1. Begun = {} /\ attempts = {} /\ clock = 0 /\ crashes = 0
  BY DEF Init, Begun
<1>2. Counts
  BY <1>1, FS_EmptySet DEF Counts
<1>3. StoredBefore
  BY <1>1 DEF Init, NewRow, StoredBefore
<1>4. PICK Old \in SUBSET Posts : Old = {}
  OBVIOUS
<1>5. Active(Old) = {} /\ Lately = {} /\ \A end : AcceptedIn(end) = {}
  BY <1>1 DEF Begun, Active, InFlight, Lately, AcceptedIn
<1>6. Limiter(Old)
  <2>1. OldAreOver(Old)
    BY <1>4 DEF OldAreOver
  <2>2. Recorded(Old)
    BY <1>5 DEF Recorded
  <2>3. FewActive(Old)
    BY <1>5, FS_EmptySet, SlackType DEF FewActive
  <2>4. FewNew(Old)
    <3>1. \A end : AcceptedIn(end) \ Old = {}
      BY <1>5
    <3> QED
      BY <3>1, FS_EmptySet, SlackType DEF FewNew
  <2>5. FewOld(Old)
    <3>1. \A end : AcceptedIn(end) \cap Old = {}
      BY <1>5
    <3>2. Slack * crashes = 0
      BY <1>1, SlackType
    <3> QED
      BY <3>1, <3>2, FS_EmptySet DEF FewOld
  <2> QED
    BY <2>1, <2>2, <2>3, <2>4, <2>5 DEF Limiter
<1> QED
  BY <1>2, <1>3, <1>6 DEF LInv

(* A review writes verdicts and links, never the time of a request.        *)
LEMMA CommitKeepsTimes ==
  ASSUME IInv, NEW v \in Reviews, Commit(v), NEW q \in Posts
  PROVE  rows'[q].at = rows[q].at
<1>1. rows \in [Posts -> Row] /\ review[v].request \in Posts
  BY ReviewShape DEF IInv, Typed, Commit
<1> DEFINE row == NewRow(review[v].verdict, NewKey(v), rows[review[v].request].at)
<1>2. row.at = rows[review[v].request].at
  BY DEF NewRow
<1>3. rows' = [rows EXCEPT ![review[v].request] = row]
  BY DEF Commit
<1> HIDE DEF row
<1> QED
  BY <1>1, <1>2, <1>3

LEMMA DeleteKeepsTimes ==
  ASSUME NEW k \in Reviews, DeleteKey(k), NEW q \in Posts
  PROVE  rows'[q].at = rows[q].at
<1>1. rows'[q] = Unlinked(rows[q], k)
  BY DEF DeleteKey
<1> QED
  BY <1>1 DEF Unlinked, NewRow

LEMMA NextLInv ==
  ASSUME IInv, IInv', LInv, [Next]_vars
  PROVE  LInv'
<1>1. CASE Pass
  BY <1>1, PassLimiter
<1>2. CASE Posting
  BY <1>2, AllowLimiter, StoreLimiter, RecordLimiter DEF Posting
<1>3. CASE Reviewed
  <2>1. ASSUME NEW v \in Reviews, Commit(v) PROVE LInv'
    <3>1. UNCHANGED <<clock, crashes, attempts, post>>
      BY <2>1 DEF Commit
    <3> QED
      BY <2>1, <3>1, CommitKeepsTimes, ReviewLimiter
  <2>2. CASE UNCHANGED <<clock, crashes, attempts, post, rows>>
    BY <2>2, ReviewLimiter
  <2> QED
    BY <1>3, <2>1, <2>2 DEF Reviewed, Deciding, Open, LockPending, CreateKey, Abort
<1>4. ASSUME NEW k \in Reviews, DeleteKey(k) PROVE LInv'
  <2>1. UNCHANGED <<clock, crashes, attempts, post>>
    BY <1>4 DEF DeleteKey
  <2> QED
    BY <1>4, <2>1, DeleteKeepsTimes, ReviewLimiter
<1>5. CASE Crash
  BY <1>5, CrashLimiter
<1>6. CASE UNCHANGED vars
  BY <1>6, ReviewLimiter DEF vars
<1> QED
  BY <1>1, <1>2, <1>3, <1>4, <1>5, <1>6 DEF Next

THEOREM LimiterInvariance == Spec => [](IInv /\ LInv)
<1>1. Init => LInv
  BY InitLInv
<1>2. (IInv /\ IInv' /\ LInv) /\ [Next]_vars => LInv'
  BY NextLInv
<1> QED
  BY <1>1, <1>2, Invariance, PTL DEF Spec

(* Every variable keeps its type.                                          *)
THEOREM TypeCorrect == Spec => []TypeOK
<1>1. IInv /\ LInv => TypeOK
  BY DEF IInv, LInv, Counts, Typed, TypeOK, PostStates, ReviewStates
<1> QED
  BY <1>1, LimiterInvariance, PTL

(* allow and record bound what is accepted in any window by MaxPerIP - 1   *)
(* and the posts in flight together, once per life of the process: for any *)
(* window, limit and number of posts.                                      *)
THEOREM LimiterTheorem == Spec => []LimiterSlack
<1>1. IInv /\ LInv => LimiterSlack
  <2> SUFFICES ASSUME LInv, NEW end \in 0..MaxTime
               PROVE  Cardinality(AcceptedIn(end)) <= (MaxPerIP - 1 + Concurrent) * (crashes + 1)
    BY DEF LimiterSlack
  <2>1. PICK Old \in SUBSET Posts : Limiter(Old)
    BY DEF LInv
  <2>2. Cardinality(AcceptedIn(end)) <= Slack * crashes + Slack
    BY <2>1, AcceptedBound DEF LInv
  <2>3. Slack * (crashes + 1) = Slack * crashes + Slack
    BY SlackType DEF LInv, Counts
  <2> QED
    BY <2>2, <2>3 DEF Slack
<1> QED
  BY <1>1, LimiterInvariance, PTL
=============================================================================
