--------------------------- MODULE AccessRequests ---------------------------
(***************************************************************************)
(* API key requests from the public site (internal/public/public.go) and   *)
(* their review by the super user (internal/store/requests.go).            *)
(*                                                                         *)
(* The posts modelled are those of one IP address: the limiter keeps a     *)
(* list of times per address and the lists share nothing. Of a list only   *)
(* its length is ever read: it is a set of times here, each with its post. *)
(* A review is one transaction; what it writes is unseen until it commits. *)
(***************************************************************************)
EXTENDS Naturals, FiniteSets

CONSTANTS
  Posts,        \* submissions of the public form, numbered as they come
  Reviews,      \* approve and reject requests of the super user, likewise
  None,
  MaxPerIP,     \* maxRequestsPerIP (3)
  Window,       \* requestWindow (an hour)
  Faults,       \* the kinds of fault that may happen
  Concurrent,   \* bound: posts between allow and record at one time
  MaxTime,      \* bound: the clock stops there
  MaxCrashes    \* bound: crashes of the service

FaultKinds == {
  "statement",  \* a database call fails and changes nothing
  "commit",     \* it is applied, but its caller gets an error
  "crash" }     \* the process is killed

ASSUME AccessRequestsConstants ==
  /\ Posts \subseteq Nat /\ Reviews \subseteq Nat
  /\ None \notin Reviews
  /\ MaxPerIP \in Nat \ {0}
  /\ Window \in Nat \ {0}
  /\ Faults \subseteq FaultKinds
  /\ Concurrent \in Nat \ {0}
  /\ MaxTime \in Nat
  /\ MaxCrashes \in Nat

VARIABLES
  clock,
  crashes,
  attempts,   \* Handler.attempts of the address
  rows,       \* key_requests, one row per post
  apiKeys,    \* rows of api_keys, each named by the review that created it
  lock,       \* FOR UPDATE locks on key_requests
  post,       \* the public handlers
  review      \* the admin handlers

vars == <<clock, crashes, attempts, rows, apiKeys, lock, post, review>>

Verdicts == {"approved", "rejected"}

Row == [status : {"none", "pending"} \cup Verdicts, key : Reviews \cup {None}, at : Nat]
NewRow(status, key, at) == [status |-> status, key |-> key, at |-> at]

Attempt == [post : Posts, at : Nat]

Idle == [pc |-> "idle"]
Reviewing(pc, request, verdict) == [pc |-> pc, request |-> request, verdict |-> verdict]

Waiting == {"waiting"}
Holding == {"create", "commit"}
Answered == {"done", "already", "error"}

TypeOK ==
  /\ clock \in Nat
  /\ crashes \in Nat
  /\ attempts \subseteq Attempt
  /\ rows \in [Posts -> Row]
  /\ apiKeys \subseteq Reviews
  /\ lock \in [Posts -> Reviews \cup {None}]
  /\ post \in [Posts -> {"idle", "store", "record", "accepted", "refused", "error"}]
  /\ review \in [Reviews ->
       {Idle} \cup [pc : Waiting \cup Holding \cup Answered, request : Posts,
                    verdict : Verdicts]]

Init ==
  /\ clock = 0
  /\ crashes = 0
  /\ attempts = {}
  /\ rows = [p \in Posts |-> NewRow("none", None, 0)]
  /\ apiKeys = {}
  /\ lock = [p \in Posts |-> None]
  /\ post = [p \in Posts |-> "idle"]
  /\ review = [v \in Reviews |-> Idle]

Pass ==
  /\ clock < MaxTime
  /\ clock' = clock + 1
  /\ UNCHANGED <<crashes, attempts, rows, apiKeys, lock, post, review>>

----------------------------------------------------------------------------
(* The public form.                                                        *)
InFlight == {p \in Posts : post[p] \in {"store", "record"}}

(* allow drops the times outside the window and counts the others. It does *)
(* not add the attempt: record does, once the request is stored.           *)
Recent == {a \in attempts : a.at > clock - Window}
WithinLimitOffByOne == Cardinality(Recent) <= MaxPerIP
WithinLimit == Cardinality(Recent) < MaxPerIP

Allow(p) ==
  /\ post[p] = "idle"
  /\ \A q \in Posts : q < p => post[q] # "idle"
  /\ Cardinality(InFlight) < Concurrent
  /\ attempts' = Recent
  /\ post' = [post EXCEPT ![p] = IF WithinLimit THEN "store" ELSE "refused"]
  /\ UNCHANGED <<clock, crashes, rows, apiKeys, lock, review>>

(* CreateKeyRequest: validation or the insert may fail.                    *)
StoreRequest(p) ==
  /\ post[p] = "store"
  /\ \/ /\ rows' = [rows EXCEPT ![p] = NewRow("pending", None, clock)]
        /\ \/ post' = [post EXCEPT ![p] = "record"]
           \/ "commit" \in Faults /\ post' = [post EXCEPT ![p] = "error"]
     \/ /\ post' = [post EXCEPT ![p] = "error"]
        /\ rows' = rows
  /\ UNCHANGED <<clock, crashes, attempts, apiKeys, lock, review>>

(* record adds the time; sendAutoReply then submits one system mail (a     *)
(* request of MailDelivery) and ignores its errors, and 201 follows.       *)
Record(p) ==
  /\ post[p] = "record"
  /\ attempts' = attempts \cup {[post |-> p, at |-> clock]}
  /\ post' = [post EXCEPT ![p] = "accepted"]
  /\ UNCHANGED <<clock, crashes, rows, apiKeys, lock, review>>

----------------------------------------------------------------------------
(* Reviews. The console may show a request as pending long after somebody  *)
(* reviewed it.                                                            *)
Open(v, p, verdict) ==
  /\ review[v].pc = "idle"
  /\ \A u \in Reviews : u < v => review[u].pc # "idle"
  /\ rows[p].status # "none"
  /\ review' = [review EXCEPT ![v] = Reviewing("waiting", p, verdict)]
  /\ UNCHANGED <<clock, crashes, attempts, rows, apiKeys, lock, post>>

Continue(v, pc) ==
  review' = [review EXCEPT ![v] = Reviewing(pc, review[v].request, review[v].verdict)]

(* Mutants: no FOR UPDATE, no status check, locks that outlive their       *)
(* transaction.                                                            *)
LockIgnored(p) == TRUE
LockFree(p) == lock[p] = None

PendingIgnored(p) == rows[p].status # "none"
IsPending(p) == rows[p].status = "pending"

Unreleased(v) == lock
Released(v) == [p \in Posts |-> IF lock[p] = v THEN None ELSE lock[p]]

(* lockPendingRequest: SELECT status ... FOR UPDATE, which waits for the   *)
(* row's lock and then reads the committed row.                            *)
LockPending(v) ==
  /\ review[v].pc = "waiting"
  /\ LockFree(review[v].request)
  /\ IF IsPending(review[v].request)
       THEN /\ lock' = [lock EXCEPT ![review[v].request] = v]
            /\ Continue(v, IF review[v].verdict = "approved" THEN "create" ELSE "commit")
       ELSE /\ lock' = lock
            /\ Continue(v, "already")
  /\ UNCHANGED <<clock, crashes, attempts, rows, apiKeys, post>>

(* createKey inserts through the transaction: the key is not in apiKeys    *)
(* before the commit. Mutant: it inserts through the pool.                 *)
CreateKeyOutside(v) ==
  /\ review[v].pc = "create"
  /\ apiKeys' = apiKeys \cup {v}
  /\ Continue(v, "commit")
  /\ UNCHANGED <<clock, crashes, attempts, rows, lock, post>>
CreateKey(v) ==
  /\ review[v].pc = "create"
  /\ Continue(v, "commit")
  /\ UNCHANGED <<clock, crashes, attempts, rows, apiKeys, lock, post>>

(* The UPDATE of the request, and COMMIT. Mutant: id 0 instead of NULL.    *)
NewKeyZero(v) == IF review[v].verdict = "approved" THEN v ELSE 0
NewKey(v) == IF review[v].verdict = "approved" THEN v ELSE None

Commit(v) ==
  /\ review[v].pc = "commit"
  /\ rows' = [rows EXCEPT ![review[v].request] =
       NewRow(review[v].verdict, NewKey(v), rows[review[v].request].at)]
  /\ apiKeys' = apiKeys \cup ({NewKey(v)} \ {None})
  /\ lock' = Released(v)
  /\ \/ Continue(v, "done")
     \/ "commit" \in Faults /\ Continue(v, "error")
  /\ UNCHANGED <<clock, crashes, attempts, post>>

(* ROLLBACK: createKey refused the form, or a statement failed.            *)
Abort(v) ==
  /\ \/ review[v].pc = "create"
     \/ review[v].pc \in Waiting \cup Holding /\ "statement" \in Faults
  /\ lock' = Released(v)
  /\ Continue(v, "error")
  /\ UNCHANGED <<clock, crashes, attempts, rows, apiKeys, post>>

(* DeleteKey of a key that came from a request: the link is SET NULL.      *)
Unlinked(row, k) == IF row.key = k THEN NewRow(row.status, None, row.at) ELSE row

DeleteKey(k) ==
  /\ k \in apiKeys
  /\ apiKeys' = apiKeys \ {k}
  /\ rows' = [p \in Posts |-> Unlinked(rows[p], k)]
  /\ UNCHANGED <<clock, crashes, attempts, lock, post, review>>

----------------------------------------------------------------------------
(* The process is killed and started again: PostgreSQL rolls back what was *)
(* open, and the limiter starts with an empty map.                         *)
PostKilled(pc) == IF pc \in {"store", "record"} THEN "error" ELSE pc
ReviewKilled(s) ==
  IF s.pc \in Waiting \cup Holding THEN Reviewing("error", s.request, s.verdict) ELSE s

Crash ==
  /\ "crash" \in Faults
  /\ crashes < MaxCrashes
  /\ crashes' = crashes + 1
  /\ attempts' = {}
  /\ lock' = [p \in Posts |-> None]
  /\ post' = [p \in Posts |-> PostKilled(post[p])]
  /\ review' = [v \in Reviews |-> ReviewKilled(review[v])]
  /\ UNCHANGED <<clock, rows, apiKeys>>

----------------------------------------------------------------------------
Posting == \E p \in Posts : Allow(p) \/ StoreRequest(p) \/ Record(p)

Deciding(v) == LockPending(v) \/ CreateKey(v) \/ Commit(v) \/ Abort(v)

Reviewed ==
  \E v \in Reviews :
    \/ \E p \in Posts, verdict \in Verdicts : Open(v, p, verdict)
    \/ Deciding(v)

Next == Pass \/ Posting \/ Reviewed \/ (\E k \in Reviews : DeleteKey(k)) \/ Crash

Spec == Init /\ [][Next]_vars

(* A statement that does not wait for a lock ends; PostgreSQL serves the   *)
(* waiters of a row lock in turn.                                          *)
Fairness ==
  \A v \in Reviews :
    /\ WF_vars(CreateKey(v) \/ Commit(v) \/ (review[v].pc \in Holding /\ Abort(v)))
    /\ SF_vars(LockPending(v))

FairSpec == Spec /\ Fairness

----------------------------------------------------------------------------
(* "A request can only be reviewed once" (README.md): whatever the order   *)
(* of the clicks, lost answers, failures and crashes, a reviewed row keeps *)
(* its verdict, and its key until that key is deleted.                     *)
ReviewedOnce ==
  [][\A p \in Posts : rows[p].status \in Verdicts =>
       /\ rows'[p].status = rows[p].status
       /\ rows'[p].key = rows[p].key \/ rows'[p].key = None]_vars

(* Approval is atomic: a key created from a request is the key of exactly  *)
(* one approved request, and no other row names a key that is not there.   *)
KeysAreLinked ==
  /\ \A k \in apiKeys : \E p \in Posts : rows[p].key = k /\ rows[p].status = "approved"
  /\ \A p \in Posts : rows[p].key # None => rows[p].key \in apiKeys
  /\ \A p, q \in Posts : rows[p].key # None /\ rows[p].key = rows[q].key => p = q

(* A review that was answered with success stays true: the row has the     *)
(* verdict the super user was told. So two reviews of one request cannot   *)
(* both be told they decided it differently.                               *)
AnswerStands ==
  \A v \in Reviews : review[v].pc = "done" =>
    rows[review[v].request].status = review[v].verdict

(* What the limiter does guarantee: in any window at most MaxPerIP - 1     *)
(* accepted requests plus the posts that were in flight together, per life *)
(* of the process.                                                         *)
AcceptedIn(end) ==
  {p \in Posts : post[p] \in {"record", "accepted"}
                   /\ rows[p].at > end - Window /\ rows[p].at <= end}

LimiterSlack ==
  \A end \in 0..MaxTime :
    Cardinality(AcceptedIn(end)) <= (MaxPerIP - 1 + Concurrent) * (crashes + 1)

(* Every review is answered: no row lock is left behind.                   *)
ReviewAnswers ==
  \A v \in Reviews : review[v].pc = "waiting" ~> review[v].pc \in Answered

(* README.md, line 98: "a limit of 3 accepted requests per IP per hour".   *)
AcceptedPerHour ==
  \A end \in 0..MaxTime :
    Cardinality({p \in AcceptedIn(end) : post[p] = "accepted"}) <= MaxPerIP
=============================================================================
