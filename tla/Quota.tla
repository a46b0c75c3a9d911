------------------------------- MODULE Quota -------------------------------
(***************************************************************************)
(* Rate limits: Store.Reserve (internal/store/usage.go) charges n mails to *)
(* an API key in one PostgreSQL transaction, under an advisory lock of the *)
(* key. The key it checks was read earlier, by the API key middleware or   *)
(* by the console, and may have been edited or deleted since.              *)
(*                                                                         *)
(* One key: reservations of different keys share nothing. Transactions run *)
(* at READ COMMITTED, so every statement sees what is committed when it    *)
(* starts, while now() stays the time the transaction began.               *)
(***************************************************************************)
EXTENDS Integers, Sequences, FiniteSetsExt

CONSTANTS
  Calls,        \* requests that reserve, each once
  Past,         \* requests answered before the others came
  History,      \* what the past requests may have been charged: sets of logs
  Start,        \* the time the other requests start to come
  None,         \* nobody holds the lock
  Mails,        \* Mails[c]: how many mails call c wants to send
  Windows,      \* durations of the rolling windows, in the order checked
  LimitChoices, \* limits a key may be given: one number per window, 0 = none
  Edits,        \* whether the super user edits or deletes the key meanwhile
  Faults,       \* whether statements may fail or a COMMIT's answer get lost
  MaxTime       \* bound: the clock stops there

WindowNumbers == 1..Len(Windows)
Limits == [WindowNumbers -> Nat]

(* A committed reservation. super and limits (history) are the key as the  *)
(* call had read it.                                                       *)
Log == [call : Calls \cup Past, at : Nat, mails : Nat,
        status : {"accepted", "limit_exceeded"}, super : BOOLEAN, limits : Limits]

ASSUME QuotaConstants ==
  /\ None \notin Calls
  /\ Calls \cap Past = {}
  /\ \A rows \in History : rows \subseteq {l \in Log : l.call \in Past /\ l.at <= Start}
  /\ Mails \in [Calls -> Nat \ {0}]
  /\ Windows \in Seq(Nat \ {0})
  /\ LimitChoices \subseteq Limits
  /\ Edits \in BOOLEAN
  /\ Faults \in BOOLEAN
  /\ MaxTime \in Nat
  /\ Start \in 0..MaxTime

Never == -1     \* a nil *time.Time

VARIABLES
  clock,
  key,       \* the row of api_keys: exists, super, limits
  logs,      \* committed rows of request_logs
  lock,      \* the call that holds the key's advisory lock
  call       \* the handlers: a pc, and what they know

vars == <<clock, key, logs, lock, call>>

(* A handler from its key lookup to its answer. now: transaction start;    *)
(* window, used, retry: the LimitError; seen (history): the rows retryTime *)
(* read. Once it is answered only a LimitError matters.                    *)
Idle == [pc |-> "idle"]
Answer(pc) == [pc |-> pc]
Authed(super, limits) == [pc |-> "authed", super |-> super, limits |-> limits]
Tx(pc, s, now) == [pc |-> pc, super |-> s.super, limits |-> s.limits, now |-> now]
Over(s, w, used) ==
  [pc |-> "over", super |-> s.super, limits |-> s.limits, now |-> s.now,
   window |-> w, used |-> used]
Refused(pc, s, retry, seen) ==
  [pc |-> pc, super |-> s.super, limits |-> s.limits, now |-> s.now,
   window |-> s.window, used |-> s.used, retry |-> retry, seen |-> seen]

----------------------------------------------------------------------------
Accepted == {l \in logs : l.status = "accepted"}

(* Rows the filter created_at > since - duration lets through.             *)
Within(rows, now, w) == {l \in rows : l.at > now - Windows[w]}

Total(rows) == MapThenSumSet(LAMBDA l : l.mails, rows)

Used(rows, now, w) == Total(Within(rows, now, w))

(* used+n <= limit, where a limit of 0 means none.                         *)
FitsWithoutNewMails(limit, used, n) == limit = 0 \/ used < limit
Fits(limit, used, n) == limit = 0 \/ used + n <= limit

(* retryTime: the creation time of the row whose expiry frees enough mails,*)
(* oldest first, plus the window.                                          *)
FreedBy(rows, at) == Total({l \in rows : l.at <= at})

RetryTimeOfFirst(rows, now, w, need) ==
  LET old == Within(rows, now, w)
  IN IF old = {} THEN Never ELSE Min({l.at : l \in old}) + Windows[w]
RetryTimeAtRow(rows, now, w, need) ==
  LET old == Within(rows, now, w)
      enough == {l.at : l \in {r \in old : FreedBy(old, r.at) >= need}}
  IN IF enough = {} THEN Never ELSE Min(enough)
RetryTime(rows, now, w, need) ==
  LET old == Within(rows, now, w)
      enough == {l.at : l \in {r \in old : FreedBy(old, r.at) >= need}}
  IN IF enough = {} THEN Never ELSE Min(enough) + Windows[w]

----------------------------------------------------------------------------
Init ==
  /\ clock = Start
  /\ key \in [exists : {TRUE}, super : {FALSE}, limits : LimitChoices]
  /\ logs \in History
  /\ lock = None
  /\ call = [c \in Calls |-> Idle]

Pass ==
  /\ clock < MaxTime
  /\ clock' = clock + 1
  /\ UNCHANGED <<key, logs, lock, call>>

(* The middleware (or compose) reads the key; Reserve uses this copy.      *)
ReadKey(c) ==
  /\ call[c].pc = "idle"
  /\ key.exists
  /\ call' = [call EXCEPT ![c] = Authed(key.super, key.limits)]
  /\ UNCHANGED <<clock, key, logs, lock>>

(* BEGIN fixes now(). A super key goes straight to the inserts.            *)
Begin(c) ==
  /\ call[c].pc = "authed"
  /\ call' = [call EXCEPT ![c] =
       Tx(IF call[c].super THEN "commit" ELSE "begun", call[c], clock)]
  /\ UNCHANGED <<clock, key, logs, lock>>

(* pg_advisory_xact_lock, held until the transaction ends. Mutant: none.   *)
LockIsIgnored(c) == TRUE
LockIsFree(c) == lock = None

Lock(c) ==
  /\ call[c].pc = "begun"
  /\ LockIsFree(c)
  /\ lock' = c
  /\ call' = [call EXCEPT ![c] = Tx("locked", call[c], call[c].now)]
  /\ UNCHANGED <<clock, key, logs>>

(* The usage query, and the loop over the windows: the first one that is   *)
(* exceeded decides.                                                       *)
Exceeded(c, w) == ~Fits(call[c].limits[w], Used(Accepted, call[c].now, w), Mails[c])

ReadUsage(c) ==
  /\ call[c].pc = "locked"
  /\ LET over == {w \in WindowNumbers : Exceeded(c, w)}
     IN call' = [call EXCEPT ![c] =
          IF over = {} THEN Tx("commit", call[c], call[c].now)
          ELSE Over(call[c], Min(over), Used(Accepted, call[c].now, Min(over)))]
  /\ UNCHANGED <<clock, key, logs, lock>>

(* The second query of a rejected call, skipped when it can never fit.     *)
ReadRetryTime(c) ==
  /\ call[c].pc = "over"
  /\ LET w == call[c].window
         limit == call[c].limits[w]
         retry == IF Mails[c] > limit THEN Never
                  ELSE RetryTime(Accepted, call[c].now, w, call[c].used + Mails[c] - limit)
     IN call' = [call EXCEPT ![c] = Refused("reject", call[c], retry, Accepted)]
  /\ UNCHANGED <<clock, key, logs, lock>>

(* The end of a transaction releases its lock. Mutant: a session lock.     *)
Unreleased(c) == lock
Released(c) == IF lock = c THEN None ELSE lock

NewLogAlwaysAccepted(c, status) ==
  [call |-> c, at |-> call[c].now, mails |-> Mails[c], status |-> "accepted",
   super |-> call[c].super, limits |-> call[c].limits]
NewLog(c, status) ==
  [call |-> c, at |-> call[c].now, mails |-> Mails[c], status |-> status,
   super |-> call[c].super, limits |-> call[c].limits]

(* The inserts and COMMIT, whose answer may get lost. A deleted key fails  *)
(* the foreign key of request_logs.                                        *)
CommitAccepted(c) ==
  /\ call[c].pc = "commit"
  /\ key.exists
  /\ logs' = logs \cup {NewLog(c, "accepted")}
  /\ lock' = Released(c)
  /\ \/ call' = [call EXCEPT ![c] = Answer("accepted")]
     \/ Faults /\ call' = [call EXCEPT ![c] = Answer("error")]
  /\ UNCHANGED <<clock, key>>

CommitRejected(c) ==
  /\ call[c].pc = "reject"
  /\ key.exists
  /\ logs' = logs \cup {NewLog(c, "limit_exceeded")}
  /\ lock' = Released(c)
  /\ \/ call' = [call EXCEPT ![c] =
          Refused("rejected", call[c], call[c].retry, call[c].seen)]
     \/ Faults /\ call' = [call EXCEPT ![c] = Answer("error")]
  /\ UNCHANGED <<clock, key>>

(* A statement fails, or the client goes away: ROLLBACK.                   *)
Inserting == {"commit", "reject"}
Querying == {"begun", "locked", "over"}

Abort(c) ==
  /\ \/ call[c].pc \in Querying /\ Faults
     \/ call[c].pc \in Inserting /\ (Faults \/ ~key.exists)
  /\ lock' = Released(c)
  /\ call' = [call EXCEPT ![c] = Answer("error")]
  /\ UNCHANGED <<clock, key, logs>>

(* The super user edits the key, or deletes it with its logs (ON DELETE    *)
(* CASCADE).                                                               *)
EditKey ==
  /\ Edits
  /\ key.exists
  /\ \E super \in BOOLEAN, limits \in LimitChoices :
       key' = [exists |-> TRUE, super |-> super, limits |-> limits]
  /\ UNCHANGED <<clock, logs, lock, call>>

DeleteKey ==
  /\ Edits
  /\ key.exists
  /\ key' = [exists |-> FALSE, super |-> key.super, limits |-> key.limits]
  /\ logs' = {}
  /\ UNCHANGED <<clock, lock, call>>

Reserve(c) ==
  \/ ReadKey(c) \/ Begin(c) \/ Lock(c) \/ ReadUsage(c) \/ ReadRetryTime(c)
  \/ CommitAccepted(c) \/ CommitRejected(c) \/ Abort(c)

Next == Pass \/ EditKey \/ DeleteKey \/ \E c \in Calls : Reserve(c)

Spec == Init /\ [][Next]_vars

----------------------------------------------------------------------------
InTransaction == Querying \cup Inserting
Answered == {"accepted", "rejected", "error"}

Handler ==
  {Idle}
    \cup [pc : {"authed"}, super : BOOLEAN, limits : Limits]
    \cup [pc : {"begun", "locked", "commit"}, super : BOOLEAN, limits : Limits, now : Nat]
    \cup [pc : {"over"}, super : BOOLEAN, limits : Limits, now : Nat,
          window : WindowNumbers, used : Nat]
    \cup [pc : {"reject", "rejected"}, super : BOOLEAN, limits : Limits, now : Nat,
          window : WindowNumbers, used : Nat, retry : Nat \cup {Never}, seen : SUBSET Log]
    \cup [pc : {"accepted", "error"}]

TypeOK ==
  /\ clock \in 0..MaxTime
  /\ key \in [exists : BOOLEAN, super : BOOLEAN, limits : LimitChoices]
  /\ logs \subseteq Log
  /\ lock \in Calls \cup {None}
  /\ call \in [Calls -> Handler]
  /\ \A c \in Calls : call[c].pc \in {"reject", "rejected"} =>
       call[c].retry = Never \/ call[c].retry > call[c].now

(* "Checks are serialized per key in the database, so parallel requests    *)
(* cannot overshoot a limit" (README.md): whatever interval of a window's  *)
(* length one looks at, the mails charged in it fit the limit that some    *)
(* request in it was entitled to, although a transaction's now() may be    *)
(* older than rows that committed before it.                               *)
Interval(rows, w, end) ==
  {l \in rows : l.status = "accepted" /\ l.at > end - Windows[w] /\ l.at <= end}

LimitsKept(rows) ==
  \A w \in WindowNumbers : \A end \in 0..MaxTime :
    LET charged == Interval(rows, w, end)
    IN charged # {} =>
         \E l \in charged : l.super \/ l.limits[w] = 0 \/ Total(charged) <= l.limits[w]

(* The past requests were charged by Reserve as well.                      *)
ASSUME PastKeptLimits == \A rows \in History : IsFiniteSet(rows) /\ LimitsKept(rows)

NoOvershoot == LimitsKept(logs)

(* Between a call's usage query and its COMMIT no other limited call       *)
(* charges the key: the decision is not stale when it takes effect.        *)
Decided(c) == call[c].pc \in {"commit", "over", "reject"} /\ ~call[c].super

DecisionIsCurrent ==
  \A c \in Calls : Decided(c) =>
    \A d \in Calls \ {c} : ~Decided(d) /\ lock = c

(* retry_at is the earliest time at which the window that refused the call *)
(* has room for it, judged by the usage the call saw, provided that no     *)
(* call of a super key, which takes no lock, was charged in between.       *)
EarliestFit(rows, now, w, limit, n) ==
  Min({t \in now..(now + MaxTime + Windows[w]) : Fits(limit, Used(rows, t, w), n)})

RetryAtFitsItsWindow ==
  \A c \in Calls :
    call[c].pc = "rejected" /\ (\A l \in call[c].seen : ~l.super) =>
    LET limit == call[c].limits[call[c].window]
    IN call[c].retry =
         IF Mails[c] > limit THEN Never
         ELSE EarliestFit(call[c].seen, call[c].now, call[c].window, limit, Mails[c])

(* The whole request is charged or none of it, and a refused one is not    *)
(* counted: what the key is charged is what its accepted calls asked for.  *)
ChargedOnce ==
  \A c \in Calls :
    /\ call[c].pc \in {"idle", "authed"} \cup InTransaction => \A l \in logs : l.call # c
    /\ call[c].pc = "accepted" /\ key.exists => \E l \in Accepted : l.call = c
    /\ call[c].pc = "rejected" => \A l \in Accepted : l.call # c
    /\ \A l, k \in logs : l.call = c /\ k.call = c => l = k

(* What the documentation says of retry_at: "Earliest time the request     *)
(* will fit, or null if it never will" (internal/web/static/docs,          *)
(* line 203), that is in every window.                                     *)
FitsEverywhere(c, t) ==
  \A w \in WindowNumbers : Fits(call[c].limits[w], Used(call[c].seen, t, w), Mails[c])

RetryAtIsWhenItFits ==
  \A c \in Calls : call[c].pc = "rejected" /\ call[c].retry # Never =>
    FitsEverywhere(c, call[c].retry)
=============================================================================
