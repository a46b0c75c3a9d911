--------------------------- MODULE SendPath_proofs ---------------------------
(***************************************************************************)
(* Proofs about SendPath: it implements Quota, so that what is proved of   *)
(* reservations holds of the requests that make them; and what an answer   *)
(* says of the queue and of the charge is true, whatever fails, whenever   *)
(* the process is killed and however the key is edited meanwhile.          *)
(***************************************************************************)
EXTENDS SendPath, Quota_proofs

----------------------------------------------------------------------------
(* Each step of the send path is a step of Quota, or none.                 *)
LEMMA SendStep ==
  ASSUME [SendNext]_sendVars
  PROVE  [Next]_vars
<1>1. CASE Tick
  BY <1>1 DEF Tick, Next
<1>2. CASE Edit
  BY <1>2 DEF Edit, Next
<1>3. CASE Delete
  BY <1>3 DEF Delete, Next
<1>4. CASE Crash
  BY <1>4 DEF Crash, vars
<1>5. ASSUME NEW c \in Calls, Handle(c) PROVE [Next]_vars
  <2>1. CASE \E route \in Routes[c] : Refuse(c, route) \/ Bar(c, route) \/ Admit(c, route)
    <3>1. ReadKey(c) \/ UNCHANGED vars
      BY <2>1 DEF Refuse, Bar, Admit, vars
    <3> QED
      BY <3>1 DEF Next, Reserve
  <2>2. CASE LogRejected(c) \/ Reserved(c) \/ Submit(c) \/ SubmitBlank(c)
    BY <2>2 DEF LogRejected, Reserved, Submit, SubmitBlank, vars
  <2>3. CASE Query(c) \/ TakeLock(c) \/ EndTx(c)
    BY <2>3 DEF Query, TakeLock, EndTx, Next, Reserve
  <2> QED
    BY <1>5, <2>1, <2>2, <2>3 DEF Handle
<1>6. CASE UNCHANGED sendVars
  BY <1>6 DEF sendVars, vars
<1> QED
  BY <1>1, <1>2, <1>3, <1>4, <1>5, <1>6 DEF SendNext

(* The handlers reserve as module Quota says, and only so: its theorems    *)
(* hold of the send path.                                                  *)
THEOREM SendImplementsQuota == SendSpec => Spec
<1>1. SendInit => Init
  BY DEF SendInit
<1>2. [SendNext]_sendVars => [Next]_vars
  BY SendStep
<1> QED
  BY <1>1, <1>2, PTL DEF SendSpec, Spec

----------------------------------------------------------------------------
(* What a handler's place in the code says of its reservation and its mail.*)
AnsweredOK(c) ==
  IF request[c].code = 202
  THEN /\ call[c].pc = "accepted"
       /\ queue[c] = request[c].count
       /\ queue[c] = Mails[c] \/ (queue[c] = 0 /\ request[c].route = "template")
  ELSE /\ call[c].pc \in {"idle", "rejected", "error"}
       /\ call[c].pc = "error" => request[c].code = Unavailable(request[c].route)
       /\ queue[c] = 0

HandlerOK(c) ==
  /\ queue[c] \in 0..Mails[c]
  /\ request[c].pc \in {"new", "answered", "dead"} \cup Handling
  /\ request[c].pc \in {"new", "logging"} => call[c].pc = "idle" /\ queue[c] = 0
  /\ request[c].pc = "reserving" => call[c].pc # "idle" /\ queue[c] = 0
  /\ request[c].pc = "submitting" => call[c].pc = "accepted" /\ queue[c] < Mails[c]
  /\ request[c].pc = "dead" /\ queue[c] > 0 => call[c].pc = "accepted"
  /\ request[c].pc = "answered" => AnsweredOK(c)
  /\ c \in rejections => request[c].pc = "answered" /\ request[c].code = 403

SInv ==
  /\ request = [c \in Calls |-> request[c]]
  /\ queue = [c \in Calls |-> queue[c]]
  /\ \A c \in Calls : HandlerOK(c)
  /\ \A l \in logs : l.call \in Calls => l.mails = Mails[l.call]

LEMMA SendInitSInv == SendInit => SInv
<1> SUFFICES ASSUME SendInit PROVE SInv
  OBVIOUS
<1>1. /\ call = [c \in Calls |-> Idle]
      /\ \A l \in logs : l.call \notin Calls
  BY QuotaConstants DEF SendInit, Init
<1>2. /\ rejections = {} /\ queue = [c \in Calls |-> 0]
      /\ request = [c \in Calls |-> New]
  BY DEF SendInit
<1>3. ASSUME NEW c \in Calls PROVE HandlerOK(c)
  <2>1. call[c].pc = "idle" /\ request[c].pc = "new" /\ queue[c] = 0
    BY <1>1, <1>2 DEF Idle, New
  <2>2. Mails[c] \in Nat
    BY QuotaConstants
  <2> QED
    BY <1>2, <2>1, <2>2 DEF HandlerOK, Handling
<1> QED
  BY <1>1, <1>2, <1>3 DEF SInv

(* A step of one handler: the others stay as they are.                     *)
LEMMA HandlerStep ==
  ASSUME SInv, NEW c \in Calls,
         request' = [d \in Calls |-> request'[d]],
         queue' = [d \in Calls |-> queue'[d]],
         \A d \in Calls : d # c =>
           /\ request'[d] = request[d] /\ queue'[d] = queue[d] /\ call'[d] = call[d]
           /\ d \in rejections' => d \in rejections,
         HandlerOK(c)',
         \A l \in logs' : l \in logs \/ (l.call = c /\ l.mails = Mails[c])
  PROVE  SInv'
<1>1. ASSUME NEW d \in Calls, d # c PROVE HandlerOK(d)'
  <2>1. /\ request'[d] = request[d] /\ queue'[d] = queue[d] /\ call'[d] = call[d]
        /\ d \in rejections' => d \in rejections
    BY <1>1
  <2> QED
    BY <2>1 DEF SInv, HandlerOK, AnsweredOK
<1>2. \A l \in logs' : l.call \in Calls => l.mails = Mails[l.call]
  BY DEF SInv
<1> QED
  BY <1>1, <1>2 DEF SInv

(* A step that changes nothing but where the handler is.                   *)
LEMMA MoveStep ==
  ASSUME SInv, NEW c \in Calls, NEW r,
         request' = [request EXCEPT ![c] = r],
         UNCHANGED <<logs, call, queue>>,
         rejections' \subseteq rejections \cup {c},
         request'[c] = r => HandlerOK(c)'
  PROVE  SInv'
<1>1. /\ request' = [d \in Calls |-> request'[d]]
      /\ request'[c] = r
      /\ \A d \in Calls : d # c => request'[d] = request[d]
  BY DEF SInv
<1>2. queue' = [d \in Calls |-> queue'[d]]
  BY DEF SInv
<1> QED
  BY <1>1, <1>2, HandlerStep

(* A first answer: nothing has been asked of Quota yet.                    *)
LEMMA RefuseStep ==
  ASSUME SInv, NEW c \in Calls, NEW route, Refuse(c, route)
  PROVE  SInv'
<1>1. PICK code \in Codes :
        /\ IF route = "compose" THEN ComposeRefuses(code) ELSE ApiRefuses(code)
        /\ request' = [request EXCEPT ![c] = Reply(code, route, 0)]
  BY DEF Refuse
<1>2. code # 202
  <2>1. ComposeRefuses(code) => code # 202
    BY DEF ComposeRefuses
  <2>2. ApiRefuses(code) => code # 202
    BY DEF ApiRefuses
  <2> QED
    BY <1>1, <2>1, <2>2
<1> DEFINE r == Reply(code, route, 0)
<1>3. r.pc = "answered" /\ r.code = code
  BY DEF Reply
<1>4. /\ UNCHANGED <<logs, call, queue, rejections>> /\ request[c].pc = "new"
      /\ call[c].pc = "idle" /\ queue[c] = 0 /\ c \notin rejections
      /\ queue[c] \in 0..Mails[c]
  BY DEF Refuse, SInv, HandlerOK
<1>5. request' = [request EXCEPT ![c] = r]
  BY <1>1
<1> HIDE DEF r
<1>6. ASSUME request'[c] = r PROVE HandlerOK(c)'
  BY <1>2, <1>3, <1>4, <1>6 DEF HandlerOK, AnsweredOK, Handling
<1> QED
  BY <1>4, <1>5, <1>6, MoveStep

LEMMA BarStep ==
  ASSUME SInv, NEW c \in Calls, NEW route, Bar(c, route)
  PROVE  SInv'
<1> DEFINE r == At("logging", route)
<1>1. r.pc = "logging"
  BY DEF At
<1>2. /\ UNCHANGED <<logs, call, queue, rejections>> /\ request' = [request EXCEPT ![c] = r]
      /\ call[c].pc = "idle" /\ queue[c] = 0 /\ c \notin rejections
      /\ queue[c] \in 0..Mails[c]
  BY DEF Bar, SInv, HandlerOK
<1> HIDE DEF r
<1>3. ASSUME request'[c] = r PROVE HandlerOK(c)'
  BY <1>1, <1>2, <1>3 DEF HandlerOK, AnsweredOK, Handling
<1> QED
  BY <1>2, <1>3, MoveStep

LEMMA LogRejectedStep ==
  ASSUME SInv, NEW c \in Calls, LogRejected(c)
  PROVE  SInv'
<1> DEFINE r == Reply(403, request[c].route, 0)
<1>1. r.pc = "answered" /\ r.code = 403
  BY DEF Reply
<1>2. /\ UNCHANGED <<logs, call, queue>> /\ request' = [request EXCEPT ![c] = r]
      /\ rejections' \subseteq rejections \cup {c}
      /\ call[c].pc = "idle" /\ queue[c] = 0
      /\ queue[c] \in 0..Mails[c]
  BY DEF LogRejected, SInv, HandlerOK
<1> HIDE DEF r
<1>3. ASSUME request'[c] = r PROVE HandlerOK(c)'
  BY <1>1, <1>2, <1>3 DEF HandlerOK, AnsweredOK, Handling
<1> QED
  BY <1>2, <1>3, MoveStep

(* The answer of Reserve decides where the handler goes.                   *)
LEMMA ReservedStep ==
  ASSUME SInv, NEW c \in Calls, Reserved(c)
  PROVE  SInv'
<1> DEFINE route == request[c].route
<1>1. /\ UNCHANGED <<logs, call, queue, rejections>>
      /\ request' = [request EXCEPT ![c] = AfterReserve(c, route)]
      /\ call[c].pc \in Answered /\ queue[c] = 0 /\ c \notin rejections
      /\ Mails[c] \in Nat \ {0}
  BY QuotaConstants DEF Reserved, SInv, HandlerOK
<1> DEFINE r == AfterReserve(c, route)
<1>2. \/ call[c].pc = "accepted" /\ r = At("submitting", route)
      \/ call[c].pc = "rejected" /\ r = Reply(429, route, 0)
      \/ call[c].pc = "error" /\ r = Reply(Unavailable(route), route, 0)
  BY <1>1 DEF AfterReserve, Answered
<1>3. \/ call[c].pc = "accepted" /\ r.pc = "submitting"
      \/ call[c].pc = "rejected" /\ r.pc = "answered" /\ r.code = 429
      \/ /\ call[c].pc = "error" /\ r.pc = "answered" /\ r.route = route
         /\ r.code = Unavailable(route) /\ r.code # 202
  BY <1>2 DEF At, Reply, Unavailable
<1>4. request' = [request EXCEPT ![c] = r]
  BY <1>1
<1> HIDE DEF r, route
<1>5. ASSUME request'[c] = r PROVE HandlerOK(c)'
  BY <1>1, <1>3, <1>5 DEF HandlerOK, AnsweredOK, Handling
<1> QED
  BY <1>1, <1>4, <1>5, MoveStep

LEMMA SubmitBlankStep ==
  ASSUME SInv, NEW c \in Calls, SubmitBlank(c)
  PROVE  SInv'
<1> DEFINE r == Reply(202, request[c].route, 0)
<1>1. /\ r.pc = "answered" /\ r.code = 202 /\ r.route = request[c].route /\ r.count = 0
  BY DEF Reply
<1>2. /\ UNCHANGED <<logs, call, queue, rejections>> /\ request' = [request EXCEPT ![c] = r]
      /\ call[c].pc = "accepted" /\ queue[c] = 0 /\ c \notin rejections
      /\ request[c].route = "template" /\ queue[c] \in 0..Mails[c]
  BY DEF SubmitBlank, SInv, HandlerOK, Handling
<1> HIDE DEF r
<1>3. ASSUME request'[c] = r PROVE HandlerOK(c)'
  BY <1>1, <1>2, <1>3 DEF HandlerOK, AnsweredOK, Handling
<1> QED
  BY <1>2, <1>3, MoveStep

LEMMA SubmitStep ==
  ASSUME SInv, NEW c \in Calls, Submit(c)
  PROVE  SInv'
<1>1. /\ UNCHANGED <<logs, call, rejections>>
      /\ call[c].pc = "accepted" /\ c \notin rejections
      /\ request[c].pc = "submitting"
      /\ Mails[c] \in Nat /\ queue[c] \in Nat /\ queue[c] < Mails[c]
  BY QuotaConstants DEF Submit, SInv, HandlerOK, Handling
<1>2. /\ queue' = [d \in Calls |-> queue'[d]] /\ queue'[c] = queue[c] + 1
      /\ \A d \in Calls : d # c => queue'[d] = queue[d]
  BY DEF Submit, SInv
<1> DEFINE r == Reply(202, request[c].route, Mails[c])
<1>3. r.pc = "answered" /\ r.code = 202 /\ r.count = Mails[c]
  BY DEF Reply
<1>4. \/ queue[c] + 1 = Mails[c] /\ request' = [request EXCEPT ![c] = r]
      \/ queue[c] + 1 # Mails[c] /\ request' = request
  BY DEF Submit
<1> HIDE DEF r
<1>5. /\ request' = [d \in Calls |-> request'[d]]
      /\ \A d \in Calls : d # c => request'[d] = request[d]
      /\ \/ queue[c] + 1 = Mails[c] /\ request'[c] = r
         \/ queue[c] + 1 # Mails[c] /\ request'[c] = request[c]
  BY <1>4 DEF SInv
<1>6. HandlerOK(c)'
  BY <1>1, <1>2, <1>3, <1>5 DEF HandlerOK, AnsweredOK, Handling
<1> QED
  BY <1>1, <1>2, <1>5, <1>6, HandlerStep

----------------------------------------------------------------------------
(* Steps of the reservation.                                               *)
LEMMA AdmitStep ==
  ASSUME SInv, IInv, NEW c \in Calls, NEW route, Admit(c, route)
  PROVE  SInv'
<1> DEFINE s == Authed(key.super, key.limits)
           r == At("reserving", route)
<1>1. s.pc = "authed" /\ r.pc = "reserving"
  BY DEF Authed, At
<1>2. /\ UNCHANGED <<logs, queue, rejections>>
      /\ request' = [request EXCEPT ![c] = r] /\ call' = [call EXCEPT ![c] = s]
      /\ queue[c] = 0 /\ queue[c] \in 0..Mails[c] /\ c \notin rejections
  BY DEF Admit, ReadKey, SInv, HandlerOK
<1> HIDE DEF r, s
<1>3. /\ request' = [d \in Calls |-> request'[d]] /\ request'[c] = r
      /\ \A d \in Calls : d # c => request'[d] = request[d]
  BY <1>2 DEF SInv
<1>4. call'[c] = s /\ \A d \in Calls : d # c => call'[d] = call[d]
  BY <1>2 DEF IInv, Fields
<1>5. queue' = [d \in Calls |-> queue'[d]]
  BY <1>2 DEF SInv
<1>6. HandlerOK(c)'
  BY <1>1, <1>2, <1>3, <1>4 DEF HandlerOK, Handling
<1> QED
  BY <1>2, <1>3, <1>4, <1>5, <1>6, HandlerStep

LEMMA TxStep ==
  ASSUME SInv, IInv, NEW c \in Calls,
         request[c].pc \in {"reserving", "dead"},
         call[c].pc \in Open,
         \E s : s.pc # "idle" /\ call' = [call EXCEPT ![c] = s],
         UNCHANGED <<rejections, queue, request>>,
         \A l \in logs' : l \in logs \/ (l.call = c /\ l.mails = Mails[c])
  PROVE  SInv'
<1>1. call'[c].pc # "idle" /\ \A d \in Calls : d # c => call'[d] = call[d]
  BY DEF IInv, Fields
<1>2. HandlerOK(c)'
  <2>1. HandlerOK(c) /\ call[c].pc # "accepted"
    BY DEF SInv, Open, InTransaction, Querying, Inserting
  <2> QED
    BY <1>1, <2>1 DEF HandlerOK, Handling
<1>3. request' = [d \in Calls |-> request'[d]] /\ queue' = [d \in Calls |-> queue'[d]]
  BY DEF SInv
<1> QED
  BY <1>1, <1>2, <1>3, HandlerStep

LEMMA QueryStep ==
  ASSUME SInv, IInv, NEW c \in Calls, Query(c)
  PROVE  SInv'
<1>1. \E s : s.pc # "idle" /\ call' = [call EXCEPT ![c] = s]
  <2>1. CASE Begin(c)
    BY <2>1 DEF Begin, Tx
  <2>2. CASE ReadUsage(c)
    BY <2>2 DEF ReadUsage, Tx, Over
  <2>3. CASE ReadRetryTime(c)
    <3> DEFINE w == call[c].window
               limit == call[c].limits[w]
               retry == IF Mails[c] > limit THEN Never
                        ELSE RetryTime(Accepted, call[c].now, w, call[c].used + Mails[c] - limit)
    <3>1. call' = [call EXCEPT ![c] = Refused("reject", call[c], retry, Accepted)]
      BY <2>3 DEF ReadRetryTime
    <3> HIDE DEF retry
    <3>2. Refused("reject", call[c], retry, Accepted).pc = "reject"
      BY DEF Refused
    <3> QED
      BY <3>1, <3>2
  <2> QED
    BY <2>1, <2>2, <2>3 DEF Query
<1>2. /\ call[c].pc \in Open /\ request[c].pc = "reserving"
      /\ UNCHANGED <<logs, rejections, queue, request>>
  BY DEF Query, Begin, ReadUsage, ReadRetryTime, Open, InTransaction, Querying
<1> QED
  BY <1>1, <1>2, TxStep

LEMMA TakeLockStep ==
  ASSUME SInv, IInv, NEW c \in Calls, TakeLock(c)
  PROVE  SInv'
<1>1. \E s : s.pc # "idle" /\ call' = [call EXCEPT ![c] = s]
  BY DEF TakeLock, Lock, Tx
<1>2. /\ call[c].pc \in Open /\ request[c].pc \in {"reserving", "dead"}
      /\ UNCHANGED <<logs, rejections, queue, request>>
  BY DEF TakeLock, Lock, Open, InTransaction, Querying
<1> QED
  BY <1>1, <1>2, TxStep

LEMMA EndTxStep ==
  ASSUME SInv, IInv, NEW c \in Calls, EndTx(c)
  PROVE  SInv'
<1>1. \E s : s.pc # "idle" /\ call' = [call EXCEPT ![c] = s]
  <2>1. CASE CommitAccepted(c) \/ Abort(c)
    <3>1. Answer("accepted").pc # "idle" /\ Answer("error").pc # "idle"
      BY DEF Answer
    <3> QED
      BY <2>1, <3>1 DEF CommitAccepted, Abort
  <2>2. CASE CommitRejected(c)
    <3>1. /\ Refused("rejected", call[c], call[c].retry, call[c].seen).pc # "idle"
          /\ Answer("error").pc # "idle"
      BY DEF Answer, Refused
    <3> QED
      BY <2>2, <3>1 DEF CommitRejected
  <2> QED
    BY <2>1, <2>2 DEF EndTx
<1>2. /\ call[c].pc \in Open /\ request[c].pc \in {"reserving", "dead"}
      /\ UNCHANGED <<rejections, queue, request>>
  BY DEF EndTx, CommitAccepted, CommitRejected, Abort, Open, InTransaction, Querying, Inserting
<1>3. \A l \in logs' : l \in logs \/ (l.call = c /\ l.mails = Mails[c])
  BY DEF EndTx, CommitAccepted, CommitRejected, Abort, NewLog
<1> QED
  BY <1>1, <1>2, <1>3, TxStep

----------------------------------------------------------------------------
(* Steps of the others.                                                    *)
LEMMA CrashStep ==
  ASSUME SInv, Crash
  PROVE  SInv'
<1>1. /\ UNCHANGED <<logs, call, rejections, queue>>
      /\ request' = [c \in Calls |-> request'[c]]
      /\ queue' = [c \in Calls |-> queue'[c]]
  BY DEF Crash, SInv
<1>2. ASSUME NEW c \in Calls PROVE HandlerOK(c)'
  <2>1. \/ request'[c] = request[c]
        \/ request[c].pc \in Handling /\ request'[c] = Dead
    BY DEF Crash
  <2>2. Dead.pc = "dead"
    BY DEF Dead
  <2>3. HandlerOK(c)
    BY DEF SInv
  <2>4. CASE request'[c] = request[c]
    BY <1>1, <2>3, <2>4 DEF HandlerOK, AnsweredOK
  <2>5. CASE request[c].pc \in Handling /\ request'[c] = Dead
    BY <1>1, <2>2, <2>3, <2>5 DEF HandlerOK, Handling
  <2> QED
    BY <2>1, <2>4, <2>5
<1> QED
  BY <1>1, <1>2 DEF SInv

LEMMA OtherStep ==
  ASSUME SInv, UNCHANGED <<call, queue, request>>,
         rejections' \subseteq rejections, logs' \subseteq logs
  PROVE  SInv'
<1>1. ASSUME NEW c \in Calls PROVE HandlerOK(c)'
  BY DEF SInv, HandlerOK, AnsweredOK
<1> QED
  BY <1>1 DEF SInv

LEMMA NextSInv ==
  ASSUME SInv, IInv, [SendNext]_sendVars
  PROVE  SInv'
<1>1. CASE Tick \/ Edit \/ Delete \/ UNCHANGED sendVars
  BY <1>1, OtherStep DEF Tick, Pass, Edit, EditKey, Delete, DeleteKey, sendVars
<1>2. ASSUME NEW c \in Calls, Handle(c) PROVE SInv'
  BY <1>2, RefuseStep, BarStep, AdmitStep, LogRejectedStep, QueryStep, TakeLockStep,
     EndTxStep, ReservedStep, SubmitStep, SubmitBlankStep DEF Handle
<1> QED
  BY <1>1, <1>2, CrashStep DEF SendNext

THEOREM SendInvariance == SendSpec => [](IInv /\ SInv)
<1>1. SendInit => IInv /\ SInv
  BY SendInitSInv, InitIInv DEF SendInit
<1>2. IInv /\ SInv /\ [SendNext]_sendVars => IInv' /\ SInv'
  BY NextSInv, SendStep, NextIInv
<1> QED
  BY <1>1, <1>2, PTL DEF SendSpec

----------------------------------------------------------------------------
(* Mail in the queue was charged, in full, by the call that queued it.     *)
THEOREM QueuedIsChargedTheorem == SendSpec => []QueuedIsCharged
<1>1. IInv /\ SInv => QueuedIsCharged
  <2> SUFFICES ASSUME IInv, SInv, NEW c \in Calls, queue[c] > 0, key.exists
               PROVE  \E l \in Accepted : l.call = c /\ l.mails >= queue[c]
    BY DEF QueuedIsCharged
  <2>1. HandlerOK(c) /\ queue[c] \in 0..Mails[c] /\ Mails[c] \in Nat
    BY QuotaConstants DEF SInv, HandlerOK
  <2>2. call[c].pc = "accepted"
    BY <2>1 DEF HandlerOK, AnsweredOK, Handling
  <2>3. PICK l \in Accepted : l.call = c
    BY <2>2 DEF IInv, ChargedOnce
  <2>4. l.mails = Mails[c]
    BY <2>3 DEF SInv, Accepted
  <2> QED
    BY <2>1, <2>3, <2>4
<1> QED
  BY <1>1, SendInvariance, PTL

(* Quota is spent without mail only when the process was killed, the       *)
(* answer to COMMIT was lost or the template rendered to nothing.          *)
THEOREM ChargeIsAccountedTheorem == SendSpec => []ChargeIsAccounted
<1>1. IInv /\ SInv => ChargeIsAccounted
  <2> SUFFICES ASSUME IInv, SInv, NEW c \in Calls, Charged(c), queue[c] < Mails[c]
               PROVE  \/ request[c].pc \in {"reserving", "submitting", "dead"}
                      \/ call[c].pc = "error" /\ Answers(c, Unavailable(request[c].route))
                      \/ /\ Answers(c, 202) /\ request[c].route = "template"
                         /\ request[c].count = 0
    BY DEF ChargeIsAccounted
  <2>1. HandlerOK(c) /\ queue[c] \in 0..Mails[c] /\ Mails[c] \in Nat
    BY QuotaConstants DEF SInv, HandlerOK
  <2>2. call[c].pc # "idle" /\ call[c].pc # "rejected"
    BY DEF IInv, ChargedOnce, Charged, Accepted
  <2> QED
    BY <2>1, <2>2 DEF HandlerOK, AnsweredOK, Answers, Handling
<1> QED
  BY <1>1, SendInvariance, PTL

(* 202 counts what is queued and charged; any other answer means that      *)
(* nothing is queued, and nothing charged unless the charge itself failed. *)
THEOREM AnswerIsTrueTheorem == SendSpec => []AnswerIsTrue
<1>1. IInv /\ SInv => AnswerIsTrue
  <2> SUFFICES ASSUME IInv, SInv, NEW c \in Calls, request[c].pc = "answered"
               PROVE  IF request[c].code = 202
                      THEN queue[c] = request[c].count /\ (key.exists => Charged(c))
                      ELSE /\ queue[c] = 0
                           /\ call[c].pc # "error" => ~Charged(c)
                           /\ c \in rejections => request[c].code = 403
    BY DEF AnswerIsTrue
  <2>1. HandlerOK(c) /\ AnsweredOK(c)
    BY DEF SInv, HandlerOK
  <2>2. /\ call[c].pc = "accepted" /\ key.exists => Charged(c)
        /\ call[c].pc \in {"idle", "rejected"} => ~Charged(c)
    BY DEF IInv, ChargedOnce, Charged, Accepted
  <2> QED
    BY <2>1, <2>2 DEF HandlerOK, AnsweredOK
<1> QED
  BY <1>1, SendInvariance, PTL
----------------------------------------------------------------------------
(* What the handlers' records, the queue and the gate may hold.            *)
RequestOK(c) ==
  \/ request[c] \in {New, Dead}
  \/ \E route \in Routes[c] :
       \/ \E pc \in Handling : request[c] = At(pc, route)
       \/ \E code \in Codes, n \in {0, Mails[c]} : request[c] = Reply(code, route, n)

SendTypes ==
  /\ gate \in [active : BOOLEAN, allows : BOOLEAN, smtp : BOOLEAN]
  /\ rejections \subseteq Calls
  /\ queue \in [Calls -> Nat]
  /\ \A c \in Calls : RequestOK(c)

LEMMA RequestShape ==
  ASSUME NEW c \in Calls, RequestOK(c), request[c].pc \in Handling
  PROVE  request[c].route \in Routes[c]
<1>1. request[c] # New /\ request[c] # Dead
  BY DEF New, Dead, Handling
<1>2. PICK route \in Routes[c] :
        \/ \E pc \in Handling : request[c] = At(pc, route)
        \/ \E code \in Codes, n \in {0, Mails[c]} : request[c] = Reply(code, route, n)
  BY <1>1 DEF RequestOK
<1>3. request[c].route = route
  <2>1. ASSUME NEW pc PROVE At(pc, route).route = route
    BY DEF At
  <2>2. ASSUME NEW code, NEW n PROVE Reply(code, route, n).route = route
    BY DEF Reply
  <2> QED
    BY <1>2, <2>1, <2>2
<1> QED
  BY <1>3

(* A step that moves one handler.                                          *)
LEMMA MoveType ==
  ASSUME SInv, SendTypes, NEW c \in Calls, NEW r, NEW route \in Routes[c],
         \/ \E pc \in Handling : r = At(pc, route)
         \/ \E code \in Codes, n \in {0, Mails[c]} : r = Reply(code, route, n),
         request' = [request EXCEPT ![c] = r] \/ request' = request,
         gate' = gate, rejections' \subseteq Calls, queue' \in [Calls -> Nat]
  PROVE  SendTypes'
<1>1. ASSUME NEW d \in Calls PROVE RequestOK(d)'
  <2>1. CASE request'[d] = request[d]
    BY <2>1 DEF SendTypes, RequestOK
  <2>2. CASE d = c /\ request'[d] = r
    BY <2>2 DEF RequestOK
  <2>3. request'[d] = request[d] \/ (d = c /\ request'[d] = r)
    BY DEF SInv
  <2> QED
    BY <2>1, <2>2, <2>3
<1> QED
  BY <1>1 DEF SendTypes

LEMMA SendInitTypes == SendInit => SendTypes
<1> SUFFICES ASSUME SendInit PROVE SendTypes
  OBVIOUS
<1>1. PICK row \in KeyChoices : gate = GateOf(row)
  BY DEF SendInit
<1>2. gate \in [active : BOOLEAN, allows : BOOLEAN, smtp : BOOLEAN]
  <2>1. row \in KeyRow
    BY SendPathConstants
  <2> QED
    BY <1>1, <2>1 DEF GateOf, KeyRow
<1>3. \A c \in Calls : request[c] = New
  BY DEF SendInit
<1> QED
  BY <1>2, <1>3 DEF SendInit, SendTypes, RequestOK

LEMMA NextSendTypes ==
  ASSUME SInv, SendTypes, [SendNext]_sendVars
  PROVE  SendTypes'
<1>1. CASE Tick \/ UNCHANGED sendVars
  BY <1>1 DEF Tick, sendVars, SendTypes, RequestOK
<1>2. CASE Edit
  <2>1. PICK row \in KeyChoices : gate' = GateOf(row)
    BY <1>2 DEF Edit
  <2>2. row \in KeyRow
    BY SendPathConstants
  <2>3. gate' \in [active : BOOLEAN, allows : BOOLEAN, smtp : BOOLEAN]
    BY <2>1, <2>2 DEF GateOf, KeyRow
  <2> QED
    BY <1>2, <2>3 DEF Edit, SendTypes, RequestOK
<1>3. CASE Delete
  BY <1>3 DEF Delete, SendTypes, RequestOK
<1>4. CASE Crash
  <2>1. \A c \in Calls : request'[c] = request[c] \/ request'[c] = Dead
    BY <1>4 DEF Crash
  <2> QED
    BY <1>4, <2>1 DEF Crash, SendTypes, RequestOK
<1>5. ASSUME NEW c \in Calls, NEW route \in Routes[c],
             Refuse(c, route) \/ Bar(c, route) \/ Admit(c, route)
      PROVE  SendTypes'
  <2>1. /\ UNCHANGED <<gate, rejections, queue>>
        /\ rejections' \subseteq Calls /\ queue' \in [Calls -> Nat]
    BY <1>5 DEF Refuse, Bar, Admit, SendTypes
  <2>2. PICK r : /\ request' = [request EXCEPT ![c] = r]
                 /\ \/ \E pc \in Handling : r = At(pc, route)
                    \/ \E code \in Codes, n \in {0, Mails[c]} : r = Reply(code, route, n)
    BY <1>5 DEF Refuse, Bar, Admit, Handling
  <2> QED
    BY <2>1, <2>2, MoveType
<1>6. ASSUME NEW c \in Calls, LogRejected(c) \/ Reserved(c) \/ Submit(c) \/ SubmitBlank(c)
      PROVE  SendTypes'
  <2> DEFINE route == request[c].route
  <2>1. route \in Routes[c]
    BY <1>6, RequestShape DEF LogRejected, Reserved, Submit, SubmitBlank, SendTypes, Handling
  <2>2. /\ gate' = gate /\ rejections' \subseteq Calls
        /\ queue' \in [Calls -> Nat]
    BY <1>6 DEF LogRejected, Reserved, Submit, SubmitBlank, SendTypes
  <2>3. PICK r : /\ request' = [request EXCEPT ![c] = r] \/ request' = request
                 /\ \/ \E pc \in Handling : r = At(pc, route)
                    \/ \E code \in Codes, n \in {0, Mails[c]} : r = Reply(code, route, n)
    <3>1. CASE LogRejected(c)
      <4>1. request' = [request EXCEPT ![c] = Reply(403, route, 0)] /\ 403 \in Codes
        BY <3>1 DEF LogRejected, Codes
      <4> HIDE DEF route
      <4> QED
        BY <4>1
    <3>2. CASE Reserved(c)
      <4>1. request' = [request EXCEPT ![c] = AfterReserve(c, route)]
        BY <3>2 DEF Reserved
      <4>2. \/ AfterReserve(c, route) = At("submitting", route)
            \/ AfterReserve(c, route) = Reply(429, route, 0)
            \/ AfterReserve(c, route) = Reply(Unavailable(route), route, 0)
        <5>1. call[c].pc \in Answered
          BY <3>2 DEF Reserved
        <5> QED
          BY <5>1 DEF Answered, AfterReserve
      <4>3. Unavailable(route) \in Codes /\ 429 \in Codes /\ "submitting" \in Handling
        BY DEF Unavailable, Codes, Handling
      <4> HIDE DEF route
      <4> QED
        BY <4>1, <4>2, <4>3
    <3>3. CASE Submit(c) \/ SubmitBlank(c)
      BY <3>3 DEF Submit, SubmitBlank, Codes
    <3> QED
      BY <1>6, <3>1, <3>2, <3>3
  <2> HIDE DEF route
  <2> QED
    BY <2>1, <2>2, <2>3, MoveType
<1>7. ASSUME NEW c \in Calls, Query(c) \/ TakeLock(c) \/ EndTx(c) PROVE SendTypes'
  BY <1>7 DEF Query, TakeLock, EndTx, SendTypes, RequestOK
<1> QED
  BY <1>1, <1>2, <1>3, <1>4, <1>5, <1>6, <1>7 DEF SendNext, Handle

(* Handlers, queue and gate are always of their type, and the queue never  *)
(* holds more of a call's mails than it asked for.                         *)
THEOREM SendTypeCorrect == SendSpec => []SendTypeOK
<1>1. SendInit => SendTypes /\ IInv /\ UInv /\ SInv
  BY SendInitTypes, SendInitSInv, InitIInv, InitUInv DEF SendInit
<1>2. /\ SendTypes /\ IInv /\ UInv /\ SInv /\ [SendNext]_sendVars
      => SendTypes' /\ IInv' /\ UInv' /\ SInv'
  BY NextSendTypes, NextSInv, SendStep, NextIInv, NextUInv
<1>3. SendTypes /\ UInv /\ SInv => SendTypeOK
  <2> SUFFICES ASSUME SendTypes, UInv, SInv PROVE SendTypeOK
    OBVIOUS
  <2>1. \A c \in Calls : queue[c] <= Mails[c]
    <3> TAKE c \in Calls
    <3>1. queue[c] \in 0..Mails[c] /\ Mails[c] \in Nat
      BY QuotaConstants DEF SInv, HandlerOK
    <3> QED
      BY <3>1
  <2> QED
    BY <2>1 DEF SendTypes, RequestOK, SendTypeOK, UInv
<1> QED
  BY <1>1, <1>2, <1>3, PTL DEF SendSpec

(* Reservations in the send path keep the limits, whoever is killed and    *)
(* whatever is edited: what is proved of Quota, carried over.              *)
THEOREM SendKeepsLimits == SendSpec => [](NoOvershoot /\ RetryAtFitsItsWindow)
BY SendImplementsQuota, NoOvershootTheorem, RetryAtTheorem, PTL
=============================================================================
