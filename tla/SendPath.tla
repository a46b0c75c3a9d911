------------------------------ MODULE SendPath ------------------------------
(***************************************************************************)
(* From a request for mail to its answer: the API key middleware           *)
(* (internal/auth/apikey.go), the handlers of /send, /send/bulk and        *)
(* /send/template (internal/routes/routes.go) and compose                  *)
(* (internal/admin/compose.go) around the reservations of module Quota.    *)
(*                                                                         *)
(* A handler decides by the copy of the key it read first; the key may be  *)
(* edited, disabled or deleted, and the process killed, at any later step. *)
(* PostgreSQL ends the transactions of a killed process one by one, when   *)
(* it notices: until then they hold their locks.                           *)
(***************************************************************************)
EXTENDS Quota

CONSTANTS
  Routes,       \* Routes[c]: the endpoints call c may be sent to
  KeyChoices    \* the rows an edit may give the key

ApiRoutes == {"send", "bulk", "template"}

(* allows: the allow list has the clients' address; smtp: SMTPConfig can   *)
(* open the key's SMTP password.                                           *)
KeyRow == [super : BOOLEAN, limits : LimitChoices, active : BOOLEAN, allows : BOOLEAN,
           smtp : BOOLEAN]

ASSUME SendPathConstants ==
  /\ Routes \in [Calls -> SUBSET (ApiRoutes \cup {"compose"})]
  /\ \A c \in Calls : "send" \in Routes[c] => Mails[c] = 1
  /\ KeyChoices \subseteq KeyRow

VARIABLES
  gate,        \* the rest of the key's row: active, allows, smtp
  rejections,  \* rows the middleware logged: the calls it refused
  queue,       \* queue[c]: mails of c put into MailService.queue
  request      \* the handlers, from the first read to the answer

sendVars == <<clock, key, logs, lock, call, gate, rejections, queue, request>>

New == [pc |-> "new"]
At(pc, route) == [pc |-> pc, route |-> route]
Reply(code, route, n) == [pc |-> "answered", code |-> code, route |-> route, count |-> n]
Dead == [pc |-> "dead"]

Codes == {202, 400, 401, 403, 404, 405, 409, 429, 500, 503}

GateOf(row) == [active |-> row.active, allows |-> row.allows, smtp |-> row.smtp]

SendInit ==
  /\ Init
  /\ \E row \in KeyChoices :
       /\ key = [exists |-> TRUE, super |-> row.super, limits |-> row.limits]
       /\ gate = GateOf(row)
  /\ rejections = {}
  /\ queue = [c \in Calls |-> 0]
  /\ request = [c \in Calls |-> New]

----------------------------------------------------------------------------
(* A disabled key, or one used from elsewhere, gets no further than the    *)
(* middleware.                                                             *)
Barred == ~gate.active \/ ~(key.super \/ gate.allows)

(* What the first answers find wrong with the request or with the key just *)
(* read, in the order the code looks: the method and the body after the key*)
(* in the API, the body before it in compose, which never looks at the     *)
(* allow list.                                                             *)
Unavailable(route) == IF route = "compose" THEN 500 ELSE 503

ApiRefuses(code) ==
  \/ code = 503 /\ Faults
  \/ code = 401 /\ ~key.exists
  \/ code \in {400, 405} /\ key.exists /\ ~Barred
  \/ code = 500 /\ key.exists /\ ~Barred /\ ~gate.smtp

ComposeRefuses(code) ==
  \/ code = 400
  \/ code = 404 /\ ~key.exists
  \/ code = 409 /\ key.exists /\ ~gate.active
  \/ code = 500 /\ (Faults \/ (key.exists /\ gate.active /\ ~gate.smtp))

Refuse(c, route) ==
  /\ request[c].pc = "new"
  /\ \E code \in Codes :
       /\ IF route = "compose" THEN ComposeRefuses(code) ELSE ApiRefuses(code)
       /\ request' = [request EXCEPT ![c] = Reply(code, route, 0)]
  /\ UNCHANGED <<clock, key, logs, lock, call, gate, rejections, queue>>

Bar(c, route) ==
  /\ request[c].pc = "new"
  /\ route # "compose" /\ key.exists /\ Barred
  /\ request' = [request EXCEPT ![c] = At("logging", route)]
  /\ UNCHANGED <<clock, key, logs, lock, call, gate, rejections, queue>>

(* logRejected: its failure is only logged; a deleted key fails the insert.*)
LogRejected(c) ==
  /\ request[c].pc = "logging"
  /\ \/ key.exists /\ rejections' = rejections \cup {c}
     \/ (~key.exists \/ Faults) /\ rejections' = rejections
  /\ request' = [request EXCEPT ![c] = Reply(403, request[c].route, 0)]
  /\ UNCHANGED <<clock, key, logs, lock, call, gate, queue>>

(* Every check passes on the copy that Reserve will use.                   *)
Admit(c, route) ==
  /\ request[c].pc = "new"
  /\ gate.active /\ gate.smtp
  /\ route = "compose" \/ ~Barred
  /\ ReadKey(c)
  /\ request' = [request EXCEPT ![c] = At("reserving", route)]
  /\ UNCHANGED <<gate, rejections, queue>>

----------------------------------------------------------------------------
(* Reserve. A killed handler sends no other statement, but the one under   *)
(* way goes on, and then its transaction ends: rolled back, unless COMMIT  *)
(* had been sent.                                                          *)
Query(c) ==
  /\ request[c].pc = "reserving"
  /\ Begin(c) \/ ReadUsage(c) \/ ReadRetryTime(c)
  /\ UNCHANGED <<gate, rejections, queue, request>>

TakeLock(c) ==
  /\ request[c].pc \in {"reserving", "dead"}
  /\ Lock(c)
  /\ UNCHANGED <<gate, rejections, queue, request>>

EndTx(c) ==
  /\ request[c].pc \in {"reserving", "dead"}
  /\ CommitAccepted(c) \/ CommitRejected(c) \/ Abort(c)
  /\ UNCHANGED <<gate, rejections, queue, request>>

(* What the handler makes of Reserve's answer. Mutants: it goes on when    *)
(* the check failed; it reads the SMTP settings only now.                  *)
AfterReserveFailingOpen(c, route) ==
  IF call[c].pc = "rejected" THEN Reply(429, route, 0) ELSE At("submitting", route)
AfterReserveReadingConfig(c, route) ==
  CASE call[c].pc = "accepted" ->
         IF gate.smtp THEN At("submitting", route) ELSE Reply(500, route, 0)
    [] call[c].pc = "rejected" -> Reply(429, route, 0)
    [] call[c].pc = "error" -> Reply(Unavailable(route), route, 0)
AfterReserve(c, route) ==
  CASE call[c].pc = "accepted" -> At("submitting", route)
    [] call[c].pc = "rejected" -> Reply(429, route, 0)
    [] call[c].pc = "error" -> Reply(Unavailable(route), route, 0)

Reserved(c) ==
  /\ request[c].pc = "reserving"
  /\ call[c].pc \in Answered
  /\ request' = [request EXCEPT ![c] = AfterReserve(c, request[c].route)]
  /\ UNCHANGED <<clock, key, logs, lock, call, gate, rejections, queue>>

(* Submit's loop: one mail after the other enters the queue, which may be  *)
(* full for long. The last one brings the answer with the number queued.   *)
(* Mutants: a full queue drops the mail, and the answer counts recipients; *)
(* the loop ends one round late.                                           *)
SubmitDropping(c) ==
  /\ request[c].pc = "submitting"
  /\ \E n \in queue[c]..Mails[c] :
       /\ queue' = [queue EXCEPT ![c] = n]
       /\ request' = [request EXCEPT ![c] = Reply(202, request[c].route, Mails[c])]
  /\ UNCHANGED <<clock, key, logs, lock, call, gate, rejections>>
SubmitOneMore(c) ==
  /\ request[c].pc = "submitting"
  /\ queue' = [queue EXCEPT ![c] = queue[c] + 1]
  /\ request' = IF queue[c] = Mails[c]
                THEN [request EXCEPT ![c] = Reply(202, request[c].route, Mails[c])]
                ELSE request
  /\ UNCHANGED <<clock, key, logs, lock, call, gate, rejections>>
Submit(c) ==
  /\ request[c].pc = "submitting"
  /\ queue' = [queue EXCEPT ![c] = queue[c] + 1]
  /\ request' = IF queue[c] + 1 = Mails[c]
                THEN [request EXCEPT ![c] = Reply(202, request[c].route, Mails[c])]
                ELSE request
  /\ UNCHANGED <<clock, key, logs, lock, call, gate, rejections>>

(* A template whose placeholders all have empty values renders to a blank  *)
(* body, which Submit refuses; the handler logs that and answers 202.      *)
SubmitBlank(c) ==
  /\ request[c].pc = "submitting"
  /\ request[c].route = "template"
  /\ queue[c] = 0
  /\ request' = [request EXCEPT ![c] = Reply(202, request[c].route, 0)]
  /\ UNCHANGED <<clock, key, logs, lock, call, gate, rejections, queue>>

----------------------------------------------------------------------------
(* The service is killed and started again: its handlers are gone, and     *)
(* with them the queue.                                                    *)
Handling == {"logging", "reserving", "submitting"}

Crash ==
  /\ Faults
  /\ request' = [c \in Calls |-> IF request[c].pc \in Handling THEN Dead ELSE request[c]]
  /\ UNCHANGED <<clock, key, logs, lock, call, gate, rejections, queue>>

(* UpdateKey and SetKeyActive write the row in one statement; DeleteKey    *)
(* takes the logs of the key with it.                                      *)
Edit ==
  /\ EditKey
  /\ \E row \in KeyChoices :
       /\ key' = [exists |-> TRUE, super |-> row.super, limits |-> row.limits]
       /\ gate' = GateOf(row)
  /\ UNCHANGED <<rejections, queue, request>>

Delete ==
  /\ DeleteKey
  /\ rejections' = {}
  /\ UNCHANGED <<gate, queue, request>>

Tick == Pass /\ UNCHANGED <<gate, rejections, queue, request>>

Handle(c) ==
  \/ \E route \in Routes[c] : Refuse(c, route) \/ Bar(c, route) \/ Admit(c, route)
  \/ LogRejected(c) \/ Query(c) \/ TakeLock(c) \/ EndTx(c) \/ Reserved(c)
  \/ Submit(c) \/ SubmitBlank(c)

SendNext == Tick \/ Edit \/ Delete \/ Crash \/ \E c \in Calls : Handle(c)

SendSpec == SendInit /\ [][SendNext]_sendVars

(* A running handler goes on; statements end, a free lock goes to its      *)
(* waiters in turn, room comes in the queue (PendingSettles of             *)
(* MailDelivery), and PostgreSQL notices closed connections.               *)
SendFairness ==
  \A c \in Calls :
    /\ WF_sendVars(LogRejected(c) \/ Reserved(c) \/ Submit(c) \/ SubmitBlank(c))
    /\ WF_sendVars(Query(c))
    /\ SF_sendVars(TakeLock(c))
    /\ WF_sendVars((call[c].pc \in Inserting \/ request[c].pc = "dead") /\ EndTx(c))

FairSendSpec == SendSpec /\ SendFairness

----------------------------------------------------------------------------
SendTypeOK ==
  /\ TypeOK
  /\ gate \in [active : BOOLEAN, allows : BOOLEAN, smtp : BOOLEAN]
  /\ rejections \subseteq Calls
  /\ queue \in [Calls -> Nat]
  /\ \A c \in Calls :
       /\ queue[c] <= Mails[c]
       /\ \/ request[c] \in {New, Dead}
          \/ \E route \in Routes[c] :
               \/ \E pc \in Handling : request[c] = At(pc, route)
               \/ \E code \in Codes, n \in {0, Mails[c]} :
                    request[c] = Reply(code, route, n)

Charged(c) == \E l \in Accepted : l.call = c

(* "A request that would go over any limit is rejected as a whole and      *)
(* nothing is queued" (README.md:156), and the failure of the check stops  *)
(* the request too: mail in the queue has been charged, in full, to a key  *)
(* that may only have been deleted since.                                  *)
QueuedIsCharged ==
  \A c \in Calls : queue[c] > 0 /\ key.exists =>
    \E l \in Accepted : l.call = c /\ l.mails >= queue[c]

(* The other way round: quota is spent on mail that never got into the     *)
(* queue only when the process was killed on the way, when the answer to   *)
(* COMMIT was lost, or when a template rendered to nothing.                *)
Answers(c, code) == request[c].pc = "answered" /\ request[c].code = code

ChargeIsAccounted ==
  \A c \in Calls : Charged(c) /\ queue[c] < Mails[c] =>
    \/ request[c].pc \in {"reserving", "submitting", "dead"}
    \/ call[c].pc = "error" /\ Answers(c, Unavailable(request[c].route))
    \/ Answers(c, 202) /\ request[c].route = "template" /\ request[c].count = 0

(* What an answer lets its client conclude: 202 says how many of its mails *)
(* are queued, any other one that none is; and except when the charge      *)
(* itself failed, none is charged either ("requests fail with 500 before   *)
(* anything is counted", README.md:194).                                   *)
AnswerIsTrue ==
  \A c \in Calls : request[c].pc = "answered" =>
    IF request[c].code = 202
    THEN queue[c] = request[c].count /\ (key.exists => Charged(c))
    ELSE /\ queue[c] = 0
         /\ call[c].pc # "error" => ~Charged(c)
         /\ c \in rejections => request[c].code = 403

(* Every request the service takes up is answered, unless the service is   *)
(* killed: in particular a killed handler's transaction cannot keep the    *)
(* lock from those that come after it.                                     *)
RequestsAnswer ==
  \A c \in Calls : request[c].pc \in Handling ~> request[c].pc \in {"answered", "dead"}
=============================================================================
