---------------------------- MODULE MailDelivery ----------------------------
(***************************************************************************)
(* The path of a mail through the service: HTTP handlers submit batches,   *)
(* the in-memory queue hands them to the workers, the mail history in      *)
(* PostgreSQL follows each delivery, the super user retries failed ones,   *)
(* and the process may be killed and started again at any moment.          *)
(*                                                                         *)
(*   internal/services/mail_service.go   queue, workers, Submit            *)
(*   internal/services/smtp.go           one delivery attempt              *)
(*   internal/store/mails.go             the mail_deliveries table         *)
(*   internal/admin/mails.go             retry                             *)
(*   main.go                             start-up order                    *)
(*                                                                         *)
(* One action is one database statement (or transaction), one channel      *)
(* operation or one SMTP session: everything between two of them runs      *)
(* without another goroutine noticing.                                     *)
(***************************************************************************)
EXTENDS Naturals, Sequences

CONSTANTS
  Requests,     \* requests that submit a batch: /send*, compose, auto-reply
  Size,         \* Size[r]: number of recipients of request r
  KeyOf,        \* KeyOf[r]: the API key r sends with, NoKey for system mail
  Keys,         \* rows of api_keys
  NoKey,
  Workers,      \* worker goroutines
  Admins,       \* concurrent retry requests of the admin console
  Capacity,     \* capacity of the queue channel (100 in the code)
  Servers,      \* SMTP servers a key or the default can name
  NoServer,     \* a nil *SMTPConfig
  Defaults,     \* what SMTP_HOST may name when the service starts
  Faults,       \* the kinds of fault that may happen
  MaxRetries,   \* bound: successful retries of one mail
  MaxCrashes    \* bound: crashes of the service

FaultKinds == {
  "record",     \* RecordMail fails and stores nothing
  "commit",     \* RecordMail commits, but its caller gets an error
  "mark",       \* MarkDelivery fails: the database is slow or away
  "requeue",    \* RequeueDelivery is applied, but its caller gets an error
  "quit",       \* the server takes the mail, but its reply or QUIT fails
  "crash" }     \* the process is killed

ASSUME ConstantsAssumption ==
  /\ Size \in [Requests -> Nat \ {0}]
  /\ NoKey \notin Keys
  /\ KeyOf \in [Requests -> Keys \cup {NoKey}]
  /\ Capacity \in Nat \ {0}
  /\ NoServer \notin Servers
  /\ Defaults \subseteq Servers \cup {NoServer}
  /\ Faults \subseteq FaultKinds
  /\ MaxRetries \in Nat
  /\ MaxCrashes \in Nat

VARIABLES
  up,            \* the process is running
  crashes,       \* how often it was killed
  defaultSMTP,   \* MailService.defaultSMTP, read from the environment at start
  keys,          \* api_keys: exists, active, smtp
  rows,          \* mail_deliveries, one row per mail ("none": not inserted)
  queue,         \* MailService.queue
  request,       \* the handlers that submit
  worker,        \* the worker goroutines
  admin,         \* the handlers that retry
  accepted,      \* history: how often a server took the mail (or it was logged)
  via,           \* history: the servers that took it
  requeues       \* history: how often RequeueDelivery put it back

vars == <<up, crashes, defaultSMTP, keys, rows, queue, request, worker, admin,
          accepted, via, requeues>>

----------------------------------------------------------------------------
(* A mail is one recipient of one request; its position in the batch is    *)
(* mail_deliveries.position.                                               *)
Mails == UNION {{r} \X (1..Size[r]) : r \in Requests}

SMTP == Servers \cup {NoServer}

(* types.MailMessage. recorded is FALSE when DeliveryID is 0.              *)
Job == [mail : Mails, recorded : BOOLEAN, smtp : SMTP]

NewJob(mail, recorded, smtp) ==
  [mail |-> mail, recorded |-> recorded, smtp |-> smtp]

Pending == {"queued", "sending"}
Settled == {"sent", "simulated", "failed"}
Status == {"none"} \cup Pending \cup Settled

Row == [status : Status, server : SMTP, error : {"none", "refused", "restarted"},
        attempts : Nat]

NoRow == [status |-> "none", server |-> NoServer, error |-> "none", attempts |-> 0]

Outcome == {"sent", "simulated", "failed"}

(* Records of idle goroutines carry a pc alone.                            *)
IdleState == [pc |-> "idle"]
DoneState == [pc |-> "done"]

TypeOK ==
  /\ up \in BOOLEAN
  /\ crashes \in Nat
  /\ defaultSMTP \in SMTP
  /\ keys \in [Keys -> [exists : BOOLEAN, active : BOOLEAN, smtp : SMTP]]
  /\ rows \in [Mails -> Row]
  /\ queue \in Seq(Job) /\ Len(queue) <= Capacity
  /\ request \in [Requests ->
       {IdleState, DoneState} \cup [pc : {"record"}, smtp : SMTP]
         \cup [pc : {"enqueue"}, smtp : SMTP, recorded : BOOLEAN, next : Nat]]
  /\ worker \in [Workers ->
       {IdleState} \cup [pc : {"claimed", "sending"} \cup Outcome, job : Job]]
  /\ admin \in [Admins ->
       {IdleState} \cup [pc : {"key"}, mail : Mails]
         \cup [pc : {"requeue", "enqueue"}, mail : Mails, smtp : SMTP]]
  /\ accepted \in [Mails -> Nat]
  /\ via \in [Mails -> SUBSET SMTP]
  /\ requeues \in [Mails -> Nat]

----------------------------------------------------------------------------
(* The server mail goes out through (senderFor, and SenderFor for the      *)
(* history): the message's own, else the default; NoServer is simulation.  *)
Route(smtp) == IF smtp # NoServer THEN smtp ELSE defaultSMTP

CanSend(r) ==
  KeyOf[r] # NoKey => keys[KeyOf[r]].exists /\ keys[KeyOf[r]].active

KeySMTP(r) == IF KeyOf[r] = NoKey THEN NoServer ELSE keys[KeyOf[r]].smtp

KeyRowExists(r) == KeyOf[r] # NoKey => keys[KeyOf[r]].exists

Init ==
  /\ up = TRUE
  /\ crashes = 0
  /\ defaultSMTP \in Defaults
  /\ keys \in [Keys -> [exists : {TRUE}, active : {TRUE}, smtp : SMTP]]
  /\ rows = [m \in Mails |-> NoRow]
  /\ queue = <<>>
  /\ request = [r \in Requests |-> IdleState]
  /\ worker = [w \in Workers |-> IdleState]
  /\ admin = [a \in Admins |-> IdleState]
  /\ accepted = [m \in Mails |-> 0]
  /\ via = [m \in Mails |-> {}]
  /\ requeues = [m \in Mails |-> 0]

----------------------------------------------------------------------------
(* Submitting a batch.                                                     *)

(* The handler reads the key (middleware, or GetKey in compose) and takes  *)
(* its SMTP settings from that snapshot; system mail uses the default.     *)
Admit(r) ==
  /\ up
  /\ request[r].pc = "idle"
  /\ CanSend(r)
  /\ request' = [request EXCEPT ![r] = [pc |-> "record", smtp |-> KeySMTP(r)]]
  /\ UNCHANGED <<up, crashes, defaultSMTP, keys, rows, queue, worker, admin,
                 accepted, via, requeues>>

Enqueuing(smtp, recorded, next) ==
  [pc |-> "enqueue", smtp |-> smtp, recorded |-> recorded, next |-> next]

NewRow(server) ==
  [status |-> "queued", server |-> server, error |-> "none", attempts |-> 0]

(* RecordMail: one transaction that inserts a queued row per recipient. An *)
(* error leaves the ids at 0 and the mail is sent all the same. The insert *)
(* fails when the key was deleted meanwhile (foreign key).                 *)
RecordMail(r) ==
  /\ up
  /\ request[r].pc = "record"
  /\ \E stored \in BOOLEAN, recorded \in BOOLEAN :
       /\ stored => KeyRowExists(r)
       /\ recorded => stored
       /\ ~stored => "record" \in Faults \/ ~KeyRowExists(r)
       /\ stored /\ ~recorded => "commit" \in Faults
       /\ request' = [request EXCEPT ![r] =
            Enqueuing(request[r].smtp, recorded, 1)]
       /\ rows' = [m \in Mails |->
            IF m[1] = r /\ stored
              THEN NewRow(Route(request[r].smtp))
              ELSE rows[m]]
  /\ UNCHANGED <<up, crashes, defaultSMTP, keys, queue, worker, admin,
                 accepted, via, requeues>>

(* A send on the buffered channel goes through while a slot is free.       *)
HasRoomOffByOne == Len(queue) <= Capacity
HasRoom == Len(queue) < Capacity

(* One turn of Submit's loop: the send on the channel blocks while the     *)
(* queue is full.                                                          *)
Enqueue(r) ==
  /\ up
  /\ request[r].pc = "enqueue"
  /\ HasRoom
  /\ queue' = Append(queue, NewJob(<<r, request[r].next>>, request[r].recorded,
                                   request[r].smtp))
  /\ request' = [request EXCEPT ![r] =
       IF request[r].next = Size[r] THEN DoneState
       ELSE Enqueuing(request[r].smtp, request[r].recorded, request[r].next + 1)]
  /\ UNCHANGED <<up, crashes, defaultSMTP, keys, rows, worker, admin,
                 accepted, via, requeues>>

----------------------------------------------------------------------------
(* Workers.                                                                *)

Working(pc, job) == [pc |-> pc, job |-> job]

Take(w) ==
  /\ up
  /\ worker[w].pc = "idle"
  /\ queue # <<>>
  /\ worker' = [worker EXCEPT ![w] = Working("claimed", Head(queue))]
  /\ queue' = Tail(queue)
  /\ UNCHANGED <<up, crashes, defaultSMTP, keys, rows, request, admin,
                 accepted, via, requeues>>

(* MarkDelivery: an unconditional update.                                  *)
MarkError(status) == IF status = "failed" THEN "refused" ELSE "none"

MarkedCountingEveryChange(row, status) ==
  [status |-> status, server |-> row.server, error |-> MarkError(status),
   attempts |-> row.attempts + 1]
Marked(row, status) ==
  [status |-> status, server |-> row.server, error |-> MarkError(status),
   attempts |-> IF status = "sending" THEN row.attempts + 1 ELSE row.attempts]

(* mark: nothing for an unrecorded mail, and an error is only logged.      *)
Mark(job, status) ==
  \/ /\ job.recorded
     /\ rows' = [rows EXCEPT ![job.mail] = Marked(rows[job.mail], status)]
  \/ /\ job.recorded => "mark" \in Faults
     /\ rows' = rows

MarkSending(w) ==
  /\ up
  /\ worker[w].pc = "claimed"
  /\ Mark(worker[w].job, "sending")
  /\ worker' = [worker EXCEPT ![w] = Working("sending", @.job)]
  /\ UNCHANGED <<up, crashes, defaultSMTP, keys, queue, request, admin,
                 accepted, via, requeues>>

(* One SMTP session. The server has the mail once the end of DATA is       *)
(* acknowledged; QUIT comes after, and its error is Send's result too. The *)
(* NoopMailer always succeeds.                                             *)
Send(w) ==
  /\ up
  /\ worker[w].pc = "sending"
  /\ LET job == worker[w].job
         server == Route(job.smtp)
     IN \E took \in BOOLEAN, outcome \in Outcome :
          /\ outcome = "simulated" <=> server = NoServer
          /\ outcome # "failed" => took
          /\ took /\ outcome = "failed" => "quit" \in Faults
          /\ worker' = [worker EXCEPT ![w] = Working(outcome, job)]
          /\ accepted' = [accepted EXCEPT ![job.mail] = IF took THEN @ + 1 ELSE @]
          /\ via' = [via EXCEPT ![job.mail] = IF took THEN @ \cup {server} ELSE @]
  /\ UNCHANGED <<up, crashes, defaultSMTP, keys, rows, queue, request, admin,
                 requeues>>

(* Mutants: the worker loop sends a refused mail again, or returns.        *)
MarkOutcomeResending(w) ==
  /\ up
  /\ worker[w].pc \in Outcome
  /\ Mark(worker[w].job, worker[w].pc)
  /\ worker' = [worker EXCEPT ![w] =
       IF worker[w].pc = "failed" THEN Working("sending", @.job) ELSE IdleState]
  /\ UNCHANGED <<up, crashes, defaultSMTP, keys, queue, request, admin,
                 accepted, via, requeues>>
MarkOutcomeReturning(w) ==
  /\ up
  /\ worker[w].pc \in Outcome
  /\ Mark(worker[w].job, worker[w].pc)
  /\ worker' = [worker EXCEPT ![w] =
       IF worker[w].pc = "failed" THEN DoneState ELSE IdleState]
  /\ UNCHANGED <<up, crashes, defaultSMTP, keys, queue, request, admin,
                 accepted, via, requeues>>

MarkOutcome(w) ==
  /\ up
  /\ worker[w].pc \in Outcome
  /\ Mark(worker[w].job, worker[w].pc)
  /\ worker' = [worker EXCEPT ![w] = IdleState]
  /\ UNCHANGED <<up, crashes, defaultSMTP, keys, queue, request, admin,
                 accepted, via, requeues>>

----------------------------------------------------------------------------
(* Retrying a failed mail from the admin console.                          *)

RetryingMail(pc, mail, smtp) == [pc |-> pc, mail |-> mail, smtp |-> smtp]

(* GetMail: the handler goes on only when it read a failed mail. The bound *)
(* MaxRetries is on the mails read, so two handlers may exceed it by one.  *)
RetryRead(a, m) ==
  /\ up
  /\ admin[a].pc = "idle"
  /\ rows[m].status = "failed"
  /\ requeues[m] < MaxRetries
  /\ admin' = [admin EXCEPT ![a] = [pc |-> "key", mail |-> m]]
  /\ UNCHANGED <<up, crashes, defaultSMTP, keys, rows, queue, request, worker,
                 accepted, via, requeues>>

(* GetKey: a deleted or disabled key ends the retry; otherwise the handler *)
(* keeps the key's current SMTP server.                                    *)
RetryKey(a) ==
  /\ up
  /\ admin[a].pc = "key"
  /\ LET r == admin[a].mail[1]
     IN admin' = [admin EXCEPT ![a] =
          IF CanSend(r)
            THEN RetryingMail("requeue", admin[a].mail, KeySMTP(r))
            ELSE IdleState]
  /\ UNCHANGED <<up, crashes, defaultSMTP, keys, rows, queue, request, worker,
                 accepted, via, requeues>>

(* RequeueDelivery: UPDATE ... WHERE id = $1 AND status = 'failed'.        *)
RequeueableInProgress(m) == rows[m].status \in Pending \cup {"failed"}
Requeueable(m) == rows[m].status = "failed"

RequeuedKeepingServer(row, smtp) ==
  [status |-> "queued", server |-> row.server, error |-> "none", attempts |-> row.attempts]
Requeued(row, smtp) ==
  [status |-> "queued", server |-> Route(smtp), error |-> "none", attempts |-> row.attempts]

RetryRequeue(a) ==
  /\ up
  /\ admin[a].pc = "requeue"
  /\ LET m == admin[a].mail
     IN \/ /\ Requeueable(m)
           /\ rows' = [rows EXCEPT ![m] = Requeued(rows[m], admin[a].smtp)]
           /\ requeues' = [requeues EXCEPT ![m] = @ + 1]
           /\ \/ admin' = [admin EXCEPT ![a] = RetryingMail("enqueue", m, admin[a].smtp)]
              \/ /\ "requeue" \in Faults
                 /\ admin' = [admin EXCEPT ![a] = IdleState]
        \/ /\ Requeueable(m) => "requeue" \in Faults
           /\ admin' = [admin EXCEPT ![a] = IdleState]
           /\ UNCHANGED <<rows, requeues>>
  /\ UNCHANGED <<up, crashes, defaultSMTP, keys, queue, request, worker,
                 accepted, via>>

RetryEnqueue(a) ==
  /\ up
  /\ admin[a].pc = "enqueue"
  /\ HasRoom
  /\ queue' = Append(queue, NewJob(admin[a].mail, TRUE, admin[a].smtp))
  /\ admin' = [admin EXCEPT ![a] = IdleState]
  /\ UNCHANGED <<up, crashes, defaultSMTP, keys, rows, request, worker,
                 accepted, via, requeues>>

----------------------------------------------------------------------------
(* The super user edits keys while mail is on its way.                     *)

KeyRow(active, smtp) == [exists |-> TRUE, active |-> active, smtp |-> smtp]

SetKeyActive(k, active) ==
  /\ up
  /\ keys[k].exists
  /\ keys[k].active # active
  /\ keys' = [keys EXCEPT ![k] = KeyRow(active, keys[k].smtp)]
  /\ UNCHANGED <<up, crashes, defaultSMTP, rows, queue, request, worker, admin,
                 accepted, via, requeues>>

SetKeySMTP(k, smtp) ==
  /\ up
  /\ keys[k].exists
  /\ keys[k].smtp # smtp
  /\ keys' = [keys EXCEPT ![k] = KeyRow(keys[k].active, smtp)]
  /\ UNCHANGED <<up, crashes, defaultSMTP, rows, queue, request, worker, admin,
                 accepted, via, requeues>>

(* DeleteKey: mail_messages.api_key_id becomes NULL, which retry sees as a *)
(* deleted key.                                                            *)
DeleteKey(k) ==
  /\ up
  /\ keys[k].exists
  /\ keys' = [keys EXCEPT ![k] =
       [exists |-> FALSE, active |-> FALSE, smtp |-> NoServer]]
  /\ UNCHANGED <<up, crashes, defaultSMTP, rows, queue, request, worker, admin,
                 accepted, via, requeues>>

----------------------------------------------------------------------------
(* The process dies: everything in memory is gone, handlers included. A    *)
(* statement or transaction of it that PostgreSQL is still executing takes *)
(* effect, if at all, before the restarted process reads any row, because  *)
(* the CREATE INDEX of its schema waits for whoever writes mail_deliveries;*)
(* that is as if it had taken effect just before the death.                *)
Crash ==
  /\ up
  /\ "crash" \in Faults
  /\ crashes < MaxCrashes
  /\ up' = FALSE
  /\ crashes' = crashes + 1
  /\ queue' = <<>>
  /\ request' = [r \in Requests |->
       IF request[r].pc = "idle" THEN IdleState ELSE DoneState]
  /\ worker' = [w \in Workers |-> IdleState]
  /\ admin' = [a \in Admins |-> IdleState]
  /\ UNCHANGED <<defaultSMTP, keys, rows, accepted, via, requeues>>

(* FailInterruptedDeliveries, for one row.                                 *)
Restarted(row) ==
  [status |-> "failed", server |-> row.server, error |-> "restarted",
   attempts |-> row.attempts]

InterruptedUnlessSent(row) ==
  IF row.status \notin {"none", "sent", "failed"} THEN Restarted(row) ELSE row
InterruptedInQueue(row) ==
  IF row.status = "queued" THEN Restarted(row) ELSE row
Interrupted(row) ==
  IF row.status \in Pending THEN Restarted(row) ELSE row

(* main: the interrupted mails are marked before the workers and handlers  *)
(* exist; the default server is read from the environment again.           *)
Restart ==
  /\ ~up
  /\ up' = TRUE
  /\ rows' = [m \in Mails |-> Interrupted(rows[m])]
  /\ defaultSMTP' \in Defaults
  /\ UNCHANGED <<crashes, keys, queue, request, worker, admin, accepted, via,
                 requeues>>

----------------------------------------------------------------------------
Submitting == \E r \in Requests : Admit(r) \/ RecordMail(r) \/ Enqueue(r)

Delivering ==
  \E w \in Workers : Take(w) \/ MarkSending(w) \/ Send(w) \/ MarkOutcome(w)

Retrying ==
  \E a \in Admins :
    \/ \E m \in Mails : RetryRead(a, m)
    \/ RetryKey(a) \/ RetryRequeue(a) \/ RetryEnqueue(a)

Editing ==
  \E k \in Keys :
    \/ \E active \in BOOLEAN : SetKeyActive(k, active)
    \/ \E smtp \in SMTP : SetKeySMTP(k, smtp)
    \/ DeleteKey(k)

Next == Submitting \/ Delivering \/ Retrying \/ Editing \/ Crash \/ Restart

Spec == Init /\ [][Next]_vars

(* Every goroutine that can go on does: an SMTP session and a database     *)
(* call end within their timeouts, a sender blocked on the channel is      *)
(* served in FIFO order, and docker-compose restarts a killed service.     *)
Fairness ==
  /\ \A r \in Requests : WF_vars(RecordMail(r)) /\ WF_vars(Enqueue(r))
  /\ \A w \in Workers :
       /\ WF_vars(Take(w)) /\ WF_vars(MarkSending(w))
       /\ WF_vars(Send(w)) /\ WF_vars(MarkOutcome(w))
  /\ \A a \in Admins :
       /\ WF_vars(RetryKey(a)) /\ WF_vars(RetryRequeue(a))
       /\ WF_vars(RetryEnqueue(a))
  /\ WF_vars(Restart)

FairSpec == Spec /\ Fairness

----------------------------------------------------------------------------
(* Where a mail's job is: still owed by its request, in the queue, at a    *)
(* worker, or about to be queued by a retry.                               *)
Owed(m) ==
  \/ request[m[1]].pc \in {"idle", "record"}
  \/ request[m[1]].pc = "enqueue" /\ m[2] >= request[m[1]].next
AtQueue(m, i) == i \in DOMAIN queue /\ queue[i].mail = m
AtWorker(m, w) == worker[w].pc # "idle" /\ worker[w].job.mail = m
AtAdmin(m, a) == admin[a].pc = "enqueue" /\ admin[a].mail = m

Places(m) ==
  {<<"request", 0>> : x \in {y \in {0} : Owed(m)}}
    \cup {<<"queue", i>> : i \in {j \in DOMAIN queue : AtQueue(m, j)}}
    \cup {<<"worker", w>> : w \in {v \in Workers : AtWorker(m, v)}}
    \cup {<<"admin", a>> : a \in {b \in Admins : AtAdmin(m, b)}}

(* A mail has at most one job at a time, however many super users press    *)
(* "Send again" and whatever the database answers: RequeueDelivery's       *)
(* WHERE status = 'failed' is the only thing that stands between two       *)
(* retries of one mail.                                                    *)
OneJobPerMail == \A m \in Mails : \A p, q \in Places(m) : p = q

(* A job whose mail has not been handed to a server yet: the licence for   *)
(* one more acceptance.                                                    *)
Unsent(m) ==
  \/ Owed(m)
  \/ \E i \in DOMAIN queue : AtQueue(m, i)
  \/ \E w \in Workers : AtWorker(m, w) /\ worker[w].pc \in {"claimed", "sending"}
  \/ \E a \in Admins : AtAdmin(m, a)

(* A server takes a mail at most once for its submission and once more for *)
(* each retry the super user was granted, through crashes, lost updates    *)
(* and double clicks: nothing in the service resends on its own.           *)
AcceptedWithinLicence ==
  \A m \in Mails :
    accepted[m] + (IF Unsent(m) THEN 1 ELSE 0) <= 1 + requeues[m]

(* While a job is on its way its history row says queued or sending, so    *)
(* that the console never offers "Send again" for it. A row may be missing *)
(* or stay queued when the job is unrecorded.                              *)
LiveJobIsPending ==
  \A m \in Mails :
    Places(m) # {} =>
      \/ rows[m].status \in Pending
      \/ rows[m].status = "none"

(* The history names the server that really took the mail, although keys   *)
(* and the default change while it waits: a sent mail was taken by its     *)
(* row's server, and a simulated one has none.                             *)
HistoryNamesServer ==
  \A m \in Mails :
    /\ rows[m].status = "sent" => rows[m].server # NoServer /\ rows[m].server \in via[m]
    /\ rows[m].status = "simulated" => rows[m].server = NoServer /\ NoServer \in via[m]

(* A mail the history calls sent or simulated is over: its row never       *)
(* changes again and no server gets it again.                              *)
SentIsFinal ==
  [][\A m \in Mails :
       rows[m].status \in {"sent", "simulated"} =>
         rows'[m] = rows[m] /\ accepted'[m] = accepted[m]]_vars

(* Without database faults a row that says queued or sending has a job     *)
(* behind it while the service runs, so the console's "in progress" is not *)
(* a lie: a crash leaves no such row, because main marks the interrupted   *)
(* mails before anything else runs.                                        *)
PendingHasJob ==
  Faults \subseteq {"record", "quit", "crash"} =>
    \A m \in Mails : up /\ rows[m].status \in Pending => Places(m) # {}

(* Without lost updates the attempts column counts at least every          *)
(* acceptance, and a mail is never attempted more often than it was        *)
(* queued; a mail sent unrecorded is outside the history.                  *)
AttemptsCount ==
  \A m \in Mails :
    /\ rows[m].attempts <= 1 + requeues[m]
    /\ Faults \cap {"record", "commit", "mark"} = {} /\ rows[m].status # "none" =>
         accepted[m] <= rows[m].attempts

(* Every mail the history shows as queued or sending leaves that state.    *)
PendingSettles ==
  \A m \in Mails : rows[m].status \in Pending ~> rows[m].status \in Settled

(* Every submission returns to its client although the queue is smaller    *)
(* than the batch.                                                         *)
SubmitReturns ==
  \A r \in Requests : request[r].pc = "record" ~> request[r].pc = "done"

(* What the error of an interrupted mail claims, "the service restarted    *)
(* before this mail was sent" (internal/store/mails.go, line 154).         *)
RestartedMeansUnsent ==
  \A m \in Mails : rows[m].error = "restarted" => accepted[m] = 0
=============================================================================
