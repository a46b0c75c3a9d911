------------------------ MODULE MailDelivery_proofs ------------------------
(* Proofs about MailDelivery for any number of requests, batch sizes, keys,*)
(* workers, retry handlers and servers, any queue capacity and any faults. *)
EXTENDS MailDelivery, TLAPS

(* The inductive invariant. A job is in one place at a time ...            *)
QueueUnique ==
  \A m \in Mails : \A i, j \in DOMAIN queue :
    AtQueue(m, i) /\ AtQueue(m, j) => i = j

WorkersUnique ==
  \A m \in Mails : \A v, w \in Workers :
    AtWorker(m, v) /\ AtWorker(m, w) => v = w

AdminsUnique ==
  \A m \in Mails : \A a, b \in Admins :
    AtAdmin(m, a) /\ AtAdmin(m, b) => a = b

PlacesDisjoint ==
  \A m \in Mails :
    /\ \A i \in DOMAIN queue : AtQueue(m, i) => ~Owed(m)
    /\ \A w \in Workers : AtWorker(m, w) =>
         ~Owed(m) /\ \A i \in DOMAIN queue : ~AtQueue(m, i)
    /\ \A a \in Admins : AtAdmin(m, a) =>
         /\ ~Owed(m)
         /\ \A i \in DOMAIN queue : ~AtQueue(m, i)
         /\ \A w \in Workers : ~AtWorker(m, w)

(* ... a request enqueues its own mails, in order ...                      *)
RequestsInRange ==
  \A r \in Requests : request[r].pc = "enqueue" => request[r].next \in 1..Size[r]

(* ... a mail in one of the places is not settled, and one whose request   *)
(* was not recorded yet has no row and no history ...                      *)
Live(m) ==
  \/ Owed(m)
  \/ \E i \in DOMAIN queue : AtQueue(m, i)
  \/ \E w \in Workers : AtWorker(m, w)
  \/ \E a \in Admins : AtAdmin(m, a)

LiveUnsettled ==
  \A m \in Mails : Live(m) => rows[m].status \in Pending \cup {"none"}

NewUntouched ==
  \A m \in Mails : request[m[1]].pc \in {"idle", "record"} =>
    rows[m].status = "none" /\ accepted[m] = 0

(* ... and nothing is under way while the process is down.                 *)
DownIsEmpty ==
  ~up =>
    /\ queue = <<>>
    /\ \A r \in Requests : request[r].pc \in {"idle", "done"}
    /\ \A w \in Workers : worker[w].pc = "idle"
    /\ \A a \in Admins : admin[a].pc = "idle"

OneJob == QueueUnique /\ WorkersUnique /\ AdminsUnique /\ PlacesDisjoint

TypeInv == TypeOK /\ RequestsInRange

IInv ==
  /\ TypeInv
  /\ OneJob
  /\ LiveUnsettled /\ NewUntouched /\ DownIsEmpty
  /\ AcceptedWithinLicence

----------------------------------------------------------------------------
(* What a mail is.                                                         *)
LEMMA MailsAreRecipients ==
  /\ \A m \in Mails : /\ m[1] \in Requests
                      /\ m[2] \in 1..Size[m[1]]
                      /\ m = <<m[1], m[2]>>
  /\ \A r \in Requests : \A p \in 1..Size[r] : <<r, p>> \in Mails
BY DEF Mails

LEMMA RouteType ==
  ASSUME defaultSMTP \in SMTP
  PROVE  \A smtp \in SMTP : Route(smtp) \in SMTP
BY DEF Route

LEMMA KeySMTPType ==
  ASSUME TypeOK, NEW r \in Requests
  PROVE  KeySMTP(r) \in SMTP
BY ConstantsAssumption DEF TypeOK, KeySMTP, SMTP

(* What the updates of a history row keep.                                 *)
LEMMA NoRowType == NoRow \in Row
BY DEF NoRow, Row, Status, SMTP

LEMMA MarkedType ==
  ASSUME NEW row \in Row, NEW status \in {"sending"} \cup Outcome
  PROVE  Marked(row, status) \in Row /\ Marked(row, status).status = status
BY DEF Marked, MarkError, Row, Status, Pending, Settled, Outcome

LEMMA RequeuedType ==
  ASSUME defaultSMTP \in SMTP, NEW row \in Row, NEW smtp \in SMTP
  PROVE  Requeued(row, smtp) \in Row /\ Requeued(row, smtp).status = "queued"
BY RouteType DEF Requeued, Row, Status, Pending

LEMMA InterruptedType ==
  ASSUME NEW row \in Row
  PROVE  Interrupted(row) \in Row
BY DEF Interrupted, Restarted, Row, Status, Pending, Settled

LEMMA MarkType ==
  ASSUME rows \in [Mails -> Row], NEW job \in Job, NEW status \in {"sending"} \cup Outcome,
         Mark(job, status)
  PROVE  rows' \in [Mails -> Row]
BY MarkedType DEF Mark, Job

LEMMA TypeInit == Init => TypeInv
<1> SUFFICES ASSUME Init PROVE TypeInv
  OBVIOUS
<1>1. defaultSMTP \in SMTP
  BY ConstantsAssumption DEF Init, SMTP
<1>2. keys \in [Keys -> [exists : BOOLEAN, active : BOOLEAN, smtp : SMTP]]
  BY DEF Init
<1>3. rows \in [Mails -> Row]
  BY NoRowType DEF Init
<1>4. queue \in Seq(Job) /\ Len(queue) <= Capacity
  BY ConstantsAssumption DEF Init
<1>5. RequestsInRange
  BY DEF Init, RequestsInRange, IdleState
<1> QED
  BY <1>1, <1>2, <1>3, <1>4, <1>5 DEF Init, TypeInv, TypeOK

LEMMA WorkerHasJob ==
  ASSUME TypeOK, NEW w \in Workers, worker[w].pc # "idle"
  PROVE  worker[w] \in [pc : {"claimed", "sending"} \cup Outcome, job : Job]
BY DEF TypeOK, IdleState

LEMMA EnqueueType ==
  ASSUME queue \in Seq(Job), HasRoom, NEW job \in Job
  PROVE  Append(queue, job) \in Seq(Job) /\ Len(Append(queue, job)) <= Capacity
BY ConstantsAssumption DEF HasRoom

LEMMA RequestHasSMTP ==
  ASSUME TypeOK, NEW r \in Requests
  PROVE  /\ request[r].pc \in {"idle", "record", "enqueue", "done"}
         /\ request[r].pc = "record" => request[r].smtp \in SMTP
         /\ request[r].pc = "enqueue" =>
              /\ request[r].smtp \in SMTP
              /\ request[r].recorded \in BOOLEAN
              /\ request[r].next \in Nat
BY DEF TypeOK, IdleState, DoneState

LEMMA AdminHasMail ==
  ASSUME TypeOK, NEW a \in Admins
  PROVE  /\ admin[a].pc \in {"idle", "key", "requeue", "enqueue"}
         /\ admin[a].pc # "idle" => admin[a].mail \in Mails
         /\ admin[a].pc \in {"requeue", "enqueue"} => admin[a].smtp \in SMTP
BY DEF TypeOK, IdleState

LEMMA TypeStep == TypeInv /\ [Next]_vars => TypeInv'
<1> SUFFICES ASSUME TypeInv, [Next]_vars PROVE TypeInv'
  OBVIOUS
<1> USE ConstantsAssumption
<1>1. ASSUME NEW r \in Requests, Admit(r) PROVE TypeInv'
  BY <1>1, KeySMTPType DEF TypeInv, TypeOK, RequestsInRange, Admit, SMTP
<1>2. ASSUME NEW r \in Requests, RecordMail(r) PROVE TypeInv'
  <2>1. request[r].smtp \in SMTP
    BY <1>2, RequestHasSMTP DEF TypeInv, RecordMail
  <2>2. NewRow(Route(request[r].smtp)) \in Row
    BY <2>1, RouteType DEF TypeInv, TypeOK, NewRow, Row, Status, Pending
  <2>3. PICK recorded \in BOOLEAN :
          request' = [request EXCEPT ![r] = Enqueuing(request[r].smtp, recorded, 1)]
    BY <1>2 DEF RecordMail
  <2>4. rows' \in [Mails -> Row]
    BY <1>2, <2>2 DEF TypeInv, TypeOK, RecordMail
  <2> QED
    BY <1>2, <2>1, <2>3, <2>4 DEF TypeInv, TypeOK, RequestsInRange, RecordMail, Enqueuing
<1>3. ASSUME NEW r \in Requests, Enqueue(r) PROVE TypeInv'
  <2>1. <<r, request[r].next>> \in Mails
    BY <1>3, MailsAreRecipients DEF TypeInv, RequestsInRange, Enqueue
  <2>2. NewJob(<<r, request[r].next>>, request[r].recorded, request[r].smtp) \in Job
    BY <1>3, <2>1, RequestHasSMTP DEF TypeInv, Enqueue, NewJob, Job
  <2>3. queue' \in Seq(Job) /\ Len(queue') <= Capacity
    BY <1>3, <2>2, EnqueueType DEF TypeInv, TypeOK, Enqueue
  <2>4. request'[r] \in {DoneState}
          \cup [pc : {"enqueue"}, smtp : SMTP, recorded : BOOLEAN, next : Nat]
    BY <1>3, RequestHasSMTP DEF TypeInv, TypeOK, Enqueue, Enqueuing
  <2>5. RequestsInRange'
    BY <1>3 DEF TypeInv, TypeOK, RequestsInRange, Enqueue, Enqueuing, DoneState
  <2> QED
    BY <1>3, <2>3, <2>4, <2>5 DEF TypeInv, TypeOK, Enqueue
<1>4. ASSUME NEW w \in Workers, Take(w) PROVE TypeInv'
  <2>1. Head(queue) \in Job /\ Tail(queue) \in Seq(Job) /\ Len(Tail(queue)) <= Capacity
    BY <1>4 DEF TypeInv, TypeOK, Take
  <2>2. Working("claimed", Head(queue)) \in [pc : {"claimed", "sending"} \cup Outcome, job : Job]
    BY <2>1 DEF Working
  <2> QED
    BY <1>4, <2>1, <2>2 DEF TypeInv, TypeOK, RequestsInRange, Take
<1>5. ASSUME NEW w \in Workers, MarkSending(w) PROVE TypeInv'
  <2>1. worker[w].job \in Job
    BY <1>5, WorkerHasJob DEF TypeInv, MarkSending
  <2>2. rows' \in [Mails -> Row]
    BY <1>5, <2>1, MarkType DEF TypeInv, TypeOK, MarkSending
  <2> QED
    BY <1>5, <2>1, <2>2 DEF TypeInv, TypeOK, RequestsInRange, MarkSending, Working
<1>6. ASSUME NEW w \in Workers, Send(w) PROVE TypeInv'
  <2>1. worker[w].job \in Job
    BY <1>6, WorkerHasJob DEF TypeInv, Send
  <2>2. Route(worker[w].job.smtp) \in SMTP
    BY <2>1, RouteType DEF TypeInv, TypeOK, Job
  <2>3. worker' \in [Workers ->
                      {IdleState} \cup [pc : {"claimed", "sending"} \cup Outcome, job : Job]]
    BY <1>6, <2>1 DEF TypeInv, TypeOK, Send, Working
  <2>4. accepted' \in [Mails -> Nat] /\ via' \in [Mails -> SUBSET SMTP]
    BY <1>6, <2>1, <2>2 DEF TypeInv, TypeOK, Send, Job
  <2> QED
    BY <1>6, <2>3, <2>4 DEF TypeInv, TypeOK, RequestsInRange, Send
<1>7. ASSUME NEW w \in Workers, MarkOutcome(w) PROVE TypeInv'
  <2>1. worker[w].job \in Job
    BY <1>7, WorkerHasJob DEF TypeInv, MarkOutcome, Outcome
  <2>2. rows' \in [Mails -> Row]
    BY <1>7, <2>1, MarkType DEF TypeInv, TypeOK, MarkOutcome
  <2> QED
    BY <1>7, <2>2 DEF TypeInv, TypeOK, RequestsInRange, MarkOutcome
<1>8. ASSUME NEW a \in Admins, NEW m \in Mails, RetryRead(a, m) PROVE TypeInv'
  BY <1>8 DEF TypeInv, TypeOK, RequestsInRange, RetryRead
<1>9. ASSUME NEW a \in Admins, RetryKey(a) PROVE TypeInv'
  BY <1>9, KeySMTPType, MailsAreRecipients
  DEF TypeInv, TypeOK, RequestsInRange, RetryKey, RetryingMail, IdleState
<1>10. ASSUME NEW a \in Admins, RetryRequeue(a) PROVE TypeInv'
  <2>1. admin[a].mail \in Mails /\ admin[a].smtp \in SMTP
    BY <1>10, AdminHasMail DEF TypeInv, RetryRequeue
  <2>2. rows' \in [Mails -> Row]
    <3>1. Requeued(rows[admin[a].mail], admin[a].smtp) \in Row
      BY <2>1, RequeuedType DEF TypeInv, TypeOK
    <3> QED
      BY <1>10, <2>1, <3>1 DEF TypeInv, TypeOK, RetryRequeue
  <2>3. requeues' \in [Mails -> Nat]
    BY <1>10, <2>1 DEF TypeInv, TypeOK, RetryRequeue
  <2>4. admin' \in [Admins ->
          {IdleState} \cup [pc : {"key"}, mail : Mails]
            \cup [pc : {"requeue", "enqueue"}, mail : Mails, smtp : SMTP]]
    <3>1. \/ admin' = [admin EXCEPT ![a] = IdleState]
          \/ admin' = [admin EXCEPT ![a] = RetryingMail("enqueue", admin[a].mail, admin[a].smtp)]
      BY <1>10 DEF RetryRequeue
    <3>2. RetryingMail("enqueue", admin[a].mail, admin[a].smtp)
            \in [pc : {"requeue", "enqueue"}, mail : Mails, smtp : SMTP]
      BY <2>1 DEF RetryingMail
    <3> QED
      BY <3>1, <3>2 DEF TypeInv, TypeOK
  <2> QED
    BY <1>10, <2>2, <2>3, <2>4 DEF TypeInv, TypeOK, RequestsInRange, RetryRequeue
<1>11. ASSUME NEW a \in Admins, RetryEnqueue(a) PROVE TypeInv'
  <2>1. NewJob(admin[a].mail, TRUE, admin[a].smtp) \in Job
    BY <1>11, AdminHasMail DEF TypeInv, RetryEnqueue, NewJob, Job
  <2>2. queue' \in Seq(Job) /\ Len(queue') <= Capacity
    <3>1. queue' = Append(queue, NewJob(admin[a].mail, TRUE, admin[a].smtp)) /\ HasRoom
      BY <1>11 DEF RetryEnqueue
    <3> QED
      BY <2>1, <3>1, EnqueueType DEF TypeInv, TypeOK
  <2> QED
    BY <1>11, <2>2 DEF TypeInv, TypeOK, RequestsInRange, RetryEnqueue
<1>12. ASSUME NEW k \in Keys, NEW active \in BOOLEAN, SetKeyActive(k, active) PROVE TypeInv'
  <2>1. keys' \in [Keys -> [exists : BOOLEAN, active : BOOLEAN, smtp : SMTP]]
    BY <1>12 DEF TypeInv, TypeOK, SetKeyActive, KeyRow
  <2> QED
    BY <1>12, <2>1 DEF TypeInv, TypeOK, RequestsInRange, SetKeyActive
<1>13. ASSUME NEW k \in Keys, NEW smtp \in SMTP, SetKeySMTP(k, smtp) PROVE TypeInv'
  <2>1. keys' \in [Keys -> [exists : BOOLEAN, active : BOOLEAN, smtp : SMTP]]
    BY <1>13 DEF TypeInv, TypeOK, SetKeySMTP, KeyRow
  <2> QED
    BY <1>13, <2>1 DEF TypeInv, TypeOK, RequestsInRange, SetKeySMTP
<1>14. ASSUME NEW k \in Keys, DeleteKey(k) PROVE TypeInv'
  BY <1>14 DEF TypeInv, TypeOK, RequestsInRange, DeleteKey, SMTP
<1>15. CASE Crash
  <2>1. RequestsInRange'
    BY <1>15 DEF RequestsInRange, Crash, IdleState, DoneState
  <2>2. request' \in [Requests -> {IdleState, DoneState}]
    BY <1>15 DEF Crash
  <2>3. queue' \in Seq(Job) /\ Len(queue') <= Capacity
    BY <1>15 DEF Crash
  <2>4. crashes' \in Nat /\ up' \in BOOLEAN
    <3>1. crashes \in Nat
      BY DEF TypeInv, TypeOK
    <3> QED
      BY <1>15, <3>1, crashes + 1 \in Nat DEF Crash
  <2>5. worker' \in [Workers -> {IdleState}] /\ admin' \in [Admins -> {IdleState}]
    BY <1>15 DEF Crash
  <2> QED
    BY <1>15, <2>1, <2>2, <2>3, <2>4, <2>5 DEF TypeInv, TypeOK, Crash
<1>16. CASE Restart
  BY <1>16, InterruptedType DEF TypeInv, TypeOK, RequestsInRange, Restart, SMTP
<1>17. CASE UNCHANGED vars
  BY <1>17 DEF TypeInv, TypeOK, RequestsInRange, vars
<1>18. QED
  BY <1>1, <1>2, <1>3, <1>4, <1>5, <1>6, <1>7, <1>8, <1>9, <1>10, <1>11, <1>12,
     <1>13, <1>14, <1>15, <1>16, <1>17
  DEF Next, Submitting, Delivering, Retrying, Editing

----------------------------------------------------------------------------
LEMMA EnqueueStep ==
  ASSUME IInv, TypeInv', NEW r \in Requests, Enqueue(r)
  PROVE  IInv'
<1> DEFINE m0 == <<r, request[r].next>>
           n == Len(queue)
<1>a. request[r].pc = "enqueue" /\ request[r].next \in 1..Size[r] /\ Size[r] \in Nat
  BY ConstantsAssumption DEF Enqueue, IInv, TypeInv, RequestsInRange
<1>b. m0 \in Mails
  BY <1>a, MailsAreRecipients
<1>c. n \in Nat /\ queue \in Seq(Job)
  BY DEF IInv, TypeInv, TypeOK
<1>1. Owed(m0) /\ \A m \in Mails : Owed(m)' <=> Owed(m) /\ m # m0
  BY <1>a, <1>b, MailsAreRecipients DEF Owed, Enqueue, Enqueuing, DoneState, IInv, TypeInv, TypeOK
<1>2. /\ DOMAIN queue = 1..n
      /\ DOMAIN queue' = 1..(n + 1)
      /\ \A m \in Mails : \A i \in 1..(n + 1) :
           AtQueue(m, i)' <=> (i \in 1..n /\ AtQueue(m, i)) \/ (i = n + 1 /\ m = m0)
  BY <1>b, <1>c DEF AtQueue, Enqueue, NewJob
<1>3. \A m \in Mails : \A w \in Workers : AtWorker(m, w)' <=> AtWorker(m, w)
  BY DEF AtWorker, Enqueue
<1>4. \A m \in Mails : \A a \in Admins : AtAdmin(m, a)' <=> AtAdmin(m, a)
  BY DEF AtAdmin, Enqueue
<1>5. QueueUnique'
  BY <1>b, <1>c, <1>1, <1>2 DEF IInv, OneJob, QueueUnique, PlacesDisjoint
<1>6. WorkersUnique' /\ AdminsUnique'
  BY <1>3, <1>4 DEF IInv, OneJob, WorkersUnique, AdminsUnique
<1>7. PlacesDisjoint'
  <2>1. PlacesDisjoint
    BY DEF IInv, OneJob
  <2> QED
    BY <2>1, <1>b, <1>c, <1>1, <1>2, <1>3, <1>4 DEF PlacesDisjoint
<1>8. \A m \in Mails : Live(m)' => Live(m)
  BY <1>b, <1>c, <1>1, <1>2, <1>3, <1>4 DEF Live
<1>9. LiveUnsettled'
  BY <1>8 DEF IInv, LiveUnsettled, Enqueue
<1>10. NewUntouched'
  BY <1>a DEF IInv, NewUntouched, Enqueue, Enqueuing, DoneState
<1>11. DownIsEmpty'
  BY DEF DownIsEmpty, Enqueue
<1>12. \A m \in Mails : Unsent(m)' => Unsent(m)
  <2>1. worker' = worker
    BY DEF Enqueue
  <2> QED
    BY <2>1, <1>b, <1>c, <1>1, <1>2, <1>3, <1>4 DEF Unsent
<1>13. AcceptedWithinLicence'
  BY <1>12 DEF IInv, AcceptedWithinLicence, Enqueue, TypeInv, TypeOK
<1> QED
  BY <1>5, <1>6, <1>7, <1>9, <1>10, <1>11, <1>13 DEF IInv, OneJob

LEMMA UnsentIsLive == \A m \in Mails : Unsent(m) => Live(m)
BY DEF Unsent, Live

(* Steps that move no job, or only drop some.                              *)
LEMMA PlacesShrink ==
  ASSUME OneJob,
         queue' = queue \/ queue' = <<>>,
         \A m \in Mails : Owed(m)' => Owed(m),
         \A m \in Mails : \A w \in Workers :
           AtWorker(m, w)' =>
             /\ AtWorker(m, w)
             /\ worker'[w].pc \in {"claimed", "sending"} =>
                  worker[w].pc \in {"claimed", "sending"},
         \A m \in Mails : \A a \in Admins : AtAdmin(m, a)' => AtAdmin(m, a)
  PROVE  /\ OneJob'
         /\ \A m \in Mails : Live(m)' => Live(m)
         /\ \A m \in Mails : Unsent(m)' => Unsent(m)
<1>1. \A m \in Mails : \A i \in DOMAIN queue' :
        AtQueue(m, i)' => i \in DOMAIN queue /\ AtQueue(m, i)
  BY DEF AtQueue
<1>2. QueueUnique'
  BY <1>1 DEF OneJob, QueueUnique
<1>3. WorkersUnique' /\ AdminsUnique'
  BY DEF OneJob, WorkersUnique, AdminsUnique
<1>4. PlacesDisjoint'
  BY <1>1 DEF OneJob, PlacesDisjoint
<1>5. \A m \in Mails : Live(m)' => Live(m)
  BY <1>1 DEF Live
<1>6. \A m \in Mails : Unsent(m)' => Unsent(m)
  BY <1>1 DEF Unsent
<1> QED
  BY <1>2, <1>3, <1>4, <1>5, <1>6 DEF OneJob

LEMMA LicenceKept ==
  ASSUME TypeOK, AcceptedWithinLicence, UNCHANGED <<accepted, requeues>>,
         \A m \in Mails : Unsent(m)' => Unsent(m)
  PROVE  AcceptedWithinLicence'
BY DEF AcceptedWithinLicence, TypeOK

LEMMA AdmitStep ==
  ASSUME IInv, TypeInv', NEW r \in Requests, Admit(r)
  PROVE  IInv'
<1>1. OneJob /\ TypeOK
  BY DEF IInv, TypeInv
<1>2. \A m \in Mails : Owed(m)' => Owed(m)
  BY <1>1 DEF Owed, Admit, TypeOK
<1>3. UNCHANGED <<queue, worker, admin, rows, accepted, requeues, up>>
  BY DEF Admit
<1>4. /\ OneJob'
      /\ \A m \in Mails : (Live(m)' => Live(m)) /\ (Unsent(m)' => Unsent(m))
  BY <1>1, <1>2, <1>3, PlacesShrink DEF AtWorker, AtAdmin
<1>5. LiveUnsettled'
  BY <1>3, <1>4 DEF IInv, LiveUnsettled
<1>6. NewUntouched'
  BY <1>1, <1>3 DEF IInv, NewUntouched, Admit, TypeOK
<1>7. DownIsEmpty'
  BY DEF DownIsEmpty, Admit
<1>8. AcceptedWithinLicence'
  BY <1>1, <1>3, <1>4, LicenceKept DEF IInv
<1> QED
  BY <1>4, <1>5, <1>6, <1>7, <1>8 DEF IInv

LEMMA RecordMailStep ==
  ASSUME IInv, TypeInv', NEW r \in Requests, RecordMail(r)
  PROVE  IInv'
<1>1. OneJob /\ TypeOK
  BY DEF IInv, TypeInv
<1>2. PICK recorded \in BOOLEAN :
        request' = [request EXCEPT ![r] = Enqueuing(request[r].smtp, recorded, 1)]
  BY DEF RecordMail
<1>3. \A m \in Mails : Owed(m)' => Owed(m)
  BY <1>1, <1>2, MailsAreRecipients DEF Owed, RecordMail, Enqueuing, TypeOK
<1>4. UNCHANGED <<queue, worker, admin, accepted, requeues, up>> /\ up
  BY DEF RecordMail
<1>5. /\ OneJob'
      /\ \A m \in Mails : (Live(m)' => Live(m)) /\ (Unsent(m)' => Unsent(m))
  BY <1>1, <1>3, <1>4, PlacesShrink DEF AtWorker, AtAdmin
<1>6. \A m \in Mails : rows'[m] = rows[m] \/ (rows'[m].status = "queued" /\ m[1] = r)
  <2>1. PICK stored \in BOOLEAN : rows' = [m \in Mails |->
          IF m[1] = r /\ stored THEN NewRow(Route(request[r].smtp)) ELSE rows[m]]
    BY DEF RecordMail
  <2>2. NewRow(Route(request[r].smtp)).status = "queued"
    BY DEF NewRow
  <2>3. ASSUME NEW m \in Mails, m[1] = r, stored PROVE rows'[m].status = "queued"
    BY <2>1, <2>2, <2>3
  <2>4. ASSUME NEW m \in Mails, ~(m[1] = r /\ stored) PROVE rows'[m] = rows[m]
    BY <2>1, <2>4
  <2> QED
    BY <2>3, <2>4
<1>7. LiveUnsettled'
  BY <1>5, <1>6 DEF IInv, LiveUnsettled, Pending
<1>8. NewUntouched'
  BY <1>1, <1>2, <1>4, <1>6, MailsAreRecipients DEF IInv, NewUntouched, Enqueuing, TypeOK
<1>9. DownIsEmpty'
  BY <1>4 DEF DownIsEmpty
<1>10. AcceptedWithinLicence'
  BY <1>1, <1>4, <1>5, LicenceKept DEF IInv
<1> QED
  BY <1>5, <1>7, <1>8, <1>9, <1>10 DEF IInv

LEMMA TakeStep ==
  ASSUME IInv, TypeInv', NEW w \in Workers, Take(w)
  PROVE  IInv'
<1> DEFINE m0 == Head(queue).mail
           n == Len(queue)
<1>1. OneJob /\ TypeOK
  BY DEF IInv, TypeInv
<1>2. queue \in Seq(Job) /\ n \in Nat /\ n > 0 /\ Head(queue) = queue[1] /\ m0 \in Mails
  <2>1. queue \in Seq(Job) /\ queue # <<>>
    BY <1>1 DEF Take, TypeOK
  <2>2. n > 0 /\ Head(queue) = queue[1] /\ Head(queue) \in Job
    BY <2>1
  <2> QED
    BY <2>1, <2>2 DEF Job
<1>3. /\ DOMAIN queue = 1..n
      /\ DOMAIN queue' = 1..(n - 1)
      /\ \A i \in 1..(n - 1) : queue'[i] = queue[i + 1]
  BY <1>2 DEF Take
<1>4. \A m \in Mails : \A i \in 1..(n - 1) : AtQueue(m, i)' <=> AtQueue(m, i + 1)
  BY <1>2, <1>3 DEF AtQueue
<1>5. 1 \in DOMAIN queue /\ \A m \in Mails : AtQueue(m, 1) <=> m = m0
  BY <1>2, <1>3 DEF AtQueue
<1>6. \A m \in Mails : \A v \in Workers :
        AtWorker(m, v)' <=> (v # w /\ AtWorker(m, v)) \/ (v = w /\ m = m0)
  BY <1>1, <1>2 DEF AtWorker, Take, Working, TypeOK
<1>7. UNCHANGED <<request, admin, rows, accepted, requeues, up>> /\ up
  BY DEF Take
<1>8. \A m \in Mails : (Owed(m)' <=> Owed(m)) /\ \A a \in Admins : AtAdmin(m, a)' <=> AtAdmin(m, a)
  BY <1>7 DEF Owed, AtAdmin
<1>9. QueueUnique'
  BY <1>1, <1>2, <1>3, <1>4 DEF OneJob, QueueUnique
<1>10. WorkersUnique'
  BY <1>1, <1>2, <1>5, <1>6 DEF OneJob, WorkersUnique, PlacesDisjoint
<1>11. AdminsUnique'
  BY <1>1, <1>8 DEF OneJob, AdminsUnique
<1>12. PlacesDisjoint'
  <2>1. \A m \in Mails : \A i \in DOMAIN queue' :
          AtQueue(m, i)' => i + 1 \in DOMAIN queue /\ AtQueue(m, i + 1) /\ m # m0
    BY <1>1, <1>2, <1>3, <1>4, <1>5 DEF OneJob, QueueUnique
  <2>2. PlacesDisjoint
    BY <1>1 DEF OneJob
  <2> QED
    BY <2>1, <2>2, <1>2, <1>5, <1>6, <1>8 DEF PlacesDisjoint
<1>13. \A m \in Mails : Live(m)' => Live(m)
  BY <1>2, <1>3, <1>4, <1>5, <1>6, <1>8 DEF Live
<1>14. \A m \in Mails : Unsent(m)' => Unsent(m)
  <2>1. \A m \in Mails : \A v \in Workers : AtWorker(m, v)' /\ v # w => worker'[v] = worker[v]
    BY <1>1 DEF Take, TypeOK
  <2> QED
    <3> SUFFICES ASSUME NEW m \in Mails, Unsent(m)' PROVE Unsent(m)
      OBVIOUS
    <3>1. CASE Owed(m)' \/ \E a \in Admins : AtAdmin(m, a)'
      BY <3>1, <1>8 DEF Unsent
    <3>2. ASSUME NEW i \in DOMAIN queue', AtQueue(m, i)' PROVE Unsent(m)
      BY <3>2, <1>2, <1>3, <1>4 DEF Unsent
    <3>3. ASSUME NEW v \in Workers, AtWorker(m, v)', v # w,
                 worker'[v].pc \in {"claimed", "sending"}
          PROVE  Unsent(m)
      BY <3>3, <2>1, <1>6 DEF Unsent
    <3>4. CASE AtWorker(m, w)'
      BY <3>4, <1>5, <1>6 DEF Unsent
    <3> QED
      BY <3>1, <3>2, <3>3, <3>4 DEF Unsent
<1>15. LiveUnsettled' /\ NewUntouched' /\ DownIsEmpty'
  BY <1>7, <1>13 DEF IInv, LiveUnsettled, NewUntouched, DownIsEmpty
<1>16. AcceptedWithinLicence'
  BY <1>1, <1>7, <1>14, LicenceKept DEF IInv
<1> QED
  BY <1>9, <1>10, <1>11, <1>12, <1>15, <1>16 DEF IInv, OneJob

(* The job a worker holds is nowhere else.                                 *)
LEMMA WorkerHoldsAlone ==
  ASSUME OneJob, TypeOK, NEW w \in Workers, worker[w].pc # "idle"
  PROVE  /\ worker[w].job.mail \in Mails
         /\ AtWorker(worker[w].job.mail, w)
         /\ ~Owed(worker[w].job.mail)
         /\ \A i \in DOMAIN queue : ~AtQueue(worker[w].job.mail, i)
         /\ \A v \in Workers : AtWorker(worker[w].job.mail, v) => v = w
         /\ \A a \in Admins : ~AtAdmin(worker[w].job.mail, a)
<1>1. worker[w].job.mail \in Mails
  BY WorkerHasJob DEF Job
<1>2. AtWorker(worker[w].job.mail, w)
  BY DEF AtWorker
<1> QED
  BY <1>1, <1>2 DEF OneJob, WorkersUnique, PlacesDisjoint

LEMMA MarkChangesOneRow ==
  ASSUME rows \in [Mails -> Row], NEW job \in Job,
         NEW status \in {"sending"} \cup Outcome, Mark(job, status)
  PROVE  \A m \in Mails :
           \/ rows'[m] = rows[m]
           \/ m = job.mail /\ job.recorded /\ rows'[m] = Marked(rows[m], status)
BY DEF Mark, Job

LEMMA MarkSendingStep ==
  ASSUME IInv, TypeInv', NEW w \in Workers, MarkSending(w)
  PROVE  IInv'
<1>1. OneJob /\ TypeOK
  BY DEF IInv, TypeInv
<1>2. worker[w].pc = "claimed" /\ worker[w].job \in Job
  BY <1>1, WorkerHasJob DEF MarkSending
<1>3. UNCHANGED <<queue, request, admin, accepted, requeues, up>> /\ up
      /\ worker' = [worker EXCEPT ![w] = Working("sending", worker[w].job)]
  BY <1>1 DEF MarkSending, TypeOK
<1>4. \A m \in Mails :
        \/ rows'[m] = rows[m]
        \/ m = worker[w].job.mail /\ rows'[m].status = "sending"
  BY <1>1, <1>2, MarkChangesOneRow, MarkedType DEF MarkSending, TypeOK
<1>5. /\ OneJob'
      /\ \A m \in Mails : (Live(m)' => Live(m)) /\ (Unsent(m)' => Unsent(m))
  <2>1. \A m \in Mails : \A v \in Workers :
          AtWorker(m, v)' =>
             /\ AtWorker(m, v)
             /\ worker'[v].pc \in {"claimed", "sending"} =>
                  worker[v].pc \in {"claimed", "sending"}
    BY <1>1, <1>2, <1>3 DEF AtWorker, Working, TypeOK
  <2> QED
    BY <1>1, <1>3, <2>1, PlacesShrink DEF Owed, AtAdmin
<1>6. LiveUnsettled'
  BY <1>4, <1>5 DEF IInv, LiveUnsettled, Pending
<1>7. NewUntouched'
  BY <1>1, <1>2, <1>3, <1>4, WorkerHoldsAlone DEF IInv, NewUntouched, Owed
<1>8. DownIsEmpty'
  BY <1>3 DEF DownIsEmpty
<1>9. AcceptedWithinLicence'
  BY <1>1, <1>3, <1>5, LicenceKept DEF IInv
<1> QED
  BY <1>5, <1>6, <1>7, <1>8, <1>9 DEF IInv

LEMMA SendStep ==
  ASSUME IInv, TypeInv', NEW w \in Workers, Send(w)
  PROVE  IInv'
<1>1. OneJob /\ TypeOK
  BY DEF IInv, TypeInv
<1>2. worker[w].pc = "sending" /\ worker[w].job \in Job
  BY <1>1, WorkerHasJob DEF Send
<1>m. PICK m0 \in Mails : m0 = worker[w].job.mail
  BY <1>2 DEF Job
<1>3. UNCHANGED <<queue, request, admin, rows, requeues, up>> /\ up
  BY DEF Send
<1>4. PICK outcome \in Outcome : worker' = [worker EXCEPT ![w] = Working(outcome, worker[w].job)]
  BY DEF Send
<1>5. \A v \in Workers : v # w => worker'[v] = worker[v]
  BY <1>1, <1>4 DEF TypeOK
<1>6. worker'[w].pc = outcome /\ worker'[w].job = worker[w].job
      /\ outcome \notin {"idle", "claimed", "sending"}
  BY <1>1, <1>4 DEF TypeOK, Working, Outcome
<1>7. /\ OneJob'
      /\ \A m \in Mails : (Live(m)' => Live(m)) /\ (Unsent(m)' => Unsent(m))
  <2>1. \A m \in Mails : \A v \in Workers :
          AtWorker(m, v)' =>
             /\ AtWorker(m, v)
             /\ worker'[v].pc \in {"claimed", "sending"} =>
                  worker[v].pc \in {"claimed", "sending"}
    BY <1>2, <1>5, <1>6 DEF AtWorker
  <2> QED
    BY <1>1, <1>3, <2>1, PlacesShrink DEF Owed, AtAdmin
<1>8. LiveUnsettled' /\ DownIsEmpty'
  BY <1>3, <1>7 DEF IInv, LiveUnsettled, DownIsEmpty
<1>9. \A m \in Mails : m # m0 => accepted'[m] = accepted[m]
  BY <1>1, <1>m DEF Send, TypeOK
<1>10. /\ m0 \in Mails /\ AtWorker(m0, w) /\ ~Owed(m0)
       /\ \A i \in DOMAIN queue : ~AtQueue(m0, i)
       /\ \A v \in Workers : AtWorker(m0, v) => v = w
       /\ \A a \in Admins : ~AtAdmin(m0, a)
  BY <1>1, <1>2, <1>m, WorkerHoldsAlone
<1>11. NewUntouched'
  BY <1>3, <1>9, <1>10, MailsAreRecipients DEF IInv, NewUntouched, Owed
<1>12. AcceptedWithinLicence'
  <2>1. ~Unsent(m0)'
    <3>1. \A v \in Workers : AtWorker(m0, v)' => v = w
      BY <1>5, <1>10 DEF AtWorker
    <3>2. ~Owed(m0)' /\ (\A i \in DOMAIN queue' : ~AtQueue(m0, i)')
          /\ \A a \in Admins : ~AtAdmin(m0, a)'
      BY <1>3, <1>10 DEF Owed, AtQueue, AtAdmin
    <3> QED
      BY <3>1, <3>2, <1>6 DEF Unsent
  <2>2. Unsent(m0)
    BY <1>2, <1>10 DEF Unsent
  <2>3. accepted'[m0] \in {accepted[m0], accepted[m0] + 1}
    BY <1>1, <1>m DEF Send, TypeOK
  <2>4. accepted'[m0] + 0 <= 1 + requeues'[m0]
    BY <1>1, <1>3, <1>10, <2>2, <2>3 DEF IInv, AcceptedWithinLicence, TypeOK
  <2>5. \A m \in Mails : accepted[m] \in Nat /\ requeues[m] \in Nat
    BY <1>1 DEF TypeOK
  <2>6. ASSUME NEW m \in Mails, m # m0
        PROVE  accepted'[m] + (IF Unsent(m)' THEN 1 ELSE 0) <= 1 + requeues'[m]
    <3>1. accepted[m] + (IF Unsent(m) THEN 1 ELSE 0) <= 1 + requeues[m]
      BY DEF IInv, AcceptedWithinLicence
    <3> QED
      BY <3>1, <2>5, <2>6, <1>3, <1>7, <1>9
  <2>7. accepted'[m0] + (IF Unsent(m0)' THEN 1 ELSE 0) <= 1 + requeues'[m0]
    BY <2>1, <2>4
  <2> QED
    BY <2>6, <2>7 DEF AcceptedWithinLicence
<1> QED
  BY <1>7, <1>8, <1>11, <1>12 DEF IInv

LEMMA MarkOutcomeStep ==
  ASSUME IInv, TypeInv', NEW w \in Workers, MarkOutcome(w)
  PROVE  IInv'
<1>1. OneJob /\ TypeOK
  BY DEF IInv, TypeInv
<1>2. worker[w].pc \in Outcome /\ worker[w].pc # "idle" /\ worker[w].job \in Job
  BY <1>1, WorkerHasJob DEF MarkOutcome, Outcome
<1>3. PICK m0 \in Mails : m0 = worker[w].job.mail
  BY <1>2 DEF Job
<1>4. UNCHANGED <<queue, request, admin, accepted, requeues, up>> /\ up
  BY DEF MarkOutcome
<1>5. worker' = [worker EXCEPT ![w] = IdleState]
  BY DEF MarkOutcome
<1>6. \A m \in Mails : m # m0 => rows'[m] = rows[m]
  BY <1>1, <1>2, <1>3, MarkChangesOneRow DEF MarkOutcome, TypeOK
<1>7. /\ OneJob'
      /\ \A m \in Mails : (Live(m)' => Live(m)) /\ (Unsent(m)' => Unsent(m))
  <2>1. \A m \in Mails : \A v \in Workers :
          AtWorker(m, v)' => AtWorker(m, v) /\ worker'[v] = worker[v]
    BY <1>1, <1>5 DEF AtWorker, IdleState, TypeOK
  <2> QED
    BY <1>1, <1>4, <2>1, PlacesShrink DEF Owed, AtAdmin
<1>8. /\ ~Owed(m0)
      /\ \A i \in DOMAIN queue : ~AtQueue(m0, i)
      /\ \A v \in Workers : AtWorker(m0, v) => v = w
      /\ \A a \in Admins : ~AtAdmin(m0, a)
  BY <1>1, <1>2, <1>3, WorkerHoldsAlone
<1>9. ~Live(m0)'
  <2>1. \A v \in Workers : ~AtWorker(m0, v)'
    BY <1>1, <1>5, <1>8 DEF AtWorker, IdleState, TypeOK
  <2>2. ~Owed(m0)' /\ (\A i \in DOMAIN queue' : ~AtQueue(m0, i)')
        /\ \A a \in Admins : ~AtAdmin(m0, a)'
    BY <1>4, <1>8 DEF Owed, AtQueue, AtAdmin
  <2> QED
    BY <2>1, <2>2 DEF Live
<1>10. LiveUnsettled'
  BY <1>6, <1>7, <1>9 DEF IInv, LiveUnsettled
<1>11. NewUntouched'
  BY <1>4, <1>6, <1>8 DEF IInv, NewUntouched, Owed
<1>12. DownIsEmpty'
  BY <1>4 DEF DownIsEmpty
<1>13. AcceptedWithinLicence'
  BY <1>1, <1>4, <1>7, LicenceKept DEF IInv
<1> QED
  BY <1>7, <1>10, <1>11, <1>12, <1>13 DEF IInv

(* Retrying: reading the mail and the key moves no job.                    *)
LEMMA RetryReadKeyStep ==
  ASSUME IInv, TypeInv', NEW a \in Admins,
         RetryKey(a) \/ \E m \in Mails : RetryRead(a, m)
  PROVE  IInv'
<1>1. OneJob /\ TypeOK
  BY DEF IInv, TypeInv
<1>2. UNCHANGED <<queue, request, worker, rows, accepted, requeues, up>> /\ up
  BY DEF RetryRead, RetryKey
<1>3. \A b \in Admins : admin'[b] = admin[b] \/ admin'[b].pc # "enqueue"
  <2>1. CASE RetryKey(a)
    BY <1>1, <2>1 DEF RetryKey, RetryingMail, IdleState, TypeOK
  <2>2. CASE \E m \in Mails : RetryRead(a, m)
    BY <1>1, <2>2 DEF RetryRead, TypeOK
  <2> QED
    BY <2>1, <2>2
<1>4. /\ OneJob'
      /\ \A m \in Mails : (Live(m)' => Live(m)) /\ (Unsent(m)' => Unsent(m))
  BY <1>1, <1>2, <1>3, PlacesShrink DEF Owed, AtWorker, AtAdmin
<1>5. LiveUnsettled' /\ NewUntouched' /\ DownIsEmpty'
  BY <1>2, <1>4 DEF IInv, LiveUnsettled, NewUntouched, DownIsEmpty
<1>6. AcceptedWithinLicence'
  BY <1>1, <1>2, <1>4, LicenceKept DEF IInv
<1> QED
  BY <1>4, <1>5, <1>6 DEF IInv

(* RequeueDelivery's WHERE clause finds a mail that is nowhere: a failed   *)
(* row has no job.                                                         *)
LEMMA RetryRequeueStep ==
  ASSUME IInv, TypeInv', NEW a \in Admins, RetryRequeue(a)
  PROVE  IInv'
<1>1. OneJob /\ TypeOK
  BY DEF IInv, TypeInv
<1>2. admin[a].pc = "requeue" /\ admin[a].mail \in Mails
  BY <1>1, AdminHasMail DEF RetryRequeue
<1>3. PICK m0 \in Mails : m0 = admin[a].mail
  BY <1>2
<1>4. UNCHANGED <<queue, request, worker, accepted, up>> /\ up
  BY DEF RetryRequeue
<1>5. (\A m \in Mails : Owed(m)' <=> Owed(m))
      /\ (\A m \in Mails : \A w \in Workers : AtWorker(m, w)' <=> AtWorker(m, w))
      /\ DOMAIN queue' = DOMAIN queue
      /\ (\A m \in Mails : \A i \in DOMAIN queue : AtQueue(m, i)' <=> AtQueue(m, i))
  BY <1>4 DEF Owed, AtWorker, AtQueue
<1>6. CASE admin' = [admin EXCEPT ![a] = IdleState] /\ UNCHANGED <<rows, requeues>>
  <2>1. \A m \in Mails : \A b \in Admins : AtAdmin(m, b)' => AtAdmin(m, b)
    BY <1>1, <1>6 DEF AtAdmin, IdleState, TypeOK
  <2>2. /\ OneJob'
        /\ \A m \in Mails : (Live(m)' => Live(m)) /\ (Unsent(m)' => Unsent(m))
    BY <1>1, <1>4, <1>5, <2>1, PlacesShrink
  <2>3. LiveUnsettled' /\ NewUntouched' /\ DownIsEmpty'
    BY <1>4, <1>6, <2>2 DEF IInv, LiveUnsettled, NewUntouched, DownIsEmpty
  <2>4. AcceptedWithinLicence'
    BY <1>1, <1>4, <1>6, <2>2, LicenceKept DEF IInv
  <2> QED
    BY <2>2, <2>3, <2>4 DEF IInv
<1>7. CASE /\ Requeueable(m0)
           /\ rows' = [rows EXCEPT ![m0] = Requeued(rows[m0], admin[a].smtp)]
           /\ requeues' = [requeues EXCEPT ![m0] = @ + 1]
           /\ \A b \in Admins :
                \/ b # a /\ admin'[b] = admin[b]
                \/ b = a /\ (admin'[a] = IdleState
                             \/ admin'[a] = RetryingMail("enqueue", m0, admin[a].smtp))
  <2>1. rows[m0].status = "failed"
    BY <1>7 DEF Requeueable
  <2>2. ~Live(m0)
    BY <2>1 DEF IInv, LiveUnsettled, Pending
  <2>3. \A m \in Mails : m # m0 => rows'[m] = rows[m] /\ requeues'[m] = requeues[m]
    BY <1>1, <1>7 DEF TypeOK
  <2>4. rows'[m0].status = "queued" /\ requeues'[m0] = requeues[m0] + 1
    BY <1>1, <1>7 DEF Requeued, TypeOK
  <2>5. \A m \in Mails : \A b \in Admins :
          AtAdmin(m, b)' => (b # a /\ AtAdmin(m, b)) \/ (b = a /\ m = m0)
    BY <1>7 DEF AtAdmin, IdleState, RetryingMail
  <2>6. OneJob'
    <3>1. QueueUnique' /\ WorkersUnique'
      BY <1>1, <1>5 DEF OneJob, QueueUnique, WorkersUnique
    <3>2. AdminsUnique'
      BY <1>1, <2>2, <2>5 DEF OneJob, AdminsUnique, Live
    <3>3. PlacesDisjoint'
      BY <1>1, <1>5, <2>2, <2>5 DEF OneJob, PlacesDisjoint, Live
    <3> QED
      BY <3>1, <3>2, <3>3 DEF OneJob
  <2>7. \A m \in Mails : Live(m)' => Live(m) \/ m = m0
    BY <1>5, <2>5 DEF Live
  <2>8. LiveUnsettled'
    BY <2>3, <2>4, <2>7 DEF IInv, LiveUnsettled, Pending
  <2>9. NewUntouched'
    BY <1>4, <2>1, <2>3 DEF IInv, NewUntouched
  <2>10. DownIsEmpty'
    BY <1>4 DEF DownIsEmpty
  <2>11. AcceptedWithinLicence'
    <3>1. \A m \in Mails : m # m0 => (Unsent(m)' => Unsent(m))
      BY <1>4, <1>5, <2>5 DEF Unsent
    <3>2. \A m \in Mails : accepted[m] \in Nat /\ requeues[m] \in Nat
      BY <1>1 DEF TypeOK
    <3>3. \A m \in Mails : accepted[m] + (IF Unsent(m) THEN 1 ELSE 0) <= 1 + requeues[m]
      BY DEF IInv, AcceptedWithinLicence
    <3>4. accepted'[m0] + (IF Unsent(m0)' THEN 1 ELSE 0) <= 1 + requeues'[m0]
      BY <1>4, <2>4, <3>2, <3>3
    <3>5. ASSUME NEW m \in Mails, m # m0
          PROVE  accepted'[m] + (IF Unsent(m)' THEN 1 ELSE 0) <= 1 + requeues'[m]
      BY <1>4, <2>3, <3>1, <3>2, <3>3, <3>5
    <3> QED
      BY <3>4, <3>5 DEF AcceptedWithinLicence
  <2> QED
    BY <2>6, <2>8, <2>9, <2>10, <2>11 DEF IInv
<1>8. \/ admin' = [admin EXCEPT ![a] = IdleState] /\ UNCHANGED <<rows, requeues>>
      \/ /\ Requeueable(m0)
         /\ rows' = [rows EXCEPT ![m0] = Requeued(rows[m0], admin[a].smtp)]
         /\ requeues' = [requeues EXCEPT ![m0] = @ + 1]
         /\ \/ admin' = [admin EXCEPT ![a] = RetryingMail("enqueue", m0, admin[a].smtp)]
            \/ admin' = [admin EXCEPT ![a] = IdleState]
  BY <1>3 DEF RetryRequeue
<1>9. admin \in [Admins -> {admin[b] : b \in Admins}]
  BY <1>1 DEF TypeOK
<1> QED
  BY <1>6, <1>7, <1>8, <1>9

LEMMA RetryEnqueueStep ==
  ASSUME IInv, TypeInv', NEW a \in Admins, RetryEnqueue(a)
  PROVE  IInv'
<1> DEFINE n == Len(queue)
<1>1. OneJob /\ TypeOK
  BY DEF IInv, TypeInv
<1>2. admin[a].pc = "enqueue" /\ admin[a].mail \in Mails
  BY <1>1, AdminHasMail DEF RetryEnqueue
<1>3. PICK m0 \in Mails : m0 = admin[a].mail
  BY <1>2
<1>4. UNCHANGED <<request, worker, rows, accepted, requeues, up>> /\ up
  BY DEF RetryEnqueue
<1>5. (\A m \in Mails : Owed(m)' <=> Owed(m))
      /\ (\A m \in Mails : \A w \in Workers : AtWorker(m, w)' <=> AtWorker(m, w))
  BY <1>4 DEF Owed, AtWorker
<1>6. n \in Nat /\ queue \in Seq(Job)
  BY <1>1 DEF TypeOK
<1>7. /\ DOMAIN queue = 1..n
      /\ DOMAIN queue' = 1..(n + 1)
      /\ \A m \in Mails : \A i \in 1..(n + 1) :
           AtQueue(m, i)' <=> (i \in 1..n /\ AtQueue(m, i)) \/ (i = n + 1 /\ m = m0)
  BY <1>3, <1>6 DEF AtQueue, RetryEnqueue, NewJob
<1>8. AtAdmin(m0, a)
  BY <1>2, <1>3 DEF AtAdmin
<1>9. \A m \in Mails : \A b \in Admins : AtAdmin(m, b)' => b # a /\ AtAdmin(m, b)
  BY <1>1 DEF AtAdmin, RetryEnqueue, IdleState, TypeOK
<1>10. /\ ~Owed(m0)
       /\ \A i \in DOMAIN queue : ~AtQueue(m0, i)
       /\ \A w \in Workers : ~AtWorker(m0, w)
       /\ \A b \in Admins : AtAdmin(m0, b) => b = a
  BY <1>1, <1>8 DEF OneJob, PlacesDisjoint, AdminsUnique
<1>11. QueueUnique'
  BY <1>1, <1>6, <1>7, <1>10 DEF OneJob, QueueUnique
<1>12. WorkersUnique' /\ AdminsUnique'
  BY <1>1, <1>5, <1>9 DEF OneJob, WorkersUnique, AdminsUnique
<1>13. PlacesDisjoint'
  <2>1. PlacesDisjoint
    BY <1>1 DEF OneJob
  <2> QED
    BY <2>1, <1>5, <1>6, <1>7, <1>9, <1>10 DEF PlacesDisjoint
<1>14. \A m \in Mails : Live(m)' => Live(m)
  BY <1>5, <1>6, <1>7, <1>8, <1>9 DEF Live
<1>15. \A m \in Mails : Unsent(m)' => Unsent(m)
  BY <1>4, <1>5, <1>6, <1>7, <1>8, <1>9 DEF Unsent
<1>16. LiveUnsettled' /\ NewUntouched' /\ DownIsEmpty'
  BY <1>4, <1>14 DEF IInv, LiveUnsettled, NewUntouched, DownIsEmpty
<1>17. AcceptedWithinLicence'
  BY <1>1, <1>4, <1>15, LicenceKept DEF IInv
<1> QED
  BY <1>11, <1>12, <1>13, <1>16, <1>17 DEF IInv, OneJob

(* Steps that touch neither jobs nor history: edits of keys, stuttering.   *)
LEMMA OtherStep ==
  ASSUME IInv, TypeInv',
         UNCHANGED <<up, rows, queue, request, worker, admin, accepted, requeues>>
  PROVE  IInv'
<1>1. OneJob /\ TypeOK
  BY DEF IInv, TypeInv
<1>2. /\ OneJob'
      /\ \A m \in Mails : (Live(m)' => Live(m)) /\ (Unsent(m)' => Unsent(m))
  BY <1>1, PlacesShrink DEF Owed, AtWorker, AtAdmin
<1>3. LiveUnsettled' /\ NewUntouched' /\ DownIsEmpty'
  BY <1>2 DEF IInv, LiveUnsettled, NewUntouched, DownIsEmpty
<1>4. AcceptedWithinLicence'
  BY <1>1, <1>2, LicenceKept DEF IInv
<1> QED
  BY <1>2, <1>3, <1>4 DEF IInv

LEMMA CrashStep ==
  ASSUME IInv, TypeInv', Crash
  PROVE  IInv'
<1>1. OneJob /\ TypeOK
  BY DEF IInv, TypeInv
<1>2. UNCHANGED <<rows, accepted, requeues>> /\ queue' = <<>>
  BY DEF Crash
<1>3. \A r \in Requests : request'[r].pc \in {"idle", "done"}
        /\ (request'[r].pc = "idle" => request[r].pc = "idle")
  BY DEF Crash, IdleState, DoneState
<1>4. (\A w \in Workers : worker'[w].pc = "idle") /\ \A a \in Admins : admin'[a].pc = "idle"
  BY DEF Crash, IdleState
<1>5. \A m \in Mails : Owed(m)' => Owed(m)
  BY <1>3, MailsAreRecipients DEF Owed
<1>6. /\ OneJob'
      /\ \A m \in Mails : (Live(m)' => Live(m)) /\ (Unsent(m)' => Unsent(m))
  BY <1>1, <1>2, <1>4, <1>5, PlacesShrink DEF AtWorker, AtAdmin
<1>7. LiveUnsettled'
  BY <1>2, <1>6 DEF IInv, LiveUnsettled
<1>8. NewUntouched'
  BY <1>2, <1>3, MailsAreRecipients DEF IInv, NewUntouched
<1>9. DownIsEmpty'
  BY <1>2, <1>3, <1>4 DEF DownIsEmpty
<1>10. AcceptedWithinLicence'
  BY <1>1, <1>2, <1>6, LicenceKept DEF IInv
<1> QED
  BY <1>6, <1>7, <1>8, <1>9, <1>10 DEF IInv

(* FailInterruptedDeliveries runs while nothing is under way: the rows it  *)
(* changes belong to no job.                                               *)
LEMMA RestartStep ==
  ASSUME IInv, TypeInv', Restart
  PROVE  IInv'
<1>1. OneJob /\ TypeOK
  BY DEF IInv, TypeInv
<1>2. UNCHANGED <<queue, request, worker, admin, accepted, requeues>> /\ up' = TRUE
  BY DEF Restart
<1>3. /\ OneJob'
      /\ \A m \in Mails : (Live(m)' => Live(m)) /\ (Unsent(m)' => Unsent(m))
  BY <1>1, <1>2, PlacesShrink DEF Owed, AtWorker, AtAdmin
<1>4. \A m \in Mails : rows[m].status = "none" => rows'[m] = rows[m]
  BY <1>1 DEF Restart, Interrupted, Pending, TypeOK
<1>5. \A m \in Mails : Live(m) => request[m[1]].pc = "idle"
  BY MailsAreRecipients DEF IInv, DownIsEmpty, Restart, Live, Owed, AtWorker, AtAdmin, AtQueue
<1>6. LiveUnsettled'
  BY <1>3, <1>4, <1>5 DEF IInv, LiveUnsettled, NewUntouched
<1>7. NewUntouched'
  BY <1>2, <1>4 DEF IInv, NewUntouched
<1>8. DownIsEmpty'
  BY <1>2 DEF DownIsEmpty
<1>9. AcceptedWithinLicence'
  BY <1>1, <1>2, <1>3, LicenceKept DEF IInv
<1> QED
  BY <1>3, <1>6, <1>7, <1>8, <1>9 DEF IInv

LEMMA InvInit == Init => IInv
<1> SUFFICES ASSUME Init PROVE IInv
  OBVIOUS
<1>1. TypeInv
  BY TypeInit
<1>2. /\ queue = <<>>
      /\ \A w \in Workers : worker[w].pc = "idle"
      /\ \A a \in Admins : admin[a].pc = "idle"
      /\ \A r \in Requests : request[r].pc = "idle"
      /\ up
  BY DEF Init, IdleState
<1>3. OneJob
  BY <1>2 DEF OneJob, QueueUnique, WorkersUnique, AdminsUnique, PlacesDisjoint,
              AtQueue, AtWorker, AtAdmin
<1>4. \A m \in Mails : rows[m].status = "none" /\ accepted[m] = 0 /\ requeues[m] = 0
  BY DEF Init, NoRow
<1>5. LiveUnsettled /\ NewUntouched /\ DownIsEmpty
  BY <1>2, <1>4 DEF LiveUnsettled, NewUntouched, DownIsEmpty
<1>6. AcceptedWithinLicence
  BY <1>4 DEF AcceptedWithinLicence
<1> QED
  BY <1>1, <1>3, <1>5, <1>6 DEF IInv

LEMMA InvStep == IInv /\ [Next]_vars => IInv'
<1> SUFFICES ASSUME IInv, [Next]_vars PROVE IInv'
  OBVIOUS
<1>0. TypeInv'
  BY TypeStep DEF IInv
<1>1. ASSUME NEW r \in Requests, Admit(r) \/ RecordMail(r) \/ Enqueue(r) PROVE IInv'
  BY <1>0, <1>1, AdmitStep, RecordMailStep, EnqueueStep
<1>2. ASSUME NEW w \in Workers, Take(w) \/ MarkSending(w) \/ Send(w) \/ MarkOutcome(w)
      PROVE  IInv'
  BY <1>0, <1>2, TakeStep, MarkSendingStep, SendStep, MarkOutcomeStep
<1>3. ASSUME NEW a \in Admins,
             \/ \E m \in Mails : RetryRead(a, m)
             \/ RetryKey(a) \/ RetryRequeue(a) \/ RetryEnqueue(a)
      PROVE  IInv'
  BY <1>0, <1>3, RetryReadKeyStep, RetryRequeueStep, RetryEnqueueStep
<1>4. CASE Editing
  BY <1>0, <1>4, OtherStep DEF Editing, SetKeyActive, SetKeySMTP, DeleteKey
<1>5. CASE Crash
  BY <1>0, <1>5, CrashStep
<1>6. CASE Restart
  BY <1>0, <1>6, RestartStep
<1>7. CASE UNCHANGED vars
  BY <1>0, <1>7, OtherStep DEF vars
<1> QED
  BY <1>1, <1>2, <1>3, <1>4, <1>5, <1>6, <1>7 DEF Next, Submitting, Delivering, Retrying

----------------------------------------------------------------------------
(* The invariant holds in every behaviour of the service.                  *)
THEOREM Invariance == Spec => []IInv
BY InvInit, InvStep, PTL DEF Spec

(* Type correctness: the queue channel never exceeds its capacity, a job   *)
(* always names a mail of its request, and the history holds its columns.  *)
THEOREM TypeCorrect == Spec => []TypeOK
<1>1. IInv => TypeOK
  BY DEF IInv, TypeInv
<1> QED
  BY <1>1, Invariance, PTL

(* A mail has at most one job, whoever retries it and whatever fails.      *)
THEOREM OneJobTheorem == Spec => []OneJobPerMail
<1>1. IInv => OneJobPerMail
  <2> SUFFICES ASSUME IInv, NEW m \in Mails, NEW p \in Places(m), NEW q \in Places(m)
               PROVE  p = q
    BY DEF OneJobPerMail
  <2>1. ASSUME NEW x \in Places(m)
        PROVE  \/ x = <<"request", 0>> /\ Owed(m)
               \/ \E i \in DOMAIN queue : x = <<"queue", i>> /\ AtQueue(m, i)
               \/ \E w \in Workers : x = <<"worker", w>> /\ AtWorker(m, w)
               \/ \E a \in Admins : x = <<"admin", a>> /\ AtAdmin(m, a)
    BY <2>1 DEF Places
  <2>2. OneJob
    BY DEF IInv
  <2> QED
    BY <2>1, <2>2
    DEF OneJob, QueueUnique, WorkersUnique, AdminsUnique, PlacesDisjoint
<1> QED
  BY <1>1, Invariance, PTL

(* No mail reaches a server more often than it was submitted and retried.  *)
THEOREM LicenceTheorem == Spec => []AcceptedWithinLicence
<1>1. IInv => AcceptedWithinLicence
  BY DEF IInv
<1> QED
  BY <1>1, Invariance, PTL

(* A mail on its way is never shown as settled, so it cannot be retried.   *)
THEOREM PendingTheorem == Spec => []LiveJobIsPending
<1>1. IInv => LiveJobIsPending
  <2> SUFFICES ASSUME IInv, NEW m \in Mails, Places(m) # {}
               PROVE  rows[m].status \in Pending \cup {"none"}
    BY DEF LiveJobIsPending
  <2>1. Live(m)
    BY DEF Places, Live
  <2> QED
    BY <2>1 DEF IInv, LiveUnsettled
<1> QED
  BY <1>1, Invariance, PTL

(* A sent or simulated mail is never touched again.                        *)
THEOREM SentIsFinalTheorem == Spec => SentIsFinal
<1> DEFINE Kept == \A m \in Mails :
             rows[m].status \in {"sent", "simulated"} =>
               rows'[m] = rows[m] /\ accepted'[m] = accepted[m]
<1>1. ASSUME IInv, [Next]_vars, NEW m \in Mails, rows[m].status \in {"sent", "simulated"}
      PROVE  rows'[m] = rows[m] /\ accepted'[m] = accepted[m]
  <2>1. OneJob /\ TypeOK /\ ~Live(m) /\ request[m[1]].pc # "record"
    BY <1>1 DEF IInv, TypeInv, LiveUnsettled, Pending, NewUntouched
  <2>2. \A w \in Workers : worker[w].pc # "idle" => worker[w].job \in Job /\ worker[w].job.mail # m
    BY <2>1, WorkerHasJob DEF Live, AtWorker
  <2>3. ASSUME NEW r \in Requests, RecordMail(r) PROVE rows'[m] = rows[m] /\ accepted' = accepted
    BY <2>1, <2>3 DEF RecordMail
  <2>4. ASSUME NEW w \in Workers, MarkSending(w) \/ MarkOutcome(w)
        PROVE  rows'[m] = rows[m] /\ accepted' = accepted
    <3>1. worker[w].pc # "idle" /\ accepted' = accepted
      BY <2>4 DEF MarkSending, MarkOutcome, Outcome
    <3>2. worker[w].job \in Job /\ worker[w].job.mail # m
      BY <2>2, <3>1
    <3>3. PICK status \in {"sending"} \cup Outcome : Mark(worker[w].job, status)
      BY <2>4 DEF MarkSending, MarkOutcome
    <3>4. rows \in [Mails -> Row]
      BY <2>1 DEF TypeOK
    <3> QED
      BY <3>1, <3>2, <3>3, <3>4, MarkChangesOneRow
  <2>5. ASSUME NEW w \in Workers, Send(w)
        PROVE  rows' = rows /\ accepted'[m] = accepted[m]
    BY <2>1, <2>2, <2>5 DEF Send, TypeOK
  <2>6. ASSUME NEW a \in Admins, RetryRequeue(a)
        PROVE  rows'[m] = rows[m] /\ accepted' = accepted
    BY <1>1, <2>1, <2>6 DEF RetryRequeue, Requeueable, TypeOK
  <2>7. CASE Restart
    BY <1>1, <2>1, <2>7 DEF Restart, Interrupted, Pending, TypeOK
  <2>8. CASE UNCHANGED <<rows, accepted>>
    BY <2>8
  <2>9. \/ UNCHANGED <<rows, accepted>>
        \/ Restart
        \/ \E r \in Requests : RecordMail(r)
        \/ \E w \in Workers : MarkSending(w) \/ MarkOutcome(w) \/ Send(w)
        \/ \E a \in Admins : RetryRequeue(a)
    BY <1>1 DEF Next, Submitting, Delivering, Retrying, Editing, vars, Admit, Enqueue,
      Take, RetryRead, RetryKey, RetryEnqueue, SetKeyActive, SetKeySMTP, DeleteKey, Crash
  <2> QED
    BY <2>3, <2>4, <2>5, <2>6, <2>7, <2>8, <2>9
<1>2. IInv /\ [Next]_vars => [Kept]_vars
  BY <1>1
<1> QED
  BY <1>2, Invariance, PTL DEF Spec, SentIsFinal
=============================================================================
