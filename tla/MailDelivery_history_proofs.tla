--------------------- MODULE MailDelivery_history_proofs ---------------------
(* What the mail history says of a mail is true: proofs that its server is *)
(* the one that took the mail, that its attempts are counted, and that a   *)
(* mail in progress has a job, for every instance of MailDelivery. And     *)
(* MailDelivery implements MailHistory: with the queue, workers, handlers, *)
(* keys and servers hidden, all that can happen to a mail is what the      *)
(* abstract history allows.                                                *)
EXTENDS MailDeliveryRefinement, MailDelivery_proofs

(* A mail's job, wherever it is, with what it carries.                     *)
Carries(m, recorded, smtp) ==
  \/ /\ request[m[1]].pc = "enqueue" /\ m[2] >= request[m[1]].next
     /\ recorded = request[m[1]].recorded /\ smtp = request[m[1]].smtp
  \/ \E i \in DOMAIN queue :
       AtQueue(m, i) /\ recorded = queue[i].recorded /\ smtp = queue[i].smtp
  \/ \E w \in Workers :
       AtWorker(m, w) /\ recorded = worker[w].job.recorded /\ smtp = worker[w].job.smtp
  \/ \E a \in Admins : AtAdmin(m, a) /\ recorded = TRUE /\ smtp = admin[a].smtp

(* The row of a recorded job names the job's server already; an unrecorded *)
(* job has no row, unless a COMMIT was applied and its answer lost.        *)
JobKnows(m, recorded, smtp) ==
  /\ recorded = TRUE => rows[m].status # "none" /\ rows[m].server = Route(smtp)
  /\ recorded = FALSE => "commit" \in Faults \/ rows[m].status = "none"

JobsKnow ==
  \A m \in Mails, recorded \in BOOLEAN, smtp \in SMTP :
    Carries(m, recorded, smtp) => JobKnows(m, recorded, smtp)

(* A worker that holds an outcome knows the server it is from.             *)
TookIt(w) ==
  /\ worker[w].pc = "sent" =>
       /\ Route(worker[w].job.smtp) # NoServer
       /\ Route(worker[w].job.smtp) \in via[worker[w].job.mail]
  /\ worker[w].pc = "simulated" =>
       /\ Route(worker[w].job.smtp) = NoServer
       /\ NoServer \in via[worker[w].job.mail]

OutcomesKnow == \A w \in Workers : TookIt(w)

PendingLive ==
  Faults \subseteq {"record", "quit", "crash"} =>
    \A m \in Mails : up /\ rows[m].status \in Pending => Live(m)

(* A job whose attempt the history has not counted yet ...                 *)
Unmarked(m) ==
  \/ Owed(m)
  \/ \E i \in DOMAIN queue : AtQueue(m, i)
  \/ \E w \in Workers : AtWorker(m, w) /\ worker[w].pc = "claimed"
  \/ \E a \in Admins : AtAdmin(m, a)

(* ... and one whose attempt is counted and under way.                     *)
AtSender(m) == \E w \in Workers : AtWorker(m, w) /\ worker[w].pc = "sending"

UnmarkedNotSending == \A m \in Mails : Unmarked(m) => rows[m].status # "sending"

AttemptsBound ==
  \A m \in Mails :
    rows[m].attempts + (IF Unmarked(m) THEN 1 ELSE 0) <= 1 + requeues[m]

AttemptsCover ==
  Faults \cap {"record", "commit", "mark"} = {} =>
    \A m \in Mails : rows[m].status # "none" =>
      accepted[m] + (IF AtSender(m) THEN 1 ELSE 0) <= rows[m].attempts

HInv ==
  /\ JobsKnow /\ OutcomesKnow /\ HistoryNamesServer
  /\ PendingLive
  /\ UnmarkedNotSending /\ AttemptsBound /\ AttemptsCover

----------------------------------------------------------------------------
LEMMA RowFields ==
  ASSUME TypeOK, NEW m \in Mails
  PROVE  /\ rows[m].attempts \in Nat /\ accepted[m] \in Nat /\ requeues[m] \in Nat
         /\ rows[m].status \in Status
BY DEF TypeOK, Row

LEMMA CarriedIsLive ==
  ASSUME NEW m \in Mails, NEW recorded, NEW smtp, Carries(m, recorded, smtp)
  PROVE  Live(m)
BY DEF Carries, Live, Owed

LEMMA InitH == Init => HInv
<1> SUFFICES ASSUME Init PROVE HInv
  OBVIOUS
<1>1. /\ queue = <<>>
      /\ \A w \in Workers : worker[w].pc = "idle"
      /\ \A a \in Admins : admin[a].pc = "idle"
      /\ \A r \in Requests : request[r].pc = "idle"
  BY DEF Init, IdleState
<1>2. \A m \in Mails : /\ rows[m].status = "none" /\ rows[m].attempts = 0
                       /\ requeues[m] = 0
  BY DEF Init, NoRow
<1>3. JobsKnow
  BY <1>1, MailsAreRecipients DEF JobsKnow, Carries, AtQueue, AtWorker, AtAdmin
<1>4. OutcomesKnow /\ HistoryNamesServer
  BY <1>1, <1>2 DEF OutcomesKnow, TookIt, HistoryNamesServer
<1>5. PendingLive /\ UnmarkedNotSending /\ AttemptsBound /\ AttemptsCover
  BY <1>2 DEF PendingLive, Pending, UnmarkedNotSending, AttemptsBound, AttemptsCover
<1> QED
  BY <1>3, <1>4, <1>5 DEF HInv

(* Steps that leave the history alone and hand jobs on as they are, or     *)
(* drop them all.                                                          *)
LEMMA QuietStep ==
  ASSUME IInv, HInv, UNCHANGED <<rows, defaultSMTP, accepted, via, requeues>>,
         \A m \in Mails, recorded \in BOOLEAN, smtp \in SMTP :
           Carries(m, recorded, smtp)' => Carries(m, recorded, smtp),
         \A m \in Mails : Unmarked(m)' => Unmarked(m),
         \A w \in Workers :
           worker'[w].pc \in {"sending"} \cup Outcome => worker'[w] = worker[w],
         up' => up /\ \A m \in Mails : Live(m) => Live(m)'
  PROVE  HInv'
<1>1. JobsKnow'
  BY DEF HInv, JobsKnow, JobKnows, Route
<1>2. OutcomesKnow'
  BY DEF HInv, OutcomesKnow, TookIt, Route, Outcome
<1>3. HistoryNamesServer' /\ PendingLive' /\ UnmarkedNotSending'
  BY DEF HInv, HistoryNamesServer, PendingLive, UnmarkedNotSending
<1>4. AttemptsBound'
  BY RowFields DEF IInv, TypeInv, HInv, AttemptsBound
<1>5. AttemptsCover'
  <2>1. \A m \in Mails : AtSender(m)' => AtSender(m)
    BY DEF AtSender, AtWorker
  <2> QED
    BY <2>1, RowFields DEF IInv, TypeInv, HInv, AttemptsCover
<1> QED
  BY <1>1, <1>2, <1>3, <1>4, <1>5 DEF HInv

(* A step that hands jobs on, each with what it carries, and loses none.   *)
Moves ==
  /\ \A m \in Mails, recorded \in BOOLEAN, smtp \in SMTP :
       Carries(m, recorded, smtp)' => Carries(m, recorded, smtp)
  /\ \A m \in Mails : Unmarked(m)' => Unmarked(m)
  /\ \A w \in Workers :
       worker'[w].pc \in {"sending"} \cup Outcome => worker'[w] = worker[w]
  /\ \A m \in Mails : Live(m) => Live(m)'

HistoryKept == UNCHANGED <<up, rows, defaultSMTP, accepted, via, requeues>>

LEMMA MovesQuiet ==
  ASSUME IInv, HInv, Moves, HistoryKept
  PROVE  HInv'
BY QuietStep DEF Moves, HistoryKept

LEMMA AdmitMoves ==
  ASSUME IInv, NEW r \in Requests, Admit(r)
  PROVE  Moves /\ HistoryKept
<1>1. TypeOK
  BY DEF IInv, TypeInv
<1>2. UNCHANGED <<up, rows, defaultSMTP, queue, worker, admin, accepted, via, requeues>>
  BY DEF Admit
<1>3. \A s \in Requests :
        \/ request'[s] = request[s]
        \/ request[s].pc = "idle" /\ request'[s].pc = "record"
  BY <1>1 DEF Admit, TypeOK
<1>4. \A m \in Mails : Owed(m)' <=> Owed(m)
  BY <1>3, MailsAreRecipients DEF Owed
<1>5. \A m \in Mails, recorded \in BOOLEAN, smtp \in SMTP :
        Carries(m, recorded, smtp)' => Carries(m, recorded, smtp)
  BY <1>2, <1>3, MailsAreRecipients DEF Carries, AtQueue, AtWorker, AtAdmin
<1>6. \A m \in Mails : (Live(m) => Live(m)') /\ (Unmarked(m)' => Unmarked(m))
  BY <1>2, <1>4 DEF Live, Unmarked, AtQueue, AtWorker, AtAdmin
<1> QED
  BY <1>2, <1>5, <1>6 DEF Moves, HistoryKept

(* The first mail that is owed enters the queue with what its request      *)
(* knows.                                                                  *)
LEMMA EnqueueMoves ==
  ASSUME IInv, NEW r \in Requests, Enqueue(r)
  PROVE  Moves /\ HistoryKept
<1>1. TypeOK /\ queue \in Seq(Job)
  BY DEF IInv, TypeInv, TypeOK
<1>2. PICK n \in Nat : n = Len(queue)
  BY <1>1
<1>3. UNCHANGED <<up, rows, defaultSMTP, worker, admin, accepted, via, requeues>>
  BY DEF Enqueue
<1>4. request[r].pc = "enqueue" /\ request[r].next \in 1..Size[r] /\ Size[r] \in Nat
  BY ConstantsAssumption DEF Enqueue, IInv, TypeInv, RequestsInRange
<1>5. PICK m0 \in Mails : m0 = <<r, request[r].next>>
  BY <1>4, MailsAreRecipients
<1>6. PICK job \in Job :
        job = NewJob(m0, request[r].recorded, request[r].smtp)
  BY <1>1, <1>4, RequestHasSMTP DEF NewJob, Job
<1>7. queue' = Append(queue, job)
  BY <1>5, <1>6 DEF Enqueue
<1>8. /\ DOMAIN queue = 1..n /\ DOMAIN queue' = 1..(n + 1)
      /\ \A i \in 1..n : queue'[i] = queue[i]
      /\ queue'[n + 1] = job
  BY <1>1, <1>2, <1>7
<1>9. \A s \in Requests :
        \/ s # r /\ request'[s] = request[s]
        \/ s = r /\ request'[s] = DoneState
        \/ s = r /\ request'[s] = Enqueuing(request[r].smtp, request[r].recorded,
                                            request[r].next + 1)
  BY <1>1 DEF Enqueue, TypeOK
<1>10. \A m \in Mails : Owed(m)' => Owed(m)
  BY <1>4, <1>9, MailsAreRecipients DEF Owed, Enqueuing, DoneState
<1>11. Owed(m0)
  BY <1>4, <1>5 DEF Owed
<1>12. \A m \in Mails : Owed(m) => Owed(m)' \/ m = m0
  <2>1. ASSUME NEW m \in Mails, m[1] # r PROVE Owed(m) => Owed(m)'
    BY <1>9, <2>1, MailsAreRecipients DEF Owed
  <2>2. ASSUME NEW m \in Mails, m[1] = r, m # m0, Owed(m) PROVE Owed(m)'
    <3>1. m[2] \in 1..Size[r] /\ m = <<r, m[2]>>
      BY <2>2, MailsAreRecipients
    <3>2. m[2] > request[r].next
      BY <1>4, <1>5, <2>2, <3>1 DEF Owed
    <3>3. request[r].next # Size[r]
      BY <1>4, <3>1, <3>2
    <3>4. request'[r].pc = "enqueue" /\ request'[r].next = request[r].next + 1
      BY <1>1, <3>3 DEF Enqueue, Enqueuing, TypeOK
    <3> QED
      BY <1>4, <2>2, <3>1, <3>2, <3>4 DEF Owed
  <2> QED
    BY <2>1, <2>2
<1>13. \A m \in Mails : \A i \in 1..(n + 1) :
         AtQueue(m, i)' <=> (i \in 1..n /\ AtQueue(m, i)) \/ (i = n + 1 /\ m = m0)
  BY <1>6, <1>8 DEF AtQueue, NewJob
<1>14. \A m \in Mails, recorded \in BOOLEAN, smtp \in SMTP :
         Carries(m, recorded, smtp)' => Carries(m, recorded, smtp)
  <2> SUFFICES ASSUME NEW m \in Mails, NEW recorded \in BOOLEAN, NEW smtp \in SMTP,
                      Carries(m, recorded, smtp)'
               PROVE  Carries(m, recorded, smtp)
    OBVIOUS
  <2>1. CASE /\ request'[m[1]].pc = "enqueue" /\ m[2] >= request'[m[1]].next
             /\ recorded = request'[m[1]].recorded /\ smtp = request'[m[1]].smtp
    BY <1>4, <1>9, <2>1, MailsAreRecipients DEF Carries, Enqueuing, DoneState
  <2>2. ASSUME NEW i \in DOMAIN queue', AtQueue(m, i)',
               recorded = queue'[i].recorded, smtp = queue'[i].smtp
        PROVE  Carries(m, recorded, smtp)
    <3>1. CASE i \in 1..n /\ AtQueue(m, i)
      BY <1>8, <2>2, <3>1 DEF Carries
    <3>2. CASE i = n + 1 /\ m = m0
      BY <1>4, <1>5, <1>6, <1>8, <2>2, <3>2 DEF Carries, NewJob
    <3> QED
      BY <1>8, <1>13, <2>2, <3>1, <3>2
  <2>3. CASE \/ \E w \in Workers : /\ AtWorker(m, w)' /\ recorded = worker'[w].job.recorded
                                   /\ smtp = worker'[w].job.smtp
             \/ \E a \in Admins : AtAdmin(m, a)' /\ recorded = TRUE /\ smtp = admin'[a].smtp
    BY <1>3, <2>3 DEF Carries, AtWorker, AtAdmin
  <2> QED
    BY <2>1, <2>2, <2>3 DEF Carries
<1>15. \A m \in Mails : Unmarked(m)' => Unmarked(m)
  BY <1>3, <1>8, <1>10, <1>11, <1>13 DEF Unmarked, AtWorker, AtAdmin
<1>16. \A m \in Mails : Live(m) => Live(m)'
  <2>1. \A m \in Mails : (\E i \in DOMAIN queue : AtQueue(m, i)) \/ m = m0 =>
          \E i \in DOMAIN queue' : AtQueue(m, i)'
    BY <1>2, <1>8, <1>13
  <2> QED
    BY <1>3, <1>12, <2>1 DEF Live, AtWorker, AtAdmin
<1> QED
  BY <1>3, <1>14, <1>15, <1>16 DEF Moves, HistoryKept

(* The head of the queue goes to a worker as it is.                        *)
LEMMA TakeMoves ==
  ASSUME IInv, NEW w \in Workers, Take(w)
  PROVE  Moves /\ HistoryKept
<1>1. TypeOK /\ queue \in Seq(Job) /\ queue # <<>>
  BY DEF IInv, TypeInv, TypeOK, Take
<1>2. PICK n \in Nat : n = Len(queue)
  BY <1>1
<1>3. PICK job \in Job : job = queue[1]
  BY <1>1
<1>4. n > 0 /\ Head(queue) = job
  BY <1>1, <1>2, <1>3
<1>5. UNCHANGED <<up, rows, defaultSMTP, request, admin, accepted, via, requeues>>
  BY DEF Take
<1>6. /\ DOMAIN queue = 1..n /\ DOMAIN queue' = 1..(n - 1)
      /\ \A i \in 1..(n - 1) : queue'[i] = queue[i + 1]
  BY <1>1, <1>2 DEF Take
<1>7. /\ worker[w].pc = "idle"
      /\ worker'[w].pc = "claimed" /\ worker'[w].job = job
      /\ \A v \in Workers : v # w => worker'[v] = worker[v]
  BY <1>1, <1>4 DEF Take, Working, TypeOK
<1>8. \A m \in Mails, recorded \in BOOLEAN, smtp \in SMTP :
        Carries(m, recorded, smtp)' => Carries(m, recorded, smtp)
  <2> SUFFICES ASSUME NEW m \in Mails, NEW recorded \in BOOLEAN, NEW smtp \in SMTP,
                      Carries(m, recorded, smtp)'
               PROVE  Carries(m, recorded, smtp)
    OBVIOUS
  <2>1. ASSUME NEW i \in DOMAIN queue', AtQueue(m, i)',
               recorded = queue'[i].recorded, smtp = queue'[i].smtp
        PROVE  Carries(m, recorded, smtp)
    <3>1. i + 1 \in DOMAIN queue /\ queue'[i] = queue[i + 1]
      BY <1>4, <1>6, <2>1
    <3> QED
      BY <2>1, <3>1 DEF Carries, AtQueue
  <2>2. ASSUME NEW v \in Workers, AtWorker(m, v)',
               recorded = worker'[v].job.recorded, smtp = worker'[v].job.smtp
        PROVE  Carries(m, recorded, smtp)
    <3>1. CASE v = w
      BY <1>3, <1>4, <1>6, <1>7, <2>2, <3>1 DEF Carries, AtQueue, AtWorker
    <3>2. CASE v # w
      BY <1>7, <2>2, <3>2 DEF Carries, AtWorker
    <3> QED
      BY <3>1, <3>2
  <2> QED
    BY <1>5, <2>1, <2>2 DEF Carries, AtAdmin
<1>9. \A m \in Mails : (\E i \in DOMAIN queue' : AtQueue(m, i)') =>
        \E i \in DOMAIN queue : AtQueue(m, i)
  <2> SUFFICES ASSUME NEW m \in Mails, NEW i \in DOMAIN queue', AtQueue(m, i)'
               PROVE  \E j \in DOMAIN queue : AtQueue(m, j)
    OBVIOUS
  <2>1. i + 1 \in DOMAIN queue /\ queue'[i] = queue[i + 1]
    BY <1>4, <1>6
  <2> QED
    BY <2>1 DEF AtQueue
<1>10. \A m \in Mails : AtWorker(m, w)' => 1 \in DOMAIN queue /\ AtQueue(m, 1)
  BY <1>3, <1>4, <1>6, <1>7 DEF AtWorker, AtQueue
<1>11. \A m \in Mails : \A i \in DOMAIN queue : AtQueue(m, i) =>
         AtWorker(m, w)' \/ \E j \in DOMAIN queue' : AtQueue(m, j)'
  <2> SUFFICES ASSUME NEW m \in Mails, NEW i \in DOMAIN queue, AtQueue(m, i), i # 1
               PROVE  \E j \in DOMAIN queue' : AtQueue(m, j)'
    BY <1>3, <1>7 DEF AtWorker, AtQueue
  <2>1. i - 1 \in DOMAIN queue' /\ queue'[i - 1] = queue[i]
    BY <1>4, <1>6
  <2> QED
    BY <2>1 DEF AtQueue
<1>12. \A m \in Mails : Unmarked(m)' => Unmarked(m)
  BY <1>5, <1>7, <1>9, <1>10 DEF Unmarked, Owed, AtWorker, AtAdmin
<1>13. \A m \in Mails : Live(m) => Live(m)'
  <2>1. \A m \in Mails : \A v \in Workers : AtWorker(m, v) => AtWorker(m, v)'
    BY <1>7 DEF AtWorker
  <2> QED
    BY <1>5, <1>11, <2>1 DEF Live, Owed, AtAdmin
<1>14. \A v \in Workers :
         worker'[v].pc \in {"sending"} \cup Outcome => worker'[v] = worker[v]
  BY <1>7 DEF Outcome
<1> QED
  BY <1>5, <1>8, <1>12, <1>13, <1>14 DEF Moves, HistoryKept

(* Reading the mail or its key for a retry moves no job.                   *)
LEMMA RetryReadKeyMoves ==
  ASSUME IInv, NEW a \in Admins,
         RetryKey(a) \/ \E m \in Mails : RetryRead(a, m)
  PROVE  Moves /\ HistoryKept
<1>1. TypeOK
  BY DEF IInv, TypeInv
<1>2. UNCHANGED <<up, rows, defaultSMTP, queue, request, worker, accepted, via, requeues>>
  BY DEF RetryRead, RetryKey
<1>3. \A b \in Admins : \/ admin'[b] = admin[b]
                        \/ admin'[b].pc # "enqueue" /\ admin[b].pc # "enqueue"
  <2>1. CASE RetryKey(a)
    BY <1>1, <2>1 DEF RetryKey, RetryingMail, IdleState, TypeOK
  <2>2. CASE \E m \in Mails : RetryRead(a, m)
    BY <1>1, <2>2 DEF RetryRead, TypeOK
  <2> QED
    BY <2>1, <2>2
<1>4. \A m \in Mails, recorded \in BOOLEAN, smtp \in SMTP :
        Carries(m, recorded, smtp)' => Carries(m, recorded, smtp)
  BY <1>2, <1>3 DEF Carries, AtQueue, AtWorker, AtAdmin
<1>5. \A m \in Mails : (Live(m) => Live(m)') /\ (Unmarked(m)' => Unmarked(m))
  BY <1>2, <1>3 DEF Live, Unmarked, Owed, AtQueue, AtWorker, AtAdmin
<1> QED
  BY <1>2, <1>4, <1>5 DEF Moves, HistoryKept

LEMMA RetryEnqueueMoves ==
  ASSUME IInv, NEW a \in Admins, RetryEnqueue(a)
  PROVE  Moves /\ HistoryKept
<1>1. TypeOK /\ queue \in Seq(Job)
  BY DEF IInv, TypeInv, TypeOK
<1>2. PICK n \in Nat : n = Len(queue)
  BY <1>1
<1>3. UNCHANGED <<up, rows, defaultSMTP, request, worker, accepted, via, requeues>>
  BY DEF RetryEnqueue
<1>4. admin[a].pc = "enqueue" /\ admin[a].mail \in Mails /\ admin[a].smtp \in SMTP
  BY <1>1, AdminHasMail DEF RetryEnqueue
<1>5. PICK job \in Job : job = NewJob(admin[a].mail, TRUE, admin[a].smtp)
  BY <1>4 DEF NewJob, Job
<1>6. /\ DOMAIN queue = 1..n /\ DOMAIN queue' = 1..(n + 1)
      /\ \A i \in 1..n : queue'[i] = queue[i]
      /\ queue'[n + 1] = job
  <2>1. queue' = Append(queue, job)
    BY <1>5 DEF RetryEnqueue
  <2> QED
    BY <1>1, <1>2, <2>1
<1>7. \A b \in Admins : \/ b # a /\ admin'[b] = admin[b]
                        \/ b = a /\ admin'[b].pc = "idle"
  BY <1>1 DEF RetryEnqueue, IdleState, TypeOK
<1>8. \A m \in Mails : \A i \in 1..(n + 1) :
        AtQueue(m, i)' <=> (i \in 1..n /\ AtQueue(m, i)) \/ (i = n + 1 /\ AtAdmin(m, a))
  BY <1>4, <1>5, <1>6 DEF AtQueue, AtAdmin, NewJob
<1>9. \A m \in Mails, recorded \in BOOLEAN, smtp \in SMTP :
        Carries(m, recorded, smtp)' => Carries(m, recorded, smtp)
  <2> SUFFICES ASSUME NEW m \in Mails, NEW recorded \in BOOLEAN, NEW smtp \in SMTP,
                      Carries(m, recorded, smtp)'
               PROVE  Carries(m, recorded, smtp)
    OBVIOUS
  <2>1. ASSUME NEW i \in DOMAIN queue', AtQueue(m, i)',
               recorded = queue'[i].recorded, smtp = queue'[i].smtp
        PROVE  Carries(m, recorded, smtp)
    <3>1. CASE i \in 1..n /\ AtQueue(m, i)
      BY <1>6, <2>1, <3>1 DEF Carries
    <3>2. CASE i = n + 1 /\ AtAdmin(m, a)
      <4>1. recorded = TRUE /\ smtp = admin[a].smtp
        BY <1>5, <1>6, <2>1, <3>2 DEF NewJob
      <4> QED
        BY <3>2, <4>1 DEF Carries
    <3> QED
      BY <1>6, <1>8, <2>1, <3>1, <3>2
  <2>2. ASSUME NEW b \in Admins, AtAdmin(m, b)', recorded = TRUE, smtp = admin'[b].smtp
        PROVE  Carries(m, recorded, smtp)
    BY <1>7, <2>2 DEF Carries, AtAdmin
  <2> QED
    BY <1>3, <2>1, <2>2 DEF Carries, AtWorker
<1>10. \A m \in Mails : \A b \in Admins : AtAdmin(m, b)' => AtAdmin(m, b)
  BY <1>7 DEF AtAdmin
<1>11. \A m \in Mails : Unmarked(m)' => Unmarked(m)
  BY <1>3, <1>6, <1>8, <1>10 DEF Unmarked, Owed, AtWorker
<1>12. \A m \in Mails : Live(m) => Live(m)'
  <2>1. \A m \in Mails : (\E i \in DOMAIN queue : AtQueue(m, i)) \/ AtAdmin(m, a) =>
          \E i \in DOMAIN queue' : AtQueue(m, i)'
    BY <1>2, <1>6, <1>8
  <2>2. \A m \in Mails : \A b \in Admins : AtAdmin(m, b) => AtAdmin(m, b)' \/ b = a
    BY <1>7 DEF AtAdmin
  <2> QED
    BY <1>3, <2>1, <2>2 DEF Live, Owed, AtWorker
<1> QED
  BY <1>3, <1>9, <1>11, <1>12 DEF Moves, HistoryKept

(* A crash drops every job and leaves the history as it is.                *)
LEMMA CrashHistory ==
  ASSUME IInv, HInv, Crash
  PROVE  HInv'
<1>1. UNCHANGED <<rows, defaultSMTP, accepted, via, requeues>> /\ up' = FALSE /\ queue' = <<>>
  BY DEF Crash
<1>2. /\ \A r \in Requests : request'[r].pc \in {"idle", "done"}
                             /\ (request'[r].pc = "idle" => request[r].pc = "idle")
      /\ \A w \in Workers : worker'[w].pc = "idle"
      /\ \A a \in Admins : admin'[a].pc = "idle"
  BY DEF Crash, IdleState, DoneState
<1>3. \A m \in Mails, recorded \in BOOLEAN, smtp \in SMTP : ~Carries(m, recorded, smtp)'
  BY <1>1, <1>2, MailsAreRecipients DEF Carries, AtQueue, AtWorker, AtAdmin
<1>4. \A m \in Mails : Unmarked(m)' => Unmarked(m)
  BY <1>1, <1>2, MailsAreRecipients DEF Unmarked, Owed, AtQueue, AtWorker, AtAdmin
<1>5. \A w \in Workers :
        worker'[w].pc \in {"sending"} \cup Outcome => worker'[w] = worker[w]
  BY <1>2 DEF Outcome
<1> QED
  BY <1>1, <1>3, <1>4, <1>5, QuietStep

LEMMA OtherMoves ==
  ASSUME UNCHANGED <<up, defaultSMTP, rows, queue, request, worker, admin,
                                 accepted, via, requeues>>
  PROVE  Moves /\ HistoryKept
<1>1. \A m \in Mails, recorded \in BOOLEAN, smtp \in SMTP :
        Carries(m, recorded, smtp)' => Carries(m, recorded, smtp)
  BY DEF Carries, AtQueue, AtWorker, AtAdmin
<1>2. \A m \in Mails : (Live(m) => Live(m)') /\ (Unmarked(m)' => Unmarked(m))
  BY DEF Live, Unmarked, Owed, AtQueue, AtWorker, AtAdmin
<1> QED
  BY <1>1, <1>2 DEF Moves, HistoryKept

----------------------------------------------------------------------------
(* RecordMail writes rows for its own mails only, all of which are owed.   *)
LEMMA RecordMailHistory ==
  ASSUME IInv, HInv, NEW r \in Requests, RecordMail(r)
  PROVE  HInv'
<1>1. TypeOK /\ OneJob
  BY DEF IInv, TypeInv
<1>2. request[r].pc = "record"
  BY DEF RecordMail
<1>3. UNCHANGED <<up, defaultSMTP, queue, worker, admin, accepted, via, requeues>>
  BY DEF RecordMail
<1>4. PICK stored \in BOOLEAN, known \in BOOLEAN :
        /\ known => stored
        /\ stored /\ ~known => "commit" \in Faults
        /\ request' = [request EXCEPT ![r] = Enqueuing(request[r].smtp, known, 1)]
        /\ rows' = [m \in Mails |->
             IF m[1] = r /\ stored THEN NewRow(Route(request[r].smtp)) ELSE rows[m]]
  BY DEF RecordMail
<1>5. /\ request'[r].pc = "enqueue" /\ request'[r].next = 1
      /\ request'[r].recorded = known /\ request'[r].smtp = request[r].smtp
      /\ \A s \in Requests : s # r => request'[s] = request[s]
  BY <1>1, <1>4 DEF Enqueuing, TypeOK
<1>6. ASSUME NEW m \in Mails, m[1] = r
      PROVE  /\ Owed(m) /\ Owed(m)'
             /\ rows[m].status = "none" /\ accepted[m] = 0
             /\ \A i \in DOMAIN queue : ~AtQueue(m, i)
             /\ \A w \in Workers : ~AtWorker(m, w)
             /\ \A a \in Admins : ~AtAdmin(m, a)
  <2>1. Owed(m)
    BY <1>2, <1>6 DEF Owed
  <2>2. Owed(m)'
    BY <1>5, <1>6, MailsAreRecipients, ConstantsAssumption DEF Owed
  <2>3. rows[m].status = "none" /\ accepted[m] = 0
    BY <1>2, <1>6 DEF IInv, NewUntouched
  <2>4. PlacesDisjoint
    BY <1>1 DEF OneJob
  <2> QED
    BY <2>1, <2>2, <2>3, <2>4 DEF PlacesDisjoint
<1>7. ASSUME NEW m \in Mails, m[1] # r
      PROVE  rows'[m] = rows[m] /\ (Owed(m)' <=> Owed(m))
  BY <1>4, <1>5, <1>7, MailsAreRecipients DEF Owed
<1>8. ASSUME NEW m \in Mails, m[1] = r, stored
      PROVE  /\ rows'[m].status = "queued" /\ rows'[m].attempts = 0
             /\ rows'[m].server = Route(request[r].smtp)
  BY <1>4, <1>8 DEF NewRow
<1>9. ASSUME NEW m \in Mails, ~stored PROVE rows'[m] = rows[m]
  BY <1>4, <1>9
<1>10. \A m \in Mails :
         /\ \A i \in DOMAIN queue : AtQueue(m, i)' <=> AtQueue(m, i)
         /\ \A w \in Workers : AtWorker(m, w)' <=> AtWorker(m, w)
         /\ \A a \in Admins : AtAdmin(m, a)' <=> AtAdmin(m, a)
  BY <1>3 DEF AtQueue, AtWorker, AtAdmin
<1>11. JobsKnow'
  <2> SUFFICES ASSUME NEW m \in Mails, NEW recorded \in BOOLEAN, NEW smtp \in SMTP,
                      Carries(m, recorded, smtp)'
               PROVE  JobKnows(m, recorded, smtp)'
    BY DEF JobsKnow
  <2>1. CASE m[1] = r
    <3>1. recorded = known /\ smtp = request[r].smtp
      BY <1>3, <1>5, <1>6, <1>10, <2>1 DEF Carries
    <3>2. CASE stored
      BY <1>3, <1>4, <1>8, <2>1, <3>1, <3>2 DEF JobKnows, Route
    <3>3. CASE ~stored
      BY <1>4, <1>6, <1>9, <2>1, <3>1, <3>3 DEF JobKnows
    <3> QED
      BY <3>2, <3>3
  <2>2. CASE m[1] # r
    <3>1. Carries(m, recorded, smtp)
      BY <1>3, <1>5, <1>10, <2>2, MailsAreRecipients DEF Carries
    <3>2. JobKnows(m, recorded, smtp)
      BY <3>1 DEF HInv, JobsKnow
    <3> QED
      BY <1>3, <1>7, <2>2, <3>2 DEF JobKnows, Route
  <2> QED
    BY <2>1, <2>2
<1>12. OutcomesKnow'
  BY <1>3 DEF HInv, OutcomesKnow, TookIt, Route
<1>13. \A m \in Mails : rows'[m] = rows[m] \/ (m[1] = r /\ stored)
  BY <1>7, <1>9
<1>14. HistoryNamesServer'
  BY <1>3, <1>8, <1>13 DEF HInv, HistoryNamesServer
<1>15. PendingLive'
  <2>1. \A m \in Mails : Live(m) => Live(m)'
    BY <1>3, <1>6, <1>7, <1>10 DEF Live
  <2>2. \A m \in Mails : m[1] = r => Live(m)'
    BY <1>6 DEF Live
  <2> QED
    BY <1>3, <1>13, <2>1, <2>2 DEF HInv, PendingLive
<1>16. UnmarkedNotSending' /\ AttemptsBound'
  <2>1. \A m \in Mails : Unmarked(m)' => Unmarked(m)
    BY <1>3, <1>6, <1>7, <1>10 DEF Unmarked
  <2>2. ASSUME NEW m \in Mails
        PROVE  rows'[m].attempts + (IF Unmarked(m)' THEN 1 ELSE 0) <= 1 + requeues'[m]
    <3>1. rows[m].attempts + (IF Unmarked(m) THEN 1 ELSE 0) <= 1 + requeues[m]
      BY DEF HInv, AttemptsBound
    <3>2. rows[m].attempts \in Nat /\ requeues[m] \in Nat
      BY <1>1, RowFields
    <3>3. CASE rows'[m] = rows[m]
      BY <1>3, <2>1, <3>1, <3>2, <3>3
    <3>4. CASE rows'[m].attempts = 0
      BY <1>3, <3>2, <3>4
    <3> QED
      BY <1>8, <1>13, <3>3, <3>4
  <2>3. UnmarkedNotSending'
    BY <1>8, <1>13, <2>1 DEF HInv, UnmarkedNotSending
  <2> QED
    BY <2>2, <2>3 DEF AttemptsBound
<1>17. AttemptsCover'
  <2>1. \A m \in Mails : AtSender(m)' <=> AtSender(m)
    BY <1>3, <1>10 DEF AtSender
  <2>2. \A m \in Mails : m[1] = r => ~AtSender(m)
    BY <1>6 DEF AtSender
  <2>3. ASSUME NEW m \in Mails, Faults \cap {"record", "commit", "mark"} = {},
               rows'[m].status # "none"
        PROVE  accepted'[m] + (IF AtSender(m)' THEN 1 ELSE 0) <= rows'[m].attempts
    <3>1. CASE rows'[m] = rows[m]
      BY <1>3, <2>1, <2>3, <3>1 DEF HInv, AttemptsCover
    <3>2. CASE m[1] = r /\ stored
      BY <1>3, <1>6, <1>8, <2>1, <2>2, <3>2
    <3> QED
      BY <1>13, <3>1, <3>2
  <2> QED
    BY <2>3 DEF AttemptsCover
<1> QED
  BY <1>11, <1>12, <1>14, <1>15, <1>16, <1>17 DEF HInv

(* What a worker holds is all there is of its mail's job.                  *)
LEMMA WorkerCarries ==
  ASSUME OneJob, TypeOK, NEW w \in Workers, worker[w].pc # "idle"
  PROVE  /\ Carries(worker[w].job.mail, worker[w].job.recorded, worker[w].job.smtp)
         /\ \A recorded \in BOOLEAN, smtp \in SMTP :
              Carries(worker[w].job.mail, recorded, smtp) =>
                recorded = worker[w].job.recorded /\ smtp = worker[w].job.smtp
<1>1. Carries(worker[w].job.mail, worker[w].job.recorded, worker[w].job.smtp)
  BY WorkerHoldsAlone DEF Carries
<1>2. ASSUME NEW recorded \in BOOLEAN, NEW smtp \in SMTP,
             Carries(worker[w].job.mail, recorded, smtp)
      PROVE  recorded = worker[w].job.recorded /\ smtp = worker[w].job.smtp
  BY <1>2, WorkerHoldsAlone DEF Carries, Owed
<1> QED
  BY <1>1, <1>2

(* mark has the effect of MarkDelivery, or none.                           *)
LEMMA MarkEffect ==
  ASSUME TypeOK, NEW job \in Job, NEW status \in {"sending"} \cup Outcome,
         Mark(job, status)
  PROVE  /\ \A m \in Mails : m # job.mail => rows'[m] = rows[m]
         /\ \/ /\ job.recorded = TRUE
               /\ rows'[job.mail].status = status
               /\ rows'[job.mail].server = rows[job.mail].server
               /\ rows'[job.mail].attempts =
                    IF status = "sending" THEN rows[job.mail].attempts + 1
                    ELSE rows[job.mail].attempts
            \/ /\ job.recorded = TRUE => "mark" \in Faults
               /\ rows' = rows
<1>1. job.mail \in Mails /\ job.recorded \in BOOLEAN
  BY DEF Job
<1>2. CASE job.recorded /\ rows' = [rows EXCEPT ![job.mail] = Marked(rows[job.mail], status)]
  BY <1>1, <1>2 DEF TypeOK, Marked
<1>3. CASE (job.recorded => "mark" \in Faults) /\ rows' = rows
  BY <1>1, <1>3
<1> QED
  BY <1>2, <1>3 DEF Mark

LEMMA MarkSendingHistory ==
  ASSUME IInv, HInv, NEW w \in Workers, MarkSending(w)
  PROVE  HInv'
<1>1. TypeOK /\ OneJob
  BY DEF IInv, TypeInv
<1>2. worker[w].pc = "claimed" /\ worker[w].pc # "idle"
  BY DEF MarkSending
<1>3. PICK job \in Job : job = worker[w].job
  BY <1>1, <1>2, WorkerHasJob
<1>4. PICK m0 \in Mails : m0 = job.mail
  BY DEF Job
<1>5. UNCHANGED <<up, defaultSMTP, queue, request, admin, accepted, via, requeues>>
  BY DEF MarkSending
<1>6. /\ worker'[w].pc = "sending" /\ worker'[w].job = job
      /\ \A v \in Workers : v # w => worker'[v] = worker[v]
  BY <1>1, <1>3 DEF MarkSending, Working, TypeOK
<1>7. /\ ~Owed(m0)
      /\ \A i \in DOMAIN queue : ~AtQueue(m0, i)
      /\ \A v \in Workers : AtWorker(m0, v) => v = w
      /\ \A a \in Admins : ~AtAdmin(m0, a)
  BY <1>1, <1>2, <1>3, <1>4, WorkerHoldsAlone
<1>8. Mark(job, "sending")
  BY <1>3 DEF MarkSending
<1>9. \A m \in Mails : m # m0 => rows'[m] = rows[m]
  BY <1>1, <1>4, <1>8, MarkEffect
<1>10. \/ /\ job.recorded = TRUE
          /\ rows'[m0].status = "sending"
          /\ rows'[m0].server = rows[m0].server
          /\ rows'[m0].attempts = rows[m0].attempts + 1
       \/ /\ job.recorded = TRUE => "mark" \in Faults
          /\ rows' = rows
  BY <1>1, <1>4, <1>8, MarkEffect
<1>11. /\ JobKnows(m0, job.recorded, job.smtp)
       /\ \A recorded \in BOOLEAN, smtp \in SMTP :
            Carries(m0, recorded, smtp) => recorded = job.recorded /\ smtp = job.smtp
  <2>1. job.recorded \in BOOLEAN /\ job.smtp \in SMTP
    BY DEF Job
  <2> QED
    BY <1>1, <1>2, <1>3, <1>4, <2>1, WorkerCarries DEF HInv, JobsKnow
<1>12. \A m \in Mails : \A v \in Workers : AtWorker(m, v)' <=> AtWorker(m, v)
  BY <1>2, <1>3, <1>6 DEF AtWorker
<1>13. JobsKnow'
  <2> SUFFICES ASSUME NEW m \in Mails, NEW recorded \in BOOLEAN, NEW smtp \in SMTP,
                      Carries(m, recorded, smtp)'
               PROVE  JobKnows(m, recorded, smtp)'
    BY DEF JobsKnow
  <2>1. Carries(m, recorded, smtp)
    <3>1. \A v \in Workers : AtWorker(m, v) => worker'[v].job = worker[v].job
      BY <1>3, <1>6
    <3> QED
      BY <1>5, <1>12, <3>1 DEF Carries, AtQueue, AtAdmin
  <2>2. JobKnows(m, recorded, smtp)
    BY <2>1 DEF HInv, JobsKnow
  <2>3. CASE rows'[m] = rows[m]
    BY <1>5, <2>2, <2>3 DEF JobKnows, Route
  <2>4. CASE m = m0 /\ job.recorded = TRUE /\ rows'[m0].status = "sending"
             /\ rows'[m0].server = rows[m0].server
    BY <1>5, <1>11, <2>1, <2>2, <2>4 DEF JobKnows, Route
  <2> QED
    BY <1>9, <1>10, <2>3, <2>4
<1>14. OutcomesKnow'
  BY <1>5, <1>6 DEF HInv, OutcomesKnow, TookIt, Route
<1>15. HistoryNamesServer'
  BY <1>5, <1>9, <1>10 DEF HInv, HistoryNamesServer
<1>16. \A m \in Mails : Live(m) <=> Live(m)'
  BY <1>5, <1>12 DEF Live, Owed, AtQueue, AtAdmin
<1>17. PendingLive'
  <2>1. Live(m0)
    BY <1>2, <1>3, <1>4 DEF Live, AtWorker
  <2> QED
    BY <1>5, <1>9, <1>16, <2>1 DEF HInv, PendingLive
<1>18. \A m \in Mails : Unmarked(m)' => Unmarked(m) /\ m # m0
  <2>1. \A m \in Mails : \A v \in Workers :
          AtWorker(m, v)' /\ worker'[v].pc = "claimed" => v # w /\ AtWorker(m, v) /\ worker[v].pc = "claimed"
    BY <1>6, <1>12
  <2> QED
    BY <1>5, <1>7, <2>1 DEF Unmarked, Owed, AtQueue, AtAdmin
<1>19. Unmarked(m0)
  BY <1>2, <1>3, <1>4 DEF Unmarked, AtWorker
<1>unmarked. UnmarkedNotSending'
  BY <1>9, <1>18 DEF HInv, UnmarkedNotSending
<1>20. AttemptsBound'
  <2> SUFFICES ASSUME NEW m \in Mails
               PROVE  rows'[m].attempts + (IF Unmarked(m)' THEN 1 ELSE 0) <= 1 + requeues'[m]
    BY DEF AttemptsBound
  <2>1. rows[m].attempts + (IF Unmarked(m) THEN 1 ELSE 0) <= 1 + requeues[m]
    BY DEF HInv, AttemptsBound
  <2>2. rows[m].attempts \in Nat /\ requeues[m] \in Nat
    BY <1>1, RowFields
  <2>3. CASE m # m0
    BY <1>5, <1>9, <1>18, <2>1, <2>2, <2>3
  <2>4. CASE m = m0
    <3>1. ~Unmarked(m)' /\ rows[m].attempts + 1 <= 1 + requeues[m]
      BY <1>18, <1>19, <2>1, <2>4
    <3>2. rows'[m].attempts \in {rows[m].attempts, rows[m].attempts + 1}
      BY <1>10, <2>4
    <3> QED
      BY <1>5, <2>2, <3>1, <3>2
  <2> QED
    BY <2>3, <2>4
<1>21. AttemptsCover'
  <2> SUFFICES ASSUME Faults \cap {"record", "commit", "mark"} = {}, NEW m \in Mails,
                      rows'[m].status # "none"
               PROVE  accepted'[m] + (IF AtSender(m)' THEN 1 ELSE 0) <= rows'[m].attempts
    BY DEF AttemptsCover
  <2>1. rows[m].attempts \in Nat /\ accepted[m] \in Nat
    BY <1>1, RowFields
  <2>2. rows[m].status # "none" =>
          accepted[m] + (IF AtSender(m) THEN 1 ELSE 0) <= rows[m].attempts
    BY DEF HInv, AttemptsCover
  <2>3. CASE m # m0
    <3>1. AtSender(m)' => AtSender(m)
      BY <1>3, <1>4, <1>6, <1>12, <2>3 DEF AtSender, AtWorker
    <3> QED
      BY <1>5, <1>9, <2>1, <2>2, <2>3, <3>1
  <2>4. CASE m = m0 /\ job.recorded = TRUE
    <3>1. rows[m].status # "none"
      BY <1>11, <2>4 DEF JobKnows
    <3>2. rows'[m].attempts = rows[m].attempts + 1
      BY <1>10, <2>4
    <3> QED
      BY <1>5, <2>1, <2>2, <3>1, <3>2
  <2>5. CASE m = m0 /\ job.recorded # TRUE
    <3>1. rows'[m].status = "none"
      BY <1>10, <1>11, <2>5 DEF JobKnows, Job
    <3> QED
      BY <3>1
  <2> QED
    BY <2>3, <2>4, <2>5
<1> QED
  BY <1>13, <1>14, <1>15, <1>17, <1>unmarked, <1>20, <1>21 DEF HInv

(* The attempt itself: the history does not know of it yet.                *)
LEMMA SendHistory ==
  ASSUME IInv, HInv, NEW w \in Workers, Send(w)
  PROVE  HInv'
<1>1. TypeOK /\ OneJob
  BY DEF IInv, TypeInv
<1>2. worker[w].pc = "sending" /\ worker[w].pc # "idle"
  BY DEF Send
<1>3. PICK job \in Job : job = worker[w].job
  BY <1>1, <1>2, WorkerHasJob
<1>4. PICK m0 \in Mails : m0 = job.mail
  BY DEF Job
<1>5. UNCHANGED <<up, defaultSMTP, rows, queue, request, admin, requeues>>
  BY DEF Send
<1>6. PICK took \in BOOLEAN, outcome \in Outcome :
        /\ outcome = "simulated" <=> Route(job.smtp) = NoServer
        /\ outcome # "failed" => took
        /\ worker' = [worker EXCEPT ![w] = Working(outcome, job)]
        /\ accepted' = [accepted EXCEPT ![m0] = IF took THEN @ + 1 ELSE @]
        /\ via' = [via EXCEPT ![m0] = IF took THEN @ \cup {Route(job.smtp)} ELSE @]
  BY <1>3, <1>4 DEF Send
<1>7. /\ worker'[w].pc = outcome /\ worker'[w].job = job
      /\ \A v \in Workers : v # w => worker'[v] = worker[v]
  BY <1>1, <1>6 DEF Working, TypeOK
<1>8. \A m \in Mails : via[m] \subseteq via'[m]
  BY <1>1, <1>6 DEF TypeOK
<1>9. took => Route(job.smtp) \in via'[m0]
  BY <1>1, <1>6 DEF TypeOK
<1>10. \A m \in Mails : \A v \in Workers : AtWorker(m, v)' <=> AtWorker(m, v)
  BY <1>2, <1>3, <1>7 DEF AtWorker, Outcome
<1>11. JobsKnow'
  <2>1. \A m \in Mails, recorded \in BOOLEAN, smtp \in SMTP :
          Carries(m, recorded, smtp)' => Carries(m, recorded, smtp)
    <3>1. \A v \in Workers : worker'[v].job = worker[v].job
      BY <1>3, <1>7
    <3> QED
      BY <1>5, <1>10, <3>1 DEF Carries, AtQueue, AtAdmin
  <2> QED
    BY <1>5, <2>1 DEF HInv, JobsKnow, JobKnows, Route
<1>12. OutcomesKnow'
  <2> SUFFICES ASSUME NEW v \in Workers PROVE TookIt(v)'
    BY DEF OutcomesKnow
  <2>1. CASE v = w
    BY <1>4, <1>5, <1>6, <1>7, <1>9, <2>1 DEF TookIt, Route
  <2>2. CASE v # w
    <3>1. TookIt(v)
      BY DEF HInv, OutcomesKnow
    <3>2. worker[v].pc \in {"sent", "simulated"} => worker[v].job.mail \in Mails
      BY <1>1, WorkerHasJob DEF Job
    <3> QED
      BY <1>5, <1>7, <1>8, <2>2, <3>1, <3>2 DEF TookIt, Route
  <2> QED
    BY <2>1, <2>2
<1>13. HistoryNamesServer'
  BY <1>5, <1>8 DEF HInv, HistoryNamesServer
<1>14. PendingLive'
  <2>1. \A m \in Mails : Live(m) => Live(m)'
    BY <1>5, <1>10 DEF Live, Owed, AtQueue, AtAdmin
  <2> QED
    BY <1>5, <2>1 DEF HInv, PendingLive
<1>15. UnmarkedNotSending' /\ AttemptsBound'
  <2>1. \A m \in Mails : Unmarked(m)' => Unmarked(m)
    <3>1. \A v \in Workers : worker'[v].pc = "claimed" => worker'[v] = worker[v]
      BY <1>7 DEF Outcome
    <3> QED
      BY <1>5, <1>10, <3>1 DEF Unmarked, Owed, AtQueue, AtAdmin
  <2> QED
    BY <1>1, <1>5, <2>1, RowFields DEF HInv, UnmarkedNotSending, AttemptsBound
<1>16. AttemptsCover'
  <2> SUFFICES ASSUME Faults \cap {"record", "commit", "mark"} = {}, NEW m \in Mails,
                      rows[m].status # "none"
               PROVE  accepted'[m] + (IF AtSender(m)' THEN 1 ELSE 0) <= rows[m].attempts
    BY <1>5 DEF AttemptsCover
  <2>1. rows[m].attempts \in Nat /\ accepted[m] \in Nat
    BY <1>1, RowFields
  <2>2. accepted[m] + (IF AtSender(m) THEN 1 ELSE 0) <= rows[m].attempts
    BY DEF HInv, AttemptsCover
  <2>3. AtSender(m)' => AtSender(m)
    <3>1. \A v \in Workers : worker'[v].pc = "sending" => worker'[v] = worker[v]
      BY <1>7 DEF Outcome
    <3> QED
      BY <1>10, <3>1 DEF AtSender
  <2>4. CASE m # m0
    <3>1. accepted'[m] = accepted[m]
      BY <1>1, <1>6, <2>4 DEF TypeOK
    <3> QED
      BY <2>1, <2>2, <2>3, <3>1
  <2>5. CASE m = m0
    <3>1. accepted'[m] \in {accepted[m], accepted[m] + 1}
      BY <1>1, <1>6, <2>5 DEF TypeOK
    <3>2. AtSender(m)
      BY <1>2, <1>3, <1>4, <2>5 DEF AtSender, AtWorker
    <3>3. ~AtSender(m)'
      <4>1. \A v \in Workers : AtWorker(m, v) => v = w
        BY <1>1, <1>2, <1>3, <1>4, <2>5, WorkerHoldsAlone
      <4> QED
        BY <1>7, <1>10, <4>1 DEF AtSender, Outcome
    <3> QED
      BY <2>1, <2>2, <3>1, <3>2, <3>3
  <2> QED
    BY <2>4, <2>5
<1> QED
  BY <1>11, <1>12, <1>13, <1>14, <1>15, <1>16 DEF HInv

(* The outcome is written to the row of a mail whose job this ends.        *)
LEMMA MarkOutcomeHistory ==
  ASSUME IInv, HInv, NEW w \in Workers, MarkOutcome(w)
  PROVE  HInv'
<1>1. TypeOK /\ OneJob
  BY DEF IInv, TypeInv
<1>2. worker[w].pc \in Outcome /\ worker[w].pc # "idle"
  BY DEF MarkOutcome, Outcome
<1>3. PICK job \in Job : job = worker[w].job
  BY <1>1, <1>2, WorkerHasJob
<1>4. PICK m0 \in Mails : m0 = job.mail
  BY DEF Job
<1>5. UNCHANGED <<up, defaultSMTP, queue, request, admin, accepted, via, requeues>>
  BY DEF MarkOutcome
<1>6. /\ worker'[w].pc = "idle"
      /\ \A v \in Workers : v # w => worker'[v] = worker[v]
  BY <1>1 DEF MarkOutcome, IdleState, TypeOK
<1>7. /\ ~Owed(m0)
      /\ \A i \in DOMAIN queue : ~AtQueue(m0, i)
      /\ \A v \in Workers : AtWorker(m0, v) => v = w
      /\ \A a \in Admins : ~AtAdmin(m0, a)
  BY <1>1, <1>2, <1>3, <1>4, WorkerHoldsAlone
<1>8. PICK outcome \in Outcome : outcome = worker[w].pc
  BY <1>2
<1>9. Mark(job, outcome)
  BY <1>3, <1>8 DEF MarkOutcome
<1>10. \A m \in Mails : m # m0 => rows'[m] = rows[m]
  BY <1>1, <1>4, <1>9, MarkEffect
<1>11. \/ /\ job.recorded = TRUE
          /\ rows'[m0].status = outcome
          /\ rows'[m0].server = rows[m0].server
          /\ rows'[m0].attempts = rows[m0].attempts
       \/ /\ job.recorded = TRUE => "mark" \in Faults
          /\ rows' = rows
  BY <1>1, <1>4, <1>9, MarkEffect DEF Outcome
<1>12. JobKnows(m0, job.recorded, job.smtp)
  <2>1. job.recorded \in BOOLEAN /\ job.smtp \in SMTP
    BY DEF Job
  <2> QED
    BY <1>1, <1>2, <1>3, <1>4, <2>1, WorkerCarries DEF HInv, JobsKnow
<1>13. \A m \in Mails : \A v \in Workers :
         AtWorker(m, v)' => v # w /\ AtWorker(m, v) /\ worker'[v] = worker[v]
  BY <1>6 DEF AtWorker
<1>14. \A m \in Mails : \A v \in Workers : AtWorker(m, v) => m = m0 \/ AtWorker(m, v)'
  BY <1>3, <1>4, <1>6 DEF AtWorker
<1>15. JobsKnow'
  <2> SUFFICES ASSUME NEW m \in Mails, NEW recorded \in BOOLEAN, NEW smtp \in SMTP,
                      Carries(m, recorded, smtp)'
               PROVE  JobKnows(m, recorded, smtp)'
    BY DEF JobsKnow
  <2>1. Carries(m, recorded, smtp)
    BY <1>5, <1>13 DEF Carries, AtQueue, AtAdmin
  <2>2. m # m0
    BY <1>5, <1>7, <1>13 DEF Carries, Owed, AtQueue, AtAdmin
  <2> QED
    BY <1>5, <1>10, <2>1, <2>2 DEF HInv, JobsKnow, JobKnows, Route
<1>16. OutcomesKnow'
  BY <1>5, <1>6, <1>13 DEF HInv, OutcomesKnow, TookIt, Route
<1>17. HistoryNamesServer'
  <2>1. TookIt(w)
    BY DEF HInv, OutcomesKnow
  <2>2. job.recorded = TRUE => rows[m0].server = Route(job.smtp)
    BY <1>12 DEF JobKnows
  <2>3. /\ outcome = "sent" => /\ Route(job.smtp) # NoServer
                               /\ Route(job.smtp) \in via[m0]
        /\ outcome = "simulated" => Route(job.smtp) = NoServer /\ NoServer \in via[m0]
    BY <1>3, <1>4, <1>8, <2>1 DEF TookIt
  <2> QED
    BY <1>5, <1>10, <1>11, <2>2, <2>3 DEF HInv, HistoryNamesServer
<1>18. PendingLive'
  <2> SUFFICES ASSUME Faults \subseteq {"record", "quit", "crash"}, NEW m \in Mails,
                      up, rows'[m].status \in Pending
               PROVE  Live(m)'
    BY <1>5 DEF PendingLive
  <2>1. m # m0
    <3>1. outcome \notin Pending /\ "none" \notin Pending
      BY DEF Outcome, Pending
    <3>2. job.recorded # TRUE => rows[m0].status = "none"
      BY <1>12 DEF JobKnows, Job
    <3> QED
      BY <1>11, <3>1, <3>2
  <2>2. Live(m)
    BY <1>10, <2>1 DEF HInv, PendingLive
  <2> QED
    BY <1>5, <1>14, <2>1, <2>2 DEF Live, Owed, AtQueue, AtAdmin
<1>19. \A m \in Mails : /\ (Unmarked(m)' => Unmarked(m)) /\ (AtSender(m)' => AtSender(m))
                        /\ rows'[m].attempts = rows[m].attempts
  BY <1>5, <1>10, <1>11, <1>13 DEF Unmarked, AtSender, Owed, AtQueue, AtAdmin
<1>20. UnmarkedNotSending' /\ AttemptsBound'
  <2>1. UnmarkedNotSending'
    BY <1>10, <1>11, <1>19 DEF HInv, UnmarkedNotSending, Outcome
  <2> QED
    BY <1>1, <1>5, <1>19, <2>1, RowFields DEF HInv, AttemptsBound
<1>21. AttemptsCover'
  <2>1. \A m \in Mails : rows'[m].status # "none" => rows[m].status # "none"
    BY <1>10, <1>11, <1>12 DEF JobKnows
  <2> QED
    BY <1>1, <1>5, <1>19, <2>1, RowFields DEF HInv, AttemptsCover
<1> QED
  BY <1>15, <1>16, <1>17, <1>18, <1>20, <1>21 DEF HInv

(* A granted retry renews the row of a mail that has no job, for the       *)
(* server the new job will be sent through.                                *)
LEMMA RetryRequeueHistory ==
  ASSUME IInv, HInv, NEW a \in Admins, RetryRequeue(a)
  PROVE  HInv'
<1>1. TypeOK /\ OneJob
  BY DEF IInv, TypeInv
<1>2. admin[a].pc = "requeue"
  BY DEF RetryRequeue
<1>3. PICK m0 \in Mails, smtp0 \in SMTP : m0 = admin[a].mail /\ smtp0 = admin[a].smtp
  BY <1>1, <1>2, AdminHasMail
<1>4. UNCHANGED <<up, defaultSMTP, queue, request, worker, accepted, via>>
  BY DEF RetryRequeue
<1>5. \A b \in Admins : b # a => admin'[b] = admin[b]
  BY <1>1 DEF RetryRequeue, TypeOK
<1>6. \A m \in Mails : \A b \in Admins : AtAdmin(m, b) => AtAdmin(m, b)'
  BY <1>2, <1>5 DEF AtAdmin
<1>7. \A m \in Mails : Live(m) => Live(m)'
  BY <1>4, <1>6 DEF Live, Owed, AtQueue, AtWorker
<1>8. CASE UNCHANGED <<rows, requeues>> /\ admin'[a].pc = "idle"
  <2>1. \A m \in Mails : \A b \in Admins : AtAdmin(m, b)' => AtAdmin(m, b) /\ admin'[b] = admin[b]
    BY <1>5, <1>8 DEF AtAdmin
  <2>2. \A m \in Mails, recorded \in BOOLEAN, smtp \in SMTP :
          Carries(m, recorded, smtp)' => Carries(m, recorded, smtp)
    BY <1>4, <2>1 DEF Carries, AtQueue, AtWorker
  <2>3. \A m \in Mails : Unmarked(m)' => Unmarked(m)
    BY <1>4, <2>1 DEF Unmarked, Owed, AtQueue, AtWorker
  <2> QED
    BY <1>4, <1>7, <1>8, <2>2, <2>3, QuietStep
<1>9. CASE /\ Requeueable(m0)
           /\ rows' = [rows EXCEPT ![m0] = Requeued(rows[m0], smtp0)]
           /\ requeues' = [requeues EXCEPT ![m0] = @ + 1]
           /\ \/ admin'[a] = RetryingMail("enqueue", m0, smtp0)
              \/ "requeue" \in Faults /\ admin'[a].pc = "idle"
  <2>1. rows[m0].status = "failed" /\ ~Live(m0)
    BY <1>9 DEF Requeueable, IInv, LiveUnsettled, Pending
  <2>2. /\ rows'[m0].status = "queued" /\ rows'[m0].server = Route(smtp0)
        /\ rows'[m0].attempts = rows[m0].attempts
        /\ requeues'[m0] = requeues[m0] + 1
    BY <1>1, <1>9 DEF Requeued, TypeOK
  <2>3. \A m \in Mails : m # m0 => rows'[m] = rows[m] /\ requeues'[m] = requeues[m]
    BY <1>1, <1>9 DEF TypeOK
  <2>4. \A m \in Mails : \A b \in Admins :
          AtAdmin(m, b)' => \/ b # a /\ AtAdmin(m, b) /\ admin'[b] = admin[b]
                            \/ b = a /\ m = m0 /\ admin'[b].smtp = smtp0
    BY <1>5, <1>9 DEF AtAdmin, RetryingMail
  <2>5. JobsKnow'
    <3> SUFFICES ASSUME NEW m \in Mails, NEW recorded \in BOOLEAN, NEW smtp \in SMTP,
                        Carries(m, recorded, smtp)'
                 PROVE  JobKnows(m, recorded, smtp)'
      BY DEF JobsKnow
    <3>1. CASE Carries(m, recorded, smtp)
      <4>1. m # m0
        BY <2>1, <3>1, CarriedIsLive
      <4> QED
        BY <1>4, <2>3, <3>1, <4>1 DEF HInv, JobsKnow, JobKnows, Route
    <3>2. CASE m = m0 /\ recorded = TRUE /\ smtp = smtp0
      BY <1>4, <2>2, <3>2 DEF JobKnows, Route
    <3> QED
      BY <1>4, <2>4, <3>1, <3>2 DEF Carries, AtQueue, AtWorker
  <2>6. OutcomesKnow'
    BY <1>4 DEF HInv, OutcomesKnow, TookIt, Route
  <2>7. HistoryNamesServer'
    BY <1>4, <2>2, <2>3 DEF HInv, HistoryNamesServer
  <2>8. PendingLive'
    <3>1. "requeue" \notin Faults => Live(m0)'
      BY <1>9 DEF Live, AtAdmin, RetryingMail
    <3> QED
      BY <1>4, <1>7, <2>3, <3>1 DEF HInv, PendingLive
  <2>9. \A m \in Mails : m # m0 => (Unmarked(m)' => Unmarked(m))
    BY <1>4, <2>4 DEF Unmarked, Owed, AtQueue, AtWorker
  <2>unmarked. UnmarkedNotSending'
    BY <2>2, <2>3, <2>9 DEF HInv, UnmarkedNotSending
  <2>10. AttemptsBound'
    <3> SUFFICES ASSUME NEW m \in Mails
                 PROVE  rows'[m].attempts + (IF Unmarked(m)' THEN 1 ELSE 0) <= 1 + requeues'[m]
      BY DEF AttemptsBound
    <3>1. rows[m].attempts + (IF Unmarked(m) THEN 1 ELSE 0) <= 1 + requeues[m]
      BY DEF HInv, AttemptsBound
    <3>2. rows[m].attempts \in Nat /\ requeues[m] \in Nat
      BY <1>1, RowFields
    <3>3. CASE m # m0
      BY <2>3, <2>9, <3>1, <3>2, <3>3
    <3>4. CASE m = m0
      BY <2>2, <3>1, <3>2, <3>4
    <3> QED
      BY <3>3, <3>4
  <2>11. AttemptsCover'
    <3>1. \A m \in Mails : AtSender(m)' <=> AtSender(m)
      BY <1>4 DEF AtSender, AtWorker
    <3>2. \A m \in Mails : rows'[m].attempts = rows[m].attempts
                           /\ (rows'[m].status # "none" => rows[m].status # "none")
      BY <2>1, <2>2, <2>3
    <3> QED
      BY <1>4, <3>1, <3>2 DEF HInv, AttemptsCover
  <2> QED
    BY <2>5, <2>6, <2>7, <2>8, <2>unmarked, <2>10, <2>11 DEF HInv
<1>10. \/ /\ Requeueable(m0)
          /\ rows' = [rows EXCEPT ![m0] = Requeued(rows[m0], smtp0)]
          /\ requeues' = [requeues EXCEPT ![m0] = @ + 1]
          /\ \/ admin' = [admin EXCEPT ![a] = RetryingMail("enqueue", m0, smtp0)]
             \/ "requeue" \in Faults /\ admin' = [admin EXCEPT ![a] = IdleState]
       \/ UNCHANGED <<rows, requeues>> /\ admin' = [admin EXCEPT ![a] = IdleState]
  BY <1>3 DEF RetryRequeue
<1>11. \A x : admin' = [admin EXCEPT ![a] = x] => admin'[a] = x
  BY <1>1 DEF TypeOK
<1> QED
  BY <1>8, <1>9, <1>10, <1>11 DEF IdleState

(* Marking the interrupted mails: nothing is under way yet.                *)
LEMMA RestartHistory ==
  ASSUME IInv, HInv, Restart
  PROVE  HInv'
<1>1. TypeOK
  BY DEF IInv, TypeInv
<1>2. UNCHANGED <<queue, request, worker, admin, accepted, via, requeues>>
  BY DEF Restart
<1>3. /\ queue = <<>>
      /\ \A r \in Requests : request[r].pc \in {"idle", "done"}
      /\ \A w \in Workers : worker[w].pc = "idle"
      /\ \A a \in Admins : admin[a].pc = "idle"
  BY DEF IInv, DownIsEmpty, Restart
<1>4. \A m \in Mails :
        /\ rows'[m].attempts = rows[m].attempts
        /\ \/ rows'[m] = rows[m] /\ rows[m].status \notin Pending
           \/ rows'[m].status = "failed" /\ rows[m].status \in Pending
  BY DEF Restart, Interrupted, Restarted
<1>5. JobsKnow'
  BY <1>2, <1>3, MailsAreRecipients DEF JobsKnow, Carries, AtQueue, AtWorker, AtAdmin
<1>6. OutcomesKnow'
  BY <1>2, <1>3 DEF OutcomesKnow, TookIt
<1>7. HistoryNamesServer'
  BY <1>2, <1>4 DEF HInv, HistoryNamesServer
<1>8. PendingLive'
  BY <1>4 DEF PendingLive, Pending
<1>9. UnmarkedNotSending' /\ AttemptsBound'
  <2>1. \A m \in Mails : Unmarked(m)' <=> Unmarked(m)
    BY <1>2 DEF Unmarked, Owed, AtQueue, AtWorker, AtAdmin
  <2> QED
    BY <1>2, <1>4, <2>1 DEF HInv, UnmarkedNotSending, AttemptsBound
<1>10. AttemptsCover'
  <2>1. \A m \in Mails : AtSender(m)' <=> AtSender(m)
    BY <1>2 DEF AtSender, AtWorker
  <2>2. \A m \in Mails : rows'[m].status # "none" => rows[m].status # "none"
    BY <1>4 DEF Pending
  <2> QED
    BY <1>2, <1>4, <2>1, <2>2 DEF HInv, AttemptsCover
<1> QED
  BY <1>5, <1>6, <1>7, <1>8, <1>9, <1>10 DEF HInv

----------------------------------------------------------------------------
LEMMA HistoryStep == IInv /\ HInv /\ [Next]_vars => HInv'
<1> SUFFICES ASSUME IInv, HInv, [Next]_vars PROVE HInv'
  OBVIOUS
<1>1. ASSUME NEW r \in Requests, Admit(r) \/ RecordMail(r) \/ Enqueue(r) PROVE HInv'
  BY <1>1, AdmitMoves, EnqueueMoves, MovesQuiet, RecordMailHistory
<1>2. ASSUME NEW w \in Workers, Take(w) \/ MarkSending(w) \/ Send(w) \/ MarkOutcome(w)
      PROVE  HInv'
  BY <1>2, TakeMoves, MovesQuiet, MarkSendingHistory, SendHistory, MarkOutcomeHistory
<1>3. ASSUME NEW a \in Admins,
             \/ \E m \in Mails : RetryRead(a, m)
             \/ RetryKey(a) \/ RetryRequeue(a) \/ RetryEnqueue(a)
      PROVE  HInv'
  BY <1>3, RetryReadKeyMoves, RetryEnqueueMoves, MovesQuiet, RetryRequeueHistory
<1>4. CASE Editing
  BY <1>4, OtherMoves, MovesQuiet DEF Editing, SetKeyActive, SetKeySMTP, DeleteKey
<1>5. CASE Crash
  BY <1>5, CrashHistory
<1>6. CASE Restart
  BY <1>6, RestartHistory
<1>7. CASE UNCHANGED vars
  BY <1>7, OtherMoves, MovesQuiet DEF vars
<1> QED
  BY <1>1, <1>2, <1>3, <1>4, <1>5, <1>6, <1>7 DEF Next, Submitting, Delivering, Retrying

(* The history's invariant holds in every behaviour of the service.        *)
THEOREM HistoryInvariance == Spec => [](IInv /\ HInv)
<1>1. Init => HInv
  BY InitH
<1> QED
  BY <1>1, HistoryStep, Invariance, PTL DEF Spec

(* The row of a sent mail names the server that took it, whatever happened *)
(* to keys, default server and process in between.                         *)
THEOREM HistoryNamesServerTheorem == Spec => []HistoryNamesServer
<1>1. HInv => HistoryNamesServer
  BY DEF HInv
<1> QED
  BY <1>1, HistoryInvariance, PTL

(* Without lost updates a mail in progress has a job behind it.            *)
THEOREM PendingHasJobTheorem == Spec => []PendingHasJob
<1>1. HInv => PendingHasJob
  <2> SUFFICES ASSUME HInv, Faults \subseteq {"record", "quit", "crash"},
                      NEW m \in Mails, up, rows[m].status \in Pending
               PROVE  Places(m) # {}
    BY DEF PendingHasJob
  <2>1. Live(m)
    BY DEF HInv, PendingLive
  <2> QED
    BY <2>1 DEF Live, Places
<1> QED
  BY <1>1, HistoryInvariance, PTL

(* The attempts column is bounded by the licences, and without lost        *)
(* updates covers every acceptance.                                        *)
THEOREM AttemptsTheorem == Spec => []AttemptsCount
<1>1. IInv /\ HInv => AttemptsCount
  <2> SUFFICES ASSUME IInv, HInv, NEW m \in Mails
               PROVE  /\ rows[m].attempts <= 1 + requeues[m]
                      /\ Faults \cap {"record", "commit", "mark"} = {}
                           /\ rows[m].status # "none" => accepted[m] <= rows[m].attempts
    BY DEF AttemptsCount
  <2>1. /\ rows[m].attempts \in Nat /\ accepted[m] \in Nat /\ requeues[m] \in Nat
    BY RowFields DEF IInv, TypeInv
  <2>2. rows[m].attempts <= 1 + requeues[m]
    BY <2>1 DEF HInv, AttemptsBound
  <2>3. Faults \cap {"record", "commit", "mark"} = {} /\ rows[m].status # "none" =>
          accepted[m] <= rows[m].attempts
    BY <2>1 DEF HInv, AttemptsCover
  <2> QED
    BY <2>2, <2>3
<1> QED
  BY <1>1, HistoryInvariance, PTL

----------------------------------------------------------------------------
(* The licence a mail has, told from where its job is.                     *)
New(m) == request[m[1]].pc \in {"idle", "record"}

AtHolder(m, w) == AtWorker(m, w) /\ worker[w].pc \in Outcome

Alone ==
  \A m \in Mails :
    /\ Unmarked(m) => ~AtSender(m) /\ \A w \in Workers : ~AtHolder(m, w)
    /\ AtSender(m) => \A w \in Workers : ~AtHolder(m, w)
    /\ \A v, w \in Workers : AtWorker(m, v) /\ AtWorker(m, w) => v = w
    /\ New(m) => Unmarked(m) /\ Owed(m)

LEMMA JobAlone == IInv => Alone
<1> SUFFICES ASSUME IInv, NEW m \in Mails
             PROVE  /\ Unmarked(m) => ~AtSender(m) /\ \A w \in Workers : ~AtHolder(m, w)
                    /\ AtSender(m) => \A w \in Workers : ~AtHolder(m, w)
                    /\ \A v, w \in Workers : AtWorker(m, v) /\ AtWorker(m, w) => v = w
                    /\ New(m) => Unmarked(m) /\ Owed(m)
  BY DEF Alone
<1>1. \A v, w \in Workers : AtWorker(m, v) /\ AtWorker(m, w) => v = w
  BY DEF IInv, OneJob, WorkersUnique
<1>2. AtSender(m) => \A w \in Workers : ~AtHolder(m, w)
  BY <1>1 DEF AtSender, AtHolder, Outcome
<1>3. Unmarked(m) /\ (\E v \in Workers : AtWorker(m, v)) =>
        \E v \in Workers : AtWorker(m, v) /\ worker[v].pc = "claimed"
  BY DEF IInv, OneJob, PlacesDisjoint, Unmarked
<1>4. Unmarked(m) => ~AtSender(m) /\ \A w \in Workers : ~AtHolder(m, w)
  BY <1>1, <1>3 DEF AtSender, AtHolder, Outcome
<1> QED
  BY <1>1, <1>2, <1>4 DEF New, Unmarked, Owed

LEMMA UnsentIs == \A m \in Mails : Unsent(m) <=> Unmarked(m) \/ AtSender(m)
BY DEF Unsent, Unmarked, AtSender

LEMMA LiveIs ==
  ASSUME TypeOK, NEW m \in Mails
  PROVE  Live(m) <=> Unmarked(m) \/ AtSender(m) \/ \E w \in Workers : AtHolder(m, w)
<1>1. \A w \in Workers : AtWorker(m, w) => worker[w].pc \in {"claimed", "sending"} \cup Outcome
  BY WorkerHasJob DEF AtWorker
<1> QED
  BY <1>1 DEF Live, Unmarked, AtSender, AtHolder, AtWorker, Outcome

LicenceByPlace ==
  \A m \in Mails :
    /\ New(m) => LicenceOf(m) = "new"
    /\ ~New(m) /\ (Unmarked(m) \/ AtSender(m)) => LicenceOf(m) = "waiting"
    /\ \A w \in Workers : AtHolder(m, w) => LicenceOf(m) = worker[w].pc
    /\ ~New(m) /\ ~Live(m) => LicenceOf(m) = "none"

LEMMA LicencePlaces == IInv => LicenceByPlace
<1> SUFFICES ASSUME IInv, NEW m \in Mails
             PROVE  /\ New(m) => LicenceOf(m) = "new"
                    /\ ~New(m) /\ (Unmarked(m) \/ AtSender(m)) => LicenceOf(m) = "waiting"
                    /\ \A w \in Workers : AtHolder(m, w) => LicenceOf(m) = worker[w].pc
                    /\ ~New(m) /\ ~Live(m) => LicenceOf(m) = "none"
  BY DEF LicenceByPlace
<1>1. Alone
  BY JobAlone
<1>2. New(m) => LicenceOf(m) = "new"
  BY DEF New, LicenceOf
<1>3. ~New(m) /\ (Unmarked(m) \/ AtSender(m)) => LicenceOf(m) = "waiting"
  BY UnsentIs DEF New, LicenceOf
<1>4. ASSUME NEW w \in Workers, AtHolder(m, w) PROVE LicenceOf(m) = worker[w].pc
  <2>1. ~New(m) /\ ~Unsent(m)
    BY <1>1, <1>4, UnsentIs DEF Alone
  <2>2. AtWorker(m, w) /\ \A v \in Workers : AtWorker(m, v) => v = w
    BY <1>1, <1>4 DEF Alone, AtHolder
  <2>3. WorkerOf(m) = w
    BY <2>2 DEF WorkerOf
  <2> QED
    BY <2>1, <2>2, <2>3 DEF LicenceOf, New
<1>5. ~New(m) /\ ~Live(m) => LicenceOf(m) = "none"
  BY UnsentIsLive DEF New, LicenceOf, Live
<1> QED
  BY <1>2, <1>3, <1>4, <1>5

----------------------------------------------------------------------------
(* A mail whose job stays in the same kind of place keeps its licence.     *)
LEMMA SameLicence ==
  ASSUME IInv, IInv', NEW m \in Mails,
         New(m)' <=> New(m),
         Unmarked(m)' <=> Unmarked(m),
         AtSender(m)' <=> AtSender(m),
         \A w \in Workers : AtHolder(m, w)' <=> AtHolder(m, w),
         \A w \in Workers : AtHolder(m, w) => worker'[w].pc = worker[w].pc
  PROVE  LicenceOf(m)' = LicenceOf(m)
<1>1. LicenceByPlace /\ TypeOK /\ TypeOK'
  BY LicencePlaces DEF IInv, TypeInv
<1>2. LicenceByPlace'
  BY LicencePlaces, PTL
<1>3. Live(m) <=> Unmarked(m) \/ AtSender(m) \/ \E w \in Workers : AtHolder(m, w)
  BY <1>1, LiveIs
<1>4. (Live(m) <=> Unmarked(m) \/ AtSender(m) \/ \E w \in Workers : AtHolder(m, w))'
  BY <1>1, LiveIs, PTL
<1>5. CASE New(m)
  BY <1>1, <1>2, <1>5 DEF LicenceByPlace
<1>6. CASE ~New(m) /\ (Unmarked(m) \/ AtSender(m))
  BY <1>1, <1>2, <1>6 DEF LicenceByPlace
<1>7. ASSUME NEW w \in Workers, AtHolder(m, w) PROVE LicenceOf(m)' = LicenceOf(m)
  BY <1>1, <1>2, <1>7 DEF LicenceByPlace
<1>8. CASE ~New(m) /\ ~Live(m)
  BY <1>1, <1>2, <1>3, <1>4, <1>8 DEF LicenceByPlace
<1> QED
  BY <1>3, <1>5, <1>6, <1>7, <1>8

(* Handing jobs on leaves every licence as it is.                          *)
LEMMA MovesKeepLicences ==
  ASSUME IInv, IInv', Moves, NEW m \in Mails, New(m)' <=> New(m)
  PROVE  LicenceOf(m)' = LicenceOf(m)
<1>1. Alone /\ TypeOK /\ TypeOK'
  BY JobAlone DEF IInv, TypeInv
<1>2. (Unmarked(m)' => Unmarked(m)) /\ (AtSender(m)' => AtSender(m))
  BY DEF Moves, AtSender, AtWorker
<1>3. \A w \in Workers : AtHolder(m, w)' => AtHolder(m, w) /\ worker'[w] = worker[w]
  BY DEF Moves, AtHolder, AtWorker
<1>4. Live(m) <=> Unmarked(m) \/ AtSender(m) \/ \E w \in Workers : AtHolder(m, w)
  BY <1>1, LiveIs
<1>5. (Live(m) <=> Unmarked(m) \/ AtSender(m) \/ \E w \in Workers : AtHolder(m, w))'
  BY <1>1, LiveIs, PTL
<1>6. /\ Unmarked(m) => ~AtSender(m) /\ \A w \in Workers : ~AtHolder(m, w)
      /\ AtSender(m) => \A w \in Workers : ~AtHolder(m, w)
      /\ \A v, w \in Workers : AtHolder(m, v) /\ AtHolder(m, w) => v = w
  BY <1>1 DEF Alone, AtHolder
<1>7. /\ Unmarked(m)' <=> Unmarked(m)
      /\ AtSender(m)' <=> AtSender(m)
      /\ \A w \in Workers : AtHolder(m, w)' <=> AtHolder(m, w)
      /\ \A w \in Workers : AtHolder(m, w) => worker'[w].pc = worker[w].pc
  BY <1>2, <1>3, <1>4, <1>5, <1>6 DEF Moves
<1> QED
  BY <1>7, SameLicence

----------------------------------------------------------------------------
(* Every step of the service, seen from the history.                       *)
LEMMA QuietImplements ==
  ASSUME IInv, IInv', Moves, HistoryKept, \A m \in Mails : New(m)' <=> New(m)
  PROVE  UNCHANGED History!vars
<1>1. \A m \in Mails : LicenceOf(m)' = LicenceOf(m)
  BY MovesKeepLicences
<1> QED
  BY <1>1 DEF History!vars, HistoryKept

LEMMA RecordMailImplements ==
  ASSUME IInv, IInv', NEW r \in Requests, RecordMail(r)
  PROVE  \E batch \in SUBSET Mails, recorded \in BOOLEAN : History!Submit(batch, recorded)
<1>1. TypeOK /\ Alone /\ LicenceByPlace
  BY JobAlone, LicencePlaces DEF IInv, TypeInv
<1>2. LicenceByPlace'
  BY LicencePlaces, PTL
<1>3. request[r].pc = "record"
  BY DEF RecordMail
<1>4. UNCHANGED <<queue, worker, admin, accepted>>
  BY DEF RecordMail
<1>5. PICK stored \in BOOLEAN, known \in BOOLEAN :
        /\ request' = [request EXCEPT ![r] = Enqueuing(request[r].smtp, known, 1)]
        /\ rows' = [m \in Mails |->
             IF m[1] = r /\ stored THEN NewRow(Route(request[r].smtp)) ELSE rows[m]]
  BY DEF RecordMail
<1>6. /\ request'[r].pc = "enqueue" /\ request'[r].next = 1
      /\ \A s \in Requests : s # r => request'[s] = request[s]
  BY <1>1, <1>5 DEF Enqueuing, TypeOK
<1>7. ASSUME NEW m \in Mails, m[1] = r
      PROVE  LicenceOf(m) = "new" /\ LicenceOf(m)' = "waiting"
  <2>1. New(m)
    BY <1>3, <1>7 DEF New
  <2>2. ~New(m)' /\ Owed(m)'
    BY <1>6, <1>7, MailsAreRecipients, ConstantsAssumption DEF New, Owed
  <2>3. Unmarked(m)'
    BY <2>2 DEF Unmarked
  <2> QED
    BY <1>1, <1>2, <2>1, <2>2, <2>3 DEF LicenceByPlace
<1>8. ASSUME NEW m \in Mails, m[1] # r
      PROVE  LicenceOf(m)' = LicenceOf(m)
  <2>1. (New(m)' <=> New(m)) /\ (Owed(m)' <=> Owed(m))
    BY <1>6, <1>8, MailsAreRecipients DEF New, Owed
  <2>2. (Unmarked(m)' <=> Unmarked(m)) /\ (AtSender(m)' <=> AtSender(m))
    BY <1>4, <2>1 DEF Unmarked, AtSender, AtQueue, AtWorker, AtAdmin
  <2>3. \A w \in Workers : AtHolder(m, w)' <=> AtHolder(m, w)
    BY <1>4 DEF AtHolder, AtWorker
  <2> QED
    BY <1>4, <2>1, <2>2, <2>3, SameLicence
<1>9. PICK batch \in SUBSET Mails : batch = {m \in Mails : m[1] = r}
  OBVIOUS
<1>10. \A m \in Mails : rows'[m].status = IF m \in batch /\ stored THEN "queued" ELSE rows[m].status
  BY <1>5, <1>9 DEF NewRow
<1>11. History!Submit(batch, stored)
  BY <1>4, <1>7, <1>8, <1>9, <1>10 DEF History!Submit
<1> QED
  BY <1>11

(* A worker's step touches the licence of the mail it holds alone.         *)
LEMMA WorkerKeepsOthers ==
  ASSUME IInv, IInv', NEW w \in Workers, worker[w].pc # "idle",
         NEW m0 \in Mails, worker[w].job.mail = m0,
         UNCHANGED <<queue, request, admin>>,
         \A v \in Workers : v # w => worker'[v] = worker[v],
         worker'[w].pc = "idle" \/ worker'[w].job.mail = m0,
         NEW m \in Mails, m # m0
  PROVE  LicenceOf(m)' = LicenceOf(m)
<1>1. \A v \in Workers : /\ AtWorker(m, v)' <=> AtWorker(m, v)
                         /\ AtWorker(m, v) => worker'[v] = worker[v]
  BY DEF AtWorker
<1>2. /\ New(m)' <=> New(m)
      /\ Unmarked(m)' <=> Unmarked(m)
      /\ AtSender(m)' <=> AtSender(m)
  BY <1>1 DEF New, Unmarked, AtSender, Owed, AtQueue, AtAdmin
<1>3. \A v \in Workers : /\ AtHolder(m, v)' <=> AtHolder(m, v)
                         /\ AtHolder(m, v) => worker'[v].pc = worker[v].pc
  BY <1>1 DEF AtHolder
<1> QED
  BY <1>2, <1>3, SameLicence

LEMMA MarkSendingImplements ==
  ASSUME IInv, HInv, IInv', NEW w \in Workers, MarkSending(w)
  PROVE  (\E m \in Mails : History!Begin(m)) \/ UNCHANGED History!vars
<1>1. TypeOK /\ OneJob /\ LicenceByPlace
  BY LicencePlaces DEF IInv, TypeInv
<1>2. LicenceByPlace'
  BY LicencePlaces, PTL
<1>3. worker[w].pc = "claimed" /\ worker[w].pc # "idle"
  BY DEF MarkSending
<1>4. PICK job \in Job : job = worker[w].job
  BY <1>1, <1>3, WorkerHasJob
<1>5. PICK m0 \in Mails : m0 = job.mail
  BY DEF Job
<1>6. UNCHANGED <<queue, request, admin, accepted>>
  BY DEF MarkSending
<1>7. /\ worker'[w].pc = "sending" /\ worker'[w].job = job
      /\ \A v \in Workers : v # w => worker'[v] = worker[v]
  BY <1>1, <1>4 DEF MarkSending, Working, TypeOK
<1>8. /\ ~Owed(m0) /\ AtWorker(m0, w)
      /\ \A v \in Workers : AtWorker(m0, v) => v = w
  BY <1>1, <1>3, <1>4, <1>5, WorkerHoldsAlone
<1>9. ~New(m0) /\ Unmarked(m0) /\ ~New(m0)' /\ AtSender(m0)'
  <2>1. ~New(m0)
    BY <1>8 DEF New, Owed
  <2> QED
    BY <1>3, <1>5, <1>6, <1>7, <1>8, <2>1 DEF New, Unmarked, AtSender, AtWorker
<1>10. LicenceOf(m0) = "waiting" /\ LicenceOf(m0)' = "waiting"
  BY <1>1, <1>2, <1>9 DEF LicenceByPlace
<1>11. \A m \in Mails : m # m0 => LicenceOf(m)' = LicenceOf(m)
  BY <1>3, <1>4, <1>5, <1>6, <1>7, WorkerKeepsOthers
<1>12. \A m \in Mails : LicenceOf(m)' = LicenceOf(m)
  BY <1>10, <1>11
<1>13. Mark(job, "sending")
  BY <1>4 DEF MarkSending
<1>14. /\ \A m \in Mails : m # m0 => rows'[m] = rows[m]
       /\ \/ job.recorded = TRUE /\ rows'[m0].status = "sending"
          \/ rows' = rows
  BY <1>1, <1>5, <1>13, MarkEffect
<1>15. job.recorded = TRUE => rows[m0].status = "queued"
  <2>1. job.recorded \in BOOLEAN /\ job.smtp \in SMTP
    BY DEF Job
  <2>2. JobKnows(m0, job.recorded, job.smtp)
    BY <1>1, <1>3, <1>4, <1>5, <2>1, WorkerCarries DEF HInv, JobsKnow
  <2>3. rows[m0].status \in Pending \cup {"none"} /\ rows[m0].status # "sending"
    BY <1>8, <1>9 DEF IInv, HInv, LiveUnsettled, Live, UnmarkedNotSending
  <2> QED
    BY <2>2, <2>3 DEF JobKnows, Pending
<1>16. CASE rows' = rows
  BY <1>6, <1>12, <1>16 DEF History!vars
<1>17. CASE job.recorded = TRUE /\ rows'[m0].status = "sending"
  <2>1. [m \in Mails |-> rows'[m].status]
          = [[m \in Mails |-> rows[m].status] EXCEPT ![m0] = "sending"]
    BY <1>14, <1>17
  <2> QED
    BY <1>6, <1>10, <1>12, <1>15, <1>17, <2>1 DEF History!Begin
<1> QED
  BY <1>14, <1>16, <1>17

LEMMA SendImplements ==
  ASSUME IInv, IInv', NEW w \in Workers, Send(w)
  PROVE  \E m \in Mails : History!Attempt(m)
<1>1. TypeOK /\ OneJob /\ LicenceByPlace
  BY LicencePlaces DEF IInv, TypeInv
<1>2. LicenceByPlace'
  BY LicencePlaces, PTL
<1>3. worker[w].pc = "sending" /\ worker[w].pc # "idle"
  BY DEF Send
<1>4. PICK job \in Job : job = worker[w].job
  BY <1>1, <1>3, WorkerHasJob
<1>5. PICK m0 \in Mails : m0 = job.mail
  BY DEF Job
<1>6. UNCHANGED <<rows, queue, request, admin>>
  BY DEF Send
<1>7. PICK took \in BOOLEAN, outcome \in Outcome :
        /\ outcome # "failed" => took
        /\ worker' = [worker EXCEPT ![w] = Working(outcome, job)]
        /\ accepted' = [accepted EXCEPT ![m0] = IF took THEN @ + 1 ELSE @]
  BY <1>4, <1>5 DEF Send
<1>8. /\ worker'[w].pc = outcome /\ worker'[w].job = job
      /\ \A v \in Workers : v # w => worker'[v] = worker[v]
  BY <1>1, <1>7 DEF Working, TypeOK
<1>9. ~Owed(m0) /\ AtWorker(m0, w)
  BY <1>1, <1>3, <1>4, <1>5, WorkerHoldsAlone
<1>10. ~New(m0) /\ AtSender(m0) /\ AtHolder(m0, w)'
  BY <1>3, <1>5, <1>8, <1>9 DEF New, Owed, AtSender, AtHolder, AtWorker, Outcome
<1>11. LicenceOf(m0) = "waiting" /\ LicenceOf(m0)' = outcome
  BY <1>1, <1>2, <1>8, <1>10 DEF LicenceByPlace
<1>12. \A m \in Mails : m # m0 => LicenceOf(m)' = LicenceOf(m)
  BY <1>3, <1>4, <1>5, <1>6, <1>8, WorkerKeepsOthers
<1>13. PICK n \in {0, 1} : n = IF took THEN 1 ELSE 0
  OBVIOUS
<1>14. accepted' = [accepted EXCEPT ![m0] = @ + n]
  <2>1. accepted[m0] + n = IF took THEN accepted[m0] + 1 ELSE accepted[m0]
    BY <1>1, <1>13 DEF TypeOK
  <2> QED
    BY <1>7, <2>1
<1>15. [m \in Mails |-> LicenceOf(m)]'
         = [[m \in Mails |-> LicenceOf(m)] EXCEPT ![m0] = outcome]
  BY <1>11, <1>12
<1>16. outcome # "failed" => n = 1
  BY <1>7, <1>13
<1>17. outcome \in History!Outcome
  BY DEF Outcome, History!Outcome
<1>18. History!Attempt(m0)
  BY <1>6, <1>11, <1>14, <1>15, <1>16, <1>17 DEF History!Attempt
<1> QED
  BY <1>18

LEMMA MarkOutcomeImplements ==
  ASSUME IInv, IInv', NEW w \in Workers, MarkOutcome(w)
  PROVE  \E m \in Mails : History!Settle(m)
<1>1. TypeOK /\ OneJob /\ LicenceByPlace /\ TypeOK'
  BY LicencePlaces DEF IInv, TypeInv
<1>2. LicenceByPlace'
  BY LicencePlaces, PTL
<1>3. worker[w].pc \in Outcome /\ worker[w].pc # "idle"
  BY DEF MarkOutcome, Outcome
<1>4. PICK job \in Job : job = worker[w].job
  BY <1>1, <1>3, WorkerHasJob
<1>5. PICK m0 \in Mails : m0 = job.mail
  BY DEF Job
<1>6. UNCHANGED <<queue, request, admin, accepted>>
  BY DEF MarkOutcome
<1>7. /\ worker'[w].pc = "idle"
      /\ \A v \in Workers : v # w => worker'[v] = worker[v]
  BY <1>1 DEF MarkOutcome, IdleState, TypeOK
<1>8. /\ ~Owed(m0) /\ AtWorker(m0, w)
      /\ \A i \in DOMAIN queue : ~AtQueue(m0, i)
      /\ \A v \in Workers : AtWorker(m0, v) => v = w
      /\ \A a \in Admins : ~AtAdmin(m0, a)
  BY <1>1, <1>3, <1>4, <1>5, WorkerHoldsAlone
<1>9. PICK outcome \in Outcome : outcome = worker[w].pc
  BY <1>3
<1>10. AtHolder(m0, w)
  BY <1>3, <1>8 DEF AtHolder
<1>11. ~New(m0)' /\ ~Live(m0)'
  <2>1. \A v \in Workers : ~AtWorker(m0, v)'
    BY <1>7, <1>8 DEF AtWorker
  <2>2. ~Owed(m0)' /\ (\A i \in DOMAIN queue : ~AtQueue(m0, i))'
                  /\ (\A a \in Admins : ~AtAdmin(m0, a))'
    BY <1>6, <1>8 DEF Owed, AtQueue, AtAdmin
  <2> QED
    BY <2>1, <2>2 DEF New, Owed, Live
<1>12. LicenceOf(m0) = outcome /\ LicenceOf(m0)' = "none"
  BY <1>1, <1>2, <1>9, <1>10, <1>11 DEF LicenceByPlace
<1>13. \A m \in Mails : m # m0 => LicenceOf(m)' = LicenceOf(m)
  BY <1>3, <1>4, <1>5, <1>6, <1>7, WorkerKeepsOthers
<1>14. [m \in Mails |-> LicenceOf(m)]'
         = [[m \in Mails |-> LicenceOf(m)] EXCEPT ![m0] = "none"]
  BY <1>12, <1>13
<1>15. Mark(job, outcome)
  BY <1>4, <1>9 DEF MarkOutcome
<1>16. /\ \A m \in Mails : m # m0 => rows'[m] = rows[m]
       /\ rows'[m0].status = outcome \/ rows' = rows
  BY <1>1, <1>5, <1>15, MarkEffect
<1>17. \/ [m \in Mails |-> rows[m].status]' = [m \in Mails |-> rows[m].status]
       \/ [m \in Mails |-> rows[m].status]'
            = [[m \in Mails |-> rows[m].status] EXCEPT ![m0] = outcome]
  BY <1>16
<1>18. outcome \in History!Outcome
  BY DEF Outcome, History!Outcome
<1>19. History!Settle(m0)
  BY <1>6, <1>12, <1>14, <1>17, <1>18 DEF History!Settle
<1> QED
  BY <1>19

(* A granted retry gives a failed mail without a job a new licence, unless *)
(* the handler never learns that it was granted.                           *)
LEMMA RetryRequeueImplements ==
  ASSUME IInv, IInv', NEW a \in Admins, RetryRequeue(a)
  PROVE  (\E m \in Mails : History!Retry(m)) \/ UNCHANGED History!vars
<1>1. TypeOK /\ LicenceByPlace
  BY LicencePlaces DEF IInv, TypeInv
<1>2. LicenceByPlace'
  BY LicencePlaces, PTL
<1>3. admin[a].pc = "requeue"
  BY DEF RetryRequeue
<1>4. PICK m0 \in Mails, smtp0 \in SMTP : m0 = admin[a].mail /\ smtp0 = admin[a].smtp
  BY <1>1, <1>3, AdminHasMail
<1>5. UNCHANGED <<queue, request, worker, accepted>>
  BY DEF RetryRequeue
<1>6. \A b \in Admins : b # a => admin'[b] = admin[b]
  BY <1>1 DEF RetryRequeue, TypeOK
<1>7. ASSUME NEW m \in Mails, m # m0 \/ admin'[a].pc = "idle"
      PROVE  LicenceOf(m)' = LicenceOf(m)
  <2>1. admin'[a].pc = "enqueue" => admin'[a].mail = m0
    BY <1>1, <1>4 DEF RetryRequeue, RetryingMail, IdleState, TypeOK
  <2>2. \A b \in Admins : AtAdmin(m, b)' <=> AtAdmin(m, b)
    BY <1>3, <1>6, <1>7, <2>1 DEF AtAdmin
  <2>3. /\ New(m)' <=> New(m)
        /\ Unmarked(m)' <=> Unmarked(m)
        /\ AtSender(m)' <=> AtSender(m)
        /\ \A w \in Workers : AtHolder(m, w)' <=> AtHolder(m, w)
    BY <1>5, <2>2 DEF New, Unmarked, AtSender, AtHolder, Owed, AtQueue, AtWorker
  <2> QED
    BY <1>5, <2>3, SameLicence
<1>8. CASE rows' = rows /\ admin'[a].pc = "idle"
  BY <1>5, <1>7, <1>8 DEF History!vars
<1>9. CASE /\ Requeueable(m0)
           /\ rows' = [rows EXCEPT ![m0] = Requeued(rows[m0], smtp0)]
           /\ admin'[a] = RetryingMail("enqueue", m0, smtp0) \/ admin'[a].pc = "idle"
  <2>1. rows[m0].status = "failed" /\ ~Live(m0) /\ ~New(m0)
    BY <1>9 DEF Requeueable, IInv, LiveUnsettled, NewUntouched, New, Pending
  <2>2. LicenceOf(m0) = "none"
    BY <1>1, <2>1 DEF LicenceByPlace
  <2>3. PICK l \in {"waiting", "none"} :
          l = IF admin'[a].pc = "idle" THEN "none" ELSE "waiting"
    OBVIOUS
  <2>4. LicenceOf(m0)' = l
    <3>1. ~New(m0)'
      BY <1>5, <2>1 DEF New
    <3>2. CASE admin'[a].pc = "idle"
      BY <1>7, <2>2, <2>3, <3>2
    <3>3. CASE admin'[a] = RetryingMail("enqueue", m0, smtp0)
      <4>1. admin'[a].pc # "idle" /\ Unmarked(m0)'
        BY <3>3 DEF RetryingMail, Unmarked, AtAdmin
      <4> QED
        BY <1>2, <2>3, <3>1, <4>1 DEF LicenceByPlace
    <3> QED
      BY <1>9, <3>2, <3>3
  <2>5. [m \in Mails |-> rows[m].status]'
          = [[m \in Mails |-> rows[m].status] EXCEPT ![m0] = "queued"]
    BY <1>1, <1>9 DEF Requeued, TypeOK
  <2>6. [m \in Mails |-> LicenceOf(m)]'
          = [[m \in Mails |-> LicenceOf(m)] EXCEPT ![m0] = l]
    BY <1>7, <2>4
  <2>7. History!Retry(m0)
    BY <1>5, <2>1, <2>2, <2>5, <2>6 DEF History!Retry
  <2> QED
    BY <2>7
<1>10. \/ /\ Requeueable(m0)
          /\ rows' = [rows EXCEPT ![m0] = Requeued(rows[m0], smtp0)]
          /\ \/ admin' = [admin EXCEPT ![a] = RetryingMail("enqueue", m0, smtp0)]
             \/ admin' = [admin EXCEPT ![a] = IdleState]
       \/ rows' = rows /\ admin' = [admin EXCEPT ![a] = IdleState]
  BY <1>4 DEF RetryRequeue
<1>11. \A x : admin' = [admin EXCEPT ![a] = x] => admin'[a] = x
  BY <1>1 DEF TypeOK
<1> QED
  BY <1>8, <1>9, <1>10, <1>11 DEF IdleState

(* A crash drops every licence but those of mails nobody submitted yet.    *)
LEMMA CrashImplements ==
  ASSUME IInv, IInv', Crash
  PROVE  History!Lose
<1>1. LicenceByPlace /\ TypeOK
  BY LicencePlaces DEF IInv, TypeInv
<1>2. LicenceByPlace'
  BY LicencePlaces, PTL
<1>3. UNCHANGED <<rows, accepted>> /\ queue' = <<>>
  BY DEF Crash
<1>4. /\ \A r \in Requests : request'[r].pc = IF request[r].pc = "idle" THEN "idle" ELSE "done"
      /\ \A w \in Workers : worker'[w].pc = "idle"
      /\ \A a \in Admins : admin'[a].pc = "idle"
  BY DEF Crash, IdleState, DoneState
<1>5. PICK lost \in SUBSET Mails : lost = {m \in Mails : request[m[1]].pc = "record"}
  OBVIOUS
<1>6. \A m \in lost : LicenceOf(m) = "new"
  BY <1>1, <1>5 DEF LicenceByPlace, New
<1>7. ASSUME NEW m \in Mails
      PROVE  LicenceOf(m)' =
               IF LicenceOf(m) = "new" /\ m \notin lost THEN "new" ELSE "none"
  <2>1. CASE request[m[1]].pc = "idle"
    BY <1>1, <1>2, <1>4, <1>5, <2>1, MailsAreRecipients DEF LicenceByPlace, New
  <2>2. CASE request[m[1]].pc # "idle"
    <3>1. ~New(m)' /\ ~Live(m)'
      BY <1>3, <1>4, <2>2, MailsAreRecipients
      DEF New, Live, Owed, AtQueue, AtWorker, AtAdmin
    <3>2. LicenceOf(m)' = "none"
      BY <1>2, <3>1 DEF LicenceByPlace
    <3>3. request[m[1]].pc # "record" => LicenceOf(m) # "new"
      <4> SUFFICES ASSUME request[m[1]].pc # "record" PROVE LicenceOf(m) # "new"
        OBVIOUS
      <4>1. ~New(m)
        BY <2>2 DEF New
      <4>2. \/ Unmarked(m) \/ AtSender(m)
            \/ \E w \in Workers : AtHolder(m, w)
            \/ ~Live(m)
        BY <1>1, LiveIs
      <4>3. \A w \in Workers : AtHolder(m, w) => LicenceOf(m) # "new"
        BY <1>1 DEF LicenceByPlace, AtHolder, Outcome
      <4> QED
        BY <1>1, <4>1, <4>2, <4>3 DEF LicenceByPlace
    <3> QED
      BY <1>5, <3>2, <3>3
  <2> QED
    BY <2>1, <2>2
<1>8. lost \in SUBSET {m \in Mails : [n \in Mails |-> LicenceOf(n)][m] = "new"}
  BY <1>6
<1>9. [m \in Mails |-> LicenceOf(m)]' =
        [m \in Mails |-> IF [n \in Mails |-> LicenceOf(n)][m] = "new" /\ m \notin lost
                         THEN "new" ELSE "none"]
  BY <1>7
<1> QED
  BY <1>3, <1>8, <1>9 DEF History!Lose

(* Marking the interrupted mails happens while no licence is in use.       *)
LEMMA RestartImplements ==
  ASSUME IInv, IInv', Restart
  PROVE  History!Recover
<1>1. LicenceByPlace /\ UNCHANGED <<queue, request, worker, admin, accepted>>
  BY LicencePlaces DEF Restart
<1>2. /\ queue = <<>>
      /\ \A r \in Requests : request[r].pc \in {"idle", "done"}
      /\ \A w \in Workers : worker[w].pc = "idle"
      /\ \A a \in Admins : admin[a].pc = "idle"
  BY DEF IInv, DownIsEmpty, Restart
<1>3. \A m \in Mails : New(m) \/ ~Live(m)
  BY <1>2, MailsAreRecipients DEF New, Live, Owed, AtQueue, AtWorker, AtAdmin
<1>4. \A m \in Mails : LicenceOf(m) \in {"new", "none"}
  BY <1>1, <1>3 DEF LicenceByPlace
<1>5. ASSUME NEW m \in Mails PROVE LicenceOf(m)' = LicenceOf(m)
  <2>1. /\ New(m)' <=> New(m)
        /\ Unmarked(m)' <=> Unmarked(m)
        /\ AtSender(m)' <=> AtSender(m)
        /\ \A w \in Workers : AtHolder(m, w)' <=> AtHolder(m, w)
    BY <1>1 DEF New, Unmarked, AtSender, AtHolder, Owed, AtQueue, AtWorker, AtAdmin
  <2> QED
    BY <1>1, <2>1, SameLicence
<1>6. \A m \in Mails :
        rows'[m].status = IF rows[m].status \in Pending THEN "failed" ELSE rows[m].status
  BY DEF Restart, Interrupted, Restarted
<1>7. History!Pending = Pending
  BY DEF History!Pending, Pending
<1> QED
  BY <1>1, <1>4, <1>5, <1>6, <1>7 DEF History!Recover

----------------------------------------------------------------------------
LEMMA InitImplements == Init => History!Init
<1> SUFFICES ASSUME Init PROVE History!Init
  OBVIOUS
<1>1. \A m \in Mails : rows[m].status = "none" /\ LicenceOf(m) = "new"
  BY MailsAreRecipients DEF Init, NoRow, IdleState, LicenceOf
<1> QED
  BY <1>1 DEF Init, History!Init

LEMMA StepImplements ==
  IInv /\ IInv' /\ HInv /\ [Next]_vars => [History!Next]_(History!vars)
<1> SUFFICES ASSUME IInv, IInv', HInv, [Next]_vars
             PROVE  History!Next \/ UNCHANGED History!vars
  OBVIOUS
<1>1. TypeOK
  BY DEF IInv, TypeInv
<1>2. ASSUME NEW r \in Requests, Admit(r) PROVE UNCHANGED History!vars
  <2>1. \A s \in Requests :
          \/ request'[s] = request[s]
          \/ request[s].pc = "idle" /\ request'[s].pc = "record"
    BY <1>1, <1>2 DEF Admit, TypeOK
  <2>2. \A m \in Mails : New(m)' <=> New(m)
    BY <2>1, MailsAreRecipients DEF New
  <2> QED
    BY <1>2, <2>2, AdmitMoves, QuietImplements
<1>3. ASSUME NEW r \in Requests, Enqueue(r) PROVE UNCHANGED History!vars
  <2>1. \A s \in Requests :
          \/ request'[s] = request[s]
          \/ request[s].pc = "enqueue" /\ request'[s].pc \in {"enqueue", "done"}
    BY <1>1, <1>3 DEF Enqueue, Enqueuing, DoneState, TypeOK
  <2>2. \A m \in Mails : New(m)' <=> New(m)
    BY <2>1, MailsAreRecipients DEF New
  <2> QED
    BY <1>3, <2>2, EnqueueMoves, QuietImplements
<1>4. ASSUME Moves, HistoryKept, request' = request PROVE UNCHANGED History!vars
  BY <1>4, QuietImplements DEF New
<1>5. ASSUME NEW r \in Requests, RecordMail(r) PROVE History!Next
  BY <1>5, RecordMailImplements DEF History!Next
<1>6. ASSUME NEW w \in Workers, Take(w) \/ MarkSending(w) \/ Send(w) \/ MarkOutcome(w)
      PROVE  History!Next \/ UNCHANGED History!vars
  <2>1. CASE Take(w)
    BY <1>4, <2>1, TakeMoves DEF Take
  <2>2. CASE MarkSending(w)
    BY <2>2, MarkSendingImplements DEF History!Next
  <2>3. CASE Send(w)
    BY <2>3, SendImplements DEF History!Next
  <2>4. CASE MarkOutcome(w)
    BY <2>4, MarkOutcomeImplements DEF History!Next
  <2> QED
    BY <1>6, <2>1, <2>2, <2>3, <2>4
<1>7. ASSUME NEW a \in Admins,
             \/ \E m \in Mails : RetryRead(a, m)
             \/ RetryKey(a) \/ RetryRequeue(a) \/ RetryEnqueue(a)
      PROVE  History!Next \/ UNCHANGED History!vars
  <2>1. CASE RetryRequeue(a)
    BY <2>1, RetryRequeueImplements DEF History!Next
  <2>2. CASE (\E m \in Mails : RetryRead(a, m)) \/ RetryKey(a)
    BY <1>4, <2>2, RetryReadKeyMoves DEF RetryRead, RetryKey
  <2>3. CASE RetryEnqueue(a)
    BY <1>4, <2>3, RetryEnqueueMoves DEF RetryEnqueue
  <2> QED
    BY <1>7, <2>1, <2>2, <2>3
<1>8. CASE Editing
  BY <1>4, <1>8, OtherMoves DEF Editing, SetKeyActive, SetKeySMTP, DeleteKey
<1>9. CASE Crash
  BY <1>9, CrashImplements DEF History!Next
<1>10. CASE Restart
  BY <1>10, RestartImplements DEF History!Next
<1>11. CASE UNCHANGED vars
  BY <1>4, <1>11, OtherMoves DEF vars
<1> QED
  BY <1>2, <1>3, <1>5, <1>6, <1>7, <1>8, <1>9, <1>10, <1>11
  DEF Next, Submitting, Delivering, Retrying

(* Every behaviour of the service, with its interleavings, faults and      *)
(* crashes, is one of the history's, for any number of requests, workers,  *)
(* retry handlers and servers, and any queue capacity.                     *)
THEOREM ImplementsHistoryTheorem == Spec => ImplementsHistory
<1>1. Init => History!Init
  BY InitImplements
<1>2. IInv /\ IInv' /\ HInv /\ [Next]_vars => [History!Next]_(History!vars)
  BY StepImplements
<1> QED
  BY <1>1, <1>2, HistoryInvariance, PTL DEF Spec, ImplementsHistory, History!Spec
=============================================================================
