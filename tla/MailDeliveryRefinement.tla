----------------------- MODULE MailDeliveryRefinement -----------------------
(* MailDelivery implements MailHistory: a mail's licence is the job that   *)
(* the handlers, the queue and the workers hold for it.                    *)
EXTENDS MailDelivery

WorkerOf(m) == CHOOSE w \in Workers : AtWorker(m, w)

LicenceOf(m) ==
  IF request[m[1]].pc \in {"idle", "record"} THEN "new"
  ELSE IF Unsent(m) THEN "waiting"
  ELSE IF \E w \in Workers : AtWorker(m, w) THEN worker[WorkerOf(m)].pc
  ELSE "none"

History == INSTANCE MailHistory WITH
  status <- [m \in Mails |-> rows[m].status],
  licence <- [m \in Mails |-> LicenceOf(m)]

(* Every behaviour of the service, with its interleavings, faults and      *)
(* crashes, is one of the history's: one attempt per submission or granted *)
(* retry, one acceptance per attempt, and statuses that only move as the   *)
(* history says (internal/store/mails.go, lines 14 and 15).                *)
ImplementsHistory == History!Spec
=============================================================================
