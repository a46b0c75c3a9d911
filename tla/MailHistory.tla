----------------------------- MODULE MailHistory -----------------------------
(***************************************************************************)
(* What the service promises about a mail, without queue, workers,         *)
(* handlers, keys or servers: a submission or a granted retry is a licence *)
(* for one attempt, an attempt reaches a server at most once, and the      *)
(* history row follows. MailDelivery implements it.                        *)
(***************************************************************************)
EXTENDS Naturals

CONSTANT Mails

VARIABLES
  status,     \* the row of the mail history, "none" while there is none
  licence,    \* the attempt a mail has in hand
  accepted    \* how often a server took the mail

vars == <<status, licence, accepted>>

Pending == {"queued", "sending"}
Outcome == {"sent", "simulated", "failed"}

Init ==
  /\ status = [m \in Mails |-> "none"]
  /\ licence = [m \in Mails |-> "new"]
  /\ accepted = [m \in Mails |-> 0]

(* A batch is submitted; the history may fail to record it, but then it    *)
(* fails for the whole batch.                                              *)
Submit(batch, recorded) ==
  /\ \A m \in batch : licence[m] = "new"
  /\ licence' = [m \in Mails |-> IF m \in batch THEN "waiting" ELSE licence[m]]
  /\ status' = [m \in Mails |->
       IF m \in batch /\ recorded THEN "queued" ELSE status[m]]
  /\ UNCHANGED accepted

Begin(m) ==
  /\ licence[m] = "waiting"
  /\ status[m] = "queued"
  /\ status' = [status EXCEPT ![m] = "sending"]
  /\ UNCHANGED <<licence, accepted>>

(* The attempt ends, successfully only if a server took the mail.          *)
Attempt(m) ==
  /\ licence[m] = "waiting"
  /\ \E took \in {0, 1}, outcome \in Outcome :
       /\ outcome # "failed" => took = 1
       /\ licence' = [licence EXCEPT ![m] = outcome]
       /\ accepted' = [accepted EXCEPT ![m] = @ + took]
  /\ UNCHANGED status

(* The history learns the outcome, or it never does.                       *)
Settle(m) ==
  /\ licence[m] \in Outcome
  /\ licence' = [licence EXCEPT ![m] = "none"]
  /\ status' \in {status, [status EXCEPT ![m] = licence[m]]}
  /\ UNCHANGED accepted

(* A failed mail that has no attempt in hand may get one more.             *)
Retry(m) ==
  /\ status[m] = "failed"
  /\ licence[m] = "none"
  /\ status' = [status EXCEPT ![m] = "queued"]
  /\ \E l \in {"waiting", "none"} : licence' = [licence EXCEPT ![m] = l]
  /\ UNCHANGED accepted

(* A crash takes the licences of everything that was under way.            *)
Lose ==
  /\ \E lost \in SUBSET {m \in Mails : licence[m] = "new"} :
       licence' = [m \in Mails |->
         IF licence[m] = "new" /\ m \notin lost THEN "new" ELSE "none"]
  /\ UNCHANGED <<status, accepted>>

Recover ==
  /\ \A m \in Mails : licence[m] \in {"new", "none"}
  /\ status' = [m \in Mails |->
       IF status[m] \in Pending THEN "failed" ELSE status[m]]
  /\ UNCHANGED <<licence, accepted>>

Next ==
  \/ \E batch \in SUBSET Mails, recorded \in BOOLEAN : Submit(batch, recorded)
  \/ \E m \in Mails : Begin(m) \/ Attempt(m) \/ Settle(m) \/ Retry(m)
  \/ Lose \/ Recover

Spec == Init /\ [][Next]_vars
=============================================================================
