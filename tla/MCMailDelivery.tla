--------------------------- MODULE MCMailDelivery ---------------------------
(* Instances of MailDelivery for TLC: a batch of two through an API key    *)
(* and one auto-reply, a queue of one, two workers or one.                 *)
EXTENDS MailDeliveryRefinement, TLC

CONSTANTS r1, r2, k1

MCSize == r1 :> 2 @@ r2 :> 1
MCKeyOf == r1 :> k1 @@ r2 :> NoKey
SingleSize == r1 :> 1 @@ r2 :> 1
OneBatchSize == r1 :> 2
OneBatchKey == r1 :> k1
SystemMail == r1 :> NoKey @@ r2 :> NoKey

WorkerSymmetry == Permutations(Workers)
AdminSymmetry == Permutations(Admins)
Symmetry == WorkerSymmetry \cup AdminSymmetry
=============================================================================
