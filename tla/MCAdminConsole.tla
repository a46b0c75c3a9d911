--------------------------- MODULE MCAdminConsole ---------------------------
(* Instances of AdminConsole: two or three mails, one key, one search.     *)
EXTENDS AdminConsole, TLC

CONSTANTS k1, q1, r1, r2

Places == Permutations(Refreshes)

TwoSenders == [m \in Mails |-> IF m = 1 THEN k1 ELSE "system"]
OddHits == [q \in Searches |-> {m \in Mails : m % 2 = 1}]
=============================================================================
