------------------------------ MODULE MCQuota ------------------------------
(* Three calls of one and two mails, from an empty log.                    *)
EXTENDS Quota

CONSTANTS c1, c2, c3

MCMails == [c \in Calls |-> IF c = c1 THEN 1 ELSE 2]
MCWindows == <<2, 3>>
MCHistory == {{}}
TwoLimits == {<<2, 3>>, <<3, 2>>, <<0, 2>>}
=============================================================================
