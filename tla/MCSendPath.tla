----------------------------- MODULE MCSendPath -----------------------------
(* A call of one mail and one of two, in an "hour" of one tick and a "day" *)
(* of two; a key that is unused or was used at two earlier times, and is   *)
(* edited between usable, super, disabled, barred and broken.              *)
EXTENDS SendPath

CONSTANTS c1, c2, p1, p2

MCMails == [c \in Calls |-> IF c = c1 THEN 1 ELSE 2]
MCRoutes == [c \in Calls |-> IF c = c1 THEN {"send", "compose"} ELSE {"template"}]
MCWindows == <<1, 2>>
MCLimits == {<<2, 3>>, <<1, 0>>}

Charge(c, at) == [call |-> c, at |-> at, mails |-> 1, status |-> "accepted",
                  super |-> FALSE, limits |-> <<2, 3>>]
MCHistory == {{}, {Charge(p1, 0), Charge(p2, 1)}}

Choice(super, limits, active, allows, smtp) ==
  [super |-> super, limits |-> limits, active |-> active, allows |-> allows, smtp |-> smtp]
MCKeyChoices == {
  Choice(FALSE, <<2, 3>>, TRUE, TRUE, TRUE),
  Choice(FALSE, <<1, 0>>, TRUE, TRUE, TRUE),
  Choice(TRUE, <<2, 3>>, TRUE, FALSE, TRUE),
  Choice(FALSE, <<2, 3>>, FALSE, TRUE, TRUE),
  Choice(FALSE, <<1, 0>>, TRUE, FALSE, FALSE)}
=============================================================================
