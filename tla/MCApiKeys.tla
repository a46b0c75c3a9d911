----------------------------- MODULE MCApiKeys -----------------------------
(* Two raw keys, either of which may be configured or made in the console, *)
(* two edits and a restart. The edits type a password, keep it or drop it, *)
(* and enable, disable or leave the key.                                   *)
EXTENDS ApiKeys

Asking(active, super, password) == [active |-> active, super |-> super, password |-> password]
MCInputs == {
  Asking("on", FALSE, "keep"), Asking("keep", TRUE, "new"), Asking("keep", FALSE, "keep"),
  Asking("off", TRUE, "none")}
=============================================================================
