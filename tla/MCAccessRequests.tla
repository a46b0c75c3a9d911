-------------------------- MODULE MCAccessRequests --------------------------
(* Instances of AccessRequests: the .cfg files give the constants.         *)
EXTENDS AccessRequests
=============================================================================
