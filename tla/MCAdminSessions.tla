-------------------------- MODULE MCAdminSessions --------------------------
(* A limit of two failures in a window of two ticks, sessions of one tick. *)
EXTENDS AdminSessions, TLC

LoginSymmetry == Permutations(Logins) \cup Permutations(Calls)
=============================================================================
