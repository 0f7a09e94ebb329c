---------------------------- MODULE MCMaxSessions ----------------------------
(* MaxSessions on a small instance: users and tasks are model values.       *)
EXTENDS MaxSessions

=============================================================================
