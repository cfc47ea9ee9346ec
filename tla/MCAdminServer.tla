-------------------------- MODULE MCAdminServer --------------------------
(* An instance of AdminServer for TLC. *)
EXTENDS AdminServer

CONSTANTS p1, p2

=============================================================================
