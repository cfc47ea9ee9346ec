------------------------ MODULE MCRequestLifecycle ------------------------
(* Instances of RequestLifecycle and RequestSteps for TLC. *)
EXTENDS Requests

CONSTANTS q1

=============================================================================
