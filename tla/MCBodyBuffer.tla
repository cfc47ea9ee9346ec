--------------------------- MODULE MCBodyBuffer ---------------------------
(* Instances of BodyBuffer for TLC. *)
EXTENDS BodyBuffer

CONSTANTS r1, r2, r3

=============================================================================
