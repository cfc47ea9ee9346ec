------------------------------ MODULE Forwarding ------------------------------
(***************************************************************************)
(* Passed-through requests together with what is computed of their headers.*)
(* It depends on no variable, so it is enough to look at the samples in the*)
(* initial states.                                                         *)
(***************************************************************************)
EXTENDS Passthrough, Headers

(***************************************************************************)
(* Header updates and the translations between HTTP versions keep what is  *)
(* not theirs, and the framing of what is sent matches its body.           *)
(***************************************************************************)
HeadersSurvive == Init => OthersUntouched /\ FramingMatchesBody

=============================================================================
