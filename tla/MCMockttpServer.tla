---------------------------- MODULE MCMockttpServer ----------------------------
(* Instances of MockttpServer for TLC: ports are numbers. *)
EXTENDS MockttpServer

CONSTANTS s1, s2, c1, None

\* Data of errors: it may repeat what came before, or not.
SampleChunks == {<<"a">>, <<"a", "b">>}

=============================================================================
