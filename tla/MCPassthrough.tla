--------------------------- MODULE MCPassthrough ---------------------------
(* Instances of Passthrough for TLC: two requests that share a connection,    *)
(* with samples for the headers and destinations of what is passed through.   *)
EXTENDS Forwarding

CONSTANTS q1, q2, c1

SharedConnection == [q \in {q1, q2} |-> c1]

SampleCased == [name \in {"Content-Length", "Transfer-Encoding", "Host"} |->
                    CASE name = "Content-Length" -> "content-length"
                      [] name = "Transfer-Encoding" -> "transfer-encoding"
                      [] name = "Host" -> "host"]

SampleGroups == [a \in {"::1", "::a"} |-> IF a = "::1" THEN 1 ELSE InvalidPort]
SampleShortened == [a \in {"::1", "::a"} |-> ":"]
SampleOpened == [a \in {"::1", "::a"} |-> "[:"]

SamplePorts == {0, 80, 443, InvalidPort}
SampleReplacements == {At("target", 0), At("target", 80)}

=============================================================================
