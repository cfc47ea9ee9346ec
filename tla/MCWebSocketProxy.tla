--------------------------- MODULE MCWebSocketProxy ---------------------------
(* Instances of WebSocketProxy for TLC: close codes are numbers. *)
EXTENDS WebSocketProxy

=============================================================================
