------------------------- MODULE MCWebSocketClient -------------------------
(* Values for TLC. *)
EXTENDS WebSocketClient
============================================================================
