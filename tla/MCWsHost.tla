------------------------------ MODULE MCWsHost -----------------------------
(* Small instances of WsHost. *)
EXTENDS WsHost
============================================================================
