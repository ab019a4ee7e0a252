-------------------------- MODULE MCWsTransceiver --------------------------
(* Two ends a and b; the constants' functions are given here. *)
EXTENDS WsTransceiver, TLC

CONSTANTS a, b, c1, c2

MCPeer == (a :> b) @@ (b :> a)

\* The callers send on a.
MCHome == [c \in Callers |-> a]
============================================================================
