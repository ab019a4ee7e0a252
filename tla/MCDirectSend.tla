---------------------------- MODULE MCDirectSend ----------------------------
EXTENDS DirectSend

CONSTANTS a, b, a1
MCPeerOf == [n \in {a1} |-> a]
(* Messages under the name of Self and under its own. *)
MCForeign == {[from |-> Self, seq |-> 2], [from |-> Foreign, seq |-> 1]}
=============================================================================
