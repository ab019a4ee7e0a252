----------------------------- MODULE AckDelivery -----------------------------
(***************************************************************************)
(* What a transceiver with acknowledgements promises to its callers, with  *)
(* no counters, channels, timers, sockets or retries: every payload is     *)
(* delivered at most once, and a Send reports success only for a payload   *)
(* that was delivered and, where the receiver holds its acknowledgements   *)
(* back on errors, treated without one.                                    *)
(***************************************************************************)
EXTENDS Naturals, Sequences

CONSTANTS
    Senders,
    Numbers,     \* the payloads of a sender, in the order of their Sends
    Strict       \* senders whose receiver acknowledges only what it treated well

VARIABLES
    offered,     \* how many Sends were called
    delivered,   \* the deliveries, in order, and whether the receiver succeeded
    result       \* what each Send returned

vars == <<offered, delivered, result>>

Init ==
    /\ offered = [s \in Senders |-> 0]
    /\ delivered = [s \in Senders |-> <<>>]
    /\ result = [s \in Senders |-> [n \in Numbers |-> "none"]]

Offer(s) ==
    /\ offered' = [offered EXCEPT ![s] = @ + 1]
    /\ UNCHANGED <<delivered, result>>

Deliver(s, n, ok) ==
    /\ n =< offered[s]
    /\ \A i \in DOMAIN delivered[s] : delivered[s][i].counter # n
    /\ delivered' = [delivered EXCEPT ![s] = Append(@, [counter |-> n, ok |-> ok])]
    /\ UNCHANGED <<offered, result>>

Return(s, n, r) ==
    /\ n =< offered[s] /\ result[s][n] = "none"
    /\ result' = [result EXCEPT ![s][n] = r]
    /\ UNCHANGED <<offered, delivered>>

Confirm(s, n) ==
    /\ \E i \in DOMAIN delivered[s] :
          delivered[s][i].counter = n /\ (delivered[s][i].ok \/ s \notin Strict)
    /\ Return(s, n, "ok")

GiveUp(s, n) == \E r \in {"error", "timeout", "closed"} : Return(s, n, r)

Next ==
    \E s \in Senders :
        \/ Offer(s)
        \/ \E n \in Numbers :
              Confirm(s, n) \/ GiveUp(s, n) \/ \E ok \in BOOLEAN : Deliver(s, n, ok)

Spec == Init /\ [][Next]_vars
=============================================================================
