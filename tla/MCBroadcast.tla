---------------------------- MODULE MCBroadcast ----------------------------
(* A topic with its channel, and a broadcast on each of its channel and the *)
(* default one.                                                             *)
EXTENDS Broadcast

CONSTANTS blocks, g1, g2

MCTopicOf == [g \in Senders |-> blocks]

MCChannelOf == [g \in Senders |-> IF g = g2 THEN DefaultChannel ELSE blocks]
============================================================================
