-------------------------- MODULE MCMessageIntake --------------------------
(* Two equivalent messages, a third that drops their identifier from a cache of one, and *)
(* one that cannot be read.                                                             *)
EXTENDS MessageIntake, TLC

CONSTANTS blocks, m1, m2, m3, bad, x, y, p

MCTopicOf == [m \in Messages |-> blocks]
\* m1 comes early or late and, once forgotten, again; m2 too early or in time; m3 in between.
MCTimestampOf == [m \in Messages |-> IF m = m2 THEN 2 ELSE 0]
MCArriveAt ==
    [m \in Messages |-> CASE m = m1 -> {0, 2, 5} [] m = m2 -> {0, 2} [] m = m3 -> {1}
                          [] OTHER -> {5}]

\* A message whose timestamp is one second ahead when time begins.
MCTimestampAhead == [m \in Messages |-> 1]

MCFrom == [m \in Messages |-> IF m = bad THEN NoPeer ELSE p]
MCEquivalentOf == [m \in Messages |-> IF m = m3 THEN y ELSE x]

Symmetry == Permutations(Identifiers)
============================================================================
