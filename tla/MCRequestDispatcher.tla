------------------------ MODULE MCRequestDispatcher ------------------------
(* Small instances of RequestDispatcher for TLC. *)
EXTENDS RequestDispatcher

CONSTANTS s1, s2, w1, r1, c1

\* One client that lost its first connection and came back on the second.
OneClient == [s \in Sessions |-> c1]

Resends == {<<s1, w1>>, <<s2, w1>>}
OneEdit == {<<s1, w1>>}
\* An edit sent on both connections and a read on the first.
ResendAndRead == Resends \cup {<<s1, r1>>}
\* The same with the read sent again while it may still be active.
EverythingTwice == ResendAndRead \cup {<<s2, r1>>}
NoCancels == {}
=============================================================================
