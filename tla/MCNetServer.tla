---------------------------- MODULE MCNetServer ----------------------------
(* Instances of NetServer for TLC. *)
EXTENDS NetServer

CONSTANTS s1, s2, c1, c2, w1, w2, w3, w4

FourWorkers == {w1, w2, w3, w4}
AllThreads == {main, tcpip} \cup FourWorkers
Mailboxes == {tcpip} \cup Socket
Shared == [c \in Client |-> IF c = c2 THEN Socket ELSE {s1}]

ASSUME SlowAreOwn == OwnSlow
=============================================================================
