------------------------------ MODULE MCBroker ------------------------------
(* Instances of Broker for TLC.                                            *)
EXTENDS Broker, TLC

CONSTANTS c1, c2, t1, t2

\* The threads are interchangeable; used where only safety is checked.
ThreadSymmetry == Permutations(Threads)

\* Connections c1 and c2 hash to different workers whenever there are two.
MCHash == [c \in Conns |-> IF c = c1 THEN 3 ELSE 6]
=============================================================================
