------------------------------ MODULE MCServer ------------------------------
(* Instances of Server for TLC.                                            *)
EXTENDS Server

\* Clients and DEALER connections are on different workers if there are two.
MCHash == [c \in Conns |-> IF c.is_router THEN 4 ELSE 7]
=============================================================================
