------------------------------ MODULE RpcServe ------------------------------
(***************************************************************************)
(* What a server promises its clients, and nothing about how: a request is *)
(* answered at most once, and the answer goes to the connection and the    *)
(* event id that the request came with.  Server.tla implements this.       *)
(***************************************************************************)
CONSTANTS Requests,   \* the requests that may be made
          Addresses,  \* where an answer can go: a connection and an event id
          NoAddress

VARIABLES origin,     \* origin[q]: the address of request q, or NoAddress
          answers     \* answers[q]: the addresses an answer to q was sent to

serveVars == <<origin, answers>>

ServeInit ==
    /\ origin = [q \in Requests |-> NoAddress]
    /\ answers = [q \in Requests |-> <<>>]

\* A client makes the request q.
Ask(q, a) ==
    /\ origin[q] = NoAddress
    /\ origin' = [origin EXCEPT ![q] = a]
    /\ UNCHANGED answers

\* q is answered for the first time, and to its own address.
Answer(q) ==
    /\ origin[q] # NoAddress
    /\ answers[q] = <<>>
    /\ answers' = [answers EXCEPT ![q] = <<origin[q]>>]
    /\ UNCHANGED origin

ServeNext ==
    \E q \in Requests : Answer(q) \/ \E a \in Addresses : Ask(q, a)

ServeSpec == ServeInit /\ [][ServeNext]_serveVars
=============================================================================
