------------------------------ MODULE RpcCall ------------------------------
(***************************************************************************)
(* What connection::request() promises its caller, and nothing about how:  *)
(* the response handler given to a request runs at most once, with one     *)
(* outcome, and that outcome is honest.  "ok" and "error" are reported     *)
(* only if the remote side has replied so, "timeout" only to a request     *)
(* that was given a deadline.  Broker.tla implements this specification.   *)
(***************************************************************************)
CONSTANTS Calls,      \* the requests that may be made
          ReplyKinds  \* what a remote side can answer with

VARIABLES status,     \* status[e]: "idle", "pending", or the outcome reported
          deadline,   \* the calls that were given a deadline
          answers     \* answers[e]: the kinds of reply the remote side sent

callVars == <<status, deadline, answers>>

CallTypeOK ==
    /\ status \in [Calls -> {"idle", "pending", "timeout"} \cup ReplyKinds]
    /\ deadline \in SUBSET Calls
    /\ answers \in [Calls -> SUBSET ReplyKinds]

CallInit ==
    /\ status = [e \in Calls |-> "idle"]
    /\ deadline = {}
    /\ answers = [e \in Calls |-> {}]

\* A caller makes the request e, with or without a deadline.
Issue(e) ==
    /\ status[e] = "idle"
    /\ status' = [status EXCEPT ![e] = "pending"]
    /\ deadline' \in {deadline, deadline \cup {e}}
    /\ UNCHANGED answers

\* The remote side answers e.  It may do so late, and more than once.
Answer(e, k) ==
    /\ status[e] # "idle"
    /\ answers' = [answers EXCEPT ![e] = @ \cup {k}]
    /\ UNCHANGED <<status, deadline>>

\* The handler of e runs with an answer of the remote side.
Complete(e, k) ==
    /\ status[e] = "pending"
    /\ k \in answers[e]
    /\ status' = [status EXCEPT ![e] = k]
    /\ UNCHANGED <<deadline, answers>>

\* The handler of e runs with error_code::TIMEOUT_EXPIRED.
Expire(e) ==
    /\ status[e] = "pending"
    /\ e \in deadline
    /\ status' = [status EXCEPT ![e] = "timeout"]
    /\ UNCHANGED <<deadline, answers>>

CallNext ==
    \E e \in Calls :
        \/ Issue(e)
        \/ Expire(e)
        \/ \E k \in ReplyKinds : Answer(e, k) \/ Complete(e, k)

CallSpec == CallInit /\ [][CallNext]_callVars
=============================================================================
