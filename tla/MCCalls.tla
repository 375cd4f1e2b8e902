------------------------------ MODULE MCCalls ------------------------------
(***************************************************************************)
(* The library as an application uses it: blocking calls of the C++        *)
(* interface (SyncCall), the Python binding (PyBinding), and the life of   *)
(* an application (PyApp).  A behaviour is one of the three.               *)
(*                                                                         *)
(* Calls that workers make need two calls and two runs of application code *)
(* to wait in a circle.  With everything else that can happen these are    *)
(* too many states, so that a behaviour either keeps to one of them or is  *)
(* one of calls with a deadline made in workers, without what has no part  *)
(* in their waiting.                                                       *)
(***************************************************************************)
EXTENDS SyncCall, PyBinding, PyApp

VARIABLE part   \* the one that this behaviour is about

\* Application code runs in workers once.
RunOnce == runs <= 1

\* Only workers call, with a timeout, and nothing else answers.
SyncNested ==
    \A c \in Calls : /\ by[c] # Nobody => by[c] \in Pool /\ timed[c]
                     /\ \A i \in DOMAIN arrived[c] : arrived[c][i] = "timeout"

\* One call is made and one request comes.
OneEach ==
    /\ \A c \in Rpcs : c > 1 => ctrl[c] = "none"
    /\ \A r \in Served : r > 1 => rep[r] = "none"

\* Only services and callbacks call, with a deadline, which completes the call;
\* they keep their RPCs but neither answer nor keep their channels, nothing raises
\* and no object is destroyed.
PyNested ==
    /\ gil = NoHolder
    /\ \A r \in Served : sent[r] = 0 /\ ~holds[r]
    /\ \A c \in Rpcs :
          /\ ctrl[c] # "none" => caller[c] \in PyPool /\ deadline[c] /\ user[c] # "none"
          /\ status[c] \in {"active", "deadline"}
          /\ life[c] \notin {"raised", "parse_raised", "callback_raised"}

CallsInit == Init /\ PyInit /\ AInit /\ part \in {"SyncCall", "PyBinding", "PyApp"}

CallsNext ==
    \/ /\ part = "SyncCall" /\ Next /\ (RunOnce \/ SyncNested)'
       /\ UNCHANGED <<part, pyvars, avars>>
    \/ /\ part = "PyBinding" /\ PyNext /\ (OneEach \/ PyNested)'
       /\ UNCHANGED <<part, vars, avars>>
    \/ part = "PyApp" /\ ANext /\ UNCHANGED <<part, vars, pyvars>>

\* A part that is not used never has a step to take.
CallsSpec ==
    /\ CallsInit /\ [][CallsNext]_<<part, vars, pyvars, avars>>
    /\ Fairness /\ PyFairness /\ AFairness
=============================================================================
