------------------------------ MODULE SyncCall ------------------------------
(***************************************************************************)
(* Synchronous calls: sync_requester::request() puts a sync_call_handler   *)
(* on the caller's stack, sends the request and waits for its sync_event,  *)
(* which a worker signals after it has stored the outcome.  The caller is  *)
(* an application thread, or a worker that runs application code (a        *)
(* service, a response handler or a closure), and such a worker pops no    *)
(* command before the call returns.                                        *)
(*                                                                         *)
(* The way of a request through the broker is in module Broker: here its   *)
(* kStartRpc command is in the worker's queue at once, and responses and   *)
(* the timeout follow it, late, twice or never.  A caller keeps its        *)
(* connection, hence the manager: there is no shutdown during a call.      *)
(***************************************************************************)
EXTENDS Naturals, Sequences

CONSTANTS
    AppThreads,   \* application threads
    Pool,         \* worker threads
    Nobody,
    MaxCalls,     \* bound on the calls
    Wanting,      \* calls whose response_ is not NULL
    Answers,      \* what the remote side answers
    MaxArrivals,  \* bound on the completions that reach the worker, per call
    MaxRuns       \* bound on the application code run in workers

Callers == AppThreads \cup Pool
Calls   == 1 .. MaxCalls

ASSUME CallersAssumption == AppThreads \cap Pool = {} /\ Nobody \notin Callers
ASSUME BoundsAssumption ==
    /\ MaxCalls \in Nat \ {0} /\ MaxArrivals \in Nat /\ MaxRuns \in Nat
    /\ Wanting \subseteq Calls
    /\ Answers \subseteq {"good", "bad", "error"}

\* What a worker can find for a call: a response that parses, one that does
\* not, an error response, or the end of the timeout.
Kinds == Answers \cup {"timeout"}

VARIABLES
    by,        \* by[c]: the thread that makes call c
    home,      \* home[c]: the worker of its connection
    timed,     \* timed[c]: timeout_ms is not negative
    at,        \* at[c]: where the caller is in request()
    mu,        \* mu[c]: who holds the mutex of the sync_event
    ready,     \* ready[c]: sync_event::ready_
    stored,    \* stored[c]: error_ and *response_ of the handler
    result,    \* result[c]: what request() returned or threw
    cmds,      \* cmds[w]: the command queue of worker w
    pending,   \* pending[w]: worker w's remote_response_map_
    job,       \* job[w]: what worker w is doing, for which call
    arrived,   \* arrived[c]: ghost: completions put in the queue, in order
    runs       \* application code given to workers so far

callVars == <<by, home, timed>>
vars == <<by, home, timed, at, mu, ready, stored, result, cmds, pending,
          job, arrived, runs>>

Idle == [st |-> "idle", call |-> 0]

Init ==
    /\ by = [c \in Calls |-> Nobody]
    /\ home = [c \in Calls |-> Nobody]
    /\ timed = [c \in Calls |-> FALSE]
    /\ at = [c \in Calls |-> "none"]
    /\ mu = [c \in Calls |-> "free"]
    /\ ready = [c \in Calls |-> FALSE]
    /\ stored = [c \in Calls |-> "none"]
    /\ result = [c \in Calls |-> "none"]
    /\ cmds = [w \in Pool |-> <<>>]
    /\ pending = [w \in Pool |-> {}]
    /\ job = [w \in Pool |-> Idle]
    /\ arrived = [c \in Calls |-> <<>>]
    /\ runs = 0

\* The sync_call_handler of c is on the stack of its caller.
OnStack(c) == at[c] \notin {"none", "returned"}

\* a is inside a call.
InCall(a) == \E c \in Calls : by[c] = a /\ OnStack(c)

-----------------------------------------------------------------------------
(* The caller                                                              *)

\* sync_requester::request() up to wait().
Request(a, c, w, t) ==
    /\ at[c] = "none"
    /\ \A d \in Calls : d < c => at[d] # "none"
    /\ ~InCall(a)
    /\ a \in Pool => job[a].st = "app"
    /\ by' = [by EXCEPT ![c] = a]
    /\ home' = [home EXCEPT ![c] = w]
    /\ timed' = [timed EXCEPT ![c] = t]
    /\ at' = [at EXCEPT ![c] = "lock"]
    /\ cmds' = [cmds EXCEPT ![w] = Append(@, [cmd |-> "start", call |-> c, kind |-> "none"])]
    /\ UNCHANGED <<mu, ready, stored, result, pending, job, arrived, runs>>

\* sync_event::wait(): the mutex is held from the test of ready_ to the wait.
Wait(c) ==
    /\ at[c] = "lock"
    /\ mu[c] = "free"
    /\ at' = [at EXCEPT ![c] = IF ready[c] THEN "read" ELSE "wait"]
    /\ UNCHANGED <<callVars, mu, ready, stored, result, cmds, pending, job, arrived, runs>>

\* A condition variable may wake up without a notification.
WakeUp(c) ==
    /\ at[c] = "wait"
    /\ at' = [at EXCEPT ![c] = "lock"]
    /\ UNCHANGED <<callVars, mu, ready, stored, result, cmds, pending, job, arrived, runs>>

\* get_rpc_error(), the throw or the return, and the end of the handler.
Return(c) ==
    /\ at[c] = "read"
    /\ result' = [result EXCEPT ![c] = stored[c]]
    /\ at' = [at EXCEPT ![c] = "returned"]
    /\ UNCHANGED <<callVars, mu, ready, stored, cmds, pending, job, arrived, runs>>

-----------------------------------------------------------------------------
(* The worker                                                              *)

Take(w, cmd) ==
    /\ job[w] = Idle
    /\ cmds[w] # <<>>
    /\ Head(cmds[w]).cmd = cmd
    /\ cmds' = [cmds EXCEPT ![w] = Tail(@)]

\* worker::start_rpc()
StartRpc(w) ==
    /\ Take(w, "start")
    /\ pending' = [pending EXCEPT ![w] = @ \cup {Head(cmds[w]).call}]
    /\ UNCHANGED <<callVars, at, mu, ready, stored, result, job, arrived, runs>>

\* sync_call_handler::operator(): an error is copied; a response is parsed if
\* the caller wants one, and one that does not parse is an INVALID_MESSAGE.
Outcome(c, kind) == IF kind = "bad" /\ c \notin Wanting THEN "good" ELSE kind

\* worker::handle_done_resp(), handle_error_resp() and handle_timeout() run
\* the handler of a call that is in the map and ignore any other.
RunHandler(w) ==
    LET m == Head(cmds[w]) IN
    /\ Take(w, "complete")
    /\ IF m.call \in pending[w]
         THEN /\ job' = [job EXCEPT ![w] = [st |-> "lock", call |-> m.call]]
              /\ stored' = [stored EXCEPT ![m.call] = Outcome(m.call, m.kind)]
         ELSE UNCHANGED <<job, stored>>
    /\ UNCHANGED <<callVars, at, mu, ready, result, pending, arrived, runs>>

\* Application code in a worker begins, and ends when no call of it is left.
RunApplication(w) ==
    /\ Take(w, "run")
    /\ job' = [job EXCEPT ![w] = [st |-> "app", call |-> 0]]
    /\ UNCHANGED <<callVars, at, mu, ready, stored, result, pending, arrived, runs>>

ApplicationReturns(w) ==
    /\ job[w].st = "app"
    /\ ~InCall(w)
    /\ job' = [job EXCEPT ![w] = Idle]
    /\ UNCHANGED <<callVars, at, mu, ready, stored, result, cmds, pending, arrived, runs>>

Step(w, from, to) ==
    /\ job[w].st = from
    /\ job' = [job EXCEPT ![w].st = to]

\* sync_event::signal(), lock by lock: a waiting caller is woken up before the
\* mutex is released, so it cannot return before that.
SignalLock(w) ==
    LET c == job[w].call IN
    /\ Step(w, "lock", "notify")
    /\ mu[c] = "free"
    /\ mu' = [mu EXCEPT ![c] = "worker"]
    /\ ready' = [ready EXCEPT ![c] = TRUE]
    /\ UNCHANGED <<callVars, at, stored, result, cmds, pending, arrived, runs>>

Unwoken(c) == at

\* cond_.notify_all()
Woken(c) == [at EXCEPT ![c] = IF @ = "wait" THEN "lock" ELSE @]

UnlockedFirst(c) == [mu EXCEPT ![c] = "free"]

\* The lock of signal() is released at the end of the scope, after notify_all().
LockedDuringNotify(c) == mu

SignalNotify(w) ==
    LET c == job[w].call IN
    /\ Step(w, "notify", "unlock")
    /\ at' = Woken(c)
    /\ mu' = LockedDuringNotify(c)
    /\ UNCHANGED <<callVars, ready, stored, result, cmds, pending, arrived, runs>>

KeptInMap(w) == pending

ErasedFromMap(w) == [pending EXCEPT ![w] = @ \ {job[w].call}]

\* The end of signal(); then the worker deletes the controller and its entry.
SignalUnlock(w) ==
    /\ job[w].st = "unlock"
    /\ job' = [job EXCEPT ![w] = Idle]
    /\ mu' = [mu EXCEPT ![job[w].call] = "free"]
    /\ pending' = ErasedFromMap(w)
    /\ UNCHANGED <<callVars, at, ready, stored, result, cmds, arrived, runs>>

-----------------------------------------------------------------------------
(* The broker                                                              *)

\* The reactor runs a timer once.
Armed(c) == timed[c] /\ \A i \in DOMAIN arrived[c] : arrived[c][i] # "timeout"

\* A response or the timeout of c comes to the worker; the remote side may
\* answer late or more than once.
Arrive(c, kind) ==
    /\ at[c] # "none"
    /\ IF kind = "timeout" THEN Armed(c) ELSE Len(arrived[c]) < MaxArrivals
    /\ arrived' = [arrived EXCEPT ![c] = Append(@, kind)]
    /\ cmds' = [cmds EXCEPT ![home[c]] = Append(@, [cmd |-> "complete", call |-> c, kind |-> kind])]
    /\ UNCHANGED <<callVars, at, mu, ready, stored, result, pending, job, runs>>

\* Something comes to w that runs application code.
RunCommand(w) ==
    /\ runs < MaxRuns
    /\ runs' = runs + 1
    /\ cmds' = [cmds EXCEPT ![w] = Append(@, [cmd |-> "run", call |-> 0, kind |-> "none"])]
    /\ UNCHANGED <<callVars, at, mu, ready, stored, result, pending, job, arrived>>

-----------------------------------------------------------------------------
CallerStep(c) == Wait(c) \/ Return(c)

WorkerStep(w) ==
    \/ StartRpc(w) \/ RunHandler(w) \/ RunApplication(w) \/ ApplicationReturns(w)
    \/ SignalLock(w) \/ SignalNotify(w) \/ SignalUnlock(w)

Next ==
    \/ \E a \in Callers, c \in Calls, w \in Pool, t \in BOOLEAN : Request(a, c, w, t)
    \/ \E c \in Calls : Wait(c) \/ WakeUp(c) \/ Return(c) \/ \E k \in Kinds : Arrive(c, k)
    \/ \E w \in Pool : RunCommand(w) \/ WorkerStep(w)

Spec == Init /\ [][Next]_vars

\* Threads run; a timeout fires (DeadlineHonoured of Broker).  Application
\* code in a worker need not return, but the model's makes at most one call
\* after the other.
Fairness ==
    /\ \A c \in Calls : WF_vars(CallerStep(c)) /\ WF_vars(Arrive(c, "timeout"))
    /\ \A w \in Pool : WF_vars(WorkerStep(w))

FairSpec == Spec /\ Fairness

-----------------------------------------------------------------------------
\* What a worker can find in its queue, and what it can be busy with.
Commands == [cmd : {"start"}, call : Calls, kind : {"none"}]
            \cup [cmd : {"complete"}, call : Calls, kind : Kinds]
            \cup [cmd : {"run"}, call : {0}, kind : {"none"}]

Busy == {"lock", "notify", "unlock"}

Jobs == [st : {"idle", "app"}, call : {0}] \cup [st : Busy, call : Calls]

\* The values of the variables.
TypeOK ==
    /\ by \in [Calls -> Callers \cup {Nobody}]
    /\ home \in [Calls -> Pool \cup {Nobody}]
    /\ timed \in [Calls -> BOOLEAN]
    /\ at \in [Calls -> {"none", "lock", "wait", "read", "returned"}]
    /\ mu \in [Calls -> {"free", "worker"}]
    /\ ready \in [Calls -> BOOLEAN]
    /\ stored \in [Calls -> Kinds \cup {"none", "good"}]
    /\ result \in [Calls -> Kinds \cup {"none", "good"}]
    /\ cmds \in [Pool -> Seq(Commands)]
    /\ pending \in [Pool -> SUBSET Calls]
    /\ job \in [Pool -> Jobs]
    /\ arrived \in [Calls -> Seq(Kinds)]
    /\ \A c \in Calls : Len(arrived[c]) <= MaxArrivals + 1
    /\ runs \in 0 .. MaxRuns

\* A worker that touches a handler or its sync_event finds it on the stack of
\* its caller: the caller cannot leave request() between the moment it can
\* see ready_ and the unlock, and no second completion runs the handler.
HandlerAlive ==
    \A w \in Pool : job[w].st \in Busy => OnStack(job[w].call)

\* request() returns what came first: the response, the error, or the timeout;
\* a late or a second answer changes nothing.
FirstAnswerWins ==
    \A c \in Calls : at[c] = "returned" =>
        /\ arrived[c] # <<>>
        /\ result[c] = (IF Head(arrived[c]) = "bad" /\ c \notin Wanting THEN "good"
                                                                 ELSE Head(arrived[c]))

\* Nothing need come for a call without a timeout.
Unanswered(c) == ~timed[c] /\ arrived[c] = <<>>

\* Workers that wait in calls for ever: each in a call that nothing need answer,
\* or whose answer one of them has to handle, itself perhaps.
WaitInCircle(W) ==
    \A w \in W : \E c \in Calls :
        /\ by[c] = w /\ OnStack(c) /\ ~ready[c]
        /\ home[c] \in W \/ Unanswered(c)

\* "Block until get response" (sync_requester.hpp), or the timeout: a call with
\* a timeout returns, unless from some time on the worker of its connection
\* waits in a circle.  A service that makes a synchronous call over a
\* connection of its own worker is such a circle.
TimedCallReturns ==
    \A c \in Calls :
        []<>~(\E W \in SUBSET Pool : home[c] \in W /\ WaitInCircle(W)) =>
            ((OnStack(c) /\ timed[c]) ~> at[c] = "returned")
=============================================================================
