----------------------------- MODULE PyBinding -----------------------------
(***************************************************************************)
(* The Python binding: calls made through RpcChannel.call_method(), their  *)
(* completion in a worker by python_callback_bridge(), requests handed to  *)
(* Python services by rpc_handler_bridge(), and the destruction of the     *)
(* last library object while the GIL is held.  It is the code that         *)
(* setup.py compiles, cython/pywraprpcz.cpp, with python_rpc_service.hpp,  *)
(* rpc.py, service_reflection.py and the header messages of rpcz.proto.    *)
(*                                                                         *)
(* Abstractions: Python code gives up the GIL between two steps, so a step *)
(* needs that nobody holds it, and only a C++ call that blocks with the    *)
(* GIL keeps it over several steps. Python code runs in the threads of the *)
(* application, and in a worker while a bridge function calls it. Of the   *)
(* three objects that a wrapper refers to, the response and the callback   *)
(* follow the controller; the references that a bridge function holds      *)
(* itself end with it. A sync_event is one step here (SyncCall has its     *)
(* locks). The library runs the closure of a call once (RpcCall).          *)
(***************************************************************************)
EXTENDS Naturals, Sequences

CONSTANTS
    PyThreads,    \* Python threads
    PyPool,       \* the library's worker threads
    NoHolder,     \* nobody has the GIL
    MaxRpcs,      \* bound on the calls
    MaxServed     \* bound on the requests that come in

Rpcs   == 1 .. MaxRpcs
Served == 1 .. MaxServed

ASSUME PyAssumption ==
    /\ PyThreads \cap PyPool = {} /\ NoHolder \notin PyThreads \cup PyPool
    /\ MaxRpcs \in Nat /\ MaxServed \in Nat

\* The threads that run Python code: a stub, a callback or a service makes its
\* calls in whichever of them it is run.
Runners == PyThreads \cup PyPool

VARIABLES
    gil,       \* the thread that blocks with the GIL
    life,      \* life[c]: how far call c and its completion have come
    refs,      \* refs[c]: reference count of the RpcController of call c
    ctrl,      \* ctrl[c]: "none", "live", or "dead": thisptr and sync_event
    wrap,      \* wrap[c]: the ClosureWrapper: "none", "live" or "freed"
    done,      \* done[c]: sync_event::ready_
    status,    \* status[c]: rpc_controller's status
    deadline,  \* deadline[c]: deadline_ms was set
    parsed,    \* parsed[c]: the response object holds the response
    saw,       \* saw[c]: how RPC.wait() ended
    user,      \* user[c]: the thread that called: it has "none", "rpc" or "waits"
    caller,    \* caller[c]: which thread that is
    todo,      \* todo[w]: what is queued for worker w
    bridge,    \* bridge[w]: the step of its bridge function that w is in
    rep,       \* rep[r]: ServerChannel.thisptr of request r
    holds,     \* holds[r]: the service holds the ServerChannel of r
    sent,      \* sent[r]: answers sent to request r
    dels,      \* dels[r]: how often the server_channel of r was deleted
    crashed,   \* a NULL thisptr was used: the process has ended
    running    \* workers that have not quit

outcomeVars == <<status, deadline, parsed, saw>>
rpcVars  == <<life, refs, ctrl, wrap, done, user, caller, outcomeVars>>
serveVars == <<rep, holds, sent, dels, crashed>>
pyvars == <<gil, life, refs, ctrl, wrap, done, status, deadline, parsed, saw,
            user, caller, todo, bridge, rep, holds, sent, dels, crashed, running>>

\* SUCCESS, APPLICATION_ERROR or DEADLINE_EXCEEDED
Statuses == {"ok", "error", "deadline"}

NoBridge == [st |-> "idle", id |-> 0]

PyInit ==
    /\ gil = NoHolder
    /\ life = [c \in Rpcs |-> "none"]
    /\ refs = [c \in Rpcs |-> 0]
    /\ ctrl = [c \in Rpcs |-> "none"]
    /\ wrap = [c \in Rpcs |-> "none"]
    /\ done = [c \in Rpcs |-> FALSE]
    /\ status = [c \in Rpcs |-> "active"]
    /\ deadline = [c \in Rpcs |-> FALSE]
    /\ parsed = [c \in Rpcs |-> FALSE]
    /\ saw = [c \in Rpcs |-> "none"]
    /\ user = [c \in Rpcs |-> "none"]
    /\ caller = [c \in Rpcs |-> NoHolder]
    /\ todo = [w \in PyPool |-> <<>>]
    /\ bridge = [w \in PyPool |-> NoBridge]
    /\ rep = [r \in Served |-> "none"]
    /\ holds = [r \in Served |-> FALSE]
    /\ sent = [r \in Served |-> 0]
    /\ dels = [r \in Served |-> 0]
    /\ crashed = FALSE
    /\ running = PyPool

\* Nobody blocks with the GIL, and t is not in wait().
Awake(t) ==
    /\ gil = NoHolder
    /\ \A c \in Rpcs : caller[c] = t => user[c] # "waits"

\* Thread t is in Python code of the application: a worker, while its bridge
\* function calls a service or a callback.
InPython(t) ==
    /\ Awake(t)
    /\ t \in PyPool => bridge[t].st \in {"method", "callback"}

\* The manager lives, and its broker gives the workers something to do.
Open == running = PyPool /\ gil = NoHolder

-----------------------------------------------------------------------------
(* Calls                                                                   *)

NewReferencesMissing == 1

\* The caller's reference, and the one call_method() takes for the wrapper.
NewReferences == 2

\* RPC.__init__(): deadline_ms is set unless it is None.
SetDeadline(c, given) == deadline' = [deadline EXCEPT ![c] = given]

\* A stub method up to the return of call_method(): the RPC is made; the
\* wrapper is allocated and holds its references before the strings are made
\* and the library is called, and what raises after that leaves them behind.
CallMethod(t, c, withDeadline) ==
    /\ InPython(t)
    /\ ctrl[c] = "none"
    /\ \A d \in Rpcs : d < c => ctrl[d] # "none"
    /\ Open
    /\ ctrl' = [ctrl EXCEPT ![c] = "live"]
    /\ wrap' = [wrap EXCEPT ![c] = "live"]
    /\ refs' = [refs EXCEPT ![c] = NewReferences]
    /\ caller' = [caller EXCEPT ![c] = t]
    /\ user' = [user EXCEPT ![c] = "rpc"]
    /\ \/ life' = [life EXCEPT ![c] = "sent"]
       \/ life' = [life EXCEPT ![c] = "raised"]
    /\ SetDeadline(c, withDeadline)
    /\ UNCHANGED <<gil, done, status, parsed, saw, todo, bridge, serveVars, running>>

\* RpcController.__dealloc__(): the sync_event and the rpc_controller go.
dealloc(c, n) == ctrl' = [ctrl EXCEPT ![c] = IF n = 0 THEN "dead" ELSE @]

Decref(c) ==
    /\ refs' = [refs EXCEPT ![c] = @ - 1]
    /\ dealloc(c, refs[c] - 1)

\* RpcController.wait() releases the GIL and waits for the sync_event.
WaitRpc(t, c) ==
    /\ InPython(t)
    /\ caller[c] = t /\ user[c] = "rpc"
    /\ user' = [user EXCEPT ![c] = "waits"]
    /\ UNCHANGED <<gil, outcomeVars, life, refs, ctrl, wrap, done, caller, todo, bridge, serveVars, running>>

\* RpcController.ok() and RpcController.status read the controller that the
\* library has written.
ok(c)         == status[c] = "ok"
get_status(c) == status[c]

\* What rpcz_pb2.rpc_response_header has a name for.
application_error_code ==
    {"INVALID_HEADER", "NO_SUCH_SERVICE", "NO_SUCH_METHOD", "INVALID_MESSAGE",
     "METHOD_NOT_IMPLEMENTED", "TIMEOUT_EXPIRED"}

\* _RaiseRpcError() compares the status with two names, one after the other; a
\* name that the message does not define is an AttributeError there.
Raised(c) ==
    IF "APPLICATION_ERROR" \notin application_error_code THEN "AttributeError"
    ELSE CASE get_status(c) = "error" -> "RpcApplicationError"
           [] get_status(c) = "deadline" /\ "DEADLINE_EXCEEDED" \in application_error_code ->
                "RpcDeadlineExceeded"
           [] get_status(c) # "error" /\ "DEADLINE_EXCEEDED" \notin application_error_code ->
                "AttributeError"
           [] OTHER -> "RpcError"

\* RPC.wait() after RpcController.wait()
WaitOutcome(c) == IF ok(c) THEN "returned" ELSE Raised(c)

\* wait() takes the GIL again.
WaitReturns(c) ==
    /\ gil = NoHolder
    /\ user[c] = "waits"
    /\ done[c]
    /\ user' = [user EXCEPT ![c] = "rpc"]
    /\ saw' = [saw EXCEPT ![c] = WaitOutcome(c)]
    /\ UNCHANGED <<gil, status, deadline, parsed, life, refs, ctrl, wrap, done, caller, todo, bridge, serveVars, running>>

\* The caller lets go of the RPC, before or after the answer.
DropRpc(t, c) ==
    /\ InPython(t)
    /\ caller[c] = t /\ user[c] = "rpc"
    /\ user' = [user EXCEPT ![c] = "none"]
    /\ Decref(c)
    /\ UNCHANGED <<gil, outcomeVars, life, wrap, done, caller, todo, bridge, serveVars, running>>

-----------------------------------------------------------------------------
(* python_callback_bridge()                                                *)

\* The library has an answer, an error or the deadline of call c, and queues
\* the closure for a worker.
Answered(w, c, s) ==
    /\ life[c] = "sent"
    /\ Open
    /\ s = "deadline" => deadline[c]
    /\ status' = [status EXCEPT ![c] = s]
    /\ life' = [life EXCEPT ![c] = "queued"]
    /\ todo' = [todo EXCEPT ![w] = Append(@, [job |-> "closure", id |-> c])]
    /\ UNCHANGED <<gil, refs, ctrl, wrap, done, deadline, parsed, saw, user, caller, bridge,
                   serveVars, running>>

\* A worker pops its next job; a bridge function begins with
\* PyGILState_Ensure(), which waits while somebody blocks with the GIL.
TakeJob(w) ==
    LET j == Head(todo[w]) IN
    /\ w \in running
    /\ bridge[w] = NoBridge
    /\ todo[w] # <<>>
    /\ todo' = [todo EXCEPT ![w] = Tail(@)]
    /\ CASE j.job = "closure" -> /\ bridge' = [bridge EXCEPT ![w] = [st |-> "parse", id |-> j.id]]
                                 /\ UNCHANGED running
         [] j.job = "request" -> /\ bridge' = [bridge EXCEPT ![w] = [st |-> "serve", id |-> j.id]]
                                 /\ UNCHANGED running
         [] j.job = "quit"    -> running' = running \ {w} /\ UNCHANGED bridge
    /\ UNCHANGED <<gil, rpcVars, serveVars>>

Bridge(w, from, to) ==
    /\ Awake(w)
    /\ bridge[w].st = from
    /\ bridge' = [bridge EXCEPT ![w] = IF to = "idle" THEN NoBridge ELSE [@ EXCEPT !.st = to]]

SignalWithoutParse(w) ==
    /\ Bridge(w, "parse", "signal")
    /\ UNCHANGED <<gil, rpcVars, todo, serveVars, running>>

Ended(c, how) == life' = [life EXCEPT ![c] = how]

\* ParseFromString() of the response, empty if there is none; it may raise: __Pyx_WriteUnraisable()
\* and nothing else is done.
BridgeParse(w) ==
    LET c == bridge[w].id IN
    /\ \/ Bridge(w, "parse", "signal") /\ UNCHANGED life /\ parsed' = [parsed EXCEPT ![c] = TRUE]
       \/ Bridge(w, "parse", "idle") /\ Ended(c, "parse_raised") /\ UNCHANGED parsed
    /\ UNCHANGED <<gil, refs, ctrl, wrap, done, status, deadline, saw, user, caller, todo,
                   serveVars, running>>

NoSignal(w) == UNCHANGED done

\* sync_event->signal() comes before the callback.
SignalNow(w) == done' = [done EXCEPT ![bridge[w].id] = TRUE]

BridgeSignal(w) ==
    /\ Bridge(w, "signal", "callback")
    /\ SignalNow(w)
    /\ UNCHANGED <<gil, outcomeVars, life, refs, ctrl, wrap, user, caller, todo, serveVars, running>>

\* callback(response, rpc), if it is not None; it may raise.
BridgeCallback(w) ==
    LET c == bridge[w].id IN
    /\ \/ Bridge(w, "callback", "release") /\ UNCHANGED life
       \/ Bridge(w, "callback", "idle") /\ Ended(c, "callback_raised")
    /\ UNCHANGED <<gil, outcomeVars, refs, ctrl, wrap, done, user, caller, todo, serveVars,
                   running>>

ReleaseTwice(c) ==
    /\ refs' = [refs EXCEPT ![c] = @ - 2]
    /\ ctrl' = [ctrl EXCEPT ![c] = "dead"]

\* The three Py_DECREFs.
Release(c) == Decref(c)

\* Then the string and the wrapper are freed.
BridgeRelease(w) ==
    LET c == bridge[w].id IN
    /\ Bridge(w, "release", "idle")
    /\ Release(c)
    /\ wrap' = [wrap EXCEPT ![c] = "freed"]
    /\ Ended(c, "clean")
    /\ UNCHANGED <<gil, outcomeVars, done, user, caller, todo, serveVars, running>>

-----------------------------------------------------------------------------
(* Services                                                                *)

\* A request for a Python service comes: PythonRpcService::dispatch_request()
\* is to be called for it.
RequestComes(w, r) ==
    /\ rep[r] = "none"
    /\ \A q \in Served : q < r => rep[q] # "none"
    /\ Open
    /\ rep' = [rep EXCEPT ![r] = "queued"]
    /\ todo' = [todo EXCEPT ![w] = Append(@, [job |-> "request", id |-> r])]
    /\ UNCHANGED <<gil, rpcVars, bridge, holds, sent, dels, crashed, running>>

\* rpc_handler_bridge() makes the ServerChannel, which owns the server_channel
\* from then on, and calls _call_method().
RpcHandlerBridge(w) ==
    /\ Bridge(w, "serve", "method")
    /\ rep' = [rep EXCEPT ![bridge[w].id] = "ptr"]
    /\ UNCHANGED <<gil, rpcVars, todo, holds, sent, dels, crashed, running>>

KeepPointer(r) == UNCHANGED rep

\* self.thisptr = NULL
ClearPointer(r) == rep' = [rep EXCEPT ![r] = "null"]

\* ServerChannel.send() and send_error(): the answer is sent and the pointer
\* deleted and cleared.  What raises before that leaves the channel as it is.
\* The pointer is not tested: a second answer goes through a NULL.
Send(r) ==
    \/ /\ rep[r] = "ptr"
       /\ sent' = [sent EXCEPT ![r] = @ + 1]
       /\ dels' = [dels EXCEPT ![r] = @ + 1]
       /\ ClearPointer(r)
       /\ UNCHANGED crashed
    \/ /\ rep[r] = "null"
       /\ crashed' = TRUE
       /\ UNCHANGED <<rep, sent, dels>>

\* ServerChannel.__dealloc__() deletes what is left; a NULL is not deleted.
ChannelDealloc(r) ==
    /\ rep' = [rep EXCEPT ![r] = "gone"]
    /\ dels' = [dels EXCEPT ![r] = @ + (IF rep[r] = "ptr" THEN 1 ELSE 0)]
    /\ UNCHANGED <<sent, crashed>>

\* _call_method(): a service answers, perhaps more than once.
MethodAnswers(w) ==
    /\ Bridge(w, "method", "method")
    /\ Send(bridge[w].id)
    /\ UNCHANGED <<gil, rpcVars, todo, holds, running>>

\* It returns and has kept the channel, to answer later.
MethodKeeps(w) ==
    /\ Bridge(w, "method", "idle")
    /\ holds' = [holds EXCEPT ![bridge[w].id] = TRUE]
    /\ UNCHANGED <<gil, rpcVars, todo, rep, sent, dels, crashed, running>>

\* It returns, or ends early: ParseFromString() or the handler raised.
MethodEnds(w) ==
    /\ Bridge(w, "method", "leave")
    /\ UNCHANGED <<gil, rpcVars, todo, serveVars, running>>

\* The end of rpc_handler_bridge(): its reference was the last one.
BridgeLeave(w) ==
    /\ Bridge(w, "leave", "idle")
    /\ ChannelDealloc(bridge[w].id)
    /\ UNCHANGED <<gil, rpcVars, todo, holds, running>>

\* A service answers later, or drops the channel.
LaterSend(t, r) ==
    /\ InPython(t)
    /\ holds[r]
    /\ Send(r)
    /\ UNCHANGED <<gil, rpcVars, todo, bridge, holds, running>>

LaterDrop(t, r) ==
    /\ InPython(t)
    /\ holds[r]
    /\ holds' = [holds EXCEPT ![r] = FALSE]
    /\ ChannelDealloc(r)
    /\ UNCHANGED <<gil, rpcVars, todo, bridge, running>>

-----------------------------------------------------------------------------
(* The last library object                                                 *)

JobsAndQuit == [w \in PyPool |-> Append(todo[w], [job |-> "quit", id |-> 0])]

\* Server.__dealloc__() or RpcChannel.__dealloc__() deletes the last object
\* that holds the manager: its destructor stops the broker and the workers and
\* joins them, and this thread has the GIL all the time.
Close(t) ==
    /\ InPython(t)
    /\ Open
    /\ gil' = t
    /\ todo' = JobsAndQuit
    /\ UNCHANGED <<rpcVars, bridge, serveVars, running>>

Closed(t) ==
    /\ gil = t
    /\ running = {}
    /\ gil' = NoHolder
    /\ UNCHANGED <<rpcVars, todo, bridge, serveVars, running>>

-----------------------------------------------------------------------------
BridgeStep(w) ==
    \/ TakeJob(w) \/ BridgeParse(w) \/ BridgeSignal(w) \/ BridgeCallback(w)
    \/ BridgeRelease(w) \/ RpcHandlerBridge(w) \/ MethodAnswers(w) \/ MethodKeeps(w)
    \/ MethodEnds(w) \/ BridgeLeave(w)

PythonStep(t) ==
    \/ \E c \in Rpcs : WaitRpc(t, c) \/ DropRpc(t, c) \/ \E d \in BOOLEAN : CallMethod(t, c, d)
    \/ \E r \in Served : LaterSend(t, r) \/ LaterDrop(t, r)
    \/ Close(t) \/ Closed(t)

PyNext ==
    /\ ~crashed
    /\ \/ \E t \in Runners : PythonStep(t)
       \/ \E c \in Rpcs : WaitReturns(c)
       \/ \E w \in PyPool, c \in Rpcs : \E s \in Statuses : Answered(w, c, s)
       \/ \E w \in PyPool, r \in Served : RequestComes(w, r)
       \/ \E w \in PyPool : BridgeStep(w)

PySpec == PyInit /\ [][PyNext]_pyvars

\* Threads run as long as the process does, Python code in a worker returns
\* unless a wait() in it does not, and the library completes every call that
\* has a deadline.
PyFairness ==
    /\ \A c \in Rpcs : /\ WF_pyvars(~crashed /\ WaitReturns(c))
                       /\ WF_pyvars(~crashed /\ \E w \in PyPool : Answered(w, c, "deadline"))
    /\ \A w \in PyPool : SF_pyvars(~crashed /\ BridgeStep(w))
    /\ WF_pyvars(~crashed /\ \E t \in Runners : Closed(t))

PyFairSpec == PySpec /\ PyFairness

-----------------------------------------------------------------------------
InBridge(w, c) == bridge[w].id = c /\ bridge[w].st \in {"parse", "signal", "callback", "release"}

\* A thread in wait() and a bridge that uses the controller find it alive, and
\* the bridge finds its wrapper: whoever drops its reference first.
UsedAlive ==
    \A c \in Rpcs :
        /\ user[c] = "waits" => ctrl[c] = "live"
        /\ \A w \in PyPool : InBridge(w, c) => ctrl[c] = "live" /\ wrap[c] = "live"

\* Nothing leaks unless something raised: after a bridge that ran to its end
\* the wrapper is freed and the controller lives exactly as long as the
\* caller holds it.
NothingLeaks ==
    \A c \in Rpcs : life[c] = "clean" =>
        /\ wrap[c] = "freed"
        /\ (ctrl[c] = "live") <=> (user[c] # "none")

\* A server_channel is deleted exactly once, by the first answer or with its
\* ServerChannel, and a request is answered at most once: a second answer is not
\* sent but ends the process, and nothing else does that.
ChannelDeletedOnce ==
    /\ \A r \in Served :
          /\ sent[r] <= 1
          /\ rep[r] \in {"null", "gone"} <=> dels[r] = 1
          /\ dels[r] <= 1
    /\ crashed => \E r \in Served : rep[r] = "null" /\ sent[r] = 1

\* The thread that called sees the outcome: when wait() is over, the status is
\* final and the response is parsed, and wait() has returned exactly if the
\* call succeeded.  What it raises otherwise is an AttributeError.
WaitSees ==
    \A c \in Rpcs : saw[c] # "none" =>
        /\ parsed[c] /\ status[c] \in Statuses
        /\ saw[c] = IF status[c] = "ok" THEN "returned" ELSE "AttributeError"

\* The thread that destroys the last object waits for a worker that waits for
\* the GIL, or is one.
GilDeadlock ==
    gil # NoHolder /\ \E w \in PyPool : bridge[w] # NoBridge

\* Nothing completes call c: it was not sent, has no deadline, its response could
\* not be parsed (then nobody signals the event), or the workers have gone.
NotCompleted(c) ==
    \/ life[c] \in {"raised", "parse_raised"}
    \/ life[c] = "sent" /\ (~deadline[c] \/ ~Open)

\* The closure of c is in the queue of a worker in W.
Behind(c, W) ==
    \E w \in W : \E i \in DOMAIN todo[w] : todo[w][i].job = "closure" /\ todo[w][i].id = c

\* Workers that wait for calls, for ever: each for one that nothing completes, or
\* that one of them has to complete.
WorkersWait(W) ==
    \A w \in W : \E c \in Rpcs :
        /\ caller[c] = w /\ user[c] = "waits" /\ ~done[c]
        /\ NotCompleted(c) \/ Behind(c, W)

Blocked(c) ==
    \/ NotCompleted(c)
    \/ \E W \in SUBSET PyPool : WorkersWait(W) /\ Behind(c, W)

\* wait() returns, with or without an exception, unless from some time on the
\* call is blocked, also by workers that wait for calls themselves; and the
\* destructor of the last object returns.  Neither is so if everything waits
\* for the GIL or the process has ended.
WaitEnds ==
    /\ \A c \in Rpcs : []<>~(Blocked(c) \/ GilDeadlock \/ crashed) =>
                           (user[c] = "waits" ~> user[c] # "waits")
    /\ []<>~(GilDeadlock \/ crashed) => (gil # NoHolder ~> gil = NoHolder)
=============================================================================
