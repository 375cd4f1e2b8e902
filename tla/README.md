# Verification of rpcz

rpcz is an RPC library over ZeroMQ and protocol buffers. This directory holds
TLA+ models of the library, of its Python binding and of its code generators,
TLC configurations that check them, and proofs that TLAPS checks. Paths below
are relative to the repository root.

## The system

| Component | Source | State it keeps | Operations | Must be right |
|---|---|---|---|---|
| connection | `src/rpcz/connection.cc`, `rpc_controller.*` | a `manager_ptr`, the `connection_info` | connect, `request`, `reply`, `reply_error`, `register_service` | a handler runs at most once, honestly; its controller is deleted once |
| broker thread | `src/rpcz/broker_thread.cc` | DEALER and ROUTER sockets by index, `bind_map_`, the reactor | one handler per `c2b` command; socket data; timeouts | it never blocks; commands reach the worker of their connection, in order; commands that are waited for are answered |
| reactor | `src/rpcz/reactor.cc` | `sockets_`, `pollitems_`, `del_sockets_`, `closure_run_map_` | `add_socket`, `del_socket`, `run_closure_at`, `loop` | the i-th result selects the i-th callback; timers run once, on time |
| workers | `src/rpcz/worker/` | command queue, `remote_response_map_`, request handlers | one handler per `b2w` command | each controller and closure handled once; nothing left behind at exit |
| manager | `src/rpcz/manager.cc` | zmq context, threads, one frontend socket per thread, `next_event_id_` | `bind`, `unbind`, `add`, `run`, `terminate`, `join_threads` | orderly shutdown: what is lost by it, and that it ends |
| manager singleton | `src/rpcz/manager_dyn_singleton_helper.*` | `mgr_wptr`, `mgr_exists`, two mutexes, a condition | `get`, the deleter | at most one manager; `get` returns; unreferenced means destroyed |
| server, services | `server_impl.cc`, `request_handler*.cc`, `router_service_factories.cc`, `cpp_service.cc` | endpoints, factories per router, services per connection | register, bind, unbind, dispatch, reply | a bound endpoint serves; one answer per request, at its address; a server that is gone is silent |
| synchronous calls | `sync_requester.cc`, `sync_call_handler.*`, `sync_event.*` | an event on the caller's stack | `request`, `wait`, `signal` | the caller wakes, and the event outlives its use |
| callbacks | `include/rpcz/callback.hpp` | method and bound arguments | `run` | a one-shot closure deletes itself once |
| wire helpers | `zmq_utils.*`, `connection_info_zmq.hpp`, `proto/rpcz.proto` | none | framing | what is written is what is read, and not a frame more |
| application options | `application.cc`, `application_options.cc` | number of worker threads | `run`, `terminate`, `set_worker_threads` | `terminate` releases those in `run` |
| protoc plugins | `src/rpcz/plugin/cpp`, `plugin/python` | none | generate C++ and Python files | the files fit together; a stub reaches its method |
| Python binding | `python/cython/pywraprpcz.cpp`, `python/rpcz` | controllers, wrappers with reference counts, the GIL | `call_method`, bridges, `ServerChannel`, `wait` | no object is used after its end or kept for ever; `wait` returns and sees the outcome |
| `zsendrpc`, examples, tests | `zsendrpc.cc`, `examples`, `test` | | | outside |

How they interact. An application thread sends commands to the broker through
its own inproc socket; a command that carries a pointer (an `rpc_controller*`, a
`closure*`, an `iservice*`) passes ownership with it, and `bind`, `unbind` and
connect wait for the broker's answer. The broker forwards requests and replies to
the network, turns messages and expired timers into worker commands, and picks
the worker by hashing the connection, so that one connection always meets one
worker. Workers run all user code. Every connection and server holds a
`manager_ptr`; the thread that drops the last one runs `~manager()`, which stops
the broker and then the workers, and at last waits in `~context_t()` for the
frontend sockets of all other threads that have used it. Python code meets the workers through two
bridge functions that take the GIL.

What is hard here: responses, duplicates and timeouts that race for one
controller; a request whose timer and reply may overtake its registration at
the worker; a single broker thread that may block in a send; poll results
dispatched by position while callbacks change the positions; shutdown at any
moment; a singleton that may be asked for while it is being destroyed, also by
its own workers; unbinding while requests wait and services still answer; a
handler on the stack of a caller that wants to return; locks of C++ and of the
Python interpreter that wait for one another; and exceptions in the middle of
reference counting. `PROJECT.json` lists these hazards line by line.

## Modules

* `RpcCall` states what `connection::request()` promises its caller, and
  nothing about threads: a call is idle, pending, or has one outcome, which is
  an answer the remote side gave or, for a call with a deadline, a timeout.
* `Broker` is the request path: callers, frontend pipes, the broker thread, the
  timer map, the sockets, the workers' queues and maps, the remote sides, and
  `~manager()`. Each action is one handler, except that `send_request()` is
  split in two where it can block: `HandleRequest` registers the timer,
  `ForwardRequest` is `forward_to()` and `start_rpc()`. The ghost variable
  `owner` says who holds a controller's pointer. `~manager()` is `JoinThreads`
  (kQuit), `BrokerExit` (the reactor deletes its sockets, the frontend socket
  among them, with what other threads have sent and nobody has read), `JoinAll`,
  `Joined` (the workers go with their maps, and the frontend socket of the
  destroying thread) and `TermContext`, which waits until the other threads with a
  socket (`sock`) have ended. A controller whose pointer is destroyed on the way
  is "lost", a closure is in `dropped`. `MCBroker` gives it constants.
* `RpcServe` states what a server promises its clients: at most one answer per
  request, to the connection and the event id it came with.
* `Server` is the serving side: `server_impl`, `manager::bind()` and `unbind()`,
  the broker's `kBind`, `kUnbind`, `kConnect`, `kReply` and `kRegisterSvc`, the
  deletion of sockets, `request_handler` and its services, and repliers. The two
  halves of `bind()`, `unbind()` and connect are actions of their own, because the
  broker works between them. A reply on a deleted socket, an exception in the
  broker thread and a call of a destroyed service are faults: the model records
  which one happened and stops. Both `bind()` and `connect()` may throw in the
  broker thread. An endpoint stands for one address, so that a second bind of it
  fails while the first one is there; two binds of a wildcard endpoint are two
  endpoints here, and their common key of `bind_map_` is not in the model. Ghosts record what a client can rely on (`told`,
  `regd`). `MCServer` gives it constants.
* `SyncCall` is a synchronous call: the handler on the caller's stack, `wait()`
  and `signal()` lock by lock, the worker's map, completions that come late or
  again, spurious wake-ups, and callers that are workers themselves.
* `PyBinding` is `pywraprpcz.cpp` with `rpc.py` and `service_reflection.py`:
  `call_method()`, the reference counts of controller and wrapper, the steps of
  both bridges with the places where Python may raise, `ServerChannel`, and the
  destruction of the last library object with the GIL held. Python code runs in
  threads of the application and, called by a bridge, in workers; any of them may
  call, wait, answer and destroy. `rpc.py` compares a failed call's status with
  `APPLICATION_ERROR` and `DEADLINE_EXCEEDED`, which `rpcz.proto` does not define:
  `Raised` is the AttributeError that comes of it. `send()` and `send_error()` do
  not test the pointer that they clear, so that a second answer is a use of NULL,
  which ends the process (`crashed`).
* `PyApp` is the life of an application: `set_worker_threads()`, `run()`,
  `terminate()`, the objects that hold the manager and the Python services.
  `MCCalls` checks `SyncCall`, `PyBinding` and `PyApp`; a behaviour is one of the
  three, so that the states add up instead of multiplying.
* `Framing` has every writer and reader of multipart messages as an operator on
  a stream of frames. A reader's `ok` becomes false where an assertion of the code
  fails or `recv()` goes past the end of the message.
* `Closure` is `callback.hpp`: the two kinds of closures, with the callee as a
  step between the halves of `run()`.
* `PyArgs` has the argument unpacking and the integer and string conversions of
  the generated Cython code; `IntBits` and `LongBits` stand for the widths of the
  C types.
* `Plugin` has both code generators. A generated text is a sequence of
  statements (`declare`, `define`, `include`, a Python assignment) with the names they introduce and use,
  the types of handlers (`<method>_Handler`) and `Stub` among them.
  `MCHelpers` runs these four over small inputs: one action picks an input of one
  kind, and the properties say what the operators make of it.
* `Reactor` is `reactor.cc` step by step: one action for each part of `loop()`
  and for each operation that a callback may call. Positions count from 1.
  `is_dirty_` is not initialised by the constructor of the code; the broker's
  constructor adds the frontend socket before `loop()`, which sets it, and that
  is the initial state here.
* `DynSingleton` is the life of the manager: `get_manager_ptr()`,
  `make_manager_ptr()`, `start_construction()`, the deleter and
  `finish_destruction()`. Reading and assigning `mgr_wptr` take two steps each,
  as they do in boost; touching a freed control block is undefined behaviour,
  which the model records in `ub` and then stops. A worker calls `get()` for
  each request that it handles. A thread opens a frontend socket when it first uses
  a manager and closes it when it ends; the deleter waits for the threads (`JoinThreads`) and then for
  the sockets of all other threads (`Deleted`). Spurious wake-ups of the condition are left
  out: the loop around the wait makes them stutter.
* The proofs have modules of their own: `BrokerProofs` about `Broker`,
  `DynSingletonProofs` about `DynSingleton`, `ReactorProofs` about `Reactor`,
  `SyncCallProofs` about `SyncCall`, `ServerProofs` about `Server`,
  `LibraryProofs` about `PyBinding`, `PyApp` and `Closure`, `HelperProofs` about
  `Framing`, `PyArgs` and `Plugin` with the properties of `MCHelpers`.
  `QueueFacts` has the lemmas about queues that most of them use.

Abstractions. Methods and payloads are the event id they travel with, or good or
bad. In `Broker` a deadline is present or absent and its timer may expire at any
later time; `Reactor` has the clock. The hash of a connection is an arbitrary
function. The pipes of ZeroMQ are bounded queues in `Broker`: a DEALER or an
inproc sender blocks at the bound, a ROUTER drops; `Server` leaves the bounds
out. Remote sides receive in order and may send any message about a request
they received, at any time, repeatedly, or never. Random choice of a worker is
nondeterministic choice. `Broker` lets the broker serve any waiting message in
the round in which it quits, where the code serves at most one per ready socket;
that only adds behaviours. In the Python modules a step of Python code needs the
GIL to be free and gives it back; only a C++ call that blocks with the GIL keeps
it.

Operators whose name says what they get wrong (`RunHandlerKeepingEntry`,
`LoopTopIgnoringDirt`, ...) are seeded faults. No specification uses them. Each
stands before the definition it is a variant of; substituting it must make the
property that `PROJECT.json` pairs it with fail.

## Runs

| Run | Shows | Bounds |
|---|---|---|
| `broker_safety` | `NoDangling`, `NoLeak`, `StartFirst`, `NothingAfterQuit`, refinement of `RpcCall` | 2 callers, a DEALER and a ROUTER connection on 2 workers, 2 requests, 2 messages from remote sides, pipes of 1 and 2 |
| `broker_liveness` | deadlines, responses and shutdown make progress, `ClosureOnce` | 2 threads, either destroys, 1 DEALER connection, 2 workers, 2 requests and closures in all, 1 message |
| `broker_blocked_peer` | **violation**: a peer that stops reading stops every deadline | 1 connection, 2 requests |
| `reactor` | alignment, deletion, timers and messages, with interrupted polls | 2 sockets and the frontend, 2 deletions, addresses reused, 1 timer |
| `reactor_signal` | **violation**: a signal can stop the timers | the frontend only |
| `manager` | one manager, never given out dead; `get` returns, unreferenced managers are destroyed, except in named cases | 3 threads, 1 worker, 3 managers, 1 failing constructor |
| `manager_wptr_race` | **violation**: the unlocked `mgr_wptr.lock()` touches freed memory | 3 threads, 3 managers |
| `manager_worker_get` | **violation**: a worker's `get()` and `~manager()` wait for each other | 1 thread, 1 worker |
| `server` | `NotRefused`, `CommandsLegal`, `GoneIsSilent`, refinement of `RpcServe`, `CommandsAnswered`, `RequestHandled` | 1 server, 1 endpoint, 1 client and 1 DEALER connection on 2 workers, 2 requests, 1 registration |
| `server_dead_service` | **violation**: a singleton service is called after its server has gone | 1 request |
| `calls` | synchronous calls, Python binding, application: nothing used after its end, the first answer counts, waits end except in named cases | 2 synchronous calls by a thread or 2 workers; 2 Python threads, 2 workers, 2 calls and 2 requests; 2 users, 2 objects, 2 managers |
| `helpers` | framing, closures, arguments and values, generated code | see below |

Why the bounds are enough for what they show: two requests on two connections
with different workers let every pair of {start, response, duplicate, timeout,
quit} meet in a queue and let one request block another; pipes of one or two
fill; two deletions besides the frontend cover a hole in the middle, at the end,
and a moved last socket; three managers are needed for the assignment of
`mgr_wptr` to free a block that a third thread has seen. In `server`, two
requests let a reply and a request, a registration and a request, or two
answers meet, and the client and the DEALER connection have different workers;
one server is enough because servers share only `bind_map_` and the sockets, and a
bind of an address in use may fail at any time (with two servers, two endpoints
and two sockets but one request and no DEALER connection, 65,693 states, the same
properties hold). In `broker_liveness` either of two threads destroys the manager while
requests and closures of the other are in its pipe. In `calls`, two calls made by
code in two workers make every circle of length one and two; every completion may
come once besides the timeout. The behaviours with two runs of application code,
or with two Python calls or requests, are those in which workers call with a deadline, without
what has no part in waiting (other answers, exceptions, the last object's
destruction); all of that is there with one of each (`MCCalls`). An error response
is stored and thrown as a timeout is, so that `calls` has only timeouts and
responses, which parse or do not.
`helpers` takes every command followed by every command,
every message of up to four frames of sizes 0, 1 and 8, every subset of
keywords with up to seven positional arguments, every integer around the limits
of a 3-bit `int` and a 5-bit `long`, every file name of up to three characters
from those that matter, descriptors of up to three output lines, and files with
up to two services of two methods. The proofs remove the bounds for every
invariant of these runs and for both refinements; liveness is checked within the
bounds only.

`CHECK_DEADLOCK FALSE` is used where the modelled threads really may all stop: in
`manager` and `manager_worker_get` they can wait for each other; in `server` all
clients may have had their answers, or a fault has happened; in `calls`
circles of workers and of the GIL stop everything, a second answer ends the
process, and all users may be in `run()`; in `helpers` an input is picked once.

Exceptions that the properties name, because the code has them:

* `DeadlineHonoured`, `ResponseHandled`: not once `~manager()` has begun. It does
  not wait for pending requests, although `manager.hpp:57` says "Blocks the
  current thread until all connections have completed."; their handlers never
  run.
* `NoLeak`, `ClosureOnce`: a controller or closure may be lost once the broker
  thread has ended. `DestroyerServed`, a part of `ClosureOnce`, says that none of
  the destroying thread's commands are lost in the frontend socket; controllers in
  a worker's map are lost whoever made the request.
* `ShutdownCompletes`: `~manager()` comes to `~context_t()`, and from there only
  when the other threads that have used the manager have ended.
* `GetReturns`, `DestroyedUnlessStuck`: not if the destructor waits for ever for a
  worker (which waits for the destructor in `get()`, or runs it) or for the
  frontend socket of another thread (`NeverStuck` is the negation of the two).
  `GetReturns` also not after a constructor of the manager has thrown, as nothing
  resets `mgr_exists`.
* `NotRefused`: only services that were there when `bind()` returned. A client
  whose first request comes between the broker's bind and `factories_->insert()`
  gets a handler without services, for good.
* `CommandsAnswered`, `RequestHandled`: unless a fault took the process down,
  which are an exception of `bind()` or `connect()` in the broker thread, a reply on a router
  socket that was unbound, and a destroyed service.
* `TimedCallReturns`: unless from some time on workers wait in a circle
  (`WaitInCircle`) that has the call's worker in it. A service that makes a
  synchronous call on a connection of its own worker waits for ever, with a
  timeout too, as that worker would run it; so do two services in two workers that
  call on each other's connections.
* `WaitEnds`: not if from some time on the call is `Blocked`: nothing completes it
  (it has no deadline, it was never sent, or parsing the response raised in the bridge,
  which then does not signal), or its completion is queued behind workers that
  wait in a circle. Not if the thread that destroys the last object holds
  the GIL which a worker needs to end, or is a worker; not if the process has
  ended by a second answer.
* `WaitSees`: what a failed call raises is always AttributeError, never
  `RpcApplicationError` or `RpcDeadlineExceeded`.
* `ChannelDeletedOnce`: a second answer to a request ends the process.
* `NothingLeaks`: unless something raised in `call_method()` or a bridge.
* `RunReleased`: threads that are in `run()`. A `terminate()` when nobody holds a
  manager makes one, signals it and destroys it.
* `GeneratedCodeFits`: a file for the lite runtime with services does not
  compile (`protobuf_AssignDescriptorsOnce()` is not generated for it), a method
  named `async_m` clashes with the asynchronous `m` if their request types are the
  same (`AsyncClash`), a method named `Stub`, `m_Handler` next to a method `m`, or
  like a member of `service_stub` that the stub uses clashes with that name (`TypeClash`), a `.protodevel` file includes a header under another name than it is
  written, and a Python module does not import what a dependency imports
  publicly. The properties state each as an equivalence, so that they would also
  fail if one of these went away. The input files have no method that is
  named like its service or like a word of C++, and no message or service named like
  the stub of a service, which the generators do not treat either.

Fairness. `LocalFairness` of `Broker` says that each thread of the process
keeps running: `loop()` serves every ready socket and every due timer in every
round, a worker pops its queue, a sender goes on when there is room.
`FairSpec` adds that remote sides keep reading; `broker_blocked_peer` shows what
happens without it. Nothing makes the remote side answer, the application
release the manager or end its threads, or `Poll` be interrupted. `Reactor` assumes that its thread
runs, that time passes and that signals do not interrupt every poll (strong
fairness of `Poll`). `DynSingleton` assumes that a thread inside `get()` or the
deleter goes on when it can, and that a worker's handler returns; nothing makes
a thread of the application end. `Server`
assumes that the broker, the workers and a thread inside a library call run;
nothing makes a service answer or an application unbind. `SyncCall` and
`PyBinding` assume that threads run and that a timeout that was set fires, which is
`DeadlineHonoured`; nothing makes a wake-up without notification happen, or an
answer come. Fairness of a worker in `PyBinding` is strong (`BridgeStep`): Python
code that a bridge calls may wait again and again, but comes to its end unless
one of its waits does not. `PyApp` assumes that a signalled thread wakes up.

## Proofs

`BrokerProofs` proves, for every set of threads and connections, every number
of workers, requests, closures and replies, and every pipe bound:

* `Invariance`: `IInv` is invariant. `NoDangling` alone is not inductive: that
  `SendRequest` creates a fresh owner needs `IdsFresh` (ids at or above
  `next_event_id` have no controller, and no two callers have the same one),
  and that a completed request was really answered or really had a deadline
  needs `Honest` (timers, messages under way and queued commands tell the
  truth). `IInv` is `TypeOK /\ IdsFresh /\ NoDangling /\ Honest`.
* `TypeCorrect`, `ControllerOwnership`: `TypeOK` and `NoDangling` follow.
* `Refinement`: `Spec => RefinesRpcCall`. The map reads a call's status off
  `handled` and `owner`; `SendRequest` is `Issue`, a handler run is `Complete`
  or `Expire`, a readable reply is `Answer`, and every other step stutters.

`DynSingletonProofs` proves, for every set of application threads and workers
and every bound on managers, requests and failures:

* `LifeCycle`: `SInv` is invariant. `SingleManager` needs `Token`: `mgr_exists`
  is a token that the builder takes in `start_construction()`, that stays with
  the manager, and that the only thread in the deleter returns. `Token` in turn
  needs `OneBuilder` (the mutex keeps a second builder out), `Progress` (what a
  thread at each place of the deleter is destroying) and `SingleManager`
  itself. `WeakExact` says that the count of a control block is exactly the
  references to it, so that a freed block is one that nobody should touch: the
  race of `manager_wptr_race` is a stale address, never a wrong count.
* `Singleton`, `PointersLive`: `SingleManager` and `NoDeadManager` follow; its
  part `NoStaleSocket` because the deleter waits in
  `~context_t()` for every socket but its own, which it has closed. They
  hold also when a constructor throws and up to the point where the unlocked
  read becomes undefined.

`BrokerProofs` goes on from `IInv`, for the same constants:

* `OrderInvariance`: `OInv` is invariant. `StartFirst` needs `EndsLater`: what
  can end an rpc (a timer, a forwarded request, an arrived message) exists only
  when the controller has been given to the worker of its connection, except
  that `HandleRequest` registers the timer one step before. That step leaves the
  controller with the broker, so no timeout can be queued in between without
  the start going first. `NothingAfterQuit` needs `Shutdown`: a quit command is
  in a queue only once the broker thread has stopped and can add nothing.
  `ClosureOwned` puts every closure in exactly one place of one queue until it
  has run or was dropped. `QuitOrder` puts kQuit at the end of the pipe of the one
  thread that destroys the manager: when the broker has read it, that pipe is empty.
* `ControllersHeld` (`NoLeak`), `StartsBeforeEnds` (`StartFirst`), `QuitIsLast`
  (`NothingAfterQuit`), `ClosuresRunOnce` (`ClosureOnce`) and `DestroyerIsServed`
  (`DestroyerServed`) follow. What the shutdown loses is part of them: a controller
  is lost, and a closure dropped, only when the broker has stopped.

`ReactorProofs`, for every set of sockets and every bound on timers, time,
deletions and messages:

* `ReactorInvariance`: `RInv` is invariant. The argument of `Aligned` is that the
  poll items are a prefix of `sockets_` from the rebuild to the end of the
  dispatch (`Polled`): callbacks only append to `sockets_`, and deletions wait for
  the next rebuild. `Cleaned` is the loop invariant of
  `process_del_sockets()`: nothing above its index is left to delete, so moving
  the last socket into a hole skips none. `Counted` relates acknowledgements to
  deletions still to come, `Unread` says that a poll result not yet dispatched has
  its message, and `TimersKept` follows a timer from the map to its run.
* `ResultsReachTheirSocket` (`Aligned`), `DeletionsBeforePoll`
  (`DeletedBeforePoll`), `TimersRunOnTime` (`TimersOnTime`) and
  `CallbacksFindMessages` (`NoBlockingReceive`) follow. That the time to sleep is
  the least over the timers uses that a set of naturals has a least element.

`SyncCallProofs`, for every set of callers, workers and calls:

* `SyncInvariance`: `SInv` is invariant. `HandlerAlive` rests on `Signalled`: a
  worker inside `signal()` holds the handler's mutex, and a caller leaves
  `wait()` only with `ready_` set and the mutex free. `FirstAnswerWins` rests on
  `Answered`: until a worker runs the handler, the first completion that arrived is
  ahead of all others in the queue of the call's worker, behind the start;
  afterwards it is what is stored.
* `SyncTypes` (`TypeOK`), `HandlersOutliveTheirUse` (`HandlerAlive`) and
  `FirstAnswerReturned` (`FirstAnswerWins`) follow.

`LibraryProofs`, for every number of threads, workers, calls, requests,
closures and managers. The specifications are those of the three modules by
themselves (`PySpec`, `ASpec`, `CSpec`), of which the runs compose the steps:

* `BindingInvariance`: `PyInv` is invariant. It counts the references of a
  controller exactly (`Owned`: the caller's and the wrapper's), keeps the closure
  of a call in one queue or one bridge function (`Bridged`), orders parsing,
  signalling and waiting (`Seen`), keeps a request in one queue or one bridge
  function until its `ServerChannel` is made (`Placed`) and ties the deletion of a `server_channel`
  to its pointer, and the end of the process to a pointer that is NULL (`Channels`). `ControllersUsedAlive` (`UsedAlive`),
  `BindingLeaksNothing` (`NothingLeaks`), `ChannelsDeletedOnce`
  (`ChannelDeletedOnce`) and `WaitSeesTheOutcome` (`WaitSees`) follow.
* `ClosuresLive` (`ClosureLife`) and `ApplicationUsesAlive` (`AppUsesAlive`).

`ServerProofs`, for every set of servers, endpoints, clients and names, every
number of workers and every bound on sockets, requests and registrations:

* `ServeInvariance`: `ServeInv` is invariant. A fault (an exception in the
  broker, a reply on a deleted socket, a destroyed service) ends the behaviour, so
  most of it, `Calm`, is claimed while there is none. Its parts, in the order in
  which they are needed:
  * `OneCommand`: a thread has at most one command under way that it waits for,
    as the command, the socket being deleted for it, or the answer;
  * `BindMap`, `Owners`, `ClosedEmpty`, `GoneEmpty`: `bind_map_` has exactly the
    endpoints that are bound and not being unbound, a router's factories are
    those of the server that bound it, and a deleted socket has no requests.
    `GoneIsSilent` is a consequence;
  * `KnownLegal`, `Addressed`, `HandlersKnown`: whoever knows a connection knows
    one that has had a socket, and every copy of a request or of its address is
    true to the request. `CommandsLegal` is a consequence;
  * `OnePlace`: a request is on its socket, in a worker's queue, with a service,
    in a reply command or answered, and in one of these only;
  * `Relied`: a registration goes ahead of the message that tells of it in the
    sender's pipe (`TellsKept`), and ahead of the request that relies on it in the
    worker's queue (`DueQueued`); a service made from a factory is made with the
    handler (`Will`) and no step takes one away (`ServicesStay`).
* `NobodyRefused` (`NotRefused`), `CommandsAreLegal` (`CommandsLegal`) and
  `ServersEndSilent` (`GoneIsSilent`) follow.
* `ServeRefinement`: `Spec => RefinesRpcServe`. The address of a request is read
  off `asked`; `ClientSend` is `Ask`, a reply that the broker sends is `Answer`
  (the request is not answered yet by `OnePlace`, and the reply is addressed as it
  was by `Addressed`), and every other step stutters.

`HelperProofs` is about algorithms, for inputs of any size. Its general theorems
quantify over the inputs; the theorems about `HSpec` follow from them with
`InputInvariance` (`input` is always one of the kinds that `HNext` picks), for every
value of the bounds and of the widths of integers:

* `CommandsUnderstood`, `ForeignMessagesHarmless`, and so
  `EveryMessageUnderstood` (`MessagesUnderstood`): any command with any strings, any
  message of any number of frames. `At` is the state of the message iterator after
  some frames of a message; each reader is a lemma that moves it on, and the
  counts of the readers add up to the frames that the writers wrote.
* `BoundAsInPython`, and so `EveryArgumentBound` (`ArgumentsBound`): the wrapper
  counts the keywords it took, and checks for unknown and repeated ones only if
  some are left over. The proof is that the count equals the number of keywords
  exactly if none of them is unknown or repeated. Positional values must differ from
  keyword values, or the reference definition could not tell their sources apart.
* `CppStubsReach`, `PythonStubsReach`, and so `EveryStubReaches`
  (`StubReachesMethod`): any number of services, with methods of different
  names, also when two services share a variable of the Python module.
* `HeaderIncluded`, `PythonFileNamed`, `DescriptorComplete`, `FilenamesDiffer`,
  `PythonFindsTypes`, `OverloadsDiffer`, `GeneratedCppCompiles`, and so
  `EveryCodeFits` (`GeneratedCodeFits`). The theorems about C++ are for any file
  whose services and their stubs have different names and whose types are
  those of the file and its dependencies (`Services`); the generated text is taken
  apart into what each service contributes, which uses only names declared
  before it (`UsesFit`) and defines none of the names of another service (`Apart`).
  `TypesDiffer` says when a function of an interface or a stub has the name of a
  type of the class or of a member of `service_stub`: exactly if `TypeClash`.

The operators are folds and recursive functions, and the prover has no induction
over data. Two things take its place. `LeastNatural` (a nonempty set of naturals has a
least element) turns a claim about every index into one about the first index at which it
fails. A concatenation of sequences is characterised by where each element is placed,
so that what is needed of it follows from lengths and positions.

Each inductive invariant was checked by TLC before it was proved, on instances
up to those of the runs. The lemmas of `QueueFacts` say what a push and a pop do
to the elements of a queue and to the other queues; each action then has a lemma
on its effects, and each part of an invariant one lemma with a case for each
action that can disturb it. Assumptions used are those that the modules name:
`WorkerCount` is positive, `Hash` gives naturals, the values that stand for "none"
(`NoConn`, `NoThread`, `NoSender`, `Nobody`, `NoHolder`) are outside the sets they
complete, application threads are not workers, the frontend is none of the other
sockets, bounds are naturals, an int has bits and a long has more of them, and
an input of `HSpec` has at most seven positional arguments, one more than any
wrapper takes. TLC evaluates them in every run.

Only model-checked, and why: all liveness (`DeadlineHonoured`,
`ResponseHandled`, `ShutdownCompletes`, `TimersRunUnlessBlocked`,
`MessagesReceived`, `GetReturns`, `DestroyedUnlessStuck`, `CommandsAnswered`,
`RequestHandled`, `TimedCallReturns`, `WaitEnds`, `RunReleased`), because fairness
and `ENABLED` are out of the prover's reach. Every safety property of the runs that
pass, but for the bounds below, has a theorem. Type correctness is proved with each inductive invariant:
`TypeOK` itself for `Broker`, `SyncCall`, `Reactor` and `DynSingleton`; the Python
modules, the callbacks and `Server` have types of their own in their proofs
(`PyTypes`, `ATypes`, `CTypes`, `ServeTypes`), of which the last leaves out the
bounds of `Server`'s `TypeOK` on the numbers of sockets and of waiting answers.

## Not modelled, and the plan

Not modelled: `zsendrpc` (argument parsing and printing around one synchronous
call), examples, tests and build files, which use the library; the vendored
`src/rpcz/plugin/common`, but for the string helpers that names go through; the
layout of generated code; the run-time helpers of Cython that no wrapper's
outcome depends on, module initialisation, and the constructors of `RpcChannel`
and `ServerChannel`, which always raise; ZeroMQ, boost and protobuf, beyond how
the code uses them. In the Python layer the wrappers
`set_connection_manager_threads` and `set_zmq_io_threads` call functions that the
library no longer has; they set nothing that is modelled.

The Python layer is in the middle of a refactoring: `rpc.py` uses a class
`WrappedRPC` and `Application.py` functions that the extension does not export, and
`pywraprpcz.cpp` was generated for an older C++ interface than
the headers have: its bridge gets a `server_channel*` that its `ServerChannel` owns,
where `python_rpc_service.hpp` passes a `replier` by value, and it includes
`rpc_channel.hpp`, which is gone. Modelled is the `.cpp` that `setup.py` compiles, with
the Python files around it, and the library under it as an external that hands it
requests and completions.

What is left: a composition of `Broker` at one side with `Server` at the other, which would
replace the arbitrary remote sides of each by the other.
