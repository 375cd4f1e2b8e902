------------------------------- MODULE Broker -------------------------------
(***************************************************************************)
(* The request path of rpcz: application threads make requests on          *)
(* connections, one broker thread owns every network socket and the timer  *)
(* map, and each worker thread runs response handlers taken from its own   *)
(* command queue.  broker_thread.cc, worker.cc, workers_commander.cc,      *)
(* connection.cc and manager.cc are followed call by call.                 *)
(*                                                                         *)
(* An rpc_controller travels by raw pointer                                *)
(*     caller -> frontend message -> broker -> worker queue -> worker map  *)
(* and must be deleted exactly once, after its handler has run.  The ghost *)
(* variable owner records where that pointer is; a controller is lost when *)
(* ~manager() destroys the last place that has its pointer.                *)
(*                                                                         *)
(* Abstractions: a method and a payload are the event id they travel with; *)
(* a deadline is only present or absent, and a registered timer may expire *)
(* at any later time; the remote side may answer in any order, late, more  *)
(* than once, or never.  Requests that arrive from the remote side, bind   *)
(* and unbind are not in this module.                                      *)
(***************************************************************************)
EXTENDS Naturals, Sequences, FiniteSets

CONSTANTS
    Threads,      \* threads that own a frontend socket of the manager
    Conns,        \* connections, by their connection_info
    NoConn,       \* not a connection
    RouterConns,  \* those whose socket is a ROUTER: connections to clients
    WorkerCount,  \* application_options::worker_threads
    Hash,         \* hash_value(connection_info)
    MaxRequests,  \* bound on the event ids taken
    MaxClosures,  \* bound on manager::add() calls
    MaxCommands,  \* bound on the two together
    MaxReplies,   \* bound on the messages the remote sides send
    FrontHWM,     \* high-water mark of an inproc frontend pipe
    ConnHWM       \* high-water mark of a connection's outgoing pipe

ASSUME ConnsAssumption == RouterConns \subseteq Conns /\ NoConn \notin Conns
ASSUME WorkersAssumption == WorkerCount \in Nat \ {0}
ASSUME HashAssumption == Hash \in [Conns -> Nat]
ASSUME BoundsAssumption ==
    /\ MaxRequests \in Nat /\ MaxClosures \in Nat /\ MaxCommands \in Nat
    /\ MaxReplies \in Nat
    /\ FrontHWM \in Nat \ {0} /\ ConnHWM \in Nat \ {0}

Workers  == 0 .. WorkerCount - 1
Events   == 1 .. MaxRequests
Closures == 1 .. MaxClosures

\* What a response header says.  has_error_code() separates the two.
ReplyKinds == {"ok", "error"}

\* What a message from the network can be.  "badframe" has no empty
\* delimiter or no header frame, "badheader" has a header that does not parse
\* or is neither a request nor a response.
DataKinds == ReplyKinds \cup {"badframe", "badheader"}

\* c2b::command_code, with the pointer that the message carries.
FrontMsg == [cmd : {"request"}, id : Events] \cup [cmd : {"closure"}, id : Closures]
            \cup [cmd : {"quit"}, id : {0}]

\* b2w::command_code, with the event id or closure, and the message's kind.
WorkerCmd == [cmd : {"start", "timeout"}, id : Events, kind : {"none"}]
             \cup [cmd : {"data"}, id : Events, kind : DataKinds]
             \cup [cmd : {"closure"}, id : Closures, kind : {"none"}]
             \cup [cmd : {"quit"}, id : {0}, kind : {"none"}]

Outcomes == ReplyKinds \cup {"timeout"}

Owners == {"none", "frontend", "broker", "queue", "worker", "deleted", "lost"}

VARIABLES
    next_event_id,  \* manager::next_event_id_
    sock,           \* sock[t]: tss_fe_socket_ of t: "none", "open", "destroyer"
                    \* (open, and t runs ~manager()) or "closed"
    caller,         \* caller[t]: event id taken by the request() t is in, or 0
    conn,           \* conn[e]: the connection that request e is made on
    timed,          \* the requests with timeout_ms # -1
    owner,          \* ghost: who holds the rpc_controller of e
    handled,        \* handled[e]: the outcomes its response handler ran with
    fe,             \* fe[t]: the pipe from t's frontend socket to the broker
    broker,         \* the reactor: "loop", "quitting" (should_quit_), "stopped"
    fwd,            \* the request inside broker_thread::send_request(), or 0
    timers,         \* reactor::closure_run_map_
    out,            \* out[c]: requests queued on the socket towards c's peer
    arrived,        \* requests that the remote side has received
    answered,       \* answered[e]: the kinds of response sent for e
    replies,        \* number of messages the remote sides have sent
    inb,            \* inb[c]: messages waiting on the socket, from c's peer
    wq,             \* wq[w]: the command queue of worker w
    rmap,           \* rmap[w]: keys of worker::remote_response_map_
    alive,          \* alive[w]: worker thread w has not returned
    next_closure,   \* number of the next closure
    ran,            \* ran[k]: how many times closure k has run
    dropped,        \* ghost: closures destroyed with the frontend socket
    phase           \* ~manager(): "running", "join_broker", "join_workers",
                    \* "term_context", "done"

callerVars == <<next_event_id, caller, next_closure>>
ctrlVars   == <<conn, timed, owner, handled>>
peerVars   == <<arrived, answered, replies>>
workerVars == <<rmap, alive, ran>>
endVars    == <<phase, sock, dropped>>
vars == <<next_event_id, caller, conn, timed, owner, handled, fe, broker, fwd,
          timers, out, arrived, answered, replies, inb, wq, rmap, alive,
          next_closure, ran, phase, sock, dropped>>

-----------------------------------------------------------------------------
\* Queues: one writer's messages stay in order, different queues do not.
Push(q, k, m) == [q EXCEPT ![k] = Append(@, m)]
Pop(q, k)     == [q EXCEPT ![k] = Tail(@)]

Cmd(c, i, k) == [cmd |-> c, id |-> i, kind |-> k]

\* The i-th message from t is the request e; the i-th command of w starts it.
InFront(e, t, i) ==
    i \in DOMAIN fe[t] /\ fe[t][i].cmd = "request" /\ fe[t][i].id = e

StartAt(e, w, i) ==
    i \in DOMAIN wq[w] /\ wq[w][i].cmd = "start" /\ wq[w][i].id = e

\* broker_thread::get_worker_index: the worker that serves a connection.
get_worker_index(c) == Hash[c] % WorkerCount

Init ==
    /\ next_event_id = 1
    /\ caller = [t \in Threads |-> 0]
    /\ conn = [e \in Events |-> NoConn]
    /\ timed = {}
    /\ owner = [e \in Events |-> "none"]
    /\ handled = [e \in Events |-> <<>>]
    /\ fe = [t \in Threads |-> <<>>]
    /\ broker = "loop"
    /\ fwd = 0
    /\ timers = {}
    /\ out = [c \in Conns |-> <<>>]
    /\ arrived = {}
    /\ answered = [e \in Events |-> {}]
    /\ replies = 0
    /\ inb = [c \in Conns |-> <<>>]
    /\ wq = [w \in Workers |-> <<>>]
    /\ rmap = [w \in Workers |-> {}]
    /\ alive = [w \in Workers |-> TRUE]
    /\ next_closure = 1
    /\ ran = [k \in Closures |-> 0]
    /\ phase = "running"
    /\ sock = [t \in Threads |-> "none"]
    /\ dropped = {}

-----------------------------------------------------------------------------
(* Application threads                                                     *)

Commands == (next_event_id - 1) + (next_closure - 1)

\* connection::request() takes an event id with an atomic fetch_add.
TakeEventId(t, c) ==
    /\ phase = "running"
    /\ sock[t] # "closed"
    /\ caller[t] = 0
    /\ next_event_id \in Events
    /\ Commands < MaxCommands
    /\ caller' = [caller EXCEPT ![t] = next_event_id]
    /\ conn' = [conn EXCEPT ![next_event_id] = c]
    /\ next_event_id' = next_event_id + 1
    /\ UNCHANGED <<timed, owner, handled, fe, broker, fwd, timers, out,
                   peerVars, inb, wq, workerVars, next_closure, endVars>>

\* The request does not serialize: invalid_message_error is thrown before an
\* rpc_controller exists.  The event id is never used again.
RequestThrows(t) ==
    /\ caller[t] # 0
    /\ caller' = [caller EXCEPT ![t] = 0]
    /\ UNCHANGED <<next_event_id, ctrlVars, fe, broker, fwd, timers, out,
                   peerVars, inb, wq, workerVars, next_closure, endVars>>

\* The multipart message of kRequest, with the pointer to the controller of e.
RequestMsg(e) == [cmd |-> "request", id |-> e]

\* get_frontend_socket(): the socket of a thread is made on first use.
get_frontend_socket(t) == sock' = [sock EXCEPT ![t] = "open"]

\* The rest of request(): allocate the controller and send its pointer in one
\* multipart kRequest message.  The send blocks while the pipe is full.
SendRequest(t, hasDeadline) ==
    LET e == caller[t] IN
    /\ e # 0
    /\ Len(fe[t]) < FrontHWM
    /\ timed' = IF hasDeadline THEN timed \cup {e} ELSE timed
    /\ owner' = [owner EXCEPT ![e] = "frontend"]
    /\ fe' = Push(fe, t, RequestMsg(e))
    /\ get_frontend_socket(t)
    /\ caller' = [caller EXCEPT ![t] = 0]
    /\ UNCHANGED <<next_event_id, conn, handled, broker, fwd, timers, out,
                   peerVars, inb, wq, workerVars, next_closure, phase, dropped>>

\* manager::add() hands a closure to the broker.
AddClosure(t) ==
    /\ phase = "running"
    /\ sock[t] # "closed"
    /\ caller[t] = 0
    /\ next_closure \in Closures
    /\ Commands < MaxCommands
    /\ Len(fe[t]) < FrontHWM
    /\ fe' = Push(fe, t, [cmd |-> "closure", id |-> next_closure])
    /\ get_frontend_socket(t)
    /\ next_closure' = next_closure + 1
    /\ UNCHANGED <<next_event_id, caller, ctrlVars, broker, fwd, timers, out,
                   peerVars, inb, wq, workerVars, phase, dropped>>

\* A thread returns: boost::thread_specific_ptr closes its frontend socket, and
\* what it has sent stays in the broker's pipe.  As long as the manager is used,
\* some thread has a manager_ptr.
ThreadEnds(t) ==
    /\ sock[t] = "open"
    /\ caller[t] = 0
    /\ phase = "running" => \E u \in Threads \ {t} : sock[u] # "closed"
    /\ sock' = [sock EXCEPT ![t] = "closed"]
    /\ UNCHANGED <<callerVars, ctrlVars, fe, broker, fwd, timers, out,
                   peerVars, inb, wq, workerVars, phase, dropped>>

\* The last manager_ptr is released, so that no thread is inside request():
\* ~manager() calls join_threads(), which sends kQuit to the broker.
JoinThreads(t) ==
    /\ phase = "running"
    /\ sock[t] # "closed"
    /\ \A u \in Threads : caller[u] = 0
    /\ Len(fe[t]) < FrontHWM
    /\ fe' = Push(fe, t, [cmd |-> "quit", id |-> 0])
    /\ phase' = "join_broker"
    /\ sock' = [sock EXCEPT ![t] = "destroyer"]
    /\ UNCHANGED <<callerVars, ctrlVars, broker, fwd, timers, out, peerVars,
                   inb, wq, workerVars, dropped>>

JoinAllEarly ==
    /\ phase = "join_broker"
    /\ wq' = [w \in Workers |-> Append(wq[w], Cmd("quit", 0, "none"))]
    /\ phase' = "join_workers"
    /\ UNCHANGED <<callerVars, ctrlVars, fe, broker, fwd, timers, out,
                   peerVars, inb, workerVars, sock, dropped>>

JoinAllFirstOnly ==
    /\ phase = "join_broker"
    /\ broker = "stopped"
    /\ wq' = Push(wq, 0, Cmd("quit", 0, "none"))
    /\ phase' = "join_workers"
    /\ UNCHANGED <<callerVars, ctrlVars, fe, broker, fwd, timers, out,
                   peerVars, inb, workerVars, sock, dropped>>

\* broker_thread_.join() has returned: worker_thread_group::join_all() puts a
\* quit command in every worker's queue.
JoinAll ==
    /\ phase = "join_broker"
    /\ broker = "stopped"
    /\ wq' = [w \in Workers |-> Append(wq[w], Cmd("quit", 0, "none"))]
    /\ phase' = "join_workers"
    /\ UNCHANGED <<callerVars, ctrlVars, fe, broker, fwd, timers, out,
                   peerVars, inb, workerVars, sock, dropped>>

\* thread_group_.join_all() has returned.  The members of the manager are
\* destroyed: the workers with their maps of raw pointers, then the frontend
\* socket of this thread.
Joined ==
    /\ phase = "join_workers"
    /\ \A w \in Workers : ~alive[w]
    /\ rmap' = [w \in Workers |-> {}]
    /\ owner' = [e \in Events |->
                    IF \E w \in Workers : e \in rmap[w] THEN "lost" ELSE owner[e]]
    /\ sock' = [t \in Threads |-> IF sock[t] = "destroyer" THEN "closed" ELSE sock[t]]
    /\ phase' = "term_context"
    /\ UNCHANGED <<callerVars, conn, timed, handled, fe, broker, fwd, timers,
                   out, peerVars, inb, wq, alive, ran, dropped>>

\* The last member is the context, and ~context_t() waits until every socket is
\* closed: also the frontend sockets of the other threads, which are closed when
\* those threads end.
TermContext ==
    /\ phase = "term_context"
    /\ \A t \in Threads : sock[t] # "open"
    /\ phase' = "done"
    /\ UNCHANGED <<callerVars, ctrlVars, fe, broker, fwd, timers, out,
                   peerVars, inb, wq, workerVars, sock, dropped>>

-----------------------------------------------------------------------------
(* The broker thread                                                       *)

\* The reactor dispatches, and is not inside a blocking call of a handler.
Polling == broker = "loop" /\ fwd = 0

FrontHead(t, c) ==
    /\ Polling
    /\ fe[t] # <<>>
    /\ Head(fe[t]).cmd = c

HandleRequestTimerOnWorkerZero(t) ==
    LET e == Head(fe[t]).id IN
    /\ FrontHead(t, "request")
    /\ timers' = IF e \in timed THEN timers \cup {[ev |-> e, worker |-> 0]}
                                ELSE timers
    /\ fwd' = e
    /\ owner' = [owner EXCEPT ![e] = "broker"]
    /\ fe' = Pop(fe, t)
    /\ UNCHANGED <<callerVars, conn, timed, handled, broker, out, peerVars,
                   inb, wq, workerVars, endVars>>

HandleRequestNoTimer(t) ==
    LET e == Head(fe[t]).id IN
    /\ FrontHead(t, "request")
    /\ fwd' = e
    /\ owner' = [owner EXCEPT ![e] = "broker"]
    /\ fe' = Pop(fe, t)
    /\ UNCHANGED <<callerVars, conn, timed, handled, broker, timers, out,
                   peerVars, inb, wq, workerVars, endVars>>

\* handle_frontend_socket() and the first half of send_request(): the timer
\* is registered before the request is forwarded.
HandleRequest(t) ==
    LET e == Head(fe[t]).id
        w == get_worker_index(conn[e])
    IN
    /\ FrontHead(t, "request")
    /\ timers' = IF e \in timed THEN timers \cup {[ev |-> e, worker |-> w]}
                                ELSE timers
    /\ fwd' = e
    /\ owner' = [owner EXCEPT ![e] = "broker"]
    /\ fe' = Pop(fe, t)
    /\ UNCHANGED <<callerVars, conn, timed, handled, broker, out, peerVars,
                   inb, wq, workerVars, endVars>>

\* broker_thread::forward_to(): a DEALER socket blocks the broker while the
\* pipe to the peer is full, a ROUTER socket drops the message.
forward_to(c, e) ==
    LET room == Len(out[c]) < ConnHWM IN
    /\ room \/ c \in RouterConns
    /\ out' = IF room THEN Push(out, c, e) ELSE out

\* broker_thread::start_rpc(): the controller goes to the connection's worker.
start_rpc(c, e) ==
    /\ wq' = Push(wq, get_worker_index(c), Cmd("start", e, "none"))
    /\ owner' = [owner EXCEPT ![e] = "queue"]

ForwardRequestGivesUp ==
    LET e == fwd
        c == conn[e]
        room == Len(out[c]) < ConnHWM
    IN
    /\ fwd # 0
    /\ room \/ c \in RouterConns
    /\ fwd' = 0
    /\ IF room
         THEN /\ out' = Push(out, c, e)
              /\ wq' = Push(wq, get_worker_index(c), Cmd("start", e, "none"))
              /\ owner' = [owner EXCEPT ![e] = "queue"]
         ELSE UNCHANGED <<out, wq, owner>>
    /\ UNCHANGED <<callerVars, conn, timed, handled, fe, broker, timers,
                   peerVars, inb, workerVars, endVars>>

\* The second half of send_request(): the worker is told whether or not the
\* message was dropped.
ForwardRequest ==
    /\ fwd # 0
    /\ forward_to(conn[fwd], fwd)
    /\ start_rpc(conn[fwd], fwd)
    /\ fwd' = 0
    /\ UNCHANGED <<callerVars, conn, timed, handled, fe, broker, timers,
                   peerVars, inb, workerVars, endVars>>

HandleClosureOnEveryWorker(t) ==
    /\ FrontHead(t, "closure")
    /\ wq' = [w \in Workers |->
                 Append(wq[w], Cmd("closure", Head(fe[t]).id, "none"))]
    /\ fe' = Pop(fe, t)
    /\ UNCHANGED <<callerVars, ctrlVars, broker, fwd, timers, out, peerVars,
                   inb, workerVars, endVars>>

\* add_closure(): a random worker runs it.
HandleClosure(t) ==
    /\ FrontHead(t, "closure")
    /\ \E w \in Workers :
          wq' = Push(wq, w, Cmd("closure", Head(fe[t]).id, "none"))
    /\ fe' = Pop(fe, t)
    /\ UNCHANGED <<callerVars, ctrlVars, broker, fwd, timers, out, peerVars,
                   inb, workerVars, endVars>>

\* handle_quit_command(): the loop ends with this round of poll results.
HandleQuit(t) ==
    /\ FrontHead(t, "quit")
    /\ broker' = "quitting"
    /\ fe' = Pop(fe, t)
    /\ UNCHANGED <<callerVars, ctrlVars, fwd, timers, out, peerVars, inb, wq,
                   workerVars, endVars>>

\* The closures whose kRunClosure is still to be read.
ClosuresInFront ==
    {k \in Closures : \E t \in Threads : \E i \in DOMAIN fe[t] :
        fe[t][i].cmd = "closure" /\ fe[t][i].id = k}

\* The broker_thread object is destroyed: its reactor deletes the sockets
\* (linger 0), also the frontend socket with the commands of other threads that
\* nobody has read, and the timers that have not run.
BrokerExit ==
    /\ broker = "quitting"
    /\ broker' = "stopped"
    /\ timers' = {}
    /\ out' = [c \in Conns |-> <<>>]
    /\ inb' = [c \in Conns |-> <<>>]
    /\ fe' = [t \in Threads |-> <<>>]
    /\ owner' = [e \in Events |->
                    IF \E t \in Threads : \E i \in DOMAIN fe[t] : InFront(e, t, i)
                      THEN "lost" ELSE owner[e]]
    /\ dropped' = dropped \cup ClosuresInFront
    /\ UNCHANGED <<callerVars, conn, timed, handled, fwd, peerVars, wq,
                   workerVars, phase, sock>>

\* handle_router_socket() or handle_dealer_socket(), then handle_socket(): a
\* message without delimiter or header is dropped, any other goes to the
\* connection's worker.  Sockets that were ready in the round of kQuit are
\* still served.
HandleData(c) ==
    /\ fwd = 0
    /\ broker \in {"loop", "quitting"}
    /\ inb[c] # <<>>
    /\ LET m == Head(inb[c]) IN
          wq' = IF m.kind = "badframe" THEN wq
                ELSE Push(wq, get_worker_index(c), Cmd("data", m.ev, m.kind))
    /\ inb' = Pop(inb, c)
    /\ UNCHANGED <<callerVars, ctrlVars, fe, broker, fwd, timers, out,
                   peerVars, workerVars, endVars>>

\* process_closure_run_map() runs an expired timer, which is
\* broker_thread::handle_timeout(), and erases it.
HandleTimeout(tm) ==
    /\ Polling
    /\ tm \in timers
    /\ timers' = timers \ {tm}
    /\ wq' = Push(wq, tm.worker % WorkerCount, Cmd("timeout", tm.ev, "none"))
    /\ UNCHANGED <<callerVars, ctrlVars, fe, broker, fwd, out, peerVars, inb,
                   workerVars, endVars>>

-----------------------------------------------------------------------------
(* Worker threads: worker::operator() pops one command at a time           *)

WorkerHead(w, c) ==
    /\ alive[w]
    /\ wq[w] # <<>>
    /\ Head(wq[w]).cmd = c

\* worker::start_rpc()
StartRpc(w) ==
    LET e == Head(wq[w]).id IN
    /\ WorkerHead(w, "start")
    /\ rmap' = [rmap EXCEPT ![w] = @ \cup {e}]
    /\ owner' = [owner EXCEPT ![e] = "worker"]
    /\ wq' = Pop(wq, w)
    /\ UNCHANGED <<callerVars, conn, timed, handled, fe, broker, fwd, timers,
                   out, peerVars, inb, alive, ran, endVars>>

RunHandlerKeepingEntry(w, e, o) ==
    /\ handled' = [handled EXCEPT ![e] = Append(@, o)]
    /\ owner' = [owner EXCEPT ![e] = "deleted"]
    /\ UNCHANGED rmap

\* Run the handler of e with outcome o, delete its controller, forget it.
RunHandler(w, e, o) ==
    /\ handled' = [handled EXCEPT ![e] = Append(@, o)]
    /\ owner' = [owner EXCEPT ![e] = "deleted"]
    /\ rmap' = [rmap EXCEPT ![w] = @ \ {e}]

HandleResponseIgnoringErrors(w) ==
    LET m == Head(wq[w]) IN
    /\ WorkerHead(w, "data")
    /\ IF m.kind = "ok" /\ m.id \in rmap[w]
         THEN RunHandler(w, m.id, m.kind)
         ELSE UNCHANGED <<handled, owner, rmap>>
    /\ wq' = Pop(wq, w)
    /\ UNCHANGED <<callerVars, conn, timed, fe, broker, fwd, timers, out,
                   peerVars, inb, alive, ran, endVars>>

\* worker::handle_data(): handle_done_resp() or handle_error_resp().  A bad
\* header, or an event id that is not in the map, is ignored.
HandleResponse(w) ==
    LET m == Head(wq[w]) IN
    /\ WorkerHead(w, "data")
    /\ IF m.kind \in ReplyKinds /\ m.id \in rmap[w]
         THEN RunHandler(w, m.id, m.kind)
         ELSE UNCHANGED <<handled, owner, rmap>>
    /\ wq' = Pop(wq, w)
    /\ UNCHANGED <<callerVars, conn, timed, fe, broker, fwd, timers, out,
                   peerVars, inb, alive, ran, endVars>>

ExpireUnconditionally(w) ==
    LET e == Head(wq[w]).id IN
    /\ WorkerHead(w, "timeout")
    /\ RunHandler(w, e, "timeout")
    /\ wq' = Pop(wq, w)
    /\ UNCHANGED <<callerVars, conn, timed, fe, broker, fwd, timers, out,
                   peerVars, inb, alive, ran, endVars>>

\* worker::handle_timeout(): nothing to do if the response came first.
ExpireRpc(w) ==
    LET e == Head(wq[w]).id IN
    /\ WorkerHead(w, "timeout")
    /\ IF e \in rmap[w] THEN RunHandler(w, e, "timeout")
                        ELSE UNCHANGED <<handled, owner, rmap>>
    /\ wq' = Pop(wq, w)
    /\ UNCHANGED <<callerVars, conn, timed, fe, broker, fwd, timers, out,
                   peerVars, inb, alive, ran, endVars>>

\* worker::run_closure()
RunClosure(w) ==
    /\ WorkerHead(w, "closure")
    /\ ran' = [ran EXCEPT ![Head(wq[w]).id] = @ + 1]
    /\ wq' = Pop(wq, w)
    /\ UNCHANGED <<callerVars, ctrlVars, fe, broker, fwd, timers, out,
                   peerVars, inb, rmap, alive, endVars>>

\* kQuitWorker: the worker thread returns.
QuitWorker(w) ==
    /\ WorkerHead(w, "quit")
    /\ alive' = [alive EXCEPT ![w] = FALSE]
    /\ wq' = Pop(wq, w)
    /\ UNCHANGED <<callerVars, ctrlVars, fe, broker, fwd, timers, out,
                   peerVars, inb, rmap, ran, endVars>>

-----------------------------------------------------------------------------
(* The remote sides and the network                                        *)

\* The remote side of c receives the next request.
PeerRecv(c) ==
    /\ out[c] # <<>>
    /\ out' = Pop(out, c)
    /\ arrived' = arrived \cup {Head(out[c])}
    /\ UNCHANGED <<callerVars, ctrlVars, fe, broker, fwd, timers, answered,
                   replies, inb, wq, workerVars, endVars>>

\* The remote side sends a message about a request that it has received: a
\* response, a second response, or one that cannot be read.
PeerReply(e, k) ==
    /\ e \in arrived
    /\ broker # "stopped"
    /\ replies < MaxReplies
    /\ replies' = replies + 1
    /\ answered' = [answered EXCEPT ![e] = @ \cup ({k} \cap ReplyKinds)]
    /\ inb' = Push(inb, conn[e], [ev |-> e, kind |-> k])
    /\ UNCHANGED <<callerVars, ctrlVars, fe, broker, fwd, timers, out,
                   arrived, wq, workerVars, endVars>>

-----------------------------------------------------------------------------
ThreadStep(t) ==
    \/ \E c \in Conns : TakeEventId(t, c)
    \/ RequestThrows(t)
    \/ \E hasDeadline \in BOOLEAN : SendRequest(t, hasDeadline)
    \/ AddClosure(t)
    \/ ThreadEnds(t)
    \/ JoinThreads(t)

BrokerStep ==
    \/ \E t \in Threads : HandleRequest(t) \/ HandleClosure(t) \/ HandleQuit(t)
    \/ ForwardRequest
    \/ \E c \in Conns : HandleData(c)
    \/ \E tm \in timers : HandleTimeout(tm)
    \/ BrokerExit

WorkerStep(w) ==
    \/ StartRpc(w)
    \/ HandleResponse(w)
    \/ ExpireRpc(w)
    \/ RunClosure(w)
    \/ QuitWorker(w)

PeerStep ==
    \/ \E c \in Conns : PeerRecv(c)
    \/ \E e \in Events, k \in DataKinds : PeerReply(e, k)

\* The manager is gone: nothing more happens.
Terminated == phase = "done" /\ UNCHANGED vars

Next ==
    \/ \E t \in Threads : ThreadStep(t)
    \/ JoinAll
    \/ Joined
    \/ TermContext
    \/ BrokerStep
    \/ \E w \in Workers : WorkerStep(w)
    \/ PeerStep
    \/ Terminated

Spec == Init /\ [][Next]_vars

(* Fairness.  Every thread of the process keeps running: a caller finishes   *)
(* request() once its pipe has room, the reactor serves every ready socket   *)
(* and every expired timer in each round, a worker pops its queue.  Nothing  *)
(* makes the application release the manager or end its threads, nor the     *)
(* remote side answer.                                                       *)
LocalFairness ==
    /\ \A t \in Threads :
         /\ WF_vars(\E hasDeadline \in BOOLEAN : SendRequest(t, hasDeadline))
         /\ WF_vars(HandleRequest(t)) /\ WF_vars(HandleClosure(t))
         /\ WF_vars(HandleQuit(t))
    /\ WF_vars(ForwardRequest) /\ WF_vars(BrokerExit)
    /\ \A c \in Conns : WF_vars(HandleData(c))
    /\ \A e \in Events, w \in Workers :
         WF_vars(HandleTimeout([ev |-> e, worker |-> w]))
    /\ \A w \in Workers : WF_vars(WorkerStep(w))
    /\ WF_vars(JoinAll) /\ WF_vars(Joined) /\ WF_vars(TermContext)

LocalSpec == Spec /\ LocalFairness

\* In addition, the remote sides keep reading their sockets.
FairSpec == LocalSpec /\ \A c \in Conns : WF_vars(PeerRecv(c))

-----------------------------------------------------------------------------
(* Safety                                                                  *)

Timers == [ev : Events, worker : Workers]
NetMsg == [ev : Events, kind : DataKinds]

\* Every variable has the type that the code gives it.
TypeOK ==
    /\ next_event_id \in 1 .. MaxRequests + 1
    /\ caller \in [Threads -> Events \cup {0}]
    /\ conn \in [Events -> Conns \cup {NoConn}]
    /\ timed \in SUBSET Events
    /\ owner \in [Events -> Owners]
    /\ handled \in [Events -> Seq(Outcomes)]
    /\ fe \in [Threads -> Seq(FrontMsg)]
    /\ broker \in {"loop", "quitting", "stopped"}
    /\ fwd \in Events \cup {0}
    /\ timers \in SUBSET Timers
    /\ out \in [Conns -> Seq(Events)]
    /\ arrived \in SUBSET Events
    /\ answered \in [Events -> SUBSET ReplyKinds]
    /\ replies \in 0 .. MaxReplies
    /\ inb \in [Conns -> Seq(NetMsg)]
    /\ wq \in [Workers -> Seq(WorkerCmd)]
    /\ rmap \in [Workers -> SUBSET Events]
    /\ alive \in [Workers -> BOOLEAN]
    /\ next_closure \in 1 .. MaxClosures + 1
    /\ ran \in [Closures -> Nat]
    /\ phase \in {"running", "join_broker", "join_workers", "term_context", "done"}
    /\ sock \in [Threads -> {"none", "open", "destroyer", "closed"}]
    /\ dropped \in SUBSET Closures

FrontOwned ==
    \A e \in Events, t \in Threads : \A i \in DOMAIN fe[t] :
        InFront(e, t, i) =>
            /\ owner[e] = "frontend"
            /\ \A u \in Threads : \A j \in DOMAIN fe[u] :
                 InFront(e, u, j) => u = t /\ j = i

FwdOwned == fwd # 0 => owner[fwd] = "broker"

StartOwned ==
    \A e \in Events, w \in Workers : \A i \in DOMAIN wq[w] :
        StartAt(e, w, i) =>
            /\ owner[e] = "queue"
            /\ \A v \in Workers : \A j \in DOMAIN wq[v] :
                 StartAt(e, v, j) => v = w /\ j = i

MapOwned ==
    \A e \in Events, w \in Workers :
        e \in rmap[w] => /\ owner[e] = "worker"
                         /\ \A v \in Workers : e \in rmap[v] => v = w

\* connection.hpp: request() "takes the ownership of ctrl", and connection.cc:
\* it "will be deleted on response or timeout in worker thread".  A raw
\* pointer that is still in a message, in send_request(), in a command or in
\* a map never points to a deleted controller, and no two places hold it.
NoDangling == FrontOwned /\ FwdOwned /\ StartOwned /\ MapOwned

\* The converse: a controller that has not been deleted is still held by
\* someone who can run its handler, unless the shutdown has lost it; and none is
\* lost before the broker thread has ended.
NoLeak ==
    \A e \in Events :
        /\ owner[e] = "frontend" =>
             \E t \in Threads : \E i \in DOMAIN fe[t] : InFront(e, t, i)
        /\ owner[e] = "broker" => fwd = e
        /\ owner[e] = "queue" =>
             \E i \in DOMAIN wq[get_worker_index(conn[e])] :
                StartAt(e, get_worker_index(conn[e]), i)
        /\ owner[e] = "worker" => e \in rmap[get_worker_index(conn[e])]
        /\ owner[e] = "lost" => broker = "stopped"

\* The thread that destroys the manager loses nothing of its own: the broker
\* reads all its commands before kQuit, so that none of its requests and
\* closures is destroyed with the frontend socket.
DestroyerServed ==
    \A t \in Threads :
        sock[t] = "destroyer" /\ broker # "loop" => fe[t] = <<>>

\* send_request() registers the timer and forwards the request before it
\* hands the controller to a worker.  Neither the timeout nor a response
\* overtakes it: a worker that meets one has started that rpc, or will have
\* by then, or has finished it.
StartFirst ==
    \A w \in Workers : \A i \in DOMAIN wq[w] :
        wq[w][i].cmd \in {"data", "timeout"} =>
            LET e == wq[w][i].id IN
            \/ e \in rmap[w]
            \/ owner[e] = "deleted"
            \/ \E j \in 1 .. i - 1 : StartAt(e, w, j)

\* Event ids are handed out once, and a request has no controller before its
\* caller has sent one.
IdsFresh ==
    /\ \A e \in Events : e >= next_event_id =>
         owner[e] = "none" /\ \A t \in Threads : caller[t] # e
    /\ \A t \in Threads : caller[t] # 0 =>
         /\ owner[caller[t]] = "none"
         /\ conn[caller[t]] \in Conns
         /\ \A u \in Threads : caller[u] = caller[t] => u = t
    /\ \A e \in Events : owner[e] # "none" => conn[e] \in Conns

HonestQueue ==
    \A w \in Workers : \A i \in DOMAIN wq[w] :
        /\ wq[w][i].cmd = "timeout" => wq[w][i].id \in timed
        /\ wq[w][i].cmd = "data" /\ wq[w][i].kind \in ReplyKinds =>
             wq[w][i].kind \in answered[wq[w][i].id]

\* Nothing is reported that did not happen: a timer or a timeout command
\* belongs to a request with a deadline, a response that is under way was
\* sent by the remote side, and only a request that was made travels.
Honest ==
    /\ \A e \in Events : handled[e] # <<>> => owner[e] = "deleted"
    /\ \A tm \in timers : tm.ev \in timed
    /\ \A c \in Conns : \A i \in DOMAIN out[c] : owner[out[c][i]] # "none"
    /\ \A e \in arrived : owner[e] # "none"
    /\ \A c \in Conns : \A i \in DOMAIN inb[c] :
         inb[c][i].kind \in ReplyKinds => inb[c][i].kind \in answered[inb[c][i].ev]
    /\ HonestQueue

\* The inductive invariant behind NoDangling and the refinement.
IInv == TypeOK /\ IdsFresh /\ NoDangling /\ Honest

\* join_threads() joins the broker before it sends the quit commands: no
\* command is queued behind one, so that a worker leaves nothing undone.
NothingAfterQuit ==
    \A w \in Workers :
        /\ ~alive[w] => wq[w] = <<>>
        /\ \A i \in DOMAIN wq[w] : wq[w][i].cmd = "quit" => i = Len(wq[w])

\* A closure given to manager::add() runs at most once.  One that has not run is
\* still in a queue, or was destroyed with the frontend socket, which happens
\* only to closures of other threads than the one that destroys the manager.
ClosureOnce ==
    /\ \A k \in Closures :
        /\ ran[k] <= 1
        /\ (k < next_closure /\ ran[k] = 0) =>
             \/ k \in ClosuresInFront
             \/ \E w \in Workers : \E i \in DOMAIN wq[w] :
                  wq[w][i].cmd = "closure" /\ wq[w][i].id = k
             \/ k \in dropped
        /\ k \in dropped => ran[k] = 0 /\ broker = "stopped"
    /\ DestroyerServed

-----------------------------------------------------------------------------
(* Refinement: what the caller of request() sees                           *)

CallStatus ==
    [e \in Events |->
        IF handled[e] # <<>> THEN handled[e][Len(handled[e])]
        ELSE IF owner[e] = "none" THEN "idle" ELSE "pending"]

Call == INSTANCE RpcCall WITH Calls <- Events, ReplyKinds <- ReplyKinds,
            status <- CallStatus, deadline <- timed, answers <- answered

\* The detailed system implements the promise of request(): the handler runs
\* at most once, with an answer the remote side gave or with a timeout the
\* caller asked for.
RefinesRpcCall == Call!CallSpec

-----------------------------------------------------------------------------
(* Liveness                                                                *)

\* README.md: requests can carry "deadlines in millisecond resolution".  The
\* handler of a request with a deadline runs, whatever the remote side does,
\* unless the manager is being destroyed.
DeadlineHonoured ==
    \A e \in Events :
        (e \in timed) ~> (handled[e] # <<>> \/ phase # "running")

\* A readable response that has come in completes its request.
ResponseHandled ==
    \A c \in Conns, e \in Events :
        (\E i \in DOMAIN inb[c] : inb[c][i].ev = e /\ inb[c][i].kind \in ReplyKinds)
            ~> (handled[e] # <<>> \/ phase # "running")

\* ~manager() comes to its last step, and returns if no other thread that has
\* used the manager lives on.
ShutdownCompletes ==
    /\ (phase = "join_broker") ~> (phase \in {"term_context", "done"})
    /\ (phase = "term_context" /\ \A t \in Threads : sock[t] # "open") ~> (phase = "done")
=============================================================================
