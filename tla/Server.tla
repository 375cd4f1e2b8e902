------------------------------- MODULE Server -------------------------------
(***************************************************************************)
(* The serving side of rpcz: servers bind and unbind endpoints, the broker *)
(* passes each request to the worker of its connection, the worker's       *)
(* request_handler of that connection dispatches it to a service, and      *)
(* repliers send the answer back through the broker.  server_impl.cc,      *)
(* request_handler.cc, broker_thread.cc, connection.cc and manager.cc are  *)
(* followed call by call.                                                  *)
(*                                                                         *)
(* Abstractions: a method and a payload are good or bad; the pipes are     *)
(* unbounded (Broker has their limits); an answer that the broker sends    *)
(* reaches the client at once.  A service answers a request at most once   *)
(* ("should reply once", replier.hpp), from any thread, at any time, or    *)
(* never.  Shutdown is in Broker: a server holds a manager_ptr.            *)
(***************************************************************************)
EXTENDS Naturals, Sequences, FiniteSets

CONSTANTS
    Threads,      \* application threads, each with one server object
    NoThread,
    WorkerCount,  \* application_options::worker_threads
    Endpoints,    \* endpoints that can be bound
    Senders,      \* identities that ROUTER sockets give to their clients
    NoSender,     \* the sender of a connection_info of a DEALER socket
    Names,        \* names of services
    Singletons,   \* those registered with register_singleton_service()
    Hash,         \* hash_value(connection_info)
    MaxBinds,     \* bound on the ROUTER sockets made
    MaxConnects,  \* bound on the DEALER sockets made
    MaxRequests,  \* bound on the requests of all clients
    MaxRegs       \* bound on connection::register_service() calls

Workers  == 0 .. WorkerCount - 1
Actors   == Threads \cup Workers
Requests == 1 .. MaxRequests
Routers  == 1 .. MaxBinds
Dealers  == 1 .. MaxConnects

\* connection_info: the socket, and for a ROUTER the client.
Conns == [is_router : {TRUE}, index : Routers, sender : Senders]
         \cup [is_router : {FALSE}, index : Dealers, sender : {NoSender}]

ASSUME NothingAssumption == NoThread \notin Threads /\ NoSender \notin Senders
ASSUME SizesAssumption ==
    /\ WorkerCount \in Nat \ {0}
    /\ MaxBinds \in Nat /\ MaxConnects \in Nat
    /\ MaxRequests \in Nat /\ MaxRegs \in Nat
ASSUME HashAssumption == Hash \in [Conns -> Nat]
ASSUME NamesAssumption == Singletons \subseteq Names

VARIABLES
    srv,        \* srv[t]: state of t's server_impl and the endpoint in hand
    eps,        \* eps[t]: server_impl::endpoints_
    names,      \* names[t]: keys of its service_factory_map
    fe,         \* fe[a]: the pipe from a's frontend socket to the broker
    answer,     \* answer[t]: the broker's answers to t's commands
    routers,    \* router_sockets_: endpoint and state
    bind_map,   \* broker_thread::bind_map_
    closing,    \* reactor::del_sockets_: socket and thread waiting, if any
    dealers,    \* number of dealer_sockets_
    factories,  \* router_service_factories, by router index
    inbox,      \* inbox[c]: requests of the peer of c waiting on the socket
    wq,         \* wq[w]: the command queue of worker w
    handlers,   \* handlers[w]: worker w's request_handler_map_
    repliers,   \* requests that a service holds the replier of
    known,      \* connections that application code holds
    asked,      \* requests made so far, with what their client relied on
    outcome,    \* outcome[q]: what became of request q at its handler
    answers,    \* answers[q]: where answers to q were sent
    told,       \* ghost: told[c]: services that the peer of c may rely on
    regd,       \* ghost: who registered which service on which connection
    fault       \* "none", or the undefined or fatal step that was taken

frontVars == <<srv, eps, names, answer, regd>>
sockVars  == <<routers, bind_map, closing, dealers>>
workVars  == <<handlers, outcome>>
vars == <<srv, eps, names, fe, answer, routers, bind_map, closing, dealers,
          factories, inbox, wq, handlers, repliers, known, asked, outcome,
          answers, told, regd, fault>>

-----------------------------------------------------------------------------
Push(q, k, m) == [q EXCEPT ![k] = Append(@, m)]
Pop(q, k)     == [q EXCEPT ![k] = Tail(@)]

\* broker_thread::get_worker_index()
get_worker_index(c) == Hash[c] % WorkerCount

NotClosing == [index |-> 0, sender |-> NoThread]

Init ==
    /\ srv = [t \in Threads |-> [st |-> "live", cur |-> "none"]]
    /\ eps = [t \in Threads |-> {}]
    /\ names = [t \in Threads |-> {}]
    /\ fe = [a \in Actors |-> <<>>]
    /\ answer = [t \in Threads |-> <<>>]
    /\ routers = <<>>
    /\ bind_map = <<>>
    /\ closing = NotClosing
    /\ dealers = 0
    /\ factories = [r \in Routers |-> NoThread]
    /\ inbox = [c \in Conns |-> <<>>]
    /\ wq = [w \in Workers |-> <<>>]
    /\ handlers = [w \in Workers |-> <<>>]
    /\ repliers = {}
    /\ known = {}
    /\ asked = <<>>
    /\ outcome = [q \in Requests |-> "none"]
    /\ answers = [q \in Requests |-> <<>>]
    /\ told = [c \in Conns |-> {}]
    /\ regd = {}
    /\ fault = "none"

-----------------------------------------------------------------------------
(* Application threads                                                     *)

At(t, st) == fault = "none" /\ srv[t].st = st

Goto(t, st, ep) == srv' = [srv EXCEPT ![t] = [st |-> st, cur |-> ep]]

\* A command that the broker answers: send it and wait.
Call(t, st, ep, m) ==
    /\ Goto(t, st, ep)
    /\ fe' = Push(fe, t, m)

\* server::register_service(), register_singleton_service() and
\* register_service_factory().  A name may be registered at any time.
RegisterFactory(t, n) ==
    /\ At(t, "live")
    /\ n \notin names[t]
    /\ names' = [names EXCEPT ![t] = @ \cup {n}]
    /\ UNCHANGED <<srv, eps, fe, answer, sockVars, factories, inbox, wq,
                   workVars, repliers, known, asked, answers, told, regd, fault>>

\* server_impl::bind() and the first half of manager::bind().  An endpoint
\* that is in endpoints_ already is not bound again.
Bind(t, ep) ==
    /\ At(t, "live")
    /\ ep \notin eps[t]
    /\ Len(routers) + Cardinality({u \in Threads : srv[u].st = "binding"}) < MaxBinds
    /\ eps' = [eps EXCEPT ![t] = @ \cup {ep}]
    /\ Call(t, "binding", ep, [cmd |-> "bind", endpoint |-> ep])
    /\ UNCHANGED <<names, answer, sockVars, factories, inbox, wq, workVars,
                   repliers, known, asked, answers, told, regd, fault>>

\* The rest of manager::bind(): only now does the router have factories.
BindReturns(t) ==
    /\ At(t, "binding")
    /\ answer[t] # <<>>
    /\ factories' = [factories EXCEPT ![Head(answer[t])] = t]
    /\ answer' = Pop(answer, t)
    /\ Goto(t, "live", "none")
    /\ UNCHANGED <<eps, names, fe, sockVars, inbox, wq, workVars, repliers,
                   known, asked, answers, told, regd, fault>>

\* ~server_impl(): manager::unbind() of each endpoint, one after the other.
Unbind(t, ep) ==
    /\ At(t, "live") \/ At(t, "destroying")
    /\ ep \in eps[t]
    /\ Call(t, "unbinding", ep, [cmd |-> "unbind", endpoint |-> ep])
    /\ UNCHANGED <<eps, names, answer, sockVars, factories, inbox, wq, workVars,
                   repliers, known, asked, answers, told, regd, fault>>

UnbindReturns(t) ==
    /\ At(t, "unbinding")
    /\ answer[t] # <<>>
    /\ eps' = [eps EXCEPT ![t] = @ \ {srv[t].cur}]
    /\ answer' = Pop(answer, t)
    /\ Goto(t, "destroying", "none")
    /\ UNCHANGED <<names, fe, sockVars, factories, inbox, wq, workVars,
                   repliers, known, asked, answers, told, regd, fault>>

\* ~server_impl() returns.
ServerGone(t) ==
    /\ At(t, "live") \/ At(t, "destroying")
    /\ eps[t] = {}
    /\ Goto(t, "gone", "none")
    /\ UNCHANGED <<eps, names, fe, answer, sockVars, factories, inbox, wq,
                   workVars, repliers, known, asked, answers, told, regd, fault>>

\* The application destroys the services it registered by reference, which
\* server.hpp allows once the server's lifetime has ended.
DestroyServices(t) ==
    /\ At(t, "gone")
    /\ names[t] \cap Singletons # {}
    /\ Goto(t, "services_gone", "none")
    /\ UNCHANGED <<eps, names, fe, answer, sockVars, factories, inbox, wq,
                   workVars, repliers, known, asked, answers, told, regd, fault>>

\* connection::connection(endpoint): connect() sends kConnect and waits.
Connect(t) ==
    /\ At(t, "live")
    /\ dealers + Cardinality({u \in Threads : srv[u].st = "connecting"}) < MaxConnects
    /\ Call(t, "connecting", "none", [cmd |-> "connect"])
    /\ UNCHANGED <<eps, names, answer, sockVars, factories, inbox, wq, workVars,
                   repliers, known, asked, answers, told, regd, fault>>

DealerConn(i) == [is_router |-> FALSE, index |-> i, sender |-> NoSender]

ConnectReturns(t) ==
    /\ At(t, "connecting")
    /\ answer[t] # <<>>
    /\ known' = known \cup {DealerConn(Head(answer[t]))}
    /\ answer' = Pop(answer, t)
    /\ Goto(t, "live", "none")
    /\ UNCHANGED <<eps, names, fe, sockVars, factories, inbox, wq, workVars,
                   repliers, asked, answers, told, regd, fault>>

-----------------------------------------------------------------------------
(* Calls on a connection, by a service in a worker or by the application   *)

\* a can call a method of connection c: it is the worker that runs the
\* services of c, or a thread that is not inside bind(), unbind() or connect().
CanUse(a, c) ==
    /\ fault = "none"
    /\ IF a \in Threads THEN srv[a].st \notin {"binding", "unbinding", "connecting"}
                        ELSE a = get_worker_index(c)

\* What a peer may rely on when it hears from a: a's earlier registrations.
RegisteredBy(a, c) == {n \in Names : [by |-> a, conn |-> c, name |-> n] \in regd}

\* connection::register_service()
Register(a, c, n) ==
    /\ CanUse(a, c)
    /\ c \in known
    /\ Cardinality(regd) < MaxRegs
    /\ regd' = regd \cup {[by |-> a, conn |-> c, name |-> n]}
    /\ fe' = Push(fe, a, [cmd |-> "register", conn |-> c, name |-> n])
    /\ UNCHANGED <<srv, eps, names, answer, sockVars, factories, inbox, wq,
                   workVars, repliers, known, asked, answers, told, fault>>

ReplyMsg(a, r) == [cmd |-> "reply", conn |-> r.conn, ev |-> r.ev, q |-> r.q,
                   tells |-> RegisteredBy(a, r.conn)]

\* replier::reply() or reply_error() of a service: connection::reply().
Reply(a, r) ==
    /\ CanUse(a, r.conn)
    /\ r \in repliers
    /\ repliers' = repliers \ {r}
    /\ fe' = Push(fe, a, ReplyMsg(a, r))
    /\ UNCHANGED <<frontVars, sockVars, factories, inbox, wq, workVars, known,
                   asked, answers, told, fault>>

\* connection::request() on a DEALER connection, once it has something to tell.
Request(a, c) ==
    /\ CanUse(a, c)
    /\ c \in known
    /\ ~c.is_router
    /\ ~ (RegisteredBy(a, c) \subseteq told[c])
    /\ \A i \in DOMAIN fe[a] : fe[a][i].cmd # "request"
    /\ fe' = Push(fe, a, [cmd |-> "request", conn |-> c, tells |-> RegisteredBy(a, c)])
    /\ UNCHANGED <<frontVars, sockVars, factories, inbox, wq, workVars,
                   repliers, known, asked, answers, told, fault>>

-----------------------------------------------------------------------------
(* Clients                                                                 *)

Open(c) == IF c.is_router THEN c.index <= Len(routers) /\ routers[c.index].st # "deleted"
                          ELSE c.index <= dealers

RouterNames(r) == IF factories[r] = NoThread THEN {} ELSE names[factories[r]]

AskedOn(c) == {q \in DOMAIN asked : asked[q].conn = c}

\* The peer of c makes a request.  The first time, it may rely on the services
\* of a router whose bind() has returned.
ClientSend(c, n) ==
    LET first  == IF c.is_router /\ AskedOn(c) = {} /\ c \notin known
                  THEN RouterNames(c.index) ELSE {}
        relied == told[c] \cup first
        r == [q |-> Len(asked) + 1, conn |-> c, name |-> n,
              ev |-> Cardinality(AskedOn(c)) + 1, due |-> n \in relied]
    IN
    /\ fault = "none"
    /\ Open(c)
    /\ Len(asked) < MaxRequests
    /\ asked' = Append(asked, r)
    /\ inbox' = Push(inbox, c, r)
    /\ told' = [told EXCEPT ![c] = relied]
    /\ UNCHANGED <<frontVars, fe, sockVars, factories, wq, workVars, repliers,
                   known, answers, fault>>

-----------------------------------------------------------------------------
(* The broker thread                                                       *)

\* handle_frontend_socket(): the frontend is the first socket of a round, so
\* a socket that an unbind has put in del_sockets_ is deleted before the next
\* command is read.
Front(a, cmd) ==
    /\ fault = "none"
    /\ closing = NotClosing
    /\ fe[a] # <<>>
    /\ Head(fe[a]).cmd = cmd
    /\ fe' = Pop(fe, a)

AnswerOnlyIndexes(t, v) == IF v = 0 THEN answer ELSE Push(answer, t, v)

\* send_string(), send_empty_message() and the index, as one message to t.
Answer(t, v) == Push(answer, t, v)

ForgetBind(ep, index) == bind_map

RecordBind(ep, index) ==
    [e \in DOMAIN bind_map \cup {ep} |-> IF e = ep THEN index ELSE bind_map[e]]

InUse(ep) == \E r \in DOMAIN routers : routers[r].endpoint = ep /\ routers[r].st = "open"

\* handle_bind_command(): bind() throws for an address that is in use, here, in
\* another process or by a socket that zmq is still closing, and for a bad
\* endpoint, and nothing in the broker thread catches it.  An endpoint stands for one
\* address: with a wildcard for the port a second bind() would get another one, and
\* its entry in bind_map_ would replace the first.
HandleBind(t) ==
    LET ep == Head(fe[t]).endpoint
        index == Len(routers) + 1
    IN
    /\ Front(t, "bind")
    /\ \/ /\ ~InUse(ep)
          /\ routers' = Append(routers, [endpoint |-> ep, st |-> "open"])
          /\ bind_map' = RecordBind(ep, index)
          /\ answer' = Answer(t, index)
          /\ UNCHANGED fault
       \/ /\ fault' = "bind_throws"
          /\ UNCHANGED <<routers, bind_map, answer>>
    /\ UNCHANGED <<srv, eps, names, regd, closing, dealers, factories, inbox, wq,
                   workVars, repliers, known, asked, answers, told>>

\* handle_unbind_command(): an endpoint that bind_map_ does not have is not
\* answered.
HandleUnbind(t) ==
    LET ep == Head(fe[t]).endpoint IN
    /\ Front(t, "unbind")
    /\ IF ep \in DOMAIN bind_map
         THEN /\ closing' = [index |-> bind_map[ep], sender |-> t]
              /\ bind_map' = [e \in DOMAIN bind_map \ {ep} |-> bind_map[e]]
         ELSE UNCHANGED <<closing, bind_map>>
    /\ UNCHANGED <<frontVars, routers, dealers, factories, inbox, wq, workVars,
                   repliers, known, asked, answers, told, fault>>

SocketKept(i) == routers

SocketFreed(i) == [routers EXCEPT ![i].st = "deleted"]

\* The reactor deletes the socket, with what it has not delivered, and runs
\* handle_socket_deleted(), which answers unbind().
SocketDeleted ==
    LET i == closing.index IN
    /\ fault = "none"
    /\ closing # NotClosing
    /\ routers' = SocketFreed(i)
    /\ inbox' = [c \in Conns |-> IF c.is_router /\ c.index = i THEN <<>> ELSE inbox[c]]
    /\ answer' = Answer(closing.sender, 0)
    /\ closing' = NotClosing
    /\ UNCHANGED <<srv, eps, names, regd, fe, bind_map, dealers, factories, wq,
                   workVars, repliers, known, asked, answers, told, fault>>

\* dealer_sockets_.size() - 1 after the push_back(); index 0 is reserved.
dealer_index == dealers + 1

\* handle_connect_command(): connect() throws for a bad endpoint, which nothing
\* catches either.
HandleConnect(t) ==
    /\ Front(t, "connect")
    /\ \/ /\ dealers' = dealers + 1
          /\ answer' = Answer(t, dealer_index)
          /\ UNCHANGED fault
       \/ fault' = "connect_throws" /\ UNCHANGED <<dealers, answer>>
    /\ UNCHANGED <<srv, eps, names, regd, routers, bind_map, closing, factories,
                   inbox, wq, workVars, repliers, known, asked, answers, told>>

\* is_connection_info_legal()
Legal(c) == c.index \in 1 .. (IF c.is_router THEN Len(routers) ELSE dealers)

\* send_reply(): forward_to() uses the socket of the router index, whether or
\* not the reactor has deleted it.
HandleReply(a) ==
    LET m == Head(fe[a]) IN
    /\ Front(a, "reply")
    /\ IF Open(m.conn)
         THEN /\ answers' = Push(answers, m.q, <<m.conn, m.ev>>)
              /\ told' = [told EXCEPT ![m.conn] = @ \cup m.tells]
              /\ UNCHANGED fault
         ELSE fault' = "dead_socket" /\ UNCHANGED <<answers, told>>
    /\ UNCHANGED <<frontVars, sockVars, factories, inbox, wq, workVars,
                   repliers, known, asked>>

\* send_request() as the peer sees it; Broker has the rest.
HandleRequestOut(a) ==
    LET m == Head(fe[a]) IN
    /\ Front(a, "request")
    /\ told' = [told EXCEPT ![m.conn] = @ \cup m.tells]
    /\ UNCHANGED <<frontVars, sockVars, factories, inbox, wq, workVars,
                   repliers, known, asked, answers, fault>>

RegisterAnywhere(m) == \E w \in Workers : wq' = Push(wq, w, m)

\* workers_commander::register_svc(): the service goes to its connection's worker.
register_svc(m) == wq' = Push(wq, get_worker_index(m.conn), m)

\* broker_thread::register_service()
HandleRegister(a) ==
    LET m == Head(fe[a]) IN
    /\ Front(a, "register")
    /\ register_svc(m)
    /\ UNCHANGED <<frontVars, sockVars, factories, inbox, workVars, repliers,
                   known, asked, answers, told, fault>>

HandleSocketIfRouter(c, r) ==
    IF c.is_router THEN Push(wq, get_worker_index(c), [cmd |-> "data", r |-> r]) ELSE wq

\* handle_socket(): the request goes to the connection's worker.
handle_socket(c, r) == Push(wq, get_worker_index(c), [cmd |-> "data", r |-> r])

\* handle_router_socket() or handle_dealer_socket()
HandleData(c) ==
    /\ fault = "none"
    /\ inbox[c] # <<>>
    /\ wq' = handle_socket(c, Head(inbox[c]))
    /\ inbox' = Pop(inbox, c)
    /\ UNCHANGED <<frontVars, fe, sockVars, factories, workVars, repliers,
                   known, asked, answers, told, fault>>

-----------------------------------------------------------------------------
(* Worker threads                                                          *)

\* request_handler::create_services(): only a ROUTER connection makes services
\* from factories, those that its router has by now.
create_services(c) ==
    [n \in Names |-> IF ~c.is_router \/ n \notin RouterNames(c.index) THEN "none"
                     ELSE IF n \in Singletons THEN "singleton" ELSE "own"]

\* request_handler_map::get_handler() and insert_new_handler()
get_handler(w, c) == IF c \in DOMAIN handlers[w] THEN handlers[w][c]
                                                 ELSE create_services(c)

Store(w, c, h) ==
    handlers' = [handlers EXCEPT ![w] =
                    [d \in DOMAIN handlers[w] \cup {c} |-> IF d = c THEN h ELSE handlers[w][d]]]

WorkerHead(w, cmd) ==
    /\ fault = "none"
    /\ wq[w] # <<>>
    /\ Head(wq[w]).cmd = cmd
    /\ wq' = Pop(wq, w)

\* worker::register_service(), request_handler::register_service()
RegisterService(w) ==
    LET m == Head(wq[w]) IN
    /\ WorkerHead(w, "register")
    /\ Store(w, m.conn, [get_handler(w, m.conn) EXCEPT ![m.name] = "registered"])
    /\ UNCHANGED <<frontVars, fe, sockVars, factories, inbox, repliers, known,
                   asked, outcome, answers, told, fault>>

ReplyErrorThenGoOn(w, r, o) ==
    /\ fe' = Push(fe, w, ReplyMsg(w, r))
    /\ outcome' = [outcome EXCEPT ![r.q] = o]
    /\ repliers' = repliers \cup {[conn |-> r.conn, ev |-> r.ev, q |-> r.q]}
    /\ UNCHANGED <<known, fault>>

\* replier::reply_error() by the library, in the worker.
ReplyError(w, r, o) ==
    /\ fe' = Push(fe, w, ReplyMsg(w, r))
    /\ outcome' = [outcome EXCEPT ![r.q] = o]
    /\ UNCHANGED <<repliers, known, fault>>

\* cpp_service::dispatch_request(): an unknown method or a payload that does
\* not parse is answered here, anything else is up to the service.
DispatchRequest(w, r) ==
    \/ ReplyError(w, r, "bad_request")
    \/ /\ outcome' = [outcome EXCEPT ![r.q] = "served"]
       /\ repliers' = repliers \cup {[conn |-> r.conn, ev |-> r.ev, q |-> r.q]}
       /\ known' = known \cup {r.conn}
       /\ UNCHANGED <<fe, fault>>

ServiceDead(c) == srv[factories[c.index]].st = "services_gone"

\* worker::handle_request(), request_handler::handle_request()
HandleRequest(w) ==
    LET r == Head(wq[w]).r
        h == get_handler(w, r.conn)
    IN
    /\ WorkerHead(w, "data")
    /\ Store(w, r.conn, h)
    /\ CASE h[r.name] = "none" -> ReplyError(w, r, "no_such_service")
         [] h[r.name] = "singleton" /\ ServiceDead(r.conn) ->
               fault' = "dead_service" /\ UNCHANGED <<fe, outcome, repliers, known>>
         [] OTHER -> DispatchRequest(w, r)
    /\ UNCHANGED <<frontVars, sockVars, factories, inbox, asked, answers, told>>

-----------------------------------------------------------------------------
ThreadStep(t) ==
    \/ BindReturns(t) \/ UnbindReturns(t) \/ ConnectReturns(t)
    \/ srv[t].st = "destroying" /\ (ServerGone(t) \/ \E ep \in Endpoints : Unbind(t, ep))

FrontStep(a) ==
    \/ a \in Threads /\ (HandleBind(a) \/ HandleUnbind(a) \/ HandleConnect(a))
    \/ HandleReply(a) \/ HandleRequestOut(a) \/ HandleRegister(a)

WorkerStep(w) == RegisterService(w) \/ HandleRequest(w)

Next ==
    \/ \E t \in Threads :
          \/ BindReturns(t) \/ UnbindReturns(t) \/ ConnectReturns(t)
          \/ ServerGone(t) \/ DestroyServices(t) \/ Connect(t)
          \/ \E ep \in Endpoints : Bind(t, ep) \/ Unbind(t, ep)
          \/ \E n \in Names : RegisterFactory(t, n)
          \/ HandleBind(t) \/ HandleUnbind(t) \/ HandleConnect(t)
    \/ \E a \in Actors :
          \/ HandleReply(a) \/ HandleRequestOut(a) \/ HandleRegister(a)
          \/ \E r \in repliers : Reply(a, r)
          \/ \E c \in known : Request(a, c) \/ \E n \in Names : Register(a, c, n)
    \/ SocketDeleted
    \/ \E c \in Conns : HandleData(c) \/ \E n \in Names : ClientSend(c, n)
    \/ \E w \in Workers : RegisterService(w) \/ HandleRequest(w)

Spec == Init /\ [][Next]_vars

\* Every thread keeps running: loop() serves every ready socket in each round,
\* the frontend reads its pipes in turn, a worker pops its queue.
FairSpec ==
    /\ Spec
    /\ \A t \in Threads : WF_vars(ThreadStep(t))
    /\ \A a \in Actors : WF_vars(FrontStep(a))
    /\ \A c \in Conns : WF_vars(HandleData(c))
    /\ WF_vars(SocketDeleted)
    /\ \A w \in Workers : WF_vars(WorkerStep(w))

-----------------------------------------------------------------------------
ReqRec == [q : Requests, conn : Conns, name : Names, ev : Requests, due : BOOLEAN]
Replier == [conn : Conns, ev : Requests, q : Requests]
FrontCmd ==
    [cmd : {"bind", "unbind"}, endpoint : Endpoints] \cup [cmd : {"connect"}]
    \cup [cmd : {"register"}, conn : Conns, name : Names]
    \cup [cmd : {"request"}, conn : Conns, tells : SUBSET Names]
    \cup [cmd : {"reply"}, conn : Conns, ev : Requests, q : Requests, tells : SUBSET Names]
WorkCmd == [cmd : {"data"}, r : ReqRec] \cup [cmd : {"register"}, conn : Conns, name : Names]

\* The values of the variables.
TypeOK ==
    /\ srv \in [Threads -> [st : {"live", "binding", "unbinding", "destroying", "gone",
                                  "services_gone", "connecting"},
                            cur : Endpoints \cup {"none"}]]
    /\ eps \in [Threads -> SUBSET Endpoints]
    /\ names \in [Threads -> SUBSET Names]
    /\ \A a \in Actors : \A i \in DOMAIN fe[a] : fe[a][i] \in FrontCmd
    /\ \A t \in Threads : Len(answer[t]) <= 1
    /\ Len(routers) <= MaxBinds
    /\ DOMAIN bind_map \subseteq Endpoints
    /\ closing \in [index : Routers, sender : Threads] \cup {NotClosing}
    /\ dealers \in 0 .. MaxConnects
    /\ factories \in [Routers -> Threads \cup {NoThread}]
    /\ \A c \in Conns : \A i \in DOMAIN inbox[c] : inbox[c][i] \in ReqRec
    /\ \A w \in Workers : \A i \in DOMAIN wq[w] : wq[w][i] \in WorkCmd
    /\ \A w \in Workers : \A c \in DOMAIN handlers[w] :
          handlers[w][c] \in [Names -> {"none", "singleton", "own", "registered"}]
    /\ repliers \subseteq Replier
    /\ known \subseteq Conns
    /\ outcome \in [Requests -> {"none", "served", "bad_request", "no_such_service"}]
    /\ told \in [Conns -> SUBSET Names]
    /\ fault \in {"none", "bind_throws", "connect_throws", "dead_socket", "dead_service"}

NoAddress == <<>>

\* The connection and the event id that each request came with.
Origin == [q \in Requests |-> IF q \in DOMAIN asked THEN <<asked[q].conn, asked[q].ev>>
                                                    ELSE NoAddress]

Serve == INSTANCE RpcServe WITH Addresses <- Conns \X Requests, origin <- Origin

\* A request is answered at most once, on the connection and with the event id
\* it came with: handle_request() either replies with an error and returns, or
\* leaves the answer to one service, and the connection_info that travels
\* with each reply is the request's.
RefinesRpcServe == Serve!ServeSpec

\* A client is never told NO_SUCH_SERVICE for a service it could rely on: one
\* that was registered before bind() returned and before its first request, or
\* one that register_service() put on the connection before the message that
\* the client has seen.  The registration and the request meet in the queue
\* of one worker, in that order.
NotRefused ==
    \A q \in DOMAIN asked : asked[q].due => outcome[q] # "no_such_service"

\* Commands are legal when the broker reads them: handle_unbind_command() does
\* not answer for an endpoint it does not know, and manager::unbind() waits for
\* the answer, so every unbind names an endpoint that is in bind_map_; and the
\* assertions of send_reply(), send_request() and register_service() about the
\* index of a connection hold.
CommandsLegal ==
    fault = "none" =>
        \A a \in Actors : \A i \in DOMAIN fe[a] :
            /\ fe[a][i].cmd = "unbind" => fe[a][i].endpoint \in DOMAIN bind_map
            /\ fe[a][i].cmd \in {"reply", "request", "register"} => Legal(fe[a][i].conn)

\* When ~server() returns, its sockets are deleted and no request of theirs
\* waits for the broker: unbind() is answered only after the deletion.
GoneIsSilent ==
    \A t \in Threads : srv[t].st \in {"gone", "services_gone"} =>
        \A c \in Conns : c.is_router /\ factories[c.index] = t =>
            ~Open(c) /\ inbox[c] = <<>>

\* bind() and connection() return and ~server() comes to its end, as each of
\* their commands is answered, unless something takes the process down.
CommandsAnswered ==
    \A t \in Threads :
        /\ srv[t].st \in {"binding", "connecting"} ~> (srv[t].st = "live" \/ fault # "none")
        /\ srv[t].st \in {"unbinding", "destroying"} ~>
              (srv[t].st \in {"gone", "services_gone"} \/ fault # "none")

\* A request reaches its handler, unless its socket is deleted first.
RequestHandled ==
    \A q \in Requests : (q \in DOMAIN asked) ~>
        (outcome[q] # "none" \/ fault # "none" \/ (q \in DOMAIN asked /\ ~Open(asked[q].conn)))

\* A singleton service that lives as long as its server is not used after that.
NoDeadService == fault # "dead_service"
=============================================================================
