---------------------------- MODULE ServerProofs ----------------------------
(***************************************************************************)
(* Proofs about Server for every number of servers, endpoints, clients,    *)
(* workers, requests and registrations.                                    *)
(***************************************************************************)
EXTENDS Server, QueueFacts, FiniteSetTheorems

-----------------------------------------------------------------------------
(* The inductive invariant                                                 *)

States == {"live", "binding", "unbinding", "destroying", "gone", "services_gone", "connecting"}

\* The commands that a thread waits for the answer of.
WaitCmds == {"bind", "unbind", "connect"}

Services == [Names -> {"none", "singleton", "own", "registered"}]

RouterRec == [endpoint : Endpoints, st : {"open", "deleted"}]

ServeTypes ==
    /\ srv \in [Threads -> [st : States, cur : Endpoints \cup {"none"}]]
    /\ eps \in [Threads -> SUBSET Endpoints]
    /\ names \in [Threads -> SUBSET Names]
    /\ fe \in [Actors -> Seq(FrontCmd)]
    /\ answer \in [Threads -> Seq(Nat)]
    /\ routers \in Seq(RouterRec)
    /\ DOMAIN bind_map \subseteq Endpoints /\ \A ep \in DOMAIN bind_map : bind_map[ep] \in Nat
    /\ closing \in [index : Nat, sender : Threads] \cup {NotClosing}
    /\ dealers \in Nat
    /\ factories \in [Routers -> Threads \cup {NoThread}]
    /\ inbox \in [Conns -> Seq(ReqRec)]
    /\ wq \in [Workers -> Seq(WorkCmd)]
    /\ handlers \in [Workers -> UNION {[D -> Services] : D \in SUBSET Conns}]
    /\ repliers \subseteq Replier
    /\ known \subseteq Conns
    /\ asked \in Seq(ReqRec) /\ Len(asked) <= MaxRequests
    /\ outcome \in [Requests -> {"none", "served", "bad_request", "no_such_service"}]
    /\ answers \in [Requests -> Seq(Conns \X Requests)]
    /\ told \in [Conns -> SUBSET Names]
    /\ regd \subseteq [by : Actors, conn : Conns, name : Names]
    /\ fault \in {"none", "bind_throws", "connect_throws", "dead_socket", "dead_service"}

\* The command i of a is one that thread a waits in, and it is the only one.
Waited(a, i) ==
    /\ a \in Threads
    /\ fe[a][i].cmd = "connect" => srv[a].st = "connecting"
    /\ fe[a][i].cmd = "bind" => srv[a].st = "binding" /\ fe[a][i].endpoint = srv[a].cur
    /\ fe[a][i].cmd = "unbind" => srv[a].st = "unbinding" /\ fe[a][i].endpoint = srv[a].cur
    /\ answer[a] = <<>> /\ closing.sender # a
    /\ \A j \in DOMAIN fe[a] : fe[a][j].cmd \in WaitCmds => j = i

\* The answer that t has is the one it waits for.
Answered(t) ==
    /\ Len(answer[t]) = 1
    /\ srv[t].st \in {"binding", "unbinding", "connecting"}
    /\ srv[t].st = "connecting" => answer[t][1] \in 1 .. dealers

\* A thread has at most one command under way that it waits for: the command
\* itself, the socket that is being deleted for it, or its answer.
OneCommand ==
    /\ \A a \in Actors : \A i \in DOMAIN fe[a] : fe[a][i].cmd \in WaitCmds => Waited(a, i)
    /\ closing # NotClosing =>
         srv[closing.sender].st = "unbinding" /\ answer[closing.sender] = <<>>
    /\ \A t \in Threads : answer[t] # <<>> => Answered(t)
    /\ \A t \in Threads : srv[t].st \in {"binding", "unbinding"} => srv[t].cur \in eps[t]

\* Threads in connect(), and those whose socket the broker has not made yet.
Connecting == {u \in Threads : srv[u].st = "connecting"}
Unconnected == {u \in Threads : srv[u].st = "connecting" /\ answer[u] = <<>>}

\* There is room for the sockets of those that wait for one.
DealerRoom ==
    /\ IsFiniteSet(Connecting)
    /\ dealers + Cardinality(Unconnected) <= MaxConnects

\* The broker has bound ep for t, and has not begun to unbind it.
Bound(t, ep) ==
    /\ ep \in eps[t]
    /\ ~(srv[t].st = "binding" /\ srv[t].cur = ep /\ answer[t] = <<>>)
    /\ ~(srv[t].st = "unbinding" /\ srv[t].cur = ep /\ (answer[t] # <<>> \/ closing.sender = t))

\* The entries of bind_map_ are the open sockets, apart from the one that the
\* reactor is about to delete.
BindMap ==
    /\ \A ep \in DOMAIN bind_map :
         /\ bind_map[ep] \in 1 .. Len(routers)
         /\ routers[bind_map[ep]].endpoint = ep /\ routers[bind_map[ep]].st = "open"
         /\ bind_map[ep] # closing.index
    /\ \A t \in Threads, ep \in Endpoints : Bound(t, ep) => ep \in DOMAIN bind_map
    /\ \A t, u \in Threads, ep \in Endpoints : Bound(t, ep) /\ Bound(u, ep) => t = u
    /\ closing # NotClosing => closing.index \in 1 .. Len(routers)

\* The socket i that t has bound is in bind_map_ until the broker unbinds it.
OwnSocket(t, i) ==
    /\ routers[i].endpoint \in DOMAIN bind_map /\ bind_map[routers[i].endpoint] = i
    /\ Bound(t, routers[i].endpoint)

\* The socket that bind() is about to return is t's, and has no factories yet.
Returning(t) ==
    /\ answer[t][1] \in 1 .. Len(routers) /\ OwnSocket(t, answer[t][1])
    /\ answer[t][1] \in Routers => factories[answer[t][1]] = NoThread

\* The socket i is its owner's, or is being deleted for it, or is deleted.
OwnerOf(i) ==
    /\ i <= Len(routers)
    /\ routers[i].st = "open" => \/ closing.index = i /\ closing.sender = factories[i]
                                 \/ OwnSocket(factories[i], i)

\* A router has factories only after its bind() has returned, for good.
Owners ==
    /\ \A t \in Threads : srv[t].st = "binding" /\ answer[t] # <<>> => Returning(t)
    /\ \A i \in Routers : factories[i] # NoThread => OwnerOf(i)

\* What waits on a socket came while it was open.
ClosedEmpty == \A c \in Conns : inbox[c] # <<>> => Open(c)

\* Connections that the application or a request knows have had a socket.
KnownLegal ==
    /\ \A c \in known : Legal(c)
    /\ \A q \in DOMAIN asked : Legal(asked[q].conn)

\* r is a request that was made, or carries the address of one.
Made(r) == r.q \in DOMAIN asked /\ r = asked[r.q]
AddressOf(r) ==
    r.q \in DOMAIN asked /\ r.conn = asked[r.q].conn /\ r.ev = asked[r.q].ev

\* A request stays what it was, on its socket and with the worker of its
\* connection; what carries its answer is addressed as it was.
SocketsMade == \A c \in Conns : \A i \in DOMAIN inbox[c] : Made(inbox[c][i]) /\ inbox[c][i].conn = c
QueuesMade ==
    \A w \in Workers : \A i \in DOMAIN wq[w] : wq[w][i].cmd = "data" =>
        Made(wq[w][i].r) /\ w = get_worker_index(wq[w][i].r.conn)
PipesMade ==
    \A a \in Actors : \A i \in DOMAIN fe[a] : fe[a][i].cmd = "reply" => AddressOf(fe[a][i])

\* A request is answered or has an outcome only after it was made.
Addressed ==
    /\ \A q \in DOMAIN asked : asked[q].q = q
    /\ SocketsMade /\ QueuesMade /\ PipesMade
    /\ \A r \in repliers : AddressOf(r)
    /\ \A q \in Requests : answers[q] # <<>> \/ outcome[q] # "none" => q \in DOMAIN asked

\* Where a request can be: on its socket, in a worker's queue, in the hands of
\* a service, in a reply command, or answered.
Place(sort, k, i, q) ==
    \/ sort = "socket" /\ k \in Conns /\ i \in DOMAIN inbox[k] /\ inbox[k][i].q = q
    \/ sort = "worker" /\ k \in Workers /\ i \in DOMAIN wq[k] /\ wq[k][i].cmd = "data"
       /\ wq[k][i].r.q = q
    \/ sort = "service" /\ k \in repliers /\ i = 1 /\ k.q = q
    \/ sort = "reply" /\ k \in Actors /\ i \in DOMAIN fe[k] /\ fe[k][i].cmd = "reply"
       /\ fe[k][i].q = q
    \/ sort = "answered" /\ k = q /\ i = 1 /\ q \in Requests /\ answers[q] # <<>>

\* A request is in one place.
OnePlace ==
    \A q, s1, k1, i1, s2, k2, i2 :
        Place(s1, k1, i1, q) /\ Place(s2, k2, i2, q) => s1 = s2 /\ k1 = k2 /\ i1 = i2

\* The handler of connection c has service n, or will have it when it is made.
Has(c, n)  == /\ c \in DOMAIN handlers[get_worker_index(c)]
              /\ handlers[get_worker_index(c)][c][n] # "none"
Will(c, n) == /\ c \notin DOMAIN handlers[get_worker_index(c)]
              /\ c.is_router /\ n \in RouterNames(c.index)

\* The command that registers n on c is in a's pipe, or in w's queue.
AsksFor(a, i, c, n) ==
    /\ i \in DOMAIN fe[a] /\ fe[a][i].cmd = "register"
    /\ fe[a][i].conn = c /\ fe[a][i].name = n
Queued(w, i, c, n) ==
    /\ i \in DOMAIN wq[w] /\ wq[w][i].cmd = "register"
    /\ wq[w][i].conn = c /\ wq[w][i].name = n

Registered(c, n) ==
    Has(c, n) \/ \E i \in DOMAIN wq[get_worker_index(c)] : Queued(get_worker_index(c), i, c, n)

\* A registration that was made is with the worker, or on its way to it.
RegsKept ==
    \A r \in regd : \/ Registered(r.conn, r.name)
                    \/ \E i \in DOMAIN fe[r.by] : AsksFor(r.by, i, r.conn, r.name)

\* What a message tells of goes ahead of it in the pipe.
TellsKept ==
    \A a \in Actors : \A i \in DOMAIN fe[a] : fe[a][i].cmd \in {"reply", "request"} =>
        \A n \in fe[a][i].tells :
            \/ Registered(fe[a][i].conn, n)
            \/ \E j \in DOMAIN fe[a] : j < i /\ AsksFor(a, j, fe[a][i].conn, n)

\* What a client relies on is with the worker, or will be made there.
ToldKept == \A c \in Conns : \A n \in told[c] : Registered(c, n) \/ Will(c, n)

\* A request that is due names something its client relies on.
DueTold ==
    \A c \in Conns : \A i \in DOMAIN inbox[c] : inbox[c][i].due => inbox[c][i].name \in told[c]

\* And it comes after that in the worker's queue.
DueServed(w, i, c, n) ==
    Has(c, n) \/ Will(c, n) \/ \E j \in DOMAIN wq[w] : j < i /\ Queued(w, j, c, n)
DueQueued ==
    \A w \in Workers : \A i \in DOMAIN wq[w] : wq[w][i].cmd = "data" /\ wq[w][i].r.due =>
        DueServed(w, i, wq[w][i].r.conn, wq[w][i].r.name)

\* What a client relies on is there before its request is: a registration goes
\* ahead of what tells of it, in the pipe and in the worker's queue.
Relied == RegsKept /\ TellsKept /\ ToldKept /\ DueTold /\ DueQueued

\* A server that is gone has unbound all of its endpoints.
GoneEmpty == \A t \in Threads : srv[t].st \in {"gone", "services_gone"} => eps[t] = {}

\* A connection has a handler or a registration only if somebody knows it or
\* it was asked on.
HandlersKnown ==
    /\ \A w \in Workers : \A c \in DOMAIN handlers[w] : c \in known \/ AskedOn(c) # {}
    /\ \A w \in Workers : \A i \in DOMAIN wq[w] : wq[w][i].cmd = "register" => wq[w][i].conn \in known
    /\ \A a \in Actors : \A i \in DOMAIN fe[a] : fe[a][i].cmd \in {"register", "request"} =>
         fe[a][i].conn \in known

\* A fault ends the behaviour; until then all of this holds.
Calm ==
    /\ OneCommand /\ DealerRoom /\ BindMap /\ Owners /\ ClosedEmpty /\ GoneEmpty
    /\ KnownLegal /\ Addressed /\ OnePlace /\ Relied /\ HandlersKnown

ServeInv ==
    /\ ServeTypes /\ NotRefused /\ CommandsLegal /\ GoneIsSilent
    /\ fault = "none" => Calm

-----------------------------------------------------------------------------
(* Commands and queues                                                     *)

\* Push adds one message at the end of one queue.
LEMMA PushFacts ==
    ASSUME NEW K, NEW S, NEW q \in [K -> Seq(S)], NEW k \in K, NEW m \in S
    PROVE  Push(q, k, m) \in [K -> Seq(S)] /\ Pushed(q, Push(q, k, m), K, k, m)
BY Appended DEF Push, With

\* Pop removes the first message of one queue and shifts the others.
LEMMA PopFacts ==
    ASSUME NEW K, NEW S, NEW q \in [K -> Seq(S)], NEW k \in K, q[k] # <<>>
    PROVE  /\ Pop(q, k) \in [K -> Seq(S)]
           /\ Popped(q, Pop(q, k), K, k)
           /\ Head(q[k]) \in S
BY Removed DEF Pop, Without

\* A connection's requests and registrations go to an existing worker.
LEMMA ConnWorker ==
    ASSUME NEW c \in Conns
    PROVE  get_worker_index(c) \in Workers
<1>1. Hash[c] \in Nat
  BY HashAssumption
<1> QED BY <1>1, SizesAssumption DEF get_worker_index, Workers

\* The fields that each command to the broker has.
LEMMA FrontFields ==
    ASSUME NEW m \in FrontCmd
    PROVE  /\ m.cmd \in {"bind", "unbind", "connect", "register", "request", "reply"}
           /\ m.cmd \in {"bind", "unbind"} => m.endpoint \in Endpoints
           /\ m.cmd = "register" => m.conn \in Conns /\ m.name \in Names
           /\ m.cmd = "request" => m.conn \in Conns /\ m.tells \in SUBSET Names
           /\ m.cmd = "reply" => /\ m.conn \in Conns /\ m.ev \in Requests /\ m.q \in Requests
                                 /\ m.tells \in SUBSET Names
BY DEF FrontCmd

\* The fields that each command to a worker has.
LEMMA WorkFields ==
    ASSUME NEW m \in WorkCmd
    PROVE  /\ m.cmd \in {"data", "register"}
           /\ m.cmd = "data" => m.r \in ReqRec
           /\ m.cmd = "register" => m.conn \in Conns /\ m.name \in Names
BY DEF WorkCmd

\* A command is appended to a pipe.
LEMMA Sent ==
    ASSUME ServeTypes, NEW a \in Actors, NEW m \in FrontCmd, fe' = Push(fe, a, m)
    PROVE  fe' \in [Actors -> Seq(FrontCmd)] /\ Pushed(fe, fe', Actors, a, m)
<1>1. fe \in [Actors -> Seq(FrontCmd)]
  BY DEF ServeTypes
<1> QED BY <1>1, PushFacts

\* The broker reads the first command of a pipe.
LEMMA Read ==
    ASSUME ServeTypes, NEW a \in Actors, NEW cmd, Front(a, cmd)
    PROVE  /\ fault = "none" /\ closing = NotClosing
           /\ fe' \in [Actors -> Seq(FrontCmd)] /\ Popped(fe, fe', Actors, a)
           /\ 1 \in DOMAIN fe[a] /\ Head(fe[a]) = fe[a][1]
           /\ fe[a][1].cmd = cmd /\ fe[a][1] \in FrontCmd
<1>1. fe \in [Actors -> Seq(FrontCmd)] /\ fe[a] # <<>> /\ fe' = Pop(fe, a)
  BY DEF ServeTypes, Front
<1>2. /\ fe' \in [Actors -> Seq(FrontCmd)] /\ Popped(fe, fe', Actors, a)
      /\ Head(fe[a]) \in FrontCmd
  BY <1>1, PopFacts
<1>3. 1 \in DOMAIN fe[a] /\ Head(fe[a]) = fe[a][1]
  BY <1>2 DEF Popped
<1> QED BY <1>2, <1>3 DEF Front

\* A command is queued for a worker.
LEMMA Assigned ==
    ASSUME ServeTypes, NEW w \in Workers, NEW m \in WorkCmd, wq' = Push(wq, w, m)
    PROVE  wq' \in [Workers -> Seq(WorkCmd)] /\ Pushed(wq, wq', Workers, w, m)
<1>1. wq \in [Workers -> Seq(WorkCmd)]
  BY DEF ServeTypes
<1> QED BY <1>1, PushFacts

\* A worker takes its first command.
LEMMA Taken ==
    ASSUME ServeTypes, NEW w \in Workers, NEW cmd, WorkerHead(w, cmd)
    PROVE  /\ fault = "none"
           /\ wq' \in [Workers -> Seq(WorkCmd)] /\ Popped(wq, wq', Workers, w)
           /\ 1 \in DOMAIN wq[w] /\ Head(wq[w]) = wq[w][1]
           /\ wq[w][1].cmd = cmd /\ wq[w][1] \in WorkCmd
<1>1. wq \in [Workers -> Seq(WorkCmd)] /\ wq[w] # <<>> /\ wq' = Pop(wq, w)
  BY DEF ServeTypes, WorkerHead
<1>2. /\ wq' \in [Workers -> Seq(WorkCmd)] /\ Popped(wq, wq', Workers, w)
      /\ Head(wq[w]) \in WorkCmd
  BY <1>1, PopFacts
<1>3. 1 \in DOMAIN wq[w] /\ Head(wq[w]) = wq[w][1]
  BY <1>2 DEF Popped
<1> QED BY <1>2, <1>3 DEF WorkerHead

\* The broker reads the first request of a socket.
LEMMA Received ==
    ASSUME ServeTypes, NEW c \in Conns, HandleData(c)
    PROVE  /\ inbox' \in [Conns -> Seq(ReqRec)] /\ Popped(inbox, inbox', Conns, c)
           /\ 1 \in DOMAIN inbox[c] /\ Head(inbox[c]) = inbox[c][1]
           /\ inbox[c][1] \in ReqRec
<1>1. inbox \in [Conns -> Seq(ReqRec)] /\ inbox[c] # <<>> /\ inbox' = Pop(inbox, c)
  BY DEF ServeTypes, HandleData
<1>2. /\ inbox' \in [Conns -> Seq(ReqRec)] /\ Popped(inbox, inbox', Conns, c)
      /\ Head(inbox[c]) \in ReqRec
  BY <1>1, PopFacts
<1>3. 1 \in DOMAIN inbox[c] /\ Head(inbox[c]) = inbox[c][1]
  BY <1>2 DEF Popped
<1> QED BY <1>2, <1>3

\* A thread that has no answer yet is answered.
LEMMA AnswerGiven ==
    ASSUME ServeTypes, NEW t \in Threads, NEW v \in Nat, answer[t] = <<>>, answer' = Answer(t, v)
    PROVE  /\ answer' \in [Threads -> Seq(Nat)] /\ answer'[t] = <<v>>
           /\ \A u \in Threads : u # t => answer'[u] = answer[u]
<1>0. answer \in [Threads -> Seq(Nat)] /\ answer[t] \in Seq(Nat)
  BY DEF ServeTypes
<1>1. answer' = [answer EXCEPT ![t] = Append(answer[t], v)]
  BY DEF Answer, Push
<1>2. Append(answer[t], v) = <<v>> /\ <<v>> \in Seq(Nat)
  OBVIOUS
<1> QED BY <1>0, <1>1, <1>2

\* A sequence of one element.
LEMMA OneElement ==
    ASSUME NEW S, NEW x \in Seq(S), Len(x) = 1
    PROVE  x # <<>> /\ Head(x) = x[1] /\ x[1] \in S /\ Tail(x) = <<>>
<1>1. x # <<>> /\ DOMAIN x = 1 .. 1
  OBVIOUS
<1>2. Head(x) = x[1] /\ x[1] \in S
  BY <1>1
<1>3. Tail(x) \in Seq(S) /\ Len(Tail(x)) = 0
  BY <1>1
<1>4. \A y \in Seq(S) : Len(y) = 0 => y = <<>>
  OBVIOUS
<1>5. Tail(x) = <<>>
  BY <1>3, <1>4
<1> QED BY <1>1, <1>2, <1>5

\* A thread takes the only answer that it has.
LEMMA AnswerTaken ==
    ASSUME ServeTypes, NEW t \in Threads, Len(answer[t]) = 1, answer' = Pop(answer, t)
    PROVE  /\ answer' \in [Threads -> Seq(Nat)] /\ answer'[t] = <<>>
           /\ \A u \in Threads : u # t => answer'[u] = answer[u]
           /\ Head(answer[t]) = answer[t][1] /\ answer[t][1] \in Nat
<1>0. answer \in [Threads -> Seq(Nat)] /\ answer[t] \in Seq(Nat)
  BY DEF ServeTypes
<1>1. answer' = [answer EXCEPT ![t] = Tail(answer[t])]
  BY DEF Pop
<1>2. Tail(answer[t]) = <<>> /\ <<>> \in Seq(Nat)
  BY <1>0, OneElement
<1>3. Head(answer[t]) = answer[t][1] /\ answer[t][1] \in Nat
  BY <1>0, OneElement
<1> QED BY <1>0, <1>1, <1>2, <1>3

\* A handler has an entry for every name.
LEMMA HandlerServices ==
    ASSUME ServeTypes, NEW w \in Workers, NEW c \in Conns
    PROVE  /\ get_handler(w, c) \in Services
           /\ c \in DOMAIN handlers[w] => get_handler(w, c) = handlers[w][c]
           /\ c \notin DOMAIN handlers[w] => get_handler(w, c) = create_services(c)
<1>1. create_services(c) \in Services
  BY DEF create_services, Services
<1>2. c \in DOMAIN handlers[w] => handlers[w][c] \in Services
  <2>1. handlers[w] \in UNION {[D -> Services] : D \in SUBSET Conns}
    BY DEF ServeTypes
  <2>2. PICK D \in SUBSET Conns : handlers[w] \in [D -> Services]
    BY <2>1
  <2> QED BY <2>2
<1> QED BY <1>1, <1>2 DEF get_handler

\* A handler is stored for one connection at one worker.
LEMMA Stored ==
    ASSUME ServeTypes, NEW w \in Workers, NEW c \in Conns, NEW h \in Services, Store(w, c, h)
    PROVE  /\ handlers' \in [Workers -> UNION {[D -> Services] : D \in SUBSET Conns}]
           /\ DOMAIN handlers'[w] = DOMAIN handlers[w] \cup {c} /\ handlers'[w][c] = h
           /\ \A d \in DOMAIN handlers[w] : d # c => handlers'[w][d] = handlers[w][d]
           /\ \A v \in Workers : v # w => handlers'[v] = handlers[v]
<1> DEFINE H == UNION {[D -> Services] : D \in SUBSET Conns}
           f == [d \in DOMAIN handlers[w] \cup {c} |-> IF d = c THEN h ELSE handlers[w][d]]
<1>1. handlers \in [Workers -> H] /\ handlers' = [handlers EXCEPT ![w] = f]
  BY DEF ServeTypes, Store
<1>2. handlers[w] \in H
  BY <1>1
<1>3. PICK D \in SUBSET Conns : handlers[w] \in [D -> Services]
  BY <1>2
<1>4. f \in [D \cup {c} -> Services] /\ D \cup {c} \in SUBSET Conns
  BY <1>3
<1>5. f \in H
  BY <1>4
<1>6. /\ DOMAIN f = DOMAIN handlers[w] \cup {c} /\ f[c] = h
      /\ \A d \in DOMAIN handlers[w] : d # c => f[d] = handlers[w][d]
  OBVIOUS
<1> HIDE DEF f, H
<1>7. handlers' \in [Workers -> H] /\ handlers'[w] = f /\ \A v \in Workers : v # w => handlers'[v] = handlers[v]
  BY <1>1, <1>5
<1> QED BY <1>6, <1>7 DEF H

\* The requests of a connection are some of those made.
LEMMA AskedFacts ==
    ASSUME ServeTypes, NEW c
    PROVE  /\ Len(asked) \in Nat /\ DOMAIN asked = 1 .. Len(asked)
           /\ Cardinality(AskedOn(c)) \in Nat /\ Cardinality(AskedOn(c)) <= Len(asked)
<1>1. Len(asked) \in Nat /\ DOMAIN asked = 1 .. Len(asked)
  BY DEF ServeTypes
<1>2. IsFiniteSet(1 .. Len(asked)) /\ Cardinality(1 .. Len(asked)) = Len(asked)
  <2>1. PICK n \in Nat : n = Len(asked)
    BY <1>1
  <2>2. IsFiniteSet(1 .. n) /\ Cardinality(1 .. n) = IF 1 > n THEN 0 ELSE n - 1 + 1
    BY FS_Interval
  <2>3. Cardinality(1 .. n) = n
    BY <2>2
  <2> QED BY <2>1, <2>2, <2>3
<1>3. AskedOn(c) \in SUBSET (1 .. Len(asked))
  BY <1>1 DEF AskedOn
<1>4. IsFiniteSet(AskedOn(c)) /\ Cardinality(AskedOn(c)) <= Len(asked)
  BY <1>2, <1>3, FS_Subset
<1> QED BY <1>1, <1>4, FS_CardinalityType

\* There are no more DEALER sockets than there is room for.
LEMMA RoomFacts ==
    ASSUME ServeTypes, DealerRoom
    PROVE  /\ IsFiniteSet(Connecting) /\ IsFiniteSet(Unconnected)
           /\ Cardinality(Connecting) \in Nat /\ Cardinality(Unconnected) \in Nat
           /\ Cardinality(Unconnected) <= Cardinality(Connecting)
           /\ dealers \in Nat /\ dealers <= MaxConnects
<1>1. IsFiniteSet(Connecting) /\ Unconnected \in SUBSET Connecting
  BY DEF DealerRoom, Connecting, Unconnected
<1>2. IsFiniteSet(Unconnected) /\ Cardinality(Unconnected) <= Cardinality(Connecting)
  BY <1>1, FS_Subset
<1>3. Cardinality(Connecting) \in Nat /\ Cardinality(Unconnected) \in Nat
  BY <1>1, <1>2, FS_CardinalityType
<1>4. dealers \in Nat /\ dealers + Cardinality(Unconnected) <= MaxConnects /\ MaxConnects \in Nat
  BY SizesAssumption DEF ServeTypes, DealerRoom
<1>5. dealers <= MaxConnects
  BY <1>3, <1>4
<1> QED BY <1>1, <1>2, <1>3, <1>4, <1>5

\* One socket is deleted and keeps its place.
LEMMA Freed ==
    ASSUME ServeTypes, BindMap, SocketDeleted
    PROVE  /\ closing.index \in 1 .. Len(routers) /\ closing.sender \in Threads
           /\ routers' \in Seq(RouterRec) /\ Len(routers') = Len(routers)
           /\ routers'[closing.index].st = "deleted"
           /\ \A i \in 1 .. Len(routers) : routers'[i].endpoint = routers[i].endpoint
           /\ \A i \in 1 .. Len(routers) : i # closing.index => routers'[i] = routers[i]
<1>1. closing.index \in 1 .. Len(routers) /\ closing.sender \in Threads /\ routers \in Seq(RouterRec)
  BY DEF ServeTypes, BindMap, SocketDeleted
<1>2. PICK i \in 1 .. Len(routers) : i = closing.index
  BY <1>1
<1>3. PICK x \in RouterRec : x = routers[i]
  BY <1>1, <1>2
<1> DEFINE r == [x EXCEPT !.st = "deleted"]
<1>r. r \in RouterRec /\ r.st = "deleted" /\ r.endpoint = x.endpoint
  BY DEF RouterRec
<1>4. routers' = [routers EXCEPT ![i] = r]
  BY <1>2, <1>3 DEF SocketDeleted, SocketFreed
<1> HIDE DEF r
<1>5. /\ routers' \in Seq(RouterRec) /\ Len(routers') = Len(routers)
      /\ routers'[i] = r /\ \A j \in 1 .. Len(routers) : j # i => routers'[j] = routers[j]
  BY <1>1, <1>4, <1>r
<1> QED BY <1>1, <1>2, <1>3, <1>r, <1>5

\* The record of the request that a client makes next.
NextRequest(c, n) ==
    LET first  == IF c.is_router /\ AskedOn(c) = {} /\ c \notin known
                  THEN RouterNames(c.index) ELSE {}
    IN  [q |-> Len(asked) + 1, conn |-> c, name |-> n,
         ev |-> Cardinality(AskedOn(c)) + 1, due |-> n \in told[c] \cup first]

\* A client's request is appended to its socket's queue and to those made.
LEMMA ClientSends ==
    ASSUME ServeTypes, NEW c \in Conns, NEW n \in Names, ClientSend(c, n)
    PROVE  /\ NextRequest(c, n) \in ReqRec
           /\ NextRequest(c, n).q = Len(asked) + 1 /\ NextRequest(c, n).conn = c
           /\ Len(asked) + 1 \in Requests
           /\ asked' \in Seq(ReqRec) /\ Len(asked') <= MaxRequests
           /\ DOMAIN asked' = DOMAIN asked \cup {Len(asked) + 1} /\ Len(asked) + 1 \notin DOMAIN asked
           /\ asked'[Len(asked) + 1] = NextRequest(c, n)
           /\ \A q \in DOMAIN asked : asked'[q] = asked[q]
           /\ inbox' \in [Conns -> Seq(ReqRec)]
           /\ Pushed(inbox, inbox', Conns, c, NextRequest(c, n))
<1> DEFINE r == NextRequest(c, n)
<1>1. /\ Len(asked) < MaxRequests /\ asked' = Append(asked, r) /\ inbox' = Push(inbox, c, r)
  BY DEF ClientSend, NextRequest
<1>2. /\ Len(asked) \in Nat /\ DOMAIN asked = 1 .. Len(asked)
      /\ Cardinality(AskedOn(c)) \in Nat /\ Cardinality(AskedOn(c)) <= Len(asked)
  BY AskedFacts
<1>3. Len(asked) + 1 \in Requests /\ Cardinality(AskedOn(c)) + 1 \in Requests
  BY <1>1, <1>2, SizesAssumption DEF Requests
<1>4. r \in ReqRec /\ r.q = Len(asked) + 1 /\ r.conn = c
  BY <1>3 DEF NextRequest, ReqRec
<1> HIDE DEF r
<1>5. asked \in Seq(ReqRec) /\ inbox \in [Conns -> Seq(ReqRec)] /\ MaxRequests \in Nat
  BY SizesAssumption DEF ServeTypes
<1>6. /\ asked' \in Seq(ReqRec) /\ Len(asked') = Len(asked) + 1
      /\ DOMAIN asked' = 1 .. Len(asked) + 1 /\ asked'[Len(asked) + 1] = r
      /\ \A q \in 1 .. Len(asked) : asked'[q] = asked[q]
  BY <1>1, <1>2, <1>4, <1>5
<1>7. Len(asked') <= MaxRequests
  BY <1>1, <1>2, <1>5, <1>6
<1>8. DOMAIN asked' = DOMAIN asked \cup {Len(asked) + 1} /\ Len(asked) + 1 \notin DOMAIN asked
  BY <1>2, <1>6
<1>9. inbox' \in [Conns -> Seq(ReqRec)] /\ Pushed(inbox, inbox', Conns, c, r)
  BY <1>1, <1>4, <1>5, PushFacts
<1> QED BY <1>2, <1>3, <1>4, <1>6, <1>7, <1>8, <1>9 DEF r

\* What a reply says.
LEMMA ReplyMsgs ==
    ASSUME NEW a, NEW r, r.conn \in Conns, r.ev \in Requests, r.q \in Requests
    PROVE  /\ ReplyMsg(a, r) \in FrontCmd /\ ReplyMsg(a, r).cmd = "reply"
           /\ ReplyMsg(a, r).conn = r.conn /\ ReplyMsg(a, r).ev = r.ev /\ ReplyMsg(a, r).q = r.q
           /\ ReplyMsg(a, r).tells = RegisteredBy(a, r.conn)
BY DEF ReplyMsg, FrontCmd, RegisteredBy

\* A request is taken by its handler, and then: it is refused or answered with
\* an error; a service has it; or the service is dead.
HandlerFate(w, r) ==
    \/ /\ fe' = Push(fe, w, ReplyMsg(w, r)) /\ UNCHANGED <<repliers, known, fault>>
       /\ \/ outcome' = [outcome EXCEPT ![r.q] = "bad_request"]
          \/ /\ outcome' = [outcome EXCEPT ![r.q] = "no_such_service"]
             /\ get_handler(w, r.conn)[r.name] = "none"
    \/ /\ outcome' = [outcome EXCEPT ![r.q] = "served"]
       /\ repliers' = repliers \cup {[conn |-> r.conn, ev |-> r.ev, q |-> r.q]}
       /\ known' = known \cup {r.conn}
       /\ UNCHANGED <<fe, fault>>
    \/ fault' = "dead_service" /\ UNCHANGED <<fe, outcome, repliers, known>>

\* The effects of HandleRequest.
LEMMA HandlerSteps ==
    ASSUME ServeTypes, NEW w \in Workers, HandleRequest(w)
    PROVE  /\ wq' \in [Workers -> Seq(WorkCmd)] /\ Popped(wq, wq', Workers, w)
           /\ wq[w][1].cmd = "data" /\ wq[w][1].r \in ReqRec /\ 1 \in DOMAIN wq[w]
           /\ get_handler(w, wq[w][1].r.conn) \in Services
           /\ Store(w, wq[w][1].r.conn, get_handler(w, wq[w][1].r.conn))
           /\ HandlerFate(w, wq[w][1].r)
<1>1. /\ wq' \in [Workers -> Seq(WorkCmd)] /\ Popped(wq, wq', Workers, w)
      /\ Head(wq[w]) = wq[w][1] /\ wq[w][1].cmd = "data" /\ wq[w][1] \in WorkCmd
      /\ 1 \in DOMAIN wq[w]
  BY Taken DEF HandleRequest
<1>2. PICK r \in ReqRec : r = wq[w][1].r
  BY <1>1, WorkFields
<1>3. PICK h \in Services : h = get_handler(w, r.conn)
  BY <1>2, HandlerServices DEF ReqRec
<1>4. /\ Store(w, r.conn, h)
      /\ \/ h[r.name] = "none" /\ ReplyError(w, r, "no_such_service")
         \/ fault' = "dead_service" /\ UNCHANGED <<fe, outcome, repliers, known>>
         \/ DispatchRequest(w, r)
  BY <1>1, <1>2, <1>3 DEF HandleRequest
<1>5. HandlerFate(w, r)
  BY <1>3, <1>4 DEF ReplyError, DispatchRequest, HandlerFate
<1> QED BY <1>1, <1>2, <1>3, <1>4, <1>5

\* What HandleRequest does to the pipes.
LEMMA Handled ==
    ASSUME ServeTypes, NEW w \in Workers, HandleRequest(w)
    PROVE  fe' = fe \/ \E m : Pushed(fe, fe', Actors, w, m) /\ m.cmd = "reply"
<1>1. PICK r \in ReqRec : HandlerFate(w, r)
  BY HandlerSteps
<1>2. PICK m \in FrontCmd : m = ReplyMsg(w, r) /\ m.cmd = "reply"
  BY ReplyMsgs DEF ReqRec
<1>3. fe' = fe \/ fe' = Push(fe, w, m)
  BY <1>1, <1>2 DEF HandlerFate
<1>4. fe' = Push(fe, w, m) => Pushed(fe, fe', Actors, w, m)
  BY Sent DEF Actors
<1> QED BY <1>2, <1>3, <1>4

\* Nothing happens after a fault.
LEMMA NoFault == Next => fault = "none"
BY DEF Next, BindReturns, UnbindReturns, ConnectReturns, ServerGone, DestroyServices, Connect,
       Bind, Unbind, RegisterFactory, At, HandleBind, HandleUnbind, HandleConnect, HandleReply,
       HandleRequestOut, HandleRegister, Front, Reply, Request, Register, CanUse, SocketDeleted,
       HandleData, ClientSend, RegisterService, HandleRequest, WorkerHead

-----------------------------------------------------------------------------
(* Types                                                                   *)

\* Every step keeps the types.
LEMMA NextServeTypes ==
    ASSUME ServeTypes, OneCommand, DealerRoom, BindMap, Next
    PROVE  ServeTypes'
<1> USE DEF frontVars, sockVars, workVars
<1>0. /\ srv \in [Threads -> [st : States, cur : Endpoints \cup {"none"}]]
      /\ eps \in [Threads -> SUBSET Endpoints]
      /\ names \in [Threads -> SUBSET Names]
      /\ fe \in [Actors -> Seq(FrontCmd)]
      /\ answer \in [Threads -> Seq(Nat)]
      /\ routers \in Seq(RouterRec)
      /\ DOMAIN bind_map \subseteq Endpoints /\ \A ep \in DOMAIN bind_map : bind_map[ep] \in Nat
      /\ closing \in [index : Nat, sender : Threads] \cup {NotClosing}
      /\ dealers \in Nat
      /\ factories \in [Routers -> Threads \cup {NoThread}]
      /\ inbox \in [Conns -> Seq(ReqRec)]
      /\ wq \in [Workers -> Seq(WorkCmd)]
      /\ handlers \in [Workers -> UNION {[D -> Services] : D \in SUBSET Conns}]
      /\ repliers \subseteq Replier
      /\ known \subseteq Conns
      /\ asked \in Seq(ReqRec) /\ Len(asked) <= MaxRequests
      /\ outcome \in [Requests -> {"none", "served", "bad_request", "no_such_service"}]
      /\ answers \in [Requests -> Seq(Conns \X Requests)]
      /\ told \in [Conns -> SUBSET Names]
      /\ regd \subseteq [by : Actors, conn : Conns, name : Names]
      /\ fault \in {"none", "bind_throws", "connect_throws", "dead_socket", "dead_service"}
  BY DEF ServeTypes
<1>a. Threads \subseteq Actors /\ Workers \subseteq Actors
  BY DEF Actors
<1>s. ASSUME NEW t \in Threads, NEW st \in States, NEW ep \in Endpoints \cup {"none"}, Goto(t, st, ep)
      PROVE  srv' \in [Threads -> [st : States, cur : Endpoints \cup {"none"}]]
  BY <1>0, <1>s DEF Goto
<1>f. ASSUME NEW a \in Actors, NEW m \in FrontCmd, fe' = Push(fe, a, m)
      PROVE  fe' \in [Actors -> Seq(FrontCmd)]
  BY <1>f, Sent
<1>p. ASSUME NEW t \in Threads, answer[t] # <<>>, answer' = Pop(answer, t)
      PROVE  answer' \in [Threads -> Seq(Nat)] /\ Head(answer[t]) = answer[t][1]
  BY <1>p, AnswerTaken DEF OneCommand, Answered
<1>g. ASSUME NEW t \in Threads, NEW v \in Nat, answer' = Answer(t, v)
      PROVE  answer' \in [Threads -> Seq(Nat)]
  BY <1>0, <1>g, PushFacts DEF Answer
<1>m. ASSUME NEW a \in Actors, NEW c \in Conns, NEW e \in Requests, NEW q \in Requests, NEW r,
             r.conn = c, r.ev = e, r.q = q
      PROVE  ReplyMsg(a, r) \in FrontCmd
  BY <1>m DEF ReplyMsg, FrontCmd, RegisteredBy
<1>1. ASSUME NEW t \in Threads, NEW n \in Names, RegisterFactory(t, n) PROVE ServeTypes'
  <2>1. names' \in [Threads -> SUBSET Names]
    BY <1>0, <1>1 DEF RegisterFactory
  <2> QED BY <1>0, <1>1, <2>1 DEF RegisterFactory, ServeTypes
<1>2. ASSUME NEW t \in Threads, NEW ep \in Endpoints, Bind(t, ep) PROVE ServeTypes'
  <2>1. [cmd |-> "bind", endpoint |-> ep] \in FrontCmd /\ "binding" \in States
    BY DEF FrontCmd, States
  <2>2. /\ srv' \in [Threads -> [st : States, cur : Endpoints \cup {"none"}]]
        /\ fe' \in [Actors -> Seq(FrontCmd)]
    BY <1>2, <1>a, <1>s, <1>f, <2>1 DEF Bind, Call
  <2>3. eps' \in [Threads -> SUBSET Endpoints]
    BY <1>0, <1>2 DEF Bind
  <2> QED BY <1>0, <1>2, <2>2, <2>3 DEF Bind, ServeTypes
<1>3. ASSUME NEW t \in Threads, BindReturns(t) PROVE ServeTypes'
  <2>1. srv' \in [Threads -> [st : States, cur : Endpoints \cup {"none"}]]
    BY <1>3, <1>s DEF BindReturns, States
  <2>2. answer' \in [Threads -> Seq(Nat)]
    BY <1>3, <1>p DEF BindReturns
  <2>3. factories' \in [Routers -> Threads \cup {NoThread}]
    BY <1>0, <1>3 DEF BindReturns
  <2> QED BY <1>0, <1>3, <2>1, <2>2, <2>3 DEF BindReturns, ServeTypes
<1>4. ASSUME NEW t \in Threads, NEW ep \in Endpoints, Unbind(t, ep) PROVE ServeTypes'
  <2>1. [cmd |-> "unbind", endpoint |-> ep] \in FrontCmd /\ "unbinding" \in States
    BY DEF FrontCmd, States
  <2>2. /\ srv' \in [Threads -> [st : States, cur : Endpoints \cup {"none"}]]
        /\ fe' \in [Actors -> Seq(FrontCmd)]
    BY <1>4, <1>a, <1>s, <1>f, <2>1 DEF Unbind, Call
  <2> QED BY <1>0, <1>4, <2>2 DEF Unbind, ServeTypes
<1>5. ASSUME NEW t \in Threads, UnbindReturns(t) PROVE ServeTypes'
  <2>1. srv' \in [Threads -> [st : States, cur : Endpoints \cup {"none"}]]
    BY <1>5, <1>s DEF UnbindReturns, States
  <2>2. answer' \in [Threads -> Seq(Nat)]
    BY <1>5, <1>p DEF UnbindReturns
  <2>3. eps' \in [Threads -> SUBSET Endpoints]
    BY <1>0, <1>5 DEF UnbindReturns
  <2> QED BY <1>0, <1>5, <2>1, <2>2, <2>3 DEF UnbindReturns, ServeTypes
<1>6. ASSUME NEW t \in Threads, ServerGone(t) \/ DestroyServices(t) PROVE ServeTypes'
  <2>1. srv' \in [Threads -> [st : States, cur : Endpoints \cup {"none"}]]
    BY <1>6, <1>s DEF ServerGone, DestroyServices, States
  <2> QED BY <1>0, <1>6, <2>1 DEF ServerGone, DestroyServices, ServeTypes
<1>7. ASSUME NEW t \in Threads, Connect(t) PROVE ServeTypes'
  <2>1. [cmd |-> "connect"] \in FrontCmd /\ "connecting" \in States
    BY DEF FrontCmd, States
  <2>2. /\ srv' \in [Threads -> [st : States, cur : Endpoints \cup {"none"}]]
        /\ fe' \in [Actors -> Seq(FrontCmd)]
    BY <1>7, <1>a, <1>s, <1>f, <2>1 DEF Connect, Call
  <2> QED BY <1>0, <1>7, <2>2 DEF Connect, ServeTypes
<1>8. ASSUME NEW t \in Threads, ConnectReturns(t) PROVE ServeTypes'
  <2>1. srv' \in [Threads -> [st : States, cur : Endpoints \cup {"none"}]]
    BY <1>8, <1>s DEF ConnectReturns, States
  <2>2. answer' \in [Threads -> Seq(Nat)] /\ Head(answer[t]) = answer[t][1]
    BY <1>8, <1>p DEF ConnectReturns
  <2>3. answer[t][1] \in 1 .. dealers
    BY <1>8 DEF ConnectReturns, At, OneCommand, Answered
  <2>4. answer[t][1] \in Dealers
    BY <2>3, RoomFacts, SizesAssumption DEF Dealers
  <2>5. DealerConn(answer[t][1]) \in Conns
    BY <2>4 DEF DealerConn, Conns
  <2>6. known' = known \cup {DealerConn(answer[t][1])}
    BY <1>8, <2>2 DEF ConnectReturns
  <2>7. known' \subseteq Conns
    BY <1>0, <2>5, <2>6
  <2> QED BY <1>0, <1>8, <2>1, <2>2, <2>7 DEF ConnectReturns, ServeTypes
<1>9. ASSUME NEW a \in Actors, NEW c \in known, NEW n \in Names, Register(a, c, n) PROVE ServeTypes'
  <2>1. [cmd |-> "register", conn |-> c, name |-> n] \in FrontCmd
    BY <1>0 DEF FrontCmd
  <2>2. fe' \in [Actors -> Seq(FrontCmd)]
    BY <1>9, <1>f, <2>1 DEF Register
  <2>3. regd' \subseteq [by : Actors, conn : Conns, name : Names]
    BY <1>0, <1>9 DEF Register
  <2> QED BY <1>0, <1>9, <2>2, <2>3 DEF Register, ServeTypes
<1>10. ASSUME NEW a \in Actors, NEW r \in repliers, Reply(a, r) PROVE ServeTypes'
  <2>1. r.conn \in Conns /\ r.ev \in Requests /\ r.q \in Requests
    BY <1>0 DEF Replier
  <2>2. fe' \in [Actors -> Seq(FrontCmd)]
    BY <1>10, <1>f, <1>m, <2>1 DEF Reply
  <2>3. repliers' \subseteq Replier
    BY <1>0, <1>10 DEF Reply
  <2> QED BY <1>0, <1>10, <2>2, <2>3 DEF Reply, ServeTypes
<1>11. ASSUME NEW a \in Actors, NEW c \in known, Request(a, c) PROVE ServeTypes'
  <2>1. [cmd |-> "request", conn |-> c, tells |-> RegisteredBy(a, c)] \in FrontCmd
    BY <1>0 DEF FrontCmd, RegisteredBy
  <2>2. fe' \in [Actors -> Seq(FrontCmd)]
    BY <1>11, <1>f, <2>1 DEF Request
  <2> QED BY <1>0, <1>11, <2>2 DEF Request, ServeTypes
<1>12. ASSUME NEW c \in Conns, NEW n \in Names, ClientSend(c, n) PROVE ServeTypes'
  <2>1. /\ asked' \in Seq(ReqRec) /\ Len(asked') <= MaxRequests
        /\ inbox' \in [Conns -> Seq(ReqRec)]
    BY <1>12, ClientSends
  <2>2. RouterNames(c.index) \subseteq Names \/ ~c.is_router
    <3>1. c.is_router => c.index \in Routers
      BY DEF Conns
    <3> QED BY <1>0, <3>1 DEF RouterNames
  <2>3. told' \in [Conns -> SUBSET Names]
    BY <1>0, <1>12, <2>2 DEF ClientSend
  <2> QED BY <1>0, <1>12, <2>1, <2>3 DEF ClientSend, ServeTypes
<1>13. ASSUME NEW t \in Threads, HandleBind(t) PROVE ServeTypes'
  <2>1. fe' \in [Actors -> Seq(FrontCmd)] /\ Head(fe[t]).endpoint \in Endpoints
    BY <1>13, <1>a, Read, FrontFields DEF HandleBind
  <2>2. Len(routers) + 1 \in Nat
    BY <1>0
  <2>3. CASE UNCHANGED <<routers, bind_map, answer>> /\ fault' = "bind_throws"
    BY <1>0, <1>13, <2>1, <2>3 DEF HandleBind, ServeTypes
  <2>4. CASE /\ routers' = Append(routers, [endpoint |-> Head(fe[t]).endpoint, st |-> "open"])
             /\ bind_map' = RecordBind(Head(fe[t]).endpoint, Len(routers) + 1)
             /\ answer' = Answer(t, Len(routers) + 1) /\ UNCHANGED fault
    <3>1. routers' \in Seq(RouterRec)
      BY <1>0, <2>1, <2>4 DEF RouterRec
    <3>2. answer' \in [Threads -> Seq(Nat)]
      BY <1>g, <2>2, <2>4
    <3>3. DOMAIN bind_map' \subseteq Endpoints /\ \A ep \in DOMAIN bind_map' : bind_map'[ep] \in Nat
      BY <1>0, <2>1, <2>2, <2>4 DEF RecordBind
    <3> QED BY <1>0, <1>13, <2>1, <2>4, <3>1, <3>2, <3>3 DEF HandleBind, ServeTypes
  <2> QED BY <1>13, <2>3, <2>4 DEF HandleBind
<1>14. ASSUME NEW t \in Threads, HandleUnbind(t) PROVE ServeTypes'
  <2>1. fe' \in [Actors -> Seq(FrontCmd)]
    BY <1>14, <1>a, Read DEF HandleUnbind
  <2>2. closing' \in [index : Nat, sender : Threads] \cup {NotClosing}
    BY <1>0, <1>14 DEF HandleUnbind
  <2>3. DOMAIN bind_map' \subseteq Endpoints /\ \A ep \in DOMAIN bind_map' : bind_map'[ep] \in Nat
    BY <1>0, <1>14 DEF HandleUnbind
  <2> QED BY <1>0, <1>14, <2>1, <2>2, <2>3 DEF HandleUnbind, ServeTypes
<1>15. ASSUME SocketDeleted PROVE ServeTypes'
  <2>1. closing.sender \in Threads
    BY <1>0, <1>15 DEF SocketDeleted
  <2>3. routers' \in Seq(RouterRec)
    BY <1>15, Freed
  <2>4. inbox' \in [Conns -> Seq(ReqRec)]
    BY <1>0, <1>15 DEF SocketDeleted
  <2>5. answer' \in [Threads -> Seq(Nat)]
    BY <1>15, <1>g, <2>1 DEF SocketDeleted
  <2>6. closing' = NotClosing
    BY <1>15 DEF SocketDeleted
  <2> QED BY <1>0, <1>15, <2>3, <2>4, <2>5, <2>6 DEF SocketDeleted, ServeTypes
<1>16. ASSUME NEW t \in Threads, HandleConnect(t) PROVE ServeTypes'
  <2>1. fe' \in [Actors -> Seq(FrontCmd)]
    BY <1>16, <1>a, Read DEF HandleConnect
  <2>2. dealer_index \in Nat
    BY <1>0 DEF dealer_index
  <2>3. /\ answer' \in [Threads -> Seq(Nat)] /\ dealers' \in Nat
        /\ fault' \in {fault, "connect_throws"}
    BY <1>0, <1>16, <1>g, <2>2 DEF HandleConnect
  <2> QED BY <1>0, <1>16, <2>1, <2>3 DEF HandleConnect, ServeTypes
<1>17. ASSUME NEW a \in Actors, HandleReply(a) PROVE ServeTypes'
  <2>1. PICK m \in FrontCmd : m = Head(fe[a]) /\ m.cmd = "reply" /\ fe' \in [Actors -> Seq(FrontCmd)]
    BY <1>17, Read DEF HandleReply
  <2>2. m.conn \in Conns /\ m.ev \in Requests /\ m.q \in Requests /\ m.tells \in SUBSET Names
    BY <2>1, FrontFields
  <2>3. CASE Open(m.conn)
    <3>1. /\ answers' = Push(answers, m.q, <<m.conn, m.ev>>)
          /\ told' = [told EXCEPT ![m.conn] = @ \cup m.tells] /\ UNCHANGED fault
      BY <1>17, <2>1, <2>3 DEF HandleReply
    <3>2. <<m.conn, m.ev>> \in Conns \X Requests
      BY <2>2
    <3>3. answers' \in [Requests -> Seq(Conns \X Requests)]
      BY <1>0, <2>2, <3>1, <3>2, PushFacts
    <3>4. told' \in [Conns -> SUBSET Names]
      BY <1>0, <2>2, <3>1
    <3> QED BY <1>0, <1>17, <2>1, <3>1, <3>3, <3>4 DEF HandleReply, ServeTypes
  <2>4. CASE ~Open(m.conn)
    BY <1>0, <1>17, <2>1, <2>4 DEF HandleReply, ServeTypes
  <2> QED BY <2>3, <2>4
<1>18. ASSUME NEW a \in Actors, HandleRequestOut(a) PROVE ServeTypes'
  <2>1. PICK m \in FrontCmd : m = Head(fe[a]) /\ m.cmd = "request" /\ fe' \in [Actors -> Seq(FrontCmd)]
    BY <1>18, Read DEF HandleRequestOut
  <2>2. m.conn \in Conns /\ m.tells \in SUBSET Names
    BY <2>1, FrontFields
  <2>3. told' \in [Conns -> SUBSET Names]
    BY <1>0, <1>18, <2>1, <2>2 DEF HandleRequestOut
  <2> QED BY <1>0, <1>18, <2>1, <2>3 DEF HandleRequestOut, ServeTypes
<1>19. ASSUME NEW a \in Actors, HandleRegister(a) PROVE ServeTypes'
  <2>1. PICK m \in FrontCmd : m = Head(fe[a]) /\ m.cmd = "register" /\ fe' \in [Actors -> Seq(FrontCmd)]
    BY <1>19, Read DEF HandleRegister
  <2>2. m.conn \in Conns /\ m \in WorkCmd
    BY <2>1 DEF FrontCmd, WorkCmd
  <2>3. wq' \in [Workers -> Seq(WorkCmd)]
    BY <1>19, <2>1, <2>2, ConnWorker, Assigned DEF HandleRegister, register_svc
  <2> QED BY <1>0, <1>19, <2>1, <2>3 DEF HandleRegister, ServeTypes
<1>20. ASSUME NEW c \in Conns, HandleData(c) PROVE ServeTypes'
  <2>1. PICK r \in ReqRec : r = Head(inbox[c]) /\ inbox' \in [Conns -> Seq(ReqRec)]
    BY <1>20, Received
  <2>2. [cmd |-> "data", r |-> r] \in WorkCmd
    BY DEF WorkCmd
  <2>3. wq' \in [Workers -> Seq(WorkCmd)]
    BY <1>20, <2>1, <2>2, ConnWorker, Assigned DEF HandleData, handle_socket
  <2> QED BY <1>0, <1>20, <2>1, <2>3 DEF HandleData, ServeTypes
<1>21. ASSUME NEW w \in Workers, RegisterService(w) PROVE ServeTypes'
  <2>1. PICK m \in WorkCmd : m = Head(wq[w]) /\ m.cmd = "register" /\ wq' \in [Workers -> Seq(WorkCmd)]
    BY <1>21, Taken DEF RegisterService
  <2>2. m.conn \in Conns /\ m.name \in Names
    BY <2>1, WorkFields
  <2>3. get_handler(w, m.conn) \in Services
    BY <2>2, HandlerServices
  <2>4. [get_handler(w, m.conn) EXCEPT ![m.name] = "registered"] \in Services
    BY <2>2, <2>3 DEF Services
  <2>5. handlers' \in [Workers -> UNION {[D -> Services] : D \in SUBSET Conns}]
    BY <1>21, <2>1, <2>2, <2>4, Stored DEF RegisterService
  <2> QED BY <1>0, <1>21, <2>1, <2>5 DEF RegisterService, ServeTypes
<1>22. ASSUME NEW w \in Workers, HandleRequest(w) PROVE ServeTypes'
  <2>1. PICK m \in WorkCmd : m = Head(wq[w]) /\ m.cmd = "data" /\ wq' \in [Workers -> Seq(WorkCmd)]
    BY <1>22, Taken DEF HandleRequest
  <2>2. PICK r \in ReqRec : r = m.r
    BY <2>1, WorkFields
  <2>3. r.conn \in Conns /\ r.ev \in Requests /\ r.q \in Requests
    BY <2>2 DEF ReqRec
  <2>4. PICK h \in Services : h = get_handler(w, r.conn)
    BY <2>3, HandlerServices
  <2>5. handlers' \in [Workers -> UNION {[D -> Services] : D \in SUBSET Conns}]
    BY <1>22, <2>1, <2>2, <2>3, <2>4, Stored DEF HandleRequest
  <2>6. \/ \E o \in {"bad_request", "no_such_service"} : ReplyError(w, r, o)
        \/ /\ outcome' = [outcome EXCEPT ![r.q] = "served"]
           /\ repliers' = repliers \cup {[conn |-> r.conn, ev |-> r.ev, q |-> r.q]}
           /\ known' = known \cup {r.conn}
           /\ UNCHANGED <<fe, fault>>
        \/ fault' = "dead_service" /\ UNCHANGED <<fe, outcome, repliers, known>>
    BY <1>22, <2>1, <2>2, <2>4 DEF HandleRequest, DispatchRequest
  <2>7. /\ fe' \in [Actors -> Seq(FrontCmd)]
        /\ outcome' \in [Requests -> {"none", "served", "bad_request", "no_such_service"}]
        /\ repliers' \subseteq Replier /\ known' \subseteq Conns
        /\ fault' \in {"none", "bind_throws", "connect_throws", "dead_socket", "dead_service"}
    <3>1. ASSUME NEW o \in {"bad_request", "no_such_service"}, ReplyError(w, r, o)
          PROVE  /\ fe' \in [Actors -> Seq(FrontCmd)]
                 /\ outcome' \in [Requests -> {"none", "served", "bad_request", "no_such_service"}]
                 /\ UNCHANGED <<repliers, known, fault>>
      <4>1. ReplyMsg(w, r) \in FrontCmd
        BY <1>a, <1>m, <2>3
      <4>2. fe' \in [Actors -> Seq(FrontCmd)]
        BY <1>a, <1>f, <3>1, <4>1 DEF ReplyError
      <4> QED BY <1>0, <3>1, <4>2 DEF ReplyError
    <3>2. ASSUME outcome' = [outcome EXCEPT ![r.q] = "served"],
                 repliers' = repliers \cup {[conn |-> r.conn, ev |-> r.ev, q |-> r.q]},
                 known' = known \cup {r.conn}
          PROVE  /\ outcome' \in [Requests -> {"none", "served", "bad_request", "no_such_service"}]
                 /\ repliers' \subseteq Replier /\ known' \subseteq Conns
      BY <1>0, <2>3, <3>2 DEF Replier
    <3> QED BY <1>0, <2>6, <3>1, <3>2
  <2> QED BY <1>0, <1>22, <2>1, <2>5, <2>7 DEF HandleRequest, ServeTypes
<1> QED BY <1>1, <1>2, <1>3, <1>4, <1>5, <1>6, <1>7, <1>8, <1>9, <1>10, <1>11, <1>12, <1>13,
           <1>14, <1>15, <1>16, <1>17, <1>18, <1>19, <1>20, <1>21, <1>22
        DEF Next

-----------------------------------------------------------------------------
(* One command at a time                                                   *)

\* The states of a thread that waits for the broker.
Waiting == {"binding", "unbinding", "connecting"}

\* A thread that is not waiting, or whose command the broker has read, has no
\* command of that sort in its pipe.
LEMMA Idle ==
    ASSUME ServeTypes, OneCommand, NEW t \in Threads
    PROVE  /\ srv[t].st \notin Waiting \/ answer[t] # <<>> \/ closing.sender = t =>
                \A i \in DOMAIN fe[t] : fe[t][i].cmd \notin WaitCmds
           /\ srv[t].st \notin Waiting => answer[t] = <<>> /\ closing.sender # t
           /\ answer[t] # <<>> => closing.sender # t
<1>1. t \in Actors
  BY DEF Actors
<1>2. closing.sender = t => closing # NotClosing
  BY NothingAssumption DEF NotClosing
<1> QED BY <1>1, <1>2 DEF OneCommand, Waited, Answered, Waiting, WaitCmds

\* Steps that leave the threads, their answers and the deletions alone, and add
\* no command that is waited for, keep OneCommand.
LEMMA OneCommandKept ==
    ASSUME OneCommand, UNCHANGED <<srv, eps, answer, closing, dealers>>,
           \/ fe' = fe
           \/ \E a \in Actors : \E m : Pushed(fe, fe', Actors, a, m) /\ m.cmd \notin WaitCmds
           \/ \E a \in Actors : Popped(fe, fe', Actors, a)
    PROVE  OneCommand'
<1>1. CASE fe' = fe
  BY <1>1 DEF OneCommand, Waited, Answered
<1>2. ASSUME NEW a \in Actors, NEW m, Pushed(fe, fe', Actors, a, m), m.cmd \notin WaitCmds
      PROVE  OneCommand'
  <2>1. ASSUME NEW b \in Actors, NEW i \in DOMAIN fe'[b], fe'[b][i].cmd \in WaitCmds
        PROVE  i \in DOMAIN fe[b] /\ fe'[b][i] = fe[b][i]
    BY <1>2, <2>1 DEF Pushed
  <2>2. ASSUME NEW b \in Actors, NEW i \in DOMAIN fe'[b], fe'[b][i].cmd \in WaitCmds
        PROVE  Waited(b, i)'
    BY <2>1, <2>2 DEF OneCommand, Waited
  <2> QED BY <2>2 DEF OneCommand, Answered
<1>3. ASSUME NEW a \in Actors, Popped(fe, fe', Actors, a)
      PROVE  OneCommand'
  <2>1. ASSUME NEW b \in Actors, NEW i \in DOMAIN fe'[b], fe'[b][i].cmd \in WaitCmds
        PROVE  Waited(b, i)'
    <3>1. CASE b # a
      <4>1. fe'[b] = fe[b]
        BY <1>3, <3>1 DEF Popped
      <4> QED BY <2>1, <4>1 DEF OneCommand, Waited
    <3>2. CASE b = a
      <4>1. \A j \in DOMAIN fe'[a] : j \in Nat /\ j + 1 \in DOMAIN fe[a] /\ fe'[a][j] = fe[a][j + 1]
        BY <1>3 DEF Popped
      <4>2. Waited(a, i + 1) /\ i \in Nat /\ fe'[a][i] = fe[a][i + 1]
        BY <2>1, <3>2, <4>1 DEF OneCommand
      <4>3. \A j \in DOMAIN fe'[a] : fe'[a][j].cmd \in WaitCmds => j + 1 = i + 1
        BY <4>1, <4>2 DEF Waited
      <4>4. \A j \in DOMAIN fe'[a] : fe'[a][j].cmd \in WaitCmds => j = i
        BY <4>1, <4>2, <4>3
      <4> QED BY <3>2, <4>2, <4>4 DEF Waited
    <3> QED BY <3>1, <3>2
  <2> QED BY <2>1 DEF OneCommand, Answered
<1> QED BY <1>1, <1>2, <1>3

\* bind(), unbind() and connect() begin when nothing else is under way.
LEMMA OneCommandCall ==
    ASSUME ServeTypes, OneCommand, NEW t \in Threads, NEW st, NEW ep, NEW m \in FrontCmd,
           srv[t].st \notin Waiting, Call(t, st, ep, m), UNCHANGED <<answer, closing, dealers>>,
           \/ m.cmd = "connect" /\ st = "connecting" /\ UNCHANGED eps
           \/ /\ \/ m.cmd = "bind" /\ st = "binding"
                 \/ m.cmd = "unbind" /\ st = "unbinding"
              /\ m.endpoint = ep /\ ep \in eps'[t]
              /\ \A u \in Threads : u # t => eps'[u] = eps[u]
    PROVE  OneCommand'
<1>1. t \in Actors /\ Pushed(fe, fe', Actors, t, m)
  BY Sent DEF Call, Actors
<1>2. /\ srv'[t] = [st |-> st, cur |-> ep]
      /\ \A u \in Threads : u # t => srv'[u] = srv[u]
  BY DEF Call, Goto, ServeTypes
<1>3. /\ \A i \in DOMAIN fe[t] : fe[t][i].cmd \notin WaitCmds
      /\ answer[t] = <<>> /\ closing.sender # t
  BY Idle
<1>4. ASSUME NEW b \in Actors, NEW i \in DOMAIN fe'[b], fe'[b][i].cmd \in WaitCmds
      PROVE  Waited(b, i)'
  <2>1. CASE b = t
    <3>1. \A j \in DOMAIN fe'[t] : fe'[t][j].cmd \in WaitCmds => j = Len(fe[t]) + 1 /\ fe'[t][j] = m
      BY <1>1, <1>3 DEF Pushed
    <3> QED BY <1>2, <1>3, <1>4, <2>1, <3>1 DEF Waited
  <2>2. CASE b # t
    <3>1. \A j \in DOMAIN fe'[b] : j \in DOMAIN fe[b] /\ fe'[b][j] = fe[b][j]
      BY <1>1, <2>2 DEF Pushed
    <3> QED BY <1>2, <1>4, <2>2, <3>1 DEF Waited, OneCommand
  <2> QED BY <2>1, <2>2
<1>5. closing # NotClosing => closing.sender \in Threads
  BY DEF ServeTypes
<1> QED BY <1>2, <1>3, <1>4, <1>5 DEF OneCommand, Answered

\* What changes at the end of bind(), unbind() or connect(), or between them.
LEMMA OneCommandReturn ==
    ASSUME ServeTypes, OneCommand, NEW t \in Threads, NEW st, st \notin Waiting,
           Goto(t, st, "none"), UNCHANGED <<fe, closing, dealers>>,
           srv[t].st \notin Waiting \/ answer[t] # <<>>,
           answer'[t] = <<>>,
           \A u \in Threads : u # t => answer'[u] = answer[u] /\ eps'[u] = eps[u]
    PROVE  OneCommand'
<1>2. srv'[t].st = st /\ \A u \in Threads : u # t => srv'[u] = srv[u]
  BY DEF Goto, ServeTypes
<1>3. (\A i \in DOMAIN fe[t] : fe[t][i].cmd \notin WaitCmds) /\ closing.sender # t
  BY Idle
<1>4. ASSUME NEW b \in Actors, NEW i \in DOMAIN fe'[b], fe'[b][i].cmd \in WaitCmds
      PROVE  Waited(b, i)'
  BY <1>2, <1>3, <1>4 DEF Waited, OneCommand
<1>5. closing # NotClosing => closing.sender \in Threads
  BY DEF ServeTypes
<1> QED BY <1>2, <1>3, <1>4, <1>5 DEF OneCommand, Answered, Waiting

\* The broker has answered a thread whose command it has taken.
LEMMA OneCommandAnswer ==
    ASSUME ServeTypes, OneCommand, NEW t \in Threads, NEW v \in Nat, UNCHANGED <<srv, eps>>,
           srv[t].st \in Waiting, answer[t] = <<>>, answer' = Answer(t, v),
           \A i \in DOMAIN fe'[t] : fe'[t][i].cmd \notin WaitCmds,
           \A b \in Actors : b # t => fe'[b] = fe[b],
           closing' = NotClosing, closing = NotClosing \/ closing.sender = t,
           dealers \in Nat, dealers' \in Nat, dealers' >= dealers,
           srv[t].st = "connecting" => v \in 1 .. dealers'
    PROVE  OneCommand'
<1>1. /\ answer'[t] = <<v>> /\ \A u \in Threads : u # t => answer'[u] = answer[u]
  BY AnswerGiven
<1>2. ASSUME NEW b \in Actors, NEW i \in DOMAIN fe'[b], fe'[b][i].cmd \in WaitCmds
      PROVE  Waited(b, i)'
  <2>1. b # t /\ fe'[b] = fe[b]
    BY <1>2
  <2>2. closing'.sender \notin Threads
    BY NothingAssumption DEF NotClosing
  <2> QED BY <1>1, <1>2, <2>1, <2>2 DEF Waited, OneCommand
<1>3. ASSUME NEW u \in Threads, answer'[u] # <<>> PROVE Answered(u)'
  <2>1. CASE u = t
    <3>1. Len(<<v>>) = 1 /\ <<v>>[1] = v
      OBVIOUS
    <3>2. answer'[u] = <<v>> /\ srv'[u] = srv[t]
      BY <1>1, <2>1
    <3> QED BY <3>1, <3>2 DEF Answered, Waiting
  <2>2. CASE u # t
    <3>1. Answered(u) /\ answer'[u] = answer[u]
      BY <1>1, <1>3, <2>2 DEF OneCommand
    <3>2. \A x \in 1 .. dealers : x \in 1 .. dealers'
      OBVIOUS
    <3> QED BY <3>1, <3>2 DEF Answered
  <2> QED BY <2>1, <2>2
<1> QED BY <1>2, <1>3 DEF OneCommand

\* The broker reads a command that a thread waits in: no other is left.
LEMMA ReadWaited ==
    ASSUME ServeTypes, OneCommand, NEW t \in Threads, NEW cmd \in WaitCmds, Front(t, cmd)
    PROVE  /\ \A i \in DOMAIN fe'[t] : fe'[t][i].cmd \notin WaitCmds
           /\ \A b \in Actors : b # t => fe'[b] = fe[b]
           /\ answer[t] = <<>> /\ closing = NotClosing /\ fe[t][1].cmd = cmd
           /\ Head(fe[t]) = fe[t][1] /\ fe[t][1] \in FrontCmd
           /\ cmd = "connect" => srv[t].st = "connecting"
           /\ cmd = "bind" => srv[t].st = "binding" /\ fe[t][1].endpoint = srv[t].cur
           /\ cmd = "unbind" => srv[t].st = "unbinding" /\ fe[t][1].endpoint = srv[t].cur
           /\ srv[t].st \in Waiting
<1>1. t \in Actors
  BY DEF Actors
<1>2. /\ closing = NotClosing /\ Popped(fe, fe', Actors, t) /\ 1 \in DOMAIN fe[t]
      /\ Head(fe[t]) = fe[t][1] /\ fe[t][1].cmd = cmd /\ fe[t][1] \in FrontCmd
  BY <1>1, Read
<1>3. Waited(t, 1)
  BY <1>1, <1>2 DEF OneCommand
<1>4. ASSUME NEW i \in DOMAIN fe'[t] PROVE fe'[t][i].cmd \notin WaitCmds
  <2>1. i \in Nat /\ i > 0 /\ i + 1 \in DOMAIN fe[t] /\ fe'[t][i] = fe[t][i + 1]
    BY <1>2 DEF Popped
  <2>2. i + 1 # 1
    BY <2>1
  <2> QED BY <1>3, <2>1, <2>2 DEF Waited
<1>5. \A b \in Actors : b # t => fe'[b] = fe[b]
  BY <1>2 DEF Popped
<1> QED BY <1>2, <1>3, <1>4, <1>5 DEF Waited, Waiting, WaitCmds

\* Every step keeps OneCommand.
LEMMA NextOneCommand ==
    ASSUME ServeTypes, OneCommand, DealerRoom, Next
    PROVE  OneCommand'
<1> USE DEF frontVars, sockVars, workVars
<1>0. dealers \in Nat /\ Len(routers) + 1 \in Nat /\ Threads \subseteq Actors
  BY DEF ServeTypes, Actors
<1>1. ASSUME NEW t \in Threads, NEW n \in Names, RegisterFactory(t, n) PROVE OneCommand'
  BY <1>1, OneCommandKept DEF RegisterFactory
<1>2. ASSUME NEW t \in Threads, NEW ep \in Endpoints, Bind(t, ep) PROVE OneCommand'
  <2>1. PICK m \in FrontCmd : m = [cmd |-> "bind", endpoint |-> ep]
    BY DEF FrontCmd
  <2>2. ep \in eps'[t] /\ \A u \in Threads : u # t => eps'[u] = eps[u]
    BY <1>2 DEF Bind, ServeTypes
  <2>3. srv[t].st \notin Waiting
    BY <1>2 DEF Bind, At, Waiting
  <2> QED BY <1>2, <2>1, <2>2, <2>3, OneCommandCall DEF Bind
<1>3. ASSUME NEW t \in Threads, BindReturns(t) PROVE OneCommand'
  <2>1. answer'[t] = <<>> /\ \A u \in Threads : u # t => answer'[u] = answer[u]
    BY <1>3, AnswerTaken DEF BindReturns, OneCommand, Answered
  <2>2. "live" \notin Waiting
    BY DEF Waiting
  <2> QED BY <1>3, <2>1, <2>2, OneCommandReturn DEF BindReturns
<1>4. ASSUME NEW t \in Threads, NEW ep \in Endpoints, Unbind(t, ep) PROVE OneCommand'
  <2>1. PICK m \in FrontCmd : m = [cmd |-> "unbind", endpoint |-> ep]
    BY DEF FrontCmd
  <2>3. srv[t].st \notin Waiting
    BY <1>4 DEF Unbind, At, Waiting
  <2> QED BY <1>4, <2>1, <2>3, OneCommandCall DEF Unbind
<1>5. ASSUME NEW t \in Threads, UnbindReturns(t) PROVE OneCommand'
  <2>1. answer'[t] = <<>> /\ \A u \in Threads : u # t => answer'[u] = answer[u]
    BY <1>5, AnswerTaken DEF UnbindReturns, OneCommand, Answered
  <2>2. "destroying" \notin Waiting /\ \A u \in Threads : u # t => eps'[u] = eps[u]
    BY <1>5 DEF Waiting, UnbindReturns, ServeTypes
  <2> QED BY <1>5, <2>1, <2>2, OneCommandReturn DEF UnbindReturns
<1>6. ASSUME NEW t \in Threads, ServerGone(t) \/ DestroyServices(t) PROVE OneCommand'
  <2>1. srv[t].st \notin Waiting
    BY <1>6 DEF ServerGone, DestroyServices, At, Waiting
  <2>2. "gone" \notin Waiting /\ "services_gone" \notin Waiting /\ answer[t] = <<>>
    BY <2>1, Idle DEF Waiting
  <2> QED BY <1>6, <2>1, <2>2, OneCommandReturn DEF ServerGone, DestroyServices
<1>7. ASSUME NEW t \in Threads, Connect(t) PROVE OneCommand'
  <2>1. PICK m \in FrontCmd : m = [cmd |-> "connect"]
    BY DEF FrontCmd
  <2>3. srv[t].st \notin Waiting
    BY <1>7 DEF Connect, At, Waiting
  <2> QED BY <1>7, <2>1, <2>3, OneCommandCall DEF Connect
<1>8. ASSUME NEW t \in Threads, ConnectReturns(t) PROVE OneCommand'
  <2>1. answer'[t] = <<>> /\ \A u \in Threads : u # t => answer'[u] = answer[u]
    BY <1>8, AnswerTaken DEF ConnectReturns, OneCommand, Answered
  <2>2. "live" \notin Waiting
    BY DEF Waiting
  <2> QED BY <1>8, <2>1, <2>2, OneCommandReturn DEF ConnectReturns
<1>9. ASSUME NEW a \in Actors, NEW c \in known, NEW n \in Names, Register(a, c, n) PROVE OneCommand'
  <2>1. PICK m \in FrontCmd : m = [cmd |-> "register", conn |-> c, name |-> n]
    BY DEF FrontCmd, ServeTypes
  <2>2. Pushed(fe, fe', Actors, a, m) /\ m.cmd \notin WaitCmds
    BY <1>9, <2>1, Sent DEF Register, WaitCmds
  <2> QED BY <1>9, <2>2, OneCommandKept DEF Register
<1>10. ASSUME NEW a \in Actors, NEW r \in repliers, Reply(a, r) PROVE OneCommand'
  <2>0. r.conn \in Conns /\ r.ev \in Requests /\ r.q \in Requests
    BY DEF ServeTypes, Replier
  <2>1. PICK m \in FrontCmd : m = ReplyMsg(a, r) /\ m.cmd = "reply"
    BY <2>0, ReplyMsgs
  <2>2. Pushed(fe, fe', Actors, a, m) /\ m.cmd \notin WaitCmds
    BY <1>10, <2>1, Sent DEF Reply, WaitCmds
  <2> QED BY <1>10, <2>2, OneCommandKept DEF Reply
<1>11. ASSUME NEW a \in Actors, NEW c \in known, Request(a, c) PROVE OneCommand'
  <2>1. PICK m \in FrontCmd : m = [cmd |-> "request", conn |-> c, tells |-> RegisteredBy(a, c)]
    BY DEF FrontCmd, RegisteredBy, ServeTypes
  <2>2. Pushed(fe, fe', Actors, a, m) /\ m.cmd \notin WaitCmds
    BY <1>11, <2>1, Sent DEF Request, WaitCmds
  <2> QED BY <1>11, <2>2, OneCommandKept DEF Request
<1>12. ASSUME NEW c \in Conns, NEW n \in Names, ClientSend(c, n) PROVE OneCommand'
  BY <1>12, OneCommandKept DEF ClientSend
<1>13. ASSUME NEW t \in Threads, HandleBind(t) PROVE OneCommand'
  <2>1. /\ \A i \in DOMAIN fe'[t] : fe'[t][i].cmd \notin WaitCmds
        /\ \A b \in Actors : b # t => fe'[b] = fe[b]
        /\ answer[t] = <<>> /\ closing = NotClosing /\ srv[t].st = "binding" /\ srv[t].st \in Waiting
    BY <1>13, ReadWaited DEF HandleBind, WaitCmds
  <2>2. CASE answer' = Answer(t, Len(routers) + 1)
    <3>1. UNCHANGED <<srv, eps, closing, dealers>>
      BY <1>13 DEF HandleBind
    <3> QED BY <1>0, <2>1, <2>2, <3>1, OneCommandAnswer
  <2>3. CASE answer' = answer
    <3>1. Popped(fe, fe', Actors, t)
      BY <1>0, <1>13, Read DEF HandleBind
    <3>2. UNCHANGED <<srv, eps, closing, dealers>>
      BY <1>13 DEF HandleBind
    <3> QED BY <1>0, <2>3, <3>1, <3>2, OneCommandKept
  <2> QED BY <1>13, <2>2, <2>3 DEF HandleBind
<1>14. ASSUME NEW t \in Threads, HandleUnbind(t) PROVE OneCommand'
  <2>1. /\ \A i \in DOMAIN fe'[t] : fe'[t][i].cmd \notin WaitCmds
        /\ \A b \in Actors : b # t => fe'[b] = fe[b]
        /\ answer[t] = <<>> /\ closing = NotClosing /\ srv[t].st = "unbinding"
    BY <1>14, ReadWaited DEF HandleUnbind, WaitCmds
  <2>2. CASE closing' = closing
    <3>1. Popped(fe, fe', Actors, t)
      BY <1>0, <1>14, Read DEF HandleUnbind
    <3>2. UNCHANGED <<srv, eps, answer, dealers>>
      BY <1>14 DEF HandleUnbind
    <3> QED BY <1>0, <2>2, <3>1, <3>2, OneCommandKept
  <2>3. CASE closing'.sender = t
    <3>1. ASSUME NEW b \in Actors, NEW i \in DOMAIN fe'[b], fe'[b][i].cmd \in WaitCmds
          PROVE  Waited(b, i)'
      <4>1. b # t /\ fe'[b] = fe[b]
        BY <2>1, <3>1
      <4> QED BY <1>14, <2>3, <3>1, <4>1 DEF HandleUnbind, Waited, OneCommand
    <3> QED BY <1>14, <2>1, <2>3, <3>1 DEF HandleUnbind, OneCommand, Answered
  <2> QED BY <1>14, <2>2, <2>3 DEF HandleUnbind
<1>15. ASSUME SocketDeleted PROVE OneCommand'
  <2>1. closing.sender \in Threads /\ closing # NotClosing
    BY <1>15 DEF SocketDeleted, ServeTypes
  <2>2. PICK t \in Threads : t = closing.sender
    BY <2>1
  <2>3. /\ srv[t].st \in Waiting /\ srv[t].st # "connecting" /\ answer[t] = <<>>
        /\ \A i \in DOMAIN fe[t] : fe[t][i].cmd \notin WaitCmds
    BY <2>1, <2>2, Idle DEF OneCommand, Waiting
  <2>4. /\ answer' = Answer(t, 0) /\ closing' = NotClosing /\ UNCHANGED <<srv, eps, fe, dealers>>
    BY <1>15, <2>2 DEF SocketDeleted
  <2> QED BY <1>0, <2>2, <2>3, <2>4, OneCommandAnswer
<1>16. ASSUME NEW t \in Threads, HandleConnect(t) PROVE OneCommand'
  <2>1. /\ \A i \in DOMAIN fe'[t] : fe'[t][i].cmd \notin WaitCmds
        /\ \A b \in Actors : b # t => fe'[b] = fe[b]
        /\ answer[t] = <<>> /\ closing = NotClosing /\ srv[t].st \in Waiting
    BY <1>16, ReadWaited DEF HandleConnect, WaitCmds
  <2>2. UNCHANGED <<srv, eps, closing>>
    BY <1>16 DEF HandleConnect
  <2>3. CASE answer' = Answer(t, dealers + 1) /\ dealers' = dealers + 1
    <3>1. dealers + 1 \in 1 .. dealers' /\ dealers + 1 \in Nat /\ dealers' \in Nat /\ dealers' >= dealers
      BY <1>0, <2>3
    <3> QED BY <1>0, <2>1, <2>2, <2>3, <3>1, OneCommandAnswer
  <2>4. CASE UNCHANGED <<answer, dealers>>
    <3>1. Popped(fe, fe', Actors, t)
      BY <1>0, <1>16, Read DEF HandleConnect
    <3> QED BY <1>0, <2>2, <2>4, <3>1, OneCommandKept
  <2> QED BY <1>16, <2>3, <2>4 DEF HandleConnect, dealer_index
<1>17. ASSUME NEW a \in Actors, HandleReply(a) PROVE OneCommand'
  <2>1. Popped(fe, fe', Actors, a)
    BY <1>17, Read DEF HandleReply
  <2> QED BY <1>17, <2>1, OneCommandKept DEF HandleReply
<1>18. ASSUME NEW a \in Actors, HandleRequestOut(a) PROVE OneCommand'
  <2>1. Popped(fe, fe', Actors, a)
    BY <1>18, Read DEF HandleRequestOut
  <2> QED BY <1>18, <2>1, OneCommandKept DEF HandleRequestOut
<1>19. ASSUME NEW a \in Actors, HandleRegister(a) PROVE OneCommand'
  <2>1. Popped(fe, fe', Actors, a)
    BY <1>19, Read DEF HandleRegister
  <2> QED BY <1>19, <2>1, OneCommandKept DEF HandleRegister
<1>20. ASSUME NEW c \in Conns, HandleData(c) PROVE OneCommand'
  BY <1>20, OneCommandKept DEF HandleData
<1>21. ASSUME NEW w \in Workers, RegisterService(w) PROVE OneCommand'
  BY <1>21, OneCommandKept DEF RegisterService
<1>22. ASSUME NEW w \in Workers, HandleRequest(w) PROVE OneCommand'
  <2>1. \/ fe' = fe
        \/ \E m : Pushed(fe, fe', Actors, w, m) /\ m.cmd = "reply"
    BY <1>22, Handled
  <2>2. w \in Actors /\ "reply" \notin WaitCmds
    BY DEF Actors, WaitCmds
  <2>3. UNCHANGED <<srv, eps, answer, closing, dealers>>
    BY <1>22 DEF HandleRequest
  <2> QED BY <2>1, <2>2, <2>3, OneCommandKept
<1> QED BY <1>1, <1>2, <1>3, <1>4, <1>5, <1>6, <1>7, <1>8, <1>9, <1>10, <1>11, <1>12, <1>13,
           <1>14, <1>15, <1>16, <1>17, <1>18, <1>19, <1>20, <1>21, <1>22
        DEF Next

-----------------------------------------------------------------------------
(* Room for DEALER sockets                                                 *)

\* What a step changes of the threads: at most t, and t gets its own answer.
OnlyThread(t) ==
    \A u \in Threads : u # t => srv'[u] = srv[u] /\ eps'[u] = eps[u] /\ answer'[u] = answer[u]

\* A step of a thread that is not connecting, before or after.
LEMMA RoomKept ==
    ASSUME DealerRoom, UNCHANGED dealers, NEW t, OnlyThread(t),
           t \in Threads => srv[t].st # "connecting" /\ srv'[t].st # "connecting"
    PROVE  DealerRoom'
<1>1. Connecting' = Connecting
  BY DEF Connecting, OnlyThread
<1>2. Unconnected' = Unconnected
  BY DEF Unconnected, OnlyThread
<1> QED BY <1>1, <1>2 DEF DealerRoom

\* Connect makes one more thread wait for a socket.
LEMMA RoomConnect ==
    ASSUME ServeTypes, OneCommand, DealerRoom, NEW t \in Threads, Connect(t)
    PROVE  DealerRoom'
<1>1. /\ srv[t].st = "live" /\ srv'[t].st = "connecting" /\ answer' = answer
      /\ \A u \in Threads : u # t => srv'[u] = srv[u]
      /\ UNCHANGED dealers
  BY DEF Connect, At, Call, Goto, ServeTypes, sockVars
<1>2. answer[t] = <<>>
  BY <1>1, Idle DEF Waiting
<1>3. Connecting' = Connecting \cup {t} /\ Unconnected' = Unconnected \cup {t} /\ t \notin Unconnected
  BY <1>1, <1>2 DEF Connecting, Unconnected
<1>4. dealers + Cardinality(Connecting) < MaxConnects
  BY DEF Connect, Connecting
<1>5. /\ IsFiniteSet(Connecting) /\ IsFiniteSet(Unconnected)
      /\ Cardinality(Connecting) \in Nat /\ Cardinality(Unconnected) \in Nat
      /\ Cardinality(Unconnected) <= Cardinality(Connecting)
      /\ dealers \in Nat
  BY RoomFacts
<1>6. IsFiniteSet(Connecting') /\ Cardinality(Unconnected') = Cardinality(Unconnected) + 1
  BY <1>3, <1>5, FS_AddElement
<1>7. dealers + Cardinality(Unconnected) + 1 <= MaxConnects
  BY <1>4, <1>5, SizesAssumption
<1> QED BY <1>1, <1>5, <1>6, <1>7 DEF DealerRoom

\* The broker makes the socket of one of the threads that wait.
LEMMA RoomMade ==
    ASSUME ServeTypes, OneCommand, DealerRoom, NEW t \in Threads, HandleConnect(t),
           dealers' = dealers + 1, answer' = Answer(t, dealers + 1)
    PROVE  DealerRoom'
<1>1. srv[t].st = "connecting" /\ answer[t] = <<>>
  BY ReadWaited DEF HandleConnect, WaitCmds
<1>2. dealers' = dealers + 1 /\ answer' = Answer(t, dealers + 1) /\ UNCHANGED srv
  BY DEF HandleConnect, dealer_index
<1>3. dealers + 1 \in Nat
  BY DEF ServeTypes
<1>4. answer'[t] = <<dealers + 1>> /\ \A u \in Threads : u # t => answer'[u] = answer[u]
  BY <1>1, <1>2, <1>3, AnswerGiven
<1>5. answer'[t] # <<>>
  BY <1>4
<1>6. Connecting' = Connecting /\ Unconnected' = Unconnected \ {t} /\ t \in Unconnected
  BY <1>1, <1>2, <1>4, <1>5 DEF Connecting, Unconnected
<1>7. IsFiniteSet(Unconnected) /\ Cardinality(Unconnected) \in Nat /\ dealers \in Nat
  BY RoomFacts
<1>8. Cardinality(Unconnected') = Cardinality(Unconnected) - 1
  BY <1>6, <1>7, FS_RemoveElement
<1>9. (dealers + 1) + (Cardinality(Unconnected) - 1) <= MaxConnects
  BY <1>7, SizesAssumption DEF DealerRoom
<1> QED BY <1>2, <1>6, <1>8, <1>9 DEF DealerRoom

\* A thread has its socket, and waits no more.
LEMMA RoomTaken ==
    ASSUME ServeTypes, OneCommand, DealerRoom, NEW t \in Threads, ConnectReturns(t)
    PROVE  DealerRoom'
<1>1. answer[t] # <<>> /\ Len(answer[t]) = 1
  BY DEF ConnectReturns, OneCommand, Answered
<1>2. answer'[t] = <<>> /\ \A u \in Threads : u # t => answer'[u] = answer[u]
  BY <1>1, AnswerTaken DEF ConnectReturns
<1>3. /\ srv'[t].st = "live" /\ UNCHANGED dealers
      /\ \A u \in Threads : u # t => srv'[u] = srv[u]
  BY DEF ConnectReturns, Goto, ServeTypes, sockVars
<1>4. Connecting' \in SUBSET Connecting /\ Unconnected' = Unconnected
  BY <1>1, <1>2, <1>3 DEF Connecting, Unconnected
<1>5. IsFiniteSet(Connecting')
  BY <1>4, FS_Subset DEF DealerRoom
<1> QED BY <1>3, <1>4, <1>5 DEF DealerRoom

-----------------------------------------------------------------------------
(* The threads and their endpoints                                         *)

\* The steps that change a thread, an answer or the socket to delete.
ThreadMoves(t) ==
    \/ BindReturns(t) \/ UnbindReturns(t) \/ ConnectReturns(t)
    \/ ServerGone(t) \/ DestroyServices(t) \/ Connect(t)
    \/ \E ep \in Endpoints : Bind(t, ep) \/ Unbind(t, ep)

\* All the other steps leave the threads, their answers and the sockets alone.
Quiet == UNCHANGED <<srv, eps, answer, routers, bind_map, closing, dealers, factories>>

\* Every step is of one of these sorts.
LEMMA Sorts ==
    Next => \/ Quiet /\ UNCHANGED inbox
            \/ SocketDeleted
            \/ \E c \in Conns : Quiet /\ (HandleData(c) \/ \E n \in Names : ClientSend(c, n))
            \/ \E t \in Threads : \/ ThreadMoves(t)
                                  \/ HandleBind(t) \/ HandleUnbind(t) \/ HandleConnect(t)
BY DEF Next, ThreadMoves, Quiet, frontVars, sockVars, workVars, RegisterFactory, HandleReply,
       HandleRequestOut, HandleRegister, Reply, Request, Register, HandleData, ClientSend,
       RegisterService, HandleRequest

\* What a step of a thread changes.
LEMMA ThreadMoved ==
    ASSUME ServeTypes, OneCommand, NEW t \in Threads, ThreadMoves(t)
    PROVE  /\ OnlyThread(t)
           /\ UNCHANGED <<routers, bind_map, closing, dealers, inbox>>
           /\ closing.sender # t /\ answer'[t] = <<>>
           /\ srv[t].st \notin Waiting \/ answer[t] # <<>>
           /\ ~BindReturns(t) => UNCHANGED factories
<1> USE DEF frontVars, sockVars, workVars
<1>1. /\ UNCHANGED <<routers, bind_map, closing, dealers, inbox>>
      /\ \A u \in Threads : u # t => srv'[u] = srv[u] /\ eps'[u] = eps[u]
      /\ ~BindReturns(t) => UNCHANGED factories
  BY DEF ThreadMoves, BindReturns, UnbindReturns, ConnectReturns, ServerGone, DestroyServices,
         Connect, Bind, Unbind, Call, Goto, ServeTypes
<1>2. \/ srv[t].st \notin Waiting /\ UNCHANGED answer
      \/ answer[t] # <<>> /\ answer' = Pop(answer, t)
  BY DEF ThreadMoves, BindReturns, UnbindReturns, ConnectReturns, ServerGone, DestroyServices,
         Connect, Bind, Unbind, At, Waiting
<1>3. answer'[t] = <<>> /\ \A u \in Threads : u # t => answer'[u] = answer[u]
  BY <1>2, Idle, AnswerTaken DEF OneCommand, Answered
<1>4. closing.sender # t
  BY <1>2, Idle
<1> QED BY <1>1, <1>2, <1>3, <1>4 DEF OnlyThread

\* Every step keeps DealerRoom.
LEMMA NextDealerRoom ==
    ASSUME ServeTypes, OneCommand, DealerRoom, Next
    PROVE  DealerRoom'
<1>1. CASE Quiet
  BY <1>1 DEF Quiet, DealerRoom, Connecting, Unconnected
<1>2. CASE SocketDeleted
  <2>1. /\ closing.sender \in Threads /\ srv[closing.sender].st = "unbinding"
        /\ answer[closing.sender] = <<>> /\ answer' = Answer(closing.sender, 0)
        /\ UNCHANGED <<srv, eps, dealers>>
    BY <1>2 DEF SocketDeleted, ServeTypes, OneCommand
  <2>2. PICK t \in Threads : t = closing.sender
    BY <2>1
  <2>3. OnlyThread(t)
    BY <2>1, <2>2, AnswerGiven DEF OnlyThread
  <2> QED BY <2>1, <2>2, <2>3, RoomKept
<1>3. ASSUME NEW t \in Threads, ThreadMoves(t) PROVE DealerRoom'
  <2>1. CASE Connect(t)
    BY <2>1, RoomConnect
  <2>2. CASE ConnectReturns(t)
    BY <2>2, RoomTaken
  <2>3. CASE ~Connect(t) /\ ~ConnectReturns(t)
    <3>1. OnlyThread(t) /\ UNCHANGED dealers
      BY <1>3, ThreadMoved
    <3>2. srv[t].st # "connecting"
      BY <1>3, <2>3 DEF ThreadMoves, BindReturns, UnbindReturns, ServerGone, DestroyServices,
                        Bind, Unbind, At
    <3>3. \E st \in {"live", "binding", "unbinding", "destroying", "gone", "services_gone"} :
            \E ep \in Endpoints \cup {"none"} : Goto(t, st, ep)
      BY <1>3, <2>3 DEF ThreadMoves, BindReturns, UnbindReturns, ServerGone, DestroyServices,
                        Bind, Unbind, Call
    <3>4. srv'[t].st # "connecting"
      BY <3>3 DEF Goto, ServeTypes
    <3> QED BY <3>1, <3>2, <3>4, RoomKept
  <2> QED BY <2>1, <2>2, <2>3
<1>4. ASSUME NEW t \in Threads, HandleBind(t) PROVE DealerRoom'
  <2>1. srv[t].st = "binding" /\ answer[t] = <<>>
    BY <1>4, ReadWaited DEF HandleBind, WaitCmds
  <2>2. UNCHANGED <<srv, eps, dealers>> /\ (answer' = answer \/ answer' = Answer(t, Len(routers) + 1))
    BY <1>4 DEF HandleBind
  <2>3. Len(routers) + 1 \in Nat
    BY DEF ServeTypes
  <2>4. OnlyThread(t)
    BY <2>1, <2>2, <2>3, AnswerGiven DEF OnlyThread
  <2> QED BY <2>1, <2>2, <2>4, RoomKept
<1>5. ASSUME NEW t \in Threads, HandleUnbind(t) PROVE DealerRoom'
  BY <1>5 DEF HandleUnbind, frontVars, DealerRoom, Connecting, Unconnected
<1>6. ASSUME NEW t \in Threads, HandleConnect(t) PROVE DealerRoom'
  <2>1. CASE dealers' = dealers + 1 /\ answer' = Answer(t, dealers + 1)
    BY <1>6, <2>1, RoomMade
  <2>2. CASE UNCHANGED <<dealers, answer>>
    BY <1>6, <2>2 DEF HandleConnect, DealerRoom, Connecting, Unconnected
  <2> QED BY <1>6, <2>1, <2>2 DEF HandleConnect, dealer_index
<1> QED BY <1>1, <1>2, <1>3, <1>4, <1>5, <1>6, Sorts

\* A step of a thread does not change what is bound.
LEMMA BoundMoved ==
    ASSUME ServeTypes, OneCommand, NEW t \in Threads, ThreadMoves(t)
    PROVE  \A u \in Threads, ep \in Endpoints : Bound(u, ep)' <=> Bound(u, ep)
<1>1. /\ OnlyThread(t) /\ UNCHANGED closing
      /\ closing.sender # t /\ answer'[t] = <<>>
      /\ srv[t].st \notin Waiting \/ answer[t] # <<>>
  BY ThreadMoved
<1>2. ASSUME NEW u \in Threads, NEW ep \in Endpoints, u # t
      PROVE  Bound(u, ep)' <=> Bound(u, ep)
  BY <1>1, <1>2 DEF OnlyThread, Bound
<1>3. ASSUME NEW ep \in Endpoints
      PROVE  Bound(t, ep)' <=> Bound(t, ep)
  <2>0. /\ srv \in [Threads -> [st : States, cur : Endpoints \cup {"none"}]]
        /\ eps \in [Threads -> SUBSET Endpoints]
    BY DEF ServeTypes
  <2>1. CASE BindReturns(t)
    <3>1. /\ srv[t].st = "binding" /\ answer[t] # <<>> /\ srv'[t].st = "live" /\ eps' = eps
      BY <2>0, <2>1 DEF BindReturns, At, Goto
    <3> QED BY <3>1 DEF Bound
  <2>2. CASE UnbindReturns(t)
    <3>1. /\ srv[t].st = "unbinding" /\ answer[t] # <<>> /\ srv'[t].st = "destroying"
          /\ eps'[t] = eps[t] \ {srv[t].cur}
      BY <2>0, <2>2 DEF UnbindReturns, At, Goto
    <3> QED BY <3>1 DEF Bound
  <2>3. CASE ConnectReturns(t)
    <3>1. /\ srv[t].st = "connecting" /\ srv'[t].st = "live" /\ eps' = eps
      BY <2>0, <2>3 DEF ConnectReturns, At, Goto
    <3> QED BY <3>1 DEF Bound
  <2>4. CASE ServerGone(t) \/ DestroyServices(t) \/ Connect(t)
    <3>1. srv[t].st \in {"live", "destroying", "gone"} /\ eps' = eps
      BY <2>4 DEF ServerGone, DestroyServices, Connect, At
    <3>2. srv'[t].st \in {"gone", "services_gone", "connecting"}
      BY <2>0, <2>4 DEF ServerGone, DestroyServices, Connect, Goto, Call
    <3> QED BY <3>1, <3>2 DEF Bound
  <2>5. ASSUME NEW e \in Endpoints, Bind(t, e) PROVE Bound(t, ep)' <=> Bound(t, ep)
    <3>1. /\ srv[t].st = "live" /\ srv'[t] = [st |-> "binding", cur |-> e]
          /\ eps'[t] = eps[t] \cup {e} /\ e \notin eps[t]
      BY <2>0, <2>5 DEF Bind, At, Goto, Call
    <3> QED BY <1>1, <3>1 DEF Bound
  <2>6. ASSUME NEW e \in Endpoints, Unbind(t, e) PROVE Bound(t, ep)' <=> Bound(t, ep)
    <3>1. /\ srv[t].st \in {"live", "destroying"} /\ srv'[t] = [st |-> "unbinding", cur |-> e]
          /\ eps' = eps
      BY <2>0, <2>6 DEF Unbind, At, Goto, Call
    <3> QED BY <1>1, <3>1 DEF Bound
  <2> QED BY <2>1, <2>2, <2>3, <2>4, <2>5, <2>6 DEF ThreadMoves
<1> QED BY <1>2, <1>3

\* Steps that leave the sockets and what is bound alone keep BindMap.
LEMMA BindMapKept ==
    ASSUME BindMap, UNCHANGED <<routers, bind_map, closing>>,
           \A u \in Threads, ep \in Endpoints : Bound(u, ep)' <=> Bound(u, ep)
    PROVE  BindMap'
BY DEF BindMap

\* They keep Owners too, when no thread gets a new answer.
LEMMA OwnersKept ==
    ASSUME ServeTypes, Owners, UNCHANGED <<routers, bind_map, closing, factories>>,
           \A u \in Threads, ep \in Endpoints : Bound(u, ep)' <=> Bound(u, ep),
           \A u \in Threads : srv'[u].st = "binding" /\ answer'[u] # <<>> =>
              srv[u].st = "binding" /\ answer'[u] = answer[u]
    PROVE  Owners'
<1>0. DOMAIN bind_map \subseteq Endpoints /\ factories \in [Routers -> Threads \cup {NoThread}]
  BY DEF ServeTypes
<1>1. \A u \in Threads : \A i : OwnSocket(u, i)' <=> OwnSocket(u, i)
  BY <1>0 DEF OwnSocket
<1>2. \A u \in Threads : srv'[u].st = "binding" /\ answer'[u] # <<>> =>
         srv[u].st = "binding" /\ answer[u] # <<>> /\ answer'[u] = answer[u]
  OBVIOUS
<1>3. \A i \in Routers : factories[i] # NoThread => factories[i] \in Threads
  BY <1>0
<1>4. ASSUME NEW u \in Threads, srv'[u].st = "binding", answer'[u] # <<>> PROVE Returning(u)'
  <2>1. Returning(u) /\ answer'[u] = answer[u]
    BY <1>2, <1>4 DEF Owners
  <2> QED BY <1>1, <2>1 DEF Returning
<1>5. ASSUME NEW i \in Routers, factories'[i] # NoThread PROVE OwnerOf(i)'
  <2>1. OwnerOf(i) /\ factories[i] \in Threads /\ factories'[i] = factories[i]
    BY <1>3, <1>5 DEF Owners
  <2> QED BY <1>1, <2>1 DEF OwnerOf
<1> QED BY <1>4, <1>5 DEF Owners

\* bind() returns: from now on the router has factories.
LEMMA OwnersReturn ==
    ASSUME ServeTypes, OneCommand, BindMap, Owners, NEW t \in Threads, BindReturns(t)
    PROVE  Owners'
<1>0. /\ DOMAIN bind_map \subseteq Endpoints
      /\ factories \in [Routers -> Threads \cup {NoThread}]
      /\ routers \in Seq(RouterRec) /\ Len(routers) \in Nat
  BY DEF ServeTypes
<1>1. ThreadMoves(t)
  BY DEF ThreadMoves
<1>2. /\ OnlyThread(t) /\ UNCHANGED <<routers, bind_map, closing>>
  BY <1>1, ThreadMoved
<1>3. \A u \in Threads : \A i : OwnSocket(u, i)' <=> OwnSocket(u, i)
  BY <1>0, <1>1, <1>2, BoundMoved DEF OwnSocket
<1>4. /\ srv[t].st = "binding" /\ answer[t] # <<>> /\ Len(answer[t]) = 1
      /\ srv'[t].st = "live"
      /\ factories' = [factories EXCEPT ![Head(answer[t])] = t]
  BY DEF BindReturns, At, Goto, OneCommand, Answered, ServeTypes
<1>5. PICK k \in Nat : k = answer[t][1] /\ k = Head(answer[t])
  BY <1>4, AnswerTaken DEF BindReturns
<1>6. k \in 1 .. Len(routers) /\ OwnSocket(t, k)
  BY <1>4, <1>5 DEF Owners, Returning
<1>7. ASSUME NEW u \in Threads, srv'[u].st = "binding", answer'[u] # <<>> PROVE Returning(u)'
  <2>1. u # t /\ srv[u].st = "binding" /\ answer[u] # <<>> /\ answer'[u] = answer[u]
    BY <1>2, <1>4, <1>7 DEF OnlyThread
  <2>2. PICK l \in 1 .. Len(routers) : l = answer[u][1]
    BY <2>1 DEF Owners, Returning
  <2>3. OwnSocket(u, l) /\ (l \in Routers => factories[l] = NoThread)
    BY <2>1, <2>2 DEF Owners, Returning
  <2>4. l # k
    BY <1>0, <1>6, <2>1, <2>3 DEF OwnSocket, BindMap
  <2>5. l \in Routers => factories'[l] = NoThread
    BY <1>0, <1>4, <1>5, <2>3, <2>4
  <2>6. OwnSocket(u, l)'
    BY <1>3, <2>3
  <2> QED BY <1>2, <2>1, <2>2, <2>5, <2>6 DEF Returning
<1>8. ASSUME NEW i \in Routers, factories'[i] # NoThread PROVE OwnerOf(i)'
  <2>1. CASE i = k
    <3>1. factories'[i] = t
      BY <1>0, <1>4, <1>5, <2>1
    <3>2. OwnSocket(t, i)'
      BY <1>3, <1>6, <2>1
    <3> QED BY <1>2, <1>6, <2>1, <3>1, <3>2 DEF OwnerOf
  <2>2. CASE i # k
    <3>1. factories'[i] = factories[i] /\ factories[i] \in Threads
      BY <1>0, <1>4, <1>5, <1>8, <2>2
    <3>2. PICK u \in Threads : u = factories[i]
      BY <3>1
    <3>3. OwnerOf(i) /\ (OwnSocket(u, i)' <=> OwnSocket(u, i))
      BY <1>3, <1>8, <3>1 DEF Owners
    <3> QED BY <1>2, <3>1, <3>2, <3>3 DEF OwnerOf
  <2> QED BY <2>1, <2>2
<1> QED BY <1>7, <1>8 DEF Owners

\* The thread whose unbind command the broker has not read has bound the endpoint.
LEMMA UnbindBound ==
    ASSUME ServeTypes, OneCommand, BindMap, NEW t \in Threads, HandleUnbind(t)
    PROVE  /\ srv[t].st = "unbinding" /\ srv[t].cur \in Endpoints /\ Bound(t, srv[t].cur)
           /\ srv[t].cur \in DOMAIN bind_map
           /\ closing = NotClosing /\ answer[t] = <<>>
           /\ closing' = [index |-> bind_map[srv[t].cur], sender |-> t]
           /\ bind_map' = [e \in DOMAIN bind_map \ {srv[t].cur} |-> bind_map[e]]
           /\ UNCHANGED <<srv, eps, answer, routers, factories, inbox, dealers>>
<1>1. /\ srv[t].st = "unbinding" /\ fe[t][1].endpoint = srv[t].cur /\ answer[t] = <<>>
      /\ Head(fe[t]) = fe[t][1] /\ closing = NotClosing
  BY ReadWaited DEF HandleUnbind, WaitCmds
<1>2. srv[t].cur \in eps[t] /\ srv[t].cur \in Endpoints
  BY <1>1 DEF OneCommand, ServeTypes
<1>3. Bound(t, srv[t].cur)
  BY <1>1, <1>2, NothingAssumption DEF Bound, NotClosing
<1>4. srv[t].cur \in DOMAIN bind_map
  BY <1>2, <1>3 DEF BindMap
<1>5. UNCHANGED <<srv, eps, answer, routers, factories, inbox, dealers>>
  BY DEF HandleUnbind, frontVars
<1> QED BY <1>1, <1>2, <1>3, <1>4, <1>5 DEF HandleUnbind

\* The broker binds an endpoint that no open socket has.
LEMMA BindBound ==
    ASSUME ServeTypes, OneCommand, BindMap, NEW t \in Threads, HandleBind(t)
    PROVE  /\ srv[t].st = "binding" /\ srv[t].cur \in Endpoints /\ srv[t].cur \in eps[t]
           /\ closing = NotClosing /\ answer[t] = <<>>
           /\ UNCHANGED <<srv, eps, closing, factories, inbox, dealers>>
           /\ \/ fault' = "bind_throws" /\ UNCHANGED <<routers, bind_map, answer>>
              \/ /\ ~InUse(srv[t].cur) /\ srv[t].cur \notin DOMAIN bind_map
                 /\ routers' = Append(routers, [endpoint |-> srv[t].cur, st |-> "open"])
                 /\ bind_map' = RecordBind(srv[t].cur, Len(routers) + 1)
                 /\ answer' = Answer(t, Len(routers) + 1)
<1>1. /\ srv[t].st = "binding" /\ fe[t][1].endpoint = srv[t].cur /\ answer[t] = <<>>
      /\ Head(fe[t]) = fe[t][1] /\ closing = NotClosing /\ fe[t][1] \in FrontCmd
      /\ fe[t][1].cmd = "bind"
  BY ReadWaited DEF HandleBind, WaitCmds
<1>2. srv[t].cur \in eps[t] /\ srv[t].cur \in Endpoints
  BY <1>1, FrontFields DEF OneCommand
<1>3. ~InUse(srv[t].cur) => srv[t].cur \notin DOMAIN bind_map
  <2>1. DOMAIN routers = 1 .. Len(routers)
    BY DEF ServeTypes
  <2> QED BY <2>1 DEF InUse, BindMap
<1>4. UNCHANGED <<srv, eps, closing, factories, inbox, dealers>>
  BY DEF HandleBind
<1> QED BY <1>1, <1>2, <1>3, <1>4 DEF HandleBind

\* A bind keeps BindMap and Owners.
LEMMA BindStep ==
    ASSUME ServeTypes, OneCommand, BindMap, Owners, NEW t \in Threads, HandleBind(t)
    PROVE  BindMap' /\ Owners'
<1>0. /\ DOMAIN bind_map \subseteq Endpoints
      /\ factories \in [Routers -> Threads \cup {NoThread}]
      /\ routers \in Seq(RouterRec) /\ Len(routers) \in Nat
  BY DEF ServeTypes
<1>1. /\ srv[t].st = "binding" /\ srv[t].cur \in Endpoints /\ srv[t].cur \in eps[t]
      /\ closing = NotClosing /\ answer[t] = <<>>
      /\ UNCHANGED <<srv, eps, closing, factories>>
  BY BindBound
<1>2. CASE UNCHANGED <<routers, bind_map, answer>>
  <2>1. \A u \in Threads, ep \in Endpoints : Bound(u, ep)' <=> Bound(u, ep)
    BY <1>1, <1>2 DEF Bound
  <2> QED BY <1>1, <1>2, <2>1, BindMapKept, OwnersKept
<1>3. CASE /\ srv[t].cur \notin DOMAIN bind_map
           /\ routers' = Append(routers, [endpoint |-> srv[t].cur, st |-> "open"])
           /\ bind_map' = RecordBind(srv[t].cur, Len(routers) + 1)
           /\ answer' = Answer(t, Len(routers) + 1)
  <2>1. PICK ep \in Endpoints : ep = srv[t].cur
    BY <1>1
  <2>2. PICK k \in Nat : k = Len(routers) + 1
    BY <1>0
  <2>3. PICK x : x = [endpoint |-> ep, st |-> "open"]
    OBVIOUS
  <2>x. x \in RouterRec /\ x.endpoint = ep /\ x.st = "open"
    BY <2>3 DEF RouterRec
  <2>4. /\ Len(routers') = k /\ routers'[k] = x
        /\ \A i \in 1 .. Len(routers) : routers'[i] = routers[i]
    BY <1>0, <1>3, <2>1, <2>2, <2>3, <2>x
  <2>5. /\ DOMAIN bind_map' = DOMAIN bind_map \cup {ep} /\ bind_map'[ep] = k
        /\ \A e \in DOMAIN bind_map : bind_map'[e] = bind_map[e]
        /\ ep \notin DOMAIN bind_map
    BY <1>3, <2>1, <2>2 DEF RecordBind
  <2>6. answer'[t] = <<k>> /\ \A u \in Threads : u # t => answer'[u] = answer[u]
    BY <1>1, <1>3, <2>2, AnswerGiven
  <2>7. answer'[t] # <<>> /\ answer'[t][1] = k
    BY <2>6
  <2>8. Bound(t, ep)'
    BY <1>1, <2>1, <2>7 DEF Bound
  <2>9. ASSUME NEW u \in Threads, NEW e \in Endpoints, u # t \/ e # ep
        PROVE  Bound(u, e)' <=> Bound(u, e)
    BY <1>1, <2>1, <2>6, <2>9 DEF Bound
  <2>10. \A u \in Threads : ~Bound(u, ep)
    BY <2>5 DEF BindMap
  <2>11. BindMap'
    <3>1. ASSUME NEW e \in DOMAIN bind_map'
          PROVE  /\ bind_map'[e] \in 1 .. Len(routers')
                 /\ routers'[bind_map'[e]].endpoint = e /\ routers'[bind_map'[e]].st = "open"
                 /\ bind_map'[e] # closing'.index
      <4>1. CASE e = ep
        BY <1>0, <1>1, <2>2, <2>x, <2>4, <2>5, <4>1 DEF NotClosing
      <4>2. CASE e # ep
        <5>1. e \in DOMAIN bind_map /\ bind_map'[e] = bind_map[e]
          BY <2>5, <4>2
        <5>2. bind_map[e] \in 1 .. Len(routers) /\ bind_map[e] \in 1 .. Len(routers')
          BY <1>0, <2>2, <2>4, <5>1 DEF BindMap
        <5> QED BY <1>1, <2>4, <5>1, <5>2 DEF BindMap
      <4> QED BY <4>1, <4>2
    <3>2. ASSUME NEW u \in Threads, NEW e \in Endpoints, Bound(u, e)' PROVE e \in DOMAIN bind_map'
      BY <2>5, <2>9, <3>2 DEF BindMap
    <3>3. ASSUME NEW u \in Threads, NEW v \in Threads, NEW e \in Endpoints, Bound(u, e)', Bound(v, e)'
          PROVE  u = v
      BY <2>9, <2>10, <3>3 DEF BindMap
    <3>4. closing' = NotClosing
      BY <1>1
    <3> QED BY <3>1, <3>2, <3>3, <3>4 DEF BindMap
  <2>12. ASSUME NEW u \in Threads, NEW i \in 1 .. Len(routers), OwnSocket(u, i)
         PROVE  OwnSocket(u, i)'
    <3>1. PICK e \in Endpoints : e = routers[i].endpoint
      BY <1>0, <2>12 DEF OwnSocket
    <3>2. e \in DOMAIN bind_map /\ bind_map[e] = i /\ Bound(u, e) /\ e # ep
      BY <2>5, <2>12, <3>1 DEF OwnSocket
    <3>3. routers'[i] = routers[i] /\ Bound(u, e)'
      BY <2>4, <2>9, <3>2
    <3> QED BY <2>5, <3>1, <3>2, <3>3 DEF OwnSocket
  <2>13. ASSUME NEW u \in Threads, srv'[u].st = "binding", answer'[u] # <<>> PROVE Returning(u)'
    <3>1. CASE u = t
      <4>1. k \in Routers => factories[k] = NoThread
        BY <1>0, <2>2 DEF Owners, OwnerOf
      <4>2. OwnSocket(t, k)'
        BY <2>x, <2>4, <2>5, <2>8 DEF OwnSocket
      <4>3. k \in 1 .. Len(routers')
        BY <1>0, <2>2, <2>4
      <4> QED BY <1>1, <2>7, <3>1, <4>1, <4>2, <4>3 DEF Returning
    <3>2. CASE u # t
      <4>1. srv[u].st = "binding" /\ answer[u] # <<>> /\ answer'[u] = answer[u]
        BY <1>1, <2>6, <2>13, <3>2
      <4>2. Returning(u)
        BY <4>1 DEF Owners
      <4>3. PICK i \in 1 .. Len(routers) : i = answer[u][1]
        BY <4>2 DEF Returning
      <4>4. OwnSocket(u, i)' /\ i \in 1 .. Len(routers')
        BY <1>0, <2>2, <2>4, <2>12, <4>2, <4>3 DEF Returning
      <4> QED BY <1>1, <4>1, <4>2, <4>3, <4>4 DEF Returning
    <3> QED BY <3>1, <3>2
  <2>14. ASSUME NEW i \in Routers, factories'[i] # NoThread PROVE OwnerOf(i)'
    <3>1. OwnerOf(i) /\ factories'[i] = factories[i] /\ factories[i] # NoThread
      BY <1>1, <2>14 DEF Owners
    <3>2. PICK u \in Threads : u = factories[i]
      BY <1>0, <3>1
    <3>3. i \in 1 .. Len(routers)
      BY <1>0, <3>1, SizesAssumption DEF OwnerOf, Routers
    <3>4. i <= Len(routers') /\ routers'[i] = routers[i]
      BY <1>0, <2>2, <2>4, <3>3
    <3>5. closing.index # i
      BY <1>1, <3>3 DEF NotClosing
    <3>6. routers[i].st = "open" => OwnSocket(u, i)'
      BY <2>12, <3>1, <3>2, <3>3, <3>5 DEF OwnerOf
    <3> QED BY <3>1, <3>2, <3>4, <3>6 DEF OwnerOf
  <2> QED BY <2>11, <2>13, <2>14 DEF Owners
<1> QED BY <1>2, <1>3, BindBound

\* An unbind keeps BindMap and Owners.
LEMMA UnbindStep ==
    ASSUME ServeTypes, OneCommand, BindMap, Owners, NEW t \in Threads, HandleUnbind(t)
    PROVE  BindMap' /\ Owners'
<1>0. /\ DOMAIN bind_map \subseteq Endpoints
      /\ factories \in [Routers -> Threads \cup {NoThread}]
  BY DEF ServeTypes
<1>1. PICK ep \in Endpoints : ep = srv[t].cur
  BY UnbindBound
<1>2. /\ srv[t].st = "unbinding" /\ Bound(t, ep) /\ ep \in DOMAIN bind_map
      /\ closing = NotClosing
      /\ closing'.index = bind_map[ep] /\ closing'.sender = t
      /\ bind_map' = [e \in DOMAIN bind_map \ {ep} |-> bind_map[e]]
      /\ UNCHANGED <<srv, eps, answer, routers, factories>>
  <2>1. closing' = [index |-> bind_map[ep], sender |-> t]
    BY <1>1, UnbindBound
  <2>2. closing'.index = bind_map[ep] /\ closing'.sender = t
    BY <2>1
  <2>3. Bound(t, ep)
    BY <1>1, UnbindBound
  <2> QED BY <1>1, <2>2, <2>3, UnbindBound
<1>3. /\ DOMAIN bind_map' = DOMAIN bind_map \ {ep}
      /\ \A e \in DOMAIN bind_map : e # ep => bind_map'[e] = bind_map[e]
  BY <1>2
<1>4. ~Bound(t, ep)'
  BY <1>1, <1>2 DEF Bound
<1>5. ASSUME NEW u \in Threads, NEW e \in Endpoints, u # t \/ e # ep
      PROVE  Bound(u, e)' <=> Bound(u, e)
  BY <1>1, <1>2, <1>5, NothingAssumption DEF Bound, NotClosing
<1>6. \A u \in Threads : Bound(u, ep) => u = t
  BY <1>2 DEF BindMap
<1>7. BindMap'
  <2>1. ASSUME NEW e \in DOMAIN bind_map'
        PROVE  /\ bind_map'[e] \in 1 .. Len(routers')
               /\ routers'[bind_map'[e]].endpoint = e /\ routers'[bind_map'[e]].st = "open"
               /\ bind_map'[e] # closing'.index
    <3>1. e \in DOMAIN bind_map /\ e # ep /\ bind_map'[e] = bind_map[e]
      BY <1>3, <2>1
    <3>2. bind_map[e] # bind_map[ep]
      BY <1>2, <3>1 DEF BindMap
    <3> QED BY <1>2, <3>1, <3>2 DEF BindMap
  <2>2. ASSUME NEW u \in Threads, NEW e \in Endpoints, Bound(u, e)' PROVE e \in DOMAIN bind_map'
    BY <1>3, <1>4, <1>5, <1>6, <2>2 DEF BindMap
  <2>3. ASSUME NEW u \in Threads, NEW v \in Threads, NEW e \in Endpoints, Bound(u, e)', Bound(v, e)'
        PROVE  u = v
    BY <1>4, <1>5, <2>3 DEF BindMap
  <2>4. closing'.index \in 1 .. Len(routers')
    BY <1>2 DEF BindMap
  <2> QED BY <2>1, <2>2, <2>3, <2>4 DEF BindMap
<1>8. ASSUME NEW u \in Threads, NEW i, OwnSocket(u, i), u # t \/ routers[i].endpoint # ep
      PROVE  OwnSocket(u, i)'
  <2>1. PICK e \in Endpoints : e = routers[i].endpoint
    BY <1>0, <1>8 DEF OwnSocket
  <2>2. e \in DOMAIN bind_map /\ bind_map[e] = i /\ Bound(u, e) /\ e # ep
    BY <1>6, <1>8, <2>1 DEF OwnSocket
  <2> QED BY <1>2, <1>3, <1>5, <2>1, <2>2 DEF OwnSocket
<1>9. ASSUME NEW u \in Threads, srv'[u].st = "binding", answer'[u] # <<>> PROVE Returning(u)'
  <2>1. u # t /\ Returning(u)
    BY <1>2, <1>9 DEF Owners
  <2>2. PICK i \in 1 .. Len(routers) : i = answer[u][1]
    BY <2>1 DEF Returning
  <2>3. OwnSocket(u, i)'
    BY <1>8, <2>1, <2>2 DEF Returning
  <2> QED BY <1>2, <2>1, <2>2, <2>3 DEF Returning
<1>10. ASSUME NEW i \in Routers, factories'[i] # NoThread PROVE OwnerOf(i)'
  <2>1. OwnerOf(i) /\ factories'[i] = factories[i] /\ factories[i] # NoThread
    BY <1>2, <1>10 DEF Owners
  <2>2. PICK u \in Threads : u = factories[i]
    BY <1>0, <2>1
  <2>3. closing.index # i
    BY <1>2, SizesAssumption DEF NotClosing, Routers
  <2>4. CASE u # t \/ routers[i].endpoint # ep
    <3>1. routers[i].st = "open" => OwnSocket(u, i)'
      BY <1>8, <2>1, <2>2, <2>3, <2>4 DEF OwnerOf
    <3> QED BY <1>2, <2>1, <2>2, <3>1 DEF OwnerOf
  <2>5. CASE u = t /\ routers[i].endpoint = ep
    <3>1. routers[i].st = "open" => bind_map[ep] = i
      BY <2>1, <2>2, <2>3, <2>5 DEF OwnerOf, OwnSocket
    <3> QED BY <1>2, <2>1, <2>2, <2>5, <3>1 DEF OwnerOf
  <2> QED BY <2>4, <2>5
<1> QED BY <1>7, <1>9, <1>10 DEF Owners

\* The deletion of a socket keeps BindMap and Owners.
LEMMA DeleteStep ==
    ASSUME ServeTypes, OneCommand, BindMap, Owners, SocketDeleted
    PROVE  BindMap' /\ Owners'
<1>0. /\ DOMAIN bind_map \subseteq Endpoints /\ Len(routers) \in Nat
      /\ factories \in [Routers -> Threads \cup {NoThread}]
  BY DEF ServeTypes
<1>1. /\ closing.index \in 1 .. Len(routers) /\ closing.sender \in Threads
      /\ Len(routers') = Len(routers) /\ routers'[closing.index].st = "deleted"
      /\ \A i \in 1 .. Len(routers) : routers'[i].endpoint = routers[i].endpoint
      /\ \A i \in 1 .. Len(routers) : i # closing.index => routers'[i] = routers[i]
  BY Freed
<1>2. PICK t \in Threads : t = closing.sender
  BY <1>1
<1>3. PICK k \in 1 .. Len(routers) : k = closing.index
  BY <1>1
<1>4. /\ srv[t].st = "unbinding" /\ answer[t] = <<>>
      /\ closing' = NotClosing /\ answer' = Answer(t, 0)
      /\ UNCHANGED <<srv, eps, bind_map, factories>>
  BY <1>2 DEF SocketDeleted, OneCommand
<1>5. answer'[t] # <<>> /\ \A u \in Threads : u # t => answer'[u] = answer[u]
  <2>1. answer'[t] = <<0>> /\ \A u \in Threads : u # t => answer'[u] = answer[u]
    BY <1>4, AnswerGiven
  <2> QED BY <2>1
<1>6. \A u \in Threads : closing'.sender # u
  BY <1>4, NothingAssumption DEF NotClosing
<1>7. ASSUME NEW u \in Threads, NEW e \in Endpoints PROVE Bound(u, e)' <=> Bound(u, e)
  <2>1. CASE u = t
    BY <1>2, <1>4, <1>5, <2>1 DEF Bound
  <2>2. CASE u # t
    BY <1>2, <1>4, <1>5, <1>6, <2>2 DEF Bound
  <2> QED BY <2>1, <2>2
<1>8. BindMap'
  <2>1. ASSUME NEW e \in DOMAIN bind_map
        PROVE  /\ bind_map[e] \in 1 .. Len(routers')
               /\ routers'[bind_map[e]].endpoint = e /\ routers'[bind_map[e]].st = "open"
               /\ bind_map[e] # closing'.index
    <3>1. /\ bind_map[e] \in 1 .. Len(routers) /\ bind_map[e] # closing.index
          /\ routers[bind_map[e]].endpoint = e /\ routers[bind_map[e]].st = "open"
      BY DEF BindMap
    <3>2. routers'[bind_map[e]] = routers[bind_map[e]]
      BY <1>1, <3>1
    <3>3. bind_map[e] # closing'.index
      BY <1>0, <1>4, <3>1 DEF NotClosing
    <3> QED BY <1>1, <3>1, <3>2, <3>3
  <2> QED BY <1>4, <1>7, <2>1 DEF BindMap
<1>9. ASSUME NEW u \in Threads, NEW i \in 1 .. Len(routers), OwnSocket(u, i)
      PROVE  OwnSocket(u, i)'
  <2>1. PICK e \in Endpoints : e = routers[i].endpoint /\ e = routers'[i].endpoint
    BY <1>0, <1>1, <1>9 DEF OwnSocket
  <2>2. e \in DOMAIN bind_map /\ bind_map[e] = i /\ Bound(u, e)
    BY <1>9, <2>1 DEF OwnSocket
  <2> QED BY <1>4, <1>7, <2>1, <2>2 DEF OwnSocket
<1>10. ASSUME NEW u \in Threads, srv'[u].st = "binding", answer'[u] # <<>> PROVE Returning(u)'
  <2>1. u # t /\ answer'[u] = answer[u] /\ Returning(u)
    BY <1>4, <1>5, <1>10 DEF Owners
  <2>2. PICK i \in 1 .. Len(routers) : i = answer[u][1]
    BY <2>1 DEF Returning
  <2>3. OwnSocket(u, i)'
    BY <1>9, <2>1, <2>2 DEF Returning
  <2> QED BY <1>1, <1>4, <2>1, <2>2, <2>3 DEF Returning
<1>11. ASSUME NEW i \in Routers, factories'[i] # NoThread PROVE OwnerOf(i)'
  <2>1. OwnerOf(i) /\ factories'[i] = factories[i] /\ factories[i] # NoThread
    BY <1>4, <1>11 DEF Owners
  <2>2. PICK u \in Threads : u = factories[i]
    BY <1>0, <2>1
  <2>3. i \in 1 .. Len(routers)
    BY <1>0, <2>1, SizesAssumption DEF OwnerOf, Routers
  <2>4. CASE i = closing.index
    <3>1. routers'[i].st # "open" /\ i <= Len(routers')
      BY <1>1, <2>1, <2>4 DEF OwnerOf
    <3> QED BY <3>1 DEF OwnerOf
  <2>5. CASE i # closing.index
    <3>1. routers'[i] = routers[i] /\ (routers[i].st = "open" => OwnSocket(u, i)')
      BY <1>1, <1>9, <2>1, <2>2, <2>3, <2>5 DEF OwnerOf
    <3> QED BY <1>1, <2>1, <2>2, <3>1 DEF OwnerOf
  <2> QED BY <2>4, <2>5
<1> QED BY <1>8, <1>10, <1>11 DEF Owners

\* Every step keeps BindMap and Owners.
LEMMA NextBindings ==
    ASSUME ServeTypes, OneCommand, BindMap, Owners, Next
    PROVE  BindMap' /\ Owners'
<1>1. CASE Quiet
  <2>1. \A u \in Threads, ep \in Endpoints : Bound(u, ep)' <=> Bound(u, ep)
    BY <1>1 DEF Quiet, Bound
  <2> QED BY <1>1, <2>1, BindMapKept, OwnersKept DEF Quiet
<1>2. CASE SocketDeleted
  BY <1>2, DeleteStep
<1>3. ASSUME NEW t \in Threads, ThreadMoves(t) PROVE BindMap' /\ Owners'
  <2>1. \A u \in Threads, ep \in Endpoints : Bound(u, ep)' <=> Bound(u, ep)
    BY <1>3, BoundMoved
  <2>2. OnlyThread(t) /\ UNCHANGED <<routers, bind_map, closing>> /\ answer'[t] = <<>>
    BY <1>3, ThreadMoved
  <2>3. CASE BindReturns(t)
    BY <2>1, <2>2, <2>3, BindMapKept, OwnersReturn
  <2>4. CASE ~BindReturns(t)
    <3>1. UNCHANGED factories
      BY <1>3, <2>4, ThreadMoved
    <3>2. \A u \in Threads : srv'[u].st = "binding" /\ answer'[u] # <<>> =>
             srv[u].st = "binding" /\ answer'[u] = answer[u]
      BY <2>2 DEF OnlyThread
    <3> QED BY <2>1, <2>2, <3>1, <3>2, BindMapKept, OwnersKept
  <2> QED BY <2>3, <2>4
<1>4. ASSUME NEW t \in Threads, HandleBind(t) PROVE BindMap' /\ Owners'
  BY <1>4, BindStep
<1>5. ASSUME NEW t \in Threads, HandleUnbind(t) PROVE BindMap' /\ Owners'
  BY <1>5, UnbindStep
<1>6. ASSUME NEW t \in Threads, HandleConnect(t) PROVE BindMap' /\ Owners'
  <2>1. srv[t].st = "connecting" /\ answer[t] = <<>>
    BY <1>6, ReadWaited DEF HandleConnect, WaitCmds
  <2>2. /\ answer' = Answer(t, dealers + 1) \/ answer' = answer
        /\ dealers + 1 \in Nat
        /\ UNCHANGED <<srv, eps, routers, bind_map, closing, factories>>
    BY <1>6 DEF HandleConnect, dealer_index, ServeTypes
  <2>3. \A u \in Threads : u # t => answer'[u] = answer[u]
    BY <2>1, <2>2, AnswerGiven
  <2>4. \A u \in Threads, ep \in Endpoints : Bound(u, ep)' <=> Bound(u, ep)
    BY <2>1, <2>2, <2>3 DEF Bound
  <2>5. \A u \in Threads : srv'[u].st = "binding" /\ answer'[u] # <<>> =>
           srv[u].st = "binding" /\ answer'[u] = answer[u]
    BY <2>1, <2>2, <2>3
  <2> QED BY <2>2, <2>4, <2>5, BindMapKept, OwnersKept
<1> QED BY <1>1, <1>2, <1>3, <1>4, <1>5, <1>6, Sorts

-----------------------------------------------------------------------------
(* Sockets and connections                                                 *)

\* Index 0 is not used.
LEMMA ConnIndex ==
    ASSUME NEW c \in Conns
    PROVE  c.index \in Nat /\ c.index > 0
<1>1. c.index \in Routers \/ c.index \in Dealers
  BY DEF Conns
<1> QED BY <1>1, SizesAssumption DEF Routers, Dealers

\* A connection stays legal, and open until its socket is deleted.
LEMMA Grows ==
    ASSUME ServeTypes, OneCommand, BindMap, Next, NEW c \in Conns
    PROVE  /\ Legal(c) => Legal(c)'
           /\ Open(c) => Open(c)' \/ SocketDeleted
<1>0. /\ Len(routers) \in Nat /\ dealers \in Nat /\ c.index \in Nat /\ c.index > 0
      /\ routers \in Seq(RouterRec)
  BY ConnIndex DEF ServeTypes
<1>1. CASE UNCHANGED <<routers, dealers>>
  BY <1>1 DEF Legal, Open
<1>2. CASE SocketDeleted
  <2>1. Len(routers') = Len(routers)
    BY <1>2, Freed
  <2>2. dealers' = dealers
    BY <1>2 DEF SocketDeleted
  <2> QED BY <1>2, <2>1, <2>2 DEF Legal
<1>3. ASSUME NEW t \in Threads, HandleConnect(t)
      PROVE  (Legal(c) => Legal(c)') /\ (Open(c) => Open(c)')
  <2>1. (dealers' = dealers + 1 \/ dealers' = dealers) /\ UNCHANGED routers
    BY <1>3 DEF HandleConnect
  <2> QED BY <1>0, <2>1 DEF Legal, Open
<1>4. ASSUME NEW t \in Threads, HandleBind(t)
      PROVE  (Legal(c) => Legal(c)') /\ (Open(c) => Open(c)')
  <2>1. dealers' = dealers
    BY <1>4 DEF HandleBind
  <2>2. CASE UNCHANGED routers
    BY <2>1, <2>2 DEF Legal, Open
  <2>3. CASE routers' = Append(routers, [endpoint |-> srv[t].cur, st |-> "open"])
    <3>1. PICK x : x = [endpoint |-> srv[t].cur, st |-> "open"]
      OBVIOUS
    <3>2. x \in RouterRec
      BY <1>4, <3>1, BindBound DEF RouterRec
    <3>3. Len(routers') = Len(routers) + 1 /\ \A i \in 1 .. Len(routers) : routers'[i] = routers[i]
      BY <1>0, <2>3, <3>1, <3>2
    <3> QED BY <1>0, <2>1, <3>3 DEF Legal, Open
  <2> QED BY <1>4, <2>2, <2>3, BindBound
<1>5. ASSUME NEW t \in Threads, HandleUnbind(t) PROVE UNCHANGED <<routers, dealers>>
  BY <1>5, UnbindBound
<1>6. ASSUME NEW t \in Threads, ThreadMoves(t) PROVE UNCHANGED <<routers, dealers>>
  BY <1>6, ThreadMoved
<1> QED BY <1>1, <1>2, <1>3, <1>4, <1>5, <1>6, Sorts DEF Quiet

\* An open connection is legal.
LEMMA OpenLegal ==
    ASSUME ServeTypes, NEW c \in Conns, Open(c)
    PROVE  Legal(c)
<1>1. Len(routers) \in Nat /\ dealers \in Nat /\ c.index \in Nat /\ c.index > 0
  BY ConnIndex DEF ServeTypes
<1> QED BY <1>1 DEF Open, Legal

\* Every step keeps ClosedEmpty.
LEMMA NextClosedEmpty ==
    ASSUME ServeTypes, OneCommand, BindMap, ClosedEmpty, Next
    PROVE  ClosedEmpty'
<1>1. CASE UNCHANGED inbox /\ ~SocketDeleted
  BY <1>1, Grows DEF ClosedEmpty
<1>2. CASE SocketDeleted
  <2>1. /\ Len(routers') = Len(routers) /\ Len(routers) \in Nat
        /\ \A i \in 1 .. Len(routers) : i # closing.index => routers'[i] = routers[i]
    BY <1>2, Freed DEF ServeTypes
  <2>2. /\ dealers' = dealers
        /\ inbox' = [c \in Conns |-> IF c.is_router /\ c.index = closing.index THEN <<>> ELSE inbox[c]]
    BY <1>2 DEF SocketDeleted
  <2>3. ASSUME NEW c \in Conns, inbox'[c] # <<>> PROVE Open(c)'
    <3>1. Open(c) /\ ~(c.is_router /\ c.index = closing.index)
      BY <2>2, <2>3 DEF ClosedEmpty
    <3>2. c.index \in Nat /\ c.index > 0
      BY ConnIndex
    <3> QED BY <2>1, <2>2, <3>1, <3>2 DEF Open
  <2> QED BY <2>3 DEF ClosedEmpty
<1>3. ASSUME NEW c \in Conns, HandleData(c), Quiet PROVE ClosedEmpty'
  <2>1. \A d \in Conns : inbox'[d] # <<>> => inbox[d] # <<>>
    BY <1>3 DEF HandleData, Pop, ServeTypes
  <2> QED BY <1>3, <2>1 DEF ClosedEmpty, Quiet, Open
<1>4. ASSUME NEW c \in Conns, NEW n \in Names, ClientSend(c, n), Quiet PROVE ClosedEmpty'
  <2>1. \A d \in Conns : d # c => inbox'[d] = inbox[d]
    BY <1>4 DEF ClientSend, Push, ServeTypes
  <2>2. Open(c)
    BY <1>4 DEF ClientSend
  <2> QED BY <1>4, <2>1, <2>2 DEF ClosedEmpty, Quiet, Open
<1>5. ASSUME NEW t \in Threads, ThreadMoves(t) \/ HandleBind(t) \/ HandleUnbind(t)
      PROVE  UNCHANGED inbox
  BY <1>5, ThreadMoved, BindBound, UnbindBound
<1>6. ASSUME NEW t \in Threads, HandleConnect(t) PROVE UNCHANGED inbox
  BY <1>6 DEF HandleConnect
<1> QED BY <1>1, <1>2, <1>3, <1>4, <1>5, <1>6, Sorts

\* Every step keeps GoneEmpty.
LEMMA NextGoneEmpty ==
    ASSUME ServeTypes, OneCommand, BindMap, GoneEmpty, Next
    PROVE  GoneEmpty'
<1>0. /\ srv \in [Threads -> [st : States, cur : Endpoints \cup {"none"}]]
  BY DEF ServeTypes
<1>1. CASE UNCHANGED <<srv, eps>>
  BY <1>1 DEF GoneEmpty
<1>2. ASSUME NEW t \in Threads, ThreadMoves(t) PROVE GoneEmpty'
  <2>1. OnlyThread(t)
    BY <1>2, ThreadMoved
  <2>2. CASE ServerGone(t) \/ DestroyServices(t)
    <3>1. eps[t] = {} /\ eps' = eps
      BY <2>2 DEF ServerGone, DestroyServices, At, GoneEmpty
    <3> QED BY <2>1, <3>1 DEF OnlyThread, GoneEmpty
  <2>3. CASE ~ServerGone(t) /\ ~DestroyServices(t)
    <3>1. \E st \in {"live", "binding", "unbinding", "destroying", "connecting"} :
            \E ep \in Endpoints \cup {"none"} : Goto(t, st, ep)
      BY <1>2, <2>3 DEF ThreadMoves, BindReturns, UnbindReturns, ConnectReturns, Connect,
                        Bind, Unbind, Call
    <3>2. srv'[t].st \notin {"gone", "services_gone"}
      BY <1>0, <3>1 DEF Goto
    <3> QED BY <2>1, <3>2 DEF OnlyThread, GoneEmpty
  <2> QED BY <2>2, <2>3
<1>3. ASSUME NEW t \in Threads, HandleBind(t) \/ HandleUnbind(t) PROVE UNCHANGED <<srv, eps>>
  BY <1>3, BindBound, UnbindBound
<1>4. ASSUME NEW t \in Threads, HandleConnect(t) PROVE UNCHANGED <<srv, eps>>
  BY <1>4 DEF HandleConnect
<1>5. SocketDeleted => UNCHANGED <<srv, eps>>
  BY DEF SocketDeleted
<1> QED BY <1>1, <1>2, <1>3, <1>4, <1>5, Sorts DEF Quiet

\* A server that is gone has no open socket and no request waits on one.
LEMMA Silent ==
    ServeTypes /\ OneCommand /\ Owners /\ ClosedEmpty /\ GoneEmpty => GoneIsSilent
<1> SUFFICES ASSUME ServeTypes, OneCommand, Owners, ClosedEmpty, GoneEmpty PROVE GoneIsSilent
  OBVIOUS
<1> SUFFICES ASSUME NEW t \in Threads, srv[t].st \in {"gone", "services_gone"},
                    NEW c \in Conns, c.is_router, factories[c.index] = t
             PROVE  ~Open(c) /\ inbox[c] = <<>>
  BY DEF GoneIsSilent
<1>1. PICK i \in Routers : i = c.index
  BY DEF Conns
<1>2. OwnerOf(i) /\ factories[i] = t
  BY <1>1, NothingAssumption DEF Owners
<1>3. closing.index = i => closing.sender # t
  <2>1. closing.index = i => closing # NotClosing
    BY SizesAssumption DEF NotClosing, Routers
  <2> QED BY <2>1 DEF OneCommand
<1>4. ~OwnSocket(t, i)
  BY DEF OwnSocket, Bound, GoneEmpty
<1>5. routers[i].st # "open"
  BY <1>2, <1>3, <1>4 DEF OwnerOf
<1>6. i \in 1 .. Len(routers)
  BY <1>2, SizesAssumption DEF OwnerOf, Routers, ServeTypes
<1>7. routers[i].st \in {"open", "deleted"}
  <2>1. routers[i] \in RouterRec
    BY <1>6 DEF ServeTypes
  <2> QED BY <2>1 DEF RouterRec
<1>8. ~Open(c)
  BY <1>1, <1>5, <1>7 DEF Open
<1> QED BY <1>8 DEF ClosedEmpty

\* The broker finds what each command in a pipe names.
LEMMA LegalCommands ==
    ServeTypes /\ OneCommand /\ BindMap /\ KnownLegal /\ Addressed /\ HandlersKnown => CommandsLegal
<1> SUFFICES ASSUME ServeTypes, OneCommand, BindMap, KnownLegal, Addressed, HandlersKnown
             PROVE  CommandsLegal
  OBVIOUS
<1> SUFFICES ASSUME NEW a \in Actors, NEW i \in DOMAIN fe[a]
             PROVE  /\ fe[a][i].cmd = "unbind" => fe[a][i].endpoint \in DOMAIN bind_map
                    /\ fe[a][i].cmd \in {"reply", "request", "register"} => Legal(fe[a][i].conn)
  BY DEF CommandsLegal
<1>1. CASE fe[a][i].cmd = "unbind"
  <2>1. Waited(a, i)
    BY <1>1 DEF OneCommand, WaitCmds
  <2>2. /\ a \in Threads /\ srv[a].st = "unbinding" /\ fe[a][i].endpoint = srv[a].cur
        /\ answer[a] = <<>> /\ closing.sender # a
    BY <1>1, <2>1 DEF Waited
  <2>3. srv[a].cur \in eps[a] /\ srv[a].cur \in Endpoints
    BY <2>2 DEF OneCommand, ServeTypes
  <2>4. Bound(a, srv[a].cur)
    BY <2>2, <2>3 DEF Bound
  <2> QED BY <1>1, <2>2, <2>3, <2>4 DEF BindMap
<1>2. CASE fe[a][i].cmd = "reply"
  BY <1>2 DEF Addressed, PipesMade, AddressOf, KnownLegal
<1>3. CASE fe[a][i].cmd \in {"request", "register"}
  BY <1>3 DEF HandlersKnown, KnownLegal
<1> QED BY <1>1, <1>2, <1>3

-----------------------------------------------------------------------------
(* Requests on their way                                                   *)

\* A step that adds or takes no reply, and adds or takes no request.
PipeAside ==
    \/ fe' = fe
    \/ \E a \in Actors : \E m \in FrontCmd : Pushed(fe, fe', Actors, a, m) /\ m.cmd # "reply"
    \/ \E a \in Actors : Popped(fe, fe', Actors, a) /\ fe[a][1].cmd # "reply"
QueueAside ==
    \/ wq' = wq
    \/ \E w \in Workers : \E m \in WorkCmd : Pushed(wq, wq', Workers, w, m) /\ m.cmd # "data"
    \/ \E w \in Workers : Popped(wq, wq', Workers, w) /\ wq[w][1].cmd # "data"
Aside == PipeAside /\ QueueAside /\ UNCHANGED <<asked, inbox, repliers, answers, outcome>>

\* Calls that are sent to the broker carry no request.
LEMMA CallAside ==
    ASSUME ServeTypes, NEW t \in Threads, NEW st, NEW ep, NEW m \in FrontCmd, m.cmd # "reply",
           Call(t, st, ep, m)
    PROVE  PipeAside
<1>1. t \in Actors
  BY DEF Actors
<1>2. Pushed(fe, fe', Actors, t, m)
  BY <1>1, Sent DEF Call
<1> QED BY <1>1, <1>2 DEF PipeAside

\* Every step is one that moves a request, or Aside.
LEMMA Flow ==
    ASSUME ServeTypes, Next
    PROVE  \/ Aside
           \/ SocketDeleted
           \/ \E c \in Conns : HandleData(c) \/ \E n \in Names : ClientSend(c, n)
           \/ \E a \in Actors : HandleReply(a) \/ \E r \in repliers : Reply(a, r)
           \/ \E w \in Workers : HandleRequest(w)
<1> USE DEF frontVars, sockVars, workVars
<1>a. Threads \subseteq Actors
  BY DEF Actors
<1>1. ASSUME NEW t \in Threads, ThreadMoves(t) \/ \E n \in Names : RegisterFactory(t, n)
      PROVE  Aside
  <2>1. UNCHANGED <<wq, asked, inbox, repliers, answers, outcome>>
    BY <1>1 DEF ThreadMoves, RegisterFactory, BindReturns, UnbindReturns, ConnectReturns,
                ServerGone, DestroyServices, Connect, Bind, Unbind
  <2>2. ASSUME NEW ep \in Endpoints, Bind(t, ep) PROVE PipeAside
    <3>1. PICK m : m = [cmd |-> "bind", endpoint |-> ep]
      OBVIOUS
    <3>2. m \in FrontCmd /\ m.cmd # "reply"
      BY <3>1 DEF FrontCmd
    <3> QED BY <2>2, <3>1, <3>2, CallAside DEF Bind
  <2>3. ASSUME NEW ep \in Endpoints, Unbind(t, ep) PROVE PipeAside
    <3>1. PICK m : m = [cmd |-> "unbind", endpoint |-> ep]
      OBVIOUS
    <3>2. m \in FrontCmd /\ m.cmd # "reply"
      BY <3>1 DEF FrontCmd
    <3> QED BY <2>3, <3>1, <3>2, CallAside DEF Unbind
  <2>4. CASE Connect(t)
    <3>1. PICK m : m = [cmd |-> "connect"]
      OBVIOUS
    <3>2. m \in FrontCmd /\ m.cmd # "reply"
      BY <3>1 DEF FrontCmd
    <3> QED BY <2>1, <2>4, <3>1, <3>2, CallAside DEF Connect, Aside, QueueAside
  <2>5. CASE fe' = fe
    BY <2>1, <2>5 DEF Aside, PipeAside, QueueAside
  <2>6. \/ \E ep \in Endpoints : Bind(t, ep) \/ Unbind(t, ep)
        \/ Connect(t) \/ fe' = fe
    BY <1>1 DEF ThreadMoves, RegisterFactory, BindReturns, UnbindReturns, ConnectReturns,
                ServerGone, DestroyServices
  <2> QED BY <2>1, <2>2, <2>3, <2>4, <2>5, <2>6 DEF Aside, QueueAside
<1>2. ASSUME NEW t \in Threads, HandleBind(t) \/ HandleUnbind(t) \/ HandleConnect(t) PROVE Aside
  <2>1. PICK cmd \in WaitCmds : Front(t, cmd)
    BY <1>2 DEF HandleBind, HandleUnbind, HandleConnect, WaitCmds
  <2>2. Popped(fe, fe', Actors, t) /\ fe[t][1].cmd # "reply"
    BY <1>a, <2>1, Read DEF WaitCmds
  <2>3. UNCHANGED <<wq, asked, inbox, repliers, answers, outcome>>
    BY <1>2 DEF HandleBind, HandleUnbind, HandleConnect
  <2> QED BY <1>a, <2>2, <2>3 DEF Aside, PipeAside, QueueAside
<1>3. ASSUME NEW a \in Actors, HandleRequestOut(a) PROVE Aside
  <2>1. Popped(fe, fe', Actors, a) /\ fe[a][1].cmd # "reply"
    BY <1>3, Read DEF HandleRequestOut
  <2>2. UNCHANGED <<wq, asked, inbox, repliers, answers, outcome>>
    BY <1>3 DEF HandleRequestOut
  <2> QED BY <2>1, <2>2 DEF Aside, PipeAside, QueueAside
<1>4. ASSUME NEW a \in Actors, HandleRegister(a) PROVE Aside
  <2>1. /\ Popped(fe, fe', Actors, a) /\ fe[a][1].cmd = "register" /\ fe[a][1] \in FrontCmd
        /\ Head(fe[a]) = fe[a][1]
    BY <1>4, Read DEF HandleRegister
  <2>2. PICK m \in WorkCmd : m = fe[a][1] /\ m.conn \in Conns /\ m.cmd = "register"
    BY <2>1 DEF FrontCmd, WorkCmd
  <2>3. Pushed(wq, wq', Workers, get_worker_index(m.conn), m) /\ get_worker_index(m.conn) \in Workers
    BY <1>4, <2>1, <2>2, Assigned, ConnWorker DEF HandleRegister, register_svc
  <2>4. UNCHANGED <<asked, inbox, repliers, answers, outcome>>
    BY <1>4 DEF HandleRegister
  <2>5. QueueAside
    BY <2>2, <2>3 DEF QueueAside
  <2> QED BY <2>1, <2>4, <2>5 DEF Aside, PipeAside
<1>5. ASSUME NEW a \in Actors, NEW c \in known, NEW n \in Names, Register(a, c, n) PROVE Aside
  <2>1. PICK m : m = [cmd |-> "register", conn |-> c, name |-> n]
    OBVIOUS
  <2>2. m \in FrontCmd /\ m.cmd # "reply"
    BY <2>1 DEF FrontCmd, ServeTypes
  <2>3. Pushed(fe, fe', Actors, a, m) /\ UNCHANGED <<wq, asked, inbox, repliers, answers, outcome>>
    BY <1>5, <2>1, <2>2, Sent DEF Register
  <2> QED BY <2>2, <2>3 DEF Aside, PipeAside, QueueAside
<1>6. ASSUME NEW a \in Actors, NEW c \in known, Request(a, c) PROVE Aside
  <2>1. PICK m : m = [cmd |-> "request", conn |-> c, tells |-> RegisteredBy(a, c)]
    OBVIOUS
  <2>2. m \in FrontCmd /\ m.cmd # "reply"
    BY <2>1 DEF FrontCmd, ServeTypes, RegisteredBy
  <2>3. Pushed(fe, fe', Actors, a, m) /\ UNCHANGED <<wq, asked, inbox, repliers, answers, outcome>>
    BY <1>6, <2>1, <2>2, Sent DEF Request
  <2> QED BY <2>2, <2>3 DEF Aside, PipeAside, QueueAside
<1>7. ASSUME NEW w \in Workers, RegisterService(w) PROVE Aside
  <2>1. Popped(wq, wq', Workers, w) /\ wq[w][1].cmd # "data"
    BY <1>7, Taken DEF RegisterService
  <2>2. UNCHANGED <<fe, asked, inbox, repliers, answers, outcome>>
    BY <1>7 DEF RegisterService
  <2> QED BY <2>1, <2>2 DEF Aside, PipeAside, QueueAside
<1> QED BY <1>1, <1>2, <1>3, <1>4, <1>5, <1>6, <1>7 DEF Next, ThreadMoves

\* A request goes from its socket to the worker of its connection.
LEMMA DataMoved ==
    ASSUME ServeTypes, NEW c \in Conns, HandleData(c)
    PROVE  /\ Popped(inbox, inbox', Conns, c) /\ 1 \in DOMAIN inbox[c] /\ inbox[c][1] \in ReqRec
           /\ get_worker_index(c) \in Workers
           /\ \E m \in WorkCmd : /\ m.cmd = "data" /\ m.r = inbox[c][1]
                                 /\ Pushed(wq, wq', Workers, get_worker_index(c), m)
           /\ UNCHANGED <<asked, fe, repliers, answers, outcome, known, told, regd, handlers>>
<1>1. /\ Popped(inbox, inbox', Conns, c) /\ 1 \in DOMAIN inbox[c] /\ inbox[c][1] \in ReqRec
      /\ Head(inbox[c]) = inbox[c][1]
  BY Received
<1>2. PICK m : m = [cmd |-> "data", r |-> inbox[c][1]]
  OBVIOUS
<1>3. m \in WorkCmd /\ m.cmd = "data" /\ m.r = inbox[c][1]
  BY <1>1, <1>2 DEF WorkCmd
<1>4. get_worker_index(c) \in Workers
  BY ConnWorker
<1>5. Pushed(wq, wq', Workers, get_worker_index(c), m)
  BY <1>1, <1>2, <1>3, <1>4, Assigned DEF HandleData, handle_socket
<1>6. UNCHANGED <<asked, fe, repliers, answers, outcome, known, told, regd, handlers>>
  BY DEF HandleData, frontVars, workVars
<1> QED BY <1>1, <1>3, <1>4, <1>5, <1>6

\* A reply goes from a replier to the pipe of the actor that sends it.
LEMMA ReplyMoved ==
    ASSUME ServeTypes, NEW a \in Actors, NEW r \in repliers, Reply(a, r)
    PROVE  /\ \E m \in FrontCmd : /\ m.cmd = "reply" /\ m.conn = r.conn /\ m.ev = r.ev /\ m.q = r.q
                                  /\ m.tells = RegisteredBy(a, r.conn)
                                  /\ Pushed(fe, fe', Actors, a, m)
           /\ repliers' = repliers \ {r} /\ r.q \in Requests /\ r.conn \in Conns
           /\ UNCHANGED <<asked, inbox, wq, answers, outcome, known, told, regd, handlers>>
<1>1. r.conn \in Conns /\ r.ev \in Requests /\ r.q \in Requests
  BY DEF ServeTypes, Replier
<1>2. PICK m \in FrontCmd : /\ m = ReplyMsg(a, r) /\ m.cmd = "reply" /\ m.conn = r.conn /\ m.ev = r.ev
                            /\ m.q = r.q /\ m.tells = RegisteredBy(a, r.conn)
  BY <1>1, ReplyMsgs
<1>3. Pushed(fe, fe', Actors, a, m)
  BY <1>2, Sent DEF Reply
<1>4. /\ repliers' = repliers \ {r}
      /\ UNCHANGED <<asked, inbox, wq, answers, outcome, known, told, regd, handlers>>
  BY DEF Reply, frontVars, workVars
<1> QED BY <1>1, <1>2, <1>3, <1>4

\* The broker sends a reply, unless the socket is gone.
LEMMA ReplySent ==
    ASSUME ServeTypes, NEW a \in Actors, HandleReply(a)
    PROVE  \E m \in FrontCmd :
             /\ m = fe[a][1] /\ 1 \in DOMAIN fe[a] /\ m.cmd = "reply" /\ m.q \in Requests
             /\ m.conn \in Conns /\ m.tells \in SUBSET Names
             /\ Popped(fe, fe', Actors, a)
             /\ \/ /\ answers' = [answers EXCEPT ![m.q] = Append(@, <<m.conn, m.ev>>)]
                   /\ told' = [told EXCEPT ![m.conn] = @ \cup m.tells]
                \/ fault' = "dead_socket" /\ UNCHANGED <<answers, told>>
             /\ UNCHANGED <<asked, inbox, wq, repliers, outcome, known, regd, handlers>>
<1>1. /\ Popped(fe, fe', Actors, a) /\ fe[a][1].cmd = "reply" /\ fe[a][1] \in FrontCmd
      /\ Head(fe[a]) = fe[a][1] /\ 1 \in DOMAIN fe[a]
  BY Read DEF HandleReply
<1>2. PICK m \in FrontCmd : m = fe[a][1]
  BY <1>1
<1>3. m.q \in Requests /\ m.conn \in Conns /\ m.tells \in SUBSET Names
  BY <1>1, <1>2, FrontFields
<1>4. UNCHANGED <<asked, inbox, wq, repliers, outcome, known, regd, handlers>>
  BY DEF HandleReply, frontVars, workVars
<1>5. \/ /\ answers' = [answers EXCEPT ![m.q] = Append(@, <<m.conn, m.ev>>)]
         /\ told' = [told EXCEPT ![m.conn] = @ \cup m.tells]
      \/ fault' = "dead_socket" /\ UNCHANGED <<answers, told>>
  BY <1>1, <1>2 DEF HandleReply, Push
<1> QED BY <1>1, <1>2, <1>3, <1>4, <1>5

\* Requests on sockets stay made when sockets are only read.
LEMMA SocketsKept ==
    ASSUME SocketsMade, UNCHANGED asked,
           inbox' = inbox \/ \E c \in Conns : Popped(inbox, inbox', Conns, c)
    PROVE  SocketsMade'
<1>1. CASE inbox' = inbox
  BY <1>1 DEF SocketsMade, Made
<1>2. ASSUME NEW c \in Conns, Popped(inbox, inbox', Conns, c) PROVE SocketsMade'
  <2>1. ASSUME NEW d \in Conns, NEW i \in DOMAIN inbox'[d]
        PROVE  (Made(inbox[d][i]) /\ inbox[d][i].conn = d)'
    <3>1. PICK j \in DOMAIN inbox[d] : inbox'[d][i] = inbox[d][j]
      BY <1>2, PoppedFrom
    <3> QED BY <3>1 DEF SocketsMade, Made
  <2> QED BY <2>1 DEF SocketsMade
<1> QED BY <1>1, <1>2

\* Requests in workers' queues stay made when only made ones are added.
LEMMA QueuesKept ==
    ASSUME QueuesMade, UNCHANGED asked,
           \/ wq' = wq
           \/ \E w \in Workers : Popped(wq, wq', Workers, w)
           \/ \E w \in Workers : \E m : /\ Pushed(wq, wq', Workers, w, m)
                                        /\ m.cmd = "data" => Made(m.r) /\ w = get_worker_index(m.r.conn)
    PROVE  QueuesMade'
<1> USE DEF get_worker_index
<1>1. CASE wq' = wq
  BY <1>1 DEF QueuesMade, Made
<1>2. ASSUME NEW w \in Workers, Popped(wq, wq', Workers, w) PROVE QueuesMade'
  <2>1. ASSUME NEW v \in Workers, NEW i \in DOMAIN wq'[v], wq'[v][i].cmd = "data"
        PROVE  (Made(wq[v][i].r) /\ v = get_worker_index(wq[v][i].r.conn))'
    <3>1. PICK j \in DOMAIN wq[v] : wq'[v][i] = wq[v][j]
      BY <1>2, PoppedFrom
    <3> QED BY <2>1, <3>1 DEF QueuesMade, Made
  <2> QED BY <2>1 DEF QueuesMade
<1>3. ASSUME NEW w \in Workers, NEW m, Pushed(wq, wq', Workers, w, m),
             m.cmd = "data" => Made(m.r) /\ w = get_worker_index(m.r.conn)
      PROVE  QueuesMade'
  <2>1. ASSUME NEW v \in Workers, NEW i \in DOMAIN wq'[v], wq'[v][i].cmd = "data"
        PROVE  (Made(wq[v][i].r) /\ v = get_worker_index(wq[v][i].r.conn))'
    <3>1. \/ i \in DOMAIN wq[v] /\ wq'[v][i] = wq[v][i]
          \/ v = w /\ wq'[v][i] = m
      BY <1>3 DEF Pushed
    <3> QED BY <1>3, <2>1, <3>1 DEF QueuesMade, Made
  <2> QED BY <2>1 DEF QueuesMade
<1> QED BY <1>1, <1>2, <1>3

\* Replies in pipes stay addressed when only addressed ones are added.
LEMMA PipesKept ==
    ASSUME PipesMade, UNCHANGED asked,
           \/ fe' = fe
           \/ \E a \in Actors : Popped(fe, fe', Actors, a)
           \/ \E a \in Actors : \E m : /\ Pushed(fe, fe', Actors, a, m)
                                       /\ m.cmd = "reply" => AddressOf(m)
    PROVE  PipesMade'
<1>1. CASE fe' = fe
  BY <1>1 DEF PipesMade, AddressOf
<1>2. ASSUME NEW a \in Actors, Popped(fe, fe', Actors, a) PROVE PipesMade'
  <2>1. ASSUME NEW b \in Actors, NEW i \in DOMAIN fe'[b], fe'[b][i].cmd = "reply"
        PROVE  AddressOf(fe[b][i])'
    <3>1. PICK j \in DOMAIN fe[b] : fe'[b][i] = fe[b][j]
      BY <1>2, PoppedFrom
    <3> QED BY <2>1, <3>1 DEF PipesMade, AddressOf
  <2> QED BY <2>1 DEF PipesMade
<1>3. ASSUME NEW a \in Actors, NEW m, Pushed(fe, fe', Actors, a, m), m.cmd = "reply" => AddressOf(m)
      PROVE  PipesMade'
  <2>1. ASSUME NEW b \in Actors, NEW i \in DOMAIN fe'[b], fe'[b][i].cmd = "reply"
        PROVE  AddressOf(fe[b][i])'
    <3>1. \/ i \in DOMAIN fe[b] /\ fe'[b][i] = fe[b][i]
          \/ fe'[b][i] = m
      BY <1>3 DEF Pushed
    <3> QED BY <1>3, <2>1, <3>1 DEF PipesMade, AddressOf
  <2> QED BY <2>1 DEF PipesMade
<1> QED BY <1>1, <1>2, <1>3

\* A client's request is new, and the others stay what they were.
LEMMA AddressedSend ==
    ASSUME ServeTypes, Addressed, NEW c \in Conns, NEW n \in Names, ClientSend(c, n)
    PROVE  Addressed'
<1>1. /\ NextRequest(c, n).q = Len(asked) + 1 /\ NextRequest(c, n).conn = c
      /\ DOMAIN asked' = DOMAIN asked \cup {Len(asked) + 1} /\ Len(asked) + 1 \notin DOMAIN asked
      /\ asked'[Len(asked) + 1] = NextRequest(c, n)
      /\ \A q \in DOMAIN asked : asked'[q] = asked[q]
      /\ Pushed(inbox, inbox', Conns, c, NextRequest(c, n))
  BY ClientSends
<1>2. PICK x : x = NextRequest(c, n)
  OBVIOUS
<1>3. PICK k : k = Len(asked) + 1
  OBVIOUS
<1>4. /\ x.q = k /\ x.conn = c
      /\ DOMAIN asked' = DOMAIN asked \cup {k} /\ k \notin DOMAIN asked
      /\ asked'[k] = x
      /\ \A q \in DOMAIN asked : asked'[q] = asked[q]
      /\ Pushed(inbox, inbox', Conns, c, x)
  BY <1>1, <1>2, <1>3
<1>5. UNCHANGED <<fe, wq, repliers, answers, outcome>>
  BY DEF ClientSend, workVars
<1>6. \A y : (Made(y) => Made(y)') /\ (AddressOf(y) => AddressOf(y)')
  BY <1>4 DEF Made, AddressOf
<1>7. SocketsMade'
  <2>1. ASSUME NEW d \in Conns, NEW i \in DOMAIN inbox'[d]
        PROVE  (Made(inbox[d][i]) /\ inbox[d][i].conn = d)'
    <3>1. PICK y : y = inbox'[d][i]
      OBVIOUS
    <3>2. \/ i \in DOMAIN inbox[d] /\ y = inbox[d][i]
          \/ d = c /\ y = x
      BY <1>4, <3>1 DEF Pushed
    <3>3. Made(y)' /\ y.conn = d
      <4>1. CASE i \in DOMAIN inbox[d] /\ y = inbox[d][i]
        BY <1>6, <4>1 DEF Addressed, SocketsMade
      <4>2. CASE d = c /\ y = x
        BY <1>4, <4>2 DEF Made
      <4> QED BY <3>2, <4>1, <4>2
    <3> QED BY <3>1, <3>3 DEF Made
  <2> QED BY <2>1 DEF SocketsMade
<1>8. QueuesMade'
  <2>1. ASSUME NEW w \in Workers, NEW i \in DOMAIN wq'[w], wq'[w][i].cmd = "data"
        PROVE  (Made(wq[w][i].r) /\ w = get_worker_index(wq[w][i].r.conn))'
    <3>1. PICK y : y = wq[w][i].r
      OBVIOUS
    <3>2. Made(y) /\ w = get_worker_index(y.conn)
      BY <1>5, <2>1, <3>1 DEF Addressed, QueuesMade
    <3>3. Made(y)'
      BY <1>6, <3>2
    <3>4. wq'[w][i].r = y
      BY <1>5, <3>1
    <3> QED BY <3>2, <3>3, <3>4 DEF Made, get_worker_index
  <2> QED BY <2>1 DEF QueuesMade
<1>9. PipesMade'
  <2>1. ASSUME NEW a \in Actors, NEW i \in DOMAIN fe'[a], fe'[a][i].cmd = "reply"
        PROVE  AddressOf(fe[a][i])'
    <3>1. PICK y : y = fe[a][i]
      OBVIOUS
    <3>2. AddressOf(y)'
      BY <1>5, <1>6, <2>1, <3>1 DEF Addressed, PipesMade
    <3>3. fe'[a][i] = y
      BY <1>5, <3>1
    <3> QED BY <3>2, <3>3 DEF AddressOf
  <2> QED BY <2>1 DEF PipesMade
<1>10. \A q \in DOMAIN asked' : asked'[q].q = q
  BY <1>4 DEF Addressed
<1>11. \A r \in repliers' : AddressOf(r)'
  BY <1>5, <1>6 DEF Addressed
<1>12. \A q \in Requests : answers'[q] # <<>> \/ outcome'[q] # "none" => q \in DOMAIN asked'
  BY <1>4, <1>5 DEF Addressed
<1> QED BY <1>7, <1>8, <1>9, <1>10, <1>11, <1>12 DEF Addressed

\* Every step keeps Addressed.
LEMMA NextAddressed ==
    ASSUME ServeTypes, Addressed, Next
    PROVE  Addressed'
<1>0. UNCHANGED asked => /\ \A q \in DOMAIN asked' : asked'[q].q = q
                         /\ \A y : (AddressOf(y)' <=> AddressOf(y))
  BY DEF Addressed, AddressOf
<1>1. CASE Aside
  <2>1. UNCHANGED <<asked, inbox, repliers, answers, outcome>>
    BY <1>1 DEF Aside
  <2>2. SocketsMade'
    BY <2>1, SocketsKept DEF Addressed
  <2>3. QueuesMade'
    BY <1>1, <2>1, QueuesKept DEF Aside, QueueAside, Addressed
  <2>4. PipesMade'
    BY <1>1, <2>1, PipesKept DEF Aside, PipeAside, Addressed
  <2> QED BY <1>0, <2>1, <2>2, <2>3, <2>4 DEF Addressed
<1>2. CASE SocketDeleted
  <2>1. /\ UNCHANGED <<asked, fe, wq, repliers, answers, outcome>>
        /\ inbox' = [c \in Conns |-> IF c.is_router /\ c.index = closing.index THEN <<>> ELSE inbox[c]]
    BY <1>2 DEF SocketDeleted, workVars
  <2>2. \A c \in Conns : \A i \in DOMAIN inbox'[c] : i \in DOMAIN inbox[c] /\ inbox'[c][i] = inbox[c][i]
    BY <2>1
  <2>3. SocketsMade'
    BY <2>1, <2>2 DEF Addressed, SocketsMade, Made
  <2>4. QueuesMade' /\ PipesMade'
    BY <2>1, QueuesKept, PipesKept DEF Addressed
  <2> QED BY <1>0, <2>1, <2>3, <2>4 DEF Addressed
<1>3. ASSUME NEW c \in Conns, HandleData(c) PROVE Addressed'
  <2>1. /\ Popped(inbox, inbox', Conns, c) /\ 1 \in DOMAIN inbox[c]
        /\ get_worker_index(c) \in Workers
        /\ UNCHANGED <<asked, fe, repliers, answers, outcome>>
    BY <1>3, DataMoved
  <2>2. PICK m \in WorkCmd : /\ m.cmd = "data" /\ m.r = inbox[c][1]
                             /\ Pushed(wq, wq', Workers, get_worker_index(c), m)
    BY <1>3, DataMoved
  <2>3. Made(m.r) /\ get_worker_index(c) = get_worker_index(m.r.conn)
    BY <2>1, <2>2 DEF Addressed, SocketsMade
  <2>4. QueuesMade'
    BY <2>1, <2>2, <2>3, QueuesKept DEF Addressed
  <2>5. SocketsMade' /\ PipesMade'
    BY <2>1, SocketsKept, PipesKept DEF Addressed
  <2> QED BY <1>0, <2>1, <2>4, <2>5 DEF Addressed
<1>4. ASSUME NEW c \in Conns, NEW n \in Names, ClientSend(c, n) PROVE Addressed'
  BY <1>4, AddressedSend
<1>5. ASSUME NEW a \in Actors, HandleReply(a) PROVE Addressed'
  <2>1. PICK m \in FrontCmd :
             /\ m = fe[a][1] /\ 1 \in DOMAIN fe[a] /\ m.cmd = "reply" /\ m.q \in Requests
             /\ Popped(fe, fe', Actors, a)
             /\ \/ answers' = [answers EXCEPT ![m.q] = Append(@, <<m.conn, m.ev>>)]
                \/ UNCHANGED answers
             /\ UNCHANGED <<asked, inbox, wq, repliers, outcome>>
    BY <1>5, ReplySent
  <2>2. SocketsMade' /\ QueuesMade' /\ PipesMade'
    BY <2>1, SocketsKept, QueuesKept, PipesKept DEF Addressed
  <2>3. m.q \in DOMAIN asked
    BY <2>1 DEF Addressed, PipesMade, AddressOf
  <2>4. \A q \in Requests : q # m.q => answers'[q] = answers[q]
    BY <2>1 DEF ServeTypes
  <2>5. \A q \in Requests : answers'[q] # <<>> \/ outcome'[q] # "none" => q \in DOMAIN asked'
    BY <2>1, <2>3, <2>4 DEF Addressed
  <2> QED BY <1>0, <2>1, <2>2, <2>5 DEF Addressed
<1>6. ASSUME NEW a \in Actors, NEW r \in repliers, Reply(a, r) PROVE Addressed'
  <2>1. /\ repliers' = repliers \ {r} /\ UNCHANGED <<asked, inbox, wq, answers, outcome>>
    BY <1>6, ReplyMoved
  <2>2. PICK m \in FrontCmd : /\ m.conn = r.conn /\ m.ev = r.ev /\ m.q = r.q
                              /\ Pushed(fe, fe', Actors, a, m)
    BY <1>6, ReplyMoved
  <2>3. AddressOf(m)
    BY <2>2 DEF Addressed, AddressOf
  <2>4. SocketsMade' /\ QueuesMade' /\ PipesMade'
    BY <2>1, <2>2, <2>3, SocketsKept, QueuesKept, PipesKept DEF Addressed
  <2> QED BY <1>0, <2>1, <2>4 DEF Addressed
<1>7. ASSUME NEW w \in Workers, HandleRequest(w) PROVE Addressed'
  <2>1. PICK r \in ReqRec : /\ r = wq[w][1].r /\ wq[w][1].cmd = "data" /\ 1 \in DOMAIN wq[w]
                            /\ Popped(wq, wq', Workers, w) /\ HandlerFate(w, r)
    BY <1>7, HandlerSteps
  <2>2. UNCHANGED <<asked, inbox, answers>>
    BY <1>7 DEF HandleRequest
  <2>3. Made(r) /\ r.q \in DOMAIN asked
    BY <2>1 DEF Addressed, QueuesMade, Made
  <2>4. SocketsMade' /\ QueuesMade'
    BY <2>1, <2>2, SocketsKept, QueuesKept DEF Addressed
  <2>5. PICK m \in FrontCmd : /\ m = ReplyMsg(w, r) /\ m.cmd = "reply" /\ m.conn = r.conn
                              /\ m.ev = r.ev /\ m.q = r.q
    BY ReplyMsgs DEF ReqRec
  <2>6. AddressOf(m)
    BY <2>3, <2>5 DEF Made, AddressOf
  <2>7. w \in Actors
    BY DEF Actors
  <2>8. fe' = fe \/ Pushed(fe, fe', Actors, w, m)
    BY <2>1, <2>5, <2>7, Sent DEF HandlerFate
  <2>9. PipesMade'
    BY <2>2, <2>6, <2>7, <2>8, PipesKept DEF Addressed
  <2>10. PICK h : h = [conn |-> r.conn, ev |-> r.ev, q |-> r.q]
    OBVIOUS
  <2>11. AddressOf(h)
    BY <2>3, <2>10 DEF Made, AddressOf
  <2>12. repliers' \subseteq repliers \cup {h}
    BY <2>1, <2>10 DEF HandlerFate
  <2>13. \A q \in Requests : q # r.q => outcome'[q] = outcome[q]
    BY <2>1 DEF HandlerFate, ServeTypes
  <2>14. \A q \in Requests : answers'[q] # <<>> \/ outcome'[q] # "none" => q \in DOMAIN asked'
    BY <2>2, <2>3, <2>13 DEF Addressed
  <2>15. \A y \in repliers' : AddressOf(y)'
    BY <1>0, <2>2, <2>11, <2>12 DEF Addressed
  <2> QED BY <1>0, <2>2, <2>4, <2>9, <2>14, <2>15 DEF Addressed
<1> QED BY <1>1, <1>2, <1>3, <1>4, <1>5, <1>6, <1>7, Flow

-----------------------------------------------------------------------------
(* A request is in one place                                               *)

\* Where the place i of queue k of this sort was before a step that removes the
\* first of each queue of S.
Before(S, s, k, i) == IF <<s, k>> \in S THEN i + 1 ELSE i

\* What is at (s, k, i) now, of request q, was there before.
Stays(S, s, k, i, q) ==
    Place(s, k, Before(S, s, k, i), q) /\ (<<s, k>> \in S => i \in Nat)

\* A step after which every request is where it was, or nowhere, keeps OnePlace.
LEMMA Stayed ==
    ASSUME OnePlace, NEW S, \A s, k, i, q : Place(s, k, i, q)' => Stays(S, s, k, i, q)
    PROVE  OnePlace'
<1> SUFFICES ASSUME NEW q, NEW s, NEW k, NEW i, NEW t, NEW l, NEW j,
                    Place(s, k, i, q)', Place(t, l, j, q)'
             PROVE  s = t /\ k = l /\ i = j
  BY DEF OnePlace
<1>1. Stays(S, s, k, i, q) /\ Stays(S, t, l, j, q)
  OBVIOUS
<1>2. s = t /\ k = l /\ Before(S, s, k, i) = Before(S, t, l, j)
  BY <1>1 DEF OnePlace, Stays
<1> QED BY <1>1, <1>2 DEF Before, Stays

\* The step moves q0 from the place (s1, k1, 1) to (s2, k2, i2), and leaves the rest
\* where it was.
MovesOne(S, s1, k1, s2, k2, i2, q0) ==
    \A s, k, i, q : Place(s, k, i, q)' =>
        \/ q = q0 /\ s = s2 /\ k = k2 /\ i = i2
        \/ Stays(S, s, k, i, q) /\ ~(s = s1 /\ k = k1 /\ Before(S, s, k, i) = 1)

\* Such a step keeps OnePlace.  So does one that brings a new q0.
LEMMA Moved ==
    ASSUME OnePlace, NEW S, NEW s1, NEW k1, NEW s2, NEW k2, NEW i2, NEW q0,
           MovesOne(S, s1, k1, s2, k2, i2, q0),
           Place(s1, k1, 1, q0) \/ \A s, k, i : ~Place(s, k, i, q0)
    PROVE  OnePlace'
<1> SUFFICES ASSUME NEW q, NEW s, NEW k, NEW i, NEW t, NEW l, NEW j,
                    Place(s, k, i, q)', Place(t, l, j, q)'
             PROVE  s = t /\ k = l /\ i = j
  BY DEF OnePlace
<1> DEFINE Left(x, y, z) == Stays(S, x, y, z, q) /\ ~(x = s1 /\ y = k1 /\ Before(S, x, y, z) = 1)
<1>1. (q = q0 /\ s = s2 /\ k = k2 /\ i = i2) \/ Left(s, k, i)
  BY DEF MovesOne
<1>2. (q = q0 /\ t = s2 /\ l = k2 /\ j = i2) \/ Left(t, l, j)
  BY DEF MovesOne
<1>3. ASSUME NEW x, NEW y, NEW z, Left(x, y, z) PROVE q # q0
  BY <1>3 DEF OnePlace, Stays
<1>4. CASE Left(s, k, i) /\ Left(t, l, j)
  <2>1. s = t /\ k = l /\ Before(S, s, k, i) = Before(S, t, l, j)
    BY <1>4 DEF OnePlace, Stays
  <2> QED BY <1>4, <2>1 DEF Before, Stays
<1> HIDE DEF Left
<1> QED BY <1>1, <1>2, <1>3, <1>4

\* Every place is of one of five sorts.
LEMMA PlaceSorts ==
    ASSUME NEW s, NEW k, NEW i, NEW q
    PROVE  /\ Place(s, k, i, q) => s \in {"socket", "worker", "service", "reply", "answered"}
           /\ Place("socket", k, i, q) <=> k \in Conns /\ i \in DOMAIN inbox[k] /\ inbox[k][i].q = q
           /\ Place("worker", k, i, q) <=>
                k \in Workers /\ i \in DOMAIN wq[k] /\ wq[k][i].cmd = "data" /\ wq[k][i].r.q = q
           /\ Place("service", k, i, q) <=> k \in repliers /\ i = 1 /\ k.q = q
           /\ Place("reply", k, i, q) <=>
                k \in Actors /\ i \in DOMAIN fe[k] /\ fe[k][i].cmd = "reply" /\ fe[k][i].q = q
           /\ Place("answered", k, i, q) <=> k = q /\ i = 1 /\ q \in Requests /\ answers[q] # <<>>
BY DEF Place

\* The same after a step.
LEMMA PlaceSortsNext ==
    ASSUME NEW s, NEW k, NEW i, NEW q
    PROVE  /\ Place(s, k, i, q)' => s \in {"socket", "worker", "service", "reply", "answered"}
           /\ Place("socket", k, i, q)' <=> k \in Conns /\ i \in DOMAIN inbox'[k] /\ inbox'[k][i].q = q
           /\ Place("worker", k, i, q)' <=>
                k \in Workers /\ i \in DOMAIN wq'[k] /\ wq'[k][i].cmd = "data" /\ wq'[k][i].r.q = q
           /\ Place("service", k, i, q)' <=> k \in repliers' /\ i = 1 /\ k.q = q
           /\ Place("reply", k, i, q)' <=>
                k \in Actors /\ i \in DOMAIN fe'[k] /\ fe'[k][i].cmd = "reply" /\ fe'[k][i].q = q
           /\ Place("answered", k, i, q)' <=> k = q /\ i = 1 /\ q \in Requests /\ answers'[q] # <<>>
BY DEF Place

\* Replies in pipes are where they were, if none is added.
LEMMA PipePlaces ==
    ASSUME ServeTypes, PipeAside
    PROVE  \E S : /\ \A y \in S : y[1] = "reply"
                  /\ \A k, i, q : Place("reply", k, i, q)' => Stays(S, "reply", k, i, q)
<1> DEFINE Good(S) == /\ \A y \in S : y[1] = "reply"
                      /\ \A k, i, q : Place("reply", k, i, q)' => Stays(S, "reply", k, i, q)
<1>1. ASSUME fe' = fe PROVE Good({})
  BY <1>1, PlaceSorts, PlaceSortsNext DEF Stays, Before
<1>2. ASSUME NEW a \in Actors, NEW m, Pushed(fe, fe', Actors, a, m), m.cmd # "reply"
      PROVE  Good({})
  BY <1>2, PlaceSorts, PlaceSortsNext DEF Stays, Before, Pushed
<1>3. ASSUME NEW a \in Actors, Popped(fe, fe', Actors, a)
      PROVE  Good({<<"reply", a>>})
  BY <1>3, PlaceSorts, PlaceSortsNext DEF Stays, Before, Popped
<1> HIDE DEF Good
<1>4. \E S : Good(S)
  BY <1>1, <1>2, <1>3 DEF PipeAside
<1> QED BY <1>4 DEF Good

\* Requests in workers' queues are where they were, if none is added.
LEMMA QueuePlaces ==
    ASSUME ServeTypes, QueueAside
    PROVE  \E S : /\ \A y \in S : y[1] = "worker"
                  /\ \A k, i, q : Place("worker", k, i, q)' => Stays(S, "worker", k, i, q)
<1> DEFINE Good(S) == /\ \A y \in S : y[1] = "worker"
                      /\ \A k, i, q : Place("worker", k, i, q)' => Stays(S, "worker", k, i, q)
<1>1. ASSUME wq' = wq PROVE Good({})
  BY <1>1, PlaceSorts, PlaceSortsNext DEF Stays, Before
<1>2. ASSUME NEW w \in Workers, NEW m, Pushed(wq, wq', Workers, w, m), m.cmd # "data"
      PROVE  Good({})
  BY <1>2, PlaceSorts, PlaceSortsNext DEF Stays, Before, Pushed
<1>3. ASSUME NEW w \in Workers, Popped(wq, wq', Workers, w)
      PROVE  Good({<<"worker", w>>})
  BY <1>3, PlaceSorts, PlaceSortsNext DEF Stays, Before, Popped
<1> HIDE DEF Good
<1>4. \E S : Good(S)
  BY <1>1, <1>2, <1>3 DEF QueueAside
<1> QED BY <1>4 DEF Good

\* A step that moves no request keeps OnePlace.
LEMMA AsidePlace ==
    ASSUME ServeTypes, OnePlace, Aside
    PROVE  OnePlace'
<1>0. UNCHANGED <<inbox, repliers, answers>>
  BY DEF Aside
<1>1. PICK F : /\ \A y \in F : y[1] = "reply"
               /\ \A k, i, q : Place("reply", k, i, q)' => Stays(F, "reply", k, i, q)
  BY PipePlaces DEF Aside
<1>2. PICK W : /\ \A y \in W : y[1] = "worker"
               /\ \A k, i, q : Place("worker", k, i, q)' => Stays(W, "worker", k, i, q)
  BY QueuePlaces DEF Aside
<1>3. ASSUME NEW s, NEW k, NEW i, NEW q, Place(s, k, i, q)'
      PROVE  Stays(F \cup W, s, k, i, q)
  <2>0. <<s, k>>[1] = s
    OBVIOUS
  <2>1. CASE s = "reply"
    <3>1. <<s, k>> \in F \cup W <=> <<s, k>> \in F
      BY <1>2, <2>0, <2>1
    <3> QED BY <1>1, <1>3, <2>1, <3>1 DEF Stays, Before
  <2>2. CASE s = "worker"
    <3>1. <<s, k>> \in F \cup W <=> <<s, k>> \in W
      BY <1>1, <2>0, <2>2
    <3> QED BY <1>2, <1>3, <2>2, <3>1 DEF Stays, Before
  <2>3. CASE s \notin {"reply", "worker"}
    <3>1. <<s, k>> \notin F \cup W
      BY <1>1, <1>2, <2>0, <2>3
    <3>2. Place(s, k, i, q)
      BY <1>0, <1>3, <2>3 DEF Place
    <3> QED BY <3>1, <3>2 DEF Stays, Before
  <2> QED BY <2>1, <2>2, <2>3
<1> QED BY <1>3, Stayed

\* Only requests that were made have a place.
LEMMA PlacesAsked ==
    ASSUME Addressed, NEW s, NEW k, NEW i, NEW q, Place(s, k, i, q)
    PROVE  q \in DOMAIN asked
<1> USE DEF Addressed, AddressOf, Made, SocketsMade, QueuesMade, PipesMade
<1>1. CASE s = "socket"
  BY <1>1, PlaceSorts
<1>2. CASE s = "worker"
  BY <1>2, PlaceSorts
<1>3. CASE s = "service"
  BY <1>3, PlaceSorts
<1>4. CASE s = "reply"
  BY <1>4, PlaceSorts
<1>5. CASE s = "answered"
  BY <1>5, PlaceSorts
<1> QED BY <1>1, <1>2, <1>3, <1>4, <1>5, PlaceSorts

\* What is in no queue of S and not changed stays.
LEMMA StaysPut ==
    ASSUME NEW S, NEW s, NEW k, NEW i, NEW q, <<s, k>> \notin S, Place(s, k, i, q)
    PROVE  Stays(S, s, k, i, q) /\ Before(S, s, k, i) = i
BY DEF Stays, Before

\* What was not first in the one queue of S stays, one place further up.
LEMMA StaysUp ==
    ASSUME NEW s, NEW k, NEW i \in Nat, NEW q, Place(s, k, i + 1, q)
    PROVE  Stays({<<s, k>>}, s, k, i, q) /\ Before({<<s, k>>}, s, k, i) = i + 1
BY DEF Stays, Before

\* From the socket to the worker.
LEMMA PlaceData ==
    ASSUME ServeTypes, OnePlace, NEW c \in Conns, HandleData(c)
    PROVE  OnePlace'
<1>1. /\ Popped(inbox, inbox', Conns, c) /\ 1 \in DOMAIN inbox[c]
      /\ UNCHANGED <<asked, fe, repliers, answers>>
  BY DataMoved
<1>2. PICK w \in Workers : \E m \in WorkCmd : /\ m.cmd = "data" /\ m.r = inbox[c][1]
                                              /\ Pushed(wq, wq', Workers, w, m)
  BY DataMoved
<1>3. PICK m \in WorkCmd : m.cmd = "data" /\ m.r = inbox[c][1] /\ Pushed(wq, wq', Workers, w, m)
  BY <1>2
<1>4. PICK q0 : q0 = inbox[c][1].q
  OBVIOUS
<1>5. PICK z : z = Len(wq[w]) + 1
  OBVIOUS
<1>6. PICK S : S = {<<"socket", c>>}
  OBVIOUS
<1>7. ASSUME NEW s, NEW k, NEW i, NEW q, Place(s, k, i, q)'
      PROVE  \/ q = q0 /\ s = "worker" /\ k = w /\ i = z
             \/ Stays(S, s, k, i, q) /\ ~(s = "socket" /\ k = c /\ Before(S, s, k, i) = 1)
  <2>1. CASE s = "socket" /\ k = c
    <3>1. i \in Nat /\ i > 0 /\ i + 1 \in DOMAIN inbox[c] /\ inbox'[c][i] = inbox[c][i + 1]
      BY <1>1, <1>7, <2>1, PlaceSortsNext DEF Popped
    <3>2. Place(s, k, i + 1, q)
      BY <1>7, <2>1, <3>1, PlaceSorts, PlaceSortsNext
    <3>3. Stays(S, s, k, i, q) /\ Before(S, s, k, i) = i + 1
      BY <1>6, <2>1, <3>1, <3>2, StaysUp
    <3> QED BY <3>1, <3>3
  <2>2. CASE s = "worker"
    <3>1. \/ i \in DOMAIN wq[k] /\ wq'[k][i] = wq[k][i]
          \/ k = w /\ i = z /\ wq'[k][i] = m
      BY <1>3, <1>5, <1>7, <2>2, PlaceSortsNext DEF Pushed
    <3>2. CASE i \in DOMAIN wq[k] /\ wq'[k][i] = wq[k][i]
      <4>1. Place(s, k, i, q) /\ <<s, k>> \notin S
        BY <1>6, <1>7, <2>2, <3>2, PlaceSorts, PlaceSortsNext
      <4> QED BY <2>2, <4>1, StaysPut
    <3>3. CASE k = w /\ i = z /\ wq'[k][i] = m
      <4>1. q = m.r.q
        BY <1>7, <2>2, <3>3, PlaceSortsNext
      <4> QED BY <1>3, <1>4, <2>2, <3>3, <4>1
    <3> QED BY <3>1, <3>2, <3>3
  <2>3. CASE s # "worker" /\ ~(s = "socket" /\ k = c)
    <3>1. Place(s, k, i, q)
      <4>1. CASE s = "socket"
        <5>1. k \in Conns => inbox'[k] = inbox[k]
          BY <1>1, <2>3, <4>1 DEF Popped
        <5> QED BY <1>7, <4>1, <5>1, PlaceSorts, PlaceSortsNext
      <4>2. CASE s # "socket"
        BY <1>1, <1>7, <2>3, <4>2 DEF Place
      <4> QED BY <4>1, <4>2
    <3>2. <<s, k>> \notin S
      BY <1>6, <2>3
    <3> QED BY <2>3, <3>1, <3>2, StaysPut
  <2> QED BY <2>1, <2>2, <2>3
<1>8. Place("socket", c, 1, q0)
  BY <1>1, <1>4, PlaceSorts
<1>9. MovesOne(S, "socket", c, "worker", w, z, q0)
  BY <1>7 DEF MovesOne
<1> QED BY <1>8, <1>9, Moved

\* From the service to the pipe.
LEMMA PlaceReply ==
    ASSUME ServeTypes, OnePlace, NEW a \in Actors, NEW r \in repliers, Reply(a, r)
    PROVE  OnePlace'
<1>1. repliers' = repliers \ {r} /\ UNCHANGED <<inbox, wq, answers>>
  BY ReplyMoved
<1>2. PICK m \in FrontCmd : m.q = r.q /\ Pushed(fe, fe', Actors, a, m)
  BY ReplyMoved
<1>3. PICK q0 : q0 = r.q
  OBVIOUS
<1>4. PICK z : z = Len(fe[a]) + 1
  OBVIOUS
<1>5. ASSUME NEW s, NEW k, NEW i, NEW q, Place(s, k, i, q)'
      PROVE  \/ q = q0 /\ s = "reply" /\ k = a /\ i = z
             \/ Stays({}, s, k, i, q) /\ ~(s = "service" /\ k = r /\ Before({}, s, k, i) = 1)
  <2>1. CASE s = "reply"
    <3>1. \/ i \in DOMAIN fe[k] /\ fe'[k][i] = fe[k][i]
          \/ k = a /\ i = z /\ fe'[k][i] = m
      BY <1>2, <1>4, <1>5, <2>1, PlaceSortsNext DEF Pushed
    <3>2. CASE i \in DOMAIN fe[k] /\ fe'[k][i] = fe[k][i]
      <4>1. Place(s, k, i, q)
        BY <1>5, <2>1, <3>2, PlaceSorts, PlaceSortsNext
      <4> QED BY <2>1, <4>1, StaysPut
    <3>3. CASE k = a /\ i = z /\ fe'[k][i] = m
      <4>1. q = m.q
        BY <1>5, <2>1, <3>3, PlaceSortsNext
      <4> QED BY <1>2, <1>3, <2>1, <3>3, <4>1
    <3> QED BY <3>1, <3>2, <3>3
  <2>2. CASE s = "service"
    <3>1. Place(s, k, i, q) /\ k # r
      BY <1>1, <1>5, <2>2, PlaceSorts, PlaceSortsNext
    <3> QED BY <3>1, StaysPut
  <2>3. CASE s \notin {"reply", "service"}
    <3>1. Place(s, k, i, q)
      BY <1>1, <1>5, <2>3 DEF Place
    <3> QED BY <2>3, <3>1, StaysPut
  <2> QED BY <2>1, <2>2, <2>3
<1>6. Place("service", r, 1, q0)
  BY <1>3, PlaceSorts
<1>7. MovesOne({}, "service", r, "reply", a, z, q0)
  BY <1>5 DEF MovesOne
<1> QED BY <1>6, <1>7, Moved

\* From the pipe to the client.
LEMMA PlaceAnswer ==
    ASSUME ServeTypes, OnePlace, NEW a \in Actors, HandleReply(a)
    PROVE  OnePlace'
<1>1. PICK m \in FrontCmd :
             /\ m = fe[a][1] /\ 1 \in DOMAIN fe[a] /\ m.cmd = "reply"
             /\ Popped(fe, fe', Actors, a)
             /\ \/ answers' = [answers EXCEPT ![m.q] = Append(@, <<m.conn, m.ev>>)]
                \/ UNCHANGED answers
             /\ UNCHANGED <<inbox, wq, repliers>>
  BY ReplySent
<1>2. PICK q0 : q0 = m.q
  OBVIOUS
<1>3. PICK S : S = {<<"reply", a>>}
  OBVIOUS
<1>4. \A q \in Requests : q # q0 => answers'[q] = answers[q]
  BY <1>1, <1>2 DEF ServeTypes
<1>5. ASSUME NEW s, NEW k, NEW i, NEW q, Place(s, k, i, q)'
      PROVE  \/ q = q0 /\ s = "answered" /\ k = q0 /\ i = 1
             \/ Stays(S, s, k, i, q) /\ ~(s = "reply" /\ k = a /\ Before(S, s, k, i) = 1)
  <2>1. CASE s = "reply" /\ k = a
    <3>1. i \in Nat /\ i > 0 /\ i + 1 \in DOMAIN fe[a] /\ fe'[a][i] = fe[a][i + 1]
      BY <1>1, <1>5, <2>1, PlaceSortsNext DEF Popped
    <3>2. Place(s, k, i + 1, q)
      BY <1>5, <2>1, <3>1, PlaceSorts, PlaceSortsNext
    <3>3. Stays(S, s, k, i, q) /\ Before(S, s, k, i) = i + 1
      BY <1>3, <2>1, <3>1, <3>2, StaysUp
    <3> QED BY <3>1, <3>3
  <2>2. CASE s = "answered"
    <3>1. k = q /\ i = 1 /\ q \in Requests /\ answers'[q] # <<>>
      BY <1>5, <2>2, PlaceSortsNext
    <3>2. CASE q = q0
      BY <2>2, <3>1, <3>2
    <3>3. CASE q # q0
      <4>1. Place(s, k, i, q) /\ <<s, k>> \notin S
        BY <1>3, <1>4, <2>2, <3>1, <3>3, PlaceSorts
      <4> QED BY <2>2, <4>1, StaysPut
    <3> QED BY <3>2, <3>3
  <2>3. CASE s # "answered" /\ ~(s = "reply" /\ k = a)
    <3>1. Place(s, k, i, q)
      <4>1. CASE s = "reply"
        <5>1. k \in Actors => fe'[k] = fe[k]
          BY <1>1, <2>3, <4>1 DEF Popped
        <5> QED BY <1>5, <4>1, <5>1, PlaceSorts, PlaceSortsNext
      <4>2. CASE s # "reply"
        BY <1>1, <1>5, <2>3, <4>2 DEF Place
      <4> QED BY <4>1, <4>2
    <3>2. <<s, k>> \notin S
      BY <1>3, <2>3
    <3> QED BY <2>3, <3>1, <3>2, StaysPut
  <2> QED BY <2>1, <2>2, <2>3
<1>6. Place("reply", a, 1, q0)
  BY <1>1, <1>2, PlaceSorts
<1>7. MovesOne(S, "reply", a, "answered", q0, 1, q0)
  BY <1>5 DEF MovesOne
<1> QED BY <1>6, <1>7, Moved

\* From the worker to the pipe or to a service.
LEMMA PlaceHandle ==
    ASSUME ServeTypes, OnePlace, NEW w \in Workers, HandleRequest(w), fault' = "none"
    PROVE  OnePlace'
<1>1. PICK r \in ReqRec : /\ r = wq[w][1].r /\ wq[w][1].cmd = "data" /\ 1 \in DOMAIN wq[w]
                          /\ Popped(wq, wq', Workers, w) /\ HandlerFate(w, r)
  BY HandlerSteps
<1>2. UNCHANGED <<inbox, answers>>
  BY DEF HandleRequest
<1>3. PICK q0 : q0 = r.q
  OBVIOUS
<1>4. PICK S : S = {<<"worker", w>>}
  OBVIOUS
<1>5. Place("worker", w, 1, q0)
  BY <1>1, <1>3, PlaceSorts
<1>6. ASSUME NEW k, NEW i, NEW q, Place("worker", k, i, q)'
      PROVE  Stays(S, "worker", k, i, q) /\ ~(k = w /\ Before(S, "worker", k, i) = 1)
  <2>1. CASE k = w
    <3>1. i \in Nat /\ i > 0 /\ i + 1 \in DOMAIN wq[w] /\ wq'[w][i] = wq[w][i + 1]
      BY <1>1, <1>6, <2>1, PlaceSortsNext DEF Popped
    <3>2. Place("worker", k, i + 1, q)
      BY <1>6, <2>1, <3>1, PlaceSorts, PlaceSortsNext
    <3>3. Stays(S, "worker", k, i, q) /\ Before(S, "worker", k, i) = i + 1
      BY <1>4, <2>1, <3>1, <3>2, StaysUp
    <3> QED BY <3>1, <3>3
  <2>2. CASE k # w
    <3>1. k \in Workers => wq'[k] = wq[k]
      BY <1>1, <2>2 DEF Popped
    <3>2. Place("worker", k, i, q)
      BY <1>6, <3>1, PlaceSorts, PlaceSortsNext
    <3>3. <<"worker", k>> \notin S
      BY <1>4, <2>2
    <3> QED BY <2>2, <3>2, <3>3, StaysPut
  <2> QED BY <2>1, <2>2
<1>7. ASSUME NEW s, NEW k, NEW i, NEW q, s # "worker", Place(s, k, i, q)
      PROVE  Stays(S, s, k, i, q)
  <2>1. <<s, k>> \notin S
    BY <1>4, <1>7
  <2> QED BY <1>7, <2>1, StaysPut
<1>8. CASE fe' = Push(fe, w, ReplyMsg(w, r)) /\ UNCHANGED repliers
  <2>1. PICK m \in FrontCmd : m = ReplyMsg(w, r) /\ m.q = r.q
    BY ReplyMsgs DEF ReqRec
  <2>2. Pushed(fe, fe', Actors, w, m)
    BY <1>8, <2>1, Sent DEF Actors
  <2>3. PICK z : z = Len(fe[w]) + 1
    OBVIOUS
  <2>4. ASSUME NEW s, NEW k, NEW i, NEW q, Place(s, k, i, q)'
        PROVE  \/ q = q0 /\ s = "reply" /\ k = w /\ i = z
               \/ Stays(S, s, k, i, q) /\ ~(s = "worker" /\ k = w /\ Before(S, s, k, i) = 1)
    <3>1. CASE s = "worker"
      BY <1>6, <2>4, <3>1
    <3>2. CASE s = "reply"
      <4>1. \/ i \in DOMAIN fe[k] /\ fe'[k][i] = fe[k][i]
            \/ k = w /\ i = z /\ fe'[k][i] = m
        BY <2>2, <2>3, <2>4, <3>2, PlaceSortsNext DEF Pushed
      <4>2. CASE i \in DOMAIN fe[k] /\ fe'[k][i] = fe[k][i]
        <5>1. Place(s, k, i, q)
          BY <2>4, <3>2, <4>2, PlaceSorts, PlaceSortsNext
        <5> QED BY <1>7, <3>2, <5>1
      <4>3. CASE k = w /\ i = z /\ fe'[k][i] = m
        <5>1. q = m.q
          BY <2>4, <3>2, <4>3, PlaceSortsNext
        <5> QED BY <1>3, <2>1, <3>2, <4>3, <5>1
      <4> QED BY <4>1, <4>2, <4>3
    <3>3. CASE s \notin {"worker", "reply"}
      <4>1. Place(s, k, i, q)
        BY <1>2, <1>8, <2>4, <3>3 DEF Place
      <4> QED BY <1>7, <3>3, <4>1
    <3> QED BY <3>1, <3>2, <3>3
  <2>5. MovesOne(S, "worker", w, "reply", w, z, q0)
    BY <2>4 DEF MovesOne
  <2> QED BY <1>5, <2>5, Moved
<1>9. CASE repliers' = repliers \cup {[conn |-> r.conn, ev |-> r.ev, q |-> r.q]} /\ UNCHANGED fe
  <2>1. PICK h : h = [conn |-> r.conn, ev |-> r.ev, q |-> r.q]
    OBVIOUS
  <2>2. h.q = r.q /\ repliers' = repliers \cup {h}
    BY <1>9, <2>1
  <2>4. ASSUME NEW s, NEW k, NEW i, NEW q, Place(s, k, i, q)'
        PROVE  \/ q = q0 /\ s = "service" /\ k = h /\ i = 1
               \/ Stays(S, s, k, i, q) /\ ~(s = "worker" /\ k = w /\ Before(S, s, k, i) = 1)
    <3>1. CASE s = "worker"
      BY <1>6, <2>4, <3>1
    <3>2. CASE s = "service"
      <4>1. k \in repliers' /\ i = 1 /\ k.q = q
        BY <2>4, <3>2, PlaceSortsNext
      <4>2. CASE k = h
        BY <1>3, <2>2, <3>2, <4>1, <4>2
      <4>3. CASE k # h
        <5>1. Place(s, k, i, q)
          BY <2>2, <3>2, <4>1, <4>3, PlaceSorts
        <5> QED BY <1>7, <3>2, <5>1
      <4> QED BY <4>2, <4>3
    <3>3. CASE s \notin {"worker", "service"}
      <4>1. Place(s, k, i, q)
        BY <1>2, <1>9, <2>4, <3>3 DEF Place
      <4> QED BY <1>7, <3>3, <4>1
    <3> QED BY <3>1, <3>2, <3>3
  <2>5. MovesOne(S, "worker", w, "service", h, 1, q0)
    BY <2>4 DEF MovesOne
  <2> QED BY <1>5, <2>5, Moved
<1> QED BY <1>1, <1>8, <1>9 DEF HandlerFate

\* A client's request is new, and on its socket.
LEMMA PlaceSend ==
    ASSUME ServeTypes, Addressed, OnePlace, NEW c \in Conns, NEW n \in Names, ClientSend(c, n)
    PROVE  OnePlace'
<1>1. PICK x : x = NextRequest(c, n)
  OBVIOUS
<1>2. x.q = Len(asked) + 1 /\ Len(asked) + 1 \notin DOMAIN asked /\ Pushed(inbox, inbox', Conns, c, x)
  BY <1>1, ClientSends
<1>3. PICK q0 : q0 = x.q /\ q0 \notin DOMAIN asked
  BY <1>2
<1>4. PICK z : z = Len(inbox[c]) + 1
  OBVIOUS
<1>5. UNCHANGED <<fe, wq, repliers, answers>>
  BY DEF ClientSend
<1>6. ASSUME NEW s, NEW k, NEW i, NEW q, Place(s, k, i, q)'
      PROVE  \/ q = q0 /\ s = "socket" /\ k = c /\ i = z
             \/ Stays({}, s, k, i, q) /\ ~(s = "none" /\ k = "none" /\ Before({}, s, k, i) = 1)
  <2>0. s # "none"
    BY <1>6, PlaceSortsNext
  <2>1. CASE s = "socket"
    <3>1. \/ i \in DOMAIN inbox[k] /\ inbox'[k][i] = inbox[k][i]
          \/ k = c /\ i = z /\ inbox'[k][i] = x
      BY <1>2, <1>4, <1>6, <2>1, PlaceSortsNext DEF Pushed
    <3>2. CASE i \in DOMAIN inbox[k] /\ inbox'[k][i] = inbox[k][i]
      <4>1. Place(s, k, i, q)
        BY <1>6, <2>1, <3>2, PlaceSorts, PlaceSortsNext
      <4> QED BY <2>0, <4>1, StaysPut
    <3>3. CASE k = c /\ i = z /\ inbox'[k][i] = x
      <4>1. q = x.q
        BY <1>6, <2>1, <3>3, PlaceSortsNext
      <4> QED BY <1>3, <2>1, <3>3, <4>1
    <3> QED BY <3>1, <3>2, <3>3
  <2>2. CASE s # "socket"
    <3>1. Place(s, k, i, q)
      BY <1>5, <1>6, <2>2 DEF Place
    <3> QED BY <2>0, <3>1, StaysPut
  <2> QED BY <2>1, <2>2
<1>7. MovesOne({}, "none", "none", "socket", c, z, q0)
  BY <1>6 DEF MovesOne
<1>8. \A s, k, i : ~Place(s, k, i, q0)
  BY <1>3, PlacesAsked
<1> QED BY <1>7, <1>8, Moved

\* Every step that is not a fault keeps OnePlace.
LEMMA NextOnePlace ==
    ASSUME ServeTypes, Addressed, OnePlace, Next, fault' = "none"
    PROVE  OnePlace'
<1>1. CASE SocketDeleted
  <2>1. /\ UNCHANGED <<fe, wq, repliers, answers>>
        /\ inbox' = [c \in Conns |-> IF c.is_router /\ c.index = closing.index THEN <<>> ELSE inbox[c]]
    BY <1>1 DEF SocketDeleted
  <2>2. \A c \in Conns : \A i \in DOMAIN inbox'[c] : i \in DOMAIN inbox[c] /\ inbox'[c][i] = inbox[c][i]
    BY <2>1
  <2>3. ASSUME NEW s, NEW k, NEW i, NEW q, Place(s, k, i, q)' PROVE Stays({}, s, k, i, q)
    <3>1. CASE s = "socket"
      <4>1. Place(s, k, i, q)
        BY <2>2, <2>3, <3>1, PlaceSorts, PlaceSortsNext
      <4> QED BY <4>1, StaysPut
    <3>2. CASE s # "socket"
      <4>1. Place(s, k, i, q)
        BY <2>1, <2>3, <3>2 DEF Place
      <4> QED BY <4>1, StaysPut
    <3> QED BY <3>1, <3>2
  <2> QED BY <2>3, Stayed
<1> QED BY <1>1, AsidePlace, PlaceData, PlaceSend, PlaceAnswer, PlaceReply, PlaceHandle, Flow

-----------------------------------------------------------------------------
(* Connections and services that are known                                 *)

\* Who makes connections known, requests and handlers.
LEMMA Sources ==
    ASSUME Next
    PROVE  /\ \/ UNCHANGED known
              \/ \E t \in Threads : ConnectReturns(t)
              \/ \E w \in Workers : HandleRequest(w)
           /\ UNCHANGED asked \/ \E c \in Conns : \E n \in Names : ClientSend(c, n)
           /\ UNCHANGED handlers \/ \E w \in Workers : RegisterService(w) \/ HandleRequest(w)
           /\ \/ UNCHANGED <<names, factories>>
              \/ \E t \in Threads : BindReturns(t) \/ \E n \in Names : RegisterFactory(t, n)
           /\ UNCHANGED regd \/ \E a \in Actors : \E c \in known : \E n \in Names : Register(a, c, n)
           /\ \/ UNCHANGED told
              \/ \E a \in Actors : HandleReply(a) \/ HandleRequestOut(a)
              \/ \E c \in Conns : \E n \in Names : ClientSend(c, n)
<1> USE DEF frontVars, sockVars, workVars
<1>1. ASSUME NEW t \in Threads, ThreadMoves(t)
      PROVE  /\ UNCHANGED <<asked, handlers, names, regd, told>>
             /\ UNCHANGED known \/ ConnectReturns(t)
             /\ UNCHANGED factories \/ BindReturns(t)
  BY <1>1 DEF ThreadMoves, BindReturns, UnbindReturns, ConnectReturns, ServerGone,
              DestroyServices, Connect, Bind, Unbind
<1>2. ASSUME NEW t \in Threads, HandleBind(t) \/ HandleUnbind(t) \/ HandleConnect(t)
      PROVE  UNCHANGED <<asked, handlers, names, factories, regd, told, known>>
  BY <1>2 DEF HandleBind, HandleUnbind, HandleConnect
<1>3. ASSUME NEW t \in Threads, NEW n \in Names, RegisterFactory(t, n)
      PROVE  UNCHANGED <<asked, handlers, regd, told, known>>
  BY <1>3 DEF RegisterFactory
<1>4. ASSUME NEW a \in Actors, HandleReply(a) \/ HandleRequestOut(a) \/ HandleRegister(a)
      PROVE  /\ UNCHANGED <<asked, handlers, names, factories, regd, known>>
             /\ HandleRegister(a) => UNCHANGED told
  BY <1>4 DEF HandleReply, HandleRequestOut, HandleRegister
<1>5. ASSUME NEW a \in Actors, NEW r \in repliers, Reply(a, r)
      PROVE  UNCHANGED <<asked, handlers, names, factories, regd, told, known>>
  BY <1>5 DEF Reply
<1>6. ASSUME NEW a \in Actors, NEW c \in known, Request(a, c)
      PROVE  UNCHANGED <<asked, handlers, names, factories, regd, told, known>>
  BY <1>6 DEF Request
<1>7. ASSUME NEW a \in Actors, NEW c \in known, NEW n \in Names, Register(a, c, n)
      PROVE  UNCHANGED <<asked, handlers, names, factories, told, known>>
  BY <1>7 DEF Register
<1>8. ASSUME SocketDeleted
      PROVE  UNCHANGED <<asked, handlers, names, factories, regd, told, known>>
  BY <1>8 DEF SocketDeleted
<1>9. ASSUME NEW c \in Conns, HandleData(c)
      PROVE  UNCHANGED <<asked, handlers, names, factories, regd, told, known>>
  BY <1>9 DEF HandleData
<1>10. ASSUME NEW c \in Conns, NEW n \in Names, ClientSend(c, n)
       PROVE  UNCHANGED <<handlers, names, factories, regd, known>>
  BY <1>10 DEF ClientSend
<1>11. ASSUME NEW w \in Workers, RegisterService(w) \/ HandleRequest(w)
       PROVE  /\ UNCHANGED <<asked, names, factories, regd, told>>
              /\ RegisterService(w) => UNCHANGED known
  BY <1>11 DEF RegisterService, HandleRequest
<1>12. \/ \E t \in Threads : \/ ThreadMoves(t) \/ HandleBind(t) \/ HandleUnbind(t) \/ HandleConnect(t)
                             \/ \E n \in Names : RegisterFactory(t, n)
       \/ \E a \in Actors : \/ HandleReply(a) \/ HandleRequestOut(a) \/ HandleRegister(a)
                            \/ \E r \in repliers : Reply(a, r)
                            \/ \E c \in known : Request(a, c) \/ \E n \in Names : Register(a, c, n)
       \/ SocketDeleted
       \/ \E c \in Conns : HandleData(c) \/ \E n \in Names : ClientSend(c, n)
       \/ \E w \in Workers : RegisterService(w) \/ HandleRequest(w)
  BY DEF Next, ThreadMoves
<1> QED BY <1>1, <1>2, <1>3, <1>4, <1>5, <1>6, <1>7, <1>8, <1>9, <1>10, <1>11, <1>12

\* Requests stay made, and stay on their connection.
LEMMA AskedGrows ==
    ASSUME ServeTypes, Next
    PROVE  /\ \A q \in DOMAIN asked : q \in DOMAIN asked' /\ asked'[q] = asked[q]
           /\ \A c : AskedOn(c) # {} => AskedOn(c)' # {}
<1>1. \A q \in DOMAIN asked : q \in DOMAIN asked' /\ asked'[q] = asked[q]
  <2>1. ASSUME NEW c \in Conns, NEW n \in Names, ClientSend(c, n)
        PROVE  \A q \in DOMAIN asked : q \in DOMAIN asked' /\ asked'[q] = asked[q]
    BY <2>1, ClientSends
  <2> QED BY <2>1, Sources
<1> QED BY <1>1 DEF AskedOn

\* Connections stay known; the new one, if any, is legal.
LEMMA KnownGrows ==
    ASSUME ServeTypes, OneCommand, KnownLegal, Addressed, Next
    PROVE  known \subseteq known' /\ \A c \in known' : c \in known \/ Legal(c)
<1>1. ASSUME NEW t \in Threads, ConnectReturns(t)
      PROVE  known \subseteq known' /\ \A c \in known' : c \in known \/ Legal(c)
  <2>1. Len(answer[t]) = 1 /\ answer[t][1] \in 1 .. dealers
    BY <1>1 DEF ConnectReturns, At, OneCommand, Answered
  <2>2. Head(answer[t]) = answer[t][1]
    BY <1>1, <2>1, AnswerTaken DEF ConnectReturns
  <2>3. Legal(DealerConn(answer[t][1]))
    BY <2>1 DEF Legal, DealerConn
  <2> QED BY <1>1, <2>2, <2>3 DEF ConnectReturns
<1>2. ASSUME NEW w \in Workers, HandleRequest(w)
      PROVE  known \subseteq known' /\ \A c \in known' : c \in known \/ Legal(c)
  <2>1. PICK r \in ReqRec : /\ r = wq[w][1].r /\ wq[w][1].cmd = "data" /\ 1 \in DOMAIN wq[w]
                            /\ HandlerFate(w, r)
    BY <1>2, HandlerSteps
  <2>2. Legal(r.conn)
    BY <2>1 DEF Addressed, QueuesMade, Made, KnownLegal
  <2>3. known' = known \/ known' = known \cup {r.conn}
    BY <2>1 DEF HandlerFate
  <2> QED BY <2>2, <2>3
<1> QED BY <1>1, <1>2, Sources

\* Every step keeps KnownLegal.
LEMMA NextKnownLegal ==
    ASSUME ServeTypes, OneCommand, BindMap, KnownLegal, Addressed, Next, known' \subseteq Conns
    PROVE  KnownLegal'
<1>1. \A c \in Conns : Legal(c) => Legal(c)'
  BY Grows
<1>2. ASSUME NEW c \in known' PROVE Legal(c)'
  BY <1>1, KnownGrows DEF KnownLegal
<1>3. ASSUME NEW q \in DOMAIN asked' PROVE Legal(asked[q].conn)'
  <2>0. ASSUME NEW p \in DOMAIN asked PROVE asked[p].conn \in Conns
    <3>1. asked[p] \in ReqRec
      BY DEF ServeTypes
    <3> QED BY <3>1 DEF ReqRec
  <2>1. CASE q \in DOMAIN asked
    <3>1. PICK c \in Conns : c = asked[q].conn
      BY <2>0, <2>1
    <3>2. asked'[q].conn = c /\ Legal(c)'
      BY <1>1, <2>1, <3>1, AskedGrows DEF KnownLegal
    <3> QED BY <3>2 DEF Legal
  <2>2. CASE q \notin DOMAIN asked
    <3>1. PICK c \in Conns : \E n \in Names : ClientSend(c, n)
      BY <2>2, Sources
    <3>2. PICK n \in Names : ClientSend(c, n)
      BY <3>1
    <3>3. q = Len(asked) + 1 /\ asked'[q].conn = c
      BY <2>2, <3>2, ClientSends
    <3>4. Legal(c)
      BY <3>2, OpenLegal DEF ClientSend
    <3>5. Legal(c)'
      BY <1>1, <3>4
    <3> QED BY <3>3, <3>5 DEF Legal
  <2> QED BY <2>1, <2>2
<1> QED BY <1>2, <1>3 DEF KnownLegal

\* Only HandleRegister and HandleData add to a worker's queue.
LEMMA QueueSources ==
    ASSUME ServeTypes, Next, NEW w \in Workers, NEW i \in DOMAIN wq'[w],
           ~\E j \in DOMAIN wq[w] : wq'[w][i] = wq[w][j]
    PROVE  \/ \E a \in Actors : HandleRegister(a)
           \/ wq'[w][i].cmd = "data" /\ \E c \in Conns : HandleData(c)
<1> USE DEF frontVars, sockVars, workVars
<1>1. wq' # wq
  OBVIOUS
<1>2. \/ \E a \in Actors : HandleRegister(a)
      \/ \E c \in Conns : HandleData(c)
      \/ \E v \in Workers : RegisterService(v) \/ HandleRequest(v)
  BY <1>1 DEF Next, BindReturns, UnbindReturns, ConnectReturns, ServerGone, DestroyServices,
         Connect, Bind, Unbind, RegisterFactory, HandleBind, HandleUnbind, HandleConnect,
         HandleReply, HandleRequestOut, Reply, Request, Register, SocketDeleted, ClientSend
<1>3. ASSUME NEW v \in Workers, RegisterService(v) \/ HandleRequest(v) PROVE FALSE
  <2>1. Popped(wq, wq', Workers, v)
    BY <1>3, Taken DEF RegisterService, HandleRequest
  <2> QED BY <2>1, PoppedFrom
<1>4. ASSUME NEW c \in Conns, HandleData(c) PROVE wq'[w][i].cmd = "data"
  <2>1. PICK m \in WorkCmd : /\ m.cmd = "data"
                             /\ Pushed(wq, wq', Workers, get_worker_index(c), m)
    BY <1>4, DataMoved
  <2> QED BY <2>1 DEF Pushed
<1> QED BY <1>2, <1>3, <1>4

\* A pipe is appended to, with what the sender has registered, or read, or not
\* touched.
PipeMoves ==
    \/ fe' = fe
    \/ \E a \in Actors : /\ Popped(fe, fe', Actors, a)
                         /\ fe[a][1].cmd = "register" => HandleRegister(a)
    \/ \E a \in Actors : \E m \in FrontCmd :
         /\ Pushed(fe, fe', Actors, a, m)
         /\ m.cmd \in {"register", "request"} => m.conn \in known
         /\ m.cmd \in {"reply", "request"} => m.tells = RegisteredBy(a, m.conn)
         /\ m.cmd \in {"reply", "request"} => m.conn \in Conns

\* Every step is of that sort.
LEMMA NextPipe ==
    ASSUME ServeTypes, Next
    PROVE  PipeMoves
<1> USE DEF frontVars, sockVars, workVars
<1>0. Threads \subseteq Actors /\ Workers \subseteq Actors
  BY DEF Actors
<1>1. ASSUME NEW a \in Actors, NEW cmd, Front(a, cmd), cmd = "register" => HandleRegister(a)
      PROVE  PipeMoves
  BY <1>1, Read DEF PipeMoves
<1>2. ASSUME NEW t \in Threads, NEW st, NEW ep, NEW m \in FrontCmd, Call(t, st, ep, m),
             m.cmd \in WaitCmds
      PROVE  PipeMoves
  <2>1. t \in Actors /\ Pushed(fe, fe', Actors, t, m)
    BY <1>0, <1>2, Sent DEF Call
  <2> QED BY <1>2, <2>1 DEF PipeMoves, WaitCmds
<1>3. ASSUME NEW t \in Threads, ThreadMoves(t) PROVE PipeMoves
  <2>1. ASSUME NEW ep \in Endpoints, Bind(t, ep) PROVE PipeMoves
    <3>1. PICK m : m = [cmd |-> "bind", endpoint |-> ep]
      OBVIOUS
    <3>2. m \in FrontCmd /\ m.cmd \in WaitCmds
      BY <3>1 DEF FrontCmd, WaitCmds
    <3> QED BY <1>2, <2>1, <3>1, <3>2 DEF Bind
  <2>2. ASSUME NEW ep \in Endpoints, Unbind(t, ep) PROVE PipeMoves
    <3>1. PICK m : m = [cmd |-> "unbind", endpoint |-> ep]
      OBVIOUS
    <3>2. m \in FrontCmd /\ m.cmd \in WaitCmds
      BY <3>1 DEF FrontCmd, WaitCmds
    <3> QED BY <1>2, <2>2, <3>1, <3>2 DEF Unbind
  <2>3. CASE Connect(t)
    <3>1. PICK m : m = [cmd |-> "connect"]
      OBVIOUS
    <3>2. m \in FrontCmd /\ m.cmd \in WaitCmds
      BY <3>1 DEF FrontCmd, WaitCmds
    <3> QED BY <1>2, <2>3, <3>1, <3>2 DEF Connect
  <2>4. \/ \E ep \in Endpoints : Bind(t, ep) \/ Unbind(t, ep)
        \/ Connect(t) \/ fe' = fe
    BY <1>3 DEF ThreadMoves, BindReturns, UnbindReturns, ConnectReturns, ServerGone, DestroyServices
  <2> QED BY <2>1, <2>2, <2>3, <2>4 DEF PipeMoves
<1>4. ASSUME NEW a \in Actors, NEW c \in known, NEW n \in Names, Register(a, c, n) PROVE PipeMoves
  <2>1. PICK m : m = [cmd |-> "register", conn |-> c, name |-> n]
    OBVIOUS
  <2>2. m \in FrontCmd /\ m.cmd = "register" /\ m.conn = c
    BY <2>1 DEF FrontCmd, ServeTypes
  <2>3. Pushed(fe, fe', Actors, a, m)
    BY <1>4, <2>1, <2>2, Sent DEF Register
  <2> QED BY <2>2, <2>3 DEF PipeMoves
<1>5. ASSUME NEW a \in Actors, NEW c \in known, Request(a, c) PROVE PipeMoves
  <2>1. PICK m : m = [cmd |-> "request", conn |-> c, tells |-> RegisteredBy(a, c)]
    OBVIOUS
  <2>2. /\ m \in FrontCmd /\ m.cmd = "request" /\ m.conn = c /\ m.tells = RegisteredBy(a, m.conn)
        /\ c \in Conns
    BY <2>1 DEF FrontCmd, ServeTypes, RegisteredBy
  <2>3. Pushed(fe, fe', Actors, a, m)
    BY <1>5, <2>1, <2>2, Sent DEF Request
  <2> QED BY <2>2, <2>3 DEF PipeMoves
<1>6. ASSUME NEW a \in Actors, NEW r \in repliers, Reply(a, r) PROVE PipeMoves
  BY <1>6, ReplyMoved DEF PipeMoves
<1>7. ASSUME NEW w \in Workers, HandleRequest(w) PROVE PipeMoves
  <2>1. PICK r \in ReqRec : HandlerFate(w, r)
    BY <1>7, HandlerSteps
  <2>2. PICK m \in FrontCmd : /\ m = ReplyMsg(w, r) /\ m.cmd = "reply" /\ m.conn = r.conn
                              /\ m.tells = RegisteredBy(w, r.conn)
    BY ReplyMsgs DEF ReqRec
  <2>3. r.conn \in Conns
    BY DEF ReqRec
  <2>4. fe' = fe \/ Pushed(fe, fe', Actors, w, m)
    BY <1>0, <2>1, <2>2, Sent DEF HandlerFate
  <2> QED BY <1>0, <2>2, <2>3, <2>4 DEF PipeMoves
<1>8. ASSUME fe' = fe PROVE PipeMoves
  BY <1>8 DEF PipeMoves
<1>9. \/ fe' = fe
      \/ \E t \in Threads : ThreadMoves(t)
      \/ \E a \in Actors : \/ \E cmd : Front(a, cmd) /\ (cmd = "register" => HandleRegister(a))
                           \/ \E r \in repliers : Reply(a, r)
                           \/ \E c \in known : Request(a, c) \/ \E n \in Names : Register(a, c, n)
      \/ \E w \in Workers : HandleRequest(w)
  <2>1. ASSUME NEW a \in Actors, \/ HandleBind(a) \/ HandleUnbind(a) \/ HandleConnect(a)
                                 \/ HandleReply(a) \/ HandleRequestOut(a)
        PROVE  \E cmd : Front(a, cmd) /\ cmd # "register"
    BY <2>1 DEF HandleBind, HandleUnbind, HandleConnect, HandleReply, HandleRequestOut
  <2>2. ASSUME NEW a \in Actors, HandleRegister(a) PROVE Front(a, "register")
    BY <2>2 DEF HandleRegister
  <2>3. \/ fe' = fe
        \/ \E t \in Threads : ThreadMoves(t)
        \/ \E a \in Actors : \/ HandleBind(a) \/ HandleUnbind(a) \/ HandleConnect(a)
                             \/ HandleReply(a) \/ HandleRequestOut(a) \/ HandleRegister(a)
                             \/ \E r \in repliers : Reply(a, r)
                             \/ \E c \in known : Request(a, c) \/ \E n \in Names : Register(a, c, n)
        \/ \E w \in Workers : HandleRequest(w)
    BY <1>0 DEF Next, ThreadMoves, RegisterFactory, SocketDeleted, HandleData, ClientSend,
       RegisterService
  <2> QED BY <2>1, <2>2, <2>3
<1> QED BY <1>1, <1>3, <1>4, <1>5, <1>6, <1>7, <1>8, <1>9

\* What is added to a pipe is about a connection that is known.
LEMMA PipeSources ==
    ASSUME ServeTypes, Next, NEW a \in Actors, NEW i \in DOMAIN fe'[a],
           fe'[a][i].cmd \in {"register", "request"},
           ~\E j \in DOMAIN fe[a] : fe'[a][i] = fe[a][j]
    PROVE  fe'[a][i].conn \in known
<1>1. fe' # fe
  OBVIOUS
<1>2. ASSUME NEW b \in Actors, Popped(fe, fe', Actors, b) PROVE FALSE
  BY <1>2, PoppedFrom
<1>3. PICK b \in Actors : \E m \in FrontCmd :
         /\ Pushed(fe, fe', Actors, b, m)
         /\ m.cmd \in {"register", "request"} => m.conn \in known
  BY <1>1, <1>2, NextPipe DEF PipeMoves
<1> QED BY <1>3 DEF Pushed

\* A worker registers a service: the handler has it from then on.
LEMMA Registers ==
    ASSUME ServeTypes, NEW w \in Workers, RegisterService(w)
    PROVE  \E m \in WorkCmd : \E h \in Services :
             /\ m = wq[w][1] /\ 1 \in DOMAIN wq[w] /\ m.cmd = "register"
             /\ m.conn \in Conns /\ m.name \in Names
             /\ Popped(wq, wq', Workers, w)
             /\ h = [get_handler(w, m.conn) EXCEPT ![m.name] = "registered"]
             /\ Store(w, m.conn, h)
             /\ UNCHANGED fe
<1>1. /\ Popped(wq, wq', Workers, w) /\ Head(wq[w]) = wq[w][1] /\ 1 \in DOMAIN wq[w]
      /\ wq[w][1].cmd = "register" /\ wq[w][1] \in WorkCmd
  BY Taken DEF RegisterService
<1>2. PICK m \in WorkCmd : m = wq[w][1]
  BY <1>1
<1>3. m.conn \in Conns /\ m.name \in Names
  BY <1>1, <1>2, WorkFields
<1>4. get_handler(w, m.conn) \in Services
  BY <1>3, HandlerServices
<1>5. PICK h : h = [get_handler(w, m.conn) EXCEPT ![m.name] = "registered"]
  OBVIOUS
<1>6. h \in Services
  BY <1>3, <1>4, <1>5 DEF Services
<1>7. Store(w, m.conn, h) /\ UNCHANGED fe
  BY <1>1, <1>2, <1>5 DEF RegisterService
<1> QED BY <1>1, <1>2, <1>3, <1>5, <1>6, <1>7

\* Every step keeps HandlersKnown.
LEMMA NextHandlersKnown ==
    ASSUME ServeTypes, OneCommand, KnownLegal, Addressed, HandlersKnown, Next
    PROVE  HandlersKnown'
<1>0. known \subseteq known' /\ \A c : AskedOn(c) # {} => AskedOn(c)' # {}
  BY KnownGrows, AskedGrows
<1>1. ASSUME NEW w \in Workers, NEW c \in DOMAIN handlers'[w] PROVE c \in known' \/ AskedOn(c)' # {}
  <2>1. CASE c \in DOMAIN handlers[w]
    BY <1>0, <2>1 DEF HandlersKnown
  <2>2. CASE c \notin DOMAIN handlers[w]
    <3>1. PICK v \in Workers : RegisterService(v) \/ HandleRequest(v)
      BY <1>1, <2>2, Sources
    <3>2. CASE RegisterService(v)
      <4>1. PICK m \in WorkCmd : \E h \in Services :
               /\ m = wq[v][1] /\ 1 \in DOMAIN wq[v] /\ m.cmd = "register" /\ m.conn \in Conns
               /\ Store(v, m.conn, h)
        BY <3>2, Registers
      <4>2. c = m.conn
        BY <1>1, <2>2, <4>1, Stored
      <4> QED BY <1>0, <4>1, <4>2 DEF HandlersKnown
    <3>3. CASE HandleRequest(v)
      <4>1. PICK r \in ReqRec : /\ r = wq[v][1].r /\ wq[v][1].cmd = "data" /\ 1 \in DOMAIN wq[v]
                                /\ get_handler(v, r.conn) \in Services
                                /\ Store(v, r.conn, get_handler(v, r.conn))
        BY <3>3, HandlerSteps
      <4>2. r.conn \in Conns
        BY DEF ReqRec
      <4>3. c = r.conn
        BY <1>1, <2>2, <4>1, <4>2, Stored
      <4>4. r.q \in DOMAIN asked /\ asked[r.q].conn = c
        BY <4>1, <4>3 DEF Addressed, QueuesMade, Made
      <4>5. AskedOn(c) # {}
        BY <4>4 DEF AskedOn
      <4> QED BY <1>0, <4>5
    <3> QED BY <3>1, <3>2, <3>3
  <2> QED BY <2>1, <2>2
<1>2. ASSUME NEW w \in Workers, NEW i \in DOMAIN wq'[w], wq'[w][i].cmd = "register"
      PROVE  wq'[w][i].conn \in known'
  <2>1. CASE \E j \in DOMAIN wq[w] : wq'[w][i] = wq[w][j]
    BY <1>0, <1>2, <2>1 DEF HandlersKnown
  <2>2. CASE ~\E j \in DOMAIN wq[w] : wq'[w][i] = wq[w][j]
    <3>1. PICK a \in Actors : HandleRegister(a)
      BY <1>2, <2>2, QueueSources
    <3>2. /\ 1 \in DOMAIN fe[a] /\ Head(fe[a]) = fe[a][1] /\ fe[a][1].cmd = "register"
          /\ fe[a][1] \in FrontCmd
      BY <3>1, Read DEF HandleRegister
    <3>3. PICK m \in WorkCmd : m = fe[a][1] /\ m.conn \in Conns
      BY <3>2 DEF FrontCmd, WorkCmd
    <3>4. Pushed(wq, wq', Workers, get_worker_index(m.conn), m)
      BY <3>1, <3>2, <3>3, Assigned, ConnWorker DEF HandleRegister, register_svc
    <3>5. wq'[w][i] = m
      BY <1>2, <2>2, <3>4 DEF Pushed
    <3> QED BY <1>0, <3>2, <3>3, <3>5 DEF HandlersKnown
  <2> QED BY <2>1, <2>2
<1>3. ASSUME NEW a \in Actors, NEW i \in DOMAIN fe'[a], fe'[a][i].cmd \in {"register", "request"}
      PROVE  fe'[a][i].conn \in known'
  <2>1. CASE \E j \in DOMAIN fe[a] : fe'[a][i] = fe[a][j]
    BY <1>0, <1>3, <2>1 DEF HandlersKnown
  <2>2. CASE ~\E j \in DOMAIN fe[a] : fe'[a][i] = fe[a][j]
    BY <1>0, <1>3, <2>2, PipeSources
  <2> QED BY <2>1, <2>2
<1> QED BY <1>1, <1>2, <1>3 DEF HandlersKnown

-----------------------------------------------------------------------------
(* What clients rely on                                                    *)

\* Has and Will after a step are about the same worker.
LEMMA HasNext ==
    ASSUME NEW c, NEW n
    PROVE  /\ Has(c, n)' <=> /\ c \in DOMAIN handlers'[get_worker_index(c)]
                             /\ handlers'[get_worker_index(c)][c][n] # "none"
           /\ Will(c, n)' <=> /\ c \notin DOMAIN handlers'[get_worker_index(c)]
                              /\ c.is_router /\ n \in RouterNames(c.index)'
BY DEF Has, Will, get_worker_index

\* The services of a router stay, once bind() has returned.
LEMMA RouterNamesGrow ==
    ASSUME ServeTypes, OneCommand, Owners, Next, NEW i \in Routers
    PROVE  RouterNames(i) \subseteq RouterNames(i)'
<1>0. names \in [Threads -> SUBSET Names] /\ factories \in [Routers -> Threads \cup {NoThread}]
  BY DEF ServeTypes
<1>1. CASE UNCHANGED <<names, factories>>
  BY <1>1 DEF RouterNames
<1>2. ASSUME NEW t \in Threads, BindReturns(t) PROVE RouterNames(i) \subseteq RouterNames(i)'
  <2>1. Len(answer[t]) = 1 /\ answer' = Pop(answer, t) /\ Returning(t)
    BY <1>2 DEF BindReturns, At, OneCommand, Answered, Owners
  <2>2. PICK k : k = Head(answer[t]) /\ k = answer[t][1]
    BY <2>1, AnswerTaken
  <2>3. k \in Routers => factories[k] = NoThread
    BY <2>1, <2>2 DEF Returning
  <2>4. factories' = [factories EXCEPT ![k] = t] /\ names' = names
    BY <1>2, <2>2 DEF BindReturns
  <2>5. CASE i = k
    BY <2>3, <2>5 DEF RouterNames
  <2>6. CASE i # k
    <3>1. factories'[i] = factories[i]
      BY <1>0, <2>4, <2>6
    <3> QED BY <2>4, <3>1 DEF RouterNames
  <2> QED BY <2>5, <2>6
<1>3. ASSUME NEW t \in Threads, NEW n \in Names, RegisterFactory(t, n)
      PROVE  RouterNames(i) \subseteq RouterNames(i)'
  <2>1. factories' = factories /\ names' = [names EXCEPT ![t] = @ \cup {n}]
    BY <1>3 DEF RegisterFactory
  <2>2. \A u \in Threads : names[u] \subseteq names'[u]
    BY <1>0, <2>1
  <2>3. factories[i] \in Threads \cup {NoThread}
    BY <1>0
  <2> QED BY <2>1, <2>2, <2>3 DEF RouterNames
<1> QED BY <1>1, <1>2, <1>3, Sources

\* Storing a handler with the services it had, or those it is made with, takes
\* no service away.
LEMMA StoreKeeps ==
    ASSUME ServeTypes, NEW w \in Workers, NEW d \in Conns, NEW h \in Services, Store(w, d, h),
           \A n \in Names : get_handler(w, d)[n] # "none" => h[n] # "none",
           UNCHANGED <<names, factories>>, NEW c \in Conns, NEW n \in Names
    PROVE  (Has(c, n) => Has(c, n)') /\ (Will(c, n) => Has(c, n)' \/ Will(c, n)')
<1>0. PICK v \in Workers : v = get_worker_index(c)
  BY ConnWorker
<1>1. /\ DOMAIN handlers'[w] = DOMAIN handlers[w] \cup {d} /\ handlers'[w][d] = h
      /\ \A e \in DOMAIN handlers[w] : e # d => handlers'[w][e] = handlers[w][e]
      /\ \A u \in Workers : u # w => handlers'[u] = handlers[u]
  BY Stored
<1>2. ASSUME Has(c, n) PROVE Has(c, n)'
  <2>1. c \in DOMAIN handlers[v] /\ handlers[v][c][n] # "none"
    BY <1>0, <1>2 DEF Has
  <2>2. c \in DOMAIN handlers'[v] /\ handlers'[v][c][n] # "none"
    <3>1. CASE v # w \/ c # d
      BY <1>1, <2>1, <3>1
    <3>2. CASE v = w /\ c = d
      <4>1. get_handler(w, d) = handlers[w][c]
        BY <2>1, <3>2, HandlerServices
      <4> QED BY <1>1, <2>1, <3>2, <4>1
    <3> QED BY <3>1, <3>2
  <2> QED BY <1>0, <2>2, HasNext
<1>3. ASSUME Will(c, n) PROVE Has(c, n)' \/ Will(c, n)'
  <2>1. c \notin DOMAIN handlers[v] /\ c.is_router /\ n \in RouterNames(c.index)
    BY <1>0, <1>3 DEF Will
  <2>2. CASE v # w \/ c # d
    <3>1. c \notin DOMAIN handlers'[v]
      BY <1>1, <2>1, <2>2
    <3>2. n \in RouterNames(c.index)'
      BY <2>1 DEF RouterNames
    <3> QED BY <1>0, <2>1, <3>1, <3>2, HasNext
  <2>3. CASE v = w /\ c = d
    <3>1. get_handler(w, d) = create_services(d)
      BY <2>1, <2>3, HandlerServices
    <3>2. create_services(d)[n] # "none"
      BY <2>1, <2>3 DEF create_services
    <3>3. c \in DOMAIN handlers'[v] /\ handlers'[v][c][n] # "none"
      BY <1>1, <2>3, <3>1, <3>2
    <3> QED BY <1>0, <3>3, HasNext
  <2> QED BY <2>2, <2>3
<1> QED BY <1>2, <1>3

\* A service that a handler has or will have stays.
LEMMA ServicesStay ==
    ASSUME ServeTypes, OneCommand, Owners, Next, NEW c \in Conns, NEW n \in Names
    PROVE  (Has(c, n) => Has(c, n)') /\ (Will(c, n) => Has(c, n)' \/ Will(c, n)')
<1>1. CASE UNCHANGED handlers
  <2>1. c.is_router => c.index \in Routers
    BY DEF Conns
  <2>2. c.is_router /\ n \in RouterNames(c.index) => n \in RouterNames(c.index)'
    <3>1. PICK i : i = c.index
      OBVIOUS
    <3>2. c.is_router => RouterNames(i) \subseteq RouterNames(i)'
      BY <2>1, <3>1, RouterNamesGrow
    <3> QED BY <3>1, <3>2 DEF RouterNames
  <2> QED BY <1>1, <2>2, HasNext DEF Has, Will
<1>2. ASSUME NEW w \in Workers, RegisterService(w)
      PROVE  (Has(c, n) => Has(c, n)') /\ (Will(c, n) => Has(c, n)' \/ Will(c, n)')
  <2>1. PICK m \in WorkCmd : \E h \in Services :
             /\ m.conn \in Conns /\ m.name \in Names
             /\ h = [get_handler(w, m.conn) EXCEPT ![m.name] = "registered"]
             /\ Store(w, m.conn, h)
    BY <1>2, Registers
  <2>2. PICK h \in Services :
             /\ h = [get_handler(w, m.conn) EXCEPT ![m.name] = "registered"]
             /\ Store(w, m.conn, h)
    BY <2>1
  <2>3. get_handler(w, m.conn) \in Services
    BY <2>1, HandlerServices
  <2>4. \A k \in Names : get_handler(w, m.conn)[k] # "none" => h[k] # "none"
    BY <2>2, <2>3 DEF Services
  <2>5. UNCHANGED <<names, factories>>
    BY <1>2 DEF RegisterService, frontVars
  <2> QED BY <2>1, <2>2, <2>4, <2>5, StoreKeeps
<1>3. ASSUME NEW w \in Workers, HandleRequest(w)
      PROVE  (Has(c, n) => Has(c, n)') /\ (Will(c, n) => Has(c, n)' \/ Will(c, n)')
  <2>1. PICK r \in ReqRec : /\ get_handler(w, r.conn) \in Services
                            /\ Store(w, r.conn, get_handler(w, r.conn))
    BY <1>3, HandlerSteps
  <2>2. r.conn \in Conns
    BY DEF ReqRec
  <2>3. UNCHANGED <<names, factories>>
    BY <1>3 DEF HandleRequest, frontVars
  <2> QED BY <2>1, <2>2, <2>3, StoreKeeps
<1> QED BY <1>1, <1>2, <1>3, Sources

\* Registered after a step is about the same worker.
LEMMA RegisteredNext ==
    ASSUME NEW c, NEW n
    PROVE  Registered(c, n)' <=>
             \/ Has(c, n)'
             \/ \E i \in DOMAIN wq'[get_worker_index(c)] : Queued(get_worker_index(c), i, c, n)'
BY DEF Registered, Queued, get_worker_index

\* What a client may rely on is there for the request m at the end of w's queue.
ServedAt(w, m) ==
    m.cmd = "data" =>
        /\ w = get_worker_index(m.r.conn) /\ m.r.conn \in Conns /\ m.r.name \in Names
        /\ m.r.due => Registered(m.r.conn, m.r.name) \/ Will(m.r.conn, m.r.name)

\* Each worker's queue is appended to, or read by its worker, which registers
\* the services that it reads of, or not touched.
QueueMoves ==
    \/ wq' = wq
    \/ \E w \in Workers : \E m \in WorkCmd : Pushed(wq, wq', Workers, w, m) /\ ServedAt(w, m)
    \/ \E w \in Workers :
         /\ Popped(wq, wq', Workers, w)
         /\ \A c \in Conns, n \in Names :
              Queued(w, 1, c, n) /\ w = get_worker_index(c) => Has(c, n)'

\* Every step is of that sort.
LEMMA NextQueue ==
    ASSUME ServeTypes, Addressed, Relied, Next
    PROVE  QueueMoves
<1> USE DEF frontVars, sockVars, workVars
<1>1. ASSUME NEW a \in Actors, HandleRegister(a) PROVE QueueMoves
  <2>1. /\ Head(fe[a]) = fe[a][1] /\ fe[a][1].cmd = "register" /\ fe[a][1] \in FrontCmd
    BY <1>1, Read DEF HandleRegister
  <2>2. PICK m \in WorkCmd : m = fe[a][1] /\ m.conn \in Conns /\ m.cmd = "register"
    BY <2>1 DEF FrontCmd, WorkCmd
  <2>3. Pushed(wq, wq', Workers, get_worker_index(m.conn), m) /\ get_worker_index(m.conn) \in Workers
    BY <1>1, <2>1, <2>2, Assigned, ConnWorker DEF HandleRegister, register_svc
  <2>4. ServedAt(get_worker_index(m.conn), m)
    BY <2>2 DEF ServedAt
  <2> QED BY <2>3, <2>4 DEF QueueMoves
<1>2. ASSUME NEW c \in Conns, HandleData(c) PROVE QueueMoves
  <2>1. 1 \in DOMAIN inbox[c] /\ inbox[c][1] \in ReqRec /\ get_worker_index(c) \in Workers
    BY <1>2, DataMoved
  <2>2. PICK m \in WorkCmd : /\ m.cmd = "data" /\ m.r = inbox[c][1]
                             /\ Pushed(wq, wq', Workers, get_worker_index(c), m)
    BY <1>2, DataMoved
  <2>3. m.r.conn = c /\ m.r.name \in Names
    BY <2>1, <2>2 DEF Addressed, SocketsMade, ReqRec
  <2>4. m.r.due => Registered(c, m.r.name) \/ Will(c, m.r.name)
    BY <2>1, <2>2, <2>3 DEF Relied, DueTold, ToldKept
  <2>5. ServedAt(get_worker_index(c), m)
    BY <2>3, <2>4 DEF ServedAt
  <2> QED BY <2>1, <2>2, <2>5 DEF QueueMoves
<1>3. ASSUME NEW w \in Workers, RegisterService(w) PROVE QueueMoves
  <2>1. PICK m \in WorkCmd : \E h \in Services :
             /\ m = wq[w][1] /\ m.conn \in Conns /\ m.name \in Names
             /\ Popped(wq, wq', Workers, w)
             /\ h = [get_handler(w, m.conn) EXCEPT ![m.name] = "registered"]
             /\ Store(w, m.conn, h)
    BY <1>3, Registers
  <2>2. PICK h \in Services :
             /\ h = [get_handler(w, m.conn) EXCEPT ![m.name] = "registered"]
             /\ Store(w, m.conn, h)
    BY <2>1
  <2>3. get_handler(w, m.conn) \in Services
    BY <2>1, HandlerServices
  <2>4. h[m.name] = "registered"
    BY <2>1, <2>2, <2>3 DEF Services
  <2>5. m.conn \in DOMAIN handlers'[w] /\ handlers'[w][m.conn] = h
    BY <2>1, <2>2, Stored
  <2>6. ASSUME NEW c \in Conns, NEW n \in Names, Queued(w, 1, c, n), w = get_worker_index(c)
        PROVE  Has(c, n)'
    <3>1. c = m.conn /\ n = m.name
      BY <2>1, <2>6 DEF Queued
    <3>2. c \in DOMAIN handlers'[w] /\ handlers'[w][c][n] # "none"
      BY <2>4, <2>5, <3>1
    <3> QED BY <2>6, <3>2, HasNext
  <2> QED BY <2>1, <2>6 DEF QueueMoves
<1>4. ASSUME NEW w \in Workers, HandleRequest(w) PROVE QueueMoves
  <2>1. Popped(wq, wq', Workers, w) /\ wq[w][1].cmd = "data"
    BY <1>4, HandlerSteps
  <2> QED BY <2>1 DEF QueueMoves, Queued
<1>5. \/ wq' = wq
      \/ \E a \in Actors : HandleRegister(a)
      \/ \E c \in Conns : HandleData(c)
      \/ \E v \in Workers : RegisterService(v) \/ HandleRequest(v)
  BY DEF Next, BindReturns, UnbindReturns, ConnectReturns, ServerGone, DestroyServices,
         Connect, Bind, Unbind, RegisterFactory, HandleBind, HandleUnbind, HandleConnect,
         HandleReply, HandleRequestOut, Reply, Request, Register, SocketDeleted, ClientSend
<1> QED BY <1>1, <1>2, <1>3, <1>4, <1>5 DEF QueueMoves

\* What is registered stays so.
LEMMA RegisteredStays ==
    ASSUME ServeTypes, OneCommand, Owners, Addressed, Relied, Next, NEW c \in Conns, NEW n \in Names,
           Registered(c, n)
    PROVE  Registered(c, n)'
<1>0. PICK v \in Workers : v = get_worker_index(c)
  BY ConnWorker
<1>1. CASE Has(c, n)
  BY <1>1, ServicesStay, RegisteredNext
<1>2. ASSUME NEW i \in DOMAIN wq[v], Queued(v, i, c, n)
      PROVE  Has(c, n)' \/ \E j \in DOMAIN wq'[v] : Queued(v, j, c, n)'
  <2>1. CASE wq' = wq
    BY <1>2, <2>1 DEF Queued
  <2>2. ASSUME NEW w \in Workers, NEW m, Pushed(wq, wq', Workers, w, m)
        PROVE  Queued(v, i, c, n)' /\ i \in DOMAIN wq'[v]
    BY <1>2, <2>2 DEF Queued, Pushed
  <2>3. ASSUME NEW w \in Workers, Popped(wq, wq', Workers, w),
               Queued(w, 1, c, n) /\ w = get_worker_index(c) => Has(c, n)'
        PROVE  Has(c, n)' \/ \E j \in DOMAIN wq'[v] : Queued(v, j, c, n)'
    <3>1. CASE w # v
      BY <1>2, <2>3, <3>1 DEF Queued, Popped
    <3>2. CASE w = v /\ i = 1
      BY <1>0, <1>2, <2>3, <3>2
    <3>3. CASE w = v /\ i # 1
      <4>1. i - 1 \in DOMAIN wq'[v] /\ wq'[v][i - 1] = wq[v][i]
        BY <1>2, <2>3, <3>3 DEF Popped
      <4>2. PICK j : j = i - 1
        OBVIOUS
      <4>3. Queued(v, j, c, n)'
        BY <1>2, <4>1, <4>2 DEF Queued
      <4> QED BY <4>1, <4>2, <4>3
    <3> QED BY <3>1, <3>2, <3>3
  <2> QED BY <2>1, <2>2, <2>3, NextQueue DEF QueueMoves
<1> QED BY <1>0, <1>1, <1>2, RegisteredNext DEF Registered

\* Every step keeps DueQueued.
LEMMA NextDueQueued ==
    ASSUME ServeTypes, OneCommand, Owners, Addressed, Relied, Next
    PROVE  DueQueued'
<1>1. SUFFICES ASSUME NEW w \in Workers, NEW i \in DOMAIN wq'[w], wq'[w][i].cmd = "data",
                      wq'[w][i].r.due
               PROVE  \E c, n : /\ c = wq'[w][i].r.conn /\ n = wq'[w][i].r.name
                                /\ DueServed(w, i, c, n)'
  <2>1. ASSUME NEW w \in Workers, NEW i \in DOMAIN wq'[w], NEW c, NEW n,
               c = wq'[w][i].r.conn, n = wq'[w][i].r.name, DueServed(w, i, c, n)'
        PROVE  DueServed(w, i, wq[w][i].r.conn, wq[w][i].r.name)'
    BY <2>1 DEF DueServed, Has, Will, Queued, get_worker_index, RouterNames
  <2> QED BY <2>1 DEF DueQueued
<1> DEFINE Good == \E c, n : /\ c = wq'[w][i].r.conn /\ n = wq'[w][i].r.name
                             /\ DueServed(w, i, c, n)'
<1>2. ASSUME NEW k \in DOMAIN wq[w], wq[w][k].cmd = "data"
      PROVE  /\ wq[w][k].r.conn \in Conns /\ wq[w][k].r.name \in Names
             /\ w = get_worker_index(wq[w][k].r.conn)
             /\ wq[w][k].r.due => DueServed(w, k, wq[w][k].r.conn, wq[w][k].r.name)
  <2>1. wq[w][k] \in WorkCmd
    BY DEF ServeTypes
  <2>2. wq[w][k].r \in ReqRec
    BY <1>2, <2>1, WorkFields
  <2> QED BY <1>2, <2>2 DEF ReqRec, Addressed, QueuesMade, Relied, DueQueued
<1>3. ASSUME i \in DOMAIN wq[w], wq'[w][i] = wq[w][i],
             \A j \in DOMAIN wq[w] : j \in DOMAIN wq'[w] /\ wq'[w][j] = wq[w][j]
      PROVE  Good
  <2>1. PICK c \in Conns : c = wq[w][i].r.conn
    BY <1>1, <1>2, <1>3
  <2>2. PICK n \in Names : n = wq[w][i].r.name
    BY <1>1, <1>2, <1>3
  <2>3. DueServed(w, i, c, n)
    BY <1>1, <1>2, <1>3, <2>1, <2>2
  <2>4. CASE Has(c, n) \/ Will(c, n)
    <3>1. DueServed(w, i, c, n)'
      BY <2>4, ServicesStay DEF DueServed
    <3> QED BY <1>3, <2>1, <2>2, <3>1
  <2>5. CASE \E j \in DOMAIN wq[w] : j < i /\ Queued(w, j, c, n)
    <3>1. PICK j \in DOMAIN wq[w] : j < i /\ Queued(w, j, c, n)
      BY <2>5
    <3>2. Queued(w, j, c, n)' /\ j \in DOMAIN wq'[w]
      BY <1>3, <3>1 DEF Queued
    <3>3. DueServed(w, i, c, n)'
      BY <3>1, <3>2 DEF DueServed
    <3> QED BY <1>3, <2>1, <2>2, <3>3
  <2> QED BY <2>3, <2>4, <2>5 DEF DueServed
<1>4. CASE wq' = wq
  BY <1>1, <1>3, <1>4
<1>5. ASSUME NEW v \in Workers, NEW m \in WorkCmd, Pushed(wq, wq', Workers, v, m), ServedAt(v, m)
      PROVE  Good
  <2>1. \A j \in DOMAIN wq[w] : j \in DOMAIN wq'[w] /\ wq'[w][j] = wq[w][j]
    BY <1>5 DEF Pushed
  <2>2. CASE i \in DOMAIN wq[w]
    BY <1>3, <2>1, <2>2
  <2>3. CASE i \notin DOMAIN wq[w]
    <3>1. w = v /\ i = Len(wq[w]) + 1 /\ wq'[w][i] = m /\ DOMAIN wq[w] = 1 .. Len(wq[w]) /\ Len(wq[w]) \in Nat
      BY <1>1, <1>5, <2>3 DEF Pushed
    <3>2. PICK c \in Conns : c = m.r.conn
      BY <1>1, <1>5, <3>1 DEF ServedAt
    <3>3. PICK n \in Names : n = m.r.name
      BY <1>1, <1>5, <3>1 DEF ServedAt
    <3>4. w = get_worker_index(c) /\ (Registered(c, n) \/ Will(c, n))
      BY <1>1, <1>5, <3>1, <3>2, <3>3 DEF ServedAt
    <3>5. CASE Has(c, n) \/ Will(c, n)
      <4>1. DueServed(w, i, c, n)'
        BY <3>5, ServicesStay DEF DueServed
      <4> QED BY <3>1, <3>2, <3>3, <4>1
    <3>6. ASSUME NEW j \in DOMAIN wq[w], Queued(w, j, c, n) PROVE Good
      <4>1. Queued(w, j, c, n)' /\ j \in DOMAIN wq'[w]
        BY <2>1, <3>6 DEF Queued
      <4>2. j < i
        BY <3>1, <3>6
      <4>3. DueServed(w, i, c, n)'
        BY <4>1, <4>2 DEF DueServed
      <4> QED BY <3>1, <3>2, <3>3, <4>3
    <3> QED BY <3>4, <3>5, <3>6 DEF Registered
  <2> QED BY <2>2, <2>3
<1>6. ASSUME NEW v \in Workers, Popped(wq, wq', Workers, v),
             \A c \in Conns, n \in Names :
               Queued(v, 1, c, n) /\ v = get_worker_index(c) => Has(c, n)'
      PROVE  Good
  <2>1. CASE w # v
    <3>1. wq'[w] = wq[w]
      BY <1>6, <2>1 DEF Popped
    <3> QED BY <1>1, <1>3, <3>1
  <2>2. CASE w = v
    <3>1. i \in Nat /\ i > 0 /\ i + 1 \in DOMAIN wq[w] /\ wq'[w][i] = wq[w][i + 1]
      BY <1>1, <1>6, <2>2 DEF Popped
    <3>2. PICK k \in DOMAIN wq[w] : k = i + 1 /\ wq'[w][i] = wq[w][k]
      BY <3>1
    <3>3. PICK c \in Conns : c = wq[w][k].r.conn
      BY <1>1, <1>2, <3>2
    <3>4. PICK n \in Names : n = wq[w][k].r.name
      BY <1>1, <1>2, <3>2
    <3>5. DueServed(w, k, c, n) /\ w = get_worker_index(c)
      BY <1>1, <1>2, <3>2, <3>3, <3>4
    <3>6. CASE Has(c, n) \/ Will(c, n)
      <4>1. DueServed(w, i, c, n)'
        BY <3>6, ServicesStay DEF DueServed
      <4> QED BY <3>2, <3>3, <3>4, <4>1
    <3>7. ASSUME NEW j \in DOMAIN wq[w], j < k, Queued(w, j, c, n) PROVE Good
      <4>1. CASE j = 1
        <5>1. Has(c, n)'
          BY <1>6, <2>2, <3>5, <3>7, <4>1
        <5>2. DueServed(w, i, c, n)'
          BY <5>1 DEF DueServed
        <5> QED BY <3>2, <3>3, <3>4, <5>2
      <4>2. CASE j # 1
        <5>1. j \in Nat /\ j - 1 \in DOMAIN wq'[w] /\ wq'[w][j - 1] = wq[w][j]
          BY <1>6, <2>2, <3>7, <4>2 DEF Popped
        <5>2. PICK l : l = j - 1
          OBVIOUS
        <5>3. l \in DOMAIN wq'[w] /\ l < i
          BY <3>1, <3>2, <3>7, <5>1, <5>2
        <5>4. Queued(w, l, c, n)'
          BY <3>7, <5>1, <5>2 DEF Queued
        <5>5. DueServed(w, i, c, n)'
          BY <5>3, <5>4 DEF DueServed
        <5> QED BY <3>2, <3>3, <3>4, <5>5
      <4> QED BY <4>1, <4>2
    <3> QED BY <3>5, <3>6, <3>7 DEF DueServed
  <2> QED BY <2>1, <2>2
<1> QED BY <1>4, <1>5, <1>6, NextQueue DEF QueueMoves

\* When the broker has read a registration, its worker has it in its queue.
LEMMA ReadRegisters ==
    ASSUME ServeTypes, NEW a \in Actors, fe[a][1].cmd = "register" => HandleRegister(a),
           NEW c \in Conns, NEW n \in Names, AsksFor(a, 1, c, n)
    PROVE  Registered(c, n)'
<1>1. HandleRegister(a)
  BY DEF AsksFor
<1>2. Head(fe[a]) = fe[a][1] /\ fe[a][1].cmd = "register" /\ fe[a][1] \in FrontCmd
  BY <1>1, Read DEF HandleRegister
<1>3. PICK m \in WorkCmd : m = fe[a][1] /\ m.conn = c /\ m.cmd = "register" /\ m.name = n
  BY <1>2 DEF FrontCmd, WorkCmd, AsksFor
<1>4. PICK v \in Workers : v = get_worker_index(c)
  BY ConnWorker
<1>5. Pushed(wq, wq', Workers, v, m)
  BY <1>1, <1>2, <1>3, <1>4, Assigned DEF HandleRegister, register_svc
<1>6. PICK i \in DOMAIN wq'[v] : wq'[v][i] = m
  BY <1>5, PushedThere
<1>7. Queued(v, i, c, n)'
  BY <1>3, <1>6 DEF Queued
<1> QED BY <1>4, <1>6, <1>7, RegisteredNext

\* A registration is recorded when it is sent.
LEMMA RegisterSent ==
    ASSUME ServeTypes, NEW a \in Actors, NEW c \in known, NEW n \in Names, Register(a, c, n)
    PROVE  /\ regd' = regd \cup {[by |-> a, conn |-> c, name |-> n]}
           /\ \E i \in DOMAIN fe'[a] : AsksFor(a, i, c, n)'
<1>1. PICK m : m = [cmd |-> "register", conn |-> c, name |-> n]
  OBVIOUS
<1>2. m \in FrontCmd /\ m.cmd = "register" /\ m.conn = c /\ m.name = n
  BY <1>1 DEF FrontCmd, ServeTypes
<1>3. Pushed(fe, fe', Actors, a, m)
  BY <1>1, <1>2, Sent DEF Register
<1>4. PICK i \in DOMAIN fe'[a] : fe'[a][i] = m
  BY <1>3, PushedThere
<1>5. AsksFor(a, i, c, n)'
  BY <1>2, <1>4 DEF AsksFor
<1> QED BY <1>4, <1>5 DEF Register

\* Every step keeps RegsKept.
LEMMA NextRegsKept ==
    ASSUME ServeTypes, OneCommand, Owners, Addressed, Relied, Next
    PROVE  RegsKept'
<1> DEFINE Good(r) == \/ Registered(r.conn, r.name)'
                      \/ \E i \in DOMAIN fe'[r.by] : AsksFor(r.by, i, r.conn, r.name)'
<1>1. ASSUME NEW r \in regd PROVE Good(r)
  <2>1. r.by \in Actors /\ r.conn \in Conns /\ r.name \in Names
    BY DEF ServeTypes
  <2>2. PICK a \in Actors : a = r.by
    BY <2>1
  <2>3. PICK c \in Conns : c = r.conn
    BY <2>1
  <2>4. PICK n \in Names : n = r.name
    BY <2>1
  <2>5. CASE Registered(c, n)
    BY <2>3, <2>4, <2>5, RegisteredStays
  <2>6. ASSUME NEW i \in DOMAIN fe[a], AsksFor(a, i, c, n)
        PROVE  Registered(c, n)' \/ \E j \in DOMAIN fe'[a] : AsksFor(a, j, c, n)'
    <3>1. CASE fe' = fe
      BY <2>6, <3>1 DEF AsksFor
    <3>2. ASSUME NEW b \in Actors, NEW m, Pushed(fe, fe', Actors, b, m)
          PROVE  AsksFor(a, i, c, n)' /\ i \in DOMAIN fe'[a]
      BY <2>6, <3>2 DEF Pushed, AsksFor
    <3>3. ASSUME NEW b \in Actors, Popped(fe, fe', Actors, b),
                 fe[b][1].cmd = "register" => HandleRegister(b)
          PROVE  Registered(c, n)' \/ \E j \in DOMAIN fe'[a] : AsksFor(a, j, c, n)'
      <4>1. CASE b # a
        BY <2>6, <3>3, <4>1 DEF Popped, AsksFor
      <4>2. CASE b = a /\ i = 1
        BY <2>6, <3>3, <4>2, ReadRegisters
      <4>3. CASE b = a /\ i # 1
        <5>1. PICK j : j = i - 1
          OBVIOUS
        <5>2. j \in DOMAIN fe'[a] /\ fe'[a][j] = fe[a][i]
          BY <2>6, <3>3, <4>3, <5>1 DEF Popped
        <5>3. AsksFor(a, j, c, n)'
          BY <2>6, <5>2 DEF AsksFor
        <5> QED BY <5>2, <5>3
      <4> QED BY <4>1, <4>2, <4>3
    <3> QED BY <3>1, <3>2, <3>3, NextPipe DEF PipeMoves
  <2>7. Registered(c, n) \/ \E i \in DOMAIN fe[a] : AsksFor(a, i, c, n)
    BY <2>2, <2>3, <2>4 DEF Relied, RegsKept
  <2>8. Registered(c, n)' \/ \E j \in DOMAIN fe'[a] : AsksFor(a, j, c, n)'
    BY <2>5, <2>6, <2>7, RegisteredStays
  <2> QED BY <2>2, <2>3, <2>4, <2>8 DEF Registered, Has, Queued, AsksFor, get_worker_index
<1>2. ASSUME NEW a \in Actors, NEW c \in known, NEW n \in Names, Register(a, c, n),
             NEW r \in regd', r \notin regd
      PROVE  Good(r)
  <2>1. r = [by |-> a, conn |-> c, name |-> n]
    BY <1>2, RegisterSent
  <2>2. r.by = a /\ r.conn = c /\ r.name = n
    BY <2>1
  <2>3. PICK i \in DOMAIN fe'[a] : AsksFor(a, i, c, n)'
    BY <1>2, RegisterSent
  <2>4. AsksFor(r.by, i, r.conn, r.name)'
    BY <2>2, <2>3 DEF AsksFor
  <2> QED BY <2>2, <2>3, <2>4
<1> HIDE DEF Good
<1>3. \A r \in regd' : Good(r)
  BY <1>1, <1>2, Sources
<1> QED BY <1>3 DEF Good, RegsKept

\* Every step keeps TellsKept.
LEMMA NextTellsKept ==
    ASSUME ServeTypes, OneCommand, Owners, Addressed, Relied, Next
    PROVE  TellsKept'
<1>1. SUFFICES ASSUME NEW a \in Actors, NEW i \in DOMAIN fe'[a],
                      fe'[a][i].cmd \in {"reply", "request"}, NEW n \in fe'[a][i].tells
               PROVE  \E c : /\ c = fe'[a][i].conn
                             /\ \/ Registered(c, n)'
                                \/ \E j \in DOMAIN fe'[a] : j < i /\ AsksFor(a, j, c, n)'
  BY DEF TellsKept, Registered, Has, Queued, AsksFor, get_worker_index
<1> DEFINE Good == \E c : /\ c = fe'[a][i].conn
                          /\ \/ Registered(c, n)'
                             \/ \E j \in DOMAIN fe'[a] : j < i /\ AsksFor(a, j, c, n)'
<1>2. ASSUME NEW k \in DOMAIN fe[a], fe[a][k].cmd \in {"reply", "request"}, n \in fe[a][k].tells
      PROVE  /\ fe[a][k].conn \in Conns /\ n \in Names
             /\ \/ Registered(fe[a][k].conn, n)
                \/ \E j \in DOMAIN fe[a] : j < k /\ AsksFor(a, j, fe[a][k].conn, n)
  <2>1. fe[a][k] \in FrontCmd
    BY DEF ServeTypes
  <2>2. fe[a][k].conn \in Conns /\ fe[a][k].tells \in SUBSET Names
    BY <1>2, <2>1, FrontFields
  <2> QED BY <1>2, <2>2 DEF Relied, TellsKept
<1>3. ASSUME i \in DOMAIN fe[a], fe'[a][i] = fe[a][i],
             \A j \in DOMAIN fe[a] : j \in DOMAIN fe'[a] /\ fe'[a][j] = fe[a][j]
      PROVE  Good
  <2>1. PICK c \in Conns : c = fe[a][i].conn
    BY <1>1, <1>2, <1>3
  <2>2. n \in Names /\ (Registered(c, n) \/ \E j \in DOMAIN fe[a] : j < i /\ AsksFor(a, j, c, n))
    BY <1>1, <1>2, <1>3, <2>1
  <2>3. CASE Registered(c, n)
    BY <1>3, <2>1, <2>2, <2>3, RegisteredStays
  <2>4. ASSUME NEW j \in DOMAIN fe[a], j < i, AsksFor(a, j, c, n) PROVE Good
    <3>1. AsksFor(a, j, c, n)' /\ j \in DOMAIN fe'[a]
      BY <1>3, <2>4 DEF AsksFor
    <3> QED BY <1>3, <2>1, <2>4, <3>1
  <2> QED BY <2>2, <2>3, <2>4
<1>4. CASE fe' = fe
  BY <1>1, <1>3, <1>4
<1>5. ASSUME NEW b \in Actors, NEW m \in FrontCmd, Pushed(fe, fe', Actors, b, m),
             m.cmd \in {"reply", "request"} => m.tells = RegisteredBy(b, m.conn) /\ m.conn \in Conns
      PROVE  Good
  <2>1. \A j \in DOMAIN fe[a] : j \in DOMAIN fe'[a] /\ fe'[a][j] = fe[a][j]
    BY <1>5 DEF Pushed
  <2>2. CASE i \in DOMAIN fe[a]
    BY <1>3, <2>1, <2>2
  <2>3. CASE i \notin DOMAIN fe[a]
    <3>1. /\ a = b /\ i = Len(fe[a]) + 1 /\ fe'[a][i] = m
          /\ DOMAIN fe[a] = 1 .. Len(fe[a]) /\ Len(fe[a]) \in Nat
      BY <1>1, <1>5, <2>3 DEF Pushed
    <3>2. PICK c \in Conns : c = m.conn
      BY <1>1, <1>5, <3>1
    <3>3. n \in RegisteredBy(a, c)
      BY <1>1, <1>5, <3>1, <3>2
    <3>4. PICK r \in regd : r = [by |-> a, conn |-> c, name |-> n]
      BY <3>3 DEF RegisteredBy
    <3>5. r.by = a /\ r.conn = c /\ r.name = n /\ n \in Names
      BY <3>3, <3>4 DEF RegisteredBy
    <3>6. Registered(c, n) \/ \E j \in DOMAIN fe[a] : AsksFor(a, j, c, n)
      BY <3>5 DEF Relied, RegsKept
    <3>7. CASE Registered(c, n)
      BY <3>1, <3>2, <3>5, <3>7, RegisteredStays
    <3>8. ASSUME NEW j \in DOMAIN fe[a], AsksFor(a, j, c, n) PROVE Good
      <4>1. AsksFor(a, j, c, n)' /\ j \in DOMAIN fe'[a] /\ j < i
        BY <2>1, <3>1, <3>8 DEF AsksFor
      <4> QED BY <3>1, <3>2, <4>1
    <3> QED BY <3>6, <3>7, <3>8
  <2> QED BY <2>2, <2>3
<1>6. ASSUME NEW b \in Actors, Popped(fe, fe', Actors, b),
             fe[b][1].cmd = "register" => HandleRegister(b)
      PROVE  Good
  <2>1. CASE b # a
    <3>1. fe'[a] = fe[a]
      BY <1>6, <2>1 DEF Popped
    <3> QED BY <1>1, <1>3, <3>1
  <2>2. CASE b = a
    <3>1. i \in Nat /\ i > 0 /\ i + 1 \in DOMAIN fe[a] /\ fe'[a][i] = fe[a][i + 1]
      BY <1>1, <1>6, <2>2 DEF Popped
    <3>2. PICK k \in DOMAIN fe[a] : k = i + 1 /\ fe'[a][i] = fe[a][k]
      BY <3>1
    <3>3. PICK c \in Conns : c = fe[a][k].conn
      BY <1>1, <1>2, <3>2
    <3>4. n \in Names /\ (Registered(c, n) \/ \E j \in DOMAIN fe[a] : j < k /\ AsksFor(a, j, c, n))
      BY <1>1, <1>2, <3>2, <3>3
    <3>5. CASE Registered(c, n)
      BY <3>2, <3>3, <3>4, <3>5, RegisteredStays
    <3>6. ASSUME NEW j \in DOMAIN fe[a], j < k, AsksFor(a, j, c, n) PROVE Good
      <4>1. CASE j = 1
        <5>1. Registered(c, n)'
          BY <1>6, <2>2, <3>4, <3>6, <4>1, ReadRegisters
        <5> QED BY <3>2, <3>3, <5>1
      <4>2. CASE j # 1
        <5>1. j \in Nat /\ j - 1 \in DOMAIN fe'[a] /\ fe'[a][j - 1] = fe[a][j]
          BY <1>6, <2>2, <3>6, <4>2 DEF Popped
        <5>2. PICK l : l = j - 1
          OBVIOUS
        <5>3. l \in DOMAIN fe'[a] /\ l < i
          BY <3>1, <3>2, <3>6, <5>1, <5>2
        <5>4. AsksFor(a, l, c, n)'
          BY <3>6, <5>1, <5>2 DEF AsksFor
        <5> QED BY <3>2, <3>3, <5>3, <5>4
      <4> QED BY <4>1, <4>2
    <3> QED BY <3>4, <3>5, <3>6
  <2> QED BY <2>1, <2>2
<1> QED BY <1>4, <1>5, <1>6, NextPipe DEF PipeMoves

\* What a client is told of is registered, or made with the handler of its
\* first request.
LEMMA ToldSources ==
    ASSUME ServeTypes, Relied, HandlersKnown, Next, NEW c \in Conns
    PROVE  /\ told[c] \subseteq told'[c]
           /\ \A n \in told'[c] : n \in told[c] \/ Registered(c, n) \/ Will(c, n)
<1>0. told \in [Conns -> SUBSET Names]
  BY DEF ServeTypes
<1> DEFINE Good == /\ told[c] \subseteq told'[c]
                   /\ \A n \in told'[c] : n \in told[c] \/ Registered(c, n) \/ Will(c, n)
<1>1. ASSUME NEW a \in Actors, HandleReply(a) \/ HandleRequestOut(a) PROVE Good
  <2>1. PICK cmd \in {"reply", "request"} : Front(a, cmd)
    BY <1>1 DEF HandleReply, HandleRequestOut
  <2>2. /\ 1 \in DOMAIN fe[a] /\ Head(fe[a]) = fe[a][1] /\ fe[a][1] \in FrontCmd
        /\ fe[a][1].cmd \in {"reply", "request"}
    BY <2>1, Read
  <2>3. PICK m \in FrontCmd : m = fe[a][1]
    BY <2>2
  <2>4. m.conn \in Conns
    BY <2>2, <2>3, FrontFields
  <2>5. told' = told \/ told' = [told EXCEPT ![m.conn] = @ \cup m.tells]
    BY <1>1, <2>2, <2>3 DEF HandleReply, HandleRequestOut
  <2>6. ASSUME NEW n \in m.tells PROVE Registered(m.conn, n)
    <3>1. \A j \in DOMAIN fe[a] : ~(j < 1)
      BY DEF ServeTypes
    <3> QED BY <2>2, <2>3, <2>6, <3>1 DEF Relied, TellsKept
  <2>7. told'[c] = told[c] \/ (c = m.conn /\ told'[c] = told[c] \cup m.tells)
    BY <1>0, <2>4, <2>5
  <2> QED BY <2>6, <2>7
<1>2. ASSUME NEW d \in Conns, NEW k \in Names, ClientSend(d, k) PROVE Good
  <2>1. PICK first : /\ first = IF d.is_router /\ AskedOn(d) = {} /\ d \notin known
                                THEN RouterNames(d.index) ELSE {}
                     /\ told' = [told EXCEPT ![d] = told[d] \cup first]
    BY <1>2 DEF ClientSend
  <2>2. ASSUME NEW n \in first PROVE Will(d, n)
    <3>1. d.is_router /\ AskedOn(d) = {} /\ d \notin known /\ n \in RouterNames(d.index)
      BY <2>1, <2>2
    <3>2. d \notin DOMAIN handlers[get_worker_index(d)]
      BY <3>1, ConnWorker DEF HandlersKnown
    <3> QED BY <3>1, <3>2 DEF Will
  <2>3. told'[c] = told[c] \/ (c = d /\ told'[c] = told[c] \cup first)
    BY <1>0, <2>1
  <2> QED BY <2>2, <2>3
<1> QED BY <1>1, <1>2, Sources

\* Every step keeps ToldKept.
LEMMA NextToldKept ==
    ASSUME ServeTypes, OneCommand, Owners, Addressed, Relied, HandlersKnown, Next,
           told' \in [Conns -> SUBSET Names]
    PROVE  ToldKept'
<1>1. ASSUME NEW c \in Conns, NEW n \in told'[c] PROVE Registered(c, n)' \/ Will(c, n)'
  <2>1. n \in Names
    BY <1>1
  <2>2. Registered(c, n) \/ Will(c, n)
    BY <1>1, ToldSources DEF Relied, ToldKept
  <2> QED BY <2>1, <2>2, RegisteredStays, ServicesStay, RegisteredNext
<1> QED BY <1>1 DEF ToldKept

\* Every step keeps DueTold.
LEMMA NextDueTold ==
    ASSUME ServeTypes, Relied, HandlersKnown, Next
    PROVE  DueTold'
<1> USE DEF frontVars, sockVars, workVars
<1>1. SUFFICES ASSUME NEW c \in Conns, NEW i \in DOMAIN inbox'[c], inbox'[c][i].due
               PROVE  inbox'[c][i].name \in told'[c]
  BY DEF DueTold
<1>2. ASSUME \E j \in DOMAIN inbox[c] : inbox'[c][i] = inbox[c][j]
      PROVE  inbox'[c][i].name \in told'[c]
  BY <1>1, <1>2, ToldSources DEF Relied, DueTold
<1>3. ASSUME NEW d \in Conns, NEW k \in Names, ClientSend(d, k)
      PROVE  inbox'[c][i].name \in told'[c]
  <2>1. PICK m \in ReqRec : m = NextRequest(d, k)
    BY <1>3, ClientSends
  <2>2. Pushed(inbox, inbox', Conns, d, m)
    BY <1>3, <2>1, ClientSends
  <2>3. CASE i \in DOMAIN inbox[c]
    BY <1>2, <2>2, <2>3 DEF Pushed
  <2>4. CASE i \notin DOMAIN inbox[c]
    <3>1. c = d /\ inbox'[c][i] = m
      BY <1>1, <2>2, <2>4 DEF Pushed
    <3>2. PICK first : /\ told' = [told EXCEPT ![d] = told[d] \cup first]
                       /\ m.due <=> k \in told[d] \cup first
                       /\ m.name = k
      BY <1>3, <2>1 DEF ClientSend, NextRequest
    <3>3. told'[d] = told[d] \cup first
      BY <3>2 DEF ServeTypes
    <3> QED BY <1>1, <3>1, <3>2, <3>3
  <2> QED BY <2>3, <2>4
<1>4. ASSUME NEW d \in Conns, HandleData(d) PROVE inbox'[c][i].name \in told'[c]
  <2>1. Popped(inbox, inbox', Conns, d)
    BY <1>4, Received
  <2>2. \E j \in DOMAIN inbox[c] : inbox'[c][i] = inbox[c][j]
    BY <1>1, <2>1, PoppedFrom
  <2> QED BY <1>2, <2>2
<1>5. ASSUME SocketDeleted PROVE inbox'[c][i].name \in told'[c]
  <2>1. inbox'[c] = <<>> \/ inbox'[c] = inbox[c]
    BY <1>5 DEF SocketDeleted
  <2> QED BY <1>1, <1>2, <2>1
<1>6. ASSUME inbox' = inbox PROVE inbox'[c][i].name \in told'[c]
  BY <1>1, <1>2, <1>6
<1>7. ASSUME NEW a \in Actors, HandleReply(a) \/ \E r \in repliers : Reply(a, r) PROVE inbox' = inbox
  BY <1>7 DEF HandleReply, Reply
<1>8. ASSUME NEW w \in Workers, HandleRequest(w) PROVE inbox' = inbox
  BY <1>8 DEF HandleRequest
<1> QED BY <1>3, <1>4, <1>5, <1>6, <1>7, <1>8, Flow DEF Aside

\* Every step keeps Relied.
LEMMA NextRelied ==
    ASSUME ServeTypes, OneCommand, Owners, Addressed, Relied, HandlersKnown, Next,
           told' \in [Conns -> SUBSET Names]
    PROVE  Relied'
BY NextRegsKept, NextTellsKept, NextToldKept, NextDueTold, NextDueQueued DEF Relied

\* A request is refused only when its handler does not have the service, and
\* then its client could not rely on it.
LEMMA NextNotRefused ==
    ASSUME ServeTypes, Addressed, Relied, NotRefused, Next
    PROVE  NotRefused'
<1> USE DEF frontVars, sockVars, workVars
<1>0. outcome \in [Requests -> {"none", "served", "bad_request", "no_such_service"}]
  BY DEF ServeTypes
<1>1. ASSUME NEW c \in Conns, NEW n \in Names, ClientSend(c, n) PROVE NotRefused'
  <2>1. /\ DOMAIN asked' = DOMAIN asked \cup {Len(asked) + 1} /\ Len(asked) + 1 \notin DOMAIN asked
        /\ \A q \in DOMAIN asked : asked'[q] = asked[q]
        /\ Len(asked) + 1 \in Requests
    BY <1>1, ClientSends
  <2>2. outcome' = outcome
    BY <1>1 DEF ClientSend
  <2>3. outcome[Len(asked) + 1] = "none"
    BY <2>1 DEF Addressed
  <2> QED BY <2>1, <2>2, <2>3 DEF NotRefused
<1>2. ASSUME NEW w \in Workers, HandleRequest(w) PROVE NotRefused'
  <2>1. PICK r \in ReqRec : /\ r = wq[w][1].r /\ wq[w][1].cmd = "data" /\ 1 \in DOMAIN wq[w]
                            /\ HandlerFate(w, r)
    BY <1>2, HandlerSteps
  <2>2. r.conn \in Conns /\ r.name \in Names /\ r.q \in Requests
    BY DEF ReqRec
  <2>3. r = asked[r.q] /\ r.q \in DOMAIN asked /\ w = get_worker_index(r.conn)
    BY <2>1 DEF Addressed, QueuesMade, Made
  <2>4. asked' = asked
    BY <1>2 DEF HandleRequest
  <2>5. ASSUME r.due, get_handler(w, r.conn)[r.name] = "none" PROVE FALSE
    <3>1. DueServed(w, 1, r.conn, r.name)
      BY <2>1, <2>5 DEF Relied, DueQueued
    <3>2. \A j \in DOMAIN wq[w] : ~(j < 1)
      BY DEF ServeTypes
    <3>3. CASE Has(r.conn, r.name)
      <4>1. r.conn \in DOMAIN handlers[w] /\ handlers[w][r.conn][r.name] # "none"
        BY <2>3, <3>3 DEF Has
      <4> QED BY <2>2, <2>5, <4>1, HandlerServices
    <3>4. CASE Will(r.conn, r.name)
      <4>1. r.conn \notin DOMAIN handlers[w] /\ r.conn.is_router /\ r.name \in RouterNames(r.conn.index)
        BY <2>3, <3>4 DEF Will
      <4>2. get_handler(w, r.conn) = create_services(r.conn)
        BY <2>2, <4>1, HandlerServices
      <4>3. create_services(r.conn)[r.name] # "none"
        BY <2>2, <4>1 DEF create_services
      <4> QED BY <2>5, <4>2, <4>3
    <3> QED BY <3>1, <3>2, <3>3, <3>4 DEF DueServed
  <2>6. ASSUME NEW q \in DOMAIN asked, asked[q].due PROVE outcome'[q] # "no_such_service"
    <3>1. q \in Requests
      <4>1. asked \in Seq(ReqRec) /\ Len(asked) <= MaxRequests /\ MaxRequests \in Nat
        BY SizesAssumption DEF ServeTypes
      <4> QED BY <4>1 DEF Requests
    <3>2. outcome[q] # "no_such_service"
      BY <2>6 DEF NotRefused
    <3>3. CASE q # r.q
      <4>1. outcome'[q] = outcome[q]
        BY <1>0, <2>1, <2>2, <3>1, <3>3 DEF HandlerFate
      <4> QED BY <3>2, <4>1
    <3>4. CASE q = r.q
      <4>1. r.due
        BY <2>3, <2>6, <3>4
      <4>2. outcome' = outcome \/ outcome' = [outcome EXCEPT ![r.q] = "bad_request"]
            \/ outcome' = [outcome EXCEPT ![r.q] = "served"]
        BY <2>1, <2>5, <4>1 DEF HandlerFate
      <4> QED BY <1>0, <2>2, <3>2, <3>4, <4>2
    <3> QED BY <3>3, <3>4
  <2> QED BY <2>4, <2>6 DEF NotRefused
<1>3. ASSUME NEW a \in Actors, HandleReply(a) \/ \E r \in repliers : Reply(a, r)
      PROVE  UNCHANGED <<asked, outcome>>
  BY <1>3 DEF HandleReply, Reply
<1>4. ASSUME SocketDeleted \/ \E c \in Conns : HandleData(c) PROVE UNCHANGED <<asked, outcome>>
  BY <1>4 DEF SocketDeleted, HandleData
<1>5. ASSUME UNCHANGED <<asked, outcome>> PROVE NotRefused'
  BY <1>5 DEF NotRefused
<1> QED BY <1>1, <1>2, <1>3, <1>4, <1>5, Flow DEF Aside

-----------------------------------------------------------------------------
(* The theorems                                                            *)

\* The invariant holds at the start.
LEMMA InitServeInv == Init => ServeInv
<1> SUFFICES ASSUME Init PROVE ServeInv
  OBVIOUS
<1>1. ServeTypes
  <2>1. handlers \in [Workers -> UNION {[D -> Services] : D \in SUBSET Conns}]
    <3>1. <<>> \in [{} -> Services] /\ {} \in SUBSET Conns
      OBVIOUS
    <3>2. <<>> \in UNION {[D -> Services] : D \in SUBSET Conns}
      BY <3>1
    <3> QED BY <3>2 DEF Init
  <2>2. asked \in Seq(ReqRec) /\ Len(asked) <= MaxRequests
    BY SizesAssumption DEF Init
  <2>3. /\ srv \in [Threads -> [st : States, cur : Endpoints \cup {"none"}]]
        /\ eps \in [Threads -> SUBSET Endpoints] /\ names \in [Threads -> SUBSET Names]
        /\ dealers \in Nat /\ factories \in [Routers -> Threads \cup {NoThread}]
        /\ DOMAIN bind_map \subseteq Endpoints /\ \A ep \in DOMAIN bind_map : bind_map[ep] \in Nat
        /\ repliers \subseteq Replier /\ known \subseteq Conns
        /\ told \in [Conns -> SUBSET Names]
        /\ regd \subseteq [by : Actors, conn : Conns, name : Names]
    BY DEF Init, States
  <2>4. /\ fe \in [Actors -> Seq(FrontCmd)] /\ answer \in [Threads -> Seq(Nat)]
        /\ routers \in Seq(RouterRec) /\ inbox \in [Conns -> Seq(ReqRec)]
        /\ wq \in [Workers -> Seq(WorkCmd)] /\ answers \in [Requests -> Seq(Conns \X Requests)]
    BY DEF Init
  <2> QED BY <2>1, <2>2, <2>3, <2>4 DEF Init, ServeTypes
<1>2. OneCommand /\ BindMap /\ Owners /\ ClosedEmpty /\ GoneEmpty /\ KnownLegal
  <2>1. /\ \A a \in Actors : DOMAIN fe[a] = {}
        /\ \A t \in Threads : answer[t] = <<>> /\ srv[t].st = "live" /\ eps[t] = {}
        /\ \A c \in Conns : inbox[c] = <<>>
        /\ \A i \in Routers : factories[i] = NoThread
        /\ DOMAIN bind_map = {} /\ closing = NotClosing /\ known = {} /\ DOMAIN asked = {}
    BY DEF Init
  <2> QED BY <2>1 DEF OneCommand, BindMap, Owners, ClosedEmpty, GoneEmpty, KnownLegal, Bound
<1>3. DealerRoom
  <2>1. Connecting = {} /\ Unconnected = {} /\ dealers = 0
    BY DEF Init, Connecting, Unconnected
  <2>2. IsFiniteSet({}) /\ Cardinality({}) = 0
    BY FS_EmptySet
  <2> QED BY <2>1, <2>2, SizesAssumption DEF DealerRoom
<1>4. Addressed /\ OnePlace /\ Relied /\ HandlersKnown
  <2>1. /\ \A a \in Actors : DOMAIN fe[a] = {}
        /\ \A c \in Conns : DOMAIN inbox[c] = {} /\ told[c] = {}
        /\ \A w \in Workers : DOMAIN wq[w] = {} /\ DOMAIN handlers[w] = {}
        /\ \A q \in Requests : answers[q] = <<>> /\ outcome[q] = "none"
        /\ repliers = {} /\ DOMAIN asked = {} /\ regd = {}
    BY DEF Init
  <2>2. Addressed
    BY <2>1 DEF Addressed, SocketsMade, QueuesMade, PipesMade
  <2>3. OnePlace
    BY <2>1 DEF OnePlace, Place
  <2>4. Relied /\ HandlersKnown
    BY <2>1 DEF Relied, RegsKept, TellsKept, ToldKept, DueTold, DueQueued, HandlersKnown
  <2> QED BY <2>2, <2>3, <2>4
<1>5. NotRefused
  BY DEF Init, NotRefused
<1> QED BY <1>1, <1>2, <1>3, <1>4, <1>5, Silent, LegalCommands DEF ServeInv, Calm

\* Relied is about these variables only.
LEMMA ReliedUnchanged ==
    ASSUME Relied, UNCHANGED <<fe, wq, handlers, regd, names, factories, told, inbox>>
    PROVE  Relied'
<1>0. ASSUME NEW c, NEW n
      PROVE  (Registered(c, n) => Registered(c, n)') /\ (Has(c, n) => Has(c, n)') /\ (Will(c, n) => Will(c, n)')
  BY DEF Registered, Has, Will, Queued, RouterNames, get_worker_index
<1>1. RegsKept'
  BY DEF Relied, RegsKept, Registered, Has, AsksFor, Queued, get_worker_index
<1>2. TellsKept'
  <2>1. SUFFICES ASSUME NEW a \in Actors, NEW i \in DOMAIN fe'[a],
                        fe'[a][i].cmd \in {"reply", "request"}, NEW n \in fe'[a][i].tells
                 PROVE  \E c : /\ c = fe'[a][i].conn
                               /\ \/ Registered(c, n)'
                                  \/ \E j \in DOMAIN fe'[a] : j < i /\ AsksFor(a, j, c, n)'
    BY DEF TellsKept, Registered, Has, Queued, AsksFor, get_worker_index
  <2>2. PICK c : c = fe[a][i].conn
    OBVIOUS
  <2>3. Registered(c, n) \/ \E j \in DOMAIN fe[a] : j < i /\ AsksFor(a, j, c, n)
    BY <2>1, <2>2 DEF Relied, TellsKept
  <2>4. \A j : AsksFor(a, j, c, n) => AsksFor(a, j, c, n)'
    BY DEF AsksFor
  <2> QED BY <1>0, <2>2, <2>3, <2>4
<1>3. ToldKept' /\ DueTold'
  BY <1>0 DEF Relied, ToldKept, DueTold
<1>4. DueQueued'
  <2>1. ASSUME NEW w \in Workers, NEW i \in DOMAIN wq'[w], NEW c, NEW n,
               c = wq'[w][i].r.conn, n = wq'[w][i].r.name, DueServed(w, i, c, n)'
        PROVE  DueServed(w, i, wq[w][i].r.conn, wq[w][i].r.name)'
    BY <2>1 DEF DueServed, Has, Will, Queued, get_worker_index, RouterNames
  <2>2. ASSUME NEW w \in Workers, NEW i \in DOMAIN wq'[w], wq'[w][i].cmd = "data", wq'[w][i].r.due
        PROVE  \E c, n : c = wq'[w][i].r.conn /\ n = wq'[w][i].r.name /\ DueServed(w, i, c, n)'
    <3>1. PICK c, n : c = wq[w][i].r.conn /\ n = wq[w][i].r.name
      OBVIOUS
    <3>2. DueServed(w, i, c, n)
      BY <2>2, <3>1 DEF Relied, DueQueued
    <3>3. \A j : Queued(w, j, c, n) => Queued(w, j, c, n)'
      BY DEF Queued
    <3>4. DueServed(w, i, c, n)'
      BY <1>0, <3>2, <3>3 DEF DueServed
    <3> QED BY <3>1, <3>4
  <2> QED BY <2>1, <2>2 DEF DueQueued
<1> QED BY <1>1, <1>2, <1>3, <1>4 DEF Relied

\* Every step keeps the invariant: what is not kept by a step that ends in a
\* fault is not claimed after it.
LEMMA NextServeInv == ServeInv /\ [Next]_vars => ServeInv'
<1> SUFFICES ASSUME ServeInv, [Next]_vars PROVE ServeInv'
  OBVIOUS
<1>1. CASE Next
  <2>1. ServeTypes /\ NotRefused /\ Calm
    BY <1>1, NoFault DEF ServeInv
  <2>2. /\ OneCommand /\ DealerRoom /\ BindMap /\ Owners /\ ClosedEmpty /\ GoneEmpty
        /\ KnownLegal /\ Addressed /\ OnePlace /\ Relied /\ HandlersKnown
    BY <2>1 DEF Calm
  <2>3. ServeTypes'
    BY <1>1, <2>1, <2>2, NextServeTypes
  <2>4. known' \subseteq Conns /\ told' \in [Conns -> SUBSET Names]
    BY <2>3 DEF ServeTypes
  <2>5. OneCommand' /\ DealerRoom' /\ BindMap' /\ Owners' /\ ClosedEmpty' /\ GoneEmpty'
    BY <1>1, <2>1, <2>2, NextOneCommand, NextDealerRoom, NextBindings, NextClosedEmpty, NextGoneEmpty
  <2>6. KnownLegal' /\ Addressed' /\ Relied' /\ HandlersKnown'
    BY <1>1, <2>1, <2>2, <2>4, NextKnownLegal, NextAddressed, NextRelied, NextHandlersKnown
  <2>7. fault' = "none" => OnePlace'
    BY <1>1, <2>1, <2>2, NextOnePlace
  <2>8. NotRefused'
    BY <1>1, <2>1, <2>2, NextNotRefused
  <2>9. GoneIsSilent'
    BY <2>3, <2>5, Silent, PTL
  <2>10. CommandsLegal'
    BY <2>3, <2>5, <2>6, LegalCommands, PTL
  <2> QED BY <2>3, <2>5, <2>6, <2>7, <2>8, <2>9, <2>10 DEF ServeInv, Calm
<1>2. CASE UNCHANGED vars
  <2> USE <1>2 DEF vars
  <2>1. ServeTypes'
    BY DEF ServeInv, ServeTypes
  <2>2. NotRefused' /\ CommandsLegal' /\ GoneIsSilent'
    BY DEF ServeInv, NotRefused, CommandsLegal, GoneIsSilent, Legal, Open
  <2>3. ASSUME fault' = "none" PROVE Calm'
    <3>1. Calm
      BY <2>3 DEF ServeInv
    <3>2. OneCommand' /\ DealerRoom' /\ BindMap' /\ Owners' /\ ClosedEmpty' /\ GoneEmpty'
      BY <3>1 DEF Calm, OneCommand, Waited, Answered, DealerRoom, Connecting, Unconnected, BindMap,
                  Bound, Owners, Returning, OwnSocket, OwnerOf, ClosedEmpty, Open, GoneEmpty
    <3>3. KnownLegal' /\ Addressed' /\ HandlersKnown'
      BY <3>1 DEF Calm, KnownLegal, Legal, Addressed, SocketsMade, QueuesMade, PipesMade, Made,
                  AddressOf, HandlersKnown, AskedOn, get_worker_index
    <3>4. OnePlace'
      <4>1. ASSUME NEW k1, NEW k2, NEW i, NEW q PROVE Place(k1, k2, i, q)' = Place(k1, k2, i, q)
        BY DEF Place
      <4>2. ASSUME NEW q, NEW s1, NEW k1, NEW i1, NEW s2, NEW k2, NEW i2,
                   Place(s1, k1, i1, q)', Place(s2, k2, i2, q)'
            PROVE  s1 = s2 /\ k1 = k2 /\ i1 = i2
        BY <3>1, <4>1, <4>2 DEF Calm, OnePlace
      <4> QED BY <4>2 DEF OnePlace
    <3>5. Relied'
      BY <3>1, ReliedUnchanged DEF Calm
    <3> QED BY <3>2, <3>3, <3>4, <3>5 DEF Calm
  <2> QED BY <2>1, <2>2, <2>3 DEF ServeInv
<1> QED BY <1>1, <1>2

\* The invariant from which the properties of the serving side follow holds in
\* every reachable state.
THEOREM ServeInvariance == Spec => []ServeInv
BY InitServeInv, NextServeInv, PTL DEF Spec

\* Nobody is told NO_SUCH_SERVICE for a service that they could rely on.
THEOREM NobodyRefused == Spec => []NotRefused
<1>1. ServeInv => NotRefused
  BY DEF ServeInv
<1> QED BY <1>1, ServeInvariance, PTL

\* Every command that the broker reads is one that it answers or can serve: no
\* unbind of an endpoint it does not know, no index without a socket.
THEOREM CommandsAreLegal == Spec => []CommandsLegal
<1>1. ServeInv => CommandsLegal
  BY DEF ServeInv
<1> QED BY <1>1, ServeInvariance, PTL

\* After ~server() returns its sockets are deleted and have nothing for the
\* broker.
THEOREM ServersEndSilent == Spec => []GoneIsSilent
<1>1. ServeInv => GoneIsSilent
  BY DEF ServeInv
<1> QED BY <1>1, ServeInvariance, PTL

-----------------------------------------------------------------------------
(* Refinement                                                              *)

\* Where requests come from, and what was answered, in a step that makes no
\* request and sends no answer.
LEMMA ServeUnseen ==
    ASSUME UNCHANGED <<asked, answers>>
    PROVE  UNCHANGED Serve!serveVars
BY DEF Serve!serveVars, Origin

\* A client's request is the abstract Ask.
LEMMA AskRefines ==
    ASSUME ServeTypes, NEW c \in Conns, NEW n \in Names, ClientSend(c, n)
    PROVE  Serve!ServeNext
<1>1. PICK q : q = Len(asked) + 1
  OBVIOUS
<1>2. PICK r \in ReqRec : r = NextRequest(c, n)
  BY ClientSends
<1>3. /\ q \in Requests /\ q \notin DOMAIN asked
      /\ DOMAIN asked' = DOMAIN asked \cup {q} /\ asked'[q] = r
      /\ \A p \in DOMAIN asked : asked'[p] = asked[p]
  BY <1>1, <1>2, ClientSends
<1>4. PICK a : a = <<r.conn, r.ev>>
  OBVIOUS
<1>5. a \in Conns \X Requests
  BY <1>4 DEF ReqRec
<1>6. Origin[q] = NoAddress /\ Origin' = [Origin EXCEPT ![q] = a]
  BY <1>3, <1>4 DEF Origin
<1>7. UNCHANGED answers
  BY DEF ClientSend
<1>8. Serve!Ask(q, a)
  BY <1>6, <1>7 DEF Serve!Ask
<1> QED BY <1>3, <1>5, <1>8 DEF Serve!ServeNext

\* A reply that the broker sends is the abstract Answer: the request has not
\* been answered, as it was in the pipe, and the reply has its address.
LEMMA AnswerRefines ==
    ASSUME ServeTypes, Addressed, OnePlace, NEW a \in Actors, HandleReply(a)
    PROVE  [Serve!ServeNext]_(Serve!serveVars)
<1>1. PICK m \in FrontCmd :
             /\ m = fe[a][1] /\ 1 \in DOMAIN fe[a] /\ m.cmd = "reply" /\ m.q \in Requests
             /\ \/ answers' = [answers EXCEPT ![m.q] = Append(@, <<m.conn, m.ev>>)]
                \/ UNCHANGED answers
             /\ UNCHANGED asked
  BY ReplySent
<1>2. CASE UNCHANGED answers
  BY <1>1, <1>2, ServeUnseen
<1>3. CASE answers' = [answers EXCEPT ![m.q] = Append(@, <<m.conn, m.ev>>)]
  <2>1. PICK q \in Requests : q = m.q
    BY <1>1
  <2>2. q \in DOMAIN asked /\ m.conn = asked[q].conn /\ m.ev = asked[q].ev
    BY <1>1, <2>1 DEF Addressed, PipesMade, AddressOf
  <2>3. Origin[q] = <<m.conn, m.ev>> /\ Origin[q] # NoAddress
    BY <2>2 DEF Origin, NoAddress
  <2>4. answers[q] = <<>>
    <3>1. Place("reply", a, 1, q)
      BY <1>1, <2>1, PlaceSorts
    <3>2. answers[q] # <<>> => Place("answered", q, 1, q)
      BY PlaceSorts
    <3> QED BY <3>1, <3>2 DEF OnePlace
  <2>5. Append(answers[q], <<m.conn, m.ev>>) = <<Origin[q]>>
    BY <2>3, <2>4
  <2>6. answers' = [answers EXCEPT ![q] = <<Origin[q]>>]
    BY <1>3, <2>1, <2>5
  <2>7. UNCHANGED Origin
    BY <1>1 DEF Origin
  <2>8. Serve!Answer(q)
    BY <2>3, <2>4, <2>6, <2>7 DEF Serve!Answer
  <2> QED BY <2>8 DEF Serve!ServeNext
<1> QED BY <1>1, <1>2, <1>3

\* Every step of the serving side is an abstract step or none.
LEMMA NextServes == ServeInv /\ [Next]_vars => [Serve!ServeNext]_(Serve!serveVars)
<1> SUFFICES ASSUME ServeInv, [Next]_vars PROVE [Serve!ServeNext]_(Serve!serveVars)
  OBVIOUS
<1> USE DEF frontVars, sockVars, workVars
<1>1. CASE Next
  <2>1. ServeTypes /\ Addressed /\ OnePlace
    BY <1>1, NoFault DEF ServeInv, Calm
  <2>2. ASSUME SocketDeleted \/ \E c \in Conns : HandleData(c) PROVE UNCHANGED <<asked, answers>>
    BY <2>2 DEF SocketDeleted, HandleData
  <2>3. ASSUME NEW a \in Actors, NEW r \in repliers, Reply(a, r) PROVE UNCHANGED <<asked, answers>>
    BY <2>3 DEF Reply
  <2>4. ASSUME NEW w \in Workers, HandleRequest(w) PROVE UNCHANGED <<asked, answers>>
    BY <2>4 DEF HandleRequest
  <2>5. ASSUME Aside PROVE UNCHANGED <<asked, answers>>
    BY <2>5 DEF Aside
  <2>6. \/ UNCHANGED <<asked, answers>>
        \/ \E c \in Conns : \E n \in Names : ClientSend(c, n)
        \/ \E a \in Actors : HandleReply(a)
    BY <1>1, <2>1, <2>2, <2>3, <2>4, <2>5, Flow
  <2> QED BY <2>1, <2>6, ServeUnseen, AskRefines, AnswerRefines
<1>2. CASE UNCHANGED vars
  BY <1>2, ServeUnseen DEF vars
<1> QED BY <1>1, <1>2

\* The serving side implements what RpcServe promises: a request is answered at
\* most once, on the connection and with the event id that it came with.
THEOREM ServeRefinement == Spec => RefinesRpcServe
<1>1. Init => Serve!ServeInit
  BY DEF Init, Serve!ServeInit, Origin
<1> QED BY <1>1, NextServes, ServeInvariance, PTL DEF Spec, RefinesRpcServe, Serve!ServeSpec
=============================================================================
