---------------------------- MODULE BrokerProofs ----------------------------
(***************************************************************************)
(* Proofs about Broker for every number of threads, connections, workers   *)
(* and requests: every request ends once, and about the order of commands, *)
(* nothing is lost, a worker starts an rpc before it hears of its end,     *)
(* nothing is queued behind a quit command, and a closure runs once.       *)
(***************************************************************************)
EXTENDS Broker, QueueFacts

\* Most actions leave these alone.
USE DEF endVars

-----------------------------------------------------------------------------
(* Queues                                                                  *)

\* Push adds one message at the end of one queue.
LEMMA PushFacts ==
    ASSUME NEW K, NEW S, NEW q \in [K -> Seq(S)], NEW k \in K, NEW m \in S
    PROVE  Push(q, k, m) \in [K -> Seq(S)] /\ Pushed(q, Push(q, k, m), K, k, m)
BY Appended DEF Push, With

\* Pop removes the first message of one queue and shifts the others.
LEMMA PopFacts ==
    ASSUME NEW K, NEW S, NEW q \in [K -> Seq(S)], NEW k \in K, q[k] # <<>>
    PROVE  /\ Pop(q, k) \in [K -> Seq(S)]
           /\ Popped(q, Pop(q, k), K, k)
           /\ Head(q[k]) \in S
BY Removed DEF Pop, Without

-----------------------------------------------------------------------------
(* Workers and event ids                                                   *)

\* The modulus is a worker's index, whatever the hash.
LEMMA WorkerIndex ==
    ASSUME NEW n \in Nat
    PROVE  n % WorkerCount \in Workers
BY WorkersAssumption DEF Workers

\* A connection's commands go to an existing worker.
LEMMA ConnWorker ==
    ASSUME NEW c \in Conns
    PROVE  get_worker_index(c) \in Workers
BY HashAssumption, WorkerIndex DEF get_worker_index

-----------------------------------------------------------------------------
(* What a message that enters or leaves a queue does to ownership.  The      *)
(* controller that changes hands, if any, is that of the moved message.      *)

\* A controller enters the frontend only if it was not in it.
LEMMA FrontPush ==
    ASSUME TypeOK, FrontOwned, NEW t \in Threads, NEW m \in FrontMsg,
           Pushed(fe, fe', Threads, t, m),
           owner' \in [Events -> Owners],
           \A e \in Events : owner[e] = "frontend" => owner'[e] = "frontend",
           m.cmd = "request" => owner[m.id] # "frontend" /\ owner'[m.id] = "frontend"
    PROVE  FrontOwned'
<1> SUFFICES ASSUME NEW e \in Events, NEW u \in Threads, NEW i \in DOMAIN fe'[u],
                    InFront(e, u, i)'
             PROVE  /\ owner'[e] = "frontend"
                    /\ \A v \in Threads : \A j \in DOMAIN fe'[v] :
                         InFront(e, v, j)' => v = u /\ j = i
  BY DEF FrontOwned
<1>1. CASE i \in DOMAIN fe[u] /\ fe'[u][i] = fe[u][i]
  <2>1. InFront(e, u, i) /\ owner[e] = "frontend" /\ owner'[e] = "frontend"
    BY <1>1 DEF InFront, FrontOwned
  <2>2. ASSUME NEW v \in Threads, NEW j \in DOMAIN fe'[v], InFront(e, v, j)'
        PROVE  v = u /\ j = i
    <3>1. j \in DOMAIN fe[v] /\ fe'[v][j] = fe[v][j]
      BY <2>1, <2>2 DEF InFront, Pushed
    <3>2. InFront(e, v, j)
      BY <3>1, <2>2 DEF InFront
    <3> QED BY <3>1, <3>2, <2>1, <1>1 DEF FrontOwned
  <2> QED BY <2>1, <2>2
<1>2. CASE u = t /\ i = Len(fe[t]) + 1 /\ fe'[u][i] = m
  <2>1. m.cmd = "request" /\ m.id = e /\ owner[e] # "frontend" /\ owner'[e] = "frontend"
    BY <1>2 DEF InFront
  <2>2. ASSUME NEW v \in Threads, NEW j \in DOMAIN fe'[v], InFront(e, v, j)'
        PROVE  v = u /\ j = i
    <3>1. CASE j \in DOMAIN fe[v] /\ fe'[v][j] = fe[v][j]
      BY <3>1, <2>1, <2>2 DEF InFront, FrontOwned
    <3>2. CASE v = t /\ j = Len(fe[t]) + 1
      BY <3>2, <1>2
    <3> QED BY <3>1, <3>2 DEF Pushed
  <2> QED BY <2>1, <2>2
<1> QED BY <1>1, <1>2 DEF Pushed

\* A controller leaves the frontend with the only message that holds it.
LEMMA FrontPop ==
    ASSUME TypeOK, FrontOwned, NEW t \in Threads, fe[t] # <<>>,
           Popped(fe, fe', Threads, t),
           \A e \in Events : owner[e] = "frontend" =>
               \/ owner'[e] = "frontend"
               \/ Head(fe[t]).cmd = "request" /\ Head(fe[t]).id = e
    PROVE  FrontOwned'
<1> DEFINE back(u, i) == IF u = t THEN i + 1 ELSE i
<1>1. ASSUME NEW e \in Events, NEW u \in Threads, NEW i \in DOMAIN fe'[u],
             InFront(e, u, i)'
      PROVE  back(u, i) \in DOMAIN fe[u] /\ InFront(e, u, back(u, i))
  BY <1>1 DEF Popped, InFront
<1> SUFFICES ASSUME NEW e \in Events, NEW u \in Threads, NEW i \in DOMAIN fe'[u],
                    InFront(e, u, i)'
             PROVE  /\ owner'[e] = "frontend"
                    /\ \A v \in Threads : \A j \in DOMAIN fe'[v] :
                         InFront(e, v, j)' => v = u /\ j = i
  BY DEF FrontOwned
<1>2. back(u, i) \in DOMAIN fe[u] /\ InFront(e, u, back(u, i)) /\ owner[e] = "frontend"
  BY <1>1 DEF FrontOwned
<1>3. ASSUME Head(fe[t]).cmd = "request", Head(fe[t]).id = e
      PROVE  FALSE
  <2>1. 1 \in DOMAIN fe[t] /\ InFront(e, t, 1)
    BY <1>3 DEF Popped, InFront
  <2>2. u = t /\ back(u, i) = 1
    BY <2>1, <1>2 DEF FrontOwned
  <2>3. i \in Nat /\ i > 0
    BY <2>2 DEF Popped
  <2> QED BY <2>2, <2>3
<1>4. ASSUME NEW v \in Threads, NEW j \in DOMAIN fe'[v], InFront(e, v, j)'
      PROVE  v = u /\ j = i
  <2>1. back(v, j) \in DOMAIN fe[v] /\ InFront(e, v, back(v, j))
    BY <1>1, <1>4
  <2>2. v = u /\ back(v, j) = back(u, i)
    BY <2>1, <1>2 DEF FrontOwned
  <2>3. CASE u = t
    BY <2>2, <2>3 DEF Popped
  <2>4. CASE u # t
    BY <2>2, <2>4
  <2> QED BY <2>2, <2>3, <2>4
<1> QED BY <1>2, <1>3, <1>4

\* A controller enters the worker queues only if it was not in them.
LEMMA StartPush ==
    ASSUME TypeOK, StartOwned, NEW w \in Workers, NEW m \in WorkerCmd,
           Pushed(wq, wq', Workers, w, m),
           \A e \in Events : owner[e] = "queue" => owner'[e] = "queue",
           m.cmd = "start" => owner[m.id] # "queue" /\ owner'[m.id] = "queue"
    PROVE  StartOwned'
<1> SUFFICES ASSUME NEW e \in Events, NEW u \in Workers, NEW i \in DOMAIN wq'[u],
                    StartAt(e, u, i)'
             PROVE  /\ owner'[e] = "queue"
                    /\ \A v \in Workers : \A j \in DOMAIN wq'[v] :
                         StartAt(e, v, j)' => v = u /\ j = i
  BY DEF StartOwned
<1>1. CASE i \in DOMAIN wq[u] /\ wq'[u][i] = wq[u][i]
  <2>1. StartAt(e, u, i) /\ owner[e] = "queue" /\ owner'[e] = "queue"
    BY <1>1 DEF StartAt, StartOwned
  <2>2. ASSUME NEW v \in Workers, NEW j \in DOMAIN wq'[v], StartAt(e, v, j)'
        PROVE  v = u /\ j = i
    <3>1. j \in DOMAIN wq[v] /\ wq'[v][j] = wq[v][j]
      BY <2>1, <2>2 DEF StartAt, Pushed
    <3>2. StartAt(e, v, j)
      BY <3>1, <2>2 DEF StartAt
    <3> QED BY <3>1, <3>2, <2>1, <1>1 DEF StartOwned
  <2> QED BY <2>1, <2>2
<1>2. CASE u = w /\ i = Len(wq[w]) + 1 /\ wq'[u][i] = m
  <2>1. m.cmd = "start" /\ m.id = e /\ owner[e] # "queue" /\ owner'[e] = "queue"
    BY <1>2 DEF StartAt
  <2>2. ASSUME NEW v \in Workers, NEW j \in DOMAIN wq'[v], StartAt(e, v, j)'
        PROVE  v = u /\ j = i
    <3>1. CASE j \in DOMAIN wq[v] /\ wq'[v][j] = wq[v][j]
      BY <3>1, <2>1, <2>2 DEF StartAt, StartOwned
    <3>2. CASE v = w /\ j = Len(wq[w]) + 1
      BY <3>2, <1>2
    <3> QED BY <3>1, <3>2 DEF Pushed
  <2> QED BY <2>1, <2>2
<1> QED BY <1>1, <1>2 DEF Pushed

\* A controller leaves the worker queues with the only command that holds it.
LEMMA StartPop ==
    ASSUME TypeOK, StartOwned, NEW w \in Workers, wq[w] # <<>>,
           Popped(wq, wq', Workers, w),
           \A e \in Events : owner[e] = "queue" =>
               \/ owner'[e] = "queue"
               \/ Head(wq[w]).cmd = "start" /\ Head(wq[w]).id = e
    PROVE  StartOwned'
<1> DEFINE back(u, i) == IF u = w THEN i + 1 ELSE i
<1>1. ASSUME NEW e \in Events, NEW u \in Workers, NEW i \in DOMAIN wq'[u],
             StartAt(e, u, i)'
      PROVE  back(u, i) \in DOMAIN wq[u] /\ StartAt(e, u, back(u, i))
  BY <1>1 DEF Popped, StartAt
<1> SUFFICES ASSUME NEW e \in Events, NEW u \in Workers, NEW i \in DOMAIN wq'[u],
                    StartAt(e, u, i)'
             PROVE  /\ owner'[e] = "queue"
                    /\ \A v \in Workers : \A j \in DOMAIN wq'[v] :
                         StartAt(e, v, j)' => v = u /\ j = i
  BY DEF StartOwned
<1>2. back(u, i) \in DOMAIN wq[u] /\ StartAt(e, u, back(u, i)) /\ owner[e] = "queue"
  BY <1>1 DEF StartOwned
<1>3. ASSUME Head(wq[w]).cmd = "start", Head(wq[w]).id = e
      PROVE  FALSE
  <2>1. 1 \in DOMAIN wq[w] /\ StartAt(e, w, 1)
    BY <1>3 DEF Popped, StartAt
  <2>2. u = w /\ back(u, i) = 1
    BY <2>1, <1>2 DEF StartOwned
  <2>3. i \in Nat /\ i > 0
    BY <2>2 DEF Popped
  <2> QED BY <2>2, <2>3
<1>4. ASSUME NEW v \in Workers, NEW j \in DOMAIN wq'[v], StartAt(e, v, j)'
      PROVE  v = u /\ j = i
  <2>1. back(v, j) \in DOMAIN wq[v] /\ StartAt(e, v, back(v, j))
    BY <1>1, <1>4
  <2>2. v = u /\ back(v, j) = back(u, i)
    BY <2>1, <1>2 DEF StartOwned
  <2>3. CASE u = w
    BY <2>2, <2>3 DEF Popped
  <2>4. CASE u # w
    BY <2>2, <2>4
  <2> QED BY <2>2, <2>3, <2>4
<1> QED BY <1>2, <1>3, <1>4

\* A command is honest when it enters a queue, and stays so.
LEMMA HonestPush ==
    ASSUME HonestQueue, NEW w \in Workers, NEW m \in WorkerCmd,
           Pushed(wq, wq', Workers, w, m), UNCHANGED <<timed, answered>>,
           m.cmd = "timeout" => m.id \in timed,
           m.cmd = "data" /\ m.kind \in ReplyKinds => m.kind \in answered[m.id]
    PROVE  HonestQueue'
BY DEF HonestQueue, Pushed

\* Taking a command from a queue leaves the others honest.
LEMMA HonestPop ==
    ASSUME HonestQueue, NEW w \in Workers, Popped(wq, wq', Workers, w),
           UNCHANGED <<timed, answered>>
    PROVE  HonestQueue'
<1> SUFFICES ASSUME NEW v \in Workers, NEW i \in DOMAIN wq'[v]
             PROVE  \E j \in DOMAIN wq[v] : wq'[v][i] = wq[v][j]
  BY DEF HonestQueue
<1>1. CASE v = w
  BY <1>1 DEF Popped
<1>2. CASE v # w
  BY <1>2 DEF Popped
<1> QED BY <1>1, <1>2

-----------------------------------------------------------------------------
(* The inductive invariant holds initially                                 *)

\* The invariant holds before the first request.
LEMMA InitIInv == Init => IInv
<1> SUFFICES ASSUME Init PROVE IInv
  OBVIOUS
<1> USE DEF Init
<1>1. TypeOK
  BY BoundsAssumption DEF TypeOK, Events, Closures, Owners
<1>2. IdsFresh
  BY DEF IdsFresh, Events
<1>3. NoDangling
  BY DEF NoDangling, FrontOwned, FwdOwned, StartOwned, MapOwned, InFront, StartAt
<1>4. Honest
  BY DEF Honest, HonestQueue
<1> QED BY <1>1, <1>2, <1>3, <1>4 DEF IInv

-----------------------------------------------------------------------------
(* Steps of application threads                                            *)

\* connection::request() takes an event id that nobody has.
LEMMA TakeEventIdStep ==
    ASSUME IInv, NEW t \in Threads, NEW c \in Conns, TakeEventId(t, c)
    PROVE  IInv'
<1> USE DEF TakeEventId, ctrlVars, peerVars, workerVars
<1>0. TypeOK /\ IdsFresh /\ NoDangling /\ Honest
  BY DEF IInv
<1>1. TypeOK'
  <2>1. next_event_id \in Nat /\ next_event_id' \in 1 .. MaxRequests + 1
    BY <1>0, BoundsAssumption DEF TypeOK, Events
  <2>2. caller' \in [Threads -> Events \cup {0}] /\ conn' \in [Events -> Conns \cup {NoConn}]
    BY <1>0 DEF TypeOK
  <2> QED BY <1>0, <2>1, <2>2 DEF TypeOK
<1>2. IdsFresh'
  BY <1>0 DEF IdsFresh, TypeOK, Events
<1>3. NoDangling'
  BY <1>0 DEF NoDangling, FrontOwned, FwdOwned, StartOwned, MapOwned, InFront,
              StartAt
<1>4. Honest'
  BY <1>0 DEF Honest, HonestQueue
<1> QED BY <1>1, <1>2, <1>3, <1>4 DEF IInv

\* A request that does not serialize leaves no controller behind.
LEMMA RequestThrowsStep ==
    ASSUME IInv, NEW t \in Threads, RequestThrows(t)
    PROVE  IInv'
<1> USE DEF RequestThrows, ctrlVars, peerVars, workerVars
<1>0. TypeOK /\ IdsFresh /\ NoDangling /\ Honest
  BY DEF IInv
<1>1. TypeOK'
  BY <1>0 DEF TypeOK
<1>2. IdsFresh'
  BY <1>0 DEF IdsFresh, TypeOK, Events
<1>3. NoDangling'
  BY <1>0 DEF NoDangling, FrontOwned, FwdOwned, StartOwned, MapOwned, InFront,
              StartAt
<1>4. Honest'
  BY <1>0 DEF Honest, HonestQueue
<1> QED BY <1>1, <1>2, <1>3, <1>4 DEF IInv

\* The caller's pointer is now in its frontend pipe, and only there.
LEMMA SendRequestStep ==
    ASSUME IInv, NEW t \in Threads, NEW d \in BOOLEAN, SendRequest(t, d)
    PROVE  IInv'
<1> USE DEF SendRequest, RequestMsg, ctrlVars, peerVars, workerVars
<1> DEFINE e == caller[t]
           m == [cmd |-> "request", id |-> e]
<1>0. TypeOK /\ IdsFresh /\ NoDangling /\ Honest
  BY DEF IInv
<1>a. e \in Events /\ m \in FrontMsg /\ fe \in [Threads -> Seq(FrontMsg)]
  BY <1>0 DEF TypeOK, FrontMsg
<1>b. /\ owner[e] = "none" /\ owner' = [owner EXCEPT ![e] = "frontend"]
      /\ owner \in [Events -> Owners]
  BY <1>0 DEF IdsFresh, TypeOK
<1>c. owner' \in [Events -> Owners]
  BY <1>a, <1>b DEF Owners
<1>d. fe' \in [Threads -> Seq(FrontMsg)] /\ Pushed(fe, fe', Threads, t, m)
  BY <1>a, PushFacts
<1>1. TypeOK'
  BY <1>0, <1>a, <1>c, <1>d DEF TypeOK, get_frontend_socket
<1>2. IdsFresh'
  BY <1>0, <1>a, <1>b DEF IdsFresh, TypeOK, Events
<1>3. FrontOwned'
  BY <1>0, <1>a, <1>b, <1>c, <1>d, FrontPush DEF NoDangling
<1>4. FwdOwned' /\ StartOwned' /\ MapOwned'
  BY <1>0, <1>a, <1>b DEF NoDangling, FwdOwned, StartOwned, MapOwned, StartAt, TypeOK
<1>5. Honest'
  BY <1>0, <1>a, <1>b DEF Honest, HonestQueue, TypeOK
<1> QED BY <1>1, <1>2, <1>3, <1>4, <1>5 DEF IInv, NoDangling

\* manager::add() sends no controller.
LEMMA AddClosureStep ==
    ASSUME IInv, NEW t \in Threads, AddClosure(t)
    PROVE  IInv'
<1> USE DEF AddClosure, ctrlVars, peerVars, workerVars
<1> DEFINE m == [cmd |-> "closure", id |-> next_closure]
<1>0. TypeOK /\ IdsFresh /\ NoDangling /\ Honest
  BY DEF IInv
<1>a. m \in FrontMsg /\ fe \in [Threads -> Seq(FrontMsg)]
  BY <1>0 DEF TypeOK, FrontMsg
<1>b. fe' \in [Threads -> Seq(FrontMsg)] /\ Pushed(fe, fe', Threads, t, m)
  BY <1>a, PushFacts
<1>1. TypeOK'
  BY <1>0, <1>b, BoundsAssumption DEF TypeOK, Closures, get_frontend_socket
<1>2. IdsFresh'
  BY <1>0 DEF IdsFresh
<1>3. FrontOwned'
  BY <1>0, <1>a, <1>b, FrontPush DEF NoDangling, TypeOK
<1>4. FwdOwned' /\ StartOwned' /\ MapOwned'
  BY <1>0 DEF NoDangling, FwdOwned, StartOwned, MapOwned, StartAt
<1>5. Honest'
  BY <1>0 DEF Honest, HonestQueue
<1> QED BY <1>1, <1>2, <1>3, <1>4, <1>5 DEF IInv, NoDangling

\* join_threads() sends kQuit, which carries no controller.
LEMMA JoinThreadsStep ==
    ASSUME IInv, NEW t \in Threads, JoinThreads(t)
    PROVE  IInv'
<1> USE DEF JoinThreads, callerVars, ctrlVars, peerVars, workerVars
<1> DEFINE m == [cmd |-> "quit", id |-> 0]
<1>0. TypeOK /\ IdsFresh /\ NoDangling /\ Honest
  BY DEF IInv
<1>a. m \in FrontMsg /\ fe \in [Threads -> Seq(FrontMsg)]
  BY <1>0 DEF TypeOK, FrontMsg
<1>b. fe' \in [Threads -> Seq(FrontMsg)] /\ Pushed(fe, fe', Threads, t, m)
  BY <1>a, PushFacts
<1>1. TypeOK'
  BY <1>0, <1>b DEF TypeOK
<1>2. IdsFresh'
  BY <1>0 DEF IdsFresh
<1>3. FrontOwned'
  BY <1>0, <1>a, <1>b, FrontPush DEF NoDangling, TypeOK
<1>4. FwdOwned' /\ StartOwned' /\ MapOwned'
  BY <1>0 DEF NoDangling, FwdOwned, StartOwned, MapOwned, StartAt
<1>5. Honest'
  BY <1>0 DEF Honest, HonestQueue
<1> QED BY <1>1, <1>2, <1>3, <1>4, <1>5 DEF IInv, NoDangling

\* The quit commands carry no controller either.
LEMMA JoinAllStep ==
    ASSUME IInv, JoinAll
    PROVE  IInv'
<1> USE DEF JoinAll, callerVars, ctrlVars, peerVars, workerVars
<1> DEFINE m == Cmd("quit", 0, "none")
<1>0. TypeOK /\ IdsFresh /\ NoDangling /\ Honest
  BY DEF IInv
<1>a. m \in WorkerCmd /\ m.cmd = "quit" /\ wq \in [Workers -> Seq(WorkerCmd)]
  BY <1>0 DEF TypeOK, WorkerCmd, Cmd
<1>b. wq' = [w \in Workers |-> Append(wq[w], m)]
  OBVIOUS
<1> HIDE DEF m
<1>c. wq' \in [Workers -> Seq(WorkerCmd)]
  BY <1>a, <1>b
<1>d. ASSUME NEW w \in Workers, NEW i \in DOMAIN wq'[w]
      PROVE  \/ i \in DOMAIN wq[w] /\ wq'[w][i] = wq[w][i]
             \/ wq'[w][i].cmd = "quit"
  <2>1. wq[w] \in Seq(WorkerCmd) /\ wq'[w] = Append(wq[w], m)
    BY <1>a, <1>b
  <2> QED BY <2>1, <1>a
<1>1. TypeOK'
  BY <1>0, <1>c DEF TypeOK
<1>2. IdsFresh'
  BY <1>0 DEF IdsFresh
<1>3. StartOwned'
  <2>1. ASSUME NEW e \in Events, NEW w \in Workers, NEW i \in DOMAIN wq'[w],
               StartAt(e, w, i)'
        PROVE  i \in DOMAIN wq[w] /\ StartAt(e, w, i)
    BY <1>d, <2>1 DEF StartAt
  <2> QED BY <1>0, <2>1 DEF NoDangling, StartOwned
<1>4. FrontOwned' /\ FwdOwned' /\ MapOwned'
  BY <1>0 DEF NoDangling, FrontOwned, FwdOwned, MapOwned, InFront
<1>5. Honest'
  BY <1>0, <1>d DEF Honest, HonestQueue
<1> QED BY <1>1, <1>2, <1>3, <1>4, <1>5 DEF IInv, NoDangling

\* A thread that ends changes nothing else.
LEMMA ThreadEndsStep ==
    ASSUME IInv, NEW t \in Threads, ThreadEnds(t)
    PROVE  IInv'
BY DEF ThreadEnds, IInv, TypeOK, IdsFresh, NoDangling, FrontOwned, FwdOwned,
       StartOwned, MapOwned, Honest, HonestQueue, InFront, StartAt, callerVars,
       ctrlVars, peerVars, workerVars

\* A change of owners that makes no request and forgets no deletion is honest.
LEMMA StaysHonest ==
    ASSUME TypeOK, Honest,
           \A e \in Events : /\ owner'[e] = "none" <=> owner[e] = "none"
                             /\ owner[e] = "deleted" => owner'[e] = "deleted",
           UNCHANGED <<handled, timers, timed, out, arrived, inb, answered, wq>>
    PROVE  Honest'
<1>1. \A c \in Conns : \A i \in DOMAIN out[c] : out[c][i] \in Events
  BY DEF TypeOK
<1>2. arrived \subseteq Events
  BY DEF TypeOK
<1>3. \A c \in Conns : \A i \in DOMAIN out[c] : owner'[out[c][i]] # "none"
  BY <1>1 DEF Honest
<1>4. \A e \in arrived : owner'[e] # "none"
  BY <1>2 DEF Honest
<1>5. \A e \in Events : handled[e] # <<>> => owner'[e] = "deleted"
  BY DEF Honest
<1> QED BY <1>3, <1>4, <1>5 DEF Honest, HonestQueue

\* The maps go with the controllers that are left in them.
LEMMA JoinedStep ==
    ASSUME IInv, Joined
    PROVE  IInv'
<1> USE DEF Joined, callerVars, ctrlVars, peerVars
<1>0. TypeOK /\ IdsFresh /\ NoDangling /\ Honest
  BY DEF IInv
<1>a. /\ \A e \in Events : \/ owner'[e] = owner[e]
                           \/ (owner[e] = "worker" /\ owner'[e] = "lost")
      /\ owner' \in [Events -> Owners]
  BY <1>0 DEF TypeOK, Owners, NoDangling, MapOwned
<1>1. TypeOK'
  BY <1>0, <1>a DEF TypeOK
<1>b. \A e \in Events : /\ owner'[e] = "none" <=> owner[e] = "none"
                        /\ owner[e] = "deleted" => owner'[e] = "deleted"
  BY <1>a
<1>2. IdsFresh'
  BY <1>0, <1>b DEF IdsFresh, TypeOK
<1>3. NoDangling'
  BY <1>0, <1>a DEF NoDangling, FrontOwned, FwdOwned, StartOwned, MapOwned, InFront,
                    StartAt, TypeOK
<1>4. Honest'
  BY <1>0, <1>b, StaysHonest DEF TypeOK
<1> QED BY <1>1, <1>2, <1>3, <1>4 DEF IInv

\* The end of ~manager() touches no queue.
LEMMA TermContextStep ==
    ASSUME IInv, TermContext
    PROVE  IInv'
BY DEF TermContext, IInv, TypeOK, IdsFresh, NoDangling, FrontOwned, FwdOwned,
       StartOwned, MapOwned, Honest, HonestQueue, InFront, StartAt, callerVars,
       ctrlVars, peerVars, workerVars

-----------------------------------------------------------------------------
(* Steps of the broker                                                     *)

\* send_request() takes the pointer out of the frontend pipe.
LEMMA HandleRequestStep ==
    ASSUME IInv, NEW t \in Threads, HandleRequest(t)
    PROVE  IInv'
<1> USE DEF HandleRequest, FrontHead, Polling, callerVars, ctrlVars, peerVars,
            workerVars
<1> DEFINE e == Head(fe[t]).id
           w == get_worker_index(conn[e])
<1>0. TypeOK /\ IdsFresh /\ NoDangling /\ Honest
  BY DEF IInv
<1>a. fe \in [Threads -> Seq(FrontMsg)] /\ fe[t] # <<>>
  BY <1>0 DEF TypeOK
<1>b. /\ fe' \in [Threads -> Seq(FrontMsg)] /\ Popped(fe, fe', Threads, t)
      /\ Head(fe[t]) \in FrontMsg
  BY <1>a, PopFacts
<1>c. e \in Events /\ owner[e] = "frontend"
  <2>1. e \in Events
    BY <1>b DEF FrontMsg
  <2>2. 1 \in DOMAIN fe[t] /\ InFront(e, t, 1)
    BY <1>b DEF Popped, InFront
  <2> QED BY <2>1, <2>2, <1>0 DEF NoDangling, FrontOwned
<1>d. w \in Workers
  BY <1>0, <1>c, ConnWorker DEF IdsFresh
<1>e. owner \in [Events -> Owners] /\ owner' = [owner EXCEPT ![e] = "broker"]
  BY <1>0 DEF TypeOK
<1>f. timers' \in SUBSET Timers
  <2>1. [ev |-> e, worker |-> w] \in Timers
    BY <1>c, <1>d DEF Timers
  <2> QED BY <1>0, <2>1 DEF TypeOK
<1>1. TypeOK'
  <2>1. owner' \in [Events -> Owners]
    BY <1>c, <1>e DEF Owners
  <2> QED BY <1>0, <1>b, <1>c, <1>f, <2>1 DEF TypeOK
<1>2. IdsFresh'
  BY <1>0, <1>c, <1>e DEF IdsFresh, TypeOK
<1>3. FrontOwned'
  BY <1>0, <1>a, <1>b, <1>c, <1>e, FrontPop DEF NoDangling
<1>4. FwdOwned' /\ StartOwned' /\ MapOwned'
  BY <1>0, <1>c, <1>e DEF NoDangling, FwdOwned, StartOwned, MapOwned, StartAt
<1>5. Honest'
  BY <1>0, <1>c, <1>e DEF Honest, HonestQueue, TypeOK
<1> QED BY <1>1, <1>2, <1>3, <1>4, <1>5 DEF IInv, NoDangling

\* The broker gives the pointer to the worker of the connection, whether or
\* not the request could be forwarded.
LEMMA ForwardRequestStep ==
    ASSUME IInv, ForwardRequest
    PROVE  IInv'
<1> DEFINE c == conn[fwd]
           w == get_worker_index(c)
           m == Cmd("start", fwd, "none")
<1>0. TypeOK /\ IdsFresh /\ NoDangling /\ Honest
  BY DEF IInv
<1>a. fwd \in Events /\ owner[fwd] = "broker"
  BY <1>0 DEF ForwardRequest, forward_to, start_rpc, TypeOK, NoDangling, FwdOwned
<1>b. c \in Conns /\ w \in Workers
  BY <1>0, <1>a, ConnWorker DEF IdsFresh
<1>c. m \in WorkerCmd /\ m.cmd = "start" /\ m.id = fwd
  BY <1>a DEF WorkerCmd, Cmd
<1>d. /\ owner \in [Events -> Owners] /\ owner' = [owner EXCEPT ![fwd] = "queue"]
      /\ wq \in [Workers -> Seq(WorkerCmd)] /\ wq' = Push(wq, w, m)
      /\ out \in [Conns -> Seq(Events)]
      /\ out' = Push(out, c, fwd) \/ out' = out
      /\ fwd' = 0
      /\ UNCHANGED <<callerVars, conn, timed, handled, fe, broker, timers,
                     peerVars, inb, workerVars, endVars>>
  BY <1>0 DEF TypeOK, ForwardRequest, forward_to, start_rpc
<1> HIDE DEF m, w, c
<1>e. wq' \in [Workers -> Seq(WorkerCmd)] /\ Pushed(wq, wq', Workers, w, m)
  BY <1>b, <1>c, <1>d, PushFacts
<1>f. out' \in [Conns -> Seq(Events)] /\ (Pushed(out, out', Conns, c, fwd) \/ out' = out)
  <2>1. /\ Push(out, c, fwd) \in [Conns -> Seq(Events)]
        /\ Pushed(out, Push(out, c, fwd), Conns, c, fwd)
    BY <1>a, <1>b, <1>d, PushFacts
  <2> QED BY <2>1, <1>d
<1> USE DEF callerVars, ctrlVars, peerVars, workerVars
<1>1. TypeOK'
  <2>1. owner' \in [Events -> Owners]
    BY <1>a, <1>d DEF Owners
  <2> QED BY <1>0, <1>d, <1>e, <1>f, <2>1 DEF TypeOK
<1>2. IdsFresh'
  BY <1>0, <1>a, <1>d DEF IdsFresh
<1>3. StartOwned'
  BY <1>0, <1>a, <1>b, <1>c, <1>d, <1>e, StartPush DEF NoDangling
<1>4. FrontOwned' /\ FwdOwned' /\ MapOwned'
  BY <1>0, <1>a, <1>d DEF NoDangling, FrontOwned, FwdOwned, MapOwned, InFront
<1>5. HonestQueue'
  BY <1>0, <1>b, <1>c, <1>d, <1>e, HonestPush DEF Honest
<1>6. \A d \in Conns : \A i \in DOMAIN out'[d] : owner'[out'[d][i]] # "none"
  <2> SUFFICES ASSUME NEW d \in Conns, NEW i \in DOMAIN out'[d]
               PROVE  owner'[out'[d][i]] # "none"
    OBVIOUS
  <2>1. \/ i \in DOMAIN out[d] /\ out'[d][i] = out[d][i]
        \/ out'[d][i] = fwd
    BY <1>f DEF Pushed
  <2> QED BY <2>1, <1>0, <1>a, <1>d DEF Honest
<1>7. Honest'
  BY <1>0, <1>a, <1>d, <1>5, <1>6 DEF Honest
<1> QED BY <1>1, <1>2, <1>3, <1>4, <1>7 DEF IInv, NoDangling

\* add_closure() gives a worker a command without a controller.
LEMMA HandleClosureStep ==
    ASSUME IInv, NEW t \in Threads, HandleClosure(t)
    PROVE  IInv'
<1> DEFINE m == Cmd("closure", Head(fe[t]).id, "none")
<1>0. TypeOK /\ IdsFresh /\ NoDangling /\ Honest
  BY DEF IInv
<1>a. PICK w \in Workers : wq' = Push(wq, w, m)
  BY DEF HandleClosure
<1>b. /\ fe \in [Threads -> Seq(FrontMsg)] /\ fe[t] # <<>> /\ fe' = Pop(fe, t)
      /\ Head(fe[t]).cmd = "closure"
      /\ wq \in [Workers -> Seq(WorkerCmd)]
      /\ UNCHANGED <<callerVars, ctrlVars, broker, fwd, timers, out, peerVars,
                     inb, workerVars, endVars>>
  BY <1>0 DEF TypeOK, HandleClosure, FrontHead
<1>c. /\ fe' \in [Threads -> Seq(FrontMsg)] /\ Popped(fe, fe', Threads, t)
      /\ Head(fe[t]) \in FrontMsg
  BY <1>b, PopFacts
<1>d. m \in WorkerCmd /\ m.cmd = "closure"
  BY <1>b, <1>c DEF WorkerCmd, FrontMsg, Cmd
<1> HIDE DEF m
<1>e. wq' \in [Workers -> Seq(WorkerCmd)] /\ Pushed(wq, wq', Workers, w, m)
  BY <1>a, <1>b, <1>d, PushFacts
<1> USE DEF callerVars, ctrlVars, peerVars, workerVars
<1>1. TypeOK'
  BY <1>0, <1>b, <1>c, <1>e DEF TypeOK
<1>2. IdsFresh'
  BY <1>0, <1>b DEF IdsFresh
<1>3. FrontOwned'
  BY <1>0, <1>b, <1>c, FrontPop DEF NoDangling
<1>4. StartOwned'
  BY <1>0, <1>b, <1>d, <1>e, StartPush DEF NoDangling
<1>5. FwdOwned' /\ MapOwned'
  BY <1>0, <1>b DEF NoDangling, FwdOwned, MapOwned
<1>6. HonestQueue'
  BY <1>0, <1>b, <1>d, <1>e, HonestPush DEF Honest
<1>7. Honest'
  BY <1>0, <1>b, <1>6 DEF Honest
<1> QED BY <1>1, <1>2, <1>3, <1>4, <1>5, <1>7 DEF IInv, NoDangling

\* handle_quit_command() drops no controller.
LEMMA HandleQuitStep ==
    ASSUME IInv, NEW t \in Threads, HandleQuit(t)
    PROVE  IInv'
<1>0. TypeOK /\ IdsFresh /\ NoDangling /\ Honest
  BY DEF IInv
<1>b. /\ fe \in [Threads -> Seq(FrontMsg)] /\ fe[t] # <<>> /\ fe' = Pop(fe, t)
      /\ broker' = "quitting"
      /\ UNCHANGED <<callerVars, ctrlVars, fwd, timers, out, peerVars, inb, wq,
                     workerVars, endVars>>
  BY <1>0 DEF TypeOK, HandleQuit, FrontHead
<1>c. fe' \in [Threads -> Seq(FrontMsg)] /\ Popped(fe, fe', Threads, t)
  BY <1>b, PopFacts
<1> USE DEF callerVars, ctrlVars, peerVars, workerVars
<1>1. TypeOK'
  BY <1>0, <1>b, <1>c DEF TypeOK
<1>2. IdsFresh'
  BY <1>0, <1>b DEF IdsFresh
<1>3. FrontOwned'
  BY <1>0, <1>b, <1>c, FrontPop DEF NoDangling
<1>4. StartOwned' /\ FwdOwned' /\ MapOwned'
  BY <1>0, <1>b DEF NoDangling, StartOwned, FwdOwned, MapOwned, StartAt
<1>5. Honest'
  BY <1>0, <1>b DEF Honest, HonestQueue
<1> QED BY <1>1, <1>2, <1>3, <1>4, <1>5 DEF IInv, NoDangling

\* The destructor of the reactor drops timers and messages, and the pointers to
\* controllers in the frontend pipes.
LEMMA BrokerExitStep ==
    ASSUME IInv, BrokerExit
    PROVE  IInv'
<1> USE DEF BrokerExit, callerVars, ctrlVars, peerVars, workerVars
<1>0. TypeOK /\ IdsFresh /\ NoDangling /\ Honest
  BY DEF IInv
<1>a. /\ \A e \in Events : \/ owner'[e] = owner[e]
                           \/ (owner[e] = "frontend" /\ owner'[e] = "lost")
      /\ owner' \in [Events -> Owners]
  BY <1>0 DEF TypeOK, Owners, NoDangling, FrontOwned
<1>b. \A c \in Conns : DOMAIN out'[c] = {} /\ DOMAIN inb'[c] = {}
  OBVIOUS
<1>c. \A t \in Threads : fe'[t] = <<>> /\ DOMAIN fe'[t] = {}
  OBVIOUS
<1>1. TypeOK'
  <2>1. dropped' \in SUBSET Closures
    BY <1>0 DEF TypeOK, ClosuresInFront
  <2>2. out' \in [Conns -> Seq(Events)] /\ inb' \in [Conns -> Seq(NetMsg)]
        /\ fe' \in [Threads -> Seq(FrontMsg)]
    OBVIOUS
  <2> QED BY <1>0, <1>a, <2>1, <2>2 DEF TypeOK
<1>d. \A e \in Events : /\ owner'[e] = "none" <=> owner[e] = "none"
                        /\ owner[e] = "deleted" => owner'[e] = "deleted"
  BY <1>a
<1>2. IdsFresh'
  BY <1>0, <1>d DEF IdsFresh, TypeOK
<1>3. NoDangling'
  BY <1>0, <1>a, <1>c DEF NoDangling, FrontOwned, FwdOwned, StartOwned, MapOwned,
                    InFront, StartAt, TypeOK
<1>4. Honest'
  BY <1>0, <1>a, <1>b DEF Honest, HonestQueue, TypeOK
<1> QED BY <1>1, <1>2, <1>3, <1>4 DEF IInv

\* A message from the network becomes a data command, and no controller.
LEMMA HandleDataStep ==
    ASSUME IInv, NEW c \in Conns, HandleData(c)
    PROVE  IInv'
<1> DEFINE h == Head(inb[c])
           m == Cmd("data", h.ev, h.kind)
           w == get_worker_index(c)
<1>0. TypeOK /\ IdsFresh /\ NoDangling /\ Honest
  BY DEF IInv
<1>a. /\ inb \in [Conns -> Seq(NetMsg)] /\ inb[c] # <<>> /\ inb' = Pop(inb, c)
      /\ wq \in [Workers -> Seq(WorkerCmd)]
      /\ wq' = wq \/ wq' = Push(wq, w, m)
      /\ UNCHANGED <<callerVars, ctrlVars, fe, broker, fwd, timers, out,
                     peerVars, workerVars, endVars>>
  BY <1>0 DEF TypeOK, HandleData
<1>b. /\ inb' \in [Conns -> Seq(NetMsg)] /\ Popped(inb, inb', Conns, c)
      /\ h \in NetMsg
  BY <1>a, PopFacts
<1>c. /\ m \in WorkerCmd /\ m.cmd = "data" /\ m.id = h.ev /\ m.kind = h.kind
      /\ w \in Workers
  BY <1>b, ConnWorker DEF WorkerCmd, NetMsg, Cmd
<1>d. m.kind \in ReplyKinds => m.kind \in answered[m.id]
  BY <1>0, <1>b, <1>c DEF Honest, Popped
<1> HIDE DEF m, w, h
<1>e. /\ Push(wq, w, m) \in [Workers -> Seq(WorkerCmd)]
      /\ Pushed(wq, Push(wq, w, m), Workers, w, m)
  BY <1>a, <1>c, PushFacts
<1>f. /\ wq' \in [Workers -> Seq(WorkerCmd)]
      /\ wq' = wq \/ Pushed(wq, wq', Workers, w, m)
  BY <1>a, <1>e
<1> USE DEF callerVars, ctrlVars, peerVars, workerVars
<1>1. TypeOK'
  BY <1>0, <1>a, <1>b, <1>f DEF TypeOK
<1>2. IdsFresh'
  BY <1>0, <1>a DEF IdsFresh
<1>3. StartOwned'
  <2>1. CASE wq' = wq
    BY <2>1, <1>0, <1>a DEF NoDangling, StartOwned, StartAt
  <2>2. CASE Pushed(wq, wq', Workers, w, m)
    BY <2>2, <1>0, <1>a, <1>c, StartPush DEF NoDangling
  <2> QED BY <2>1, <2>2, <1>f
<1>4. FrontOwned' /\ FwdOwned' /\ MapOwned'
  BY <1>0, <1>a DEF NoDangling, FrontOwned, FwdOwned, MapOwned, InFront
<1>5. HonestQueue'
  <2>1. CASE wq' = wq
    BY <2>1, <1>0, <1>a DEF Honest, HonestQueue
  <2>2. CASE Pushed(wq, wq', Workers, w, m)
    BY <2>2, <1>0, <1>a, <1>c, <1>d, HonestPush DEF Honest
  <2> QED BY <2>1, <2>2, <1>f
<1>6. \A d \in Conns : \A i \in DOMAIN inb'[d] :
         inb'[d][i].kind \in ReplyKinds => inb'[d][i].kind \in answered'[inb'[d][i].ev]
  <2> SUFFICES ASSUME NEW d \in Conns, NEW i \in DOMAIN inb'[d]
               PROVE  \E j \in DOMAIN inb[d] : inb'[d][i] = inb[d][j]
    BY <1>0, <1>a DEF Honest
  <2>1. CASE d = c
    BY <2>1, <1>b DEF Popped
  <2>2. CASE d # c
    BY <2>2, <1>b DEF Popped
  <2> QED BY <2>1, <2>2
<1>7. Honest'
  BY <1>0, <1>a, <1>5, <1>6 DEF Honest
<1> QED BY <1>1, <1>2, <1>3, <1>4, <1>7 DEF IInv, NoDangling

\* An expired timer becomes a timeout command of a request with a deadline.
LEMMA HandleTimeoutStep ==
    ASSUME IInv, NEW tm \in timers, HandleTimeout(tm)
    PROVE  IInv'
<1> DEFINE w == tm.worker % WorkerCount
           m == Cmd("timeout", tm.ev, "none")
<1>0. TypeOK /\ IdsFresh /\ NoDangling /\ Honest
  BY DEF IInv
<1>a. /\ wq \in [Workers -> Seq(WorkerCmd)] /\ wq' = Push(wq, w, m)
      /\ timers' = timers \ {tm}
      /\ UNCHANGED <<callerVars, ctrlVars, fe, broker, fwd, out, peerVars, inb,
                     workerVars, endVars>>
  BY <1>0 DEF TypeOK, HandleTimeout
<1>b. tm \in Timers
  BY <1>0 DEF TypeOK
<1>c. m \in WorkerCmd /\ m.cmd = "timeout" /\ m.id = tm.ev
  BY <1>b DEF WorkerCmd, Timers, Cmd
<1>d. w \in Workers
  BY <1>b, WorkerIndex DEF Timers, Workers
<1> HIDE DEF m, w
<1>e. wq' \in [Workers -> Seq(WorkerCmd)] /\ Pushed(wq, wq', Workers, w, m)
  BY <1>a, <1>c, <1>d, PushFacts
<1> USE DEF callerVars, ctrlVars, peerVars, workerVars
<1>1. TypeOK'
  BY <1>0, <1>a, <1>e DEF TypeOK
<1>2. IdsFresh'
  BY <1>0, <1>a DEF IdsFresh
<1>3. StartOwned'
  BY <1>0, <1>a, <1>c, <1>d, <1>e, StartPush DEF NoDangling
<1>4. FrontOwned' /\ FwdOwned' /\ MapOwned'
  BY <1>0, <1>a DEF NoDangling, FrontOwned, FwdOwned, MapOwned, InFront
<1>5. HonestQueue'
  BY <1>0, <1>a, <1>c, <1>d, <1>e, HonestPush DEF Honest
<1>6. Honest'
  BY <1>0, <1>a, <1>5 DEF Honest
<1> QED BY <1>1, <1>2, <1>3, <1>4, <1>6 DEF IInv, NoDangling

-----------------------------------------------------------------------------
(* Steps of a worker                                                       *)

\* Every command that a worker pops is well formed, and popping it neither
\* moves a controller, unless it is a start command, nor makes a lie.
LEMMA WorkerPop ==
    ASSUME IInv, NEW w \in Workers, wq[w] # <<>>, wq' = Pop(wq, w)
    PROVE  /\ wq' \in [Workers -> Seq(WorkerCmd)]
           /\ Popped(wq, wq', Workers, w)
           /\ Head(wq[w]) \in WorkerCmd
           /\ UNCHANGED <<timed, answered>> => HonestQueue'
<1>1. /\ wq' \in [Workers -> Seq(WorkerCmd)] /\ Popped(wq, wq', Workers, w)
      /\ Head(wq[w]) \in WorkerCmd
  <2>1. wq \in [Workers -> Seq(WorkerCmd)]
    BY DEF IInv, TypeOK
  <2> QED BY <2>1, PopFacts
<1>2. UNCHANGED <<timed, answered>> => HonestQueue'
  BY <1>1, HonestPop DEF IInv, Honest
<1> QED BY <1>1, <1>2

\* The pointer moves from the queue to remote_response_map_.
LEMMA StartRpcStep ==
    ASSUME IInv, NEW w \in Workers, StartRpc(w)
    PROVE  IInv'
<1> DEFINE e == Head(wq[w]).id
<1>0. TypeOK /\ IdsFresh /\ NoDangling /\ Honest
  BY DEF IInv
<1>a. /\ wq[w] # <<>> /\ wq' = Pop(wq, w) /\ Head(wq[w]).cmd = "start"
      /\ rmap \in [Workers -> SUBSET Events] /\ rmap' = [rmap EXCEPT ![w] = @ \cup {e}]
      /\ owner \in [Events -> Owners] /\ owner' = [owner EXCEPT ![e] = "worker"]
      /\ UNCHANGED <<callerVars, conn, timed, handled, fe, broker, fwd, timers,
                     out, peerVars, inb, alive, ran, phase, sock, dropped>>
  BY <1>0 DEF TypeOK, StartRpc, WorkerHead
<1> USE DEF callerVars, ctrlVars, peerVars, workerVars
<1>b. /\ wq' \in [Workers -> Seq(WorkerCmd)] /\ Popped(wq, wq', Workers, w)
      /\ Head(wq[w]) \in WorkerCmd /\ HonestQueue'
  BY <1>a, WorkerPop
<1>c. e \in Events
  BY <1>a, <1>b DEF WorkerCmd
<1>d. owner[e] = "queue"
  BY <1>0, <1>a, <1>b, <1>c DEF NoDangling, StartOwned, StartAt, Popped
<1> HIDE DEF e
<1>1. TypeOK'
  <2>1. owner' \in [Events -> Owners] /\ rmap' \in [Workers -> SUBSET Events]
    BY <1>a, <1>c DEF Owners
  <2> QED BY <1>0, <1>a, <1>b, <2>1 DEF TypeOK
<1>2. IdsFresh'
  BY <1>0, <1>a, <1>c, <1>d DEF IdsFresh
<1>3. StartOwned'
  BY <1>0, <1>a, <1>b, <1>c, <1>d, StartPop DEF NoDangling, e
<1>4. FrontOwned' /\ FwdOwned'
  BY <1>0, <1>a, <1>c, <1>d DEF NoDangling, FrontOwned, FwdOwned, InFront
<1>5. MapOwned'
  BY <1>0, <1>a, <1>c, <1>d DEF NoDangling, MapOwned
<1>6. Honest'
  BY <1>0, <1>a, <1>b, <1>c, <1>d DEF Honest
<1> QED BY <1>1, <1>2, <1>3, <1>4, <1>5, <1>6 DEF IInv, NoDangling

\* Whatever command it handles, a worker that runs the handler of a request
\* in its map keeps the invariant.
LEMMA RunHandlerStep ==
    ASSUME IInv, NEW w \in Workers, NEW e \in rmap[w], NEW o \in Outcomes,
           wq[w] # <<>>, wq' = Pop(wq, w), RunHandler(w, e, o),
           UNCHANGED <<callerVars, conn, timed, fe, broker, fwd, timers, out,
                       peerVars, inb, alive, ran, phase, sock, dropped>>
    PROVE  IInv'
<1> USE DEF callerVars, ctrlVars, peerVars, workerVars
<1>0. TypeOK /\ IdsFresh /\ NoDangling /\ Honest
  BY DEF IInv
<1>a. /\ rmap \in [Workers -> SUBSET Events] /\ rmap' = [rmap EXCEPT ![w] = @ \ {e}]
      /\ owner \in [Events -> Owners] /\ owner' = [owner EXCEPT ![e] = "deleted"]
      /\ handled \in [Events -> Seq(Outcomes)]
      /\ handled' = [handled EXCEPT ![e] = Append(@, o)]
  BY <1>0 DEF TypeOK, RunHandler
<1>b. /\ wq' \in [Workers -> Seq(WorkerCmd)] /\ Popped(wq, wq', Workers, w)
      /\ HonestQueue'
  BY WorkerPop
<1>c. e \in Events /\ owner[e] = "worker"
  BY <1>0, <1>a DEF NoDangling, MapOwned
<1>1. TypeOK'
  <2>1. owner' \in [Events -> Owners] /\ rmap' \in [Workers -> SUBSET Events]
    BY <1>a, <1>c DEF Owners
  <2>2. handled' \in [Events -> Seq(Outcomes)]
    BY <1>a, <1>c
  <2> QED BY <1>0, <1>a, <1>b, <2>1, <2>2 DEF TypeOK
<1>2. IdsFresh'
  BY <1>0, <1>a, <1>c DEF IdsFresh
<1>3. StartOwned'
  BY <1>0, <1>a, <1>b, <1>c, StartPop DEF NoDangling
<1>4. FrontOwned' /\ FwdOwned'
  BY <1>0, <1>a, <1>c DEF NoDangling, FrontOwned, FwdOwned, InFront
<1>5. MapOwned'
  BY <1>0, <1>a, <1>c DEF NoDangling, MapOwned
<1>6. Honest'
  BY <1>0, <1>a, <1>b, <1>c DEF Honest
<1> QED BY <1>1, <1>2, <1>3, <1>4, <1>5, <1>6 DEF IInv, NoDangling

\* A worker that drops a command, because there is nothing to do for it or
\* because it has nothing to do with controllers, keeps the invariant.
LEMMA DropStep ==
    ASSUME IInv, NEW w \in Workers, wq[w] # <<>>, wq' = Pop(wq, w),
           alive' \in [Workers -> BOOLEAN], ran' \in [Closures -> Nat],
           UNCHANGED <<callerVars, ctrlVars, fe, broker, fwd, timers, out,
                       peerVars, inb, rmap, phase, sock, dropped>>
    PROVE  IInv'
<1> USE DEF callerVars, ctrlVars, peerVars, workerVars
<1>0. TypeOK /\ IdsFresh /\ NoDangling /\ Honest
  BY DEF IInv
<1>b. /\ wq' \in [Workers -> Seq(WorkerCmd)] /\ Popped(wq, wq', Workers, w)
      /\ HonestQueue'
  BY WorkerPop
<1>1. TypeOK'
  BY <1>0, <1>b DEF TypeOK
<1>2. IdsFresh'
  BY <1>0 DEF IdsFresh
<1>3. StartOwned'
  BY <1>0, <1>b, StartPop DEF NoDangling
<1>4. FrontOwned' /\ FwdOwned' /\ MapOwned'
  BY <1>0 DEF NoDangling, FrontOwned, FwdOwned, MapOwned, InFront
<1>5. Honest'
  BY <1>0, <1>b DEF Honest
<1> QED BY <1>1, <1>2, <1>3, <1>4, <1>5 DEF IInv, NoDangling

\* Each command that a worker handles preserves the invariant.
LEMMA WorkerStepStep ==
    ASSUME IInv, NEW w \in Workers, WorkerStep(w)
    PROVE  IInv'
<1> DEFINE h == Head(wq[w])
<1>0. TypeOK
  BY DEF IInv
<1>1. CASE StartRpc(w)
  BY <1>1, StartRpcStep
<1>2. CASE HandleResponse(w)
  <2>1. CASE h.kind \in ReplyKinds /\ h.id \in rmap[w]
    BY <1>2, <2>1, RunHandlerStep DEF HandleResponse, WorkerHead, Outcomes
  <2>2. CASE ~(h.kind \in ReplyKinds /\ h.id \in rmap[w])
    <3>1. /\ wq[w] # <<>> /\ wq' = Pop(wq, w)
          /\ UNCHANGED <<callerVars, ctrlVars, fe, broker, fwd, timers, out,
                         peerVars, inb, workerVars, endVars>>
      BY <1>2, <2>2 DEF HandleResponse, WorkerHead, ctrlVars, workerVars
    <3> QED BY <3>1, <1>0, DropStep DEF TypeOK, workerVars
  <2> QED BY <2>1, <2>2
<1>3. CASE ExpireRpc(w)
  <2>1. CASE h.id \in rmap[w]
    BY <1>3, <2>1, RunHandlerStep DEF ExpireRpc, WorkerHead, Outcomes
  <2>2. CASE h.id \notin rmap[w]
    <3>1. /\ wq[w] # <<>> /\ wq' = Pop(wq, w)
          /\ UNCHANGED <<callerVars, ctrlVars, fe, broker, fwd, timers, out,
                         peerVars, inb, workerVars, endVars>>
      BY <1>3, <2>2 DEF ExpireRpc, WorkerHead, ctrlVars, workerVars
    <3> QED BY <3>1, <1>0, DropStep DEF TypeOK, workerVars
  <2> QED BY <2>1, <2>2
<1>4. CASE RunClosure(w)
  <2>1. alive' \in [Workers -> BOOLEAN] /\ ran' \in [Closures -> Nat]
    <3>1. Head(wq[w]) \in WorkerCmd /\ Head(wq[w]).cmd = "closure"
      BY <1>4, WorkerPop DEF RunClosure, WorkerHead
    <3>2. Head(wq[w]).id \in Closures
      BY <3>1 DEF WorkerCmd
    <3>3. UNCHANGED alive /\ ran' = [ran EXCEPT ![Head(wq[w]).id] = @ + 1]
      BY <1>4 DEF RunClosure
    <3> QED BY <1>0, <3>2, <3>3 DEF TypeOK
  <2> QED BY <1>4, <2>1, DropStep DEF RunClosure, WorkerHead
<1>5. CASE QuitWorker(w)
  <2>1. alive' \in [Workers -> BOOLEAN] /\ ran' \in [Closures -> Nat]
    BY <1>5, <1>0 DEF QuitWorker, TypeOK
  <2> QED BY <1>5, <2>1, DropStep DEF QuitWorker, WorkerHead
<1> QED BY <1>1, <1>2, <1>3, <1>4, <1>5 DEF WorkerStep

-----------------------------------------------------------------------------
(* Steps of the remote sides                                               *)

\* A remote side that receives a request changes nothing here.
LEMMA PeerRecvStep ==
    ASSUME IInv, NEW c \in Conns, PeerRecv(c)
    PROVE  IInv'
<1>0. TypeOK /\ IdsFresh /\ NoDangling /\ Honest
  BY DEF IInv
<1>a. /\ out \in [Conns -> Seq(Events)] /\ out[c] # <<>> /\ out' = Pop(out, c)
      /\ arrived' = arrived \cup {Head(out[c])}
      /\ UNCHANGED <<callerVars, ctrlVars, fe, broker, fwd, timers, answered,
                     replies, inb, wq, workerVars, endVars>>
  BY <1>0 DEF TypeOK, PeerRecv
<1>b. /\ out' \in [Conns -> Seq(Events)] /\ Popped(out, out', Conns, c)
      /\ Head(out[c]) \in Events
  BY <1>a, PopFacts
<1>c. owner[Head(out[c])] # "none"
  BY <1>0, <1>b DEF Honest, Popped
<1> USE DEF callerVars, ctrlVars, peerVars, workerVars
<1>1. TypeOK'
  BY <1>0, <1>a, <1>b DEF TypeOK
<1>2. IdsFresh'
  BY <1>0, <1>a DEF IdsFresh
<1>3. NoDangling'
  BY <1>0, <1>a DEF NoDangling, FrontOwned, FwdOwned, StartOwned, MapOwned,
                    InFront, StartAt
<1>4. \A d \in Conns : \A i \in DOMAIN out'[d] : owner'[out'[d][i]] # "none"
  <2> SUFFICES ASSUME NEW d \in Conns, NEW i \in DOMAIN out'[d]
               PROVE  \E j \in DOMAIN out[d] : out'[d][i] = out[d][j]
    BY <1>0, <1>a DEF Honest
  <2>1. CASE d = c
    BY <2>1, <1>b DEF Popped
  <2>2. CASE d # c
    BY <2>2, <1>b DEF Popped
  <2> QED BY <2>1, <2>2
<1>5. Honest'
  BY <1>0, <1>a, <1>c, <1>4 DEF Honest, HonestQueue
<1> QED BY <1>1, <1>2, <1>3, <1>5 DEF IInv

\* A remote side can only send messages about requests that it received.
LEMMA PeerReplyStep ==
    ASSUME IInv, NEW e \in Events, NEW k \in DataKinds, PeerReply(e, k)
    PROVE  IInv'
<1> DEFINE m == [ev |-> e, kind |-> k]
<1>0. TypeOK /\ IdsFresh /\ NoDangling /\ Honest
  BY DEF IInv
<1>a. /\ e \in arrived
      /\ replies \in 0 .. MaxReplies /\ replies < MaxReplies /\ replies' = replies + 1
      /\ answered \in [Events -> SUBSET ReplyKinds]
      /\ answered' = [answered EXCEPT ![e] = @ \cup ({k} \cap ReplyKinds)]
      /\ inb \in [Conns -> Seq(NetMsg)] /\ inb' = Push(inb, conn[e], m)
      /\ UNCHANGED <<callerVars, ctrlVars, fe, broker, fwd, timers, out,
                     arrived, wq, workerVars, endVars>>
  BY <1>0 DEF TypeOK, PeerReply
<1>b. conn[e] \in Conns /\ m \in NetMsg
  BY <1>0, <1>a DEF Honest, IdsFresh, NetMsg
<1> HIDE DEF m
<1>c. inb' \in [Conns -> Seq(NetMsg)] /\ Pushed(inb, inb', Conns, conn[e], m)
  BY <1>a, <1>b, PushFacts
<1>d. /\ answered' \in [Events -> SUBSET ReplyKinds]
      /\ \A f \in Events : answered[f] \subseteq answered'[f]
      /\ k \in ReplyKinds => k \in answered'[e]
  BY <1>a
<1> USE DEF callerVars, ctrlVars, peerVars, workerVars
<1>1. TypeOK'
  <2>1. replies' \in 0 .. MaxReplies
    BY <1>a, BoundsAssumption
  <2> QED BY <1>0, <1>a, <1>c, <1>d, <2>1 DEF TypeOK
<1>2. IdsFresh'
  BY <1>0, <1>a DEF IdsFresh
<1>3. NoDangling'
  BY <1>0, <1>a DEF NoDangling, FrontOwned, FwdOwned, StartOwned, MapOwned,
                    InFront, StartAt
<1>4. HonestQueue'
  <2> SUFFICES ASSUME NEW w \in Workers, NEW i \in DOMAIN wq[w], wq[w][i].cmd = "data",
                      wq[w][i].kind \in ReplyKinds
               PROVE  wq[w][i].kind \in answered'[wq[w][i].id]
    BY <1>0, <1>a DEF Honest, HonestQueue
  <2>1. wq[w][i] \in WorkerCmd
    BY <1>0 DEF TypeOK
  <2>2. wq[w][i].id \in Events
    BY <2>1 DEF WorkerCmd
  <2> QED BY <2>2, <1>0, <1>d DEF Honest, HonestQueue
<1>5. \A d \in Conns : \A i \in DOMAIN inb'[d] :
         inb'[d][i].kind \in ReplyKinds => inb'[d][i].kind \in answered'[inb'[d][i].ev]
  <2> SUFFICES ASSUME NEW d \in Conns, NEW i \in DOMAIN inb'[d],
                      inb'[d][i].kind \in ReplyKinds
               PROVE  inb'[d][i].kind \in answered'[inb'[d][i].ev]
    OBVIOUS
  <2>1. CASE i \in DOMAIN inb[d] /\ inb'[d][i] = inb[d][i]
    <3>1. inb[d][i] \in NetMsg
      BY <2>1, <1>a
    <3>2. inb[d][i].ev \in Events
      BY <3>1 DEF NetMsg
    <3> QED BY <2>1, <3>2, <1>0, <1>d DEF Honest
  <2>2. CASE inb'[d][i] = m
    BY <2>2, <1>d DEF m
  <2> QED BY <2>1, <2>2, <1>c DEF Pushed
<1>6. Honest'
  BY <1>0, <1>a, <1>4, <1>5 DEF Honest
<1> QED BY <1>1, <1>2, <1>3, <1>6 DEF IInv

-----------------------------------------------------------------------------
(* The theorems                                                            *)

\* Every step of the system preserves the invariant.
LEMMA NextIInv == IInv /\ [Next]_vars => IInv'
<1> SUFFICES ASSUME IInv, [Next]_vars PROVE IInv'
  OBVIOUS
<1>1. ASSUME NEW t \in Threads, ThreadStep(t) PROVE IInv'
  BY <1>1, TakeEventIdStep, RequestThrowsStep, SendRequestStep, AddClosureStep,
     JoinThreadsStep, ThreadEndsStep DEF ThreadStep
<1>2. CASE JoinAll
  BY <1>2, JoinAllStep
<1>3. CASE Joined
  BY <1>3, JoinedStep
<1>4. CASE BrokerStep
  BY <1>4, HandleRequestStep, HandleClosureStep, HandleQuitStep, HandleDataStep,
     ForwardRequestStep, HandleTimeoutStep, BrokerExitStep DEF BrokerStep
<1>5. ASSUME NEW w \in Workers, WorkerStep(w) PROVE IInv'
  BY <1>5, WorkerStepStep
<1>6. CASE PeerStep
  BY <1>6, PeerRecvStep, PeerReplyStep DEF PeerStep
<1>7. CASE UNCHANGED vars
  BY <1>7 DEF vars, IInv, TypeOK, IdsFresh, NoDangling, FrontOwned, FwdOwned,
       StartOwned, MapOwned, Honest, HonestQueue, InFront, StartAt
<1>8. CASE TermContext
  BY <1>8, TermContextStep
<1> QED BY <1>1, <1>2, <1>3, <1>4, <1>5, <1>6, <1>7, <1>8 DEF Next, Terminated

\* The inductive invariant of Broker holds in every reachable state, for any
\* number of threads, connections, workers and requests.
THEOREM Invariance == Spec => []IInv
<1>1. Init => IInv
  BY InitIInv
<1>2. IInv /\ [Next]_vars => IInv'
  BY NextIInv
<1> QED BY <1>1, <1>2, PTL DEF Spec

\* Every reachable state is well typed, for any number of threads,
\* connections, workers and requests.
THEOREM TypeCorrect == Spec => []TypeOK
<1>1. IInv => TypeOK
  BY DEF IInv
<1> QED BY <1>1, Invariance, PTL

\* The rpc_controller of connection::request() is held by at most one owner,
\* and by none after its handler has run and it has been deleted.
THEOREM ControllerOwnership == Spec => []NoDangling
<1>1. IInv => NoDangling
  BY DEF IInv
<1> QED BY <1>1, Invariance, PTL

-----------------------------------------------------------------------------
(* What a shutdown loses                                                   *)

\* ~worker() loses the controllers of its map, and no others.
LEMMA JoinedEffect ==
    ASSUME IInv, Joined
    PROVE  /\ owner' \in [Events -> Owners]
           /\ \A e \in Events :
                \/ owner'[e] = owner[e] /\ \A w \in Workers : e \notin rmap[w]
                \/ owner[e] = "worker" /\ owner'[e] = "lost"
BY DEF Joined, IInv, TypeOK, Owners, NoDangling, MapOwned

\* ~reactor() loses the controllers in the frontend pipes, and no others.
LEMMA BrokerExitEffect ==
    ASSUME IInv, BrokerExit
    PROVE  /\ owner' \in [Events -> Owners]
           /\ \A e \in Events :
                \/ /\ owner'[e] = owner[e]
                   /\ \A t \in Threads : \A i \in DOMAIN fe[t] : ~InFront(e, t, i)
                \/ owner[e] = "frontend" /\ owner'[e] = "lost"
           /\ \A t \in Threads : fe'[t] = <<>> /\ DOMAIN fe'[t] = {}
<1>1. \A t \in Threads : fe'[t] = <<>> /\ DOMAIN fe'[t] = {}
  BY DEF BrokerExit
<1>2. /\ owner' \in [Events -> Owners]
      /\ \A e \in Events :
           \/ /\ owner'[e] = owner[e]
              /\ \A t \in Threads : \A i \in DOMAIN fe[t] : ~InFront(e, t, i)
           \/ owner[e] = "frontend" /\ owner'[e] = "lost"
  BY DEF BrokerExit, IInv, TypeOK, Owners, NoDangling, FrontOwned
<1> QED BY <1>1, <1>2

-----------------------------------------------------------------------------
(* Refinement of RpcCall                                                   *)

\* A step that runs no handler, sends no request and no response is not seen.
LEMMA Unseen ==
    ASSUME UNCHANGED <<timed, answered, handled>>, owner \in [Events -> Owners],
           owner' \in [Events -> Owners],
           \A e \in Events : owner[e] = "none" <=> owner'[e] = "none"
    PROVE  UNCHANGED Call!callVars
<1>1. CallStatus' = CallStatus
  BY DEF CallStatus
<1> QED BY <1>1 DEF Call!callVars

\* Sending the request is the abstract Issue.
LEMMA SendRequestRefines ==
    ASSUME IInv, NEW t \in Threads, NEW d \in BOOLEAN, SendRequest(t, d)
    PROVE  Call!CallNext
<1> DEFINE e == caller[t]
<1>1. /\ e \in Events /\ owner[e] = "none" /\ handled[e] = <<>>
      /\ owner \in [Events -> Owners]
  BY DEF IInv, TypeOK, IdsFresh, Honest, SendRequest, RequestMsg
<1>2. /\ owner' = [owner EXCEPT ![e] = "frontend"]
      /\ UNCHANGED <<handled, answered>>
      /\ timed' \in {timed, timed \cup {e}}
  BY DEF SendRequest, RequestMsg, peerVars
<1> HIDE DEF e
<1>3. CallStatus[e] = "idle"
  BY <1>1 DEF CallStatus
<1>4. CallStatus' = [CallStatus EXCEPT ![e] = "pending"]
  BY <1>1, <1>2 DEF CallStatus
<1>5. Call!Issue(e)
  BY <1>2, <1>3, <1>4 DEF Call!Issue
<1> QED BY <1>1, <1>5 DEF Call!CallNext

\* Running a handler is the abstract Complete, or the abstract Expire.
LEMMA RunHandlerRefines ==
    ASSUME IInv, NEW w \in Workers, NEW e \in rmap[w], NEW o \in Outcomes,
           RunHandler(w, e, o), UNCHANGED <<timed, answered>>,
           \/ o \in ReplyKinds /\ o \in answered[e]
           \/ o = "timeout" /\ e \in timed
    PROVE  Call!CallNext
<1>1. /\ e \in Events /\ owner[e] = "worker" /\ handled[e] = <<>>
      /\ owner \in [Events -> Owners] /\ handled \in [Events -> Seq(Outcomes)]
  BY DEF IInv, TypeOK, NoDangling, MapOwned, Honest
<1>2. /\ owner' = [owner EXCEPT ![e] = "deleted"]
      /\ handled' = [handled EXCEPT ![e] = Append(@, o)]
  BY DEF RunHandler
<1>3. CallStatus[e] = "pending"
  BY <1>1 DEF CallStatus
<1>4. handled'[e] = <<o>>
  BY <1>1, <1>2
<1>5. CallStatus' = [CallStatus EXCEPT ![e] = o]
  <2>1. <<o>> # <<>> /\ Len(<<o>>) = 1 /\ <<o>>[1] = o
    OBVIOUS
  <2>2. CallStatus'[e] = o
    BY <1>1, <1>4, <2>1 DEF CallStatus
  <2>3. \A f \in Events : f # e => CallStatus'[f] = CallStatus[f]
    BY <1>1, <1>2 DEF CallStatus
  <2> QED BY <2>2, <2>3, <1>1 DEF CallStatus
<1>6. CASE o \in ReplyKinds /\ o \in answered[e]
  BY <1>1, <1>3, <1>5, <1>6 DEF Call!Complete, Call!CallNext
<1>7. CASE o = "timeout" /\ e \in timed
  BY <1>1, <1>3, <1>5, <1>7 DEF Call!Expire, Call!CallNext
<1> QED BY <1>6, <1>7

\* Each step of a worker is an abstract step or none.
LEMMA WorkerRefines ==
    ASSUME IInv, NEW w \in Workers, WorkerStep(w)
    PROVE  [Call!CallNext]_(Call!callVars)
<1> DEFINE h == Head(wq[w])
<1> USE DEF ctrlVars, peerVars, workerVars
<1>0. owner \in [Events -> Owners]
  BY DEF IInv, TypeOK
<1>a. ASSUME wq[w] # <<>>
      PROVE  /\ h \in WorkerCmd
             /\ h.cmd = "timeout" => h.id \in timed
             /\ h.cmd = "data" /\ h.kind \in ReplyKinds => h.kind \in answered[h.id]
             /\ h.cmd = "start" => h.id \in Events /\ owner[h.id] = "queue"
  <2>1. wq \in [Workers -> Seq(WorkerCmd)]
    BY DEF IInv, TypeOK
  <2>2. h \in WorkerCmd /\ 1 \in DOMAIN wq[w] /\ h = wq[w][1]
    BY <1>a, <2>1, PopFacts DEF Popped
  <2>3. h.cmd = "start" => h.id \in Events /\ StartAt(h.id, w, 1)
    BY <2>2 DEF WorkerCmd, StartAt
  <2> QED BY <2>2, <2>3 DEF IInv, Honest, HonestQueue, NoDangling, StartOwned
<1> HIDE DEF h
<1>1. CASE StartRpc(w)
  <2>1. /\ h.id \in Events /\ owner[h.id] = "queue"
        /\ owner' = [owner EXCEPT ![h.id] = "worker"]
        /\ UNCHANGED <<timed, answered, handled>>
    BY <1>1, <1>a DEF StartRpc, WorkerHead, h
  <2>2. owner' \in [Events -> Owners]
    BY <2>1, <1>0 DEF Owners
  <2> QED BY <1>0, <2>1, <2>2, Unseen
<1>2. CASE HandleResponse(w)
  <2>1. CASE h.kind \in ReplyKinds /\ h.id \in rmap[w]
    <3>1. RunHandler(w, h.id, h.kind) /\ UNCHANGED <<timed, answered>>
      BY <1>2, <2>1 DEF HandleResponse, h
    <3>2. h.kind \in Outcomes /\ h.kind \in answered[h.id]
      BY <1>2, <2>1, <1>a DEF HandleResponse, WorkerHead, Outcomes, h
    <3> QED BY <2>1, <3>1, <3>2, RunHandlerRefines
  <2>2. CASE ~(h.kind \in ReplyKinds /\ h.id \in rmap[w])
    BY <1>0, <1>2, <2>2, Unseen DEF HandleResponse, h
  <2> QED BY <2>1, <2>2
<1>3. CASE ExpireRpc(w)
  <2>1. CASE h.id \in rmap[w]
    <3>1. RunHandler(w, h.id, "timeout") /\ UNCHANGED <<timed, answered>>
      BY <1>3, <2>1 DEF ExpireRpc, h
    <3>2. "timeout" \in Outcomes /\ h.id \in timed
      BY <1>3, <1>a DEF ExpireRpc, WorkerHead, Outcomes, h
    <3> QED BY <2>1, <3>1, <3>2, RunHandlerRefines
  <2>2. CASE h.id \notin rmap[w]
    BY <1>0, <1>3, <2>2, Unseen DEF ExpireRpc, h
  <2> QED BY <2>1, <2>2
<1>4. CASE RunClosure(w) \/ QuitWorker(w)
  BY <1>0, <1>4, Unseen DEF RunClosure, QuitWorker
<1> QED BY <1>1, <1>2, <1>3, <1>4 DEF WorkerStep

\* A readable reply is the abstract Answer, an unreadable one is no step.
LEMMA PeerReplyRefines ==
    ASSUME IInv, NEW e \in Events, NEW k \in DataKinds, PeerReply(e, k)
    PROVE  [Call!CallNext]_(Call!callVars)
<1>1. /\ owner[e] # "none" /\ answered \in [Events -> SUBSET ReplyKinds]
      /\ handled \in [Events -> Seq(Outcomes)] /\ owner \in [Events -> Owners]
  BY DEF IInv, TypeOK, Honest, PeerReply
<1>2. /\ answered' = [answered EXCEPT ![e] = @ \cup ({k} \cap ReplyKinds)]
      /\ UNCHANGED <<handled, owner, timed>>
  BY DEF PeerReply, ctrlVars
<1>3. CallStatus' = CallStatus
  BY <1>2 DEF CallStatus
<1>4. CASE k \in ReplyKinds
  <2>1. CallStatus[e] # "idle"
    <3>1. CASE handled[e] = <<>>
      BY <1>1, <3>1 DEF CallStatus
    <3>2. CASE handled[e] # <<>>
      <4>1. handled[e][Len(handled[e])] \in Outcomes
        BY <1>1, <3>2
      <4> QED BY <3>2, <4>1 DEF CallStatus, Outcomes, ReplyKinds
    <3> QED BY <3>1, <3>2
  <2>2. answered' = [answered EXCEPT ![e] = @ \cup {k}]
    BY <1>1, <1>2, <1>4
  <2>3. Call!Answer(e, k)
    BY <2>1, <2>2, <1>2, <1>3 DEF Call!Answer
  <2> QED BY <1>4, <2>3 DEF Call!CallNext
<1>5. CASE k \notin ReplyKinds
  <2>1. answered' = answered
    BY <1>1, <1>2, <1>5
  <2> QED BY <2>1, <1>2, <1>3 DEF Call!callVars
<1> QED BY <1>4, <1>5

\* The caller sees no step of the broker.
LEMMA BrokerRefines ==
    ASSUME IInv, BrokerStep
    PROVE  UNCHANGED Call!callVars
<1> USE DEF ctrlVars, peerVars
<1>0. owner \in [Events -> Owners]
  BY DEF IInv, TypeOK
<1>1. ASSUME NEW t \in Threads, HandleRequest(t)
      PROVE  UNCHANGED Call!callVars
  <2> DEFINE e == Head(fe[t]).id
  <2>1. fe \in [Threads -> Seq(FrontMsg)] /\ fe[t] # <<>> /\ Head(fe[t]).cmd = "request"
    BY <1>1 DEF IInv, TypeOK, HandleRequest, FrontHead
  <2>2. 1 \in DOMAIN fe[t] /\ Head(fe[t]) = fe[t][1] /\ Head(fe[t]) \in FrontMsg
    BY <2>1, PopFacts DEF Popped
  <2>3. e \in Events /\ InFront(e, t, 1)
    BY <2>1, <2>2 DEF FrontMsg, InFront
  <2>4. owner[e] = "frontend"
    BY <2>2, <2>3 DEF IInv, NoDangling, FrontOwned
  <2>5. owner' = [owner EXCEPT ![e] = "broker"] /\ UNCHANGED <<timed, answered, handled>>
    BY <1>1 DEF HandleRequest
  <2>6. owner' \in [Events -> Owners]
    BY <2>3, <2>5, <1>0 DEF Owners
  <2> HIDE DEF e
  <2> QED BY <1>0, <2>3, <2>4, <2>5, <2>6, Unseen
<1>2. CASE ForwardRequest
  <2>1. fwd \in Events /\ owner[fwd] = "broker"
    BY <1>2 DEF IInv, TypeOK, NoDangling, FwdOwned, ForwardRequest, forward_to, start_rpc
  <2>2. owner' = [owner EXCEPT ![fwd] = "queue"] /\ UNCHANGED <<timed, answered, handled>>
    BY <1>2 DEF ForwardRequest, forward_to, start_rpc
  <2>3. owner' \in [Events -> Owners]
    BY <2>1, <2>2, <1>0 DEF Owners
  <2> QED BY <1>0, <2>1, <2>2, <2>3, Unseen
<1>3. ASSUME NEW t \in Threads, HandleClosure(t) \/ HandleQuit(t)
      PROVE  UNCHANGED Call!callVars
  BY <1>0, <1>3, Unseen DEF HandleClosure, HandleQuit
<1>4. ASSUME NEW c \in Conns, HandleData(c)
      PROVE  UNCHANGED Call!callVars
  BY <1>0, <1>4, Unseen DEF HandleData
<1>5. ASSUME NEW tm \in timers, HandleTimeout(tm)
      PROVE  UNCHANGED Call!callVars
  BY <1>0, <1>5, Unseen DEF HandleTimeout
<1>6. CASE BrokerExit
  <2>1. /\ owner' \in [Events -> Owners]
        /\ \A e \in Events : owner'[e] = "none" <=> owner[e] = "none"
    BY <1>6, BrokerExitEffect
  <2>2. UNCHANGED <<timed, answered, handled>>
    BY <1>6 DEF BrokerExit
  <2> QED BY <1>0, <2>1, <2>2, Unseen
<1> QED BY <1>1, <1>2, <1>3, <1>4, <1>5, <1>6 DEF BrokerStep

\* Every step of the system is an abstract step or none.
LEMMA NextRefines == IInv /\ [Next]_vars => [Call!CallNext]_(Call!callVars)
<1> SUFFICES ASSUME IInv, [Next]_vars PROVE [Call!CallNext]_(Call!callVars)
  OBVIOUS
<1> USE DEF ctrlVars, peerVars
<1>0. owner \in [Events -> Owners]
  BY DEF IInv, TypeOK
<1>1. ASSUME NEW t \in Threads, ThreadStep(t) PROVE [Call!CallNext]_(Call!callVars)
  <2>1. ASSUME NEW d \in BOOLEAN, SendRequest(t, d) PROVE Call!CallNext
    BY <2>1, SendRequestRefines
  <2>2. ASSUME NEW c \in Conns, TakeEventId(t, c) PROVE UNCHANGED Call!callVars
    BY <1>0, <2>2, Unseen DEF TakeEventId
  <2>3. CASE RequestThrows(t) \/ AddClosure(t) \/ ThreadEnds(t) \/ JoinThreads(t)
    BY <1>0, <2>3, Unseen DEF RequestThrows, AddClosure, ThreadEnds, JoinThreads
  <2> QED BY <1>1, <2>1, <2>2, <2>3 DEF ThreadStep
<1>2. CASE JoinAll \/ TermContext
  BY <1>0, <1>2, Unseen DEF JoinAll, TermContext
<1>7. CASE Joined
  <2>1. /\ owner' \in [Events -> Owners]
        /\ \A e \in Events : owner'[e] = "none" <=> owner[e] = "none"
    BY <1>7, JoinedEffect
  <2>2. UNCHANGED <<timed, answered, handled>>
    BY <1>7 DEF Joined
  <2> QED BY <1>0, <2>1, <2>2, Unseen
<1>3. CASE BrokerStep
  BY <1>3, BrokerRefines
<1>4. ASSUME NEW w \in Workers, WorkerStep(w) PROVE [Call!CallNext]_(Call!callVars)
  BY <1>4, WorkerRefines
<1>5. CASE PeerStep
  <2>1. ASSUME NEW c \in Conns, PeerRecv(c) PROVE UNCHANGED Call!callVars
    BY <1>0, <2>1, Unseen DEF PeerRecv
  <2> QED BY <1>5, <2>1, PeerReplyRefines DEF PeerStep
<1>6. CASE UNCHANGED vars
  BY <1>0, <1>6, Unseen DEF vars
<1> QED BY <1>1, <1>2, <1>3, <1>4, <1>5, <1>6, <1>7 DEF Next, Terminated

\* The broker, the workers and the queues between them implement the promise
\* of connection::request(): its handler runs at most once, and reports what
\* happened.
THEOREM Refinement == Spec => RefinesRpcCall
<1>1. Init => Call!CallInit
  BY DEF Init, Call!CallInit, CallStatus
<1>2. IInv /\ [Next]_vars => [Call!CallNext]_(Call!callVars)
  BY NextRefines
<1> QED BY <1>1, <1>2, Invariance, PTL DEF Spec, RefinesRpcCall, Call!CallSpec

-----------------------------------------------------------------------------
(* The order of commands: an inductive invariant on top of IInv            *)

\* The phase of ~manager() and the state of the broker thread agree, and a
\* worker has a quit command, or has met one, only when the broker is gone.
Shutdown ==
    /\ broker # "loop" => fwd = 0
    /\ phase \in {"join_workers", "term_context", "done"} => broker = "stopped"
    /\ \A w \in Workers :
         \/ phase \in {"join_workers", "term_context", "done"}
         \/ alive[w] /\ \A i \in DOMAIN wq[w] : wq[w][i].cmd # "quit"

\* The broker has given the controller of e to a worker, which may have lost it.
Handed == {"queue", "worker", "deleted", "lost"}

HandedOver(e) == owner[e] \in Handed

\* What can end an rpc is under way only on the connection of the rpc, and
\* not before the broker has given the controller away, except that the
\* timer is registered first.
EndsLater ==
    /\ \A tm \in timers :
         /\ HandedOver(tm.ev) \/ owner[tm.ev] = "broker"
         /\ tm.worker = get_worker_index(conn[tm.ev])
    /\ \A c \in Conns : \A i \in DOMAIN out[c] : HandedOver(out[c][i])
    /\ \A e \in arrived : HandedOver(e)
    /\ \A c \in Conns : \A i \in DOMAIN inb[c] :
         HandedOver(inb[c][i].ev) /\ conn[inb[c][i].ev] = c

\* Closure k is the i-th message of queue l of the queues q.
ClosureAt(q, k, l, i) ==
    i \in DOMAIN q[l] /\ q[l][i].cmd = "closure" /\ q[l][i].id = k

ClosureIn(q, K, k) == \E l \in K : \E i \in DOMAIN q[l] : ClosureAt(q, k, l, i)

ClosureInOnce(q, K, k) ==
    \A l, n \in K : \A i \in DOMAIN q[l], j \in DOMAIN q[n] :
        ClosureAt(q, k, l, i) /\ ClosureAt(q, k, n, j) => l = n /\ i = j

\* A closure whose number has been given out is in one place of one pipe or
\* queue, and has not run, or is in none, and has run once or been dropped.
ClosurePlace(k) ==
    /\ ClosureInOnce(fe, Threads, k) /\ ClosureInOnce(wq, Workers, k)
    /\ ~(ClosureIn(fe, Threads, k) /\ ClosureIn(wq, Workers, k))
    /\ ClosureIn(fe, Threads, k) \/ ClosureIn(wq, Workers, k)
         <=> k < next_closure /\ ran[k] = 0 /\ k \notin dropped
    /\ k >= next_closure => ran[k] = 0 /\ k \notin dropped
    /\ ran[k] <= 1
    /\ k \in dropped => ran[k] = 0 /\ broker = "stopped"

ClosureOwned == \A k \in Closures : ClosurePlace(k)

\* One thread destroys the manager, nobody is inside request() by then, and
\* kQuit is the last message of that thread's pipe until the broker has read it.
QuitOrder ==
    /\ phase = "running" => broker = "loop" /\ \A t \in Threads : sock[t] # "destroyer"
    /\ phase # "running" => \A t \in Threads : caller[t] = 0
    /\ \A t, u \in Threads : sock[t] = "destroyer" /\ sock[u] = "destroyer" => t = u
    /\ \A t \in Threads : \A i \in DOMAIN fe[t] : fe[t][i].cmd = "quit" =>
         /\ sock[t] = "destroyer" /\ broker = "loop"
         /\ \A j \in DOMAIN fe[t] : j <= i
    /\ DestroyerServed

OInv == /\ IInv /\ Shutdown /\ NothingAfterQuit /\ NoLeak /\ EndsLater
        /\ StartFirst /\ ClosureOwned /\ QuitOrder

-----------------------------------------------------------------------------
(* What each step does to the queues and to ownership                      *)

\* connection::request() puts a controller that nobody had in the pipe.
LEMMA SendRequestEffect ==
    ASSUME IInv, NEW t \in Threads, NEW d \in BOOLEAN, SendRequest(t, d)
    PROVE  /\ caller[t] \in Events /\ owner[caller[t]] = "none"
           /\ Pushed(fe, fe', Threads, t, RequestMsg(caller[t]))
           /\ owner' = [owner EXCEPT ![caller[t]] = "frontend"]
<1>1. /\ caller[t] \in Events /\ owner[caller[t]] = "none"
      /\ fe \in [Threads -> Seq(FrontMsg)]
  BY DEF IInv, TypeOK, IdsFresh, SendRequest
<1>2. RequestMsg(caller[t]) \in FrontMsg
  BY <1>1 DEF RequestMsg, FrontMsg
<1>3. Pushed(fe, fe', Threads, t, RequestMsg(caller[t]))
  BY <1>1, <1>2, PushFacts DEF SendRequest
<1> QED BY <1>1, <1>3 DEF SendRequest

\* manager::add() puts a closure with a new number in the pipe.
LEMMA AddClosureEffect ==
    ASSUME IInv, NEW t \in Threads, AddClosure(t)
    PROVE  Pushed(fe, fe', Threads, t, [cmd |-> "closure", id |-> next_closure])
<1>1. /\ fe \in [Threads -> Seq(FrontMsg)]
      /\ [cmd |-> "closure", id |-> next_closure] \in FrontMsg
  BY DEF IInv, TypeOK, AddClosure, FrontMsg
<1> QED BY <1>1, PushFacts DEF AddClosure

\* join_threads() puts kQuit in the pipe.
LEMMA JoinThreadsEffect ==
    ASSUME IInv, NEW t \in Threads, JoinThreads(t)
    PROVE  Pushed(fe, fe', Threads, t, [cmd |-> "quit", id |-> 0])
<1>1. fe \in [Threads -> Seq(FrontMsg)] /\ [cmd |-> "quit", id |-> 0] \in FrontMsg
  BY DEF IInv, TypeOK, FrontMsg
<1> QED BY <1>1, PushFacts DEF JoinThreads

\* The broker pops the first message of a pipe.
LEMMA FrontEffect ==
    ASSUME IInv, NEW t \in Threads, fe[t] # <<>>, fe' = Pop(fe, t)
    PROVE  /\ Popped(fe, fe', Threads, t)
           /\ fe[t][1] = Head(fe[t]) /\ fe[t][1] \in FrontMsg
<1>1. fe \in [Threads -> Seq(FrontMsg)]
  BY DEF IInv, TypeOK
<1>2. Popped(fe, fe', Threads, t) /\ Head(fe[t]) \in FrontMsg
  BY <1>1, PopFacts
<1> QED BY <1>2 DEF Popped

\* send_request() takes the controller of the first message.
LEMMA HandleRequestEffect ==
    ASSUME IInv, NEW t \in Threads, HandleRequest(t)
    PROVE  /\ Popped(fe, fe', Threads, t)
           /\ fwd = 0 /\ broker = "loop" /\ fwd' = fe[t][1].id
           /\ fwd' \in Events /\ InFront(fwd', t, 1) /\ owner[fwd'] = "frontend"
           /\ owner' = [owner EXCEPT ![fwd'] = "broker"]
           /\ timers' \subseteq
                timers \cup {[ev |-> fwd', worker |-> get_worker_index(conn[fwd'])]}
<1>1. /\ Popped(fe, fe', Threads, t) /\ fe[t][1] = Head(fe[t])
      /\ fe[t][1] \in FrontMsg /\ fe[t][1].cmd = "request"
  BY FrontEffect DEF HandleRequest, FrontHead
<1>2. fwd = 0 /\ broker = "loop" /\ fwd' = fe[t][1].id
  BY <1>1 DEF HandleRequest, FrontHead, Polling
<1>3. fwd' \in Events /\ 1 \in DOMAIN fe[t] /\ InFront(fwd', t, 1)
  BY <1>1, <1>2 DEF FrontMsg, InFront, Popped
<1>4. owner[fwd'] = "frontend"
  BY <1>3 DEF IInv, NoDangling, FrontOwned
<1>5. /\ owner' = [owner EXCEPT ![fwd'] = "broker"]
      /\ timers' \subseteq
           timers \cup {[ev |-> fwd', worker |-> get_worker_index(conn[fwd'])]}
  BY <1>1, <1>2 DEF HandleRequest
<1> QED BY <1>1, <1>2, <1>3, <1>4, <1>5

\* start_rpc() queues the controller for the worker of its connection.
LEMMA ForwardRequestEffect ==
    ASSUME IInv, ForwardRequest
    PROVE  /\ fwd \in Events /\ owner[fwd] = "broker" /\ conn[fwd] \in Conns
           /\ get_worker_index(conn[fwd]) \in Workers
           /\ Pushed(wq, wq', Workers, get_worker_index(conn[fwd]),
                     Cmd("start", fwd, "none"))
           /\ owner' = [owner EXCEPT ![fwd] = "queue"]
           /\ Pushed(out, out', Conns, conn[fwd], fwd) \/ out' = out
<1>1. fwd \in Events /\ owner[fwd] = "broker"
  BY DEF IInv, TypeOK, NoDangling, FwdOwned, ForwardRequest
<1>2. conn[fwd] \in Conns /\ get_worker_index(conn[fwd]) \in Workers
  BY <1>1, ConnWorker DEF IInv, IdsFresh
<1>3. Cmd("start", fwd, "none") \in WorkerCmd
  BY <1>1 DEF WorkerCmd, Cmd
<1>4. wq \in [Workers -> Seq(WorkerCmd)] /\ out \in [Conns -> Seq(Events)]
  BY DEF IInv, TypeOK
<1>5. Pushed(wq, wq', Workers, get_worker_index(conn[fwd]), Cmd("start", fwd, "none"))
  BY <1>2, <1>3, <1>4, PushFacts DEF ForwardRequest, start_rpc
<1>6. Pushed(out, out', Conns, conn[fwd], fwd) \/ out' = out
  <2>1. Pushed(out, Push(out, conn[fwd], fwd), Conns, conn[fwd], fwd)
    BY <1>1, <1>2, <1>4, PushFacts
  <2> QED BY <2>1 DEF ForwardRequest, forward_to
<1> QED BY <1>1, <1>2, <1>5, <1>6 DEF ForwardRequest, start_rpc

\* add_closure() moves a closure from a pipe to the queue of some worker.
LEMMA HandleClosureEffect ==
    ASSUME IInv, NEW t \in Threads, HandleClosure(t)
    PROVE  /\ Popped(fe, fe', Threads, t) /\ broker = "loop"
           /\ fe[t][1].cmd = "closure" /\ fe[t][1].id \in Closures
           /\ \E w \in Workers :
                Pushed(wq, wq', Workers, w, Cmd("closure", fe[t][1].id, "none"))
<1>1. /\ Popped(fe, fe', Threads, t) /\ fe[t][1] = Head(fe[t])
      /\ fe[t][1] \in FrontMsg /\ fe[t][1].cmd = "closure" /\ broker = "loop"
  BY FrontEffect DEF HandleClosure, FrontHead, Polling
<1>2. fe[t][1].id \in Closures
  BY <1>1 DEF FrontMsg
<1>3. Cmd("closure", fe[t][1].id, "none") \in WorkerCmd
  BY <1>2 DEF WorkerCmd, Cmd
<1>4. PICK w \in Workers : wq' = Push(wq, w, Cmd("closure", fe[t][1].id, "none"))
  BY <1>1 DEF HandleClosure
<1>5. wq \in [Workers -> Seq(WorkerCmd)]
  BY DEF IInv, TypeOK
<1>6. Pushed(wq, wq', Workers, w, Cmd("closure", fe[t][1].id, "none"))
  BY <1>3, <1>4, <1>5, PushFacts
<1> QED BY <1>1, <1>2, <1>6

\* handle_socket() moves a message to the queue of the connection's worker.
LEMMA HandleDataEffect ==
    ASSUME IInv, NEW c \in Conns, HandleData(c)
    PROVE  /\ Popped(inb, inb', Conns, c)
           /\ get_worker_index(c) \in Workers /\ inb[c][1].ev \in Events
           /\ \/ wq' = wq
              \/ Pushed(wq, wq', Workers, get_worker_index(c),
                        Cmd("data", inb[c][1].ev, inb[c][1].kind))
<1>1. inb \in [Conns -> Seq(NetMsg)] /\ wq \in [Workers -> Seq(WorkerCmd)]
  BY DEF IInv, TypeOK
<1>2. /\ Popped(inb, inb', Conns, c) /\ inb[c][1] \in NetMsg
      /\ Head(inb[c]) = inb[c][1]
  <2>1. inb[c] # <<>> /\ inb' = Pop(inb, c)
    BY DEF HandleData
  <2>2. Popped(inb, inb', Conns, c) /\ Head(inb[c]) \in NetMsg
    BY <1>1, <2>1, PopFacts
  <2> QED BY <2>2 DEF Popped
<1>3. get_worker_index(c) \in Workers /\ inb[c][1].ev \in Events
  BY <1>2, ConnWorker DEF NetMsg
<1> DEFINE m == Cmd("data", inb[c][1].ev, inb[c][1].kind)
<1>4. m \in WorkerCmd
  BY <1>2 DEF NetMsg, WorkerCmd, Cmd
<1>5. wq' = wq \/ wq' = Push(wq, get_worker_index(c), m)
  BY <1>2 DEF HandleData
<1> HIDE DEF m
<1>6. wq' = wq \/ Pushed(wq, wq', Workers, get_worker_index(c), m)
  <2>1. Pushed(wq, Push(wq, get_worker_index(c), m), Workers, get_worker_index(c), m)
    BY <1>1, <1>3, <1>4, PushFacts
  <2> QED BY <1>5, <2>1
<1> QED BY <1>2, <1>3, <1>6 DEF m

\* An expired timer becomes a command for the worker that it names.
LEMMA HandleTimeoutEffect ==
    ASSUME IInv, NEW tm \in timers, HandleTimeout(tm)
    PROVE  /\ tm.ev \in Events /\ tm.worker \in Workers
           /\ Pushed(wq, wq', Workers, tm.worker, Cmd("timeout", tm.ev, "none"))
<1>1. tm \in Timers /\ wq \in [Workers -> Seq(WorkerCmd)]
  BY DEF IInv, TypeOK
<1>2. tm.ev \in Events /\ tm.worker \in Workers
  BY <1>1 DEF Timers
<1>3. tm.worker % WorkerCount = tm.worker
  BY <1>2, WorkersAssumption DEF Workers
<1>4. Cmd("timeout", tm.ev, "none") \in WorkerCmd
  BY <1>2 DEF WorkerCmd, Cmd
<1>5. Pushed(wq, wq', Workers, tm.worker, Cmd("timeout", tm.ev, "none"))
  BY <1>1, <1>2, <1>3, <1>4, PushFacts DEF HandleTimeout
<1> QED BY <1>2, <1>5

\* A step of a worker, by the command h that it pops.
PopsStart(w, h) ==
    /\ h.cmd = "start" /\ h.id \in Events
    /\ rmap' = [rmap EXCEPT ![w] = @ \cup {h.id}]
    /\ owner' = [owner EXCEPT ![h.id] = "worker"]
    /\ UNCHANGED <<alive, ran>>

PopsEnd(w, h) ==
    /\ h.cmd \in {"data", "timeout"} /\ h.id \in rmap[w]
    /\ rmap' = [rmap EXCEPT ![w] = @ \ {h.id}]
    /\ owner' = [owner EXCEPT ![h.id] = "deleted"]
    /\ UNCHANGED <<alive, ran>>

PopsIgnored(h) ==
    /\ h.cmd \in {"data", "timeout"}
    /\ UNCHANGED <<rmap, owner, alive, ran>>

PopsClosure(h) ==
    /\ h.cmd = "closure" /\ h.id \in Closures
    /\ ran' = [ran EXCEPT ![h.id] = @ + 1]
    /\ UNCHANGED <<rmap, owner, alive>>

PopsQuit(w, h) ==
    /\ h.cmd = "quit"
    /\ alive' = [alive EXCEPT ![w] = FALSE]
    /\ UNCHANGED <<rmap, owner, ran>>

\* A worker pops one command and handles it in one of five ways.
LEMMA WorkerEffect ==
    ASSUME IInv, NEW w \in Workers, WorkerStep(w)
    PROVE  /\ Popped(wq, wq', Workers, w) /\ alive[w] /\ wq[w][1] \in WorkerCmd
           /\ \/ PopsStart(w, wq[w][1]) \/ PopsEnd(w, wq[w][1])
              \/ PopsIgnored(wq[w][1]) \/ PopsClosure(wq[w][1])
              \/ PopsQuit(w, wq[w][1])
           /\ UNCHANGED <<callerVars, conn, timed, fe, broker, fwd, timers, out,
                          peerVars, inb, phase, sock, dropped>>
<1> DEFINE h == wq[w][1]
<1>1. /\ wq[w] # <<>> /\ wq' = Pop(wq, w) /\ alive[w]
      /\ UNCHANGED <<callerVars, conn, timed, fe, broker, fwd, timers, out,
                     peerVars, inb, phase, sock, dropped>>
  BY DEF WorkerStep, StartRpc, HandleResponse, ExpireRpc, RunClosure, QuitWorker,
         WorkerHead, ctrlVars
<1>2. Popped(wq, wq', Workers, w) /\ h \in WorkerCmd /\ Head(wq[w]) = h
  BY <1>1, WorkerPop DEF Popped
<1> HIDE DEF h
<1>3. CASE StartRpc(w)
  <2>1. h.cmd = "start" /\ h.id \in Events
    BY <1>2, <1>3 DEF StartRpc, WorkerHead, WorkerCmd
  <2>2. PopsStart(w, h)
    BY <1>2, <1>3, <2>1 DEF StartRpc, PopsStart
  <2> QED BY <1>1, <1>2, <2>2 DEF h
<1>4. CASE HandleResponse(w)
  <2>1. PopsEnd(w, h) \/ PopsIgnored(h)
    BY <1>2, <1>4 DEF HandleResponse, WorkerHead, RunHandler, PopsEnd, PopsIgnored
  <2> QED BY <1>1, <1>2, <2>1 DEF h
<1>5. CASE ExpireRpc(w)
  <2>1. PopsEnd(w, h) \/ PopsIgnored(h)
    BY <1>2, <1>5 DEF ExpireRpc, WorkerHead, RunHandler, PopsEnd, PopsIgnored
  <2> QED BY <1>1, <1>2, <2>1 DEF h
<1>6. CASE RunClosure(w)
  <2>1. h.cmd = "closure" /\ h.id \in Closures
    BY <1>2, <1>6 DEF RunClosure, WorkerHead, WorkerCmd
  <2>2. PopsClosure(h)
    BY <1>2, <1>6, <2>1 DEF RunClosure, PopsClosure, ctrlVars
  <2> QED BY <1>1, <1>2, <2>2 DEF h
<1>7. CASE QuitWorker(w)
  <2>1. PopsQuit(w, h)
    BY <1>2, <1>7 DEF QuitWorker, WorkerHead, PopsQuit, ctrlVars
  <2> QED BY <1>1, <1>2, <2>1 DEF h
<1> QED BY <1>3, <1>4, <1>5, <1>6, <1>7 DEF WorkerStep

\* join_all() adds a quit command at the end of every queue.
LEMMA JoinAllEffect ==
    ASSUME IInv, JoinAll, NEW w \in Workers
    PROVE  /\ wq[w] \in Seq(WorkerCmd) /\ Len(wq[w]) \in Nat
           /\ DOMAIN wq[w] = 1 .. Len(wq[w])
           /\ DOMAIN wq'[w] = 1 .. Len(wq[w]) + 1 /\ Len(wq'[w]) = Len(wq[w]) + 1
           /\ wq'[w][Len(wq[w]) + 1].cmd = "quit"
           /\ \A i \in DOMAIN wq[w] : i \in DOMAIN wq'[w] /\ wq'[w][i] = wq[w][i]
           /\ \A i \in DOMAIN wq'[w] :
                \/ i \in DOMAIN wq[w] /\ wq'[w][i] = wq[w][i]
                \/ i = Len(wq[w]) + 1
<1>1. wq[w] \in Seq(WorkerCmd) /\ wq'[w] = Append(wq[w], Cmd("quit", 0, "none"))
  BY DEF IInv, TypeOK, JoinAll
<1>2. Cmd("quit", 0, "none").cmd = "quit"
  BY DEF Cmd
<1> HIDE DEF Cmd
<1> QED BY <1>1, <1>2

\* A remote side receives the first message of a connection's pipe.
LEMMA PeerRecvEffect ==
    ASSUME IInv, NEW c \in Conns, PeerRecv(c)
    PROVE  /\ Popped(out, out', Conns, c) /\ out[c][1] \in Events
           /\ arrived' = arrived \cup {out[c][1]}
<1>1. out \in [Conns -> Seq(Events)] /\ out[c] # <<>> /\ out' = Pop(out, c)
  BY DEF IInv, TypeOK, PeerRecv
<1>2. Popped(out, out', Conns, c) /\ Head(out[c]) \in Events
  BY <1>1, PopFacts
<1> QED BY <1>2 DEF Popped, PeerRecv

\* A message of a remote side comes on the connection of the request.
LEMMA PeerReplyEffect ==
    ASSUME IInv, NEW e \in Events, NEW k \in DataKinds, PeerReply(e, k)
    PROVE  /\ e \in arrived /\ conn[e] \in Conns
           /\ Pushed(inb, inb', Conns, conn[e], [ev |-> e, kind |-> k])
<1>1. inb \in [Conns -> Seq(NetMsg)] /\ e \in arrived
  BY DEF IInv, TypeOK, PeerReply
<1>2. conn[e] \in Conns
  BY <1>1 DEF IInv, Honest, IdsFresh
<1>3. [ev |-> e, kind |-> k] \in NetMsg
  BY DEF NetMsg
<1> QED BY <1>1, <1>2, <1>3, PushFacts DEF PeerReply

-----------------------------------------------------------------------------
(* Shutdown                                                                *)

\* A command that the broker queues finds no quit command before it.
LEMMA QuitPush ==
    ASSUME Shutdown, phase \notin {"join_workers", "term_context", "done"},
           NEW w \in Workers, NEW m, m.cmd # "quit",
           Pushed(wq, wq', Workers, w, m), UNCHANGED <<alive, phase, broker, fwd>>
    PROVE  Shutdown' /\ NothingAfterQuit'
<1>1. \A v \in Workers : alive'[v] /\ \A i \in DOMAIN wq'[v] : wq'[v][i].cmd # "quit"
  BY DEF Shutdown, Pushed
<1> QED BY <1>1 DEF Shutdown, NothingAfterQuit

\* A worker that pops a quit command leaves an empty queue.
LEMMA QuitPop ==
    ASSUME IInv, IInv', Shutdown, NothingAfterQuit, NEW w \in Workers, WorkerStep(w)
    PROVE  Shutdown' /\ NothingAfterQuit'
<1> DEFINE h == wq[w][1]
<1>1. /\ Popped(wq, wq', Workers, w) /\ alive[w] /\ UNCHANGED <<broker, fwd, phase, sock, dropped>>
      /\ \/ h.cmd # "quit" /\ alive' = alive
         \/ h.cmd = "quit" /\ alive' = [alive EXCEPT ![w] = FALSE]
  BY WorkerEffect DEF PopsStart, PopsEnd, PopsIgnored, PopsClosure, PopsQuit
<1>2. /\ wq \in [Workers -> Seq(WorkerCmd)] /\ wq' \in [Workers -> Seq(WorkerCmd)]
      /\ alive \in [Workers -> BOOLEAN]
  BY DEF IInv, TypeOK
<1>3. /\ Len(wq[w]) \in Nat /\ DOMAIN wq[w] = 1 .. Len(wq[w]) /\ Len(wq[w]) > 0
      /\ Len(wq'[w]) \in Nat /\ DOMAIN wq'[w] = 1 .. Len(wq'[w])
  BY <1>1, <1>2 DEF Popped
<1>4. Len(wq'[w]) = Len(wq[w]) - 1
  <2>1. Len(wq[w]) \in DOMAIN wq[w]
    BY <1>3
  <2>2. Len(wq[w]) # 1 => Len(wq[w]) - 1 \in DOMAIN wq'[w]
    BY <1>1, <2>1 DEF Popped
  <2>3. Len(wq'[w]) # 0 => Len(wq'[w]) \in DOMAIN wq'[w]
    BY <1>3
  <2>4. Len(wq'[w]) # 0 => Len(wq'[w]) + 1 \in DOMAIN wq[w]
    BY <1>1, <2>3 DEF Popped
  <2>5. Len(wq[w]) # 1 => Len(wq[w]) - 1 <= Len(wq'[w])
    BY <1>3, <2>2
  <2>6. Len(wq'[w]) # 0 => Len(wq'[w]) + 1 <= Len(wq[w])
    BY <1>3, <2>4
  <2> DEFINE m == Len(wq[w])
             n == Len(wq'[w])
  <2>7. m \in Nat /\ n \in Nat /\ m > 0 /\ (m # 1 => m - 1 <= n) /\ (n # 0 => n + 1 <= m)
    BY <2>5, <2>6, <1>3
  <2> HIDE DEF m, n
  <2>8. n = m - 1
    BY <2>7
  <2> QED BY <2>8 DEF m, n
<1>5. ASSUME h.cmd = "quit" PROVE wq'[w] = <<>>
  <2>1. Len(wq[w]) = 1
    BY <1>1, <1>5 DEF NothingAfterQuit, Popped
  <2> QED BY <2>1, <1>2, <1>4
<1>6. ASSUME NEW i \in DOMAIN wq'[w], wq'[w][i].cmd = "quit"
      PROVE  i = Len(wq'[w]) /\ phase \in {"join_workers", "term_context", "done"}
  <2>1. i + 1 \in DOMAIN wq[w] /\ wq[w][i + 1].cmd = "quit" /\ i \in Nat
    BY <1>1, <1>6 DEF Popped
  <2>2. i + 1 = Len(wq[w])
    BY <2>1 DEF NothingAfterQuit
  <2> QED BY <2>1, <2>2, <1>4, <1>3 DEF Shutdown
<1>7. \A v \in Workers : v # w => wq'[v] = wq[v] /\ alive'[v] = alive[v]
  BY <1>1, <1>2 DEF Popped
<1>8. h.cmd = "quit" => phase \in {"join_workers", "term_context", "done"}
  BY <1>1 DEF Shutdown, Popped
<1>9. alive'[w] \/ h.cmd = "quit"
  BY <1>1, <1>2
<1>10. NothingAfterQuit'
  BY <1>5, <1>6, <1>7, <1>9 DEF NothingAfterQuit
<1>11. Shutdown'
  BY <1>1, <1>6, <1>7, <1>8, <1>9 DEF Shutdown
<1> QED BY <1>10, <1>11

\* Every step keeps the order of a shutdown.
LEMMA NextShutdown ==
    ASSUME IInv, IInv', Shutdown, NothingAfterQuit, [Next]_vars
    PROVE  Shutdown' /\ NothingAfterQuit'
<1> USE DEF callerVars, ctrlVars, peerVars, workerVars
<1>0. phase \in {"running", "join_broker", "join_workers", "term_context", "done"}
  BY DEF IInv, TypeOK
<1>1. ASSUME NEW t \in Threads, ThreadStep(t) PROVE Shutdown' /\ NothingAfterQuit'
  <2>1. CASE JoinThreads(t)
    <3>1. phase = "running" /\ phase' = "join_broker" /\ UNCHANGED <<broker, fwd, wq, alive>>
      BY <2>1 DEF JoinThreads
    <3> QED BY <3>1 DEF Shutdown, NothingAfterQuit
  <2>2. CASE ~JoinThreads(t)
    <3>1. UNCHANGED <<broker, fwd, phase, wq, alive>>
      BY <1>1, <2>2 DEF ThreadStep, TakeEventId, RequestThrows, SendRequest, AddClosure,
                            ThreadEnds
    <3> QED BY <3>1 DEF Shutdown, NothingAfterQuit
  <2> QED BY <2>1, <2>2
<1>2. CASE JoinAll
  <2>1. /\ phase = "join_broker" /\ phase' = "join_workers" /\ broker = "stopped"
        /\ UNCHANGED <<broker, fwd, alive>>
    BY <1>2 DEF JoinAll
  <2>2. \A w \in Workers : alive[w] /\ \A i \in DOMAIN wq[w] : wq[w][i].cmd # "quit"
    BY <2>1 DEF Shutdown
  <2>3. \A w \in Workers : \A i \in DOMAIN wq'[w] :
           wq'[w][i].cmd = "quit" => i = Len(wq'[w])
    BY <1>2, <2>2, JoinAllEffect
  <2> QED BY <2>1, <2>2, <2>3 DEF Shutdown, NothingAfterQuit
<1>3. CASE Joined \/ TermContext
  BY <1>3 DEF Joined, TermContext, Shutdown, NothingAfterQuit
<1>4. CASE BrokerStep
  <2>1. ASSUME NEW t \in Threads, HandleRequest(t)
        PROVE  Shutdown' /\ NothingAfterQuit'
    BY <2>1, HandleRequestEffect DEF HandleRequest, Shutdown, NothingAfterQuit
  <2>2. ASSUME NEW t \in Threads, HandleClosure(t)
        PROVE  Shutdown' /\ NothingAfterQuit'
    <3>1. PICK w \in Workers :
             Pushed(wq, wq', Workers, w, Cmd("closure", fe[t][1].id, "none"))
      BY <2>2, HandleClosureEffect
    <3>2. /\ broker = "loop" /\ UNCHANGED <<alive, phase, broker, fwd>>
          /\ Cmd("closure", fe[t][1].id, "none").cmd # "quit"
      BY <2>2, HandleClosureEffect DEF HandleClosure, Cmd
    <3>3. phase \notin {"join_workers", "term_context", "done"}
      BY <3>2 DEF Shutdown
    <3> QED BY <3>1, <3>2, <3>3, QuitPush
  <2>3. ASSUME NEW t \in Threads, HandleQuit(t)
        PROVE  Shutdown' /\ NothingAfterQuit'
    <3>1. broker = "loop" /\ fwd = 0 /\ UNCHANGED <<alive, phase, fwd, wq>>
      BY <2>3 DEF HandleQuit, FrontHead, Polling
    <3>2. phase \notin {"join_workers", "term_context", "done"}
      BY <3>1 DEF Shutdown
    <3> QED BY <3>1, <3>2 DEF Shutdown, NothingAfterQuit
  <2>4. CASE ForwardRequest
    <3>1. /\ fwd # 0 /\ broker = "loop" /\ broker' = broker /\ fwd' = 0
          /\ UNCHANGED <<alive, phase, sock, dropped>>
      BY <2>4 DEF ForwardRequest, Shutdown
    <3>2. phase \notin {"join_workers", "term_context", "done"}
      BY <3>1 DEF Shutdown
    <3>3. \A v \in Workers : alive'[v] /\ \A i \in DOMAIN wq'[v] : wq'[v][i].cmd # "quit"
      <4>1. Cmd("start", fwd, "none").cmd # "quit"
        BY DEF Cmd
      <4>2. Pushed(wq, wq', Workers, get_worker_index(conn[fwd]), Cmd("start", fwd, "none"))
        BY <2>4, ForwardRequestEffect
      <4> QED BY <4>1, <4>2, <3>1, <3>2 DEF Pushed, Shutdown
    <3> QED BY <3>1, <3>2, <3>3 DEF Shutdown, NothingAfterQuit
  <2>5. ASSUME NEW c \in Conns, HandleData(c)
        PROVE  Shutdown' /\ NothingAfterQuit'
    <3> DEFINE m == Cmd("data", inb[c][1].ev, inb[c][1].kind)
    <3>1. /\ broker \in {"loop", "quitting"} /\ UNCHANGED <<alive, phase, broker, fwd>>
          /\ m.cmd # "quit"
      BY <2>5 DEF HandleData, Cmd
    <3>2. phase \notin {"join_workers", "term_context", "done"}
      BY <3>1 DEF Shutdown
    <3> HIDE DEF m
    <3>3. CASE wq' = wq
      BY <3>1, <3>3 DEF Shutdown, NothingAfterQuit
    <3>4. CASE Pushed(wq, wq', Workers, get_worker_index(c), m)
      BY <2>5, <3>1, <3>2, <3>4, HandleDataEffect, QuitPush
    <3> QED BY <2>5, <3>3, <3>4, HandleDataEffect DEF m
  <2>6. ASSUME NEW tm \in timers, HandleTimeout(tm)
        PROVE  Shutdown' /\ NothingAfterQuit'
    <3>1. /\ broker = "loop" /\ UNCHANGED <<alive, phase, broker, fwd>>
          /\ Cmd("timeout", tm.ev, "none").cmd # "quit"
      BY <2>6 DEF HandleTimeout, Polling, Cmd
    <3>2. phase \notin {"join_workers", "term_context", "done"}
      BY <3>1 DEF Shutdown
    <3> QED BY <2>6, <3>1, <3>2, HandleTimeoutEffect, QuitPush
  <2>7. CASE BrokerExit
    BY <2>7 DEF BrokerExit, Shutdown, NothingAfterQuit
  <2> QED BY <1>4, <2>1, <2>2, <2>3, <2>4, <2>5, <2>6, <2>7 DEF BrokerStep
<1>5. ASSUME NEW w \in Workers, WorkerStep(w) PROVE Shutdown' /\ NothingAfterQuit'
  BY <1>5, QuitPop
<1>6. CASE PeerStep
  <2>1. UNCHANGED <<broker, fwd, phase, wq, alive>>
    BY <1>6 DEF PeerStep, PeerRecv, PeerReply
  <2> QED BY <2>1 DEF Shutdown, NothingAfterQuit
<1>7. CASE UNCHANGED vars
  BY <1>7 DEF vars, Shutdown, NothingAfterQuit
<1> QED BY <1>1, <1>2, <1>3, <1>4, <1>5, <1>6, <1>7 DEF Next, Terminated

-----------------------------------------------------------------------------
(* No controller is lost                                                   *)

\* The conjunct of NoLeak for the controller of e.
Held(e) ==
    /\ owner[e] = "frontend" =>
         \E t \in Threads : \E i \in DOMAIN fe[t] : InFront(e, t, i)
    /\ owner[e] = "broker" => fwd = e
    /\ owner[e] = "queue" =>
         \E i \in DOMAIN wq[get_worker_index(conn[e])] :
            StartAt(e, get_worker_index(conn[e]), i)
    /\ owner[e] = "worker" => e \in rmap[get_worker_index(conn[e])]

LostAtExit(e) == owner[e] = "lost" => broker = "stopped"

\* A request stays in its pipe when a message is added to one.
LEMMA InFrontPush ==
    ASSUME NEW t \in Threads, NEW m, Pushed(fe, fe', Threads, t, m), NEW e,
           \E u \in Threads : \E i \in DOMAIN fe[u] : InFront(e, u, i)
    PROVE  \E u \in Threads : \E i \in DOMAIN fe'[u] : InFront(e, u, i)'
BY DEF Pushed, InFront

\* A request stays in its pipe when another message is taken from one.
LEMMA InFrontPop ==
    ASSUME NEW t \in Threads, Popped(fe, fe', Threads, t), NEW e, ~InFront(e, t, 1),
           \E u \in Threads : \E i \in DOMAIN fe[u] : InFront(e, u, i)
    PROVE  \E u \in Threads : \E i \in DOMAIN fe'[u] : InFront(e, u, i)'
<1>0. PICK u \in Threads : \E i \in DOMAIN fe[u] : InFront(e, u, i)
  OBVIOUS
<1>1. PICK i \in DOMAIN fe[u] : InFront(e, u, i)
  BY <1>0
<1>2. CASE u # t
  BY <1>1, <1>2 DEF Popped, InFront
<1>3. CASE u = t
  <2>1. i # 1 /\ i - 1 \in DOMAIN fe'[t] /\ fe'[t][i - 1] = fe[t][i]
    BY <1>1, <1>3 DEF Popped
  <2> QED BY <1>1, <1>3, <2>1 DEF InFront
<1> QED BY <1>2, <1>3

\* A start command stays in its queue when a command is added to one.
LEMMA StartAtPush ==
    ASSUME NEW w \in Workers, NEW m, Pushed(wq, wq', Workers, w, m), NEW e,
           NEW v \in Workers, \E i \in DOMAIN wq[v] : StartAt(e, v, i)
    PROVE  \E i \in DOMAIN wq'[v] : StartAt(e, v, i)'
BY DEF Pushed, StartAt

\* A start command stays in its queue when another command is taken.
LEMMA StartAtPop ==
    ASSUME NEW w \in Workers, Popped(wq, wq', Workers, w), NEW e, ~StartAt(e, w, 1),
           NEW v \in Workers, \E i \in DOMAIN wq[v] : StartAt(e, v, i)
    PROVE  \E i \in DOMAIN wq'[v] : StartAt(e, v, i)'
<1>1. PICK i \in DOMAIN wq[v] : StartAt(e, v, i)
  OBVIOUS
<1>2. CASE v # w
  BY <1>1, <1>2 DEF Popped, StartAt
<1>3. CASE v = w
  <2>1. i # 1 /\ i - 1 \in DOMAIN wq'[w] /\ wq'[w][i - 1] = wq[w][i]
    BY <1>1, <1>3 DEF Popped
  <2> QED BY <1>1, <1>3, <2>1 DEF StartAt
<1> QED BY <1>2, <1>3

\* A controller that is not touched keeps its place when commands are added.
LEMMA HeldPush ==
    ASSUME IInv, NEW e \in Events, Held(e), NEW w \in Workers, NEW m,
           Pushed(wq, wq', Workers, w, m), UNCHANGED <<fe, conn, rmap>>,
           owner'[e] = owner[e], owner[e] = "broker" => fwd' = fwd
    PROVE  Held(e)'
<1> DEFINE v == get_worker_index(conn[e])
<1>1. owner[e] # "none" => v \in Workers
  BY ConnWorker DEF IInv, IdsFresh
<1>2. v' = v
  BY DEF get_worker_index
<1>3. owner[e] = "queue" => \E i \in DOMAIN wq'[v] : StartAt(e, v, i)'
  BY <1>1, StartAtPush DEF Held
<1>4. owner[e] = "frontend" =>
         \E t \in Threads : \E i \in DOMAIN fe'[t] : InFront(e, t, i)'
  BY DEF Held, InFront
<1> QED BY <1>2, <1>3, <1>4 DEF Held

\* No step of a worker loses a controller.
LEMMA WorkerHeld ==
    ASSUME IInv, NoLeak, NEW w \in Workers, WorkerStep(w), NEW e \in Events
    PROVE  Held(e)'
<1> DEFINE h == wq[w][1]
           v == get_worker_index(conn[e])
<1>1. /\ Popped(wq, wq', Workers, w) /\ UNCHANGED <<conn, fe, fwd>>
      /\ \/ PopsStart(w, h) \/ PopsEnd(w, h) \/ PopsIgnored(h) \/ PopsClosure(h)
         \/ PopsQuit(w, h)
  BY WorkerEffect
<1>2. Held(e) /\ owner \in [Events -> Owners] /\ rmap \in [Workers -> SUBSET Events]
  BY DEF NoLeak, Held, IInv, TypeOK
<1>3. (owner[e] # "none" => v \in Workers) /\ v' = v
  BY <1>1, ConnWorker DEF IInv, IdsFresh, get_worker_index
<1>4. (\E t \in Threads : \E i \in DOMAIN fe[t] : InFront(e, t, i))
         => \E t \in Threads : \E i \in DOMAIN fe'[t] : InFront(e, t, i)'
  BY <1>1 DEF InFront
<1>5. ASSUME ~StartAt(e, w, 1), owner[e] = "queue"
      PROVE  \E i \in DOMAIN wq'[v] : StartAt(e, v, i)'
  BY <1>1, <1>2, <1>3, <1>5, StartAtPop DEF Held
<1>6. CASE PopsStart(w, h)
  <2>1. StartAt(h.id, w, 1) /\ 1 \in DOMAIN wq[w]
    BY <1>1, <1>6 DEF PopsStart, StartAt, Popped
  <2>2. owner[h.id] = "queue"
    BY <2>1, <1>6 DEF PopsStart, IInv, NoDangling, StartOwned
  <2>3. CASE e = h.id
    <3>1. v = w
      BY <1>2, <1>3, <2>1, <2>2, <2>3 DEF Held, IInv, NoDangling, StartOwned
    <3>2. owner'[e] = "worker" /\ e \in rmap'[w]
      BY <1>2, <1>6, <2>3 DEF PopsStart
    <3> QED BY <1>3, <3>1, <3>2 DEF Held
  <2>4. CASE e # h.id
    <3>1. ~StartAt(e, w, 1) /\ owner'[e] = owner[e]
      BY <1>2, <1>6, <2>4 DEF PopsStart, StartAt
    <3>2. e \in rmap[v] /\ v \in Workers => e \in rmap'[v]
      BY <1>2, <1>6 DEF PopsStart
    <3> QED BY <1>1, <1>2, <1>3, <1>4, <1>5, <3>1, <3>2 DEF Held
  <2> QED BY <2>3, <2>4
<1>7. CASE PopsEnd(w, h)
  <2>0. ~StartAt(e, w, 1)
    BY <1>7 DEF PopsEnd, StartAt
  <2>1. CASE e = h.id
    <3>1. owner'[e] = "deleted"
      BY <1>2, <1>7, <2>1 DEF PopsEnd
    <3> QED BY <3>1 DEF Held
  <2>2. CASE e # h.id
    <3>1. owner'[e] = owner[e]
      BY <1>2, <1>7, <2>2 DEF PopsEnd
    <3>2. e \in rmap[v] /\ v \in Workers => e \in rmap'[v]
      BY <1>2, <1>7, <2>2 DEF PopsEnd
    <3> QED BY <1>1, <1>2, <1>3, <1>4, <1>5, <2>0, <3>1, <3>2 DEF Held
  <2> QED BY <2>1, <2>2
<1>8. CASE PopsIgnored(h) \/ PopsClosure(h) \/ PopsQuit(w, h)
  <2>1. ~StartAt(e, w, 1) /\ UNCHANGED <<owner, rmap>>
    BY <1>8 DEF PopsIgnored, PopsClosure, PopsQuit, StartAt
  <2> QED BY <1>1, <1>2, <1>3, <1>4, <1>5, <2>1 DEF Held
<1> QED BY <1>1, <1>6, <1>7, <1>8

\* A controller that is not touched keeps its place when no queue of a
\* worker changes and its request stays in its pipe.
LEMMA HeldKept ==
    ASSUME NEW e \in Events, Held(e), UNCHANGED <<wq, rmap>>,
           owner'[e] = owner[e], owner[e] # "none" => conn'[e] = conn[e],
           owner[e] = "broker" => fwd' = fwd,
           owner[e] = "frontend" =>
             \E t \in Threads : \E i \in DOMAIN fe'[t] : InFront(e, t, i)'
    PROVE  Held(e)'
<1>1. owner[e] # "none" => get_worker_index(conn'[e]) = get_worker_index(conn[e])
  OBVIOUS
<1> QED BY <1>1 DEF Held, StartAt

\* A broker that has ended stays so.
LEMMA BrokerStaysStopped ==
    ASSUME [Next]_vars, broker = "stopped"
    PROVE  broker' = "stopped"
<1> USE DEF callerVars, ctrlVars, peerVars, workerVars
<1>1. ASSUME NEW t \in Threads, ThreadStep(t) PROVE broker' = "stopped"
  BY <1>1 DEF ThreadStep, TakeEventId, RequestThrows, SendRequest, AddClosure,
              ThreadEnds, JoinThreads
<1>2. CASE JoinAll \/ Joined \/ TermContext
  BY <1>2 DEF JoinAll, Joined, TermContext
<1>3. CASE BrokerStep
  BY <1>3 DEF BrokerStep, HandleRequest, HandleClosure, HandleQuit, FrontHead, Polling,
              ForwardRequest, HandleData, HandleTimeout, BrokerExit
<1>4. ASSUME NEW w \in Workers, WorkerStep(w) PROVE broker' = "stopped"
  BY <1>4 DEF WorkerStep, StartRpc, HandleResponse, ExpireRpc, RunClosure, QuitWorker
<1>5. CASE PeerStep
  BY <1>5 DEF PeerStep, PeerRecv, PeerReply
<1>6. CASE UNCHANGED vars
  BY <1>6 DEF vars
<1> QED BY <1>1, <1>2, <1>3, <1>4, <1>5, <1>6 DEF Next, Terminated

\* Only the end of the broker thread and the end of the workers lose controllers.
LEMMA NextLost ==
    ASSUME IInv, Shutdown, [Next]_vars, NEW e \in Events, LostAtExit(e)
    PROVE  LostAtExit(e)'
<1> USE DEF callerVars, ctrlVars, peerVars, workerVars
<1>0. owner \in [Events -> Owners]
  BY DEF IInv, TypeOK
<1>a. ASSUME owner'[e] = "lost" => owner[e] = "lost" PROVE LostAtExit(e)'
  BY <1>a, BrokerStaysStopped DEF LostAtExit
<1>b. ASSUME NEW f, NEW o, owner' = [owner EXCEPT ![f] = o], o # "lost" PROVE LostAtExit(e)'
  BY <1>0, <1>a, <1>b
<1>1. ASSUME NEW t \in Threads, ThreadStep(t) PROVE LostAtExit(e)'
  <2>1. ASSUME NEW d \in BOOLEAN, SendRequest(t, d) PROVE LostAtExit(e)'
    BY <1>b, <2>1 DEF SendRequest
  <2>2. CASE \A d \in BOOLEAN : ~SendRequest(t, d)
    BY <1>1, <1>a, <2>2 DEF ThreadStep, TakeEventId, RequestThrows, AddClosure,
                            ThreadEnds, JoinThreads
  <2> QED BY <2>1, <2>2
<1>2. CASE JoinAll \/ TermContext
  BY <1>2, <1>a DEF JoinAll, TermContext
<1>3. CASE Joined
  BY <1>3 DEF Joined, Shutdown, LostAtExit
<1>4. CASE BrokerStep
  <2>1. ASSUME NEW t \in Threads, HandleRequest(t) PROVE LostAtExit(e)'
    BY <1>b, <2>1 DEF HandleRequest
  <2>2. CASE ForwardRequest
    BY <1>b, <2>2 DEF ForwardRequest, start_rpc, forward_to
  <2>3. CASE BrokerExit
    BY <2>3 DEF BrokerExit, LostAtExit
  <2>4. CASE \E t \in Threads : HandleClosure(t) \/ HandleQuit(t)
    BY <2>4, <1>a DEF HandleClosure, HandleQuit
  <2>5. CASE (\E c \in Conns : HandleData(c)) \/ \E tm \in timers : HandleTimeout(tm)
    BY <2>5, <1>a DEF HandleData, HandleTimeout
  <2> QED BY <1>4, <2>1, <2>2, <2>3, <2>4, <2>5 DEF BrokerStep
<1>5. ASSUME NEW w \in Workers, WorkerStep(w) PROVE LostAtExit(e)'
  <2> DEFINE h == wq[w][1]
  <2>1. \/ PopsStart(w, h) \/ PopsEnd(w, h) \/ PopsIgnored(h) \/ PopsClosure(h)
        \/ PopsQuit(w, h)
    BY <1>5, WorkerEffect
  <2> QED BY <2>1, <1>a, <1>b DEF PopsStart, PopsEnd, PopsIgnored, PopsClosure, PopsQuit
<1>6. CASE PeerStep
  BY <1>6, <1>a DEF PeerStep, PeerRecv, PeerReply
<1>7. CASE UNCHANGED vars
  BY <1>7, <1>a DEF vars
<1> QED BY <1>1, <1>2, <1>3, <1>4, <1>5, <1>6, <1>7 DEF Next, Terminated

\* No step loses a controller, except at the end of the broker and the workers.
LEMMA NextNoLeak ==
    ASSUME IInv, NoLeak, Shutdown, [Next]_vars
    PROVE  NoLeak'
<1> SUFFICES ASSUME NEW e \in Events PROVE Held(e)'
  <2>1. \A e \in Events : LostAtExit(e)'
    BY NextLost DEF NoLeak, LostAtExit
  <2> QED BY <2>1 DEF NoLeak, Held, LostAtExit
<1> USE DEF callerVars, ctrlVars, peerVars, workerVars
<1>0. /\ Held(e) /\ owner \in [Events -> Owners] /\ conn \in [Events -> Conns \cup {NoConn}]
      /\ fwd \in Events \cup {0}
  BY DEF NoLeak, Held, IInv, TypeOK
<1>a. ASSUME UNCHANGED <<fe, wq, owner, fwd, rmap, conn>> PROVE Held(e)'
  BY <1>0, <1>a DEF Held, InFront, StartAt, get_worker_index
<1>b. ASSUME NEW t \in Threads, NEW m, Pushed(fe, fe', Threads, t, m),
             UNCHANGED <<wq, rmap, conn, fwd>>, owner'[e] = owner[e]
      PROVE  Held(e)'
  <2>1. owner[e] = "frontend" =>
           \E u \in Threads : \E i \in DOMAIN fe'[u] : InFront(e, u, i)'
    BY <1>0, <1>b, InFrontPush DEF Held
  <2> QED BY <1>0, <1>b, <2>1, HeldKept
<1>1. ASSUME NEW t \in Threads, ThreadStep(t) PROVE Held(e)'
  <2>1. ASSUME NEW c \in Conns, TakeEventId(t, c) PROVE Held(e)'
    <3>1. /\ UNCHANGED <<fe, wq, owner, fwd, rmap>> /\ next_event_id \in Events
          /\ conn' = [conn EXCEPT ![next_event_id] = c]
      BY <2>1 DEF TakeEventId
    <3>2. owner[next_event_id] = "none"
      BY <3>1 DEF IInv, IdsFresh, Events
    <3>3. owner[e] # "none" => conn'[e] = conn[e]
      BY <1>0, <3>1, <3>2
    <3>4. owner[e] = "frontend" =>
           \E u \in Threads : \E i \in DOMAIN fe'[u] : InFront(e, u, i)'
      BY <1>0, <3>1 DEF Held, InFront
    <3> QED BY <1>0, <3>1, <3>3, <3>4, HeldKept
  <2>2. CASE RequestThrows(t)
    BY <2>2, <1>a DEF RequestThrows
  <2>3. ASSUME NEW d \in BOOLEAN, SendRequest(t, d) PROVE Held(e)'
    <3> DEFINE m == RequestMsg(caller[t])
    <3>1. /\ caller[t] \in Events /\ Pushed(fe, fe', Threads, t, m)
          /\ owner' = [owner EXCEPT ![caller[t]] = "frontend"]
          /\ UNCHANGED <<wq, rmap, conn, fwd>>
          /\ m.cmd = "request" /\ m.id = caller[t]
      BY <2>3, SendRequestEffect DEF SendRequest, RequestMsg
    <3> HIDE DEF m
    <3>2. CASE e = caller[t]
      <4>1. owner'[e] = "frontend"
        BY <1>0, <3>1, <3>2
      <4>2. \E i \in DOMAIN fe'[t] : InFront(e, t, i)'
        BY <3>1, <3>2, PushedThere DEF InFront
      <4> QED BY <4>1, <4>2 DEF Held
    <3>3. CASE e # caller[t]
      BY <1>0, <1>b, <3>1, <3>3
    <3> QED BY <3>2, <3>3
  <2>4. CASE AddClosure(t)
    BY <2>4, <1>b, AddClosureEffect DEF AddClosure
  <2>5. CASE JoinThreads(t)
    BY <2>5, <1>b, JoinThreadsEffect DEF JoinThreads
  <2>6. CASE ThreadEnds(t)
    BY <2>6, <1>a DEF ThreadEnds
  <2> QED BY <1>1, <2>1, <2>2, <2>3, <2>4, <2>5, <2>6 DEF ThreadStep
<1>2. CASE JoinAll
  <2> DEFINE v == get_worker_index(conn[e])
  <2>1. UNCHANGED <<fe, owner, fwd, rmap, conn>>
    BY <1>2 DEF JoinAll
  <2>2. (owner[e] # "none" => v \in Workers) /\ v' = v
    BY <2>1, ConnWorker DEF IInv, IdsFresh, get_worker_index
  <2>3. owner[e] = "queue" => \E i \in DOMAIN wq'[v] : StartAt(e, v, i)'
    BY <1>0, <1>2, <2>2, JoinAllEffect DEF Held, StartAt
  <2>4. owner[e] = "frontend" =>
           \E u \in Threads : \E i \in DOMAIN fe'[u] : InFront(e, u, i)'
    BY <1>0, <2>1 DEF Held, InFront
  <2> QED BY <1>0, <2>1, <2>2, <2>3, <2>4 DEF Held
<1>3. CASE Joined
  <2> DEFINE v == get_worker_index(conn[e])
  <2>1. UNCHANGED <<fe, wq, fwd, conn>>
    BY <1>3 DEF Joined
  <2>2. owner[e] = "worker" => v \in Workers /\ e \in rmap[v]
    BY <1>0, ConnWorker DEF Held, IInv, IdsFresh
  <2>3. owner'[e] # "worker" /\ (owner'[e] = owner[e] \/ owner'[e] = "lost")
    BY <1>3, <2>2, JoinedEffect
  <2> QED BY <1>0, <2>1, <2>3 DEF Held, InFront, StartAt, get_worker_index
<1>8. CASE TermContext
  BY <1>8, <1>a DEF TermContext
<1>4. CASE BrokerStep
  <2>1. ASSUME NEW t \in Threads, HandleRequest(t) PROVE Held(e)'
    <3>1. /\ Popped(fe, fe', Threads, t) /\ fwd = 0 /\ fwd' \in Events
          /\ InFront(fwd', t, 1) /\ owner' = [owner EXCEPT ![fwd'] = "broker"]
          /\ UNCHANGED <<wq, rmap, conn>>
      BY <2>1, HandleRequestEffect DEF HandleRequest
    <3>2. CASE e = fwd'
      <4>1. owner'[e] = "broker"
        BY <1>0, <3>1, <3>2
      <4> QED BY <3>2, <4>1 DEF Held
    <3>3. CASE e # fwd'
      <4>1. owner'[e] = owner[e] /\ ~InFront(e, t, 1)
        BY <1>0, <3>1, <3>3 DEF InFront
      <4>2. owner[e] # "broker"
        BY <1>0, <3>1 DEF Held, Events
      <4>3. owner[e] = "frontend" =>
               \E u \in Threads : \E i \in DOMAIN fe'[u] : InFront(e, u, i)'
        BY <1>0, <3>1, <4>1, InFrontPop DEF Held
      <4> QED BY <1>0, <3>1, <4>1, <4>2, <4>3, HeldKept
    <3> QED BY <3>2, <3>3
  <2>2. ASSUME NEW t \in Threads, HandleClosure(t) PROVE Held(e)'
    <3>1. /\ Popped(fe, fe', Threads, t) /\ fe[t][1].cmd = "closure"
          /\ UNCHANGED <<owner, rmap, conn, fwd>>
      BY <2>2, HandleClosureEffect DEF HandleClosure
    <3>2. PICK w \in Workers :
             Pushed(wq, wq', Workers, w, Cmd("closure", fe[t][1].id, "none"))
      BY <2>2, HandleClosureEffect
    <3>3. owner[e] = "frontend" =>
               \E u \in Threads : \E i \in DOMAIN fe'[u] : InFront(e, u, i)'
      <4>1. ~InFront(e, t, 1)
        BY <3>1 DEF InFront
      <4> QED BY <1>0, <3>1, <4>1, InFrontPop DEF Held
    <3>4. owner[e] = "queue" =>
             \E i \in DOMAIN wq'[get_worker_index(conn[e])] :
                StartAt(e, get_worker_index(conn[e]), i)'
      <4>1. owner[e] # "none" => get_worker_index(conn[e]) \in Workers
        BY ConnWorker DEF IInv, IdsFresh
      <4> QED BY <1>0, <3>1, <3>2, <4>1, StartAtPush DEF Held
    <3>5. get_worker_index(conn[e])' = get_worker_index(conn[e])
      BY <3>1 DEF get_worker_index
    <3> QED BY <1>0, <3>1, <3>3, <3>4, <3>5 DEF Held
  <2>3. ASSUME NEW t \in Threads, HandleQuit(t) PROVE Held(e)'
    <3>1. /\ fe[t] # <<>> /\ fe' = Pop(fe, t) /\ Head(fe[t]).cmd = "quit"
          /\ UNCHANGED <<owner, rmap, conn, fwd, wq>>
      BY <2>3 DEF HandleQuit, FrontHead
    <3>2. Popped(fe, fe', Threads, t) /\ ~InFront(e, t, 1)
      BY <3>1, FrontEffect DEF InFront
    <3>3. owner[e] = "frontend" =>
               \E u \in Threads : \E i \in DOMAIN fe'[u] : InFront(e, u, i)'
      BY <1>0, <3>2, InFrontPop DEF Held
    <3> QED BY <1>0, <3>1, <3>3, HeldKept
  <2>4. CASE ForwardRequest
    <3> DEFINE w == get_worker_index(conn[fwd])
               m == Cmd("start", fwd, "none")
    <3>1. /\ fwd \in Events /\ w \in Workers /\ Pushed(wq, wq', Workers, w, m)
          /\ owner' = [owner EXCEPT ![fwd] = "queue"]
          /\ UNCHANGED <<fe, rmap, conn>> /\ m.cmd = "start" /\ m.id = fwd
      BY <2>4, ForwardRequestEffect DEF ForwardRequest, Cmd
    <3> HIDE DEF m
    <3>2. CASE e = fwd
      <4>1. owner'[e] = "queue" /\ get_worker_index(conn[e])' = w
        BY <1>0, <3>1, <3>2
      <4>2. \E i \in DOMAIN wq'[w] : wq'[w][i] = m
        BY <3>1, PushedThere
      <4> HIDE DEF w
      <4> QED BY <3>1, <3>2, <4>1, <4>2 DEF Held, StartAt
    <3>3. CASE e # fwd
      <4>1. owner'[e] = owner[e] /\ owner[e] # "broker"
        BY <1>0, <3>1, <3>3 DEF Held
      <4> QED BY <1>0, <3>1, <4>1, HeldPush
    <3> QED BY <3>2, <3>3
  <2>5. ASSUME NEW c \in Conns, HandleData(c) PROVE Held(e)'
    <3> DEFINE m == Cmd("data", inb[c][1].ev, inb[c][1].kind)
    <3>1. UNCHANGED <<owner, fe, rmap, conn, fwd>>
      BY <2>5 DEF HandleData
    <3>2. /\ get_worker_index(c) \in Workers
          /\ wq' = wq \/ Pushed(wq, wq', Workers, get_worker_index(c), m)
      BY <2>5, HandleDataEffect
    <3> HIDE DEF m
    <3> QED BY <1>0, <1>a, <3>1, <3>2, HeldPush
  <2>6. ASSUME NEW tm \in timers, HandleTimeout(tm) PROVE Held(e)'
    <3>1. UNCHANGED <<owner, fe, rmap, conn, fwd>>
      BY <2>6 DEF HandleTimeout
    <3> QED BY <1>0, <2>6, <3>1, HandleTimeoutEffect, HeldPush
  <2>7. CASE BrokerExit
    <3>1. UNCHANGED <<wq, fwd, rmap, conn>>
      BY <2>7 DEF BrokerExit
    <3>2. owner'[e] # "frontend" /\ (owner'[e] = owner[e] \/ owner'[e] = "lost")
      BY <1>0, <2>7, BrokerExitEffect DEF Held
    <3> QED BY <1>0, <3>1, <3>2 DEF Held, StartAt, get_worker_index
  <2> QED BY <1>4, <2>1, <2>2, <2>3, <2>4, <2>5, <2>6, <2>7 DEF BrokerStep
<1>5. ASSUME NEW w \in Workers, WorkerStep(w) PROVE Held(e)'
  BY <1>5, WorkerHeld
<1>6. CASE PeerStep
  BY <1>6, <1>a DEF PeerStep, PeerRecv, PeerReply
<1>7. CASE UNCHANGED vars
  BY <1>7, <1>a DEF vars
<1> QED BY <1>1, <1>2, <1>3, <1>4, <1>5, <1>6, <1>7, <1>8 DEF Next, Terminated

-----------------------------------------------------------------------------
(* An rpc is started before it ends                                        *)

\* A controller that the broker has taken only moves on, and its request
\* keeps its connection.
MovesOn(e) ==
    /\ HandedOver(e) => owner'[e] \in Handed /\ conn'[e] = conn[e]
    /\ owner[e] = "broker" => owner'[e] \in {"broker", "queue"} /\ conn'[e] = conn[e]
    /\ owner[e] = "deleted" => owner'[e] = "deleted"

\* Every step lets controllers only move on.
LEMMA NextMovesOn ==
    ASSUME IInv, [Next]_vars, NEW e \in Events
    PROVE  MovesOn(e)
<1> USE DEF callerVars, ctrlVars, peerVars, workerVars
<1>0. owner \in [Events -> Owners] /\ conn \in [Events -> Conns \cup {NoConn}]
  BY DEF IInv, TypeOK
<1>a. ASSUME UNCHANGED <<owner, conn>> PROVE MovesOn(e)
  BY <1>a DEF MovesOn, HandedOver, Handed
<1>1. ASSUME NEW t \in Threads, ThreadStep(t) PROVE MovesOn(e)
  <2>1. ASSUME NEW c \in Conns, TakeEventId(t, c) PROVE MovesOn(e)
    <3>1. /\ UNCHANGED owner /\ next_event_id \in Events
          /\ conn' = [conn EXCEPT ![next_event_id] = c]
      BY <2>1 DEF TakeEventId
    <3>2. owner[next_event_id] = "none"
      BY <3>1 DEF IInv, IdsFresh, Events
    <3> QED BY <1>0, <3>1, <3>2 DEF MovesOn, HandedOver, Handed
  <2>2. ASSUME NEW d \in BOOLEAN, SendRequest(t, d) PROVE MovesOn(e)
    <3>1. /\ owner[caller[t]] = "none" /\ UNCHANGED conn
          /\ owner' = [owner EXCEPT ![caller[t]] = "frontend"]
      BY <2>2, SendRequestEffect DEF SendRequest
    <3> QED BY <1>0, <3>1 DEF MovesOn, HandedOver, Handed
  <2>3. CASE RequestThrows(t) \/ AddClosure(t) \/ ThreadEnds(t) \/ JoinThreads(t)
    BY <2>3, <1>a DEF RequestThrows, AddClosure, ThreadEnds, JoinThreads
  <2> QED BY <1>1, <2>1, <2>2, <2>3 DEF ThreadStep
<1>2. CASE JoinAll \/ TermContext
  BY <1>2, <1>a DEF JoinAll, TermContext
<1>3. CASE Joined
  <2>1. UNCHANGED conn
    BY <1>3 DEF Joined
  <2> QED BY <1>3, <2>1, JoinedEffect DEF MovesOn, HandedOver, Handed
<1>4. CASE BrokerStep
  <2>1. ASSUME NEW t \in Threads, HandleRequest(t) PROVE MovesOn(e)
    <3>1. /\ owner[fwd'] = "frontend" /\ owner' = [owner EXCEPT ![fwd'] = "broker"]
          /\ UNCHANGED conn
      BY <2>1, HandleRequestEffect DEF HandleRequest
    <3> QED BY <1>0, <3>1 DEF MovesOn, HandedOver, Handed
  <2>2. CASE ForwardRequest
    <3>1. /\ owner[fwd] = "broker" /\ owner' = [owner EXCEPT ![fwd] = "queue"]
          /\ UNCHANGED conn
      BY <2>2, ForwardRequestEffect DEF ForwardRequest
    <3> QED BY <1>0, <3>1 DEF MovesOn, HandedOver, Handed
  <2>3. CASE BrokerExit
    <3>1. UNCHANGED conn
      BY <2>3 DEF BrokerExit
    <3> QED BY <2>3, <3>1, BrokerExitEffect DEF MovesOn, HandedOver, Handed
  <2>4. CASE ~ForwardRequest /\ ~BrokerExit /\ ~\E t \in Threads : HandleRequest(t)
    BY <1>4, <2>4, <1>a DEF BrokerStep, HandleClosure, HandleQuit, HandleData,
                            HandleTimeout
  <2> QED BY <2>1, <2>2, <2>3, <2>4
<1>5. ASSUME NEW w \in Workers, WorkerStep(w) PROVE MovesOn(e)
  <2> DEFINE h == wq[w][1]
  <2>1. /\ Popped(wq, wq', Workers, w) /\ UNCHANGED conn
        /\ \/ PopsStart(w, h) \/ PopsEnd(w, h) \/ PopsIgnored(h) \/ PopsClosure(h)
           \/ PopsQuit(w, h)
    BY <1>5, WorkerEffect
  <2>2. CASE PopsStart(w, h)
    <3>1. StartAt(h.id, w, 1) /\ 1 \in DOMAIN wq[w]
      BY <2>1, <2>2 DEF PopsStart, StartAt, Popped
    <3>2. owner[h.id] = "queue"
      BY <2>2, <3>1 DEF PopsStart, IInv, NoDangling, StartOwned
    <3> QED BY <1>0, <2>1, <2>2, <3>2 DEF MovesOn, HandedOver, Handed, PopsStart
  <2>3. CASE PopsEnd(w, h)
    <3>1. h.id \in Events /\ owner[h.id] = "worker"
      BY <2>3 DEF PopsEnd, IInv, TypeOK, NoDangling, MapOwned
    <3> QED BY <1>0, <2>1, <2>3, <3>1 DEF MovesOn, HandedOver, Handed, PopsEnd
  <2>4. CASE PopsIgnored(h) \/ PopsClosure(h) \/ PopsQuit(w, h)
    BY <2>1, <2>4, <1>a DEF PopsIgnored, PopsClosure, PopsQuit
  <2> QED BY <2>1, <2>2, <2>3, <2>4
<1>6. CASE PeerStep
  BY <1>6, <1>a DEF PeerStep, PeerRecv, PeerReply
<1>7. CASE UNCHANGED vars
  BY <1>7, <1>a DEF vars
<1> QED BY <1>1, <1>2, <1>3, <1>4, <1>5, <1>6, <1>7 DEF Next, Terminated

\* The messages of the network are about requests that were handed over, if
\* they were so before or have just been added.
LEMMA NetLater ==
    ASSUME IInv, EndsLater, [Next]_vars,
           \A c \in Conns : \A i \in DOMAIN out'[c] :
             \/ \E j \in DOMAIN out[c] : out'[c][i] = out[c][j]
             \/ out'[c][i] \in Events /\ owner'[out'[c][i]] \in Handed,
           \A e \in arrived' : e \in arrived \/ HandedOver(e),
           \A c \in Conns : \A i \in DOMAIN inb'[c] :
             \/ \E j \in DOMAIN inb[c] : inb'[c][i] = inb[c][j]
             \/ /\ inb'[c][i].ev \in Events
                /\ owner'[inb'[c][i].ev] \in Handed /\ conn'[inb'[c][i].ev] = c,
           \A tm \in timers' : tm \in timers \/
             /\ owner'[tm.ev] \in Handed \/ owner'[tm.ev] = "broker"
             /\ tm.worker = get_worker_index(conn'[tm.ev])
    PROVE  EndsLater'
<1>0. \A e \in Events : MovesOn(e)
  BY NextMovesOn
<1>1. /\ out \in [Conns -> Seq(Events)] /\ arrived \in SUBSET Events
      /\ inb \in [Conns -> Seq(NetMsg)] /\ timers \in SUBSET Timers
      /\ arrived' \in SUBSET Events
  BY NextIInv DEF IInv, TypeOK
<1>2. \A c \in Conns : \A i \in DOMAIN out'[c] : owner'[out'[c][i]] \in Handed
  <2> SUFFICES ASSUME NEW c \in Conns, NEW i \in DOMAIN out'[c],
                      NEW j \in DOMAIN out[c], out'[c][i] = out[c][j]
               PROVE  owner'[out'[c][i]] \in Handed
    OBVIOUS
  <2>1. out[c][j] \in Events
    BY <1>1
  <2> QED BY <2>1, <1>0 DEF EndsLater, MovesOn, HandedOver
<1>3. \A e \in arrived' : owner'[e] \in Handed
  BY <1>0, <1>1 DEF EndsLater, MovesOn, HandedOver
<1>4. \A c \in Conns : \A i \in DOMAIN inb'[c] :
         owner'[inb'[c][i].ev] \in Handed /\ conn'[inb'[c][i].ev] = c
  <2> SUFFICES ASSUME NEW c \in Conns, NEW i \in DOMAIN inb'[c],
                      NEW j \in DOMAIN inb[c], inb'[c][i] = inb[c][j]
               PROVE  owner'[inb'[c][i].ev] \in Handed /\ conn'[inb'[c][i].ev] = c
    OBVIOUS
  <2>1. inb[c][j] \in NetMsg
    BY <1>1
  <2>2. inb[c][j].ev \in Events
    BY <2>1 DEF NetMsg
  <2> QED BY <2>2, <1>0 DEF EndsLater, MovesOn, HandedOver
<1>5. \A tm \in timers' :
         /\ owner'[tm.ev] \in Handed \/ owner'[tm.ev] = "broker"
         /\ tm.worker = get_worker_index(conn'[tm.ev])
  <2> SUFFICES ASSUME NEW tm \in timers', tm \in timers
               PROVE  /\ owner'[tm.ev] \in Handed \/ owner'[tm.ev] = "broker"
                      /\ tm.worker = get_worker_index(conn'[tm.ev])
    OBVIOUS
  <2>1. tm.ev \in Events
    BY <1>1 DEF Timers
  <2> QED BY <2>1, <1>0 DEF EndsLater, MovesOn, HandedOver, Handed
<1> QED BY <1>2, <1>3, <1>4, <1>5 DEF EndsLater, HandedOver

\* No step lets the end of an rpc overtake the hand-over of its controller.
LEMMA NextEndsLater ==
    ASSUME IInv, EndsLater, [Next]_vars
    PROVE  EndsLater'
<1> USE DEF callerVars, ctrlVars, peerVars, workerVars
<1>0. owner \in [Events -> Owners] /\ \A e \in Events : MovesOn(e)
  BY NextMovesOn DEF IInv, TypeOK
<1>a. ASSUME timers' \subseteq timers, UNCHANGED <<out, arrived, inb>>
      PROVE  EndsLater'
  BY <1>a, NetLater
<1>1. ASSUME NEW t \in Threads, ThreadStep(t) PROVE EndsLater'
  BY <1>1, <1>a DEF ThreadStep, TakeEventId, RequestThrows, SendRequest, AddClosure,
                    ThreadEnds, JoinThreads
<1>2. CASE JoinAll \/ Joined \/ TermContext
  BY <1>2, <1>a DEF JoinAll, Joined, TermContext
<1>4. CASE BrokerStep
  <2>1. ASSUME NEW t \in Threads, HandleRequest(t) PROVE EndsLater'
    <3>1. /\ fwd' \in Events /\ owner' = [owner EXCEPT ![fwd'] = "broker"]
          /\ timers' \subseteq
               timers \cup {[ev |-> fwd', worker |-> get_worker_index(conn[fwd'])]}
          /\ UNCHANGED <<conn, out, arrived, inb>>
      BY <2>1, HandleRequestEffect DEF HandleRequest
    <3>2. owner'[fwd'] = "broker"
      BY <1>0, <3>1
    <3>3. \A tm \in timers' : tm \in timers \/
             /\ owner'[tm.ev] \in Handed \/ owner'[tm.ev] = "broker"
             /\ tm.worker = get_worker_index(conn'[tm.ev])
      BY <3>1, <3>2
    <3> QED BY <3>1, <3>3, NetLater
  <2>2. CASE ForwardRequest
    <3>1. /\ fwd \in Events /\ owner' = [owner EXCEPT ![fwd] = "queue"]
          /\ Pushed(out, out', Conns, conn[fwd], fwd) \/ out' = out
          /\ UNCHANGED <<conn, arrived, inb, timers>>
      BY <2>2, ForwardRequestEffect DEF ForwardRequest
    <3>2. owner'[fwd] \in Handed
      BY <1>0, <3>1 DEF Handed
    <3>3. \A c \in Conns : \A i \in DOMAIN out'[c] :
             \/ \E j \in DOMAIN out[c] : out'[c][i] = out[c][j]
             \/ out'[c][i] \in Events /\ owner'[out'[c][i]] \in Handed
      BY <3>1, <3>2 DEF Pushed
    <3> QED BY <3>1, <3>3, NetLater
  <2>3. ASSUME NEW c \in Conns, HandleData(c) PROVE EndsLater'
    <3>1. Popped(inb, inb', Conns, c) /\ UNCHANGED <<timers, out, arrived>>
      BY <2>3, HandleDataEffect DEF HandleData
    <3>2. \A d \in Conns : \A i \in DOMAIN inb'[d] :
             \E j \in DOMAIN inb[d] : inb'[d][i] = inb[d][j]
      BY <3>1, PoppedFrom
    <3> QED BY <3>1, <3>2, NetLater
  <2>4. ASSUME NEW tm \in timers, HandleTimeout(tm) PROVE EndsLater'
    BY <2>4, <1>a DEF HandleTimeout
  <2>5. ASSUME NEW t \in Threads, HandleClosure(t) \/ HandleQuit(t) PROVE EndsLater'
    BY <2>5, <1>a DEF HandleClosure, HandleQuit
  <2>6. CASE BrokerExit
    <3>1. \A c \in Conns : DOMAIN out'[c] = {} /\ DOMAIN inb'[c] = {}
      BY <2>6 DEF BrokerExit
    <3>2. timers' = {} /\ UNCHANGED arrived
      BY <2>6 DEF BrokerExit
    <3> QED BY <3>1, <3>2, NetLater
  <2> QED BY <1>4, <2>1, <2>2, <2>3, <2>4, <2>5, <2>6 DEF BrokerStep
<1>5. ASSUME NEW w \in Workers, WorkerStep(w) PROVE EndsLater'
  BY <1>5, <1>a, WorkerEffect
<1>6. CASE PeerStep
  <2>1. ASSUME NEW c \in Conns, PeerRecv(c) PROVE EndsLater'
    <3>1. /\ Popped(out, out', Conns, c) /\ arrived' = arrived \cup {out[c][1]}
          /\ UNCHANGED <<timers, inb>>
      BY <2>1, PeerRecvEffect DEF PeerRecv
    <3>2. \A d \in Conns : \A i \in DOMAIN out'[d] :
             \E j \in DOMAIN out[d] : out'[d][i] = out[d][j]
      BY <3>1, PoppedFrom
    <3>3. HandedOver(out[c][1])
      BY <3>1 DEF EndsLater, Popped
    <3> QED BY <3>1, <3>2, <3>3, NetLater
  <2>2. ASSUME NEW e \in Events, NEW k \in DataKinds, PeerReply(e, k) PROVE EndsLater'
    <3>1. /\ e \in arrived
          /\ Pushed(inb, inb', Conns, conn[e], [ev |-> e, kind |-> k])
          /\ UNCHANGED <<timers, out, arrived, owner, conn>>
      BY <2>2, PeerReplyEffect DEF PeerReply
    <3>2. owner'[e] \in Handed
      BY <3>1 DEF EndsLater, HandedOver
    <3>3. \A c \in Conns : \A i \in DOMAIN inb'[c] :
             \/ \E j \in DOMAIN inb[c] : inb'[c][i] = inb[c][j]
             \/ /\ inb'[c][i].ev \in Events
                /\ owner'[inb'[c][i].ev] \in Handed /\ conn'[inb'[c][i].ev] = c
      BY <3>1, <3>2 DEF Pushed
    <3> QED BY <3>1, <3>3, NetLater
  <2> QED BY <1>6, <2>1, <2>2 DEF PeerStep
<1>7. CASE UNCHANGED vars
  BY <1>7, <1>a DEF vars
<1> QED BY <1>1, <1>2, <1>4, <1>5, <1>6, <1>7 DEF Next, Terminated

\* A command that ends an rpc keeps its start, and one that is added must
\* have it.
LEMMA StartFirstPush ==
    ASSUME IInv, StartFirst, NEW w \in Workers, NEW m,
           Pushed(wq, wq', Workers, w, m), UNCHANGED rmap,
           \A e \in Events : owner[e] = "deleted" => owner'[e] = "deleted",
           m.cmd \in {"data", "timeout"} =>
             /\ m.id \in Events
             /\ \/ m.id \in rmap[w] \/ owner[m.id] = "deleted"
                \/ \E j \in DOMAIN wq[w] : StartAt(m.id, w, j)
    PROVE  StartFirst'
<1> SUFFICES ASSUME NEW v \in Workers, NEW i \in DOMAIN wq'[v],
                    wq'[v][i].cmd \in {"data", "timeout"}
             PROVE  \/ wq'[v][i].id \in rmap'[v]
                    \/ owner'[wq'[v][i].id] = "deleted"
                    \/ \E j \in 1 .. i - 1 :
                         /\ j \in DOMAIN wq'[v] /\ wq'[v][j].cmd = "start"
                         /\ wq'[v][j].id = wq'[v][i].id
  BY DEF StartFirst, StartAt
<1>0. wq \in [Workers -> Seq(WorkerCmd)]
  BY DEF IInv, TypeOK
<1>1. CASE i \in DOMAIN wq[v] /\ wq'[v][i] = wq[v][i]
  <2>1. wq[v][i] \in WorkerCmd
    BY <1>0, <1>1
  <2>2. wq[v][i].id \in Events
    BY <1>1, <2>1 DEF WorkerCmd
  <2>3. \/ wq[v][i].id \in rmap[v] \/ owner[wq[v][i].id] = "deleted"
        \/ \E j \in 1 .. i - 1 : StartAt(wq[v][i].id, v, j)
    BY <1>1 DEF StartFirst
  <2> QED BY <1>1, <2>2, <2>3 DEF Pushed, StartAt
<1>2. CASE v = w /\ i = Len(wq[w]) + 1 /\ wq'[v][i] = m
  <2>1. \/ m.id \in rmap[w] \/ owner[m.id] = "deleted"
        \/ \E j \in DOMAIN wq[w] : StartAt(m.id, w, j)
    BY <1>2
  <2>2. \A j \in DOMAIN wq[w] : j \in 1 .. i - 1
    BY <1>2 DEF Pushed
  <2> QED BY <1>2, <2>1, <2>2 DEF Pushed, StartAt
<1> QED BY <1>1, <1>2 DEF Pushed

\* A worker that pops a start command has the rpc in its map, and one that
\* ends an rpc has deleted it.
LEMMA StartFirstPop ==
    ASSUME IInv, StartFirst, NEW w \in Workers, WorkerStep(w)
    PROVE  StartFirst'
<1> DEFINE h == wq[w][1]
<1>0. /\ wq \in [Workers -> Seq(WorkerCmd)] /\ rmap \in [Workers -> SUBSET Events]
      /\ owner \in [Events -> Owners]
  BY DEF IInv, TypeOK
<1>1. /\ Popped(wq, wq', Workers, w)
      /\ \/ PopsStart(w, h) \/ PopsEnd(w, h) \/ PopsIgnored(h) \/ PopsClosure(h)
         \/ PopsQuit(w, h)
  BY WorkerEffect
<1>2. \A e \in Events : MovesOn(e)
  BY NextMovesOn DEF Next
<1>3. ASSUME NEW e \in Events, NEW v \in Workers, e \in rmap[v]
      PROVE  e \in rmap'[v] \/ owner'[e] = "deleted"
  <2>1. CASE PopsStart(w, h)
    BY <1>0, <1>3, <2>1 DEF PopsStart
  <2>2. CASE PopsEnd(w, h)
    <3>1. e = h.id => owner'[e] = "deleted"
      BY <1>0, <2>2 DEF PopsEnd
    <3> QED BY <1>0, <1>3, <2>2, <3>1 DEF PopsEnd
  <2>3. CASE PopsIgnored(h) \/ PopsClosure(h) \/ PopsQuit(w, h)
    BY <1>3, <2>3 DEF PopsIgnored, PopsClosure, PopsQuit
  <2> QED BY <1>1, <2>1, <2>2, <2>3
<1>4. ASSUME h.cmd = "start" PROVE h.id \in rmap'[w]
  <2>1. PopsStart(w, h)
    BY <1>1, <1>4 DEF PopsEnd, PopsIgnored, PopsClosure, PopsQuit
  <2> QED BY <1>0, <2>1 DEF PopsStart
<1> HIDE DEF h
<1> SUFFICES ASSUME NEW v \in Workers, NEW i \in DOMAIN wq'[v],
                    wq'[v][i].cmd \in {"data", "timeout"}
             PROVE  \/ wq'[v][i].id \in rmap'[v]
                    \/ owner'[wq'[v][i].id] = "deleted"
                    \/ \E j \in 1 .. i - 1 :
                         /\ j \in DOMAIN wq'[v] /\ wq'[v][j].cmd = "start"
                         /\ wq'[v][j].id = wq'[v][i].id
  BY DEF StartFirst, StartAt
<1>5. PICK n \in DOMAIN wq[v] :
         wq'[v][i] = wq[v][n] /\ i \in Nat /\ n = IF v = w THEN i + 1 ELSE i
  <2>1. CASE v = w
    BY <1>1, <2>1 DEF Popped
  <2>2. CASE v # w
    BY <1>0, <1>1, <2>2 DEF Popped
  <2> QED BY <2>1, <2>2
<1>6. wq[v][n] \in WorkerCmd
  BY <1>0
<1>7. wq[v][n].id \in Events
  BY <1>5, <1>6 DEF WorkerCmd
<1>8. \/ wq[v][n].id \in rmap[v] \/ owner[wq[v][n].id] = "deleted"
      \/ \E j \in 1 .. n - 1 : StartAt(wq[v][n].id, v, j)
  BY <1>5 DEF StartFirst
<1>9. CASE wq[v][n].id \in rmap[v] \/ owner[wq[v][n].id] = "deleted"
  BY <1>2, <1>3, <1>5, <1>7, <1>9 DEF MovesOn
<1>10. ASSUME NEW j \in 1 .. n - 1, StartAt(wq[v][n].id, v, j)
       PROVE  \/ wq'[v][i].id \in rmap'[v]
              \/ \E k \in 1 .. i - 1 :
                    /\ k \in DOMAIN wq'[v] /\ wq'[v][k].cmd = "start"
                    /\ wq'[v][k].id = wq'[v][i].id
  <2>1. CASE v # w
    BY <1>1, <1>5, <1>10, <2>1 DEF Popped, StartAt
  <2>2. CASE v = w /\ j = 1
    BY <1>4, <1>5, <1>10, <2>2 DEF StartAt, h
  <2>3. CASE v = w /\ j # 1
    <3>1. j - 1 \in DOMAIN wq'[w] /\ wq'[w][j - 1] = wq[w][j]
      BY <1>1, <1>10, <2>3 DEF Popped, StartAt
    <3>2. j - 1 \in 1 .. i - 1
      BY <1>5, <2>3
    <3> QED BY <1>5, <1>10, <2>3, <3>1, <3>2 DEF StartAt
  <2> QED BY <2>1, <2>2, <2>3
<1> QED BY <1>8, <1>9, <1>10

\* A controller that the broker is done with has been started, has been
\* deleted, or its start command waits in the queue of its connection.
LEMMA HandedStarted ==
    ASSUME NoLeak, fwd = 0, broker # "stopped", NEW e \in Events,
           HandedOver(e) \/ owner[e] = "broker"
    PROVE  \/ e \in rmap[get_worker_index(conn[e])]
           \/ owner[e] = "deleted"
           \/ \E j \in DOMAIN wq[get_worker_index(conn[e])] :
                StartAt(e, get_worker_index(conn[e]), j)
BY DEF NoLeak, HandedOver, Handed, Events

\* Every step keeps starts before ends.
LEMMA NextStartFirst ==
    ASSUME IInv, NoLeak, NothingAfterQuit, EndsLater, StartFirst, [Next]_vars
    PROVE  StartFirst'
<1> USE DEF callerVars, ctrlVars, peerVars, workerVars
<1>0. \A e \in Events : owner[e] = "deleted" => owner'[e] = "deleted"
  BY NextMovesOn DEF MovesOn
<1>z. wq \in [Workers -> Seq(WorkerCmd)]
  BY DEF IInv, TypeOK
<1>a. ASSUME UNCHANGED <<wq, rmap>> PROVE StartFirst'
  <2> SUFFICES ASSUME NEW w \in Workers, NEW i \in DOMAIN wq[w],
                      wq[w][i].cmd \in {"data", "timeout"}
               PROVE  \/ wq[w][i].id \in rmap[w] \/ owner'[wq[w][i].id] = "deleted"
                      \/ \E j \in 1 .. i - 1 : StartAt(wq[w][i].id, w, j)
    BY <1>a DEF StartFirst, StartAt
  <2>1. wq[w][i] \in WorkerCmd
    BY <1>z
  <2>2. wq[w][i].id \in Events
    BY <2>1 DEF WorkerCmd
  <2> QED BY <1>0, <2>2 DEF StartFirst
<1>1. ASSUME NEW t \in Threads, ThreadStep(t) PROVE StartFirst'
  BY <1>1, <1>a DEF ThreadStep, TakeEventId, RequestThrows, SendRequest, AddClosure,
                    ThreadEnds, JoinThreads
<1>2. CASE JoinAll
  <2> SUFFICES ASSUME NEW w \in Workers, NEW i \in DOMAIN wq'[w],
                      wq'[w][i].cmd \in {"data", "timeout"}
               PROVE  \/ wq'[w][i].id \in rmap'[w] \/ owner'[wq'[w][i].id] = "deleted"
                      \/ \E j \in 1 .. i - 1 :
                           /\ j \in DOMAIN wq'[w] /\ wq'[w][j].cmd = "start"
                           /\ wq'[w][j].id = wq'[w][i].id
    BY DEF StartFirst, StartAt
  <2>1. i \in DOMAIN wq[w] /\ wq'[w][i] = wq[w][i]
    BY <1>2, JoinAllEffect
  <2>2. \A j \in DOMAIN wq[w] : j \in DOMAIN wq'[w] /\ wq'[w][j] = wq[w][j]
    BY <1>2, JoinAllEffect
  <2>3. UNCHANGED <<rmap, owner>>
    BY <1>2 DEF JoinAll
  <2> QED BY <2>1, <2>2, <2>3 DEF StartFirst, StartAt
<1>3. CASE Joined
  <2>1. \A w \in Workers : wq'[w] = <<>>
    BY <1>3 DEF Joined, NothingAfterQuit
  <2> QED BY <2>1 DEF StartFirst
<1>8. CASE TermContext
  BY <1>8, <1>a DEF TermContext
<1>4. CASE BrokerStep
  <2>1. ASSUME NEW t \in Threads, HandleRequest(t) \/ HandleQuit(t) PROVE StartFirst'
    BY <2>1, <1>a DEF HandleRequest, HandleQuit
  <2>2. ASSUME NEW t \in Threads, HandleClosure(t) PROVE StartFirst'
    <3> DEFINE m == Cmd("closure", fe[t][1].id, "none")
    <3>1. PICK w \in Workers : Pushed(wq, wq', Workers, w, m)
      BY <2>2, HandleClosureEffect
    <3>2. UNCHANGED rmap /\ m.cmd = "closure"
      BY <2>2 DEF HandleClosure, Cmd
    <3> HIDE DEF m
    <3> QED BY <1>0, <3>1, <3>2, StartFirstPush
  <2>3. CASE ForwardRequest
    <3> DEFINE m == Cmd("start", fwd, "none")
               w == get_worker_index(conn[fwd])
    <3>1. w \in Workers /\ Pushed(wq, wq', Workers, w, m)
      BY <2>3, ForwardRequestEffect
    <3>2. UNCHANGED rmap /\ m.cmd = "start"
      BY <2>3 DEF ForwardRequest, Cmd
    <3> HIDE DEF m, w
    <3> QED BY <1>0, <3>1, <3>2, StartFirstPush
  <2>4. ASSUME NEW c \in Conns, HandleData(c) PROVE StartFirst'
    <3> DEFINE e == inb[c][1].ev
               m == Cmd("data", e, inb[c][1].kind)
               w == get_worker_index(c)
    <3>1. /\ Popped(inb, inb', Conns, c) /\ w \in Workers /\ e \in Events
          /\ wq' = wq \/ Pushed(wq, wq', Workers, w, m)
      BY <2>4, HandleDataEffect
    <3>2. UNCHANGED rmap /\ fwd = 0 /\ broker # "stopped" /\ m.id = e
      BY <2>4 DEF HandleData, Cmd
    <3>3. HandedOver(e) /\ conn[e] = c
      BY <3>1 DEF EndsLater, Popped
    <3> HIDE DEF e, m
    <3>4. \/ e \in rmap[w] \/ owner[e] = "deleted"
          \/ \E j \in DOMAIN wq[w] : StartAt(e, w, j)
      BY <3>1, <3>2, <3>3, HandedStarted
    <3> HIDE DEF w
    <3>5. CASE Pushed(wq, wq', Workers, w, m)
      BY <1>0, <3>1, <3>2, <3>4, <3>5, StartFirstPush
    <3> QED BY <1>a, <3>1, <3>2, <3>5
  <2>5. ASSUME NEW tm \in timers, HandleTimeout(tm) PROVE StartFirst'
    <3> DEFINE e == tm.ev
               m == Cmd("timeout", e, "none")
               w == tm.worker
    <3>1. w \in Workers /\ e \in Events /\ Pushed(wq, wq', Workers, w, m)
      BY <2>5, HandleTimeoutEffect
    <3>2. UNCHANGED rmap /\ fwd = 0 /\ broker # "stopped" /\ m.id = e
      BY <2>5 DEF HandleTimeout, Polling, Cmd
    <3>3. (HandedOver(e) \/ owner[e] = "broker") /\ w = get_worker_index(conn[e])
      BY DEF EndsLater
    <3> HIDE DEF e, m, w
    <3>4. \/ e \in rmap[w] \/ owner[e] = "deleted"
          \/ \E j \in DOMAIN wq[w] : StartAt(e, w, j)
      BY <3>1, <3>2, <3>3, HandedStarted
    <3> QED BY <1>0, <3>1, <3>2, <3>4, StartFirstPush
  <2>6. CASE BrokerExit
    BY <2>6, <1>a DEF BrokerExit
  <2> QED BY <1>4, <2>1, <2>2, <2>3, <2>4, <2>5, <2>6 DEF BrokerStep
<1>5. ASSUME NEW w \in Workers, WorkerStep(w) PROVE StartFirst'
  BY <1>5, StartFirstPop
<1>6. CASE PeerStep
  BY <1>6, <1>a DEF PeerStep, PeerRecv, PeerReply
<1>7. CASE UNCHANGED vars
  BY <1>7, <1>a DEF vars
<1> QED BY <1>1, <1>2, <1>3, <1>4, <1>5, <1>6, <1>7, <1>8 DEF Next, Terminated

-----------------------------------------------------------------------------
(* A closure runs once                                                     *)

\* Adding anything else does not move closure k.
LEMMA ClosurePushOther ==
    ASSUME NEW K, NEW l \in K, NEW q, NEW r, NEW m, Pushed(q, r, K, l, m), NEW k,
           ~(m.cmd = "closure" /\ m.id = k)
    PROVE  /\ ClosureIn(r, K, k) <=> ClosureIn(q, K, k)
           /\ ClosureInOnce(q, K, k) => ClosureInOnce(r, K, k)
<1>1. \A n \in K : \A i \in DOMAIN r[n] :
         ClosureAt(r, k, n, i) => i \in DOMAIN q[n] /\ ClosureAt(q, k, n, i)
  BY DEF Pushed, ClosureAt
<1>2. \A n \in K : \A i \in DOMAIN q[n] :
         ClosureAt(q, k, n, i) => i \in DOMAIN r[n] /\ ClosureAt(r, k, n, i)
  BY DEF Pushed, ClosureAt
<1> QED BY <1>1, <1>2 DEF ClosureIn, ClosureInOnce

\* Adding closure k where it was not puts it in one place.
LEMMA ClosurePushSame ==
    ASSUME NEW K, NEW l \in K, NEW q, NEW r, NEW m, Pushed(q, r, K, l, m), NEW k,
           m.cmd = "closure" /\ m.id = k, ~ClosureIn(q, K, k)
    PROVE  ClosureIn(r, K, k) /\ ClosureInOnce(r, K, k)
<1>1. ClosureIn(r, K, k)
  BY PushedThere DEF ClosureIn, ClosureAt
<1>2. \A n \in K : \A i \in DOMAIN r[n] :
         ClosureAt(r, k, n, i) => n = l /\ i = Len(q[l]) + 1
  BY DEF Pushed, ClosureAt, ClosureIn
<1> QED BY <1>1, <1>2 DEF ClosureInOnce

\* Taking anything else does not move closure k.
LEMMA ClosurePopOther ==
    ASSUME NEW K, NEW l \in K, NEW q, NEW r, Popped(q, r, K, l), NEW k,
           ~(q[l][1].cmd = "closure" /\ q[l][1].id = k)
    PROVE  /\ ClosureIn(r, K, k) <=> ClosureIn(q, K, k)
           /\ ClosureInOnce(q, K, k) => ClosureInOnce(r, K, k)
<1> DEFINE back(n, i) == IF n = l THEN i + 1 ELSE i
<1>1. ASSUME NEW n \in K, NEW i \in DOMAIN r[n], ClosureAt(r, k, n, i)
      PROVE  back(n, i) \in DOMAIN q[n] /\ ClosureAt(q, k, n, back(n, i))
  <2>1. CASE n = l
    BY <1>1, <2>1 DEF Popped, ClosureAt
  <2>2. CASE n # l
    BY <1>1, <2>2 DEF Popped, ClosureAt
  <2> QED BY <2>1, <2>2
<1>2. ASSUME NEW n \in K, NEW i \in DOMAIN q[n], ClosureAt(q, k, n, i)
      PROVE  \E j \in DOMAIN r[n] : ClosureAt(r, k, n, j)
  <2>1. CASE n = l
    <3>1. i # 1 /\ i - 1 \in DOMAIN r[l] /\ r[l][i - 1] = q[l][i]
      BY <1>2, <2>1 DEF Popped, ClosureAt
    <3> QED BY <1>2, <2>1, <3>1 DEF ClosureAt
  <2>2. CASE n # l
    BY <1>2, <2>2 DEF Popped, ClosureAt
  <2> QED BY <2>1, <2>2
<1>3. ClosureIn(r, K, k) <=> ClosureIn(q, K, k)
  BY <1>1, <1>2 DEF ClosureIn
<1>4. ASSUME ClosureInOnce(q, K, k), NEW n \in K, NEW u \in K,
             NEW i \in DOMAIN r[n], NEW j \in DOMAIN r[u],
             ClosureAt(r, k, n, i), ClosureAt(r, k, u, j)
      PROVE  n = u /\ i = j
  <2>1. n = u /\ back(n, i) = back(u, j)
    BY <1>1, <1>4 DEF ClosureInOnce
  <2>2. CASE n = l
    BY <1>4, <2>1, <2>2 DEF Popped
  <2>3. CASE n # l
    BY <2>1, <2>3
  <2> QED BY <2>1, <2>2, <2>3
<1> QED BY <1>3, <1>4 DEF ClosureInOnce

\* Taking closure k from its only place leaves it in none.
LEMMA ClosurePopSame ==
    ASSUME NEW K, NEW l \in K, NEW q, NEW r, Popped(q, r, K, l), NEW k,
           q[l][1].cmd = "closure" /\ q[l][1].id = k, ClosureInOnce(q, K, k)
    PROVE  ClosureIn(q, K, k) /\ ~ClosureIn(r, K, k) /\ ClosureInOnce(r, K, k)
<1>1. 1 \in DOMAIN q[l] /\ ClosureAt(q, k, l, 1)
  BY DEF Popped, ClosureAt
<1>2. ASSUME NEW n \in K, NEW i \in DOMAIN r[n], ClosureAt(r, k, n, i)
      PROVE  FALSE
  <2>1. CASE n = l
    <3>1. i \in Nat /\ i > 0 /\ i + 1 \in DOMAIN q[l] /\ ClosureAt(q, k, l, i + 1)
      BY <1>2, <2>1 DEF Popped, ClosureAt
    <3>2. i + 1 = 1
      BY <1>1, <3>1 DEF ClosureInOnce
    <3> QED BY <3>1, <3>2
  <2>2. CASE n # l
    <3>1. i \in DOMAIN q[n] /\ ClosureAt(q, k, n, i)
      BY <1>2, <2>2 DEF Popped, ClosureAt
    <3> QED BY <1>1, <2>2, <3>1 DEF ClosureInOnce
  <2> QED BY <2>1, <2>2
<1> QED BY <1>1, <1>2 DEF ClosureIn, ClosureInOnce

\* Closure k stays where it is.
ClosureStays(k) ==
    /\ ClosureIn(fe', Threads, k) <=> ClosureIn(fe, Threads, k)
    /\ ClosureIn(wq', Workers, k) <=> ClosureIn(wq, Workers, k)
    /\ ClosureInOnce(fe, Threads, k) => ClosureInOnce(fe', Threads, k)
    /\ ClosureInOnce(wq, Workers, k) => ClosureInOnce(wq', Workers, k)

\* A closure that stays where it is, and does not run, keeps its place.
LEMMA PlaceKept ==
    ASSUME NEW k \in Closures, ClosurePlace(k), ClosureStays(k),
           UNCHANGED next_closure, ran'[k] = ran[k], UNCHANGED dropped,
           broker = "stopped" => broker' = "stopped"
    PROVE  ClosurePlace(k)'
<1>1. ClosureIn(fe, Threads, k)' <=> ClosureIn(fe', Threads, k)
  BY DEF ClosureIn, ClosureAt
<1>2. ClosureIn(wq, Workers, k)' <=> ClosureIn(wq', Workers, k)
  BY DEF ClosureIn, ClosureAt
<1>3. ClosureInOnce(fe, Threads, k)' <=> ClosureInOnce(fe', Threads, k)
  BY DEF ClosureInOnce, ClosureAt
<1>4. ClosureInOnce(wq, Workers, k)' <=> ClosureInOnce(wq', Workers, k)
  BY DEF ClosureInOnce, ClosureAt
<1> QED BY <1>1, <1>2, <1>3, <1>4 DEF ClosurePlace, ClosureStays

\* Every step keeps each closure in one place until it has run.
LEMMA NextClosure ==
    ASSUME IInv, ClosureOwned, [Next]_vars
    PROVE  ClosureOwned'
<1> SUFFICES ASSUME NEW k \in Closures PROVE ClosurePlace(k)'
  BY DEF ClosureOwned
<1> USE DEF callerVars, ctrlVars, peerVars, workerVars
<1>0. /\ ClosurePlace(k) /\ ran \in [Closures -> Nat] /\ next_closure \in Nat /\ k \in Nat
      /\ wq \in [Workers -> Seq(WorkerCmd)]
      /\ broker = "stopped" => broker' = "stopped"
  BY BoundsAssumption, BrokerStaysStopped DEF ClosureOwned, IInv, TypeOK, Closures
<1>a. ASSUME UNCHANGED <<fe, wq, ran, next_closure, dropped>> PROVE ClosurePlace(k)'
  <2>1. ClosureStays(k)
    BY <1>a DEF ClosureStays
  <2> QED BY <1>0, <1>a, <2>1, PlaceKept
<1>b. ASSUME NEW t \in Threads, NEW m, Pushed(fe, fe', Threads, t, m),
             m.cmd # "closure", UNCHANGED <<wq, ran, next_closure, dropped>>
      PROVE  ClosurePlace(k)'
  <2>1. ClosureStays(k)
    BY <1>b, ClosurePushOther DEF ClosureStays
  <2> QED BY <1>0, <1>b, <2>1, PlaceKept
<1>c. ASSUME NEW t \in Threads, Popped(fe, fe', Threads, t),
             fe[t][1].cmd # "closure", UNCHANGED <<wq, ran, next_closure, dropped>>
      PROVE  ClosurePlace(k)'
  <2>1. ClosureStays(k)
    BY <1>c, ClosurePopOther DEF ClosureStays
  <2> QED BY <1>0, <1>c, <2>1, PlaceKept
<1>d. ASSUME NEW w \in Workers, NEW m, Pushed(wq, wq', Workers, w, m),
             m.cmd # "closure", UNCHANGED <<fe, ran, next_closure, dropped>>
      PROVE  ClosurePlace(k)'
  <2>1. ClosureStays(k)
    BY <1>d, ClosurePushOther DEF ClosureStays
  <2> QED BY <1>0, <1>d, <2>1, PlaceKept
<1>1. ASSUME NEW t \in Threads, ThreadStep(t) PROVE ClosurePlace(k)'
  <2>1. ASSUME NEW c \in Conns, TakeEventId(t, c) PROVE ClosurePlace(k)'
    BY <2>1, <1>a DEF TakeEventId
  <2>2. CASE RequestThrows(t)
    BY <2>2, <1>a DEF RequestThrows
  <2>3. ASSUME NEW d \in BOOLEAN, SendRequest(t, d) PROVE ClosurePlace(k)'
    <3>1. RequestMsg(caller[t]).cmd # "closure" /\ UNCHANGED <<wq, ran, next_closure, dropped>>
      BY <2>3 DEF RequestMsg, SendRequest
    <3> QED BY <2>3, <3>1, <1>b, SendRequestEffect
  <2>4. CASE AddClosure(t)
    <3> DEFINE m == [cmd |-> "closure", id |-> next_closure]
    <3>1. /\ Pushed(fe, fe', Threads, t, m) /\ m.cmd = "closure" /\ m.id = next_closure
          /\ next_closure' = next_closure + 1 /\ UNCHANGED <<wq, ran, dropped, broker>>
      BY <2>4, AddClosureEffect DEF AddClosure
    <3> HIDE DEF m
    <3>2. CASE k = next_closure
      <4>1. ~ClosureIn(fe, Threads, k) /\ ~ClosureIn(wq, Workers, k) /\ ran[k] = 0
        BY <1>0, <3>2 DEF ClosurePlace
      <4>2. ClosureIn(fe', Threads, k) /\ ClosureInOnce(fe', Threads, k)
        BY <3>1, <3>2, <4>1, ClosurePushSame
      <4>3. ClosureIn(fe, Threads, k)' /\ ClosureInOnce(fe, Threads, k)'
        BY <4>2 DEF ClosureIn, ClosureInOnce, ClosureAt
      <4>4. ~ClosureIn(wq, Workers, k)' /\ ClosureInOnce(wq, Workers, k)'
        BY <1>0, <3>1, <4>1 DEF ClosurePlace, ClosureIn, ClosureInOnce, ClosureAt
      <4> QED BY <1>0, <3>1, <3>2, <4>1, <4>3, <4>4 DEF ClosurePlace
    <3>3. CASE k # next_closure
      <4>1. /\ ClosureIn(fe', Threads, k) <=> ClosureIn(fe, Threads, k)
            /\ ClosureInOnce(fe, Threads, k) => ClosureInOnce(fe', Threads, k)
        BY <3>1, <3>3, ClosurePushOther
      <4>2. /\ ClosureIn(fe, Threads, k)' <=> ClosureIn(fe, Threads, k)
            /\ ClosureInOnce(fe, Threads, k)'
        BY <1>0, <4>1 DEF ClosurePlace, ClosureIn, ClosureInOnce, ClosureAt
      <4>3. /\ ClosureIn(wq, Workers, k)' <=> ClosureIn(wq, Workers, k)
            /\ ClosureInOnce(wq, Workers, k)'
        BY <1>0, <3>1 DEF ClosurePlace, ClosureIn, ClosureInOnce, ClosureAt
      <4>4. k < next_closure <=> k < next_closure'
        BY <1>0, <3>1, <3>3
      <4> QED BY <1>0, <3>1, <4>2, <4>3, <4>4 DEF ClosurePlace
    <3> QED BY <3>2, <3>3
  <2>5. CASE JoinThreads(t)
    <3>1. [cmd |-> "quit", id |-> 0].cmd # "closure" /\ UNCHANGED <<wq, ran, next_closure, dropped>>
      BY <2>5 DEF JoinThreads
    <3> QED BY <2>5, <3>1, <1>b, JoinThreadsEffect
  <2>6. CASE ThreadEnds(t)
    BY <2>6, <1>a DEF ThreadEnds
  <2> QED BY <1>1, <2>1, <2>2, <2>3, <2>4, <2>5, <2>6 DEF ThreadStep
<1>2. CASE JoinAll
  <2>1. \A v \in Workers : \A i \in DOMAIN wq'[v] :
           ClosureAt(wq', k, v, i) => i \in DOMAIN wq[v] /\ ClosureAt(wq, k, v, i)
    BY <1>2, JoinAllEffect DEF ClosureAt
  <2>2. \A v \in Workers : \A i \in DOMAIN wq[v] :
           ClosureAt(wq, k, v, i) => i \in DOMAIN wq'[v] /\ ClosureAt(wq', k, v, i)
    BY <1>2, JoinAllEffect DEF ClosureAt
  <2>3. /\ ClosureIn(wq', Workers, k) <=> ClosureIn(wq, Workers, k)
        /\ ClosureInOnce(wq, Workers, k) => ClosureInOnce(wq', Workers, k)
    BY <2>1, <2>2 DEF ClosureIn, ClosureInOnce
  <2>4. UNCHANGED <<fe, ran, next_closure, dropped>>
    BY <1>2 DEF JoinAll
  <2>5. ClosureStays(k)
    BY <2>3, <2>4 DEF ClosureStays
  <2> QED BY <1>0, <2>4, <2>5, PlaceKept
<1>3. CASE Joined \/ TermContext
  BY <1>3, <1>a DEF Joined, TermContext
<1>4. CASE BrokerStep
  <2>1. ASSUME NEW t \in Threads, HandleRequest(t) PROVE ClosurePlace(k)'
    <3>1. /\ Popped(fe, fe', Threads, t) /\ fe[t][1].cmd # "closure"
          /\ UNCHANGED <<wq, ran, next_closure, dropped>>
      BY <2>1, HandleRequestEffect DEF HandleRequest, InFront
    <3> QED BY <3>1, <1>c
  <2>2. ASSUME NEW t \in Threads, HandleClosure(t) PROVE ClosurePlace(k)'
    <3> DEFINE j == fe[t][1].id
               m == Cmd("closure", j, "none")
    <3>1. /\ Popped(fe, fe', Threads, t) /\ fe[t][1].cmd = "closure" /\ j \in Closures
          /\ UNCHANGED <<ran, next_closure, dropped, broker>> /\ m.cmd = "closure" /\ m.id = j
      BY <2>2, HandleClosureEffect DEF HandleClosure, Cmd
    <3>2. PICK w \in Workers : Pushed(wq, wq', Workers, w, m)
      BY <2>2, HandleClosureEffect
    <3> HIDE DEF m
    <3>3. CASE k = j
      <4>1. /\ ClosureIn(fe, Threads, k) /\ ~ClosureIn(fe', Threads, k)
            /\ ClosureInOnce(fe', Threads, k)
        BY <1>0, <3>1, <3>3, ClosurePopSame DEF ClosurePlace
      <4>2. ~ClosureIn(wq, Workers, k) /\ k < next_closure /\ ran[k] = 0 /\ k \notin dropped
        BY <1>0, <4>1 DEF ClosurePlace
      <4>3. ClosureIn(wq', Workers, k) /\ ClosureInOnce(wq', Workers, k)
        BY <3>1, <3>2, <3>3, <4>2, ClosurePushSame
      <4>4. /\ ~ClosureIn(fe, Threads, k)' /\ ClosureInOnce(fe, Threads, k)'
            /\ ClosureIn(wq, Workers, k)' /\ ClosureInOnce(wq, Workers, k)'
        BY <4>1, <4>3 DEF ClosureIn, ClosureInOnce, ClosureAt
      <4> QED BY <1>0, <3>1, <4>2, <4>4 DEF ClosurePlace
    <3>4. CASE k # j
      <4>1. /\ ClosureIn(fe', Threads, k) <=> ClosureIn(fe, Threads, k)
            /\ ClosureInOnce(fe, Threads, k) => ClosureInOnce(fe', Threads, k)
        BY <3>1, <3>4, ClosurePopOther
      <4>2. /\ ClosureIn(wq', Workers, k) <=> ClosureIn(wq, Workers, k)
            /\ ClosureInOnce(wq, Workers, k) => ClosureInOnce(wq', Workers, k)
        BY <3>1, <3>2, <3>4, ClosurePushOther
      <4>3. ClosureStays(k)
        BY <4>1, <4>2 DEF ClosureStays
      <4> QED BY <1>0, <3>1, <4>3, PlaceKept
    <3> QED BY <3>3, <3>4
  <2>3. ASSUME NEW t \in Threads, HandleQuit(t) PROVE ClosurePlace(k)'
    <3>1. /\ fe[t] # <<>> /\ fe' = Pop(fe, t) /\ Head(fe[t]).cmd = "quit"
          /\ UNCHANGED <<wq, ran, next_closure, dropped>>
      BY <2>3 DEF HandleQuit, FrontHead
    <3>2. Popped(fe, fe', Threads, t) /\ fe[t][1].cmd # "closure"
      BY <3>1, FrontEffect
    <3> QED BY <3>1, <3>2, <1>c
  <2>4. CASE ForwardRequest
    <3>1. Cmd("start", fwd, "none").cmd # "closure" /\ UNCHANGED <<fe, ran, next_closure, dropped>>
      BY <2>4 DEF ForwardRequest, Cmd
    <3> QED BY <2>4, <3>1, <1>d, ForwardRequestEffect
  <2>5. ASSUME NEW c \in Conns, HandleData(c) PROVE ClosurePlace(k)'
    <3> DEFINE m == Cmd("data", inb[c][1].ev, inb[c][1].kind)
    <3>1. m.cmd # "closure" /\ UNCHANGED <<fe, ran, next_closure, dropped>>
      BY <2>5 DEF HandleData, Cmd
    <3>2. /\ get_worker_index(c) \in Workers
          /\ wq' = wq \/ Pushed(wq, wq', Workers, get_worker_index(c), m)
      BY <2>5, HandleDataEffect
    <3> HIDE DEF m
    <3> QED BY <3>1, <3>2, <1>a, <1>d
  <2>6. ASSUME NEW tm \in timers, HandleTimeout(tm) PROVE ClosurePlace(k)'
    <3>1. Cmd("timeout", tm.ev, "none").cmd # "closure" /\ UNCHANGED <<fe, ran, next_closure, dropped>>
      BY <2>6 DEF HandleTimeout, Cmd
    <3> QED BY <2>6, <3>1, <1>d, HandleTimeoutEffect
  <2>7. CASE BrokerExit
    <3>1. /\ UNCHANGED <<wq, ran, next_closure>> /\ broker' = "stopped"
          /\ dropped' = dropped \cup ClosuresInFront
      BY <2>7 DEF BrokerExit
    <3>2. k \in ClosuresInFront <=> ClosureIn(fe, Threads, k)
      BY DEF ClosuresInFront, ClosureIn, ClosureAt
    <3>3. \A t \in Threads : DOMAIN fe'[t] = {}
      BY <2>7, BrokerExitEffect
    <3>4. ~ClosureIn(fe, Threads, k)' /\ ClosureInOnce(fe, Threads, k)'
      BY <3>3 DEF ClosureIn, ClosureInOnce
    <3>5. /\ ClosureIn(wq, Workers, k)' <=> ClosureIn(wq, Workers, k)
          /\ ClosureInOnce(wq, Workers, k)'
      BY <1>0, <3>1 DEF ClosurePlace, ClosureIn, ClosureInOnce, ClosureAt
    <3> QED BY <1>0, <3>1, <3>2, <3>4, <3>5 DEF ClosurePlace
  <2> QED BY <1>4, <2>1, <2>2, <2>3, <2>4, <2>5, <2>6, <2>7 DEF BrokerStep
<1>5. ASSUME NEW w \in Workers, WorkerStep(w) PROVE ClosurePlace(k)'
  <2> DEFINE h == wq[w][1]
  <2>1. /\ Popped(wq, wq', Workers, w) /\ UNCHANGED <<fe, next_closure, dropped, broker>>
        /\ \/ h.cmd = "closure" /\ PopsClosure(h)
           \/ h.cmd # "closure" /\ UNCHANGED ran
    BY <1>5, WorkerEffect DEF PopsStart, PopsEnd, PopsIgnored, PopsClosure, PopsQuit
  <2> HIDE DEF h
  <2>2. CASE h.cmd = "closure" /\ h.id = k
    <3>1. /\ ClosureIn(wq, Workers, k) /\ ~ClosureIn(wq', Workers, k)
          /\ ClosureInOnce(wq', Workers, k)
      BY <1>0, <2>1, <2>2, ClosurePopSame DEF ClosurePlace, h
    <3>2. ran[k] = 0 /\ ~ClosureIn(fe, Threads, k)
      BY <1>0, <3>1 DEF ClosurePlace
    <3>3. ran'[k] = 1
      BY <1>0, <2>1, <2>2, <3>2 DEF PopsClosure
    <3>4. /\ ~ClosureIn(wq, Workers, k)' /\ ClosureInOnce(wq, Workers, k)'
      BY <3>1 DEF ClosureIn, ClosureInOnce, ClosureAt
    <3>5. /\ ~ClosureIn(fe, Threads, k)' /\ ClosureInOnce(fe, Threads, k)'
      BY <1>0, <2>1, <3>2 DEF ClosurePlace, ClosureIn, ClosureInOnce, ClosureAt
    <3>6. k < next_closure /\ k \notin dropped
      BY <1>0, <3>1 DEF ClosurePlace
    <3> QED BY <1>0, <2>1, <3>3, <3>4, <3>5, <3>6 DEF ClosurePlace
  <2>3. CASE ~(h.cmd = "closure" /\ h.id = k)
    <3>1. ran'[k] = ran[k]
      BY <1>0, <2>1, <2>3 DEF PopsClosure
    <3>2. ClosureStays(k)
      BY <2>1, <2>3, ClosurePopOther DEF ClosureStays, h
    <3> QED BY <1>0, <2>1, <3>1, <3>2, PlaceKept
  <2> QED BY <2>2, <2>3
<1>6. CASE PeerStep
  BY <1>6, <1>a DEF PeerStep, PeerRecv, PeerReply
<1>7. CASE UNCHANGED vars
  BY <1>7, <1>a DEF vars
<1> QED BY <1>1, <1>2, <1>3, <1>4, <1>5, <1>6, <1>7 DEF Next, Terminated

-----------------------------------------------------------------------------
(* The thread that destroys the manager is served                          *)

\* A pipe that has no message is empty.
LEMMA NoMessage ==
    ASSUME NEW S, NEW q \in Seq(S), DOMAIN q = {}
    PROVE  q = <<>>
<1>1. Len(q) \in Nat /\ DOMAIN q = 1 .. Len(q)
  OBVIOUS
<1>2. Len(q) = 0
  <2>1. Len(q) # 0 => 1 \in DOMAIN q
    BY <1>1
  <2> QED BY <2>1
<1> QED BY <1>2

\* Another message in a pipe is not the destroyer's, and no quit message.
LEMMA QuitOrderPush ==
    ASSUME QuitOrder, NEW t \in Threads, NEW m, Pushed(fe, fe', Threads, t, m),
           m.cmd # "quit", phase = "running", UNCHANGED <<phase, broker>>,
           \A u \in Threads : sock'[u] = "destroyer" => sock[u] = "destroyer",
           \A u \in Threads : sock[u] # "destroyer"
    PROVE  QuitOrder'
<1>1. \A u \in Threads : \A i \in DOMAIN fe'[u] : fe'[u][i].cmd # "quit"
  BY DEF QuitOrder, Pushed
<1> QED BY <1>1 DEF QuitOrder, DestroyerServed

\* Taking a message that is not kQuit leaves kQuit the last one.
LEMMA QuitOrderPop ==
    ASSUME QuitOrder, NEW t \in Threads, Popped(fe, fe', Threads, t),
           broker = "loop", UNCHANGED <<phase, broker, sock, caller>>
    PROVE  QuitOrder'
<1>1. \A u \in Threads : \A i \in DOMAIN fe'[u] : fe'[u][i].cmd = "quit" =>
         sock[u] = "destroyer" /\ \A j \in DOMAIN fe'[u] : j <= i
  <2> SUFFICES ASSUME NEW u \in Threads, NEW i \in DOMAIN fe'[u], fe'[u][i].cmd = "quit",
                      NEW j \in DOMAIN fe'[u]
               PROVE  sock[u] = "destroyer" /\ j <= i
    BY DEF QuitOrder, Popped
  <2>1. CASE u = t
    <3>1. /\ i \in Nat /\ i + 1 \in DOMAIN fe[t] /\ fe[t][i + 1].cmd = "quit"
          /\ j \in Nat /\ j + 1 \in DOMAIN fe[t]
      BY <2>1 DEF Popped
    <3>2. sock[t] = "destroyer" /\ j + 1 <= i + 1
      BY <3>1 DEF QuitOrder
    <3> QED BY <2>1, <3>1, <3>2
  <2>2. CASE u # t
    BY <2>2 DEF QuitOrder, Popped
  <2> QED BY <2>1, <2>2
<1> QED BY <1>1 DEF QuitOrder, DestroyerServed

\* Every step keeps the order in which a shutdown begins.
LEMMA NextQuitOrder ==
    ASSUME IInv, Shutdown, QuitOrder, [Next]_vars
    PROVE  QuitOrder'
<1> USE DEF callerVars, ctrlVars, peerVars, workerVars
<1>0. sock \in [Threads -> {"none", "open", "destroyer", "closed"}]
      /\ caller \in [Threads -> Events \cup {0}]
  BY DEF IInv, TypeOK
<1>a. ASSUME UNCHANGED <<fe, phase, broker, sock, caller>> PROVE QuitOrder'
  BY <1>a DEF QuitOrder, DestroyerServed
<1>1. ASSUME NEW t \in Threads, ThreadStep(t) PROVE QuitOrder'
  <2>1. ASSUME NEW c \in Conns, TakeEventId(t, c) PROVE QuitOrder'
    BY <2>1 DEF TakeEventId, QuitOrder, DestroyerServed
  <2>2. CASE RequestThrows(t)
    BY <1>0, <2>2 DEF RequestThrows, QuitOrder, DestroyerServed, Events
  <2>3. ASSUME NEW d \in BOOLEAN, SendRequest(t, d) PROVE QuitOrder'
    <3>1. phase = "running" /\ UNCHANGED <<phase, broker>>
      BY <2>3 DEF SendRequest, QuitOrder
    <3>2. \A u \in Threads : sock'[u] = "destroyer" => sock[u] = "destroyer"
      BY <1>0, <2>3 DEF SendRequest, get_frontend_socket
    <3>3. RequestMsg(caller[t]).cmd # "quit"
      BY DEF RequestMsg
    <3> QED BY <2>3, <3>1, <3>2, <3>3, SendRequestEffect, QuitOrderPush DEF QuitOrder
  <2>4. CASE AddClosure(t)
    <3>1. phase = "running" /\ UNCHANGED <<phase, broker>>
      BY <2>4 DEF AddClosure
    <3>2. \A u \in Threads : sock'[u] = "destroyer" => sock[u] = "destroyer"
      BY <1>0, <2>4 DEF AddClosure, get_frontend_socket
    <3>3. [cmd |-> "closure", id |-> next_closure].cmd # "quit"
      OBVIOUS
    <3> QED BY <2>4, <3>1, <3>2, <3>3, AddClosureEffect, QuitOrderPush DEF QuitOrder
  <2>5. CASE ThreadEnds(t)
    <3>1. \A u \in Threads : sock'[u] = "destroyer" <=> sock[u] = "destroyer"
      BY <1>0, <2>5 DEF ThreadEnds
    <3> QED BY <2>5, <3>1 DEF ThreadEnds, QuitOrder, DestroyerServed
  <2>6. CASE JoinThreads(t)
    <3> DEFINE m == [cmd |-> "quit", id |-> 0]
    <3>1. /\ phase = "running" /\ broker = "loop" /\ phase' = "join_broker"
          /\ UNCHANGED <<broker, caller>> /\ \A u \in Threads : caller[u] = 0
          /\ Pushed(fe, fe', Threads, t, m) /\ m.cmd = "quit"
      BY <2>6, JoinThreadsEffect DEF JoinThreads, QuitOrder
    <3> HIDE DEF m
    <3>2. \A u \in Threads : sock'[u] = "destroyer" <=> u = t
      BY <1>0, <2>6 DEF JoinThreads, QuitOrder
    <3>3. \A u \in Threads : \A i \in DOMAIN fe'[u] : fe'[u][i].cmd = "quit" =>
             u = t /\ \A j \in DOMAIN fe'[u] : j <= i
      <4> SUFFICES ASSUME NEW u \in Threads, NEW i \in DOMAIN fe'[u], fe'[u][i].cmd = "quit"
                   PROVE  u = t /\ \A j \in DOMAIN fe'[u] : j <= i
        OBVIOUS
      <4>1. u = t /\ i = Len(fe[t]) + 1
        BY <3>1 DEF QuitOrder, Pushed
      <4>2. \A j \in DOMAIN fe'[t] : j \in 1 .. Len(fe[t]) \/ j = Len(fe[t]) + 1
        BY <3>1 DEF Pushed
      <4>3. Len(fe[t]) \in Nat
        BY <3>1 DEF Pushed
      <4> QED BY <4>1, <4>2, <4>3
    <3> QED BY <3>1, <3>2, <3>3 DEF QuitOrder, DestroyerServed
  <2> QED BY <1>1, <2>1, <2>2, <2>3, <2>4, <2>5, <2>6 DEF ThreadStep
<1>2. CASE JoinAll \/ TermContext
  BY <1>2 DEF JoinAll, TermContext, QuitOrder, DestroyerServed
<1>3. CASE Joined
  <2>1. broker = "stopped" /\ phase # "running" /\ phase' # "running"
        /\ UNCHANGED <<fe, broker, caller>>
    BY <1>3 DEF Joined, Shutdown
  <2>2. \A u \in Threads : sock'[u] # "destroyer"
    BY <1>0, <1>3 DEF Joined
  <2> QED BY <2>1, <2>2 DEF QuitOrder, DestroyerServed
<1>4. CASE BrokerStep
  <2>1. ASSUME NEW t \in Threads, HandleRequest(t) PROVE QuitOrder'
    BY <2>1, HandleRequestEffect, QuitOrderPop DEF HandleRequest
  <2>2. ASSUME NEW t \in Threads, HandleClosure(t) PROVE QuitOrder'
    BY <2>2, HandleClosureEffect, QuitOrderPop DEF HandleClosure, FrontHead, Polling
  <2>3. ASSUME NEW t \in Threads, HandleQuit(t) PROVE QuitOrder'
    <3>1. /\ fe[t] # <<>> /\ fe' = Pop(fe, t) /\ Head(fe[t]).cmd = "quit"
          /\ broker' = "quitting" /\ UNCHANGED <<phase, sock, caller>>
      BY <2>3 DEF HandleQuit, FrontHead
    <3>2. Popped(fe, fe', Threads, t) /\ fe[t][1].cmd = "quit" /\ 1 \in DOMAIN fe[t]
      BY <3>1, FrontEffect DEF Popped
    <3>3. /\ sock[t] = "destroyer" /\ phase # "running"
          /\ \A j \in DOMAIN fe[t] : j <= 1
      BY <3>2 DEF QuitOrder
    <3>4. fe'[t] = <<>> /\ DOMAIN fe'[t] = {}
      <4>1. DOMAIN fe'[t] = {}
        BY <3>2, <3>3 DEF Popped
      <4>2. fe'[t] \in Seq(FrontMsg)
        BY <3>1, NextIInv DEF IInv, TypeOK
      <4> QED BY <4>1, <4>2, NoMessage
    <3>5. \A u \in Threads : \A i \in DOMAIN fe'[u] : fe'[u][i].cmd # "quit"
      BY <3>2, <3>3, <3>4 DEF QuitOrder, Popped
    <3>6. \A u \in Threads : sock'[u] = "destroyer" => u = t
      BY <3>1, <3>3 DEF QuitOrder
    <3> QED BY <3>1, <3>3, <3>4, <3>5, <3>6 DEF QuitOrder, DestroyerServed
  <2>4. CASE ForwardRequest
    BY <2>4, <1>a DEF ForwardRequest
  <2>5. CASE (\E c \in Conns : HandleData(c)) \/ \E tm \in timers : HandleTimeout(tm)
    BY <2>5, <1>a DEF HandleData, HandleTimeout
  <2>6. CASE BrokerExit
    <3>1. \A t \in Threads : fe'[t] = <<>> /\ DOMAIN fe'[t] = {}
      BY <2>6, BrokerExitEffect
    <3>2. broker = "quitting" /\ UNCHANGED <<phase, sock, caller>>
      BY <2>6 DEF BrokerExit
    <3> QED BY <3>1, <3>2 DEF QuitOrder, DestroyerServed
  <2> QED BY <1>4, <2>1, <2>2, <2>3, <2>4, <2>5, <2>6 DEF BrokerStep
<1>5. ASSUME NEW w \in Workers, WorkerStep(w) PROVE QuitOrder'
  BY <1>5, <1>a DEF WorkerStep, StartRpc, HandleResponse, ExpireRpc, RunClosure, QuitWorker
<1>6. CASE PeerStep
  BY <1>6, <1>a DEF PeerStep, PeerRecv, PeerReply
<1>7. CASE UNCHANGED vars
  BY <1>7, <1>a DEF vars
<1> QED BY <1>1, <1>2, <1>3, <1>4, <1>5, <1>6, <1>7 DEF Next, Terminated

-----------------------------------------------------------------------------
(* The theorems                                                            *)

\* The invariant holds before the first request.
LEMMA InitOInv == Init => OInv
<1> SUFFICES ASSUME Init PROVE OInv
  OBVIOUS
<1>0. IInv
  BY InitIInv
<1> USE DEF Init
<1>1. Shutdown /\ NothingAfterQuit
  BY DEF Shutdown, NothingAfterQuit
<1>2. NoLeak /\ EndsLater /\ StartFirst
  BY DEF NoLeak, EndsLater, StartFirst
<1>3. ClosureOwned
  BY DEF ClosureOwned, ClosurePlace, ClosureIn, ClosureInOnce, ClosureAt, Closures
<1>4. QuitOrder
  BY DEF QuitOrder, DestroyerServed
<1> QED BY <1>0, <1>1, <1>2, <1>3, <1>4 DEF OInv

\* Ownership, order, shutdown and closures hold together in every reachable
\* state, for any number of threads, connections, workers and requests.
THEOREM OrderInvariance == Spec => []OInv
<1>1. OInv /\ [Next]_vars => OInv'
  <2> SUFFICES ASSUME OInv, [Next]_vars PROVE OInv'
    OBVIOUS
  <2>1. IInv /\ IInv'
    BY NextIInv DEF OInv
  <2> QED BY <2>1, NextShutdown, NextNoLeak, NextEndsLater, NextStartFirst, NextClosure,
             NextQuitOrder DEF OInv
<1> QED BY <1>1, InitOInv, PTL DEF Spec

\* While the broker thread lives, an rpc_controller that has not been deleted is
\* in the place that will hand it on or run its handler, also after a ROUTER has
\* dropped the request.  Afterwards it is so, or the destructors of the reactor
\* and of the workers have lost it.
THEOREM ControllersHeld == Spec => []NoLeak
<1>1. OInv => NoLeak
  BY DEF OInv
<1> QED BY <1>1, OrderInvariance, PTL

\* A worker meets a timeout or a response of an rpc only after the command
\* that starts it, although send_request() registers the timer and forwards
\* the request first.
THEOREM StartsBeforeEnds == Spec => []StartFirst
<1>1. OInv => StartFirst
  BY DEF OInv
<1> QED BY <1>1, OrderInvariance, PTL

\* No command is queued behind the quit command of a worker, and a worker
\* that has returned has an empty queue.
THEOREM QuitIsLast == Spec => []NothingAfterQuit
<1>1. OInv => NothingAfterQuit
  BY DEF OInv
<1> QED BY <1>1, OrderInvariance, PTL

\* A closure given to manager::add() runs at most once.  One that has not run is
\* in a pipe or a queue, or the end of the broker thread has destroyed it in the
\* pipe of a thread that does not destroy the manager.
THEOREM ClosuresRunOnce == Spec => []ClosureOnce
<1>1. ClosureOwned /\ DestroyerServed => ClosureOnce
  BY DEF ClosureOwned, ClosurePlace, ClosureOnce, ClosuresInFront, ClosureIn, ClosureAt
<1>2. OInv => ClosureOnce
  BY <1>1 DEF OInv, QuitOrder
<1> QED BY <1>2, OrderInvariance, PTL

\* What the thread that runs ~manager() has sent before kQuit is read by the
\* broker, whatever the other threads have in their pipes.
THEOREM DestroyerIsServed == Spec => []DestroyerServed
<1>1. OInv => DestroyerServed
  BY DEF OInv, QuitOrder
<1> QED BY <1>1, OrderInvariance, PTL
=============================================================================
