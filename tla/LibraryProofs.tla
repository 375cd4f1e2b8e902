---------------------------- MODULE LibraryProofs ----------------------------
(***************************************************************************)
(* Proofs about what an application uses of the library: the closures of   *)
(* callback.hpp (Closure), the life of an application (PyApp) and the      *)
(* Python binding (PyBinding), for any number of closures, threads,        *)
(* managers, calls and requests.                                           *)
(***************************************************************************)
EXTENDS Closure, PyApp, PyBinding, QueueFacts

-----------------------------------------------------------------------------
(* PyBinding: the inductive invariant                                      *)

Jobs == [job : {"closure"}, id : Rpcs] \cup [job : {"request"}, id : Served]
        \cup [job : {"quit"}, id : {0}]

\* Where a worker can be with a call, and where with a request.
CallSteps  == {"parse", "signal", "callback", "release"}
ServeSteps == {"serve", "method", "leave"}

Bridges == {NoBridge} \cup [st : CallSteps, id : Rpcs] \cup [st : ServeSteps, id : Served]

\* The library is done with the call.
Ends == {"parse_raised", "callback_raised", "clean"}

PyTypes ==
    /\ gil \in Runners \cup {NoHolder}
    /\ life \in [Rpcs -> {"none", "sent", "raised", "queued"} \cup Ends]
    /\ refs \in [Rpcs -> Int]
    /\ ctrl \in [Rpcs -> {"none", "live", "dead"}]
    /\ wrap \in [Rpcs -> {"none", "live", "freed"}]
    /\ done \in [Rpcs -> BOOLEAN]
    /\ status \in [Rpcs -> Statuses \cup {"active"}]
    /\ deadline \in [Rpcs -> BOOLEAN]
    /\ parsed \in [Rpcs -> BOOLEAN]
    /\ saw \in [Rpcs -> {"none", "returned", "AttributeError"}]
    /\ user \in [Rpcs -> {"none", "rpc", "waits"}]
    /\ caller \in [Rpcs -> Runners \cup {NoHolder}]
    /\ todo \in [PyPool -> Seq(Jobs)]
    /\ bridge \in [PyPool -> Bridges]
    /\ rep \in [Served -> {"none", "queued", "ptr", "null", "gone"}]
    /\ holds \in [Served -> BOOLEAN]
    /\ sent \in [Served -> Nat]
    /\ dels \in [Served -> Nat]
    /\ crashed \in BOOLEAN
    /\ running \in SUBSET PyPool

\* The references to the controller of c are those of the caller and of the
\* wrapper, which is freed at the end of a bridge function that nothing stopped.
OwnedBy(c) ==
    /\ wrap[c] = IF life[c] = "none" THEN "none" ELSE IF life[c] = "clean" THEN "freed" ELSE "live"
    /\ refs[c] = (IF user[c] # "none" THEN 1 ELSE 0) + (IF wrap[c] = "live" THEN 1 ELSE 0)
    /\ ctrl[c] = IF life[c] = "none" THEN "none" ELSE IF refs[c] = 0 THEN "dead" ELSE "live"
    /\ life[c] = "none" => user[c] = "none"

Owned == \A c \in Rpcs : OwnedBy(c)

\* The i-th job of worker w is one of the given sort for id.
JobAt(w, i, sort, id) ==
    i \in DOMAIN todo[w] /\ todo[w][i].job = sort /\ todo[w][i].id = id

\* The closure of a call is in one queue, once, or in one bridge function, and
\* only until that function ends.
Bridged ==
    /\ \A c \in Rpcs, w \in PyPool : \A i : JobAt(w, i, "closure", c) =>
         /\ life[c] = "queued"
         /\ \A v \in PyPool : ~InBridge(v, c)
         /\ \A v \in PyPool : \A j : JobAt(v, j, "closure", c) => v = w /\ j = i
    /\ \A c \in Rpcs, w \in PyPool : InBridge(w, c) =>
         /\ life[c] = "queued"
         /\ \A v \in PyPool : InBridge(v, c) => v = w

\* The status is final once the closure is queued, the response is parsed
\* before the event is signalled, and wait() ends after that.
Seen ==
    /\ \A c \in Rpcs : life[c] \in Ends \cup {"queued"} => status[c] \in Statuses
    /\ \A w \in PyPool : bridge[w].st \in CallSteps \ {"parse"} => parsed[bridge[w].id]
    /\ \A c \in Rpcs : done[c] => parsed[c] /\ life[c] \in Ends \cup {"queued"}
    /\ \A c \in Rpcs : saw[c] # "none" => done[c] /\ saw[c] = WaitOutcome(c)

\* Worker w has taken request r, and has not made its ServerChannel.
InServe(w, r) == bridge[w].id = r /\ bridge[w].st = "serve"

\* A request that has come is in one queue, once, or at the beginning of one
\* bridge function, until its ServerChannel is made.
Placed ==
    /\ \A r \in Served, w \in PyPool : \A i : JobAt(w, i, "request", r) =>
         /\ rep[r] = "queued"
         /\ \A v \in PyPool : ~InServe(v, r)
         /\ \A v \in PyPool : \A j : JobAt(v, j, "request", r) => v = w /\ j = i
    /\ \A r \in Served, w \in PyPool : InServe(w, r) =>
         /\ rep[r] = "queued"
         /\ \A v \in PyPool : InServe(v, r) => v = w

\* The ServerChannel of a request has not been made.
Unmade == {"none", "queued"}

\* The server_channel of a request is deleted when its pointer is cleared or its
\* ServerChannel goes, and what ends the process is a cleared pointer.
Channels ==
    /\ \A r \in Served : rep[r] \in Unmade \cup {"ptr"} => sent[r] = 0 /\ dels[r] = 0
    /\ \A r \in Served : rep[r] = "null" => sent[r] = 1 /\ dels[r] = 1
    /\ \A r \in Served : rep[r] = "gone" => sent[r] <= 1 /\ dels[r] = 1
    /\ \A r \in Served : holds[r] => rep[r] \notin Unmade
    /\ \A w \in PyPool : bridge[w].st \in {"method", "leave"} => rep[bridge[w].id] \notin Unmade
    /\ crashed => \E r \in Served : rep[r] = "null"

PyInv == PyTypes /\ Owned /\ Bridged /\ Seen /\ Placed /\ Channels

-----------------------------------------------------------------------------
(* PyBinding: what steps do                                                *)

\* A worker goes from one step of its bridge function to another, or leaves it.
LEMMA BridgeFacts ==
    ASSUME PyTypes, NEW w \in PyPool, NEW from \in CallSteps \cup ServeSteps, NEW to,
           Bridge(w, from, to)
    PROVE  /\ bridge[w].st = from
           /\ from \in CallSteps => bridge[w].id \in Rpcs
           /\ from \in ServeSteps => bridge[w].id \in Served
           /\ \A v \in PyPool : v # w => bridge'[v] = bridge[v]
           /\ to = "idle" => bridge'[w] = NoBridge /\ bridge' \in [PyPool -> Bridges]
           /\ to # "idle" => bridge'[w].st = to /\ bridge'[w].id = bridge[w].id
           /\ from \in CallSteps /\ to \in CallSteps => bridge' \in [PyPool -> Bridges]
           /\ from \in ServeSteps /\ to \in ServeSteps => bridge' \in [PyPool -> Bridges]
<1>1. bridge \in [PyPool -> Bridges] /\ bridge[w].st = from
  BY DEF PyTypes, Bridge
<1>2. \/ bridge[w] \in [st : CallSteps, id : Rpcs]
      \/ bridge[w] \in [st : ServeSteps, id : Served]
  BY <1>1 DEF Bridges, NoBridge, CallSteps, ServeSteps
<1>3. /\ from \in CallSteps => bridge[w] \in [st : CallSteps, id : Rpcs]
      /\ from \in ServeSteps => bridge[w] \in [st : ServeSteps, id : Served]
  BY <1>1, <1>2 DEF CallSteps, ServeSteps
<1>4. bridge' = [bridge EXCEPT ![w] = IF to = "idle" THEN NoBridge ELSE [bridge[w] EXCEPT !.st = to]]
  BY DEF Bridge
<1>5. /\ bridge'[w] = IF to = "idle" THEN NoBridge ELSE [bridge[w] EXCEPT !.st = to]
      /\ \A v \in PyPool : v # w => bridge'[v] = bridge[v]
  BY <1>1, <1>4
<1>6. [bridge[w] EXCEPT !.st = to].st = to /\ [bridge[w] EXCEPT !.st = to].id = bridge[w].id
  BY <1>2
<1>7. /\ from \in CallSteps /\ to \in CallSteps => [bridge[w] EXCEPT !.st = to] \in Bridges
      /\ from \in ServeSteps /\ to \in ServeSteps => [bridge[w] EXCEPT !.st = to] \in Bridges
      /\ NoBridge \in Bridges
  BY <1>3 DEF Bridges
<1>8. "idle" \notin CallSteps \cup ServeSteps
  BY DEF CallSteps, ServeSteps
<1>9. bridge'[w] \in Bridges => bridge' \in [PyPool -> Bridges]
  BY <1>1, <1>4, <1>5
<1> QED BY <1>1, <1>3, <1>5, <1>6, <1>7, <1>8, <1>9

\* A bridge function for a call goes on with the same call.
LEMMA CallGoesOn ==
    ASSUME PyTypes, NEW w \in PyPool, NEW from \in CallSteps, NEW to \in CallSteps,
           Bridge(w, from, to), NEW v \in PyPool, NEW c
    PROVE  InBridge(v, c)' <=> InBridge(v, c)
<1>1. /\ bridge[w].st \in CallSteps /\ bridge'[w].st \in CallSteps
      /\ bridge'[w].id = bridge[w].id /\ \A u \in PyPool : u # w => bridge'[u] = bridge[u]
  BY BridgeFacts DEF CallSteps
<1> QED BY <1>1 DEF InBridge, CallSteps

\* A bridge function for a call ends.
LEMMA CallEnds ==
    ASSUME PyTypes, NEW w \in PyPool, NEW from \in CallSteps, Bridge(w, from, "idle"),
           NEW v \in PyPool, NEW c
    PROVE  InBridge(v, c)' <=> InBridge(v, c) /\ v # w
<1>1. bridge'[w] = NoBridge /\ \A u \in PyPool : u # w => bridge'[u] = bridge[u]
  BY BridgeFacts
<1> QED BY <1>1 DEF InBridge, NoBridge

\* A bridge function for a request is at none of the steps for calls.
LEMMA RequestGoesOn ==
    ASSUME PyTypes, NEW w \in PyPool, NEW from \in ServeSteps, NEW to \in ServeSteps \cup {"idle"},
           Bridge(w, from, to), NEW v \in PyPool, NEW c
    PROVE  InBridge(v, c)' <=> InBridge(v, c)
<1>1. /\ bridge[w].st \in ServeSteps /\ \A u \in PyPool : u # w => bridge'[u] = bridge[u]
      /\ bridge'[w].st \in ServeSteps \cup {"idle"}
  BY BridgeFacts DEF NoBridge
<1> QED BY <1>1 DEF InBridge, ServeSteps

\* A job is queued for a worker.
LEMMA JobAdded ==
    ASSUME PyTypes, NEW w \in PyPool, NEW m \in Jobs, todo' = [todo EXCEPT ![w] = Append(@, m)]
    PROVE  /\ todo' \in [PyPool -> Seq(Jobs)]
           /\ \E n : \A v \in PyPool : \A i, sort, id :
                /\ JobAt(v, i, sort, id) => JobAt(v, i, sort, id)'
                /\ JobAt(v, i, sort, id)' =>
                     \/ JobAt(v, i, sort, id)
                     \/ v = w /\ i = n /\ m.job = sort /\ m.id = id
<1>1. todo \in [PyPool -> Seq(Jobs)]
  BY DEF PyTypes
<1>2. todo' = With(todo, w, m)
  BY DEF With
<1>a. /\ With(todo, w, m) \in [PyPool -> Seq(Jobs)]
      /\ Pushed(todo, With(todo, w, m), PyPool, w, m)
  BY <1>1, Appended
<1>3. todo' \in [PyPool -> Seq(Jobs)] /\ Pushed(todo, todo', PyPool, w, m)
  BY <1>2, <1>a
<1>4. ASSUME NEW v \in PyPool, NEW i, NEW sort, NEW id
      PROVE  /\ JobAt(v, i, sort, id) => JobAt(v, i, sort, id)'
             /\ JobAt(v, i, sort, id)' =>
                  \/ JobAt(v, i, sort, id)
                  \/ v = w /\ i = Len(todo[w]) + 1 /\ m.job = sort /\ m.id = id
  BY <1>3 DEF Pushed, JobAt
<1> QED BY <1>3, <1>4

\* A worker takes its first job.
LEMMA JobTaken ==
    ASSUME PyTypes, NEW w \in PyPool, TakeJob(w)
    PROVE  /\ todo' \in [PyPool -> Seq(Jobs)] /\ Head(todo[w]) \in Jobs
           /\ JobAt(w, 1, Head(todo[w]).job, Head(todo[w]).id)
           /\ \A v \in PyPool : \A i, sort, id : v # w =>
                (JobAt(v, i, sort, id)' <=> JobAt(v, i, sort, id))
           /\ \A i, sort, id : JobAt(w, i, sort, id)' =>
                i \in Nat /\ i > 0 /\ JobAt(w, i + 1, sort, id)
<1>1. todo \in [PyPool -> Seq(Jobs)] /\ todo[w] # <<>> /\ todo' = Without(todo, w)
  BY DEF PyTypes, TakeJob, Without
<1>2. /\ todo' \in [PyPool -> Seq(Jobs)] /\ Popped(todo, todo', PyPool, w)
      /\ Head(todo[w]) \in Jobs
  BY <1>1, Removed
<1>3. JobAt(w, 1, Head(todo[w]).job, Head(todo[w]).id)
  BY <1>2 DEF Popped, JobAt
<1>4. ASSUME NEW v \in PyPool, NEW i, NEW sort, NEW id, v # w
      PROVE  JobAt(v, i, sort, id)' <=> JobAt(v, i, sort, id)
  BY <1>2, <1>4 DEF Popped, JobAt
<1>5. ASSUME NEW i, NEW sort, NEW id, JobAt(w, i, sort, id)'
      PROVE  i \in Nat /\ i > 0 /\ JobAt(w, i + 1, sort, id)
  BY <1>2, <1>5 DEF Popped, JobAt
<1> QED BY <1>2, <1>3, <1>4, <1>5

\* Every worker is told to quit after what it has to do.
LEMMA QuitAdded ==
    ASSUME PyTypes, todo' = JobsAndQuit
    PROVE  /\ todo' \in [PyPool -> Seq(Jobs)]
           /\ \A v \in PyPool : \A i, sort, id : sort # "quit" =>
                (JobAt(v, i, sort, id)' <=> JobAt(v, i, sort, id))
<1> DEFINE q == [job |-> "quit", id |-> 0]
<1>1. todo \in [PyPool -> Seq(Jobs)] /\ q \in Jobs /\ q.job = "quit"
  BY DEF PyTypes, Jobs
<1>2. todo' = [w \in PyPool |-> Append(todo[w], q)]
  BY DEF JobsAndQuit
<1> HIDE DEF q
<1>3. todo' \in [PyPool -> Seq(Jobs)]
  BY <1>1, <1>2
<1>4. ASSUME NEW v \in PyPool, NEW i, NEW sort, NEW id, sort # "quit"
      PROVE  JobAt(v, i, sort, id)' <=> JobAt(v, i, sort, id)
  <2>1. todo[v] \in Seq(Jobs) /\ todo'[v] = Append(todo[v], q)
    BY <1>1, <1>2
  <2>2. /\ Len(todo[v]) \in Nat /\ DOMAIN todo[v] = 1 .. Len(todo[v])
        /\ DOMAIN todo'[v] = 1 .. Len(todo[v]) + 1
        /\ todo'[v][Len(todo[v]) + 1] = q
        /\ \A j \in 1 .. Len(todo[v]) : todo'[v][j] = todo[v][j]
    BY <1>1, <2>1
  <2>3. \A j \in DOMAIN todo'[v] : j \in DOMAIN todo[v] \/ j = Len(todo[v]) + 1
    BY <2>2
  <2>4. DOMAIN todo[v] \subseteq DOMAIN todo'[v]
    BY <2>2
  <2> QED BY <1>1, <1>4, <2>2, <2>3, <2>4 DEF JobAt
<1> QED BY <1>3, <1>4

\* _RaiseRpcError() fails in its first comparison.
LEMMA OutcomeOfWait ==
    ASSUME NEW c
    PROVE  WaitOutcome(c) = IF status[c] = "ok" THEN "returned" ELSE "AttributeError"
<1>1. "APPLICATION_ERROR" \notin application_error_code
  BY DEF application_error_code
<1>2. Raised(c) = "AttributeError"
  BY <1>1 DEF Raised
<1> QED BY <1>2 DEF WaitOutcome, ok

-----------------------------------------------------------------------------
(* PyBinding: types                                                        *)

\* Every step of the binding keeps the types.
LEMMA NextPyTypes ==
    ASSUME PyTypes, [PyNext]_pyvars
    PROVE  PyTypes'
<1> USE DEF rpcVars, outcomeVars, serveVars
<1>0. /\ gil \in Runners \cup {NoHolder}
      /\ life \in [Rpcs -> {"none", "sent", "raised", "queued"} \cup Ends]
      /\ refs \in [Rpcs -> Int]
      /\ ctrl \in [Rpcs -> {"none", "live", "dead"}]
      /\ wrap \in [Rpcs -> {"none", "live", "freed"}]
      /\ done \in [Rpcs -> BOOLEAN]
      /\ status \in [Rpcs -> Statuses \cup {"active"}]
      /\ deadline \in [Rpcs -> BOOLEAN]
      /\ parsed \in [Rpcs -> BOOLEAN]
      /\ saw \in [Rpcs -> {"none", "returned", "AttributeError"}]
      /\ user \in [Rpcs -> {"none", "rpc", "waits"}]
      /\ caller \in [Rpcs -> Runners \cup {NoHolder}]
      /\ todo \in [PyPool -> Seq(Jobs)]
      /\ bridge \in [PyPool -> Bridges]
      /\ rep \in [Served -> {"none", "queued", "ptr", "null", "gone"}]
      /\ holds \in [Served -> BOOLEAN]
      /\ sent \in [Served -> Nat]
      /\ dels \in [Served -> Nat]
      /\ crashed \in BOOLEAN
      /\ running \in SUBSET PyPool
  BY DEF PyTypes
<1>e. "parse_raised" \in Ends /\ "callback_raised" \in Ends /\ "clean" \in Ends
  BY DEF Ends
<1>s. /\ "parse" \in CallSteps /\ "signal" \in CallSteps /\ "callback" \in CallSteps
      /\ "release" \in CallSteps /\ "serve" \in ServeSteps /\ "method" \in ServeSteps
      /\ "leave" \in ServeSteps
  BY DEF CallSteps, ServeSteps
<1>1. ASSUME NEW t \in Runners, NEW c \in Rpcs, NEW d \in BOOLEAN, CallMethod(t, c, d)
      PROVE  PyTypes'
  <2>1. /\ ctrl' \in [Rpcs -> {"none", "live", "dead"}]
        /\ wrap' \in [Rpcs -> {"none", "live", "freed"}]
        /\ refs' \in [Rpcs -> Int]
        /\ caller' \in [Rpcs -> Runners \cup {NoHolder}]
        /\ user' \in [Rpcs -> {"none", "rpc", "waits"}]
    BY <1>0, <1>1 DEF CallMethod, NewReferences
  <2>2. life' \in [Rpcs -> {"none", "sent", "raised", "queued"} \cup Ends]
    <3>1. life' = [life EXCEPT ![c] = "sent"] \/ life' = [life EXCEPT ![c] = "raised"]
      BY <1>1 DEF CallMethod
    <3> QED BY <1>0, <3>1
  <2>3. deadline' \in [Rpcs -> BOOLEAN]
    BY <1>0, <1>1 DEF CallMethod, SetDeadline
  <2> QED BY <1>0, <1>1, <2>1, <2>2, <2>3 DEF CallMethod, PyTypes
<1>2. ASSUME NEW t \in Runners, NEW c \in Rpcs, WaitRpc(t, c) PROVE PyTypes'
  BY <1>0, <1>2 DEF WaitRpc, PyTypes
<1>3. ASSUME NEW c \in Rpcs, WaitReturns(c) PROVE PyTypes'
  <2>1. WaitOutcome(c) \in {"returned", "AttributeError"}
    BY OutcomeOfWait
  <2>2. /\ saw' \in [Rpcs -> {"none", "returned", "AttributeError"}]
        /\ user' \in [Rpcs -> {"none", "rpc", "waits"}]
    BY <1>0, <1>3, <2>1 DEF WaitReturns
  <2> QED BY <1>0, <1>3, <2>2 DEF WaitReturns, PyTypes
<1>4. ASSUME NEW t \in Runners, NEW c \in Rpcs, DropRpc(t, c) PROVE PyTypes'
  <2>1. /\ refs' \in [Rpcs -> Int] /\ ctrl' \in [Rpcs -> {"none", "live", "dead"}]
        /\ user' \in [Rpcs -> {"none", "rpc", "waits"}]
    BY <1>0, <1>4 DEF DropRpc, Decref, dealloc
  <2> QED BY <1>0, <1>4, <2>1 DEF DropRpc, PyTypes
<1>5. ASSUME NEW w \in PyPool, NEW c \in Rpcs, NEW s \in Statuses, Answered(w, c, s)
      PROVE  PyTypes'
  <2>1. [job |-> "closure", id |-> c] \in Jobs
    BY DEF Jobs
  <2>2. todo' \in [PyPool -> Seq(Jobs)]
    BY <1>5, <2>1, JobAdded DEF Answered
  <2>3. /\ status' \in [Rpcs -> Statuses \cup {"active"}]
        /\ life' \in [Rpcs -> {"none", "sent", "raised", "queued"} \cup Ends]
    BY <1>0, <1>5 DEF Answered
  <2> QED BY <1>0, <1>5, <2>2, <2>3 DEF Answered, PyTypes
<1>6. ASSUME NEW w \in PyPool, TakeJob(w) PROVE PyTypes'
  <2> DEFINE j == Head(todo[w])
  <2>1. todo' \in [PyPool -> Seq(Jobs)] /\ j \in Jobs
    BY <1>6, JobTaken
  <2>2. /\ CASE j.job = "closure" -> /\ bridge' = [bridge EXCEPT ![w] = [st |-> "parse", id |-> j.id]]
                                      /\ UNCHANGED running
              [] j.job = "request" -> /\ bridge' = [bridge EXCEPT ![w] = [st |-> "serve", id |-> j.id]]
                                      /\ UNCHANGED running
              [] j.job = "quit"    -> running' = running \ {w} /\ UNCHANGED bridge
        /\ UNCHANGED <<gil, rpcVars, serveVars>>
    BY <1>6 DEF TakeJob
  <2> HIDE DEF j
  <2>3. /\ j.job = "closure" => [st |-> "parse", id |-> j.id] \in Bridges
        /\ j.job = "request" => [st |-> "serve", id |-> j.id] \in Bridges
        /\ j.job \in {"closure", "request", "quit"}
    BY <1>s, <2>1 DEF Jobs, Bridges
  <2>4. bridge' \in [PyPool -> Bridges] /\ running' \in SUBSET PyPool
    <3>1. CASE j.job = "closure"
      BY <1>0, <2>2, <2>3, <3>1
    <3>2. CASE j.job = "request"
      BY <1>0, <2>2, <2>3, <3>2
    <3>3. CASE j.job = "quit"
      BY <1>0, <2>2, <2>3, <3>3
    <3> QED BY <2>3, <3>1, <3>2, <3>3
  <2> QED BY <1>0, <2>1, <2>2, <2>4 DEF PyTypes
<1>7. ASSUME NEW w \in PyPool, BridgeParse(w) PROVE PyTypes'
  <2>1. bridge' \in [PyPool -> Bridges] /\ bridge[w].id \in Rpcs
    BY <1>7, <1>s, BridgeFacts DEF BridgeParse
  <2>2. /\ life' = life \/ life' = [life EXCEPT ![bridge[w].id] = "parse_raised"]
        /\ parsed' = parsed \/ parsed' = [parsed EXCEPT ![bridge[w].id] = TRUE]
    BY <1>7 DEF BridgeParse, Ended
  <2>3. life' \in [Rpcs -> {"none", "sent", "raised", "queued"} \cup Ends]
    BY <1>0, <1>e, <2>1, <2>2
  <2>4. parsed' \in [Rpcs -> BOOLEAN]
    BY <1>0, <2>1, <2>2
  <2> QED BY <1>0, <1>7, <2>1, <2>3, <2>4 DEF BridgeParse, PyTypes
<1>8. ASSUME NEW w \in PyPool, BridgeSignal(w) PROVE PyTypes'
  <2>1. bridge' \in [PyPool -> Bridges] /\ bridge[w].id \in Rpcs
    BY <1>8, <1>s, BridgeFacts DEF BridgeSignal
  <2>2. done' \in [Rpcs -> BOOLEAN]
    BY <1>0, <1>8, <2>1 DEF BridgeSignal, SignalNow
  <2> QED BY <1>0, <1>8, <2>1, <2>2 DEF BridgeSignal, PyTypes
<1>9. ASSUME NEW w \in PyPool, BridgeCallback(w) PROVE PyTypes'
  <2>1. bridge' \in [PyPool -> Bridges] /\ bridge[w].id \in Rpcs
    BY <1>9, <1>s, BridgeFacts DEF BridgeCallback
  <2>2. life' \in [Rpcs -> {"none", "sent", "raised", "queued"} \cup Ends]
    BY <1>0, <1>9, <1>e, <2>1 DEF BridgeCallback, Ended
  <2> QED BY <1>0, <1>9, <2>1, <2>2 DEF BridgeCallback, PyTypes
<1>10. ASSUME NEW w \in PyPool, BridgeRelease(w) PROVE PyTypes'
  <2>1. bridge' \in [PyPool -> Bridges] /\ bridge[w].id \in Rpcs
    BY <1>10, <1>s, BridgeFacts DEF BridgeRelease
  <2>2. /\ life' \in [Rpcs -> {"none", "sent", "raised", "queued"} \cup Ends]
        /\ refs' \in [Rpcs -> Int] /\ ctrl' \in [Rpcs -> {"none", "live", "dead"}]
        /\ wrap' \in [Rpcs -> {"none", "live", "freed"}]
    BY <1>0, <1>10, <1>e, <2>1 DEF BridgeRelease, Release, Decref, dealloc, Ended
  <2> QED BY <1>0, <1>10, <2>1, <2>2 DEF BridgeRelease, PyTypes
<1>11. ASSUME NEW w \in PyPool, NEW r \in Served, RequestComes(w, r) PROVE PyTypes'
  <2>1. [job |-> "request", id |-> r] \in Jobs
    BY DEF Jobs
  <2>2. todo' \in [PyPool -> Seq(Jobs)]
    BY <1>11, <2>1, JobAdded DEF RequestComes
  <2>3. rep' \in [Served -> {"none", "queued", "ptr", "null", "gone"}]
    BY <1>0, <1>11 DEF RequestComes
  <2> QED BY <1>0, <1>11, <2>2, <2>3 DEF RequestComes, PyTypes
<1>12. ASSUME NEW r \in Served, Send(r)
       PROVE  /\ rep' \in [Served -> {"none", "queued", "ptr", "null", "gone"}]
              /\ sent' \in [Served -> Nat] /\ dels' \in [Served -> Nat] /\ crashed' \in BOOLEAN
  <2>1. CASE rep[r] = "ptr"
    <3>1. /\ rep' = [rep EXCEPT ![r] = "null"] /\ UNCHANGED crashed
          /\ sent' = [sent EXCEPT ![r] = @ + 1] /\ dels' = [dels EXCEPT ![r] = @ + 1]
      BY <1>12, <2>1 DEF Send, ClearPointer
    <3> QED BY <1>0, <3>1
  <2>2. CASE rep[r] = "null"
    BY <1>0, <1>12, <2>2 DEF Send
  <2> QED BY <1>12, <2>1, <2>2 DEF Send
<1>13. ASSUME NEW r \in Served, ChannelDealloc(r)
       PROVE  /\ rep' \in [Served -> {"none", "queued", "ptr", "null", "gone"}]
              /\ sent' \in [Served -> Nat] /\ dels' \in [Served -> Nat] /\ crashed' \in BOOLEAN
  BY <1>0, <1>13 DEF ChannelDealloc
<1>14. ASSUME NEW w \in PyPool, RpcHandlerBridge(w) \/ MethodEnds(w) PROVE PyTypes'
  <2>1. bridge' \in [PyPool -> Bridges] /\ bridge[w].id \in Served
    BY <1>14, <1>s, BridgeFacts DEF RpcHandlerBridge, MethodEnds
  <2>2. rep' \in [Served -> {"none", "queued", "ptr", "null", "gone"}]
    BY <1>0, <1>14, <2>1 DEF RpcHandlerBridge, MethodEnds
  <2> QED BY <1>0, <1>14, <2>1, <2>2 DEF RpcHandlerBridge, MethodEnds, PyTypes
<1>15. ASSUME NEW w \in PyPool, MethodAnswers(w) PROVE PyTypes'
  <2>1. bridge' \in [PyPool -> Bridges] /\ bridge[w].id \in Served
    BY <1>15, <1>s, BridgeFacts DEF MethodAnswers
  <2> QED BY <1>0, <1>12, <1>15, <2>1 DEF MethodAnswers, PyTypes
<1>16. ASSUME NEW w \in PyPool, MethodKeeps(w) PROVE PyTypes'
  <2>1. bridge' \in [PyPool -> Bridges] /\ bridge[w].id \in Served
    BY <1>16, <1>s, BridgeFacts DEF MethodKeeps
  <2>2. holds' \in [Served -> BOOLEAN]
    BY <1>0, <1>16, <2>1 DEF MethodKeeps
  <2> QED BY <1>0, <1>16, <2>1, <2>2 DEF MethodKeeps, PyTypes
<1>17. ASSUME NEW w \in PyPool, BridgeLeave(w) PROVE PyTypes'
  <2>1. bridge' \in [PyPool -> Bridges] /\ bridge[w].id \in Served
    BY <1>17, <1>s, BridgeFacts DEF BridgeLeave
  <2> QED BY <1>0, <1>13, <1>17, <2>1 DEF BridgeLeave, PyTypes
<1>18. ASSUME NEW t \in Runners, NEW r \in Served, LaterSend(t, r) PROVE PyTypes'
  BY <1>0, <1>12, <1>18 DEF LaterSend, PyTypes
<1>19. ASSUME NEW t \in Runners, NEW r \in Served, LaterDrop(t, r) PROVE PyTypes'
  <2>1. holds' \in [Served -> BOOLEAN]
    BY <1>0, <1>19 DEF LaterDrop
  <2> QED BY <1>0, <1>13, <1>19, <2>1 DEF LaterDrop, PyTypes
<1>20. ASSUME NEW t \in Runners, Close(t) PROVE PyTypes'
  <2>1. todo' \in [PyPool -> Seq(Jobs)]
    BY <1>20, QuitAdded DEF Close
  <2> QED BY <1>0, <1>20, <2>1 DEF Close, PyTypes
<1>21. ASSUME NEW t \in Runners, Closed(t) PROVE PyTypes'
  BY <1>0, <1>21 DEF Closed, PyTypes
<1>22. CASE UNCHANGED pyvars
  BY <1>0, <1>22 DEF pyvars, PyTypes
<1> QED BY <1>1, <1>2, <1>3, <1>4, <1>5, <1>6, <1>7, <1>8, <1>9, <1>10, <1>11, <1>14, <1>15,
           <1>16, <1>17, <1>18, <1>19, <1>20, <1>21, <1>22 DEF PyNext, PythonStep, BridgeStep

-----------------------------------------------------------------------------
(* PyBinding: references                                                   *)

\* A bridge function at a step for calls works on a queued call.
LEMMA BridgeCall ==
    ASSUME PyTypes, Bridged, NEW w \in PyPool, bridge[w].st \in CallSteps
    PROVE  bridge[w].id \in Rpcs /\ InBridge(w, bridge[w].id) /\ life[bridge[w].id] = "queued"
<1>1. bridge[w] \in Bridges
  BY DEF PyTypes
<1>2. bridge[w].id \in Rpcs
  BY <1>1 DEF Bridges, NoBridge, CallSteps, ServeSteps
<1>3. InBridge(w, bridge[w].id)
  BY DEF InBridge, CallSteps
<1> QED BY <1>2, <1>3 DEF Bridged

\* Every step of the binding keeps the reference counts.
LEMMA NextOwned ==
    ASSUME PyTypes, Owned, Bridged, [PyNext]_pyvars
    PROVE  Owned'
<1> USE DEF rpcVars, outcomeVars
<1>0. /\ life \in [Rpcs -> {"none", "sent", "raised", "queued"} \cup Ends]
      /\ refs \in [Rpcs -> Int]
      /\ ctrl \in [Rpcs -> {"none", "live", "dead"}]
      /\ wrap \in [Rpcs -> {"none", "live", "freed"}]
      /\ user \in [Rpcs -> {"none", "rpc", "waits"}]
  BY DEF PyTypes
<1>a. ASSUME NEW c \in Rpcs, OwnedBy(c)',
             \A d \in Rpcs : d # c =>
                /\ life'[d] = life[d] /\ refs'[d] = refs[d] /\ ctrl'[d] = ctrl[d]
                /\ wrap'[d] = wrap[d] /\ user'[d] = user[d]
      PROVE  Owned'
  BY <1>a DEF Owned, OwnedBy
<1>b. CASE UNCHANGED <<life, refs, ctrl, wrap, user>>
  BY <1>b DEF Owned, OwnedBy
<1>1. ASSUME NEW t \in Runners, NEW c \in Rpcs, NEW d \in BOOLEAN, CallMethod(t, c, d)
      PROVE  Owned'
  <2>1. /\ ctrl' = [ctrl EXCEPT ![c] = "live"] /\ wrap' = [wrap EXCEPT ![c] = "live"]
        /\ refs' = [refs EXCEPT ![c] = 2] /\ user' = [user EXCEPT ![c] = "rpc"]
        /\ life' = [life EXCEPT ![c] = "sent"] \/ life' = [life EXCEPT ![c] = "raised"]
    BY <1>1 DEF CallMethod, NewReferences
  <2>2. OwnedBy(c)'
    BY <1>0, <2>1 DEF OwnedBy
  <2> QED BY <1>0, <1>a, <2>1, <2>2
<1>2. ASSUME NEW t \in Runners, NEW c \in Rpcs, WaitRpc(t, c) \/ WaitReturns(c) PROVE Owned'
  <2>1. /\ user[c] # "none" /\ user'[c] # "none"
        /\ \A d \in Rpcs : d # c => user'[d] = user[d]
        /\ UNCHANGED <<life, refs, ctrl, wrap>>
    BY <1>0, <1>2 DEF WaitRpc, WaitReturns
  <2>2. OwnedBy(c)'
    BY <2>1 DEF Owned, OwnedBy
  <2> QED BY <1>a, <2>1, <2>2
<1>3. ASSUME NEW c \in Rpcs, WaitReturns(c) PROVE Owned'
  <2>1. /\ user[c] # "none" /\ user'[c] # "none"
        /\ \A d \in Rpcs : d # c => user'[d] = user[d]
        /\ UNCHANGED <<life, refs, ctrl, wrap>>
    BY <1>0, <1>3 DEF WaitReturns
  <2>2. OwnedBy(c)'
    BY <2>1 DEF Owned, OwnedBy
  <2> QED BY <1>a, <2>1, <2>2
<1>4. ASSUME NEW t \in Runners, NEW c \in Rpcs, DropRpc(t, c) PROVE Owned'
  <2>1. /\ user[c] = "rpc" /\ user' = [user EXCEPT ![c] = "none"]
        /\ refs' = [refs EXCEPT ![c] = @ - 1]
        /\ ctrl' = [ctrl EXCEPT ![c] = IF refs[c] - 1 = 0 THEN "dead" ELSE @]
        /\ UNCHANGED <<life, wrap>>
    BY <1>4 DEF DropRpc, Decref, dealloc
  <2>2. OwnedBy(c)
    BY DEF Owned
  <2>3. /\ user'[c] = "none" /\ refs'[c] = refs[c] - 1
        /\ ctrl'[c] = IF refs[c] - 1 = 0 THEN "dead" ELSE ctrl[c]
    BY <1>0, <2>1
  <2>4. OwnedBy(c)'
    BY <2>1, <2>2, <2>3 DEF OwnedBy
  <2> QED BY <1>0, <1>a, <2>1, <2>4
<1>5. ASSUME NEW w \in PyPool, NEW c \in Rpcs, NEW s \in Statuses, Answered(w, c, s)
      PROVE  Owned'
  <2>1. /\ life[c] = "sent" /\ life' = [life EXCEPT ![c] = "queued"]
        /\ UNCHANGED <<refs, ctrl, wrap, user>>
    BY <1>5 DEF Answered
  <2>2. life'[c] = "queued"
    BY <1>0, <2>1
  <2>3. OwnedBy(c)'
    BY <2>1, <2>2 DEF Owned, OwnedBy
  <2> QED BY <1>0, <1>a, <2>1, <2>3
<1>6. ASSUME NEW w \in PyPool, TakeJob(w) PROVE Owned'
  BY <1>6, <1>b DEF TakeJob
<1>7. ASSUME NEW w \in PyPool, BridgeParse(w) \/ BridgeCallback(w) PROVE Owned'
  <2>1. bridge[w].st \in CallSteps
    BY <1>7 DEF BridgeParse, BridgeCallback, Bridge, CallSteps
  <2>2. PICK c \in Rpcs : c = bridge[w].id /\ life[c] = "queued"
    BY <2>1, BridgeCall
  <2>3. /\ UNCHANGED <<refs, ctrl, wrap, user>>
        /\ \/ UNCHANGED life
           \/ life' = [life EXCEPT ![c] = "parse_raised"]
           \/ life' = [life EXCEPT ![c] = "callback_raised"]
    BY <1>7, <2>2 DEF BridgeParse, BridgeCallback, Ended
  <2>4. life'[c] \in {"queued", "parse_raised", "callback_raised"}
    BY <1>0, <2>2, <2>3
  <2>5. OwnedBy(c)'
    BY <2>2, <2>3, <2>4 DEF Owned, OwnedBy
  <2> QED BY <1>0, <1>a, <2>3, <2>5
<1>8. ASSUME NEW w \in PyPool, BridgeSignal(w) PROVE Owned'
  BY <1>8, <1>b DEF BridgeSignal
<1>9. ASSUME NEW w \in PyPool, BridgeRelease(w) PROVE Owned'
  <2>1. bridge[w].st \in CallSteps
    BY <1>9 DEF BridgeRelease, Bridge, CallSteps
  <2>2. PICK c \in Rpcs : c = bridge[w].id /\ life[c] = "queued"
    BY <2>1, BridgeCall
  <2>3. /\ refs' = [refs EXCEPT ![c] = @ - 1]
        /\ ctrl' = [ctrl EXCEPT ![c] = IF refs[c] - 1 = 0 THEN "dead" ELSE @]
        /\ wrap' = [wrap EXCEPT ![c] = "freed"] /\ life' = [life EXCEPT ![c] = "clean"]
        /\ UNCHANGED user
    BY <1>9, <2>2 DEF BridgeRelease, Release, Decref, dealloc, Ended
  <2>4. /\ refs'[c] = refs[c] - 1 /\ wrap'[c] = "freed" /\ life'[c] = "clean"
        /\ ctrl'[c] = IF refs[c] - 1 = 0 THEN "dead" ELSE ctrl[c]
    BY <1>0, <2>3
  <2>5. OwnedBy(c)
    BY DEF Owned
  <2>6. OwnedBy(c)'
    BY <2>2, <2>3, <2>4, <2>5 DEF OwnedBy
  <2> QED BY <1>0, <1>a, <2>3, <2>6
<1>10. ASSUME NEW w \in PyPool,
              RpcHandlerBridge(w) \/ MethodAnswers(w) \/ MethodKeeps(w) \/ MethodEnds(w)
              \/ BridgeLeave(w) \/ \E r \in Served : RequestComes(w, r)
       PROVE  Owned'
  BY <1>10, <1>b DEF RpcHandlerBridge, MethodAnswers, MethodKeeps, MethodEnds, BridgeLeave,
                     RequestComes
<1>11. ASSUME NEW t \in Runners,
              Close(t) \/ Closed(t) \/ \E r \in Served : LaterSend(t, r) \/ LaterDrop(t, r)
       PROVE  Owned'
  BY <1>11, <1>b DEF Close, Closed, LaterSend, LaterDrop
<1>12. CASE UNCHANGED pyvars
  BY <1>12, <1>b DEF pyvars
<1> QED BY <1>1, <1>2, <1>3, <1>4, <1>5, <1>6, <1>7, <1>8, <1>9, <1>10, <1>11, <1>12
        DEF PyNext, PythonStep, BridgeStep

-----------------------------------------------------------------------------
(* PyBinding: the closure of a call                                        *)

\* Every step of the binding keeps the closure of a call in one place.
LEMMA NextBridged ==
    ASSUME PyTypes, Owned, Bridged, [PyNext]_pyvars
    PROVE  Bridged'
<1> USE DEF rpcVars, outcomeVars, serveVars
<1>0. /\ life \in [Rpcs -> {"none", "sent", "raised", "queued"} \cup Ends]
      /\ bridge \in [PyPool -> Bridges]
  BY DEF PyTypes
<1>s. /\ "parse" \in CallSteps /\ "signal" \in CallSteps /\ "callback" \in CallSteps
      /\ "release" \in CallSteps /\ "serve" \in ServeSteps /\ "method" \in ServeSteps
      /\ "leave" \in ServeSteps
  BY DEF CallSteps, ServeSteps
<1>a. ASSUME \A w \in PyPool, c \in Rpcs : InBridge(w, c)' => InBridge(w, c),
             \A w \in PyPool, c \in Rpcs : \A i :
                JobAt(w, i, "closure", c)' => JobAt(w, i, "closure", c),
             \A c \in Rpcs : life[c] = "queued" =>
                \/ life'[c] = "queued"
                \/ /\ \A w \in PyPool : ~InBridge(w, c)'
                   /\ \A w \in PyPool : \A i : ~JobAt(w, i, "closure", c)
      PROVE  Bridged'
  BY <1>a DEF Bridged
<1>t. ASSUME UNCHANGED todo, NEW w, NEW i, NEW sort, NEW c
      PROVE  JobAt(w, i, sort, c)' <=> JobAt(w, i, sort, c)
  BY <1>t DEF JobAt
<1>b. ASSUME UNCHANGED bridge, NEW w, NEW c PROVE InBridge(w, c)' <=> InBridge(w, c)
  BY <1>b DEF InBridge
<1>1. ASSUME NEW t \in Runners, NEW c \in Rpcs, NEW d \in BOOLEAN, CallMethod(t, c, d)
      PROVE  Bridged'
  <2>1. /\ life' = [life EXCEPT ![c] = "sent"] \/ life' = [life EXCEPT ![c] = "raised"]
        /\ ctrl[c] = "none" /\ UNCHANGED <<todo, bridge>>
    BY <1>1 DEF CallMethod
  <2>2. life[c] = "none"
    BY <1>0, <2>1 DEF Owned, OwnedBy
  <2>3. \A e \in Rpcs : life[e] = "queued" => life'[e] = "queued"
    BY <1>0, <2>1, <2>2
  <2> QED BY <1>a, <1>b, <1>t, <2>1, <2>3
<1>2. ASSUME NEW c \in Rpcs,
             WaitReturns(c) \/ \E t \in Runners : WaitRpc(t, c) \/ DropRpc(t, c)
      PROVE  Bridged'
  <2>1. UNCHANGED <<life, todo, bridge>>
    BY <1>2 DEF WaitReturns, WaitRpc, DropRpc
  <2> QED BY <1>a, <1>b, <1>t, <2>1
<1>5. ASSUME NEW w \in PyPool, NEW c \in Rpcs, NEW s \in Statuses, Answered(w, c, s)
      PROVE  Bridged'
  <2> DEFINE m == [job |-> "closure", id |-> c]
  <2>1. m \in Jobs /\ m.id = c /\ m.job = "closure"
    BY DEF Jobs
  <2>2. /\ life[c] = "sent" /\ life' = [life EXCEPT ![c] = "queued"]
        /\ todo' = [todo EXCEPT ![w] = Append(@, m)] /\ UNCHANGED bridge
    BY <1>5 DEF Answered
  <2> HIDE DEF m
  <2>3. PICK n : \A v \in PyPool : \A i, sort, id :
                /\ JobAt(v, i, sort, id) => JobAt(v, i, sort, id)'
                /\ JobAt(v, i, sort, id)' =>
                     \/ JobAt(v, i, sort, id)
                     \/ v = w /\ i = n /\ m.job = sort /\ m.id = id
    BY <2>1, <2>2, JobAdded
  <2>4. /\ \A v \in PyPool : ~InBridge(v, c)
        /\ \A v \in PyPool : \A i : ~JobAt(v, i, "closure", c)
    BY <2>2 DEF Bridged
  <2>5. \A v \in PyPool, e \in Rpcs : InBridge(v, e)' <=> InBridge(v, e)
    BY <1>b, <2>2
  <2>6. life'[c] = "queued" /\ \A e \in Rpcs : e # c => life'[e] = life[e]
    BY <1>0, <2>2
  <2>7. \A v \in PyPool, e \in Rpcs : \A i : JobAt(v, i, "closure", e)' =>
             \/ e # c /\ JobAt(v, i, "closure", e)
             \/ e = c /\ v = w /\ i = n
    BY <2>1, <2>3, <2>4
  <2> QED BY <2>4, <2>5, <2>6, <2>7 DEF Bridged
<1>6. ASSUME NEW w \in PyPool, TakeJob(w) PROVE Bridged'
  <2> DEFINE j == Head(todo[w])
  <2>1. /\ j \in Jobs /\ JobAt(w, 1, j.job, j.id)
        /\ \A v \in PyPool : \A i, sort, id : v # w =>
             (JobAt(v, i, sort, id)' <=> JobAt(v, i, sort, id))
        /\ \A i, sort, id : JobAt(w, i, sort, id)' =>
             i \in Nat /\ i > 0 /\ JobAt(w, i + 1, sort, id)
    BY <1>6, JobTaken
  <2>2. /\ CASE j.job = "closure" -> /\ bridge' = [bridge EXCEPT ![w] = [st |-> "parse", id |-> j.id]]
                                      /\ UNCHANGED running
              [] j.job = "request" -> /\ bridge' = [bridge EXCEPT ![w] = [st |-> "serve", id |-> j.id]]
                                      /\ UNCHANGED running
              [] j.job = "quit"    -> running' = running \ {w} /\ UNCHANGED bridge
        /\ UNCHANGED life /\ bridge[w] = NoBridge
    BY <1>6 DEF TakeJob
  <2> HIDE DEF j
  <2>3. /\ j.job \in {"closure", "request", "quit"}
        /\ j.job = "closure" => j.id \in Rpcs
    BY <2>1 DEF Jobs
  <2>4. \A v \in PyPool, c \in Rpcs : \A i : JobAt(v, i, "closure", c)' =>
           \E k : /\ JobAt(v, k, "closure", c)
                  /\ v = w => i \in Nat /\ i > 0 /\ k = i + 1
                  /\ v # w => k = i
    BY <2>1
  <2>5. \A c \in Rpcs : ~InBridge(w, c)
    BY <2>2 DEF InBridge, NoBridge
  <2>6. ASSUME NEW c \in Rpcs, NEW v \in PyPool, NEW i, JobAt(v, i, "closure", c)'
        PROVE  /\ life'[c] = "queued"
               /\ \A u \in PyPool : \A k : JobAt(u, k, "closure", c)' => u = v /\ k = i
               /\ \A u \in PyPool : ~InBridge(u, c)
               /\ ~JobAt(w, 1, "closure", c)
    <3>1. PICK k : /\ JobAt(v, k, "closure", c)
                   /\ v = w => i \in Nat /\ i > 0 /\ k = i + 1
                   /\ v # w => k = i
      BY <2>4, <2>6
    <3>2. /\ life[c] = "queued" /\ \A u \in PyPool : ~InBridge(u, c)
          /\ \A u \in PyPool : \A l : JobAt(u, l, "closure", c) => u = v /\ l = k
      BY <3>1 DEF Bridged
    <3>3. ASSUME NEW u \in PyPool, NEW l, JobAt(u, l, "closure", c)' PROVE u = v /\ l = i
      <4>1. PICK h : /\ JobAt(u, h, "closure", c)
                     /\ u = w => l \in Nat /\ l > 0 /\ h = l + 1
                     /\ u # w => h = l
        BY <2>4, <3>3
      <4>2. u = v /\ h = k
        BY <3>2, <4>1
      <4> QED BY <3>1, <4>1, <4>2
    <3>4. ~JobAt(w, 1, "closure", c)
      BY <3>1, <3>2
    <3> QED BY <2>2, <3>2, <3>3, <3>4
  <2>7. CASE j.job = "closure"
    <3>1. PICK d \in Rpcs : d = j.id
      BY <2>3, <2>7
    <3>2. /\ bridge'[w] = [st |-> "parse", id |-> d]
          /\ \A v \in PyPool : v # w => bridge'[v] = bridge[v]
      BY <1>0, <2>2, <2>7, <3>1
    <3>3. \A v \in PyPool, c \in Rpcs : InBridge(v, c)' <=>
             IF v = w THEN c = d ELSE InBridge(v, c)
      BY <3>2 DEF InBridge
    <3>4. JobAt(w, 1, "closure", d)
      BY <2>1, <2>7, <3>1
    <3>5. life[d] = "queued" /\ \A v \in PyPool : ~InBridge(v, d)
      BY <3>4 DEF Bridged
    <3>6. \A c \in Rpcs, v \in PyPool : InBridge(v, c)' =>
             /\ life'[c] = "queued"
             /\ \A u \in PyPool : InBridge(u, c)' => u = v
      BY <2>2, <3>3, <3>5 DEF Bridged
    <3>7. \A c \in Rpcs, v \in PyPool : \A i : JobAt(v, i, "closure", c)' =>
             \A u \in PyPool : ~InBridge(u, c)'
      BY <2>6, <3>3, <3>4
    <3> QED BY <2>6, <3>6, <3>7 DEF Bridged
  <2>8. CASE j.job # "closure"
    <3>1. /\ \A v \in PyPool : v # w => bridge'[v] = bridge[v]
          /\ bridge'[w].st \in {"serve", "idle"}
      <4>1. CASE j.job = "request"
        <5>1. bridge' = [bridge EXCEPT ![w] = [st |-> "serve", id |-> j.id]]
          BY <2>2, <4>1
        <5> QED BY <1>0, <5>1
      <4>2. CASE j.job = "quit"
        <5>1. UNCHANGED bridge
          BY <2>2, <4>2
        <5> QED BY <2>2, <5>1 DEF NoBridge
      <4> QED BY <2>3, <2>8, <4>1, <4>2
    <3>2. \A v \in PyPool, c \in Rpcs : InBridge(v, c)' <=> InBridge(v, c)
      BY <2>5, <3>1 DEF InBridge
    <3> QED BY <2>2, <2>6, <3>2 DEF Bridged
  <2> QED BY <2>7, <2>8
<1>7. ASSUME NEW w \in PyPool, BridgeParse(w) \/ BridgeCallback(w) \/ BridgeRelease(w)
      PROVE  Bridged'
  <2>1. bridge[w].st \in CallSteps
    BY <1>7 DEF BridgeParse, BridgeCallback, BridgeRelease, Bridge, CallSteps
  <2>2. PICK c \in Rpcs : c = bridge[w].id /\ InBridge(w, c)
    BY <2>1, BridgeCall
  <2>3. UNCHANGED todo
    BY <1>7 DEF BridgeParse, BridgeCallback, BridgeRelease
  <2>4. CASE UNCHANGED life
    <3>1. Bridge(w, "parse", "signal") \/ Bridge(w, "parse", "idle")
          \/ Bridge(w, "callback", "release") \/ Bridge(w, "callback", "idle")
          \/ Bridge(w, "release", "idle")
      BY <1>7 DEF BridgeParse, BridgeCallback, BridgeRelease
    <3>2. \A v \in PyPool, d \in Rpcs : InBridge(v, d)' => InBridge(v, d)
      BY <1>s, <3>1, CallGoesOn, CallEnds
    <3> QED BY <1>a, <1>t, <2>3, <2>4, <3>2
  <2>5. CASE ~UNCHANGED life
    <3>1. /\ Bridge(w, "parse", "idle") \/ Bridge(w, "callback", "idle") \/ Bridge(w, "release", "idle")
          /\ \E how : life' = [life EXCEPT ![c] = how]
      BY <1>7, <2>2, <2>5 DEF BridgeParse, BridgeCallback, BridgeRelease, Ended
    <3>2. \A v \in PyPool, d \in Rpcs : InBridge(v, d)' <=> InBridge(v, d) /\ v # w
      BY <1>s, <3>1, CallEnds
    <3>3. \A d \in Rpcs : d # c => life'[d] = life[d]
      BY <1>0, <3>1
    <3>4. /\ \A v \in PyPool : ~InBridge(v, c)'
          /\ \A v \in PyPool : \A i : ~JobAt(v, i, "closure", c)
      BY <2>2, <3>2 DEF Bridged
    <3> QED BY <1>a, <1>t, <2>3, <3>2, <3>3, <3>4
  <2> QED BY <2>4, <2>5
<1>8. ASSUME NEW w \in PyPool, BridgeSignal(w) PROVE Bridged'
  <2>1. UNCHANGED <<life, todo>> /\ Bridge(w, "signal", "callback")
    BY <1>8 DEF BridgeSignal
  <2>2. \A v \in PyPool, d \in Rpcs : InBridge(v, d)' <=> InBridge(v, d)
    BY <1>s, <2>1, CallGoesOn
  <2> QED BY <1>a, <1>t, <2>1, <2>2
<1>9. ASSUME NEW w \in PyPool, NEW r \in Served, RequestComes(w, r) PROVE Bridged'
  <2> DEFINE m == [job |-> "request", id |-> r]
  <2>1. m \in Jobs /\ m.job = "request"
    BY DEF Jobs
  <2>2. todo' = [todo EXCEPT ![w] = Append(@, m)] /\ UNCHANGED <<bridge, life>>
    BY <1>9 DEF RequestComes
  <2> HIDE DEF m
  <2>3. PICK n : \A v \in PyPool : \A i, sort, id :
                /\ JobAt(v, i, sort, id) => JobAt(v, i, sort, id)'
                /\ JobAt(v, i, sort, id)' =>
                     \/ JobAt(v, i, sort, id)
                     \/ v = w /\ i = n /\ m.job = sort /\ m.id = id
    BY <2>1, <2>2, JobAdded
  <2>4. \A v \in PyPool, c \in Rpcs : \A i :
           JobAt(v, i, "closure", c)' => JobAt(v, i, "closure", c)
    BY <2>1, <2>3
  <2> QED BY <1>a, <1>b, <2>2, <2>4
<1>10. ASSUME NEW w \in PyPool,
              RpcHandlerBridge(w) \/ MethodAnswers(w) \/ MethodKeeps(w) \/ MethodEnds(w)
              \/ BridgeLeave(w)
       PROVE  Bridged'
  <2>1. /\ UNCHANGED <<life, todo>>
        /\ \/ Bridge(w, "serve", "method") \/ Bridge(w, "method", "leave")
           \/ Bridge(w, "method", "method") \/ Bridge(w, "method", "idle")
           \/ Bridge(w, "leave", "idle")
    BY <1>10 DEF RpcHandlerBridge, MethodAnswers, MethodKeeps, MethodEnds, BridgeLeave
  <2>2. \A v \in PyPool, c \in Rpcs : InBridge(v, c)' <=> InBridge(v, c)
    BY <1>s, <2>1, RequestGoesOn
  <2> QED BY <1>a, <1>t, <2>1, <2>2
<1>11. ASSUME NEW t \in Runners, Closed(t) \/ \E r \in Served : LaterSend(t, r) \/ LaterDrop(t, r)
       PROVE  Bridged'
  <2>1. UNCHANGED <<life, todo, bridge>>
    BY <1>11 DEF Closed, LaterSend, LaterDrop
  <2> QED BY <1>a, <1>b, <1>t, <2>1
<1>12. ASSUME NEW t \in Runners, Close(t) PROVE Bridged'
  <2>1. UNCHANGED <<life, bridge>> /\ todo' = JobsAndQuit
    BY <1>12 DEF Close
  <2>2. \A v \in PyPool, c \in Rpcs : \A i :
           JobAt(v, i, "closure", c)' <=> JobAt(v, i, "closure", c)
    BY <2>1, QuitAdded
  <2> QED BY <1>a, <1>b, <2>1, <2>2
<1>13. CASE UNCHANGED pyvars
  BY <1>13, <1>a, <1>b, <1>t DEF pyvars
<1> QED BY <1>1, <1>2, <1>5, <1>6, <1>7, <1>8, <1>9, <1>10, <1>11, <1>12, <1>13
        DEF PyNext, PythonStep, BridgeStep

-----------------------------------------------------------------------------
(* PyBinding: what wait() sees                                             *)

\* What wait() does depends on the status only.
LEMMA OutcomeKept ==
    ASSUME NEW c, status'[c] = status[c]
    PROVE  WaitOutcome(c)' = WaitOutcome(c)
BY DEF WaitOutcome, ok, Raised, get_status

\* Every step of the binding keeps the order in which a call completes.
LEMMA NextSeen ==
    ASSUME PyTypes, Owned, Bridged, Seen, [PyNext]_pyvars
    PROVE  Seen'
<1> USE DEF rpcVars, outcomeVars, serveVars
<1> DEFINE E == Ends \cup {"queued"}
           L == CallSteps \ {"parse"}
<1>0. /\ life \in [Rpcs -> {"none", "sent", "raised", "queued"} \cup Ends]
      /\ status \in [Rpcs -> Statuses \cup {"active"}]
      /\ done \in [Rpcs -> BOOLEAN]
      /\ parsed \in [Rpcs -> BOOLEAN]
      /\ saw \in [Rpcs -> {"none", "returned", "AttributeError"}]
      /\ bridge \in [PyPool -> Bridges]
  BY DEF PyTypes
<1>e. /\ "parse_raised" \in E /\ "callback_raised" \in E /\ "clean" \in E /\ "queued" \in E
      /\ "none" \notin E /\ "sent" \notin E /\ "raised" \notin E
  BY DEF Ends
<1>s. /\ "parse" \in CallSteps /\ "signal" \in CallSteps /\ "callback" \in CallSteps
      /\ "release" \in CallSteps /\ "serve" \in ServeSteps /\ "method" \in ServeSteps
      /\ "leave" \in ServeSteps
  BY DEF CallSteps, ServeSteps
<1>l. /\ "signal" \in L /\ "callback" \in L /\ "release" \in L
      /\ "parse" \notin L /\ "idle" \notin L /\ L \cap ServeSteps = {} /\ L \subseteq CallSteps
  BY DEF CallSteps, ServeSteps
<1>d. /\ \A c \in Rpcs : life[c] \in E => status[c] \in Statuses
      /\ \A w \in PyPool : bridge[w].st \in L => parsed[bridge[w].id]
      /\ \A c \in Rpcs : done[c] => parsed[c] /\ life[c] \in E
      /\ \A c \in Rpcs : saw[c] # "none" => done[c] /\ saw[c] = WaitOutcome(c)
  BY DEF Seen
<1>f. ASSUME \A c \in Rpcs : life'[c] \in E => status'[c] \in Statuses,
             \A w \in PyPool : bridge'[w].st \in L => parsed'[bridge'[w].id],
             \A c \in Rpcs : done'[c] => parsed'[c] /\ life'[c] \in E,
             \A c \in Rpcs : saw'[c] # "none" => done'[c] /\ saw'[c] = WaitOutcome(c)'
      PROVE  Seen'
  BY <1>f DEF Seen
<1> HIDE DEF E, L
<1>a. ASSUME UNCHANGED <<status, done, saw>>,
             \A c \in Rpcs : life'[c] \in E <=> life[c] \in E,
             \A c \in Rpcs : parsed[c] => parsed'[c],
             \A w \in PyPool : bridge'[w].st \in L => parsed'[bridge'[w].id]
      PROVE  Seen'
  <2>1. \A c \in Rpcs : WaitOutcome(c)' = WaitOutcome(c)
    BY <1>a, OutcomeKept
  <2> QED BY <1>a, <1>d, <1>f, <2>1
<1>b. ASSUME UNCHANGED <<life, status, parsed, done, saw>>,
             \A w \in PyPool : bridge'[w].st \in L => bridge'[w] = bridge[w]
      PROVE  Seen'
  BY <1>a, <1>b, <1>d
<1>1. ASSUME NEW t \in Runners, NEW c \in Rpcs, NEW d \in BOOLEAN, CallMethod(t, c, d)
      PROVE  Seen'
  <2>1. /\ life' = [life EXCEPT ![c] = "sent"] \/ life' = [life EXCEPT ![c] = "raised"]
        /\ ctrl[c] = "none" /\ UNCHANGED <<status, done, saw, parsed, bridge>>
    BY <1>1 DEF CallMethod
  <2>2. life[c] = "none"
    BY <1>0, <2>1 DEF Owned, OwnedBy
  <2>3. \A e \in Rpcs : life'[e] \in E <=> life[e] \in E
    BY <1>0, <1>e, <2>1, <2>2
  <2> QED BY <1>a, <1>d, <2>1, <2>3
<1>2. ASSUME NEW t \in Runners, NEW c \in Rpcs, WaitRpc(t, c) \/ DropRpc(t, c) PROVE Seen'
  BY <1>2, <1>b DEF WaitRpc, DropRpc
<1>3. ASSUME NEW c \in Rpcs, WaitReturns(c) PROVE Seen'
  <2>1. /\ done[c] /\ saw' = [saw EXCEPT ![c] = WaitOutcome(c)]
        /\ UNCHANGED <<life, status, parsed, done, bridge>>
    BY <1>3 DEF WaitReturns
  <2>2. \A e \in Rpcs : WaitOutcome(e)' = WaitOutcome(e)
    BY <2>1, OutcomeKept
  <2>3. \A e \in Rpcs : saw'[e] # "none" => done'[e] /\ saw'[e] = WaitOutcome(e)'
    BY <1>0, <1>d, <2>1, <2>2
  <2> QED BY <1>d, <1>f, <2>1, <2>3
<1>4. ASSUME NEW w \in PyPool, NEW c \in Rpcs, NEW s \in Statuses, Answered(w, c, s)
      PROVE  Seen'
  <2>1. /\ life[c] = "sent" /\ life' = [life EXCEPT ![c] = "queued"]
        /\ status' = [status EXCEPT ![c] = s]
        /\ UNCHANGED <<parsed, done, saw, bridge>>
    BY <1>4 DEF Answered
  <2>2. ~done[c] /\ saw[c] = "none"
    BY <1>0, <1>d, <1>e, <2>1
  <2>3. /\ life'[c] = "queued" /\ status'[c] = s
        /\ \A e \in Rpcs : e # c => life'[e] = life[e] /\ status'[e] = status[e]
    BY <1>0, <2>1
  <2>4. \A e \in Rpcs : e # c => WaitOutcome(e)' = WaitOutcome(e)
    BY <2>3, OutcomeKept
  <2>5. \A e \in Rpcs : life'[e] \in E => status'[e] \in Statuses
    BY <1>d, <2>3
  <2>6. \A e \in Rpcs : done'[e] => parsed'[e] /\ life'[e] \in E
    BY <1>d, <1>e, <2>1, <2>2, <2>3
  <2>7. \A e \in Rpcs : saw'[e] # "none" => done'[e] /\ saw'[e] = WaitOutcome(e)'
    BY <1>d, <2>1, <2>2, <2>4
  <2> QED BY <1>d, <1>f, <2>1, <2>5, <2>6, <2>7
<1>5. ASSUME NEW w \in PyPool, TakeJob(w) PROVE Seen'
  <2> DEFINE j == Head(todo[w])
  <2>1. j \in Jobs
    BY <1>5, JobTaken
  <2>2. /\ CASE j.job = "closure" -> /\ bridge' = [bridge EXCEPT ![w] = [st |-> "parse", id |-> j.id]]
                                      /\ UNCHANGED running
              [] j.job = "request" -> /\ bridge' = [bridge EXCEPT ![w] = [st |-> "serve", id |-> j.id]]
                                      /\ UNCHANGED running
              [] j.job = "quit"    -> running' = running \ {w} /\ UNCHANGED bridge
        /\ UNCHANGED <<life, status, parsed, done, saw>>
    BY <1>5 DEF TakeJob
  <2> HIDE DEF j
  <2>3. j.job \in {"closure", "request", "quit"}
    BY <2>1 DEF Jobs
  <2>4. \/ bridge' = [bridge EXCEPT ![w] = [st |-> "parse", id |-> j.id]]
        \/ bridge' = [bridge EXCEPT ![w] = [st |-> "serve", id |-> j.id]]
        \/ UNCHANGED bridge
    <3>1. CASE j.job = "closure"
      BY <2>2, <3>1
    <3>2. CASE j.job = "request"
      BY <2>2, <3>2
    <3>3. CASE j.job = "quit"
      BY <2>2, <3>3
    <3> QED BY <2>3, <3>1, <3>2, <3>3
  <2>5. \A v \in PyPool : bridge'[v].st \in L => bridge'[v] = bridge[v]
    BY <1>0, <1>l, <1>s, <2>4
  <2> QED BY <1>b, <2>2, <2>5
<1>6. ASSUME NEW w \in PyPool, BridgeParse(w) PROVE Seen'
  <2>1. PICK c \in Rpcs : c = bridge[w].id /\ life[c] = "queued"
    <3>1. bridge[w].st \in CallSteps
      BY <1>6 DEF BridgeParse, Bridge, CallSteps
    <3> QED BY <3>1, BridgeCall
  <2>2. UNCHANGED <<status, done, saw>>
    BY <1>6 DEF BridgeParse
  <2>3. CASE Bridge(w, "parse", "signal") /\ UNCHANGED life /\ parsed' = [parsed EXCEPT ![c] = TRUE]
    <3>1. /\ bridge'[w].id = c /\ \A v \in PyPool : v # w => bridge'[v] = bridge[v]
      BY <1>s, <2>1, <2>3, BridgeFacts
    <3>2. parsed'[c] /\ \A e \in Rpcs : parsed[e] => parsed'[e]
      BY <1>0, <2>3
    <3>3. \A v \in PyPool : bridge[v].st \in L => bridge[v].id \in Rpcs
      BY <1>l, BridgeCall
    <3>4. \A v \in PyPool : bridge'[v].st \in L => parsed'[bridge'[v].id]
      BY <1>d, <3>1, <3>2, <3>3
    <3> QED BY <1>a, <2>2, <2>3, <3>2, <3>4
  <2>4. CASE Bridge(w, "parse", "idle") /\ Ended(c, "parse_raised") /\ UNCHANGED parsed
    <3>1. /\ bridge'[w] = NoBridge /\ \A v \in PyPool : v # w => bridge'[v] = bridge[v]
      BY <1>s, <2>4, BridgeFacts
    <3>2. \A e \in Rpcs : life'[e] \in E <=> life[e] \in E
      BY <1>0, <1>e, <2>1, <2>4 DEF Ended
    <3>3. \A v \in PyPool : bridge'[v].st \in L => parsed'[bridge'[v].id]
      BY <1>d, <1>l, <2>4, <3>1 DEF NoBridge
    <3> QED BY <1>a, <2>2, <2>4, <3>2, <3>3
  <2> QED BY <1>6, <2>1, <2>3, <2>4 DEF BridgeParse
<1>7. ASSUME NEW w \in PyPool, BridgeSignal(w) PROVE Seen'
  <2>1. /\ Bridge(w, "signal", "callback") /\ done' = [done EXCEPT ![bridge[w].id] = TRUE]
        /\ UNCHANGED <<status, parsed, saw, life>>
    BY <1>7 DEF BridgeSignal, SignalNow
  <2>2. bridge[w].st = "signal"
    BY <2>1 DEF Bridge
  <2>3. PICK c \in Rpcs : c = bridge[w].id /\ life[c] = "queued"
    BY <1>s, <2>2, BridgeCall
  <2>4. parsed[c]
    BY <1>d, <1>l, <2>2, <2>3
  <2>5. done'[c] /\ \A e \in Rpcs : e # c => done'[e] = done[e]
    BY <1>0, <2>1, <2>3
  <2>6. \A e \in Rpcs : done'[e] => parsed'[e] /\ life'[e] \in E
    BY <1>d, <1>e, <2>1, <2>3, <2>4, <2>5
  <2>7. bridge'[w].id = c /\ \A v \in PyPool : v # w => bridge'[v] = bridge[v]
    BY <1>s, <2>1, <2>3, BridgeFacts
  <2>8. \A v \in PyPool : bridge'[v].st \in L => parsed'[bridge'[v].id]
    BY <1>d, <2>1, <2>4, <2>7
  <2>9. \A e \in Rpcs : WaitOutcome(e)' = WaitOutcome(e)
    BY <2>1, OutcomeKept
  <2>10. \A e \in Rpcs : saw'[e] # "none" => done'[e] /\ saw'[e] = WaitOutcome(e)'
    BY <1>d, <2>1, <2>5, <2>9
  <2> QED BY <1>d, <1>f, <2>1, <2>6, <2>8, <2>10
<1>8. ASSUME NEW w \in PyPool, BridgeCallback(w) \/ BridgeRelease(w) PROVE Seen'
  <2>1. UNCHANGED <<status, done, saw, parsed>>
    BY <1>8 DEF BridgeCallback, BridgeRelease
  <2>2. bridge[w].st \in L
    BY <1>8, <1>l DEF BridgeCallback, BridgeRelease, Bridge
  <2>3. PICK c \in Rpcs : c = bridge[w].id /\ life[c] = "queued" /\ parsed[c]
    BY <1>d, <1>l, <2>2, BridgeCall
  <2>4. /\ Bridge(w, "callback", "release") \/ Bridge(w, "callback", "idle")
           \/ Bridge(w, "release", "idle")
        /\ \/ UNCHANGED life
           \/ life' = [life EXCEPT ![c] = "callback_raised"]
           \/ life' = [life EXCEPT ![c] = "clean"]
    BY <1>8, <2>3 DEF BridgeCallback, BridgeRelease, Ended
  <2>5. \A e \in Rpcs : life'[e] \in E <=> life[e] \in E
    BY <1>0, <1>e, <2>3, <2>4
  <2>6. /\ bridge'[w] = NoBridge \/ bridge'[w].id = c
        /\ \A v \in PyPool : v # w => bridge'[v] = bridge[v]
    BY <1>s, <2>3, <2>4, BridgeFacts
  <2>7. \A v \in PyPool : bridge'[v].st \in L => parsed'[bridge'[v].id]
    BY <1>d, <1>l, <2>1, <2>3, <2>6 DEF NoBridge
  <2> QED BY <1>a, <2>1, <2>5, <2>7
<1>9. ASSUME NEW w \in PyPool,
             RpcHandlerBridge(w) \/ MethodAnswers(w) \/ MethodKeeps(w) \/ MethodEnds(w)
             \/ BridgeLeave(w)
      PROVE  Seen'
  <2>1. /\ UNCHANGED <<life, status, parsed, done, saw>>
        /\ \/ Bridge(w, "serve", "method") \/ Bridge(w, "method", "leave")
           \/ Bridge(w, "method", "method") \/ Bridge(w, "method", "idle")
           \/ Bridge(w, "leave", "idle")
    BY <1>9 DEF RpcHandlerBridge, MethodAnswers, MethodKeeps, MethodEnds, BridgeLeave
  <2>2. /\ bridge'[w] = NoBridge \/ bridge'[w].st \in ServeSteps
        /\ \A v \in PyPool : v # w => bridge'[v] = bridge[v]
    BY <1>s, <2>1, BridgeFacts
  <2>3. \A v \in PyPool : bridge'[v].st \in L => bridge'[v] = bridge[v]
    BY <1>l, <2>2 DEF NoBridge
  <2> QED BY <1>b, <2>1, <2>3
<1>10. ASSUME NEW w \in PyPool, NEW r \in Served, RequestComes(w, r) PROVE Seen'
  BY <1>10, <1>b DEF RequestComes
<1>11. ASSUME NEW t \in Runners,
              Close(t) \/ Closed(t) \/ \E r \in Served : LaterSend(t, r) \/ LaterDrop(t, r)
       PROVE  Seen'
  BY <1>11, <1>b DEF Close, Closed, LaterSend, LaterDrop
<1>12. CASE UNCHANGED pyvars
  BY <1>12, <1>b DEF pyvars
<1> QED BY <1>1, <1>2, <1>3, <1>4, <1>5, <1>6, <1>7, <1>8, <1>9, <1>10, <1>11, <1>12
        DEF PyNext, PythonStep, BridgeStep

-----------------------------------------------------------------------------
(* PyBinding: the channels of requests                                     *)

\* A bridge function that is not at its beginning leaves InServe alone, and
\* one that makes a ServerChannel has been there.
LEMMA ServeMoves ==
    ASSUME PyTypes, NEW w \in PyPool, NEW from \in CallSteps \cup ServeSteps,
           NEW to \in (CallSteps \cup ServeSteps \cup {"idle"}) \ {"serve"},
           Bridge(w, from, to), NEW v \in PyPool, NEW r
    PROVE  InServe(v, r)' <=> InServe(v, r) /\ (v = w => from # "serve")
<1>1. /\ bridge[w].st = from /\ bridge'[w].st = to
      /\ \A u \in PyPool : u # w => bridge'[u] = bridge[u]
  BY BridgeFacts DEF NoBridge
<1>2. to # "serve"
  OBVIOUS
<1> QED BY <1>1, <1>2 DEF InServe

\* Every step of the binding keeps a request in one place until its
\* ServerChannel is made.
LEMMA NextPlaced ==
    ASSUME PyTypes, Placed, Channels, [PyNext]_pyvars
    PROVE  Placed'
<1> USE DEF rpcVars, outcomeVars, serveVars
<1>0. /\ rep \in [Served -> {"none", "queued", "ptr", "null", "gone"}]
      /\ bridge \in [PyPool -> Bridges]
  BY DEF PyTypes
<1>s. /\ "parse" \in CallSteps /\ "signal" \in CallSteps /\ "callback" \in CallSteps
      /\ "release" \in CallSteps /\ "serve" \in ServeSteps /\ "method" \in ServeSteps
      /\ "leave" \in ServeSteps /\ CallSteps \cap ServeSteps = {}
      /\ "idle" \notin ServeSteps
  BY DEF CallSteps, ServeSteps
<1>r. \A w \in PyPool : bridge[w].st \in ServeSteps => bridge[w].id \in Served
  BY <1>0 DEF Bridges, NoBridge, CallSteps, ServeSteps
<1>a. ASSUME \A w \in PyPool, r \in Served : InServe(w, r)' => InServe(w, r),
             \A w \in PyPool, r \in Served : \A i :
                JobAt(w, i, "request", r)' => JobAt(w, i, "request", r),
             \A r \in Served : rep[r] = "queued" =>
                \/ rep'[r] = "queued"
                \/ /\ \A w \in PyPool : ~InServe(w, r)'
                   /\ \A w \in PyPool : \A i : ~JobAt(w, i, "request", r)
      PROVE  Placed'
  BY <1>a DEF Placed
<1>t. ASSUME UNCHANGED todo, NEW w, NEW i, NEW sort, NEW r
      PROVE  JobAt(w, i, sort, r)' <=> JobAt(w, i, sort, r)
  BY <1>t DEF JobAt
<1>b. ASSUME UNCHANGED bridge, NEW w, NEW r PROVE InServe(w, r)' <=> InServe(w, r)
  BY <1>b DEF InServe
<1>send. ASSUME NEW r \in Served, Send(r) \/ (rep[r] \notin Unmade /\ ChannelDealloc(r))
         PROVE  \A q \in Served : rep[q] = "queued" => rep'[q] = "queued"
  BY <1>0, <1>send DEF Send, ClearPointer, ChannelDealloc, Unmade
<1>1. ASSUME NEW c \in Rpcs,
             WaitReturns(c) \/ \E t \in Runners :
                WaitRpc(t, c) \/ DropRpc(t, c) \/ \E d \in BOOLEAN : CallMethod(t, c, d)
      PROVE  Placed'
  <2>1. UNCHANGED <<rep, todo, bridge>>
    BY <1>1 DEF WaitReturns, WaitRpc, DropRpc, CallMethod
  <2> QED BY <1>a, <1>b, <1>t, <2>1
<1>2. ASSUME NEW w \in PyPool, NEW c \in Rpcs, NEW s \in Statuses, Answered(w, c, s)
      PROVE  Placed'
  <2> DEFINE m == [job |-> "closure", id |-> c]
  <2>1. m \in Jobs /\ m.job = "closure"
    BY DEF Jobs
  <2>2. todo' = [todo EXCEPT ![w] = Append(@, m)] /\ UNCHANGED <<rep, bridge>>
    BY <1>2 DEF Answered
  <2> HIDE DEF m
  <2>3. PICK n : \A v \in PyPool : \A i, sort, id :
                /\ JobAt(v, i, sort, id) => JobAt(v, i, sort, id)'
                /\ JobAt(v, i, sort, id)' =>
                     \/ JobAt(v, i, sort, id)
                     \/ v = w /\ i = n /\ m.job = sort /\ m.id = id
    BY <2>1, <2>2, JobAdded
  <2>4. \A v \in PyPool, r \in Served : \A i :
           JobAt(v, i, "request", r)' => JobAt(v, i, "request", r)
    BY <2>1, <2>3
  <2> QED BY <1>a, <1>b, <2>2, <2>4
<1>3. ASSUME NEW w \in PyPool, NEW r \in Served, RequestComes(w, r) PROVE Placed'
  <2> DEFINE m == [job |-> "request", id |-> r]
  <2>1. m \in Jobs /\ m.id = r /\ m.job = "request"
    BY DEF Jobs
  <2>2. /\ rep[r] = "none" /\ rep' = [rep EXCEPT ![r] = "queued"]
        /\ todo' = [todo EXCEPT ![w] = Append(@, m)] /\ UNCHANGED bridge
    BY <1>3 DEF RequestComes
  <2> HIDE DEF m
  <2>3. PICK n : \A v \in PyPool : \A i, sort, id :
                /\ JobAt(v, i, sort, id) => JobAt(v, i, sort, id)'
                /\ JobAt(v, i, sort, id)' =>
                     \/ JobAt(v, i, sort, id)
                     \/ v = w /\ i = n /\ m.job = sort /\ m.id = id
    BY <2>1, <2>2, JobAdded
  <2>4. /\ \A v \in PyPool : ~InServe(v, r)
        /\ \A v \in PyPool : \A i : ~JobAt(v, i, "request", r)
    BY <2>2 DEF Placed
  <2>5. \A v \in PyPool, q \in Served : InServe(v, q)' <=> InServe(v, q)
    BY <1>b, <2>2
  <2>6. rep'[r] = "queued" /\ \A q \in Served : q # r => rep'[q] = rep[q]
    BY <1>0, <2>2
  <2>7. \A v \in PyPool, q \in Served : \A i : JobAt(v, i, "request", q)' =>
             \/ q # r /\ JobAt(v, i, "request", q)
             \/ q = r /\ v = w /\ i = n
    BY <2>1, <2>3, <2>4
  <2> QED BY <2>4, <2>5, <2>6, <2>7 DEF Placed
<1>4. ASSUME NEW w \in PyPool, TakeJob(w) PROVE Placed'
  <2> DEFINE j == Head(todo[w])
  <2>1. /\ j \in Jobs /\ JobAt(w, 1, j.job, j.id)
        /\ \A v \in PyPool : \A i, sort, id : v # w =>
             (JobAt(v, i, sort, id)' <=> JobAt(v, i, sort, id))
        /\ \A i, sort, id : JobAt(w, i, sort, id)' =>
             i \in Nat /\ i > 0 /\ JobAt(w, i + 1, sort, id)
    BY <1>4, JobTaken
  <2>2. /\ CASE j.job = "closure" -> /\ bridge' = [bridge EXCEPT ![w] = [st |-> "parse", id |-> j.id]]
                                      /\ UNCHANGED running
              [] j.job = "request" -> /\ bridge' = [bridge EXCEPT ![w] = [st |-> "serve", id |-> j.id]]
                                      /\ UNCHANGED running
              [] j.job = "quit"    -> running' = running \ {w} /\ UNCHANGED bridge
        /\ UNCHANGED rep /\ bridge[w] = NoBridge
    BY <1>4 DEF TakeJob
  <2> HIDE DEF j
  <2>3. /\ j.job \in {"closure", "request", "quit"}
        /\ j.job = "request" => j.id \in Served
    BY <2>1 DEF Jobs
  <2>4. \A v \in PyPool, r \in Served : \A i : JobAt(v, i, "request", r)' =>
           \E k : /\ JobAt(v, k, "request", r)
                  /\ v = w => i \in Nat /\ i > 0 /\ k = i + 1
                  /\ v # w => k = i
    BY <2>1
  <2>5. \A r \in Served : ~InServe(w, r)
    BY <2>2 DEF InServe, NoBridge
  <2>6. ASSUME NEW r \in Served, NEW v \in PyPool, NEW i, JobAt(v, i, "request", r)'
        PROVE  /\ rep'[r] = "queued"
               /\ \A u \in PyPool : \A k : JobAt(u, k, "request", r)' => u = v /\ k = i
               /\ \A u \in PyPool : ~InServe(u, r)
               /\ ~JobAt(w, 1, "request", r)
    <3>1. PICK k : /\ JobAt(v, k, "request", r)
                   /\ v = w => i \in Nat /\ i > 0 /\ k = i + 1
                   /\ v # w => k = i
      BY <2>4, <2>6
    <3>2. /\ rep[r] = "queued" /\ \A u \in PyPool : ~InServe(u, r)
          /\ \A u \in PyPool : \A l : JobAt(u, l, "request", r) => u = v /\ l = k
      BY <3>1 DEF Placed
    <3>3. ASSUME NEW u \in PyPool, NEW l, JobAt(u, l, "request", r)' PROVE u = v /\ l = i
      <4>1. PICK h : /\ JobAt(u, h, "request", r)
                     /\ u = w => l \in Nat /\ l > 0 /\ h = l + 1
                     /\ u # w => h = l
        BY <2>4, <3>3
      <4>2. u = v /\ h = k
        BY <3>2, <4>1
      <4> QED BY <3>1, <4>1, <4>2
    <3>4. ~JobAt(w, 1, "request", r)
      BY <3>1, <3>2
    <3> QED BY <2>2, <3>2, <3>3, <3>4
  <2>7. CASE j.job = "request"
    <3>1. PICK d \in Served : d = j.id
      BY <2>3, <2>7
    <3>2. /\ bridge'[w] = [st |-> "serve", id |-> d]
          /\ \A v \in PyPool : v # w => bridge'[v] = bridge[v]
      BY <1>0, <2>2, <2>7, <3>1
    <3>3. \A v \in PyPool, r \in Served : InServe(v, r)' <=>
             IF v = w THEN r = d ELSE InServe(v, r)
      BY <3>2 DEF InServe
    <3>4. JobAt(w, 1, "request", d)
      BY <2>1, <2>7, <3>1
    <3>5. rep[d] = "queued" /\ \A v \in PyPool : ~InServe(v, d)
      BY <3>4 DEF Placed
    <3>6. \A r \in Served, v \in PyPool : InServe(v, r)' =>
             /\ rep'[r] = "queued"
             /\ \A u \in PyPool : InServe(u, r)' => u = v
      BY <2>2, <3>3, <3>5 DEF Placed
    <3>7. \A r \in Served, v \in PyPool : \A i : JobAt(v, i, "request", r)' =>
             \A u \in PyPool : ~InServe(u, r)'
      BY <2>6, <3>3, <3>4
    <3> QED BY <2>6, <3>6, <3>7 DEF Placed
  <2>8. CASE j.job # "request"
    <3>1. /\ \A v \in PyPool : v # w => bridge'[v] = bridge[v]
          /\ bridge'[w].st \in {"parse", "idle"}
      <4>1. CASE j.job = "closure"
        <5>1. bridge' = [bridge EXCEPT ![w] = [st |-> "parse", id |-> j.id]]
          BY <2>2, <4>1
        <5> QED BY <1>0, <5>1
      <4>2. CASE j.job = "quit"
        <5>1. UNCHANGED bridge
          BY <2>2, <4>2
        <5> QED BY <2>2, <5>1 DEF NoBridge
      <4> QED BY <2>3, <2>8, <4>1, <4>2
    <3>2. \A v \in PyPool, r \in Served : InServe(v, r)' <=> InServe(v, r)
      BY <2>5, <3>1 DEF InServe
    <3> QED BY <2>2, <2>6, <3>2 DEF Placed
  <2> QED BY <2>7, <2>8
<1>5. ASSUME NEW w \in PyPool,
             BridgeParse(w) \/ BridgeSignal(w) \/ BridgeCallback(w) \/ BridgeRelease(w)
      PROVE  Placed'
  <2>1. /\ UNCHANGED <<rep, todo>>
        /\ \/ Bridge(w, "parse", "signal") \/ Bridge(w, "parse", "idle")
           \/ Bridge(w, "signal", "callback") \/ Bridge(w, "callback", "release")
           \/ Bridge(w, "callback", "idle") \/ Bridge(w, "release", "idle")
    BY <1>5 DEF BridgeParse, BridgeSignal, BridgeCallback, BridgeRelease
  <2>2. \A v \in PyPool, r \in Served : InServe(v, r)' => InServe(v, r)
    BY <1>s, <2>1, ServeMoves
  <2> QED BY <1>a, <1>t, <2>1, <2>2
<1>6. ASSUME NEW w \in PyPool, RpcHandlerBridge(w) PROVE Placed'
  <2>1. /\ Bridge(w, "serve", "method") /\ UNCHANGED todo
        /\ rep' = [rep EXCEPT ![bridge[w].id] = "ptr"]
    BY <1>6 DEF RpcHandlerBridge
  <2>2. bridge[w].st = "serve"
    BY <2>1 DEF Bridge
  <2>3. PICK r \in Served : r = bridge[w].id /\ InServe(w, r)
    BY <1>r, <1>s, <2>2 DEF InServe
  <2>4. \A v \in PyPool, q \in Served : InServe(v, q)' <=> InServe(v, q) /\ v # w
    BY <1>s, <2>1, ServeMoves
  <2>5. /\ \A v \in PyPool : ~InServe(v, r)'
        /\ \A v \in PyPool : \A i : ~JobAt(v, i, "request", r)
    BY <2>3, <2>4 DEF Placed
  <2>6. \A q \in Served : q # r => rep'[q] = rep[q]
    BY <1>0, <2>1, <2>3
  <2> QED BY <1>a, <1>t, <2>1, <2>4, <2>5, <2>6
<1>7. ASSUME NEW w \in PyPool,
             MethodAnswers(w) \/ MethodKeeps(w) \/ MethodEnds(w) \/ BridgeLeave(w)
      PROVE  Placed'
  <2>1. /\ UNCHANGED todo
        /\ \/ Bridge(w, "method", "method") \/ Bridge(w, "method", "idle")
           \/ Bridge(w, "method", "leave") \/ Bridge(w, "leave", "idle")
    BY <1>7 DEF MethodAnswers, MethodKeeps, MethodEnds, BridgeLeave
  <2>2. \A v \in PyPool, r \in Served : InServe(v, r)' => InServe(v, r)
    BY <1>s, <2>1, ServeMoves
  <2>3. bridge[w].st \in {"method", "leave"}
    BY <2>1 DEF Bridge
  <2>4. PICK r \in Served : r = bridge[w].id /\ rep[r] \notin Unmade
    BY <1>r, <1>s, <2>3 DEF Channels
  <2>5. UNCHANGED rep \/ Send(r) \/ ChannelDealloc(r)
    BY <1>7, <2>4 DEF MethodAnswers, MethodKeeps, MethodEnds, BridgeLeave
  <2>6. \A q \in Served : rep[q] = "queued" => rep'[q] = "queued"
    BY <1>send, <2>4, <2>5
  <2> QED BY <1>a, <1>t, <2>1, <2>2, <2>6
<1>8. ASSUME NEW t \in Runners, NEW r \in Served, LaterSend(t, r) \/ LaterDrop(t, r)
      PROVE  Placed'
  <2>1. holds[r] /\ UNCHANGED <<bridge, todo>> /\ (Send(r) \/ ChannelDealloc(r))
    BY <1>8 DEF LaterSend, LaterDrop
  <2>2. rep[r] \notin Unmade
    BY <2>1 DEF Channels
  <2>3. \A q \in Served : rep[q] = "queued" => rep'[q] = "queued"
    BY <1>send, <2>1, <2>2
  <2> QED BY <1>a, <1>b, <1>t, <2>1, <2>3
<1>9. ASSUME NEW t \in Runners, Close(t) PROVE Placed'
  <2>1. UNCHANGED <<rep, bridge>> /\ todo' = JobsAndQuit
    BY <1>9 DEF Close
  <2>2. \A v \in PyPool, r \in Served : \A i :
           JobAt(v, i, "request", r)' <=> JobAt(v, i, "request", r)
    BY <2>1, QuitAdded
  <2> QED BY <1>a, <1>b, <2>1, <2>2
<1>10. ASSUME NEW t \in Runners, Closed(t) PROVE Placed'
  <2>1. UNCHANGED <<rep, bridge, todo>>
    BY <1>10 DEF Closed
  <2> QED BY <1>a, <1>b, <1>t, <2>1
<1>11. CASE UNCHANGED pyvars
  BY <1>11, <1>a, <1>b, <1>t DEF pyvars
<1> QED BY <1>1, <1>2, <1>3, <1>4, <1>5, <1>6, <1>7, <1>8, <1>9, <1>10, <1>11
        DEF PyNext, PythonStep, BridgeStep

\* Every step of the binding keeps the count of what is deleted.
LEMMA NextChannels ==
    ASSUME PyTypes, Placed, Channels, [PyNext]_pyvars
    PROVE  Channels'
<1> USE DEF rpcVars, outcomeVars, serveVars
<1> DEFINE M == {"method", "leave"}
<1>0. /\ rep \in [Served -> {"none", "queued", "ptr", "null", "gone"}]
      /\ holds \in [Served -> BOOLEAN]
      /\ sent \in [Served -> Nat]
      /\ dels \in [Served -> Nat]
      /\ bridge \in [PyPool -> Bridges]
      /\ crashed \in BOOLEAN
  BY DEF PyTypes
<1>s. /\ "parse" \in CallSteps /\ "signal" \in CallSteps /\ "callback" \in CallSteps
      /\ "release" \in CallSteps /\ "serve" \in ServeSteps /\ "method" \in ServeSteps
      /\ "leave" \in ServeSteps
      /\ CallSteps \cap M = {} /\ "idle" \notin M /\ "serve" \notin M /\ "method" \in M
      /\ M \subseteq ServeSteps
  BY DEF CallSteps, ServeSteps
<1>d. /\ \A r \in Served : rep[r] \in Unmade \cup {"ptr"} => sent[r] = 0 /\ dels[r] = 0
      /\ \A r \in Served : rep[r] = "null" => sent[r] = 1 /\ dels[r] = 1
      /\ \A r \in Served : rep[r] = "gone" => sent[r] <= 1 /\ dels[r] = 1
      /\ \A r \in Served : holds[r] => rep[r] \notin Unmade
      /\ \A w \in PyPool : bridge[w].st \in M => rep[bridge[w].id] \notin Unmade
      /\ crashed => \E r \in Served : rep[r] = "null"
  BY DEF Channels
<1>r. \A w \in PyPool : bridge[w].st \in ServeSteps => bridge[w].id \in Served
  BY <1>0 DEF Bridges, NoBridge, CallSteps, ServeSteps
<1>u. \A x : x \in Unmade <=> x = "none" \/ x = "queued"
  BY DEF Unmade
<1>a. ASSUME \A r \in Served : rep[r] \notin Unmade => rep'[r] \notin Unmade,
             \A r \in Served : \/ rep'[r] = rep[r] /\ sent'[r] = sent[r] /\ dels'[r] = dels[r]
                               \/ rep'[r] \in Unmade \cup {"ptr"} /\ sent'[r] = 0 /\ dels'[r] = 0
                               \/ rep'[r] = "null" /\ sent'[r] = 1 /\ dels'[r] = 1
                               \/ rep'[r] = "gone" /\ sent'[r] <= 1 /\ dels'[r] = 1,
             \A r \in Served : holds'[r] => rep'[r] \notin Unmade,
             \A w \in PyPool : bridge'[w].st \in M => rep'[bridge'[w].id] \notin Unmade,
             crashed' => \E r \in Served : rep'[r] = "null"
      PROVE  Channels'
  BY <1>a, <1>d, <1>u DEF Channels, Unmade
<1> HIDE DEF M
<1>b. ASSUME UNCHANGED <<rep, sent, dels, crashed>>,
             \A r \in Served : holds'[r] => rep[r] \notin Unmade,
             \A w \in PyPool : bridge'[w].st \in M => rep[bridge'[w].id] \notin Unmade
      PROVE  Channels'
  BY <1>a, <1>b, <1>d
<1>c. ASSUME UNCHANGED <<rep, sent, dels, crashed, holds>>,
             \A w \in PyPool : bridge'[w].st \in M => bridge'[w] = bridge[w]
      PROVE  Channels'
  BY <1>b, <1>c, <1>d
<1>send. ASSUME NEW r \in Served, ~crashed, Send(r)
         PROVE  /\ rep'[r] = "null" /\ sent'[r] = 1 /\ dels'[r] = 1
                /\ \A q \in Served : q # r =>
                      rep'[q] = rep[q] /\ sent'[q] = sent[q] /\ dels'[q] = dels[q]
                /\ crashed' => \E q \in Served : rep'[q] = "null"
  <2>1. CASE rep[r] = "ptr"
    BY <1>0, <1>d, <1>send, <2>1 DEF Send, ClearPointer
  <2>2. CASE rep[r] = "null"
    BY <1>0, <1>d, <1>send, <2>2 DEF Send
  <2> QED BY <1>send, <2>1, <2>2 DEF Send
<1>del. ASSUME NEW r \in Served, ~crashed, rep[r] \notin Unmade, ChannelDealloc(r)
        PROVE  /\ rep'[r] = "gone" /\ sent'[r] = sent[r] /\ sent[r] <= 1 /\ dels'[r] = 1
               /\ \A q \in Served : q # r =>
                     rep'[q] = rep[q] /\ sent'[q] = sent[q] /\ dels'[q] = dels[q]
               /\ ~crashed'
  <2>1. rep[r] \in {"ptr", "null", "gone"}
    BY <1>0, <1>del, <1>u
  <2>2. sent[r] <= 1 /\ dels[r] = IF rep[r] = "ptr" THEN 0 ELSE 1
    BY <1>0, <1>d, <2>1
  <2> QED BY <1>0, <1>del, <2>1, <2>2 DEF ChannelDealloc
<1>1. ASSUME NEW c \in Rpcs,
             WaitReturns(c) \/ \E t \in Runners :
                WaitRpc(t, c) \/ DropRpc(t, c) \/ \E d \in BOOLEAN : CallMethod(t, c, d)
      PROVE  Channels'
  BY <1>1, <1>c DEF WaitReturns, WaitRpc, DropRpc, CallMethod
<1>2. ASSUME NEW w \in PyPool, NEW c \in Rpcs, NEW s \in Statuses, Answered(w, c, s)
      PROVE  Channels'
  BY <1>2, <1>c DEF Answered
<1>3. ASSUME NEW w \in PyPool, NEW r \in Served, ~crashed, RequestComes(w, r) PROVE Channels'
  <2>1. /\ rep[r] = "none" /\ rep' = [rep EXCEPT ![r] = "queued"]
        /\ UNCHANGED <<sent, dels, holds, bridge, crashed>>
    BY <1>3 DEF RequestComes
  <2>2. rep'[r] = "queued" /\ \A q \in Served : q # r => rep'[q] = rep[q]
    BY <1>0, <2>1
  <2>3. sent'[r] = 0 /\ dels'[r] = 0
    BY <1>d, <1>u, <2>1
  <2>4. \A q \in Served : rep[q] \notin Unmade => rep'[q] \notin Unmade
    BY <1>u, <2>1, <2>2
  <2>5. \A v \in PyPool : bridge'[v].st \in M => rep'[bridge'[v].id] \notin Unmade
    BY <1>d, <1>r, <1>s, <2>1, <2>4
  <2> QED BY <1>3, <1>a, <1>d, <1>u, <2>1, <2>2, <2>3, <2>4, <2>5
<1>4. ASSUME NEW w \in PyPool, TakeJob(w) PROVE Channels'
  <2> DEFINE j == Head(todo[w])
  <2>1. j \in Jobs
    BY <1>4, JobTaken
  <2>2. /\ CASE j.job = "closure" -> /\ bridge' = [bridge EXCEPT ![w] = [st |-> "parse", id |-> j.id]]
                                      /\ UNCHANGED running
              [] j.job = "request" -> /\ bridge' = [bridge EXCEPT ![w] = [st |-> "serve", id |-> j.id]]
                                      /\ UNCHANGED running
              [] j.job = "quit"    -> running' = running \ {w} /\ UNCHANGED bridge
        /\ UNCHANGED <<rep, sent, dels, holds, crashed>>
    BY <1>4 DEF TakeJob
  <2> HIDE DEF j
  <2>3. j.job \in {"closure", "request", "quit"}
    BY <2>1 DEF Jobs
  <2>4. \/ bridge' = [bridge EXCEPT ![w] = [st |-> "parse", id |-> j.id]]
        \/ bridge' = [bridge EXCEPT ![w] = [st |-> "serve", id |-> j.id]]
        \/ UNCHANGED bridge
    <3>1. CASE j.job = "closure"
      BY <2>2, <3>1
    <3>2. CASE j.job = "request"
      BY <2>2, <3>2
    <3>3. CASE j.job = "quit"
      BY <2>2, <3>3
    <3> QED BY <2>3, <3>1, <3>2, <3>3
  <2>5. \A v \in PyPool : bridge'[v].st \in M => bridge'[v] = bridge[v]
    BY <1>0, <1>s, <2>4
  <2> QED BY <1>c, <2>2, <2>5
<1>5. ASSUME NEW w \in PyPool,
             BridgeParse(w) \/ BridgeSignal(w) \/ BridgeCallback(w) \/ BridgeRelease(w)
      PROVE  Channels'
  <2>1. /\ UNCHANGED <<rep, sent, dels, holds, crashed>>
        /\ \/ Bridge(w, "parse", "signal") \/ Bridge(w, "parse", "idle")
           \/ Bridge(w, "signal", "callback") \/ Bridge(w, "callback", "release")
           \/ Bridge(w, "callback", "idle") \/ Bridge(w, "release", "idle")
    BY <1>5 DEF BridgeParse, BridgeSignal, BridgeCallback, BridgeRelease
  <2>2. /\ bridge'[w] = NoBridge \/ bridge'[w].st \in CallSteps
        /\ \A v \in PyPool : v # w => bridge'[v] = bridge[v]
    BY <1>s, <2>1, BridgeFacts
  <2>3. \A v \in PyPool : bridge'[v].st \in M => bridge'[v] = bridge[v]
    BY <1>s, <2>2 DEF NoBridge
  <2> QED BY <1>c, <2>1, <2>3
<1>6. ASSUME NEW w \in PyPool, ~crashed, RpcHandlerBridge(w) PROVE Channels'
  <2>1. /\ Bridge(w, "serve", "method") /\ UNCHANGED <<sent, dels, holds, crashed>>
        /\ rep' = [rep EXCEPT ![bridge[w].id] = "ptr"]
    BY <1>6 DEF RpcHandlerBridge
  <2>2. bridge[w].st = "serve"
    BY <2>1 DEF Bridge
  <2>3. PICK r \in Served : r = bridge[w].id /\ rep[r] = "queued"
    BY <1>r, <1>s, <2>2 DEF Placed, InServe
  <2>4. rep'[r] = "ptr" /\ \A q \in Served : q # r => rep'[q] = rep[q]
    BY <1>0, <2>1, <2>3
  <2>5. sent'[r] = 0 /\ dels'[r] = 0
    BY <1>d, <1>u, <2>1, <2>3
  <2>6. bridge'[w].id = r /\ \A v \in PyPool : v # w => bridge'[v] = bridge[v]
    BY <1>s, <2>1, <2>3, BridgeFacts
  <2>7. \A q \in Served : rep[q] \notin Unmade => rep'[q] \notin Unmade
    BY <1>u, <2>4
  <2>8. \A v \in PyPool : bridge'[v].st \in M => rep'[bridge'[v].id] \notin Unmade
    BY <1>d, <1>r, <1>s, <1>u, <2>4, <2>6, <2>7
  <2> QED BY <1>6, <1>a, <1>d, <2>1, <2>4, <2>5, <2>7, <2>8
<1>7. ASSUME NEW w \in PyPool, MethodEnds(w) \/ MethodKeeps(w) PROVE Channels'
  <2>1. /\ UNCHANGED <<rep, sent, dels, crashed>>
        /\ Bridge(w, "method", "leave") \/ Bridge(w, "method", "idle")
        /\ UNCHANGED holds \/ holds' = [holds EXCEPT ![bridge[w].id] = TRUE]
    BY <1>7 DEF MethodEnds, MethodKeeps
  <2>2. bridge[w].st \in M
    BY <1>s, <2>1 DEF Bridge
  <2>3. PICK r \in Served : r = bridge[w].id /\ rep[r] \notin Unmade
    BY <1>d, <1>r, <1>s, <2>2
  <2>4. /\ bridge'[w] = NoBridge \/ bridge'[w].id = r
        /\ \A v \in PyPool : v # w => bridge'[v] = bridge[v]
    BY <1>s, <2>1, <2>3, BridgeFacts
  <2>5. \A v \in PyPool : bridge'[v].st \in M => rep[bridge'[v].id] \notin Unmade
    BY <1>d, <1>s, <2>3, <2>4 DEF NoBridge
  <2>6. \A q \in Served : holds'[q] => rep[q] \notin Unmade
    BY <1>0, <1>d, <2>1, <2>3
  <2> QED BY <1>b, <2>1, <2>5, <2>6
<1>8. ASSUME NEW w \in PyPool, ~crashed, MethodAnswers(w) \/ BridgeLeave(w) PROVE Channels'
  <2>1. /\ Bridge(w, "method", "method") \/ Bridge(w, "leave", "idle")
        /\ UNCHANGED holds
    BY <1>8 DEF MethodAnswers, BridgeLeave
  <2>2. bridge[w].st \in M
    BY <1>s, <2>1 DEF Bridge, M
  <2>3. PICK r \in Served : r = bridge[w].id /\ rep[r] \notin Unmade
    BY <1>d, <1>r, <1>s, <2>2
  <2>4. /\ bridge'[w] = NoBridge \/ bridge'[w].id = r
        /\ \A v \in PyPool : v # w => bridge'[v] = bridge[v]
    BY <1>s, <2>1, <2>3, BridgeFacts
  <2>5. Send(r) \/ ChannelDealloc(r)
    BY <1>8, <2>3 DEF MethodAnswers, BridgeLeave
  <2>6. /\ \/ rep'[r] = "null" /\ sent'[r] = 1 /\ dels'[r] = 1
           \/ rep'[r] = "gone" /\ sent'[r] <= 1 /\ dels'[r] = 1
        /\ \A q \in Served : q # r => rep'[q] = rep[q] /\ sent'[q] = sent[q] /\ dels'[q] = dels[q]
        /\ crashed' => \E q \in Served : rep'[q] = "null"
    BY <1>8, <1>send, <1>del, <2>3, <2>5
  <2>7. \A q \in Served : rep[q] \notin Unmade => rep'[q] \notin Unmade
    BY <1>u, <2>6
  <2>8. \A v \in PyPool : bridge'[v].st \in M => rep'[bridge'[v].id] \notin Unmade
    BY <1>d, <1>r, <1>s, <2>3, <2>4, <2>7 DEF NoBridge
  <2> QED BY <1>a, <1>d, <2>1, <2>6, <2>7, <2>8
<1>9. ASSUME NEW t \in Runners, NEW r \in Served, ~crashed, LaterSend(t, r) \/ LaterDrop(t, r)
      PROVE  Channels'
  <2>1. /\ holds[r] /\ UNCHANGED bridge
        /\ UNCHANGED holds \/ holds' = [holds EXCEPT ![r] = FALSE]
        /\ Send(r) \/ ChannelDealloc(r)
    BY <1>9 DEF LaterSend, LaterDrop
  <2>2. rep[r] \notin Unmade
    BY <1>d, <2>1
  <2>3. /\ \/ rep'[r] = "null" /\ sent'[r] = 1 /\ dels'[r] = 1
           \/ rep'[r] = "gone" /\ sent'[r] <= 1 /\ dels'[r] = 1
        /\ \A q \in Served : q # r => rep'[q] = rep[q] /\ sent'[q] = sent[q] /\ dels'[q] = dels[q]
        /\ crashed' => \E q \in Served : rep'[q] = "null"
    BY <1>9, <1>send, <1>del, <2>1, <2>2
  <2>4. \A q \in Served : rep[q] \notin Unmade => rep'[q] \notin Unmade
    BY <1>u, <2>3
  <2>5. \A q \in Served : holds'[q] => rep'[q] \notin Unmade
    BY <1>0, <1>d, <2>1, <2>4
  <2>6. \A v \in PyPool : bridge'[v].st \in M => rep'[bridge'[v].id] \notin Unmade
    BY <1>d, <1>r, <1>s, <2>1, <2>4
  <2> QED BY <1>a, <2>3, <2>4, <2>5, <2>6
<1>10. ASSUME NEW t \in Runners, Close(t) \/ Closed(t) PROVE Channels'
  BY <1>10, <1>c DEF Close, Closed
<1>11. CASE UNCHANGED pyvars
  BY <1>11, <1>c DEF pyvars
<1> QED BY <1>1, <1>2, <1>3, <1>4, <1>5, <1>6, <1>7, <1>8, <1>9, <1>10, <1>11
        DEF PyNext, PythonStep, BridgeStep

-----------------------------------------------------------------------------
(* PyBinding: theorems                                                     *)

\* The binding starts in the invariant: no call is made and no request has come.
LEMMA InitPyInv == PyInit => PyInv
<1> SUFFICES ASSUME PyInit PROVE PyInv
  OBVIOUS
<1>1. PyTypes
  <2>1. NoBridge \in Bridges /\ <<>> \in Seq(Jobs)
    BY DEF Bridges
  <2>2. crashed \in BOOLEAN
    BY Zenon DEF PyInit
  <2>3. /\ gil \in Runners \cup {NoHolder}
        /\ life \in [Rpcs -> {"none", "sent", "raised", "queued"} \cup Ends]
        /\ refs \in [Rpcs -> Int]
        /\ ctrl \in [Rpcs -> {"none", "live", "dead"}]
        /\ wrap \in [Rpcs -> {"none", "live", "freed"}]
        /\ user \in [Rpcs -> {"none", "rpc", "waits"}]
        /\ caller \in [Rpcs -> Runners \cup {NoHolder}]
    BY DEF PyInit
  <2>4. /\ done \in [Rpcs -> BOOLEAN]
        /\ deadline \in [Rpcs -> BOOLEAN]
        /\ parsed \in [Rpcs -> BOOLEAN]
        /\ holds \in [Served -> BOOLEAN]
    BY DEF PyInit
  <2>5. /\ status \in [Rpcs -> Statuses \cup {"active"}]
        /\ saw \in [Rpcs -> {"none", "returned", "AttributeError"}]
        /\ rep \in [Served -> {"none", "queued", "ptr", "null", "gone"}]
        /\ sent \in [Served -> Nat]
        /\ dels \in [Served -> Nat]
    BY DEF PyInit
  <2>6. /\ todo \in [PyPool -> Seq(Jobs)]
        /\ bridge \in [PyPool -> Bridges]
        /\ running \in SUBSET PyPool
    BY <2>1 DEF PyInit
  <2> QED BY <2>2, <2>3, <2>4, <2>5, <2>6 DEF PyTypes
<1>2. Owned
  BY DEF PyInit, Owned, OwnedBy
<1>3. \A w \in PyPool : /\ \A i, sort, id : ~JobAt(w, i, sort, id)
                        /\ \A c : ~InBridge(w, c)
                        /\ bridge[w].st = "idle"
  BY DEF PyInit, JobAt, InBridge, NoBridge
<1>4. Bridged
  BY <1>3 DEF Bridged
<1>5. Seen
  BY <1>3 DEF PyInit, Seen, Ends, CallSteps
<1>6. Channels
  BY <1>3 DEF PyInit, Channels, Unmade
<1>7. Placed
  BY <1>3 DEF Placed, InServe
<1> QED BY <1>1, <1>2, <1>4, <1>5, <1>6, <1>7 DEF PyInv

\* The reference counts, the places of a call's closure, the order of its
\* completion and the deletions of server_channels, as bridge functions and
\* Python threads keep them together.
THEOREM BindingInvariance == PySpec => []PyInv
<1>1. PyInit => PyInv
  BY InitPyInv
<1>2. PyInv /\ [PyNext]_pyvars => PyInv'
  BY NextPyTypes, NextOwned, NextBridged, NextSeen, NextPlaced, NextChannels DEF PyInv
<1> QED BY <1>1, <1>2, PTL DEF PySpec

\* Whoever drops its reference first, a thread in RpcController.wait() and
\* python_callback_bridge() find the controller, and the bridge its wrapper.
THEOREM ControllersUsedAlive == PySpec => []UsedAlive
<1>1. PyInv => UsedAlive
  <2> SUFFICES ASSUME PyInv, NEW c \in Rpcs
               PROVE  /\ user[c] = "waits" => ctrl[c] = "live"
                      /\ \A w \in PyPool : InBridge(w, c) => ctrl[c] = "live" /\ wrap[c] = "live"
    BY DEF UsedAlive
  <2>1. OwnedBy(c) /\ refs[c] \in Int
    BY DEF PyInv, Owned, PyTypes
  <2>2. \A w \in PyPool : InBridge(w, c) => life[c] = "queued"
    BY DEF PyInv, Bridged
  <2> QED BY <2>1, <2>2 DEF OwnedBy
<1> QED BY <1>1, BindingInvariance, PTL

\* After a bridge function that ran to its end the wrapper is freed, and the
\* controller lives exactly as long as the caller holds it.
THEOREM BindingLeaksNothing == PySpec => []NothingLeaks
<1>1. PyInv => NothingLeaks
  <2> SUFFICES ASSUME PyInv, NEW c \in Rpcs, life[c] = "clean"
               PROVE  wrap[c] = "freed" /\ ((ctrl[c] = "live") <=> (user[c] # "none"))
    BY DEF NothingLeaks
  <2>1. OwnedBy(c)
    BY DEF PyInv, Owned
  <2> QED BY <2>1 DEF OwnedBy
<1> QED BY <1>1, BindingInvariance, PTL

\* send(), send_error() and __dealloc__() of ServerChannel delete a
\* server_channel once, and a request is answered at most once: a service that
\* answers it a second time ends the process, and nothing else does.
THEOREM ChannelsDeletedOnce == PySpec => []ChannelDeletedOnce
<1>1. PyInv => ChannelDeletedOnce
  <2> SUFFICES ASSUME PyInv PROVE ChannelDeletedOnce
    OBVIOUS
  <2>1. ASSUME NEW r \in Served
        PROVE  /\ sent[r] <= 1
               /\ rep[r] \in {"null", "gone"} <=> dels[r] = 1
               /\ dels[r] <= 1
    <3>1. /\ rep[r] \in {"none", "queued", "ptr", "null", "gone"} /\ sent[r] \in Nat /\ dels[r] \in Nat
          /\ rep[r] \in {"none", "queued", "ptr"} => sent[r] = 0 /\ dels[r] = 0
          /\ rep[r] \in {"null", "gone"} => sent[r] <= 1 /\ dels[r] = 1
      BY DEF PyInv, PyTypes, Channels, Unmade
    <3> QED BY <3>1
  <2>2. crashed => \E r \in Served : rep[r] = "null" /\ sent[r] = 1
    BY DEF PyInv, Channels
  <2> QED BY <2>1, <2>2 DEF ChannelDeletedOnce
<1> QED BY <1>1, BindingInvariance, PTL

\* When RPC.wait() is over the response is parsed and the status is final; it has
\* returned if the call succeeded, and raised an AttributeError if it failed.
THEOREM WaitSeesTheOutcome == PySpec => []WaitSees
<1>1. PyInv => WaitSees
  <2> SUFFICES ASSUME PyInv, NEW c \in Rpcs, saw[c] # "none"
               PROVE  /\ parsed[c] /\ status[c] \in Statuses
                      /\ saw[c] = IF status[c] = "ok" THEN "returned" ELSE "AttributeError"
    BY DEF WaitSees
  <2>1. done[c] /\ saw[c] = WaitOutcome(c) /\ parsed[c] /\ status[c] \in Statuses
    BY DEF PyInv, Seen
  <2>2. WaitOutcome(c) = IF status[c] = "ok" THEN "returned" ELSE "AttributeError"
    BY OutcomeOfWait
  <2> QED BY <2>1, <2>2
<1> QED BY <1>1, BindingInvariance, PTL

-----------------------------------------------------------------------------
(* Closure                                                                 *)

Members == [n : Arities, self_deleting : BOOLEAN, args : Seq(Nat)]

CTypes ==
    /\ mem \in [Closures -> {"none", "live", "freed"}]
    /\ obj \in [Closures -> Members]
    /\ runs \in [Closures -> Nat]
    /\ pc \in [Closures -> {"idle", "called"}]
    /\ local \in [Closures -> BOOLEAN]
    /\ passed \in [Closures -> Seq(Nat)]
    /\ deletes \in [Closures -> Nat]

\* What run() has read of closure k is what the members say while they are
\* there: that is why k is not deleted by two.
LifeOf(k) ==
    /\ deletes[k] = IF mem[k] = "freed" THEN 1 ELSE 0
    /\ mem[k] = "none" => runs[k] = 0 /\ pc[k] = "idle" /\ ~local[k]
    /\ mem[k] = "live" /\ pc[k] = "called" => local[k] = obj[k].self_deleting
    /\ pc[k] = "called" /\ local[k] => mem[k] = "live"
    /\ pc[k] = "idle" /\ local[k] => mem[k] = "freed"
    /\ mem[k] # "none" => obj[k].args = [i \in 1 .. obj[k].n |-> i]
    /\ runs[k] > 0 => passed[k] = obj[k].args

CInv == CTypes /\ \A k \in Closures : LifeOf(k)

\* Each of the classes for 0 to 7 arguments passes all of them on, in order.
LEMMA PassAll ==
    ASSUME NEW c, c.n \in Arities, c.args = [i \in 1 .. c.n |-> i]
    PROVE  Pass(c) = c.args
<1> DEFINE a == c.args
<1>1. c.n \in 0 .. 7 /\ a = [i \in 1 .. c.n |-> i]
  BY DEF Arities
<1>2. CASE c.n = 0
  <2>1. Pass(c) = <<>>
    BY <1>2 DEF Pass, closure_0
  <2> QED BY <1>1, <1>2, <2>1
<1>3. CASE c.n = 1
  <2>1. Pass(c) = <<a[1]>>
    BY <1>3 DEF Pass, closure_1
  <2> QED BY <1>1, <1>3, <2>1
<1>4. CASE c.n = 2
  <2>1. Pass(c) = <<a[1], a[2]>>
    BY <1>4 DEF Pass, closure_2
  <2> QED BY <1>1, <1>4, <2>1
<1>5. CASE c.n = 3
  <2>1. Pass(c) = <<a[1], a[2], a[3]>>
    BY <1>5 DEF Pass, closure_3
  <2> QED BY <1>1, <1>5, <2>1
<1>6. CASE c.n = 4
  <2>1. Pass(c) = <<a[1], a[2], a[3], a[4]>>
    BY <1>6 DEF Pass, closure_4
  <2> QED BY <1>1, <1>6, <2>1
<1>7. CASE c.n = 5
  <2>1. Pass(c) = <<a[1], a[2], a[3], a[4], a[5]>>
    BY <1>7 DEF Pass, closure_5
  <2> QED BY <1>1, <1>7, <2>1
<1>8. CASE c.n = 6
  <2>1. Pass(c) = <<a[1], a[2], a[3], a[4], a[5], a[6]>>
    BY <1>8 DEF Pass, closure_6
  <2> QED BY <1>1, <1>8, <2>1
<1>9. CASE c.n = 7
  <2>1. Pass(c) = <<a[1], a[2], a[3], a[4], a[5], a[6], a[7]>>
    BY <1>9 DEF Pass, closure_7
  <2> QED BY <1>1, <1>9, <2>1
<1> QED BY <1>1, <1>2, <1>3, <1>4, <1>5, <1>6, <1>7, <1>8, <1>9

\* delete of closure k, whatever a later read finds.
LEMMA Freed ==
    ASSUME CTypes, NEW k \in Closures, Free(k)
    PROVE  /\ mem' \in [Closures -> {"none", "live", "freed"}] /\ mem'[k] = "freed"
           /\ deletes' \in [Closures -> Nat] /\ deletes'[k] = deletes[k] + 1
           /\ obj' \in [Closures -> Members]
           /\ obj'[k].args = obj[k].args /\ obj'[k].n = obj[k].n
           /\ \A e \in Closures : e # k =>
                mem'[e] = mem[e] /\ deletes'[e] = deletes[e] /\ obj'[e] = obj[e]
<1>0. /\ mem \in [Closures -> {"none", "live", "freed"}]
      /\ deletes \in [Closures -> Nat] /\ obj \in [Closures -> Members]
  BY DEF CTypes
<1>1. PICK b \in BOOLEAN : obj' = [obj EXCEPT ![k].self_deleting = b]
  BY DEF Free
<1>2. /\ mem' = [mem EXCEPT ![k] = "freed"] /\ deletes' = [deletes EXCEPT ![k] = @ + 1]
  BY DEF Free
<1>3. obj[k] \in Members
  BY <1>0
<1>4. obj'[k] = [obj[k] EXCEPT !.self_deleting = b]
  BY <1>0, <1>1
<1>5. /\ obj'[k] \in Members /\ obj'[k].args = obj[k].args /\ obj'[k].n = obj[k].n
  BY <1>3, <1>4 DEF Members
<1>6. obj' \in [Closures -> Members] /\ \A e \in Closures : e # k => obj'[e] = obj[e]
  BY <1>0, <1>1, <1>4, <1>5
<1>7. /\ mem' \in [Closures -> {"none", "live", "freed"}] /\ mem'[k] = "freed"
      /\ \A e \in Closures : e # k => mem'[e] = mem[e]
  BY <1>0, <1>2
<1>8. /\ deletes' \in [Closures -> Nat] /\ deletes'[k] = deletes[k] + 1
      /\ \A e \in Closures : e # k => deletes'[e] = deletes[e]
  BY <1>0, <1>2
<1> QED BY <1>5, <1>6, <1>7, <1>8

\* Every step of a closure's life keeps the invariant.
LEMMA NextCInv ==
    ASSUME CInv, [CNext]_cvars
    PROVE  CInv'
<1>0. /\ mem \in [Closures -> {"none", "live", "freed"}]
      /\ obj \in [Closures -> Members]
      /\ runs \in [Closures -> Nat]
      /\ pc \in [Closures -> {"idle", "called"}]
      /\ local \in [Closures -> BOOLEAN]
      /\ passed \in [Closures -> Seq(Nat)]
      /\ deletes \in [Closures -> Nat]
      /\ CTypes
  BY DEF CInv, CTypes
<1>i. \A k \in Closures : LifeOf(k)
  BY DEF CInv
<1>k. ASSUME NEW k \in Closures, mem'[k] = mem[k], obj'[k] = obj[k], runs'[k] = runs[k],
             pc'[k] = pc[k], local'[k] = local[k], passed'[k] = passed[k], deletes'[k] = deletes[k]
      PROVE  LifeOf(k)'
  BY <1>i, <1>k DEF LifeOf
<1>1. ASSUME NEW k \in Closures, NEW n \in Arities, NEW b \in BOOLEAN, NewClosure(k, n, b)
      PROVE  CInv'
  <2> DEFINE o == [n |-> n, self_deleting |-> b, args |-> [i \in 1 .. n |-> i]]
  <2>1. /\ mem[k] = "none" /\ mem' = [mem EXCEPT ![k] = "live"]
        /\ obj' = [obj EXCEPT ![k] = o] /\ UNCHANGED <<runs, pc, local, passed, deletes>>
    BY <1>1 DEF NewClosure
  <2>2. [i \in 1 .. n |-> i] \in Seq(Nat)
    BY DEF Arities
  <2>3. o \in Members /\ o.args = [i \in 1 .. o.n |-> i]
    BY <2>2 DEF Members
  <2> HIDE DEF o
  <2>4. /\ mem'[k] = "live" /\ obj'[k] = o /\ obj' \in [Closures -> Members]
        /\ mem' \in [Closures -> {"none", "live", "freed"}]
        /\ \A e \in Closures : e # k => mem'[e] = mem[e] /\ obj'[e] = obj[e]
    BY <1>0, <2>1, <2>3
  <2>5. LifeOf(k)'
    <3>1. LifeOf(k)
      BY <1>i
    <3> QED BY <1>0, <2>1, <2>3, <2>4, <3>1 DEF LifeOf
  <2>6. CTypes'
    BY <1>0, <2>1, <2>4 DEF CTypes
  <2> QED BY <1>k, <2>1, <2>4, <2>5, <2>6 DEF CInv
<1>2. ASSUME NEW k \in Closures, RunStart(k) PROVE CInv'
  <2>1. /\ mem[k] = "live" /\ pc[k] = "idle"
        /\ runs' = [runs EXCEPT ![k] = @ + 1]
        /\ local' = [local EXCEPT ![k] = obj[k].self_deleting]
        /\ passed' = [passed EXCEPT ![k] = Pass(obj[k])]
        /\ pc' = [pc EXCEPT ![k] = "called"]
        /\ UNCHANGED <<mem, obj, deletes>>
    BY <1>2 DEF RunStart
  <2>2. LifeOf(k)
    BY <1>i
  <2>3. obj[k] \in Members /\ obj[k].args = [i \in 1 .. obj[k].n |-> i]
    BY <1>0, <2>1, <2>2 DEF LifeOf
  <2>4. /\ obj[k].n \in Arities /\ obj[k].args \in Seq(Nat) /\ obj[k].self_deleting \in BOOLEAN
    BY <2>3 DEF Members
  <2>5. Pass(obj[k]) = obj[k].args
    BY <2>3, <2>4, PassAll
  <2>6. /\ runs' \in [Closures -> Nat] /\ local' \in [Closures -> BOOLEAN]
        /\ passed' \in [Closures -> Seq(Nat)] /\ pc' \in [Closures -> {"idle", "called"}]
    BY <1>0, <2>1, <2>4, <2>5
  <2>7. /\ local'[k] = obj[k].self_deleting /\ passed'[k] = obj[k].args /\ pc'[k] = "called"
        /\ \A e \in Closures : e # k => /\ runs'[e] = runs[e] /\ local'[e] = local[e]
                                        /\ passed'[e] = passed[e] /\ pc'[e] = pc[e]
    BY <1>0, <2>1, <2>5
  <2>8. LifeOf(k)'
    BY <2>1, <2>2, <2>7 DEF LifeOf
  <2>9. CTypes'
    BY <1>0, <2>1, <2>6 DEF CTypes
  <2> QED BY <1>k, <2>1, <2>7, <2>8, <2>9 DEF CInv
<1>3. ASSUME NEW k \in Closures, OwnerDeletes(k) PROVE CInv'
  <2>1. /\ mem[k] = "live" /\ ~obj[k].self_deleting /\ Free(k)
        /\ UNCHANGED <<runs, pc, local, passed>>
    BY <1>3 DEF OwnerDeletes
  <2>2. LifeOf(k)
    BY <1>i
  <2>3. ~local[k]
    BY <1>0, <2>1, <2>2 DEF LifeOf
  <2>4. LifeOf(k)'
    <3>1. /\ mem'[k] = "freed" /\ deletes'[k] = deletes[k] + 1
          /\ obj'[k].args = obj[k].args /\ obj'[k].n = obj[k].n
      BY <1>0, <2>1, Freed
    <3>2. deletes[k] = 0 /\ obj[k].args = [i \in 1 .. obj[k].n |-> i]
      BY <2>1, <2>2 DEF LifeOf
    <3>3. obj'[k].args = [i \in 1 .. obj'[k].n |-> i]
      BY <3>1, <3>2
    <3> QED BY <2>1, <2>2, <2>3, <3>1, <3>2, <3>3 DEF LifeOf
  <2>5. CTypes'
    BY <1>0, <2>1, Freed DEF CTypes
  <2>6. \A e \in Closures : e # k => LifeOf(e)'
    BY <1>0, <1>k, <2>1, Freed
  <2> QED BY <2>4, <2>5, <2>6 DEF CInv
<1>4. ASSUME NEW k \in Closures, RunEnd(k) PROVE CInv'
  <2>1. /\ pc[k] = "called" /\ pc' = [pc EXCEPT ![k] = "idle"]
        /\ IF local[k] THEN Free(k) ELSE UNCHANGED <<mem, deletes, obj>>
        /\ UNCHANGED <<runs, local, passed>>
    BY <1>4 DEF RunEnd, NeedsDelete
  <2>2. LifeOf(k)
    BY <1>i
  <2>3. /\ pc'[k] = "idle" /\ pc' \in [Closures -> {"idle", "called"}]
        /\ \A e \in Closures : e # k => pc'[e] = pc[e]
    BY <1>0, <2>1
  <2>4. CASE local[k]
    <3>1. mem[k] = "live" /\ Free(k)
      BY <2>1, <2>2, <2>4 DEF LifeOf
    <3>2. LifeOf(k)'
      <4>1. /\ mem'[k] = "freed" /\ deletes'[k] = deletes[k] + 1
            /\ obj'[k].args = obj[k].args /\ obj'[k].n = obj[k].n
        BY <1>0, <3>1, Freed
      <4>2. deletes[k] = 0 /\ obj[k].args = [i \in 1 .. obj[k].n |-> i]
        BY <2>2, <3>1 DEF LifeOf
      <4>3. obj'[k].args = [i \in 1 .. obj'[k].n |-> i]
        BY <4>1, <4>2
      <4> QED BY <2>1, <2>2, <2>3, <2>4, <4>1, <4>2, <4>3 DEF LifeOf
    <3>3. CTypes'
      BY <1>0, <2>1, <2>3, <3>1, Freed DEF CTypes
    <3>4. \A e \in Closures : e # k => LifeOf(e)'
      BY <1>0, <1>k, <2>1, <2>3, <3>1, Freed
    <3> QED BY <3>2, <3>3, <3>4 DEF CInv
  <2>5. CASE ~local[k]
    <3>1. UNCHANGED <<mem, deletes, obj>>
      BY <2>1, <2>5
    <3>2. LifeOf(k)'
      BY <2>1, <2>2, <2>3, <2>5, <3>1 DEF LifeOf
    <3>3. CTypes'
      BY <1>0, <2>1, <2>3, <3>1 DEF CTypes
    <3> QED BY <1>k, <2>1, <2>3, <3>1, <3>2, <3>3 DEF CInv
  <2> QED BY <2>4, <2>5
<1>5. CASE UNCHANGED cvars
  <2>1. UNCHANGED <<mem, obj, runs, pc, local, passed, deletes>>
    BY <1>5 DEF cvars
  <2>2. CTypes'
    BY <1>0, <2>1 DEF CTypes
  <2> QED BY <1>k, <2>1, <2>2 DEF CInv
<1> QED BY <1>1, <1>2, <1>3, <1>4, <1>5 DEF CNext

\* run() of callback.hpp deletes a one-shot closure exactly when it is over and
\* a permanent one never, even if the callback deletes it meanwhile; it passes
\* the bound arguments in their order.
THEOREM ClosuresLive == CSpec => []ClosureLife
<1>1. CInit => CInv
  <2> SUFFICES ASSUME CInit PROVE CInv
    OBVIOUS
  <2>1. NoMembers \in Members /\ <<>> \in Seq(Nat)
    BY DEF NoMembers, Members, Arities
  <2>2. CTypes
    BY <2>1 DEF CInit, CTypes
  <2>3. \A k \in Closures : LifeOf(k)
    BY DEF CInit, LifeOf
  <2> QED BY <2>2, <2>3 DEF CInv
<1>2. CInv /\ [CNext]_cvars => CInv'
  BY NextCInv
<1>3. CInv => ClosureLife
  <2> SUFFICES ASSUME CInv, NEW k \in Closures
               PROVE  /\ deletes[k] <= 1
                      /\ local[k] /\ pc[k] = "idle" => deletes[k] = 1
                      /\ pc[k] = "called" /\ local[k] => mem[k] = "live"
                      /\ runs[k] > 0 => passed[k] = obj[k].args
    BY DEF ClosureLife
  <2>1. LifeOf(k)
    BY DEF CInv
  <2> QED BY <2>1 DEF LifeOf
<1> QED BY <1>1, <1>2, <1>3, PTL DEF CSpec

-----------------------------------------------------------------------------
(* PyApp                                                                   *)

ATypes ==
    /\ worker_threads \in Int /\ worker_threads > 0
    /\ made \in 0 .. MaxManagers
    /\ mgr \in 0 .. made
    /\ workers \in [Managers -> Int]
    /\ inRun \in [Users -> Int]
    /\ wrapper \in [Wrappers -> Int]
    /\ pyRefs \in [PyServices -> Int]
    /\ offered \in [PyServices -> Int]
    /\ serving \subseteq PyServices

\* A service that a worker may call or calls has the reference of its
\* PythonRpcService, which nothing deletes.
Referenced ==
    /\ \A s \in PyServices : offered[s] # NoManager => pyRefs[s] > 0
    /\ \A s \in serving : pyRefs[s] > 0

AInv == ATypes /\ Referenced /\ AppUsesAlive

\* get() returns the manager there is, or one with as many workers as the
\* options say.
LEMMA GetFacts ==
    ASSUME ATypes, AppUsesAlive, Get
    PROVE  /\ Got \in 1 .. made' /\ made' \in 0 .. MaxManagers
           /\ workers' \in [Managers -> Int]
           /\ \A g \in 1 .. made' : workers'[g] > 0
           /\ mgr # NoManager => Got = mgr
<1>0. /\ MaxManagers \in Nat /\ made \in 0 .. MaxManagers /\ mgr \in 0 .. made
      /\ worker_threads \in Int /\ worker_threads > 0
      /\ workers \in [Managers -> Int] /\ \A g \in 1 .. made : workers[g] > 0
  BY AppAssumption DEF ATypes, AppUsesAlive
<1>1. CASE mgr = NoManager
  <2>1. /\ Got = made + 1 /\ made' = made + 1 /\ made < MaxManagers
        /\ workers' = [workers EXCEPT ![made + 1] = worker_threads]
    BY <1>1 DEF Got, Get, CanGet
  <2>2. made + 1 \in Managers
    BY <1>0, <2>1 DEF Managers
  <2>3. /\ workers' \in [Managers -> Int] /\ workers'[made + 1] = worker_threads
        /\ \A g \in Managers : g # made + 1 => workers'[g] = workers[g]
    BY <1>0, <2>1, <2>2
  <2>4. ASSUME NEW g \in 1 .. made' PROVE workers'[g] > 0
    <3>1. g \in Managers /\ (g = made + 1 \/ g \in 1 .. made)
      BY <1>0, <2>1, <2>4 DEF Managers
    <3> QED BY <1>0, <2>3, <3>1
  <2> QED BY <1>0, <1>1, <2>1, <2>3, <2>4
<1>2. CASE mgr # NoManager
  <2>1. Got = mgr /\ made' = made /\ workers' = workers
    BY <1>2 DEF Got, Get
  <2> QED BY <1>0, <1>2, <2>1 DEF NoManager
<1> QED BY <1>1, <1>2

\* The manager that is released is one that nobody holds.
LEMMA ReleaseFacts ==
    ASSUME ATypes, AppUsesAlive, NEW inside, NEW objs,
           \A u \in Users : inside[u] \in {NoManager, mgr},
           \A o \in Wrappers : objs[o] \in {NoManager, mgr},
           ReleaseManager(inside, objs)
    PROVE  /\ mgr' \in 0 .. made /\ serving' \subseteq serving
           /\ \A u \in Users : inside[u] \in {NoManager, mgr'}
           /\ \A o \in Wrappers : objs[o] \in {NoManager, mgr'}
<1>0. made \in Nat /\ mgr \in 0 .. made
  BY AppAssumption DEF ATypes
<1>1. CASE Kept(inside, objs)
  BY <1>0, <1>1 DEF ReleaseManager
<1>2. CASE ~Kept(inside, objs)
  <2>1. mgr' = 0 /\ serving' = {}
    BY <1>2 DEF ReleaseManager, NoManager
  <2>2. /\ \A u \in Users : inside[u] = NoManager
        /\ \A o \in Wrappers : objs[o] = NoManager
    BY <1>2 DEF Kept
  <2> QED BY <1>0, <2>1, <2>2
<1> QED BY <1>1, <1>2

\* Every step of the application keeps the invariant.
LEMMA NextAInv ==
    ASSUME AInv, [ANext]_avars
    PROVE  AInv'
<1>0. /\ worker_threads \in Int /\ worker_threads > 0
      /\ made \in 0 .. MaxManagers
      /\ mgr \in 0 .. made
      /\ workers \in [Managers -> Int]
      /\ inRun \in [Users -> Int]
      /\ wrapper \in [Wrappers -> Int]
      /\ pyRefs \in [PyServices -> Int]
      /\ offered \in [PyServices -> Int]
      /\ serving \subseteq PyServices
      /\ ATypes /\ AppUsesAlive /\ NoManager = 0
  BY DEF AInv, ATypes, NoManager
<1>i. /\ \A u \in Users : inRun[u] \in {NoManager, mgr}
      /\ \A o \in Wrappers : wrapper[o] \in {NoManager, mgr}
      /\ \A g \in 1 .. made : workers[g] > 0
      /\ \A s \in PyServices : offered[s] # NoManager => pyRefs[s] > 0
      /\ \A s \in serving : pyRefs[s] > 0
  BY DEF AInv, Referenced, AppUsesAlive
<1>a. ASSUME ATypes', Referenced',
             \A u \in Users : inRun'[u] \in {NoManager, mgr'},
             \A o \in Wrappers : wrapper'[o] \in {NoManager, mgr'},
             \A g \in 1 .. made' : workers'[g] > 0
      PROVE  AInv'
  BY <1>a DEF AInv, Referenced, AppUsesAlive
<1>1. ASSUME NEW u \in Users, Run(u) PROVE AInv'
  <2>1. /\ Get /\ mgr' = Got /\ inRun' = [inRun EXCEPT ![u] = Got]
        /\ UNCHANGED <<worker_threads, wrapper, pyRefs, offered, serving>>
    BY <1>1 DEF Run, RunHolds
  <2>2. /\ Got \in 1 .. made' /\ made' \in 0 .. MaxManagers
        /\ workers' \in [Managers -> Int]
        /\ \A g \in 1 .. made' : workers'[g] > 0
        /\ mgr # NoManager => Got = mgr
    BY <1>0, <2>1, GetFacts
  <2>3. /\ \A v \in Users : inRun[v] \in {NoManager, Got}
        /\ \A o \in Wrappers : wrapper[o] \in {NoManager, Got}
    BY <1>i, <2>2
  <2>4. /\ inRun' \in [Users -> Int] /\ \A v \in Users : inRun'[v] \in {NoManager, mgr'}
        /\ mgr' \in 0 .. made'
    BY <1>0, <2>1, <2>2, <2>3
  <2>5. ATypes' /\ Referenced'
    BY <1>0, <1>i, <2>1, <2>2, <2>4 DEF ATypes, Referenced
  <2> QED BY <1>a, <2>1, <2>2, <2>3, <2>4, <2>5
<1>2. ASSUME NEW u \in Users, RunReturns(u) PROVE AInv'
  <2>1. /\ inRun' = [inRun EXCEPT ![u] = NoManager] /\ ReleaseManager(inRun', wrapper)
        /\ UNCHANGED <<worker_threads, made, workers, wrapper, pyRefs, offered>>
    BY <1>2 DEF RunReturns
  <2>2. inRun' \in [Users -> Int] /\ \A v \in Users : inRun'[v] \in {NoManager, mgr}
    BY <1>0, <1>i, <2>1
  <2>3. /\ mgr' \in 0 .. made /\ serving' \subseteq serving
        /\ \A v \in Users : inRun'[v] \in {NoManager, mgr'}
        /\ \A o \in Wrappers : wrapper[o] \in {NoManager, mgr'}
    BY <1>0, <1>i, <2>1, <2>2, ReleaseFacts
  <2>4. ATypes' /\ Referenced'
    BY <1>0, <1>i, <2>1, <2>2, <2>3 DEF ATypes, Referenced
  <2> QED BY <1>a, <1>i, <2>1, <2>3, <2>4
<1>3. ASSUME NEW u \in Users, Terminate(u) PROVE AInv'
  <2>1. /\ Get /\ mgr' = IF Kept(inRun, wrapper) THEN Got ELSE NoManager
        /\ UNCHANGED <<worker_threads, inRun, wrapper, pyRefs, offered, serving>>
    BY <1>3 DEF Terminate
  <2>2. /\ Got \in 1 .. made' /\ made' \in 0 .. MaxManagers
        /\ workers' \in [Managers -> Int]
        /\ \A g \in 1 .. made' : workers'[g] > 0
        /\ mgr # NoManager => Got = mgr
    BY <1>0, <2>1, GetFacts
  <2>3. /\ \A v \in Users : inRun[v] \in {NoManager, mgr'}
        /\ \A o \in Wrappers : wrapper[o] \in {NoManager, mgr'}
    BY <1>i, <2>1, <2>2 DEF Kept
  <2>4. mgr' \in 0 .. made'
    BY <1>0, <2>1, <2>2, AppAssumption
  <2>5. ATypes' /\ Referenced'
    BY <1>0, <1>i, <2>1, <2>2, <2>4 DEF ATypes, Referenced
  <2> QED BY <1>a, <2>1, <2>2, <2>3, <2>5
<1>4. ASSUME NEW u \in Users, NEW n \in ThreadCounts, SetWorkerThreads(u, n) PROVE AInv'
  <2>1. /\ worker_threads' = IF n <= 0 THEN worker_threads ELSE n
        /\ UNCHANGED <<mgr, made, workers, inRun, wrapper, pyRefs, offered, serving>>
    BY <1>4 DEF SetWorkerThreads, StoreCount
  <2>2. worker_threads' \in Int /\ worker_threads' > 0
    BY <1>0, <2>1, AppAssumption
  <2>3. ATypes' /\ Referenced'
    BY <1>0, <1>i, <2>1, <2>2 DEF ATypes, Referenced
  <2> QED BY <1>a, <1>i, <2>1, <2>3
<1>5. ASSUME NEW u \in Users, NEW o \in Wrappers, NewWrapper(u, o) PROVE AInv'
  <2>1. /\ Get /\ mgr' = Got /\ wrapper' = [wrapper EXCEPT ![o] = Got]
        /\ UNCHANGED <<worker_threads, inRun, pyRefs, offered, serving>>
    BY <1>5 DEF NewWrapper
  <2>2. /\ Got \in 1 .. made' /\ made' \in 0 .. MaxManagers
        /\ workers' \in [Managers -> Int]
        /\ \A g \in 1 .. made' : workers'[g] > 0
        /\ mgr # NoManager => Got = mgr
    BY <1>0, <2>1, GetFacts
  <2>3. /\ \A v \in Users : inRun[v] \in {NoManager, Got}
        /\ \A q \in Wrappers : wrapper[q] \in {NoManager, Got}
    BY <1>i, <2>2
  <2>4. /\ wrapper' \in [Wrappers -> Int] /\ \A q \in Wrappers : wrapper'[q] \in {NoManager, mgr'}
        /\ mgr' \in 0 .. made'
    BY <1>0, <2>1, <2>2, <2>3
  <2>5. ATypes' /\ Referenced'
    BY <1>0, <1>i, <2>1, <2>2, <2>4 DEF ATypes, Referenced
  <2> QED BY <1>a, <2>1, <2>2, <2>3, <2>4, <2>5
<1>6. ASSUME NEW u \in Users, NEW o \in Wrappers, DropWrapper(u, o) PROVE AInv'
  <2>1. /\ wrapper' = [wrapper EXCEPT ![o] = NoManager] /\ ReleaseManager(inRun, wrapper')
        /\ UNCHANGED <<worker_threads, made, workers, inRun, pyRefs, offered>>
    BY <1>6 DEF DropWrapper
  <2>2. wrapper' \in [Wrappers -> Int] /\ \A q \in Wrappers : wrapper'[q] \in {NoManager, mgr}
    BY <1>0, <1>i, <2>1
  <2>3. /\ mgr' \in 0 .. made /\ serving' \subseteq serving
        /\ \A v \in Users : inRun[v] \in {NoManager, mgr'}
        /\ \A q \in Wrappers : wrapper'[q] \in {NoManager, mgr'}
    BY <1>0, <1>i, <2>1, <2>2, ReleaseFacts
  <2>4. ATypes' /\ Referenced'
    BY <1>0, <1>i, <2>1, <2>2, <2>3 DEF ATypes, Referenced
  <2> QED BY <1>a, <1>i, <2>1, <2>3, <2>4
<1>7. ASSUME NEW u \in Users, NEW o \in Wrappers, NEW s \in PyServices, RegisterService(u, o, s)
      PROVE  AInv'
  <2>1. /\ pyRefs[s] = 0 /\ pyRefs' = [pyRefs EXCEPT ![s] = @ + 1]
        /\ offered' = [offered EXCEPT ![s] = wrapper[o]] \/ UNCHANGED offered
        /\ UNCHANGED <<worker_threads, mgr, made, workers, inRun, wrapper, serving>>
    BY <1>7 DEF RegisterService, OwnReference
  <2>2. /\ pyRefs' \in [PyServices -> Int] /\ pyRefs'[s] = 1
        /\ \A q \in PyServices : q # s => pyRefs'[q] = pyRefs[q]
    BY <1>0, <2>1
  <2>3. offered' \in [PyServices -> Int] /\ \A q \in PyServices : q # s => offered'[q] = offered[q]
    BY <1>0, <2>1
  <2>4. Referenced'
    BY <1>0, <1>i, <2>1, <2>2, <2>3 DEF Referenced
  <2>5. ATypes'
    BY <1>0, <2>1, <2>2, <2>3 DEF ATypes
  <2> QED BY <1>a, <1>i, <2>1, <2>4, <2>5
<1>8. ASSUME NEW u \in Users, NEW s \in PyServices, DropService(u, s) PROVE AInv'
  <2>1. UNCHANGED <<worker_threads, mgr, made, workers, inRun, wrapper, pyRefs, offered, serving>>
    BY <1>8 DEF DropService
  <2>2. ATypes' /\ Referenced'
    BY <1>0, <1>i, <2>1 DEF ATypes, Referenced
  <2> QED BY <1>a, <1>i, <2>1, <2>2
<1>9. ASSUME NEW s \in PyServices, ServeBegins(s) PROVE AInv'
  <2>1. /\ mgr # NoManager /\ offered[s] = mgr /\ serving' = {s}
        /\ UNCHANGED <<worker_threads, mgr, made, workers, inRun, wrapper, pyRefs, offered>>
    BY <1>9 DEF ServeBegins
  <2>2. ATypes' /\ Referenced'
    BY <1>0, <1>i, <2>1 DEF ATypes, Referenced
  <2> QED BY <1>a, <1>i, <2>1, <2>2
<1>10. ASSUME ServeEnds PROVE AInv'
  <2>1. /\ serving' = {}
        /\ UNCHANGED <<worker_threads, mgr, made, workers, inRun, wrapper, pyRefs, offered>>
    BY <1>10 DEF ServeEnds
  <2>2. ATypes' /\ Referenced'
    BY <1>0, <1>i, <2>1 DEF ATypes, Referenced
  <2> QED BY <1>a, <1>i, <2>1, <2>2
<1>11. CASE UNCHANGED avars
  <2>1. UNCHANGED <<worker_threads, mgr, made, workers, inRun, wrapper, pyRefs, offered, serving>>
    BY <1>11 DEF avars
  <2>2. ATypes' /\ Referenced'
    BY <1>0, <1>i, <2>1 DEF ATypes, Referenced
  <2> QED BY <1>a, <1>i, <2>1, <2>2
<1> QED BY <1>1, <1>2, <1>3, <1>4, <1>5, <1>6, <1>7, <1>8, <1>9, <1>10, <1>11 DEF ANext

\* The manager that a thread runs in or an RpcChannel or Server holds is the one
\* that lives, made with at least one worker, and a service that a worker
\* calls is not destroyed, whatever the application drops in whichever order.
THEOREM ApplicationUsesAlive == ASpec => []AppUsesAlive
<1>1. AInit => AInv
  <2> SUFFICES ASSUME AInit PROVE AInv
    OBVIOUS
  <2>1. ATypes
    BY AppAssumption DEF AInit, ATypes, NoManager
  <2>2. Referenced /\ AppUsesAlive
    BY DEF AInit, Referenced, AppUsesAlive
  <2> QED BY <2>1, <2>2 DEF AInv
<1>2. AInv /\ [ANext]_avars => AInv'
  BY NextAInv
<1>3. AInv => AppUsesAlive
  BY DEF AInv
<1> QED BY <1>1, <1>2, <1>3, PTL DEF ASpec
=============================================================================
