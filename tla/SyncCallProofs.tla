--------------------------- MODULE SyncCallProofs ---------------------------
(***************************************************************************)
(* Proofs about SyncCall for any number of callers, workers and calls: the *)
(* handler on the caller's stack outlives its use, and the first answer is *)
(* the one that the caller gets.                                           *)
(***************************************************************************)
EXTENDS SyncCall, QueueFacts

-----------------------------------------------------------------------------
(* The inductive invariant                                                 *)

\* The i-th command of worker w is one of the given sort for call c.
About(c, w, i, sort) ==
    i \in DOMAIN cmds[w] /\ cmds[w][i].cmd = sort /\ cmds[w][i].call = c

\* Whatever is known about a call is known to the worker of its connection,
\* and only once the call has been made.
Homes ==
    /\ \A c \in Calls : at[c] # "none" => home[c] \in Pool
    /\ \A c \in Calls : at[c] = "none" => ~ready[c] /\ arrived[c] = <<>>
    /\ \A c \in Calls, w \in Pool : \A i \in DOMAIN cmds[w] :
         About(c, w, i, "start") \/ About(c, w, i, "complete") =>
            at[c] # "none" /\ home[c] = w
    /\ \A w \in Pool : \A c \in pending[w] : at[c] # "none" /\ home[c] = w
    /\ \A w \in Pool : job[w].st \in Busy => job[w].call \in pending[w]

\* A call is started once, before its completions.
StartedOnce ==
    \A c \in Calls, w \in Pool : \A i \in DOMAIN cmds[w] :
        About(c, w, i, "start") =>
            /\ c \notin pending[w] /\ ~ready[c]
            /\ \A j \in DOMAIN cmds[w] : About(c, w, j, "start") => j = i
            /\ \A j \in DOMAIN cmds[w] : About(c, w, j, "complete") => i < j

\* signal() sets ready_ and holds the mutex to its end; the caller leaves
\* wait() when ready_ is set and the mutex is free.
Signalled ==
    /\ \A w \in Pool : job[w].st \in {"notify", "unlock"} =>
         ready[job[w].call] /\ mu[job[w].call] = "worker"
    /\ \A w \in Pool : \A c \in pending[w] :
         ready[c] => job[w].st \in {"notify", "unlock"} /\ job[w].call = c
    /\ \A c \in Calls : at[c] \in {"read", "returned"} => ready[c] /\ mu[c] = "free"

\* A worker runs the handler of c, or has run it.
Handled(c) == ready[c] \/ \E w \in Pool : job[w].st \in Busy /\ job[w].call = c

\* The first completion that arrived is still to come to worker w, behind the
\* start.
FirstToCome(c, w) ==
    /\ c \in pending[w] \/ \E i \in DOMAIN cmds[w] : About(c, w, i, "start")
    /\ arrived[c] = <<>> => \A i \in DOMAIN cmds[w] : ~About(c, w, i, "complete")
    /\ arrived[c] # <<>> =>
         \E i \in DOMAIN cmds[w] :
            /\ About(c, w, i, "complete") /\ cmds[w][i].kind = Head(arrived[c])
            /\ \A j \in DOMAIN cmds[w] : About(c, w, j, "complete") => i <= j

FirstStored(c) ==
    arrived[c] # <<>> /\ stored[c] = Outcome(c, Head(arrived[c]))

Answered ==
    \A c \in Calls :
        /\ Handled(c) => FirstStored(c)
        /\ at[c] # "none" /\ ~Handled(c) =>
             \A w \in Pool : home[c] = w => FirstToCome(c, w)
        /\ at[c] = "returned" => result[c] = stored[c]

\* The timeout is counted on top of the bound on answers.
Counted ==
    \A c \in Calls : Len(arrived[c]) > MaxArrivals =>
        \E i \in DOMAIN arrived[c] : arrived[c][i] = "timeout"

SInv == TypeOK /\ Counted /\ Homes /\ StartedOnce /\ Signalled /\ Answered

-----------------------------------------------------------------------------
(* Commands in queues, and the job of a worker                             *)

\* What an added command changes.
LEMMA AboutPush ==
    ASSUME NEW w \in Pool, NEW m, Pushed(cmds, cmds', Pool, w, m),
           NEW c, NEW v \in Pool, NEW i, NEW sort
    PROVE  /\ About(c, v, i, sort) => About(c, v, i, sort)'
           /\ About(c, v, i, sort)' =>
                \/ About(c, v, i, sort)
                \/ v = w /\ i = Len(cmds[w]) + 1 /\ m.cmd = sort /\ m.call = c
BY DEF Pushed, About

\* What a removed command changes.
LEMMA AboutPop ==
    ASSUME NEW w \in Pool, Popped(cmds, cmds', Pool, w), NEW c, NEW sort
    PROVE  /\ \A v \in Pool : v # w => \A i :
                About(c, v, i, sort)' <=> About(c, v, i, sort)
           /\ \A i : About(c, w, i, sort)' =>
                i \in Nat /\ i > 0 /\ About(c, w, i + 1, sort)
           /\ \A i : About(c, w, i, sort) /\ i # 1 =>
                i \in Nat /\ About(c, w, i - 1, sort)'
<1>1. ASSUME NEW v \in Pool, v # w, NEW i
      PROVE  About(c, v, i, sort)' <=> About(c, v, i, sort)
  BY <1>1 DEF Popped, About
<1>2. ASSUME NEW i, About(c, w, i, sort)'
      PROVE  i \in Nat /\ i > 0 /\ About(c, w, i + 1, sort)
  BY <1>2 DEF Popped, About
<1>3. ASSUME NEW i, About(c, w, i, sort), i # 1
      PROVE  i \in Nat /\ About(c, w, i - 1, sort)'
  BY <1>3 DEF Popped, About
<1> QED BY <1>1, <1>2, <1>3

\* A worker goes on in signal() for the same call.
LEMMA StepFacts ==
    ASSUME TypeOK, NEW w \in Pool, NEW from \in Busy, NEW to \in Busy, Step(w, from, to)
    PROVE  /\ job[w].st = from /\ job'[w].st = to /\ job[w].call \in Calls
           /\ job'[w].call = job[w].call
           /\ \A v \in Pool : v # w => job'[v] = job[v]
           /\ job' \in [Pool -> Jobs]
<1>1. job[w] \in Jobs /\ job[w].st = from
  BY DEF TypeOK, Step
<1>2. job[w] \in [st : Busy, call : Calls]
  BY <1>1 DEF Jobs, Busy
<1>3. job' = [job EXCEPT ![w] = [job[w] EXCEPT !.st = to]]
  BY DEF Step
<1>4. [job[w] EXCEPT !.st = to] \in [st : Busy, call : Calls]
  BY <1>2
<1>5. [job[w] EXCEPT !.st = to].st = to /\ [job[w] EXCEPT !.st = to].call = job[w].call
  BY <1>2
<1> QED BY <1>1, <1>2, <1>3, <1>4, <1>5 DEF TypeOK, Jobs

\* The command that a worker takes.
LEMMA TakeFacts ==
    ASSUME TypeOK, NEW w \in Pool, NEW sort, Take(w, sort)
    PROVE  /\ cmds' \in [Pool -> Seq(Commands)] /\ Popped(cmds, cmds', Pool, w)
           /\ Head(cmds[w]) = cmds[w][1] /\ About(Head(cmds[w]).call, w, 1, sort)
           /\ sort # "run" => Head(cmds[w]).call \in Calls
           /\ sort = "complete" => Head(cmds[w]).kind \in Kinds
           /\ 1 \in DOMAIN cmds[w] /\ job[w].st = "idle"
<1>1. cmds \in [Pool -> Seq(Commands)]
  BY DEF TypeOK
<1>2. cmds[w] # <<>> /\ cmds' = Without(cmds, w)
  BY DEF Take, Without
<1>3. /\ cmds' \in [Pool -> Seq(Commands)] /\ Popped(cmds, cmds', Pool, w)
      /\ Head(cmds[w]) \in Commands
  BY <1>1, <1>2, Removed
<1>4. Head(cmds[w]).cmd = sort
  BY DEF Take
<1>5. /\ sort # "run" => Head(cmds[w]).call \in Calls
      /\ sort = "complete" => Head(cmds[w]).kind \in Kinds
  BY <1>3, <1>4 DEF Commands
<1> QED BY <1>3, <1>4, <1>5 DEF Popped, About, Take, Idle

\* A worker that is idle or runs application code handles no call.
LEMMA NotBusy ==
    /\ Idle.st \notin Busy /\ Idle \in Jobs
    /\ [st |-> "app", call |-> 0].st \notin Busy /\ [st |-> "app", call |-> 0] \in Jobs
BY DEF Idle, Busy, Jobs

\* What a step adds to a queue.
LEMMA AddFacts ==
    ASSUME TypeOK, NEW w \in Pool, NEW m \in Commands,
           cmds' = [cmds EXCEPT ![w] = Append(@, m)]
    PROVE  cmds' \in [Pool -> Seq(Commands)] /\ Pushed(cmds, cmds', Pool, w, m)
<1>1. cmds \in [Pool -> Seq(Commands)]
  BY DEF TypeOK
<1>2. cmds' = With(cmds, w, m)
  BY DEF With
<1>3. /\ With(cmds, w, m) \in [Pool -> Seq(Commands)]
      /\ Pushed(cmds, With(cmds, w, m), Pool, w, m)
  BY <1>1, Appended
<1> QED BY <1>2, <1>3

StartCmd(c)       == [cmd |-> "start", call |-> c, kind |-> "none"]
CompleteCmd(c, k) == [cmd |-> "complete", call |-> c, kind |-> k]
RunCmd            == [cmd |-> "run", call |-> 0, kind |-> "none"]

\* The caller's request is queued for the worker of its connection.
LEMMA RequestFacts ==
    ASSUME TypeOK, NEW a \in Callers, NEW c \in Calls, NEW w \in Pool, NEW t \in BOOLEAN,
           Request(a, c, w, t)
    PROVE  /\ cmds' \in [Pool -> Seq(Commands)]
           /\ Pushed(cmds, cmds', Pool, w, StartCmd(c))
<1>1. StartCmd(c) \in Commands
  BY DEF StartCmd, Commands
<1>2. cmds' = [cmds EXCEPT ![w] = Append(@, StartCmd(c))]
  BY DEF Request, StartCmd
<1> QED BY <1>1, <1>2, AddFacts

\* What is added to a queue becomes its first message only if it was empty.
LEMMA FirstOfAppend ==
    ASSUME NEW S, NEW s \in Seq(S), NEW k \in S
    PROVE  /\ s = <<>> => Append(s, k) = <<k>>
           /\ s # <<>> => Append(s, k) # <<>>
           /\ s # <<>> => Head(Append(s, k)) = Head(s)
<1>1. Append(s, k) \in Seq(S) /\ Len(Append(s, k)) = Len(s) + 1 /\ Len(s) \in Nat
  OBVIOUS
<1>2. ASSUME s = <<>> PROVE Append(s, k) = <<k>>
  BY <1>2
<1>3. Append(s, k) # <<>>
  BY <1>1
<1>4. ASSUME s # <<>> PROVE Head(Append(s, k)) = Head(s)
  <2>1. Len(s) > 0 /\ Head(s) = s[1] /\ Append(s, k)[1] = s[1]
    BY <1>4
  <2>2. Head(Append(s, k)) = Append(s, k)[1]
    BY <1>1, <1>3
  <2> QED BY <2>1, <2>2
<1> QED BY <1>2, <1>3, <1>4

\* A completion is queued for the worker of the call's connection.
LEMMA ArriveFacts ==
    ASSUME TypeOK, Homes, NEW c \in Calls, NEW k \in Kinds, Arrive(c, k)
    PROVE  /\ cmds' \in [Pool -> Seq(Commands)] /\ home[c] \in Pool
           /\ Pushed(cmds, cmds', Pool, home[c], CompleteCmd(c, k))
           /\ arrived[c] = <<>> => arrived'[c] = <<k>>
           /\ arrived[c] # <<>> => arrived'[c] # <<>> /\ Head(arrived'[c]) = Head(arrived[c])
           /\ \A d \in Calls : d # c => arrived'[d] = arrived[d]
<1>1. CompleteCmd(c, k) \in Commands /\ home[c] \in Pool
  BY DEF CompleteCmd, Commands, Homes, Arrive
<1>2. cmds' = [cmds EXCEPT ![home[c]] = Append(@, CompleteCmd(c, k))]
  BY DEF Arrive, CompleteCmd
<1>3. /\ cmds' \in [Pool -> Seq(Commands)]
      /\ Pushed(cmds, cmds', Pool, home[c], CompleteCmd(c, k))
  BY <1>1, <1>2, AddFacts
<1>4. /\ arrived \in [Calls -> Seq(Kinds)]
      /\ arrived' = [arrived EXCEPT ![c] = Append(arrived[c], k)]
  BY DEF TypeOK, Arrive
<1>5. /\ arrived'[c] = Append(arrived[c], k) /\ arrived[c] \in Seq(Kinds)
      /\ \A d \in Calls : d # c => arrived'[d] = arrived[d]
  BY <1>4
<1>6. /\ arrived[c] = <<>> => Append(arrived[c], k) = <<k>>
      /\ arrived[c] # <<>> => Append(arrived[c], k) # <<>>
      /\ arrived[c] # <<>> => Head(Append(arrived[c], k)) = Head(arrived[c])
  BY <1>5, FirstOfAppend
<1> QED BY <1>1, <1>3, <1>5, <1>6

\* Application code is queued for a worker.
LEMMA RunFacts ==
    ASSUME TypeOK, NEW w \in Pool, RunCommand(w)
    PROVE  /\ cmds' \in [Pool -> Seq(Commands)]
           /\ Pushed(cmds, cmds', Pool, w, RunCmd)
<1>1. RunCmd \in Commands
  BY DEF RunCmd, Commands
<1>2. cmds' = [cmds EXCEPT ![w] = Append(@, RunCmd)]
  BY DEF RunCommand, RunCmd
<1> QED BY <1>1, <1>2, AddFacts

-----------------------------------------------------------------------------
(* Types                                                                   *)

\* Every step keeps the types, and the bound on completions.
LEMMA NextTypeOK ==
    ASSUME TypeOK, Counted, Homes, [Next]_vars
    PROVE  TypeOK' /\ Counted'
<1> USE DEF callVars
<1>0. /\ by \in [Calls -> Callers \cup {Nobody}]
      /\ home \in [Calls -> Pool \cup {Nobody}]
      /\ timed \in [Calls -> BOOLEAN]
      /\ at \in [Calls -> {"none", "lock", "wait", "read", "returned"}]
      /\ mu \in [Calls -> {"free", "worker"}]
      /\ ready \in [Calls -> BOOLEAN]
      /\ stored \in [Calls -> Kinds \cup {"none", "good"}]
      /\ result \in [Calls -> Kinds \cup {"none", "good"}]
      /\ cmds \in [Pool -> Seq(Commands)]
      /\ pending \in [Pool -> SUBSET Calls]
      /\ job \in [Pool -> Jobs]
      /\ arrived \in [Calls -> Seq(Kinds)]
      /\ \A c \in Calls : Len(arrived[c]) <= MaxArrivals + 1
      /\ runs \in 0 .. MaxRuns
  BY DEF TypeOK
<1>a. ASSUME cmds' \in [Pool -> Seq(Commands)], pending' \in [Pool -> SUBSET Calls],
             job' \in [Pool -> Jobs],
             stored' \in [Calls -> Kinds \cup {"none", "good"}],
             at' \in [Calls -> {"none", "lock", "wait", "read", "returned"}],
             mu' \in [Calls -> {"free", "worker"}], ready' \in [Calls -> BOOLEAN],
             UNCHANGED <<callVars, result, arrived, runs>>
      PROVE  TypeOK' /\ Counted'
  BY <1>0, <1>a DEF TypeOK, Counted
<1>1. ASSUME NEW a \in Callers, NEW c \in Calls, NEW w \in Pool, NEW t \in BOOLEAN,
             Request(a, c, w, t)
      PROVE  TypeOK' /\ Counted'
  <2>1. cmds' \in [Pool -> Seq(Commands)]
    BY <1>1, RequestFacts
  <2>2. /\ by' = [by EXCEPT ![c] = a] /\ home' = [home EXCEPT ![c] = w]
        /\ timed' = [timed EXCEPT ![c] = t] /\ at' = [at EXCEPT ![c] = "lock"]
        /\ UNCHANGED <<mu, ready, stored, result, pending, job, arrived, runs>>
    BY <1>1 DEF Request
  <2>3. /\ by' \in [Calls -> Callers \cup {Nobody}] /\ home' \in [Calls -> Pool \cup {Nobody}]
        /\ timed' \in [Calls -> BOOLEAN]
        /\ at' \in [Calls -> {"none", "lock", "wait", "read", "returned"}]
    BY <1>0, <2>2
  <2> QED BY <1>0, <2>1, <2>2, <2>3 DEF TypeOK, Counted
<1>2. ASSUME NEW c \in Calls, Wait(c) \/ WakeUp(c) PROVE TypeOK' /\ Counted'
  <2>1. at' \in [Calls -> {"none", "lock", "wait", "read", "returned"}]
    BY <1>0, <1>2 DEF Wait, WakeUp
  <2> QED BY <1>0, <1>2, <1>a, <2>1 DEF Wait, WakeUp
<1>3. ASSUME NEW c \in Calls, Return(c) PROVE TypeOK' /\ Counted'
  <2>1. /\ at' \in [Calls -> {"none", "lock", "wait", "read", "returned"}]
        /\ result' \in [Calls -> Kinds \cup {"none", "good"}]
    BY <1>0, <1>3 DEF Return
  <2> QED BY <1>0, <1>3, <2>1 DEF Return, TypeOK, Counted
<1>4. ASSUME NEW c \in Calls, NEW k \in Kinds, Arrive(c, k) PROVE TypeOK' /\ Counted'
  <2>2. cmds' \in [Pool -> Seq(Commands)]
    BY <1>4, ArriveFacts
  <2>3. /\ arrived' = [arrived EXCEPT ![c] = Append(arrived[c], k)]
        /\ UNCHANGED <<callVars, at, mu, ready, stored, result, pending, job, runs>>
    BY <1>4 DEF Arrive
  <2>4. /\ arrived[c] \in Seq(Kinds) /\ Append(arrived[c], k) \in Seq(Kinds)
        /\ Len(arrived[c]) \in Nat /\ DOMAIN arrived[c] = 1 .. Len(arrived[c])
        /\ Len(Append(arrived[c], k)) = Len(arrived[c]) + 1
        /\ DOMAIN Append(arrived[c], k) = 1 .. Len(arrived[c]) + 1
        /\ Append(arrived[c], k)[Len(arrived[c]) + 1] = k
        /\ \A i \in DOMAIN arrived[c] : Append(arrived[c], k)[i] = arrived[c][i]
    BY <1>0
  <2>5. /\ arrived' \in [Calls -> Seq(Kinds)] /\ arrived'[c] = Append(arrived[c], k)
        /\ \A d \in Calls : d # c => arrived'[d] = arrived[d]
    BY <1>0, <2>3, <2>4
  <2>6. Len(arrived[c]) < MaxArrivals + 1
    <3>1. CASE k # "timeout"
      BY <1>4, <3>1, <2>4, BoundsAssumption DEF Arrive
    <3>2. CASE k = "timeout"
      <4>1. \A i \in DOMAIN arrived[c] : arrived[c][i] # "timeout"
        BY <1>4, <3>2 DEF Arrive, Armed
      <4>2. ~(Len(arrived[c]) > MaxArrivals)
        BY <4>1 DEF Counted
      <4> QED BY <4>2, <2>4, BoundsAssumption
    <3> QED BY <3>1, <3>2
  <2>7. Len(arrived'[c]) <= MaxArrivals + 1
    BY <2>4, <2>5, <2>6, BoundsAssumption
  <2>8. Len(arrived'[c]) > MaxArrivals =>
           \E i \in DOMAIN arrived'[c] : arrived'[c][i] = "timeout"
    <3>1. CASE k # "timeout"
      BY <1>4, <3>1, <2>4, <2>5, BoundsAssumption DEF Arrive
    <3>2. CASE k = "timeout"
      BY <3>2, <2>4, <2>5
    <3> QED BY <3>1, <3>2
  <2>9. TypeOK'
    BY <1>0, <2>2, <2>3, <2>5, <2>7 DEF TypeOK
  <2> QED BY <2>5, <2>8, <2>9 DEF Counted
<1>5. ASSUME NEW w \in Pool, RunCommand(w) PROVE TypeOK' /\ Counted'
  <2>1. cmds' \in [Pool -> Seq(Commands)]
    BY <1>5, RunFacts
  <2>2. runs' \in 0 .. MaxRuns
    BY <1>0, <1>5, BoundsAssumption DEF RunCommand
  <2> QED BY <1>0, <1>5, <2>1, <2>2 DEF RunCommand, TypeOK, Counted
<1>6. ASSUME NEW w \in Pool, WorkerStep(w) PROVE TypeOK' /\ Counted'
  <2>1. CASE StartRpc(w)
    <3>1. cmds' \in [Pool -> Seq(Commands)] /\ Head(cmds[w]).call \in Calls
      BY <2>1, TakeFacts DEF StartRpc
    <3>2. pending' \in [Pool -> SUBSET Calls]
      BY <1>0, <2>1, <3>1 DEF StartRpc
    <3> QED BY <1>0, <1>a, <2>1, <3>1, <3>2 DEF StartRpc
  <2>2. CASE RunHandler(w)
    <3> DEFINE c == Head(cmds[w]).call
               k == Head(cmds[w]).kind
    <3>1. cmds' \in [Pool -> Seq(Commands)] /\ c \in Calls /\ k \in Kinds
      BY <2>2, TakeFacts DEF RunHandler
    <3>2. Outcome(c, k) \in Kinds \cup {"none", "good"}
      BY <3>1 DEF Outcome
    <3>3. [st |-> "lock", call |-> c] \in Jobs
      BY <3>1 DEF Jobs, Busy
    <3>4. /\ \/ /\ job' = [job EXCEPT ![w] = [st |-> "lock", call |-> c]]
                /\ stored' = [stored EXCEPT ![c] = Outcome(c, k)]
             \/ UNCHANGED <<job, stored>>
          /\ UNCHANGED <<callVars, at, mu, ready, result, pending, arrived, runs>>
      BY <2>2 DEF RunHandler
    <3> HIDE DEF c, k
    <3>5. job' \in [Pool -> Jobs] /\ stored' \in [Calls -> Kinds \cup {"none", "good"}]
      BY <1>0, <3>1, <3>2, <3>3, <3>4
    <3> QED BY <1>0, <1>a, <3>1, <3>4, <3>5
  <2>3. CASE RunApplication(w)
    <3>1. cmds' \in [Pool -> Seq(Commands)]
      BY <2>3, TakeFacts DEF RunApplication
    <3>2. job' \in [Pool -> Jobs]
      BY <1>0, <2>3, NotBusy DEF RunApplication
    <3> QED BY <1>0, <1>a, <2>3, <3>1, <3>2 DEF RunApplication
  <2>4. CASE ApplicationReturns(w)
    <3>1. job' \in [Pool -> Jobs]
      BY <1>0, <2>4, NotBusy DEF ApplicationReturns
    <3> QED BY <1>0, <1>a, <2>4, <3>1 DEF ApplicationReturns
  <2>5. CASE SignalLock(w)
    <3>1. job' \in [Pool -> Jobs] /\ job[w].call \in Calls
      BY <2>5, StepFacts DEF SignalLock, Busy
    <3>2. mu' \in [Calls -> {"free", "worker"}] /\ ready' \in [Calls -> BOOLEAN]
      BY <1>0, <2>5, <3>1 DEF SignalLock
    <3> QED BY <1>0, <1>a, <2>5, <3>1, <3>2 DEF SignalLock
  <2>6. CASE SignalNotify(w)
    <3>1. job' \in [Pool -> Jobs] /\ job[w].call \in Calls
      BY <2>6, StepFacts DEF SignalNotify, Busy
    <3>2. at' \in [Calls -> {"none", "lock", "wait", "read", "returned"}]
      BY <1>0, <2>6, <3>1 DEF SignalNotify, Woken
    <3> QED BY <1>0, <1>a, <2>6, <3>1, <3>2 DEF SignalNotify, LockedDuringNotify
  <2>7. CASE SignalUnlock(w)
    <3>1. job' \in [Pool -> Jobs]
      BY <1>0, <2>7, NotBusy DEF SignalUnlock
    <3>2. mu' \in [Calls -> {"free", "worker"}] /\ pending' \in [Pool -> SUBSET Calls]
      BY <1>0, <2>7 DEF SignalUnlock, ErasedFromMap
    <3> QED BY <1>0, <1>a, <2>7, <3>1, <3>2 DEF SignalUnlock
  <2> QED BY <1>6, <2>1, <2>2, <2>3, <2>4, <2>5, <2>6, <2>7 DEF WorkerStep
<1>7. CASE UNCHANGED vars
  BY <1>0, <1>7 DEF vars, TypeOK, Counted
<1> QED BY <1>1, <1>2, <1>3, <1>4, <1>5, <1>6, <1>7 DEF Next
-----------------------------------------------------------------------------
(* Homes                                                                   *)

\* Every step keeps what is known about a call with the worker of its
\* connection.
LEMMA NextHomes ==
    ASSUME TypeOK, Homes, [Next]_vars
    PROVE  Homes'
<1> USE DEF callVars
<1>0. /\ home \in [Calls -> Pool \cup {Nobody}]
      /\ at \in [Calls -> {"none", "lock", "wait", "read", "returned"}]
      /\ ready \in [Calls -> BOOLEAN]
      /\ pending \in [Pool -> SUBSET Calls]
      /\ job \in [Pool -> Jobs]
  BY DEF TypeOK
<1>1. ASSUME NEW a \in Callers, NEW c \in Calls, NEW w \in Pool, NEW t \in BOOLEAN,
             Request(a, c, w, t)
      PROVE  Homes'
  <2>1. Pushed(cmds, cmds', Pool, w, StartCmd(c)) /\ StartCmd(c).call = c
    BY <1>1, RequestFacts DEF StartCmd
  <2>2. /\ at[c] = "none" /\ at'[c] = "lock" /\ home'[c] = w
        /\ \A d \in Calls : d # c => at'[d] = at[d] /\ home'[d] = home[d]
        /\ UNCHANGED <<ready, pending, job, arrived>>
    BY <1>0, <1>1 DEF Request
  <2>3. ASSUME NEW d \in Calls, NEW v \in Pool, NEW i,
               About(d, v, i, "start")' \/ About(d, v, i, "complete")'
        PROVE  at'[d] # "none" /\ home'[d] = v
    <3>1. \/ About(d, v, i, "start") \/ About(d, v, i, "complete")
          \/ v = w /\ d = c
      BY <2>1, <2>3, AboutPush
    <3> QED BY <2>2, <3>1 DEF Homes, About
  <2>4. \A v \in Pool : \A d \in pending'[v] : at'[d] # "none" /\ home'[d] = v
    BY <1>0, <2>2 DEF Homes
  <2> QED BY <2>2, <2>3, <2>4 DEF Homes
<1>a. ASSUME \A c \in Calls : at'[c] = "none" <=> at[c] = "none",
             \A c \in Calls : at[c] = "none" => ready'[c] = ready[c] /\ arrived'[c] = arrived[c],
             home' = home,
             \A c \in Calls, w \in Pool : \A i \in DOMAIN cmds'[w] :
                About(c, w, i, "start")' \/ About(c, w, i, "complete")' =>
                   at[c] # "none" /\ home[c] = w,
             \A w \in Pool : \A c \in pending'[w] : c \in Calls /\ at[c] # "none" /\ home[c] = w,
             \A w \in Pool : job'[w].st \in Busy => job'[w].call \in pending'[w]
      PROVE  Homes'
  BY <1>a DEF Homes
<1>b. ASSUME UNCHANGED cmds
      PROVE  \A c \in Calls, w \in Pool : \A i \in DOMAIN cmds'[w] :
                About(c, w, i, "start")' \/ About(c, w, i, "complete")' =>
                   at[c] # "none" /\ home[c] = w
  BY <1>b DEF Homes, About
<1>c. ASSUME NEW w \in Pool, NEW sort, Take(w, sort)
      PROVE  \A c \in Calls, v \in Pool : \A i \in DOMAIN cmds'[v] :
                About(c, v, i, "start")' \/ About(c, v, i, "complete")' =>
                   at[c] # "none" /\ home[c] = v
  <2> SUFFICES ASSUME NEW c \in Calls, NEW v \in Pool, NEW i,
                      About(c, v, i, "start")' \/ About(c, v, i, "complete")'
               PROVE  at[c] # "none" /\ home[c] = v
    OBVIOUS
  <2>1. Popped(cmds, cmds', Pool, w)
    BY <1>c, TakeFacts
  <2>2. \E j : About(c, v, j, "start") \/ About(c, v, j, "complete")
    BY <2>1, AboutPop
  <2> QED BY <2>2 DEF Homes, About
<1>2. ASSUME NEW c \in Calls, Wait(c) \/ WakeUp(c) \/ Return(c) PROVE Homes'
  <2>1. /\ \A d \in Calls : at'[d] = "none" <=> at[d] = "none"
        /\ UNCHANGED <<home, ready, arrived, pending, job, cmds>>
    BY <1>0, <1>2 DEF Wait, WakeUp, Return
  <2> QED BY <1>0, <1>a, <1>b, <2>1 DEF Homes
<1>4. ASSUME NEW c \in Calls, NEW k \in Kinds, Arrive(c, k) PROVE Homes'
  <2>1. /\ Pushed(cmds, cmds', Pool, home[c], CompleteCmd(c, k))
        /\ home[c] \in Pool /\ CompleteCmd(c, k).call = c
        /\ \A d \in Calls : d # c => arrived'[d] = arrived[d]
    BY <1>4, ArriveFacts DEF CompleteCmd
  <2>2. at[c] # "none" /\ UNCHANGED <<callVars, at, ready, pending, job>>
    BY <1>4 DEF Arrive
  <2>3. ASSUME NEW d \in Calls, NEW v \in Pool, NEW i,
               About(d, v, i, "start")' \/ About(d, v, i, "complete")'
        PROVE  at[d] # "none" /\ home[d] = v
    <3>1. \/ About(d, v, i, "start") \/ About(d, v, i, "complete")
          \/ v = home[c] /\ d = c
      BY <2>1, <2>3, AboutPush
    <3> QED BY <2>2, <3>1 DEF Homes, About
  <2> QED BY <1>0, <1>a, <2>1, <2>2, <2>3 DEF Homes
<1>5. ASSUME NEW w \in Pool, RunCommand(w) PROVE Homes'
  <2>1. Pushed(cmds, cmds', Pool, w, RunCmd) /\ RunCmd.cmd = "run"
    BY <1>5, RunFacts DEF RunCmd
  <2>2. UNCHANGED <<callVars, at, ready, pending, job, arrived>>
    BY <1>5 DEF RunCommand
  <2>3. ASSUME NEW d \in Calls, NEW v \in Pool, NEW i,
               About(d, v, i, "start")' \/ About(d, v, i, "complete")'
        PROVE  at[d] # "none" /\ home[d] = v
    <3>1. About(d, v, i, "start") \/ About(d, v, i, "complete")
      BY <2>1, <2>3, AboutPush
    <3> QED BY <3>1 DEF Homes, About
  <2> QED BY <1>0, <1>a, <2>2, <2>3 DEF Homes
<1>6. ASSUME NEW w \in Pool, WorkerStep(w) PROVE Homes'
  <2>1. CASE StartRpc(w)
    <3> DEFINE c == Head(cmds[w]).call
    <3>1. /\ pending' = [pending EXCEPT ![w] = @ \cup {c}]
          /\ UNCHANGED <<callVars, at, ready, job, arrived>> /\ Take(w, "start")
      BY <2>1 DEF StartRpc
    <3>2. About(c, w, 1, "start") /\ c \in Calls /\ 1 \in DOMAIN cmds[w]
      BY <3>1, TakeFacts
    <3> HIDE DEF c
    <3>3. at[c] # "none" /\ home[c] = w
      BY <3>2 DEF Homes
    <3>4. \A v \in Pool : \A d \in pending'[v] : d \in Calls /\ at[d] # "none" /\ home[d] = v
      BY <1>0, <3>1, <3>2, <3>3 DEF Homes
    <3>5. \A v \in Pool : job'[v].st \in Busy => job'[v].call \in pending'[v]
      BY <1>0, <3>1 DEF Homes
    <3> QED BY <1>a, <1>c, <3>1, <3>4, <3>5
  <2>2. CASE RunHandler(w)
    <3> DEFINE c == Head(cmds[w]).call
    <3>1. /\ \/ c \in pending[w] /\ job' = [job EXCEPT ![w] = [st |-> "lock", call |-> c]]
             \/ UNCHANGED job
          /\ UNCHANGED <<callVars, at, ready, pending, arrived>> /\ Take(w, "complete")
      BY <2>2 DEF RunHandler
    <3> HIDE DEF c
    <3>2. \A v \in Pool : job'[v].st \in Busy => job'[v].call \in pending'[v]
      BY <1>0, <3>1 DEF Homes
    <3> QED BY <1>0, <1>a, <1>c, <3>1, <3>2 DEF Homes
  <2>3. CASE RunApplication(w)
    <3>1. /\ job' = [job EXCEPT ![w] = [st |-> "app", call |-> 0]]
          /\ UNCHANGED <<callVars, at, ready, pending, arrived>> /\ Take(w, "run")
      BY <2>3 DEF RunApplication
    <3>2. \A v \in Pool : job'[v].st \in Busy => job'[v].call \in pending'[v]
      BY <1>0, <3>1, NotBusy DEF Homes
    <3> QED BY <1>0, <1>a, <1>c, <3>1, <3>2 DEF Homes
  <2>4. CASE ApplicationReturns(w)
    <3>1. /\ job' = [job EXCEPT ![w] = Idle]
          /\ UNCHANGED <<callVars, at, ready, pending, arrived, cmds>>
      BY <2>4 DEF ApplicationReturns
    <3>2. \A v \in Pool : job'[v].st \in Busy => job'[v].call \in pending'[v]
      BY <1>0, <3>1, NotBusy DEF Homes
    <3> QED BY <1>0, <1>a, <1>b, <3>1, <3>2 DEF Homes
  <2>5. CASE SignalLock(w)
    <3> DEFINE c == job[w].call
    <3>1. /\ job[w].st \in Busy /\ c \in Calls /\ job'[w].call = c
          /\ \A v \in Pool : v # w => job'[v] = job[v]
      BY <2>5, StepFacts DEF SignalLock, Busy
    <3>2. /\ ready' = [ready EXCEPT ![c] = TRUE]
          /\ UNCHANGED <<callVars, at, pending, arrived, cmds>>
      BY <2>5 DEF SignalLock
    <3> HIDE DEF c
    <3>3. c \in pending[w] /\ at[c] # "none"
      BY <3>1 DEF Homes, c
    <3>4. \A d \in Calls : at[d] = "none" => ready'[d] = ready[d]
      BY <1>0, <3>2, <3>3
    <3>5. \A v \in Pool : job'[v].st \in Busy => job'[v].call \in pending'[v]
      BY <3>1, <3>2, <3>3 DEF Homes
    <3> QED BY <1>0, <1>a, <1>b, <3>2, <3>4, <3>5 DEF Homes
  <2>6. CASE SignalNotify(w)
    <3> DEFINE c == job[w].call
    <3>1. /\ job[w].st \in Busy /\ c \in Calls /\ job'[w].call = c
          /\ \A v \in Pool : v # w => job'[v] = job[v]
      BY <2>6, StepFacts DEF SignalNotify, Busy
    <3>2. /\ at' = [at EXCEPT ![c] = IF @ = "wait" THEN "lock" ELSE @]
          /\ UNCHANGED <<callVars, ready, pending, arrived, cmds>>
      BY <2>6 DEF SignalNotify, Woken
    <3>3. \A v \in Pool : job'[v].st \in Busy => job'[v].call \in pending'[v]
      BY <3>1, <3>2 DEF Homes
    <3> HIDE DEF c
    <3>4. \A d \in Calls : at'[d] = "none" <=> at[d] = "none"
      BY <1>0, <3>2
    <3> QED BY <1>0, <1>a, <1>b, <3>2, <3>3, <3>4 DEF Homes
  <2>7. CASE SignalUnlock(w)
    <3>1. /\ job' = [job EXCEPT ![w] = Idle]
          /\ pending' = [pending EXCEPT ![w] = @ \ {job[w].call}]
          /\ UNCHANGED <<callVars, at, ready, arrived, cmds>>
      BY <2>7 DEF SignalUnlock, ErasedFromMap
    <3>2. \A v \in Pool : job'[v].st \in Busy => job'[v].call \in pending'[v]
      BY <1>0, <3>1, NotBusy DEF Homes
    <3>3. \A v \in Pool : pending'[v] \subseteq pending[v]
      BY <1>0, <3>1
    <3> QED BY <1>0, <1>a, <1>b, <3>1, <3>2, <3>3 DEF Homes
  <2> QED BY <1>6, <2>1, <2>2, <2>3, <2>4, <2>5, <2>6, <2>7 DEF WorkerStep
<1>7. CASE UNCHANGED vars
  BY <1>0, <1>7, <1>a, <1>b DEF vars, Homes
<1> QED BY <1>1, <1>2, <1>4, <1>5, <1>6, <1>7 DEF Next

-----------------------------------------------------------------------------
(* StartedOnce                                                             *)

\* Every step keeps the start of a call unique and before its completions.
LEMMA NextStartedOnce ==
    ASSUME TypeOK, Homes, StartedOnce, [Next]_vars
    PROVE  StartedOnce'
<1> USE DEF callVars
<1>0. /\ ready \in [Calls -> BOOLEAN]
      /\ pending \in [Pool -> SUBSET Calls]
      /\ job \in [Pool -> Jobs]
  BY DEF TypeOK
<1>a. ASSUME \A c \in Calls, w \in Pool : \A i : About(c, w, i, "start")' =>
                /\ c \notin pending'[w] /\ ~ready'[c]
                /\ \A j : About(c, w, j, "start")' => j = i
                /\ \A j : About(c, w, j, "complete")' => i < j
      PROVE  StartedOnce'
  BY <1>a DEF StartedOnce
<1>o. \A c \in Calls, w \in Pool : \A i : About(c, w, i, "start") =>
        /\ c \notin pending[w] /\ ~ready[c]
        /\ \A j : About(c, w, j, "start") => j = i
        /\ \A j : About(c, w, j, "complete") => i < j
  BY DEF StartedOnce, About
<1>b. ASSUME UNCHANGED cmds,
             \A w \in Pool : pending'[w] \subseteq pending[w],
             \A c \in Calls, w \in Pool : \A i : About(c, w, i, "start") => ~ready'[c]
      PROVE  StartedOnce'
  <2>1. \A c \in Calls, w \in Pool : \A i :
          /\ About(c, w, i, "start")' <=> About(c, w, i, "start")
          /\ About(c, w, i, "complete")' <=> About(c, w, i, "complete")
    BY <1>b DEF About
  <2> QED BY <1>a, <1>b, <1>o, <2>1
<1>c. ASSUME NEW w \in Pool, NEW sort, Take(w, sort), UNCHANGED ready,
             \A c \in Calls, v \in Pool : c \in pending'[v] =>
                c \in pending[v] \/ (About(c, v, 1, "start") /\ v = w)
      PROVE  StartedOnce'
  <2>1. Popped(cmds, cmds', Pool, w)
    BY <1>c, TakeFacts
  <2>2. ASSUME NEW c \in Calls, NEW v \in Pool, NEW i, About(c, v, i, "start")'
        PROVE  /\ c \notin pending'[v] /\ ~ready'[c]
               /\ \A j : About(c, v, j, "start")' => j = i
               /\ \A j : About(c, v, j, "complete")' => i < j
    <3>1. CASE v # w
      <4>1. \A j : /\ About(c, v, j, "start")' <=> About(c, v, j, "start")
                   /\ About(c, v, j, "complete")' <=> About(c, v, j, "complete")
        BY <2>1, <3>1, AboutPop
      <4> QED BY <1>c, <1>o, <2>2, <3>1, <4>1
    <3>2. CASE v = w
      <4>1. /\ \A j : About(c, w, j, "start")' => j \in Nat /\ j > 0 /\ About(c, w, j + 1, "start")
            /\ \A j : About(c, w, j, "complete")' => j \in Nat /\ j > 0 /\ About(c, w, j + 1, "complete")
        BY <2>1, AboutPop
      <4>2. i \in Nat /\ i > 0 /\ About(c, w, i + 1, "start")
        BY <2>2, <3>2, <4>1
      <4>3. ~About(c, w, 1, "start")
        BY <1>o, <4>2
      <4>4. c \notin pending'[v] /\ ~ready'[c]
        BY <1>c, <1>o, <3>2, <4>2, <4>3
      <4>5. ASSUME NEW j, About(c, v, j, "start")' PROVE j = i
        <5>1. j \in Nat /\ About(c, w, j + 1, "start")
          BY <3>2, <4>1, <4>5
        <5>2. j + 1 = i + 1
          BY <1>o, <4>2, <5>1
        <5> QED BY <4>2, <5>1, <5>2
      <4>6. ASSUME NEW j, About(c, v, j, "complete")' PROVE i < j
        <5>1. j \in Nat /\ About(c, w, j + 1, "complete")
          BY <3>2, <4>1, <4>6
        <5>2. i + 1 < j + 1
          BY <1>o, <4>2, <5>1
        <5> QED BY <4>2, <5>1, <5>2
      <4> QED BY <4>4, <4>5, <4>6
    <3> QED BY <3>1, <3>2
  <2> QED BY <1>a, <2>2
<1>1. ASSUME NEW a \in Callers, NEW c \in Calls, NEW w \in Pool, NEW t \in BOOLEAN,
             Request(a, c, w, t)
      PROVE  StartedOnce'
  <2>1. /\ Pushed(cmds, cmds', Pool, w, StartCmd(c))
        /\ StartCmd(c).call = c /\ StartCmd(c).cmd = "start"
    BY <1>1, RequestFacts DEF StartCmd
  <2>2. at[c] = "none" /\ UNCHANGED <<ready, pending>>
    BY <1>1 DEF Request
  <2>3. /\ ~ready[c] /\ \A v \in Pool : c \notin pending[v]
        /\ \A v \in Pool : \A i : ~About(c, v, i, "start") /\ ~About(c, v, i, "complete")
    BY <2>2 DEF Homes, About
  <2>4. ASSUME NEW d \in Calls, NEW v \in Pool, NEW i
        PROVE  /\ About(d, v, i, "start")' =>
                    About(d, v, i, "start") \/ (d = c /\ v = w /\ i = Len(cmds[w]) + 1)
               /\ About(d, v, i, "complete")' => About(d, v, i, "complete")
    BY <2>1, AboutPush
  <2> QED BY <1>a, <1>o, <2>2, <2>3, <2>4
<1>2. ASSUME NEW c \in Calls, Wait(c) \/ WakeUp(c) \/ Return(c) PROVE StartedOnce'
  <2>1. UNCHANGED <<ready, pending, cmds>>
    BY <1>2 DEF Wait, WakeUp, Return
  <2> QED BY <1>b, <1>o, <2>1
<1>4. ASSUME NEW c \in Calls, NEW k \in Kinds, Arrive(c, k) PROVE StartedOnce'
  <2>1. /\ Pushed(cmds, cmds', Pool, home[c], CompleteCmd(c, k))
        /\ home[c] \in Pool /\ CompleteCmd(c, k).call = c /\ CompleteCmd(c, k).cmd = "complete"
    BY <1>4, ArriveFacts DEF CompleteCmd
  <2>2. UNCHANGED <<ready, pending>>
    BY <1>4 DEF Arrive
  <2>3. ASSUME NEW d \in Calls, NEW v \in Pool, NEW i
        PROVE  /\ About(d, v, i, "start")' => About(d, v, i, "start")
               /\ About(d, v, i, "complete")' =>
                    About(d, v, i, "complete") \/ (v = home[c] /\ i = Len(cmds[v]) + 1)
    BY <2>1, AboutPush
  <2>4. \A d \in Calls : \A i : About(d, home[c], i, "start") => i < Len(cmds[home[c]]) + 1
    BY <2>1 DEF About, Pushed
  <2> QED BY <1>a, <1>o, <2>2, <2>3, <2>4
<1>5. ASSUME NEW w \in Pool, RunCommand(w) PROVE StartedOnce'
  <2>1. Pushed(cmds, cmds', Pool, w, RunCmd) /\ RunCmd.cmd = "run"
    BY <1>5, RunFacts DEF RunCmd
  <2>2. UNCHANGED <<ready, pending>>
    BY <1>5 DEF RunCommand
  <2>3. ASSUME NEW d \in Calls, NEW v \in Pool, NEW i
        PROVE  /\ About(d, v, i, "start")' => About(d, v, i, "start")
               /\ About(d, v, i, "complete")' => About(d, v, i, "complete")
    BY <2>1, AboutPush
  <2> QED BY <1>a, <1>o, <2>2, <2>3
<1>6. ASSUME NEW w \in Pool, WorkerStep(w) PROVE StartedOnce'
  <2>1. CASE StartRpc(w)
    <3> DEFINE c == Head(cmds[w]).call
    <3>1. /\ pending' = [pending EXCEPT ![w] = @ \cup {c}]
          /\ UNCHANGED ready /\ Take(w, "start")
      BY <2>1 DEF StartRpc
    <3>2. About(c, w, 1, "start")
      BY <3>1, TakeFacts
    <3> HIDE DEF c
    <3>3. \A d \in Calls, v \in Pool : d \in pending'[v] =>
             d \in pending[v] \/ (About(d, v, 1, "start") /\ v = w)
      BY <1>0, <3>1, <3>2
    <3> QED BY <1>c, <3>1, <3>3
  <2>2. CASE RunHandler(w)
    BY <1>c, <2>2 DEF RunHandler
  <2>3. CASE RunApplication(w)
    BY <1>c, <2>3 DEF RunApplication
  <2>4. CASE ApplicationReturns(w)
    BY <1>b, <1>o, <2>4 DEF ApplicationReturns
  <2>5. CASE SignalLock(w)
    <3> DEFINE c == job[w].call
    <3>1. job[w].st \in Busy /\ c \in Calls
      BY <2>5, StepFacts DEF SignalLock, Busy
    <3>2. ready' = [ready EXCEPT ![c] = TRUE] /\ UNCHANGED <<pending, cmds>>
      BY <2>5 DEF SignalLock
    <3>3. c \in pending[w] /\ home[c] = w
      BY <3>1 DEF Homes
    <3> HIDE DEF c
    <3>4. \A v \in Pool : \A i : ~About(c, v, i, "start")
      BY <1>o, <3>1, <3>3 DEF Homes, About
    <3>5. \A d \in Calls, v \in Pool : \A i : About(d, v, i, "start") => ~ready'[d]
      BY <1>0, <1>o, <3>2, <3>4
    <3> QED BY <1>b, <3>2, <3>5
  <2>6. CASE SignalNotify(w)
    BY <1>b, <1>o, <2>6 DEF SignalNotify
  <2>7. CASE SignalUnlock(w)
    <3>1. pending' = [pending EXCEPT ![w] = @ \ {job[w].call}] /\ UNCHANGED <<ready, cmds>>
      BY <2>7 DEF SignalUnlock, ErasedFromMap
    <3>2. \A v \in Pool : pending'[v] \subseteq pending[v]
      BY <1>0, <3>1
    <3> QED BY <1>b, <1>o, <3>1, <3>2
  <2> QED BY <1>6, <2>1, <2>2, <2>3, <2>4, <2>5, <2>6, <2>7 DEF WorkerStep
<1>7. CASE UNCHANGED vars
  BY <1>7, <1>b, <1>o DEF vars
<1> QED BY <1>1, <1>2, <1>4, <1>5, <1>6, <1>7 DEF Next

-----------------------------------------------------------------------------
(* Signalled                                                               *)

\* Every step keeps signal() and wait() apart.
LEMMA NextSignalled ==
    ASSUME TypeOK, Homes, StartedOnce, Signalled, [Next]_vars
    PROVE  Signalled'
<1> USE DEF callVars
<1>0. /\ home \in [Calls -> Pool \cup {Nobody}]
      /\ at \in [Calls -> {"none", "lock", "wait", "read", "returned"}]
      /\ mu \in [Calls -> {"free", "worker"}]
      /\ ready \in [Calls -> BOOLEAN]
      /\ pending \in [Pool -> SUBSET Calls]
      /\ job \in [Pool -> Jobs]
  BY DEF TypeOK
<1>a. ASSUME UNCHANGED <<mu, ready, pending, job>>,
             \A c \in Calls : at'[c] \in {"read", "returned"} =>
                \/ at[c] \in {"read", "returned"}
                \/ ready[c] /\ mu[c] = "free"
      PROVE  Signalled'
  BY <1>a DEF Signalled
<1>b. ASSUME NEW w \in Pool, job[w].st \notin {"notify", "unlock"},
             job'[w].st \notin {"notify", "unlock"},
             \A v \in Pool : v # w => job'[v] = job[v],
             UNCHANGED <<at, mu, ready, pending>>
      PROVE  Signalled'
  BY <1>b DEF Signalled
<1>1. ASSUME NEW a \in Callers, NEW c \in Calls, NEW w \in Pool, NEW t \in BOOLEAN,
             Request(a, c, w, t)
      PROVE  Signalled'
  <2>1. at' = [at EXCEPT ![c] = "lock"] /\ UNCHANGED <<mu, ready, pending, job>>
    BY <1>1 DEF Request
  <2> QED BY <1>0, <1>a, <2>1
<1>2. ASSUME NEW c \in Calls, Wait(c) \/ WakeUp(c) \/ Return(c) PROVE Signalled'
  BY <1>0, <1>2, <1>a DEF Wait, WakeUp, Return
<1>4. ASSUME NEW c \in Calls, NEW k \in Kinds, Arrive(c, k) PROVE Signalled'
  BY <1>4, <1>a DEF Arrive
<1>5. ASSUME NEW w \in Pool, RunCommand(w) PROVE Signalled'
  BY <1>5, <1>a DEF RunCommand
<1>6. ASSUME NEW w \in Pool, WorkerStep(w) PROVE Signalled'
  <2>1. CASE StartRpc(w)
    <3> DEFINE c == Head(cmds[w]).call
    <3>1. /\ pending' = [pending EXCEPT ![w] = @ \cup {c}]
          /\ UNCHANGED <<at, mu, ready, job>> /\ Take(w, "start")
      BY <2>1 DEF StartRpc
    <3>2. About(c, w, 1, "start") /\ 1 \in DOMAIN cmds[w] /\ c \in Calls
      BY <3>1, TakeFacts
    <3> HIDE DEF c
    <3>3. ~ready[c]
      BY <3>2 DEF StartedOnce
    <3>4. \A v \in Pool : \A d \in pending'[v] : d \in pending[v] \/ d = c
      BY <1>0, <3>1
    <3> QED BY <3>1, <3>3, <3>4 DEF Signalled
  <2>2. CASE RunHandler(w)
    <3>1. UNCHANGED <<at, mu, ready, pending>> /\ job[w].st = "idle"
      BY <2>2, TakeFacts DEF RunHandler
    <3>2. \/ job' = [job EXCEPT ![w] = [st |-> "lock", call |-> Head(cmds[w]).call]]
          \/ UNCHANGED job
      BY <2>2 DEF RunHandler
    <3>3. /\ job'[w].st \notin {"notify", "unlock"}
          /\ \A v \in Pool : v # w => job'[v] = job[v]
      BY <1>0, <3>1, <3>2
    <3> QED BY <1>b, <3>1, <3>3
  <2>3. CASE RunApplication(w)
    <3>1. UNCHANGED <<at, mu, ready, pending>> /\ job[w].st = "idle"
      BY <2>3, TakeFacts DEF RunApplication
    <3>2. job' = [job EXCEPT ![w] = [st |-> "app", call |-> 0]]
      BY <2>3 DEF RunApplication
    <3>3. /\ job'[w].st \notin {"notify", "unlock"}
          /\ \A v \in Pool : v # w => job'[v] = job[v]
      BY <1>0, <3>2
    <3> QED BY <1>b, <3>1, <3>3
  <2>4. CASE ApplicationReturns(w)
    <3>1. UNCHANGED <<at, mu, ready, pending>> /\ job[w].st = "app" /\ job' = [job EXCEPT ![w] = Idle]
      BY <2>4 DEF ApplicationReturns
    <3>3. /\ job'[w].st \notin {"notify", "unlock"}
          /\ \A v \in Pool : v # w => job'[v] = job[v]
      BY <1>0, <3>1 DEF Idle
    <3> QED BY <1>b, <3>1, <3>3
  <2>5. CASE SignalLock(w)
    <3> DEFINE c == job[w].call
    <3>1. /\ job[w].st = "lock" /\ job[w].st \in Busy /\ c \in Calls /\ job'[w].call = c
          /\ job'[w].st = "notify"
          /\ \A v \in Pool : v # w => job'[v] = job[v]
      BY <2>5, StepFacts DEF SignalLock, Busy
    <3>2. /\ ready' = [ready EXCEPT ![c] = TRUE] /\ mu' = [mu EXCEPT ![c] = "worker"]
          /\ UNCHANGED <<at, pending>>
      BY <2>5 DEF SignalLock
    <3>3. c \in pending[w]
      BY <3>1 DEF Homes
    <3>4. \A v \in Pool : c \in pending[v] => v = w
      BY <3>3 DEF Homes
    <3> HIDE DEF c
    <3>5. ~ready[c] /\ at[c] \notin {"read", "returned"}
      BY <3>1, <3>3 DEF Signalled
    <3>6. /\ ready'[c] /\ mu'[c] = "worker"
          /\ \A d \in Calls : d # c => ready'[d] = ready[d] /\ mu'[d] = mu[d]
      BY <1>0, <3>1, <3>2
    <3>7. \A v \in Pool : job'[v].st \in {"notify", "unlock"} =>
             ready'[job'[v].call] /\ mu'[job'[v].call] = "worker"
      <4> SUFFICES ASSUME NEW v \in Pool, job'[v].st \in {"notify", "unlock"}, v # w
                   PROVE  ready'[job'[v].call] /\ mu'[job'[v].call] = "worker"
        BY <3>1, <3>6
      <4>1. job'[v] = job[v] /\ job[v].st \in Busy
        BY <3>1 DEF Busy
      <4>2. job[v].call \in pending[v] /\ job[v].call \in Calls
        BY <1>0, <4>1 DEF Homes
      <4>3. job[v].call # c
        BY <3>4, <4>2
      <4> QED BY <3>6, <4>1, <4>2, <4>3 DEF Signalled
    <3>8. \A v \in Pool : \A d \in pending'[v] :
             ready'[d] => job'[v].st \in {"notify", "unlock"} /\ job'[v].call = d
      <4> SUFFICES ASSUME NEW v \in Pool, NEW d \in pending[v], ready'[d]
                   PROVE  job'[v].st \in {"notify", "unlock"} /\ job'[v].call = d
        BY <3>2
      <4>0. d \in Calls
        BY <1>0
      <4>1. CASE d = c
        BY <3>1, <3>4, <4>1
      <4>2. CASE d # c
        <5>1. job[v].st \in {"notify", "unlock"} /\ job[v].call = d
          BY <3>6, <4>0, <4>2 DEF Signalled
        <5> QED BY <3>1, <5>1
      <4> QED BY <4>1, <4>2
    <3> QED BY <3>2, <3>5, <3>6, <3>7, <3>8 DEF Signalled
  <2>6. CASE SignalNotify(w)
    <3> DEFINE c == job[w].call
    <3>1. /\ job[w].st = "notify" /\ c \in Calls /\ job'[w].call = c
          /\ job'[w].st = "unlock"
          /\ \A v \in Pool : v # w => job'[v] = job[v]
      BY <2>6, StepFacts DEF SignalNotify, Busy
    <3>2. /\ at' = [at EXCEPT ![c] = IF @ = "wait" THEN "lock" ELSE @]
          /\ UNCHANGED <<mu, ready, pending>>
      BY <2>6 DEF SignalNotify, Woken, LockedDuringNotify
    <3>3. \A v \in Pool : job'[v].call = job[v].call /\
             (job'[v].st \in {"notify", "unlock"} <=> job[v].st \in {"notify", "unlock"})
      BY <3>1
    <3> HIDE DEF c
    <3>4. \A d \in Calls : at'[d] \in {"read", "returned"} => at[d] \in {"read", "returned"}
      BY <1>0, <3>2
    <3> QED BY <3>2, <3>3, <3>4 DEF Signalled
  <2>7. CASE SignalUnlock(w)
    <3> DEFINE c == job[w].call
    <3>1. /\ job' = [job EXCEPT ![w] = Idle] /\ job[w].st = "unlock"
          /\ mu' = [mu EXCEPT ![c] = "free"]
          /\ pending' = [pending EXCEPT ![w] = @ \ {c}]
          /\ UNCHANGED <<at, ready>>
      BY <2>7 DEF SignalUnlock, ErasedFromMap
    <3>2. c \in pending[w] /\ c \in Calls
      BY <1>0, <3>1 DEF Homes, Busy
    <3>3. \A v \in Pool : c \in pending[v] => v = w
      BY <3>2 DEF Homes
    <3>4. \A d \in pending[w] : ready[d] => d = c
      BY DEF Signalled
    <3> HIDE DEF c
    <3>5. /\ job'[w].st = "idle" /\ \A v \in Pool : v # w => job'[v] = job[v]
          /\ mu'[c] = "free" /\ \A d \in Calls : d # c => mu'[d] = mu[d]
          /\ pending'[w] = pending[w] \ {c} /\ \A v \in Pool : v # w => pending'[v] = pending[v]
      BY <1>0, <3>1, <3>2 DEF Idle
    <3>6. \A v \in Pool : job'[v].st \in {"notify", "unlock"} =>
             ready'[job'[v].call] /\ mu'[job'[v].call] = "worker"
      <4> SUFFICES ASSUME NEW v \in Pool, job'[v].st \in {"notify", "unlock"}
                   PROVE  ready'[job'[v].call] /\ mu'[job'[v].call] = "worker"
        OBVIOUS
      <4>1. v # w /\ job'[v] = job[v] /\ job[v].st \in Busy
        BY <3>5 DEF Busy
      <4>2. job[v].call \in pending[v] /\ job[v].call \in Calls
        BY <1>0, <4>1 DEF Homes
      <4>3. job[v].call # c
        BY <3>3, <4>1, <4>2
      <4> QED BY <3>1, <3>5, <4>1, <4>2, <4>3 DEF Signalled
    <3>7. \A v \in Pool : \A d \in pending'[v] :
             ready'[d] => job'[v].st \in {"notify", "unlock"} /\ job'[v].call = d
      BY <3>1, <3>4, <3>5 DEF Signalled
    <3> QED BY <3>1, <3>5, <3>6, <3>7 DEF Signalled
  <2> QED BY <1>6, <2>1, <2>2, <2>3, <2>4, <2>5, <2>6, <2>7 DEF WorkerStep
<1>7. CASE UNCHANGED vars
  BY <1>7, <1>a DEF vars
<1> QED BY <1>1, <1>2, <1>4, <1>5, <1>6, <1>7 DEF Next

-----------------------------------------------------------------------------
(* Answered                                                                *)

\* A command that is no completion of c leaves the first one of c to come.
LEMMA ToComePush ==
    ASSUME NEW w \in Pool, NEW m, Pushed(cmds, cmds', Pool, w, m),
           NEW c, NEW v \in Pool, m.cmd # "complete" \/ m.call # c,
           arrived'[c] = arrived[c], pending' = pending, FirstToCome(c, v)
    PROVE  FirstToCome(c, v)'
<1>1. \A i : About(c, v, i, "complete")' <=> About(c, v, i, "complete")
  BY AboutPush
<1>2. \A i : About(c, v, i, "start") => About(c, v, i, "start")'
  BY AboutPush
<1>3. \A i : About(c, v, i, "complete") => cmds'[v][i].kind = cmds[v][i].kind
  BY DEF Pushed, About
<1>4. \A i, sort : /\ About(c, v, i, sort) => i \in DOMAIN cmds[v]
                   /\ About(c, v, i, sort)' => i \in DOMAIN cmds'[v]
  BY DEF About
<1>5. c \in pending'[v] \/ \E i \in DOMAIN cmds'[v] : About(c, v, i, "start")'
  BY <1>2, <1>4 DEF FirstToCome
<1>6. arrived[c] = <<>> => \A i \in DOMAIN cmds'[v] : ~About(c, v, i, "complete")'
  BY <1>1, <1>4 DEF FirstToCome
<1>7. ASSUME arrived[c] # <<>>
      PROVE  \E i \in DOMAIN cmds'[v] :
                /\ About(c, v, i, "complete")' /\ cmds'[v][i].kind = Head(arrived[c])
                /\ \A j \in DOMAIN cmds'[v] : About(c, v, j, "complete")' => i <= j
  <2>1. PICK i \in DOMAIN cmds[v] :
            /\ About(c, v, i, "complete") /\ cmds[v][i].kind = Head(arrived[c])
            /\ \A j \in DOMAIN cmds[v] : About(c, v, j, "complete") => i <= j
    BY <1>7 DEF FirstToCome
  <2> QED BY <2>1, <1>1, <1>3, <1>4
<1> QED BY <1>5, <1>6, <1>7 DEF FirstToCome

\* A worker that takes a command that is no completion of c leaves the first
\* one of c to come.
LEMMA ToComePop ==
    ASSUME NEW w \in Pool, Popped(cmds, cmds', Pool, w),
           NEW c, NEW v \in Pool, v = w => ~About(c, w, 1, "complete"),
           arrived' = arrived, c \in pending[v] => c \in pending'[v],
           v = w /\ About(c, w, 1, "start") => c \in pending'[v],
           FirstToCome(c, v)
    PROVE  FirstToCome(c, v)'
<1>0. \A i, sort : /\ About(c, v, i, sort) => i \in DOMAIN cmds[v]
                   /\ About(c, v, i, sort)' => i \in DOMAIN cmds'[v]
  BY DEF About
<1>1. CASE v # w
  <2>1. \A i : /\ About(c, v, i, "start")' <=> About(c, v, i, "start")
               /\ About(c, v, i, "complete")' <=> About(c, v, i, "complete")
    BY <1>1, AboutPop
  <2>2. cmds'[v] = cmds[v]
    BY <1>1 DEF Popped
  <2> QED BY <2>1, <2>2 DEF FirstToCome
<1>2. CASE v = w
  <2>1. /\ \A i : About(c, w, i, "complete")' => i \in Nat /\ i > 0 /\ About(c, w, i + 1, "complete")
        /\ \A i : About(c, w, i, "complete") /\ i # 1 =>
              i \in Nat /\ About(c, w, i - 1, "complete")'
        /\ \A i : About(c, w, i, "start") /\ i # 1 => About(c, w, i - 1, "start")'
    BY AboutPop
  <2>2. c \in pending'[v] \/ \E i \in DOMAIN cmds'[v] : About(c, v, i, "start")'
    <3>1. CASE c \in pending[v]
      BY <3>1
    <3>2. CASE \E i \in DOMAIN cmds[v] : About(c, v, i, "start")
      <4>1. PICK i \in DOMAIN cmds[v] : About(c, v, i, "start")
        BY <3>2
      <4>2. CASE i = 1
        BY <1>2, <4>1, <4>2
      <4>3. CASE i # 1
        <5>1. About(c, w, i - 1, "start")'
          BY <1>2, <2>1, <4>1, <4>3
        <5> QED BY <1>0, <1>2, <5>1
      <4> QED BY <4>2, <4>3
    <3> QED BY <3>1, <3>2 DEF FirstToCome
  <2>3. arrived[c] = <<>> => \A i \in DOMAIN cmds'[v] : ~About(c, v, i, "complete")'
    BY <1>0, <1>2, <2>1 DEF FirstToCome
  <2>4. ASSUME arrived[c] # <<>>
        PROVE  \E i \in DOMAIN cmds'[v] :
                  /\ About(c, v, i, "complete")' /\ cmds'[v][i].kind = Head(arrived[c])
                  /\ \A j \in DOMAIN cmds'[v] : About(c, v, j, "complete")' => i <= j
    <3>1. PICK i \in DOMAIN cmds[v] :
              /\ About(c, v, i, "complete") /\ cmds[v][i].kind = Head(arrived[c])
              /\ \A j \in DOMAIN cmds[v] : About(c, v, j, "complete") => i <= j
      BY <2>4 DEF FirstToCome
    <3>2. i # 1 /\ i \in Nat /\ About(c, w, i - 1, "complete")'
      BY <1>2, <2>1, <3>1
    <3>3. cmds'[w][i - 1] = cmds[w][i]
      BY <1>2, <3>2 DEF Popped
    <3>4. ASSUME NEW j, About(c, v, j, "complete")' PROVE i - 1 <= j
      <4>1. j \in Nat /\ About(c, v, j + 1, "complete")
        BY <1>2, <2>1, <3>4
      <4>2. i <= j + 1
        BY <1>0, <3>1, <4>1
      <4> QED BY <3>2, <4>1, <4>2
    <3>5. i - 1 \in DOMAIN cmds'[v]
      BY <1>0, <1>2, <3>2
    <3> QED BY <1>2, <3>1, <3>2, <3>3, <3>4, <3>5
  <2> QED BY <2>2, <2>3, <2>4 DEF FirstToCome
<1> QED BY <1>1, <1>2

\* Every step keeps the first completion of a call on its way to the caller.
LEMMA NextAnswered ==
    ASSUME SInv, [Next]_vars
    PROVE  Answered'
<1> USE DEF callVars
<1> USE DEF SInv
<1>0. /\ home \in [Calls -> Pool \cup {Nobody}]
      /\ at \in [Calls -> {"none", "lock", "wait", "read", "returned"}]
      /\ ready \in [Calls -> BOOLEAN]
      /\ stored \in [Calls -> Kinds \cup {"none", "good"}]
      /\ result \in [Calls -> Kinds \cup {"none", "good"}]
      /\ pending \in [Pool -> SUBSET Calls]
      /\ job \in [Pool -> Jobs]
      /\ arrived \in [Calls -> Seq(Kinds)]
  BY DEF TypeOK
<1>h. \A c \in Calls, v, w \in Pool : c \in pending[v] /\ c \in pending[w] => v = w
  BY DEF Homes
<1>a. ASSUME NEW c \in Calls, stored'[c] = stored[c], arrived'[c] = arrived[c],
             Handled(c)' <=> Handled(c),
             at'[c] = "none" <=> at[c] = "none", home'[c] = home[c],
             \A w \in Pool : home[c] = w /\ FirstToCome(c, w) => FirstToCome(c, w)'
      PROVE  /\ Handled(c)' => FirstStored(c)'
             /\ at'[c] # "none" /\ ~Handled(c)' =>
                  \A w \in Pool : home'[c] = w => FirstToCome(c, w)'
  BY <1>a DEF Answered, FirstStored
<1>b. ASSUME UNCHANGED <<cmds, arrived>>, NEW c, NEW w,
             c \in pending[w] => c \in pending'[w], FirstToCome(c, w)
      PROVE  FirstToCome(c, w)'
  BY <1>b DEF FirstToCome, About
<1>c. ASSUME UNCHANGED <<ready, job>>, NEW c PROVE Handled(c)' <=> Handled(c)
  BY <1>c DEF Handled
<1>1. ASSUME NEW a \in Callers, NEW c \in Calls, NEW w \in Pool, NEW t \in BOOLEAN,
             Request(a, c, w, t)
      PROVE  Answered'
  <2>1. /\ Pushed(cmds, cmds', Pool, w, StartCmd(c))
        /\ StartCmd(c).call = c /\ StartCmd(c).cmd = "start"
    BY <1>1, RequestFacts DEF StartCmd
  <2>2. /\ at[c] = "none" /\ at'[c] = "lock" /\ home'[c] = w
        /\ \A d \in Calls : d # c => at'[d] = at[d] /\ home'[d] = home[d]
        /\ UNCHANGED <<ready, stored, result, pending, job, arrived>>
    BY <1>0, <1>1 DEF Request
  <2>3. /\ ~ready[c] /\ arrived[c] = <<>> /\ ~Handled(c)
        /\ \A v \in Pool : \A i : ~About(c, v, i, "complete")
    BY <2>2 DEF Homes, About, Handled
  <2>4. \A i : ~About(c, w, i, "complete")'
    BY <2>1, <2>3, AboutPush
  <2>5. \E i \in DOMAIN cmds'[w] : About(c, w, i, "start")'
    <3>1. cmds'[w][Len(cmds[w]) + 1] = StartCmd(c) /\ Len(cmds[w]) + 1 \in DOMAIN cmds'[w]
      BY <2>1 DEF Pushed
    <3> QED BY <2>1, <3>1 DEF About
  <2>6. FirstToCome(c, w)'
    BY <2>2, <2>3, <2>4, <2>5 DEF FirstToCome
  <2>7. ASSUME NEW d \in Calls, d # c
        PROVE  /\ Handled(d)' => FirstStored(d)'
               /\ at'[d] # "none" /\ ~Handled(d)' =>
                    \A v \in Pool : home'[d] = v => FirstToCome(d, v)'
               /\ at'[d] = "returned" => result'[d] = stored'[d]
    <3>1. \A v \in Pool : FirstToCome(d, v) => FirstToCome(d, v)'
      BY <2>1, <2>2, <2>7, ToComePush
    <3>2. Handled(d)' <=> Handled(d)
      BY <1>c, <2>2
    <3> QED BY <1>a, <2>2, <2>7, <3>1, <3>2 DEF Answered
  <2>8. ~Handled(c)'
    BY <1>c, <2>2, <2>3
  <2> QED BY <2>2, <2>6, <2>7, <2>8 DEF Answered
<1>2. ASSUME NEW c \in Calls, Wait(c) \/ WakeUp(c) \/ Return(c) PROVE Answered'
  <2>1. /\ \A d \in Calls : at'[d] = "none" <=> at[d] = "none"
        /\ \A d \in Calls : at'[d] = "returned" =>
              \/ at[d] = "returned" /\ result'[d] = result[d]
              \/ result'[d] = stored[d]
        /\ UNCHANGED <<home, ready, arrived, pending, job, cmds, stored>>
    BY <1>0, <1>2 DEF Wait, WakeUp, Return
  <2> QED BY <1>a, <1>b, <1>c, <2>1 DEF Answered
<1>4. ASSUME NEW c \in Calls, NEW k \in Kinds, Arrive(c, k) PROVE Answered'
  <2>0. PICK w \in Pool : w = home[c]
    BY <1>4, ArriveFacts
  <2>1. /\ Pushed(cmds, cmds', Pool, w, CompleteCmd(c, k)) /\ w \in Pool
        /\ CompleteCmd(c, k).call = c /\ CompleteCmd(c, k).cmd = "complete"
        /\ CompleteCmd(c, k).kind = k
        /\ arrived[c] = <<>> => arrived'[c] = <<k>>
        /\ arrived[c] # <<>> => arrived'[c] # <<>> /\ Head(arrived'[c]) = Head(arrived[c])
        /\ \A d \in Calls : d # c => arrived'[d] = arrived[d]
    BY <1>4, <2>0, ArriveFacts DEF CompleteCmd
  <2>2. at[c] # "none" /\ UNCHANGED <<callVars, at, ready, stored, result, pending, job>>
    BY <1>4 DEF Arrive
  <2>3. \A d : Handled(d)' <=> Handled(d)
    BY <1>c, <2>2
  <2>4. ASSUME NEW d \in Calls, d # c
        PROVE  /\ Handled(d)' => FirstStored(d)'
               /\ at'[d] # "none" /\ ~Handled(d)' =>
                    \A v \in Pool : home'[d] = v => FirstToCome(d, v)'
    <3>1. \A v \in Pool : FirstToCome(d, v) => FirstToCome(d, v)'
      BY <2>1, <2>2, <2>4, ToComePush
    <3> QED BY <1>a, <2>1, <2>2, <2>3, <2>4, <3>1
  <2>5. Handled(c)' => FirstStored(c)'
    BY <2>1, <2>2, <2>3 DEF Answered, FirstStored
  <2>6. ASSUME FirstToCome(c, w) PROVE FirstToCome(c, w)'
    <3>0. PICK n \in Nat : n = Len(cmds[w]) + 1
      BY <2>1 DEF Pushed
    <3>1. /\ n \in DOMAIN cmds'[w] /\ cmds'[w][n] = CompleteCmd(c, k)
          /\ About(c, w, n, "complete")'
          /\ \A i \in DOMAIN cmds[w] : i \in Nat /\ i <= n /\ cmds'[w][i] = cmds[w][i]
      BY <2>1, <3>0 DEF Pushed, About
    <3>2. \A i : About(c, w, i, "start") => About(c, w, i, "start")'
      BY <2>1, AboutPush
    <3>3. \A i : /\ About(c, w, i, "complete")' => About(c, w, i, "complete") \/ i = n
                 /\ About(c, w, i, "complete") => About(c, w, i, "complete")'
      BY <2>1, <3>0, AboutPush
    <3>4. \A i, sort : /\ About(c, w, i, sort) => i \in DOMAIN cmds[w]
                       /\ About(c, w, i, sort)' => i \in DOMAIN cmds'[w]
      BY DEF About
    <3>5. c \in pending'[w] \/ \E i \in DOMAIN cmds'[w] : About(c, w, i, "start")'
      BY <2>2, <2>6, <3>2, <3>4 DEF FirstToCome
    <3>6. arrived'[c] # <<>>
      <4>1. <<k>> # <<>>
        OBVIOUS
      <4> QED BY <2>1, <4>1
    <3>7. \E i \in DOMAIN cmds'[w] :
             /\ About(c, w, i, "complete")' /\ cmds'[w][i].kind = Head(arrived'[c])
             /\ \A j \in DOMAIN cmds'[w] : About(c, w, j, "complete")' => i <= j
      <4>1. CASE arrived[c] = <<>>
        <5>1. Head(arrived'[c]) = k
          BY <2>1, <4>1
        <5>2. \A j : About(c, w, j, "complete")' => j = n
          BY <2>6, <3>3, <3>4, <4>1 DEF FirstToCome
        <5> QED BY <2>1, <3>1, <5>1, <5>2
      <4>2. CASE arrived[c] # <<>>
        <5>1. PICK i \in DOMAIN cmds[w] :
                  /\ About(c, w, i, "complete") /\ cmds[w][i].kind = Head(arrived[c])
                  /\ \A j \in DOMAIN cmds[w] : About(c, w, j, "complete") => i <= j
          BY <2>6, <4>2 DEF FirstToCome
        <5>2. \A j : About(c, w, j, "complete")' => i <= j
          BY <3>1, <3>3, <3>4, <5>1
        <5> QED BY <2>1, <3>1, <3>3, <3>4, <4>2, <5>1, <5>2
      <4> QED BY <4>1, <4>2
    <3> QED BY <3>5, <3>6, <3>7 DEF FirstToCome
  <2>7. ~Handled(c)' => \A v \in Pool : home'[c] = v => FirstToCome(c, v)'
    BY <2>0, <2>1, <2>2, <2>3, <2>6 DEF Answered
  <2> QED BY <2>2, <2>4, <2>5, <2>7 DEF Answered
<1>5. ASSUME NEW w \in Pool, RunCommand(w) PROVE Answered'
  <2>1. Pushed(cmds, cmds', Pool, w, RunCmd) /\ RunCmd.cmd = "run"
    BY <1>5, RunFacts DEF RunCmd
  <2>2. UNCHANGED <<callVars, at, ready, stored, result, pending, job, arrived>>
    BY <1>5 DEF RunCommand
  <2>3. \A d \in Calls, v \in Pool : FirstToCome(d, v) => FirstToCome(d, v)'
    BY <2>1, <2>2, ToComePush
  <2> QED BY <1>a, <1>c, <2>2, <2>3 DEF Answered
<1>6. ASSUME NEW w \in Pool, WorkerStep(w) PROVE Answered'
  <2>1. CASE StartRpc(w)
    <3>0. Take(w, "start")
      BY <2>1 DEF StartRpc
    <3>p. PICK c \in Calls : c = Head(cmds[w]).call
      BY <3>0, TakeFacts
    <3>1. /\ pending' = [pending EXCEPT ![w] = @ \cup {c}]
          /\ UNCHANGED <<callVars, at, ready, stored, result, job, arrived>>
      BY <2>1, <3>p DEF StartRpc
    <3>2. About(c, w, 1, "start") /\ Popped(cmds, cmds', Pool, w)
      BY <3>0, <3>p, TakeFacts
    <3>3. /\ \A d \in Calls, v \in Pool : d \in pending[v] => d \in pending'[v]
          /\ c \in pending'[w]
      BY <1>0, <3>1
    <3>4. \A d : /\ About(d, w, 1, "start") => d = c
                 /\ ~About(d, w, 1, "complete")
      BY <3>2 DEF About
    <3>5. \A d \in Calls, v \in Pool : FirstToCome(d, v) => FirstToCome(d, v)'
      BY <3>1, <3>2, <3>3, <3>4, ToComePop
    <3> QED BY <1>a, <1>c, <3>1, <3>5 DEF Answered
  <2>2. CASE RunHandler(w)
    <3>0. Take(w, "complete")
      BY <2>2 DEF RunHandler
    <3>p. PICK c \in Calls : c = Head(cmds[w]).call
      BY <3>0, TakeFacts
    <3>k. PICK k \in Kinds : k = Head(cmds[w]).kind
      BY <3>0, TakeFacts
    <3>1. /\ UNCHANGED <<callVars, at, ready, result, pending, arrived>>
          /\ c \notin pending[w] => UNCHANGED <<job, stored>>
          /\ c \in pending[w] =>
                /\ job' = [job EXCEPT ![w] = [st |-> "lock", call |-> c]]
                /\ stored' = [stored EXCEPT ![c] = Outcome(c, k)]
      BY <2>2, <3>p, <3>k DEF RunHandler
    <3>2. /\ About(c, w, 1, "complete") /\ 1 \in DOMAIN cmds[w]
          /\ Popped(cmds, cmds', Pool, w) /\ cmds[w][1].kind = k /\ job[w].st = "idle"
      BY <3>0, <3>p, <3>k, TakeFacts
    <3>3. at[c] # "none" /\ home[c] = w
      BY <3>2 DEF Homes
    <3>4. \A d : About(d, w, 1, "start") \/ About(d, w, 1, "complete") => d = c
      BY <3>2 DEF About
    <3>5. \A d \in Calls, v \in Pool : d # c /\ FirstToCome(d, v) => FirstToCome(d, v)'
      BY <3>1, <3>2, <3>4, ToComePop
    <3>6. CASE c \in pending[w]
      <4>1. /\ job'[w] = [st |-> "lock", call |-> c]
            /\ \A v \in Pool : v # w => job'[v] = job[v]
            /\ stored'[c] = Outcome(c, k)
            /\ \A d \in Calls : d # c => stored'[d] = stored[d]
        BY <1>0, <3>1, <3>2, <3>6
      <4>2. ~ready[c]
        BY <3>2, <3>6 DEF Signalled
      <4>3. ~Handled(c)
        <5> SUFFICES ASSUME NEW v \in Pool, job[v].st \in Busy, job[v].call = c
                     PROVE  FALSE
          BY <4>2 DEF Handled
        <5>1. v = w
          BY <1>h, <3>2, <3>6 DEF Homes
        <5> QED BY <3>2, <5>1 DEF Busy
      <4>4. FirstToCome(c, w)
        BY <3>2, <3>3, <4>3 DEF Answered
      <4>5. arrived[c] # <<>> /\ k = Head(arrived[c])
        <5>1. arrived[c] # <<>>
          BY <3>2, <4>4 DEF FirstToCome
        <5>2. PICK i \in DOMAIN cmds[w] :
                  /\ About(c, w, i, "complete") /\ cmds[w][i].kind = Head(arrived[c])
                  /\ \A j \in DOMAIN cmds[w] : About(c, w, j, "complete") => i <= j
          BY <4>4, <5>1 DEF FirstToCome
        <5>3. i <= 1
          BY <3>2, <5>2
        <5>4. i \in Nat \ {0}
          BY DEF TypeOK
        <5>5. i = 1
          BY <5>3, <5>4
        <5> QED BY <3>2, <5>1, <5>2, <5>5
      <4>6. Handled(c)' /\ FirstStored(c)'
        <5>1. Handled(c)'
          BY <4>1 DEF Handled, Busy
        <5> QED BY <3>1, <4>1, <4>5, <5>1 DEF FirstStored
      <4>7. at[c] # "returned"
        BY <4>2 DEF Signalled
      <4>8. \A d \in Calls : d # c => (Handled(d)' <=> Handled(d))
        BY <3>1, <3>2, <4>1 DEF Handled, Busy
      <4> QED BY <1>a, <3>1, <3>5, <4>1, <4>6, <4>7, <4>8 DEF Answered
    <3>7. CASE c \notin pending[w]
      <4>1. Handled(c)
        <5> SUFFICES ASSUME ~Handled(c) PROVE FALSE
          OBVIOUS
        <5>1. FirstToCome(c, w)
          BY <3>2, <3>3 DEF Answered
        <5>2. PICK i \in DOMAIN cmds[w] : About(c, w, i, "start")
          BY <3>7, <5>1 DEF FirstToCome
        <5>3. i < 1
          BY <3>2, <5>2 DEF StartedOnce
        <5>4. i \in Nat \ {0}
          BY DEF TypeOK
        <5> QED BY <5>3, <5>4
      <4>2. UNCHANGED <<job, stored, ready, arrived>>
        BY <3>1, <3>7
      <4>3. Handled(c)' /\ FirstStored(c)'
        BY <1>c, <3>2, <4>1, <4>2 DEF Answered, FirstStored
      <4>4. \A d \in Calls : Handled(d)' <=> Handled(d)
        BY <1>c, <4>2
      <4> QED BY <1>a, <3>1, <3>5, <4>2, <4>3, <4>4 DEF Answered
    <3> QED BY <3>6, <3>7
  <2>3. CASE RunApplication(w)
    <3>1. /\ job' = [job EXCEPT ![w] = [st |-> "app", call |-> 0]]
          /\ UNCHANGED <<callVars, at, ready, stored, result, pending, arrived>> /\ Take(w, "run")
      BY <2>3 DEF RunApplication
    <3>2. /\ job[w].st = "idle" /\ Popped(cmds, cmds', Pool, w)
          /\ \A d : ~About(d, w, 1, "start") /\ ~About(d, w, 1, "complete")
      BY <3>1, TakeFacts DEF About
    <3>3. \A d \in Calls, v \in Pool : FirstToCome(d, v) => FirstToCome(d, v)'
      BY <3>1, <3>2, ToComePop
    <3>4. job'[w].st \notin Busy /\ job[w].st \notin Busy /\ \A v \in Pool : v # w => job'[v] = job[v]
      BY <1>0, <3>1, <3>2, NotBusy DEF Busy
    <3>5. \A d \in Calls : Handled(d)' <=> Handled(d)
      BY <3>1, <3>4 DEF Handled
    <3> QED BY <1>a, <3>1, <3>3, <3>5 DEF Answered
  <2>4. CASE ApplicationReturns(w)
    <3>1. /\ job' = [job EXCEPT ![w] = Idle] /\ job[w].st = "app"
          /\ UNCHANGED <<callVars, at, ready, stored, result, pending, arrived, cmds>>
      BY <2>4 DEF ApplicationReturns
    <3>2. job'[w].st \notin Busy /\ job[w].st \notin Busy /\ \A v \in Pool : v # w => job'[v] = job[v]
      BY <1>0, <3>1, NotBusy DEF Busy
    <3>3. \A d \in Calls : Handled(d)' <=> Handled(d)
      BY <3>1, <3>2 DEF Handled
    <3> QED BY <1>a, <1>b, <3>1, <3>3 DEF Answered
  <2>5. CASE SignalLock(w)
    <3>p. PICK c \in Calls : c = job[w].call
      BY <2>5, StepFacts DEF SignalLock, Busy
    <3>1. /\ job[w].st \in Busy /\ job'[w].call = c /\ job'[w].st \in Busy
          /\ \A v \in Pool : v # w => job'[v] = job[v]
      BY <2>5, <3>p, StepFacts DEF SignalLock, Busy
    <3>2. /\ ready' = [ready EXCEPT ![c] = TRUE]
          /\ UNCHANGED <<callVars, at, stored, result, pending, arrived, cmds>>
      BY <2>5, <3>p DEF SignalLock
    <3>3. Handled(c) /\ Handled(c)'
      BY <3>p, <3>1 DEF Handled
    <3>4. \A d \in Calls : d # c => ready'[d] = ready[d]
      BY <1>0, <3>2
    <3>5. \A v \in Pool : /\ job'[v].st \in Busy <=> job[v].st \in Busy
                          /\ job'[v].call = job[v].call
      BY <3>p, <3>1
    <3>6. \A d \in Calls : Handled(d)' <=> Handled(d)
      BY <3>3, <3>4, <3>5 DEF Handled
    <3> QED BY <1>a, <1>b, <3>2, <3>6 DEF Answered
  <2>6. CASE SignalNotify(w)
    <3>p. PICK c \in Calls : c = job[w].call
      BY <2>6, StepFacts DEF SignalNotify, Busy
    <3>1. /\ job[w].st \in Busy /\ job'[w].call = c /\ job'[w].st \in Busy
          /\ \A v \in Pool : v # w => job'[v] = job[v]
      BY <2>6, <3>p, StepFacts DEF SignalNotify, Busy
    <3>2. /\ at' = [at EXCEPT ![c] = IF @ = "wait" THEN "lock" ELSE @]
          /\ UNCHANGED <<callVars, ready, stored, result, pending, arrived, cmds>>
      BY <2>6, <3>p DEF SignalNotify, Woken
    <3>3. \A v \in Pool : /\ job'[v].st \in Busy <=> job[v].st \in Busy
                          /\ job'[v].call = job[v].call
      BY <3>p, <3>1
    <3>4. /\ \A d \in Calls : at'[d] = "none" <=> at[d] = "none"
          /\ \A d \in Calls : at'[d] = "returned" => at[d] = "returned"
      BY <1>0, <3>2
    <3>5. \A d \in Calls : Handled(d)' <=> Handled(d)
      BY <3>2, <3>3 DEF Handled
    <3> QED BY <1>a, <1>b, <3>2, <3>4, <3>5 DEF Answered
  <2>7. CASE SignalUnlock(w)
    <3>0. job[w].st = "unlock"
      BY <2>7 DEF SignalUnlock
    <3>p. PICK c \in Calls : c = job[w].call
      BY <1>0, <3>0 DEF Homes, Busy
    <3>1. /\ job' = [job EXCEPT ![w] = Idle]
          /\ pending' = [pending EXCEPT ![w] = @ \ {c}]
          /\ UNCHANGED <<callVars, at, ready, stored, result, arrived, cmds>>
      BY <2>7, <3>p DEF SignalUnlock, ErasedFromMap
    <3>2. ready[c] /\ Handled(c)
      BY <3>0, <3>p DEF Signalled, Handled
    <3>3. job'[w].st \notin Busy /\ \A v \in Pool : v # w => job'[v] = job[v]
      BY <1>0, <3>1, NotBusy
    <3>4. \A d \in Calls : Handled(d)' <=> Handled(d)
      BY <3>p, <3>1, <3>2, <3>3 DEF Handled
    <3>5. \A d \in Calls, v \in Pool : d # c /\ d \in pending[v] => d \in pending'[v]
      BY <1>0, <3>1
    <3>6. \A d \in Calls, v \in Pool : d # c /\ FirstToCome(d, v) => FirstToCome(d, v)'
      BY <1>b, <3>1, <3>5
    <3>7. \A d \in Calls : Handled(d)' => FirstStored(d)'
      BY <3>1, <3>4 DEF Answered, FirstStored
    <3>8. \A d \in Calls : at'[d] # "none" /\ ~Handled(d)' =>
             \A v \in Pool : home'[d] = v => FirstToCome(d, v)'
      BY <3>1, <3>2, <3>4, <3>6 DEF Answered
    <3> QED BY <3>1, <3>7, <3>8 DEF Answered
  <2> QED BY <1>6, <2>1, <2>2, <2>3, <2>4, <2>5, <2>6, <2>7 DEF WorkerStep
<1>7. CASE UNCHANGED vars
  BY <1>7, <1>a, <1>b, <1>c DEF vars, Answered
<1> QED BY <1>1, <1>2, <1>4, <1>5, <1>6, <1>7 DEF Next

-----------------------------------------------------------------------------
(* The theorems                                                            *)

\* The invariant holds before the first call.
LEMMA InitSInv == Init => SInv
<1> SUFFICES ASSUME Init PROVE SInv
  OBVIOUS
<1>1. \A w \in Pool : job[w].st = "idle" /\ cmds[w] = <<>> /\ pending[w] = {}
  BY DEF Init, Idle
<1>2. \A c \in Calls : at[c] = "none" /\ ~ready[c] /\ arrived[c] = <<>> /\ Len(arrived[c]) = 0
  BY DEF Init
<1>3. TypeOK
  BY <1>2, NotBusy, BoundsAssumption DEF Init, TypeOK
<1>4. Counted
  BY <1>2, BoundsAssumption DEF Counted
<1>5. Homes /\ StartedOnce /\ Signalled
  BY <1>1, <1>2 DEF Homes, StartedOnce, Signalled, Busy
<1>6. Answered
  BY <1>1, <1>2 DEF Answered, Handled, Busy
<1> QED BY <1>3, <1>4, <1>5, <1>6 DEF SInv

\* The invariant holds throughout: a call is started once and before its
\* completions, a worker is in signal() only for a call in its map, and the
\* first completion is on its way to the caller or has been stored.
THEOREM SyncInvariance == Spec => []SInv
<1>1. Init => SInv
  BY InitSInv
<1>2. SInv /\ [Next]_vars => SInv'
  BY NextTypeOK, NextHomes, NextStartedOnce, NextSignalled, NextAnswered DEF SInv
<1> QED BY <1>1, <1>2, PTL DEF Spec

\* Types of module SyncCall hold for any number of callers, workers and calls.
THEOREM SyncTypes == Spec => []TypeOK
<1>1. SInv => TypeOK
  BY DEF SInv
<1> QED BY <1>1, SyncInvariance, PTL

\* The handler that sync_requester::request() puts on its stack is there as
\* long as a worker stores into it or is inside its sync_event::signal().
THEOREM HandlersOutliveTheirUse == Spec => []HandlerAlive
<1>1. ASSUME SInv PROVE HandlerAlive
  <2> SUFFICES ASSUME NEW w \in Pool, job[w].st \in Busy
               PROVE  OnStack(job[w].call)
    BY DEF HandlerAlive
  <2> DEFINE c == job[w].call
  <2>1. c \in pending[w] /\ c \in Calls /\ at[c] # "none"
    BY <1>1 DEF SInv, Homes, TypeOK
  <2>2. at[c] # "returned"
    <3>1. CASE job[w].st = "lock"
      BY <1>1, <2>1, <3>1 DEF SInv, Signalled
    <3>2. CASE job[w].st \in {"notify", "unlock"}
      BY <1>1, <2>1, <3>2 DEF SInv, Signalled
    <3> QED BY <3>1, <3>2 DEF Busy
  <2> QED BY <2>1, <2>2 DEF OnStack
<1> QED BY <1>1, SyncInvariance, PTL

\* request() returns what came first, whatever comes later or twice.
THEOREM FirstAnswerReturned == Spec => []FirstAnswerWins
<1>1. ASSUME SInv PROVE FirstAnswerWins
  <2> SUFFICES ASSUME NEW c \in Calls, at[c] = "returned"
               PROVE  arrived[c] # <<>> /\ result[c] = Outcome(c, Head(arrived[c]))
    BY DEF FirstAnswerWins, Outcome
  <2>1. Handled(c)
    BY <1>1 DEF SInv, Signalled, Handled
  <2> QED BY <1>1, <2>1 DEF SInv, Answered, FirstStored
<1> QED BY <1>1, SyncInvariance, PTL
=============================================================================
