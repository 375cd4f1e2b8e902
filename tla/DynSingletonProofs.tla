------------------------ MODULE DynSingletonProofs --------------------------
(***************************************************************************)
(* SInv is an inductive invariant of DynSingleton, for any application     *)
(* threads, workers, and number of managers: at most one manager exists,   *)
(* and no manager_ptr points to one that is being destroyed, and no        *)
(* frontend socket to one that is gone.                                    *)
(***************************************************************************)
EXTENDS DynSingleton, TLAPS

\* The program starts without a manager.
LEMMA InitSInv == Init => SInv
<1> SUFFICES ASSUME Init PROVE SInv
  OBVIOUS
<1> USE DEF Init
<1>1. TypeOK
  <2>1. handled \in 0 .. MaxHandled /\ failures \in 0 .. MaxFailures
    BY SingletonBounds
  <2>2. ub \in BOOLEAN /\ mgr_exists \in BOOLEAN
    OBVIOUS
  <2> QED BY <2>1, <2>2 DEF TypeOK
<1>2. SingleManager /\ PointersGood /\ NoStaleSocket /\ OneBuilder
  BY DEF SingleManager, PointersGood, NoStaleSocket, OneBuilder, Exists
<1>3. Token /\ Progress /\ NewBlock
  BY DEF Token, Progress, NewBlock, Exists, Destroying
<1>4. WeakExact
  BY DEF WeakExact, Shared, Pointed, Managers
<1> QED BY <1>1, <1>2, <1>3, <1>4 DEF SInv

\* An application thread reads the address in mgr_wptr.
LEMMA AppGetStep ==
    ASSUME SInv, NEW t \in Threads, AppGet(t)
    PROVE  SInv'
<1> USE DEF AppGet, At, Go, ReadWptr
<1>0. /\ TypeOK /\ SingleManager /\ PointersGood /\ NoStaleSocket /\ OneBuilder
      /\ Token /\ Progress /\ NewBlock /\ WeakExact
  BY DEF SInv
<1>1. TypeOK'
  BY <1>0 DEF TypeOK
<1>2. SingleManager'
  BY <1>0 DEF SingleManager, Exists
<1>3. PointersGood'
  BY <1>0 DEF PointersGood
<1>4. OneBuilder'
  BY <1>0 DEF OneBuilder
<1>5. Token'
  BY <1>0 DEF Token, Exists, Destroying
<1>6. Progress'
  BY <1>0 DEF Progress, Exists
<1>7. NewBlock'
  BY <1>0 DEF NewBlock
<1>8. WeakExact'
  BY <1>0 DEF WeakExact, Shared, Pointed
<1>9. NoStaleSocket'
  BY <1>0 DEF NoStaleSocket, Exists
<1> QED BY <1>1, <1>2, <1>3, <1>4, <1>5, <1>6, <1>7, <1>8, <1>9 DEF SInv

\* A worker does so for a request.
LEMMA WorkerGetStep ==
    ASSUME SInv, NEW t \in Threads, WorkerGet(t)
    PROVE  SInv'
<1> USE DEF WorkerGet, At, Go, ReadWptr
<1>0. /\ TypeOK /\ SingleManager /\ PointersGood /\ NoStaleSocket /\ OneBuilder
      /\ Token /\ Progress /\ NewBlock /\ WeakExact
  BY DEF SInv
<1>1. TypeOK'
  <2>1. handled' \in 0 .. MaxHandled
    BY <1>0, SingletonBounds DEF TypeOK
  <2> QED BY <1>0, <2>1 DEF TypeOK
<1>2. SingleManager'
  BY <1>0 DEF SingleManager, Exists
<1>3. PointersGood'
  BY <1>0 DEF PointersGood
<1>4. OneBuilder'
  BY <1>0 DEF OneBuilder
<1>5. Token'
  BY <1>0 DEF Token, Exists, Destroying
<1>6. Progress'
  BY <1>0 DEF Progress, Exists
<1>7. NewBlock'
  BY <1>0 DEF NewBlock
<1>8. WeakExact'
  BY <1>0 DEF WeakExact, Shared, Pointed
<1>9. NoStaleSocket'
  BY <1>0 DEF NoStaleSocket, Exists
<1> QED BY <1>1, <1>2, <1>3, <1>4, <1>5, <1>6, <1>7, <1>8, <1>9 DEF SInv

\* lock() gives a pointer only to a manager that someone holds, which is alive.
LEMMA LockStep ==
    ASSUME SInv, NEW t \in Threads, Lock(t)
    PROVE  SInv'
<1> USE DEF Lock, At, Go
<1>0. /\ TypeOK /\ SingleManager /\ PointersGood /\ NoStaleSocket /\ OneBuilder
      /\ Token /\ Progress /\ NewBlock /\ WeakExact
  BY DEF SInv
<1>1. TypeOK'
  BY <1>0 DEF TypeOK
<1>2. SingleManager'
  BY <1>0 DEF SingleManager, Exists
<1>3. PointersGood'
  BY <1>0 DEF TypeOK, PointersGood, Referenced
<1>4. OneBuilder'
  BY <1>0 DEF TypeOK, OneBuilder
<1>5. Token'
  BY <1>0 DEF TypeOK, Token, Exists, Destroying
<1>6. Progress'
  BY <1>0 DEF TypeOK, Progress, Exists
<1>7. NewBlock'
  BY <1>0 DEF TypeOK, NewBlock
<1>8. WeakExact'
  <2> SUFFICES ASSUME NEW g \in Managers
               PROVE  (Shared(g) <=> Shared(g)') /\ (Pointed(g) <=> Pointed(g)')
    BY <1>0 DEF WeakExact
  <2>1. g # 0 /\ held[t] = 0 /\ doomed[t] = 0
    BY <1>0 DEF Progress, Managers
  <2>2. Shared(g) <=> Shared(g)'
    BY <1>0, <2>1 DEF TypeOK, Shared, Referenced
  <2>3. Pointed(g) <=> Pointed(g)'
    BY <1>0 DEF TypeOK, Pointed
  <2> QED BY <2>2, <2>3
<1>9. NoStaleSocket'
  BY <1>0 DEF NoStaleSocket, Exists
<1> QED BY <1>1, <1>2, <1>3, <1>4, <1>5, <1>6, <1>7, <1>8, <1>9 DEF SInv

\* Under the mutex, the second look either finds a live manager or makes this
\* thread the only builder.
LEMMA EnterMakeStep ==
    ASSUME SInv, NEW t \in Threads, EnterMake(t)
    PROVE  SInv'
<1> USE DEF EnterMake, At, Go
<1>0. /\ TypeOK /\ SingleManager /\ PointersGood /\ NoStaleSocket /\ OneBuilder
      /\ Token /\ Progress /\ NewBlock /\ WeakExact
  BY DEF SInv
<1>1. TypeOK'
  BY <1>0 DEF TypeOK
<1>2. SingleManager'
  BY <1>0 DEF SingleManager, Exists
<1>3. PointersGood'
  BY <1>0 DEF TypeOK, PointersGood, Referenced
<1>4. OneBuilder'
  BY <1>0, ThreadsAssumption DEF TypeOK, OneBuilder
<1>5. Token'
  BY <1>0 DEF TypeOK, Token, Exists, Destroying
<1>6. Progress'
  BY <1>0 DEF TypeOK, Progress, Exists
<1>7. NewBlock'
  BY <1>0 DEF TypeOK, NewBlock
<1>8. WeakExact'
  <2> SUFFICES ASSUME NEW g \in Managers
               PROVE  (Shared(g) <=> Shared(g)') /\ (Pointed(g) <=> Pointed(g)')
    BY <1>0 DEF WeakExact
  <2>1. g # 0 /\ held[t] = 0 /\ doomed[t] = 0
    BY <1>0 DEF Progress, Managers
  <2>2. Shared(g) <=> Shared(g)'
    BY <1>0, <2>1 DEF TypeOK, Shared, Referenced
  <2>3. Pointed(g) <=> Pointed(g)'
    BY <1>0 DEF TypeOK, Pointed
  <2> QED BY <2>2, <2>3
<1>9. NoStaleSocket'
  BY <1>0 DEF NoStaleSocket, Exists
<1> QED BY <1>1, <1>2, <1>3, <1>4, <1>5, <1>6, <1>7, <1>8, <1>9 DEF SInv

\* The builder takes the token mgr_exists, or waits.
LEMMA StartConstructionStep ==
    ASSUME SInv, NEW t \in Threads, StartConstruction(t)
    PROVE  SInv'
<1> USE DEF StartConstruction, At, Go
<1>0. /\ TypeOK /\ SingleManager /\ PointersGood /\ NoStaleSocket /\ OneBuilder
      /\ Token /\ Progress /\ NewBlock /\ WeakExact
  BY DEF SInv
<1>1. TypeOK'
  BY <1>0 DEF TypeOK
<1>2. SingleManager'
  BY <1>0 DEF SingleManager, Exists
<1>3. PointersGood'
  BY <1>0 DEF PointersGood
<1>4. OneBuilder'
  BY <1>0 DEF TypeOK, OneBuilder
<1>5. Token'
  BY <1>0 DEF TypeOK, Token, Exists, Destroying
<1>6. Progress'
  BY <1>0 DEF TypeOK, Progress, Exists
<1>7. NewBlock'
  BY <1>0 DEF TypeOK, NewBlock
<1>8. WeakExact'
  BY <1>0 DEF TypeOK, WeakExact, Shared, Pointed
<1>9. NoStaleSocket'
  BY <1>0 DEF NoStaleSocket, Exists
<1> QED BY <1>1, <1>2, <1>3, <1>4, <1>5, <1>6, <1>7, <1>8, <1>9 DEF SInv

\* The new manager is the only one.
LEMMA ConstructStep ==
    ASSUME SInv, NEW t \in Threads, Construct(t)
    PROVE  SInv'
<1> USE DEF Construct, At, Go
<1>0. /\ TypeOK /\ SingleManager /\ PointersGood /\ NoStaleSocket /\ OneBuilder
      /\ Token /\ Progress /\ NewBlock /\ WeakExact
  BY DEF SInv
<1>a. PICK g \in Managers :
         /\ obj[g] = "none"
         /\ obj' = [obj EXCEPT ![g] = "live"]
         /\ held' = [held EXCEPT ![t] = g]
         /\ weak' = [weak EXCEPT ![g] = 1]
  OBVIOUS
<1>b. /\ g # 0 /\ held[t] = 0 /\ doomed[t] = 0 /\ mgr_wptr # g
      /\ \A u \in Threads : held[u] # g /\ doomed[u] # g
  BY <1>0, <1>a DEF Progress, PointersGood, NewBlock, Managers
<1>1. TypeOK'
  BY <1>0 DEF TypeOK
<1>2. SingleManager'
  BY <1>0 DEF SingleManager, Exists, Token
<1>3. PointersGood'
  BY <1>0 DEF TypeOK, PointersGood
<1>4. OneBuilder'
  BY <1>0 DEF OneBuilder
<1>5. Token'
  BY <1>0 DEF TypeOK, Token, Destroying, OneBuilder
<1>6. Progress'
  BY <1>0, <1>a, <1>b DEF TypeOK, Progress, Token, Destroying
<1>7. NewBlock'
  BY <1>0, <1>a, <1>b DEF TypeOK, NewBlock
<1>8. WeakExact'
  <2> SUFFICES ASSUME NEW h \in Managers
               PROVE  weak'[h] = (IF Shared(h)' THEN 1 ELSE 0)
                                 + (IF Pointed(h)' THEN 1 ELSE 0)
    BY DEF WeakExact
  <2>1. Pointed(h) <=> Pointed(h)'
    BY DEF Pointed
  <2>2. CASE h = g
    <3>1. Shared(h)' /\ ~Pointed(h)
      BY <1>0, <1>a, <1>b, <2>2 DEF TypeOK, Shared, Pointed
    <3> QED BY <1>0, <1>a, <2>1, <2>2, <3>1 DEF TypeOK
  <2>3. CASE h # g
    <3>1. Shared(h) <=> Shared(h)'
      BY <1>a, <1>b, <2>3 DEF Shared
    <3>2. weak'[h] = weak[h]
      BY <1>a, <2>3
    <3> QED BY <1>0, <2>1, <3>1, <3>2 DEF WeakExact
  <2> QED BY <2>2, <2>3
<1>9. NoStaleSocket'
  BY <1>0 DEF TypeOK, NoStaleSocket, Exists
<1> QED BY <1>1, <1>2, <1>3, <1>4, <1>5, <1>6, <1>7, <1>8, <1>9 DEF SInv

\* A constructor that throws leaves no manager.
LEMMA ConstructThrowsStep ==
    ASSUME SInv, NEW t \in Threads, ConstructThrows(t)
    PROVE  SInv'
<1> USE DEF ConstructThrows, At, Go
<1>0. /\ TypeOK /\ SingleManager /\ PointersGood /\ NoStaleSocket /\ OneBuilder
      /\ Token /\ Progress /\ NewBlock /\ WeakExact
  BY DEF SInv
<1>1. TypeOK'
  <2>1. failures' \in 0 .. MaxFailures
    BY <1>0, SingletonBounds DEF TypeOK
  <2> QED BY <1>0, <2>1 DEF TypeOK
<1>2. SingleManager'
  BY <1>0 DEF SingleManager, Exists
<1>3. PointersGood'
  BY <1>0 DEF PointersGood
<1>4. OneBuilder'
  BY <1>0 DEF TypeOK, OneBuilder
<1>5. Token'
  BY <1>0 DEF Token, Exists, Destroying
<1>6. Progress'
  BY <1>0 DEF Progress, Token, Destroying
<1>7. NewBlock'
  BY <1>0 DEF NewBlock
<1>8. WeakExact'
  BY <1>0 DEF WeakExact, Shared, Pointed
<1>9. NoStaleSocket'
  BY <1>0 DEF NoStaleSocket, Exists
<1> QED BY <1>1, <1>2, <1>3, <1>4, <1>5, <1>6, <1>7, <1>8, <1>9 DEF SInv

\* The counts follow the first half of the assignment to mgr_wptr.
LEMMA ReleaseOldBlockStep ==
    ASSUME SInv, NEW t \in Threads, ReleaseOldBlock(t)
    PROVE  SInv'
<1> USE DEF ReleaseOldBlock, At, Go
<1>0. /\ TypeOK /\ SingleManager /\ PointersGood /\ NoStaleSocket /\ OneBuilder
      /\ Token /\ Progress /\ NewBlock /\ WeakExact
  BY DEF SInv
<1>1. TypeOK'
  <2>1. \A g \in Managers : weak'[g] \in 0 .. 2
    BY <1>0 DEF WeakExact, Pointed, OneBuilder
  <2> QED BY <1>0, <2>1 DEF TypeOK
<1>2. SingleManager'
  BY <1>0 DEF SingleManager, Exists
<1>3. PointersGood'
  BY <1>0 DEF PointersGood
<1>4. OneBuilder'
  BY <1>0 DEF OneBuilder
<1>5. Token'
  BY <1>0 DEF Token, Exists, Destroying
<1>6. Progress'
  BY <1>0 DEF Progress, Exists
<1>7. NewBlock'
  BY <1>0 DEF NewBlock
<1>8. WeakExact'
  BY <1>0 DEF TypeOK, WeakExact, Shared, Pointed, OneBuilder
<1>9. NoStaleSocket'
  BY <1>0 DEF NoStaleSocket, Exists
<1> QED BY <1>1, <1>2, <1>3, <1>4, <1>5, <1>6, <1>7, <1>8, <1>9 DEF SInv

\* The second half of the assignment changes no count.
LEMMA StoreNewBlockStep ==
    ASSUME SInv, NEW t \in Threads, StoreNewBlock(t)
    PROVE  SInv'
<1> USE DEF StoreNewBlock, At, Go
<1>0. /\ TypeOK /\ SingleManager /\ PointersGood /\ NoStaleSocket /\ OneBuilder
      /\ Token /\ Progress /\ NewBlock /\ WeakExact
  BY DEF SInv
<1>1. TypeOK'
  BY <1>0 DEF TypeOK
<1>2. SingleManager'
  BY <1>0 DEF SingleManager, Exists
<1>3. PointersGood'
  BY <1>0 DEF PointersGood
<1>4. OneBuilder'
  BY <1>0 DEF TypeOK, OneBuilder
<1>5. Token'
  BY <1>0 DEF Token, Exists, Destroying
<1>6. Progress'
  BY <1>0 DEF Progress, Exists
<1>7. NewBlock'
  BY <1>0 DEF NewBlock, PointersGood, OneBuilder
<1>8. WeakExact'
  BY <1>0 DEF WeakExact, Shared, Pointed, OneBuilder
<1>9. NoStaleSocket'
  BY <1>0 DEF NoStaleSocket, Exists
<1> QED BY <1>1, <1>2, <1>3, <1>4, <1>5, <1>6, <1>7, <1>8, <1>9 DEF SInv

\* A thread that holds a manager_ptr opens its frontend socket.
LEMMA OpenSocketStep ==
    ASSUME SInv, NEW t \in Threads, OpenSocket(t)
    PROVE  SInv'
<1> USE DEF OpenSocket, At
<1>0. /\ TypeOK /\ SingleManager /\ PointersGood /\ NoStaleSocket /\ OneBuilder
      /\ Token /\ Progress /\ NewBlock /\ WeakExact
  BY DEF SInv
<1>1. TypeOK'
  BY <1>0 DEF TypeOK
<1>2. held[t] \in Managers /\ Exists(held[t])
  BY <1>0 DEF TypeOK, Progress, PointersGood, Exists
<1>3. NoStaleSocket'
  BY <1>2 DEF NoStaleSocket, Exists
<1> QED BY <1>0, <1>1, <1>3 DEF SInv, SingleManager, PointersGood, OneBuilder, Token,
         Progress, NewBlock, WeakExact, Exists, Destroying, Shared, Pointed

\* The end of a thread closes one.
LEMMA ThreadEndsStep ==
    ASSUME SInv, NEW t \in Threads, ThreadEnds(t)
    PROVE  SInv'
BY DEF ThreadEnds, SInv, TypeOK, SingleManager, PointersGood, NoStaleSocket, OneBuilder,
       Token, Progress, NewBlock, WeakExact, Exists, Destroying, Shared, Pointed

\* The last holder, and nobody else, starts the destruction.
LEMMA ReleaseStepStep ==
    ASSUME SInv, NEW t \in Threads, Release(t)
    PROVE  SInv'
<1> USE DEF Release, At, Go
<1>0. /\ TypeOK /\ SingleManager /\ PointersGood /\ NoStaleSocket /\ OneBuilder
      /\ Token /\ Progress /\ NewBlock /\ WeakExact
  BY DEF SInv
<1>a. held[t] \in Managers /\ obj[held[t]] = "live" /\ doomed[t] = 0
  BY <1>0 DEF TypeOK, Progress, PointersGood
<1>1. TypeOK'
  BY <1>0 DEF TypeOK
<1>2. SingleManager'
  BY <1>0, <1>a DEF TypeOK, SingleManager, Exists
<1>3. PointersGood'
  BY <1>0 DEF TypeOK, PointersGood, Progress, Referenced
<1>4. OneBuilder'
  BY <1>0 DEF TypeOK, OneBuilder
<1>5. Token'
  <2>1. \A u \in Threads : ~Destroying(u) /\ pc[u] # "new"
    BY <1>0, <1>a DEF TypeOK, Destroying, Progress, Exists, SingleManager, Token
  <2>2. mgr_exists
    BY <1>0, <1>a DEF Token, Exists
  <2> QED BY <1>0, <2>1, <2>2 DEF TypeOK, Token, Destroying
<1>6. Progress'
  BY <1>0 DEF TypeOK, Progress, Exists, PointersGood
<1>7. NewBlock'
  BY <1>0 DEF TypeOK, NewBlock
<1>8. WeakExact'
  BY <1>0 DEF TypeOK, WeakExact, Shared, Pointed, Progress
<1>9. NoStaleSocket'
  BY <1>0 DEF TypeOK, NoStaleSocket, Exists
<1> QED BY <1>1, <1>2, <1>3, <1>4, <1>5, <1>6, <1>7, <1>8, <1>9 DEF SInv

\* The threads of the manager have been joined.
LEMMA JoinThreadsStep ==
    ASSUME SInv, NEW t \in Threads, JoinThreads(t)
    PROVE  SInv'
<1> USE DEF JoinThreads, At, Go
<1>0. /\ TypeOK /\ SingleManager /\ PointersGood /\ NoStaleSocket /\ OneBuilder
      /\ Token /\ Progress /\ NewBlock /\ WeakExact
  BY DEF SInv
<1>1. TypeOK'
  <2>1. sockets' \subseteq AppThreads
    BY <1>0 DEF TypeOK, Threads
  <2> QED BY <1>0, <2>1 DEF TypeOK
<1>2. SingleManager'
  BY <1>0 DEF SingleManager, Exists, Progress
<1>3. PointersGood'
  BY <1>0 DEF PointersGood, Progress
<1>4. OneBuilder'
  BY <1>0 DEF OneBuilder
<1>5. Token'
  BY <1>0 DEF Token, Destroying
<1>6. Progress'
  BY <1>0 DEF TypeOK, Progress, Token, Destroying
<1>7. NewBlock'
  BY <1>0 DEF NewBlock
<1>8. WeakExact'
  BY <1>0 DEF WeakExact, Shared, Pointed
<1>9. NoStaleSocket'
  BY <1>0 DEF TypeOK, Progress, NoStaleSocket, Exists
<1> QED BY <1>1, <1>2, <1>3, <1>4, <1>5, <1>6, <1>7, <1>8, <1>9 DEF SInv

\* When delete returns, no manager exists.
LEMMA DeletedStep ==
    ASSUME SInv, NEW t \in Threads, Deleted(t)
    PROVE  SInv'
<1> USE DEF Deleted, At, Go
<1>0. /\ TypeOK /\ SingleManager /\ PointersGood /\ NoStaleSocket /\ OneBuilder
      /\ Token /\ Progress /\ NewBlock /\ WeakExact
  BY DEF SInv
<1>1. TypeOK'
  BY <1>0 DEF TypeOK
<1>2. SingleManager'
  BY <1>0 DEF SingleManager, Exists
<1>3. PointersGood'
  BY <1>0 DEF PointersGood, Progress
<1>4. OneBuilder'
  BY <1>0 DEF OneBuilder
<1>5. Token'
  BY <1>0 DEF Token, Destroying
<1>6. Progress'
  BY <1>0 DEF TypeOK, Progress, Exists, SingleManager, Token, Destroying
<1>7. NewBlock'
  BY <1>0 DEF NewBlock
<1>8. WeakExact'
  BY <1>0 DEF WeakExact, Shared, Pointed
<1>9. NoStaleSocket'
  BY <1>0 DEF NoStaleSocket, Exists
<1> QED BY <1>1, <1>2, <1>3, <1>4, <1>5, <1>6, <1>7, <1>8, <1>9 DEF SInv

\* The token is given back, and at most one builder wakes.
LEMMA FinishDestructionStep ==
    ASSUME SInv, NEW t \in Threads, FinishDestruction(t)
    PROVE  SInv'
<1> USE DEF FinishDestruction, At, Go
<1>0. /\ TypeOK /\ SingleManager /\ PointersGood /\ NoStaleSocket /\ OneBuilder
      /\ Token /\ Progress /\ NewBlock /\ WeakExact
  BY DEF SInv
<1>1. TypeOK'
  BY <1>0 DEF TypeOK
<1>2. SingleManager'
  BY <1>0 DEF SingleManager, Exists
<1>3. PointersGood'
  BY <1>0 DEF PointersGood
<1>4. OneBuilder'
  BY <1>0 DEF TypeOK, OneBuilder
<1>5. Token'
  BY <1>0 DEF TypeOK, Token, Exists, Destroying, Progress
<1>6. Progress'
  BY <1>0 DEF TypeOK, Progress, Token, Destroying
<1>7. NewBlock'
  BY <1>0 DEF TypeOK, NewBlock
<1>8. WeakExact'
  BY <1>0 DEF TypeOK, WeakExact, Shared, Pointed, OneBuilder
<1>9. NoStaleSocket'
  BY <1>0 DEF NoStaleSocket, Exists
<1> QED BY <1>1, <1>2, <1>3, <1>4, <1>5, <1>6, <1>7, <1>8, <1>9 DEF SInv

\* The deleter returns its reference to the control block.
LEMMA DropBlockStep ==
    ASSUME SInv, NEW t \in Threads, DropBlock(t)
    PROVE  SInv'
<1> USE DEF DropBlock, At, Go
<1>0. /\ TypeOK /\ SingleManager /\ PointersGood /\ NoStaleSocket /\ OneBuilder
      /\ Token /\ Progress /\ NewBlock /\ WeakExact
  BY DEF SInv
<1>1. TypeOK'
  <2>1. doomed[t] \in Managers /\ Shared(doomed[t])
    BY <1>0 DEF TypeOK, Progress, Shared
  <2>2. weak[doomed[t]] - 1 \in 0 .. 2
    BY <1>0, <2>1 DEF WeakExact
  <2> QED BY <1>0, <2>2 DEF TypeOK
<1>2. SingleManager'
  BY <1>0 DEF SingleManager, Exists
<1>3. PointersGood'
  BY <1>0 DEF PointersGood
<1>4. OneBuilder'
  BY <1>0 DEF OneBuilder
<1>5. Token'
  BY <1>0 DEF Token, Exists, Destroying
<1>6. Progress'
  BY <1>0 DEF TypeOK, Progress, Exists
<1>7. NewBlock'
  BY <1>0 DEF NewBlock
<1>8. WeakExact'
  BY <1>0 DEF TypeOK, WeakExact, Shared, Pointed, Progress, PointersGood
<1>9. NoStaleSocket'
  BY <1>0 DEF NoStaleSocket, Exists
<1> QED BY <1>1, <1>2, <1>3, <1>4, <1>5, <1>6, <1>7, <1>8, <1>9 DEF SInv

\* Every step of the threads preserves the invariant.
LEMMA NextSInv == SInv /\ [Next]_vars => SInv'
<1> SUFFICES ASSUME SInv, [Next]_vars PROVE SInv'
  OBVIOUS
<1>1. ASSUME NEW t \in Threads,
             \/ AppGet(t) \/ WorkerGet(t) \/ ConstructThrows(t) \/ Release(t)
             \/ OpenSocket(t) \/ ThreadEnds(t)
             \/ GetStep(t) \/ ReleaseStep(t)
      PROVE  SInv'
  BY <1>1, AppGetStep, WorkerGetStep, ConstructThrowsStep, ReleaseStepStep,
     OpenSocketStep, ThreadEndsStep,
     LockStep, EnterMakeStep, StartConstructionStep, ConstructStep,
     ReleaseOldBlockStep, StoreNewBlockStep, JoinThreadsStep, DeletedStep,
     FinishDestructionStep, DropBlockStep DEF GetStep, ReleaseStep
<1>2. CASE UNCHANGED vars
  BY <1>2 DEF SInv, vars, TypeOK, SingleManager, PointersGood, NoStaleSocket, OneBuilder,
       Token, Progress, NewBlock, WeakExact, Exists, Destroying, Shared, Pointed
<1> QED BY <1>1, <1>2 DEF Next, Finished

\* The invariant of the manager's life cycle holds in every reachable state.
THEOREM LifeCycle == Spec => []SInv
<1> QED BY InitSInv, NextSInv, PTL DEF Spec

\* manager.hpp: "manager is singleton".  Whatever threads call get() and
\* release pointers, a manager is constructed only after the destructor of the
\* one before has returned.
THEOREM Singleton == Spec => []SingleManager
<1>1. SInv => SingleManager
  BY DEF SInv
<1> QED BY <1>1, LifeCycle, PTL

\* A manager_ptr that get() has returned points to a live manager, and one
\* thread at most destroys a manager; no thread keeps a frontend socket of a
\* manager that is gone, as ~context_t() waits for the sockets of the others.
THEOREM PointersLive == Spec => []NoDeadManager
<1>1. SInv => NoDeadManager
  BY DEF SInv, NoDeadManager
<1> QED BY <1>1, LifeCycle, PTL
=============================================================================
