---------------------------- MODULE DynSingleton ----------------------------
(***************************************************************************)
(* The life of the manager: manager::get() returns the one manager,        *)
(* constructs it on first use, and the thread that releases the last       *)
(* manager_ptr destroys it, which joins the worker threads.                *)
(* manager_dyn_singleton_helper.{hpp,cc} and ~manager() are followed; the  *)
(* boost smart pointers are modelled from how they are used: a control     *)
(* block counts the manager_ptrs and is freed when the weak pointer has    *)
(* let go of it and the deleter has returned.                              *)
(*                                                                         *)
(* mgr_wptr is assigned in two steps (the old control block is released,   *)
(* then the new one is stored) and read in two (the block's address, then  *)
(* its count).  get_manager_ptr() reads it without a lock.  Touching a     *)
(* freed block is undefined: the model records it in ub and stops.         *)
(*                                                                         *)
(* A worker calls get() for each request that it handles                   *)
(* (request_handler.cc), and releases the pointer afterwards.              *)
(***************************************************************************)
EXTENDS Naturals

CONSTANTS
    AppThreads,   \* threads of the application
    Workers,      \* worker threads of the manager
    NoThread,     \* not a thread
    MaxManagers,  \* bound on the managers constructed
    MaxHandled,   \* bound on the requests that workers handle
    MaxFailures   \* bound on the constructions that throw

Threads == AppThreads \cup Workers

ASSUME ThreadsAssumption == AppThreads \cap Workers = {} /\ NoThread \notin Threads
ASSUME SingletonBounds ==
    MaxManagers \in Nat /\ MaxHandled \in Nat /\ MaxFailures \in Nat

Managers == 1 .. MaxManagers

VARIABLES
    pc,             \* pc[t]: where t is in get() or in releasing a pointer
    seen,           \* seen[t]: the control block t has read from mgr_wptr, or 0
    held,           \* held[t]: the manager that t has a manager_ptr to, or 0
    doomed,         \* doomed[t]: the manager that t is destroying, or 0
    mgr_wptr,       \* the manager whose block mgr_wptr points to, or 0
    weak,           \* weak[g]: weak count of the control block of g
    mgr_wptr_mtx,   \* who holds the mutex, or NoThread
    mgr_exists,
    obj,            \* obj[g]: "none", "live", "destroying", "joined", "destroyed"
    handled,        \* requests handled by workers
    failures,       \* constructions that have thrown
    sockets,        \* application threads with a frontend socket of the manager
    ub              \* a freed control block has been touched

vars == <<pc, seen, held, doomed, mgr_wptr, weak, mgr_wptr_mtx, mgr_exists,
          obj, handled, failures, sockets, ub>>

\* use_count() of the control block of g is not zero.
Referenced(g) == \E t \in Threads : held[t] = g

Init ==
    /\ pc = [t \in Threads |-> "out"]
    /\ seen = [t \in Threads |-> 0]
    /\ held = [t \in Threads |-> 0]
    /\ doomed = [t \in Threads |-> 0]
    /\ mgr_wptr = 0
    /\ weak = [g \in Managers |-> 0]
    /\ mgr_wptr_mtx = NoThread
    /\ mgr_exists = FALSE
    /\ obj = [g \in Managers |-> "none"]
    /\ handled = 0
    /\ failures = 0
    /\ sockets = {}
    /\ ub = FALSE

At(t, l) == ~ub /\ pc[t] = l
Go(t, l) == pc' = [pc EXCEPT ![t] = l]

-----------------------------------------------------------------------------
(* manager::get()                                                          *)

\* mgr_wptr.lock(), first half: the address of the control block is read.
ReadWptr(t) ==
    /\ At(t, "out")
    /\ seen' = [seen EXCEPT ![t] = mgr_wptr]
    /\ Go(t, "lock")
    /\ UNCHANGED <<held, doomed, mgr_wptr, weak, mgr_wptr_mtx, mgr_exists,
                   obj, failures, ub, sockets>>

\* An application thread calls manager::get().
AppGet(t) == t \in AppThreads /\ ReadWptr(t) /\ UNCHANGED handled

\* A worker handles a request: a worker runs until it is joined.
WorkerGet(t) ==
    /\ t \in Workers
    /\ handled < MaxHandled
    /\ \E g \in Managers : obj[g] \in {"live", "destroying"}
    /\ ReadWptr(t)
    /\ handled' = handled + 1

LockWithoutCount(t) ==
    LET g == seen[t] IN
    /\ At(t, "lock")
    /\ ub' = (g # 0 /\ weak[g] = 0)
    /\ IF g # 0 /\ weak[g] > 0
         THEN held' = [held EXCEPT ![t] = g] /\ Go(t, "hold")
         ELSE UNCHANGED held /\ Go(t, "enter")
    /\ seen' = [seen EXCEPT ![t] = 0]
    /\ UNCHANGED <<doomed, mgr_wptr, weak, mgr_wptr_mtx, mgr_exists, obj,
                   handled, failures, sockets>>

\* The second half of lock(): it gives a pointer if the count is not zero.
Lock(t) ==
    LET g == seen[t] IN
    /\ At(t, "lock")
    /\ ub' = (g # 0 /\ weak[g] = 0)
    /\ IF g # 0 /\ weak[g] > 0 /\ Referenced(g)
         THEN held' = [held EXCEPT ![t] = g] /\ Go(t, "hold")
         ELSE UNCHANGED held /\ Go(t, "enter")
    /\ seen' = [seen EXCEPT ![t] = 0]
    /\ UNCHANGED <<doomed, mgr_wptr, weak, mgr_wptr_mtx, mgr_exists, obj,
                   handled, failures, sockets>>

\* make_manager_ptr() locks mgr_wptr_mtx and tries mgr_wptr.lock() again.
EnterMake(t) ==
    /\ At(t, "enter")
    /\ mgr_wptr_mtx = NoThread
    /\ IF mgr_wptr # 0 /\ Referenced(mgr_wptr)
         THEN /\ held' = [held EXCEPT ![t] = mgr_wptr]
              /\ Go(t, "hold")
              /\ UNCHANGED mgr_wptr_mtx
         ELSE /\ mgr_wptr_mtx' = t
              /\ Go(t, "start")
              /\ UNCHANGED held
    /\ UNCHANGED <<seen, doomed, mgr_wptr, weak, mgr_exists, obj, handled,
                   failures, ub, sockets>>

StartWithoutWaiting(t) ==
    /\ At(t, "start")
    /\ Go(t, "new")
    /\ mgr_exists' = TRUE
    /\ UNCHANGED <<seen, held, doomed, mgr_wptr, weak, mgr_wptr_mtx, obj,
                   handled, failures, ub, sockets>>

\* start_construction(): wait on cond while a manager exists.
StartConstruction(t) ==
    /\ At(t, "start")
    /\ IF mgr_exists THEN Go(t, "wait") ELSE Go(t, "new")
    /\ mgr_exists' = TRUE
    /\ UNCHANGED <<seen, held, doomed, mgr_wptr, weak, mgr_wptr_mtx, obj,
                   handled, failures, ub, sockets>>

\* new manager(), with its threads, owned by p.
Construct(t) ==
    /\ At(t, "new")
    /\ \E g \in Managers :
         /\ obj[g] = "none" /\ \A h \in 1 .. g - 1 : obj[h] # "none"
         /\ obj' = [obj EXCEPT ![g] = "live"]
         /\ held' = [held EXCEPT ![t] = g]
         /\ weak' = [weak EXCEPT ![g] = 1]
    /\ Go(t, "release")
    /\ UNCHANGED <<seen, doomed, mgr_wptr, mgr_wptr_mtx, mgr_exists, handled,
                   failures, ub, sockets>>

\* The constructor throws (no context, no thread): the exception leaves get(),
\* which unlocks the mutex.  mgr_exists stays as it is.
ConstructThrows(t) ==
    /\ At(t, "new")
    /\ failures < MaxFailures
    /\ failures' = failures + 1
    /\ mgr_wptr_mtx' = NoThread
    /\ Go(t, "out")
    /\ UNCHANGED <<seen, held, doomed, mgr_wptr, weak, mgr_exists, obj,
                   handled, ub, sockets>>

\* mgr_wptr = p, first half: the new block gains a reference, the old one
\* loses one.
ReleaseOldBlock(t) ==
    /\ At(t, "release")
    /\ weak' = [g \in Managers |->
                   weak[g] + (IF g = held[t] THEN 1 ELSE 0)
                           - (IF g = mgr_wptr THEN 1 ELSE 0)]
    /\ Go(t, "store")
    /\ UNCHANGED <<seen, held, doomed, mgr_wptr, mgr_wptr_mtx, mgr_exists, obj,
                   handled, failures, ub, sockets>>

\* The second half; then make_manager_ptr() unlocks and returns.
StoreNewBlock(t) ==
    /\ At(t, "store")
    /\ mgr_wptr' = held[t]
    /\ mgr_wptr_mtx' = NoThread
    /\ Go(t, "hold")
    /\ UNCHANGED <<seen, held, doomed, weak, mgr_exists, obj, handled,
                   failures, ub, sockets>>

-----------------------------------------------------------------------------
(* Using the manager                                                       *)

\* get_frontend_socket(): a thread that sends a command to the manager opens
\* its frontend socket, which stays open after the thread's last manager_ptr.
OpenSocket(t) ==
    /\ At(t, "hold")
    /\ t \in AppThreads \ sockets
    /\ sockets' = sockets \cup {t}
    /\ UNCHANGED <<pc, seen, held, doomed, mgr_wptr, weak, mgr_wptr_mtx,
                   mgr_exists, obj, handled, failures, ub>>

\* A thread ends, and boost::thread_specific_ptr closes its socket; another
\* thread may be started in its place.
ThreadEnds(t) ==
    /\ At(t, "out")
    /\ t \in sockets
    /\ sockets' = sockets \ {t}
    /\ UNCHANGED <<pc, seen, held, doomed, mgr_wptr, weak, mgr_wptr_mtx,
                   mgr_exists, obj, handled, failures, ub>>

-----------------------------------------------------------------------------
(* Releasing a manager_ptr                                                 *)

\* Whoever drops the last pointer runs the deleter.
Release(t) ==
    LET g == held[t] IN
    /\ At(t, "hold")
    /\ held' = [held EXCEPT ![t] = 0]
    /\ IF \A u \in Threads \ {t} : held[u] # g
         THEN /\ obj' = [obj EXCEPT ![g] = "destroying"]
              /\ doomed' = [doomed EXCEPT ![t] = g]
              /\ Go(t, "destroy")
         ELSE Go(t, "out") /\ UNCHANGED <<obj, doomed>>
    /\ UNCHANGED <<seen, mgr_wptr, weak, mgr_wptr_mtx, mgr_exists, handled,
                   failures, ub, sockets>>

JoinThreadsUnderLock(t) ==
    /\ At(t, "destroy")
    /\ mgr_wptr_mtx = NoThread
    /\ t \notin Workers
    /\ \A w \in Workers : pc[w] = "out"
    /\ obj' = [obj EXCEPT ![doomed[t]] = "joined"]
    /\ sockets' = sockets \cup {t}
    /\ Go(t, "delete")
    /\ UNCHANGED <<seen, held, doomed, mgr_wptr, weak, mgr_wptr_mtx,
                   mgr_exists, handled, failures, ub>>

\* ~manager(): join_threads() sends kQuit on this thread's frontend socket, and
\* returns once every worker has finished what it was doing.  A thread that
\* joins itself does not return.
JoinThreads(t) ==
    /\ At(t, "destroy")
    /\ t \notin Workers
    /\ \A w \in Workers : pc[w] = "out"
    /\ obj' = [obj EXCEPT ![doomed[t]] = "joined"]
    /\ sockets' = sockets \cup {t}
    /\ Go(t, "delete")
    /\ UNCHANGED <<seen, held, doomed, mgr_wptr, weak, mgr_wptr_mtx,
                   mgr_exists, handled, failures, ub>>

\* The members are destroyed, and delete p returns: ~thread_specific_ptr()
\* closes the socket of this thread only, and ~context_t() waits until those of
\* the other threads are closed.
Deleted(t) ==
    /\ At(t, "delete")
    /\ sockets \subseteq {t}
    /\ obj' = [obj EXCEPT ![doomed[t]] = "destroyed"]
    /\ sockets' = {}
    /\ Go(t, "finish")
    /\ UNCHANGED <<seen, held, doomed, mgr_wptr, weak, mgr_wptr_mtx,
                   mgr_exists, handled, failures, ub>>

FinishWithoutNotify(t) ==
    /\ At(t, "finish")
    /\ mgr_exists' = FALSE
    /\ Go(t, "drop")
    /\ UNCHANGED <<seen, held, doomed, mgr_wptr, weak, mgr_wptr_mtx, obj,
                   handled, failures, ub, sockets>>

\* finish_destruction(): cond.notify_one() wakes one thread that waits in
\* start_construction(), if there is one.
FinishDestruction(t) ==
    /\ At(t, "finish")
    /\ mgr_exists' = FALSE
    /\ LET waiting == {u \in Threads : pc[u] = "wait"} IN
         \/ waiting = {} /\ Go(t, "drop")
         \/ \E u \in waiting : pc' = [pc EXCEPT ![t] = "drop", ![u] = "start"]
    /\ UNCHANGED <<seen, held, doomed, mgr_wptr, weak, mgr_wptr_mtx, obj,
                   handled, failures, ub, sockets>>

\* The deleter has returned: the control block loses the reference that the
\* manager_ptrs shared.
DropBlock(t) ==
    /\ At(t, "drop")
    /\ weak' = [weak EXCEPT ![doomed[t]] = @ - 1]
    /\ doomed' = [doomed EXCEPT ![t] = 0]
    /\ Go(t, "out")
    /\ UNCHANGED <<seen, held, mgr_wptr, mgr_wptr_mtx, mgr_exists, obj,
                   handled, failures, ub, sockets>>

-----------------------------------------------------------------------------
GetStep(t) ==
    \/ Lock(t) \/ EnterMake(t) \/ StartConstruction(t) \/ Construct(t)
    \/ ReleaseOldBlock(t) \/ StoreNewBlock(t)

ReleaseStep(t) ==
    JoinThreads(t) \/ Deleted(t) \/ FinishDestruction(t) \/ DropBlock(t)

\* Every manager that the bound allows has come and gone, or the behaviour is
\* undefined.
Finished ==
    /\ \/ ub
       \/ \A g \in Managers : obj[g] # "none"
    /\ UNCHANGED vars

Next ==
    \/ \E t \in Threads :
         \/ AppGet(t) \/ WorkerGet(t) \/ ConstructThrows(t) \/ Release(t)
         \/ OpenSocket(t) \/ ThreadEnds(t)
         \/ GetStep(t) \/ ReleaseStep(t)
    \/ Finished

Spec == Init /\ [][Next]_vars

\* A thread inside get(), or inside the deleter, goes on.  A worker returns
\* from its handler; nothing makes the application release a pointer, or end a
\* thread.
FairSpec ==
    /\ Spec
    /\ \A t \in Threads : WF_vars(GetStep(t)) /\ WF_vars(ReleaseStep(t))
    /\ \A w \in Workers : WF_vars(Release(w))

-----------------------------------------------------------------------------
(* Safety                                                                  *)

\* Every variable has its type.
TypeOK ==
    /\ pc \in [Threads -> {"out", "lock", "enter", "start", "wait", "new",
                           "release", "store", "hold", "destroy", "delete",
                           "finish", "drop"}]
    /\ seen \in [Threads -> Managers \cup {0}]
    /\ held \in [Threads -> Managers \cup {0}]
    /\ doomed \in [Threads -> Managers \cup {0}]
    /\ mgr_wptr \in Managers \cup {0}
    /\ weak \in [Managers -> 0 .. 2]
    /\ mgr_wptr_mtx \in Threads \cup {NoThread}
    /\ mgr_exists \in BOOLEAN
    /\ obj \in [Managers -> {"none", "live", "destroying", "joined", "destroyed"}]
    /\ handled \in 0 .. MaxHandled
    /\ failures \in 0 .. MaxFailures
    /\ sockets \subseteq AppThreads
    /\ ub \in BOOLEAN

Exists(g) == obj[g] \in {"live", "destroying", "joined"}

\* manager.hpp: "manager is singleton".  The next manager is not constructed
\* before the destructor of the one before has returned.
SingleManager == \A g, h \in Managers : Exists(g) /\ Exists(h) => g = h

PointersGood ==
    /\ \A t \in Threads : held[t] # 0 => obj[held[t]] = "live"
    /\ \A t, u \in Threads : doomed[t] # 0 /\ doomed[t] = doomed[u] => t = u

\* The frontend sockets that threads keep belong to the manager that exists: a
\* thread never sends a command into the context of a manager that is gone, not
\* even when the next manager, and its thread_specific_ptr, has the same address.
NoStaleSocket == sockets # {} => \E g \in Managers : Exists(g)

\* A manager_ptr that get() has returned points to a manager that is alive, a
\* manager that someone destroys is no longer given out, and no thread keeps a
\* frontend socket of one that is gone.
NoDeadManager == PointersGood /\ NoStaleSocket

\* Only the holder of mgr_wptr_mtx is between its second look at mgr_wptr and
\* the assignment, so that no two threads construct.
OneBuilder ==
    \A t \in Threads :
        pc[t] \in {"start", "wait", "new", "release", "store"} => mgr_wptr_mtx = t

\* The inductive invariant behind SingleManager: mgr_exists is a token that
\* passes from the builder to the manager, to its destroyer, and back.
Destroying(t) == pc[t] \in {"destroy", "delete", "finish"}

Token ==
    /\ \A g \in Managers : Exists(g) => mgr_exists
    /\ \A t \in Threads : Destroying(t) =>
         mgr_exists /\ \A u \in Threads : Destroying(u) => u = t
    /\ \A t \in Threads : pc[t] = "new" =>
         /\ mgr_exists
         /\ \A g \in Managers : ~Exists(g)
         /\ \A u \in Threads : ~Destroying(u)

\* How far a thread has come says what it holds, and what it is destroying.
Progress ==
    \A t \in Threads :
        /\ pc[t] \in {"release", "store", "hold"} <=> held[t] # 0
        /\ pc[t] \in {"destroy", "delete", "finish", "drop"} <=> doomed[t] # 0
        /\ doomed[t] # 0 => obj[doomed[t]] \notin {"none", "live"}
        /\ pc[t] = "destroy" => obj[doomed[t]] = "destroying"
        /\ pc[t] = "delete" => obj[doomed[t]] = "joined"
        /\ pc[t] = "finish" => \A g \in Managers : ~Exists(g)

\* mgr_wptr never points to the block that is about to be assigned to it.
NewBlock ==
    /\ mgr_wptr # 0 => obj[mgr_wptr] # "none"
    /\ \A t \in Threads : pc[t] = "release" => held[t] # mgr_wptr

\* The control block of g is kept by the manager_ptrs and their deleter.
Shared(g) == \E t \in Threads : held[t] = g \/ doomed[t] = g

\* mgr_wptr accounts for the block of g: between the two halves of the
\* assignment that is the new block, although mgr_wptr has the old address.
Pointed(g) ==
    IF \E t \in Threads : pc[t] = "store"
      THEN \E t \in Threads : pc[t] = "store" /\ held[t] = g
      ELSE mgr_wptr = g

\* A control block is freed neither early nor late: its count is exactly the
\* references that mgr_wptr and the manager_ptrs have to it.
WeakExact ==
    \A g \in Managers :
        weak[g] = (IF Shared(g) THEN 1 ELSE 0) + (IF Pointed(g) THEN 1 ELSE 0)

\* Everything above: the inductive invariant of the manager's life cycle.
SInv ==
    /\ TypeOK /\ SingleManager /\ PointersGood /\ NoStaleSocket
    /\ OneBuilder /\ Token /\ Progress /\ NewBlock /\ WeakExact

\* manager_dyn_singleton_helper.hpp calls the unlocked mgr_wptr.lock()
\* "thread-safe".
WptrThreadSafe == ~ub

-----------------------------------------------------------------------------
(* Liveness                                                                *)

\* A worker destroys the manager, and so waits for itself to end; or it waits in
\* get() for the end of a manager whose destructor waits for the worker.
WorkerWaits ==
    \E w \in Workers :
        \/ doomed[w] # 0
        \/ pc[w] \in {"enter", "wait"} /\ \E t \in Threads : pc[t] = "destroy"

\* The destructor waits for the frontend socket of another thread, which lives
\* on; that thread may itself be waiting in get() for the destructor.
ContextWaits == \E t \in Threads : pc[t] = "delete" /\ ~(sockets \subseteq {t})

\* Nothing waits for ever.
NeverStuck == []<>~(WorkerWaits \/ ContextWaits)

\* manager.hpp: a manager is "constructed on first use".  A call of get()
\* returns, unless a construction has thrown (mgr_exists then stays set, with
\* nobody to reset it), the destructor of a manager waits for ever for a worker
\* or for another thread's socket, or the bound on managers has been reached.
GetReturns ==
    NeverStuck =>
        \A t \in AppThreads :
            (pc[t] = "lock") ~> (pc[t] = "hold" \/ ub \/ failures > 0
                                 \/ \A g \in Managers : obj[g] # "none")

\* manager.hpp: a manager is "destroyed if not referenced anymore".
UnreferencedDestroyed ==
    \A g \in Managers : (obj[g] = "destroying") ~> (obj[g] = "destroyed" \/ ub)

\* The same, unless its destructor waits for ever for a worker or for the socket
\* of another thread.
DestroyedUnlessStuck == NeverStuck => UnreferencedDestroyed
=============================================================================
