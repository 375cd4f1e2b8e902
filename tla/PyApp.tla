------------------------------- MODULE PyApp --------------------------------
(***************************************************************************)
(* The life of an application: options, run() and terminate(), and the     *)
(* objects that keep the manager alive, through application.cc,            *)
(* application_options.cc and the functions and classes of pywraprpcz.cpp  *)
(* that wrap them, with the Python services that a Server calls.           *)
(*                                                                         *)
(* Abstractions: construction and destruction of a manager are one step    *)
(* (DynSingleton has their races); a server handles one request at a time. *)
(***************************************************************************)
EXTENDS Integers, FiniteSets

CONSTANTS
    Users,         \* threads of the application
    Wrappers,      \* RpcChannel and Server objects that can be made
    PyServices,    \* Python service objects
    ThreadCounts,  \* arguments of set_worker_threads()
    MaxManagers    \* bound on the managers made

Managers == 1 .. MaxManagers
NoManager == 0

ASSUME AppAssumption == MaxManagers \in Nat /\ ThreadCounts \subseteq Int

VARIABLES
    worker_threads,  \* application_options::worker_threads_
    mgr,             \* the manager that mgr_wptr refers to, or NoManager
    made,            \* number of managers made so far
    workers,         \* workers[g]: the threads of manager g
    terminated,      \* terminated[g]: sync_event terminated_ of manager g
    inRun,           \* inRun[u]: the manager whose run() u is in
    owed,            \* ghost: threads that were in run() at a terminate()
    wrapper,         \* wrapper[o]: the manager that object o holds, or NoManager
    mine,            \* services that the application has a reference to
    pyRefs,          \* pyRefs[s]: PythonRpcServices made for service s
    offered,         \* offered[s]: the manager whose workers may call s
    serving          \* the service that a worker calls, as a set

avars == <<worker_threads, mgr, made, workers, terminated, inRun, owed, wrapper,
           mine, pyRefs, offered, serving>>

AInit ==
    /\ worker_threads = 1
    /\ mgr = NoManager /\ made = 0
    /\ workers = [g \in Managers |-> 0]
    /\ terminated = [g \in Managers |-> FALSE]
    /\ inRun = [u \in Users |-> NoManager]
    /\ owed = {}
    /\ wrapper = [o \in Wrappers |-> NoManager]
    /\ mine = PyServices
    /\ pyRefs = [s \in PyServices |-> 0]
    /\ offered = [s \in PyServices |-> NoManager]
    /\ serving = {}

\* application_options::set_worker_threads()
StoreCount(n) == worker_threads' = IF n <= 0 THEN worker_threads ELSE n

\* application::set_worker_threads(), which has no Python wrapper
SetWorkerThreads(u, n) ==
    /\ inRun[u] = NoManager
    /\ StoreCount(n)
    /\ UNCHANGED <<mgr, made, workers, terminated, inRun, owed, wrapper, mine,
                   pyRefs, offered, serving>>

-----------------------------------------------------------------------------
\* manager::get(): the manager there is, or a new one.
Got == IF mgr = NoManager THEN made + 1 ELSE mgr

CanGet == mgr # NoManager \/ made < MaxManagers

Get ==
    /\ CanGet
    /\ made' = IF mgr = NoManager THEN made + 1 ELSE made
    /\ workers' = IF mgr = NoManager THEN [workers EXCEPT ![made + 1] = worker_threads] ELSE workers

\* The manager lives as long as somebody holds it: an object, or run().
Kept(inside, objs) ==
    (\E u \in Users : inside[u] # NoManager) \/ (\E o \in Wrappers : objs[o] # NoManager)

\* Its destructor joins the workers, which end what they are doing.
ReleaseManager(inside, objs) ==
    /\ mgr' = IF Kept(inside, objs) THEN mgr ELSE NoManager
    /\ serving' = IF Kept(inside, objs) THEN serving ELSE {}

\* create_rpc_channel_wrap(), or Server.__cinit__(): the object holds the
\* manager.  A string that is not one raises before that.
NewWrapper(u, o) ==
    /\ inRun[u] = NoManager
    /\ wrapper[o] = NoManager
    /\ Get
    /\ wrapper' = [wrapper EXCEPT ![o] = Got]
    /\ mgr' = Got
    /\ UNCHANGED <<worker_threads, terminated, inRun, owed, mine, pyRefs, offered, serving>>

\* __dealloc__() of either class.  The workers keep the services of a Server.
DropWrapper(u, o) ==
    /\ inRun[u] = NoManager
    /\ wrapper[o] # NoManager
    /\ wrapper' = [wrapper EXCEPT ![o] = NoManager]
    /\ ReleaseManager(inRun, wrapper')
    /\ UNCHANGED <<worker_threads, made, workers, terminated, inRun, owed, mine,
                   pyRefs, offered>>

\* manager::get() in run() is a temporary that lives until run() returns.
RunHolds(u) == Got

\* run_wrap(): without the GIL, application::run()
Run(u) ==
    /\ inRun[u] = NoManager
    /\ Get
    /\ inRun' = [inRun EXCEPT ![u] = RunHolds(u)]
    /\ mgr' = Got
    /\ UNCHANGED <<worker_threads, terminated, owed, wrapper, mine, pyRefs, offered, serving>>

RunReturns(u) ==
    /\ inRun[u] # NoManager
    /\ terminated[inRun[u]]
    /\ inRun' = [inRun EXCEPT ![u] = NoManager]
    /\ owed' = owed \ {u}
    /\ ReleaseManager(inRun', wrapper)
    /\ UNCHANGED <<worker_threads, made, workers, terminated, wrapper, mine, pyRefs,
                   offered>>

TerminateOwn(u) == IF inRun[u] = NoManager THEN terminated ELSE [terminated EXCEPT ![Got] = TRUE]

\* manager::terminate() signals the event of the manager that get() returns.
Terminated(u) == [terminated EXCEPT ![Got] = TRUE]

\* terminate_wrap(), application::terminate(): if nobody holds a manager, it makes
\* one, signals it and destroys it.
Terminate(u) ==
    /\ inRun[u] = NoManager
    /\ Get
    /\ terminated' = Terminated(u)
    /\ owed' = owed \cup {v \in Users : inRun[v] # NoManager}
    /\ mgr' = IF Kept(inRun, wrapper) THEN Got ELSE NoManager
    /\ UNCHANGED <<worker_threads, inRun, wrapper, mine, pyRefs, offered, serving>>

-----------------------------------------------------------------------------
Borrowed == 0
\* PythonRpcService's constructor takes a reference; nothing deletes it.
OwnReference == 1

\* Server.register_service(): the PythonRpcService is made first, and stays if
\* make_string(name) raises, as it does without a name.
RegisterService(u, o, s) ==
    /\ inRun[u] = NoManager
    /\ wrapper[o] # NoManager /\ s \in mine
    /\ pyRefs[s] = 0
    /\ pyRefs' = [pyRefs EXCEPT ![s] = @ + OwnReference]
    /\ \/ offered' = [offered EXCEPT ![s] = wrapper[o]]
       \/ UNCHANGED offered
    /\ UNCHANGED <<worker_threads, mgr, made, workers, terminated, inRun, owed,
                   wrapper, mine, serving>>

\* The application drops its reference.
DropService(u, s) ==
    /\ inRun[u] = NoManager
    /\ s \in mine
    /\ mine' = mine \ {s}
    /\ UNCHANGED <<worker_threads, mgr, made, workers, terminated, inRun, owed,
                   wrapper, pyRefs, offered, serving>>

\* A worker dispatches a request to s, and is done with it.
ServeBegins(s) ==
    /\ serving = {}
    /\ mgr # NoManager /\ offered[s] = mgr
    /\ serving' = {s}
    /\ UNCHANGED <<worker_threads, mgr, made, workers, terminated, inRun, owed,
                   wrapper, mine, pyRefs, offered>>

ServeEnds ==
    /\ serving # {}
    /\ serving' = {}
    /\ UNCHANGED <<worker_threads, mgr, made, workers, terminated, inRun, owed,
                   wrapper, mine, pyRefs, offered>>

ANext ==
    \/ \E u \in Users :
          \/ Run(u) \/ RunReturns(u) \/ Terminate(u)
          \/ \E n \in ThreadCounts : SetWorkerThreads(u, n)
          \/ \E o \in Wrappers : NewWrapper(u, o) \/ DropWrapper(u, o)
          \/ \E o \in Wrappers, s \in PyServices : RegisterService(u, o, s)
          \/ \E s \in PyServices : DropService(u, s)
    \/ \E s \in PyServices : ServeBegins(s)
    \/ ServeEnds

ASpec == AInit /\ [][ANext]_avars

\* A thread whose event is signalled wakes up.
AFairness == \A u \in Users : WF_avars(RunReturns(u))

AFairSpec == ASpec /\ AFairness

-----------------------------------------------------------------------------
\* What is used is alive: the manager that a thread is inside of, with its event;
\* the manager that an object holds; the service that a worker calls.  A
\* manager was made with as many workers as its assertion asks for.
AppUsesAlive ==
    /\ \A u \in Users : inRun[u] \in {NoManager, mgr}
    /\ \A o \in Wrappers : wrapper[o] \in {NoManager, mgr}
    /\ \A s \in serving : s \in mine \/ pyRefs[s] > 0
    /\ \A g \in 1 .. made : workers[g] > 0

\* "Releases all the threads that are blocked inside run()": every thread that is
\* in run() when terminate() is called returns.
RunReleased == \A u \in Users : u \in owed ~> u \notin owed
=============================================================================
