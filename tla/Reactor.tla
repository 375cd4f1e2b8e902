------------------------------ MODULE Reactor -------------------------------
(***************************************************************************)
(* reactor.cc, the event loop of the broker thread: it owns the sockets,   *)
(* polls them, runs the callback of each ready one, runs timers that are   *)
(* due, and deletes sockets between two polls.  Positions are numbered     *)
(* from 1 (sockets_[0] of the code is sockets_[1] here).                   *)
(*                                                                         *)
(* Only callbacks that the broker thread installs call the reactor: the    *)
(* frontend's, one operation for each message.  Whoever asks for a socket  *)
(* to be deleted waits for the deletion callback.  An address that has     *)
(* been deleted can be allocated again.  process_closure_run_map() takes   *)
(* no time.                                                                *)
(***************************************************************************)
EXTENDS Integers, Sequences

CONSTANTS
    Front,       \* the broker's frontend socket
    Peers,       \* addresses of DEALER and ROUTER sockets
    MaxTime,     \* bound on the clock, in milliseconds
    MaxTimers,   \* bound on run_closure_at() calls
    MaxDels,     \* bound on del_socket() calls
    MaxPending,  \* bound on the messages waiting on one socket
    Interrupts   \* whether a signal may interrupt zmq_poll()

ASSUME FrontAssumption == Front \notin Peers
ASSUME ReactorBounds ==
    /\ MaxTime \in Nat /\ MaxTimers \in Nat /\ MaxDels \in Nat
    /\ MaxPending \in Nat \ {0} /\ Interrupts \in BOOLEAN

Sockets == Peers \cup {Front}
Times   == 0 .. MaxTime
Timers  == 1 .. MaxTimers

VARIABLES
    sockets_,          \* the sockets with their callbacks
    del_sockets_,      \* sockets to delete before the next poll
    pollitems_,        \* the sockets given to zmq_poll()
    revents,           \* positions of pollitems_ with ZMQ_POLLIN
    closure_run_map_,  \* timers: [id, at]
    is_dirty_,         \* sockets_ or del_sockets_ has changed
    should_quit_,
    pc,                \* where loop() is
    i,                 \* the index of the loop in progress
    wake,              \* when zmq_poll() times out, -1: never
    interrupted,       \* ghost: the last zmq_poll() was interrupted
    now,               \* the clock
    pend,              \* pend[s]: messages waiting on socket s
    closed,            \* addresses of deleted sockets
    asked, acked,      \* ghost: del_socket() calls, deletion callbacks run
    due,               \* ghost: due[k], when timer k was to run
    fired              \* ghost: fired[k], the times at which it ran

reactorVars == <<sockets_, del_sockets_, is_dirty_, closed, asked, acked>>
timerVars   == <<closure_run_map_, due, fired>>
vars == <<sockets_, del_sockets_, pollitems_, revents, closure_run_map_,
          is_dirty_, should_quit_, pc, i, wake, interrupted, now, pend, closed,
          asked, acked, due, fired>>

Elements(s) == {s[j] : j \in DOMAIN s}

Init ==
    /\ sockets_ = <<Front>>
    /\ del_sockets_ = {}
    /\ pollitems_ = <<>>
    /\ revents = {}
    /\ closure_run_map_ = {}
    /\ is_dirty_ = TRUE
    /\ should_quit_ = FALSE
    /\ pc = "top"
    /\ i = 0
    /\ wake = -1
    /\ interrupted = FALSE
    /\ now = 0
    /\ pend = [s \in Sockets |-> 0]
    /\ closed = {}
    /\ asked = 0
    /\ acked = 0
    /\ due = [k \in Timers |-> -1]
    /\ fired = [k \in Timers |-> <<>>]

-----------------------------------------------------------------------------
(* loop()                                                                  *)

LoopTopIgnoringDirt ==
    /\ pc = "top"
    /\ pc' = IF should_quit_ THEN "exit"
             ELSE IF pollitems_ = <<>> THEN "del" ELSE "timers"
    /\ i' = Len(sockets_)
    /\ UNCHANGED <<reactorVars, pollitems_, revents, timerVars, should_quit_,
                   wake, interrupted, now, pend>>

\* while (!should_quit_), and whether the poll items must be rebuilt.
LoopTop ==
    /\ pc = "top"
    /\ pc' = IF should_quit_ THEN "exit"
             ELSE IF is_dirty_ THEN "del" ELSE "timers"
    /\ i' = Len(sockets_)
    /\ UNCHANGED <<reactorVars, pollitems_, revents, timerVars, should_quit_,
                   wake, interrupted, now, pend>>

DeleteWithoutFilling ==
    /\ sockets_' = SubSeq(sockets_, 1, Len(sockets_) - 1)
    /\ closed' = closed \cup {sockets_[i]}
    /\ pend' = [pend EXCEPT ![sockets_[i]] = 0]
    /\ del_sockets_' = del_sockets_ \ {sockets_[i]}
    /\ acked' = acked + 1

\* The socket at position i is deleted: the last one takes its place, and the
\* deletion callback runs.
Delete ==
    /\ sockets_' = SubSeq([sockets_ EXCEPT ![i] = sockets_[Len(sockets_)]],
                          1, Len(sockets_) - 1)
    /\ closed' = closed \cup {sockets_[i]}
    /\ pend' = [pend EXCEPT ![sockets_[i]] = 0]
    /\ del_sockets_' = del_sockets_ \ {sockets_[i]}
    /\ acked' = acked + 1

\* One iteration of process_del_sockets(), which goes down and stops above
\* the frontend's position, or as soon as nothing is left to delete.
ProcessDelSockets ==
    /\ pc = "del"
    /\ i > 1
    /\ del_sockets_ # {}
    /\ IF sockets_[i] \in del_sockets_
         THEN Delete
         ELSE UNCHANGED <<sockets_, closed, pend, del_sockets_, acked>>
    /\ i' = i - 1
    /\ UNCHANGED <<pollitems_, revents, timerVars, is_dirty_, should_quit_,
                   pc, wake, interrupted, now, asked>>

\* The rest of rebuild_poll_items().
RebuildPollItems ==
    /\ pc = "del"
    /\ i <= 1 \/ del_sockets_ = {}
    /\ del_sockets_' = {}
    /\ pollitems_' = sockets_
    /\ revents' = {}
    /\ is_dirty_' = FALSE
    /\ pc' = "timers"
    /\ UNCHANGED <<sockets_, closed, asked, acked, timerVars, should_quit_,
                   i, wake, interrupted, now, pend>>

Due(tm) == tm.at <= now

ProcessClosuresKeepingRun ==
    LET rest == {tm \in closure_run_map_ : ~Due(tm)} IN
    /\ pc = "timers"
    /\ fired' = [k \in Timers |->
                    IF \E tm \in closure_run_map_ \ rest : tm.id = k
                      THEN Append(fired[k], now) ELSE fired[k]]
    /\ wake' = IF rest = {} THEN -1
               ELSE CHOOSE t \in Times :
                      /\ \E tm \in rest : tm.at = t
                      /\ \A tm \in rest : tm.at >= t
    /\ pc' = "poll"
    /\ UNCHANGED <<reactorVars, interrupted, pollitems_, revents, should_quit_, i, now,
                   pend, due, closure_run_map_>>

ProcessClosuresNoTimeout ==
    LET rest == {tm \in closure_run_map_ : ~Due(tm)} IN
    /\ pc = "timers"
    /\ fired' = [k \in Timers |->
                    IF \E tm \in closure_run_map_ \ rest : tm.id = k
                      THEN Append(fired[k], now) ELSE fired[k]]
    /\ closure_run_map_' = rest
    /\ wake' = -1
    /\ pc' = "poll"
    /\ UNCHANGED <<reactorVars, interrupted, pollitems_, revents, should_quit_, i, now,
                   pend, due>>

\* process_closure_run_map(): run every timer up to upper_bound(now), erase
\* them, and poll until the first of the others.
ProcessClosures ==
    LET rest == {tm \in closure_run_map_ : ~Due(tm)} IN
    /\ pc = "timers"
    /\ fired' = [k \in Timers |->
                    IF \E tm \in closure_run_map_ \ rest : tm.id = k
                      THEN Append(fired[k], now) ELSE fired[k]]
    /\ closure_run_map_' = rest
    /\ wake' = IF rest = {} THEN -1
               ELSE CHOOSE t \in Times :
                      /\ \E tm \in rest : tm.at = t
                      /\ \A tm \in rest : tm.at >= t
    /\ pc' = "poll"
    /\ UNCHANGED <<reactorVars, interrupted, pollitems_, revents, should_quit_, i, now,
                   pend, due>>

Ready == {j \in DOMAIN pollitems_ : pend[pollitems_[j]] > 0}

PollKeepingRevents ==
    /\ pc = "poll"
    /\ Ready # {} \/ (wake # -1 /\ now >= wake)
    /\ revents' = IF Ready = {} THEN revents ELSE Ready
    /\ interrupted' = FALSE
    /\ i' = 1
    /\ pc' = "dispatch"
    /\ UNCHANGED <<reactorVars, pollitems_, timerVars, should_quit_, wake,
                   now, pend>>

\* zmq_poll() returns because a socket is readable or the time is over.
Poll ==
    /\ pc = "poll"
    /\ Ready # {} \/ (wake # -1 /\ now >= wake)
    /\ revents' = Ready
    /\ interrupted' = FALSE
    /\ i' = 1
    /\ pc' = "dispatch"
    /\ UNCHANGED <<reactorVars, pollitems_, timerVars, should_quit_, wake,
                   now, pend>>

\* zmq_poll() fails with EINTR: loop() goes on to dispatch with the revents of
\* the round before.
PollInterrupted ==
    /\ Interrupts
    /\ pc = "poll"
    /\ interrupted' = TRUE
    /\ i' = 1
    /\ pc' = "dispatch"
    /\ UNCHANGED <<reactorVars, pollitems_, revents, timerVars, should_quit_,
                   wake, now, pend>>

\* After the poll items have been gone through.
Dispatched ==
    /\ pc = "dispatch"
    /\ i > Len(pollitems_)
    /\ pc' = "top"
    /\ UNCHANGED <<reactorVars, pollitems_, revents, timerVars, should_quit_,
                   i, wake, interrupted, now, pend>>

\* The poll item at position i had no event.
NotReady ==
    /\ pc = "dispatch"
    /\ i <= Len(pollitems_)
    /\ i \notin revents
    /\ i' = i + 1
    /\ UNCHANGED <<reactorVars, pollitems_, revents, timerVars, should_quit_,
                   pc, wake, interrupted, now, pend>>

\* The callback at position i is about to receive one message from its own
\* socket; the receive blocks while there is none.
Receive(s) ==
    /\ pc = "dispatch"
    /\ i \in revents
    /\ sockets_[i] = s
    /\ pend[s] > 0
    /\ i' = i + 1
    /\ UNCHANGED <<pollitems_, revents, pc, wake, interrupted, now>>

\* handle_dealer_socket() or handle_router_socket(): not the reactor's state.
DispatchPeer(s) ==
    /\ s # Front
    /\ Receive(s)
    /\ pend' = [pend EXCEPT ![s] = @ - 1]
    /\ UNCHANGED <<reactorVars, timerVars, should_quit_>>

FrontReceive ==
    /\ Receive(Front)
    /\ pend' = [pend EXCEPT ![Front] = @ - 1]

\* kConnect or kBind: add_socket().
AddSocket(s) ==
    /\ FrontReceive
    /\ s \notin Elements(sockets_)
    /\ sockets_' = Append(sockets_, s)
    /\ closed' = closed \ {s}
    /\ is_dirty_' = TRUE
    /\ UNCHANGED <<del_sockets_, asked, acked, timerVars, should_quit_>>

\* kUnbind: del_socket().  The broker has dropped the socket from bind_map_,
\* so that nobody asks for the same one twice.
DelSocket(s) ==
    /\ FrontReceive
    /\ s \in Elements(sockets_) \ (del_sockets_ \cup {Front})
    /\ asked < MaxDels
    /\ del_sockets_' = del_sockets_ \cup {s}
    /\ asked' = asked + 1
    /\ is_dirty_' = TRUE
    /\ UNCHANGED <<sockets_, closed, acked, timerVars, should_quit_>>

\* kRequest with a deadline: run_closure_at().
RunClosureAt(t) ==
    /\ FrontReceive
    /\ \E k \in Timers :
         /\ due[k] = -1
         /\ \A l \in 1 .. k - 1 : due[l] # -1
         /\ due' = [due EXCEPT ![k] = t]
         /\ closure_run_map_' = closure_run_map_ \cup {[id |-> k, at |-> t]}
    /\ UNCHANGED <<reactorVars, fired, should_quit_>>

\* kQuit: set_should_quit().
SetShouldQuit ==
    /\ FrontReceive
    /\ should_quit_' = TRUE
    /\ UNCHANGED <<reactorVars, timerVars>>

\* The other commands leave the reactor alone.
OtherCommand ==
    /\ FrontReceive
    /\ UNCHANGED <<reactorVars, timerVars, should_quit_>>

-----------------------------------------------------------------------------
(* The environment                                                         *)

Arrive(s) ==
    /\ s \in Elements(sockets_)
    /\ pc # "exit"
    /\ pend[s] < MaxPending
    /\ pend' = [pend EXCEPT ![s] = @ + 1]
    /\ UNCHANGED <<reactorVars, pollitems_, revents, timerVars, should_quit_,
                   pc, i, wake, interrupted, now>>

Tick ==
    /\ pc # "exit"
    /\ now < MaxTime
    /\ now' = now + 1
    /\ UNCHANGED <<reactorVars, pollitems_, revents, timerVars, should_quit_,
                   pc, i, wake, interrupted, pend>>

Stopped == pc = "exit" /\ UNCHANGED vars

FrontCommand ==
    \/ \E s \in Peers : AddSocket(s) \/ DelSocket(s)
    \/ \E t \in Times : RunClosureAt(t)
    \/ SetShouldQuit
    \/ OtherCommand

LoopStep ==
    \/ LoopTop
    \/ ProcessDelSockets
    \/ RebuildPollItems
    \/ ProcessClosures
    \/ Poll
    \/ Dispatched
    \/ NotReady
    \/ \E s \in Peers : DispatchPeer(s)
    \/ FrontCommand

Next ==
    \/ LoopStep
    \/ PollInterrupted
    \/ \E s \in Sockets : Arrive(s)
    \/ Tick
    \/ Stopped

Spec == Init /\ [][Next]_vars

\* The broker thread runs, time passes, and signals do not interrupt every poll.
FairSpec == Spec /\ WF_vars(LoopStep) /\ WF_vars(Tick) /\ SF_vars(Poll)

-----------------------------------------------------------------------------
(* Safety                                                                  *)

\* Every variable has the type that reactor.hpp gives it.
TypeOK ==
    /\ sockets_ \in Seq(Sockets)
    /\ del_sockets_ \in SUBSET Peers
    /\ pollitems_ \in Seq(Sockets)
    /\ revents \in SUBSET (DOMAIN pollitems_)
    /\ closure_run_map_ \in SUBSET [id : Timers, at : Times]
    /\ is_dirty_ \in BOOLEAN /\ should_quit_ \in BOOLEAN
    /\ pc \in {"top", "del", "timers", "poll", "dispatch", "exit"}
    /\ i \in Nat
    /\ wake \in Times \cup {-1}
    /\ interrupted \in BOOLEAN /\ now \in Times
    /\ pend \in [Sockets -> 0 .. MaxPending]
    /\ closed \in SUBSET Peers
    /\ asked \in 0 .. MaxDels /\ acked \in Nat
    /\ due \in [Timers -> Times \cup {-1}]
    /\ fired \in [Timers -> Seq(Times)]

\* The i-th poll result selects the callback of its own socket, and that socket
\* exists: while results are being dispatched, sockets that callbacks add or ask
\* to delete do not shift it, a deletion leaves neither a deleted socket nor one
\* twice in sockets_, and the broker's own frontend keeps the first place.
Aligned ==
    /\ pc \in {"timers", "poll", "dispatch"} =>
          /\ Len(pollitems_) <= Len(sockets_)
          /\ \A j \in DOMAIN pollitems_ : pollitems_[j] = sockets_[j]
    /\ Elements(sockets_) \cap closed = {}
    /\ \A j, l \in DOMAIN sockets_ : sockets_[j] = sockets_[l] => j = l
    /\ sockets_ # <<>> /\ sockets_[1] = Front

\* broker_thread.cc, on unbind: "It will callback on deleted before next
\* zmq_poll()", and only once.
DeletedBeforePoll ==
    /\ acked <= asked
    /\ pc \in {"timers", "poll"} => acked = asked /\ del_sockets_ = {}

\* A timer runs once and not before its time, one that has not run is still
\* in the map, and the loop does not sleep past it.
TimersOnTime ==
    \A k \in Timers :
        /\ Len(fired[k]) <= 1
        /\ fired[k] # <<>> => fired[k][1] >= due[k]
        /\ (due[k] # -1 /\ fired[k] = <<>>) => [id |-> k, at |-> due[k]] \in closure_run_map_
        /\ (pc = "poll" /\ due[k] # -1 /\ fired[k] = <<>>) => wake \in 0 .. due[k]

\* The callback at position i waits for a message that is not there.
Blocked == pc = "dispatch" /\ i \in revents /\ pend[sockets_[i]] = 0

\* Unless a signal has interrupted the poll, a callback finds a message to read:
\* the broker thread, which serves every connection, never waits for one.
NoBlockingReceive == ~interrupted => ~Blocked

-----------------------------------------------------------------------------
(* Liveness                                                                *)

\* Every timer runs, unless the loop ends first.
TimersRun ==
    \A k \in Timers : (due[k] # -1) ~> (fired[k] # <<>> \/ pc = "exit")

\* Every timer runs, unless the loop ends first or an interrupted poll has left
\* it waiting for a message: signals alone do not make it forget a timer.
TimersRunUnlessBlocked ==
    \A k \in Timers :
        (due[k] # -1) ~> (fired[k] # <<>> \/ pc = "exit" \/ (interrupted /\ Blocked))

\* No socket starves: a message is received, unless the loop ends, waits after an
\* interrupted poll, or deletes the socket first.
MessagesReceived ==
    \A s \in Sockets : (pend[s] = MaxPending) ~>
        (pend[s] < MaxPending \/ pc = "exit" \/ (interrupted /\ Blocked))
=============================================================================
