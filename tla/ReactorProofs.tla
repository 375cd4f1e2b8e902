---------------------------- MODULE ReactorProofs ----------------------------
(***************************************************************************)
(* Proofs about Reactor for any number of sockets, timers and messages:    *)
(* the loop dispatches to sockets that exist, deletes what it was asked to *)
(* delete before it polls again, runs a timer once and not early, and does *)
(* not wait for a message unless a signal has interrupted the poll.        *)
(***************************************************************************)
EXTENDS Reactor, FiniteSetTheorems, WellFoundedInduction, TLAPS

-----------------------------------------------------------------------------
(* The inductive invariant                                                 *)

\* Every socket is in sockets_ once, and is not a deleted one.
InPlace ==
    /\ Elements(sockets_) \cap closed = {}
    /\ \A j, l \in DOMAIN sockets_ : sockets_[j] = sockets_[l] => j = l
    /\ sockets_ # <<>> /\ sockets_[1] = Front

\* The poll items are the first of the sockets.
Prefix ==
    /\ Len(pollitems_) <= Len(sockets_)
    /\ \A j \in DOMAIN pollitems_ : pollitems_[j] = sockets_[j]

\* They are from the rebuild to the end of the dispatch, and after it unless
\* the sockets are dirty.
Polled ==
    pc \in {"timers", "poll", "dispatch"} \/ (pc = "top" /\ ~is_dirty_) => Prefix

\* What is to be deleted is among the sockets, only while they are dirty, and
\* below the index of process_del_sockets().
Cleaned ==
    /\ pc \in {"timers", "poll"} => ~is_dirty_
    /\ ~is_dirty_ => del_sockets_ = {}
    /\ del_sockets_ \subseteq Elements(sockets_)
    /\ pc = "del" =>
         /\ i <= Len(sockets_)
         /\ \A j \in DOMAIN sockets_ : j > i => sockets_[j] \notin del_sockets_

\* Every deletion asked for is to come or has been acknowledged.
Counted ==
    IsFiniteSet(del_sockets_) /\ acked + Cardinality(del_sockets_) = asked

\* The poll results that are still to be dispatched have a message to read.
Unread ==
    pc = "dispatch" /\ ~interrupted =>
        \A j \in revents : j >= i => pend[pollitems_[j]] > 0

\* A timer is set, then in the map with its time, then run; the loop does not
\* sleep past one that is in the map.
TimersKept ==
    /\ \A k \in Timers : due[k] = -1 => fired[k] = <<>>
    /\ \A k \in Timers : Len(fired[k]) <= 1
    /\ \A k \in Timers : fired[k] # <<>> => fired[k][1] >= due[k]
    /\ \A k \in Timers : due[k] # -1 /\ fired[k] = <<>> =>
         [id |-> k, at |-> due[k]] \in closure_run_map_
    /\ \A tm \in closure_run_map_ : due[tm.id] = tm.at /\ fired[tm.id] = <<>>
    /\ pc = "poll" => \A tm \in closure_run_map_ : wake \in 0 .. tm.at

RInv ==
    TypeOK /\ InPlace /\ Polled /\ Cleaned /\ Counted /\ Unread /\ TimersKept

-----------------------------------------------------------------------------
(* Numbers and sequences                                                   *)

\* A set of natural numbers has a least one.
LEMMA LeastNatural ==
    ASSUME NEW T, T \subseteq Nat, T # {}
    PROVE  \E x \in T : \A y \in T : x <= y
<1>1. PICK x \in T : \A y \in T : ~(<<y, x>> \in OpToRel(<, Nat))
  BY NatLessThanWellFounded, WFMin
<1>2. \A y \in T : ~(y < x)
  BY <1>1 DEF OpToRel
<1> QED BY <1>2

\* The element at position k is replaced by the last one, and the sequence is
\* cut by one.
LEMMA Replaced ==
    ASSUME NEW S, NEW s \in Seq(S), NEW n \in Nat, n = Len(s), NEW k \in 1 .. n,
           NEW r, r = SubSeq([s EXCEPT ![k] = s[n]], 1, n - 1)
    PROVE  /\ r \in Seq(S) /\ Len(r) = n - 1 /\ DOMAIN r = 1 .. n - 1
           /\ \A j \in 1 .. n - 1 : r[j] = IF j = k THEN s[n] ELSE s[j]
<1> DEFINE t == [s EXCEPT ![k] = s[n]]
<1>1. t \in Seq(S) /\ Len(t) = n /\ n \in 1 .. n
  OBVIOUS
<1>2. \A j \in 1 .. n : t[j] = IF j = k THEN s[n] ELSE s[j]
  OBVIOUS
<1> HIDE DEF t
<1>3. SubSeq(t, 1, n - 1) \in Seq(S) /\ Len(SubSeq(t, 1, n - 1)) = n - 1
  BY <1>1
<1>4. \A j \in 1 .. n - 1 : SubSeq(t, 1, n - 1)[j] = t[j]
  BY <1>1
<1>5. r = SubSeq(t, 1, n - 1)
  BY DEF t
<1> QED BY <1>2, <1>3, <1>4, <1>5

\* What is added at the end of a sequence leaves the rest in its place.
LEMMA Added ==
    ASSUME NEW S, NEW s \in Seq(S), NEW x \in S
    PROVE  /\ Append(s, x) \in Seq(S) /\ Len(Append(s, x)) = Len(s) + 1
           /\ DOMAIN s = 1 .. Len(s) /\ DOMAIN Append(s, x) = 1 .. Len(s) + 1
           /\ Len(s) \in Nat /\ Append(s, x)[Len(s) + 1] = x
           /\ \A j \in 1 .. Len(s) : Append(s, x)[j] = s[j]
OBVIOUS

-----------------------------------------------------------------------------
(* What steps do                                                           *)

\* One iteration of process_del_sockets() that deletes a socket.
LEMMA DeleteFacts ==
    ASSUME TypeOK, InPlace, Cleaned, ProcessDelSockets, sockets_[i] \in del_sockets_
    PROVE  /\ i \in 2 .. Len(sockets_) /\ Len(sockets_) \in Nat
           /\ DOMAIN sockets_ = 1 .. Len(sockets_)
           /\ sockets_[i] \in Peers
           /\ sockets_' \in Seq(Sockets) /\ Len(sockets_') = Len(sockets_) - 1
           /\ DOMAIN sockets_' = 1 .. Len(sockets_) - 1
           /\ \A j \in 1 .. Len(sockets_) - 1 :
                sockets_'[j] = IF j = i THEN sockets_[Len(sockets_)] ELSE sockets_[j]
           /\ closed' = closed \cup {sockets_[i]}
           /\ pend' = [pend EXCEPT ![sockets_[i]] = 0]
           /\ del_sockets_' = del_sockets_ \ {sockets_[i]}
           /\ acked' = acked + 1
<1>1. /\ sockets_' = SubSeq([sockets_ EXCEPT ![i] = sockets_[Len(sockets_)]],
                            1, Len(sockets_) - 1)
      /\ closed' = closed \cup {sockets_[i]}
      /\ pend' = [pend EXCEPT ![sockets_[i]] = 0]
      /\ del_sockets_' = del_sockets_ \ {sockets_[i]}
      /\ acked' = acked + 1 /\ i > 1 /\ pc = "del"
  BY DEF ProcessDelSockets, Delete
<1>2. /\ sockets_ \in Seq(Sockets) /\ i \in Nat /\ i <= Len(sockets_)
      /\ Len(sockets_) \in Nat /\ DOMAIN sockets_ = 1 .. Len(sockets_)
      /\ del_sockets_ \subseteq Peers
  BY <1>1 DEF TypeOK, Cleaned
<1>3. i \in 1 .. Len(sockets_)
  BY <1>1, <1>2
<1>4. /\ sockets_' \in Seq(Sockets) /\ Len(sockets_') = Len(sockets_) - 1
      /\ DOMAIN sockets_' = 1 .. Len(sockets_) - 1
      /\ \A j \in 1 .. Len(sockets_) - 1 :
           sockets_'[j] = IF j = i THEN sockets_[Len(sockets_)] ELSE sockets_[j]
  BY <1>1, <1>2, <1>3, Replaced
<1> QED BY <1>1, <1>2, <1>4

\* A callback receives a message from the socket of its poll item.
LEMMA ReceiveFacts ==
    ASSUME TypeOK, Polled, NEW s \in Sockets, Receive(s),
           pend' = [pend EXCEPT ![s] = @ - 1]
    PROVE  /\ pc = "dispatch" /\ i \in revents /\ i \in DOMAIN pollitems_
           /\ pollitems_[i] = s /\ Prefix
           /\ i' = i + 1 /\ i' \in Nat
           /\ pend' \in [Sockets -> 0 .. MaxPending]
           /\ \A z \in Sockets : z # s => pend'[z] = pend[z]
           /\ UNCHANGED <<pollitems_, revents, pc, wake, interrupted, now>>
<1>1. /\ pc = "dispatch" /\ i \in revents /\ sockets_[i] = s /\ pend[s] > 0
      /\ i' = i + 1 /\ UNCHANGED <<pollitems_, revents, pc, wake, interrupted, now>>
  BY DEF Receive
<1>2. /\ revents \subseteq DOMAIN pollitems_ /\ i \in Nat
      /\ pend \in [Sockets -> 0 .. MaxPending]
  BY DEF TypeOK
<1>3. Prefix /\ i \in DOMAIN pollitems_ /\ pollitems_[i] = s
  BY <1>1, <1>2 DEF Polled, Prefix
<1>4. pend[s] - 1 \in 0 .. MaxPending
  BY <1>1, <1>2, ReactorBounds
<1> QED BY <1>1, <1>2, <1>3, <1>4

\* A command that reaches the frontend.
LEMMA FrontFacts ==
    ASSUME TypeOK, Polled, FrontReceive
    PROVE  /\ pc = "dispatch" /\ i \in revents /\ i \in DOMAIN pollitems_
           /\ pollitems_[i] = Front /\ Prefix
           /\ i' = i + 1 /\ i' \in Nat
           /\ pend' \in [Sockets -> 0 .. MaxPending]
           /\ \A z \in Sockets : z # Front => pend'[z] = pend[z]
           /\ UNCHANGED <<pollitems_, revents, pc, wake, interrupted, now>>
<1>1. Front \in Sockets
  BY DEF Sockets
<1> QED BY <1>1, ReceiveFacts DEF FrontReceive

\* The timers that process_closure_run_map() runs, and when it wakes up.
LEMMA ClosureFacts ==
    ASSUME TypeOK, ProcessClosures,
           NEW rest, rest = {tm \in closure_run_map_ : ~Due(tm)}
    PROVE  /\ rest = {} => wake' = -1
           /\ rest # {} => wake' \in Times /\ \A tm \in rest : tm.at >= wake'
<1>1. closure_run_map_ \subseteq [id : Timers, at : Times] /\ rest \subseteq [id : Timers, at : Times]
  BY DEF TypeOK
<1> DEFINE least(t) == (\E tm \in rest : tm.at = t) /\ (\A tm \in rest : tm.at >= t)
<1>2. wake' = IF rest = {} THEN -1 ELSE CHOOSE t \in Times : least(t)
  BY DEF ProcessClosures
<1>3. ASSUME rest # {} PROVE \E t \in Times : least(t)
  <2> DEFINE T == {tm.at : tm \in rest}
  <2>1. T \subseteq Times /\ T # {}
    BY <1>1, <1>3
  <2>2. Times \subseteq Nat
    BY ReactorBounds DEF Times
  <2>3. PICK x \in T : \A y \in T : x <= y
    BY <2>1, <2>2, LeastNatural
  <2>4. x \in Times /\ x \in Nat
    BY <2>1, <2>2
  <2>5. \E tm \in rest : tm.at = x
    OBVIOUS
  <2>6. \A tm \in rest : tm.at \in T /\ tm.at \in Nat
    BY <2>1, <2>2
  <2>7. \A tm \in rest : tm.at >= x
    BY <2>3, <2>4, <2>6
  <2> QED BY <2>4, <2>5, <2>7
<1>4. ASSUME rest # {} PROVE wake' \in Times /\ least(wake')
  BY <1>2, <1>3, <1>4
<1> QED BY <1>2, <1>4

\* Every step keeps the types.
LEMMA NextTypeOK ==
    ASSUME TypeOK, InPlace, Polled, Cleaned, [Next]_vars
    PROVE  TypeOK'
<1> USE DEF reactorVars, timerVars
<1>0. /\ sockets_ \in Seq(Sockets)
      /\ del_sockets_ \in SUBSET Peers
      /\ pollitems_ \in Seq(Sockets)
      /\ revents \in SUBSET (DOMAIN pollitems_)
      /\ closure_run_map_ \in SUBSET [id : Timers, at : Times]
      /\ is_dirty_ \in BOOLEAN /\ should_quit_ \in BOOLEAN
      /\ pc \in {"top", "del", "timers", "poll", "dispatch", "exit"}
      /\ i \in Nat
      /\ wake \in Times \cup {-1}
      /\ interrupted \in BOOLEAN /\ now \in Times
      /\ pend \in [Sockets -> 0 .. MaxPending]
      /\ closed \in SUBSET Peers
      /\ asked \in 0 .. MaxDels /\ acked \in Nat
      /\ due \in [Timers -> Times \cup {-1}]
      /\ fired \in [Timers -> Seq(Times)]
  BY DEF TypeOK
<1>c. \A s \in Peers : s \in Sockets
  BY DEF Sockets
<1>1. CASE LoopTop
  <2>1. Len(sockets_) \in Nat
    BY <1>0
  <2> QED BY <1>0, <1>1, <2>1 DEF LoopTop, TypeOK
<1>2. CASE ProcessDelSockets
  <2>0. UNCHANGED <<pollitems_, revents, timerVars, is_dirty_, should_quit_,
                    pc, wake, interrupted, now, asked>>
    BY <1>2 DEF ProcessDelSockets
  <2>1. i' \in Nat
    BY <1>0, <1>2 DEF ProcessDelSockets
  <2>2. CASE sockets_[i] \in del_sockets_
    <3>1. /\ sockets_[i] \in Peers /\ sockets_' \in Seq(Sockets)
          /\ closed' = closed \cup {sockets_[i]}
          /\ pend' = [pend EXCEPT ![sockets_[i]] = 0]
          /\ del_sockets_' = del_sockets_ \ {sockets_[i]}
          /\ acked' = acked + 1
      BY <1>2, <2>2, DeleteFacts
    <3>2. pend' \in [Sockets -> 0 .. MaxPending]
      <4>1. 0 \in 0 .. MaxPending
        BY ReactorBounds
      <4> QED BY <1>0, <3>1, <4>1
    <3> QED BY <1>0, <2>0, <2>1, <3>1, <3>2 DEF TypeOK
  <2>3. CASE sockets_[i] \notin del_sockets_
    <3>1. UNCHANGED <<sockets_, closed, pend, del_sockets_, acked>>
      BY <1>2, <2>3 DEF ProcessDelSockets
    <3> QED BY <1>0, <2>0, <2>1, <3>1 DEF TypeOK
  <2> QED BY <2>2, <2>3
<1>3. CASE RebuildPollItems
  BY <1>0, <1>3 DEF RebuildPollItems, TypeOK
<1>4. CASE ProcessClosures
  <2> DEFINE rest == {tm \in closure_run_map_ : ~Due(tm)}
  <2>1. wake' \in Times \cup {-1}
    BY <1>4, ClosureFacts
  <2>2. rest \in SUBSET [id : Timers, at : Times] /\ closure_run_map_' = rest
    BY <1>0, <1>4 DEF ProcessClosures
  <2>3. fired' = [k \in Timers |->
                    IF \E tm \in closure_run_map_ \ rest : tm.id = k
                      THEN Append(fired[k], now) ELSE fired[k]]
    BY <1>4 DEF ProcessClosures
  <2>4. \A k \in Timers : Append(fired[k], now) \in Seq(Times)
    BY <1>0
  <2> HIDE DEF rest
  <2>5. fired' \in [Timers -> Seq(Times)]
    BY <1>0, <2>3, <2>4
  <2>6. /\ pc' = "poll"
        /\ UNCHANGED <<reactorVars, interrupted, pollitems_, revents, should_quit_, i, now,
                       pend, due>>
    BY <1>4 DEF ProcessClosures
  <2> QED BY <1>0, <2>1, <2>2, <2>5, <2>6 DEF TypeOK
<1>5. CASE Poll
  <2>1. revents' \subseteq DOMAIN pollitems_
    BY <1>5 DEF Poll, Ready
  <2> QED BY <1>0, <1>5, <2>1 DEF Poll, TypeOK
<1>6. CASE PollInterrupted
  BY <1>0, <1>6 DEF PollInterrupted, TypeOK
<1>7. CASE Dispatched
  BY <1>0, <1>7 DEF Dispatched, TypeOK
<1>8. CASE NotReady
  BY <1>0, <1>8 DEF NotReady, TypeOK
<1>9. ASSUME NEW s \in Peers, DispatchPeer(s) PROVE TypeOK'
  <2>1. /\ i' \in Nat /\ pend' \in [Sockets -> 0 .. MaxPending]
        /\ UNCHANGED <<pollitems_, revents, pc, wake, interrupted, now>>
    BY <1>9, <1>c, ReceiveFacts DEF DispatchPeer
  <2> QED BY <1>0, <1>9, <2>1 DEF DispatchPeer, TypeOK
<1>10. CASE FrontCommand
  <2>0. FrontReceive
    BY <1>10 DEF FrontCommand, AddSocket, DelSocket, RunClosureAt, SetShouldQuit, OtherCommand
  <2>1. /\ i' \in Nat /\ pend' \in [Sockets -> 0 .. MaxPending]
        /\ UNCHANGED <<pollitems_, revents, pc, wake, interrupted, now>>
    BY <2>0, FrontFacts
  <2>2. ASSUME NEW s \in Peers, AddSocket(s) PROVE TypeOK'
    <3>1. sockets_' \in Seq(Sockets)
      BY <1>0, <1>c, <2>2 DEF AddSocket
    <3> QED BY <1>0, <2>1, <2>2, <3>1 DEF AddSocket, TypeOK
  <2>3. ASSUME NEW s \in Peers, DelSocket(s) PROVE TypeOK'
    <3>1. asked' \in 0 .. MaxDels
      BY <1>0, <2>3, ReactorBounds DEF DelSocket
    <3> QED BY <1>0, <2>1, <2>3, <3>1 DEF DelSocket, TypeOK
  <2>4. ASSUME NEW t \in Times, RunClosureAt(t) PROVE TypeOK'
    <3>1. PICK k \in Timers :
             /\ due' = [due EXCEPT ![k] = t]
             /\ closure_run_map_' = closure_run_map_ \cup {[id |-> k, at |-> t]}
      BY <2>4 DEF RunClosureAt
    <3>2. /\ due' \in [Timers -> Times \cup {-1}]
          /\ closure_run_map_' \in SUBSET [id : Timers, at : Times]
      BY <1>0, <3>1
    <3> QED BY <1>0, <2>1, <2>4, <3>2 DEF RunClosureAt, TypeOK
  <2>5. CASE SetShouldQuit
    BY <1>0, <2>1, <2>5 DEF SetShouldQuit, TypeOK
  <2>6. CASE OtherCommand
    BY <1>0, <2>1, <2>6 DEF OtherCommand, TypeOK
  <2> QED BY <1>10, <2>2, <2>3, <2>4, <2>5, <2>6 DEF FrontCommand
<1>11. ASSUME NEW s \in Sockets, Arrive(s) PROVE TypeOK'
  <2>1. pend' \in [Sockets -> 0 .. MaxPending]
    BY <1>0, <1>11, ReactorBounds DEF Arrive
  <2> QED BY <1>0, <1>11, <2>1 DEF Arrive, TypeOK
<1>12. CASE Tick
  <2>1. now' \in Times
    BY <1>0, <1>12, ReactorBounds DEF Tick, Times
  <2> QED BY <1>0, <1>12, <2>1 DEF Tick, TypeOK
<1>13. CASE UNCHANGED vars
  BY <1>0, <1>13 DEF vars, TypeOK
<1> QED BY <1>1, <1>2, <1>3, <1>4, <1>5, <1>6, <1>7, <1>8, <1>9, <1>10, <1>11, <1>12, <1>13
        DEF Next, LoopStep, Stopped

-----------------------------------------------------------------------------
(* The sockets                                                             *)

\* Steps that leave the sockets and what is to be deleted alone.
SocketsLeft == UNCHANGED reactorVars

\* The steps that do not leave them alone, and those that do.
LEMMA SocketSteps ==
    ASSUME [Next]_vars
    PROVE  \/ SocketsLeft
           \/ ProcessDelSockets
           \/ RebuildPollItems
           \/ \E s \in Peers : AddSocket(s) \/ DelSocket(s)
<1> USE DEF SocketsLeft, reactorVars
<1>1. LoopTop \/ ProcessClosures \/ Poll \/ PollInterrupted \/ Dispatched \/ NotReady => SocketsLeft
  BY DEF LoopTop, ProcessClosures, Poll, PollInterrupted, Dispatched, NotReady
<1>2. (\E s \in Peers : DispatchPeer(s)) \/ (\E s \in Sockets : Arrive(s)) \/ Tick => SocketsLeft
  BY DEF DispatchPeer, Arrive, Tick
<1>3. (\E t \in Times : RunClosureAt(t)) \/ SetShouldQuit \/ OtherCommand => SocketsLeft
  BY DEF RunClosureAt, SetShouldQuit, OtherCommand
<1>4. UNCHANGED vars => SocketsLeft
  BY DEF vars
<1> QED BY <1>1, <1>2, <1>3, <1>4 DEF Next, LoopStep, FrontCommand, Stopped

\* Every step keeps the sockets apart, and apart from the deleted ones.
LEMMA NextInPlace ==
    ASSUME TypeOK, InPlace, Polled, Cleaned, [Next]_vars
    PROVE  InPlace'
<1>0. /\ sockets_ \in Seq(Sockets) /\ Len(sockets_) \in Nat
      /\ DOMAIN sockets_ = 1 .. Len(sockets_)
  BY DEF TypeOK
<1>1. CASE UNCHANGED <<sockets_, closed>>
  BY <1>1 DEF InPlace, Elements
<1>2. CASE ProcessDelSockets /\ sockets_[i] \in del_sockets_
  <2> DEFINE n == Len(sockets_)
  <2>1. /\ i \in 2 .. n /\ sockets_' \in Seq(Sockets) /\ Len(sockets_') = n - 1
        /\ DOMAIN sockets_' = 1 .. n - 1
        /\ \A j \in 1 .. n - 1 : sockets_'[j] = IF j = i THEN sockets_[n] ELSE sockets_[j]
        /\ closed' = closed \cup {sockets_[i]}
    BY <1>2, DeleteFacts
  <2>2. n \in Nat /\ DOMAIN sockets_ = 1 .. n
    BY <1>0
  <2> HIDE DEF n
  <2>3. \A j \in 1 .. n - 1 :
          \E l \in 1 .. n : l # i /\ sockets_'[j] = sockets_[l] /\ l = IF j = i THEN n ELSE j
    BY <2>1, <2>2
  <2>4. \A j, l \in DOMAIN sockets_' : sockets_'[j] = sockets_'[l] => j = l
    <3> SUFFICES ASSUME NEW j \in 1 .. n - 1, NEW l \in 1 .. n - 1, sockets_'[j] = sockets_'[l]
                 PROVE  j = l
      BY <2>1
    <3>1. (IF j = i THEN n ELSE j) \in 1 .. n /\ (IF l = i THEN n ELSE l) \in 1 .. n
      BY <2>2
    <3>2. sockets_[IF j = i THEN n ELSE j] = sockets_[IF l = i THEN n ELSE l]
      BY <2>1
    <3>3. (IF j = i THEN n ELSE j) = (IF l = i THEN n ELSE l)
      BY <2>2, <3>1, <3>2 DEF InPlace
    <3> QED BY <2>2, <3>3
  <2>5. Elements(sockets_') \cap closed' = {}
    <3> SUFFICES ASSUME NEW j \in 1 .. n - 1 PROVE sockets_'[j] \notin closed'
      BY <2>1 DEF Elements
    <3>1. PICK l \in 1 .. n : l # i /\ sockets_'[j] = sockets_[l]
      BY <2>3
    <3>2. sockets_[l] \notin closed
      BY <2>2, <3>1 DEF InPlace, Elements
    <3>3. sockets_[l] # sockets_[i]
      BY <2>1, <2>2, <3>1 DEF InPlace
    <3> QED BY <2>1, <3>1, <3>2, <3>3
  <2>6. sockets_' # <<>> /\ sockets_'[1] = Front
    <3>1. 1 \in 1 .. n - 1 /\ 1 # i
      BY <2>1, <2>2
    <3>2. sockets_'[1] = sockets_[1]
      BY <2>1, <3>1
    <3>3. sockets_' # <<>>
      BY <2>1, <3>1
    <3> QED BY <3>2, <3>3 DEF InPlace
  <2> QED BY <2>4, <2>5, <2>6 DEF InPlace, Elements
<1>3. ASSUME NEW s \in Peers, AddSocket(s) PROVE InPlace'
  <2> DEFINE n == Len(sockets_)
  <2>1. /\ sockets_' = Append(sockets_, s) /\ closed' = closed \ {s}
        /\ s \notin Elements(sockets_) /\ s \in Sockets
    BY <1>3 DEF AddSocket, Sockets
  <2>2. /\ DOMAIN sockets_' = 1 .. n + 1 /\ DOMAIN sockets_ = 1 .. n /\ n \in Nat
        /\ sockets_'[n + 1] = s /\ \A j \in 1 .. n : sockets_'[j] = sockets_[j]
        /\ sockets_' \in Seq(Sockets)
    BY <1>0, <2>1, Added
  <2>3. /\ n > 0 /\ sockets_[1] = Front
        /\ \A j, l \in 1 .. n : sockets_[j] = sockets_[l] => j = l
        /\ \A j \in 1 .. n : sockets_[j] # s /\ sockets_[j] \notin closed
    BY <1>0, <2>1 DEF InPlace, Elements
  <2> HIDE DEF n
  <2>4. \A j, l \in DOMAIN sockets_' : sockets_'[j] = sockets_'[l] => j = l
    <3> SUFFICES ASSUME NEW j \in 1 .. n + 1, NEW l \in 1 .. n + 1, sockets_'[j] = sockets_'[l]
                 PROVE  j = l
      BY <2>2
    <3>1. CASE j = n + 1 /\ l # n + 1
      BY <2>2, <2>3, <3>1
    <3>2. CASE l = n + 1 /\ j # n + 1
      BY <2>2, <2>3, <3>2
    <3>3. CASE j # n + 1 /\ l # n + 1
      BY <2>2, <2>3, <3>3
    <3> QED BY <3>1, <3>2, <3>3
  <2>5. Elements(sockets_') \cap closed' = {}
    <3> SUFFICES ASSUME NEW j \in 1 .. n + 1 PROVE sockets_'[j] \notin closed'
      BY <2>2 DEF Elements
    <3> QED BY <2>1, <2>2, <2>3
  <2>6. sockets_' # <<>> /\ sockets_'[1] = Front
    BY <2>2, <2>3
  <2> QED BY <2>4, <2>5, <2>6 DEF InPlace, Elements
<1>4. CASE ProcessDelSockets /\ sockets_[i] \notin del_sockets_
  BY <1>1, <1>4 DEF ProcessDelSockets
<1>5. CASE SocketsLeft \/ RebuildPollItems \/ \E s \in Peers : DelSocket(s)
  BY <1>1, <1>5 DEF SocketsLeft, reactorVars, RebuildPollItems, DelSocket
<1> QED BY <1>2, <1>3, <1>4, <1>5, SocketSteps

\* Nothing is left to delete when process_del_sockets() is done.
LEMMA NothingLeft ==
    ASSUME TypeOK, InPlace, Cleaned, RebuildPollItems
    PROVE  del_sockets_ = {}
<1>1. pc = "del" /\ (i <= 1 \/ del_sockets_ = {})
  BY DEF RebuildPollItems
<1>2. ASSUME i <= 1, NEW s \in del_sockets_ PROVE FALSE
  <2>1. PICK j \in DOMAIN sockets_ : sockets_[j] = s
    BY DEF Cleaned, Elements
  <2>2. j \in Nat \ {0} /\ i \in Nat
    BY DEF TypeOK
  <2>3. j <= i
    BY <1>1, <2>1, <2>2 DEF Cleaned
  <2>4. s = Front
    BY <1>2, <2>1, <2>2, <2>3 DEF InPlace
  <2> QED BY <2>4, FrontAssumption DEF TypeOK
<1> QED BY <1>1, <1>2

\* Every step keeps the poll items in front of the sockets.
LEMMA NextPolled ==
    ASSUME TypeOK, Polled, [Next]_vars
    PROVE  Polled'
<1> USE DEF reactorVars
<1>1. ASSUME UNCHANGED <<pollitems_, sockets_>>,
             pc' \in {"timers", "poll", "dispatch"} \/ (pc' = "top" /\ ~is_dirty_') =>
                pc \in {"timers", "poll", "dispatch"} \/ (pc = "top" /\ ~is_dirty_)
      PROVE  Polled'
  BY <1>1 DEF Polled, Prefix
<1>2. CASE LoopTop \/ ProcessClosures \/ Poll \/ PollInterrupted \/ Dispatched \/ NotReady
  BY <1>1, <1>2 DEF LoopTop, ProcessClosures, Poll, PollInterrupted, Dispatched, NotReady
<1>3. CASE ProcessDelSockets
  BY <1>3 DEF ProcessDelSockets, Polled
<1>4. CASE RebuildPollItems
  <2>1. sockets_ \in Seq(Sockets) /\ Len(sockets_) \in Nat
    BY DEF TypeOK
  <2> QED BY <1>4, <2>1 DEF RebuildPollItems, Polled, Prefix
<1>5. ASSUME NEW s \in Peers, DispatchPeer(s) PROVE Polled'
  BY <1>1, <1>5 DEF DispatchPeer, Receive
<1>6. CASE FrontCommand
  <2>0. FrontReceive
    BY <1>6 DEF FrontCommand, AddSocket, DelSocket, RunClosureAt, SetShouldQuit, OtherCommand
  <2>1. pc = "dispatch" /\ UNCHANGED <<pollitems_, pc>>
    BY <2>0, FrontFacts
  <2>2. ASSUME NEW s \in Peers, AddSocket(s) PROVE Polled'
    <3>1. sockets_' = Append(sockets_, s) /\ s \in Sockets /\ sockets_ \in Seq(Sockets)
          /\ pollitems_ \in Seq(Sockets)
      BY <2>2 DEF AddSocket, Sockets, TypeOK
    <3>2. /\ Len(sockets_') = Len(sockets_) + 1 /\ Len(sockets_) \in Nat
          /\ \A j \in 1 .. Len(sockets_) : sockets_'[j] = sockets_[j]
      BY <3>1, Added
    <3>3. Len(pollitems_) \in Nat /\ DOMAIN pollitems_ = 1 .. Len(pollitems_)
      BY <3>1
    <3>4. Prefix
      BY <2>1 DEF Polled
    <3>5. Len(pollitems_) <= Len(sockets_')
      BY <3>2, <3>3, <3>4 DEF Prefix
    <3>6. \A j \in DOMAIN pollitems_ : pollitems_[j] = sockets_'[j]
      BY <3>2, <3>3, <3>4 DEF Prefix
    <3> QED BY <2>1, <3>5, <3>6 DEF Polled, Prefix
  <2>3. CASE UNCHANGED sockets_
    BY <1>1, <2>1, <2>3
  <2> QED BY <1>6, <2>2, <2>3
          DEF FrontCommand, DelSocket, RunClosureAt, SetShouldQuit, OtherCommand
<1>7. CASE (\E s \in Sockets : Arrive(s)) \/ Tick \/ UNCHANGED vars
  BY <1>1, <1>7 DEF Arrive, Tick, vars
<1> QED BY <1>2, <1>3, <1>4, <1>5, <1>6, <1>7 DEF Next, LoopStep, Stopped

\* Where loop() can go while it leaves the sockets alone.
LEMMA LoopControl ==
    ASSUME TypeOK, Polled, [Next]_vars, SocketsLeft
    PROVE  /\ pc' \in {"timers", "poll"} => pc \in {"timers", "poll"} \/ ~is_dirty_ \/ pc = "del"
           /\ pc' = "del" =>
                \/ pc = "top" /\ i' = Len(sockets_)
                \/ pc = "del" /\ i' = i
                \/ ProcessDelSockets
           /\ pc = "del" /\ pc' = "timers" => RebuildPollItems
<1>1. CASE LoopTop
  BY <1>1 DEF LoopTop
<1>2. CASE ProcessClosures \/ Poll \/ PollInterrupted \/ Dispatched \/ NotReady
  BY <1>2 DEF ProcessClosures, Poll, PollInterrupted, Dispatched, NotReady
<1>3. CASE (\E s \in Peers : DispatchPeer(s)) \/ FrontCommand
  <2>1. pc = "dispatch" /\ pc' = "dispatch"
    BY <1>3 DEF DispatchPeer, FrontCommand, AddSocket, DelSocket, RunClosureAt, SetShouldQuit,
                OtherCommand, FrontReceive, Receive
  <2> QED BY <2>1
<1>4. CASE (\E s \in Sockets : Arrive(s)) \/ Tick \/ UNCHANGED vars
  BY <1>4 DEF Arrive, Tick, vars
<1>5. CASE ProcessDelSockets
  BY <1>5 DEF ProcessDelSockets
<1>6. CASE RebuildPollItems
  BY <1>6 DEF RebuildPollItems
<1> QED BY <1>1, <1>2, <1>3, <1>4, <1>5, <1>6 DEF Next, LoopStep, Stopped

\* Every step keeps what is to be deleted below the index that goes down.
LEMMA NextCleaned ==
    ASSUME TypeOK, InPlace, Polled, Cleaned, [Next]_vars
    PROVE  Cleaned'
<1>0. /\ sockets_ \in Seq(Sockets) /\ Len(sockets_) \in Nat /\ i \in Nat
      /\ DOMAIN sockets_ = 1 .. Len(sockets_) /\ del_sockets_ \subseteq Peers
  BY DEF TypeOK
<1>1. CASE ProcessDelSockets /\ sockets_[i] \in del_sockets_
  <2> DEFINE n == Len(sockets_)
  <2>1. /\ i \in 2 .. n /\ Len(sockets_') = n - 1
        /\ DOMAIN sockets_' = 1 .. n - 1
        /\ \A j \in 1 .. n - 1 : sockets_'[j] = IF j = i THEN sockets_[n] ELSE sockets_[j]
        /\ del_sockets_' = del_sockets_ \ {sockets_[i]}
    BY <1>1, DeleteFacts
  <2>2. pc = "del" /\ pc' = "del" /\ i' = i - 1 /\ UNCHANGED is_dirty_
    BY <1>1 DEF ProcessDelSockets
  <2>3. /\ n \in Nat /\ DOMAIN sockets_ = 1 .. n /\ i \in Nat
        /\ \A j \in 1 .. n : j > i => sockets_[j] \notin del_sockets_
    BY <1>0, <2>2 DEF Cleaned
  <2> HIDE DEF n
  <2>4. i' <= Len(sockets_')
    BY <2>1, <2>2, <2>3
  <2>5. ASSUME NEW j \in DOMAIN sockets_', j > i' PROVE sockets_'[j] \notin del_sockets_'
    <3>1. j \in 1 .. n - 1 /\ j \in Nat /\ j >= i
      BY <2>1, <2>2, <2>3, <2>5
    <3>2. CASE j = i
      <4>1. n > i /\ n \in 1 .. n
        BY <2>1, <2>3, <3>1, <3>2
      <4> QED BY <2>1, <2>3, <3>1, <3>2, <4>1
    <3>3. CASE j # i
      <4>1. j > i /\ j \in 1 .. n
        BY <2>3, <3>1, <3>3
      <4> QED BY <2>1, <2>3, <3>1, <3>3, <4>1
    <3> QED BY <3>2, <3>3
  <2>6. ASSUME NEW s \in del_sockets_' PROVE s \in Elements(sockets_')
    <3>1. s \in del_sockets_ /\ s # sockets_[i]
      BY <2>1
    <3>2. PICK l \in 1 .. n : sockets_[l] = s
      BY <2>3, <3>1 DEF Cleaned, Elements
    <3>3. l # i /\ l \in Nat /\ ~(l > i)
      BY <2>3, <3>1, <3>2
    <3>4. l \in 1 .. n - 1
      BY <2>1, <2>3, <3>2, <3>3
    <3>5. sockets_'[l] = s
      BY <2>1, <3>2, <3>3, <3>4
    <3> QED BY <2>1, <3>4, <3>5 DEF Elements
  <2>7. is_dirty_
    BY <1>1 DEF Cleaned
  <2> QED BY <2>2, <2>4, <2>5, <2>6, <2>7 DEF Cleaned, Elements
<1>2. CASE ProcessDelSockets /\ sockets_[i] \notin del_sockets_
  <2>1. /\ pc = "del" /\ pc' = "del" /\ i' = i - 1 /\ i > 1
        /\ UNCHANGED <<is_dirty_, sockets_, del_sockets_>>
    BY <1>2 DEF ProcessDelSockets
  <2>2. \A j \in DOMAIN sockets_ : j > i - 1 => sockets_[j] \notin del_sockets_
    <3> SUFFICES ASSUME NEW j \in 1 .. Len(sockets_), j > i - 1
                 PROVE  sockets_[j] \notin del_sockets_
      BY <1>0
    <3>1. j = i \/ j > i
      BY <1>0
    <3> QED BY <1>0, <1>2, <2>1, <3>1 DEF Cleaned
  <2>3. i - 1 <= Len(sockets_)
    BY <1>0, <2>1 DEF Cleaned
  <2> QED BY <2>1, <2>2, <2>3 DEF Cleaned, Elements
<1>3. CASE RebuildPollItems
  BY <1>3 DEF RebuildPollItems, Cleaned, Elements
<1>4. ASSUME NEW s \in Peers, AddSocket(s) PROVE Cleaned'
  <2>1. pc' = "dispatch"
    BY <1>4, FrontFacts DEF AddSocket
  <2>2. /\ is_dirty_' = TRUE /\ sockets_' = Append(sockets_, s) /\ UNCHANGED del_sockets_
        /\ s \in Sockets
    BY <1>4 DEF AddSocket, Sockets
  <2>3. /\ DOMAIN sockets_' = 1 .. Len(sockets_) + 1
        /\ \A j \in 1 .. Len(sockets_) : sockets_'[j] = sockets_[j]
    BY <1>0, <2>2, Added
  <2>4. \A j \in DOMAIN sockets_ : j \in DOMAIN sockets_' /\ sockets_'[j] = sockets_[j]
    BY <1>0, <2>3
  <2> QED BY <2>1, <2>2, <2>4 DEF Cleaned, Elements
<1>5. ASSUME NEW s \in Peers, DelSocket(s) PROVE Cleaned'
  <2>1. pc' = "dispatch"
    BY <1>5, FrontFacts DEF DelSocket
  <2>2. /\ is_dirty_' = TRUE /\ del_sockets_' = del_sockets_ \cup {s} /\ UNCHANGED sockets_
        /\ s \in Elements(sockets_)
    BY <1>5 DEF DelSocket
  <2> QED BY <2>1, <2>2 DEF Cleaned, Elements
<1>6. CASE SocketsLeft /\ ~ProcessDelSockets /\ ~RebuildPollItems
  <2>1. UNCHANGED <<sockets_, del_sockets_, is_dirty_>>
    BY <1>6 DEF SocketsLeft, reactorVars
  <2>2. pc' \in {"timers", "poll"} => ~is_dirty_
    <3>1. pc' = "poll" => pc # "del"
      BY <1>6 DEF Next, LoopStep, FrontCommand, Stopped, LoopTop, ProcessClosures, Poll,
                  PollInterrupted, Dispatched, NotReady, DispatchPeer, AddSocket, DelSocket,
                  RunClosureAt, SetShouldQuit, OtherCommand, FrontReceive, Receive, Arrive, Tick, vars
    <3> QED BY <1>6, <3>1, LoopControl DEF Cleaned
  <2>3. pc' = "del" =>
           \/ pc = "top" /\ i' = Len(sockets_)
           \/ pc = "del" /\ i' = i
    BY <1>6, LoopControl
  <2>4. ASSUME pc' = "del"
        PROVE  /\ i' <= Len(sockets_)
               /\ \A j \in DOMAIN sockets_ : j > i' => sockets_[j] \notin del_sockets_
    <3>1. CASE pc = "top" /\ i' = Len(sockets_)
      BY <1>0, <3>1
    <3>2. CASE pc = "del" /\ i' = i
      BY <3>2 DEF Cleaned
    <3> QED BY <2>3, <2>4, <3>1, <3>2
  <2> QED BY <2>1, <2>2, <2>4 DEF Cleaned, Elements
<1> QED BY <1>1, <1>2, <1>3, <1>4, <1>5, <1>6, SocketSteps

\* Every step keeps the count of deletions.
LEMMA NextCounted ==
    ASSUME TypeOK, InPlace, Cleaned, Counted, [Next]_vars
    PROVE  Counted'
<1>0. asked \in Nat /\ acked \in Nat /\ Cardinality(del_sockets_) \in Nat
  BY ReactorBounds, FS_CardinalityType DEF TypeOK, Counted
<1>1. CASE UNCHANGED <<del_sockets_, asked, acked>>
  BY <1>1 DEF Counted
<1>2. CASE ProcessDelSockets /\ sockets_[i] \in del_sockets_
  <2>1. del_sockets_' = del_sockets_ \ {sockets_[i]} /\ acked' = acked + 1 /\ asked' = asked
    BY <1>2, DeleteFacts DEF ProcessDelSockets
  <2>2. /\ IsFiniteSet(del_sockets_ \ {sockets_[i]})
        /\ Cardinality(del_sockets_ \ {sockets_[i]}) = Cardinality(del_sockets_) - 1
    BY <1>2, FS_RemoveElement DEF Counted
  <2> QED BY <1>0, <2>1, <2>2 DEF Counted
<1>3. CASE ProcessDelSockets /\ sockets_[i] \notin del_sockets_
  BY <1>1, <1>3 DEF ProcessDelSockets
<1>4. CASE RebuildPollItems
  BY <1>1, <1>4, NothingLeft DEF RebuildPollItems
<1>5. ASSUME NEW s \in Peers, DelSocket(s) PROVE Counted'
  <2>1. /\ del_sockets_' = del_sockets_ \cup {s} /\ asked' = asked + 1 /\ acked' = acked
        /\ s \notin del_sockets_
    BY <1>5 DEF DelSocket
  <2>2. /\ IsFiniteSet(del_sockets_ \cup {s})
        /\ Cardinality(del_sockets_ \cup {s}) = Cardinality(del_sockets_) + 1
    BY <2>1, FS_AddElement DEF Counted
  <2> QED BY <1>0, <2>1, <2>2 DEF Counted
<1>6. CASE SocketsLeft \/ \E s \in Peers : AddSocket(s)
  BY <1>1, <1>6 DEF SocketsLeft, reactorVars, AddSocket
<1> QED BY <1>2, <1>3, <1>4, <1>5, <1>6, SocketSteps

-----------------------------------------------------------------------------
(* Messages                                                                *)

\* Every step leaves a message for each poll result that is to be dispatched.
LEMMA NextUnread ==
    ASSUME TypeOK, InPlace, Polled, Unread, [Next]_vars
    PROVE  Unread'
<1> USE DEF reactorVars
<1>0. /\ pollitems_ \in Seq(Sockets) /\ i \in Nat /\ pend \in [Sockets -> 0 .. MaxPending]
      /\ revents \subseteq DOMAIN pollitems_
      /\ \A j \in DOMAIN pollitems_ : pollitems_[j] \in Sockets /\ j \in Nat
  BY DEF TypeOK
<1>1. ASSUME UNCHANGED <<pollitems_, revents, i, pend, interrupted>>,
             pc' = "dispatch" => pc = "dispatch"
      PROVE  Unread'
  BY <1>1 DEF Unread
<1>2. CASE LoopTop \/ ProcessDelSockets \/ RebuildPollItems \/ ProcessClosures \/ Dispatched
  BY <1>2 DEF LoopTop, ProcessDelSockets, RebuildPollItems, ProcessClosures, Dispatched, Unread
<1>3. CASE Poll
  BY <1>3 DEF Poll, Ready, Unread
<1>4. CASE PollInterrupted
  BY <1>4 DEF PollInterrupted, Unread
<1>5. CASE NotReady
  <2>1. \A j \in revents : j >= i + 1 => j >= i
    BY <1>0
  <2> QED BY <1>5, <2>1 DEF NotReady, Unread
<1>6. ASSUME NEW s \in Sockets, Receive(s), pend' = [pend EXCEPT ![s] = @ - 1] PROVE Unread'
  <2>1. /\ pc = "dispatch" /\ i \in DOMAIN pollitems_ /\ pollitems_[i] = s /\ Prefix
        /\ i' = i + 1 /\ \A z \in Sockets : z # s => pend'[z] = pend[z]
        /\ UNCHANGED <<pollitems_, revents, pc, wake, interrupted, now>>
    BY <1>6, ReceiveFacts
  <2>2. ASSUME ~interrupted, NEW j \in revents, j >= i + 1
        PROVE  pend'[pollitems_[j]] > 0
    <3>1. j \in DOMAIN pollitems_ /\ j \in Nat /\ j > i
      BY <1>0, <2>2
    <3>2. /\ DOMAIN pollitems_ = 1 .. Len(pollitems_) /\ Len(pollitems_) \in Nat
          /\ DOMAIN sockets_ = 1 .. Len(sockets_) /\ Len(sockets_) \in Nat
      BY DEF TypeOK
    <3>3. i \in DOMAIN sockets_ /\ j \in DOMAIN sockets_
      BY <2>1, <3>1, <3>2 DEF Prefix
    <3>4. pollitems_[j] # pollitems_[i]
      BY <1>0, <2>1, <3>1, <3>3 DEF Prefix, InPlace
    <3>5. pend[pollitems_[j]] > 0
      BY <2>1, <2>2, <3>1, <1>0 DEF Unread
    <3> QED BY <1>0, <2>1, <3>1, <3>4, <3>5
  <2> QED BY <2>1, <2>2 DEF Unread
<1>7. ASSUME NEW s \in Peers, DispatchPeer(s) PROVE Unread'
  BY <1>6, <1>7 DEF DispatchPeer, Sockets
<1>8. CASE FrontCommand
  <2>0. FrontReceive
    BY <1>8 DEF FrontCommand, AddSocket, DelSocket, RunClosureAt, SetShouldQuit, OtherCommand
  <2> QED BY <1>6, <2>0 DEF FrontReceive, Sockets
<1>9. ASSUME NEW s \in Sockets, Arrive(s) PROVE Unread'
  <2>1. /\ pend' = [pend EXCEPT ![s] = @ + 1]
        /\ UNCHANGED <<pollitems_, revents, pc, i, interrupted>>
    BY <1>9 DEF Arrive
  <2>2. \A z \in Sockets : pend[z] > 0 => pend'[z] > 0
    BY <1>0, <2>1
  <2> QED BY <1>0, <2>1, <2>2 DEF Unread
<1>10. CASE Tick \/ UNCHANGED vars
  BY <1>1, <1>10 DEF Tick, vars
<1> QED BY <1>2, <1>3, <1>4, <1>5, <1>7, <1>8, <1>9, <1>10 DEF Next, LoopStep, Stopped

-----------------------------------------------------------------------------
(* Timers                                                                  *)

\* Every step keeps a timer in the map until it has run.
LEMMA NextTimersKept ==
    ASSUME TypeOK, Polled, TimersKept, [Next]_vars
    PROVE  TimersKept'
<1> USE DEF reactorVars, timerVars
<1>0. /\ closure_run_map_ \subseteq [id : Timers, at : Times] /\ now \in Nat /\ Times \subseteq Nat
      /\ due \in [Timers -> Times \cup {-1}]
      /\ fired \in [Timers -> Seq(Times)] /\ now \in Times
  BY ReactorBounds DEF TypeOK, Times
<1>1. ASSUME UNCHANGED <<timerVars, wake>>, pc' = "poll" => pc = "poll"
      PROVE  TimersKept'
  BY <1>1 DEF TimersKept
<1>2. CASE LoopTop \/ ProcessDelSockets \/ RebuildPollItems \/ Poll \/ PollInterrupted
           \/ Dispatched \/ NotReady
  BY <1>1, <1>2 DEF LoopTop, ProcessDelSockets, RebuildPollItems, Poll, PollInterrupted,
                    Dispatched, NotReady
<1>3. CASE ProcessClosures
  <2> DEFINE rest == {tm \in closure_run_map_ : ~Due(tm)}
             run == closure_run_map_ \ rest
  <2>1. /\ rest = {} => wake' = -1
        /\ rest # {} => wake' \in Times /\ \A tm \in rest : tm.at >= wake'
    BY <1>3, ClosureFacts
  <2>2. /\ fired' = [k \in Timers |->
                      IF \E tm \in run : tm.id = k THEN Append(fired[k], now) ELSE fired[k]]
        /\ closure_run_map_' = rest /\ due' = due /\ pc' = "poll"
    BY <1>3 DEF ProcessClosures
  <2>3. /\ \A tm \in run : tm \in closure_run_map_ /\ tm \notin rest /\ tm.at <= now
        /\ \A tm \in closure_run_map_ : tm \in rest \/ tm \in run
        /\ rest \subseteq closure_run_map_
    BY DEF Due
  <2> HIDE DEF rest, run
  <2>4. \A tm \in rest : wake' \in 0 .. tm.at
    <3> SUFFICES ASSUME NEW tm \in rest PROVE wake' \in 0 .. tm.at
      OBVIOUS
    <3>1. wake' \in Nat /\ tm.at >= wake'
      BY <1>0, <2>1
    <3>2. tm.at \in Nat
      BY <1>0, <2>3
    <3> QED BY <3>1, <3>2
  <2>5. ASSUME NEW k \in Timers, \E tm \in run : tm.id = k
        PROVE  /\ fired[k] = <<>> /\ fired'[k] = <<now>> /\ due[k] \in Times /\ now >= due[k]
    <3>1. PICK tm \in run : tm.id = k
      BY <2>5
    <3>2. due[k] = tm.at /\ fired[k] = <<>> /\ tm.at \in Times /\ tm.at <= now
      BY <1>0, <2>3, <3>1 DEF TimersKept
    <3>3. fired'[k] = Append(fired[k], now)
      BY <2>2, <2>5
    <3>4. Append(<<>>, now) = <<now>>
      OBVIOUS
    <3> QED BY <1>0, <3>2, <3>3, <3>4
  <2>6. \A k \in Timers : ~(\E tm \in run : tm.id = k) => fired'[k] = fired[k]
    BY <2>2
  <2>7. <<now>> # <<>> /\ Len(<<now>>) = 1 /\ <<now>>[1] = now
    OBVIOUS
  <2>8. ASSUME NEW tm \in rest, NEW z \in run, z.id = tm.id PROVE FALSE
    <3>1. /\ tm \in [id : Timers, at : Times] /\ z \in [id : Timers, at : Times]
          /\ tm \in closure_run_map_ /\ z \in closure_run_map_ /\ z \notin rest
      BY <1>0, <2>3
    <3>2. tm.at = due[tm.id] /\ z.at = due[tm.id]
      BY <2>8, <3>1 DEF TimersKept
    <3>3. tm = z
      BY <2>8, <3>1, <3>2
    <3> QED BY <3>1, <3>3
  <2>9. ASSUME NEW k \in Timers
        PROVE  /\ due'[k] = -1 => fired'[k] = <<>>
               /\ Len(fired'[k]) <= 1
               /\ fired'[k] # <<>> => fired'[k][1] >= due'[k]
               /\ due'[k] # -1 /\ fired'[k] = <<>> =>
                    [id |-> k, at |-> due'[k]] \in closure_run_map_'
    <3>1. CASE \E tm \in run : tm.id = k
      BY <1>0, <2>2, <2>5, <2>7, <3>1
    <3>2. CASE ~(\E tm \in run : tm.id = k)
      <4>1. fired'[k] = fired[k] /\ due' = due
        BY <2>2, <2>6, <3>2
      <4>2. ASSUME due[k] # -1, fired[k] = <<>> PROVE [id |-> k, at |-> due[k]] \in rest
        <5>1. [id |-> k, at |-> due[k]] \in closure_run_map_
          BY <4>2 DEF TimersKept
        <5>2. [id |-> k, at |-> due[k]] \notin run
          BY <3>2
        <5> QED BY <2>3, <5>1, <5>2
      <4> QED BY <2>2, <4>1, <4>2 DEF TimersKept
    <3> QED BY <3>1, <3>2
  <2>10. \A tm \in rest : due[tm.id] = tm.at /\ fired'[tm.id] = <<>>
    BY <1>0, <2>3, <2>6, <2>8 DEF TimersKept
  <2> QED BY <2>2, <2>4, <2>9, <2>10 DEF TimersKept
<1>4. ASSUME NEW s \in Peers, DispatchPeer(s) PROVE TimersKept'
  BY <1>1, <1>4 DEF DispatchPeer, Receive
<1>5. CASE FrontCommand
  <2>0. FrontReceive
    BY <1>5 DEF FrontCommand, AddSocket, DelSocket, RunClosureAt, SetShouldQuit, OtherCommand
  <2>1. pc' = "dispatch" /\ UNCHANGED wake
    BY <2>0, FrontFacts
  <2>2. ASSUME NEW t \in Times, RunClosureAt(t) PROVE TimersKept'
    <3>1. PICK k \in Timers :
             /\ due[k] = -1 /\ due' = [due EXCEPT ![k] = t]
             /\ closure_run_map_' = closure_run_map_ \cup {[id |-> k, at |-> t]}
      BY <2>2 DEF RunClosureAt
    <3>2. fired' = fired
      BY <2>2 DEF RunClosureAt
    <3>3. /\ due'[k] = t /\ t # -1 /\ fired[k] = <<>>
          /\ \A l \in Timers : l # k => due'[l] = due[l]
      BY <1>0, <3>1 DEF TimersKept
    <3>4. \A tm \in closure_run_map_ : tm.id \in Timers /\ tm.id # k
      BY <1>0, <3>1 DEF TimersKept
    <3>5. \A tm \in closure_run_map_' : due'[tm.id] = tm.at /\ fired[tm.id] = <<>>
      BY <3>1, <3>3, <3>4 DEF TimersKept
    <3>6. \A l \in Timers : due'[l] # -1 /\ fired[l] = <<>> =>
             [id |-> l, at |-> due'[l]] \in closure_run_map_'
      BY <3>1, <3>3 DEF TimersKept
    <3>7. \A l \in Timers : /\ due'[l] = -1 => fired[l] = <<>>
                            /\ Len(fired[l]) <= 1
                            /\ fired[l] # <<>> => fired[l][1] >= due'[l]
      BY <3>3 DEF TimersKept
    <3> QED BY <2>1, <3>2, <3>5, <3>6, <3>7 DEF TimersKept
  <2>3. CASE UNCHANGED timerVars
    BY <1>1, <2>1, <2>3
  <2> QED BY <1>5, <2>2, <2>3
          DEF FrontCommand, AddSocket, DelSocket, SetShouldQuit, OtherCommand
<1>6. CASE (\E s \in Sockets : Arrive(s)) \/ Tick \/ UNCHANGED vars
  BY <1>1, <1>6 DEF Arrive, Tick, vars
<1> QED BY <1>2, <1>3, <1>4, <1>5, <1>6 DEF Next, LoopStep, Stopped

-----------------------------------------------------------------------------
(* The theorems                                                            *)

\* The invariant holds when the broker thread enters loop().
LEMMA InitRInv == Init => RInv
<1> SUFFICES ASSUME Init PROVE RInv
  OBVIOUS
<1>1. /\ <<Front>> \in Seq(Sockets) /\ <<Front>> # <<>> /\ <<Front>>[1] = Front
      /\ DOMAIN <<Front>> = 1 .. 1
  BY DEF Sockets
<1>2. TypeOK
  <2>1. 0 \in Times /\ 0 \in 0 .. MaxPending /\ 0 \in 0 .. MaxDels /\ -1 \in Times \cup {-1}
    BY ReactorBounds DEF Times
  <2>2. /\ pend \in [Sockets -> 0 .. MaxPending]
        /\ due \in [Timers -> Times \cup {-1}]
        /\ fired \in [Timers -> Seq(Times)]
    BY <2>1 DEF Init
  <2>3. /\ sockets_ \in Seq(Sockets) /\ pollitems_ \in Seq(Sockets)
        /\ revents \in SUBSET (DOMAIN pollitems_)
    BY <1>1 DEF Init
  <2> QED BY <2>1, <2>2, <2>3 DEF Init, TypeOK
<1>3. InPlace
  BY <1>1 DEF Init, InPlace, Elements
<1>4. Polled /\ Cleaned /\ Unread
  BY DEF Init, Polled, Cleaned, Unread
<1>5. Counted
  BY FS_EmptySet DEF Init, Counted
<1>6. TimersKept
  BY DEF Init, TimersKept
<1> QED BY <1>2, <1>3, <1>4, <1>5, <1>6 DEF RInv

\* The invariant of the event loop holds throughout.
THEOREM ReactorInvariance == Spec => []RInv
<1>1. Init => RInv
  BY InitRInv
<1>2. RInv /\ [Next]_vars => RInv'
  BY NextTypeOK, NextInPlace, NextPolled, NextCleaned, NextCounted, NextUnread, NextTimersKept
     DEF RInv
<1> QED BY <1>1, <1>2, PTL DEF Spec

\* Poll results are dispatched to sockets that exist, by the position that the
\* poll items and sockets_ share, for any number of sockets added and deleted.
THEOREM ResultsReachTheirSocket == Spec => []Aligned
<1>1. RInv => Aligned
  BY DEF RInv, Aligned, InPlace, Polled, Prefix
<1> QED BY <1>1, ReactorInvariance, PTL

\* What del_socket() asked for has been deleted, and its callback has run once,
\* before loop() polls again.
THEOREM DeletionsBeforePoll == Spec => []DeletedBeforePoll
<1>1. ASSUME RInv PROVE DeletedBeforePoll
  <2>1. /\ acked \in Nat /\ asked \in Nat /\ Cardinality(del_sockets_) \in Nat
        /\ acked + Cardinality(del_sockets_) = asked
    BY <1>1, ReactorBounds, FS_CardinalityType DEF RInv, TypeOK, Counted
  <2>2. pc \in {"timers", "poll"} => del_sockets_ = {}
    BY <1>1 DEF RInv, Cleaned
  <2>3. del_sockets_ = {} => Cardinality(del_sockets_) = 0
    BY FS_EmptySet
  <2> QED BY <2>1, <2>2, <2>3 DEF DeletedBeforePoll
<1> QED BY <1>1, ReactorInvariance, PTL

\* run_closure_at() runs a closure once and not before its time, and loop()
\* does not sleep past it, for any number of timers.
THEOREM TimersRunOnTime == Spec => []TimersOnTime
<1>1. ASSUME RInv PROVE TimersOnTime
  <2> SUFFICES ASSUME NEW k \in Timers
               PROVE  /\ Len(fired[k]) <= 1
                      /\ fired[k] # <<>> => fired[k][1] >= due[k]
                      /\ due[k] # -1 /\ fired[k] = <<>> =>
                           [id |-> k, at |-> due[k]] \in closure_run_map_
                      /\ pc = "poll" /\ due[k] # -1 /\ fired[k] = <<>> => wake \in 0 .. due[k]
    BY DEF TimersOnTime
  <2>1. ASSUME pc = "poll", [id |-> k, at |-> due[k]] \in closure_run_map_
        PROVE  wake \in 0 .. due[k]
    <3>1. wake \in 0 .. [id |-> k, at |-> due[k]].at
      BY <1>1, <2>1 DEF RInv, TimersKept
    <3> QED BY <3>1
  <2> QED BY <1>1, <2>1 DEF RInv, TimersKept
<1> QED BY <1>1, ReactorInvariance, PTL

\* The broker thread never waits in a callback for a message that is not
\* there, unless a signal has interrupted its zmq_poll().
THEOREM CallbacksFindMessages == Spec => []NoBlockingReceive
<1>1. ASSUME RInv PROVE NoBlockingReceive
  <2> SUFFICES ASSUME ~interrupted, pc = "dispatch", i \in revents, pend[sockets_[i]] = 0
               PROVE  FALSE
    BY DEF NoBlockingReceive, Blocked
  <2>1. i \in DOMAIN pollitems_ /\ i \in Nat
    BY <1>1 DEF RInv, TypeOK
  <2>2. pollitems_[i] = sockets_[i]
    BY <1>1, <2>1 DEF RInv, Polled, Prefix
  <2>3. pend[pollitems_[i]] > 0
    BY <1>1, <2>1 DEF RInv, Unread
  <2> QED BY <2>2, <2>3
<1> QED BY <1>1, ReactorInvariance, PTL
=============================================================================
