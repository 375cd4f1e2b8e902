------------------------------ MODULE Closure -------------------------------
(***************************************************************************)
(* The closures of callback.hpp: new_callback() makes one that run()       *)
(* deletes, new_permanent_callback() one that its owner deletes, which the *)
(* callback may do while it runs.  The classes for 0 to 7 arguments, for   *)
(* functions and for methods, differ in what they pass on.                 *)
(*                                                                         *)
(* The callee is a step of its own, between the two halves of run().       *)
(***************************************************************************)
EXTENDS Naturals, Sequences

CONSTANTS
    MaxClosures,    \* bound on the closures made
    MaxPermRuns     \* bound on the runs of a permanent closure

Closures == 1 .. MaxClosures
Arities  == 0 .. 7

ASSUME ClosureAssumption == MaxClosures \in Nat /\ MaxPermRuns \in Nat

VARIABLES
    mem,      \* mem[k]: "none", "live" or "freed"
    obj,      \* obj[k]: the members of closure k
    runs,     \* runs[k]: how often run() was called
    pc,       \* pc[k]: "idle", or "called": between the halves of run()
    local,    \* local[k]: needs_delete
    passed,   \* passed[k]: the arguments of the last call
    deletes   \* deletes[k]: how often k was deleted

cvars == <<mem, obj, runs, pc, local, passed, deletes>>

NoMembers == [n |-> 0, self_deleting |-> FALSE, args |-> <<>>]

CInit ==
    /\ mem = [k \in Closures |-> "none"]
    /\ obj = [k \in Closures |-> NoMembers]
    /\ runs = [k \in Closures |-> 0]
    /\ pc = [k \in Closures |-> "idle"]
    /\ local = [k \in Closures |-> FALSE]
    /\ passed = [k \in Closures |-> <<>>]
    /\ deletes = [k \in Closures |-> 0]

\* What function_closure_N::run() and method_closure_N::run() pass on.
closure_0(a) == <<>>
closure_1(a) == <<a[1]>>
closure_2(a) == <<a[1], a[2]>>
closure_3(a) == <<a[1], a[2], a[3]>>
closure_4(a) == <<a[1], a[2], a[3], a[4]>>
closure_5(a) == <<a[1], a[2], a[3], a[4], a[5]>>
closure_6(a) == <<a[1], a[2], a[3], a[4], a[5], a[6]>>
closure_7(a) == <<a[1], a[2], a[3], a[4], a[5], a[6], a[7]>>

Pass(c) ==
    CASE c.n = 0 -> closure_0(c.args) [] c.n = 1 -> closure_1(c.args)
      [] c.n = 2 -> closure_2(c.args) [] c.n = 3 -> closure_3(c.args)
      [] c.n = 4 -> closure_4(c.args) [] c.n = 5 -> closure_5(c.args)
      [] c.n = 6 -> closure_6(c.args) [] c.n = 7 -> closure_7(c.args)

\* new_callback() and new_permanent_callback() with the arguments 1, ..., n
NewClosure(k, n, self_deleting) ==
    /\ mem[k] = "none"
    /\ mem' = [mem EXCEPT ![k] = "live"]
    /\ obj' = [obj EXCEPT ![k] = [n |-> n, self_deleting |-> self_deleting,
                                  args |-> [i \in 1 .. n |-> i]]]
    /\ UNCHANGED <<runs, pc, local, passed, deletes>>

\* run() up to the call of the function.  A one-shot closure is run once.
RunStart(k) ==
    /\ mem[k] = "live" /\ pc[k] = "idle"
    /\ runs[k] < IF obj[k].self_deleting THEN 1 ELSE MaxPermRuns
    /\ runs' = [runs EXCEPT ![k] = @ + 1]
    /\ local' = [local EXCEPT ![k] = obj[k].self_deleting]
    /\ passed' = [passed EXCEPT ![k] = Pass(obj[k])]
    /\ pc' = [pc EXCEPT ![k] = "called"]
    /\ UNCHANGED <<mem, obj, deletes>>

\* delete: the members are gone; what a later read finds is anything.
Free(k) ==
    /\ mem' = [mem EXCEPT ![k] = "freed"]
    /\ deletes' = [deletes EXCEPT ![k] = @ + 1]
    /\ \E b \in BOOLEAN : obj' = [obj EXCEPT ![k].self_deleting = b]

\* The owner of a permanent closure deletes it, in the callback or later.
OwnerDeletes(k) ==
    /\ mem[k] = "live" /\ ~obj[k].self_deleting
    /\ Free(k)
    /\ UNCHANGED <<runs, pc, local, passed>>

ReadMember(k) == obj[k].self_deleting

\* "read in case callback deletes"
NeedsDelete(k) == local[k]

\* run() after the call.
RunEnd(k) ==
    /\ pc[k] = "called"
    /\ pc' = [pc EXCEPT ![k] = "idle"]
    /\ IF NeedsDelete(k) THEN Free(k) ELSE UNCHANGED <<mem, deletes, obj>>
    /\ UNCHANGED <<runs, local, passed>>

CNext ==
    \E k \in Closures :
        \/ \E n \in Arities, b \in BOOLEAN : NewClosure(k, n, b)
        \/ RunStart(k) \/ OwnerDeletes(k) \/ RunEnd(k)

CSpec == CInit /\ [][CNext]_cvars

\* A closure is deleted at most once, a one-shot closure exactly when its run
\* is over, whoever deletes a permanent one meanwhile; each run passes the
\* bound arguments in their order.
ClosureLife ==
    \A k \in Closures :
        /\ deletes[k] <= 1
        /\ local[k] /\ pc[k] = "idle" => deletes[k] = 1
        /\ pc[k] = "called" /\ local[k] => mem[k] = "live"
        /\ runs[k] > 0 => passed[k] = obj[k].args
=============================================================================
