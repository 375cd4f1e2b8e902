----------------------------- MODULE QueueFacts -----------------------------
(***************************************************************************)
(* What the proofs need to know about a family of queues: a function from  *)
(* owners to sequences of messages, each read and written at its ends.     *)
(***************************************************************************)
EXTENDS Integers, Sequences, TLAPS

\* r is q with the message m added at the end of queue k.
Pushed(q, r, K, k, m) ==
    /\ Len(q[k]) \in Nat
    /\ \A l \in K : \A i \in DOMAIN q[l] : i \in DOMAIN r[l] /\ r[l][i] = q[l][i]
    /\ DOMAIN q[k] = 1 .. Len(q[k])
    /\ Len(q[k]) + 1 \in DOMAIN r[k]
    /\ \A l \in K : \A i \in DOMAIN r[l] :
         \/ i \in DOMAIN q[l] /\ r[l][i] = q[l][i]
         \/ l = k /\ i = Len(q[k]) + 1 /\ i \notin DOMAIN q[l] /\ r[l][i] = m

\* r is q without the first message of queue k.
Popped(q, r, K, k) ==
    /\ 1 \in DOMAIN q[k]
    /\ Head(q[k]) = q[k][1]
    /\ \A l \in K : l # k => r[l] = q[l]
    /\ \A i \in DOMAIN r[k] :
         i \in Nat /\ i > 0 /\ i + 1 \in DOMAIN q[k] /\ r[k][i] = q[k][i + 1]
    /\ \A i \in DOMAIN q[k] :
         i \in Nat /\ (i # 1 => i - 1 \in DOMAIN r[k] /\ r[k][i - 1] = q[k][i])

\* The queues q with m added to queue k, and without the first of queue k.
With(q, k, m) == [q EXCEPT ![k] = Append(q[k], m)]
Without(q, k) == [q EXCEPT ![k] = Tail(q[k])]

\* An append adds one message at the end of one queue.
LEMMA Appended ==
    ASSUME NEW K, NEW S, NEW q \in [K -> Seq(S)], NEW k \in K, NEW m \in S
    PROVE  With(q, k, m) \in [K -> Seq(S)] /\ Pushed(q, With(q, k, m), K, k, m)
<1> DEFINE r == With(q, k, m)
<1>1. q[k] \in Seq(S) /\ Append(q[k], m) \in Seq(S)
  OBVIOUS
<1>2. r = [q EXCEPT ![k] = Append(q[k], m)]
  BY DEF With
<1> HIDE DEF r
<1>3. /\ r \in [K -> Seq(S)]
      /\ \A l \in K : l # k => r[l] = q[l]
      /\ r[k] = Append(q[k], m)
  BY <1>1, <1>2
<1>4. /\ Len(q[k]) \in Nat
      /\ DOMAIN q[k] = 1 .. Len(q[k])
      /\ DOMAIN Append(q[k], m) = 1 .. Len(q[k]) + 1
      /\ Append(q[k], m)[Len(q[k]) + 1] = m
      /\ \A i \in 1 .. Len(q[k]) : Append(q[k], m)[i] = q[k][i]
  BY <1>1
<1>5. ASSUME NEW l \in K, NEW i \in DOMAIN q[l]
      PROVE  i \in DOMAIN r[l] /\ r[l][i] = q[l][i]
  <2>1. CASE l = k
    BY <2>1, <1>3, <1>4
  <2>2. CASE l # k
    BY <2>2, <1>3
  <2> QED BY <2>1, <2>2
<1>6. ASSUME NEW l \in K, NEW i \in DOMAIN r[l]
      PROVE  \/ i \in DOMAIN q[l] /\ r[l][i] = q[l][i]
             \/ l = k /\ i = Len(q[k]) + 1 /\ i \notin DOMAIN q[l] /\ r[l][i] = m
  BY <1>3, <1>4
<1>7. Len(q[k]) + 1 \in DOMAIN r[k]
  BY <1>3, <1>4
<1>8. Pushed(q, r, K, k, m)
  BY <1>4, <1>5, <1>6, <1>7 DEF Pushed
<1> QED BY <1>3, <1>8 DEF r

\* A tail removes the first message of one queue and shifts the others.
LEMMA Removed ==
    ASSUME NEW K, NEW S, NEW q \in [K -> Seq(S)], NEW k \in K, q[k] # <<>>
    PROVE  /\ Without(q, k) \in [K -> Seq(S)]
           /\ Popped(q, Without(q, k), K, k)
           /\ Head(q[k]) \in S
<1> DEFINE r == Without(q, k)
<1>0. r = [q EXCEPT ![k] = Tail(q[k])]
  BY DEF Without
<1> HIDE DEF r
<1>1. /\ q[k] \in Seq(S) /\ Tail(q[k]) \in Seq(S)
      /\ Len(q[k]) \in Nat \ {0} /\ DOMAIN q[k] = 1 .. Len(q[k])
      /\ Head(q[k]) = q[k][1]
      /\ DOMAIN Tail(q[k]) = 1 .. Len(q[k]) - 1
      /\ \A i \in 1 .. Len(q[k]) - 1 : Tail(q[k])[i] = q[k][i + 1]
  OBVIOUS
<1>2. q[k][1] \in S
  BY <1>1
<1>4. /\ r \in [K -> Seq(S)]
      /\ \A l \in K : l # k => r[l] = q[l]
      /\ r[k] = Tail(q[k])
  BY <1>0, <1>1
<1>5. ASSUME NEW i \in DOMAIN r[k]
      PROVE  i \in Nat /\ i > 0 /\ i + 1 \in DOMAIN q[k] /\ r[k][i] = q[k][i + 1]
  BY <1>1, <1>4
<1>6. ASSUME NEW i \in DOMAIN q[k]
      PROVE  i \in Nat /\ (i # 1 => i - 1 \in DOMAIN r[k] /\ r[k][i - 1] = q[k][i])
  BY <1>1, <1>4
<1>7. Popped(q, r, K, k)
  BY <1>1, <1>4, <1>5, <1>6 DEF Popped
<1> QED BY <1>1, <1>2, <1>4, <1>7 DEF r

\* The added message is in the queue.
LEMMA PushedThere ==
    ASSUME NEW K, NEW k \in K, NEW q, NEW r, NEW m, Pushed(q, r, K, k, m)
    PROVE  \E i \in DOMAIN r[k] : r[k][i] = m
<1>1. Len(q[k]) + 1 \in DOMAIN r[k] /\ Len(q[k]) \in Nat /\ DOMAIN q[k] = 1 .. Len(q[k])
  BY DEF Pushed
<1>2. Len(q[k]) + 1 \notin DOMAIN q[k]
  BY <1>1
<1>3. r[k][Len(q[k]) + 1] = m
  BY <1>1, <1>2 DEF Pushed
<1> QED BY <1>1, <1>3

\* What is left in a queue was in it before.
LEMMA PoppedFrom ==
    ASSUME NEW K, NEW q, NEW r, NEW k \in K, Popped(q, r, K, k),
           NEW l \in K, NEW i \in DOMAIN r[l]
    PROVE  \E j \in DOMAIN q[l] : r[l][i] = q[l][j]
<1>1. CASE l = k
  BY <1>1 DEF Popped
<1>2. CASE l # k
  BY <1>2 DEF Popped
<1> QED BY <1>1, <1>2
=============================================================================
