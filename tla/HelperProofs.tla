---------------------------- MODULE HelperProofs ----------------------------
(***************************************************************************)
(* Proofs about the library's algorithms, for inputs of any size: what the *)
(* writers of messages send is what the readers take, the wrappers of the  *)
(* Python binding bind arguments as the language does, the generated stubs *)
(* reach the methods they are named after, and the generated files fit     *)
(* together.                                                               *)
(***************************************************************************)
EXTENDS MCHelpers, SequenceTheorems, FiniteSetTheorems, TLAPS

-----------------------------------------------------------------------------
(* Framing                                                                 *)

\* Frames whose values are in V, and messages made of them: every frame but the
\* last has the flag.
Frames(V) == [size : Nat, val : V, more : BOOLEAN]
IsMessage(m, V) ==
    m \in Seq(Frames(V)) /\ m # <<>> /\ \A i \in 1 .. Len(m) : m[i].more <=> i < Len(m)

\* The iterator after k frames of the message m, which "then" follows in the stream.
At(m, k, then) ==
    [rest |-> SubSeq(m, k + 1, Len(m)) \o then, has_more |-> k < Len(m),
     got |-> [i \in 1 .. k |-> m[i].val], ok |-> TRUE]

\* The frames of a message.
LEMMA FrameOf ==
    ASSUME NEW V, NEW m \in Seq(Frames(V)), NEW i \in 1 .. Len(m)
    PROVE  m[i] \in Frames(V) /\ m[i].size \in Nat /\ m[i].val \in V /\ m[i].more \in BOOLEAN
<1>1. m[i] \in Frames(V)
  BY ElementOfSeq
<1> QED BY <1>1 DEF Frames

\* The elements of two sequences, one after the other.
LEMMA Joined ==
    ASSUME NEW S, NEW s \in Seq(S), NEW t \in Seq(S)
    PROVE  /\ s \o t \in Seq(S) /\ Len(s \o t) = Len(s) + Len(t)
           /\ \A i \in 1 .. Len(s) : (s \o t)[i] = s[i]
           /\ \A i \in 1 .. Len(t) : (s \o t)[Len(s) + i] = t[i]
<1>1. Len(s) \in Nat /\ Len(t) \in Nat
  OBVIOUS
<1>2. /\ s \o t \in Seq(S) /\ Len(s \o t) = Len(s) + Len(t)
      /\ \A i \in 1 .. Len(s) + Len(t) :
            (s \o t)[i] = IF i <= Len(s) THEN s[i] ELSE t[i - Len(s)]
  BY ConcatProperties
<1>3. ASSUME NEW i \in 1 .. Len(t)
      PROVE  (s \o t)[Len(s) + i] = t[i]
  <2>1. Len(s) + i \in 1 .. Len(s) + Len(t) /\ ~(Len(s) + i <= Len(s)) /\ Len(s) + i - Len(s) = i
    BY <1>1
  <2> QED BY <2>1, <1>2
<1>4. ASSUME NEW i \in 1 .. Len(s)
      PROVE  (s \o t)[i] = s[i]
  BY <1>1, <1>2
<1> QED BY <1>2, <1>3, <1>4

\* A sequence that is not empty is its head before its tail.
LEMMA Split ==
    ASSUME NEW S, NEW x \in S, NEW s \in Seq(S)
    PROVE  <<x>> \o s \in Seq(S) /\ <<x>> \o s # <<>> /\ Head(<<x>> \o s) = x /\ Tail(<<x>> \o s) = s
OBVIOUS

\* Concatenation after one element is associative.
LEMMA SplitBefore ==
    ASSUME NEW S, NEW x \in S, NEW s \in Seq(S), NEW t \in Seq(S)
    PROVE  (<<x>> \o s) \o t = <<x>> \o (s \o t)
BY <<x>> \in Seq(S), ConcatAssociative

\* The rest of a message, from its frame k + 1 on.
LEMMA RestOf ==
    ASSUME NEW S, NEW m \in Seq(S), NEW then \in Seq(S), NEW k \in 0 .. Len(m) - 1
    PROVE  LET rest == SubSeq(m, k + 1, Len(m)) \o then IN
           /\ rest \in Seq(S) /\ rest # <<>>
           /\ Head(rest) = m[k + 1]
           /\ Tail(rest) = SubSeq(m, k + 2, Len(m)) \o then
<1> DEFINE a == SubSeq(m, k + 1, Len(m))
           b == SubSeq(m, k + 2, Len(m))
<1>1. Len(m) \in Nat /\ k \in Nat /\ k + 1 \in 1 .. Len(m) /\ Len(m) \in k + 1 .. Len(m)
      /\ k + 1 + 1 = k + 2
  OBVIOUS
<1>2. a = <<m[k + 1]>> \o b
  BY <1>1, SubSeqRecursiveFirst
<1>3. m[k + 1] \in S /\ b \in Seq(S) 
  BY <1>1, ElementOfSeq, SubSeqProperties
<1> HIDE DEF a, b
<1>4. a \o then = <<m[k + 1]>> \o (b \o then)
  BY <1>2, <1>3, SplitBefore
<1>5. b \o then \in Seq(S)
  BY <1>3
<1>6. a \o then \in Seq(S) /\ a \o then # <<>> /\ Head(a \o then) = m[k + 1]
      /\ Tail(a \o then) = b \o then
  BY <1>2, <1>3, <1>4, <1>5, Split
<1> QED BY <1>6 DEF a, b

\* An assertion that holds changes nothing.
LEMMA KeptOk ==
    ASSUME NEW r, NEW h, NEW g
    PROVE  LET it == [rest |-> r, has_more |-> h, got |-> g, ok |-> TRUE] IN
           [it EXCEPT !.ok = TRUE] = it /\ it.ok = TRUE
<1> DEFINE yes == TRUE
           it  == [rest |-> r, has_more |-> h, got |-> g, ok |-> yes]
<1> HIDE DEF yes
<1>1. [it EXCEPT !.ok = yes] = it /\ it.ok = yes
  OBVIOUS
<1> QED BY <1>1 DEF yes

\* A reader that is not at the end of the message takes its next frame.
LEMMA NextAt ==
    ASSUME NEW V, NEW m, IsMessage(m, V), NEW then \in Seq(Frames(V)),
           NEW k \in 0 .. Len(m) - 1
    PROVE  /\ next(At(m, k, then)) = At(m, k + 1, then)
           /\ NextSize(At(m, k, then)) = m[k + 1].size
           /\ interpret(At(m, k, then), m[k + 1].size) = At(m, k + 1, then)
<1> DEFINE r == SubSeq(m, k + 1, Len(m)) \o then
           s == SubSeq(m, k + 2, Len(m)) \o then
<1>1. m \in Seq(Frames(V)) /\ Len(m) \in Nat /\ k \in Nat /\ k < Len(m) /\ k + 1 \in 1 .. Len(m)
  BY DEF IsMessage
<1>2. r # <<>> /\ Head(r) = m[k + 1] /\ Tail(r) = s
  BY <1>1, RestOf
<1>3. m[k + 1].more = (k + 1 < Len(m))
  BY <1>1, FrameOf DEF IsMessage
<1> DEFINE g == [i \in 1 .. k |-> m[i].val]
           h == [i \in 1 .. k + 1 |-> m[i].val]
<1>4. Append(g, m[k + 1].val) = h
  <2>1. \A i \in 1 .. k + 1 : m[i].val \in V
    BY <1>1, FrameOf
  <2>2. g \in Seq(V) /\ Len(g) = k
    BY <1>1, <2>1
  <2>3. h \in Seq(V) /\ Len(h) = k + 1
    BY <1>1, <2>1
  <2> QED BY <2>1, <2>2, <2>3, <1>1, AppendProperties, SeqEqual
<1>5. At(m, k, then) = [rest |-> r, has_more |-> TRUE, got |-> g, ok |-> TRUE]
  BY <1>1 DEF At
<1>6. k + 1 + 1 = k + 2
  BY <1>1
<1>7. At(m, k + 1, then) = [rest |-> s, has_more |-> k + 1 < Len(m), got |-> h, ok |-> TRUE]
  BY <1>6 DEF At
<1> HIDE DEF r, s, g, h
<1>8. next([rest |-> r, has_more |-> TRUE, got |-> g, ok |-> TRUE])
        = [rest |-> Tail(r), has_more |-> Head(r).more, got |-> Append(g, Head(r).val), ok |-> TRUE]
  BY <1>2 DEF next
<1>9. next(At(m, k, then)) = At(m, k + 1, then)
  BY <1>2, <1>3, <1>4, <1>5, <1>7, <1>8
<1>10. NextSize(At(m, k, then)) = m[k + 1].size
  BY <1>2, <1>5 DEF NextSize
<1>11. [At(m, k + 1, then) EXCEPT !.ok = TRUE] = At(m, k + 1, then)
  BY <1>7, KeptOk
<1>12. At(m, k + 1, then).ok = TRUE
  BY DEF At
<1>13. interpret(At(m, k, then), m[k + 1].size) = At(m, k + 1, then)
  BY <1>9, <1>10, <1>11, <1>12 DEF interpret
<1> QED BY <1>9, <1>10, <1>13

\* A reader starts before the first frame; assertions on "more" hold where the
\* message goes on, or ends.
LEMMA StartAt ==
    ASSUME NEW V, NEW m, IsMessage(m, V), NEW then \in Seq(Frames(V))
    PROVE  message_iterator(m \o then) = At(m, 0, then)
<1>1. m \in Seq(Frames(V)) /\ Len(m) \in Nat /\ 0 < Len(m)
  BY DEF IsMessage
<1>2. SubSeq(m, 1, Len(m)) = m
  BY <1>1, SubSeqFull
<1>3. [i \in 1 .. 0 |-> m[i].val] = <<>>
  OBVIOUS
<1>4. 0 + 1 = 1 /\ (0 < Len(m)) = TRUE
  BY <1>1
<1>5. At(m, 0, then) = [rest |-> SubSeq(m, 1, Len(m)) \o then, has_more |-> TRUE,
                       got |-> [i \in 1 .. 0 |-> m[i].val], ok |-> TRUE]
  BY <1>4 DEF At
<1> QED BY <1>2, <1>3, <1>5 DEF message_iterator

\* The fields of the iterator after k frames; no assertion has failed.
LEMMA FieldsAt ==
    ASSUME NEW m, NEW k, NEW then
    PROVE  /\ At(m, k, then).ok = TRUE
           /\ At(m, k, then).has_more <=> k < Len(m)
           /\ At(m, k, then).got = [i \in 1 .. k |-> m[i].val]
           /\ [At(m, k, then) EXCEPT !.ok = TRUE] = At(m, k, then)
<1> DEFINE r == SubSeq(m, k + 1, Len(m)) \o then
           g == [i \in 1 .. k |-> m[i].val]
           h == k < Len(m)
<1>1. At(m, k, then) = [rest |-> r, has_more |-> h, got |-> g, ok |-> TRUE]
  BY DEF At
<1> HIDE DEF r, g, h
<1>2. At(m, k, then).got = g /\ At(m, k, then).has_more = h
  BY <1>1
<1>3. [At(m, k, then) EXCEPT !.ok = TRUE] = At(m, k, then) /\ At(m, k, then).ok = TRUE
  BY <1>1, KeptOk
<1> QED BY <1>2, <1>3 DEF g, h

\* No assertion has failed after k frames.
LEMMA OkAt ==
    ASSUME NEW m, NEW k, NEW then
    PROVE  At(m, k, then).ok = TRUE
BY FieldsAt

\* There is more as long as frames of the message are left.
LEMMA MoreAt ==
    ASSUME NEW m, NEW k, NEW then
    PROVE  At(m, k, then).has_more = (k < Len(m))
BY DEF At

\* The iterator has got the values of the first k frames, in order.
LEMMA GotAt ==
    ASSUME NEW V, NEW m, IsMessage(m, V), NEW then, NEW k \in 0 .. Len(m)
    PROVE  LET got == At(m, k, then).got IN
           got \in Seq(V) /\ Len(got) = k /\ \A i \in 1 .. k : got[i] = m[i].val
<1> DEFINE g == [i \in 1 .. k |-> m[i].val]
<1>1. m \in Seq(Frames(V)) /\ Len(m) \in Nat /\ k \in Nat
  BY DEF IsMessage
<1>2. \A i \in 1 .. k : m[i].val \in V
  BY <1>1, FrameOf
<1>3. g \in Seq(V) /\ Len(g) = k /\ \A i \in 1 .. k : g[i] = m[i].val
  BY <1>1, <1>2
<1>4. At(m, k, then).got = g
  <2> DEFINE r == SubSeq(m, k + 1, Len(m)) \o then
             h == k < Len(m)
  <2>1. At(m, k, then) = [rest |-> r, has_more |-> h, got |-> g, ok |-> TRUE]
    BY DEF At
  <2> HIDE DEF r, g, h
  <2> QED BY <2>1
<1> HIDE DEF g
<1> QED BY <1>3, <1>4

\* The value it got last is that of frame k.
LEMMA LastAt ==
    ASSUME NEW V, NEW m, IsMessage(m, V), NEW then, NEW k \in 1 .. Len(m)
    PROVE  Last(At(m, k, then).got) = m[k].val
<1>1. k \in 0 .. Len(m) /\ k \in 1 .. k
  BY DEF IsMessage
<1> QED BY <1>1, GotAt DEF Last

\* The assertion that a frame is left holds before the end of the message.
LEMMA AssertMoreAt ==
    ASSUME NEW m, NEW k, NEW then, k < Len(m)
    PROVE  AssertMore(At(m, k, then)) = At(m, k, then)
<1>1. (At(m, k, then).ok /\ At(m, k, then).has_more) = TRUE
  BY FieldsAt
<1> QED BY <1>1, FieldsAt DEF AssertMore

\* The assertion that no frame is left holds at its end.
LEMMA AssertNoMoreAt ==
    ASSUME NEW m, NEW k, NEW then, ~(k < Len(m))
    PROVE  AssertNoMore(At(m, k, then)) = At(m, k, then)
<1>1. (At(m, k, then).ok /\ ~At(m, k, then).has_more) = TRUE
  BY FieldsAt
<1> QED BY <1>1, FieldsAt DEF AssertNoMore

\* The least element of a set of numbers, and the first place where a test holds.
LEMMA MinIs ==
    ASSUME NEW T, T \subseteq Nat, NEW x \in T, \A y \in T : x <= y
    PROVE  Min(T) = x
<1>1. Min(T) \in T /\ \A y \in T : Min(T) <= y
  BY DEF Min
<1>2. Min(T) \in Nat /\ x \in Nat /\ Min(T) <= x /\ x <= Min(T)
  BY <1>1
<1> QED BY <1>2

\* The first frame of a stream that has no flag.
EndOf(s) == SelectInSeq(s, LAMBDA f : ~f.more)

\* What is left of a message ends with the first frame without the flag.
LEMMA RestEnds ==
    ASSUME NEW V, NEW m, IsMessage(m, V), NEW then \in Seq(Frames(V)),
           NEW k \in 0 .. Len(m) - 1
    PROVE  LET rest == SubSeq(m, k + 1, Len(m)) \o then IN
           /\ EndOf(rest) = Len(m) - k
           /\ SubSeq(rest, Len(m) - k + 1, Len(rest)) = then
           /\ SubSeq(rest, 1, Len(m) - k) = SubSeq(m, k + 1, Len(m))
<1> DEFINE a == SubSeq(m, k + 1, Len(m))
           n == Len(m) - k
           rest == a \o then
           last == {i \in 1 .. Len(rest) : ~rest[i].more}
<1>1. m \in Seq(Frames(V)) /\ Len(m) \in Nat /\ k \in Nat /\ k < Len(m)
  BY DEF IsMessage
<1>2. /\ a \in Seq(Frames(V)) /\ Len(a) = n
      /\ \A i \in 1 .. n : a[i] = m[k + i]
  <2>1. \A i \in k + 1 .. Len(m) : m[i] \in Frames(V)
    BY <1>1, FrameOf
  <2>2. /\ a \in Seq(Frames(V))
        /\ Len(a) = IF k + 1 <= Len(m) THEN Len(m) - (k + 1) + 1 ELSE 0
        /\ \A i \in 1 .. Len(m) - (k + 1) + 1 : a[i] = m[k + 1 + i - 1]
    BY <1>1, <2>1, SubSeqProperties
  <2>3. Len(m) - (k + 1) + 1 = n /\ k + 1 <= Len(m)
    BY <1>1
  <2>4. \A i \in 1 .. n : k + 1 + i - 1 = k + i
    BY <1>1
  <2> QED BY <2>2, <2>3, <2>4
<1>3. n \in Nat /\ 1 <= n
  BY <1>1
<1>4. \A i \in 1 .. n : a[i].more <=> i < n
  <2> TAKE i \in 1 .. n
  <2>1. k + i \in 1 .. Len(m) /\ (k + i < Len(m) <=> i < n)
    BY <1>1, <1>3
  <2> QED BY <1>2, <2>1 DEF IsMessage
<1> HIDE DEF a, n
<1>5. /\ rest \in Seq(Frames(V)) /\ Len(rest) = n + Len(then)
      /\ \A i \in 1 .. n : rest[i] = a[i]
      /\ \A i \in 1 .. Len(then) : rest[n + i] = then[i]
  <2>0. a \in Seq(Frames(V)) /\ then \in Seq(Frames(V))
    BY <1>2
  <2>1. /\ rest \in Seq(Frames(V)) /\ Len(rest) = Len(a) + Len(then)
        /\ \A i \in 1 .. Len(a) : rest[i] = a[i]
        /\ \A i \in 1 .. Len(then) : rest[Len(a) + i] = then[i]
    BY ONLY <2>0, Joined
  <2> QED BY <2>1, <1>2
<1> HIDE DEF rest
<1>6. Len(then) \in Nat
  OBVIOUS
<1>7. n \in last /\ last \subseteq Nat
  BY <1>3, <1>4, <1>5, <1>6, SMTT(30)
<1>8. \A i \in last : n <= i
  <2> SUFFICES ASSUME NEW i \in last, i < n PROVE FALSE
    BY <1>3, <1>7
  <2>1. i \in 1 .. n
    BY <1>3, <1>7
  <2> QED BY <2>1, <1>4, <1>5
<1>9. Min(last) = n
  BY <1>7, <1>8, MinIs
<1>10. EndOf(rest) = n
  BY <1>7, <1>9 DEF SelectInSeq, EndOf
<1>11. SubSeq(rest, n + 1, Len(rest)) = then
  <2> DEFINE t == SubSeq(rest, n + 1, Len(rest))
  <2>1. \A i \in n + 1 .. Len(rest) : rest[i] \in Frames(V)
    BY <1>3, <1>5, <1>6, FrameOf
  <2>2. /\ t \in Seq(Frames(V))
        /\ Len(t) = IF n + 1 <= Len(rest) THEN Len(rest) - (n + 1) + 1 ELSE 0
        /\ \A i \in 1 .. Len(rest) - (n + 1) + 1 : t[i] = rest[n + 1 + i - 1]
    BY <2>1, <1>3, <1>5, <1>6, SubSeqProperties
  <2>3. Len(rest) - (n + 1) + 1 = Len(then) /\ (~(n + 1 <= Len(rest)) => Len(then) = 0)
    BY <1>3, <1>5, <1>6
  <2>4. \A i \in 1 .. Len(then) : n + 1 + i - 1 = n + i
    BY <1>3, <1>6
  <2>5. Len(t) = Len(then) /\ \A i \in 1 .. Len(then) : t[i] = then[i]
    BY <2>2, <2>3, <2>4, <1>5
  <2> HIDE DEF t
  <2>6. t = then
    BY <2>2, <2>5, SeqEqual
  <2> QED BY <2>6 DEF t
<1>12. SubSeq(rest, 1, n) = a
  <2> DEFINE t == SubSeq(rest, 1, n)
  <2>1. \A i \in 1 .. n : rest[i] \in Frames(V)
    BY <1>3, <1>5, <1>6, FrameOf
  <2>2. /\ t \in Seq(Frames(V)) /\ Len(t) = IF 1 <= n THEN n - 1 + 1 ELSE 0
        /\ \A i \in 1 .. n - 1 + 1 : t[i] = rest[1 + i - 1]
    BY <2>1, <1>3, SubSeqProperties
  <2>3. n - 1 + 1 = n /\ \A i \in 1 .. n : 1 + i - 1 = i
    BY <1>3
  <2>4. Len(t) = Len(a) /\ \A i \in 1 .. Len(t) : t[i] = a[i]
    BY <2>2, <2>3, <1>2, <1>3, <1>5
  <2> HIDE DEF t
  <2>5. t = a
    BY <2>2, <2>4, <1>2, SeqEqual
  <2> QED BY <2>5 DEF t
<1> QED BY <1>10, <1>11, <1>12 DEF rest, a, n

\* ~message_iterator() leaves the next message, and what is forwarded is the rest
\* of this one.
LEMMA DrainedAt ==
    ASSUME NEW V, NEW m, IsMessage(m, V), NEW then \in Seq(Frames(V)), NEW k \in 0 .. Len(m)
    PROVE  /\ Drained(At(m, k, then)) = then
           /\ k < Len(m) => forward_messages(At(m, k, then)) = SubSeq(m, k + 1, Len(m))
<1>1. m \in Seq(Frames(V)) /\ Len(m) \in Nat /\ k \in Nat /\ 0 < Len(m)
  BY DEF IsMessage
<1> DEFINE a == SubSeq(m, k + 1, Len(m))
           it == At(m, k, then)
<1>2. it.has_more = (k < Len(m)) /\ it.rest = a \o then
  BY DEF At
<1>3. CASE k < Len(m)
  <2>0. k \in 0 .. Len(m) - 1
    BY <1>1, <1>3
  <2>1. /\ EndOf(a \o then) = Len(m) - k
        /\ SubSeq(a \o then, Len(m) - k + 1, Len(a \o then)) = then
        /\ SubSeq(a \o then, 1, Len(m) - k) = a
    BY <2>0, RestEnds
  <2>2. Len(m) - k # 0
    BY <1>1, <1>3
  <2> HIDE DEF it, a
  <2>4. Drained(it) = then
    BY <1>2, <1>3, <2>1, <2>2 DEF Drained, EndOf
  <2>5. forward_messages(it) = a
    BY <1>2, <1>3, <2>1 DEF forward_messages, EndOf
  <2> QED BY <2>4, <2>5 DEF it, a
<1>4. CASE ~(k < Len(m))
  <2>1. k + 1 > Len(m)
    BY <1>1, <1>4
  <2>2. a = <<>>
    BY <1>1, <2>1, SubSeqEmpty
  <2>3. a \o then = then
    BY <2>2, ConcatEmptySeq
  <2> HIDE DEF it, a
  <2>4. Drained(it) = then
    BY <1>2, <1>4, <2>3 DEF Drained
  <2> QED BY <1>4, <2>4 DEF it
<1> QED BY <1>3, <1>4

\* The frames that every command starts with: the identity of the sender, an empty
\* one and the command.
LEMMA CommandRead ==
    ASSUME NEW V, NEW m, IsMessage(m, V), NEW then \in Seq(Frames(V)),
           Len(m) >= 3, m[2].size = 0, m[3].size = 1
    PROVE  interpret(interpret(next(message_iterator(m \o then)), 0), 1) = At(m, 3, then)
<1>1. Len(m) \in Nat
  BY DEF IsMessage
<1>2. 0 \in 0 .. Len(m) - 1 /\ 1 \in 0 .. Len(m) - 1 /\ 2 \in 0 .. Len(m) - 1
      /\ 0 + 1 = 1 /\ 1 + 1 = 2 /\ 2 + 1 = 3
  BY <1>1
<1>3. next(message_iterator(m \o then)) = At(m, 1, then)
  BY <1>2, StartAt, NextAt
<1>4. interpret(At(m, 1, then), 0) = At(m, 2, then)
  BY <1>2, NextAt
<1>5. interpret(At(m, 2, then), 1) = At(m, 3, then)
  BY <1>2, NextAt
<1> QED BY <1>3, <1>4, <1>5

\* read_connection_info() takes two frames, or three from a ROUTER connection.
LEMMA ConnectionRead ==
    ASSUME NEW V, NEW m, IsMessage(m, V), NEW then \in Seq(Frames(V)),
           Len(m) >= 5, m[4].size = 1, m[5].size = 8, m[4].val \in BOOLEAN,
           m[4].val => Len(m) >= 6
    PROVE  /\ m[4].val => read_connection_info(AssertMore(At(m, 3, then))) = At(m, 6, then)
           /\ ~m[4].val => read_connection_info(AssertMore(At(m, 3, then))) = At(m, 5, then)
<1>1. Len(m) \in Nat
  BY DEF IsMessage
<1>2. 3 \in 0 .. Len(m) - 1 /\ 4 \in 0 .. Len(m) - 1 /\ 3 + 1 = 4 /\ 4 + 1 = 5 /\ 5 + 1 = 6
      /\ 3 < Len(m) /\ 4 < Len(m)
  BY <1>1
<1>3. AssertMore(At(m, 3, then)) = At(m, 3, then)
  BY <1>2, AssertMoreAt
<1>4. interpret(At(m, 3, then), 1) = At(m, 4, then)
  BY <1>2, NextAt
<1>5. AssertMore(At(m, 4, then)) = At(m, 4, then) /\ interpret(At(m, 4, then), 8) = At(m, 5, then)
  BY <1>2, AssertMoreAt, NextAt
<1>6. At(m, 4, then).ok = TRUE /\ Last(At(m, 4, then).got) = m[4].val
  <2>1. 4 \in 1 .. Len(m)
    BY <1>1
  <2> QED BY ONLY IsMessage(m, V), <2>1, LastAt, OkAt
<1>7. CASE m[4].val
  <2>1. 5 \in 0 .. Len(m) - 1 /\ 5 < Len(m)
    BY <1>1, <1>7
  <2>2. next(AssertMore(At(m, 5, then))) = At(m, 6, then)
    BY <1>2, <2>1, AssertMoreAt, NextAt
  <2> QED BY <1>3, <1>4, <1>5, <1>6, <1>7, <2>2 DEF read_connection_info
<1>8. CASE ~m[4].val
  BY <1>3, <1>4, <1>5, <1>6, <1>8 DEF read_connection_info
<1> QED BY <1>7, <1>8

\* What handle_frontend_socket() and the handlers read of a command: all of it, or
\* what comes before the header and the payload.
FramesRead(m) ==
    LET info == IF m[4].val = TRUE THEN 6 ELSE 5 IN
    CASE m[3].val = "kRequest" -> info + 1
      [] m[3].val = "kReply"   -> info
      [] OTHER                 -> Len(m)

\* The shape of the commands.
Shaped(m) ==
    LET info == IF m[4].val = TRUE THEN 6 ELSE 5 IN
    /\ Len(m) >= 3 /\ m[2].size = 0 /\ m[3].size = 1
    /\ \/ m[3].val \in {"kConnect", "kBind", "kUnbind"} /\ Len(m) = 4
       \/ m[3].val = "kRunClosure" /\ Len(m) = 4 /\ m[4].size = 8
       \/ m[3].val = "kQuit" /\ Len(m) = 3
       \/ /\ m[4].size = 1 /\ m[5].size = 8 /\ m[4].val \in BOOLEAN
          /\ \/ m[3].val = "kRequest" /\ Len(m) = info + 3 /\ m[info + 1].size = 8
             \/ m[3].val = "kReply" /\ Len(m) = info + 2
             \/ m[3].val = "kRegisterSvc" /\ Len(m) = info + 2 /\ m[info + 2].size = 8

\* handle_frontend_socket() reads the frames of a command of the right shape, and none
\* of the next message.
LEMMA FrontendRead ==
    ASSUME NEW V, NEW m, IsMessage(m, V), Shaped(m), NEW then \in Seq(Frames(V))
    PROVE  handle_frontend_socket(m \o then) = At(m, FramesRead(m), then)
<1> DEFINE start == interpret(interpret(next(message_iterator(m \o then)), 0), 1)
           cmd == m[3].val
           info == IF m[4].val = TRUE THEN 6 ELSE 5
<1>1. Len(m) \in Nat /\ Len(m) >= 3
  BY DEF IsMessage, Shaped
<1>2. start = At(m, 3, then)
  BY CommandRead DEF Shaped
<1>3. start.ok = TRUE /\ start.got[3] = cmd
  <2>1. 3 \in 0 .. Len(m)
    BY <1>1
  <2>2. At(m, 3, then).got[3] = cmd
    BY <2>1, GotAt
  <2> QED BY <1>2, <2>2, OkAt
<1> HIDE DEF start
<1>4. (IF start.ok THEN start.got[3] ELSE "none") = cmd
  BY <1>3
<1>5. handle_frontend_socket(m \o then) =
        CASE cmd \in {"kConnect", "kBind", "kUnbind"} -> next(start)
          [] cmd = "kRunClosure"  -> interpret(start, 8)
          [] cmd = "kRequest"     -> interpret(AssertMore(read_connection_info(AssertMore(start))), 8)
          [] cmd = "kReply"       -> read_connection_info(AssertMore(start))
          [] cmd = "kRegisterSvc" ->
                AssertNoMore(interpret(AssertMore(next(AssertMore(
                    read_connection_info(AssertMore(start))))), 8))
          [] OTHER -> start
  BY <1>4 DEF handle_frontend_socket, start
<1>6. CASE cmd \in {"kConnect", "kBind", "kUnbind"}
  <2>1. Len(m) = 4 /\ FramesRead(m) = 4
    BY <1>6 DEF Shaped, FramesRead
  <2>2. 3 \in 0 .. Len(m) - 1 /\ 3 + 1 = 4
    BY <2>1
  <2>3. next(start) = At(m, 4, then)
    BY <1>2, <2>2, NextAt
  <2> QED BY <1>5, <1>6, <2>1, <2>3
<1>7. CASE cmd = "kRunClosure"
  <2>1. Len(m) = 4 /\ m[4].size = 8 /\ FramesRead(m) = 4
    BY <1>7 DEF Shaped, FramesRead
  <2>2. 3 \in 0 .. Len(m) - 1 /\ 3 + 1 = 4
    BY <2>1
  <2>3. interpret(start, 8) = At(m, 4, then)
    BY <1>2, <2>1, <2>2, NextAt, ZenonT(60)
  <2> QED BY <1>5, <1>7, <2>1, <2>3
<1>8. CASE cmd = "kQuit"
  <2>1. Len(m) = 3 /\ FramesRead(m) = 3
    BY <1>8 DEF Shaped, FramesRead
  <2> QED BY <1>2, <1>5, <1>8, <2>1
<1>9. CASE cmd \in {"kRequest", "kReply", "kRegisterSvc"}
  <2>1. m[4].size = 1 /\ m[5].size = 8 /\ m[4].val \in BOOLEAN /\ Len(m) >= info + 2
    BY <1>9, <1>1 DEF Shaped
  <2>2. info \in {5, 6} /\ (m[4].val <=> info = 6)
    BY <2>1
  <2>3. read_connection_info(AssertMore(start)) = At(m, info, then)
    BY <1>1, <1>2, <2>1, <2>2, ConnectionRead
  <2> DEFINE r == read_connection_info(AssertMore(start))
  <2> HIDE DEF r, info
  <2>4. info \in 0 .. Len(m) - 1 /\ info < Len(m) /\ info + 1 \in 0 .. Len(m) - 1 /\ info + 1 < Len(m)
        /\ info + 1 + 1 = info + 2
    BY <1>1, <2>1, <2>2
  <2>5. AssertMore(r) = At(m, info, then)
    BY <2>3, <2>4, AssertMoreAt DEF r
  <2>6. CASE cmd = "kRequest"
    <3>1. m[info + 1].size = 8 /\ FramesRead(m) = info + 1
      BY <2>6 DEF Shaped, FramesRead, info
    <3>2. interpret(AssertMore(r), 8) = At(m, info + 1, then)
      BY <2>4, <2>5, <3>1, NextAt
    <3> QED BY <1>5, <2>6, <3>1, <3>2 DEF r
  <2>7. CASE cmd = "kReply"
    <3>1. FramesRead(m) = info
      BY <2>7 DEF FramesRead, info
    <3> QED BY <1>5, <2>7, <2>3, <3>1
  <2>8. CASE cmd = "kRegisterSvc"
    <3>1. m[info + 2].size = 8 /\ Len(m) = info + 2 /\ FramesRead(m) = info + 2
      BY <2>8 DEF Shaped, FramesRead, info
    <3>2. next(AssertMore(r)) = At(m, info + 1, then)
      BY <2>4, <2>5, NextAt
    <3>3. AssertMore(next(AssertMore(r))) = At(m, info + 1, then)
      BY <2>4, <3>2, AssertMoreAt
    <3>4. interpret(AssertMore(next(AssertMore(r))), 8) = At(m, info + 2, then)
      BY <2>4, <3>1, <3>3, NextAt
    <3>5. ~(info + 2 < Len(m))
      BY <1>1, <3>1
    <3>6. AssertNoMore(interpret(AssertMore(next(AssertMore(r))), 8)) = At(m, info + 2, then)
      BY <3>4, <3>5, AssertNoMoreAt
    <3> QED BY <1>5, <2>8, <3>1, <3>6 DEF r
  <2> QED BY <1>9, <2>6, <2>7, <2>8
<1> QED BY <1>6, <1>7, <1>8, <1>9 DEF Shaped

-----------------------------------------------------------------------------
(* What is written                                                         *)

\* Values of frames: pointers and numbers P, and strings T, of any length.
CommandNames == {"kConnect", "kBind", "kUnbind", "kRunClosure", "kQuit", "kRequest", "kReply",
                 "kRegisterSvc"}
Values(P, T) == {""} \cup BOOLEAN \cup CommandNames \cup P \cup T
AreStrings(T) == \A t \in T : t.length \in Nat

\* All commands with such values.
AnyInfo(P, T) == [is_router : BOOLEAN, index : P, sender : T]
AnyCommand(P, T) ==
    [cmd : {"kConnect", "kBind", "kUnbind"}, endpoint : T] \cup
    [cmd : {"kRunClosure"}, ptr : P] \cup [cmd : {"kQuit"}] \cup
    [cmd : {"kRequest"}, info : AnyInfo(P, T), ptr : P, data : T \X T] \cup
    [cmd : {"kReply"}, info : AnyInfo(P, T), data : T \X T] \cup
    [cmd : {"kRegisterSvc"}, info : AnyInfo(P, T), name : T, ptr : P]

\* The fields of a frame.
LEMMA FrameFields ==
    ASSUME NEW V, NEW size \in Nat, NEW val \in V, NEW more \in BOOLEAN
    PROVE  /\ Frame(size, val, more) \in Frames(V)
           /\ Frame(size, val, more).size = size
           /\ Frame(size, val, more).val = val
           /\ Frame(size, val, more).more = more
BY DEF Frame, Frames

\* write_vector_to_socket() of a header and a payload
LEMMA VectorWritten ==
    ASSUME NEW h, NEW p
    PROVE  write_vector_to_socket(<<h, p>>)
           = <<Frame(h.length, h, SNDMORE), Frame(p.length, p, FALSE)>>
<1> DEFINE d == <<h, p>>
           w == write_vector_to_socket(d)
           F1 == Frame(h.length, h, TRUE)
           F2 == Frame(p.length, p, FALSE)
<1>1. DOMAIN d = 1 .. 2 /\ Len(d) = 2 /\ d[1] = h /\ d[2] = p
  OBVIOUS
<1>2. (1 < 2) = TRUE /\ (2 < 2) = FALSE
  OBVIOUS
<1>3. w = [i \in DOMAIN d |-> Frame(d[i].length, d[i], i < Len(d))]
  BY DEF write_vector_to_socket
<1> HIDE DEF d, w
<1>4. w[1] = Frame(d[1].length, d[1], 1 < Len(d)) /\ w[2] = Frame(d[2].length, d[2], 2 < Len(d))
  BY <1>1, <1>3
<1>5. w[1] = F1 /\ w[2] = F2
  BY <1>1, <1>2, <1>4, Zenon
<1> HIDE DEF F1, F2
<1>6. w = [i \in 1 .. 2 |-> w[i]] /\ \A i \in 1 .. 2 : w[i] \in {F1, F2}
  BY <1>1, <1>3, <1>5
<1>7. w \in Seq({F1, F2}) /\ Len(w) = 2
  BY <1>6
<1>8. w = <<F1, F2>>
  BY <1>5, <1>7
<1> QED BY <1>8 DEF w, F1, F2, d, SNDMORE

\* What CommandUnderstood needs to know of a written command m with these fields
\* and the frames "left" after them.
WrittenAs(m, V, cmd, fields, left) ==
    /\ IsMessage(m, V) /\ Shaped(m)
    /\ m[3].val = cmd
    /\ fields \in Seq(V) /\ FramesRead(m) = 3 + Len(fields)
    /\ \A i \in 1 .. Len(fields) : m[3 + i].val = fields[i]
    /\ Len(m) = FramesRead(m) + Len(left)
    /\ \A i \in 1 .. Len(left) : m[FramesRead(m) + i] = left[i]

\* The frames before the arguments of a command on a connection: identity, empty,
\* command and connection_info.
Preamble(pre, V, cmd, info) ==
    /\ pre \in Seq(Frames(V)) /\ Len(pre) = 3 + Len(Info(info))
    /\ \A i \in 1 .. Len(pre) : pre[i].more
    /\ pre[2].size = 0 /\ pre[3].size = 1 /\ pre[3].val = cmd
    /\ pre[4].size = 1 /\ pre[5].size = 8
    /\ \A i \in 1 .. Len(Info(info)) : pre[3 + i].val = Info(info)[i]

\* Identity, command and connection info are written as the broker expects them.
LEMMA PreambleWritten ==
    ASSUME NEW P, NEW T, AreStrings(T), NEW id \in T, NEW info \in AnyInfo(P, T),
           NEW cmd \in CommandNames
    PROVE  Preamble(<<Frame(id.length, id, SNDMORE)>> \o
                    (Command(cmd, SNDMORE) \o write_connection_info(info, SNDMORE)),
                    Values(P, T), cmd, info)
<1> DEFINE V == Values(P, T)
           a == Frame(id.length, id, SNDMORE)
           b == Frame(0, "", SNDMORE)
           c == Frame(1, cmd, SNDMORE)
           d == Frame(1, info.is_router, SNDMORE)
           e == Frame(8, info.index, SNDMORE)
           f == Frame(info.sender.length, info.sender, SNDMORE)
           pre == <<a>> \o (Command(cmd, SNDMORE) \o write_connection_info(info, SNDMORE))
<1>1. /\ a \in Frames(V) /\ b \in Frames(V) /\ c \in Frames(V) /\ d \in Frames(V) /\ e \in Frames(V)
      /\ f \in Frames(V)
  BY FrameFields DEF AreStrings, AnyInfo, Values, CommandNames, SNDMORE
<1>2. b.size = 0 /\ c.size = 1 /\ d.size = 1 /\ e.size = 8
  BY DEF Frame
<1>3. c.val = cmd /\ d.val = info.is_router /\ e.val = info.index /\ f.val = info.sender
  BY DEF Frame
<1>4. a.more /\ b.more /\ c.more /\ d.more /\ e.more /\ f.more
  BY FrameFields DEF AreStrings, AnyInfo, Values, CommandNames, SNDMORE
<1>5. info.is_router => pre = <<a>> \o ((<<b>> \o <<c>>) \o (<<d>> \o (<<e>> \o <<f>>)))
  BY DEF Command, write_connection_info, send_string, send_empty_message, send_char, send_uint64
<1>6. ~info.is_router => pre = <<a>> \o ((<<b>> \o <<c>>) \o (<<d>> \o <<e>>))
  BY DEF Command, write_connection_info, send_string, send_empty_message, send_char, send_uint64
<1> HIDE DEF a, b, c, d, e, f, pre, V
<1>7. CASE info.is_router
  <2>0. pre = <<a>> \o ((<<b>> \o <<c>>) \o (<<d>> \o (<<e>> \o <<f>>)))
    BY <1>5, <1>7
  <2>1. /\ pre \in Seq(Frames(V)) /\ Len(pre) = 6
        /\ pre[1] = a /\ pre[2] = b /\ pre[3] = c /\ pre[4] = d /\ pre[5] = e /\ pre[6] = f
    BY ONLY <1>1, <2>0
  <2>2. Info(info) = <<info.is_router, info.index, info.sender>>
    BY <1>7 DEF Info
  <2>3. /\ Len(Info(info)) = 3 /\ Info(info)[1] = info.is_router /\ Info(info)[2] = info.index
        /\ Info(info)[3] = info.sender
    BY <2>2
  <2>4. \A i \in 1 .. 6 : pre[i].more
    BY <2>1, <1>4
  <2>5. \A i \in 1 .. 3 : pre[3 + i].val = Info(info)[i]
    BY <2>1, <2>3, <1>3
  <2>6. Preamble(pre, V, cmd, info)
    BY <1>2, <1>3, <2>1, <2>3, <2>4, <2>5 DEF Preamble
  <2> QED BY <2>6 DEF pre, V, a
<1>8. CASE ~info.is_router
  <2>0. pre = <<a>> \o ((<<b>> \o <<c>>) \o (<<d>> \o <<e>>))
    BY <1>6, <1>8
  <2>1. /\ pre \in Seq(Frames(V)) /\ Len(pre) = 5
        /\ pre[1] = a /\ pre[2] = b /\ pre[3] = c /\ pre[4] = d /\ pre[5] = e
    BY ONLY <1>1, <2>0
  <2>2. Info(info) = <<info.is_router, info.index>>
    BY <1>8 DEF Info
  <2>3. Len(Info(info)) = 2 /\ Info(info)[1] = info.is_router /\ Info(info)[2] = info.index
    BY <2>2
  <2>4. \A i \in 1 .. 5 : pre[i].more
    BY <2>1, <1>4
  <2>5. \A i \in 1 .. 2 : pre[3 + i].val = Info(info)[i]
    BY <2>1, <2>3, <1>3
  <2>6. Preamble(pre, V, cmd, info)
    BY <1>2, <1>3, <2>1, <2>3, <2>4, <2>5 DEF Preamble
  <2> QED BY <2>6 DEF pre, V, a
<1> QED BY <1>7, <1>8

\* Each of the three is a sequence of frames.
LEMMA FramesWritten ==
    ASSUME NEW P, NEW T, AreStrings(T), NEW id \in T, NEW info \in AnyInfo(P, T),
           NEW cmd \in CommandNames
    PROVE  LET S == Frames(Values(P, T)) IN
           /\ <<Frame(id.length, id, SNDMORE)>> \in Seq(S)
           /\ Command(cmd, SNDMORE) \in Seq(S)
           /\ write_connection_info(info, SNDMORE) \in Seq(S)
<1> DEFINE V == Values(P, T)
           a == Frame(id.length, id, SNDMORE)
           b == Frame(0, "", SNDMORE)
           c == Frame(1, cmd, SNDMORE)
           d == Frame(1, info.is_router, SNDMORE)
           e == Frame(8, info.index, SNDMORE)
           f == Frame(info.sender.length, info.sender, SNDMORE)
<1>1. /\ a \in Frames(V) /\ b \in Frames(V) /\ c \in Frames(V) /\ d \in Frames(V) /\ e \in Frames(V)
      /\ f \in Frames(V)
  BY FrameFields DEF AreStrings, AnyInfo, Values, CommandNames, SNDMORE
<1>2. Command(cmd, SNDMORE) = <<b>> \o <<c>>
  BY DEF Command, send_empty_message, send_char
<1>3. \/ write_connection_info(info, SNDMORE) = <<d>> \o (<<e>> \o <<f>>)
      \/ write_connection_info(info, SNDMORE) = <<d>> \o <<e>>
  BY DEF write_connection_info, send_string, send_char, send_uint64
<1> HIDE DEF a, b, c, d, e, f, V
<1>4. <<a>> \in Seq(Frames(V)) /\ <<b>> \o <<c>> \in Seq(Frames(V))
      /\ <<d>> \o (<<e>> \o <<f>>) \in Seq(Frames(V)) /\ <<d>> \o <<e>> \in Seq(Frames(V))
  BY <1>1
<1> QED BY <1>2, <1>3, <1>4 DEF a, V

\* How many frames a connection info takes, with and without a router.
LEMMA InfoFrames ==
    ASSUME NEW P, NEW T, NEW info \in AnyInfo(P, T), NEW pre, NEW cmd,
           Preamble(pre, Values(P, T), cmd, info)
    PROVE  /\ pre[4].val = info.is_router
           /\ Len(pre) \in {5, 6} /\ (Len(pre) = 6 <=> info.is_router)
           /\ Len(Info(info)) = Len(pre) - 3
           /\ Info(info) \in Seq(Values(P, T))
<1> DEFINE W == Values(P, T)
<1>1. info.is_router \in BOOLEAN /\ info.is_router \in W /\ info.index \in W /\ info.sender \in W
  BY DEF AnyInfo, Values
<1> HIDE DEF W
<1>2. CASE info.is_router
  <2>1. Info(info) = <<info.is_router, info.index, info.sender>>
    BY <1>2 DEF Info
  <2>2. Len(Info(info)) = 3 /\ Info(info)[1] = info.is_router /\ 3 + 1 = 4
    BY <2>1
  <2>3. Info(info) \in Seq(W)
    BY <1>1, <2>1
  <2>4. pre[4].val = info.is_router /\ Len(pre) = 6
    BY <2>2 DEF Preamble
  <2> QED BY <1>2, <2>2, <2>3, <2>4 DEF W
<1>3. CASE ~info.is_router
  <2>1. Info(info) = <<info.is_router, info.index>>
    BY <1>3 DEF Info
  <2>2. Len(Info(info)) = 2 /\ Info(info)[1] = info.is_router /\ 3 + 1 = 4
    BY <2>1
  <2>3. Info(info) \in Seq(W)
    BY <1>1, <2>1
  <2>4. pre[4].val = info.is_router /\ Len(pre) = 5
    BY <2>2 DEF Preamble
  <2> QED BY <1>3, <2>2, <2>3, <2>4 DEF W
<1> QED BY <1>2, <1>3

\* Frames with the flag before a message make a message.
LEMMA Assembled ==
    ASSUME NEW V, NEW pre \in Seq(Frames(V)), \A i \in 1 .. Len(pre) : pre[i].more,
           NEW t, IsMessage(t, V)
    PROVE  /\ IsMessage(pre \o t, V) /\ Len(pre \o t) = Len(pre) + Len(t)
           /\ \A i \in 1 .. Len(pre) : (pre \o t)[i] = pre[i]
           /\ \A i \in 1 .. Len(t) : (pre \o t)[Len(pre) + i] = t[i]
<1> DEFINE m == pre \o t
<1>1. t \in Seq(Frames(V)) /\ Len(t) \in Nat /\ Len(pre) \in Nat /\ Len(t) # 0
  BY DEF IsMessage
<1>2. /\ m \in Seq(Frames(V)) /\ Len(m) = Len(pre) + Len(t)
      /\ \A i \in 1 .. Len(pre) : m[i] = pre[i]
      /\ \A i \in 1 .. Len(t) : m[Len(pre) + i] = t[i]
  BY <1>1, Joined
<1> HIDE DEF m
<1>3. ASSUME NEW i \in 1 .. Len(m) PROVE m[i].more <=> i < Len(m)
  <2>1. CASE i <= Len(pre)
    <3>1. i \in 1 .. Len(pre) /\ i < Len(m)
      BY <1>1, <1>2, <2>1
    <3> QED BY <1>2, <3>1
  <2>2. CASE ~(i <= Len(pre))
    <3> DEFINE j == i - Len(pre)
    <3>1. j \in 1 .. Len(t) /\ Len(pre) + j = i /\ (i < Len(m) <=> j < Len(t))
      BY <1>1, <1>2, <2>2
    <3>2. t[j].more <=> j < Len(t)
      BY <3>1 DEF IsMessage
    <3>3. m[i] = t[j]
      BY <1>2, <3>1
    <3> QED BY <3>1, <3>2, <3>3
  <2> QED BY <2>1, <2>2
<1>4. m # <<>>
  BY <1>1, <1>2
<1>5. IsMessage(m, V)
  BY <1>2, <1>3, <1>4 DEF IsMessage
<1> QED BY <1>2, <1>5 DEF m

\* Concatenation of four sequences, grouped in another way.
LEMMA Regroup ==
    ASSUME NEW S, NEW a \in Seq(S), NEW r \in Seq(S), NEW s \in Seq(S), NEW u \in Seq(S)
    PROVE  a \o ((r \o s) \o u) = (a \o r) \o (s \o u)
<1>1. (r \o s) \o u = r \o (s \o u)
  BY ONLY r \in Seq(S), s \in Seq(S), u \in Seq(S), ConcatAssociative, SMTT(60)
<1> DEFINE v == s \o u
<1>2. v \in Seq(S)
  OBVIOUS
<1> HIDE DEF v
<1>3. (a \o r) \o v = a \o (r \o v)
  BY ONLY <1>2, a \in Seq(S), r \in Seq(S), ConcatAssociative, SMTT(60)
<1> QED BY <1>1, <1>3 DEF v

\* Three frames.
LEMMA ThreeFrames ==
    ASSUME NEW S, NEW g \in S, NEW h \in S, NEW k \in S
    PROVE  <<g>> \o <<h, k>> = <<g, h, k>>
<1> DEFINE s == <<g>> \o <<h, k>>
<1>1. s \in Seq(S) /\ Len(s) = 3 /\ s[1] = g /\ s[2] = h /\ s[3] = k
  OBVIOUS
<1> HIDE DEF s
<1>2. s = <<g, h, k>>
  BY <1>1
<1> QED BY <1>2 DEF s

\* A command on a connection: the preamble and a message t, whose first n frames
\* are arguments, and the others are forwarded.
Arguments(cmd) == CASE cmd = "kRequest" -> 1 [] cmd = "kReply" -> 0 [] cmd = "kRegisterSvc" -> 2

Carries(t, V, cmd, info, fields, left) ==
    LET n == Arguments(cmd) IN
    /\ cmd = "kRequest" => t[1].size = 8
    /\ cmd = "kRegisterSvc" => t[2].size = 8
    /\ Len(left) = IF cmd = "kRegisterSvc" THEN 0 ELSE 2
    /\ Len(t) = n + Len(left)
    /\ \A i \in 1 .. Len(left) : t[n + i] = left[i]
    /\ fields \in Seq(V) /\ Len(fields) = Len(Info(info)) + n
    /\ \A i \in 1 .. Len(Info(info)) : fields[i] = Info(info)[i]
    /\ \A i \in 1 .. n : fields[Len(Info(info)) + i] = t[i].val

\* A preamble and the frames that carry the arguments are a whole command.
LEMMA CommandAssembled ==
    ASSUME NEW P, NEW T, NEW info \in AnyInfo(P, T), NEW pre, NEW t, NEW left, NEW fields,
           NEW cmd \in {"kRequest", "kReply", "kRegisterSvc"},
           Preamble(pre, Values(P, T), cmd, info), IsMessage(t, Values(P, T)),
           Carries(t, Values(P, T), cmd, info, fields, left)
    PROVE  WrittenAs(pre \o t, Values(P, T), cmd, fields, left)
<1> DEFINE V == Values(P, T)
           m == pre \o t
           l == Len(pre)
           n == Arguments(cmd)
<1> HIDE DEF V, n
<1>1. n \in 0 .. 2 /\ (cmd = "kRequest" => n = 1) /\ (cmd = "kReply" => n = 0)
      /\ (cmd = "kRegisterSvc" => n = 2)
  BY DEF Arguments, n
<1>0. Len(left) = (IF cmd = "kRegisterSvc" THEN 0 ELSE 2) /\ Len(t) = n + Len(left)
      /\ Len(fields) = Len(Info(info)) + n
  BY DEF Carries, n
<1>2. pre \in Seq(Frames(V)) /\ \A i \in 1 .. l : pre[i].more
  BY DEF Preamble, V
<1>3. /\ IsMessage(m, V) /\ Len(m) = l + Len(t)
      /\ \A i \in 1 .. l : m[i] = pre[i]
      /\ \A i \in 1 .. Len(t) : m[l + i] = t[i]
  BY <1>2, Assembled DEF V
<1>4. info.is_router \in BOOLEAN
  BY DEF AnyInfo
<1>5. pre[4].val = info.is_router /\ Len(Info(info)) = l - 3 /\ Info(info) \in Seq(V)
  BY InfoFrames DEF V
<1>6. l \in {5, 6} /\ (l = 6 <=> info.is_router)
  BY InfoFrames
<1> HIDE DEF m, l
<1>61. Len(left) \in Nat /\ Len(t) \in Nat
  BY <1>0, <1>1
<1>7. m[2] = pre[2] /\ m[3] = pre[3] /\ m[4] = pre[4] /\ m[5] = pre[5]
  BY <1>3, <1>6
<1>8. m[2].size = 0 /\ m[3].size = 1 /\ m[3].val = cmd /\ m[4].size = 1 /\ m[5].size = 8
  BY <1>7 DEF Preamble
<1>9. m[4].val = info.is_router /\ m[4].val \in BOOLEAN
  BY <1>4, <1>5, <1>7
<1>10. l = IF m[4].val = TRUE THEN 6 ELSE 5
  BY <1>6, <1>9
<1>11. Len(m) = l + n + Len(left)
  BY <1>0, <1>1, <1>3, <1>6, <1>61
<1>12. Shaped(m)
  <2>1. Len(m) >= 3
    BY <1>1, <1>6, <1>61, <1>11
  <2>2. CASE cmd = "kRequest"
    <3>1. Len(m) = l + 3 /\ m[l + 1] = t[1]
      BY <1>0, <1>1, <1>3, <1>6, <1>11, <2>2
    <3>2. m[l + 1].size = 8
      BY <3>1, <2>2 DEF Carries
    <3> QED BY <1>8, <1>9, <1>10, <2>1, <2>2, <3>1, <3>2 DEF Shaped
  <2>3. CASE cmd = "kReply"
    <3>1. Len(m) = l + 2
      BY <1>0, <1>1, <1>6, <1>11, <2>3
    <3> QED BY <1>8, <1>9, <1>10, <2>1, <2>3, <3>1 DEF Shaped
  <2>4. CASE cmd = "kRegisterSvc"
    <3>1. Len(m) = l + 2 /\ m[l + 2] = t[2]
      BY <1>0, <1>1, <1>3, <1>6, <1>11, <2>4
    <3>2. m[l + 2].size = 8
      BY <3>1, <2>4 DEF Carries
    <3> QED BY <1>8, <1>9, <1>10, <2>1, <2>4, <3>1, <3>2 DEF Shaped
  <2> QED BY <2>2, <2>3, <2>4
<1>13. FramesRead(m) = l + n
  <2>1. cmd = "kRegisterSvc" => Len(m) = l + n
    BY <1>0, <1>1, <1>6, <1>11
  <2> QED BY <1>1, <1>6, <1>8, <1>10, <2>1 DEF FramesRead
<1>14. ASSUME NEW i \in 1 .. Len(fields) PROVE m[3 + i].val = fields[i]
  <2>1. CASE i <= l - 3
    <3>1. i \in 1 .. Len(Info(info)) /\ 3 + i \in 1 .. l
      BY <1>5, <1>6, <2>1
    <3>2. pre[3 + i].val = Info(info)[i]
      BY <3>1 DEF Preamble
    <3>3. fields[i] = Info(info)[i]
      BY <3>1 DEF Carries
    <3> QED BY <1>3, <3>1, <3>2, <3>3
  <2>2. CASE ~(i <= l - 3)
    <3> DEFINE j == i - (l - 3)
    <3>1. j \in 1 .. n /\ j \in 1 .. Len(t) /\ Len(Info(info)) + j = i /\ 3 + i = l + j
      BY <1>0, <1>1, <1>5, <1>6, <1>61, <2>2
    <3>2. fields[Len(Info(info)) + j] = t[j].val
      BY <3>1 DEF Carries, n
    <3> QED BY <1>3, <3>1, <3>2
  <2> QED BY <2>1, <2>2
<1>15. ASSUME NEW i \in 1 .. Len(left) PROVE m[FramesRead(m) + i] = left[i]
  <2>1. n + i \in 1 .. Len(t) /\ l + n + i = l + (n + i)
    BY <1>0, <1>1, <1>6, <1>61
  <2>2. t[n + i] = left[i]
    BY DEF Carries, n
  <2> QED BY <1>3, <1>13, <2>1, <2>2
<1>16. FramesRead(m) = 3 + Len(fields)
  BY <1>0, <1>1, <1>5, <1>6, <1>13
<1>17. WrittenAs(m, V, cmd, fields, left)
  BY <1>3, <1>8, <1>11, <1>12, <1>13, <1>14, <1>15, <1>16 DEF WrittenAs, V, Carries
<1> QED BY <1>17 DEF m, V

\* connection::request(): the header and the payload are left to be forwarded.
LEMMA RequestWritten ==
    ASSUME NEW P, NEW T, AreStrings(T), NEW id \in T, NEW info \in AnyInfo(P, T), NEW ptr \in P,
           NEW x \in T, NEW y \in T
    PROVE  WrittenAs(AddIdentity(id, RequestCommand(info, ptr, <<x, y>>)), Values(P, T), "kRequest",
                     Append(Info(info), ptr),
                     <<Frame(x.length, x, SNDMORE), Frame(y.length, y, FALSE)>>)
<1> DEFINE V == Values(P, T)
           cmd == "kRequest"
           a == <<Frame(id.length, id, SNDMORE)>>
           q == Command(cmd, SNDMORE)
           w == write_connection_info(info, SNDMORE)
           pre == a \o (q \o w)
           g == Frame(8, ptr, SNDMORE)
           h == Frame(x.length, x, SNDMORE)
           k == Frame(y.length, y, FALSE)
           t == <<g, h, k>>
           m == AddIdentity(id, RequestCommand(info, ptr, <<x, y>>))
           fields == Append(Info(info), ptr)
<1>1. Preamble(pre, V, cmd, info)
  BY PreambleWritten DEF CommandNames
<1>2. g \in Frames(V) /\ h \in Frames(V) /\ k \in Frames(V) /\ g.more /\ h.more /\ ~k.more
  BY FrameFields DEF AreStrings, Values, SNDMORE
<1>3. g.size = 8 /\ g.val = ptr
  BY DEF Frame
<1>4. m = a \o (((q \o w) \o <<g>>) \o <<h, k>>)
  BY VectorWritten DEF AddIdentity, RequestCommand, send_string, send_pointer
<1>5. a \in Seq(Frames(V)) /\ q \in Seq(Frames(V)) /\ w \in Seq(Frames(V))
  BY FramesWritten DEF CommandNames
<1> HIDE DEF g, h, k, a, q, w
<1>6. m = pre \o t
  <2>1. <<g>> \in Seq(Frames(V)) /\ <<h, k>> \in Seq(Frames(V)) /\ q \o w \in Seq(Frames(V))
    BY <1>2, <1>5
  <2>2. a \o (((q \o w) \o <<g>>) \o <<h, k>>) = pre \o (<<g>> \o <<h, k>>)
    BY ONLY <1>5, <2>1, Regroup, SMTT(60)
  <2>3. <<g>> \o <<h, k>> = t
    BY <1>2, ThreeFrames
  <2> QED BY <1>4, <2>2, <2>3
<1>7. IsMessage(t, V) /\ Len(t) = 3 /\ t[1] = g /\ t[2] = h /\ t[3] = k
  BY <1>2 DEF IsMessage
<1> HIDE DEF m, pre, t
<1>8. Info(info) \in Seq(V) /\ Len(Info(info)) \in Nat
  BY <1>1, InfoFrames
<1>9. ptr \in V
  BY DEF Values
<1> HIDE DEF V
<1>10. /\ fields \in Seq(V) /\ Len(fields) = Len(Info(info)) + 1
       /\ \A i \in 1 .. Len(Info(info)) : fields[i] = Info(info)[i]
       /\ fields[Len(Info(info)) + 1] = ptr
  BY <1>8, <1>9
<1> HIDE DEF fields
<1>11. Carries(t, V, cmd, info, fields, <<h, k>>)
  <2>1. Arguments(cmd) = 1
    BY DEF Arguments
  <2>2. Len(<<h, k>>) = 2 /\ \A i \in 1 .. 2 : t[1 + i] = <<h, k>>[i]
    BY <1>7
  <2>3. \A i \in 1 .. 1 : fields[Len(Info(info)) + i] = t[i].val
    BY <1>3, <1>7, <1>10
  <2> QED BY <1>3, <1>7, <1>10, <2>1, <2>2, <2>3 DEF Carries
<1>12. WrittenAs(pre \o t, V, cmd, fields, <<h, k>>)
  BY <1>1, <1>7, <1>11, CommandAssembled DEF V
<1> QED BY <1>6, <1>12 DEF m, V, fields, h, k

\* connection::reply()
LEMMA ReplyWritten ==
    ASSUME NEW P, NEW T, AreStrings(T), NEW id \in T, NEW info \in AnyInfo(P, T),
           NEW x \in T, NEW y \in T
    PROVE  WrittenAs(AddIdentity(id, ReplyCommand(info, <<x, y>>)), Values(P, T), "kReply",
                     Info(info), <<Frame(x.length, x, SNDMORE), Frame(y.length, y, FALSE)>>)
<1> DEFINE V == Values(P, T)
           cmd == "kReply"
           a == <<Frame(id.length, id, SNDMORE)>>
           q == Command(cmd, SNDMORE)
           w == write_connection_info(info, SNDMORE)
           pre == a \o (q \o w)
           h == Frame(x.length, x, SNDMORE)
           k == Frame(y.length, y, FALSE)
           t == <<h, k>>
           m == AddIdentity(id, ReplyCommand(info, <<x, y>>))
<1>1. Preamble(pre, V, cmd, info)
  BY PreambleWritten DEF CommandNames
<1>2. h \in Frames(V) /\ k \in Frames(V) /\ h.more /\ ~k.more
  BY FrameFields DEF AreStrings, Values, SNDMORE
<1>3. m = a \o ((q \o w) \o t)
  BY VectorWritten DEF AddIdentity, ReplyCommand, send_string
<1>4. a \in Seq(Frames(V)) /\ q \in Seq(Frames(V)) /\ w \in Seq(Frames(V))
  BY FramesWritten DEF CommandNames
<1> HIDE DEF h, k, a, q, w
<1>5. IsMessage(t, V) /\ Len(t) = 2 /\ t[1] = h /\ t[2] = k /\ t \in Seq(Frames(V))
  BY <1>2 DEF IsMessage
<1> HIDE DEF m, t
<1>6. m = pre \o t
  <2> DEFINE v == q \o w
  <2>1. v \in Seq(Frames(V))
    BY <1>4
  <2> HIDE DEF v
  <2>2. (a \o v) \o t = a \o (v \o t)
    BY ONLY <1>4, <1>5, <2>1, ConcatAssociative, SMTT(60)
  <2> QED BY <1>3, <2>2 DEF v
<1> HIDE DEF pre
<1>7. Info(info) \in Seq(V) /\ Len(Info(info)) \in Nat
  BY <1>1, InfoFrames
<1>8. Carries(t, V, cmd, info, Info(info), t)
  <2>1. Arguments(cmd) = 0
    BY DEF Arguments
  <2> QED BY <1>5, <1>7, <2>1 DEF Carries
<1>9. WrittenAs(pre \o t, V, cmd, Info(info), t)
  BY <1>1, <1>5, <1>8, CommandAssembled
<1> QED BY <1>6, <1>9 DEF m, V, t, h, k

\* connection::register_service()
LEMMA RegisterWritten ==
    ASSUME NEW P, NEW T, AreStrings(T), NEW id \in T, NEW info \in AnyInfo(P, T), NEW x \in T,
           NEW ptr \in P
    PROVE  WrittenAs(AddIdentity(id, RegisterCommand(info, x, ptr)), Values(P, T), "kRegisterSvc",
                     Info(info) \o <<x, ptr>>, <<>>)
<1> DEFINE V == Values(P, T)
           cmd == "kRegisterSvc"
           a == <<Frame(id.length, id, SNDMORE)>>
           q == Command(cmd, SNDMORE)
           w == write_connection_info(info, SNDMORE)
           pre == a \o (q \o w)
           h == Frame(x.length, x, SNDMORE)
           k == Frame(8, ptr, FALSE)
           t == <<h>> \o <<k>>
           m == AddIdentity(id, RegisterCommand(info, x, ptr))
           fields == Info(info) \o <<x, ptr>>
<1>1. Preamble(pre, V, cmd, info)
  BY PreambleWritten DEF CommandNames
<1>2. h \in Frames(V) /\ k \in Frames(V) /\ h.more /\ ~k.more
  BY FrameFields DEF AreStrings, Values, SNDMORE
<1>3. h.val = x /\ k.size = 8 /\ k.val = ptr
  BY DEF Frame
<1>4. m = a \o (((q \o w) \o <<h>>) \o <<k>>)
  BY DEF AddIdentity, RegisterCommand, send_string, send_pointer
<1>5. a \in Seq(Frames(V)) /\ q \in Seq(Frames(V)) /\ w \in Seq(Frames(V))
  BY FramesWritten DEF CommandNames
<1> HIDE DEF h, k, a, q, w
<1>6. m = pre \o t
  <2>1. <<h>> \in Seq(Frames(V)) /\ <<k>> \in Seq(Frames(V)) /\ q \o w \in Seq(Frames(V))
    BY <1>2, <1>5
  <2>2. a \o (((q \o w) \o <<h>>) \o <<k>>) = pre \o (<<h>> \o <<k>>)
    BY ONLY <1>5, <2>1, Regroup, SMTT(60)
  <2> QED BY <1>4, <2>2
<1>7. t \in Seq(Frames(V)) /\ Len(t) = 2 /\ t[1] = h /\ t[2] = k
  BY <1>2
<1> HIDE DEF m, pre, t
<1>8. IsMessage(t, V)
  <2>1. ASSUME t = <<>> PROVE FALSE
    <3>1. Len(<<>>) = 0
      OBVIOUS
    <3> QED BY <1>7, <2>1, <3>1
  <2> QED BY <1>2, <1>7, <2>1 DEF IsMessage
<1>9. Info(info) \in Seq(V) /\ Len(Info(info)) \in Nat
  BY <1>1, InfoFrames
<1>10. x \in V /\ ptr \in V
  BY DEF Values
<1> HIDE DEF V
<1>11. /\ fields \in Seq(V) /\ Len(fields) = Len(Info(info)) + 2
       /\ \A i \in 1 .. Len(Info(info)) : fields[i] = Info(info)[i]
       /\ fields[Len(Info(info)) + 1] = x /\ fields[Len(Info(info)) + 2] = ptr
  <2> DEFINE l == Info(info)
             r == <<x, ptr>>
  <2>1. r \in Seq(V) /\ Len(r) = 2 /\ r[1] = x /\ r[2] = ptr
    BY <1>10
  <2> HIDE DEF l, r
  <2>2. l \in Seq(V) /\ r \in Seq(V)
    BY <1>9, <2>1 DEF l
  <2>3. /\ l \o r \in Seq(V) /\ Len(l \o r) = Len(l) + Len(r)
        /\ \A i \in 1 .. Len(l) : (l \o r)[i] = l[i]
        /\ \A i \in 1 .. Len(r) : (l \o r)[Len(l) + i] = r[i]
    BY ONLY <2>2, Joined
  <2>4. (l \o r)[Len(l) + 1] = r[1] /\ (l \o r)[Len(l) + 2] = r[2]
    BY <2>1, <2>3
  <2> QED BY <2>1, <2>3, <2>4 DEF l, r
<1> HIDE DEF fields
<1>12. Carries(t, V, cmd, info, fields, <<>>)
  <2>1. Arguments(cmd) = 2
    BY DEF Arguments
  <2>2. Len(<<>>) = 0
    OBVIOUS
  <2>3. \A i \in 1 .. 2 : fields[Len(Info(info)) + i] = t[i].val
    BY <1>3, <1>7, <1>11
  <2> QED BY <1>3, <1>7, <1>11, <2>1, <2>2, <2>3 DEF Carries
<1>13. WrittenAs(pre \o t, V, cmd, fields, <<>>)
  BY <1>1, <1>8, <1>12, CommandAssembled DEF V
<1> QED BY <1>6, <1>13 DEF m, V, fields

\* connect(), manager::bind(), manager::unbind() and manager::add(): one argument.
LEMMA OneArgument ==
    ASSUME NEW V, NEW a \in Frames(V), NEW b \in Frames(V), NEW c \in Frames(V), NEW d \in Frames(V),
           a.more, b.more, c.more, ~d.more, b.size = 0, c.size = 1,
           \/ c.val \in {"kConnect", "kBind", "kUnbind"}
           \/ c.val = "kRunClosure" /\ d.size = 8
    PROVE  WrittenAs(<<a>> \o ((<<b>> \o <<c>>) \o <<d>>), V, c.val, <<d.val>>, <<>>)
<1> DEFINE m == <<a>> \o ((<<b>> \o <<c>>) \o <<d>>)
           fields == <<d.val>>
           none == <<>>
<1>1. /\ m \in Seq(Frames(V)) /\ Len(m) = 4
      /\ m[1] = a /\ m[2] = b /\ m[3] = c /\ m[4] = d
  BY ONLY a \in Frames(V), b \in Frames(V), c \in Frames(V), d \in Frames(V)
<1>2. d.val \in V
  BY DEF Frames
<1>3. fields \in Seq(V) /\ Len(fields) = 1 /\ fields[1] = d.val
  BY <1>2
<1>4. none = <<>> /\ Len(none) = 0
  OBVIOUS
<1> HIDE DEF m, fields, none
<1>5. IsMessage(m, V)
  <2>1. m # <<>>
    BY ONLY <1>1, <1>4, SMTT(30)
  <2>2. \A i \in 1 .. 4 : m[i].more <=> i < 4
    BY <1>1
  <2> QED BY ONLY <1>1, <2>1, <2>2 DEF IsMessage
<1>6. Shaped(m) /\ FramesRead(m) = 4
  BY <1>1 DEF Shaped, FramesRead
<1>7. WrittenAs(m, V, c.val, fields, none)
  BY <1>1, <1>3, <1>4, <1>5, <1>6 DEF WrittenAs
<1> QED BY <1>7 DEF m, fields, none

\* connect(), bind() and unbind() write such a command.
LEMMA EndpointWritten ==
    ASSUME NEW P, NEW T, AreStrings(T), NEW id \in T, NEW ep \in T,
           NEW cmd \in {"kConnect", "kBind", "kUnbind"}
    PROVE  WrittenAs(AddIdentity(id, EndpointCommand(cmd, ep)), Values(P, T), cmd, <<ep>>, <<>>)
<1> DEFINE V == Values(P, T)
           a == Frame(id.length, id, SNDMORE)
           b == Frame(0, "", SNDMORE)
           c == Frame(1, cmd, SNDMORE)
           d == Frame(ep.length, ep, FALSE)
<1>1. /\ a \in Frames(V) /\ b \in Frames(V) /\ c \in Frames(V) /\ d \in Frames(V)
      /\ a.more /\ b.more /\ c.more /\ ~d.more
  BY FrameFields DEF AreStrings, Values, CommandNames, SNDMORE
<1>2. b.size = 0 /\ c.size = 1 /\ c.val = cmd /\ d.val = ep
  BY DEF Frame
<1>3. AddIdentity(id, EndpointCommand(cmd, ep)) = <<a>> \o ((<<b>> \o <<c>>) \o <<d>>)
  BY DEF AddIdentity, EndpointCommand, Command, send_string, send_empty_message, send_char
<1> HIDE DEF a, b, c, d
<1>4. WrittenAs(<<a>> \o ((<<b>> \o <<c>>) \o <<d>>), V, c.val, <<d.val>>, <<>>)
  BY <1>1, <1>2, OneArgument
<1> QED BY <1>2, <1>3, <1>4

\* So does manager::add().
LEMMA RunClosureWritten ==
    ASSUME NEW P, NEW T, AreStrings(T), NEW id \in T, NEW ptr \in P
    PROVE  WrittenAs(AddIdentity(id, RunClosureCommand(ptr)), Values(P, T), "kRunClosure", <<ptr>>,
                     <<>>)
<1> DEFINE V == Values(P, T)
           a == Frame(id.length, id, SNDMORE)
           b == Frame(0, "", SNDMORE)
           c == Frame(1, "kRunClosure", SNDMORE)
           d == Frame(8, ptr, FALSE)
<1>1. /\ a \in Frames(V) /\ b \in Frames(V) /\ c \in Frames(V) /\ d \in Frames(V)
      /\ a.more /\ b.more /\ c.more /\ ~d.more
  BY FrameFields DEF AreStrings, Values, CommandNames, SNDMORE
<1>2. b.size = 0 /\ c.size = 1 /\ c.val = "kRunClosure" /\ d.val = ptr /\ d.size = 8
  BY DEF Frame
<1>3. AddIdentity(id, RunClosureCommand(ptr)) = <<a>> \o ((<<b>> \o <<c>>) \o <<d>>)
  BY DEF AddIdentity, RunClosureCommand, Command, send_string, send_empty_message, send_char,
         send_pointer
<1> HIDE DEF a, b, c, d
<1>4. WrittenAs(<<a>> \o ((<<b>> \o <<c>>) \o <<d>>), V, c.val, <<d.val>>, <<>>)
  BY <1>1, <1>2, OneArgument
<1> QED BY <1>2, <1>3, <1>4

\* manager::join_threads()
LEMMA QuitWritten ==
    ASSUME NEW P, NEW T, AreStrings(T), NEW id \in T
    PROVE  WrittenAs(AddIdentity(id, QuitCommand), Values(P, T), "kQuit", <<>>, <<>>)
<1> DEFINE V == Values(P, T)
           a == Frame(id.length, id, SNDMORE)
           b == Frame(0, "", SNDMORE)
           c == Frame(1, "kQuit", FALSE)
           m == AddIdentity(id, QuitCommand)
           none == <<>>
<1>1. /\ a \in Frames(V) /\ b \in Frames(V) /\ c \in Frames(V)
      /\ a.more /\ b.more /\ ~c.more
  BY FrameFields DEF AreStrings, Values, CommandNames, SNDMORE
<1>2. b.size = 0 /\ c.size = 1 /\ c.val = "kQuit"
  BY DEF Frame
<1>3. m = <<a>> \o (<<b>> \o <<c>>)
  BY DEF AddIdentity, QuitCommand, Command, send_string, send_empty_message, send_char
<1> HIDE DEF a, b, c, m, V
<1>4. m \in Seq(Frames(V)) /\ Len(m) = 3 /\ m[1] = a /\ m[2] = b /\ m[3] = c
  BY ONLY <1>1, <1>3
<1>5. none \in Seq(V) /\ Len(none) = 0 /\ none = <<>>
  OBVIOUS
<1> HIDE DEF none
<1>6. IsMessage(m, V)
  BY <1>1, <1>4, <1>5, SMTT(30) DEF IsMessage
<1>7. Shaped(m) /\ FramesRead(m) = 3
  BY <1>2, <1>4 DEF Shaped, FramesRead
<1>8. WrittenAs(m, V, "kQuit", none, none)
  BY <1>2, <1>4, <1>5, <1>6, <1>7 DEF WrittenAs
<1> QED BY <1>8 DEF m, V, none

\* The frames of a command that the broker forwards.
Left(c) ==
    IF c.cmd \in {"kRequest", "kReply"}
    THEN <<Frame(c.data[1].length, c.data[1], SNDMORE), Frame(c.data[2].length, c.data[2], FALSE)>>
    ELSE <<>>

\* Every command is written as its handler reads it.
LEMMA EveryCommandWritten ==
    ASSUME NEW P, NEW T, AreStrings(T), NEW id \in T, NEW c \in AnyCommand(P, T)
    PROVE  WrittenAs(AddIdentity(id, Written(c)), Values(P, T), c.cmd, Fields(c), Left(c))
<1>1. CASE c \in [cmd : {"kConnect", "kBind", "kUnbind"}, endpoint : T]
  <2>1. c.cmd \in {"kConnect", "kBind", "kUnbind"} /\ c.endpoint \in T
    BY <1>1
  <2>2. Written(c) = EndpointCommand(c.cmd, c.endpoint) /\ Fields(c) = <<c.endpoint>> /\ Left(c) = <<>>
    BY <2>1 DEF Written, Fields, Left
  <2> QED BY <2>1, <2>2, EndpointWritten
<1>2. CASE c \in [cmd : {"kRunClosure"}, ptr : P]
  <2>1. c.cmd = "kRunClosure" /\ c.ptr \in P
    BY <1>2
  <2>2. Written(c) = RunClosureCommand(c.ptr) /\ Fields(c) = <<c.ptr>> /\ Left(c) = <<>>
    BY <2>1 DEF Written, Fields, Left
  <2> QED BY <2>1, <2>2, RunClosureWritten
<1>3. CASE c \in [cmd : {"kQuit"}]
  <2>1. c.cmd = "kQuit"
    BY <1>3
  <2>2. Written(c) = QuitCommand /\ Fields(c) = <<>> /\ Left(c) = <<>>
    BY <2>1 DEF Written, Fields, Left
  <2> QED BY <2>1, <2>2, QuitWritten
<1>4. CASE c \in [cmd : {"kRequest"}, info : AnyInfo(P, T), ptr : P, data : T \X T]
  <2>1. c.cmd = "kRequest" /\ c.info \in AnyInfo(P, T) /\ c.ptr \in P /\ c.data \in T \X T
    BY <1>4
  <2>2. c.data = <<c.data[1], c.data[2]>> /\ c.data[1] \in T /\ c.data[2] \in T
    BY <2>1
  <2>3. Written(c) = RequestCommand(c.info, c.ptr, c.data) /\ Fields(c) = Append(Info(c.info), c.ptr)
    BY <2>1 DEF Written, Fields
  <2>4. Left(c) = <<Frame(c.data[1].length, c.data[1], SNDMORE),
                    Frame(c.data[2].length, c.data[2], FALSE)>>
    BY <2>1 DEF Left
  <2>5. WrittenAs(AddIdentity(id, RequestCommand(c.info, c.ptr, <<c.data[1], c.data[2]>>)),
                  Values(P, T), "kRequest", Append(Info(c.info), c.ptr),
                  <<Frame(c.data[1].length, c.data[1], SNDMORE),
                    Frame(c.data[2].length, c.data[2], FALSE)>>)
    BY <2>1, <2>2, RequestWritten
  <2> QED BY <2>1, <2>2, <2>3, <2>4, <2>5
<1>5. CASE c \in [cmd : {"kReply"}, info : AnyInfo(P, T), data : T \X T]
  <2>1. c.cmd = "kReply" /\ c.info \in AnyInfo(P, T) /\ c.data \in T \X T
    BY <1>5
  <2>2. c.data = <<c.data[1], c.data[2]>> /\ c.data[1] \in T /\ c.data[2] \in T
    BY <2>1
  <2>3. Written(c) = ReplyCommand(c.info, c.data) /\ Fields(c) = Info(c.info)
    BY <2>1 DEF Written, Fields
  <2>4. Left(c) = <<Frame(c.data[1].length, c.data[1], SNDMORE),
                    Frame(c.data[2].length, c.data[2], FALSE)>>
    BY <2>1 DEF Left
  <2>5. WrittenAs(AddIdentity(id, ReplyCommand(c.info, <<c.data[1], c.data[2]>>)),
                  Values(P, T), "kReply", Info(c.info),
                  <<Frame(c.data[1].length, c.data[1], SNDMORE),
                    Frame(c.data[2].length, c.data[2], FALSE)>>)
    BY <2>1, <2>2, ReplyWritten
  <2> QED BY <2>1, <2>2, <2>3, <2>4, <2>5
<1>6. CASE c \in [cmd : {"kRegisterSvc"}, info : AnyInfo(P, T), name : T, ptr : P]
  <2>1. c.cmd = "kRegisterSvc" /\ c.info \in AnyInfo(P, T) /\ c.name \in T /\ c.ptr \in P
    BY <1>6
  <2>2. Written(c) = RegisterCommand(c.info, c.name, c.ptr) /\ Left(c) = <<>>
        /\ Fields(c) = Info(c.info) \o <<c.name, c.ptr>>
    BY <2>1 DEF Written, Fields, Left
  <2> QED BY <2>1, <2>2, RegisterWritten
<1> QED BY <1>1, <1>2, <1>3, <1>4, <1>5, <1>6 DEF AnyCommand

-----------------------------------------------------------------------------
(* What is read                                                            *)

\* The last two elements of a sequence.
LEMMA LastTwo ==
    ASSUME NEW S, NEW s \in Seq(S), Len(s) >= 2
    PROVE  SubSeq(s, Len(s) - 1, Len(s)) = <<s[Len(s) - 1], s[Len(s)]>>
<1> DEFINE n == Len(s)
           t == SubSeq(s, n - 1, n)
           x == s[n - 1]
           y == s[n]
<1>1. n \in Nat /\ n >= 2 /\ n - 1 \in 1 .. n /\ n \in 1 .. n /\ n - (n - 1) + 1 = 2
      /\ n - 1 <= n /\ n - 1 + 1 - 1 = n - 1 /\ n - 1 + 2 - 1 = n /\ n - 1 \in 1 .. n + 1
      /\ n \in n - 2 .. n /\ n - 1 \in Int
  OBVIOUS
<1>2. x \in S /\ y \in S
  BY <1>1, ElementOfSeq
<1>3. \A i \in n - 1 .. n : s[i] \in S
  <2> TAKE i \in n - 1 .. n
  <2>1. i \in 1 .. n
    BY <1>1
  <2> QED BY <2>1, ElementOfSeq
<1>4. /\ t \in Seq(S) /\ Len(t) = (IF n - 1 <= n THEN n - (n - 1) + 1 ELSE 0)
      /\ \A i \in 1 .. n - (n - 1) + 1 : t[i] = s[n - 1 + i - 1]
  BY <1>1, <1>3, SubSeqProperties
<1>5. Len(t) = 2 /\ 1 \in 1 .. n - (n - 1) + 1 /\ 2 \in 1 .. n - (n - 1) + 1
  BY <1>1, <1>4
<1>6. t[1] = x /\ t[2] = y
  BY <1>1, <1>4, <1>5
<1> HIDE DEF t, x, y
<1>7. t = <<x, y>>
  BY ONLY <1>2, <1>4, <1>5, <1>6
<1> QED BY <1>7 DEF t, x, y

\* handle_socket() takes some frames of the message, and of one that starts with an
\* empty frame the two after it.
LEMMA SocketRead ==
    ASSUME NEW V, NEW m, IsMessage(m, V), NEW then \in Seq(Frames(V)), NEW k \in 0 .. Len(m) - 1
    PROVE  LET r == handle_socket(At(m, k, then)) IN
           /\ \E j \in 0 .. Len(m) : r.it = At(m, j, then)
           /\ m[k + 1].size = 0 /\ k + 3 <= Len(m) =>
                 r.it = At(m, k + 3, then) /\ r.data = <<m[k + 2].val, m[k + 3].val>>
<1> DEFINE it == At(m, k, then)
           empty == next(it)
           header == next(empty)
           both == next(header)
           r == handle_socket(it)
<1>1. m \in Seq(Frames(V)) /\ Len(m) \in Nat /\ k \in Nat /\ k < Len(m) /\ k + 1 \in 0 .. Len(m)
      /\ k + 1 + 1 = k + 2 /\ k + 2 + 1 = k + 3
  BY DEF IsMessage
<1>2. empty = At(m, k + 1, then) /\ NextSize(it) = m[k + 1].size
  BY NextAt
<1>3. empty.has_more = (k + 1 < Len(m))
  BY ONLY <1>2, MoreAt
<1>4. r = IF NextSize(it) # 0 \/ ~empty.has_more THEN [it |-> empty, data |-> <<>>]
          ELSE IF ~header.has_more THEN [it |-> header, data |-> <<Last(header.got)>>]
          ELSE [it |-> both, data |-> SubSeq(both.got, Len(both.got) - 1, Len(both.got))]
  BY DEF handle_socket
<1> HIDE DEF it, r, empty, header, both
<1>5. CASE m[k + 1].size # 0 \/ ~(k + 1 < Len(m))
  <2>1. NextSize(it) # 0 \/ ~empty.has_more
    BY <1>2, <1>3, <1>5
  <2>2. r = [it |-> empty, data |-> <<>>]
    BY ONLY <1>4, <2>1
  <2>3. r.it = At(m, k + 1, then)
    BY <1>2, <2>2
  <2>4. ~(m[k + 1].size = 0 /\ k + 3 <= Len(m))
    BY <1>1, <1>5
  <2> QED BY <1>1, <2>3, <2>4 DEF r, it
<1>6. CASE m[k + 1].size = 0 /\ k + 1 < Len(m)
  <2>1. k + 1 \in 0 .. Len(m) - 1 /\ k + 2 \in 0 .. Len(m)
    BY <1>1, <1>6
  <2>2. header = At(m, k + 2, then)
    BY <1>1, <1>2, <2>1, NextAt DEF header
  <2>3. header.has_more = (k + 2 < Len(m))
    BY ONLY <2>2, MoreAt
  <2>4. ~(NextSize(it) # 0 \/ ~empty.has_more)
    BY <1>2, <1>3, <1>6
  <2>5. CASE ~(k + 2 < Len(m))
    <3>1. r = [it |-> header, data |-> <<Last(header.got)>>]
      BY <1>4, <2>3, <2>4, <2>5
    <3>2. r.it = At(m, k + 2, then)
      BY <2>2, <3>1
    <3>3. ~(k + 3 <= Len(m))
      BY <1>1, <2>5
    <3> QED BY <2>1, <3>2, <3>3 DEF r, it
  <2>6. CASE k + 2 < Len(m)
    <3>1. r = [it |-> both, data |-> SubSeq(both.got, Len(both.got) - 1, Len(both.got))]
      BY <1>4, <2>3, <2>4, <2>6
    <3>2. k + 2 \in 0 .. Len(m) - 1 /\ k + 3 \in 0 .. Len(m)
      BY <1>1, <2>6
    <3>3. both = At(m, k + 3, then)
      BY <1>1, <2>2, <3>2, NextAt DEF both
    <3> DEFINE got == both.got
    <3>4. got \in Seq(V) /\ Len(got) = k + 3 /\ \A i \in 1 .. k + 3 : got[i] = m[i].val
      BY <3>2, <3>3, GotAt
    <3> HIDE DEF got
    <3>5. SubSeq(got, Len(got) - 1, Len(got)) = <<got[Len(got) - 1], got[Len(got)]>>
      <4>1. got \in Seq(V) /\ Len(got) >= 2
        BY <1>1, <3>4
      <4> QED BY ONLY <4>1, LastTwo
    <3>6. Len(got) - 1 = k + 2 /\ k + 2 \in 1 .. k + 3 /\ k + 3 \in 1 .. k + 3
      BY <1>1, <3>4
    <3>7. SubSeq(got, Len(got) - 1, Len(got)) = <<m[k + 2].val, m[k + 3].val>>
      BY <3>4, <3>5, <3>6
    <3>8. r.it = both /\ r.data = SubSeq(got, Len(got) - 1, Len(got))
      BY <3>1 DEF got
    <3> QED BY <3>2, <3>3, <3>7, <3>8 DEF r, it
  <2> QED BY <2>5, <2>6
<1> QED BY <1>5, <1>6

\* The same for the two kinds of sockets.
LEMMA DealerRead ==
    ASSUME NEW V, NEW m, IsMessage(m, V), NEW then \in Seq(Frames(V))
    PROVE  LET r == handle_dealer_socket(m \o then) IN
           /\ \E j \in 0 .. Len(m) : r.it = At(m, j, then)
           /\ m[1].size = 0 /\ 3 <= Len(m) =>
                 r.it = At(m, 3, then) /\ r.data = <<m[2].val, m[3].val>>
<1>1. 0 \in 0 .. Len(m) - 1 /\ 0 + 1 = 1 /\ 0 + 2 = 2 /\ 0 + 3 = 3
  BY DEF IsMessage
<1>2. handle_dealer_socket(m \o then) = handle_socket(At(m, 0, then))
  BY StartAt DEF handle_dealer_socket
<1> QED BY <1>1, <1>2, SocketRead

\* handle_router_socket() stays within the message, and takes header and payload from
\* one of the right shape.
LEMMA RouterRead ==
    ASSUME NEW V, NEW m, IsMessage(m, V), Len(m) >= 2, NEW then \in Seq(Frames(V))
    PROVE  LET r == handle_router_socket(m \o then) IN
           /\ \E j \in 0 .. Len(m) : r.it = At(m, j, then)
           /\ m[2].size = 0 /\ 4 <= Len(m) =>
                 r.it = At(m, 4, then) /\ r.data = <<m[3].val, m[4].val>>
<1>1. Len(m) \in Nat
  BY DEF IsMessage
<1>2. 0 \in 0 .. Len(m) - 1 /\ 0 + 1 = 1 /\ 1 \in 0 .. Len(m) - 1 /\ 1 + 1 = 2 /\ 1 + 2 = 3
      /\ 1 + 3 = 4 /\ 1 < Len(m)
  BY <1>1
<1>3. next(message_iterator(m \o then)) = At(m, 1, then)
  BY <1>2, StartAt, NextAt
<1>4. At(m, 1, then).has_more
  BY <1>2, FieldsAt
<1>5. handle_router_socket(m \o then) = handle_socket(At(m, 1, then))
  BY <1>3, <1>4 DEF handle_router_socket
<1> QED BY <1>2, <1>5, SocketRead

\* Three frames of which the first is empty, a header and a payload: what a
\* process reads from its DEALER socket, and after an identity from its ROUTER.
LEMMA DataRead ==
    ASSUME NEW V, NEW i \in Frames(V), NEW e \in Frames(V), NEW h \in Frames(V), NEW k \in Frames(V),
           i.more, e.more, h.more, ~k.more, e.size = 0
    PROVE  /\ IsMessage(<<e, h, k>>, V)
           /\ LET r == handle_dealer_socket(<<e, h, k>>) IN
                 r.it.ok /\ ~r.it.has_more /\ r.data = <<h.val, k.val>>
           /\ LET r == handle_router_socket(<<i>> \o <<e, h, k>>) IN
                 r.it.ok /\ ~r.it.has_more /\ r.data = <<h.val, k.val>>
<1> DEFINE m == <<e, h, k>>
           q == <<i>> \o m
           none == <<>>
<1>1. m \in Seq(Frames(V)) /\ Len(m) = 3 /\ m[1] = e /\ m[2] = h /\ m[3] = k
  BY ONLY e \in Frames(V), h \in Frames(V), k \in Frames(V)
<1>2. q \in Seq(Frames(V)) /\ Len(q) = 4 /\ q[1] = i /\ q[2] = e /\ q[3] = h /\ q[4] = k
  BY ONLY i \in Frames(V), e \in Frames(V), h \in Frames(V), k \in Frames(V)
<1>3. none = <<>> /\ Len(none) = 0 /\ none \in Seq(Frames(V))
  OBVIOUS
<1> HIDE DEF m, q, none
<1>4. IsMessage(m, V)
  <2>1. m # <<>>
    BY ONLY <1>1, <1>3
  <2>2. \A n \in 1 .. 3 : m[n].more <=> n < 3
    BY <1>1
  <2> QED BY ONLY <1>1, <2>1, <2>2 DEF IsMessage
<1>5. IsMessage(q, V)
  <2>1. q # <<>>
    BY ONLY <1>2, <1>3
  <2>2. \A n \in 1 .. 4 : q[n].more <=> n < 4
    BY <1>2
  <2> QED BY ONLY <1>2, <2>1, <2>2 DEF IsMessage
<1>6. m \o none = m /\ q \o none = q
  BY <1>1, <1>2, <1>3, ConcatEmptySeq
<1>7. LET r == handle_dealer_socket(m) IN r.it = At(m, 3, none) /\ r.data = <<h.val, k.val>>
  <2>1. m[1].size = 0 /\ 3 <= Len(m)
    BY <1>1
  <2>2. none \in Seq(Frames(V))
    BY <1>3
  <2>3. LET r == handle_dealer_socket(m \o none) IN
        r.it = At(m, 3, none) /\ r.data = <<m[2].val, m[3].val>>
    BY ONLY <1>4, <2>1, <2>2, DealerRead
  <2>4. m[2] = h /\ m[3] = k /\ m \o none = m
    BY <1>1, <1>6
  <2> QED BY ONLY <2>3, <2>4
<1>8. LET r == handle_router_socket(q) IN r.it = At(q, 4, none) /\ r.data = <<h.val, k.val>>
  <2>1. q[2].size = 0 /\ 4 <= Len(q) /\ Len(q) >= 2
    BY <1>2
  <2>2. none \in Seq(Frames(V))
    BY <1>3
  <2>3. LET r == handle_router_socket(q \o none) IN
        r.it = At(q, 4, none) /\ r.data = <<q[3].val, q[4].val>>
    BY ONLY <1>5, <2>1, <2>2, RouterRead
  <2>4. q[3] = h /\ q[4] = k /\ q \o none = q
    BY <1>2, <1>6
  <2> QED BY ONLY <2>3, <2>4
<1>9. At(m, 3, none).ok /\ ~At(m, 3, none).has_more /\ At(q, 4, none).ok /\ ~At(q, 4, none).has_more
  <2>1. ~(3 < Len(m)) /\ ~(4 < Len(q))
    BY <1>1, <1>2
  <2> QED BY ONLY <2>1, OkAt, MoreAt
<1> QED BY ONLY <1>4, <1>7, <1>8, <1>9 DEF m, q

\* What forward_to() sends reaches the other process as a header and a payload.
Forwards(it, x, y) ==
    forward_messages(it) = <<Frame(x.length, x, SNDMORE), Frame(y.length, y, FALSE)>>
Arrives(r, x, y) == r.it.ok /\ ~r.it.has_more /\ r.data = <<x, y>>

\* What the broker forwards arrives at the other process with its header and payload.
LEMMA ForwardedRead ==
    ASSUME NEW P, NEW T, AreStrings(T), Me \in T, NEW info \in AnyInfo(P, T), NEW x \in T, NEW y \in T,
           NEW it, Forwards(it, x, y)
    PROVE  Arrives(Received(info, forward_to(info, it)), x, y)
<1> DEFINE V == Values(P, T)
           i == Frame(Me.length, Me, SNDMORE)
           s == Frame(info.sender.length, info.sender, SNDMORE)
           e == Frame(0, "", SNDMORE)
           h == Frame(x.length, x, SNDMORE)
           k == Frame(y.length, y, FALSE)
           out == forward_to(info, it)
<1>1. /\ i \in Frames(V) /\ s \in Frames(V) /\ e \in Frames(V) /\ h \in Frames(V) /\ k \in Frames(V)
      /\ i.more /\ e.more /\ h.more /\ ~k.more
  BY FrameFields DEF AreStrings, AnyInfo, Values, SNDMORE
<1>2. e.size = 0 /\ h.val = x /\ k.val = y
  BY DEF Frame
<1>3. /\ info.is_router => out = (<<s>> \o <<e>>) \o <<h, k>>
      /\ ~info.is_router => out = (<<>> \o <<e>>) \o <<h, k>>
  BY DEF Forwards, forward_to, send_string, send_empty_message
<1>4. AddIdentity(Me, out) = <<i>> \o out
  BY DEF AddIdentity, send_string
<1> HIDE DEF i, s, e, h, k, out, V
<1>5. Tail((<<s>> \o <<e>>) \o <<h, k>>) = <<e, h, k>>
  <2> DEFINE l == (<<s>> \o <<e>>) \o <<h, k>>
             t == Tail(l)
  <2>1. l \in Seq(Frames(V)) /\ Len(l) = 4 /\ l[1] = s /\ l[2] = e /\ l[3] = h /\ l[4] = k
    BY ONLY <1>1
  <2> HIDE DEF l
  <2>2. t \in Seq(Frames(V)) /\ Len(t) = 3 /\ t[1] = e /\ t[2] = h /\ t[3] = k
    BY ONLY <2>1, SMTT(30)
  <2> HIDE DEF t
  <2>3. t = <<e, h, k>>
    BY ONLY <2>2
  <2> QED BY ONLY <2>3 DEF t, l
<1>6. (<<>> \o <<e>>) \o <<h, k>> = <<e, h, k>>
  <2> DEFINE t == (<<>> \o <<e>>) \o <<h, k>>
  <2>1. t \in Seq(Frames(V)) /\ Len(t) = 3 /\ t[1] = e /\ t[2] = h /\ t[3] = k
    BY ONLY <1>1
  <2> HIDE DEF t
  <2>2. t = <<e, h, k>>
    BY ONLY <2>1
  <2> QED BY ONLY <2>2 DEF t
<1>7. /\ LET r == handle_dealer_socket(<<e, h, k>>) IN
            r.it.ok /\ ~r.it.has_more /\ r.data = <<h.val, k.val>>
      /\ LET r == handle_router_socket(<<i>> \o <<e, h, k>>) IN
            r.it.ok /\ ~r.it.has_more /\ r.data = <<h.val, k.val>>
  BY ONLY <1>1, <1>2, DataRead, SMTT(30)
<1>8. CASE info.is_router
  <2>1. Received(info, out) = handle_dealer_socket(<<e, h, k>>)
    BY ONLY <1>3, <1>5, <1>8 DEF Received
  <2> QED BY ONLY <2>1, <1>2, <1>7 DEF out, Arrives
<1>9. CASE ~info.is_router
  <2>1. Received(info, out) = handle_router_socket(<<i>> \o <<e, h, k>>)
    BY ONLY <1>3, <1>4, <1>6, <1>9 DEF Received
  <2> QED BY ONLY <2>1, <1>2, <1>7 DEF out, Arrives
<1> QED BY ONLY <1>8, <1>9

\* A part of a sequence, element by element.
LEMMA SameSubSeq ==
    ASSUME NEW S, NEW s \in Seq(S), NEW t \in Seq(S), NEW n \in Nat, n + Len(t) = Len(s),
           \A i \in 1 .. Len(t) : s[n + i] = t[i]
    PROVE  SubSeq(s, n + 1, Len(s)) = t
<1> DEFINE u == SubSeq(s, n + 1, Len(s))
<1>1. Len(t) \in Nat /\ Len(s) \in Nat
  OBVIOUS
<1>2. \A i \in n + 1 .. Len(s) : s[i] \in S
  <2> TAKE i \in n + 1 .. Len(s)
  <2>1. i \in 1 .. Len(s)
    BY <1>1
  <2> QED BY <2>1, ElementOfSeq
<1>3. /\ u \in Seq(S) /\ Len(u) = (IF n + 1 <= Len(s) THEN Len(s) - (n + 1) + 1 ELSE 0)
      /\ \A i \in 1 .. Len(s) - (n + 1) + 1 : u[i] = s[n + 1 + i - 1]
  BY <1>1, <1>2, SubSeqProperties
<1>4. Len(s) - (n + 1) + 1 = Len(t) /\ (~(n + 1 <= Len(s)) => Len(t) = 0)
  BY <1>1
<1>5. \A i \in 1 .. Len(t) : n + 1 + i - 1 = n + i
  BY <1>1
<1>6. Len(u) = Len(t) /\ \A i \in 1 .. Len(t) : u[i] = t[i]
  BY <1>3, <1>4, <1>5
<1> HIDE DEF u
<1>7. u = t
  BY <1>3, <1>6, SeqEqual
<1> QED BY <1>7 DEF u

\* A command, of any kind and with any arguments, is understood: the broker reads
\* the fields that connection, manager and connect() wrote, passes every
\* assertion, leaves the following messages alone, and what it forwards is the
\* header and the payload for the other process.
THEOREM CommandsUnderstood ==
    ASSUME NEW P, NEW T, AreStrings(T), Me \in T, NEW c \in AnyCommand(P, T),
           NEW then \in Seq(Frames(Values(P, T)))
    PROVE  CommandUnderstood(c, then)
<1> DEFINE V == Values(P, T)
           m == AddIdentity(Me, Written(c))
           fields == Fields(c)
           left == Left(c)
           n == FramesRead(m)
           it == handle_frontend_socket(m \o then)
           got == it.got
           r == Received(c.info, forward_to(c.info, it))
<1>1. WrittenAs(m, V, c.cmd, fields, left)
  BY EveryCommandWritten
<1> HIDE DEF m, fields, left, n, V
<1>2. IsMessage(m, V) /\ Shaped(m) /\ m \in Seq(Frames(V))
  BY <1>1 DEF WrittenAs, IsMessage
<1>3. /\ fields \in Seq(V) /\ n = 3 + Len(fields) /\ Len(m) = n + Len(left)
      /\ \A i \in 1 .. Len(fields) : m[3 + i].val = fields[i]
      /\ \A i \in 1 .. Len(left) : m[n + i] = left[i]
  BY <1>1 DEF WrittenAs, n
<1>4. it = At(m, n, then)
  BY <1>2, FrontendRead DEF n, V
<1>5. Len(left) \in Nat
  <2>1. left = <<>> \/ \E a, b : left = <<a, b>>
    BY DEF left, Left
  <2> QED BY <2>1
<1>6. Len(fields) \in Nat /\ Len(m) \in Nat /\ n \in 0 .. Len(m)
  BY <1>2, <1>3, <1>5
<1> HIDE DEF it, got, r
<1>7. it.ok
  BY <1>4, OkAt
<1>8. SubSeq(got, 4, Len(got)) = fields
  <2>1. got \in Seq(V) /\ Len(got) = n /\ \A i \in 1 .. n : got[i] = m[i].val
    BY ONLY <1>2, <1>4, <1>6, GotAt DEF got
  <2>2. 3 + Len(fields) = Len(got) /\ 3 \in Nat /\ 3 + 1 = 4
    BY ONLY <1>3, <2>1
  <2>3. \A i \in 1 .. Len(fields) : got[3 + i] = fields[i]
    <3> TAKE i \in 1 .. Len(fields)
    <3>1. 3 + i \in 1 .. n
      BY <1>3, <1>6
    <3> QED BY <1>3, <2>1, <3>1
  <2> QED BY ONLY <1>3, <2>1, <2>2, <2>3, SameSubSeq
<1>9. Drained(it) = then
  BY <1>2, <1>4, <1>6, DrainedAt DEF V
<1>10. ASSUME c.cmd \in {"kRequest", "kReply"}
       PROVE  r.it.ok /\ ~r.it.has_more /\ r.data = c.data
  <2>1. c.info \in AnyInfo(P, T) /\ c.data \in T \X T
    BY <1>10 DEF AnyCommand
  <2> DEFINE x == c.data[1]
             y == c.data[2]
             h == Frame(x.length, x, SNDMORE)
             k == Frame(y.length, y, FALSE)
  <2>2. c.data = <<x, y>> /\ x \in T /\ y \in T
    BY <2>1
  <2>3. h \in Frames(V) /\ k \in Frames(V)
    BY <2>2, FrameFields DEF AreStrings, Values, SNDMORE, V
  <2>4. left = <<h, k>>
    BY <1>10 DEF left, Left
  <2> HIDE DEF x, y, h, k
  <2>5. left \in Seq(Frames(V)) /\ Len(left) = 2
    BY ONLY <2>3, <2>4
  <2>6. SubSeq(m, n + 1, Len(m)) = left
    BY ONLY <1>2, <1>3, <1>6, <2>5, SameSubSeq
  <2>7. n < Len(m)
    BY <1>3, <1>6, <2>5
  <2>8. forward_messages(it) = left
    BY <1>2, <1>4, <1>6, <2>6, <2>7, DrainedAt DEF V
  <2>9. r.it.ok /\ ~r.it.has_more /\ r.data = <<x, y>>
    <3>1. Forwards(it, x, y)
      BY ONLY <2>4, <2>8 DEF h, k, Forwards
    <3>2. c.info \in AnyInfo(P, T) /\ x \in T /\ y \in T
      BY ONLY <2>1, <2>2
    <3>3. Arrives(Received(c.info, forward_to(c.info, it)), x, y)
      BY ONLY AreStrings(T), Me \in T, <3>1, <3>2, ForwardedRead
    <3> QED BY ONLY <3>3 DEF r, Arrives
  <2> QED BY ONLY <2>2, <2>9
<1> QED BY ONLY <1>7, <1>8, <1>9, <1>10 DEF CommandUnderstood, it, r, got, fields, m

\* A message of any length and shape from outside does no harm: ROUTER and DEALER
\* sockets read none of the next message, wait for no frame that nobody sends,
\* and the next header and payload arrive.
THEOREM ForeignMessagesHarmless ==
    ASSUME NEW P, NEW T, AreStrings(T), Me \in T, NEW m, IsMessage(m, Values(P, T)),
           NEW data \in T \X T
    PROVE  ForeignHarmless(m, data)
<1> DEFINE V == Values(P, T)
           x == data[1]
           y == data[2]
           i == Frame(Me.length, Me, SNDMORE)
           e == Frame(0, "", SNDMORE)
           h == Frame(x.length, x, SNDMORE)
           k == Frame(y.length, y, FALSE)
           good == send_empty_message(SNDMORE) \o write_vector_to_socket(data)
           q == AddIdentity(Me, m)
           asRouter == handle_router_socket(q \o good)
           asDealer == handle_dealer_socket(m \o good)
<1>1. x \in T /\ y \in T /\ data = <<x, y>>
  OBVIOUS
<1> HIDE DEF x, y
<1>2. /\ i \in Frames(V) /\ e \in Frames(V) /\ h \in Frames(V) /\ k \in Frames(V)
      /\ i.more /\ e.more /\ h.more /\ ~k.more
  BY ONLY AreStrings(T), Me \in T, <1>1, FrameFields DEF AreStrings, Values, SNDMORE
<1>3. e.size = 0 /\ h.val = x /\ k.val = y
  BY DEF Frame
<1>4. good = <<e>> \o <<h, k>>
  <2>1. write_vector_to_socket(<<x, y>>) = <<h, k>>
    BY VectorWritten
  <2> QED BY <1>1, <2>1 DEF send_empty_message
<1>5. q = <<i>> \o m
  BY DEF AddIdentity, send_string
<1> HIDE DEF V, i, e, h, k, good, q, asRouter, asDealer
<1>6. good = <<e, h, k>>
  BY ONLY <1>2, <1>4, ThreeFrames
<1>7. IsMessage(good, V) /\ handle_dealer_socket(good).data = data
  <2>1. /\ IsMessage(<<e, h, k>>, V)
        /\ LET r == handle_dealer_socket(<<e, h, k>>) IN
              r.it.ok /\ ~r.it.has_more /\ r.data = <<h.val, k.val>>
        /\ LET r == handle_router_socket(<<i>> \o <<e, h, k>>) IN
              r.it.ok /\ ~r.it.has_more /\ r.data = <<h.val, k.val>>
    BY ONLY <1>2, <1>3, DataRead
  <2> QED BY ONLY <1>1, <1>3, <1>6, <2>1
<1>8. good \in Seq(Frames(V))
  BY <1>7 DEF IsMessage
<1>9. IsMessage(q, V) /\ Len(q) = 1 + Len(m)
  <2> DEFINE pre == <<i>>
  <2>1. pre \in Seq(Frames(V)) /\ Len(pre) = 1 /\ pre[1] = i
    BY ONLY <1>2
  <2> HIDE DEF pre
  <2>2. \A n \in 1 .. Len(pre) : pre[n].more
    BY <1>2, <2>1
  <2>3. /\ IsMessage(pre \o m, V) /\ Len(pre \o m) = Len(pre) + Len(m)
        /\ \A n \in 1 .. Len(pre) : (pre \o m)[n] = pre[n]
        /\ \A n \in 1 .. Len(m) : (pre \o m)[Len(pre) + n] = m[n]
    <3>1. IsMessage(m, V) /\ pre \in Seq(Frames(V))
      BY <2>1 DEF V
    <3> QED BY ONLY <2>2, <3>1, Assembled
  <2> QED BY <1>5, <2>1, <2>3 DEF pre
<1>10. Len(m) \in Nat /\ Len(m) # 0
  BY DEF IsMessage
<1>11. PICK j \in 0 .. Len(m) : asDealer.it = At(m, j, good)
  BY <1>8, DealerRead DEF V, asDealer
<1>12. PICK l \in 0 .. Len(q) : asRouter.it = At(q, l, good)
  BY <1>8, <1>9, <1>10, RouterRead DEF asRouter
<1>13. asDealer.it.ok /\ Drained(asDealer.it) = good
  BY <1>8, <1>11, DrainedAt, OkAt DEF V
<1>14. asRouter.it.ok /\ Drained(asRouter.it) = good
  BY <1>8, <1>9, <1>12, DrainedAt, OkAt
<1> QED BY ONLY <1>7, <1>13, <1>14 DEF ForeignHarmless, asRouter, asDealer, good, q

\* Only the empty sequence has the length 0.
LEMMA NotEmpty ==
    ASSUME NEW s, Len(s) # 0
    PROVE  s # <<>>
<1>1. Len(<<>>) = 0
  OBVIOUS
<1> QED BY ONLY Len(s) # 0, <1>1

\* The answers to connect(), bind() and unbind() are two frames.
LEMMA TwoFramesRead ==
    ASSUME NEW V, NEW a \in Frames(V), NEW b \in Frames(V), a.more, ~b.more
    PROVE  LET r == ReadTwo(<<a>> \o <<b>>)
               s == ReadBindAnswer(<<a>> \o <<b>>)
           IN /\ r.ok /\ ~r.has_more /\ r.got[2] = b.val
              /\ a.size = 0 /\ b.size = 8 => s.ok /\ s.got[2] = b.val
<1> DEFINE m == <<a>> \o <<b>>
           none == <<>>
           it == At(m, 2, none)
<1>1. m \in Seq(Frames(V)) /\ Len(m) = 2 /\ m[1] = a /\ m[2] = b
  BY ONLY a \in Frames(V), b \in Frames(V)
<1>2. none = <<>> /\ Len(none) = 0 /\ none \in Seq(Frames(V))
  OBVIOUS
<1> HIDE DEF m, none
<1>3. IsMessage(m, V)
  <2>0. Len(m) # 0
    BY ONLY <1>1
  <2>1. m # <<>>
    BY ONLY <2>0, NotEmpty
  <2>2. \A n \in 1 .. 2 : m[n].more <=> n < 2
    BY <1>1
  <2> QED BY ONLY <1>1, <2>1, <2>2 DEF IsMessage
<1>4. message_iterator(m) = At(m, 0, none)
  <2>1. m \o none = m /\ none \in Seq(Frames(V))
    BY <1>1, <1>2, ConcatEmptySeq
  <2> QED BY ONLY <1>3, <2>1, StartAt
<1>5. 0 \in 0 .. Len(m) - 1 /\ 1 \in 0 .. Len(m) - 1 /\ 0 + 1 = 1 /\ 1 + 1 = 2 /\ 1 < Len(m)
      /\ 2 \in 0 .. Len(m) /\ ~(2 < Len(m))
  BY <1>1
<1>6. ReadTwo(m) = it
  <2>0. none \in Seq(Frames(V))
    BY <1>2
  <2>1. next(At(m, 0, none)) = At(m, 1, none)
    BY ONLY <1>3, <1>5, <2>0, NextAt
  <2>2. next(At(m, 1, none)) = At(m, 2, none)
    BY ONLY <1>3, <1>5, <2>0, NextAt
  <2> QED BY ONLY <1>4, <2>1, <2>2 DEF ReadTwo
<1>7. ASSUME a.size = 0, b.size = 8 PROVE ReadBindAnswer(m) = it
  <2>1. m[1].size = 0 /\ m[2].size = 8 /\ none \in Seq(Frames(V))
    BY <1>1, <1>2, <1>7
  <2>2. interpret(At(m, 0, none), 0) = At(m, 1, none)
    BY ONLY <1>3, <1>5, <2>1, NextAt
  <2>3. AssertMore(At(m, 1, none)) = At(m, 1, none)
    BY ONLY <1>5, AssertMoreAt
  <2>4. interpret(At(m, 1, none), 8) = At(m, 2, none)
    BY ONLY <1>3, <1>5, <2>1, NextAt
  <2>5. AssertNoMore(At(m, 2, none)) = At(m, 2, none)
    BY ONLY <1>5, AssertNoMoreAt
  <2> QED BY ONLY <1>4, <2>2, <2>3, <2>4, <2>5 DEF ReadBindAnswer
<1>8. it.ok /\ ~it.has_more
  BY ONLY <1>5, OkAt, MoreAt
<1>9. it.got[2] = b.val
  <2>1. 2 \in 1 .. 2
    OBVIOUS
  <2>2. it.got[2] = m[2].val
    BY ONLY <1>3, <1>5, <2>1, GotAt
  <2> QED BY ONLY <1>1, <2>2
<1> HIDE DEF it
<1> QED BY ONLY <1>6, <1>7, <1>8, <1>9 DEF m

\* The answers to connect, bind and unbind are read as they were written.
LEMMA AnswersRead == AnswersUnderstood
<1> DEFINE V == {"", 1}
           a == Frame(0, "", SNDMORE)
           b == Frame(8, 1, FALSE)
           c == Frame(0, "", FALSE)
<1>1. a \in Frames(V) /\ b \in Frames(V) /\ c \in Frames(V) /\ a.more /\ ~b.more /\ ~c.more
  BY FrameFields DEF SNDMORE
<1>2. a.size = 0 /\ b.size = 8 /\ b.val = 1
  BY DEF Frame
<1>3. IndexAnswer(1) = <<a>> \o <<b>> /\ UnbindAnswer = <<a>> \o <<c>>
  BY DEF IndexAnswer, UnbindAnswer, send_empty_message, send_uint64
<1> HIDE DEF V, a, b, c
<1>4. LET r == ReadTwo(<<a>> \o <<b>>)
          s == ReadBindAnswer(<<a>> \o <<b>>)
      IN /\ r.ok /\ ~r.has_more /\ r.got[2] = b.val
         /\ a.size = 0 /\ b.size = 8 => s.ok /\ s.got[2] = b.val
  BY ONLY <1>1, TwoFramesRead
<1>5. LET r == ReadTwo(<<a>> \o <<c>>)
          s == ReadBindAnswer(<<a>> \o <<c>>)
      IN /\ r.ok /\ ~r.has_more /\ r.got[2] = c.val
         /\ a.size = 0 /\ c.size = 8 => s.ok /\ s.got[2] = c.val
  BY ONLY <1>1, TwoFramesRead
<1> QED BY ONLY <1>2, <1>3, <1>4, <1>5 DEF AnswersUnderstood

-----------------------------------------------------------------------------
(* The behaviours of MCHelpers                                             *)

\* The inputs that a behaviour can pick.
IsInput(x) ==
    \/ x = NoInput
    \/ x \in [kind : {"commands"}, first : Commands, second : Commands]
    \/ x \in [kind : {"foreign"}, message : ForeignMessages, data : Datas]
    \/ \E fn \in Functions_ :
          x \in [kind : {"args"}, fn : {fn}, npos : 0 .. MaxPositional, kws : Keywords(fn)]
    \/ x \in [kind : {"value"}, value : PyValues]
    \/ x \in [kind : {"codes"}, name : FileCodes]
    \/ x \in [kind : {"service"}, file : Files]
    \/ x \in [kind : {"file"}, name : ProtoNames, package : Packages, size : 0 .. MaxFileSize,
              options : Options]

\* A behaviour only ever has one of these inputs.
LEMMA InputInvariance == HSpec => []IsInput(input)
<1>1. HInit => IsInput(input)
  BY DEF HInit, IsInput
<1>2. IsInput(input) /\ [HNext]_hvars => IsInput(input)'
  <2> SUFFICES ASSUME IsInput(input), [HNext]_hvars PROVE IsInput(input)'
    OBVIOUS
  <2>1. CASE UNCHANGED input
    BY <2>1 DEF IsInput
  <2>2. CASE HNext /\ ~UNCHANGED input
    BY <2>2 DEF HNext, Pick, IsInput
  <2>3. CASE UNCHANGED hvars
    BY <2>1, <2>3 DEF hvars
  <2> QED BY <2>1, <2>2, <2>3
<1> QED BY <1>1, <1>2, PTL DEF HSpec

\* The strings and numbers of the inputs.
TextNames == {"frontend identity", "endpoint", "peer", "", "header", "payload", "service", "foreign"}
Texts == [s : TextNames, length : Nat]

\* The commands and data of the inputs are such as the theorems above are about.
LEMMA InputStrings ==
    /\ AreStrings(Texts) /\ Me \in Texts
    /\ Commands \subseteq AnyCommand(Nat, Texts)
    /\ Datas \subseteq Texts \X Texts
<1>1. AreStrings(Texts) /\ Me \in Texts
  BY DEF AreStrings, Texts, TextNames, Me, Str
<1>2. Datas \subseteq Texts \X Texts
  <2>1. Str("header", 9) \in Texts /\ \A n \in {0, 8} : Str("payload", n) \in Texts
    BY DEF Texts, TextNames, Str
  <2> QED BY <2>1 DEF Datas
<1>3. Infos \subseteq AnyInfo(Nat, Texts)
  <2>1. Str("peer", 5) \in Texts /\ Str("", 0) \in Texts
    BY DEF Texts, TextNames, Str
  <2> DEFINE A == {TRUE}
             B == {FALSE}
             C == BOOLEAN
             S == {Str("peer", 5)}
             R == {Str("", 0)}
  <2>2. A \subseteq C /\ B \subseteq C
    OBVIOUS
  <2>3. Infos = [is_router : A, index : {1}, sender : S] \cup [is_router : B, index : {1}, sender : R]
        /\ AnyInfo(Nat, Texts) = [is_router : C, index : Nat, sender : Texts]
        /\ S \subseteq Texts /\ R \subseteq Texts
    BY <2>1 DEF Infos, AnyInfo
  <2> HIDE DEF A, B, C, S, R
  <2>4. [is_router : A, index : {1}, sender : S] \subseteq [is_router : C, index : Nat, sender : Texts]
    BY ONLY <2>2, <2>3, 1 \in Nat
  <2>5. [is_router : B, index : {1}, sender : R] \subseteq [is_router : C, index : Nat, sender : Texts]
    BY ONLY <2>2, <2>3, 1 \in Nat
  <2> QED BY ONLY <2>3, <2>4, <2>5, Zenon
<1>4. Endpoint \in Texts /\ Str("service", 7) \in Texts
  BY DEF Endpoint, Texts, TextNames, Str
<1>5. Commands \subseteq AnyCommand(Nat, Texts)
  BY <1>2, <1>3, <1>4 DEF Commands, AnyCommand
<1> QED BY <1>1, <1>2, <1>5

\* So are the messages from outside.
LEMMA ForeignShape ==
    ASSUME NEW m \in ForeignMessages
    PROVE  IsMessage(m, Values(Nat, Texts))
<1> DEFINE V == Values(Nat, Texts)
<1>0. PICK n \in 1 .. MaxFrames : \E sizes \in [1 .. n -> {0, 1, 8}] :
         m = [i \in DOMAIN sizes |-> Frame(sizes[i], Str("foreign", sizes[i]), i < Len(sizes))]
  BY DEF ForeignMessages
<1>1. PICK sizes \in [1 .. n -> {0, 1, 8}] :
         m = [i \in DOMAIN sizes |-> Frame(sizes[i], Str("foreign", sizes[i]), i < Len(sizes))]
  BY <1>0
<1>2. n \in Nat /\ n >= 1
  OBVIOUS
<1>3. DOMAIN sizes = 1 .. n /\ Len(sizes) = n
  BY <1>2
<1>4. ASSUME NEW i \in 1 .. n
      PROVE  m[i] \in Frames(V) /\ m[i].more = (i < n)
  <2> DEFINE t == Str("foreign", sizes[i])
             b == i < n
  <2>1. sizes[i] \in Nat
    BY <1>2
  <2>2. t \in V
    BY ONLY <2>1 DEF V, Values, Texts, TextNames, Str
  <2>3. m[i] = Frame(sizes[i], t, b) /\ b \in BOOLEAN
    BY <1>1, <1>3
  <2> HIDE DEF t, b, V
  <2>4. m[i] \in Frames(V) /\ m[i].more = b
    BY <2>1, <2>2, <2>3, FrameFields
  <2> QED BY <2>4 DEF b
<1>5. m \in Seq(Frames(V)) /\ Len(m) = n
  BY <1>1, <1>2, <1>3, <1>4
<1>6. m # <<>>
  BY ONLY <1>2, <1>5, NotEmpty
<1> QED BY <1>4, <1>5, <1>6 DEF IsMessage

\* In every state of every behaviour the messages are understood.
THEOREM EveryMessageUnderstood == HSpec => []MessagesUnderstood
<1>1. ASSUME IsInput(input) PROVE MessagesUnderstood
  <2>1. ASSUME input.kind = "commands"
        PROVE  /\ CommandUnderstood(input.first, AddIdentity(Me, Written(input.second)))
               /\ AnswersUnderstood
    <3>1. input.first \in Commands /\ input.second \in Commands
      BY <1>1, <2>1 DEF IsInput, NoInput
    <3>2. input.first \in AnyCommand(Nat, Texts) /\ input.second \in AnyCommand(Nat, Texts)
          /\ AreStrings(Texts) /\ Me \in Texts
      BY <3>1, InputStrings
    <3> DEFINE then == AddIdentity(Me, Written(input.second))
    <3>3. WrittenAs(then, Values(Nat, Texts), input.second.cmd, Fields(input.second),
                    Left(input.second))
      BY <3>2, EveryCommandWritten
    <3>4. then \in Seq(Frames(Values(Nat, Texts)))
      BY <3>3 DEF WrittenAs, IsMessage
    <3> QED BY <3>2, <3>4, CommandsUnderstood, AnswersRead
  <2>2. ASSUME input.kind = "foreign" PROVE ForeignHarmless(input.message, input.data)
    <3>1. input.message \in ForeignMessages /\ input.data \in Datas
      BY <1>1, <2>2 DEF IsInput, NoInput
    <3>2. input.data \in Texts \X Texts /\ AreStrings(Texts) /\ Me \in Texts
      BY <3>1, InputStrings
    <3>3. IsMessage(input.message, Values(Nat, Texts))
      BY <3>1, ForeignShape
    <3> QED BY <3>2, <3>3, ForeignMessagesHarmless
  <2> QED BY <2>1, <2>2 DEF MessagesUnderstood
<1> QED BY <1>1, InputInvariance, PTL

-----------------------------------------------------------------------------
(* Arguments of the Python binding                                         *)

\* The powers of two, counted as subsets.
LEMMA SubsetsOf ==
    ASSUME NEW n \in Nat
    PROVE  /\ IsFiniteSet(SUBSET (1 .. n)) /\ Cardinality(SUBSET (1 .. n)) = 2 ^ n
           /\ 2 ^ n \in Nat /\ 2 ^ n >= 1
<1>1. IsFiniteSet(1 .. n) /\ Cardinality(1 .. n) = n
  <2>1. IsFiniteSet(1 .. n) /\ Cardinality(1 .. n) = IF 1 > n THEN 0 ELSE n - 1 + 1
    BY FS_Interval
  <2> QED BY <2>1
<1> DEFINE S == SUBSET (1 .. n)
           N == Cardinality(S)
<1>2. IsFiniteSet(S) /\ N = 2 ^ n
  BY <1>1, FS_SUBSET, Zenon
<1>3. {} \in S
  OBVIOUS
<1> HIDE DEF S
<1>4. N \in Nat /\ N # 0
  BY <1>2, <1>3, FS_CardinalityType, FS_EmptySet
<1> HIDE DEF N
<1>5. N >= 1
  BY <1>4
<1> QED BY <1>2, <1>4, <1>5 DEF N, S

\* Powers of two grow.
LEMMA PowersGrow ==
    ASSUME NEW m \in Nat, NEW n \in Nat, m <= n
    PROVE  2 ^ m <= 2 ^ n
<1> DEFINE A == SUBSET (1 .. m)
           B == SUBSET (1 .. n)
<1>1. A \in SUBSET B
  <2>1. 1 .. m \subseteq 1 .. n
    OBVIOUS
  <2> QED BY <2>1, Zenon
<1>2. IsFiniteSet(B) /\ Cardinality(B) = 2 ^ n /\ Cardinality(A) = 2 ^ m
  BY SubsetsOf
<1> HIDE DEF A, B
<1>3. Cardinality(A) <= Cardinality(B)
  BY <1>1, <1>2, FS_Subset
<1> QED BY <1>2, <1>3

\* The next power of two is twice as large.
LEMMA PowerDoubles ==
    ASSUME NEW n \in Nat
    PROVE  2 ^ (n + 1) = 2 * 2 ^ n
<1> DEFINE l == n + 1
           A == SUBSET (1 .. n)
           L == SUBSET (1 .. l)
           B == {X \cup {l} : X \in A}
           f == [X \in A |-> X \cup {l}]
<1>2. 1 .. l = (1 .. n) \cup {l} /\ l \notin 1 .. n /\ l \in Nat
  OBVIOUS
<1> HIDE DEF l
<1>1. IsFiniteSet(A) /\ Cardinality(A) = 2 ^ n /\ Cardinality(L) = 2 ^ l /\ 2 ^ n \in Nat
  BY <1>2, SubsetsOf
<1>3. L = A \cup B
  <2>1. ASSUME NEW X \in L PROVE X \in A \cup B
    <3>1. X \ {l} \in A
      BY <1>2
    <3>2. CASE l \in X
      <4>1. X = (X \ {l}) \cup {l}
        BY <3>2
      <4> QED BY <3>1, <4>1, Zenon
    <3>3. CASE l \notin X
      <4>1. X = X \ {l}
        BY <3>3
      <4> QED BY <3>1, <4>1
    <3> QED BY <3>2, <3>3
  <2>2. ASSUME NEW X \in A PROVE X \in L /\ X \cup {l} \in L
    BY <1>2
  <2> HIDE DEF A, L
  <2>3. A \cup B \subseteq L
    BY <2>2
  <2> QED BY <2>1, <2>3, Zenon
<1>4. A \cap B = {}
  BY <1>2
<1>5. f \in Bijection(A, B)
  <2>1. f \in [A -> B]
    OBVIOUS
  <2>2. \A X, Y \in A : f[X] = f[Y] => X = Y
    <3> TAKE X, Y \in A
    <3>1. l \notin X /\ l \notin Y
      BY <1>2
    <3> SUFFICES ASSUME X \cup {l} = Y \cup {l} PROVE X = Y
      OBVIOUS
    <3>2. \A z : z \in X <=> z \in Y
      BY <3>1
    <3> QED BY <3>2, Zenon
  <2>3. \A Y \in B : \E X \in A : f[X] = Y
    OBVIOUS
  <2> QED BY <2>1, <2>2, <2>3 DEF Bijection, Injection, Surjection, IsInjective
<1> HIDE DEF A, B, L, f
<1>6. IsFiniteSet(B) /\ Cardinality(B) = Cardinality(A)
  <2>1. ExistsBijection(A, B)
    BY <1>5 DEF ExistsBijection
  <2> QED BY <1>1, <2>1, FS_Bijection
<1>7. Cardinality(L) = Cardinality(A) + Cardinality(B) - Cardinality(A \cap B)
  BY <1>1, <1>3, <1>6, FS_Union
<1>8. Cardinality(A \cap B) = 0
  BY <1>4, FS_EmptySet
<1> DEFINE p == 2 ^ n
           q == 2 ^ l
<1>9. p \in Nat /\ q = p + p - 0
  BY <1>1, <1>6, <1>7, <1>8
<1> HIDE DEF p, q
<1>10. q = 2 * p
  BY <1>9
<1> QED BY <1>10 DEF p, q, l

\* A number is what an integer of that width holds after truncation just if it fits.
LEMMA TruncatedFits ==
    ASSUME NEW bits \in Nat \ {0}, NEW v \in Int
    PROVE  /\ 2 ^ (bits - 1) \in Nat /\ 2 ^ (bits - 1) >= 1
           /\ v = Truncated(v, bits) <=> Fits(v, bits)
<1> DEFINE h == 2 ^ (bits - 1)
           w == 2 ^ bits
<1>1. bits - 1 \in Nat /\ bits - 1 + 1 = bits
  OBVIOUS
<1>2. h \in Nat /\ h >= 1 /\ w = 2 * h
  BY <1>1, SubsetsOf, PowerDoubles
<1>3. Fits(v, bits) <=> -h <= v /\ v < h
  BY DEF Fits
<1>4. Truncated(v, bits) = ((v + h) % w) - h
  BY DEF Truncated
<1> HIDE DEF h, w
<1>5. w \in Nat /\ w > 0 /\ v + h \in Int
  BY <1>2
<1>6. (v + h) % w \in 0 .. w - 1
  BY <1>5
<1>7. v + h \in 0 .. w - 1 => (v + h) % w = v + h
  BY <1>5
<1> DEFINE r == (v + h) % w
<1> HIDE DEF r
<1>8. v = r - h <=> -h <= v /\ v < h
  BY <1>2, <1>5, <1>6, <1>7 DEF r
<1> QED BY <1>2, <1>3, <1>4, <1>8 DEF h, r

\* Different names.
Different(names) == \A i, j \in 1 .. Len(names) : names[i] = names[j] => i = j

\* The arguments after the positional ones that are among the keywords K.
Asked(K, names, npos) == {i \in npos + 1 .. Len(names) : names[i] \in K}

\* The count of the keywords that are left is 0 just if each was asked for.
LEMMA KeywordsLeft ==
    ASSUME NEW K, IsFiniteSet(K), NEW N, NEW names \in Seq(N), Different(names), NEW npos \in Nat
    PROVE  ~(Cardinality(K) - Cardinality(Asked(K, names, npos)) > 0)
           <=> \A key \in K : \E i \in Asked(K, names, npos) : names[i] = key
<1> DEFINE asked == {i \in npos + 1 .. Len(names) : names[i] \in K}
           f == [i \in asked |-> names[i]]
<1>1. Len(names) \in Nat /\ asked \subseteq 1 .. Len(names)
  OBVIOUS
<1>2. f \in Injection(asked, K)
  <2>1. f \in [asked -> K]
    OBVIOUS
  <2>2. \A i, j \in asked : f[i] = f[j] => i = j
    BY <1>1 DEF Different
  <2> QED BY <2>1, <2>2 DEF Injection, IsInjective
<1>3. f \in Surjection(asked, K) <=> \A key \in K : \E i \in asked : names[i] = key
  <2>1. f \in [asked -> K] /\ \A i \in asked : f[i] = names[i]
    OBVIOUS
  <2> HIDE DEF f, asked
  <2> QED BY <2>1 DEF Surjection
<1> HIDE DEF asked, f
<1>4. /\ IsFiniteSet(asked) /\ Cardinality(asked) <= Cardinality(K)
      /\ Cardinality(asked) = Cardinality(K) <=> f \in Surjection(asked, K)
  BY <1>2, FS_Injection
<1>5. Cardinality(asked) \in Nat /\ Cardinality(K) \in Nat
  BY <1>4, FS_CardinalityType
<1>6. ~(Cardinality(K) - Cardinality(asked) > 0) <=> Cardinality(asked) = Cardinality(K)
  BY <1>4, <1>5
<1> QED BY <1>3, <1>4, <1>6 DEF asked, Asked

\* When Unpack() succeeds: every required argument is there, no keyword is unknown
\* or repeats a positional argument.
Accepts(pos, kw, names, required) ==
    /\ Len(pos) <= Len(names)
    /\ \A i \in Len(pos) + 1 .. required : names[i] \in DOMAIN kw
    /\ ParseOptionalKeywords(kw, names, Len(pos))

\* Unpacking succeeds exactly if the call is accepted, and then finds the values of
\* all parameters.
LEMMA UnpackAccepts ==
    ASSUME NEW S, NEW pos \in Seq(S), NEW kw, IsFiniteSet(DOMAIN kw), NEW N, NEW names \in Seq(N),
           Different(names), NEW required \in 0 .. Len(names)
    PROVE  LET r == Unpack(pos, kw, names, required) IN
           /\ r.ok <=> Accepts(pos, kw, names, required)
           /\ r.ok => \A i \in 1 .. Len(names) :
                 /\ i <= Len(pos) => r.values[i] = pos[i]
                 /\ ~(i <= Len(pos)) /\ names[i] \in DOMAIN kw => r.values[i] = kw[names[i]]
<1> DEFINE npos == Len(pos)
           asked == {i \in npos + 1 .. Len(names) : names[i] \in DOMAIN kw}
           left == Cardinality(DOMAIN kw) - Cardinality(asked)
           value(i) == CASE i <= npos -> pos[i] [] i \in asked -> kw[names[i]] [] OTHER -> "default"
           bad == \/ npos > Len(names)
                  \/ ~(npos + 1 .. required \subseteq asked)
                  \/ left > 0 /\ ~ParseOptionalKeywords(kw, names, npos)
           r == Unpack(pos, kw, names, required)
           vals == [i \in DOMAIN names |-> value(i)]
<1>1. npos \in Nat /\ Len(names) \in Nat /\ required \in Nat /\ DOMAIN names = 1 .. Len(names)
  OBVIOUS
<1>2. r = IF bad THEN TypeError ELSE [ok |-> TRUE, values |-> vals]
  BY DEF Unpack
<1>3. left > 0 \/ ParseOptionalKeywords(kw, names, npos)
  <2> SUFFICES ASSUME ~(left > 0) PROVE ParseOptionalKeywords(kw, names, npos)
    OBVIOUS
  <2>0. ~(left > 0) <=> \A key \in DOMAIN kw : \E i \in asked : names[i] = key
    <3> DEFINE K == DOMAIN kw
    <3>1. IsFiniteSet(K)
      OBVIOUS
    <3> HIDE DEF K
    <3> HIDE DEF npos
    <3>2. ~(Cardinality(K) - Cardinality(Asked(K, names, npos)) > 0)
          <=> \A key \in K : \E i \in Asked(K, names, npos) : names[i] = key
      BY ONLY <1>1, <3>1, names \in Seq(N), Different(names), KeywordsLeft
    <3>3. asked = Asked(K, names, npos)
      BY DEF Asked, K
    <3> HIDE DEF asked
    <3> QED BY ONLY <3>2, <3>3 DEF K
  <2>1. \A key \in DOMAIN kw : \E i \in asked : names[i] = key
    BY <2>0
  <2> QED BY <2>1 DEF ParseOptionalKeywords
<1>4. npos + 1 .. required \subseteq asked <=> \A i \in npos + 1 .. required : names[i] \in DOMAIN kw
  BY <1>1
<1>5. bad <=> ~Accepts(pos, kw, names, required)
  <2> HIDE DEF asked, left
  <2> QED BY <1>1, <1>3, <1>4 DEF Accepts
<1> HIDE DEF bad, r
<1>6. CASE bad
  <2>1. ~r.ok
    BY <1>2, <1>6 DEF TypeError
  <2> QED BY <1>5, <1>6, <2>1 DEF r
<1>7. CASE ~bad
  <2> HIDE DEF vals
  <2>1. r.ok /\ r.values = vals
    BY <1>2, <1>7
  <2>2. ASSUME NEW i \in 1 .. Len(names)
        PROVE  /\ i <= npos => vals[i] = pos[i]
               /\ ~(i <= npos) /\ names[i] \in DOMAIN kw => vals[i] = kw[names[i]]
    <3>1. vals[i] = value(i)
      BY <1>1 DEF vals
    <3>2. CASE i <= npos
      <4>1. i \notin asked
        BY <1>1, <3>2
      <4> HIDE DEF asked
      <4> QED BY <3>1, <3>2, <4>1
    <3>3. CASE ~(i <= npos) /\ names[i] \in DOMAIN kw
      <4>1. i \in asked
        BY <1>1, <3>3
      <4> HIDE DEF asked
      <4> QED BY <3>1, <3>3, <4>1
    <3> QED BY <3>2, <3>3
  <2> QED BY <1>5, <1>7, <2>1, <2>2 DEF r
<1> QED BY <1>6, <1>7

\* The wrappers bind positional and keyword arguments as Python defines it, for any
\* number of either, if no positional value is also the value of a keyword.
THEOREM BoundAsInPython ==
    ASSUME NEW S, NEW pos \in Seq(S), NEW kw, IsFiniteSet(DOMAIN kw), NEW N, NEW names \in Seq(N),
           Different(names), NEW required \in 0 .. Len(names),
           \A i \in 1 .. Len(pos) : \A key \in DOMAIN kw : pos[i] # kw[key]
    PROVE  Bound(Unpack(pos, kw, names, required), pos, kw, names, required)
<1> DEFINE npos == Len(pos)
           r == Unpack(pos, kw, names, required)
           src(i) == Sources(i, pos, kw, names)
<1>1. npos \in Nat /\ Len(names) \in Nat /\ required \in Nat /\ DOMAIN names = 1 .. Len(names)
      /\ required <= Len(names)
  OBVIOUS
<1>2. /\ r.ok <=> Accepts(pos, kw, names, required)
      /\ r.ok => \A i \in 1 .. Len(names) :
            /\ i <= npos => r.values[i] = pos[i]
            /\ ~(i <= npos) /\ names[i] \in DOMAIN kw => r.values[i] = kw[names[i]]
  BY UnpackAccepts
<1> HIDE DEF r
<1>3. ASSUME Accepts(pos, kw, names, required)
      PROVE  /\ npos <= Len(names)
             /\ DOMAIN kw \subseteq {names[i] : i \in DOMAIN names}
             /\ \A i \in DOMAIN names :
                   /\ Cardinality(src(i)) <= 1
                   /\ i <= required => src(i) # {}
                   /\ src(i) # {} => r.ok /\ r.values[i] \in src(i)
  <2>1. /\ npos <= Len(names)
        /\ \A i \in npos + 1 .. required : names[i] \in DOMAIN kw
        /\ \A key \in DOMAIN kw : \E i \in npos + 1 .. Len(names) : names[i] = key
    BY <1>3 DEF Accepts, ParseOptionalKeywords
  <2>2. DOMAIN kw \subseteq {names[i] : i \in DOMAIN names}
    <3>1. \A key \in DOMAIN kw : \E i \in 1 .. Len(names) : names[i] = key
      BY <1>1, <2>1
    <3> QED BY <1>1, <3>1
  <2>3. ASSUME NEW i \in 1 .. Len(names)
        PROVE  /\ Cardinality(src(i)) <= 1
               /\ i <= required => src(i) # {}
               /\ src(i) # {} => r.ok /\ r.values[i] \in src(i)
    <3>1. CASE i <= npos
      <4>1. names[i] \notin DOMAIN kw
        <5> SUFFICES ASSUME names[i] \in DOMAIN kw PROVE FALSE
          OBVIOUS
        <5>1. PICK j \in npos + 1 .. Len(names) : names[j] = names[i]
          BY <2>1
        <5>2. j \in 1 .. Len(names) /\ j # i
          BY <1>1, <3>1
        <5> QED BY <5>1, <5>2 DEF Different
      <4>2. src(i) = {pos[i]}
        BY <3>1, <4>1 DEF Sources
      <4>3. r.values[i] = pos[i] /\ r.ok
        BY <1>2, <1>3, <3>1
      <4> HIDE DEF src
      <4>4. Cardinality(src(i)) = 1
        BY ONLY <4>2, FS_Singleton
      <4>5. r.values[i] \in src(i) /\ src(i) # {} /\ Cardinality(src(i)) <= 1
        BY ONLY <4>2, <4>3, <4>4
      <4>6. r.ok
        BY <4>2, <4>3
      <4> QED BY ONLY <4>5, <4>6
    <3>2. CASE ~(i <= npos) /\ names[i] \in DOMAIN kw
      <4>1. src(i) = {kw[names[i]]}
        BY <3>2 DEF Sources
      <4>2. r.values[i] = kw[names[i]] /\ r.ok
        BY <1>2, <1>3, <3>2
      <4> HIDE DEF src
      <4>4. Cardinality(src(i)) = 1
        BY ONLY <4>1, FS_Singleton
      <4>5. r.values[i] \in src(i) /\ src(i) # {} /\ Cardinality(src(i)) <= 1
        BY ONLY <4>1, <4>2, <4>4
      <4>6. r.ok
        BY <4>1, <4>2
      <4> QED BY ONLY <4>5, <4>6
    <3>3. CASE ~(i <= npos) /\ names[i] \notin DOMAIN kw
      <4>1. src(i) = {}
        BY <3>3 DEF Sources
      <4>2. ~(i <= required)
        <5> SUFFICES ASSUME i <= required PROVE FALSE
          OBVIOUS
        <5>1. i \in npos + 1 .. required
          BY <1>1, <3>3
        <5> QED BY <2>1, <3>3, <5>1
      <4> HIDE DEF src
      <4> QED BY <4>1, <4>2, FS_EmptySet
    <3> QED BY <3>1, <3>2, <3>3
  <2> HIDE DEF src
  <2> QED BY <1>1, <2>1, <2>2, <2>3
<1>4. ASSUME npos <= Len(names),
             DOMAIN kw \subseteq {names[i] : i \in DOMAIN names},
             \A i \in DOMAIN names :
                /\ Cardinality(src(i)) <= 1
                /\ i <= required => src(i) # {}
      PROVE  Accepts(pos, kw, names, required)
  <2>1. ASSUME NEW i \in npos + 1 .. required PROVE names[i] \in DOMAIN kw
    <3>1. i \in DOMAIN names /\ i <= required /\ ~(i <= npos)
      BY <1>1
    <3>2. src(i) # {}
      BY <1>4, <3>1
    <3> QED BY <3>1, <3>2 DEF Sources
  <2>2. ASSUME NEW key \in DOMAIN kw PROVE \E i \in npos + 1 .. Len(names) : names[i] = key
    <3>1. PICK i \in 1 .. Len(names) : names[i] = key
      BY <1>1, <1>4
    <3>2. CASE i <= npos
      <4> DEFINE a == pos[i]
                 b == kw[key]
      <4>1. a # b
        BY <3>2
      <4>2. src(i) = {a} \cup {b}
        BY <3>1, <3>2 DEF Sources
      <4>3. Cardinality(src(i)) <= 1
        BY <1>1, <1>4
      <4> HIDE DEF a, b, src
      <4>4. IsFiniteSet({a}) /\ Cardinality({a}) = 1 /\ b \notin {a}
        BY <4>1, FS_Singleton
      <4>5. Cardinality({a} \cup {b}) = Cardinality({a}) + 1
        BY <4>4, FS_AddElement
      <4> DEFINE c == Cardinality({a})
                 d == Cardinality({a} \cup {b})
                 e == Cardinality(src(i))
      <4>6. c = 1 /\ d = c + 1 /\ e <= 1
        BY ONLY <4>3, <4>4, <4>5
      <4>7. e = d
        BY ONLY <4>2
      <4> HIDE DEF c, d, e
      <4> QED BY ONLY <4>6, <4>7
    <3>3. CASE ~(i <= npos)
      <4>1. i \in npos + 1 .. Len(names)
        BY <1>1, <3>3
      <4> QED BY <3>1, <4>1
    <3> QED BY <3>2, <3>3
  <2> QED BY <1>4, <2>1, <2>2 DEF Accepts, ParseOptionalKeywords
<1> DEFINE sound == /\ npos <= Len(names)
                    /\ DOMAIN kw \subseteq {names[i] : i \in DOMAIN names}
                    /\ \A i \in DOMAIN names :
                          /\ Cardinality(src(i)) <= 1
                          /\ i <= required => src(i) # {}
                          /\ src(i) # {} => r.ok /\ r.values[i] \in src(i)
<1>5. Bound(r, pos, kw, names, required) <=> (r.ok <=> sound)
  BY DEF Bound
<1>6. Accepts(pos, kw, names, required) <=> sound
  BY <1>3, <1>4
<1> HIDE DEF sound
<1> QED BY <1>2, <1>5, <1>6 DEF r

\* A number or a byte string from Python, or none.
IsPyValue(x) ==
    \/ x.type \in {"int", "float"} /\ x.n \in Int
    \/ x.type = "bytes"
    \/ x.type = "none"

\* What __Pyx_PyInt_AsLong() returns.
LEMMA AsLongIs ==
    ASSUME NEW x, IsPyValue(x)
    PROVE  LET fits == x.type \in {"int", "float"} /\ Fits(x.n, LongBits) IN
           /\ fits => AsLong(x) = Result(x.n, FALSE)
           /\ ~fits => AsLong(x) = Result(-1, TRUE)
<1> DEFINE fits == x.type \in {"int", "float"} /\ Fits(x.n, LongBits)
<1>1. (\E i \in PyNumber_Int(x) : Fits(i.n, LongBits)) <=> fits
  <2>1. CASE x.type \in {"int", "float"}
    <3>1. PyNumber_Int(x) = {PyNumber(x.n)} /\ PyNumber(x.n).n = x.n
      BY <2>1 DEF PyNumber_Int, PyNumber
    <3> QED BY <2>1, <3>1
  <2>2. CASE x.type \notin {"int", "float"}
    <3>1. PyNumber_Int(x) = {}
      BY <2>2 DEF PyNumber_Int
    <3> QED BY <2>2, <3>1
  <2> QED BY <2>1, <2>2
<1> HIDE DEF fits
<1>2. (fits => AsLong(x) = Result(x.n, FALSE)) /\ (~fits => AsLong(x) = Result(-1, TRUE))
  BY <1>1 DEF AsLong
<1> QED BY <1>2 DEF fits

\* What the callers make of it.
LEMMA CheckedIs ==
    /\ Checked(Result(-1, TRUE)) = {}
    /\ \A v : Checked(Result(v, FALSE)) = {v}
<1>1. Result(-1, TRUE).val = -1 /\ Result(-1, TRUE).pending
  BY DEF Result
<1>2. \A v : Result(v, FALSE).val = v /\ ~Result(v, FALSE).pending
  BY DEF Result
<1> QED BY <1>1, <1>2 DEF Checked

\* deadline_ms: a number that a long holds arrives, -1 too; any other raises.
LEMMA DeadlineArrives ==
    ASSUME NEW x, IsPyValue(x), x.type = "int" => x = PyNumber(x.n)
    PROVE  NumberArrives(x, deadline_ms_set(x), LongBits, deadline_ms_get)
<1> DEFINE fits == x.type \in {"int", "float"} /\ Fits(x.n, LongBits)
<1>1. (fits => deadline_ms_set(x) = {x.n}) /\ (~fits => deadline_ms_set(x) = {})
  BY AsLongIs, CheckedIs DEF deadline_ms_set
<1>2. x.type = "int" => deadline_ms_get(x.n) = x
  BY DEF deadline_ms_get
<1>3. deadline_ms_set(x) = IF fits THEN {x.n} ELSE {}
  BY <1>1
<1>4. x.type = "int" => \A v \in deadline_ms_set(x) : deadline_ms_get(v) = x
  BY <1>1, <1>2
<1> QED BY <1>3, <1>4 DEF NumberArrives

\* send_error(): a code that an int holds arrives; one that only a long holds raises.
LEMMA CodeArrives ==
    ASSUME NEW x, IsPyValue(x), x.type = "int" => x = PyNumber(x.n)
    PROVE  NumberArrives(x, send_error_code(x), IntBits, application_error_code)
<1> DEFINE num == x.type \in {"int", "float"}
           long == num /\ Fits(x.n, LongBits)
           int == num /\ Fits(x.n, IntBits)
<1>1. IntBits \in Nat \ {0} /\ LongBits \in Nat \ {0} /\ IntBits - 1 <= LongBits - 1
      /\ IntBits - 1 \in Nat /\ LongBits - 1 \in Nat
  BY WidthAssumption
<1>2. ASSUME int PROVE long
  <2>1. x.n \in Int
    BY <1>2 DEF IsPyValue
  <2> DEFINE a == 2 ^ (IntBits - 1)
             b == 2 ^ (LongBits - 1)
  <2>2. a \in Nat /\ b \in Nat /\ a <= b
    BY <1>1, SubsetsOf, PowersGrow
  <2>3. -a <= x.n /\ x.n < a
    BY <1>2 DEF Fits
  <2> HIDE DEF a, b
  <2>4. -b <= x.n /\ x.n < b
    BY <2>1, <2>2, <2>3
  <2> QED BY <1>2, <2>4 DEF Fits, b
<1>3. (int => send_error_code(x) = {x.n}) /\ (~int => send_error_code(x) = {})
  <2>1. CASE ~long
    <3>1. AsLong(x) = Result(-1, TRUE)
      BY <2>1, AsLongIs
    <3>2. Fits(-1, IntBits)
      <4>1. 2 ^ (IntBits - 1) \in Nat /\ 2 ^ (IntBits - 1) >= 1
        BY <1>1, SubsetsOf
      <4> DEFINE h == 2 ^ (IntBits - 1)
      <4> HIDE DEF h
      <4>2. -h <= -1 /\ -1 < h
        BY <4>1 DEF h
      <4> QED BY <4>2 DEF Fits, h
    <3>3. -1 = Truncated(-1, IntBits)
      BY <1>1, <3>2, TruncatedFits
    <3>4. Result(-1, TRUE).val = -1
      BY DEF Result
    <3>5. AsInt(x) = Result(-1, TRUE)
      BY <3>1, <3>3, <3>4 DEF AsInt
    <3> QED BY <1>2, <2>1, <3>5, CheckedIs DEF send_error_code
  <2>2. CASE long
    <3> DEFINE v == x.n
    <3>1. AsLong(x) = Result(v, FALSE) /\ v \in Int
      BY <2>2, AsLongIs DEF IsPyValue
    <3>2. Result(v, FALSE).val = v
      BY DEF Result
    <3>3. v = Truncated(v, IntBits) <=> Fits(v, IntBits)
      BY <1>1, <3>1, TruncatedFits
    <3>4. v = Truncated(v, IntBits) => AsInt(x) = Result(v, FALSE)
      BY <3>1, <3>2 DEF AsInt
    <3>5. v # Truncated(v, IntBits) => AsInt(x) = Result(-1, TRUE)
      BY <3>1, <3>2 DEF AsInt
    <3>6. int <=> Fits(v, IntBits)
      BY <2>2
    <3> HIDE DEF v, int
    <3>7. int => AsInt(x) = Result(v, FALSE)
      BY <3>3, <3>4, <3>6
    <3>8. ~int => AsInt(x) = Result(-1, TRUE)
      BY <3>3, <3>5, <3>6
    <3> QED BY <3>7, <3>8, CheckedIs DEF send_error_code, v
  <2> QED BY <2>1, <2>2
<1>4. x.type = "int" => application_error_code(x.n) = x
  BY DEF application_error_code
<1>5. send_error_code(x) = IF int THEN {x.n} ELSE {}
  BY <1>3
<1>6. x.type = "int" => \A v \in send_error_code(x) : application_error_code(v) = x
  BY <1>3, <1>4
<1> QED BY <1>5, <1>6 DEF NumberArrives

\* Byte strings arrive complete.
LEMMA BytesCopied ==
    ASSUME NEW S, NEW s \in Seq(S)
    PROVE  SubSeq(s, 1, Len(s)) = s
BY SubSeqFull

\* Bytes arrive as they are, zero bytes included, or the call raises.
LEMMA EveryByteArrives ==
    ASSUME NEW S, NEW x, IsPyValue(x), x.type = "bytes" => x.s \in Seq(S) /\ x = PyBytes(x.s)
    PROVE  /\ BytesArrive(x, string_ptr_to_pystring)
           /\ LET payload(s) == cstring_to_pystring(s, Len(s)) IN BytesArrive(x, payload)
           /\ BytesArrive(x, error_message)
<1>1. CASE x.type = "bytes"
  <2> DEFINE s == x.s
  <2>1. s \in Seq(S) /\ x = PyBytes(s)
    BY <1>1
  <2>2. SubSeq(s, 1, Len(s)) = s
    BY <2>1, BytesCopied
  <2>3. make_string(x) = {s}
    BY <1>1, <2>2 DEF make_string
  <2> HIDE DEF s
  <2>4. /\ string_ptr_to_pystring(s) = x /\ cstring_to_pystring(s, Len(s)) = x
        /\ error_message(s) = x
    BY <2>1, <2>2 DEF string_ptr_to_pystring, cstring_to_pystring, error_message, string_to_pystring
  <2> QED BY <1>1, <2>3, <2>4 DEF BytesArrive
<1>2. CASE x.type # "bytes"
  <2>1. make_string(x) = {}
    BY <1>2 DEF make_string
  <2> QED BY <1>2, <2>1 DEF BytesArrive
<1> QED BY <1>1, <1>2

\* The values of MCHelpers.
LEMMA InputValues ==
    ASSUME NEW x \in PyValues
    PROVE  /\ IsPyValue(x) /\ (x.type = "int" => x = PyNumber(x.n))
           /\ (x.type = "bytes" => x.s \in Seq({0, 1}) /\ x = PyBytes(x.s))
<1>1. CASE x \in [type : {"int", "float"}, n : Numbers]
  <2>1. x.n \in Int
    BY <1>1 DEF Numbers
  <2> QED BY <1>1, <2>1 DEF IsPyValue, PyNumber
<1>2. CASE x \in [type : {"none"}]
  BY <1>2 DEF IsPyValue
<1>3. CASE x \in [type : {"bytes"}, s : UNION {[1 .. n -> {0, 1}] : n \in 0 .. MaxBytes}]
  <2>1. PICK n \in 0 .. MaxBytes : x.s \in [1 .. n -> {0, 1}]
    BY <1>3
  <2>2. n \in Nat
    OBVIOUS
  <2>3. x.s \in Seq({0, 1})
    BY <2>1, <2>2
  <2>4. x = PyBytes(x.s) /\ x.type = "bytes"
    BY <1>3 DEF PyBytes
  <2> QED BY <2>3, <2>4 DEF IsPyValue
<1> QED BY <1>1, <1>2, <1>3 DEF PyValues

\* A set of keywords is finite.
LEMMA KeywordsFinite ==
    ASSUME NEW N, NEW names \in Seq(N), NEW x,
           NEW K \in SUBSET ({names[i] : i \in DOMAIN names} \cup {x})
    PROVE  IsFiniteSet(K)
<1> DEFINE n == Len(names)
           R == {names[i] : i \in 1 .. n}
<1>1. n \in Nat /\ DOMAIN names = 1 .. n /\ names \in [1 .. n -> R]
  OBVIOUS
<1>2. names \in Surjection(1 .. n, R)
  BY <1>1 DEF Surjection
<1>3. IsFiniteSet(1 .. n)
  <2>1. 1 \in Int /\ n \in Int
    BY <1>1
  <2> HIDE DEF n
  <2> QED BY ONLY <2>1, FS_Interval
<1>4. K \in SUBSET (R \cup {x})
  BY <1>1
<1> HIDE DEF n, R
<1>5. IsFiniteSet(R)
  BY <1>2, <1>3, FS_Surjection
<1>6. IsFiniteSet(R \cup {x})
  BY <1>5, FS_AddElement
<1> QED BY <1>4, <1>6, FS_Subset

\* The names of the wrapped functions.
WrapperNames == {"service_name", "method_name", "request", "response", "rpc_controller", "callback",
                 "application_error_code", "error_string", "service", "name"}

\* The parameters of the wrappers have different names.
LEMMA Wrappers ==
    ASSUME NEW fn \in Functions_
    PROVE  /\ NamesOf(fn) \in Seq(WrapperNames) /\ Different(NamesOf(fn))
           /\ RequiredOf(fn) \in 0 .. Len(NamesOf(fn))
<1>1. CASE fn = "call_method"
  <2> DEFINE names == CallMethodNames
  <2>1. NamesOf(fn) = names /\ RequiredOf(fn) = 6
    BY <1>1 DEF NamesOf, RequiredOf
  <2>2. /\ names \in Seq(WrapperNames) /\ Len(names) = 6
        /\ names[1] = "service_name" /\ names[2] = "method_name" /\ names[3] = "request"
        /\ names[4] = "response" /\ names[5] = "rpc_controller" /\ names[6] = "callback"
    BY DEF CallMethodNames, WrapperNames
  <2> HIDE DEF names
  <2>3. Different(names)
    BY <2>2 DEF Different
  <2> QED BY <2>1, <2>2, <2>3
<1>2. CASE fn = "send_error"
  <2> DEFINE names == SendErrorNames
  <2>1. NamesOf(fn) = names /\ RequiredOf(fn) = 1
    BY <1>2 DEF NamesOf, RequiredOf
  <2>2. /\ names \in Seq(WrapperNames) /\ Len(names) = 2
        /\ names[1] = "application_error_code" /\ names[2] = "error_string"
    BY DEF SendErrorNames, WrapperNames
  <2> HIDE DEF names
  <2>3. Different(names)
    BY <2>2 DEF Different
  <2> QED BY <2>1, <2>2, <2>3
<1>3. CASE fn = "register_service"
  <2> DEFINE names == RegisterNames
  <2>1. NamesOf(fn) = names /\ RequiredOf(fn) = 1
    BY <1>3 DEF NamesOf, RequiredOf
  <2>2. /\ names \in Seq(WrapperNames) /\ Len(names) = 2
        /\ names[1] = "service" /\ names[2] = "name"
    BY DEF RegisterNames, WrapperNames
  <2> HIDE DEF names
  <2>3. Different(names)
    BY <2>2 DEF Different
  <2> QED BY <2>1, <2>2, <2>3
<1> QED BY <1>1, <1>2, <1>3 DEF Functions_

\* The positional arguments of MCHelpers.
PositionalValues == {"p1", "p2", "p3", "p4", "p5", "p6", "p7"}

\* The positional arguments of the inputs are a sequence.
LEMMA InputPositional ==
    ASSUME NEW npos \in 0 .. MaxPositional
    PROVE  LET pos == SubSeq(Positional, 1, npos) IN pos \in Seq(PositionalValues)
<1> DEFINE t == <<"p1", "p2", "p3", "p4", "p5", "p6", "p7">>
<1> DEFINE V == PositionalValues
<1>1. t \in Seq(V) /\ Len(t) = 7
  BY DEF PositionalValues
<1> HIDE DEF t, V
<1>2. Positional = [i \in 1 .. 7 |-> t[i]]
  BY DEF Positional, t
<1>21. \A i \in 1 .. 7 : t[i] \in V
  BY ONLY <1>1, ElementOfSeq
<1>3. Positional \in Seq(V) /\ Len(Positional) = 7
  BY ONLY <1>2, <1>21
<1>4. npos \in Nat /\ npos <= 7
  BY PositionalAssumption
<1>5. \A i \in 1 .. npos : Positional[i] \in V
  BY ONLY <1>2, <1>21, <1>4
<1>6. SubSeq(Positional, 1, npos) \in Seq(V)
  BY ONLY <1>3, <1>4, <1>5, SubSeqProperties
<1> QED BY ONLY <1>6 DEF V

\* In every state the arguments are bound as Python defines it, and values arrive.
THEOREM EveryArgumentBound == HSpec => []ArgumentsBound
<1>1. ASSUME IsInput(input) PROVE ArgumentsBound
  <2>1. ASSUME input.kind = "args"
        PROVE  LET pos == SubSeq(Positional, 1, input.npos)
                   kw  == [k \in input.kws |-> k]
                   r   == CASE input.fn = "call_method" -> call_method_args(pos, kw)
                            [] input.fn = "send_error" -> send_error_args(pos, kw)
                            [] input.fn = "register_service" -> register_service_args(pos, kw)
               IN /\ Bound(r, pos, kw, NamesOf(input.fn), RequiredOf(input.fn))
                  /\ Bound([ok |-> no_args(pos, kw), values |-> <<>>], pos, kw, <<>>, 0)
    <3> DEFINE fn == input.fn
               npos == input.npos
               kws == input.kws
               pos == SubSeq(Positional, 1, npos)
               kw == [k \in kws |-> k]
               r == CASE fn = "call_method" -> call_method_args(pos, kw)
                      [] fn = "send_error" -> send_error_args(pos, kw)
                      [] fn = "register_service" -> register_service_args(pos, kw)
               names == NamesOf(fn)
               required == RequiredOf(fn)
    <3>1. PICK f \in Functions_ :
             input \in [kind : {"args"}, fn : {f}, npos : 0 .. MaxPositional, kws : Keywords(f)]
      BY <1>1, <2>1 DEF IsInput, NoInput
    <3>2. fn \in Functions_ /\ npos \in 0 .. MaxPositional /\ kws \in Keywords(fn)
      BY <3>1
    <3> HIDE DEF fn, npos, kws
    <3>3. pos \in Seq(PositionalValues)
      BY <3>2, InputPositional
    <3>4. r = Unpack(pos, kw, names, required)
      BY <3>2 DEF Functions_, NamesOf, RequiredOf, call_method_args, send_error_args,
                  register_service_args
    <3>5. names \in Seq(WrapperNames) /\ Different(names) /\ required \in 0 .. Len(names)
      BY <3>2, Wrappers
    <3>6. kws \in SUBSET ({names[i] : i \in DOMAIN names} \cup {"other"})
      BY <3>2 DEF Keywords
    <3>7. DOMAIN kw = kws /\ \A key \in kws : kw[key] = key
      OBVIOUS
    <3> HIDE DEF names, required, pos, kw, r
    <3>8. IsFiniteSet(DOMAIN kw)
      <4>1. IsFiniteSet(kws)
        BY ONLY <3>5, <3>6, KeywordsFinite, ZenonT(60)
      <4> QED BY ONLY <3>7, <4>1
    <3>9. \A i \in 1 .. Len(pos) : \A key \in DOMAIN kw : pos[i] # kw[key]
      <4>1. \A i \in 1 .. Len(pos) : pos[i] \in PositionalValues
        BY <3>3, ElementOfSeq
      <4>2. \A key \in kws : key \in WrapperNames \cup {"other"}
        <5>1. \A i \in DOMAIN names : names[i] \in WrapperNames
          BY <3>5
        <5> QED BY <3>6, <5>1
      <4>3. PositionalValues \cap (WrapperNames \cup {"other"}) = {}
        BY DEF PositionalValues, WrapperNames
      <4> QED BY <3>7, <4>1, <4>2, <4>3
    <3>10. Bound(r, pos, kw, names, required)
      BY <3>3, <3>4, <3>5, <3>8, <3>9, BoundAsInPython
    <3>11. Bound([ok |-> no_args(pos, kw), values |-> <<>>], pos, kw, <<>>, 0)
      <4> DEFINE q == [ok |-> no_args(pos, kw), values |-> <<>>]
      <4>1. q.ok <=> pos = <<>> /\ DOMAIN kw = {}
        BY DEF no_args
      <4> HIDE DEF q
      <4>2. Len(pos) <= 0 <=> pos = <<>>
        BY <3>3
      <4>3. DOMAIN <<>> = {} /\ Len(<<>>) = 0
        OBVIOUS
      <4>4. Bound(q, pos, kw, <<>>, 0) <=> (q.ok <=> Len(pos) <= 0 /\ DOMAIN kw \subseteq {})
        BY <4>3 DEF Bound
      <4> QED BY <4>1, <4>2, <4>4 DEF q
    <3> QED BY <3>10, <3>11 DEF fn, npos, kws, names, required, pos, kw, r
  <2>2. ASSUME input.kind = "value"
        PROVE  LET x == input.value
                   payload(s) == cstring_to_pystring(s, Len(s))
               IN /\ NumberArrives(x, deadline_ms_set(x), LongBits, deadline_ms_get)
                  /\ NumberArrives(x, send_error_code(x), IntBits, application_error_code)
                  /\ BytesArrive(x, string_ptr_to_pystring)
                  /\ BytesArrive(x, payload)
                  /\ BytesArrive(x, error_message)
    <3> DEFINE x == input.value
    <3>1. x \in PyValues
      BY <1>1, <2>2 DEF IsInput, NoInput
    <3> HIDE DEF x
    <3>2. /\ IsPyValue(x) /\ (x.type = "int" => x = PyNumber(x.n))
          /\ (x.type = "bytes" => x.s \in Seq({0, 1}) /\ x = PyBytes(x.s))
      BY <3>1, InputValues
    <3>3. NumberArrives(x, deadline_ms_set(x), LongBits, deadline_ms_get)
      BY <3>2, DeadlineArrives
    <3>4. NumberArrives(x, send_error_code(x), IntBits, application_error_code)
      BY <3>2, CodeArrives
    <3>5. /\ BytesArrive(x, string_ptr_to_pystring)
          /\ LET payload(s) == cstring_to_pystring(s, Len(s)) IN BytesArrive(x, payload)
          /\ BytesArrive(x, error_message)
      BY <3>2, EveryByteArrives
    <3> QED BY <3>3, <3>4, <3>5 DEF x
  <2> QED BY <2>1, <2>2 DEF ArgumentsBound
<1> QED BY <1>1, InputInvariance, PTL

-----------------------------------------------------------------------------
(* Sequences of sequences                                                  *)

\* A set of natural numbers has a least one: the way to prove by induction here.
LEMMA LeastNatural ==
    ASSUME NEW T, T \subseteq Nat, T # {}
    PROVE  \E x \in T : \A y \in T : x <= y
<1>1. PICK x \in T : \A y \in T : ~(<<y, x>> \in OpToRel(<, Nat))
  BY NatLessThanWellFounded, WFMin
<1>2. \A y \in T : ~(y < x)
  BY <1>1 DEF OpToRel
<1> QED BY <1>2

\* The function that FlattenSeq() defines by recursion, and that there is one.
Flattens(f, seqs, n) ==
    f = [i \in 1 .. n |-> IF i = 1 THEN seqs[i] ELSE f[i - 1] \o seqs[i]]

\* There is a function of the partial concatenations.
LEMMA FlattensExist ==
    ASSUME NEW seqs, NEW n \in Nat
    PROVE  \E f : Flattens(f, seqs, n)
<1> DEFINE T == {k \in Nat : ~\E f : Flattens(f, seqs, k)}
<1> SUFFICES ASSUME T # {} PROVE FALSE
  OBVIOUS
<1>1. PICK k \in T : \A y \in T : k <= y
  BY LeastNatural
<1>2. CASE k = 0
  <2> DEFINE f == [i \in {} |-> i]
  <2>1. f = [i \in 1 .. 0 |-> IF i = 1 THEN seqs[i] ELSE f[i - 1] \o seqs[i]]
    OBVIOUS
  <2> QED BY <1>2, <2>1 DEF Flattens
<1>3. CASE k # 0
  <2>1. k - 1 \in Nat /\ k \in Nat /\ k - 1 \notin T
    BY <1>1, <1>3
  <2>2. PICK f : Flattens(f, seqs, k - 1)
    BY <2>1
  <2> DEFINE v(i) == IF i = 1 THEN seqs[i] ELSE f[i - 1] \o seqs[i]
             g == [i \in 1 .. k |-> v(i)]
  <2>3. f = [i \in 1 .. k - 1 |-> v(i)]
    BY <2>2 DEF Flattens
  <2>4. \A i \in 1 .. k - 1 : f[i] = g[i]
    <3> TAKE i \in 1 .. k - 1
    <3>1. i \in 1 .. k
      BY <2>1
    <3> HIDE DEF v
    <3> QED BY <2>3, <3>1
  <2>5. ASSUME NEW i \in 1 .. k PROVE v(i) = IF i = 1 THEN seqs[i] ELSE g[i - 1] \o seqs[i]
    <3>1. CASE i = 1
      BY <3>1
    <3>2. CASE i # 1
      <4>1. i - 1 \in 1 .. k - 1
        BY <2>1, <3>2
      <4>2. f[i - 1] = g[i - 1]
        BY <2>4, <4>1
      <4> HIDE DEF g
      <4> QED BY <3>2, <4>2
    <3> QED BY <3>1, <3>2
  <2>6. g = [i \in 1 .. k |-> IF i = 1 THEN seqs[i] ELSE g[i - 1] \o seqs[i]]
    <3> DEFINE w(i) == IF i = 1 THEN seqs[i] ELSE g[i - 1] \o seqs[i]
    <3>1. \A i \in 1 .. k : v(i) = w(i)
      BY <2>5
    <3> HIDE DEF v, w
    <3>2. [i \in 1 .. k |-> v(i)] = [i \in 1 .. k |-> w(i)]
      BY <3>1
    <3> QED BY <3>2 DEF w
  <2>7. Flattens(g, seqs, k)
    BY <2>6 DEF Flattens
  <2> QED BY <2>1, <2>7
<1> QED BY <1>2, <1>3

\* FlattenSeq is the last of them.
LEMMA FlattenIs ==
    ASSUME NEW seqs, Len(seqs) \in Nat, Len(seqs) # 0
    PROVE  \E f : Flattens(f, seqs, Len(seqs)) /\ FlattenSeq(seqs) = f[Len(seqs)]
<1> DEFINE n == Len(seqs)
           h == CHOOSE f : Flattens(f, seqs, n)
<1>1. Flattens(h, seqs, n)
  BY FlattensExist
<1>2. FlattenSeq(seqs) = h[n]
  BY DEF FlattenSeq, Flattens
<1> QED BY <1>1, <1>2

\* Where the elements of a sequence of sequences are when it is flattened: off[j]
\* comes before the elements of seqs[j].
Offsets(off, seqs, n) ==
    /\ off[1] = 0
    /\ \A j \in 1 .. n : off[j] \in Nat /\ off[j + 1] = off[j] + Len(seqs[j])

Placed(flat, S, off, seqs, n) ==
    /\ flat \in Seq(S) /\ Len(flat) = off[n + 1]
    /\ \A j \in 1 .. n : \A t \in 1 .. Len(seqs[j]) :
          off[j] + t \in 1 .. Len(flat) /\ flat[off[j] + t] = seqs[j][t]
    /\ \A k \in 1 .. Len(flat) : \E j \in 1 .. n : \E t \in 1 .. Len(seqs[j]) : k = off[j] + t

\* One more sequence.
LEMMA PlacedNext ==
    ASSUME NEW S, NEW seqs, NEW n \in Nat, NEW off, NEW flat, Placed(flat, S, off, seqs, n),
           NEW s \in Seq(S), s = seqs[n + 1], off[n + 1] \in Nat, off[n + 1 + 1] = off[n + 1] + Len(s)
    PROVE  Placed(flat \o s, S, off, seqs, n + 1)
<1> DEFINE g == flat \o s
           l == Len(flat)
<1>1. flat \in Seq(S) /\ l = off[n + 1] /\ l \in Nat /\ Len(s) \in Nat
  BY DEF Placed
<1>2. /\ g \in Seq(S) /\ Len(g) = l + Len(s)
      /\ \A i \in 1 .. l : g[i] = flat[i]
      /\ \A i \in 1 .. Len(s) : g[l + i] = s[i]
  <2>1. flat \in Seq(S) /\ s \in Seq(S)
    BY <1>1
  <2>2. /\ flat \o s \in Seq(S) /\ Len(flat \o s) = Len(flat) + Len(s)
        /\ \A i \in 1 .. Len(flat) : (flat \o s)[i] = flat[i]
        /\ \A i \in 1 .. Len(s) : (flat \o s)[Len(flat) + i] = s[i]
    BY ONLY <2>1, Joined
  <2> QED BY ONLY <2>2
<1> HIDE DEF g
<1>3. ASSUME NEW j \in 1 .. n + 1, NEW t \in 1 .. Len(seqs[j])
      PROVE  off[j] + t \in 1 .. Len(g) /\ g[off[j] + t] = seqs[j][t]
  <2>1. CASE j = n + 1
    <3>1. t \in 1 .. Len(s) /\ off[j] = l
      BY <1>1, <2>1
    <3>2. l + t \in 1 .. Len(g) /\ g[l + t] = s[t]
      BY <1>1, <1>2, <3>1, SMTT(30)
    <3> QED BY <2>1, <3>1, <3>2
  <2>2. CASE j # n + 1
    <3>1. j \in 1 .. n
      BY <2>2
    <3>2. off[j] + t \in 1 .. l /\ flat[off[j] + t] = seqs[j][t]
      BY <3>1 DEF Placed
    <3>3. off[j] + t \in 1 .. Len(g)
      BY <1>1, <1>2, <3>2, SMTT(30)
    <3> QED BY <1>2, <3>2, <3>3
  <2> QED BY <2>1, <2>2
<1>4. ASSUME NEW k \in 1 .. Len(g)
      PROVE  \E j \in 1 .. n + 1 : \E t \in 1 .. Len(seqs[j]) : k = off[j] + t
  <2>1. CASE k <= l
    <3>1. k \in 1 .. l
      BY <1>1, <2>1
    <3>2. \E j \in 1 .. n : \E t \in 1 .. Len(seqs[j]) : k = off[j] + t
      BY <3>1 DEF Placed
    <3>3. 1 .. n \subseteq 1 .. n + 1
      OBVIOUS
    <3> QED BY <3>2, <3>3
  <2>2. CASE ~(k <= l)
    <3> DEFINE t == k - l
    <3>1. t \in 1 .. Len(s) /\ k = l + t
      BY <1>1, <1>2, <2>2
    <3>2. n + 1 \in 1 .. n + 1 /\ off[n + 1] = l
      BY <1>1
    <3> QED BY <3>1, <3>2
  <2> QED BY <2>1, <2>2
<1>5. Len(g) = off[n + 1 + 1]
  BY <1>1, <1>2
<1> QED BY <1>2, <1>3, <1>4, <1>5 DEF Placed, g

\* Where FlattenSeq puts the elements of each sequence.
LEMMA FlattenPlaced ==
    ASSUME NEW S, NEW seqs \in Seq(Seq(S))
    PROVE  \E off : Offsets(off, seqs, Len(seqs)) /\ Placed(FlattenSeq(seqs), S, off, seqs, Len(seqs))
<1> DEFINE n == Len(seqs)
<1>1. n \in Nat /\ \A j \in 1 .. n : seqs[j] \in Seq(S) /\ Len(seqs[j]) \in Nat
  OBVIOUS
<1>2. CASE n = 0
  <2> DEFINE off == [j \in 1 .. 1 |-> 0]
  <2>1. FlattenSeq(seqs) = seqs /\ seqs = <<>>
    BY <1>2 DEF FlattenSeq
  <2>2. Offsets(off, seqs, 0)
    BY DEF Offsets
  <2>3. <<>> \in Seq(S) /\ Len(<<>>) = 0 /\ off[0 + 1] = 0
    OBVIOUS
  <2>4. Placed(<<>>, S, off, seqs, 0)
    <3> DEFINE none == <<>>
    <3>1. none \in Seq(S) /\ Len(none) = 0
      BY <2>3
    <3> HIDE DEF none, off
    <3>2. Placed(none, S, off, seqs, 0)
      BY <2>3, <3>1 DEF Placed
    <3> QED BY <3>2 DEF none
  <2> QED BY <1>2, <2>1, <2>2, <2>4
<1>3. CASE n # 0
  <2>1. PICK f : Flattens(f, seqs, n) /\ FlattenSeq(seqs) = f[n]
    BY <1>1, <1>3, FlattenIs
  <2>2. f[1] = seqs[1]
    BY <1>1, <1>3, <2>1 DEF Flattens
  <2>3. ASSUME NEW i \in 1 .. n, i # 1 PROVE f[i] = f[i - 1] \o seqs[i]
    BY <2>1, <2>3 DEF Flattens
  <2> DEFINE off == [j \in 1 .. n + 1 |-> IF j = 1 THEN 0 ELSE Len(f[j - 1])]
             bad == {k \in Nat : k \in 1 .. n /\ ~(Offsets(off, seqs, k) /\ Placed(f[k], S, off, seqs, k))}
  <2>4. bad = {}
    <3> SUFFICES ASSUME bad # {} PROVE FALSE
      OBVIOUS
    <3>1. PICK k \in bad : \A y \in bad : k <= y
      BY LeastNatural
    <3>2. k \in Nat /\ k \in 1 .. n
      BY <3>1
    <3>3. off[1] = 0 /\ \A j \in 1 .. n : off[j + 1] = Len(f[j])
      <4>1. 1 \in 1 .. n + 1 /\ \A j \in 1 .. n : j + 1 \in 1 .. n + 1 /\ j + 1 # 1 /\ j + 1 - 1 = j
        BY <1>1
      <4> QED BY <4>1
    <3>4. CASE k = 1
      <4> DEFINE none == <<>>
      <4>1. none \in Seq(S) /\ Len(none) = 0 /\ none = <<>>
        OBVIOUS
      <4>2. seqs[1] \in Seq(S) /\ 1 \in 1 .. n
        BY <1>1, <1>3
      <4>3. none \o seqs[1] = seqs[1]
        BY <4>1, <4>2, ConcatEmptySeq
      <4> HIDE DEF none, off
      <4>4. Placed(none, S, off, seqs, 0)
        BY <3>3, <4>1 DEF Placed
      <4>5. off[0 + 1 + 1] = off[0 + 1] + Len(seqs[1]) /\ off[0 + 1] \in Nat
        BY <1>1, <2>2, <3>3, <4>2, SMTT(30)
      <4>6. Placed(none \o seqs[1], S, off, seqs, 0 + 1)
        BY ONLY <4>2, <4>4, <4>5, 0 + 1 = 1, 0 \in Nat, PlacedNext
      <4>7. Placed(f[1], S, off, seqs, 1)
        BY <2>2, <4>3, <4>6
      <4>8. Offsets(off, seqs, 1)
        BY <3>3, <4>5 DEF Offsets
      <4> QED BY <3>1, <3>4, <4>7, <4>8
    <3>5. CASE k # 1
      <4> DEFINE m == k - 1
      <4>1. m \in Nat /\ m \in 1 .. n /\ m + 1 = k /\ m \notin bad
        <5> HIDE DEF bad
        <5>1. m \in Nat /\ m \in 1 .. n /\ m + 1 = k /\ ~(k <= m)
          BY <1>1, <3>2, <3>5
        <5> QED BY <3>1, <5>1
      <4>2. Offsets(off, seqs, m) /\ Placed(f[m], S, off, seqs, m)
        BY <4>1
      <4>3. f[k] = f[m] \o seqs[k] /\ seqs[k] \in Seq(S)
        BY <1>1, <2>3, <3>2, <3>5
      <4> HIDE DEF off, m
      <4>4. f[m] \in Seq(S) /\ off[m + 1] = Len(f[m])
        BY <3>3, <4>1, <4>2 DEF Placed
      <4>5. off[m + 1] \in Nat /\ Len(f[k]) = Len(f[m]) + Len(seqs[k])
        BY <4>3, <4>4
      <4>6. off[m + 1 + 1] = off[m + 1] + Len(seqs[k])
        BY <3>2, <3>3, <4>1, <4>4, <4>5
      <4>7. Placed(f[m] \o seqs[k], S, off, seqs, m + 1)
        BY ONLY <4>1, <4>2, <4>3, <4>5, <4>6, PlacedNext
      <4>8. Offsets(off, seqs, k)
        <5> SUFFICES ASSUME NEW j \in 1 .. k
                     PROVE  off[j] \in Nat /\ off[j + 1] = off[j] + Len(seqs[j])
          BY <3>3 DEF Offsets
        <5>1. CASE j = k
          BY <4>1, <4>5, <4>6, <5>1
        <5>2. CASE j # k
          <6>1. j \in 1 .. m
            BY <4>1, <5>2
          <6> QED BY <4>2, <6>1 DEF Offsets
        <5> QED BY <5>1, <5>2
      <4> QED BY <3>1, <4>1, <4>3, <4>7, <4>8
    <3> QED BY <3>4, <3>5
  <2>5. n \in Nat /\ n \in 1 .. n /\ n \notin bad
    <3> HIDE DEF bad
    <3>1. n \in Nat /\ n \in 1 .. n
      BY <1>1, <1>3
    <3> QED BY <2>4, <3>1
  <2>6. Offsets(off, seqs, n) /\ Placed(f[n], S, off, seqs, n)
    BY <2>5
  <2> QED BY <2>1, <2>6
<1> QED BY <1>2, <1>3

-----------------------------------------------------------------------------
(* Generated stubs                                                         *)

\* The greatest element of a set of numbers.
LEMMA MaxIs ==
    ASSUME NEW T, T \subseteq Nat, NEW x \in T, \A y \in T : y <= x
    PROVE  Max(T) = x
<1>1. \A y \in T : x >= y
  OBVIOUS
<1>2. Max(T) \in T /\ \A y \in T : Max(T) >= y
  BY <1>1 DEF Max
<1>3. Max(T) \in Nat /\ x \in Nat /\ Max(T) >= x /\ Max(T) <= x
  BY <1>2
<1> QED BY <1>3

\* Methods with different names, and services that have such methods.
DifferentMethods(ms) == \A i, j \in 1 .. Len(ms) : ms[i].name = ms[j].name => i = j
AreServices(X, M) == \A s \in X : s.methods \in Seq(M) /\ DifferentMethods(s.methods)

\* FindMethodByName() finds the method that is asked for.
LEMMA FoundByName ==
    ASSUME NEW M, NEW s, s.methods \in Seq(M), DifferentMethods(s.methods),
           NEW i \in 1 .. Len(s.methods)
    PROVE  FindMethodByName(s, s.methods[i].name) = i
<1> DEFINE ms == s.methods
           n == ms[i].name
           I == {k \in 1 .. Len(ms) : ms[k].name = n}
<1>1. FindMethodByName(s, n) = IF I # {} THEN Min(I) ELSE 0
  BY DEF FindMethodByName, SelectInSeq
<1>2. I = {i}
  BY DEF DifferentMethods
<1>3. i \in Nat
  OBVIOUS
<1> HIDE DEF I
<1>4. Min(I) = i
  <2>1. I \subseteq Nat /\ i \in I /\ \A y \in I : i <= y
    BY <1>2, <1>3
  <2> QED BY ONLY <2>1, MinIs
<1> QED BY <1>1, <1>2, <1>4

\* A stub call in C++ reaches its method, in any file whose services have methods
\* with different names.
THEOREM CppStubsReach ==
    ASSUME NEW M, NEW X, AreServices(X, M), NEW f, f.services \in Seq(X),
           NEW j \in 1 .. Len(f.services), NEW i \in 1 .. Len(f.services[j].methods)
    PROVE  CppReaches(f, j, i)
<1> DEFINE s == f.services[j]
           r == StubRequest(s, i)
<1>1. s \in X
  BY ElementOfSeq
<1>2. s.methods \in Seq(M) /\ DifferentMethods(s.methods)
  BY <1>1 DEF AreServices
<1>3. f.services[DescriptorInitializer(f, j)] = s
  BY DEF DescriptorInitializer
<1>4. r.method = i /\ r.parses = s.methods[i].out
  BY DEF StubRequest
<1> HIDE DEF s, r
<1>5. i \in 1 .. Len(s.methods) /\ DOMAIN s.methods = 1 .. Len(s.methods)
  BY <1>2 DEF s
<1>6. FindMethodByName(s, s.methods[i].name) = i
  BY <1>2, <1>5, FoundByName
<1>7. /\ CallMethodCase(s, i) = [calls |-> s.methods[i].name, casts |-> GetPrototype(s, "REQUEST", i)]
      /\ r.parses = GetPrototype(s, "RESPONSE", i)
  BY <1>4 DEF CallMethodCase, GetPrototype
<1> QED BY <1>3, <1>4, <1>5, <1>6, <1>7 DEF CppReaches, s, r

\* The statements for one service, and all of them: three for each service.
Statements(f, s) == <<PrintServiceDescriptor(f, s), PrintServiceClass(s), PrintServiceStub(s)>>

\* Sequences of length three begin at every third place.
LEMMA BlocksOfThree ==
    ASSUME NEW seqs, NEW n \in Nat, NEW off, Offsets(off, seqs, n),
           \A j \in 1 .. n : Len(seqs[j]) = 3
    PROVE  \A j \in 1 .. n : off[j] = 3 * j - 3
<1> DEFINE bad == {j \in Nat : j \in 1 .. n /\ off[j] # 3 * j - 3}
<1> SUFFICES ASSUME bad # {} PROVE FALSE
  OBVIOUS
<1>1. PICK j \in bad : \A y \in bad : j <= y
  BY LeastNatural
<1>2. j \in Nat /\ j \in 1 .. n /\ off[j] # 3 * j - 3
  BY <1>1
<1> HIDE DEF bad
<1>3. j # 1
  BY <1>2 DEF Offsets
<1> DEFINE m == j - 1
<1>4. m \in Nat /\ m \in 1 .. n /\ m + 1 = j /\ ~(j <= m)
  BY <1>2, <1>3
<1>5. m \notin bad
  BY <1>1, <1>4
<1>6. off[m] = 3 * m - 3
  BY <1>4, <1>5 DEF bad
<1> HIDE DEF m
<1>7. off[m + 1] = off[m] + 3
  BY <1>4 DEF Offsets
<1> QED BY <1>2, <1>4, <1>6, <1>7

\* The statements for service j are the statements 3 j - 2 to 3 j of the module.
LEMMA PrintedStatements ==
    ASSUME NEW X, NEW f, f.services \in Seq(X), NEW j \in 1 .. Len(f.services)
    PROVE  LET module == PrintServices(f)
               s == f.services[j]
           IN /\ module[3 * j - 2] = PrintServiceDescriptor(f, s)
              /\ module[3 * j - 1] = PrintServiceClass(s)
              /\ module[3 * j] = PrintServiceStub(s)
              /\ 3 * j \in 1 .. Len(module) /\ j \in Nat /\ 1 <= j
<1> DEFINE n == Len(f.services)
           S == {PrintServiceDescriptor(f, s) : s \in X} \cup {PrintServiceClass(s) : s \in X}
                \cup {PrintServiceStub(s) : s \in X}
           seqs == [k \in 1 .. n |-> Statements(f, f.services[k])]
           module == PrintServices(f)
<1>1. n \in Nat /\ DOMAIN f.services = 1 .. n /\ j \in Nat /\ 1 <= j
  OBVIOUS
<1>2. module = FlattenSeq(seqs)
  BY <1>1 DEF PrintServices, EachService, Each, Statements
<1>3. ASSUME NEW k \in 1 .. n
      PROVE  LET b == Statements(f, f.services[k]) IN
             /\ b \in Seq(S) /\ Len(b) = 3
             /\ b[1] = PrintServiceDescriptor(f, f.services[k])
             /\ b[2] = PrintServiceClass(f.services[k])
             /\ b[3] = PrintServiceStub(f.services[k])
  <2> DEFINE s == f.services[k]
             x == PrintServiceDescriptor(f, s)
             y == PrintServiceClass(s)
             z == PrintServiceStub(s)
  <2>1. s \in X
    BY ElementOfSeq
  <2>2. x \in S /\ y \in S /\ z \in S
    BY <2>1
  <2>3. Statements(f, s) = <<x, y, z>>
    BY DEF Statements
  <2> HIDE DEF x, y, z, S
  <2>4. <<x, y, z>> \in Seq(S) /\ Len(<<x, y, z>>) = 3
    BY ONLY <2>2
  <2> QED BY <2>3, <2>4 DEF x, y, z
<1> HIDE DEF S
<1>4. Len(seqs) = n /\ \A k \in 1 .. n : seqs[k] = Statements(f, f.services[k])
  BY <1>1
<1>5. seqs \in Seq(Seq(S))
  <2>1. \A k \in 1 .. n : Statements(f, f.services[k]) \in Seq(S)
    BY <1>3
  <2> QED BY <1>1, <2>1
<1> HIDE DEF seqs, n, module
<1>6. PICK off : Offsets(off, seqs, n) /\ Placed(module, S, off, seqs, n)
  BY <1>2, <1>4, <1>5, FlattenPlaced
<1>7. \A k \in 1 .. n : Len(seqs[k]) = 3
  BY <1>3, <1>4
<1>8. \A k \in 1 .. n : off[k] = 3 * k - 3
  BY <1>1, <1>6, <1>7, BlocksOfThree
<1>9. j \in 1 .. n
  BY DEF n
<1>10. off[j] = 3 * j - 3
  BY <1>8, <1>9
<1>11. \A t \in 1 .. 3 : off[j] + t \in 1 .. Len(module) /\ module[off[j] + t] = seqs[j][t]
  BY <1>6, <1>7, <1>9 DEF Placed
<1>12. off[j] + 1 = 3 * j - 2 /\ off[j] + 2 = 3 * j - 1 /\ off[j] + 3 = 3 * j
  BY <1>1, <1>10
<1>13. /\ module[3 * j - 2] = seqs[j][1] /\ module[3 * j - 1] = seqs[j][2]
       /\ module[3 * j] = seqs[j][3] /\ 3 * j \in 1 .. Len(module)
  BY <1>11, <1>12
<1>14. /\ seqs[j][1] = PrintServiceDescriptor(f, f.services[j])
       /\ seqs[j][2] = PrintServiceClass(f.services[j])
       /\ seqs[j][3] = PrintServiceStub(f.services[j])
  BY <1>3, <1>4, <1>9
<1> QED BY <1>1, <1>13, <1>14 DEF module

\* The class and the stub of a service have its own descriptor, also if another
\* service uses the same variable: the assignment comes just before them.
LEMMA OwnDescriptor ==
    ASSUME NEW X, NEW f, f.services \in Seq(X), NEW j \in 1 .. Len(f.services),
           NEW k \in {3 * j - 1, 3 * j}
    PROVE  ClassDescriptor(PrintServices(f), k) = PrintServiceDescriptor(f, f.services[j]).descriptor
<1> DEFINE module == PrintServices(f)
           s == f.services[j]
           v == module[k].var
           I == {i \in 1 .. k : module[i].op = "assign" /\ module[i].var = v}
<1>1. /\ module[3 * j - 2] = PrintServiceDescriptor(f, s)
      /\ module[3 * j - 1] = PrintServiceClass(s)
      /\ module[3 * j] = PrintServiceStub(s)
      /\ j \in Nat /\ 1 <= j
  BY PrintedStatements
<1>2. ClassDescriptor(module, k) = module[IF I # {} THEN Max(I) ELSE 0].descriptor
  BY DEF ClassDescriptor, SelectLastInSubSeq
<1> HIDE DEF module, s
<1>3. /\ module[3 * j - 2].op = "assign" /\ module[3 * j - 2].var = ModuleLevelServiceDescriptorName(s)
      /\ module[3 * j - 1].op = "class" /\ module[3 * j - 1].var = ModuleLevelServiceDescriptorName(s)
      /\ module[3 * j].op = "class" /\ module[3 * j].var = ModuleLevelServiceDescriptorName(s)
  BY <1>1 DEF PrintServiceDescriptor, PrintServiceClass, PrintServiceStub
<1>4. v = ModuleLevelServiceDescriptorName(s)
  BY <1>3
<1> DEFINE x == 3 * j - 2
<1>5. x \in Nat /\ k \in Nat /\ x \in 1 .. k /\ \A i \in 1 .. k : i <= x \/ i = 3 * j - 1 \/ i = 3 * j
  BY <1>1
<1> HIDE DEF v, x
<1>6. x \in I
  BY <1>3, <1>4, <1>5 DEF x
<1>7. \A i \in I : i <= x
  <2> TAKE i \in I
  <2>1. module[i].op = "assign" /\ i \in 1 .. k
    OBVIOUS
  <2>2. i # 3 * j - 1 /\ i # 3 * j
    BY <1>3, <2>1
  <2> QED BY <1>5, <2>1, <2>2
<1>8. I \subseteq Nat
  BY <1>5
<1> HIDE DEF I
<1>9. Max(I) = x
  BY <1>6, <1>7, <1>8, MaxIs
<1> QED BY <1>1, <1>2, <1>6, <1>9 DEF x, module, s

\* What the metaclasses make of a descriptor: method i of the service is found
\* under its name, with its index and its types.
Reflected(d, s, i) ==
    LET m == s.methods[i]
        served == GeneratedServiceType(d)
        called == GeneratedServiceStubType(d)
    IN /\ m.name \in DOMAIN served /\ m.name \in DOMAIN called
       /\ served[m.name].index = i
       /\ served[m.name].input_type = ModuleLevelDescriptorName(m.in)
       /\ called[m.name] = [service_name |-> s.name, method |-> m.name,
                            response |-> ModuleLevelDescriptorName(m.out)]

\* The descriptor that a module builds for a service reflects all its methods.
LEMMA ReflectedMethod ==
    ASSUME NEW M, NEW f, NEW s, s.methods \in Seq(M), DifferentMethods(s.methods),
           NEW i \in 1 .. Len(s.methods)
    PROVE  Reflected(PrintServiceDescriptor(f, s).descriptor, s, i)
<1> DEFINE d == PrintServiceDescriptor(f, s).descriptor
           ms == s.methods
           ds == d.methods
           n == ms[i].name
           row(k) == [name |-> ms[k].name, index |-> k,
                      input_type |-> ModuleLevelDescriptorName(ms[k].in),
                      output_type |-> ModuleLevelDescriptorName(ms[k].out)]
           I == {k \in 1 .. Len(ds) : ds[k].name = n}
           served == GeneratedServiceType(d)
           called == GeneratedServiceStubType(d)
<1>1. Len(ms) \in Nat /\ DOMAIN ms = 1 .. Len(ms) /\ i \in Nat
  OBVIOUS
<1>2. d.name = s.name /\ ds = [k \in 1 .. Len(ms) |-> row(k)]
  BY <1>1 DEF PrintServiceDescriptor
<1>3. DOMAIN ds = 1 .. Len(ms) /\ Len(ds) = Len(ms) /\ \A k \in 1 .. Len(ms) : ds[k] = row(k)
  <2> HIDE DEF row, ds
  <2> QED BY <1>1, <1>2
<1>r. \A k \in 1 .. Len(ms) :
         /\ row(k).name = ms[k].name /\ row(k).index = k
         /\ row(k).input_type = ModuleLevelDescriptorName(ms[k].in)
         /\ row(k).output_type = ModuleLevelDescriptorName(ms[k].out)
  OBVIOUS
<1> HIDE DEF d, ds, row
<1>4. \A k \in 1 .. Len(ms) :
         /\ ds[k].name = ms[k].name /\ ds[k].index = k
         /\ ds[k].input_type = ModuleLevelDescriptorName(ms[k].in)
         /\ ds[k].output_type = ModuleLevelDescriptorName(ms[k].out)
  BY ONLY <1>3, <1>r
<1>5. I = {i}
  BY <1>3, <1>4 DEF DifferentMethods
<1>6. Max(I) = i
  <2>1. I \subseteq Nat /\ i \in I /\ \A y \in I : y <= i
    BY <1>1, <1>5
  <2> QED BY ONLY <2>1, MaxIs
<1>7. n \in {ds[k].name : k \in DOMAIN ds}
  BY <1>3, <1>4
<1>8. served[n] = ds[IF I # {} THEN Max(I) ELSE 0] /\ n \in DOMAIN served
  BY <1>7 DEF GeneratedServiceType, SelectLastInSeq, ds
<1>9. called[n] = [service_name |-> d.name, method |-> n, response |-> served[n].output_type]
      /\ n \in DOMAIN called
  BY <1>7 DEF GeneratedServiceStubType, ds
<1> HIDE DEF served, called, I
<1>10. served[n] = ds[i]
  BY <1>5, <1>6, <1>8
<1>11. ds[i].index = i /\ ds[i].input_type = ModuleLevelDescriptorName(ms[i].in)
       /\ ds[i].output_type = ModuleLevelDescriptorName(ms[i].out)
  BY <1>4
<1> QED BY <1>2, <1>8, <1>9, <1>10, <1>11 DEF d, served, called, Reflected

\* The same in Python.
THEOREM PythonStubsReach ==
    ASSUME NEW M, NEW X, AreServices(X, M), NEW f, f.services \in Seq(X),
           NEW j \in 1 .. Len(f.services), NEW i \in 1 .. Len(f.services[j].methods)
    PROVE  PythonReaches(f, j, i)
<1> DEFINE s == f.services[j]
           d == PrintServiceDescriptor(f, s).descriptor
<1>1. s \in X
  BY ElementOfSeq
<1>2. s.methods \in Seq(M) /\ DifferentMethods(s.methods)
  BY <1>1 DEF AreServices
<1>3. ClassDescriptor(PrintServices(f), 3 * j - 1) = d /\ ClassDescriptor(PrintServices(f), 3 * j) = d
  BY OwnDescriptor
<1>4. Reflected(d, s, i)
  <2> HIDE DEF s
  <2>1. i \in 1 .. Len(s.methods)
    BY DEF s
  <2> QED BY ONLY <1>2, <2>1, ReflectedMethod
<1> HIDE DEF d
<1> QED BY <1>3, <1>4 DEF PythonReaches, Reflected

\* The methods of the files of MCHelpers, those of the second service included.
ProtoMethods == [name : MethodNames, in : {OwnType, DepType}, out : {OwnType, PubType, DepType}]

\* The methods of the first service are a sequence, and their names differ.
LEMMA InputMethods ==
    ASSUME NEW ms \in MethodLists
    PROVE  ms \in Seq(Methods) /\ DifferentMethods(ms)
<1>1. PICK n \in 1 .. 2 : ms \in [1 .. n -> Methods]
  BY DEF MethodLists
<1>2. n \in Nat /\ DOMAIN ms = 1 .. n /\ ms \in Seq(Methods) /\ Len(ms) = n
  BY <1>1
<1> QED BY <1>2 DEF MethodLists, DifferentMethods

\* So are those of the second one.
LEMMA SecondMethods ==
    LET ms == SecondService.methods IN
    ms \in Seq(ProtoMethods) /\ Len(ms) = 1 /\ DifferentMethods(ms)
<1> DEFINE b == <<"b">>
           m == [name |-> b, in |-> OwnType, out |-> DepType]
           ms == SecondService.methods
<1>1. ms = <<m>>
  BY DEF SecondService
<1>2. b \in MethodNames
  BY DEF MethodNames
<1> HIDE DEF b
<1>3. m \in ProtoMethods
  BY <1>2 DEF ProtoMethods
<1> HIDE DEF m, ms
<1>4. ms \in Seq(ProtoMethods) /\ Len(ms) = 1
  BY <1>1, <1>3
<1>5. DifferentMethods(ms)
  BY <1>4 DEF DifferentMethods
<1> QED BY <1>4, <1>5 DEF ms

\* Of two services with the names S and s.
IsFirst(a) ==
    \E o \in BOOLEAN, ms \in MethodLists : a = [name |-> <<83>>, options |-> o, methods |-> ms]

\* The methods of the services of an input are different, as protoc requires.
LEMMA FirstMethods ==
    ASSUME NEW a, IsFirst(a)
    PROVE  a.methods \in Seq(ProtoMethods) /\ DifferentMethods(a.methods) /\ a.methods \in MethodLists
<1>1. PICK o \in BOOLEAN, ms \in MethodLists : a = [name |-> <<83>>, options |-> o, methods |-> ms]
  BY DEF IsFirst
<1>2. a.methods = ms
  BY <1>1
<1> HIDE <1>1
<1>3. ms \in Seq(Methods) /\ DifferentMethods(ms)
  BY ONLY ms \in MethodLists, InputMethods
<1>4. Methods \subseteq ProtoMethods
  BY DEF Methods, ProtoMethods
<1>5. ms \in Seq(ProtoMethods)
  BY ONLY <1>3, <1>4
<1> QED BY ONLY <1>2, <1>3, <1>5, ms \in MethodLists

\* The services of an input are none, or two.
LEMMA TwoServices ==
    ASSUME NEW ss \in ServiceLists
    PROVE  ss = <<>> \/ \E a : IsFirst(a) /\ ss = <<a, SecondService>>
<1> SUFFICES ASSUME ss # <<>> PROVE \E a : IsFirst(a) /\ ss = <<a, SecondService>>
  OBVIOUS
<1>1. PICK o \in BOOLEAN, ms \in MethodLists :
         ss = <<[name |-> <<83>>, options |-> o, methods |-> ms], SecondService>>
  BY DEF ServiceLists
<1> DEFINE a == [name |-> <<83>>, options |-> o, methods |-> ms]
<1>2. IsFirst(a)
  BY DEF IsFirst
<1>3. ss = <<a, SecondService>>
  BY <1>1
<1> HIDE DEF a
<1> QED BY ONLY <1>2, <1>3

\* They are services as the theorems about the stubs want them.
LEMMA InputServices ==
    ASSUME NEW ss \in ServiceLists
    PROVE  \E X : AreServices(X, ProtoMethods) /\ ss \in Seq(X)
<1>1. CASE ss = <<>>
  <2>1. AreServices({}, ProtoMethods) /\ <<>> \in Seq({})
    BY DEF AreServices
  <2> QED BY ONLY <1>1, <2>1
<1>2. CASE ss # <<>>
  <2>1. PICK a : IsFirst(a) /\ ss = <<a, SecondService>>
    BY <1>2, TwoServices
  <2> DEFINE b == SecondService
             X == {a, b}
  <2>2. a.methods \in Seq(ProtoMethods) /\ DifferentMethods(a.methods)
    BY ONLY <2>1, FirstMethods
  <2>3. b.methods \in Seq(ProtoMethods) /\ DifferentMethods(b.methods)
    BY ONLY SecondMethods
  <2> HIDE DEF b
  <2>4. AreServices(X, ProtoMethods)
    BY ONLY <2>2, <2>3 DEF AreServices
  <2>5. <<a, b>> \in Seq(X)
    OBVIOUS
  <2>6. ss = <<a, b>>
    BY ONLY <2>1 DEF b
  <2> QED BY ONLY <2>4, <2>5, <2>6
<1> QED BY <1>1, <1>2

\* A call of a generated stub method reaches the method of that name with its
\* types, in C++ and in Python: for the services of every input of MCHelpers.
THEOREM EveryStubReaches == HSpec => []StubReachesMethod
<1>1. ASSUME IsInput(input) PROVE StubReachesMethod
  <2>1. SUFFICES ASSUME input.kind = "service",
                        NEW j \in DOMAIN input.file.services,
                        NEW i \in DOMAIN input.file.services[j].methods
                 PROVE  CppReaches(input.file, j, i) /\ PythonReaches(input.file, j, i)
    BY DEF StubReachesMethod
  <2> DEFINE f == input.file
  <2>2. f \in Files
    BY <1>1, <2>1 DEF IsInput, NoInput
  <2>3. f.services \in ServiceLists
    BY <2>2 DEF Files
  <2>4. j \in DOMAIN f.services /\ i \in DOMAIN f.services[j].methods
    OBVIOUS
  <2> HIDE DEF f
  <2>5. PICK X : AreServices(X, ProtoMethods) /\ f.services \in Seq(X)
    BY ONLY <2>3, InputServices
  <2>6. j \in 1 .. Len(f.services)
    BY ONLY <2>4, <2>5
  <2>7. f.services[j] \in X
    BY ONLY <2>5, <2>6, ElementOfSeq
  <2>8. f.services[j].methods \in Seq(ProtoMethods)
    BY ONLY <2>5, <2>7 DEF AreServices
  <2>9. i \in 1 .. Len(f.services[j].methods)
    BY ONLY <2>4, <2>8
  <2>10. CppReaches(f, j, i)
    BY ONLY <2>5, <2>6, <2>9, CppStubsReach
  <2>11. PythonReaches(f, j, i)
    BY ONLY <2>5, <2>6, <2>9, PythonStubsReach
  <2> QED BY <2>10, <2>11 DEF f
<1> QED BY <1>1, InputInvariance, PTL

-----------------------------------------------------------------------------
(* What the plugins generate                                               *)

\* Namespaces are closed in the reverse order.
LEMMA NamespacesClosed ==
    ASSUME NEW S, NEW parts \in Seq(S)
    PROVE  NamespaceClosers(parts) = Reverse(NamespaceOpeners(parts))
<1> DEFINE o == NamespaceOpeners(parts)
           n == Len(parts)
<1>1. n \in Nat /\ DOMAIN parts = 1 .. n
  OBVIOUS
<1>2. o = parts
  BY DEF NamespaceOpeners
<1>3. Reverse(o) = [i \in 1 .. n |-> parts[(n - i) + 1]]
  BY <1>2 DEF Reverse
<1>4. NamespaceClosers(parts) = [i \in 1 .. n |-> parts[n + 1 - i]]
  BY <1>1 DEF NamespaceClosers
<1>5. \A i \in 1 .. n : (n - i) + 1 = n + 1 - i
  BY <1>1
<1> QED BY ONLY <1>3, <1>4, <1>5

\* What StripSuffixString() leaves of a name.
LEMMA Stripped ==
    ASSUME NEW S, NEW f \in Seq(S), f # <<>>, NEW suffix
    PROVE  /\ StripSuffixString(f, suffix) \in Seq(S)
           /\ Last(f) = suffix => Len(StripSuffixString(f, suffix)) = Len(f) - 1
           /\ Last(f) # suffix => StripSuffixString(f, suffix) = f
<1>1. Len(f) \in Nat /\ Len(f) # 0
  OBVIOUS
<1>2. Front(f) \in Seq(S) /\ Len(Front(f)) = Len(f) - 1
  <2> DEFINE n == Len(f) - 1
  <2>1. n \in Nat /\ 1 .. n \subseteq 1 .. Len(f)
    BY <1>1
  <2> HIDE DEF n
  <2>2. SubSeq(f, 1, n) = [i \in 1 .. n |-> f[i]]
    BY <2>1
  <2>3. SubSeq(f, 1, n) \in Seq(S) /\ Len(SubSeq(f, 1, n)) = n
    BY <2>1, <2>2
  <2> QED BY <2>3 DEF Front, n
<1>3. StripSuffixString(f, suffix) = IF Last(f) = suffix THEN Front(f) ELSE f
  BY DEF StripSuffixString, HasSuffixString
<1> QED BY <1>2, <1>3

\* The generated source includes the generated header, if there is one: unless
\* the name of the .proto file ends in .protodevel, which only StripProto() knows.
THEOREM HeaderIncluded ==
    ASSUME NEW S, NEW f \in Seq(S), f # <<>>, NEW options
    PROVE  IncludedHeader(f) \in CppFiles(f, options) <=>
              (\A i \in DOMAIN options : options[i] = "dllexport_decl") /\ Last(f) # ".protodevel"
<1> DEFINE T == S \cup {".rpcz", ".h", ".cc"}
           a == StripProto(f)
           b == StripSuffixString(f, ".proto")
           ext(s) == <<".rpcz", s>>
           known == \A i \in DOMAIN options : options[i] = "dllexport_decl"
<1>1. ".proto" # ".protodevel"
  OBVIOUS
<1>2. CASE Last(f) = ".protodevel"
  <2>1. a = StripSuffixString(f, ".protodevel")
    BY <1>2 DEF StripProto, HasSuffixString
  <2>2. a \in Seq(S) /\ Len(a) = Len(f) - 1
    BY ONLY <1>2, <2>1, Stripped, f \in Seq(S), f # <<>>
  <2>3. Last(f) # ".proto"
    BY <1>1, <1>2
  <2>4. b = f
    BY <2>3, Stripped
  <2> HIDE DEF a, b
  <2>5. ASSUME NEW s \in {".h", ".cc"} PROVE a \o ext(".h") # b \o ext(s)
    <3>1. a \in Seq(T) /\ b \in Seq(T) /\ ext(".h") \in Seq(T) /\ ext(s) \in Seq(T)
          /\ Len(ext(".h")) = 2 /\ Len(ext(s)) = 2
      BY <2>2, <2>4
    <3> DEFINE p == ext(".h")
               q == ext(s)
    <3> HIDE DEF ext, T, p, q
    <3>2. Len(a \o p) = Len(a) + 2 /\ Len(b \o q) = Len(b) + 2
      <4>1. a \in Seq(T) /\ b \in Seq(T) /\ p \in Seq(T) /\ q \in Seq(T) /\ Len(p) = 2 /\ Len(q) = 2
        BY ONLY <3>1 DEF p, q
      <4>2. Len(a \o p) = Len(a) + Len(p)
        BY ONLY <4>1, Joined
      <4>3. Len(b \o q) = Len(b) + Len(q)
        BY ONLY <4>1, Joined
      <4> QED BY <4>1, <4>2, <4>3
    <3>3. Len(f) \in Nat
      OBVIOUS
    <3> QED BY <2>2, <2>4, <3>2, <3>3 DEF p, q
  <2>6. IncludedHeader(f) \notin CppFiles(f, options)
    BY <2>5 DEF IncludedHeader, CppFiles, a, b
  <2> QED BY <1>2, <2>6
<1>3. CASE Last(f) # ".protodevel"
  <2>1. a = b
    BY <1>3 DEF StripProto, HasSuffixString
  <2> HIDE DEF a, b
  <2>2. IncludedHeader(f) = b \o ext(".h")
    BY <2>1 DEF IncludedHeader, a
  <2>3. CppFiles(f, options) = IF known THEN {b \o ext(".h"), b \o ext(".cc")} ELSE {}
    BY DEF CppFiles, b
  <2> HIDE DEF ext, known
  <2>4. IncludedHeader(f) \in CppFiles(f, options) <=> known
    BY ONLY <2>2, <2>3
  <2> QED BY <1>3, <2>4 DEF known
<1> QED BY <1>2, <1>3

\* StripString() replaces what it is asked to, and keeps the rest.
LEMMA Replaced ==
    ASSUME NEW S, NEW s \in Seq(S), NEW old, NEW new, new # "-", new # old
    PROVE  /\ StripString(s, old, new) \in Seq(S \cup {new})
           /\ (old = "-" \/ \A i \in DOMAIN s : s[i] # "-") =>
                 \A i \in DOMAIN StripString(s, old, new) : StripString(s, old, new)[i] # "-"
<1> DEFINE r == StripString(s, old, new)
<1>1. Len(s) \in Nat /\ DOMAIN s = 1 .. Len(s)
  OBVIOUS
<1>2. r = [i \in 1 .. Len(s) |-> IF s[i] = old THEN new ELSE s[i]]
  BY <1>1 DEF StripString
<1>3. r \in Seq(S \cup {new})
  <2>1. \A i \in 1 .. Len(s) : (IF s[i] = old THEN new ELSE s[i]) \in S \cup {new}
    OBVIOUS
  <2>2. r \in [1 .. Len(s) -> S \cup {new}]
    BY <1>2, <2>1
  <2> HIDE DEF r
  <2> QED BY <1>1, <2>2
<1>4. DOMAIN r = 1 .. Len(s) /\ \A i \in 1 .. Len(s) : r[i] = IF s[i] = old THEN new ELSE s[i]
  BY <1>2
<1> QED BY <1>1, <1>3, <1>4

\* An element more.
LEMMA OneMore ==
    ASSUME NEW S, NEW s \in Seq(S), NEW e, e # "-", \A i \in DOMAIN s : s[i] # "-"
    PROVE  s \o <<e>> \in Seq(S \cup {e}) /\ \A i \in DOMAIN (s \o <<e>>) : (s \o <<e>>)[i] # "-"
<1> DEFINE T == S \cup {e}
           t == s \o <<e>>
<1>1. s \in Seq(T) /\ <<e>> \in Seq(T) /\ Len(<<e>>) = 1 /\ <<e>>[1] = e /\ Len(s) \in Nat
      /\ DOMAIN s = 1 .. Len(s)
  OBVIOUS
<1>2. /\ t \in Seq(T) /\ Len(t) = Len(s) + 1
      /\ \A i \in 1 .. Len(s) : t[i] = s[i]
      /\ t[Len(s) + 1] = e
  BY <1>1
<1> HIDE DEF t
<1>3. \A i \in DOMAIN t : i \in 1 .. Len(s) \/ i = Len(s) + 1
  BY <1>1, <1>2
<1> QED BY <1>1, <1>2, <1>3 DEF t

\* The name of the Python file has no hyphen, so that it can be imported.
THEOREM PythonFileNamed ==
    ASSUME NEW S, NEW f \in Seq(S), f # <<>>
    PROVE  \A i \in DOMAIN PythonFile(f) : PythonFile(f)[i] # "-"
<1> DEFINE a == StripProto(f)
           b == StripString(a, "-", "_")
           c == StripString(b, "/", ".")
           d == c \o <<"_rpcz">>
           e == StripString(d, ".", "/")
<1>1. a \in Seq(S)
  BY Stripped DEF StripProto
<1> HIDE DEF a
<1>2. b \in Seq(S \cup {"_"}) /\ \A i \in DOMAIN b : b[i] # "-"
  <2>1. "_" # "-"
    OBVIOUS
  <2> QED BY ONLY <1>1, <2>1, Replaced
<1> HIDE DEF b
<1>3. c \in Seq((S \cup {"_"}) \cup {"."}) /\ \A i \in DOMAIN c : c[i] # "-"
  <2>1. "." # "-" /\ "." # "/"
    OBVIOUS
  <2> QED BY ONLY <1>2, <2>1, Replaced
<1> DEFINE T == (S \cup {"_"}) \cup {"."}
<1> HIDE DEF c
<1>4. d \in Seq(T \cup {"_rpcz"}) /\ \A i \in DOMAIN d : d[i] # "-"
  <2>1. "_rpcz" # "-"
    OBVIOUS
  <2> QED BY ONLY <1>3, <2>1, OneMore
<1> HIDE DEF d
<1>5. e \in Seq((T \cup {"_rpcz"}) \cup {"/"}) /\ \A i \in DOMAIN e : e[i] # "-"
  <2>1. "/" # "-" /\ "/" # "."
    OBVIOUS
  <2> QED BY ONLY <1>4, <2>1, Replaced
<1> HIDE DEF e
<1>6. \A i \in DOMAIN (e \o <<".py">>) : (e \o <<".py">>)[i] # "-"
  <2>1. ".py" # "-"
    OBVIOUS
  <2> QED BY ONLY <1>5, <2>1, OneMore
<1>7. PythonFile(f) = e \o <<".py">>
  BY DEF PythonFile, PyModule, a, b, c, d, e
<1> QED BY ONLY <1>6, <1>7

\* The lines of the serialized descriptor are the whole of it, in order.
THEOREM DescriptorComplete ==
    ASSUME NEW size \in Nat
    PROVE  LET chunks == Chunks(size) IN
           /\ \A i \in DOMAIN chunks :
                 /\ chunks[i].from < chunks[i].to
                 /\ chunks[i].from = (IF i = 1 THEN 0 ELSE chunks[i - 1].to)
                 /\ i = Len(chunks) => chunks[i].to = size
           /\ chunks = <<>> <=> size = 0
<1> DEFINE n == (size + 39) \div 40
           to(k) == IF (k - 1) * 40 + 40 < size THEN (k - 1) * 40 + 40 ELSE size
           row(k) == [from |-> (k - 1) * 40, to |-> to(k)]
           chunks == Chunks(size)
<1>1. n \in Nat /\ 40 * n <= size + 39 /\ size + 39 < 40 * n + 40
  OBVIOUS
<1>2. chunks = [k \in 1 .. n |-> row(k)]
  BY DEF Chunks, kBytesPerLine
<1>3. \A k \in 1 .. n : row(k).from = (k - 1) * 40 /\ row(k).to = to(k)
  OBVIOUS
<1> HIDE DEF row, chunks, n
<1>4. DOMAIN chunks = 1 .. n /\ Len(chunks) = n
      /\ \A k \in 1 .. n : chunks[k].from = (k - 1) * 40 /\ chunks[k].to = to(k)
  BY <1>1, <1>2, <1>3
<1>5. ASSUME NEW i \in 1 .. n
      PROVE  /\ chunks[i].from < chunks[i].to
             /\ chunks[i].from = (IF i = 1 THEN 0 ELSE chunks[i - 1].to)
             /\ i = Len(chunks) => chunks[i].to = size
  <2>1. i \in Nat /\ 1 <= i /\ i <= n
    BY <1>1
  <2>2. chunks[i].from = 40 * i - 40 /\ chunks[i].to = to(i)
        /\ to(i) = IF 40 * i < size THEN 40 * i ELSE size
    BY <1>4, <2>1
  <2>3. 40 * i <= 40 * n
    BY <1>1, <2>1
  <2>4. chunks[i].from < chunks[i].to
    BY <1>1, <2>1, <2>2, <2>3
  <2>5. i = Len(chunks) => chunks[i].to = size
    BY <1>1, <1>4, <2>1, <2>2
  <2>6. CASE i = 1
    BY <2>1, <2>2, <2>4, <2>5, <2>6
  <2>7. CASE i # 1
    <3>1. i - 1 \in 1 .. n /\ i - 1 \in Nat
      BY <1>1, <2>1, <2>7
    <3>2. chunks[i - 1].to = to(i - 1)
      BY <1>4, <3>1
    <3>3. to(i - 1) = 40 * i - 40
      BY <1>1, <2>1, <2>3, <3>1
    <3> HIDE DEF to
    <3> QED BY <2>2, <2>4, <2>5, <2>7, <3>2, <3>3
  <2> QED BY <2>6, <2>7
<1>6. chunks = <<>> <=> size = 0
  <2>1. n = 0 <=> size = 0
    BY <1>1
  <2>2. CASE n = 0
    BY <1>2, <2>1, <2>2
  <2>3. CASE n # 0
    <3>1. Len(chunks) # 0
      BY <1>4, <2>3
    <3> QED BY <2>1, <2>3, <3>1, NotEmpty
  <2> QED BY <2>2, <2>3
<1> QED BY <1>4, <1>5, <1>6 DEF chunks

\* The characters that file names have here.
Printable == 32 .. 126

\* The code of a character, which is one or three characters long.
LEMMA IdentifierShape ==
    ASSUME NEW c \in Printable
    PROVE  LET w == IdentifierOf(c) IN
           /\ w \in Seq(Nat) /\ Len(w) \in Nat /\ Len(w) >= 1
           /\ ascii_isalnum(c) => Len(w) = 1 /\ w[1] = c
           /\ ~ascii_isalnum(c) => /\ Len(w) = 3 /\ w[1] = Underscore
                                   /\ w[2] = HexDigit(c \div 16) /\ w[3] = HexDigit(c % 16)
<1>1. c \in Nat /\ c \div 16 \in Nat /\ c % 16 \in Nat
  BY DEF Printable
<1>2. CASE ascii_isalnum(c)
  <2>1. IdentifierOf(c) = <<c>>
    BY <1>2 DEF IdentifierOf
  <2>2. <<c>> \in Seq(Nat) /\ Len(<<c>>) = 1 /\ <<c>>[1] = c
    BY <1>1
  <2> QED BY ONLY <1>2, <2>1, <2>2
<1>3. CASE ~ascii_isalnum(c)
  <2> DEFINE x == HexDigit(c \div 16)
             y == HexDigit(c % 16)
  <2>1. x \in Nat /\ y \in Nat /\ Underscore \in Nat
    BY <1>1 DEF HexDigit, Underscore
  <2>2. IdentifierOf(c) = <<Underscore>> \o <<x, y>>
    BY <1>3 DEF IdentifierOf, FastHex
  <2> HIDE DEF x, y
  <2> DEFINE w == <<Underscore>> \o <<x, y>>
  <2>3. w \in Seq(Nat) /\ Len(w) = 3 /\ w[1] = Underscore /\ w[2] = x /\ w[3] = y
    BY ONLY <2>1
  <2> HIDE DEF w
  <2> QED BY <1>3, <2>2, <2>3 DEF w, x, y
<1> QED BY <1>2, <1>3

\* Different characters have different codes, and a code does not begin another.
LEMMA CodesDiffer ==
    ASSUME NEW c \in Printable, NEW d \in Printable,
           Len(IdentifierOf(c)) = Len(IdentifierOf(d)),
           \A t \in 1 .. Len(IdentifierOf(c)) : IdentifierOf(c)[t] = IdentifierOf(d)[t]
    PROVE  c = d
<1> DEFINE v == IdentifierOf(c)
           w == IdentifierOf(d)
<1>1. /\ ascii_isalnum(c) => Len(v) = 1 /\ v[1] = c
      /\ ~ascii_isalnum(c) => Len(v) = 3 /\ v[2] = HexDigit(c \div 16) /\ v[3] = HexDigit(c % 16)
  BY IdentifierShape
<1>2. /\ ascii_isalnum(d) => Len(w) = 1 /\ w[1] = d
      /\ ~ascii_isalnum(d) => Len(w) = 3 /\ w[2] = HexDigit(d \div 16) /\ w[3] = HexDigit(d % 16)
  BY IdentifierShape
<1>3. Len(v) = Len(w) /\ \A t \in 1 .. Len(v) : v[t] = w[t]
  OBVIOUS
<1> HIDE DEF v, w
<1>4. CASE ascii_isalnum(c)
  <2>1. ascii_isalnum(d) /\ 1 \in 1 .. Len(v)
    BY <1>1, <1>2, <1>3, <1>4
  <2> QED BY <1>1, <1>2, <1>3, <1>4, <2>1
<1>5. CASE ~ascii_isalnum(c)
  <2>1. ~ascii_isalnum(d) /\ Len(v) = 3
    BY <1>1, <1>2, <1>3, <1>5
  <2>2. 2 \in 1 .. Len(v) /\ 3 \in 1 .. Len(v)
    BY <2>1
  <2>3. HexDigit(c \div 16) = HexDigit(d \div 16) /\ HexDigit(c % 16) = HexDigit(d % 16)
    BY <1>1, <1>2, <1>3, <1>5, <2>1, <2>2
  <2> HIDE DEF ascii_isalnum
  <2>4. c \in Nat /\ d \in Nat
    BY DEF Printable
  <2>5. c \div 16 = d \div 16 /\ c % 16 = d % 16
    BY <2>3, <2>4 DEF HexDigit
  <2> QED BY <2>4, <2>5
<1> QED BY <1>4, <1>5

\* The first character of a code says how long it is.
LEMMA FirstTells ==
    ASSUME NEW c \in Printable, NEW d \in Printable, IdentifierOf(c)[1] = IdentifierOf(d)[1]
    PROVE  Len(IdentifierOf(c)) = Len(IdentifierOf(d))
<1>1. ~ascii_isalnum(Underscore)
  BY DEF ascii_isalnum, Underscore
<1>2. /\ ascii_isalnum(c) => Len(IdentifierOf(c)) = 1 /\ IdentifierOf(c)[1] = c
      /\ ~ascii_isalnum(c) => Len(IdentifierOf(c)) = 3 /\ IdentifierOf(c)[1] = Underscore
  BY IdentifierShape
<1>3. /\ ascii_isalnum(d) => Len(IdentifierOf(d)) = 1 /\ IdentifierOf(d)[1] = d
      /\ ~ascii_isalnum(d) => Len(IdentifierOf(d)) = 3 /\ IdentifierOf(d)[1] = Underscore
  BY IdentifierShape
<1> QED BY ONLY <1>1, <1>2, <1>3, IdentifierOf(c)[1] = IdentifierOf(d)[1]

\* What follows the same sequences is in the same place.
LEMMA SameOffsets ==
    ASSUME NEW p, NEW q, NEW s, NEW r, NEW n \in Nat, Offsets(p, s, n), Offsets(q, r, n),
           \A k \in 1 .. n : s[k] = r[k]
    PROVE  p[n + 1] = q[n + 1]
<1> DEFINE bad == {k \in Nat : k <= n /\ p[k + 1] # q[k + 1]}
<1> SUFFICES ASSUME p[n + 1] # q[n + 1] PROVE FALSE
  OBVIOUS
<1>0. n \in bad
  <2>1. n <= n
    OBVIOUS
  <2> QED BY <2>1
<1>1. PICK k \in bad : \A y \in bad : k <= y
  BY <1>0, LeastNatural
<1>2. k \in Nat /\ k <= n /\ p[k + 1] # q[k + 1]
  OBVIOUS
<1>3. p[1] = 0 /\ q[1] = 0
  BY DEF Offsets
<1>4. k # 0
  BY <1>2, <1>3
<1>5. k - 1 \in Nat /\ k \in 1 .. n /\ k - 1 <= n /\ k - 1 + 1 = k
  BY <1>2, <1>4
<1>6. k - 1 \notin bad
  BY <1>1, <1>2
<1>7. p[k] = q[k]
  <2>1. ~(p[k - 1 + 1] # q[k - 1 + 1])
    BY <1>5, <1>6
  <2> QED BY <1>5, <2>1
<1> HIDE DEF bad
<1>8. p[k + 1] = p[k] + Len(s[k]) /\ q[k + 1] = q[k] + Len(r[k])
  BY <1>5 DEF Offsets
<1>9. s[k] = r[k]
  BY <1>5
<1> QED BY <1>2, <1>7, <1>8, <1>9

\* The codes of the characters of a file name.
CodesOf(f) == [i \in DOMAIN f |-> IdentifierOf(f[i])]

\* The identifier of a file name is made of the codes of its characters.
LEMMA CodesAre ==
    ASSUME NEW f \in Seq(Printable)
    PROVE  /\ CodesOf(f) \in Seq(Seq(Nat)) /\ Len(CodesOf(f)) = Len(f)
           /\ \A i \in 1 .. Len(f) : CodesOf(f)[i] = IdentifierOf(f[i]) /\ f[i] \in Printable
           /\ FilenameIdentifier(f) = FlattenSeq(CodesOf(f))
<1>1. Len(f) \in Nat /\ DOMAIN f = 1 .. Len(f) /\ \A i \in 1 .. Len(f) : f[i] \in Printable
  OBVIOUS
<1>2. \A i \in 1 .. Len(f) : IdentifierOf(f[i]) \in Seq(Nat)
  BY <1>1, IdentifierShape
<1>3. CodesOf(f) = [i \in 1 .. Len(f) |-> IdentifierOf(f[i])]
  BY <1>1 DEF CodesOf
<1>4. CodesOf(f) \in [1 .. Len(f) -> Seq(Nat)]
  BY <1>2, <1>3
<1>5. CodesOf(f) \in Seq(Seq(Nat)) /\ Len(CodesOf(f)) = Len(f)
  BY <1>1, <1>4
<1>6. \A i \in 1 .. Len(f) : CodesOf(f)[i] = IdentifierOf(f[i])
  BY <1>3
<1>7. FilenameIdentifier(f) = FlattenSeq(CodesOf(f))
  BY DEF FilenameIdentifier, CodesOf
<1> QED BY <1>1, <1>5, <1>6, <1>7

\* Two names with the same code cannot be the same up to n, and then one of them
\* end or a character differ.
LEMMA NoFirstDifference ==
    ASSUME NEW g \in Seq(Printable), NEW h \in Seq(Printable),
           FilenameIdentifier(g) = FilenameIdentifier(h),
           NEW n \in Nat, n <= Len(g), n + 1 \in 1 .. Len(h), \A k \in 1 .. n : g[k] = h[k],
           n + 1 \in 1 .. Len(g) => g[n + 1] # h[n + 1]
    PROVE  FALSE
<1> DEFINE s == CodesOf(g)
           r == CodesOf(h)
           x == FilenameIdentifier(g)
           m == n + 1
<1>1. /\ s \in Seq(Seq(Nat)) /\ Len(s) = Len(g) /\ x = FlattenSeq(s)
      /\ \A i \in 1 .. Len(g) : s[i] = IdentifierOf(g[i]) /\ g[i] \in Printable
  BY CodesAre
<1>2. /\ r \in Seq(Seq(Nat)) /\ Len(r) = Len(h) /\ x = FlattenSeq(r)
      /\ \A i \in 1 .. Len(h) : r[i] = IdentifierOf(h[i]) /\ h[i] \in Printable
  BY CodesAre
<1>3. Len(g) \in Nat /\ Len(h) \in Nat /\ 1 .. n \subseteq 1 .. Len(g) /\ 1 .. n \subseteq 1 .. Len(h)
  OBVIOUS
<1> HIDE DEF s, r, x
<1>4. PICK p : Offsets(p, s, Len(s)) /\ Placed(FlattenSeq(s), Nat, p, s, Len(s))
  BY ONLY <1>1, FlattenPlaced
<1>5. PICK q : Offsets(q, r, Len(r)) /\ Placed(FlattenSeq(r), Nat, q, r, Len(r))
  BY ONLY <1>2, FlattenPlaced
<1>6. /\ Len(x) = p[Len(g) + 1]
      /\ \A j \in 1 .. Len(g) : \A t \in 1 .. Len(s[j]) : x[p[j] + t] = s[j][t]
  BY ONLY <1>1, <1>4 DEF Placed
<1>7. /\ x \in Seq(Nat)
      /\ \A j \in 1 .. Len(h) : \A t \in 1 .. Len(r[j]) : q[j] + t \in 1 .. Len(x) /\ x[q[j] + t] = r[j][t]
  BY ONLY <1>2, <1>5 DEF Placed
<1>8. Offsets(p, s, n) /\ Offsets(q, r, n)
  BY ONLY <1>1, <1>2, <1>3, <1>4, <1>5 DEF Offsets
<1>9. \A k \in 1 .. n : s[k] = r[k]
  BY <1>1, <1>2, <1>3
<1>10. p[m] = q[m]
  BY ONLY <1>8, <1>9, SameOffsets, n \in Nat
<1>11. m \in 1 .. Len(h) /\ m \in Nat
  OBVIOUS
<1>12. q[m] \in Nat
  BY ONLY <1>2, <1>5, <1>11 DEF Offsets
<1> DEFINE c == h[m]
           w == IdentifierOf(c)
<1>13. c \in Printable /\ r[m] = w
  BY <1>2, <1>11
<1>14. Len(w) \in Nat /\ Len(w) >= 1
  BY ONLY <1>13, IdentifierShape
<1>15. 1 \in 1 .. Len(w)
  BY <1>14
<1>16. q[m] + 1 \in 1 .. Len(x) /\ x[q[m] + 1] = w[1]
  BY ONLY <1>7, <1>11, <1>13, <1>15
<1>17. CASE n = Len(g)
  <2>1. Len(x) = q[m]
    BY <1>6, <1>10, <1>17
  <2> QED BY ONLY <1>12, <1>16, <2>1
<1>18. CASE n # Len(g)
  <2>1. m \in 1 .. Len(g)
    BY <1>3, <1>18
  <2> DEFINE d == g[m]
             v == IdentifierOf(d)
  <2>2. d \in Printable /\ s[m] = v /\ d # c
    BY <1>1, <2>1
  <2>3. Len(v) \in Nat /\ Len(v) >= 1
    BY ONLY <2>2, IdentifierShape
  <2> HIDE DEF m, c, w, d, v
  <2>4. \A t \in 1 .. Len(v) : x[p[m] + t] = v[t]
    BY ONLY <1>6, <2>1, <2>2
  <2>5. \A t \in 1 .. Len(w) : x[p[m] + t] = w[t]
    BY ONLY <1>7, <1>10, <1>11, <1>13
  <2>6. v[1] = w[1]
    BY ONLY <1>14, <2>3, <2>4, <2>5
  <2>7. Len(v) = Len(w)
    BY ONLY <1>13, <2>2, <2>6, FirstTells DEF v, w
  <2>8. \A t \in 1 .. Len(v) : v[t] = w[t]
    BY ONLY <2>4, <2>5, <2>7
  <2>9. d = c
    BY ONLY <1>13, <2>2, <2>7, <2>8, CodesDiffer DEF v, w
  <2> QED BY <2>2, <2>9
<1> QED BY <1>17, <1>18

\* Files with different names have different include guards and global names.
THEOREM FilenamesDiffer ==
    ASSUME NEW g \in Seq(Printable), NEW h \in Seq(Printable),
           FilenameIdentifier(g) = FilenameIdentifier(h)
    PROVE  g = h
<1> DEFINE T == {k \in Nat : k \in 1 .. Len(g) /\ k \in 1 .. Len(h) /\ g[k] # h[k]}
<1>1. Len(g) \in Nat /\ Len(h) \in Nat
  OBVIOUS
<1>2. T = {}
  <2> SUFFICES ASSUME T # {} PROVE FALSE
    OBVIOUS
  <2>1. PICK m \in T : \A y \in T : m <= y
    BY LeastNatural
  <2> DEFINE n == m - 1
  <2>2. m \in 1 .. Len(g) /\ m \in 1 .. Len(h) /\ g[m] # h[m] /\ m \in Nat
    OBVIOUS
  <2>3. n \in Nat /\ n + 1 = m /\ n <= Len(g)
    BY <1>1, <2>2
  <2>4. \A k \in 1 .. n : g[k] = h[k]
    <3> TAKE k \in 1 .. n
    <3>1. k \in 1 .. Len(g) /\ k \in 1 .. Len(h) /\ k \in Nat /\ ~(m <= k)
      BY <1>1, <2>2, <2>3
    <3>2. k \notin T
      BY <2>1, <3>1
    <3> QED BY <3>1, <3>2
  <2> HIDE DEF T, n
  <2>5. n + 1 \in 1 .. Len(h) /\ g[n + 1] # h[n + 1]
    BY ONLY <2>2, <2>3
  <2> QED BY ONLY <2>3, <2>4, <2>5, NoFirstDifference, g \in Seq(Printable), h \in Seq(Printable),
                  FilenameIdentifier(g) = FilenameIdentifier(h)
<1>3. \A k \in 1 .. Len(g) : k \in 1 .. Len(h) => g[k] = h[k]
  BY <1>2
<1> HIDE DEF T
<1>4. ~(Len(g) < Len(h))
  <2> SUFFICES ASSUME Len(g) < Len(h) PROVE FALSE
    OBVIOUS
  <2> DEFINE n == Len(g)
  <2>1. n \in Nat /\ n <= Len(g) /\ n + 1 \in 1 .. Len(h) /\ n + 1 \notin 1 .. Len(g)
        /\ \A k \in 1 .. n : g[k] = h[k]
    BY <1>1, <1>3
  <2> HIDE DEF n
  <2> QED BY ONLY <2>1, NoFirstDifference, g \in Seq(Printable), h \in Seq(Printable),
                  FilenameIdentifier(g) = FilenameIdentifier(h)
<1>5. ~(Len(h) < Len(g))
  <2> SUFFICES ASSUME Len(h) < Len(g) PROVE FALSE
    OBVIOUS
  <2> DEFINE n == Len(h)
  <2>1. n \in Nat /\ n <= Len(h) /\ n + 1 \in 1 .. Len(g) /\ n + 1 \notin 1 .. Len(h)
        /\ \A k \in 1 .. n : h[k] = g[k]
    BY <1>1, <1>3
  <2>2. FilenameIdentifier(h) = FilenameIdentifier(g)
    OBVIOUS
  <2> HIDE DEF n
  <2> QED BY ONLY <2>1, <2>2, NoFirstDifference, g \in Seq(Printable), h \in Seq(Printable)
<1>6. Len(g) = Len(h)
  BY <1>1, <1>4, <1>5
<1>7. \A k \in 1 .. Len(g) : g[k] = h[k]
  BY ONLY <1>3, <1>6
<1> QED BY ONLY <1>6, <1>7, SeqEqual, g \in Seq(Printable), h \in Seq(Printable)

\* The elements of a sequence.
Elements(s) == {s[k] : k \in 1 .. Len(s)}
IsSequence(s) == s \in Seq(Elements(s))

\* Every sequence is one of its elements.
LEMMA AnySequence ==
    ASSUME NEW S, NEW s \in Seq(S)
    PROVE  IsSequence(s) /\ Elements(s) \subseteq S /\ Len(s) \in Nat /\ DOMAIN s = 1 .. Len(s)
<1>1. Len(s) \in Nat /\ DOMAIN s = 1 .. Len(s)
  OBVIOUS
<1>2. \A k \in 1 .. Len(s) : s[k] \in S /\ s[k] \in Elements(s)
  BY DEF Elements
<1>3. s \in [1 .. Len(s) -> Elements(s)]
  BY <1>1, <1>2
<1>4. s \in Seq(Elements(s))
  BY <1>1, <1>3
<1>5. Elements(s) \subseteq S
  BY <1>2 DEF Elements
<1> QED BY <1>1, <1>4, <1>5 DEF IsSequence

\* A function on 1 .. n is one.
LEMMA FunctionIsSequence ==
    ASSUME NEW n \in Nat, NEW s, DOMAIN s = 1 .. n, s = [k \in 1 .. n |-> s[k]]
    PROVE  IsSequence(s) /\ Len(s) = n /\ Elements(s) = {s[k] : k \in 1 .. n}
<1> DEFINE T == {s[k] : k \in 1 .. n}
<1>1. \A k \in 1 .. n : s[k] \in T
  OBVIOUS
<1> HIDE DEF T
<1>2. s \in [1 .. n -> T]
  BY <1>1
<1>3. s \in Seq(T) /\ Len(s) = n
  BY <1>2
<1>4. Elements(s) = T
  BY <1>3 DEF Elements, T
<1> QED BY <1>3, <1>4 DEF IsSequence, T

\* u is s, and then t.
IsJoined(u, s, t) ==
    /\ IsSequence(u) /\ Elements(u) = Elements(s) \cup Elements(t)
    /\ Len(s) \in Nat /\ Len(t) \in Nat /\ Len(u) = Len(s) + Len(t)
    /\ \A i \in 1 .. Len(s) : u[i] = s[i]
    /\ \A i \in 1 .. Len(t) : u[Len(s) + i] = t[i]
    /\ DOMAIN u = 1 .. Len(s) + Len(t)
    /\ DOMAIN s = 1 .. Len(s) /\ DOMAIN t = 1 .. Len(t)

\* Two sequences, one after the other.
LEMMA JoinedElements ==
    ASSUME NEW s, NEW t, IsSequence(s), IsSequence(t)
    PROVE  IsJoined(s \o t, s, t)
<1> DEFINE S == Elements(s) \cup Elements(t)
           u == s \o t
<1>1. s \in Seq(Elements(s)) /\ t \in Seq(Elements(t))
  BY DEF IsSequence
<1>2. s \in Seq(S) /\ t \in Seq(S)
  <2> DEFINE A == Elements(s)
             B == Elements(t)
  <2>1. A \subseteq S /\ B \subseteq S
    OBVIOUS
  <2> HIDE DEF A, B, S
  <2>2. s \in Seq(A) /\ t \in Seq(B)
    BY <1>1 DEF A, B
  <2> QED BY ONLY <2>1, <2>2
<1> HIDE DEF S
<1>3. /\ u \in Seq(S) /\ Len(u) = Len(s) + Len(t)
      /\ \A i \in 1 .. Len(s) : u[i] = s[i]
      /\ \A i \in 1 .. Len(t) : u[Len(s) + i] = t[i]
  BY ONLY <1>2, Joined
<1>4. Len(s) \in Nat /\ Len(t) \in Nat /\ DOMAIN s = 1 .. Len(s) /\ DOMAIN t = 1 .. Len(t)
  BY ONLY <1>2
<1> HIDE DEF u
<1>5. IsSequence(u) /\ DOMAIN u = 1 .. Len(u)
  BY ONLY <1>3, AnySequence
<1>6. Elements(u) = Elements(s) \cup Elements(t)
  <2>1. ASSUME NEW x \in Elements(u) PROVE x \in Elements(s) \cup Elements(t)
    <3>1. PICK k \in 1 .. Len(u) : x = u[k]
      BY DEF Elements
    <3>2. CASE k <= Len(s)
      <4>1. k \in 1 .. Len(s)
        BY <1>3, <1>4, <3>2
      <4> QED BY <1>3, <3>1, <4>1 DEF Elements
    <3>3. CASE ~(k <= Len(s))
      <4> DEFINE l == k - Len(s)
      <4>1. l \in 1 .. Len(t) /\ Len(s) + l = k
        BY <1>3, <1>4, <3>3
      <4> HIDE DEF l
      <4>2. u[k] = t[l]
        BY <1>3, <4>1
      <4> QED BY <3>1, <4>1, <4>2 DEF Elements
    <3> QED BY <3>2, <3>3
  <2>2. ASSUME NEW x \in Elements(s) PROVE x \in Elements(u)
    <3>1. PICK k \in 1 .. Len(s) : x = s[k]
      BY DEF Elements
    <3>2. k \in 1 .. Len(u) /\ u[k] = x
      BY <1>3, <1>4, <3>1
    <3> QED BY <3>2 DEF Elements
  <2>3. ASSUME NEW x \in Elements(t) PROVE x \in Elements(u)
    <3>1. PICK k \in 1 .. Len(t) : x = t[k]
      BY DEF Elements
    <3> DEFINE l == Len(s) + k
    <3>2. l \in 1 .. Len(u) /\ u[l] = x
      BY <1>3, <1>4, <3>1
    <3> HIDE DEF l
    <3> QED BY <3>2 DEF Elements
  <2> QED BY <2>1, <2>2, <2>3
<1> QED BY <1>3, <1>4, <1>5, <1>6 DEF u, IsJoined

\* Many sequences, one after the other.
LEMMA FlattenedElements ==
    ASSUME NEW T, NEW seqs \in Seq(T), \A j \in 1 .. Len(seqs) : IsSequence(seqs[j])
    PROVE  /\ IsSequence(FlattenSeq(seqs))
           /\ Elements(FlattenSeq(seqs)) = UNION {Elements(seqs[j]) : j \in 1 .. Len(seqs)}
           /\ \E S, off : /\ Offsets(off, seqs, Len(seqs))
                          /\ Placed(FlattenSeq(seqs), S, off, seqs, Len(seqs))
<1> DEFINE n == Len(seqs)
           S == UNION {Elements(seqs[j]) : j \in 1 .. n}
           flat == FlattenSeq(seqs)
<1>1. n \in Nat /\ seqs = [j \in 1 .. n |-> seqs[j]]
  OBVIOUS
<1>2. ASSUME NEW j \in 1 .. n PROVE seqs[j] \in Seq(S)
  <2> DEFINE e == seqs[j]
             A == Elements(e)
  <2>1. A \subseteq S
    OBVIOUS
  <2>2. e \in Seq(A)
    BY DEF IsSequence
  <2> HIDE DEF S, A, e
  <2>3. e \in Seq(S)
    BY ONLY <2>1, <2>2
  <2> QED BY <2>3 DEF e
<1> HIDE DEF S
<1>3. seqs \in Seq(Seq(S))
  <2>1. seqs \in [1 .. n -> Seq(S)]
    BY <1>1, <1>2
  <2> QED BY <1>1, <2>1
<1>4. PICK off : Offsets(off, seqs, n) /\ Placed(flat, S, off, seqs, n)
  BY ONLY <1>3, FlattenPlaced
<1> HIDE DEF flat, n
<1>5. /\ flat \in Seq(S)
      /\ \A j \in 1 .. n : \A t \in 1 .. Len(seqs[j]) :
            off[j] + t \in 1 .. Len(flat) /\ flat[off[j] + t] = seqs[j][t]
      /\ \A k \in 1 .. Len(flat) : \E j \in 1 .. n : \E t \in 1 .. Len(seqs[j]) : k = off[j] + t
  BY ONLY <1>4 DEF Placed
<1>6. IsSequence(flat) /\ Elements(flat) \subseteq S
  BY ONLY <1>5, AnySequence
<1>7. S \subseteq Elements(flat)
  <2> SUFFICES ASSUME NEW x \in S PROVE x \in Elements(flat)
    OBVIOUS
  <2>1. PICK j \in 1 .. n : x \in Elements(seqs[j])
    BY DEF S
  <2>2. PICK t \in 1 .. Len(seqs[j]) : x = seqs[j][t]
    BY <2>1 DEF Elements
  <2> DEFINE k == off[j] + t
  <2>3. k \in 1 .. Len(flat) /\ flat[k] = x
    BY <1>5, <2>2
  <2> HIDE DEF k
  <2> QED BY <2>3 DEF Elements
<1>8. Elements(flat) = S
  BY <1>6, <1>7
<1> QED BY <1>4, <1>6, <1>8 DEF S, flat, n

\* The statements of a Python module.
LEMMA ModuleElements ==
    ASSUME NEW X, NEW f, f.services \in Seq(X)
    PROVE  LET n == Len(f.services) IN
           /\ IsSequence(PrintServices(f))
           /\ Elements(PrintServices(f)) = UNION {Elements(Statements(f, f.services[j])) : j \in 1 .. n}
<1> DEFINE n == Len(f.services)
           T == {Statements(f, f.services[k]) : k \in 1 .. n}
           seqs == [k \in 1 .. n |-> Statements(f, f.services[k])]
<1>1. n \in Nat /\ DOMAIN f.services = 1 .. n
  OBVIOUS
<1>2. PrintServices(f) = FlattenSeq(seqs)
  BY <1>1 DEF PrintServices, EachService, Each, Statements
<1>3. seqs \in Seq(T) /\ Len(seqs) = n /\ \A k \in 1 .. n : seqs[k] = Statements(f, f.services[k])
  <2>1. \A k \in 1 .. n : Statements(f, f.services[k]) \in T
    OBVIOUS
  <2> HIDE DEF T
  <2> QED BY <1>1, <2>1
<1>4. ASSUME NEW k \in 1 .. n PROVE IsSequence(Statements(f, f.services[k]))
  <2> DEFINE x == PrintServiceDescriptor(f, f.services[k])
             y == PrintServiceClass(f.services[k])
             z == PrintServiceStub(f.services[k])
  <2>1. Statements(f, f.services[k]) = <<x, y, z>>
    BY DEF Statements
  <2> HIDE DEF x, y, z
  <2>2. <<x, y, z>> \in Seq({x, y, z})
    OBVIOUS
  <2>3. IsSequence(<<x, y, z>>)
    BY ONLY <2>2, AnySequence
  <2> QED BY ONLY <2>1, <2>3
<1> HIDE DEF seqs, T, n
<1>5. \A k \in 1 .. Len(seqs) : IsSequence(seqs[k])
  BY <1>3, <1>4
<1>6. /\ IsSequence(FlattenSeq(seqs))
      /\ Elements(FlattenSeq(seqs)) = UNION {Elements(seqs[j]) : j \in 1 .. Len(seqs)}
  BY ONLY <1>3, <1>5, FlattenedElements
<1>7. UNION {Elements(seqs[j]) : j \in 1 .. Len(seqs)} =
        UNION {Elements(Statements(f, f.services[j])) : j \in 1 .. n}
  BY ONLY <1>3
<1> QED BY ONLY <1>2, <1>6, <1>7 DEF n

\* The statements for a service.
LEMMA StatementElements ==
    ASSUME NEW f, NEW s
    PROVE  Elements(Statements(f, s)) =
              {PrintServiceDescriptor(f, s), PrintServiceClass(s), PrintServiceStub(s)}
<1> DEFINE x == PrintServiceDescriptor(f, s)
           y == PrintServiceClass(s)
           z == PrintServiceStub(s)
           b == Statements(f, s)
<1>1. b = <<x, y, z>>
  BY DEF Statements
<1> HIDE DEF x, y, z
<1>2. Len(b) = 3 /\ b[1] = x /\ b[2] = y /\ b[3] = z
  BY <1>1
<1> HIDE DEF b
<1>3. 1 .. 3 = {1, 2, 3}
  OBVIOUS
<1>4. Elements(b) = {b[k] : k \in {1, 2, 3}}
  BY ONLY <1>2, <1>3 DEF Elements
<1>5. {b[k] : k \in {1, 2, 3}} = {b[1], b[2], b[3]}
  OBVIOUS
<1> QED BY ONLY <1>2, <1>4, <1>5 DEF x, y, z, b

\* A Python module has the modules that it uses, if all types of its methods are
\* in the file or in a file that it imports itself.
ImportsItself(f, t) == t.file = f.name \/ \E d \in f.deps : t.file = d.name
TypesImported(f) ==
    \A j \in DOMAIN f.services : \A t \in TypesOf(f.services[j]) : ImportsItself(f, t)
UsedBy(f) == UNION {PrintServices(f)[k].uses : k \in DOMAIN PrintServices(f)}

\* What the statements for a service use.
LEMMA StatementUses ==
    ASSUME NEW f, NEW s
    PROVE  /\ PrintServiceDescriptor(f, s).uses =
                 {Module("descriptor"), ModuleName(f.name)} \cup OptionsValue(f, s)
                 \cup {ModuleName(t.file) : t \in TypesOf(s)}
           /\ PrintServiceClass(s).uses = {Module("service"), Module("service_reflection")}
           /\ PrintServiceStub(s).uses = {Module("service_reflection")}
           /\ OptionsValue(f, s) \subseteq PrintTopBoilerplate(f)
<1>1. \A t \in TypesOf(s) : ModuleLevelDescriptorName(t).module = ModuleName(t.file)
  BY DEF ModuleLevelDescriptorName
<1>2. {ModuleLevelDescriptorName(t).module : t \in TypesOf(s)} = {ModuleName(t.file) : t \in TypesOf(s)}
  BY ONLY <1>1
<1>3. PrintServiceDescriptor(f, s).uses =
         {Module("descriptor"), ModuleName(f.name)} \cup OptionsValue(f, s)
         \cup {ModuleLevelDescriptorName(t).module : t \in TypesOf(s)}
  BY DEF PrintServiceDescriptor
<1>4. OptionsValue(f, s) \subseteq PrintTopBoilerplate(f)
  BY Zenon DEF OptionsValue, PrintTopBoilerplate
<1>5. /\ PrintServiceClass(s).uses = {Module("service"), Module("service_reflection")}
      /\ PrintServiceStub(s).uses = {Module("service_reflection")}
  BY DEF PrintServiceClass, PrintServiceStub
<1> QED BY ONLY <1>2, <1>3, <1>4, <1>5

\* The generated module can be imported if, and only if, the file imports the
\* files of all types itself: a type that a dependency imports publicly is missing.
THEOREM PythonFindsTypes ==
    ASSUME NEW X, NEW f, f.services \in Seq(X)
    PROVE  UsedBy(f) \subseteq PrintTopBoilerplate(f) \cup PrintImports(f) <=> TypesImported(f)
<1> DEFINE module == PrintServices(f)
           n == Len(f.services)
           has == PrintTopBoilerplate(f) \cup PrintImports(f)
<1>1. n \in Nat /\ DOMAIN f.services = 1 .. n
  OBVIOUS
<1>2. /\ IsSequence(module)
      /\ Elements(module) = UNION {Elements(Statements(f, f.services[j])) : j \in 1 .. n}
  BY ModuleElements
<1>3. DOMAIN module = 1 .. Len(module)
  BY ONLY <1>2, AnySequence DEF IsSequence
<1>4. UsedBy(f) = UNION {st.uses : st \in Elements(module)}
  BY <1>3 DEF UsedBy, Elements
<1>5. UsedBy(f) \subseteq has <=> (\A st \in Elements(module) : st.uses \subseteq has)
  BY <1>4
<1> HIDE DEF module
<1>6. (\A st \in Elements(module) : st.uses \subseteq has) <=>
         (\A j \in 1 .. n : \A st \in Elements(Statements(f, f.services[j])) : st.uses \subseteq has)
  BY <1>2
<1>7. ASSUME NEW t PROVE ModuleName(t.file) \in has <=> ImportsItself(f, t)
  <2>1. ModuleName(t.file) \notin PrintTopBoilerplate(f)
    BY DEF ModuleName, PrintTopBoilerplate, Module
  <2>2. ModuleName(t.file) \in PrintImports(f) <=>
          ModuleName(t.file) = ModuleName(f.name) \/ \E d \in f.deps : ModuleName(t.file) = ModuleName(d.name)
    BY DEF PrintImports
  <2>3. \A x, y : ModuleName(x) = ModuleName(y) <=> x = y
    BY DEF ModuleName
  <2> QED BY <2>1, <2>2, <2>3 DEF ImportsItself
<1>8. ASSUME NEW j \in 1 .. n
      PROVE  (\A st \in Elements(Statements(f, f.services[j])) : st.uses \subseteq has) <=>
                \A t \in TypesOf(f.services[j]) : ImportsItself(f, t)
  <2> DEFINE s == f.services[j]
             a == PrintServiceDescriptor(f, s)
             b == PrintServiceClass(s)
             c == PrintServiceStub(s)
  <2>1. Elements(Statements(f, s)) = {a, b, c}
    BY ONLY StatementElements
  <2>2. /\ a.uses = {Module("descriptor"), ModuleName(f.name)} \cup OptionsValue(f, s)
                    \cup {ModuleName(t.file) : t \in TypesOf(s)}
        /\ b.uses = {Module("service"), Module("service_reflection")}
        /\ c.uses = {Module("service_reflection")}
        /\ OptionsValue(f, s) \subseteq PrintTopBoilerplate(f)
    BY ONLY StatementUses
  <2>3. {Module("descriptor"), Module("service"), Module("service_reflection")} \subseteq has
    BY DEF PrintTopBoilerplate
  <2>4. ModuleName(f.name) \in has
    BY DEF PrintImports
  <2> HIDE DEF s, a, b, c, has
  <2>5. b.uses \subseteq has /\ c.uses \subseteq has
    BY ONLY <2>2, <2>3
  <2>6. OptionsValue(f, s) \subseteq has
    BY ONLY <2>2 DEF has
  <2>7. a.uses \subseteq has <=> \A t \in TypesOf(s) : ModuleName(t.file) \in has
    BY ONLY <2>2, <2>3, <2>4, <2>6
  <2> QED BY <1>7, <2>1, <2>5, <2>7 DEF s
<1> HIDE DEF has
<1>9. (\A j \in 1 .. n : \A st \in Elements(Statements(f, f.services[j])) : st.uses \subseteq has)
        <=> TypesImported(f)
  BY ONLY <1>1, <1>8 DEF TypesImported
<1> QED BY ONLY <1>5, <1>6, <1>9 DEF has

-----------------------------------------------------------------------------
(* Overloads of the generated classes                                      *)

\* Short sequences, without a type for their elements.
LEMMA ShortSequences ==
    ASSUME NEW p, NEW q, NEW r, NEW o
    PROVE  /\ Len(<<p>>) = 1 /\ <<p>>[1] = p
           /\ Len(<<p, q>>) = 2 /\ <<p, q>>[1] = p /\ <<p, q>>[2] = q
           /\ Len(<<p, q, r>>) = 3 /\ <<p, q, r>>[1] = p /\ <<p, q, r>>[2] = q /\ <<p, q, r>>[3] = r
           /\ Len(<<p, q, r, o>>) = 4 /\ <<p, q, r, o>>[1] = p /\ <<p, q, r, o>>[2] = q
           /\ <<p, q, r, o>>[3] = r /\ <<p, q, r, o>>[4] = o
           /\ IsSequence(<<p>>) /\ IsSequence(<<p, q>>) /\ IsSequence(<<p, q, r>>)
           /\ IsSequence(<<p, q, r, o>>)
<1> DEFINE T == {p, q, r, o}
<1>1. <<p>> \in Seq(T) /\ <<p, q>> \in Seq(T) /\ <<p, q, r>> \in Seq(T) /\ <<p, q, r, o>> \in Seq(T)
  OBVIOUS
<1>2. IsSequence(<<p>>) /\ IsSequence(<<p, q>>) /\ IsSequence(<<p, q, r>>) /\ IsSequence(<<p, q, r, o>>)
  BY ONLY <1>1, AnySequence
<1> QED BY <1>2

\* The overloads of a stub for method m: those with a timeout, then the others.
Kind(m, a) == IF a <= 4 THEN StubDeclarations(m)[a] ELSE StubInline(m)[a - 4]

\* What tells an overload from another one.
KindName(m, a) == IF a \in {1, 2, 5, 6} THEN Async(m.name) ELSE m.name
KindLength(a) == IF a \in {1, 3} THEN 3 ELSE IF a \in {6, 8} THEN 1 ELSE 2
KindSecond(a) == IF a \in {1, 5} THEN "handler" ELSE IF a = 7 THEN "*" ELSE "long"
HasShape(o, m, a) ==
    /\ o = Overload(KindName(m, a), o.params)
    /\ Len(o.params) = KindLength(a) /\ o.params[1] = In(m)
    /\ KindLength(a) # 1 => o.params[2][1] = KindSecond(a)
    /\ a \in {2, 4} => o.params = <<In(m), Long>>
    /\ a \in {6, 8} => o.params = <<In(m)>>

\* The parameters of an overload.
LEMMA ShapeOf ==
    ASSUME NEW m, NEW n, NEW p, NEW a \in 1 .. 8, n = KindName(m, a),
           Len(p) = KindLength(a), p[1] = In(m),
           KindLength(a) # 1 => p[2][1] = KindSecond(a),
           a \in {2, 4} => p = <<In(m), Long>>,
           a \in {6, 8} => p = <<In(m)>>
    PROVE  HasShape(Overload(n, p), m, a)
<1> DEFINE o == Overload(n, p)
<1>1. o.params = p
  BY DEF Overload
<1>2. o = Overload(KindName(m, a), o.params)
  BY ONLY <1>1, n = KindName(m, a)
<1> HIDE DEF o
<1> QED BY <1>1, <1>2 DEF HasShape, o

\* Every overload has its shape.
LEMMA KindShape ==
    ASSUME NEW m, NEW a \in 1 .. 8
    PROVE  HasShape(Kind(m, a), m, a)
<1> DEFINE i == In(m)
           h == Handler(m)
           o == Out(m)
           an == Async(m.name)
           n == m.name
           d == StubDeclarations(m)
           e == StubInline(m)
<1>1. /\ d[1] = Overload(an, <<i, h, Long>>) /\ d[2] = Overload(an, <<i, Long>>)
      /\ d[3] = Overload(n, <<i, Long, o>>)  /\ d[4] = Overload(n, <<i, Long>>)
  BY ShortSequences DEF StubDeclarations
<1>2. /\ e[1] = Overload(an, <<i, h>>) /\ e[2] = Overload(an, <<i>>)
      /\ e[3] = Overload(n, <<i, o>>)  /\ e[4] = Overload(n, <<i>>)
  BY ShortSequences DEF StubInline
<1>3. h[1] = "handler" /\ o[1] = "*" /\ Long[1] = "long"
  BY DEF Handler, Out, Long
<1> HIDE DEF i, h, o, d, e
<1>4. a \in {1, 2, 3, 4, 5, 6, 7, 8}
  OBVIOUS
<1>5. CASE a = 1
  <2>1. KindName(m, a) = an /\ KindLength(a) = 3 /\ KindSecond(a) = "handler" /\ Kind(m, a) = d[1]
        /\ a \notin {2, 4} /\ a \notin {6, 8}
    BY <1>5 DEF KindName, KindLength, KindSecond, Kind, d
  <2> DEFINE p == <<i, h, Long>>
  <2>2. Len(p) = 3 /\ p[1] = i /\ p[2] = h
    BY ONLY ShortSequences
  <2> HIDE DEF p
  <2> QED BY <1>1, <1>3, <2>1, <2>2, ShapeOf DEF p, i
<1>6. CASE a = 2
  <2>1. KindName(m, a) = an /\ KindLength(a) = 2 /\ KindSecond(a) = "long" /\ Kind(m, a) = d[2]
        /\ a \notin {6, 8}
    BY <1>6 DEF KindName, KindLength, KindSecond, Kind, d
  <2> DEFINE p == <<i, Long>>
  <2>2. Len(p) = 2 /\ p[1] = i /\ p[2] = Long /\ p = <<i, Long>>
    BY ONLY ShortSequences
  <2> HIDE DEF p
  <2> QED BY <1>1, <1>3, <2>1, <2>2, ShapeOf DEF p, i
<1>7. CASE a = 3
  <2>1. KindName(m, a) = n /\ KindLength(a) = 3 /\ KindSecond(a) = "long" /\ Kind(m, a) = d[3]
        /\ a \notin {2, 4} /\ a \notin {6, 8}
    BY <1>7 DEF KindName, KindLength, KindSecond, Kind, d
  <2> DEFINE p == <<i, Long, o>>
  <2>2. Len(p) = 3 /\ p[1] = i /\ p[2] = Long
    BY ONLY ShortSequences
  <2> HIDE DEF p
  <2> QED BY <1>1, <1>3, <2>1, <2>2, ShapeOf DEF p, i
<1>8. CASE a = 4
  <2>1. KindName(m, a) = n /\ KindLength(a) = 2 /\ KindSecond(a) = "long" /\ Kind(m, a) = d[4]
        /\ a \notin {6, 8}
    BY <1>8 DEF KindName, KindLength, KindSecond, Kind, d
  <2> DEFINE p == <<i, Long>>
  <2>2. Len(p) = 2 /\ p[1] = i /\ p[2] = Long /\ p = <<i, Long>>
    BY ONLY ShortSequences
  <2> HIDE DEF p
  <2> QED BY <1>1, <1>3, <2>1, <2>2, ShapeOf DEF p, i
<1>9. CASE a = 5
  <2>1. KindName(m, a) = an /\ KindLength(a) = 2 /\ KindSecond(a) = "handler" /\ Kind(m, a) = e[1]
        /\ a \notin {2, 4} /\ a \notin {6, 8}
    BY <1>9 DEF KindName, KindLength, KindSecond, Kind, e
  <2> DEFINE p == <<i, h>>
  <2>2. Len(p) = 2 /\ p[1] = i /\ p[2] = h
    BY ONLY ShortSequences
  <2> HIDE DEF p
  <2> QED BY <1>2, <1>3, <2>1, <2>2, ShapeOf DEF p, i
<1>10. CASE a = 6
  <2>1. KindName(m, a) = an /\ KindLength(a) = 1 /\ Kind(m, a) = e[2] /\ a \notin {2, 4}
    BY <1>10 DEF KindName, KindLength, KindSecond, Kind, e
  <2> DEFINE p == <<i>>
  <2>2. Len(p) = 1 /\ p[1] = i /\ p = <<i>>
    BY ONLY ShortSequences
  <2> HIDE DEF p
  <2> QED BY <1>2, <1>3, <2>1, <2>2, ShapeOf DEF p, i
<1>11. CASE a = 7
  <2>1. KindName(m, a) = n /\ KindLength(a) = 2 /\ KindSecond(a) = "*" /\ Kind(m, a) = e[3]
        /\ a \notin {2, 4} /\ a \notin {6, 8}
    BY <1>11 DEF KindName, KindLength, KindSecond, Kind, e
  <2> DEFINE p == <<i, o>>
  <2>2. Len(p) = 2 /\ p[1] = i /\ p[2] = o
    BY ONLY ShortSequences
  <2> HIDE DEF p
  <2> QED BY <1>2, <1>3, <2>1, <2>2, ShapeOf DEF p, i
<1>12. CASE a = 8
  <2>1. KindName(m, a) = n /\ KindLength(a) = 1 /\ Kind(m, a) = e[4] /\ a \notin {2, 4}
    BY <1>12 DEF KindName, KindLength, KindSecond, Kind, e
  <2> DEFINE p == <<i>>
  <2>2. Len(p) = 1 /\ p[1] = i /\ p = <<i>>
    BY ONLY ShortSequences
  <2> HIDE DEF p
  <2> QED BY <1>2, <1>3, <2>1, <2>2, ShapeOf DEF p, i
<1> QED BY <1>4, <1>5, <1>6, <1>7, <1>8, <1>9, <1>10, <1>11, <1>12

\* Two names with the same asynchronous variant are the same.
LEMMA AsyncInjective ==
    ASSUME NEW P, NEW x \in Seq(P), NEW y \in Seq(P), Async(x) = Async(y)
    PROVE  x = y
<1> DEFINE w == <<"async_">>
<1>1. IsSequence(x) /\ IsSequence(y) /\ IsSequence(w) /\ Len(w) = 1
  BY AnySequence, ShortSequences
<1>2. w \o x = w \o y
  BY DEF Async
<1> HIDE DEF w
<1>3. /\ Len(w \o x) = Len(w) + Len(x)
      /\ \A i \in 1 .. Len(x) : (w \o x)[Len(w) + i] = x[i]
  <2>1. IsJoined(w \o x, w, x)
    BY ONLY <1>1, JoinedElements
  <2> QED BY ONLY <2>1 DEF IsJoined
<1>4. /\ Len(w \o y) = Len(w) + Len(y)
      /\ \A i \in 1 .. Len(y) : (w \o y)[Len(w) + i] = y[i]
  <2>1. IsJoined(w \o y, w, y)
    BY ONLY <1>1, JoinedElements
  <2> QED BY ONLY <2>1 DEF IsJoined
<1> DEFINE u == w \o x
<1>5. Len(x) \in Nat /\ Len(y) \in Nat
  OBVIOUS
<1>6. Len(x) = Len(y)
  BY ONLY <1>1, <1>2, <1>3, <1>4, <1>5
<1>7. \A i \in 1 .. Len(x) : x[i] = y[i]
  BY ONLY <1>2, <1>3, <1>4, <1>6
<1> QED BY ONLY <1>6, <1>7, SeqEqual, x \in Seq(P), y \in Seq(P)

\* Two overloads are the same only if they are the same one of methods with the
\* same name, or one is an asynchronous variant and the other is named like it.
LEMMA SameKind ==
    ASSUME NEW P, NEW m, NEW n, m.name \in Seq(P), n.name \in Seq(P),
           NEW a \in 1 .. 8, NEW b \in 1 .. 8, Kind(m, a) = Kind(n, b)
    PROVE  \/ a = b /\ m.name = n.name
           \/ m.in = n.in /\ (m.name = Async(n.name) \/ n.name = Async(m.name))
<1> DEFINE o == Kind(m, a)
<1>1. HasShape(o, m, a)
  BY ONLY KindShape, a \in 1 .. 8
<1>2. HasShape(o, n, b)
  BY ONLY KindShape, b \in 1 .. 8, Kind(m, a) = Kind(n, b)
<1> HIDE DEF o
<1>3. KindName(m, a) = KindName(n, b)
  <2>1. o = Overload(KindName(m, a), o.params) /\ o = Overload(KindName(n, b), o.params)
    BY ONLY <1>1, <1>2 DEF HasShape
  <2>2. \A x, y : Overload(x, y).name = x
    BY DEF Overload
  <2> QED BY ONLY <2>1, <2>2
<1>4. m.in = n.in
  <2>1. In(m) = In(n)
    BY ONLY <1>1, <1>2 DEF HasShape
  <2>2. In(m)[2] = m.in /\ In(n)[2] = n.in
    BY DEF In
  <2> QED BY ONLY <2>1, <2>2
<1>5. KindLength(a) = KindLength(b)
  BY ONLY <1>1, <1>2 DEF HasShape
<1>6. KindLength(a) # 1 => KindSecond(a) = KindSecond(b)
  BY ONLY <1>1, <1>2, <1>5 DEF HasShape
<1>7. a \in {1, 2, 3, 4, 5, 6, 7, 8} /\ b \in {1, 2, 3, 4, 5, 6, 7, 8}
  OBVIOUS
<1>8. a = b \/ (a \in {2, 4} /\ b \in {2, 4}) \/ (a \in {6, 8} /\ b \in {6, 8})
  BY ONLY <1>5, <1>6, <1>7 DEF KindLength, KindSecond
<1>9. CASE a = b
  <2>1. CASE a \in {1, 2, 5, 6}
    <3>1. Async(m.name) = Async(n.name)
      BY <1>3, <1>9, <2>1 DEF KindName
    <3> QED BY <1>9, <3>1, AsyncInjective
  <2>2. CASE a \notin {1, 2, 5, 6}
    BY <1>3, <1>9, <2>2 DEF KindName
  <2> QED BY <2>1, <2>2
<1>10. CASE a # b
  <2>1. a \in {1, 2, 5, 6} <=> b \notin {1, 2, 5, 6}
    BY <1>8, <1>10
  <2>2. m.name = Async(n.name) \/ n.name = Async(m.name)
    BY ONLY <1>3, <2>1 DEF KindName
  <2> QED BY <1>4, <2>2
<1> QED BY <1>9, <1>10

\* With a clash there are two overloads that are the same.
LEMMA ClashingKinds ==
    ASSUME NEW m, NEW n, m.in = n.in, m.name = Async(n.name)
    PROVE  Kind(m, 4) = Kind(n, 2)
<1>1. Kind(m, 4) = Overload(m.name, <<In(m), Long>>)
  BY ShortSequences DEF Kind, StubDeclarations
<1>2. Kind(n, 2) = Overload(Async(n.name), <<In(n), Long>>)
  BY ShortSequences DEF Kind, StubDeclarations
<1>3. In(m) = In(n)
  BY DEF In
<1> QED BY ONLY <1>1, <1>2, <1>3, m.name = Async(n.name)

\* A stub has four declarations out of line for each method, and as many inline.
LEMMA BlocksOfFour ==
    ASSUME NEW seqs, NEW n \in Nat, NEW off, Offsets(off, seqs, n),
           \A j \in 1 .. n : Len(seqs[j]) = 4
    PROVE  \A j \in 1 .. n : off[j] = 4 * j - 4
<1> DEFINE bad == {j \in Nat : j \in 1 .. n /\ off[j] # 4 * j - 4}
<1> SUFFICES ASSUME bad # {} PROVE FALSE
  OBVIOUS
<1>1. PICK j \in bad : \A y \in bad : j <= y
  BY LeastNatural
<1>2. j \in Nat /\ j \in 1 .. n /\ off[j] # 4 * j - 4
  BY <1>1
<1> HIDE DEF bad
<1>3. j # 1
  BY <1>2 DEF Offsets
<1> DEFINE m == j - 1
<1>4. m \in Nat /\ m \in 1 .. n /\ m + 1 = j /\ ~(j <= m)
  BY <1>2, <1>3
<1>5. m \notin bad
  BY <1>1, <1>4
<1>6. off[m] = 4 * m - 4
  BY <1>4, <1>5 DEF bad
<1> HIDE DEF m
<1>7. off[m + 1] = off[m] + 4
  BY <1>4 DEF Offsets
<1> QED BY <1>2, <1>4, <1>6, <1>7

\* The places of the overloads in a list with four for each method.
FourEach(flat, seqs, n) ==
    /\ IsSequence(flat) /\ Len(flat) = 4 * n
    /\ \A i \in 1 .. n : \A a \in 1 .. 4 :
          4 * i - 4 + a \in 1 .. Len(flat) /\ flat[4 * i - 4 + a] = seqs[i][a]
    /\ \A k \in 1 .. Len(flat) : \E i \in 1 .. n : \E a \in 1 .. 4 : k = 4 * i - 4 + a

\* Where the elements of sequences of length four are.
LEMMA FourPlaced ==
    ASSUME NEW T, NEW seqs \in Seq(T),
           \A j \in 1 .. Len(seqs) : IsSequence(seqs[j]) /\ Len(seqs[j]) = 4
    PROVE  FourEach(FlattenSeq(seqs), seqs, Len(seqs))
<1> DEFINE n == Len(seqs)
           flat == FlattenSeq(seqs)
<1>1. n \in Nat
  OBVIOUS
<1>2. \A j \in 1 .. Len(seqs) : IsSequence(seqs[j])
  OBVIOUS
<1>3. IsSequence(flat) /\ \E S, off : Offsets(off, seqs, n) /\ Placed(flat, S, off, seqs, n)
  BY ONLY <1>2, seqs \in Seq(T), FlattenedElements
<1>4. PICK S, off : Offsets(off, seqs, n) /\ Placed(flat, S, off, seqs, n)
  BY <1>3
<1>5. \A j \in 1 .. n : Len(seqs[j]) = 4
  OBVIOUS
<1> HIDE DEF n, flat
<1>6. \A j \in 1 .. n : off[j] = 4 * j - 4
  BY ONLY <1>1, <1>4, <1>5, BlocksOfFour
<1>7. /\ Len(flat) = off[n + 1]
      /\ \A j \in 1 .. n : \A t \in 1 .. 4 :
            off[j] + t \in 1 .. Len(flat) /\ flat[off[j] + t] = seqs[j][t]
      /\ \A k \in 1 .. Len(flat) : \E j \in 1 .. n : \E t \in 1 .. 4 : k = off[j] + t
  BY ONLY <1>4, <1>5, ZenonT(60) DEF Placed
<1>8. Len(flat) = 4 * n
  <2>1. CASE n = 0
    BY <1>4, <1>7, <2>1 DEF Offsets
  <2>2. CASE n # 0
    <3>1. n \in 1 .. n
      BY <1>1, <2>2
    <3>2. off[n + 1] = off[n] + 4
      BY <1>4, <1>5, <3>1 DEF Offsets
    <3> QED BY <1>1, <1>6, <1>7, <3>1, <3>2
  <2> QED BY <2>1, <2>2
<1>9. \A j \in 1 .. n : \A t \in 1 .. 4 :
         4 * j - 4 + t \in 1 .. Len(flat) /\ flat[4 * j - 4 + t] = seqs[j][t]
  BY ONLY <1>6, <1>7, ZenonT(60)
<1>10. \A k \in 1 .. Len(flat) : \E j \in 1 .. n : \E t \in 1 .. 4 : k = 4 * j - 4 + t
  <2> SUFFICES ASSUME NEW k \in 1 .. Len(flat)
               PROVE  \E j \in 1 .. n : \E t \in 1 .. 4 : k = 4 * j - 4 + t
    OBVIOUS
  <2>1. PICK j \in 1 .. n : \E t \in 1 .. 4 : k = off[j] + t
    BY <1>7
  <2>2. PICK t \in 1 .. 4 : k = off[j] + t
    BY <2>1
  <2>3. k = 4 * j - 4 + t
    BY <1>6, <2>2
  <2> QED BY <2>3
<1> QED BY ONLY <1>3, <1>8, <1>9, <1>10 DEF FourEach, flat, n

\* The places of the overloads d out of line and e inline.
OverloadPlaces(d, e, ms) ==
    LET n == Len(ms) IN
    /\ n \in Nat
    /\ IsSequence(d) /\ IsSequence(e) /\ Len(d) = 4 * n /\ Len(e) = 4 * n
    /\ \A i \in 1 .. n : \A a \in 1 .. 4 :
          /\ 4 * i - 4 + a \in 1 .. Len(d)
          /\ d[4 * i - 4 + a] = Kind(ms[i], a)
          /\ e[4 * i - 4 + a] = Kind(ms[i], a + 4)
    /\ \A k \in 1 .. 4 * n : \E i \in 1 .. n : \E a \in 1 .. 4 : k = 4 * i - 4 + a

\* The overloads of method i of a stub are four in each list, in order.
LEMMA StubOverloads ==
    ASSUME NEW M, NEW s, s.methods \in Seq(M)
    PROVE  OverloadPlaces(AllOf(s, StubDeclarations), AllOf(s, StubInline), s.methods)
<1> DEFINE n == Len(s.methods)
           d == AllOf(s, StubDeclarations)
           e == AllOf(s, StubInline)
           p == [i \in 1 .. n |-> StubDeclarations(s.methods[i])]
           q == [i \in 1 .. n |-> StubInline(s.methods[i])]
           T == {StubDeclarations(s.methods[i]) : i \in 1 .. n}
           U == {StubInline(s.methods[i]) : i \in 1 .. n}
<1>1. n \in Nat /\ DOMAIN s.methods = 1 .. n
  OBVIOUS
<1>2. d = FlattenSeq(p) /\ e = FlattenSeq(q)
  BY <1>1 DEF AllOf
<1>3. p \in Seq(T) /\ Len(p) = n /\ \A i \in 1 .. n : p[i] = StubDeclarations(s.methods[i])
  <2>1. \A i \in 1 .. n : StubDeclarations(s.methods[i]) \in T
    OBVIOUS
  <2> HIDE DEF T
  <2> QED BY <1>1, <2>1
<1>4. q \in Seq(U) /\ Len(q) = n /\ \A i \in 1 .. n : q[i] = StubInline(s.methods[i])
  <2>1. \A i \in 1 .. n : StubInline(s.methods[i]) \in U
    OBVIOUS
  <2> HIDE DEF U
  <2> QED BY <1>1, <2>1
<1>5. ASSUME NEW m PROVE IsSequence(StubDeclarations(m)) /\ Len(StubDeclarations(m)) = 4
  BY ShortSequences DEF StubDeclarations
<1>6. ASSUME NEW m PROVE IsSequence(StubInline(m)) /\ Len(StubInline(m)) = 4
  BY ShortSequences DEF StubInline
<1> HIDE DEF d, e, p, q, T, U, n
<1>7. FourEach(FlattenSeq(p), p, Len(p))
  <2>1. \A j \in 1 .. Len(p) : IsSequence(p[j]) /\ Len(p[j]) = 4
    BY ONLY <1>3, <1>5
  <2> QED BY ONLY <1>3, <2>1, FourPlaced
<1>8. FourEach(FlattenSeq(q), q, Len(q))
  <2>1. \A j \in 1 .. Len(q) : IsSequence(q[j]) /\ Len(q[j]) = 4
    BY ONLY <1>4, <1>6
  <2> QED BY ONLY <1>4, <2>1, FourPlaced
<1>9. /\ IsSequence(d) /\ Len(d) = 4 * n
      /\ \A i \in 1 .. n : \A a \in 1 .. 4 :
            4 * i - 4 + a \in 1 .. Len(d) /\ d[4 * i - 4 + a] = p[i][a]
      /\ \A k \in 1 .. Len(d) : \E i \in 1 .. n : \E a \in 1 .. 4 : k = 4 * i - 4 + a
  BY ONLY <1>2, <1>3, <1>7 DEF FourEach
<1>10. /\ IsSequence(e) /\ Len(e) = 4 * n
       /\ \A i \in 1 .. n : \A a \in 1 .. 4 : e[4 * i - 4 + a] = q[i][a]
  BY ONLY <1>2, <1>4, <1>8 DEF FourEach
<1>11. ASSUME NEW m, NEW a \in 1 .. 4
       PROVE  StubDeclarations(m)[a] = Kind(m, a) /\ StubInline(m)[a] = Kind(m, a + 4)
  <2>1. a <= 4 /\ ~(a + 4 <= 4) /\ a + 4 - 4 = a
    OBVIOUS
  <2> QED BY ONLY <2>1 DEF Kind
<1>12. ASSUME NEW i \in 1 .. n, NEW a \in 1 .. 4
       PROVE  /\ 4 * i - 4 + a \in 1 .. Len(d)
              /\ d[4 * i - 4 + a] = Kind(s.methods[i], a)
              /\ e[4 * i - 4 + a] = Kind(s.methods[i], a + 4)
  <2>1. p[i] = StubDeclarations(s.methods[i]) /\ q[i] = StubInline(s.methods[i])
    BY ONLY <1>3, <1>4, i \in 1 .. n
  <2>2. /\ StubDeclarations(s.methods[i])[a] = Kind(s.methods[i], a)
        /\ StubInline(s.methods[i])[a] = Kind(s.methods[i], a + 4)
    BY <1>11
  <2> DEFINE k == 4 * i - 4 + a
  <2>3. k \in 1 .. Len(d) /\ d[k] = p[i][a] /\ e[k] = q[i][a]
    BY ONLY <1>9, <1>10, i \in 1 .. n, a \in 1 .. 4
  <2> HIDE DEF k
  <2>4. k \in 1 .. Len(d) /\ d[k] = Kind(s.methods[i], a) /\ e[k] = Kind(s.methods[i], a + 4)
    BY ONLY <2>1, <2>2, <2>3
  <2> QED BY ONLY <2>4 DEF k
<1> QED BY ONLY <1>1, <1>9, <1>10, <1>12 DEF OverloadPlaces, n, d, e

\* Methods as protoc accepts them: their names differ.
AreMethods(s, M, P) ==
    s.methods \in Seq(M) /\ DifferentMethods(s.methods) /\ \A m \in M : m.name \in Seq(P)

\* Two overloads at different places are the same only with an AsyncClash.
LEMMA SameOverload ==
    ASSUME NEW M, NEW P, NEW s, AreMethods(s, M, P), ~AsyncClash(s),
           NEW i \in 1 .. Len(s.methods), NEW j \in 1 .. Len(s.methods),
           NEW a \in 1 .. 8, NEW b \in 1 .. 8, Kind(s.methods[i], a) = Kind(s.methods[j], b)
    PROVE  a = b /\ i = j
<1> DEFINE ms == s.methods
           m == ms[i]
           n == ms[j]
<1>1. ms \in Seq(M) /\ DifferentMethods(ms) /\ \A x \in M : x.name \in Seq(P)
  BY DEF AreMethods
<1>2. i \in 1 .. Len(ms) /\ j \in 1 .. Len(ms) /\ DOMAIN ms = 1 .. Len(ms)
  BY <1>1
<1>3. ~ \E x, y \in DOMAIN ms : ms[x].name = Async(ms[y].name) /\ ms[x].in = ms[y].in
  BY DEF AsyncClash
<1>4. Kind(m, a) = Kind(n, b)
  OBVIOUS
<1> HIDE DEF ms
<1>5. m \in M /\ n \in M
  BY ONLY <1>1, <1>2, ElementOfSeq
<1>6. m.name \in Seq(P) /\ n.name \in Seq(P)
  BY ONLY <1>1, <1>5
<1>7. ~(m.in = n.in /\ (m.name = Async(n.name) \/ n.name = Async(m.name)))
  BY ONLY <1>2, <1>3
<1>8. i # j => m.name # n.name
  BY ONLY <1>1, <1>2 DEF DifferentMethods
<1> HIDE DEF m, n
<1>9. \/ a = b /\ m.name = n.name
      \/ m.in = n.in /\ (m.name = Async(n.name) \/ n.name = Async(m.name))
  BY ONLY <1>4, <1>6, SameKind, a \in 1 .. 8, b \in 1 .. 8, ZenonT(60)
<1> QED BY ONLY <1>7, <1>8, <1>9

\* The overloads of a stub are all different, unless a method is named like the
\* asynchronous variant of another one with the same request type.
THEOREM OverloadsDiffer ==
    ASSUME NEW M, NEW P, NEW s, AreMethods(s, M, P)
    PROVE  IsInjective(AllOf(s, StubDeclarations) \o AllOf(s, StubInline)) <=> ~AsyncClash(s)
<1> DEFINE ms == s.methods
           n == Len(ms)
           d == AllOf(s, StubDeclarations)
           e == AllOf(s, StubInline)
           all == d \o e
           place(i, a) == IF a <= 4 THEN 4 * i - 4 + a ELSE 4 * n + (4 * i - 4 + (a - 4))
<1>1. ms \in Seq(M) /\ DOMAIN ms = 1 .. n
  BY DEF AreMethods
<1>2. /\ n \in Nat
      /\ IsSequence(d) /\ IsSequence(e) /\ Len(d) = 4 * n /\ Len(e) = 4 * n
      /\ \A i \in 1 .. n : \A a \in 1 .. 4 :
            /\ 4 * i - 4 + a \in 1 .. Len(d)
            /\ d[4 * i - 4 + a] = Kind(ms[i], a)
            /\ e[4 * i - 4 + a] = Kind(ms[i], a + 4)
      /\ \A k \in 1 .. 4 * n : \E i \in 1 .. n : \E a \in 1 .. 4 : k = 4 * i - 4 + a
  <2>1. OverloadPlaces(d, e, ms)
    BY ONLY <1>1, StubOverloads
  <2> HIDE DEF d, e, ms
  <2> QED BY ONLY <2>1 DEF OverloadPlaces, n
<1> HIDE DEF d, e, n
<1>3. /\ \A i \in 1 .. Len(d) : all[i] = d[i]
      /\ \A i \in 1 .. Len(e) : all[Len(d) + i] = e[i]
      /\ DOMAIN all = 1 .. Len(d) + Len(e)
  <2>1. IsJoined(all, d, e)
    BY ONLY <1>2, JoinedElements
  <2> HIDE DEF all
  <2> QED BY ONLY <2>1 DEF IsJoined
<1> HIDE DEF all, ms
<1>4. ASSUME NEW i \in 1 .. n, NEW a \in 1 .. 8
      PROVE  place(i, a) \in DOMAIN all /\ all[place(i, a)] = Kind(ms[i], a)
  <2>1. CASE a <= 4
    <3> DEFINE k == 4 * i - 4 + a
    <3>1. a \in 1 .. 4 /\ place(i, a) = k
      BY <2>1
    <3>2. k \in 1 .. Len(d) /\ d[k] = Kind(ms[i], a)
      BY <1>2, <3>1
    <3> HIDE DEF k, place
    <3>3. k \in 1 .. Len(d) + Len(e)
      BY <1>2, <3>2
    <3> QED BY <1>3, <3>1, <3>2, <3>3
  <2>2. CASE ~(a <= 4)
    <3> DEFINE b == a - 4
               k == 4 * i - 4 + b
    <3>1. b \in 1 .. 4 /\ b + 4 = a /\ place(i, a) = 4 * n + k
      BY <2>2
    <3> HIDE DEF b
    <3>2. k \in 1 .. Len(d) /\ e[k] = Kind(ms[i], a)
      BY <1>2, <3>1
    <3> HIDE DEF k, place
    <3>3. k \in 1 .. Len(e) /\ 4 * n + k = Len(d) + k /\ Len(d) + k \in 1 .. Len(d) + Len(e)
      BY <1>2, <3>2
    <3> QED BY <1>3, <3>1, <3>2, <3>3
  <2> QED BY <2>1, <2>2
<1>5. ASSUME NEW k \in DOMAIN all PROVE \E i \in 1 .. n : \E a \in 1 .. 8 : k = place(i, a)
  <2>0. k \in 1 .. 8 * n
    BY <1>2, <1>3
  <2>1. CASE k <= 4 * n
    <3>1. PICK i \in 1 .. n : \E a \in 1 .. 4 : k = 4 * i - 4 + a
      <4>1. k \in 1 .. 4 * n
        BY <1>2, <2>0, <2>1
      <4> QED BY <1>2, <4>1
    <3>2. PICK a \in 1 .. 4 : k = 4 * i - 4 + a
      BY <3>1
    <3>3. a \in 1 .. 8 /\ k = place(i, a)
      BY <3>2
    <3> QED BY <3>3
  <2>2. CASE ~(k <= 4 * n)
    <3> DEFINE l == k - 4 * n
    <3>1. l \in 1 .. 4 * n /\ k = 4 * n + l
      BY <1>2, <2>0, <2>2
    <3> HIDE DEF l
    <3>2. PICK i \in 1 .. n : \E a \in 1 .. 4 : l = 4 * i - 4 + a
      BY <1>2, <3>1
    <3>3. PICK b \in 1 .. 4 : l = 4 * i - 4 + b
      BY <3>2
    <3> DEFINE a == b + 4
    <3>4. a \in 1 .. 8 /\ ~(a <= 4) /\ a - 4 = b
      OBVIOUS
    <3> HIDE DEF a
    <3>5. k = place(i, a)
      BY <3>1, <3>3, <3>4
    <3> HIDE DEF place
    <3> QED BY <3>4, <3>5
  <2> QED BY <2>1, <2>2
<1>6. ASSUME ~AsyncClash(s), NEW k \in DOMAIN all, NEW l \in DOMAIN all, all[k] = all[l]
      PROVE  k = l
  <2>1. PICK i \in 1 .. n : \E a \in 1 .. 8 : k = place(i, a)
    BY <1>5
  <2>2. PICK a \in 1 .. 8 : k = place(i, a)
    BY <2>1
  <2>3. PICK j \in 1 .. n : \E b \in 1 .. 8 : l = place(j, b)
    BY <1>5
  <2>4. PICK b \in 1 .. 8 : l = place(j, b)
    BY <2>3
  <2> HIDE DEF place
  <2>5. Kind(ms[i], a) = Kind(ms[j], b)
    BY <1>4, <1>6, <2>2, <2>4
  <2>6. a = b /\ i = j
    BY ONLY <1>6, <2>5, SameOverload, AreMethods(s, M, P), i \in 1 .. n, j \in 1 .. n,
            a \in 1 .. 8, b \in 1 .. 8 DEF ms, n
  <2> QED BY <2>2, <2>4, <2>6
<1>7. ASSUME AsyncClash(s) PROVE ~IsInjective(all)
  <2>1. PICK i, j \in DOMAIN ms : ms[i].name = Async(ms[j].name) /\ ms[i].in = ms[j].in
    BY <1>7 DEF AsyncClash, ms
  <2>2. Kind(ms[i], 4) = Kind(ms[j], 2)
    BY ONLY <2>1, ClashingKinds
  <2>3. i \in 1 .. n /\ j \in 1 .. n /\ 4 \in 1 .. 8 /\ 2 \in 1 .. 8
    BY <1>1
  <2>4. place(i, 4) # place(j, 2)
    BY <2>3
  <2> HIDE DEF place
  <2>5. all[place(i, 4)] = all[place(j, 2)] /\ place(i, 4) \in DOMAIN all /\ place(j, 2) \in DOMAIN all
    BY ONLY <1>4, <2>2, <2>3
  <2> QED BY ONLY <2>4, <2>5 DEF IsInjective
<1> HIDE DEF place
<1> QED BY <1>6, <1>7 DEF IsInjective, all, d, e

-----------------------------------------------------------------------------
(* The C++ files: their declarations and definitions                       *)

\* A function of the elements of a sequence is a sequence.
LEMMA Mapped ==
    ASSUME NEW q, IsSequence(q), NEW r, r = [i \in DOMAIN q |-> r[i]]
    PROVE  /\ IsSequence(r) /\ Len(r) = Len(q) /\ Len(q) \in Nat
           /\ DOMAIN r = 1 .. Len(q) /\ DOMAIN q = 1 .. Len(q)
           /\ Elements(r) = {r[i] : i \in 1 .. Len(q)}
<1> DEFINE n == Len(q)
<1>1. n \in Nat /\ DOMAIN q = 1 .. n
  BY ONLY IsSequence(q), AnySequence DEF IsSequence
<1>2. DOMAIN r = 1 .. n /\ r = [i \in 1 .. n |-> r[i]]
  BY <1>1
<1> HIDE DEF n
<1>3. IsSequence(r) /\ Len(r) = n /\ Elements(r) = {r[i] : i \in 1 .. n}
  BY ONLY <1>1, <1>2, FunctionIsSequence
<1> QED BY ONLY <1>1, <1>2, <1>3 DEF n

\* The members of a class, by name, and its overloads.
DeclaredMembers(c, q) == [i \in DOMAIN q |-> Decl(Member(c, q[i]))]
DeclaredMethods(c, q) == [i \in DOMAIN q |-> Decl(Method(c, q[i]))]
DefinedMembers(c, q)  == [i \in DOMAIN q |-> Defined(Member(c, q[i]))]
DefinedMethods(c, q)  == [i \in DOMAIN q |-> Defined(Method(c, q[i]))]

\* They are one for each element of q.
LEMMA MembersMapped ==
    ASSUME NEW c, NEW q, IsSequence(q)
    PROVE  /\ IsSequence(DeclaredMembers(c, q)) /\ IsSequence(DeclaredMethods(c, q))
           /\ IsSequence(DefinedMembers(c, q)) /\ IsSequence(DefinedMethods(c, q))
           /\ Elements(DeclaredMembers(c, q)) = {Decl(Member(c, x)) : x \in Elements(q)}
           /\ Elements(DeclaredMethods(c, q)) = {Decl(Method(c, x)) : x \in Elements(q)}
           /\ Elements(DefinedMembers(c, q)) = {Defined(Member(c, x)) : x \in Elements(q)}
           /\ Elements(DefinedMethods(c, q)) = {Defined(Method(c, x)) : x \in Elements(q)}
           /\ DOMAIN q = 1 .. Len(q)
           /\ DOMAIN DefinedMethods(c, q) = 1 .. Len(q) /\ DOMAIN DefinedMembers(c, q) = 1 .. Len(q)
<1> DEFINE a == DeclaredMembers(c, q)
           b == DeclaredMethods(c, q)
           d == DefinedMembers(c, q)
           e == DefinedMethods(c, q)
           n == Len(q)
<1>0. DOMAIN q = 1 .. n
  BY ONLY IsSequence(q), AnySequence DEF IsSequence
<1>1. a = [i \in DOMAIN q |-> a[i]] /\ \A i \in 1 .. n : a[i] = Decl(Member(c, q[i]))
  BY <1>0 DEF DeclaredMembers
<1>2. b = [i \in DOMAIN q |-> b[i]] /\ \A i \in 1 .. n : b[i] = Decl(Method(c, q[i]))
  BY <1>0 DEF DeclaredMethods
<1>3. d = [i \in DOMAIN q |-> d[i]] /\ \A i \in 1 .. n : d[i] = Defined(Member(c, q[i]))
  BY <1>0 DEF DefinedMembers
<1>4. e = [i \in DOMAIN q |-> e[i]] /\ \A i \in 1 .. n : e[i] = Defined(Method(c, q[i]))
  BY <1>0 DEF DefinedMethods
<1> HIDE DEF a, b, d, e
<1>5. IsSequence(a) /\ Elements(a) = {a[i] : i \in 1 .. n}
  BY ONLY <1>1, Mapped, IsSequence(q)
<1>6. IsSequence(b) /\ Elements(b) = {b[i] : i \in 1 .. n}
  BY ONLY <1>2, Mapped, IsSequence(q)
<1>7. IsSequence(d) /\ Elements(d) = {d[i] : i \in 1 .. n} /\ DOMAIN d = 1 .. n
  BY ONLY <1>3, Mapped, IsSequence(q)
<1>8. IsSequence(e) /\ Elements(e) = {e[i] : i \in 1 .. n} /\ DOMAIN e = 1 .. n
  BY ONLY <1>4, Mapped, IsSequence(q)
<1>9. Elements(a) = {Decl(Member(c, x)) : x \in Elements(q)}
  <2>1. \A y : y \in Elements(a) <=> \E i \in 1 .. n : y = Decl(Member(c, q[i]))
    BY ONLY <1>1, <1>5
  <2>2. \A y : y \in {Decl(Member(c, x)) : x \in Elements(q)} <=> \E i \in 1 .. n : y = Decl(Member(c, q[i]))
    BY ONLY DEF Elements
  <2> QED BY ONLY <2>1, <2>2
<1>10. Elements(b) = {Decl(Method(c, x)) : x \in Elements(q)}
  <2>1. \A y : y \in Elements(b) <=> \E i \in 1 .. n : y = Decl(Method(c, q[i]))
    BY ONLY <1>2, <1>6
  <2>2. \A y : y \in {Decl(Method(c, x)) : x \in Elements(q)} <=> \E i \in 1 .. n : y = Decl(Method(c, q[i]))
    BY ONLY DEF Elements
  <2> QED BY ONLY <2>1, <2>2
<1>11. Elements(d) = {Defined(Member(c, x)) : x \in Elements(q)}
  <2>1. \A y : y \in Elements(d) <=> \E i \in 1 .. n : y = Defined(Member(c, q[i]))
    BY ONLY <1>3, <1>7
  <2>2. \A y : y \in {Defined(Member(c, x)) : x \in Elements(q)} <=> \E i \in 1 .. n : y = Defined(Member(c, q[i]))
    BY ONLY DEF Elements
  <2> QED BY ONLY <2>1, <2>2
<1>12. Elements(e) = {Defined(Method(c, x)) : x \in Elements(q)}
  <2>1. \A y : y \in Elements(e) <=> \E i \in 1 .. n : y = Defined(Method(c, q[i]))
    BY ONLY <1>4, <1>8
  <2>2. \A y : y \in {Defined(Method(c, x)) : x \in Elements(q)} <=> \E i \in 1 .. n : y = Defined(Method(c, q[i]))
    BY ONLY DEF Elements
  <2> QED BY ONLY <2>1, <2>2
<1> QED BY ONLY <1>0, <1>5, <1>6, <1>7, <1>8, <1>9, <1>10, <1>11, <1>12 DEF a, b, d, e, n

\* The elements of a sequence of length 1.
LEMMA SingleElements ==
    ASSUME NEW p
    PROVE  IsSequence(<<p>>) /\ Elements(<<p>>) = {p}
<1> DEFINE a == <<p>>
<1>1. IsSequence(a) /\ Len(a) = 1 /\ a[1] = p
  BY ONLY ShortSequences
<1> HIDE DEF a
<1>2. 1 .. 1 = {1}
  OBVIOUS
<1>3. Elements(a) = {a[k] : k \in {1}}
  BY ONLY <1>1, <1>2 DEF Elements
<1>4. {a[k] : k \in {1}} = {a[1]}
  OBVIOUS
<1> QED BY ONLY <1>1, <1>3, <1>4 DEF a

\* The elements of a sequence of length 2.
LEMMA PairElements ==
    ASSUME NEW p, NEW q
    PROVE  IsSequence(<<p, q>>) /\ Elements(<<p, q>>) = {p, q}
<1> DEFINE a == <<p, q>>
<1>1. IsSequence(a) /\ Len(a) = 2 /\ a[1] = p /\ a[2] = q
  BY ONLY ShortSequences
<1> HIDE DEF a
<1>2. 1 .. 2 = {1, 2}
  OBVIOUS
<1>3. Elements(a) = {a[k] : k \in {1, 2}}
  BY ONLY <1>1, <1>2 DEF Elements
<1>4. {a[k] : k \in {1, 2}} = {a[1], a[2]}
  OBVIOUS
<1> QED BY ONLY <1>1, <1>3, <1>4 DEF a

\* The elements of a sequence of length 3.
LEMMA TripleElements ==
    ASSUME NEW p, NEW q, NEW r
    PROVE  IsSequence(<<p, q, r>>) /\ Elements(<<p, q, r>>) = {p, q, r}
<1> DEFINE a == <<p, q, r>>
<1>1. IsSequence(a) /\ Len(a) = 3 /\ a[1] = p /\ a[2] = q /\ a[3] = r
  BY ONLY ShortSequences
<1> HIDE DEF a
<1>2. 1 .. 3 = {1, 2, 3}
  OBVIOUS
<1>3. Elements(a) = {a[k] : k \in {1, 2, 3}}
  BY ONLY <1>1, <1>2 DEF Elements
<1>4. {a[k] : k \in {1, 2, 3}} = {a[1], a[2], a[3]}
  OBVIOUS
<1> QED BY ONLY <1>1, <1>3, <1>4 DEF a

\* The elements of a sequence of length 4.
LEMMA FourElements ==
    ASSUME NEW p, NEW q, NEW r, NEW o
    PROVE  IsSequence(<<p, q, r, o>>) /\ Elements(<<p, q, r, o>>) = {p, q, r, o}
<1> DEFINE a == <<p, q, r, o>>
<1>1. IsSequence(a) /\ Len(a) = 4 /\ a[1] = p /\ a[2] = q /\ a[3] = r /\ a[4] = o
  BY ONLY ShortSequences
<1> HIDE DEF a
<1>2. 1 .. 4 = {1, 2, 3, 4}
  OBVIOUS
<1>3. Elements(a) = {a[k] : k \in {1, 2, 3, 4}}
  BY ONLY <1>1, <1>2 DEF Elements
<1>4. {a[k] : k \in {1, 2, 3, 4}} = {a[1], a[2], a[3], a[4]}
  OBVIOUS
<1> QED BY ONLY <1>1, <1>3, <1>4 DEF a

\* The methods of the interface, one for each method of the service.
InterfaceOverload(m) == Overload(m.name, <<In(m), <<"replier">> >>)

\* There is one for each method, in order, and what GenerateNotImplementedMethods()
\* defines is the same.
LEMMA InterfaceOverloads ==
    ASSUME NEW M, NEW s, s.methods \in Seq(M)
    PROVE  LET q == AllOf(s, InterfaceMethod) IN
           /\ AllOf(s, NotImplemented) = q
           /\ IsSequence(q) /\ Len(q) = Len(s.methods)
           /\ \A k \in 1 .. Len(q) : q[k] = InterfaceOverload(s.methods[k])
<1> DEFINE ms == s.methods
           n == Len(ms)
           q == AllOf(s, InterfaceMethod)
           b(i) == <<InterfaceOverload(ms[i])>>
           T == {b(i) : i \in 1 .. n}
           seqs == [i \in 1 .. n |-> b(i)]
<1>1. n \in Nat /\ DOMAIN ms = 1 .. n
  OBVIOUS
<1>2. q = FlattenSeq(seqs) /\ AllOf(s, NotImplemented) = FlattenSeq(seqs)
  BY <1>1 DEF AllOf, InterfaceMethod, NotImplemented, InterfaceOverload
<1>3. \A i \in 1 .. n : IsSequence(b(i)) /\ Len(b(i)) = 1 /\ b(i)[1] = InterfaceOverload(ms[i])
  BY ONLY ShortSequences
<1>4. \A i \in 1 .. n : b(i) \in T
  OBVIOUS
<1> HIDE DEF b, T
<1>5. seqs \in Seq(T) /\ Len(seqs) = n /\ \A i \in 1 .. n : seqs[i] = b(i)
  BY <1>1, <1>4
<1> HIDE DEF seqs, q, ms, n
<1>6. \A i \in 1 .. n : IsSequence(seqs[i]) /\ Len(seqs[i]) = 1 /\ seqs[i][1] = InterfaceOverload(ms[i])
  BY ONLY <1>3, <1>5
<1>7. \A i \in 1 .. Len(seqs) : IsSequence(seqs[i])
  BY ONLY <1>5, <1>6
<1>8. IsSequence(q) /\ \E S, off : Offsets(off, seqs, n) /\ Placed(q, S, off, seqs, n)
  BY ONLY <1>2, <1>5, <1>7, FlattenedElements
<1>9. PICK S, off : Offsets(off, seqs, n) /\ Placed(q, S, off, seqs, n)
  BY <1>8
<1>10. \A j \in 1 .. n : Len(seqs[j]) = 1
  BY ONLY <1>6
<1>11. \A j \in 1 .. n + 1 : off[j] = j - 1
  <2> DEFINE bad == {j \in Nat : j \in 1 .. n + 1 /\ off[j] # j - 1}
  <2> SUFFICES ASSUME bad # {} PROVE FALSE
    BY <1>1
  <2>1. PICK j \in bad : \A y \in bad : j <= y
    BY LeastNatural
  <2>2. j \in Nat /\ j \in 1 .. n + 1 /\ off[j] # j - 1
    BY <2>1
  <2> HIDE DEF bad
  <2>3. j # 1
    BY <1>9, <2>2 DEF Offsets
  <2> DEFINE m == j - 1
  <2>4. m \in Nat /\ m \in 1 .. n /\ m + 1 = j /\ ~(j <= m) /\ m \in 1 .. n + 1
    BY <1>1, <2>2, <2>3
  <2>5. m \notin bad
    BY <2>1, <2>4
  <2>6. off[m] = m - 1
    BY <2>4, <2>5 DEF bad
  <2> HIDE DEF m
  <2>7. off[m + 1] = off[m] + 1
    BY <1>9, <1>10, <2>4 DEF Offsets
  <2> QED BY <2>2, <2>4, <2>6, <2>7
<1>12. Len(q) = n
  <2>1. Len(q) = off[n + 1]
    BY ONLY <1>9 DEF Placed
  <2> QED BY <1>1, <1>11, <2>1
<1>13. ASSUME NEW k \in 1 .. n PROVE q[k] = InterfaceOverload(ms[k])
  <2>1. q[off[k] + 1] = seqs[k][1]
    BY ONLY <1>9, <1>10, 1 \in 1 .. 1, k \in 1 .. n DEF Placed
  <2>2. off[k] + 1 = k
    BY <1>1, <1>11
  <2> QED BY ONLY <1>6, <2>1, <2>2, k \in 1 .. n
<1> QED BY ONLY <1>2, <1>8, <1>12, <1>13 DEF q, ms, n

\* The fields of a class.
LEMMA ClassFields ==
    ASSUME NEW n, NEW s
    PROVE  /\ Class(n, s).op = "declare" /\ Class(n, s).name = <<"class", n>>
           /\ Class(n, s).uses = {TypeName(t) : t \in TypesOf(s)}
<1> DEFINE v == {TypeName(t) : t \in TypesOf(s)}
<1> HIDE DEF v
<1>1. Class(n, s) = [Decl(<<"class", n>>) EXCEPT !.uses = v]
  BY DEF Class, v
<1>2. Class(n, s) = [op |-> "declare", name |-> <<"class", n>>, uses |-> v]
  BY <1>1 DEF Decl
<1> QED BY <1>2 DEF v

\* The functions of a stub have the names of the methods and of their
\* asynchronous variants, those of the interface the names of the methods.
LEMMA FunctionNamesAre ==
    ASSUME NEW M, NEW s, s.methods \in Seq(M), NEW x
    PROVE  LET ms == s.methods IN
           /\ x \in FunctionNames(StubFunctions(s))
                 <=> \E i \in 1 .. Len(ms) : x \in {ms[i].name, Async(ms[i].name)}
           /\ x \in FunctionNames(AllOf(s, InterfaceMethod))
                 <=> \E i \in 1 .. Len(ms) : x = ms[i].name
<1> DEFINE ms == s.methods
           n == Len(ms)
           d == AllOf(s, StubDeclarations)
           e == AllOf(s, StubInline)
           q == AllOf(s, InterfaceMethod)
           all == d \o e
<1>1. OverloadPlaces(d, e, ms)
  BY ONLY s.methods \in Seq(M), StubOverloads
<1>2. /\ IsSequence(q) /\ Len(q) = n
      /\ \A i \in 1 .. n : q[i] = InterfaceOverload(ms[i])
  BY ONLY s.methods \in Seq(M), InterfaceOverloads
<1>3. all = StubFunctions(s)
  BY DEF StubFunctions
<1>4. ASSUME NEW o, NEW i, NEW a \in 1 .. 8, o = Kind(ms[i], a)
      PROVE  o.name \in {ms[i].name, Async(ms[i].name)}
             /\ (a = 1 => o.name = Async(ms[i].name)) /\ (a = 3 => o.name = ms[i].name)
  <2> DEFINE m == ms[i]
  <2>1. HasShape(Kind(m, a), m, a)
    BY ONLY KindShape, a \in 1 .. 8
  <2>2. o = Overload(KindName(m, a), o.params)
    BY ONLY <1>4, <2>1 DEF HasShape
  <2>3. \A p, v : Overload(p, v).name = p
    BY DEF Overload
  <2>4. o.name = KindName(m, a)
    BY ONLY <2>2, <2>3
  <2> HIDE DEF m
  <2> QED BY ONLY <2>4 DEF KindName, m
<1> HIDE DEF d, e, q, ms
<1>5. /\ n \in Nat
      /\ IsSequence(d) /\ IsSequence(e) /\ Len(d) = 4 * n /\ Len(e) = 4 * n
      /\ \A i \in 1 .. n : \A a \in 1 .. 4 :
            /\ 4 * i - 4 + a \in 1 .. Len(d)
            /\ d[4 * i - 4 + a] = Kind(ms[i], a)
            /\ e[4 * i - 4 + a] = Kind(ms[i], a + 4)
      /\ \A k \in 1 .. 4 * n : \E i \in 1 .. n : \E a \in 1 .. 4 : k = 4 * i - 4 + a
  BY ONLY <1>1 DEF OverloadPlaces
<1>6. IsSequence(all) /\ Elements(all) = Elements(d) \cup Elements(e)
  BY ONLY <1>5, JoinedElements DEF IsJoined
<1> HIDE DEF all, n
<1>7. \A y : IsSequence(y) => FunctionNames(y) = {o.name : o \in Elements(y)}
  <2> TAKE y
  <2>1. HAVE IsSequence(y)
  <2>2. DOMAIN y = 1 .. Len(y)
    BY ONLY <2>1, AnySequence DEF IsSequence
  <2> QED BY ONLY <2>2 DEF FunctionNames, Elements
<1>8. ASSUME NEW o \in Elements(all)
      PROVE  \E i \in 1 .. n : o.name \in {ms[i].name, Async(ms[i].name)}
  <2>1. CASE o \in Elements(d)
    <3>1. PICK k \in 1 .. 4 * n : o = d[k]
      BY ONLY <1>5, <2>1 DEF Elements
    <3>2. PICK i \in 1 .. n : \E a \in 1 .. 4 : k = 4 * i - 4 + a
      BY ONLY <1>5, k \in 1 .. 4 * n
    <3>3. PICK a \in 1 .. 4 : k = 4 * i - 4 + a
      BY ONLY <3>2
    <3>4. d[4 * i - 4 + a] = Kind(ms[i], a) /\ a \in 1 .. 8
      <4>1. d[4 * i - 4 + a] = Kind(ms[i], a)
        BY ONLY <1>5, i \in 1 .. n, a \in 1 .. 4, Zenon
      <4> QED BY ONLY <4>1, a \in 1 .. 4
    <3>5. o = Kind(ms[i], a)
      BY ONLY <3>1, <3>3, <3>4, Zenon
    <3> QED BY ONLY <1>4, <3>4, <3>5, i \in 1 .. n
  <2>2. CASE o \in Elements(e)
    <3>1. PICK k \in 1 .. 4 * n : o = e[k]
      BY ONLY <1>5, <2>2 DEF Elements
    <3>2. PICK i \in 1 .. n : \E a \in 1 .. 4 : k = 4 * i - 4 + a
      BY ONLY <1>5, k \in 1 .. 4 * n
    <3>3. PICK a \in 1 .. 4 : k = 4 * i - 4 + a
      BY ONLY <3>2
    <3> DEFINE b == a + 4
    <3>4. e[4 * i - 4 + a] = Kind(ms[i], b) /\ b \in 1 .. 8
      <4>1. e[4 * i - 4 + a] = Kind(ms[i], b)
        BY ONLY <1>5, i \in 1 .. n, a \in 1 .. 4, Zenon
      <4>2. b \in 1 .. 8
        BY ONLY a \in 1 .. 4
      <4> QED BY ONLY <4>1, <4>2
    <3> HIDE DEF b
    <3>5. o = Kind(ms[i], b)
      BY ONLY <3>1, <3>3, <3>4, Zenon
    <3> QED BY ONLY <1>4, <3>4, <3>5, i \in 1 .. n
  <2> QED BY ONLY <1>6, <1>8, <2>1, <2>2
<1>9. ASSUME NEW i \in 1 .. n
      PROVE  \E o, r \in Elements(all) : o.name = ms[i].name /\ r.name = Async(ms[i].name)
  <2> DEFINE k == 4 * i - 4 + 1
             l == 4 * i - 4 + 3
  <2>1. k \in 1 .. Len(d) /\ l \in 1 .. Len(d) /\ d[k] = Kind(ms[i], 1) /\ d[l] = Kind(ms[i], 3)
    BY ONLY <1>5, i \in 1 .. n
  <2> HIDE DEF k, l
  <2>2. d[k] \in Elements(all) /\ d[l] \in Elements(all)
    BY ONLY <1>6, <2>1 DEF Elements
  <2>3. d[k].name = Async(ms[i].name) /\ d[l].name = ms[i].name
    BY ONLY <1>4, <2>1, 1 \in 1 .. 8, 3 \in 1 .. 8
  <2> QED BY ONLY <2>2, <2>3
<1>10. x \in FunctionNames(all) <=> \E i \in 1 .. n : x \in {ms[i].name, Async(ms[i].name)}
  BY ONLY <1>6, <1>7, <1>8, <1>9
<1>11. x \in FunctionNames(q) <=> \E i \in 1 .. n : x = ms[i].name
  <2>1. \A m : InterfaceOverload(m).name = m.name
    BY DEF InterfaceOverload, Overload
  <2> QED BY ONLY <1>2, <1>7, <2>1 DEF Elements
<1> QED BY ONLY <1>3, <1>10, <1>11 DEF ms, n, q

\* No function of the generated classes has the name of a type or hides a member
\* that is used, unless a method is named like Stub, a handler's type or such a
\* member.
LEMMA TypesDiffer ==
    ASSUME NEW M, NEW P, NEW s, AreMethods(s, M, P)
    PROVE  NamesOnce(s) <=> ~TypeClash(s)
<1> DEFINE ms == s.methods
           n == Len(ms)
           h(k) == HandlerTypedef(ms[k])
<1>1. ms \in Seq(M) /\ DOMAIN ms = 1 .. n /\ \A i \in 1 .. n : ms[i].name \in Seq(P)
  <2>1. ms \in Seq(M) /\ \A m \in M : m.name \in Seq(P)
    BY DEF AreMethods
  <2> HIDE DEF ms
  <2>2. DOMAIN ms = 1 .. n /\ \A i \in 1 .. n : ms[i] \in M
    BY ONLY <2>1, ElementOfSeq
  <2> QED BY ONLY <2>1, <2>2
<1>2. ASSUME NEW x
      PROVE  /\ x \in FunctionNames(StubFunctions(s))
                   <=> \E i \in 1 .. n : x \in {ms[i].name, Async(ms[i].name)}
             /\ x \in FunctionNames(AllOf(s, InterfaceMethod)) <=> \E i \in 1 .. n : x = ms[i].name
  BY ONLY <1>1, FunctionNamesAre
<1>3. ASSUME NEW i \in 1 .. n PROVE Async(ms[i].name) \notin ServiceStubMembers
  <2> DEFINE y == ms[i].name
             a == "async_"
             c == "conn_"
             t == "default_timeout_ms_"
  <2>1. y \in Seq(P)
    BY ONLY <1>1, i \in 1 .. n
  <2>2. a # c /\ a # t
    OBVIOUS
  <2>3. ServiceStubMembers = {<<c>>, <<t>>}
    BY DEF ServiceStubMembers
  <2>4. Async(y) = <<a>> \o y
    BY DEF Async
  <2> HIDE DEF y, a, c, t
  <2>5. Async(y)[1] = a
    <3>1. y \in Seq(P \cup {a}) /\ <<a>> \in Seq(P \cup {a})
      BY ONLY <2>1
    <3> QED BY ONLY <2>4, <3>1
  <2>6. <<c>>[1] = c /\ <<t>>[1] = t
    OBVIOUS
  <2>7. Async(y) # <<c>> /\ Async(y) # <<t>>
    BY ONLY <2>2, <2>5, <2>6
  <2> QED BY ONLY <2>3, <2>7 DEF y
<1>4. NamesOnce(s) <=>
         /\ StubTypedef \notin FunctionNames(AllOf(s, InterfaceMethod))
         /\ \A x \in ServiceStubMembers : x \notin FunctionNames(StubFunctions(s))
         /\ \A k \in 1 .. n : h(k) \notin FunctionNames(StubFunctions(s))
  <2> HIDE DEF ms
  <2>1. OtherNames(s) = ServiceStubMembers \cup {h(k) : k \in 1 .. n}
    BY ONLY <1>1 DEF OtherNames, ms
  <2> HIDE DEF h, n
  <2> QED BY ONLY <2>1 DEF NamesOnce
<1>5. TypeClash(s) <=>
         \E i \in 1 .. n :
            \/ ms[i].name = StubTypedef \/ ms[i].name \in ServiceStubMembers
            \/ \E k \in 1 .. n : h(k) \in {ms[i].name, Async(ms[i].name)}
  BY <1>1 DEF TypeClash
<1> HIDE DEF ms, n, h
<1> QED BY ONLY <1>2, <1>3, <1>4, <1>5

\* What the class of the service and the class of the stub consist of.
InterfaceMembers ==
    {"destructor", "descriptor", "GetDescriptor", "call_method", "GetRequestPrototype",
     "GetResponsePrototype"}
StubMemberNames == {"connection constructor", "endpoint constructor", "destructor"}
MethodsOf(s) == Elements(AllOf(s, InterfaceMethod))
OverloadsOf(s) == Elements(AllOf(s, StubDeclarations))

InterfaceItems(s) ==
    {Class(s.name, s), Decl(Typedef(s.name, StubTypedef))}
    \cup {Decl(Member(s.name, n)) : n \in InterfaceMembers}
    \cup {Decl(Method(s.name, o)) : o \in MethodsOf(s)}
TypedefItems(s) == {Decl(Typedef(Stub(s), HandlerTypedef(m))) : m \in Elements(s.methods)}
StubItems(s) ==
    {Class(Stub(s), s)} \cup {Decl(Member(Stub(s), n)) : n \in StubMemberNames}
    \cup TypedefItems(s)
    \cup {Decl(Method(Stub(s), o)) : o \in OverloadsOf(s)}

\* GenerateInterface() declares these.
LEMMA InterfaceElements ==
    ASSUME NEW M, NEW s, s.methods \in Seq(M)
    PROVE  IsSequence(GenerateInterface(s)) /\ Elements(GenerateInterface(s)) = InterfaceItems(s)
<1> DEFINE c == s.name
           q == AllOf(s, InterfaceMethod)
           u == Decl(Typedef(c, StubTypedef))
           last == <<"GetDescriptor", "call_method", "GetRequestPrototype", "GetResponsePrototype">>
           w == <<Class(c, s), Decl(Member(c, "destructor")), u, Decl(Member(c, "descriptor"))>>
           y == DeclaredMethods(c, q)
           z == DeclaredMembers(c, last)
<1>1. GenerateInterface(s) = (w \o y) \o z
  BY DEF GenerateInterface, Each, DeclaredMembers, DeclaredMethods
<1>2. /\ IsSequence(w)
      /\ Elements(w) = {Class(c, s), Decl(Member(c, "destructor")), u, Decl(Member(c, "descriptor"))}
  BY ONLY FourElements
<1>3. IsSequence(q)
  BY ONLY InterfaceOverloads, s.methods \in Seq(M)
<1>4. IsSequence(last)
      /\ Elements(last) = {"GetDescriptor", "call_method", "GetRequestPrototype", "GetResponsePrototype"}
  BY ONLY FourElements
<1> HIDE DEF w, q, last, u
<1>6. IsSequence(y) /\ Elements(y) = {Decl(Method(c, n)) : n \in Elements(q)}
  BY ONLY <1>3, MembersMapped
<1>7. IsSequence(z) /\ Elements(z) = {Decl(Member(c, n)) : n \in Elements(last)}
  BY ONLY <1>4, MembersMapped
<1> HIDE DEF y, z
<1> DEFINE b == w \o y
           d == b \o z
<1>9. IsSequence(b) /\ Elements(b) = Elements(w) \cup Elements(y)
  BY ONLY <1>2, <1>6, JoinedElements DEF IsJoined
<1> HIDE DEF b
<1>10. IsSequence(d) /\ Elements(d) = Elements(b) \cup Elements(z)
  BY ONLY <1>9, <1>7, JoinedElements DEF IsJoined
<1> HIDE DEF d
<1>11. {Decl(Member(c, n)) : n \in InterfaceMembers} =
         {Decl(Member(c, "destructor")), Decl(Member(c, "descriptor"))}
         \cup {Decl(Member(c, n)) : n \in Elements(last)}
  <2>1. InterfaceMembers = {"destructor", "descriptor"} \cup Elements(last)
    BY ONLY <1>4 DEF InterfaceMembers
  <2> QED BY ONLY <2>1
<1>12. Elements(d) = InterfaceItems(s)
  <2>1. Elements(d) = {Class(c, s), u} \cup {Decl(Member(c, n)) : n \in InterfaceMembers}
                      \cup {Decl(Method(c, o)) : o \in Elements(q)}
    BY ONLY <1>2, <1>6, <1>7, <1>9, <1>10, <1>11
  <2> QED BY ONLY <2>1 DEF InterfaceItems, MethodsOf, q, u
<1> QED BY ONLY <1>1, <1>10, <1>12 DEF b, d

\* GenerateStubDefinition() declares these.
LEMMA StubElements ==
    ASSUME NEW M, NEW s, s.methods \in Seq(M)
    PROVE  /\ IsSequence(GenerateStubDefinition(s))
           /\ Elements(GenerateStubDefinition(s)) = StubItems(s)
<1> DEFINE c == Stub(s)
           q == AllOf(s, StubDeclarations)
           w == <<Class(c, s)>>
           x == DeclaredMembers(c, StubMembers)
           ms == s.methods
           G(m) == Decl(Typedef(c, HandlerTypedef(m)))
           v == [i \in DOMAIN ms |-> G(ms[i])]
           y == DeclaredMethods(c, q)
<1>1. GenerateStubDefinition(s) = ((w \o x) \o v) \o y
  BY DEF GenerateStubDefinition, Each, DeclaredMembers, DeclaredMethods
<1>2. IsSequence(w) /\ Elements(w) = {Class(c, s)}
  BY ONLY SingleElements
<1>3. IsSequence(q)
  BY ONLY StubOverloads, s.methods \in Seq(M) DEF OverloadPlaces
<1>4. IsSequence(StubMembers) /\ Elements(StubMembers) = StubMemberNames
  BY ONLY TripleElements DEF StubMembers, StubMemberNames
<1>10. IsSequence(v) /\ Elements(v) = {G(m) : m \in Elements(ms)}
  <2> HIDE DEF G
  <2>0. IsSequence(ms) /\ Len(ms) \in Nat /\ DOMAIN ms = 1 .. Len(ms)
    <3>1. IsSequence(ms)
      BY ONLY s.methods \in Seq(M), AnySequence
    <3> QED BY ONLY <3>1, s.methods \in Seq(M)
  <2> HIDE DEF ms
  <2>1. v = [i \in DOMAIN ms |-> v[i]] /\ \A i \in 1 .. Len(ms) : v[i] = G(ms[i])
    BY ONLY <2>0
  <2> HIDE DEF v
  <2>2. IsSequence(v) /\ Len(v) = Len(ms)
    BY ONLY <2>0, <2>1, Mapped
  <2> QED BY ONLY <2>1, <2>2 DEF Elements
<1> HIDE DEF w, q, c, v
<1>5. IsSequence(x) /\ Elements(x) = {Decl(Member(c, n)) : n \in Elements(StubMembers)}
  BY ONLY <1>4, MembersMapped
<1>6. IsSequence(y) /\ Elements(y) = {Decl(Method(c, n)) : n \in Elements(q)}
  BY ONLY <1>3, MembersMapped
<1> HIDE DEF x, y
<1> DEFINE a == w \o x
           e == a \o v
           b == e \o y
<1>7. IsSequence(a) /\ Elements(a) = Elements(w) \cup Elements(x)
  BY ONLY <1>2, <1>5, JoinedElements DEF IsJoined
<1> HIDE DEF a
<1>11. IsSequence(e) /\ Elements(e) = Elements(a) \cup Elements(v)
  BY ONLY <1>7, <1>10, JoinedElements DEF IsJoined
<1> HIDE DEF e
<1>8. IsSequence(b) /\ Elements(b) = Elements(e) \cup Elements(y)
  BY ONLY <1>11, <1>6, JoinedElements DEF IsJoined
<1> HIDE DEF b
<1>12. Elements(v) = TypedefItems(s)
  BY ONLY <1>10 DEF TypedefItems, c, ms
<1>9. Elements(b) = {Class(c, s)} \cup {Decl(Member(c, n)) : n \in StubMemberNames}
                    \cup TypedefItems(s) \cup {Decl(Method(c, o)) : o \in Elements(q)}
  BY ONLY <1>2, <1>4, <1>5, <1>6, <1>7, <1>8, <1>11, <1>12
<1> QED BY ONLY <1>1, <1>8, <1>9 DEF a, b, e, StubItems, OverloadsOf, q, c

\* The services of a file: their names and the names of their stubs differ, and
\* the header knows the types of their methods.
Services(f, X, M, P) ==
    /\ f.services \in Seq(X) /\ \A s \in X : AreMethods(s, M, P)
    /\ \A i, j \in 1 .. Len(f.services) :
          /\ i # j => f.services[i].name # f.services[j].name
          /\ f.services[i].name # Stub(f.services[j])
    /\ \A j \in 1 .. Len(f.services) : \A t \in TypesOf(f.services[j]) :
          TypeName(t) \in HeaderIncludes(f)

\* What holds for each of the services.
LEMMA EachOf ==
    ASSUME NEW X, NEW M, NEW P, NEW f, Services(f, X, M, P)
    PROVE  /\ Len(f.services) \in Nat /\ DOMAIN f.services = 1 .. Len(f.services)
           /\ \A j \in 1 .. Len(f.services) :
                 AreMethods(f.services[j], M, P) /\ f.services[j].methods \in Seq(M)
<1>1. f.services \in Seq(X) /\ \A s \in X : AreMethods(s, M, P)
  BY DEF Services
<1>2. \A j \in 1 .. Len(f.services) : f.services[j] \in X
  BY ONLY <1>1, ElementOfSeq
<1>3. Len(f.services) \in Nat /\ DOMAIN f.services = 1 .. Len(f.services)
  BY ONLY <1>1
<1> QED BY ONLY <1>1, <1>2, <1>3 DEF AreMethods

\* The header.
DeclarationItems(s) == InterfaceItems(s) \cup StubItems(s)

\* GenerateHeader() declares two functions, and two classes for every service.
LEMMA HeaderElements ==
    ASSUME NEW X, NEW M, NEW P, NEW f, Services(f, X, M, P)
    PROVE  /\ IsSequence(GenerateHeader(f))
           /\ Elements(GenerateHeader(f)) = {Decl(Assign(f)), Decl(Shutdown(f))}
                 \cup UNION {DeclarationItems(f.services[j]) : j \in 1 .. Len(f.services)}
<1> DEFINE n == Len(f.services)
           w == <<Decl(Assign(f)), Decl(Shutdown(f))>>
           e == EachService(f, GenerateDeclarations)
           b(j) == GenerateDeclarations(f.services[j])
           T == {b(j) : j \in 1 .. n}
           seqs == [j \in 1 .. n |-> b(j)]
<1>1. n \in Nat /\ DOMAIN f.services = 1 .. n
      /\ \A j \in 1 .. n : f.services[j].methods \in Seq(M)
  BY EachOf
<1>2. IsSequence(w) /\ Elements(w) = {Decl(Assign(f)), Decl(Shutdown(f))}
  BY ONLY PairElements
<1>3. e = FlattenSeq(seqs)
  BY <1>1 DEF EachService, Each
<1>4. \A j \in 1 .. n : b(j) \in T
  OBVIOUS
<1>5. ASSUME NEW j \in 1 .. n PROVE IsSequence(b(j)) /\ Elements(b(j)) = DeclarationItems(f.services[j])
  <2> DEFINE s == f.services[j]
             x == GenerateInterface(s)
             y == GenerateStubDefinition(s)
             u == x \o y
  <2>1. s.methods \in Seq(M)
    BY <1>1
  <2> HIDE DEF s
  <2>2. IsSequence(x) /\ Elements(x) = InterfaceItems(s)
    BY ONLY <2>1, InterfaceElements
  <2>3. IsSequence(y) /\ Elements(y) = StubItems(s)
    BY ONLY <2>1, StubElements
  <2> HIDE DEF x, y
  <2>4. IsSequence(u) /\ Elements(u) = Elements(x) \cup Elements(y)
    BY ONLY <2>2, <2>3, JoinedElements DEF IsJoined
  <2> QED BY <2>2, <2>3, <2>4 DEF GenerateDeclarations, DeclarationItems, x, y, s
<1> HIDE DEF b, T
<1>6. seqs \in Seq(T) /\ Len(seqs) = n /\ \A j \in 1 .. n : seqs[j] = b(j)
  BY <1>1, <1>4
<1> HIDE DEF seqs, n, w, e
<1>7. \A j \in 1 .. Len(seqs) : IsSequence(seqs[j])
  BY ONLY <1>5, <1>6
<1>8. IsSequence(e) /\ Elements(e) = UNION {Elements(seqs[j]) : j \in 1 .. Len(seqs)}
  BY ONLY <1>3, <1>6, <1>7, FlattenedElements
<1>9. UNION {Elements(seqs[j]) : j \in 1 .. Len(seqs)} = UNION {DeclarationItems(f.services[j]) : j \in 1 .. n}
  BY ONLY <1>5, <1>6
<1> DEFINE u == w \o e
<1>10. IsSequence(u) /\ Elements(u) = Elements(w) \cup Elements(e)
  BY ONLY <1>2, <1>8, JoinedElements DEF IsJoined
<1>11. GenerateHeader(f) = u
  BY DEF GenerateHeader, w, e
<1> QED BY ONLY <1>2, <1>8, <1>9, <1>10, <1>11 DEF n

\* No name is defined twice, or one is.
DefinesAt(t, k, n) == t[k].op = "define" /\ t[k].name = n
Apart(t) == \A k, l \in 1 .. Len(t) : \A n : DefinesAt(t, k, n) /\ DefinesAt(t, l, n) => k = l
Twice(t, n) == \E k, l \in 1 .. Len(t) : k # l /\ DefinesAt(t, k, n) /\ DefinesAt(t, l, n)

\* Nothing that s defines is defined in t.
Disjoint(s, t) ==
    \A x \in Elements(s) : \A y \in Elements(t) :
        x.op = "define" /\ y.op = "define" => x.name # y.name

\* Where an element of two sequences is.
LEMMA JoinedPlace ==
    ASSUME NEW u, NEW s, NEW t, IsJoined(u, s, t), NEW k \in 1 .. Len(u)
    PROVE  \/ k \in 1 .. Len(s) /\ u[k] = s[k] /\ u[k] \in Elements(s)
           \/ \E l \in 1 .. Len(t) : k = Len(s) + l /\ u[k] = t[l] /\ u[k] \in Elements(t)
<1>1. /\ Len(s) \in Nat /\ Len(t) \in Nat /\ Len(u) = Len(s) + Len(t)
      /\ \A i \in 1 .. Len(s) : u[i] = s[i]
      /\ \A i \in 1 .. Len(t) : u[Len(s) + i] = t[i]
  BY DEF IsJoined
<1>2. CASE k <= Len(s)
  <2>1. k \in 1 .. Len(s)
    BY <1>1, <1>2
  <2> QED BY <1>1, <2>1 DEF Elements
<1>3. CASE ~(k <= Len(s))
  <2> DEFINE l == k - Len(s)
  <2>1. l \in 1 .. Len(t) /\ k = Len(s) + l
    BY <1>1, <1>3
  <2> HIDE DEF l
  <2>2. u[k] = t[l] /\ t[l] \in Elements(t)
    BY <1>1, <2>1 DEF Elements
  <2> QED BY <2>1, <2>2
<1> QED BY <1>2, <1>3

\* Two sequences that define different names, one after the other, define no name
\* twice.
LEMMA ApartJoined ==
    ASSUME NEW u, NEW s, NEW t, IsJoined(u, s, t), Apart(s), Apart(t), Disjoint(s, t)
    PROVE  Apart(u)
<1> SUFFICES ASSUME NEW k \in 1 .. Len(u), NEW l \in 1 .. Len(u), NEW n,
                    DefinesAt(u, k, n), DefinesAt(u, l, n)
             PROVE  k = l
  BY DEF Apart
<1>1. \/ k \in 1 .. Len(s) /\ u[k] = s[k] /\ u[k] \in Elements(s)
      \/ \E x \in 1 .. Len(t) : k = Len(s) + x /\ u[k] = t[x] /\ u[k] \in Elements(t)
  BY JoinedPlace
<1>2. \/ l \in 1 .. Len(s) /\ u[l] = s[l] /\ u[l] \in Elements(s)
      \/ \E x \in 1 .. Len(t) : l = Len(s) + x /\ u[l] = t[x] /\ u[l] \in Elements(t)
  BY JoinedPlace
<1>3. u[k].op = "define" /\ u[k].name = n /\ u[l].op = "define" /\ u[l].name = n
  BY DEF DefinesAt
<1>4. CASE k \in 1 .. Len(s) /\ u[k] = s[k] /\ u[k] \in Elements(s)
  <2>1. CASE l \in 1 .. Len(s) /\ u[l] = s[l] /\ u[l] \in Elements(s)
    BY ONLY <1>3, <1>4, <2>1, Apart(s) DEF Apart, DefinesAt
  <2>2. CASE u[l] \in Elements(t)
    BY ONLY <1>3, <1>4, <2>2, Disjoint(s, t) DEF Disjoint
  <2> QED BY <1>2, <2>1, <2>2
<1>5. CASE \E x \in 1 .. Len(t) : k = Len(s) + x /\ u[k] = t[x] /\ u[k] \in Elements(t)
  <2>1. CASE u[l] \in Elements(s)
    BY ONLY <1>3, <1>5, <2>1, Disjoint(s, t) DEF Disjoint
  <2>2. CASE \E x \in 1 .. Len(t) : l = Len(s) + x /\ u[l] = t[x] /\ u[l] \in Elements(t)
    <3>1. PICK x \in 1 .. Len(t) : k = Len(s) + x /\ u[k] = t[x]
      BY <1>5
    <3>2. PICK y \in 1 .. Len(t) : l = Len(s) + y /\ u[l] = t[y]
      BY <2>2
    <3>3. x = y
      BY ONLY <1>3, <3>1, <3>2, Apart(t) DEF Apart, DefinesAt
    <3> QED BY ONLY <3>1, <3>2, <3>3
  <2> QED BY <1>2, <2>1, <2>2
<1> QED BY <1>1, <1>4, <1>5

\* What one of them defines twice, both do.
LEMMA TwiceJoined ==
    ASSUME NEW u, NEW s, NEW t, NEW n, IsJoined(u, s, t), Twice(s, n) \/ Twice(t, n)
    PROVE  Twice(u, n)
<1>1. /\ Len(s) \in Nat /\ Len(t) \in Nat /\ Len(u) = Len(s) + Len(t)
      /\ \A i \in 1 .. Len(s) : u[i] = s[i]
      /\ \A i \in 1 .. Len(t) : u[Len(s) + i] = t[i]
  BY DEF IsJoined
<1>2. CASE Twice(s, n)
  <2>1. PICK k, l \in 1 .. Len(s) : k # l /\ DefinesAt(s, k, n) /\ DefinesAt(s, l, n)
    BY <1>2 DEF Twice
  <2>2. k \in 1 .. Len(u) /\ l \in 1 .. Len(u) /\ u[k] = s[k] /\ u[l] = s[l]
    BY <1>1
  <2> QED BY ONLY <2>1, <2>2 DEF Twice, DefinesAt
<1>3. CASE Twice(t, n)
  <2>1. PICK k, l \in 1 .. Len(t) : k # l /\ DefinesAt(t, k, n) /\ DefinesAt(t, l, n)
    BY <1>3 DEF Twice
  <2> DEFINE x == Len(s) + k
             y == Len(s) + l
  <2>2. x \in 1 .. Len(u) /\ y \in 1 .. Len(u) /\ x # y /\ u[x] = t[k] /\ u[y] = t[l]
    BY <1>1, <2>1
  <2> HIDE DEF x, y
  <2> QED BY ONLY <2>1, <2>2 DEF Twice, DefinesAt
<1> QED BY <1>2, <1>3

\* The same for any number of sequences.
LEMMA ApartFlattened ==
    ASSUME NEW T, NEW seqs \in Seq(T), \A j \in 1 .. Len(seqs) : IsSequence(seqs[j]) /\ Apart(seqs[j]),
           \A i, j \in 1 .. Len(seqs) : i # j => Disjoint(seqs[i], seqs[j])
    PROVE  Apart(FlattenSeq(seqs))
<1> DEFINE u == FlattenSeq(seqs)
           m == Len(seqs)
<1>1. \E S, off : Offsets(off, seqs, m) /\ Placed(u, S, off, seqs, m)
  BY FlattenedElements
<1>2. PICK S, off : Placed(u, S, off, seqs, m)
  BY <1>1
<1> HIDE DEF u, m
<1>3. /\ \A j \in 1 .. m : \A t \in 1 .. Len(seqs[j]) : u[off[j] + t] = seqs[j][t]
      /\ \A k \in 1 .. Len(u) : \E j \in 1 .. m : \E t \in 1 .. Len(seqs[j]) : k = off[j] + t
  BY ONLY <1>2 DEF Placed
<1> SUFFICES ASSUME NEW k \in 1 .. Len(u), NEW l \in 1 .. Len(u), NEW n,
                    DefinesAt(u, k, n), DefinesAt(u, l, n)
             PROVE  k = l
  BY DEF Apart, u
<1>4. PICK i \in 1 .. m : \E t \in 1 .. Len(seqs[i]) : k = off[i] + t
  BY <1>3
<1>5. PICK a \in 1 .. Len(seqs[i]) : k = off[i] + a
  BY <1>4
<1>6. PICK j \in 1 .. m : \E t \in 1 .. Len(seqs[j]) : l = off[j] + t
  BY <1>3
<1>7. PICK b \in 1 .. Len(seqs[j]) : l = off[j] + b
  BY <1>6
<1>8. u[k] = seqs[i][a] /\ u[l] = seqs[j][b]
  BY ONLY <1>3, <1>5, <1>7, i \in 1 .. m, j \in 1 .. m, a \in 1 .. Len(seqs[i]), b \in 1 .. Len(seqs[j])
<1> DEFINE v == seqs[i]
           w == seqs[j]
<1>9. /\ v[a].op = "define" /\ v[a].name = n /\ w[b].op = "define" /\ w[b].name = n
      /\ v[a] \in Elements(v) /\ w[b] \in Elements(w)
  BY <1>8 DEF DefinesAt, Elements
<1>10. Apart(v) /\ (i # j => Disjoint(v, w)) /\ a \in 1 .. Len(v) /\ b \in 1 .. Len(w)
  BY DEF m
<1>11. CASE i = j
  <2>1. v = w
    BY <1>11
  <2> HIDE DEF v, w
  <2>2. a = b
    BY ONLY <1>9, <1>10, <2>1 DEF Apart, DefinesAt
  <2> QED BY ONLY <1>5, <1>7, <1>11, <2>2
<1>12. CASE i # j
  <2> HIDE DEF v, w
  <2> QED BY ONLY <1>9, <1>10, <1>12 DEF Disjoint
<1> QED BY <1>11, <1>12

\* What one of any number of sequences defines twice, all of them do.
LEMMA TwiceFlattened ==
    ASSUME NEW T, NEW seqs \in Seq(T), \A j \in 1 .. Len(seqs) : IsSequence(seqs[j]),
           NEW i \in 1 .. Len(seqs), NEW n, Twice(seqs[i], n)
    PROVE  Twice(FlattenSeq(seqs), n)
<1> DEFINE u == FlattenSeq(seqs)
           m == Len(seqs)
           v == seqs[i]
<1>1. \E S, off : Offsets(off, seqs, m) /\ Placed(u, S, off, seqs, m)
  BY FlattenedElements
<1>2. PICK S, off : Offsets(off, seqs, m) /\ Placed(u, S, off, seqs, m)
  BY <1>1
<1>3. i \in 1 .. m /\ Twice(v, n)
  OBVIOUS
<1>4. Len(v) \in Nat
  BY AnySequence DEF IsSequence
<1> HIDE DEF u, m
<1>5. \A t \in 1 .. Len(v) : off[i] + t \in 1 .. Len(u) /\ u[off[i] + t] = v[t]
  BY ONLY <1>2, <1>3 DEF Placed
<1>6. off[i] \in Nat
  BY ONLY <1>2, <1>3 DEF Offsets
<1> HIDE DEF v
<1>7. PICK k, l \in 1 .. Len(v) : k # l /\ DefinesAt(v, k, n) /\ DefinesAt(v, l, n)
  BY <1>3 DEF Twice
<1> DEFINE x == off[i] + k
           y == off[i] + l
<1>8. x \in 1 .. Len(u) /\ y \in 1 .. Len(u) /\ x # y /\ u[x] = v[k] /\ u[y] = v[l]
  BY <1>4, <1>5, <1>6, <1>7
<1> HIDE DEF x, y
<1> QED BY ONLY <1>7, <1>8 DEF Twice, DefinesAt, u

\* What is used is known before, or declared or defined before.
Names(t) == {x.name : x \in Elements(t)}
UsesFit(t, known) ==
    \A i \in 1 .. Len(t) : t[i].uses \subseteq {t[k].name : k \in 1 .. i - 1} \cup known

\* Of two sequences, the second may also use the names of the first.
LEMMA UsesJoined ==
    ASSUME NEW u, NEW s, NEW t, IsJoined(u, s, t), NEW known
    PROVE  UsesFit(u, known) <=> UsesFit(s, known) /\ UsesFit(t, Names(s) \cup known)
<1> DEFINE n == Len(s)
           p(w, i) == {w[k].name : k \in 1 .. i - 1}
<1>1. /\ n \in Nat /\ Len(t) \in Nat /\ Len(u) = n + Len(t)
      /\ \A i \in 1 .. n : u[i] = s[i]
      /\ \A i \in 1 .. Len(t) : u[n + i] = t[i]
  BY DEF IsJoined
<1> HIDE DEF n
<1>2. ASSUME NEW i \in 1 .. n PROVE p(u, i) = p(s, i)
  <2>1. \A k \in 1 .. i - 1 : k \in 1 .. n
    BY <1>1
  <2>2. \A k \in 1 .. i - 1 : u[k] = s[k]
    BY ONLY <1>1, <2>1
  <2> QED BY ONLY <2>2
<1>3. ASSUME NEW i \in 1 .. Len(t) PROVE p(u, n + i) = Names(s) \cup p(t, i)
  <2>1. ASSUME NEW x \in p(u, n + i) PROVE x \in Names(s) \cup p(t, i)
    <3>1. PICK k \in 1 .. (n + i) - 1 : x = u[k].name
      OBVIOUS
    <3>2. CASE k <= n
      <4>1. k \in 1 .. n
        BY <1>1, <3>2
      <4>2. u[k] = s[k] /\ s[k] \in Elements(s)
        BY <1>1, <4>1 DEF Elements, n
      <4> QED BY <3>1, <4>2 DEF Names
    <3>3. CASE ~(k <= n)
      <4> DEFINE l == k - n
      <4>1. l \in 1 .. i - 1 /\ l \in 1 .. Len(t) /\ n + l = k
        BY <1>1, <3>3
      <4> HIDE DEF l
      <4>2. u[k] = t[l]
        BY <1>1, <4>1
      <4> QED BY <3>1, <4>1, <4>2
    <3> QED BY <3>2, <3>3
  <2>2. ASSUME NEW x \in Names(s) PROVE x \in p(u, n + i)
    <3>1. PICK k \in 1 .. n : x = s[k].name
      BY DEF Names, Elements, n
    <3>2. k \in 1 .. (n + i) - 1 /\ u[k] = s[k]
      BY <1>1
    <3> QED BY <3>1, <3>2
  <2>3. ASSUME NEW x \in p(t, i) PROVE x \in p(u, n + i)
    <3>1. PICK k \in 1 .. i - 1 : x = t[k].name
      OBVIOUS
    <3> DEFINE l == n + k
    <3>2. l \in 1 .. (n + i) - 1 /\ u[l] = t[k]
      BY <1>1
    <3> HIDE DEF l
    <3> QED BY <3>1, <3>2
  <2> HIDE DEF p
  <2> QED BY <2>1, <2>2, <2>3
<1>4. UsesFit(u, known) <=> \A i \in 1 .. Len(u) : u[i].uses \subseteq p(u, i) \cup known
  BY DEF UsesFit
<1>5. UsesFit(s, known) <=> \A i \in 1 .. n : s[i].uses \subseteq p(s, i) \cup known
  BY DEF UsesFit, n
<1>6. UsesFit(t, Names(s) \cup known) <=>
         \A i \in 1 .. Len(t) : t[i].uses \subseteq p(t, i) \cup (Names(s) \cup known)
  BY DEF UsesFit
<1> HIDE DEF p
<1>7. ASSUME UsesFit(u, known) PROVE UsesFit(s, known)
  <2> SUFFICES ASSUME NEW i \in 1 .. n PROVE s[i].uses \subseteq p(s, i) \cup known
    BY <1>5
  <2>1. i \in 1 .. Len(u)
    BY <1>1
  <2> QED BY <1>1, <1>2, <1>4, <1>7, <2>1
<1>8. ASSUME UsesFit(u, known) PROVE UsesFit(t, Names(s) \cup known)
  <2> SUFFICES ASSUME NEW i \in 1 .. Len(t)
               PROVE t[i].uses \subseteq p(t, i) \cup (Names(s) \cup known)
    BY <1>6
  <2> DEFINE k == n + i
  <2>1. k \in 1 .. Len(u) /\ u[k] = t[i] /\ p(u, k) = Names(s) \cup p(t, i)
    BY <1>1, <1>3
  <2> HIDE DEF k
  <2>2. u[k].uses \subseteq p(u, k) \cup known
    BY ONLY <1>4, <1>8, <2>1
  <2> QED BY ONLY <2>1, <2>2
<1>9. ASSUME UsesFit(s, known), UsesFit(t, Names(s) \cup known) PROVE UsesFit(u, known)
  <2> SUFFICES ASSUME NEW k \in 1 .. Len(u) PROVE u[k].uses \subseteq p(u, k) \cup known
    BY <1>4
  <2>1. CASE k <= n
    <3>1. k \in 1 .. n
      BY <1>1, <2>1
    <3>2. u[k] = s[k] /\ p(u, k) = p(s, k) /\ s[k].uses \subseteq p(s, k) \cup known
      BY <1>1, <1>2, <1>5, <1>9, <3>1
    <3> QED BY ONLY <3>2
  <2>2. CASE ~(k <= n)
    <3> DEFINE i == k - n
    <3>1. i \in 1 .. Len(t) /\ k = n + i
      BY <1>1, <2>2
    <3> HIDE DEF i
    <3>2. u[k] = t[i] /\ p(u, k) = Names(s) \cup p(t, i)
      BY <1>1, <1>3, <3>1
    <3>3. t[i].uses \subseteq p(t, i) \cup (Names(s) \cup known)
      BY ONLY <1>6, <1>9, <3>1
    <3> QED BY ONLY <3>2, <3>3
  <2> QED BY <2>1, <2>2
<1> QED BY <1>7, <1>8, <1>9

\* Everything is known already, or something is not known at all.
LEMMA UsesKnown ==
    ASSUME NEW t, NEW known, \A x \in Elements(t) : x.uses \subseteq known
    PROVE  UsesFit(t, known)
BY DEF UsesFit, Elements

\* Who uses a name that is neither known nor declared anywhere does so too early.
LEMMA UsesUnknown ==
    ASSUME NEW t, IsSequence(t), NEW known, NEW x \in Elements(t), NEW n \in x.uses,
           n \notin known, n \notin Names(t)
    PROVE  ~UsesFit(t, known)
<1>1. PICK i \in 1 .. Len(t) : x = t[i]
  BY DEF Elements
<1>2. Len(t) \in Nat
  BY AnySequence DEF IsSequence
<1>3. \A k \in 1 .. i - 1 : t[k].name # n
  <2> TAKE k \in 1 .. i - 1
  <2>1. k \in 1 .. Len(t)
    BY <1>2
  <2>2. t[k] \in Elements(t)
    BY <2>1 DEF Elements
  <2> QED BY <2>2 DEF Names
<1>4. n \notin {t[k].name : k \in 1 .. i - 1} \cup known
  BY <1>3
<1> QED BY <1>1, <1>4 DEF UsesFit

\* The parts of the names.
LEMMA NameParts ==
    ASSUME NEW c, NEW n
    PROVE  /\ Member(c, n)[1] = "member" /\ Member(c, n)[2] = c
           /\ Member(c, n)[3][1] = "fixed" /\ Member(c, n)[3][2] = n
           /\ Method(c, n)[1] = "member" /\ Method(c, n)[2] = c
           /\ Method(c, n)[3][1] = "overload" /\ Method(c, n)[3][2] = n
<1> DEFINE a == <<"fixed", n>>
           b == <<"overload", n>>
<1>1. a[1] = "fixed" /\ a[2] = n /\ b[1] = "overload" /\ b[2] = n
  OBVIOUS
<1> HIDE DEF a, b
<1>2. Member(c, n) = <<"member", c, a>> /\ Method(c, n) = <<"member", c, b>>
  BY DEF Member, Method, a, b
<1> QED BY <1>1, <1>2

\* Three definitions with different names, and the definitions of overloads.
LEMMA ApartThree ==
    ASSUME NEW a, NEW b, NEW c, a.name # b.name, a.name # c.name, b.name # c.name
    PROVE  Apart(<<a, b, c>>)
<1> DEFINE t == <<a, b, c>>
<1>1. Len(t) = 3 /\ t[1] = a /\ t[2] = b /\ t[3] = c
  BY ONLY ShortSequences
<1> HIDE DEF t
<1>2. \A k \in 1 .. Len(t) : k = 1 \/ k = 2 \/ k = 3
  BY <1>1
<1>3. Apart(t)
  BY <1>1, <1>2 DEF Apart, DefinesAt
<1> QED BY <1>3 DEF t

\* Different overloads are different names.
LEMMA ApartMethods ==
    ASSUME NEW q, IsSequence(q), \A k, l \in 1 .. Len(q) : q[k] = q[l] => k = l, NEW c
    PROVE  Apart(DefinedMethods(c, q))
<1> DEFINE e == DefinedMethods(c, q)
<1>1. DOMAIN e = 1 .. Len(q) /\ DOMAIN q = 1 .. Len(q) /\ IsSequence(e)
  BY ONLY IsSequence(q), MembersMapped
<1>2. Len(e) \in Nat /\ DOMAIN e = 1 .. Len(e)
  BY ONLY <1>1, AnySequence DEF IsSequence
<1>3. \A k \in 1 .. Len(q) : e[k] = Defined(Method(c, q[k]))
  BY <1>1 DEF DefinedMethods
<1> HIDE DEF e
<1>4. \A k \in 1 .. Len(q) : e[k].name[3][2] = q[k]
  <2> TAKE k \in 1 .. Len(q)
  <2> DEFINE n == Method(c, q[k])
  <2>1. Defined(n).name = n
    BY ONLY DEF Defined, Def
  <2>2. n[3][2] = q[k]
    BY ONLY NameParts
  <2> QED BY ONLY <1>3, <2>1, <2>2, k \in 1 .. Len(q)
<1>5. \A k \in 1 .. Len(e) : k \in 1 .. Len(q)
  BY ONLY <1>1, <1>2
<1>6. Apart(e)
  <2> SUFFICES ASSUME NEW k \in 1 .. Len(e), NEW l \in 1 .. Len(e), NEW n,
                      DefinesAt(e, k, n), DefinesAt(e, l, n)
               PROVE  k = l
    BY DEF Apart
  <2>1. e[k].name = e[l].name
    BY ONLY DefinesAt(e, k, n), DefinesAt(e, l, n) DEF DefinesAt
  <2>2. q[k] = q[l]
    BY ONLY <1>4, <1>5, <2>1, k \in 1 .. Len(e), l \in 1 .. Len(e)
  <2> QED BY ONLY <1>5, <2>2, k \in 1 .. Len(e), l \in 1 .. Len(e),
                  \A x, y \in 1 .. Len(q) : q[x] = q[y] => x = y
<1> QED BY <1>6 DEF e

\* The parts of the implementation of a service.
OnceUses(s) == {AssignDescriptorsOnce, DescriptorVar(s)}
OwnUses(s)  == {Member(s.name, "descriptor")}
ImplFirst(s) ==
    <<Defined(Member(s.name, "destructor")),
      Def(Member(s.name, "descriptor"), OnceUses(s)),
      Def(Member(s.name, "GetDescriptor"), OnceUses(s))>>
ImplMethods(s) == DefinedMethods(s.name, AllOf(s, NotImplemented))
ImplLast(s) ==
    <<Def(Member(s.name, "call_method"), {DescriptorVar(s)}),
      Def(Member(s.name, "GetRequestPrototype"), OwnUses(s)),
      Def(Member(s.name, "GetResponsePrototype"), OwnUses(s))>>
ImplStub(s) == DefinedMembers(Stub(s), StubMembers)
ImplOverloads(s) == DefinedMethods(Stub(s), AllOf(s, StubDefinitions))

ImplA(s) == ImplFirst(s) \o ImplMethods(s)
ImplB(s) == ImplA(s) \o ImplLast(s)
ImplC(s) == ImplB(s) \o ImplStub(s)

\* GenerateImplementation() is these parts, one after the other.
LEMMA ImplementationIs ==
    ASSUME NEW s
    PROVE  GenerateImplementation(s) = ImplC(s) \o ImplOverloads(s)
BY DEF GenerateImplementation, ImplA, ImplB, ImplC, ImplFirst, ImplMethods, ImplLast, ImplStub,
       ImplOverloads, OnceUses, OwnUses, Each, DefinedMethods, DefinedMembers

ImplFirstItems(s) ==
    {Defined(Member(s.name, "destructor")),
     Def(Member(s.name, "descriptor"), OnceUses(s)),
     Def(Member(s.name, "GetDescriptor"), OnceUses(s))}
ImplLastItems(s) ==
    {Def(Member(s.name, "call_method"), {DescriptorVar(s)}),
     Def(Member(s.name, "GetRequestPrototype"), OwnUses(s)),
     Def(Member(s.name, "GetResponsePrototype"), OwnUses(s))}
MethodItems(s)   == {Defined(Method(s.name, o)) : o \in MethodsOf(s)}
StubFixedItems(s) == {Defined(Member(Stub(s), n)) : n \in StubMemberNames}
OverloadItems(s) == {Defined(Method(Stub(s), o)) : o \in OverloadsOf(s)}

\* They are sequences, of these definitions.
LEMMA ImplParts ==
    ASSUME NEW M, NEW s, s.methods \in Seq(M)
    PROVE  /\ IsSequence(ImplFirst(s)) /\ Elements(ImplFirst(s)) = ImplFirstItems(s)
           /\ IsSequence(ImplMethods(s)) /\ Elements(ImplMethods(s)) = MethodItems(s)
           /\ IsSequence(ImplLast(s)) /\ Elements(ImplLast(s)) = ImplLastItems(s)
           /\ IsSequence(ImplStub(s)) /\ Elements(ImplStub(s)) = StubFixedItems(s)
           /\ IsSequence(ImplOverloads(s)) /\ Elements(ImplOverloads(s)) = OverloadItems(s)
<1>1. IsSequence(ImplFirst(s)) /\ Elements(ImplFirst(s)) = ImplFirstItems(s)
  BY ONLY TripleElements DEF ImplFirst, ImplFirstItems
<1>2. IsSequence(ImplLast(s)) /\ Elements(ImplLast(s)) = ImplLastItems(s)
  BY ONLY TripleElements DEF ImplLast, ImplLastItems
<1>3. IsSequence(ImplMethods(s)) /\ Elements(ImplMethods(s)) = MethodItems(s)
  <2> DEFINE q == AllOf(s, InterfaceMethod)
             c == s.name
  <2>1. IsSequence(q) /\ AllOf(s, NotImplemented) = q
    BY ONLY InterfaceOverloads, s.methods \in Seq(M)
  <2> HIDE DEF q
  <2>2. IsSequence(DefinedMethods(c, q))
        /\ Elements(DefinedMethods(c, q)) = {Defined(Method(c, x)) : x \in Elements(q)}
    BY ONLY <2>1, MembersMapped
  <2> QED BY ONLY <2>1, <2>2 DEF ImplMethods, MethodItems, MethodsOf, q
<1>4. IsSequence(ImplStub(s)) /\ Elements(ImplStub(s)) = StubFixedItems(s)
  <2> DEFINE c == Stub(s)
  <2>1. IsSequence(StubMembers) /\ Elements(StubMembers) = StubMemberNames
    BY ONLY TripleElements DEF StubMembers, StubMemberNames
  <2> HIDE DEF c
  <2>2. IsSequence(DefinedMembers(c, StubMembers))
        /\ Elements(DefinedMembers(c, StubMembers)) = {Defined(Member(c, x)) : x \in Elements(StubMembers)}
    BY ONLY <2>1, MembersMapped
  <2> QED BY ONLY <2>1, <2>2 DEF ImplStub, StubFixedItems, c
<1>5. IsSequence(ImplOverloads(s)) /\ Elements(ImplOverloads(s)) = OverloadItems(s)
  <2> DEFINE q == AllOf(s, StubDeclarations)
             c == Stub(s)
  <2>1. IsSequence(q)
    BY ONLY StubOverloads, s.methods \in Seq(M) DEF OverloadPlaces
  <2>2. AllOf(s, StubDefinitions) = q
    BY DEF AllOf, StubDefinitions, StubDeclarations
  <2> HIDE DEF q, c
  <2>3. IsSequence(DefinedMethods(c, q))
        /\ Elements(DefinedMethods(c, q)) = {Defined(Method(c, x)) : x \in Elements(q)}
    BY ONLY <2>1, MembersMapped
  <2> QED BY ONLY <2>2, <2>3 DEF ImplOverloads, OverloadItems, OverloadsOf, q, c
<1> QED BY ONLY <1>1, <1>2, <1>3, <1>4, <1>5

\* All of it.
ImplItems(s) ==
    ImplFirstItems(s) \cup MethodItems(s) \cup ImplLastItems(s) \cup StubFixedItems(s)
    \cup OverloadItems(s)

\* The parts make up a sequence of all these definitions.
LEMMA ImplJoined ==
    ASSUME NEW M, NEW s, s.methods \in Seq(M)
    PROVE  /\ IsJoined(ImplA(s), ImplFirst(s), ImplMethods(s))
           /\ IsJoined(ImplB(s), ImplA(s), ImplLast(s))
           /\ IsJoined(ImplC(s), ImplB(s), ImplStub(s))
           /\ IsJoined(GenerateImplementation(s), ImplC(s), ImplOverloads(s))
           /\ Elements(ImplA(s)) = ImplFirstItems(s) \cup MethodItems(s)
           /\ Elements(ImplB(s)) = ImplFirstItems(s) \cup MethodItems(s) \cup ImplLastItems(s)
           /\ Elements(ImplC(s)) = ImplFirstItems(s) \cup MethodItems(s) \cup ImplLastItems(s)
                                   \cup StubFixedItems(s)
           /\ IsSequence(GenerateImplementation(s))
           /\ Elements(GenerateImplementation(s)) = ImplItems(s)
<1>0. /\ IsSequence(ImplFirst(s)) /\ Elements(ImplFirst(s)) = ImplFirstItems(s)
      /\ IsSequence(ImplMethods(s)) /\ Elements(ImplMethods(s)) = MethodItems(s)
      /\ IsSequence(ImplLast(s)) /\ Elements(ImplLast(s)) = ImplLastItems(s)
      /\ IsSequence(ImplStub(s)) /\ Elements(ImplStub(s)) = StubFixedItems(s)
      /\ IsSequence(ImplOverloads(s)) /\ Elements(ImplOverloads(s)) = OverloadItems(s)
  BY ImplParts
<1>1. IsJoined(ImplA(s), ImplFirst(s), ImplMethods(s))
  BY ONLY <1>0, JoinedElements DEF ImplA
<1>2. IsSequence(ImplA(s)) /\ Elements(ImplA(s)) = Elements(ImplFirst(s)) \cup Elements(ImplMethods(s))
  BY ONLY <1>1 DEF IsJoined
<1>3. IsJoined(ImplB(s), ImplA(s), ImplLast(s))
  BY ONLY <1>0, <1>2, JoinedElements DEF ImplB
<1>4. IsSequence(ImplB(s)) /\ Elements(ImplB(s)) = Elements(ImplA(s)) \cup Elements(ImplLast(s))
  BY ONLY <1>3 DEF IsJoined
<1>5. IsJoined(ImplC(s), ImplB(s), ImplStub(s))
  BY ONLY <1>0, <1>4, JoinedElements DEF ImplC
<1>6. IsSequence(ImplC(s)) /\ Elements(ImplC(s)) = Elements(ImplB(s)) \cup Elements(ImplStub(s))
  BY ONLY <1>5 DEF IsJoined
<1>7. IsJoined(ImplC(s) \o ImplOverloads(s), ImplC(s), ImplOverloads(s))
  BY ONLY <1>0, <1>6, JoinedElements
<1>8. IsJoined(GenerateImplementation(s), ImplC(s), ImplOverloads(s))
  BY ONLY <1>7, ImplementationIs
<1>9. IsSequence(GenerateImplementation(s))
      /\ Elements(GenerateImplementation(s)) = Elements(ImplC(s)) \cup Elements(ImplOverloads(s))
  BY ONLY <1>8 DEF IsJoined
<1>10. Elements(GenerateImplementation(s)) = ImplItems(s)
  BY ONLY <1>0, <1>2, <1>4, <1>6, <1>9 DEF ImplItems
<1> QED BY ONLY <1>0, <1>1, <1>2, <1>3, <1>4, <1>5, <1>6, <1>8, <1>9, <1>10

\* What the definitions of a service are, and what they use.
IsMemberOf(x, c, tag) ==
    x.op = "define" /\ x.name[1] = "member" /\ x.name[2] = c /\ x.name[3][1] = tag

\* The class, the kind and the uses of the definition of a member.
LEMMA MemberFacts ==
    ASSUME NEW c, NEW n, NEW u
    PROVE  /\ IsMemberOf(Defined(Member(c, n)), c, "fixed") /\ Defined(Member(c, n)).uses = {}
           /\ Defined(Member(c, n)).name = Member(c, n)
           /\ IsMemberOf(Def(Member(c, n), u), c, "fixed") /\ Def(Member(c, n), u).uses = u
           /\ Def(Member(c, n), u).name = Member(c, n)
           /\ IsMemberOf(Defined(Method(c, n)), c, "overload") /\ Defined(Method(c, n)).uses = {}
           /\ Defined(Method(c, n)).name = Method(c, n)
<1> DEFINE a == Member(c, n)
           b == Method(c, n)
<1>1. /\ a[1] = "member" /\ a[2] = c /\ a[3][1] = "fixed"
      /\ b[1] = "member" /\ b[2] = c /\ b[3][1] = "overload"
  BY ONLY NameParts
<1> HIDE DEF a, b
<1>2. Defined(a).op = "define" /\ Defined(a).name = a /\ Defined(a).uses = {}
  BY DEF Defined, Def
<1>3. Def(a, u).op = "define" /\ Def(a, u).name = a /\ Def(a, u).uses = u
  BY DEF Def
<1>4. Defined(b).op = "define" /\ Defined(b).name = b /\ Defined(b).uses = {}
  BY DEF Defined, Def
<1> QED BY ONLY <1>1, <1>2, <1>3, <1>4 DEF IsMemberOf, a, b

ImplUses(s) == OnceUses(s) \cup OwnUses(s)

\* The classes, the kinds and the uses of the definitions of a service.
LEMMA ImplFacts ==
    ASSUME NEW s
    PROVE  /\ \A x \in ImplFirstItems(s) \cup ImplLastItems(s) :
                 IsMemberOf(x, s.name, "fixed") /\ x.uses \subseteq ImplUses(s)
           /\ \A x \in MethodItems(s) : IsMemberOf(x, s.name, "overload") /\ x.uses = {}
           /\ \A x \in StubFixedItems(s) : IsMemberOf(x, Stub(s), "fixed") /\ x.uses = {}
           /\ \A x \in OverloadItems(s) : IsMemberOf(x, Stub(s), "overload") /\ x.uses = {}
<1>1. ASSUME NEW x \in ImplFirstItems(s) PROVE IsMemberOf(x, s.name, "fixed") /\ x.uses \subseteq ImplUses(s)
  <2>1. OnceUses(s) \subseteq ImplUses(s) /\ {} \subseteq ImplUses(s)
    BY DEF ImplUses
  <2>2. \/ x = Defined(Member(s.name, "destructor"))
        \/ x = Def(Member(s.name, "descriptor"), OnceUses(s))
        \/ x = Def(Member(s.name, "GetDescriptor"), OnceUses(s))
    BY DEF ImplFirstItems
  <2>3. CASE x = Defined(Member(s.name, "destructor"))
    BY ONLY <2>1, <2>3, MemberFacts
  <2>4. CASE x = Def(Member(s.name, "descriptor"), OnceUses(s))
    BY ONLY <2>1, <2>4, MemberFacts
  <2>5. CASE x = Def(Member(s.name, "GetDescriptor"), OnceUses(s))
    BY ONLY <2>1, <2>5, MemberFacts
  <2> QED BY ONLY <2>2, <2>3, <2>4, <2>5
<1>2. ASSUME NEW x \in ImplLastItems(s) PROVE IsMemberOf(x, s.name, "fixed") /\ x.uses \subseteq ImplUses(s)
  <2>1. OwnUses(s) \subseteq ImplUses(s) /\ {DescriptorVar(s)} \subseteq ImplUses(s)
    BY DEF ImplUses, OnceUses
  <2>2. \/ x = Def(Member(s.name, "call_method"), {DescriptorVar(s)})
        \/ x = Def(Member(s.name, "GetRequestPrototype"), OwnUses(s))
        \/ x = Def(Member(s.name, "GetResponsePrototype"), OwnUses(s))
    BY DEF ImplLastItems
  <2>3. CASE x = Def(Member(s.name, "call_method"), {DescriptorVar(s)})
    BY ONLY <2>1, <2>3, MemberFacts
  <2>4. CASE x = Def(Member(s.name, "GetRequestPrototype"), OwnUses(s))
    BY ONLY <2>1, <2>4, MemberFacts
  <2>5. CASE x = Def(Member(s.name, "GetResponsePrototype"), OwnUses(s))
    BY ONLY <2>1, <2>5, MemberFacts
  <2> QED BY ONLY <2>2, <2>3, <2>4, <2>5
<1>3. ASSUME NEW x \in MethodItems(s) PROVE IsMemberOf(x, s.name, "overload") /\ x.uses = {}
  <2>1. PICK o \in MethodsOf(s) : x = Defined(Method(s.name, o))
    BY DEF MethodItems
  <2> QED BY ONLY <2>1, MemberFacts
<1>4. ASSUME NEW x \in StubFixedItems(s) PROVE IsMemberOf(x, Stub(s), "fixed") /\ x.uses = {}
  <2>1. PICK n \in StubMemberNames : x = Defined(Member(Stub(s), n))
    BY DEF StubFixedItems
  <2> QED BY ONLY <2>1, MemberFacts
<1>5. ASSUME NEW x \in OverloadItems(s) PROVE IsMemberOf(x, Stub(s), "overload") /\ x.uses = {}
  <2>1. PICK o \in OverloadsOf(s) : x = Defined(Method(Stub(s), o))
    BY DEF OverloadItems
  <2> QED BY ONLY <2>1, MemberFacts
<1> QED BY ONLY <1>1, <1>2, <1>3, <1>4, <1>5

\* All of them are members of the two classes.
LEMMA ImplMembers ==
    ASSUME NEW s, NEW x \in ImplItems(s)
    PROVE  /\ x.op = "define" /\ x.name[1] = "member"
           /\ x.name[2] = s.name \/ x.name[2] = Stub(s)
           /\ x.uses \subseteq ImplUses(s)
<1>1. \/ x \in ImplFirstItems(s) \cup ImplLastItems(s) \/ x \in MethodItems(s)
      \/ x \in StubFixedItems(s) \/ x \in OverloadItems(s)
  BY DEF ImplItems
<1>2. \/ IsMemberOf(x, s.name, "fixed") \/ IsMemberOf(x, s.name, "overload")
      \/ IsMemberOf(x, Stub(s), "fixed") \/ IsMemberOf(x, Stub(s), "overload")
  BY ONLY <1>1, ImplFacts
<1>3. x.uses \subseteq ImplUses(s)
  BY ONLY <1>1, ImplFacts
<1> QED BY ONLY <1>2, <1>3 DEF IsMemberOf

\* Their names differ, unless overloads are the same.
LEMMA ImplApart ==
    ASSUME NEW M, NEW P, NEW s, AreMethods(s, M, P), s.name # Stub(s), ~AsyncClash(s)
    PROVE  Apart(GenerateImplementation(s))
<1>0. s.methods \in Seq(M) /\ DifferentMethods(s.methods)
  BY DEF AreMethods
<1>1. /\ IsJoined(ImplA(s), ImplFirst(s), ImplMethods(s))
      /\ IsJoined(ImplB(s), ImplA(s), ImplLast(s))
      /\ IsJoined(ImplC(s), ImplB(s), ImplStub(s))
      /\ IsJoined(GenerateImplementation(s), ImplC(s), ImplOverloads(s))
      /\ Elements(ImplA(s)) = ImplFirstItems(s) \cup MethodItems(s)
      /\ Elements(ImplB(s)) = ImplFirstItems(s) \cup MethodItems(s) \cup ImplLastItems(s)
      /\ Elements(ImplC(s)) = ImplFirstItems(s) \cup MethodItems(s) \cup ImplLastItems(s)
                              \cup StubFixedItems(s)
  BY ONLY <1>0, ImplJoined
<1>2. /\ Elements(ImplFirst(s)) = ImplFirstItems(s) /\ Elements(ImplMethods(s)) = MethodItems(s)
      /\ Elements(ImplLast(s)) = ImplLastItems(s) /\ Elements(ImplStub(s)) = StubFixedItems(s)
      /\ Elements(ImplOverloads(s)) = OverloadItems(s)
  BY ONLY <1>0, ImplParts
<1>3. /\ \A x \in ImplFirstItems(s) \cup ImplLastItems(s) : IsMemberOf(x, s.name, "fixed")
      /\ \A x \in MethodItems(s) : IsMemberOf(x, s.name, "overload")
      /\ \A x \in StubFixedItems(s) : IsMemberOf(x, Stub(s), "fixed")
      /\ \A x \in OverloadItems(s) : IsMemberOf(x, Stub(s), "overload")
  BY ONLY ImplFacts
<1>4. \A c, m, n : Member(c, m) = Member(c, n) => m = n
  BY ONLY NameParts
<1>5. Apart(ImplFirst(s)) /\ Apart(ImplLast(s))
  <2>1. ASSUME NEW n, NEW u PROVE Def(n, u).name = n /\ Defined(n).name = n
    BY DEF Def, Defined
  <2> DEFINE c == s.name
             a1 == Defined(Member(c, "destructor"))
             a2 == Def(Member(c, "descriptor"), OnceUses(s))
             a3 == Def(Member(c, "GetDescriptor"), OnceUses(s))
             b1 == Def(Member(c, "call_method"), {DescriptorVar(s)})
             b2 == Def(Member(c, "GetRequestPrototype"), OwnUses(s))
             b3 == Def(Member(c, "GetResponsePrototype"), OwnUses(s))
  <2>2. /\ a1.name = Member(c, "destructor") /\ a2.name = Member(c, "descriptor")
        /\ a3.name = Member(c, "GetDescriptor") /\ b1.name = Member(c, "call_method")
        /\ b2.name = Member(c, "GetRequestPrototype") /\ b3.name = Member(c, "GetResponsePrototype")
    BY <2>1
  <2> HIDE DEF a1, a2, a3, b1, b2, b3
  <2>3. /\ a1.name # a2.name /\ a1.name # a3.name /\ a2.name # a3.name
        /\ b1.name # b2.name /\ b1.name # b3.name /\ b2.name # b3.name
    BY ONLY <1>4, <2>2
  <2>4. Apart(<<a1, a2, a3>>) /\ Apart(<<b1, b2, b3>>)
    BY ONLY <2>3, ApartThree
  <2> QED BY ONLY <2>4 DEF ImplFirst, ImplLast, a1, a2, a3, b1, b2, b3
<1>6. Apart(ImplStub(s))
  <2> DEFINE c == Stub(s)
             a1 == Defined(Member(c, "connection constructor"))
             a2 == Defined(Member(c, "endpoint constructor"))
             a3 == Defined(Member(c, "destructor"))
  <2>1. ASSUME NEW n PROVE Defined(n).name = n
    BY DEF Def, Defined
  <2>2. /\ a1.name = Member(c, "connection constructor") /\ a2.name = Member(c, "endpoint constructor")
        /\ a3.name = Member(c, "destructor")
    BY <2>1
  <2>3. ImplStub(s) = <<a1, a2, a3>>
    <3>1. DOMAIN StubMembers = {1, 2, 3} /\ StubMembers[1] = "connection constructor"
          /\ StubMembers[2] = "endpoint constructor" /\ StubMembers[3] = "destructor"
      <4>1. StubMembers = <<"connection constructor", "endpoint constructor", "destructor">>
        BY DEF StubMembers
      <4>2. Len(StubMembers) = 3 /\ StubMembers[1] = "connection constructor"
            /\ StubMembers[2] = "endpoint constructor" /\ StubMembers[3] = "destructor"
            /\ IsSequence(StubMembers)
        BY ONLY <4>1, ShortSequences
      <4>3. DOMAIN StubMembers = 1 .. 3
        BY ONLY <4>2, AnySequence DEF IsSequence
      <4>4. 1 .. 3 = {1, 2, 3}
        OBVIOUS
      <4> QED BY ONLY <4>2, <4>3, <4>4
    <3>2. ImplStub(s) = [i \in {1, 2, 3} |-> Defined(Member(c, StubMembers[i]))]
      BY <3>1 DEF ImplStub, DefinedMembers
    <3> DEFINE t == <<a1, a2, a3>>
    <3>3. t = [i \in {1, 2, 3} |-> Defined(Member(c, StubMembers[i]))]
      <4>1. t[1] = a1 /\ t[2] = a2 /\ t[3] = a3 /\ IsSequence(t) /\ Len(t) = 3
        BY ONLY ShortSequences
      <4> HIDE DEF t
      <4>2. DOMAIN t = 1 .. 3 /\ t \in Seq(Elements(t))
        BY ONLY <4>1, AnySequence DEF IsSequence
      <4>3. 1 .. 3 = {1, 2, 3}
        OBVIOUS
      <4>4. t = [i \in {1, 2, 3} |-> t[i]]
        BY ONLY <4>2, <4>3
      <4>5. \A i \in {1, 2, 3} : t[i] = Defined(Member(c, StubMembers[i]))
        BY ONLY <3>1, <4>1 DEF a1, a2, a3
      <4> QED BY ONLY <4>4, <4>5
    <3> QED BY ONLY <3>2, <3>3
  <2> HIDE DEF a1, a2, a3
  <2>4. a1.name # a2.name /\ a1.name # a3.name /\ a2.name # a3.name
    BY ONLY <1>4, <2>2
  <2> QED BY ONLY <2>3, <2>4, ApartThree
<1>7. Apart(ImplMethods(s))
  <2> DEFINE q == AllOf(s, InterfaceMethod)
             ms == s.methods
  <2>1. /\ IsSequence(q) /\ AllOf(s, NotImplemented) = q /\ Len(q) = Len(ms)
        /\ \A k \in 1 .. Len(q) : q[k] = InterfaceOverload(ms[k])
    BY ONLY <1>0, InterfaceOverloads
  <2> HIDE DEF q
  <2>2. \A m : InterfaceOverload(m).name = m.name
    BY DEF InterfaceOverload, Overload
  <2>3. \A k, l \in 1 .. Len(ms) : k # l => ms[k].name # ms[l].name
    BY <1>0 DEF DifferentMethods
  <2> HIDE DEF ms
  <2>4. \A k, l \in 1 .. Len(q) : q[k] = q[l] => k = l
    BY ONLY <2>1, <2>2, <2>3
  <2>5. Apart(DefinedMethods(s.name, q))
    BY ONLY <2>1, <2>4, ApartMethods
  <2> QED BY ONLY <2>1, <2>5 DEF ImplMethods
<1>8. Apart(ImplOverloads(s))
  <2> DEFINE q == AllOf(s, StubDeclarations)
             n == Len(s.methods)
  <2>1. AllOf(s, StubDefinitions) = q
    BY DEF AllOf, StubDefinitions, StubDeclarations
  <2>2. /\ n \in Nat /\ IsSequence(q) /\ Len(q) = 4 * n
        /\ \A i \in 1 .. n : \A a \in 1 .. 4 : q[4 * i - 4 + a] = Kind(s.methods[i], a)
        /\ \A k \in 1 .. 4 * n : \E i \in 1 .. n : \E a \in 1 .. 4 : k = 4 * i - 4 + a
    <3>1. OverloadPlaces(q, AllOf(s, StubInline), s.methods)
      BY ONLY <1>0, StubOverloads
    <3> HIDE DEF q
    <3> QED BY ONLY <3>1 DEF OverloadPlaces, n
  <2> HIDE DEF q
  <2>3. ASSUME NEW k \in 1 .. Len(q), NEW l \in 1 .. Len(q), q[k] = q[l] PROVE k = l
    <3>1. PICK i \in 1 .. n : \E a \in 1 .. 4 : k = 4 * i - 4 + a
      BY <2>2
    <3>2. PICK a \in 1 .. 4 : k = 4 * i - 4 + a
      BY <3>1
    <3>3. PICK j \in 1 .. n : \E b \in 1 .. 4 : l = 4 * j - 4 + b
      BY <2>2
    <3>4. PICK b \in 1 .. 4 : l = 4 * j - 4 + b
      BY <3>3
    <3>5. Kind(s.methods[i], a) = Kind(s.methods[j], b)
      BY ONLY <2>2, <2>3, <3>2, <3>4, i \in 1 .. n, j \in 1 .. n, a \in 1 .. 4, b \in 1 .. 4, ZenonT(60)
    <3>6. a \in 1 .. 8 /\ b \in 1 .. 8
      OBVIOUS
    <3>7. a = b /\ i = j
      BY ONLY <3>5, <3>6, SameOverload, AreMethods(s, M, P), ~AsyncClash(s), i \in 1 .. n, j \in 1 .. n, SMTT(30)
    <3> QED BY ONLY <3>2, <3>4, <3>7
  <2>4. \A k, l \in 1 .. Len(q) : q[k] = q[l] => k = l
    BY ONLY <2>3
  <2>5. Apart(DefinedMethods(Stub(s), q))
    BY ONLY <2>2, <2>4, ApartMethods
  <2> QED BY ONLY <2>1, <2>5 DEF ImplOverloads
<1>9. Apart(ImplA(s))
  <2>1. Disjoint(ImplFirst(s), ImplMethods(s))
    BY ONLY <1>2, <1>3 DEF Disjoint, IsMemberOf
  <2> QED BY ONLY <1>1, <1>5, <1>7, <2>1, ApartJoined
<1>10. Apart(ImplB(s))
  <2>1. ASSUME NEW x \in ImplFirstItems(s), NEW y \in ImplLastItems(s) PROVE x.name # y.name
    <3>0. ASSUME NEW n, NEW u
          PROVE  Def(Member(s.name, n), u).name[3][2] = n /\ Defined(Member(s.name, n)).name[3][2] = n
      <4>1. Def(Member(s.name, n), u).name = Member(s.name, n)
            /\ Defined(Member(s.name, n)).name = Member(s.name, n)
        BY ONLY MemberFacts
      <4> QED BY ONLY <4>1, NameParts
    <3>1. x.name[3][2] \in {"destructor", "descriptor", "GetDescriptor"}
      <4>1. \/ x = Defined(Member(s.name, "destructor"))
            \/ x = Def(Member(s.name, "descriptor"), OnceUses(s))
            \/ x = Def(Member(s.name, "GetDescriptor"), OnceUses(s))
        BY DEF ImplFirstItems
      <4> QED BY ONLY <3>0, <4>1
    <3>2. y.name[3][2] \in {"call_method", "GetRequestPrototype", "GetResponsePrototype"}
      <4>1. \/ y = Def(Member(s.name, "call_method"), {DescriptorVar(s)})
            \/ y = Def(Member(s.name, "GetRequestPrototype"), OwnUses(s))
            \/ y = Def(Member(s.name, "GetResponsePrototype"), OwnUses(s))
        BY DEF ImplLastItems
      <4> QED BY ONLY <3>0, <4>1
    <3> QED BY ONLY <3>1, <3>2
  <2>2. Disjoint(ImplA(s), ImplLast(s))
    BY ONLY <1>1, <1>2, <1>3, <2>1 DEF Disjoint, IsMemberOf
  <2> QED BY ONLY <1>1, <1>5, <1>9, <2>2, ApartJoined
<1>11. Apart(ImplC(s))
  <2>1. Disjoint(ImplB(s), ImplStub(s))
    BY ONLY <1>1, <1>2, <1>3, s.name # Stub(s) DEF Disjoint, IsMemberOf
  <2> QED BY ONLY <1>1, <1>6, <1>10, <2>1, ApartJoined
<1>12. Disjoint(ImplC(s), ImplOverloads(s))
  BY ONLY <1>1, <1>2, <1>3, s.name # Stub(s) DEF Disjoint, IsMemberOf
<1> QED BY ONLY <1>1, <1>8, <1>11, <1>12, ApartJoined

\* With a clash, an overload of the stub is defined twice.
LEMMA ImplTwice ==
    ASSUME NEW M, NEW s, s.methods \in Seq(M), AsyncClash(s)
    PROVE  \E o \in OverloadsOf(s) : Twice(GenerateImplementation(s), Method(Stub(s), o))
<1> DEFINE q == AllOf(s, StubDeclarations)
           ms == s.methods
           n == Len(ms)
           c == Stub(s)
           e == DefinedMethods(c, q)
<1>1. AllOf(s, StubDefinitions) = q
  BY DEF AllOf, StubDefinitions, StubDeclarations
<1>2. /\ n \in Nat /\ IsSequence(q) /\ Len(q) = 4 * n
      /\ \A i \in 1 .. n : \A a \in 1 .. 4 :
            4 * i - 4 + a \in 1 .. Len(q) /\ q[4 * i - 4 + a] = Kind(s.methods[i], a)
  <2>1. OverloadPlaces(q, AllOf(s, StubInline), ms)
    BY ONLY s.methods \in Seq(M), StubOverloads
  <2> HIDE DEF q, ms
  <2>2. /\ n \in Nat /\ IsSequence(q) /\ Len(q) = 4 * n
        /\ \A i \in 1 .. n : \A a \in 1 .. 4 :
              4 * i - 4 + a \in 1 .. Len(q) /\ q[4 * i - 4 + a] = Kind(ms[i], a)
    BY ONLY <2>1 DEF OverloadPlaces, n
  <2> QED BY ONLY <2>2 DEF ms
<1>3. PICK i, j \in DOMAIN ms : ms[i].name = Async(ms[j].name) /\ ms[i].in = ms[j].in
  BY DEF AsyncClash
<1>4. i \in 1 .. n /\ j \in 1 .. n /\ DOMAIN ms = 1 .. n
  OBVIOUS
<1> DEFINE o == Kind(ms[i], 4)
           k == 4 * i - 4 + 4
           l == 4 * j - 4 + 2
<1>5. o = Kind(ms[j], 2)
  BY ONLY <1>3, ClashingKinds
<1>6. 4 \in 1 .. 4 /\ 2 \in 1 .. 4 /\ k # l
  BY <1>4
<1>7. k \in 1 .. Len(q) /\ l \in 1 .. Len(q) /\ q[k] = o /\ q[l] = o
  BY ONLY <1>2, <1>4, <1>5, <1>6
<1> HIDE DEF k, l, o, q, c
<1>8. o \in OverloadsOf(s)
  BY <1>7 DEF OverloadsOf, Elements, q
<1>9. DOMAIN e = 1 .. Len(q) /\ DOMAIN q = 1 .. Len(q) /\ IsSequence(e)
  BY ONLY <1>2, MembersMapped
<1>10. Len(e) \in Nat /\ DOMAIN e = 1 .. Len(e)
  BY ONLY <1>9, AnySequence DEF IsSequence
<1>11. e[k] = Defined(Method(c, o)) /\ e[l] = Defined(Method(c, o))
  BY ONLY <1>7, <1>9 DEF DefinedMethods
<1> HIDE DEF e
<1>12. k \in 1 .. Len(e) /\ l \in 1 .. Len(e)
  BY ONLY <1>7, <1>9, <1>10
<1>13. e[k].op = "define" /\ e[k].name = Method(c, o) /\ e[l].op = "define" /\ e[l].name = Method(c, o)
  BY ONLY <1>11 DEF Defined, Def
<1>14. Twice(e, Method(c, o))
  BY ONLY <1>6, <1>12, <1>13 DEF Twice, DefinesAt
<1>15. IsJoined(GenerateImplementation(s), ImplC(s), ImplOverloads(s))
  BY ONLY s.methods \in Seq(M), ImplJoined
<1>16. ImplOverloads(s) = e
  BY <1>1 DEF ImplOverloads, e, c
<1>17. Twice(GenerateImplementation(s), Method(c, o))
  BY ONLY <1>14, <1>15, <1>16, TwiceJoined
<1> QED BY ONLY <1>8, <1>17 DEF c

\* The implementations of all services.
LEMMA ImplementationsOf ==
    ASSUME NEW X, NEW M, NEW P, NEW f, Services(f, X, M, P)
    PROVE  LET n == Len(f.services)
               all == EachService(f, GenerateImplementation)
           IN /\ IsSequence(all)
              /\ Elements(all) = UNION {ImplItems(f.services[j]) : j \in 1 .. n}
              /\ (\A j \in 1 .. n : ~AsyncClash(f.services[j])) => Apart(all)
              /\ \A j \in 1 .. n : AsyncClash(f.services[j]) =>
                    \E o \in OverloadsOf(f.services[j]) : Twice(all, Method(Stub(f.services[j]), o))
<1> DEFINE n == Len(f.services)
           all == EachService(f, GenerateImplementation)
           b(j) == GenerateImplementation(f.services[j])
           T == {b(j) : j \in 1 .. n}
           seqs == [j \in 1 .. n |-> b(j)]
<1>1. n \in Nat /\ DOMAIN f.services = 1 .. n
      /\ \A j \in 1 .. n : AreMethods(f.services[j], M, P) /\ f.services[j].methods \in Seq(M)
  BY EachOf
<1>2. all = FlattenSeq(seqs)
  BY <1>1 DEF EachService, Each
<1>3. \A j \in 1 .. n : b(j) \in T
  OBVIOUS
<1>4. ASSUME NEW j \in 1 .. n PROVE IsSequence(b(j)) /\ Elements(b(j)) = ImplItems(f.services[j])
  BY <1>1, ImplJoined
<1>5. \A i, j \in 1 .. n : /\ i # j => f.services[i].name # f.services[j].name
                           /\ f.services[i].name # Stub(f.services[j])
  BY DEF Services
<1> HIDE DEF b, T
<1>6. seqs \in Seq(T) /\ Len(seqs) = n /\ \A j \in 1 .. n : seqs[j] = b(j)
  BY <1>1, <1>3
<1> HIDE DEF seqs, n, all
<1>7. \A j \in 1 .. Len(seqs) : IsSequence(seqs[j])
  BY ONLY <1>4, <1>6
<1>8. IsSequence(all) /\ Elements(all) = UNION {Elements(seqs[j]) : j \in 1 .. Len(seqs)}
  BY ONLY <1>2, <1>6, <1>7, FlattenedElements
<1>9. Elements(all) = UNION {ImplItems(f.services[j]) : j \in 1 .. n}
  BY ONLY <1>4, <1>6, <1>8
<1>10. ASSUME NEW i \in 1 .. n, NEW j \in 1 .. n, i # j PROVE Disjoint(seqs[i], seqs[j])
  <2> DEFINE s == f.services[i]
             r == f.services[j]
  <2>1. Elements(seqs[i]) = ImplItems(s) /\ Elements(seqs[j]) = ImplItems(r)
    BY <1>4, <1>6
  <2>2. s.name # r.name /\ s.name # Stub(r) /\ r.name # Stub(s)
    BY <1>5, <1>10
  <2>3. Stub(s) # Stub(r)
    <3>1. Stub(s)[1] = s.name /\ Stub(r)[1] = r.name
      BY DEF Stub
    <3> QED BY ONLY <2>2, <3>1
  <2> HIDE DEF s, r
  <2>4. \A x \in ImplItems(s) : x.name[2] = s.name \/ x.name[2] = Stub(s)
    BY ONLY ImplMembers
  <2>5. \A x \in ImplItems(r) : x.name[2] = r.name \/ x.name[2] = Stub(r)
    BY ONLY ImplMembers
  <2> QED BY ONLY <2>1, <2>2, <2>3, <2>4, <2>5 DEF Disjoint
<1>11. ASSUME \A j \in 1 .. n : ~AsyncClash(f.services[j]) PROVE Apart(all)
  <2>1. ASSUME NEW j \in 1 .. Len(seqs) PROVE IsSequence(seqs[j]) /\ Apart(seqs[j])
    <3> DEFINE s == f.services[j]
    <3>1. AreMethods(s, M, P) /\ s.name # Stub(s) /\ ~AsyncClash(s)
      BY <1>1, <1>5, <1>6, <1>11
    <3> HIDE DEF s
    <3>2. Apart(GenerateImplementation(s))
      BY ONLY <3>1, ImplApart
    <3> QED BY <1>6, <1>7, <3>2 DEF s, b
  <2>2. \A i, j \in 1 .. Len(seqs) : i # j => Disjoint(seqs[i], seqs[j])
    BY ONLY <1>6, <1>10
  <2> QED BY ONLY <1>2, <1>6, <2>1, <2>2, ApartFlattened
<1>12. ASSUME NEW j \in 1 .. n, AsyncClash(f.services[j])
       PROVE  \E o \in OverloadsOf(f.services[j]) : Twice(all, Method(Stub(f.services[j]), o))
  <2> DEFINE s == f.services[j]
  <2>1. s.methods \in Seq(M) /\ AsyncClash(s)
    BY <1>1, <1>12
  <2> HIDE DEF s
  <2>2. PICK o \in OverloadsOf(s) : Twice(GenerateImplementation(s), Method(Stub(s), o))
    BY ONLY <2>1, ImplTwice
  <2>3. Twice(seqs[j], Method(Stub(s), o)) /\ j \in 1 .. Len(seqs)
    BY <1>6, <2>2 DEF b, s
  <2>4. Twice(all, Method(Stub(s), o))
    BY ONLY <1>2, <1>6, <1>7, <2>3, TwiceFlattened
  <2> QED BY <2>4 DEF s
<1> QED BY ONLY <1>8, <1>9, <1>11, <1>12 DEF n, all

\* The variables.
Variables(f) == [i \in DOMAIN f.services |-> Defined(DescriptorVar(f.services[i]))]

\* GenerateSource() defines one variable for every service, and none twice.
LEMMA VariablesOf ==
    ASSUME NEW X, NEW M, NEW P, NEW f, Services(f, X, M, P)
    PROVE  /\ IsSequence(Variables(f)) /\ Apart(Variables(f))
           /\ Elements(Variables(f)) =
                 {Defined(DescriptorVar(f.services[j])) : j \in 1 .. Len(f.services)}
<1> DEFINE n == Len(f.services)
           v == Variables(f)
<1>1. n \in Nat /\ DOMAIN f.services = 1 .. n
  BY EachOf
<1>2. DOMAIN v = 1 .. n /\ v = [k \in 1 .. n |-> v[k]]
      /\ \A k \in 1 .. n : v[k] = Defined(DescriptorVar(f.services[k]))
  BY <1>1 DEF Variables
<1> HIDE DEF v
<1>3. IsSequence(v) /\ Len(v) = n /\ Elements(v) = {v[k] : k \in 1 .. n}
  BY ONLY <1>1, <1>2, FunctionIsSequence
<1>4. \A i, j \in 1 .. n : i # j => f.services[i].name # f.services[j].name
  BY DEF Services
<1>5. \A k \in 1 .. n : v[k].name[2] = f.services[k].name
  <2> TAKE k \in 1 .. n
  <2> DEFINE x == DescriptorVar(f.services[k])
  <2>1. Defined(x).name = x
    BY ONLY DEF Defined, Def
  <2>2. x[2] = f.services[k].name
    BY ONLY DEF DescriptorVar
  <2> QED BY ONLY <1>2, <2>1, <2>2, k \in 1 .. n
<1>6. Apart(v)
  <2> SUFFICES ASSUME NEW k \in 1 .. n, NEW l \in 1 .. n, NEW x, DefinesAt(v, k, x), DefinesAt(v, l, x)
               PROVE  k = l
    BY <1>3 DEF Apart
  <2>1. v[k].name = v[l].name
    BY DEF DefinesAt
  <2> QED BY ONLY <1>4, <1>5, <2>1, k \in 1 .. n, l \in 1 .. n
<1>7. Elements(v) = {Defined(DescriptorVar(f.services[j])) : j \in 1 .. n}
  BY ONLY <1>2, <1>3
<1> QED BY ONLY <1>3, <1>6, <1>7 DEF v, n

\* The fields of definitions.
LEMMA DefFields ==
    ASSUME NEW n, NEW u
    PROVE  Def(n, u).op = "define" /\ Def(n, u).name = n /\ Def(n, u).uses = u
BY DEF Def

\* The same for a definition that uses nothing.
LEMMA DefinedFields ==
    ASSUME NEW n
    PROVE  Defined(n).op = "define" /\ Defined(n).name = n /\ Defined(n).uses = {}
BY DEF Defined, Def

\* The functions that set the variables and register the descriptors.
AddItems(f) ==
    {Defined(Shutdown(f)),
     Def(AddOf(f), {AddOfDependency(d) : d \in f.deps} \cup {Shutdown(f)}
                   \cup (IF HasDescriptorMethods(f) THEN {RegisterTypes} ELSE {}))}
AssignItems(f) ==
    {Def(Assign(f), {DescriptorVar(f.services[i]) : i \in DOMAIN f.services}),
     Def(AssignDescriptorsOnce, {Assign(f)}),
     Def(RegisterTypes, {AssignDescriptorsOnce})}

\* The names of the functions differ from each other and from those of variables
\* and members.
LEMMA GlobalNames ==
    ASSUME NEW f
    PROVE  /\ Assign(f)[1] = "function" /\ Shutdown(f)[1] = "function" /\ AddOf(f)[1] = "function"
           /\ AssignDescriptorsOnce[1] = "helper" /\ RegisterTypes[1] = "helper"
           /\ Assign(f) # Shutdown(f) /\ Assign(f) # AddOf(f) /\ Shutdown(f) # AddOf(f)
           /\ AssignDescriptorsOnce # RegisterTypes
<1> DEFINE a == GlobalAssignDescriptorsName(f.name)
           b == GlobalShutdownFileName(f.name)
           c == GlobalAddDescriptorsName(f.name)
<1>1. /\ a[1] = "protobuf_AssignDesc_" /\ b[1] = "protobuf_ShutdownFile_"
      /\ c[1] = "protobuf_AddDesc_"
  BY DEF GlobalAssignDescriptorsName, GlobalShutdownFileName, GlobalAddDescriptorsName
<1> HIDE DEF a, b, c
<1> DEFINE x == <<"rpcz_", a>>
           y == <<"rpcz_", b>>
           z == <<"rpcz_", c>>
<1>2. x[2] = a /\ y[2] = b /\ z[2] = c
  OBVIOUS
<1>3. Assign(f) = <<"function", x>> /\ Shutdown(f) = <<"function", y>> /\ AddOf(f) = <<"function", z>>
  BY DEF Assign, Shutdown, AddOf, Function, a, b, c
<1> HIDE DEF x, y, z
<1>4. /\ Assign(f)[1] = "function" /\ Assign(f)[2] = x
      /\ Shutdown(f)[1] = "function" /\ Shutdown(f)[2] = y
      /\ AddOf(f)[1] = "function" /\ AddOf(f)[2] = z
  BY <1>3
<1>5. /\ AssignDescriptorsOnce[1] = "helper" /\ RegisterTypes[1] = "helper"
      /\ AssignDescriptorsOnce[2] = "protobuf_AssignDescriptorsOnce"
      /\ RegisterTypes[2] = "protobuf_RegisterTypes"
  BY DEF AssignDescriptorsOnce, RegisterTypes
<1> QED BY ONLY <1>1, <1>2, <1>4, <1>5

\* Two definitions with different names.
LEMMA ApartTwo ==
    ASSUME NEW a, NEW b, a.name # b.name
    PROVE  Apart(<<a, b>>)
<1> DEFINE t == <<a, b>>
<1>1. Len(t) = 2 /\ t[1] = a /\ t[2] = b
  BY ONLY ShortSequences
<1> HIDE DEF t
<1>2. \A k \in 1 .. Len(t) : k = 1 \/ k = 2
  BY <1>1
<1>3. Apart(t)
  BY <1>1, <1>2 DEF Apart, DefinesAt
<1> QED BY <1>3 DEF t

\* The functions of the shutdown and of the descriptor pool.
LEMMA AddPart ==
    ASSUME NEW f
    PROVE  LET t == AddDescriptors(f) IN
           /\ IsSequence(t) /\ Apart(t) /\ Elements(t) = AddItems(f)
           /\ Names(t) = {Shutdown(f), AddOf(f)}
<1> DEFINE u == {AddOfDependency(d) : d \in f.deps} \cup {Shutdown(f)}
                \cup (IF HasDescriptorMethods(f) THEN {RegisterTypes} ELSE {})
           a == Defined(Shutdown(f))
           b == Def(AddOf(f), u)
<1>1. AddDescriptors(f) = <<a, b>> /\ AddItems(f) = {a, b}
  BY DEF AddDescriptors, AddItems
<1> HIDE DEF u
<1>2. a.name = Shutdown(f) /\ b.name = AddOf(f)
  BY DefFields, DefinedFields
<1> HIDE DEF a, b
<1>3. a.name # b.name
  BY ONLY <1>2, GlobalNames
<1>4. IsSequence(<<a, b>>) /\ Elements(<<a, b>>) = {a, b}
  BY ONLY PairElements
<1>5. Apart(<<a, b>>)
  BY ONLY <1>3, ApartTwo
<1>6. {x.name : x \in {a, b}} = {Shutdown(f), AddOf(f)}
  BY ONLY <1>2
<1> QED BY ONLY <1>1, <1>4, <1>5, <1>6 DEF Names

\* The functions that set the variables: each uses what comes before.
LEMMA AssignPart ==
    ASSUME NEW f, NEW known, Assign(f) \in known,
           \A i \in DOMAIN f.services : DescriptorVar(f.services[i]) \in known
    PROVE  LET t == AssignDescriptors(f) IN
           /\ IsSequence(t) /\ Apart(t) /\ Elements(t) = AssignItems(f)
           /\ Names(t) = {Assign(f), AssignDescriptorsOnce, RegisterTypes}
           /\ UsesFit(t, known)
<1> DEFINE u == {DescriptorVar(f.services[i]) : i \in DOMAIN f.services}
           a == Def(Assign(f), u)
           b == Def(AssignDescriptorsOnce, {Assign(f)})
           c == Def(RegisterTypes, {AssignDescriptorsOnce})
           t == <<a, b, c>>
<1>1. AssignDescriptors(f) = t /\ AssignItems(f) = {a, b, c}
  BY DEF AssignDescriptors, AssignItems
<1>2. u \subseteq known
  OBVIOUS
<1> HIDE DEF u
<1>3. /\ a.name = Assign(f) /\ b.name = AssignDescriptorsOnce /\ c.name = RegisterTypes
      /\ a.uses = u /\ b.uses = {Assign(f)} /\ c.uses = {AssignDescriptorsOnce}
  BY ONLY DefFields, DefinedFields
<1> HIDE DEF a, b, c
<1>4. a.name # b.name /\ a.name # c.name /\ b.name # c.name
  BY ONLY <1>3, GlobalNames
<1>5. IsSequence(t) /\ Elements(t) = {a, b, c}
  BY ONLY TripleElements
<1>6. Apart(t)
  BY ONLY <1>4, ApartThree
<1>7. {x.name : x \in {a, b, c}} = {Assign(f), AssignDescriptorsOnce, RegisterTypes}
  BY ONLY <1>3
<1>8. UsesFit(t, known)
  <2>1. Len(t) = 3 /\ t[1] = a /\ t[2] = b /\ t[3] = c
    BY ONLY ShortSequences
  <2> HIDE DEF t
  <2> SUFFICES ASSUME NEW i \in 1 .. Len(t)
               PROVE  t[i].uses \subseteq {t[k].name : k \in 1 .. i - 1} \cup known
    BY DEF UsesFit
  <2>2. i = 1 \/ i = 2 \/ i = 3
    BY <2>1
  <2>3. CASE i = 1
    BY ONLY <1>2, <1>3, <2>1, <2>3
  <2>4. CASE i = 2
    BY ONLY <1>3, <2>1, <2>4, Assign(f) \in known
  <2>5. CASE i = 3
    <3>1. 2 \in 1 .. i - 1
      BY <2>5
    <3>2. AssignDescriptorsOnce \in {t[k].name : k \in 1 .. i - 1}
      BY ONLY <1>3, <2>1, <3>1
    <3> QED BY ONLY <1>3, <2>1, <2>5, <3>2
  <2> QED BY ONLY <2>2, <2>3, <2>4, <2>5
<1> QED BY ONLY <1>1, <1>5, <1>6, <1>7, <1>8 DEF Names

\* All of them.
LEMMA BuildPart ==
    ASSUME NEW f, NEW known, Assign(f) \in known, Shutdown(f) \in known,
           \A i \in DOMAIN f.services : DescriptorVar(f.services[i]) \in known,
           \A d \in f.deps : AddOfDependency(d) \in known
    PROVE  LET t == GenerateBuildDescriptors(f) IN
           /\ IsSequence(t) /\ Apart(t) /\ UsesFit(t, known)
           /\ \A x \in Elements(t) : x.op = "define" /\ x.name[1] \in {"function", "helper"}
           /\ Shutdown(f) \in Names(t)
           /\ HasDescriptorMethods(f) => Assign(f) \in Names(t) /\ AssignDescriptorsOnce \in Names(t)
           /\ ~HasDescriptorMethods(f) => AssignDescriptorsOnce \notin Names(t)
<1> DEFINE a == AssignDescriptors(f)
           d == AddDescriptors(f)
           t == GenerateBuildDescriptors(f)
<1>1. /\ IsSequence(a) /\ Apart(a) /\ Elements(a) = AssignItems(f)
      /\ Names(a) = {Assign(f), AssignDescriptorsOnce, RegisterTypes}
      /\ UsesFit(a, known)
  BY ONLY AssignPart, Assign(f) \in known,
          \A i \in DOMAIN f.services : DescriptorVar(f.services[i]) \in known
<1>2. /\ IsSequence(d) /\ Apart(d) /\ Elements(d) = AddItems(f)
      /\ Names(d) = {Shutdown(f), AddOf(f)}
  BY ONLY AddPart
<1>3. \A x \in AssignItems(f) \cup AddItems(f) : x.op = "define"
  <2> DEFINE u == {DescriptorVar(f.services[i]) : i \in DOMAIN f.services}
             v == {AddOfDependency(e) : e \in f.deps} \cup {Shutdown(f)}
                  \cup (IF HasDescriptorMethods(f) THEN {RegisterTypes} ELSE {})
  <2>1. AssignItems(f) \cup AddItems(f) =
          {Def(Assign(f), u), Def(AssignDescriptorsOnce, {Assign(f)}),
           Def(RegisterTypes, {AssignDescriptorsOnce}), Defined(Shutdown(f)), Def(AddOf(f), v)}
    BY DEF AssignItems, AddItems
  <2> HIDE DEF u, v
  <2> QED BY ONLY <2>1, DefFields, DefinedFields
<1>4. \A x \in AddItems(f) : x.uses \subseteq known \/ HasDescriptorMethods(f)
  <2> SUFFICES ASSUME NEW x \in AddItems(f), ~HasDescriptorMethods(f)
               PROVE  x.uses \subseteq known
    OBVIOUS
  <2> DEFINE v == {AddOfDependency(e) : e \in f.deps} \cup {Shutdown(f)}
                  \cup (IF HasDescriptorMethods(f) THEN {RegisterTypes} ELSE {})
  <2>1. x = Defined(Shutdown(f)) \/ x = Def(AddOf(f), v)
    BY DEF AddItems
  <2>2. v \subseteq known
    OBVIOUS
  <2> HIDE DEF v
  <2> QED BY ONLY <2>1, <2>2, DefFields, DefinedFields
<1>5. \A x \in AddItems(f) : x.uses \subseteq Names(a) \cup known
  <2> SUFFICES ASSUME NEW x \in AddItems(f)
               PROVE  x.uses \subseteq Names(a) \cup known
    OBVIOUS
  <2> DEFINE v == {AddOfDependency(e) : e \in f.deps} \cup {Shutdown(f)}
                  \cup (IF HasDescriptorMethods(f) THEN {RegisterTypes} ELSE {})
  <2>1. x = Defined(Shutdown(f)) \/ x = Def(AddOf(f), v)
    BY DEF AddItems
  <2>2. v \subseteq Names(a) \cup known
    <3>1. \A e \in f.deps : AddOfDependency(e) \in known
      OBVIOUS
    <3> HIDE DEF a
    <3> QED BY ONLY <1>1, <3>1, Shutdown(f) \in known
  <2> HIDE DEF v, a
  <2> QED BY ONLY <2>1, <2>2, DefFields, DefinedFields
<1> HIDE DEF a, d
<1>6. \A x \in Elements(a) : x.name \in {Assign(f), AssignDescriptorsOnce, RegisterTypes}
  BY ONLY <1>1 DEF Names
<1>7. \A x \in Elements(d) : x.name \in {Shutdown(f), AddOf(f)}
  BY ONLY <1>2 DEF Names
<1>8. CASE HasDescriptorMethods(f)
  <2>1. t = a \o d
    BY <1>8 DEF GenerateBuildDescriptors, a, d
  <2> HIDE DEF t
  <2>2. IsJoined(t, a, d)
    BY ONLY <1>1, <1>2, <2>1, JoinedElements
  <2>3. IsSequence(t) /\ Elements(t) = Elements(a) \cup Elements(d)
    BY ONLY <2>2 DEF IsJoined
  <2>4. Disjoint(a, d)
    BY ONLY <1>6, <1>7, GlobalNames DEF Disjoint
  <2>5. Apart(t)
    BY ONLY <1>1, <1>2, <2>2, <2>4, ApartJoined
  <2>6. UsesFit(d, Names(a) \cup known)
    BY ONLY <1>2, <1>5, UsesKnown
  <2>7. UsesFit(t, known)
    BY ONLY <1>1, <2>2, <2>6, UsesJoined
  <2>8. \A x \in Elements(t) : x.op = "define" /\ x.name[1] \in {"function", "helper"}
    BY ONLY <1>1, <1>2, <1>3, <1>6, <1>7, <2>3, GlobalNames
  <2>9. Names(t) = Names(a) \cup Names(d)
    BY ONLY <2>3 DEF Names
  <2> QED BY ONLY <1>1, <1>2, <1>8, <2>3, <2>5, <2>7, <2>8, <2>9 DEF t
<1>9. CASE ~HasDescriptorMethods(f)
  <2>1. t = d
    <3>1. t = <<>> \o d
      BY <1>9 DEF GenerateBuildDescriptors, d
    <3>2. d \in Seq(Elements(d))
      BY ONLY <1>2, AnySequence DEF IsSequence
    <3> HIDE DEF t
    <3> QED BY ONLY <3>1, <3>2
  <2> HIDE DEF t
  <2>2. UsesFit(d, known)
    BY ONLY <1>2, <1>4, <1>9, UsesKnown
  <2>3. \A x \in Elements(d) : x.op = "define" /\ x.name[1] \in {"function", "helper"}
    BY ONLY <1>2, <1>3, <1>7, GlobalNames
  <2>4. Shutdown(f) \in Names(d) /\ AssignDescriptorsOnce \notin Names(d)
    BY ONLY <1>2, GlobalNames
  <2> QED BY ONLY <1>2, <1>9, <2>1, <2>2, <2>3, <2>4 DEF t
<1> QED BY ONLY <1>8, <1>9

\* The definitions of a name.
DefinitionsOf(t, n) == {k \in DOMAIN t : t[k].op = "define" /\ t[k].name = n}

\* A name that is defined, and not twice, is defined once.
LEMMA DefinedOnce ==
    ASSUME NEW t, IsSequence(t), Apart(t), NEW x \in Elements(t), x.op = "define"
    PROVE  Cardinality(DefinitionsOf(t, x.name)) = 1
<1>1. DOMAIN t = 1 .. Len(t)
  BY ONLY IsSequence(t), AnySequence DEF IsSequence
<1>2. PICK k \in 1 .. Len(t) : x = t[k]
  BY DEF Elements
<1>3. \A l \in 1 .. Len(t) : t[l].op = "define" /\ t[l].name = x.name => l = k
  BY <1>2 DEF Apart, DefinesAt
<1>4. DefinitionsOf(t, x.name) = {k}
  BY <1>1, <1>2, <1>3 DEF DefinitionsOf
<1> QED BY ONLY <1>4, FS_Singleton

\* A name that is defined twice is not.
LEMMA DefinedTwice ==
    ASSUME NEW t, IsSequence(t), NEW n, Twice(t, n)
    PROVE  Cardinality(DefinitionsOf(t, n)) # 1
<1> DEFINE S == DefinitionsOf(t, n)
<1>1. DOMAIN t = 1 .. Len(t) /\ Len(t) \in Nat
  BY ONLY IsSequence(t), AnySequence DEF IsSequence
<1>2. PICK k, l \in 1 .. Len(t) : k # l /\ DefinesAt(t, k, n) /\ DefinesAt(t, l, n)
  BY DEF Twice
<1>3. k \in S /\ l \in S
  BY <1>1, <1>2 DEF DefinesAt, DefinitionsOf
<1>4. S \subseteq 1 .. Len(t)
  BY <1>1 DEF DefinitionsOf
<1> HIDE DEF S
<1>5. IsFiniteSet(1 .. Len(t))
  <2>1. 1 \in Int /\ Len(t) \in Int
    BY <1>1
  <2> QED BY ONLY <2>1, FS_Interval
<1>6. IsFiniteSet(S)
  <2> DEFINE J == 1 .. Len(t)
  <2> HIDE DEF J
  <2>1. IsFiniteSet(J) /\ S \in SUBSET J
    BY <1>4, <1>5 DEF J
  <2> QED BY ONLY <2>1, FS_Subset
<1>7. ~\E x : S = {x}
  BY ONLY <1>2, <1>3
<1>8. Cardinality(S) # 1
  BY ONLY <1>6, <1>7, FS_Singleton
<1> QED BY <1>8 DEF S

\* What the header declares for a service uses the types of its methods only, and
\* is defined in the source unless it is a class or the name of a type.
IsDeclared(x, s) ==
    /\ x.op = "declare" /\ x.uses \subseteq {TypeName(t) : t \in TypesOf(s)}
    /\ x.name[1] \in {"class", "typedef"} \/ \E y \in ImplItems(s) : y.name = x.name

\* This holds for everything that GenerateDeclarations() declares.
LEMMA DeclarationFacts ==
    ASSUME NEW s, NEW x \in DeclarationItems(s)
    PROVE  IsDeclared(x, s)
<1> DEFINE c == s.name
           types == {TypeName(t) : t \in TypesOf(s)}
<1>0. types = {TypeName(t) : t \in TypesOf(s)} /\ {} \subseteq types
  OBVIOUS
<1>1. \/ x = Class(c, s) \/ x = Class(Stub(s), s)
      \/ \E d, n : x = Decl(Typedef(d, n))
      \/ \E n \in InterfaceMembers : x = Decl(Member(c, n))
      \/ \E o \in MethodsOf(s) : x = Decl(Method(c, o))
      \/ \E n \in StubMemberNames : x = Decl(Member(Stub(s), n))
      \/ \E o \in OverloadsOf(s) : x = Decl(Method(Stub(s), o))
  BY DEF DeclarationItems, InterfaceItems, StubItems, TypedefItems
<1>2. ASSUME NEW n PROVE Decl(n).op = "declare" /\ Decl(n).name = n /\ Decl(n).uses = {}
  BY DEF Decl
<1> HIDE DEF types
<1>3. CASE x = Class(c, s) \/ x = Class(Stub(s), s)
  <2>1. ASSUME NEW d, x = Class(d, s) PROVE IsDeclared(x, s)
    <3>1. Class(d, s).op = "declare" /\ Class(d, s).name = <<"class", d>> /\ Class(d, s).uses = types
      BY ONLY <1>0, ClassFields
    <3> DEFINE p == <<"class", d>>
    <3>2. p[1] = "class"
      OBVIOUS
    <3> HIDE DEF p
    <3>3. x.op = "declare" /\ x.name = p /\ x.uses = types
      BY <2>1, <3>1 DEF p
    <3> QED BY ONLY <1>0, <3>2, <3>3 DEF IsDeclared
  <2> QED BY <1>3, <2>1
<1>4. CASE \E n \in InterfaceMembers : x = Decl(Member(c, n))
  <2>1. PICK n \in InterfaceMembers : x = Decl(Member(c, n))
    BY <1>4
  <2>2. \E y \in ImplItems(s) : y.name = Member(c, n)
    <3>0. /\ Defined(Member(c, "destructor")) \in ImplItems(s)
          /\ Def(Member(c, "descriptor"), OnceUses(s)) \in ImplItems(s)
          /\ Def(Member(c, "GetDescriptor"), OnceUses(s)) \in ImplItems(s)
          /\ Def(Member(c, "call_method"), {DescriptorVar(s)}) \in ImplItems(s)
          /\ Def(Member(c, "GetRequestPrototype"), OwnUses(s)) \in ImplItems(s)
          /\ Def(Member(c, "GetResponsePrototype"), OwnUses(s)) \in ImplItems(s)
      BY DEF ImplItems, ImplFirstItems, ImplLastItems
    <3>1. \/ n = "destructor" \/ n = "descriptor" \/ n = "GetDescriptor" \/ n = "call_method"
          \/ n = "GetRequestPrototype" \/ n = "GetResponsePrototype"
      BY DEF InterfaceMembers
    <3> HIDE DEF c
    <3> QED BY ONLY <3>0, <3>1, DefFields, DefinedFields
  <2> HIDE DEF c
  <2> QED BY ONLY <1>0, <1>2, <2>1, <2>2 DEF IsDeclared
<1>5. CASE \E o \in MethodsOf(s) : x = Decl(Method(c, o))
  <2>1. PICK o \in MethodsOf(s) : x = Decl(Method(c, o))
    BY <1>5
  <2>2. Defined(Method(c, o)) \in ImplItems(s)
    BY DEF ImplItems, MethodItems
  <2> HIDE DEF c
  <2> QED BY ONLY <1>0, <1>2, <2>1, <2>2, DefinedFields DEF IsDeclared
<1>6. CASE \E n \in StubMemberNames : x = Decl(Member(Stub(s), n))
  <2>1. PICK n \in StubMemberNames : x = Decl(Member(Stub(s), n))
    BY <1>6
  <2>2. Defined(Member(Stub(s), n)) \in ImplItems(s)
    BY DEF ImplItems, StubFixedItems
  <2> QED BY ONLY <1>0, <1>2, <2>1, <2>2, DefinedFields DEF IsDeclared
<1>7. CASE \E o \in OverloadsOf(s) : x = Decl(Method(Stub(s), o))
  <2>1. PICK o \in OverloadsOf(s) : x = Decl(Method(Stub(s), o))
    BY <1>7
  <2>2. Defined(Method(Stub(s), o)) \in ImplItems(s)
    BY DEF ImplItems, OverloadItems
  <2> QED BY ONLY <1>0, <1>2, <2>1, <2>2, DefinedFields DEF IsDeclared
<1>8. CASE \E d, n : x = Decl(Typedef(d, n))
  <2>1. PICK d, n : x = Decl(Typedef(d, n))
    BY <1>8
  <2>2. Typedef(d, n)[1] = "typedef"
    BY DEF Typedef
  <2> QED BY ONLY <1>0, <1>2, <2>1, <2>2 DEF IsDeclared
<1> QED BY <1>1, <1>3, <1>4, <1>5, <1>6, <1>7, <1>8

\* The header defines nothing, uses only what its includes declare, and declares the
\* functions and members that the source uses or defines.
LEMMA HeaderFacts ==
    ASSUME NEW X, NEW M, NEW P, NEW f, Services(f, X, M, P)
    PROVE  /\ IsSequence(GenerateHeader(f)) /\ Apart(GenerateHeader(f))
           /\ UsesFit(GenerateHeader(f), HeaderIncludes(f))
           /\ \A x \in Elements(GenerateHeader(f)) :
                 /\ x.op = "declare"
                 /\ \/ x.name = Assign(f) \/ x.name = Shutdown(f)
                    \/ \E j \in 1 .. Len(f.services) : IsDeclared(x, f.services[j])
           /\ Assign(f) \in Names(GenerateHeader(f)) /\ Shutdown(f) \in Names(GenerateHeader(f))
           /\ \A j \in 1 .. Len(f.services) :
                 /\ Member(f.services[j].name, "descriptor") \in Names(GenerateHeader(f))
                 /\ \A o \in OverloadsOf(f.services[j]) :
                       Decl(Method(Stub(f.services[j]), o)) \in Elements(GenerateHeader(f))
<1> DEFINE h == GenerateHeader(f)
           n == Len(f.services)
<1>1. IsSequence(h) /\ Elements(h) = {Decl(Assign(f)), Decl(Shutdown(f))}
         \cup UNION {DeclarationItems(f.services[j]) : j \in 1 .. n}
  BY HeaderElements
<1>2. ASSUME NEW m PROVE Decl(m).op = "declare" /\ Decl(m).name = m /\ Decl(m).uses = {}
  BY DEF Decl
<1>3. \A j \in 1 .. n : \A t \in TypesOf(f.services[j]) : TypeName(t) \in HeaderIncludes(f)
  BY DEF Services
<1> HIDE DEF h, n
<1>4. ASSUME NEW x \in Elements(h)
      PROVE  \/ x = Decl(Assign(f)) \/ x = Decl(Shutdown(f))
             \/ \E j \in 1 .. n : IsDeclared(x, f.services[j])
  <2>1. \/ x = Decl(Assign(f)) \/ x = Decl(Shutdown(f))
        \/ \E j \in 1 .. n : x \in DeclarationItems(f.services[j])
    BY ONLY <1>1, <1>4
  <2> QED BY ONLY <2>1, DeclarationFacts
<1>5. ASSUME NEW x \in Elements(h)
      PROVE  /\ x.op = "declare" /\ x.uses \subseteq HeaderIncludes(f)
             /\ \/ x.name = Assign(f) \/ x.name = Shutdown(f)
                \/ \E j \in 1 .. n : IsDeclared(x, f.services[j])
  <2>1. CASE x = Decl(Assign(f)) \/ x = Decl(Shutdown(f))
    BY ONLY <1>2, <2>1
  <2>2. CASE \E j \in 1 .. n : IsDeclared(x, f.services[j])
    <3>1. PICK j \in 1 .. n : IsDeclared(x, f.services[j])
      BY <2>2
    <3>2. x.op = "declare" /\ x.uses \subseteq {TypeName(t) : t \in TypesOf(f.services[j])}
      BY ONLY <3>1 DEF IsDeclared
    <3>3. x.uses \subseteq HeaderIncludes(f)
      BY ONLY <1>3, <3>2, j \in 1 .. n
    <3> QED BY ONLY <3>1, <3>2, <3>3
  <2> QED BY <1>4, <1>5, <2>1, <2>2
<1>6. UsesFit(h, HeaderIncludes(f))
  BY ONLY <1>1, <1>5, UsesKnown
<1>7. Apart(h)
  <2>1. \A k \in 1 .. Len(h) : h[k] \in Elements(h)
    BY DEF Elements
  <2>2. \A k \in 1 .. Len(h) : h[k].op # "define"
    BY ONLY <1>5, <2>1
  <2> QED BY ONLY <2>2 DEF Apart, DefinesAt
<1>8. Assign(f) \in Names(h) /\ Shutdown(f) \in Names(h)
  BY ONLY <1>1, <1>2 DEF Names
<1>9. ASSUME NEW j \in 1 .. n
      PROVE  /\ Member(f.services[j].name, "descriptor") \in Names(h)
             /\ \A o \in OverloadsOf(f.services[j]) : Decl(Method(Stub(f.services[j]), o)) \in Elements(h)
  <2> DEFINE s == f.services[j]
  <2>1. DeclarationItems(s) \subseteq Elements(h)
    BY <1>1
  <2> HIDE DEF s
  <2>2. Decl(Member(s.name, "descriptor")) \in DeclarationItems(s)
    BY DEF DeclarationItems, InterfaceItems, InterfaceMembers
  <2>3. Member(s.name, "descriptor") \in Names(h)
    BY ONLY <1>2, <2>1, <2>2 DEF Names
  <2>4. \A o \in OverloadsOf(s) : Decl(Method(Stub(s), o)) \in DeclarationItems(s)
    BY DEF DeclarationItems, StubItems
  <2> QED BY ONLY <2>1, <2>3, <2>4 DEF s
<1> QED BY ONLY <1>1, <1>5, <1>6, <1>7, <1>8, <1>9 DEF h, n

\* The source: variables, then functions, then implementations.
Built(f)    == Variables(f) \o GenerateBuildDescriptors(f)
Implemented(f) == EachService(f, GenerateImplementation)
Text(f)     == GenerateHeader(f) \o GenerateSource(f)

\* What the functions and implementations may use.
AfterHeader(f) == Names(GenerateHeader(f)) \cup HeaderIncludes(f)
AfterBuilt(f)  == Names(Built(f)) \cup AfterHeader(f)

\* The definitions of the variables use nothing.
LEMMA VariableNames ==
    ASSUME NEW X, NEW M, NEW P, NEW f, Services(f, X, M, P)
    PROVE  /\ \A x \in Elements(Variables(f)) : x.op = "define" /\ x.name[1] = "variable" /\ x.uses = {}
           /\ \A j \in DOMAIN f.services : DescriptorVar(f.services[j]) \in Names(Variables(f))
<1> DEFINE n == Len(f.services)
           v == Variables(f)
<1>1. Elements(v) = {Defined(DescriptorVar(f.services[j])) : j \in 1 .. n} /\ DOMAIN f.services = 1 .. n
  BY VariablesOf, EachOf
<1> HIDE DEF v, n
<1>2. ASSUME NEW x \in Elements(v) PROVE x.op = "define" /\ x.name[1] = "variable" /\ x.uses = {}
  <2>1. PICK j \in 1 .. n : x = Defined(DescriptorVar(f.services[j]))
    BY ONLY <1>1, <1>2
  <2> DEFINE m == DescriptorVar(f.services[j])
  <2>2. m[1] = "variable"
    BY ONLY DEF DescriptorVar
  <2> HIDE DEF m
  <2>3. x.op = "define" /\ x.name = m /\ x.uses = {}
    BY <2>1, DefinedFields DEF m
  <2> QED BY ONLY <2>2, <2>3
<1>3. \A j \in DOMAIN f.services : DescriptorVar(f.services[j]) \in Names(v)
  BY ONLY <1>1, DefinedFields DEF Names
<1> QED BY ONLY <1>2, <1>3 DEF v

\* The parts of the source, and that a name is not used before it is known until
\* the implementations.
SourceParts(f) ==
    /\ IsJoined(Text(f), GenerateHeader(f), GenerateSource(f))
    /\ IsJoined(GenerateSource(f), Built(f), Implemented(f))
    /\ Apart(Built(f))
    /\ UsesFit(Built(f), AfterHeader(f))
    /\ \A x \in Elements(Built(f)) : x.op = "define" /\ x.name[1] \in {"variable", "function", "helper"}
    /\ Shutdown(f) \in Names(Built(f))
    /\ \A j \in DOMAIN f.services : DescriptorVar(f.services[j]) \in Names(Built(f))
    /\ HasDescriptorMethods(f) => Assign(f) \in Names(Built(f)) /\ AssignDescriptorsOnce \in Names(Built(f))
    /\ ~HasDescriptorMethods(f) => AssignDescriptorsOnce \notin Names(Built(f))

\* GenerateSource() is made of these parts.
LEMMA SourceIs ==
    ASSUME NEW X, NEW M, NEW P, NEW f, Services(f, X, M, P)
    PROVE  SourceParts(f)
<1> DEFINE h == GenerateHeader(f)
           v == Variables(f)
           b == GenerateBuildDescriptors(f)
           e == Implemented(f)
           vb == Built(f)
           s == GenerateSource(f)
           u == Text(f)
           known == AfterHeader(f)
           later == Names(v) \cup known
<1>1. /\ IsSequence(h) /\ Assign(f) \in Names(h) /\ Shutdown(f) \in Names(h)
  BY HeaderFacts
<1>2. IsSequence(v) /\ Apart(v)
  BY VariablesOf
<1>3. /\ \A x \in Elements(v) : x.op = "define" /\ x.name[1] = "variable" /\ x.uses = {}
      /\ \A j \in DOMAIN f.services : DescriptorVar(f.services[j]) \in Names(v)
  BY VariableNames
<1>4. IsSequence(e)
  BY ImplementationsOf DEF Implemented
<1>5. vb = v \o b /\ s = vb \o e /\ u = h \o s
  BY DEF Built, Text, GenerateSource, Implemented, Variables, Each
<1>6. Names(h) \subseteq known /\ HeaderIncludes(f) \subseteq known
  BY DEF AfterHeader
<1>7. \A d \in f.deps : AddOfDependency(d) \in HeaderIncludes(f)
  BY DEF HeaderIncludes
<1> HIDE DEF h, v, e, vb, s, u, known
<1>8. /\ Assign(f) \in later /\ Shutdown(f) \in later
      /\ \A i \in DOMAIN f.services : DescriptorVar(f.services[i]) \in later
      /\ \A d \in f.deps : AddOfDependency(d) \in later
  BY ONLY <1>1, <1>3, <1>6, <1>7
<1> HIDE DEF later
<1>9. /\ IsSequence(b) /\ Apart(b) /\ UsesFit(b, later)
      /\ \A x \in Elements(b) : x.op = "define" /\ x.name[1] \in {"function", "helper"}
      /\ Shutdown(f) \in Names(b)
      /\ HasDescriptorMethods(f) => Assign(f) \in Names(b) /\ AssignDescriptorsOnce \in Names(b)
      /\ ~HasDescriptorMethods(f) => AssignDescriptorsOnce \notin Names(b)
  BY ONLY <1>8, BuildPart
<1> HIDE DEF b
<1>10. IsJoined(vb, v, b)
  BY ONLY <1>2, <1>5, <1>9, JoinedElements
<1>11. IsSequence(vb) /\ Elements(vb) = Elements(v) \cup Elements(b)
  BY ONLY <1>10 DEF IsJoined
<1>12. IsJoined(s, vb, e)
  BY ONLY <1>4, <1>5, <1>11, JoinedElements
<1>13. IsSequence(s)
  BY ONLY <1>12 DEF IsJoined
<1>14. IsJoined(u, h, s)
  BY ONLY <1>1, <1>5, <1>13, JoinedElements
<1>15. Apart(vb)
  <2>1. Disjoint(v, b)
    BY ONLY <1>3, <1>9 DEF Disjoint
  <2> QED BY ONLY <1>2, <1>9, <1>10, <2>1, ApartJoined
<1>16. UsesFit(vb, known)
  <2>1. UsesFit(v, known)
    BY ONLY <1>2, <1>3, UsesKnown
  <2>2. UsesFit(b, Names(v) \cup known)
    BY ONLY <1>9 DEF later
  <2> QED BY ONLY <1>10, <2>1, <2>2, UsesJoined
<1>17. Names(vb) = Names(v) \cup Names(b)
  BY ONLY <1>11 DEF Names
<1>18. AssignDescriptorsOnce \notin Names(v)
  BY ONLY <1>3, GlobalNames DEF Names
<1>19. \A x \in Elements(vb) : x.op = "define" /\ x.name[1] \in {"variable", "function", "helper"}
  BY ONLY <1>3, <1>9, <1>11
<1> QED BY ONLY <1>3, <1>9, <1>12, <1>14, <1>15, <1>16, <1>17, <1>18, <1>19
        DEF SourceParts, h, e, vb, s, u, known

\* The names that includes and the header declare: no helper is among them.
LEMMA NoHelper ==
    ASSUME NEW X, NEW M, NEW P, NEW f, Services(f, X, M, P)
    PROVE  AssignDescriptorsOnce \notin AfterHeader(f) /\ AssignDescriptorsOnce \notin Names(Implemented(f))
<1>1. \A x \in Elements(GenerateHeader(f)) :
         \/ x.name = Assign(f) \/ x.name = Shutdown(f)
         \/ \E j \in 1 .. Len(f.services) : IsDeclared(x, f.services[j])
  BY HeaderFacts
<1>2. \A s : \A y \in ImplItems(s) : y.name[1] = "member"
  BY ONLY ImplMembers
<1>3. \A s, x : IsDeclared(x, s) => x.name[1] \in {"class", "typedef", "member"}
  BY ONLY <1>2 DEF IsDeclared
<1>4. \A x \in Elements(GenerateHeader(f)) : x.name[1] \in {"class", "typedef", "member", "function"}
  BY ONLY <1>1, <1>3, GlobalNames
<1>5. AssignDescriptorsOnce \notin Names(GenerateHeader(f))
  BY ONLY <1>4, GlobalNames DEF Names
<1>6. \A x \in HeaderIncludes(f) : x[1] \in {"type", "function"}
  <2>1. \A t : TypeName(t)[1] = "type"
    BY ONLY DEF TypeName
  <2>2. \A d : AddOfDependency(d)[1] = "function"
    <3> TAKE d
    <3> DEFINE p == <<"", GlobalAddDescriptorsName(d.name)>>
    <3>1. AddOfDependency(d) = <<"function", p>>
      BY DEF AddOfDependency, Function
    <3> HIDE DEF p
    <3> QED BY ONLY <3>1
  <2> QED BY ONLY <2>1, <2>2 DEF HeaderIncludes
<1>7. AssignDescriptorsOnce \notin HeaderIncludes(f)
  BY ONLY <1>6, GlobalNames
<1>8. Elements(Implemented(f)) = UNION {ImplItems(f.services[j]) : j \in 1 .. Len(f.services)}
  BY ImplementationsOf DEF Implemented
<1>9. AssignDescriptorsOnce \notin Names(Implemented(f))
  BY ONLY <1>2, <1>8, GlobalNames DEF Names
<1> QED BY ONLY <1>5, <1>7, <1>9 DEF AfterHeader

\* No name is used before it is known, unless the file is for the lite runtime and
\* has services.
LEMMA UsesInOrder ==
    ASSUME NEW X, NEW M, NEW P, NEW f, Services(f, X, M, P)
    PROVE  UsesFit(Text(f), HeaderIncludes(f)) <=> (HasDescriptorMethods(f) \/ f.services = <<>>)
<1> DEFINE h == GenerateHeader(f)
           e == Implemented(f)
           vb == Built(f)
           s == GenerateSource(f)
           u == Text(f)
           known == AfterHeader(f)
           n == Len(f.services)
<1>1. SourceParts(f)
  BY SourceIs
<1>2. UsesFit(h, HeaderIncludes(f)) /\ \A j \in 1 .. n : Member(f.services[j].name, "descriptor") \in Names(h)
  BY HeaderFacts
<1>3. IsSequence(e) /\ Elements(e) = UNION {ImplItems(f.services[j]) : j \in 1 .. n}
  BY ImplementationsOf DEF Implemented
<1>4. n \in Nat /\ DOMAIN f.services = 1 .. n /\ (n = 0 <=> f.services = <<>>)
  <2>1. f.services \in Seq(X)
    BY DEF Services
  <2> QED BY ONLY <2>1
<1>5. AssignDescriptorsOnce \notin known /\ AssignDescriptorsOnce \notin Names(e)
  BY NoHelper
<1>6. UsesFit(u, HeaderIncludes(f)) <=> UsesFit(s, known)
  <2>1. IsJoined(u, h, s)
    BY <1>1 DEF SourceParts
  <2>2. known = Names(h) \cup HeaderIncludes(f)
    BY DEF AfterHeader
  <2> HIDE DEF u, h, s, known
  <2> QED BY ONLY <1>2, <2>1, <2>2, UsesJoined
<1>7. UsesFit(s, known) <=> UsesFit(e, AfterBuilt(f))
  <2>1. IsJoined(s, vb, e) /\ UsesFit(vb, known)
    BY <1>1 DEF SourceParts
  <2>2. AfterBuilt(f) = Names(vb) \cup known
    BY DEF AfterBuilt
  <2> HIDE DEF s, vb, e, known
  <2> QED BY ONLY <2>1, <2>2, UsesJoined
<1>8. ASSUME HasDescriptorMethods(f) PROVE UsesFit(e, AfterBuilt(f))
  <2>1. /\ AssignDescriptorsOnce \in AfterBuilt(f)
        /\ \A j \in 1 .. n : DescriptorVar(f.services[j]) \in AfterBuilt(f)
    BY <1>1, <1>4, <1>8 DEF SourceParts, AfterBuilt
  <2>2. \A j \in 1 .. n : Member(f.services[j].name, "descriptor") \in AfterBuilt(f)
    BY <1>2 DEF AfterBuilt, AfterHeader
  <2>3. \A j \in 1 .. n : ImplUses(f.services[j]) \subseteq AfterBuilt(f)
    BY ONLY <2>1, <2>2 DEF ImplUses, OnceUses, OwnUses
  <2> HIDE DEF e, n
  <2>4. ASSUME NEW x \in Elements(e) PROVE x.uses \subseteq AfterBuilt(f)
    <3>1. PICK j \in 1 .. n : x \in ImplItems(f.services[j])
      BY ONLY <1>3, <2>4
    <3>2. x.uses \subseteq ImplUses(f.services[j])
      BY ONLY <3>1, ImplMembers
    <3> QED BY ONLY <2>3, <3>2, j \in 1 .. n
  <2> QED BY ONLY <1>3, <2>4, UsesKnown
<1>9. ASSUME f.services = <<>> PROVE UsesFit(e, AfterBuilt(f))
  <2>1. n = 0
    BY <1>4, <1>9
  <2> HIDE DEF e, n
  <2>2. 1 .. n = {}
    BY ONLY <2>1
  <2>3. \A x \in Elements(e) : FALSE
    BY ONLY <1>3, <2>2
  <2> QED BY ONLY <1>3, <2>3, UsesKnown
<1>10. ASSUME ~HasDescriptorMethods(f), f.services # <<>> PROVE ~UsesFit(e, AfterBuilt(f))
  <2>1. AssignDescriptorsOnce \notin AfterBuilt(f)
    BY <1>1, <1>5, <1>10 DEF SourceParts, AfterBuilt
  <2>2. 1 \in 1 .. n
    BY <1>4, <1>10
  <2> DEFINE r == f.services[1]
             x == Def(Member(r.name, "descriptor"), OnceUses(r))
  <2>3. x \in ImplItems(r)
    BY DEF ImplItems, ImplFirstItems
  <2>4. x.uses = OnceUses(r) /\ AssignDescriptorsOnce \in OnceUses(r)
    BY DefFields DEF OnceUses
  <2> HIDE DEF x, e, n
  <2>5. x \in Elements(e)
    BY <1>3, <2>2, <2>3
  <2> QED BY ONLY <1>3, <1>5, <2>1, <2>4, <2>5, UsesUnknown
<1> QED BY ONLY <1>6, <1>7, <1>8, <1>9, <1>10 DEF u, s, e

\* What is declared, but for classes and for the function that is missing in the
\* lite runtime, is defined once; unless two overloads are the same.
LEMMA DefinitionsInOrder ==
    ASSUME NEW X, NEW M, NEW P, NEW f, Services(f, X, M, P), NEW missing,
           HasDescriptorMethods(f) \/ Assign(f) \in missing, missing \subseteq {Assign(f)}
    PROVE  (\A i \in DOMAIN Text(f) :
               Text(f)[i].op = "declare" /\ Text(f)[i].name[1] \notin {"class", "typedef"}
               /\ Text(f)[i].name \notin missing =>
                  Cardinality(DefinitionsOf(Text(f), Text(f)[i].name)) = 1)
           <=> (\A j \in DOMAIN f.services : ~AsyncClash(f.services[j]))
<1> DEFINE h == GenerateHeader(f)
           e == Implemented(f)
           vb == Built(f)
           s == GenerateSource(f)
           u == Text(f)
           n == Len(f.services)
<1>1. SourceParts(f)
  BY SourceIs
<1>2. /\ IsSequence(h) /\ Apart(h)
      /\ \A x \in Elements(h) :
            /\ x.op = "declare"
            /\ \/ x.name = Assign(f) \/ x.name = Shutdown(f)
               \/ \E j \in 1 .. n : IsDeclared(x, f.services[j])
      /\ \A j \in 1 .. n : \A o \in OverloadsOf(f.services[j]) :
            Decl(Method(Stub(f.services[j]), o)) \in Elements(h)
  BY HeaderFacts
<1>3. /\ IsSequence(e) /\ Elements(e) = UNION {ImplItems(f.services[j]) : j \in 1 .. n}
      /\ (\A j \in 1 .. n : ~AsyncClash(f.services[j])) => Apart(e)
      /\ \A j \in 1 .. n : AsyncClash(f.services[j]) =>
            \E o \in OverloadsOf(f.services[j]) : Twice(e, Method(Stub(f.services[j]), o))
  BY ImplementationsOf DEF Implemented
<1>4. n \in Nat /\ DOMAIN f.services = 1 .. n
  BY EachOf
<1>5. /\ IsJoined(u, h, s) /\ IsJoined(s, vb, e) /\ Apart(vb)
      /\ \A x \in Elements(vb) : x.op = "define" /\ x.name[1] \in {"variable", "function", "helper"}
      /\ Shutdown(f) \in Names(vb)
      /\ HasDescriptorMethods(f) => Assign(f) \in Names(vb)
  BY ONLY <1>1 DEF SourceParts
<1> HIDE DEF h, e, vb, s, u, n
<1>6. /\ IsSequence(u) /\ Elements(u) = Elements(h) \cup Elements(s) /\ Elements(s) = Elements(vb) \cup Elements(e)
  BY ONLY <1>5 DEF IsJoined
<1>7. DOMAIN u = 1 .. Len(u)
  BY ONLY <1>6, AnySequence DEF IsSequence
<1>8. \A x \in Elements(e) : x.op = "define" /\ x.name[1] = "member"
  BY ONLY <1>3, ImplMembers
<1>9. ASSUME \A j \in 1 .. n : ~AsyncClash(f.services[j]), NEW i \in 1 .. Len(u),
             u[i].op = "declare", u[i].name[1] \notin {"class", "typedef"}, u[i].name \notin missing
      PROVE  Cardinality(DefinitionsOf(u, u[i].name)) = 1
  <2>1. Disjoint(vb, e)
    BY ONLY <1>5, <1>8 DEF Disjoint
  <2>2. Apart(s)
    BY ONLY <1>3, <1>5, <1>9, <2>1, ApartJoined
  <2>3. Disjoint(h, s)
    BY ONLY <1>2 DEF Disjoint
  <2>4. Apart(u)
    BY ONLY <1>2, <1>5, <2>2, <2>3, ApartJoined
  <2> DEFINE x == u[i]
  <2>5. x \in Elements(u)
    BY DEF Elements
  <2>6. x.op = "declare" /\ x.name[1] \notin {"class", "typedef"} /\ x.name \notin missing
    BY <1>9
  <2> HIDE DEF x
  <2>7. x \in Elements(h)
    BY ONLY <1>5, <1>6, <1>8, <2>5, <2>6
  <2>8. PICK y \in Elements(u) : y.op = "define" /\ y.name = x.name
    <3>1. CASE x.name = Assign(f) \/ x.name = Shutdown(f)
      <4>1. x.name \in Names(vb)
        BY ONLY <1>5, <2>6, <3>1, HasDescriptorMethods(f) \/ Assign(f) \in missing
      <4>2. PICK y \in Elements(vb) : y.name = x.name
        BY ONLY <4>1 DEF Names
      <4> QED BY ONLY <1>5, <1>6, <4>2
    <3>2. CASE \E j \in 1 .. n : IsDeclared(x, f.services[j])
      <4>1. PICK j \in 1 .. n : IsDeclared(x, f.services[j])
        BY ONLY <3>2
      <4>2. \E y \in ImplItems(f.services[j]) : y.name = x.name
        BY ONLY <2>6, <4>1 DEF IsDeclared
      <4>3. PICK y \in ImplItems(f.services[j]) : y.name = x.name
        BY ONLY <4>2
      <4>4. y \in Elements(e)
        BY ONLY <1>3, <4>3, j \in 1 .. n
      <4> QED BY ONLY <1>6, <1>8, <4>3, <4>4
    <3> QED BY ONLY <1>2, <2>7, <3>1, <3>2
  <2>9. Cardinality(DefinitionsOf(u, y.name)) = 1
    BY ONLY <1>6, <2>4, <2>8, DefinedOnce
  <2> QED BY ONLY <2>8, <2>9 DEF x
<1>10. ASSUME NEW j \in 1 .. n, AsyncClash(f.services[j])
       PROVE  \E i \in 1 .. Len(u) :
                 /\ u[i].op = "declare" /\ u[i].name[1] \notin {"class", "typedef"} /\ u[i].name \notin missing
                 /\ Cardinality(DefinitionsOf(u, u[i].name)) # 1
  <2> DEFINE r == f.services[j]
  <2>1. PICK o \in OverloadsOf(r) : Twice(e, Method(Stub(r), o))
    BY ONLY <1>3, <1>10
  <2> DEFINE m == Method(Stub(r), o)
  <2>2. Twice(u, m)
    <3> HIDE DEF m
    <3>1. Twice(e, m)
      BY <2>1 DEF m
    <3>2. Twice(s, m)
      BY ONLY <1>5, <3>1, TwiceJoined
    <3> QED BY ONLY <1>5, <3>2, TwiceJoined
  <2>3. Cardinality(DefinitionsOf(u, m)) # 1
    BY ONLY <1>6, <2>2, DefinedTwice
  <2>4. Decl(m) \in Elements(u)
    BY <1>2, <1>6
  <2>5. m[1] = "member"
    BY NameParts
  <2> HIDE DEF m
  <2>6. Decl(m).op = "declare" /\ Decl(m).name = m
    BY DEF Decl
  <2>7. PICK i \in 1 .. Len(u) : u[i] = Decl(m)
    BY ONLY <2>4 DEF Elements
  <2>8. m \notin missing /\ m[1] \notin {"class", "typedef"}
    BY ONLY <2>5, missing \subseteq {Assign(f)}, GlobalNames
  <2> QED BY ONLY <2>3, <2>6, <2>7, <2>8
<1>11. (\A i \in DOMAIN u :
          u[i].op = "declare" /\ u[i].name[1] \notin {"class", "typedef"} /\ u[i].name \notin missing =>
             Cardinality(DefinitionsOf(u, u[i].name)) = 1)
       <=> (\A j \in DOMAIN f.services : ~AsyncClash(f.services[j]))
  BY ONLY <1>4, <1>7, <1>9, <1>10
<1> QED BY ONLY <1>11 DEF u

\* The C++ files of a file whose services have different names, and whose types
\* are those of the file and its dependencies: names are declared before they are
\* used, if not for the lite runtime; what is declared is defined once and
\* overloads differ, if no method is named like the asynchronous variant of
\* another one; and no function has the name of a type of its class or of a member
\* that is used, if no method is named Stub, like the type of a handler or like
\* such a member.
THEOREM GeneratedCppCompiles ==
    ASSUME NEW X, NEW M, NEW P, NEW f, Services(f, X, M, P)
    PROVE  CppCompiles(f)
<1> DEFINE u == Text(f)
           missing == IF f.lite THEN {Assign(f)} ELSE {}
           fits == \A i \in DOMAIN u :
                      u[i].uses \subseteq {u[k].name : k \in 1 .. i - 1} \cup HeaderIncludes(f)
           once == \A i \in DOMAIN u :
                      u[i].op = "declare" /\ u[i].name[1] \notin {"class", "typedef"} /\ u[i].name \notin missing =>
                         Cardinality(DefinitionsOf(u, u[i].name)) = 1
           clash == \E j \in DOMAIN f.services : AsyncClash(f.services[j])
<1>1. fits <=> (HasDescriptorMethods(f) \/ f.services = <<>>)
  <2>1. UsesFit(u, HeaderIncludes(f)) <=> (HasDescriptorMethods(f) \/ f.services = <<>>)
    BY UsesInOrder
  <2>2. DOMAIN u = 1 .. Len(u)
    <3>1. IsJoined(u, GenerateHeader(f), GenerateSource(f))
      BY SourceIs DEF SourceParts
    <3> HIDE DEF u
    <3>2. u \in Seq(Elements(u))
      BY ONLY <3>1 DEF IsJoined, IsSequence
    <3> QED BY ONLY <3>2
  <2> HIDE DEF u
  <2> QED BY ONLY <2>1, <2>2 DEF UsesFit, fits
<1>2. once <=> ~clash
  <2>1. HasDescriptorMethods(f) \/ Assign(f) \in missing
    <3>1. HasDescriptorMethods(f) \/ f.lite
      BY ONLY Zenon DEF HasDescriptorMethods
    <3> QED BY ONLY <3>1, Zenon
  <2>2. missing \subseteq {Assign(f)}
    BY ONLY Zenon
  <2> HIDE DEF missing
  <2>3. once <=> (\A j \in DOMAIN f.services : ~AsyncClash(f.services[j]))
    BY ONLY <2>1, <2>2, Services(f, X, M, P), DefinitionsInOrder DEF u
  <2> HIDE DEF once
  <2> QED BY ONLY <2>3
<1>3. \A j \in DOMAIN f.services :
         /\ IsInjective(StubFunctions(f.services[j])) <=> ~AsyncClash(f.services[j])
         /\ NamesOnce(f.services[j]) <=> ~TypeClash(f.services[j])
  <2> TAKE j \in DOMAIN f.services
  <2>1. AreMethods(f.services[j], M, P)
    BY EachOf
  <2> QED BY ONLY <2>1, OverloadsDiffer, TypesDiffer DEF StubFunctions
<1>4. (HasDescriptorMethods(f) \/ f.services = <<>>) <=> (f.lite => f.services = <<>>)
  BY ONLY Zenon DEF HasDescriptorMethods
<1>5. CppCompiles(f) <=>
         /\ fits <=> (f.lite => f.services = <<>>)
         /\ once <=> ~clash
         /\ \A j \in DOMAIN f.services :
               /\ IsInjective(StubFunctions(f.services[j])) <=> ~AsyncClash(f.services[j])
               /\ NamesOnce(f.services[j]) <=> ~TypeClash(f.services[j])
  BY ONLY Zenon DEF CppCompiles, Text, DefinitionsOf
<1> HIDE DEF fits, once, clash
<1> QED BY ONLY <1>1, <1>2, <1>3, <1>4, <1>5, Zenon

-----------------------------------------------------------------------------
(* The generated files of the inputs of MCHelpers                          *)

\* The types of the methods of an input, and the pieces of their names.
ProtoTypes  == {OwnType, DepType, PubType}
ProtoPieces == {"a", "b", "async_", "_Handler", "Stub", "conn_"}

\* What the methods of an input are made of.
LEMMA ProtoParts ==
    /\ \A m \in ProtoMethods : m.name \in Seq(ProtoPieces) /\ m.in \in ProtoTypes /\ m.out \in ProtoTypes
    /\ \A s : s.methods \in Seq(ProtoMethods) => TypesOf(s) \subseteq ProtoTypes
<1>1. \A n \in MethodNames : n \in Seq(ProtoPieces)
  <2> DEFINE a == "a"
             b == "b"
             c == "async_"
             h == "_Handler"
             t == "Stub"
             o == "conn_"
  <2>1. /\ a \in ProtoPieces /\ b \in ProtoPieces /\ c \in ProtoPieces
        /\ h \in ProtoPieces /\ t \in ProtoPieces /\ o \in ProtoPieces
    BY DEF ProtoPieces
  <2>2. MethodNames = {<<a>>, <<b>>, <<c, a>>, <<a, h>>, <<t>>, <<o>>}
    BY DEF MethodNames
  <2> HIDE DEF a, b, c, h, t, o
  <2>3. /\ <<a>> \in Seq(ProtoPieces) /\ <<b>> \in Seq(ProtoPieces) /\ <<c, a>> \in Seq(ProtoPieces)
        /\ <<a, h>> \in Seq(ProtoPieces) /\ <<t>> \in Seq(ProtoPieces) /\ <<o>> \in Seq(ProtoPieces)
    BY ONLY <2>1
  <2> QED BY ONLY <2>2, <2>3
<1>2. \A m \in ProtoMethods : m.name \in MethodNames /\ m.in \in ProtoTypes /\ m.out \in ProtoTypes
  BY DEF ProtoMethods, ProtoTypes
<1>3. ASSUME NEW s, s.methods \in Seq(ProtoMethods) PROVE TypesOf(s) \subseteq ProtoTypes
  <2> DEFINE ms == s.methods
  <2>1. \A i \in DOMAIN ms : ms[i] \in ProtoMethods
    BY <1>3
  <2>2. \A i \in DOMAIN ms : ms[i].in \in ProtoTypes /\ ms[i].out \in ProtoTypes
    BY ONLY <1>2, <2>1
  <2> QED BY ONLY <2>2 DEF TypesOf
<1> QED BY ONLY <1>1, <1>2, <1>3

\* The header includes the types.
LEMMA ProtoIncluded ==
    ASSUME NEW f \in Files
    PROVE  /\ f.name = <<102>> /\ f.deps = {Dep} /\ f.services \in ServiceLists
           /\ \A t \in ProtoTypes : TypeName(t) \in HeaderIncludes(f)
<1>1. f.name = <<102>> /\ f.deps = {Dep} /\ f.types = {OwnType} /\ f.services \in ServiceLists
  BY DEF Files
<1>2. Dep.types = {DepType} /\ Dep.public = {PubType}
  BY DEF Dep
<1>3. f.types \cup UNION {d.types \cup d.public : d \in f.deps} = ProtoTypes
  <2>1. {d.types \cup d.public : d \in f.deps} = {{DepType} \cup {PubType}}
    BY ONLY <1>1, <1>2
  <2> QED BY ONLY <1>1, <2>1, ZenonT(60) DEF ProtoTypes
<1>4. \A t \in ProtoTypes : TypeName(t) \in HeaderIncludes(f)
  BY ONLY <1>3 DEF HeaderIncludes
<1> QED BY ONLY <1>1, <1>4

\* The names of services, stubs and files.
LEMMA NamesApart ==
    /\ <<83>> # <<115>> /\ <<102>> # <<100>> /\ <<102>> # <<112>> /\ <<100>> # <<112>>
    /\ \A n, m, s : <<n>> # <<m, s>>
<1>1. \A n, m : <<n>> = <<m>> => n = m
  <2> TAKE n, m
  <2>1. <<n>>[1] = n /\ <<m>>[1] = m
    OBVIOUS
  <2> QED BY ONLY <2>1
<1>2. ASSUME NEW n, NEW m, NEW s PROVE <<n>> # <<m, s>>
  <2>1. Len(<<n>>) = 1 /\ Len(<<m, s>>) = 2
    OBVIOUS
  <2> QED BY ONLY <2>1
<1>3. <<83>> # <<115>> /\ <<102>> # <<100>> /\ <<102>> # <<112>> /\ <<100>> # <<112>>
  BY ONLY <1>1
<1> QED BY ONLY <1>2, <1>3

\* The services of an input are such as the theorems about the C++ files want.
LEMMA ProtoServices ==
    ASSUME NEW f \in Files
    PROVE  \E X : Services(f, X, ProtoMethods, ProtoPieces)
<1> DEFINE ss == f.services
<1>1. ss \in ServiceLists /\ \A t \in ProtoTypes : TypeName(t) \in HeaderIncludes(f)
  BY ProtoIncluded
<1>2. \A s : s.methods \in Seq(ProtoMethods) => \A t \in TypesOf(s) : TypeName(t) \in HeaderIncludes(f)
  BY ONLY <1>1, ProtoParts
<1>3. \A m \in ProtoMethods : m.name \in Seq(ProtoPieces)
  BY ONLY ProtoParts
<1> HIDE DEF ss
<1>4. CASE ss = <<>>
  <2>1. ss \in Seq({}) /\ Len(ss) = 0 /\ 1 .. 0 = {}
    BY ONLY <1>4
  <2>2. 1 .. Len(ss) = {}
    BY ONLY <2>1
  <2>3. Services(f, {}, ProtoMethods, ProtoPieces)
    BY ONLY <2>1, <2>2 DEF Services, ss
  <2> QED BY ONLY <2>3
<1>5. CASE ss # <<>>
  <2>1. PICK a : IsFirst(a) /\ ss = <<a, SecondService>>
    BY ONLY <1>1, <1>5, TwoServices
  <2> DEFINE b == SecondService
             X == {a, b}
  <2>2. a.methods \in Seq(ProtoMethods) /\ DifferentMethods(a.methods)
    BY ONLY <2>1, FirstMethods
  <2>3. b.methods \in Seq(ProtoMethods) /\ DifferentMethods(b.methods)
    BY ONLY SecondMethods
  <2>4. a.name = <<83>> /\ b.name = <<115>>
    <3>1. \A o, ms : [name |-> <<83>>, options |-> o, methods |-> ms].name = <<83>>
      OBVIOUS
    <3>2. a.name = <<83>>
      BY ONLY <2>1, <3>1 DEF IsFirst
    <3>3. b.name = <<115>>
      BY DEF SecondService
    <3> QED BY ONLY <3>2, <3>3
  <2> HIDE DEF b
  <2>5. ss \in Seq(X) /\ Len(ss) = 2 /\ ss[1] = a /\ ss[2] = b
    <3>1. ss = <<a, b>>
      BY ONLY <2>1 DEF b
    <3> QED BY ONLY <3>1
  <2>6. \A s \in X : AreMethods(s, ProtoMethods, ProtoPieces)
    BY ONLY <1>3, <2>2, <2>3 DEF AreMethods
  <2>7. a.name # b.name /\ \A s \in X : a.name # Stub(s) /\ b.name # Stub(s)
    <3>1. \A s : Stub(s) = <<s.name, "_Stub">>
      BY DEF Stub
    <3>2. \A n, s : <<n>> # Stub(s)
      BY ONLY <3>1, NamesApart
    <3> QED BY ONLY <2>4, <3>2, NamesApart
  <2>8. \A i \in 1 .. Len(ss) : i = 1 \/ i = 2
    BY ONLY <2>5
  <2>9. \A i, j \in 1 .. Len(ss) : (i # j => ss[i].name # ss[j].name) /\ ss[i].name # Stub(ss[j])
    BY ONLY <2>5, <2>7, <2>8
  <2>10. \A j \in 1 .. Len(ss) : \A t \in TypesOf(ss[j]) : TypeName(t) \in HeaderIncludes(f)
    BY ONLY <1>2, <2>2, <2>3, <2>5, <2>8
  <2>11. Services(f, X, ProtoMethods, ProtoPieces)
    BY ONLY <2>5, <2>6, <2>9, <2>10 DEF Services, ss
  <2> QED BY ONLY <2>11
<1> QED BY ONLY <1>4, <1>5

\* The Python module of an input can be imported, unless a type is imported
\* publicly by its dependency.
LEMMA ProtoLoads ==
    ASSUME NEW f \in Files
    PROVE  PythonLoads(f)
<1> DEFINE types == UNION {TypesOf(f.services[j]) : j \in DOMAIN f.services}
<1>1. PICK X : Services(f, X, ProtoMethods, ProtoPieces)
  BY ONLY ProtoServices, f \in Files
<1>2. f.services \in Seq(X)
  BY ONLY <1>1 DEF Services
<1>3. UsedBy(f) \subseteq PrintTopBoilerplate(f) \cup PrintImports(f) <=> TypesImported(f)
  BY ONLY <1>2, PythonFindsTypes
<1>4. \A j \in DOMAIN f.services : f.services[j].methods \in Seq(ProtoMethods)
  BY ONLY <1>1, EachOf
<1>5. \A j \in DOMAIN f.services : TypesOf(f.services[j]) \subseteq ProtoTypes
  BY ONLY <1>4, ProtoParts
<1>6. ImportsItself(f, OwnType) /\ ImportsItself(f, DepType) /\ ~ImportsItself(f, PubType)
  <2>1. f.name = <<102>> /\ f.deps = {Dep}
    BY ONLY ProtoIncluded, f \in Files
  <2>2. OwnType.file = <<102>> /\ DepType.file = <<100>> /\ PubType.file = <<112>>
    BY DEF OwnType, DepType, PubType
  <2>3. Dep.name = <<100>>
    BY DEF Dep
  <2> QED BY ONLY <2>1, <2>2, <2>3, NamesApart DEF ImportsItself
<1>7. \A t \in ProtoTypes : ImportsItself(f, t) <=> t # PubType
  BY ONLY <1>6 DEF ProtoTypes
<1>8. TypesImported(f) <=> PubType \notin types
  BY ONLY <1>5, <1>7 DEF TypesImported, types
<1>9. PythonLoads(f) <=>
         (UsedBy(f) \subseteq PrintTopBoilerplate(f) \cup PrintImports(f) <=> PubType \notin types)
  BY ONLY DEF PythonLoads, UsedBy, types
<1> HIDE DEF types
<1> QED BY ONLY <1>3, <1>8, <1>9

\* The names and packages of the inputs.
LEMMA ProtoFiles ==
    /\ \A f \in ProtoNames : (\E S : f \in Seq(S)) /\ f # <<>>
    /\ \A p \in Packages : \E S : p \in Seq(S)
    /\ \A g \in FileCodes : g \in Seq(Printable)
<1>1. ASSUME NEW f \in ProtoNames PROVE (\E S : f \in Seq(S)) /\ f # <<>>
  <2>1. PICK suffix \in {".proto", ".protodevel", ".txt"} :
           f = <<"dir", "/", "my", "-", "svc", suffix>>
    BY <1>1 DEF ProtoNames
  <2> DEFINE S == {"dir", "/", "my", "-", "svc", suffix}
  <2>2. f \in Seq(S) /\ Len(f) = 6
    BY ONLY <2>1
  <2>3. f # <<>>
    BY ONLY <2>2
  <2> QED BY ONLY <2>2, <2>3
<1>2. ASSUME NEW p \in Packages PROVE \E S : p \in Seq(S)
  <2>1. PICK n \in 0 .. 2 : p \in [1 .. n -> {"pkg", "sub"}]
    BY <1>2 DEF Packages
  <2>2. p \in Seq({"pkg", "sub"})
    BY <2>1
  <2> QED BY ONLY <2>2
<1>3. ASSUME NEW g \in FileCodes PROVE g \in Seq(Printable)
  <2> DEFINE C == {47, 95, 50, 53, 102}
  <2>1. PICK n \in 1 .. MaxNameLength : g \in [1 .. n -> C]
    BY <1>3 DEF FileCodes
  <2>2. n \in Nat
    OBVIOUS
  <2>3. C \subseteq Printable
    BY DEF Printable
  <2> HIDE DEF C
  <2>4. g \in [1 .. n -> Printable]
    BY ONLY <2>1, <2>3
  <2> QED BY ONLY <2>2, <2>4
<1> QED BY ONLY <1>1, <1>2, <1>3

\* What the plugins generate fits together, for every input of MCHelpers: however
\* long the names of the files are and however large the descriptors.
THEOREM EveryCodeFits == HSpec => []GeneratedCodeFits
<1>1. ASSUME IsInput(input) PROVE GeneratedCodeFits
  <2>1. ASSUME input.kind = "service" PROVE CppCompiles(input.file) /\ PythonLoads(input.file)
    <3> DEFINE f == input.file
    <3>1. f \in Files
      BY <1>1, <2>1 DEF IsInput, NoInput
    <3> HIDE DEF f
    <3>2. PICK X : Services(f, X, ProtoMethods, ProtoPieces)
      BY ONLY <3>1, ProtoServices
    <3>3. CppCompiles(f)
      BY ONLY <3>2, GeneratedCppCompiles
    <3>4. PythonLoads(f)
      BY ONLY <3>1, ProtoLoads
    <3> QED BY ONLY <3>3, <3>4 DEF f
  <2> DEFINE FileFits ==
          LET f == input.name
              chunks == Chunks(input.size)
              known == \A i \in DOMAIN input.options : input.options[i] = "dllexport_decl"
          IN /\ NamespaceClosers(input.package) = Reverse(NamespaceOpeners(input.package))
             /\ IncludedHeader(f) \in CppFiles(f, input.options) <=> known /\ Last(f) # ".protodevel"
             /\ \A i \in DOMAIN PythonFile(f) : PythonFile(f)[i] # "-"
             /\ \A i \in DOMAIN chunks :
                   /\ chunks[i].from < chunks[i].to
                   /\ chunks[i].from = (IF i = 1 THEN 0 ELSE chunks[i - 1].to)
                   /\ i = Len(chunks) => chunks[i].to = input.size
             /\ chunks = <<>> <=> input.size = 0
         GlobalsDiffer ==
          \A g \in FileCodes : g # input.name =>
              GlobalAddDescriptorsName(g) # GlobalAddDescriptorsName(input.name)
  <2>2. ASSUME input.kind = "file" PROVE FileFits
    <3> DEFINE f == input.name
               p == input.package
               o == input.options
               size == input.size
    <3>1. f \in ProtoNames /\ p \in Packages /\ size \in 0 .. MaxFileSize
      BY <1>1, <2>2 DEF IsInput, NoInput
    <3>2. size \in Nat
      BY ONLY <3>1
    <3> HIDE DEF f, p, o, size
    <3>3. PICK S : f \in Seq(S) /\ f # <<>>
      BY ONLY <3>1, ProtoFiles
    <3>4. PICK T : p \in Seq(T)
      BY ONLY <3>1, ProtoFiles
    <3>5. NamespaceClosers(p) = Reverse(NamespaceOpeners(p))
      BY ONLY <3>4, NamespacesClosed
    <3>6. IncludedHeader(f) \in CppFiles(f, o) <=>
             (\A i \in DOMAIN o : o[i] = "dllexport_decl") /\ Last(f) # ".protodevel"
      BY ONLY <3>3, HeaderIncluded
    <3>7. \A i \in DOMAIN PythonFile(f) : PythonFile(f)[i] # "-"
      BY ONLY <3>3, PythonFileNamed
    <3> DEFINE chunks == Chunks(size)
    <3>8. /\ \A i \in DOMAIN chunks :
                /\ chunks[i].from < chunks[i].to
                /\ chunks[i].from = (IF i = 1 THEN 0 ELSE chunks[i - 1].to)
                /\ i = Len(chunks) => chunks[i].to = size
          /\ chunks = <<>> <=> size = 0
      BY ONLY <3>2, DescriptorComplete
    <3> HIDE DEF chunks
    <3> QED BY ONLY <3>5, <3>6, <3>7, <3>8, Zenon DEF f, p, o, size, chunks
  <2>3. ASSUME input.kind = "codes" PROVE GlobalsDiffer
    <3> SUFFICES ASSUME NEW g \in FileCodes, g # input.name
                 PROVE  GlobalAddDescriptorsName(g) # GlobalAddDescriptorsName(input.name)
      OBVIOUS
    <3> DEFINE h == input.name
    <3>1. h \in FileCodes
      BY <1>1, <2>3 DEF IsInput, NoInput
    <3> HIDE DEF h
    <3>2. g \in Seq(Printable) /\ h \in Seq(Printable)
      BY ONLY <3>1, ProtoFiles, g \in FileCodes
    <3>3. \A n : GlobalAddDescriptorsName(n)[2] = FilenameIdentifier(n)
      BY DEF GlobalAddDescriptorsName
    <3>4. g # h
      BY DEF h
    <3>5. FilenameIdentifier(g) # FilenameIdentifier(h)
      BY ONLY <3>2, <3>4, FilenamesDiffer
    <3>6. GlobalAddDescriptorsName(g) # GlobalAddDescriptorsName(h)
      BY ONLY <3>3, <3>5
    <3> QED BY ONLY <3>6 DEF h
  <2>4. GeneratedCodeFits <=>
          /\ input.kind = "service" => CppCompiles(input.file) /\ PythonLoads(input.file)
          /\ input.kind = "file" => FileFits
          /\ input.kind = "codes" => GlobalsDiffer
    BY ONLY Zenon DEF GeneratedCodeFits
  <2> HIDE DEF FileFits, GlobalsDiffer
  <2> QED BY ONLY <2>1, <2>2, <2>3, <2>4
<1> QED BY <1>1, InputInvariance, PTL
=============================================================================
