----------------------------- MODULE GProxy_proofs -----------------------------
(***************************************************************************)
(* Proofs about reconnecting players, for any number of packets, notices,  *)
(* connections and acknowledgements: what the player sends is delivered    *)
(* once and in order, and what the game sends is resumed as ResumedStream  *)
(* says, whatever was on the way when the game was loaded.                 *)
(*                                                                         *)
(* A queue of messages is described by the numbers of its packets: they    *)
(* are consecutive, whatever acknowledgements stand between them.          *)
(***************************************************************************)
EXTENDS GProxy, SequenceTheorems, TLAPS

USE BoundsAssumption

\* The numbers after b up to s
Run(b, s) == [i \in 1 .. s - b |-> b + i]

\* The packets in q are those after b up to s; f counts them.
Counts(q, b, s, f) ==
  /\ f \in [0 .. Len(q) -> 0 .. s]
  /\ f[0] = b /\ f[Len(q)] = s
  /\ \A i \in 1 .. Len(q) : IF q[i].kind = "w3gs" THEN f[i] = f[i - 1] + 1 /\ q[i].number = f[i]
                            ELSE f[i] = f[i - 1]
Holds(q, b, s) == \E f : Counts(q, b, s, f)

-----------------------------------------------------------------------------
(* Runs of numbers.                                                        *)

\* Run(b, s) is the sequence b + 1, ..., s.
LEMMA RunFacts ==
  ASSUME NEW b \in Nat, NEW s \in Nat, b <= s
  PROVE  /\ Run(b, s) \in Seq(Nat) /\ Len(Run(b, s)) = s - b
         /\ \A i \in 1 .. s - b : Run(b, s)[i] = b + i
<1>1. \A i \in 1 .. s - b : b + i \in Nat
  OBVIOUS
<1>2. Run(b, s) \in [1 .. s - b -> Nat]
  BY <1>1 DEF Run
<1>3. Run(b, s) \in Seq(Nat)
  BY <1>2, SeqDef, s - b \in Nat
<1>4. DOMAIN Run(b, s) = 1 .. s - b
  BY DEF Run
<1>5. Len(Run(b, s)) = s - b
  BY <1>3, <1>4, LenProperties, s - b \in Nat
<1> QED BY <1>3, <1>5 DEF Run

\* A sequence with these elements is that run.
LEMMA RunEqual ==
  ASSUME NEW b \in Nat, NEW s \in Nat, b <= s, NEW t \in Seq(Nat), Len(t) = s - b,
         \A i \in 1 .. s - b : t[i] = b + i
  PROVE  t = Run(b, s)
<1> HIDE DEF Run
<1>1. /\ Run(b, s) \in Seq(Nat) /\ Len(Run(b, s)) = Len(t)
      /\ \A i \in 1 .. Len(t) : t[i] = Run(b, s)[i]
  BY RunFacts
<1> QED BY <1>1, SeqEqual

\* Runs are concatenated to a run.
LEMMA RunExtended ==
  ASSUME NEW b \in Nat, NEW s \in Nat, NEW n \in Nat, b <= s
  PROVE  Run(b, s) \o Run(s, s + n) = Run(b, s + n)
<1>1. /\ Run(b, s) \in Seq(Nat) /\ Len(Run(b, s)) = s - b
      /\ \A i \in 1 .. s - b : Run(b, s)[i] = b + i
  BY RunFacts
<1>2. /\ Run(s, s + n) \in Seq(Nat) /\ Len(Run(s, s + n)) = n
      /\ \A i \in 1 .. n : Run(s, s + n)[i] = s + i
  BY RunFacts, s + n \in Nat, s <= s + n, (s + n) - s = n
<1> HIDE DEF Run
<1>3. \A p, q \in Seq(Nat) :
        /\ p \o q \in Seq(Nat) /\ Len(p \o q) = Len(p) + Len(q)
        /\ \A i \in 1 .. Len(p) + Len(q) :
             (p \o q)[i] = IF i <= Len(p) THEN p[i] ELSE q[i - Len(p)]
  BY ConcatProperties
<1> DEFINE t == Run(b, s) \o Run(s, s + n)
<1>4. /\ t \in Seq(Nat) /\ Len(t) = (s - b) + n
      /\ \A i \in 1 .. (s - b) + n :
           t[i] = IF i <= s - b THEN Run(b, s)[i] ELSE Run(s, s + n)[i - (s - b)]
  <2>1. /\ t \in Seq(Nat) /\ Len(t) = Len(Run(b, s)) + Len(Run(s, s + n))
        /\ \A i \in 1 .. Len(Run(b, s)) + Len(Run(s, s + n)) :
             t[i] = IF i <= Len(Run(b, s)) THEN Run(b, s)[i]
                    ELSE Run(s, s + n)[i - Len(Run(b, s))]
    BY <1>1, <1>2, <1>3
  <2> HIDE DEF t
  <2> QED BY <1>1, <1>2, <2>1
<1> HIDE DEF t
<1>5. \A i \in 1 .. (s + n) - b : t[i] = b + i
  <2> SUFFICES ASSUME NEW i \in 1 .. (s + n) - b PROVE t[i] = b + i
    OBVIOUS
  <2>1. CASE i <= s - b
    BY <1>1, <1>4, <2>1
  <2>2. CASE ~(i <= s - b)
    <3>1. i - (s - b) \in 1 .. n
      BY <2>2
    <3>2. t[i] = Run(s, s + n)[i - (s - b)]
      BY <1>4, <2>2
    <3> QED BY <1>2, <3>1, <3>2, SMTT(30)
  <2> QED BY <2>1, <2>2
<1>6. Len(t) = (s + n) - b /\ s + n \in Nat /\ b <= s + n
  BY <1>4
<1>7. t = Run(b, s + n)
  BY <1>4, <1>5, <1>6, RunEqual
<1> QED BY <1>7 DEF t

\* The next number is appended.
LEMMA RunAppended ==
  ASSUME NEW b \in Nat, NEW s \in Nat, b <= s
  PROVE  Append(Run(b, s), s + 1) = Run(b, s + 1)
<1>1. /\ Run(b, s) \in Seq(Nat) /\ Len(Run(b, s)) = s - b
      /\ \A i \in 1 .. s - b : Run(b, s)[i] = b + i
  BY RunFacts
<1> DEFINE t == Append(Run(b, s), s + 1)
<1> HIDE DEF Run
<1>2. /\ t \in Seq(Nat) /\ Len(t) = (s - b) + 1
      /\ \A i \in 1 .. s - b : t[i] = Run(b, s)[i]
      /\ t[(s - b) + 1] = s + 1
  BY <1>1, AppendProperties
<1>3. Len(t) = (s + 1) - b
  BY <1>2
<1>4. \A i \in 1 .. (s + 1) - b : t[i] = b + i
  <2> SUFFICES ASSUME NEW i \in 1 .. (s + 1) - b PROVE t[i] = b + i
    OBVIOUS
  <2>1. CASE i = (s - b) + 1
    BY <2>1, <1>2
  <2>2. CASE i # (s - b) + 1
    BY <2>2, <1>1, <1>2
  <2> QED BY <2>1, <2>2
<1> HIDE DEF t
<1>5. t = Run(b, s + 1)
  BY <1>2, <1>3, <1>4, RunEqual
<1> QED BY <1>5 DEF t

\* Unqueued removes what was received, and nothing else.
LEMMA RunUnqueued ==
  ASSUME NEW b \in Nat, NEW s \in Nat, b <= s, NEW n \in Nat, n <= s
  PROVE  Unqueued(Run(b, s), s, n) = Run(IF n > b THEN n ELSE b, s)
<1>1. /\ Run(b, s) \in Seq(Nat) /\ Len(Run(b, s)) = s - b
      /\ \A i \in 1 .. s - b : Run(b, s)[i] = b + i
  BY RunFacts
<1> HIDE DEF Run
<1>2. s - Len(Run(b, s)) = b
  BY <1>1
<1>3. CASE n > b
  <2> DEFINE t == SubSeq(Run(b, s), (n - b) + 1, s - b)
  <2>1. \A i \in (n - b) + 1 .. s - b : Run(b, s)[i] \in Nat
    BY <1>1, <1>3
  <2>2. /\ t \in Seq(Nat)
        /\ Len(t) = IF (n - b) + 1 <= s - b THEN (s - b) - ((n - b) + 1) + 1 ELSE 0
        /\ \A i \in 1 .. (s - b) - ((n - b) + 1) + 1 : t[i] = Run(b, s)[((n - b) + 1) + i - 1]
    BY <2>1, SubSeqProperties, (n - b) + 1 \in Int, s - b \in Int
  <2>3. Len(t) = s - n
    BY <2>2, <1>3
  <2>4. \A i \in 1 .. s - n : t[i] = n + i
    <3> SUFFICES ASSUME NEW i \in 1 .. s - n PROVE t[i] = n + i
      OBVIOUS
    <3>1. t[i] = Run(b, s)[((n - b) + 1) + i - 1] /\ ((n - b) + 1) + i - 1 = (n - b) + i
      BY <2>2
    <3>2. (n - b) + i \in 1 .. s - b
      BY <1>3
    <3> HIDE DEF t
    <3> QED BY <1>1, <3>1, <3>2
  <2>5. Unqueued(Run(b, s), s, n) = t
    BY <1>1, <1>2, <1>3 DEF Unqueued
  <2> HIDE DEF t
  <2>6. t = Run(n, s)
    BY <2>2, <2>3, <2>4, RunEqual
  <2> QED BY <2>5, <2>6, <1>3
<1>4. CASE ~(n > b)
  BY <1>2, <1>4 DEF Unqueued
<1> QED BY <1>3, <1>4

-----------------------------------------------------------------------------
(* Queues of messages.                                                     *)

\* The three kinds of messages
LEMMA MessageFacts ==
  ASSUME NEW n \in Nat
  PROVE  /\ W3GS(n) \in Message /\ W3GS(n).kind = "w3gs" /\ W3GS(n).number = n
         /\ Ack(n) \in Message /\ Ack(n).kind = "ack" /\ Ack(n).number = n
         /\ Reconnect(n) \in Message /\ Reconnect(n).kind = "reconnect" /\ Reconnect(n).number = n
BY DEF W3GS, Ack, Reconnect, Message, Kinds, Numbers

\* The packets that are sent again after a reconnection
LEMMA PacketsFacts ==
  ASSUME NEW b \in Nat, NEW s \in Nat, b <= s
  PROVE  /\ Packets(Run(b, s)) \in Seq(Message)
         /\ Len(Packets(Run(b, s))) = s - b
         /\ \A i \in 1 .. s - b : Packets(Run(b, s))[i] = W3GS(b + i)
<1>1. /\ Len(Run(b, s)) = s - b
      /\ \A i \in 1 .. s - b : Run(b, s)[i] = b + i
  BY RunFacts
<1> HIDE DEF Run
<1> DEFINE t == [i \in 1 .. s - b |-> W3GS(b + i)]
<1>2. Packets(Run(b, s)) = t
  BY <1>1 DEF Packets
<1>3. \A i \in 1 .. s - b : W3GS(b + i) \in Message
  BY MessageFacts
<1>4. t \in [1 .. s - b -> Message]
  BY <1>3
<1>5. t \in Seq(Message)
  BY <1>4, SeqDef, s - b \in Nat
<1>6. DOMAIN t = 1 .. s - b
  OBVIOUS
<1>7. Len(t) = s - b
  BY <1>5, <1>6, LenProperties, s - b \in Nat
<1> QED BY <1>2, <1>5, <1>7

\* An empty queue holds no packets.
LEMMA HoldsNothing ==
  ASSUME NEW s \in Nat
  PROVE  Holds(<< >>, s, s)
<1> DEFINE f == [i \in 0 .. 0 |-> s]
<1>1. Counts(<< >>, s, s, f)
  BY DEF Counts
<1> QED BY <1>1 DEF Holds

\* Acknowledgements and reconnections are not counted.
LEMMA HoldsOther ==
  ASSUME NEW s \in Nat, NEW m \in Message, m.kind # "w3gs"
  PROVE  Holds(<< m >>, s, s)
<1> DEFINE f == [i \in 0 .. 1 |-> s]
<1>1. Counts(<< m >>, s, s, f)
  BY DEF Counts
<1> QED BY <1>1 DEF Holds

\* Packets sent again are those after b.
LEMMA HoldsPackets ==
  ASSUME NEW b \in Nat, NEW s \in Nat, b <= s
  PROVE  Holds(Packets(Run(b, s)), b, s)
<1> DEFINE q == Packets(Run(b, s))
           f == [i \in 0 .. s - b |-> b + i]
<1>1. Len(q) = s - b /\ \A i \in 1 .. s - b : q[i] = W3GS(b + i)
  BY PacketsFacts
<1>2. \A i \in 1 .. s - b : W3GS(b + i).kind = "w3gs" /\ W3GS(b + i).number = b + i
  BY MessageFacts
<1> HIDE DEF q
<1>3. f \in [0 .. s - b -> 0 .. s] /\ f[0] = b /\ f[s - b] = s
  OBVIOUS
<1>4. \A i \in 1 .. s - b : f[i] = b + i /\ f[i] = f[i - 1] + 1
  OBVIOUS
<1> HIDE DEF f
<1>5. \A i \in 1 .. s - b : /\ q[i].kind = "w3gs" /\ q[i].number = f[i]
                           /\ f[i] = f[i - 1] + 1
  BY <1>1, <1>2, <1>4
<1>6. Counts(q, b, s, f)
  BY <1>1, <1>3, <1>5 DEF Counts
<1> QED BY <1>6 DEF Holds, q

\* One packet follows s.
LEMMA HoldsOne ==
  ASSUME NEW s \in Nat
  PROVE  Holds(<< W3GS(s + 1) >>, s, s + 1)
<1> DEFINE f == [i \in 0 .. 1 |-> s + i]
<1>1. W3GS(s + 1).kind = "w3gs" /\ W3GS(s + 1).number = s + 1
  BY MessageFacts
<1>2. Counts(<< W3GS(s + 1) >>, s, s + 1, f)
  BY <1>1 DEF Counts
<1> QED BY <1>2 DEF Holds

\* Numbers do not decrease along a queue.
LEMMA HoldsBounds ==
  ASSUME NEW q \in Seq(Message), NEW b \in Nat, NEW s \in Nat, Holds(q, b, s)
  PROVE  b <= s
<1>1. PICK f : Counts(q, b, s, f)
  BY DEF Holds
<1>2. f[0] \in 0 .. s /\ f[0] = b
  BY <1>1, 0 \in 0 .. Len(q) DEF Counts
<1> QED BY <1>2

\* A queue continues where the one before it ends.
LEMMA HoldsAdded ==
  ASSUME NEW q \in Seq(Message), NEW r \in Seq(Message),
         NEW b \in Nat, NEW s \in Nat, NEW t \in Nat, Holds(q, b, s), Holds(r, s, t)
  PROVE  Holds(q \o r, b, t)
<1>1. PICK f : Counts(q, b, s, f)
  BY DEF Holds
<1>2. PICK g : Counts(r, s, t, g)
  BY DEF Holds
<1>3. s <= t
  BY HoldsBounds
<1> DEFINE n == Len(q)
           k == Len(r)
           p == q \o r
           h == [i \in 0 .. n + k |-> IF i <= n THEN f[i] ELSE g[i - n]]
<1>4. /\ n \in Nat /\ k \in Nat /\ Len(p) = n + k
      /\ \A i \in 1 .. n : p[i] = q[i]
      /\ \A i \in n + 1 .. n + k : p[i] = r[i - n]
  <2>1. n \in Nat /\ k \in Nat
    BY LenProperties
  <2>2. Len(p) = n + k /\ \A i \in 1 .. n + k : p[i] = IF i <= n THEN q[i] ELSE r[i - n]
    BY ConcatProperties
  <2> HIDE DEF n, k, p
  <2> QED BY <2>1, <2>2, SMTT(30)
<1>5. /\ f \in [0 .. n -> 0 .. s] /\ f[0] = b /\ f[n] = s
      /\ \A i \in 1 .. n : IF q[i].kind = "w3gs" THEN f[i] = f[i - 1] + 1 /\ q[i].number = f[i]
                           ELSE f[i] = f[i - 1]
  BY <1>1 DEF Counts
<1>6. /\ g \in [0 .. k -> 0 .. t] /\ g[0] = s /\ g[k] = t
      /\ \A i \in 1 .. k : IF r[i].kind = "w3gs" THEN g[i] = g[i - 1] + 1 /\ r[i].number = g[i]
                           ELSE g[i] = g[i - 1]
  BY <1>2 DEF Counts
<1> HIDE DEF n, k, p
<1>7. /\ \A i \in 0 .. n : h[i] = f[i]
      /\ \A i \in n .. n + k : h[i] = g[i - n]
  <2>1. \A i \in 0 .. n : h[i] = f[i]
    BY <1>4
  <2>2. \A i \in n .. n + k : h[i] = g[i - n]
    <3> SUFFICES ASSUME NEW i \in n .. n + k PROVE h[i] = g[i - n]
      OBVIOUS
    <3>1. CASE i = n
      BY <3>1, <1>4, <1>5, <1>6, i - n = 0
    <3>2. CASE i # n
      BY <3>2, <1>4
    <3> QED BY <3>1, <3>2
  <2> QED BY <2>1, <2>2
<1>8. h \in [0 .. n + k -> 0 .. t]
  <2>1. \A i \in 0 .. n + k : (IF i <= n THEN f[i] ELSE g[i - n]) \in 0 .. t
    <3> SUFFICES ASSUME NEW i \in 0 .. n + k PROVE (IF i <= n THEN f[i] ELSE g[i - n]) \in 0 .. t
      OBVIOUS
    <3>1. CASE i <= n
      <4>1. f[i] \in 0 .. s
        BY <1>4, <1>5, <3>1
      <4> QED BY <4>1, <3>1, <1>3
    <3>2. CASE ~(i <= n)
      <4>1. i - n \in 0 .. k
        BY <1>4, <3>2
      <4> QED BY <4>1, <1>6, <3>2
    <3> QED BY <3>1, <3>2
  <2> QED BY <2>1
<1> HIDE DEF h
<1>9. h[0] = b /\ h[n + k] = t
  BY <1>4, <1>5, <1>6, <1>7, (n + k) - n = k
<1>10. ASSUME NEW i \in 1 .. n + k
       PROVE  IF p[i].kind = "w3gs" THEN h[i] = h[i - 1] + 1 /\ p[i].number = h[i]
              ELSE h[i] = h[i - 1]
  <2>1. CASE i <= n
    <3>1. i \in 1 .. n /\ i \in 0 .. n /\ i - 1 \in 0 .. n
      BY <1>4, <2>1
    <3>2. p[i] = q[i] /\ h[i] = f[i] /\ h[i - 1] = f[i - 1]
      BY <1>4, <1>7, <3>1
    <3> QED BY <1>5, <3>1, <3>2
  <2>2. CASE ~(i <= n)
    <3> DEFINE j == i - n
    <3>1. /\ i \in n + 1 .. n + k /\ i \in n .. n + k /\ i - 1 \in n .. n + k
          /\ j \in 1 .. k /\ (i - 1) - n = j - 1
      BY <1>4, <2>2
    <3>2. p[i] = r[j] /\ h[i] = g[j] /\ h[i - 1] = g[j - 1]
      BY <1>4, <1>7, <3>1
    <3> HIDE DEF j
    <3> QED BY <1>6, <3>1, <3>2
  <2> QED BY <2>1, <2>2
<1>11. Counts(p, b, t, h)
  BY <1>4, <1>8, <1>9, <1>10 DEF Counts
<1> QED BY <1>11 DEF Holds, p

\* The packet that is read first is the next one.
LEMMA HoldsRest ==
  ASSUME NEW q \in Seq(Message), q # << >>, NEW b \in Nat, NEW s \in Nat, Holds(q, b, s)
  PROVE  IF Head(q).kind = "w3gs"
         THEN Head(q).number = b + 1 /\ b + 1 <= s /\ Holds(Tail(q), b + 1, s)
         ELSE Holds(Tail(q), b, s)
<1>1. PICK f : Counts(q, b, s, f)
  BY DEF Holds
<1> DEFINE n == Len(q)
           r == Tail(q)
           g == [i \in 0 .. n - 1 |-> f[i + 1]]
<1>2. /\ n \in Nat \ {0} /\ Head(q) = q[1]
      /\ r \in Seq(Message) /\ Len(r) = n - 1 /\ \A i \in 1 .. n - 1 : r[i] = q[i + 1]
  BY HeadTailProperties, EmptySeq, LenProperties
<1>3. /\ f \in [0 .. n -> 0 .. s] /\ f[0] = b /\ f[n] = s
      /\ \A i \in 1 .. n : IF q[i].kind = "w3gs" THEN f[i] = f[i - 1] + 1 /\ q[i].number = f[i]
                           ELSE f[i] = f[i - 1]
  BY <1>1 DEF Counts
<1> HIDE DEF n, r
<1>4. IF q[1].kind = "w3gs" THEN f[1] = b + 1 /\ q[1].number = f[1] ELSE f[1] = b
  <2>1. 1 \in 1 .. n /\ 1 - 1 = 0
    BY <1>2
  <2> QED BY <1>3, <2>1
<1>5. f[1] \in 0 .. s
  BY <1>2, <1>3
<1>6. Counts(r, f[1], s, g)
  <2>1. g \in [0 .. Len(r) -> 0 .. s] /\ g[0] = f[1] /\ g[Len(r)] = s
    BY <1>2, <1>3
  <2>2. \A i \in 1 .. Len(r) : IF r[i].kind = "w3gs" THEN g[i] = g[i - 1] + 1 /\ r[i].number = g[i]
                               ELSE g[i] = g[i - 1]
    <3> SUFFICES ASSUME NEW i \in 1 .. n - 1
                 PROVE  IF r[i].kind = "w3gs" THEN g[i] = g[i - 1] + 1 /\ r[i].number = g[i]
                        ELSE g[i] = g[i - 1]
      BY <1>2
    <3>1. i + 1 \in 1 .. n /\ i \in 0 .. n - 1 /\ i - 1 \in 0 .. n - 1 /\ (i + 1) - 1 = i
          /\ (i - 1) + 1 = i
      BY <1>2
    <3>2. g[i] = f[i + 1] /\ g[i - 1] = f[i] /\ r[i] = q[i + 1]
      BY <3>1, <1>2
    <3> HIDE DEF g
    <3> QED BY <1>3, <3>1, <3>2
  <2> QED BY <2>1, <2>2 DEF Counts
<1>7. Holds(r, f[1], s)
  BY <1>6 DEF Holds
<1> QED BY <1>2, <1>4, <1>5, <1>7 DEF r

\* Nothing lies between a number and itself.
LEMMA RunEmpty == ASSUME NEW s \in Nat PROVE Run(s, s) = << >>
<1>1. Run(s, s) \in Seq(Nat) /\ Len(Run(s, s)) = 0
  BY RunFacts, s <= s, s - s = 0
<1> QED BY <1>1, EmptySeq

\* What a queue holds after messages were added behind it
LEMMA QueueAdded ==
  ASSUME NEW q \in Seq(Message), NEW r \in Seq(Message)
  PROVE  /\ q \o r \in Seq(Message) /\ Len(q \o r) = Len(q) + Len(r)
         /\ q # << >> => q \o r # << >> /\ (q \o r)[1] = q[1]
         /\ q = << >> => q \o r = r
         /\ \A i \in 1 .. Len(q \o r) : \/ i \in 1 .. Len(q) /\ (q \o r)[i] = q[i]
                                        \/ \E j \in 1 .. Len(r) : (q \o r)[i] = r[j]
<1> DEFINE p == q \o r
<1>1. /\ Len(q) \in Nat /\ Len(r) \in Nat
      /\ q # << >> => Len(q) # 0
  BY LenProperties, EmptySeq
<1>2. p \in Seq(Message) /\ Len(p) = Len(q) + Len(r)
  BY ConcatProperties
<1>3. \A i \in 1 .. Len(q) + Len(r) : p[i] = IF i <= Len(q) THEN q[i] ELSE r[i - Len(q)]
  BY ConcatProperties
<1>4. q = << >> => p = r
  BY ConcatEmptySeq
<1> HIDE DEF p
<1>5. q # << >> => Len(p) # 0 /\ p[1] = q[1]
  BY <1>1, <1>2, <1>3
<1>6. p # << >> \/ Len(p) = 0
  BY EmptySeq
<1>7. ASSUME NEW i \in 1 .. Len(p)
      PROVE  \/ i \in 1 .. Len(q) /\ p[i] = q[i]
             \/ \E j \in 1 .. Len(r) : p[i] = r[j]
  <2>1. CASE i <= Len(q)
    BY <1>1, <1>2, <1>3, <2>1
  <2>2. CASE ~(i <= Len(q))
    <3>1. i - Len(q) \in 1 .. Len(r) /\ p[i] = r[i - Len(q)]
      BY <1>1, <1>2, <1>3, <2>2
    <3> QED BY <3>1
  <2> QED BY <2>1, <2>2
<1> QED BY <1>2, <1>4, <1>5, <1>6, <1>7 DEF p

\* What a queue holds after its first message was read
LEMMA QueueRest ==
  ASSUME NEW q \in Seq(Message), q # << >>
  PROVE  /\ Head(q) = q[1] /\ q[1] \in Message /\ 1 \in 1 .. Len(q)
         /\ Tail(q) \in Seq(Message)
         /\ Len(q) = 1 => Tail(q) = << >>
         /\ \A i \in 1 .. Len(Tail(q)) : i + 1 \in 2 .. Len(q) /\ Tail(q)[i] = q[i + 1]
<1>1. /\ Head(q) \in Message /\ Tail(q) \in Seq(Message) /\ Len(Tail(q)) = Len(q) - 1
      /\ \A i \in 1 .. Len(Tail(q)) : Tail(q)[i] = q[i + 1]
  BY HeadTailProperties
<1>2. Len(q) \in Nat /\ Len(q) # 0
  BY LenProperties, EmptySeq
<1>3. Head(q) = q[1]
  BY <1>2
<1>4. ASSUME Len(q) = 1 PROVE Tail(q) = << >>
  <2> DEFINE t == Tail(q)
  <2>1. t \in Seq(Message) /\ Len(t) = 0
    BY <1>1, <1>4
  <2> HIDE DEF t
  <2>2. t = << >>
    BY <2>1, EmptySeq
  <2> QED BY <2>2 DEF t
<1> QED BY <1>1, <1>2, <1>3, <1>4

\* A queue of one message
LEMMA OneMessage ==
  ASSUME NEW m \in Message
  PROVE  /\ << m >> \in Seq(Message) /\ Len(<< m >>) = 1 /\ << m >>[1] = m
         /\ \A i \in 1 .. Len(<< m >>) : << m >>[i] = m
OBVIOUS

\* What v is when q was put on connection c of w
PutOn(v, w, c, q) ==
  /\ v \in [Conns -> Seq(Message)]
  /\ c # NoConn => v[c] = w[c] \o q
  /\ \A d \in Conns : d # c => v[d] = w[d]
  /\ \A d \in Conns : w[d] # << >> => v[d] # << >> /\ v[d][1] = w[d][1]
  /\ \A d \in Conns : \A i \in 1 .. Len(v[d]) :
       \/ i \in 1 .. Len(w[d]) /\ v[d][i] = w[d][i]
       \/ d = c /\ \E j \in 1 .. Len(q) : v[d][i] = q[j]

\* Put adds to one connection and leaves the others alone.
LEMMA PutFacts ==
  ASSUME NEW w \in [Conns -> Seq(Message)], NEW c \in Conns \cup {NoConn}, NEW q \in Seq(Message)
  PROVE  PutOn(Put(w, c, q), w, c, q)
<1> DEFINE v == Put(w, c, q)
<1>1. \A d \in Conns : w[d] \in Seq(Message)
  OBVIOUS
<1>2. \A d \in Conns : d # NoConn
  BY DEF Conns, NoConn
<1>3. CASE c = NoConn
  BY <1>2, <1>3 DEF Put, PutOn
<1>4. CASE c # NoConn
  <2>1. w[c] \o q \in Seq(Message)
    BY <1>4, QueueAdded
  <2>2. v \in [Conns -> Seq(Message)] /\ \A d \in Conns : v[d] = IF d = c THEN w[d] \o q ELSE w[d]
    BY <1>4, <2>1 DEF Put
  <2> HIDE DEF v
  <2>3. \A d \in Conns : d # c => v[d] = w[d]
    BY <2>2
  <2>4. v[c] = w[c] \o q
    BY <1>4, <2>2
  <2>5. /\ w[c] # << >> => v[c] # << >> /\ v[c][1] = w[c][1]
        /\ \A i \in 1 .. Len(v[c]) : \/ i \in 1 .. Len(w[c]) /\ v[c][i] = w[c][i]
                                    \/ \E j \in 1 .. Len(q) : v[c][i] = q[j]
    BY <1>1, <1>4, <2>4, QueueAdded
  <2>6. ASSUME NEW d \in Conns
        PROVE  /\ w[d] # << >> => v[d] # << >> /\ v[d][1] = w[d][1]
               /\ \A i \in 1 .. Len(v[d]) :
                    \/ i \in 1 .. Len(w[d]) /\ v[d][i] = w[d][i]
                    \/ d = c /\ \E j \in 1 .. Len(q) : v[d][i] = q[j]
    <3>1. CASE d = c
      BY <2>5, <3>1
    <3>2. CASE d # c
      BY <2>3, <3>2
    <3> QED BY <3>1, <3>2
  <2>7. PutOn(v, w, c, q)
    BY <2>2, <2>3, <2>4, <2>6, Zenon DEF PutOn
  <2> QED BY <2>7 DEF v
<1> QED BY <1>3, <1>4

PutOne(v, w, c, m) ==
  /\ v \in [Conns -> Seq(Message)]
  /\ c # NoConn => v[c] = w[c] \o << m >>
  /\ \A d \in Conns : d # c => v[d] = w[d]
  /\ \A d \in Conns : w[d] # << >> => v[d] # << >> /\ v[d][1] = w[d][1]
  /\ \A d \in Conns : \A i \in 1 .. Len(v[d]) :
       \/ i \in 1 .. Len(w[d]) /\ v[d][i] = w[d][i]
       \/ d = c /\ v[d][i] = m

\* The same for a single message
LEMMA PutOneFacts ==
  ASSUME NEW w \in [Conns -> Seq(Message)], NEW c \in Conns \cup {NoConn}, NEW m \in Message
  PROVE  PutOne(Put(w, c, << m >>), w, c, m)
<1> DEFINE q == << m >>
           v == Put(w, c, q)
<1>1. q \in Seq(Message) /\ \A i \in 1 .. Len(q) : q[i] = m
  BY OneMessage
<1> HIDE DEF q
<1>2. PutOn(v, w, c, q)
  BY <1>1, PutFacts
<1> HIDE DEF v
<1>3. /\ v \in [Conns -> Seq(Message)]
      /\ c # NoConn => v[c] = w[c] \o q
      /\ \A d \in Conns : d # c => v[d] = w[d]
      /\ \A d \in Conns : w[d] # << >> => v[d] # << >> /\ v[d][1] = w[d][1]
  BY <1>2 DEF PutOn
<1>4. ASSUME NEW d \in Conns, NEW i \in 1 .. Len(v[d])
      PROVE  \/ i \in 1 .. Len(w[d]) /\ v[d][i] = w[d][i]
             \/ d = c /\ v[d][i] = m
  <2>1. \/ i \in 1 .. Len(w[d]) /\ v[d][i] = w[d][i]
        \/ d = c /\ \E j \in 1 .. Len(q) : v[d][i] = q[j]
    BY <1>2 DEF PutOn
  <2> QED BY <1>1, <2>1
<1>5. PutOne(v, w, c, m)
  BY <1>3, <1>4 DEF PutOne, q
<1> QED BY <1>5 DEF v, q

EmptiedAt(v, w, c) == /\ v \in [Conns -> Seq(Message)]
                      /\ \A d \in Conns : v[d] = IF d = c THEN << >> ELSE w[d]

\* A connection that was given up is empty.
LEMMA EmptiedFacts ==
  ASSUME NEW w \in [Conns -> Seq(Message)], NEW c \in Conns \cup {NoConn}
  PROVE  EmptiedAt(Emptied(w, c), w, c)
<1>1. \A d \in Conns : d # NoConn
  BY DEF Conns, NoConn
<1>2. << >> \in Seq(Message)
  OBVIOUS
<1>3. CASE c = NoConn
  BY <1>1, <1>3 DEF Emptied, EmptiedAt
<1>4. CASE c # NoConn
  BY <1>2, <1>4 DEF Emptied, EmptiedAt
<1> QED BY <1>3, <1>4

ReadAt(v, w, c) == /\ v \in [Conns -> Seq(Message)]
                   /\ v[c] = Tail(w[c])
                   /\ \A d \in Conns : d # c => v[d] = w[d]

\* One connection loses its first message.
LEMMA ReadFacts ==
  ASSUME NEW w \in [Conns -> Seq(Message)], NEW c \in Conns, w[c] # << >>
  PROVE  ReadAt(Read(w, c), w, c)
<1>1. Tail(w[c]) \in Seq(Message)
  BY QueueRest
<1> QED BY <1>1 DEF Read, ReadAt

-----------------------------------------------------------------------------
(* The numbers in a sequence.                                              *)

\* The numbers of a sequence are its elements.
LEMMA RangeFacts ==
  ASSUME NEW w \in Seq(Nat)
  PROVE  Range(w) = {w[i] : i \in 1 .. Len(w)}
BY DEF Range

\* A number is appended.
LEMMA RangeAppended ==
  ASSUME NEW w \in Seq(Nat), NEW n \in Nat
  PROVE  Range(Append(w, n)) = Range(w) \cup {n}
<1> DEFINE v == Append(w, n)
<1>1. /\ v \in Seq(Nat) /\ Len(v) = Len(w) + 1 /\ v[Len(w) + 1] = n
      /\ \A i \in 1 .. Len(w) : v[i] = w[i]
  BY AppendProperties
<1>2. Len(w) \in Nat
  BY LenProperties
<1> HIDE DEF v
<1>3. Range(v) = {v[i] : i \in 1 .. Len(v)} /\ Range(w) = {w[i] : i \in 1 .. Len(w)}
  BY <1>1, RangeFacts
<1>4. Range(v) \subseteq Range(w) \cup {n}
  <2> SUFFICES ASSUME NEW i \in 1 .. Len(v) PROVE v[i] \in Range(w) \cup {n}
    BY <1>3
  <2>1. CASE i = Len(w) + 1
    BY <1>1, <2>1
  <2>2. CASE i # Len(w) + 1
    <3>1. i \in 1 .. Len(w)
      BY <1>1, <1>2, <2>2
    <3> QED BY <1>1, <1>3, <3>1
  <2> QED BY <2>1, <2>2
<1>5. Range(w) \cup {n} \subseteq Range(v)
  <2>1. Len(w) + 1 \in 1 .. Len(v) /\ \A i \in 1 .. Len(w) : i \in 1 .. Len(v)
    BY <1>1, <1>2
  <2> QED BY <1>1, <1>3, <2>1
<1>6. Range(v) = Range(w) \cup {n}
  BY <1>4, <1>5
<1> QED BY <1>6 DEF v

\* The numbers of a run
LEMMA RangeRun ==
  ASSUME NEW b \in Nat, NEW s \in Nat, b <= s
  PROVE  Range(Run(b, s)) = b + 1 .. s
<1>1. /\ Run(b, s) \in Seq(Nat) /\ Len(Run(b, s)) = s - b
      /\ \A i \in 1 .. s - b : Run(b, s)[i] = b + i
  BY RunFacts
<1> HIDE DEF Run
<1>2. Range(Run(b, s)) = {Run(b, s)[i] : i \in 1 .. s - b}
  BY <1>1, RangeFacts
<1>3. ASSUME NEW n \in b + 1 .. s PROVE n \in Range(Run(b, s))
  <2>1. n - b \in 1 .. s - b /\ b + (n - b) = n
    OBVIOUS
  <2>2. Run(b, s)[n - b] = n
    BY <1>1, <2>1
  <2> QED BY <1>2, <2>1, <2>2
<1>4. \A i \in 1 .. s - b : Run(b, s)[i] \in b + 1 .. s
  BY <1>1
<1> QED BY <1>2, <1>3, <1>4

-----------------------------------------------------------------------------
(* The inductive invariant.                                                *)

Received == Len(warcraft)
LastPacket == IF warcraft = << >> THEN 0 ELSE warcraft[Len(warcraft)]

\* The packet after which the bot goes on when it is asked to by the client's count
Resume == IF Received > unkept THEN Received ELSE unkept

Typed ==
  /\ gameLoaded \in BOOLEAN /\ deleted \in BOOLEAN /\ clientReady \in BOOLEAN
  /\ totalPacketsSent \in Nat /\ clientSent \in Nat /\ totalPacketsReceived \in Nat
  /\ unkept \in Nat
  /\ socket \in Conns \cup {NoConn} /\ reconnectSockets \subseteq Conns
  /\ opened \in Conns /\ clientSocket = opened
  /\ toClient \in [Conns -> Seq(Message)] /\ toServer \in [Conns -> Seq(Message)]

\* The bot keeps the packets after b: all those sent since the game was loaded, but for
\* as many of them as make up the count of those received.
Keeps(b) ==
  /\ gproxyBuffer = Run(b, totalPacketsSent)
  /\ unkept <= b /\ (b = unkept \/ b <= Received)

\* What was sent, kept and received
Numbered ==
  /\ Received \in Nat /\ Received <= totalPacketsSent
  /\ warcraft \in Seq(Nat) /\ Range(warcraft) \subseteq 1 .. totalPacketsSent
  /\ totalPacketsReceived <= clientSent /\ game = Run(0, totalPacketsReceived)
  /\ unkept <= totalPacketsSent /\ (~gameLoaded => unkept = totalPacketsSent)
  /\ \E b \in 0 .. totalPacketsSent : Keeps(b)
  /\ \E b \in 0 .. totalPacketsReceived : clientBuffer = Run(b, clientSent)

\* Nobody says that it has received more than it has.
Truthful ==
  \A c \in Conns :
    /\ \A i \in 1 .. Len(toServer[c]) :
         toServer[c][i].kind # "w3gs" => toServer[c][i].number <= Received
    /\ \A i \in 1 .. Len(toClient[c]) :
         toClient[c][i].kind # "w3gs" => toClient[c][i].number <= totalPacketsReceived

\* Connections that the client has not opened yet, and the first, which needs no reconnection
Unopened ==
  /\ 1 \notin reconnectSockets
  /\ socket <= opened /\ \A c \in reconnectSockets : c <= opened
  /\ \A c \in Conns : c > opened => toClient[c] = << >> /\ toServer[c] = << >>

\* A client that asks to be connected again waits, and receives nothing, until it is answered.
Asks(c) ==
  \A i \in 1 .. Len(toServer[c]) : toServer[c][i].kind = "reconnect" =>
    /\ Len(toServer[c]) = 1 /\ c # socket
    /\ c = clientSocket => /\ ~clientReady /\ toClient[c] = << >>
                           /\ toServer[c][i].number = Received
Asking ==
  /\ \A c \in Conns : Asks(c)
  /\ \A c \in reconnectSockets : toServer[c] # << >> /\ toServer[c][1].kind = "reconnect"

\* An answer comes first.
Answered ==
  \A i \in 1 .. Len(toClient[clientSocket]) :
    toClient[clientSocket][i].kind = "reconnect" => i = 1 /\ ~clientReady

\* While nothing was lost, or once everything of before the game was loaded has arrived,
\* the packets are in order.
InOrder ==
  clientSocket = 1 \/ 1 .. unkept \subseteq Range(warcraft) => warcraft = Run(0, Received)

\* The client goes on after packet b: the one that arrived last, or the one that its count
\* makes the bot take for it.  Nothing up to b that was kept is missing.
Continues(b) ==
  /\ Received <= b /\ b \in {LastPacket, Resume}
  /\ unkept + 1 .. b \subseteq Range(warcraft)
  /\ clientSocket = 1 => b = Received
  /\ clientSocket # 1 => gameLoaded /\ unkept <= b

\* What is on its way to the client goes on after such a packet.
DownStream ==
  \E b, s \in 0 .. totalPacketsSent : /\ Continues(b)
                                      /\ Holds(toClient[clientSocket], b, s)
                                      /\ socket = clientSocket => s = totalPacketsSent

\* What is on its way to the game continues what it has received; the client sends nothing
\* before it knows how much that is.
UpStream ==
  socket # NoConn =>
    /\ \E s \in 0 .. clientSent : /\ Holds(toServer[socket], totalPacketsReceived, s)
                                  /\ socket = clientSocket /\ clientReady => s = clientSent
    /\ socket = clientSocket /\ ~clientReady =>
         /\ toServer[socket] = << >> /\ toClient[socket] # << >>
         /\ toClient[socket][1].kind = "reconnect"
         /\ toClient[socket][1].number = totalPacketsReceived

Inv == /\ Typed /\ Numbered /\ InOrder /\ Truthful /\ Unopened /\ Asking /\ Answered
       /\ DownStream /\ UpStream

\* The invariant holds at first.
LEMMA InitInv == ASSUME Init PROVE Inv
<1>1. /\ 1 \in Conns /\ 1 # NoConn
      /\ toClient \in [Conns -> Seq(Message)] /\ toServer \in [Conns -> Seq(Message)]
      /\ \A c \in Conns : toClient[c] = << >> /\ toServer[c] = << >>
  BY DEF Init, Conns, NoConn
<1>2. Run(0, 0) = << >>
  BY RunEmpty
<1>3. Holds(<< >>, 0, 0)
  BY HoldsNothing
<1>4. Typed
  BY <1>1 DEF Init, Typed
<1>5. Numbered
  <2>1. << >> \in Seq(Nat) /\ Range(<< >>) = {}
    BY DEF Range
  <2> QED BY <1>2, <2>1 DEF Init, Numbered, Keeps, Received
<1>6. Truthful /\ Asking /\ Answered
  BY <1>1 DEF Init, Truthful, Asking, Asks, Answered
<1>7. Unopened
  BY <1>1 DEF Init, Unopened, Conns
<1>8. DownStream
  <2>1. Continues(0)
    BY DEF Init, Continues, LastPacket, Received
  <2> QED BY <1>1, <1>3, <2>1 DEF Init, DownStream
<1>9. UpStream
  BY <1>1, <1>3 DEF Init, UpStream
<1>10. InOrder
  BY <1>2 DEF Init, InOrder, Received
<1> QED BY <1>4, <1>5, <1>6, <1>7, <1>8, <1>9, <1>10 DEF Inv

\* A packet with the next number is sent.
LEMMA HoldsSent ==
  ASSUME NEW q \in Seq(Message), NEW b \in Nat, NEW s \in Nat, Holds(q, b, s)
  PROVE  Holds(q \o << W3GS(s + 1) >>, b, s + 1)
<1> DEFINE r == << W3GS(s + 1) >>
<1>1. r \in Seq(Message) /\ s + 1 \in Nat
  BY MessageFacts, OneMessage
<1>2. Holds(r, s, s + 1)
  BY HoldsOne
<1> HIDE DEF r
<1>3. Holds(q \o r, b, s + 1)
  BY <1>1, <1>2, HoldsAdded
<1> QED BY <1>3 DEF r

\* A message that is no packet is sent.
LEMMA HoldsTold ==
  ASSUME NEW q \in Seq(Message), NEW b \in Nat, NEW s \in Nat, Holds(q, b, s),
         NEW m \in Message, m.kind # "w3gs"
  PROVE  Holds(q \o << m >>, b, s)
<1> DEFINE r == << m >>
<1>1. r \in Seq(Message)
  BY OneMessage
<1>2. Holds(r, s, s)
  BY HoldsOther
<1> HIDE DEF r
<1>3. Holds(q \o r, b, s)
  BY <1>1, <1>2, HoldsAdded
<1> QED BY <1>3 DEF r

\* The parts about what the game sends, when a step only lets the bot send more
LEMMA DownUnchanged ==
  ASSUME Typed, Numbered, UNCHANGED << warcraft, unkept, clientSocket >>,
         gameLoaded => gameLoaded', totalPacketsSent' \in Nat, totalPacketsSent <= totalPacketsSent'
  PROVE  /\ Received' = Received /\ Resume' = Resume
         /\ Received' <= totalPacketsSent' /\ unkept' <= totalPacketsSent'
         /\ Range(warcraft)' \subseteq 1 .. totalPacketsSent'
         /\ InOrder => InOrder'
         /\ \A b : Continues(b) => Continues(b)'
<1>1. /\ Received \in Nat /\ unkept \in Nat /\ totalPacketsSent \in Nat
      /\ Received <= totalPacketsSent /\ unkept <= totalPacketsSent
      /\ Range(warcraft) \subseteq 1 .. totalPacketsSent
  BY DEF Typed, Numbered
<1>2. Received' = Received /\ LastPacket' = LastPacket /\ Resume' = Resume
  BY DEF Received, LastPacket, Resume
<1>3. /\ Received' <= totalPacketsSent' /\ unkept' <= totalPacketsSent'
      /\ Range(warcraft)' \subseteq 1 .. totalPacketsSent'
  BY <1>1, <1>2
<1>4. InOrder => InOrder'
  BY <1>2 DEF InOrder
<1>5. \A b : Continues(b) => Continues(b)'
  BY <1>2 DEF Continues
<1> QED BY <1>2, <1>3, <1>4, <1>5

\* The same, when what is on the way to the client stays as it is
LEMMA DownStays ==
  ASSUME Typed, Numbered, DownStream, UNCHANGED << warcraft, unkept, clientSocket, toClient >>,
         gameLoaded => gameLoaded', totalPacketsSent' \in Nat, totalPacketsSent <= totalPacketsSent',
         socket' = clientSocket => socket = clientSocket /\ totalPacketsSent' = totalPacketsSent
  PROVE  DownStream'
<1>1. PICK b \in 0 .. totalPacketsSent, s \in 0 .. totalPacketsSent :
        /\ Continues(b) /\ Holds(toClient[clientSocket], b, s)
        /\ socket = clientSocket => s = totalPacketsSent
  BY DEF DownStream
<1>2. Continues(b)'
  BY <1>1, DownUnchanged
<1>3. b \in 0 .. totalPacketsSent' /\ s \in 0 .. totalPacketsSent'
  BY <1>1 DEF Typed
<1> QED BY <1>1, <1>2, <1>3 DEF DownStream

\* When the packets are in order the last one is counted like the others.
LEMMA LastOfRun ==
  ASSUME Received \in Nat, warcraft = Run(0, Received)
  PROVE  LastPacket = Received
<1>1. /\ Run(0, Received) \in Seq(Nat) /\ Len(Run(0, Received)) = Received
      /\ \A i \in 1 .. Received : Run(0, Received)[i] = i
  <2>1. /\ Run(0, Received) \in Seq(Nat) /\ Len(Run(0, Received)) = Received - 0
        /\ \A i \in 1 .. Received - 0 : Run(0, Received)[i] = 0 + i
    BY RunFacts, 0 \in Nat, 0 <= Received
  <2> HIDE DEF Run
  <2> QED BY <2>1
<1> HIDE DEF Run
<1>2. warcraft \in Seq(Nat) /\ Len(warcraft) = Received /\ \A i \in 1 .. Received : warcraft[i] = i
  BY <1>1
<1>3. CASE Received = 0
  <2>1. warcraft = << >>
    BY <1>2, <1>3, EmptySeq
  <2> QED BY <1>3, <2>1 DEF LastPacket
<1>4. CASE Received # 0
  <2>1. warcraft # << >>
    BY <1>2, <1>4
  <2>2. Received \in 1 .. Received
    BY <1>4
  <2> QED BY <1>2, <2>1, <2>2 DEF LastPacket
<1> QED BY <1>3, <1>4

\* CGamePlayer::Send
LEMMA SendStep == ASSUME Inv, Send PROVE Inv'
<1> DEFINE n == totalPacketsSent + 1
           m == W3GS(n)
<1>1. /\ Typed /\ Numbered /\ InOrder /\ Truthful /\ Unopened /\ Asking /\ Answered
      /\ DownStream /\ UpStream
  BY DEF Inv
<1>2. /\ totalPacketsSent' = n /\ n \in Nat /\ gproxyBuffer' = Buffered(n)
      /\ toClient' = Put(toClient, socket, << m >>)
  BY <1>1 DEF Send, Typed
<1>3. /\ UNCHANGED << gameLoaded, deleted, totalPacketsReceived, socket, reconnectSockets >>
      /\ UNCHANGED << opened, clientSocket, clientReady, clientSent, clientBuffer >>
      /\ UNCHANGED << toServer, warcraft, game >>
      /\ unkept' = IF gameLoaded THEN unkept ELSE n
  BY DEF Send, client
<1>4. m \in Message /\ m.kind = "w3gs"
  BY <1>2, MessageFacts
<1>5. \A q \in Seq(Message) : \A b \in Nat :
        Holds(q, b, totalPacketsSent) => Holds(q \o << m >>, b, n)
  BY <1>1, HoldsSent DEF Typed
<1> HIDE DEF m
<1>6. /\ toClient' \in [Conns -> Seq(Message)]
      /\ socket # NoConn => toClient'[socket] = toClient[socket] \o << m >>
      /\ \A d \in Conns : d # socket => toClient'[d] = toClient[d]
      /\ \A d \in Conns : toClient[d] # << >> =>
           toClient'[d] # << >> /\ toClient'[d][1] = toClient[d][1]
      /\ \A d \in Conns : \A i \in 1 .. Len(toClient'[d]) :
           \/ i \in 1 .. Len(toClient[d]) /\ toClient'[d][i] = toClient[d][i]
           \/ d = socket /\ toClient'[d][i] = m
  <2>1. /\ toClient \in [Conns -> Seq(Message)] /\ socket \in Conns \cup {NoConn}
        /\ m \in Message /\ toClient' = Put(toClient, socket, << m >>)
    BY <1>1, <1>2, <1>4 DEF Typed
  <2>2. PutOne(toClient', toClient, socket, m)
    BY <2>1, PutOneFacts
  <2> QED BY <2>2 DEF PutOne
<1>7. \A d \in Conns : toClient[d] \in Seq(Message)
  BY <1>1 DEF Typed
<1>8. Typed'
  BY <1>1, <1>2, <1>3, <1>6 DEF Typed
<1>20. /\ totalPacketsSent \in Nat /\ Received \in Nat /\ Received <= totalPacketsSent
       /\ unkept \in Nat /\ unkept <= totalPacketsSent
       /\ ~gameLoaded => unkept = totalPacketsSent
       /\ Received' = Received /\ LastPacket' = LastPacket
       /\ Range(warcraft) \subseteq 1 .. totalPacketsSent /\ warcraft \in Seq(Nat)
  BY <1>1, <1>3 DEF Typed, Numbered, Received, LastPacket
<1>9. Numbered'
  <2>1. PICK b \in 0 .. totalPacketsSent : Keeps(b)
    BY <1>1 DEF Numbered
  <2>2. /\ b \in Nat /\ b <= totalPacketsSent /\ gproxyBuffer = Run(b, totalPacketsSent)
        /\ unkept <= b /\ (b = unkept \/ b <= Received)
    BY <1>20, <2>1 DEF Keeps
  <2>3. \E d \in 0 .. n : Keeps(d)'
    <3>1. CASE gameLoaded
      <4>1. gproxyBuffer' = Run(b, n)
        BY <1>2, <1>20, <2>2, <3>1, RunAppended DEF Buffered
      <4>2. Keeps(b)'
        BY <1>2, <1>3, <1>20, <2>2, <3>1, <4>1 DEF Keeps
      <4> QED BY <1>20, <2>2, <4>2
    <3>2. CASE ~gameLoaded
      <4>1. b = totalPacketsSent
        BY <1>20, <2>2, <3>2
      <4>2. gproxyBuffer' = Run(n, n)
        BY <1>2, <2>2, <3>2, <4>1, RunEmpty DEF Buffered
      <4>3. PICK d \in Nat : d = n
        BY <1>2
      <4>4. Keeps(d)'
        BY <1>2, <1>3, <3>2, <4>2, <4>3 DEF Keeps
      <4> QED BY <1>2, <4>3, <4>4
    <3> QED BY <3>1, <3>2
  <2>4. /\ Received <= n /\ Range(warcraft) \subseteq 1 .. n
        /\ unkept' <= n /\ (~gameLoaded => unkept' = n)
    BY <1>3, <1>20
  <2> QED BY <1>1, <1>2, <1>3, <1>20, <2>3, <2>4 DEF Numbered
<1>21. ASSUME NEW b \in Nat, b <= totalPacketsSent, Continues(b) PROVE Continues(b)'
  <2>1. CASE gameLoaded
    <3>1. unkept' = unkept /\ Resume' = Resume
      BY <1>3, <1>20, <2>1 DEF Resume
    <3> QED BY <1>3, <1>20, <1>21, <3>1 DEF Continues
  <2>2. CASE ~gameLoaded
    <3>1. /\ clientSocket = 1 /\ b = Received
      BY <1>21, <2>2 DEF Continues
    <3>2. warcraft = Run(0, Received)
      BY <1>1, <3>1 DEF InOrder
    <3>3. b = LastPacket
      BY <1>20, <3>1, <3>2, LastOfRun
    <3>4. unkept' + 1 .. b = {}
      BY <1>3, <1>20, <1>21, <2>2
    <3> QED BY <1>3, <1>20, <3>1, <3>3, <3>4 DEF Continues
  <2> QED BY <2>1, <2>2
<1>22. InOrder'
  <2>1. CASE gameLoaded
    BY <1>1, <1>3, <1>20, <2>1 DEF InOrder
  <2>2. CASE ~gameLoaded
    <3>1. clientSocket = 1
      BY <1>1, <2>2 DEF DownStream, Continues
    <3> QED BY <1>1, <1>3, <1>20, <3>1 DEF InOrder
  <2> QED BY <2>1, <2>2
<1>10. Truthful'
  BY <1>1, <1>2, <1>3, <1>4, <1>6 DEF Truthful, Received
<1>11. Unopened'
  <2>1. \A d \in Conns : d > opened => d # socket
    BY <1>1 DEF Unopened, Typed, Conns, NoConn
  <2> QED BY <1>1, <1>3, <1>6, <2>1 DEF Unopened
<1>12. Asking'
  BY <1>1, <1>2, <1>3, <1>6 DEF Asking, Asks, Received
<1>13. Answered'
  <2> SUFFICES ASSUME NEW i \in 1 .. Len(toClient'[clientSocket]),
                      toClient'[clientSocket][i].kind = "reconnect"
               PROVE  i = 1 /\ ~clientReady
    BY <1>3 DEF Answered
  <2>1. clientSocket \in Conns
    BY <1>1 DEF Typed
  <2>2. i \in 1 .. Len(toClient[clientSocket]) /\ toClient'[clientSocket][i] = toClient[clientSocket][i]
    BY <1>4, <1>6, <2>1
  <2> QED BY <1>1, <2>2 DEF Answered
<1>14. DownStream'
  <2>1. PICK b \in 0 .. totalPacketsSent, s \in 0 .. totalPacketsSent :
          /\ Continues(b) /\ Holds(toClient[clientSocket], b, s)
          /\ socket = clientSocket => s = totalPacketsSent
    BY <1>1 DEF DownStream
  <2>4. b \in Nat /\ b <= totalPacketsSent /\ b \in 0 .. n /\ s \in 0 .. n /\ n \in 0 .. n
    BY <1>2, <1>20, <2>1
  <2>5. Continues(b)'
    BY <1>21, <2>1, <2>4
  <2>2. CASE socket = clientSocket
    <3>1. /\ socket \in Conns /\ socket # NoConn /\ toClient[socket] \in Seq(Message)
      BY <1>1, <1>7, <2>2 DEF Typed, Conns, NoConn
    <3>2. Holds(toClient[socket], b, totalPacketsSent)
      BY <2>1, <2>2
    <3>3. Holds(toClient'[socket], b, n)
      BY <1>5, <1>6, <2>4, <3>1, <3>2
    <3> QED BY <1>2, <1>3, <2>2, <2>4, <2>5, <3>3 DEF DownStream
  <2>3. CASE socket # clientSocket
    <3>1. toClient'[clientSocket] = toClient[clientSocket]
      BY <1>1, <1>6, <2>3 DEF Typed
    <3> QED BY <1>2, <1>3, <2>1, <2>3, <2>4, <2>5, <3>1 DEF DownStream
  <2> QED BY <2>2, <2>3
<1>15. UpStream'
  <2>1. socket # NoConn => socket \in Conns
    BY <1>1 DEF Typed
  <2> QED BY <1>1, <1>2, <1>3, <1>6, <2>1 DEF UpStream
<1> QED BY <1>8, <1>9, <1>10, <1>11, <1>12, <1>13, <1>14, <1>15, <1>22 DEF Inv

\* The acknowledgement of CGamePlayer::Update
LEMMA SendAckStep == ASSUME Inv, SendAck PROVE Inv'
<1> DEFINE m == Ack(totalPacketsReceived)
<1>1. /\ Typed /\ Numbered /\ InOrder /\ Truthful /\ Unopened /\ Asking /\ Answered
      /\ DownStream /\ UpStream
  BY DEF Inv
<1>2. /\ socket \in Conns /\ socket # NoConn
      /\ toClient' = Put(toClient, socket, << m >>)
  BY <1>1 DEF SendAck, Typed
<1>3. /\ UNCHANGED << gameLoaded, deleted, totalPacketsSent, totalPacketsReceived, gproxyBuffer >>
      /\ UNCHANGED << socket, reconnectSockets, opened, clientSocket, clientReady >>
      /\ UNCHANGED << clientSent, clientBuffer, toServer, warcraft, game, unkept >>
  BY DEF SendAck, client, server
<1>4. m \in Message /\ m.kind = "ack" /\ m.number = totalPacketsReceived
  BY <1>1, MessageFacts DEF Typed
<1> HIDE DEF m
<1>5. toClient \in [Conns -> Seq(Message)] /\ \A d \in Conns : toClient[d] \in Seq(Message)
  BY <1>1 DEF Typed
<1>6. PutOne(toClient', toClient, socket, m)
  BY <1>2, <1>4, <1>5, PutOneFacts
<1>7. Typed'
  BY <1>1, <1>3, <1>6 DEF Typed, PutOne
<1>8. Numbered' /\ InOrder'
  BY <1>1, <1>3 DEF Numbered, Keeps, InOrder, Received
<1>9. Truthful'
  <2>1. totalPacketsReceived <= totalPacketsReceived
    BY <1>1 DEF Typed
  <2> QED BY <1>1, <1>3, <1>4, <1>6, <2>1 DEF Truthful, Received, PutOne
<1>10. Unopened'
  <2>1. \A d \in Conns : d > opened => d # socket
    BY <1>1 DEF Unopened, Typed, Conns, NoConn
  <2> QED BY <1>1, <1>3, <1>6, <2>1 DEF Unopened, PutOne
<1>11. Asking'
  BY <1>1, <1>3, <1>6 DEF Asking, Asks, Received, PutOne
<1>12. Answered'
  <2>1. ASSUME NEW i \in 1 .. Len(toClient'[clientSocket]), toClient'[clientSocket][i].kind = "reconnect"
        PROVE  i = 1 /\ ~clientReady
    <3>1. clientSocket \in Conns
      BY <1>1 DEF Typed
    <3>2. i \in 1 .. Len(toClient[clientSocket]) /\ toClient'[clientSocket][i] = toClient[clientSocket][i]
      BY <1>4, <1>6, <2>1, <3>1 DEF PutOne
    <3> QED BY <1>1, <2>1, <3>2 DEF Answered
  <2> QED BY <1>3, <2>1 DEF Answered
<1>13. DownStream'
  <2>1. PICK b \in 0 .. totalPacketsSent, s \in 0 .. totalPacketsSent :
          /\ Continues(b) /\ Holds(toClient[clientSocket], b, s)
          /\ socket = clientSocket => s = totalPacketsSent
    BY <1>1 DEF DownStream
  <2>2. b \in Nat /\ s \in Nat /\ clientSocket \in Conns
    BY <1>1, <2>1 DEF Typed
  <2>4. Continues(b)'
    BY <1>3, <2>1 DEF Continues, LastPacket, Resume, Received
  <2>3. Holds(toClient'[clientSocket], b, s)
    <3>1. CASE socket = clientSocket
      <4>1. toClient'[clientSocket] = toClient[clientSocket] \o << m >>
        BY <1>2, <1>6, <3>1 DEF PutOne
      <4>2. m.kind # "w3gs"
        BY <1>4
      <4>3. toClient[clientSocket] \in Seq(Message) /\ Holds(toClient[clientSocket], b, s)
        BY <1>5, <2>1, <2>2
      <4> QED BY <1>4, <2>2, <4>1, <4>2, <4>3, HoldsTold
    <3>2. CASE socket # clientSocket
      BY <1>6, <2>1, <2>2, <3>2 DEF PutOne
    <3> QED BY <3>1, <3>2
  <2> QED BY <1>3, <2>1, <2>3, <2>4 DEF DownStream
<1>14. UpStream'
  BY <1>1, <1>2, <1>3, <1>6 DEF UpStream, PutOne
<1> QED BY <1>7, <1>8, <1>9, <1>10, <1>11, <1>12, <1>13, <1>14 DEF Inv

\* What is on the way when the game is loaded is in no buffer.
LEMMA LoadGameStep == ASSUME Inv, LoadGame PROVE Inv'
<1>1. /\ Typed /\ Numbered /\ InOrder /\ Truthful /\ Unopened /\ Asking /\ Answered
      /\ DownStream /\ UpStream
  BY DEF Inv
<1>2. /\ gameLoaded' = TRUE
      /\ UNCHANGED << deleted, totalPacketsSent, totalPacketsReceived, gproxyBuffer, toClient >>
      /\ UNCHANGED << socket, reconnectSockets, opened, clientSocket, clientReady >>
      /\ UNCHANGED << clientSent, clientBuffer, toServer, warcraft, game, unkept >>
  BY DEF LoadGame, client, server
<1>3. Typed'
  BY <1>1, <1>2 DEF Typed
<1>4. Numbered' /\ InOrder'
  BY <1>1, <1>2 DEF Numbered, Keeps, InOrder, Received
<1>5. Truthful' /\ Unopened' /\ Answered'
  BY <1>1, <1>2 DEF Truthful, Unopened, Answered, Received
<1>6. Asking'
  BY <1>1, <1>2 DEF Asking, Asks, Received
<1>7. DownStream'
  <2>1. totalPacketsSent' \in Nat /\ totalPacketsSent <= totalPacketsSent'
    BY <1>1, <1>2 DEF Typed
  <2> QED BY <1>1, <1>2, <2>1, DownStays
<1>8. UpStream'
  BY <1>1, <1>2 DEF UpStream
<1> QED BY <1>3, <1>4, <1>5, <1>6, <1>7, <1>8 DEF Inv

\* The player is dropped.
LEMMA DeleteStep == ASSUME Inv, Delete PROVE Inv'
<1>1. /\ Typed /\ Numbered /\ InOrder /\ Truthful /\ Unopened /\ Asking /\ Answered
      /\ DownStream /\ UpStream
  BY DEF Inv
<1>2. /\ deleted' = TRUE
      /\ UNCHANGED << gameLoaded, totalPacketsSent, totalPacketsReceived, gproxyBuffer, toClient >>
      /\ UNCHANGED << socket, reconnectSockets, opened, clientSocket, clientReady >>
      /\ UNCHANGED << clientSent, clientBuffer, toServer, warcraft, game, unkept >>
  BY DEF Delete, client, server
<1>3. Typed'
  BY <1>1, <1>2 DEF Typed
<1>4. Numbered' /\ InOrder'
  BY <1>1, <1>2 DEF Numbered, Keeps, InOrder, Received
<1>5. Truthful' /\ Unopened' /\ Answered'
  BY <1>1, <1>2 DEF Truthful, Unopened, Answered, Received
<1>6. Asking'
  BY <1>1, <1>2 DEF Asking, Asks, Received
<1>7. DownStream' /\ UpStream'
  BY <1>1, <1>2 DEF DownStream, Continues, LastPacket, Resume, UpStream, Received
<1> QED BY <1>3, <1>4, <1>5, <1>6, <1>7 DEF Inv

\* A connection that asks for a reconnection is accepted.
LEMMA AcceptStep == ASSUME Inv, Accept PROVE Inv'
<1>1. /\ Typed /\ Numbered /\ InOrder /\ Truthful /\ Unopened /\ Asking /\ Answered
      /\ DownStream /\ UpStream
  BY DEF Inv
<1>2. PICK c \in Conns \ reconnectSockets :
        /\ c > 1 /\ c <= opened /\ toServer[c] # << >> /\ Head(toServer[c]).kind = "reconnect"
        /\ reconnectSockets' = reconnectSockets \cup {c}
  BY DEF Accept
<1>3. /\ UNCHANGED << gameLoaded, totalPacketsSent, totalPacketsReceived, gproxyBuffer, toClient >>
      /\ UNCHANGED << socket, deleted, opened, clientSocket, clientReady >>
      /\ UNCHANGED << clientSent, clientBuffer, toServer, warcraft, game, unkept >>
  BY DEF Accept, client
<1>4. toServer[c][1].kind = "reconnect"
  <2>1. toServer[c] \in Seq(Message)
    BY <1>1 DEF Typed
  <2>2. Head(toServer[c]) = toServer[c][1]
    BY <1>2, <2>1, QueueRest
  <2> QED BY <1>2, <2>2
<1>5. Typed'
  BY <1>1, <1>2, <1>3 DEF Typed
<1>6. Numbered' /\ InOrder'
  BY <1>1, <1>3 DEF Numbered, Keeps, InOrder, Received
<1>7. Truthful' /\ Unopened' /\ Answered'
  BY <1>1, <1>2, <1>3 DEF Truthful, Unopened, Answered, Received
<1>8. Asking'
  BY <1>1, <1>2, <1>3, <1>4 DEF Asking, Asks, Received
<1>9. DownStream' /\ UpStream'
  BY <1>1, <1>3 DEF DownStream, Continues, LastPacket, Resume, UpStream, Received
<1> QED BY <1>5, <1>6, <1>7, <1>8, <1>9 DEF Inv

\* CGamePlayer::Update reads its socket.
LEMMA ReadSocketStep == ASSUME Inv, ReadSocket PROVE Inv'
<1> DEFINE q == toServer[socket]
           m == q[1]
<1>1. /\ Typed /\ Numbered /\ InOrder /\ Truthful /\ Unopened /\ Asking /\ Answered
      /\ DownStream /\ UpStream
  BY DEF Inv
<1>2. /\ socket \in Conns /\ socket # NoConn /\ q # << >> /\ q \in Seq(Message)
      /\ Received \in Nat /\ totalPacketsReceived \in Nat /\ totalPacketsSent \in Nat
  BY <1>1 DEF ReadSocket, Typed, Numbered
<1>3. /\ UNCHANGED << gameLoaded, deleted, totalPacketsSent, toClient, warcraft, unkept >>
      /\ UNCHANGED << socket, reconnectSockets, opened, clientSocket, clientReady >>
      /\ UNCHANGED << clientSent, clientBuffer >>
      /\ toServer' = Read(toServer, socket)
  BY DEF ReadSocket, client
<1> HIDE DEF q
<1>4. /\ m = Head(q) /\ m \in Message /\ 1 \in 1 .. Len(q)
      /\ \A i \in 1 .. Len(Tail(q)) : i + 1 \in 2 .. Len(q) /\ Tail(q)[i] = q[i + 1]
  BY <1>2, QueueRest
<1>5. /\ totalPacketsReceived' = totalPacketsReceived + (IF m.kind = "w3gs" THEN 1 ELSE 0)
      /\ game' = IF m.kind = "w3gs" THEN Append(game, m.number) ELSE game
      /\ gproxyBuffer' = IF m.kind = "ack" THEN Unqueued(gproxyBuffer, totalPacketsSent, m.number)
                         ELSE gproxyBuffer
  BY <1>4 DEF ReadSocket, Counted, q
<1>6. m.kind \in Kinds /\ m.number \in Nat
  BY <1>4 DEF Message, Numbers
<1>7. PICK s \in 0 .. clientSent : Holds(q, totalPacketsReceived, s)
                                /\ (socket = clientSocket /\ clientReady => s = clientSent)
  BY <1>1, <1>2 DEF UpStream, q
<1>8. IF m.kind = "w3gs"
      THEN m.number = totalPacketsReceived + 1 /\ totalPacketsReceived + 1 <= s
           /\ Holds(Tail(q), totalPacketsReceived + 1, s)
      ELSE Holds(Tail(q), totalPacketsReceived, s)
  <2>1. s \in Nat
    BY <1>1, <1>7 DEF Typed
  <2> QED BY <1>2, <1>4, <1>7, <2>1, HoldsRest
<1>9. \A i \in 1 .. Len(q) : q[i].kind # "reconnect"
  BY <1>1, <1>2 DEF Asking, Asks, q
<1>10. ReadAt(toServer', toServer, socket)
  <2>1. toServer \in [Conns -> Seq(Message)] /\ toServer[socket] # << >>
    BY <1>1, <1>2 DEF Typed, q
  <2> QED BY <1>2, <1>3, <2>1, ReadFacts
<1>11. toServer'[socket] = Tail(q)
  BY <1>10 DEF ReadAt, q
<1>12. totalPacketsReceived' \in Nat /\ totalPacketsReceived <= totalPacketsReceived'
  BY <1>2, <1>5
<1> HIDE DEF m
<1>13. Typed'
  BY <1>1, <1>3, <1>10, <1>12 DEF Typed, ReadAt
<1>14. Numbered'
  <2>1. totalPacketsReceived' <= clientSent /\ game' = Run(0, totalPacketsReceived')
    <3>1. CASE m.kind = "w3gs"
      <4>1. game' = Append(Run(0, totalPacketsReceived), totalPacketsReceived + 1)
        BY <1>1, <1>5, <1>8, <3>1 DEF Numbered
      <4>2. game' = Run(0, totalPacketsReceived + 1)
        <5>1. 0 \in Nat /\ 0 <= totalPacketsReceived
          BY <1>2
        <5>2. Append(Run(0, totalPacketsReceived), totalPacketsReceived + 1)
                = Run(0, totalPacketsReceived + 1)
          BY <1>2, <5>1, RunAppended
        <5> QED BY <4>1, <5>2
      <4> QED BY <1>1, <1>2, <1>5, <1>7, <1>8, <3>1, <4>2, SMTT(30) DEF Typed
    <3>2. CASE m.kind # "w3gs"
      BY <1>1, <1>2, <1>5, <3>2 DEF Numbered
    <3> QED BY <3>1, <3>2
  <2>2. \E b \in 0 .. totalPacketsReceived' : clientBuffer' = Run(b, clientSent')
    BY <1>1, <1>2, <1>3, <1>12 DEF Numbered
  <2>3. PICK b \in 0 .. totalPacketsSent : /\ gproxyBuffer = Run(b, totalPacketsSent)
                                           /\ unkept <= b /\ (b = unkept \/ b <= Received)
    BY <1>1 DEF Numbered, Keeps
  <2>4. \E d \in 0 .. totalPacketsSent : /\ gproxyBuffer' = Run(d, totalPacketsSent)
                                         /\ unkept <= d /\ (d = unkept \/ d <= Received)
    <3>1. CASE m.kind = "ack"
      <4> DEFINE d == IF m.number > b THEN m.number ELSE b
      <4>1. m.number <= Received /\ Received <= totalPacketsSent
        BY <1>1, <1>2, <1>4, <3>1 DEF Truthful, Numbered, m, q
      <4>2. gproxyBuffer' = Run(d, totalPacketsSent)
        <5>1. b \in Nat /\ totalPacketsSent \in Nat /\ b <= totalPacketsSent
          BY <1>2, <2>3
        <5>2. m.number \in Nat /\ m.number <= totalPacketsSent
          BY <1>2, <1>6, <4>1
        <5>3. Unqueued(Run(b, totalPacketsSent), totalPacketsSent, m.number) = Run(d, totalPacketsSent)
          BY <5>1, <5>2, RunUnqueued
        <5> HIDE DEF d
        <5> QED BY <1>5, <2>3, <3>1, <5>3
      <4>3. d \in 0 .. totalPacketsSent /\ unkept <= d /\ (d = unkept \/ d <= Received)
        <5>1. unkept \in Nat
          BY <1>1 DEF Typed
        <5> QED BY <1>2, <1>6, <2>3, <4>1, <5>1
      <4> QED BY <4>2, <4>3
    <3>2. CASE m.kind # "ack"
      BY <1>5, <2>3, <3>2
    <3> QED BY <3>1, <3>2
  <2> QED BY <1>1, <1>3, <2>1, <2>2, <2>4 DEF Numbered, Keeps, Received
<1>15. Truthful'
  <2>1. ASSUME NEW c \in Conns, NEW i \in 1 .. Len(toServer'[c]), toServer'[c][i].kind # "w3gs"
        PROVE  toServer'[c][i].number <= Received
    <3>1. CASE c = socket
      <4>1. i + 1 \in 1 .. Len(q) /\ toServer'[c][i] = q[i + 1]
        BY <1>4, <1>11, <2>1, <3>1, SMTT(30)
      <4> QED BY <1>1, <1>2, <2>1, <3>1, <4>1 DEF Truthful, q
    <3>2. CASE c # socket
      BY <1>1, <1>10, <2>1, <3>2 DEF Truthful, ReadAt
    <3> QED BY <3>1, <3>2
  <2>2. ASSUME NEW c \in Conns, NEW i \in 1 .. Len(toClient[c]), toClient[c][i].kind # "w3gs"
        PROVE  toClient[c][i].number <= totalPacketsReceived'
    <3>1. toClient[c][i].number <= totalPacketsReceived
      BY <1>1, <2>2 DEF Truthful
    <3>2. toClient[c][i].number \in Nat
      <4>1. toClient[c] \in Seq(Message)
        BY <1>1 DEF Typed
      <4>2. toClient[c][i] \in Message
        BY <4>1, ElementOfSeq
      <4> QED BY <4>2 DEF Message, Numbers
    <3> QED BY <1>2, <1>12, <3>1, <3>2
  <2> QED BY <1>3, <2>1, <2>2 DEF Truthful, Received
<1>16. Unopened'
  <2>1. \A d \in Conns : d > opened => d # socket
    BY <1>1 DEF Unopened, Typed, Conns, NoConn
  <2> QED BY <1>1, <1>3, <1>10, <2>1 DEF Unopened, ReadAt
<1>17. Asking'
  <2>1. ASSUME NEW c \in Conns PROVE Asks(c)'
    <3>1. CASE c = socket
      <4>1. \A i \in 1 .. Len(toServer'[c]) : toServer'[c][i].kind # "reconnect"
        <5>1. \A i \in 1 .. Len(Tail(q)) : i + 1 \in 1 .. Len(q) /\ Tail(q)[i] = q[i + 1]
          BY <1>4
        <5> QED BY <1>9, <1>11, <3>1, <5>1
      <4> QED BY <4>1 DEF Asks
    <3>2. CASE c # socket
      BY <1>1, <1>3, <1>10, <3>2 DEF Asking, Asks, Received, ReadAt
    <3> QED BY <3>1, <3>2
  <2>2. ASSUME NEW c \in reconnectSockets
        PROVE  toServer'[c] # << >> /\ toServer'[c][1].kind = "reconnect"
    <3>1. c \in Conns /\ toServer[c] # << >> /\ toServer[c][1].kind = "reconnect"
      BY <1>1 DEF Asking, Typed
    <3>2. c # socket
      BY <1>4, <1>9, <3>1 DEF q
    <3> QED BY <1>10, <3>1, <3>2 DEF ReadAt
  <2> QED BY <1>3, <2>1, <2>2 DEF Asking
<1>18. Answered'
  BY <1>1, <1>3 DEF Answered
<1>19. DownStream' /\ InOrder'
  BY <1>1, <1>3 DEF DownStream, Continues, LastPacket, Resume, InOrder, Received
<1>20. UpStream'
  <2>1. Holds(toServer'[socket], totalPacketsReceived', s)
    BY <1>2, <1>5, <1>8, <1>11
  <2>2. socket = clientSocket => clientReady
    BY <1>1, <1>2 DEF UpStream, q
  <2> QED BY <1>3, <1>7, <2>1, <2>2 DEF UpStream
<1> QED BY <1>13, <1>14, <1>15, <1>16, <1>17, <1>18, <1>19, <1>20 DEF Inv

\* CGamePlayer::Update finds its socket lost.
LEMMA SocketLostStep == ASSUME Inv, SocketLost PROVE Inv'
<1>1. /\ Typed /\ Numbered /\ InOrder /\ Truthful /\ Unopened /\ Asking /\ Answered
      /\ DownStream /\ UpStream
  BY DEF Inv
<1>2. PICK notices \in IF gameLoaded THEN 0 .. MaxNotices ELSE {0} :
        /\ totalPacketsSent' = totalPacketsSent + notices
        /\ gproxyBuffer' = gproxyBuffer \o [i \in 1 .. notices |-> totalPacketsSent + i]
  BY DEF SocketLost
<1>3. /\ UNCHANGED << gameLoaded, totalPacketsReceived, toClient, warcraft, game, unkept >>
      /\ UNCHANGED << reconnectSockets, opened, clientSocket, clientReady >>
      /\ UNCHANGED << clientSent, clientBuffer >>
      /\ socket \in Conns /\ socket' = NoConn /\ toServer' = Emptied(toServer, socket)
      /\ deleted' = ~gameLoaded
  BY <1>1 DEF SocketLost, client, Typed
<1>4. /\ notices \in Nat /\ totalPacketsSent \in Nat /\ Received \in Nat
      /\ totalPacketsSent' \in Nat /\ totalPacketsSent <= totalPacketsSent'
      /\ ~gameLoaded => totalPacketsSent' = totalPacketsSent
  BY <1>1, <1>2, SMTT(30) DEF Typed, Numbered
<1>5. EmptiedAt(toServer', toServer, socket)
  <2>1. toServer \in [Conns -> Seq(Message)]
    BY <1>1 DEF Typed
  <2> QED BY <1>3, <2>1, EmptiedFacts
<1>6. \A d \in Conns : d # NoConn
  BY DEF Conns, NoConn
<1>7. Typed'
  BY <1>1, <1>3, <1>4, <1>5 DEF Typed, EmptiedAt
<1>8. Numbered'
  <2>1. PICK b \in 0 .. totalPacketsSent : /\ gproxyBuffer = Run(b, totalPacketsSent)
                                           /\ unkept <= b /\ (b = unkept \/ b <= Received)
    BY <1>1 DEF Numbered, Keeps
  <2>2. [i \in 1 .. notices |-> totalPacketsSent + i] = Run(totalPacketsSent, totalPacketsSent + notices)
    BY <1>4, (totalPacketsSent + notices) - totalPacketsSent = notices DEF Run
  <2>3. gproxyBuffer' = Run(b, totalPacketsSent')
    <3>1. b \in Nat /\ b <= totalPacketsSent
      BY <1>4, <2>1
    <3>2. Run(b, totalPacketsSent) \o Run(totalPacketsSent, totalPacketsSent + notices)
            = Run(b, totalPacketsSent + notices)
      <4>1. notices \in Nat /\ totalPacketsSent \in Nat
        BY <1>4
      <4> QED BY <3>1, <4>1, RunExtended
    <3> QED BY <1>2, <2>1, <2>2, <3>2
  <2>4. b \in 0 .. totalPacketsSent'
    BY <1>4, <2>1
  <2>5. /\ Received' <= totalPacketsSent' /\ unkept' <= totalPacketsSent'
        /\ Range(warcraft)' \subseteq 1 .. totalPacketsSent'
    BY <1>1, <1>3, <1>4, DownUnchanged
  <2>6. Keeps(b)'
    BY <1>3, <2>1, <2>3 DEF Keeps, Received
  <2>7. /\ Received' \in Nat /\ warcraft' \in Seq(Nat)
        /\ ~gameLoaded' => unkept' = totalPacketsSent'
        /\ totalPacketsReceived' <= clientSent' /\ game' = Run(0, totalPacketsReceived')
        /\ \E d \in 0 .. totalPacketsReceived' : clientBuffer' = Run(d, clientSent')
    BY <1>1, <1>3, <1>4 DEF Numbered, Received
  <2> QED BY <2>4, <2>5, <2>6, <2>7 DEF Numbered
<1>9. Truthful'
  BY <1>1, <1>3, <1>5, SMTT(30) DEF Truthful, Received, EmptiedAt
<1>10. Unopened'
  <2>1. NoConn <= opened
    BY <1>1 DEF Typed, Conns, NoConn
  <2> QED BY <1>1, <1>3, <1>5, <2>1 DEF Unopened, EmptiedAt
<1>11. Asking'
  <2>1. \A c \in Conns : Asks(c)'
    BY <1>1, <1>3, <1>5, <1>6 DEF Asking, Asks, Received, EmptiedAt
  <2>2. ASSUME NEW c \in reconnectSockets
        PROVE  toServer'[c] # << >> /\ toServer'[c][1].kind = "reconnect"
    <3>1. c \in Conns /\ toServer[c] # << >> /\ toServer[c][1].kind = "reconnect"
      BY <1>1 DEF Asking, Typed
    <3>2. 1 \in 1 .. Len(toServer[c])
      BY <1>1, <3>1, QueueRest DEF Typed
    <3>3. c # socket
      BY <1>1, <3>1, <3>2 DEF Asking, Asks
    <3> QED BY <1>5, <3>1, <3>3 DEF EmptiedAt
  <2> QED BY <1>3, <2>1, <2>2 DEF Asking
<1>12. Answered'
  BY <1>1, <1>3 DEF Answered
<1>13. DownStream'
  <2>1. socket' # clientSocket
    BY <1>1, <1>3, <1>6 DEF Typed
  <2> QED BY <1>1, <1>3, <1>4, <2>1, DownStays
<1>15. InOrder'
  BY <1>1, <1>3 DEF InOrder, Received
<1>14. UpStream'
  BY <1>3 DEF UpStream
<1> QED BY <1>7, <1>8, <1>9, <1>10, <1>11, <1>12, <1>13, <1>14, <1>15 DEF Inv

\* Nothing is missing up to the packet after which the bot goes on.
Resumes ==
  /\ Resume \in Nat /\ Received <= Resume /\ unkept <= Resume /\ Resume <= totalPacketsSent
  /\ unkept + 1 .. Resume \subseteq Range(warcraft)

\* So it is whenever something is on the way to the client or was.
LEMMA ResumeFacts ==
  ASSUME Typed, Numbered, DownStream
  PROVE  Resumes /\ Resume \in 0 .. totalPacketsSent
<1>1. PICK b \in 0 .. totalPacketsSent : Continues(b)
  BY DEF DownStream
<1>2. /\ Received \in Nat /\ unkept \in Nat /\ totalPacketsSent \in Nat
      /\ Received <= totalPacketsSent /\ unkept <= totalPacketsSent
      /\ b \in Nat /\ Received <= b /\ unkept + 1 .. b \subseteq Range(warcraft)
  BY <1>1 DEF Typed, Numbered, Continues
<1>3. Resume \in Nat /\ Received <= Resume /\ unkept <= Resume /\ Resume <= totalPacketsSent
  BY <1>2 DEF Resume
<1>4. unkept + 1 .. Resume \subseteq unkept + 1 .. b
  BY <1>2 DEF Resume
<1>5. unkept + 1 .. Resume \subseteq Range(warcraft)
  BY <1>2, <1>4
<1> QED BY <1>2, <1>3, <1>5 DEF Resumes

\* The answer to a reconnection: how much arrived, and all packets that did not
AnswerTo(q, r, b, s) ==
  /\ q \in Seq(Message) /\ q # << >> /\ q[1] = Reconnect(r)
  /\ \A i \in 1 .. Len(q) : i # 1 => q[i].kind = "w3gs"
  /\ Holds(q, b, s)

\* EventGProxyReconnect sends such an answer.
LEMMA AnswerFacts ==
  ASSUME NEW r \in Nat, NEW b \in Nat, NEW s \in Nat, b <= s
  PROVE  AnswerTo(<< Reconnect(r) >> \o Packets(Run(b, s)) \o << W3GS(s + 1) >>, r, b, s + 1)
<1> DEFINE p == << Reconnect(r) >>
           x == Packets(Run(b, s))
           px == p \o x
           w == << W3GS(s + 1) >>
           q == px \o w
<1>1. /\ Reconnect(r) \in Message /\ Reconnect(r).kind # "w3gs"
      /\ W3GS(s + 1) \in Message /\ W3GS(s + 1).kind = "w3gs"
  BY MessageFacts
<1>2. p \in Seq(Message) /\ Len(p) = 1 /\ p[1] = Reconnect(r) /\ p # << >>
  BY <1>1
<1>3. w \in Seq(Message) /\ \A i \in 1 .. Len(w) : w[i] = W3GS(s + 1)
  BY <1>1, OneMessage
<1>4. x \in Seq(Message) /\ \A i \in 1 .. Len(x) : x[i].kind = "w3gs"
  <2>1. /\ x \in Seq(Message) /\ Len(x) = s - b
        /\ \A i \in 1 .. s - b : x[i] = W3GS(b + i)
    BY PacketsFacts
  <2>2. \A i \in 1 .. s - b : W3GS(b + i).kind = "w3gs"
    BY MessageFacts
  <2> HIDE DEF x
  <2> QED BY <2>1, <2>2
<1>5. Holds(p, b, b)
  BY <1>1, HoldsOther
<1>6. Holds(x, b, s)
  BY HoldsPackets
<1> HIDE DEF p, x, w
<1>7. Holds(px, b, s)
  BY <1>2, <1>4, <1>5, <1>6, HoldsAdded
<1>8. /\ px \in Seq(Message) /\ px # << >> /\ px[1] = Reconnect(r)
      /\ \A i \in 1 .. Len(px) : i # 1 => px[i].kind = "w3gs"
  <2>1. /\ px \in Seq(Message) /\ px # << >> /\ px[1] = p[1]
        /\ \A i \in 1 .. Len(px) : \/ i \in 1 .. Len(p) /\ px[i] = p[i]
                                  \/ \E j \in 1 .. Len(x) : px[i] = x[j]
    BY <1>2, <1>4, QueueAdded
  <2> HIDE DEF px
  <2> QED BY <1>2, <1>4, <2>1
<1> HIDE DEF px
<1>9. /\ q \in Seq(Message) /\ q # << >> /\ q[1] = px[1]
      /\ \A i \in 1 .. Len(q) : \/ i \in 1 .. Len(px) /\ q[i] = px[i]
                               \/ \E j \in 1 .. Len(w) : q[i] = w[j]
  BY <1>3, <1>8, QueueAdded
<1>10. Holds(q, b, s + 1)
  <2>1. Holds(px \o << W3GS(s + 1) >>, b, s + 1)
    BY <1>7, <1>8, HoldsSent
  <2> QED BY <2>1 DEF w
<1> HIDE DEF q
<1>11. \A i \in 1 .. Len(q) : i # 1 => q[i].kind = "w3gs"
  BY <1>1, <1>3, <1>8, <1>9
<1>12. AnswerTo(q, r, b, s + 1)
  BY <1>8, <1>9, <1>10, <1>11 DEF AnswerTo
<1> QED BY <1>12 DEF q, px, p, x, w

\* The new connection takes up where the old one broke off.
LEMMA EventGProxyReconnectStep == ASSUME Inv, EventGProxyReconnect PROVE Inv'
<1> DEFINE S == totalPacketsSent
           R == totalPacketsReceived
<1>1. /\ Typed /\ Numbered /\ InOrder /\ Truthful /\ Unopened /\ Asking /\ Answered
      /\ DownStream /\ UpStream
  BY DEF Inv
<1>2. PICK c \in reconnectSockets :
        /\ toServer' = Read(Emptied(toServer, socket), c)
        /\ socket' = c
        /\ reconnectSockets' = reconnectSockets \ {c}
        /\ totalPacketsSent' = S + 1
        /\ gproxyBuffer' = Append(Unqueued(gproxyBuffer, S, Head(toServer[c]).number), S + 1)
        /\ toClient' = Put(toClient, c,
             << Reconnect(R) >> \o Packets(Unqueued(gproxyBuffer, S, Head(toServer[c]).number))
               \o << W3GS(S + 1) >>)
  BY DEF EventGProxyReconnect, KeptAfterResending, Resent, Arrived
<1>3. /\ UNCHANGED << gameLoaded, deleted, totalPacketsReceived, warcraft, game, unkept >>
      /\ UNCHANGED << opened, clientSocket, clientReady, clientSent, clientBuffer >>
      /\ gameLoaded
  BY DEF EventGProxyReconnect, client
<1> DEFINE n == Head(toServer[c]).number
           w == Emptied(toServer, socket)
<1>4. /\ c \in Conns /\ c # NoConn /\ c <= opened
      /\ toServer[c] # << >> /\ toServer[c] \in Seq(Message) /\ toServer[c][1].kind = "reconnect"
      /\ S \in Nat /\ R \in Nat /\ Received \in Nat /\ Received <= S /\ R <= clientSent
      /\ clientSent \in Nat
  BY <1>1 DEF Typed, Asking, Numbered, Unopened, Conns, NoConn
<1>5. /\ n = toServer[c][1].number /\ n \in Nat /\ n <= Received
      /\ Tail(toServer[c]) = << >> /\ c # socket
      /\ c = clientSocket => ~clientReady /\ toClient[c] = << >> /\ n = Received
  <2>1. /\ Head(toServer[c]) = toServer[c][1] /\ toServer[c][1] \in Message
        /\ 1 \in 1 .. Len(toServer[c]) /\ (Len(toServer[c]) = 1 => Tail(toServer[c]) = << >>)
    BY <1>4, QueueRest
  <2>2. toServer[c][1].number \in Nat
    BY <2>1 DEF Message, Numbers
  <2>3. Asks(c)
    BY <1>1, <1>4 DEF Asking
  <2>4. /\ Len(toServer[c]) = 1 /\ c # socket
        /\ c = clientSocket => /\ ~clientReady /\ toClient[c] = << >>
                               /\ toServer[c][1].number = Received
    BY <1>4, <2>1, <2>3 DEF Asks
  <2>5. toServer[c][1].number <= Received
    BY <1>1, <1>4, <2>1 DEF Truthful
  <2> QED BY <2>1, <2>2, <2>4, <2>5
<1>6. /\ toServer' \in [Conns -> Seq(Message)]
      /\ \A d \in Conns : toServer'[d] = IF d = c \/ d = socket THEN << >> ELSE toServer[d]
  <2>1. EmptiedAt(w, toServer, socket)
    BY <1>1, EmptiedFacts DEF Typed
  <2>2. w \in [Conns -> Seq(Message)] /\ w[c] = toServer[c]
        /\ \A d \in Conns : w[d] = IF d = socket THEN << >> ELSE toServer[d]
    BY <1>4, <1>5, <2>1 DEF EmptiedAt
  <2> HIDE DEF w
  <2>3. ReadAt(Read(w, c), w, c)
    BY <1>4, <2>2, ReadFacts
  <2>4. toServer' = Read(w, c)
    BY <1>2 DEF w
  <2>5. ReadAt(toServer', w, c)
    BY <2>3, <2>4
  <2> QED BY <1>5, <2>2, <2>5 DEF ReadAt
<1>7. PICK b \in 0 .. S : gproxyBuffer = Run(b, S) /\ unkept <= b /\ (b = unkept \/ b <= Received)
  BY <1>1 DEF Numbered, Keeps
<1> DEFINE k == IF n > b THEN n ELSE b
<1> HIDE DEF n
<1>8. /\ k \in Nat /\ k <= S /\ unkept <= k /\ (k = unkept \/ k <= Received)
      /\ c = clientSocket => k = Resume
  <2>1. unkept \in Nat
    BY <1>1 DEF Typed
  <2> QED BY <1>4, <1>5, <1>7, <2>1 DEF Resume
<1>9. Unqueued(gproxyBuffer, S, n) = Run(k, S)
  <2>1. b \in Nat /\ b <= S /\ n <= S
    BY <1>4, <1>5, <1>7
  <2>2. Unqueued(Run(b, S), S, n) = Run(k, S)
    BY <1>4, <1>5, <2>1, RunUnqueued
  <2> QED BY <1>7, <2>2
<1> HIDE DEF k
<1>10. gproxyBuffer' = Run(k, S + 1)
  <2>1. Append(Run(k, S), S + 1) = Run(k, S + 1)
    BY <1>4, <1>8, RunAppended
  <2> QED BY <1>2, <1>9, <2>1 DEF n
<1> DEFINE q == << Reconnect(R) >> \o Packets(Run(k, S)) \o << W3GS(S + 1) >>
<1>11. AnswerTo(q, R, k, S + 1)
  BY <1>4, <1>8, AnswerFacts
<1>12. PutOn(toClient', toClient, c, q)
  <2>1. toClient' = Put(toClient, c, q)
    BY <1>2, <1>9 DEF n
  <2> HIDE DEF q
  <2>2. toClient \in [Conns -> Seq(Message)] /\ q \in Seq(Message)
    BY <1>1, <1>11 DEF Typed, AnswerTo
  <2> QED BY <1>4, <2>1, <2>2, PutFacts
<1> HIDE DEF q
<1>13. Reconnect(R).kind = "reconnect" /\ Reconnect(R).number = R
  BY <1>4, MessageFacts
<1>14. c = clientSocket => toClient'[c] = q
  <2>1. ASSUME c = clientSocket PROVE toClient'[c] = q
    <3>1. toClient'[c] = << >> \o q
      BY <1>4, <1>5, <1>12, <2>1 DEF PutOn
    <3> QED BY <1>11, <3>1, ConcatEmptySeq DEF AnswerTo
  <2> QED BY <2>1
<1>15. Typed'
  <2>1. totalPacketsSent' \in Nat /\ socket' \in Conns /\ reconnectSockets' \subseteq Conns
    BY <1>1, <1>2, <1>4 DEF Typed
  <2>2. toClient' \in [Conns -> Seq(Message)]
    BY <1>12 DEF PutOn
  <2> QED BY <1>1, <1>3, <1>6, <2>1, <2>2 DEF Typed
<1>23. totalPacketsSent' \in Nat /\ totalPacketsSent <= totalPacketsSent'
  BY <1>2, <1>4
<1>16. Numbered'
  <2>1. k \in 0 .. totalPacketsSent'
    BY <1>2, <1>4, <1>8
  <2>2. /\ Received' <= totalPacketsSent' /\ unkept' <= totalPacketsSent'
        /\ Range(warcraft)' \subseteq 1 .. totalPacketsSent'
    BY <1>1, <1>2, <1>3, <1>23, DownUnchanged
  <2>5. PICK d \in Nat : d = k
    BY <1>8
  <2>3. Keeps(d)'
    BY <1>2, <1>3, <1>8, <1>10, <2>5 DEF Keeps, Received
  <2>4. /\ Received' \in Nat /\ warcraft' \in Seq(Nat) /\ gameLoaded'
        /\ totalPacketsReceived' <= clientSent' /\ game' = Run(0, totalPacketsReceived')
        /\ \E u \in 0 .. totalPacketsReceived' : clientBuffer' = Run(u, clientSent')
    BY <1>1, <1>3 DEF Numbered, Received
  <2> QED BY <2>1, <2>2, <2>3, <2>4, <2>5 DEF Numbered
<1>17. Truthful'
  <2>1. ASSUME NEW d \in Conns, NEW i \in 1 .. Len(toServer'[d]), toServer'[d][i].kind # "w3gs"
        PROVE  toServer'[d][i].number <= Received
    <3>1. CASE d = c \/ d = socket
      BY <1>6, <2>1, <3>1
    <3>2. CASE ~(d = c \/ d = socket)
      BY <1>1, <1>6, <2>1, <3>2 DEF Truthful
    <3> QED BY <3>1, <3>2
  <2>2. ASSUME NEW d \in Conns, NEW i \in 1 .. Len(toClient'[d]), toClient'[d][i].kind # "w3gs"
        PROVE  toClient'[d][i].number <= R
    <3>1. CASE i \in 1 .. Len(toClient[d]) /\ toClient'[d][i] = toClient[d][i]
      BY <1>1, <2>2, <3>1 DEF Truthful
    <3>2. CASE \E j \in 1 .. Len(q) : toClient'[d][i] = q[j]
      <4>1. PICK j \in 1 .. Len(q) : toClient'[d][i] = q[j]
        BY <3>2
      <4>2. j = 1
        BY <1>11, <2>2, <4>1 DEF AnswerTo
      <4>3. toClient'[d][i] = Reconnect(R)
        BY <1>11, <4>1, <4>2 DEF AnswerTo
      <4> QED BY <1>4, <1>13, <4>3
    <3>3. \/ i \in 1 .. Len(toClient[d]) /\ toClient'[d][i] = toClient[d][i]
          \/ d = c /\ \E j \in 1 .. Len(q) : toClient'[d][i] = q[j]
      BY <1>12, <2>2, Zenon DEF PutOn
    <3> QED BY <3>1, <3>2, <3>3
  <2> QED BY <1>3, <2>1, <2>2 DEF Truthful, Received
<1>18. Unopened'
  <2>1. \A d \in Conns : d > opened => d # c
    BY <1>1, <1>4 DEF Typed, Conns
  <2>2. socket' <= opened' /\ \A d \in reconnectSockets' : d <= opened'
    BY <1>1, <1>2, <1>3, <1>4 DEF Unopened
  <2>4. 1 \notin reconnectSockets'
    BY <1>1, <1>2 DEF Unopened
  <2>3. ASSUME NEW d \in Conns, d > opened PROVE toClient'[d] = << >> /\ toServer'[d] = << >>
    <3>1. toClient[d] = << >> /\ toServer[d] = << >>
      BY <1>1, <2>3 DEF Unopened
    <3> QED BY <1>6, <1>12, <2>1, <2>3, <3>1 DEF PutOn
  <2> QED BY <1>3, <2>2, <2>3, <2>4 DEF Unopened
<1>19. Asking'
  <2>1. ASSUME NEW d \in Conns PROVE Asks(d)'
    <3>1. CASE d = c \/ d = socket
      BY <1>6, <3>1 DEF Asks
    <3>2. CASE ~(d = c \/ d = socket)
      <4>1. toServer'[d] = toServer[d] /\ toClient'[d] = toClient[d]
        BY <1>6, <1>12, <3>2 DEF PutOn
      <4> QED BY <1>1, <1>2, <1>3, <3>2, <4>1 DEF Asking, Asks, Received
    <3> QED BY <3>1, <3>2
  <2>2. ASSUME NEW d \in reconnectSockets, d # c
        PROVE  toServer'[d] # << >> /\ toServer'[d][1].kind = "reconnect"
    <3>1. d \in Conns /\ toServer[d] # << >> /\ toServer[d][1].kind = "reconnect"
      BY <1>1 DEF Asking, Typed
    <3>2. 1 \in 1 .. Len(toServer[d])
      BY <1>1, <3>1, QueueRest DEF Typed
    <3>3. d # socket
      BY <1>1, <3>1, <3>2 DEF Asking, Asks
    <3> QED BY <1>6, <2>2, <3>1, <3>3
  <2> QED BY <1>2, <2>1, <2>2 DEF Asking
<1>20. Answered'
  <2>1. CASE c = clientSocket
    <3>1. \A i \in 1 .. Len(q) : q[i].kind = "reconnect" => i = 1
      BY <1>11 DEF AnswerTo
    <3> QED BY <1>3, <1>5, <1>14, <2>1, <3>1 DEF Answered
  <2>2. CASE c # clientSocket
    <3>1. toClient'[clientSocket] = toClient[clientSocket]
      BY <1>1, <1>12, <2>2 DEF PutOn, Typed
    <3> QED BY <1>1, <1>3, <3>1 DEF Answered
  <2> QED BY <2>1, <2>2
<1>25. c # 1
  BY <1>1, <1>2 DEF Unopened
<1>21. DownStream'
  <2>1. CASE c = clientSocket
    <3>1. Holds(toClient'[clientSocket], Resume, S + 1)
      BY <1>8, <1>11, <1>14, <2>1 DEF AnswerTo
    <3>2. /\ S + 1 \in 0 .. totalPacketsSent' /\ totalPacketsSent' = S + 1
          /\ Resume \in 0 .. totalPacketsSent'
      BY <1>2, <1>4, <1>8, <2>1
    <3>3. Resumes
      BY <1>1, ResumeFacts
    <3>5. Resume' = Resume /\ Received' = Received
      BY <1>3 DEF Resume, Received
    <3>6. PICK d \in Nat : d = Resume
      BY <3>3 DEF Resumes
    <3>4. Continues(d)'
      BY <1>3, <1>25, <2>1, <3>3, <3>5, <3>6 DEF Resumes, Continues
    <3> QED BY <1>3, <3>1, <3>2, <3>4, <3>6 DEF DownStream
  <2>2. CASE c # clientSocket
    <3>1. PICK d \in 0 .. S, s \in 0 .. S : Continues(d) /\ Holds(toClient[clientSocket], d, s)
      BY <1>1 DEF DownStream
    <3>2. toClient'[clientSocket] = toClient[clientSocket]
      BY <1>1, <1>12, <2>2 DEF PutOn, Typed
    <3>3. d \in 0 .. totalPacketsSent' /\ s \in 0 .. totalPacketsSent' /\ socket' # clientSocket'
      BY <1>2, <1>3, <1>4, <2>2, <3>1
    <3>4. Continues(d)'
      BY <1>1, <1>3, <1>23, <3>1, DownUnchanged
    <3> QED BY <1>3, <3>1, <3>2, <3>3, <3>4 DEF DownStream
  <2> QED BY <2>1, <2>2
<1>22. UpStream'
  <2>1. Holds(<< >>, R, R) /\ R \in 0 .. clientSent
    BY <1>4, HoldsNothing
  <2>2. toServer'[c] = << >>
    BY <1>4, <1>6
  <2>3. c = clientSocket => /\ toClient'[c] # << >> /\ toClient'[c][1].kind = "reconnect"
                            /\ toClient'[c][1].number = R
    BY <1>11, <1>13, <1>14 DEF AnswerTo
  <2> QED BY <1>2, <1>3, <1>5, <2>1, <2>2, <2>3 DEF UpStream
<1>24. InOrder'
  BY <1>1, <1>3 DEF InOrder, Received
<1> QED BY <1>24, <1>15, <1>16, <1>17, <1>18, <1>19, <1>20, <1>21, <1>22 DEF Inv

\* An accepted socket is given up.
LEMMA DropReconnectSocketStep == ASSUME Inv, DropReconnectSocket PROVE Inv'
<1>1. /\ Typed /\ Numbered /\ InOrder /\ Truthful /\ Unopened /\ Asking /\ Answered
      /\ DownStream /\ UpStream
  BY DEF Inv
<1>2. PICK c \in reconnectSockets : /\ reconnectSockets' = reconnectSockets \ {c}
                                    /\ toServer' = Emptied(toServer, c)
  BY DEF DropReconnectSocket
<1>3. /\ UNCHANGED << gameLoaded, deleted, totalPacketsSent, totalPacketsReceived, gproxyBuffer >>
      /\ UNCHANGED << socket, opened, clientSocket, clientReady, clientSent, clientBuffer >>
      /\ UNCHANGED << toClient, warcraft, game, unkept >>
  BY DEF DropReconnectSocket, client
<1>4. c \in Conns /\ c # socket /\ toServer \in [Conns -> Seq(Message)]
  <2>1. c \in Conns /\ toServer[c] # << >> /\ toServer[c][1].kind = "reconnect"
        /\ toServer \in [Conns -> Seq(Message)]
    BY <1>1 DEF Asking, Typed
  <2>2. 1 \in 1 .. Len(toServer[c])
    BY <2>1, QueueRest
  <2> QED BY <1>1, <2>1, <2>2 DEF Asking, Asks
<1>5. EmptiedAt(toServer', toServer, c)
  BY <1>2, <1>4, EmptiedFacts
<1>6. Typed'
  BY <1>1, <1>2, <1>3, <1>5 DEF Typed, EmptiedAt
<1>7. Numbered' /\ InOrder'
  BY <1>1, <1>3 DEF Numbered, Keeps, InOrder, Received
<1>8. Truthful'
  BY <1>1, <1>3, <1>5 DEF Truthful, Received, EmptiedAt
<1>9. Unopened'
  BY <1>1, <1>2, <1>3, <1>5 DEF Unopened, EmptiedAt
<1>10. Asking'
  <2>1. ASSUME NEW d \in Conns PROVE Asks(d)'
    <3>1. CASE d = c
      BY <1>5, <3>1 DEF Asks, EmptiedAt
    <3>2. CASE d # c
      BY <1>1, <1>3, <1>5, <3>2 DEF Asking, Asks, Received, EmptiedAt
    <3> QED BY <3>1, <3>2
  <2>2. ASSUME NEW d \in reconnectSockets, d # c
        PROVE  toServer'[d] # << >> /\ toServer'[d][1].kind = "reconnect"
    BY <1>1, <1>5, <2>2 DEF Asking, EmptiedAt, Typed
  <2> QED BY <1>2, <2>1, <2>2 DEF Asking
<1>11. Answered' /\ DownStream'
  BY <1>1, <1>3 DEF Answered, DownStream, Continues, LastPacket, Resume, Received
<1>12. UpStream'
  <2>1. socket # NoConn => toServer'[socket] = toServer[socket]
    BY <1>1, <1>4, <1>5 DEF Typed, EmptiedAt
  <2> QED BY <1>1, <1>3, <2>1 DEF UpStream
<1> QED BY <1>6, <1>7, <1>8, <1>9, <1>10, <1>11, <1>12 DEF Inv

\* The client sends a packet, or keeps it until it is answered.
LEMMA ClientSendStep == ASSUME Inv, ClientSend PROVE Inv'
<1> DEFINE n == clientSent + 1
           m == W3GS(n)
<1>1. /\ Typed /\ Numbered /\ InOrder /\ Truthful /\ Unopened /\ Asking /\ Answered
      /\ DownStream /\ UpStream
  BY DEF Inv
<1>2. /\ clientSent' = n /\ n \in Nat /\ clientSent \in Nat /\ totalPacketsReceived \in Nat
      /\ clientBuffer' = Append(clientBuffer, n)
      /\ toServer' = IF clientReady THEN Put(toServer, clientSocket, << m >>) ELSE toServer
  BY <1>1 DEF ClientSend, Typed
<1>3. /\ UNCHANGED << gameLoaded, deleted, totalPacketsSent, totalPacketsReceived, gproxyBuffer >>
      /\ UNCHANGED << socket, reconnectSockets, opened, clientSocket, clientReady >>
      /\ UNCHANGED << toClient, warcraft, game, unkept >>
  BY DEF ClientSend, server
<1>4. m \in Message /\ m.kind = "w3gs"
  BY <1>2, MessageFacts
<1>5. clientSocket \in Conns /\ clientSocket # NoConn
  BY <1>1 DEF Typed, Conns, NoConn
<1> HIDE DEF m
<1>6. /\ toServer' \in [Conns -> Seq(Message)]
      /\ clientReady => toServer'[clientSocket] = toServer[clientSocket] \o << m >>
      /\ ~clientReady => toServer' = toServer
      /\ \A d \in Conns : d # clientSocket => toServer'[d] = toServer[d]
      /\ \A d \in Conns : toServer[d] # << >> =>
           toServer'[d] # << >> /\ toServer'[d][1] = toServer[d][1]
      /\ \A d \in Conns : \A i \in 1 .. Len(toServer'[d]) :
           \/ i \in 1 .. Len(toServer[d]) /\ toServer'[d][i] = toServer[d][i]
           \/ d = clientSocket /\ toServer'[d][i] = m
  <2>1. toServer \in [Conns -> Seq(Message)]
    BY <1>1 DEF Typed
  <2>2. CASE clientReady
    <3>1. PutOne(toServer', toServer, clientSocket, m)
      BY <1>2, <1>4, <1>5, <2>1, <2>2, PutOneFacts
    <3> QED BY <1>5, <2>2, <3>1 DEF PutOne
  <2>3. CASE ~clientReady
    BY <1>2, <2>1, <2>3
  <2> QED BY <2>2, <2>3
<1>7. Typed'
  BY <1>1, <1>2, <1>3, <1>6 DEF Typed
<1>8. Numbered'
  <2>1. PICK b \in 0 .. totalPacketsReceived : clientBuffer = Run(b, clientSent)
    BY <1>1 DEF Numbered
  <2>2. b \in Nat /\ b <= clientSent /\ totalPacketsReceived <= n
    BY <1>1, <1>2, <2>1 DEF Numbered
  <2>3. Append(Run(b, clientSent), clientSent + 1) = Run(b, clientSent + 1)
    BY <1>2, <2>2, RunAppended
  <2>4. clientBuffer' = Run(b, clientSent')
    BY <1>2, <2>1, <2>3
  <2> QED BY <1>1, <1>2, <1>3, <2>1, <2>2, <2>4 DEF Numbered, Keeps, Received
<1>9. Truthful'
  BY <1>1, <1>3, <1>4, <1>6 DEF Truthful, Received
<1>10. Unopened'
  <2>1. \A d \in Conns : d > opened => d # clientSocket
    BY <1>1 DEF Typed, Conns
  <2> QED BY <1>1, <1>3, <1>6, <2>1 DEF Unopened
<1>11. Asking'
  <2>1. ASSUME NEW d \in Conns PROVE Asks(d)'
    <3>1. CASE clientReady /\ d = clientSocket
      <4>1. \A i \in 1 .. Len(toServer[d]) : toServer[d][i].kind # "reconnect"
        BY <1>1, <3>1 DEF Asking, Asks
      <4>2. \A i \in 1 .. Len(toServer'[d]) : toServer'[d][i].kind # "reconnect"
        BY <1>4, <1>6, <4>1
      <4> QED BY <4>2 DEF Asks
    <3>2. CASE ~(clientReady /\ d = clientSocket)
      <4>1. toServer'[d] = toServer[d]
        BY <1>6, <3>2
      <4> QED BY <1>1, <1>3, <4>1 DEF Asking, Asks, Received
    <3> QED BY <3>1, <3>2
  <2> QED BY <1>1, <1>3, <1>6, <2>1 DEF Asking, Typed
<1>12. Answered' /\ DownStream' /\ InOrder'
  BY <1>1, <1>3 DEF Answered, DownStream, Continues, LastPacket, Resume, InOrder, Received
<1>13. UpStream'
  <2> SUFFICES ASSUME socket # NoConn PROVE UpStream'
    BY <1>3 DEF UpStream
  <2>1. PICK s \in 0 .. clientSent : /\ Holds(toServer[socket], totalPacketsReceived, s)
                                     /\ socket = clientSocket /\ clientReady => s = clientSent
    BY <1>1 DEF UpStream
  <2>2. CASE socket = clientSocket /\ clientReady
    <3>1. toServer[socket] \in Seq(Message) /\ Holds(toServer[socket], totalPacketsReceived, clientSent)
      BY <1>1, <1>5, <2>1, <2>2 DEF Typed
    <3>2. Holds(toServer[socket] \o << W3GS(clientSent + 1) >>, totalPacketsReceived, clientSent + 1)
      BY <1>2, <3>1, HoldsSent
    <3>3. Holds(toServer'[socket], totalPacketsReceived, n)
      BY <1>6, <2>2, <3>2 DEF m
    <3> QED BY <1>2, <1>3, <2>2, <3>3 DEF UpStream
  <2>3. CASE ~(socket = clientSocket /\ clientReady)
    <3>1. toServer'[socket] = toServer[socket]
      BY <1>1, <1>6, <2>3 DEF Typed
    <3>2. s \in 0 .. clientSent'
      BY <1>2, <2>1
    <3> QED BY <1>1, <1>3, <2>1, <2>3, <3>1, <3>2 DEF UpStream
  <2> QED BY <2>2, <2>3
<1> QED BY <1>7, <1>8, <1>9, <1>10, <1>11, <1>12, <1>13 DEF Inv

\* The client acknowledges.
LEMMA ClientAckStep == ASSUME Inv, ClientAck PROVE Inv'
<1> DEFINE m == Ack(Received)
<1>1. /\ Typed /\ Numbered /\ InOrder /\ Truthful /\ Unopened /\ Asking /\ Answered
      /\ DownStream /\ UpStream
  BY DEF Inv
<1>2. clientReady /\ toServer' = Put(toServer, clientSocket, << m >>)
  BY DEF ClientAck, Received
<1>3. /\ UNCHANGED << gameLoaded, deleted, totalPacketsSent, totalPacketsReceived, gproxyBuffer >>
      /\ UNCHANGED << socket, reconnectSockets, opened, clientSocket, clientReady >>
      /\ UNCHANGED << clientSent, clientBuffer, toClient, warcraft, game, unkept >>
  BY DEF ClientAck, server, client
<1>4. m \in Message /\ m.kind = "ack" /\ m.number = Received /\ Received \in Nat
  BY <1>1, MessageFacts DEF Numbered
<1>5. clientSocket \in Conns /\ clientSocket # NoConn /\ toServer \in [Conns -> Seq(Message)]
  BY <1>1 DEF Typed, Conns, NoConn
<1> HIDE DEF m
<1>6. PutOne(toServer', toServer, clientSocket, m)
  BY <1>2, <1>4, <1>5, PutOneFacts
<1>7. Typed'
  BY <1>1, <1>3, <1>6 DEF Typed, PutOne
<1>8. Numbered' /\ InOrder'
  BY <1>1, <1>3 DEF Numbered, Keeps, InOrder, Received
<1>9. Truthful'
  <2>1. ASSUME NEW d \in Conns, NEW i \in 1 .. Len(toServer'[d]), toServer'[d][i].kind # "w3gs"
        PROVE  toServer'[d][i].number <= Received
    <3>1. CASE i \in 1 .. Len(toServer[d]) /\ toServer'[d][i] = toServer[d][i]
      BY <1>1, <2>1, <3>1 DEF Truthful
    <3>2. CASE toServer'[d][i] = m
      BY <1>4, <3>2
    <3> QED BY <1>6, <3>1, <3>2 DEF PutOne
  <2> QED BY <1>1, <1>3, <2>1 DEF Truthful, Received
<1>10. Unopened'
  <2>1. \A d \in Conns : d > opened => d # clientSocket
    BY <1>1 DEF Typed, Conns
  <2> QED BY <1>1, <1>3, <1>6, <2>1 DEF Unopened, PutOne
<1>11. Asking'
  <2>1. ASSUME NEW d \in Conns PROVE Asks(d)'
    <3>1. CASE d = clientSocket
      <4>1. \A i \in 1 .. Len(toServer[d]) : toServer[d][i].kind # "reconnect"
        BY <1>1, <1>2, <3>1 DEF Asking, Asks
      <4>2. \A i \in 1 .. Len(toServer'[d]) : toServer'[d][i].kind # "reconnect"
        BY <1>4, <1>6, <4>1 DEF PutOne
      <4> QED BY <4>2 DEF Asks
    <3>2. CASE d # clientSocket
      <4>1. toServer'[d] = toServer[d]
        BY <1>6, <3>2 DEF PutOne
      <4> QED BY <1>1, <1>3, <4>1 DEF Asking, Asks, Received
    <3> QED BY <3>1, <3>2
  <2> QED BY <1>1, <1>3, <1>6, <2>1 DEF Asking, Typed, PutOne
<1>12. Answered' /\ DownStream'
  BY <1>1, <1>3 DEF Answered, DownStream, Continues, LastPacket, Resume, Received
<1>13. UpStream'
  <2> SUFFICES ASSUME socket # NoConn PROVE UpStream'
    BY <1>3 DEF UpStream
  <2>1. PICK s \in 0 .. clientSent : /\ Holds(toServer[socket], totalPacketsReceived, s)
                                     /\ socket = clientSocket /\ clientReady => s = clientSent
    BY <1>1 DEF UpStream
  <2>2. Holds(toServer'[socket], totalPacketsReceived, s)
    <3>1. CASE socket = clientSocket
      <4>1. toServer'[socket] = toServer[socket] \o << m >>
        BY <1>5, <1>6, <3>1 DEF PutOne
      <4>2. /\ toServer[socket] \in Seq(Message) /\ totalPacketsReceived \in Nat /\ s \in Nat
            /\ m.kind # "w3gs"
        BY <1>1, <1>4, <1>5, <2>1, <3>1 DEF Typed
      <4> QED BY <1>4, <2>1, <4>1, <4>2, HoldsTold
    <3>2. CASE socket # clientSocket
      BY <1>1, <1>6, <2>1, <3>2 DEF PutOne, Typed
    <3> QED BY <3>1, <3>2
  <2> QED BY <1>2, <1>3, <2>1, <2>2 DEF UpStream
<1> QED BY <1>7, <1>8, <1>9, <1>10, <1>11, <1>12, <1>13 DEF Inv

\* The client opens another connection.
LEMMA ClientReconnectStep == ASSUME Inv, ClientReconnect PROVE Inv'
<1> DEFINE c == opened + 1
           m == Reconnect(Received)
<1>1. /\ Typed /\ Numbered /\ InOrder /\ Truthful /\ Unopened /\ Asking /\ Answered
      /\ DownStream /\ UpStream
  BY DEF Inv
<1>2. /\ opened' = c /\ clientSocket' = c /\ clientReady' = FALSE
      /\ toClient' = Emptied(toClient, clientSocket)
      /\ toServer' = Put(toServer, c, << m >>)
  BY DEF ClientReconnect, Received
<1>3. /\ UNCHANGED << gameLoaded, deleted, totalPacketsSent, totalPacketsReceived, gproxyBuffer >>
      /\ UNCHANGED << socket, reconnectSockets, clientSent, clientBuffer, warcraft, game, unkept >>
      /\ gameLoaded
  BY DEF ClientReconnect, server
<1>4. /\ c \in Conns /\ c # NoConn /\ opened \in Conns /\ opened < c /\ clientSocket \in Conns
      /\ toServer \in [Conns -> Seq(Message)] /\ toClient \in [Conns -> Seq(Message)]
  BY <1>1 DEF ClientReconnect, Typed, Conns, NoConn
<1>5. /\ c # socket /\ toClient[c] = << >> /\ toServer[c] = << >> /\ c # clientSocket
      /\ \A d \in reconnectSockets : d # c
  BY <1>1, <1>4, SMTT(30) DEF Unopened, Typed, Conns, NoConn
<1>6. m \in Message /\ m.kind = "reconnect" /\ m.number = Received /\ Received \in Nat
  BY <1>1, MessageFacts DEF Numbered
<1>7. EmptiedAt(toClient', toClient, clientSocket)
  BY <1>2, <1>4, EmptiedFacts
<1> HIDE DEF m, c
<1>8. PutOne(toServer', toServer, c, m)
  BY <1>2, <1>4, <1>6, PutOneFacts
<1>9. toServer'[c] = << m >> /\ toClient'[c] = << >>
  <2>1. toServer'[c] = << >> \o << m >>
    BY <1>4, <1>5, <1>8 DEF PutOne
  <2>2. << m >> \in Seq(Message)
    BY <1>6
  <2>3. << >> \o << m >> = << m >>
    BY <2>2, ConcatEmptySeq
  <2> QED BY <1>4, <1>5, <1>7, <2>1, <2>3 DEF EmptiedAt
<1>10. Typed'
  BY <1>1, <1>2, <1>3, <1>4, <1>7, <1>8 DEF Typed, EmptiedAt, PutOne
<1>11. Numbered' /\ InOrder'
  <2>1. Numbered'
    BY <1>1, <1>3 DEF Numbered, Keeps, Received
  <2>2. clientSocket' # 1
    BY <1>2, <1>4 DEF Conns
  <2> QED BY <1>1, <1>3, <2>1, <2>2 DEF InOrder, Received
<1>12. Truthful'
  <2>1. ASSUME NEW d \in Conns, NEW i \in 1 .. Len(toServer'[d]), toServer'[d][i].kind # "w3gs"
        PROVE  toServer'[d][i].number <= Received
    <3>1. CASE i \in 1 .. Len(toServer[d]) /\ toServer'[d][i] = toServer[d][i]
      BY <1>1, <2>1, <3>1 DEF Truthful
    <3>2. CASE toServer'[d][i] = m
      BY <1>6, <3>2
    <3> QED BY <1>8, <3>1, <3>2 DEF PutOne
  <2>2. ASSUME NEW d \in Conns, NEW i \in 1 .. Len(toClient'[d]), toClient'[d][i].kind # "w3gs"
        PROVE  toClient'[d][i].number <= totalPacketsReceived
    BY <1>1, <1>7, <2>2 DEF Truthful, EmptiedAt
  <2> QED BY <1>3, <2>1, <2>2 DEF Truthful, Received
<1>13. Unopened'
  <2>1. socket <= c /\ \A d \in reconnectSockets : d <= c
    BY <1>1, <1>4 DEF Unopened, Typed, Conns, NoConn
  <2>2. ASSUME NEW d \in Conns, d > c PROVE toClient'[d] = << >> /\ toServer'[d] = << >>
    <3>1. d > opened /\ d # c
      BY <1>4, <2>2 DEF Conns
    <3> QED BY <1>1, <1>7, <1>8, <3>1 DEF Unopened, EmptiedAt, PutOne
  <2> QED BY <1>1, <1>2, <1>3, <2>1, <2>2 DEF Unopened
<1>14. Asking'
  <2>1. ASSUME NEW d \in Conns PROVE Asks(d)'
    <3>1. CASE d = c
      <4>1. Len(toServer'[c]) = 1 /\ \A i \in 1 .. Len(toServer'[c]) : toServer'[c][i] = m
        BY <1>6, <1>9, OneMessage
      <4> QED BY <1>2, <1>3, <1>5, <1>6, <1>9, <3>1, <4>1 DEF Asks, Received
    <3>2. CASE d # c
      <4>1. toServer'[d] = toServer[d]
        BY <1>8, <3>2 DEF PutOne
      <4> QED BY <1>1, <1>2, <1>3, <3>2, <4>1 DEF Asking, Asks
    <3> QED BY <3>1, <3>2
  <2> QED BY <1>1, <1>3, <1>8, <2>1 DEF Asking, Typed, PutOne
<1>15. Answered'
  BY <1>2, <1>9 DEF Answered
<1>16. DownStream'
  <2>1. /\ Resumes /\ Resume \in 0 .. totalPacketsSent
    BY <1>1, ResumeFacts
  <2>2. Holds(<< >>, Resume, Resume)
    BY <1>1, <2>1, HoldsNothing DEF Typed
  <2>3. clientSocket' # 1
    BY <1>2, <1>4 DEF Conns
  <2>4. /\ Resume' = Resume /\ Received' = Received
    BY <1>3 DEF Resume, Received
  <2>7. PICK d \in Nat : d = Resume
    BY <2>1 DEF Resumes
  <2>5. Continues(d)'
    BY <1>3, <2>1, <2>3, <2>4, <2>7 DEF Resumes, Continues
  <2>6. toClient'[clientSocket'] = << >> /\ socket' # clientSocket'
    BY <1>2, <1>3, <1>5, <1>9
  <2> QED BY <1>3, <2>1, <2>2, <2>5, <2>6, <2>7 DEF DownStream
<1>17. UpStream'
  <2>1. socket # NoConn => toServer'[socket] = toServer[socket]
    BY <1>1, <1>5, <1>8 DEF Typed, PutOne
  <2> QED BY <1>1, <1>2, <1>3, <1>5, <2>1 DEF UpStream
<1> QED BY <1>10, <1>11, <1>12, <1>13, <1>14, <1>15, <1>16, <1>17 DEF Inv

\* What ClientRead reads, and from what state
LEMMA ClientReadFacts ==
  ASSUME Inv, ClientRead
  PROVE  LET q == toClient[clientSocket]
             m == q[1]
         IN  /\ q \in Seq(Message) /\ q # << >> /\ Head(q) = m /\ m \in Message
             /\ m.kind \in Kinds /\ m.number \in Nat
             /\ Tail(q) \in Seq(Message)
             /\ \A i \in 1 .. Len(Tail(q)) :
                  /\ i + 1 \in 1 .. Len(q) /\ Tail(q)[i] = q[i + 1]
                  /\ Tail(q)[i].kind # "reconnect"
             /\ m.kind # "w3gs" => m.number <= totalPacketsReceived
             /\ m.kind = "reconnect" =>
                  /\ ~clientReady
                  /\ socket = clientSocket =>
                       toServer[socket] = << >> /\ m.number = totalPacketsReceived
             /\ m.kind # "reconnect" /\ socket = clientSocket => clientReady
             /\ \A i \in 1 .. Len(toServer[clientSocket]) :
                  toServer[clientSocket][i].kind # "reconnect"
<1> DEFINE q == toClient[clientSocket]
           m == q[1]
<1>1. /\ Typed /\ Numbered /\ InOrder /\ Truthful /\ Unopened /\ Asking /\ Answered
      /\ DownStream /\ UpStream
  BY DEF Inv
<1>2. clientSocket \in Conns /\ clientSocket # NoConn /\ q \in Seq(Message) /\ q # << >>
  BY <1>1 DEF ClientRead, Typed, Conns, NoConn
<1> HIDE DEF q
<1>3. /\ Head(q) = m /\ m \in Message /\ 1 \in 1 .. Len(q) /\ Tail(q) \in Seq(Message)
      /\ \A i \in 1 .. Len(Tail(q)) : i + 1 \in 2 .. Len(q) /\ Tail(q)[i] = q[i + 1]
  BY <1>2, QueueRest
<1>4. \A i \in 1 .. Len(q) : q[i].kind = "reconnect" => i = 1 /\ ~clientReady
  BY <1>1 DEF Answered, q
<1>5. \A i \in 1 .. Len(Tail(q)) : /\ i + 1 \in 1 .. Len(q) /\ Tail(q)[i] = q[i + 1]
                                   /\ Tail(q)[i].kind # "reconnect"
  BY <1>3, <1>4
<1>6. m.kind \in Kinds /\ m.number \in Nat
  BY <1>3 DEF Message, Numbers
<1>7. m.kind # "w3gs" => m.number <= totalPacketsReceived
  BY <1>1, <1>2, <1>3 DEF Truthful, q
<1>8. m.kind = "reconnect" => ~clientReady
  BY <1>3, <1>4
<1>9. socket = clientSocket /\ ~clientReady =>
        toServer[socket] = << >> /\ m.kind = "reconnect" /\ m.number = totalPacketsReceived
  BY <1>1, <1>2 DEF UpStream, q
<1>10. \A i \in 1 .. Len(toServer[clientSocket]) : toServer[clientSocket][i].kind # "reconnect"
  BY <1>1, <1>2 DEF Asking, Asks, q
<1> HIDE DEF m
<1>11. /\ q \in Seq(Message) /\ q # << >> /\ Head(q) = m /\ m \in Message
       /\ m.kind \in Kinds /\ m.number \in Nat
       /\ Tail(q) \in Seq(Message)
       /\ \A i \in 1 .. Len(Tail(q)) :
            /\ i + 1 \in 1 .. Len(q) /\ Tail(q)[i] = q[i + 1]
            /\ Tail(q)[i].kind # "reconnect"
       /\ m.kind # "w3gs" => m.number <= totalPacketsReceived
       /\ m.kind = "reconnect" =>
            /\ ~clientReady
            /\ socket = clientSocket =>
                 toServer[socket] = << >> /\ m.number = totalPacketsReceived
       /\ m.kind # "reconnect" /\ socket = clientSocket => clientReady
  BY <1>2, <1>3, <1>5, <1>6, <1>7, <1>8, <1>9
<1> QED BY <1>10, <1>11 DEF q, m

\* What holds when the packet after l has arrived
Arrives(l) ==
  /\ warcraft' \in Seq(Nat) /\ Range(warcraft') \subseteq 1 .. totalPacketsSent
  /\ Received' = Received + 1 /\ Received' \in Nat /\ Received <= Received'
  /\ Received' <= totalPacketsSent
  /\ InOrder' /\ Continues(l + 1)'

\* A packet arrives.
LEMMA PacketArrives ==
  ASSUME Typed, Numbered, InOrder, NEW l \in Nat, Continues(l), l + 1 \in 0 .. totalPacketsSent,
         warcraft' = Append(warcraft, l + 1),
         UNCHANGED << gameLoaded, clientSocket, unkept, totalPacketsSent >>
  PROVE  Arrives(l)
<1>1. /\ warcraft \in Seq(Nat) /\ Range(warcraft) \subseteq 1 .. totalPacketsSent
      /\ Received \in Nat /\ unkept \in Nat /\ totalPacketsSent \in Nat
      /\ Received <= l /\ unkept + 1 .. l \subseteq Range(warcraft)
      /\ l \in {LastPacket, Resume}
      /\ clientSocket = 1 => l = Received
      /\ clientSocket # 1 => gameLoaded /\ unkept <= l
  BY DEF Typed, Numbered, Continues
<1>2. /\ warcraft' \in Seq(Nat) /\ Len(warcraft') = Received + 1 /\ warcraft' # << >>
      /\ warcraft'[Received + 1] = l + 1 /\ Range(warcraft') = Range(warcraft) \cup {l + 1}
  <2> DEFINE v == Append(warcraft, l + 1)
  <2>1. /\ v \in Seq(Nat) /\ Len(v) = Received + 1 /\ v[Received + 1] = l + 1
    BY <1>1, AppendProperties DEF Received
  <2>2. Range(v) = Range(warcraft) \cup {l + 1}
    BY <1>1, RangeAppended
  <2>3. warcraft' = v
    OBVIOUS
  <2> HIDE DEF v
  <2>4. v # << >>
    BY <1>1, <2>1, EmptySeq
  <2> QED BY <2>1, <2>2, <2>3, <2>4
<1>3. Received' = Received + 1 /\ LastPacket' = l + 1
  BY <1>2 DEF Received, LastPacket
<1>4. Continues(l + 1)'
  <2>1. unkept + 1 .. l + 1 \subseteq Range(warcraft')
    BY <1>1, <1>2
  <2> QED BY <1>1, <1>3, <2>1 DEF Continues
<1>5. InOrder'
  <2> SUFFICES ASSUME clientSocket = 1 \/ 1 .. unkept \subseteq Range(warcraft')
               PROVE  warcraft' = Run(0, Received')
    BY DEF InOrder
  <2>1. l = Received /\ warcraft = Run(0, Received)
    <3>1. CASE clientSocket = 1
      BY <1>1, <3>1 DEF InOrder
    <3>2. CASE clientSocket # 1
      <4>1. 1 .. unkept \subseteq Range(warcraft)
        BY <1>1, <1>2, <3>2
      <4>2. warcraft = Run(0, Received)
        BY <4>1 DEF InOrder
      <4>3. Range(warcraft) = 1 .. Received
        BY <1>1, <4>2, RangeRun, 0 \in Nat, 0 <= Received, 0 + 1 = 1
      <4>4. unkept <= Received
        BY <1>1, <4>1, <4>3
      <4>5. Resume = Received
        BY <1>1, <4>4 DEF Resume
      <4>6. LastPacket = Received
        BY <1>1, <4>2, LastOfRun
      <4> QED BY <1>1, <4>2, <4>5, <4>6
    <3> QED BY <3>1, <3>2
  <2>2. Append(Run(0, Received), Received + 1) = Run(0, Received + 1)
    BY <1>1, RunAppended, 0 \in Nat, 0 <= Received
  <2> QED BY <1>3, <2>1, <2>2
<1> QED BY <1>1, <1>2, <1>3, <1>4, <1>5 DEF Arrives

\* The client reads; an answer makes it send what did not arrive.
LEMMA ClientReadStep == ASSUME Inv, ClientRead PROVE Inv'
<1> DEFINE c == clientSocket
           q == toClient[c]
           m == q[1]
           R == totalPacketsReceived
<1>1. /\ Typed /\ Numbered /\ InOrder /\ Truthful /\ Unopened /\ Asking /\ Answered
      /\ DownStream /\ UpStream
  BY DEF Inv
<1>2. /\ c \in Conns /\ c # NoConn /\ Received \in Nat /\ R \in Nat /\ totalPacketsSent \in Nat
      /\ clientSent \in Nat /\ R <= clientSent
      /\ toClient \in [Conns -> Seq(Message)] /\ toServer \in [Conns -> Seq(Message)]
  BY <1>1 DEF Typed, Numbered, Conns, NoConn
<1>3. /\ q \in Seq(Message) /\ q # << >> /\ Head(q) = m /\ m \in Message
      /\ m.kind \in Kinds /\ m.number \in Nat
      /\ \A i \in 1 .. Len(Tail(q)) :
           /\ i + 1 \in 1 .. Len(q) /\ Tail(q)[i] = q[i + 1]
           /\ Tail(q)[i].kind # "reconnect"
      /\ m.kind # "w3gs" => m.number <= R
      /\ m.kind = "reconnect" =>
           /\ ~clientReady
           /\ socket = c => toServer[socket] = << >> /\ m.number = R
      /\ m.kind # "reconnect" /\ socket = c => clientReady
      /\ \A i \in 1 .. Len(toServer[c]) : toServer[c][i].kind # "reconnect"
  BY ClientReadFacts
<1> DEFINE left == Unqueued(clientBuffer, clientSent, m.number)
<1>4. /\ warcraft' = IF m.kind = "w3gs" THEN Append(warcraft, m.number) ELSE warcraft
      /\ clientBuffer' = IF m.kind = "w3gs" THEN clientBuffer ELSE left
      /\ clientReady' = (clientReady \/ m.kind = "reconnect")
      /\ toServer' = IF m.kind = "reconnect" THEN Put(toServer, c, Packets(left)) ELSE toServer
      /\ toClient' = Read(toClient, c)
  BY <1>3 DEF ClientRead
<1>5. /\ UNCHANGED << gameLoaded, deleted, totalPacketsSent, totalPacketsReceived, gproxyBuffer >>
      /\ UNCHANGED << socket, reconnectSockets, opened, clientSocket, clientSent, game, unkept >>
  BY DEF ClientRead, server
<1>6. ReadAt(toClient', toClient, c)
  BY <1>2, <1>3, <1>4, ReadFacts
<1>7. toClient'[c] = Tail(q)
  BY <1>6 DEF ReadAt
<1> HIDE DEF m, q
<1>8. PICK l \in 0 .. totalPacketsSent, s \in 0 .. totalPacketsSent :
        /\ Continues(l) /\ Holds(q, l, s)
        /\ socket = c => s = totalPacketsSent
  BY <1>1 DEF DownStream, q
<1>9. IF m.kind = "w3gs"
      THEN m.number = l + 1 /\ l + 1 <= s /\ Holds(Tail(q), l + 1, s)
      ELSE Holds(Tail(q), l, s)
  <2>1. l \in Nat /\ s \in Nat
    BY <1>2, <1>8
  <2> QED BY <1>3, <1>8, <2>1, HoldsRest
<1>10. /\ warcraft' \in Seq(Nat) /\ Range(warcraft') \subseteq 1 .. totalPacketsSent
       /\ Received' \in Nat /\ Received <= Received' /\ Received' <= totalPacketsSent
       /\ InOrder'
       /\ \E d \in 0 .. totalPacketsSent : Continues(d)' /\ Holds(Tail(q), d, s)
  <2>1. CASE m.kind = "w3gs"
    <3>1. /\ l \in Nat /\ l + 1 \in 0 .. totalPacketsSent /\ Holds(Tail(q), l + 1, s)
          /\ warcraft' = Append(warcraft, l + 1)
      BY <1>2, <1>4, <1>8, <1>9, <2>1
    <3>2. Arrives(l)
      BY <1>1, <1>5, <1>8, <3>1, PacketArrives
    <3> QED BY <3>1, <3>2 DEF Arrives
  <2>2. CASE m.kind # "w3gs"
    <3>1. Received' = Received /\ warcraft' = warcraft
      BY <1>4, <2>2 DEF Received
    <3>2. Continues(l)' /\ InOrder'
      BY <1>1, <1>5, <1>8, <3>1 DEF Continues, LastPacket, Resume, InOrder
    <3> QED BY <1>1, <1>2, <1>8, <1>9, <2>2, <3>1, <3>2 DEF Numbered
  <2> QED BY <2>1, <2>2
<1>11. PICK b \in 0 .. R : clientBuffer = Run(b, clientSent)
  BY <1>1 DEF Numbered
<1> DEFINE k == IF m.number > b THEN m.number ELSE b
<1>12. m.kind # "w3gs" => /\ k \in 0 .. R /\ left = Run(k, clientSent)
                          /\ m.number = R => k = R
  <2> SUFFICES ASSUME m.kind # "w3gs"
               PROVE  /\ k \in 0 .. R /\ left = Run(k, clientSent)
                      /\ m.number = R => k = R
    OBVIOUS
  <2>1. b \in Nat /\ b <= clientSent /\ m.number \in Nat /\ m.number <= clientSent /\ m.number <= R
    BY <1>2, <1>3, <1>11
  <2>2. Unqueued(Run(b, clientSent), clientSent, m.number) = Run(k, clientSent)
    BY <1>2, <2>1, RunUnqueued
  <2>3. left = Run(k, clientSent)
    BY <1>11, <2>2
  <2>4. k \in 0 .. R /\ (m.number = R => k = R)
    BY <1>2, <1>11, <2>1
  <2> HIDE DEF k, left
  <2> QED BY <2>3, <2>4
<1> HIDE DEF k, left
<1> DEFINE x == Packets(left)
<1>13. m.kind = "reconnect" => /\ x = Packets(Run(k, clientSent)) /\ x \in Seq(Message)
                               /\ \A j \in 1 .. Len(x) : x[j].kind = "w3gs"
                               /\ Holds(x, k, clientSent)
  <2> SUFFICES ASSUME m.kind = "reconnect"
               PROVE  /\ x = Packets(Run(k, clientSent)) /\ x \in Seq(Message)
                      /\ \A j \in 1 .. Len(x) : x[j].kind = "w3gs"
                      /\ Holds(x, k, clientSent)
    OBVIOUS
  <2>1. k \in Nat /\ k <= clientSent /\ x = Packets(Run(k, clientSent))
    BY <1>2, <1>12
  <2> HIDE DEF x
  <2>2. /\ x \in Seq(Message) /\ Len(x) = clientSent - k
        /\ \A i \in 1 .. clientSent - k : x[i] = W3GS(k + i)
    BY <1>2, <2>1, PacketsFacts
  <2>3. \A i \in 1 .. clientSent - k : W3GS(k + i).kind = "w3gs"
    BY <1>2, <2>1, MessageFacts
  <2>4. Holds(x, k, clientSent)
    BY <1>2, <2>1, HoldsPackets
  <2> QED BY <2>1, <2>2, <2>3, <2>4
<1> HIDE DEF x
<1>14. /\ toServer' \in [Conns -> Seq(Message)]
       /\ m.kind = "reconnect" => toServer'[c] = toServer[c] \o x
       /\ m.kind # "reconnect" => toServer' = toServer
       /\ \A d \in Conns : d # c => toServer'[d] = toServer[d]
       /\ \A d \in Conns : \A i \in 1 .. Len(toServer'[d]) :
            \/ i \in 1 .. Len(toServer[d]) /\ toServer'[d][i] = toServer[d][i]
            \/ d = c /\ toServer'[d][i].kind = "w3gs"
  <2>1. CASE m.kind = "reconnect"
    <3>1. PutOn(toServer', toServer, c, x)
      BY <1>2, <1>4, <1>13, <2>1, PutFacts DEF x
    <3>2. ASSUME NEW d \in Conns, NEW i \in 1 .. Len(toServer'[d])
          PROVE  \/ i \in 1 .. Len(toServer[d]) /\ toServer'[d][i] = toServer[d][i]
                 \/ d = c /\ toServer'[d][i].kind = "w3gs"
      <4>1. \/ i \in 1 .. Len(toServer[d]) /\ toServer'[d][i] = toServer[d][i]
            \/ d = c /\ \E j \in 1 .. Len(x) : toServer'[d][i] = x[j]
        BY <3>1 DEF PutOn
      <4>2. \A j \in 1 .. Len(x) : x[j].kind = "w3gs"
        BY <1>13, <2>1
      <4> HIDE DEF c
      <4> QED BY <4>1, <4>2
    <3> QED BY <1>2, <2>1, <3>1, <3>2 DEF PutOn
  <2>2. CASE m.kind # "reconnect"
    BY <1>2, <1>4, <2>2
  <2> QED BY <2>1, <2>2
<1>15. \A i \in 1 .. Len(toServer'[c]) : toServer'[c][i].kind # "reconnect"
  BY <1>2, <1>3, <1>14
<1>16. Typed'
  BY <1>1, <1>3, <1>4, <1>5, <1>6, <1>14 DEF Typed, ReadAt
<1>17. Numbered'
  <2>1. \E d \in 0 .. R : clientBuffer' = Run(d, clientSent)
    BY <1>4, <1>11, <1>12
  <2>2. PICK d \in 0 .. totalPacketsSent : Keeps(d)
    BY <1>1 DEF Numbered
  <2>3. Keeps(d)'
    <3>1. d = unkept \/ d <= Received'
      BY <1>2, <1>10, <2>2 DEF Keeps
    <3> QED BY <1>5, <2>2, <3>1 DEF Keeps
  <2>4. /\ Received' <= totalPacketsSent' /\ Range(warcraft)' \subseteq 1 .. totalPacketsSent'
    BY <1>5, <1>10
  <2> QED BY <1>1, <1>5, <1>10, <2>1, <2>2, <2>3, <2>4 DEF Numbered
<1>18. Truthful'
  <2>1. ASSUME NEW d \in Conns, NEW i \in 1 .. Len(toServer'[d]), toServer'[d][i].kind # "w3gs"
        PROVE  toServer'[d][i].number <= Received'
    <3>1. i \in 1 .. Len(toServer[d]) /\ toServer'[d][i] = toServer[d][i]
      BY <1>14, <2>1
    <3>2. toServer[d][i] \in Message
      <4>1. toServer[d] \in Seq(Message)
        BY <1>2
      <4> QED BY <3>1, <4>1, ElementOfSeq
    <3>3. toServer[d][i].number \in Nat /\ toServer[d][i].number <= Received
      BY <1>1, <2>1, <3>1, <3>2 DEF Truthful, Message, Numbers
    <3> QED BY <1>2, <1>10, <3>1, <3>3
  <2>2. ASSUME NEW d \in Conns, NEW i \in 1 .. Len(toClient'[d]), toClient'[d][i].kind # "w3gs"
        PROVE  toClient'[d][i].number <= R
    <3>1. CASE d = c
      <4>1. i + 1 \in 1 .. Len(q) /\ toClient'[d][i] = q[i + 1]
        BY <1>3, <1>7, <2>2, <3>1
      <4> QED BY <1>1, <1>2, <2>2, <3>1, <4>1 DEF Truthful, q
    <3>2. CASE d # c
      BY <1>1, <1>6, <2>2, <3>2 DEF Truthful, ReadAt
    <3> QED BY <3>1, <3>2
  <2> QED BY <1>5, <2>1, <2>2 DEF Truthful
<1>19. Unopened'
  <2>1. \A d \in Conns : d > opened => d # c
    BY <1>1 DEF Typed, Conns
  <2> QED BY <1>1, <1>5, <1>6, <1>14, <2>1 DEF Unopened, ReadAt
<1>20. Asking'
  <2>1. ASSUME NEW d \in Conns PROVE Asks(d)'
    <3>1. CASE d = c
      BY <1>15, <3>1 DEF Asks
    <3>2. CASE d # c
      <4>1. toServer'[d] = toServer[d]
        BY <1>14, <3>2
      <4> QED BY <1>1, <1>5, <3>2, <4>1 DEF Asking, Asks
    <3> QED BY <3>1, <3>2
  <2>2. ASSUME NEW d \in reconnectSockets
        PROVE  toServer'[d] # << >> /\ toServer'[d][1].kind = "reconnect"
    <3>1. d \in Conns /\ toServer[d] # << >> /\ toServer[d][1].kind = "reconnect"
      BY <1>1 DEF Asking, Typed
    <3>2. 1 \in 1 .. Len(toServer[d])
      BY <1>2, <3>1, QueueRest
    <3>3. d # c
      BY <1>3, <3>1, <3>2
    <3> QED BY <1>14, <3>1, <3>3
  <2> QED BY <1>5, <2>1, <2>2 DEF Asking
<1>21. Answered'
  BY <1>3, <1>5, <1>7 DEF Answered
<1>22. DownStream'
  BY <1>5, <1>7, <1>8, <1>10 DEF DownStream
<1>24. InOrder'
  BY <1>10
<1>23. UpStream'
  <2> SUFFICES ASSUME socket # NoConn PROVE UpStream'
    BY <1>5 DEF UpStream
  <2>1. PICK u \in 0 .. clientSent : /\ Holds(toServer[socket], R, u)
                                     /\ socket = c /\ clientReady => u = clientSent
    BY <1>1 DEF UpStream
  <2>2. CASE socket = c /\ m.kind = "reconnect"
    <3>1. toServer'[socket] = << >> \o x /\ x \in Seq(Message)
      BY <1>3, <1>13, <1>14, <2>2
    <3>2. toServer'[socket] = x
      BY <3>1, ConcatEmptySeq
    <3>3. Holds(x, R, clientSent)
      BY <1>3, <1>12, <1>13, <2>2
    <3>4. clientReady'
      BY <1>4, <2>2, Zenon
    <3>5. clientSent \in 0 .. clientSent
      BY <1>2
    <3> QED BY <1>5, <3>2, <3>3, <3>4, <3>5 DEF UpStream
  <2>3. CASE socket = c /\ m.kind # "reconnect"
    <3>1. clientReady /\ clientReady' /\ toServer' = toServer
      BY <1>3, <1>4, <2>3
    <3> QED BY <1>5, <2>1, <3>1 DEF UpStream
  <2>4. CASE socket # c
    <3>1. toServer'[socket] = toServer[socket]
      BY <1>1, <1>14, <2>4 DEF Typed
    <3> QED BY <1>5, <2>1, <2>4, <3>1 DEF UpStream
  <2> QED BY <2>2, <2>3, <2>4
<1> QED BY <1>16, <1>17, <1>18, <1>19, <1>20, <1>21, <1>22, <1>23, <1>24 DEF Inv

\* Every step preserves the invariant.
LEMMA InvStep == ASSUME Inv, [Next]_vars PROVE Inv'
<1>1. CASE UNCHANGED vars
  <2>1. /\ UNCHANGED << gameLoaded, deleted, totalPacketsSent, totalPacketsReceived, gproxyBuffer >>
        /\ UNCHANGED << socket, reconnectSockets, opened, clientSocket, clientReady >>
        /\ UNCHANGED << clientSent, clientBuffer, toClient, toServer, warcraft, game, unkept >>
    BY <1>1 DEF vars, server, client
  <2>2. Typed' /\ Numbered' /\ InOrder' /\ Truthful' /\ Unopened'
    BY <2>1 DEF Inv, Typed, Numbered, Keeps, InOrder, Truthful, Unopened, Received
  <2>3. Asking' /\ Answered' /\ UpStream'
    BY <2>1 DEF Inv, Asking, Asks, Answered, UpStream, Received
  <2>4. DownStream'
    BY <2>1 DEF Inv, DownStream, Continues, LastPacket, Resume, Received
  <2> QED BY <2>2, <2>3, <2>4 DEF Inv
<1>2. CASE Send \/ SendAck \/ LoadGame \/ Delete
  BY <1>2, SendStep, SendAckStep, LoadGameStep, DeleteStep
<1>3. CASE ReadSocket \/ SocketLost \/ Accept
  BY <1>3, ReadSocketStep, SocketLostStep, AcceptStep
<1>4. CASE EventGProxyReconnect \/ DropReconnectSocket
  BY <1>4, EventGProxyReconnectStep, DropReconnectSocketStep
<1>5. CASE ClientSend \/ ClientRead \/ ClientAck \/ ClientReconnect
  BY <1>5, ClientSendStep, ClientReadStep, ClientAckStep, ClientReconnectStep
<1> QED BY <1>1, <1>2, <1>3, <1>4, <1>5 DEF Next

\* The invariant holds of every instance.
THEOREM InvCorrect == Spec => []Inv
<1>1. Init => Inv
  BY InitInv
<1>2. Inv /\ [Next]_vars => Inv'
  BY InvStep
<1> QED BY <1>1, <1>2, PTL DEF Spec

-----------------------------------------------------------------------------
(* What the buffers hold.                                                  *)

\* The numbers of a run
LEMMA RunTyped ==
  ASSUME NEW b \in Nat, NEW s \in Nat, NEW t \in Nat, b <= s, s <= t
  PROVE  Run(b, s) \in Seq(1 .. t)
<1>1. \A i \in 1 .. s - b : b + i \in 1 .. t
  OBVIOUS
<1>2. Run(b, s) \in [1 .. s - b -> 1 .. t]
  BY <1>1 DEF Run
<1> QED BY <1>2, SeqDef, s - b \in Nat

\* A sequence of numbers up to t
LEMMA SequenceOf ==
  ASSUME NEW w \in Seq(Nat), NEW t, \A i \in 1 .. Len(w) : w[i] \in 1 .. t
  PROVE  w \in Seq(1 .. t)
<1> DEFINE n == Len(w)
<1>1. n \in Nat /\ w \in [1 .. n -> Nat]
  BY LenProperties
<1>2. \A i \in 1 .. n : w[i] \in 1 .. t
  OBVIOUS
<1> HIDE DEF n
<1>3. w \in [1 .. n -> 1 .. t]
  BY <1>1, <1>2
<1>4. w \in UNION {[1 .. m -> 1 .. t] : m \in Nat}
  BY <1>1, <1>3
<1> QED BY <1>4, SeqDef, Zenon

\* The invariant implies what the run checks.
LEMMA InvCounts == ASSUME Inv PROVE CountsAgree
<1>1. Typed /\ Numbered /\ DownStream
  BY DEF Inv
<1>2. PICK b \in 0 .. totalPacketsSent : /\ gproxyBuffer = Run(b, totalPacketsSent)
                                         /\ (b = unkept \/ b <= Received)
  BY <1>1 DEF Numbered, Keeps
<1>3. PICK d \in 0 .. totalPacketsReceived : clientBuffer = Run(d, clientSent)
  BY <1>1 DEF Numbered
<1>4. /\ totalPacketsSent \in Nat /\ clientSent \in Nat /\ totalPacketsReceived \in Nat
      /\ totalPacketsReceived <= clientSent /\ Received \in Nat /\ Received <= totalPacketsSent
      /\ b \in Nat /\ b <= totalPacketsSent /\ d \in Nat /\ d <= clientSent
      /\ d <= totalPacketsReceived /\ 0 \in Nat /\ 0 <= Received /\ 0 <= totalPacketsReceived
  BY <1>1, <1>2, <1>3 DEF Typed, Numbered
<1>5. gproxyBuffer \in Seq(1 .. totalPacketsSent) /\ clientBuffer \in Seq(1 .. clientSent)
  <2>1. Run(b, totalPacketsSent) \in Seq(1 .. totalPacketsSent)
    BY <1>4, RunTyped, totalPacketsSent <= totalPacketsSent
  <2>2. Run(d, clientSent) \in Seq(1 .. clientSent)
    BY <1>4, RunTyped, clientSent <= clientSent
  <2> QED BY <1>2, <1>3, <2>1, <2>2
<1>6. warcraft \in Seq(1 .. totalPacketsSent) /\ game \in Seq(1 .. clientSent)
  <2>1. warcraft \in Seq(1 .. totalPacketsSent)
    <3>1. warcraft \in Seq(Nat) /\ \A i \in 1 .. Len(warcraft) : warcraft[i] \in 1 .. totalPacketsSent
      BY <1>1, RangeFacts DEF Numbered
    <3> QED BY <3>1, SequenceOf
  <2>2. Run(0, totalPacketsReceived) \in Seq(1 .. clientSent)
    BY <1>4, RunTyped
  <2>3. game = Run(0, totalPacketsReceived)
    BY <1>1 DEF Numbered
  <2> QED BY <2>1, <2>2, <2>3
<1>7. Len(gproxyBuffer) = totalPacketsSent - b /\ Len(clientBuffer) = clientSent - d
      /\ Len(game) = totalPacketsReceived
  <2>1. Len(Run(b, totalPacketsSent)) = totalPacketsSent - b
    BY <1>4, RunFacts
  <2>2. Len(Run(d, clientSent)) = clientSent - d
    BY <1>4, RunFacts
  <2>3. Len(Run(0, totalPacketsReceived)) = totalPacketsReceived - 0
    BY <1>4, RunFacts
  <2>4. game = Run(0, totalPacketsReceived)
    BY <1>1 DEF Numbered
  <2> QED BY <1>2, <1>3, <1>4, <2>1, <2>2, <2>3, <2>4
<1>8. /\ clientSocket \in 1 .. opened /\ totalPacketsReceived \in 0 .. clientSent
      /\ unkept \in 0 .. totalPacketsSent
  BY <1>1, <1>4 DEF Typed, Numbered, Conns
<1>9. TypeOK
  BY <1>1, <1>5, <1>6, <1>8 DEF TypeOK, Typed, Numbers
<1>10. NothingDiscarded
  <2>1. unkept + 1 .. totalPacketsSent \subseteq Range(gproxyBuffer) \cup Range(warcraft)
    <3>1. Range(gproxyBuffer) = b + 1 .. totalPacketsSent
      BY <1>2, <1>4, RangeRun
    <3>2. unkept \in Nat /\ Resumes
      BY <1>1, ResumeFacts DEF Typed
    <3>3. unkept + 1 .. b \subseteq unkept + 1 .. Resume
      BY <1>2, <1>4, <3>2 DEF Resumes
    <3> QED BY <1>4, <3>1, <3>2, <3>3 DEF Resumes
  <2> QED BY <1>4, <1>7, <2>1 DEF NothingDiscarded
<1> QED BY <1>9, <1>10 DEF CountsAgree

\* Whatever the bot or the client removes from its buffer, in answer to an
\* acknowledgement or a reconnection, has arrived on the other side, also while packets
\* of before the game was loaded are missing
\* (CGamePlayer::Update and CGamePlayer::EventGProxyReconnect).
THEOREM CountsAgreeCorrect == Spec => []CountsAgree
<1>1. Inv => CountsAgree
  BY InvCounts
<1> QED BY <1>1, InvCorrect, PTL

\* Warcraft III receives the packets exactly once and in order as long as its first
\* connection lasts, and for ever when what was on the way as the game was loaded
\* arrived on it (CGamePlayer::Send, CGamePlayer::EventGProxyReconnect).
THEOREM ExactlyOnceCorrect == Spec => []ExactlyOnce
<1>1. Inv => ExactlyOnce
  <2> SUFFICES ASSUME Inv, clientSocket = 1 \/ 1 .. unkept \subseteq Range(warcraft)
               PROVE  warcraft = [i \in 1 .. Len(warcraft) |-> i]
    BY DEF ExactlyOnce
  <2>1. warcraft = Run(0, Received) /\ Received \in Nat
    BY DEF Inv, InOrder, Numbered
  <2>2. Run(0, Received) = [i \in 1 .. Received |-> i]
    BY <2>1, Received - 0 = Received, \A i \in 1 .. Received : 0 + i = i DEF Run
  <2> QED BY <2>1, <2>2 DEF Received
<1> QED BY <1>1, InvCorrect, PTL

-----------------------------------------------------------------------------
(* Each direction implements its stream.                                   *)

\* The initial states are the stream's.
LEMMA DownInit == ASSUME Init PROVE Down!Init
BY DEF Init, Down!Init

\* Every step sends, delivers the next packet, or is nothing to the stream.
LEMMA DownStep ==
  ASSUME Inv, [Next]_vars
  PROVE  [Down!Next]_<< totalPacketsSent, unkept, warcraft >>
<1>1. Typed /\ Numbered /\ DownStream
  BY DEF Inv
<1>2. totalPacketsSent \in Nat /\ Received \in Nat /\ unkept \in Nat /\ clientSocket \in Conns
      /\ toClient[clientSocket] \in Seq(Message)
  BY <1>1 DEF Typed, Numbered
<1>3. CASE Send
  <2>1. /\ totalPacketsSent' = totalPacketsSent + 1 /\ warcraft' = warcraft
        /\ unkept' = IF gameLoaded THEN unkept ELSE totalPacketsSent'
    BY <1>3 DEF Send
  <2>2. ~gameLoaded => unkept = totalPacketsSent
    BY <1>1 DEF Numbered
  <2> QED BY <1>2, <2>1, <2>2 DEF Down!Next, Down!Send
<1>4. CASE SocketLost
  <2>1. PICK notices \in IF gameLoaded THEN 0 .. MaxNotices ELSE {0} :
          totalPacketsSent' = totalPacketsSent + notices
    BY <1>4 DEF SocketLost
  <2>2. warcraft' = warcraft /\ unkept' = unkept
    BY <1>4 DEF SocketLost
  <2>3. notices \in Nat
    BY <2>1
  <2>4. CASE notices = 0
    BY <1>2, <2>1, <2>2, <2>4
  <2>5. CASE notices # 0
    BY <1>2, <2>1, <2>2, <2>3, <2>5 DEF Down!Next, Down!Send
  <2> QED BY <2>4, <2>5
<1>5. CASE EventGProxyReconnect
  <2>1. totalPacketsSent' = totalPacketsSent + 1 /\ warcraft' = warcraft /\ unkept' = unkept
    BY <1>5 DEF EventGProxyReconnect
  <2> QED BY <1>2, <2>1 DEF Down!Next, Down!Send
<1>6. CASE ClientRead
  <2> DEFINE q == toClient[clientSocket]
             m == Head(q)
  <2>1. /\ q # << >> /\ totalPacketsSent' = totalPacketsSent /\ unkept' = unkept
        /\ warcraft' = IF m.kind = "w3gs" THEN Append(warcraft, m.number) ELSE warcraft
    BY <1>6 DEF ClientRead, server
  <2>2. PICK b \in 0 .. totalPacketsSent, s \in 0 .. totalPacketsSent :
          b \in {LastPacket, Resume} /\ Holds(q, b, s)
    BY <1>1 DEF DownStream, Continues
  <2>3. b \in Nat /\ s \in Nat /\ s <= totalPacketsSent /\ q \in Seq(Message)
    BY <1>2, <2>2
  <2> HIDE DEF q
  <2>4. m.kind = "w3gs" => m.number = b + 1 /\ b + 1 <= s
    BY <2>1, <2>2, <2>3, HoldsRest
  <2> HIDE DEF m
  <2>5. CASE m.kind = "w3gs"
    <3>1. warcraft' = Append(warcraft, b + 1) /\ b + 1 <= totalPacketsSent
      BY <1>2, <2>1, <2>3, <2>4, <2>5
    <3>2. Down!Following = LastPacket + 1 /\ Down!Counted = Resume + 1
      BY DEF Down!Following, Down!Counted, LastPacket, Resume, Received
    <3>3. b + 1 \in {Down!Following, Down!Counted}
      BY <2>2, <3>2
    <3>4. Down!Receive
      BY <2>1, <3>1, <3>3 DEF Down!Receive
    <3> QED BY <3>4 DEF Down!Next
  <2>6. CASE m.kind # "w3gs"
    BY <2>1, <2>6
  <2> QED BY <2>5, <2>6
<1>7. CASE LoadGame \/ ReadSocket \/ SendAck \/ Delete \/ Accept \/ DropReconnectSocket
  BY <1>7 DEF LoadGame, ReadSocket, SendAck, Delete, Accept, DropReconnectSocket, server
<1>8. CASE ClientSend \/ ClientAck \/ ClientReconnect \/ UNCHANGED vars
  BY <1>8 DEF ClientSend, ClientAck, ClientReconnect, vars, server
<1> QED BY <1>3, <1>4, <1>5, <1>6, <1>7, <1>8 DEF Next

\* However often the player's connection is lost and replaced, Warcraft III
\* receives the packets that CGamePlayer::Send was given in order, taking up from the
\* last one or from the one that the counts of packets agree on.
THEOREM DownResumesCorrect == Spec => DownResumes
<1>1. Init => Down!Init
  BY DownInit
<1>2. Inv /\ [Next]_vars => [Down!Next]_<< totalPacketsSent, unkept, warcraft >>
  BY DownStep
<1> QED BY <1>1, <1>2, InvCorrect, PTL DEF Spec, DownResumes, Down!Spec

\* The initial states are the stream's.
LEMMA UpInit == ASSUME Init PROVE Up!Init
BY DEF Init, Up!Init

\* Every step sends, delivers the next packet, or is nothing to the stream.
LEMMA UpStep ==
  ASSUME Inv, [Next]_vars
  PROVE  [Up!Next]_<< clientSent, game >>
<1>1. Typed /\ Numbered /\ UpStream
  BY DEF Inv
<1>2. clientSent \in Nat /\ totalPacketsReceived \in Nat /\ Len(game) = totalPacketsReceived
  <2>1. Len(Run(0, totalPacketsReceived)) = totalPacketsReceived - 0
    BY <1>1, RunFacts, 0 \in Nat, 0 <= totalPacketsReceived DEF Typed
  <2> QED BY <1>1, <2>1 DEF Typed, Numbered
<1>3. CASE ClientSend
  <2>1. clientSent' = clientSent + 1 /\ game' = game
    BY <1>3 DEF ClientSend
  <2> QED BY <1>2, <2>1 DEF Up!Next, Up!Send
<1>4. CASE ReadSocket
  <2> DEFINE q == toServer[socket]
             m == Head(q)
  <2>1. /\ q # << >> /\ socket # NoConn /\ clientSent' = clientSent
        /\ game' = IF m.kind = "w3gs" THEN Append(game, m.number) ELSE game
    BY <1>4 DEF ReadSocket, client
  <2>2. PICK s \in 0 .. clientSent : Holds(q, totalPacketsReceived, s)
    BY <1>1, <2>1 DEF UpStream
  <2>3. s \in Nat /\ s <= clientSent /\ q \in Seq(Message)
    BY <1>1, <1>2, <2>1, <2>2 DEF Typed
  <2> HIDE DEF q
  <2>4. m.kind = "w3gs" => m.number = totalPacketsReceived + 1 /\ totalPacketsReceived + 1 <= s
    BY <1>2, <2>1, <2>2, <2>3, HoldsRest
  <2> HIDE DEF m
  <2>5. CASE m.kind = "w3gs"
    <3>1. game' = Append(game, Len(game) + 1) /\ Len(game) < clientSent
      BY <1>2, <2>1, <2>3, <2>4, <2>5
    <3> QED BY <2>1, <3>1 DEF Up!Next, Up!Receive
  <2>6. CASE m.kind # "w3gs"
    BY <2>1, <2>6
  <2> QED BY <2>5, <2>6
<1>5. CASE Send \/ LoadGame \/ SendAck \/ SocketLost \/ Delete
  BY <1>5 DEF Send, LoadGame, SendAck, SocketLost, Delete, client
<1>6. CASE Accept \/ EventGProxyReconnect \/ DropReconnectSocket
  BY <1>6 DEF Accept, EventGProxyReconnect, DropReconnectSocket, client
<1>7. CASE ClientRead \/ ClientAck \/ ClientReconnect \/ UNCHANGED vars
  BY <1>7 DEF ClientRead, ClientAck, ClientReconnect, vars, client
<1> QED BY <1>3, <1>4, <1>5, <1>6, <1>7 DEF Next

\* The game receives the player's packets once each and in order: the count that
\* EventGProxyReconnect reports is what CGamePlayer::Update has processed.
THEOREM UpReliableCorrect == Spec => UpReliable
<1>1. Init => Up!Init
  BY UpInit
<1>2. Inv /\ [Next]_vars => [Up!Next]_<< clientSent, game >>
  BY UpStep
<1> QED BY <1>1, <1>2, InvCorrect, PTL DEF Spec, UpReliable, Up!Spec
=============================================================================
