--------------------------- MODULE Updates_proofs ---------------------------
(***************************************************************************)
(* Proofs about the updates of a game, for any number of players, actions  *)
(* and updates: every client, and the replay, is told the same game; every *)
(* action is told once and in order, in packets that are not too long; and *)
(* the load-in-game screen shows who is loading.                           *)
(***************************************************************************)
EXTENDS Updates, FiniteSetTheorems, SequenceTheorems, WellFoundedInduction, TLAPS

-----------------------------------------------------------------------------
(* Induction over numbers and sequences, and recursion.                    *)

(* A nonempty set of natural numbers has a least element.                  *)
LEMMA LeastExists ==
  ASSUME NEW T \in SUBSET Nat, T # {}
  PROVE  \E x \in T : \A y \in T : x <= y
<1> DEFINE I == {0 .. x : x \in T}
<1>1. IsWellFoundedOn(StrictSubsetOrdering(Nat), FiniteSubsetsOf(Nat))
  BY FS_StrictSubsetOrderingWellFounded
<1>2. I \subseteq FiniteSubsetsOf(Nat) /\ I # {}
  <2>1. ASSUME NEW x \in T PROVE 0 .. x \in FiniteSubsetsOf(Nat)
    <3>1. x \in Int /\ 0 \in Int /\ 0 .. x \subseteq Nat
      OBVIOUS
    <3>2. IsFiniteSet(0 .. x)
      BY <3>1, FS_Interval
    <3> QED BY <3>1, <3>2 DEF FiniteSubsetsOf
  <2> QED BY <2>1
<1>3. PICK m \in I : \A i \in I : ~ (<<i, m>> \in StrictSubsetOrdering(Nat))
  <2> HIDE DEF I
  <2> QED BY <1>1, <1>2, WFMin, Zenon
<1>4. PICK x \in T : m = 0 .. x
  OBVIOUS
<1>5. ASSUME NEW y \in T, y < x PROVE FALSE
  <2>1. 0 .. y \in I /\ 0 .. y \subseteq m /\ x \in m /\ x \notin 0 .. y
    BY <1>4, <1>5
  <2>2. <<0 .. y, m>> \in StrictSubsetOrdering(Nat)
    BY <2>1, <1>2, <1>3 DEF StrictSubsetOrdering, FiniteSubsetsOf
  <2> QED BY <2>1, <2>2, <1>3
<1> QED BY <1>5

(* Induction over the natural numbers, for a set.                          *)
LEMMA NatInductionIn ==
  ASSUME NEW T, 0 \in T, \A n \in Nat : n \in T => n + 1 \in T
  PROVE  \A n \in Nat : n \in T
<1> SUFFICES ASSUME NEW k \in Nat, k \notin T PROVE FALSE
  OBVIOUS
<1> DEFINE Out == {n \in Nat : n \notin T}
<1>1. Out \in SUBSET Nat /\ Out # {}
  OBVIOUS
<1>2. PICK n \in Out : \A m \in Out : n <= m
  <2> HIDE DEF Out
  <2> QED BY <1>1, LeastExists
<1>3. n \in Nat /\ n # 0 /\ n \notin T
  OBVIOUS
<1>4. n - 1 \in Nat /\ (n - 1) + 1 = n
  BY <1>3
<1>5. n - 1 \in T
  BY <1>2, <1>4
<1> QED BY <1>3, <1>4, <1>5

(* Induction over sequences that grow at their end, for a set.             *)
LEMMA SeqInductionIn ==
  ASSUME NEW S, NEW T, << >> \in T,
         \A s \in Seq(S), e \in S : s \in T => Append(s, e) \in T
  PROVE  \A s \in Seq(S) : s \in T
<1> DEFINE U == {n \in Nat : \A s \in Seq(S) : Len(s) = n => s \in T}
<1>1. 0 \in U
  <2>1. \A s \in Seq(S) : Len(s) = 0 => s = << >>
    OBVIOUS
  <2> QED BY <2>1
<1>2. ASSUME NEW n \in Nat, n \in U PROVE n + 1 \in U
  <2>1. ASSUME NEW s \in Seq(S), Len(s) = n + 1 PROVE s \in T
    <3>1. s # << >>
      BY <2>1
    <3>2. PICK t \in Seq(S), e \in S : s = Append(t, e)
      BY <3>1, SequenceEmptyOrAppend
    <3>3. Len(t) = n
      BY <2>1, <3>2
    <3> QED BY <1>2, <3>2, <3>3
  <2> QED BY <2>1
<1>3. \A n \in Nat : n \in U
  <2> HIDE DEF U
  <2> QED BY <1>1, <1>2, NatInductionIn
<1> QED BY <1>3

Steps(B, N) == [1 .. N -> [B -> B]]
Recursion(F, B, b, N, h) ==
    F \in [0 .. N -> B] /\ F[0] = b /\ \A n \in 1 .. N : F[n] = h[n][F[n - 1]]

(* A function on 0 .. N can be defined from its value at 0 and its steps.  *)
LEMMA RecursionExists ==
  ASSUME NEW B, NEW b \in B, NEW N \in Nat, NEW h \in Steps(B, N)
  PROVE  \E F : Recursion(F, B, b, N, h)
<1> USE DEF Steps, Recursion
<1> DEFINE Up(k, F) == F \in [0 .. k -> B] /\ F[0] = b /\ \A n \in 1 .. k : F[n] = h[n][F[n - 1]]
           T == {k \in Nat : k <= N => \E F : Up(k, F)}
<1>1. 0 \in T
  <2>1. Up(0, [n \in 0 .. 0 |-> b])
    OBVIOUS
  <2> QED BY <2>1
<1>2. ASSUME NEW k \in Nat, k \in T PROVE k + 1 \in T
  <2> SUFFICES ASSUME k + 1 <= N PROVE \E F : Up(k + 1, F)
    OBVIOUS
  <2>1. PICK F : Up(k, F)
    BY <1>2
  <2>2. k + 1 \in 1 .. N /\ k \in 0 .. k /\ F[k] \in B
    BY <2>1
  <2>3. h[k + 1] \in [B -> B]
    BY <2>2
  <2>4. h[k + 1][F[k]] \in B
    BY <2>2, <2>3
  <2> DEFINE G == [n \in 0 .. k + 1 |-> IF n = k + 1 THEN h[k + 1][F[k]] ELSE F[n]]
  <2>5. G \in [0 .. k + 1 -> B]
    BY <2>1, <2>4
  <2>6. G[0] = b
    BY <2>1
  <2>7. ASSUME NEW n \in 1 .. k + 1 PROVE G[n] = h[n][G[n - 1]]
    <3>1. CASE n = k + 1
      <4>1. G[n] = h[k + 1][F[k]] /\ G[n - 1] = F[k]
        BY <3>1
      <4> QED BY <3>1, <4>1
    <3>2. CASE n # k + 1
      <4>1. n \in 1 .. k /\ n - 1 \in 0 .. k /\ n - 1 # k + 1
        BY <3>2
      <4>2. G[n] = F[n] /\ G[n - 1] = F[n - 1]
        BY <4>1
      <4> QED BY <2>1, <4>1, <4>2
    <3> QED BY <3>1, <3>2
  <2>8. Up(k + 1, G)
    BY <2>5, <2>6, <2>7
  <2> QED BY <2>8
<1>3. \A k \in Nat : k \in T
  <2> HIDE DEF T
  <2> QED BY <1>1, <1>2, NatInductionIn
<1>4. \E F : Up(N, F)
  BY <1>3
<1> QED BY <1>4

(* Induction up to a number.                                               *)
LEMMA InductionUpTo ==
  ASSUME NEW N \in Nat, NEW T, 0 \in T, \A n \in 1 .. N : n - 1 \in T => n \in T
  PROVE  \A n \in 0 .. N : n \in T
<1> DEFINE U == {n \in Nat : n <= N => n \in T}
<1>1. 0 \in U
  OBVIOUS
<1>2. ASSUME NEW n \in Nat, n \in U PROVE n + 1 \in U
  <2> SUFFICES ASSUME n + 1 <= N PROVE n + 1 \in T
    OBVIOUS
  <2>1. n \in T
    BY <1>2
  <2>2. n + 1 \in 1 .. N /\ (n + 1) - 1 = n
    OBVIOUS
  <2> QED BY <2>1, <2>2
<1>3. \A n \in Nat : n \in U
  <2> HIDE DEF U
  <2> QED BY <1>1, <1>2, NatInductionIn
<1> QED BY <1>3

-----------------------------------------------------------------------------
(* Sequences of sequences, one behind the other.                           *)

Flat(ss) == CHOOSE f : f = [i \in 1 .. Len(ss) |-> IF i = 1 THEN ss[i] ELSE f[i - 1] \o ss[i]]

(* FlattenSeq is that recursive function's value at the end.               *)
LEMMA FlattenIsFlat ==
  ASSUME NEW S, NEW ss \in Seq(Seq(S)), ss # << >>
  PROVE  FlattenSeq(ss) = Flat(ss)[Len(ss)]
<1>1. Len(ss) # 0
  OBVIOUS
<1> QED BY <1>1 DEF FlattenSeq, Flat

(* The function exists, and its values are sequences.                      *)
LEMMA FlatRecursion ==
  ASSUME NEW S, NEW ss \in Seq(Seq(S))
  PROVE  /\ Flat(ss) \in [1 .. Len(ss) -> Seq(S)]
         /\ \A i \in 1 .. Len(ss) :
              Flat(ss)[i] = IF i = 1 THEN ss[i] ELSE Flat(ss)[i - 1] \o ss[i]
<1> DEFINE N == Len(ss)
           B == Seq(S)
           b == << >>
           h == [i \in 1 .. N |-> [x \in B |-> x \o ss[i]]]
<1>0. N \in Nat /\ \A i \in 1 .. N : ss[i] \in Seq(S)
  OBVIOUS
<1>1. h \in Steps(B, N)
  BY <1>0 DEF Steps
<1>2. b \in B
  OBVIOUS
<1>3. PICK F : Recursion(F, B, b, N, h)
  <2>1. N \in Nat
    OBVIOUS
  <2> HIDE DEF N, B, b, h
  <2> QED BY <1>1, <1>2, <2>1, RecursionExists
<1>3a. /\ F \in [0 .. N -> B] /\ F[0] = << >>
       /\ \A n \in 1 .. N : F[n] = F[n - 1] \o ss[n]
  <2>1. F \in [0 .. N -> B] /\ F[0] = << >> /\ \A n \in 1 .. N : F[n] = h[n][F[n - 1]]
    BY <1>3 DEF Recursion
  <2>2. ASSUME NEW n \in 1 .. N PROVE F[n] = F[n - 1] \o ss[n]
    <3>1. n - 1 \in 0 .. N
      OBVIOUS
    <3>2. F[n - 1] \in B
      BY <2>1, <3>1
    <3> QED BY <2>1, <3>2
  <2> QED BY <2>1, <2>2
<1> DEFINE f == [i \in 1 .. N |-> F[i]]
           R(g) == [i \in 1 .. N |-> IF i = 1 THEN ss[i] ELSE g[i - 1] \o ss[i]]
<1>4. ASSUME NEW i \in 1 .. N PROVE F[i] = IF i = 1 THEN ss[i] ELSE f[i - 1] \o ss[i]
  <2>1. i - 1 \in 0 .. N
    OBVIOUS
  <2>2. F[i] = F[i - 1] \o ss[i]
    BY <2>1, <1>3a
  <2>3. CASE i = 1
    <3>1. F[i - 1] = << >> /\ << >> \o ss[i] = ss[i]
      BY <1>0, <1>3a, <2>3
    <3> QED BY <2>2, <2>3, <3>1
  <2>4. CASE i # 1
    <3>1. i - 1 \in 1 .. N
      BY <2>4
    <3> QED BY <2>2, <2>4, <3>1
  <2> QED BY <2>3, <2>4
<1>5. f = R(f)
  BY <1>4
<1>6. Flat(ss) = R(Flat(ss))
  <2>1. \E g : g = R(g)
    <3> HIDE DEF R, f
    <3> QED BY <1>5
  <2> QED BY <2>1 DEF Flat
<1> DEFINE T == {n \in 0 .. N : n = 0 \/ Flat(ss)[n] = F[n]}
<1>7. \A n \in 0 .. N : n \in T
  <2>1. 0 \in T
    OBVIOUS
  <2>2. ASSUME NEW n \in 1 .. N, n - 1 \in T PROVE n \in T
    <3>1. Flat(ss)[n] = IF n = 1 THEN ss[n] ELSE Flat(ss)[n - 1] \o ss[n]
      BY <1>6
    <3>2. CASE n = 1
      <4>1. F[n] = ss[n]
        BY <1>4, <3>2
      <4> QED BY <3>1, <3>2, <4>1
    <3>3. CASE n # 1
      <4>1. n - 1 \in 1 .. N /\ Flat(ss)[n - 1] = F[n - 1]
        BY <2>2, <3>3
      <4>2. F[n] = F[n - 1] \o ss[n]
        BY <1>4, <3>3, <4>1
      <4>3. Flat(ss)[n] = Flat(ss)[n - 1] \o ss[n]
        BY <3>1, <3>3
      <4>4. Flat(ss)[n] = F[n]
        BY <4>1, <4>2, <4>3
      <4> QED BY <4>4
    <3> QED BY <3>2, <3>3
  <2> HIDE DEF T, N
  <2> QED BY <1>0, <2>1, <2>2, InductionUpTo
<1>8. ASSUME NEW n \in 1 .. N PROVE Flat(ss)[n] = F[n] /\ F[n] \in Seq(S)
  <2>1. n \in 0 .. N /\ n # 0
    OBVIOUS
  <2>2. n \in T /\ F[n] \in B
    BY <1>3a, <1>7, <2>1
  <2> QED BY <2>1, <2>2
<1>9. Flat(ss) \in [1 .. Len(ss) -> Seq(S)]
  BY <1>6, <1>8
<1> QED BY <1>6, <1>9

(* The flattened sequence is a sequence of the elements.                   *)
LEMMA FlattenType ==
  ASSUME NEW S, NEW ss \in Seq(Seq(S))
  PROVE  FlattenSeq(ss) \in Seq(S)
<1>1. CASE ss = << >>
  BY <1>1 DEF FlattenSeq
<1>2. CASE ss # << >>
  <2>1. Len(ss) \in 1 .. Len(ss)
    BY <1>2
  <2> QED BY <1>2, <2>1, FlattenIsFlat, FlatRecursion
<1> QED BY <1>1, <1>2

(* A sequence added at the end comes at the end of the flattened one.      *)
LEMMA FlattenAppend ==
  ASSUME NEW S, NEW ss \in Seq(Seq(S)), NEW e \in Seq(S)
  PROVE  FlattenSeq(Append(ss, e)) = FlattenSeq(ss) \o e
<1> DEFINE tt == Append(ss, e)
           N == Len(ss)
<1>1. /\ tt \in Seq(Seq(S)) /\ tt # << >> /\ Len(tt) = N + 1 /\ tt[N + 1] = e /\ N \in Nat
      /\ \A i \in 1 .. N : tt[i] = ss[i]
  <2> DEFINE B == Seq(S)
  <2>1. ss \in Seq(B) /\ e \in B
    OBVIOUS
  <2> HIDE DEF B
  <2>2. /\ tt \in Seq(B) /\ tt # << >> /\ Len(tt) = N + 1 /\ tt[N + 1] = e /\ N \in Nat
        /\ \A i \in 1 .. N : tt[i] = ss[i]
    BY <2>1
  <2> QED BY <2>2 DEF B
<1>2. FlattenSeq(tt) = Flat(tt)[N + 1]
  <2> HIDE DEF tt
  <2> QED BY <1>1, FlattenIsFlat
<1>3. \A i \in 1 .. N + 1 : Flat(tt)[i] = IF i = 1 THEN tt[i] ELSE Flat(tt)[i - 1] \o tt[i]
  <2> HIDE DEF tt
  <2> QED BY <1>1, FlatRecursion
<1>4. \A i \in 1 .. N : Flat(ss)[i] = IF i = 1 THEN ss[i] ELSE Flat(ss)[i - 1] \o ss[i]
  BY FlatRecursion
<1> DEFINE T == {n \in 0 .. N : n = 0 \/ Flat(tt)[n] = Flat(ss)[n]}
<1>5. \A n \in 0 .. N : n \in T
  <2>1. 0 \in T
    BY <1>1
  <2>2. ASSUME NEW n \in 1 .. N, n - 1 \in T PROVE n \in T
    <3>1. n \in 1 .. N + 1 /\ tt[n] = ss[n]
      BY <1>1
    <3>2. CASE n = 1
      <4>1. Flat(tt)[n] = tt[n] /\ Flat(ss)[n] = ss[n]
        BY <1>3, <1>4, <3>1, <3>2
      <4> QED BY <3>1, <4>1
    <3>3. CASE n # 1
      <4>1. Flat(tt)[n - 1] = Flat(ss)[n - 1]
        BY <2>2, <3>3
      <4>2. Flat(tt)[n] = Flat(tt)[n - 1] \o tt[n] /\ Flat(ss)[n] = Flat(ss)[n - 1] \o ss[n]
        BY <1>3, <1>4, <3>1, <3>3
      <4>3. Flat(tt)[n] = Flat(ss)[n]
        BY <3>1, <4>1, <4>2
      <4> QED BY <4>3
    <3> QED BY <3>2, <3>3
  <2> HIDE DEF T, N
  <2> QED BY <1>1, <2>1, <2>2, InductionUpTo
<1>6. CASE N = 0
  <2>1. FlattenSeq(tt) = e
    BY <1>1, <1>2, <1>3, <1>6
  <2>2. ss = << >> /\ FlattenSeq(ss) = << >>
    BY <1>6 DEF FlattenSeq
  <2>3. << >> \o e = e
    OBVIOUS
  <2> QED BY <2>1, <2>2, <2>3
<1>7. CASE N # 0
  <2>1. N + 1 \in 1 .. N + 1 /\ N + 1 # 1 /\ (N + 1) - 1 = N /\ N \in 1 .. N
    BY <1>1, <1>7
  <2>2. Flat(tt)[N + 1] = Flat(tt)[N] \o e
    <3> HIDE DEF tt, N
    <3> QED BY <1>1, <1>3, <2>1
  <2>3. Flat(tt)[N] = Flat(ss)[N]
    BY <1>5, <1>7, <2>1
  <2>4. FlattenSeq(ss) = Flat(ss)[N]
    BY <1>7, FlattenIsFlat
  <2>5. FlattenSeq(tt) = FlattenSeq(ss) \o e
    <3> HIDE DEF tt, N
    <3> QED BY <1>2, <2>2, <2>3, <2>4
  <2> QED BY <2>5
<1> QED BY <1>6, <1>7

(* An element appended to the second of two sequences is appended to both. *)
LEMMA ConcatAppend ==
  ASSUME NEW S, NEW s \in Seq(S), NEW t \in Seq(S), NEW e \in S
  PROVE  s \o Append(t, e) = Append(s \o t, e)
OBVIOUS

(* What two sequences concatenated are.                                    *)
LEMMA IsConcat ==
  ASSUME NEW S, NEW a \in Seq(S), NEW c \in Seq(S), NEW ac \in Seq(S),
         Len(ac) = Len(a) + Len(c),
         \A i \in 1 .. Len(a) : ac[i] = a[i],
         \A i \in 1 .. Len(c) : ac[Len(a) + i] = c[i]
  PROVE  ac = a \o c
<1>1. a \o c \in Seq(S) /\ Len(a \o c) = Len(ac) /\ Len(a) \in Nat /\ Len(c) \in Nat
  OBVIOUS
<1>2. ASSUME NEW i \in 1 .. Len(ac) PROVE ac[i] = (a \o c)[i]
  <2>1. CASE i <= Len(a)
    <3>1. i \in 1 .. Len(a) /\ (a \o c)[i] = a[i]
      BY <1>1, <2>1
    <3> QED BY <3>1
  <2>2. CASE i > Len(a)
    <3>1. i - Len(a) \in 1 .. Len(c) /\ (a \o c)[i] = c[i - Len(a)] /\ Len(a) + (i - Len(a)) = i
      BY <1>1, <2>2
    <3>2. ac[Len(a) + (i - Len(a))] = c[i - Len(a)]
      BY <3>1
    <3> QED BY <3>1, <3>2
  <2> QED BY <1>1, <2>1, <2>2
<1> QED BY <1>1, <1>2, SeqEqual

(* Flattening commutes with concatenation.                                 *)
LEMMA FlattenConcat ==
  ASSUME NEW S, NEW ss \in Seq(Seq(S)), NEW tt \in Seq(Seq(S))
  PROVE  FlattenSeq(ss \o tt) = FlattenSeq(ss) \o FlattenSeq(tt)
<1> DEFINE B == Seq(S)
           T == {t \in Seq(B) : FlattenSeq(ss \o t) = FlattenSeq(ss) \o FlattenSeq(t)}
<1>1. << >> \in T
  <2>1. ss \o << >> = ss /\ FlattenSeq(<< >>) = << >> /\ << >> \in Seq(B)
    BY DEF FlattenSeq
  <2>2. FlattenSeq(ss) \o << >> = FlattenSeq(ss)
    BY FlattenType
  <2> QED BY <2>1, <2>2
<1>2. ASSUME NEW t \in Seq(B), NEW e \in B, t \in T PROVE Append(t, e) \in T
  <2>1. ss \o Append(t, e) = Append(ss \o t, e) /\ ss \o t \in Seq(B) /\ Append(t, e) \in Seq(B)
    <3>1. ss \in Seq(B)
      OBVIOUS
    <3> HIDE DEF B
    <3> QED BY <3>1, ConcatAppend
  <2>2. FlattenSeq(Append(ss \o t, e)) = FlattenSeq(ss \o t) \o e
    BY <2>1, FlattenAppend
  <2>3. FlattenSeq(Append(t, e)) = FlattenSeq(t) \o e
    BY FlattenAppend
  <2>4. FlattenSeq(ss) \in Seq(S) /\ FlattenSeq(t) \in Seq(S) /\ e \in Seq(S)
    BY FlattenType
  <2>5. (FlattenSeq(ss) \o FlattenSeq(t)) \o e = FlattenSeq(ss) \o (FlattenSeq(t) \o e)
    <3> DEFINE x == FlattenSeq(ss)
               y == FlattenSeq(t)
    <3>1. x \in Seq(S) /\ y \in Seq(S) /\ e \in Seq(S)
      BY <2>4
    <3>2. (x \o y) \o e = x \o (y \o e)
      <4> HIDE DEF x, y
      <4> QED BY <3>1, ConcatAssociative, SMTT(30)
    <3> QED BY <3>2
  <2>6. FlattenSeq(ss \o t) = FlattenSeq(ss) \o FlattenSeq(t)
    BY <1>2
  <2>7. FlattenSeq(ss \o Append(t, e)) = FlattenSeq(ss) \o FlattenSeq(Append(t, e))
    <3> HIDE DEF B
    <3> QED BY <2>1, <2>2, <2>3, <2>5, <2>6
  <2> QED BY <2>1, <2>7
<1>3. \A t \in Seq(B) : t \in T
  <2> HIDE DEF T, B
  <2> QED BY <1>1, <1>2, SeqInductionIn
<1> QED BY <1>3

(* Flattening one sequence.                                                *)
LEMMA FlattenOne ==
  ASSUME NEW S, NEW e \in Seq(S)
  PROVE  FlattenSeq(<< e >>) = e
<1>1. << >> \in Seq(Seq(S)) /\ Append(<< >>, e) = << e >> /\ FlattenSeq(<< >>) = << >>
  BY DEF FlattenSeq
<1>2. FlattenSeq(Append(<< >>, e)) = FlattenSeq(<< >>) \o e
  BY <1>1, FlattenAppend
<1>3. << >> \o e = e
  OBVIOUS
<1> QED BY <1>1, <1>2, <1>3

(* Nothing but empty sequences is nothing.                                 *)
LEMMA FlattenEmpties ==
  ASSUME NEW S, NEW ss \in Seq(Seq(S)), \A i \in 1 .. Len(ss) : ss[i] = << >>
  PROVE  FlattenSeq(ss) = << >>
<1> DEFINE B == {<< >>}
           T == {t \in Seq(B) : FlattenSeq(t) = << >>}
<1>1. << >> \in T
  BY DEF FlattenSeq
<1>2. ASSUME NEW t \in Seq(B), NEW e \in B, t \in T PROVE Append(t, e) \in T
  <2>1. t \in Seq(Seq(S)) /\ e \in Seq(S) /\ e = << >>
    <3>1. B \subseteq Seq(S)
      OBVIOUS
    <3> QED BY <3>1, SeqMonotonic
  <2>2. FlattenSeq(Append(t, e)) = FlattenSeq(t) \o e
    BY <2>1, FlattenAppend
  <2>3. Append(t, e) \in Seq(B)
    OBVIOUS
  <2> QED BY <1>2, <2>1, <2>2, <2>3
<1>3. \A t \in Seq(B) : t \in T
  <2> HIDE DEF T, B
  <2> QED BY <1>1, <1>2, SeqInductionIn
<1>4. ss \in Seq(B)
  OBVIOUS
<1> QED BY <1>3, <1>4

(* Flattening sequences of one element each yields these.                  *)
LEMMA FlattenSingletons ==
  ASSUME NEW S, NEW s \in Seq(S)
  PROVE  FlattenSeq([i \in 1 .. Len(s) |-> << s[i] >>]) = s
<1> DEFINE ones(t) == [i \in 1 .. Len(t) |-> << t[i] >>]
           T == {t \in Seq(S) : FlattenSeq(ones(t)) = t}
<1>1. << >> \in T
  <2>1. ones(<< >>) = << >>
    OBVIOUS
  <2>2. FlattenSeq(<< >>) = << >>
    BY DEF FlattenSeq
  <2> QED BY <2>1, <2>2
<1>2. ASSUME NEW t \in Seq(S), NEW e \in S, t \in T PROVE Append(t, e) \in T
  <2>1. ones(Append(t, e)) = Append(ones(t), << e >>)
    OBVIOUS
  <2>2. ones(t) \in Seq(Seq(S)) /\ << e >> \in Seq(S)
    <3>1. \A i \in 1 .. Len(t) : << t[i] >> \in Seq(S)
      OBVIOUS
    <3> QED BY <3>1
  <2>3. FlattenSeq(Append(ones(t), << e >>)) = FlattenSeq(ones(t)) \o << e >>
    <3> HIDE DEF ones
    <3> QED BY <2>2, FlattenAppend
  <2>4. t \o << e >> = Append(t, e) /\ Append(t, e) \in Seq(S)
    OBVIOUS
  <2> HIDE DEF ones
  <2> QED BY <1>2, <2>1, <2>3, <2>4
<1>3. \A t \in Seq(S) : t \in T
  <2> HIDE DEF T
  <2> QED BY <1>1, <1>2, SeqInductionIn
<1> QED BY <1>3

-----------------------------------------------------------------------------
(* How long batches of actions are.                                        *)

Action == [number : Nat, length : Nat]

LengthUpTo(b) ==
    CHOOSE f : f = [n \in 0 .. Len(b) |-> IF n = 0 THEN 0 ELSE f[n - 1] + b[n].length]

(* Length is that recursive function's value at the end.                   *)
LEMMA LengthIsUpTo ==
  ASSUME NEW b
  PROVE  Length(b) = LengthUpTo(b)[Len(b)]
BY DEF Length, LengthUpTo

(* The function exists, and its values are natural numbers.                *)
LEMMA LengthRecursion ==
  ASSUME NEW b \in Seq(Action)
  PROVE  /\ \A n \in 0 .. Len(b) : LengthUpTo(b)[n] \in Nat
         /\ LengthUpTo(b)[0] = 0
         /\ \A n \in 1 .. Len(b) : LengthUpTo(b)[n] = LengthUpTo(b)[n - 1] + b[n].length
<1> DEFINE N == Len(b)
           h == [n \in 1 .. N |-> [x \in Nat |-> x + b[n].length]]
<1>1. N \in Nat /\ 0 \in Nat /\ \A n \in 1 .. N : b[n].length \in Nat
  <2>1. N \in Nat /\ \A n \in 1 .. N : b[n] \in Action
    OBVIOUS
  <2> QED BY <2>1 DEF Action
<1>2. h \in Steps(Nat, N)
  BY <1>1 DEF Steps
<1>3. PICK F : Recursion(F, Nat, 0, N, h)
  <2> HIDE DEF N, h
  <2> QED BY <1>1, <1>2, RecursionExists
<1>4. F \in [0 .. N -> Nat] /\ F[0] = 0 /\ \A n \in 1 .. N : F[n] = F[n - 1] + b[n].length
  <2>1. F \in [0 .. N -> Nat] /\ F[0] = 0 /\ \A n \in 1 .. N : F[n] = h[n][F[n - 1]]
    BY <1>3 DEF Recursion
  <2>2. ASSUME NEW n \in 1 .. N PROVE F[n] = F[n - 1] + b[n].length
    <3>1. n - 1 \in 0 .. N
      OBVIOUS
    <3>2. F[n - 1] \in Nat
      BY <2>1, <3>1
    <3> QED BY <2>1, <3>2
  <2> QED BY <2>1, <2>2
<1> DEFINE R(f) == [n \in 0 .. N |-> IF n = 0 THEN 0 ELSE f[n - 1] + b[n].length]
<1>5. F = R(F)
  BY <1>4
<1>6. LengthUpTo(b) = R(LengthUpTo(b))
  <2>1. \E f : f = R(f)
    <3> HIDE DEF R
    <3> QED BY <1>5
  <2> QED BY <2>1 DEF LengthUpTo
<1> DEFINE L == LengthUpTo(b)
           T == {n \in 0 .. N : L[n] \in Nat}
<1>7. L[0] = 0 /\ \A n \in 1 .. N : L[n] = L[n - 1] + b[n].length
  <2> HIDE DEF L
  <2>1. ASSUME NEW n \in 0 .. N PROVE L[n] = IF n = 0 THEN 0 ELSE L[n - 1] + b[n].length
    BY <1>6 DEF L
  <2>2. 0 \in 0 .. N /\ \A n \in 1 .. N : n \in 0 .. N /\ n # 0
    BY <1>1
  <2> QED BY <2>1, <2>2
<1>8. \A n \in 0 .. N : n \in T
  <2>1. 0 \in T
    BY <1>1, <1>7
  <2>2. ASSUME NEW n \in 1 .. N, n - 1 \in T PROVE n \in T
    <3> HIDE DEF L
    <3>1. L[n] \in Nat
      BY <2>2, <1>1, <1>7
    <3> QED BY <3>1
  <2> HIDE DEF T, N
  <2> QED BY <1>1, <2>1, <2>2, InductionUpTo
<1> QED BY <1>7, <1>8

(* Nothing has no length.                                                  *)
LEMMA LengthEmpty == Length(<< >>) = 0
<1> DEFINE none == << >>
<1>1. none \in Seq(Action) /\ Len(none) = 0
  OBVIOUS
<1>2. Length(none) = 0
  <2> HIDE DEF none
  <2> QED BY <1>1, LengthIsUpTo, LengthRecursion
<1> QED BY <1>2

(* An action adds its length.                                              *)
LEMMA LengthAppend ==
  ASSUME NEW b \in Seq(Action), NEW a \in Action
  PROVE  Length(b) \in Nat /\ Length(Append(b, a)) = Length(b) + a.length
<1> DEFINE c == Append(b, a)
           N == Len(b)
           F == LengthUpTo(b)
           G == LengthUpTo(c)
<1>1. /\ c \in Seq(Action) /\ Len(c) = N + 1 /\ c[N + 1] = a /\ N \in Nat
      /\ \A n \in 1 .. N : c[n] = b[n]
  OBVIOUS
<1>2. /\ \A n \in 0 .. N : F[n] \in Nat
      /\ F[0] = 0 /\ \A n \in 1 .. N : F[n] = F[n - 1] + b[n].length
  BY LengthRecursion
<1>3. G[0] = 0 /\ \A n \in 1 .. N + 1 : G[n] = G[n - 1] + c[n].length
  <2> HIDE DEF c
  <2> QED BY <1>1, LengthRecursion
<1> DEFINE T == {n \in 0 .. N : G[n] = F[n]}
<1>4. \A n \in 0 .. N : n \in T
  <2> HIDE DEF F, G, c
  <2>1. 0 \in T
    BY <1>1, <1>2, <1>3
  <2>2. ASSUME NEW n \in 1 .. N, n - 1 \in T PROVE n \in T
    <3>1. n \in 1 .. N + 1 /\ c[n] = b[n]
      BY <1>1
    <3>2. G[n] = F[n]
      BY <1>2, <1>3, <2>2, <3>1
    <3> QED BY <3>2
  <2> HIDE DEF T, N
  <2> QED BY <1>1, <2>1, <2>2, InductionUpTo
<1>5. G[N] = F[N] /\ F[N] \in Nat
  <2>1. N \in 0 .. N
    BY <1>1
  <2> HIDE DEF F, G, N
  <2> QED BY <1>2, <1>4, <2>1
<1>6. G[N + 1] = G[N] + a.length
  <2>1. N + 1 \in 1 .. N + 1 /\ (N + 1) - 1 = N
    BY <1>1
  <2> HIDE DEF F, G, c, N
  <2> QED BY <1>1, <1>3, <2>1
<1>7. Length(b) = F[N] /\ Length(c) = G[N + 1]
  BY <1>1, LengthIsUpTo
<1> HIDE DEF F, G, N
<1> QED BY <1>5, <1>6, <1>7

-----------------------------------------------------------------------------
(* How the actions are cut into batches.                                   *)

Cuts == Seq(Seq(Action)) \ {<< >>}

(* The batches before the last one, and the last one.                      *)
LEMMA FrontAndLast ==
  ASSUME NEW S, NEW ss \in Seq(S), ss # << >>
  PROVE  /\ Front(ss) \in Seq(S) /\ Last(ss) \in S /\ ss = Append(Front(ss), Last(ss))
         /\ Len(Front(ss)) = Len(ss) - 1 /\ \A i \in 1 .. Len(ss) - 1 : Front(ss)[i] = ss[i]
<1>1. PICK t \in Seq(S), e \in S : ss = Append(t, e)
  BY SequenceEmptyOrAppend
<1>2. /\ Len(ss) = Len(t) + 1 /\ ss[Len(ss)] = e /\ Len(t) \in Nat
      /\ \A i \in 1 .. Len(t) : ss[i] = t[i]
  BY <1>1
<1>3. SubSeq(ss, 1, Len(ss) - 1) = t
  <2>1. /\ SubSeq(ss, 1, Len(ss) - 1) \in Seq(S) /\ Len(SubSeq(ss, 1, Len(ss) - 1)) = Len(t)
        /\ \A i \in 1 .. Len(t) : SubSeq(ss, 1, Len(ss) - 1)[i] = ss[i]
    BY <1>2
  <2> QED BY <1>2, <2>1, SeqEqual
<1>4. Front(ss) = t /\ Last(ss) = e
  BY <1>2, <1>3 DEF Front, Last
<1> QED BY <1>1, <1>2, <1>4

(* An action is added to the last batch or makes a new one.                *)
LEMMA WithNextType ==
  ASSUME NEW b \in Cuts, NEW a \in Action
  PROVE  WithNext(b, a) \in Cuts
<1> DEFINE B == Seq(Action)
<1>1. b \in Seq(B) /\ b # << >>
  BY DEF Cuts
<1>2. Front(b) \in Seq(B) /\ Last(b) \in B
  <2> HIDE DEF B
  <2> QED BY <1>1, FrontAndLast
<1> DEFINE x == Append(Last(b), a)
           y == << a >>
<1>3. x \in B /\ y \in B
  BY <1>2
<1>4. Front(b) \o << x >> \in Seq(B) /\ Front(b) \o << x >> # << >>
  <2> HIDE DEF B, x
  <2> QED BY <1>2, <1>3
<1>5. Append(b, y) \in Seq(B) /\ Append(b, y) # << >>
  <2> HIDE DEF B, y
  <2> QED BY <1>1, <1>3
<1> QED BY <1>4, <1>5 DEF WithNext, Cuts

BatchesUpTo(q) ==
    CHOOSE f : f = [n \in 0 .. Len(q) |-> IF n = 0 THEN << << >> >> ELSE WithNext(f[n - 1], q[n])]

(* Batches is that recursive function's value at the end.                  *)
LEMMA BatchesIsUpTo ==
  ASSUME NEW q
  PROVE  Batches(q) = BatchesUpTo(q)[Len(q)]
BY DEF Batches, BatchesUpTo

(* The function exists, and its values are batches.                        *)
LEMMA BatchesRecursion ==
  ASSUME NEW q \in Seq(Action)
  PROVE  /\ \A n \in 0 .. Len(q) : BatchesUpTo(q)[n] \in Cuts
         /\ BatchesUpTo(q)[0] = << << >> >>
         /\ \A n \in 1 .. Len(q) : BatchesUpTo(q)[n] = WithNext(BatchesUpTo(q)[n - 1], q[n])
<1> DEFINE N == Len(q)
           b == << << >> >>
           h == [n \in 1 .. N |-> [x \in Cuts |-> WithNext(x, q[n])]]
<1>1. N \in Nat /\ \A n \in 1 .. N : q[n] \in Action
  OBVIOUS
<1>1a. b \in Cuts
  BY DEF Cuts
<1>2. h \in Steps(Cuts, N)
  BY <1>1, WithNextType DEF Steps
<1>3. PICK F : Recursion(F, Cuts, b, N, h)
  <2> HIDE DEF N, h, b
  <2> QED BY <1>1, <1>1a, <1>2, RecursionExists
<1>4. F \in [0 .. N -> Cuts] /\ F[0] = b /\ \A n \in 1 .. N : F[n] = WithNext(F[n - 1], q[n])
  <2>1. F \in [0 .. N -> Cuts] /\ F[0] = b /\ \A n \in 1 .. N : F[n] = h[n][F[n - 1]]
    BY <1>3 DEF Recursion
  <2>2. ASSUME NEW n \in 1 .. N PROVE F[n] = WithNext(F[n - 1], q[n])
    <3>1. n - 1 \in 0 .. N
      OBVIOUS
    <3>2. F[n - 1] \in Cuts
      BY <2>1, <3>1
    <3> QED BY <2>1, <3>2
  <2> QED BY <2>1, <2>2
<1> DEFINE R(f) == [n \in 0 .. N |-> IF n = 0 THEN b ELSE WithNext(f[n - 1], q[n])]
<1>5. F = R(F)
  <2> HIDE DEF b
  <2> QED BY <1>4
<1>6. BatchesUpTo(q) = R(BatchesUpTo(q))
  <2>1. \E f : f = R(f)
    <3> HIDE DEF R
    <3> QED BY <1>5
  <2> QED BY <2>1 DEF BatchesUpTo
<1> DEFINE L == BatchesUpTo(q)
           T == {n \in 0 .. N : L[n] \in Cuts}
<1>7. L[0] = b /\ \A n \in 1 .. N : L[n] = WithNext(L[n - 1], q[n])
  <2> HIDE DEF L
  <2>1. ASSUME NEW n \in 0 .. N PROVE L[n] = IF n = 0 THEN b ELSE WithNext(L[n - 1], q[n])
    BY <1>6 DEF L
  <2>2. 0 \in 0 .. N /\ \A n \in 1 .. N : n \in 0 .. N /\ n # 0
    BY <1>1
  <2> QED BY <2>1, <2>2
<1>8. \A n \in 0 .. N : n \in T
  <2>1. 0 \in T
    <3> HIDE DEF L, b
    <3> QED BY <1>1, <1>1a, <1>7
  <2>2. ASSUME NEW n \in 1 .. N, n - 1 \in T PROVE n \in T
    <3> HIDE DEF L
    <3>1. L[n] \in Cuts
      BY <2>2, <1>1, <1>7, WithNextType
    <3> QED BY <3>1
  <2> HIDE DEF T, N
  <2> QED BY <1>1, <2>1, <2>2, InductionUpTo
<1> QED BY <1>7, <1>8

(* Without actions there is one batch, which is empty.                     *)
LEMMA BatchesEmpty == Batches(<< >>) = << << >> >>
<1> DEFINE none == << >>
           one == << << >> >>
<1>1. none \in Seq(Action) /\ Len(none) = 0
  OBVIOUS
<1>2. BatchesUpTo(none)[0] = one
  <2> HIDE DEF none
  <2> QED BY <1>1, BatchesRecursion
<1>3. Batches(none) = one
  <2> HIDE DEF none, one
  <2> QED BY <1>1, <1>2, BatchesIsUpTo
<1> QED BY <1>3

(* The actions are cut one after the other.                                *)
LEMMA BatchesAppend ==
  ASSUME NEW q \in Seq(Action), NEW a \in Action
  PROVE  Batches(q) \in Cuts /\ Batches(Append(q, a)) = WithNext(Batches(q), a)
<1> DEFINE c == Append(q, a)
           N == Len(q)
           F == BatchesUpTo(q)
           G == BatchesUpTo(c)
           b == << << >> >>
<1>1. /\ c \in Seq(Action) /\ Len(c) = N + 1 /\ c[N + 1] = a /\ N \in Nat
      /\ \A n \in 1 .. N : c[n] = q[n]
  OBVIOUS
<1>2. /\ \A n \in 0 .. N : F[n] \in Cuts
      /\ F[0] = b /\ \A n \in 1 .. N : F[n] = WithNext(F[n - 1], q[n])
  BY BatchesRecursion, Zenon
<1>3. G[0] = b /\ \A n \in 1 .. N + 1 : G[n] = WithNext(G[n - 1], c[n])
  <2>1. \A n \in 1 .. Len(c) : G[n] = WithNext(G[n - 1], c[n])
    <3> HIDE DEF c
    <3> QED BY <1>1, BatchesRecursion, Zenon
  <2>2. G[0] = b
    <3> HIDE DEF c
    <3> QED BY <1>1, BatchesRecursion, Zenon
  <2> HIDE DEF G, b, c
  <2> QED BY <1>1, <2>1, <2>2
<1> HIDE DEF b
<1> DEFINE T == {n \in 0 .. N : G[n] = F[n]}
<1>4. \A n \in 0 .. N : n \in T
  <2> HIDE DEF F, G, c
  <2>1. 0 \in T
    BY <1>1, <1>2, <1>3
  <2>2. ASSUME NEW n \in 1 .. N, n - 1 \in T PROVE n \in T
    <3>1. n \in 1 .. N + 1 /\ c[n] = q[n]
      BY <1>1
    <3>2. G[n] = F[n]
      BY <1>2, <1>3, <2>2, <3>1
    <3> QED BY <3>2
  <2> HIDE DEF T, N
  <2> QED BY <1>1, <2>1, <2>2, InductionUpTo
<1>5. G[N] = F[N] /\ F[N] \in Cuts
  <2>1. N \in 0 .. N
    BY <1>1
  <2> HIDE DEF F, G, N
  <2> QED BY <1>2, <1>4, <2>1
<1>6. G[N + 1] = WithNext(G[N], a)
  <2>1. N + 1 \in 1 .. N + 1 /\ (N + 1) - 1 = N
    BY <1>1
  <2> HIDE DEF F, G, c, N
  <2> QED BY <1>1, <1>3, <2>1
<1>7. Batches(q) = F[N] /\ Batches(c) = G[N + 1]
  BY <1>1, BatchesIsUpTo
<1> HIDE DEF F, G, N
<1> QED BY <1>5, <1>6, <1>7

Fitting(b) == \A i \in 1 .. Len(b) : Length(b[i]) <= SizeLimit

(* A batch with a fitting action added is a batch that fits, and the       *)
(* actions stay in their order.                                            *)
LEMMA WithNextFits ==
  ASSUME NEW b \in Cuts, Fitting(b), NEW a \in Action, a.length <= SizeLimit
  PROVE  /\ Fitting(WithNext(b, a))
         /\ FlattenSeq(WithNext(b, a)) = Append(FlattenSeq(b), a)
<1> DEFINE B == Seq(Action)
           front == Front(b)
           last == Last(b)
           x == Append(last, a)
           y == << a >>
<1>1. b \in Seq(B) /\ b # << >> /\ Len(b) \in 1 .. Len(b) /\ last = b[Len(b)]
  BY DEF Cuts, Last
<1>2. /\ front \in Seq(B) /\ last \in B /\ b = Append(front, last)
      /\ Len(front) = Len(b) - 1 /\ \A i \in 1 .. Len(b) - 1 : front[i] = b[i]
  <2> HIDE DEF B
  <2> QED BY <1>1, FrontAndLast
<1>3. x \in B /\ y \in B
  BY <1>2
<1>4. FlattenSeq(b) = FlattenSeq(front) \o last
  <2>1. FlattenSeq(Append(front, last)) = FlattenSeq(front) \o last
    <3> HIDE DEF front, last
    <3> QED BY <1>2, FlattenAppend
  <2> QED BY <1>2, <2>1
<1>5. FlattenSeq(front) \in B /\ FlattenSeq(b) \in B
  BY <1>1, <1>2, FlattenType
<1>6. CASE last = << >> \/ Fits(last, a)
  <2>1. WithNext(b, a) = Append(front, x)
    <3>1. WithNext(b, a) = front \o << x >>
      BY <1>6 DEF WithNext
    <3>2. front \o << x >> = Append(front, x)
      <4> HIDE DEF B, front, x
      <4> QED BY <1>2, <1>3
    <3> QED BY <3>1, <3>2
  <2>2. FlattenSeq(Append(front, x)) = FlattenSeq(front) \o x
    <3> HIDE DEF front, x
    <3> QED BY <1>2, <1>3, FlattenAppend
  <2>3. FlattenSeq(front) \o x = Append(FlattenSeq(front) \o last, a)
    <3> HIDE DEF front, last
    <3> QED BY <1>2, <1>5, ConcatAppend
  <2>4. Length(x) <= SizeLimit
    <3>1. CASE last = << >>
      <4>1. Length(x) = Length(last) + a.length
        BY <1>2, LengthAppend
      <4>2. Length(last) = 0 /\ a.length \in Nat
        BY <3>1, LengthEmpty DEF Action
      <4> QED BY <4>1, <4>2
    <3>2. CASE Fits(last, a)
      <4>1. Length(x) = Length(last) + a.length
        BY <1>2, LengthAppend
      <4> QED BY <3>2, <4>1 DEF Fits
    <3> QED BY <1>6, <3>1, <3>2
  <2>5. ASSUME NEW i \in 1 .. Len(Append(front, x)) PROVE Length(Append(front, x)[i]) <= SizeLimit
    <3>1. CASE i = Len(b)
      <4>1. Append(front, x)[i] = x
        <5> HIDE DEF front, x, B
        <5> QED BY <1>2, <3>1
      <4> QED BY <2>4, <4>1
    <3>2. CASE i # Len(b)
      <4>1. i \in 1 .. Len(b) - 1 /\ i \in 1 .. Len(b) /\ Append(front, x)[i] = b[i]
        <5> HIDE DEF front, x, B
        <5> QED BY <1>2, <3>2
      <4> QED BY <4>1 DEF Fitting
    <3> QED BY <3>1, <3>2
  <2>6. Fitting(Append(front, x))
    BY <2>5 DEF Fitting
  <2> HIDE DEF x, front, last
  <2> QED BY <1>4, <2>1, <2>2, <2>3, <2>6
<1>7. CASE ~(last = << >> \/ Fits(last, a))
  <2>1. WithNext(b, a) = Append(b, y)
    BY <1>7 DEF WithNext
  <2>2. FlattenSeq(Append(b, y)) = FlattenSeq(b) \o y
    <3> HIDE DEF y
    <3> QED BY <1>1, <1>3, FlattenAppend
  <2>3. FlattenSeq(b) \o y = Append(FlattenSeq(b), a)
    BY <1>5
  <2>4. Length(y) <= SizeLimit
    <3>1. << >> \in Seq(Action) /\ Append(<< >>, a) = y
      OBVIOUS
    <3>2. Length(Append(<< >>, a)) = Length(<< >>) + a.length
      BY <3>1, LengthAppend
    <3>3. a.length \in Nat
      BY DEF Action
    <3> QED BY <3>1, <3>2, <3>3, LengthEmpty
  <2>5. ASSUME NEW i \in 1 .. Len(Append(b, y)) PROVE Length(Append(b, y)[i]) <= SizeLimit
    <3>1. CASE i = Len(b) + 1
      <4>1. Append(b, y)[i] = y
        <5> HIDE DEF y, B
        <5> QED BY <1>1, <3>1
      <4> QED BY <2>4, <4>1
    <3>2. CASE i # Len(b) + 1
      <4>1. i \in 1 .. Len(b) /\ Append(b, y)[i] = b[i]
        <5> HIDE DEF y, B
        <5> QED BY <1>1, <3>2
      <4> QED BY <4>1 DEF Fitting
    <3> QED BY <3>1, <3>2
  <2>6. Fitting(Append(b, y))
    BY <2>5 DEF Fitting
  <2> HIDE DEF y
  <2> QED BY <2>1, <2>2, <2>3, <2>6
<1> QED BY <1>6, <1>7

SmallActions == {a \in Action : a.length <= SizeLimit}

(* The batches hold the actions in their order, and each of them fits.     *)
LEMMA BatchesHoldActions ==
  ASSUME NEW q \in Seq(SmallActions)
  PROVE  Batches(q) \in Cuts /\ Fitting(Batches(q)) /\ FlattenSeq(Batches(q)) = q
<1> DEFINE T == {t \in Seq(SmallActions) :
                   Batches(t) \in Cuts /\ Fitting(Batches(t)) /\ FlattenSeq(Batches(t)) = t}
<1>1. << >> \in T
  <2>1. << << >> >> \in Cuts /\ << >> \in Seq(Action) /\ << >> \in Seq(SmallActions)
    BY DEF Cuts
  <2>2. FlattenSeq(<< << >> >>) = << >>
    BY <2>1, FlattenOne
  <2>3. Fitting(<< << >> >>)
    <3>1. SizeLimit \in Nat
      BY UpdatesAssumption
    <3>2. \A i \in 1 .. Len(<< << >> >>) : << << >> >>[i] = << >>
      OBVIOUS
    <3>3. 0 <= SizeLimit
      BY <3>1
    <3> QED BY <3>2, <3>3, LengthEmpty DEF Fitting
  <2> QED BY <2>1, <2>2, <2>3, BatchesEmpty
<1>2. ASSUME NEW t \in Seq(SmallActions), NEW a \in SmallActions, t \in T
      PROVE  Append(t, a) \in T
  <2>1. t \in Seq(Action) /\ a \in Action /\ a.length <= SizeLimit
        /\ Append(t, a) \in Seq(SmallActions)
    <3>1. SmallActions \subseteq Action
      BY DEF SmallActions
    <3> QED BY <3>1, SeqMonotonic DEF SmallActions
  <2>2. Batches(t) \in Cuts /\ Fitting(Batches(t)) /\ FlattenSeq(Batches(t)) = t
    BY <1>2
  <2>3. Batches(Append(t, a)) = WithNext(Batches(t), a)
    BY <2>1, BatchesAppend
  <2>4. WithNext(Batches(t), a) \in Cuts
    BY <2>1, <2>2, WithNextType
  <2>5. /\ Fitting(WithNext(Batches(t), a))
        /\ FlattenSeq(WithNext(Batches(t), a)) = Append(t, a)
    BY <2>1, <2>2, WithNextFits
  <2> QED BY <2>1, <2>3, <2>4, <2>5
<1>3. \A t \in Seq(SmallActions) : t \in T
  <2> HIDE DEF T
  <2> QED BY <1>1, <1>2, SeqInductionIn
<1> QED BY <1>3

-----------------------------------------------------------------------------
(* Messages, and what of them reaches a client.                            *)

Message ==
    [type : {"loaded", "leave", "stoplag"}, who : Players]
    \cup [type : {"startlag"}, who : SUBSET Players]
    \cup [type : {"update"}, actions : Seq(Action), time : BOOLEAN]
    \cup [type : {"overflow"}, actions : Seq(Action)]

(* The messages of the game are messages.                                  *)
LEMMA MessageTypes ==
  /\ \A q \in Players : /\ {LoadedOthers(q), Leave(q), StopLag(q)} \subseteq Message
                        /\ LoadedOthers(q).type = "loaded" /\ Leave(q).type = "leave"
                        /\ StopLag(q).type = "stoplag"
  /\ \A L \in SUBSET Players : StartLag(L) \in Message /\ StartLag(L).type = "startlag"
  /\ \A b \in Seq(Action) : /\ \A time \in BOOLEAN : /\ Incoming(b, time) \in Message
                                                     /\ Incoming(b, time).type = "update"
                                                     /\ Incoming(b, time).actions = b
                            /\ Overflow(b) \in Message /\ Overflow(b).type = "overflow"
                            /\ Overflow(b).actions = b
BY DEF Message, LoadedOthers, Leave, StopLag, StartLag, Incoming, Overflow

(* The empty update of GProxy++ is a message, too.                         *)
LEMMA EmptyUpdateType ==
  /\ EmptyUpdate[1] \in Message /\ EmptyUpdate[1].type = "update"
  /\ EmptyUpdate[1].actions = << >>
  /\ EmptyUpdate = << EmptyUpdate[1] >> /\ Len(EmptyUpdate) = 1
  /\ Empties \in Seq(Message) /\ \A i \in 1 .. Len(Empties) : Empties[i] = EmptyUpdate[1]
<1>1. EmptyUpdate[1] = Incoming(<< >>, FALSE) /\ EmptyUpdate = << EmptyUpdate[1] >>
  BY DEF EmptyUpdate
<1> DEFINE b == << >>
<1>2. b \in Seq(Action)
  OBVIOUS
<1>3. /\ EmptyUpdate[1] \in Message /\ EmptyUpdate[1].type = "update"
      /\ EmptyUpdate[1].actions = << >>
  <2>1. Incoming(b, FALSE) \in Message /\ Incoming(b, FALSE).type = "update"
        /\ Incoming(b, FALSE).actions = b
    <3> HIDE DEF b
    <3> QED BY <1>2, MessageTypes
  <2> QED BY <1>1, <2>1
<1>4. EmptyActions \in Nat
  BY UpdatesAssumption
<1>5. Empties \in [1 .. EmptyActions -> Message] /\ Len(Empties) = EmptyActions
  BY <1>3, <1>4 DEF Empties
<1>6. Empties \in Seq(Message) /\ \A i \in 1 .. Len(Empties) : Empties[i] = EmptyUpdate[1]
  BY <1>4, <1>5 DEF Empties
<1>7. Len(EmptyUpdate) = 1
  BY <1>1
<1> QED BY <1>1, <1>3, <1>6, <1>7

Mattering(l, m) == m.type \in {"leave", "update", "overflow"} \/ (l /\ m.type = "loaded")
Pieces(l, p, s) ==
    [i \in DOMAIN s |->
        IF ~Mattering(l, s[i]) THEN << >>
        ELSE IF p \in GProxyPlayers /\ BeginsUpdate(s, i) THEN Append(Empties, s[i])
        ELSE << s[i] >>]
Reach(l, p, s) == FlattenSeq(Pieces(l, p, s))

(* Reach is Reaching where it matters whether maps are loaded in game.     *)
LEMMA ReachingIsReach ==
  ASSUME NEW p, NEW s
  PROVE  Reaching(p, s) = Reach(loadInGame, p, s)
BY DEF Reaching, Reach, Pieces, Matters, Mattering

EndsOverflow(s) == s # << >> /\ s[Len(s)].type = "overflow"

(* Each message is a piece of what reaches the client.                     *)
LEMMA PiecesType ==
  ASSUME NEW l, NEW p, NEW s \in Seq(Message)
  PROVE  Pieces(l, p, s) \in Seq(Seq(Message)) /\ Len(Pieces(l, p, s)) = Len(s)
<1>1. DOMAIN s = 1 .. Len(s) /\ Len(s) \in Nat /\ Empties \in Seq(Message)
  BY EmptyUpdateType
<1>2. ASSUME NEW i \in 1 .. Len(s)
      PROVE  Append(Empties, s[i]) \in Seq(Message) /\ << s[i] >> \in Seq(Message)
             /\ << >> \in Seq(Message)
  BY <1>1
<1>3. Pieces(l, p, s) \in [1 .. Len(s) -> Seq(Message)]
  BY <1>1, <1>2 DEF Pieces
<1> QED BY <1>1, <1>3

(* The pieces of two sequences are those of the first and the second.      *)
LEMMA PiecesConcat ==
  ASSUME NEW l, NEW p, NEW s \in Seq(Message), NEW t \in Seq(Message), ~EndsOverflow(s)
  PROVE  Pieces(l, p, s \o t) = Pieces(l, p, s) \o Pieces(l, p, t)
<1> DEFINE st == s \o t
           piece(m, b) == IF ~Mattering(l, m) THEN << >>
                          ELSE IF p \in GProxyPlayers /\ b THEN Append(Empties, m)
                          ELSE << m >>
<1>1. /\ st \in Seq(Message) /\ Len(st) = Len(s) + Len(t) /\ Len(s) \in Nat /\ Len(t) \in Nat
      /\ \A i \in 1 .. Len(s) : st[i] = s[i]
      /\ \A i \in 1 .. Len(t) : st[Len(s) + i] = t[i]
      /\ DOMAIN st = 1 .. Len(st) /\ DOMAIN s = 1 .. Len(s) /\ DOMAIN t = 1 .. Len(t)
  OBVIOUS
<1> HIDE DEF st
<1>2. ASSUME NEW i \in 1 .. Len(s) PROVE BeginsUpdate(st, i) = BeginsUpdate(s, i) /\ st[i] = s[i]
  <2>1. CASE i = 1
    BY <1>1, <2>1 DEF BeginsUpdate
  <2>2. CASE i # 1
    <3>1. i - 1 \in 1 .. Len(s)
      BY <2>2
    <3>2. st[i - 1] = s[i - 1] /\ st[i] = s[i]
      BY <1>1, <3>1
    <3> QED BY <3>2 DEF BeginsUpdate
  <2> QED BY <2>1, <2>2
<1>3. ASSUME NEW i \in 1 .. Len(t)
      PROVE  BeginsUpdate(st, Len(s) + i) = BeginsUpdate(t, i) /\ st[Len(s) + i] = t[i]
  <2>1. CASE i = 1 /\ s = << >>
    <3>1. Len(s) + i = 1
      BY <2>1
    <3> QED BY <1>1, <2>1, <3>1 DEF BeginsUpdate
  <2>2. CASE i = 1 /\ s # << >>
    <3>1. (Len(s) + i) - 1 = Len(s) /\ Len(s) \in 1 .. Len(s)
      BY <1>1, <2>2
    <3>2. st[(Len(s) + i) - 1].type # "overflow"
      BY <1>1, <2>2, <3>1 DEF EndsOverflow
    <3> QED BY <1>1, <2>2, <3>2 DEF BeginsUpdate
  <2>3. CASE i # 1
    <3>1. i - 1 \in 1 .. Len(t) /\ (Len(s) + i) - 1 = Len(s) + (i - 1) /\ Len(s) + i # 1
      BY <1>1, <2>3
    <3>2. st[(Len(s) + i) - 1] = t[i - 1] /\ st[Len(s) + i] = t[i]
      BY <1>1, <3>1
    <3> QED BY <2>3, <3>1, <3>2 DEF BeginsUpdate
  <2> QED BY <2>1, <2>2, <2>3
<1> DEFINE A == Pieces(l, p, s)
           C == Pieces(l, p, t)
           AC == Pieces(l, p, st)
           B == Seq(Message)
<1>4. A \in Seq(B) /\ Len(A) = Len(s) /\ C \in Seq(B) /\ Len(C) = Len(t)
      /\ AC \in Seq(B) /\ Len(AC) = Len(st)
  BY <1>1, PiecesType
<1>5. /\ \A i \in 1 .. Len(s) : A[i] = piece(s[i], BeginsUpdate(s, i))
      /\ \A i \in 1 .. Len(t) : C[i] = piece(t[i], BeginsUpdate(t, i))
      /\ \A i \in 1 .. Len(st) : AC[i] = piece(st[i], BeginsUpdate(st, i))
  BY <1>1 DEF Pieces
<1>6. ASSUME NEW i \in 1 .. Len(s) PROVE AC[i] = A[i]
  <2>1. i \in 1 .. Len(st)
    BY <1>1
  <2> HIDE DEF piece, A, AC
  <2> QED BY <1>2, <1>5, <2>1
<1>7. ASSUME NEW i \in 1 .. Len(t) PROVE AC[Len(s) + i] = C[i]
  <2>1. Len(s) + i \in 1 .. Len(st)
    BY <1>1
  <2> HIDE DEF piece, C, AC
  <2> QED BY <1>3, <1>5, <2>1
<1>8. AC = A \o C
  <2> HIDE DEF A, C, AC, B, piece
  <2>1. Len(AC) = Len(A) + Len(C)
    BY <1>1, <1>4
  <2>2. (\A i \in 1 .. Len(A) : AC[i] = A[i]) /\ \A i \in 1 .. Len(C) : AC[Len(A) + i] = C[i]
    BY <1>4, <1>6, <1>7
  <2>3. A \in Seq(B) /\ C \in Seq(B) /\ AC \in Seq(B)
    BY <1>4
  <2> QED BY <2>1, <2>2, <2>3, IsConcat
<1> QED BY <1>8 DEF st

(* What reaches the client of two sequences is what reaches it of each.    *)
LEMMA ReachConcat ==
  ASSUME NEW l, NEW p, NEW s \in Seq(Message), NEW t \in Seq(Message), ~EndsOverflow(s)
  PROVE  Reach(l, p, s \o t) = Reach(l, p, s) \o Reach(l, p, t)
<1>1. Pieces(l, p, s \o t) = Pieces(l, p, s) \o Pieces(l, p, t)
  BY PiecesConcat
<1>2. Pieces(l, p, s) \in Seq(Seq(Message)) /\ Pieces(l, p, t) \in Seq(Seq(Message))
  BY PiecesType
<1>3. FlattenSeq(Pieces(l, p, s) \o Pieces(l, p, t))
      = FlattenSeq(Pieces(l, p, s)) \o FlattenSeq(Pieces(l, p, t))
  BY <1>2, FlattenConcat
<1> QED BY <1>1, <1>3 DEF Reach

(* Messages reach the client.                                              *)
LEMMA ReachType ==
  ASSUME NEW l, NEW p, NEW s \in Seq(Message)
  PROVE  Reach(l, p, s) \in Seq(Message)
BY PiecesType, FlattenType DEF Reach

(* Nothing reaches the client of what does not matter.                     *)
LEMMA ReachQuiet ==
  ASSUME NEW l, NEW p, NEW s \in Seq(Message), \A i \in 1 .. Len(s) : ~Mattering(l, s[i])
  PROVE  Reach(l, p, s) = << >>
<1>1. Pieces(l, p, s) \in Seq(Seq(Message)) /\ Len(Pieces(l, p, s)) = Len(s)
  BY PiecesType
<1>2. \A i \in 1 .. Len(s) : Pieces(l, p, s)[i] = << >>
  BY DEF Pieces
<1> QED BY <1>1, <1>2, FlattenEmpties DEF Reach

(* Everything that matters reaches the client as it is, where GProxy++     *)
(* adds nothing: before no message, or for this client.                    *)
LEMMA ReachPlain ==
  ASSUME NEW l, NEW p, NEW s \in Seq(Message),
         \A i \in 1 .. Len(s) : Mattering(l, s[i]),
         p \notin GProxyPlayers \/ \A i \in 1 .. Len(s) : ~BeginsUpdate(s, i)
  PROVE  Reach(l, p, s) = s
<1>1. DOMAIN s = 1 .. Len(s)
  OBVIOUS
<1>2. Pieces(l, p, s) = [i \in 1 .. Len(s) |-> << s[i] >>]
  BY <1>1 DEF Pieces
<1> QED BY <1>2, FlattenSingletons DEF Reach

IsUpdate(u) ==
    /\ u \in Seq(Message) /\ u # << >> /\ u[Len(u)].type = "update"
    /\ \A i \in 1 .. Len(u) - 1 : u[i].type = "overflow"

(* An update reaches a client who uses GProxy++ behind the empty ones.     *)
LEMMA ReachUpdate ==
  ASSUME NEW l, NEW p \in GProxyPlayers, NEW u, IsUpdate(u)
  PROVE  Reach(l, p, u) = Empties \o u
<1> DEFINE P == Pieces(l, p, u)
           B == Seq(Message)
           first == Append(Empties, u[1])
           ones == [i \in 1 .. Len(Tail(u)) |-> << Tail(u)[i] >>]
<1>1. /\ u \in Seq(Message) /\ Len(u) \in Nat /\ Len(u) >= 1 /\ DOMAIN u = 1 .. Len(u)
      /\ \A i \in 1 .. Len(u) : u[i].type \in {"update", "overflow"}
  BY DEF IsUpdate
<1>2. /\ Tail(u) \in Seq(Message) /\ Len(Tail(u)) = Len(u) - 1 /\ u[1] \in Message
      /\ \A i \in 1 .. Len(u) - 1 : Tail(u)[i] = u[i + 1]
      /\ u = << u[1] >> \o Tail(u)
  <2>1. u # << >>
    BY <1>1
  <2>2. /\ Tail(u) \in Seq(Message) /\ Len(Tail(u)) = Len(u) - 1 /\ u[1] \in Message
        /\ \A i \in 1 .. Len(u) - 1 : Tail(u)[i] = u[i + 1]
    BY <1>1, <2>1
  <2>3. u = << u[1] >> \o Tail(u)
    <3>1. << u[1] >> \in Seq(Message) /\ Len(<< u[1] >>) = 1 /\ << u[1] >>[1] = u[1]
      BY <2>2
    <3>2. Len(u) = Len(<< u[1] >>) + Len(Tail(u))
      BY <1>1, <2>2
    <3>3. \A i \in 1 .. Len(<< u[1] >>) : u[i] = << u[1] >>[i]
      BY <3>1
    <3>4. \A i \in 1 .. Len(Tail(u)) : u[Len(<< u[1] >>) + i] = Tail(u)[i]
      BY <1>1, <2>2
    <3> QED BY <1>1, <2>2, <3>1, <3>2, <3>3, <3>4, IsConcat
  <2> QED BY <2>2, <2>3
<1>3. Empties \in B /\ first \in B /\ << first >> \in Seq(B)
  <2>1. Empties \in B /\ first \in B
    BY <1>2, EmptyUpdateType
  <2> HIDE DEF B, first
  <2> QED BY <2>1
<1>4. ones \in Seq(B) /\ Len(ones) = Len(u) - 1
  <2>1. \A i \in 1 .. Len(Tail(u)) : << Tail(u)[i] >> \in B
    BY <1>2
  <2> HIDE DEF B
  <2> QED BY <1>1, <1>2, <2>1
<1>5. P \in Seq(B) /\ Len(P) = Len(u)
  BY <1>1, PiecesType
<1>6. P[1] = first
  BY <1>1 DEF Pieces, BeginsUpdate, Mattering
<1>7. ASSUME NEW i \in 1 .. Len(u) - 1 PROVE P[1 + i] = ones[i]
  <2>1. i + 1 \in 1 .. Len(u) /\ i + 1 # 1 /\ (i + 1) - 1 = i /\ 1 + i = i + 1
    BY <1>1
  <2>2. u[i].type = "overflow"
    BY DEF IsUpdate
  <2>3. ~BeginsUpdate(u, i + 1)
    BY <2>1, <2>2 DEF BeginsUpdate
  <2>4. Mattering(l, u[i + 1])
    BY <1>1, <2>1 DEF Mattering
  <2>5. P[i + 1] = << u[i + 1] >>
    BY <1>1, <2>1, <2>3, <2>4 DEF Pieces
  <2>6. ones[i] = << u[i + 1] >>
    BY <1>2
  <2> QED BY <2>1, <2>5, <2>6
<1>8. P = << first >> \o ones
  <2> HIDE DEF P, first, ones, B
  <2>1. Len(<< first >>) = 1 /\ << first >>[1] = first
    OBVIOUS
  <2>2. Len(P) = Len(<< first >>) + Len(ones)
    BY <1>1, <1>4, <1>5, <2>1
  <2>3. \A i \in 1 .. Len(<< first >>) : P[i] = << first >>[i]
    BY <1>6, <2>1
  <2>4. \A i \in 1 .. Len(ones) : P[Len(<< first >>) + i] = ones[i]
    BY <1>4, <1>7, <2>1
  <2> QED BY <1>3, <1>4, <1>5, <2>2, <2>3, <2>4, IsConcat
<1>9. FlattenSeq(P) = FlattenSeq(<< first >>) \o FlattenSeq(ones)
  <2> HIDE DEF P, first, ones
  <2> QED BY <1>3, <1>4, <1>8, FlattenConcat
<1>10. FlattenSeq(<< first >>) = first /\ FlattenSeq(ones) = Tail(u)
  BY <1>2, <1>3, FlattenOne, FlattenSingletons
<1>11. first \o Tail(u) = Empties \o (<< u[1] >> \o Tail(u))
  <2>1. first = Empties \o << u[1] >> /\ << u[1] >> \in Seq(Message)
    BY <1>2, <1>3
  <2> HIDE DEF first
  <2> QED BY <1>2, <1>3, <2>1, ConcatAssociative
<1>12. Reach(l, p, u) = FlattenSeq(P)
  BY DEF Reach
<1> HIDE DEF P, first, ones
<1> QED BY <1>2, <1>9, <1>10, <1>11, <1>12

(* What ends in two concatenated sequences.                                *)
LEMMA ConcatEnds ==
  ASSUME NEW s \in Seq(Message), NEW t \in Seq(Message), ~EndsOverflow(t),
         t # << >> \/ ~EndsOverflow(s)
  PROVE  ~EndsOverflow(s \o t)
<1>1. CASE t = << >>
  <2>1. s \o t = s
    BY <1>1
  <2> QED BY <1>1, <2>1
<1>2. CASE t # << >>
  <2>1. Len(s \o t) = Len(s) + Len(t) /\ Len(t) \in 1 .. Len(t)
    BY <1>2
  <2>2. (s \o t)[Len(s \o t)] = t[Len(t)]
    BY <2>1
  <2> QED BY <1>2, <2>2 DEF EndsOverflow
<1> QED BY <1>1, <1>2

-----------------------------------------------------------------------------
(* The messages of the game, and the actions in them.                      *)

GameMessage ==
    {m \in Message : m.type \in {"leave", "update", "overflow"} /\ Length(ActionsOf(m)) <= SizeLimit}
Told(r) == FlattenSeq([i \in DOMAIN r |-> ActionsOf(r[i])])

(* The actions in a message of the game are actions.                       *)
LEMMA ActionsOfType ==
  ASSUME NEW m \in GameMessage
  PROVE  ActionsOf(m) \in Seq(Action)
<1>1. m \in Message /\ m.type \in {"leave", "update", "overflow"}
  BY DEF GameMessage
<1>2. CASE m.type = "leave"
  BY <1>2 DEF ActionsOf
<1>3. CASE m.type # "leave"
  BY <1>1, <1>3 DEF ActionsOf, Message
<1> QED BY <1>2, <1>3

(* A departure is a message of the game, and so is an empty update.        *)
LEMMA SmallMessages ==
  /\ \A q \in Players : Leave(q) \in GameMessage /\ ActionsOf(Leave(q)) = << >>
  /\ EmptyUpdate[1] \in GameMessage /\ ActionsOf(EmptyUpdate[1]) = << >>
  /\ EmptyUpdate \in Seq(GameMessage) /\ Empties \in Seq(GameMessage)
<1>1. SizeLimit \in Nat /\ Length(<< >>) <= SizeLimit
  <2>1. SizeLimit \in Nat /\ 0 <= SizeLimit
    BY UpdatesAssumption
  <2> QED BY <2>1, LengthEmpty
<1>2. \A q \in Players : Leave(q) \in GameMessage /\ ActionsOf(Leave(q)) = << >>
  BY <1>1, MessageTypes DEF GameMessage, ActionsOf
<1>3. EmptyUpdate[1] \in GameMessage /\ ActionsOf(EmptyUpdate[1]) = << >>
  BY <1>1, EmptyUpdateType DEF GameMessage, ActionsOf
<1>4. EmptyUpdate \in Seq(GameMessage)
  <2> DEFINE e == EmptyUpdate[1]
  <2>1. EmptyUpdate = << e >> /\ e \in GameMessage
    BY <1>3, EmptyUpdateType
  <2> HIDE DEF e
  <2> QED BY <2>1
<1>5. Empties \in Seq(GameMessage)
  <2>1. Empties \in Seq(Message) /\ \A i \in 1 .. Len(Empties) : Empties[i] \in GameMessage
    BY <1>3, EmptyUpdateType
  <2> QED BY <2>1
<1> QED BY <1>2, <1>3, <1>4, <1>5

(* The actions in two sequences of messages are those of each.             *)
LEMMA ToldConcat ==
  ASSUME NEW r \in Seq(GameMessage), NEW t \in Seq(GameMessage)
  PROVE  Told(r \o t) = Told(r) \o Told(t) /\ Told(r) \in Seq(Action)
<1> DEFINE acts(u) == [i \in DOMAIN u |-> ActionsOf(u[i])]
           B == Seq(Action)
<1>1. ASSUME NEW u \in Seq(GameMessage)
      PROVE  acts(u) \in Seq(B) /\ Len(acts(u)) = Len(u)
             /\ \A i \in 1 .. Len(u) : acts(u)[i] = ActionsOf(u[i])
  <2>1. DOMAIN u = 1 .. Len(u) /\ \A i \in 1 .. Len(u) : ActionsOf(u[i]) \in B
    BY ActionsOfType
  <2> HIDE DEF B
  <2> QED BY <2>1
<1>2. acts(r \o t) = acts(r) \o acts(t)
  <2> DEFINE rt == r \o t
  <2>1. /\ rt \in Seq(GameMessage) /\ Len(rt) = Len(r) + Len(t) /\ Len(r) \in Nat /\ Len(t) \in Nat
        /\ \A i \in 1 .. Len(r) : rt[i] = r[i] /\ i \in 1 .. Len(rt)
        /\ \A i \in 1 .. Len(t) : rt[Len(r) + i] = t[i] /\ Len(r) + i \in 1 .. Len(rt)
    OBVIOUS
  <2> HIDE DEF rt
  <2>2. /\ acts(r) \in Seq(B) /\ acts(t) \in Seq(B) /\ acts(rt) \in Seq(B)
        /\ Len(acts(rt)) = Len(acts(r)) + Len(acts(t))
        /\ Len(acts(r)) = Len(r) /\ Len(acts(t)) = Len(t)
    BY <1>1, <2>1
  <2>3. \A i \in 1 .. Len(acts(r)) : acts(rt)[i] = acts(r)[i]
    <3> HIDE DEF acts, B
    <3> QED BY <1>1, <2>1, <2>2
  <2>4. ASSUME NEW i \in 1 .. Len(acts(t)) PROVE acts(rt)[Len(acts(r)) + i] = acts(t)[i]
    <3> HIDE DEF acts, B
    <3>1. i \in 1 .. Len(t) /\ rt[Len(r) + i] = t[i] /\ Len(r) + i \in 1 .. Len(rt)
      BY <2>1, <2>2
    <3>2. acts(rt)[Len(r) + i] = ActionsOf(rt[Len(r) + i]) /\ acts(t)[i] = ActionsOf(t[i])
      BY <1>1, <2>1, <3>1
    <3> QED BY <2>2, <3>1, <3>2
  <2>5. acts(rt) = acts(r) \o acts(t)
    <3> HIDE DEF acts, B
    <3> QED BY <2>2, <2>3, <2>4, IsConcat
  <2> QED BY <2>5 DEF rt
<1>3. /\ FlattenSeq(acts(r) \o acts(t)) = FlattenSeq(acts(r)) \o FlattenSeq(acts(t))
      /\ FlattenSeq(acts(r)) \in Seq(Action)
  <2> HIDE DEF acts
  <2> QED BY <1>1, FlattenConcat, FlattenType
<1>4. \A u : Told(u) = FlattenSeq(acts(u))
  BY DEF Told
<1> HIDE DEF acts
<1> QED BY <1>2, <1>3, <1>4

(* Messages without actions tell of none.                                  *)
LEMMA ToldNothing ==
  ASSUME NEW r \in Seq(GameMessage), \A i \in 1 .. Len(r) : ActionsOf(r[i]) = << >>
  PROVE  Told(r) = << >>
<1> DEFINE acts == [i \in DOMAIN r |-> ActionsOf(r[i])]
<1>1. DOMAIN r = 1 .. Len(r) /\ << >> \in Seq(Action)
  OBVIOUS
<1>2. /\ acts \in Seq(Seq(Action)) /\ Len(acts) = Len(r)
      /\ \A i \in 1 .. Len(acts) : acts[i] = << >>
  <2>2. acts \in Seq(Seq(Action)) /\ Len(acts) = Len(r)
    <3> DEFINE B == Seq(Action)
    <3>1. DOMAIN r = 1 .. Len(r) /\ \A i \in 1 .. Len(r) : ActionsOf(r[i]) \in B
      BY <1>1
    <3>2. acts \in Seq(B) /\ Len(acts) = Len(r)
      <4> HIDE DEF B
      <4> QED BY <3>1
    <3> QED BY <3>2
  <2>3. \A i \in 1 .. Len(r) : acts[i] = << >>
    BY <1>1
  <2> QED BY <2>2, <2>3
<1>3. FlattenSeq(acts) = << >>
  <2> HIDE DEF acts
  <2> QED BY <1>2, FlattenEmpties
<1> QED BY <1>3 DEF Told

(* The update made of a queue is one, and tells of the actions in the      *)
(* queue, in packets that are not too long.                                *)
LEMMA UpdateOfQueue ==
  ASSUME NEW q \in Seq(SmallActions)
  PROVE  /\ IsUpdate(UpdateOf(q)) /\ UpdateOf(q) \in Seq(GameMessage)
         /\ Told(UpdateOf(q)) = q
<1> DEFINE b == Batches(q)
           u == UpdateOf(q)
<1>1. b \in Cuts /\ Fitting(b) /\ FlattenSeq(b) = q
  BY BatchesHoldActions
<1>2. /\ b \in Seq(Seq(Action)) /\ Len(b) \in Nat /\ Len(b) >= 1
      /\ \A i \in 1 .. Len(b) : b[i] \in Seq(Action) /\ Length(b[i]) <= SizeLimit
  BY <1>1 DEF Cuts, Fitting
<1>2a. PICK N \in Nat \ {0} : N = Len(b)
  BY <1>2
<1>3. u = [i \in 1 .. N |-> IF i = N THEN Incoming(b[i], TRUE) ELSE Overflow(b[i])]
  BY <1>2a DEF UpdateOf
<1> HIDE DEF b, u
<1>4. ASSUME NEW i \in 1 .. N
      PROVE  /\ u[i] \in Message /\ u[i].actions = b[i]
             /\ u[i].type = IF i = N THEN "update" ELSE "overflow"
  <2>1. b[i] \in Seq(Action)
    BY <1>2, <1>2a
  <2>2. CASE i = N
    <3>1. u[i] = Incoming(b[i], TRUE)
      BY <1>3, <2>2
    <3>2. /\ Incoming(b[i], TRUE) \in Message /\ Incoming(b[i], TRUE).type = "update"
          /\ Incoming(b[i], TRUE).actions = b[i]
      BY <2>1, MessageTypes
    <3> QED BY <2>2, <3>1, <3>2
  <2>3. CASE i # N
    <3>1. u[i] = Overflow(b[i])
      BY <1>3, <2>3
    <3>2. /\ Overflow(b[i]) \in Message /\ Overflow(b[i]).type = "overflow"
          /\ Overflow(b[i]).actions = b[i]
      BY <2>1, MessageTypes
    <3> QED BY <2>3, <3>1, <3>2
  <2> QED BY <2>2, <2>3
<1>5. ASSUME NEW i \in 1 .. N PROVE u[i] \in GameMessage /\ ActionsOf(u[i]) = b[i]
  <2>1. u[i].type \in {"update", "overflow"} /\ u[i].type # "leave"
    BY <1>4
  <2>2. ActionsOf(u[i]) = b[i]
    BY <1>4, <2>1 DEF ActionsOf
  <2> QED BY <1>2, <1>2a, <1>4, <2>1, <2>2 DEF GameMessage
<1>6. u \in Seq(GameMessage) /\ u \in Seq(Message) /\ Len(u) = N /\ DOMAIN u = 1 .. N
  <2>1. DOMAIN u = 1 .. N /\ u = [i \in 1 .. N |-> u[i]]
    BY <1>3
  <2>2. u \in [1 .. N -> GameMessage] /\ u \in [1 .. N -> Message]
    BY <1>4, <1>5, <2>1
  <2> QED BY <2>2
<1>7. IsUpdate(u)
  <2>1. u # << >> /\ u[Len(u)].type = "update"
    <3>1. N \in 1 .. N /\ Len(u) = N
      BY <1>6
    <3> QED BY <1>4, <3>1
  <2>2. ASSUME NEW i \in 1 .. Len(u) - 1 PROVE u[i].type = "overflow"
    <3>1. i \in 1 .. N /\ i # N
      BY <1>6
    <3> QED BY <1>4, <3>1
  <2> QED BY <1>6, <2>1, <2>2 DEF IsUpdate
<1>8. [i \in DOMAIN u |-> ActionsOf(u[i])] = b
  <2> DEFINE acts == [i \in DOMAIN u |-> ActionsOf(u[i])]
  <2>1. acts \in Seq(Seq(Action)) /\ Len(acts) = Len(b) /\ \A i \in 1 .. Len(b) : acts[i] = b[i]
    BY <1>2, <1>2a, <1>5, <1>6
  <2> DEFINE B == Seq(Action)
  <2>2. acts \in Seq(B) /\ b \in Seq(B) /\ Len(acts) = Len(b)
        /\ \A i \in 1 .. Len(acts) : acts[i] = b[i]
    BY <1>2, <2>1
  <2>3. acts = b
    <3> HIDE DEF acts, B
    <3> QED BY <2>2, SeqEqual
  <2> QED BY <2>3
<1>9. Told(u) = FlattenSeq(b)
  BY <1>8 DEF Told
<1> QED BY <1>1, <1>6, <1>7, <1>9 DEF u

-----------------------------------------------------------------------------
(* What is sent in one state.                                              *)

Typed ==
    /\ loadInGame \in BOOLEAN /\ gameLoading \in BOOLEAN
    /\ present \subseteq Players /\ finished \subseteq Players
    /\ buffer \in [Players -> Seq(Message)] /\ sent \in [Players -> Seq(Message)]
    /\ leftLoading \in Seq(GameMessage) /\ replay \in Seq(GameMessage)
    /\ actions \in Seq(SmallActions) /\ accepted \in Nat

(* There are finitely many players.                                        *)
LEMMA FinitelyManyPlayers == IsFiniteSet(Players) /\ Cardinality(Players) = NumPlayers
<1>1. NumPlayers \in Nat /\ NumPlayers \in Int /\ 1 \in Int
  BY UpdatesAssumption
<1>2. IsFiniteSet(1 .. NumPlayers)
      /\ Cardinality(1 .. NumPlayers) = IF 1 > NumPlayers THEN 0 ELSE NumPlayers - 1 + 1
  BY <1>1, FS_Interval
<1> QED BY <1>1, <1>2 DEF Players

(* A finite set's elements in a sequence are all of them.                  *)
LEMMA SetToSeqHasAll ==
  ASSUME NEW S, IsFiniteSet(S)
  PROVE  /\ SetToSeq(S) \in Seq(S)
         /\ \A x \in S : \E i \in 1 .. Len(SetToSeq(S)) : SetToSeq(S)[i] = x
<1> DEFINE n == Cardinality(S)
           D == 1 .. n
           f == SetToSeq(S)
<1>1. n \in Nat /\ ExistsBijection(D, S)
  BY FS_CardinalityType
<1>2. \E g \in [D -> S] : IsInjective(g)
  BY <1>1 DEF ExistsBijection, Bijection, Injection
<1>3. f \in [D -> S] /\ IsInjective(f)
  BY <1>2 DEF SetToSeq
<1>4. f \in Injection(D, S)
  BY <1>3 DEF Injection
<1>5. Cardinality(D) = Cardinality(S)
  <2>1. IsFiniteSet(1 .. n) /\ Cardinality(1 .. n) = IF 1 > n THEN 0 ELSE n - 1 + 1
    <3> HIDE DEF n
    <3> QED BY <1>1, FS_Interval
  <2> QED BY <1>1, <2>1
<1>6. f \in Surjection(D, S)
  <2> HIDE DEF D, f
  <2> QED BY <1>4, <1>5, FS_Injection
<1>7. \A x \in S : \E i \in D : f[i] = x
  BY <1>6 DEF Surjection
<1>8. f \in Seq(S) /\ Len(f) = n
  <2> HIDE DEF n, f
  <2> QED BY <1>1, <1>3
<1> QED BY <1>7, <1>8

(* The lag screen is taken down for all who are loading and nobody else.   *)
LEMMA StopsAreAll ==
  ASSUME Typed
  PROVE  /\ Stops \in Seq(Message)
         /\ \A i \in 1 .. Len(Stops) : \E q \in Loading : Stops[i] = StopLag(q)
         /\ \A q \in Loading : \E i \in 1 .. Len(Stops) : Stops[i] = StopLag(q)
<1> DEFINE S == {StopLag(q) : q \in Loading}
           f == [q \in Loading |-> StopLag(q)]
<1>1. Loading \in SUBSET Players
  BY DEF Typed, Loading
<1>2. IsFiniteSet(Loading)
  BY <1>1, FS_Subset, FinitelyManyPlayers
<1>3. f \in Surjection(Loading, S)
  BY DEF Surjection
<1>4. IsFiniteSet(S)
  <2> HIDE DEF S, f
  <2> QED BY <1>2, <1>3, FS_Surjection
<1>5. Stops \in Seq(S) /\ \A x \in S : \E i \in 1 .. Len(Stops) : Stops[i] = x
  <2>1. Stops = SetToSeq(S)
    BY DEF Stops
  <2> HIDE DEF S
  <2> QED BY <1>4, <2>1, SetToSeqHasAll
<1>6. S \subseteq Message
  BY <1>1, MessageTypes
<1>7. Stops \in Seq(Message)
  <2> HIDE DEF S
  <2> QED BY <1>5, <1>6, SeqMonotonic
<1>8. \A i \in 1 .. Len(Stops) : Stops[i] \in S
  <2> HIDE DEF S
  <2> QED BY <1>5, ElementOfSeq
<1> QED BY <1>5, <1>7, <1>8

EmptyUpdatesOnly(s) == s \in Seq(GameMessage) /\ \A i \in 1 .. Len(s) : s[i] = EmptyUpdate[1]

(* What goes ahead of an update consists of empty ones.                    *)
LEMMA SentTypes ==
  /\ EmptyUpdate \in Seq(GameMessage) /\ IsUpdate(EmptyUpdate)
  /\ EmptyUpdatesOnly(EmptiesInReplay) /\ EmptyUpdatesOnly(EmptyUpdate)
  /\ \A p \in Players : EmptyUpdatesOnly(EmptiesFor(p))
<1>1. EmptyUpdatesOnly(Empties)
  BY SmallMessages, EmptyUpdateType DEF EmptyUpdatesOnly
<1>2. EmptyUpdatesOnly(<< >>)
  BY DEF EmptyUpdatesOnly
<1>3. EmptyUpdatesOnly(EmptiesInReplay) /\ \A p \in Players : EmptyUpdatesOnly(EmptiesFor(p))
  BY <1>1, <1>2 DEF EmptiesInReplay, EmptiesFor
<1> DEFINE e == EmptyUpdate[1]
<1>4. e \in Message /\ e.type = "update" /\ EmptyUpdate = << e >>
  BY EmptyUpdateType
<1>5. EmptyUpdate \in Seq(GameMessage)
  BY SmallMessages
<1>6. IsUpdate(EmptyUpdate)
  <2> HIDE DEF e
  <2> QED BY <1>4 DEF IsUpdate
<1>7. EmptyUpdatesOnly(EmptyUpdate)
  <2>1. Len(EmptyUpdate) = 1
    BY EmptyUpdateType
  <2> QED BY <1>5, <2>1 DEF EmptyUpdatesOnly
<1> QED BY <1>3, <1>5, <1>6, <1>7

(* A sequence of the game's messages is one of messages.                   *)
LEMMA GameMessagesAreMessages ==
  ASSUME NEW s \in Seq(GameMessage)
  PROVE  s \in Seq(Message)
<1>1. GameMessage \subseteq Message
  BY DEF GameMessage
<1> QED BY <1>1, SeqMonotonic

(* What a player who catches up, one who has loaded, and one who is        *)
(* loading are sent or kept are messages, too.                             *)
LEMMA SentToOneTypes ==
  ASSUME Typed, NEW p \in Players
  PROVE  /\ CatchUp(p) \in Seq(Message) /\ Reset(p) \in Seq(Message)
         /\ KeptUpdate(p) \in Seq(Message) /\ << StartLag(Loading) >> \in Seq(Message)
<1>1. EmptiesFor(p) \in Seq(Message) /\ EmptyUpdate \in Seq(Message)
  BY SentTypes, GameMessagesAreMessages DEF EmptyUpdatesOnly
<1>2. Stops \in Seq(Message)
  BY StopsAreAll
<1>3. Loading \in SUBSET Players /\ Loading \ {p} \in SUBSET Players
  BY DEF Typed, Loading
<1>4. StartLag(Loading) \in Message /\ StartLag(Loading \ {p}) \in Message
  BY <1>3, MessageTypes
<1>5. << StartLag(Loading) >> \in Seq(Message) /\ << StartLag(Loading \ {p}) >> \in Seq(Message)
  BY <1>4
<1>6. KeptUpdate(p) \in Seq(Message)
  BY <1>1 DEF KeptUpdate
<1>7. Reset(p) \in Seq(Message)
  BY <1>1, <1>2, <1>5 DEF Reset
<1>8. CatchUp(p) \in Seq(Message)
  <2>1. buffer[p] \in Seq(Message) /\ << >> \in Seq(Message)
    BY DEF Typed
  <2> QED BY <1>5, <2>1 DEF CatchUp
<1> QED BY <1>5, <1>6, <1>7, <1>8

(* An update that is sent consists of messages.                            *)
LEMMA UpdateForType ==
  ASSUME NEW p \in Players, NEW q \in Seq(SmallActions)
  PROVE  UpdateFor(p, q) \in Seq(Message) /\ EmptiesFor(p) \o UpdateOf(q) \in Seq(Message)
<1>1. EmptiesFor(p) \in Seq(Message) /\ UpdateOf(q) \in Seq(Message)
  BY SentTypes, UpdateOfQueue, GameMessagesAreMessages DEF EmptyUpdatesOnly
<1>2. EmptiesFor(p) \o UpdateOf(q) \in Seq(Message) /\ << >> \in Seq(Message)
  BY <1>1
<1> QED BY <1>2 DEF UpdateFor

SavingAction == [number |-> accepted + 1, length |-> 1]

(* The action that saves the game is small.                                *)
LEMMA SavingActionIsSmall ==
  ASSUME Typed
  PROVE  SavingAction \in SmallActions /\ Append(actions, SavingAction) \in Seq(SmallActions)
<1>1. SizeLimit \in Nat /\ 1 <= SizeLimit
  BY UpdatesAssumption
<1>2. SavingAction \in SmallActions
  BY <1>1 DEF Typed, SavingAction, SmallActions, Action
<1>3. actions \in Seq(SmallActions)
  BY DEF Typed
<1> HIDE DEF SavingAction
<1> QED BY <1>2, <1>3

(* What is recorded of an update consists of messages of the game, and     *)
(* tells of the actions in the queue; an empty update tells of nothing.    *)
LEMMA RecordedTells ==
  ASSUME NEW q \in Seq(SmallActions)
  PROVE  /\ EmptiesInReplay \o Recorded(q) \in Seq(GameMessage)
         /\ Told(EmptiesInReplay \o Recorded(q)) = q
         /\ EmptiesInReplay \o EmptyUpdate \in Seq(GameMessage)
         /\ Told(EmptiesInReplay \o EmptyUpdate) = << >>
<1>1. EmptiesInReplay \in Seq(GameMessage) /\ EmptyUpdate \in Seq(GameMessage)
      /\ UpdateOf(q) \in Seq(GameMessage) /\ Told(UpdateOf(q)) = q /\ Recorded(q) = UpdateOf(q)
  BY SentTypes, UpdateOfQueue DEF EmptyUpdatesOnly, Recorded
<1>2. Told(EmptiesInReplay) = << >> /\ Told(EmptyUpdate) = << >>
  BY SentTypes, SmallMessages, ToldNothing DEF EmptyUpdatesOnly
<1>3. /\ Told(EmptiesInReplay \o Recorded(q)) = Told(EmptiesInReplay) \o Told(Recorded(q))
      /\ Told(EmptiesInReplay \o EmptyUpdate) = Told(EmptiesInReplay) \o Told(EmptyUpdate)
  BY <1>1, ToldConcat
<1>4. << >> \o q = q /\ << >> \o << >> = << >>
  OBVIOUS
<1>5. EmptiesInReplay \o Recorded(q) \in Seq(GameMessage)
      /\ EmptiesInReplay \o EmptyUpdate \in Seq(GameMessage)
  BY <1>1
<1> QED BY <1>1, <1>2, <1>3, <1>4, <1>5

(* The message that a player left tells of no action.                      *)
LEMMA LeaveTellsNothing ==
  ASSUME NEW p \in Players
  PROVE  << Leave(p) >> \in Seq(GameMessage) /\ Told(<< Leave(p) >>) = << >>
<1> DEFINE m == Leave(p)
<1>1. m \in GameMessage /\ ActionsOf(m) = << >>
  BY SmallMessages
<1>2. << m >> \in Seq(GameMessage) /\ \A i \in 1 .. Len(<< m >>) : << m >>[i] = m
  <2> HIDE DEF m
  <2> QED BY <1>1
<1>3. Told(<< m >>) = << >>
  <2> HIDE DEF m
  <2> QED BY <1>1, <1>2, ToldNothing
<1> QED BY <1>2, <1>3

Numbered ==
    LET told == Told(replay) \o actions
    IN  Len(told) = accepted /\ \A i \in 1 .. Len(told) : told[i].number = i

(* A longer replay tells of the actions in what it is longer by.           *)
LEMMA ToldLater ==
  ASSUME NEW r \in Seq(GameMessage), NEW x \in Seq(GameMessage), NEW q \in Seq(SmallActions)
  PROVE  Told(r \o x) \o q = Told(r) \o (Told(x) \o q)
<1> DEFINE A == Told(r)
           B == Told(x)
<1>1. Told(r \o x) = A \o B /\ A \in Seq(Action) /\ B \in Seq(Action)
  BY ToldConcat
<1>2. q \in Seq(Action)
  <2>1. SmallActions \subseteq Action
    BY DEF SmallActions
  <2> QED BY <2>1, SeqMonotonic
<1>3. (A \o B) \o q = A \o (B \o q)
  <2> HIDE DEF A, B
  <2> QED BY <1>1, <1>2, ConcatAssociative
<1> QED BY <1>1, <1>3

(* The order of the actions is kept when those that leave the queue enter  *)
(* the replay, ...                                                         *)
LEMMA ToldKeeps ==
  ASSUME Typed, Numbered, NEW x \in Seq(GameMessage), replay' = replay \o x,
         actions' \in Seq(SmallActions), Told(x) \o actions' = actions, accepted' = accepted
  PROVE  Numbered'
<1>1. replay \in Seq(GameMessage)
  BY DEF Typed
<1>2. Told(replay') \o actions' = Told(replay) \o (Told(x) \o actions')
  BY <1>1, ToldLater
<1> QED BY <1>2 DEF Numbered

(* An action is appended to the second of two sequences or to both.        *)
LEMMA ActionAppended ==
  \A s, t \in Seq(Action) : \A e \in Action : s \o Append(t, e) = Append(s \o t, e)
OBVIOUS

(* ... and when there is a new one besides.                                *)
LEMMA ToldGrows ==
  ASSUME Typed, Numbered, NEW x \in Seq(GameMessage), replay' = replay \o x,
         NEW a \in SmallActions, a.number = accepted + 1,
         actions' \in Seq(SmallActions), Told(x) \o actions' = Append(actions, a),
         accepted' = accepted + 1
  PROVE  Numbered'
<1> DEFINE told == Told(replay) \o actions
<1>1. replay \in Seq(GameMessage)
  BY DEF Typed
<1>2. Told(replay') \o actions' = Told(replay) \o (Told(x) \o actions')
  BY <1>1, ToldLater
<1>3. actions \in Seq(Action) /\ a \in Action /\ Told(replay) \in Seq(Action)
  <2>1. SmallActions \subseteq Action
    BY DEF SmallActions
  <2>2. actions \in Seq(Action)
    BY <2>1, SeqMonotonic DEF Typed
  <2>3. Told(replay) \in Seq(Action)
    BY <1>1, ToldConcat
  <2> QED BY <2>1, <2>2, <2>3
<1>4. Told(replay') \o actions' = Append(told, a)
  <2>1. Told(replay) \o Append(actions, a) = Append(told, a)
    <3> DEFINE r == Told(replay)
    <3>1. r \in Seq(Action) /\ actions \in Seq(Action) /\ a \in Action
      BY <1>3
    <3>2. r \o Append(actions, a) = Append(r \o actions, a)
      <4> HIDE DEF r
      <4> QED BY ONLY <3>1, ActionAppended
    <3> QED BY <3>2
  <2> QED BY <1>2, <2>1
<1>5. told \in Seq(Action) /\ Len(told) = accepted /\ \A i \in 1 .. Len(told) : told[i].number = i
  <2>1. told \in Seq(Action)
    BY <1>3
  <2> QED BY <2>1 DEF Numbered
<1> HIDE DEF told
<1>6. Len(Append(told, a)) = accepted + 1
      /\ \A i \in 1 .. Len(Append(told, a)) : Append(told, a)[i].number = i
  <2> DEFINE longer == Append(told, a)
  <2>1. /\ Len(longer) = Len(told) + 1 /\ longer[Len(told) + 1] = a /\ Len(told) \in Nat
        /\ \A i \in 1 .. Len(told) : longer[i] = told[i]
    BY <1>3, <1>5
  <2> HIDE DEF longer
  <2>2. ASSUME NEW i \in 1 .. Len(longer) PROVE longer[i].number = i
    <3>1. CASE i = Len(told) + 1
      BY <1>5, <2>1, <3>1
    <3>2. CASE i # Len(told) + 1
      <4>1. i \in 1 .. Len(told)
        BY <2>1, <3>2
      <4> QED BY <1>5, <2>1, <4>1
    <3> QED BY <3>1, <3>2
  <2> QED BY <1>5, <2>1, <2>2 DEF longer
<1> QED BY <1>4, <1>6 DEF Numbered

-----------------------------------------------------------------------------
(* The actions.                                                            *)

(* At the start nothing was sent and no action was taken.                  *)
LEMMA InitTyped == Init => Typed /\ Numbered
<1> SUFFICES ASSUME Init PROVE Typed /\ Numbered
  OBVIOUS
<1> USE DEF Init
<1>1. NumPlayers \in Nat /\ LoadInGames \subseteq BOOLEAN
  BY UpdatesAssumption
<1>2. [q \in Players |-> LoadedOthers(q)] \in Seq(Message)
  BY <1>1, MessageTypes DEF Players
<1>3. << >> \in Seq(Message) /\ << >> \in Seq(GameMessage) /\ << >> \in Seq(SmallActions)
  OBVIOUS
<1>4. Typed
  <2>1. buffer \in [Players -> Seq(Message)] /\ sent \in [Players -> Seq(Message)]
    BY <1>2, <1>3
  <2> QED BY <1>1, <1>3, <2>1 DEF Typed
<1>5. Numbered
  <2>1. Told(<< >>) = << >>
    <3> DEFINE none == << >>
    <3>1. none \in Seq(GameMessage) /\ \A i \in 1 .. Len(none) : ActionsOf(none[i]) = << >>
      OBVIOUS
    <3>2. Told(none) = << >>
      <4> HIDE DEF none
      <4> QED BY <3>1, ToldNothing
    <3> QED BY <3>2
  <2>2. replay = << >> /\ actions = << >> /\ accepted = 0
    OBVIOUS
  <2>3. Told(replay) \o actions = << >> /\ Len(<< >>) = 0
    BY <2>1, <2>2
  <2> QED BY <2>2, <2>3 DEF Numbered
<1> QED BY <1>4, <1>5

(* A step that changes neither replay nor queue keeps the order.           *)
LEMMA NumberedStays ==
  ASSUME Numbered, UNCHANGED << replay, actions, accepted >>
  PROVE  Numbered'
BY DEF Numbered

(* A player has loaded the map.                                            *)
LEMMA LoadedTyped ==
  ASSUME Typed, Numbered, NEW p \in Players, EventPlayerLoaded(p)
  PROVE  Typed' /\ Numbered'
<1>1. Numbered'
  BY NumberedStays DEF EventPlayerLoaded, recording, counts
<1>2. sent' \in [Players -> Seq(Message)] /\ buffer' \in [Players -> Seq(Message)]
  <2>1. ASSUME NEW q \in Players
        PROVE  /\ sent[q] \in Seq(Message) /\ sent[q] \o CatchUp(p) \in Seq(Message)
               /\ Append(sent[q], StopLag(p)) \in Seq(Message)
               /\ Append(sent[q], LoadedOthers(p)) \in Seq(Message)
    <3>1. sent[q] \in Seq(Message) /\ CatchUp(p) \in Seq(Message)
      BY SentToOneTypes DEF Typed
    <3>2. StopLag(p) \in Message /\ LoadedOthers(p) \in Message
      BY MessageTypes
    <3> QED BY <3>1, <3>2
  <2>2. CASE loadInGame
    <3>1. sent' \in [Players -> Seq(Message)]
      BY <2>1, <2>2 DEF EventPlayerLoaded
    <3>2. buffer' = [buffer EXCEPT ![p] = << >>] /\ << >> \in Seq(Message)
      BY <2>2 DEF EventPlayerLoaded
    <3>3. buffer' \in [Players -> Seq(Message)]
      BY <3>2 DEF Typed
    <3> QED BY <3>1, <3>3
  <2>3. CASE ~loadInGame
    BY <2>1, <2>3 DEF EventPlayerLoaded, Typed
  <2> QED BY <2>2, <2>3
<1>3. /\ UNCHANGED << loadInGame, gameLoading, present, leftLoading, replay, actions, accepted >>
      /\ finished' = finished \cup {p}
  BY DEF EventPlayerLoaded, recording, counts
<1> QED BY <1>1, <1>2, <1>3 DEF Typed

(* Everybody has loaded the map.                                           *)
LEMMA GameLoadedTyped ==
  ASSUME Typed, Numbered, EventGameLoaded
  PROVE  Typed' /\ Numbered'
<1>1. Numbered'
  BY NumberedStays DEF EventGameLoaded, recording, counts
<1> QED BY <1>1 DEF EventGameLoaded, recording, counts, Typed

(* The lag screen is reset.                                                *)
LEMMA ResetTyped ==
  ASSUME Typed, Numbered, ResetLagScreen
  PROVE  Typed' /\ Numbered'
<1> DEFINE x == EmptiesInReplay \o EmptyUpdate
<1>1. x \in Seq(GameMessage) /\ Told(x) = << >>
  <2>1. << >> \in Seq(SmallActions)
    OBVIOUS
  <2> QED BY <2>1, RecordedTells
<1>2. replay' = replay \o x
  <2>1. replay \in Seq(GameMessage) /\ EmptiesInReplay \in Seq(GameMessage)
        /\ EmptyUpdate \in Seq(GameMessage)
    BY SentTypes DEF Typed, EmptyUpdatesOnly
  <2>2. (replay \o EmptiesInReplay) \o EmptyUpdate = replay \o x
    BY <2>1, ConcatAssociative
  <2> QED BY <2>2 DEF ResetLagScreen
<1>3. UNCHANGED << loadInGame, gameLoading, present, finished, leftLoading, actions, accepted >>
  BY DEF ResetLagScreen
<1>4. Numbered'
  <2>1. Told(x) \o actions = actions /\ actions \in Seq(SmallActions)
    BY <1>1 DEF Typed
  <2> HIDE DEF x
  <2> QED BY <1>1, <1>2, <1>3, <2>1, ToldKeeps
<1>5. sent' \in [Players -> Seq(Message)] /\ buffer' \in [Players -> Seq(Message)]
  <2>1. ASSUME NEW q \in Players
        PROVE  /\ sent[q] \in Seq(Message) /\ sent[q] \o Reset(q) \in Seq(Message)
               /\ buffer[q] \in Seq(Message) /\ buffer[q] \o KeptUpdate(q) \in Seq(Message)
    <3>1. /\ sent[q] \in Seq(Message) /\ Reset(q) \in Seq(Message)
          /\ buffer[q] \in Seq(Message) /\ KeptUpdate(q) \in Seq(Message)
      BY SentToOneTypes DEF Typed
    <3> QED BY <3>1
  <2> QED BY <2>1 DEF ResetLagScreen
<1>6. replay' \in Seq(GameMessage)
  <2>1. replay \in Seq(GameMessage)
    BY DEF Typed
  <2> HIDE DEF x
  <2> QED BY <1>1, <1>2, <2>1
<1> QED BY <1>3, <1>4, <1>5, <1>6 DEF Typed

(* A player acts.                                                          *)
LEMMA PlayerActionTyped ==
  ASSUME Typed, Numbered, NEW p \in Players, PlayerAction(p)
  PROVE  Typed' /\ Numbered'
<1>1. PICK l \in Lengths : l <= MaxLength
                           /\ actions' = Append(actions, [number |-> accepted + 1, length |-> l])
  BY DEF PlayerAction
<1> DEFINE a == [number |-> accepted + 1, length |-> l]
<1>2. a \in SmallActions /\ a.number = accepted + 1
  <2>1. l \in Nat /\ MaxLength \in Nat /\ SizeLimit \in Nat /\ MaxLength <= SizeLimit
    BY UpdatesAssumption
  <2>2. l <= SizeLimit
    BY <1>1, <2>1
  <2> QED BY <2>1, <2>2 DEF SmallActions, Action, Typed
<1>3. actions' = Append(actions, a) /\ actions' \in Seq(SmallActions)
  <2>1. actions \in Seq(SmallActions)
    BY DEF Typed
  <2> HIDE DEF a
  <2> QED BY <1>1, <1>2, <2>1 DEF a
<1>4. /\ UNCHANGED << loadInGame, gameLoading, present, finished, buffer, sent, leftLoading, replay >>
      /\ accepted' = accepted + 1
  BY DEF PlayerAction, recording
<1>5. Numbered'
  <2> DEFINE none == << >>
  <2>1. none \in Seq(GameMessage) /\ \A i \in 1 .. Len(none) : ActionsOf(none[i]) = << >>
    OBVIOUS
  <2>2. Told(none) = << >>
    <3> HIDE DEF none
    <3> QED BY <2>1, ToldNothing
  <2>3. replay' = replay \o none /\ Told(none) \o actions' = Append(actions, a)
    <3>1. replay \in Seq(GameMessage)
      BY DEF Typed
    <3>2. replay \o none = replay
      BY <3>1
    <3>3. << >> \o actions' = actions'
      BY <1>3
    <3> QED BY <1>3, <1>4, <2>2, <3>2, <3>3
  <2> HIDE DEF none, a
  <2> QED BY <1>2, <1>3, <1>4, <2>1, <2>3, ToldGrows
<1> QED BY <1>3, <1>4, <1>5 DEF Typed

(* The actions are sent.                                                   *)
LEMMA SendAllActionsTyped ==
  ASSUME Typed, Numbered, SendAllActions
  PROVE  Typed' /\ Numbered'
<1> DEFINE x == EmptiesInReplay \o Recorded(actions)
<1>1. actions \in Seq(SmallActions) /\ replay \in Seq(GameMessage)
  BY DEF Typed
<1>2. x \in Seq(GameMessage) /\ Told(x) = actions
  BY <1>1, RecordedTells
<1>3. replay' = replay \o x
  <2>1. EmptiesInReplay \in Seq(GameMessage) /\ Recorded(actions) \in Seq(GameMessage)
    BY <1>1, SentTypes, UpdateOfQueue DEF EmptyUpdatesOnly, Recorded
  <2> DEFINE e == EmptiesInReplay
             u == Recorded(actions)
  <2>2. (replay \o e) \o u = replay \o (e \o u)
    <3>1. replay \in Seq(GameMessage) /\ e \in Seq(GameMessage) /\ u \in Seq(GameMessage)
      BY <1>1, <2>1
    <3> HIDE DEF e, u
    <3> QED BY ONLY <3>1, ConcatAssociative
  <2> QED BY <2>2 DEF SendAllActions
<1>4. /\ UNCHANGED << loadInGame, gameLoading, present, finished, buffer, leftLoading, accepted >>
      /\ actions' = << >>
  BY DEF SendAllActions
<1>5. Numbered'
  <2>1. Told(x) \o actions' = actions /\ actions' \in Seq(SmallActions)
    BY <1>1, <1>2, <1>4
  <2> HIDE DEF x
  <2> QED BY <1>2, <1>3, <1>4, <2>1, ToldKeeps
<1>6. sent' \in [Players -> Seq(Message)]
  <2>1. ASSUME NEW q \in Players PROVE sent[q] \o UpdateFor(q, actions) \in Seq(Message)
    <3>1. sent[q] \in Seq(Message) /\ UpdateFor(q, actions) \in Seq(Message)
      BY <1>1, UpdateForType DEF Typed
    <3> QED BY <3>1
  <2> QED BY <2>1 DEF SendAllActions
<1>7. replay' \in Seq(GameMessage) /\ actions' \in Seq(SmallActions)
  <2> HIDE DEF x
  <2> QED BY <1>1, <1>2, <1>3, <1>4
<1> QED BY <1>4, <1>5, <1>6, <1>7 DEF Typed

(* A player leaves: what is left alone, and the three ways it is told.     *)
LEMMA DeletedCases ==
  ASSUME Typed, NEW p \in Players, EventPlayerDeleted(p)
  PROVE  /\ p \in present /\ present' = present \ {p}
         /\ UNCHANGED << loadInGame, gameLoading, finished, updates, resets >>
         /\ \/ gameLoading /\ loadInGame /\ LeaveWhileLoadingInGame(p)
            \/ gameLoading /\ ~loadInGame /\ LeaveWhileLoading(p)
            \/ ~gameLoading /\ LeaveGame(p, FALSE)
            \/ ~gameLoading /\ LeaveGame(p, TRUE)
<1>1. gameLoading \in BOOLEAN /\ loadInGame \in BOOLEAN /\ AutoSave \in BOOLEAN
  BY UpdatesAssumption DEF Typed
<1>2. CASE gameLoading /\ loadInGame
  BY <1>2 DEF EventPlayerDeleted
<1>3. CASE gameLoading /\ ~loadInGame
  BY <1>3 DEF EventPlayerDeleted
<1>4. CASE ~gameLoading
  <2>1. \E saving \in {FALSE, AutoSave} : LeaveGame(p, saving)
    BY <1>4 DEF EventPlayerDeleted
  <2>2. LeaveGame(p, FALSE) \/ LeaveGame(p, TRUE)
    BY <1>1, <2>1
  <2> QED BY <1>4, <2>2 DEF EventPlayerDeleted
<1> QED BY <1>1, <1>2, <1>3, <1>4

(* What those who stay are sent when a player leaves the loaded game.      *)
LEMMA LeaveGameTypes ==
  ASSUME Typed, NEW p \in Players, NEW q \in Players
  PROVE  /\ sent[q] \in Seq(Message) /\ << Leave(p) >> \in Seq(Message)
         /\ sent[q] \o << Leave(p) >> \in Seq(Message)
         /\ UpdateFor(q, Append(actions, SavingAction)) \in Seq(Message)
         /\ sent[q] \o UpdateFor(q, Append(actions, SavingAction)) \o << Leave(p) >>
              \in Seq(Message)
<1> DEFINE u == UpdateFor(q, Append(actions, SavingAction))
           m == << Leave(p) >>
<1>1. u \in Seq(Message)
  BY SavingActionIsSmall, UpdateForType
<1>2. m \in Seq(Message)
  BY LeaveTellsNothing, GameMessagesAreMessages
<1>3. sent[q] \in Seq(Message)
  BY DEF Typed
<1>4. sent[q] \o m \in Seq(Message) /\ sent[q] \o u \o m \in Seq(Message)
  <2> HIDE DEF u, m
  <2> QED BY <1>1, <1>2, <1>3
<1> QED BY <1>1, <1>2, <1>3, <1>4

(* A player leaves the loaded game and nobody saves it.                    *)
LEMMA LeaveGameTyped ==
  ASSUME Typed, Numbered, NEW p \in Players, LeaveGame(p, FALSE),
         present' = present \ {p}, UNCHANGED << loadInGame, gameLoading, finished >>
  PROVE  Typed' /\ Numbered'
<1> DEFINE x == << Leave(p) >>
<1>1. x \in Seq(GameMessage) /\ Told(x) = << >>
  BY LeaveTellsNothing
<1>2. UNCHANGED << actions, accepted, buffer, leftLoading >>
  BY DEF LeaveGame
<1>3. replay' = replay \o x
  <2>1. replay \o << >> = replay
    BY DEF Typed
  <2> QED BY <2>1 DEF LeaveGame
<1>4. Numbered'
  <2>1. Told(x) \o actions = actions /\ actions \in Seq(SmallActions)
    <3>1. actions \in Seq(SmallActions)
      BY DEF Typed
    <3>2. << >> \o actions = actions
      BY <3>1
    <3> QED BY <1>1, <3>1, <3>2
  <2> HIDE DEF x
  <2> QED BY <1>1, <1>2, <1>3, <2>1, ToldKeeps
<1>5. sent' \in [Players -> Seq(Message)]
  <2>1. ASSUME NEW q \in Players
        PROVE  sent[q] \in Seq(Message) /\ sent[q] \o << >> \o << Leave(p) >> \in Seq(Message)
    <3>1. sent[q] \in Seq(Message) /\ sent[q] \o << Leave(p) >> \in Seq(Message)
      BY LeaveGameTypes
    <3>2. sent[q] \o << >> = sent[q]
      BY <3>1
    <3> QED BY <3>1, <3>2
  <2> QED BY <2>1 DEF LeaveGame
<1>6. replay' \in Seq(GameMessage)
  <2>1. replay \in Seq(GameMessage)
    BY DEF Typed
  <2> HIDE DEF x
  <2> QED BY <1>1, <1>3, <2>1
<1> QED BY <1>2, <1>4, <1>5, <1>6 DEF Typed

(* A player is disconnected from the loaded game, which the others save.   *)
LEMMA SaveGameTyped ==
  ASSUME Typed, Numbered, NEW p \in Players, LeaveGame(p, TRUE),
         present' = present \ {p}, UNCHANGED << loadInGame, gameLoading, finished >>
  PROVE  Typed' /\ Numbered'
<1> DEFINE a == SavingAction
           queue == Append(actions, a)
           y == EmptiesInReplay \o Recorded(queue)
           z == << Leave(p) >>
           x == y \o z
<1>1. a \in SmallActions /\ queue \in Seq(SmallActions) /\ a.number = accepted + 1
  BY SavingActionIsSmall DEF SavingAction
<1>2. y \in Seq(GameMessage) /\ Told(y) = queue
  BY <1>1, RecordedTells
<1>3. z \in Seq(GameMessage) /\ Told(z) = << >>
  BY LeaveTellsNothing
<1>4. x \in Seq(GameMessage) /\ Told(x) = queue
  <2>1. Told(y \o z) = Told(y) \o Told(z)
    BY <1>2, <1>3, ToldConcat
  <2>2. queue \o << >> = queue
    BY <1>1
  <2>3. y \o z \in Seq(GameMessage)
    <3> HIDE DEF y, z
    <3> QED BY <1>2, <1>3
  <2> QED BY <1>2, <1>3, <2>1, <2>2, <2>3
<1>5. UNCHANGED << buffer, leftLoading >> /\ actions' = << >> /\ accepted' = accepted + 1
  BY DEF LeaveGame
<1>6. replay' = replay \o x
  <2>1. replay' = (replay \o y) \o z
    BY DEF LeaveGame, SavingAction
  <2>2. replay \in Seq(GameMessage)
    BY DEF Typed
  <2>3. (replay \o y) \o z = replay \o (y \o z)
    <3> HIDE DEF y, z
    <3> QED BY <1>2, <1>3, <2>2, ConcatAssociative
  <2> QED BY <2>1, <2>3
<1>7. Numbered'
  <2>1. Told(x) \o actions' = queue /\ actions' \in Seq(SmallActions)
    BY <1>1, <1>4, <1>5
  <2> HIDE DEF x, a
  <2> QED BY <1>1, <1>4, <1>5, <1>6, <2>1, ToldGrows
<1>8. sent' \in [Players -> Seq(Message)]
  <2>1. ASSUME NEW q \in Players
        PROVE  sent[q] \in Seq(Message)
               /\ sent[q] \o UpdateFor(q, queue) \o << Leave(p) >> \in Seq(Message)
    BY LeaveGameTypes
  <2> QED BY <2>1 DEF LeaveGame, SavingAction
<1>9. replay' \in Seq(GameMessage) /\ actions' \in Seq(SmallActions) /\ accepted' \in Nat
  <2>1. replay \in Seq(GameMessage) /\ accepted \in Nat
    BY DEF Typed
  <2> HIDE DEF x
  <2> QED BY <1>4, <1>5, <1>6, <2>1
<1> QED BY <1>5, <1>7, <1>8, <1>9 DEF Typed

(* A player leaves while maps are loaded in game.                          *)
LEMMA LeaveLoadingInGameTyped ==
  ASSUME Typed, Numbered, NEW p \in Players, LeaveWhileLoadingInGame(p),
         present' = present \ {p}, UNCHANGED << loadInGame, gameLoading, finished >>
  PROVE  Typed' /\ Numbered'
<1> DEFINE m == Leave(p)
           x == << m >>
<1>1. m \in GameMessage /\ m \in Message /\ StopLag(p) \in Message
      /\ x \in Seq(GameMessage) /\ Told(x) = << >>
  BY LeaveTellsNothing, SmallMessages, MessageTypes
<1>2. UNCHANGED << leftLoading, actions, accepted >> /\ replay' = Append(replay, m)
  BY DEF LeaveWhileLoadingInGame
<1>3. replay' = replay \o x /\ replay' \in Seq(GameMessage)
  <2>1. replay \in Seq(GameMessage)
    BY DEF Typed
  <2> HIDE DEF m
  <2> QED BY <1>1, <1>2, <2>1
<1>4. Numbered'
  <2>1. Told(x) \o actions = actions /\ actions \in Seq(SmallActions)
    <3>1. actions \in Seq(SmallActions)
      BY DEF Typed
    <3>2. << >> \o actions = actions
      BY <3>1
    <3> QED BY <1>1, <3>1, <3>2
  <2> HIDE DEF x
  <2> QED BY <1>1, <1>2, <1>3, <2>1, ToldKeeps
<1>5. sent' \in [Players -> Seq(Message)] /\ buffer' \in [Players -> Seq(Message)]
  <2>1. ASSUME NEW q \in Players
        PROVE  /\ sent[q] \in Seq(Message) /\ buffer[q] \in Seq(Message)
               /\ LeaveSeenBy(p, q) \in Seq(Message) /\ Append(buffer[q], m) \in Seq(Message)
    <3>1. sent[q] \in Seq(Message) /\ buffer[q] \in Seq(Message)
      BY DEF Typed
    <3>2. << StopLag(p) >> \in Seq(Message) /\ << >> \in Seq(Message) /\ x \in Seq(Message)
      BY <1>1
    <3>3. LeaveSeenBy(p, q) \in Seq(Message)
      BY <3>1, <3>2 DEF LeaveSeenBy
    <3>4. Append(buffer[q], m) \in Seq(Message)
      BY <1>1, <3>1
    <3> QED BY <3>1, <3>3, <3>4
  <2> QED BY <2>1 DEF LeaveWhileLoadingInGame
<1> QED BY <1>2, <1>3, <1>4, <1>5 DEF Typed

(* A player leaves while the map is loaded.                                *)
LEMMA LeaveLoadingTyped ==
  ASSUME Typed, Numbered, NEW p \in Players, LeaveWhileLoading(p),
         present' = present \ {p}, UNCHANGED << loadInGame, gameLoading, finished >>
  PROVE  Typed' /\ Numbered'
<1> DEFINE m == Leave(p)
<1>1. m \in GameMessage /\ m \in Message
  BY SmallMessages, MessageTypes
<1>2. UNCHANGED << buffer, replay, actions, accepted >> /\ leftLoading' = Append(leftLoading, m)
  BY DEF LeaveWhileLoading
<1>3. Numbered'
  BY <1>2, NumberedStays
<1>4. sent' \in [Players -> Seq(Message)]
  <2>1. ASSUME NEW q \in Players
        PROVE  sent[q] \in Seq(Message) /\ Append(sent[q], m) \in Seq(Message)
    BY <1>1 DEF Typed
  <2> QED BY <2>1 DEF LeaveWhileLoading
<1>5. leftLoading' \in Seq(GameMessage)
  <2>1. leftLoading \in Seq(GameMessage)
    BY DEF Typed
  <2> HIDE DEF m
  <2> QED BY <1>1, <1>2, <2>1
<1> QED BY <1>2, <1>3, <1>4, <1>5 DEF Typed

(* Every step keeps the types and the order of the actions.                *)
LEMMA StepTyped == Typed /\ Numbered /\ [Next]_vars => Typed' /\ Numbered'
<1> SUFFICES ASSUME Typed, Numbered, [Next]_vars PROVE Typed' /\ Numbered'
  OBVIOUS
<1>1. ASSUME NEW p \in Players, EventPlayerLoaded(p) PROVE Typed' /\ Numbered'
  BY <1>1, LoadedTyped
<1>2. ASSUME NEW p \in Players, PlayerAction(p) PROVE Typed' /\ Numbered'
  BY <1>2, PlayerActionTyped
<1>3. ASSUME NEW p \in Players, EventPlayerDeleted(p) PROVE Typed' /\ Numbered'
  <2>1. /\ present' = present \ {p} /\ UNCHANGED << loadInGame, gameLoading, finished >>
        /\ \/ LeaveWhileLoadingInGame(p) \/ LeaveWhileLoading(p)
           \/ LeaveGame(p, FALSE) \/ LeaveGame(p, TRUE)
    BY <1>3, DeletedCases
  <2> QED BY <2>1, LeaveLoadingInGameTyped, LeaveLoadingTyped, LeaveGameTyped, SaveGameTyped
<1>4. CASE EventGameLoaded
  BY <1>4, GameLoadedTyped
<1>5. CASE ResetLagScreen
  BY <1>5, ResetTyped
<1>6. CASE SendAllActions
  BY <1>6, SendAllActionsTyped
<1>7. CASE UNCHANGED vars
  BY <1>7 DEF vars, recording, counts, Typed, Numbered
<1> QED BY <1>1, <1>2, <1>3, <1>4, <1>5, <1>6, <1>7 DEF Next

(* Every action that was accepted is in exactly one packet of the game,    *)
(* in the order in which the players sent them, or still in the queue; and *)
(* no packet is too long (SendAllActions, SendAllActionsCallback,          *)
(* ProcessEvents of the replay).                                           *)
THEOREM ActionsAreInOrder == Spec => []ActionsInOrder
<1>1. Init => Typed /\ Numbered
  BY InitTyped
<1>2. Typed /\ Numbered /\ [Next]_vars => Typed' /\ Numbered'
  BY StepTyped
<1>3. Typed /\ Numbered => ActionsInOrder
  <2> SUFFICES ASSUME Typed, Numbered PROVE ActionsInOrder
    OBVIOUS
  <2> DEFINE told == FlattenSeq([i \in DOMAIN replay |-> ActionsOf(replay[i])]) \o actions
  <2>1. told = Told(replay) \o actions
    BY DEF Told
  <2>2. told \in Seq(Action)
    <3>1. SmallActions \subseteq Action
      BY DEF SmallActions
    <3>2. actions \in Seq(Action) /\ Told(replay) \in Seq(Action)
      BY <3>1, SeqMonotonic, ToldConcat DEF Typed
    <3>3. Told(replay) \o actions \in Seq(Action)
      BY <3>2
    <3> QED BY <2>1, <3>3
  <2>3. Len(told) = accepted /\ \A i \in 1 .. Len(told) : told[i].number = i
    BY <2>1 DEF Numbered
  <2>4. DOMAIN told = 1 .. Len(told)
    <3> HIDE DEF told
    <3> QED BY <2>2
  <2>5. \A i \in DOMAIN replay : Length(ActionsOf(replay[i])) <= SizeLimit
    <3>1. replay \in Seq(GameMessage) /\ DOMAIN replay = 1 .. Len(replay)
      BY DEF Typed
    <3>2. \A i \in 1 .. Len(replay) : replay[i] \in GameMessage
      BY <3>1
    <3> QED BY <3>1, <3>2 DEF GameMessage
  <2> HIDE DEF told
  <2>6. Len(told) = accepted /\ \A i \in DOMAIN told : told[i].number = i
    BY <2>3, <2>4
  <2> QED BY <2>5, <2>6 DEF told, ActionsInOrder
<1> QED BY <1>1, <1>2, <1>3, PTL DEF Spec

-----------------------------------------------------------------------------
(* The same game for everybody.                                            *)

Whole(s) == s \in Seq(Message) /\ ~EndsOverflow(s)

(* Sequences that end no packet early are heard one after the other.       *)
LEMMA WholeConcat ==
  ASSUME NEW l, NEW p, NEW s, NEW t, Whole(s), Whole(t)
  PROVE  Whole(s \o t) /\ Reach(l, p, s \o t) = Reach(l, p, s) \o Reach(l, p, t)
<1>1. s \in Seq(Message) /\ t \in Seq(Message) /\ ~EndsOverflow(s) /\ ~EndsOverflow(t)
  BY DEF Whole
<1>2. s \o t \in Seq(Message)
  BY <1>1
<1> QED BY <1>1, <1>2, ConcatEnds, ReachConcat DEF Whole

(* Messages that do not matter, and are no updates, are whole and quiet.   *)
LEMMA QuietIsWhole ==
  ASSUME NEW l, NEW p, NEW s \in Seq(Message),
         \A i \in 1 .. Len(s) : ~Mattering(l, s[i])
  PROVE  Whole(s) /\ Reach(l, p, s) = << >>
<1>1. ~EndsOverflow(s)
  <2>1. s # << >> => Len(s) \in 1 .. Len(s)
    OBVIOUS
  <2> QED BY <2>1 DEF EndsOverflow, Mattering
<1> QED BY <1>1, ReachQuiet DEF Whole

(* One message that does not matter.                                       *)
LEMMA QuietMessage ==
  ASSUME NEW l, NEW p, NEW m \in Message, ~Mattering(l, m)
  PROVE  Whole(<< m >>) /\ Reach(l, p, << m >>) = << >>
<1>1. << m >> \in Seq(Message) /\ \A i \in 1 .. Len(<< m >>) : << m >>[i] = m
  OBVIOUS
<1> QED BY <1>1, QuietIsWhole

(* Nothing is whole and quiet.                                             *)
LEMMA NothingIsWhole ==
  ASSUME NEW l, NEW p
  PROVE  Whole(<< >>) /\ Reach(l, p, << >>) = << >>
<1> DEFINE none == << >>
<1>1. none \in Seq(Message) /\ \A i \in 1 .. Len(none) : ~Mattering(l, none[i])
  OBVIOUS
<1>2. Whole(none) /\ Reach(l, p, none) = << >>
  <2> HIDE DEF none
  <2> QED BY <1>1, QuietIsWhole
<1> QED BY <1>2

(* The message that a player left reaches everybody as it is.              *)
LEMMA LeaveIsHeard ==
  ASSUME NEW l, NEW p, NEW q \in Players
  PROVE  Whole(<< Leave(q) >>) /\ Reach(l, p, << Leave(q) >>) = << Leave(q) >>
<1> DEFINE m == Leave(q)
           s == << m >>
<1>1. m \in Message /\ m.type = "leave"
  BY MessageTypes
<1>2. s \in Seq(Message) /\ Len(s) = 1 /\ s[1] = m /\ \A i \in 1 .. Len(s) : s[i] = m
  <2> HIDE DEF m
  <2> QED BY <1>1
<1> HIDE DEF m, s
<1>3. \A i \in 1 .. Len(s) : Mattering(l, s[i]) /\ ~BeginsUpdate(s, i)
  BY <1>1, <1>2 DEF Mattering, BeginsUpdate
<1>4. Reach(l, p, s) = s
  BY <1>2, <1>3, ReachPlain
<1>5. Whole(s)
  BY <1>1, <1>2 DEF Whole, EndsOverflow
<1> QED BY <1>4, <1>5 DEF m, s

(* With the empty updates that go ahead of it for each, an update is heard *)
(* by everybody as the replay has it.                                      *)
LEMMA UpdateIsHeard ==
  ASSUME NEW l, NEW p \in Players, p \in present, NEW u, IsUpdate(u)
  PROVE  /\ Whole(EmptiesFor(p) \o u)
         /\ Reach(l, p, EmptiesFor(p) \o u) = EmptiesInReplay \o u
<1> DEFINE e == EmptiesFor(p)
<1>1. u \in Seq(Message) /\ u # << >> /\ ~EndsOverflow(u)
  <2>1. u[Len(u)].type = "update"
    BY DEF IsUpdate
  <2> QED BY <2>1 DEF IsUpdate, EndsOverflow
<1>2. e \in Seq(Message) /\ \A i \in 1 .. Len(e) : e[i] = EmptyUpdate[1]
  BY SentTypes, GameMessagesAreMessages DEF EmptyUpdatesOnly
<1>3. Whole(e \o u)
  <2>1. e \o u \in Seq(Message)
    BY <1>1, <1>2
  <2>2. ~EndsOverflow(e \o u)
    <3> HIDE DEF e
    <3> QED BY <1>1, <1>2, ConcatEnds
  <2> QED BY <2>1, <2>2 DEF Whole
<1>4. CASE p \in GProxyPlayers
  <2>1. e = << >> /\ EmptiesInReplay = Empties
    BY <1>4 DEF EmptiesFor, EmptiesInReplay, UsingGProxy
  <2>2. e \o u = u
    BY <1>1, <2>1
  <2>3. Reach(l, p, u) = Empties \o u
    BY <1>4, ReachUpdate
  <2> HIDE DEF e
  <2> QED BY <1>3, <2>1, <2>2, <2>3 DEF e
<1>5. CASE p \notin GProxyPlayers
  <2>1. e = EmptiesInReplay
    BY <1>5 DEF EmptiesFor, EmptiesInReplay
  <2> DEFINE s == e \o u
  <2>2. s \in Seq(Message)
    BY <1>3 DEF Whole
  <2>3. ASSUME NEW i \in 1 .. Len(s) PROVE Mattering(l, s[i])
    <3> HIDE DEF e
    <3>1. CASE i <= Len(e)
      <4>1. i \in 1 .. Len(e) /\ s[i] = e[i]
        BY <1>1, <1>2, <3>1
      <4>2. s[i].type = "update"
        BY <1>2, <4>1, EmptyUpdateType
      <4> QED BY <4>2 DEF Mattering
    <3>2. CASE i > Len(e)
      <4>1. i - Len(e) \in 1 .. Len(u) /\ s[i] = u[i - Len(e)]
        BY <1>1, <1>2, <3>2
      <4>2. \A j \in 1 .. Len(u) : u[j].type \in {"update", "overflow"}
        <5>1. \A j \in 1 .. Len(u) : j = Len(u) \/ j \in 1 .. Len(u) - 1
          BY <1>1
        <5> QED BY <5>1 DEF IsUpdate
      <4> HIDE DEF s
      <4>3. s[i].type \in {"update", "overflow"}
        BY <4>1, <4>2
      <4> QED BY <4>3 DEF Mattering
    <3>3. Len(e) \in Nat
      BY <1>2
    <3> QED BY <3>1, <3>2, <3>3
  <2>4. Reach(l, p, s) = s
    <3> HIDE DEF s
    <3> QED BY <1>5, <2>2, <2>3, ReachPlain
  <2> HIDE DEF e
  <2> QED BY <1>3, <2>1, <2>4 DEF e
<1> QED BY <1>4, <1>5

Waiting == IF loadInGame /\ gameLoading THEN Loading ELSE {}

(* Nobody is loading when the game has begun, and packets are only cut at  *)
(* their ends; those who wait have been sent nothing and are kept all that *)
(* was told, and the others have heard it.                                 *)
Game ==
    /\ \A p \in Players : Whole(sent[p]) /\ Whole(buffer[p])
    /\ ~gameLoading => Loading = {}
    /\ ~loadInGame /\ gameLoading => replay = << >>
    /\ \A p \in Waiting : sent[p] = << >> /\ Reach(loadInGame, p, buffer[p]) = Log
    /\ \A p \in present \ Waiting : Reach(loadInGame, p, sent[p]) = Log

Hears(p, x) ==
    \E y : Whole(y) /\ sent'[p] = sent[p] \o y /\ Reach(loadInGame, p, y) = x
Keeps(p, x) ==
    \E z : Whole(z) /\ buffer'[p] = buffer[p] \o z /\ Reach(loadInGame, p, z) = x

(* A step in which everybody who does not wait hears x, which is kept for  *)
(* those who wait.                                                         *)
Publishes(x) ==
    /\ x \in Seq(Message) /\ Log' = Log \o x
    /\ loadInGame' = loadInGame /\ present' \subseteq present
    /\ Waiting' = Waiting \cap present' /\ (~gameLoading' => Loading' = {})
    /\ ~loadInGame' /\ gameLoading' => replay' = << >>
    /\ \A p \in present \ Waiting : Hears(p, x)
    /\ \A p \in Players : p \notin present \ Waiting => sent'[p] = sent[p]
    /\ \A p \in Waiting : Keeps(p, x)
    /\ \A p \in Players : p \notin Waiting => buffer'[p] = buffer[p]

(* Messages are put together in any order, or one by one.                  *)
LEMMA MessagesAssociate ==
  /\ \A a, b, c \in Seq(Message) : (a \o b) \o c = a \o (b \o c)
  /\ \A s \in Seq(Message) : \A m \in Message : Append(s, m) = s \o << m >>
<1>1. ASSUME NEW a \in Seq(Message), NEW b \in Seq(Message), NEW c \in Seq(Message)
      PROVE  (a \o b) \o c = a \o (b \o c)
  BY ConcatAssociative
<1>2. ASSUME NEW s \in Seq(Message), NEW m \in Message PROVE Append(s, m) = s \o << m >>
  OBVIOUS
<1> QED BY <1>1, <1>2

(* What was told consists of messages.                                     *)
LEMMA LogType ==
  ASSUME Typed
  PROVE  Log \in Seq(Message) /\ leftLoading \in Seq(Message) /\ replay \in Seq(Message)
<1>1. leftLoading \in Seq(Message) /\ replay \in Seq(Message)
  BY GameMessagesAreMessages DEF Typed
<1>2. NumPlayers \in Nat
  BY UpdatesAssumption
<1>3. [q \in Players |-> LoadedOthers(q)] \in Seq(Message) /\ << >> \in Seq(Message)
  BY <1>2, MessageTypes DEF Players
<1>4. (IF loadInGame THEN [q \in Players |-> LoadedOthers(q)] ELSE << >>) \in Seq(Message)
  BY <1>3
<1> DEFINE first == IF loadInGame THEN [q \in Players |-> LoadedOthers(q)] ELSE << >>
<1>5. Log = first \o leftLoading \o replay
  BY DEF Log
<1>6. first \in Seq(Message)
  BY <1>4
<1> HIDE DEF first
<1> QED BY <1>1, <1>5, <1>6

(* What the replay is longer by was told.                                  *)
LEMMA LogGrows ==
  ASSUME Typed, NEW x \in Seq(Message), replay' = replay \o x,
         UNCHANGED << loadInGame, leftLoading >>
  PROVE  Log' = Log \o x
<1> DEFINE first == IF loadInGame THEN [q \in Players |-> LoadedOthers(q)] ELSE << >>
           a == first \o leftLoading
<1>1. Log = a \o replay /\ Log' = a \o replay'
  BY DEF Log
<1>2. a \in Seq(Message) /\ replay \in Seq(Message)
  <2>1. NumPlayers \in Nat
    BY UpdatesAssumption
  <2>2. [q \in Players |-> LoadedOthers(q)] \in Seq(Message) /\ << >> \in Seq(Message)
    BY <2>1, MessageTypes DEF Players
  <2>3. first \in Seq(Message) /\ leftLoading \in Seq(Message) /\ replay \in Seq(Message)
    BY <2>2, LogType
  <2> HIDE DEF first
  <2> QED BY <2>3
<1>3. a \o (replay \o x) = (a \o replay) \o x
  <2> DEFINE b == replay
  <2>1. a \in Seq(Message) /\ b \in Seq(Message)
    BY <1>2
  <2>2. a \o (b \o x) = (a \o b) \o x
    <3> HIDE DEF a, b
    <3> QED BY <2>1, MessagesAssociate
  <2> QED BY <2>2
<1> HIDE DEF a
<1> QED BY <1>1, <1>3

(* Such a step keeps the game the same for everybody ...                   *)
LEMMA PublishKeepsGame ==
  ASSUME Typed, Game, NEW x, Publishes(x)
  PROVE  Game'
<1>1. /\ loadInGame' = loadInGame /\ Log' = Log \o x
      /\ ~gameLoading' => Loading' = {}
      /\ ~loadInGame' /\ gameLoading' => replay' = << >>
  BY DEF Publishes
<1>2. ASSUME NEW p \in Players PROVE Whole(sent'[p]) /\ Whole(buffer'[p])
  <2>1. Whole(sent[p]) /\ Whole(buffer[p])
    BY DEF Game
  <2>2. CASE p \in present \ Waiting
    <3>1. Hears(p, x)
      BY <2>2 DEF Publishes
    <3>2. PICK y : Whole(y) /\ sent'[p] = sent[p] \o y
      BY <3>1 DEF Hears
    <3>3. Whole(sent[p] \o y)
      BY <2>1, <3>2, WholeConcat
    <3>4. buffer'[p] = buffer[p]
      BY <2>2 DEF Publishes
    <3> QED BY <2>1, <3>2, <3>3, <3>4
  <2>3. CASE p \in Waiting
    <3>1. Keeps(p, x)
      BY <2>3 DEF Publishes
    <3>2. PICK z : Whole(z) /\ buffer'[p] = buffer[p] \o z
      BY <3>1 DEF Keeps
    <3>3. Whole(buffer[p] \o z)
      BY <2>1, <3>2, WholeConcat
    <3>4. sent'[p] = sent[p]
      BY <2>3 DEF Publishes
    <3> QED BY <2>1, <3>2, <3>3, <3>4
  <2>4. CASE p \notin Waiting /\ p \notin present \ Waiting
    BY <2>1, <2>4 DEF Publishes
  <2> QED BY <2>2, <2>3, <2>4
<1>3. ASSUME NEW p \in Waiting'
      PROVE  sent'[p] = << >> /\ Reach(loadInGame', p, buffer'[p]) = Log'
  <2>1. p \in Waiting /\ p \in Players
    BY DEF Publishes, Waiting, Loading, Typed
  <2>2. sent'[p] = sent[p] /\ sent[p] = << >> /\ Reach(loadInGame, p, buffer[p]) = Log
        /\ Whole(buffer[p])
    BY <2>1 DEF Publishes, Game
  <2>3. Keeps(p, x)
    BY <2>1 DEF Publishes
  <2>4. PICK z : Whole(z) /\ buffer'[p] = buffer[p] \o z /\ Reach(loadInGame, p, z) = x
    BY <2>3 DEF Keeps
  <2>5. Whole(buffer[p]) /\ Whole(z)
    BY <2>2, <2>4
  <2>6. Reach(loadInGame, p, buffer[p] \o z) = Reach(loadInGame, p, buffer[p]) \o Reach(loadInGame, p, z)
    BY <2>5, WholeConcat
  <2> QED BY <1>1, <2>2, <2>4, <2>6
<1>4. ASSUME NEW p \in present' \ Waiting'
      PROVE  Reach(loadInGame', p, sent'[p]) = Log'
  <2>1. p \in present \ Waiting /\ p \in Players
    BY DEF Publishes, Typed
  <2>2. Reach(loadInGame, p, sent[p]) = Log /\ Whole(sent[p])
    BY <2>1 DEF Game
  <2>3. Hears(p, x)
    BY <2>1 DEF Publishes
  <2>4. PICK y : Whole(y) /\ sent'[p] = sent[p] \o y /\ Reach(loadInGame, p, y) = x
    BY <2>3 DEF Hears
  <2>5. Whole(sent[p]) /\ Whole(y)
    BY <2>2, <2>4
  <2>6. Reach(loadInGame, p, sent[p] \o y) = Reach(loadInGame, p, sent[p]) \o Reach(loadInGame, p, y)
    BY <2>5, WholeConcat
  <2> QED BY <1>1, <2>2, <2>4, <2>6
<1> QED BY <1>1, <1>2, <1>3, <1>4 DEF Game

(* ... and is a step of the broadcast.                                     *)
LEMMA PublishIsPublish ==
  ASSUME Typed, Game, NEW x, Publishes(x)
  PROVE  Same!Publish
<1>1. Log' = Log \o x /\ x \in Seq(Message) /\ Log \in Seq(Message)
  BY LogType DEF Publishes
<1>2. Same!IsExtended(Log, Log')
  <2>1. /\ Len(Log \o x) = Len(Log) + Len(x) /\ Len(Log) \in Nat /\ Len(x) \in Nat
        /\ SubSeq(Log \o x, 1, Len(Log)) = Log
    <3>1. Log \o x \in Seq(Message) /\ Len(Log \o x) = Len(Log) + Len(x)
          /\ Len(Log) \in Nat /\ Len(x) \in Nat /\ \A i \in 1 .. Len(Log) : (Log \o x)[i] = Log[i]
      BY <1>1
    <3>2. /\ SubSeq(Log \o x, 1, Len(Log)) \in Seq(Message)
          /\ Len(SubSeq(Log \o x, 1, Len(Log))) = Len(Log)
          /\ \A i \in 1 .. Len(Log) : SubSeq(Log \o x, 1, Len(Log))[i] = (Log \o x)[i]
      BY <3>1
    <3>3. SubSeq(Log \o x, 1, Len(Log)) = Log
      BY <1>1, <3>1, <3>2, SeqEqual
    <3> QED BY <3>1, <3>3
  <2>2. Len(Log) <= Len(Log \o x)
    BY <2>1
  <2> QED BY <1>1, <2>1, <2>2 DEF Same!IsExtended
<1>3. present' \subseteq present /\ Waiting' = Waiting \cap present'
  BY DEF Publishes
<1>4. ASSUME NEW c \in Players
      PROVE  Received(c)' \in IF c \in present' \ Waiting THEN {Log'} ELSE {Received(c), Log'}
  <2>1. Received(c) = Reach(loadInGame, c, sent[c]) /\ Received(c)' = Reach(loadInGame, c, sent'[c])
    <3>1. loadInGame' = loadInGame
      BY DEF Publishes
    <3> QED BY <3>1 DEF Received, Reaching, Reach, Pieces, Matters, Mattering
  <2>2. CASE c \in present \ Waiting
    <3>1. Reach(loadInGame, c, sent[c]) = Log /\ Whole(sent[c]) /\ Hears(c, x)
      BY <2>2 DEF Game, Publishes
    <3>2. PICK y : Whole(y) /\ sent'[c] = sent[c] \o y /\ Reach(loadInGame, c, y) = x
      BY <3>1 DEF Hears
    <3>3. Whole(sent[c]) /\ Whole(y)
      BY <3>1, <3>2
    <3>4. Reach(loadInGame, c, sent[c] \o y) = Reach(loadInGame, c, sent[c]) \o Reach(loadInGame, c, y)
      BY <3>3, WholeConcat
    <3>5. Received(c)' = Log'
      BY <1>1, <2>1, <3>1, <3>2, <3>4
    <3> QED BY <3>5
  <2>3. CASE c \notin present \ Waiting
    <3>1. Received(c)' = Received(c)
      BY <2>1, <2>3 DEF Publishes
    <3>2. c \notin present' \ Waiting
      BY <1>3, <2>3
    <3> QED BY <3>1, <3>2
  <2> QED BY <2>2, <2>3
<1> QED BY <1>2, <1>3, <1>4 DEF Same!Publish, Waiting, Loading

(* Who has been sent nothing more has heard nothing more.                  *)
LEMMA NothingNew ==
  ASSUME Typed, NEW p \in Players
  PROVE  /\ sent'[p] = sent[p] => Hears(p, << >>)
         /\ buffer'[p] = buffer[p] => Keeps(p, << >>)
<1>1. Whole(<< >>) /\ Reach(loadInGame, p, << >>) = << >>
  BY NothingIsWhole
<1>2. sent[p] \o << >> = sent[p] /\ buffer[p] \o << >> = buffer[p]
  BY DEF Typed
<1> QED BY <1>1, <1>2 DEF Hears, Keeps

(* The log does not change when nothing is told.                           *)
LEMMA LogStays ==
  ASSUME Typed, UNCHANGED << loadInGame, leftLoading, replay >>
  PROVE  Log' = Log /\ Log' = Log \o << >> /\ << >> \in Seq(Message)
<1>1. Log' = Log
  BY DEF Log
<1>2. Log \o << >> = Log
  BY LogType
<1> QED BY <1>1, <1>2

(* Those who wait and those who do not.                                    *)
LEMMA WhoWaits ==
  ASSUME Typed, Game
  PROVE  /\ Waiting \subseteq present /\ Waiting \subseteq Players
         /\ loadInGame /\ gameLoading => Waiting = present \ finished
         /\ ~(loadInGame /\ gameLoading) => Waiting = {}
BY DEF Typed, Game, Waiting, Loading

(* Without load in game, a player has loaded the map.                      *)
LEMMA LoadedPublishes ==
  ASSUME Typed, Game, NEW p \in Players, EventPlayerLoaded(p), ~loadInGame
  PROVE  Publishes(<< >>)
<1>1. /\ UNCHANGED << loadInGame, gameLoading, present, leftLoading, replay, buffer >>
      /\ gameLoading /\ Waiting = {} /\ Waiting' = {}
  BY DEF EventPlayerLoaded, recording, counts, Waiting
<1>2. \A q \in Players : sent'[q] = IF q \in present THEN Append(sent[q], LoadedOthers(p))
                                    ELSE sent[q]
  BY DEF EventPlayerLoaded
<1>3. ASSUME NEW q \in present PROVE Hears(q, << >>)
  <2> DEFINE m == LoadedOthers(p)
  <2>1. m \in Message /\ ~Mattering(loadInGame, m)
    BY MessageTypes DEF Mattering
  <2>2. Whole(<< m >>) /\ Reach(loadInGame, q, << m >>) = << >>
    <3> HIDE DEF m
    <3> QED BY <2>1, QuietMessage
  <2>3. sent'[q] = sent[q] \o << m >>
    <3>1. q \in Players /\ sent[q] \in Seq(Message)
      BY DEF Typed
    <3>2. sent'[q] = Append(sent[q], m)
      BY <1>2, <3>1
    <3> HIDE DEF m
    <3> QED BY <2>1, <3>1, <3>2
  <2> HIDE DEF m
  <2> QED BY <2>2, <2>3 DEF Hears
<1>4. replay' = << >>
  BY <1>1 DEF Game
<1>5. Log' = Log \o << >> /\ << >> \in Seq(Message)
  BY <1>1, LogStays
<1> QED BY <1>1, <1>2, <1>3, <1>4, <1>5 DEF Publishes

(* The game begins.                                                        *)
LEMMA GameLoadedPublishes ==
  ASSUME Typed, Game, EventGameLoaded
  PROVE  Publishes(<< >>)
<1>1. /\ UNCHANGED << loadInGame, present, finished, leftLoading, replay, buffer, sent >>
      /\ gameLoading' = FALSE /\ Loading = {}
  BY DEF EventGameLoaded, recording, counts
<1>2. Waiting = {} /\ Waiting' = {} /\ Loading' = {}
  BY <1>1 DEF Waiting, Loading
<1>3. \A q \in present : q \in Players /\ Hears(q, << >>)
  BY <1>1, NothingNew DEF Typed
<1>4. Log' = Log \o << >> /\ << >> \in Seq(Message)
  BY <1>1, LogStays
<1> QED BY <1>1, <1>2, <1>3, <1>4 DEF Publishes

(* A player acts, and nothing is sent.                                     *)
LEMMA PlayerActionPublishes ==
  ASSUME Typed, Game, NEW p \in Players, PlayerAction(p)
  PROVE  Publishes(<< >>)
<1>1. UNCHANGED << loadInGame, gameLoading, present, finished, leftLoading, replay, buffer, sent >>
  BY DEF PlayerAction, recording
<1>2. Waiting' = Waiting /\ Loading' = Loading /\ Waiting \subseteq present /\ Waiting \subseteq Players
  BY <1>1, WhoWaits DEF Waiting, Loading
<1>3. (\A q \in present : Hears(q, << >>)) /\ \A q \in Waiting : Keeps(q, << >>)
  BY <1>1, <1>2, NothingNew DEF Typed
<1>4. Log' = Log \o << >> /\ << >> \in Seq(Message)
  BY <1>1, LogStays
<1> QED BY <1>1, <1>2, <1>3, <1>4 DEF Publishes, Game

(* The lag screen is reset with an empty update.                           *)
LEMMA ResetPublishes ==
  ASSUME Typed, Game, ResetLagScreen
  PROVE  Publishes(EmptiesInReplay \o EmptyUpdate)
<1> DEFINE x == EmptiesInReplay \o EmptyUpdate
           screen == << StartLag(Loading) >>
<1>1. /\ UNCHANGED << loadInGame, gameLoading, present, finished, leftLoading >>
      /\ gameLoading /\ loadInGame
      /\ Waiting = present \ finished /\ Waiting' = Waiting /\ Waiting \subseteq present
  BY WhoWaits DEF ResetLagScreen, Waiting, Loading
<1>2. Loading = Waiting
  BY <1>1 DEF Loading
<1>3. EmptiesInReplay \in Seq(Message) /\ EmptyUpdate \in Seq(Message) /\ IsUpdate(EmptyUpdate)
      /\ x \in Seq(Message)
  <2>1. EmptiesInReplay \in Seq(Message) /\ EmptyUpdate \in Seq(Message) /\ IsUpdate(EmptyUpdate)
    BY SentTypes, GameMessagesAreMessages DEF EmptyUpdatesOnly
  <2> QED BY <2>1
<1>4. Log' = Log \o x
  <2>1. replay \in Seq(Message)
    BY LogType
  <2>2. (replay \o EmptiesInReplay) \o EmptyUpdate = replay \o x
    BY <1>3, <2>1, MessagesAssociate
  <2>3. replay' = replay \o x
    BY <2>2 DEF ResetLagScreen
  <2> HIDE DEF x
  <2> QED BY <1>1, <1>3, <2>3, LogGrows
<1>5. Whole(Stops) /\ Whole(screen) /\ \A q \in Players :
        /\ Reach(loadInGame, q, Stops) = << >> /\ Reach(loadInGame, q, screen) = << >>
  <2>1. Stops \in Seq(Message) /\ \A i \in 1 .. Len(Stops) : ~Mattering(loadInGame, Stops[i])
    <3>1. Stops \in Seq(Message)
          /\ \A i \in 1 .. Len(Stops) : \E q \in Loading : Stops[i] = StopLag(q)
      BY StopsAreAll
    <3>2. \A q \in Loading : ~Mattering(loadInGame, StopLag(q))
      BY MessageTypes DEF Typed, Loading, Mattering
    <3> QED BY <3>1, <3>2
  <2>2. StartLag(Loading) \in Message /\ ~Mattering(loadInGame, StartLag(Loading))
    BY MessageTypes DEF Typed, Loading, Mattering
  <2> QED BY <2>1, <2>2, QuietIsWhole, QuietMessage
<1>6. ASSUME NEW q \in present
      PROVE  /\ Whole(KeptUpdate(q)) /\ Reach(loadInGame, q, KeptUpdate(q)) = x
             /\ Whole(Reset(q)) /\ Reach(loadInGame, q, Reset(q)) = x
  <2> DEFINE k == KeptUpdate(q)
  <2>1. q \in Players
    BY DEF Typed
  <2>2. Whole(k) /\ Reach(loadInGame, q, k) = x
    BY <1>3, <2>1, UpdateIsHeard DEF KeptUpdate
  <2>3. Whole(Stops \o k)
        /\ Reach(loadInGame, q, Stops \o k) = Reach(loadInGame, q, Stops) \o Reach(loadInGame, q, k)
    <3>1. Whole(Stops) /\ Whole(k)
      BY <1>5, <2>2
    <3> HIDE DEF k
    <3> QED BY <3>1, WholeConcat
  <2>4. Whole((Stops \o k) \o screen)
        /\ Reach(loadInGame, q, (Stops \o k) \o screen)
           = Reach(loadInGame, q, Stops \o k) \o Reach(loadInGame, q, screen)
    <3>1. Whole(Stops \o k) /\ Whole(screen)
      BY <1>5, <2>3
    <3> HIDE DEF k, screen
    <3> QED BY <3>1, WholeConcat
  <2>5. << >> \o x = x /\ x \o << >> = x
    BY <1>3
  <2>6. Reset(q) = (Stops \o k) \o screen
    <3>1. Stops \in Seq(Message) /\ EmptiesFor(q) \in Seq(Message)
      BY <2>1, StopsAreAll, SentTypes, GameMessagesAreMessages DEF EmptyUpdatesOnly
    <3>2. (Stops \o EmptiesFor(q)) \o EmptyUpdate = Stops \o (EmptiesFor(q) \o EmptyUpdate)
      BY <1>3, <3>1, MessagesAssociate
    <3> QED BY <3>2 DEF Reset, KeptUpdate
  <2>7. Reach(loadInGame, q, Stops) = << >> /\ Reach(loadInGame, q, screen) = << >>
    BY <1>5, <2>1
  <2> HIDE DEF k, x, screen
  <2> QED BY <2>2, <2>3, <2>4, <2>5, <2>6, <2>7 DEF k
<1>7. ASSUME NEW q \in present \ Waiting PROVE Hears(q, x)
  <2>1. sent'[q] = sent[q] \o Reset(q)
    BY <1>1 DEF ResetLagScreen, Typed
  <2>2. Whole(Reset(q)) /\ Reach(loadInGame, q, Reset(q)) = x
    BY <1>6
  <2> HIDE DEF x
  <2> QED BY <2>1, <2>2 DEF Hears
<1>8. ASSUME NEW q \in Waiting PROVE Keeps(q, x)
  <2>1. buffer'[q] = buffer[q] \o KeptUpdate(q)
    BY <1>1, <1>2 DEF ResetLagScreen, Typed
  <2>2. Whole(KeptUpdate(q)) /\ Reach(loadInGame, q, KeptUpdate(q)) = x
    BY <1>1, <1>6
  <2> HIDE DEF x
  <2> QED BY <2>1, <2>2 DEF Keeps
<1>9. ASSUME NEW q \in Players
      PROVE  /\ q \notin present \ Waiting => sent'[q] = sent[q]
             /\ q \notin Waiting => buffer'[q] = buffer[q]
  BY <1>1, <1>2 DEF ResetLagScreen
<1>10. Waiting' = Waiting \cap present' /\ present' \subseteq present
       /\ (~gameLoading' => Loading' = {}) /\ (~loadInGame' /\ gameLoading' => replay' = << >>)
  BY <1>1
<1>11. x \in Seq(Message)
  BY <1>3
<1> HIDE DEF x
<1>12. Publishes(x)
  BY <1>1, <1>4, <1>7, <1>8, <1>9, <1>10, <1>11 DEF Publishes
<1> QED BY <1>12 DEF x

(* The actions are sent to everybody in the game.                          *)
LEMMA SendAllActionsPublishes ==
  ASSUME Typed, Game, SendAllActions
  PROVE  Publishes(EmptiesInReplay \o Recorded(actions))
<1> DEFINE u == UpdateOf(actions)
           x == EmptiesInReplay \o u
<1>1. /\ UNCHANGED << loadInGame, gameLoading, present, finished, leftLoading, buffer >>
      /\ ~gameLoading /\ Waiting = {} /\ Waiting' = {} /\ Loading' = {}
  BY DEF SendAllActions, Waiting, Game, Loading
<1>2. actions \in Seq(SmallActions)
  BY DEF Typed
<1>3. IsUpdate(u) /\ u \in Seq(Message) /\ EmptiesInReplay \in Seq(Message)
  BY <1>2, UpdateOfQueue, SentTypes, GameMessagesAreMessages DEF EmptyUpdatesOnly
<1>4. x \in Seq(Message)
  <2> HIDE DEF u
  <2> QED BY <1>3
<1>5. Log' = Log \o x
  <2>1. replay \in Seq(Message)
    BY LogType
  <2>2. (replay \o EmptiesInReplay) \o u = replay \o x
    <3> HIDE DEF u
    <3> QED BY <1>3, <2>1, MessagesAssociate
  <2>3. replay' = replay \o x
    BY <2>2 DEF SendAllActions, Recorded
  <2> HIDE DEF x
  <2> QED BY <1>1, <1>4, <2>3, LogGrows
<1>6. ASSUME NEW q \in present PROVE Hears(q, x)
  <2>1. q \in Players
    BY DEF Typed
  <2>2. sent'[q] = sent[q] \o (EmptiesFor(q) \o u)
    BY <2>1 DEF SendAllActions, UpdateFor
  <2>3. Whole(EmptiesFor(q) \o u) /\ Reach(loadInGame, q, EmptiesFor(q) \o u) = x
    BY <1>3, <2>1, UpdateIsHeard
  <2> HIDE DEF x, u
  <2> QED BY <2>2, <2>3 DEF Hears
<1>7. ASSUME NEW q \in Players, q \notin present PROVE sent'[q] = sent[q]
  <2>1. sent'[q] = sent[q] \o << >>
    BY <1>7 DEF SendAllActions, UpdateFor
  <2>2. sent[q] \in Seq(Message)
    BY DEF Typed
  <2> QED BY <2>1, <2>2
<1> HIDE DEF x
<1>8. Publishes(x)
  BY <1>1, <1>4, <1>5, <1>6, <1>7 DEF Publishes
<1> QED BY <1>8 DEF x, Recorded

(* A player leaves the loaded game.                                        *)
LEMMA LeaveGamePublishes ==
  ASSUME Typed, Game, NEW p \in Players, LeaveGame(p, FALSE), ~gameLoading,
         present' = present \ {p}, UNCHANGED << loadInGame, gameLoading, finished >>
  PROVE  Publishes(<< Leave(p) >>)
<1> DEFINE x == << Leave(p) >>
<1>1. /\ UNCHANGED << leftLoading, buffer >> /\ Waiting = {} /\ Waiting' = {} /\ Loading' = {}
  BY DEF LeaveGame, Waiting, Game, Loading
<1>2. x \in Seq(Message) /\ \A q \in Players : Whole(x) /\ Reach(loadInGame, q, x) = x
  BY LeaveIsHeard, LeaveTellsNothing, GameMessagesAreMessages
<1>3. Log' = Log \o x
  <2>1. replay \o << >> = replay
    BY LogType
  <2>2. replay' = replay \o x
    BY <2>1 DEF LeaveGame
  <2> HIDE DEF x
  <2> QED BY <1>1, <1>2, <2>2, LogGrows
<1>4. ASSUME NEW q \in present PROVE Hears(q, x)
  <2>1. q \in Players /\ sent[q] \in Seq(Message)
    BY DEF Typed
  <2>2. sent[q] \o << >> = sent[q]
    BY <2>1
  <2>3. sent'[q] = sent[q] \o x
    BY <2>1, <2>2 DEF LeaveGame
  <2> HIDE DEF x
  <2> QED BY <1>2, <2>1, <2>3 DEF Hears
<1>5. ASSUME NEW q \in Players, q \notin present PROVE sent'[q] = sent[q]
  BY <1>5 DEF LeaveGame
<1> HIDE DEF x
<1>6. Publishes(x)
  BY <1>1, <1>2, <1>3, <1>4, <1>5 DEF Publishes
<1> QED BY <1>6 DEF x

(* A player is disconnected, and the others save the game.                 *)
LEMMA SaveGamePublishes ==
  ASSUME Typed, Game, NEW p \in Players, LeaveGame(p, TRUE), ~gameLoading,
         present' = present \ {p}, UNCHANGED << loadInGame, gameLoading, finished >>
  PROVE  \E x : Publishes(x)
<1> DEFINE queue == Append(actions, SavingAction)
           u == UpdateOf(queue)
           y == EmptiesInReplay \o u
           z == << Leave(p) >>
           x == y \o z
<1>1. /\ UNCHANGED << leftLoading, buffer >> /\ Waiting = {} /\ Waiting' = {} /\ Loading' = {}
  BY DEF LeaveGame, Waiting, Game, Loading
<1>2. IsUpdate(u) /\ u \in Seq(Message) /\ EmptiesInReplay \in Seq(Message)
  BY SavingActionIsSmall, UpdateOfQueue, SentTypes, GameMessagesAreMessages DEF EmptyUpdatesOnly
<1>3. y \in Seq(Message)
  <2> HIDE DEF u
  <2> QED BY <1>2
<1>4. z \in Seq(Message) /\ \A q \in Players : Whole(z) /\ Reach(loadInGame, q, z) = z
  BY LeaveIsHeard, LeaveTellsNothing, GameMessagesAreMessages
<1>5. x \in Seq(Message)
  <2> HIDE DEF y, z
  <2> QED BY <1>3, <1>4
<1>6. Log' = Log \o x
  <2>1. replay \in Seq(Message)
    BY LogType
  <2>2. (replay \o y) \o z = replay \o x
    <3> HIDE DEF y, z
    <3> QED BY <1>3, <1>4, <2>1, MessagesAssociate
  <2>3. replay' = replay \o x
    BY <2>2 DEF LeaveGame, Recorded, SavingAction
  <2> HIDE DEF x
  <2> QED BY <1>1, <1>5, <2>3, LogGrows
<1>7. ASSUME NEW q \in present PROVE Hears(q, x)
  <2> DEFINE h == EmptiesFor(q) \o u
  <2>1. q \in Players /\ sent[q] \in Seq(Message)
    BY DEF Typed
  <2>2. Whole(h) /\ Reach(loadInGame, q, h) = y
    BY <1>2, <2>1, UpdateIsHeard
  <2>3. Whole(h \o z) /\ Reach(loadInGame, q, h \o z) = Reach(loadInGame, q, h) \o Reach(loadInGame, q, z)
    <3>1. Whole(h) /\ Whole(z)
      BY <1>4, <2>1, <2>2
    <3> HIDE DEF h, z
    <3> QED BY ONLY <3>1, WholeConcat
  <2>4. sent'[q] = sent[q] \o (h \o z)
    <3>1. h \in Seq(Message)
      BY <2>2 DEF Whole
    <3>2. (sent[q] \o h) \o z = sent[q] \o (h \o z)
      <4> DEFINE b == sent[q]
      <4>1. b \in Seq(Message) /\ h \in Seq(Message) /\ z \in Seq(Message)
        BY <1>4, <2>1, <3>1 DEF Typed
      <4>2. (b \o h) \o z = b \o (h \o z)
        <5> HIDE DEF b, h, z
        <5> QED BY <4>1, MessagesAssociate
      <4> QED BY <4>2
    <3>3. sent'[q] = (sent[q] \o h) \o z
      BY <2>1 DEF LeaveGame, UpdateFor, SavingAction
    <3> QED BY <3>2, <3>3
  <2>5. Reach(loadInGame, q, z) = z
    BY <1>4, <2>1
  <2> HIDE DEF h, y, z
  <2> QED BY <2>2, <2>3, <2>4, <2>5 DEF Hears
<1>8. ASSUME NEW q \in Players, q \notin present PROVE sent'[q] = sent[q]
  BY <1>8 DEF LeaveGame
<1> HIDE DEF x
<1>9. Publishes(x)
  BY <1>1, <1>5, <1>6, <1>7, <1>8 DEF Publishes
<1> QED BY <1>9

(* A player leaves while maps are loaded in game.                          *)
LEMMA LeaveLoadingInGamePublishes ==
  ASSUME Typed, Game, NEW p \in Players, LeaveWhileLoadingInGame(p), gameLoading, loadInGame,
         present' = present \ {p}, UNCHANGED << loadInGame, gameLoading, finished >>
  PROVE  Publishes(<< Leave(p) >>)
<1> DEFINE x == << Leave(p) >>
<1>1. /\ UNCHANGED leftLoading /\ Waiting = present \ finished /\ Loading = Waiting
      /\ Waiting' = Waiting \cap present' /\ Waiting \subseteq Players
  BY WhoWaits DEF LeaveWhileLoadingInGame, Waiting, Loading
<1>2. x \in Seq(Message) /\ Leave(p) \in Message
      /\ \A q \in Players : Whole(x) /\ Reach(loadInGame, q, x) = x
  <2>1. \A q \in Players : Whole(x) /\ Reach(loadInGame, q, x) = x
    BY LeaveIsHeard
  <2>2. x \in Seq(Message)
    BY <2>1 DEF Whole
  <2> QED BY <2>1, <2>2, MessageTypes
<1>3. Log' = Log \o x
  <2>1. replay' = replay \o x
    <3>1. replay \in Seq(Message) /\ replay' = Append(replay, Leave(p))
      BY LogType DEF LeaveWhileLoadingInGame
    <3> QED BY <1>2, <3>1
  <2> HIDE DEF x
  <2> QED BY <1>1, <1>2, <2>1, LogGrows
<1>4. ASSUME NEW q \in present \ Waiting PROVE Hears(q, x)
  <2> DEFINE s == IF p \in Loading THEN << StopLag(p) >> ELSE << >>
  <2>1. q \in Players /\ sent[q] \in Seq(Message)
    BY DEF Typed
  <2>2. sent'[q] = (sent[q] \o s) \o x
    BY <1>1, <2>1 DEF LeaveWhileLoadingInGame, LeaveSeenBy
  <2>3. Whole(s) /\ Reach(loadInGame, q, s) = << >>
    <3>1. StopLag(p) \in Message /\ ~Mattering(loadInGame, StopLag(p))
      BY MessageTypes DEF Mattering
    <3>2. Whole(<< StopLag(p) >>) /\ Reach(loadInGame, q, << StopLag(p) >>) = << >>
      BY <3>1, QuietMessage
    <3> QED BY <3>2, NothingIsWhole
  <2>4. Whole(s \o x) /\ Reach(loadInGame, q, s \o x) = Reach(loadInGame, q, s) \o Reach(loadInGame, q, x)
    <3>1. Whole(s) /\ Whole(x)
      BY <1>2, <2>1, <2>3
    <3> HIDE DEF s, x
    <3> QED BY ONLY <3>1, WholeConcat
  <2>5. (sent[q] \o s) \o x = sent[q] \o (s \o x)
    <3> DEFINE b == sent[q]
    <3>1. b \in Seq(Message) /\ s \in Seq(Message) /\ x \in Seq(Message)
      BY <1>2, <2>1, <2>3 DEF Whole
    <3>2. (b \o s) \o x = b \o (s \o x)
      <4> HIDE DEF b, s, x
      <4> QED BY <3>1, MessagesAssociate
    <3> QED BY <3>2
  <2>6. Reach(loadInGame, q, x) = x /\ << >> \o x = x
    <3>1. x \in Seq(Message) /\ Reach(loadInGame, q, x) = x
      BY <1>2, <2>1
    <3>2. << >> \o x = x
      <4>1. x \in Seq(Message)
        BY <3>1
      <4> HIDE DEF x
      <4> QED BY ONLY <4>1
    <3> QED BY <3>1, <3>2
  <2>7. Reach(loadInGame, q, s \o x) = x
    <3> HIDE DEF s, x
    <3> QED BY <2>3, <2>4, <2>6
  <2>8. sent'[q] = sent[q] \o (s \o x)
    BY <2>2, <2>5
  <2> HIDE DEF s, x
  <2> QED BY <2>4, <2>7, <2>8 DEF Hears
<1>5. ASSUME NEW q \in Waiting PROVE Keeps(q, x)
  <2>1. q \in Players /\ buffer[q] \in Seq(Message)
    BY <1>1 DEF Typed
  <2>2. buffer'[q] = buffer[q] \o x
    <3>1. buffer'[q] = Append(buffer[q], Leave(p))
      BY <1>1, <2>1 DEF LeaveWhileLoadingInGame
    <3> QED BY <1>2, <2>1, <3>1, MessagesAssociate
  <2> HIDE DEF x
  <2> QED BY <1>2, <2>1, <2>2 DEF Keeps
<1>6. ASSUME NEW q \in Players
      PROVE  /\ q \notin present \ Waiting => sent'[q] = sent[q]
             /\ q \notin Waiting => buffer'[q] = buffer[q]
  BY <1>1 DEF LeaveWhileLoadingInGame, LeaveSeenBy
<1> HIDE DEF x
<1>7. Publishes(x)
  BY <1>1, <1>2, <1>3, <1>4, <1>5, <1>6 DEF Publishes
<1> QED BY <1>7 DEF x

(* A player leaves while the map is loaded.                                *)
LEMMA LeaveLoadingPublishes ==
  ASSUME Typed, Game, NEW p \in Players, LeaveWhileLoading(p), gameLoading, ~loadInGame,
         present' = present \ {p}, UNCHANGED << loadInGame, gameLoading, finished >>
  PROVE  Publishes(<< Leave(p) >>)
<1> DEFINE m == Leave(p)
           x == << m >>
<1>1. /\ UNCHANGED << buffer, replay >> /\ Waiting = {} /\ Waiting' = {} /\ replay = << >>
      /\ leftLoading' = Append(leftLoading, m)
  BY DEF LeaveWhileLoading, Waiting, Game
<1>2. x \in Seq(Message) /\ m \in Message
      /\ \A q \in Players : Whole(x) /\ Reach(loadInGame, q, x) = x
  BY LeaveIsHeard, LeaveTellsNothing, GameMessagesAreMessages, MessageTypes
<1>3. Log' = Log \o x
  <2>1. leftLoading \in Seq(Message) /\ leftLoading' \in Seq(Message)
        /\ leftLoading' = leftLoading \o x
    <3>1. leftLoading \in Seq(Message)
      BY LogType
    <3> HIDE DEF m
    <3> QED BY <1>1, <1>2, <3>1
  <2>2. Log = (<< >> \o leftLoading) \o << >> /\ Log' = (<< >> \o leftLoading') \o << >>
    BY <1>1 DEF Log
  <2>3. Log = leftLoading /\ Log' = leftLoading'
    BY <2>1, <2>2
  <2> QED BY <2>1, <2>3
<1>4. ASSUME NEW q \in present PROVE Hears(q, x)
  <2>1. q \in Players /\ sent[q] \in Seq(Message)
    BY DEF Typed
  <2>2. sent'[q] = sent[q] \o x
    <3>1. sent'[q] = Append(sent[q], m)
      BY <2>1 DEF LeaveWhileLoading
    <3> HIDE DEF m
    <3> QED BY <1>2, <2>1, <3>1
  <2> HIDE DEF x
  <2> QED BY <1>2, <2>1, <2>2 DEF Hears
<1>5. ASSUME NEW q \in Players, q \notin present PROVE sent'[q] = sent[q]
  BY <1>5 DEF LeaveWhileLoading
<1> HIDE DEF x
<1>6. Publishes(x)
  BY <1>1, <1>2, <1>3, <1>4, <1>5 DEF Publishes
<1> QED BY <1>6 DEF x

(* What is kept for a player tells the game, and the screen adds nothing.  *)
LEMMA CatchUpTellsAll ==
  ASSUME Typed, Game, NEW p \in Waiting
  PROVE  Whole(CatchUp(p)) /\ Reach(loadInGame, p, CatchUp(p)) = Log
<1> DEFINE b == buffer[p]
           m == StartLag(Loading \ {p})
           t == IF Loading # {p} THEN << m >> ELSE << >>
<1>1. p \in Players /\ Loading \ {p} \in SUBSET Players
  BY WhoWaits DEF Loading, Typed
<1>2. Whole(b) /\ Reach(loadInGame, p, b) = Log
  BY <1>1 DEF Game
<1>3. Whole(t) /\ Reach(loadInGame, p, t) = << >>
  <2>1. m \in Message /\ ~Mattering(loadInGame, m)
    BY <1>1, MessageTypes DEF Mattering
  <2>2. Whole(<< m >>) /\ Reach(loadInGame, p, << m >>) = << >>
    <3> HIDE DEF m
    <3> QED BY <2>1, QuietMessage
  <2> HIDE DEF m
  <2> QED BY <2>2, NothingIsWhole
<1>4. CatchUp(p) = b \o t
  BY DEF CatchUp
<1>5. Whole(b \o t) /\ Reach(loadInGame, p, b \o t) = Reach(loadInGame, p, b) \o Reach(loadInGame, p, t)
  <2>1. Whole(b) /\ Whole(t)
    BY <1>2, <1>3
  <2> HIDE DEF b, t
  <2> QED BY ONLY <2>1, WholeConcat
<1>6. Log \o << >> = Log
  BY LogType
<1> HIDE DEF b, t
<1> QED BY <1>2, <1>3, <1>4, <1>5, <1>6

(* With load in game, a player who has loaded the map is sent what it      *)
(* missed, and disappears from the screens of the others.                  *)
LEMMA LoadedCatchesUp ==
  ASSUME Typed, Game, NEW p \in Players, EventPlayerLoaded(p), loadInGame
  PROVE  Game' /\ Same!CatchUp(p)
<1>1. /\ UNCHANGED << loadInGame, gameLoading, present, leftLoading, replay >>
      /\ gameLoading /\ p \in present \ finished /\ finished' = finished \cup {p}
  BY DEF EventPlayerLoaded, recording, counts, Loading
<1>2. Waiting = present \ finished /\ Waiting' = Waiting \ {p} /\ p \in Waiting
  BY <1>1, WhoWaits DEF Waiting, Loading
<1>3. sent[p] = << >> /\ Whole(CatchUp(p)) /\ Reach(loadInGame, p, CatchUp(p)) = Log
  BY <1>2, CatchUpTellsAll DEF Game
<1>4. Log' = Log
  BY <1>1, LogStays
<1>5. sent'[p] = CatchUp(p) /\ buffer'[p] = << >>
  <2>1. sent'[p] = << >> \o CatchUp(p)
    <3> DEFINE c == CatchUp(p)
    <3>1. sent' = [q \in Players |-> CASE q = p -> sent[q] \o c
                                       [] q \in present \cap finished -> Append(sent[q], StopLag(p))
                                       [] OTHER -> sent[q]]
      BY DEF EventPlayerLoaded
    <3> HIDE DEF c
    <3>2. sent'[p] = CASE p = p -> sent[p] \o c
                       [] p \in present \cap finished -> Append(sent[p], StopLag(p))
                       [] OTHER -> sent[p]
      BY <3>1
    <3>3. p \notin present \cap finished
      BY <1>1
    <3>4. sent'[p] = sent[p] \o c
      BY <3>2, <3>3
    <3> QED BY <1>3, <3>4 DEF c
  <2>2. CatchUp(p) \in Seq(Message)
    BY <1>3 DEF Whole
  <2>3. << >> \o CatchUp(p) = CatchUp(p)
    <3> DEFINE c == CatchUp(p)
    <3>1. c \in Seq(Message)
      BY <2>2
    <3>2. << >> \o c = c
      <4> HIDE DEF c
      <4> QED BY ONLY <3>1
    <3> QED BY <3>2
  <2>4. buffer' = [buffer EXCEPT ![p] = << >>]
    BY DEF EventPlayerLoaded
  <2> QED BY <2>1, <2>3, <2>4 DEF Typed
<1>6. ASSUME NEW q \in present \ Waiting
      PROVE  Whole(sent'[q]) /\ Reach(loadInGame, q, sent'[q]) = Log
  <2> DEFINE m == StopLag(p)
             s == sent[q]
  <2>1. q \in Players /\ q # p /\ q \in present \cap finished
    BY <1>2, <1>6 DEF Typed
  <2>2. Whole(s) /\ Reach(loadInGame, q, s) = Log /\ s \in Seq(Message)
    BY <2>1 DEF Game, Typed
  <2>3. m \in Message /\ ~Mattering(loadInGame, m)
    BY MessageTypes DEF Mattering
  <2>4. Whole(<< m >>) /\ Reach(loadInGame, q, << m >>) = << >>
    <3> HIDE DEF m
    <3> QED BY <2>3, QuietMessage
  <2>5. sent'[q] = s \o << m >>
    <3>1. sent'[q] = Append(s, m)
      BY <2>1 DEF EventPlayerLoaded
    <3> HIDE DEF m, s
    <3> QED BY <2>2, <2>3, <3>1, MessagesAssociate
  <2>6. Whole(s \o << m >>)
        /\ Reach(loadInGame, q, s \o << m >>) = Reach(loadInGame, q, s) \o Reach(loadInGame, q, << m >>)
    <3> DEFINE t == << m >>
    <3>1. Whole(s) /\ Whole(t)
      BY <2>2, <2>4
    <3>2. Whole(s \o t) /\ Reach(loadInGame, q, s \o t) = Reach(loadInGame, q, s) \o Reach(loadInGame, q, t)
      <4> HIDE DEF s, t
      <4> QED BY ONLY <3>1, WholeConcat
    <3> QED BY <3>2
  <2>7. Log \o << >> = Log
    BY LogType
  <2> HIDE DEF m, s
  <2> QED BY <2>2, <2>4, <2>5, <2>6, <2>7
<1>7. ASSUME NEW q \in Players, q \notin present \ Waiting, q # p PROVE sent'[q] = sent[q]
  BY <1>2, <1>7 DEF EventPlayerLoaded
<1>8. \A q \in Players : q # p => buffer'[q] = buffer[q]
  BY DEF EventPlayerLoaded, Typed
<1>9. Game'
  <2>1. ASSUME NEW q \in Players PROVE Whole(sent'[q]) /\ Whole(buffer'[q])
    <3>1. Whole(sent[q]) /\ Whole(buffer[q]) /\ Whole(<< >>)
      BY NothingIsWhole DEF Game
    <3> QED BY <1>3, <1>5, <1>6, <1>7, <1>8, <3>1
  <2>2. \A q \in Waiting' : q \in Waiting /\ q # p /\ q \in Players
    BY <1>2, WhoWaits
  <2>3. \A q \in Waiting' : sent'[q] = << >> /\ Reach(loadInGame, q, buffer'[q]) = Log
    BY <1>7, <1>8, <2>2 DEF Game
  <2>4. \A q \in present \ Waiting' : q = p \/ q \in present \ Waiting
    BY <1>2
  <2>5. \A q \in present \ Waiting' : Reach(loadInGame, q, sent'[q]) = Log
    BY <1>3, <1>5, <1>6, <2>4
  <2> QED BY <1>1, <1>4, <2>1, <2>3, <2>5 DEF Game
<1>10. ASSUME NEW q \in Players
       PROVE  Received(q)' = IF q = p THEN Log ELSE Received(q)
  <2>1. Received(q) = Reach(loadInGame, q, sent[q]) /\ Received(q)' = Reach(loadInGame, q, sent'[q])
    BY <1>1 DEF Received, Reaching, Reach, Pieces, Matters, Mattering
  <2>2. q \in present \ Waiting => Reach(loadInGame, q, sent[q]) = Log
    BY DEF Game
  <2> QED BY <1>2, <1>3, <1>5, <1>6, <1>7, <2>1, <2>2
<1>11. Same!CatchUp(p)
  <2> DEFINE r == [q \in Players |-> Received(q)]
  <2>1. r' = [r EXCEPT ![p] = Log]
    BY <1>10
  <2> HIDE DEF r
  <2> QED BY <1>1, <1>2, <1>4, <2>1 DEF Same!CatchUp, Waiting, r
<1> QED BY <1>9, <1>11

(* At first those who load in game are kept that everybody has loaded.     *)
LEMMA InitGame == Init => Game /\ Same!Init
<1> SUFFICES ASSUME Init PROVE Game /\ Same!Init
  OBVIOUS
<1> DEFINE first == [q \in Players |-> LoadedOthers(q)]
<1>1. Typed
  BY InitTyped
<1>2. /\ gameLoading = TRUE /\ present = Players /\ finished = {}
      /\ leftLoading = << >> /\ replay = << >>
      /\ buffer = [p \in Players |-> IF loadInGame THEN first ELSE << >>]
      /\ sent = [p \in Players |-> << >>]
  BY DEF Init
<1>3. /\ first \in Seq(Message) /\ Len(first) = NumPlayers /\ NumPlayers \in Nat
      /\ \A i \in 1 .. Len(first) : first[i].type = "loaded"
  BY UpdatesAssumption, MessageTypes DEF Players
<1>4. Waiting = IF loadInGame THEN Players ELSE {}
  BY <1>2 DEF Waiting, Loading
<1>5. Log = IF loadInGame THEN first ELSE << >>
  <2>1. (first \o << >>) \o << >> = first
    <3> HIDE DEF first
    <3> QED BY <1>3
  <2>2. (<< >> \o << >>) \o << >> = << >>
    OBVIOUS
  <2>3. Log = ((IF loadInGame THEN first ELSE << >>) \o << >>) \o << >>
    BY <1>2 DEF Log
  <2> HIDE DEF first
  <2> QED BY <2>1, <2>2, <2>3
<1>6. Whole(first)
  <2> HIDE DEF first
  <2>1. first # << >> => Len(first) \in 1 .. Len(first)
    BY <1>3
  <2> QED BY <1>3, <2>1 DEF Whole, EndsOverflow
<1>7. ASSUME NEW p \in Players, loadInGame PROVE Reach(loadInGame, p, first) = first
  <2> HIDE DEF first
  <2>1. \A i \in 1 .. Len(first) : Mattering(loadInGame, first[i]) /\ ~BeginsUpdate(first, i)
    BY <1>3, <1>7 DEF Mattering, BeginsUpdate
  <2> QED BY <1>3, <2>1, ReachPlain
<1>8. \A p \in Players : Whole(<< >>) /\ Reach(loadInGame, p, << >>) = << >>
  BY NothingIsWhole
<1>9. Game
  <2> HIDE DEF first
  <2> QED BY <1>2, <1>4, <1>5, <1>6, <1>7, <1>8 DEF Game
<1>10. ASSUME NEW p \in Players PROVE Received(p) = IF p \in Waiting THEN << >> ELSE Log
  <2>1. Received(p) = << >>
    BY <1>2, <1>8, ReachingIsReach DEF Received
  <2> QED BY <1>4, <1>5, <2>1
<1> HIDE DEF first
<1> QED BY <1>2, <1>4, <1>9, <1>10 DEF Same!Init, Waiting

(* Every step keeps the game the same for everybody, and is a step of the  *)
(* broadcast or changes nothing in it.                                     *)
LEMMA StepGame ==
  Typed /\ Game /\ [Next]_vars => Game' /\ [Same!Next]_Same!vars
<1> SUFFICES ASSUME Typed, Game, [Next]_vars PROVE Game' /\ [Same!Next]_Same!vars
  OBVIOUS
<1>1. ASSUME NEW x, Publishes(x) PROVE Game' /\ Same!Next
  <2>1. Game'
    BY <1>1, PublishKeepsGame
  <2>2. Same!Publish
    BY <1>1, PublishIsPublish
  <2> QED BY <2>1, <2>2 DEF Same!Next
<1>2. ASSUME NEW p \in Players, EventPlayerLoaded(p) PROVE Game' /\ Same!Next
  <2>1. CASE loadInGame
    <3>1. Game' /\ Same!CatchUp(p)
      BY <1>2, <2>1, LoadedCatchesUp
    <3> QED BY <3>1 DEF Same!Next
  <2>2. CASE ~loadInGame
    BY <1>1, <1>2, <2>2, LoadedPublishes
  <2> QED BY <2>1, <2>2
<1>3. ASSUME NEW p \in Players, PlayerAction(p) PROVE Game' /\ Same!Next
  BY <1>1, <1>3, PlayerActionPublishes
<1>4. ASSUME NEW p \in Players, EventPlayerDeleted(p) PROVE Game' /\ Same!Next
  <2>1. /\ present' = present \ {p} /\ UNCHANGED << loadInGame, gameLoading, finished >>
        /\ \/ gameLoading /\ loadInGame /\ LeaveWhileLoadingInGame(p)
           \/ gameLoading /\ ~loadInGame /\ LeaveWhileLoading(p)
           \/ ~gameLoading /\ LeaveGame(p, FALSE)
           \/ ~gameLoading /\ LeaveGame(p, TRUE)
    BY <1>4, DeletedCases
  <2>2. \E x : Publishes(x)
    <3>1. CASE gameLoading /\ loadInGame /\ LeaveWhileLoadingInGame(p)
      BY <2>1, <3>1, LeaveLoadingInGamePublishes
    <3>2. CASE gameLoading /\ ~loadInGame /\ LeaveWhileLoading(p)
      BY <2>1, <3>2, LeaveLoadingPublishes
    <3>3. CASE ~gameLoading /\ LeaveGame(p, FALSE)
      BY <2>1, <3>3, LeaveGamePublishes
    <3>4. CASE ~gameLoading /\ LeaveGame(p, TRUE)
      BY <2>1, <3>4, SaveGamePublishes
    <3> QED BY <2>1, <3>1, <3>2, <3>3, <3>4
  <2> QED BY <1>1, <2>2
<1>5. ASSUME EventGameLoaded PROVE Game' /\ Same!Next
  BY <1>1, <1>5, GameLoadedPublishes
<1>6. ASSUME ResetLagScreen PROVE Game' /\ Same!Next
  BY <1>1, <1>6, ResetPublishes
<1>7. ASSUME SendAllActions PROVE Game' /\ Same!Next
  BY <1>1, <1>7, SendAllActionsPublishes
<1>8. ASSUME UNCHANGED vars PROVE Game' /\ UNCHANGED Same!vars
  <2>1. UNCHANGED << loadInGame, gameLoading, present, finished, buffer, sent, leftLoading, replay >>
    BY <1>8 DEF vars, recording
  <2>2. Game'
    BY <2>1 DEF Game, Waiting, Loading, Log
  <2>3. UNCHANGED Same!vars
    BY <2>1 DEF Same!vars, Waiting, Loading, Log, Received, Reaching, Matters
  <2> QED BY <2>2, <2>3
<1> QED BY <1>2, <1>3, <1>4, <1>5, <1>6, <1>7, <1>8 DEF Next

(* Whoever loads, leaves or reconnects when: everybody is sent the same    *)
(* updates and departures in the same order, and the replay tells the same *)
(* game (EventPlayerLoaded, EventPlayerDeleted, SendAllActions, the reset  *)
(* of the load-in-game screen in Update).                                  *)
THEOREM EverybodyHasTheSameGame == Spec => SameGame
<1>1. Init => Typed /\ Numbered /\ Game /\ Same!Init
  BY InitTyped, InitGame
<1>2. Typed /\ Numbered /\ Game /\ [Next]_vars
        => Typed' /\ Numbered' /\ Game' /\ [Same!Next]_Same!vars
  BY StepTyped, StepGame
<1> QED BY <1>1, <1>2, PTL DEF Spec, SameGame, Same!Spec

-----------------------------------------------------------------------------
(* The load-in-game screen.                                                *)

IsForScreen(m) == m.type = "startlag"
Updating(m) == m.type \in {"update", "overflow"}

(* No update is behind a screen that is not taken down before it.          *)
Clear(s) ==
    \A i \in 1 .. Len(s) : \A k \in 1 .. i - 1 : \A q \in Players :
        Updating(s[i]) /\ IsForScreen(s[k]) /\ q \in s[k].who
            => \E j \in k + 1 .. i - 1 : s[j] = StopLag(q)
Shown(s, L) == s \in Seq(Message) /\ Screen(s) = L /\ Clear(s)

(* A screen stays up for those who are not taken from it, and no other.    *)
LEMMA ScreenConcat ==
  ASSUME NEW s \in Seq(Message), NEW t \in Seq(Message),
         \A i \in 1 .. Len(t) : ~IsForScreen(t[i])
  PROVE  Screen(s \o t) = {q \in Screen(s) : \A i \in 1 .. Len(t) : t[i] # StopLag(q)}
<1> DEFINE c == s \o t
<1>1. /\ Len(s) \in Nat /\ Len(t) \in Nat /\ Len(c) = Len(s) + Len(t)
      /\ DOMAIN s = 1 .. Len(s) /\ DOMAIN c = 1 .. Len(c)
      /\ \A i \in 1 .. Len(s) : c[i] = s[i]
      /\ \A i \in 1 .. Len(t) : c[Len(s) + i] = t[i]
      /\ \A i \in Len(s) + 1 .. Len(c) : i - Len(s) \in 1 .. Len(t) /\ c[i] = t[i - Len(s)]
  OBVIOUS
<1> HIDE DEF c
<1>2. ASSUME NEW q \in Screen(c)
      PROVE  q \in Screen(s) /\ \A i \in 1 .. Len(t) : t[i] # StopLag(q)
  <2>1. PICK i \in DOMAIN c : /\ c[i].type = "startlag" /\ q \in c[i].who /\ q \in Players
                              /\ \A j \in i + 1 .. Len(c) : c[j] # StopLag(q)
    BY DEF Screen
  <2>2. i \in 1 .. Len(s)
    <3>1. \A k \in Len(s) + 1 .. Len(c) : ~IsForScreen(c[k])
      BY <1>1
    <3>2. i \notin Len(s) + 1 .. Len(c) /\ i \in 1 .. Len(c)
      BY <1>1, <2>1, <3>1 DEF IsForScreen
    <3> QED BY <1>1, <3>2
  <2>3. \A j \in i + 1 .. Len(s) : j \in i + 1 .. Len(c) /\ j \in 1 .. Len(s)
    BY <1>1, <2>2
  <2>4. \A j \in i + 1 .. Len(s) : s[j] # StopLag(q)
    BY <1>1, <2>1, <2>3
  <2>5. q \in Screen(s)
    BY <1>1, <2>1, <2>2, <2>4 DEF Screen
  <2>6. \A j \in 1 .. Len(t) : Len(s) + j \in i + 1 .. Len(c)
    BY <1>1, <2>2
  <2> QED BY <1>1, <2>1, <2>5, <2>6
<1>3. ASSUME NEW q \in Screen(s), \A i \in 1 .. Len(t) : t[i] # StopLag(q)
      PROVE  q \in Screen(c)
  <2>1. PICK i \in DOMAIN s : /\ s[i].type = "startlag" /\ q \in s[i].who /\ q \in Players
                              /\ \A j \in i + 1 .. Len(s) : s[j] # StopLag(q)
    BY DEF Screen
  <2>2. ASSUME NEW j \in i + 1 .. Len(c) PROVE c[j] # StopLag(q)
    <3>1. CASE j <= Len(s)
      <4>1. j \in i + 1 .. Len(s) /\ j \in 1 .. Len(s)
        BY <1>1, <2>1, <3>1
      <4> QED BY <1>1, <2>1, <4>1
    <3>2. CASE j > Len(s)
      <4>1. j \in Len(s) + 1 .. Len(c)
        BY <1>1, <2>1, <3>2
      <4> QED BY <1>1, <1>3, <4>1
    <3> QED BY <1>1, <2>1, <3>1, <3>2
  <2>3. i \in DOMAIN c /\ c[i] = s[i]
    BY <1>1, <2>1
  <2> QED BY <2>1, <2>2, <2>3 DEF Screen
<1>4. Screen(s) \subseteq Players
  BY DEF Screen
<1> QED BY <1>2, <1>3 DEF c

(* Messages without a new screen leave it up for those they do not take    *)
(* from it, when they hold no update or there is no screen.                *)
LEMMA ShownConcat ==
  ASSUME NEW L, NEW s, Shown(s, L), NEW t \in Seq(Message),
         \A i \in 1 .. Len(t) : ~IsForScreen(t[i]),
         L = {} \/ \A i \in 1 .. Len(t) : ~Updating(t[i])
  PROVE  Shown(s \o t, {q \in L : \A i \in 1 .. Len(t) : t[i] # StopLag(q)})
<1> DEFINE c == s \o t
<1>1. s \in Seq(Message) /\ Screen(s) = L /\ Clear(s)
  BY DEF Shown
<1>2. /\ c \in Seq(Message) /\ Len(s) \in Nat /\ Len(t) \in Nat /\ Len(c) = Len(s) + Len(t)
      /\ DOMAIN s = 1 .. Len(s)
      /\ \A i \in 1 .. Len(s) : c[i] = s[i]
      /\ \A i \in Len(s) + 1 .. Len(c) : i - Len(s) \in 1 .. Len(t) /\ c[i] = t[i - Len(s)]
  BY <1>1
<1>3. Screen(c) = {q \in L : \A i \in 1 .. Len(t) : t[i] # StopLag(q)}
  BY <1>1, ScreenConcat
<1> HIDE DEF c
<1>4. ASSUME NEW i \in 1 .. Len(c), NEW k \in 1 .. i - 1, NEW q \in Players,
             Updating(c[i]), IsForScreen(c[k]), q \in c[k].who
      PROVE  \E j \in k + 1 .. i - 1 : c[j] = StopLag(q)
  <2>1. k \in 1 .. Len(s) /\ c[k] = s[k] /\ k \in 1 .. Len(c)
    BY <1>2, <1>4
  <2>2. CASE i <= Len(s)
    <3>1. i \in 1 .. Len(s) /\ c[i] = s[i]
      BY <1>2, <2>2
    <3>2. PICK j \in k + 1 .. i - 1 : s[j] = StopLag(q)
      BY <1>1, <1>4, <2>1, <3>1 DEF Clear
    <3>3. j \in 1 .. Len(s)
      BY <2>1, <3>1, <3>2
    <3> QED BY <1>2, <3>2, <3>3
  <2>3. CASE i > Len(s)
    <3>1. i \in Len(s) + 1 .. Len(c)
      BY <1>2, <2>3
    <3>2. q \notin Screen(s)
      BY <1>1, <1>2, <1>4, <3>1
    <3>3. PICK j \in k + 1 .. Len(s) : s[j] = StopLag(q)
      BY <1>2, <1>4, <2>1, <3>2 DEF Screen, IsForScreen
    <3>4. j \in 1 .. Len(s) /\ j \in k + 1 .. i - 1
      BY <1>2, <2>1, <3>1, <3>3
    <3> QED BY <1>2, <3>3, <3>4
  <2> QED BY <1>2, <2>2, <2>3
<1>5. Clear(c)
  BY <1>4 DEF Clear
<1> QED BY <1>2, <1>3, <1>5 DEF Shown, c

(* Where there was no screen, a new one shows whom it names.               *)
LEMMA ShownStart ==
  ASSUME NEW s, Shown(s, {}), NEW L \in SUBSET Players
  PROVE  Shown(s \o << StartLag(L) >>, L)
<1> DEFINE m == StartLag(L)
           c == s \o << m >>
<1>1. s \in Seq(Message) /\ Screen(s) = {} /\ Clear(s)
  BY DEF Shown
<1>2. m \in Message /\ m.type = "startlag" /\ m.who = L
  BY MessageTypes DEF StartLag
<1>3. /\ c \in Seq(Message) /\ Len(s) \in Nat /\ Len(c) = Len(s) + 1
      /\ DOMAIN s = 1 .. Len(s) /\ DOMAIN c = 1 .. Len(c)
      /\ \A i \in 1 .. Len(s) : c[i] = s[i]
      /\ c[Len(c)] = m
  <2> HIDE DEF m
  <2> QED BY <1>1, <1>2
<1> HIDE DEF m, c
<1>4. ASSUME NEW q \in L PROVE q \in Screen(c)
  BY <1>2, <1>3 DEF Screen
<1>5. ASSUME NEW q \in Screen(c) PROVE q \in L
  <2>1. PICK i \in 1 .. Len(c) : /\ c[i].type = "startlag" /\ q \in c[i].who /\ q \in Players
                                 /\ \A j \in i + 1 .. Len(c) : c[j] # StopLag(q)
    BY <1>3 DEF Screen
  <2>2. CASE i = Len(c)
    BY <1>2, <1>3, <2>1, <2>2
  <2>3. CASE i # Len(c)
    <3>1. i \in 1 .. Len(s)
      BY <1>3, <2>1, <2>3
    <3>2. \A j \in i + 1 .. Len(s) : j \in i + 1 .. Len(c) /\ j \in 1 .. Len(s)
      BY <1>3, <3>1
    <3>3. \A j \in i + 1 .. Len(s) : s[j] # StopLag(q)
      BY <1>3, <2>1, <3>2
    <3>4. q \in Screen(s)
      BY <1>3, <2>1, <3>1, <3>3 DEF Screen
    <3> QED BY <1>1, <3>4
  <2> QED BY <2>2, <2>3
<1>6. ASSUME NEW i \in 1 .. Len(c), NEW k \in 1 .. i - 1, NEW q \in Players,
             Updating(c[i]), IsForScreen(c[k]), q \in c[k].who
      PROVE  \E j \in k + 1 .. i - 1 : c[j] = StopLag(q)
  <2>1. i # Len(c)
    BY <1>2, <1>3, <1>6 DEF Updating
  <2>2. i \in 1 .. Len(s) /\ k \in 1 .. Len(s) /\ c[i] = s[i] /\ c[k] = s[k]
    BY <1>3, <2>1
  <2>3. PICK j \in k + 1 .. i - 1 : s[j] = StopLag(q)
    BY <1>1, <1>6, <2>2 DEF Clear
  <2>4. j \in 1 .. Len(s)
    BY <2>2, <2>3
  <2> QED BY <1>3, <2>3, <2>4
<1>7. Clear(c)
  BY <1>6 DEF Clear
<1> QED BY <1>3, <1>4, <1>5, <1>7 DEF Shown, c, m

(* Nothing has been sent: there is no screen.                              *)
LEMMA NothingIsShown == Shown(<< >>, {})
<1> DEFINE none == << >>
<1>1. none \in Seq(Message) /\ Len(none) = 0 /\ DOMAIN none = {}
  OBVIOUS
<1> HIDE DEF none
<1>2. Shown(none, {})
  BY <1>1 DEF Shown, Screen, Clear
<1> QED BY <1>2 DEF none

(* Where there is no screen, updates and departures put none up.           *)
LEMMA ShownUpdates ==
  ASSUME NEW s, Shown(s, {}), NEW t \in Seq(Message), \A i \in 1 .. Len(t) : ~IsForScreen(t[i])
  PROVE  Shown(s \o t, {})
<1>1. Shown(s \o t, {q \in {} : \A i \in 1 .. Len(t) : t[i] # StopLag(q)})
  BY ShownConcat
<1>2. {q \in {} : \A i \in 1 .. Len(t) : t[i] # StopLag(q)} = {}
  OBVIOUS
<1> QED BY <1>1, <1>2

(* What is shown is what LoadScreenRight asks for.                         *)
LEMMA ShownIsClear ==
  ASSUME NEW L, NEW s, Shown(s, L), NEW i \in DOMAIN s, Updating(s[i])
  PROVE  Screen(SubSeq(s, 1, i - 1)) = {}
<1> DEFINE t == SubSeq(s, 1, i - 1)
<1>1. s \in Seq(Message) /\ Clear(s) /\ i \in 1 .. Len(s)
  BY DEF Shown
<1>2. Len(t) = i - 1 /\ DOMAIN t = 1 .. i - 1 /\ \A k \in 1 .. i - 1 : t[k] = s[k]
  BY <1>1
<1> HIDE DEF t
<1>3. ASSUME NEW q \in Screen(t) PROVE FALSE
  <2>1. PICK k \in 1 .. i - 1 : /\ t[k].type = "startlag" /\ q \in t[k].who /\ q \in Players
                                /\ \A j \in k + 1 .. Len(t) : t[j] # StopLag(q)
    BY <1>2, <1>3 DEF Screen
  <2>2. s[k].type = "startlag" /\ q \in s[k].who
    BY <1>2, <2>1
  <2>3. PICK j \in k + 1 .. i - 1 : s[j] = StopLag(q)
    BY <1>1, <2>1, <2>2 DEF Clear, IsForScreen
  <2>4. j \in 1 .. i - 1
    BY <1>1, <2>1, <2>3
  <2> QED BY <1>2, <2>1, <2>3, <2>4
<1> QED BY <1>3 DEF t

(* The players who have loaded see who is loading; what is kept puts no    *)
(* screen up; and the counters are within the bounds.                      *)
Kept == {"loaded", "leave", "update"}
Screens ==
    /\ loadInGame => \A p \in present \cap finished : Shown(sent[p], Loading)
    /\ \A p \in Players : \A i \in 1 .. Len(buffer[p]) : buffer[p][i].type \in Kept
    /\ \A i \in 1 .. Len(leftLoading) : leftLoading[i].type = "leave"
    /\ accepted <= MaxActions + Cardinality(Players \ present)
    /\ updates \in 0 .. MaxUpdates /\ resets \in 0 .. MaxResets

(* Who leaves makes room for one more action.                              *)
LEMMA OneLess ==
  ASSUME Typed, NEW p \in present
  PROVE  /\ Cardinality(Players \ present) \in 0 .. NumPlayers /\ NumPlayers \in Nat
         /\ MaxActions \in Nat
         /\ Cardinality(Players \ (present \ {p})) = Cardinality(Players \ present) + 1
<1>1. IsFiniteSet(Players) /\ Cardinality(Players) = NumPlayers /\ NumPlayers \in Nat
  BY FinitelyManyPlayers, UpdatesAssumption
<1> DEFINE S == Players \ present
<1>2. S \subseteq Players /\ p \notin S /\ Players \ (present \ {p}) = S \cup {p}
  BY DEF Typed
<1> HIDE DEF S
<1>3. IsFiniteSet(S) /\ Cardinality(S) \in Nat /\ Cardinality(S) <= Cardinality(Players)
  BY <1>1, <1>2, FS_Subset, FS_CardinalityType
<1>4. Cardinality(S \cup {p}) = Cardinality(S) + 1
  BY <1>2, <1>3, FS_AddElement
<1>5. MaxActions \in Nat
  BY BoundsAssumption
<1> QED BY <1>1, <1>2, <1>3, <1>4, <1>5 DEF S

(* There are at most as many who have left as players.                     *)
LEMMA LeftAtMostAll ==
  ASSUME Typed
  PROVE  Cardinality(Players \ present) \in 0 .. NumPlayers
<1>1. IsFiniteSet(Players) /\ Cardinality(Players) = NumPlayers /\ NumPlayers \in Nat
  BY FinitelyManyPlayers, UpdatesAssumption
<1>2. Players \ present \subseteq Players
  OBVIOUS
<1>3. /\ Cardinality(Players \ present) \in Nat
      /\ Cardinality(Players \ present) <= Cardinality(Players)
  BY <1>1, <1>2, FS_Subset, FS_CardinalityType
<1> QED BY <1>1, <1>3

(* The invariants give what the run checks.                                *)
LEMMA ScreensRight == Typed /\ Screens => ScreensOK
<1> SUFFICES ASSUME Typed, Screens PROVE ScreensOK
  OBVIOUS
<1>1. LoadScreenRight
  <2> SUFFICES ASSUME loadInGame, NEW p \in present \cap finished
               PROVE  /\ Screen(sent[p]) = Loading
                      /\ \A i \in DOMAIN sent[p] :
                           sent[p][i].type \in {"update", "overflow"}
                              => Screen(SubSeq(sent[p], 1, i - 1)) = {}
    BY DEF LoadScreenRight
  <2>1. Shown(sent[p], Loading)
    BY DEF Screens
  <2>2. \A i \in DOMAIN sent[p] : Updating(sent[p][i]) => Screen(SubSeq(sent[p], 1, i - 1)) = {}
    BY <2>1, ShownIsClear
  <2>3. Screen(sent[p]) = Loading
    BY <2>1 DEF Shown
  <2> QED BY <2>2, <2>3 DEF Updating
<1>2. TypeOK
  <2>1. \A p \in Players : \A i \in DOMAIN buffer[p] :
           buffer[p][i].type \in {"loaded", "leave", "update"}
    <3>1. \A p \in Players : DOMAIN buffer[p] = 1 .. Len(buffer[p])
      BY DEF Typed
    <3> QED BY <3>1 DEF Screens, Kept
  <2>2. \A i \in DOMAIN replay : replay[i].type \in {"leave", "update", "overflow"}
    <3>1. \A i \in DOMAIN replay : replay[i] \in GameMessage
      BY DEF Typed
    <3> QED BY <3>1 DEF GameMessage
  <2>3. \A i \in DOMAIN leftLoading : leftLoading[i].type = "leave"
    <3>1. DOMAIN leftLoading = 1 .. Len(leftLoading)
      BY DEF Typed
    <3> QED BY <3>1 DEF Screens
  <2>4. accepted \in 0 .. MaxActions + NumPlayers
    <3>1. Cardinality(Players \ present) \in 0 .. NumPlayers
      BY LeftAtMostAll
    <3>2. NumPlayers \in Nat /\ MaxActions \in Nat
      BY UpdatesAssumption, BoundsAssumption
    <3> QED BY <3>1, <3>2 DEF Screens, Typed
  <2> QED BY <2>1, <2>2, <2>3, <2>4 DEF TypeOK, Typed, Screens
<1> QED BY <1>1, <1>2 DEF ScreensOK

(* A game starts.                                                          *)
LEMMA InitScreens == Init => Screens
<1> SUFFICES ASSUME Init PROVE Screens
  OBVIOUS
<1> DEFINE first == [q \in Players |-> LoadedOthers(q)]
<1>1. first \in Seq(Message) /\ \A i \in 1 .. Len(first) : first[i].type = "loaded"
  BY UpdatesAssumption, MessageTypes DEF Players
<1>2. /\ finished = {} /\ present = Players /\ leftLoading = << >>
      /\ accepted = 0 /\ updates = 0 /\ resets = 0
      /\ buffer = [p \in Players |-> IF loadInGame THEN first ELSE << >>]
  BY DEF Init
<1>3. Len(<< >>) = 0 /\ MaxActions \in Nat /\ MaxUpdates \in Nat /\ MaxResets \in Nat
  BY BoundsAssumption
<1>4. Cardinality(Players \ present) \in 0 .. NumPlayers /\ NumPlayers \in Nat
  BY InitTyped, LeftAtMostAll, UpdatesAssumption
<1> HIDE DEF first
<1>5. \A p \in Players : \A i \in 1 .. Len(buffer[p]) : buffer[p][i].type \in Kept
  BY <1>1, <1>2, <1>3 DEF Kept
<1>6. /\ accepted <= MaxActions + Cardinality(Players \ present)
      /\ updates \in 0 .. MaxUpdates /\ resets \in 0 .. MaxResets
  BY <1>2, <1>3, <1>4
<1>7. \A i \in 1 .. Len(leftLoading) : leftLoading[i].type = "leave"
  BY <1>2, <1>3
<1> QED BY <1>2, <1>5, <1>6, <1>7 DEF Screens

(* One more message is kept.                                               *)
LEMMA KeptConcat ==
  ASSUME NEW s \in Seq(Message), \A i \in 1 .. Len(s) : s[i].type \in Kept,
         NEW t \in Seq(Message), \A i \in 1 .. Len(t) : t[i].type \in Kept
  PROVE  \A i \in 1 .. Len(s \o t) : (s \o t)[i].type \in Kept
<1> DEFINE c == s \o t
<1>1. /\ Len(s) \in Nat /\ Len(t) \in Nat /\ Len(c) = Len(s) + Len(t)
      /\ \A i \in 1 .. Len(s) : c[i] = s[i]
      /\ \A i \in Len(s) + 1 .. Len(c) : i - Len(s) \in 1 .. Len(t) /\ c[i] = t[i - Len(s)]
  OBVIOUS
<1>2. \A i \in 1 .. Len(c) : i \in 1 .. Len(s) \/ i \in Len(s) + 1 .. Len(c)
  BY <1>1
<1> HIDE DEF c
<1>3. \A i \in 1 .. Len(c) : c[i].type \in Kept
  BY <1>1, <1>2
<1> QED BY <1>3 DEF c

(* A message that is no screen is one.                                     *)
LEMMA OneMessage ==
  ASSUME NEW m \in Message
  PROVE  << m >> \in Seq(Message) /\ \A i \in 1 .. Len(<< m >>) : << m >>[i] = m
OBVIOUS

(* A departure puts no screen up and takes nobody from one.                *)
LEMMA LeaveIsShown ==
  ASSUME NEW p \in Players, NEW L, NEW s, Shown(s, L)
  PROVE  Shown(s \o << Leave(p) >>, L)
<1> DEFINE m == Leave(p)
           t == << m >>
<1>1. m \in Message /\ m.type = "leave" /\ t \in Seq(Message) /\ \A i \in 1 .. Len(t) : t[i] = m
  <2>1. m \in Message /\ m.type = "leave"
    BY MessageTypes
  <2> HIDE DEF m
  <2> QED BY <2>1, OneMessage
<1>2. \A q \in Players : m # StopLag(q)
  BY <1>1, MessageTypes
<1>3. L \subseteq Players
  BY DEF Shown, Screen
<1> HIDE DEF m, t
<1>4. \A i \in 1 .. Len(t) : ~IsForScreen(t[i]) /\ ~Updating(t[i])
  BY <1>1 DEF IsForScreen, Updating
<1>5. Shown(s \o t, {q \in L : \A i \in 1 .. Len(t) : t[i] # StopLag(q)})
  BY <1>1, <1>4, ShownConcat
<1>6. {q \in L : \A i \in 1 .. Len(t) : t[i] # StopLag(q)} = L
  BY <1>1, <1>2, <1>3
<1> QED BY <1>5, <1>6 DEF m, t

(* A player who has loaded is taken from a screen.                         *)
LEMMA StopIsShown ==
  ASSUME NEW p \in Players, NEW L, NEW s, Shown(s, L)
  PROVE  Shown(s \o << StopLag(p) >>, L \ {p})
<1> DEFINE m == StopLag(p)
           t == << m >>
<1>1. /\ m \in Message /\ m.type = "stoplag" /\ t \in Seq(Message)
      /\ Len(t) = 1 /\ t[1] = m /\ \A i \in 1 .. Len(t) : t[i] = m
  <2>1. m \in Message /\ m.type = "stoplag"
    BY MessageTypes
  <2> HIDE DEF m
  <2> QED BY <2>1, OneMessage
<1>2. \A q \in Players : m = StopLag(q) <=> q = p
  BY DEF StopLag
<1>3. L \subseteq Players
  BY DEF Shown, Screen
<1> HIDE DEF m, t
<1>4. \A i \in 1 .. Len(t) : ~IsForScreen(t[i]) /\ ~Updating(t[i])
  BY <1>1 DEF IsForScreen, Updating
<1>5. Shown(s \o t, {q \in L : \A i \in 1 .. Len(t) : t[i] # StopLag(q)})
  BY <1>1, <1>4, ShownConcat
<1>6. {q \in L : \A i \in 1 .. Len(t) : t[i] # StopLag(q)} = L \ {p}
  BY <1>1, <1>2, <1>3
<1> QED BY <1>5, <1>6 DEF m, t

(* An update with the empty ones ahead of it is no screen.                 *)
LEMMA UpdatesAreNoScreens ==
  ASSUME NEW p \in Players, NEW u, IsUpdate(u)
  PROVE  /\ EmptiesFor(p) \o u \in Seq(Message)
         /\ \A i \in 1 .. Len(EmptiesFor(p) \o u) : ~IsForScreen((EmptiesFor(p) \o u)[i])
         /\ \A i \in 1 .. Len(u) : Updating(u[i])
<1> DEFINE e == EmptiesFor(p)
           c == e \o u
<1>1. e \in Seq(Message) /\ \A i \in 1 .. Len(e) : e[i].type = "update"
  BY SentTypes, EmptyUpdateType, GameMessagesAreMessages DEF EmptyUpdatesOnly
<1>2. u \in Seq(Message) /\ \A i \in 1 .. Len(u) : u[i].type \in {"update", "overflow"}
  <2>1. u \in Seq(Message) /\ u[Len(u)].type = "update"
        /\ \A i \in 1 .. Len(u) - 1 : u[i].type = "overflow"
    BY DEF IsUpdate
  <2>2. \A j \in 1 .. Len(u) : j = Len(u) \/ j \in 1 .. Len(u) - 1
    BY <2>1
  <2> QED BY <2>1, <2>2
<1> HIDE DEF e
<1>3. /\ c \in Seq(Message) /\ Len(e) \in Nat /\ Len(u) \in Nat /\ Len(c) = Len(e) + Len(u)
      /\ \A i \in 1 .. Len(e) : c[i] = e[i]
      /\ \A i \in Len(e) + 1 .. Len(c) : i - Len(e) \in 1 .. Len(u) /\ c[i] = u[i - Len(e)]
  BY <1>1, <1>2
<1>4. \A i \in 1 .. Len(c) : i \in 1 .. Len(e) \/ i \in Len(e) + 1 .. Len(c)
  BY <1>3
<1> HIDE DEF c
<1>5. \A i \in 1 .. Len(c) : ~IsForScreen(c[i])
  BY <1>1, <1>2, <1>3, <1>4 DEF IsForScreen
<1>6. \A i \in 1 .. Len(u) : Updating(u[i])
  BY <1>2 DEF Updating
<1> QED BY <1>3, <1>5, <1>6 DEF c, e

(* Without a screen, an update puts none up.                               *)
LEMMA UpdateIsShown ==
  ASSUME NEW p \in Players, NEW u, IsUpdate(u), NEW s, Shown(s, {})
  PROVE  Shown(s \o (EmptiesFor(p) \o u), {})
<1> DEFINE t == EmptiesFor(p) \o u
<1>1. t \in Seq(Message) /\ \A i \in 1 .. Len(t) : ~IsForScreen(t[i])
  BY UpdatesAreNoScreens
<1> HIDE DEF t
<1>2. Shown(s \o t, {})
  BY <1>1, ShownUpdates
<1> QED BY <1>2 DEF t

(* A reset shows those who are loading again, behind the update.           *)
LEMMA ResetIsShown ==
  ASSUME Typed, NEW p \in Players, NEW s, Shown(s, Loading)
  PROVE  Shown(s \o Reset(p), Loading)
<1> DEFINE k == EmptiesFor(p) \o EmptyUpdate
           screen == << StartLag(Loading) >>
<1>1. Stops \in Seq(Message) /\ EmptiesFor(p) \in Seq(Message) /\ EmptyUpdate \in Seq(Message)
      /\ IsUpdate(EmptyUpdate) /\ Loading \in SUBSET Players /\ s \in Seq(Message)
  <2>1. Stops \in Seq(Message)
    BY StopsAreAll
  <2>2. EmptiesFor(p) \in Seq(Message) /\ EmptyUpdate \in Seq(Message) /\ IsUpdate(EmptyUpdate)
    BY SentTypes, GameMessagesAreMessages DEF EmptyUpdatesOnly
  <2> QED BY <2>1, <2>2 DEF Shown, Loading, Typed
<1>2. k \in Seq(Message) /\ screen \in Seq(Message)
  BY <1>1, MessageTypes
<1>3. Shown(s \o Stops, {})
  <2>1. \A i \in 1 .. Len(Stops) : ~IsForScreen(Stops[i]) /\ ~Updating(Stops[i])
    <3>1. \A i \in 1 .. Len(Stops) : \E q \in Loading : Stops[i] = StopLag(q)
      BY StopsAreAll
    <3>2. \A q \in Loading : StopLag(q).type = "stoplag"
      BY <1>1, MessageTypes
    <3>3. \A i \in 1 .. Len(Stops) : Stops[i].type = "stoplag"
      BY <3>1, <3>2
    <3> QED BY <3>3 DEF IsForScreen, Updating
  <2>2. Shown(s \o Stops, {q \in Loading : \A i \in 1 .. Len(Stops) : Stops[i] # StopLag(q)})
    BY <1>1, <2>1, ShownConcat
  <2>3. {q \in Loading : \A i \in 1 .. Len(Stops) : Stops[i] # StopLag(q)} = {}
    BY StopsAreAll
  <2> QED BY <2>2, <2>3
<1>4. Shown((s \o Stops) \o k, {})
  BY <1>1, <1>3, UpdateIsShown
<1>5. Shown(((s \o Stops) \o k) \o screen, Loading)
  <2> DEFINE c == (s \o Stops) \o k
  <2>1. Shown(c, {})
    BY <1>4
  <2>2. Shown(c \o screen, Loading)
    <3> HIDE DEF c
    <3> QED BY <1>1, <2>1, ShownStart
  <2> QED BY <2>2
<1>6. Reset(p) = (Stops \o k) \o screen
  <2>1. (Stops \o EmptiesFor(p)) \o EmptyUpdate = Stops \o k
    BY <1>1, MessagesAssociate
  <2> QED BY <2>1 DEF Reset
<1>7. s \o ((Stops \o k) \o screen) = ((s \o Stops) \o k) \o screen
  <2> DEFINE a == Stops
  <2>1. s \in Seq(Message) /\ a \in Seq(Message) /\ k \in Seq(Message) /\ screen \in Seq(Message)
    BY <1>1, <1>2
  <2>2. s \o ((a \o k) \o screen) = ((s \o a) \o k) \o screen
    <3> HIDE DEF a, k, screen
    <3>1. (s \o a) \o k = s \o (a \o k)
      BY <2>1, MessagesAssociate
    <3> DEFINE e == a \o k
    <3>2. e \in Seq(Message)
      BY <2>1
    <3>3. (s \o e) \o screen = s \o (e \o screen)
      <4> HIDE DEF e
      <4> QED BY <2>1, <3>2, MessagesAssociate
    <3> QED BY <3>1, <3>3
  <2> QED BY <2>2
<1> HIDE DEF k, screen
<1> QED BY <1>5, <1>6, <1>7

(* What a player who has loaded is sent puts the screen up for the others. *)
LEMMA CatchUpIsShown ==
  ASSUME Typed, Screens, NEW p \in Loading
  PROVE  Shown(CatchUp(p), Loading \ {p})
<1> DEFINE b == buffer[p]
           m == StartLag(Loading \ {p})
<1>1. p \in Players /\ b \in Seq(Message) /\ Loading \ {p} \in SUBSET Players
  BY DEF Typed, Loading
<1>2. \A i \in 1 .. Len(b) : ~IsForScreen(b[i])
  BY <1>1 DEF Screens, Kept, IsForScreen
<1>3. Shown(b, {})
  <2> HIDE DEF b
  <2> DEFINE none == << >>
  <2>1. Shown(none, {})
    BY NothingIsShown
  <2>2. none \o b = b
    BY ONLY <1>1
  <2> HIDE DEF none
  <2>3. Shown(none \o b, {})
    BY <1>1, <1>2, <2>1, ShownUpdates
  <2> QED BY <2>2, <2>3
<1>4. CASE Loading # {p}
  <2>1. CatchUp(p) = b \o << m >>
    BY <1>4 DEF CatchUp
  <2>2. Shown(b \o << m >>, Loading \ {p})
    <3> HIDE DEF b
    <3> QED BY <1>1, <1>3, ShownStart
  <2> QED BY <2>1, <2>2
<1>5. CASE Loading = {p}
  <2>1. CatchUp(p) = b \o << >>
    BY <1>5 DEF CatchUp
  <2>2. b \o << >> = b
    <3> HIDE DEF b
    <3> QED BY ONLY <1>1
  <2>3. Loading \ {p} = {}
    BY <1>5
  <2> HIDE DEF b
  <2> QED BY <1>3, <2>1, <2>2, <2>3
<1> QED BY <1>4, <1>5

(* A player has loaded the map.                                            *)
LEMMA LoadedShows ==
  ASSUME Typed, Game, Screens, NEW p \in Players, EventPlayerLoaded(p)
  PROVE  Screens'
<1>1. /\ UNCHANGED << loadInGame, gameLoading, present, leftLoading, accepted, updates, resets >>
      /\ gameLoading /\ p \in Loading /\ p \in present /\ p \notin finished
      /\ finished' = finished \cup {p} /\ Loading' = Loading \ {p}
  BY DEF EventPlayerLoaded, recording, counts, Loading
<1>2. ASSUME loadInGame
      PROVE  /\ \A q \in present \cap finished : sent'[q] = sent[q] \o << StopLag(p) >>
             /\ sent'[p] = CatchUp(p) /\ buffer'[p] = << >>
             /\ \A q \in Players : q # p => buffer'[q] = buffer[q]
  <2>1. ASSUME NEW q \in present \cap finished PROVE sent'[q] = sent[q] \o << StopLag(p) >>
    <3> DEFINE m == StopLag(p)
               s == sent[q]
    <3>1. q \in Players /\ q # p /\ s \in Seq(Message) /\ m \in Message
      BY <1>1, MessageTypes DEF Typed
    <3>2. sent'[q] = Append(s, m)
      BY <1>2, <3>1 DEF EventPlayerLoaded
    <3>3. Append(s, m) = s \o << m >>
      <4> HIDE DEF s, m
      <4> QED BY ONLY <3>1
    <3> QED BY <3>2, <3>3
  <2>2. sent'[p] = CatchUp(p)
    <3> DEFINE c == CatchUp(p)
    <3>1. sent' = [q \in Players |-> CASE q = p -> sent[q] \o c
                                       [] q \in present \cap finished -> Append(sent[q], StopLag(p))
                                       [] OTHER -> sent[q]]
      BY <1>2 DEF EventPlayerLoaded
    <3>2. p \in Waiting
      BY <1>1, <1>2 DEF Waiting
    <3>3. sent[p] = << >> /\ c \in Seq(Message)
      BY <3>2, CatchUpTellsAll DEF Game, Whole
    <3> HIDE DEF c
    <3>4. sent'[p] = CASE p = p -> sent[p] \o c
                       [] p \in present \cap finished -> Append(sent[p], StopLag(p))
                       [] OTHER -> sent[p]
      BY <3>1
    <3>5. sent'[p] = sent[p] \o c
      BY <1>1, <3>4
    <3>6. << >> \o c = c
      BY ONLY <3>3
    <3> QED BY <3>3, <3>5, <3>6 DEF c
  <2>3. buffer' = [buffer EXCEPT ![p] = << >>]
    BY <1>2 DEF EventPlayerLoaded
  <2> QED BY <2>1, <2>2, <2>3 DEF Typed
<1>3. ASSUME loadInGame, NEW q \in present' \cap finished' PROVE Shown(sent'[q], Loading')
  <2>1. CASE q = p
    BY <1>1, <1>2, <1>3, <2>1, CatchUpIsShown
  <2>2. CASE q # p
    <3>1. q \in present \cap finished
      BY <1>1, <1>3, <2>2
    <3>2. Shown(sent[q], Loading)
      BY <1>3, <3>1 DEF Screens
    <3>3. Shown(sent[q] \o << StopLag(p) >>, Loading \ {p})
      BY <3>2, StopIsShown
    <3> QED BY <1>1, <1>2, <1>3, <3>1, <3>3
  <2> QED BY <2>1, <2>2
<1>4. ASSUME NEW q \in Players PROVE \A i \in 1 .. Len(buffer'[q]) : buffer'[q][i].type \in Kept
  <2>1. buffer'[q] = buffer[q] \/ buffer'[q] = << >>
    BY <1>2 DEF EventPlayerLoaded
  <2>2. Len(<< >>) = 0
    OBVIOUS
  <2> QED BY <2>1, <2>2 DEF Screens
<1> QED BY <1>1, <1>3, <1>4 DEF Screens

(* The lag screen is reset.                                                *)
LEMMA ResetShows ==
  ASSUME Typed, Screens, ResetLagScreen
  PROVE  Screens'
<1>1. /\ UNCHANGED << loadInGame, gameLoading, present, finished, leftLoading, accepted, updates >>
      /\ loadInGame /\ Loading' = Loading /\ resets < MaxResets /\ resets' = resets + 1
  BY DEF ResetLagScreen, Loading
<1>2. ASSUME NEW q \in present \cap finished PROVE Shown(sent'[q], Loading)
  <2>1. q \in Players /\ sent'[q] = sent[q] \o Reset(q) /\ Shown(sent[q], Loading)
    BY <1>1 DEF ResetLagScreen, Typed, Screens
  <2> QED BY <2>1, ResetIsShown
<1>3. ASSUME NEW q \in Players PROVE \A i \in 1 .. Len(buffer'[q]) : buffer'[q][i].type \in Kept
  <2> DEFINE b == buffer[q]
             t == KeptUpdate(q)
  <2>1. b \in Seq(Message) /\ \A i \in 1 .. Len(b) : b[i].type \in Kept
    BY DEF Typed, Screens
  <2>2. t \in Seq(Message) /\ \A i \in 1 .. Len(t) : t[i].type \in Kept
    <3> DEFINE e == EmptiesFor(q)
               u == EmptyUpdate
    <3>1. e \in Seq(Message) /\ \A i \in 1 .. Len(e) : e[i].type \in Kept
      BY SentTypes, EmptyUpdateType, GameMessagesAreMessages DEF EmptyUpdatesOnly, Kept
    <3>2. u \in Seq(Message) /\ \A i \in 1 .. Len(u) : u[i].type \in Kept
      BY SentTypes, EmptyUpdateType, GameMessagesAreMessages DEF EmptyUpdatesOnly, Kept
    <3>3. e \o u \in Seq(Message) /\ \A i \in 1 .. Len(e \o u) : (e \o u)[i].type \in Kept
      <4> HIDE DEF e, u
      <4> QED BY <3>1, <3>2, KeptConcat
    <3> QED BY <3>3 DEF KeptUpdate
  <2>3. buffer'[q] = b \o t \/ buffer'[q] = b
    BY DEF ResetLagScreen
  <2>4. \A i \in 1 .. Len(b \o t) : (b \o t)[i].type \in Kept
    <3> HIDE DEF b, t
    <3> QED BY <2>1, <2>2, KeptConcat
  <2> HIDE DEF b, t
  <2> QED BY <2>1, <2>3, <2>4
<1>4. resets' \in 0 .. MaxResets
  BY <1>1, BoundsAssumption DEF Screens
<1> QED BY <1>1, <1>2, <1>3, <1>4 DEF Screens

(* The actions are sent.                                                   *)
LEMMA SendAllActionsShows ==
  ASSUME Typed, Game, Screens, SendAllActions
  PROVE  Screens'
<1>1. /\ UNCHANGED << loadInGame, gameLoading, present, finished, buffer, leftLoading, accepted,
                      resets >>
      /\ ~gameLoading /\ Loading = {} /\ Loading' = Loading
      /\ updates < MaxUpdates /\ updates' = updates + 1
  BY DEF SendAllActions, Loading, Game
<1> DEFINE u == UpdateOf(actions)
<1>2. IsUpdate(u)
  BY UpdateOfQueue DEF Typed
<1>3. ASSUME loadInGame, NEW q \in present \cap finished PROVE Shown(sent'[q], {})
  <2>1. q \in Players /\ Shown(sent[q], {})
    BY <1>1, <1>3 DEF Typed, Screens
  <2>2. sent'[q] = sent[q] \o (EmptiesFor(q) \o u)
    BY <2>1 DEF SendAllActions, UpdateFor
  <2> HIDE DEF u
  <2> QED BY <1>2, <2>1, <2>2, UpdateIsShown
<1>4. updates' \in 0 .. MaxUpdates
  BY <1>1, BoundsAssumption DEF Screens
<1> QED BY <1>1, <1>3, <1>4 DEF Screens

(* A player leaves the loaded game.                                        *)
LEMMA LeaveGameShows ==
  ASSUME Typed, Game, Screens, NEW p \in present, NEW saving \in BOOLEAN, LeaveGame(p, saving),
         ~gameLoading, present' = present \ {p},
         UNCHANGED << loadInGame, gameLoading, finished, updates, resets >>
  PROVE  Screens'
<1> DEFINE queue == Append(actions, SavingAction)
           u == UpdateOf(queue)
           z == << Leave(p) >>
<1>1. UNCHANGED << buffer, leftLoading >> /\ Loading = {} /\ Loading' = Loading /\ p \in Players
  BY DEF LeaveGame, Loading, Game, Typed
<1>2. accepted' <= MaxActions + Cardinality(Players \ present')
  <2>1. accepted' = accepted \/ accepted' = accepted + 1
    BY DEF LeaveGame
  <2>2. accepted \in Nat /\ accepted <= MaxActions + Cardinality(Players \ present)
    BY DEF Typed, Screens
  <2> QED BY <2>1, <2>2, OneLess
<1>3. IsUpdate(u)
  BY SavingActionIsSmall, UpdateOfQueue
<1>4. ASSUME loadInGame, NEW q \in present \cap finished PROVE Shown(sent'[q], {})
  <2>1. q \in Players /\ Shown(sent[q], {}) /\ sent[q] \in Seq(Message)
    BY <1>1, <1>4 DEF Typed, Screens
  <2>2. CASE saving
    <3>1. sent'[q] = (sent[q] \o (EmptiesFor(q) \o u)) \o z
      BY <2>1, <2>2 DEF LeaveGame, UpdateFor, SavingAction
    <3>2. Shown(sent[q] \o (EmptiesFor(q) \o u), {})
      <4> HIDE DEF u
      <4> QED BY <1>3, <2>1, UpdateIsShown
    <3> HIDE DEF u
    <3> QED BY <1>1, <3>1, <3>2, LeaveIsShown
  <2>3. CASE ~saving
    <3>1. sent'[q] = (sent[q] \o << >>) \o z
      BY <2>1, <2>3 DEF LeaveGame
    <3>2. sent[q] \o << >> = sent[q]
      BY <2>1
    <3> QED BY <1>1, <2>1, <3>1, <3>2, LeaveIsShown
  <2> QED BY <2>2, <2>3
<1>5. ASSUME loadInGame, NEW q \in present' \cap finished' PROVE Shown(sent'[q], Loading')
  <2>1. q \in present \cap finished
    OBVIOUS
  <2> QED BY <1>1, <1>4, <1>5, <2>1
<1> QED BY <1>1, <1>2, <1>5 DEF Screens

(* A player leaves while maps are loaded in game.                          *)
LEMMA LeaveLoadingInGameShows ==
  ASSUME Typed, Screens, NEW p \in present, LeaveWhileLoadingInGame(p), loadInGame,
         present' = present \ {p},
         UNCHANGED << loadInGame, gameLoading, finished, updates, resets >>
  PROVE  Screens'
<1> DEFINE m == Leave(p)
<1>1. UNCHANGED << leftLoading, accepted >> /\ Loading' = Loading \ {p} /\ p \in Players
  BY DEF LeaveWhileLoadingInGame, Loading, Typed
<1>2. accepted' <= MaxActions + Cardinality(Players \ present')
  <2>1. accepted \in Nat /\ accepted <= MaxActions + Cardinality(Players \ present)
    BY DEF Typed, Screens
  <2> QED BY <1>1, <2>1, OneLess
<1>3. ASSUME NEW q \in present' \cap finished' PROVE Shown(sent'[q], Loading')
  <2>1. q \in Players /\ q \in present /\ q \in finished /\ Shown(sent[q], Loading)
        /\ sent[q] \in Seq(Message)
    BY DEF Typed, Screens
  <2>2. CASE p \in Loading
    <3>1. sent'[q] = (sent[q] \o << StopLag(p) >>) \o << m >>
      BY <2>1, <2>2 DEF LeaveWhileLoadingInGame, LeaveSeenBy
    <3>2. Shown(sent[q] \o << StopLag(p) >>, Loading \ {p})
      BY <1>1, <2>1, StopIsShown
    <3> QED BY <1>1, <3>1, <3>2, LeaveIsShown
  <2>3. CASE p \notin Loading
    <3>1. sent'[q] = (sent[q] \o << >>) \o << m >>
      BY <2>1, <2>3 DEF LeaveWhileLoadingInGame, LeaveSeenBy
    <3>2. sent[q] \o << >> = sent[q] /\ Loading' = Loading
      BY <1>1, <2>1, <2>3
    <3> QED BY <1>1, <2>1, <3>1, <3>2, LeaveIsShown
  <2> QED BY <2>2, <2>3
<1>4. ASSUME NEW q \in Players PROVE \A i \in 1 .. Len(buffer'[q]) : buffer'[q][i].type \in Kept
  <2> DEFINE b == buffer[q]
             t == << m >>
  <2>1. b \in Seq(Message) /\ \A i \in 1 .. Len(b) : b[i].type \in Kept
    BY DEF Typed, Screens
  <2>2. m \in Message /\ m.type = "leave" /\ t \in Seq(Message) /\ \A i \in 1 .. Len(t) : t[i] = m
    <3>1. m \in Message /\ m.type = "leave"
      BY <1>1, MessageTypes
    <3> HIDE DEF m
    <3> QED BY <3>1, OneMessage
  <2>3. buffer'[q] = Append(b, m) \/ buffer'[q] = b
    BY DEF LeaveWhileLoadingInGame
  <2>4. Append(b, m) = b \o t
    <3> HIDE DEF b, m
    <3> QED BY <2>1, <2>2
  <2>5. \A i \in 1 .. Len(b \o t) : (b \o t)[i].type \in Kept
    <3> HIDE DEF b, t, m
    <3>1. \A i \in 1 .. Len(t) : t[i].type \in Kept
      BY <2>2 DEF Kept
    <3> QED BY <2>1, <2>2, <3>1, KeptConcat
  <2> HIDE DEF b, t, m
  <2> QED BY <2>1, <2>3, <2>4, <2>5
<1> QED BY <1>1, <1>2, <1>3, <1>4 DEF Screens

(* A player leaves while the map is loaded.                                *)
LEMMA LeaveLoadingShows ==
  ASSUME Typed, Screens, NEW p \in present, LeaveWhileLoading(p), ~loadInGame,
         present' = present \ {p},
         UNCHANGED << loadInGame, gameLoading, finished, updates, resets >>
  PROVE  Screens'
<1> DEFINE m == Leave(p)
<1>1. UNCHANGED << buffer, accepted >> /\ leftLoading' = Append(leftLoading, m)
      /\ m.type = "leave" /\ leftLoading \in Seq(Message)
  BY MessageTypes, LogType DEF LeaveWhileLoading, Typed
<1>2. accepted' <= MaxActions + Cardinality(Players \ present')
  <2>1. accepted \in Nat /\ accepted <= MaxActions + Cardinality(Players \ present)
    BY DEF Typed, Screens
  <2>2. accepted' = accepted
    BY <1>1
  <2> QED BY <2>1, <2>2, OneLess
<1>3. \A i \in 1 .. Len(leftLoading') : leftLoading'[i].type = "leave"
  <2> HIDE DEF m
  <2> QED BY <1>1 DEF Screens
<1> QED BY <1>1, <1>2, <1>3 DEF Screens

(* Every step keeps the screens right.                                     *)
LEMMA StepScreens == Typed /\ Game /\ Screens /\ [Next]_vars => Screens'
<1> SUFFICES ASSUME Typed, Game, Screens, [Next]_vars PROVE Screens'
  OBVIOUS
<1>1. ASSUME NEW p \in Players, EventPlayerLoaded(p) PROVE Screens'
  BY <1>1, LoadedShows
<1>2. ASSUME NEW p \in Players, PlayerAction(p) PROVE Screens'
  <2>1. /\ UNCHANGED << loadInGame, present, finished, buffer, sent, leftLoading, updates, resets >>
        /\ accepted < MaxActions /\ accepted' = accepted + 1
    BY <1>2 DEF PlayerAction, recording
  <2>2. Loading' = Loading /\ accepted' <= MaxActions + Cardinality(Players \ present')
    <3>1. Cardinality(Players \ present) \in Nat /\ MaxActions \in Nat /\ accepted \in Nat
      BY LeftAtMostAll, BoundsAssumption, UpdatesAssumption DEF Typed
    <3> QED BY <2>1, <3>1 DEF Loading
  <2> QED BY <2>1, <2>2 DEF Screens
<1>3. ASSUME NEW p \in Players, EventPlayerDeleted(p) PROVE Screens'
  <2>1. /\ p \in present /\ present' = present \ {p}
        /\ UNCHANGED << loadInGame, gameLoading, finished, updates, resets >>
        /\ \/ gameLoading /\ loadInGame /\ LeaveWhileLoadingInGame(p)
           \/ gameLoading /\ ~loadInGame /\ LeaveWhileLoading(p)
           \/ ~gameLoading /\ LeaveGame(p, FALSE)
           \/ ~gameLoading /\ LeaveGame(p, TRUE)
    BY <1>3, DeletedCases
  <2> QED BY <2>1, LeaveLoadingInGameShows, LeaveLoadingShows, LeaveGameShows
<1>4. CASE EventGameLoaded
  BY <1>4 DEF EventGameLoaded, recording, counts, Screens, Loading
<1>5. CASE ResetLagScreen
  BY <1>5, ResetShows
<1>6. CASE SendAllActions
  BY <1>6, SendAllActionsShows
<1>7. CASE UNCHANGED vars
  BY <1>7 DEF vars, recording, counts, Screens, Loading
<1> QED BY <1>1, <1>2, <1>3, <1>4, <1>5, <1>6, <1>7 DEF Next

(* With load in game, a player who has loaded sees exactly who is still    *)
(* loading until the game begins, and no update reaches it while its       *)
(* screen is up (EventPlayerLoaded, EventPlayerDeleted, the reset in       *)
(* Update); the variables keep their types.                                *)
THEOREM ScreensAreRight == Spec => []ScreensOK
<1>1. Init => Typed /\ Numbered /\ Game /\ Screens
  BY InitTyped, InitGame, InitScreens
<1>2. Typed /\ Numbered /\ Game /\ Screens /\ [Next]_vars
        => Typed' /\ Numbered' /\ Game' /\ Screens'
  BY StepTyped, StepGame, StepScreens
<1>3. Typed /\ Screens => ScreensOK
  BY ScreensRight
<1> QED BY <1>1, <1>2, <1>3, PTL DEF Spec
=============================================================================
