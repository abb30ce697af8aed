------------------------- MODULE MatchMaking_proofs -------------------------
(***************************************************************************)
(* Proofs about MatchMaking, for any players, scores, slots and teams,     *)
(* when one score arrives between two passes over m_Players: everybody has *)
(* a slot of his own, however the teams are balanced or shuffled, and in a *)
(* full game the worst of all goes.                                        *)
(***************************************************************************)
EXTENDS MatchMaking, FiniteSetTheorems, FunctionTheorems, SequenceTheorems,
        WellFoundedInduction, TLAPS

-----------------------------------------------------------------------------
(* Finite sets: smallest members, and folds over them.                     *)

(* Among subsets of a finite set there is a smallest one.                  *)
LEMMA SmallestSubset ==
  ASSUME NEW S, IsFiniteSet(S), NEW B, \A s \in B : s \subseteq S, B # {}
  PROVE  \E m \in B : \A s \in B : s \subseteq m => s = m
<1>1. IsWellFoundedOn(StrictSubsetOrdering(S), FiniteSubsetsOf(S))
  BY FS_StrictSubsetOrderingWellFounded
<1>2. B \subseteq FiniteSubsetsOf(S)
  BY FS_Subset DEF FiniteSubsetsOf
<1>3. PICK m \in B : \A s \in B : ~ (<< s, m >> \in StrictSubsetOrdering(S))
  BY <1>1, <1>2, WFMin, Zenon
<1>4. ASSUME NEW s \in B, s \subseteq m, s # m PROVE FALSE
  BY <1>2, <1>3, <1>4 DEF StrictSubsetOrdering, FiniteSubsetsOf
<1> QED BY <1>4

(* A finite set has a member that nothing is below, when U gives of each   *)
(* what is below it.                                                       *)
LEMMA Minimal ==
  ASSUME NEW Z, IsFiniteSet(Z), NEW a \in Z, NEW U,
         \A x \in Z : U[x] \subseteq Z /\ x \notin U[x],
         \A x \in Z : \A y \in U[x] : U[y] \subseteq U[x]
  PROVE  \E m \in Z : U[m] = {}
<1> DEFINE B == {U[x] : x \in Z}
<1>1. (\A s \in B : s \subseteq Z) /\ B # {}
  OBVIOUS
<1>2. PICK b \in B : \A s \in B : s \subseteq b => s = b
  <2> HIDE DEF B
  <2> QED BY <1>1, SmallestSubset
<1>3. PICK m \in Z : b = U[m]
  OBVIOUS
<1>4. ASSUME NEW y \in U[m] PROVE FALSE
  <2>1. y \in Z /\ U[y] \subseteq U[m] /\ y \notin U[y]
    OBVIOUS
  <2>2. U[y] = U[m]
    BY <1>2, <1>3, <2>1
  <2> QED BY <2>1, <2>2
<1> QED BY <1>4

(* A finite set of integers has a least and a greatest member.             *)
LEMMA Extremes ==
  ASSUME NEW Z \in SUBSET Int, IsFiniteSet(Z), Z # {}
  PROVE  /\ Min(Z) \in Z /\ \A z \in Z : Min(Z) <= z
         /\ Max(Z) \in Z /\ \A z \in Z : z <= Max(Z)
<1> PICK a \in Z : TRUE
  OBVIOUS
<1>1. \E m \in Z : \A z \in Z : m <= z
  <2> DEFINE U == [x \in Z |-> {z \in Z : z < x}]
  <2>1. \A x \in Z : U[x] \subseteq Z /\ x \notin U[x]
    OBVIOUS
  <2>2. ASSUME NEW x \in Z, NEW y \in U[x] PROVE U[y] \subseteq U[x]
    <3>1. y \in Z /\ y < x
      OBVIOUS
    <3>2. \A z \in Z : z < y => z < x
      BY <3>1
    <3>3. U[x] = {z \in Z : z < x} /\ U[y] = {z \in Z : z < y}
      BY <3>1
    <3> QED BY <3>2, <3>3
  <2>3. PICK m \in Z : U[m] = {}
    <3> HIDE DEF U
    <3> QED BY <2>1, <2>2, Minimal
  <2>4. \A z \in Z : ~ (z < m)
    BY <2>3
  <2> QED BY <2>4
<1>2. \E m \in Z : \A z \in Z : m >= z
  <2> DEFINE U == [x \in Z |-> {z \in Z : z > x}]
  <2>1. \A x \in Z : U[x] \subseteq Z /\ x \notin U[x]
    OBVIOUS
  <2>2. ASSUME NEW x \in Z, NEW y \in U[x] PROVE U[y] \subseteq U[x]
    <3>1. y \in Z /\ y > x
      OBVIOUS
    <3>2. \A z \in Z : z > y => z > x
      BY <3>1
    <3>3. U[x] = {z \in Z : z > x} /\ U[y] = {z \in Z : z > y}
      BY <3>1
    <3> QED BY <3>2, <3>3
  <2>3. PICK m \in Z : U[m] = {}
    <3> HIDE DEF U
    <3> QED BY <2>1, <2>2, Minimal
  <2>4. \A z \in Z : ~ (z > m)
    BY <2>3
  <2> QED BY <2>4
<1>3. Min(Z) \in Z /\ \A z \in Z : Min(Z) <= z
  BY <1>1 DEF Min
<1>4. Max(Z) \in Z /\ \A z \in Z : z <= Max(Z)
  BY <1>2 DEF Max
<1> QED BY <1>3, <1>4

(* A nonempty set of natural numbers has a least element.                  *)
LEMMA LeastExists ==
  ASSUME NEW T \in SUBSET Nat, T # {}
  PROVE  \E x \in T : \A y \in T : x <= y
<1> DEFINE I == {0 .. x : x \in T}
<1>1. IsWellFoundedOn(StrictSubsetOrdering(Nat), FiniteSubsetsOf(Nat))
  BY FS_StrictSubsetOrderingWellFounded
<1>2. I \subseteq FiniteSubsetsOf(Nat) /\ I # {}
  <2>1. ASSUME NEW x \in T PROVE 0 .. x \in FiniteSubsetsOf(Nat)
    <3>1. x \in Int /\ 0 \in Int /\ 0 .. x \subseteq Nat
      OBVIOUS
    <3>2. IsFiniteSet(0 .. x)
      BY <3>1, FS_Interval
    <3> QED BY <3>1, <3>2 DEF FiniteSubsetsOf
  <2> QED BY <2>1
<1>3. PICK m \in I : \A i \in I : ~ (<<i, m>> \in StrictSubsetOrdering(Nat))
  <2> HIDE DEF I
  <2> QED BY <1>1, <1>2, WFMin, Zenon
<1>4. PICK x \in T : m = 0 .. x
  OBVIOUS
<1>5. ASSUME NEW y \in T, y < x PROVE FALSE
  <2>1. 0 .. y \in I /\ 0 .. y \subseteq m /\ x \in m /\ x \notin 0 .. y
    BY <1>4, <1>5
  <2>2. <<0 .. y, m>> \in StrictSubsetOrdering(Nat)
    BY <2>1, <1>2, <1>3 DEF StrictSubsetOrdering, FiniteSubsetsOf
  <2> QED BY <2>1, <2>2, <1>3
<1> QED BY <1>5

(* Induction over the natural numbers, for a set.                          *)
LEMMA NatInductionIn ==
  ASSUME NEW T, 0 \in T, \A n \in Nat : n \in T => n + 1 \in T
  PROVE  \A n \in Nat : n \in T
<1> SUFFICES ASSUME NEW k \in Nat, k \notin T PROVE FALSE
  OBVIOUS
<1> DEFINE Out == {n \in Nat : n \notin T}
<1>1. Out \in SUBSET Nat /\ Out # {}
  OBVIOUS
<1>2. PICK n \in Out : \A m \in Out : n <= m
  <2> HIDE DEF Out
  <2> QED BY <1>1, LeastExists
<1>3. n \in Nat /\ n # 0 /\ n \notin T
  OBVIOUS
<1>4. n - 1 \in Nat /\ (n - 1) + 1 = n
  BY <1>3
<1>5. n - 1 \in T
  BY <1>2, <1>4
<1> QED BY <1>3, <1>4, <1>5

\* What a fold over the subsets of S computes, with step R and choice ch
Folds(F, S, base, ch, R) ==
    F = [s \in SUBSET S |-> IF s = {} THEN base ELSE R[ch[s]][F[s \ {ch[s]}]]]

(* Such a fold exists.                                                     *)
LEMMA FoldExists ==
  ASSUME NEW S, IsFiniteSet(S), NEW V, NEW base \in V, NEW ch, NEW R,
         \A s \in SUBSET S : s # {} => ch[s] \in s
  PROVE  \E F : Folds(F, S, base, ch, R)
<1> DEFINE Body(F, s) == IF s = {} THEN base ELSE R[ch[s]][F[s \ {ch[s]}]]
           Up(n, F) == F = [s \in SUBSET S |-> F[s]]
                       /\ \A s \in SUBSET S : Cardinality(s) <= n => F[s] = Body(F, s)
           T == {n \in Nat : \E F : Up(n, F)}
<1>1. \A s \in SUBSET S : IsFiniteSet(s) /\ Cardinality(s) \in Nat
  BY FS_Subset, FS_CardinalityType
<1>2. \A s \in SUBSET S : s # {} =>
        s \ {ch[s]} \in SUBSET S /\ Cardinality(s \ {ch[s]}) = Cardinality(s) - 1
  BY <1>1, FS_RemoveElement
<1>3. 0 \in T
  <2>1. \A s \in SUBSET S : Cardinality(s) <= 0 => s = {}
    BY <1>1, FS_EmptySet
  <2>2. Up(0, [s \in SUBSET S |-> base])
    BY <2>1
  <2> QED BY <2>2
<1>4. ASSUME NEW n \in Nat, n \in T PROVE n + 1 \in T
  <2>1. PICK F : Up(n, F)
    BY <1>4
  <2> DEFINE G == [s \in SUBSET S |-> IF Cardinality(s) <= n THEN F[s] ELSE Body(F, s)]
  <2>2. ASSUME NEW s \in SUBSET S, Cardinality(s) <= n + 1 PROVE G[s] = Body(G, s)
    <3>1. G[s] = Body(F, s)
      BY <2>1
    <3>2. CASE s = {}
      BY <3>1, <3>2
    <3>3. CASE s # {}
      <4>1. s \ {ch[s]} \in SUBSET S /\ Cardinality(s \ {ch[s]}) <= n
        BY <1>1, <1>2, <2>2, <3>3
      <4>2. G[s \ {ch[s]}] = F[s \ {ch[s]}]
        BY <4>1
      <4> HIDE DEF G
      <4> QED BY <3>1, <3>3, <4>2
    <3> QED BY <3>2, <3>3
  <2>3. G = [s \in SUBSET S |-> G[s]]
    OBVIOUS
  <2>4. Up(n + 1, G)
    <3> HIDE DEF G
    <3> QED BY <2>2, <2>3
  <2> HIDE DEF Up, G
  <2> QED BY <2>4
<1>5. \A n \in Nat : n \in T
  <2> HIDE DEF T
  <2> QED BY <1>3, <1>4, NatInductionIn
<1>6. PICK F : Up(Cardinality(S), F)
  BY <1>1, <1>5
<1>7. \A s \in SUBSET S : F[s] = Body(F, s)
  BY <1>6, FS_Subset
<1>8. F = [s \in SUBSET S |-> Body(F, s)]
  BY <1>6, <1>7
<1> QED BY <1>8 DEF Folds

(* Induction over subsets of which one member at a time is taken.          *)
LEMMA FoldInduction ==
  ASSUME NEW S, IsFiniteSet(S), NEW V, NEW ch, NEW F, F[{}] \in V,
         \A s \in SUBSET S : s # {} => ch[s] \in s,
         \A s \in SUBSET S : s # {} /\ F[s \ {ch[s]}] \in V => F[s] \in V
  PROVE  \A s \in SUBSET S : F[s] \in V
<1> DEFINE Bad == {s \in SUBSET S : F[s] \notin V}
<1>1. SUFFICES ASSUME Bad # {} PROVE FALSE
  OBVIOUS
<1>2. PICK m \in Bad : \A s \in Bad : s \subseteq m => s = m
  <2>1. \A s \in Bad : s \subseteq S
    OBVIOUS
  <2> HIDE DEF Bad
  <2> QED BY <1>1, <2>1, SmallestSubset
<1>3. m \in SUBSET S /\ F[m] \notin V
  OBVIOUS
<1>4. m # {} /\ ch[m] \in m
  BY <1>3
<1>5. F[m \ {ch[m]}] \in V
  BY <1>2, <1>4
<1> QED BY <1>3, <1>4, <1>5

(* Scores add up to an integer.                                            *)
LEMMA SumIsInt ==
  ASSUME NEW A \in SUBSET Names
  PROVE  SumFunctionOnSet(Score, A) \in Int
<1> DEFINE ch == [s \in SUBSET A |-> CHOOSE x \in s : TRUE]
           R == [x \in A |-> [v \in Int |-> Score[x] + v]]
           Eq(F) == F = [s \in SUBSET A |-> IF s = {} THEN 0
                           ELSE Score[CHOOSE x \in s : TRUE] + F[s \ {CHOOSE x \in s : TRUE}]]
<1>1. IsFiniteSet(A) /\ \A x \in A : Score[x] \in Int
  BY ScoresAssumption, FS_Subset
<1>2. \A s \in SUBSET A : s # {} => ch[s] \in s /\ ch[s] = CHOOSE x \in s : TRUE
  OBVIOUS
<1>3. PICK F : Folds(F, A, 0, ch, R)
  <2> HIDE DEF ch, R
  <2> QED BY <1>1, <1>2, FoldExists
<1>4. \A s \in SUBSET A : F[s] = IF s = {} THEN 0 ELSE R[ch[s]][F[s \ {ch[s]}]]
  <2> HIDE DEF ch, R
  <2> QED BY <1>3 DEF Folds
<1>5. \A s \in SUBSET A : F[s] \in Int
  <2>1. F[{}] \in Int
    <3>1. {} \in SUBSET A
      OBVIOUS
    <3> HIDE DEF ch, R
    <3>2. F[{}] = 0
      BY <3>1, <1>4, Zenon
    <3> QED BY <3>2
  <2>2. ASSUME NEW s \in SUBSET A, s # {}, F[s \ {ch[s]}] \in Int PROVE F[s] \in Int
    <3>1. ch[s] \in A /\ F[s] = R[ch[s]][F[s \ {ch[s]}]]
      BY <1>2, <1>4, <2>2
    <3> HIDE DEF ch
    <3>2. F[s] = Score[ch[s]] + F[s \ {ch[s]}]
      BY <3>1, <2>2
    <3> QED BY <3>1, <3>2, <2>2, <1>1
  <2> HIDE DEF ch
  <2> QED BY <1>1, <1>2, <2>1, <2>2, FoldInduction
<1>6. \E I : Eq(I)
  <2>1. ASSUME NEW s \in SUBSET A
        PROVE  F[s] = IF s = {} THEN 0
                      ELSE Score[CHOOSE x \in s : TRUE] + F[s \ {CHOOSE x \in s : TRUE}]
    <3>1. CASE s = {}
      BY <3>1, <1>4
    <3>2. CASE s # {}
      <4> DEFINE c == CHOOSE x \in s : TRUE
      <4>1. c = ch[s] /\ c \in A /\ F[s] = R[ch[s]][F[s \ {ch[s]}]]
        BY <1>2, <1>4, <3>2
      <4>2. F[s] = R[c][F[s \ {c}]] /\ F[s \ {c}] \in Int
        BY <4>1, <1>5
      <4> HIDE DEF c, ch
      <4>3. F[s] = Score[c] + F[s \ {c}]
        BY <4>1, <4>2
      <4> QED BY <4>3, <3>2 DEF c
    <3> QED BY <3>1, <3>2
  <2>2. F = [s \in SUBSET A |-> F[s]]
    <3> HIDE DEF ch, R
    <3> QED BY <1>3 DEF Folds
  <2>3. Eq(F)
    BY <2>1, <2>2
  <2> QED BY <2>3
<1> DEFINE I == CHOOSE G : Eq(G)
<1>7. Eq(I)
  <2> HIDE DEF Eq
  <2> QED BY <1>6
<1>8. SumFunctionOnSet(Score, A) = I[A]
  BY Zenon DEF SumFunctionOnSet, FoldFunctionOnSet, MapThenFoldSet
<1>9. \A s \in SUBSET A : I[s] \in Int
  <2> HIDE DEF I
  <2>1. I[{}] \in Int
    BY <1>7
  <2>2. ASSUME NEW s \in SUBSET A, s # {}, I[s \ {ch[s]}] \in Int PROVE I[s] \in Int
    <3>1. ch[s] \in A /\ I[s] = Score[ch[s]] + I[s \ {ch[s]}]
      BY <1>2, <1>7, <2>2
    <3> HIDE DEF ch
    <3> QED BY <3>1, <2>2, <1>1
  <2> HIDE DEF ch
  <2> QED BY <1>1, <1>2, <2>1, <2>2, FoldInduction
<1> QED BY <1>8, <1>9

-----------------------------------------------------------------------------
(* Balanced and shuffled slots are the same slots in another order.        *)

\* Everybody of ss in another slot
Rearranged(ss) == {[s \in SIDs |-> ss[f[s]]] : f \in Bijection(SIDs, SIDs)}

(* Nothing has changed, or two slots are swapped.                          *)
LEMMA Swaps ==
  ASSUME NEW Z, NEW ss \in [SIDs -> Z]
  PROVE  /\ ss \in Rearranged(ss)
         /\ \A now \in Rearranged(ss) : \A r, q \in SIDs :
              [now EXCEPT ![r] = now[q], ![q] = now[r]] \in Rearranged(ss)
<1>1. ss \in Rearranged(ss)
  <2> DEFINE f == [s \in SIDs |-> s]
  <2>1. f \in Bijection(SIDs, SIDs)
    BY DEF Bijection, Injection, Surjection, IsInjective
  <2>2. ss = [s \in SIDs |-> ss[f[s]]]
    OBVIOUS
  <2> HIDE DEF f
  <2> QED BY <2>1, <2>2 DEF Rearranged
<1>2. ASSUME NEW now \in Rearranged(ss), NEW r \in SIDs, NEW q \in SIDs
      PROVE  [now EXCEPT ![r] = now[q], ![q] = now[r]] \in Rearranged(ss)
  <2>1. PICK f \in Bijection(SIDs, SIDs) : now = [s \in SIDs |-> ss[f[s]]]
    BY DEF Rearranged
  <2>2. /\ f \in [SIDs -> SIDs] /\ \A s, t \in SIDs : f[s] = f[t] => s = t
        /\ \A t \in SIDs : \E s \in SIDs : f[s] = t
    BY DEF Bijection, Injection, Surjection, IsInjective
  <2> DEFINE g == [f EXCEPT ![r] = f[q], ![q] = f[r]]
  <2>3. \A s \in SIDs : g[s] = IF s = q THEN f[r] ELSE IF s = r THEN f[q] ELSE f[s]
    BY <2>2
  <2>4. g \in [SIDs -> SIDs]
    BY <2>2
  <2> HIDE DEF g
  <2>5. \A s, t \in SIDs : g[s] = g[t] => s = t
    BY <2>2, <2>3
  <2>6. \A t \in SIDs : \E s \in SIDs : g[s] = t
    <3> SUFFICES ASSUME NEW t \in SIDs PROVE \E s \in SIDs : g[s] = t
      OBVIOUS
    <3>1. PICK s \in SIDs : f[s] = t
      BY <2>2
    <3> QED BY <3>1, <2>3
  <2>7. g \in Bijection(SIDs, SIDs)
    BY <2>4, <2>5, <2>6 DEF Bijection, Injection, Surjection, IsInjective
  <2>8. [now EXCEPT ![r] = now[q], ![q] = now[r]] = [s \in SIDs |-> ss[g[s]]]
    BY <2>1, <2>3
  <2> QED BY <2>7, <2>8 DEF Rearranged
<1> QED BY <1>1, <1>2

(* What Arranged finds.                                                    *)
LEMMA ArrangedIsRearranged ==
  ASSUME NEW Z, NEW ss \in [SIDs -> Z], NEW ordering, NEW sizes
  PROVE  Arranged(ordering, sizes, ss) \subseteq Rearranged(ss)
<1> DEFINE D == 1 .. Cardinality(Targets(sizes))
           Into(nows, n) ==
             UNION {Swapped(now, sid1, ordering[n]) : now \in nows, sid1 \in Target(sizes, n)}
           Eq(iter) == iter = [s \in SUBSET DOMAIN [n \in D |-> n] |-> IF s = {} THEN {ss}
                                 ELSE Into(iter[s \ {Max(s)}], [n \in D |-> n][Max(s)])]
           I == CHOOSE iter : Eq(iter)
           V == SUBSET Rearranged(ss)
           ch == [s \in SUBSET D |-> Max(s)]
           R == [n \in D |-> [nows \in V |-> Into(nows, n)]]
<1>1. Arranged(ordering, sizes, ss) = I[DOMAIN [n \in D |-> n]]
  BY DEF Arranged, FoldLeft, MapThenFoldSet
<1>2. IsFiniteSet(D) /\ D \in SUBSET Int
  <2>1. IsFiniteSet(SIDs)
    <3>1. SIDs = 1 .. Len(MapTeams) /\ Len(MapTeams) \in Int /\ 1 \in Int
      BY MapTeamsAssumption DEF SIDs
    <3> QED BY <3>1, FS_Interval
  <2>2. IsFiniteSet(Targets(sizes))
    BY <2>1, FS_Subset DEF Targets
  <2>3. Cardinality(Targets(sizes)) \in Nat
    BY <2>2, FS_CardinalityType
  <2> QED BY <2>3, FS_Interval
<1> HIDE DEF D
<1>3. \A s \in SUBSET D : s # {} => ch[s] \in s /\ ch[s] = Max(s)
  <2>1. ASSUME NEW s \in SUBSET D, s # {} PROVE Max(s) \in s
    BY <1>2, <2>1, FS_Subset, Extremes
  <2> QED BY <2>1
<1>4. {ss} \in V
  BY Swaps
<1>5. ASSUME NEW v \in V, NEW n PROVE Into(v, n) \in V
  <2>1. ASSUME NEW now \in v, NEW sid1 \in Target(sizes, n), NEW x \in Swapped(now, sid1, ordering[n])
        PROVE  x \in Rearranged(ss)
    <3>1. sid1 \in SIDs
      BY DEF Target, Targets
    <3>2. PICK sid2 \in SIDs : x = [now EXCEPT ![sid1] = now[sid2], ![sid2] = now[sid1]]
      BY DEF Swapped
    <3> QED BY <3>1, <3>2, Swaps
  <2> QED BY <2>1
<1>6. \A n \in D : \A v \in V : R[n][v] = Into(v, n)
  OBVIOUS
<1> HIDE DEF V, ch, R, Into
<1>7. PICK F : Folds(F, D, {ss}, ch, R)
  BY <1>2, <1>3, <1>4, FoldExists
<1>8. \A s \in SUBSET D : F[s] = IF s = {} THEN {ss} ELSE R[ch[s]][F[s \ {ch[s]}]]
  BY <1>7 DEF Folds
<1>9. \A s \in SUBSET D : F[s] \in V
  <2>1. F[{}] \in V
    BY <1>4, <1>8
  <2>2. ASSUME NEW s \in SUBSET D, s # {}, F[s \ {ch[s]}] \in V PROVE F[s] \in V
    <3>1. ch[s] \in D /\ F[s] = R[ch[s]][F[s \ {ch[s]}]]
      BY <1>3, <1>8, <2>2
    <3>2. F[s] = Into(F[s \ {ch[s]}], ch[s])
      BY <3>1, <2>2, <1>6
    <3> QED BY <3>2, <2>2, <1>5
  <2> QED BY <1>2, <1>3, <2>1, <2>2, FoldInduction
<1>10. DOMAIN [n \in D |-> n] = D /\ \A n \in D : [m \in D |-> m][n] = n
  OBVIOUS
<1>11. \E iter : Eq(iter)
  <2>1. ASSUME NEW s \in SUBSET D
        PROVE  F[s] = IF s = {} THEN {ss} ELSE Into(F[s \ {Max(s)}], [n \in D |-> n][Max(s)])
    <3>1. CASE s = {}
      BY <3>1, <1>8
    <3>2. CASE s # {}
      <4>1. ch[s] \in D /\ ch[s] = Max(s) /\ F[s] = R[ch[s]][F[s \ {ch[s]}]]
        BY <1>3, <1>8, <3>2
      <4>2. F[s \ {Max(s)}] \in V
        <5>1. s \ {Max(s)} \in SUBSET D
          OBVIOUS
        <5> QED BY <5>1, <1>9
      <4>3. F[s] = Into(F[s \ {Max(s)}], Max(s))
        BY <4>1, <4>2, <1>6
      <4> QED BY <4>1, <4>3, <3>2, <1>10
    <3> QED BY <3>1, <3>2
  <2>2. F = [s \in SUBSET D |-> F[s]]
    BY <1>7 DEF Folds
  <2>3. Eq(F)
    BY <2>1, <2>2, <1>10
  <2> HIDE DEF Eq
  <2> QED BY <2>3
<1>12. Eq(I)
  <2> HIDE DEF Eq
  <2> QED BY <1>11
<1> HIDE DEF I
<1>13. \A s \in SUBSET D : I[s] = IF s = {} THEN {ss} ELSE Into(I[s \ {Max(s)}], [n \in D |-> n][Max(s)])
  BY <1>12, <1>10
<1>14. \A s \in SUBSET D : I[s] \in V
  <2>1. I[{}] \in V
    BY <1>4, <1>13
  <2>2. ASSUME NEW s \in SUBSET D, s # {}, I[s \ {ch[s]}] \in V PROVE I[s] \in V
    <3>1. ch[s] = Max(s) /\ I[s] = Into(I[s \ {Max(s)}], [n \in D |-> n][Max(s)])
      BY <1>3, <1>13, <2>2
    <3> QED BY <3>1, <2>2, <1>5
  <2> QED BY <1>2, <1>3, <2>1, <2>2, FoldInduction
<1> QED BY <1>1, <1>10, <1>14 DEF V

(* What BalanceSlots does, whether it balances or shuffles.                *)
LEMMA BalancedIsRearranged ==
  ASSUME NEW Z, NEW ss \in [SIDs -> Z], NEW ps, BalanceSlots(ps, ss)
  PROVE  slots' \in Rearranged(ss)
<1>1. ASSUME NEW now \in Shuffled(ss) PROVE now \in Rearranged(ss)
  <2> DEFINE taken == {s \in SIDs : ss[s] # 0}
  <2>1. PICK f \in Bijection(taken, taken) : now = [s \in SIDs |-> IF s \in taken THEN ss[f[s]] ELSE 0]
    BY DEF Shuffled
  <2>2. /\ f \in [taken -> taken] /\ \A s, t \in taken : f[s] = f[t] => s = t
        /\ \A t \in taken : \E s \in taken : f[s] = t
    <3> HIDE DEF taken
    <3> QED BY DEF Bijection, Injection, Surjection, IsInjective
  <2> DEFINE g == [s \in SIDs |-> IF s \in taken THEN f[s] ELSE s]
  <2>3. taken \subseteq SIDs /\ \A s \in SIDs : s \notin taken => ss[s] = 0
    OBVIOUS
  <2> HIDE DEF taken
  <2>4. \A s \in SIDs : g[s] = IF s \in taken THEN f[s] ELSE s
    OBVIOUS
  <2>5. g \in [SIDs -> SIDs]
    BY <2>2, <2>3
  <2> HIDE DEF g
  <2>6. \A s, t \in SIDs : g[s] = g[t] => s = t
    BY <2>2, <2>4
  <2>7. \A t \in SIDs : \E s \in SIDs : g[s] = t
    BY <2>2, <2>3, <2>4
  <2>8. g \in Bijection(SIDs, SIDs)
    BY <2>5, <2>6, <2>7 DEF Bijection, Injection, Surjection, IsInjective
  <2>9. now = [s \in SIDs |-> ss[g[s]]]
    BY <2>1, <2>3, <2>4
  <2> QED BY <2>8, <2>9 DEF Rearranged
<1>2. \/ slots' \in Shuffled(ss)
      \/ \E ordering, sizes : slots' \in Arranged(ordering, sizes, ss)
  BY DEF BalanceSlots
<1> QED BY <1>1, <1>2, ArrangedIsRearranged

-----------------------------------------------------------------------------
(* Everybody's seat.                                                       *)

\* Who has not been announced as left is alone with his PID and his name.
Alone(ps) ==
    \A i, j \in DOMAIN ps : i # j /\ ~ps[i].leftSent /\ ~ps[j].leftSent =>
        ps[i].pid # ps[j].pid /\ ps[i].name # ps[j].name

\* Who is not marked has a slot, and every slot that is not open is somebody's.
InSeats(ps, ss) ==
    /\ \A i \in DOMAIN ps : ~ps[i].deleteMe => \E s \in SIDs : ss[s] = ps[i].pid
    /\ \A s \in SIDs : ss[s] # 0 => \E i \in DOMAIN ps : ~ps[i].deleteMe /\ ss[s] = ps[i].pid
    /\ \A s, r \in SIDs : ss[s] = ss[r] /\ ss[s] # 0 => s = r

\* A pass over m_Players leaves nobody who has been announced as left, and afterwards who
\* is marked has left a slot open.
Swept ==
    /\ \A i \in Indices : ~players[i].leftSent
    /\ (\E i \in Indices : players[i].deleteMe) => \E s \in SIDs : slots[s] = 0

SeatInv ==
    /\ TypeOK
    /\ \A i \in Indices : players[i].leftSent => players[i].deleteMe
    /\ Alone(players) /\ InSeats(players, slots)
    /\ joins = 0 => Swept

(* Seats stay right when the slots are put in another order.               *)
LEMMA SeatsRearranged ==
  ASSUME NEW Z, NEW ss \in [SIDs -> Z], NEW ps, InSeats(ps, ss), NEW now \in Rearranged(ss)
  PROVE  now \in [SIDs -> Z] /\ InSeats(ps, now)
<1>1. PICK f \in Bijection(SIDs, SIDs) : now = [s \in SIDs |-> ss[f[s]]]
  BY DEF Rearranged
<1>2. /\ f \in [SIDs -> SIDs] /\ \A s, t \in SIDs : f[s] = f[t] => s = t
      /\ \A t \in SIDs : \E s \in SIDs : f[s] = t
  BY DEF Bijection, Injection, Surjection, IsInjective
<1>3. now \in [SIDs -> Z] /\ \A s \in SIDs : now[s] = ss[f[s]]
  BY <1>1, <1>2
<1>4. ASSUME NEW i \in DOMAIN ps, ~ps[i].deleteMe PROVE \E s \in SIDs : now[s] = ps[i].pid
  BY <1>2, <1>3, <1>4 DEF InSeats
<1>5. ASSUME NEW s \in SIDs, now[s] # 0
      PROVE  \E i \in DOMAIN ps : ~ps[i].deleteMe /\ now[s] = ps[i].pid
  BY <1>2, <1>3, <1>5 DEF InSeats
<1>6. ASSUME NEW s \in SIDs, NEW r \in SIDs, now[s] = now[r], now[s] # 0 PROVE s = r
  BY <1>2, <1>3, <1>6 DEF InSeats
<1> QED BY <1>3, <1>4, <1>5, <1>6 DEF InSeats

(* Then there are as many players who stay as slots that are taken.        *)
LEMMA SeatsAreCounted ==
  ASSUME TypeOK, \A i \in Indices : players[i].leftSent => players[i].deleteMe,
         Alone(players), InSeats(players, slots)
  PROVE  Seated
<1> DEFINE taken == {s \in SIDs : slots[s] # 0}
           stay == {i \in Indices : ~players[i].deleteMe}
           Who(s) == CHOOSE i \in stay : players[i].pid = slots[s]
           f == [s \in taken |-> players[Who(s)].name]
<1>1. Indices = 1 .. Len(players) /\ \A i \in Indices : players[i] \in Player
  BY DEF TypeOK, Indices
<1>2. \A i \in Indices : players[i].pid \in 1 .. PIDBound
  BY <1>1 DEF Player
<1>3. ASSUME NEW i \in Indices, ~players[i].deleteMe
      PROVE  Cardinality({s \in SIDs : slots[s] = players[i].pid}) = 1
  <2>1. PICK s \in SIDs : slots[s] = players[i].pid
    BY <1>3 DEF InSeats, Indices
  <2>2. slots[s] # 0
    BY <1>2, <2>1
  <2>3. {r \in SIDs : slots[r] = players[i].pid} = {s}
    BY <2>1, <2>2 DEF InSeats
  <2> QED BY <2>3, FS_Singleton
<1>4. \A s \in taken : Who(s) \in stay /\ players[Who(s)].pid = slots[s]
  BY DEF InSeats, Indices
<1>5. IsFiniteSet(taken)
  <2>1. SIDs = 1 .. Len(MapTeams) /\ Len(MapTeams) \in Int /\ 1 \in Int
    BY MapTeamsAssumption DEF SIDs
  <2> QED BY <2>1, FS_Interval, FS_Subset
<1>6. Staying = {players[i].name : i \in stay}
  BY DEF Staying
<1>7. f \in Bijection(taken, Staying)
  <2> HIDE DEF Who
  <2>1. f \in [taken -> Staying]
    BY <1>4, <1>6
  <2>2. ASSUME NEW s \in taken, NEW r \in taken, f[s] = f[r] PROVE s = r
    <3>1. Who(s) = Who(r)
      BY <1>4, <2>2 DEF Alone, Indices
    <3>2. slots[s] = slots[r] /\ s \in SIDs /\ r \in SIDs /\ slots[s] # 0
      BY <3>1, <1>4
    <3> QED BY <3>2 DEF InSeats
  <2>3. ASSUME NEW n \in Staying PROVE \E s \in taken : f[s] = n
    <3>1. PICK i \in stay : n = players[i].name
      BY <1>6
    <3>2. PICK s \in SIDs : slots[s] = players[i].pid
      BY DEF InSeats, Indices
    <3>3. s \in taken
      BY <1>2, <3>2
    <3>4. Who(s) = i
      BY <1>4, <3>2, <3>3 DEF Alone, Indices
    <3> QED BY <3>1, <3>3, <3>4
  <2> HIDE DEF f, taken
  <2> QED BY <2>1, <2>2, <2>3 DEF Bijection, Injection, Surjection, IsInjective
<1>8. Cardinality(taken) = Cardinality(Staying)
  <2> HIDE DEF f, taken
  <2> QED BY <1>5, <1>7, FS_Bijection DEF ExistsBijection
<1> QED BY <1>3, <1>8 DEF Seated

-----------------------------------------------------------------------------
(* The choices that are made: a PID, who is to be kicked, who is kept.     *)

\* There is a PID left for somebody whose name nobody has.
LEMMA NewPID ==
  ASSUME SeatInv, NEW n \in Names, ~Taken(n), NEW gone
  PROVE  /\ GetNewPID(gone) \in 1 .. PIDBound
         /\ \A i \in Indices \ gone : players[i].pid = GetNewPID(gone) => players[i].leftSent
<1> DEFINE here == {i \in Indices : ~players[i].leftSent}
           names == {players[i].name : i \in here}
           pids == {players[i].pid : i \in here}
           Who(m) == CHOOSE i \in here : players[i].name = m
           f == [m \in names |-> players[Who(m)].pid]
           free == {pid \in 1 .. PIDBound :
                      \A i \in Indices \ gone : players[i].pid = pid => players[i].leftSent}
<1>1. \A i \in Indices : players[i] \in Player
  BY DEF SeatInv, TypeOK, Indices
<1>2. names \in SUBSET (Names \ {n})
  BY <1>1 DEF Player, Taken
<1>3. IsFiniteSet(Names \ {n}) /\ Cardinality(Names \ {n}) = Cardinality(Names) - 1
      /\ Cardinality(Names) \in Nat
  BY ScoresAssumption, FS_RemoveElement, FS_CardinalityType
<1>4. IsFiniteSet(names) /\ Cardinality(names) <= Cardinality(Names) - 1 /\ Cardinality(names) \in Nat
  <2> HIDE DEF names
  <2> QED BY <1>2, <1>3, FS_Subset, FS_CardinalityType
<1>5. f \in Surjection(names, pids)
  <2>1. \A m \in names : Who(m) \in here /\ players[Who(m)].name = m
    OBVIOUS
  <2> HIDE DEF Who
  <2>2. f \in [names -> pids]
    BY <2>1
  <2>3. ASSUME NEW p \in pids PROVE \E m \in names : f[m] = p
    <3>1. PICK i \in here : p = players[i].pid
      OBVIOUS
    <3>2. players[i].name \in names /\ Who(players[i].name) = i
      BY <2>1 DEF SeatInv, Alone, Indices
    <3> QED BY <3>1, <3>2
  <2> HIDE DEF f, names, pids
  <2> QED BY <2>2, <2>3 DEF Surjection
<1>6. IsFiniteSet(pids) /\ Cardinality(pids) <= Cardinality(names) /\ Cardinality(pids) \in Nat
  <2> HIDE DEF f, names, pids
  <2> QED BY <1>4, <1>5, FS_Surjection, FS_CardinalityType
<1>7. Len(MapTeams) \in Nat /\ Len(MapTeams) > 0 /\ PIDBound \in Nat
      /\ Cardinality(Names) < PIDBound
  BY <1>3, MapTeamsAssumption DEF PIDBound
<1>8. IsFiniteSet(1 .. PIDBound) /\ Cardinality(1 .. PIDBound) = PIDBound
  <2>1. PIDBound \in Int /\ 1 \in Int /\ ~ (1 > PIDBound) /\ PIDBound - 1 + 1 = PIDBound
    BY <1>3, <1>7
  <2> QED BY <2>1, FS_Interval
<1>9. free # {}
  <2>1. SUFFICES ASSUME 1 .. PIDBound \subseteq pids PROVE FALSE
    OBVIOUS
  <2>2. PIDBound <= Cardinality(pids)
    <3> HIDE DEF pids
    <3>1. (1 .. PIDBound) \in SUBSET pids
      BY <2>1
    <3>2. Cardinality(1 .. PIDBound) <= Cardinality(pids)
      BY <1>6, <3>1, FS_Subset
    <3> QED BY <1>8, <3>2
  <2> HIDE DEF names, pids
  <2> QED BY <2>2, <1>3, <1>4, <1>6, <1>7
<1>10. free \in SUBSET Int /\ IsFiniteSet(free)
  <2>1. free \in SUBSET (1 .. PIDBound)
    OBVIOUS
  <2> HIDE DEF free
  <2>2. IsFiniteSet(free)
    BY <2>1, <1>8, FS_Subset
  <2>3. (1 .. PIDBound) \subseteq Int
    BY <1>7
  <2> QED BY <2>1, <2>2, <2>3
<1>11. Min(free) \in free
  <2> HIDE DEF free
  <2> QED BY <1>9, <1>10, Extremes
<1>12. GetNewPID(gone) = Min(free)
  BY DEF GetNewPID
<1> QED BY <1>11, <1>12

\* Who is worse than whom is a matter of one number.
LEMMA WorseOrder ==
  ASSUME NEW names \in SUBSET Names
  PROVE  \E key \in [Names -> Int] : \A a, b \in Names : Worse(a, b, names) <=> key[a] > key[b]
<1>1. /\ \A a \in Names : Score[a] \in Int
      /\ Scored(names) \in SUBSET Names /\ IsFiniteSet(Scored(names))
  BY ScoresAssumption, FS_Subset DEF Scored
<1>2. SumFunctionOnSet(Score, Scored(names)) \in Int /\ Cardinality(Scored(names)) \in Int
  BY <1>1, SumIsInt, FS_CardinalityType
<1>3. ASSUME NEW a \in Names PROVE Distance(a, names) \in Int
  <2>1. Cardinality(Scored(names)) * Score[a] \in Int
    BY <1>1, <1>2
  <2> QED BY <1>2, <2>1 DEF Distance
<1>4. CASE method = 1
  <2> DEFINE key == [a \in Names |-> Distance(a, names)]
  <2>1. key \in [Names -> Int] /\ \A a, b \in Names : Worse(a, b, names) <=> key[a] > key[b]
    BY <1>3, <1>4 DEF Worse
  <2> QED BY <2>1
<1>5. CASE method # 1
  <2> DEFINE key == [a \in Names |-> 0 - Score[a]]
  <2>1. key \in [Names -> Int] /\ \A a, b \in Names : Worse(a, b, names) <=> key[a] > key[b]
    BY <1>1, <1>5 DEF Worse
  <2> QED BY <2>1
<1> QED BY <1>4, <1>5

\* Among players there is somebody to be kicked: one without a score, else one of the worst.
LEMMA ToKickIs ==
  ASSUME TypeOK, NEW i0 \in Indices, NEW n \in Names
  PROVE  /\ ToKick(n) \in Indices
         /\ \/ Score[players[ToKick(n)].name] = NoScore
            \/ /\ \A i \in Indices : Score[players[i].name] # NoScore
               /\ \A i \in Indices : ~Worse(players[i].name, players[ToKick(n)].name, NamesIn \cup {n})
<1> DEFINE names == NamesIn \cup {n}
           unscored == {i \in Indices : Score[players[i].name] = NoScore}
           worst == {i \in Indices : \A j \in Indices : ~Worse(players[j].name, players[i].name, names)}
<1>1. /\ Indices = 1 .. Len(players) /\ Len(players) \in Nat
      /\ \A i \in Indices : players[i].name \in Names
  <2>1. \A i \in Indices : players[i] \in Player
    BY DEF TypeOK, Indices
  <2>2. \A p \in Player : p.name \in Names
    BY DEF Player
  <2>3. Indices = 1 .. Len(players) /\ Len(players) \in Nat
    BY DEF TypeOK, Indices
  <2> QED BY <2>1, <2>2, <2>3
<1>2. IsFiniteSet(Indices) /\ Indices \in SUBSET Int
  BY <1>1, FS_Interval
<1>3. names \in SUBSET Names
  BY <1>1 DEF NamesIn
<1>4. worst # {}
  <2>1. PICK key \in [Names -> Int] : \A a, b \in Names : Worse(a, b, names) <=> key[a] > key[b]
    <3> HIDE DEF names
    <3> QED BY <1>3, WorseOrder
  <2> DEFINE k == [i \in Indices |-> key[players[i].name]]
             U == [i \in Indices |-> {j \in Indices : k[j] > k[i]}]
  <2>2. \A i \in Indices : k[i] \in Int
    BY <1>1, <2>1
  <2> HIDE DEF k
  <2>3. \A i \in Indices : U[i] \subseteq Indices /\ i \notin U[i]
    BY <2>2
  <2>4. ASSUME NEW i \in Indices, NEW j \in U[i] PROVE U[j] \subseteq U[i]
    <3>1. j \in Indices /\ k[j] > k[i]
      OBVIOUS
    <3>2. \A l \in Indices : k[l] > k[j] => k[l] > k[i]
      BY <2>2, <3>1
    <3>3. U[i] = {l \in Indices : k[l] > k[i]} /\ U[j] = {l \in Indices : k[l] > k[j]}
      BY <3>1
    <3> QED BY <3>2, <3>3
  <2>5. PICK m \in Indices : U[m] = {}
    <3> HIDE DEF U
    <3> QED BY <1>2, <2>3, <2>4, Minimal
  <2>6. \A j \in Indices : ~ (k[j] > k[m])
    BY <2>5
  <2>7. \A j \in Indices : ~Worse(players[j].name, players[m].name, names)
    <3> HIDE DEF names
    <3> QED BY <1>1, <2>1, <2>6 DEF k
  <2> HIDE DEF names
  <2> QED BY <2>7
<1>5. CASE unscored # {}
  <2>1. ToKick(n) = Max(unscored)
    BY <1>5 DEF ToKick
  <2>2. unscored \in SUBSET Int /\ IsFiniteSet(unscored)
    BY <1>2, FS_Subset
  <2>3. Max(unscored) \in unscored
    <3> HIDE DEF unscored
    <3> QED BY <1>5, <2>2, Extremes
  <2> QED BY <2>1, <2>3
<1>6. CASE unscored = {}
  <2>1. ToKick(n) = Min(worst)
    BY <1>6 DEF ToKick
  <2>2. worst \in SUBSET Int /\ IsFiniteSet(worst)
    <3>1. worst \in SUBSET Indices
      OBVIOUS
    <3> HIDE DEF worst
    <3> QED BY <1>2, <3>1, FS_Subset
  <2>3. Min(worst) \in worst
    <3> HIDE DEF worst
    <3> QED BY <1>4, <2>2, Extremes
  <2>4. \A i \in Indices : Score[players[i].name] # NoScore
    BY <1>6
  <2> QED BY <2>1, <2>3, <2>4
<1> QED BY <1>5, <1>6

\* The pass over m_Players keeps those who are not marked, each one once.
LEMMA KeptPlayers ==
  ASSUME TypeOK, UpdatePlayers
  PROVE  /\ players' \in Seq(Player)
         /\ \E g \in Bijection(DOMAIN players', {i \in Indices : ~players[i].deleteMe}) :
              \A k \in DOMAIN players' : players'[k] = players[g[k]]
<1> DEFINE left == {i \in Indices : ~players[i].deleteMe}
           place(i) == Cardinality({j \in left : j <= i})
           N == Cardinality(left)
           p == [i \in left |-> place(i)]
           g == [k \in 1 .. N |-> CHOOSE i \in left : place(i) = k]
<1>1. /\ Indices = 1 .. Len(players) /\ Len(players) \in Nat
      /\ \A i \in Indices : players[i] \in Player
  BY DEF TypeOK, Indices
<1>2. left \in SUBSET Int /\ IsFiniteSet(left) /\ N \in Nat
  <2>1. IsFiniteSet(Indices) /\ Indices \in SUBSET Int /\ left \in SUBSET Indices
    BY <1>1, FS_Interval
  <2> HIDE DEF left
  <2> QED BY <2>1, FS_Subset, FS_CardinalityType
<1>3. \A i \in left : p[i] = place(i)
  OBVIOUS
<1>4. ASSUME NEW i \in left
      PROVE  p[i] \in 1 .. N /\ \A j \in left : i < j => p[i] < p[j]
  <2> HIDE DEF left
  <2> DEFINE Upto(j) == {l \in left : l <= j}
  <2>1. \A j : Upto(j) \in SUBSET left
    OBVIOUS
  <2>2. \A j \in left : IsFiniteSet(Upto(j)) /\ Cardinality(Upto(j)) \in Nat /\ Cardinality(Upto(j)) <= N
    BY <1>2, <2>1, FS_Subset, FS_CardinalityType
  <2>3. i \in Upto(i)
    BY <1>2
  <2>4. Cardinality(Upto(i)) # 0
    BY <2>2, <2>3, FS_EmptySet
  <2>5. ASSUME NEW j \in left, i < j PROVE Cardinality(Upto(i)) < Cardinality(Upto(j))
    <3>1. Upto(i) \in SUBSET Upto(j) /\ j \in Upto(j) /\ j \notin Upto(i)
      <4>1. i \in Int /\ j \in Int /\ \A l \in left : l \in Int
        BY <1>2
      <4>2. \A l \in left : l <= i => l <= j
        BY <4>1, <2>5
      <4>3. j <= j /\ ~ (j <= i)
        BY <4>1, <2>5
      <4> QED BY <4>2, <4>3
    <3>2. Upto(i) # Upto(j)
      BY <3>1
    <3> HIDE DEF Upto
    <3>3. Cardinality(Upto(i)) <= Cardinality(Upto(j)) /\ Cardinality(Upto(i)) # Cardinality(Upto(j))
      BY <2>2, <3>1, <3>2, FS_Subset
    <3> QED BY <2>2, <3>3
  <2>6. \A j \in left : p[j] = Cardinality(Upto(j))
    BY <1>3
  <2> HIDE DEF Upto, p
  <2> QED BY <1>2, <2>2, <2>4, <2>5, <2>6
<1>5. p \in Bijection(left, 1 .. N)
  <2> HIDE DEF left
  <2>1. p = [i \in left |-> p[i]]
    OBVIOUS
  <2> HIDE DEF p
  <2>2. p \in [left -> 1 .. N]
    BY <2>1, <1>4
  <2>3. \A i, j \in left : p[i] = p[j] => i = j
    <3> SUFFICES ASSUME NEW i \in left, NEW j \in left, p[i] = p[j], i # j PROVE FALSE
      OBVIOUS
    <3>1. i < j \/ j < i
      BY <1>2
    <3>2. p[i] \in Int /\ p[j] \in Int
      BY <2>2
    <3> QED BY <1>4, <3>1, <3>2
  <2>4. p \in Injection(left, 1 .. N)
    BY <2>2, <2>3 DEF Injection, IsInjective
  <2>5. IsFiniteSet(1 .. N) /\ Cardinality(1 .. N) = N
    <3>1. N \in Int /\ 1 \in Int /\ (1 > N => N = 0) /\ N - 1 + 1 = N
      BY <1>2
    <3> HIDE DEF N
    <3> QED BY <3>1, FS_Interval
  <2>6. p \in Surjection(left, 1 .. N)
    BY <1>2, <2>4, <2>5, FS_Injection
  <2> QED BY <2>4, <2>6 DEF Bijection
<1>6. g \in Bijection(1 .. N, left) /\ \A k \in 1 .. N : g[k] = CHOOSE i \in left : place(i) = k
  <2> HIDE DEF left
  <2>1. /\ p \in [left -> 1 .. N] /\ \A i, j \in left : p[i] = p[j] => i = j
        /\ \A k \in 1 .. N : \E i \in left : p[i] = k
    BY <1>5 DEF Bijection, Injection, Surjection, IsInjective
  <2>2. \A k \in 1 .. N : g[k] \in left /\ p[g[k]] = k /\ g[k] = CHOOSE i \in left : place(i) = k
    BY <1>3, <2>1
  <2>3. g = [k \in 1 .. N |-> g[k]]
    OBVIOUS
  <2> HIDE DEF g, p
  <2>4. g \in [1 .. N -> left]
    BY <2>2, <2>3
  <2>5. \A k, l \in 1 .. N : g[k] = g[l] => k = l
    BY <2>2
  <2>6. \A i \in left : \E k \in 1 .. N : g[k] = i
    <3> SUFFICES ASSUME NEW i \in left PROVE \E k \in 1 .. N : g[k] = i
      OBVIOUS
    <3>1. p[i] \in 1 .. N
      BY <2>1
    <3>2. g[p[i]] = i
      BY <2>1, <2>2, <3>1
    <3> QED BY <3>1, <3>2
  <2> QED BY <2>2, <2>4, <2>5, <2>6 DEF Bijection, Injection, Surjection, IsInjective
<1>7. players' = [k \in 1 .. N |-> players[g[k]]]
  <2>1. players' = [k \in 1 .. N |-> players[CHOOSE i \in left : place(i) = k]]
    BY DEF UpdatePlayers
  <2> HIDE DEF g, left
  <2>2. \A k \in 1 .. N : players[g[k]] = players[CHOOSE i \in left : place(i) = k]
    BY <1>6
  <2> HIDE DEF place
  <2> QED BY <2>1, <2>2
<1> HIDE DEF g
<1>8. \A k \in 1 .. N : g[k] \in left
  BY <1>6 DEF Bijection, Injection
<1>9. players' \in [1 .. N -> Player]
  BY <1>1, <1>7, <1>8
<1>10. players' \in Seq(Player) /\ DOMAIN players' = 1 .. N
  <2> HIDE DEF N
  <2> QED BY <1>2, <1>9, SeqDef
<1>11. \A k \in DOMAIN players' : players'[k] = players[g[k]]
  BY <1>7, <1>10
<1> HIDE DEF left
<1> QED BY <1>6, <1>10, <1>11 DEF left

-----------------------------------------------------------------------------
(* The steps.                                                              *)

\* The players and the slots that Seat goes on with, before it balances
SeatedPlayers(n, gone) ==
    Append([i \in Indices |-> IF i \in gone
              THEN [players[i] EXCEPT !.deleteMe = TRUE, !.leftSent = TRUE] ELSE players[i]],
           [name |-> n, pid |-> GetNewPID(gone), deleteMe |-> FALSE, leftSent |-> FALSE])
SeatedSlots(s, gone) == [slots EXCEPT ![s] = GetNewPID(gone)]

\* The newcomer is the last of the players, nobody else has changed but those who are gone.
LEMMA SeatedPlayersAre ==
  ASSUME SeatInv, NEW n \in Names, ~Taken(n), NEW gone \in SUBSET Indices
  PROVE  LET ps == SeatedPlayers(n, gone)
             last == Len(players) + 1
         IN  /\ ps \in Seq(Player) /\ DOMAIN ps = Indices \cup {last} /\ last \notin Indices
             /\ ps[last] = [name |-> n, pid |-> GetNewPID(gone), deleteMe |-> FALSE, leftSent |-> FALSE]
             /\ \A i \in gone : ps[i].deleteMe /\ ps[i].leftSent
             /\ \A i \in Indices \ gone : ps[i] = players[i]
             /\ \A i \in Indices : ps[i].name = players[i].name /\ ps[i].pid = players[i].pid
<1> DEFINE one == [name |-> n, pid |-> GetNewPID(gone), deleteMe |-> FALSE, leftSent |-> FALSE]
           mark(i) == [players[i] EXCEPT !.deleteMe = TRUE, !.leftSent = TRUE]
           marked == [i \in Indices |-> IF i \in gone THEN mark(i) ELSE players[i]]
<1>1. Indices = 1 .. Len(players) /\ Len(players) \in Nat /\ \A i \in Indices : players[i] \in Player
  BY DEF SeatInv, TypeOK, Indices
<1>2. one \in Player
  BY NewPID DEF Player
<1>3. \A i \in Indices : /\ mark(i) \in Player /\ mark(i).deleteMe /\ mark(i).leftSent
                         /\ mark(i).name = players[i].name /\ mark(i).pid = players[i].pid
  BY <1>1 DEF Player
<1>4. \A i \in Indices : marked[i] = IF i \in gone THEN mark(i) ELSE players[i]
  OBVIOUS
<1>5. marked \in Seq(Player) /\ Len(marked) = Len(players)
  <2> HIDE DEF mark
  <2>1. marked \in [1 .. Len(players) -> Player]
    BY <1>1, <1>3
  <2> HIDE DEF marked
  <2>2. marked \in Seq(Player)
    BY <1>1, <2>1, SeqDef
  <2>3. DOMAIN marked = 1 .. Len(players)
    BY <2>1
  <2> QED BY <1>1, <2>2, <2>3, LenProperties
<1>6. SeatedPlayers(n, gone) = Append(marked, one)
  BY DEF SeatedPlayers
<1> HIDE DEF mark, marked, one
<1> DEFINE ps == Append(marked, one)
           last == Len(players) + 1
<1>7. /\ ps \in Seq(Player) /\ Len(ps) = last /\ ps[last] = one
      /\ \A i \in 1 .. Len(players) : ps[i] = marked[i]
  BY <1>2, <1>5, AppendProperties
<1> HIDE DEF ps
<1>8. DOMAIN ps = Indices \cup {last} /\ last \notin Indices
  <2>1. DOMAIN ps = 1 .. last
    BY <1>7
  <2>2. 1 .. last = (1 .. Len(players)) \cup {last} /\ last \notin 1 .. Len(players)
    BY <1>1
  <2> QED BY <1>1, <2>1, <2>2
<1>9. \A i \in Indices : ps[i] = IF i \in gone THEN mark(i) ELSE players[i]
  BY <1>1, <1>4, <1>7
<1>10. /\ \A i \in gone : ps[i].deleteMe /\ ps[i].leftSent
       /\ \A i \in Indices \ gone : ps[i] = players[i]
       /\ \A i \in Indices : ps[i].name = players[i].name /\ ps[i].pid = players[i].pid
  BY <1>3, <1>9
<1> QED BY <1>6, <1>7, <1>8, <1>10 DEF one, ps

\* A newcomer in an open slot, or in the slot of somebody who goes
LEMMA NewcomerSeated ==
  ASSUME SeatInv, Swept, NEW n \in Names, ~Taken(n), NEW s \in SIDs, NEW gone \in SUBSET Indices,
         \/ slots[s] = 0 /\ gone = {}
         \/ \E i \in Indices : gone = {i} /\ ~players[i].deleteMe /\ slots[s] = players[i].pid
  PROVE  LET ps == SeatedPlayers(n, gone)
         IN  /\ \A i \in DOMAIN ps : ps[i].leftSent => ps[i].deleteMe
             /\ Alone(ps) /\ InSeats(ps, SeatedSlots(s, gone))
             /\ SeatedSlots(s, gone) \in [SIDs -> 0 .. PIDBound]
<1> DEFINE ps == SeatedPlayers(n, gone)
           ss == SeatedSlots(s, gone)
           last == Len(players) + 1
           pid == GetNewPID(gone)
<1>1. /\ DOMAIN ps = Indices \cup {last} /\ last \notin Indices
      /\ ps[last] = [name |-> n, pid |-> pid, deleteMe |-> FALSE, leftSent |-> FALSE]
      /\ \A i \in gone : ps[i].deleteMe /\ ps[i].leftSent
      /\ \A i \in Indices \ gone : ps[i] = players[i]
      /\ \A i \in Indices : ps[i].name = players[i].name /\ ps[i].pid = players[i].pid
  BY SeatedPlayersAre
<1>2. /\ pid \in 1 .. PIDBound
      /\ \A i \in Indices \ gone : players[i].pid = pid => players[i].leftSent
  BY NewPID
<1>3. PIDBound \in Nat
  BY MapTeamsAssumption, ScoresAssumption, FS_CardinalityType DEF PIDBound
<1>4. /\ slots \in [SIDs -> 0 .. PIDBound]
      /\ \A i \in Indices : players[i] \in Player
      /\ \A i \in Indices : players[i].leftSent => players[i].deleteMe
  BY DEF SeatInv, TypeOK, Indices
<1>5. /\ \A i \in Indices : players[i].pid \in 1 .. PIDBound
      /\ \A i \in Indices : ~players[i].leftSent /\ players[i].name # n
  BY <1>4 DEF Player, Swept, Taken
<1>6. /\ ss \in [SIDs -> 0 .. PIDBound] /\ ss[s] = pid
      /\ \A r \in SIDs : r # s => ss[r] = slots[r]
  BY <1>2, <1>3, <1>4 DEF SeatedSlots
<1>7. pid # 0 /\ \A i \in Indices : players[i].pid # 0
  BY <1>2, <1>5
\* Who keeps his place has a slot other than the newcomer's.
<1>8. ASSUME NEW i \in Indices \ gone, ~players[i].deleteMe, NEW r \in SIDs, slots[r] = players[i].pid
      PROVE  r # s
  <2>1. ASSUME NEW j \in Indices, gone = {j}, ~players[j].deleteMe, slots[s] = players[j].pid
        PROVE  r # s
    <3>1. players[i].pid # players[j].pid
      BY <1>5, <1>8, <2>1 DEF SeatInv, Alone, Indices
    <3> QED BY <3>1, <1>8, <2>1
  <2>2. CASE slots[s] = 0
    BY <1>7, <1>8, <2>2
  <2> QED BY <2>1, <2>2
\* Any other slot that is taken is the slot of somebody who keeps it.
<1>9. ASSUME NEW r \in SIDs, r # s, slots[r] # 0
      PROVE  \E i \in Indices \ gone : ~players[i].deleteMe /\ slots[r] = players[i].pid
  <2>1. PICK i \in Indices : ~players[i].deleteMe /\ slots[r] = players[i].pid
    BY <1>9 DEF SeatInv, InSeats, Indices
  <2>2. CASE i \in gone
    <3>1. slots[s] = players[i].pid
      BY <2>2
    <3>2. slots[r] = slots[s]
      BY <2>1, <3>1
    <3> QED BY <3>2, <1>9 DEF SeatInv, InSeats
  <2> QED BY <2>1, <2>2
<1> HIDE DEF ps, ss, pid, last
<1>10. \A i \in DOMAIN ps : ps[i].leftSent => ps[i].deleteMe
  BY <1>1, <1>4
<1>11. Alone(ps)
  <2> SUFFICES ASSUME NEW i \in DOMAIN ps, NEW j \in DOMAIN ps, i # j,
                      ~ps[i].leftSent, ~ps[j].leftSent
               PROVE  ps[i].pid # ps[j].pid /\ ps[i].name # ps[j].name
    BY DEF Alone
  <2>1. CASE i = last
    BY <1>1, <1>2, <1>5, <2>1
  <2>2. CASE j = last
    BY <1>1, <1>2, <1>5, <2>2
  <2>3. CASE i # last /\ j # last
    BY <1>1, <1>5, <2>3 DEF SeatInv, Alone, Indices
  <2> QED BY <2>1, <2>2, <2>3
<1>12. InSeats(ps, ss)
  <2>1. ASSUME NEW i \in DOMAIN ps, ~ps[i].deleteMe PROVE \E r \in SIDs : ss[r] = ps[i].pid
    <3>1. CASE i = last
      BY <1>1, <1>6, <3>1
    <3>2. CASE i # last
      <4>1. i \in Indices \ gone /\ ~players[i].deleteMe /\ ps[i].pid = players[i].pid
        BY <1>1, <2>1, <3>2
      <4>2. PICK r \in SIDs : slots[r] = players[i].pid
        BY <4>1 DEF SeatInv, InSeats, Indices
      <4> QED BY <4>1, <4>2, <1>6, <1>8
    <3> QED BY <3>1, <3>2
  <2>2. ASSUME NEW r \in SIDs, ss[r] # 0
        PROVE  \E i \in DOMAIN ps : ~ps[i].deleteMe /\ ss[r] = ps[i].pid
    <3>1. CASE r = s
      BY <1>1, <1>6, <3>1
    <3>2. CASE r # s
      <4>1. PICK i \in Indices \ gone : ~players[i].deleteMe /\ slots[r] = players[i].pid
        BY <1>6, <1>9, <2>2, <3>2
      <4> QED BY <4>1, <1>1, <1>6, <3>2
    <3> QED BY <3>1, <3>2
  <2>3. \A r \in SIDs : r # s => ss[r] # pid
    <3> SUFFICES ASSUME NEW r \in SIDs, r # s, ss[r] = pid PROVE FALSE
      OBVIOUS
    <3>1. slots[r] = pid /\ slots[r] # 0
      BY <1>6, <1>7
    <3> QED BY <3>1, <1>2, <1>5, <1>9
  <2>4. ASSUME NEW r \in SIDs, NEW q \in SIDs, ss[r] = ss[q], ss[r] # 0 PROVE r = q
    <3>1. CASE r = s \/ q = s
      BY <1>6, <2>3, <2>4, <3>1
    <3>2. CASE r # s /\ q # s
      BY <1>6, <2>4, <3>2 DEF SeatInv, InSeats
    <3> QED BY <3>1, <3>2
  <2> QED BY <2>1, <2>2, <2>4 DEF InSeats
<1> QED BY <1>6, <1>10, <1>11, <1>12 DEF ps, ss

\* What Seat leaves
LEMMA SeatStep ==
  ASSUME SeatInv, Swept, NEW n \in Names, ~Taken(n), NEW s \in SIDs, NEW gone \in SUBSET Indices,
         \/ slots[s] = 0 /\ gone = {}
         \/ \E i \in Indices : gone = {i} /\ ~players[i].deleteMe /\ slots[s] = players[i].pid,
         Seat(n, s, gone)
  PROVE  /\ players' = SeatedPlayers(n, gone) /\ players' \in Seq(Player)
         /\ slots' \in [SIDs -> 0 .. PIDBound]
         /\ \A i \in DOMAIN players' : players'[i].leftSent => players'[i].deleteMe
         /\ Alone(players') /\ InSeats(players', slots')
<1> DEFINE ps == SeatedPlayers(n, gone)
           ss == SeatedSlots(s, gone)
<1>1. players' = ps /\ (BalanceSlots(ps, ss) \/ slots' = ss)
  BY Zenon DEF Seat, SeatedPlayers, SeatedSlots
<1>2. /\ ps \in Seq(Player) /\ ss \in [SIDs -> 0 .. PIDBound] /\ InSeats(ps, ss) /\ Alone(ps)
      /\ \A i \in DOMAIN ps : ps[i].leftSent => ps[i].deleteMe
  BY SeatedPlayersAre, NewcomerSeated
<1> HIDE DEF ps, ss
<1>3. slots' \in Rearranged(ss)
  BY <1>1, <1>2, Swaps, BalancedIsRearranged
<1>4. slots' \in [SIDs -> 0 .. PIDBound] /\ InSeats(ps, slots')
  BY <1>2, <1>3, SeatsRearranged
<1> QED BY <1>1, <1>2, <1>4 DEF ps

\* A lobby begins with open slots and nobody in it.
LEMMA InitSeatInv == Init => SeatInv
<1> SUFFICES ASSUME Init PROVE SeatInv
  OBVIOUS
<1>1. PIDBound \in Nat /\ MaxJoins \in Nat
  BY MapTeamsAssumption, ScoresAssumption, BoundsAssumption, FS_CardinalityType DEF PIDBound
<1>2. players = << >> /\ Indices = {} /\ players \in Seq(Player)
  BY DEF Init, Indices
<1>3. \A s \in SIDs : slots[s] = 0
  BY DEF Init
<1>4. TypeOK
  BY <1>1, <1>2 DEF Init, TypeOK
<1>5. Alone(players) /\ InSeats(players, slots) /\ Swept
  BY <1>2, <1>3 DEF Alone, InSeats, Swept, Indices
<1> QED BY <1>2, <1>4, <1>5 DEF SeatInv

\* In the full lobby of a pass everybody is there to stay, and somebody is there.
LEMMA FullLobby ==
  ASSUME SeatInv, Swept, {s \in SIDs : slots[s] = 0} = {}
  PROVE  /\ \A i \in Indices : ~players[i].deleteMe /\ ~players[i].leftSent
         /\ \E i \in Indices : TRUE
<1>1. \A i \in Indices : ~players[i].deleteMe /\ ~players[i].leftSent
  BY DEF Swept
<1>2. 1 \in SIDs
  BY MapTeamsAssumption DEF SIDs
<1>3. \E i \in Indices : TRUE
  BY <1>2 DEF SeatInv, InSeats, Indices
<1> QED BY <1>1, <1>3

\* The slot that is found for somebody who is not marked is his own.
LEMMA OwnSlot ==
  ASSUME SeatInv, NEW i \in Indices, ~players[i].deleteMe
  PROVE  LET s == GetSIDFromPID(players[i].pid)
         IN  s \in SIDs /\ s # NoSID /\ slots[s] = players[i].pid
<1> DEFINE held == {s \in SIDs : slots[s] = players[i].pid}
<1>1. SIDs = 1 .. Len(MapTeams) /\ Len(MapTeams) \in Int /\ 1 \in Int
  BY MapTeamsAssumption DEF SIDs
<1>2. held # {} /\ held \in SUBSET SIDs
  BY DEF SeatInv, InSeats, Indices
<1>3. held \in SUBSET Int /\ IsFiniteSet(held)
  <2> HIDE DEF held
  <2>1. IsFiniteSet(held)
    BY <1>1, <1>2, FS_Interval, FS_Subset
  <2> QED BY <1>1, <1>2, <2>1
<1>4. Min(held) \in held
  <2> HIDE DEF held
  <2> QED BY <1>2, <1>3, Extremes
<1>5. GetSIDFromPID(players[i].pid) = Min(held)
  BY <1>2 DEF GetSIDFromPID
<1> QED BY <1>1, <1>4, <1>5 DEF NoSID

\* What may happen to a newcomer whose score arrives
LEMMA JoinedOutcomes ==
  ASSUME SeatInv, Swept, NEW n \in Names, EventPlayerJoinedWithScore(n)
  PROVE  \/ UNCHANGED << players, slots >>
         \/ /\ ~Taken(n)
            /\ \E s \in SIDs : slots[s] = 0 /\ Seat(n, s, {})
         \/ /\ ~Taken(n) /\ {s \in SIDs : slots[s] = 0} = {}
            /\ \E i \in Displaced(n) :
                 /\ i \in Indices /\ ~players[i].deleteMe
                 /\ \E s \in SIDs : slots[s] = players[i].pid /\ Seat(n, s, {i})
<1> DEFINE free == {s \in SIDs : slots[s] = 0}
<1>1. CASE (Taken(n) \/ OutsideLimits(n)) /\ Rejected
  BY <1>1 DEF Rejected
<1>2. CASE ~Taken(n) /\ ~OutsideLimits(n) /\ free = {} /\ Displaced(n) = {} /\ Rejected
  BY <1>2 DEF Rejected
<1>3. CASE ~Taken(n) /\ ~OutsideLimits(n) /\ free # {} /\ Seat(n, Min(free), {})
  <2>1. SIDs = 1 .. Len(MapTeams) /\ Len(MapTeams) \in Int /\ 1 \in Int
    BY MapTeamsAssumption DEF SIDs
  <2>2. free \in SUBSET SIDs
    OBVIOUS
  <2>3. Min(free) \in free
    <3> HIDE DEF free
    <3>1. IsFiniteSet(free)
      BY <2>1, <2>2, FS_Interval, FS_Subset
    <3>2. free \in SUBSET Int
      BY <2>1, <2>2
    <3> QED BY <1>3, <3>1, <3>2, Extremes
  <2> QED BY <1>3, <2>3
<1>4. CASE /\ ~Taken(n) /\ ~OutsideLimits(n) /\ free = {}
           /\ \E i \in Displaced(n) :
                LET s == GetSIDFromPID(players[i].pid)
                    mark(p) == [p EXCEPT !.deleteMe = TRUE, !.leftSent = TRUE]
                IN  IF s = NoSID
                    THEN players' = [players EXCEPT ![i] = mark(@)] /\ UNCHANGED slots
                    ELSE Seat(n, s, {i})
  <2>1. PICK i \in Displaced(n) :
               GetSIDFromPID(players[i].pid) # NoSID => Seat(n, GetSIDFromPID(players[i].pid), {i})
    BY <1>4
  <2>2. i = ToKick(n)
    BY DEF Displaced
  <2>3. i \in Indices /\ ~players[i].deleteMe
    BY <1>4, <2>2, FullLobby, ToKickIs DEF SeatInv
  <2>4. /\ GetSIDFromPID(players[i].pid) \in SIDs /\ GetSIDFromPID(players[i].pid) # NoSID
        /\ slots[GetSIDFromPID(players[i].pid)] = players[i].pid
    BY <2>3, OwnSlot
  <2> QED BY <1>4, <2>1, <2>3, <2>4
<1>5. \/ (Taken(n) \/ OutsideLimits(n)) /\ Rejected
      \/ ~Taken(n) /\ ~OutsideLimits(n) /\ free = {} /\ Displaced(n) = {} /\ Rejected
      \/ ~Taken(n) /\ ~OutsideLimits(n) /\ free # {} /\ Seat(n, Min(free), {})
      \/ /\ ~Taken(n) /\ ~OutsideLimits(n) /\ free = {}
         /\ \E i \in Displaced(n) :
              LET s == GetSIDFromPID(players[i].pid)
                  mark(p) == [p EXCEPT !.deleteMe = TRUE, !.leftSent = TRUE]
              IN  IF s = NoSID
                  THEN players' = [players EXCEPT ![i] = mark(@)] /\ UNCHANGED slots
                  ELSE Seat(n, s, {i})
  BY Zenon DEF EventPlayerJoinedWithScore
<1> QED BY <1>1, <1>2, <1>3, <1>4, <1>5

\* A score arrives.
LEMMA JoinedWithScoreStep ==
  ASSUME MaxJoins = 1, SeatInv, NEW n \in Names, EventPlayerJoinedWithScore(n)
  PROVE  SeatInv'
<1>1. /\ joins = 0 /\ joins' = 1 /\ checks' \subseteq checks /\ method' = method
  <2>1. joins < MaxJoins /\ joins' = joins + 1 /\ checks' = checks \ {n} /\ method' = method
    BY Zenon DEF EventPlayerJoinedWithScore
  <2>2. joins \in 0 .. MaxJoins
    BY DEF SeatInv, TypeOK
  <2> QED BY <2>1, <2>2
<1>2. Swept
  BY <1>1 DEF SeatInv
<1>3. SUFFICES /\ players' \in Seq(Player) /\ slots' \in [SIDs -> 0 .. PIDBound]
               /\ \A i \in DOMAIN players' : players'[i].leftSent => players'[i].deleteMe
               /\ Alone(players') /\ InSeats(players', slots')
  BY <1>1 DEF SeatInv, TypeOK, Alone, InSeats, Indices
<1>4. CASE UNCHANGED << players, slots >>
  BY <1>4 DEF SeatInv, TypeOK, Indices
<1>5. ASSUME ~Taken(n), NEW s \in SIDs, slots[s] = 0, Seat(n, s, {})
      PROVE  /\ players' \in Seq(Player) /\ slots' \in [SIDs -> 0 .. PIDBound]
             /\ \A i \in DOMAIN players' : players'[i].leftSent => players'[i].deleteMe
             /\ Alone(players') /\ InSeats(players', slots')
  BY <1>2, <1>5, SeatStep
<1>6. ASSUME ~Taken(n), NEW i \in Indices, ~players[i].deleteMe,
             NEW s \in SIDs, slots[s] = players[i].pid, Seat(n, s, {i})
      PROVE  /\ players' \in Seq(Player) /\ slots' \in [SIDs -> 0 .. PIDBound]
             /\ \A j \in DOMAIN players' : players'[j].leftSent => players'[j].deleteMe
             /\ Alone(players') /\ InSeats(players', slots')
  <2>1. {i} \in SUBSET Indices
    OBVIOUS
  <2> QED BY <1>2, <1>6, <2>1, SeatStep
<1> QED BY <1>2, <1>4, <1>5, <1>6, JoinedOutcomes

\* A player leaves, and his slot is open.
LEMMA LeftStep ==
  ASSUME SeatInv, NEW i \in Indices, EventPlayerLeft(i)
  PROVE  SeatInv'
<1> DEFINE s == GetSIDFromPID(players[i].pid)
<1>1. /\ ~players[i].deleteMe /\ players' = [players EXCEPT ![i].deleteMe = TRUE]
      /\ slots' = [r \in SIDs |-> IF r = s THEN 0 ELSE slots[r]]
      /\ UNCHANGED << method, checks, joins >>
  BY DEF EventPlayerLeft
<1>2. s \in SIDs /\ slots[s] = players[i].pid
  BY <1>1, OwnSlot
<1> HIDE DEF s
<1>3. /\ Indices = 1 .. Len(players) /\ players \in Seq(Player)
      /\ \A j \in Indices : players[j] \in Player
  BY DEF SeatInv, TypeOK, Indices
<1>4. /\ DOMAIN players' = Indices
      /\ players'[i] = [players[i] EXCEPT !.deleteMe = TRUE]
      /\ \A j \in Indices : j # i => players'[j] = players[j]
  <2>1. players = [j \in Indices |-> players[j]]
    BY <1>3
  <2>2. players' = [j \in Indices |-> IF j = i THEN [players[i] EXCEPT !.deleteMe = TRUE]
                                               ELSE players[j]]
    BY <1>1, <2>1
  <2> QED BY <2>2
<1>5. /\ [players[i] EXCEPT !.deleteMe = TRUE] \in Player
      /\ [players[i] EXCEPT !.deleteMe = TRUE].deleteMe
      /\ [players[i] EXCEPT !.deleteMe = TRUE].leftSent = players[i].leftSent
      /\ [players[i] EXCEPT !.deleteMe = TRUE].pid = players[i].pid
      /\ [players[i] EXCEPT !.deleteMe = TRUE].name = players[i].name
  BY <1>3 DEF Player
<1>6. players' \in Seq(Player)
  BY <1>1, <1>3, <1>5, ExceptSeq
<1>7. /\ players'[i].deleteMe
      /\ \A j \in Indices : /\ players'[j].leftSent = players[j].leftSent
                            /\ players'[j].pid = players[j].pid /\ players'[j].name = players[j].name
                            /\ j # i => players'[j].deleteMe = players[j].deleteMe
  BY <1>4, <1>5
<1>8. \A j \in Indices : players[j].pid \in 1 .. PIDBound /\ players[j].pid # 0
  BY <1>3 DEF Player
<1>9. slots' \in [SIDs -> 0 .. PIDBound] /\ \A r \in SIDs : slots'[r] = IF r = s THEN 0 ELSE slots[r]
  <2>1. PIDBound \in Nat
    BY MapTeamsAssumption, ScoresAssumption, FS_CardinalityType DEF PIDBound
  <2> QED BY <1>1, <2>1 DEF SeatInv, TypeOK
<1>10. \A j \in Indices : players'[j].leftSent => players'[j].deleteMe
  BY <1>7 DEF SeatInv
<1>11. Alone(players')
  BY <1>4, <1>7 DEF SeatInv, Alone, Indices
<1>12. InSeats(players', slots')
  <2>1. ASSUME NEW j \in Indices, ~players'[j].deleteMe
        PROVE  \E r \in SIDs : slots'[r] = players'[j].pid
    <3>1. j # i /\ ~players[j].deleteMe /\ players'[j].pid = players[j].pid
      BY <1>7, <2>1
    <3>2. PICK r \in SIDs : slots[r] = players[j].pid
      BY <3>1 DEF SeatInv, InSeats, Indices
    <3>3. players[j].pid # players[i].pid
      BY <1>1, <3>1 DEF SeatInv, Alone, Indices
    <3> QED BY <1>2, <1>9, <3>1, <3>2, <3>3
  <2>2. ASSUME NEW r \in SIDs, slots'[r] # 0
        PROVE  \E j \in Indices : ~players'[j].deleteMe /\ slots'[r] = players'[j].pid
    <3>1. r # s /\ slots'[r] = slots[r] /\ slots[r] # 0
      BY <1>9, <2>2
    <3>2. PICK j \in Indices : ~players[j].deleteMe /\ slots[r] = players[j].pid
      BY <3>1 DEF SeatInv, InSeats, Indices
    <3>3. j # i
      BY <1>2, <3>1, <3>2 DEF SeatInv, InSeats
    <3> QED BY <1>7, <3>1, <3>2, <3>3
  <2>3. ASSUME NEW r \in SIDs, NEW q \in SIDs, slots'[r] = slots'[q], slots'[r] # 0 PROVE r = q
    BY <1>9, <2>3 DEF SeatInv, InSeats
  <2> QED BY <1>4, <2>1, <2>2, <2>3 DEF InSeats
<1>13. joins' = 0 => Swept'
  BY <1>1, <1>2, <1>4, <1>7, <1>9 DEF SeatInv, Swept, Indices
<1> QED BY <1>1, <1>4, <1>6, <1>9, <1>10, <1>11, <1>12, <1>13 DEF SeatInv, TypeOK, Indices

\* The marked are deleted.
LEMMA UpdateStep ==
  ASSUME SeatInv, UpdatePlayers
  PROVE  SeatInv'
<1> DEFINE left == {i \in Indices : ~players[i].deleteMe}
<1>1. joins' = 0 /\ UNCHANGED << method, checks, slots >>
  BY DEF UpdatePlayers
<1>2. players' \in Seq(Player)
  BY KeptPlayers DEF SeatInv
<1>3. PICK g \in Bijection(DOMAIN players', left) : \A k \in DOMAIN players' : players'[k] = players[g[k]]
  BY KeptPlayers DEF SeatInv
<1>4. /\ \A k \in DOMAIN players' : g[k] \in left
      /\ \A k, l \in DOMAIN players' : g[k] = g[l] => k = l
      /\ \A i \in left : \E k \in DOMAIN players' : g[k] = i
  <2> HIDE DEF left
  <2> QED BY DEF Bijection, Injection, Surjection, IsInjective
<1>5. \A k \in DOMAIN players' : g[k] \in Indices /\ ~players'[k].deleteMe /\ ~players'[k].leftSent
  BY <1>3, <1>4 DEF SeatInv
<1>6. Alone(players')
  BY <1>3, <1>4, <1>5 DEF SeatInv, Alone, Indices
<1>7. InSeats(players', slots')
  <2>1. ASSUME NEW k \in DOMAIN players' PROVE \E s \in SIDs : slots[s] = players'[k].pid
    BY <1>3, <1>5 DEF SeatInv, InSeats, Indices
  <2>2. ASSUME NEW s \in SIDs, slots[s] # 0
        PROVE  \E k \in DOMAIN players' : ~players'[k].deleteMe /\ slots[s] = players'[k].pid
    <3>1. PICK i \in left : slots[s] = players[i].pid
      BY <2>2 DEF SeatInv, InSeats, Indices
    <3> QED BY <3>1, <1>3, <1>4, <1>5
  <2>3. \A s, r \in SIDs : slots[s] = slots[r] /\ slots[s] # 0 => s = r
    BY DEF SeatInv, InSeats
  <2> QED BY <1>1, <2>1, <2>2, <2>3 DEF InSeats
<1>8. TypeOK'
  <2>1. MaxJoins \in Nat
    BY BoundsAssumption
  <2> QED BY <1>1, <1>2, <2>1 DEF SeatInv, TypeOK
<1>9. Swept'
  BY <1>5 DEF Swept, Indices
<1> QED BY <1>5, <1>6, <1>7, <1>8, <1>9 DEF SeatInv, Indices

\* Every step keeps the seats right.
LEMMA StepSeatInv ==
  ASSUME MaxJoins = 1, SeatInv, [Next]_vars
  PROVE  SeatInv'
<1>1. ASSUME NEW n \in Names, EventPlayerJoined(n) PROVE SeatInv'
  <2>1. UNCHANGED << method, players, slots, joins >> /\ checks' = checks \cup {n}
    BY <1>1 DEF EventPlayerJoined
  <2> QED BY <2>1 DEF SeatInv, TypeOK, Swept, Indices
<1>2. CASE UNCHANGED vars
  BY <1>2 DEF vars, SeatInv, TypeOK, Swept, Indices
<1> QED BY <1>1, <1>2, JoinedWithScoreStep, LeftStep, UpdateStep DEF Next

(* While scores arrive one by one between the passes over m_Players, who   *)
(* is not marked has a slot of his own, and no other slot is taken: through*)
(* displacements, balancing and shuffling, for any scores, slots and teams.*)
THEOREM EverybodyHasASeat ==
  ASSUME MaxJoins = 1
  PROVE  Spec => []SeatsOK
<1>1. Init => SeatInv
  BY InitSeatInv
<1>2. SeatInv /\ [Next]_vars => SeatInv'
  BY StepSeatInv
<1>3. SeatInv => SeatsOK
  BY SeatsAreCounted DEF SeatInv, SeatsOK
<1> QED BY <1>1, <1>2, <1>3, PTL DEF Spec

-----------------------------------------------------------------------------
(* Who goes.                                                               *)

\* Who is in the lobby is one of Names.
LEMMA NamesAreTyped ==
  ASSUME TypeOK
  PROVE  \A i \in Indices : players[i].name \in Names
<1>1. \A i \in Indices : players[i] \in Player
  BY DEF TypeOK, Indices
<1>2. \A p \in Player : p.name \in Names
  BY DEF Player
<1> QED BY <1>1, <1>2

\* What happens to a newcomer in a full lobby
LEMMA FullOutcomes ==
  ASSUME SeatInv, Swept, NEW n \in Names, EventPlayerJoinedWithScore(n),
         ~Taken(n), ~OutsideLimits(n), {s \in SIDs : slots[s] = 0} = {}
  PROVE  \/ UNCHANGED << players, slots >> /\ Displaced(n) = {}
         \/ \E i \in Displaced(n) : \E s \in SIDs : slots[s] = players[i].pid /\ Seat(n, s, {i})
<1> DEFINE free == {s \in SIDs : slots[s] = 0}
<1>1. \/ UNCHANGED << players, slots >> /\ Displaced(n) = {}
      \/ \E i \in Displaced(n) :
           LET s == GetSIDFromPID(players[i].pid)
               mark(p) == [p EXCEPT !.deleteMe = TRUE, !.leftSent = TRUE]
           IN  IF s = NoSID
               THEN players' = [players EXCEPT ![i] = mark(@)] /\ UNCHANGED slots
               ELSE Seat(n, s, {i})
  BY Zenon DEF EventPlayerJoinedWithScore, Rejected
<1>2. ASSUME NEW i \in Displaced(n),
             GetSIDFromPID(players[i].pid) # NoSID => Seat(n, GetSIDFromPID(players[i].pid), {i})
      PROVE  \E s \in SIDs : slots[s] = players[i].pid /\ Seat(n, s, {i})
  <2>1. i = ToKick(n)
    BY DEF Displaced
  <2>2. i \in Indices /\ ~players[i].deleteMe
    BY <2>1, FullLobby, ToKickIs DEF SeatInv
  <2>3. /\ GetSIDFromPID(players[i].pid) \in SIDs /\ GetSIDFromPID(players[i].pid) # NoSID
        /\ slots[GetSIDFromPID(players[i].pid)] = players[i].pid
    BY <2>2, OwnSlot
  <2> QED BY <1>2, <2>3
<1> QED BY <1>1, <1>2

\* Among all, nobody is worse than the one who goes, or he has no score.
LEMMA WorstOfAll ==
  ASSUME SeatInv, NEW i0 \in Indices, NEW n \in Names, method # 0
  PROVE  LET all == NamesIn \cup {n}
             i == ToKick(n)
             out == IF Displaced(n) = {} THEN n ELSE players[i].name
         IN  \/ Score[out] = NoScore
             \/ /\ \A m \in all : Score[m] # NoScore
                /\ \A m \in all : ~Worse(m, out, all)
<1> DEFINE all == NamesIn \cup {n}
           i == ToKick(n)
           kicked == players[i].name
<1>1. /\ i \in Indices
      /\ \/ Score[kicked] = NoScore
         \/ /\ \A j \in Indices : Score[players[j].name] # NoScore
            /\ \A j \in Indices : ~Worse(players[j].name, kicked, all)
  BY ToKickIs DEF SeatInv
<1>2. all = {players[j].name : j \in Indices} \cup {n}
  BY DEF NamesIn
<1>3. \A j \in Indices : players[j].name \in Names
  BY NamesAreTyped DEF SeatInv
<1>4. all \in SUBSET Names
  BY <1>2, <1>3
<1>5. Displaced(n) = IF \/ Score[n] = NoScore
                        \/ Score[kicked] # NoScore /\ Worse(n, kicked, all)
                     THEN {} ELSE {i}
  BY DEF Displaced
<1> HIDE DEF all, i, kicked
<1>6. PICK key \in [Names -> Int] : \A a, b \in Names : Worse(a, b, all) <=> key[a] > key[b]
  BY <1>4, WorseOrder
<1>7. kicked \in Names
  BY <1>1, <1>3 DEF kicked
<1>8. CASE Displaced(n) = {}
  <2>1. CASE Score[n] # NoScore
    <3>1. Score[kicked] # NoScore /\ Worse(n, kicked, all)
      BY <1>5, <1>8, <2>1
    <3>2. \A j \in Indices : Score[players[j].name] # NoScore /\ ~Worse(players[j].name, kicked, all)
      BY <1>1, <3>1
    <3>3. \A m \in all : Score[m] # NoScore
      BY <1>2, <2>1, <3>2
    <3>4. key[n] > key[kicked] /\ key[n] \in Int /\ key[kicked] \in Int
      BY <1>6, <1>7, <3>1
    <3>5. ASSUME NEW m \in all PROVE ~ (key[m] > key[n])
      <4>1. CASE m = n
        BY <3>4, <4>1
      <4>2. CASE m # n
        <5>1. m \in Names /\ ~Worse(m, kicked, all)
          BY <1>2, <1>3, <3>2, <4>2
        <5>2. ~ (key[m] > key[kicked]) /\ key[m] \in Int
          BY <1>6, <1>7, <5>1
        <5> QED BY <3>4, <5>2
      <4> QED BY <4>1, <4>2
    <3>6. \A m \in all : ~Worse(m, n, all)
      BY <1>4, <1>6, <3>5
    <3> QED BY <1>8, <3>3, <3>6 DEF all
  <2> QED BY <1>8, <2>1
<1>9. CASE Displaced(n) # {}
  <2>1. CASE Score[kicked] # NoScore
    <3>1. \A j \in Indices : Score[players[j].name] # NoScore /\ ~Worse(players[j].name, kicked, all)
      BY <1>1, <2>1
    <3>2. Score[n] # NoScore /\ ~Worse(n, kicked, all)
      BY <1>5, <1>9, <2>1
    <3>3. \A m \in all : Score[m] # NoScore /\ ~Worse(m, kicked, all)
      BY <1>2, <3>1, <3>2
    <3> QED BY <1>9, <3>3 DEF all, kicked, i
  <2> QED BY <1>9, <2>1 DEF kicked, i
<1> QED BY <1>8, <1>9

\* The score that arrives in a full lobby sends somebody worst of all away.
LEMMA WorstStep ==
  ASSUME MaxJoins = 1, SeatInv, NEW n \in Names, EventPlayerJoinedWithScore(n),
         method # 0, ~Taken(n), ~OutsideLimits(n), \A s \in SIDs : slots[s] # 0
  PROVE  WorstIsOut(n)
<1> DEFINE all == Staying \cup {n}
           scored == {m \in all : Score[m] # NoScore}
           sum == SumFunctionOnSet(Score, scored)
           Far(m) == LET d == Cardinality(scored) * Score[m] - sum IN IF d < 0 THEN -d ELSE d
           i == ToKick(n)
           out == IF Displaced(n) = {} THEN n ELSE players[i].name
<1>1. Swept
  <2>1. joins < MaxJoins
    BY Zenon DEF EventPlayerJoinedWithScore
  <2>2. joins = 0
    BY <2>1 DEF SeatInv, TypeOK
  <2> QED BY <2>2 DEF SeatInv
<1>2. {s \in SIDs : slots[s] = 0} = {}
  OBVIOUS
<1>3. PICK i0 \in Indices : \A j \in Indices : ~players[j].deleteMe /\ ~players[j].leftSent
  BY <1>1, <1>2, FullLobby
<1>4. Staying = NamesIn /\ Staying = {players[j].name : j \in Indices} /\ n \notin Staying
  BY <1>3 DEF Staying, NamesIn, Taken
<1>5. i \in Indices /\ (Displaced(n) = {} \/ Displaced(n) = {i})
  BY <1>3, ToKickIs DEF SeatInv, Displaced
<1>6. out \in all
  BY <1>4, <1>5
<1>7. StayingNext = all \ {out}
  <2>1. CASE UNCHANGED players /\ Displaced(n) = {}
    <3>1. StayingNext = Staying
      BY <2>1 DEF Staying, StayingNext, Indices
    <3> QED BY <1>4, <2>1, <3>1
  <2>2. ASSUME NEW s \in SIDs, i \in Displaced(n), slots[s] = players[i].pid, Seat(n, s, {i})
        PROVE  StayingNext = all \ {out}
    <3> DEFINE last == Len(players) + 1
    <3>1. players' = SeatedPlayers(n, {i})
      BY <1>1, <1>3, <1>5, <2>2, SeatStep
    <3>2. /\ DOMAIN players' = Indices \cup {last} /\ last \notin Indices
          /\ players'[last].name = n /\ ~players'[last].deleteMe
          /\ players'[i].deleteMe
          /\ \A j \in Indices \ {i} : players'[j] = players[j]
      <4> HIDE DEF i
      <4>1. {i} \in SUBSET Indices /\ i \in {i}
        BY <1>5
      <4> DEFINE ps == SeatedPlayers(n, {i})
      <4>2. /\ DOMAIN ps = Indices \cup {last} /\ last \notin Indices
            /\ ps[last] = [name |-> n, pid |-> GetNewPID({i}), deleteMe |-> FALSE, leftSent |-> FALSE]
            /\ \A j \in {i} : ps[j].deleteMe
            /\ \A j \in Indices \ {i} : ps[j] = players[j]
        BY <4>1, SeatedPlayersAre
      <4> HIDE DEF ps, last
      <4>3. ps[last].name = n /\ ~ps[last].deleteMe
        BY <4>2
      <4>4. players' = ps
        BY <3>1 DEF ps
      <4> QED BY <4>1, <4>2, <4>3, <4>4
    <3>3. \A j \in Indices \ {i} : players[j].name # players[i].name
      BY <1>3, <1>5 DEF SeatInv, Alone, Indices
    <3>4. {j \in DOMAIN players' : ~players'[j].deleteMe} = (Indices \ {i}) \cup {last}
      BY <1>3, <1>5, <3>2
    <3>5. StayingNext = {players[j].name : j \in Indices \ {i}} \cup {n}
      <4> HIDE DEF i, last
      <4>1. StayingNext = {players'[j].name : j \in (Indices \ {i}) \cup {last}}
        BY <3>4 DEF StayingNext
      <4> QED BY <3>2, <4>1
    <3>6. out = players[i].name
      BY <2>2
    <3> HIDE DEF i, out
    <3> QED BY <1>4, <1>5, <3>3, <3>5, <3>6
  <2>3. \/ UNCHANGED << players, slots >> /\ Displaced(n) = {}
        \/ \E j \in Displaced(n) : \E s \in SIDs : slots[s] = players[j].pid /\ Seat(n, s, {j})
    BY <1>1, <1>2, FullOutcomes
  <2> HIDE DEF i, out, all
  <2> QED BY <1>5, <2>1, <2>2, <2>3
<1>8. \/ out \notin scored
      \/ scored = all /\ \A m \in all : ~Worse(m, out, all)
  <2>1. all = NamesIn \cup {n}
    BY <1>4
  <2>2. \/ Score[out] = NoScore
        \/ /\ \A m \in all : Score[m] # NoScore
           /\ \A m \in all : ~Worse(m, out, all)
    BY <1>3, <2>1, WorstOfAll
  <2> QED BY <2>2
<1>9. all \in SUBSET Names
  BY <1>4, NamesAreTyped DEF SeatInv
<1>10. \/ out \notin scored
       \/ IF method = 1 THEN \A m \in all : ~ (Far(m) > Far(out))
                        ELSE \A m \in all : ~ (Score[m] < Score[out])
  <2>1. Scored(all) = scored
    BY DEF Scored
  <2>2. \A m : Distance(m, all) = Far(m)
    BY <2>1 DEF Distance
  <2> HIDE DEF all, scored, out, Far
  <2> QED BY <1>8, <2>2 DEF Worse
<1>11. /\ \A m \in all : Far(m) \in Int /\ Score[m] \in Int
       /\ \A a, b \in Int : ~ (a > b) => a <= b
  <2>1. IsFiniteSet(scored) /\ scored \in SUBSET Names
    BY <1>9, ScoresAssumption, FS_Subset
  <2>2. sum \in Int /\ Cardinality(scored) \in Int
    <3> HIDE DEF scored
    <3> QED BY <2>1, ScoresAssumption, SumIsInt, FS_CardinalityType
  <2>3. ASSUME NEW m \in all PROVE Far(m) \in Int /\ Score[m] \in Int
    <3>1. Score[m] \in Int
      BY <1>9, ScoresAssumption
    <3>2. Cardinality(scored) * Score[m] \in Int
      BY <2>2, <3>1
    <3> DEFINE product == Cardinality(scored) * Score[m]
    <3>3. Far(m) = IF product - sum < 0 THEN -(product - sum) ELSE product - sum
      OBVIOUS
    <3>4. product \in Int
      BY <3>2
    <3> HIDE DEF scored, sum, product, Far
    <3> QED BY <2>2, <3>1, <3>3, <3>4
  <2>4. \A a, b \in Int : ~ (a > b) => a <= b
    OBVIOUS
  <2> HIDE DEF all, Far
  <2> QED BY <2>3, <2>4
<1> HIDE DEF i, out
<1>12. \/ out \notin scored
       \/ /\ scored = all
          /\ IF method = 1 THEN \A m \in all : Far(m) <= Far(out)
             ELSE \A m \in all : Score[out] <= Score[m]
  <2> HIDE DEF all, scored, Far
  <2> QED BY <1>6, <1>8, <1>10, <1>11
<1> QED BY <1>6, <1>7, <1>12 DEF WorstIsOut

(* A newcomer with an acceptable score in a full game of matchmaking       *)
(* sends somebody worst of all away: one without a score, else the one     *)
(* furthest from the average (method 1) or with the lowest score.          *)
THEOREM WorstPlayerGoes ==
  ASSUME MaxJoins = 1
  PROVE  Spec => WorstGoes
<1> DEFINE A == \A n \in Names :
                  EventPlayerJoinedWithScore(n) /\ method # 0 /\ ~Taken(n) /\ ~OutsideLimits(n)
                    /\ (\A s \in SIDs : slots[s] # 0) => WorstIsOut(n)
<1>1. Spec => []SeatInv
  <2>1. Init => SeatInv
    BY InitSeatInv
  <2>2. SeatInv /\ [Next]_vars => SeatInv'
    BY StepSeatInv
  <2> QED BY <2>1, <2>2, PTL DEF Spec
<1>2. SeatInv /\ [Next]_vars => [A]_vars
  BY WorstStep
<1>3. []SeatInv /\ [][Next]_vars => [][A]_vars
  <2> HIDE DEF A
  <2> QED BY <1>2, PTL
<1> QED BY <1>1, <1>3, PTL DEF Spec, WorstGoes
=============================================================================
