--------------------------- MODULE MemoriaProofs ---------------------------
(***************************************************************************)
(* Theorems about the memory of Memoria.tla, for any sessions, files,      *)
(* setups and numbers of starts: its types, that kept summaries of chats   *)
(* are not lost, that a file's Markdown is about the content the index has *)
(* of it, that a search shows what it should, and that the preference an   *)
(* account got last stays in its file.                                     *)
(***************************************************************************)
EXTENDS Memoria, FiniteSetTheorems, SequenceTheorems, TLAPS

(* A set of numbers that is not empty has a least element: of the          *)
(* intervals that end in one of them, one has no other inside it.          *)
LEMMA LeastOf ==
  ASSUME NEW S \in SUBSET Nat, S # {}
  PROVE  \E n \in S : \A m \in S : n <= m
<1> DEFINE T == {0..n : n \in S}
           R == StrictSubsetOrdering(Nat)
<1>1. IsWellFoundedOn(R, FiniteSubsetsOf(Nat))
  BY FS_StrictSubsetOrderingWellFounded, Zenon
<1>2. T \subseteq FiniteSubsetsOf(Nat)
  <2>1. ASSUME NEW n \in S PROVE IsFiniteSet(0..n) /\ 0..n \in SUBSET Nat
    BY FS_Interval
  <2> QED BY <2>1 DEF FiniteSubsetsOf
<1>3. T # {}
  OBVIOUS
<1>4. PICK x \in T : \A y \in T : <<y, x>> \notin R
  <2> HIDE DEF T, R
  <2> QED BY <1>1, <1>2, <1>3, WFMin, Zenon
<1>5. PICK n \in S : x = 0..n
  OBVIOUS
<1>6. ASSUME NEW m \in S PROVE n <= m
  <2>1. SUFFICES ASSUME m < n PROVE FALSE
    OBVIOUS
  <2>2. 0..m \subseteq 0..n /\ n \in 0..n /\ n \notin 0..m
    BY <2>1
  <2>3. 0..m \in SUBSET Nat /\ 0..n \in SUBSET Nat /\ 0..m # 0..n
    BY <2>2
  <2>4. <<0..m, 0..n>> \in R
    BY <2>2, <2>3 DEF StrictSubsetOrdering
  <2> QED BY <1>4, <1>5, <2>4
<1> QED BY <1>6

(* What holds of 0 and passes from each number to the next holds of all.   *)
LEMMA Upwards ==
  ASSUME NEW n \in Nat, NEW S, 0 \in S, \A i \in 1..n : i - 1 \in S => i \in S
  PROVE  \A i \in 0..n : i \in S
<1> DEFINE Bad == (0..n) \ S
<1>1. SUFFICES ASSUME Bad # {} PROVE FALSE
  OBVIOUS
<1>2. PICK k \in Bad : \A m \in Bad : k <= m
  <2>1. Bad \in SUBSET Nat
    OBVIOUS
  <2> HIDE DEF Bad
  <2> QED BY <1>1, <2>1, LeastOf
<1>3. k \in 1..n /\ k - 1 \in 0..n
  OBVIOUS
<1>4. k - 1 \notin Bad
  <2> HIDE DEF Bad
  <2> QED BY <1>2, <1>3
<1> QED BY <1>3, <1>4

LEMMA GreatestOf ==
  ASSUME NEW k \in Nat, NEW S \in SUBSET (1..k), S # {}
  PROVE  Max(S) \in S /\ \A m \in S : m <= Max(S)
<1> DEFINE D == {k - n : n \in S}
<1>1. D \in SUBSET Nat /\ D # {}
  <2>1. \A n \in S : k - n \in Nat
    OBVIOUS
  <2> QED BY <2>1
<1>2. PICK d \in D : \A e \in D : d <= e
  <2> HIDE DEF D
  <2> QED BY <1>1, LeastOf
<1>3. PICK n \in S : d = k - n
  OBVIOUS
<1>4. \A m \in S : n >= m
  BY <1>2, <1>3
<1> QED BY <1>4 DEF Max

LEMMA GreatestIs ==
  ASSUME NEW k \in Nat, NEW S \in SUBSET (1..k), k \in S
  PROVE  Max(S) = k
<1>1. S # {}
  OBVIOUS
<1>2. Max(S) \in S /\ k <= Max(S)
  BY <1>1, GreatestOf
<1>3. Max(S) \in 1..k
  BY <1>2
<1> HIDE DEF Max
<1> QED BY <1>2, <1>3

-----------------------------------------------------------------------------
(* Pick: the rank of a place among the places is its place in the result.  *)
Rank(S, i) == Cardinality({j \in S : j <= i})

LEMMA Places ==
  ASSUME NEW n \in Nat, NEW S \in SUBSET (1..n)
  PROVE  /\ IsFiniteSet(S) /\ Cardinality(S) \in Nat
         /\ \A i \in S : Rank(S, i) \in 1..Cardinality(S)
         /\ \A i, j \in S : i < j => Rank(S, i) < Rank(S, j)
<1>1. IsFiniteSet(S) /\ Cardinality(S) \in Nat
  <2>1. IsFiniteSet(1..n)
    BY FS_Interval
  <2> QED BY <2>1, FS_Subset, FS_CardinalityType
<1>2. ASSUME NEW i \in S
      PROVE  IsFiniteSet({j \in S : j <= i}) /\ Rank(S, i) \in 1..Cardinality(S)
  <2> DEFINE D == {j \in S : j <= i}
  <2>1. D \in SUBSET S /\ i \in D
    OBVIOUS
  <2> HIDE DEF D
  <2>2. IsFiniteSet(D) /\ Cardinality(D) <= Cardinality(S)
    BY <1>1, <2>1, FS_Subset
  <2>3. Cardinality(D) \in Nat /\ Cardinality(D) # 0
    BY <2>1, <2>2, FS_CardinalityType, FS_EmptySet
  <2>4. Cardinality(D) \in 1..Cardinality(S)
    BY <1>1, <2>2, <2>3
  <2> QED BY <2>2, <2>4 DEF Rank, D
<1>3. ASSUME NEW i \in S, NEW j \in S, i < j PROVE Rank(S, i) < Rank(S, j)
  <2> DEFINE D == {m \in S : m <= i}  E == {m \in S : m <= j}
  <2>1. D \in SUBSET E /\ j \in E /\ j \notin D
    <3>1. i \in Int /\ j \in Int /\ \A m \in S : m \in Int
      OBVIOUS
    <3>2. ~(j <= i) /\ j <= j
      BY <1>3, <3>1
    <3>3. \A m \in S : m <= i => m <= j
      BY <1>3, <3>1
    <3> QED BY <3>2, <3>3, Zenon
  <2>2. IsFiniteSet(E)
    BY <1>2
  <2> HIDE DEF D, E
  <2>3. Cardinality(D) <= Cardinality(E) /\ Cardinality(D) # Cardinality(E)
    BY <2>1, <2>2, FS_Subset
  <2>4. Rank(S, i) = Cardinality(D) /\ Rank(S, j) = Cardinality(E)
    BY DEF Rank, D, E
  <2>5. Rank(S, i) \in 1..Cardinality(S) /\ Rank(S, j) \in 1..Cardinality(S)
    BY <1>2
  <2> QED BY <1>1, <2>3, <2>4, <2>5
<1>4. \A i \in S : Rank(S, i) \in 1..Cardinality(S)
  BY <1>2
<1>5. \A i, j \in S : i < j => Rank(S, i) < Rank(S, j)
  BY <1>3
<1> HIDE DEF Rank
<1> QED BY <1>1, <1>4, <1>5

LEMMA RankedAt ==
  ASSUME NEW n \in Nat, NEW S \in SUBSET (1..n), NEW k \in 1..Cardinality(S)
  PROVE  \E i \in S : Rank(S, i) = k
<1> DEFINE f == [i \in S |-> Rank(S, i)]
           c == Cardinality(S)
<1>1. c \in Nat /\ IsFiniteSet(S) /\ f \in [S -> 1..c]
  BY Places
<1>2. ASSUME NEW i \in S, NEW j \in S, f[i] = f[j] PROVE i = j
  <2>1. Rank(S, i) = Rank(S, j) /\ Rank(S, i) \in 1..c
    BY <1>1, <1>2
  <2>2. i \in Int /\ j \in Int
    OBVIOUS
  <2>3. (i < j => Rank(S, i) < Rank(S, j)) /\ (j < i => Rank(S, j) < Rank(S, i))
    BY Places
  <2> QED BY <1>1, <2>1, <2>2, <2>3
<1>3. IsFiniteSet(1..c) /\ Cardinality(1..c) = c
  BY <1>1, FS_Interval
<1>4. f \in Injection(S, 1..c)
  <2> HIDE DEF f
  <2> QED BY <1>1, <1>2 DEF Injection, IsInjective
<1>5. f \in Surjection(S, 1..c)
  <2> HIDE DEF f
  <2> QED BY <1>1, <1>3, <1>4, FS_Injection
<1>6. \E i \in S : f[i] = k
  <2> HIDE DEF f
  <2> QED BY <1>5 DEF Surjection
<1> QED BY <1>6

PlaceOf(S, k) == CHOOSE i \in S : Rank(S, i) = k

LEMMA PlacesOf ==
  ASSUME NEW n \in Nat, NEW S \in SUBSET (1..n)
  PROVE  /\ \A k \in 1..Cardinality(S) : PlaceOf(S, k) \in S /\ Rank(S, PlaceOf(S, k)) = k
         /\ \A i \in S : PlaceOf(S, Rank(S, i)) = i
<1>1. ASSUME NEW k \in 1..Cardinality(S) PROVE PlaceOf(S, k) \in S /\ Rank(S, PlaceOf(S, k)) = k
  BY RankedAt DEF PlaceOf
<1>2. ASSUME NEW i \in S PROVE PlaceOf(S, Rank(S, i)) = i
  <2> DEFINE j == PlaceOf(S, Rank(S, i))
  <2>1. Rank(S, i) \in 1..Cardinality(S)
    BY Places
  <2>2. j \in S /\ Rank(S, j) = Rank(S, i)
    BY <1>1, <2>1
  <2> HIDE DEF j
  <2>3. ~(i < j) /\ ~(j < i)
    BY <2>1, <2>2, Places
  <2>4. i = j
    BY <2>2, <2>3
  <2> QED BY <2>4 DEF j
<1> QED BY <1>1, <1>2

(* What is picked is what is at these places and in the order of them.     *)
LEMMA Picked ==
  ASSUME NEW T, NEW s \in Seq(T), NEW S \in SUBSET (DOMAIN s)
  PROVE  /\ Pick(s, S) \in Seq({s[i] : i \in S}) /\ Len(Pick(s, S)) = Cardinality(S)
         /\ \A k \in DOMAIN Pick(s, S) : PlaceOf(S, k) \in S /\ Pick(s, S)[k] = s[PlaceOf(S, k)]
         /\ \A i \in S : Rank(S, i) \in DOMAIN Pick(s, S) /\ Pick(s, S)[Rank(S, i)] = s[i]
<1>1. Len(s) \in Nat /\ DOMAIN s = 1..Len(s)
  OBVIOUS
<1>2. Cardinality(S) \in Nat
  BY <1>1, Places
<1>3. Pick(s, S) = [k \in 1..Cardinality(S) |-> s[PlaceOf(S, k)]]
  BY DEF Pick, PlaceOf, Rank
<1>4. \A k \in 1..Cardinality(S) : PlaceOf(S, k) \in S
  BY <1>1, PlacesOf
<1>5. Pick(s, S) \in Seq({s[i] : i \in S}) /\ Len(Pick(s, S)) = Cardinality(S)
      /\ DOMAIN Pick(s, S) = 1..Cardinality(S)
  BY <1>2, <1>3, <1>4
<1>6. ASSUME NEW i \in S PROVE Rank(S, i) \in 1..Cardinality(S) /\ Pick(s, S)[Rank(S, i)] = s[i]
  <2>1. Rank(S, i) \in 1..Cardinality(S) /\ PlaceOf(S, Rank(S, i)) = i
    BY <1>1, Places, PlacesOf
  <2> QED BY <1>3, <2>1
<1> QED BY <1>3, <1>4, <1>5, <1>6

(* Merge keeps every memory's ID, and of each ID the first memory.         *)
LEMMA Merged ==
  ASSUME NEW T, NEW old \in Seq(T), NEW new \in Seq(T)
  PROVE  /\ Merge(old, new) \in Seq(T) /\ IdsIn(Merge(old, new)) = IdsIn(old) \cup IdsIn(new)
         /\ \A k \in DOMAIN Merge(old, new) : \/ \E i \in DOMAIN old : Merge(old, new)[k] = old[i]
                                              \/ \E i \in DOMAIN new : Merge(old, new)[k] = new[i]
<1> DEFINE all == old \o new
           S == {k \in DOMAIN all : \A j \in 1..k - 1 : all[j].id # all[k].id}
           res == Pick(all, S)
<1>1. all \in Seq(T) /\ Len(all) = Len(old) + Len(new) /\ Len(old) \in Nat /\ Len(new) \in Nat
  OBVIOUS
<1>2. /\ \A i \in DOMAIN old : i \in DOMAIN all /\ all[i] = old[i]
      /\ \A i \in DOMAIN new : Len(old) + i \in DOMAIN all /\ all[Len(old) + i] = new[i]
      /\ \A i \in DOMAIN all : (i \in DOMAIN old /\ all[i] = old[i]) \/ (i - Len(old) \in DOMAIN new /\ all[i] = new[i - Len(old)])
  OBVIOUS
<1>3. Merge(old, new) = res
  BY DEF Merge
<1>4. S \in SUBSET (DOMAIN all)
  OBVIOUS
<1> HIDE DEF all
<1>5. \A i \in DOMAIN all : \E k \in S : all[k].id = all[i].id
  <2> SUFFICES ASSUME NEW i \in DOMAIN all PROVE \E k \in S : all[k].id = all[i].id
    OBVIOUS
  <2> DEFINE same == {k \in DOMAIN all : all[k].id = all[i].id}
  <2>1. same \in SUBSET Nat /\ same # {} /\ DOMAIN all = 1..Len(all) /\ Len(all) \in Nat
    BY <1>1
  <2>2. PICK k \in same : \A m \in same : k <= m
    <3> HIDE DEF same
    <3> QED BY <2>1, LeastOf
  <2>3. \A j \in 1..k - 1 : j \in DOMAIN all /\ j < k
    BY <2>1
  <2>4. k \in S
    BY <2>1, <2>2, <2>3
  <2> QED BY <2>4
<1>6. /\ res \in Seq({all[i] : i \in S})
      /\ \A k \in DOMAIN res : PlaceOf(S, k) \in S /\ res[k] = all[PlaceOf(S, k)]
      /\ \A i \in S : Rank(S, i) \in DOMAIN res /\ res[Rank(S, i)] = all[i]
  <2> HIDE DEF S
  <2> QED BY <1>1, <1>4, Picked
<1> HIDE DEF S, res
<1>7. res \in Seq(T)
  <2>1. \A i \in S : all[i] \in T
    BY <1>1, <1>4
  <2>2. {all[i] : i \in S} \subseteq T
    BY <2>1
  <2> QED BY <1>6, <2>2, SeqMonotonic
<1>8. IdsIn(res) = IdsIn(all)
  <2>1. ASSUME NEW x \in IdsIn(all) PROVE x \in IdsIn(res)
    <3>1. PICK i \in DOMAIN all : x = all[i].id
      BY DEF IdsIn
    <3>2. PICK k \in S : all[k].id = x
      BY <1>5, <3>1
    <3> QED BY <1>6, <3>2 DEF IdsIn
  <2>2. ASSUME NEW x \in IdsIn(res) PROVE x \in IdsIn(all)
    BY <1>4, <1>6 DEF IdsIn
  <2> QED BY <2>1, <2>2
<1>9. IdsIn(all) = IdsIn(old) \cup IdsIn(new)
  BY <1>2 DEF IdsIn
<1>10. \A k \in DOMAIN res : \/ \E i \in DOMAIN old : res[k] = old[i]
                             \/ \E i \in DOMAIN new : res[k] = new[i]
  BY <1>2, <1>4, <1>6
<1> QED BY <1>3, <1>7, <1>8, <1>9, <1>10

-----------------------------------------------------------------------------
(* The folds of the model.  A fold over a sequence is a function on the    *)
(* sets of its indices: there is one for every step g that stays in A (a   *)
(* shortest sequence without one does not exist), ...                      *)
IsFold(h, A, g, base, n, q) ==
  /\ h \in [SUBSET (1..n) -> A]
  /\ \A s \in SUBSET (1..n) : h[s] = IF s = {} THEN base ELSE g[<<h[s \ {Max(s)}], q[Max(s)]>>]

LEMMA FoldExists ==
  ASSUME NEW A, NEW E, NEW g \in [A \X E -> A], NEW base \in A, NEW n \in Nat, NEW q,
         \A i \in 1..n : q[i] \in E
  PROVE  \E h : IsFold(h, A, g, base, n, q)
<1> DEFINE FoldStep(h, s) == IF s = {} THEN base ELSE g[<<h[s \ {Max(s)}], q[Max(s)]>>]
           Folds(k) == {h \in [SUBSET (1..k) -> A] : \A s \in SUBSET (1..k) : h[s] = FoldStep(h, s)}
           Bad == {k \in 0..n : Folds(k) = {}}
<1>1. Bad = {}
  <2>1. SUFFICES ASSUME Bad # {} PROVE FALSE
    OBVIOUS
  <2>2. PICK k \in Bad : \A m \in Bad : k <= m
    <3>1. Bad \in SUBSET Nat
      OBVIOUS
    <3> HIDE DEF Bad
    <3> QED BY <2>1, <3>1, LeastOf
  <2>3. CASE k = 0
    <3>1. SUBSET (1..0) = {{}}
      OBVIOUS
    <3>2. [s \in SUBSET (1..0) |-> base] \in Folds(0)
      BY <3>1
    <3> QED BY <2>2, <2>3, <3>2
  <2>4. CASE k # 0
    <3>1. k - 1 \in 0..n /\ k \in 1..n
      BY <2>4
    <3>2. PICK h \in Folds(k - 1) : TRUE
      <4>1. k - 1 \notin Bad
        <5> HIDE DEF Bad
        <5> QED BY <2>2, <3>1
      <4>2. Folds(k - 1) # {}
        <5> HIDE DEF Folds
        <5> QED BY <3>1, <4>1
      <4> QED BY <4>2
    <3> DEFINE h2 == [s \in SUBSET (1..k) |-> IF k \in s THEN g[<<h[s \ {k}], q[k]>>] ELSE h[s]]
    <3>3. ASSUME NEW s \in SUBSET (1..k), k \notin s PROVE s \in SUBSET (1..(k - 1))
      BY <3>1, <3>3
    <3>4. \A s \in SUBSET (1..k) : s \ {k} \in SUBSET (1..(k - 1))
      BY <3>3
    <3>5. \A s \in SUBSET (1..(k - 1)) : h[s] \in A /\ h[s] = FoldStep(h, s)
      BY <3>2
    <3>6. ASSUME NEW s \in SUBSET (1..k) PROVE h2[s] \in A /\ h2[s] = FoldStep(h2, s)
      <4>1. CASE k \in s
        <5>1. Max(s) = k
          BY <4>1, <3>1, GreatestIs
        <5>2. h[s \ {k}] \in A /\ q[k] \in E /\ s \ {k} \in SUBSET (1..k) /\ k \notin s \ {k}
          BY <3>1, <3>4, <3>5
        <5>3. h2[s] = g[<<h[s \ {k}], q[k]>>] /\ h2[s \ {k}] = h[s \ {k}]
          BY <4>1, <5>2
        <5> HIDE DEF h2
        <5> QED BY <4>1, <5>1, <5>2, <5>3
      <4>2. CASE k \notin s /\ s # {}
        <5>1. s \in SUBSET (1..(k - 1)) /\ k - 1 \in Nat
          BY <4>2, <3>1, <3>3
        <5>2. Max(s) \in s
          BY <5>1, <4>2, GreatestOf
        <5>3. h2[s] = h[s] /\ h2[s \ {Max(s)}] = h[s \ {Max(s)}]
          BY <4>2
        <5>4. h[s] \in A /\ h[s] = FoldStep(h, s)
          BY <3>5, <5>1
        <5> HIDE DEF h2
        <5> QED BY <4>2, <5>3, <5>4
      <4>3. CASE s = {}
        <5>1. s \in SUBSET (1..(k - 1)) /\ h2[s] = h[s]
          BY <4>3
        <5> HIDE DEF h2
        <5> QED BY <3>5, <4>3, <5>1
      <4> QED BY <4>1, <4>2, <4>3
    <3>7. h2 \in [SUBSET (1..k) -> A]
      <4>1. \A s \in SUBSET (1..k) : h2[s] \in A
        <5> HIDE DEF h2
        <5> QED BY <3>6
      <4> QED BY <4>1
    <3>8. h2 \in Folds(k)
      <4> HIDE DEF h2
      <4> QED BY <3>6, <3>7
    <3> QED BY <2>2, <3>8
  <2> QED BY <2>3, <2>4
<1>2. Folds(n) # {}
  <2> HIDE DEF Folds
  <2> QED BY <1>1
<1> QED BY <1>2 DEF IsFold

LEMMA FoldRuns ==
  ASSUME NEW n \in Nat, NEW i \in 1..n
  PROVE  /\ 1..i # {} /\ Max(1..i) = i /\ (1..i) \ {i} = 1..(i - 1)
         /\ 1..i \in SUBSET (1..n) /\ 1..(i - 1) \in SUBSET (1..n)
<1>1. Max(1..i) = i
  BY GreatestIs
<1> QED BY <1>1

(* Sequences laid end to end: what is in one of them is in all, and in     *)
(* the order of the sequences.                                             *)
LEMMA Flattened ==
  ASSUME NEW T, NEW ss \in Seq(Seq(T))
  PROVE  /\ FlattenSeq(ss) \in Seq(T)
         /\ \A k \in DOMAIN ss : \A i \in DOMAIN ss[k] : \E j \in DOMAIN FlattenSeq(ss) : FlattenSeq(ss)[j] = ss[k][i]
<1> DEFINE n == Len(ss)
           Flat(h) == h = [i \in 1..n |-> IF i = 1 THEN ss[i] ELSE h[i - 1] \o ss[i]]
           F == CHOOSE h : Flat(h)
           g == [x \in Seq(T) \X Seq(T) |-> x[1] \o x[2]]
<1>1. n \in Nat /\ DOMAIN ss = 1..n /\ \A i \in 1..n : ss[i] \in Seq(T)
  OBVIOUS
<1>2. CASE n = 0
  <2>1. ss = <<>> /\ FlattenSeq(ss) = ss
    BY <1>2 DEF FlattenSeq
  <2>2. FlattenSeq(ss) = <<>> /\ DOMAIN ss = {} /\ <<>> \in Seq(T)
    BY <2>1
  <2> QED BY <2>2
<1>3. CASE n # 0
  <2>1. FlattenSeq(ss) = F[n]
    BY <1>3 DEF FlattenSeq
  <2>2. g \in [Seq(T) \X Seq(T) -> Seq(T)] /\ \A a, b \in Seq(T) : g[<<a, b>>] = a \o b
    <3>1. \A a, b \in Seq(T) : a \o b \in Seq(T) /\ <<a, b>>[1] = a /\ <<a, b>>[2] = b
      OBVIOUS
    <3>2. \A x \in Seq(T) \X Seq(T) : x[1] \o x[2] \in Seq(T)
      BY <3>1
    <3> QED BY <3>1, <3>2
  <2> HIDE DEF g, n
  <2>3. PICK h \in [SUBSET (1..n) -> Seq(T)] :
          \A s \in SUBSET (1..n) : h[s] = IF s = {} THEN <<>> ELSE g[<<h[s \ {Max(s)}], ss[Max(s)]>>]
    <3> DEFINE A == Seq(T)
    <3>1. <<>> \in A /\ g \in [A \X A -> A] /\ (\A i \in 1..n : ss[i] \in A) /\ n \in Nat
      BY <1>1, <2>2
    <3> HIDE DEF A
    <3>2. \E h : IsFold(h, A, g, <<>>, n, ss)
      BY <3>1, FoldExists
    <3> QED BY <3>2 DEF A, IsFold
  <2>4. ASSUME NEW i \in 1..n PROVE h[1..i] \in Seq(T) /\ h[1..i] = h[1..(i - 1)] \o ss[i]
    <3>1. 1..i # {} /\ Max(1..i) = i /\ (1..i) \ {i} = 1..(i - 1) /\ 1..i \in SUBSET (1..n) /\ 1..(i - 1) \in SUBSET (1..n)
      BY <1>1, FoldRuns
    <3>2. h[1..i] = g[<<h[1..(i - 1)], ss[i]>>] /\ h[1..(i - 1)] \in Seq(T) /\ h[1..i] \in Seq(T)
      BY <2>3, <3>1
    <3> QED BY <1>1, <2>2, <3>2
  <2>5. h[1..0] = <<>>
    <3>1. 1..0 = {} /\ {} \in SUBSET (1..n)
      OBVIOUS
    <3> QED BY <2>3, <3>1
  <2> DEFINE R == [i \in 1..n |-> h[1..i]]
  <2>6. Flat(R)
    <3>1. ASSUME NEW i \in 1..n PROVE R[i] = IF i = 1 THEN ss[i] ELSE R[i - 1] \o ss[i]
      <4>1. CASE i = 1
        <5>1. h[1..1] = h[1..(1 - 1)] \o ss[1]
          BY <2>4, <4>1
        <5>2. h[1..1] = <<>> \o ss[1]
          <6>1. 1 - 1 = 0
            OBVIOUS
          <6> QED BY <2>5, <5>1, <6>1
        <5>3. h[1..1] = ss[1]
          BY <1>1, <4>1, <5>2
        <5> QED BY <4>1, <5>3
      <4>2. CASE i # 1
        <5>1. i - 1 \in 1..n
          BY <1>1, <4>2
        <5> QED BY <2>4, <4>2, <5>1
      <4> QED BY <4>1, <4>2
    <3> QED BY <3>1
  <2>7. Flat(F)
    <3> HIDE DEF Flat
    <3> QED BY <2>6
  <2> HIDE DEF F
  <2>8. F[1] = ss[1] /\ \A i \in 2..n : F[i] = F[i - 1] \o ss[i]
    <3>1. 1 \in 1..n /\ \A i \in 2..n : i \in 1..n /\ i # 1
      BY <1>1, <1>3
    <3> QED BY <2>7, <3>1
  <2> HIDE DEF Flat
  <2> DEFINE In(i) == /\ F[i] \in Seq(T)
                      /\ \A k \in 1..i : \A m \in DOMAIN ss[k] : \E j \in DOMAIN F[i] : F[i][j] = ss[k][m]
             S == {i \in 0..n : i = 0 \/ In(i)}
  <2>9. ASSUME NEW i \in 1..n, i - 1 \in S PROVE i \in S
    <3>1. CASE i = 1
      <4>1. In(1)
        BY <1>1, <2>8, <3>1
      <4> QED BY <3>1, <4>1
    <3>2. CASE i # 1
      <4>1. i \in 2..n /\ i - 1 # 0 /\ i - 1 \in 1..n
        BY <1>1, <3>2
      <4>2. In(i - 1)
        BY <2>9, <4>1
      <4>3. F[i] = F[i - 1] \o ss[i] /\ F[i - 1] \in Seq(T) /\ ss[i] \in Seq(T)
        BY <1>1, <2>8, <4>1, <4>2
      <4>4. /\ F[i] \in Seq(T)
            /\ \A j \in DOMAIN F[i - 1] : j \in DOMAIN F[i] /\ F[i][j] = F[i - 1][j]
            /\ \A j \in DOMAIN ss[i] : Len(F[i - 1]) + j \in DOMAIN F[i] /\ F[i][Len(F[i - 1]) + j] = ss[i][j]
        <5>1. \A a, b \in Seq(T) : /\ a \o b \in Seq(T)
                                   /\ \A j \in DOMAIN a : j \in DOMAIN (a \o b) /\ (a \o b)[j] = a[j]
                                   /\ \A j \in DOMAIN b : Len(a) + j \in DOMAIN (a \o b) /\ (a \o b)[Len(a) + j] = b[j]
          OBVIOUS
        <5> DEFINE a == F[i - 1]  b == ss[i]
        <5>2. F[i] = a \o b /\ a \in Seq(T) /\ b \in Seq(T)
          BY <4>3
        <5> HIDE DEF a, b
        <5>3. /\ F[i] \in Seq(T)
              /\ \A j \in DOMAIN a : j \in DOMAIN F[i] /\ F[i][j] = a[j]
              /\ \A j \in DOMAIN b : Len(a) + j \in DOMAIN F[i] /\ F[i][Len(a) + j] = b[j]
          BY <5>1, <5>2
        <5> QED BY <5>3 DEF a, b
      <4>5. ASSUME NEW k \in 1..i, NEW m \in DOMAIN ss[k] PROVE \E j \in DOMAIN F[i] : F[i][j] = ss[k][m]
        <5>1. CASE k = i
          BY <4>4, <5>1
        <5>2. CASE k # i
          <6>1. k \in 1..(i - 1)
            BY <1>1, <5>2
          <6>2. PICK j \in DOMAIN F[i - 1] : F[i - 1][j] = ss[k][m]
            BY <4>2, <6>1
          <6> QED BY <4>4, <6>2
        <5> QED BY <5>1, <5>2
      <4>6. In(i)
        BY <4>4, <4>5
      <4> HIDE DEF In
      <4> QED BY <1>1, <4>6
    <3> QED BY <3>1, <3>2
  <2>10. n \in S
    <3>1. 0 \in S
      BY <1>1
    <3>2. \A i \in 0..n : i \in S
      <4> HIDE DEF S
      <4> QED BY <1>1, <2>9, <3>1, Upwards
    <3> HIDE DEF S
    <3> QED BY <1>1, <3>2
  <2>11. In(n)
    <3> HIDE DEF In
    <3> QED BY <1>3, <2>10
  <2> QED BY <1>1, <2>1, <2>11
<1> QED BY <1>2, <1>3

(* A set in some order.                                                    *)
LEMMA Listed ==
  ASSUME NEW S, IsFiniteSet(S)
  PROVE  /\ SetToSeq(S) \in Seq(S) /\ Len(SetToSeq(S)) = Cardinality(S) /\ Cardinality(S) \in Nat
         /\ \A x \in S : \E k \in DOMAIN SetToSeq(S) : SetToSeq(S)[k] = x
         /\ \A j, k \in DOMAIN SetToSeq(S) : SetToSeq(S)[j] = SetToSeq(S)[k] => j = k
<1> DEFINE n == Cardinality(S)
<1>1. n \in Nat /\ ExistsBijection(1..n, S)
  BY FS_CardinalityType
<1>2. PICK b \in Bijection(1..n, S) : TRUE
  BY <1>1 DEF ExistsBijection
<1>3. b \in [1..n -> S] /\ IsInjective(b)
  <2> HIDE DEF n
  <2> QED BY <1>2 DEF Bijection, Injection, IsInjective
<1> DEFINE q == SetToSeq(S)
<1>4. q \in [1..n -> S] /\ IsInjective(q)
  BY <1>3 DEF SetToSeq
<1> HIDE DEF q
<1>5. q \in Seq(S) /\ Len(q) = n /\ DOMAIN q = 1..n
  <2> HIDE DEF n
  <2> QED BY <1>1, <1>4
<1>6. \A j, k \in DOMAIN q : q[j] = q[k] => j = k
  BY <1>4 DEF IsInjective
<1>7. q \in Injection(1..n, S)
  BY <1>4, <1>5 DEF Injection, IsInjective
<1>8. Cardinality(1..n) = n
  BY <1>1, FS_Interval
<1>9. q \in Surjection(1..n, S)
  <2> HIDE DEF n
  <2>1. n = Cardinality(S)
    BY DEF n
  <2> QED BY <1>7, <1>8, <2>1, FS_Injection
<1>10. \A x \in S : \E k \in DOMAIN q : q[k] = x
  BY <1>5, <1>9 DEF Surjection
<1> QED BY <1>1, <1>5, <1>6, <1>10 DEF q

-----------------------------------------------------------------------------
(* The Markdown files.  Chat memories of the second layer have directories *)
(* of their own, and so have those of the first.                           *)
IsChat(m) == ~m.file /\ m.layer = 2
Home(path, m) == (path[1] \in ChatDirs <=> IsChat(m)) /\ (m.layer = 1 => path[1] \in PrefDirs)

LEMMA MemoryHas ==
  ASSUME NEW m \in Memories
  PROVE  /\ m.id \in IDs /\ m.layer \in Layers /\ m.hall \in Halls /\ m.file \in BOOLEAN
         /\ m.src \in Sources \cup {"preferences"} /\ m.user \in Owners /\ m.acct \in Owners
         /\ m.text \in Words /\ m.form \in Forms /\ (m.file => m.src \in Files /\ m.layer # 1)
BY DEF Memories

LEMMA PathHome ==
  ASSUME NEW m \in Memories
  PROVE  /\ Path(m) \in Paths /\ Home(Path(m), m)
         /\ \A f \in Files : Path(m) \in FilesOf(f) => m.file /\ m.src = f
<1>1. m.layer \in 1..3 /\ m.file \in BOOLEAN /\ (m.file => m.src \in Files /\ m.layer # 1)
  BY MemoryHas DEF Layers
<1>2. m.user \in Owners /\ OwnerOf(m) \in Owners /\ (m.file => m.src \in Owners)
  <2>1. Files \subseteq Owners
    BY DEF Owners, Sources
  <2>2. m.user \in Owners /\ m.acct \in Owners
    BY MemoryHas
  <2> HIDE DEF Owners
  <2> QED BY <1>1, <2>1, <2>2 DEF OwnerOf
<1>3. CASE m.file
  <2> DEFINE dir == IF m.layer = 3 THEN "files/l3" ELSE "files/discoveries"
  <2>1. Path(m) = <<dir, m.src>> /\ m.src \in Owners /\ m.src \in Files
    BY <1>1, <1>2, <1>3 DEF Path
  <2>2. dir \in Dirs /\ dir \notin ChatDirs /\ dir \in {"files/l3", "files/discoveries"}
    <3>1. dir = "files/l3" \/ dir = "files/discoveries"
      OBVIOUS
    <3> HIDE DEF dir
    <3> QED BY <3>1 DEF ChatDirs, PrefDirs, Dirs
  <2>3. ~IsChat(m) /\ m.layer # 1
    BY <1>1, <1>3 DEF IsChat
  <2> HIDE DEF dir
  <2>4. Path(m) \in Paths /\ Path(m)[1] = dir
    BY <2>1, <2>2 DEF Paths
  <2>5. ASSUME NEW f \in Files, Path(m) \in FilesOf(f) PROVE m.src = f
    BY <2>1, <2>5 DEF FilesOf
  <2> QED BY <1>3, <2>2, <2>3, <2>4, <2>5 DEF Home
<1>4. CASE ~m.file
  <2> DEFINE name == IF m.layer = 1 THEN OwnerOf(m) ELSE m.user
             dir == CASE m.layer = 1 -> IF m.hall = "preferences" THEN "l1/preferences" ELSE "l1/facts"
                      [] m.layer = 2 -> IF m.hall = "discoveries" THEN "l2/discoveries" ELSE "l2/events"
                      [] OTHER -> "l3"
  <2>1. Path(m) = <<dir, name>> /\ name \in Owners
    BY <1>1, <1>2, <1>4 DEF Path
  <2>2. /\ dir \in Dirs /\ dir \notin {"files/l3", "files/discoveries"}
        /\ (dir \in ChatDirs <=> m.layer = 2) /\ (m.layer = 1 => dir \in PrefDirs)
    <3>1. \/ m.layer = 1 /\ dir \in {"l1/preferences", "l1/facts"}
          \/ m.layer = 2 /\ dir \in {"l2/discoveries", "l2/events"}
          \/ m.layer = 3 /\ dir = "l3"
      BY <1>1
    <3> HIDE DEF dir
    <3> QED BY <3>1 DEF ChatDirs, PrefDirs, Dirs
  <2> HIDE DEF dir, name
  <2>3. Path(m) \in Paths /\ Path(m)[1] = dir
    BY <2>1, <2>2 DEF Paths
  <2>4. ASSUME NEW f \in Files PROVE Path(m) \notin FilesOf(f)
    BY <2>1, <2>2 DEF FilesOf
  <2> QED BY <1>4, <2>2, <2>3, <2>4 DEF Home, IsChat
<1> QED BY <1>1, <1>3, <1>4

Disks == UNION {[D -> Seq(Memories)] : D \in {E \in SUBSET Paths : IsFiniteSet(E)}}
Stores == {m \in [files : Disks, cache : Disks] : DOMAIN m.cache \subseteq DOMAIN m.files}

LEMMA DiskIs ==
  ASSUME NEW fs
  PROVE  fs \in Disks <=> IsDisk(fs)
<1>1. ASSUME fs \in Disks PROVE IsDisk(fs)
  <2>1. PICK D \in SUBSET Paths : IsFiniteSet(D) /\ fs \in [D -> Seq(Memories)]
    BY <1>1 DEF Disks
  <2>2. DOMAIN fs = D
    BY <2>1
  <2> QED BY <2>1, <2>2 DEF IsDisk
<1>2. ASSUME IsDisk(fs) PROVE fs \in Disks
  BY <1>2 DEF IsDisk, Disks
<1> QED BY <1>1, <1>2

LEMMA PutDisk ==
  ASSUME NEW fs \in Disks, NEW path \in Paths, NEW items \in Seq(Memories)
  PROVE  /\ Put(fs, path, items) \in Disks /\ DOMAIN Put(fs, path, items) = DOMAIN fs \cup {path}
         /\ Put(fs, path, items)[path] = items
         /\ \A p \in DOMAIN fs : p # path => Put(fs, path, items)[p] = fs[p]
         /\ InFile(fs, path) \in Seq(Memories) /\ IsFiniteSet(DOMAIN fs)
<1>1. DOMAIN fs \subseteq Paths /\ IsFiniteSet(DOMAIN fs) /\ fs \in [DOMAIN fs -> Seq(Memories)]
  BY DiskIs DEF IsDisk
<1>2. IsFiniteSet(DOMAIN fs \cup {path})
  BY <1>1, FS_AddElement
<1>3. /\ DOMAIN Put(fs, path, items) = DOMAIN fs \cup {path}
      /\ Put(fs, path, items) \in [DOMAIN fs \cup {path} -> Seq(Memories)]
  BY <1>1 DEF Put
<1>4. Put(fs, path, items) \in Disks
  BY <1>1, <1>2, <1>3, DiskIs DEF IsDisk
<1>5. InFile(fs, path) \in Seq(Memories)
  <2>1. <<>> \in Seq(Memories)
    OBVIOUS
  <2> QED BY <1>1, <2>1 DEF InFile
<1> QED BY <1>1, <1>3, <1>4, <1>5 DEF Put

LEMMA GroupHas ==
  ASSUME NEW items \in Seq(Memories), NEW key \in Groups(items)
  PROVE  /\ Group(items, key) \in Seq(Memories) /\ Group(items, key) # <<>>
         /\ \A k \in DOMAIN Group(items, key) :
              GroupOf(Group(items, key)[k]) = key /\ \E i \in DOMAIN items : items[i] = Group(items, key)[k]
         /\ \A i \in DOMAIN items : GroupOf(items[i]) = key =>
              \E k \in DOMAIN Group(items, key) : Group(items, key)[k] = items[i]
<1> DEFINE S == {i \in DOMAIN items : GroupOf(items[i]) = key}
           q == Group(items, key)
<1>1. q = Pick(items, S) /\ S \in SUBSET (DOMAIN items)
  BY DEF Group
<1>2. /\ q \in Seq({items[i] : i \in S})
      /\ \A k \in DOMAIN q : PlaceOf(S, k) \in S /\ q[k] = items[PlaceOf(S, k)]
      /\ \A i \in S : Rank(S, i) \in DOMAIN q /\ q[Rank(S, i)] = items[i]
  <2> HIDE DEF S, q
  <2> QED BY <1>1, Picked
<1>3. {items[i] : i \in S} \subseteq Memories
  BY <1>1
<1>4. \E i \in S : TRUE
  BY DEF Groups
<1> HIDE DEF q
<1>5. q \in Seq(Memories)
  <2> HIDE DEF S
  <2> QED BY <1>2, <1>3, SeqMonotonic
<1>6. q # <<>>
  <2>1. PICK k : k \in DOMAIN q
    BY <1>2, <1>4
  <2> QED BY <2>1
<1>7. \A k \in DOMAIN q : GroupOf(q[k]) = key /\ \E i \in DOMAIN items : items[i] = q[k]
  BY <1>2
<1>8. \A i \in DOMAIN items : GroupOf(items[i]) = key => \E k \in DOMAIN q : q[k] = items[i]
  BY <1>2
<1> QED BY <1>5, <1>6, <1>7, <1>8 DEF q

(* A group is of one path.                                                 *)
LEMMA GroupPath ==
  ASSUME NEW m, NEW n, GroupOf(m) = GroupOf(n), m.file => m.src # Blank, n.file => n.src # Blank,
         m.file \in BOOLEAN, n.file \in BOOLEAN
  PROVE  Path(m) = Path(n) /\ m.file = n.file /\ IsChat(m) = IsChat(n)
<1>1. /\ m.layer = n.layer /\ m.hall = n.hall /\ m.user = n.user /\ m.acct = n.acct
      /\ (IF m.file THEN m.src ELSE Blank) = (IF n.file THEN n.src ELSE Blank)
  BY DEF GroupOf
<1>2. m.file = n.file /\ (m.file => m.src = n.src)
  BY <1>1
<1> QED BY <1>1, <1>2 DEF Path, OwnerOf, IsChat

(* What a store holds, and what is said of it.  The cache of a file with   *)
(* chat memories is never behind the disk: what is written next to the     *)
(* file is made of the cache.                                              *)
Placed(fs) == {<<x[1], fs[x[1]][x[2]]>> : x \in {y \in (DOMAIN fs) \X Nat : y[2] \in DOMAIN fs[y[1]]}}
AllPlaced(m) == Placed(m.files) \cup Placed(m.cache)
Homely(fs) == \A path \in DOMAIN fs : \A k \in DOMAIN fs[path] : Home(path, fs[path][k])
Ahead(m) ==
  \A path \in DOMAIN m.files : path[1] \in ChatDirs =>
    path \in DOMAIN m.cache /\ IdsIn(m.files[path]) \subseteq IdsIn(m.cache[path])
Sound(m) == m \in Stores /\ Homely(m.files) /\ Homely(m.cache) /\ Ahead(m)
Keeps(m, n) ==
  \A path \in DOMAIN m.files : path[1] \in ChatDirs =>
    path \in DOMAIN n.files /\ IdsIn(m.files[path]) \subseteq IdsIn(n.files[path])

LEMMA StoreHas ==
  ASSUME NEW m \in Stores
  PROVE  /\ m = [files |-> m.files, cache |-> m.cache] /\ m.files \in Disks /\ m.cache \in Disks
         /\ DOMAIN m.cache \subseteq DOMAIN m.files
BY DEF Stores

LEMMA PlacedIs ==
  ASSUME NEW fs \in Disks
  PROVE  /\ \A path \in DOMAIN fs : /\ fs[path] \in Seq(Memories) /\ path \in Paths
                                   /\ \A k \in DOMAIN fs[path] : <<path, fs[path][k]>> \in Placed(fs)
         /\ \A y \in Placed(fs) : /\ y = <<y[1], y[2]>> /\ y[1] \in DOMAIN fs /\ y[2] \in Memories
                                /\ \E k \in DOMAIN fs[y[1]] : y[2] = fs[y[1]][k]
<1>1. DOMAIN fs \subseteq Paths /\ fs \in [DOMAIN fs -> Seq(Memories)]
  BY DiskIs DEF IsDisk
<1>2. ASSUME NEW path \in DOMAIN fs, NEW k \in DOMAIN fs[path] PROVE <<path, fs[path][k]>> \in Placed(fs) /\ fs[path][k] \in Memories
  <2>1. fs[path] \in Seq(Memories)
    BY <1>1
  <2>2. k \in Nat /\ fs[path][k] \in Memories
    BY <2>1
  <2>3. <<path, k>> \in {y \in (DOMAIN fs) \X Nat : y[2] \in DOMAIN fs[y[1]]}
    BY <2>2
  <2> QED BY <2>2, <2>3 DEF Placed
<1>3. ASSUME NEW y \in Placed(fs)
      PROVE  y = <<y[1], y[2]>> /\ y[1] \in DOMAIN fs /\ \E k \in DOMAIN fs[y[1]] : y[2] = fs[y[1]][k]
  BY DEF Placed
<1> QED BY <1>1, <1>2, <1>3

LEMMA PlacedPut ==
  ASSUME NEW fs \in Disks, NEW path \in Paths, NEW items \in Seq(Memories), NEW T,
         Placed(fs) \subseteq T, \A k \in DOMAIN items : <<path, items[k]>> \in T
  PROVE  Placed(Put(fs, path, items)) \subseteq T
<1> DEFINE gs == Put(fs, path, items)
<1>1. gs \in Disks /\ DOMAIN gs = DOMAIN fs \cup {path} /\ gs[path] = items /\ \A p \in DOMAIN fs : p # path => gs[p] = fs[p]
  BY PutDisk
<1> HIDE DEF gs
<1>2. SUFFICES ASSUME NEW y \in Placed(gs) PROVE y \in T
  BY DEF gs
<1>3. PICK k \in DOMAIN gs[y[1]] : y = <<y[1], y[2]>> /\ y[1] \in DOMAIN gs /\ y[2] = gs[y[1]][k]
  BY <1>1, PlacedIs
<1>4. CASE y[1] = path
  BY <1>1, <1>3, <1>4
<1>5. CASE y[1] # path
  <2>1. y[1] \in DOMAIN fs /\ gs[y[1]] = fs[y[1]]
    BY <1>1, <1>3, <1>5
  <2>2. <<y[1], fs[y[1]][k]>> \in Placed(fs)
    BY <1>3, <2>1, PlacedIs
  <2> QED BY <1>3, <2>1, <2>2
<1> QED BY <1>4, <1>5

(* The memories of a group have one path.                                  *)
OneGroup(group) ==
  /\ group \in Seq(Memories) /\ group # <<>>
  /\ \A k \in DOMAIN group : Path(group[k]) = Path(group[1]) /\ group[k].file = group[1].file

LEMMA Wrote ==
  ASSUME NEW m \in Stores, NEW group, OneGroup(group), NEW n, n = WriteGroup(m, group), NEW path, path = Path(group[1])
  PROVE  /\ n \in Stores /\ DOMAIN n.files = DOMAIN m.files \cup {path} /\ DOMAIN n.cache = DOMAIN m.cache \cup {path}
         /\ n.files[path] = Merge(InFile(m.cache, path), group) /\ n.files[path] \in Seq(Memories)
         /\ n.cache[path] = IF group[1].file THEN group ELSE InFile(m.cache, path) \o group
         /\ \A p \in DOMAIN m.files : p # path => n.files[p] = m.files[p]
         /\ \A p \in DOMAIN m.cache : p # path => n.cache[p] = m.cache[p]
         /\ path \in Paths /\ group[1] \in Memories /\ InFile(m.cache, path) \in Seq(Memories)
<1>1. group \in Seq(Memories) /\ group[1] \in Memories
  BY DEF OneGroup
<1>2. path \in Paths
  BY <1>1, PathHome
<1>3. m.files \in Disks /\ m.cache \in Disks /\ DOMAIN m.cache \subseteq DOMAIN m.files
  BY StoreHas
<1> DEFINE old == InFile(m.cache, path)
           now2 == IF group[1].file THEN group ELSE old \o group
<1>4. n.files = Put(m.files, path, Merge(old, group)) /\ n.cache = Put(m.cache, path, now2) /\ n = [files |-> n.files, cache |-> n.cache]
  BY DEF WriteGroup
<1>5. old \in Seq(Memories)
  BY <1>1, <1>2, <1>3, PutDisk
<1>6. Merge(old, group) \in Seq(Memories) /\ now2 \in Seq(Memories)
  <2>1. Merge(old, group) \in Seq(Memories)
    <3> HIDE DEF old
    <3> QED BY <1>1, <1>5, Merged
  <2>2. old \o group \in Seq(Memories)
    <3> HIDE DEF old
    <3> QED BY <1>1, <1>5
  <2> QED BY <1>1, <2>1, <2>2
<1> HIDE DEF old, now2
<1> DEFINE merged == Merge(old, group)
           files == Put(m.files, path, merged)
           cache == Put(m.cache, path, now2)
<1>7. /\ files \in Disks /\ DOMAIN files = DOMAIN m.files \cup {path} /\ files[path] = merged
      /\ \A p \in DOMAIN m.files : p # path => files[p] = m.files[p]
  <2>1. merged \in Seq(Memories)
    BY <1>6
  <2> HIDE DEF merged
  <2> QED BY <1>2, <1>3, <2>1, PutDisk
<1>8. /\ cache \in Disks /\ DOMAIN cache = DOMAIN m.cache \cup {path} /\ cache[path] = now2
      /\ \A p \in DOMAIN m.cache : p # path => cache[p] = m.cache[p]
  BY <1>2, <1>3, <1>6, PutDisk
<1>9. n.files = files /\ n.cache = cache
  BY <1>4
<1> HIDE DEF files, cache, merged
<1>10. n \in Stores
  BY <1>3, <1>4, <1>7, <1>8, <1>9 DEF Stores
<1>11. merged = Merge(InFile(m.cache, path), group) /\ merged \in Seq(Memories)
  BY <1>6 DEF merged, old
<1>12. now2 = IF group[1].file THEN group ELSE InFile(m.cache, path) \o group
  BY DEF now2, old
<1>13. old = InFile(m.cache, path)
  BY DEF old
<1> QED BY <1>1, <1>2, <1>5, <1>7, <1>8, <1>10, <1>9, <1>11, <1>12, <1>13

(* Writing a group keeps a store sound and every chat memory on the disk.  *)
LEMMA WroteSound ==
  ASSUME NEW m, Sound(m), NEW group, OneGroup(group)
  PROVE  /\ Sound(WriteGroup(m, group)) /\ Keeps(m, WriteGroup(m, group))
         /\ IdsIn(group) \subseteq IdsIn(WriteGroup(m, group).files[Path(group[1])])
         /\ Path(group[1]) \in DOMAIN WriteGroup(m, group).files
<1> DEFINE n == WriteGroup(m, group)  path == Path(group[1])  old == InFile(m.cache, path)
<1>1. m \in Stores /\ group \in Seq(Memories) /\ m.files \in Disks /\ m.cache \in Disks
  BY StoreHas DEF Sound, OneGroup
<1>2. /\ n \in Stores /\ DOMAIN n.files = DOMAIN m.files \cup {path} /\ DOMAIN n.cache = DOMAIN m.cache \cup {path}
      /\ n.files[path] = Merge(old, group) /\ n.files[path] \in Seq(Memories)
      /\ n.cache[path] = IF group[1].file THEN group ELSE old \o group
      /\ \A p \in DOMAIN m.files : p # path => n.files[p] = m.files[p]
      /\ \A p \in DOMAIN m.cache : p # path => n.cache[p] = m.cache[p]
      /\ path \in Paths /\ group[1] \in Memories /\ old \in Seq(Memories)
  BY <1>1, Wrote
<1>3. old = IF path \in DOMAIN m.cache THEN m.cache[path] ELSE <<>>
  BY DEF InFile
<1>4. \A k \in DOMAIN group : Home(path, group[k])
  <2>1. \A k \in DOMAIN group : group[k] \in Memories /\ Path(group[k]) = path
    BY <1>1 DEF OneGroup
  <2> QED BY <2>1, PathHome
<1>5. \A k \in DOMAIN old : Home(path, old[k])
  BY <1>3 DEF Sound, Homely
<1>6. IdsIn(n.files[path]) = IdsIn(old) \cup IdsIn(group)
  <2> HIDE DEF n, path, old
  <2> QED BY <1>1, <1>2, Merged
<1>7. path[1] \in ChatDirs => ~group[1].file
  <2>1. Home(path, group[1])
    BY <1>2, PathHome
  <2> QED BY <2>1 DEF Home, IsChat
<1> HIDE DEF n, path, old
<1>8. Homely(n.files)
  <2>1. \A k \in DOMAIN n.files[path] : Home(path, n.files[path][k])
    BY <1>1, <1>2, <1>4, <1>5, Merged
  <2> QED BY <1>2, <2>1 DEF Sound, Homely
<1>9. \A i \in DOMAIN (old \o group) : Home(path, (old \o group)[i])
  <2>1. \A i \in DOMAIN (old \o group) : \/ i \in DOMAIN old /\ (old \o group)[i] = old[i]
                                         \/ \E j \in DOMAIN group : (old \o group)[i] = group[j]
    BY <1>1, <1>2
  <2> QED BY <1>4, <1>5, <2>1
<1>10. Homely(n.cache)
  <2>1. \A k \in DOMAIN n.cache[path] : Home(path, n.cache[path][k])
    BY <1>2, <1>4, <1>9
  <2> QED BY <1>2, <2>1 DEF Sound, Homely
<1>11. IdsIn(old \o group) = IdsIn(old) \cup IdsIn(group)
  <2>1. /\ \A i \in DOMAIN old : i \in DOMAIN (old \o group) /\ (old \o group)[i] = old[i]
        /\ \A i \in DOMAIN group : Len(old) + i \in DOMAIN (old \o group) /\ (old \o group)[Len(old) + i] = group[i]
        /\ \A i \in DOMAIN (old \o group) : \/ i \in DOMAIN old /\ (old \o group)[i] = old[i]
                                            \/ i - Len(old) \in DOMAIN group /\ (old \o group)[i] = group[i - Len(old)]
    BY <1>1, <1>2
  <2> QED BY <2>1 DEF IdsIn
<1>12. ASSUME NEW p \in DOMAIN n.files, p[1] \in ChatDirs
       PROVE  p \in DOMAIN n.cache /\ IdsIn(n.files[p]) \subseteq IdsIn(n.cache[p])
  <2>1. CASE p = path
    BY <1>2, <1>6, <1>7, <1>11, <1>12, <2>1
  <2>2. CASE p # path
    <3>1. p \in DOMAIN m.files /\ n.files[p] = m.files[p] /\ p \in DOMAIN m.cache /\ n.cache[p] = m.cache[p]
      BY <1>2, <1>12, <2>2 DEF Sound, Ahead
    <3> QED BY <1>2, <1>12, <3>1 DEF Sound, Ahead
  <2> QED BY <2>1, <2>2
<1>13. ASSUME NEW p \in DOMAIN m.files, p[1] \in ChatDirs
       PROVE  p \in DOMAIN n.files /\ IdsIn(m.files[p]) \subseteq IdsIn(n.files[p])
  <2>1. CASE p = path
    <3>1. p \in DOMAIN m.cache /\ IdsIn(m.files[p]) \subseteq IdsIn(m.cache[p])
      BY <1>13 DEF Sound, Ahead
    <3> QED BY <1>2, <1>3, <1>6, <2>1, <3>1
  <2>2. CASE p # path
    BY <1>2, <2>2
  <2> QED BY <2>1, <2>2
<1>14. Sound(n) /\ Keeps(m, n)
  BY <1>2, <1>8, <1>10, <1>12, <1>13 DEF Sound, Ahead, Keeps
<1> QED BY <1>2, <1>6, <1>14 DEF n, path

(* What is in the store after a group was written was there, or is of the  *)
(* group and at its place.                                                 *)
LEMMA WrotePlaced ==
  ASSUME NEW m \in Stores, NEW group, OneGroup(group), NEW T, AllPlaced(m) \subseteq T,
         \A k \in DOMAIN group : <<Path(group[k]), group[k]>> \in T
  PROVE  AllPlaced(WriteGroup(m, group)) \subseteq T
<1> DEFINE path == Path(group[1])  old == InFile(m.cache, path)
<1>1. group \in Seq(Memories) /\ m.files \in Disks /\ m.cache \in Disks /\ path \in Paths /\ old \in Seq(Memories)
  BY StoreHas, Wrote DEF OneGroup
<1>2. \A k \in DOMAIN old : <<path, old[k]>> \in T
  <2>1. ASSUME NEW k \in DOMAIN old PROVE path \in DOMAIN m.cache /\ old = m.cache[path]
    BY DEF InFile
  <2> HIDE DEF old, path
  <2> QED BY <1>1, <2>1, PlacedIs DEF AllPlaced
<1>3. \A k \in DOMAIN group : <<path, group[k]>> \in T
  BY DEF OneGroup
<1> DEFINE new == IF group[1].file THEN group ELSE old \o group
<1>4. new \in Seq(Memories) /\ \A k \in DOMAIN new : <<path, new[k]>> \in T
  <2> HIDE DEF old, path
  <2>1. old \o group \in Seq(Memories)
    BY <1>1
  <2>2. \A i \in DOMAIN (old \o group) : \/ i \in DOMAIN old /\ (old \o group)[i] = old[i]
                                         \/ \E j \in DOMAIN group : (old \o group)[i] = group[j]
    BY <1>1
  <2> QED BY <1>1, <1>2, <1>3, <2>1, <2>2
<1>5. Merge(old, group) \in Seq(Memories) /\ \A k \in DOMAIN Merge(old, group) : <<path, Merge(old, group)[k]>> \in T
  <2> HIDE DEF old, path
  <2> QED BY <1>1, <1>2, <1>3, Merged
<1>6. WriteGroup(m, group).files = Put(m.files, path, Merge(old, group)) /\ WriteGroup(m, group).cache = Put(m.cache, path, new)
  BY DEF WriteGroup
<1> HIDE DEF path, old, new
<1>7. Placed(Put(m.files, path, Merge(old, group))) \subseteq T
  BY <1>1, <1>5, PlacedPut DEF AllPlaced
<1>8. Placed(Put(m.cache, path, new)) \subseteq T
  BY <1>1, <1>4, PlacedPut DEF AllPlaced
<1> QED BY <1>6, <1>7, <1>8 DEF AllPlaced

-----------------------------------------------------------------------------
(* A batch is written group by group.                                      *)
Landed(m, group) ==
  Path(group[1])[1] \in ChatDirs =>
    Path(group[1]) \in DOMAIN m.files /\ IdsIn(group) \subseteq IdsIn(m.files[Path(group[1])])

LEMMA GroupOne ==
  ASSUME NEW items \in Seq(Memories), NEW key \in Groups(items)
  PROVE  OneGroup(Group(items, key))
<1> DEFINE q == Group(items, key)
<1>1. q \in Seq(Memories) /\ q # <<>> /\ \A k \in DOMAIN q : GroupOf(q[k]) = key
  BY GroupHas
<1> HIDE DEF q
<1>2. 1 \in DOMAIN q
  BY <1>1
<1>3. ASSUME NEW k \in DOMAIN q PROVE Path(q[k]) = Path(q[1]) /\ q[k].file = q[1].file
  <2>1. q[k] \in Memories /\ q[1] \in Memories /\ GroupOf(q[k]) = GroupOf(q[1])
    BY <1>1, <1>2
  <2>2. ASSUME NEW m \in Memories PROVE m.file \in BOOLEAN /\ (m.file => m.src # Blank)
    <3>1. Blank \notin Files
      BY SourcesAssumption DEF Sources
    <3> QED BY <3>1, MemoryHas
  <2> QED BY <2>1, <2>2, GroupPath
<1>4. OneGroup(q)
  BY <1>1, <1>3 DEF OneGroup
<1> QED BY <1>4 DEF q

LEMMA LandedStays ==
  ASSUME NEW m, NEW n, NEW group, Landed(m, group), Keeps(m, n)
  PROVE  Landed(n, group)
BY DEF Landed, Keeps

LEMMA KeepsOn ==
  ASSUME NEW m, NEW n, NEW o, Keeps(m, n), Keeps(n, o)
  PROVE  Keeps(m, o)
BY DEF Keeps

Batched(m, n, items, order, T, i) ==
  /\ Sound(n) /\ Keeps(m, n) /\ DOMAIN m.files \subseteq DOMAIN n.files /\ AllPlaced(n) \subseteq T
  /\ \A j \in 1..i : Landed(n, Group(items, order[j]))

LEMMA BatchStep ==
  ASSUME NEW m, NEW n, NEW items \in Seq(Memories), NEW order, NEW T, NEW i \in Nat, i # 0, order[i] \in Groups(items),
         \A k \in DOMAIN items : <<Path(items[k]), items[k]>> \in T,
         Batched(m, n, items, order, T, i - 1)
  PROVE  Batched(m, WriteGroup(n, Group(items, order[i])), items, order, T, i)
<1> DEFINE group == Group(items, order[i])  o == WriteGroup(n, group)
<1>1. OneGroup(group)
  BY GroupOne
<1>2. \A k \in DOMAIN group : <<Path(group[k]), group[k]>> \in T
  BY GroupHas
<1> HIDE DEF group
<1>3. /\ Sound(n) /\ n \in Stores /\ Keeps(m, n) /\ DOMAIN m.files \subseteq DOMAIN n.files /\ AllPlaced(n) \subseteq T
      /\ \A j \in 1..(i - 1) : Landed(n, Group(items, order[j]))
  BY DEF Batched, Sound
<1>4. DOMAIN m.files \subseteq DOMAIN o.files
  <2>1. DOMAIN o.files = DOMAIN n.files \cup {Path(group[1])}
    BY <1>1, <1>3, Wrote
  <2> QED BY <1>3, <2>1
<1>5. Sound(o) /\ Keeps(n, o) /\ Landed(o, group)
  BY <1>1, <1>3, WroteSound DEF Landed
<1>6. AllPlaced(o) \subseteq T
  BY <1>1, <1>2, <1>3, WrotePlaced
<1> HIDE DEF o
<1>7. Keeps(m, o)
  BY <1>3, <1>5, KeepsOn
<1>8. ASSUME NEW j \in 1..i PROVE Landed(o, Group(items, order[j]))
  <2>1. CASE j = i
    BY <1>5, <2>1 DEF group
  <2>2. CASE j # i
    <3>1. j \in 1..(i - 1)
      BY <2>2
    <3> QED BY <1>3, <1>5, <3>1, LandedStays
  <2> QED BY <2>1, <2>2
<1>9. Batched(m, o, items, order, T, i)
  BY <1>3, <1>5, <1>6, <1>7, <1>8, <1>4 DEF Batched
<1> QED BY <1>9 DEF o, group

IsRun(f, m, items, order) ==
  f = [s \in SUBSET (DOMAIN order) |->
         IF s = {} THEN m ELSE WriteGroup(f[s \ {Max(s)}], Group(items, order[Max(s)]))]

LEMMA RunExists ==
  ASSUME NEW m \in Stores, NEW items \in Seq(Memories), NEW order \in Seq(Groups(items))
  PROVE  \E f : IsRun(f, m, items, order)
<1> DEFINE E == Groups(items)
           g == [x \in Stores \X E |-> WriteGroup(x[1], Group(items, x[2]))]
           n == Len(order)
<1>1. n \in Nat /\ DOMAIN order = 1..n /\ \A i \in 1..n : order[i] \in E
  OBVIOUS
<1>2. ASSUME NEW x \in Stores, NEW key \in E PROVE WriteGroup(x, Group(items, key)) \in Stores
  BY GroupOne, Wrote
<1>3. g \in [Stores \X E -> Stores] /\ \A x \in Stores, key \in E : g[<<x, key>>] = WriteGroup(x, Group(items, key))
  <2>1. \A x \in Stores \X E : x[1] \in Stores /\ x[2] \in E
    OBVIOUS
  <2>2. \A x \in Stores \X E : WriteGroup(x[1], Group(items, x[2])) \in Stores
    BY <1>2, <2>1
  <2>3. \A x \in Stores, key \in E : <<x, key>> \in Stores \X E /\ <<x, key>>[1] = x /\ <<x, key>>[2] = key
    OBVIOUS
  <2> HIDE DEF E
  <2> QED BY <2>2, <2>3
<1> HIDE DEF E, g
<1>4. PICK f : IsFold(f, Stores, g, m, n, order)
  BY <1>1, <1>3, FoldExists
<1>5. f = [s \in SUBSET (1..n) |-> f[s]] /\ \A s \in SUBSET (1..n) : f[s] \in Stores
  BY <1>4 DEF IsFold
<1>6. ASSUME NEW s \in SUBSET (1..n), s # {} PROVE f[s] = WriteGroup(f[s \ {Max(s)}], Group(items, order[Max(s)]))
  <2>1. Max(s) \in s
    BY <1>1, <1>6, GreatestOf
  <2>2. s \ {Max(s)} \in SUBSET (1..n) /\ order[Max(s)] \in E
    BY <1>1, <2>1
  <2>3. f[s] = g[<<f[s \ {Max(s)}], order[Max(s)]>>]
    BY <1>4, <1>6 DEF IsFold
  <2>4. f[s \ {Max(s)}] \in Stores
    BY <1>5, <2>2
  <2> QED BY <1>3, <2>2, <2>3, <2>4
<1>7. f[{}] = m
  BY <1>4 DEF IsFold
<1>8. \A s \in SUBSET (1..n) : f[s] = IF s = {} THEN m ELSE WriteGroup(f[s \ {Max(s)}], Group(items, order[Max(s)]))
  BY <1>6, <1>7
<1>9. IsRun(f, m, items, order)
  <2>1. f = [s \in SUBSET (1..n) |-> IF s = {} THEN m ELSE WriteGroup(f[s \ {Max(s)}], Group(items, order[Max(s)]))]
    BY <1>5, <1>8, Zenon
  <2> QED BY <1>1, <2>1 DEF IsRun
<1> QED BY <1>9

LEMMA RunSteps ==
  ASSUME NEW m \in Stores, NEW items \in Seq(Memories), NEW order \in Seq(Groups(items))
  PROVE  \E G : /\ G[0] = m /\ G[Len(order)] = StoreInOrder(m, items, order)
               /\ \A i \in 1..Len(order) : G[i] = WriteGroup(G[i - 1], Group(items, order[i]))
<1> DEFINE n == Len(order)
           F == CHOOSE f : IsRun(f, m, items, order)
<1>1. n \in Nat /\ DOMAIN order = 1..n
  OBVIOUS
<1>2. StoreInOrder(m, items, order) = F[DOMAIN order]
  BY DEF StoreInOrder, FoldLeft, MapThenFoldSet, IsRun
<1>3. IsRun(F, m, items, order)
  BY RunExists
<1> HIDE DEF F
<1> DEFINE G == [i \in 0..n |-> F[1..i]]
<1>4. F[1..0] = m
  <2>1. 1..0 = {} /\ {} \in SUBSET (DOMAIN order)
    OBVIOUS
  <2> QED BY <1>3, <2>1 DEF IsRun
<1>5. ASSUME NEW i \in 1..n PROVE F[1..i] = WriteGroup(F[1..(i - 1)], Group(items, order[i]))
  <2>1. 1..i # {} /\ Max(1..i) = i /\ (1..i) \ {i} = 1..(i - 1) /\ 1..i \in SUBSET (1..n)
    BY <1>1, FoldRuns
  <2>2. F[1..i] = WriteGroup(F[(1..i) \ {Max(1..i)}], Group(items, order[Max(1..i)]))
    BY <1>1, <1>3, <2>1, Zenon DEF IsRun
  <2> QED BY <2>1, <2>2
<1>6. \A i \in 0..n : G[i] = F[1..i]
  OBVIOUS
<1> HIDE DEF G
<1>7. ASSUME NEW i \in 1..n PROVE G[i] = WriteGroup(G[i - 1], Group(items, order[i]))
  <2>1. i \in 0..n /\ i - 1 \in 0..n
    BY <1>1
  <2> QED BY <1>5, <1>6, <2>1
<1>8. G[0] = m /\ G[n] = StoreInOrder(m, items, order)
  BY <1>1, <1>2, <1>4, <1>6
<1> QED BY <1>7, <1>8

LEMMA StoreRuns ==
  ASSUME NEW m, Sound(m), NEW items \in Seq(Memories), NEW order \in Seq(Groups(items)), NEW T, AllPlaced(m) \subseteq T,
         \A k \in DOMAIN items : <<Path(items[k]), items[k]>> \in T
  PROVE  Batched(m, StoreInOrder(m, items, order), items, order, T, Len(order))
<1> DEFINE n == Len(order)
<1>1. n \in Nat /\ \A i \in 1..n : order[i] \in Groups(items)
  OBVIOUS
<1>2. PICK G : /\ G[0] = m /\ G[n] = StoreInOrder(m, items, order)
               /\ \A i \in 1..n : G[i] = WriteGroup(G[i - 1], Group(items, order[i]))
  BY RunSteps DEF Sound
<1> DEFINE S == {i \in 0..n : Batched(m, G[i], items, order, T, i)}
<1>3. 0 \in S
  <2>1. Keeps(m, m)
    BY DEF Keeps
  <2>2. \A j \in 1..0 : Landed(m, Group(items, order[j]))
    OBVIOUS
  <2>3. Batched(m, m, items, order, T, 0)
    BY <2>1, <2>2 DEF Batched
  <2> QED BY <1>1, <1>2, <2>3
<1>4. ASSUME NEW i \in 1..n, i - 1 \in S PROVE i \in S
  <2>1. i \in Nat /\ i # 0 /\ order[i] \in Groups(items)
    BY <1>1
  <2>2. Batched(m, G[i - 1], items, order, T, i - 1)
    BY <1>4
  <2>3. Batched(m, WriteGroup(G[i - 1], Group(items, order[i])), items, order, T, i)
    BY <2>1, <2>2, BatchStep
  <2> QED BY <1>1, <1>2, <2>3
<1>5. n \in S
  <2> HIDE DEF S
  <2>1. \A i \in 0..n : i \in S
    BY <1>1, <1>3, <1>4, Upwards
  <2> QED BY <1>1, <2>1
<1> QED BY <1>2, <1>5

-----------------------------------------------------------------------------
(* Memories of the first layer are deleted one by one.  Their IDs are in   *)
(* no cache of chat memories.                                              *)
Strange(m, id) == \A path \in DOMAIN m.cache : path[1] \in ChatDirs => id \notin IdsIn(m.cache[path])
SameChats(m, n) ==
  /\ \A path \in DOMAIN n.cache : path[1] \in ChatDirs => path \in DOMAIN m.cache /\ n.cache[path] = m.cache[path]
  /\ Keeps(m, n)

LEMMA StrangeStays ==
  ASSUME NEW m, NEW n, NEW id, Strange(m, id), SameChats(m, n)
  PROVE  Strange(n, id)
BY DEF Strange, SameChats

LEMMA SameOn ==
  ASSUME NEW m, NEW n, NEW o, SameChats(m, n), SameChats(n, o)
  PROVE  SameChats(m, o)
<1>1. Keeps(m, o)
  BY KeepsOn DEF SameChats
<1> QED BY <1>1 DEF SameChats

LEMMA Deleted ==
  ASSUME NEW m \in Stores, NEW id
  PROVE  /\ DeleteItem(m, id) \in Stores
         /\ AllPlaced(DeleteItem(m, id)) \subseteq AllPlaced(m)
         /\ Sound(m) /\ Strange(m, id) => Sound(DeleteItem(m, id)) /\ SameChats(m, DeleteItem(m, id))
<1> DEFINE paths == {p \in DOMAIN m.cache : id \in IdsIn(m.cache[p])}
           path == CHOOSE p \in paths : TRUE
           rest == Pick(m.cache[path], {k \in DOMAIN m.cache[path] : m.cache[path][k].id # id})
           n == DeleteItem(m, id)
<1>1. m = [files |-> m.files, cache |-> m.cache] /\ m.files \in Disks /\ m.cache \in Disks /\ DOMAIN m.cache \subseteq DOMAIN m.files
  BY StoreHas
<1>2. CASE paths = {}
  <2>1. n = m
    BY <1>2 DEF DeleteItem
  <2>2. SameChats(m, m)
    BY <1>1 DEF SameChats, Keeps
  <2> QED BY <2>1, <2>2
<1>3. CASE paths # {}
  <2>1. path \in DOMAIN m.cache /\ id \in IdsIn(m.cache[path])
    BY <1>3
  <2>2. n = [files |-> IF rest = <<>> THEN m.files ELSE Put(m.files, path, Merge(rest, rest)),
             cache |-> Put(m.cache, path, rest)]
    BY <1>3 DEF DeleteItem
  <2>3. m.cache[path] \in Seq(Memories) /\ path \in Paths /\ path \in DOMAIN m.files
        /\ \A k \in DOMAIN m.cache[path] : <<path, m.cache[path][k]>> \in AllPlaced(m)
    <3> HIDE DEF path
    <3> QED BY <1>1, <2>1, PlacedIs DEF AllPlaced
  <2> HIDE DEF paths, path, n
  <2>4. rest \in Seq(Memories) /\ \A k \in DOMAIN rest : \E i \in DOMAIN m.cache[path] : rest[k] = m.cache[path][i]
    <3> DEFINE S == {k \in DOMAIN m.cache[path] : m.cache[path][k].id # id}
    <3>1. S \in SUBSET (DOMAIN m.cache[path]) /\ rest = Pick(m.cache[path], S)
      OBVIOUS
    <3> HIDE DEF S, rest
    <3>2. rest \in Seq({m.cache[path][i] : i \in S}) /\ \A k \in DOMAIN rest : PlaceOf(S, k) \in S /\ rest[k] = m.cache[path][PlaceOf(S, k)]
      BY <2>3, <3>1, Picked
    <3>3. {m.cache[path][i] : i \in S} \subseteq Memories
      BY <2>3, <3>1
    <3>4. rest \in Seq(Memories)
      BY <3>2, <3>3, SeqMonotonic
    <3> QED BY <3>1, <3>2, <3>4
  <2> DEFINE twice == Merge(rest, rest)
  <2> HIDE DEF rest
  <2>5. twice \in Seq(Memories) /\ \A k \in DOMAIN twice : \E i \in DOMAIN m.cache[path] : twice[k] = m.cache[path][i]
    BY <2>4, Merged
  <2> HIDE DEF twice
  <2>6. AllPlaced(n) \subseteq AllPlaced(m)
    <3>1. Placed(Put(m.files, path, twice)) \subseteq AllPlaced(m)
      <4>1. Placed(m.files) \subseteq AllPlaced(m) /\ \A k \in DOMAIN twice : <<path, twice[k]>> \in AllPlaced(m)
        BY <2>3, <2>5 DEF AllPlaced
      <4> QED BY <1>1, <2>3, <2>5, <4>1, PlacedPut
    <3>2. Placed(Put(m.cache, path, rest)) \subseteq AllPlaced(m)
      <4>1. Placed(m.cache) \subseteq AllPlaced(m) /\ \A k \in DOMAIN rest : <<path, rest[k]>> \in AllPlaced(m)
        BY <2>3, <2>4 DEF AllPlaced
      <4> QED BY <1>1, <2>3, <2>4, <4>1, PlacedPut
    <3>3. Placed(m.files) \subseteq AllPlaced(m)
      BY DEF AllPlaced
    <3>4. Placed(n.files) \subseteq AllPlaced(m) /\ Placed(n.cache) \subseteq AllPlaced(m)
      BY <2>2, <3>1, <3>2, <3>3 DEF twice
    <3> QED BY <3>4 DEF AllPlaced
  <2> DEFINE cache == Put(m.cache, path, rest)
             files == Put(m.files, path, twice)
  <2>7. /\ cache \in Disks /\ DOMAIN cache = DOMAIN m.cache /\ cache[path] = rest
        /\ \A p \in DOMAIN m.cache : p # path => cache[p] = m.cache[p]
    <3>1. /\ cache \in Disks /\ DOMAIN cache = DOMAIN m.cache \cup {path} /\ cache[path] = rest
          /\ \A p \in DOMAIN m.cache : p # path => cache[p] = m.cache[p]
      <4> DEFINE fs == m.cache  put == Put(fs, path, rest)
      <4>1. fs \in Disks /\ path \in Paths /\ rest \in Seq(Memories)
        BY <1>1, <2>3, <2>4
      <4> HIDE DEF fs, put
      <4>2. put \in Disks /\ DOMAIN put = DOMAIN fs \cup {path} /\ put[path] = rest /\ \A p \in DOMAIN fs : p # path => put[p] = fs[p]
        BY <4>1, PutDisk, Zenon DEF put
      <4>3. put = cache
        BY DEF put, fs
      <4> QED BY <4>2, <4>3 DEF fs
    <3> HIDE DEF cache
    <3> QED BY <2>1, <3>1
  <2>8. /\ files \in Disks /\ DOMAIN files = DOMAIN m.files /\ files[path] = twice
        /\ \A p \in DOMAIN m.files : p # path => files[p] = m.files[p]
    <3>1. /\ files \in Disks /\ DOMAIN files = DOMAIN m.files \cup {path} /\ files[path] = twice
          /\ \A p \in DOMAIN m.files : p # path => files[p] = m.files[p]
      <4> DEFINE fs == m.files  put == Put(fs, path, twice)
      <4>1. fs \in Disks /\ path \in Paths /\ twice \in Seq(Memories)
        BY <1>1, <2>3, <2>5
      <4> HIDE DEF fs, put
      <4>2. put \in Disks /\ DOMAIN put = DOMAIN fs \cup {path} /\ put[path] = twice /\ \A p \in DOMAIN fs : p # path => put[p] = fs[p]
        BY <4>1, PutDisk, Zenon DEF put
      <4>3. put = files
        BY DEF put, fs
      <4> QED BY <4>2, <4>3 DEF fs
    <3> HIDE DEF files
    <3> QED BY <2>3, <3>1
  <2>9. n.cache = cache /\ n.files = IF rest = <<>> THEN m.files ELSE files
    BY <2>2 DEF twice
  <2>10. n = [files |-> n.files, cache |-> n.cache]
    BY <2>2
  <2> HIDE DEF cache, files
  <2>11. n \in Stores
    BY <1>1, <2>7, <2>8, <2>9, <2>10 DEF Stores
  <2>12. ASSUME Sound(m), Strange(m, id) PROVE Sound(n) /\ SameChats(m, n)
    <3>1. path[1] \notin ChatDirs
      BY <2>1, <2>12 DEF Strange
    <3>2. \A i \in DOMAIN m.cache[path] : Home(path, m.cache[path][i])
      BY <2>1, <2>12 DEF Sound, Homely
    <3>3. Homely(n.cache)
      <4>1. Homely(cache)
        <5>1. \A p \in DOMAIN cache : p # path => cache[p] = m.cache[p]
          BY <2>7
        <5>2. \A k \in DOMAIN cache[path] : Home(path, cache[path][k])
          BY <2>4, <2>7, <3>2
        <5> QED BY <2>7, <2>12, <5>1, <5>2 DEF Sound, Homely
      <4> QED BY <2>9, <4>1
    <3>4. Homely(n.files)
      <4>1. Homely(files)
        <5>1. \A p \in DOMAIN files : p # path => files[p] = m.files[p]
          BY <2>8
        <5>2. \A k \in DOMAIN files[path] : Home(path, files[path][k])
          BY <2>5, <2>8, <3>2
        <5> QED BY <2>8, <2>12, <5>1, <5>2 DEF Sound, Homely
      <4> QED BY <2>9, <2>12, <4>1 DEF Sound
    <3>5. DOMAIN n.files = DOMAIN m.files /\ DOMAIN n.cache = DOMAIN m.cache
      BY <2>7, <2>8, <2>9
    <3>6. ASSUME NEW p, p[1] \in ChatDirs
          PROVE  /\ p \in DOMAIN m.files => n.files[p] = m.files[p]
                 /\ p \in DOMAIN m.cache => n.cache[p] = m.cache[p]
      <4>1. p # path
        BY <3>1, <3>6
      <4> QED BY <2>7, <2>8, <2>9, <4>1
    <3>7. Ahead(n)
      BY <2>12, <3>5, <3>6 DEF Sound, Ahead
    <3>8. SameChats(m, n)
      BY <3>5, <3>6 DEF SameChats, Keeps
    <3> QED BY <2>11, <3>3, <3>4, <3>7, <3>8 DEF Sound
  <2> QED BY <2>6, <2>11, <2>12 DEF n
<1> QED BY <1>2, <1>3

Cleared(m, n, items) ==
  Sound(n) /\ SameChats(m, n) /\ AllPlaced(n) \subseteq AllPlaced(m) /\ \A k \in DOMAIN items : Strange(n, items[k].id)

IsClearing(f, m, items) ==
  f = [s \in SUBSET (DOMAIN items) |->
         IF s = {} THEN m ELSE DeleteItem(f[s \ {Max(s)}], items[Max(s)].id)]

LEMMA ClearingExists ==
  ASSUME NEW m \in Stores, NEW items \in Seq(Memories)
  PROVE  \E f : IsClearing(f, m, items)
<1> DEFINE g == [x \in Stores \X Memories |-> DeleteItem(x[1], x[2].id)]
           n == Len(items)
<1>1. n \in Nat /\ DOMAIN items = 1..n /\ \A i \in 1..n : items[i] \in Memories
  OBVIOUS
<1>2. ASSUME NEW x \in Stores, NEW e \in Memories PROVE DeleteItem(x, e.id) \in Stores
  BY Deleted
<1>3. g \in [Stores \X Memories -> Stores] /\ \A x \in Stores, e \in Memories : g[<<x, e>>] = DeleteItem(x, e.id)
  <2>1. \A x \in Stores \X Memories : x[1] \in Stores /\ x[2] \in Memories
    OBVIOUS
  <2>2. \A x \in Stores \X Memories : DeleteItem(x[1], x[2].id) \in Stores
    BY <1>2, <2>1
  <2>3. \A x \in Stores, e \in Memories : <<x, e>> \in Stores \X Memories /\ <<x, e>>[1] = x /\ <<x, e>>[2] = e
    OBVIOUS
  <2> QED BY <2>2, <2>3
<1> HIDE DEF g
<1>4. PICK f : IsFold(f, Stores, g, m, n, items)
  BY <1>1, <1>3, FoldExists
<1>5. f = [s \in SUBSET (1..n) |-> f[s]] /\ \A s \in SUBSET (1..n) : f[s] \in Stores
  BY <1>4 DEF IsFold
<1>6. ASSUME NEW s \in SUBSET (1..n), s # {} PROVE f[s] = DeleteItem(f[s \ {Max(s)}], items[Max(s)].id)
  <2>1. Max(s) \in s
    BY <1>1, <1>6, GreatestOf
  <2>2. s \ {Max(s)} \in SUBSET (1..n) /\ items[Max(s)] \in Memories
    BY <1>1, <2>1
  <2>3. f[s] = g[<<f[s \ {Max(s)}], items[Max(s)]>>]
    BY <1>4, <1>6 DEF IsFold
  <2>4. f[s \ {Max(s)}] \in Stores
    BY <1>5, <2>2
  <2> QED BY <1>3, <2>2, <2>3, <2>4
<1>7. f[{}] = m
  BY <1>4 DEF IsFold
<1>8. \A s \in SUBSET (1..n) : f[s] = IF s = {} THEN m ELSE DeleteItem(f[s \ {Max(s)}], items[Max(s)].id)
  BY <1>6, <1>7
<1>9. IsClearing(f, m, items)
  <2>1. f = [s \in SUBSET (1..n) |-> IF s = {} THEN m ELSE DeleteItem(f[s \ {Max(s)}], items[Max(s)].id)]
    BY <1>5, <1>8, Zenon
  <2> QED BY <1>1, <2>1 DEF IsClearing
<1> QED BY <1>9

Clearing(m, items) == FoldLeft(LAMBDA acc, item : DeleteItem(acc, item.id), m, items)

LEMMA ClearSteps ==
  ASSUME NEW m \in Stores, NEW items \in Seq(Memories)
  PROVE  \E G : /\ G[0] = m /\ G[Len(items)] = Clearing(m, items)
               /\ \A i \in 1..Len(items) : G[i] = DeleteItem(G[i - 1], items[i].id)
<1> DEFINE n == Len(items)
           F == CHOOSE f : IsClearing(f, m, items)
<1>1. n \in Nat /\ DOMAIN items = 1..n
  OBVIOUS
<1>2. Clearing(m, items) = F[DOMAIN items]
  BY DEF Clearing, FoldLeft, MapThenFoldSet, IsClearing
<1>3. IsClearing(F, m, items)
  BY ClearingExists
<1> HIDE DEF F
<1> DEFINE G == [i \in 0..n |-> F[1..i]]
<1>4. F[1..0] = m
  <2>1. 1..0 = {} /\ {} \in SUBSET (DOMAIN items)
    OBVIOUS
  <2> QED BY <1>3, <2>1 DEF IsClearing
<1>5. ASSUME NEW i \in 1..n PROVE F[1..i] = DeleteItem(F[1..(i - 1)], items[i].id)
  <2>1. 1..i # {} /\ Max(1..i) = i /\ (1..i) \ {i} = 1..(i - 1) /\ 1..i \in SUBSET (1..n)
    BY <1>1, FoldRuns
  <2>2. F[1..i] = DeleteItem(F[(1..i) \ {Max(1..i)}], items[Max(1..i)].id)
    BY <1>1, <1>3, <2>1, Zenon DEF IsClearing
  <2> QED BY <2>1, <2>2
<1>6. \A i \in 0..n : G[i] = F[1..i]
  OBVIOUS
<1> HIDE DEF G
<1>7. ASSUME NEW i \in 1..n PROVE G[i] = DeleteItem(G[i - 1], items[i].id)
  <2>1. i \in 0..n /\ i - 1 \in 0..n
    BY <1>1
  <2> QED BY <1>5, <1>6, <2>1
<1>8. G[0] = m /\ G[n] = Clearing(m, items)
  BY <1>1, <1>2, <1>4, <1>6
<1> QED BY <1>7, <1>8

LEMMA ClearRuns ==
  ASSUME NEW m, Sound(m), NEW items \in Seq(Memories), \A k \in DOMAIN items : Strange(m, items[k].id)
  PROVE  Cleared(m, Clearing(m, items), items)
<1> DEFINE n == Len(items)
<1>1. n \in Nat /\ DOMAIN items = 1..n
  OBVIOUS
<1>2. PICK G : G[0] = m /\ G[n] = Clearing(m, items) /\ \A i \in 1..n : G[i] = DeleteItem(G[i - 1], items[i].id)
  BY ClearSteps DEF Sound
<1> DEFINE S == {i \in 0..n : Cleared(m, G[i], items)}
<1>3. 0 \in S
  <2>1. SameChats(m, m)
    BY DEF SameChats, Keeps
  <2>2. Cleared(m, m, items)
    BY <2>1 DEF Cleared
  <2> QED BY <1>1, <1>2, <2>2
<1>4. ASSUME NEW i \in 1..n, i - 1 \in S PROVE i \in S
  <2> DEFINE a == G[i - 1]
  <2>1. Cleared(m, a, items)
    BY <1>4
  <2> HIDE DEF a
  <2>2. Sound(a) /\ a \in Stores /\ SameChats(m, a) /\ AllPlaced(a) \subseteq AllPlaced(m) /\ Strange(a, items[i].id)
        /\ \A k \in DOMAIN items : Strange(a, items[k].id)
    BY <1>1, <2>1 DEF Cleared, Sound
  <2> DEFINE b == DeleteItem(a, items[i].id)
  <2>3. Sound(b) /\ SameChats(a, b) /\ AllPlaced(b) \subseteq AllPlaced(a)
    BY <2>2, Deleted
  <2> HIDE DEF b
  <2>4. SameChats(m, b) /\ AllPlaced(b) \subseteq AllPlaced(m) /\ \A k \in DOMAIN items : Strange(b, items[k].id)
    BY <2>2, <2>3, SameOn, StrangeStays
  <2>5. Cleared(m, b, items)
    BY <2>3, <2>4 DEF Cleared
  <2>6. G[i] = b
    BY <1>2 DEF a, b
  <2> QED BY <2>5, <2>6
<1>5. n \in S
  <2> HIDE DEF S
  <2>1. \A i \in 0..n : i \in S
    BY <1>1, <1>3, <1>4, Upwards
  <2> QED BY <1>1, <2>1
<1> QED BY <1>2, <1>5

LEMMA FrontHas ==
  ASSUME NEW T, NEW s \in Seq(T), Len(s) > 1
  PROVE  Front(s) \in Seq(T) /\ DOMAIN Front(s) \subseteq DOMAIN s /\ (\A k \in DOMAIN Front(s) : Front(s)[k] = s[k])
         /\ Last(s) \in T /\ \E i \in DOMAIN s : Last(s) = s[i]
<1>1. Len(s) \in Nat /\ DOMAIN s = 1..Len(s) /\ Len(s) \in DOMAIN s /\ Len(s) - 1 \in Nat /\ Len(s) - 1 < Len(s)
  OBVIOUS
<1>2. /\ Front(s) \in Seq(T) /\ DOMAIN Front(s) = 1..(Len(s) - 1)
      /\ \A k \in 1..(Len(s) - 1) : Front(s)[k] = s[k]
  BY <1>1 DEF Front
<1>3. DOMAIN Front(s) \subseteq DOMAIN s
  BY <1>1, <1>2
<1>4. Last(s) = s[Len(s)]
  BY DEF Last
<1> QED BY <1>1, <1>2, <1>3, <1>4

LEMMA PickedFrom ==
  ASSUME NEW T, NEW s \in Seq(T), NEW S \in SUBSET (DOMAIN s)
  PROVE  Pick(s, S) \in Seq(T) /\ \A k \in DOMAIN Pick(s, S) : \E i \in S : Pick(s, S)[k] = s[i]
<1>1. Pick(s, S) \in Seq({s[i] : i \in S}) /\ \A k \in DOMAIN Pick(s, S) : PlaceOf(S, k) \in S /\ Pick(s, S)[k] = s[PlaceOf(S, k)]
  BY Picked
<1>2. {s[i] : i \in S} \subseteq T
  OBVIOUS
<1>3. Pick(s, S) \in Seq(T)
  BY <1>1, <1>2, SeqMonotonic
<1> QED BY <1>1, <1>3

LEMMA AppendHas ==
  ASSUME NEW T, NEW s \in Seq(T), NEW e \in T
  PROVE  Append(s, e) \in Seq(T) /\ \A k \in DOMAIN Append(s, e) : Append(s, e)[k] = e \/ (k \in DOMAIN s /\ Append(s, e)[k] = s[k])
OBVIOUS

LEMMA JoinHas ==
  ASSUME NEW T, NEW s \in Seq(T), NEW t \in Seq(T)
  PROVE  /\ s \o t \in Seq(T)
         /\ \A k \in DOMAIN (s \o t) : \/ k \in DOMAIN s /\ (s \o t)[k] = s[k]
                                       \/ \E j \in DOMAIN t : (s \o t)[k] = t[j]
         /\ \A k \in DOMAIN s : k \in DOMAIN (s \o t) /\ (s \o t)[k] = s[k]
         /\ \A k \in DOMAIN t : \E j \in DOMAIN (s \o t) : (s \o t)[j] = t[k]
<1>1. \A k \in DOMAIN t : Len(s) + k \in DOMAIN (s \o t) /\ (s \o t)[Len(s) + k] = t[k]
  OBVIOUS
<1>2. s \o t \in Seq(T)
  OBVIOUS
<1>3. \A k \in DOMAIN s : k \in DOMAIN (s \o t) /\ (s \o t)[k] = s[k]
  OBVIOUS
<1>4. \A k \in DOMAIN (s \o t) : \/ k \in DOMAIN s /\ (s \o t)[k] = s[k]
                                 \/ k - Len(s) \in DOMAIN t /\ (s \o t)[k] = t[k - Len(s)]
  OBVIOUS
<1> QED BY <1>1, <1>2, <1>3, <1>4, Zenon

LEMMA Compacting ==
  ASSUME NEW m, Sound(m), NEW list \in Seq(Memories), \A k \in DOMAIN list : Strange(m, list[k].id), NEW user
  PROVE  /\ Sound(Compacted(m, list, user).md) /\ SameChats(m, Compacted(m, list, user).md)
         /\ AllPlaced(Compacted(m, list, user).md) \subseteq AllPlaced(m)
         /\ Compacted(m, list, user).l1 \in Seq(Memories)
         /\ \A k \in DOMAIN Compacted(m, list, user).l1 : \E i \in DOMAIN list : Compacted(m, list, user).l1[k] = list[i]
<1> DEFINE S == OfUser(list, user)
           mine == Pick(list, S)
           others == Pick(list, DOMAIN list \ S)
           r == Compacted(m, list, user)
<1>1. S \in SUBSET (DOMAIN list) /\ DOMAIN list \ S \in SUBSET (DOMAIN list)
  BY DEF OfUser
<1> HIDE DEF S
<1>2. mine \in Seq(Memories) /\ \A k \in DOMAIN mine : \E i \in DOMAIN list : mine[k] = list[i]
  <2>1. \A k \in DOMAIN mine : \E i \in S : mine[k] = list[i]
    BY <1>1, PickedFrom
  <2>2. mine \in Seq(Memories)
    BY <1>1, PickedFrom
  <2> QED BY <1>1, <2>1, <2>2
<1>3. others \in Seq(Memories) /\ \A k \in DOMAIN others : \E i \in DOMAIN list : others[k] = list[i]
  <2>1. \A k \in DOMAIN others : \E i \in DOMAIN list \ S : others[k] = list[i]
    BY <1>1, PickedFrom
  <2>2. others \in Seq(Memories)
    BY <1>1, PickedFrom
  <2> QED BY <1>1, <2>1, <2>2
<1>4. r = IF Len(mine) <= 1 THEN [md |-> m, l1 |-> list]
          ELSE [md |-> Clearing(m, Front(mine)), l1 |-> Append(others, Last(mine))]
  BY DEF Compacted, S, Clearing
<1> HIDE DEF mine, others, r
<1>5. CASE Len(mine) <= 1
  <2>1. r.md = m /\ r.l1 = list
    BY <1>4, <1>5
  <2>2. SameChats(m, m)
    BY DEF SameChats, Keeps
  <2>3. /\ Sound(r.md) /\ SameChats(m, r.md) /\ AllPlaced(r.md) \subseteq AllPlaced(m) /\ r.l1 \in Seq(Memories)
        /\ \A k \in DOMAIN r.l1 : \E i \in DOMAIN list : r.l1[k] = list[i]
    BY <2>1, <2>2
  <2> QED BY <2>3 DEF r
<1>6. CASE ~(Len(mine) <= 1)
  <2>1. Len(mine) > 1
    BY <1>2, <1>6
  <2>2. /\ Front(mine) \in Seq(Memories) /\ DOMAIN Front(mine) \subseteq DOMAIN mine
        /\ \A k \in DOMAIN Front(mine) : Front(mine)[k] = mine[k]
        /\ Last(mine) \in Memories /\ \E i \in DOMAIN mine : Last(mine) = mine[i]
    BY <1>2, <2>1, FrontHas
  <2> DEFINE most == Front(mine)
             o == Clearing(m, most)
  <2>3. \A k \in DOMAIN most : Strange(m, most[k].id)
    BY <1>2, <2>2
  <2>4. most \in Seq(Memories)
    BY <2>2
  <2>5. r.md = o /\ r.l1 = Append(others, Last(mine))
    BY <1>4, <1>6
  <2> HIDE DEF most
  <2>6. Cleared(m, o, most)
    BY <2>3, <2>4, ClearRuns
  <2> HIDE DEF o
  <2>7. Append(others, Last(mine)) \in Seq(Memories)
        /\ \A k \in DOMAIN Append(others, Last(mine)) : \/ Append(others, Last(mine))[k] = Last(mine)
                                                        \/ k \in DOMAIN others /\ Append(others, Last(mine))[k] = others[k]
    BY <1>3, <2>2, AppendHas
  <2>8. \A k \in DOMAIN Append(others, Last(mine)) : \E i \in DOMAIN list : Append(others, Last(mine))[k] = list[i]
    BY <1>2, <1>3, <2>2, <2>7
  <2>9. /\ Sound(r.md) /\ SameChats(m, r.md) /\ AllPlaced(r.md) \subseteq AllPlaced(m) /\ r.l1 \in Seq(Memories)
        /\ \A k \in DOMAIN r.l1 : \E i \in DOMAIN list : r.l1[k] = list[i]
    BY <2>5, <2>6, <2>7, <2>8 DEF Cleared
  <2> QED BY <2>9 DEF r
<1> QED BY <1>5, <1>6

LEMMA OneAlone ==
  ASSUME NEW item \in Memories
  PROVE  /\ OneGroup(<<item>>) /\ <<item>>[1] = item /\ IdsIn(<<item>>) = {item.id}
         /\ DOMAIN <<item>> = {1}
<1>1. <<item>> \in Seq(Memories) /\ DOMAIN <<item>> = {1} /\ <<item>>[1] = item /\ <<item>> # <<>>
  OBVIOUS
<1>2. IdsIn(<<item>>) = {item.id}
  BY <1>1 DEF IdsIn
<1> QED BY <1>1, <1>2 DEF OneGroup

LEMMA StoredOne ==
  ASSUME NEW m, Sound(m), NEW item \in Memories, NEW T, AllPlaced(m) \subseteq T, <<Path(item), item>> \in T
  PROVE  /\ Sound(StoreOne(m, item)) /\ Keeps(m, StoreOne(m, item)) /\ AllPlaced(StoreOne(m, item)) \subseteq T
         /\ Path(item) \in DOMAIN StoreOne(m, item).files /\ item.id \in IdsIn(StoreOne(m, item).files[Path(item)])
         /\ ~IsChat(item) => SameChats(m, StoreOne(m, item))
<1> DEFINE group == <<item>>  n == WriteGroup(m, group)
<1>1. OneGroup(group) /\ group[1] = item /\ IdsIn(group) = {item.id} /\ DOMAIN group = {1} /\ m \in Stores
  BY OneAlone DEF Sound
<1>2. StoreOne(m, item) = n
  BY DEF StoreOne
<1> HIDE DEF group
<1>3. Sound(n) /\ Keeps(m, n) /\ IdsIn(group) \subseteq IdsIn(n.files[Path(group[1])]) /\ Path(group[1]) \in DOMAIN n.files
  BY <1>1, WroteSound
<1>4. AllPlaced(n) \subseteq T
  BY <1>1, WrotePlaced
<1>5. ASSUME ~IsChat(item) PROVE SameChats(m, n)
  <2>1. Path(item)[1] \notin ChatDirs
    BY <1>5, PathHome DEF Home
  <2>2. DOMAIN n.cache = DOMAIN m.cache \cup {Path(item)} /\ \A p \in DOMAIN m.cache : p # Path(item) => n.cache[p] = m.cache[p]
    BY <1>1, Wrote
  <2> HIDE DEF n
  <2> QED BY <1>3, <2>1, <2>2 DEF SameChats
<1> HIDE DEF n
<1> QED BY <1>1, <1>2, <1>3, <1>4, <1>5

LEMMA FirstAdded ==
  ASSUME NEW m, Sound(m), NEW list \in Seq(Memories), \A k \in DOMAIN list : Strange(m, list[k].id),
         NEW item \in Memories, item.layer = 1, Strange(m, item.id),
         NEW T, AllPlaced(m) \subseteq T, <<Path(item), item>> \in T
  PROVE  /\ Sound(AddL1(m, list, item).md) /\ Keeps(m, AddL1(m, list, item).md)
         /\ AllPlaced(AddL1(m, list, item).md) \subseteq T /\ AddL1(m, list, item).l1 \in Seq(Memories)
         /\ \A k \in DOMAIN AddL1(m, list, item).l1 :
              AddL1(m, list, item).l1[k] = item \/ \E i \in DOMAIN list : AddL1(m, list, item).l1[k] = list[i]
<1> DEFINE n == StoreOne(m, item)  all == Append(list, item)  r == Compacted(n, all, item.user)
<1>1. ~IsChat(item)
  BY DEF IsChat
<1>2. Sound(n) /\ Keeps(m, n) /\ AllPlaced(n) \subseteq T /\ SameChats(m, n)
  BY <1>1, StoredOne
<1>3. all \in Seq(Memories) /\ \A k \in DOMAIN all : all[k] = item \/ (k \in DOMAIN list /\ all[k] = list[k])
  BY AppendHas
<1>4. AddL1(m, list, item) = r
  BY DEF AddL1
<1> HIDE DEF n, all
<1>5. \A k \in DOMAIN all : Strange(n, all[k].id)
  BY <1>2, <1>3, StrangeStays
<1>6. /\ Sound(r.md) /\ SameChats(n, r.md) /\ AllPlaced(r.md) \subseteq AllPlaced(n) /\ r.l1 \in Seq(Memories)
      /\ \A k \in DOMAIN r.l1 : \E i \in DOMAIN all : r.l1[k] = all[i]
  BY <1>2, <1>3, <1>5, Compacting
<1> HIDE DEF r
<1>7. Keeps(m, r.md)
  BY <1>2, <1>6, KeepsOn DEF SameChats
<1>8. \A k \in DOMAIN r.l1 : r.l1[k] = item \/ \E i \in DOMAIN list : r.l1[k] = list[i]
  BY <1>3, <1>6
<1> QED BY <1>2, <1>4, <1>6, <1>7, <1>8

-----------------------------------------------------------------------------
(* A start reads the files again.  What comes from the first layer's gets  *)
(* a new ID, which no memory that was made has.                            *)
MadeIds(n) == {id \in Nat \X Nat \X Sources : id[1] <= n}
RereadIds == Nat \X Nat \X Dirs \X Owners

LEMMA LineIs ==
  ASSUME NEW path \in Paths, path[1] \in PrefDirs, NEW m \in Memories, NEW n \in Nat, NEW k \in Nat
  PROVE  LET r == RereadLine(m, path[2], <<n, k, path[1], path[2]>>) IN
         /\ r \in Memories /\ r.text = m.text /\ r.layer = 1 /\ r.id \in RereadIds /\ Home(path, r)
         /\ r.id = <<n, k, path[1], path[2]>> /\ r.user = path[2] /\ r.acct = path[2]
<1> DEFINE id == <<n, k, path[1], path[2]>>
           r == RereadLine(m, path[2], id)
<1>1. path[1] \in Dirs /\ path[2] \in Owners
  BY DEF Paths
<1>2. id \in RereadIds /\ id \in IDs
  <2>1. id \in Nat \X Nat \X Dirs \X Owners
    <3> HIDE DEF Dirs, Owners
    <3> QED BY <1>1
  <2> QED BY <2>1 DEF RereadIds, IDs
<1> HIDE DEF id
<1>3. m.text \in Words
  BY MemoryHas
<1>4. r = [id |-> id, layer |-> 1, hall |-> "preferences", file |-> FALSE, src |-> "preferences",
           user |-> path[2], acct |-> path[2], text |-> m.text, form |-> "summary"]
  <2> DEFINE name == path[2]  text == m.text
             b == [id |-> 0, layer |-> 1, hall |-> "preferences", file |-> FALSE, src |-> "preferences",
                   user |-> name, acct |-> name, text |-> text, form |-> "summary"]
  <2>1. Memory(1, "preferences", FALSE, "preferences", [user |-> name, acct |-> name], text, "summary") = b
    <3> HIDE DEF name, text
    <3> QED BY DEF Memory
  <2>2. r = [b EXCEPT !.id = id]
    <3> HIDE DEF b
    <3> QED BY <2>1 DEF RereadLine
  <2> HIDE DEF name, text, r
  <2>3. r = [id |-> id, layer |-> 1, hall |-> "preferences", file |-> FALSE, src |-> "preferences",
             user |-> name, acct |-> name, text |-> text, form |-> "summary"]
    BY <2>2
  <2> QED BY <2>3 DEF name, text
<1>5. 1 \in Layers /\ "preferences" \in Halls /\ "summary" \in Forms /\ FALSE \in BOOLEAN /\ "preferences" \in Sources \cup {"preferences"}
  BY DEF Layers, Halls, Forms
<1>6. r \in [id : IDs, layer : Layers, hall : Halls, file : BOOLEAN, src : Sources \cup {"preferences"},
             user : Owners, acct : Owners, text : Words, form : Forms]
  <2> HIDE DEF r
  <2> QED BY <1>1, <1>2, <1>3, <1>4, <1>5
<1>7. r.text = m.text /\ r.layer = 1 /\ r.id = id /\ r.file = FALSE /\ r.user = path[2] /\ r.acct = path[2]
  BY <1>4
<1> HIDE DEF r
<1>8. r \in Memories
  BY <1>6, <1>7 DEF Memories
<1>9. Home(path, r)
  <2>1. path[1] \notin ChatDirs
    BY DEF PrefDirs, ChatDirs
  <2> QED BY <1>7, <2>1 DEF Home, IsChat
<1>10. /\ r \in Memories /\ r.text = m.text /\ r.layer = 1 /\ r.id \in RereadIds /\ Home(path, r)
       /\ r.id = id /\ r.user = path[2] /\ r.acct = path[2]
  BY <1>2, <1>7, <1>8, <1>9
<1> QED BY <1>10 DEF r, id

LEMMA SectionIs ==
  ASSUME NEW m \in Memories
  PROVE  LET r == Section(Unsigned(m)) IN
         r \in Memories /\ r.text = m.text /\ r.layer = m.layer /\ r.file = m.file /\ r.id = m.id
<1> DEFINE u == [m EXCEPT !.user = Blank, !.acct = Blank]
           form == IF u.text \in Ruled /\ u.form # "summary" THEN "cut" ELSE u.form
           r == Section(Unsigned(m))
<1>1. Blank \in Owners /\ "cut" \in Forms
  BY DEF Owners, Forms
<1>2. m \in [id : IDs, layer : Layers, hall : Halls, file : BOOLEAN, src : Sources \cup {"preferences"},
             user : Owners, acct : Owners, text : Words, form : Forms] /\ (m.file => m.src \in Files /\ m.layer # 1)
  BY DEF Memories
<1>3. u \in [id : IDs, layer : Layers, hall : Halls, file : BOOLEAN, src : Sources \cup {"preferences"},
             user : Owners, acct : Owners, text : Words, form : Forms]
      /\ u.text = m.text /\ u.layer = m.layer /\ u.file = m.file /\ u.id = m.id /\ u.src = m.src /\ u.form \in Forms
  BY <1>1, <1>2
<1>4. r = [u EXCEPT !.form = form]
  BY DEF Section, Unsigned
<1>5. form \in Forms
  BY <1>1, <1>3
<1> HIDE DEF u, form, r
<1>6. r \in [id : IDs, layer : Layers, hall : Halls, file : BOOLEAN, src : Sources \cup {"preferences"},
             user : Owners, acct : Owners, text : Words, form : Forms]
      /\ r.text = u.text /\ r.layer = u.layer /\ r.file = u.file /\ r.id = u.id /\ r.src = u.src
  BY <1>3, <1>4, <1>5
<1>7. r \in Memories
  BY <1>2, <1>3, <1>6 DEF Memories
<1>8. r \in Memories /\ r.text = m.text /\ r.layer = m.layer /\ r.file = m.file /\ r.id = m.id
  BY <1>3, <1>6, <1>7
<1> QED BY <1>8 DEF r

(* What a memory is when it was read again.                                *)
ReadAs(path, m, r) ==
  /\ r \in Memories /\ r.text = m.text /\ Home(path, r)
  /\ path[1] \in PrefDirs => r.layer = 1 /\ r.id \in RereadIds /\ r.id[4] = path[2] /\ r.user = path[2] /\ r.acct = path[2]
  /\ path[1] \notin PrefDirs => r.id = m.id /\ r.layer = m.layer /\ r.file = m.file

LEMMA ParsedAs ==
  ASSUME NEW path \in Paths, NEW items \in Seq(Memories), NEW n \in Nat, \A k \in DOMAIN items : Home(path, items[k])
  PROVE  /\ Parsed(path, items, n) \in Seq(Memories) /\ DOMAIN Parsed(path, items, n) = DOMAIN items
         /\ \A k \in DOMAIN items : ReadAs(path, items[k], Parsed(path, items, n)[k])
<1> DEFINE q == Parsed(path, items, n)
<1>1. Len(items) \in Nat /\ DOMAIN items = 1..Len(items) /\ \A k \in DOMAIN items : k \in Nat /\ items[k] \in Memories
  OBVIOUS
<1>2. CASE path[1] \in PrefDirs
  <2>1. q = [k \in DOMAIN items |-> RereadLine(items[k], path[2], <<n, k, path[1], path[2]>>)]
    BY <1>2 DEF Parsed, PrefDirs
  <2>2. DOMAIN q = DOMAIN items /\ \A k \in DOMAIN items : q[k] = RereadLine(items[k], path[2], <<n, k, path[1], path[2]>>)
    BY <2>1
  <2> HIDE DEF q
  <2>3. ASSUME NEW k \in DOMAIN items PROVE ReadAs(path, items[k], q[k]) /\ q[k] \in Memories
    <3> DEFINE m == items[k]  r == RereadLine(m, path[2], <<n, k, path[1], path[2]>>)
    <3>1. m \in Memories /\ k \in Nat /\ q[k] = r
      BY <1>1, <2>2
    <3> HIDE DEF m
    <3>2. /\ r \in Memories /\ r.text = m.text /\ r.layer = 1 /\ r.id \in RereadIds /\ Home(path, r)
          /\ r.id = <<n, k, path[1], path[2]>> /\ r.user = path[2] /\ r.acct = path[2]
      BY <1>2, <3>1, LineIs
    <3>3. r.id[4] = path[2]
      BY <3>2
    <3> HIDE DEF r
    <3>4. ReadAs(path, m, r)
      BY <1>2, <3>2, <3>3 DEF ReadAs
    <3> QED BY <3>1, <3>2, <3>4 DEF m
  <2>4. q \in [1..Len(items) -> Memories]
    BY <1>1, <2>1, <2>3
  <2>5. q \in Seq(Memories)
    BY <1>1, <2>4
  <2> QED BY <2>2, <2>3, <2>5 DEF q
<1>3. CASE path[1] \notin PrefDirs
  <2>1. q = [k \in DOMAIN items |-> Section(Unsigned(items[k]))]
    BY <1>3 DEF Parsed, PrefDirs
  <2>2. DOMAIN q = DOMAIN items /\ \A k \in DOMAIN items : q[k] = Section(Unsigned(items[k]))
    BY <2>1
  <2> HIDE DEF q
  <2>3. ASSUME NEW k \in DOMAIN items PROVE ReadAs(path, items[k], q[k]) /\ q[k] \in Memories
    <3> DEFINE r == q[k]  m == items[k]
    <3>1. r \in Memories /\ r.text = m.text /\ r.layer = m.layer /\ r.file = m.file /\ r.id = m.id
      BY <1>1, <2>2, SectionIs
    <3>2. Home(path, m)
      OBVIOUS
    <3> HIDE DEF r, m
    <3>3. Home(path, r)
      BY <3>1, <3>2 DEF Home, IsChat
    <3>4. ReadAs(path, m, r) /\ r \in Memories
      BY <1>3, <3>1, <3>3 DEF ReadAs
    <3> QED BY <3>4 DEF r, m
  <2>4. q \in [1..Len(items) -> Memories]
    BY <1>1, <2>1, <2>3
  <2>5. q \in Seq(Memories)
    BY <1>1, <2>4
  <2> QED BY <2>2, <2>3, <2>5 DEF q
<1> QED BY <1>2, <1>3

LEMMA LoadedCache ==
  ASSUME NEW fs \in Disks, Homely(fs), NEW n \in Nat
  PROVE  /\ Sound([files |-> fs, cache |-> LoadCache(fs, n)])
         /\ \A y \in Placed(LoadCache(fs, n)) : y[1] \in DOMAIN fs /\ \E k \in DOMAIN fs[y[1]] : ReadAs(y[1], fs[y[1]][k], y[2])
<1> DEFINE D == {q \in DOMAIN fs : Readable(q)}
           c == LoadCache(fs, n)
<1>1. DOMAIN fs \subseteq Paths /\ IsFiniteSet(DOMAIN fs) /\ fs \in [DOMAIN fs -> Seq(Memories)]
  BY DiskIs DEF IsDisk
<1>2. c = [p \in D |-> Parsed(p, fs[p], n)]
  BY DEF LoadCache
<1>3. ASSUME NEW p \in DOMAIN fs
      PROVE  /\ Parsed(p, fs[p], n) \in Seq(Memories) /\ DOMAIN Parsed(p, fs[p], n) = DOMAIN fs[p]
             /\ \A k \in DOMAIN fs[p] : ReadAs(p, fs[p][k], Parsed(p, fs[p], n)[k])
  <2>1. p \in Paths /\ fs[p] \in Seq(Memories)
    BY <1>1
  <2>2. \A k \in DOMAIN fs[p] : Home(p, fs[p][k])
    BY DEF Homely
  <2> QED BY <2>1, <2>2, ParsedAs
<1>4. D \subseteq DOMAIN fs /\ IsFiniteSet(D)
  <2>1. D \subseteq DOMAIN fs
    OBVIOUS
  <2> HIDE DEF D
  <2> QED BY <1>1, <2>1, FS_Subset
<1>5. \A p \in DOMAIN fs : p[1] # "l3" => p \in D
  BY DEF Readable
<1> HIDE DEF D, c
<1>6. c \in [D -> Seq(Memories)] /\ DOMAIN c = D
  BY <1>2, <1>3, <1>4
<1>7. c \in Disks /\ DOMAIN c \subseteq DOMAIN fs
  <2>1. IsDisk(c)
    BY <1>1, <1>4, <1>6 DEF IsDisk
  <2> QED BY <1>4, <1>6, <2>1, DiskIs
<1>8. \A p \in DOMAIN c : /\ p \in DOMAIN fs /\ DOMAIN c[p] = DOMAIN fs[p]
                          /\ \A k \in DOMAIN c[p] : ReadAs(p, fs[p][k], c[p][k])
  BY <1>2, <1>3, <1>4, <1>6
<1>9. Homely(c)
  BY <1>8 DEF Homely, ReadAs
<1> DEFINE m == [files |-> fs, cache |-> c]
<1>10. m.files = fs /\ m.cache = c
  OBVIOUS
<1>11. m \in Stores
  BY <1>7 DEF Stores
<1>12. Ahead(m)
  <2>1. ASSUME NEW p \in DOMAIN fs, p[1] \in ChatDirs PROVE p \in DOMAIN c /\ IdsIn(fs[p]) \subseteq IdsIn(c[p])
    <3>1. p[1] # "l3" /\ p[1] \notin PrefDirs
      BY <2>1 DEF ChatDirs, PrefDirs
    <3>2. p \in DOMAIN c
      BY <1>5, <1>6, <3>1
    <3>3. DOMAIN c[p] = DOMAIN fs[p] /\ \A k \in DOMAIN fs[p] : c[p][k].id = fs[p][k].id
      BY <1>8, <3>1, <3>2 DEF ReadAs
    <3> QED BY <3>2, <3>3 DEF IdsIn
  <2> HIDE DEF m
  <2> QED BY <1>10, <2>1 DEF Ahead
<1>13. Sound(m)
  <2> HIDE DEF m
  <2> QED BY <1>9, <1>10, <1>11, <1>12 DEF Sound
<1>14. ASSUME NEW y \in Placed(c) PROVE y[1] \in DOMAIN fs /\ \E k \in DOMAIN fs[y[1]] : ReadAs(y[1], fs[y[1]][k], y[2])
  <2>1. y[1] \in DOMAIN c /\ \E k \in DOMAIN c[y[1]] : y[2] = c[y[1]][k]
    BY <1>7, PlacedIs
  <2> QED BY <1>8, <2>1
<1> QED BY <1>13, <1>14 DEF c

(* The first layer starts with the memories of it that were read.          *)
LEMMA FirstLoaded ==
  ASSUME NEW c \in Disks
  PROVE  /\ LoadL1(c) \in Seq(Memories)
         /\ \A k \in DOMAIN LoadL1(c) : LoadL1(c)[k].layer = 1 /\ \E y \in Placed(c) : LoadL1(c)[k] = y[2]
<1> DEFINE paths == SetToSeq(DOMAIN c)
           ss == [k \in DOMAIN paths |-> c[paths[k]]]
           all == FlattenSeq(ss)
           S == {k \in DOMAIN all : Matches(all[k], 1, Blank)}
           found == Pick(all, S)
           T == {y[2] : y \in Placed(c)}
<1>1. IsFiniteSet(DOMAIN c) /\ DOMAIN c \subseteq Paths
  BY DiskIs DEF IsDisk
<1>2. paths \in Seq(DOMAIN c)
  BY <1>1, Listed
<1>3. T \subseteq Memories /\ \A p \in DOMAIN c : c[p] \in Seq(T)
  <2>1. T \subseteq Memories
    BY PlacedIs
  <2>2. ASSUME NEW p \in DOMAIN c PROVE c[p] \in Seq(T)
    <3>1. c[p] \in Seq(Memories) /\ \A k \in DOMAIN c[p] : <<p, c[p][k]>> \in Placed(c)
      BY PlacedIs
    <3>2. \A k \in DOMAIN c[p] : c[p][k] \in T
      <4> SUFFICES ASSUME NEW k \in DOMAIN c[p] PROVE c[p][k] \in T
        OBVIOUS
      <4>1. <<p, c[p][k]>> \in Placed(c) /\ <<p, c[p][k]>>[2] = c[p][k]
        BY <3>1
      <4> QED BY <4>1
    <3> HIDE DEF T
    <3> QED BY <3>1, <3>2
  <2> QED BY <2>1, <2>2
<1>4. ss \in Seq(Seq(T))
  <2>1. Len(paths) \in Nat /\ DOMAIN paths = 1..Len(paths) /\ \A k \in DOMAIN paths : paths[k] \in DOMAIN c
    BY <1>2
  <2>2. \A k \in DOMAIN paths : c[paths[k]] \in Seq(T)
    BY <1>3, <2>1
  <2> HIDE DEF paths, T
  <2> QED BY <2>1, <2>2
<1> HIDE DEF ss, T
<1>5. all \in Seq(T)
  BY <1>4, Flattened
<1>6. S \in SUBSET (DOMAIN all) /\ \A k \in S : all[k].layer = 1
  BY DEF Matches
<1>7. LoadL1(c) = Reverse(found)
  BY DEF LoadL1, Retrieve, ss
<1> HIDE DEF all, S
<1>8. found \in Seq(T) /\ \A k \in DOMAIN found : \E i \in S : found[k] = all[i]
  BY <1>5, <1>6, PickedFrom
<1> HIDE DEF found
<1>9. \A k \in DOMAIN found : found[k].layer = 1 /\ found[k] \in T
  BY <1>6, <1>8
<1>10. Reverse(found) \in Seq(T) /\ \A k \in DOMAIN Reverse(found) : \E i \in DOMAIN found : Reverse(found)[k] = found[i]
  <2>1. Len(found) \in Nat /\ \A k \in 1..Len(found) : Len(found) - k + 1 \in 1..Len(found)
    BY <1>8
  <2>2. DOMAIN found = 1..Len(found) /\ \A k \in 1..Len(found) : found[k] \in T
    BY <1>8
  <2> QED BY <2>1, <2>2 DEF Reverse
<1>11. LoadL1(c) \in Seq(Memories)
  BY <1>3, <1>7, <1>10, SeqMonotonic
<1>12. \A k \in DOMAIN LoadL1(c) : LoadL1(c)[k].layer = 1 /\ LoadL1(c)[k] \in T
  BY <1>7, <1>9, <1>10
<1> QED BY <1>11, <1>12 DEF T

-----------------------------------------------------------------------------
(* What is extracted from a session or a file: memories without an ID.     *)
Spoke(B) == [role : STRING, calls : BOOLEAN, body : B]
PairsOn(B) == [q : B \cup {Blank}, a : B \cup {Blank}]
Accs(B) == [pairs : Seq(PairsOn(B)), q : B \cup {Blank}]

LEMMA AnswerIs ==
  ASSUME NEW B, NEW msgs \in Seq(Spoke(B)), NEW i \in 0..Len(msgs)
  PROVE  FinalAnswer(msgs, i) \in B \cup {Blank}
<1> DEFINE good == {k \in 1..i : /\ msgs[k].role = "assistant" /\ ~msgs[k].calls
                                 /\ Spoken(msgs[k]) # Blank
                                 /\ \A j \in k..i : msgs[j].role # "user"}
<1>1. i \in Nat /\ good \in SUBSET (1..i)
  OBVIOUS
<1>2. FinalAnswer(msgs, i) = IF good = {} THEN Blank ELSE Spoken(msgs[Max(good)])
  BY DEF FinalAnswer
<1> HIDE DEF good
<1>3. CASE good = {}
  BY <1>2, <1>3
<1>4. CASE good # {}
  <2>1. Max(good) \in good
    BY <1>1, <1>4, GreatestOf
  <2>2. Max(good) \in DOMAIN msgs
    <3> DEFINE k == Max(good)
    <3>1. Len(msgs) \in Nat /\ DOMAIN msgs = 1..Len(msgs)
      OBVIOUS
    <3>2. k \in 1..i
      BY <1>1, <2>1, Zenon
    <3> HIDE DEF k
    <3>3. k \in DOMAIN msgs
      BY <3>1, <3>2
    <3> QED BY <3>3 DEF k
  <2>3. msgs[Max(good)] \in Spoke(B)
    BY <2>2
  <2>4. Spoken(msgs[Max(good)]) \in B \cup {Blank}
    BY <2>3 DEF Spoken, Spoke
  <2> QED BY <1>2, <1>4, <2>4
<1> QED BY <1>3, <1>4

LEMMA PairAdded ==
  ASSUME NEW B, NEW pairs \in Seq(PairsOn(B)), NEW q \in B \cup {Blank}, NEW a \in B \cup {Blank}
  PROVE  WithPair(pairs, q, a) \in Seq(PairsOn(B))
<1>1. [q |-> q, a |-> a] \in PairsOn(B)
  BY DEF PairsOn
<1>2. Append(pairs, [q |-> q, a |-> a]) \in Seq(PairsOn(B))
  BY <1>1, AppendHas
<1> QED BY <1>2 DEF WithPair

Turn(msgs, acc, i) ==
  IF msgs[i].role # "user" THEN acc
  ELSE [pairs |-> WithPair(acc.pairs, acc.q, FinalAnswer(msgs, i - 1)), q |-> Spoken(msgs[i])]
NoTurn == [pairs |-> <<>>, q |-> Blank]
IsTalk(f, msgs) ==
  f = [s \in SUBSET (DOMAIN msgs) |-> IF s = {} THEN NoTurn ELSE Turn(msgs, f[s \ {Max(s)}], Max(s))]

LEMMA TurnHas ==
  ASSUME NEW B, NEW msgs \in Seq(Spoke(B)), NEW acc \in Accs(B), NEW i \in DOMAIN msgs
  PROVE  Turn(msgs, acc, i) \in Accs(B)
<1>1. i - 1 \in 0..Len(msgs) /\ msgs[i] \in Spoke(B)
  OBVIOUS
<1>2. acc.pairs \in Seq(PairsOn(B)) /\ acc.q \in B \cup {Blank}
  BY DEF Accs
<1>3. FinalAnswer(msgs, i - 1) \in B \cup {Blank}
  BY <1>1, AnswerIs
<1>4. WithPair(acc.pairs, acc.q, FinalAnswer(msgs, i - 1)) \in Seq(PairsOn(B))
  BY <1>2, <1>3, PairAdded
<1>5. Spoken(msgs[i]) \in B \cup {Blank}
  BY <1>1 DEF Spoken, Spoke
<1> DEFINE pairs == WithPair(acc.pairs, acc.q, FinalAnswer(msgs, i - 1))  q == Spoken(msgs[i])
<1>6. Turn(msgs, acc, i) = IF msgs[i].role # "user" THEN acc ELSE [pairs |-> pairs, q |-> q]
  BY DEF Turn
<1>7. pairs \in Seq(PairsOn(B)) /\ q \in B \cup {Blank}
  BY <1>4, <1>5
<1> HIDE DEF pairs, q
<1>8. [pairs |-> pairs, q |-> q] \in Accs(B)
  BY <1>7 DEF Accs
<1> QED BY <1>6, <1>8

LEMMA TalkExists ==
  ASSUME NEW B, NEW msgs \in Seq(Spoke(B))
  PROVE  \E f : IsTalk(f, msgs)
<1> DEFINE n == Len(msgs)  A == Accs(B)  E == 1..n
           g == [x \in A \X E |-> Turn(msgs, x[1], x[2])]
           q == [i \in 1..n |-> i]
<1>1. n \in Nat /\ DOMAIN msgs = 1..n /\ \A i \in 1..n : q[i] = i /\ i \in E
  OBVIOUS
<1>2. ASSUME NEW x \in A, NEW i \in E PROVE Turn(msgs, x, i) \in A
  BY <1>1, TurnHas
<1>3. NoTurn \in A
  <2>1. <<>> \in Seq(PairsOn(B)) /\ Blank \in B \cup {Blank}
    OBVIOUS
  <2> QED BY <2>1 DEF NoTurn, Accs
<1> HIDE DEF A, E, q
<1>4. g \in [A \X E -> A] /\ \A x \in A, i \in E : g[<<x, i>>] = Turn(msgs, x, i)
  <2>1. \A x \in A \X E : x[1] \in A /\ x[2] \in E
    OBVIOUS
  <2>2. \A x \in A \X E : Turn(msgs, x[1], x[2]) \in A
    BY <1>2, <2>1
  <2>3. \A x \in A, i \in E : <<x, i>> \in A \X E /\ <<x, i>>[1] = x /\ <<x, i>>[2] = i
    OBVIOUS
  <2> QED BY <2>2, <2>3
<1> HIDE DEF g
<1>5. PICK f : IsFold(f, A, g, NoTurn, n, q)
  <2>1. \A i \in 1..n : q[i] \in E
    BY <1>1
  <2> QED BY <1>1, <1>3, <1>4, <2>1, FoldExists
<1>6. f = [s \in SUBSET (1..n) |-> f[s]] /\ \A s \in SUBSET (1..n) : f[s] \in A
  BY <1>5 DEF IsFold
<1>7. ASSUME NEW s \in SUBSET (1..n), s # {} PROVE f[s] = Turn(msgs, f[s \ {Max(s)}], Max(s))
  <2>1. Max(s) \in s
    BY <1>1, <1>7, GreatestOf
  <2>2. s \ {Max(s)} \in SUBSET (1..n) /\ q[Max(s)] = Max(s) /\ Max(s) \in E
    BY <1>1, <2>1
  <2>3. f[s] = g[<<f[s \ {Max(s)}], q[Max(s)]>>]
    BY <1>5, <1>7 DEF IsFold
  <2>4. f[s \ {Max(s)}] \in A
    BY <1>6, <2>2
  <2> QED BY <1>4, <2>2, <2>3, <2>4
<1>8. f[{}] = NoTurn
  BY <1>5 DEF IsFold
<1>9. \A s \in SUBSET (1..n) : f[s] = IF s = {} THEN NoTurn ELSE Turn(msgs, f[s \ {Max(s)}], Max(s))
  BY <1>7, <1>8
<1>10. f = [s \in SUBSET (1..n) |-> IF s = {} THEN NoTurn ELSE Turn(msgs, f[s \ {Max(s)}], Max(s))]
  BY <1>6, <1>9, Zenon
<1>11. IsTalk(f, msgs)
  BY <1>1, <1>10 DEF IsTalk
<1> QED BY <1>11

LEMMA PairsHas ==
  ASSUME NEW B, NEW session \in Seq(Spoke(B))
  PROVE  Pairs(session) \in Seq(PairsOn(B))
<1> DEFINE said == {i \in DOMAIN session : Said(session[i])}
           msgs == Pick(session, said)
           F == CHOOSE f : IsTalk(f, msgs)
           n == Len(msgs)
           end == F[DOMAIN msgs]
<1>1. msgs \in Seq(Spoke(B))
  <2>1. said \in SUBSET (DOMAIN session)
    OBVIOUS
  <2> HIDE DEF said
  <2> QED BY <2>1, PickedFrom
<1>2. Pairs(session) = WithPair(end.pairs, end.q, FinalAnswer(msgs, n))
  <2> DEFINE idx == [i \in DOMAIN msgs |-> i]
             G == CHOOSE f : f = [s \in SUBSET (DOMAIN idx) |->
                                    IF s = {} THEN [pairs |-> <<>>, q |-> Blank]
                                    ELSE IF msgs[idx[Max(s)]].role # "user" THEN f[s \ {Max(s)}]
                                    ELSE [pairs |-> WithPair(f[s \ {Max(s)}].pairs, f[s \ {Max(s)}].q, FinalAnswer(msgs, idx[Max(s)] - 1)),
                                          q |-> Spoken(msgs[idx[Max(s)]])]]
  <2>1. Pairs(session) = WithPair(G[DOMAIN idx].pairs, G[DOMAIN idx].q, FinalAnswer(msgs, n))
    BY DEF Pairs, FoldLeftDomain, FoldLeft, MapThenFoldSet
  <2>2. DOMAIN idx = DOMAIN msgs /\ \A i \in DOMAIN msgs : idx[i] = i
    OBVIOUS
  <2>3. G = F
    <3>1. ASSUME NEW f
          PROVE  [s \in SUBSET (DOMAIN idx) |->
                    IF s = {} THEN [pairs |-> <<>>, q |-> Blank]
                    ELSE IF msgs[idx[Max(s)]].role # "user" THEN f[s \ {Max(s)}]
                    ELSE [pairs |-> WithPair(f[s \ {Max(s)}].pairs, f[s \ {Max(s)}].q, FinalAnswer(msgs, idx[Max(s)] - 1)),
                          q |-> Spoken(msgs[idx[Max(s)]])]]
                 = [s \in SUBSET (DOMAIN msgs) |-> IF s = {} THEN NoTurn ELSE Turn(msgs, f[s \ {Max(s)}], Max(s))]
      <4>1. ASSUME NEW s \in SUBSET (DOMAIN msgs), s # {} PROVE idx[Max(s)] = Max(s)
        <5>1. n \in Nat /\ DOMAIN msgs = 1..n
          BY <1>1
        <5>2. Max(s) \in s
          BY <4>1, <5>1, GreatestOf
        <5> QED BY <2>2, <5>2
      <4> HIDE DEF idx, msgs
      <4>2. ASSUME NEW s \in SUBSET (DOMAIN msgs)
            PROVE  (IF s = {} THEN [pairs |-> <<>>, q |-> Blank]
                    ELSE IF msgs[idx[Max(s)]].role # "user" THEN f[s \ {Max(s)}]
                    ELSE [pairs |-> WithPair(f[s \ {Max(s)}].pairs, f[s \ {Max(s)}].q, FinalAnswer(msgs, idx[Max(s)] - 1)),
                          q |-> Spoken(msgs[idx[Max(s)]])])
                   = (IF s = {} THEN NoTurn ELSE Turn(msgs, f[s \ {Max(s)}], Max(s)))
        <5>1. CASE s = {}
          BY <5>1 DEF NoTurn
        <5>2. CASE s # {}
          <6> DEFINE i == Max(s)  acc == f[s \ {Max(s)}]
          <6>1. idx[Max(s)] = i
            BY <4>1, <5>2
          <6>2. (IF msgs[i].role # "user" THEN acc
                 ELSE [pairs |-> WithPair(acc.pairs, acc.q, FinalAnswer(msgs, i - 1)), q |-> Spoken(msgs[i])]) = Turn(msgs, acc, i)
            <7> HIDE DEF i, acc
            <7> QED BY DEF Turn
          <6> QED BY <5>2, <6>1, <6>2
        <5> QED BY <5>1, <5>2
      <4> QED BY <2>2, <4>2
    <3> QED BY <3>1 DEF IsTalk
  <2> HIDE DEF idx, G, msgs, F
  <2> QED BY <2>1, <2>2, <2>3
<1> HIDE DEF msgs
<1>3. IsTalk(F, msgs)
  BY <1>1, TalkExists
<1> HIDE DEF F
<1>4. n \in Nat /\ DOMAIN msgs = 1..n
  BY <1>1
<1> DEFINE S == {i \in 0..n : F[1..i] \in Accs(B)}
<1>5. 0 \in S
  <2>1. 1..0 = {} /\ {} \in SUBSET (DOMAIN msgs)
    OBVIOUS
  <2>2. F[1..0] = NoTurn
    BY <1>3, <2>1 DEF IsTalk
  <2>3. <<>> \in Seq(PairsOn(B)) /\ Blank \in B \cup {Blank}
    OBVIOUS
  <2>4. NoTurn \in Accs(B)
    BY <2>3 DEF NoTurn, Accs
  <2> QED BY <1>4, <2>2, <2>4
<1>6. ASSUME NEW i \in 1..n, i - 1 \in S PROVE i \in S
  <2>1. 1..i # {} /\ Max(1..i) = i /\ (1..i) \ {i} = 1..(i - 1) /\ 1..i \in SUBSET (1..n)
    BY <1>4, FoldRuns
  <2>2. F[1..i] = Turn(msgs, F[(1..i) \ {Max(1..i)}], Max(1..i))
    BY <1>3, <1>4, <2>1, Zenon DEF IsTalk
  <2>3. F[1..(i - 1)] \in Accs(B)
    BY <1>6
  <2>4. F[1..i] = Turn(msgs, F[1..(i - 1)], i)
    BY <2>1, <2>2
  <2>5. Turn(msgs, F[1..(i - 1)], i) \in Accs(B)
    BY <1>1, <1>4, <2>3, TurnHas
  <2> QED BY <1>4, <2>4, <2>5
<1>7. end \in Accs(B)
  <2>1. n \in S
    <3> HIDE DEF S
    <3>1. \A i \in 0..n : i \in S
      BY <1>4, <1>5, <1>6, Upwards
    <3> QED BY <1>4, <3>1
  <2> QED BY <1>4, <2>1
<1> HIDE DEF end
<1>8. end.pairs \in Seq(PairsOn(B)) /\ end.q \in B \cup {Blank}
  BY <1>7 DEF Accs
<1>9. FinalAnswer(msgs, n) \in B \cup {Blank}
  BY <1>1, <1>4, AnswerIs
<1> HIDE DEF n
<1> QED BY <1>2, <1>8, <1>9, PairAdded

Cuts == [done : Seq(Seq(Nat)), open : Seq(Nat)]
NoCut == [done |-> <<>>, open |-> <<>>]
Cut(acc, line) ==
  IF SizeOf(acc.open) + line > MaxChunk /\ acc.open # <<>>
  THEN [done |-> Append(acc.done, acc.open), open |-> <<line>>]
  ELSE [acc EXCEPT !.open = Append(@, line)]
IsCutting(f, lines) ==
  f = [s \in SUBSET (DOMAIN lines) |-> IF s = {} THEN NoCut ELSE Cut(f[s \ {Max(s)}], lines[Max(s)])]

LEMMA CutHas ==
  ASSUME NEW acc \in Cuts, NEW line \in Nat
  PROVE  Cut(acc, line) \in Cuts
<1>1. acc.done \in Seq(Seq(Nat)) /\ acc.open \in Seq(Nat) /\ acc = [done |-> acc.done, open |-> acc.open]
  BY DEF Cuts
<1>2. Append(acc.open, line) \in Seq(Nat) /\ <<line>> \in Seq(Nat)
  <2>1. <<line>> \in Seq(Nat)
    OBVIOUS
  <2> QED BY <1>1, <2>1, AppendHas
<1>3. Append(acc.done, acc.open) \in Seq(Seq(Nat))
  <2> DEFINE T == Seq(Nat)
  <2>1. acc.done \in Seq(T) /\ acc.open \in T
    BY <1>1
  <2> HIDE DEF T
  <2>2. Append(acc.done, acc.open) \in Seq(T)
    BY <2>1, AppendHas
  <2> QED BY <2>2 DEF T
<1>4. [acc EXCEPT !.open = Append(@, line)] = [done |-> acc.done, open |-> Append(acc.open, line)]
  <2> DEFINE done == acc.done  open == acc.open
  <2>1. acc = [done |-> done, open |-> open]
    BY <1>1
  <2> HIDE DEF done, open
  <2>2. [acc EXCEPT !.open = Append(open, line)] = [done |-> done, open |-> Append(open, line)]
    BY <2>1
  <2> QED BY <2>2 DEF done, open
<1>5. [done |-> acc.done, open |-> Append(acc.open, line)] \in Cuts
  BY <1>1, <1>2 DEF Cuts
<1>6. [done |-> Append(acc.done, acc.open), open |-> <<line>>] \in Cuts
  BY <1>2, <1>3 DEF Cuts
<1> QED BY <1>4, <1>5, <1>6 DEF Cut

LEMMA NoCutHas == NoCut \in Cuts
<1>1. <<>> \in Seq(Seq(Nat)) /\ <<>> \in Seq(Nat)
  OBVIOUS
<1> QED BY <1>1 DEF NoCut, Cuts

LEMMA CuttingExists ==
  ASSUME NEW lines \in Seq(Nat)
  PROVE  \E f : IsCutting(f, lines)
<1> DEFINE n == Len(lines)
           g == [x \in Cuts \X Nat |-> Cut(x[1], x[2])]
<1>1. n \in Nat /\ DOMAIN lines = 1..n /\ \A i \in 1..n : lines[i] \in Nat
  OBVIOUS
<1>2. g \in [Cuts \X Nat -> Cuts] /\ \A x \in Cuts, i \in Nat : g[<<x, i>>] = Cut(x, i)
  <2>1. \A x \in Cuts \X Nat : x[1] \in Cuts /\ x[2] \in Nat
    OBVIOUS
  <2>2. \A x \in Cuts \X Nat : Cut(x[1], x[2]) \in Cuts
    BY <2>1, CutHas
  <2>3. \A x \in Cuts, i \in Nat : <<x, i>> \in Cuts \X Nat /\ <<x, i>>[1] = x /\ <<x, i>>[2] = i
    OBVIOUS
  <2> QED BY <2>2, <2>3
<1> HIDE DEF g
<1>3. PICK f : IsFold(f, Cuts, g, NoCut, n, lines)
  BY <1>1, <1>2, NoCutHas, FoldExists
<1>4. f = [s \in SUBSET (1..n) |-> f[s]] /\ \A s \in SUBSET (1..n) : f[s] \in Cuts
  BY <1>3 DEF IsFold
<1>5. ASSUME NEW s \in SUBSET (1..n), s # {} PROVE f[s] = Cut(f[s \ {Max(s)}], lines[Max(s)])
  <2>1. Max(s) \in s
    BY <1>1, <1>5, GreatestOf
  <2>2. s \ {Max(s)} \in SUBSET (1..n) /\ lines[Max(s)] \in Nat
    BY <1>1, <2>1
  <2>3. f[s] = g[<<f[s \ {Max(s)}], lines[Max(s)]>>]
    BY <1>3, <1>5 DEF IsFold
  <2>4. f[s \ {Max(s)}] \in Cuts
    BY <1>4, <2>2
  <2> QED BY <1>2, <2>2, <2>3, <2>4
<1>6. f[{}] = NoCut
  BY <1>3 DEF IsFold
<1>7. \A s \in SUBSET (1..n) : f[s] = IF s = {} THEN NoCut ELSE Cut(f[s \ {Max(s)}], lines[Max(s)])
  BY <1>5, <1>6
<1>8. f = [s \in SUBSET (1..n) |-> IF s = {} THEN NoCut ELSE Cut(f[s \ {Max(s)}], lines[Max(s)])]
  BY <1>4, <1>7, Zenon
<1>9. IsCutting(f, lines)
  BY <1>1, <1>8 DEF IsCutting
<1> QED BY <1>9

LEMMA ChunksHas ==
  ASSUME NEW lines \in Seq(Nat)
  PROVE  ChunksOf(lines) \in Seq(Seq(Nat))
<1> DEFINE F == CHOOSE f : IsCutting(f, lines)
           n == Len(lines)
           end == F[DOMAIN lines]
<1>1. ChunksOf(lines) = IF SizeOf(lines) - 1 <= MaxChunk THEN <<lines>> ELSE Append(end.done, end.open)
  BY DEF ChunksOf, FoldLeft, MapThenFoldSet, IsCutting, Cut, NoCut
<1>2. IsCutting(F, lines)
  BY CuttingExists
<1> HIDE DEF F
<1>3. n \in Nat /\ DOMAIN lines = 1..n /\ \A i \in 1..n : lines[i] \in Nat
  OBVIOUS
<1> DEFINE S == {i \in 0..n : F[1..i] \in Cuts}
<1>4. 0 \in S
  <2>1. 1..0 = {} /\ {} \in SUBSET (DOMAIN lines)
    OBVIOUS
  <2>2. F[1..0] = NoCut
    BY <1>2, <2>1 DEF IsCutting
  <2> QED BY <1>3, <2>2, NoCutHas
<1>5. ASSUME NEW i \in 1..n, i - 1 \in S PROVE i \in S
  <2>1. 1..i # {} /\ Max(1..i) = i /\ (1..i) \ {i} = 1..(i - 1) /\ 1..i \in SUBSET (1..n)
    BY <1>3, FoldRuns
  <2>2. F[1..i] = Cut(F[(1..i) \ {Max(1..i)}], lines[Max(1..i)])
    BY <1>2, <1>3, <2>1, Zenon DEF IsCutting
  <2>3. F[1..(i - 1)] \in Cuts
    BY <1>5
  <2>4. F[1..i] = Cut(F[1..(i - 1)], lines[i])
    BY <2>1, <2>2
  <2>5. Cut(F[1..(i - 1)], lines[i]) \in Cuts
    BY <1>3, <2>3, CutHas
  <2> QED BY <1>3, <2>4, <2>5
<1>6. end \in Cuts
  <2>1. n \in S
    <3> HIDE DEF S
    <3>1. \A i \in 0..n : i \in S
      BY <1>3, <1>4, <1>5, Upwards
    <3> QED BY <1>3, <3>1
  <2> QED BY <1>3, <2>1
<1> HIDE DEF end
<1> DEFINE T == Seq(Nat)
<1>7. end.done \in Seq(T) /\ end.open \in T /\ lines \in T
  BY <1>6 DEF Cuts
<1> HIDE DEF T
<1>8. Append(end.done, end.open) \in Seq(T) /\ <<lines>> \in Seq(T)
  BY <1>7, AppendHas
<1> QED BY <1>1, <1>8 DEF T

Drafts(src, text, who) ==
  {m \in [id : {0}, layer : Layers, hall : Halls, file : BOOLEAN, src : {src}, user : {who.user}, acct : {who.acct},
          text : Words, form : Forms] :
     /\ src \in Files => m.file /\ m.layer # 1 /\ m.text = text
     /\ src \notin Files => ~m.file}

LEMMA DraftIs ==
  ASSUME NEW src, NEW text \in Words, NEW layer \in Layers, NEW hall \in Halls, NEW form \in Forms,
         NEW who
  PROVE  /\ src \notin Files => \A t : Memory(layer, hall, FALSE, src, who, text, form) \in Drafts(src, t, who)
         /\ src \in Files /\ layer # 1 => Memory(layer, hall, TRUE, src, who, text, form) \in Drafts(src, text, who)
<1> DEFINE user == who.user  acct == who.acct
<1>1. \A b \in BOOLEAN : Memory(layer, hall, b, src, who, text, form) =
        [id |-> 0, layer |-> layer, hall |-> hall, file |-> b, src |-> src, user |-> user, acct |-> acct, text |-> text, form |-> form]
  BY DEF Memory
<1> HIDE DEF user, acct
<1>2. ASSUME NEW b \in BOOLEAN, NEW m, m = Memory(layer, hall, b, src, who, text, form)
      PROVE  /\ m \in [id : {0}, layer : Layers, hall : Halls, file : BOOLEAN, src : {src}, user : {user}, acct : {acct},
                       text : Words, form : Forms]
             /\ m.file = b /\ m.layer = layer /\ m.text = text
  <2>1. m = [id |-> 0, layer |-> layer, hall |-> hall, file |-> b, src |-> src, user |-> user, acct |-> acct, text |-> text, form |-> form]
    BY <1>1, <1>2
  <2> QED BY <2>1
<1>3. ASSUME src \notin Files, NEW t PROVE Memory(layer, hall, FALSE, src, who, text, form) \in Drafts(src, t, who)
  BY <1>2, <1>3 DEF Drafts, user, acct
<1>4. ASSUME src \in Files, layer # 1 PROVE Memory(layer, hall, TRUE, src, who, text, form) \in Drafts(src, text, who)
  BY <1>2, <1>4 DEF Drafts, user, acct
<1> QED BY <1>3, <1>4

LEMMA BatchHas ==
  ASSUME NEW pairs \in Seq(PairsOn(LogBodies)), NEW entries, NEW src, src \notin Files, NEW text,
         NEW who, who.user \in Owners, who.acct \in Owners,
         entries \in Seq([qa : Nat, empty : BOOLEAN, hall : Halls \cup {Blank}]),
         \A k \in DOMAIN entries : ~entries[k].empty => entries[k].hall \in Halls
  PROVE  BatchItems(pairs, entries, src, who) \in Seq(Drafts(src, text, who))
<1> DEFINE S == {i \in DOMAIN entries : ~entries[i].empty}
           told == Meaningful(entries)
           P == {i \in DOMAIN pairs : \E k \in DOMAIN told : told[k].qa = i}
           rest == Pick(pairs, P)
           TextOf(e) == IF e.qa \in DOMAIN pairs THEN pairs[e.qa].q ELSE Blank
           D == Drafts(src, text, who)
<1>1. told \in Seq([qa : Nat, empty : BOOLEAN, hall : Halls \cup {Blank}]) /\ \A k \in DOMAIN told : told[k].hall \in Halls
  <2>1. told = Pick(entries, S) /\ S \in SUBSET (DOMAIN entries)
    BY DEF Meaningful
  <2>2. \A i \in S : entries[i].hall \in Halls
    OBVIOUS
  <2> HIDE DEF S, told
  <2>3. told \in Seq([qa : Nat, empty : BOOLEAN, hall : Halls \cup {Blank}]) /\ \A k \in DOMAIN told : \E i \in S : told[k] = entries[i]
    BY <2>1, PickedFrom
  <2> QED BY <2>2, <2>3
<1> HIDE DEF told
<1>2. \A e : TextOf(e) \in Words
  <2>1. \A i \in DOMAIN pairs : pairs[i].q \in LogBodies \cup {Blank}
    <3>1. \A i \in DOMAIN pairs : pairs[i] \in PairsOn(LogBodies)
      OBVIOUS
    <3> QED BY <3>1 DEF PairsOn
  <2> QED BY <2>1 DEF Words
<1>3. rest \in Seq(PairsOn(LogBodies))
  <2>1. P \in SUBSET (DOMAIN pairs)
    OBVIOUS
  <2> HIDE DEF P
  <2> QED BY <2>1, PickedFrom
<1>4. ASSUME NEW hall \in Halls, NEW t \in Words PROVE Noted(hall, src, who, t) \in D
  <2>1. 1 \in Layers /\ 2 \in Layers /\ "summary" \in Forms
    BY DEF Layers, Forms
  <2>2. (IF hall = "preferences" THEN 1 ELSE 2) \in Layers
    BY <2>1
  <2> QED BY <1>4, <2>1, <2>2, DraftIs DEF Noted
<1>5. ASSUME NEW pair \in PairsOn(LogBodies) PROVE RawPair(src, who, pair) \in D
  <2>1. 3 \in Layers /\ "events" \in Halls /\ "raw" \in Forms /\ pair.q \in Words
    BY DEF Layers, Halls, Forms, PairsOn, Words
  <2> QED BY <2>1, DraftIs DEF RawPair
<1> DEFINE first == [k \in DOMAIN told |-> Noted(told[k].hall, src, who, TextOf(told[k]))]
           second == [k \in DOMAIN rest |-> RawPair(src, who, rest[k])]
<1>6. first \in Seq(D)
  <2>1. Len(told) \in Nat /\ DOMAIN told = 1..Len(told)
    BY <1>1
  <2> HIDE DEF TextOf, D
  <2>2. \A k \in DOMAIN told : Noted(told[k].hall, src, who, TextOf(told[k])) \in D
    BY <1>1, <1>2, <1>4
  <2> QED BY <2>1, <2>2
<1>7. second \in Seq(D)
  <2> HIDE DEF rest, D
  <2>1. Len(rest) \in Nat /\ DOMAIN rest = 1..Len(rest) /\ \A k \in DOMAIN rest : rest[k] \in PairsOn(LogBodies)
    BY <1>3
  <2>2. \A k \in DOMAIN rest : RawPair(src, who, rest[k]) \in D
    BY <1>5, <2>1
  <2> QED BY <2>1, <2>2
<1>8. BatchItems(pairs, entries, src, who) = first \o second
  BY DEF BatchItems, told
<1> HIDE DEF first, second, D
<1>9. first \o second \in Seq(D)
  BY <1>6, <1>7, JoinHas
<1> QED BY <1>8, <1>9 DEF D

LEMMA SinglesHave ==
  ASSUME NEW pair \in PairsOn(LogBodies), NEW reply \in PairReplies, setup \in Setups,
         NEW src, src \notin Files, NEW text, NEW who, who.user \in Owners, who.acct \in Owners
  PROVE  PairItems(pair, reply, src, who) \in Seq(Drafts(src, text, who))
<1> DEFINE D == Drafts(src, text, who)
<1>1. setup.told \subseteq Halls /\ setup.kinds \subseteq GenericKinds
  BY SetupsAssumption
<1>2. pair.q \in Words
  BY DEF PairsOn, Words
<1>3. <<>> \in Seq(D)
  OBVIOUS
<1>4. CASE reply.way = "single"
  <2> DEFINE entry == [empty |-> reply.hall = Blank, hall |-> reply.hall]
             items == SingleItems(pair, entry, src, who)
  <2>1. reply.hall \in setup.told \cup {Blank}
    BY <1>4 DEF PairReplies
  <2>2. PairItems(pair, reply, src, who) = items
    BY <1>4 DEF PairItems
  <2>3. CASE reply.hall = Blank
    <3>1. items = <<>>
      BY <2>3 DEF SingleItems
    <3> QED BY <1>3, <2>2, <3>1
  <2>4. CASE reply.hall # Blank
    <3>1. reply.hall \in Halls
      BY <1>1, <2>1, <2>4
    <3>2. items = <<Noted(reply.hall, src, who, pair.q), RawPair(src, who, pair)>>
      BY <2>4 DEF SingleItems
    <3>3. Noted(reply.hall, src, who, pair.q) \in D
      <4>1. 1 \in Layers /\ 2 \in Layers /\ "summary" \in Forms
        BY DEF Layers, Forms
      <4>2. (IF reply.hall = "preferences" THEN 1 ELSE 2) \in Layers
        BY <4>1
      <4> QED BY <1>2, <3>1, <4>1, <4>2, DraftIs DEF Noted
    <3>4. RawPair(src, who, pair) \in D
      <4>1. 3 \in Layers /\ "events" \in Halls /\ "raw" \in Forms
        BY DEF Layers, Halls, Forms
      <4> QED BY <1>2, <4>1, DraftIs DEF RawPair
    <3> HIDE DEF items, D
    <3>5. items \in Seq(D)
      BY <3>2, <3>3, <3>4
    <3> QED BY <2>2, <3>5 DEF D
  <2> QED BY <2>3, <2>4
<1>5. CASE reply.way = "generic"
  <2>1. PICK kind \in setup.kinds : reply = [way |-> "generic", hall |-> kind.hall, layer |-> kind.layer]
    BY <1>5 DEF PairReplies
  <2>2. reply.hall \in Halls /\ reply.layer \in Layers
    <3>1. kind \in GenericKinds
      BY <1>1, <2>1
    <3> QED BY <2>1, <3>1 DEF GenericKinds
  <2>3. PairItems(pair, reply, src, who) = <<Memory(reply.layer, reply.hall, FALSE, src, who, pair.q, "raw")>>
    BY <1>5 DEF PairItems, GenericItems
  <2>4. Memory(reply.layer, reply.hall, FALSE, src, who, pair.q, "raw") \in D
    <3>1. "raw" \in Forms
      BY DEF Forms
    <3> QED BY <1>2, <2>2, <3>1, DraftIs
  <2> DEFINE m == Memory(reply.layer, reply.hall, FALSE, src, who, pair.q, "raw")
  <2> HIDE DEF D
  <2>5. <<m>> \in Seq(D)
    <3> HIDE DEF m
    <3>1. m \in D
      BY <2>4 DEF m
    <3> QED BY <3>1
  <2> QED BY <2>3, <2>5 DEF D
<1>6. CASE reply.way \notin {"single", "generic"}
  <2>1. PairItems(pair, reply, src, who) = <<>>
    BY <1>6 DEF PairItems
  <2> QED BY <1>3, <2>1
<1> QED BY <1>4, <1>5, <1>6

LEMMA FilesHave ==
  ASSUME NEW f \in Files, NEW text \in Texts, setup \in Setups, NEW forms \in [DOMAIN ChunksOf(LinesOf[text]) -> setup.forms]
  PROVE  FileItems(f, text, forms) \in Seq(Drafts(f, text, FileUser))
<1> DEFINE D == Drafts(f, text, FileUser)  n == Len(ChunksOf(LinesOf[text]))
           ss == [k \in DOMAIN forms |-> PieceItems(f, text, forms[k])]
<1>1. text \in Words /\ FileUser.user \in Owners /\ FileUser.acct \in Owners /\ "discoveries" \in Halls /\ "raw" \in Forms
      /\ 2 \in Layers /\ 3 \in Layers /\ 2 # 1 /\ 3 # 1
  BY DEF Words, FileUser, Owners, Halls, Forms, Layers
<1>2. setup.forms \subseteq {"nothing", "summary", "chunk"}
  BY SetupsAssumption
<1>3. n \in Nat /\ DOMAIN forms = 1..n
  <2>1. LinesOf[text] \in Seq(Nat)
    BY SourcesAssumption
  <2>2. ChunksOf(LinesOf[text]) \in Seq(Seq(Nat))
    BY <2>1, ChunksHas
  <2>3. Len(ChunksOf(LinesOf[text])) \in Nat /\ DOMAIN ChunksOf(LinesOf[text]) = 1..Len(ChunksOf(LinesOf[text]))
    BY <2>2
  <2> QED BY <2>3
<1>4. RawFile(f, text) \in D
  BY <1>1, DraftIs DEF RawFile
<1>5. ASSUME NEW k \in DOMAIN forms PROVE PieceItems(f, text, forms[k]) \in Seq(D)
  <2>1. forms[k] \in Forms
    <3>1. forms[k] \in setup.forms
      OBVIOUS
    <3> QED BY <1>2, <3>1 DEF Forms
  <2>2. Memory(2, "discoveries", TRUE, f, FileUser, text, forms[k]) \in D
    BY <1>1, <2>1, DraftIs
  <2> DEFINE m == Memory(2, "discoveries", TRUE, f, FileUser, text, forms[k])
  <2> HIDE DEF D
  <2>3. <<m>> \in Seq(D) /\ <<>> \in Seq(D)
    <3> HIDE DEF m
    <3>1. m \in D
      BY <2>2 DEF m
    <3> QED BY <3>1
  <2> QED BY <2>3 DEF PieceItems
<1> HIDE DEF D, n
<1>6. ss \in Seq(Seq(D))
  BY <1>3, <1>5
<1>7. FileItems(f, text, forms) = <<RawFile(f, text)>> \o FlattenSeq(ss)
  BY DEF FileItems
<1> HIDE DEF ss
<1>8. FlattenSeq(ss) \in Seq(D) /\ <<RawFile(f, text)>> \in Seq(D)
  BY <1>4, <1>6, Flattened
<1>9. <<RawFile(f, text)>> \o FlattenSeq(ss) \in Seq(D)
  BY <1>8, JoinHas
<1> QED BY <1>7, <1>9 DEF D

LEMMA ChatsHave ==
  ASSUME setup \in Setups, NEW x \in Snapshots, x.src \in Chats, NEW who, who.user \in Owners, who.acct \in Owners,
         NEW items \in ChatItems(x, who)
  PROVE  items \in Seq(Drafts(x.src, x.content, who))
<1> DEFINE pairs == SessionPairs[x.src][x.content]  D == Drafts(x.src, x.content, who)
           told == setup.told \cup {Blank}
<1>1. x.content \in Lengths /\ x.src \notin Files
  <2>1. Chats \cap Files = {}
    BY SourcesAssumption
  <2> QED BY <2>1 DEF Snapshots, Contents
<1>2. pairs \in Seq(PairsOn(LogBodies))
  <2> DEFINE said == SubSeq(Log[x.src], 1, x.content)
  <2>1. Log[x.src] \in Seq(Spoke(LogBodies)) /\ x.content \in Nat /\ x.content <= Len(Log[x.src])
    BY <1>1, SourcesAssumption DEF Spoke
  <2>2. said \in Seq(Spoke(LogBodies))
    <3> DEFINE whole == Log[x.src]  T == Spoke(LogBodies)  n == x.content
    <3>1. whole \in Seq(T) /\ n \in Nat /\ n <= Len(whole)
      BY <2>1
    <3> HIDE DEF whole, T, n
    <3>2. SubSeq(whole, 1, n) \in Seq(T)
      BY <3>1
    <3> QED BY <3>2 DEF whole, T, n
  <2>3. pairs = Pairs(said)
    <3> DEFINE c == x.src  n == x.content
    <3>1. c \in Chats /\ n \in Lengths
      BY <1>1
    <3> HIDE DEF c, n
    <3>2. SessionPairs[c][n] = Pairs(SubSeq(Log[c], 1, n))
      BY <3>1 DEF SessionPairs
    <3> QED BY <3>2 DEF c, n
  <2> HIDE DEF said, pairs
  <2> QED BY <2>2, <2>3, PairsHas
<1>3. setup.told \subseteq Halls
  BY SetupsAssumption
<1> HIDE DEF pairs
<1>4. Len(pairs) \in Nat /\ DOMAIN pairs = 1..Len(pairs) /\ \A i \in DOMAIN pairs : pairs[i] \in PairsOn(LogBodies)
  BY <1>2
<1>5. CASE \E halls \in [DOMAIN pairs -> told] :
             items = BatchItems(pairs, [i \in DOMAIN pairs |-> [qa |-> i, empty |-> halls[i] = Blank, hall |-> halls[i]]], x.src, who)
  <2>1. PICK halls \in [DOMAIN pairs -> told] :
             items = BatchItems(pairs, [i \in DOMAIN pairs |-> [qa |-> i, empty |-> halls[i] = Blank, hall |-> halls[i]]], x.src, who)
    BY <1>5
  <2> DEFINE entries == [i \in DOMAIN pairs |-> [qa |-> i, empty |-> halls[i] = Blank, hall |-> halls[i]]]
             En == [qa : Nat, empty : BOOLEAN, hall : Halls \cup {Blank}]
  <2>2. \A i \in DOMAIN pairs : halls[i] \in Halls \cup {Blank} /\ (halls[i] # Blank => halls[i] \in Halls) /\ i \in Nat
    BY <1>3, <1>4
  <2>3. \A i \in DOMAIN pairs : /\ [qa |-> i, empty |-> halls[i] = Blank, hall |-> halls[i]] \in En
                                /\ entries[i].hall = halls[i] /\ (entries[i].empty <=> halls[i] = Blank)
    BY <2>2
  <2>4. entries \in Seq(En)
    <3> HIDE DEF En
    <3> QED BY <1>4, <2>3
  <2>5. \A k \in DOMAIN entries : ~entries[k].empty => entries[k].hall \in Halls
    BY <2>2, <2>3
  <2> HIDE DEF entries
  <2>6. items = BatchItems(pairs, entries, x.src, who)
    BY <2>1 DEF entries
  <2> QED BY <1>1, <1>2, <2>4, <2>5, <2>6, BatchHas
<1>6. CASE \E replies \in [DOMAIN pairs -> PairReplies] :
             items = FlattenSeq([i \in DOMAIN pairs |-> PairItems(pairs[i], replies[i], x.src, who)])
  <2>1. PICK replies \in [DOMAIN pairs -> PairReplies] :
             items = FlattenSeq([i \in DOMAIN pairs |-> PairItems(pairs[i], replies[i], x.src, who)])
    BY <1>6
  <2> DEFINE ss == [i \in DOMAIN pairs |-> PairItems(pairs[i], replies[i], x.src, who)]
  <2>2. ASSUME NEW i \in DOMAIN pairs PROVE PairItems(pairs[i], replies[i], x.src, who) \in Seq(D)
    <3> DEFINE pair == pairs[i]  reply == replies[i]
    <3>1. pair \in PairsOn(LogBodies) /\ reply \in PairReplies
      BY <1>4
    <3> HIDE DEF pair, reply
    <3>2. PairItems(pair, reply, x.src, who) \in Seq(D)
      BY <1>1, <3>1, SinglesHave
    <3> QED BY <3>2 DEF pair, reply
  <2> HIDE DEF D
  <2>3. ss \in Seq(Seq(D))
    BY <1>4, <2>2
  <2> HIDE DEF ss
  <2>4. FlattenSeq(ss) \in Seq(D)
    BY <2>3, Flattened
  <2> QED BY <2>1, <2>4 DEF D, ss
<1> QED BY <1>5, <1>6 DEF ChatItems, pairs

(* Who a memory of a source belongs to: `memory process` takes chats for    *)
(* the default user's.                                                     *)
MakerOf(src) == IF src \in Chats /\ proc # "process" THEN Who(Key[src]) ELSE FileUser

LEMMA MakerHas ==
  ASSUME NEW src
  PROVE  MakerOf(src).user \in Owners /\ MakerOf(src).acct \in Owners
<1>1. FileUser.user \in Owners /\ FileUser.acct \in Owners
  BY DEF FileUser, Owners
<1>2. ASSUME src \in Chats PROVE Who(Key[src]).user \in Owners /\ Who(Key[src]).acct \in Owners
  <2> DEFINE U == {Who(Key[s]).user : s \in Chats}  A == {Who(Key[s]).acct : s \in Chats}
  <2>1. Who(Key[src]).user \in U /\ Who(Key[src]).acct \in A
    BY <1>2
  <2> QED BY <2>1 DEF Owners
<1> QED BY <1>1, <1>2 DEF MakerOf

LEMMA Extracted ==
  ASSUME setup \in Setups, NEW x \in Snapshots, NEW items \in Extracts(x)
  PROVE  items \in Seq(Drafts(x.src, x.content, MakerOf(x.src)))
<1>1. x.src \in Sources /\ x.content \in Contents(x.src)
  BY DEF Snapshots
<1>2. CASE x.src \in Chats
  <2> DEFINE who == MakerOf(x.src)
  <2>1. who = IF proc = "process" THEN FileUser ELSE Who(Key[x.src])
    BY <1>2 DEF MakerOf
  <2>2. who.user \in Owners /\ who.acct \in Owners
    BY MakerHas
  <2> HIDE DEF who
  <2>3. items \in ChatItems(x, who)
    BY <1>2, <2>1 DEF Extracts
  <2>4. items \in Seq(Drafts(x.src, x.content, who))
    BY <1>2, <2>2, <2>3, ChatsHave
  <2> QED BY <2>4 DEF who
<1>3. CASE x.src \notin Chats
  <2>1. x.src \in Files /\ x.content \in Texts /\ MakerOf(x.src) = FileUser
    BY <1>1, <1>3 DEF Sources, Contents, MakerOf
  <2>2. PICK forms \in [DOMAIN ChunksOf(LinesOf[x.content]) -> setup.forms] : items = FileItems(x.src, x.content, forms)
    BY <1>3 DEF Extracts
  <2> QED BY <2>1, <2>2, FilesHave
<1> QED BY <1>2, <1>3

(* The ID they get makes them memories, ...                                *)
Numbered(items, n, src) == [k \in DOMAIN items |-> [items[k] EXCEPT !.id = <<n, k, src>>]]

AreFrom(new, n, src, text) ==
  \A k \in DOMAIN new : /\ new[k].id = <<n, k, src>> /\ k \in Nat
                       /\ new[k].src = src /\ (src \in Files => new[k].text = text)
                       /\ new[k].user = MakerOf(src).user /\ new[k].acct = MakerOf(src).acct

LEMMA NumberedHave ==
  ASSUME NEW src \in Sources, NEW text, NEW items \in Seq(Drafts(src, text, MakerOf(src))), NEW n \in Nat
  PROVE  /\ Numbered(items, n, src) \in Seq(Memories)
         /\ AreFrom(Numbered(items, n, src), n, src, text)
<1> DEFINE new == Numbered(items, n, src)  user == MakerOf(src).user  acct == MakerOf(src).acct
<1>1. Len(items) \in Nat /\ DOMAIN items = 1..Len(items) /\ DOMAIN new = DOMAIN items
      /\ \A k \in DOMAIN items : items[k] \in Drafts(src, text, MakerOf(src)) /\ new[k] = [items[k] EXCEPT !.id = <<n, k, src>>] /\ k \in Nat
  BY DEF Numbered
<1>2. ASSUME NEW k \in DOMAIN items
      PROVE  /\ new[k] \in Memories /\ new[k].id = <<n, k, src>> /\ new[k].src = src /\ (src \in Files => new[k].file /\ new[k].text = text)
             /\ new[k].user = user /\ new[k].acct = acct
  <2> DEFINE d == items[k]  id == <<n, k, src>>  m == new[k]
  <2>1. d \in [id : {0}, layer : Layers, hall : Halls, file : BOOLEAN, src : {src}, user : {user}, acct : {acct},
               text : Words, form : Forms]
        /\ (src \in Files => d.file /\ d.layer # 1 /\ d.text = text) /\ (src \notin Files => ~d.file) /\ m = [d EXCEPT !.id = id]
    BY <1>1 DEF Drafts
  <2>2. id \in IDs
    <3>1. id \in Nat \X Nat \X Sources
      BY <1>1
    <3> QED BY <3>1 DEF IDs
  <2> HIDE DEF d, id, m
  <2>3. m \in [id : IDs, layer : Layers, hall : Halls, file : BOOLEAN, src : {src}, user : {user}, acct : {acct},
               text : Words, form : Forms]
        /\ m.id = id /\ m.file = d.file /\ m.layer = d.layer /\ m.text = d.text /\ m.user = user /\ m.acct = acct
    <3> HIDE DEF user, acct
    <3> QED BY <2>1, <2>2 DEF user, acct
  <2>4. m \in [id : IDs, layer : Layers, hall : Halls, file : BOOLEAN, src : Sources \cup {"preferences"}, user : Owners,
               acct : Owners, text : Words, form : Forms] /\ m.src = src
    <3>1. user \in Owners /\ acct \in Owners
      BY MakerHas
    <3> HIDE DEF user, acct
    <3> QED BY <2>3, <3>1
  <2>5. m \in Memories
    BY <2>1, <2>3, <2>4 DEF Memories
  <2>6. m \in Memories /\ m.id = id /\ m.src = src /\ (src \in Files => m.file /\ m.text = text) /\ m.user = user /\ m.acct = acct
    BY <2>1, <2>3, <2>4, <2>5
  <2> QED BY <2>6 DEF id, m
<1>3. new \in Seq(Memories)
  <2>1. new = [k \in 1..Len(items) |-> new[k]]
    BY <1>1 DEF Numbered
  <2> HIDE DEF new
  <2>2. \A k \in 1..Len(items) : new[k] \in Memories
    BY <1>1, <1>2
  <2> DEFINE l == Len(items)
  <2>3. l \in Nat
    BY <1>1
  <2> HIDE DEF l
  <2>4. new \in [1..l -> Memories]
    BY <2>1, <2>2 DEF l
  <2> QED BY <2>3, <2>4
<1> HIDE DEF new
<1>4. AreFrom(new, n, src, text)
  BY <1>1, <1>2 DEF AreFrom
<1> QED BY <1>3, <1>4 DEF new

-----------------------------------------------------------------------------
(* The inductive invariant.  A memory of a chat that was kept and is not   *)
(* gone is in a hand that will store it or on the disk; the store is       *)
(* sound; and the IDs of the first layer, by which compaction deletes, are *)
(* not those of chats.                                                     *)
ItemsOf(s) == {s[k] : k \in DOMAIN s}
Hands == UNION {ItemsOf(at[p].hand) : p \in Scanners}
OneIds == {m.id : m \in ItemsOf(l1) \cup {m \in Hands : m.layer = 1}}
ChatMemories == {m \in Hands : IsChat(m)} \cup {y[2] : y \in {y \in AllPlaced(md) : IsChat(y[2])}}
ChatIds == {m.id : m \in ChatMemories}

Safe(id) ==
  \/ \E p \in Scanners : \E m \in ItemsOf(at[p].hand) : m.id = id /\ IsChat(m) /\ (p = "initial" => m.hall # "preferences")
  \/ \E path \in DOMAIN md.files : path[1] \in ChatDirs /\ id \in IdsIn(md.files[path])

DiskOK == Homely(md.files) /\ Homely(md.cache) /\ (proc # "down" => Ahead(md))
IdsOK == ChatIds \subseteq MadeIds(made) /\ OneIds \subseteq MadeIds(made) \cup RereadIds /\ OneIds \cap ChatIds = {}
KeptOK == \A id \in kept \ gone : Safe(id)

KeepInv == TypeOK /\ DiskOK /\ IdsOK /\ KeptOK

ScannerRecs ==
  [pc : {"off", "idle", "walk", "work", "ask"}, kind : {"chat", "file"}, since : SUBSET Sources, todo : Seq(Snapshots),
   busy : SUBSET Snapshots, hand : Seq(Memories)]

LEMMA ScannerHas ==
  ASSUME ScanOK
  PROVE  /\ at \in [Scanners -> ScannerRecs]
         /\ \A p \in Scanners : /\ at[p] \in ScannerRecs /\ at[p].hand \in Seq(Memories) /\ at[p].todo \in Seq(Snapshots)
                                /\ at[p].busy \subseteq Snapshots /\ at[p].since \subseteq Sources
                                /\ at[p].kind \in {"chat", "file"} /\ at[p].pc \in {"off", "idle", "walk", "work", "ask"}
<1>1. at \in [Scanners -> ScannerRecs]
  BY DEF ScanOK, ScannerRecs
<1>2. \A r \in ScannerRecs : /\ r.hand \in Seq(Memories) /\ r.todo \in Seq(Snapshots)
                             /\ r.busy \subseteq Snapshots /\ r.since \subseteq Sources
                             /\ r.kind \in {"chat", "file"} /\ r.pc \in {"off", "idle", "walk", "work", "ask"}
  BY DEF ScannerRecs
<1> QED BY <1>1, <1>2

LEMMA ScannerIs ==
  ASSUME NEW pc \in {"off", "idle", "walk", "work", "ask"}, NEW kind \in {"chat", "file"}, NEW busy \in SUBSET Snapshots
  PROVE  Scanner(pc, kind, busy) \in ScannerRecs /\ Scanner(pc, kind, busy).hand = <<>>
         /\ Scanner(pc, kind, busy).pc = pc /\ Scanner(pc, kind, busy).kind = kind
<1>1. <<>> \in Seq(Snapshots) /\ <<>> \in Seq(Memories) /\ {} \in SUBSET Sources
  OBVIOUS
<1> QED BY <1>1 DEF Scanner, ScannerRecs

LEMMA OffIs ==
  /\ Off \in [Scanners -> ScannerRecs]
  /\ \A p \in Scanners : Off[p].pc = "off" /\ Off[p].hand = <<>> /\ Off[p] \in ScannerRecs
<1>1. \A p \in Scanners : Off[p] = Scanner("off", IF p = "chats" THEN "chat" ELSE "file", {})
  BY DEF Off
<1>2. \A p \in Scanners : (IF p = "chats" THEN "chat" ELSE "file") \in {"chat", "file"} /\ {} \in SUBSET Snapshots
  OBVIOUS
<1>3. \A p \in Scanners : Off[p].pc = "off" /\ Off[p].hand = <<>> /\ Off[p] \in ScannerRecs
  BY <1>1, <1>2, ScannerIs
<1>4. Off = [p \in Scanners |-> Off[p]]
  BY DEF Off
<1> QED BY <1>3, <1>4

LEMMA SnapshotIs ==
  ASSUME WorldOK, NEW x \in Sources
  PROVE  Snapshot(x) \in Snapshots /\ Snapshot(x).src = x
<1>1. now[x] \in Contents(x) /\ now[x] \in Lengths \cup Texts /\ edit[x] \in Nat
  BY SetupsAssumption DEF WorldOK
<1> QED BY <1>1 DEF Snapshot, Snapshots

LEMMA SourcesHas ==
  ASSUME WorldOK, NEW kind
  PROVE  SourcesOf(kind) \subseteq Sources /\ IsFiniteSet(Sources)
<1>1. setup.sources \subseteq Sources
  BY SetupsAssumption DEF WorldOK, Sources
<1> QED BY <1>1, SourcesAssumption DEF SourcesOf

(* What stays when nothing it speaks of changes.                           *)
LEMMA WorldStays ==
  ASSUME WorldOK, UNCHANGED <<setup, now, edit>>, changed' \in [{"chats", "files"} -> SUBSET Sources], spoiled' \subseteq Sources
  PROVE  WorldOK'
BY DEF WorldOK

LEMMA StoreStays ==
  ASSUME StoreOK, UNCHANGED <<md, l1, db, kept, gone, latest>>
  PROVE  StoreOK'
BY DEF StoreOK

LEMMA IndexStays ==
  ASSUME IndexOK, UNCHANGED <<index, saved, processed>>
  PROVE  IndexOK'
BY DEF IndexOK

LEMMA CalmStays ==
  ASSUME DiskOK, IdsOK, KeptOK, UNCHANGED <<md, l1, made, kept, gone>>, \A p \in Scanners : at'[p].hand = at[p].hand,
         proc' # "down" => proc # "down"
  PROVE  DiskOK' /\ IdsOK' /\ KeptOK'
<1>1. DiskOK'
  BY DEF DiskOK
<1>2. Hands' = Hands
  BY DEF Hands
<1>3. IdsOK'
  BY <1>2 DEF IdsOK, OneIds, ChatIds, ChatMemories
<1>4. KeptOK'
  BY DEF KeptOK, Safe
<1> QED BY <1>1, <1>3, <1>4

LEMMA FewerIds ==
  ASSUME IdsOK, made' = made, Hands' \subseteq Hands,
         \A m \in ItemsOf(l1') : m \in ItemsOf(l1) \/ (m \in Hands /\ m.layer = 1),
         \A y \in AllPlaced(md') : IsChat(y[2]) => y[2].id \in ChatIds
  PROVE  IdsOK'
<1>1. ChatIds' \subseteq ChatIds
  BY DEF ChatIds, ChatMemories
<1>2. OneIds' \subseteq OneIds
  BY DEF OneIds
<1> QED BY <1>1, <1>2 DEF IdsOK

LEMMA EditKeeps ==
  ASSUME KeepInv, NEW x \in Sources, Edit(x)
  PROVE  KeepInv'
<1>1. WorldOK /\ StoreOK /\ IndexOK /\ ScanOK /\ DiskOK /\ IdsOK /\ KeptOK
  BY DEF KeepInv, TypeOK
<1>2. UNCHANGED <<setup, proc, hasDB, boots, md, l1, db, index, saved, processed, at, finder, made, kept, gone, spoiled, latest>>
  BY DEF Edit
<1>3. WorldOK'
  <2>1. PICK c \in (IF x \in Chats THEN {n \in Lengths : n > now[x]} ELSE Texts \ {now[x]}) : now' = [now EXCEPT ![x] = c]
    BY DEF Edit
  <2>2. c \in Contents(x) /\ c \in Lengths \cup Texts
    BY <2>1 DEF Contents
  <2>3. now' \in [Sources -> Lengths \cup Texts] /\ \A z \in Sources : now'[z] \in Contents(z)
    BY <1>1, <2>1, <2>2 DEF WorldOK
  <2>4. edit' \in [Sources -> 0..setup.edits]
    <3>1. edit \in [Sources -> 0..setup.edits] /\ edit[x] < setup.edits /\ edit' = [edit EXCEPT ![x] = @ + 1] /\ setup.edits \in Nat
      BY <1>1, SetupsAssumption DEF WorldOK, Edit
    <3>2. edit[x] + 1 \in 0..setup.edits
      BY <3>1
    <3> QED BY <3>1, <3>2
  <2>5. changed' \in [{"chats", "files"} -> SUBSET Sources]
    BY <1>1 DEF WorldOK, Edit
  <2> QED BY <1>1, <1>2, <2>3, <2>4, <2>5 DEF WorldOK
<1>4. ScanOK'
  <2>1. \A p \in {"chats", "files"} : changed'[p] \subseteq SourcesOf(at[p].kind)
    BY <1>1 DEF ScanOK, WorldOK, Edit
  <2>2. \A kind : SourcesOf(kind)' = SourcesOf(kind)
    BY <1>2 DEF SourcesOf
  <2> QED BY <1>1, <1>2, <2>1, <2>2 DEF ScanOK
<1>5. DiskOK' /\ IdsOK' /\ KeptOK'
  BY <1>1, <1>2, CalmStays
<1>6. StoreOK' /\ IndexOK'
  BY <1>1, <1>2, StoreStays, IndexStays
<1> QED BY <1>3, <1>4, <1>5, <1>6 DEF KeepInv, TypeOK

(* A step of one scanner.                                                  *)
LEMMA ScanMoves ==
  ASSUME ScanOK, WorldOK, NEW p \in Scanners, proc # "down", p # "initial" => proc = "gateway",
         UNCHANGED <<setup, proc, hasDB, boots>>, made' \in Nat,
         finder' \in {"idle", "query", "vector", "few", "outer", "inner"},
         at' \in [Scanners -> ScannerRecs], \A q \in Scanners \ {p} : at'[q] = at[q],
         p # "initial" => at'[p].kind = at[p].kind /\ at'[p].pc # "ask",
         p = "initial" /\ at'[p].pc = "ask" => hasDB /\ at'[p].hand # <<>>,
         \A q \in {"chats", "files"} : changed'[q] \subseteq SourcesOf(at[q].kind)
  PROVE  ScanOK'
<1>1. \A q \in {"chats", "files"} : at'[q].kind = at[q].kind /\ at'[q].pc # "ask" /\ (proc # "gateway" => at'[q] = Off[q])
  BY DEF ScanOK, Scanners
<1>2. at'["initial"].pc = "ask" => hasDB /\ at'["initial"].hand # <<>>
  BY DEF ScanOK, Scanners
<1>3. \A kind : SourcesOf(kind)' = SourcesOf(kind)
  BY DEF SourcesOf
<1>4. \A q \in {"chats", "files"} : at'[q].kind = Off[q].kind
  BY <1>1 DEF ScanOK
<1>5. at' \in [Scanners -> [pc : {"off", "idle", "walk", "work", "ask"}, kind : {"chat", "file"},
                          since : SUBSET Sources, todo : Seq(Snapshots), busy : SUBSET Snapshots,
                          hand : Seq(Memories)]]
  BY DEF ScannerRecs
<1>6. boots' \in 0..setup'.boots /\ hasDB' \in BOOLEAN /\ proc' \in {"down", "gateway", "init", "process"} /\ proc' # "down"
  BY DEF ScanOK
<1>7. Off' = Off
  BY DEF Off, Scanner
<1> HIDE DEF ScannerRecs, Off
<1> QED BY <1>1, <1>2, <1>3, <1>4, <1>5, <1>6, <1>7 DEF ScanOK

(* A scanner that does something runs.                                     *)
LEMMA Running ==
  ASSUME ScanOK, NEW p \in Scanners, at[p].pc # "off"
  PROVE  proc # "down" /\ (p # "initial" => proc = "gateway")
BY OffIs DEF ScanOK, Scanners

LEMMA TickKeeps ==
  ASSUME KeepInv, NEW p \in {"chats", "files"}, Tick(p)
  PROVE  KeepInv'
<1>1. WorldOK /\ StoreOK /\ IndexOK /\ ScanOK /\ DiskOK /\ IdsOK /\ KeptOK
  BY DEF KeepInv, TypeOK
<1>2. UNCHANGED <<setup, proc, hasDB, boots, now, edit, md, l1, db, index, saved, processed, finder, made, kept, gone, spoiled, latest>>
  BY DEF Tick
<1>3. p \in Scanners /\ p # "initial" /\ at[p].pc = "idle"
  BY DEF Scanners, Tick
<1>4. at[p] \in ScannerRecs /\ at \in [Scanners -> ScannerRecs]
  BY <1>1, <1>3, ScannerHas
<1>5. changed[p] \subseteq Sources
  BY <1>1, <1>3 DEF WorldOK
<1>6. at' = [at EXCEPT ![p].pc = "walk", ![p].since = changed[p]]
  BY DEF Tick
<1>7. /\ at'[p] \in ScannerRecs /\ at'[p].hand = at[p].hand /\ at'[p].kind = at[p].kind /\ at'[p].pc = "walk"
      /\ \A q \in Scanners \ {p} : at'[q] = at[q]
  BY <1>3, <1>4, <1>5, <1>6 DEF ScannerRecs
<1>8. at' \in [Scanners -> ScannerRecs]
  BY <1>4, <1>6, <1>7
<1>9. WorldOK'
  BY <1>1, <1>2, WorldStays DEF WorldOK, Tick
<1>10. \A q \in {"chats", "files"} : changed'[q] \subseteq SourcesOf(at[q].kind)
  BY <1>1 DEF ScanOK, WorldOK, Tick
<1>11. ScanOK'
  <2>1. proc # "down" /\ proc = "gateway"
    BY <1>1, <1>3, Running
  <2>2. at'[p].pc # "ask" /\ made' \in Nat /\ finder' \in {"idle", "query", "vector", "few", "outer", "inner"}
    BY <1>1, <1>2, <1>7 DEF ScanOK
  <2> HIDE DEF ScannerRecs
  <2> QED BY <1>1, <1>2, <1>3, <1>7, <1>8, <1>10, <2>1, <2>2, ScanMoves
<1>12. DiskOK' /\ IdsOK' /\ KeptOK'
  <2>1. \A q \in Scanners : at'[q].hand = at[q].hand
    BY <1>7
  <2> QED BY <1>1, <1>2, <2>1, CalmStays
<1>13. StoreOK' /\ IndexOK'
  BY <1>1, <1>2, StoreStays, IndexStays
<1> QED BY <1>9, <1>11, <1>12, <1>13 DEF KeepInv, TypeOK

LEMMA SnapshotsListed ==
  ASSUME WorldOK, NEW xs \in SUBSET Sources
  PROVE  SetToSeq({Snapshot(x) : x \in xs}) \in Seq(Snapshots) /\ IsFiniteSet({Snapshot(x) : x \in xs})
<1> DEFINE S == {Snapshot(x) : x \in xs}
<1>1. IsFiniteSet(xs)
  BY SourcesAssumption, FS_Subset
<1>2. IsFiniteSet(S)
  <2> DEFINE f == [x \in xs |-> Snapshot(x)]
  <2>1. f \in [xs -> S] /\ \A s \in S : \E x \in xs : f[x] = s
    OBVIOUS
  <2> HIDE DEF f, S
  <2>2. f \in Surjection(xs, S)
    BY <2>1 DEF Surjection
  <2> QED BY <1>1, <2>2, FS_Surjection
<1>3. S \subseteq Snapshots
  BY SnapshotIs
<1> HIDE DEF S
<1>4. SetToSeq(S) \in Seq(S)
  BY <1>2, Listed
<1>5. SetToSeq(S) \in Seq(Snapshots)
  BY <1>3, <1>4, SeqMonotonic
<1> QED BY <1>2, <1>5 DEF S

LEMMA WalkKeeps ==
  ASSUME KeepInv, NEW p \in Scanners, Walk(p)
  PROVE  KeepInv'
<1>1. WorldOK /\ StoreOK /\ IndexOK /\ ScanOK /\ DiskOK /\ IdsOK /\ KeptOK
  BY DEF KeepInv, TypeOK
<1>2. UNCHANGED <<setup, proc, hasDB, boots, now, edit, changed, md, l1, db, index, saved, finder, made, kept, gone, spoiled, latest>>
  BY DEF Walk
<1> DEFINE taken == Unseen(p, Modified(p))
           todo == SetToSeq({Snapshot(x) : x \in taken})
<1>3. at[p] \in ScannerRecs /\ at \in [Scanners -> ScannerRecs] /\ at[p].pc = "walk" /\ at[p].since \subseteq Sources
  BY <1>1, ScannerHas DEF Walk
<1>4. taken \subseteq Sources
  <2>1. p = "initial" \/ changed[p] \subseteq Sources
    BY <1>1 DEF WorldOK, Scanners
  <2>2. Modified(p) \subseteq Sources
    BY <1>1, <1>3, <2>1, SourcesHas DEF Modified
  <2> QED BY <2>2 DEF Unseen
<1>5. todo \in Seq(Snapshots)
  BY <1>1, <1>4, SnapshotsListed
<1>6. at' = [at EXCEPT ![p].pc = "work", ![p].since = {}, ![p].todo = todo]
  BY DEF Walk
<1> HIDE DEF todo
<1>7. /\ at'[p] \in ScannerRecs /\ at'[p].hand = at[p].hand /\ at'[p].kind = at[p].kind /\ at'[p].pc = "work"
      /\ \A q \in Scanners \ {p} : at'[q] = at[q]
  BY <1>3, <1>5, <1>6 DEF ScannerRecs
<1>8. at' \in [Scanners -> ScannerRecs]
  BY <1>3, <1>6, <1>7
<1>9. WorldOK'
  BY <1>1, <1>2, WorldStays DEF WorldOK
<1>10. \A q \in {"chats", "files"} : changed'[q] \subseteq SourcesOf(at[q].kind)
  BY <1>1, <1>2 DEF ScanOK
<1>11. ScanOK'
  <2>1. proc # "down" /\ (p # "initial" => proc = "gateway")
    BY <1>1, <1>3, Running
  <2>2. at'[p].pc # "ask" /\ made' \in Nat /\ finder' \in {"idle", "query", "vector", "few", "outer", "inner"}
    BY <1>1, <1>2, <1>7 DEF ScanOK
  <2> HIDE DEF ScannerRecs
  <2> QED BY <1>1, <1>2, <1>7, <1>8, <1>10, <2>1, <2>2, ScanMoves
<1>12. DiskOK' /\ IdsOK' /\ KeptOK'
  <2>1. \A q \in Scanners : at'[q].hand = at[q].hand
    BY <1>7
  <2> QED BY <1>1, <1>2, <2>1, CalmStays
<1>13. IndexOK'
  <2>1. \A x \in Files : edit[x] \in Int
    BY <1>1, SetupsAssumption DEF WorldOK, Sources
  <2>2. processed' \in [Files -> Int]
    <3>1. processed' = IF p = "files" THEN [x \in Files |-> IF x \in taken THEN edit[x] ELSE processed[x]] ELSE processed
      BY DEF Walk
    <3> HIDE DEF taken
    <3> QED BY <1>1, <2>1, <3>1 DEF IndexOK
  <2> QED BY <1>1, <1>2, <2>2 DEF IndexOK
<1>14. StoreOK'
  BY <1>1, <1>2, StoreStays
<1> QED BY <1>9, <1>11, <1>12, <1>13, <1>14 DEF KeepInv, TypeOK

LEMMA CleanupKeeps ==
  ASSUME KeepInv, Cleanup
  PROVE  KeepInv'
<1>1. WorldOK /\ StoreOK /\ IndexOK /\ ScanOK /\ DiskOK /\ IdsOK /\ KeptOK
  BY DEF KeepInv, TypeOK
<1>2. UNCHANGED <<setup, proc, hasDB, boots, now, edit, changed, md, l1, db, index, saved, at, finder, made, kept, gone, spoiled, latest>>
  BY DEF Cleanup
<1>3. IndexOK'
  <2>1. PICK x \in Files : processed' = [processed EXCEPT ![x] = -1]
    BY DEF Cleanup
  <2>2. processed' \in [Files -> Int]
    BY <1>1, <2>1 DEF IndexOK
  <2> QED BY <1>1, <1>2, <2>2 DEF IndexOK
<1>4. WorldOK' /\ StoreOK'
  BY <1>1, <1>2, WorldStays, StoreStays DEF WorldOK
<1>5. ScanOK'
  BY <1>1, <1>2 DEF ScanOK, SourcesOf
<1>6. DiskOK' /\ IdsOK' /\ KeptOK'
  BY <1>1, <1>2, CalmStays
<1> QED BY <1>3, <1>4, <1>5, <1>6 DEF KeepInv, TypeOK

LEMMA SearchKeeps ==
  ASSUME KeepInv, StartSearch \/ SearchStep
  PROVE  KeepInv'
<1>1. WorldOK /\ StoreOK /\ IndexOK /\ ScanOK /\ DiskOK /\ IdsOK /\ KeptOK
  BY DEF KeepInv, TypeOK
<1>2. UNCHANGED <<setup, proc, hasDB, boots, now, edit, changed, md, l1, db, index, saved, processed, at, made, kept, gone, spoiled, latest>>
      /\ finder' \in {"idle", "query", "vector", "few", "outer", "inner"}
  BY DEF StartSearch, SearchStep
<1>3. WorldOK' /\ StoreOK' /\ IndexOK'
  BY <1>1, <1>2, WorldStays, StoreStays, IndexStays DEF WorldOK
<1>4. ScanOK'
  BY <1>1, <1>2 DEF ScanOK, SourcesOf
<1>5. DiskOK' /\ IdsOK' /\ KeptOK'
  BY <1>1, <1>2, CalmStays
<1> QED BY <1>3, <1>4, <1>5 DEF KeepInv, TypeOK

LEMMA AskKeeps ==
  ASSUME KeepInv, Ask
  PROVE  KeepInv'
<1> DEFINE p == "initial"
<1>1. WorldOK /\ StoreOK /\ IndexOK /\ ScanOK /\ DiskOK /\ IdsOK /\ KeptOK
  BY DEF KeepInv, TypeOK
<1>2. UNCHANGED <<setup, proc, hasDB, boots, now, edit, changed, md, l1, db, index, saved, processed, finder, made, kept, gone, spoiled, latest>>
  BY DEF Ask
<1>3. p \in Scanners /\ at[p].pc = "work" /\ at[p].hand # <<>> /\ hasDB /\ at' = [at EXCEPT ![p].pc = "ask"]
  BY DEF Scanners, Ask, Worked, ForDB
<1>4. at[p] \in ScannerRecs /\ at \in [Scanners -> ScannerRecs]
  BY <1>1, <1>3, ScannerHas
<1>5. /\ at'[p] \in ScannerRecs /\ at'[p].hand = at[p].hand
      /\ \A q \in Scanners \ {p} : at'[q] = at[q]
  BY <1>3, <1>4 DEF ScannerRecs
<1>6. at' \in [Scanners -> ScannerRecs]
  BY <1>3, <1>4, <1>5
<1>7. WorldOK' /\ StoreOK' /\ IndexOK'
  BY <1>1, <1>2, WorldStays, StoreStays, IndexStays DEF WorldOK
<1>8. ScanOK'
  <2>1. proc # "down"
    BY <1>1, <1>3, Running
  <2>2. made' \in Nat /\ finder' \in {"idle", "query", "vector", "few", "outer", "inner"}
        /\ \A q \in {"chats", "files"} : changed'[q] \subseteq SourcesOf(at[q].kind)
    BY <1>1, <1>2 DEF ScanOK
  <2> HIDE DEF ScannerRecs
  <2> QED BY <1>1, <1>2, <1>3, <1>5, <1>6, <2>1, <2>2, ScanMoves
<1>9. DiskOK' /\ IdsOK' /\ KeptOK'
  <2>1. \A q \in Scanners : at'[q].hand = at[q].hand
    BY <1>5
  <2> QED BY <1>1, <1>2, <2>1, CalmStays
<1> QED BY <1>7, <1>8, <1>9 DEF KeepInv, TypeOK

(* The store the invariant speaks of.                                      *)
LEMMA StoresAre ==
  ASSUME NEW m
  PROVE  m \in Stores <=> /\ m = [files |-> m.files, cache |-> m.cache] /\ IsDisk(m.files) /\ IsDisk(m.cache)
                          /\ DOMAIN m.cache \subseteq DOMAIN m.files
<1>1. m \in Stores => m = [files |-> m.files, cache |-> m.cache] /\ IsDisk(m.files) /\ IsDisk(m.cache)
                      /\ DOMAIN m.cache \subseteq DOMAIN m.files
  BY StoreHas, DiskIs
<1>2. ASSUME m = [files |-> m.files, cache |-> m.cache], IsDisk(m.files), IsDisk(m.cache), DOMAIN m.cache \subseteq DOMAIN m.files
      PROVE  m \in Stores
  <2>1. m.files \in Disks /\ m.cache \in Disks
    BY <1>2, DiskIs
  <2> DEFINE files == m.files  cache == m.cache
  <2> HIDE DEF files, cache
  <2>2. m = [files |-> files, cache |-> cache] /\ files \in Disks /\ cache \in Disks
    BY <1>2, <2>1 DEF files, cache
  <2>3. m \in [files : Disks, cache : Disks]
    BY <2>2
  <2> QED BY <1>2, <2>3 DEF Stores
<1> QED BY <1>1, <1>2

LEMMA SoundNow ==
  ASSUME StoreOK, DiskOK, proc # "down"
  PROVE  Sound(md)
<1>1. md \in Stores
  BY StoresAre DEF StoreOK
<1> QED BY <1>1 DEF Sound, DiskOK

(* The memories of the first layer are strange to the caches of chats.     *)
LEMMA StrangeNow ==
  ASSUME StoreOK, DiskOK, IdsOK, NEW id \in OneIds
  PROVE  Strange(md, id)
<1>1. md.cache \in Disks
  BY DiskIs DEF StoreOK
<1>2. SUFFICES ASSUME NEW path \in DOMAIN md.cache, path[1] \in ChatDirs, id \in IdsIn(md.cache[path]) PROVE FALSE
  BY DEF Strange
<1>3. PICK k \in DOMAIN md.cache[path] : md.cache[path][k].id = id
  BY <1>2 DEF IdsIn
<1> DEFINE m == md.cache[path][k]
<1>4. IsChat(m)
  BY <1>2 DEF DiskOK, Homely, Home
<1>5. <<path, m>> \in Placed(md.cache)
  BY <1>1, PlacedIs
<1>6. <<path, m>> \in AllPlaced(md) /\ <<path, m>>[2] = m
  BY <1>5 DEF AllPlaced
<1> HIDE DEF m
<1>7. m \in ChatMemories
  BY <1>4, <1>6 DEF ChatMemories
<1>8. m.id \in ChatIds
  BY <1>7 DEF ChatIds
<1>9. m.id = id
  BY <1>3 DEF m
<1> QED BY <1>8, <1>9 DEF IdsOK

(* What was kept stays so when a memory leaves a hand only for the disk.   *)
LEMMA SafeMoves ==
  ASSUME KeptOK, Keeps(md, md'), kept' \ gone' \subseteq kept \ gone,
         \A p \in Scanners : \A m \in ItemsOf(at[p].hand) : IsChat(m) /\ (p = "initial" => m.hall # "preferences") =>
           \/ m \in ItemsOf(at'[p].hand)
           \/ \E path \in DOMAIN md'.files : path[1] \in ChatDirs /\ m.id \in IdsIn(md'.files[path])
  PROVE  KeptOK'
<1> SUFFICES ASSUME NEW id \in kept' \ gone' PROVE Safe(id)'
  BY DEF KeptOK
<1>1. Safe(id)
  BY DEF KeptOK
<1>2. CASE \E p \in Scanners : \E m \in ItemsOf(at[p].hand) : m.id = id /\ IsChat(m) /\ (p = "initial" => m.hall # "preferences")
  BY <1>2 DEF Safe
<1>3. CASE \E path \in DOMAIN md.files : path[1] \in ChatDirs /\ id \in IdsIn(md.files[path])
  BY <1>3 DEF Safe, Keeps
<1> QED BY <1>1, <1>2, <1>3 DEF Safe

LEMMA TailItems ==
  ASSUME NEW T, NEW s \in Seq(T), s # <<>>
  PROVE  /\ Head(s) \in T /\ Tail(s) \in Seq(T) /\ Head(s) \in ItemsOf(s)
         /\ ItemsOf(s) = {Head(s)} \cup ItemsOf(Tail(s))
<1>1. Head(s) \in T /\ Tail(s) \in Seq(T) /\ Head(s) = s[1] /\ Len(s) \in Nat /\ 1 \in DOMAIN s /\ DOMAIN s = 1..Len(s)
      /\ DOMAIN Tail(s) = 1..(Len(s) - 1) /\ \A k \in 1..(Len(s) - 1) : Tail(s)[k] = s[k + 1]
  OBVIOUS
<1>2. \A k \in DOMAIN s : k = 1 \/ (k - 1 \in DOMAIN Tail(s) /\ Tail(s)[k - 1] = s[k])
  BY <1>1
<1>3. \A k \in DOMAIN Tail(s) : k + 1 \in DOMAIN s /\ Tail(s)[k] = s[k + 1]
  BY <1>1
<1>4. ItemsOf(s) \subseteq {Head(s)} \cup ItemsOf(Tail(s))
  BY <1>1, <1>2 DEF ItemsOf
<1>5. {Head(s)} \cup ItemsOf(Tail(s)) \subseteq ItemsOf(s)
  BY <1>1, <1>3 DEF ItemsOf
<1> QED BY <1>1, <1>4, <1>5

LEMMA NoItems == ItemsOf(<<>>) = {} /\ IdsIn(<<>>) = {}
BY DEF ItemsOf, IdsIn

LEMMA IdsAre ==
  ASSUME NEW s \in Seq(Memories)
  PROVE  IdsIn(s) = {m.id : m \in ItemsOf(s)} /\ IdsIn(s) \subseteq IDs /\ ItemsOf(s) \subseteq Memories
<1>1. \A k \in DOMAIN s : s[k] \in Memories
  OBVIOUS
<1>2. ItemsOf(s) \subseteq Memories
  BY <1>1 DEF ItemsOf
<1>3. IdsIn(s) = {m.id : m \in ItemsOf(s)}
  BY DEF IdsIn, ItemsOf
<1> QED BY <1>2, <1>3, MemoryHas

(* A store that is empty.                                                  *)
LEMMA NoFiles == <<>> \in Disks /\ Homely(<<>>) /\ Placed(<<>>) = {} /\ DOMAIN <<>> = {} /\ <<>> \in [{} -> Words]
<1>1. DOMAIN <<>> = {} /\ \A T : <<>> \in [{} -> T]
  OBVIOUS
<1>2. IsFiniteSet({})
  BY FS_EmptySet
<1>3. IsDisk(<<>>)
  BY <1>1, <1>2 DEF IsDisk
<1>4. <<>> \in Disks
  BY <1>3, DiskIs
<1>5. Placed(<<>>) = {}
  BY <1>1, <1>4, PlacedIs
<1> QED BY <1>1, <1>4, <1>5 DEF Homely

LEMMA InitKeeps ==
  ASSUME Init
  PROVE  KeepInv
<1>1. /\ setup \in Setups /\ proc = "down" /\ hasDB = FALSE /\ boots = 0 /\ made = 0 /\ finder = "idle" /\ at = Off
      /\ md = [files |-> << >>, cache |-> << >>] /\ l1 = <<>> /\ db = [docs |-> {}, vecs |-> {}]
      /\ index = [x \in Sources |-> NotDone] /\ saved = index /\ processed = [x \in Files |-> -1]
      /\ kept = {} /\ gone = {} /\ spoiled = {} /\ latest = << >>
      /\ now = [x \in Sources |-> IF x \in Chats THEN Min(Lengths) ELSE CHOOSE t \in Texts : TRUE]
      /\ edit = [x \in Sources |-> 0] /\ changed = [p \in {"chats", "files"} |-> {}]
  BY DEF Init, InitScan
<1>2. Min(Lengths) \in Lengths /\ (CHOOSE t \in Texts : TRUE) \in Texts
  <2>1. \E n \in Lengths : \A m \in Lengths : n <= m
    BY SourcesAssumption, LeastOf
  <2>2. Min(Lengths) \in Lengths
    BY <2>1 DEF Min
  <2> QED BY <2>2, SourcesAssumption
<1>3. \A x \in Sources : now[x] \in Contents(x) /\ now[x] \in Lengths \cup Texts
  BY <1>1, <1>2 DEF Contents
<1>4. setup.edits \in Nat /\ setup.boots \in Nat
  BY <1>1, SetupsAssumption
<1>5. WorldOK
  <2>1. 0 \in 0..setup.edits
    BY <1>4
  <2>2. edit \in [Sources -> 0..setup.edits]
    BY <1>1, <2>1
  <2>3. now \in [Sources -> Lengths \cup Texts]
    BY <1>1, <1>3
  <2>4. changed \in [{"chats", "files"} -> SUBSET Sources] /\ spoiled \subseteq Sources
    BY <1>1
  <2> QED BY <1>1, <1>3, <2>2, <2>3, <2>4 DEF WorldOK
<1>6. md.files = <<>> /\ md.cache = <<>> /\ md = [files |-> md.files, cache |-> md.cache]
  BY <1>1
<1>7. IsDisk(<<>>) /\ DOMAIN <<>> = {} /\ <<>> \in [{} -> Words] /\ <<>> \in Seq(Memories)
  BY NoFiles, DiskIs
<1>8. StoreOK
  <2>1. db.docs = {} /\ db.vecs = {} /\ db = [docs |-> db.docs, vecs |-> db.vecs] /\ IsFiniteSet({})
    BY <1>1, FS_EmptySet
  <2>2. DOMAIN latest \subseteq Paths /\ latest \in [DOMAIN latest -> Words]
    BY <1>1, <1>7
  <2> HIDE DEF IsDisk
  <2>3. IsDisk(md.files) /\ IsDisk(md.cache) /\ DOMAIN md.cache \subseteq DOMAIN md.files
    BY <1>6, <1>7
  <2>4. l1 \in Seq(Memories) /\ kept \subseteq IDs /\ gone \subseteq IDs
    BY <1>1, <1>7
  <2> QED BY <1>6, <2>1, <2>2, <2>3, <2>4 DEF StoreOK
<1>9. IndexOK
  BY <1>1 DEF IndexOK
<1>10. ScanOK
  <2>1. \A p \in {"chats", "files"} : at[p].pc # "ask" /\ changed[p] \subseteq SourcesOf(at[p].kind) /\ at[p].kind = Off[p].kind
    BY <1>1, OffIs DEF Scanners
  <2>2. at["initial"].pc # "ask"
    BY <1>1, OffIs DEF Scanners
  <2>3. at \in [Scanners -> ScannerRecs]
    BY <1>1, OffIs
  <2>4. /\ boots \in 0..setup.boots /\ made \in Nat /\ hasDB \in BOOLEAN /\ proc \in {"down", "gateway", "init", "process"}
        /\ finder \in {"idle", "query", "vector", "few", "outer", "inner"}
    <3>1. boots \in 0..setup.boots /\ made \in Nat
      BY <1>1, <1>4
    <3>2. hasDB \in BOOLEAN /\ proc \in {"down", "gateway", "init", "process"}
      BY <1>1, Zenon
    <3>3. finder \in {"idle", "query", "vector", "few", "outer", "inner"}
      BY <1>1, Zenon
    <3> QED BY <3>1, <3>2, <3>3
  <2>5. proc = "down" /\ at = Off
    BY <1>1
  <2> HIDE DEF Off
  <2> QED BY <2>1, <2>2, <2>3, <2>4, <2>5 DEF ScanOK, ScannerRecs
<1>11. Homely(<<>>) /\ Placed(<<>>) = {}
  BY NoFiles
<1>12. DiskOK
  BY <1>1, <1>6, <1>11 DEF DiskOK
<1>13. Hands = {} /\ ItemsOf(l1) = {} /\ AllPlaced(md) = {}
  <2>1. \A p \in Scanners : ItemsOf(at[p].hand) = {}
    BY <1>1, OffIs, NoItems
  <2> QED BY <1>1, <1>6, <1>11, <2>1, NoItems DEF Hands, AllPlaced
<1>14. IdsOK
  BY <1>13 DEF IdsOK, ChatIds, ChatMemories, OneIds
<1>15. KeptOK
  BY <1>1 DEF KeptOK
<1> QED BY <1>5, <1>8, <1>9, <1>10, <1>12, <1>14, <1>15 DEF KeepInv, TypeOK

(* The scanners have finished, and the process may have.                   *)
LEMMA FinishKeeps ==
  ASSUME KeepInv, Finish
  PROVE  KeepInv'
<1> DEFINE p == "initial"
<1>1. WorldOK /\ StoreOK /\ IndexOK /\ ScanOK /\ DiskOK /\ IdsOK /\ KeptOK
  BY DEF KeepInv, TypeOK
<1>2. UNCHANGED <<setup, hasDB, boots, now, edit, changed, md, l1, db, index, processed, finder, made, kept, gone, spoiled, latest>>
  BY DEF Finish
<1>3. p \in Scanners /\ at[p].pc = "work" /\ at[p].hand = <<>> /\ proc # "down"
  <2>1. p \in Scanners /\ at[p].pc = "work" /\ at[p].hand = <<>>
    BY DEF Scanners, Finish, Worked
  <2> QED BY <1>1, <2>1, Running
<1>4. at[p] \in ScannerRecs /\ at \in [Scanners -> ScannerRecs]
  BY <1>1, <1>3, ScannerHas
<1>5. CASE proc' # "down"
  <2>1. proc' = proc /\ saved' = saved /\ \/ at' = [at EXCEPT ![p] = Scanner("walk", "chat", {})]
                                          \/ at' = [at EXCEPT ![p].pc = "off"]
    BY <1>5 DEF Finish
  <2>2. /\ at'[p] \in ScannerRecs /\ at'[p].hand = <<>> /\ at'[p].pc # "ask"
        /\ \A q \in Scanners \ {p} : at'[q] = at[q]
    <3>1. Scanner("walk", "chat", {}) \in ScannerRecs /\ Scanner("walk", "chat", {}).hand = <<>> /\ Scanner("walk", "chat", {}).pc = "walk"
      <4>1. {} \in SUBSET Snapshots
        OBVIOUS
      <4> QED BY <4>1, ScannerIs
    <3>2. CASE at' = [at EXCEPT ![p] = Scanner("walk", "chat", {})]
      <4> HIDE DEF ScannerRecs
      <4> QED BY <1>3, <1>4, <3>1, <3>2
    <3>3. CASE at' = [at EXCEPT ![p].pc = "off"]
      BY <1>3, <1>4, <3>3 DEF ScannerRecs
    <3> QED BY <2>1, <3>2, <3>3
  <2>3. at' \in [Scanners -> ScannerRecs]
    <3> HIDE DEF ScannerRecs
    <3> QED BY <1>3, <1>4, <2>1, <2>2
  <2>4. ScanOK'
    <3>1. made' \in Nat /\ finder' \in {"idle", "query", "vector", "few", "outer", "inner"}
          /\ \A q \in {"chats", "files"} : changed'[q] \subseteq SourcesOf(at[q].kind)
      BY <1>1, <1>2 DEF ScanOK
    <3> HIDE DEF ScannerRecs
    <3> QED BY <1>1, <1>2, <1>3, <2>1, <2>2, <2>3, <3>1, ScanMoves
  <2>5. DiskOK' /\ IdsOK' /\ KeptOK'
    <3>1. \A q \in Scanners : at'[q].hand = at[q].hand
      BY <1>3, <2>2
    <3> QED BY <1>1, <1>2, <1>3, <3>1, CalmStays
  <2>6. IndexOK' /\ WorldOK' /\ StoreOK'
    BY <1>1, <1>2, <2>1, WorldStays, StoreStays, IndexStays DEF WorldOK
  <2> QED BY <2>4, <2>5, <2>6 DEF KeepInv, TypeOK
<1>6. CASE proc' = "down"
  <2>1. at' = Off /\ saved' = index /\ proc # "gateway"
    BY <1>3, <1>6 DEF Finish
  <2>2. \A q \in Scanners : at'[q].hand = at[q].hand /\ Off[q].hand = <<>>
    <3>1. \A q \in {"chats", "files"} : at[q] = Off[q]
      BY <1>1, <2>1 DEF ScanOK
    <3> QED BY <1>3, <2>1, <3>1, OffIs DEF Scanners
  <2>3. DiskOK' /\ IdsOK' /\ KeptOK'
    BY <1>1, <1>2, <1>6, <2>2, CalmStays
  <2>4. IndexOK' /\ WorldOK' /\ StoreOK'
    <3>1. IndexOK'
      BY <1>1, <1>2, <2>1 DEF IndexOK
    <3> QED BY <1>1, <1>2, <3>1, WorldStays, StoreStays DEF WorldOK
  <2>5. ScanOK'
    <3>1. Off' = Off
      BY DEF Off, Scanner
    <3>2. \A q \in {"chats", "files"} : Off[q].pc # "ask" /\ changed'[q] \subseteq SourcesOf(Off[q].kind)'
      BY <1>1, <1>2, OffIs DEF ScanOK, Scanners, SourcesOf
    <3>3. Off["initial"].pc # "ask" /\ Off \in [Scanners -> ScannerRecs]
      BY OffIs DEF Scanners
    <3> HIDE DEF Off
    <3> QED BY <1>1, <1>2, <1>6, <2>1, <3>1, <3>2, <3>3 DEF ScanOK, ScannerRecs
  <2> QED BY <2>3, <2>4, <2>5 DEF KeepInv, TypeOK
<1> QED BY <1>5, <1>6

(* The orders in which the groups of a batch may be written.               *)
LEMMA OrdersHave ==
  ASSUME NEW S, IsFiniteSet(S), NEW order \in SetToAllKPermutations(S)
  PROVE  /\ order \in Seq(S) /\ \A i, j \in DOMAIN order : order[i] = order[j] => i = j
         /\ Len(order) = Cardinality(S) => \A x \in S : \E k \in DOMAIN order : order[k] = x
<1>1. PICK U \in SUBSET S : order \in SetToSeqs(U)
  BY DEF SetToAllKPermutations
<1> DEFINE n == Cardinality(U)
<1>2. IsFiniteSet(U) /\ n \in Nat
  BY FS_Subset, FS_CardinalityType
<1>3. order \in [1..n -> U] /\ \A i, j \in 1..n : i # j => order[i] # order[j]
  BY <1>1 DEF SetToSeqs
<1>4. order \in Seq(S) /\ Len(order) = n /\ DOMAIN order = 1..n
  <2> HIDE DEF n
  <2> QED BY <1>2, <1>3
<1>5. ASSUME n = Cardinality(S) PROVE U = S
  BY <1>5, FS_Subset
<1>6. ASSUME n = Cardinality(S) PROVE \A x \in S : \E k \in 1..n : order[k] = x
  <2>1. order \in Injection(1..n, U)
    <3> HIDE DEF n
    <3>1. order \in [1..n -> U] /\ \A i, j \in 1..n : order[i] = order[j] => i = j
      BY <1>3
    <3> QED BY <3>1 DEF Injection, IsInjective
  <2>2. Cardinality(1..n) = n
    BY <1>2, FS_Interval
  <2>3. order \in Surjection(1..n, U)
    <3> HIDE DEF n
    <3>1. n = Cardinality(U)
      BY DEF n
    <3> QED BY <1>2, <2>1, <2>2, <3>1, FS_Injection
  <2> QED BY <1>5, <1>6, <2>3 DEF Surjection
<1>7. \A i, j \in DOMAIN order : order[i] = order[j] => i = j
  BY <1>3, <1>4
<1> QED BY <1>4, <1>6, <1>7

LEMMA GroupsAre ==
  ASSUME NEW items \in Seq(Memories)
  PROVE  IsFiniteSet(Groups(items))
<1> DEFINE S == Groups(items)  n == Len(items)
           f == [k \in 1..n |-> GroupOf(items[k])]
<1>1. n \in Nat /\ DOMAIN items = 1..n
  OBVIOUS
<1>2. IsFiniteSet(1..n)
  BY <1>1, FS_Interval
<1>3. f \in [1..n -> S] /\ \A s \in S : \E x \in 1..n : f[x] = s
  BY <1>1 DEF Groups
<1> HIDE DEF f, S, n
<1>4. f \in Surjection(1..n, S)
  BY <1>3 DEF Surjection
<1>5. IsFiniteSet(S)
  BY <1>2, <1>4, FS_Surjection
<1> QED BY <1>5 DEF S

(* A batch of the invariant's state, whole or cut short.                   *)
LEMMA BatchWritten ==
  ASSUME StoreOK, ScanOK, DiskOK, NEW p \in Scanners, proc # "down", NEW order \in SetToAllKPermutations(Groups(at[p].hand)),
         NEW n, n = StoreInOrder(md, at[p].hand, order)
  PROVE  /\ Sound(n) /\ Keeps(md, n) /\ DOMAIN md.files \subseteq DOMAIN n.files
         /\ AllPlaced(n) \subseteq AllPlaced(md) \cup {<<Path(m), m>> : m \in ItemsOf(at[p].hand)}
         /\ Len(order) = Cardinality(Groups(at[p].hand)) =>
              \A m \in ItemsOf(at[p].hand) : IsChat(m) =>
                Path(m) \in DOMAIN n.files /\ Path(m)[1] \in ChatDirs /\ m.id \in IdsIn(n.files[Path(m)])
<1> DEFINE items == at[p].hand
           T == AllPlaced(md) \cup {<<Path(m), m>> : m \in ItemsOf(items)}
<1>1. items \in Seq(Memories) /\ Sound(md)
  BY ScannerHas, SoundNow
<1> HIDE DEF items
<1>2. order \in Seq(Groups(items))
      /\ (Len(order) = Cardinality(Groups(items)) => \A x \in Groups(items) : \E k \in DOMAIN order : order[k] = x)
  BY <1>1, GroupsAre, OrdersHave DEF items
<1>3. AllPlaced(md) \subseteq T /\ \A k \in DOMAIN items : <<Path(items[k]), items[k]>> \in T
  BY DEF ItemsOf
<1> HIDE DEF T
<1>4. Batched(md, n, items, order, T, Len(order))
  BY <1>1, <1>2, <1>3, StoreRuns DEF items
<1>5. ASSUME Len(order) = Cardinality(Groups(items)), NEW m \in ItemsOf(items), IsChat(m)
      PROVE  Path(m) \in DOMAIN n.files /\ Path(m)[1] \in ChatDirs /\ m.id \in IdsIn(n.files[Path(m)])
  <2>1. PICK i \in DOMAIN items : m = items[i]
    BY DEF ItemsOf
  <2>2. GroupOf(m) \in Groups(items) /\ m \in Memories
    BY <1>1, <2>1 DEF Groups
  <2>3. PICK j \in DOMAIN order : order[j] = GroupOf(m)
    BY <1>2, <1>5, <2>2
  <2> DEFINE group == Group(items, GroupOf(m))
  <2>4. j \in 1..Len(order)
    BY <1>2
  <2>5. Landed(n, group) /\ OneGroup(group)
    BY <1>1, <1>4, <2>2, <2>3, <2>4, GroupOne DEF Batched
  <2>6. PICK k \in DOMAIN group : group[k] = m
    BY <1>1, <2>1, <2>2, GroupHas
  <2> HIDE DEF group
  <2>7. Path(m) = Path(group[1]) /\ m.id \in IdsIn(group)
    BY <2>5, <2>6 DEF OneGroup, IdsIn
  <2>8. Path(m)[1] \in ChatDirs
    BY <1>5, <2>2, PathHome DEF Home
  <2> QED BY <2>5, <2>7, <2>8 DEF Landed
<1> QED BY <1>4, <1>5 DEF Batched, T, items

LEMMA KillKeeps ==
  ASSUME KeepInv, Kill
  PROVE  KeepInv' /\ \A y \in Placed(md'.files) : y \in AllPlaced(md) \/ \E m \in Hands : y = <<Path(m), m>>
<1>1. WorldOK /\ StoreOK /\ IndexOK /\ ScanOK /\ DiskOK /\ IdsOK /\ KeptOK
  BY DEF KeepInv, TypeOK
<1>2. UNCHANGED <<setup, hasDB, boots, now, edit, changed, l1, db, index, processed, made, kept>>
      /\ proc # "down" /\ proc' = "down" /\ at' = Off /\ finder' = "idle"
  BY DEF Kill
<1> DEFINE Torns(files) == {p \in DOMAIN md.files : md.files[p] # <<>> /\ files[p] = <<>>}
<1>3. PICK files \in {md.files} \cup (UNION {HalfWritten(p) : p \in Scanners}) \cup {Torn(p) : p \in BeingWritten} :
       /\ md' = [md EXCEPT !.files = files]
       /\ gone' = gone \cup (UNION {IdsIn(at[p].hand) : p \in Scanners})
                       \cup (UNION {IdsIn(md.files[p]) : p \in Torns(files)})
       /\ latest' = Restrict(latest, DOMAIN latest \ Torns(files))
       /\ spoiled' = spoiled \cup {x \in Files : \E p \in Scanners : Holds(p, x)}
                             \cup {x \in Files : Torns(files) \cap FilesOf(x) # {}}
  BY DEF Kill
<1> DEFINE torn == Torns(files)
<1>4. md \in Stores /\ md.files \in Disks /\ md.cache \in Disks /\ DOMAIN md.cache \subseteq DOMAIN md.files
      /\ md = [files |-> md.files, cache |-> md.cache]
  BY <1>1, StoresAre, StoreHas DEF StoreOK
<1>5. md'.files = files /\ md'.cache = md.cache /\ md' = [files |-> md'.files, cache |-> md'.cache]
  BY <1>3, <1>4
<1> DEFINE Good == /\ files \in Disks /\ DOMAIN md.files \subseteq DOMAIN files /\ Homely(files)
                   /\ \A y \in Placed(files) : y \in AllPlaced(md) \/ \E m \in Hands : y = <<Path(m), m>>
                   /\ \A path \in DOMAIN md.files : path[1] \in ChatDirs =>
                        path \in torn \/ IdsIn(md.files[path]) \subseteq IdsIn(files[path])
<1>6. \A y : y \in AllPlaced(md) \/ (\E m \in Hands : y = <<Path(m), m>>) => (IsChat(y[2]) => y[2].id \in ChatIds)
  BY DEF ChatIds, ChatMemories
<1>7. ASSUME files = md.files PROVE Good
  BY <1>1, <1>4, <1>7 DEF DiskOK, AllPlaced
<1>8. ASSUME NEW p \in Scanners, files \in HalfWritten(p) PROVE Good
  <2>1. PICK order \in SetToAllKPermutations(Groups(at[p].hand)) : files = StoreInOrder(md, at[p].hand, order).files
    BY <1>8 DEF HalfWritten
  <2> DEFINE n == StoreInOrder(md, at[p].hand, order)
  <2>2. /\ Sound(n) /\ Keeps(md, n) /\ DOMAIN md.files \subseteq DOMAIN n.files
        /\ AllPlaced(n) \subseteq AllPlaced(md) \cup {<<Path(m), m>> : m \in ItemsOf(at[p].hand)}
    BY <1>1, <1>2, BatchWritten
  <2>3. files = n.files
    BY <2>1
  <2> HIDE DEF n
  <2>4. n.files \in Disks /\ Homely(n.files)
    BY <2>2, StoreHas DEF Sound
  <2>5. ASSUME NEW y \in Placed(files) PROVE y \in AllPlaced(md) \/ \E m \in Hands : y = <<Path(m), m>>
    <3>1. y \in AllPlaced(md) \/ \E m \in ItemsOf(at[p].hand) : y = <<Path(m), m>>
      BY <2>2, <2>3 DEF AllPlaced
    <3>2. \A m \in ItemsOf(at[p].hand) : m \in Hands
      BY DEF Hands
    <3> QED BY <3>1, <3>2
  <2>6. DOMAIN md.files \subseteq DOMAIN files
    BY <2>2, <2>3
  <2> QED BY <2>2, <2>3, <2>4, <2>5, <2>6 DEF Keeps
<1>9. ASSUME NEW path \in BeingWritten, files = Torn(path) PROVE Good
  <2>1. path \in DOMAIN md.files /\ files = [md.files EXCEPT ![path] = <<>>]
    BY <1>9 DEF BeingWritten, Torn
  <2>2. /\ DOMAIN files = DOMAIN md.files /\ files[path] = <<>>
        /\ \A q \in DOMAIN md.files : q # path => files[q] = md.files[q]
    BY <2>1
  <2>3. IsDisk(md.files)
    BY <1>4, DiskIs
  <2>4. files \in [DOMAIN files -> Seq(Memories)]
    <3>1. <<>> \in Seq(Memories)
      OBVIOUS
    <3> QED BY <2>1, <2>2, <2>3, <3>1 DEF IsDisk
  <2>5. IsDisk(files)
    BY <2>2, <2>3, <2>4 DEF IsDisk
  <2>6. Homely(files)
    BY <1>1, <2>2 DEF DiskOK, Homely
  <2>7. ASSUME NEW y \in Placed(files) PROVE y \in AllPlaced(md)
    <3>1. y = <<y[1], y[2]>> /\ y[1] \in DOMAIN files /\ \E k \in DOMAIN files[y[1]] : y[2] = files[y[1]][k]
      BY <2>5, DiskIs, PlacedIs
    <3>2. y[1] # path /\ files[y[1]] = md.files[y[1]]
      BY <2>2, <3>1
    <3>3. y \in Placed(md.files)
      BY <1>4, <2>2, <3>1, <3>2, PlacedIs
    <3> QED BY <3>3 DEF AllPlaced
  <2>8. \A q \in DOMAIN md.files : q \in torn \/ IdsIn(md.files[q]) \subseteq IdsIn(files[q])
    <3> SUFFICES ASSUME NEW q \in DOMAIN md.files, q \notin torn PROVE IdsIn(md.files[q]) \subseteq IdsIn(files[q])
      OBVIOUS
    <3>1. files[q] = md.files[q] \/ md.files[q] = <<>>
      BY <2>2
    <3> QED BY <3>1, NoItems
  <2> QED BY <2>2, <2>5, <2>6, <2>7, <2>8, DiskIs
<1>10. Good
  <2>1. \/ files = md.files \/ (\E p \in Scanners : files \in HalfWritten(p)) \/ (\E path \in BeingWritten : files = Torn(path))
    BY <1>3, Zenon
  <2> HIDE DEF Good
  <2> QED BY <1>7, <1>8, <1>9, <2>1
<1> HIDE DEF Torns
<1>11. StoreOK'
  <2>1. md' \in Stores
    BY <1>4, <1>5, <1>10 DEF Stores
  <2>2. gone' \subseteq IDs
    <3>1. \A p \in Scanners : IdsIn(at[p].hand) \subseteq IDs
      BY <1>1, ScannerHas, IdsAre
    <3>2. \A p \in DOMAIN md.files : IdsIn(md.files[p]) \subseteq IDs
      BY <1>4, PlacedIs, IdsAre
    <3>3. torn \subseteq DOMAIN md.files
      BY DEF Torns
    <3> QED BY <1>1, <1>3, <3>1, <3>2, <3>3 DEF StoreOK
  <2>3. DOMAIN latest' \subseteq Paths /\ latest' \in [DOMAIN latest' -> Words]
    BY <1>1, <1>3 DEF StoreOK, Restrict
  <2> HIDE DEF IsDisk
  <2>4. md' = [files |-> md'.files, cache |-> md'.cache] /\ IsDisk(md'.files) /\ IsDisk(md'.cache) /\ DOMAIN md'.cache \subseteq DOMAIN md'.files
    BY <2>1, StoresAre
  <2>5. IsDisk(md.files)' /\ IsDisk(md.cache)'
    BY <2>4 DEF IsDisk
  <2> QED BY <1>1, <1>2, <2>2, <2>3, <2>4, <2>5 DEF StoreOK
<1>12. WorldOK'
  <2>1. Files \subseteq Sources
    BY DEF Sources
  <2> QED BY <1>1, <1>2, <1>3, <2>1 DEF WorldOK
<1>13. IndexOK'
  <2>1. \A kind : TornIndex(kind) \in [Sources -> Lengths \cup Texts \cup {NotDone}]
    BY <1>1 DEF IndexOK, TornIndex
  <2>2. saved' \in [Sources -> Lengths \cup Texts \cup {NotDone}]
    BY <1>1, <2>1 DEF IndexOK, Kill
  <2> QED BY <1>1, <1>2, <2>2 DEF IndexOK
<1>14. ScanOK'
  <2>1. Off' = Off
    BY DEF Off, Scanner
  <2>2. \A q \in {"chats", "files"} : Off[q].pc # "ask" /\ changed'[q] \subseteq SourcesOf(Off[q].kind)'
    BY <1>1, <1>2, OffIs DEF ScanOK, Scanners, SourcesOf
  <2>3. Off["initial"].pc # "ask" /\ Off \in [Scanners -> ScannerRecs]
    BY OffIs DEF Scanners
  <2> HIDE DEF Off
  <2> QED BY <1>1, <1>2, <2>1, <2>2, <2>3 DEF ScanOK, ScannerRecs
<1>15. DiskOK'
  BY <1>1, <1>2, <1>5, <1>10 DEF DiskOK
<1>16. Hands' = {}
  <2>1. \A p \in Scanners : ItemsOf(at'[p].hand) = {}
    BY <1>2, OffIs, NoItems
  <2> QED BY <2>1 DEF Hands
<1>17. IdsOK'
  <2>1. \A y \in AllPlaced(md') : IsChat(y[2]) => y[2].id \in ChatIds
    <3>1. \A y \in AllPlaced(md') : y \in AllPlaced(md) \/ \E m \in Hands : y = <<Path(m), m>>
      BY <1>5, <1>10 DEF AllPlaced
    <3> QED BY <1>6, <3>1
  <2>2. \A m \in ItemsOf(l1') : m \in ItemsOf(l1)
    BY <1>2
  <2> QED BY <1>1, <1>2, <1>16, <2>1, <2>2, FewerIds
<1>18. KeptOK'
  <2> SUFFICES ASSUME NEW id \in kept \ gone' PROVE Safe(id)'
    BY <1>2 DEF KeptOK
  <2>1. id \notin gone /\ Safe(id)
    BY <1>1, <1>3 DEF KeptOK
  <2>2. \A p \in Scanners : \A m \in ItemsOf(at[p].hand) : m.id # id
    <3> SUFFICES ASSUME NEW p \in Scanners, NEW m \in ItemsOf(at[p].hand), m.id = id PROVE FALSE
      OBVIOUS
    <3>1. id \in IdsIn(at[p].hand)
      BY DEF ItemsOf, IdsIn
    <3> QED BY <1>3, <3>1
  <2>3. PICK path \in DOMAIN md.files : path[1] \in ChatDirs /\ id \in IdsIn(md.files[path])
    BY <2>1, <2>2 DEF Safe
  <2>4. path \notin torn
    BY <1>3, <2>3
  <2>5. path \in DOMAIN files /\ id \in IdsIn(files[path])
    BY <1>10, <2>3, <2>4
  <2> QED BY <1>5, <2>3, <2>5 DEF Safe
<1>19. \A y \in Placed(md'.files) : y \in AllPlaced(md) \/ \E m \in Hands : y = <<Path(m), m>>
  BY <1>5, <1>10
<1> QED BY <1>11, <1>12, <1>13, <1>14, <1>15, <1>17, <1>18, <1>19 DEF KeepInv, TypeOK

(* What is known of a knowledge file is deleted.                           *)
LEMMA WithoutDisk ==
  ASSUME NEW fs \in Disks, NEW paths
  PROVE  /\ Without(fs, paths) \in Disks /\ DOMAIN Without(fs, paths) = DOMAIN fs \ paths
         /\ \A q \in DOMAIN fs \ paths : Without(fs, paths)[q] = fs[q]
         /\ \A y \in Placed(Without(fs, paths)) : y \in Placed(fs) /\ y[1] \notin paths
<1> DEFINE gs == Without(fs, paths)
<1>1. DOMAIN fs \subseteq Paths /\ IsFiniteSet(DOMAIN fs) /\ fs \in [DOMAIN fs -> Seq(Memories)]
  BY DiskIs DEF IsDisk
<1>2. DOMAIN gs = DOMAIN fs \ paths /\ \A q \in DOMAIN fs \ paths : gs[q] = fs[q]
  BY DEF Without, Restrict
<1>3. IsFiniteSet(DOMAIN fs \ paths)
  BY <1>1, FS_Subset
<1>4. gs \in [DOMAIN gs -> Seq(Memories)]
  BY <1>1 DEF Without, Restrict
<1>5. gs \in Disks
  <2>1. IsDisk(gs)
    <3> HIDE DEF gs
    <3> QED BY <1>1, <1>2, <1>3, <1>4 DEF IsDisk
  <2> QED BY <2>1, DiskIs
<1> HIDE DEF gs
<1>6. ASSUME NEW y \in Placed(gs) PROVE y \in Placed(fs) /\ y[1] \notin paths
  <2>1. y = <<y[1], y[2]>> /\ y[1] \in DOMAIN gs /\ \E k \in DOMAIN gs[y[1]] : y[2] = gs[y[1]][k]
    BY <1>5, <1>6, PlacedIs
  <2>2. y[1] \in DOMAIN fs \ paths /\ gs[y[1]] = fs[y[1]]
    BY <1>2, <2>1
  <2> QED BY <2>1, <2>2, PlacedIs
<1> QED BY <1>2, <1>5, <1>6 DEF gs

LEMMA FileDeleted ==
  ASSUME NEW m, Sound(m), NEW f \in Files
  PROVE  /\ Sound(DeleteFile(m, f)) /\ Keeps(m, DeleteFile(m, f))
         /\ \A y \in AllPlaced(DeleteFile(m, f)) : y \in AllPlaced(m) /\ y[1] \notin FilesOf(f)
<1> DEFINE paths == FilesOf(f) \cap DOMAIN m.files
           files == Without(m.files, paths)  cache == Without(m.cache, paths)
           n == [files |-> files, cache |-> cache]
<1>1. DeleteFile(m, f) = n
  BY DEF DeleteFile
<1>2. m.files \in Disks /\ m.cache \in Disks /\ DOMAIN m.cache \subseteq DOMAIN m.files /\ Homely(m.files) /\ Homely(m.cache) /\ Ahead(m)
  BY StoreHas DEF Sound
<1>3. /\ files \in Disks /\ DOMAIN files = DOMAIN m.files \ paths /\ \A q \in DOMAIN m.files \ paths : files[q] = m.files[q]
      /\ \A y \in Placed(files) : y \in Placed(m.files) /\ y[1] \notin paths
  <2> DEFINE fs == m.files
  <2>1. fs \in Disks
    BY <1>2
  <2> HIDE DEF paths, fs
  <2>2. /\ Without(fs, paths) \in Disks /\ DOMAIN Without(fs, paths) = DOMAIN fs \ paths
        /\ \A q \in DOMAIN fs \ paths : Without(fs, paths)[q] = fs[q]
        /\ \A y \in Placed(Without(fs, paths)) : y \in Placed(fs) /\ y[1] \notin paths
    BY <2>1, WithoutDisk
  <2> QED BY <2>2 DEF fs
<1>4. /\ cache \in Disks /\ DOMAIN cache = DOMAIN m.cache \ paths /\ \A q \in DOMAIN m.cache \ paths : cache[q] = m.cache[q]
      /\ \A y \in Placed(cache) : y \in Placed(m.cache) /\ y[1] \notin paths
  <2> DEFINE fs == m.cache
  <2>1. fs \in Disks
    BY <1>2
  <2> HIDE DEF paths, fs
  <2>2. /\ Without(fs, paths) \in Disks /\ DOMAIN Without(fs, paths) = DOMAIN fs \ paths
        /\ \A q \in DOMAIN fs \ paths : Without(fs, paths)[q] = fs[q]
        /\ \A y \in Placed(Without(fs, paths)) : y \in Placed(fs) /\ y[1] \notin paths
    BY <2>1, WithoutDisk
  <2> QED BY <2>2 DEF fs
<1>5. \A q \in paths : q[1] \notin ChatDirs
  BY DEF FilesOf, ChatDirs
<1>6. \A y \in Placed(m.files) \cup Placed(m.cache) : y[1] \in DOMAIN m.files
  BY <1>2, PlacedIs
<1> HIDE DEF files, cache
<1>7. n.files = files /\ n.cache = cache /\ n \in Stores
  BY <1>2, <1>3, <1>4 DEF Stores
<1>8. \A y \in AllPlaced(n) : y \in AllPlaced(m) /\ y[1] \notin FilesOf(f)
  <2>1. \A y \in AllPlaced(n) : y \in AllPlaced(m) /\ y[1] \notin paths
    <3> HIDE DEF paths, n
    <3> QED BY <1>3, <1>4, <1>7 DEF AllPlaced
  <2> HIDE DEF n
  <2> QED BY <1>6, <2>1 DEF AllPlaced
<1> HIDE DEF n, paths
<1>9. Homely(n.files) /\ Homely(n.cache)
  BY <1>2, <1>3, <1>4, <1>7 DEF Homely
<1>10. Ahead(n) /\ Keeps(m, n)
  BY <1>2, <1>3, <1>4, <1>5, <1>7 DEF Ahead, Keeps
<1> QED BY <1>1, <1>7, <1>8, <1>9, <1>10 DEF Sound

LEMMA CheckKeeps ==
  ASSUME KeepInv, NEW p \in Scanners, Check(p)
  PROVE  KeepInv'
<1> DEFINE x == Head(at[p].todo)
           due == Due(x)
           busy == IF due THEN at[p].busy \cup {x} ELSE at[p].busy
<1>1. WorldOK /\ StoreOK /\ IndexOK /\ ScanOK /\ DiskOK /\ IdsOK /\ KeptOK
  BY DEF KeepInv, TypeOK
<1>2. UNCHANGED <<setup, proc, hasDB, boots, now, edit, changed, l1, db, saved, processed, finder, made, kept, gone, latest>>
  BY DEF Check
<1>3. at[p] \in ScannerRecs /\ at \in [Scanners -> ScannerRecs] /\ at[p].pc = "work" /\ at[p].todo # <<>>
      /\ at[p].todo \in Seq(Snapshots) /\ at[p].busy \subseteq Snapshots
  BY <1>1, ScannerHas DEF Check
<1>4. /\ at' = [at EXCEPT ![p].todo = Tail(at[p].todo), ![p].busy = busy]
      /\ md' = IF due /\ x.src \in Files THEN DeleteFile(md, x.src) ELSE md
      /\ index' = IF due /\ x.src \in Files THEN [index EXCEPT ![x.src] = NotDone] ELSE index
      /\ spoiled' \in {spoiled, spoiled \cup {x.src}, spoiled \ {x.src}}
  BY <1>3 DEF Check
<1>5. x \in Snapshots /\ Tail(at[p].todo) \in Seq(Snapshots) /\ busy \in SUBSET Snapshots
  <2>1. x \in Snapshots /\ Tail(at[p].todo) \in Seq(Snapshots)
    BY <1>3
  <2> QED BY <1>3, <2>1
<1>6. x.src \in Sources
  <2> HIDE DEF x
  <2> QED BY <1>5 DEF Snapshots
<1> HIDE DEF x, due, busy
<1> DEFINE todo == Tail(at[p].todo)
<1>7. /\ at'[p] \in ScannerRecs /\ at'[p].hand = at[p].hand /\ at'[p].kind = at[p].kind /\ at'[p].pc = "work"
      /\ \A q \in Scanners \ {p} : at'[q] = at[q]
  <2>1. todo \in Seq(Snapshots) /\ at' = [at EXCEPT ![p].todo = todo, ![p].busy = busy]
    BY <1>4, <1>5
  <2> HIDE DEF todo
  <2> QED BY <1>3, <1>5, <2>1 DEF ScannerRecs
<1>8. at' \in [Scanners -> ScannerRecs]
  <2> HIDE DEF ScannerRecs
  <2> QED BY <1>3, <1>4, <1>7
<1>9. proc # "down" /\ (p # "initial" => proc = "gateway")
  BY <1>1, <1>3, Running
<1>10. ScanOK'
  <2>1. at'[p].pc # "ask" /\ made' \in Nat /\ finder' \in {"idle", "query", "vector", "few", "outer", "inner"}
        /\ \A q \in {"chats", "files"} : changed'[q] \subseteq SourcesOf(at[q].kind)
    BY <1>1, <1>2, <1>7 DEF ScanOK
  <2> HIDE DEF ScannerRecs
  <2> QED BY <1>1, <1>2, <1>7, <1>8, <1>9, <2>1, ScanMoves
<1>11. WorldOK'
  <2>1. spoiled' \subseteq Sources
    BY <1>1, <1>4, <1>6 DEF WorldOK
  <2> QED BY <1>1, <1>2, <2>1, WorldStays DEF WorldOK
<1>12. IndexOK'
  BY <1>1, <1>2, <1>4 DEF IndexOK
<1>13. Sound(md)
  BY <1>1, <1>9, SoundNow
<1>14. Sound(md') /\ Keeps(md, md') /\ AllPlaced(md') \subseteq AllPlaced(md)
  <2>1. CASE md' = md
    BY <1>13, <2>1 DEF Keeps
  <2>2. CASE x.src \in Files /\ md' = DeleteFile(md, x.src)
    BY <1>13, <2>2, FileDeleted
  <2> QED BY <1>4, <2>1, <2>2
<1>15. StoreOK'
  <2>1. md' = [files |-> md'.files, cache |-> md'.cache] /\ IsDisk(md'.files) /\ IsDisk(md'.cache) /\ DOMAIN md'.cache \subseteq DOMAIN md'.files
    BY <1>14, StoresAre DEF Sound
  <2>2. IsDisk(md.files)' /\ IsDisk(md.cache)'
    BY <2>1 DEF IsDisk
  <2> HIDE DEF IsDisk
  <2> QED BY <1>1, <1>2, <2>1, <2>2 DEF StoreOK
<1>16. DiskOK'
  BY <1>14 DEF DiskOK, Sound
<1>17. \A q \in Scanners : at'[q].hand = at[q].hand
  BY <1>7
<1>18. IdsOK'
  <2>1. Hands' = Hands
    BY <1>17 DEF Hands
  <2>2. \A y \in AllPlaced(md') : IsChat(y[2]) => y[2].id \in ChatIds
    BY <1>14 DEF ChatIds, ChatMemories
  <2>3. \A m \in ItemsOf(l1') : m \in ItemsOf(l1)
    BY <1>2
  <2> QED BY <1>1, <1>2, <2>1, <2>2, <2>3, FewerIds
<1>19. KeptOK'
  <2>1. kept' \ gone' \subseteq kept \ gone
    BY <1>2
  <2> QED BY <1>1, <1>14, <1>17, <2>1, SafeMoves
<1> QED BY <1>10, <1>11, <1>12, <1>15, <1>16, <1>18, <1>19 DEF KeepInv, TypeOK

(* What is extracted gets IDs no memory has had.                           *)
LEMMA JoinItems ==
  ASSUME NEW T, NEW a \in Seq(T), NEW b \in Seq(T)
  PROVE  a \o b \in Seq(T) /\ ItemsOf(a \o b) = ItemsOf(a) \cup ItemsOf(b)
<1>1. /\ a \o b \in Seq(T)
      /\ \A i \in DOMAIN a : i \in DOMAIN (a \o b) /\ (a \o b)[i] = a[i]
      /\ \A i \in DOMAIN b : Len(a) + i \in DOMAIN (a \o b) /\ (a \o b)[Len(a) + i] = b[i]
      /\ \A i \in DOMAIN (a \o b) : \/ i \in DOMAIN a /\ (a \o b)[i] = a[i]
                                    \/ i - Len(a) \in DOMAIN b /\ (a \o b)[i] = b[i - Len(a)]
  OBVIOUS
<1>2. ItemsOf(a) \cup ItemsOf(b) \subseteq ItemsOf(a \o b)
  <2>1. /\ \A i \in DOMAIN a : \E j \in DOMAIN (a \o b) : (a \o b)[j] = a[i]
        /\ \A i \in DOMAIN b : \E j \in DOMAIN (a \o b) : (a \o b)[j] = b[i]
    BY <1>1
  <2> DEFINE c == a \o b
  <2> HIDE DEF c
  <2>2. (\A i \in DOMAIN a : \E j \in DOMAIN c : c[j] = a[i]) /\ \A i \in DOMAIN b : \E j \in DOMAIN c : c[j] = b[i]
    BY <2>1 DEF c
  <2>3. ItemsOf(a) \subseteq ItemsOf(c) /\ ItemsOf(b) \subseteq ItemsOf(c)
    BY <2>2 DEF ItemsOf
  <2> QED BY <2>3 DEF c
<1>3. ItemsOf(a \o b) \subseteq ItemsOf(a) \cup ItemsOf(b)
  BY <1>1 DEF ItemsOf
<1> QED BY <1>1, <1>2, <1>3

LEMMA FreshIds ==
  ASSUME NEW n \in Nat, NEW k \in Nat, NEW src \in Sources
  PROVE  <<n + 1, k, src>> \in MadeIds(n + 1) /\ <<n + 1, k, src>> \notin MadeIds(n) /\ <<n + 1, k, src>> \notin RereadIds
<1> DEFINE id == <<n + 1, k, src>>
<1>1. id \in Nat \X Nat \X Sources /\ id[1] = n + 1
  OBVIOUS
<1>2. id \in MadeIds(n + 1) /\ id \notin MadeIds(n)
  <2> HIDE DEF id
  <2> QED BY <1>1 DEF MadeIds
<1>3. id \notin RereadIds
  <2>1. DOMAIN id = 1..3
    OBVIOUS
  <2>2. \A y \in RereadIds : DOMAIN y = 1..4
    BY DEF RereadIds
  <2>3. 4 \in 1..4 /\ 4 \notin 1..3
    OBVIOUS
  <2> HIDE DEF id
  <2> QED BY <2>1, <2>2, <2>3
<1> QED BY <1>2, <1>3

LEMMA MoreIds ==
  ASSUME NEW n \in Nat
  PROVE  MadeIds(n) \subseteq MadeIds(n + 1)
BY DEF MadeIds

(* A goroutine ends: its source is marked and what it made is in hand.     *)
Given(p, x, new) ==
  /\ at' = [at EXCEPT ![p].busy = @ \ {x}, ![p].hand = @ \o new]
  /\ kept' = kept \cup {new[k].id : k \in {k \in DOMAIN new :
                 ~new[k].file /\ new[k].layer = 2 /\ (p = "initial" => Accepted(new[k], hasDB))}}
  /\ index' = IF proc = "process" THEN index ELSE Marked(x)
  /\ saved' = IF proc = "process" THEN saved ELSE SavedWith(x)

LEMMA Extracting ==
  ASSUME WorldOK, ScanOK, NEW p \in Scanners, Extract(p)
  PROVE  \E x \in at[p].busy : \E new \in Seq(Memories) :
           /\ Given(p, x, new) /\ x \in Snapshots /\ x.src \in Sources /\ x.content \in Lengths \cup Texts
           /\ AreFrom(new, made + 1, x.src, x.content)
<1>1. PICK x \in at[p].busy : \E items \in Extracts(x) : Given(p, x, Numbered(items, made + 1, x.src))
  BY DEF Extract, Numbered, Given
<1>2. PICK items \in Extracts(x) : Given(p, x, Numbered(items, made + 1, x.src))
  BY <1>1
<1> DEFINE n == made + 1  src == x.src  text == x.content  new == Numbered(items, n, src)
<1>3. x \in Snapshots
  BY ScannerHas
<1>4. src \in Sources /\ text \in Lengths \cup Texts
  BY <1>3 DEF Snapshots
<1>5. items \in Seq(Drafts(src, text, MakerOf(src))) /\ n \in Nat
  BY <1>3, Extracted DEF WorldOK, ScanOK
<1>6. Given(p, x, new)
  BY <1>2
<1> HIDE DEF n, src, text, new
<1>7. Numbered(items, n, src) \in Seq(Memories) /\ AreFrom(Numbered(items, n, src), n, src, text)
  BY <1>4, <1>5, NumberedHave
<1>8. new \in Seq(Memories) /\ AreFrom(new, n, src, text)
  BY <1>7 DEF new
<1> QED BY <1>3, <1>4, <1>6, <1>8 DEF n, src, text

LEMMA ExtractKeeps ==
  ASSUME KeepInv, NEW p \in Scanners, Extract(p)
  PROVE  KeepInv'
<1>1. WorldOK /\ StoreOK /\ IndexOK /\ ScanOK /\ DiskOK /\ IdsOK /\ KeptOK
  BY DEF KeepInv, TypeOK
<1>2. UNCHANGED <<setup, proc, hasDB, boots, now, edit, changed, md, l1, db, processed, finder, gone, spoiled>>
      /\ latest' = latest /\ made' = made + 1 /\ made \in Nat
  BY <1>1 DEF Extract, ScanOK
<1>3. PICK x \in at[p].busy : \E new \in Seq(Memories) :
           /\ Given(p, x, new) /\ x \in Snapshots /\ x.src \in Sources /\ x.content \in Lengths \cup Texts
           /\ AreFrom(new, made + 1, x.src, x.content)
  BY <1>1, Extracting
<1>4. PICK new \in Seq(Memories) :
           /\ Given(p, x, new) /\ x \in Snapshots /\ x.src \in Sources /\ x.content \in Lengths \cup Texts
           /\ \A k \in DOMAIN new : new[k].id = <<made + 1, k, x.src>> /\ k \in Nat
  BY <1>3 DEF AreFrom
<1> DEFINE hand == at[p].hand
<1>5. at[p] \in ScannerRecs /\ at \in [Scanners -> ScannerRecs] /\ at[p].pc = "work"
      /\ hand \in Seq(Memories) /\ at[p].busy \subseteq Snapshots
  BY <1>1, ScannerHas DEF Extract
<1>6. /\ at' = [at EXCEPT ![p].busy = @ \ {x}, ![p].hand = @ \o new]
      /\ kept' = kept \cup {new[k].id : k \in {k \in DOMAIN new :
                     ~new[k].file /\ new[k].layer = 2 /\ (p = "initial" => Accepted(new[k], hasDB))}}
      /\ index' = IF proc = "process" THEN index ELSE Marked(x)
      /\ saved' = IF proc = "process" THEN saved ELSE SavedWith(x)
  BY <1>4 DEF Given
<1>7. x.src \in Sources /\ x.content \in Lengths \cup Texts /\ new \in Seq(Memories)
      /\ \A k \in DOMAIN new : new[k].id = <<made + 1, k, x.src>> /\ k \in Nat
  BY <1>4
<1> HIDE DEF hand
<1>8. hand \o new \in Seq(Memories) /\ ItemsOf(hand \o new) = ItemsOf(hand) \cup ItemsOf(new)
  BY <1>5, <1>7, JoinItems
<1> DEFINE both == hand \o new  busy == at[p].busy \ {x}
<1>9. /\ at'[p] \in ScannerRecs /\ at'[p].hand = hand \o new /\ at'[p].kind = at[p].kind /\ at'[p].pc = "work"
      /\ \A q \in Scanners \ {p} : at'[q] = at[q]
  <2>1. both \in Seq(Memories) /\ busy \in SUBSET Snapshots /\ at' = [at EXCEPT ![p].busy = busy, ![p].hand = both]
    BY <1>5, <1>6, <1>8 DEF hand
  <2> HIDE DEF both, busy
  <2>2. /\ at'[p] \in ScannerRecs /\ at'[p].hand = both /\ at'[p].kind = at[p].kind /\ at'[p].pc = "work"
        /\ \A q \in Scanners \ {p} : at'[q] = at[q]
    BY <1>5, <2>1 DEF ScannerRecs
  <2> QED BY <2>2 DEF both
<1>10. at' \in [Scanners -> ScannerRecs]
  <2> HIDE DEF ScannerRecs, both
  <2> QED BY <1>5, <1>6, <1>9
<1>11. proc # "down" /\ (p # "initial" => proc = "gateway")
  BY <1>1, <1>5, Running
<1>12. ScanOK'
  <2>1. at'[p].pc # "ask" /\ made' \in Nat /\ finder' \in {"idle", "query", "vector", "few", "outer", "inner"}
        /\ \A q \in {"chats", "files"} : changed'[q] \subseteq SourcesOf(at[q].kind)
    BY <1>1, <1>2, <1>9 DEF ScanOK
  <2> HIDE DEF ScannerRecs, both
  <2> QED BY <1>1, <1>2, <1>9, <1>10, <1>11, <2>1, ScanMoves
<1>13. WorldOK'
  BY <1>1, <1>2, WorldStays DEF WorldOK
<1>14. IndexOK'
  <2> DEFINE C == Lengths \cup Texts \cup {NotDone}
  <2>1. Marked(x) \in [Sources -> C]
    BY <1>1, <1>7 DEF IndexOK, Marked
  <2>2. SavedWith(x) \in [Sources -> C]
    BY <1>1, <2>1 DEF IndexOK, SavedWith
  <2> QED BY <1>1, <1>2, <1>6, <2>1, <2>2 DEF IndexOK
<1>15. kept' \subseteq IDs
  <2>1. \A k \in DOMAIN new : new[k].id \in IDs
    BY <1>7, MemoryHas
  <2> QED BY <1>1, <1>6, <2>1 DEF StoreOK
<1>16. StoreOK'
  BY <1>1, <1>2, <1>15 DEF StoreOK, IsDisk
<1>17. DiskOK'
  BY <1>1, <1>2 DEF DiskOK, Ahead
<1>18. Hands' = Hands \cup ItemsOf(new)
  <2>1. ItemsOf(at'[p].hand) = ItemsOf(at[p].hand) \cup ItemsOf(new) /\ \A q \in Scanners \ {p} : ItemsOf(at'[q].hand) = ItemsOf(at[q].hand)
    BY <1>8, <1>9 DEF hand
  <2> QED BY <2>1 DEF Hands
<1>19. \A m \in ItemsOf(new) : \E k \in DOMAIN new : m = new[k]
  BY DEF ItemsOf
<1>20. \A m \in ItemsOf(new) : m.id \in MadeIds(made + 1) /\ m.id \notin MadeIds(made) /\ m.id \notin RereadIds
  <2>1. \A k \in DOMAIN new : new[k].id \in MadeIds(made + 1) /\ new[k].id \notin MadeIds(made) /\ new[k].id \notin RereadIds
    <3> SUFFICES ASSUME NEW k \in DOMAIN new
                 PROVE  new[k].id \in MadeIds(made + 1) /\ new[k].id \notin MadeIds(made) /\ new[k].id \notin RereadIds
      OBVIOUS
    <3> DEFINE src == x.src
    <3>1. new[k].id = <<made + 1, k, src>> /\ k \in Nat /\ src \in Sources
      BY <1>7
    <3> HIDE DEF src
    <3>2. /\ <<made + 1, k, src>> \in MadeIds(made + 1) /\ <<made + 1, k, src>> \notin MadeIds(made)
          /\ <<made + 1, k, src>> \notin RereadIds
      BY <1>2, <3>1, FreshIds
    <3> QED BY <3>1, <3>2
  <2> QED BY <1>19, <2>1
<1>21. \A m, n \in ItemsOf(new) : m.id = n.id => m = n
  <2>1. \A j, k \in DOMAIN new : new[j].id = new[k].id => j = k
    BY <1>7
  <2> QED BY <1>19, <2>1
<1> HIDE DEF both
<1>22. ChatMemories' = ChatMemories \cup {m \in ItemsOf(new) : IsChat(m)}
  BY <1>2, <1>18 DEF ChatMemories
<1>23. OneIds' = OneIds \cup {m.id : m \in {m \in ItemsOf(new) : m.layer = 1}}
  BY <1>2, <1>18 DEF OneIds
<1>24. ChatIds' = ChatIds \cup {m.id : m \in {m \in ItemsOf(new) : IsChat(m)}}
  BY <1>22 DEF ChatIds
<1>25. MadeIds(made) \subseteq MadeIds(made + 1)
  BY <1>2, MoreIds
<1>26. IdsOK'
  <2>1. ChatIds' \subseteq MadeIds(made')
    BY <1>1, <1>2, <1>20, <1>24, <1>25 DEF IdsOK
  <2>2. OneIds' \subseteq MadeIds(made') \cup RereadIds
    BY <1>1, <1>2, <1>20, <1>23, <1>25 DEF IdsOK
  <2>3. OneIds' \cap ChatIds' = {}
    <3> SUFFICES ASSUME NEW id \in OneIds', id \in ChatIds' PROVE FALSE
      OBVIOUS
    <3>1. CASE id \in OneIds /\ id \in ChatIds
      BY <1>1, <3>1 DEF IdsOK
    <3>2. CASE id \in OneIds /\ \E m \in ItemsOf(new) : m.id = id
      BY <1>1, <1>20, <3>2 DEF IdsOK
    <3>3. CASE id \in ChatIds /\ \E m \in ItemsOf(new) : m.id = id
      BY <1>1, <1>20, <3>3 DEF IdsOK
    <3>4. CASE (\E m \in ItemsOf(new) : m.id = id /\ m.layer = 1) /\ (\E m \in ItemsOf(new) : m.id = id /\ IsChat(m))
      BY <1>21, <3>4 DEF IsChat
    <3> QED BY <1>23, <1>24, <3>1, <3>2, <3>3, <3>4
  <2>4. MadeIds(made)' = MadeIds(made')
    BY DEF MadeIds
  <2> QED BY <2>1, <2>2, <2>3, <2>4 DEF IdsOK
<1>27. KeptOK'
  <2> SUFFICES ASSUME NEW id \in kept' \ gone PROVE Safe(id)'
    BY <1>2 DEF KeptOK
  <2>1. CASE id \in kept
    <3>1. Safe(id)
      BY <1>1, <2>1 DEF KeptOK
    <3>2. \A q \in Scanners : ItemsOf(at[q].hand) \subseteq ItemsOf(at'[q].hand)
      BY <1>8, <1>9 DEF hand
    <3> QED BY <1>2, <3>1, <3>2 DEF Safe
  <2>2. CASE id \notin kept
    <3>1. PICK k \in DOMAIN new : id = new[k].id /\ ~new[k].file /\ new[k].layer = 2 /\ (p = "initial" => Accepted(new[k], hasDB))
      BY <1>6, <2>2
    <3> DEFINE m == new[k]
    <3>2. m \in ItemsOf(at'[p].hand)
      BY <1>8, <1>9 DEF ItemsOf
    <3> HIDE DEF m
    <3>3. m.id = id /\ IsChat(m) /\ (p = "initial" => m.hall # "preferences")
      BY <3>1 DEF m, IsChat, Accepted
    <3> QED BY <3>2, <3>3 DEF Safe
  <2> QED BY <2>1, <2>2
<1> QED BY <1>12, <1>13, <1>14, <1>16, <1>17, <1>26, <1>27 DEF KeepInv, TypeOK

(* A memory that was noted in its file.                                    *)
LEMMA LatestTyped ==
  ASSUME StoreOK, NEW items \in Seq(Memories)
  PROVE  DOMAIN Noting(items) \subseteq Paths /\ Noting(items) \in [DOMAIN Noting(items) -> Words]
<1> DEFINE n == Len(items)  P == L1Paths(items)  D == DOMAIN latest \cup P
<1>1. n \in Nat /\ DOMAIN items = 1..n /\ \A k \in DOMAIN items : items[k] \in Memories
  OBVIOUS
<1>2. P \subseteq Paths
  BY <1>1, PathHome DEF L1Paths
<1>3. ASSUME NEW path \in P PROVE LastOf(items, path) \in Words
  <2> DEFINE S == {k \in DOMAIN items : Path(items[k]) = path}
  <2>1. S \in SUBSET (1..n) /\ S # {}
    BY <1>1 DEF L1Paths
  <2> HIDE DEF S, P
  <2>2. Max(S) \in S
    BY <1>1, <2>1, GreatestOf
  <2>3. items[Max(S)].text \in Words
    BY <1>1, <2>1, <2>2, MemoryHas
  <2> QED BY <2>3 DEF LastOf, S
<1>4. Noting(items) = [path \in D |-> IF path \in P THEN LastOf(items, path) ELSE latest[path]]
  BY DEF Noting
<1>5. DOMAIN latest \subseteq Paths /\ \A path \in DOMAIN latest : latest[path] \in Words
  BY DEF StoreOK
<1> HIDE DEF P
<1>6. \A path \in D : (IF path \in P THEN LastOf(items, path) ELSE latest[path]) \in Words
  BY <1>3, <1>5
<1> QED BY <1>2, <1>4, <1>5, <1>6

LEMMA InOrderHas ==
  ASSUME NEW items \in Seq(Memories), NEW order \in Seq(Groups(items))
  PROVE  InOrder(items, order) \in Seq(Memories)
<1> DEFINE ss == [k \in DOMAIN order |-> Group(items, order[k])]  n == Len(order)
<1>1. n \in Nat /\ DOMAIN order = 1..n /\ \A k \in DOMAIN order : order[k] \in Groups(items)
  OBVIOUS
<1>2. \A k \in DOMAIN order : Group(items, order[k]) \in Seq(Memories)
  BY <1>1, GroupHas
<1>3. ss \in Seq(Seq(Memories))
  <2> HIDE DEF n
  <2> QED BY <1>1, <1>2
<1> HIDE DEF ss
<1>4. FlattenSeq(ss) \in Seq(Memories)
  BY <1>3, Flattened
<1> QED BY <1>4 DEF InOrder, ss

(* The store of a state that follows.                                      *)
LEMMA StoreMoves ==
  ASSUME Sound(md')
  PROVE  /\ md' = [files |-> md'.files, cache |-> md'.cache] /\ IsDisk(md.files)' /\ IsDisk(md.cache)'
         /\ DOMAIN md'.cache \subseteq DOMAIN md'.files /\ DiskOK'
<1>1. md' = [files |-> md'.files, cache |-> md'.cache] /\ IsDisk(md'.files) /\ IsDisk(md'.cache) /\ DOMAIN md'.cache \subseteq DOMAIN md'.files
  BY StoresAre DEF Sound
<1>2. IsDisk(md.files)' /\ IsDisk(md.cache)'
  BY <1>1 DEF IsDisk
<1>3. DiskOK'
  BY DEF DiskOK, Sound
<1> HIDE DEF IsDisk
<1> QED BY <1>1, <1>2, <1>3

LEMMA StoreBatchKeeps ==
  ASSUME KeepInv, NEW p \in {"chats", "files"}, StoreBatch(p)
  PROVE  KeepInv'
<1> DEFINE hand == at[p].hand
<1>1. WorldOK /\ StoreOK /\ IndexOK /\ ScanOK /\ DiskOK /\ IdsOK /\ KeptOK
  BY DEF KeepInv, TypeOK
<1>2. UNCHANGED <<setup, proc, hasDB, boots, now, edit, changed, l1, db, index, saved, processed, finder, made, kept, gone, spoiled>>
  BY DEF StoreBatch
<1>3. p \in Scanners /\ p # "initial" /\ at[p].pc = "work"
  BY DEF StoreBatch, Worked, Scanners
<1>4. at[p] \in ScannerRecs /\ at \in [Scanners -> ScannerRecs] /\ hand \in Seq(Memories)
  BY <1>1, <1>3, ScannerHas
<1>5. proc # "down" /\ proc = "gateway"
  BY <1>1, <1>3, Running
<1>6. PICK order \in SetToAllKPermutations(Groups(hand)) :
        Len(order) = Cardinality(Groups(hand)) /\ md' = StoreInOrder(md, hand, order) /\ latest' = Noting(InOrder(hand, order))
  BY DEF StoreBatch
<1>7. /\ Sound(md') /\ Keeps(md, md')
      /\ AllPlaced(md') \subseteq AllPlaced(md) \cup {<<Path(m), m>> : m \in ItemsOf(hand)}
      /\ \A m \in ItemsOf(hand) : IsChat(m) =>
           Path(m) \in DOMAIN md'.files /\ Path(m)[1] \in ChatDirs /\ m.id \in IdsIn(md'.files[Path(m)])
  BY <1>1, <1>3, <1>5, <1>6, BatchWritten
<1>8. at' = [at EXCEPT ![p].pc = "idle", ![p].hand = <<>>]
  BY DEF StoreBatch
<1>9. /\ at'[p] \in ScannerRecs /\ at'[p].hand = <<>> /\ at'[p].kind = at[p].kind /\ at'[p].pc = "idle"
      /\ \A q \in Scanners \ {p} : at'[q] = at[q]
  <2>1. <<>> \in Seq(Memories)
    OBVIOUS
  <2> QED BY <1>3, <1>4, <1>8, <2>1 DEF ScannerRecs
<1>10. at' \in [Scanners -> ScannerRecs]
  <2> HIDE DEF ScannerRecs
  <2> QED BY <1>4, <1>8, <1>9
<1>11. ScanOK'
  <2>1. at'[p].pc # "ask" /\ made' \in Nat /\ finder' \in {"idle", "query", "vector", "few", "outer", "inner"}
        /\ \A q \in {"chats", "files"} : changed'[q] \subseteq SourcesOf(at[q].kind)
    BY <1>1, <1>2, <1>9 DEF ScanOK
  <2> HIDE DEF ScannerRecs
  <2> QED BY <1>1, <1>2, <1>3, <1>5, <1>9, <1>10, <2>1, ScanMoves
<1>12. WorldOK' /\ IndexOK'
  BY <1>1, <1>2, WorldStays, IndexStays DEF WorldOK
<1>13. DOMAIN latest' \subseteq Paths /\ latest' \in [DOMAIN latest' -> Words]
  <2>1. order \in Seq(Groups(hand))
    BY <1>4, <1>6, GroupsAre, OrdersHave
  <2>2. InOrder(hand, order) \in Seq(Memories)
    BY <1>4, <2>1, InOrderHas
  <2> QED BY <1>1, <1>6, <2>2, LatestTyped
<1>14. StoreOK' /\ DiskOK'
  <2>1. /\ md' = [files |-> md'.files, cache |-> md'.cache] /\ IsDisk(md.files)' /\ IsDisk(md.cache)'
        /\ DOMAIN md'.cache \subseteq DOMAIN md'.files /\ DiskOK'
    BY <1>7, StoreMoves
  <2> HIDE DEF IsDisk
  <2> QED BY <1>1, <1>2, <1>13, <2>1 DEF StoreOK
<1>15. \A q \in Scanners \ {p} : ItemsOf(at'[q].hand) = ItemsOf(at[q].hand)
  BY <1>9
<1>16. IdsOK'
  <2>1. Hands' \subseteq Hands
    <3>1. ItemsOf(at'[p].hand) = {}
      BY <1>9, NoItems
    <3> QED BY <1>15, <3>1 DEF Hands
  <2>2. ASSUME NEW y \in AllPlaced(md'), IsChat(y[2]) PROVE y[2].id \in ChatIds
    <3>1. CASE y \in AllPlaced(md)
      BY <2>2, <3>1 DEF ChatIds, ChatMemories
    <3>2. CASE y \in {<<Path(m), m>> : m \in ItemsOf(hand)}
      <4>1. PICK m \in ItemsOf(hand) : y = <<Path(m), m>>
        BY <3>2
      <4>2. y[2] = m /\ m \in Hands
        BY <1>3, <4>1 DEF Hands
      <4> QED BY <2>2, <4>2 DEF ChatIds, ChatMemories
    <3> HIDE DEF hand
    <3> QED BY <1>7, <3>1, <3>2
  <2>3. \A m \in ItemsOf(l1') : m \in ItemsOf(l1)
    BY <1>2
  <2> QED BY <1>1, <1>2, <2>1, <2>2, <2>3, FewerIds
<1>17. KeptOK'
  <2>1. kept' \ gone' \subseteq kept \ gone
    BY <1>2
  <2>2. ASSUME NEW q \in Scanners, NEW m \in ItemsOf(at[q].hand), IsChat(m)
        PROVE  \/ m \in ItemsOf(at'[q].hand)
               \/ \E path \in DOMAIN md'.files : path[1] \in ChatDirs /\ m.id \in IdsIn(md'.files[path])
    BY <1>7, <1>15, <2>2
  <2> QED BY <1>1, <1>7, <2>1, <2>2, SafeMoves
<1> QED BY <1>11, <1>12, <1>14, <1>16, <1>17 DEF KeepInv, TypeOK

(* What is appended behind the store's back is written again by it.        *)
LEMMA AppendedAnyway ==
  ASSUME NEW m \in Stores, NEW item \in Memories, NEW embedded
  PROVE  StoreOne([m EXCEPT !.files = Appended(@, item, embedded)], item) = StoreOne(m, item)
<1> DEFINE path == Path(item)  group == <<item>>
           more == Appended(m.files, item, embedded)
           o == [m EXCEPT !.files = more]
           merged == Merge(InFile(m.cache, path), group)
<1>1. group[1] = item
  OBVIOUS
<1>2. o.files = more /\ o.cache = m.cache
  BY StoreHas
<1>3. more = m.files \/ \E items : more = Put(m.files, path, items)
  BY DEF Appended
<1> HIDE DEF more, merged
<1>4. Put(more, path, merged) = Put(m.files, path, merged)
  <2>1. CASE more = m.files
    BY <2>1
  <2>2. ASSUME NEW items, more = Put(m.files, path, items) PROVE Put(more, path, merged) = Put(m.files, path, merged)
    <3> DEFINE fs == m.files
    <3> HIDE DEF path, fs
    <3>1. DOMAIN more = DOMAIN fs \cup {path} /\ \A q \in DOMAIN fs \cup {path} : q # path => more[q] = fs[q]
      BY <2>2 DEF Put, fs
    <3>2. Put(more, path, merged) = [q \in DOMAIN fs \cup {path} |-> IF q = path THEN merged ELSE more[q]]
      <4>1. DOMAIN more \cup {path} = DOMAIN fs \cup {path}
        BY <3>1
      <4> QED BY <4>1 DEF Put
    <3>3. Put(fs, path, merged) = [q \in DOMAIN fs \cup {path} |-> IF q = path THEN merged ELSE fs[q]]
      BY DEF Put
    <3>4. \A q \in DOMAIN fs \cup {path} : (IF q = path THEN merged ELSE more[q]) = (IF q = path THEN merged ELSE fs[q])
      BY <3>1
    <3>5. Put(more, path, merged) = Put(fs, path, merged)
      BY <3>2, <3>3, <3>4
    <3> QED BY <3>5 DEF fs
  <2> QED BY <1>3, <2>1, <2>2
<1> HIDE DEF o
<1>5. WriteGroup(o, group) = WriteGroup(m, group)
  BY <1>1, <1>2, <1>4 DEF WriteGroup, merged
<1> QED BY <1>5 DEF StoreOne, o, more

(* The first memory in hand leaves it.                                     *)
LEMMA HeadTaken ==
  ASSUME ScanOK, WorldOK, at["initial"].hand # <<>>, proc # "down", NEW item, item = Head(at["initial"].hand),
         NEW pc, pc \in {"work"}, UNCHANGED <<setup, proc, hasDB, boots, changed, finder, made>>,
         at' = [at EXCEPT !["initial"].pc = pc, !["initial"].hand = Tail(@)]
  PROVE  /\ ScanOK' /\ item \in Memories /\ item \in Hands /\ item \in ItemsOf(at["initial"].hand)
         /\ Hands' \subseteq Hands
         /\ \A m \in ItemsOf(at["initial"].hand) : m = item \/ m \in ItemsOf(at'["initial"].hand)
         /\ \A q \in Scanners : q # "initial" => at'[q] = at[q]
<1> DEFINE p == "initial"  hand == at[p].hand  rest == Tail(hand)
<1>1. p \in Scanners
  BY DEF Scanners
<1>2. at[p] \in ScannerRecs /\ at \in [Scanners -> ScannerRecs] /\ hand \in Seq(Memories)
  BY <1>1, ScannerHas
<1> HIDE DEF hand
<1>3. item \in Memories /\ rest \in Seq(Memories) /\ item \in ItemsOf(hand) /\ ItemsOf(hand) = {item} \cup ItemsOf(rest)
  <2>1. hand # <<>> /\ item = Head(hand)
    BY DEF hand
  <2> QED BY <1>2, <2>1, TailItems
<1>4. at' = [at EXCEPT ![p].pc = pc, ![p].hand = rest]
  BY <1>1, <1>2 DEF hand
<1> HIDE DEF rest
<1>5. /\ at'[p] \in ScannerRecs /\ at'[p].hand = rest /\ at'[p].pc = "work"
      /\ \A q \in Scanners \ {p} : at'[q] = at[q]
  BY <1>1, <1>2, <1>3, <1>4 DEF ScannerRecs
<1>6. at' \in [Scanners -> ScannerRecs]
  <2> HIDE DEF ScannerRecs
  <2> QED BY <1>2, <1>4, <1>5
<1>7. ScanOK'
  <2>1. made' \in Nat /\ finder' \in {"idle", "query", "vector", "few", "outer", "inner"}
        /\ \A q \in {"chats", "files"} : changed'[q] \subseteq SourcesOf(at[q].kind)
    BY DEF ScanOK
  <2> HIDE DEF ScannerRecs
  <2> QED BY <1>1, <1>5, <1>6, <2>1, ScanMoves
<1>8. Hands' \subseteq Hands /\ item \in Hands
  <2>1. ItemsOf(at'[p].hand) \subseteq ItemsOf(at[p].hand) /\ item \in ItemsOf(at[p].hand)
    BY <1>3, <1>5 DEF hand
  <2> QED BY <1>1, <1>5, <2>1 DEF Hands
<1> QED BY <1>3, <1>5, <1>7, <1>8 DEF hand

(* What is stored next to its memories was in hand.                        *)
LEMMA StoredIds ==
  ASSUME NEW item \in Hands, AllPlaced(md') \subseteq AllPlaced(md) \cup {<<Path(item), item>>}
  PROVE  \A y \in AllPlaced(md') : IsChat(y[2]) => y[2].id \in ChatIds
<1> SUFFICES ASSUME NEW y \in AllPlaced(md'), IsChat(y[2]) PROVE y[2].id \in ChatIds
  OBVIOUS
<1>1. y \in AllPlaced(md) \/ y[2] = item
  OBVIOUS
<1>2. y[2] \in ChatMemories
  BY <1>1 DEF ChatMemories
<1> QED BY <1>2 DEF ChatIds

LEMMA AddStoredKeeps ==
  ASSUME KeepInv, AddStored
  PROVE  KeepInv' /\ AllPlaced(md') \subseteq AllPlaced(md) \cup {<<Path(m), m>> : m \in ItemsOf(at["initial"].hand)}
<1> DEFINE p == "initial"  item == Head(at[p].hand)  T == AllPlaced(md) \cup {<<Path(item), item>>}
<1>1. WorldOK /\ StoreOK /\ IndexOK /\ ScanOK /\ DiskOK /\ IdsOK /\ KeptOK
  BY DEF KeepInv, TypeOK
<1>2. UNCHANGED <<setup, proc, hasDB, boots, now, edit, changed, l1, index, saved, processed, finder, made, kept, gone, spoiled, latest>>
  BY DEF AddStored
<1>3. at[p].pc = "ask" /\ at[p].hand # <<>> /\ p \in Scanners
  BY <1>1 DEF AddStored, ScanOK, Scanners
<1>4. proc # "down"
  BY <1>1, <1>3, Running
<1>5. at' = [at EXCEPT !["initial"].pc = "work", !["initial"].hand = Tail(@)]
  BY DEF AddStored
<1>6. /\ ScanOK' /\ item \in Memories /\ item \in Hands /\ item \in ItemsOf(at[p].hand) /\ Hands' \subseteq Hands
      /\ \A m \in ItemsOf(at[p].hand) : m = item \/ m \in ItemsOf(at'[p].hand)
      /\ \A q \in Scanners : q # p => at'[q] = at[q]
  BY <1>1, <1>2, <1>3, <1>4, <1>5, HeadTaken
<1>7. PICK embedded \in BOOLEAN : /\ db' = AddDocument(db, item, embedded)
                                  /\ md' = StoreOne([md EXCEPT !.files = Appended(@, item, embedded)], item)
  BY DEF AddStored
<1> HIDE DEF item
<1>8. Sound(md) /\ md \in Stores
  BY <1>1, <1>4, SoundNow DEF Sound
<1>9. md' = StoreOne(md, item)
  BY <1>6, <1>7, <1>8, AppendedAnyway
<1>10. /\ Sound(md') /\ Keeps(md, md') /\ AllPlaced(md') \subseteq T
       /\ Path(item) \in DOMAIN md'.files /\ item.id \in IdsIn(md'.files[Path(item)])
  <2>1. AllPlaced(md) \subseteq T /\ <<Path(item), item>> \in T
    OBVIOUS
  <2> HIDE DEF T
  <2> QED BY <1>6, <1>8, <1>9, <2>1, StoredOne
<1>11. db' = [docs |-> db'.docs, vecs |-> db'.vecs] /\ db'.docs \subseteq Memories /\ IsFiniteSet(db'.docs)
       /\ db'.vecs \subseteq {d.id : d \in db'.docs}
  <2>1. CASE Skipped(item)
    <3>1. db' = db
      BY <1>7, <2>1 DEF AddDocument
    <3> QED BY <1>1, <3>1 DEF StoreOK
  <2>2. CASE ~Skipped(item)
    <3>1. /\ db'.docs = db.docs \cup {item} /\ db'.vecs \subseteq db.vecs \cup {item.id}
          /\ db' = [docs |-> db'.docs, vecs |-> db'.vecs]
      BY <1>7, <2>2 DEF AddDocument
    <3>2. db.docs \subseteq Memories /\ IsFiniteSet(db.docs) /\ db.vecs \subseteq {d.id : d \in db.docs}
      BY <1>1 DEF StoreOK
    <3>3. IsFiniteSet(db.docs \cup {item})
      BY <3>2, FS_AddElement
    <3> QED BY <1>6, <3>1, <3>2, <3>3
  <2> QED BY <2>1, <2>2
<1>12. StoreOK' /\ DiskOK'
  <2>1. /\ md' = [files |-> md'.files, cache |-> md'.cache] /\ IsDisk(md.files)' /\ IsDisk(md.cache)'
        /\ DOMAIN md'.cache \subseteq DOMAIN md'.files /\ DiskOK'
    BY <1>10, StoreMoves
  <2> HIDE DEF IsDisk
  <2> QED BY <1>1, <1>2, <1>11, <2>1 DEF StoreOK
<1>13. WorldOK' /\ IndexOK'
  BY <1>1, <1>2, WorldStays, IndexStays DEF WorldOK
<1>14. IdsOK'
  <2>1. \A y \in AllPlaced(md') : IsChat(y[2]) => y[2].id \in ChatIds
    BY <1>6, <1>10, StoredIds
  <2>2. \A m \in ItemsOf(l1') : m \in ItemsOf(l1)
    BY <1>2
  <2> QED BY <1>1, <1>2, <1>6, <2>1, <2>2, FewerIds
<1>15. KeptOK'
  <2>1. kept' \ gone' \subseteq kept \ gone
    BY <1>2
  <2>2. ASSUME NEW q \in Scanners, NEW m \in ItemsOf(at[q].hand), IsChat(m)
        PROVE  \/ m \in ItemsOf(at'[q].hand)
               \/ \E path \in DOMAIN md'.files : path[1] \in ChatDirs /\ m.id \in IdsIn(md'.files[path])
    <3>1. CASE m = item
      <4>1. Path(item)[1] \in ChatDirs
        BY <1>6, <2>2, <3>1, PathHome DEF Home
      <4> QED BY <1>10, <3>1, <4>1
    <3> QED BY <1>6, <3>1
  <2> QED BY <1>1, <1>10, <2>1, <2>2, SafeMoves
<1> QED BY <1>6, <1>10, <1>12, <1>13, <1>14, <1>15 DEF KeepInv, TypeOK

LEMMA AddMemoryKeeps ==
  ASSUME KeepInv, AddMemory
  PROVE  KeepInv' /\ AllPlaced(md') \subseteq AllPlaced(md) \cup {<<Path(m), m>> : m \in ItemsOf(at["initial"].hand)}
<1> DEFINE p == "initial"  item == Head(at[p].hand)  T == AllPlaced(md) \cup {<<Path(item), item>>}
           added == AddL1(md, l1, item)
<1>1. WorldOK /\ StoreOK /\ IndexOK /\ ScanOK /\ DiskOK /\ IdsOK /\ KeptOK
  BY DEF KeepInv, TypeOK
<1>2. UNCHANGED <<setup, proc, hasDB, boots, now, edit, changed, db, index, saved, processed, finder, made, kept, gone, spoiled>>
  BY DEF AddMemory
<1>3. at[p].pc = "work" /\ at[p].hand # <<>> /\ p \in Scanners
  BY DEF AddMemory, Worked, Scanners
<1>4. proc # "down"
  BY <1>1, <1>3, Running
<1>5. at' = [at EXCEPT !["initial"].pc = "work", !["initial"].hand = Tail(@)]
  <2>1. at[p] \in ScannerRecs /\ at \in [Scanners -> ScannerRecs]
    BY <1>1, <1>3, ScannerHas
  <2>2. at' = [at EXCEPT ![p].hand = Tail(at[p].hand)]
    BY DEF AddMemory
  <2> DEFINE rest == Tail(at[p].hand)
  <2> HIDE DEF rest
  <2>3. [at EXCEPT ![p].hand = rest] = [at EXCEPT ![p].pc = "work", ![p].hand = rest]
    BY <1>3, <2>1 DEF ScannerRecs
  <2> QED BY <2>2, <2>3 DEF rest
<1>6. /\ ScanOK' /\ item \in Memories /\ item \in Hands /\ item \in ItemsOf(at[p].hand) /\ Hands' \subseteq Hands
      /\ \A m \in ItemsOf(at[p].hand) : m = item \/ m \in ItemsOf(at'[p].hand)
      /\ \A q \in Scanners : q # p => at'[q] = at[q]
  BY <1>1, <1>2, <1>3, <1>4, <1>5, HeadTaken
<1>7. \/ ~Accepted(item, hasDB) /\ UNCHANGED <<md, l1, latest>>
      \/ item.layer = 1 /\ md' = added.md /\ l1' = added.l1 /\ latest' = Noting(<<item>>)
      \/ item.layer # 1 /\ md' = StoreOne(md, item) /\ UNCHANGED <<l1, latest>>
  BY DEF AddMemory
<1> HIDE DEF item, added, T
<1>8. Sound(md) /\ AllPlaced(md) \subseteq T /\ <<Path(item), item>> \in T /\ l1 \in Seq(Memories)
  BY <1>1, <1>4, SoundNow DEF T, StoreOK
<1> DEFINE Result ==
        /\ Sound(md') /\ Keeps(md, md') /\ AllPlaced(md') \subseteq T /\ l1' \in Seq(Memories)
        /\ \A m \in ItemsOf(l1') : m \in ItemsOf(l1) \/ (m = item /\ m.layer = 1)
        /\ DOMAIN latest' \subseteq Paths /\ latest' \in [DOMAIN latest' -> Words]
        /\ IsChat(item) /\ item.hall # "preferences" => Path(item) \in DOMAIN md'.files /\ item.id \in IdsIn(md'.files[Path(item)])
<1>9. DOMAIN latest \subseteq Paths /\ latest \in [DOMAIN latest -> Words]
  BY <1>1 DEF StoreOK
<1>10. ASSUME ~Accepted(item, hasDB) /\ UNCHANGED <<md, l1, latest>> PROVE Result
  <2>1. ~(IsChat(item) /\ item.hall # "preferences")
    BY <1>10 DEF Accepted, IsChat
  <2>2. Keeps(md, md')
    BY <1>10 DEF Keeps
  <2> QED BY <1>8, <1>9, <1>10, <2>1, <2>2
<1>11. ASSUME item.layer = 1 /\ md' = added.md /\ l1' = added.l1 /\ latest' = Noting(<<item>>) PROVE Result
  <2>1. \A m \in ItemsOf(l1) : m.id \in OneIds
    BY DEF OneIds
  <2>2. item.id \in OneIds
    BY <1>6, <1>11 DEF OneIds
  <2>3. (\A k \in DOMAIN l1 : Strange(md, l1[k].id)) /\ Strange(md, item.id)
    <3>1. \A k \in DOMAIN l1 : l1[k] \in ItemsOf(l1)
      BY DEF ItemsOf
    <3> QED BY <1>1, <2>1, <2>2, <3>1, StrangeNow
  <2>4. /\ Sound(added.md) /\ Keeps(md, added.md) /\ AllPlaced(added.md) \subseteq T /\ added.l1 \in Seq(Memories)
        /\ \A k \in DOMAIN added.l1 : added.l1[k] = item \/ \E i \in DOMAIN l1 : added.l1[k] = l1[i]
    BY <1>6, <1>8, <1>11, <2>3, FirstAdded DEF added
  <2>5. \A m \in ItemsOf(l1') : m \in ItemsOf(l1) \/ (m = item /\ m.layer = 1)
    BY <1>11, <2>4 DEF ItemsOf
  <2>6. DOMAIN latest' \subseteq Paths /\ latest' \in [DOMAIN latest' -> Words]
    <3>1. <<item>> \in Seq(Memories)
      BY <1>6
    <3> QED BY <1>1, <1>11, <3>1, LatestTyped
  <2>7. ~IsChat(item)
    BY <1>11 DEF IsChat
  <2> QED BY <1>11, <2>4, <2>5, <2>6, <2>7
<1>12. ASSUME item.layer # 1 /\ md' = StoreOne(md, item) /\ UNCHANGED <<l1, latest>> PROVE Result
  <2>1. /\ Sound(md') /\ Keeps(md, md') /\ AllPlaced(md') \subseteq T
        /\ Path(item) \in DOMAIN md'.files /\ item.id \in IdsIn(md'.files[Path(item)])
    BY <1>6, <1>8, <1>12, StoredOne
  <2> QED BY <1>8, <1>9, <1>12, <2>1
<1>13. Result
  BY <1>7, <1>10, <1>11, <1>12
<1>14. StoreOK' /\ DiskOK'
  <2>1. /\ md' = [files |-> md'.files, cache |-> md'.cache] /\ IsDisk(md.files)' /\ IsDisk(md.cache)'
        /\ DOMAIN md'.cache \subseteq DOMAIN md'.files /\ DiskOK'
    BY <1>13, StoreMoves
  <2> HIDE DEF IsDisk
  <2> QED BY <1>1, <1>2, <1>13, <2>1 DEF StoreOK
<1>15. WorldOK' /\ IndexOK'
  BY <1>1, <1>2, WorldStays, IndexStays DEF WorldOK
<1>16. IdsOK'
  <2>1. \A y \in AllPlaced(md') : IsChat(y[2]) => y[2].id \in ChatIds
    BY <1>6, <1>13, StoredIds DEF T
  <2>2. \A m \in ItemsOf(l1') : m \in ItemsOf(l1) \/ (m \in Hands /\ m.layer = 1)
    BY <1>6, <1>13
  <2> QED BY <1>1, <1>2, <1>6, <2>1, <2>2, FewerIds
<1>17. KeptOK'
  <2>1. kept' \ gone' \subseteq kept \ gone
    BY <1>2
  <2>2. ASSUME NEW q \in Scanners, NEW m \in ItemsOf(at[q].hand), IsChat(m), q = "initial" => m.hall # "preferences"
        PROVE  \/ m \in ItemsOf(at'[q].hand)
               \/ \E path \in DOMAIN md'.files : path[1] \in ChatDirs /\ m.id \in IdsIn(md'.files[path])
    <3>1. CASE q = p /\ m = item
      <4>1. Path(item)[1] \in ChatDirs
        BY <1>6, <2>2, <3>1, PathHome DEF Home
      <4> QED BY <1>13, <2>2, <3>1, <4>1
    <3> QED BY <1>6, <3>1
  <2> QED BY <1>1, <1>13, <2>1, <2>2, SafeMoves
<1>18. AllPlaced(md') \subseteq AllPlaced(md) \cup {<<Path(m), m>> : m \in ItemsOf(at["initial"].hand)}
  BY <1>6, <1>13 DEF T
<1> QED BY <1>6, <1>14, <1>15, <1>16, <1>17, <1>18 DEF KeepInv, TypeOK

(* A start.                                                                *)
LEMMA Apart ==
  ASSUME NEW n
  PROVE  MadeIds(n) \cap RereadIds = {}
<1>1. \A y \in RereadIds : DOMAIN y = 1..4
  BY DEF RereadIds
<1>2. \A y \in MadeIds(n) : DOMAIN y = 1..3
  BY DEF MadeIds
<1>3. 4 \in 1..4 /\ 4 \notin 1..3
  OBVIOUS
<1> QED BY <1>1, <1>2, <1>3

LEMMA StartsWith ==
  ASSUME WorldOK, ScanOK, proc = "down", NEW c \in {"gateway", "init", "process"}, Boot(c)
  PROVE  /\ at' \in [Scanners -> ScannerRecs]
         /\ \A p \in Scanners : at'[p].hand = <<>> /\ at'[p].pc # "ask"
         /\ \A p \in {"chats", "files"} : at'[p].kind = Off[p].kind /\ (c # "gateway" => at'[p] = Off[p])
<1>1. \A p \in Scanners : /\ Off[p] \in ScannerRecs /\ Off[p].pc = "off" /\ Off[p].hand = <<>>
                          /\ Off[p].kind \in {"chat", "file"} /\ Off = [q \in Scanners |-> Off[q]]
  <2>1. \A p \in Scanners : Off[p].kind \in {"chat", "file"}
    BY OffIs DEF ScannerRecs
  <2> QED BY <2>1, OffIs DEF Off
<1>2. "initial" \in Scanners /\ "chats" \in Scanners /\ "files" \in Scanners
  BY DEF Scanners
<1>3. CASE c = "gateway"
  <2>1. at' = GatewayScanners
    BY <1>3 DEF Boot
  <2> HIDE DEF Off
  <2>2. \A p \in Scanners : at'[p] = Scanner(IF p = "initial" THEN "walk" ELSE "idle", Off[p].kind, {})
    BY <2>1 DEF GatewayScanners
  <2>3. \A p \in Scanners : (IF p = "initial" THEN "walk" ELSE "idle") \in {"off", "idle", "walk", "work", "ask"} \ {"ask"} /\ {} \in SUBSET Snapshots
    OBVIOUS
  <2>4. \A p \in Scanners : at'[p] \in ScannerRecs /\ at'[p].hand = <<>> /\ at'[p].pc # "ask" /\ at'[p].kind = Off[p].kind
    BY <1>1, <2>2, <2>3, ScannerIs
  <2>5. at' = [p \in Scanners |-> at'[p]]
    BY <2>1 DEF GatewayScanners
  <2> QED BY <1>2, <1>3, <2>4, <2>5
<1>4. CASE c = "init"
  <2>1. at' = [Off EXCEPT !["initial"].pc = "walk"]
    BY <1>4 DEF Boot, InitScanners
  <2> HIDE DEF Off
  <2>2. at'["initial"] \in ScannerRecs /\ at'["initial"].hand = <<>> /\ at'["initial"].pc = "walk"
        /\ \A p \in Scanners : p # "initial" => at'[p] = Off[p]
    BY <1>1, <1>2, <2>1 DEF ScannerRecs
  <2>3. at' = [p \in Scanners |-> at'[p]]
    BY <1>1, <1>2, <2>1
  <2> HIDE DEF ScannerRecs
  <2>4. \A p \in Scanners : at'[p] \in ScannerRecs /\ at'[p].hand = <<>> /\ at'[p].pc # "ask"
    BY <1>1, <2>2
  <2> QED BY <1>2, <2>2, <2>3, <2>4
<1>5. CASE c = "process"
  <2>1. PICK x \in setup.sources : at' = ProcessScanners(x)
    BY <1>5 DEF Boot
  <2> DEFINE kind == IF x \in Chats THEN "chat" ELSE "file"  busy == {Snapshot(x)}
             s == Scanner("work", kind, busy)
  <2>2. x \in Sources
    BY <2>1, SetupsAssumption DEF WorldOK, Sources
  <2>3. busy \in SUBSET Snapshots /\ kind \in {"chat", "file"}
    BY <2>2, SnapshotIs
  <2> HIDE DEF kind, busy
  <2>4. s \in ScannerRecs /\ s.hand = <<>> /\ s.pc = "work"
    BY <2>3, ScannerIs
  <2>5. at' = [Off EXCEPT !["initial"] = s]
    BY <2>1 DEF ProcessScanners, kind, busy
  <2> HIDE DEF Off, s, ScannerRecs
  <2>6. at'["initial"] = s /\ \A p \in Scanners : p # "initial" => at'[p] = Off[p]
    BY <1>1, <1>2, <2>5
  <2>7. at' = [p \in Scanners |-> at'[p]]
    BY <1>1, <1>2, <2>5
  <2>8. \A p \in Scanners : at'[p] \in ScannerRecs /\ at'[p].hand = <<>> /\ at'[p].pc # "ask"
    BY <1>1, <2>4, <2>6
  <2> QED BY <1>2, <2>6, <2>7, <2>8
<1> QED BY <1>3, <1>4, <1>5

LEMMA BootKeeps ==
  ASSUME KeepInv, NEW c \in {"gateway", "init", "process"}, Boot(c)
  PROVE  KeepInv'
<1>1. WorldOK /\ StoreOK /\ IndexOK /\ ScanOK /\ DiskOK /\ IdsOK /\ KeptOK
  BY DEF KeepInv, TypeOK
<1>2. UNCHANGED <<setup, now, edit, db, saved, finder, made, kept, gone, latest>>
      /\ proc = "down" /\ proc' = c /\ boots' = boots + 1 /\ boots < setup.boots /\ hasDB' \in Configured(c)
      /\ index' = saved /\ processed' = [x \in Files |-> -1] /\ changed' = [p \in DOMAIN changed |-> {}]
  BY DEF Boot
<1> DEFINE n == boots + 1  fs == md.files  cache == LoadCache(fs, n)
<1>3. n \in Nat /\ boots' \in 0..setup.boots
  <2>1. setup.boots \in Nat /\ boots \in 0..setup.boots
    BY <1>1, SetupsAssumption DEF WorldOK, ScanOK
  <2> QED BY <1>2, <2>1
<1>4. fs \in Disks /\ Homely(fs)
  BY <1>1, DiskIs DEF StoreOK, DiskOK
<1>5. md' = [files |-> fs, cache |-> cache]
  BY <1>1 DEF Boot, StoreOK
<1> HIDE DEF n
<1>6. /\ Sound([files |-> fs, cache |-> cache])
      /\ \A y \in Placed(cache) : y[1] \in DOMAIN fs /\ \E k \in DOMAIN fs[y[1]] : ReadAs(y[1], fs[y[1]][k], y[2])
  <2> HIDE DEF fs
  <2> QED BY <1>3, <1>4, LoadedCache
<1>7. l1' = (IF c = "gateway" THEN LoadL1(cache) ELSE <<>>) /\ md'.cache = cache /\ md'.files = fs
  BY <1>5 DEF Boot
<1> HIDE DEF cache
<1>8. Sound(md') /\ cache \in Disks
  BY <1>5, <1>6, <1>7, StoreHas DEF Sound
<1>9. l1' \in Seq(Memories) /\ \A m \in ItemsOf(l1') : m.id \in RereadIds
  <2>1. CASE l1' = LoadL1(cache)
    <3>1. /\ LoadL1(cache) \in Seq(Memories)
          /\ \A k \in DOMAIN LoadL1(cache) : LoadL1(cache)[k].layer = 1 /\ \E y \in Placed(cache) : LoadL1(cache)[k] = y[2]
      BY <1>8, FirstLoaded
    <3>2. ASSUME NEW m \in ItemsOf(l1') PROVE m.id \in RereadIds
      <4>1. PICK y \in Placed(cache) : m = y[2] /\ m.layer = 1
        BY <2>1, <3>1 DEF ItemsOf
      <4>2. PICK k \in DOMAIN fs[y[1]] : ReadAs(y[1], fs[y[1]][k], m)
        BY <1>6, <4>1
      <4> QED BY <4>1, <4>2 DEF ReadAs, Home
    <3> QED BY <2>1, <3>1, <3>2
  <2>2. CASE l1' = <<>>
    <3>1. <<>> \in Seq(Memories)
      OBVIOUS
    <3> QED BY <2>2, <3>1, NoItems
  <2> QED BY <1>7, <2>1, <2>2
<1>10. /\ at' \in [Scanners -> ScannerRecs]
       /\ \A p \in Scanners : at'[p].hand = <<>> /\ at'[p].pc # "ask"
       /\ \A p \in {"chats", "files"} : at'[p].kind = Off[p].kind /\ (c # "gateway" => at'[p] = Off[p])
  BY <1>1, <1>2, StartsWith
<1>11. changed' = [p \in {"chats", "files"} |-> {}]
  BY <1>1, <1>2 DEF WorldOK
<1>12. ScanOK'
  <2>1. Off' = Off
    BY DEF Off, Scanner
  <2>2. hasDB' \in BOOLEAN
    BY <1>1, <1>2, SetupsAssumption DEF WorldOK, Configured
  <2>3. made' \in Nat /\ finder' \in {"idle", "query", "vector", "few", "outer", "inner"}
    BY <1>1, <1>2 DEF ScanOK
  <2>4. "initial" \in Scanners /\ "chats" \in Scanners /\ "files" \in Scanners
    BY DEF Scanners
  <2>5. \A p \in {"chats", "files"} : /\ at'[p].kind = Off[p].kind /\ (proc' # "gateway" => at'[p] = Off[p])
                                      /\ at'[p].pc # "ask" /\ changed'[p] \subseteq SourcesOf(at[p].kind)'
    BY <1>2, <1>10, <1>11, <2>4
  <2>6. proc' # "down" /\ proc' \in {"down", "gateway", "init", "process"}
    BY <1>2
  <2> HIDE DEF Off
  <2>7. at'["initial"].pc # "ask"
    BY <1>10, <2>4
  <2> QED BY <1>2, <1>3, <1>10, <2>1, <2>2, <2>3, <2>5, <2>6, <2>7 DEF ScanOK, ScannerRecs
<1>13. WorldOK'
  <2>1. spoiled' \subseteq Sources
    BY <1>1 DEF WorldOK, Boot
  <2>2. changed' \in [{"chats", "files"} -> SUBSET Sources]
    BY <1>11
  <2> QED BY <1>1, <1>2, <2>1, <2>2, WorldStays
<1>14. IndexOK'
  BY <1>1, <1>2 DEF IndexOK
<1>15. StoreOK' /\ DiskOK'
  <2>1. /\ md' = [files |-> md'.files, cache |-> md'.cache] /\ IsDisk(md.files)' /\ IsDisk(md.cache)'
        /\ DOMAIN md'.cache \subseteq DOMAIN md'.files /\ DiskOK'
    BY <1>8, StoreMoves
  <2> HIDE DEF IsDisk
  <2> QED BY <1>1, <1>2, <1>9, <2>1 DEF StoreOK
<1>16. Hands' = {} /\ Hands = {}
  <2>1. \A p \in Scanners : ItemsOf(at'[p].hand) = {} /\ ItemsOf(at[p].hand) = {}
    <3>1. at = Off
      BY <1>1, <1>2 DEF ScanOK
    <3> QED BY <1>10, <3>1, OffIs, NoItems
  <2> QED BY <2>1 DEF Hands
<1>17. ASSUME NEW y \in AllPlaced(md'), IsChat(y[2]) PROVE y[2].id \in ChatIds
  <2>1. CASE y \in Placed(fs)
    BY <1>17, <2>1 DEF ChatIds, ChatMemories, AllPlaced
  <2>2. CASE y \in Placed(cache)
    <3>1. PICK k \in DOMAIN fs[y[1]] : ReadAs(y[1], fs[y[1]][k], y[2]) /\ y[1] \in DOMAIN fs
      BY <1>6, <2>2
    <3> DEFINE path == y[1]  m == fs[path][k]
    <3>2. path[1] \notin PrefDirs
      <4>1. path[1] \in ChatDirs
        BY <1>17, <3>1 DEF ReadAs, Home
      <4> QED BY <4>1 DEF ChatDirs, PrefDirs
    <3>3. IsChat(m) /\ m.id = y[2].id
      BY <1>17, <3>1, <3>2 DEF ReadAs, IsChat
    <3>4. <<path, m>> \in Placed(fs) /\ <<path, m>>[2] = m
      BY <1>4, <3>1, PlacedIs
    <3> HIDE DEF m
    <3>5. m \in ChatMemories
      BY <3>3, <3>4 DEF ChatMemories, AllPlaced
    <3> QED BY <3>3, <3>5 DEF ChatIds
  <2> QED BY <1>7, <2>1, <2>2 DEF AllPlaced
<1>18. IdsOK'
  <2>1. ChatIds' \subseteq ChatIds
    BY <1>16, <1>17 DEF ChatIds, ChatMemories
  <2>2. OneIds' \subseteq RereadIds
    BY <1>9, <1>16 DEF OneIds
  <2>3. ChatIds \subseteq MadeIds(made) /\ MadeIds(made) \cap RereadIds = {}
    BY <1>1, Apart DEF IdsOK
  <2>4. MadeIds(made)' = MadeIds(made)
    BY <1>2
  <2> QED BY <2>1, <2>2, <2>3, <2>4 DEF IdsOK
<1>19. KeptOK'
  <2>1. Keeps(md, md')
    BY <1>7 DEF Keeps
  <2>2. kept' \ gone' \subseteq kept \ gone
    BY <1>2
  <2>3. \A p \in Scanners : ItemsOf(at[p].hand) = {}
    BY <1>16 DEF Hands
  <2> QED BY <1>1, <2>1, <2>2, <2>3, SafeMoves
<1> QED BY <1>12, <1>13, <1>14, <1>15, <1>18, <1>19 DEF KeepInv, TypeOK

LEMMA NextKeeps ==
  ASSUME KeepInv, [Next]_vars
  PROVE  KeepInv'
<1>1. CASE UNCHANGED vars
  <2>1. WorldOK' /\ StoreOK' /\ IndexOK' /\ ScanOK'
    BY <1>1 DEF KeepInv, TypeOK, vars, WorldOK, StoreOK, IsDisk, IndexOK, ScanOK, SourcesOf
  <2>2. DiskOK' /\ IdsOK' /\ KeptOK'
    BY <1>1, CalmStays DEF KeepInv, vars
  <2> QED BY <2>1, <2>2 DEF KeepInv, TypeOK
<1>2. ASSUME NEW x \in Sources, Edit(x) PROVE KeepInv'
  BY <1>2, EditKeeps
<1>3. ASSUME NEW c \in {"gateway", "init", "process"}, Boot(c) PROVE KeepInv'
  BY <1>3, BootKeeps
<1>4. ASSUME NEW p \in {"chats", "files"}, Tick(p) \/ StoreBatch(p) PROVE KeepInv'
  BY <1>4, TickKeeps, StoreBatchKeeps
<1>5. ASSUME NEW p \in Scanners, Walk(p) \/ Check(p) \/ Extract(p) PROVE KeepInv'
  BY <1>5, WalkKeeps, CheckKeeps, ExtractKeeps
<1>6. CASE Cleanup \/ Ask \/ AddStored \/ AddMemory \/ Finish
  BY <1>6, CleanupKeeps, AskKeeps, AddStoredKeeps, AddMemoryKeeps, FinishKeeps
<1>7. CASE StartSearch \/ SearchStep \/ Kill
  BY <1>7, SearchKeeps, KillKeeps
<1> QED BY <1>1, <1>2, <1>3, <1>4, <1>5, <1>6, <1>7 DEF Next

LEMMA Kept == Spec => []KeepInv
<1>1. Init => KeepInv
  BY InitKeeps
<1>2. KeepInv /\ [Next]_vars => KeepInv'
  BY NextKeeps
<1> QED BY <1>1, <1>2, PTL DEF Spec

(* Every state has its type: memories keep the names of sources and of     *)
(* their owners, the files those of the directories, a process that is not *)
(* running no scanner and the loops run in a gateway only.                 *)
THEOREM MemoriaTypeCorrect == Spec => []TypeOK
<1>1. KeepInv => TypeOK
  BY DEF KeepInv
<1> QED BY <1>1, Kept, PTL

(* No kept summary of a chat is lost, unless a kill came while it was in   *)
(* hand or its file was being written (StoreBatch, writeToFile, mergeItems,*)
(* loadCache, compactSimple).                                              *)
THEOREM ChatsKept == Spec => []KeepsChat
<1>1. KeepInv => KeepsChat
  <2> SUFFICES ASSUME KeepInv, NEW id \in kept, id \notin gone,
                      \A p \in Scanners : id \notin IdsIn(at[p].hand)
               PROVE  \E path \in DOMAIN md.files : id \in IdsIn(md.files[path])
    BY DEF KeepsChat
  <2>1. Safe(id)
    BY DEF KeepInv, KeptOK
  <2>2. \A p \in Scanners : \A m \in ItemsOf(at[p].hand) : m.id # id
    BY DEF IdsIn, ItemsOf
  <2> QED BY <2>1, <2>2 DEF Safe
<1> QED BY <1>1, Kept, PTL

-----------------------------------------------------------------------------
(* Freshness.  What a scanner holds of a source is in one of three places: *)
(* to be checked, being extracted, or as memories in hand.                 *)
BusyWith(r) == {b.src : b \in r.busy}
Carried(r) == {m.src : m \in ItemsOf(r.hand)}
HeldBy(r) == BusyWith(r) \cup Carried(r)

TidyOne(r) ==
  /\ r.pc # "work" => r.todo = <<>> /\ r.busy = {}
  /\ r.pc \notin {"work", "ask"} => r.hand = <<>>
  /\ \A i, j \in DOMAIN r.todo : r.todo[i].src = r.todo[j].src => i = j
  /\ \A i \in DOMAIN r.todo : r.todo[i].src \notin HeldBy(r)
  /\ BusyWith(r) \cap Carried(r) = {}
  /\ \A b, c \in r.busy : b.src = c.src => b = c

Tidy == \A p \in Scanners : TidyOne(at[p])

(* `memory process` takes its source unasked and marks nothing: what it    *)
(* has of a file counts as spoiled.                                        *)
Unasked ==
  proc = "process" => /\ at["initial"].todo = <<>> /\ at["initial"].pc # "walk"
                      /\ Files \cap HeldBy(at["initial"]) \subseteq spoiled

(* A file that is not spoiled: one scanner has it; while that extracts it, *)
(* the index does not have it and the store nothing of it; the index is    *)
(* otherwise the one on the disk, and what it has is what the store and    *)
(* the hands are about.                                                    *)
BusyAny(f) == \E p \in Scanners : f \in BusyWith(at[p])
OneHolder(f) == \A p, q \in Scanners : f \in HeldBy(at[p]) /\ f \in HeldBy(at[q]) => p = q
SaysOf(placed, f, text) == \A y \in placed : y[1] \in FilesOf(f) => y[2].text = text
FileOK(f) ==
  /\ OneHolder(f)
  /\ BusyAny(f) => index[f] = NotDone /\ \A y \in AllPlaced(md) : y[1] \notin FilesOf(f)
  /\ proc # "down" /\ index[f] # NotDone =>
       SaysOf(AllPlaced(md), f, index[f]) /\ \A m \in Hands : m.src = f => m.text = index[f]
  /\ proc # "down" /\ ~BusyAny(f) => saved[f] = index[f]
  /\ proc = "down" /\ saved[f] # NotDone => SaysOf(Placed(md.files), f, saved[f])

FreshInv == Tidy /\ Unasked /\ \A f \in Files \ spoiled : FileOK(f)

LEMMA SameHolders ==
  ASSUME NEW f, \A p \in Scanners : at'[p].busy = at[p].busy /\ at'[p].hand = at[p].hand
  PROVE  /\ BusyAny(f)' <=> BusyAny(f)
         /\ OneHolder(f)' <=> OneHolder(f)
         /\ Hands' = Hands
         /\ \A p \in Scanners : HeldBy(at'[p]) = HeldBy(at[p]) /\ BusyWith(at'[p]) = BusyWith(at[p]) /\ Carried(at'[p]) = Carried(at[p])
<1>1. \A p \in Scanners : /\ BusyWith(at'[p]) = BusyWith(at[p]) /\ Carried(at'[p]) = Carried(at[p])
                          /\ HeldBy(at'[p]) = HeldBy(at[p])
  BY DEF BusyWith, Carried, HeldBy
<1>2. BusyAny(f)' <=> BusyAny(f)
  BY <1>1 DEF BusyAny
<1>3. OneHolder(f)' <=> OneHolder(f)
  BY <1>1 DEF OneHolder
<1>4. Hands' = Hands
  BY DEF Hands
<1> QED BY <1>1, <1>2, <1>3, <1>4

(* A step that moves neither memories nor the indexes.                     *)
LEMMA CalmFile ==
  ASSUME NEW f, FileOK(f), UNCHANGED <<proc, md, index, saved>>,
         \A p \in Scanners : at'[p].busy = at[p].busy /\ at'[p].hand = at[p].hand
  PROVE  FileOK(f)'
<1>1. (BusyAny(f)' <=> BusyAny(f)) /\ (OneHolder(f)' <=> OneHolder(f)) /\ Hands' = Hands
  BY SameHolders
<1> QED BY <1>1 DEF FileOK, NotDone, SaysOf

(* A step that neither takes nor gives up the file, and puts nothing into  *)
(* the store but what a scanner with no more to extract has in hand.       *)
LEMMA FileStays ==
  ASSUME ScanOK, NEW f \in Files, FileOK(f), proc # "down", proc' = proc, index'[f] = index[f], saved'[f] \in {saved[f], index[f]},
         \A p \in Scanners : /\ f \in BusyWith(at'[p]) <=> f \in BusyWith(at[p])
                             /\ f \in Carried(at'[p]) => f \in Carried(at[p]),
         \A m \in Hands' : m.src = f => m \in Hands,
         \A y \in AllPlaced(md') : y[1] \in FilesOf(f) =>
           \/ y \in AllPlaced(md)
           \/ \E p \in Scanners : at[p].busy = {} /\ \E m \in ItemsOf(at[p].hand) : y = <<Path(m), m>>
  PROVE  FileOK(f)'
<1>1. BusyAny(f)' <=> BusyAny(f)
  BY DEF BusyAny
<1>2. OneHolder(f)'
  <2>1. \A p \in Scanners : f \in HeldBy(at'[p]) => f \in HeldBy(at[p])
    BY DEF HeldBy
  <2> QED BY <2>1 DEF FileOK, OneHolder
<1>3. ASSUME NEW p \in Scanners, at[p].busy = {}, NEW m \in ItemsOf(at[p].hand), Path(m) \in FilesOf(f)
      PROVE  m.src = f /\ m \in Hands /\ ~BusyAny(f)
  <2>1. m.src = f /\ m \in Hands
    <3>1. m \in Memories
      BY ScannerHas, IdsAre
    <3> QED BY <1>3, <3>1, PathHome DEF Hands
  <2>2. f \in HeldBy(at[p]) /\ f \notin BusyWith(at[p])
    BY <1>3, <2>1 DEF HeldBy, Carried, BusyWith
  <2>3. \A q \in Scanners : f \in BusyWith(at[q]) => q = p
    BY <2>2 DEF FileOK, OneHolder, HeldBy
  <2> QED BY <2>1, <2>2, <2>3 DEF BusyAny
<1>4. ASSUME NEW y \in AllPlaced(md'), y[1] \in FilesOf(f), y \notin AllPlaced(md)
      PROVE  ~BusyAny(f) /\ \E m \in Hands : m.src = f /\ y[2] = m
  <2>1. PICK p \in Scanners : at[p].busy = {} /\ \E m \in ItemsOf(at[p].hand) : y = <<Path(m), m>>
    BY <1>4
  <2>2. PICK m \in ItemsOf(at[p].hand) : y = <<Path(m), m>>
    BY <2>1
  <2>3. y[1] = Path(m) /\ y[2] = m
    BY <2>2
  <2> QED BY <1>3, <1>4, <2>1, <2>2, <2>3
<1>5. BusyAny(f)' => index'[f] = NotDone' /\ \A y \in AllPlaced(md') : y[1] \notin FilesOf(f)
  BY <1>1, <1>4 DEF FileOK, NotDone
<1>6. index'[f] # NotDone => SaysOf(AllPlaced(md'), f, index'[f]) /\ \A m \in Hands' : m.src = f => m.text = index'[f]
  <2> SUFFICES ASSUME index[f] # NotDone
               PROVE  SaysOf(AllPlaced(md'), f, index[f]) /\ \A m \in Hands' : m.src = f => m.text = index[f]
    OBVIOUS
  <2>1. SaysOf(AllPlaced(md), f, index[f]) /\ \A m \in Hands : m.src = f => m.text = index[f]
    BY DEF FileOK
  <2>2. SaysOf(AllPlaced(md'), f, index[f])
    BY <1>4, <2>1 DEF SaysOf
  <2> QED BY <2>1, <2>2
<1>7. ~BusyAny(f)' => saved'[f] = index'[f]
  BY <1>1 DEF FileOK
<1>8. SaysOf(AllPlaced(md), f, index[f])' <=> SaysOf(AllPlaced(md'), f, index'[f])
  BY DEF SaysOf
<1> QED BY <1>2, <1>5, <1>6, <1>7, <1>8 DEF FileOK, NotDone

LEMMA TidyStays ==
  ASSUME Tidy, NEW p, TidyOne(at'[p]), \A q \in Scanners : q # p => at'[q] = at[q]
  PROVE  Tidy'
<1>1. \A q \in Scanners : TidyOne(at'[q])
  BY DEF Tidy
<1> QED BY <1>1 DEF Tidy

LEMMA CalmFresh ==
  ASSUME FreshInv, UNCHANGED <<proc, md, index, saved, at, spoiled>>
  PROVE  FreshInv'
<1>1. Tidy'
  BY DEF FreshInv, Tidy
<1>2. Unasked'
  BY DEF FreshInv, Unasked
<1>3. ASSUME NEW f \in Files \ spoiled PROVE FileOK(f)'
  BY CalmFile DEF FreshInv
<1> QED BY <1>1, <1>2, <1>3 DEF FreshInv

LEMMA ScanFresh ==
  ASSUME FreshInv, NEW p \in Scanners, UNCHANGED <<proc, md, index, saved, spoiled>>,
         \A q \in Scanners : q # p => at'[q] = at[q], at'[p].busy = at[p].busy, at'[p].hand = at[p].hand, TidyOne(at'[p]),
         proc = "process" => at'["initial"].todo = <<>> /\ at'["initial"].pc # "walk"
  PROVE  FreshInv'
<1>1. Tidy'
  BY TidyStays DEF FreshInv
<1>2. \A q \in Scanners : at'[q].busy = at[q].busy /\ at'[q].hand = at[q].hand
  OBVIOUS
<1>3. Unasked'
  <2>1. HeldBy(at'["initial"]) = HeldBy(at["initial"])
    BY <1>2 DEF HeldBy, BusyWith, Carried, Scanners
  <2> QED BY <2>1 DEF FreshInv, Unasked
<1>4. ASSUME NEW f \in Files \ spoiled PROVE FileOK(f)'
  BY <1>2, CalmFile DEF FreshInv
<1> QED BY <1>1, <1>3, <1>4 DEF FreshInv

(* A scanner with nothing in its hands.                                    *)
LEMMA EmptyHanded ==
  ASSUME NEW r, r.busy = {}, r.hand = <<>>
  PROVE  BusyWith(r) = {} /\ Carried(r) = {} /\ HeldBy(r) = {} /\ (r.todo = <<>> => TidyOne(r))
<1>1. BusyWith(r) = {} /\ Carried(r) = {} /\ HeldBy(r) = {}
  BY NoItems DEF BusyWith, Carried, HeldBy
<1> QED BY <1>1 DEF TidyOne

LEMMA TickFresh ==
  ASSUME KeepInv, FreshInv, NEW p \in {"chats", "files"}, Tick(p)
  PROVE  FreshInv'
<1>1. p \in Scanners /\ p # "initial" /\ at[p].pc = "idle" /\ UNCHANGED <<proc, md, index, saved, spoiled>>
      /\ at' = [at EXCEPT ![p].pc = "walk", ![p].since = changed[p]]
  BY DEF Scanners, Tick
<1>2. at[p] \in ScannerRecs /\ at \in [Scanners -> ScannerRecs]
  BY <1>1, ScannerHas DEF KeepInv, TypeOK
<1>3. /\ at'[p].busy = at[p].busy /\ at'[p].hand = at[p].hand /\ at'[p].todo = at[p].todo
      /\ \A q \in Scanners : q # p => at'[q] = at[q]
  BY <1>1, <1>2 DEF ScannerRecs
<1>4. at[p].todo = <<>> /\ at[p].busy = {} /\ at[p].hand = <<>>
  BY <1>1 DEF FreshInv, Tidy, TidyOne
<1>5. TidyOne(at'[p])
  BY <1>3, <1>4, EmptyHanded
<1>6. proc # "process"
  BY <1>1, Running DEF KeepInv, TypeOK
<1> QED BY <1>1, <1>3, <1>5, <1>6, ScanFresh

LEMMA WalkFresh ==
  ASSUME KeepInv, FreshInv, NEW p \in Scanners, Walk(p)
  PROVE  FreshInv'
<1> DEFINE taken == Unseen(p, Modified(p))
           S == {Snapshot(x) : x \in taken}
           todo == SetToSeq(S)
<1>1. at[p].pc = "walk" /\ UNCHANGED <<proc, changed, md, index, saved, spoiled>>
      /\ at' = [at EXCEPT ![p].pc = "work", ![p].since = {}, ![p].todo = todo]
  BY DEF Walk
<1>2. WorldOK /\ ScanOK /\ at[p] \in ScannerRecs /\ at \in [Scanners -> ScannerRecs] /\ at[p].since \subseteq Sources
  BY ScannerHas DEF KeepInv, TypeOK
<1>3. taken \subseteq Sources
  <2>1. p = "initial" \/ changed[p] \subseteq Sources
    BY <1>2 DEF WorldOK, Scanners
  <2>2. Modified(p) \subseteq Sources
    BY <1>2, <2>1, SourcesHas DEF Modified
  <2> QED BY <2>2 DEF Unseen
<1>4. \A s, t \in S : s.src = t.src => s = t
  BY DEF Snapshot
<1>5. IsFiniteSet(S)
  BY <1>2, <1>3, SnapshotsListed
<1> HIDE DEF S
<1>6. todo \in Seq(S) /\ \A i, j \in DOMAIN todo : todo[i] = todo[j] => i = j
  BY <1>5, Listed
<1> HIDE DEF todo
<1>7. \A i, j \in DOMAIN todo : todo[i].src = todo[j].src => i = j
  <2>1. \A i \in DOMAIN todo : todo[i] \in S
    BY <1>6
  <2> QED BY <1>4, <1>6, <2>1
<1>8. /\ at'[p].busy = at[p].busy /\ at'[p].hand = at[p].hand /\ at'[p].todo = todo /\ at'[p].pc = "work"
      /\ \A q \in Scanners : q # p => at'[q] = at[q]
  BY <1>1, <1>2 DEF ScannerRecs
<1>9. at[p].busy = {} /\ at[p].hand = <<>>
  BY <1>1 DEF FreshInv, Tidy, TidyOne
<1>10. TidyOne(at'[p])
  BY <1>7, <1>8, <1>9, EmptyHanded DEF TidyOne
<1>11. proc # "process"
  <2>1. p # "initial" => proc = "gateway"
    BY <1>1, <1>2, Running
  <2> QED BY <1>1, <2>1 DEF FreshInv, Unasked
<1> QED BY <1>1, <1>8, <1>10, <1>11, ScanFresh

LEMMA AskFresh ==
  ASSUME KeepInv, FreshInv, Ask
  PROVE  FreshInv'
<1> DEFINE p == "initial"
<1>1. p \in Scanners /\ at[p].pc = "work" /\ UNCHANGED <<proc, md, index, saved, spoiled>> /\ at' = [at EXCEPT ![p].pc = "ask"]
      /\ at[p].todo = <<>> /\ at[p].busy = {}
  BY DEF Scanners, Ask, Worked
<1>2. at[p] \in ScannerRecs /\ at \in [Scanners -> ScannerRecs]
  BY <1>1, ScannerHas DEF KeepInv, TypeOK
<1>3. /\ at'[p].busy = at[p].busy /\ at'[p].hand = at[p].hand /\ at'[p].todo = at[p].todo /\ at'[p].pc = "ask"
      /\ \A q \in Scanners : q # p => at'[q] = at[q]
  BY <1>1, <1>2 DEF ScannerRecs
<1>4. BusyWith(at'[p]) = BusyWith(at[p]) /\ Carried(at'[p]) = Carried(at[p]) /\ HeldBy(at'[p]) = HeldBy(at[p])
  BY <1>3 DEF BusyWith, Carried, HeldBy
<1>5. TidyOne(at'[p])
  BY <1>1, <1>3, <1>4 DEF FreshInv, Tidy, TidyOne
<1>6. proc = "process" => at'["initial"].todo = <<>> /\ at'["initial"].pc # "walk"
  BY <1>3 DEF FreshInv, Unasked
<1> QED BY <1>1, <1>3, <1>5, <1>6, ScanFresh

(* A scanner stores of what it has in hand.                                *)
LEMMA StoreFresh ==
  ASSUME KeepInv, FreshInv, NEW p \in Scanners, proc # "down", at[p].todo = <<>>, at[p].busy = {},
         UNCHANGED <<proc, index, saved, spoiled>>, \A q \in Scanners : q # p => at'[q] = at[q],
         at'[p].todo = <<>>, at'[p].busy = {}, ItemsOf(at'[p].hand) \subseteq ItemsOf(at[p].hand),
         at'[p].pc \notin {"work", "ask"} => at'[p].hand = <<>>, p = "initial" => at'[p].pc # "walk",
         AllPlaced(md') \subseteq AllPlaced(md) \cup {<<Path(m), m>> : m \in ItemsOf(at[p].hand)}
  PROVE  FreshInv'
<1>1. BusyWith(at[p]) = {} /\ BusyWith(at'[p]) = {} /\ Carried(at'[p]) \subseteq Carried(at[p])
      /\ HeldBy(at'[p]) \subseteq HeldBy(at[p])
  <2>1. BusyWith(at[p]) = {} /\ BusyWith(at'[p]) = {}
    BY DEF BusyWith
  <2>2. Carried(at'[p]) \subseteq Carried(at[p])
    BY DEF Carried
  <2> QED BY <2>1, <2>2 DEF HeldBy
<1>2. TidyOne(at'[p])
  BY <1>1 DEF TidyOne
<1>3. Tidy'
  BY <1>2, TidyStays DEF FreshInv
<1>4. Unasked'
  <2> SUFFICES ASSUME proc = "process"
               PROVE  at'["initial"].todo = <<>> /\ at'["initial"].pc # "walk" /\ Files \cap HeldBy(at'["initial"]) \subseteq spoiled
    BY DEF Unasked
  <2>1. CASE p = "initial"
    BY <1>1, <2>1 DEF FreshInv, Unasked
  <2>2. CASE p # "initial"
    BY <2>2 DEF FreshInv, Unasked, Scanners
  <2> QED BY <2>1, <2>2
<1>5. ASSUME NEW f \in Files \ spoiled PROVE FileOK(f)'
  <2>1. FileOK(f) /\ ScanOK
    BY DEF FreshInv, KeepInv, TypeOK
  <2>2. \A q \in Scanners : (f \in BusyWith(at'[q]) <=> f \in BusyWith(at[q])) /\ (f \in Carried(at'[q]) => f \in Carried(at[q]))
    <3> SUFFICES ASSUME NEW q \in Scanners
                 PROVE  (f \in BusyWith(at'[q]) <=> f \in BusyWith(at[q])) /\ (f \in Carried(at'[q]) => f \in Carried(at[q]))
      OBVIOUS
    <3>1. CASE q = p
      BY <1>1, <3>1
    <3>2. CASE q # p
      BY <3>2
    <3> QED BY <3>1, <3>2
  <2>3. \A m \in Hands' : m \in Hands
    <3>1. \A q \in Scanners : ItemsOf(at'[q].hand) \subseteq ItemsOf(at[q].hand)
      OBVIOUS
    <3> QED BY <3>1 DEF Hands
  <2>4. \A y \in AllPlaced(md') :
          \/ y \in AllPlaced(md)
          \/ \E q \in Scanners : at[q].busy = {} /\ \E m \in ItemsOf(at[q].hand) : y = <<Path(m), m>>
    OBVIOUS
  <2> QED BY <2>1, <2>2, <2>3, <2>4, FileStays
<1> QED BY <1>3, <1>4, <1>5 DEF FreshInv

LEMMA StoreBatchFresh ==
  ASSUME KeepInv, FreshInv, NEW p \in {"chats", "files"}, StoreBatch(p)
  PROVE  FreshInv'
<1>1. p \in Scanners /\ p # "initial" /\ at[p].pc = "work" /\ at[p].todo = <<>> /\ at[p].busy = {}
      /\ UNCHANGED <<proc, index, saved, spoiled>> /\ at' = [at EXCEPT ![p].pc = "idle", ![p].hand = <<>>]
  BY DEF Scanners, StoreBatch, Worked
<1>2. WorldOK /\ StoreOK /\ ScanOK /\ DiskOK /\ at[p] \in ScannerRecs /\ at \in [Scanners -> ScannerRecs]
  BY <1>1, ScannerHas DEF KeepInv, TypeOK
<1>3. proc # "down"
  BY <1>1, <1>2, Running
<1>4. AllPlaced(md') \subseteq AllPlaced(md) \cup {<<Path(m), m>> : m \in ItemsOf(at[p].hand)}
  <2>1. PICK order \in SetToAllKPermutations(Groups(at[p].hand)) : md' = StoreInOrder(md, at[p].hand, order)
    BY DEF StoreBatch
  <2> QED BY <1>1, <1>2, <1>3, <2>1, BatchWritten
<1>5. /\ at'[p].busy = {} /\ at'[p].hand = <<>> /\ at'[p].todo = <<>>
      /\ \A q \in Scanners : q # p => at'[q] = at[q]
  BY <1>1, <1>2 DEF ScannerRecs
<1>6. ItemsOf(at'[p].hand) \subseteq ItemsOf(at[p].hand)
  BY <1>5, NoItems
<1> QED BY <1>1, <1>3, <1>4, <1>5, <1>6, StoreFresh

LEMMA AddFresh ==
  ASSUME KeepInv, FreshInv, AddStored \/ AddMemory
  PROVE  FreshInv'
<1> DEFINE p == "initial"  rest == Tail(at[p].hand)
<1>1. p \in Scanners /\ at[p].pc \in {"work", "ask"} /\ UNCHANGED <<proc, index, saved, spoiled>>
      /\ (at' = [at EXCEPT ![p].pc = "work", ![p].hand = rest] \/ at' = [at EXCEPT ![p].hand = rest])
  BY DEF Scanners, AddStored, AddMemory, Worked
<1>2. ScanOK /\ at[p] \in ScannerRecs /\ at \in [Scanners -> ScannerRecs] /\ at[p].hand \in Seq(Memories)
  BY <1>1, ScannerHas DEF KeepInv, TypeOK
<1>3. proc # "down"
  BY <1>1, <1>2, Running
<1>4. AllPlaced(md') \subseteq AllPlaced(md) \cup {<<Path(m), m>> : m \in ItemsOf(at[p].hand)}
  BY AddStoredKeeps, AddMemoryKeeps
<1>5. at[p].todo = <<>> /\ at[p].busy = {} /\ at[p].hand # <<>>
  <2>1. CASE AddStored
    <3>1. at[p].pc = "ask"
      BY <2>1 DEF AddStored
    <3> QED BY <1>1, <1>2, <3>1 DEF FreshInv, Tidy, TidyOne, ScanOK
  <2>2. CASE AddMemory
    BY <2>2 DEF AddMemory, Worked
  <2> QED BY <2>1, <2>2
<1>6. ItemsOf(rest) \subseteq ItemsOf(at[p].hand)
  <2>1. ItemsOf(at[p].hand) = {Head(at[p].hand)} \cup ItemsOf(Tail(at[p].hand))
    BY <1>2, <1>5, TailItems
  <2> QED BY <2>1
<1> HIDE DEF rest
<1>7. /\ at'[p].busy = {} /\ at'[p].hand = rest /\ at'[p].todo = <<>> /\ at'[p].pc \in {"work", "ask"}
      /\ \A q \in Scanners : q # p => at'[q] = at[q]
  <2>1. CASE at' = [at EXCEPT ![p].pc = "work", ![p].hand = rest]
    BY <1>1, <1>2, <1>5, <2>1 DEF ScannerRecs
  <2>2. CASE at' = [at EXCEPT ![p].hand = rest]
    <3>1. at'[p] = [at[p] EXCEPT !.hand = rest] /\ \A q \in Scanners : q # p => at'[q] = at[q]
      BY <1>1, <1>2, <2>2
    <3>2. at'[p].busy = at[p].busy /\ at'[p].hand = rest /\ at'[p].todo = at[p].todo /\ at'[p].pc = at[p].pc
      <4> DEFINE r == at[p]
      <4> HIDE DEF r
      <4>1. r \in ScannerRecs /\ at'[p] = [r EXCEPT !.hand = rest]
        BY <1>2, <3>1 DEF r
      <4>2. at'[p].busy = r.busy /\ at'[p].hand = rest /\ at'[p].todo = r.todo /\ at'[p].pc = r.pc
        BY <4>1 DEF ScannerRecs
      <4> QED BY <4>2 DEF r
    <3> QED BY <1>1, <1>5, <3>1, <3>2
  <2> QED BY <1>1, <2>1, <2>2
<1> QED BY <1>1, <1>3, <1>4, <1>5, <1>6, <1>7, StoreFresh

(* A scanner holds what is to be checked, and what it has.                 *)
LEMMA HoldsIs ==
  ASSUME NEW p, NEW f
  PROVE  Holds(p, f) <=> (\E k \in DOMAIN at[p].todo : at[p].todo[k].src = f) \/ f \in HeldBy(at[p])
BY DEF Holds, HeldBy, BusyWith, Carried, ItemsOf

LEMMA OffTidy ==
  /\ \A p \in Scanners : Off[p].todo = <<>> /\ Off[p].busy = {} /\ Off[p].hand = <<>>
  /\ \A p \in Scanners : TidyOne(Off[p]) /\ HeldBy(Off[p]) = {} /\ BusyWith(Off[p]) = {}
<1>1. \A p \in Scanners : Off[p].todo = <<>> /\ Off[p].busy = {} /\ Off[p].hand = <<>>
  BY DEF Off, Scanner
<1> QED BY <1>1, EmptyHanded

(* When no process runs, only what is on the disk counts.                  *)
LEMMA DownFresh ==
  ASSUME at' = Off, proc' = "down",
         \A f \in Files \ spoiled' : saved'[f] # NotDone => SaysOf(Placed(md'.files), f, saved'[f])
  PROVE  FreshInv'
<1>1. \A p \in Scanners : TidyOne(at'[p]) /\ HeldBy(at'[p]) = {} /\ BusyWith(at'[p]) = {}
  BY OffTidy
<1>2. Tidy'
  BY <1>1 DEF Tidy
<1>3. Unasked'
  BY DEF Unasked
<1>4. ASSUME NEW f \in Files \ spoiled' PROVE FileOK(f)'
  <2>1. OneHolder(f)' /\ ~BusyAny(f)'
    BY <1>1 DEF OneHolder, BusyAny
  <2>2. saved'[f] # NotDone' => SaysOf(Placed(md.files), f, saved[f])'
    <3>1. SaysOf(Placed(md.files), f, saved[f])' <=> SaysOf(Placed(md'.files), f, saved'[f])
      BY DEF SaysOf, Placed
    <3> QED BY <3>1 DEF NotDone
  <2> QED BY <2>1, <2>2 DEF FileOK
<1> QED BY <1>2, <1>3, <1>4 DEF FreshInv

LEMMA InitFresh ==
  ASSUME Init
  PROVE  FreshInv
<1>1. proc = "down" /\ at = Off /\ saved = [x \in Sources |-> NotDone]
  BY DEF Init, InitScan
<1>2. \A p \in Scanners : TidyOne(at[p]) /\ HeldBy(at[p]) = {} /\ BusyWith(at[p]) = {}
  BY <1>1, OffTidy
<1>3. Tidy /\ Unasked
  BY <1>1, <1>2 DEF Tidy, Unasked
<1>4. ASSUME NEW f \in Files PROVE FileOK(f)
  <2>1. OneHolder(f) /\ ~BusyAny(f)
    BY <1>2 DEF OneHolder, BusyAny
  <2>2. saved[f] = NotDone
    BY <1>1 DEF Sources
  <2> QED BY <1>1, <2>1, <2>2 DEF FileOK
<1> QED BY <1>3, <1>4 DEF FreshInv

(* The initial scan goes on, or a command ends and saves the indexes.      *)
LEMMA FinishFresh ==
  ASSUME KeepInv, FreshInv, Finish
  PROVE  FreshInv'
<1> DEFINE p == "initial"
<1>1. p \in Scanners /\ at[p].pc = "work" /\ at[p].hand = <<>> /\ at[p].todo = <<>> /\ at[p].busy = {}
      /\ UNCHANGED <<md, index, spoiled>>
  BY DEF Scanners, Finish, Worked
<1>2. ScanOK /\ at[p] \in ScannerRecs /\ at \in [Scanners -> ScannerRecs]
  BY <1>1, ScannerHas DEF KeepInv, TypeOK
<1>3. proc # "down"
  BY <1>1, <1>2, Running
<1>4. CASE proc' # "down"
  <2>1. proc' = proc /\ saved' = saved /\ proc # "process"
    BY <1>4 DEF Finish
  <2>2. at' = [at EXCEPT ![p] = Scanner("walk", "chat", {})] \/ at' = [at EXCEPT ![p].pc = "off"]
    BY <1>4 DEF Finish
  <2>3. /\ at'[p].busy = {} /\ at'[p].hand = <<>> /\ at'[p].todo = <<>>
        /\ \A q \in Scanners : q # p => at'[q] = at[q]
    <3>1. CASE at' = [at EXCEPT ![p] = Scanner("walk", "chat", {})]
      BY <1>1, <1>2, <3>1 DEF Scanner
    <3>2. CASE at' = [at EXCEPT ![p].pc = "off"]
      BY <1>1, <1>2, <3>2 DEF ScannerRecs
    <3> QED BY <2>2, <3>1, <3>2
  <2>4. TidyOne(at'[p])
    BY <2>3, EmptyHanded
  <2>5. at'[p].busy = at[p].busy /\ at'[p].hand = at[p].hand /\ UNCHANGED <<proc, md, index, saved, spoiled>>
    BY <1>1, <2>1, <2>3
  <2> QED BY <1>1, <2>1, <2>3, <2>4, <2>5, ScanFresh
<1>5. CASE proc' = "down"
  <2>1. at' = Off /\ saved' = index
    BY <1>3, <1>5 DEF Finish
  <2>2. ASSUME NEW f \in Files \ spoiled', saved'[f] # NotDone PROVE SaysOf(Placed(md'.files), f, saved'[f])
    <3>1. SaysOf(AllPlaced(md), f, index[f])
      BY <1>1, <1>3, <2>1, <2>2 DEF FreshInv, FileOK
    <3> QED BY <1>1, <2>1, <3>1 DEF SaysOf, AllPlaced
  <2> QED BY <1>5, <2>1, <2>2, DownFresh
<1> QED BY <1>4, <1>5

(* Whatever a kill leaves behind is of files no scanner had.               *)
LEMMA KillFresh ==
  ASSUME KeepInv, FreshInv, Kill
  PROVE  FreshInv'
<1>1. proc # "down" /\ proc' = "down" /\ at' = Off
      /\ \A x \in Files : (\E p \in Scanners : Holds(p, x)) => x \in spoiled'
  BY DEF Kill
<1>2. spoiled \subseteq spoiled'
  BY DEF Kill
<1>3. \A x \in Sources : saved'[x] = saved[x] \/ saved'[x] = NotDone
  <2>1. saved' = saved \/ \E p \in Scanners : saved' = TornIndex(at[p].kind)
    BY DEF Kill
  <2> QED BY <2>1 DEF TornIndex
<1>4. ASSUME NEW f \in Files \ spoiled', saved'[f] # NotDone PROVE SaysOf(Placed(md'.files), f, saved'[f])
  <2>1. FileOK(f) /\ \A p \in Scanners : f \notin HeldBy(at[p])
    BY <1>1, <1>2, HoldsIs DEF FreshInv
  <2>2. ~BusyAny(f) /\ \A m \in Hands : m.src # f
    BY <2>1 DEF BusyAny, HeldBy, Carried, Hands
  <2>3. saved'[f] = index[f] /\ index[f] # NotDone
    BY <1>1, <1>3, <1>4, <2>1, <2>2 DEF FileOK, Sources
  <2>4. SaysOf(AllPlaced(md), f, index[f])
    BY <1>1, <2>1, <2>3 DEF FileOK
  <2>5. ASSUME NEW y \in Placed(md'.files), y[1] \in FilesOf(f) PROVE y \in AllPlaced(md)
    <3>1. \A m \in Hands : m \in Memories
      BY ScannerHas, IdsAre DEF Hands, KeepInv, TypeOK
    <3>2. ASSUME NEW m \in Hands, y = <<Path(m), m>> PROVE FALSE
      <4>1. Path(m) \in FilesOf(f)
        BY <2>5, <3>2
      <4> QED BY <2>2, <3>1, <4>1, PathHome
    <3> QED BY <3>2, KillKeeps
  <2> QED BY <2>3, <2>4, <2>5 DEF SaysOf
<1> QED BY <1>1, <1>4, DownFresh

LEMMA NewScanner ==
  ASSUME NEW pc, NEW kind, NEW busy
  PROVE  /\ Scanner(pc, kind, busy).todo = <<>> /\ Scanner(pc, kind, busy).hand = <<>>
         /\ Scanner(pc, kind, busy).busy = busy /\ Scanner(pc, kind, busy).pc = pc
BY DEF Scanner

(* A scanner that has at most one source, to extract it.                   *)
Starting(r) ==
  /\ r.todo = <<>> /\ r.hand = <<>>
  /\ r.busy = {} \/ (r.pc = "work" /\ \E b : r.busy = {b})

LEMMA StartTidy ==
  ASSUME NEW r, Starting(r)
  PROVE  TidyOne(r)
<1>1. CASE r.busy = {}
  BY <1>1, EmptyHanded DEF Starting
<1>2. CASE r.pc = "work" /\ \E b : r.busy = {b}
  <2>1. Carried(r) = {} /\ r.todo = <<>>
    BY NoItems DEF Carried, Starting
  <2> QED BY <1>2, <2>1 DEF TidyOne
<1> QED BY <1>1, <1>2 DEF Starting

(* A start reads the index and the files again, as they are on the disk.   *)
LEMMA BootFresh ==
  ASSUME KeepInv, FreshInv, NEW c \in {"gateway", "init", "process"}, Boot(c)
  PROVE  FreshInv'
<1>1. /\ proc = "down" /\ proc' = c /\ saved' = saved /\ index' = saved /\ boots < setup.boots
      /\ md' = [md EXCEPT !.cache = LoadCache(md.files, boots + 1)]
      /\ spoiled' = IF c = "process" THEN spoiled \cup {x \in Sources : Holds("initial", x)'} ELSE spoiled
      /\ at' \in (CASE c = "gateway" -> {GatewayScanners}
                    [] c = "init" -> {InitScanners}
                    [] OTHER -> {ProcessScanners(x) : x \in setup.sources})
  BY DEF Boot
<1>2. WorldOK /\ StoreOK /\ ScanOK /\ DiskOK
  BY DEF KeepInv, TypeOK
<1>3. ASSUME NEW p \in Scanners
      PROVE  /\ Starting(at'[p]) /\ (at'[p].busy # {} => p = "initial" /\ c = "process")
             /\ p = "initial" /\ c = "process" => at'[p].pc # "walk"
  <2>1. Off[p].todo = <<>> /\ Off[p].busy = {} /\ Off[p].hand = <<>> /\ Off[p] \in ScannerRecs /\ Off \in [Scanners -> ScannerRecs]
    BY OffTidy, OffIs
  <2>2. CASE c = "gateway"
    <3> DEFINE pc == IF p = "initial" THEN "walk" ELSE "idle"  kind == Off[p].kind
    <3>1. at'[p] = Scanner(pc, kind, {})
      BY <1>1, <2>2 DEF GatewayScanners
    <3> HIDE DEF pc, kind
    <3>2. at'[p].todo = <<>> /\ at'[p].hand = <<>> /\ at'[p].busy = {}
      BY <3>1, NewScanner
    <3> QED BY <2>2, <3>2 DEF Starting
  <2>3. CASE c = "init"
    <3>1. at' = [Off EXCEPT !["initial"].pc = "walk"]
      BY <1>1, <2>3 DEF InitScanners
    <3> DEFINE r == Off[p]
    <3> HIDE DEF Off
    <3>2. at'[p] = r \/ at'[p] = [r EXCEPT !.pc = "walk"]
      BY <2>1, <3>1
    <3>3. r \in ScannerRecs /\ r.todo = <<>> /\ r.busy = {} /\ r.hand = <<>>
      BY <2>1
    <3> HIDE DEF r
    <3>4. at'[p].todo = <<>> /\ at'[p].busy = {} /\ at'[p].hand = <<>>
      BY <3>2, <3>3 DEF ScannerRecs
    <3> QED BY <2>3, <3>4 DEF Starting
  <2>4. CASE c = "process"
    <3>1. PICK x \in setup.sources : at' = ProcessScanners(x)
      BY <1>1, <2>4
    <3> DEFINE kind == IF x \in Chats THEN "chat" ELSE "file"  b == Snapshot(x)
    <3>2. at' = [Off EXCEPT !["initial"] = Scanner("work", kind, {b})]
      BY <3>1 DEF ProcessScanners
    <3> HIDE DEF Off, kind, b
    <3>3. CASE p = "initial"
      <4>1. at'[p] = Scanner("work", kind, {b})
        BY <2>1, <3>2, <3>3
      <4>2. at'[p].todo = <<>> /\ at'[p].hand = <<>> /\ at'[p].busy = {b} /\ at'[p].pc = "work"
        BY <4>1, NewScanner
      <4> QED BY <2>4, <3>3, <4>2 DEF Starting
    <3>4. CASE p # "initial"
      <4>1. at'[p] = Off[p]
        BY <2>1, <3>2, <3>4
      <4> QED BY <2>1, <3>4, <4>1 DEF Starting
    <3> QED BY <3>3, <3>4
  <2> QED BY <2>2, <2>3, <2>4
<1>4. \A p \in Scanners : Carried(at'[p]) = {}
  BY <1>3, NoItems DEF Carried, Starting
<1>5. Tidy'
  BY <1>3, StartTidy DEF Tidy
<1>6. c = "process" => \A x \in Files : x \in HeldBy(at'["initial"]) => x \in spoiled'
  <2>1. \A x : x \in HeldBy(at'["initial"]) => Holds("initial", x)'
    BY DEF Holds, HeldBy, BusyWith, Carried, ItemsOf
  <2> QED BY <1>1, <2>1 DEF Sources
<1>7. Unasked'
  <2> SUFFICES ASSUME c = "process"
               PROVE  at'["initial"].todo = <<>> /\ at'["initial"].pc # "walk" /\ Files \cap HeldBy(at'["initial"]) \subseteq spoiled'
    BY <1>1 DEF Unasked
  <2> QED BY <1>3, <1>6 DEF Scanners, Starting
<1>8. /\ md'.files = md.files /\ DOMAIN md.files \subseteq Paths
      /\ \A y \in AllPlaced(md') : \E z \in Placed(md.files) : z[1] = y[1] /\ z[2].text = y[2].text
  <2> DEFINE n == boots + 1  fs == md.files  cache == LoadCache(fs, n)
  <2>1. n \in Nat
    <3>1. setup.boots \in Nat /\ boots \in 0..setup.boots
      BY <1>2, SetupsAssumption DEF WorldOK, ScanOK
    <3> QED BY <3>1
  <2>2. fs \in Disks /\ Homely(fs)
    BY <1>2, DiskIs DEF StoreOK, DiskOK
  <2>3. md'.files = fs /\ md'.cache = cache
    BY <1>1, <1>2 DEF StoreOK
  <2> HIDE DEF n, fs
  <2>4. \A y \in Placed(cache) : y[1] \in DOMAIN fs /\ \E k \in DOMAIN fs[y[1]] : ReadAs(y[1], fs[y[1]][k], y[2])
    BY <2>1, <2>2, LoadedCache
  <2> HIDE DEF cache
  <2>5. ASSUME NEW y \in Placed(cache) PROVE \E z \in Placed(fs) : z[1] = y[1] /\ z[2].text = y[2].text
    <3>1. PICK k \in DOMAIN fs[y[1]] : ReadAs(y[1], fs[y[1]][k], y[2])
      BY <2>4, <2>5
    <3> DEFINE m == fs[y[1]][k]  z == <<y[1], m>>
    <3>2. z \in Placed(fs) /\ z[1] = y[1] /\ z[2] = m
      BY <2>2, <2>4, <2>5, <3>1, PlacedIs
    <3>3. m.text = y[2].text
      BY <3>1 DEF ReadAs
    <3> HIDE DEF z, m
    <3> QED BY <3>2, <3>3
  <2>6. AllPlaced(md') = Placed(fs) \cup Placed(cache)
    BY <2>3 DEF AllPlaced
  <2>7. DOMAIN fs \subseteq Paths
    BY <2>2, DiskIs DEF IsDisk
  <2> QED BY <2>3, <2>5, <2>6, <2>7 DEF fs
<1>9. ASSUME NEW f \in Files \ spoiled' PROVE FileOK(f)'
  <2>1. FileOK(f)
    BY <1>1 DEF FreshInv
  <2>2. \A p \in Scanners : f \notin HeldBy(at'[p])
    <3> SUFFICES ASSUME NEW p \in Scanners, f \in HeldBy(at'[p]) PROVE FALSE
      OBVIOUS
    <3>1. at'[p].busy # {}
      BY <1>4 DEF HeldBy, BusyWith
    <3> QED BY <1>3, <1>6, <3>1
  <2>3. OneHolder(f)' /\ ~BusyAny(f)'
    BY <2>2 DEF OneHolder, BusyAny, HeldBy
  <2>4. Hands' = {}
    BY <1>3, NoItems DEF Hands, Starting
  <2>5. ASSUME saved[f] # NotDone PROVE SaysOf(AllPlaced(md'), f, saved[f])
    <3>1. SaysOf(Placed(md.files), f, saved[f])
      BY <1>1, <2>1, <2>5 DEF FileOK
    <3>2. ASSUME NEW y \in AllPlaced(md'), y[1] \in FilesOf(f) PROVE y[2].text = saved[f]
      <4>1. PICK z \in Placed(md.files) : z[1] = y[1] /\ z[2].text = y[2].text
        BY <1>8, <3>2
      <4> QED BY <3>1, <3>2, <4>1 DEF SaysOf
    <3> QED BY <3>2 DEF SaysOf
  <2>6. SaysOf(AllPlaced(md), f, index[f])' <=> SaysOf(AllPlaced(md'), f, saved[f])
    BY <1>1 DEF SaysOf
  <2> QED BY <1>1, <2>3, <2>4, <2>5, <2>6 DEF FileOK, NotDone
<1> QED BY <1>5, <1>7, <1>9 DEF FreshInv

(* A source that has changed is taken from the list; of a file nothing is  *)
(* left in the store and in the index.                                     *)
LEMMA CheckFresh ==
  ASSUME KeepInv, FreshInv, NEW p \in Scanners, Check(p)
  PROVE  FreshInv'
<1> DEFINE x == Head(at[p].todo)
           todo == Tail(at[p].todo)
           due == Due(x)
           others == \E q \in Scanners \ {p} : Holds(q, x.src)
           busy == IF due THEN at[p].busy \cup {x} ELSE at[p].busy
<1>1. ScanOK /\ StoreOK /\ DiskOK /\ IndexOK
  BY DEF KeepInv, TypeOK
<1>2. at[p] \in ScannerRecs /\ at \in [Scanners -> ScannerRecs] /\ at[p].pc = "work" /\ at[p].todo # <<>>
      /\ at[p].todo \in Seq(Snapshots) /\ at[p].busy \subseteq Snapshots
  BY <1>1, ScannerHas DEF Check
<1>3. proc # "down" /\ proc # "process" /\ proc' = proc /\ saved' = saved
  <2>1. proc # "down" /\ (p # "initial" => proc = "gateway")
    BY <1>1, <1>2, Running
  <2> QED BY <1>2, <2>1 DEF FreshInv, Unasked, Check
<1>4. /\ at' = [at EXCEPT ![p].todo = todo, ![p].busy = busy]
      /\ md' = IF due /\ x.src \in Files THEN DeleteFile(md, x.src) ELSE md
      /\ index' = IF due /\ x.src \in Files THEN [index EXCEPT ![x.src] = NotDone] ELSE index
      /\ spoiled' = IF ~due THEN spoiled
                    ELSE IF others THEN spoiled \cup {x.src}
                    ELSE IF x.edit = edit[x.src] THEN spoiled \ {x.src} ELSE spoiled
  BY <1>2 DEF Check
<1>5. /\ \A i \in DOMAIN todo : i + 1 \in DOMAIN at[p].todo /\ todo[i] = at[p].todo[i + 1] /\ i + 1 # 1 /\ i \in Nat
      /\ 1 \in DOMAIN at[p].todo /\ x = at[p].todo[1] /\ x \in Snapshots /\ todo \in Seq(Snapshots)
  BY <1>2
<1> HIDE DEF x, todo, due, others, busy
<1>6. /\ at'[p].todo = todo /\ at'[p].busy = busy /\ at'[p].hand = at[p].hand /\ at'[p].pc = "work"
      /\ \A q \in Scanners : q # p => at'[q] = at[q]
  BY <1>2, <1>4 DEF ScannerRecs
<1>7. TidyOne(at[p])
  BY DEF FreshInv, Tidy
<1>8. x.src \notin HeldBy(at[p])
  BY <1>5, <1>7 DEF TidyOne
<1>9. Carried(at'[p]) = Carried(at[p]) /\ BusyWith(at'[p]) = BusyWith(at[p]) \cup (IF due THEN {x.src} ELSE {})
  <2>1. Carried(at'[p]) = Carried(at[p])
    BY <1>6 DEF Carried
  <2>2. BusyWith(at'[p]) = BusyWith(at[p]) \cup (IF due THEN {x.src} ELSE {})
    BY <1>6 DEF BusyWith, busy
  <2> QED BY <2>1, <2>2
<1>10. TidyOne(at'[p])
  <2>1. \A i, j \in DOMAIN todo : todo[i].src = todo[j].src => i = j
    <3> SUFFICES ASSUME NEW i \in DOMAIN todo, NEW j \in DOMAIN todo, todo[i].src = todo[j].src PROVE i = j
      OBVIOUS
    <3>1. at[p].todo[i + 1].src = at[p].todo[j + 1].src
      BY <1>5
    <3>2. i + 1 = j + 1
      BY <1>5, <1>7, <3>1 DEF TidyOne
    <3> QED BY <1>5, <3>2
  <2>2. \A i \in DOMAIN todo : todo[i].src \notin HeldBy(at[p]) /\ todo[i].src # x.src
    <3> SUFFICES ASSUME NEW i \in DOMAIN todo PROVE todo[i].src \notin HeldBy(at[p]) /\ todo[i].src # x.src
      OBVIOUS
    <3>1. todo[i].src = at[p].todo[i + 1].src /\ i + 1 \in DOMAIN at[p].todo /\ i + 1 # 1
      BY <1>5
    <3> QED BY <1>5, <1>7, <3>1 DEF TidyOne
  <2>3. HeldBy(at'[p]) \subseteq HeldBy(at[p]) \cup {x.src}
    BY <1>9 DEF HeldBy
  <2>4. BusyWith(at'[p]) \cap Carried(at'[p]) = {}
    BY <1>7, <1>8, <1>9 DEF TidyOne, HeldBy
  <2>5. \A b, c \in at'[p].busy : b.src = c.src => b = c
    <3>1. \A b \in at[p].busy : b.src # x.src
      BY <1>8 DEF HeldBy, BusyWith
    <3> QED BY <1>6, <1>7, <3>1 DEF TidyOne, busy
  <2>6. \A i \in DOMAIN at'[p].todo : at'[p].todo[i].src \notin HeldBy(at'[p])
    BY <1>6, <2>2, <2>3
  <2> QED BY <1>6, <2>1, <2>4, <2>5, <2>6 DEF TidyOne
<1>11. Tidy'
  BY <1>6, <1>10, TidyStays DEF FreshInv
<1>12. Unasked'
  BY <1>3 DEF Unasked
<1>13. Hands' = Hands
  BY <1>6 DEF Hands
<1>14. ASSUME NEW f \in Files \ spoiled' PROVE FileOK(f)'
  <2>1. CASE ~due
    <3>1. UNCHANGED <<proc, md, index, saved>> /\ f \in Files \ spoiled /\ \A q \in Scanners : at'[q].busy = at[q].busy /\ at'[q].hand = at[q].hand
      BY <1>3, <1>4, <1>6, <2>1 DEF busy
    <3> QED BY <3>1, CalmFile DEF FreshInv
  <2>2. CASE due /\ f # x.src
    <3>1. f \in Files \ spoiled /\ index'[f] = index[f] /\ saved'[f] \in {saved[f], index[f]}
      BY <1>3, <1>4, <2>2
    <3>2. \A q \in Scanners : (f \in BusyWith(at'[q]) <=> f \in BusyWith(at[q])) /\ (f \in Carried(at'[q]) => f \in Carried(at[q]))
      <4> SUFFICES ASSUME NEW q \in Scanners
                   PROVE  (f \in BusyWith(at'[q]) <=> f \in BusyWith(at[q])) /\ (f \in Carried(at'[q]) => f \in Carried(at[q]))
        OBVIOUS
      <4>1. CASE q = p
        BY <1>9, <2>2, <4>1
      <4>2. CASE q # p
        BY <1>6, <4>2
      <4> QED BY <4>1, <4>2
    <3>3. \A y \in AllPlaced(md') : y \in AllPlaced(md)
      <4>1. Sound(md)
        BY <1>1, <1>3, SoundNow
      <4> QED BY <1>4, <4>1, FileDeleted
    <3> QED BY <1>1, <1>3, <1>13, <3>1, <3>2, <3>3, FileStays DEF FreshInv
  <2>3. CASE due /\ f = x.src
    <3>1. ~others
      BY <1>4, <1>14, <2>3
    <3>2. \A q \in Scanners : q # p => f \notin HeldBy(at'[q])
      BY <1>6, <2>3, <3>1, HoldsIs DEF others
    <3>3. OneHolder(f)' /\ BusyAny(f)'
      <4>1. f \in BusyWith(at'[p])
        BY <1>9, <2>3
      <4> QED BY <3>2, <4>1 DEF OneHolder, BusyAny
    <3>4. index'[f] = NotDone /\ \A y \in AllPlaced(md') : y[1] \notin FilesOf(f)
      <4>1. Sound(md) /\ f \in Files /\ f \in Sources
        BY <1>1, <1>3, SoundNow DEF Sources
      <4>2. md' = DeleteFile(md, f) /\ index' = [index EXCEPT ![f] = NotDone]
        BY <1>4, <2>3, <4>1
      <4>3. index'[f] = NotDone
        BY <1>1, <4>1, <4>2 DEF IndexOK
      <4> QED BY <4>1, <4>2, <4>3, FileDeleted
    <3> QED BY <1>3, <3>3, <3>4 DEF FileOK, NotDone
  <2> QED BY <2>1, <2>2, <2>3
<1> QED BY <1>11, <1>12, <1>14 DEF FreshInv

(* What is made of a file in one goroutine is about the content that is    *)
(* then marked.                                                            *)
LEMMA ExtractFresh ==
  ASSUME KeepInv, FreshInv, NEW p \in Scanners, Extract(p)
  PROVE  FreshInv'
<1>1. WorldOK /\ ScanOK /\ IndexOK
  BY DEF KeepInv, TypeOK
<1>2. UNCHANGED <<proc, md, spoiled>> /\ at[p].pc = "work"
  BY DEF Extract
<1>3. PICK x \in at[p].busy : \E new \in Seq(Memories) :
           /\ Given(p, x, new) /\ x \in Snapshots /\ x.src \in Sources /\ x.content \in Lengths \cup Texts
           /\ AreFrom(new, made + 1, x.src, x.content)
  BY <1>1, Extracting
<1>4. PICK new \in Seq(Memories) : Given(p, x, new) /\ AreFrom(new, made + 1, x.src, x.content)
  BY <1>3
<1> DEFINE src == x.src  text == x.content
<1>5. src \in Sources
  BY <1>3
<1>6. \A m \in ItemsOf(new) : m.src = src /\ (src \in Files => m.text = text)
  BY <1>4 DEF AreFrom, ItemsOf
<1>7. at[p] \in ScannerRecs /\ at \in [Scanners -> ScannerRecs] /\ at[p].hand \in Seq(Memories)
  BY <1>1, ScannerHas
<1>8. /\ at'[p].todo = at[p].todo /\ at'[p].busy = at[p].busy \ {x} /\ at'[p].hand = at[p].hand \o new /\ at'[p].pc = "work"
      /\ \A q \in Scanners : q # p => at'[q] = at[q]
  <2> DEFINE both == at[p].hand \o new  busy == at[p].busy \ {x}
  <2>1. at' = [at EXCEPT ![p].busy = busy, ![p].hand = both]
    BY <1>4, <1>7 DEF Given
  <2> HIDE DEF both, busy
  <2>2. /\ at'[p].todo = at[p].todo /\ at'[p].busy = busy /\ at'[p].hand = both /\ at'[p].pc = "work"
        /\ \A q \in Scanners : q # p => at'[q] = at[q]
    BY <1>2, <1>7, <2>1 DEF ScannerRecs
  <2> QED BY <2>2 DEF both, busy
<1>9. ItemsOf(at'[p].hand) = ItemsOf(at[p].hand) \cup ItemsOf(new)
  BY <1>7, <1>8, JoinItems
<1>10. /\ index' = IF proc = "process" THEN index ELSE Marked(x)
       /\ saved' = IF proc = "process" THEN saved ELSE SavedWith(x)
  BY <1>4 DEF Given
<1>11. TidyOne(at[p]) /\ src \in BusyWith(at[p])
  BY <1>3 DEF FreshInv, Tidy, BusyWith
<1> HIDE DEF src, text
<1>12. BusyWith(at'[p]) = BusyWith(at[p]) \ {src} /\ Carried(at'[p]) \subseteq Carried(at[p]) \cup {src}
       /\ HeldBy(at'[p]) \subseteq HeldBy(at[p])
  <2>1. BusyWith(at'[p]) = BusyWith(at[p]) \ {src}
    <3>1. \A b \in at[p].busy : b.src = src <=> b = x
      BY <1>3, <1>11 DEF TidyOne, src
    <3> QED BY <1>8, <3>1 DEF BusyWith
  <2>2. Carried(at'[p]) \subseteq Carried(at[p]) \cup {src}
    BY <1>6, <1>9 DEF Carried
  <2> QED BY <1>11, <2>1, <2>2 DEF HeldBy
<1>13. TidyOne(at'[p])
  <2>1. BusyWith(at'[p]) \cap Carried(at'[p]) = {}
    BY <1>11, <1>12 DEF TidyOne
  <2>2. \A b, c \in at'[p].busy : b.src = c.src => b = c
    BY <1>8, <1>11 DEF TidyOne
  <2> QED BY <1>8, <1>11, <1>12, <2>1, <2>2 DEF TidyOne
<1>14. Tidy'
  BY <1>8, <1>13, TidyStays DEF FreshInv
<1>15. \A q \in Scanners : HeldBy(at'[q]) \subseteq HeldBy(at[q])
  BY <1>8, <1>12
<1>16. proc = "process" => p = "initial"
  BY <1>1, <1>2, Running
<1>17. Unasked'
  <2> SUFFICES ASSUME proc = "process"
               PROVE  at'["initial"].todo = <<>> /\ at'["initial"].pc # "walk" /\ Files \cap HeldBy(at'["initial"]) \subseteq spoiled
    BY <1>2 DEF Unasked
  <2> QED BY <1>8, <1>12, <1>16 DEF FreshInv, Unasked
<1>18. ASSUME NEW f \in Files \ spoiled PROVE FileOK(f)'
  <2>1. FileOK(f)
    BY DEF FreshInv
  <2>2. proc # "down"
    BY <1>1, <1>2, Running
  <2>3. CASE f # src
    <3>1. index'[f] = index[f]
      BY <1>10, <2>3 DEF Marked, src
    <3>2. saved'[f] \in {saved[f], index[f]}
      BY <1>10, <2>3 DEF Marked, SavedWith, Sources, src
    <3>3. \A q \in Scanners : (f \in BusyWith(at'[q]) <=> f \in BusyWith(at[q])) /\ (f \in Carried(at'[q]) => f \in Carried(at[q]))
      <4> SUFFICES ASSUME NEW q \in Scanners
                   PROVE  (f \in BusyWith(at'[q]) <=> f \in BusyWith(at[q])) /\ (f \in Carried(at'[q]) => f \in Carried(at[q]))
        OBVIOUS
      <4>1. CASE q = p
        BY <1>12, <2>3, <4>1
      <4>2. CASE q # p
        BY <1>8, <4>2
      <4> QED BY <4>1, <4>2
    <3>4. ASSUME NEW m \in Hands', m.src = f PROVE m \in Hands
      <4>1. PICK q \in Scanners : m \in ItemsOf(at'[q].hand)
        BY <3>4 DEF Hands
      <4>2. m \in ItemsOf(at[q].hand)
        BY <1>6, <1>8, <1>9, <2>3, <3>4, <4>1
      <4> QED BY <4>2 DEF Hands
    <3>5. AllPlaced(md') = AllPlaced(md)
      BY <1>2
    <3> QED BY <1>1, <1>2, <2>1, <2>2, <3>1, <3>2, <3>3, <3>4, <3>5, FileStays
  <2>4. CASE f = src
    <3>1. f \in BusyWith(at[p]) /\ f \in HeldBy(at[p]) /\ f \notin Carried(at[p])
      BY <1>11, <2>4 DEF TidyOne, HeldBy
    <3>2. \A q \in Scanners : q # p => f \notin HeldBy(at[q])
      BY <2>1, <3>1 DEF FileOK, OneHolder
    <3>3. proc # "process"
      BY <1>16, <3>1 DEF FreshInv, Unasked
    <3>4. index'[f] = text /\ saved'[f] = text
      <4>1. f \in Sources /\ src \notin Chats
        BY <2>4, SourcesAssumption DEF Sources
      <4>2. Marked(x)[f] = text
        BY <1>1, <2>4, <4>1 DEF Marked, IndexOK, src, text
      <4>3. SavedWith(x)[f] = text
        BY <2>4, <4>1, <4>2 DEF SavedWith, SameKind, src
      <4> QED BY <1>10, <3>3, <4>2, <4>3
    <3>5. OneHolder(f)' /\ ~BusyAny(f)'
      <4>1. OneHolder(f)'
        BY <1>15, <2>1 DEF FileOK, OneHolder
      <4>2. ~BusyAny(f)'
        BY <1>8, <1>12, <2>4, <3>2 DEF BusyAny, HeldBy
      <4> QED BY <4>1, <4>2
    <3>6. \A y \in AllPlaced(md') : y[1] \notin FilesOf(f)
      BY <1>2, <2>1, <3>1 DEF FileOK, BusyAny
    <3>7. ASSUME NEW m \in Hands', m.src = f PROVE m.text = text
      <4>1. PICK q \in Scanners : m \in ItemsOf(at'[q].hand)
        BY DEF Hands
      <4>2. m \notin ItemsOf(at[q].hand)
        BY <3>1, <3>2, <3>7, <4>1 DEF HeldBy, Carried
      <4>3. m \in ItemsOf(new)
        BY <1>8, <1>9, <4>1, <4>2
      <4> QED BY <1>6, <2>4, <4>3
    <3>8. SaysOf(AllPlaced(md), f, index[f])'
      BY <3>6 DEF SaysOf
    <3> QED BY <1>2, <2>2, <3>4, <3>5, <3>7, <3>8 DEF FileOK
  <2> QED BY <2>3, <2>4
<1> QED BY <1>2, <1>14, <1>17, <1>18 DEF FreshInv

LEMMA NextFresh ==
  ASSUME KeepInv, FreshInv, [Next]_vars
  PROVE  FreshInv'
<1>1. CASE UNCHANGED vars
  BY <1>1, CalmFresh DEF vars
<1>2. ASSUME NEW x \in Sources, Edit(x) PROVE FreshInv'
  BY <1>2, CalmFresh DEF Edit
<1>3. ASSUME NEW c \in {"gateway", "init", "process"}, Boot(c) PROVE FreshInv'
  BY <1>3, BootFresh
<1>4. ASSUME NEW p \in {"chats", "files"}, Tick(p) \/ StoreBatch(p) PROVE FreshInv'
  BY <1>4, TickFresh, StoreBatchFresh
<1>5. ASSUME NEW p \in Scanners, Walk(p) \/ Check(p) \/ Extract(p) PROVE FreshInv'
  BY <1>5, WalkFresh, CheckFresh, ExtractFresh
<1>6. CASE Ask \/ AddStored \/ AddMemory \/ Finish
  BY <1>6, AskFresh, AddFresh, FinishFresh
<1>7. CASE Cleanup \/ StartSearch \/ SearchStep
  BY <1>7, CalmFresh DEF Cleanup, StartSearch, SearchStep
<1>8. CASE Kill
  BY <1>8, KillFresh
<1> QED BY <1>1, <1>2, <1>3, <1>4, <1>5, <1>6, <1>7, <1>8 DEF Next

(* The Markdown of a file no scanner has is about the content the index    *)
(* says was processed (processBatchParallel, DeleteFileMemories,           *)
(* MarkFileProcessed), unless two scanners had it at once or a kill cut    *)
(* its processing short.                                                   *)
THEOREM FilesFresh == Spec => []FileFresh
<1>1. Init => KeepInv /\ FreshInv
  BY InitKeeps, InitFresh
<1>2. KeepInv /\ FreshInv /\ [Next]_vars => (KeepInv /\ FreshInv)'
  BY NextKeeps, NextFresh
<1>3. KeepInv /\ FreshInv => FileFresh
  <2> SUFFICES ASSUME KeepInv, FreshInv, proc = "gateway", NEW f \in Files \ spoiled, index[f] # NotDone,
                      NEW path \in FilesOf(f) \cap DOMAIN md.files, NEW k \in DOMAIN md.files[path]
               PROVE  md.files[path][k].text = index[f]
    BY DEF FileFresh
  <2>1. md.files \in Disks
    BY DiskIs DEF KeepInv, TypeOK, StoreOK
  <2> DEFINE m == md.files[path][k]  y == <<path, m>>
  <2>2. y \in Placed(md.files) /\ y[1] = path /\ y[2] = m
    BY <2>1, PlacedIs
  <2>3. SaysOf(AllPlaced(md), f, index[f])
    BY DEF FreshInv, FileOK
  <2> HIDE DEF m, y
  <2> QED BY <2>2, <2>3 DEF SaysOf, AllPlaced, m
<1> QED BY <1>1, <1>2, <1>3, PTL DEF Spec

-----------------------------------------------------------------------------
(* Searches.  The best n of finitely many hits: one more at a time, each   *)
(* the best of the rest.                                                   *)
LEMMA BestOne ==
  ASSUME NEW S, IsFiniteSet(S), S # {}, \A h \in S : h.score \in Int
  PROVE  \E g \in S : \A h \in S : g.score >= h.score
<1> DEFINE n == Cardinality(S)
<1>1. n \in Nat /\ \E f : f \in Bijection(1..n, S)
  BY FS_CardinalityType DEF ExistsBijection
<1>2. PICK f : f \in Bijection(1..n, S)
  BY <1>1
<1> HIDE DEF n
<1>3. /\ \A i \in 1..n : f[i] \in S
      /\ \A h \in S : \E i \in 1..n : f[i] = h
  BY <1>2 DEF Bijection, Injection, Surjection
<1> DEFINE G == {i \in 0..n : \A k \in 1..i : \E g \in S : \A j \in 1..i : g.score >= f[j].score}
<1>4. 0 \in G
  BY <1>1
<1>5. ASSUME NEW i \in 1..n, i - 1 \in G PROVE i \in G
  <2>1. \E g \in S : \A j \in 1..i : g.score >= f[j].score
    <3>1. CASE i = 1
      <4>1. f[1] \in S /\ f[1].score \in Int
        BY <1>3, <3>1
      <4>2. \A j \in 1..i : f[j] = f[1]
        BY <3>1
      <4>3. f[1].score >= f[1].score
        BY <4>1
      <4> QED BY <4>1, <4>2, <4>3
    <3>2. CASE i # 1
      <4>1. 1 \in 1..(i - 1)
        BY <3>2
      <4>2. PICK g \in S : \A j \in 1..(i - 1) : g.score >= f[j].score
        BY <1>5, <4>1
      <4>3. f[i] \in S /\ f[i].score \in Int /\ g.score \in Int /\ \A j \in 1..i : f[j].score \in Int
        <5>1. \A j \in 1..i : j \in 1..n
          BY <1>1
        <5> QED BY <1>3, <4>2, <5>1
      <4> DEFINE a == f[i].score  b == g.score
      <4>4. CASE b >= a
        <5>1. \A j \in 1..i : b >= f[j].score
          BY <4>2, <4>3, <4>4
        <5> QED BY <4>2, <5>1
      <4>5. CASE a > b
        <5>1. \A j \in 1..i : a >= f[j].score
          BY <4>2, <4>3, <4>5
        <5> QED BY <4>3, <5>1
      <4> QED BY <4>3, <4>4, <4>5
    <3> QED BY <3>1, <3>2
  <2>2. i \in 0..n
    OBVIOUS
  <2> QED BY <2>1, <2>2
<1>6. n \in G
  <2> HIDE DEF G
  <2>1. \A i \in 0..n : i \in G
    BY <1>1, <1>4, <1>5, Upwards
  <2> QED BY <1>1, <2>1
<1>7. n # 0
  BY FS_EmptySet DEF n
<1>8. \E g \in S : \A j \in 1..n : g.score >= f[j].score
  BY <1>1, <1>6, <1>7
<1> QED BY <1>3, <1>8

LEMMA TopExists ==
  ASSUME NEW S, IsFiniteSet(S), \A h \in S : h.score \in Int, NEW n \in 0..Cardinality(S)
  PROVE  \E top \in SUBSET S : Cardinality(top) = n /\ \A h \in top, g \in S \ top : h.score >= g.score
<1> DEFINE Top(top, i) == Cardinality(top) = i /\ \A h \in top, g \in S \ top : h.score >= g.score
           c == Cardinality(S)
           G == {i \in 0..c : \E top \in SUBSET S : Top(top, i)}
<1>1. c \in Nat
  BY FS_CardinalityType
<1> HIDE DEF c
<1>2. 0 \in G
  <2>1. Top({}, 0)
    BY FS_EmptySet
  <2> QED BY <1>1, <2>1
<1>3. ASSUME NEW i \in 1..c, i - 1 \in G PROVE i \in G
  <2>1. PICK top \in SUBSET S : Top(top, i - 1)
    BY <1>3
  <2> DEFINE rest == S \ top
  <2>2. IsFiniteSet(top) /\ IsFiniteSet(rest)
    BY FS_Subset
  <2>3. rest # {}
    <3>1. rest = {} => top = S
      OBVIOUS
    <3> QED BY <1>1, <1>3, <2>1, <3>1 DEF c
  <2>4. PICK g \in rest : \A h \in rest : g.score >= h.score
    <3>1. \A h \in rest : h.score \in Int
      OBVIOUS
    <3> HIDE DEF rest
    <3> QED BY <2>2, <2>3, <3>1, BestOne
  <2> DEFINE more == top \cup {g}
  <2>5. Cardinality(more) = i
    <3>1. Cardinality(more) = Cardinality(top) + 1
      BY <2>2, <2>4, FS_AddElement
    <3> QED BY <1>3, <2>1, <3>1
  <2>6. \A h \in more, x \in S \ more : h.score >= x.score
    BY <2>1, <2>4
  <2>7. more \in SUBSET S /\ Top(more, i)
    BY <2>4, <2>5, <2>6
  <2> HIDE DEF Top, more
  <2> QED BY <2>7
<1>4. \A i \in 0..c : i \in G
  <2> HIDE DEF G
  <2> QED BY <1>1, <1>2, <1>3, Upwards
<1> QED BY <1>4 DEF c

LEMMA BestHas ==
  ASSUME NEW S, IsFiniteSet(S), \A h \in S : h.score \in Int, NEW n \in Nat
  PROVE  /\ Best(n, S) \subseteq S /\ IsFiniteSet(Best(n, S)) /\ Cardinality(Best(n, S)) <= n
         /\ Cardinality(S) <= n => Best(n, S) = S
<1> DEFINE c == Cardinality(S)  m == Min({n, c})
           Top(top) == Cardinality(top) = m /\ \A h \in top, g \in S \ top : h.score >= g.score
<1>1. c \in Nat
  BY FS_CardinalityType
<1>2. m \in {n, c} /\ m <= n /\ m <= c
  <2>1. \E x \in {n, c} : \A y \in {n, c} : x <= y
    <3> HIDE DEF c
    <3> QED BY <1>1
  <2> DEFINE T == {n, c}
  <2>2. m = CHOOSE x \in T : \A y \in T : x <= y
    BY DEF Min
  <2> HIDE DEF T, m
  <2>3. m \in T /\ \A y \in T : m <= y
    BY <2>1, <2>2 DEF T
  <2> QED BY <2>3 DEF T
<1> HIDE DEF m
<1>3. \E top \in SUBSET S : Top(top)
  <2>1. m \in 0..Cardinality(S)
    BY <1>1, <1>2
  <2> QED BY <2>1, TopExists
<1>4. Best(n, S) = CHOOSE top \in SUBSET S : Top(top)
  BY DEF Best, m
<1> HIDE DEF Top
<1>5. Best(n, S) \in SUBSET S /\ Top(Best(n, S))
  BY <1>3, <1>4
<1>6. Cardinality(Best(n, S)) = m
  BY <1>5 DEF Top
<1>7. IsFiniteSet(Best(n, S)) /\ (Cardinality(S) = Cardinality(Best(n, S)) => S = Best(n, S))
  BY <1>5, FS_Subset
<1>8. Cardinality(S) <= n => m = Cardinality(S)
  BY <1>1, <1>2 DEF c
<1> QED BY <1>2, <1>5, <1>6, <1>7, <1>8
(* What may be shown: documents with a vector, and those the query is      *)
(* found in.                                                               *)
Asked(n, u, t) == [limit |-> n, user |-> u, type |-> t]
VecHit(d) == Hit(d, Near[d.text], SourceType(d))
TextHit(d) == Hit(d, 10 \div (1 + Match[d.text]), Blank)
VecDocs(base, u, t) == {d \in base.docs : d.id \in base.vecs /\ Fits(d, Asked(1, u, t))}
TextDocs(base, u, t) == {d \in base.docs : Match[d.text] > 0 /\ Fits(d, Asked(1, u, t))}
VecHits(base, u, t) == {VecHit(d) : d \in VecDocs(base, u, t)}
TextHits(base, u, t) == {TextHit(d) : d \in TextDocs(base, u, t)}
DocsAre(docs) == IsFiniteSet(docs) /\ \A d \in docs : d.text \in Words

LEMMA ImageOf ==
  ASSUME NEW S, IsFiniteSet(S), NEW f, NEW T, T = {f[d] : d \in S}
  PROVE  IsFiniteSet(T) /\ Cardinality(T) <= Cardinality(S)
<1> DEFINE g == [d \in S |-> f[d]]
<1>1. g \in Surjection(S, T)
  BY DEF Surjection
<1> QED BY <1>1, FS_Surjection

LEMMA AskedHas ==
  ASSUME NEW n, NEW u, NEW t
  PROVE  /\ Asked(n, u, t).limit = n /\ Asked(n, u, t).user = u /\ Asked(n, u, t).type = t
         /\ [Asked(n, u, t) EXCEPT !.limit = 2 * @] = Asked(2 * n, u, t)
BY DEF Asked

LEMMA HitHas ==
  ASSUME NEW d, NEW score, NEW type
  PROVE  Hit(d, score, type).id = d.id /\ Hit(d, score, type).score = score /\ Hit(d, score, type).type = type
BY DEF Hit

LEMMA VecHitsHave ==
  ASSUME NEW base, DocsAre(base.docs), NEW u, NEW t
  PROVE  /\ IsFiniteSet(VecHits(base, u, t)) /\ Cardinality(VecHits(base, u, t)) <= Cardinality(base.docs)
         /\ \A h \in VecHits(base, u, t) : h.score \in Int
<1> DEFINE S == VecDocs(base, u, t)  f == [d \in base.docs |-> VecHit(d)]
<1>1. IsFiniteSet(S) /\ Cardinality(S) <= Cardinality(base.docs) /\ S \subseteq base.docs
  BY FS_Subset DEF DocsAre, VecDocs
<1>2. VecHits(base, u, t) = {f[d] : d \in S}
  BY <1>1 DEF VecHits
<1> HIDE DEF S, f
<1>3. IsFiniteSet(VecHits(base, u, t)) /\ Cardinality(VecHits(base, u, t)) <= Cardinality(S)
  BY <1>1, <1>2, ImageOf
<1>4. Cardinality(VecHits(base, u, t)) <= Cardinality(base.docs)
  BY <1>1, <1>3, FS_CardinalityType DEF DocsAre
<1>5. \A d \in base.docs : VecHit(d).score \in Int
  <2> TAKE d \in base.docs
  <2>1. VecHit(d).score = Near[d.text]
    BY HitHas DEF VecHit
  <2> QED BY <2>1, SearchAssumption DEF DocsAre
<1>6. \A h \in VecHits(base, u, t) : h.score \in Int
  BY <1>5 DEF VecHits, VecDocs
<1> QED BY <1>3, <1>4, <1>6

LEMMA TextHitsHave ==
  ASSUME NEW base, DocsAre(base.docs), NEW u, NEW t
  PROVE  /\ IsFiniteSet(TextHits(base, u, t))
         /\ \A h \in TextHits(base, u, t) : h.score \in Int
<1> DEFINE S == TextDocs(base, u, t)  f == [d \in base.docs |-> TextHit(d)]
<1>1. IsFiniteSet(S) /\ S \subseteq base.docs
  BY FS_Subset DEF DocsAre, TextDocs
<1>2. TextHits(base, u, t) = {f[d] : d \in S}
  BY <1>1 DEF TextHits
<1> HIDE DEF S, f
<1>3. IsFiniteSet(TextHits(base, u, t))
  BY <1>1, <1>2, ImageOf
<1>4. \A d \in base.docs : TextHit(d).score \in Int
  <2> TAKE d \in base.docs
  <2> DEFINE m == Match[d.text]
  <2>1. TextHit(d).score = 10 \div (1 + m) /\ m \in Nat
    BY HitHas, SearchAssumption DEF TextHit, DocsAre
  <2> HIDE DEF m
  <2> QED BY <2>1
<1>5. \A h \in TextHits(base, u, t) : h.score \in Int
  BY <1>4 DEF TextHits, TextDocs
<1> QED BY <1>3, <1>5

LEMMA LayerHas ==
  ASSUME NEW base, DocsAre(base.docs), NEW n \in Nat, NEW u, NEW t, NEW layer
  PROVE  /\ HitsInLayer(base, Asked(n, u, t), layer) \subseteq VecHits(base, u, t)
         /\ Cardinality(base.docs) <= n =>
              \A d \in VecDocs(base, u, t) : d.layer = layer => VecHit(d) \in HitsInLayer(base, Asked(n, u, t), layer)
<1> DEFINE S == {d \in base.docs : d.layer = layer /\ d.id \in base.vecs /\ Fits(d, Asked(n, u, t))}
           T == {VecHit(d) : d \in S}
           V == VecHits(base, u, t)
<1>1. Asked(n, u, t).limit = n /\ \A d : Fits(d, Asked(n, u, t)) <=> Fits(d, Asked(1, u, t))
  BY DEF Asked, Fits
<1>2. HitsInLayer(base, Asked(n, u, t), layer) = Best(n, T)
  <2>1. HitsInLayer(base, Asked(n, u, t), layer) = Best(Asked(n, u, t).limit, T)
    BY DEF HitsInLayer, VecHit
  <2> HIDE DEF T
  <2> QED BY <1>1, <2>1
<1>3. \A d : d \in S <=> d \in VecDocs(base, u, t) /\ d.layer = layer
  BY <1>1 DEF VecDocs
<1>4. T \subseteq V
  BY <1>3 DEF VecHits
<1>5. \A d \in VecDocs(base, u, t) : d.layer = layer => VecHit(d) \in T
  BY <1>3
<1> HIDE DEF S, T
<1>6. IsFiniteSet(V) /\ Cardinality(V) <= Cardinality(base.docs) /\ \A h \in V : h.score \in Int
  BY VecHitsHave
<1> HIDE DEF V
<1>7. IsFiniteSet(T) /\ Cardinality(T) <= Cardinality(V) /\ \A h \in T : h.score \in Int
  BY <1>4, <1>6, FS_Subset
<1>8. Cardinality(T) \in Nat /\ Cardinality(V) \in Nat /\ Cardinality(base.docs) \in Nat
  BY <1>6, <1>7, FS_CardinalityType DEF DocsAre
<1>9. Best(n, T) \subseteq T /\ (Cardinality(T) <= n => Best(n, T) = T)
  BY <1>7, BestHas
<1>10. Cardinality(base.docs) <= n => Best(n, T) = T
  BY <1>6, <1>7, <1>8, <1>9
<1>11. /\ HitsInLayer(base, Asked(n, u, t), layer) \subseteq V
       /\ Cardinality(base.docs) <= n =>
            \A d \in VecDocs(base, u, t) : d.layer = layer => VecHit(d) \in HitsInLayer(base, Asked(n, u, t), layer)
  BY <1>2, <1>4, <1>5, <1>9, <1>10
<1> QED BY <1>11 DEF V

(* The vector search shows documents with a vector, and all of them when   *)
(* there is room.                                                          *)
LEMMA VectorHas ==
  ASSUME NEW base, DocsAre(base.docs), NEW n \in Nat, NEW u, NEW t
  PROVE  /\ Vector(base, Asked(n, u, t)) \subseteq VecHits(base, u, t)
         /\ Cardinality(base.docs) <= n => Vector(base, Asked(n, u, t)) = VecHits(base, u, t)
<1> DEFINE both == HitsInLayer(base, Asked(2 * n, u, t), 2) \cup HitsInLayer(base, Asked(2 * n, u, t), 3)
           V == VecHits(base, u, t)  c == Cardinality(base.docs)
<1>1. Vector(base, Asked(n, u, t)) = Best(n, both)
  <2> DEFINE o == Asked(n, u, t)  twice == [o EXCEPT !.limit = 2 * @]
  <2>1. Vector(base, o) = Best(o.limit, HitsInLayer(base, twice, 2) \cup HitsInLayer(base, twice, 3))
    BY DEF Vector
  <2>2. o.limit = n /\ twice = Asked(2 * n, u, t)
    BY AskedHas
  <2> HIDE DEF o, twice
  <2>3. Vector(base, o) = Best(n, both)
    BY <2>1, <2>2
  <2> QED BY <2>3 DEF o
<1>2. 2 * n \in Nat /\ c \in Nat /\ (c <= n => c <= 2 * n)
  BY FS_CardinalityType DEF DocsAre
<1>3. both \subseteq V
  BY <1>2, LayerHas
<1>4. ASSUME c <= n PROVE V \subseteq both
  <2> SUFFICES ASSUME NEW d \in VecDocs(base, u, t) PROVE VecHit(d) \in both
    BY DEF VecHits
  <2>1. d.layer \in {2, 3}
    BY DEF VecDocs, Fits
  <2>2. VecHit(d) \in HitsInLayer(base, Asked(2 * n, u, t), d.layer)
    BY <1>2, <1>4, LayerHas
  <2> QED BY <2>1, <2>2
<1>5. IsFiniteSet(V) /\ Cardinality(V) <= c /\ \A h \in V : h.score \in Int
  BY VecHitsHave
<1> HIDE DEF both, V
<1>6. IsFiniteSet(both) /\ Cardinality(both) <= Cardinality(V) /\ \A h \in both : h.score \in Int
  BY <1>3, <1>5, FS_Subset
<1>7. Cardinality(both) \in Nat /\ Cardinality(V) \in Nat
  BY <1>5, <1>6, FS_CardinalityType
<1> HIDE DEF c
<1>8. Best(n, both) \subseteq both /\ (Cardinality(both) <= n => Best(n, both) = both)
  BY <1>6, BestHas
<1>9. c <= n => Best(n, both) = V
  BY <1>2, <1>3, <1>4, <1>5, <1>6, <1>7, <1>8
<1>10. Vector(base, Asked(n, u, t)) \subseteq V /\ (c <= n => Vector(base, Asked(n, u, t)) = V)
  BY <1>1, <1>3, <1>8, <1>9
<1> QED BY <1>10 DEF V, c

LEMMA SemanticHas ==
  ASSUME NEW base, DocsAre(base.docs), NEW n \in Nat, NEW u, NEW t
  PROVE  /\ Semantic(base, Asked(n, u, t)) \subseteq VecHits(base, u, t)
         /\ Cardinality(base.docs) <= n => Semantic(base, Asked(n, u, t)) = VecHits(base, u, t)
<1> DEFINE W == Vector(base, Asked(2 * n, u, t))  V == VecHits(base, u, t)  c == Cardinality(base.docs)
<1>1. Semantic(base, Asked(n, u, t)) = Best(n, W)
  BY AskedHas DEF Semantic
<1>2. 2 * n \in Nat /\ c \in Nat /\ (c <= n => c <= 2 * n)
  BY FS_CardinalityType DEF DocsAre
<1>3. W \subseteq V /\ (c <= n => W = V)
  BY <1>2, VectorHas
<1>4. IsFiniteSet(V) /\ Cardinality(V) <= c /\ \A h \in V : h.score \in Int
  BY VecHitsHave
<1> HIDE DEF W, V
<1>5. IsFiniteSet(W) /\ Cardinality(W) <= Cardinality(V) /\ \A h \in W : h.score \in Int
  BY <1>3, <1>4, FS_Subset
<1>6. Cardinality(W) \in Nat /\ Cardinality(V) \in Nat
  BY <1>4, <1>5, FS_CardinalityType
<1> HIDE DEF c
<1>7. Best(n, W) \subseteq W /\ (Cardinality(W) <= n => Best(n, W) = W)
  BY <1>5, BestHas
<1>8. Cardinality(V) <= n => Cardinality(W) <= n
  BY <1>5, <1>6
<1>9. c <= n => Cardinality(W) <= n
  BY <1>2, <1>4, <1>6, <1>8
<1>10. Semantic(base, Asked(n, u, t)) \subseteq V /\ (c <= n => Semantic(base, Asked(n, u, t)) = V)
  BY <1>1, <1>3, <1>7, <1>9
<1> QED BY <1>10 DEF V, c

LEMMA FullHas ==
  ASSUME NEW base, DocsAre(base.docs), NEW n \in Nat, NEW u, NEW t
  PROVE  FullText(base, Asked(n, u, t)) \subseteq TextHits(base, u, t)
<1> DEFINE S == TextDocs(base, u, t)  f == [d \in base.docs |-> Hit(d, Match[d.text], Blank)]
           R == {Hit(d, Match[d.text], Blank) : d \in S}
<1>1. Asked(n, u, t).limit = n /\ \A d : Fits(d, Asked(n, u, t)) <=> Fits(d, Asked(1, u, t))
  BY DEF Asked, Fits
<1>2. Found(base, Asked(n, u, t)) = S
  BY <1>1 DEF Found, TextDocs
<1>3. FullText(base, Asked(n, u, t)) = {[h EXCEPT !.score = 10 \div (1 + @)] : h \in Best(2 * n, R)}
  <2> HIDE DEF S
  <2> QED BY <1>1, <1>2 DEF FullText
<1>4. IsFiniteSet(S) /\ S \subseteq base.docs
  BY FS_Subset DEF DocsAre, TextDocs
<1>5. R = {f[d] : d \in S}
  BY <1>4
<1>6. \A h \in R : h.score \in Int
  <2>1. \A d \in S : Match[d.text] \in Int
    BY <1>4, SearchAssumption DEF DocsAre
  <2> QED BY <2>1, HitHas
<1>7. \A h \in R : \E d \in S : h = Hit(d, Match[d.text], Blank)
  OBVIOUS
<1> HIDE DEF R, f
<1>8. Best(2 * n, R) \subseteq R
  <2>1. IsFiniteSet(R) /\ 2 * n \in Nat
    BY <1>4, <1>5, ImageOf
  <2> QED BY <1>6, <2>1, BestHas
<1>9. \A d : [Hit(d, Match[d.text], Blank) EXCEPT !.score = 10 \div (1 + @)] = TextHit(d)
  BY DEF Hit, TextHit
<1>10. \A h \in R : [h EXCEPT !.score = 10 \div (1 + @)] \in TextHits(base, u, t)
  BY <1>7, <1>9 DEF TextHits
<1> QED BY <1>3, <1>8, <1>10

-----------------------------------------------------------------------------
OneDocEach(docs) == \A d, e \in docs : d.id = e.id => d = e
OneEach(hits) == \A h, g \in hits : h.id = g.id => h = g

LEMMA OneHitEach ==
  ASSUME NEW base, OneDocEach(base.docs), NEW u, NEW t
  PROVE  OneEach(VecHits(base, u, t)) /\ OneEach(TextHits(base, u, t))
<1>1. \A d : VecHit(d).id = d.id /\ TextHit(d).id = d.id
  BY HitHas DEF VecHit, TextHit
<1>2. OneEach(VecHits(base, u, t))
  <2> SUFFICES ASSUME NEW d \in VecDocs(base, u, t), NEW e \in VecDocs(base, u, t), VecHit(d).id = VecHit(e).id
               PROVE  VecHit(d) = VecHit(e)
    BY DEF OneEach, VecHits
  <2>1. d = e
    BY <1>1 DEF OneDocEach, VecDocs
  <2> QED BY <2>1
<1>3. OneEach(TextHits(base, u, t))
  <2> SUFFICES ASSUME NEW d \in TextDocs(base, u, t), NEW e \in TextDocs(base, u, t), TextHit(d).id = TextHit(e).id
               PROVE  TextHit(d) = TextHit(e)
    BY DEF OneEach, TextHits
  <2>1. d = e
    BY <1>1 DEF OneDocEach, TextDocs
  <2> QED BY <2>1
<1> QED BY <1>2, <1>3

(* Memoria.Search: both searches, nothing twice, then the filter by type.  *)
LEMMA SearchHas ==
  ASSUME NEW base, DocsAre(base.docs), OneDocEach(base.docs), NEW n \in Nat, NEW u, NEW t, NEW embedded \in BOOLEAN
  PROVE  LET shown == SearchWith(base, Asked(n, u, t), embedded)
         IN /\ IsFiniteSet(shown) /\ Cardinality(shown) <= n /\ OneEach(shown)
            /\ shown \subseteq VecHits(base, u, t) \cup TextHits(base, u, t)
            /\ t # Blank /\ embedded /\ Cardinality(base.docs) <= n => VecHits(base, u, t) \subseteq shown
<1> DEFINE o == Asked(n, u, t)
           V == VecHits(base, u, t)
           T == TextHits(base, u, t)
           early == IF embedded THEN Semantic(base, o) ELSE Best(n, FullText(base, o))
           late == IF Cardinality(early) < n THEN {h \in Keyword(base, o) : \A g \in early : g.id # h.id} ELSE {}
           fit == {h \in early \cup late : t = Blank \/ h.type = t}
<1>1. SearchWith(base, o, embedded) = Best(n, fit)
  <2>1. o.limit = n /\ o.type = t
    BY DEF Asked
  <2> HIDE DEF o
  <2> QED BY <2>1 DEF SearchWith
<1>2. Semantic(base, o) \subseteq V /\ (Cardinality(base.docs) <= n => Semantic(base, o) = V)
  BY SemanticHas
<1>3. /\ IsFiniteSet(V) /\ Cardinality(V) <= Cardinality(base.docs) /\ \A h \in V : h.score \in Int
      /\ IsFiniteSet(T) /\ \A h \in T : h.score \in Int
      /\ OneEach(V) /\ OneEach(T)
  BY VecHitsHave, TextHitsHave, OneHitEach
<1>4. FullText(base, o) \subseteq T
  BY FullHas
<1>5. Best(n, FullText(base, o)) \subseteq T /\ Keyword(base, o) \subseteq T
  <2> DEFINE F == FullText(base, o)
  <2>1. Keyword(base, o) = Best(n, F)
    BY DEF Asked, Keyword
  <2> HIDE DEF F, T, o
  <2>2. IsFiniteSet(F) /\ \A h \in F : h.score \in Int
    BY <1>3, <1>4, FS_Subset DEF F
  <2>3. Best(n, F) \subseteq F
    BY <2>2, BestHas
  <2> QED BY <1>4, <2>1, <2>3 DEF F
<1>6. \A h \in V : h.type = t \/ t = Blank
  <2> SUFFICES ASSUME NEW d \in VecDocs(base, u, t) PROVE VecHit(d).type = t \/ t = Blank
    BY DEF VecHits
  <2>1. Asked(1, u, t).type = t
    BY DEF Asked
  <2>2. t = Blank \/ SourceType(d) = t
    BY <2>1 DEF VecDocs, Fits
  <2>3. VecHit(d).type = SourceType(d)
    BY HitHas DEF VecHit
  <2> QED BY <2>2, <2>3
<1>7. \A h \in T : h.type = Blank
  <2> SUFFICES ASSUME NEW d \in TextDocs(base, u, t) PROVE TextHit(d).type = Blank
    BY DEF TextHits
  <2> QED BY HitHas DEF TextHit
<1> HIDE DEF V, T, o
<1>8. early \subseteq V \/ early \subseteq T
  BY <1>2, <1>5
<1>9. late \subseteq T /\ \A h \in late, g \in early : g.id # h.id
  BY <1>5
<1>10. embedded /\ Cardinality(base.docs) <= n => early = V
  BY <1>2
<1> HIDE DEF early, late
<1>11. fit \subseteq V \cup T /\ OneEach(fit)
  BY <1>3, <1>8, <1>9 DEF OneEach
<1>12. ASSUME t # Blank, embedded, Cardinality(base.docs) <= n PROVE fit = V
  BY <1>6, <1>7, <1>9, <1>10, <1>12
<1> HIDE DEF fit
<1>13. IsFiniteSet(fit) /\ \A h \in fit : h.score \in Int
  <2>1. IsFiniteSet(V \cup T)
    BY <1>3, FS_Union
  <2> QED BY <1>3, <1>11, <2>1, FS_Subset
<1>14. /\ Best(n, fit) \subseteq fit /\ IsFiniteSet(Best(n, fit)) /\ Cardinality(Best(n, fit)) <= n
       /\ Cardinality(fit) <= n => Best(n, fit) = fit
  BY <1>13, BestHas
<1>15. ASSUME t # Blank, embedded, Cardinality(base.docs) <= n PROVE V \subseteq Best(n, fit)
  <2>1. Cardinality(V) \in Nat /\ Cardinality(base.docs) \in Nat
    BY <1>3, FS_CardinalityType DEF DocsAre
  <2>2. Cardinality(fit) <= n
    BY <1>3, <1>12, <1>15, <2>1
  <2> QED BY <1>12, <1>14, <1>15, <2>2
<1>16. OneEach(Best(n, fit)) /\ Best(n, fit) \subseteq V \cup T
  BY <1>11, <1>14 DEF OneEach
<1> QED BY <1>1, <1>14, <1>15, <1>16 DEF V, T, o

(* Documents have IDs of their own: those in the initial scan's hand are   *)
(* not in the database yet, and new ones were never given.                 *)
IdsApart(docs, hand, n) ==
  /\ OneDocEach(docs) /\ \A d \in docs : d.id \in MadeIds(n)
  /\ \A k \in DOMAIN hand : hand[k].id \in MadeIds(n) /\ \A d \in docs : d.id # hand[k].id
  /\ \A j, k \in DOMAIN hand : hand[j].id = hand[k].id => j = k

DocsOK == IdsApart(db.docs, at["initial"].hand, made)

(* The search shows a document that fits for every hit.                    *)
LEMMA SearchedRight ==
  ASSUME KeepInv, DocsOK, NEW call \in Calls, NEW embedded \in BOOLEAN
  PROVE  LET opts == OptsOf(call)
             hits == Answer(db, call, embedded)
             Doc(h) == CHOOSE d \in db.docs : d.id = h.id
         IN /\ Cardinality(hits) <= opts.limit
            /\ \A h \in hits : (\E d \in db.docs : d.id = h.id) /\ Fits(Doc(h), opts)
            /\ \A h, g \in hits : h.id = g.id => h = g
            /\ call.tool = "history" /\ embedded /\ Cardinality(db.docs) <= opts.limit =>
                 \A d \in db.docs : Fits(d, opts) /\ d.id \in db.vecs => \E h \in hits : h.id = d.id
<1> DEFINE hits == Answer(db, call, embedded)
<1>1. \E n \in Nat : \E u, t : OptsOf(call) = Asked(n, u, t) /\ (call.tool = "history" => t = "chat")
  <2>1. DefaultLimit \in Nat /\ (call.tool \notin {"history", "rag"} => call.limit \in Nat)
    BY SearchAssumption
  <2>2. CASE call.tool = "history"
    <3>1. OptsOf(call) = Asked(DefaultLimit, call.user, "chat")
      BY <2>2 DEF OptsOf, HistoryOpts, Asked
    <3> QED BY <2>1, <3>1
  <2>3. CASE call.tool = "rag"
    <3>1. OptsOf(call) = Asked(DefaultLimit, Blank, call.type)
      BY <2>3 DEF OptsOf, RagOpts, Asked
    <3> QED BY <2>1, <2>3, <3>1
  <2>4. CASE call.tool \notin {"history", "rag"}
    <3>1. OptsOf(call) = Asked(call.limit, Blank, call.type)
      BY <2>4 DEF OptsOf, CliOpts, Asked
    <3> QED BY <2>1, <2>4, <3>1
  <2> QED BY <2>2, <2>3, <2>4
<1>2. PICK n \in Nat : \E u, t : OptsOf(call) = Asked(n, u, t) /\ (call.tool = "history" => t = "chat")
  BY <1>1
<1>3. PICK u, t : OptsOf(call) = Asked(n, u, t) /\ (call.tool = "history" => t = "chat")
  BY <1>2
<1> DEFINE shown == SearchWith(db, Asked(n, u, t), embedded)
<1>4. DocsAre(db.docs) /\ OneDocEach(db.docs)
  <2>1. \A m \in Memories : m.text \in Words
    BY DEF Memories
  <2> QED BY <2>1 DEF KeepInv, TypeOK, StoreOK, DocsAre, DocsOK, IdsApart
<1>5. /\ IsFiniteSet(shown) /\ Cardinality(shown) <= n /\ OneEach(shown)
      /\ shown \subseteq VecHits(db, u, t) \cup TextHits(db, u, t)
      /\ t # Blank /\ embedded /\ Cardinality(db.docs) <= n => VecHits(db, u, t) \subseteq shown
  BY <1>4, SearchHas
<1>6. hits \subseteq shown /\ (call.tool = "history" => hits = shown)
  BY <1>3 DEF Answer
<1>7. OptsOf(call).limit = n /\ \A d : Fits(d, OptsOf(call)) <=> Fits(d, Asked(1, u, t))
  BY <1>3 DEF Asked, Fits
<1> HIDE DEF hits, shown
<1>8. Cardinality(hits) <= OptsOf(call).limit
  <2>1. IsFiniteSet(hits) /\ Cardinality(hits) <= Cardinality(shown)
    BY <1>5, <1>6, FS_Subset
  <2>2. Cardinality(hits) \in Nat /\ Cardinality(shown) \in Nat
    BY <1>5, <2>1, FS_CardinalityType
  <2> QED BY <1>5, <1>7, <2>1, <2>2
<1>9. ASSUME NEW h \in hits
      PROVE  (\E d \in db.docs : d.id = h.id) /\ Fits(CHOOSE d \in db.docs : d.id = h.id, OptsOf(call))
  <2>1. PICK d \in db.docs : d.id = h.id /\ Fits(d, Asked(1, u, t))
    <3>1. h \in VecHits(db, u, t) \/ h \in TextHits(db, u, t)
      BY <1>5, <1>6
    <3>2. \A d : VecHit(d).id = d.id /\ TextHit(d).id = d.id
      BY HitHas DEF VecHit, TextHit
    <3> QED BY <3>1, <3>2 DEF VecHits, TextHits, VecDocs, TextDocs
  <2>2. (CHOOSE e \in db.docs : e.id = h.id) = d
    BY <1>4, <2>1 DEF OneDocEach
  <2> QED BY <1>7, <2>1, <2>2
<1>10. \A h, g \in hits : h.id = g.id => h = g
  BY <1>5, <1>6 DEF OneEach
<1>11. ASSUME call.tool = "history", embedded, Cardinality(db.docs) <= OptsOf(call).limit,
             NEW d \in db.docs, Fits(d, OptsOf(call)), d.id \in db.vecs
      PROVE  \E h \in hits : h.id = d.id
  <2>1. d \in VecDocs(db, u, t)
    BY <1>7, <1>11 DEF VecDocs
  <2>2. VecHit(d) \in VecHits(db, u, t) /\ VecHit(d).id = d.id
    BY <2>1, HitHas DEF VecHits, VecHit
  <2>3. t # Blank /\ Cardinality(db.docs) <= n
    BY <1>3, <1>7, <1>11, SearchAssumption
  <2> QED BY <1>5, <1>6, <1>11, <2>2, <2>3
<1> QED BY <1>8, <1>9, <1>10, <1>11 DEF hits

-----------------------------------------------------------------------------
LEMMA ApartEmpty ==
  ASSUME NEW docs, NEW hand, NEW n, IdsApart(docs, hand, n)
  PROVE  IdsApart(docs, <<>>, n)
BY DEF IdsApart

LEMMA ApartTail ==
  ASSUME NEW docs, NEW hand \in Seq(Memories), NEW n, IdsApart(docs, hand, n), hand # <<>>
  PROVE  IdsApart(docs, Tail(hand), n) /\ IdsApart(docs \cup {Head(hand)}, Tail(hand), n)
<1> DEFINE rest == Tail(hand)  item == Head(hand)
<1>1. /\ item = hand[1] /\ 1 \in DOMAIN hand
      /\ \A k \in DOMAIN rest : k \in Int /\ k + 1 \in DOMAIN hand /\ rest[k] = hand[k + 1] /\ k + 1 # 1
  <2>1. Len(hand) \in Nat /\ Len(hand) # 0 /\ DOMAIN hand = 1..Len(hand) /\ DOMAIN rest = 1..(Len(hand) - 1)
        /\ \A k \in 1..(Len(hand) - 1) : rest[k] = hand[k + 1]
    OBVIOUS
  <2>2. item = hand[1]
    OBVIOUS
  <2> HIDE DEF rest, item
  <2> QED BY <2>1, <2>2
<1> HIDE DEF rest, item
<1>2. \A k \in DOMAIN rest : rest[k].id \in MadeIds(n) /\ rest[k].id # item.id /\ \A d \in docs : d.id # rest[k].id
  BY <1>1 DEF IdsApart
<1>3. \A j, k \in DOMAIN rest : rest[j].id = rest[k].id => j = k
  BY <1>1 DEF IdsApart
<1>4. OneDocEach(docs) /\ (\A d \in docs : d.id \in MadeIds(n)) /\ item.id \in MadeIds(n) /\ \A d \in docs : d.id # item.id
  BY <1>1 DEF IdsApart
<1>5. OneDocEach(docs \cup {item})
  BY <1>4 DEF OneDocEach
<1>6. IdsApart(docs, rest, n) /\ IdsApart(docs \cup {item}, rest, n)
  BY <1>2, <1>3, <1>4, <1>5 DEF IdsApart
<1> QED BY <1>6 DEF rest, item

LEMMA ApartMore ==
  ASSUME NEW docs, NEW hand \in Seq(Memories), NEW n \in Nat, IdsApart(docs, hand, n),
         NEW new \in Seq(Memories), NEW src \in Sources, NEW text, AreFrom(new, n + 1, src, text)
  PROVE  IdsApart(docs, hand, n + 1) /\ IdsApart(docs, hand \o new, n + 1)
<1> DEFINE both == hand \o new  l == Len(hand)
<1>1. \A k \in DOMAIN new : /\ k \in Nat /\ new[k].id = <<n + 1, k, src>>
                            /\ new[k].id \in MadeIds(n + 1) /\ new[k].id \notin MadeIds(n)
  <2> TAKE k \in DOMAIN new
  <2>1. k \in Nat /\ new[k].id = <<n + 1, k, src>>
    BY DEF AreFrom
  <2>2. <<n + 1, k, src>> \in MadeIds(n + 1) /\ <<n + 1, k, src>> \notin MadeIds(n)
    BY <2>1, FreshIds
  <2> QED BY <2>1, <2>2
<1>2. \A j, k \in DOMAIN new : new[j].id = new[k].id => j = k
  BY <1>1
<1>3. /\ l \in Int
      /\ \A i \in DOMAIN both : /\ i \in Int
                                /\ (i \in DOMAIN hand /\ both[i] = hand[i]) \/ (i - l \in DOMAIN new /\ both[i] = new[i - l])
  <2>1. l \in Nat /\ Len(new) \in Nat /\ DOMAIN both = 1..(l + Len(new)) /\ DOMAIN hand = 1..l /\ DOMAIN new = 1..Len(new)
        /\ \A i \in 1..(l + Len(new)) : both[i] = IF i <= l THEN hand[i] ELSE new[i - l]
    OBVIOUS
  <2> DEFINE r == Len(new)
  <2> HIDE DEF both, l, r
  <2> QED BY <2>1 DEF r
<1> HIDE DEF both, l
<1>4. MadeIds(n) \subseteq MadeIds(n + 1)
  BY MoreIds
<1>5. IdsApart(docs, hand, n + 1)
  BY <1>4 DEF IdsApart
<1>6. \A i \in DOMAIN both : both[i].id \in MadeIds(n + 1) /\ \A d \in docs : d.id # both[i].id
  BY <1>1, <1>3, <1>4 DEF IdsApart
<1>7. ASSUME NEW i \in DOMAIN both, NEW j \in DOMAIN both, both[i].id = both[j].id PROVE i = j
  <2>1. \A k \in DOMAIN hand : hand[k].id \in MadeIds(n)
    BY DEF IdsApart
  <2>2. CASE i \in DOMAIN hand /\ both[i] = hand[i]
    <3>1. j \in DOMAIN hand /\ both[j] = hand[j]
      BY <1>1, <1>3, <1>7, <2>1, <2>2
    <3> QED BY <1>7, <2>2, <3>1 DEF IdsApart
  <2>3. CASE i - l \in DOMAIN new /\ both[i] = new[i - l]
    <3>1. j - l \in DOMAIN new /\ both[j] = new[j - l]
      BY <1>1, <1>3, <1>7, <2>1, <2>3
    <3>2. i - l = j - l
      BY <1>2, <1>7, <2>3, <3>1
    <3> QED BY <1>3, <3>2
  <2> QED BY <1>3, <2>2, <2>3
<1>8. IdsApart(docs, both, n + 1)
  BY <1>5, <1>6, <1>7 DEF IdsApart
<1> QED BY <1>5, <1>8 DEF both

LEMMA DocsStay ==
  ASSUME DocsOK, db' = db, made' = made,
         at'["initial"].hand = at["initial"].hand \/ at'["initial"].hand = <<>>
  PROVE  DocsOK'
<1>1. IdsApart(db.docs, at["initial"].hand, made)
  BY DEF DocsOK
<1>2. IdsApart(db'.docs, at'["initial"].hand, made')
  BY <1>1, ApartEmpty
<1> QED BY <1>2 DEF DocsOK, IdsApart, OneDocEach, MadeIds

LEMMA NextDocs ==
  ASSUME KeepInv, DocsOK, [Next]_vars
  PROVE  DocsOK'
<1> DEFINE i == "initial"  hand == at[i].hand
<1>1. i \in Scanners /\ WorldOK /\ ScanOK /\ at \in [Scanners -> ScannerRecs] /\ hand \in Seq(Memories) /\ made \in Nat
      /\ \A q \in Scanners : at[q] \in ScannerRecs
  <2>1. i \in Scanners /\ WorldOK /\ ScanOK
    BY DEF KeepInv, TypeOK, Scanners
  <2> QED BY <2>1, ScannerHas DEF ScanOK
<1>2. IdsApart(db.docs, hand, made)
  BY DEF DocsOK
<1>3. CASE UNCHANGED vars
  BY <1>3, DocsStay DEF vars
<1>4. ASSUME NEW x \in Sources, Edit(x) PROVE DocsOK'
  BY <1>4, DocsStay DEF Edit
<1>5. ASSUME NEW c \in {"gateway", "init", "process"}, Boot(c) PROVE DocsOK'
  <2>1. proc = "down" /\ db' = db /\ made' = made
    BY <1>5 DEF Boot
  <2>2. at'[i].hand = <<>>
    BY <1>1, <1>5, <2>1, StartsWith
  <2> QED BY <2>1, <2>2, DocsStay
<1>6. ASSUME NEW p \in {"chats", "files"}, Tick(p) \/ StoreBatch(p) PROVE DocsOK'
  <2>1. db' = db /\ made' = made /\ p # i
    BY <1>6 DEF Tick, StoreBatch
  <2>2. at'[i] = at[i]
    <3>1. \/ at' = [at EXCEPT ![p].pc = "walk", ![p].since = changed[p]]
          \/ at' = [at EXCEPT ![p].pc = "idle", ![p].hand = <<>>]
      BY <1>6 DEF Tick, StoreBatch
    <3> QED BY <1>1, <2>1, <3>1
  <2> QED BY <2>1, <2>2, DocsStay
<1>7. ASSUME NEW p \in Scanners, Walk(p) PROVE DocsOK'
  <2>1. db' = db /\ made' = made /\ \E todo : at' = [at EXCEPT ![p].pc = "work", ![p].since = {}, ![p].todo = todo]
    BY <1>7 DEF Walk
  <2>2. at'[i].hand = at[i].hand
    BY <1>1, <2>1 DEF ScannerRecs
  <2> QED BY <2>1, <2>2, DocsStay
<1>8. ASSUME NEW p \in Scanners, Check(p) PROVE DocsOK'
  <2>1. db' = db /\ made' = made /\ \E busy, todo : at' = [at EXCEPT ![p].todo = todo, ![p].busy = busy]
    BY <1>1, <1>8 DEF Check, ScannerRecs
  <2>2. at'[i].hand = at[i].hand
    BY <1>1, <2>1 DEF ScannerRecs
  <2> QED BY <2>1, <2>2, DocsStay
<1>9. ASSUME NEW p \in Scanners, Extract(p) PROVE DocsOK'
  <2>1. PICK x \in at[p].busy : \E new \in Seq(Memories) :
           Given(p, x, new) /\ x.src \in Sources /\ AreFrom(new, made + 1, x.src, x.content)
    BY <1>1, <1>9, Extracting
  <2>2. PICK new \in Seq(Memories) : Given(p, x, new) /\ x.src \in Sources /\ AreFrom(new, made + 1, x.src, x.content)
    BY <2>1
  <2>3. made' = made + 1 /\ db' = db
    BY <1>9 DEF Extract
  <2>4. IdsApart(db.docs, hand, made + 1) /\ IdsApart(db.docs, hand \o new, made + 1)
    <3> HIDE DEF hand
    <3> QED BY <1>1, <1>2, <2>2, ApartMore
  <2>5. at'[i].hand = hand \/ at'[i].hand = hand \o new
    <3>1. at' = [at EXCEPT ![p].busy = @ \ {x}, ![p].hand = @ \o new]
      BY <2>2 DEF Given
    <3>2. CASE p = i
      BY <1>1, <3>1, <3>2 DEF ScannerRecs
    <3>3. CASE p # i
      BY <1>1, <3>1, <3>3
    <3> QED BY <3>2, <3>3
  <2>6. IdsApart(db'.docs, at'[i].hand, made')
    BY <2>3, <2>4, <2>5
  <2> QED BY <2>6 DEF DocsOK, IdsApart, OneDocEach, MadeIds
<1>10. CASE Cleanup \/ StartSearch \/ SearchStep
  <2>1. UNCHANGED <<db, made, at>>
    BY <1>10 DEF Cleanup, StartSearch, SearchStep
  <2> QED BY <2>1, DocsStay
<1>11. CASE Ask
  <2>1. db' = db /\ made' = made /\ at' = [at EXCEPT ![i].pc = "ask"]
    BY <1>11 DEF Ask
  <2>2. at'[i].hand = at[i].hand
    BY <1>1, <2>1 DEF ScannerRecs
  <2> QED BY <2>1, <2>2, DocsStay
<1>12. CASE AddStored
  <2>1. made' = made /\ hand # <<>>
    BY <1>1, <1>12 DEF AddStored, ScanOK
  <2>2. at'[i].hand = Tail(hand)
    <3>1. at' = [at EXCEPT ![i].pc = "work", ![i].hand = Tail(@)]
      BY <1>12 DEF AddStored
    <3> QED BY <1>1, <3>1 DEF ScannerRecs
  <2>3. db'.docs = db.docs \/ db'.docs = db.docs \cup {Head(hand)}
    <3>1. \E embedded \in BOOLEAN : db' = AddDocument(db, Head(hand), embedded)
      BY <1>12 DEF AddStored
    <3> QED BY <3>1 DEF AddDocument
  <2>4. IdsApart(db.docs, Tail(hand), made) /\ IdsApart(db.docs \cup {Head(hand)}, Tail(hand), made)
    <3> HIDE DEF hand
    <3> QED BY <1>1, <1>2, <2>1, ApartTail
  <2>5. IdsApart(db'.docs, at'[i].hand, made')
    BY <2>1, <2>2, <2>3, <2>4
  <2> QED BY <2>5 DEF DocsOK, IdsApart, OneDocEach, MadeIds
<1>13. CASE AddMemory
  <2>1. made' = made /\ hand # <<>> /\ db' = db
    BY <1>13 DEF AddMemory
  <2>2. at'[i].hand = Tail(hand)
    <3>1. at' = [at EXCEPT ![i].hand = Tail(@)]
      BY <1>13 DEF AddMemory
    <3> QED BY <1>1, <3>1 DEF ScannerRecs
  <2>3. IdsApart(db.docs, Tail(hand), made)
    <3> HIDE DEF hand
    <3> QED BY <1>1, <1>2, <2>1, ApartTail
  <2>4. IdsApart(db'.docs, at'[i].hand, made')
    BY <2>1, <2>2, <2>3
  <2> QED BY <2>4 DEF DocsOK, IdsApart, OneDocEach, MadeIds
<1>14. CASE Finish
  <2>1. db' = db /\ made' = made
    BY <1>14 DEF Finish
  <2>2. at' = [at EXCEPT ![i] = Scanner("walk", "chat", {})] \/ at' = [at EXCEPT ![i].pc = "off"] \/ at' = Off
    BY <1>14 DEF Finish
  <2>3. at'[i].hand = at[i].hand \/ at'[i].hand = <<>>
    <3>1. CASE at' = [at EXCEPT ![i] = Scanner("walk", "chat", {})]
      BY <1>1, <3>1, NewScanner
    <3>2. CASE at' = [at EXCEPT ![i].pc = "off"]
      BY <1>1, <3>2 DEF ScannerRecs
    <3>3. CASE at' = Off
      BY <1>1, <3>3, OffIs
    <3> QED BY <2>2, <3>1, <3>2, <3>3
  <2> QED BY <2>1, <2>3, DocsStay
<1>15. CASE Kill
  <2>1. db' = db /\ made' = made /\ at' = Off
    BY <1>15 DEF Kill
  <2> QED BY <1>1, <2>1, OffIs, DocsStay
<1> QED BY <1>3, <1>4, <1>5, <1>6, <1>7, <1>8, <1>9, <1>10, <1>11, <1>12, <1>13, <1>14, <1>15 DEF Next

(* A search shows no more hits than it was asked for, each of one document *)
(* of the user and type that were asked for, whatever its age, and no      *)
(* document twice; the history tool, when the query could be embedded and  *)
(* the limit has room for all documents, every one of that user and type   *)
(* that has a vector (Memoria.Search, SearchByVector, KeywordSearch,       *)
(* mergeResults).                                                          *)
THEOREM SearchesRight == Spec => []SearchRight
<1>1. Init => DocsOK
  <2> SUFFICES ASSUME Init PROVE DocsOK
    OBVIOUS
  <2>1. db.docs = {} /\ at["initial"].hand = <<>>
    BY OffIs DEF Init, InitScan, Scanners
  <2> QED BY <2>1 DEF DocsOK, IdsApart, OneDocEach
<1>2. Init => KeepInv
  BY InitKeeps
<1>3. KeepInv /\ DocsOK /\ [Next]_vars => (KeepInv /\ DocsOK)'
  BY NextKeeps, NextDocs
<1>4. KeepInv /\ DocsOK => SearchRight
  BY SearchedRight DEF SearchRight
<1> QED BY <1>1, <1>2, <1>3, <1>4, PTL DEF Spec

-----------------------------------------------------------------------------
(* The preferences.  A cache of them may say a thing twice under one ID;   *)
(* what is written of it is the first of each ID.                          *)
PrefPaths == {path \in Paths : path[1] = "l1/preferences"}
TopPlaces(s) == {k \in DOMAIN s : \A j \in 1..k - 1 : s[j].id # s[k].id}
Tops(s) == {s[k] : k \in TopPlaces(s)}

LEMMA TopsJoin ==
  ASSUME NEW T, NEW s \in Seq(T), NEW t \in Seq(T)
  PROVE  /\ Tops(s) \subseteq Tops(s \o t)
         /\ \A k \in TopPlaces(t) : t[k].id \notin IdsIn(s) => t[k] \in Tops(s \o t)
<1> DEFINE all == s \o t
<1>1. Len(s) \in Nat /\ Len(t) \in Nat /\ DOMAIN s = 1..Len(s) /\ DOMAIN t = 1..Len(t) /\ DOMAIN all = 1..(Len(s) + Len(t))
      /\ (\A i \in DOMAIN s : all[i] = s[i]) /\ \A i \in DOMAIN t : all[Len(s) + i] = t[i]
  OBVIOUS
<1> HIDE DEF all
<1>2. ASSUME NEW k \in TopPlaces(s) PROVE s[k] \in Tops(all)
  <2>1. k \in DOMAIN s /\ \A j \in 1..k - 1 : j \in DOMAIN s /\ s[j].id # s[k].id
    BY <1>1 DEF TopPlaces
  <2>2. k \in DOMAIN all /\ \A j \in 1..k - 1 : all[j].id # all[k].id
    BY <1>1, <2>1
  <2> QED BY <1>1, <2>1, <2>2 DEF Tops, TopPlaces
<1>3. ASSUME NEW k \in TopPlaces(t), t[k].id \notin IdsIn(s) PROVE t[k] \in Tops(all)
  <2> DEFINE i == Len(s) + k
  <2>1. k \in DOMAIN t /\ \A j \in 1..k - 1 : t[j].id # t[k].id
    BY DEF TopPlaces
  <2>2. i \in DOMAIN all /\ all[i] = t[k]
    BY <1>1, <2>1
  <2>3. ASSUME NEW j \in 1..i - 1 PROVE all[j].id # t[k].id
    <3>1. CASE j \in DOMAIN s
      BY <1>1, <1>3, <3>1 DEF IdsIn
    <3>2. CASE j \notin DOMAIN s
      <4>1. j - Len(s) \in 1..k - 1 /\ j - Len(s) \in DOMAIN t
        BY <1>1, <2>1, <3>2
      <4>2. all[j] = t[j - Len(s)]
        BY <1>1, <4>1
      <4> QED BY <2>1, <4>1, <4>2
    <3> QED BY <3>1, <3>2
  <2> HIDE DEF i
  <2>4. i \in TopPlaces(all)
    BY <2>2, <2>3 DEF TopPlaces
  <2> QED BY <2>2, <2>4 DEF Tops
<1> QED BY <1>2, <1>3 DEF Tops, all

LEMMA MergedTops ==
  ASSUME NEW T, NEW old \in Seq(T), NEW new \in Seq(T)
  PROVE  \A t \in Tops(old \o new) : \E k \in DOMAIN Merge(old, new) : Merge(old, new)[k] = t
<1> DEFINE all == old \o new
<1>1. all \in Seq(T)
  OBVIOUS
<1> HIDE DEF all
<1>2. Merge(old, new) = Pick(all, TopPlaces(all))
  BY DEF Merge, TopPlaces, all
<1>3. TopPlaces(all) \in SUBSET (DOMAIN all)
  BY DEF TopPlaces
<1>4. \A i \in TopPlaces(all) : \E k \in DOMAIN Pick(all, TopPlaces(all)) : Pick(all, TopPlaces(all))[k] = all[i]
  BY <1>1, <1>3, Picked
<1> QED BY <1>2, <1>4 DEF Tops, all

LEMMA PickedTops ==
  ASSUME NEW T, NEW s \in Seq(T), NEW id, NEW t \in Tops(s), t.id # id
  PROVE  t \in Tops(Pick(s, {k \in DOMAIN s : s[k].id # id}))
<1> DEFINE S == {k \in DOMAIN s : s[k].id # id}  q == Pick(s, S)
<1>1. PICK k \in TopPlaces(s) : t = s[k]
  BY DEF Tops
<1>2. k \in S /\ S \in SUBSET (DOMAIN s) /\ DOMAIN s = 1..Len(s) /\ Len(s) \in Nat
  BY <1>1 DEF TopPlaces
<1> HIDE DEF S
<1>3. /\ q \in Seq({s[i] : i \in S}) /\ Len(q) = Cardinality(S)
      /\ \A j \in DOMAIN q : PlaceOf(S, j) \in S /\ q[j] = s[PlaceOf(S, j)]
      /\ \A i \in S : Rank(S, i) \in DOMAIN q /\ q[Rank(S, i)] = s[i]
  BY <1>2, Picked
<1>4. DOMAIN q = 1..Cardinality(S) /\ Cardinality(S) \in Nat
  BY <1>2, <1>3, Places
<1> HIDE DEF q
<1> DEFINE r == Rank(S, k)
<1>5. r \in DOMAIN q /\ q[r] = t /\ r \in 1..Cardinality(S)
  BY <1>1, <1>2, <1>3, <1>4
<1>6. ASSUME NEW j \in 1..r - 1 PROVE q[j].id # q[r].id
  <2> DEFINE i == PlaceOf(S, j)
  <2>1. j \in DOMAIN q /\ j \in 1..Cardinality(S) /\ j < r
    BY <1>4, <1>5
  <2>2. i \in S /\ q[j] = s[i] /\ Rank(S, i) = j
    BY <1>2, <1>3, <2>1, PlacesOf
  <2> HIDE DEF i
  <2>3. ~(k < i) /\ k # i
    <3>1. k < i => Rank(S, k) < Rank(S, i)
      BY <1>2, <2>2, Places
    <3> QED BY <1>4, <1>5, <2>1, <2>2, <3>1
  <2>4. i \in 1..k - 1
    BY <1>2, <2>2, <2>3
  <2> QED BY <1>1, <1>5, <2>2, <2>4 DEF TopPlaces
<1> HIDE DEF r
<1> QED BY <1>5, <1>6 DEF Tops, TopPlaces, q, S

(* A preference is in its file if it leads in the cache of it; nothing     *)
(* that leads is lost but what is gone.                                    *)
Leads(m, path) == Tops(InFile(m.cache, path))
Shown(m, path, text) == path \in DOMAIN m.files /\ \E k \in DOMAIN m.files[path] : m.files[path][k].text = text
Written(m) == \A path \in PrefPaths : \A t \in Leads(m, path) : Shown(m, path, t.text)
Carries(m, n, lost) == \A path \in PrefPaths : \A t \in Leads(m, path) : t.id \notin lost => t \in Leads(n, path)
LineIds(m, path) == IdsIn(InFile(m.cache, path))
OneId(s) == \A j, k \in DOMAIN s : s[j].id = s[k].id => j = k

LEMMA PathIs ==
  ASSUME NEW m \in Memories
  PROVE  /\ Path(m) \in PrefPaths => ~m.file /\ m.layer = 1
         /\ Path(m)[1] \in PrefDirs => m.layer = 1 /\ Path(m)[2] = OwnerOf(m)
         /\ m.layer = 1 /\ m.hall = "preferences" => Path(m) \in PrefPaths /\ Path(m) = <<"l1/preferences", OwnerOf(m)>>
<1>1. m.layer \in 1..3 /\ m.file \in BOOLEAN /\ (m.file => m.layer # 1) /\ Path(m) \in Paths
  BY MemoryHas, PathHome DEF Layers
<1>2. CASE m.file
  BY <1>1, <1>2 DEF Path, PrefPaths, PrefDirs
<1>3. CASE ~m.file /\ m.layer = 1
  <2>1. Path(m) = <<IF m.hall = "preferences" THEN "l1/preferences" ELSE "l1/facts", OwnerOf(m)>>
    BY <1>3 DEF Path
  <2> QED BY <1>1, <1>3, <2>1 DEF PrefPaths
<1>4. CASE ~m.file /\ m.layer = 2
  BY <1>1, <1>4 DEF Path, PrefPaths, PrefDirs
<1>5. CASE ~m.file /\ m.layer = 3
  BY <1>1, <1>5 DEF Path, PrefPaths, PrefDirs
<1> QED BY <1>1, <1>2, <1>3, <1>4, <1>5

LEMMA WroteLeads ==
  ASSUME NEW m \in Stores, Written(m), NEW group, OneGroup(group), OneId(group), NEW n, n = WriteGroup(m, group)
  PROVE  /\ Written(n) /\ Carries(m, n, {})
         /\ \A path \in PrefPaths : LineIds(n, path) \subseteq LineIds(m, path) \cup IdsIn(group)
         /\ \A k \in DOMAIN group : Path(group[k]) \in PrefPaths /\ group[k].id \notin LineIds(m, Path(group[k])) =>
              group[k] \in Leads(n, Path(group[k]))
<1> DEFINE path == Path(group[1])  old == InFile(m.cache, path)
<1>1. group \in Seq(Memories) /\ \A k \in DOMAIN group : Path(group[k]) = path
  BY DEF OneGroup
<1>2. /\ n \in Stores /\ DOMAIN n.files = DOMAIN m.files \cup {path} /\ DOMAIN n.cache = DOMAIN m.cache \cup {path}
      /\ n.files[path] = Merge(old, group) /\ n.files[path] \in Seq(Memories)
      /\ n.cache[path] = IF group[1].file THEN group ELSE old \o group
      /\ \A p \in DOMAIN m.files : p # path => n.files[p] = m.files[p]
      /\ \A p \in DOMAIN m.cache : p # path => n.cache[p] = m.cache[p]
      /\ path \in Paths /\ group[1] \in Memories /\ old \in Seq(Memories)
  BY Wrote
<1>3. path \in PrefPaths => InFile(n.cache, path) = old \o group
  <2>1. path \in PrefPaths => ~group[1].file
    BY <1>2, PathIs
  <2> QED BY <1>2, <2>1 DEF InFile
<1>4. ASSUME NEW p \in PrefPaths, p # path PROVE InFile(n.cache, p) = InFile(m.cache, p)
  BY <1>2, <1>4 DEF InFile
<1>5. \A k \in DOMAIN group : k \in TopPlaces(group)
  <2> SUFFICES ASSUME NEW k \in DOMAIN group, NEW j \in 1..k - 1, group[j].id = group[k].id PROVE FALSE
    BY DEF TopPlaces
  <2>1. j \in DOMAIN group /\ j # k
    BY <1>1
  <2> QED BY <2>1 DEF OneId
<1> HIDE DEF path, old
<1>6. Tops(old) \subseteq Tops(old \o group) /\ \A k \in TopPlaces(group) : group[k].id \notin IdsIn(old) => group[k] \in Tops(old \o group)
  BY <1>1, <1>2, TopsJoin
<1>7. Carries(m, n, {})
  <2> SUFFICES ASSUME NEW p \in PrefPaths, NEW t \in Leads(m, p) PROVE t \in Leads(n, p)
    BY DEF Carries
  <2>1. CASE p = path
    BY <1>3, <1>6, <2>1 DEF Leads, old
  <2>2. CASE p # path
    BY <1>4, <2>2 DEF Leads
  <2> QED BY <2>1, <2>2
<1>8. Written(n)
  <2> SUFFICES ASSUME NEW p \in PrefPaths, NEW t \in Leads(n, p) PROVE Shown(n, p, t.text)
    BY DEF Written
  <2>1. CASE p = path
    <3>1. t \in Tops(old \o group)
      BY <1>3, <2>1 DEF Leads
    <3>2. \E k \in DOMAIN Merge(old, group) : Merge(old, group)[k] = t
      BY <1>1, <1>2, <3>1, MergedTops
    <3> QED BY <1>2, <2>1, <3>2 DEF Shown
  <2>2. CASE p # path
    <3>1. Shown(m, p, t.text)
      BY <1>4, <2>2 DEF Leads, Written
    <3> QED BY <1>2, <2>2, <3>1 DEF Shown
  <2> QED BY <2>1, <2>2
<1>9. ASSUME NEW p \in PrefPaths PROVE LineIds(n, p) \subseteq LineIds(m, p) \cup IdsIn(group)
  <2>1. CASE p = path
    <3>1. IdsIn(old \o group) = IdsIn(old) \cup IdsIn(group)
      <4>1. ItemsOf(old \o group) = ItemsOf(old) \cup ItemsOf(group) /\ old \o group \in Seq(Memories)
        BY <1>1, <1>2, JoinItems
      <4> DEFINE all == old \o group
      <4> HIDE DEF all
      <4>2. IdsIn(all) = {x.id : x \in ItemsOf(all)} /\ IdsIn(old) = {x.id : x \in ItemsOf(old)} /\ IdsIn(group) = {x.id : x \in ItemsOf(group)}
        BY <1>1, <1>2, <4>1, IdsAre DEF all
      <4>3. ItemsOf(all) = ItemsOf(old) \cup ItemsOf(group)
        BY <4>1 DEF all
      <4> QED BY <4>2, <4>3 DEF all
    <3> QED BY <1>3, <2>1, <3>1 DEF LineIds, old
  <2>2. CASE p # path
    BY <1>4, <2>2 DEF LineIds
  <2> QED BY <2>1, <2>2
<1>10. ASSUME NEW k \in DOMAIN group, Path(group[k]) \in PrefPaths, group[k].id \notin LineIds(m, Path(group[k]))
       PROVE  group[k] \in Leads(n, Path(group[k]))
  <2>1. Path(group[k]) = path /\ group[k].id \notin IdsIn(old)
    BY <1>1, <1>10 DEF LineIds, old
  <2> QED BY <1>3, <1>5, <1>6, <1>10, <2>1 DEF Leads
<1> QED BY <1>7, <1>8, <1>9, <1>10

(* Groups of memories with IDs of their own have IDs of their own.         *)
LEMMA GroupIds ==
  ASSUME NEW items \in Seq(Memories), OneId(items), NEW key \in Groups(items)
  PROVE  /\ OneId(Group(items, key))
         /\ \A other \in Groups(items) : IdsIn(Group(items, key)) \cap IdsIn(Group(items, other)) # {} => key = other
<1> DEFINE S == {i \in DOMAIN items : GroupOf(items[i]) = key}
           q == Group(items, key)
<1>1. q = Pick(items, S) /\ S \in SUBSET (DOMAIN items)
  BY DEF Group
<1>2. DOMAIN items = 1..Len(items) /\ Len(items) \in Nat
  OBVIOUS
<1> HIDE DEF S, q
<1>3. DOMAIN q = 1..Cardinality(S) /\ \A k \in DOMAIN q : PlaceOf(S, k) \in S /\ q[k] = items[PlaceOf(S, k)] /\ Rank(S, PlaceOf(S, k)) = k
  <2>1. /\ q \in Seq({items[i] : i \in S}) /\ Len(q) = Cardinality(S)
        /\ \A k \in DOMAIN q : PlaceOf(S, k) \in S /\ q[k] = items[PlaceOf(S, k)]
    BY <1>1, Picked
  <2>2. DOMAIN q = 1..Cardinality(S)
    BY <2>1
  <2> QED BY <1>1, <1>2, <2>1, <2>2, PlacesOf
<1>4. ASSUME NEW j \in DOMAIN q, NEW k \in DOMAIN q, q[j].id = q[k].id PROVE j = k
  <2>1. PlaceOf(S, j) = PlaceOf(S, k)
    BY <1>1, <1>3, <1>4 DEF OneId
  <2> QED BY <1>3, <2>1
<1>5. ASSUME NEW other \in Groups(items), NEW id, id \in IdsIn(q), id \in IdsIn(Group(items, other)) PROVE key = other
  <2>1. PICK j \in DOMAIN q : q[j].id = id
    BY <1>5 DEF IdsIn
  <2>2. PICK k \in DOMAIN Group(items, other) : Group(items, other)[k].id = id
    BY <1>5 DEF IdsIn
  <2>3. GroupOf(q[j]) = key /\ \E i \in DOMAIN items : items[i] = q[j]
    BY GroupHas DEF q
  <2>4. GroupOf(Group(items, other)[k]) = other /\ \E i \in DOMAIN items : items[i] = Group(items, other)[k]
    BY GroupHas
  <2> QED BY <2>1, <2>2, <2>3, <2>4 DEF OneId
<1>6. OneId(q)
  BY <1>4 DEF OneId
<1> QED BY <1>5, <1>6 DEF q

(* A batch: what leads goes on leading, and what is new leads as well.     *)
Leading(m, n, items, order, i) ==
  /\ n \in Stores /\ Written(n) /\ Carries(m, n, {})
  /\ \A path \in PrefPaths : \A id \in LineIds(n, path) :
       id \in LineIds(m, path) \/ \E j \in 1..i : id \in IdsIn(Group(items, order[j]))
  /\ \A j \in 1..i : \A x \in ItemsOf(Group(items, order[j])) : Path(x) \in PrefPaths => x \in Leads(n, Path(x))

(* Whose IDs the cache does not have.                                      *)
Unwritten(m, items) == \A x \in ItemsOf(items) : \A path \in PrefPaths : x.id \notin LineIds(m, path)

LEMMA LeadStep ==
  ASSUME NEW m, NEW n, NEW items \in Seq(Memories), OneId(items), Unwritten(m, items), NEW order, NEW i \in Nat, i # 0,
         order[i] \in Groups(items), \A j \in 1..i - 1 : order[j] \in Groups(items) /\ order[j] # order[i],
         Leading(m, n, items, order, i - 1)
  PROVE  Leading(m, WriteGroup(n, Group(items, order[i])), items, order, i)
<1> DEFINE group == Group(items, order[i])  o == WriteGroup(n, group)
<1>1. OneGroup(group) /\ OneId(group)
  BY GroupOne, GroupIds
<1>2. /\ \A k \in DOMAIN group : \E a \in DOMAIN items : items[a] = group[k]
      /\ \A j \in 1..i - 1 : IdsIn(group) \cap IdsIn(Group(items, order[j])) = {}
  BY GroupHas, GroupIds
<1> HIDE DEF group
<1>3. /\ n \in Stores /\ Written(n) /\ Carries(m, n, {})
      /\ \A path \in PrefPaths : \A id \in LineIds(n, path) :
           id \in LineIds(m, path) \/ \E j \in 1..i - 1 : id \in IdsIn(Group(items, order[j]))
      /\ \A j \in 1..i - 1 : \A x \in ItemsOf(Group(items, order[j])) : Path(x) \in PrefPaths => x \in Leads(n, Path(x))
  BY DEF Leading
<1>4. /\ Written(o) /\ Carries(n, o, {})
      /\ \A path \in PrefPaths : LineIds(o, path) \subseteq LineIds(n, path) \cup IdsIn(group)
      /\ \A k \in DOMAIN group : Path(group[k]) \in PrefPaths /\ group[k].id \notin LineIds(n, Path(group[k])) =>
           group[k] \in Leads(o, Path(group[k]))
  BY <1>1, <1>3, WroteLeads
<1>5. o \in Stores
  BY <1>1, <1>3, Wrote
<1> HIDE DEF o
<1>6. Carries(m, o, {})
  BY <1>3, <1>4 DEF Carries
<1>7. ASSUME NEW x \in ItemsOf(group), NEW path \in PrefPaths PROVE x.id \notin LineIds(n, path)
  <2>1. x \in ItemsOf(items) /\ x.id \in IdsIn(group)
    BY <1>2 DEF ItemsOf, IdsIn
  <2>2. x.id \notin LineIds(m, path)
    BY <2>1 DEF Unwritten
  <2> QED BY <1>2, <1>3, <2>1, <2>2
<1>8. ASSUME NEW j \in 1..i, NEW x \in ItemsOf(Group(items, order[j])), Path(x) \in PrefPaths PROVE x \in Leads(o, Path(x))
  <2>1. CASE j = i
    <3>1. x \in ItemsOf(group)
      BY <2>1 DEF group
    <3>2. x.id \notin LineIds(n, Path(x))
      BY <1>7, <1>8, <3>1
    <3> QED BY <1>4, <1>8, <3>1, <3>2 DEF ItemsOf
  <2>2. CASE j # i
    <3>1. x \in Leads(n, Path(x))
      BY <1>3, <1>8, <2>2
    <3> QED BY <1>4, <1>8, <3>1 DEF Carries
  <2> QED BY <2>1, <2>2
<1>9. ASSUME NEW path \in PrefPaths, NEW id \in LineIds(o, path)
      PROVE  id \in LineIds(m, path) \/ \E j \in 1..i : id \in IdsIn(Group(items, order[j]))
  <2>1. CASE id \in LineIds(n, path)
    BY <1>3, <2>1
  <2>2. CASE id \in IdsIn(group)
    <3>1. i \in 1..i
      OBVIOUS
    <3> QED BY <2>2, <3>1 DEF group
  <2> QED BY <1>4, <2>1, <2>2
<1>10. Leading(m, o, items, order, i)
  BY <1>4, <1>5, <1>6, <1>8, <1>9 DEF Leading
<1> QED BY <1>10 DEF o, group

LEMMA BatchLeads ==
  ASSUME NEW m \in Stores, Written(m), NEW items \in Seq(Memories), OneId(items), Unwritten(m, items),
         NEW order \in Seq(Groups(items)), \A i, j \in DOMAIN order : order[i] = order[j] => i = j
  PROVE  Leading(m, StoreInOrder(m, items, order), items, order, Len(order))
<1> DEFINE n == Len(order)
<1>1. n \in Nat /\ DOMAIN order = 1..n /\ \A i \in 1..n : order[i] \in Groups(items)
  OBVIOUS
<1>2. PICK G : /\ G[0] = m /\ G[n] = StoreInOrder(m, items, order)
               /\ \A i \in 1..n : G[i] = WriteGroup(G[i - 1], Group(items, order[i]))
  BY RunSteps
<1> DEFINE S == {i \in 0..n : Leading(m, G[i], items, order, i)}
<1>3. 0 \in S
  <2>1. Carries(m, m, {})
    BY DEF Carries
  <2>2. 1..0 = {}
    OBVIOUS
  <2>3. Leading(m, m, items, order, 0)
    BY <2>1, <2>2 DEF Leading
  <2> QED BY <1>1, <1>2, <2>3
<1>4. ASSUME NEW i \in 1..n, i - 1 \in S PROVE i \in S
  <2>1. i \in Nat /\ i # 0 /\ order[i] \in Groups(items) /\ \A j \in 1..i - 1 : order[j] \in Groups(items) /\ order[j] # order[i]
    <3>1. \A j \in 1..i - 1 : j \in 1..n /\ j # i
      BY <1>1
    <3> QED BY <1>1, <3>1
  <2>2. Leading(m, G[i - 1], items, order, i - 1)
    BY <1>4
  <2>3. Leading(m, WriteGroup(G[i - 1], Group(items, order[i])), items, order, i)
    BY <2>1, <2>2, LeadStep
  <2> QED BY <1>1, <1>2, <2>3
<1>5. n \in S
  <2> HIDE DEF S
  <2>1. \A i \in 0..n : i \in S
    BY <1>1, <1>3, <1>4, Upwards
  <2> QED BY <1>1, <2>1
<1> QED BY <1>2, <1>5

(* Deleting takes from a cache what has the ID, and writes the rest.       *)
LEMMA DeletedLeads ==
  ASSUME NEW m \in Stores, Written(m), NEW id
  PROVE  Written(DeleteItem(m, id)) /\ Carries(m, DeleteItem(m, id), {id})
<1> DEFINE paths == {p \in DOMAIN m.cache : id \in IdsIn(m.cache[p])}
           path == CHOOSE p \in paths : TRUE
           S == {k \in DOMAIN m.cache[path] : m.cache[path][k].id # id}
           rest == Pick(m.cache[path], S)
           n == DeleteItem(m, id)
<1>1. m.cache \in Disks /\ DOMAIN m.cache \subseteq DOMAIN m.files
  BY StoreHas
<1>2. CASE paths = {}
  <2>1. n = m
    BY <1>2 DEF DeleteItem
  <2> QED BY <2>1 DEF Carries
<1>3. CASE paths # {}
  <2>1. path \in DOMAIN m.cache
    BY <1>3
  <2>2. n = [files |-> IF rest = <<>> THEN m.files ELSE Put(m.files, path, Merge(rest, rest)),
             cache |-> Put(m.cache, path, rest)]
    BY <1>3 DEF DeleteItem
  <2> HIDE DEF paths, path, n
  <2> DEFINE old == m.cache[path]
  <2>3. old \in Seq(Memories) /\ S \in SUBSET (DOMAIN old) /\ InFile(m.cache, path) = old
    BY <1>1, <2>1, PlacedIs DEF InFile
  <2>4. rest \in Seq(Memories)
    <3> HIDE DEF S
    <3> QED BY <2>3, PickedFrom
  <2>5. \A t \in Tops(old) : t.id # id => t \in Tops(rest)
    <3> SUFFICES ASSUME NEW t \in Tops(old), t.id # id PROVE t \in Tops(rest)
      OBVIOUS
    <3>1. old \in Seq(Memories)
      BY <2>3
    <3>2. rest = Pick(old, {k \in DOMAIN old : old[k].id # id})
      OBVIOUS
    <3> HIDE DEF old, S, rest
    <3>3. t \in Tops(Pick(old, {k \in DOMAIN old : old[k].id # id}))
      BY <3>1, PickedTops
    <3> QED BY <3>2, <3>3
  <2> HIDE DEF S, old, rest
  <2>6. \A t \in Tops(rest) : rest # <<>> /\ \E k \in DOMAIN Merge(rest, rest) : Merge(rest, rest)[k] = t
    <3>1. Tops(rest) \subseteq Tops(rest \o rest)
      BY <2>4, TopsJoin
    <3>2. \A t \in Tops(rest) : rest # <<>>
      BY DEF Tops, TopPlaces
    <3> QED BY <2>4, <3>1, <3>2, MergedTops
  <2> DEFINE twice == Merge(rest, rest)
  <2> HIDE DEF twice
  <2>7. /\ n.cache = Put(m.cache, path, rest) /\ n.files = IF rest = <<>> THEN m.files ELSE Put(m.files, path, twice)
    BY <2>2 DEF twice
  <2>8. InFile(n.cache, path) = rest /\ \A p : p # path => InFile(n.cache, p) = InFile(m.cache, p)
    BY <2>1, <2>7 DEF InFile, Put
  <2>9. /\ rest # <<>> => path \in DOMAIN n.files /\ n.files[path] = twice
        /\ \A p \in DOMAIN m.files : p # path => p \in DOMAIN n.files /\ n.files[p] = m.files[p]
    BY <1>1, <2>1, <2>7 DEF Put
  <2>10. Carries(m, n, {id})
    <3> SUFFICES ASSUME NEW p \in PrefPaths, NEW t \in Leads(m, p), t.id # id PROVE t \in Leads(n, p)
      BY DEF Carries
    <3>1. CASE p = path
      BY <2>3, <2>5, <2>8, <3>1 DEF Leads
    <3>2. CASE p # path
      BY <2>8, <3>2 DEF Leads
    <3> QED BY <3>1, <3>2
  <2>11. Written(n)
    <3> SUFFICES ASSUME NEW p \in PrefPaths, NEW t \in Leads(n, p) PROVE Shown(n, p, t.text)
      BY DEF Written
    <3>1. CASE p = path
      <4>1. t \in Tops(rest)
        BY <2>8, <3>1 DEF Leads
      <4> QED BY <2>6, <2>9, <3>1, <4>1 DEF Shown, twice
    <3>2. CASE p # path
      <4>1. Shown(m, p, t.text)
        BY <2>8, <3>2 DEF Leads, Written
      <4> QED BY <2>9, <3>2, <4>1 DEF Shown
    <3> QED BY <3>1, <3>2
  <2> QED BY <2>10, <2>11 DEF n
<1> QED BY <1>2, <1>3

LEMMA ClearLeads ==
  ASSUME NEW m \in Stores, Written(m), NEW items \in Seq(Memories)
  PROVE  Written(Clearing(m, items)) /\ Carries(m, Clearing(m, items), IdsIn(items))
<1> DEFINE n == Len(items)
           Good(o) == o \in Stores /\ Written(o) /\ Carries(m, o, IdsIn(items))
<1>1. n \in Nat /\ DOMAIN items = 1..n
  OBVIOUS
<1>2. PICK G : G[0] = m /\ G[n] = Clearing(m, items) /\ \A i \in 1..n : G[i] = DeleteItem(G[i - 1], items[i].id)
  BY ClearSteps
<1> DEFINE S == {i \in 0..n : Good(G[i])}
<1>3. 0 \in S
  <2>1. Good(m)
    BY DEF Carries
  <2> QED BY <1>1, <1>2, <2>1
<1>4. ASSUME NEW i \in 1..n, i - 1 \in S PROVE i \in S
  <2> DEFINE a == G[i - 1]  b == DeleteItem(a, items[i].id)
  <2>1. a \in Stores /\ Written(a) /\ Carries(m, a, IdsIn(items))
    BY <1>4
  <2>2. items[i].id \in IdsIn(items)
    BY <1>1 DEF IdsIn
  <2> HIDE DEF a
  <2>3. b \in Stores /\ Written(b) /\ Carries(a, b, {items[i].id})
    BY <2>1, Deleted, DeletedLeads
  <2> HIDE DEF b
  <2>4. Carries(m, b, IdsIn(items))
    BY <2>1, <2>2, <2>3 DEF Carries
  <2>5. G[i] = b
    BY <1>2 DEF a, b
  <2> QED BY <2>3, <2>4, <2>5
<1>5. n \in S
  <2> HIDE DEF S
  <2>1. \A i \in 0..n : i \in S
    BY <1>1, <1>3, <1>4, Upwards
  <2> QED BY <1>1, <2>1
<1> QED BY <1>2, <1>5

(* Adding one to the first layer: it leads, and only what is of the same   *)
(* user may go.                                                            *)
LEMMA AddedLeads ==
  ASSUME NEW m \in Stores, Written(m), NEW list \in Seq(Memories), NEW item \in Memories,
         item.id \notin IdsIn(list), Unwritten(m, <<item>>), NEW n, n = AddL1(m, list, item).md
  PROVE  /\ Written(n) /\ (Path(item) \in PrefPaths => item \in Leads(n, Path(item)))
         /\ \A path \in PrefPaths : \A t \in Leads(m, path) :
              (\A x \in ItemsOf(list) : x.user = item.user => x.id # t.id) => t \in Leads(n, path)
<1> DEFINE o == StoreOne(m, item)  group == <<item>>  all == Append(list, item)
           S == OfUser(all, item.user)  mine == Pick(all, S)
<1>1. OneGroup(group) /\ group[1] = item /\ DOMAIN group = {1} /\ OneId(group)
  BY OneAlone DEF OneId
<1>2. o = WriteGroup(m, group)
  BY DEF StoreOne
<1>3. \A path \in PrefPaths : item.id \notin LineIds(m, path)
  BY <1>1 DEF Unwritten, ItemsOf
<1> HIDE DEF group
<1>4. /\ o \in Stores /\ Written(o) /\ Carries(m, o, {})
      /\ Path(item) \in PrefPaths => item \in Leads(o, Path(item))
  <2>1. o \in Stores
    BY <1>1, <1>2, Wrote
  <2>2. /\ Written(o) /\ Carries(m, o, {})
        /\ \A k \in DOMAIN group : Path(group[k]) \in PrefPaths /\ group[k].id \notin LineIds(m, Path(group[k])) =>
              group[k] \in Leads(o, Path(group[k]))
    BY <1>1, <1>2, WroteLeads
  <2> QED BY <1>1, <1>3, <2>1, <2>2
<1> HIDE DEF o
<1>5. /\ all \in Seq(Memories) /\ Len(all) = Len(list) + 1 /\ Len(list) \in Nat /\ DOMAIN all = 1..Len(all)
      /\ \A k \in DOMAIN all : k = Len(all) \/ (k \in DOMAIN list /\ all[k] = list[k])
  OBVIOUS
<1> HIDE DEF all
<1>6. S \in SUBSET (DOMAIN all) /\ \A k \in S : all[k].user = item.user
  BY DEF OfUser
<1>7. n = IF Len(mine) <= 1 THEN o ELSE Clearing(o, Front(mine))
  <2>1. n = Compacted(o, all, item.user).md
    BY DEF AddL1, o, all
  <2> QED BY <2>1 DEF Compacted, Clearing
<1> HIDE DEF S, mine
<1>8. mine \in Seq(Memories) /\ Len(mine) = Cardinality(S) /\ DOMAIN mine = 1..Cardinality(S)
      /\ \A k \in DOMAIN mine : PlaceOf(S, k) \in S /\ mine[k] = all[PlaceOf(S, k)] /\ Rank(S, PlaceOf(S, k)) = k
  <2>1. /\ mine \in Seq({all[i] : i \in S}) /\ Len(mine) = Cardinality(S)
        /\ \A k \in DOMAIN mine : PlaceOf(S, k) \in S /\ mine[k] = all[PlaceOf(S, k)]
    <3>1. all \in Seq(Memories) /\ S \in SUBSET (DOMAIN all)
      BY <1>5, <1>6
    <3>2. /\ Pick(all, S) \in Seq({all[i] : i \in S}) /\ Len(Pick(all, S)) = Cardinality(S)
          /\ \A k \in DOMAIN Pick(all, S) : PlaceOf(S, k) \in S /\ Pick(all, S)[k] = all[PlaceOf(S, k)]
      BY <3>1, Picked
    <3> QED BY <3>2 DEF mine
  <2>2. mine \in Seq(Memories)
    <3>1. Pick(all, S) \in Seq(Memories)
      BY <1>5, <1>6, PickedFrom
    <3> QED BY <3>1 DEF mine
  <2>3. DOMAIN mine = 1..Cardinality(S)
    BY <2>1
  <2>4. \A k \in 1..Cardinality(S) : Rank(S, PlaceOf(S, k)) = k
    <3>1. Len(all) \in Nat /\ S \in SUBSET (1..Len(all))
      BY <1>5, <1>6
    <3> HIDE DEF Rank
    <3> QED BY <3>1, PlacesOf
  <2> QED BY <2>1, <2>2, <2>3, <2>4
<1>9. Len(mine) \in Nat
  BY <1>8
<1>10. CASE Len(mine) <= 1
  <2>1. n = o
    BY <1>7, <1>10
  <2> QED BY <1>4, <2>1 DEF Carries
<1>11. CASE Len(mine) > 1
  <2> DEFINE front == Front(mine)
  <2>1. /\ front \in Seq(Memories) /\ DOMAIN front = 1..(Len(mine) - 1)
        /\ \A k \in DOMAIN front : k \in DOMAIN mine /\ front[k] = mine[k]
    <3>1. /\ front \in Seq(Memories) /\ DOMAIN front \subseteq DOMAIN mine /\ \A k \in DOMAIN front : front[k] = mine[k]
      BY <1>8, <1>11, FrontHas
    <3>2. DOMAIN front = 1..(Len(mine) - 1)
      BY <1>8, <1>11 DEF Front
    <3> QED BY <3>1, <3>2
  <2>2. n = Clearing(o, front)
    BY <1>7, <1>9, <1>11
  <2> HIDE DEF front
  <2>3. Written(n) /\ Carries(o, n, IdsIn(front))
    BY <1>4, <2>1, <2>2, ClearLeads
  <2>4. ASSUME NEW k \in DOMAIN front PROVE front[k] \in ItemsOf(list) /\ front[k].user = item.user
    <3> DEFINE i == PlaceOf(S, k)
    <3>1. i \in S /\ front[k] = all[i] /\ Rank(S, i) = k /\ k < Cardinality(S)
      BY <1>8, <2>1
    <3> HIDE DEF i
    <3>2. i # Len(all)
      <4>1. {j \in S : j <= Len(all)} = S
        BY <1>5, <1>6
      <4>2. Rank(S, Len(all)) = Cardinality(S)
        BY <4>1 DEF Rank
      <4> QED BY <1>8, <1>9, <2>1, <3>1, <4>2
    <3>3. i \in DOMAIN list /\ all[i] = list[i]
      BY <1>5, <1>6, <3>1, <3>2
    <3> QED BY <1>6, <3>1, <3>3 DEF ItemsOf
  <2>5. item.id \notin IdsIn(front)
    BY <2>4 DEF IdsIn, ItemsOf
  <2>6. ASSUME NEW path \in PrefPaths, NEW t \in Leads(m, path), \A x \in ItemsOf(list) : x.user = item.user => x.id # t.id
        PROVE  t \in Leads(n, path)
    <3>1. t \in Leads(o, path)
      BY <1>4 DEF Carries
    <3>2. t.id \notin IdsIn(front)
      BY <2>4, <2>6 DEF IdsIn
    <3> QED BY <2>3, <3>1, <3>2 DEF Carries
  <2> QED BY <1>4, <2>3, <2>5, <2>6 DEF Carries
<1> QED BY <1>9, <1>10, <1>11

(* What a batch wrote last at a path.                                      *)
LEMMA InOrderFrom ==
  ASSUME NEW items \in Seq(Memories), NEW order \in Seq(Groups(items)), NEW x \in ItemsOf(InOrder(items, order))
  PROVE  \E j \in DOMAIN order : x \in ItemsOf(Group(items, order[j]))
<1> DEFINE ss == [k \in DOMAIN order |-> Group(items, order[k])]  n == Len(order)
           T == UNION {ItemsOf(Group(items, order[j])) : j \in DOMAIN order}
<1>1. n \in Nat /\ DOMAIN order = 1..n /\ \A k \in DOMAIN order : order[k] \in Groups(items)
  OBVIOUS
<1>2. ASSUME NEW k \in DOMAIN order PROVE Group(items, order[k]) \in Seq(T)
  <2> DEFINE g == Group(items, order[k])
  <2>1. g \in Seq(Memories) /\ ItemsOf(g) \subseteq T
    BY <1>1, GroupHas
  <2> HIDE DEF g, T
  <2>2. Len(g) \in Nat /\ g \in [1..Len(g) -> Memories] /\ \A i \in 1..Len(g) : g[i] \in T
    BY <2>1 DEF ItemsOf
  <2>3. g \in [1..Len(g) -> T]
    BY <2>2
  <2>4. g \in Seq(T)
    <3> DEFINE l == Len(g)
    <3>1. l \in Nat /\ g \in [1..l -> T]
      BY <2>2, <2>3
    <3> HIDE DEF l
    <3> QED BY <3>1
  <2> QED BY <2>4 DEF g
<1>3. ss \in Seq(Seq(T))
  <2> HIDE DEF n, T
  <2> QED BY <1>1, <1>2
<1>4. InOrder(items, order) = FlattenSeq(ss)
  BY DEF InOrder
<1> HIDE DEF ss, T
<1>5. FlattenSeq(ss) \in Seq(T)
  BY <1>3, Flattened
<1>6. x \in T
  BY <1>4, <1>5 DEF ItemsOf
<1> QED BY <1>6 DEF T

LEMMA NotingIs ==
  ASSUME NEW items \in Seq(Memories), NEW path \in DOMAIN Noting(items)
  PROVE  \/ \E x \in ItemsOf(items) : Path(x) = path /\ Noting(items)[path] = x.text
         \/ path \in DOMAIN latest /\ Noting(items)[path] = latest[path] /\ \A x \in ItemsOf(items) : x.layer = 1 => Path(x) # path
<1> DEFINE n == Len(items)  P == L1Paths(items)  S == {k \in DOMAIN items : Path(items[k]) = path}
<1>1. n \in Nat /\ DOMAIN items = 1..n
  OBVIOUS
<1>2. Noting(items) = [q \in DOMAIN latest \cup P |-> IF q \in P THEN LastOf(items, q) ELSE latest[q]]
  BY DEF Noting
<1>3. ASSUME path \in P PROVE \E x \in ItemsOf(items) : Path(x) = path /\ Noting(items)[path] = x.text
  <2>1. S \in SUBSET (1..n) /\ S # {}
    BY <1>1, <1>3 DEF L1Paths
  <2>2. LastOf(items, path) = items[Max(S)].text
    BY DEF LastOf
  <2>3. Noting(items)[path] = LastOf(items, path)
    <3> HIDE DEF P
    <3> QED BY <1>2, <1>3
  <2> HIDE DEF S, P
  <2>4. Max(S) \in S
    BY <1>1, <2>1, GreatestOf
  <2> DEFINE i == Max(S)
  <2> HIDE DEF i
  <2>5. i \in DOMAIN items /\ Path(items[i]) = path /\ Noting(items)[path] = items[i].text
    BY <2>2, <2>3, <2>4 DEF i, S
  <2> QED BY <2>5 DEF ItemsOf
<1>4. ASSUME path \notin P
      PROVE  path \in DOMAIN latest /\ Noting(items)[path] = latest[path] /\ \A x \in ItemsOf(items) : x.layer = 1 => Path(x) # path
  <2>1. \A x \in ItemsOf(items) : x.layer = 1 => Path(x) # path
    BY <1>4 DEF L1Paths, ItemsOf
  <2> HIDE DEF P
  <2> QED BY <1>2, <1>4, <2>1
<1> QED BY <1>3, <1>4

(* What a start makes of a file of preferences: the same texts, each with  *)
(* an ID of its own.                                                       *)
LEMMA FirstsLead ==
  ASSUME NEW s, OneId(s), DOMAIN s \subseteq Nat, \A k \in DOMAIN s : 1..k \subseteq DOMAIN s
  PROVE  Tops(s) = ItemsOf(s)
<1>1. ASSUME NEW k \in DOMAIN s PROVE k \in TopPlaces(s)
  <2> SUFFICES ASSUME NEW j \in 1..k - 1, s[j].id = s[k].id PROVE FALSE
    BY DEF TopPlaces
  <2>1. j \in 1..k /\ j # k
    OBVIOUS
  <2> QED BY <2>1 DEF OneId
<1>2. \A k \in TopPlaces(s) : k \in DOMAIN s
  BY DEF TopPlaces
<1> QED BY <1>1, <1>2 DEF Tops, ItemsOf

LEMMA PrefsLoaded ==
  ASSUME NEW fs \in Disks, NEW n \in Nat, NEW path \in PrefPaths, NEW m, m = [files |-> fs, cache |-> LoadCache(fs, n)]
  PROVE  /\ \A t \in Leads(m, path) : Shown(m, path, t.text)
         /\ \A text : Shown(m, path, text) => \E t \in Leads(m, path) : t.text = text
<1> DEFINE c == LoadCache(fs, n)  s == InFile(c, path)
<1>1. m.files = fs /\ m.cache = c
  OBVIOUS
<1>2. path \in Paths /\ path[1] \in PrefDirs /\ path[1] = "l1/preferences"
  BY DEF PrefPaths, PrefDirs
<1>3. path \in DOMAIN c <=> path \in DOMAIN fs
  BY <1>2 DEF LoadCache, Readable
<1> DEFINE q == fs[path]
<1>4. CASE path \notin DOMAIN fs
  <2>1. s = <<>>
    BY <1>3, <1>4 DEF InFile
  <2>2. Leads(m, path) = {}
    BY <1>1, <2>1 DEF Leads, Tops, TopPlaces
  <2> QED BY <1>1, <1>4, <2>2 DEF Shown
<1>5. CASE path \in DOMAIN fs
  <2>1. q \in Seq(Memories)
    BY <1>5, PlacedIs
  <2>2. s = [k \in DOMAIN q |-> RereadLine(q[k], path[2], <<n, k, path[1], path[2]>>)]
    <3>1. s = Parsed(path, q, n)
      BY <1>2, <1>3, <1>5 DEF InFile, LoadCache, Readable
    <3> QED BY <1>2, <3>1 DEF Parsed
  <2> HIDE DEF q, s, c
  <2>3. Len(q) \in Nat /\ DOMAIN q = 1..Len(q) /\ DOMAIN s = DOMAIN q /\ \A k \in DOMAIN q : q[k] \in Memories
    BY <2>1, <2>2
  <2>4. ASSUME NEW k \in DOMAIN q PROVE s[k].text = q[k].text /\ s[k].id = <<n, k, path[1], path[2]>>
    <3>1. s[k] = RereadLine(q[k], path[2], <<n, k, path[1], path[2]>>)
      BY <2>2
    <3> DEFINE x == q[k]  r == RereadLine(x, path[2], <<n, k, path[1], path[2]>>)
    <3>2. k \in Nat /\ x \in Memories /\ s[k] = r
      BY <2>3, <3>1
    <3> HIDE DEF x
    <3>3. r.text = x.text /\ r.id = <<n, k, path[1], path[2]>>
      BY <1>2, <3>2, LineIs
    <3> HIDE DEF r
    <3> QED BY <3>2, <3>3 DEF x
  <2>5. OneId(s)
    <3> SUFFICES ASSUME NEW j \in DOMAIN s, NEW k \in DOMAIN s, s[j].id = s[k].id PROVE j = k
      BY DEF OneId
    <3>1. <<n, j, path[1], path[2]>> = <<n, k, path[1], path[2]>>
      BY <2>3, <2>4
    <3> QED BY <3>1
  <2>6. Tops(s) = ItemsOf(s)
    <3>1. DOMAIN s \subseteq Nat /\ \A k \in DOMAIN s : 1..k \subseteq DOMAIN s
      BY <2>3
    <3> QED BY <2>5, <3>1, FirstsLead
  <2>7. Leads(m, path) = ItemsOf(s)
    BY <1>1, <2>6 DEF Leads, s, c
  <2>8. ASSUME NEW t \in Leads(m, path) PROVE Shown(m, path, t.text)
    <3>1. PICK k \in DOMAIN q : t = s[k]
      BY <2>3, <2>7 DEF ItemsOf
    <3> QED BY <1>1, <1>5, <2>4, <3>1 DEF Shown, q
  <2>9. ASSUME NEW text, Shown(m, path, text) PROVE \E t \in Leads(m, path) : t.text = text
    <3>1. PICK k \in DOMAIN q : q[k].text = text
      BY <1>1, <2>9 DEF Shown, q
    <3> QED BY <2>3, <2>4, <2>7, <3>1 DEF ItemsOf
  <2> QED BY <2>8, <2>9
<1> QED BY <1>4, <1>5

(* What is said of the first layer.  Every line is at the path its owner   *)
(* gives it and signed with the name of somebody, or of their account; the *)
(* ID of one that was read again has the owner in it; lines with one ID    *)
(* have one owner.  What is in hand has IDs nothing else has.  And the     *)
(* preference an account got last is in its file and leads in its cache.   *)
Signed(m) == \E w \in People : OwnerOf(m) = OwnerOf(w) /\ m.user \in {w.user, OwnerOf(w)}
Lines(m) == {y[2] : y \in {y \in AllPlaced(m) : y[1][1] \in PrefDirs}}
Named(m) == \A y \in AllPlaced(m) : y[1][1] \in PrefDirs => y[1][2] = OwnerOf(y[2])
Owned(F, n) ==
  /\ \A m \in F : Signed(m) /\ m.id \in MadeIds(n) \cup RereadIds /\ (m.id \in RereadIds => OwnerOf(m) = m.id[4])
  /\ \A m, k \in F : m.id = k.id => OwnerOf(m) = OwnerOf(k)

Others == ItemsOf(l1) \cup Lines(md)
Firsts == Others \cup Hands
OwnersOK == Named(md) /\ Owned(Firsts, made)
HandsOK ==
  \A p \in Scanners :
    /\ OneId(at[p].hand)
    /\ \A m \in ItemsOf(at[p].hand) : /\ m.id \in MadeIds(made)
                                      /\ \A o \in Others : m.id # o.id
                                      /\ \A q \in Scanners : \A o \in ItemsOf(at[q].hand) : m.id = o.id => p = q
WrittenOK == proc # "down" => Written(md)
LatestOK ==
  \A path \in DOMAIN latest : path[1] = "l1/preferences" =>
    Shown(md, path, latest[path]) /\ (proc # "down" => \E t \in Leads(md, path) : t.text = latest[path])

PrefInv == OwnersOK /\ HandsOK /\ WrittenOK /\ LatestOK

LEMMA LinesMove ==
  ASSUME NEW m, NEW n, NEW B \in SUBSET Memories, Named(m), AllPlaced(n) \subseteq AllPlaced(m) \cup {<<Path(x), x>> : x \in B}
  PROVE  Named(n) /\ Lines(n) \subseteq Lines(m) \cup B
<1>1. ASSUME NEW y \in AllPlaced(n) PROVE y \in AllPlaced(m) \/ (y[2] \in B /\ y[1] = Path(y[2]))
  OBVIOUS
<1>2. \A x \in B : Path(x)[1] \in PrefDirs => Path(x)[2] = OwnerOf(x)
  BY PathIs
<1>3. Named(n)
  BY <1>1, <1>2 DEF Named
<1>4. Lines(n) \subseteq Lines(m) \cup B
  BY <1>1 DEF Lines
<1> QED BY <1>3, <1>4

LEMMA LeadIs ==
  ASSUME NEW m \in Stores, NEW path \in PrefPaths
  PROVE  /\ \A t \in Leads(m, path) : <<path, t>> \in AllPlaced(m) /\ t \in Lines(m) /\ t \in Memories
         /\ \A id \in LineIds(m, path) : \E n \in Lines(m) : n.id = id
<1>1. m.cache \in Disks /\ path[1] \in PrefDirs
  BY StoreHas DEF PrefPaths, PrefDirs
<1> DEFINE s == InFile(m.cache, path)
<1>2. ASSUME NEW k \in DOMAIN s PROVE <<path, s[k]>> \in AllPlaced(m) /\ s[k] \in Lines(m) /\ s[k] \in Memories
  <2>1. path \in DOMAIN m.cache /\ s = m.cache[path]
    BY DEF InFile
  <2> DEFINE x == s[k]
  <2>2. <<path, x>> \in Placed(m.cache) /\ x \in Memories
    BY <1>1, <2>1, PlacedIs
  <2> HIDE DEF x
  <2>3. <<path, x>> \in AllPlaced(m) /\ <<path, x>>[1][1] \in PrefDirs /\ <<path, x>>[2] = x
    BY <1>1, <2>2 DEF AllPlaced
  <2>4. x \in Lines(m)
    BY <2>3 DEF Lines
  <2> QED BY <2>2, <2>3, <2>4 DEF x
<1>3. Leads(m, path) \subseteq ItemsOf(s)
  BY DEF Leads, Tops, TopPlaces, ItemsOf
<1> HIDE DEF s
<1>4. LineIds(m, path) = IdsIn(s)
  BY DEF LineIds, s
<1> QED BY <1>2, <1>3, <1>4 DEF ItemsOf, IdsIn

LEMMA OwnersMove ==
  ASSUME OwnersOK, Named(md'), Firsts' \subseteq Firsts, made' = made
  PROVE  OwnersOK'
<1>1. Named(md)'
  BY DEF Named
<1>2. Owned(Firsts', made')
  BY DEF OwnersOK, Owned
<1> DEFINE F == Firsts
<1>3. Owned(F', made')
  BY <1>2
<1> HIDE DEF F
<1>4. Owned(F, made)'
  BY <1>3 DEF Owned, MadeIds
<1> QED BY <1>1, <1>4 DEF OwnersOK, F

LEMMA HandsMove ==
  ASSUME HandsOK, made' = made, NEW B, Others' \subseteq Others \cup B,
         \A p \in Scanners : OneId(at'[p].hand) /\ ItemsOf(at'[p].hand) \subseteq ItemsOf(at[p].hand),
         \A b \in B : \A p \in Scanners : \A m \in ItemsOf(at'[p].hand) : m.id # b.id
  PROVE  HandsOK'
<1> SUFFICES ASSUME NEW p \in Scanners
             PROVE  /\ OneId(at'[p].hand)
                    /\ \A m \in ItemsOf(at'[p].hand) :
                         /\ m.id \in MadeIds(made')
                         /\ \A n \in Others' : m.id # n.id
                         /\ \A q \in Scanners : \A n \in ItemsOf(at'[q].hand) : m.id = n.id => p = q
  BY DEF HandsOK, OneId, ItemsOf, MadeIds
<1>1. ASSUME NEW m \in ItemsOf(at'[p].hand)
      PROVE  /\ m.id \in MadeIds(made')
             /\ \A n \in Others' : m.id # n.id
             /\ \A q \in Scanners : \A n \in ItemsOf(at'[q].hand) : m.id = n.id => p = q
  <2>1. m \in ItemsOf(at[p].hand)
    OBVIOUS
  <2>2. /\ m.id \in MadeIds(made) /\ \A n \in Others : m.id # n.id
        /\ \A q \in Scanners : \A n \in ItemsOf(at[q].hand) : m.id = n.id => p = q
    BY <2>1 DEF HandsOK
  <2>3. \A n \in Others' : m.id # n.id
    BY <2>2
  <2> QED BY <2>2, <2>3
<1> QED BY <1>1

LEMMA PrefCalm ==
  ASSUME PrefInv, UNCHANGED <<md, l1, made, latest>>, \A p \in Scanners : at'[p].hand = at[p].hand,
         proc' # "down" => proc # "down"
  PROVE  PrefInv'
<1>1. Others' = Others
  BY DEF Others
<1>2. Hands' = Hands
  BY DEF Hands
<1>3. OwnersOK'
  <2>1. Firsts' = Firsts
    BY <1>1, <1>2 DEF Firsts
  <2>2. Named(md')
    BY DEF PrefInv, OwnersOK
  <2> QED BY <2>1, <2>2, OwnersMove DEF PrefInv
<1>4. HandsOK'
  <2>1. \A p \in Scanners : OneId(at'[p].hand)
    BY DEF PrefInv, HandsOK
  <2> DEFINE B == {}
  <2>2. Others' \subseteq Others \cup B /\ \A b \in B : FALSE
    BY <1>1
  <2> HIDE DEF B
  <2> QED BY <2>1, <2>2, HandsMove DEF PrefInv
<1>5. WrittenOK'
  <2>1. proc' # "down" => Written(md')
    BY DEF PrefInv, WrittenOK
  <2> QED BY <2>1 DEF WrittenOK, Written
<1>6. LatestOK'
  BY DEF PrefInv, LatestOK, Shown, Leads
<1> QED BY <1>3, <1>4, <1>5, <1>6 DEF PrefInv

(* A hand without its first memory.                                        *)
LEMMA HeadGone ==
  ASSUME NEW hand \in Seq(Memories), hand # <<>>, OneId(hand)
  PROVE  OneId(Tail(hand)) /\ \A x \in ItemsOf(Tail(hand)) : x.id # Head(hand).id
<1> DEFINE rest == Tail(hand)  item == Head(hand)
<1>1. /\ item = hand[1] /\ 1 \in DOMAIN hand
      /\ \A k \in DOMAIN rest : k \in Int /\ k + 1 \in DOMAIN hand /\ rest[k] = hand[k + 1] /\ k + 1 # 1
  <2>1. Len(hand) \in Nat /\ Len(hand) # 0 /\ DOMAIN hand = 1..Len(hand) /\ DOMAIN rest = 1..(Len(hand) - 1)
        /\ \A k \in 1..(Len(hand) - 1) : rest[k] = hand[k + 1]
    OBVIOUS
  <2>2. item = hand[1]
    OBVIOUS
  <2> HIDE DEF rest, item
  <2> QED BY <2>1, <2>2
<1> HIDE DEF rest, item
<1>2. OneId(rest)
  BY <1>1 DEF OneId
<1>3. \A x \in ItemsOf(rest) : x.id # item.id
  BY <1>1 DEF OneId, ItemsOf
<1> QED BY <1>2, <1>3 DEF rest, item

LEMMA TakenApart ==
  ASSUME PrefInv, made' = made, NEW hand \in Seq(Memories), hand = at["initial"].hand, hand # <<>>, NEW item, item = Head(hand),
         at'["initial"].hand = Tail(hand), \A q \in Scanners : q # "initial" => at'[q].hand = at[q].hand,
         Others' \subseteq Others \cup {item}, Named(md')
  PROVE  OwnersOK' /\ HandsOK'
<1> DEFINE i == "initial"
<1>1. i \in Scanners
  BY DEF Scanners
<1>2. ItemsOf(hand) = {item} \cup ItemsOf(Tail(hand)) /\ item \in ItemsOf(hand)
  BY TailItems
<1>3. OneId(hand)
  BY <1>1 DEF PrefInv, HandsOK
<1>4. OneId(Tail(hand)) /\ \A x \in ItemsOf(Tail(hand)) : x.id # item.id
  BY <1>3, HeadGone
<1>5. \A p \in Scanners : OneId(at'[p].hand) /\ ItemsOf(at'[p].hand) \subseteq ItemsOf(at[p].hand)
  <2> TAKE p \in Scanners
  <2>1. CASE p = i
    BY <1>2, <1>4, <2>1
  <2>2. CASE p # i
    BY <2>2 DEF PrefInv, HandsOK
  <2> QED BY <2>1, <2>2
<1>6. \A p \in Scanners : \A m \in ItemsOf(at'[p].hand) : m.id # item.id
  <2> TAKE p \in Scanners
  <2>1. CASE p = i
    BY <1>4, <2>1
  <2>2. CASE p # i
    BY <1>1, <1>2, <1>5, <2>2 DEF PrefInv, HandsOK
  <2> QED BY <2>1, <2>2
<1>7. HandsOK'
  <2> DEFINE B == {item}
  <2>1. Others' \subseteq Others \cup B /\ \A b \in B : \A p \in Scanners : \A m \in ItemsOf(at'[p].hand) : m.id # b.id
    BY <1>6
  <2> HIDE DEF B
  <2> QED BY <1>5, <2>1, HandsMove DEF PrefInv
<1>8. Firsts' \subseteq Firsts
  <2>1. Hands' \subseteq Hands
    BY <1>5 DEF Hands
  <2>2. item \in Hands
    BY <1>1, <1>2 DEF Hands
  <2> QED BY <2>1, <2>2 DEF Firsts
<1>9. OwnersOK'
  BY <1>8, OwnersMove DEF PrefInv
<1> QED BY <1>7, <1>9

LEMMA LatestMoves ==
  ASSUME DOMAIN latest' \subseteq Paths, Written(md'),
         \A path \in DOMAIN latest' : path \in PrefPaths => \E t \in Leads(md', path) : t.text = latest'[path]
  PROVE  WrittenOK' /\ LatestOK'
<1>1. ASSUME NEW path \in DOMAIN latest', path[1] = "l1/preferences"
      PROVE  Shown(md', path, latest'[path]) /\ \E t \in Leads(md', path) : t.text = latest'[path]
  <2>1. path \in PrefPaths
    BY <1>1 DEF PrefPaths
  <2>2. PICK t \in Leads(md', path) : t.text = latest'[path]
    BY <2>1
  <2> QED BY <2>1, <2>2 DEF Written
<1>2. LatestOK'
  BY <1>1 DEF LatestOK, Shown, Leads
<1>3. WrittenOK'
  BY DEF WrittenOK, Written
<1> QED BY <1>2, <1>3

LEMMA LatestLed ==
  ASSUME LatestOK, proc # "down", NEW path \in DOMAIN latest, path \in PrefPaths
  PROVE  \E t \in Leads(md, path) : t.text = latest[path]
BY DEF LatestOK, PrefPaths

(* What is in hand is not in the files yet.                                *)
LEMMA HandUnwritten ==
  ASSUME StoreOK, HandsOK, NEW p \in Scanners, NEW items, ItemsOf(items) \subseteq ItemsOf(at[p].hand)
  PROVE  md \in Stores /\ Unwritten(md, items)
<1>1. md \in Stores
  BY StoresAre DEF StoreOK
<1> SUFFICES ASSUME NEW x \in ItemsOf(items), NEW path \in PrefPaths, x.id \in LineIds(md, path) PROVE FALSE
  BY <1>1 DEF Unwritten
<1>2. PICK o \in Lines(md) : o.id = x.id
  BY <1>1, LeadIs
<1> QED BY <1>2 DEF HandsOK, Others

(* A batch of the state, whole or cut short.                               *)
LEMMA BatchShows ==
  ASSUME KeepInv, PrefInv, NEW p \in Scanners, proc # "down", NEW order \in SetToAllKPermutations(Groups(at[p].hand)),
         NEW n, n = StoreInOrder(md, at[p].hand, order)
  PROVE  Leading(md, n, at[p].hand, order, Len(order)) /\ order \in Seq(Groups(at[p].hand)) /\ at[p].hand \in Seq(Memories)
<1> DEFINE items == at[p].hand
<1>1. items \in Seq(Memories) /\ StoreOK /\ HandsOK
  BY ScannerHas DEF KeepInv, TypeOK, PrefInv
<1>2. md \in Stores /\ Unwritten(md, items) /\ OneId(items) /\ Written(md)
  BY <1>1, HandUnwritten DEF HandsOK, PrefInv, WrittenOK
<1> HIDE DEF items
<1>3. order \in Seq(Groups(items)) /\ \A i, j \in DOMAIN order : order[i] = order[j] => i = j
  BY <1>1, GroupsAre, OrdersHave DEF items
<1>4. Leading(md, StoreInOrder(md, items, order), items, order, Len(order))
  BY <1>1, <1>2, <1>3, BatchLeads
<1> QED BY <1>1, <1>3, <1>4 DEF items

LEMMA StoreBatchPrefs ==
  ASSUME KeepInv, KeepInv', PrefInv, NEW p \in {"chats", "files"}, StoreBatch(p)
  PROVE  PrefInv'
<1> DEFINE hand == at[p].hand
<1>1. WorldOK /\ StoreOK /\ IndexOK /\ ScanOK /\ DiskOK /\ DOMAIN latest' \subseteq Paths
  BY DEF KeepInv, TypeOK, StoreOK
<1>2. UNCHANGED <<proc, l1, made>>
  BY DEF StoreBatch
<1>3. p \in Scanners /\ at[p].pc = "work"
  BY DEF StoreBatch, Worked, Scanners
<1>4. at[p] \in ScannerRecs /\ at \in [Scanners -> ScannerRecs] /\ hand \in Seq(Memories)
  BY <1>1, <1>3, ScannerHas
<1>5. proc # "down"
  BY <1>1, <1>3, Running
<1>6. PICK order \in SetToAllKPermutations(Groups(hand)) :
        md' = StoreInOrder(md, hand, order) /\ latest' = Noting(InOrder(hand, order))
  BY DEF StoreBatch
<1>7. AllPlaced(md') \subseteq AllPlaced(md) \cup {<<Path(m), m>> : m \in ItemsOf(hand)}
  BY <1>1, <1>3, <1>5, <1>6, BatchWritten
<1>8. Leading(md, md', hand, order, Len(order)) /\ order \in Seq(Groups(hand))
  BY <1>3, <1>5, <1>6, BatchShows
<1>9. at'[p].hand = <<>> /\ \A q \in Scanners \ {p} : at'[q] = at[q]
  <2>1. at' = [at EXCEPT ![p].pc = "idle", ![p].hand = <<>>]
    BY DEF StoreBatch
  <2> QED BY <1>3, <1>4, <2>1 DEF ScannerRecs
<1>10. ItemsOf(hand) \subseteq Hands /\ ItemsOf(hand) \subseteq Memories
  BY <1>3, <1>4, IdsAre DEF Hands
<1>11. Named(md') /\ Lines(md') \subseteq Lines(md) \cup ItemsOf(hand)
  <2> DEFINE B == ItemsOf(hand)  n == md'
  <2>1. B \in SUBSET Memories /\ AllPlaced(n) \subseteq AllPlaced(md) \cup {<<Path(x), x>> : x \in B} /\ Named(md)
    BY <1>7, <1>10 DEF PrefInv, OwnersOK
  <2> HIDE DEF B, n
  <2>2. Named(n) /\ Lines(n) \subseteq Lines(md) \cup B
    BY <2>1, LinesMove
  <2> QED BY <2>2 DEF B, n
<1> HIDE DEF hand
<1>12. Others' \subseteq Others \cup ItemsOf(hand)
  BY <1>2, <1>11 DEF Others
<1>13. \A q \in Scanners : /\ OneId(at'[q].hand) /\ ItemsOf(at'[q].hand) \subseteq ItemsOf(at[q].hand)
                           /\ \A m \in ItemsOf(at'[q].hand), b \in ItemsOf(hand) : m.id # b.id
  <2> TAKE q \in Scanners
  <2>1. CASE q = p
    BY <1>9, <2>1, NoItems DEF OneId
  <2>2. CASE q # p
    <3>1. at'[q] = at[q]
      BY <1>9, <2>2
    <3> QED BY <1>3, <2>2, <3>1 DEF PrefInv, HandsOK, hand
  <2> QED BY <2>1, <2>2
<1>14. HandsOK'
  BY <1>2, <1>12, <1>13, HandsMove DEF PrefInv
<1>15. OwnersOK'
  <2>1. Hands' \subseteq Hands
    BY <1>13 DEF Hands
  <2>2. Firsts' \subseteq Firsts
    BY <1>10, <1>12, <2>1 DEF Firsts
  <2> QED BY <1>2, <1>11, <2>2, OwnersMove DEF PrefInv
<1>16. ASSUME NEW path \in DOMAIN latest', path \in PrefPaths PROVE \E t \in Leads(md', path) : t.text = latest'[path]
  <2> DEFINE all == InOrder(hand, order)
  <2>1. all \in Seq(Memories)
    BY <1>4, <1>8, InOrderHas DEF hand
  <2>2. latest' = Noting(all)
    BY <1>6
  <2>3. \A x \in ItemsOf(all) : \E j \in DOMAIN order : x \in ItemsOf(Group(hand, order[j]))
    BY <1>4, <1>8, InOrderFrom DEF hand
  <2> HIDE DEF all
  <2>4. \/ \E x \in ItemsOf(all) : Path(x) = path /\ latest'[path] = x.text
        \/ path \in DOMAIN latest /\ latest'[path] = latest[path]
    BY <1>16, <2>1, <2>2, NotingIs
  <2>5. ASSUME NEW x \in ItemsOf(all), Path(x) = path, latest'[path] = x.text PROVE \E t \in Leads(md', path) : t.text = latest'[path]
    <3>1. PICK j \in DOMAIN order : x \in ItemsOf(Group(hand, order[j]))
      BY <2>3
    <3>2. j \in 1..Len(order)
      BY <1>8
    <3>3. x \in Leads(md', path)
      BY <1>8, <1>16, <2>5, <3>1, <3>2 DEF Leading
    <3> QED BY <2>5, <3>3
  <2>6. ASSUME path \in DOMAIN latest, latest'[path] = latest[path] PROVE \E t \in Leads(md', path) : t.text = latest'[path]
    <3>1. PICK t \in Leads(md, path) : t.text = latest[path]
      BY <1>5, <1>16, <2>6, LatestLed DEF PrefInv
    <3>2. t \in Leads(md', path)
      BY <1>8, <1>16, <3>1 DEF Leading, Carries
    <3> QED BY <2>6, <3>1, <3>2
  <2> QED BY <2>4, <2>5, <2>6
<1>17. WrittenOK' /\ LatestOK'
  <2>1. Written(md')
    BY <1>8 DEF Leading
  <2> QED BY <1>1, <1>16, <2>1, LatestMoves
<1> QED BY <1>14, <1>15, <1>17 DEF PrefInv

LEMMA AddStoredPrefs ==
  ASSUME KeepInv, KeepInv', PrefInv, AddStored
  PROVE  PrefInv'
<1> DEFINE p == "initial"  hand == at[p].hand  item == Head(hand)
<1>1. WorldOK /\ StoreOK /\ IndexOK /\ ScanOK /\ DiskOK /\ DOMAIN latest' \subseteq Paths
  BY DEF KeepInv, TypeOK, StoreOK
<1>2. UNCHANGED <<proc, l1, made, latest>>
  BY DEF AddStored
<1>3. at[p].pc = "ask" /\ hand # <<>> /\ p \in Scanners
  BY <1>1 DEF AddStored, ScanOK, Scanners
<1>4. at[p] \in ScannerRecs /\ at \in [Scanners -> ScannerRecs] /\ hand \in Seq(Memories)
  BY <1>1, <1>3, ScannerHas
<1>5. proc # "down"
  BY <1>1, <1>3, Running
<1>6. at'[p].hand = Tail(hand) /\ \A q \in Scanners : q # p => at'[q] = at[q]
  <2>1. at' = [at EXCEPT ![p].pc = "work", ![p].hand = Tail(@)]
    BY DEF AddStored
  <2> QED BY <1>3, <1>4, <2>1 DEF ScannerRecs
<1>7. PICK embedded \in BOOLEAN : md' = StoreOne([md EXCEPT !.files = Appended(@, item, embedded)], item)
  BY DEF AddStored
<1> HIDE DEF hand
<1>8. item \in Memories /\ item \in ItemsOf(hand)
  BY <1>3, <1>4, TailItems
<1> DEFINE head == item
<1> HIDE DEF head
<1>9. md \in Stores /\ Sound(md) /\ Written(md)
  BY <1>1, <1>5, SoundNow DEF Sound, PrefInv, WrittenOK
<1>10. md' = StoreOne(md, head)
  BY <1>7, <1>8, <1>9, AppendedAnyway DEF head
<1>11. AllPlaced(md') \subseteq AllPlaced(md) \cup {<<Path(head), head>>}
  <2> DEFINE T == AllPlaced(md) \cup {<<Path(head), head>>}
  <2>1. AllPlaced(md) \subseteq T /\ <<Path(head), head>> \in T
    OBVIOUS
  <2> HIDE DEF T
  <2>2. AllPlaced(md') \subseteq T
    BY <1>8, <1>9, <1>10, <2>1, StoredOne DEF head
  <2> QED BY <2>2 DEF T
<1>12. Named(md') /\ Lines(md') \subseteq Lines(md) \cup {head}
  <2> DEFINE B == {head}  n == md'
  <2>1. B \in SUBSET Memories /\ AllPlaced(n) \subseteq AllPlaced(md) \cup {<<Path(x), x>> : x \in B} /\ Named(md)
    BY <1>8, <1>11 DEF PrefInv, OwnersOK, head
  <2> HIDE DEF B, n
  <2>2. Named(n) /\ Lines(n) \subseteq Lines(md) \cup B
    BY <2>1, LinesMove
  <2> QED BY <2>2 DEF B, n
<1>13. OwnersOK' /\ HandsOK'
  <2>1. Others' \subseteq Others \cup {head}
    BY <1>2, <1>12 DEF Others
  <2>2. head = Head(hand) /\ hand = at[p].hand
    BY DEF head, hand
  <2> QED BY <1>2, <1>3, <1>4, <1>6, <1>12, <2>1, <2>2, TakenApart
<1>14. Written(md') /\ Carries(md, md', {})
  <2> DEFINE group == <<head>>
  <2>1. OneGroup(group) /\ DOMAIN group = {1}
    BY <1>8, OneAlone DEF head
  <2>2. md' = WriteGroup(md, group)
    BY <1>10 DEF StoreOne
  <2> HIDE DEF group
  <2> QED BY <1>9, <2>1, <2>2, WroteLeads DEF OneId
<1>15. WrittenOK' /\ LatestOK'
  <2>1. \A path \in DOMAIN latest' : path \in PrefPaths => \E t \in Leads(md', path) : t.text = latest'[path]
    BY <1>2, <1>5, <1>14, LatestLed DEF PrefInv, Carries
  <2> QED BY <1>1, <1>14, <2>1, LatestMoves
<1> QED BY <1>13, <1>15 DEF PrefInv

LEMMA SameOwner ==
  ASSUME NEW x, NEW y, Signed(x), Signed(y), x.user = y.user
  PROVE  OwnerOf(x) = OwnerOf(y)
<1>1. PICK w \in People : OwnerOf(x) = OwnerOf(w) /\ x.user \in {w.user, OwnerOf(w)}
  BY DEF Signed
<1>2. PICK v \in People : OwnerOf(y) = OwnerOf(v) /\ y.user \in {v.user, OwnerOf(v)}
  BY DEF Signed
<1>3. \/ w.user \in {v.user, OwnerOf(v)} \/ v.user \in {w.user, OwnerOf(w)} \/ OwnerOf(w) = OwnerOf(v)
  BY <1>1, <1>2
<1>4. OwnerOf(w) = OwnerOf(v)
  BY <1>3, OwnersAssumption
<1> QED BY <1>1, <1>2, <1>4

(* A preference that is added drops those of its account only.             *)
LEMMA AddedPrefs ==
  ASSUME KeepInv, PrefInv, NEW item \in Hands, item \in Memories, item.layer = 1, item.hall = "preferences", proc # "down",
         Unwritten(md, <<item>>), \A x \in ItemsOf(l1) : x.id # item.id, md' = AddL1(md, l1, item).md, latest' = Noting(<<item>>)
  PROVE  Written(md') /\ \A path \in DOMAIN latest' : path \in PrefPaths => \E t \in Leads(md', path) : t.text = latest'[path]
<1> DEFINE n == AddL1(md, l1, item).md
<1>1. md \in Stores /\ Written(md) /\ l1 \in Seq(Memories)
  BY StoresAre DEF KeepInv, TypeOK, StoreOK, PrefInv, WrittenOK
<1>2. item.id \notin IdsIn(l1)
  BY DEF ItemsOf, IdsIn
<1>3. /\ Written(n) /\ (Path(item) \in PrefPaths => item \in Leads(n, Path(item)))
      /\ \A path \in PrefPaths : \A t \in Leads(md, path) :
           (\A x \in ItemsOf(l1) : x.user = item.user => x.id # t.id) => t \in Leads(n, path)
  <2> HIDE DEF n
  <2>1. n = AddL1(md, l1, item).md
    BY DEF n
  <2> QED BY <1>1, <1>2, <2>1, AddedLeads
<1>4. md' = n
  OBVIOUS
<1> HIDE DEF n
<1>5. Path(item) \in PrefPaths /\ Path(item) = <<"l1/preferences", OwnerOf(item)>>
  BY PathIs
<1>6. ASSUME NEW path \in DOMAIN latest', path \in PrefPaths PROVE \E t \in Leads(n, path) : t.text = latest'[path]
  <2> DEFINE all == <<item>>
  <2>1. all \in Seq(Memories) /\ ItemsOf(all) = {item}
    BY DEF ItemsOf
  <2>2. latest' = Noting(all)
    OBVIOUS
  <2> HIDE DEF all
  <2>3. \/ \E x \in ItemsOf(all) : Path(x) = path /\ latest'[path] = x.text
        \/ /\ path \in DOMAIN latest /\ latest'[path] = latest[path]
           /\ \A x \in ItemsOf(all) : x.layer = 1 => Path(x) # path
    BY <1>6, <2>1, <2>2, NotingIs
  <2>4. CASE Path(item) = path /\ latest'[path] = item.text
    BY <1>3, <1>6, <2>4
  <2>5. CASE path \in DOMAIN latest /\ latest'[path] = latest[path] /\ Path(item) # path
    <3>1. PICK t \in Leads(md, path) : t.text = latest[path]
      BY <1>6, <2>5, LatestLed DEF PrefInv
    <3>2. <<path, t>> \in AllPlaced(md) /\ t \in Lines(md)
      BY <1>1, <1>6, LeadIs
    <3>3. path[1] = "l1/preferences" /\ path = <<"l1/preferences", path[2]>>
      BY <1>6 DEF PrefPaths, Paths
    <3>4. path[2] = OwnerOf(t)
      <4>1. path[1] \in PrefDirs
        BY <3>3 DEF PrefDirs
      <4>2. Named(md)
        BY DEF PrefInv, OwnersOK
      <4> QED BY <3>2, <4>1, <4>2 DEF Named
    <3>5. ASSUME NEW x \in ItemsOf(l1), x.user = item.user, x.id = t.id PROVE FALSE
      <4>1. x \in Firsts /\ t \in Firsts /\ item \in Firsts
        BY <3>2 DEF Firsts, Others
      <4>2. Owned(Firsts, made)
        BY DEF PrefInv, OwnersOK
      <4>3. OwnerOf(x) = OwnerOf(t) /\ Signed(x) /\ Signed(item)
        BY <3>5, <4>1, <4>2 DEF Owned
      <4>4. OwnerOf(x) = OwnerOf(item)
        BY <3>5, <4>3, SameOwner
      <4> QED BY <1>5, <2>5, <3>3, <3>4, <4>3, <4>4
    <3>6. t \in Leads(n, path)
      BY <1>3, <1>6, <3>5
    <3> QED BY <2>5, <3>1, <3>6
  <2> QED BY <2>1, <2>3, <2>4, <2>5
<1> QED BY <1>3, <1>4, <1>6

LEMMA AddMemoryPrefs ==
  ASSUME KeepInv, KeepInv', PrefInv, AddMemory
  PROVE  PrefInv'
<1> DEFINE p == "initial"  hand == at[p].hand  item == Head(hand)
           added == AddL1(md, l1, item)
<1>1. WorldOK /\ StoreOK /\ IndexOK /\ ScanOK /\ DiskOK /\ IdsOK /\ DOMAIN latest' \subseteq Paths /\ DOMAIN latest \subseteq Paths
  BY DEF KeepInv, TypeOK, StoreOK
<1>2. UNCHANGED <<proc, made>>
  BY DEF AddMemory
<1>3. at[p].pc = "work" /\ hand # <<>> /\ p \in Scanners
  BY DEF AddMemory, Worked, Scanners
<1>4. at[p] \in ScannerRecs /\ at \in [Scanners -> ScannerRecs] /\ hand \in Seq(Memories)
  BY <1>1, <1>3, ScannerHas
<1>5. proc # "down"
  BY <1>1, <1>3, Running
<1>6. at'[p].hand = Tail(hand) /\ \A q \in Scanners : q # p => at'[q] = at[q]
  <2>1. at' = [at EXCEPT ![p].hand = Tail(@)]
    BY DEF AddMemory
  <2> QED BY <1>3, <1>4, <2>1 DEF ScannerRecs
<1>7. \/ ~Accepted(item, hasDB) /\ UNCHANGED <<md, l1, latest>>
      \/ item.layer = 1 /\ item.hall = "preferences" /\ md' = added.md /\ l1' = added.l1 /\ latest' = Noting(<<item>>)
      \/ item.layer # 1 /\ md' = StoreOne(md, item) /\ UNCHANGED <<l1, latest>>
  <2>1. \/ ~Accepted(item, hasDB) /\ UNCHANGED <<md, l1, latest>>
        \/ Accepted(item, hasDB) /\ item.layer = 1 /\ md' = added.md /\ l1' = added.l1 /\ latest' = Noting(<<item>>)
        \/ item.layer # 1 /\ md' = StoreOne(md, item) /\ UNCHANGED <<l1, latest>>
    BY DEF AddMemory
  <2> HIDE DEF item, added
  <2>2. Accepted(item, hasDB) /\ item.layer = 1 => item.hall = "preferences"
    BY DEF Accepted
  <2> QED BY <2>1, <2>2
<1> HIDE DEF hand
<1>8. item \in Memories /\ item \in ItemsOf(hand)
  BY <1>3, <1>4, TailItems
<1> HIDE DEF added
<1> DEFINE head == item
<1> HIDE DEF head
<1>9. md \in Stores /\ Sound(md) /\ Written(md) /\ l1 \in Seq(Memories)
  BY <1>1, <1>5, SoundNow DEF Sound, PrefInv, WrittenOK, StoreOK
<1>10. head \in Hands /\ head \in Memories /\ ItemsOf(<<head>>) = {head} /\ \A x \in ItemsOf(l1) : x.id # head.id
  <2>1. head \in Hands /\ head \in Memories /\ ItemsOf(<<head>>) = {head}
    BY <1>3, <1>8 DEF Hands, ItemsOf, hand, head
  <2>2. \A x \in Others : head.id # x.id
    BY <1>3, <1>8 DEF PrefInv, HandsOK, hand, head
  <2> QED BY <2>1, <2>2 DEF Others
<1>11. Unwritten(md, <<head>>)
  BY <1>1, <1>3, <1>8, <1>10, HandUnwritten DEF PrefInv, hand, head
<1> DEFINE T == AllPlaced(md) \cup {<<Path(head), head>>}
           Result == /\ AllPlaced(md') \subseteq T /\ ItemsOf(l1') \subseteq ItemsOf(l1) \cup {head} /\ Written(md')
                     /\ \A path \in DOMAIN latest' : path \in PrefPaths => \E t \in Leads(md', path) : t.text = latest'[path]
<1>12. AllPlaced(md) \subseteq T /\ <<Path(head), head>> \in T
  OBVIOUS
<1> HIDE DEF T
<1>13. \A path \in DOMAIN latest : path \in PrefPaths => \E t \in Leads(md, path) : t.text = latest[path]
  BY <1>5, LatestLed DEF PrefInv
<1>14. ASSUME UNCHANGED <<md, l1, latest>> PROVE Result
  BY <1>9, <1>12, <1>13, <1>14 DEF Leads
<1>15. ASSUME head.layer = 1 /\ head.hall = "preferences" /\ md' = added.md /\ l1' = added.l1 /\ latest' = Noting(<<head>>) PROVE Result
  <2>1. added = AddL1(md, l1, head)
    BY DEF added, head
  <2>2. Written(md') /\ \A path \in DOMAIN latest' : path \in PrefPaths => \E t \in Leads(md', path) : t.text = latest'[path]
    <3>1. md' = AddL1(md, l1, head).md /\ latest' = Noting(<<head>>) /\ head.layer = 1 /\ head.hall = "preferences"
      BY <1>15, <2>1
    <3> QED BY <1>5, <1>10, <1>11, <3>1, AddedPrefs
  <2>3. (\A k \in DOMAIN l1 : Strange(md, l1[k].id)) /\ Strange(md, head.id)
    <3>1. \A k \in DOMAIN l1 : l1[k].id \in OneIds
      BY DEF OneIds, ItemsOf
    <3>2. head.id \in OneIds
      BY <1>10, <1>15 DEF OneIds
    <3> QED BY <1>1, <3>1, <3>2, StrangeNow
  <2>4. /\ AllPlaced(added.md) \subseteq T
        /\ \A k \in DOMAIN added.l1 : added.l1[k] = head \/ \E i \in DOMAIN l1 : added.l1[k] = l1[i]
    <3>1. head.layer = 1
      BY <1>15
    <3> HIDE DEF added
    <3> QED BY <1>9, <1>10, <1>12, <2>1, <2>3, <3>1, FirstAdded
  <2>5. ItemsOf(l1') \subseteq ItemsOf(l1) \cup {head}
    BY <1>15, <2>4 DEF ItemsOf
  <2> QED BY <1>15, <2>2, <2>4, <2>5
<1>16. ASSUME md' = StoreOne(md, head) /\ UNCHANGED <<l1, latest>> PROVE Result
  <2>1. AllPlaced(md') \subseteq T
    BY <1>9, <1>10, <1>12, <1>16, StoredOne
  <2>2. Written(md') /\ Carries(md, md', {})
    <3> DEFINE group == <<head>>
    <3>1. OneGroup(group) /\ DOMAIN group = {1}
      BY <1>10, OneAlone
    <3>2. md' = WriteGroup(md, group)
      BY <1>16 DEF StoreOne
    <3> HIDE DEF group
    <3> QED BY <1>9, <3>1, <3>2, WroteLeads DEF OneId
  <2>3. \A path \in DOMAIN latest' : path \in PrefPaths => \E t \in Leads(md', path) : t.text = latest'[path]
    BY <1>13, <1>16, <2>2 DEF Carries
  <2> QED BY <1>16, <2>1, <2>2, <2>3
<1>17. Result
  <2>1. \/ UNCHANGED <<md, l1, latest>>
        \/ head.layer = 1 /\ head.hall = "preferences" /\ md' = added.md /\ l1' = added.l1 /\ latest' = Noting(<<head>>)
        \/ md' = StoreOne(md, head) /\ UNCHANGED <<l1, latest>>
    BY <1>7 DEF head
  <2> QED BY <1>14, <1>15, <1>16, <2>1
<1>18. Named(md') /\ Lines(md') \subseteq Lines(md) \cup {head}
  <2> DEFINE B == {head}  n == md'
  <2>1. B \in SUBSET Memories /\ AllPlaced(n) \subseteq AllPlaced(md) \cup {<<Path(x), x>> : x \in B} /\ Named(md)
    BY <1>10, <1>17 DEF PrefInv, OwnersOK, T
  <2> HIDE DEF B, n
  <2>2. Named(n) /\ Lines(n) \subseteq Lines(md) \cup B
    BY <2>1, LinesMove
  <2> QED BY <2>2 DEF B, n
<1>19. OwnersOK' /\ HandsOK'
  <2>1. Others' \subseteq Others \cup {head}
    BY <1>17, <1>18 DEF Others
  <2>2. head = Head(hand) /\ hand = at[p].hand
    BY DEF head, hand
  <2> QED BY <1>2, <1>3, <1>4, <1>6, <1>18, <2>1, <2>2, TakenApart
<1>20. WrittenOK' /\ LatestOK'
  BY <1>1, <1>17, LatestMoves
<1> QED BY <1>19, <1>20 DEF PrefInv

(* What a goroutine made has new IDs and one owner.                        *)
LEMMA ExtractPrefs ==
  ASSUME KeepInv, PrefInv, NEW p \in Scanners, Extract(p)
  PROVE  PrefInv'
<1>1. WorldOK /\ ScanOK /\ made \in Nat
  BY DEF KeepInv, TypeOK, ScanOK
<1>2. UNCHANGED <<proc, md, l1, latest>> /\ at[p].pc = "work" /\ made' = made + 1
  BY DEF Extract
<1>3. PICK x \in at[p].busy : \E new \in Seq(Memories) :
           /\ Given(p, x, new) /\ x \in Snapshots /\ x.src \in Sources /\ x.content \in Lengths \cup Texts
           /\ AreFrom(new, made + 1, x.src, x.content)
  BY <1>1, Extracting
<1>4. PICK new \in Seq(Memories) : Given(p, x, new) /\ AreFrom(new, made + 1, x.src, x.content)
  BY <1>3
<1> DEFINE src == x.src  text == x.content  hand == at[p].hand
<1>5. src \in Sources /\ AreFrom(new, made + 1, src, text)
  BY <1>3, <1>4
<1>6. at[p] \in ScannerRecs /\ at \in [Scanners -> ScannerRecs] /\ hand \in Seq(Memories)
  BY <1>1, ScannerHas
<1>7. at'[p].hand = hand \o new /\ \A q \in Scanners : q # p => at'[q] = at[q]
  <2> DEFINE both == hand \o new  busy == at[p].busy \ {x}
  <2>1. at' = [at EXCEPT ![p].busy = busy, ![p].hand = both]
    BY <1>4, <1>6 DEF Given
  <2> HIDE DEF both, busy
  <2>2. at'[p].hand = both /\ \A q \in Scanners : q # p => at'[q] = at[q]
    BY <1>6, <2>1 DEF ScannerRecs
  <2> QED BY <2>2 DEF both
<1> HIDE DEF src, text, hand
<1>8. ItemsOf(at'[p].hand) = ItemsOf(hand) \cup ItemsOf(new)
  BY <1>6, <1>7, JoinItems
<1>9. ASSUME NEW k \in DOMAIN new
      PROVE  /\ new[k].id \in MadeIds(made + 1) /\ new[k].id \notin MadeIds(made) /\ new[k].id \notin RereadIds
             /\ new[k].user = MakerOf(src).user /\ new[k].acct = MakerOf(src).acct
  <2>1. k \in Nat /\ new[k].id = <<made + 1, k, src>> /\ new[k].user = MakerOf(src).user /\ new[k].acct = MakerOf(src).acct
    BY <1>5 DEF AreFrom
  <2>2. <<made + 1, k, src>> \in MadeIds(made + 1) /\ <<made + 1, k, src>> \notin MadeIds(made) /\ <<made + 1, k, src>> \notin RereadIds
    BY <1>1, <1>5, <2>1, FreshIds
  <2> QED BY <2>1, <2>2
<1>10. MakerOf(src) \in People
  <2>1. CASE src \in Chats /\ proc # "process"
    BY <2>1 DEF MakerOf, People
  <2>2. CASE ~(src \in Chats /\ proc # "process")
    BY <2>2 DEF MakerOf, People
  <2> QED BY <2>1, <2>2
<1> DEFINE owner == OwnerOf(MakerOf(src))
<1>11. \A m \in ItemsOf(new) : /\ m.id \in MadeIds(made + 1) /\ m.id \notin MadeIds(made) /\ m.id \notin RereadIds
                              /\ OwnerOf(m) = owner /\ m.user = MakerOf(src).user
  BY <1>9 DEF ItemsOf, OwnerOf
<1>12. \A m \in ItemsOf(new) : Signed(m)
  BY <1>10, <1>11 DEF Signed
<1> HIDE DEF owner
<1>13. MadeIds(made) \subseteq MadeIds(made + 1)
  BY <1>1, MoreIds
<1>14. Others' = Others
  BY <1>2 DEF Others
<1>15. Firsts' = Firsts \cup ItemsOf(new)
  <2>1. Hands' = Hands \cup ItemsOf(new)
    <3>1. \A q \in Scanners \ {p} : ItemsOf(at'[q].hand) = ItemsOf(at[q].hand)
      BY <1>7
    <3> QED BY <1>8, <3>1 DEF Hands, hand
  <2> QED BY <1>14, <2>1 DEF Firsts
<1>16. OwnersOK'
  <2>1. Named(md)'
    BY <1>2 DEF PrefInv, OwnersOK, Named
  <2>2. Owned(Firsts, made)
    BY DEF PrefInv, OwnersOK
  <2> DEFINE F == Firsts  G == ItemsOf(new)
  <2> HIDE DEF F, G
  <2>3. Owned(F \cup G, made + 1)
    <3>1. \A m \in F \cup G : Signed(m) /\ m.id \in MadeIds(made + 1) \cup RereadIds /\ (m.id \in RereadIds => OwnerOf(m) = m.id[4])
      BY <1>11, <1>12, <1>13, <2>2 DEF Owned, F, G
    <3>2. ASSUME NEW m \in F \cup G, NEW k \in F \cup G, m.id = k.id PROVE OwnerOf(m) = OwnerOf(k)
      <4>1. \A n \in F : n.id \in MadeIds(made) \cup RereadIds
        BY <2>2 DEF Owned, F
      <4>2. CASE m \in F /\ k \in F
        BY <2>2, <3>2, <4>2 DEF Owned, F
      <4>3. CASE m \in G /\ k \in G
        BY <1>11, <4>3 DEF G
      <4>4. CASE (m \in F /\ k \in G) \/ (m \in G /\ k \in F)
        BY <1>11, <3>2, <4>1, <4>4 DEF G
      <4> QED BY <4>2, <4>3, <4>4
    <3> QED BY <3>1, <3>2 DEF Owned
  <2>4. F' = F \cup G
    BY <1>15 DEF F, G
  <2>5. Owned(F', made')
    BY <1>2, <2>3, <2>4
  <2>6. Owned(F, made)'
    BY <2>5 DEF Owned, MadeIds
  <2> QED BY <2>1, <2>6 DEF OwnersOK, F
<1>17. HandsOK'
  <2>1. OneId(at'[p].hand)
    <3>1. IdsApart({}, hand, made)
      <4>1. OneId(hand) /\ \A m \in ItemsOf(hand) : m.id \in MadeIds(made)
        BY DEF PrefInv, HandsOK, hand
      <4> QED BY <4>1 DEF IdsApart, OneDocEach, OneId, ItemsOf
    <3>2. IdsApart({}, hand \o new, made + 1)
      BY <1>1, <1>5, <1>6, <3>1, ApartMore
    <3> QED BY <1>7, <3>2 DEF IdsApart, OneId
  <2>2. \A q \in Scanners : OneId(at'[q].hand)
    BY <1>7, <2>1 DEF PrefInv, HandsOK
  <2>3. \A n \in Others : n.id \in MadeIds(made) \cup RereadIds
    BY DEF PrefInv, OwnersOK, Owned, Firsts
  <2>4. \A q \in Scanners : \A m \in ItemsOf(at'[q].hand) : m \in ItemsOf(at[q].hand) \/ (q = p /\ m \in ItemsOf(new))
    BY <1>7, <1>8 DEF hand
  <2>5. \A q \in Scanners : \A m \in ItemsOf(at[q].hand) : m.id \in MadeIds(made) /\ \A n \in Others : m.id # n.id
    BY DEF PrefInv, HandsOK
  <2>6. \A q, r \in Scanners : \A m \in ItemsOf(at[q].hand) : \A n \in ItemsOf(at[r].hand) : m.id = n.id => q = r
    BY DEF PrefInv, HandsOK
  <2>7. ASSUME NEW q \in Scanners, NEW m \in ItemsOf(at'[q].hand)
        PROVE  /\ m.id \in MadeIds(made + 1) /\ \A n \in Others : m.id # n.id
               /\ \A r \in Scanners : \A n \in ItemsOf(at'[r].hand) : m.id = n.id => q = r
    <3>1. CASE m \in ItemsOf(at[q].hand)
      <4>1. m.id \in MadeIds(made) /\ m.id \in MadeIds(made + 1) /\ \A n \in Others : m.id # n.id
        BY <1>13, <2>5, <3>1
      <4>2. ASSUME NEW r \in Scanners, NEW n \in ItemsOf(at'[r].hand), m.id = n.id PROVE q = r
        <5>1. n \in ItemsOf(at[r].hand)
          BY <1>11, <2>4, <4>1, <4>2
        <5> QED BY <2>6, <3>1, <4>2, <5>1
      <4> QED BY <4>1, <4>2
    <3>2. CASE q = p /\ m \in ItemsOf(new)
      <4>1. m.id \in MadeIds(made + 1) /\ m.id \notin MadeIds(made) /\ m.id \notin RereadIds
        BY <1>11, <3>2
      <4>2. \A n \in Others : m.id # n.id
        BY <2>3, <4>1
      <4>3. ASSUME NEW r \in Scanners, NEW n \in ItemsOf(at'[r].hand), m.id = n.id PROVE q = r
        BY <2>4, <2>5, <3>2, <4>1, <4>3
      <4> QED BY <4>1, <4>2, <4>3
    <3> QED BY <2>4, <3>1, <3>2
  <2>8. MadeIds(made)' = MadeIds(made + 1)
    BY <1>2 DEF MadeIds
  <2> QED BY <1>14, <2>2, <2>7, <2>8 DEF HandsOK, OneId, ItemsOf
<1>18. WrittenOK' /\ LatestOK'
  BY <1>2 DEF PrefInv, WrittenOK, LatestOK, Written, Leads, Shown
<1> QED BY <1>16, <1>17, <1>18 DEF PrefInv

(* Knowledge files are not in the first layer.                             *)
LEMMA FileUnled ==
  ASSUME NEW m \in Stores, NEW f, NEW path \in PrefPaths, NEW n, n = DeleteFile(m, f)
  PROVE  InFile(n.cache, path) = InFile(m.cache, path) /\ InFile(n.files, path) = InFile(m.files, path)
         /\ (path \in DOMAIN n.files <=> path \in DOMAIN m.files)
<1> DEFINE paths == FilesOf(f) \cap DOMAIN m.files  F == m.files  C == m.cache
<1>1. F \in Disks /\ C \in Disks
  BY StoreHas
<1>2. path \notin paths
  <2>1. \A q \in FilesOf(f) : q[1] # "l1/preferences"
    BY DEF FilesOf
  <2> QED BY <2>1 DEF PrefPaths
<1>3. n.files = Without(F, paths) /\ n.cache = Without(C, paths)
  BY DEF DeleteFile
<1> HIDE DEF paths, F, C
<1>4. /\ DOMAIN Without(F, paths) = DOMAIN F \ paths /\ \A q \in DOMAIN F \ paths : Without(F, paths)[q] = F[q]
      /\ DOMAIN Without(C, paths) = DOMAIN C \ paths /\ \A q \in DOMAIN C \ paths : Without(C, paths)[q] = C[q]
  BY <1>1, WithoutDisk
<1>5. InFile(n.cache, path) = InFile(C, path) /\ InFile(n.files, path) = InFile(F, path) /\ (path \in DOMAIN n.files <=> path \in DOMAIN F)
  BY <1>2, <1>3, <1>4 DEF InFile
<1> QED BY <1>5 DEF F, C

LEMMA CheckPrefs ==
  ASSUME KeepInv, PrefInv, NEW p \in Scanners, Check(p)
  PROVE  PrefInv'
<1> DEFINE x == Head(at[p].todo)  busy == IF Due(x) THEN at[p].busy \cup {x} ELSE at[p].busy
<1>1. WorldOK /\ StoreOK /\ IndexOK /\ ScanOK /\ DiskOK /\ DOMAIN latest \subseteq Paths
  BY DEF KeepInv, TypeOK, StoreOK
<1>2. UNCHANGED <<proc, l1, made, latest>>
  BY DEF Check
<1>3. at \in [Scanners -> ScannerRecs] /\ at[p] \in ScannerRecs /\ at[p].pc = "work"
  BY <1>1, ScannerHas DEF Check
<1>4. at' = [at EXCEPT ![p].todo = Tail(at[p].todo), ![p].busy = busy]
      /\ (md' = md \/ (x.src \in Files /\ md' = DeleteFile(md, x.src)))
  BY <1>3 DEF Check
<1> HIDE DEF x, busy
<1>5. \A q \in Scanners : at'[q].hand = at[q].hand
  BY <1>3, <1>4 DEF ScannerRecs
<1>6. proc # "down"
  BY <1>1, <1>3, Running
<1>7. CASE md' = md
  BY <1>2, <1>5, <1>7, PrefCalm
<1>8. CASE x.src \in Files /\ md' = DeleteFile(md, x.src)
  <2>1. Sound(md) /\ md \in Stores
    BY <1>1, <1>6, SoundNow DEF Sound
  <2>2. AllPlaced(md') \subseteq AllPlaced(md)
    BY <1>8, <2>1, FileDeleted
  <2>3. \A path \in PrefPaths : InFile(md'.cache, path) = InFile(md.cache, path) /\ InFile(md'.files, path) = InFile(md.files, path)
        /\ (path \in DOMAIN md'.files <=> path \in DOMAIN md.files)
    BY <1>8, <2>1, FileUnled
  <2>4. \A path \in PrefPaths : Leads(md', path) = Leads(md, path) /\ \A text : Shown(md', path, text) <=> Shown(md, path, text)
    <3> SUFFICES ASSUME NEW path \in PrefPaths
                 PROVE  Leads(md', path) = Leads(md, path) /\ \A text : Shown(md', path, text) <=> Shown(md, path, text)
      OBVIOUS
    <3>1. path \in DOMAIN md.files => md'.files[path] = md.files[path] /\ path \in DOMAIN md'.files
      BY <2>3 DEF InFile
    <3> QED BY <2>3, <3>1 DEF Leads, Shown
  <2>5. Named(md') /\ Lines(md') \subseteq Lines(md)
    <3> DEFINE B == {}
    <3>1. AllPlaced(md') \subseteq AllPlaced(md) \cup {<<Path(y), y>> : y \in B} /\ B \in SUBSET Memories /\ Named(md)
      BY <2>2 DEF PrefInv, OwnersOK
    <3> DEFINE n == md'
    <3> HIDE DEF B, n
    <3>2. AllPlaced(n) \subseteq AllPlaced(md) \cup {<<Path(y), y>> : y \in B}
      BY <3>1 DEF n
    <3>3. Named(n) /\ Lines(n) \subseteq Lines(md) \cup B
      BY <3>1, <3>2, LinesMove
    <3> QED BY <3>3 DEF B, n
  <2>6. Others' \subseteq Others
    BY <1>2, <2>5 DEF Others
  <2>7. OwnersOK'
    <3>1. Firsts' \subseteq Firsts
      BY <1>5, <2>6 DEF Firsts, Hands
    <3> QED BY <1>2, <2>5, <3>1, OwnersMove DEF PrefInv
  <2>8. HandsOK'
    <3> DEFINE B == {}
    <3>1. Others' \subseteq Others \cup B /\ \A b \in B : FALSE
      BY <2>6
    <3>2. \A q \in Scanners : OneId(at'[q].hand)
      BY <1>5 DEF PrefInv, HandsOK
    <3> HIDE DEF B
    <3> QED BY <1>2, <1>5, <3>1, <3>2, HandsMove DEF PrefInv
  <2>9. WrittenOK' /\ LatestOK'
    <3>1. Written(md')
      BY <1>6, <2>4 DEF PrefInv, WrittenOK, Written
    <3>2. \A path \in DOMAIN latest' : path \in PrefPaths => \E t \in Leads(md', path) : t.text = latest'[path]
      BY <1>2, <1>6, <2>4, LatestLed DEF PrefInv
    <3> QED BY <1>1, <1>2, <3>1, <3>2, LatestMoves
  <2> QED BY <2>7, <2>8, <2>9 DEF PrefInv
<1> QED BY <1>4, <1>7, <1>8

(* A start gives each line an ID of its own, and its owner the user's name.  *)
LEMMA RereadPrefs ==
  ASSUME NEW path, path[1] \in PrefDirs, NEW m, NEW r, ReadAs(path, m, r), Signed(m), OwnerOf(m) = path[2]
  PROVE  Signed(r) /\ OwnerOf(r) = path[2] /\ r.id \in RereadIds /\ OwnerOf(r) = r.id[4]
<1>1. r.user = path[2] /\ r.acct = path[2] /\ r.id \in RereadIds /\ r.id[4] = path[2]
  BY DEF ReadAs
<1>2. OwnerOf(r) = path[2]
  BY <1>1 DEF OwnerOf
<1>3. Signed(r)
  <2>1. PICK w \in People : OwnerOf(m) = OwnerOf(w)
    BY DEF Signed
  <2> QED BY <1>1, <1>2, <2>1 DEF Signed
<1> QED BY <1>1, <1>2, <1>3

LEMMA BootPrefs ==
  ASSUME KeepInv, KeepInv', PrefInv, NEW c \in {"gateway", "init", "process"}, Boot(c)
  PROVE  PrefInv'
<1>1. WorldOK /\ StoreOK /\ IndexOK /\ ScanOK /\ DiskOK /\ DOMAIN latest \subseteq Paths
  BY DEF KeepInv, TypeOK, StoreOK
<1>2. UNCHANGED <<made, latest>> /\ proc = "down" /\ proc' = c /\ boots < setup.boots
  BY DEF Boot
<1> DEFINE n == boots + 1  fs == md.files  cache == LoadCache(fs, n)
<1>3. n \in Nat
  BY <1>1, SetupsAssumption DEF WorldOK, ScanOK
<1>4. fs \in Disks /\ Homely(fs)
  BY <1>1, DiskIs DEF StoreOK, DiskOK
<1>5. md' = [files |-> fs, cache |-> cache]
  BY <1>1 DEF Boot, StoreOK
<1> HIDE DEF n, fs
<1>6. /\ Sound([files |-> fs, cache |-> cache])
      /\ \A y \in Placed(cache) : y[1] \in DOMAIN fs /\ \E k \in DOMAIN fs[y[1]] : ReadAs(y[1], fs[y[1]][k], y[2])
  BY <1>3, <1>4, LoadedCache
<1>7. l1' = (IF c = "gateway" THEN LoadL1(cache) ELSE <<>>) /\ md'.cache = cache /\ md'.files = fs
  BY <1>5 DEF Boot, n, fs
<1>8. \A path \in PrefPaths : /\ \A t \in Leads(md', path) : Shown(md', path, t.text)
                             /\ \A text : Shown(md', path, text) => \E t \in Leads(md', path) : t.text = text
  BY <1>3, <1>4, <1>5, PrefsLoaded
<1> HIDE DEF cache
<1>9. cache \in Disks
  BY <1>5, <1>6, <1>7, StoreHas DEF Sound
<1>10. Named(md) /\ Owned(Firsts, made)
  BY DEF PrefInv, OwnersOK
<1> DEFINE R == {y[2] : y \in {y \in Placed(cache) : y[1][1] \in PrefDirs}}
           G == {y[2] : y \in {y \in Placed(fs) : y[1][1] \in PrefDirs}}
<1>11. G \subseteq Lines(md) /\ G \subseteq Firsts
  <2>1. Placed(fs) \subseteq AllPlaced(md)
    BY DEF AllPlaced, fs
  <2>2. G \subseteq Lines(md)
    BY <2>1 DEF Lines
  <2> HIDE DEF G
  <2> QED BY <2>2 DEF Firsts, Others
<1>12. ASSUME NEW y \in Placed(cache), y[1][1] \in PrefDirs
       PROVE  Signed(y[2]) /\ OwnerOf(y[2]) = y[1][2] /\ y[2].id \in RereadIds /\ OwnerOf(y[2]) = y[2].id[4]
  <2> DEFINE path == y[1]  r == y[2]
  <2>1. PICK k \in DOMAIN fs[path] : path \in DOMAIN fs /\ ReadAs(path, fs[path][k], r)
    BY <1>6
  <2> DEFINE m == fs[path][k]
  <2>2. <<path, m>> \in Placed(fs)
    BY <1>4, <2>1, PlacedIs
  <2> HIDE DEF m
  <2>3. <<path, m>>[1] = path /\ <<path, m>>[2] = m /\ path[1] \in PrefDirs
    BY <1>12
  <2>4. m \in G
    BY <2>2, <2>3
  <2>5. Signed(m)
    BY <1>10, <1>11, <2>4 DEF Owned
  <2>6. OwnerOf(m) = path[2]
    <3>1. <<path, m>> \in AllPlaced(md)
      BY <2>2 DEF AllPlaced, fs
    <3> QED BY <1>10, <2>3, <3>1 DEF Named
  <2>7. ReadAs(path, m, r)
    BY <2>1 DEF m
  <2> HIDE DEF path, r
  <2>8. Signed(r) /\ OwnerOf(r) = path[2] /\ r.id \in RereadIds /\ OwnerOf(r) = r.id[4]
    BY <2>3, <2>5, <2>6, <2>7, RereadPrefs
  <2> QED BY <2>8 DEF path, r
<1>13. \A m \in R : Signed(m) /\ m.id \in RereadIds /\ OwnerOf(m) = m.id[4]
  BY <1>12
<1>14. Named(md') /\ Lines(md') \subseteq R \cup G
  <2>1. AllPlaced(md') = Placed(fs) \cup Placed(cache)
    BY <1>7 DEF AllPlaced
  <2>2. \A y \in Placed(fs) : y[1][1] \in PrefDirs => y[1][2] = OwnerOf(y[2])
    BY <1>10 DEF Named, AllPlaced, fs
  <2>3. Named(md')
    BY <1>12, <2>1, <2>2 DEF Named
  <2>4. Lines(md') \subseteq R \cup G
    BY <2>1 DEF Lines
  <2> QED BY <2>3, <2>4
<1>15. ItemsOf(l1') \subseteq R
  <2>1. CASE l1' = LoadL1(cache)
    <3>1. \A k \in DOMAIN LoadL1(cache) : LoadL1(cache)[k].layer = 1 /\ \E y \in Placed(cache) : LoadL1(cache)[k] = y[2]
      BY <1>9, FirstLoaded
    <3>2. ASSUME NEW m \in ItemsOf(l1') PROVE m \in R
      <4>1. PICK y \in Placed(cache) : m = y[2] /\ m.layer = 1
        BY <2>1, <3>1 DEF ItemsOf
      <4>2. y[1][1] \in PrefDirs
        BY <1>6, <4>1 DEF ReadAs, Home
      <4> QED BY <4>1, <4>2
    <3> QED BY <3>2
  <2>2. CASE l1' = <<>>
    BY <2>2, NoItems
  <2> QED BY <1>7, <2>1, <2>2
<1>16. \A p \in Scanners : at'[p].hand = <<>>
  BY <1>1, <1>2, StartsWith
<1>17. \A p \in Scanners : ItemsOf(at'[p].hand) = {}
  BY <1>16, NoItems
<1> HIDE DEF R, G
<1>18. OwnersOK'
  <2>1. Firsts' \subseteq R \cup G
    BY <1>14, <1>15, <1>17 DEF Firsts, Others, Hands
  <2>2. Owned(R \cup G, made)
    <3>1. \A m \in R \cup G : Signed(m) /\ m.id \in MadeIds(made) \cup RereadIds /\ (m.id \in RereadIds => OwnerOf(m) = m.id[4])
      BY <1>10, <1>11, <1>13 DEF Owned
    <3>2. ASSUME NEW m \in R \cup G, NEW k \in R \cup G, m.id = k.id PROVE OwnerOf(m) = OwnerOf(k)
      <4>1. CASE m \in R \/ k \in R
        <5>1. m.id \in RereadIds /\ k.id \in RereadIds
          BY <1>13, <3>2, <4>1
        <5> QED BY <3>1, <3>2, <5>1
      <4>2. CASE m \in G /\ k \in G
        BY <1>10, <1>11, <3>2, <4>2 DEF Owned
      <4> QED BY <4>1, <4>2
    <3> QED BY <3>1, <3>2 DEF Owned
  <2>3. Owned(Firsts', made')
    BY <1>2, <2>1, <2>2 DEF Owned
  <2> DEFINE F == Firsts
  <2>4. Owned(F', made')
    BY <2>3
  <2> HIDE DEF F
  <2>5. Owned(F, made)'
    BY <2>4 DEF Owned, MadeIds
  <2>6. Named(md)'
    BY <1>14 DEF Named
  <2> QED BY <2>5, <2>6 DEF OwnersOK, F
<1>19. HandsOK'
  BY <1>16, <1>17 DEF HandsOK, OneId, ItemsOf
<1>20. WrittenOK' /\ LatestOK'
  <2>1. Written(md')
    BY <1>8 DEF Written
  <2>2. ASSUME NEW path \in DOMAIN latest', path \in PrefPaths PROVE \E t \in Leads(md', path) : t.text = latest'[path]
    <3>1. Shown(md, path, latest[path])
      BY <1>2, <2>2 DEF PrefInv, LatestOK, PrefPaths
    <3>2. Shown(md', path, latest'[path])
      BY <1>2, <1>7, <3>1 DEF Shown, fs
    <3> QED BY <1>8, <2>2, <3>2
  <2> QED BY <1>1, <1>2, <2>1, <2>2, LatestMoves
<1> QED BY <1>18, <1>19, <1>20 DEF PrefInv

(* A kill leaves what is shown, or tears its file.                         *)
LEMMA KillPrefs ==
  ASSUME KeepInv, KeepInv', PrefInv, Kill
  PROVE  PrefInv'
<1>1. WorldOK /\ StoreOK /\ IndexOK /\ ScanOK /\ DiskOK /\ DOMAIN latest \subseteq Paths
  BY DEF KeepInv, TypeOK, StoreOK
<1>2. UNCHANGED <<l1, made>> /\ proc # "down" /\ proc' = "down" /\ at' = Off
  BY DEF Kill
<1> DEFINE Torns(files) == {p \in DOMAIN md.files : md.files[p] # <<>> /\ files[p] = <<>>}
<1>3. PICK files \in {md.files} \cup (UNION {HalfWritten(p) : p \in Scanners}) \cup {Torn(p) : p \in BeingWritten} :
        md' = [md EXCEPT !.files = files] /\ latest' = Restrict(latest, DOMAIN latest \ Torns(files))
  BY DEF Kill
<1> DEFINE torn == Torns(files)
<1>4. md \in Stores /\ md.files \in Disks /\ md = [files |-> md.files, cache |-> md.cache]
  BY <1>1, StoresAre, StoreHas DEF StoreOK
<1>5. md'.files = files /\ md'.cache = md.cache
  BY <1>3, <1>4
<1>6. \A path \in DOMAIN latest' : path \in DOMAIN latest /\ latest'[path] = latest[path] /\ path \notin torn
  <2> HIDE DEF Torns
  <2> QED BY <1>3 DEF Restrict
<1>7. ASSUME NEW path \in DOMAIN latest', path[1] = "l1/preferences" PROVE Shown(md', path, latest'[path])
  <2> DEFINE text == latest[path]
  <2>1. path \in PrefPaths /\ path \in DOMAIN latest /\ latest'[path] = text /\ path \notin torn
    BY <1>1, <1>6, <1>7 DEF PrefPaths
  <2>2. Shown(md, path, text)
    BY <1>7, <2>1 DEF PrefInv, LatestOK
  <2>3. PICK t \in Leads(md, path) : t.text = text
    BY <1>2, <2>1, LatestLed DEF PrefInv
  <2> HIDE DEF text
  <2>4. path \in DOMAIN md.files /\ md.files[path] # <<>>
    BY <2>2 DEF Shown
  <2>5. CASE files = md.files
    BY <1>5, <2>1, <2>2, <2>5 DEF Shown
  <2>6. ASSUME NEW p \in Scanners, files \in HalfWritten(p) PROVE Shown(md', path, latest'[path])
    <3>1. PICK order \in SetToAllKPermutations(Groups(at[p].hand)) : files = StoreInOrder(md, at[p].hand, order).files
      BY <2>6 DEF HalfWritten
    <3> DEFINE n == StoreInOrder(md, at[p].hand, order)
    <3>2. files = n.files
      BY <3>1
    <3> HIDE DEF n
    <3>3. Leading(md, n, at[p].hand, order, Len(order))
      BY <1>2, BatchShows DEF n
    <3>4. t \in Leads(n, path) /\ Written(n)
      BY <2>1, <2>3, <3>3 DEF Leading, Carries
    <3>5. Shown(n, path, text)
      BY <2>1, <2>3, <3>4 DEF Written
    <3> QED BY <1>5, <2>1, <3>2, <3>5 DEF Shown
  <2>7. ASSUME NEW q \in BeingWritten, files = Torn(q) PROVE Shown(md', path, latest'[path])
    <3>1. /\ DOMAIN files = DOMAIN md.files /\ files[q] = <<>>
          /\ \A r \in DOMAIN md.files : r # q => files[r] = md.files[r]
      BY <2>7 DEF BeingWritten, Torn
    <3>2. path # q
      BY <2>1, <2>4, <3>1
    <3> QED BY <1>5, <2>1, <2>2, <2>4, <3>1, <3>2 DEF Shown
  <2>8. \/ files = md.files \/ (\E p \in Scanners : files \in HalfWritten(p)) \/ (\E q \in BeingWritten : files = Torn(q))
    BY <1>3, Zenon
  <2> QED BY <2>5, <2>6, <2>7, <2>8
<1> HIDE DEF Torns
<1>8. WrittenOK' /\ LatestOK'
  BY <1>2, <1>7 DEF WrittenOK, LatestOK, Shown
<1>9. \A p \in Scanners : at'[p].hand = <<>> /\ ItemsOf(at'[p].hand) = {}
  BY <1>2, OffIs, NoItems
<1>10. HandsOK'
  BY <1>9 DEF HandsOK, OneId, ItemsOf
<1>11. \A y \in AllPlaced(md') : y \in AllPlaced(md) \/ \E m \in Hands : y = <<Path(m), m>>
  BY <1>5, KillKeeps DEF AllPlaced
<1>12. Named(md') /\ Lines(md') \subseteq Lines(md) \cup Hands
  <2> DEFINE B == Hands  n == md'
  <2>1. Hands \subseteq Memories
    BY <1>1, ScannerHas, IdsAre DEF Hands
  <2>2. AllPlaced(n) \subseteq AllPlaced(md) \cup {<<Path(x), x>> : x \in B}
    BY <1>11
  <2>3. B \in SUBSET Memories /\ Named(md)
    BY <2>1 DEF PrefInv, OwnersOK
  <2> HIDE DEF B, n
  <2>4. Named(n) /\ Lines(n) \subseteq Lines(md) \cup B
    BY <2>2, <2>3, LinesMove
  <2> QED BY <2>4 DEF B, n
<1>13. OwnersOK'
  <2>1. Firsts' \subseteq Firsts
    BY <1>2, <1>9, <1>12 DEF Firsts, Others, Hands
  <2> QED BY <1>2, <1>12, <2>1, OwnersMove DEF PrefInv
<1> QED BY <1>8, <1>10, <1>13 DEF PrefInv

LEMMA InitPrefs ==
  ASSUME Init
  PROVE  PrefInv
<1>1. /\ md = [files |-> << >>, cache |-> << >>] /\ l1 = <<>> /\ latest = << >> /\ at = Off /\ proc = "down"
  BY DEF Init, InitScan
<1>2. AllPlaced(md) = {}
  <2>1. md.files = <<>> /\ md.cache = <<>>
    BY <1>1
  <2> QED BY <2>1, NoFiles DEF AllPlaced
<1>3. Lines(md) = {} /\ Named(md)
  BY <1>2 DEF Lines, Named
<1>4. \A p \in Scanners : at[p].hand = <<>> /\ ItemsOf(at[p].hand) = {}
  BY <1>1, OffIs, NoItems
<1>5. Firsts = {}
  BY <1>1, <1>3, <1>4, NoItems DEF Firsts, Others, Hands
<1>6. OwnersOK
  BY <1>3, <1>5 DEF OwnersOK, Owned
<1>7. HandsOK
  BY <1>4 DEF HandsOK, OneId, ItemsOf
<1>8. WrittenOK /\ LatestOK
  <2>1. DOMAIN latest = {}
    BY <1>1, NoFiles
  <2> QED BY <1>1, <2>1 DEF WrittenOK, LatestOK
<1> QED BY <1>6, <1>7, <1>8 DEF PrefInv

LEMMA FinishPrefs ==
  ASSUME KeepInv, PrefInv, Finish
  PROVE  PrefInv'
<1> DEFINE i == "initial"  old == at[i]
<1>1. ScanOK /\ i \in Scanners /\ at \in [Scanners -> ScannerRecs] /\ old \in ScannerRecs /\ old.hand = <<>> /\ proc # "down"
  <2>1. ScanOK /\ i \in Scanners /\ at[i].pc = "work" /\ at[i].hand = <<>>
    BY DEF KeepInv, TypeOK, Scanners, Finish, Worked
  <2> QED BY <2>1, ScannerHas, Running
<1>2. UNCHANGED <<md, l1, made, latest>>
  BY DEF Finish
<1>3. \/ at' = [at EXCEPT ![i] = Scanner("walk", "chat", {})]
      \/ at' = [at EXCEPT ![i].pc = "off"]
      \/ proc # "gateway" /\ at' = Off
  BY DEF Finish
<1>4. \A p \in Scanners : at'[p].hand = at[p].hand
  <2>1. CASE at' = [at EXCEPT ![i] = Scanner("walk", "chat", {})]
    <3>1. \A p \in Scanners : p # i => at'[p] = at[p]
      BY <1>1, <2>1
    <3>2. at'[i].hand = <<>>
      BY <1>1, <2>1, NewScanner
    <3> QED BY <1>1, <3>1, <3>2
  <2>2. CASE at' = [at EXCEPT ![i].pc = "off"]
    BY <1>1, <2>2 DEF ScannerRecs
  <2>3. CASE proc # "gateway" /\ at' = Off
    <3>1. \A p \in Scanners : p # i => p \in {"chats", "files"}
      BY DEF Scanners
    <3>2. \A p \in Scanners : p # i => at[p] = Off[p]
      BY <1>1, <2>3, <3>1 DEF ScanOK
    <3> QED BY <1>1, <2>3, <3>2, OffIs
  <2> QED BY <1>3, <2>1, <2>2, <2>3
<1> QED BY <1>1, <1>2, <1>4, PrefCalm

LEMMA NextPrefs ==
  ASSUME KeepInv, KeepInv', PrefInv, [Next]_vars
  PROVE  PrefInv'
<1> DEFINE i == "initial"
<1>1. i \in Scanners /\ ScanOK /\ at \in [Scanners -> ScannerRecs] /\ \A q \in Scanners : at[q] \in ScannerRecs
  <2>1. i \in Scanners /\ ScanOK
    BY DEF KeepInv, TypeOK, Scanners
  <2> QED BY <2>1, ScannerHas
<1>2. CASE UNCHANGED vars
  BY <1>2, PrefCalm DEF vars
<1>3. ASSUME NEW x \in Sources, Edit(x) PROVE PrefInv'
  BY <1>3, PrefCalm DEF Edit
<1>4. ASSUME NEW c \in {"gateway", "init", "process"}, Boot(c) PROVE PrefInv'
  BY <1>4, BootPrefs
<1>5. ASSUME NEW p \in {"chats", "files"}, Tick(p) PROVE PrefInv'
  <2>1. UNCHANGED <<md, l1, made, latest, proc>> /\ at' = [at EXCEPT ![p].pc = "walk", ![p].since = changed[p]]
    BY <1>5 DEF Tick
  <2>2. \A q \in Scanners : at'[q].hand = at[q].hand
    BY <1>1, <2>1 DEF ScannerRecs
  <2> QED BY <2>1, <2>2, PrefCalm
<1>6. ASSUME NEW p \in {"chats", "files"}, StoreBatch(p) PROVE PrefInv'
  BY <1>6, StoreBatchPrefs
<1>7. ASSUME NEW p \in Scanners, Walk(p) PROVE PrefInv'
  <2>1. UNCHANGED <<md, l1, made, latest, proc>> /\ \E todo : at' = [at EXCEPT ![p].pc = "work", ![p].since = {}, ![p].todo = todo]
    BY <1>7 DEF Walk
  <2>2. \A q \in Scanners : at'[q].hand = at[q].hand
    BY <1>1, <2>1 DEF ScannerRecs
  <2> QED BY <2>1, <2>2, PrefCalm
<1>8. ASSUME NEW p \in Scanners, Check(p) \/ Extract(p) PROVE PrefInv'
  BY <1>8, CheckPrefs, ExtractPrefs
<1>9. CASE Cleanup \/ StartSearch \/ SearchStep
  <2>1. UNCHANGED <<md, l1, made, latest, proc, at>>
    BY <1>9 DEF Cleanup, StartSearch, SearchStep
  <2> QED BY <2>1, PrefCalm
<1>10. CASE Ask
  <2>1. UNCHANGED <<md, l1, made, latest, proc>> /\ at' = [at EXCEPT ![i].pc = "ask"]
    BY <1>10 DEF Ask
  <2>2. \A q \in Scanners : at'[q].hand = at[q].hand
    BY <1>1, <2>1 DEF ScannerRecs
  <2> QED BY <2>1, <2>2, PrefCalm
<1>11. CASE AddStored \/ AddMemory \/ Finish
  BY <1>11, AddStoredPrefs, AddMemoryPrefs, FinishPrefs
<1>12. CASE Kill
  BY <1>12, KillPrefs
<1> QED BY <1>2, <1>3, <1>4, <1>5, <1>6, <1>7, <1>8, <1>9, <1>10, <1>11, <1>12 DEF Next

(* The preference an account got last is in its L1 file: whatever order    *)
(* the groups of a batch are written in, compaction deletes only what the  *)
(* same account said before, a restart keeps every line of the file, and   *)
(* the delete of a knowledge file touches none of them (Compact,           *)
(* compactSimple, Delete, loadCache, StoreBatch).                          *)
THEOREM PreferencesKept == Spec => []LatestPreference
<1>1. Init => KeepInv /\ PrefInv
  BY InitKeeps, InitPrefs
<1>2. KeepInv /\ PrefInv /\ [Next]_vars => (KeepInv /\ PrefInv)'
  BY NextKeeps, NextPrefs
<1>3. PrefInv => LatestPreference
  BY DEF PrefInv, LatestOK, LatestPreference, Shown
<1> QED BY <1>1, <1>2, <1>3, PTL DEF Spec

=============================================================================
