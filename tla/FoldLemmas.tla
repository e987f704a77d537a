----------------------------- MODULE FoldLemmas -----------------------------
(***************************************************************************)
(* Induction over the subsets of a finite set, and functions defined by    *)
(* recursion over them: what the folds of the community modules compute.   *)
(* The library states induction with an operator as a parameter, which no  *)
(* installed prover instantiates; here the induction hypothesis is a set,  *)
(* and the proof takes a smallest subset outside it.                       *)
(***************************************************************************)
EXTENDS Naturals, FiniteSets, Functions, TLAPS, FiniteSetTheorems, WellFoundedInduction

\* G holds each subset of S of which it holds all smaller ones.
StrongInductive(S, G) ==
    \A s \in SUBSET S : (\A t \in SUBSET s : t # s => t \in G) => s \in G

LEMMA StrongSubsetInduction ==
    ASSUME NEW S, IsFiniteSet(S), NEW G, StrongInductive(S, G)
    PROVE  SUBSET S \subseteq G
<1> DEFINE Bad == {s \in SUBSET S : s \notin G}
<1> SUFFICES ASSUME Bad # {} PROVE FALSE
  OBVIOUS
<1>1. \A s \in SUBSET S : IsFiniteSet(s)
  BY FS_Subset
<1>2. Bad \subseteq FiniteSubsetsOf(S)
  BY <1>1 DEF FiniteSubsetsOf
<1>3. IsWellFoundedOn(StrictSubsetOrdering(S), FiniteSubsetsOf(S))
  BY FS_StrictSubsetOrderingWellFounded
<1>4. PICK s \in Bad : \A t \in Bad : ~ (<<t, s>> \in StrictSubsetOrdering(S))
  <2> HIDE DEF Bad
  <2> QED BY <1>2, <1>3, WFMin
<1>5. ASSUME NEW t \in SUBSET s, t # s PROVE t \in G
  <2>1. <<t, s>> \in StrictSubsetOrdering(S)
    BY <1>5 DEF StrictSubsetOrdering
  <2> QED BY <1>4, <2>1
<1> QED BY <1>5 DEF StrongInductive

\* G holds {}, and each subset of S when it holds the subset less some element.
Inductive(S, G) ==
    /\ {} \in G
    /\ \A s \in SUBSET S : s # {} => \E x \in s : s \ {x} \in G => s \in G

LEMMA SubsetInduction ==
    ASSUME NEW S, IsFiniteSet(S), NEW G, Inductive(S, G)
    PROVE  SUBSET S \subseteq G
<1>1. ASSUME NEW s \in SUBSET S, \A t \in SUBSET s : t # s => t \in G
      PROVE  s \in G
  <2>1. CASE s = {}
    BY <2>1 DEF Inductive
  <2>2. ASSUME s # {} PROVE s \in G
    <3>1. PICK x \in s : s \ {x} \in G => s \in G
      BY <2>2 DEF Inductive
    <3>2. s \ {x} \in SUBSET s /\ s \ {x} # s
      OBVIOUS
    <3> QED BY <1>1, <3>1, <3>2
  <2> QED BY <2>1, <2>2
<1>2. StrongInductive(S, G)
  BY <1>1 DEF StrongInductive
<1> QED BY <1>2, StrongSubsetInduction

\* Induction over the numbers up to n, by the intervals that they end.
LEMMA CountUp ==
    ASSUME NEW n \in Nat, NEW G, 0 \in G, \A i \in 1 .. n : i - 1 \in G => i \in G
    PROVE  0 .. n \subseteq G
<1> DEFINE Good == {s \in SUBSET (0 .. n) : \A i \in 0 .. n : s = 0 .. i => i \in G}
<1>1. ASSUME NEW s \in SUBSET (0 .. n), \A t \in SUBSET s : t # s => t \in Good,
             NEW i \in 0 .. n, s = 0 .. i
      PROVE  i \in G
  <2>1. CASE i = 0
    BY <2>1
  <2>2. CASE i # 0
    <3>1. i - 1 \in 0 .. n /\ i \in 1 .. n
      BY <2>2
    <3>2. 0 .. (i - 1) \in SUBSET s /\ 0 .. (i - 1) # s
      BY <1>1, <3>1
    <3>3. 0 .. (i - 1) \in Good
      BY <1>1, <3>2
    <3> QED BY <3>1, <3>3
  <2> QED BY <2>1, <2>2
<1>2. StrongInductive(0 .. n, Good)
  <2>1. ASSUME NEW s \in SUBSET (0 .. n), \A t \in SUBSET s : t # s => t \in Good PROVE s \in Good
    BY <1>1, <2>1
  <2> HIDE DEF Good
  <2> QED BY <2>1 DEF StrongInductive
<1>3. SUBSET (0 .. n) \subseteq Good
  <2>1. IsFiniteSet(0 .. n)
    BY FS_Interval
  <2> HIDE DEF Good
  <2> QED BY <1>2, <2>1, StrongSubsetInduction
<1>4. ASSUME NEW i \in 0 .. n PROVE i \in G
  <2>1. 0 .. i \in SUBSET (0 .. n)
    OBVIOUS
  <2> QED BY <1>3, <2>1
<1> QED BY <1>4

\* A recursion over the subsets of a finite set, one element less at a time.
Recurs(g, S, base, pick, step) ==
    g = [s \in SUBSET S |-> IF s = {} THEN base ELSE step[<<pick[s], g[s \ {pick[s]}]>>]]

LEMMA RecursionExists ==
    ASSUME NEW S, IsFiniteSet(S), NEW V, NEW base \in V, NEW pick, NEW step,
           \A s \in SUBSET S : s # {} => pick[s] \in s,
           \A x \in S, v \in V : step[<<x, v>>] \in V
    PROVE  \E g \in [SUBSET S -> V] : Recurs(g, S, base, pick, step)
<1> DEFINE Closed(R) ==
        /\ <<{}, base>> \in R
        /\ \A s \in SUBSET S, v \in V :
                s # {} /\ <<s \ {pick[s]}, v>> \in R => <<s, step[<<pick[s], v>>]>> \in R
      P == (SUBSET S) \X V
      G == {e \in P : \A R \in SUBSET P : Closed(R) => e \in R}
<1>1. G \subseteq P
  OBVIOUS
<1>2. Closed(G)
  <2>1. <<{}, base>> \in G
    <3>1. <<{}, base>> \in P
      <4>1. {} \in SUBSET S
        OBVIOUS
      <4> QED BY <4>1
    <3> QED BY <3>1
  <2>2. ASSUME NEW s \in SUBSET S, NEW v \in V, s # {}, <<s \ {pick[s]}, v>> \in G
        PROVE  <<s, step[<<pick[s], v>>]>> \in G
    <3>1. <<s, step[<<pick[s], v>>]>> \in P
      <4>1. pick[s] \in S
        BY <2>2
      <4>2. step[<<pick[s], v>>] \in V
        BY <4>1
      <4> QED BY <4>2
    <3>2. ASSUME NEW R \in SUBSET P, Closed(R) PROVE <<s, step[<<pick[s], v>>]>> \in R
      BY <2>2, <3>2
    <3> QED BY <3>1, <3>2
  <2> QED BY <2>1, <2>2
<1>3. ASSUME NEW R \in SUBSET P, Closed(R) PROVE G \subseteq R
  BY <1>3
<1> HIDE DEF G
<1> DEFINE Val(s, v) == v \in V /\ <<s, v>> \in G /\ \A w \in V : <<s, w>> \in G => w = v
           Good == {s \in SUBSET S : \E v : Val(s, v)}
<1>4. Val({}, base)
  <2>1. SUFFICES ASSUME NEW w \in V, <<{}, w>> \in G, w # base PROVE FALSE
    BY <1>2
  <2>2. Closed(G \ {<<{}, w>>})
    BY <1>2, <2>1
  <2> QED BY <1>1, <1>3, <2>1, <2>2
<1>5. ASSUME NEW s \in SUBSET S, s # {}, NEW v, Val(s \ {pick[s]}, v)
      PROVE  Val(s, step[<<pick[s], v>>])
  <2>1. <<s, step[<<pick[s], v>>]>> \in G /\ step[<<pick[s], v>>] \in V
    BY <1>2, <1>5
  <2>2. SUFFICES ASSUME NEW w \in V, <<s, w>> \in G, w # step[<<pick[s], v>>] PROVE FALSE
    BY <2>1
  <2>3. Closed(G \ {<<s, w>>})
    <3>1. <<{}, base>> \in G \ {<<s, w>>}
      BY <1>2, <1>5
    <3>2. ASSUME NEW t \in SUBSET S, NEW u \in V, t # {}, <<t \ {pick[t]}, u>> \in G \ {<<s, w>>}
          PROVE  <<t, step[<<pick[t], u>>]>> \in G \ {<<s, w>>}
      <4>1. <<t, step[<<pick[t], u>>]>> \in G
        BY <1>2, <3>2
      <4>2. CASE t = s
        BY <1>5, <2>2, <3>2, <4>1, <4>2
      <4> QED BY <4>1, <4>2
    <3> QED BY <3>1, <3>2
  <2> QED BY <1>1, <1>3, <2>2, <2>3
<1>6. SUBSET S \subseteq Good
  <2>1. {} \in Good
    BY <1>4
  <2>2. ASSUME NEW s \in SUBSET S, s # {} PROVE \E x \in s : s \ {x} \in Good => s \in Good
    <3>1. pick[s] \in s
      BY <2>2
    <3>2. ASSUME s \ {pick[s]} \in Good PROVE s \in Good
      BY <1>5, <2>2, <3>2
    <3> QED BY <3>1, <3>2
  <2> HIDE DEF Good
  <2>3. Inductive(S, Good)
    BY <2>1, <2>2 DEF Inductive
  <2> QED BY <2>3, SubsetInduction
<1> DEFINE g == [s \in SUBSET S |-> CHOOSE v : Val(s, v)]
<1>7. ASSUME NEW s \in SUBSET S PROVE Val(s, g[s])
  BY <1>6
<1>8. ASSUME NEW s \in SUBSET S
      PROVE  g[s] = IF s = {} THEN base ELSE step[<<pick[s], g[s \ {pick[s]}]>>]
  <2>1. CASE s = {}
    BY <1>4, <1>7, <2>1
  <2>2. CASE s # {}
    <3>1. Val(s \ {pick[s]}, g[s \ {pick[s]}])
      BY <1>7
    <3>2. Val(s, step[<<pick[s], g[s \ {pick[s]}]>>])
      BY <1>5, <2>2, <3>1
    <3>3. Val(s, g[s])
      BY <1>7
    <3> HIDE DEF g
    <3> QED BY <2>2, <3>2, <3>3
  <2> QED BY <2>1, <2>2
<1>9. g \in [SUBSET S -> V]
  BY <1>7
<1> HIDE DEF g
<1>10. g = [s \in SUBSET S |-> g[s]]
  BY <1>9
<1>11. Recurs(g, S, base, pick, step)
  <2>1. [s \in SUBSET S |-> g[s]] = [s \in SUBSET S |-> IF s = {} THEN base ELSE step[<<pick[s], g[s \ {pick[s]}]>>]]
    BY <1>8
  <2> QED BY <1>10, <2>1 DEF Recurs
<1> QED BY <1>9, <1>11
=============================================================================
