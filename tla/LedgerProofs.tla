------------------------------ MODULE LedgerProofs ------------------------------
(***************************************************************************)
(* What counts, adjustments and corrections leave in the ledger, for any   *)
(* requests, cells and acts.  First what MapThenSumSet comes to over any   *)
(* finite set, and over the chains that corrections of corrections make:   *)
(* the effective quantity of a movement is there, is one, and nets out     *)
(* (Netting).  SumInv is the inductive invariant of the movements: they    *)
(* are finitely many, a request writes once (Unwritten), a correction      *)
(* mirrors a movement that is there (Known, Mirrored), and no chain of     *)
(* them is a circle (Chained).  FindingInv adds what a request knew of     *)
(* those that had ended when it read (SawEnded), and EnvelopeInv which     *)
(* request may still write for an act.                                     *)
(***************************************************************************)
EXTENDS Ledger, FiniteSetTheorems, WellFoundedInduction, TLAPS

------------------------------------------------------------------------------
(* Sums over finite sets *)

First(s) == CHOOSE x \in s : TRUE

\* Induction over an interval, for a set: a number outside it would have a least one.
LEMMA Counting ==
    ASSUME NEW N \in Nat, NEW P, 0 \in P, \A i \in 1..N : i - 1 \in P => i \in P
    PROVE  0..N \subseteq P
<1> SUFFICES ASSUME ~(0..N \subseteq P) PROVE FALSE
  OBVIOUS
<1> DEFINE T == {i \in 0..N : i \notin P}
<1>1. T \subseteq Nat /\ T # {}
  OBVIOUS
<1>2. IsWellFoundedOn(OpToRel(<, Nat), Nat)
  BY NatLessThanWellFounded
<1>3. PICK i \in T : \A j \in T : <<j, i>> \notin OpToRel(<, Nat)
  BY <1>1, <1>2, WFMin
<1>4. \A j \in T : ~(j < i)
  BY <1>1, <1>3 DEF OpToRel
<1>5. i # 0 /\ i \in 1..N
  OBVIOUS
<1>6. i - 1 \in T
  BY <1>5
<1> QED BY <1>4, <1>5, <1>6

\* Adds(f, D, w): on each set of D, f is the weight of one of its members and what f is
\* on the rest.
Adds(f, D, w) ==
    \A s \in D : f[s] = IF s = {} THEN 0 ELSE w[First(s)] + f[s \ {First(s)}]

Weighs(w, S)       == \A x \in S : w[x] \in Int
AnyOfThem(f, S, w) == \A s \in SUBSET S : \A x \in s : f[s] = w[x] + f[s \ {x}]
SameOn(f, g, T)   == \A s \in SUBSET T : f[s] = g[s]

LEMMA FirstIs == ASSUME NEW s, s # {} PROVE First(s) \in s
BY DEF First


\* What is so of every finite set that it is so of every smaller part of, is so of all.
LEMMA BySize ==
    ASSUME NEW S, IsFiniteSet(S), NEW P,
           \A s \in SUBSET S : (\A t \in SUBSET s : t # s => t \in P) => s \in P
    PROVE  SUBSET S \subseteq P
<1> SUFFICES ASSUME ~(SUBSET S \subseteq P) PROVE FALSE
  OBVIOUS
<1> DEFINE T == {s \in SUBSET S : s \notin P}
<1>1. T # {} /\ T \subseteq FiniteSubsetsOf(S)
  BY FS_FiniteSubsetsOfFinite
<1>2. IsWellFoundedOn(StrictSubsetOrdering(S), FiniteSubsetsOf(S))
  BY FS_StrictSubsetOrderingWellFounded
<1> HIDE DEF T
<1>3. PICK s \in T : \A t \in T : ~ (<<t, s>> \in StrictSubsetOrdering(S))
  BY <1>1, <1>2, WFMin
<1> USE DEF T
<1>4. \A t \in SUBSET s : t # s => t \notin T
  BY <1>3 DEF StrictSubsetOrdering
<1> QED BY <1>4

Small(n, S)        == {s \in SUBSET S : Cardinality(s) <= n}
AddsTo(n, f, S, w) == f \in [Small(n, S) -> Int] /\ Adds(f, Small(n, S), w)

\* A function that sums the weights of a set's parts is there.
LEMMA AddsExists ==
    ASSUME NEW S, IsFiniteSet(S), NEW w \in [S -> Int]
    PROVE  \E f \in [SUBSET S -> Int] : Adds(f, SUBSET S, w)
<1> DEFINE N == Cardinality(S)
           Q == {n \in 0..N : \E f : AddsTo(n, f, S, w)}
<1>1. N \in Nat
  BY FS_CardinalityType
<1>2. \A s \in SUBSET S : IsFiniteSet(s) /\ Cardinality(s) \in Nat /\ Cardinality(s) <= N
  BY FS_Subset, FS_CardinalityType
<1>3. \A s \in SUBSET S : s # {} =>
          /\ First(s) \in S /\ s \ {First(s)} \in SUBSET S
          /\ Cardinality(s \ {First(s)}) = Cardinality(s) - 1
  BY <1>2, FirstIs, FS_RemoveElement
<1>4. Small(0, S) = {{}} /\ Small(N, S) = SUBSET S
  BY <1>1, <1>2, FS_EmptySet DEF Small
<1>5. \E f : AddsTo(0, f, S, w)
  <2>1. AddsTo(0, [s \in {{}} |-> 0], S, w)
    BY <1>4 DEF Adds, AddsTo
  <2> QED BY <2>1
<1>6. ASSUME NEW n \in 1..N, NEW f, AddsTo(n - 1, f, S, w)
      PROVE  \E g : AddsTo(n, g, S, w)
  <2> DEFINE g == [s \in Small(n, S) |->
                       IF s = {} THEN 0 ELSE w[First(s)] + f[s \ {First(s)}]]
  <2>2. \A s \in Small(n, S) : s # {} =>
            /\ s \ {First(s)} \in Small(n - 1, S)
            /\ s \ {First(s)} \in Small(n, S)
            /\ w[First(s)] \in Int
    BY <1>1, <1>2, <1>3 DEF Small
  <2>3. \A s \in Small(n - 1, S) : f[s] \in Int
    BY <1>6 DEF AddsTo
  <2>a. ASSUME NEW s \in Small(n, S)
        PROVE  (IF s = {} THEN 0 ELSE w[First(s)] + f[s \ {First(s)}]) \in Int
    <3>1. CASE s = {}
      BY <3>1
    <3>2. CASE s # {}
      <4>1. w[First(s)] \in Int /\ f[s \ {First(s)}] \in Int
        BY <2>2, <2>3, <3>2
      <4> QED BY <3>2, <4>1
    <3> QED BY <3>1, <3>2
  <2>4. g \in [Small(n, S) -> Int]
    BY <2>a
  <2>5. \A s \in Small(n - 1, S) : g[s] = f[s]
    <3>1. Small(n - 1, S) \subseteq Small(n, S)
      BY <1>1, <1>2 DEF Small
    <3> QED BY <1>6, <3>1 DEF Adds, AddsTo
  <2>6. Adds(g, Small(n, S), w)
    BY <2>2, <2>5 DEF Adds
  <2> HIDE DEF g
  <2>7. AddsTo(n, g, S, w)
    BY <2>4, <2>6 DEF AddsTo
  <2> QED BY <2>7
<1>7. 0 \in Q /\ \A n \in 1..N : n - 1 \in Q => n \in Q
  BY <1>1, <1>5, <1>6
<1> HIDE DEF Q
<1>8. 0..N \subseteq Q
  BY <1>1, <1>7, Counting
<1>9. \E f : AddsTo(N, f, S, w)
  BY <1>1, <1>8 DEF Q
<1> QED BY <1>4, <1>9 DEF AddsTo

\* The member that is taken first makes no difference.
LEMMA AnyFirst ==
    ASSUME NEW S, IsFiniteSet(S), NEW w, Weighs(w, S),
           NEW f, f \in [SUBSET S -> Int], Adds(f, SUBSET S, w)
    PROVE  AnyOfThem(f, S, w)
<1> USE DEF Weighs
<1> DEFINE P == {s \in SUBSET S : \A x \in s : f[s] = w[x] + f[s \ {x}]}
<1>1. ASSUME NEW s \in SUBSET S, \A t \in SUBSET s : t # s => t \in P, NEW x \in s
      PROVE  f[s] = w[x] + f[s \ {x}]
  <2> DEFINE y == First(s)
  <2>1. y \in s /\ f[s] = w[y] + f[s \ {y}]
    BY FirstIs DEF Adds
  <2>2. CASE x = y
    BY <2>1, <2>2
  <2>3. CASE x # y
    <3> HIDE DEF y
    <3>0. \A t \in SUBSET S : t # s /\ t \subseteq s => \A z \in t : f[t] = w[z] + f[t \ {z}]
      BY <1>1
    <3>1. f[s \ {y}] = w[x] + f[(s \ {y}) \ {x}]
      BY <2>1, <2>3, <3>0
    <3>2. f[s \ {x}] = w[y] + f[(s \ {x}) \ {y}]
      BY <2>1, <2>3, <3>0
    <3>3. (s \ {y}) \ {x} = (s \ {x}) \ {y}
      OBVIOUS
    <3>4. w[x] \in Int /\ w[y] \in Int /\ f[(s \ {x}) \ {y}] \in Int
      BY <2>1
    <3> DEFINE k == f[(s \ {x}) \ {y}]
    <3>5. f[s] = w[y] + (w[x] + k) /\ f[s \ {x}] = w[y] + k
      BY <2>1, <3>1, <3>2, <3>3
    <3>6. k \in Int
      BY <3>4
    <3> HIDE DEF k
    <3> QED BY <3>4, <3>5, <3>6
  <2> QED BY <2>2, <2>3
<1>2. \A s \in SUBSET S : (\A t \in SUBSET s : t # s => t \in P) => s \in P
  BY <1>1
<1> HIDE DEF P
<1>3. SUBSET S \subseteq P
  BY <1>2, BySize
<1> QED BY <1>3 DEF P, AnyOfThem

\* What a set comes to does not depend on the set it is a part of.
LEMMA SameSums ==
    ASSUME NEW S, IsFiniteSet(S), NEW T, T \subseteq S, NEW w, NEW f, NEW g,
           Adds(f, SUBSET S, w), Adds(g, SUBSET T, w)
    PROVE  SameOn(f, g, T)
<1> DEFINE P == {s \in SUBSET T : f[s] = g[s]}
<1>1. IsFiniteSet(T)
  BY FS_Subset
<1>2. ASSUME NEW s \in SUBSET T, \A t \in SUBSET s : t # s => t \in P
      PROVE  f[s] = g[s]
  <2>1. CASE s = {}
    BY <2>1 DEF Adds
  <2>2. CASE s # {}
    <3>1. First(s) \in s
      BY <2>2, FirstIs
    <3>2. f[s \ {First(s)}] = g[s \ {First(s)}]
      BY <1>2, <3>1
    <3> QED BY <2>2, <3>2 DEF Adds
  <2> QED BY <2>1, <2>2
<1>3. \A s \in SUBSET T : (\A t \in SUBSET s : t # s => t \in P) => s \in P
  BY <1>2
<1> HIDE DEF P
<1>4. SUBSET T \subseteq P
  BY <1>1, <1>3, BySize
<1> QED BY <1>4 DEF P, SameOn

\* Total sums w over the parts of S.
LEMMA TotalIs ==
    ASSUME NEW S, IsFiniteSet(S), NEW w, Weighs(w, S)
    PROVE  \E f \in [SUBSET S -> Int] : Adds(f, SUBSET S, w) /\ Total(w, S) = f[S]
<1> DEFINE Is(f) == f = [s \in SUBSET S |-> IF s = {} THEN 0 ELSE w[First(s)] + f[s \ {First(s)}]]
<1>1. Total(w, S) = (CHOOSE f : Is(f))[S]
  BY DEF Total, MapThenSumSet, MapThenFoldSet, First
<1> DEFINE v == [r \in S |-> w[r]]
<1>2. v \in [S -> Int]
  BY DEF Weighs
<1>3. PICK f \in [SUBSET S -> Int] : Adds(f, SUBSET S, v)
  BY <1>2, AddsExists
<1>4. \A s \in SUBSET S : s # {} => First(s) \in S /\ v[First(s)] = w[First(s)]
  BY FirstIs
<1>5. \A s \in SUBSET S : f[s] = IF s = {} THEN 0 ELSE w[First(s)] + f[s \ {First(s)}]
  BY <1>3, <1>4 DEF Adds
<1>6. Is(f)
  BY <1>5
<1> DEFINE g == CHOOSE h : Is(h)
<1>7. Is(g)
  <2> HIDE DEF Is
  <2> QED BY <1>6
<1> HIDE DEF g
<1>8. Adds(g, SUBSET S, w)
  BY <1>7 DEF Adds
<1>9. Adds(f, SUBSET S, w)
  BY <1>5 DEF Adds
<1>10. f[S] = g[S]
  <2>1. SameOn(g, f, S)
    BY <1>8, <1>9, SameSums
  <2> QED BY <2>1 DEF SameOn
<1> QED BY <1>1, <1>9, <1>10 DEF g

LEMMA TotalType ==
    ASSUME NEW S, IsFiniteSet(S), NEW w, Weighs(w, S)
    PROVE  Total(w, S) \in Int
<1>1. PICK f \in [SUBSET S -> Int] : Total(w, S) = f[S]
  BY TotalIs
<1>2. S \in SUBSET S
  OBVIOUS
<1> QED BY <1>1, <1>2

LEMMA TotalOfNone == ASSUME NEW w PROVE Total(w, {}) = 0
<1>1. IsFiniteSet({}) /\ Weighs(w, {})
  BY FS_EmptySet DEF Weighs
<1>2. PICK f \in [SUBSET {} -> Int] : Adds(f, SUBSET {}, w) /\ Total(w, {}) = f[{}]
  BY <1>1, TotalIs
<1> QED BY <1>2 DEF Adds

\* A member adds its weight to the rest.
LEMMA TotalAdds ==
    ASSUME NEW S, IsFiniteSet(S), NEW w, Weighs(w, S), NEW x \in S
    PROVE  Total(w, S) = w[x] + Total(w, S \ {x})
<1> DEFINE T == S \ {x}
<1>1. IsFiniteSet(T) /\ Weighs(w, T)
  BY FS_Subset DEF Weighs
<1>2. PICK f \in [SUBSET S -> Int] : Adds(f, SUBSET S, w) /\ Total(w, S) = f[S]
  BY TotalIs
<1> HIDE DEF T
<1>3. PICK g \in [SUBSET T -> Int] : Adds(g, SUBSET T, w) /\ Total(w, T) = g[T]
  BY <1>1, TotalIs
<1>4. f[T] = g[T]
  <2>1. T \subseteq S
    BY DEF T
  <2>2. SameOn(f, g, T)
    BY <1>2, <1>3, <2>1, SameSums
  <2>3. T \in SUBSET T
    OBVIOUS
  <2> QED BY <2>2, <2>3 DEF SameOn
<1>5. f[S] = w[x] + f[S \ {x}]
  <2>2. AnyOfThem(f, S, w)
    BY <1>2, AnyFirst
  <2>3. S \in SUBSET S
    OBVIOUS
  <2> QED BY <2>2, <2>3 DEF AnyOfThem
<1>6. S \ {x} = T
  BY DEF T
<1>7. f[S] = w[x] + f[T]
  BY <1>5, <1>6
<1> QED BY <1>2, <1>3, <1>4, <1>6, <1>7

\* Times(v, k, w, S): on S, v is k times w, for a k of -1, 0 or 1.
Times(v, k, w, S) ==
    \A x \in S : v[x] = CASE k = 0 -> 0 [] k = 1 -> w[x] [] k = -1 -> -w[x]

\* A sum is turned round, or comes to nothing, with its members.
LEMMA TotalTimes ==
    ASSUME NEW S, IsFiniteSet(S), NEW w, Weighs(w, S), NEW v, NEW k \in {-1, 0, 1},
           Times(v, k, w, S)
    PROVE  Weighs(v, S) /\ Total(v, S) = k * Total(w, S)
<1>0. Weighs(v, S)
  BY DEF Weighs, Times
<1> DEFINE P == {s \in SUBSET S : Total(v, s) = k * Total(w, s)}
<1>1. ASSUME NEW s \in SUBSET S, \A t \in SUBSET s : t # s => t \in P
      PROVE  Total(v, s) = k * Total(w, s)
  <2>0. IsFiniteSet(s) /\ Weighs(w, s) /\ Weighs(v, s)
    BY <1>0, FS_Subset DEF Weighs
  <2>1. CASE s = {}
    BY <2>1, TotalOfNone
  <2>2. CASE s # {}
    <3>1. PICK x \in s : TRUE
      BY <2>2
    <3> DEFINE u == s \ {x}
    <3>2. u \in SUBSET s /\ u # s /\ IsFiniteSet(u) /\ Weighs(w, u)
      BY <2>0, FS_Subset DEF Weighs
    <3>3. Total(v, u) = k * Total(w, u)
      BY <1>1, <3>2
    <3>4. Total(v, s) = v[x] + Total(v, u) /\ Total(w, s) = w[x] + Total(w, u)
      BY <2>0, TotalAdds
    <3> HIDE DEF u
    <3>5. Total(w, u) \in Int /\ w[x] \in Int
      BY <2>0, <3>2, TotalType DEF Weighs
    <3>6. v[x] = IF k = 0 THEN 0 ELSE IF k = 1 THEN w[x] ELSE -w[x]
      BY DEF Times
    <3>7. CASE k = 0
      BY <3>3, <3>4, <3>5, <3>6, <3>7
    <3>8. CASE k = 1
      BY <3>3, <3>4, <3>5, <3>6, <3>8
    <3>9. CASE k = -1
      BY <3>3, <3>4, <3>5, <3>6, <3>9
    <3> QED BY <3>7, <3>8, <3>9
  <2> QED BY <2>1, <2>2
<1>2. \A s \in SUBSET S : (\A t \in SUBSET s : t # s => t \in P) => s \in P
  BY <1>1
<1> HIDE DEF P
<1>3. SUBSET S \subseteq P
  BY <1>2, BySize
<1> QED BY <1>0, <1>3 DEF P

LEMMA TotalSame ==
    ASSUME NEW S, IsFiniteSet(S), NEW w, Weighs(w, S), NEW v, \A x \in S : v[x] = w[x]
    PROVE  Total(v, S) = Total(w, S)
<1>1. Times(v, 1, w, S)
  BY DEF Times
<1>2. Total(v, S) = 1 * Total(w, S)
  BY <1>1, TotalTimes
<1> QED BY <1>2, TotalType

\* Two sets that share nothing are summed one after the other.
LEMMA TotalOfBoth ==
    ASSUME NEW S, IsFiniteSet(S), NEW w, Weighs(w, S),
           NEW A, A \subseteq S, NEW B, B \subseteq S, A \cap B = {}
    PROVE  Total(w, A \cup B) = Total(w, A) + Total(w, B)
<1> DEFINE P == {s \in SUBSET B : Total(w, A \cup s) = Total(w, A) + Total(w, s)}
<1>0. \A T \in SUBSET S : IsFiniteSet(T) /\ Weighs(w, T) /\ Total(w, T) \in Int
  BY FS_Subset, TotalType DEF Weighs
<1>1. ASSUME NEW s \in SUBSET B, \A t \in SUBSET s : t # s => t \in P
      PROVE  Total(w, A \cup s) = Total(w, A) + Total(w, s)
  <2>1. CASE s = {}
    BY <1>0, <2>1, TotalOfNone
  <2>2. CASE s # {}
    <3>1. PICK x \in s : TRUE
      BY <2>2
    <3> DEFINE u == s \ {x}
    <3>2. Total(w, A \cup u) = Total(w, A) + Total(w, u)
      BY <1>1
    <3>3. (A \cup s) \ {x} = A \cup u /\ x \in A \cup s /\ A \cup s \subseteq S
      OBVIOUS
    <3>4. Total(w, A \cup s) = w[x] + Total(w, (A \cup s) \ {x})
      BY <1>0, <3>3, TotalAdds
    <3>5. Total(w, s) = w[x] + Total(w, u)
      BY <1>0, TotalAdds
    <3>6. Total(w, A) \in Int /\ Total(w, u) \in Int /\ w[x] \in Int
      BY <1>0 DEF Weighs
    <3>7. Total(w, A \cup s) = w[x] + Total(w, A \cup u)
      BY <3>3, <3>4
    <3> DEFINE a == Total(w, A)
               b == Total(w, u)
               c == w[x]
    <3>8. Total(w, A \cup s) = c + (a + b) /\ Total(w, s) = c + b
      BY <3>2, <3>5, <3>7
    <3>9. a \in Int /\ b \in Int /\ c \in Int
      BY <3>6
    <3> HIDE DEF a, b, c, u
    <3>10. c + (a + b) = a + (c + b)
      BY <3>9
    <3>11. Total(w, A \cup s) = a + Total(w, s)
      BY <3>8, <3>10
    <3> QED BY <3>11 DEF a
  <2> QED BY <2>1, <2>2
<1>2. \A s \in SUBSET B : (\A t \in SUBSET s : t # s => t \in P) => s \in P
  BY <1>1
<1>3. IsFiniteSet(B)
  BY <1>0
<1> HIDE DEF P
<1>4. SUBSET B \subseteq P
  BY <1>2, <1>3, BySize
<1> QED BY <1>4 DEF P

\* What weighs nothing can be left out.
LEMMA TotalOfPart ==
    ASSUME NEW S, IsFiniteSet(S), NEW w, Weighs(w, S),
           NEW T, T \subseteq S, \A x \in S \ T : w[x] = 0
    PROVE  Total(w, S) = Total(w, T)
<1> DEFINE R == S \ T
<1>1. IsFiniteSet(R) /\ IsFiniteSet(T) /\ Weighs(w, R) /\ Weighs(w, T)
  BY FS_Subset DEF Weighs
<1>2. Times(w, 0, w, R)
  BY DEF Times
<1>3. Total(w, R) = 0 * Total(w, R) /\ Total(w, R) \in Int /\ Total(w, T) \in Int
  BY <1>1, <1>2, TotalTimes, TotalType
<1>4. Total(w, T \cup R) = Total(w, T) + Total(w, R)
  BY TotalOfBoth
<1>5. T \cup R = S
  OBVIOUS
<1> DEFINE a == Total(w, T)
           b == Total(w, R)
<1>6. a \in Int /\ b = 0 * b /\ b \in Int /\ Total(w, S) = a + b
  BY <1>3, <1>4, <1>5
<1> HIDE DEF R, a, b
<1>7. Total(w, S) = a
  BY <1>6
<1> QED BY <1>7 DEF a

------------------------------------------------------------------------------
(* Sums over a forest: the members of M, each with its parent of[s], which may be none
   of them *)

Below(of, M, T) == {s \in M : of[s] \in T}

\* Nets(w, e, of, M): what weighs w[m] is e[m] and, the other way, what hangs below m.
Nets(w, e, of, M) == \A m \in M : w[m] = e[m] - Total(e, Below(of, M, {m}))

\* Part by part of the forest, w and what hangs below come to e.
LEMMA Netting ==
    ASSUME NEW M, IsFiniteSet(M), NEW e, Weighs(e, M), NEW w, NEW of, Nets(w, e, of, M)
    PROVE  Total(w, M) = Total(e, {m \in M : of[m] \notin M})
<1>0. \A T \in SUBSET M : IsFiniteSet(T) /\ Weighs(e, T) /\ Total(e, T) \in Int
  BY FS_Subset, TotalType DEF Weighs
<1>1. \A T : Below(of, M, T) \in SUBSET M
  BY DEF Below
<1>2. Weighs(w, M)
  <2> SUFFICES ASSUME NEW m \in M PROVE w[m] \in Int
    BY DEF Weighs
  <2> DEFINE a == Total(e, Below(of, M, {m}))
  <2>1. a \in Int
    BY <1>0, <1>1
  <2>2. w[m] = e[m] - a
    BY DEF Nets
  <2> HIDE DEF a
  <2> QED BY <2>1, <2>2 DEF Weighs
<1>3. \A T \in SUBSET M : Weighs(w, T) /\ Total(w, T) \in Int
  BY <1>0, <1>2, TotalType DEF Weighs
<1> DEFINE P == {s \in SUBSET M : Total(w, s) + Total(e, Below(of, M, s)) = Total(e, s)}
<1>4. ASSUME NEW s \in SUBSET M, \A t \in SUBSET s : t # s => t \in P
      PROVE  Total(w, s) + Total(e, Below(of, M, s)) = Total(e, s)
  <2>1. CASE s = {}
    <3>1. Below(of, M, {}) = {}
      BY DEF Below
    <3>2. Total(w, {}) = 0 /\ Total(e, {}) = 0
      BY TotalOfNone
    <3> QED BY <2>1, <3>1, <3>2
  <2>2. CASE s # {}
    <3>1. PICK x \in s : TRUE
      BY <2>2
    <3> DEFINE u == s \ {x}
               A == Below(of, M, {x})
               B == Below(of, M, u)
    <3>2. Total(w, u) + Total(e, B) = Total(e, u)
      BY <1>4
    <3>3. Total(w, s) = w[x] + Total(w, u) /\ Total(e, s) = e[x] + Total(e, u)
      BY <1>0, <1>3, TotalAdds
    <3>4. w[x] = e[x] - Total(e, A)
      BY DEF Nets
    <3>5. Below(of, M, s) = A \cup B /\ A \cap B = {}
      BY DEF Below
    <3>6. A \in SUBSET M /\ B \in SUBSET M /\ u \in SUBSET M
      BY <1>1
    <3> HIDE DEF A, B, u
    <3>7. Total(e, A \cup B) = Total(e, A) + Total(e, B)
      BY <3>5, <3>6, TotalOfBoth
    <3> DEFINE a == Total(e, A)
               b == Total(e, B)
               c == Total(e, u)
               d == Total(w, u)
    <3>8. a \in Int /\ b \in Int /\ c \in Int /\ d \in Int /\ e[x] \in Int
      BY <1>0, <1>3, <3>6 DEF Weighs
    <3>9. /\ d + b = c
          /\ Total(w, s) = (e[x] - a) + d /\ Total(e, s) = e[x] + c
          /\ Total(e, Below(of, M, s)) = a + b
      BY <3>2, <3>3, <3>4, <3>5, <3>7
    <3> HIDE DEF a, b, c, d
    <3>10. ((e[x] - a) + d) + (a + b) = e[x] + c
      BY <3>8, <3>9
    <3> QED BY <3>9, <3>10
  <2> QED BY <2>1, <2>2
<1>5. \A s \in SUBSET M : (\A t \in SUBSET s : t # s => t \in P) => s \in P
  BY <1>4
<1> HIDE DEF P
<1>6. SUBSET M \subseteq P
  BY <1>5, BySize
<1> DEFINE A == Below(of, M, M)
           R == {m \in M : of[m] \notin M}
<1>7. Total(w, M) + Total(e, A) = Total(e, M)
  BY <1>6 DEF P
<1>8. M = R \cup A /\ R \cap A = {} /\ R \in SUBSET M /\ A \in SUBSET M
  BY DEF Below
<1>9. Total(e, R \cup A) = Total(e, R) + Total(e, A)
  BY <1>8, TotalOfBoth
<1> DEFINE a == Total(e, A)
           b == Total(e, R)
           c == Total(w, M)
<1>10. a \in Int /\ b \in Int /\ c \in Int
  BY <1>0, <1>3, <1>8
<1>11. c + a = b + a
  BY <1>7, <1>8, <1>9
<1> HIDE DEF a, b, c
<1>12. c = b
  BY <1>10, <1>11
<1> QED BY <1>12 DEF b, c

\* Rank goes up from a parent to what is below it, in at most K steps.
Ranks(rank, K, of, M, R) ==
    /\ rank \in [R -> 0..K]
    /\ \A s \in M : of[s] \in R => rank[of[s]] < rank[s]

\* Left(f, n, of, M, R): f is what is left of n after f of what is below.
Left(f, n, of, M, R) == \A r \in R : f[r] = n[r] - Total(f, Below(of, M, {r}))

Deep(rank, K, R, i) == {r \in R : rank[r] > K - i}

\* What hangs below a member is one step deeper.
LEMMA BelowIsDeep ==
    ASSUME NEW K \in Nat, NEW R, NEW M, NEW of, NEW rank, Ranks(rank, K, of, M, R),
           NEW i \in 1..K + 1, NEW r \in Deep(rank, K, R, i), M \subseteq R
    PROVE  Below(of, M, {r}) \subseteq Deep(rank, K, R, i - 1)
<1> SUFFICES ASSUME NEW s \in M, of[s] = r PROVE rank[s] > K - (i - 1)
  BY DEF Below, Deep
<1>1. rank[r] < rank[s] /\ rank[r] > K - i /\ rank[r] \in 0..K /\ rank[s] \in 0..K
  BY DEF Ranks, Deep
<1> QED BY <1>1

\* Such a function is there.
LEMMA LeftExists ==
    ASSUME NEW K \in Nat, NEW R, NEW M, M \subseteq R, IsFiniteSet(M), NEW of,
           NEW rank, Ranks(rank, K, of, M, R), NEW n, Weighs(n, R)
    PROVE  \E f : f \in [R -> Int] /\ Left(f, n, of, M, R)
<1> DEFINE Is(i, f) == f \in [R -> Int] /\ Left(f, n, of, M, Deep(rank, K, R, i))
           N == K + 1
           P == {i \in 0..N : \E f : Is(i, f)}
<1>0. \A i \in 0..N : Deep(rank, K, R, i) \subseteq R
  BY DEF Deep
<1>a. \A T : Below(of, M, T) \subseteq M /\ IsFiniteSet(Below(of, M, T))
  <2>1. \A T : Below(of, M, T) \subseteq M
    BY DEF Below
  <2> QED BY <2>1, FS_Subset
<1>1. 0 \in P
  <2>1. Deep(rank, K, R, 0) = {}
    BY DEF Deep, Ranks
  <2>2. Is(0, [r \in R |-> 0])
    BY <2>1 DEF Left
  <2> HIDE DEF Is
  <2> QED BY <2>2
<1>2. \A i \in 1..N : i - 1 \in P => i \in P
  <2> SUFFICES ASSUME NEW i \in 1..N, i - 1 \in P PROVE i \in P
    OBVIOUS
  <2>1. PICK f : Is(i - 1, f)
    OBVIOUS
  <2> DEFINE D == Deep(rank, K, R, i - 1)
             x == [r \in R |-> n[r] - Total(f, Below(of, M, {r}))]
             g == [r \in R |-> IF r \in D THEN f[r] ELSE x[r]]
  <2>2. \A r \in R : Weighs(f, Below(of, M, {r})) /\ x[r] \in Int
    <3> TAKE r \in R
    <3>1. Weighs(f, Below(of, M, {r}))
      BY <1>a, <2>1 DEF Weighs
    <3> DEFINE a == Total(f, Below(of, M, {r}))
    <3>2. a \in Int
      BY <1>a, <3>1, TotalType
    <3>3. x[r] = n[r] - a
      OBVIOUS
    <3> HIDE DEF a, x
    <3>4. x[r] \in Int
      BY <3>2, <3>3 DEF Weighs
    <3> QED BY <3>1, <3>4
  <2> HIDE DEF x
  <2>3. g \in [R -> Int]
    BY <2>1, <2>2
  <2>4. ASSUME NEW r \in Deep(rank, K, R, i)
        PROVE  g[r] = n[r] - Total(g, Below(of, M, {r}))
    <3>1. Below(of, M, {r}) \subseteq D /\ r \in R
      BY BelowIsDeep DEF Deep
    <3>2. \A s \in Below(of, M, {r}) : g[s] = f[s]
      BY <1>a, <3>1
    <3>3. Total(g, Below(of, M, {r})) = Total(f, Below(of, M, {r}))
      BY <1>a, <2>2, <3>1, <3>2, TotalSame
    <3>4. CASE r \in D
      <4>1. f[r] = n[r] - Total(f, Below(of, M, {r}))
        BY <2>1, <3>4 DEF Left
      <4> QED BY <3>1, <3>3, <3>4, <4>1
    <3>5. CASE r \notin D
      BY <3>1, <3>3, <3>5 DEF x
    <3> QED BY <3>4, <3>5
  <2>5. Is(i, g)
    BY <2>3, <2>4 DEF Left
  <2> HIDE DEF Is, g
  <2> QED BY <2>5
<1> HIDE DEF P
<1>3. 0..N \subseteq P
  BY <1>1, <1>2, Counting
<1>4. PICK f : Is(N, f)
  BY <1>3 DEF P
<1>5. Deep(rank, K, R, N) = R
  BY DEF Deep, Ranks
<1> QED BY <1>4, <1>5

\* There is one such function.
LEMMA LeftIsOne ==
    ASSUME NEW K \in Nat, NEW R, NEW M, M \subseteq R, IsFiniteSet(M), NEW of,
           NEW rank, Ranks(rank, K, of, M, R), NEW n,
           NEW f \in [R -> Int], Left(f, n, of, M, R), NEW g, Left(g, n, of, M, R)
    PROVE  \A r \in R : g[r] = f[r]
<1> DEFINE N == K + 1
           P == {i \in 0..N : \A r \in Deep(rank, K, R, i) : g[r] = f[r]}
<1>1. 0 \in P
  <2>1. Deep(rank, K, R, 0) = {}
    BY DEF Deep, Ranks
  <2> QED BY <2>1
<1>2. \A i \in 1..N : i - 1 \in P => i \in P
  <2> SUFFICES ASSUME NEW i \in 1..N, i - 1 \in P, NEW r \in Deep(rank, K, R, i)
               PROVE  g[r] = f[r]
    OBVIOUS
  <2> DEFINE B == Below(of, M, {r})
  <2>1. B \subseteq Deep(rank, K, R, i - 1) /\ B \subseteq M /\ r \in R
    BY BelowIsDeep DEF Below, Deep
  <2>2. \A s \in B : g[s] = f[s]
    BY <2>1
  <2>3. IsFiniteSet(B) /\ Weighs(f, B)
    BY <2>1, FS_Subset DEF Weighs
  <2> HIDE DEF B
  <2>4. Total(g, B) = Total(f, B)
    BY <2>2, <2>3, TotalSame
  <2> QED BY <2>1, <2>4 DEF Left, B
<1> HIDE DEF P
<1>3. 0..N \subseteq P
  BY <1>1, <1>2, Counting
<1>4. Deep(rank, K, R, N) = R
  BY DEF Deep, Ranks
<1> QED BY <1>3, <1>4 DEF P

------------------------------------------------------------------------------
(* The inductive invariant *)

Places    == Cells \cup {Nowhere}
Movements == [n : Nat, from : Places, to : Places, of : Requests \cup {NoOne}]

Shape ==
    /\ pc \in [Requests -> {"new", "checked", "claimed", "ended"}]
    /\ seen \in [Requests -> [folded : SUBSET Requests, finding : [Requests -> States]]]
    /\ before \in [Requests -> SUBSET Requests]
    /\ movement \in [Requests -> Movements]
    /\ finding \in [Requests -> States]
    /\ resolving \in [Requests -> Requests \cup {NoOne}]
    /\ outcome \in [Requests -> {"none", "ok", "refused"}]
    /\ holder \in [Acts -> Requests \cup {NoOne}]
    /\ IsFiniteSet(Moves)
    /\ folded \subseteq Moves
    /\ \A r \in Requests : seen[r].folded \subseteq Moves

\* A request writes once, when it ends.
Unwritten ==
    \A r \in Requests : pc[r] # "ended" => movement[r] = NoMove /\ finding[r] = "none"

\* A correction that was let through corrects a movement.
Known ==
    \A r \in Requests : pc[r] \in {"checked", "claimed"} /\ Kind(r) = "corrected"
                        => Ask[r].of \in Moves

\* What corrects a movement is that movement the other way.
Mirrors(m) ==
    m.of # NoOne => /\ m.of \in Moves
                    /\ m.from = movement[m.of].to /\ m.to = movement[m.of].from
Mirrored == \A s \in Moves : Mirrors(movement[s])

\* Corrections of corrections do not run in a circle.
Parents == [s \in Requests |-> movement[s].of]
Chained == \E K \in Nat : \E rank : Ranks(rank, K, Parents, Moves, Requests)

SumInv == Shape /\ Unwritten /\ Known /\ Mirrored /\ Chained

\* Only a movement resolves a finding.
Resolved == \A f \in Requests : finding[f] = "resolved" => resolving[f] \in Moves

\* Who had ended when r read has raised what it will, and r saw it.
SawEnded ==
    \A r \in Requests : \A q \in before[r] :
        /\ pc[q] = "ended"
        /\ seen[r].finding[q] \notin Unresolved => finding[q] \notin Unresolved

FindingInv == SumInv /\ Resolved /\ SawEnded /\ OneOpenFinding

\* An act has one request that may still write, and none once its envelope is there.
Enveloped ==
    /\ \A r \in Requests : pc[r] = "claimed" => holder[Ask[r].act] = r /\ Kind(r) \in ActKinds
    /\ \A a \in Acts : holder[a] \in Requests => a \notin envelopes
    /\ \A s \in Moves : Ask[s].act \in envelopes

------------------------------------------------------------------------------
(* What the constants and the helpers are *)

\* What a request asks for is of its kind.
LEMMA AskIs ==
    ASSUME NEW r \in Requests
    PROVE  /\ Kind(r) \in Kinds /\ Ask[r].act \in Acts /\ Ask[r].cell \in Cells
           /\ Ask[r].to \in Cells /\ Ask[r].n \in Nat /\ Ask[r].of \in Requests \cup {NoOne}
           /\ Kind(r) = "corrected" => Ask[r].n > 0
           /\ Kind(r) \in {"investigated", "accepted"} => Ask[r].of \in Requests
BY LedgerAssumption DEF LedgerAssumption, Kind

LEMMA Apart == Nowhere \notin Cells /\ NoOne \notin Requests
BY LedgerAssumption DEF LedgerAssumption

LEMMA IntoType == ASSUME NEW c, NEW m, m.n \in Int PROVE Into(c, m) \in Int
BY DEF Into

\* A balance over movements is a number: they are finitely many.
LEMMA BalanceType ==
    ASSUME Shape, NEW c, NEW M \in SUBSET Moves
    PROVE  /\ Balance(c, M) \in Int /\ IsFiniteSet(M)
           /\ Weighs([r \in M |-> Into(c, movement[r])], M)
<1>1. IsFiniteSet(M)
  BY FS_Subset DEF Shape
<1>2. ASSUME NEW r \in M PROVE Into(c, movement[r]) \in Int
  <2>1. movement[r].n \in Int
    BY DEF Shape, Movements, Moves
  <2> QED BY <2>1, IntoType
<1> DEFINE w == [r \in M |-> Into(c, movement[r])]
<1>3. Weighs(w, M)
  BY <1>2 DEF Weighs
<1> HIDE DEF w
<1>4. Total(w, M) \in Int
  BY <1>1, <1>3, TotalType
<1> QED BY <1>1, <1>3, <1>4 DEF Balance, w

LEMMA VarianceType ==
    ASSUME Shape, NEW r \in Requests
    PROVE  Variance(r) \in Int
<1>1. seen[r].folded \in SUBSET Moves
  BY DEF Shape
<1>2. System(r) \in Int
  BY <1>1, BalanceType DEF System
<1> QED BY <1>2, AskIs DEF Variance

\* A movement is a movement: it comes from somewhere, or goes somewhere, or corrects one.
LEMMA NoMoveIs ==
    /\ NoMove \in Movements /\ NoMove.from = Nowhere /\ NoMove.to = Nowhere /\ NoMove.of = NoOne
BY DEF NoMove, Movements, Places

Writing(r, m) ==
    /\ r \in Requests /\ m \in Movements /\ m # NoMove
    /\ movement[r] = NoMove /\ movement' = [movement EXCEPT ![r] = m]

\* A movement is written next to those that are there.
LEMMA WritingIs ==
    ASSUME Shape, NEW r, NEW m, Writing(r, m)
    PROVE  /\ movement' \in [Requests -> Movements]
           /\ r \notin Moves /\ Moves' = Moves \cup {r} /\ IsFiniteSet(Moves)'
           /\ movement'[r] = m
           /\ \A s \in Moves : movement'[s] = movement[s]
<1>1. movement \in [Requests -> Movements] /\ IsFiniteSet(Moves)
  BY DEF Shape
<1>2. /\ movement' \in [Requests -> Movements] /\ movement'[r] = m
      /\ \A s \in Requests \ {r} : movement'[s] = movement[s]
  BY <1>1 DEF Writing
<1>3. r \notin Moves
  BY DEF Writing, Moves
<1>4. Moves' = Moves \cup {r}
  BY <1>2 DEF Writing, Moves
<1>5. IsFiniteSet(Moves \cup {r})
  BY <1>1, FS_AddElement
<1>6. \A s \in Moves : s \in Requests \ {r}
  BY <1>3 DEF Moves
<1> QED BY <1>2, <1>3, <1>4, <1>5, <1>6

------------------------------------------------------------------------------
(* What each step does to the movements, the findings and what was read *)

LEMMA NextIs ==
    ASSUME [Next]_vars
    PROVE  \/ \E r \in Requests : Check(r) \/ Claim(r) \/ Record(r) \/ Replay(r) \/ Agree(r)
                                  \/ Investigate(r) \/ Accept(r)
           \/ Drain
           \/ \E c : Import(c)
           \/ UNCHANGED vars
BY DEF Next, Serve

\* r writes movement m: once, as a correction or of its own, and an adjustment writes
\* the variance.
Moved(r, m) ==
    /\ Writing(r, m) /\ Mirrors(m)
    /\ pc[r] = "claimed" /\ pc' = [pc EXCEPT ![r] = "ended"]
    /\ UNCHANGED <<seen, before, folded>>
    /\ Kind(r) = "adjusted" => Into(Ask[r].cell, m) = Variance(r)
    /\ envelopes' = envelopes \cup {Ask[r].act}

\* record_adjustment writes one movement, of the variance.
LEMMA AdjustMoves ==
    ASSUME Shape, Unwritten, NEW r \in Requests, Record(r), Kind(r) = "adjusted"
    PROVE  \E m : Moved(r, m)
<1>1. Adjust(r)
  BY DEF Record
<1> DEFINE d == Variance(r)
           m == IF d > 0 THEN [n |-> d, from |-> Nowhere, to |-> Ask[r].cell, of |-> NoOne]
                         ELSE [n |-> -d, from |-> Ask[r].cell, to |-> Nowhere, of |-> NoOne]
<1>2. d \in Int /\ Ask[r].cell \in Cells /\ Ask[r].cell # Nowhere
  BY VarianceType, AskIs, Apart
<1>3. movement' = [movement EXCEPT ![r] = m] /\ End(r, "ok", r)
  BY <1>1 DEF Adjust, Writes
<1> HIDE DEF d
<1>4. m \in Movements /\ m # NoMove /\ m.of = NoOne /\ Into(Ask[r].cell, m) = d
  <2>1. CASE d > 0
    <3>1. m = [n |-> d, from |-> Nowhere, to |-> Ask[r].cell, of |-> NoOne]
      BY <2>1
    <3> HIDE DEF m
    <3>2. m \in Movements /\ m.of = NoOne /\ m.to = Ask[r].cell /\ m.from = Nowhere /\ m.n = d
      BY <1>2, <2>1, <3>1 DEF Movements, Places
    <3>3. Into(Ask[r].cell, m) = d
      BY <1>2, <3>2 DEF Into
    <3> QED BY <1>2, <3>2, <3>3, NoMoveIs
  <2>2. CASE ~(d > 0)
    <3>1. m = [n |-> -d, from |-> Ask[r].cell, to |-> Nowhere, of |-> NoOne]
      BY <2>2
    <3> HIDE DEF m
    <3>2. m \in Movements /\ m.of = NoOne /\ m.to = Nowhere /\ m.from = Ask[r].cell /\ m.n = -d
      BY <1>2, <2>2, <3>1 DEF Movements, Places
    <3>3. Into(Ask[r].cell, m) = d
      BY <1>2, <3>2 DEF Into
    <3> QED BY <1>2, <3>2, <3>3, NoMoveIs
  <2> QED BY <2>1, <2>2
<1> HIDE DEF m
<1>5. pc[r] = "claimed" /\ movement[r] = NoMove /\ outcome'[r] = "ok"
  BY <1>3 DEF Record, Unwritten, End, Shape
<1>6. envelopes' = envelopes \cup {Ask[r].act}
  BY <1>5 DEF Record
<1>7. UNCHANGED <<seen, before, folded>> /\ pc' = [pc EXCEPT ![r] = "ended"]
  BY <1>3 DEF Record, End
<1>8. Writing(r, m) /\ Mirrors(m)
  BY <1>3, <1>4, <1>5 DEF Writing, Mirrors
<1> QED BY <1>4, <1>5, <1>6, <1>7, <1>8 DEF Moved, d

\* record_correction writes one movement, the mirror of one that is there.
LEMMA CorrectMoves ==
    ASSUME Shape, Unwritten, Known, NEW r \in Requests, Record(r), Kind(r) = "corrected"
    PROVE  \E m : Moved(r, m)
<1>1. Correct(r) /\ pc[r] = "claimed"
  BY DEF Record
<1> DEFINE t == Ask[r].of
           m == [n |-> Ask[r].n, from |-> movement[t].to, to |-> movement[t].from, of |-> t]
<1>2. t \in Moves /\ t \in Requests /\ t # NoOne /\ movement[t] \in Movements
  BY <1>1, Apart DEF Known, Moves, Shape
<1>3. movement' = [movement EXCEPT ![r] = m] /\ End(r, "ok", r)
  BY <1>1 DEF Correct, Writes
<1>4. m \in Movements /\ m.of = t /\ m.from = movement[t].to /\ m.to = movement[t].from
  BY <1>2, AskIs DEF Movements
<1> HIDE DEF m, t
<1>5. m # NoMove /\ Mirrors(m)
  BY <1>2, <1>4, NoMoveIs DEF Mirrors
<1>6. movement[r] = NoMove /\ outcome'[r] = "ok"
  BY <1>1, <1>3 DEF Unwritten, End, Shape
<1>7. envelopes' = envelopes \cup {Ask[r].act}
  BY <1>6 DEF Record
<1>8. UNCHANGED <<seen, before, folded>> /\ pc' = [pc EXCEPT ![r] = "ended"]
  BY <1>3 DEF Record, End
<1>9. Writing(r, m)
  BY <1>3, <1>4, <1>5, <1>6 DEF Writing
<1> QED BY <1>1, <1>5, <1>7, <1>8, <1>9 DEF Moved

\* record_move writes one movement, that corrects none.
LEMMA MoveMoves ==
    ASSUME Shape, Unwritten, NEW r \in Requests, Record(r), Kind(r) = "moved"
    PROVE  \E m : Moved(r, m)
<1>1. Move(r) /\ pc[r] = "claimed"
  BY DEF Record
<1> DEFINE m == [n |-> Ask[r].n, from |-> Ask[r].cell, to |-> Ask[r].to, of |-> NoOne]
<1>3. movement' = [movement EXCEPT ![r] = m] /\ End(r, "ok", r)
  BY <1>1 DEF Move, Writes
<1>4. m \in Movements /\ m.of = NoOne /\ m.from # Nowhere
  BY AskIs, Apart DEF Movements, Places
<1> HIDE DEF m
<1>5. m # NoMove /\ Mirrors(m)
  BY <1>4, NoMoveIs DEF Mirrors
<1>6. movement[r] = NoMove /\ outcome'[r] = "ok"
  BY <1>1, <1>3 DEF Unwritten, End, Shape
<1>7. envelopes' = envelopes \cup {Ask[r].act}
  BY <1>6 DEF Record
<1>8. UNCHANGED <<seen, before, folded>> /\ pc' = [pc EXCEPT ![r] = "ended"]
  BY <1>3 DEF Record, End
<1>9. Writing(r, m)
  BY <1>3, <1>4, <1>5, <1>6 DEF Writing
<1> QED BY <1>1, <1>5, <1>7, <1>8, <1>9 DEF Moved

\* A movement is written whole, or none is.
LEMMA MoveStep ==
    ASSUME Shape, Unwritten, Known, [Next]_vars
    PROVE  movement' = movement \/ \E r, m : Moved(r, m)
<1>1. ASSUME NEW r \in Requests, Record(r)
      PROVE  movement' = movement \/ \E m : Moved(r, m)
  <2>1. CASE Kind(r) \in {"adjusted", "corrected", "moved"}
    BY <1>1, <2>1, AdjustMoves, CorrectMoves, MoveMoves
  <2>2. CASE Kind(r) \notin {"adjusted", "corrected", "moved"}
    <3>1. Count(r) \/ Flag(r) \/ CheckLine(r)
      BY <1>1, <2>2 DEF Record
    <3> QED BY <3>1 DEF Count, Flag, CheckLine
  <2> QED BY <2>1, <2>2
<1>2. ASSUME NEW r \in Requests,
             Check(r) \/ Claim(r) \/ Replay(r) \/ Agree(r) \/ Investigate(r) \/ Accept(r)
      PROVE  movement' = movement
  BY <1>2 DEF Check, Claim, Replay, Agree, Investigate, Accept, facts
<1>3. Drain \/ (\E c : Import(c)) \/ UNCHANGED vars => movement' = movement
  BY DEF Drain, Import, vars, facts
<1> QED BY <1>1, <1>2, <1>3, NextIs

\* r raises its finding; those it saw unresolved are not like it.
Raises(r) ==
    /\ r \in Requests /\ pc[r] = "claimed" /\ pc' = [pc EXCEPT ![r] = "ended"]
    /\ UNCHANGED <<seen, before>>
    /\ Kind(r) \in {"flagged", "checked"} => StillOpen(r) = {}
    /\ finding' = [finding EXCEPT ![r] = "open"] /\ resolving' = resolving

Resolves(f, m) ==
    /\ f \in Requests /\ finding[f] \in Unresolved /\ m \in Moves'
    /\ UNCHANGED <<seen, before>>
    /\ finding' = [finding EXCEPT ![f] = "resolved"]
    /\ resolving' = [resolving EXCEPT ![f] = m]

Puts(f, v) ==
    /\ f \in Requests /\ v \in {"investigating", "accepted"}
    /\ finding[f] \in Unresolved \/ (finding[f] = "accepted" /\ v = "accepted")
    /\ UNCHANGED <<seen, before, resolving>>
    /\ finding' = [finding EXCEPT ![f] = v]

Finds ==
    \/ UNCHANGED findings
    \/ \E r : Raises(r)
    \/ \E f, m : Resolves(f, m)
    \/ \E f, v : Puts(f, v)

LEMMA ClosesFinds ==
    ASSUME NEW f \in Requests \cup {NoOne}, NEW m \in Moves', Closes(f, m),
           UNCHANGED <<seen, before>>
    PROVE  Finds
<1>1. CASE f # NoOne /\ finding[f] \in Unresolved
  <2>1. Resolves(f, m)
    BY <1>1 DEF Closes, Resolves
  <2> QED BY <2>1 DEF Finds
<1>2. CASE ~(f # NoOne /\ finding[f] \in Unresolved)
  BY <1>2 DEF Closes, Finds
<1> QED BY <1>1, <1>2

LEMMA RaiseFinds ==
    ASSUME NEW r \in Requests, Record(r), Raise(r),
           Kind(r) \in {"flagged", "checked"} => StillOpen(r) = {},
           \E how, row : End(r, how, row)
    PROVE  Finds
<1>1. Raises(r)
  BY DEF Raises, Record, Raise, End
<1> QED BY <1>1 DEF Finds

\* A step raises one finding, settles one, puts one aside, or leaves them.
LEMMA FindStep ==
    ASSUME Shape, Unwritten, Known, [Next]_vars
    PROVE  Finds
<1>1. ASSUME NEW r \in Requests, Record(r), Kind(r) = "counted" PROVE Finds
  <2>1. Count(r)
    BY <1>1 DEF Record
  <2>2. CASE UNCHANGED findings
    BY <2>2 DEF Finds
  <2>3. CASE Raise(r)
    BY <1>1, <2>1, <2>3, RaiseFinds DEF Count
  <2> QED BY <2>1, <2>2, <2>3 DEF Count
<1>2. ASSUME NEW r \in Requests, Record(r), Kind(r) = "adjusted" PROVE Finds
  <2>1. PICK m : Moved(r, m)
    BY <1>2, AdjustMoves
  <2>2. r \in Moves' /\ UNCHANGED <<seen, before>>
    BY <2>1, WritingIs DEF Moved
  <2>3. \E f \in Requests \cup {NoOne} : Closes(f, r)
    <3>1. Adjust(r)
      BY <1>2 DEF Record
    <3> QED BY <3>1, AskIs DEF Adjust
  <2> QED BY <2>2, <2>3, ClosesFinds
<1>3. ASSUME NEW r \in Requests, Record(r), Kind(r) = "flagged" PROVE Finds
  <2>1. Flag(r)
    BY <1>3 DEF Record
  <2>2. CASE UNCHANGED findings
    BY <2>2 DEF Finds
  <2>3. CASE Raise(r) /\ StillOpen(r) = {} /\ End(r, "ok", r)
    BY <1>3, <2>3, RaiseFinds
  <2> QED BY <2>1, <2>2, <2>3 DEF Flag
<1>4. ASSUME NEW r \in Requests, Record(r), Kind(r) = "checked" PROVE Finds
  <2>1. CheckLine(r)
    BY <1>4 DEF Record
  <2>2. CASE UNCHANGED findings
    BY <2>2 DEF Finds
  <2>3. CASE Raise(r) /\ StillOpen(r) = {} /\ End(r, "ok", r)
    BY <1>4, <2>3, RaiseFinds
  <2> QED BY <2>1, <2>2, <2>3 DEF CheckLine
<1>5. ASSUME NEW r \in Requests, Record(r), Kind(r) \in {"corrected", "moved"} PROVE Finds
  BY <1>5 DEF Record, Correct, Move, Finds
<1>6. ASSUME NEW r \in Requests, Agree(r) PROVE Finds
  <2>1. Moves' = Moves /\ UNCHANGED <<seen, before>>
    BY <1>6 DEF Agree, Moves, facts
  <2>2. CASE UNCHANGED findings
    BY <2>2 DEF Finds
  <2>3. CASE MovesOf(Ask[r].act) # {}
             /\ Closes(Ask[r].of, CHOOSE p \in MovesOf(Ask[r].act) : TRUE)
    <3> DEFINE m == CHOOSE p \in MovesOf(Ask[r].act) : TRUE
    <3>1. m \in MovesOf(Ask[r].act)
      BY <2>3
    <3>2. m \in Moves'
      BY <2>1, <3>1 DEF MovesOf
    <3>3. Closes(Ask[r].of, m)
      BY <2>3
    <3> HIDE DEF m
    <3> QED BY <2>1, <3>2, <3>3, AskIs, ClosesFinds
  <2> QED BY <1>6, <2>2, <2>3 DEF Agree
<1>7. ASSUME NEW r \in Requests, Investigate(r) PROVE Finds
  <2>1. CASE finding[Ask[r].of] \in Unresolved
    <3>1. Ask[r].of \in Requests
      BY <1>7, AskIs DEF Investigate
    <3>2. Puts(Ask[r].of, "investigating")
      BY <1>7, <2>1, <3>1 DEF Investigate, Puts
    <3> QED BY <3>2 DEF Finds
  <2>2. CASE finding[Ask[r].of] \notin Unresolved
    BY <1>7, <2>2 DEF Investigate, Finds, findings
  <2> QED BY <2>1, <2>2
<1>8. ASSUME NEW r \in Requests, Accept(r) PROVE Finds
  <2>1. CASE finding[Ask[r].of] \in Unresolved \cup {"accepted"}
    <3>1. Ask[r].of \in Requests
      BY <1>8, AskIs DEF Accept
    <3>2. Puts(Ask[r].of, "accepted")
      BY <1>8, <2>1, <3>1 DEF Accept, Puts
    <3> QED BY <3>2 DEF Finds
  <2>2. CASE finding[Ask[r].of] \notin Unresolved \cup {"accepted"}
    BY <1>8, <2>2 DEF Accept, Finds, findings
  <2> QED BY <2>1, <2>2
<1>9. ASSUME NEW r \in Requests, Check(r) \/ Claim(r) \/ Replay(r) PROVE Finds
  BY <1>9 DEF Check, Claim, Replay, Finds
<1>10. Drain \/ (\E c : Import(c)) \/ UNCHANGED vars => Finds
  BY DEF Drain, Import, vars, Finds
<1>11. ASSUME NEW r \in Requests, Record(r) PROVE Finds
  <2>1. Kind(r) \in ActKinds
    BY <1>11 DEF Record, ActKinds
  <2> QED BY <1>1, <1>2, <1>3, <1>4, <1>5, <1>11, <2>1 DEF ActKinds
<1> QED BY <1>6, <1>7, <1>8, <1>9, <1>10, <1>11, NextIs

Looks(r) ==
    /\ r \in Requests /\ pc[r] \in {"new", "checked"} /\ Look(r)
    /\ UNCHANGED <<movement, findings, folded>>

\* A step reads for one request, before it writes anything, or for none.
LEMMA LookStep ==
    ASSUME [Next]_vars
    PROVE  UNCHANGED <<seen, before>> \/ \E r : Looks(r)
<1>1. ASSUME NEW r \in Requests, Check(r) PROVE Looks(r)
  BY <1>1 DEF Check, Looks, facts
<1>2. ASSUME NEW r \in Requests, Claim(r) PROVE UNCHANGED <<seen, before>> \/ Looks(r)
  BY <1>2 DEF Claim, Looks, facts
<1>3. ASSUME NEW r \in Requests,
             Record(r) \/ Replay(r) \/ Agree(r) \/ Investigate(r) \/ Accept(r)
      PROVE  UNCHANGED <<seen, before>>
  BY <1>3 DEF Record, Replay, Agree, Investigate, Accept
<1>4. Drain \/ (\E c : Import(c)) \/ UNCHANGED vars => UNCHANGED <<seen, before>>
  BY DEF Drain, Import, vars
<1> QED BY <1>1, <1>2, <1>3, <1>4, NextIs

\* Only a request that was let through comes past its check, and an end is the end.
Turns(r) ==
    /\ r \in Requests /\ pc[r] # "ended"
    /\ \/ pc' = [pc EXCEPT ![r] = "ended"]
       \/ pc' = [pc EXCEPT ![r] = "checked"] /\ pc[r] = "new" /\ ~Refused(r)
       \/ pc' = [pc EXCEPT ![r] = "claimed"] /\ pc[r] = "checked"

LEMMA TurnStep ==
    ASSUME [Next]_vars
    PROVE  pc' = pc \/ \E r : Turns(r)
<1>1. ASSUME NEW r \in Requests, Check(r) PROVE Turns(r)
  BY <1>1 DEF Check, Turns, End
<1>2. ASSUME NEW r \in Requests, Claim(r) PROVE Turns(r)
  BY <1>2 DEF Claim, Turns
<1>3. ASSUME NEW r \in Requests, Record(r) PROVE Turns(r)
  BY <1>3 DEF Record, Turns, End, Count, Adjust, Correct, Move, Flag, CheckLine
<1>4. ASSUME NEW r \in Requests, Replay(r) \/ Agree(r) PROVE Turns(r)
  BY <1>4 DEF Replay, Agree, TellOr, Turns, End
<1>5. ASSUME NEW r \in Requests, Investigate(r) \/ Accept(r) PROVE Turns(r)
  BY <1>5 DEF Investigate, Accept, Turns, End
<1>6. Drain \/ (\E c : Import(c)) \/ UNCHANGED vars => pc' = pc
  BY DEF Drain, Import, vars
<1> QED BY <1>1, <1>2, <1>3, <1>4, <1>5, <1>6, NextIs

\* No other request turns, and who is let through was not refused.
LEMMA TurnIs ==
    ASSUME Shape, NEW r, Turns(r)
    PROVE  /\ pc' \in [Requests -> {"new", "checked", "claimed", "ended"}]
           /\ \A q \in Requests : q # r => pc'[q] = pc[q]
           /\ pc'[r] \in {"checked", "claimed"} =>
                  pc[r] = "checked" \/ (pc[r] = "new" /\ ~Refused(r))
BY DEF Turns, Shape

LEMMA EndedStays ==
    ASSUME Shape, [Next]_vars, NEW q \in Requests, pc[q] = "ended"
    PROVE  pc'[q] = "ended"
<1>1. CASE pc' = pc
  BY <1>1
<1>2. ASSUME NEW r, Turns(r) PROVE pc'[q] = "ended"
  BY <1>2, TurnIs DEF Turns
<1> QED BY <1>1, <1>2, TurnStep

\* No movement is changed or taken away.
LEMMA MovesGrow ==
    ASSUME Shape, Unwritten, Known, [Next]_vars
    PROVE  /\ Moves \subseteq Moves' /\ IsFiniteSet(Moves)'
           /\ movement' \in [Requests -> Movements]
           /\ \A s \in Moves : movement'[s] = movement[s]
<1>1. CASE movement' = movement
  BY <1>1 DEF Shape, Moves
<1>2. ASSUME NEW r, NEW m, Moved(r, m)
      PROVE  /\ Moves \subseteq Moves' /\ IsFiniteSet(Moves)'
             /\ movement' \in [Requests -> Movements]
             /\ \A s \in Moves : movement'[s] = movement[s]
  <2>1. Writing(r, m)
    BY <1>2 DEF Moved
  <2> QED BY <2>1, WritingIs
<1> QED BY <1>1, <1>2, MoveStep

------------------------------------------------------------------------------
(* The steps keep the invariant *)

LEMMA NextUnwritten ==
    ASSUME Shape, Unwritten, Known, [Next]_vars
    PROVE  Unwritten'
<1> SUFFICES ASSUME NEW q \in Requests, pc'[q] # "ended"
             PROVE  movement'[q] = NoMove /\ finding'[q] = "none"
  BY DEF Unwritten, NoMove
<1>1. pc[q] # "ended" /\ movement[q] = NoMove /\ finding[q] = "none"
  BY EndedStays DEF Unwritten
<1>2. movement'[q] = NoMove
  <2>1. ASSUME NEW r, NEW m, Moved(r, m) PROVE movement'[q] = NoMove
    <3>1. q # r
      BY <2>1 DEF Moved, Writing, Shape
    <3> QED BY <1>1, <2>1, <3>1 DEF Moved, Writing, Shape
  <2> QED BY <1>1, <2>1, MoveStep
<1>3. finding'[q] = "none"
  <2>1. ASSUME NEW r, Raises(r) PROVE finding'[q] = "none"
    <3>1. q # r
      BY <2>1 DEF Raises, Shape
    <3> QED BY <1>1, <2>1, <3>1 DEF Raises, Shape
  <2>2. ASSUME NEW f, NEW m, Resolves(f, m) PROVE finding'[q] = "none"
    <3>1. q # f
      BY <1>1, <2>2 DEF Resolves, Unresolved
    <3> QED BY <1>1, <2>2, <3>1 DEF Resolves, Shape
  <2>3. ASSUME NEW f, NEW v, Puts(f, v) PROVE finding'[q] = "none"
    <3>1. q # f
      BY <1>1, <2>3 DEF Puts, Unresolved
    <3> QED BY <1>1, <2>3, <3>1 DEF Puts, Shape
  <2> QED BY <1>1, <2>1, <2>2, <2>3, FindStep DEF Finds, findings
<1> QED BY <1>2, <1>3

LEMMA NextKnown ==
    ASSUME Shape, Unwritten, Known, [Next]_vars
    PROVE  Known'
<1> SUFFICES ASSUME NEW q \in Requests, pc'[q] \in {"checked", "claimed"}, Kind(q) = "corrected"
             PROVE  Ask[q].of \in Moves'
  BY DEF Known, Kind
<1>1. Moves \subseteq Moves'
  BY MovesGrow
<1>2. CASE pc'[q] = pc[q]
  BY <1>1, <1>2 DEF Known
<1>3. CASE pc'[q] # pc[q]
  <2>1. Turns(q)
    BY <1>3, TurnStep, TurnIs
  <2>2. CASE pc[q] = "checked"
    BY <1>1, <2>2 DEF Known
  <2>3. CASE pc[q] = "new" /\ ~Refused(q)
    <3>1. ~CorrectionRefused(q)
      BY <2>3 DEF Refused
    <3>2. Ask[q].of \in Moves
      BY <3>1, AskIs DEF CorrectionRefused, Moves
    <3> QED BY <1>1, <3>2
  <2> QED BY <2>1, <2>2, <2>3, TurnIs
<1> QED BY <1>2, <1>3

LEMMA NextMirrored ==
    ASSUME Shape, Unwritten, Known, Mirrored, [Next]_vars
    PROVE  Mirrored'
<1> SUFFICES ASSUME NEW s \in Moves', movement'[s].of # NoOne
             PROVE  LET t == movement'[s].of IN
                    /\ t \in Moves'
                    /\ movement'[s].from = movement'[t].to /\ movement'[s].to = movement'[t].from
  BY DEF Mirrored, Mirrors
<1>1. Moves \subseteq Moves' /\ \A t \in Moves : movement'[t] = movement[t]
  BY MovesGrow
<1>2. CASE s \in Moves
  BY <1>1, <1>2 DEF Mirrored, Mirrors
<1>3. CASE s \notin Moves
  <2>1. PICK r, m : Moved(r, m)
    BY <1>3, MoveStep DEF Moves
  <2>2. Writing(r, m) /\ Mirrors(m)
    BY <2>1 DEF Moved
  <2>3. s = r /\ movement'[s] = m
    BY <1>3, <2>2, WritingIs
  <2> QED BY <1>1, <2>2, <2>3 DEF Mirrors
<1> QED BY <1>2, <1>3

\* A new correction ranks behind what it corrects; nothing corrects it yet.
LEMMA NextChained ==
    ASSUME Shape, Unwritten, Known, Mirrored, Chained, [Next]_vars
    PROVE  Chained'
<1>0. PICK K \in Nat : \E rank : Ranks(rank, K, Parents, Moves, Requests)
  BY DEF Chained
<1>1. PICK rank : Ranks(rank, K, Parents, Moves, Requests)
  BY <1>0
<1>2. CASE movement' = movement
  <2>1. Parents' = Parents /\ Moves' = Moves
    BY <1>2 DEF Parents, Moves
  <2> QED BY <1>1, <2>1 DEF Chained
<1>3. ASSUME NEW r, NEW m, Moved(r, m) PROVE Chained'
  <2>1. Writing(r, m) /\ Mirrors(m)
    BY <1>3 DEF Moved
  <2>2. /\ r \notin Moves /\ r \in Requests /\ Moves' = Moves \cup {r} /\ movement'[r] = m
        /\ \A s \in Moves : movement'[s] = movement[s]
    BY <2>1, WritingIs DEF Writing
  <2>3. Parents'[r] = m.of /\ \A s \in Moves : Parents'[s] = Parents[s]
    BY <2>2 DEF Parents, Moves
  <2>4. \A s \in Moves : Parents[s] # r
    <3>1. \A s \in Moves : Parents[s] = movement[s].of
      BY DEF Parents, Moves
    <3>2. \A s \in Moves : movement[s].of = NoOne \/ movement[s].of \in Moves
      BY DEF Mirrored, Mirrors
    <3> QED BY <2>2, <3>1, <3>2, Apart
  <2> DEFINE up == IF m.of = NoOne THEN 0 ELSE rank[m.of] + 1
             new == [s \in Requests |-> IF s = r THEN up ELSE rank[s]]
  <2>5. up \in 0..K + 1
    <3>1. CASE m.of = NoOne
      BY <3>1
    <3>2. CASE m.of # NoOne
      <4>1. m.of \in Requests
        BY <2>1, <3>2 DEF Mirrors, Moves
      <4>2. rank[m.of] \in 0..K
        BY <1>1, <4>1 DEF Ranks
      <4> QED BY <3>2, <4>2
    <3> QED BY <3>1, <3>2
  <2>6. new \in [Requests -> 0..K + 1]
    <3> HIDE DEF up
    <3> QED BY <1>1, <2>5 DEF Ranks
  <2>7. ASSUME NEW s \in Moves', Parents'[s] \in Requests PROVE new[Parents'[s]] < new[s]
    <3>1. CASE s = r
      <4>1. m.of \in Requests /\ m.of # NoOne /\ m.of \in Moves /\ m.of # r
        BY <2>1, <2>2, <2>3, <2>7, <3>1, Apart DEF Mirrors
      <4>2. new[m.of] = rank[m.of] /\ new[s] = rank[m.of] + 1 /\ rank[m.of] \in Int
        BY <1>1, <2>2, <3>1, <4>1 DEF Ranks
      <4> HIDE DEF new, up
      <4> QED BY <2>3, <3>1, <4>2
    <3>2. CASE s # r
      <4>1. s \in Moves /\ s \in Requests /\ Parents'[s] = Parents[s] /\ Parents[s] # r
        BY <2>2, <2>3, <2>4, <3>2 DEF Moves
      <4>2. rank[Parents[s]] < rank[s]
        BY <1>1, <2>7, <4>1 DEF Ranks
      <4> HIDE DEF up
      <4> QED BY <2>7, <3>2, <4>1, <4>2
    <3> QED BY <3>1, <3>2
  <2>8. Ranks(new, K + 1, Parents', Moves', Requests)
    <3> HIDE DEF new
    <3> QED BY <2>6, <2>7 DEF Ranks
  <2>9. K + 1 \in Nat
    OBVIOUS
  <2> HIDE DEF new
  <2> QED BY <2>8, <2>9 DEF Chained
<1> QED BY <1>2, <1>3, MoveStep

LEMMA NextFindingTypes ==
    ASSUME Shape, Unwritten, Known, [Next]_vars
    PROVE  finding' \in [Requests -> States] /\ resolving' \in [Requests -> Requests \cup {NoOne}]
<1>1. ASSUME NEW f, NEW m, Resolves(f, m)
      PROVE  finding' \in [Requests -> States] /\ resolving' \in [Requests -> Requests \cup {NoOne}]
  BY <1>1 DEF Resolves, Shape, States, Moves
<1>2. ASSUME NEW r, Raises(r)
      PROVE  finding' \in [Requests -> States] /\ resolving' \in [Requests -> Requests \cup {NoOne}]
  BY <1>2 DEF Raises, Shape, States, Unresolved
<1>3. ASSUME NEW f, NEW v, Puts(f, v)
      PROVE  finding' \in [Requests -> States] /\ resolving' \in [Requests -> Requests \cup {NoOne}]
  BY <1>3 DEF Puts, Shape, States, Unresolved
<1>4. UNCHANGED findings
      => finding' \in [Requests -> States] /\ resolving' \in [Requests -> Requests \cup {NoOne}]
  BY DEF findings, Shape
<1> QED BY <1>1, <1>2, <1>3, <1>4, FindStep DEF Finds

LEMMA NextSeenTypes ==
    ASSUME Shape, Unwritten, Known, [Next]_vars
    PROVE  /\ seen' \in [Requests -> [folded : SUBSET Requests, finding : [Requests -> States]]]
           /\ before' \in [Requests -> SUBSET Requests]
           /\ \A r \in Requests : seen'[r].folded \subseteq Moves'
<1>1. Moves \subseteq Moves'
  BY MovesGrow
<1>2. CASE UNCHANGED <<seen, before>>
  BY <1>1, <1>2 DEF Shape
<1>3. ASSUME NEW r, Looks(r)
      PROVE  /\ seen' \in [Requests -> [folded : SUBSET Requests, finding : [Requests -> States]]]
             /\ before' \in [Requests -> SUBSET Requests]
             /\ \A q \in Requests : seen'[q].folded \subseteq Moves'
  <2>1. r \in Requests /\ Look(r)
    BY <1>3 DEF Looks
  <2> DEFINE now == [folded |-> folded, finding |-> finding]
             E == {q \in Requests : pc[q] = "ended"}
  <2>2. now \in [folded : SUBSET Requests, finding : [Requests -> States]] /\ now.folded \subseteq Moves
    BY DEF Shape, Moves
  <2>3. seen' = [seen EXCEPT ![r] = now] /\ before' = [before EXCEPT ![r] = E] /\ E \in SUBSET Requests
    BY <2>1 DEF Look
  <2> HIDE DEF now, E
  <2>4. seen' \in [Requests -> [folded : SUBSET Requests, finding : [Requests -> States]]]
    BY <2>2, <2>3 DEF Shape
  <2>5. before' \in [Requests -> SUBSET Requests]
    BY <2>3 DEF Shape
  <2>6. \A q \in Requests : seen'[q].folded \subseteq Moves
    BY <2>1, <2>2, <2>3 DEF Shape
  <2> QED BY <1>1, <2>4, <2>5, <2>6
<1> QED BY <1>2, <1>3, LookStep

LEMMA NextFolded ==
    ASSUME Shape, Unwritten, Known, [Next]_vars
    PROVE  (folded \subseteq Moves)'
<1>1. Moves \subseteq Moves'
  BY MovesGrow
<1>2. folded' = folded \/ folded' = Moves
  <2>1. ASSUME NEW r \in Requests,
               Check(r) \/ Claim(r) \/ Record(r) \/ Replay(r) \/ Agree(r)
               \/ Investigate(r) \/ Accept(r)
        PROVE  folded' = folded
    BY <2>1 DEF Check, Claim, Record, Replay, Agree, Investigate, Accept
  <2>2. Drain \/ (\E c : Import(c)) \/ UNCHANGED vars => folded' = folded \/ folded' = Moves
    BY DEF Drain, Import, vars
  <2> QED BY <2>1, <2>2, NextIs
<1> QED BY <1>1, <1>2 DEF Shape

\* What a step does to the envelopes and the answers.
Lets(r) ==
    \E how \in {"ok", "refused"} : \E row :
       End(r, how, row)

Enters(r) ==
    /\ pc[r] = "checked" /\ Kind(r) \in ActKinds
    /\ Ask[r].act \notin envelopes /\ holder[Ask[r].act] = NoOne
    /\ holder' = [holder EXCEPT ![Ask[r].act] = r]
    /\ pc' = [pc EXCEPT ![r] = "claimed"]
    /\ UNCHANGED <<envelopes, answers, movement>>

\* A step claims an envelope, lets a request through, or ends one.
LEMMA AnswerStep ==
    ASSUME [Next]_vars
    PROVE  \/ UNCHANGED <<pc, holder, answers, envelopes, movement>>
           \/ \E r \in Requests : Enters(r)
           \/ \E r \in Requests : pc[r] = "new" /\ pc' = [pc EXCEPT ![r] = "checked"]
                                  /\ UNCHANGED <<holder, answers, envelopes, movement>>
           \/ \E r \in Requests : Lets(r) /\ pc[r] = "claimed" /\ Record(r)
           \/ \E r \in Requests : Lets(r) /\ pc[r] # "ended" /\ UNCHANGED <<envelopes, movement>>
<1>1. ASSUME NEW r \in Requests, Check(r)
      PROVE  \/ Lets(r) /\ pc[r] # "ended" /\ UNCHANGED <<envelopes, movement>>
             \/ pc[r] = "new" /\ pc' = [pc EXCEPT ![r] = "checked"]
                /\ UNCHANGED <<holder, answers, envelopes, movement>>
  BY <1>1 DEF Check, Lets, facts
<1>2. ASSUME NEW r \in Requests, Claim(r) PROVE Enters(r)
  BY <1>2 DEF Claim, Enters, facts
<1>3. ASSUME NEW r \in Requests, Record(r) PROVE Lets(r) /\ pc[r] = "claimed"
  BY <1>3 DEF Record, Lets, Count, Adjust, Correct, Move, Flag, CheckLine
<1>4. ASSUME NEW r \in Requests, Replay(r) \/ Agree(r)
      PROVE  Lets(r) /\ pc[r] # "ended" /\ UNCHANGED <<envelopes, movement>>
  <2>1. UNCHANGED <<envelopes, movement>> /\ pc[r] = "checked"
    BY <1>4 DEF Replay, Agree, facts
  <2>2. Lets(r)
    BY <1>4 DEF Replay, Agree, TellOr, Lets
  <2> QED BY <2>1, <2>2
<1>5. ASSUME NEW r \in Requests, Investigate(r) \/ Accept(r)
      PROVE  Lets(r) /\ pc[r] # "ended" /\ UNCHANGED <<envelopes, movement>>
  BY <1>5 DEF Investigate, Accept, Lets, facts
<1>6. Drain \/ (\E c : Import(c)) \/ UNCHANGED vars
      => UNCHANGED <<pc, holder, answers, envelopes, movement>>
  BY DEF Drain, Import, vars, facts
<1> QED BY <1>1, <1>2, <1>3, <1>4, <1>5, <1>6, NextIs

\* A request that ends lets go of what it holds and of nothing else.
LEMMA LetsIs ==
    ASSUME Shape, NEW r \in Requests, Lets(r)
    PROVE  /\ outcome' \in [Requests -> {"none", "ok", "refused"}]
           /\ holder' \in [Acts -> Requests \cup {NoOne}]
           /\ pc' = [pc EXCEPT ![r] = "ended"] /\ outcome'[r] # "none"
           /\ \A q \in Requests : q # r => outcome'[q] = outcome[q]
           /\ \A a \in Acts : holder'[a] = IF holder[a] = r THEN NoOne ELSE holder[a]
<1>0. PICK how \in {"ok", "refused"} : \E row : End(r, how, row)
  BY DEF Lets
<1>1. PICK row : End(r, how, row)
  BY <1>0
<1>2. /\ outcome' = [outcome EXCEPT ![r] = how] /\ pc' = [pc EXCEPT ![r] = "ended"]
      /\ holder' = [a \in Acts |-> IF holder[a] = r THEN NoOne ELSE holder[a]]
  BY <1>1 DEF End
<1> QED BY <1>2 DEF Shape

LEMMA NextAnswerTypes ==
    ASSUME Shape, [Next]_vars
    PROVE  /\ outcome' \in [Requests -> {"none", "ok", "refused"}]
           /\ holder' \in [Acts -> Requests \cup {NoOne}]
           /\ pc' \in [Requests -> {"new", "checked", "claimed", "ended"}]
<1>0. pc' \in [Requests -> {"new", "checked", "claimed", "ended"}]
  BY TurnStep, TurnIs DEF Shape
<1>1. ASSUME NEW r \in Requests, Enters(r)
      PROVE  /\ outcome' \in [Requests -> {"none", "ok", "refused"}]
             /\ holder' \in [Acts -> Requests \cup {NoOne}]
  BY <1>1 DEF Enters, Shape, answers
<1>2. ASSUME NEW r \in Requests, Lets(r)
      PROVE  /\ outcome' \in [Requests -> {"none", "ok", "refused"}]
             /\ holder' \in [Acts -> Requests \cup {NoOne}]
  BY <1>2, LetsIs
<1>3. UNCHANGED <<holder, answers>>
      => /\ outcome' \in [Requests -> {"none", "ok", "refused"}]
         /\ holder' \in [Acts -> Requests \cup {NoOne}]
  BY DEF Shape, answers
<1> QED BY <1>0, <1>1, <1>2, <1>3, AnswerStep

LEMMA NextShape ==
    ASSUME Shape, Unwritten, Known, [Next]_vars
    PROVE  Shape'
BY NextAnswerTypes, NextFindingTypes, NextSeenTypes, NextFolded, MovesGrow DEF Shape

LEMMA NextSumInv == SumInv /\ [Next]_vars => SumInv'
BY NextShape, NextUnwritten, NextKnown, NextMirrored, NextChained DEF SumInv

LEMMA InitSumInv == Init => SumInv
<1> SUFFICES ASSUME Init PROVE SumInv
  OBVIOUS
<1>1. Moves = {}
  BY DEF Init, Moves
<1>2. Shape
  <2>1. IsFiniteSet(Moves)
    BY <1>1, FS_EmptySet
  <2>2. movement \in [Requests -> Movements]
    BY NoMoveIs DEF Init
  <2>3. seen \in [Requests -> [folded : SUBSET Requests, finding : [Requests -> States]]]
    BY DEF Init, States
  <2> QED BY <2>1, <2>2, <2>3 DEF Init, Shape, States
<1>3. Unwritten /\ Known /\ Mirrored
  BY <1>1 DEF Init, Unwritten, Known, Mirrored
<1>4. Chained
  <2>1. Ranks([r \in Requests |-> 0], 0, Parents, Moves, Requests)
    BY <1>1 DEF Ranks
  <2> QED BY <2>1 DEF Chained
<1> QED BY <1>2, <1>3, <1>4 DEF SumInv

LEMMA SumHolds == Spec => []SumInv
BY InitSumInv, NextSumInv, PTL DEF Spec

------------------------------------------------------------------------------
(* What corrections come to *)

\* -1, 0 or 1: what one unit of movement m does to cell c.
Sign(c, m) == (IF m.to = c THEN 1 ELSE 0) - (IF m.from = c THEN 1 ELSE 0)

\* What a movement does to a cell is its units, one way, the other, or not at all.
LEMMA IntoIs ==
    ASSUME NEW c, NEW m, m.n \in Int
    PROVE  Sign(c, m) \in {-1, 0, 1} /\ Into(c, m) = Sign(c, m) * m.n
<1> DEFINE n == m.n
<1>1. CASE m.to = c /\ m.from = c
  BY <1>1 DEF Sign, Into
<1>2. CASE m.to = c /\ m.from # c
  BY <1>2 DEF Sign, Into
<1>3. CASE m.to # c /\ m.from = c
  BY <1>3 DEF Sign, Into
<1>4. CASE m.to # c /\ m.from # c
  BY <1>4 DEF Sign, Into
<1> QED BY <1>1, <1>2, <1>3, <1>4

\* Every movement has its effective quantity: what is left of it.
LEMMA EffectiveIs ==
    ASSUME SumInv
    PROVE  /\ Effective \in [Requests -> Int]
           /\ \A r \in Requests :
                 Effective[r] = movement[r].n - Total(Effective, Below(Parents, Moves, {r}))
<1> DEFINE n == [r \in Requests |-> movement[r].n]
           Is(f) == f = [r \in Requests |-> movement[r].n - Total(f, Corrections(r))]
<1>1. \A r \in Requests : Corrections(r) = Below(Parents, Moves, {r})
  BY DEF Corrections, Below, Parents, Moves
<1>2. PICK K, rank : K \in Nat /\ Ranks(rank, K, Parents, Moves, Requests)
  BY DEF SumInv, Chained
<1>3. IsFiniteSet(Moves) /\ Moves \subseteq Requests /\ Weighs(n, Requests)
  BY DEF SumInv, Shape, Moves, Movements, Weighs
<1> HIDE DEF n
<1>4. PICK f : f \in [Requests -> Int] /\ Left(f, n, Parents, Moves, Requests)
  BY <1>2, <1>3, LeftExists
<1>5. \A g : Left(g, n, Parents, Moves, Requests)
             <=> \A r \in Requests : g[r] = movement[r].n - Total(g, Corrections(r))
  BY <1>1 DEF Left, n
<1>6. Is(f)
  <2>1. \A r \in Requests : f[r] = movement[r].n - Total(f, Corrections(r))
    BY <1>4, <1>5
  <2> QED BY <1>4, <2>1
<1>7. Effective = CHOOSE g : Is(g)
  BY DEF Effective
<1>8. Is(Effective)
  <2> HIDE DEF Is
  <2> QED BY <1>6, <1>7
<1>9. \A r \in Requests : Effective[r] = movement[r].n - Total(Effective, Corrections(r))
  BY <1>8
<1>10. Left(Effective, n, Parents, Moves, Requests)
  BY <1>5, <1>9
<1>11. \A r \in Requests : Effective[r] = f[r]
  BY <1>2, <1>3, <1>4, <1>10, LeftIsOne
<1>12. Effective = [r \in Requests |-> f[r]]
  <2>1. Effective = [r \in Requests |-> movement[r].n - Total(Effective, Corrections(r))]
    BY <1>8
  <2> QED BY <1>9, <1>11, <2>1
<1>13. Effective \in [Requests -> Int]
  BY <1>4, <1>12
<1> QED BY <1>1, <1>9, <1>13

\* The effective movement of s, at cell c.
Effect(c, s) == Into(c, [movement[s] EXCEPT !.n = Effective[s]])

\* The same of its effective quantity.
LEMMA EffectIs ==
    ASSUME SumInv, NEW c, NEW s \in Moves
    PROVE  /\ Sign(c, movement[s]) \in {-1, 0, 1} /\ Effective[s] \in Int
           /\ Effect(c, s) = Sign(c, movement[s]) * Effective[s]
           /\ movement[s].n \in Int
           /\ Into(c, movement[s]) = Sign(c, movement[s]) * movement[s].n
<1>1. s \in Requests /\ movement[s] \in Movements /\ movement[s].n \in Int
  BY DEF SumInv, Shape, Moves, Movements
<1>2. Effective[s] \in Int
  BY <1>1, EffectiveIs
<1> DEFINE m == [movement[s] EXCEPT !.n = Effective[s]]
<1>3. m.n = Effective[s] /\ m.from = movement[s].from /\ m.to = movement[s].to
  BY <1>1 DEF Movements
<1> HIDE DEF m
<1>4. Sign(c, m) = Sign(c, movement[s])
  BY <1>3 DEF Sign
<1>5. Into(c, m) = Sign(c, m) * m.n
  BY <1>2, <1>3, IntoIs
<1>6. Sign(c, movement[s]) \in {-1, 0, 1} /\ Into(c, movement[s]) = Sign(c, movement[s]) * movement[s].n
  BY <1>1, IntoIs
<1>7. Effect(c, s) = Into(c, m)
  BY DEF Effect, m
<1> QED BY <1>1, <1>2, <1>3, <1>4, <1>5, <1>6, <1>7

\* A correction takes back from what it corrects.
LEMMA EffectsNet ==
    ASSUME SumInv, NEW c
    PROVE  Nets([s \in Moves |-> Into(c, movement[s])], [s \in Moves |-> Effect(c, s)], Parents, Moves)
<1> DEFINE w == [s \in Moves |-> Into(c, movement[s])]
           e == [s \in Moves |-> Effect(c, s)]
<1> SUFFICES ASSUME NEW m \in Moves PROVE w[m] = e[m] - Total(e, Below(Parents, Moves, {m}))
  BY DEF Nets
<1> DEFINE B == Below(Parents, Moves, {m})
           k == Sign(c, movement[m])
           n == movement[m].n
           x == Effective[m]
           t == Total(Effective, B)
<1>1. k \in {-1, 0, 1} /\ x \in Int /\ n \in Int /\ e[m] = k * x /\ w[m] = k * n
  BY EffectIs
<1>2. m \in Requests /\ x = n - t
  BY EffectiveIs DEF Moves
<1>3. B \subseteq Moves /\ IsFiniteSet(B)
  <2>1. B \subseteq Moves
    BY DEF Below
  <2> QED BY <2>1, FS_Subset DEF SumInv, Shape
<1>4. ASSUME NEW s \in B PROVE Sign(c, movement[s]) = -k
  <2>1. movement[s].of = m /\ s \in Moves
    BY DEF Below, Parents, Moves
  <2>2. movement[s].from = movement[m].to /\ movement[s].to = movement[m].from
    BY <1>2, <2>1, Apart DEF SumInv, Mirrored, Mirrors
  <2> QED BY <2>2 DEF Sign
<1>5. Weighs(Effective, B)
  BY <1>3, EffectIs DEF Weighs
<1>6. t \in Int
  BY <1>3, <1>5, TotalType
<1>7. -k \in {-1, 0, 1}
  BY <1>1
<1>8. Times(e, -k, Effective, B)
  <2> SUFFICES ASSUME NEW s \in B
               PROVE  e[s] = CASE -k = 0 -> 0 [] -k = 1 -> Effective[s] [] -k = -1 -> -Effective[s]
    BY DEF Times
  <2>1. e[s] = Effect(c, s)
    BY <1>3
  <2> DEFINE j == -k
             y == Effective[s]
  <2>2. e[s] = j * y /\ y \in Int
    BY <1>3, <1>4, <2>1, EffectIs
  <2>3. j \in {-1, 0, 1}
    BY <1>7
  <2> HIDE DEF e, j, y
  <2>4. e[s] = CASE j = 0 -> 0 [] j = 1 -> y [] j = -1 -> -y
    BY <2>2, <2>3
  <2> QED BY <2>4 DEF j, y
<1>9. Total(e, B) = (-k) * t
  BY <1>3, <1>5, <1>7, <1>8, TotalTimes
<1> HIDE DEF B, k, n, x, t, e, w
<1>10. w[m] = e[m] - Total(e, B)
  <2>1. CASE k = -1
    BY <1>1, <1>2, <1>6, <1>9, <2>1
  <2>2. CASE k = 0
    BY <1>1, <1>2, <1>6, <1>9, <2>2
  <2>3. CASE k = 1
    BY <1>1, <1>2, <1>6, <1>9, <2>3
  <2> QED BY <1>1, <2>1, <2>2, <2>3
<1> QED BY <1>10 DEF B

\* Two readers of the ledger agree, whatever corrects what: the balance of a cell is what
\* the movements that correct none moved, each at its effective quantity.
THEOREM CorrectionsNetHolds == Spec => []CorrectionsNet
<1>1. ASSUME SumInv, NEW c \in Cells
      PROVE  Balance(c, Moves) =
                 Total([r \in Corrections(NoOne) |-> Effect(c, r)], Corrections(NoOne))
  <2> DEFINE w == [s \in Moves |-> Into(c, movement[s])]
             e == [s \in Moves |-> Effect(c, s)]
             R == Corrections(NoOne)
             v == [r \in R |-> Effect(c, r)]
  <2>1. Nets(w, e, Parents, Moves)
    BY <1>1, EffectsNet
  <2>2. IsFiniteSet(Moves)
    BY <1>1 DEF SumInv, Shape
  <2>3. Weighs(e, Moves)
    <3> SUFFICES ASSUME NEW s \in Moves PROVE Effect(c, s) \in Int
      BY DEF Weighs
    <3>1. /\ Sign(c, movement[s]) \in {-1, 0, 1} /\ Effective[s] \in Int
          /\ Effect(c, s) = Sign(c, movement[s]) * Effective[s]
      BY <1>1, EffectIs
    <3> QED BY <3>1
  <2>4. {m \in Moves : Parents[m] \notin Moves} = R
    <3>1. \A m \in Moves : Parents[m] = movement[m].of
      BY DEF Parents, Moves
    <3>2. \A m \in Moves : movement[m].of = NoOne \/ movement[m].of \in Moves
      BY <1>1 DEF SumInv, Mirrored, Mirrors
    <3>3. NoOne \notin Moves
      BY Apart DEF Moves
    <3> QED BY <3>1, <3>2, <3>3 DEF Corrections
  <2>5. R \subseteq Moves /\ \A r \in R : v[r] = e[r]
    BY DEF Corrections
  <2>6. IsFiniteSet(R) /\ Weighs(e, R)
    BY <2>2, <2>3, <2>5, FS_Subset DEF Weighs
  <2> HIDE DEF w, e, R, v
  <2>7. Total(w, Moves) = Total(e, R)
    BY <2>1, <2>2, <2>3, <2>4, Netting
  <2>8. Total(v, R) = Total(e, R)
    BY <2>5, <2>6, TotalSame
  <2> QED BY <2>7, <2>8 DEF Balance, w, v, R
<1>2. SumInv => CorrectionsNet
  BY <1>1 DEF CorrectionsNet, Effect
<1> QED BY <1>2, SumHolds, PTL

------------------------------------------------------------------------------
(* What an adjustment leaves *)

AdjustedStep ==
    \A r \in Requests :
        LET c == Ask[r].cell IN
        Kind(r) = "adjusted" /\ r \in Moves' \ Moves
        /\ {m \in Moves : Into(c, movement[m]) # 0} \subseteq seen[r].folded
        => (Balance(c, Moves))' = Ask[r].n

\* The balance after an adjustment is the one it read, and its variance.
LEMMA NextAdjusted ==
    ASSUME SumInv, [Next]_vars
    PROVE  AdjustedStep
<1> SUFFICES ASSUME NEW r \in Requests, Kind(r) = "adjusted", r \in Moves' \ Moves,
                    {m \in Moves : Into(Ask[r].cell, movement[m]) # 0} \subseteq seen[r].folded
             PROVE  (Balance(Ask[r].cell, Moves))' = Ask[r].n
  BY DEF AdjustedStep
<1> USE DEF SumInv
<1>1. PICK q, m : Moved(q, m)
  BY MoveStep DEF Moves
<1>2. Writing(q, m)
  BY <1>1 DEF Moved
<1>3. /\ Moves' = Moves \cup {q} /\ q \notin Moves /\ IsFiniteSet(Moves)'
      /\ movement'[q] = m /\ \A s \in Moves : movement'[s] = movement[s]
  BY <1>2, WritingIs
<1>4. q = r
  BY <1>3
<1> DEFINE c == Ask[r].cell
           F == seen[r].folded
           w == [s \in Moves |-> Into(c, movement[s])]
           v == [s \in F |-> Into(c, movement[s])]
           u == [s \in Moves' |-> Into(c, movement'[s])]
<1>5. Into(c, m) = Variance(r)
  BY <1>1, <1>4 DEF Moved
<1>6. F \in SUBSET Moves
  BY DEF Shape
<1>7. Weighs(w, Moves) /\ Total(w, Moves) \in Int /\ IsFiniteSet(Moves)
  <2>1. Moves \in SUBSET Moves
    OBVIOUS
  <2> QED BY <2>1, BalanceType DEF Balance
<1>8. IsFiniteSet(F) /\ Total(v, F) \in Int /\ Weighs(w, F)
  BY <1>6, <1>7, BalanceType DEF Balance, Weighs
<1>9. Total(v, F) = Total(w, Moves)
  <2>1. \A s \in F : v[s] = w[s]
    BY <1>6
  <2>2. \A s \in Moves \ F : w[s] = 0
    OBVIOUS
  <2> HIDE DEF v, w, F
  <2>3. Total(v, F) = Total(w, F)
    BY <1>8, <2>1, TotalSame
  <2>4. Total(w, Moves) = Total(w, F)
    BY <1>6, <1>7, <2>2, TotalOfPart
  <2> QED BY <2>3, <2>4
<1>10. Variance(r) = Ask[r].n - Total(v, F) /\ Variance(r) \in Int /\ Ask[r].n \in Int
  BY VarianceType, AskIs DEF Variance, System, Balance
<1>11. Total(u, Moves') = u[r] + Total(u, Moves' \ {r})
  <2>1. \A s \in Moves : u[s] = w[s]
    BY <1>3
  <2>2. u[r] \in Int
    BY <1>3, <1>4, <1>5, <1>10
  <2>3. Weighs(u, Moves')
    BY <1>3, <1>4, <1>7, <2>1, <2>2 DEF Weighs
  <2> HIDE DEF u
  <2> QED BY <1>3, <1>4, <2>3, TotalAdds
<1>12. Moves' \ {r} = Moves
  BY <1>3, <1>4
<1>13. Total(u, Moves) = Total(w, Moves)
  <2>1. \A s \in Moves : u[s] = w[s]
    BY <1>3
  <2> HIDE DEF u, w
  <2> QED BY <1>7, <2>1, TotalSame
<1>14. u[r] = Variance(r)
  BY <1>3, <1>4, <1>5
<1>15. (Balance(c, Moves))' = Total(u, Moves')
  BY DEF Balance
<1> HIDE DEF u, v, w, F, c
<1>16. Total(u, Moves') = Variance(r) + Total(w, Moves)
  BY <1>11, <1>12, <1>13, <1>14
<1> DEFINE a == Total(w, Moves)
           b == Variance(r)
<1>17. Total(u, Moves') = b + a /\ b = Ask[r].n - a /\ a \in Int /\ b \in Int
  BY <1>7, <1>9, <1>10, <1>16
<1> HIDE DEF a, b
<1>18. Total(u, Moves') = Ask[r].n
  BY <1>10, <1>17
<1> QED BY <1>15, <1>18 DEF c

\* An adjustment leaves in the ledger what was counted, unless a movement of its cell was
\* not folded yet when it read the cell.
THEOREM AdjustedToTheCountHolds == Spec => AdjustedToTheCount
<1>1. SumInv /\ [Next]_vars => [AdjustedStep]_vars
  BY NextAdjusted
<1> QED BY <1>1, SumHolds, PTL DEF Spec, AdjustedToTheCount, AdjustedStep

------------------------------------------------------------------------------
(* Findings *)

LEMMA NextResolved ==
    ASSUME SumInv, Resolved, [Next]_vars
    PROVE  Resolved'
<1> USE DEF SumInv
<1> SUFFICES ASSUME NEW q \in Requests, finding'[q] = "resolved" PROVE resolving'[q] \in Moves'
  BY DEF Resolved
<1>1. Moves \subseteq Moves'
  BY MovesGrow
<1>2. CASE UNCHANGED findings
  BY <1>1, <1>2 DEF Resolved, findings
<1>3. ASSUME NEW r, Raises(r) PROVE resolving'[q] \in Moves'
  <2>1. finding[q] = "resolved"
    BY <1>3 DEF Raises, Shape
  <2> QED BY <1>1, <1>3, <2>1 DEF Raises, Resolved
<1>4. ASSUME NEW f, NEW m, Resolves(f, m) PROVE resolving'[q] \in Moves'
  <2>1. CASE q = f
    BY <1>4, <2>1 DEF Resolves, Shape
  <2>2. CASE q # f
    <3>1. finding[q] = "resolved" /\ resolving'[q] = resolving[q]
      BY <1>4, <2>2 DEF Resolves, Shape
    <3> QED BY <1>1, <3>1 DEF Resolved
  <2> QED BY <2>1, <2>2
<1>5. ASSUME NEW f, NEW v, Puts(f, v) PROVE resolving'[q] \in Moves'
  <2>1. finding[q] = "resolved"
    BY <1>5 DEF Puts, Shape
  <2> QED BY <1>1, <1>5, <2>1 DEF Puts, Resolved
<1> QED BY <1>2, <1>3, <1>4, <1>5, FindStep DEF Finds

\* What is not unresolved of a request that ended does not become so again.
LEMMA StaysClosed ==
    ASSUME SumInv, [Next]_vars, NEW q \in Requests, pc[q] = "ended", finding[q] \notin Unresolved
    PROVE  finding'[q] \notin Unresolved
<1> USE DEF SumInv
<1>1. ASSUME NEW r, Raises(r) PROVE finding'[q] \notin Unresolved
  <2>1. q # r
    BY <1>1 DEF Raises
  <2> QED BY <1>1, <2>1 DEF Raises, Shape
<1>2. ASSUME NEW f, NEW m, Resolves(f, m) PROVE finding'[q] \notin Unresolved
  BY <1>2 DEF Resolves, Shape, Unresolved
<1>3. ASSUME NEW f, NEW v, Puts(f, v) PROVE finding'[q] \notin Unresolved
  BY <1>3 DEF Puts, Shape, Unresolved
<1> QED BY <1>1, <1>2, <1>3, FindStep DEF Finds, findings

LEMMA NextSawEnded ==
    ASSUME SumInv, SawEnded, [Next]_vars
    PROVE  SawEnded'
<1> SUFFICES ASSUME NEW r \in Requests, NEW q \in before'[r]
             PROVE  /\ pc'[q] = "ended"
                    /\ seen'[r].finding[q] \notin Unresolved => finding'[q] \notin Unresolved
  BY DEF SawEnded, Unresolved
<1>1. CASE before'[r] = before[r] /\ seen'[r] = seen[r]
  <2>1. q \in Requests /\ pc[q] = "ended"
        /\ (seen[r].finding[q] \notin Unresolved => finding[q] \notin Unresolved)
    BY <1>1 DEF SawEnded, SumInv, Shape
  <2>2. pc'[q] = "ended"
    BY <2>1, EndedStays DEF SumInv
  <2>3. finding[q] \notin Unresolved => finding'[q] \notin Unresolved
    BY <2>1, StaysClosed
  <2> QED BY <1>1, <2>1, <2>2, <2>3
<1>2. CASE ~(before'[r] = before[r] /\ seen'[r] = seen[r])
  <2>1. PICK p : Looks(p)
    BY <1>2, LookStep
  <2>2. p = r
    BY <1>2, <2>1 DEF Looks, Look, SumInv, Shape
  <2>3. before'[r] = {s \in Requests : pc[s] = "ended"}
    BY <2>1, <2>2 DEF Looks, Look, SumInv, Shape
  <2>4. seen'[r] = [folded |-> folded, finding |-> finding]
    BY <2>1, <2>2 DEF Looks, Look, SumInv, Shape
  <2>5. seen'[r].finding = finding /\ finding' = finding
    BY <2>1, <2>4 DEF Looks, findings
  <2>6. pc'[q] = "ended"
    BY <2>3, EndedStays DEF SumInv
  <2> QED BY <2>5, <2>6
<1> QED BY <1>1, <1>2

OpenLines == {f \in Requests : finding[f] \in Unresolved /\ Kind(f) \in {"flagged", "checked"}}

\* Who raises a finding saw none like it open, or what it did not see had not ended.
LEMMA NextOneOpen ==
    ASSUME SumInv, SawEnded, OneOpenFinding, [Next]_vars
    PROVE  OneOpenFinding'
<1> USE DEF SumInv
<1>0. OneOpenFinding' <=>
        \A p, q \in OpenLines' : p # q /\ q \in Alike(p) => p \notin before'[q] /\ q \notin before'[p]
  BY DEF OneOpenFinding, OpenLines, Alike, Kind
<1> SUFFICES ASSUME NEW p \in OpenLines', NEW q \in OpenLines', p # q, q \in Alike(p)
             PROVE  p \notin before'[q] /\ q \notin before'[p]
  BY <1>0
<1>1. /\ p \in Requests /\ finding'[p] \in Unresolved /\ Kind(p) \in {"flagged", "checked"}
      /\ q \in Requests /\ finding'[q] \in Unresolved /\ Kind(q) \in {"flagged", "checked"}
  BY DEF OpenLines, Kind, Unresolved
<1>2. p \in Alike(q)
  BY <1>1 DEF Alike
<1>3. CASE p \in OpenLines /\ q \in OpenLines
  <2>1. p \notin before[q] /\ q \notin before[p]
    BY <1>3 DEF OneOpenFinding, OpenLines
  <2>2. before'[p] = before[p] /\ before'[q] = before[q]
    <3>1. ASSUME NEW r, Looks(r) PROVE before'[p] = before[p] /\ before'[q] = before[q]
      <4>1. finding[r] = "none"
        BY <3>1 DEF Looks, Unwritten
      <4>2. r # p /\ r # q
        BY <1>3, <4>1 DEF OpenLines, Unresolved
      <4> QED BY <1>1, <3>1, <4>2 DEF Looks, Look, Shape
    <3> QED BY <3>1, LookStep
  <2> QED BY <2>1, <2>2
<1>4. \A s \in Requests : finding'[s] \in Unresolved /\ finding[s] \notin Unresolved => Raises(s)
  <2> SUFFICES ASSUME NEW s \in Requests, finding'[s] \in Unresolved, finding[s] \notin Unresolved
               PROVE  Raises(s)
    OBVIOUS
  <2>1. ASSUME NEW r, Raises(r) PROVE Raises(s)
    <3>1. r = s
      BY <2>1 DEF Raises, Shape
    <3> QED BY <2>1, <3>1
  <2>2. ASSUME NEW f, NEW m, Resolves(f, m) PROVE FALSE
    BY <2>2 DEF Resolves, Shape, Unresolved
  <2>3. ASSUME NEW f, NEW v, Puts(f, v) PROVE FALSE
    BY <2>3 DEF Puts, Shape, Unresolved
  <2> QED BY <2>1, <2>2, <2>3, FindStep DEF Finds, findings
\* r raises its finding: nothing like it that it knew of is open.
<1>5. ASSUME NEW r \in {p, q}, NEW s \in {p, q}, r # s, Raises(r)
      PROVE  r \notin before'[s] /\ s \notin before'[r]
  <2>1. pc[r] = "claimed" /\ before' = before /\ StillOpen(r) = {} /\ s \in Alike(r)
    BY <1>1, <1>2, <1>5 DEF Raises
  <2>2. r \notin before[s]
    BY <1>1, <1>5, <2>1 DEF SawEnded
  <2>3. seen[r].finding[s] \notin Unresolved
    BY <2>1 DEF StillOpen
  <2>4. finding[s] \in Unresolved
    <3>1. finding'[s] = finding[s]
      BY <1>1, <1>5 DEF Raises, Shape
    <3> QED BY <1>1, <1>5, <3>1
  <2>5. s \notin before[r]
    BY <1>1, <1>5, <2>3, <2>4 DEF SawEnded
  <2> QED BY <2>1, <2>2, <2>5
<1>6. CASE p \notin OpenLines
  <2>1. Raises(p)
    BY <1>1, <1>4, <1>6 DEF OpenLines
  <2> QED BY <1>5, <2>1
<1>7. CASE q \notin OpenLines
  <2>1. Raises(q)
    BY <1>1, <1>4, <1>7 DEF OpenLines
  <2> QED BY <1>5, <2>1
<1> QED BY <1>3, <1>6, <1>7

LEMMA FindingHolds == Spec => []FindingInv
<1>1. Init => FindingInv
  <2> SUFFICES ASSUME Init PROVE FindingInv
    OBVIOUS
  <2>1. Resolved /\ SawEnded
    BY DEF Init, Resolved, SawEnded
  <2>2. OneOpenFinding
    BY DEF Init, OneOpenFinding, Unresolved
  <2> QED BY <2>1, <2>2, InitSumInv DEF FindingInv
<1>2. FindingInv /\ [Next]_vars => FindingInv'
  BY NextSumInv, NextResolved, NextSawEnded, NextOneOpen DEF FindingInv
<1> QED BY <1>1, <1>2, PTL DEF Spec

SettledStep ==
    /\ OneOpenFinding'
    /\ \A f \in Requests : finding[f] \in {"resolved", "accepted"} =>
          /\ finding'[f] = finding[f]
          /\ resolving'[f] = resolving[f]
          /\ finding[f] = "resolved" => resolving[f] \in Moves'

LEMMA NextSettled ==
    ASSUME FindingInv, [Next]_vars
    PROVE  SettledStep
<1> USE DEF FindingInv, SumInv
<1>1. OneOpenFinding'
  BY NextOneOpen
<1>2. Moves \subseteq Moves'
  BY MovesGrow
<1> SUFFICES ASSUME NEW q \in Requests, finding[q] \in {"resolved", "accepted"}
             PROVE  finding'[q] = finding[q] /\ resolving'[q] = resolving[q]
  BY <1>1, <1>2 DEF SettledStep, Resolved
<1>3. ASSUME NEW r, Raises(r) PROVE finding'[q] = finding[q] /\ resolving'[q] = resolving[q]
  <2>1. finding[r] = "none"
    BY <1>3 DEF Raises, Unwritten
  <2> QED BY <1>3, <2>1 DEF Raises, Shape
<1>4. ASSUME NEW f, NEW m, Resolves(f, m)
      PROVE  finding'[q] = finding[q] /\ resolving'[q] = resolving[q]
  <2>1. q # f
    BY <1>4 DEF Resolves, Unresolved
  <2> QED BY <1>4, <2>1 DEF Resolves, Shape
<1>5. ASSUME NEW f, NEW v, Puts(f, v)
      PROVE  finding'[q] = finding[q] /\ resolving'[q] = resolving[q]
  BY <1>5 DEF Puts, Shape, Unresolved
<1> QED BY <1>3, <1>4, <1>5, FindStep DEF Finds, findings

\* A finding is settled once, whatever investigations, acceptances, adjustments and copies
\* of them race: it stays with the movement that resolved it, and until then it is the
\* one open finding of what it says.
THEOREM SettledOnceHolds == Spec => SettledOnce
<1>1. FindingInv /\ [Next]_vars => [SettledStep]_vars
  BY NextSettled
<1> QED BY <1>1, FindingHolds, PTL DEF Spec, SettledOnce, SettledStep

------------------------------------------------------------------------------
(* Copies of an adjustment *)

Unanswered == \A r \in Requests : pc[r] # "ended" => outcome[r] = "none"

Telling == told = [r \in Requests |-> told[r]]

EnvelopeInv == SumInv /\ Enveloped /\ Unanswered /\ Telling

LEMMA NextUnanswered ==
    ASSUME SumInv, Unanswered, [Next]_vars
    PROVE  Unanswered'
<1> USE DEF SumInv
<1> SUFFICES ASSUME NEW q \in Requests, pc'[q] # "ended" PROVE outcome'[q] = "none"
  BY DEF Unanswered
<1>1. outcome[q] = "none"
  BY EndedStays DEF Unanswered
<1>2. ASSUME NEW r \in Requests, Lets(r) PROVE outcome'[q] = "none"
  <2>1. q # r
    BY <1>2, LetsIs DEF Shape
  <2> QED BY <1>1, <1>2, <2>1, LetsIs
<1>3. ASSUME NEW r \in Requests, Enters(r) PROVE outcome'[q] = "none"
  BY <1>1, <1>3 DEF Enters, answers
<1>4. UNCHANGED answers => outcome'[q] = "none"
  BY <1>1 DEF answers
<1> QED BY <1>2, <1>3, <1>4, AnswerStep

LEMMA NextEnveloped ==
    ASSUME SumInv, Enveloped, [Next]_vars
    PROVE  Enveloped'
<1> USE DEF SumInv
<1> DEFINE Held    == \A r \in Requests : pc'[r] = "claimed" =>
                          holder'[Ask[r].act] = r /\ Kind(r) \in ActKinds
           Free    == \A a \in Acts : holder'[a] \in Requests => a \notin envelopes'
           Covered == \A s \in Moves' : Ask[s].act \in envelopes'
<1>0. SUFFICES Held /\ Free /\ Covered
  BY DEF Enveloped, Kind
<1>1. CASE UNCHANGED <<pc, holder, answers, envelopes, movement>>
  BY <1>1 DEF Enveloped, Moves
<1>2. ASSUME NEW r \in Requests, Enters(r) PROVE Held /\ Free /\ Covered
  <2>1. Moves' = Moves /\ envelopes' = envelopes
    BY <1>2 DEF Enters, Moves
  <2>2. /\ holder'[Ask[r].act] = r
        /\ \A a \in Acts : a # Ask[r].act => holder'[a] = holder[a]
    BY <1>2, AskIs DEF Enters, Shape
  <2>3. ASSUME NEW q \in Requests, pc'[q] = "claimed"
        PROVE  holder'[Ask[q].act] = q /\ Kind(q) \in ActKinds
    <3>1. CASE q = r
      BY <1>2, <2>2, <3>1 DEF Enters
    <3>2. CASE q # r
      <4>1. pc[q] = "claimed"
        BY <1>2, <2>3, <3>2 DEF Enters, Shape
      <4>2. holder[Ask[q].act] = q /\ Kind(q) \in ActKinds
        BY <4>1 DEF Enveloped
      <4>3. Ask[q].act # Ask[r].act /\ Ask[q].act \in Acts
        BY <1>2, <4>2, AskIs, Apart DEF Enters
      <4> QED BY <2>2, <4>2, <4>3
    <3> QED BY <3>1, <3>2
  <2>4. Free
    BY <1>2, <2>1, <2>2 DEF Enveloped, Enters
  <2> QED BY <2>1, <2>3, <2>4 DEF Enveloped
<1>3. ASSUME NEW r \in Requests, pc[r] = "new", pc' = [pc EXCEPT ![r] = "checked"],
             UNCHANGED <<holder, answers, envelopes, movement>>
      PROVE  Held /\ Free /\ Covered
  <2>1. \A q \in Requests : pc'[q] = "claimed" => pc[q] = "claimed"
    BY <1>3 DEF Shape
  <2> QED BY <1>3, <2>1 DEF Enveloped, Moves
\* A request that ends lets go of no act but its own.
<1>4. ASSUME NEW r \in Requests, Lets(r) PROVE Held
  <2> SUFFICES ASSUME NEW q \in Requests, pc'[q] = "claimed"
               PROVE  holder'[Ask[q].act] = q /\ Kind(q) \in ActKinds
    OBVIOUS
  <2>1. q # r /\ pc[q] = "claimed"
    BY <1>4, LetsIs DEF Shape
  <2>2. holder[Ask[q].act] = q /\ Kind(q) \in ActKinds /\ Ask[q].act \in Acts
    BY <2>1, AskIs DEF Enveloped
  <2> QED BY <1>4, <2>1, <2>2, LetsIs
<1>5. ASSUME NEW r \in Requests, Lets(r), pc[r] # "ended", UNCHANGED <<envelopes, movement>>
      PROVE  Free /\ Covered
  <2>1. \A a \in Acts : holder'[a] \in Requests => holder'[a] = holder[a]
    BY <1>5, LetsIs, Apart
  <2> QED BY <1>5, <2>1 DEF Enveloped, Moves
<1>6. ASSUME NEW r \in Requests, Lets(r), pc[r] = "claimed", Record(r)
      PROVE  Free /\ Covered
  <2>1. envelopes' \subseteq envelopes \cup {Ask[r].act} /\ envelopes \subseteq envelopes'
    BY <1>6 DEF Record
  <2>2. holder'[Ask[r].act] = NoOne /\ \A a \in Acts : holder'[a] \in Requests => holder'[a] = holder[a]
    BY <1>6, LetsIs, Apart, AskIs DEF Enveloped
  <2>3. Free
    BY <2>1, <2>2, Apart DEF Enveloped
  <2>4. Covered
    <3>1. CASE movement' = movement
      BY <2>1, <3>1 DEF Enveloped, Moves
    <3>2. ASSUME NEW q, NEW m, Moved(q, m) PROVE Covered
      <4>1. Writing(q, m)
        BY <3>2 DEF Moved
      <4>2. Moves' = Moves \cup {q}
        BY <4>1, WritingIs
      <4> QED BY <2>1, <3>2, <4>2 DEF Moved, Enveloped
    <3> QED BY <3>1, <3>2, MoveStep
  <2> QED BY <2>3, <2>4
<1> QED BY <1>1, <1>2, <1>3, <1>4, <1>5, <1>6, AnswerStep

LEMMA NextTelling ==
    ASSUME SumInv, Telling, [Next]_vars
    PROVE  Telling'
<1>1. ASSUME NEW r \in Requests, Lets(r) PROVE Telling'
  <2>0. PICK how \in {"ok", "refused"} : \E row : End(r, how, row)
    BY <1>1 DEF Lets
  <2>1. PICK row : End(r, how, row)
    BY <2>0
  <2>2. told' = [told EXCEPT ![r] = row]
    BY <2>1 DEF End
  <2> QED BY <2>2 DEF Telling
<1>2. ASSUME NEW r \in Requests, Enters(r) PROVE Telling'
  BY <1>2 DEF Enters, answers, Telling
<1>3. UNCHANGED answers => Telling'
  BY DEF answers, Telling
<1> QED BY <1>1, <1>2, <1>3, AnswerStep

LEMMA EnvelopeHolds == Spec => []EnvelopeInv
<1>1. Init => EnvelopeInv
  <2> SUFFICES ASSUME Init PROVE EnvelopeInv
    OBVIOUS
  <2>1. Enveloped /\ Unanswered /\ Telling
    BY Apart DEF Init, Enveloped, Unanswered, Telling, Moves
  <2> QED BY <2>1, InitSumInv DEF EnvelopeInv
<1>2. EnvelopeInv /\ [Next]_vars => EnvelopeInv'
  BY NextSumInv, NextUnanswered, NextEnveloped, NextTelling DEF EnvelopeInv
<1> QED BY <1>1, <1>2, PTL DEF Spec

RetryStep ==
    \A r \in Requests :
        Kind(r) = "adjusted" /\ outcome[r] = "none" /\ outcome'[r] = "ok"
        /\ MovesOf(Ask[r].act) # {}
        => told'[r] \in MovesOf(Ask[r].act)

LEMMA EndTells ==
    ASSUME Shape, Telling, NEW r \in Requests, NEW how, NEW row, End(r, how, row)
    PROVE  told'[r] = row /\ outcome'[r] = how /\ \A q \in Requests : q # r => outcome'[q] = outcome[q]
BY DEF End, Shape, Telling

\* Who answers r.
Answers(r) ==
    Check(r) \/ Record(r) \/ Replay(r) \/ Agree(r) \/ Investigate(r) \/ Accept(r)

\* A request is answered by its own statements.
LEMMA AnswersOwn ==
    ASSUME Shape, [Next]_vars, NEW r \in Requests, outcome'[r] # outcome[r]
    PROVE  Answers(r)
<1>1. ASSUME NEW q \in Requests, q # r, Lets(q) PROVE FALSE
  BY <1>1, LetsIs
<1>2. ASSUME NEW q \in Requests, Answers(q) PROVE Lets(q) \/ UNCHANGED answers
  <2>1. Check(q) => Lets(q) \/ UNCHANGED answers
    BY DEF Check, Lets
  <2>2. Record(q) => Lets(q)
    BY DEF Record, Lets, Count, Adjust, Correct, Move, Flag, CheckLine
  <2>3. Replay(q) \/ Agree(q) => Lets(q)
    BY DEF Replay, Agree, TellOr, Lets
  <2>4. Investigate(q) \/ Accept(q) => Lets(q)
    BY DEF Investigate, Accept, Lets
  <2> QED BY <1>2, <2>1, <2>2, <2>3, <2>4 DEF Answers
<1>3. ~UNCHANGED answers
  BY DEF answers
<1>4. ~(\E q \in Requests : Claim(q)) /\ ~Drain /\ ~(\E c : Import(c)) /\ ~UNCHANGED vars
  BY <1>3 DEF Claim, Drain, Import, vars
<1>5. PICK q \in Requests : Answers(q)
  BY <1>4, NextIs DEF Answers
<1> QED BY <1>1, <1>2, <1>3, <1>5

LEMMA TellOrTells ==
    ASSUME Shape, Telling, NEW r \in Requests, NEW S, S # {}, NEW else, TellOr(r, S, else)
    PROVE  told'[r] \in S
<1> DEFINE p == CHOOSE q \in S : TRUE
<1>1. p \in S /\ End(r, "ok", p)
  BY DEF TellOr
<1> HIDE DEF p
<1> QED BY <1>1, EndTells

LEMMA NextRetry ==
    ASSUME EnvelopeInv, [Next]_vars
    PROVE  RetryStep
<1> USE DEF EnvelopeInv, SumInv
<1> SUFFICES ASSUME NEW r \in Requests, Kind(r) = "adjusted", outcome[r] = "none",
                    outcome'[r] = "ok", MovesOf(Ask[r].act) # {}
             PROVE  told'[r] \in MovesOf(Ask[r].act)
  BY DEF RetryStep
<1>1. Answers(r)
  BY AnswersOwn
<1>2. CASE Replay(r)
  <2>1. TellOr(r, MovesOf(Ask[r].act), "ok")
    BY <1>2 DEF Replay
  <2> QED BY <2>1, TellOrTells
<1>3. CASE Agree(r)
  <2>1. TellOr(r, MovesOf(Ask[r].act), "ok")
    BY <1>3 DEF Agree
  <2> QED BY <2>1, TellOrTells
<1>4. CASE Record(r)
  <2>1. holder[Ask[r].act] = r /\ Ask[r].act \in Acts
    BY <1>4, AskIs DEF Record, Enveloped
  <2>2. Ask[r].act \notin envelopes
    BY <2>1 DEF Enveloped
  <2>3. PICK s \in Moves : Ask[s].act = Ask[r].act
    BY DEF MovesOf
  <2> QED BY <2>2, <2>3 DEF Enveloped
<1>5. CASE Check(r)
  <2>1. CASE Refused(r)
    <3>1. End(r, "refused", NoOne)
      BY <1>5, <2>1 DEF Check
    <3> QED BY <3>1, EndTells
  <2>2. CASE ~Refused(r)
    BY <1>5, <2>2 DEF Check, answers
  <2> QED BY <2>1, <2>2
<1>6. CASE Investigate(r) \/ Accept(r)
  BY <1>6 DEF Investigate, Accept
<1> QED BY <1>1, <1>2, <1>3, <1>4, <1>5, <1>6 DEF Answers

\* A copy of an adjustment whose movement is in the ledger is told that movement, also
\* when the movement is what made the variance zero, unless it is refused.
THEOREM AdjustmentRetryIsTold == Spec => AdjustmentRetryTold
<1>1. EnvelopeInv /\ [Next]_vars => [RetryStep]_vars
  BY NextRetry
<1> QED BY <1>1, EnvelopeHolds, PTL DEF Spec, AdjustmentRetryTold, RetryStep
==============================================================================
