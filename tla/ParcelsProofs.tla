----------------------------- MODULE ParcelsProofs -----------------------------
(***************************************************************************)
(* For any packages, requests and clocks: a parcel that is made is planned   *)
(* no more, because whoever counts the made ones holds the order that making *)
(* one waits for (PlanInv); and packages nest without a loop, no more than    *)
(* three deep, when no two containments overlapped.  The chains are then those *)
(* that every one of them read, but for parcels taken out since, which only    *)
(* makes chains shorter (NestInv).                                          *)
(***************************************************************************)
EXTENDS Parcels, FiniteSetTheorems, WellFoundedInduction, TLAPS

USE ParcelsAssumption
USE DEF ParcelsAssumption, MostLevels

Steps == {"new", "checked", "claimed", "locked", "counted", "booking", "ended"}

------------------------------------------------------------------------------
(* The order's lock *)

\* Who counts the parcels that are made holds the order, and nothing it counted is made.
PlanInv ==
    /\ pc \in [Requests -> Steps]
    /\ DOMAIN plan \subseteq OfOrder
    /\ \A r \in Requests : pc[r] \in {"locked", "counted"} => lock = r /\ Kind(r) = "planned"
    /\ \A r \in Requests : pc[r] = "counted" => DOMAIN Ask[r].plan \cap packages = {}
    /\ MadeIsNotPlanned

\* What is made leaves the plan.
LEMMA UsedUpIs ==
    ASSUME NEW p PROVE DOMAIN UsedUp(plan, p) \subseteq DOMAIN plan \ {p}
BY DEF UsedUp, Without, Restrict

\* Who ends lets go of its own lock.
LEMMA EndsLock ==
    ASSUME PlanInv, NEW r \in Requests, NEW how, End(r, how),
           DOMAIN plan' \subseteq OfOrder, DOMAIN plan' \cap packages' = {},
           \A q \in Requests \ {r} : pc[q] = "counted" => DOMAIN Ask[q].plan \cap packages' = {}
    PROVE  PlanInv'
BY DEF PlanInv, End, Kind, MadeIsNotPlanned, Steps

LEMMA PlanKept == PlanInv /\ [Next]_vars => PlanInv'
<1> SUFFICES ASSUME PlanInv, [Next]_vars PROVE PlanInv'
  OBVIOUS
<1>1. CASE UNCHANGED vars
  BY <1>1 DEF vars, acts, PlanInv, MadeIsNotPlanned
<1>2. ASSUME NEW r \in Requests, Check(r) PROVE PlanInv'
  <2>1. CASE \E how : End(r, how)
    BY <1>2, <2>1, EndsLock DEF Check, PlanInv, MadeIsNotPlanned
  <2>2. CASE ~\E how : End(r, how)
    BY <1>2, <2>2 DEF Check, PlanInv, MadeIsNotPlanned, Steps
  <2> QED BY <2>1, <2>2
<1>3. ASSUME NEW r \in Requests, Claim(r) PROVE PlanInv'
  BY <1>3 DEF Claim, PlanInv, MadeIsNotPlanned, Steps
<1>4. ASSUME NEW r \in Requests, Replay(r) PROVE PlanInv'
  BY <1>4, EndsLock DEF Replay, PlanInv, MadeIsNotPlanned
<1>5. ASSUME NEW r \in Requests, Record(r) PROVE PlanInv'
  <2>1. CASE Put(r)
    BY <1>5, <2>1, EndsLock DEF Record, Put, PlanInv, MadeIsNotPlanned
  <2>2. CASE Make(r) /\ Ask[r].pkg \in packages
    BY <1>5, <2>2, EndsLock DEF Record, Make, PlanInv, MadeIsNotPlanned
  <2>3. CASE Make(r) /\ Ask[r].pkg \notin packages
    <3> DEFINE p == Ask[r].pkg
    <3>1. /\ p \in OfOrder => lock = NoOne
          /\ packages' = packages \cup {p} /\ plan' = UsedUp(plan, p) /\ End(r, "ok")
      BY <2>3 DEF Make
    <3>2. DOMAIN plan' \subseteq DOMAIN plan \ {p}
      BY <3>1, UsedUpIs
    <3>3. \A q \in Requests : pc[q] = "counted" => p \notin OfOrder
      BY <3>1 DEF PlanInv
    <3> HIDE DEF p
    <3>4. DOMAIN plan' \subseteq OfOrder /\ DOMAIN plan' \cap packages' = {}
      BY <3>1, <3>2 DEF PlanInv, MadeIsNotPlanned
    <3>5. \A q \in Requests \ {r} : pc[q] = "counted" => DOMAIN Ask[q].plan \cap packages' = {}
      BY <3>1, <3>3 DEF PlanInv
    <3> QED BY <3>1, <3>4, <3>5, EndsLock
  <2> QED BY <1>5, <2>1, <2>2, <2>3 DEF Record
<1>6. ASSUME NEW r \in Requests, Lock(r) PROVE PlanInv'
  BY <1>6 DEF Lock, PlanInv, MadeIsNotPlanned, Steps
<1>7. ASSUME NEW r \in Requests, Count(r) PROVE PlanInv'
  <2>1. CASE DOMAIN Ask[r].plan \cap packages # {}
    BY <1>7, <2>1, EndsLock DEF Count, PlanInv, MadeIsNotPlanned
  <2>2. CASE DOMAIN Ask[r].plan \cap packages = {}
    BY <1>7, <2>2 DEF Count, PlanInv, MadeIsNotPlanned, Steps
  <2> QED BY <2>1, <2>2
<1>8. ASSUME NEW r \in Requests, Save(r) PROVE PlanInv'
  <2>1. packages' = packages /\ \E how : End(r, how)
    BY <1>8 DEF Save
  <2>2. plan' = plan \/ plan' = Ask[r].plan
    BY <1>8 DEF Save
  <2>3. DOMAIN plan' \subseteq OfOrder /\ DOMAIN plan' \cap packages' = {}
    BY <1>8, <2>1, <2>2 DEF Save, PlanInv, MadeIsNotPlanned
  <2> QED BY <2>1, <2>3, EndsLock DEF PlanInv
<1>9. ASSUME NEW r \in Requests, Load(r) PROVE PlanInv'
  <2>1. CASE \E how : End(r, how)
    BY <1>9, <2>1, EndsLock DEF Load, PlanInv, MadeIsNotPlanned
  <2>2. CASE ~\E how : End(r, how)
    BY <1>9, <2>2 DEF Load, PlanInv, MadeIsNotPlanned
  <2> QED BY <2>1, <2>2
<1>10. ASSUME NEW r \in Requests, Deadlocked(r) \/ Book(r) PROVE PlanInv'
  BY <1>10, EndsLock DEF Deadlocked, Book, PlanInv, MadeIsNotPlanned
<1>11. CASE CloseOrder
  BY <1>11 DEF CloseOrder, acts, PlanInv, MadeIsNotPlanned
<1>12. CASE DropClosed
  <2>1. DOMAIN plan' = {}
    BY <1>12 DEF DropClosed
  <2> QED BY <1>12, <2>1 DEF DropClosed, acts, PlanInv, MadeIsNotPlanned
<1> QED BY <1>1, <1>2, <1>3, <1>4, <1>5, <1>6, <1>7, <1>8, <1>9, <1>10, <1>11, <1>12
        DEF Next, Serve

LEMMA PlanStarts == Init => PlanInv
<1> SUFFICES ASSUME Init PROVE PlanInv
  OBVIOUS
<1>1. DOMAIN plan = {}
  BY DEF Init
<1> QED BY <1>1 DEF Init, PlanInv, MadeIsNotPlanned, Steps

\* save_plan and create_package: a parcel that has been made is not planned again, however
\* the two race, because one counts under the lock that the other's foreign key waits for.
THEOREM MadeStaysOutOfThePlan == Spec => []MadeIsNotPlanned
<1>1. PlanInv => MadeIsNotPlanned
  BY DEF PlanInv
<1> QED BY <1>1, PlanStarts, PlanKept, PTL DEF Spec

------------------------------------------------------------------------------
(* Chains *)

\* What everything is in or on; nothing is in or on nothing.
Ups == [q \in Packages \cup {NoOne} |-> IF q = NoOne THEN NoOne ELSE Parent(q)]

Chains == {U \in [Packages \cup {NoOne} -> Packages \cup {NoOne}] : U[NoOne] = NoOne}

\* No chain is longer than a carton, a pallet and a wrap.
Shallow(U) == \A x \in Packages : U[U[U[x]]] = NoOne

\* p may go on q: q is not on two others, nor on p, and what is below and above make three.
Fits(U, p, q) ==
    /\ p # q /\ U[q] # p /\ U[U[q]] = NoOne
    /\ \A x \in Packages : U[U[x]] # p
    /\ U[q] # NoOne => \A x \in Packages : U[x] # p

\* One that fits makes no chain too long, and taking some out makes them shorter.
LEMMA Grown ==
    ASSUME NEW U \in Chains, NEW V \in Chains, NEW p \in Packages, NEW q \in Packages \cup {NoOne},
           Shallow(U), Fits(U, p, q),
           V[p] \in {U[p], q}, \A x \in Packages \ {p} : V[x] = U[x]
    PROVE  Shallow(V)
<1>1. CASE V[p] = U[p]
  <2>1. V = U
    BY <1>1 DEF Chains
  <2> QED BY <2>1
<1>2. CASE V[p] = q
  <2> SUFFICES ASSUME NEW x \in Packages PROVE V[V[V[x]]] = NoOne
    BY DEF Shallow
  <2>1. CASE x = p
    BY <1>2, <2>1 DEF Chains, Fits
  <2>2. CASE x # p /\ U[x] = p
    BY <1>2, <2>2 DEF Chains, Fits
  <2>3. CASE x # p /\ U[x] # p
    <3>1. V[V[x]] = U[U[x]] /\ U[U[x]] # p
      BY <2>3 DEF Chains, Fits
    <3>2. V[U[U[x]]] = U[U[U[x]]]
      BY <3>1 DEF Chains
    <3> QED BY <3>1, <3>2 DEF Shallow
  <2> QED BY <2>1, <2>2, <2>3
<1> QED BY <1>1, <1>2

LEMMA Pruned ==
    ASSUME NEW U \in Chains, NEW V \in Chains,
           \A x \in Packages : V[x] \in {U[x], NoOne}
    PROVE  /\ Shallow(U) => Shallow(V)
           /\ \A p \in Packages : \A q \in Packages \cup {NoOne} : Fits(U, p, q) => Fits(V, p, q)
BY DEF Chains, Shallow, Fits

------------------------------------------------------------------------------
(* What a walk finds *)

\* The least of some numbers.
LEMMA LeastIs ==
    ASSUME NEW S \in SUBSET Nat, S # {} PROVE \E n \in S : \A m \in S : n <= m
<1>1. IsWellFoundedOn(OpToRel(<, Nat), Nat)
  BY NatLessThanWellFounded
<1>2. PICK n \in S : \A m \in S : <<m, n>> \notin OpToRel(<, Nat)
  BY <1>1, WFMin
<1>3. \A m \in S : ~(m < n)
  BY <1>2 DEF OpToRel
<1> QED BY <1>3

\* So many are the numbers up to one.
LEMMA UpTo ==
    ASSUME NEW k \in Nat PROVE IsFiniteSet(1..k) /\ Cardinality(1..k) = k
<1>1. 1 \in Int /\ k \in Int
  OBVIOUS
<1>2. /\ IsFiniteSet(1..k)
      /\ Cardinality(1..k) = IF 1 > k THEN 0 ELSE k - 1 + 1
  BY ONLY <1>1, FS_Interval
<1> QED BY <1>2

\* The greatest of some up to a bound.
LEMMA MaxIs ==
    ASSUME NEW N \in Nat, NEW S \in SUBSET (1..N), S # {}
    PROVE  Max(S) \in S /\ \A n \in S : n <= Max(S)
<1> DEFINE Less == {N - n : n \in S}
           Is(x) == x \in S /\ \A n \in S : x >= n
<1>1. Less \in SUBSET Nat /\ Less # {}
  OBVIOUS
<1>2. PICK m \in Less : \A n \in Less : m <= n
  BY <1>1, LeastIs
<1>3. PICK x \in S : m = N - x
  OBVIOUS
<1>4. \A n \in S : N - n \in Less
  OBVIOUS
<1> HIDE DEF Less
<1>5. \A n \in S : m <= N - n
  BY <1>2, <1>4
<1>6. Is(x)
  BY <1>3, <1>5
<1>7. Max(S) = CHOOSE y \in S : \A n \in S : y >= n
  BY DEF Max
<1>8. Is(Max(S))
  BY <1>6, <1>7
<1> QED BY <1>8

\* A walk is there, and goes up.
LEMMA WalkIs ==
    ASSUME Ups \in Chains, NEW p \in Packages
    PROVE  /\ Walk(p) \in [1..Longest -> Packages \cup {NoOne}]
           /\ Walk(p)[1] = p
           /\ \A n \in 2..Longest : Walk(p)[n] = Ups[Walk(p)[n - 1]]
<1> DEFINE S == Packages \cup {NoOne}
           Goes(w, N) == /\ w \in [1..N -> S] /\ w[1] = p
                         /\ \A n \in 2..N : w[n] = Ups[w[n - 1]]
           None == {N \in 1..Longest : ~\E w : Goes(w, N)}
           Is(w) == w = [n \in 1..Longest |-> IF n = 1 THEN p ELSE Ups[w[n - 1]]]
<1>1. None = {}
  <2> SUFFICES ASSUME None # {} PROVE FALSE
    OBVIOUS
  <2>2. None \in SUBSET Nat /\ None # {}
    OBVIOUS
  <2>3. PICK N \in None : \A m \in None : N <= m
    BY <2>2, LeastIs
  <2>5. N \in 1..Longest
    OBVIOUS
  <2>6. N # 1
    <3>1. Goes([n \in 1..1 |-> p], 1)
      OBVIOUS
    <3> HIDE DEF Goes
    <3> QED BY <3>1
  <2>7. N - 1 \in 1..Longest /\ N - 1 \notin None
    BY ONLY <2>3, <2>5, <2>6, ParcelsAssumption
  <2>8. PICK w : Goes(w, N - 1)
    BY <2>7
  <2>9. Goes([n \in 1..N |-> IF n = N THEN Ups[w[N - 1]] ELSE w[n]], N)
    BY <2>5, <2>6, <2>8 DEF Chains
  <2> HIDE DEF Goes
  <2> QED BY <2>3, <2>9
<1>2. Longest \in 1..Longest
  OBVIOUS
<1>3. PICK w : Goes(w, Longest)
  BY <1>1, <1>2
<1>4. Is(w)
  BY <1>3
<1>5. Walk(p) = CHOOSE x : Is(x)
  BY DEF Walk, Ups
<1> HIDE DEF Is
<1>6. Is(Walk(p))
  BY <1>4, <1>5
<1> USE DEF Is
<1>7. /\ DOMAIN Walk(p) = 1..Longest
      /\ \A n \in 1..Longest : Walk(p)[n] = IF n = 1 THEN p ELSE Ups[Walk(p)[n - 1]]
  BY <1>6
<1> QED
  <2> DEFINE v == Walk(p)
             Out == {n \in 1..Longest : v[n] \notin S}
  <2> HIDE DEF v
  <2>1. DOMAIN v = 1..Longest /\ \A n \in 1..Longest : v[n] = IF n = 1 THEN p ELSE Ups[v[n - 1]]
    BY <1>7 DEF v
  <2>2. v = [n \in 1..Longest |-> v[n]]
    BY <1>6 DEF v
  <2>3. Out = {}
    <3> SUFFICES ASSUME Out # {} PROVE FALSE
      OBVIOUS
    <3>2. Out \in SUBSET Nat
      OBVIOUS
    <3>3. PICK n \in Out : \A m \in Out : n <= m
      BY <3>2, LeastIs
    <3>5. n # 1
      BY <2>1
    <3>6. n - 1 \in 1..Longest /\ n - 1 \notin Out
      BY <3>3, <3>5
    <3> QED BY <2>1, <3>5, <3>6 DEF Chains
  <2>4. \A n \in 1..Longest : v[n] \in S
    BY <2>3
  <2>5. v \in [1..Longest -> S]
    BY <2>1, <2>2, <2>4
  <2>6. v[1] = p /\ \A n \in 2..Longest : v[n] = Ups[v[n - 1]]
    BY <2>1
  <2> QED BY <2>5, <2>6 DEF v

\* The first three of a walk.
LEMMA WalkStarts ==
    ASSUME Ups \in Chains, NEW p \in Packages
    PROVE  /\ Walk(p)[1] = p
           /\ Walk(p)[2] = Ups[p]
           /\ Walk(p)[3] = Ups[Ups[p]]
           /\ Walk(p)[4] = Ups[Ups[Ups[p]]]
<1>1. {2, 3, 4} \subseteq 2..Longest /\ 1 \in 1..Longest
  OBVIOUS
<1> QED BY <1>1, WalkIs

\* A chain that is over stays over, and a short one loops nowhere.
LEMMA ShallowNests ==
    ASSUME Ups \in Chains, Shallow(Ups), NEW p \in Packages
    PROVE  p \notin Above(p) /\ LevelsUp(p) <= MostLevels
<1> DEFINE w == Walk(p)
           Late == {n \in 4..Longest : w[n] # NoOne}
           On == {n \in 1..Longest : w[n] # NoOne}
<1>1. /\ w \in [1..Longest -> Packages \cup {NoOne}]
      /\ w[1] = p /\ w[2] = Ups[p] /\ w[3] = Ups[Ups[p]] /\ w[4] = Ups[Ups[Ups[p]]]
      /\ \A n \in 2..Longest : w[n] = Ups[w[n - 1]]
  BY WalkIs, WalkStarts
<1>2. Above(p) = {w[n] : n \in 2..Longest} \ {NoOne} /\ LevelsUp(p) = Cardinality(On)
  BY DEF Above, LevelsUp
<1> HIDE DEF w
<1>3. w[4] = NoOne
  BY <1>1 DEF Shallow
<1>4. Late = {}
  <2> SUFFICES ASSUME Late # {} PROVE FALSE
    OBVIOUS
  <2>1. Late \in SUBSET Nat
    OBVIOUS
  <2>2. PICK n \in Late : \A m \in Late : n <= m
    BY <2>1, LeastIs
  <2>3. n # 4 /\ n \in 4..Longest /\ w[n] # NoOne
    BY <1>3
  <2>4. n - 1 \in 4..Longest /\ n - 1 \notin Late
    BY <2>2, <2>3
  <2>5. w[n - 1] = NoOne /\ w[n] = Ups[w[n - 1]]
    BY <1>1, <2>3, <2>4
  <2> QED BY <2>3, <2>5 DEF Chains
<1>5. \A n \in 1..Longest : w[n] = NoOne \/ n \in 1..3
  BY <1>4
<1>6. p \notin Above(p)
  <2>1. Ups[p] # p /\ Ups[Ups[p]] # p
    BY DEF Shallow, Chains
  <2>2. \A n \in 2..Longest : w[n] = NoOne \/ n = 2 \/ n = 3
    BY <1>5
  <2> QED BY <1>1, <1>2, <2>1, <2>2
<1>7. LevelsUp(p) <= 3
  <2>1. On \subseteq 1..3
    BY <1>5
  <2>3. IsFiniteSet(1..3) /\ Cardinality(1..3) = 3
    BY UpTo
  <2> HIDE DEF On
  <2>4. Cardinality(On) <= 3
    BY ONLY <2>1, <2>3, FS_Subset
  <2> QED BY <1>2, <2>4
<1> QED BY <1>6, <1>7

\* So many are over p at least.
LEMMA LevelsUpFrom ==
    ASSUME Ups \in Chains, NEW p \in Packages
    PROVE  /\ LevelsUp(p) \in Nat /\ LevelsUp(p) >= 1
           /\ Ups[p] # NoOne => LevelsUp(p) >= 2
           /\ Ups[Ups[p]] # NoOne => LevelsUp(p) >= 3
<1> DEFINE w == Walk(p)
           On == {n \in 1..Longest : w[n] # NoOne}
<1>1. w[1] = p /\ w[2] = Ups[p] /\ w[3] = Ups[Ups[p]]
  BY WalkStarts
<1>2. LevelsUp(p) = Cardinality(On)
  BY DEF LevelsUp
<1> HIDE DEF w
<1>3. IsFiniteSet(On)
  <2>1. On \subseteq 1..Longest /\ IsFiniteSet(1..Longest)
    BY FS_Interval
  <2> QED BY <2>1, FS_Subset
<1>4. ASSUME NEW k \in 1..3, 1..k \subseteq On PROVE Cardinality(On) >= k
  <2>1. IsFiniteSet(1..k) /\ Cardinality(1..k) = k
    BY UpTo
  <2>2. Cardinality(1..k) <= Cardinality(On)
    BY <1>3, <1>4, FS_Subset
  <2>3. Cardinality(On) \in Nat
    BY <1>3, FS_CardinalityType
  <2> QED BY <2>1, <2>2, <2>3
<1>5. Cardinality(On) \in Nat
  BY <1>3, FS_CardinalityType
<1>6. 1..1 \subseteq On
  BY <1>1
<1>7. Ups[p] # NoOne => 1..2 \subseteq On
  BY <1>1
<1>8. Ups[Ups[p]] # NoOne => 1..3 \subseteq On
  BY <1>1 DEF Chains
<1> HIDE DEF On
<1>9. 1 \in 1..3 /\ 2 \in 1..3 /\ 3 \in 1..3
  OBVIOUS
<1>10. Cardinality(On) >= 1
  BY <1>4, <1>6, <1>9
<1>11. Ups[p] # NoOne => Cardinality(On) >= 2
  BY <1>4, <1>7, <1>9
<1>12. Ups[Ups[p]] # NoOne => Cardinality(On) >= 3
  BY <1>4, <1>8, <1>9
<1> QED BY <1>2, <1>5, <1>10, <1>11, <1>12

\* And so many are under it.
LEMMA LevelsDownFrom ==
    ASSUME Ups \in Chains, NEW p \in Packages
    PROVE  /\ LevelsDown(p) \in Nat /\ LevelsDown(p) >= 1
           /\ (\E x \in Packages : Ups[x] = p) => LevelsDown(p) >= 2
           /\ (\E x \in Packages : Ups[Ups[x]] = p) => LevelsDown(p) >= 3
<1> DEFINE Found == UNION {LET w == Walk(q) IN {n \in 1..Longest : w[n] = p} : q \in Packages}
<1>1. LevelsDown(p) = Max(Found)
  BY DEF LevelsDown
<1>2. Found \in SUBSET (1..Longest)
  OBVIOUS
<1>3. \A n \in 1..Longest : \A q \in Packages : Walk(q)[n] = p => n \in Found
  OBVIOUS
<1> HIDE DEF Found
<1>4. {1, 2, 3} \subseteq 1..Longest
  OBVIOUS
<1>5. 1 \in Found
  BY <1>3, <1>4, WalkStarts
<1>6. (\E x \in Packages : Ups[x] = p) => 2 \in Found
  BY <1>3, <1>4, WalkStarts
<1>7. (\E x \in Packages : Ups[Ups[x]] = p) => 3 \in Found
  BY <1>3, <1>4, WalkStarts
<1>8. Max(Found) \in Found /\ \A n \in Found : n <= Max(Found)
  BY <1>2, <1>5, MaxIs
<1> DEFINE m == Max(Found)
<1>9. m \in Nat
  BY <1>2, <1>8
<1> HIDE DEF m
<1> QED BY <1>1, <1>5, <1>6, <1>7, <1>8, <1>9 DEF m

\* check_contain: what it lets in fits.
LEMMA NestsFits ==
    ASSUME Ups \in Chains, NEW p \in Packages, NEW q \in Packages, Nests(p, q)
    PROVE  Fits(Ups, p, q)
<1>1. p # q /\ LevelsUp(q) + LevelsDown(p) <= 3
  BY DEF Nests
<1>2. Ups[q] # p
  <2>1. 2 \in 2..Longest /\ Walk(q)[2] = Ups[q]
    BY WalkStarts
  <2> QED BY <2>1 DEF Nests, Above
<1>3. Ups[Ups[q]] = NoOne
  BY <1>1, LevelsUpFrom, LevelsDownFrom
<1>4. \A x \in Packages : Ups[Ups[x]] # p
  BY <1>1, LevelsUpFrom, LevelsDownFrom
<1>5. Ups[q] # NoOne => \A x \in Packages : Ups[x] # p
  BY <1>1, LevelsUpFrom, LevelsDownFrom
<1> QED BY <1>1, <1>2, <1>3, <1>4, <1>5 DEF Fits

------------------------------------------------------------------------------
(* The containments that landed *)

\* Every variable the chains rest on stays in its range.
Types ==
    /\ pc \in [Requests -> Steps]
    /\ holder \in [Acts -> Requests \cup {NoOne}]
    /\ packages \subseteq Packages
    /\ events \subseteq Requests
    /\ before \in [Requests -> SUBSET Requests]

\* An event is the fact of an act whose envelope is there.
Landed ==
    \A e \in events : Kind(e) \in Placing /\ pc[e] = "ended" /\ Ask[e].act \in envelopes

\* No act has two, so that placements of a package are one after another.
OneEvent == \A e, f \in events : e # f => Ask[e].act # Ask[f].act

\* Who records holds the envelope, and no one has committed it.
Holding ==
    \A r \in Requests : pc[r] \in {"claimed", "booking"} =>
        /\ holder[Ask[r].act] = r /\ Ask[r].act \notin envelopes
        /\ Kind(r) \in (IF pc[r] = "claimed" THEN Placing ELSE {"booked"})

\* The newest placement of p.
Newest(p, e) ==
    /\ e \in events /\ Ask[e].pkg = p
    /\ \A f \in events : Ask[f].pkg = p => Ask[f].at <= Ask[e].at

HasNewest == \A e \in events : \E f \in events : Newest(Ask[e].pkg, f)

SawEnded == \A r \in Requests : \A q \in before[r] : pc[q] = "ended"

Inside      == {e \in events : Kind(e) = "contained"}
NoneOverlap == \A e, f \in Inside : e = f \/ e \in before[f] \/ f \in before[e]

\* Who has read every containment that landed still finds that its own fits.
StillFits ==
    \A r \in Requests :
        /\ pc[r] \in {"checked", "claimed"} /\ Kind(r) = "contained" /\ Inside \subseteq before[r]
        => Fits(Ups, Ask[r].pkg, Ask[r].parent)

RecordInv == Types /\ Landed /\ OneEvent /\ Holding /\ HasNewest /\ SawEnded
NestInv   == RecordInv /\ (NoneOverlap => Shallow(Ups) /\ StillFits)

\* The newest of some placements of a package is the only one.
LEMMA NewestIs ==
    ASSUME NEW E \in SUBSET Requests, NEW e \in E,
           \A f \in E : Kind(f) \in Placing /\ Ask[f].pkg = Ask[e].pkg,
           \A f \in E : f # e => Ask[f].act # Ask[e].act,
           \A f \in E : Ask[f].at <= Ask[e].at
    PROVE  (CHOOSE x \in E : \A f \in E : Ask[f].at <= Ask[x].at) = e
<1> DEFINE Is(x) == x \in E /\ \A f \in E : Ask[f].at <= Ask[x].at
<1>1. Is(e)
  OBVIOUS
<1>2. ASSUME NEW x, Is(x) PROVE x = e
  <2> SUFFICES ASSUME x # e PROVE FALSE
    OBVIOUS
  <2>1. /\ x \in Requests /\ e \in Requests
        /\ {Ask[x].kind, Ask[e].kind} \subseteq Placing
        /\ Ask[x].pkg = Ask[e].pkg /\ Ask[x].act # Ask[e].act
    BY <1>2 DEF Kind
  <2>2. Ask[x].at # Ask[e].at
    BY <2>1
  <2> QED BY <1>2, <2>1, <2>2
<1> HIDE DEF Is
<1>3. (CHOOSE x : Is(x)) = e
  BY <1>1, <1>2
<1> QED BY <1>3 DEF Is

\* What a parcel is in or on is what its newest placement says.
LEMMA ParentIs ==
    ASSUME RecordInv, NEW e, Newest(Ask[e].pkg, e) PROVE Parent(Ask[e].pkg) = Ask[e].parent
<1> DEFINE E == {f \in events : Ask[f].pkg = Ask[e].pkg}
<1>1. /\ E \in SUBSET Requests /\ e \in E
      /\ \A f \in E : Kind(f) \in Placing /\ Ask[f].pkg = Ask[e].pkg
      /\ \A f \in E : f # e => Ask[f].act # Ask[e].act
      /\ \A f \in E : Ask[f].at <= Ask[e].at
  BY DEF RecordInv, Types, Landed, OneEvent, Newest
<1>2. Parent(Ask[e].pkg) = Ask[CHOOSE x \in E : \A f \in E : Ask[f].at <= Ask[x].at].parent
  BY <1>1 DEF Parent
<1> HIDE DEF E
<1> QED BY <1>1, <1>2, NewestIs

LEMMA ChainsThere == ASSUME RecordInv PROVE Ups \in Chains
<1>1. ASSUME NEW p \in Packages PROVE Parent(p) \in Packages \cup {NoOne}
  <2>1. CASE \A e \in events : Ask[e].pkg # p
    BY <2>1 DEF Parent
  <2>2. ASSUME NEW e \in events, Ask[e].pkg = p PROVE Parent(p) \in Packages \cup {NoOne}
    <3>1. PICK f \in events : Newest(p, f)
      BY <2>2 DEF RecordInv, HasNewest
    <3>2. Ask[f].pkg = p /\ f \in Requests
      BY <3>1 DEF Newest, RecordInv, Types
    <3>3. Parent(p) = Ask[f].parent
      BY <3>1, <3>2, ParentIs
    <3> QED BY <3>2, <3>3
  <2> QED BY <2>1, <2>2
<1> QED BY <1>1 DEF Ups, Chains

\* An event moves its own parcel, or nothing when it is not the newest.
LEMMA Moved ==
    ASSUME RecordInv, RecordInv', NEW r \in Requests, events' = events \cup {r}
    PROVE  /\ Ups'[Ask[r].pkg] \in {Ups[Ask[r].pkg], Ask[r].parent}
           /\ \A p \in Packages \ {Ask[r].pkg} : Ups'[p] = Ups[p]
<1> DEFINE p == Ask[r].pkg
<1>1. ASSUME NEW q \in Packages \ {p} PROVE Ups'[q] = Ups[q]
  <2>1. {e \in events' : Ask[e].pkg = q} = {e \in events : Ask[e].pkg = q}
    BY <1>1
  <2> DEFINE Said(E) == IF E = {} THEN NoOne
                        ELSE Ask[CHOOSE e \in E : \A f \in E : Ask[f].at <= Ask[e].at].parent
  <2>2. /\ Parent(q) = Said({e \in events : Ask[e].pkg = q})
        /\ Parent(q)' = Said({e \in events' : Ask[e].pkg = q})
    BY DEF Parent
  <2> HIDE DEF Said
  <2>3. Parent(q)' = Parent(q)
    BY <2>1, <2>2
  <2> QED BY <2>3 DEF Ups
<1>2. Parent(p)' \in {Parent(p), Ask[r].parent}
  <2>1. PICK f \in events' : Newest(p, f)'
    BY DEF RecordInv, HasNewest
  <2> DEFINE E == {e \in events' : Ask[e].pkg = p}
  <2>2. /\ f \in events' /\ Ask[f].pkg = p /\ \A e \in events' : Ask[e].pkg = p => Ask[e].at <= Ask[f].at
        /\ events' \subseteq Requests
        /\ \A e \in events' : Kind(e) \in Placing
        /\ \A e, x \in events' : e # x => Ask[e].act # Ask[x].act
    BY <2>1 DEF Newest, RecordInv, Types, Landed, OneEvent
  <2>3. /\ E \in SUBSET Requests /\ f \in E
        /\ \A e \in E : Kind(e) \in Placing /\ Ask[e].pkg = Ask[f].pkg
        /\ \A e \in E : e # f => Ask[e].act # Ask[f].act
        /\ \A e \in E : Ask[e].at <= Ask[f].at
    BY <2>2
  <2>4. Parent(p)' = Ask[CHOOSE x \in E : \A e \in E : Ask[e].at <= Ask[x].at].parent
    BY <2>3 DEF Parent
  <2> HIDE DEF E
  <2>5. Parent(p)' = Ask[f].parent
    BY <2>3, <2>4, NewestIs
  <2>6. f = r \/ Newest(Ask[f].pkg, f)
    BY <2>2 DEF Newest
  <2>7. Newest(Ask[f].pkg, f) => Parent(p) = Ask[f].parent
    BY <2>2, ParentIs
  <2> QED BY <2>5, <2>6, <2>7
<1>3. p \in Packages
  OBVIOUS
<1> QED BY <1>1, <1>2, <1>3 DEF Ups

\* Who ends lets go of its own envelope, and may commit that one.
LEMMA EndsRecording ==
    ASSUME RecordInv, NEW r \in Requests, NEW how, End(r, how), pc[r] # "ended",
           events' = events, packages' = packages,
           \/ envelopes' = envelopes
           \/ holder[Ask[r].act] = r /\ envelopes' = envelopes \cup {Ask[r].act},
           before' \in [Requests -> SUBSET Requests],
           \A q \in Requests \ {r} : before'[q] = before[q],
           \A q \in before'[r] : pc[q] = "ended"
    PROVE  RecordInv'
<1>1. pc' = [pc EXCEPT ![r] = "ended"] /\ holder' = [a \in Acts |-> IF holder[a] = r THEN NoOne ELSE holder[a]]
  BY DEF End
<1>2. Types'
  BY <1>1 DEF RecordInv, Types, Steps
<1>3. Landed' /\ OneEvent'
  BY <1>1 DEF RecordInv, Types, Landed, OneEvent
<1>4. Holding'
  BY <1>1 DEF RecordInv, Types, Holding
<1>5. HasNewest'
  BY DEF RecordInv, HasNewest, Newest
<1>6. SawEnded'
  BY <1>1 DEF RecordInv, Types, SawEnded
<1> QED BY <1>2, <1>3, <1>4, <1>5, <1>6 DEF RecordInv

\* And one that records an event.
LEMMA EndsRecorded ==
    ASSUME RecordInv, NEW r \in Requests, NEW how, End(r, how), pc[r] = "claimed",
           events' = events \cup {r}, packages' \subseteq Packages,
           envelopes' = envelopes \cup {Ask[r].act}, before' = before
    PROVE  RecordInv'
<1>1. pc' = [pc EXCEPT ![r] = "ended"] /\ holder' = [a \in Acts |-> IF holder[a] = r THEN NoOne ELSE holder[a]]
  BY DEF End
<1>2. holder[Ask[r].act] = r /\ Ask[r].act \notin envelopes /\ Kind(r) \in Placing
  BY DEF RecordInv, Holding
<1>3. Types'
  BY <1>1 DEF RecordInv, Types, Steps
<1>4. Landed' /\ OneEvent'
  BY <1>1, <1>2 DEF RecordInv, Types, Landed, OneEvent
<1>5. Holding'
  BY <1>1, <1>2 DEF RecordInv, Types, Holding
<1>6. HasNewest'
  <2> SUFFICES ASSUME NEW e \in events' PROVE \E f \in events' : Newest(Ask[e].pkg, f)'
    BY DEF HasNewest
  <2>1. \A f \in events : Ask[f].at \in Nat
    BY DEF RecordInv, Types
  <2>2. CASE \E f \in events : Newest(Ask[e].pkg, f)
    <3>1. PICK f \in events : Newest(Ask[e].pkg, f)
      BY <2>2
    <3>2. CASE Ask[r].pkg = Ask[e].pkg /\ Ask[r].at > Ask[f].at
      BY <2>1, <3>1, <3>2 DEF Newest
    <3>3. CASE ~(Ask[r].pkg = Ask[e].pkg /\ Ask[r].at > Ask[f].at)
      BY <2>1, <3>1, <3>3 DEF Newest
    <3> QED BY <3>2, <3>3
  <2>3. CASE ~\E f \in events : Newest(Ask[e].pkg, f)
    <3>1. e = r /\ \A f \in events : Ask[f].pkg # Ask[e].pkg
      BY <2>3 DEF RecordInv, HasNewest
    <3> QED BY <3>1 DEF Newest
  <2> QED BY <2>2, <2>3
<1>7. SawEnded'
  BY <1>1 DEF RecordInv, Types, SawEnded
<1> QED BY <1>3, <1>4, <1>5, <1>6, <1>7 DEF RecordInv

\* Steps that record nothing and end nobody.
LEMMA GoesOn ==
    ASSUME RecordInv, Types', NEW r \in Requests, pc' = [pc EXCEPT ![r] = pc'[r]], pc[r] # "ended",
           pc'[r] \in {"claimed", "booking"} =>
              \/ pc'[r] = pc[r] /\ holder' = holder
              \/ /\ holder[Ask[r].act] = NoOne /\ holder' = [holder EXCEPT ![Ask[r].act] = r]
                 /\ Ask[r].act \notin envelopes
                 /\ Kind(r) \in (IF pc'[r] = "claimed" THEN Placing ELSE {"booked"}),
           pc'[r] \notin {"claimed", "booking"} => holder' = holder,
           UNCHANGED <<events, envelopes>>,
           \A q \in Requests : before'[q] = before[q] \/ \A x \in before'[q] : pc[x] = "ended"
    PROVE  RecordInv'
<1>1. Landed' /\ OneEvent'
  BY DEF RecordInv, Types, Landed, OneEvent
<1>2. Holding'
  BY DEF RecordInv, Types, Holding
<1>3. HasNewest'
  BY DEF RecordInv, HasNewest, Newest
<1>4. SawEnded'
  BY DEF RecordInv, Types, SawEnded
<1> QED BY <1>1, <1>2, <1>3, <1>4 DEF RecordInv

LEMMA RecordKept == RecordInv /\ [Next]_vars => RecordInv'
<1> SUFFICES ASSUME RecordInv, [Next]_vars PROVE RecordInv'
  OBVIOUS
<1>0. Types
  BY DEF RecordInv
<1>1. ASSUME UNCHANGED <<pc, holder, envelopes, packages, events, before>> PROVE RecordInv'
  BY <1>1 DEF RecordInv, Types, Landed, OneEvent, Holding, HasNewest, Newest, SawEnded
<1>2. CASE UNCHANGED vars
  BY <1>1, <1>2 DEF vars, acts
<1>3. ASSUME NEW r \in Requests, Check(r) PROVE RecordInv'
  <2>1. /\ pc[r] = "new" /\ before' = [before EXCEPT ![r] = {q \in Requests : pc[q] = "ended"}]
        /\ UNCHANGED <<envelopes, packages, events>>
    BY <1>3 DEF Check
  <2>2. /\ before' \in [Requests -> SUBSET Requests]
        /\ \A q \in Requests \ {r} : before'[q] = before[q]
        /\ \A q \in before'[r] : pc[q] = "ended"
    BY <1>0, <2>1 DEF Types
  <2>3. CASE \E how : End(r, how)
    BY <2>1, <2>2, <2>3, EndsRecording
  <2>4. CASE pc' = [pc EXCEPT ![r] = "checked"] /\ UNCHANGED <<holder, lock, outcome>>
    <3>1. Types' /\ pc'[r] = "checked"
      BY <1>0, <2>1, <2>2, <2>4 DEF Types, Steps
    <3> QED BY <2>1, <2>2, <2>4, <3>1, GoesOn
  <2> QED BY <1>3, <2>3, <2>4 DEF Check
<1>4. ASSUME NEW r \in Requests, Claim(r) PROVE RecordInv'
  <2>1. pc[r] = "checked" /\ Kind(r) # "planned" /\ Kind(r) \in Kinds
    BY <1>4 DEF Claim, Kind
  <2>2. /\ pc' = [pc EXCEPT ![r] = IF Kind(r) = "booked" THEN "booking" ELSE "claimed"]
        /\ holder[Ask[r].act] = NoOne /\ holder' = [holder EXCEPT ![Ask[r].act] = r]
        /\ Ask[r].act \notin envelopes
        /\ UNCHANGED <<envelopes, packages, events, before>>
    BY <1>4 DEF Claim
  <2>3. /\ pc'[r] = IF Kind(r) = "booked" THEN "booking" ELSE "claimed"
        /\ pc' = [pc EXCEPT ![r] = pc'[r]] /\ Types'
    BY <1>0, <2>1, <2>2 DEF Types, Steps
  <2>4. Kind(r) \in (IF pc'[r] = "claimed" THEN Placing ELSE {"booked"})
    BY <2>1, <2>3 DEF Kinds, Placing
  <2> QED BY <2>1, <2>2, <2>3, <2>4, GoesOn
<1>5. ASSUME NEW r \in Requests, Replay(r) PROVE RecordInv'
  BY <1>0, <1>5, EndsRecording DEF Replay, RecordInv, Types, SawEnded
<1>6. ASSUME NEW r \in Requests, Record(r) PROVE RecordInv'
  <2>1. pc[r] = "claimed" /\ before' = before
    BY <1>6 DEF Record
  <2>2. CASE Put(r)
    BY <1>0, <2>1, <2>2, EndsRecorded DEF Put, Types
  <2>3. CASE Make(r) /\ Ask[r].pkg \in packages
    BY <1>0, <2>1, <2>3, EndsRecording DEF Make, RecordInv, Types, SawEnded
  <2>4. CASE Make(r) /\ Ask[r].pkg \notin packages
    BY <1>0, <2>1, <2>4, EndsRecorded DEF Make, Types
  <2> QED BY <1>6, <2>2, <2>3, <2>4 DEF Record
<1>7. ASSUME NEW r \in Requests, Lock(r) PROVE RecordInv'
  <2>1. Types' /\ pc'[r] = "locked" /\ pc[r] = "checked"
    BY <1>0, <1>7 DEF Lock, acts, Types, Steps
  <2> QED BY <1>7, <2>1, GoesOn DEF Lock, acts
<1>8. ASSUME NEW r \in Requests, Count(r) PROVE RecordInv'
  <2>1. CASE DOMAIN Ask[r].plan \cap packages # {}
    BY <1>0, <1>8, <2>1, EndsRecording DEF Count, RecordInv, Types, SawEnded
  <2>2. CASE DOMAIN Ask[r].plan \cap packages = {}
    <3>1. /\ pc[r] = "locked" /\ pc' = [pc EXCEPT ![r] = "counted"]
          /\ UNCHANGED <<holder, envelopes, packages, events, before>>
      BY <1>8, <2>2 DEF Count
    <3>2. Types' /\ pc'[r] = "counted"
      BY <1>0, <3>1 DEF Types, Steps
    <3> QED BY <3>1, <3>2, GoesOn
  <2> QED BY <2>1, <2>2
<1>9. ASSUME NEW r \in Requests, Save(r) PROVE RecordInv'
  <2>1. pc[r] = "counted" /\ UNCHANGED <<envelopes, packages, events, before>> /\ \E how : End(r, how)
    BY <1>9 DEF Save
  <2> QED BY <1>0, <2>1, EndsRecording DEF RecordInv, Types, SawEnded
<1>10. ASSUME NEW r \in Requests, Load(r) PROVE RecordInv'
  <2>1. pc[r] = "booking" /\ UNCHANGED <<envelopes, packages, events, before>>
    BY <1>10 DEF Load
  <2>2. CASE \E how : End(r, how)
    BY <1>0, <2>1, <2>2, EndsRecording DEF RecordInv, Types, SawEnded
  <2>3. CASE ~\E how : End(r, how)
    BY <1>1, <1>10, <2>1, <2>3 DEF Load
  <2> QED BY <2>2, <2>3
<1>11. ASSUME NEW r \in Requests, Deadlocked(r) PROVE RecordInv'
  <2>1. pc[r] = "booking"
    BY <1>11 DEF Deadlocked, Waits
  <2> QED BY <1>0, <1>11, <2>1, EndsRecording DEF Deadlocked, RecordInv, Types, SawEnded
<1>12. ASSUME NEW r \in Requests, Book(r) PROVE RecordInv'
  <2>1. pc[r] = "booking" /\ holder[Ask[r].act] = r
    BY <1>12 DEF Book, RecordInv, Holding
  <2> QED BY <1>0, <1>12, <2>1, EndsRecording DEF Book, RecordInv, Types, SawEnded
<1>13. CASE CloseOrder \/ DropClosed
  BY <1>1, <1>13 DEF CloseOrder, DropClosed, acts
<1> QED BY <1>2, <1>3, <1>4, <1>5, <1>6, <1>7, <1>8, <1>9, <1>10, <1>11, <1>12, <1>13
        DEF Next, Serve

\* A step that records nothing leaves every chain as it was.
LEMMA NothingRecorded ==
    ASSUME NestInv, RecordInv', events' = events,
           \A r \in Requests : pc'[r] \in {"checked", "claimed"} /\ Kind(r) = "contained" =>
              \/ pc[r] \in {"checked", "claimed"} /\ before'[r] = before[r]
              \/ Ask[r].parent \in Packages /\ Nests(Ask[r].pkg, Ask[r].parent),
           \A r \in Requests : before'[r] = before[r] \/ pc[r] # "ended"
    PROVE  NestInv'
<1>1. Ups' = Ups /\ Inside' = Inside
  <2>1. \A p \in Packages : Parent(p)' = Parent(p)
    BY DEF Parent
  <2> QED BY <2>1 DEF Ups, Inside
<1>2. Ups \in Chains
  BY ChainsThere DEF NestInv
<1>3. NoneOverlap' => NoneOverlap
  <2>1. \A e \in Inside : before'[e] = before[e]
    BY DEF Inside, NestInv, RecordInv, Types, Landed
  <2> QED BY <1>1, <2>1 DEF NoneOverlap
<1>4. ASSUME NoneOverlap, NEW r \in Requests, pc'[r] \in {"checked", "claimed"}, Kind(r) = "contained",
             Inside \subseteq before'[r]
      PROVE  Fits(Ups, Ask[r].pkg, Ask[r].parent)
  <2>1. CASE pc[r] \in {"checked", "claimed"} /\ before'[r] = before[r]
    BY <1>4, <2>1 DEF NestInv, StillFits
  <2>2. CASE Ask[r].parent \in Packages /\ Nests(Ask[r].pkg, Ask[r].parent)
    BY <1>2, <1>4, <2>2, NestsFits
  <2> QED BY <1>4, <2>1, <2>2
<1>5. NoneOverlap => Shallow(Ups)
  BY DEF NestInv
<1>6. NoneOverlap => Shallow(Ups)' /\ StillFits'
  <2>1. Shallow(Ups)' = Shallow(Ups)
    BY <1>1 DEF Shallow
  <2>2. NoneOverlap => StillFits'
    <3> DEFINE F(r) == Fits(Ups, Ask[r].pkg, Ask[r].parent)
    <3>1. \A r \in Requests : F(r)' = F(r)
      BY <1>1 DEF Fits
    <3> QED BY <1>1, <1>4, <3>1 DEF StillFits
  <2> QED BY <1>5, <2>1, <2>2
<1> QED BY <1>3, <1>6 DEF NestInv

\* Recording an event: what it moves is what was read, or lets go.
LEMMA Recorded ==
    ASSUME NestInv, RecordInv', NEW r \in Requests, pc[r] = "claimed", events' = events \cup {r},
           pc' = [pc EXCEPT ![r] = "ended"], before' = before
    PROVE  NestInv'
<1> DEFINE p == Ask[r].pkg
           q == Ask[r].parent
<1>1. RecordInv /\ Types
  BY DEF NestInv, RecordInv
<1>2. Ups \in Chains /\ Ups' \in Chains
  <2>1. \A e \in Packages \cup {NoOne} : Ups'[e] \in Packages \cup {NoOne}
    <3>1. Ups \in Chains
      BY <1>1, ChainsThere
    <3>2. Ups'[p] \in {Ups[p], q} /\ \A x \in Packages \ {p} : Ups'[x] = Ups[x]
      BY <1>1, Moved
    <3>3. Ups'[NoOne] = NoOne
      BY DEF Ups
    <3> QED BY <3>1, <3>2, <3>3 DEF Chains
  <2>2. Ups' \in [Packages \cup {NoOne} -> Packages \cup {NoOne}] /\ Ups'[NoOne] = NoOne
    BY <2>1 DEF Ups
  <2> QED BY <1>1, <2>2, ChainsThere DEF Chains
<1>3. Ups'[p] \in {Ups[p], q} /\ \A x \in Packages \ {p} : Ups'[x] = Ups[x]
  BY <1>1, Moved
<1>4. \A e \in events : e # r /\ r \notin before[e]
  BY <1>1 DEF RecordInv, Types, Landed, SawEnded
<1>5. Inside' = IF Kind(r) = "contained" THEN Inside \cup {r} ELSE Inside
  BY DEF Inside
<1>6. NoneOverlap' => NoneOverlap /\ (Kind(r) = "contained" => Inside \subseteq before[r])
  BY <1>4, <1>5 DEF NoneOverlap, Inside
<1>7. p \in Packages
  OBVIOUS
<1>8. PICK V : V = Ups'
  OBVIOUS
<1>9. V \in Chains /\ V[p] \in {Ups[p], q} /\ \A x \in Packages \ {p} : V[x] = Ups[x]
  BY <1>2, <1>3, <1>8
<1>10. NoneOverlap' => Shallow(V) /\ StillFits'
  <2> SUFFICES ASSUME NoneOverlap' PROVE Shallow(V) /\ StillFits'
    OBVIOUS
  <2>1. Shallow(Ups) /\ StillFits
    BY <1>6 DEF NestInv
  <2>2. CASE Kind(r) = "contained"
    <3>1. Fits(Ups, p, q)
      BY <1>1, <1>6, <2>1, <2>2 DEF StillFits
    <3>2. Shallow(V)
      BY <1>2, <1>9, <2>1, <3>1, Grown
    <3>3. \A x \in Requests : pc'[x] \in {"checked", "claimed"} => r \notin before[x]
      BY <1>1 DEF RecordInv, SawEnded
    <3> QED BY <1>5, <2>2, <3>2, <3>3 DEF StillFits
  <2>3. CASE Kind(r) # "contained"
    <3>1. q = NoOne
      BY <2>3 DEF Kind
    <3>2. \A x \in Packages : V[x] \in {Ups[x], NoOne}
      BY <1>9, <3>1
    <3>3. /\ Shallow(V)
          /\ \A x \in Packages : \A y \in Packages \cup {NoOne} : Fits(Ups, x, y) => Fits(V, x, y)
      BY <1>2, <1>9, <2>1, <3>2, Pruned
    <3>4. \A x \in Requests : Fits(Ups, Ask[x].pkg, Ask[x].parent)' <=> Fits(V, Ask[x].pkg, Ask[x].parent)
      BY <1>8 DEF Fits
    <3>5. \A x \in Requests : pc'[x] \in {"checked", "claimed"} => pc[x] = pc'[x]
      BY <1>1 DEF Types
    <3> QED BY <1>5, <2>1, <2>3, <3>3, <3>4, <3>5 DEF StillFits
  <2> QED BY <2>2, <2>3
<1>11. Shallow(Ups)' <=> Shallow(V)
  BY <1>8 DEF Shallow
<1> QED BY <1>10, <1>11 DEF NestInv

LEMMA NestKept == NestInv /\ [Next]_vars => NestInv'
<1> SUFFICES ASSUME NestInv, [Next]_vars PROVE NestInv'
  OBVIOUS
<1>1. Types /\ RecordInv /\ RecordInv'
  BY RecordKept DEF NestInv, RecordInv
<1>2. ASSUME events' = events, before' = before,
             \A r \in Requests : pc'[r] \in {"checked", "claimed"} /\ Kind(r) = "contained"
                                => pc[r] \in {"checked", "claimed"}
      PROVE  NestInv'
  BY <1>1, <1>2, NothingRecorded
<1>3. CASE UNCHANGED vars
  BY <1>2, <1>3 DEF vars, acts
<1>4. ASSUME NEW r \in Requests, Check(r) PROVE NestInv'
  <2>1. /\ pc[r] = "new" /\ before' = [before EXCEPT ![r] = {q \in Requests : pc[q] = "ended"}]
        /\ events' = events
    BY <1>4 DEF Check
  <2>2. \A q \in Requests \ {r} : pc'[q] = pc[q] /\ before'[q] = before[q]
    BY <1>1, <1>4, <2>1 DEF Check, End, Types
  <2>3. pc'[r] \in {"checked", "claimed"} => ~Refused(r)
    BY <1>1, <1>4 DEF Check, End, Types
  <2>4. pc'[r] \in {"checked", "claimed"} /\ Kind(r) = "contained" =>
           Ask[r].parent \in Packages /\ Nests(Ask[r].pkg, Ask[r].parent)
    BY <1>1, <2>3 DEF Refused, Types
  <2> QED BY <1>1, <2>1, <2>2, <2>4, NothingRecorded
<1>5. ASSUME NEW r \in Requests, Record(r) PROVE NestInv'
  <2>1. pc[r] = "claimed" /\ before' = before
    BY <1>5 DEF Record
  <2>2. \A how : End(r, how) => pc' = [pc EXCEPT ![r] = "ended"]
    BY DEF End
  <2>3. CASE events' = events \cup {r} /\ \E how : End(r, how)
    BY <1>1, <2>1, <2>2, <2>3, Recorded
  <2>4. CASE events' = events /\ \E how : End(r, how)
    BY <1>1, <1>2, <2>1, <2>2, <2>4 DEF Types
  <2> QED BY <1>5, <2>3, <2>4 DEF Record, Put, Make
<1>6. ASSUME NEW r \in Requests, Claim(r) PROVE NestInv'
  BY <1>1, <1>2, <1>6 DEF Claim, Types
<1>7. ASSUME NEW r \in Requests, Replay(r) \/ Lock(r) \/ Count(r) \/ Save(r) \/ Load(r)
                                \/ Deadlocked(r) \/ Book(r)
      PROVE NestInv'
  <2>1. events' = events /\ before' = before
    BY <1>7 DEF Replay, Lock, Count, Save, Load, Deadlocked, Book, acts
  <2>2. \/ pc' = pc
        \/ \E s \in {"ended", "locked", "counted"} : pc' = [pc EXCEPT ![r] = s]
    BY <1>7 DEF Replay, Lock, Count, Save, Load, Deadlocked, Book, acts, End
  <2> QED BY <1>1, <1>2, <2>1, <2>2 DEF Types
<1>8. CASE CloseOrder \/ DropClosed
  BY <1>2, <1>8 DEF CloseOrder, DropClosed, acts
<1> QED BY <1>3, <1>4, <1>5, <1>6, <1>7, <1>8 DEF Next, Serve

LEMMA NestStarts == Init => NestInv
<1> SUFFICES ASSUME Init PROVE NestInv
  OBVIOUS
<1>1. PICK t \in Together :
        /\ pc = [r \in Requests |-> IF r \in t.sent THEN "new" ELSE "ended"]
        /\ holder = [a \in Acts |-> NoOne]
        /\ envelopes = {Ask[r].act : r \in t.earlier}
        /\ packages = {Ask[r].pkg : r \in t.earlier}
        /\ events = t.earlier
        /\ before = [r \in Requests |-> IF r \in t.earlier THEN t.earlier ELSE {}]
  BY DEF Init
<1>2. /\ events \subseteq Requests /\ t.sent \cap events = {}
      /\ \A r \in events : Kind(r) = "created"
      /\ \A e, f \in events : e # f => Ask[e].pkg # Ask[f].pkg /\ Ask[e].act # Ask[f].act
  BY <1>1 DEF Kind
<1>3. Types
  BY <1>1, <1>2 DEF Types, Steps
<1>4. Landed /\ OneEvent
  BY <1>1, <1>2 DEF Landed, OneEvent, Placing
<1>5. Holding /\ SawEnded
  BY <1>1, <1>2 DEF Holding, SawEnded
<1>6. HasNewest
  <2>1. \A e \in events : Newest(Ask[e].pkg, e)
    BY <1>2 DEF Newest
  <2> QED BY <2>1 DEF HasNewest
<1>7. RecordInv
  BY <1>3, <1>4, <1>5, <1>6 DEF RecordInv
<1>8. \A p \in Packages : Parent(p) = NoOne
  <2> SUFFICES ASSUME NEW p \in Packages, NEW e \in events, Ask[e].pkg = p PROVE Parent(p) = NoOne
    BY DEF Parent
  <2>1. Newest(Ask[e].pkg, e)
    BY <1>2 DEF Newest
  <2>2. Ask[e].parent = NoOne
    BY <1>2 DEF Kind
  <2> QED BY <1>7, <2>1, <2>2, ParentIs
<1>9. Shallow(Ups)
  BY <1>8 DEF Shallow, Ups
<1>10. StillFits
  BY <1>1 DEF StillFits
<1> QED BY <1>7, <1>9, <1>10 DEF NestInv

\* J79 and J80: no package is inside itself and none is more than three deep, unless two
\* containments overlapped: what one read, and no longer holds, only lets it nest better.
THEOREM NestedHolds == Spec => []Nested
<1>1. NestInv => Nested
  <2> SUFFICES ASSUME NestInv, NoneOverlap PROVE \A p \in packages : p \notin Above(p) /\ LevelsUp(p) <= MostLevels
    BY DEF Nested, NoneOverlap, Inside
  <2>1. Ups \in Chains /\ Shallow(Ups) /\ packages \subseteq Packages
    BY ChainsThere DEF NestInv, RecordInv, Types
  <2> QED BY <2>1, ShallowNests
<1> QED BY <1>1, NestStarts, NestKept, PTL DEF Spec
==============================================================================
