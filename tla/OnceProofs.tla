------------------------------- MODULE OnceProofs -------------------------------
(***************************************************************************)
(* What is written once, whoever writes together and however often it is sent: *)
(* the rows of an import (Feeds, Intake) and the claim of an id (Claims).       *)
(*                                                                         *)
(* Of the imports, the inductive invariant (IntakeInv) says of each row who      *)
(* wrote it and that an import writes one fulfilment's row (Written, Early,       *)
(* OneWrite), what an import between reading and writing may rely on (Naming,      *)
(* Claiming, Putting), that two rows alike are by imports that met (Once,          *)
(* Planned), that a fulfilment is adopted by one after another, who met (Serial,     *)
(* Apart), and that a document is on file once (Unique) and given by one import     *)
(* under way (Promised).  Of what the files say (SaidInv), it says that a load      *)
(* speaks of its own feed (Reading), that a value closes no earlier than it was      *)
(* first said (Closes, Says), and that the rows of one packed fulfilment say one    *)
(* time and one of them is there to be read (OneTime, Standing).                     *)
(*                                                                         *)
(* Of the claims, it says for any requests and releases who holds an id           *)
(* (HolderShape), that a request that is not answered has no row (Unanswered),     *)
(* that a request has only read rows that are there (SeenShape), and the           *)
(* properties themselves (IInv).  That of the check before a claim (FitInv) adds    *)
(* that a request that was let through fits what it read (CheckedFit) and that     *)
(* the rows are finitely many, which sums need: those of a set, of the set with    *)
(* a member more and of a part of it are related first.                           *)
(***************************************************************************)
EXTENDS Claims, Feeds, FiniteSetTheorems, WellFoundedInduction, TLAPS

------------------------------------------------------------------------------
(* The imports: what holds throughout *)

Sequential(s) == s \in Seq(Range(s))

ReqFields == {"send", "apply", "at", "new", "wants", "order", "work", "n", "line", "row"}

Done    == {q \in Imports : req[q].at = "done"}
Settled == {q \in Imports : req[q].at \in {"done", "refused", "undone"}}
Failed  == {q \in Imports : req[q].at \in {"refused", "undone"}}
Begun   == {q \in Imports : req[q].at # "idle"}

\* What had ended when an import began has ended.
Arrived ==
    /\ DOMAIN req = Imports /\ DOMAIN before = Imports
    /\ \A r \in Imports : DOMAIN req[r] = ReqFields /\ before[r] \subseteq Settled

\* A row is written by an import under way; a fulfilment is adopted once it is on file, as one
\* of no document, for a document.
WrittenIn(T) == \A x \in T : x.by \in Begun
Written ==
    /\ WrittenIn(arrivals) /\ WrittenIn(orders) /\ WrittenIn(orderLines) /\ WrittenIn(commitments)
    /\ Sequential(work) /\ Sequential(adoptions)
    /\ \A f \in DOMAIN work : work[f].by \in Begun
    /\ \A i \in DOMAIN adoptions :
          /\ adoptions[i].by \in Begun
          /\ adoptions[i].work \in DOMAIN work /\ work[adoptions[i].work].by \in Done
          /\ adoptions[i].doc # None /\ work[adoptions[i].work].doc = None

\* Until it has its fulfilment, an import has neither planned nor adopted one.
Until == {"idle", "items", "make", "order", "choose", "plan", "find", "adopt", "claim", "raise"}
Early(r) ==
    req[r].at \in Until =>
        (\A f \in DOMAIN work : work[f].by # r) /\ (\A i \in DOMAIN adoptions : adoptions[i].by # r)

\* It looks for the fulfilment of a document if it has one; what it is about to adopt is on file,
\* and was nobody's when it began; nor was what it is about to promise.
Naming(r)   == req[r].at \in {"find", "adopt", "claim", "raise"} => Send(r).doc # None
Claiming(r) ==
    req[r].at = "claim" =>
        /\ req[r].work \in DOMAIN work /\ work[req[r].work].by \in Done /\ work[req[r].work].doc = None
        /\ \A i \in DOMAIN adoptions : adoptions[i].by \in before[r] \cap Done => adoptions[i].work # req[r].work
Putting(r) ==
    req[r].at = "put" =>
        \A c \in commitments : c.by \in before[r] \cap Done => ~(c.work = req[r].work /\ c.line = req[r].line)

\* Two rows alike are by imports that met, unless one of them came to nothing.
OnceIn(T, ks) ==
    \A x, y \in T : x # y /\ (\A k \in ks : x[k] = y[k]) /\ {x.by, y.by} \cap Failed = {} => Met(x.by, y.by)
Once ==
    /\ OnceIn(arrivals, {"send"}) /\ OnceIn(orders, {"number"})
    /\ OnceIn(orderLines, {"order", "item", "no"}) /\ OnceIn(commitments, {"work", "line"})
Planned ==
    \A f, g \in DOMAIN work :
        f < g /\ work[f].order = work[g].order /\ work[g].doc = None /\ {work[f].by, work[g].by} \cap Failed = {}
            => Met(work[f].by, work[g].by)

\* Two adoptions of one fulfilment are by imports that met, in the same way.
Apart ==
    \A i, j \in DOMAIN adoptions :
        i < j /\ adoptions[i].work = adoptions[j].work /\ {adoptions[i].by, adoptions[j].by} \cap Failed = {}
            => Met(adoptions[i].by, adoptions[j].by)

\* An import plans or adopts one fulfilment, and a fulfilment is adopted by one after another.
OneWrite ==
    /\ \A f, g \in DOMAIN work : work[f].by = work[g].by => f = g
    /\ \A i, j \in DOMAIN adoptions : adoptions[i].by = adoptions[j].by => i = j
    /\ \A i \in DOMAIN adoptions, f \in DOMAIN work : adoptions[i].by # work[f].by
Serial ==
    \A i, j \in DOMAIN adoptions :
        i < j /\ adoptions[i].work = adoptions[j].work => adoptions[i].by \notin Underway

\* The document on file of a fulfilment, if it has one.
Docs(f) == {d \in {DocumentOnFile(f)} : work[f].by \in Done /\ d # None}
Unique  == \A f, g \in DOMAIN work : f # g => Docs(f) \cap Docs(g) = {}

\* A document an import has given is on file of no other fulfilment, nor given by another.
Wrote(q) == {<<adoptions[i].work, adoptions[i].doc>> : i \in {j \in DOMAIN adoptions : adoptions[j].by = q}}
            \cup {<<f, work[f].doc>> : f \in {g \in DOMAIN work : work[g].by = q}}
Promised ==
    \A q \in Underway : \A w \in Wrote(q) : w[2] # None =>
        /\ \A g \in DOMAIN work \ {w[1]} : w[2] \notin Docs(g)
        /\ \A p \in Underway \ {q} : \A v \in Wrote(p) : v[2] # w[2]

IntakeInv ==
    /\ Arrived /\ Written
    /\ \A r \in Imports : Early(r) /\ Naming(r) /\ Claiming(r) /\ Putting(r)
    /\ Once /\ Planned /\ Apart
    /\ OneWrite /\ Serial /\ Unique /\ Promised

------------------------------------------------------------------------------
(* A step of an import *)

\* An import that has not ended goes on, in its own place.
Turn(r) ==
    /\ r \in Imports /\ r \notin Settled
    /\ DOMAIN req' = Imports /\ DOMAIN before' = Imports
    /\ DOMAIN req'[r] = ReqFields /\ req'[r].at # "idle"
    /\ \A q \in Imports \ {r} : req'[q] = req[q] /\ before'[q] = before[q]
    /\ before'[r] = IF req[r].at = "idle" THEN Settled ELSE before[r]

LEMMA TurnFacts ==
    ASSUME Arrived, NEW r, Turn(r)
    PROVE  /\ Arrived'
           /\ Settled \subseteq Settled' /\ Failed \subseteq Failed' /\ Done \subseteq Done' /\ Begun \subseteq Begun' /\ r \in Begun'
           /\ Settled' \subseteq Settled \cup {r} /\ Done' \subseteq Done \cup {r} /\ Failed' \subseteq Failed \cup {r}
           /\ \A q \in Imports : r \notin before'[q]
           /\ before'[r] \subseteq Settled
           /\ Underway' \subseteq Underway \cup {r}
           /\ \A p, q \in Begun : Met(p, q) => Met(p, q)'
<1>1. Arrived'
  BY DEF Arrived, Turn, Settled
<1>2. /\ Settled \subseteq Settled' /\ Failed \subseteq Failed' /\ Done \subseteq Done' /\ Begun \subseteq Begun' /\ r \in Begun'
      /\ Settled' \subseteq Settled \cup {r} /\ Done' \subseteq Done \cup {r} /\ Failed' \subseteq Failed \cup {r}
  BY DEF Arrived, Turn, Settled, Failed, Done, Begun
<1>3. /\ \A q \in Imports : r \notin before'[q]
      /\ before'[r] \subseteq Settled
  BY DEF Arrived, Turn, Settled
<1>4. Underway' \subseteq Underway \cup {r}
  BY DEF Arrived, Turn, Underway, Over
<1>5. ASSUME NEW p \in Begun, NEW q \in Begun, Met(p, q) PROVE Met(p, q)'
  <2>1. p \in Imports /\ q \in Imports /\ req[p].at # "idle" /\ req[q].at # "idle"
    BY DEF Begun
  <2>2. before'[p] = before[p] /\ before'[q] = before[q] /\ req'[q].at # "idle"
    BY <2>1 DEF Turn
  <2> QED BY <1>5, <2>1, <2>2 DEF Met
<1> QED BY <1>1, <1>2, <1>3, <1>4, <1>5

\* Rows added by an import that saw none like them.
LEMMA OnceGrows ==
    ASSUME Arrived, NEW r, Turn(r), NEW T, NEW U, NEW ks, WrittenIn(T), OnceIn(T, ks), T \subseteq U,
           \A x \in U \ T : x.by = r /\ \A y \in T : (\A k \in ks : x[k] = y[k]) => y.by \notin before'[r] \cap Done
    PROVE  /\ \A x \in U : x.by \in Begun'
           /\ \A x, y \in U : x # y /\ (\A k \in ks : x[k] = y[k]) /\ {x.by, y.by} \cap Failed' = {} => Met(x.by, y.by)'
<1>1. /\ Failed \subseteq Failed' /\ Begun \subseteq Begun' /\ r \in Begun' /\ before'[r] \subseteq Settled
      /\ \A q \in Imports : r \notin before'[q]
      /\ \A p, q \in Begun : Met(p, q) => Met(p, q)'
  BY TurnFacts
<1>2. \A x \in U : x.by \in Begun'
  BY <1>1 DEF WrittenIn
<1>3. Begun \subseteq Imports /\ Begun' \subseteq Imports /\ r \in Imports
  BY DEF Begun, Turn
<1>4. \A q \in Begun' : req'[q].at # "idle"
  BY DEF Begun
<1>5. ASSUME NEW x \in U, NEW y \in U, x # y, \A k \in ks : x[k] = y[k], {x.by, y.by} \cap Failed' = {}
      PROVE  Met(x.by, y.by)'
  <2>1. CASE x \in T /\ y \in T
    BY <1>1, <1>5, <2>1 DEF OnceIn, WrittenIn
  <2>2. CASE x \notin T /\ y \notin T
    <3>1. x.by = r /\ y.by = r
      BY <2>2
    <3> QED BY <3>1, <1>1, <1>3, <1>4 DEF Met
  <2>3. ASSUME NEW a \in U \ T, NEW b \in T, \A k \in ks : a[k] = b[k], b.by \notin Failed'
        PROVE  a.by = r /\ b.by \in Begun /\ r \notin before'[b.by] /\ b.by \notin before'[r]
    <3>1. a.by = r /\ b.by \in Begun
      BY DEF WrittenIn
    <3>2. b.by \notin Settled \/ b.by \in Done
      BY <1>1, <2>3 DEF Settled, Done, Failed
    <3>3. b.by \notin before'[r] \cap Done
      BY <2>3
    <3> QED BY <3>1, <3>2, <3>3, <1>1, <1>3
  <2>4. CASE x \notin T /\ y \in T
    BY <2>3, <2>4, <1>1, <1>2, <1>4, <1>5 DEF Met
  <2>5. CASE x \in T /\ y \notin T
    BY <2>3, <2>5, <1>1, <1>2, <1>4, <1>5 DEF Met
  <2> QED BY <2>1, <2>2, <2>4, <2>5
<1> QED BY <1>2, <1>5

------------------------------------------------------------------------------
(* Rows that are numbered *)

LEMMA Pushed ==
    ASSUME NEW s, Sequential(s), NEW x
    PROVE  /\ Sequential(Append(s, x)) /\ Len(s) \in Nat
           /\ DOMAIN s = 1..Len(s) /\ DOMAIN Append(s, x) = DOMAIN s \cup {Len(s) + 1}
           /\ Len(s) + 1 \notin DOMAIN s /\ \A i \in DOMAIN s : i < Len(s) + 1
           /\ Append(s, x)[Len(s) + 1] = x
           /\ \A i \in DOMAIN s : Append(s, x)[i] = s[i]
<1>1. s \in Seq(Range(s))
  BY DEF Sequential
<1>2. /\ Len(s) \in Nat /\ DOMAIN s = 1..Len(s)
      /\ DOMAIN Append(s, x) = 1..(Len(s) + 1) /\ Len(Append(s, x)) = Len(s) + 1
      /\ Append(s, x)[Len(s) + 1] = x
      /\ \A i \in 1..Len(s) : Append(s, x)[i] = s[i]
  BY <1>1
<1>3. \A i \in 1..(Len(s) + 1) : Append(s, x)[i] \in Range(Append(s, x))
  BY <1>2 DEF Range
<1>4. s \in Seq(Range(s) \cup {x})
  <2>1. \A i \in 1..Len(s) : s[i] \in Range(s) \cup {x}
    BY <1>1
  <2> QED BY <1>1, <1>2, <2>1
<1>5. Append(s, x) \in Seq(Range(s) \cup {x})
  BY <1>4
<1>6. Range(Append(s, x)) = Range(s) \cup {x}
  BY <1>2 DEF Range
<1> QED BY <1>2, <1>5, <1>6 DEF Sequential

\* The last of some numbers.
LEMMA LastIs ==
    ASSUME NEW n \in Nat, NEW S \in SUBSET (1..n), S # {}
    PROVE  Max(S) \in S /\ \A m \in S : m <= Max(S)
<1>1. IsWellFoundedOn(OpToRel(<, Nat), Nat)
  BY NatLessThanWellFounded
<1> DEFINE T == {n - m : m \in S}
<1>2. T \subseteq Nat /\ T # {}
  <2>1. \A m \in S : m \in 1..n /\ n - m \in Nat
    OBVIOUS
  <2> QED BY <2>1
<1>3. PICK t \in T : \A u \in T : <<u, t>> \notin OpToRel(<, Nat)
  BY <1>1, <1>2, WFMin
<1>4. PICK k \in S : t = n - k
  BY <1>3
<1>5. \A m \in S : m <= k
  <2> SUFFICES ASSUME NEW m \in S PROVE m <= k
    OBVIOUS
  <2>1. n - m \in T /\ n - m \in Nat /\ n - k \in Nat
    OBVIOUS
  <2>2. ~(n - m < n - k)
    BY <1>3, <1>4, <2>1 DEF OpToRel
  <2> QED BY <2>1, <2>2
<1> QED BY <1>5 DEF Max

LEMMA LastOfIs ==
    ASSUME NEW n \in Nat, NEW S \in SUBSET (1..n), NEW k \in S, \A m \in S : m <= k
    PROVE  Max(S) = k
<1> DEFINE top == Max(S)
<1>1. top \in S /\ k <= top /\ top <= k /\ k \in 1..n /\ top \in 1..n
  BY LastIs
<1> HIDE DEF top
<1>2. top = k
  BY <1>1
<1> QED BY <1>2 DEF top

------------------------------------------------------------------------------
(* The document of a fulfilment *)

Given(f) == {i \in DOMAIN adoptions : adoptions[i].work = f /\ adoptions[i].by \in Done}

LEMMA DocumentIs ==
    ASSUME Written, NEW f
    PROVE  /\ DocumentOnFile(f) = IF Given(f) = {} THEN work[f].doc ELSE adoptions[Max(Given(f))].doc
           /\ Given(f) # {} => Max(Given(f)) \in Given(f) /\ \A i \in Given(f) : i <= Max(Given(f))
<1>1. Given(f) = {i \in DOMAIN adoptions : adoptions[i].work = f /\ req[adoptions[i].by].at = "done"}
  BY DEF Given, Done, Written, Begun
<1>2. PICK n \in Nat : DOMAIN adoptions = 1..n
  BY DEF Written, Sequential
<1>3. Given(f) \in SUBSET (1..n)
  BY <1>2 DEF Given
<1> QED BY <1>1, <1>2, <1>3, LastIs DEF DocumentOnFile

\* It changes only when an import that wrote it is done.
LEMMA DocumentStays1 ==
    ASSUME Written, Written', NEW f \in DOMAIN work, f \in DOMAIN work', work'[f] = work[f],
           DOMAIN adoptions \subseteq DOMAIN adoptions', \A i \in DOMAIN adoptions : adoptions'[i] = adoptions[i],
           Given(f)' = Given(f), work[f].by \in Done' <=> work[f].by \in Done
    PROVE  Docs(f)' = Docs(f)
<1>1. PICK G : G = Given(f)
  OBVIOUS
<1>2. DocumentOnFile(f)' = DocumentOnFile(f)
  <2>1. DocumentOnFile(f) = IF G = {} THEN work[f].doc ELSE adoptions[Max(G)].doc
    BY <1>1, DocumentIs
  <2>2. G # {} => Max(G) \in DOMAIN adoptions
    BY <1>1, DocumentIs DEF Given
  <2>3. DocumentOnFile(f)' = IF G = {} THEN work'[f].doc ELSE adoptions'[Max(G)].doc
    <3>1. Given(f)' = {i \in DOMAIN adoptions' : adoptions'[i].work = f /\ req'[adoptions'[i].by].at = "done"}
      BY DEF Given, Done, Written, Begun
    <3> QED BY <3>1, <1>1 DEF DocumentOnFile
  <2> QED BY <2>1, <2>2, <2>3
<1> QED BY <1>2 DEF Docs

\* What an import plans or adopts.
Writes(r) ==
    /\ DOMAIN work \subseteq DOMAIN work' /\ DOMAIN adoptions \subseteq DOMAIN adoptions'
    /\ \A f \in DOMAIN work : work'[f] = work[f]
    /\ \A i \in DOMAIN adoptions : adoptions'[i] = adoptions[i]
    /\ \A f \in DOMAIN work' \ DOMAIN work : work'[f].by = r
    /\ \A i \in DOMAIN adoptions' \ DOMAIN adoptions : adoptions'[i].by = r

\* Of a fulfilment that it did not write, the document stays; of any, until it is done.
LEMMA DocsHold ==
    ASSUME IntakeInv, Written', NEW r, Turn(r), Writes(r), NEW f \in DOMAIN work,
           \/ r \notin Done'
           \/ work[f].by # r /\ \A i \in DOMAIN adoptions' : adoptions'[i].by = r => adoptions'[i].work # f
    PROVE  Docs(f)' = Docs(f)
<1>1. Done \subseteq Done' /\ Done' \subseteq Done \cup {r} /\ r \notin Done
  BY TurnFacts DEF IntakeInv, Turn, Done, Settled
<1>2. Given(f)' = Given(f)
  <2>1. ASSUME NEW i \in Given(f) PROVE i \in Given(f)'
    BY <1>1, <2>1 DEF Given, Writes
  <2>2. ASSUME NEW i \in Given(f)' PROVE i \in Given(f)
    <3>1. i \in DOMAIN adoptions' /\ adoptions'[i].work = f /\ adoptions'[i].by \in Done'
      BY <2>2 DEF Given
    <3>2. adoptions'[i].by \in Done /\ adoptions'[i].by # r
      BY <1>1, <3>1
    <3> QED BY <3>1, <3>2 DEF Given, Writes
  <2> QED BY <2>1, <2>2
<1>3. work[f].by \in Done' <=> work[f].by \in Done
  BY <1>1
<1> QED BY <1>2, <1>3, DocumentStays1 DEF IntakeInv, Writes

\* Of one that it wrote, it is what it said.
LEMMA DocsGiven ==
    ASSUME IntakeInv, Written', NEW r, Turn(r), UNCHANGED <<work, adoptions>>, r \in Done',
           NEW w \in Wrote(r), w[1] \in DOMAIN work
    PROVE  \A d \in Docs(w[1])' : d = w[2]
<1>1. Done' = Done \cup {r} /\ r \notin Done /\ r \in Imports /\ r \notin Settled
  BY TurnFacts DEF IntakeInv, Turn, Done, Settled
<1>2. PICK f : f = w[1]
  OBVIOUS
<1>3. Docs(f)' \subseteq {DocumentOnFile(f)'}
  BY DEF Docs
<1>4. CASE \E i \in DOMAIN adoptions : adoptions[i].by = r /\ w = <<adoptions[i].work, adoptions[i].doc>>
  <2>1. PICK i \in DOMAIN adoptions : adoptions[i].by = r /\ w = <<adoptions[i].work, adoptions[i].doc>>
    BY <1>4
  <2>2. PICK G : G = Given(f)'
    OBVIOUS
  <2>3. r \in Underway
    BY <1>1, <2>1 DEF IntakeInv, Written, Begun, Underway, Over, Settled
  <2>4. i \in G /\ \A j \in G : j \in DOMAIN adoptions /\ adoptions[j].work = f
    BY <2>1, <2>2, <1>1, <1>2 DEF Given
  <2>5. PICK n \in Nat : DOMAIN adoptions = 1..n
    BY DEF IntakeInv, Written, Sequential
  <2>6. G \in SUBSET (1..n)
    BY <2>4, <2>5
  <2>7. \A j \in G : ~(i < j)
    BY <2>1, <2>3, <2>4, <1>2 DEF IntakeInv, Serial
  <2>8. \A j \in G : j <= i
    BY <2>4, <2>6, <2>7
  <2>9. Max(G) = i
    BY <2>4, <2>6, <2>8, LastOfIs
  <2>10. Given(f)' = {j \in DOMAIN adoptions' : adoptions'[j].work = f /\ req'[adoptions'[j].by].at = "done"}
    BY DEF Given, Done, Written, Begun
  <2>11. DocumentOnFile(f)' = adoptions[i].doc
    BY <2>2, <2>4, <2>9, <2>10 DEF DocumentOnFile
  <2> QED BY <1>2, <1>3, <2>1, <2>11
<1>5. CASE \E g \in DOMAIN work : work[g].by = r /\ w = <<g, work[g].doc>>
  <2>1. f \in DOMAIN work /\ work[f].by = r /\ w[2] = work[f].doc
    BY <1>2, <1>5
  <2>2. \A i \in DOMAIN adoptions : adoptions[i].work # f
    BY <2>1, <1>1 DEF IntakeInv, Written
  <2>3. DocumentOnFile(f)' = work[f].doc
    BY <2>2 DEF DocumentOnFile
  <2> QED BY <1>2, <1>3, <2>1, <2>3
<1> QED BY <1>4, <1>5 DEF Wrote

LEMMA DocsStay ==
    ASSUME IntakeInv, Written', NEW r, Turn(r), Writes(r), r \notin Done',
           \A w \in Wrote(r)' : w[2] # None =>
               /\ \A g \in DOMAIN work \ {w[1]} : w[2] \notin Docs(g)
               /\ \A p \in Underway \ {r} : \A v \in Wrote(p) : v[2] # w[2]
    PROVE  Unique' /\ Promised'
<1>1. \A f \in DOMAIN work : Docs(f)' = Docs(f)
  BY DocsHold
<1>2. \A f \in DOMAIN work' \ DOMAIN work : Docs(f)' = {}
  BY DEF Docs, Writes
<1>3. Unique'
  BY <1>1, <1>2 DEF Unique, IntakeInv
<1>4. ASSUME NEW q \in Imports, q # r PROVE Wrote(q)' = Wrote(q)
  BY <1>4 DEF Wrote, Writes
<1>5. Underway' \ {r} \subseteq Underway /\ Underway' \subseteq Imports /\ Underway \subseteq Imports
  BY TurnFacts DEF Underway, IntakeInv
<1>6. ASSUME NEW q \in Underway', NEW w \in Wrote(q)', w[2] # None
      PROVE  /\ \A g \in DOMAIN work' \ {w[1]} : w[2] \notin Docs(g)'
             /\ \A p \in Underway' \ {q} : \A v \in Wrote(p)' : v[2] # w[2]
  <2>1. CASE q = r
    <3>1. /\ \A g \in DOMAIN work \ {w[1]} : w[2] \notin Docs(g)
          /\ \A p \in Underway \ {r} : \A v \in Wrote(p) : v[2] # w[2]
      BY <1>6, <2>1
    <3>2. \A g \in DOMAIN work' \ {w[1]} : w[2] \notin Docs(g)'
      BY <3>1, <1>1, <1>2
    <3>3. \A p \in Underway' \ {r} : p \in Underway \ {r} /\ Wrote(p)' = Wrote(p)
      BY <1>4, <1>5
    <3> QED BY <2>1, <3>1, <3>2, <3>3
  <2>2. CASE q # r
    <3>1. q \in Underway /\ w \in Wrote(q)
      BY <1>4, <1>5, <1>6, <2>2
    <3>2. /\ \A g \in DOMAIN work \ {w[1]} : w[2] \notin Docs(g)
          /\ \A p \in Underway \ {q} : \A v \in Wrote(p) : v[2] # w[2]
      BY <1>6, <3>1 DEF IntakeInv, Promised
    <3>3. \A g \in DOMAIN work' \ {w[1]} : w[2] \notin Docs(g)'
      BY <3>2, <1>1, <1>2
    <3>4. ASSUME NEW p \in Underway' \ {q}, NEW v \in Wrote(p)' PROVE v[2] # w[2]
      <4>1. CASE p # r
        BY <3>2, <4>1, <1>4, <1>5
      <4>2. CASE p = r
        <5>1. v[2] # None => \A u \in Wrote(q) : u[2] # v[2]
          BY <3>1, <2>2, <4>2
        <5> QED BY <5>1, <3>1, <1>6
      <4> QED BY <4>1, <4>2
    <3> QED BY <3>3, <3>4
  <2> QED BY <2>1, <2>2
<1> QED BY <1>3, <1>6 DEF Promised

LEMMA DocsDone ==
    ASSUME IntakeInv, Written', NEW r, Turn(r), UNCHANGED <<work, adoptions>>
    PROVE  Unique' /\ Promised'
<1>1. \A w \in Wrote(r) : r \in Underway /\ w[1] \in DOMAIN work
  BY DEF Wrote, IntakeInv, Written, Begun, Turn, Underway, Over, Settled
<1>2. Wrote(r)' = Wrote(r) /\ Writes(r)
  BY DEF Wrote, Writes
<1>3. CASE r \notin Done'
  <2>1. \A w \in Wrote(r) : w[2] # None =>
               /\ \A g \in DOMAIN work \ {w[1]} : w[2] \notin Docs(g)
               /\ \A p \in Underway \ {r} : \A v \in Wrote(p) : v[2] # w[2]
    BY <1>1 DEF IntakeInv, Promised
  <2> QED BY <1>2, <1>3, <2>1, DocsStay
<1>4. CASE r \in Done'
  <2>1. \A q \in Imports : Wrote(q)' = Wrote(q)
    BY DEF Wrote
  <2>2. Underway' \subseteq Underway /\ r \notin Underway' /\ Underway \subseteq Imports
    BY <1>4, TurnFacts DEF IntakeInv, Done, Underway, Over
  <2>3. \A w \in Wrote(r) : \A d \in Docs(w[1])' : d = w[2]
    BY <1>1, <1>4, DocsGiven
  <2>4. \A f \in DOMAIN work : (\A w \in Wrote(r) : w[1] # f) => Docs(f)' = Docs(f)
    <3> SUFFICES ASSUME NEW f \in DOMAIN work, \A w \in Wrote(r) : w[1] # f PROVE Docs(f)' = Docs(f)
      OBVIOUS
    <3>1. work[f].by # r
      <4>1. work[f].by = r => <<f, work[f].doc>> \in Wrote(r)
        BY DEF Wrote
      <4> QED BY <4>1
    <3>2. \A i \in DOMAIN adoptions : adoptions[i].by = r => adoptions[i].work # f
      <4>1. \A i \in DOMAIN adoptions : adoptions[i].by = r => <<adoptions[i].work, adoptions[i].doc>> \in Wrote(r)
        BY DEF Wrote
      <4> QED BY <4>1
    <3> QED BY <3>1, <3>2, <1>2, DocsHold
  <2>5. \A v, w \in Wrote(r) : v = w
    BY DEF Wrote, IntakeInv, OneWrite
  <2>6. \A f \in DOMAIN work : \A d \in Docs(f)' : d # None
    BY DEF Docs
  <2>7. \A w \in Wrote(r) : w[2] # None => \A g \in DOMAIN work \ {w[1]} : w[2] \notin Docs(g)
    BY <1>1 DEF IntakeInv, Promised
  <2>8. Unique'
    <3> SUFFICES ASSUME NEW f \in DOMAIN work, NEW g \in DOMAIN work, f # g, NEW d, d \in Docs(f)', d \in Docs(g)' PROVE FALSE
      BY DEF Unique
    <3>1. ASSUME NEW a \in DOMAIN work, NEW b \in DOMAIN work, a # b, d \in Docs(a)', d \in Docs(b)',
                 NEW w \in Wrote(r), w[1] = a
          PROVE  FALSE
      <4>1. d = w[2] /\ d # None
        BY <3>1, <2>3, <2>6
      <4>2. Docs(b)' = Docs(b)
        BY <3>1, <2>4, <2>5
      <4> QED BY <3>1, <4>1, <4>2, <2>7
    <3>2. CASE \E w \in Wrote(r) : w[1] = f
      BY <3>1, <3>2
    <3>3. CASE \E w \in Wrote(r) : w[1] = g
      BY <3>1, <3>3
    <3>4. CASE \A w \in Wrote(r) : w[1] # f /\ w[1] # g
      BY <3>4, <2>4 DEF IntakeInv, Unique
    <3> QED BY <3>2, <3>3, <3>4
  <2>9. ASSUME NEW q \in Underway', NEW w \in Wrote(q), w[2] # None
        PROVE  /\ \A g \in DOMAIN work \ {w[1]} : w[2] \notin Docs(g)'
               /\ \A p \in Underway' \ {q} : \A v \in Wrote(p) : v[2] # w[2]
    <3>1. /\ \A g \in DOMAIN work \ {w[1]} : w[2] \notin Docs(g)
          /\ \A p \in Underway \ {q} : \A v \in Wrote(p) : v[2] # w[2]
      BY <2>2, <2>9 DEF IntakeInv, Promised
    <3>2. ASSUME NEW g \in DOMAIN work \ {w[1]}, w[2] \in Docs(g)' PROVE FALSE
      <4>1. CASE \E v \in Wrote(r) : v[1] = g
        <5>1. PICK v \in Wrote(r) : v[1] = g
          BY <4>1
        <5>2. r \in Underway \ {q} /\ w[2] = v[2]
          BY <5>1, <3>2, <2>2, <2>3, <1>1
        <5> QED BY <5>1, <5>2, <3>1
      <4>2. CASE \A v \in Wrote(r) : v[1] # g
        BY <4>2, <3>1, <3>2, <2>4
      <4> QED BY <4>1, <4>2
    <3> QED BY <3>1, <3>2, <2>2
  <2>10. Promised'
    <3>1. \A q \in Underway' : Wrote(q)' = Wrote(q)
      BY <2>1, <2>2
    <3>2. DOMAIN work' = DOMAIN work
      OBVIOUS
    <3> QED BY <3>1, <3>2, <2>9 DEF Promised
  <2> QED BY <2>8, <2>10
<1> QED BY <1>3, <1>4

------------------------------------------------------------------------------
(* What a step leaves to the others, and of the rest *)

\* Rows added by r, none like what it could see of those that had ended when it began.
Alone(r, T, U, ks) ==
    /\ T \subseteq U
    /\ \A x \in U \ T : x.by = r /\ \A y \in T : (\A k \in ks : x[k] = y[k]) => y.by \notin before'[r] \cap Done

Rows(r) ==
    /\ Alone(r, arrivals, arrivals', {"send"}) /\ Alone(r, orders, orders', {"number"})
    /\ Alone(r, orderLines, orderLines', {"order", "item", "no"})
    /\ Alone(r, commitments, commitments', {"work", "line"})

LEMMA RowsKept ==
    ASSUME IntakeInv, NEW r, Turn(r), Rows(r), Writes(r), Sequential(work)', Sequential(adoptions)',
           \A i \in DOMAIN adoptions' \ DOMAIN adoptions :
               /\ adoptions'[i].work \in DOMAIN work /\ work[adoptions'[i].work].by \in Done
               /\ adoptions'[i].doc # None /\ work[adoptions'[i].work].doc = None
    PROVE  /\ Arrived' /\ Written' /\ Once'
           /\ \A q \in Imports \ {r} : Early(q)' /\ Naming(q)' /\ Claiming(q)' /\ Putting(q)'
<1>1. /\ Arrived' /\ Done \subseteq Done' /\ Begun \subseteq Begun' /\ r \in Begun' /\ Done' \subseteq Done \cup {r}
      /\ \A q \in Imports : r \notin before'[q]
  BY TurnFacts DEF IntakeInv
<1>2. WrittenIn(arrivals)' /\ OnceIn(arrivals, {"send"})'
  <2>1. PICK U : U = arrivals'
    OBVIOUS
  <2>2. PICK T : T = arrivals
    OBVIOUS
  <2>3. WrittenIn(T) /\ OnceIn(T, {"send"}) /\ Alone(r, T, U, {"send"}) /\ Arrived
    BY <2>1, <2>2 DEF IntakeInv, Written, Once, Rows
  <2>4. /\ \A x \in U : x.by \in Begun'
        /\ \A x, y \in U : x # y /\ (\A k \in {"send"} : x[k] = y[k]) /\ {x.by, y.by} \cap Failed' = {} => Met(x.by, y.by)'
    BY <2>3, OnceGrows DEF Alone
  <2> QED BY <2>1, <2>4 DEF WrittenIn, OnceIn
<1>3. WrittenIn(orders)' /\ OnceIn(orders, {"number"})'
  <2>1. PICK U : U = orders'
    OBVIOUS
  <2>2. PICK T : T = orders
    OBVIOUS
  <2>3. WrittenIn(T) /\ OnceIn(T, {"number"}) /\ Alone(r, T, U, {"number"}) /\ Arrived
    BY <2>1, <2>2 DEF IntakeInv, Written, Once, Rows
  <2>4. /\ \A x \in U : x.by \in Begun'
        /\ \A x, y \in U : x # y /\ (\A k \in {"number"} : x[k] = y[k]) /\ {x.by, y.by} \cap Failed' = {} => Met(x.by, y.by)'
    BY <2>3, OnceGrows DEF Alone
  <2> QED BY <2>1, <2>4 DEF WrittenIn, OnceIn
<1>4. WrittenIn(orderLines)' /\ OnceIn(orderLines, {"order", "item", "no"})'
  <2>1. PICK U : U = orderLines'
    OBVIOUS
  <2>2. PICK T : T = orderLines
    OBVIOUS
  <2>3. PICK ks : ks = {"order", "item", "no"}
    OBVIOUS
  <2>4. WrittenIn(T) /\ OnceIn(T, ks) /\ Alone(r, T, U, ks) /\ Arrived
    BY <2>1, <2>2, <2>3 DEF IntakeInv, Written, Once, Rows
  <2>5. /\ \A x \in U : x.by \in Begun'
        /\ \A x, y \in U : x # y /\ (\A k \in ks : x[k] = y[k]) /\ {x.by, y.by} \cap Failed' = {} => Met(x.by, y.by)'
    BY <2>4, OnceGrows DEF Alone
  <2> QED BY <2>1, <2>3, <2>5 DEF WrittenIn, OnceIn
<1>5. WrittenIn(commitments)' /\ OnceIn(commitments, {"work", "line"})'
  <2>1. PICK U : U = commitments'
    OBVIOUS
  <2>2. PICK T : T = commitments
    OBVIOUS
  <2>3. PICK ks : ks = {"work", "line"}
    OBVIOUS
  <2>4. WrittenIn(T) /\ OnceIn(T, ks) /\ Alone(r, T, U, ks) /\ Arrived
    BY <2>1, <2>2, <2>3 DEF IntakeInv, Written, Once, Rows
  <2>5. /\ \A x \in U : x.by \in Begun'
        /\ \A x, y \in U : x # y /\ (\A k \in ks : x[k] = y[k]) /\ {x.by, y.by} \cap Failed' = {} => Met(x.by, y.by)'
    BY <2>4, OnceGrows DEF Alone
  <2> QED BY <2>1, <2>3, <2>5 DEF WrittenIn, OnceIn
<1>6. \A f \in DOMAIN work' : work'[f].by \in Begun'
  BY <1>1 DEF IntakeInv, Written, Writes
<1>7. ASSUME NEW i \in DOMAIN adoptions'
      PROVE  /\ adoptions'[i].by \in Begun'
             /\ adoptions'[i].work \in DOMAIN work' /\ work'[adoptions'[i].work].by \in Done'
             /\ adoptions'[i].doc # None /\ work'[adoptions'[i].work].doc = None
  <2>1. adoptions'[i].by \in Begun'
    BY <1>1 DEF IntakeInv, Written, Writes
  <2>2. /\ adoptions'[i].work \in DOMAIN work /\ work[adoptions'[i].work].by \in Done
        /\ adoptions'[i].doc # None /\ work[adoptions'[i].work].doc = None
    BY DEF IntakeInv, Written, Writes
  <2> QED BY <1>1, <2>1, <2>2 DEF Writes
<1>8. Written'
  BY <1>2, <1>3, <1>4, <1>5, <1>6, <1>7 DEF Written
<1>9. Once'
  BY <1>2, <1>3, <1>4, <1>5 DEF Once
<1>10. ASSUME NEW q \in Imports, q # r PROVE Early(q)' /\ Naming(q)' /\ Claiming(q)' /\ Putting(q)'
  <2>1. req'[q] = req[q] /\ before'[q] = before[q] /\ r \notin before[q]
    BY <1>1, <1>10 DEF Turn
  <2>2. Early(q)'
    BY <1>10, <2>1 DEF Early, Writes, IntakeInv
  <2>3. Claiming(q)'
    <3>1. \A i \in DOMAIN adoptions' : adoptions'[i].by \in before[q] \cap Done' =>
             i \in DOMAIN adoptions /\ adoptions'[i] = adoptions[i] /\ adoptions[i].by \in before[q] \cap Done
      BY <1>1, <2>1 DEF Writes
    <3> QED BY <3>1, <1>1, <2>1 DEF Claiming, Writes, IntakeInv
  <2>4. Naming(q)'
    BY <2>1 DEF Naming, Send, IntakeInv
  <2>5. Putting(q)'
    <3>1. ASSUME req[q].at = "put", NEW c \in commitments', c.by \in before[q] \cap Done'
          PROVE  ~(c.work = req[q].work /\ c.line = req[q].line)
      <4>1. c.by \in Done /\ c.by # r
        BY <1>1, <2>1, <3>1
      <4>2. c \in commitments
        BY <4>1 DEF Rows, Alone
      <4> QED BY <3>1, <4>1, <4>2 DEF Putting, IntakeInv
    <3> QED BY <2>1, <3>1 DEF Putting
  <2> QED BY <2>2, <2>3, <2>4, <2>5
<1> QED BY <1>1, <1>8, <1>9, <1>10

\* What a file is read as.
Reads(s, at) ==
    /\ at \in {"replace", "clear", "fill"} => s.feed.of \in {"orders", "stock"}
    /\ at \in {"unsay", "say", "read fields", "close", "read open", "open"} =>
          s.feed.of = "details" /\ s.at \in Int
    /\ at \in {"read packed", "pack"} => s.feed.of = "packed"
Reading(r) == Reads(req[r].send, req[r].at)

\* What every step of an import is.
StepsOn(r) == Turn(r) /\ Writes(r) /\ (Reading(r) => Reading(r)')

\* A step that neither plans nor adopts.
LEMMA WorkKept ==
    ASSUME IntakeInv, NEW r, Turn(r), Rows(r), UNCHANGED <<work, adoptions>>,
           req'[r].at \in Until => req[r].at \in Until, Naming(r)', Claiming(r)', Putting(r)',
           Reading(r) => Reading(r)'
    PROVE  IntakeInv' /\ StepsOn(r)
<1>1. Writes(r) /\ Sequential(work)' /\ Sequential(adoptions)'
  BY DEF Writes, IntakeInv, Written
<1>2. /\ Arrived' /\ Written' /\ Once'
      /\ \A q \in Imports \ {r} : Early(q)' /\ Naming(q)' /\ Claiming(q)' /\ Putting(q)'
  BY <1>1, RowsKept
<1>3. r \in Imports /\ Early(r)'
  BY DEF Early, Turn, IntakeInv
<1>4. Planned' /\ Apart'
  <2>1. Failed \subseteq Failed' /\ \A p, q \in Begun : Met(p, q) => Met(p, q)'
    BY TurnFacts DEF IntakeInv
  <2>2. Planned'
    BY <2>1 DEF IntakeInv, Planned, Written
  <2>3. Apart'
    BY <2>1 DEF IntakeInv, Apart, Written
  <2> QED BY <2>2, <2>3
<1>5. OneWrite'
  BY DEF OneWrite, IntakeInv
<1>6. Serial'
  <2>1. \A i \in DOMAIN adoptions : adoptions[i].by \in Underway' => adoptions[i].by \in Underway
    BY DEF IntakeInv, Written, Begun, Turn, Underway, Over, Settled
  <2> QED BY <2>1 DEF IntakeInv, Serial
<1>7. Unique' /\ Promised'
  BY <1>2, DocsDone
<1> QED BY <1>1, <1>2, <1>3, <1>4, <1>5, <1>6, <1>7 DEF IntakeInv, StepsOn

\* A step that writes nothing these are about.
Calm(r) ==
    /\ Turn(r) /\ UNCHANGED <<arrivals, orders, orderLines, commitments, work, adoptions>>
    /\ req'[r].at \in Until => req[r].at \in Until

LEMMA CalmKeeps ==
    ASSUME IntakeInv, NEW r, Calm(r), Naming(r)', Claiming(r)', Putting(r)', Reading(r) => Reading(r)'
    PROVE  IntakeInv' /\ StepsOn(r)
<1>1. Rows(r)
  BY DEF Rows, Alone, Calm
<1> QED BY <1>1, WorkKept DEF Calm

------------------------------------------------------------------------------
(* How an import goes on *)

LEMMA Turns ==
    ASSUME Arrived, NEW r, r \in Underway, UNCHANGED before, NEW p, DOMAIN p = ReqFields, p.at # "idle",
           req' = [req EXCEPT ![r] = p]
    PROVE  Turn(r) /\ req'[r] = p
<1>1. r \in Imports /\ r \notin Settled /\ req[r].at # "idle"
  BY DEF Underway, Over, Settled
<1> QED BY <1>1 DEF Arrived, Turn

LEMMA ProceedsOn ==
    ASSUME Arrived, NEW r, r \in Underway, UNCHANGED before, NEW step, step # "idle", Proceeds(r, step)
    PROVE  Turn(r) /\ req'[r].at = step /\ req'[r].send = req[r].send /\ req'[r].work = req[r].work /\ req'[r].line = req[r].line
<1> DEFINE p == [req[r] EXCEPT !.at = step]
<1>1. r \in Imports /\ DOMAIN req[r] = ReqFields
  BY DEF Underway, Arrived
<1>2. /\ DOMAIN p = ReqFields /\ p.at = step
      /\ p.send = req[r].send /\ p.work = req[r].work /\ p.line = req[r].line
  BY <1>1 DEF ReqFields
<1>3. req' = [req EXCEPT ![r] = p]
  BY <1>1 DEF Proceeds
<1> HIDE DEF p
<1> QED BY <1>2, <1>3, Turns

LEMMA TakesOn ==
    ASSUME Arrived, NEW r, r \in Underway, UNCHANGED before, NEW step, step # "idle",
           NEW field \in {"wants", "order", "work", "line", "row"}, NEW value, Takes(r, step, field, value)
    PROVE  Turn(r) /\ req'[r].at = step /\ req'[r].send = req[r].send /\ req'[r][field] = value
<1> DEFINE p == [req[r] EXCEPT !.at = step, ![field] = value]
<1>1. r \in Imports /\ DOMAIN req[r] = ReqFields /\ DOMAIN req = Imports
  BY DEF Underway, Arrived
<1>2. DOMAIN p = ReqFields /\ p.at = step /\ p.send = req[r].send /\ p[field] = value
  BY <1>1 DEF ReqFields
<1>3. req' = [req EXCEPT ![r] = p]
  BY <1>1 DEF Takes
<1> HIDE DEF p
<1> QED BY <1>2, <1>3, Turns

LEMMA EndsOn ==
    ASSUME Arrived, NEW r, r \in Underway, UNCHANGED before, NEW how, how # "idle", Ends(r, how)
    PROVE  Turn(r) /\ req'[r].at = how
<1> DEFINE p == [Fresh(req[r].send, req[r].apply) EXCEPT !.at = how]
<1>1. DOMAIN p = ReqFields /\ p.at = how
  BY DEF Fresh, ReqFields
<1>2. req' = [req EXCEPT ![r] = p]
  BY DEF Ends
<1> HIDE DEF p
<1> QED BY <1>1, <1>2, Turns

LEMMA NextLineOn ==
    ASSUME Arrived, NEW r, r \in Underway, UNCHANGED before, NextLine(r)
    PROVE  Turn(r) /\ req'[r].at \in {"loaded", "line"}
<1> DEFINE step == IF req[r].n = Len(Send(r).lines) THEN "loaded" ELSE "line"
           p == [req[r] EXCEPT !.n = @ + 1, !.line = None, !.row = None, !.at = step]
<1>1. r \in Imports /\ DOMAIN req[r] = ReqFields /\ DOMAIN req = Imports
  BY DEF Underway, Arrived
<1>2. DOMAIN p = ReqFields /\ p.at = step
  BY <1>1 DEF ReqFields
<1>3. req' = [req EXCEPT ![r] = p]
  BY <1>1 DEF NextLine
<1>4. step \in {"loaded", "line"}
  OBVIOUS
<1> HIDE DEF step
<1>5. p.at # "idle"
  BY <1>2, <1>4
<1> HIDE DEF p
<1> QED BY <1>2, <1>3, <1>4, <1>5, Turns

LEMMA NextRowOn ==
    ASSUME Arrived, NEW r, r \in Underway, UNCHANGED before, NEW step, step # "idle", NextRow(r, step)
    PROVE  Turn(r) /\ req'[r].at \in {step, "done", "undone"}
<1> DEFINE p == [req[r] EXCEPT !.at = step, !.n = @ + 1]
<1>1. r \in Imports /\ DOMAIN req[r] = ReqFields /\ DOMAIN req = Imports
  BY DEF Underway, Arrived
<1>2. DOMAIN p = ReqFields /\ p.at = step
  BY <1>1 DEF ReqFields
<1>3. CASE req' = [req EXCEPT ![r].at = step, ![r].n = @ + 1]
  <2>1. req' = [req EXCEPT ![r] = p]
    BY <1>1, <1>3
  <2> HIDE DEF p
  <2> QED BY <1>2, <2>1, Turns
<1>4. CASE Ended(r)
  <2>1. CASE req[r].apply
    BY <1>4, <2>1, EndsOn DEF Ended
  <2>2. CASE ~req[r].apply
    BY <1>4, <2>2, EndsOn DEF Ended
  <2> QED BY <2>1, <2>2
<1> QED BY <1>3, <1>4 DEF NextRow

LEMMA NextHouseOn ==
    ASSUME Arrived, NEW r, r \in Underway, UNCHANGED before, NEW found, NextHouse(r, found)
    PROVE  Turn(r) /\ req'[r].at \in {"bin", "site"}
<1> DEFINE step == IF req[r].n = Len(Send(r).houses) THEN "bin" ELSE "site"
           m == IF req[r].n = Len(Send(r).houses) THEN 1 ELSE req[r].n + 1
           p == [req[r] EXCEPT !.wants = @ \cup found, !.n = m, !.at = step]
<1>1. r \in Imports /\ DOMAIN req[r] = ReqFields /\ DOMAIN req = Imports
  BY DEF Underway, Arrived
<1>2. DOMAIN p = ReqFields /\ p.at = step
  BY <1>1 DEF ReqFields
<1>3. req' = [req EXCEPT ![r] = p]
  BY <1>1 DEF NextHouse
<1>4. step \in {"bin", "site"}
  OBVIOUS
<1> HIDE DEF step, m
<1>5. p.at # "idle"
  BY <1>2, <1>4
<1> HIDE DEF p
<1> QED BY <1>2, <1>3, <1>4, <1>5, Turns

------------------------------------------------------------------------------
(* The steps *)

LEMMA PlainKeeps ==
    ASSUME IntakeInv, NEW r, Turn(r), UNCHANGED <<arrivals, orders, orderLines, commitments, work, adoptions>>,
           req'[r].at \notin {"find", "adopt", "claim", "raise", "put"}, req'[r].at \in Until => req[r].at \in Until,
           Reading(r) => Reading(r)'
    PROVE  IntakeInv' /\ StepsOn(r)
<1>1. Naming(r)' /\ Claiming(r)' /\ Putting(r)'
  BY DEF Naming, Claiming, Putting
<1> QED BY <1>1, CalmKeeps DEF Calm

LEMMA RefuseKeeps ==
    ASSUME IntakeInv, NEW r, r \in Underway, Ends(r, "refused"),
           UNCHANGED <<arrivals, tables, before>>
    PROVE  IntakeInv' /\ StepsOn(r)
<1>1. Turn(r) /\ req'[r].at = "refused"
  BY EndsOn DEF IntakeInv
<1> QED BY <1>1, PlainKeeps DEF tables, Until, Reading, Reads

LEMMA StoredKeeps ==
    ASSUME IntakeInv, NEW r \in Imports, NEW s, NEW apply, NEW next, Stored(r, s, apply, next),
           next \notin Until \cup {"put"} \/ next = "items", Reads(s, next)
    PROVE  IntakeInv' /\ StepsOn(r)
<1> DEFINE fresh == apply /\ ~\E a \in arrivals : a.send = s /\ req[a.by].at = "done"
           p == [Fresh(s, apply) EXCEPT !.at = next, !.new = fresh]
<1>1. /\ req[r].at = "idle" /\ req' = [req EXCEPT ![r] = p] /\ before' = [before EXCEPT ![r] = {q \in Imports : req[q].at \in Over \ {"idle"}}]
      /\ arrivals' = IF fresh THEN arrivals \cup {[by |-> r, send |-> s]} ELSE arrivals
      /\ UNCHANGED tables
  BY DEF Stored
<1>2. DOMAIN p = ReqFields /\ p.at = next /\ p.send = s
  BY DEF Fresh, ReqFields
<1>3. next # "idle"
  BY DEF Until
<1>4. {q \in Imports : req[q].at \in Over \ {"idle"}} = Settled
  BY DEF Over, Settled
<1> HIDE DEF p
<1>5. Turn(r) /\ req'[r].at = next /\ req'[r].send = s
  BY <1>1, <1>2, <1>3, <1>4 DEF IntakeInv, Arrived, Turn, Settled
<1>6. Alone(r, arrivals, arrivals', {"send"})
  <2>1. CASE ~fresh
    BY <1>1, <2>1 DEF Alone
  <2>2. CASE fresh
    <3>1. \A y \in arrivals : y.send = s => y.by \notin Done
      BY <2>2 DEF Done
    <3>2. arrivals' = arrivals \cup {[by |-> r, send |-> s]}
      BY <1>1, <2>2
    <3>3. ASSUME NEW x \in arrivals' \ arrivals, NEW y \in arrivals, \A k \in {"send"} : x[k] = y[k]
          PROVE  x.by = r /\ y.by \notin Done
      BY <3>1, <3>2, <3>3
    <3>4. \A x \in arrivals' \ arrivals : x.by = r
      BY <3>2
    <3> HIDE DEF fresh
    <3> QED BY <3>2, <3>3, <3>4 DEF Alone
  <2> QED BY <2>1, <2>2
<1>7. Rows(r)
  BY <1>1, <1>6 DEF Rows, Alone, tables
<1>8. req'[r].at \in Until => req[r].at \in Until
  BY <1>1 DEF Until
<1>9. Naming(r)' /\ Claiming(r)' /\ Putting(r)'
  BY <1>5 DEF Naming, Claiming, Putting, Until
<1> QED BY <1>1, <1>5, <1>7, <1>8, <1>9, WorkKept DEF tables, Reading, Reads

LEMMA ItemsKeeps == ASSUME IntakeInv, NEW r, Items(r) PROVE IntakeInv' /\ StepsOn(r)
<1>1. r \in Underway /\ req[r].at = "items"
  BY DEF Items, At
<1>2. Turn(r) /\ req'[r].at \in {"order", "loaded", "make"}
  <2>1. CASE Lacks(r) = {}
    <3>1. PICK step \in {"order", "loaded"} : Takes(r, step, "wants", Lacks(r))
      BY <2>1 DEF Items, Loading
    <3> QED BY <1>1, <3>1, TakesOn DEF Items, IntakeInv
  <2>2. CASE Lacks(r) # {}
    <3>1. Takes(r, "make", "wants", Lacks(r))
      BY <2>2 DEF Items
    <3> QED BY <1>1, <3>1, TakesOn DEF Items, IntakeInv
  <2> QED BY <2>1, <2>2
<1> QED BY <1>1, <1>2, PlainKeeps DEF Items, tables, Until, Reading, Reads

LEMMA MakeKeeps == ASSUME IntakeInv, NEW r, Make(r) PROVE IntakeInv' /\ StepsOn(r)
<1>1. r \in Underway /\ req[r].at = "make"
  BY DEF Make, Unblocked, At
<1>2. CASE Refuse(r)
  BY <1>1, <1>2, RefuseKeeps DEF Refuse
<1>3. CASE Proceeds(r, Loading(r)) /\ UNCHANGED <<arrivals, orders, orderLines, commitments, work, adoptions, before>>
  <2>1. PICK step \in {"order", "loaded"} : Proceeds(r, step)
    BY <1>3 DEF Loading
  <2>2. Turn(r) /\ req'[r].at = step
    BY <1>1, <1>3, <2>1, ProceedsOn DEF IntakeInv
  <2> QED BY <1>1, <1>3, <2>1, <2>2, PlainKeeps DEF Until, Reading, Reads
<1> QED BY <1>2, <1>3 DEF Make

LEMMA OrderKeeps == ASSUME IntakeInv, NEW r, Order(r) PROVE IntakeInv' /\ StepsOn(r)
<1>1. r \in Underway /\ req[r].at = "order" /\ Underway \subseteq Imports
  BY DEF Order, At, Underway
<1>2. Turn(r) /\ req'[r].at = "choose"
  BY <1>1, ProceedsOn DEF Order, IntakeInv
<1> DEFINE new == [by |-> r, number |-> Send(r).order]
<1>3. Alone(r, orders, orders', {"number"})
  <2>1. CASE Numbered(r) # {}
    BY <2>1 DEF Order, Alone
  <2>2. CASE Numbered(r) = {}
    <3>1. orders' = orders \cup {new}
      BY <2>2 DEF Order
    <3>2. \A y \in orders : y.number = new.number => y.by \notin Done
      BY <2>2 DEF Numbered, See, Done
    <3>3. new.by = r
      OBVIOUS
    <3> HIDE DEF new
    <3> QED BY <3>1, <3>2, <3>3 DEF Alone
  <2> QED BY <2>1, <2>2
<1>4. Rows(r)
  BY <1>3 DEF Rows, Alone, Order
<1>5. Naming(r)' /\ Claiming(r)' /\ Putting(r)'
  BY <1>2 DEF Naming, Claiming, Putting
<1> QED BY <1>1, <1>2, <1>4, <1>5, WorkKept DEF Order, Until, Reading, Reads

LEMMA ChooseKeeps == ASSUME IntakeInv, NEW r, ChooseOrder(r) PROVE IntakeInv' /\ StepsOn(r)
<1>1. r \in Underway /\ req[r].at = "choose" /\ UNCHANGED <<arrivals, tables, before>>
  BY DEF ChooseOrder, At
<1>2. PICK o \in Numbered(r) : Takes(r, IF Send(r).doc = None THEN "plan" ELSE "find", "order", o)
  BY DEF ChooseOrder
<1>3. CASE Send(r).doc = None
  <2>1. Turn(r) /\ req'[r].at = "plan"
    <3>1. Takes(r, "plan", "order", o)
      BY <1>2, <1>3
    <3> QED BY <1>1, <3>1, TakesOn DEF IntakeInv
  <2> QED BY <1>1, <2>1, PlainKeeps DEF Until, tables, Reading, Reads
<1>4. CASE Send(r).doc # None
  <2>1. Turn(r) /\ req'[r].at = "find" /\ req'[r].send = req[r].send
    <3>1. Takes(r, "find", "order", o)
      BY <1>2, <1>4
    <3> QED BY <1>1, <3>1, TakesOn DEF IntakeInv
  <2>2. Naming(r)' /\ Claiming(r)' /\ Putting(r)'
    BY <1>4, <2>1 DEF Naming, Claiming, Putting, Send
  <2>3. Calm(r)
    BY <1>1, <2>1 DEF Calm, Until, tables
  <2> QED BY <2>1, <2>2, <2>3, CalmKeeps DEF Reading, Reads
<1> QED BY <1>3, <1>4

\* The first of some numbers is one of them.
LEMMA LeastIs ==
    ASSUME NEW S \in SUBSET Nat, S # {}
    PROVE  Min(S) \in S
<1>1. IsWellFoundedOn(OpToRel(<, Nat), Nat)
  BY NatLessThanWellFounded
<1>2. PICK k \in S : \A m \in S : <<m, k>> \notin OpToRel(<, Nat)
  BY <1>1, WFMin
<1>3. ASSUME NEW m \in S PROVE k <= m
  <2>1. m \in Nat /\ k \in Nat /\ ~(m < k)
    BY <1>2 DEF OpToRel
  <2> QED BY <2>1
<1> QED BY <1>3 DEF Min

\* Before it has planned or adopted, an import reads the documents on file.
LEMMA ReadsOnFile ==
    ASSUME IntakeInv, NEW r \in Imports, req[r].at \in Until
    PROVE  /\ \A f \in DOMAIN work : f \in Seen(r, work) <=> work[f].by \in Done
           /\ \A f \in DOMAIN work : DocumentSeen(r, f) = DocumentOnFile(f)
<1>1. \A f \in DOMAIN work : work[f].by # r /\ work[f].by \in Imports
  BY DEF IntakeInv, Early, Written, Begun
<1>2. \A i \in DOMAIN adoptions : adoptions[i].by # r
  BY DEF IntakeInv, Early
<1>3. \A f \in DOMAIN work : f \in Seen(r, work) <=> work[f].by \in Done
  BY <1>1 DEF Seen, Done
<1>4. ASSUME NEW f \in DOMAIN work PROVE DocumentSeen(r, f) = DocumentOnFile(f)
  <2>1. {i \in Seen(r, adoptions) : adoptions[i].work = f}
        = {i \in DOMAIN adoptions : adoptions[i].work = f /\ req[adoptions[i].by].at = "done"}
    BY <1>2 DEF Seen
  <2> QED BY <2>1 DEF DocumentSeen, DocumentOnFile
<1> QED BY <1>3, <1>4

\* A fulfilment planned: its document is on file of no other, nor given by another.
LEMMA PlansKeeps ==
    ASSUME IntakeInv, NEW r \in Underway, req[r].at \in Until, NEW doc, Plans(r, doc),
           Turn(r), req'[r].at \in {"first", "line"},
           UNCHANGED <<arrivals, orders, orderLines, commitments, adoptions>>,
           doc = None => OfOrder(r) = {},
           doc # None => /\ \A g \in DOMAIN work : doc \notin Docs(g)
                         /\ \A p \in Underway \ {r} : \A v \in Wrote(p) : v[2] # doc
    PROVE  IntakeInv' /\ StepsOn(r)
<1> DEFINE new == [by |-> r, order |-> req[r].order, doc |-> doc]
           last == Len(work) + 1
<1>1. r \in Imports /\ Sequential(work) /\ work' = Append(work, new) /\ req'[r].at # "done"
  BY DEF Underway, Plans, IntakeInv, Written, Until, Turn
<1>1a. PICK w2 : w2 = Append(work, new)
  OBVIOUS
<1>2. /\ Sequential(w2)
      /\ DOMAIN w2 = DOMAIN work \cup {last} /\ last \notin DOMAIN work /\ w2[last] = new
      /\ ~(last < last) /\ \A i \in DOMAIN work : i < last /\ ~(last < i)
      /\ \A i \in DOMAIN work : w2[i] = work[i]
  <2>1. Len(work) \in Nat /\ DOMAIN work = 1..Len(work)
    BY <1>1, Pushed
  <2>2. ~(last < last) /\ \A i \in DOMAIN work : i < last /\ ~(last < i)
    BY <2>1
  <2> HIDE DEF new
  <2> QED BY <1>1, <1>1a, <2>2, Pushed
<1>3. work' = w2 /\ new.by = r /\ new.order = req[r].order /\ new.doc = doc
  BY <1>1, <1>1a
<1>4. \A f \in DOMAIN work : work[f].by # r
  BY <1>1 DEF IntakeInv, Early
<1>5. \A i \in DOMAIN adoptions : adoptions[i].by # r
  BY <1>1 DEF IntakeInv, Early
<1> HIDE DEF new, last
<1>6. Writes(r) /\ Sequential(work)' /\ Sequential(adoptions)' /\ Rows(r)
  <2>1. Sequential(work')
    BY <1>2, <1>3
  <2> QED BY <2>1, <1>2, <1>3 DEF Writes, Rows, Alone, IntakeInv, Written, Sequential
<1>7. /\ Arrived' /\ Written' /\ Once'
      /\ \A q \in Imports \ {r} : Early(q)' /\ Naming(q)' /\ Claiming(q)' /\ Putting(q)'
  BY <1>6, RowsKept
<1>8. Early(r)' /\ Naming(r)' /\ Claiming(r)' /\ Putting(r)'
  BY DEF Early, Naming, Claiming, Putting, Until
<1>9. Planned'
  <2>1. /\ Failed \subseteq Failed' /\ \A p, q \in Begun : Met(p, q) => Met(p, q)'
        /\ r \in Begun' /\ Begun \subseteq Begun' /\ before'[r] \subseteq Settled /\ \A q \in Imports : r \notin before'[q]
    BY TurnFacts DEF IntakeInv
  <2> SUFFICES ASSUME NEW f \in DOMAIN w2, NEW g \in DOMAIN w2, f < g, w2[f].order = w2[g].order, w2[g].doc = None,
                      {w2[f].by, w2[g].by} \cap Failed' = {}
               PROVE  Met(w2[f].by, w2[g].by)'
    BY <1>3 DEF Planned
  <2>2. CASE f \in DOMAIN work /\ g \in DOMAIN work
    BY <2>1, <2>2, <1>2 DEF IntakeInv, Planned, Written
  <2>3. CASE f \in DOMAIN work /\ g = last
    <3>1. doc = None /\ work[f].order = req[r].order /\ w2[g].by = r /\ w2[f].by = work[f].by
      BY <2>3, <1>2, <1>3
    <3>2. f \notin Seen(r, work)
      BY <3>1, <2>3 DEF OfOrder
    <3>3. work[f].by \in Begun /\ work[f].by \notin Done /\ work[f].by \notin Failed
      BY <2>1, <2>3, <3>1, <3>2, <1>1, ReadsOnFile DEF IntakeInv, Written
    <3>4. work[f].by \notin Settled /\ work[f].by \in Imports
      BY <3>3 DEF Begun, Done, Failed, Settled
    <3> QED BY <3>1, <3>4, <2>1, <1>1 DEF Met, Begun
  <2>4. CASE f = last
    BY <2>4, <1>2
  <2> QED BY <2>2, <2>3, <2>4, <1>2
<1>10. OneWrite'
  <2>1. \A f, g \in DOMAIN w2 : w2[f].by = w2[g].by => f = g
    BY <1>2, <1>3, <1>4 DEF IntakeInv, OneWrite
  <2>2. \A i \in DOMAIN adoptions, f \in DOMAIN w2 : adoptions[i].by # w2[f].by
    BY <1>2, <1>3, <1>5 DEF IntakeInv, OneWrite
  <2> QED BY <2>1, <2>2, <1>3 DEF IntakeInv, OneWrite
<1>11. Serial'
  <2>1. Underway' \subseteq Underway
    BY TurnFacts DEF IntakeInv
  <2> QED BY <2>1 DEF IntakeInv, Serial
<1>13. Apart'
  <2>1. Failed \subseteq Failed' /\ \A p, q \in Begun : Met(p, q) => Met(p, q)'
    BY TurnFacts DEF IntakeInv
  <2> QED BY <2>1 DEF IntakeInv, Apart, Written
<1>12. Unique' /\ Promised'
  <2>1. \A w \in Wrote(r)' : w = <<last, doc>>
    BY <1>2, <1>3, <1>4, <1>5 DEF Wrote
  <2>2. r \notin Done'
    BY <1>1 DEF Done
  <2>3. \A w \in Wrote(r)' : w[2] # None =>
               /\ \A g \in DOMAIN work \ {w[1]} : w[2] \notin Docs(g)
               /\ \A p \in Underway \ {r} : \A v \in Wrote(p) : v[2] # w[2]
    BY <2>1
  <2> QED BY <2>2, <2>3, <1>6, <1>7, DocsStay
<1>14. Reading(r)'
  BY DEF Reading, Reads
<1> QED BY <1>1, <1>6, <1>7, <1>8, <1>9, <1>10, <1>11, <1>12, <1>13, <1>14 DEF IntakeInv, StepsOn

LEMMA PlanOneKeeps == ASSUME IntakeInv, NEW r, PlanOne(r) PROVE IntakeInv' /\ StepsOn(r)
<1>1. r \in Underway /\ req[r].at = "plan"
  BY DEF PlanOne, At
<1>2. Turn(r) /\ req'[r].at = "first"
  BY <1>1, ProceedsOn DEF PlanOne, IntakeInv
<1>3. CASE OfOrder(r) = {}
  <2>1. Plans(r, None)
    BY <1>3 DEF PlanOne
  <2> QED BY <1>1, <1>2, <1>3, <2>1, PlansKeeps DEF PlanOne, Until, Reading, Reads
<1>4. CASE OfOrder(r) # {}
  BY <1>1, <1>2, <1>4, PlainKeeps DEF PlanOne, Until, Reading, Reads
<1> QED BY <1>3, <1>4

LEMMA TakeFirstKeeps == ASSUME IntakeInv, NEW r, TakeFirst(r) PROVE IntakeInv' /\ StepsOn(r)
<1>1. r \in Underway
  BY DEF TakeFirst, At
<1>2. Turn(r) /\ req'[r].at = "line"
  BY <1>1, TakesOn DEF TakeFirst, IntakeInv
<1> QED BY <1>1, <1>2, PlainKeeps DEF TakeFirst, Until, tables, Reading, Reads

LEMMA FindKeeps == ASSUME IntakeInv, NEW r, Find(r) PROVE IntakeInv' /\ StepsOn(r)
<1>1. r \in Underway /\ req[r].at = "find" /\ r \in Imports /\ UNCHANGED <<arrivals, tables, before>>
  BY DEF Find, At, Underway
<1>2. CASE Proceeds(r, "adopt")
  <2>1. Turn(r) /\ req'[r].at = "adopt" /\ req'[r].send = req[r].send
    BY <1>1, <1>2, ProceedsOn DEF IntakeInv
  <2>2. Naming(r)' /\ Claiming(r)' /\ Putting(r)'
    BY <1>1, <2>1 DEF Naming, Claiming, Putting, Send, IntakeInv
  <2>3. Calm(r)
    BY <1>1, <2>1 DEF Calm, Until, tables
  <2> QED BY <2>1, <2>2, <2>3, CalmKeeps DEF Reading, Reads
<1>3. CASE Takes(r, "line", "work", Min(Documented(r)))
  <2>1. Turn(r) /\ req'[r].at = "line"
    BY <1>1, <1>3, TakesOn DEF IntakeInv
  <2> QED BY <1>1, <2>1, PlainKeeps DEF Until, tables, Reading, Reads
<1> QED BY <1>2, <1>3 DEF Find

LEMMA AdoptKeeps == ASSUME IntakeInv, NEW r, Adopt(r) PROVE IntakeInv' /\ StepsOn(r)
<1>1. r \in Underway /\ req[r].at = "adopt" /\ r \in Imports /\ UNCHANGED <<arrivals, tables, before>>
  BY DEF Adopt, At, Underway
<1>2. CASE Proceeds(r, "raise")
  <2>1. Turn(r) /\ req'[r].at = "raise" /\ req'[r].send = req[r].send
    BY <1>1, <1>2, ProceedsOn DEF IntakeInv
  <2>2. Naming(r)' /\ Claiming(r)' /\ Putting(r)'
    BY <1>1, <2>1 DEF Naming, Claiming, Putting, Send, IntakeInv
  <2>3. Calm(r)
    BY <1>1, <2>1 DEF Calm, Until, tables
  <2> QED BY <2>1, <2>2, <2>3, CalmKeeps DEF Reading, Reads
<1>3. CASE Unclaimed(r) # {} /\ Takes(r, "claim", "work", Min(Unclaimed(r)))
  <2>1. Turn(r) /\ req'[r].at = "claim" /\ req'[r].send = req[r].send /\ req'[r].work = Min(Unclaimed(r))
    BY <1>1, <1>3, TakesOn DEF IntakeInv
  <2>2. Min(Unclaimed(r)) \in Unclaimed(r)
    <3>1. DOMAIN work \subseteq Nat
      BY DEF IntakeInv, Written, Sequential
    <3>2. Unclaimed(r) \in SUBSET Nat
      BY <3>1 DEF Unclaimed, OfOrder, Seen
    <3> QED BY <1>3, <3>2, LeastIs
  <2>3. /\ req'[r].work \in DOMAIN work /\ work[req'[r].work].by \in Done
        /\ DocumentOnFile(req'[r].work) = None
    <3>1. req'[r].work \in Seen(r, work) /\ Seen(r, work) \subseteq DOMAIN work
      BY <2>1, <2>2 DEF Unclaimed, OfOrder, Seen
    <3> QED BY <2>1, <2>2, <3>1, <1>1, ReadsOnFile DEF Until, Unclaimed
  <2>4. /\ Done \subseteq Done' /\ work' = work /\ adoptions' = adoptions
        /\ before'[r] \cap Done' \subseteq Done
    BY <1>1, <2>1, TurnFacts DEF IntakeInv, tables, Turn
  <2>5. Given(req'[r].work) = {} /\ work[req'[r].work].doc = None
    <3>1. PICK f : f = req'[r].work
      OBVIOUS
    <3>2. Given(f) = {}
      <4> SUFFICES ASSUME Given(f) # {} PROVE FALSE
        OBVIOUS
      <4>1. Max(Given(f)) \in Given(f) /\ adoptions[Max(Given(f))].doc = None
        BY <2>3, <3>1, DocumentIs DEF IntakeInv
      <4> QED BY <4>1 DEF Given, IntakeInv, Written
    <3> QED BY <2>3, <3>1, <3>2, DocumentIs DEF IntakeInv
  <2>7. Naming(r)' /\ Putting(r)'
    BY <1>1, <2>1 DEF Naming, Putting, Send, IntakeInv
  <2>8. Claiming(r)'
    BY <2>3, <2>4, <2>5 DEF Claiming, Given
  <2>6. Calm(r)
    BY <1>1, <2>1 DEF Calm, Until, tables
  <2> QED BY <2>1, <2>6, <2>7, <2>8, CalmKeeps DEF Reading, Reads
<1> QED BY <1>2, <1>3 DEF Adopt

\* A fulfilment adopted is adopted by nobody else under way.
LEMMA ClaimKeeps == ASSUME IntakeInv, NEW r, Claim(r) PROVE IntakeInv' /\ StepsOn(r)
<1> DEFINE f == req[r].work
           doc == Send(r).doc
           new == [by |-> r, work |-> f, doc |-> doc]
           last == Len(adoptions) + 1
<1>1. /\ r \in Underway /\ req[r].at = "claim" /\ r \in Imports /\ WaitsFor(r) = {}
      /\ f \in DOMAIN work /\ work[f].by \in Done /\ work[f].doc = None /\ req[r].at \in Until
      /\ \A i \in DOMAIN adoptions : adoptions[i].by \in before[r] \cap Done => adoptions[i].work # f
      /\ doc # None /\ Sequential(adoptions)
  BY DEF Claim, Unblocked, At, Underway, IntakeInv, Naming, Claiming, Until, Written
<1>2. CASE Refuse(r)
  BY <1>1, <1>2, RefuseKeeps DEF Refuse
<1>3. CASE /\ Documented(r) \ {f} = {} /\ adoptions' = Append(adoptions, new) /\ Proceeds(r, "line")
           /\ UNCHANGED <<arrivals, orders, orderLines, commitments, work, before>>
  <2>1. Turn(r) /\ req'[r].at = "line"
    BY <1>1, <1>3, ProceedsOn DEF IntakeInv
  <2>2. PICK a2 : a2 = Append(adoptions, new)
    OBVIOUS
  <2>3. /\ Sequential(a2)
        /\ DOMAIN a2 = DOMAIN adoptions \cup {last} /\ last \notin DOMAIN adoptions /\ a2[last] = new
        /\ ~(last < last) /\ \A i \in DOMAIN adoptions : i < last /\ ~(last < i)
        /\ \A i \in DOMAIN adoptions : a2[i] = adoptions[i]
    <3>1. Len(adoptions) \in Nat /\ DOMAIN adoptions = 1..Len(adoptions)
      BY <1>1, Pushed
    <3>2. ~(last < last) /\ \A i \in DOMAIN adoptions : i < last /\ ~(last < i)
      BY <3>1
    <3> HIDE DEF new
    <3> QED BY <1>1, <2>2, <3>2, Pushed
  <2>4. adoptions' = a2 /\ new.by = r /\ new.work = f /\ new.doc = doc
    BY <1>3, <2>2
  <2>5. \A g \in DOMAIN work : work[g].by # r
    BY <1>1 DEF IntakeInv, Early
  <2>6. \A i \in DOMAIN adoptions : adoptions[i].by # r
    BY <1>1 DEF IntakeInv, Early
  <2>7. \A x \in Elsewhere(r, Range(adoptions)) : x.work # f /\ x.doc # doc
    <3>1. Holders(r) = {a \in Elsewhere(r, Range(adoptions)) : a.work = f \/ a.doc = doc}
                       \cup {w \in Elsewhere(r, Range(work)) : w.doc = doc}
      BY <1>1 DEF Holders
    <3>2. \A x \in Holders(r) : x.by \in WaitsFor(r)
      BY DEF WaitsFor
    <3> QED BY <1>1, <3>1, <3>2
  <2>8. \A x \in Elsewhere(r, Range(work)) : x.doc # doc
    <3>1. Holders(r) = {a \in Elsewhere(r, Range(adoptions)) : a.work = f \/ a.doc = doc}
                       \cup {w \in Elsewhere(r, Range(work)) : w.doc = doc}
      BY <1>1 DEF Holders
    <3>2. \A x \in Holders(r) : x.by \in WaitsFor(r)
      BY DEF WaitsFor
    <3> QED BY <1>1, <3>1, <3>2
  <2> HIDE DEF f, doc, new, last
  <2>9. Writes(r) /\ Sequential(work)' /\ Sequential(adoptions)' /\ Rows(r)
    <3>1. Sequential(adoptions')
      BY <2>3, <2>4
    <3> QED BY <3>1, <1>3, <2>3, <2>4 DEF Writes, Rows, Alone, IntakeInv, Written, Sequential
  <2>10. /\ Arrived' /\ Written' /\ Once'
         /\ \A q \in Imports \ {r} : Early(q)' /\ Naming(q)' /\ Claiming(q)' /\ Putting(q)'
    <3>1. \A i \in DOMAIN a2 \ DOMAIN adoptions : a2[i].work = f /\ a2[i].doc = doc
      BY <2>3, <2>4
    <3> QED BY <1>1, <2>1, <2>4, <2>9, <3>1, RowsKept
  <2>11. Early(r)' /\ Naming(r)' /\ Claiming(r)' /\ Putting(r)'
    BY <2>1 DEF Early, Naming, Claiming, Putting, Until
  <2>12. Planned'
    <3>1. Failed \subseteq Failed' /\ \A p, q \in Begun : Met(p, q) => Met(p, q)'
      BY <2>1, TurnFacts DEF IntakeInv
    <3> QED BY <3>1, <1>3 DEF IntakeInv, Planned, Written
  <2>13. OneWrite'
    <3>1. \A i, j \in DOMAIN a2 : a2[i].by = a2[j].by => i = j
      BY <2>3, <2>4, <2>6 DEF IntakeInv, OneWrite
    <3>2. \A i \in DOMAIN a2, g \in DOMAIN work : a2[i].by # work[g].by
      BY <2>3, <2>4, <2>5 DEF IntakeInv, OneWrite
    <3> QED BY <3>1, <3>2, <1>3, <2>4 DEF IntakeInv, OneWrite
  <2>16. Apart'
    <3>1. /\ Failed \subseteq Failed' /\ \A p, q \in Begun : Met(p, q) => Met(p, q)'
          /\ r \in Begun' /\ Begun \subseteq Begun' /\ before'[r] \subseteq Settled /\ \A q \in Imports : r \notin before'[q]
          /\ before'[r] = before[r]
      BY <1>1, <2>1, TurnFacts DEF IntakeInv, Turn
    <3> SUFFICES ASSUME NEW i \in DOMAIN a2, NEW j \in DOMAIN a2, i < j, a2[i].work = a2[j].work,
                        {a2[i].by, a2[j].by} \cap Failed' = {}
                 PROVE  Met(a2[i].by, a2[j].by)'
      BY <2>4 DEF Apart
    <3>2. i \in DOMAIN adoptions /\ a2[i] = adoptions[i] /\ adoptions[i].by \in Begun
      BY <2>3 DEF IntakeInv, Written
    <3>3. CASE j \in DOMAIN adoptions
      <4>1. a2[j] = adoptions[j] /\ adoptions[j].by \in Begun
        BY <3>3, <2>3 DEF IntakeInv, Written
      <4>2. Met(adoptions[i].by, adoptions[j].by)
        BY <3>1, <3>2, <3>3, <4>1 DEF IntakeInv, Apart
      <4> QED BY <3>1, <3>2, <4>1, <4>2
    <3>4. CASE j = last
      <4>1. adoptions[i].work = f /\ a2[j].by = r
        BY <3>2, <3>4, <2>3, <2>4
      <4>2. adoptions[i].by \notin before'[r]
        <5>1. adoptions[i].by \notin Failed /\ adoptions[i].by \notin before[r] \cap Done
          BY <1>1, <3>1, <3>2, <4>1
        <5> QED BY <5>1, <3>1 DEF Settled, Failed, Done
      <4>3. adoptions[i].by \in Imports
        BY <3>2 DEF Begun
      <4> QED BY <3>1, <3>2, <4>1, <4>2, <4>3 DEF Met, Begun
    <3> QED BY <3>3, <3>4, <2>3
  <2>14. Serial'
    <3>1. Underway' \subseteq Underway
      BY <1>1, <2>1, TurnFacts DEF IntakeInv
    <3> SUFFICES ASSUME NEW i \in DOMAIN a2, NEW j \in DOMAIN a2, i < j, a2[i].work = a2[j].work
                 PROVE  a2[i].by \notin Underway
      BY <3>1, <2>4 DEF Serial
    <3>2. i \in DOMAIN adoptions /\ a2[i] = adoptions[i]
      BY <2>3
    <3>3. CASE j \in DOMAIN adoptions
      BY <3>2, <3>3, <2>3 DEF IntakeInv, Serial
    <3>4. CASE j = last
      <4>1. adoptions[i].work = f /\ adoptions[i].by # r
        BY <3>2, <3>4, <2>3, <2>4, <2>6
      <4>2. adoptions[i] \in Range(adoptions)
        BY <3>2 DEF Range
      <4> QED BY <4>1, <4>2, <3>2, <2>7 DEF Elsewhere
    <3> QED BY <3>3, <3>4, <2>3
  <2>15. Unique' /\ Promised'
    <3>1. \A w \in Wrote(r)' : w = <<f, doc>>
      BY <1>3, <2>3, <2>4, <2>5, <2>6 DEF Wrote
    <3>2. r \notin Done'
      BY <2>1 DEF Done
    <3>3. \A g \in DOMAIN work \ {f} : doc \notin Docs(g)
      <4> SUFFICES ASSUME NEW g \in DOMAIN work, g # f, doc \in Docs(g) PROVE FALSE
        OBVIOUS
      <4>1. g \in Seen(r, work) /\ DocumentSeen(r, g) = doc
        BY <1>1, ReadsOnFile DEF Docs
      <4>2. g \in Documented(r)
        BY <4>1 DEF Documented, doc
      <4> QED BY <4>2, <1>3
    <3>4. ASSUME NEW p \in Underway \ {r}, NEW v \in Wrote(p) PROVE v[2] # doc
      <4>1. CASE \E i \in DOMAIN adoptions : adoptions[i].by = p /\ v = <<adoptions[i].work, adoptions[i].doc>>
        <5>1. PICK i \in DOMAIN adoptions : adoptions[i].by = p /\ v = <<adoptions[i].work, adoptions[i].doc>>
          BY <4>1
        <5>2. adoptions[i] \in Elsewhere(r, Range(adoptions))
          BY <5>1, <3>4 DEF Elsewhere, Range
        <5> QED BY <5>1, <5>2, <2>7
      <4>2. CASE \E g \in DOMAIN work : work[g].by = p /\ v = <<g, work[g].doc>>
        <5>1. PICK g \in DOMAIN work : work[g].by = p /\ v = <<g, work[g].doc>>
          BY <4>2
        <5>2. work[g] \in Elsewhere(r, Range(work))
          BY <5>1, <3>4 DEF Elsewhere, Range
        <5> QED BY <5>1, <5>2, <2>8
      <4> QED BY <4>1, <4>2 DEF Wrote
    <3>5. \A w \in Wrote(r)' : w[2] # None =>
               /\ \A g \in DOMAIN work \ {w[1]} : w[2] \notin Docs(g)
               /\ \A p \in Underway \ {r} : \A v \in Wrote(p) : v[2] # w[2]
      BY <3>1, <3>3, <3>4
    <3> QED BY <3>2, <3>5, <2>1, <2>9, <2>10, DocsStay
  <2>17. Reading(r)'
    BY <2>1 DEF Reading, Reads
  <2> QED BY <1>1, <2>1, <2>9, <2>10, <2>11, <2>12, <2>13, <2>14, <2>15, <2>16, <2>17 DEF IntakeInv, StepsOn
<1> QED BY <1>2, <1>3 DEF Claim

LEMMA RaiseKeeps == ASSUME IntakeInv, NEW r, Raise(r) PROVE IntakeInv' /\ StepsOn(r)
<1> DEFINE doc == Send(r).doc
<1>1. /\ r \in Underway /\ req[r].at = "raise" /\ r \in Imports /\ WaitsFor(r) = {} /\ req[r].at \in Until /\ doc # None
  BY DEF Raise, Unblocked, At, Underway, IntakeInv, Naming, Until
<1>2. CASE Refuse(r)
  BY <1>1, <1>2, RefuseKeeps DEF Refuse
<1>3. CASE /\ Documented(r) = {} /\ Plans(r, doc) /\ Takes(r, "line", "work", Len(work) + 1)
           /\ UNCHANGED <<arrivals, orders, orderLines, commitments, adoptions, before>>
  <2>1. Turn(r) /\ req'[r].at = "line"
    BY <1>1, <1>3, TakesOn DEF IntakeInv
  <2>2. \A x \in Elsewhere(r, Range(adoptions)) \cup Elsewhere(r, Range(work)) : x.doc # doc
    <3>1. Holders(r) = {x \in Elsewhere(r, Range(adoptions)) \cup Elsewhere(r, Range(work)) : x.doc = doc}
      BY <1>1 DEF Holders
    <3>2. \A x \in Holders(r) : x.by \in WaitsFor(r)
      BY DEF WaitsFor
    <3> QED BY <1>1, <3>1, <3>2
  <2> HIDE DEF doc
  <2>3. ASSUME NEW g \in DOMAIN work, doc \in Docs(g) PROVE FALSE
    <3>1. g \in Seen(r, work) /\ DocumentSeen(r, g) = doc
      BY <1>1, <2>3, ReadsOnFile DEF Docs
    <3>2. g \in Documented(r)
      BY <3>1 DEF Documented, doc
    <3> QED BY <3>2, <1>3
  <2>4. ASSUME NEW p \in Underway \ {r}, NEW v \in Wrote(p) PROVE v[2] # doc
    <3>1. CASE \E i \in DOMAIN adoptions : adoptions[i].by = p /\ v = <<adoptions[i].work, adoptions[i].doc>>
      <4>1. PICK i \in DOMAIN adoptions : adoptions[i].by = p /\ v = <<adoptions[i].work, adoptions[i].doc>>
        BY <3>1
      <4>2. adoptions[i] \in Elsewhere(r, Range(adoptions))
        BY <4>1, <2>4 DEF Elsewhere, Range
      <4> QED BY <4>1, <4>2, <2>2
    <3>2. CASE \E g \in DOMAIN work : work[g].by = p /\ v = <<g, work[g].doc>>
      <4>1. PICK g \in DOMAIN work : work[g].by = p /\ v = <<g, work[g].doc>>
        BY <3>2
      <4>2. work[g] \in Elsewhere(r, Range(work))
        BY <4>1, <2>4 DEF Elsewhere, Range
      <4> QED BY <4>1, <4>2, <2>2
    <3> QED BY <3>1, <3>2 DEF Wrote
  <2> QED BY <1>1, <1>3, <2>1, <2>3, <2>4, PlansKeeps DEF Reading, Reads
<1> QED BY <1>2, <1>3 DEF Raise

LEMMA LineKeeps == ASSUME IntakeInv, NEW r, Line(r) PROVE IntakeInv' /\ StepsOn(r)
<1> DEFINE l == ThisLine(r)
           onFile == {x \in See(r, orderLines) : x.order = req[r].order /\ x.item = l.item /\ x.no = l.no}
           added == [by |-> r, order |-> req[r].order, item |-> l.item, no |-> l.no, qty |-> OrderedOn(l)]
           taken == IF onFile = {} THEN added ELSE CHOOSE x \in onFile : TRUE
<1>1. r \in Underway /\ r \in Imports /\ req[r].at = "line"
  BY DEF Line, At, Underway
<1>2. CASE Refuse(r)
  BY <1>1, <1>2, RefuseKeeps DEF Refuse
<1>3. CASE /\ orderLines' = IF onFile = {} THEN orderLines \cup {added} ELSE orderLines
           /\ Takes(r, "commit", "line", taken)
           /\ UNCHANGED <<arrivals, items, orders, commitments, work, adoptions, keys, picks, before>>
  <2> HIDE DEF taken
  <2>1. Turn(r) /\ req'[r].at = "commit"
    BY <1>1, <1>3, TakesOn DEF IntakeInv
  <2>2. Alone(r, orderLines, orderLines', {"order", "item", "no"})
    <3>1. CASE onFile # {}
      BY <1>3, <3>1 DEF Alone
    <3>2. CASE onFile = {}
      <4>1. orderLines' = orderLines \cup {added}
        BY <1>3, <3>2
      <4>2. added.by = r /\ added.order = req[r].order /\ added.item = l.item /\ added.no = l.no
        OBVIOUS
      <4>3. \A y \in orderLines : y.order = added.order /\ y.item = added.item /\ y.no = added.no => y.by \notin Done
        BY <3>2, <4>2 DEF See, Done
      <4> HIDE DEF added, onFile, l
      <4>4. ASSUME NEW x \in orderLines' \ orderLines, NEW y \in orderLines,
                   \A k \in {"order", "item", "no"} : x[k] = y[k]
            PROVE  y.by \notin Done
        <5>1. x = added /\ y.order = x.order /\ y.item = x.item /\ y.no = x.no
          BY <4>1, <4>4
        <5> QED BY <5>1, <4>3
      <4>5. orderLines \subseteq orderLines' /\ \A x \in orderLines' \ orderLines : x.by = r
        BY <4>1, <4>2
      <4> QED BY <4>4, <4>5 DEF Alone
    <3> QED BY <3>1, <3>2
  <2>3. Rows(r)
    BY <1>3, <2>2 DEF Rows, Alone
  <2>4. Naming(r)' /\ Claiming(r)' /\ Putting(r)'
    BY <2>1 DEF Naming, Claiming, Putting
  <2> QED BY <1>3, <2>1, <2>3, <2>4, WorkKept DEF Until, Reading, Reads
<1>4. CASE NextLine(r) /\ UNCHANGED <<arrivals, tables, before>>
  <2>1. Turn(r) /\ req'[r].at \in {"loaded", "line"}
    BY <1>1, <1>4, NextLineOn DEF IntakeInv
  <2> QED BY <1>4, <2>1, PlainKeeps DEF Until, tables, Reading, Reads
<1> QED BY <1>2, <1>3, <1>4 DEF Line

LEMMA CommitKeeps == ASSUME IntakeInv, NEW r, Commit(r) PROVE IntakeInv' /\ StepsOn(r)
<1> DEFINE c == CHOOSE x \in Committed(r) : TRUE
<1>1. r \in Underway /\ r \in Imports /\ req[r].at = "commit"
  BY DEF Commit, At, Underway
<1>2. CASE Refuse(r)
  BY <1>1, <1>2, RefuseKeeps DEF Refuse
<1> HIDE DEF c
<1>3. CASE Takes(r, "learn", "row", c) /\ UNCHANGED <<arrivals, tables, before>>
  <2>1. Turn(r) /\ req'[r].at = "learn"
    BY <1>1, <1>3, TakesOn DEF IntakeInv
  <2> QED BY <1>3, <2>1, PlainKeeps DEF Until, tables, Reading, Reads
<1>4. CASE NextLine(r) /\ UNCHANGED <<arrivals, tables, before>>
  <2>1. Turn(r) /\ req'[r].at \in {"loaded", "line"}
    BY <1>1, <1>4, NextLineOn DEF IntakeInv
  <2> QED BY <1>4, <2>1, PlainKeeps DEF Until, tables, Reading, Reads
<1>5. CASE Committed(r) = {} /\ Proceeds(r, "put") /\ UNCHANGED <<arrivals, tables, before>>
  <2>1. /\ Turn(r) /\ req'[r].at = "put" /\ req'[r].send = req[r].send
        /\ req'[r].work = req[r].work /\ req'[r].line = req[r].line
    BY <1>1, <1>5, ProceedsOn DEF IntakeInv
  <2>2. Putting(r)'
    <3>1. Done' \subseteq Done \cup {r} /\ before'[r] \subseteq Settled /\ r \notin Settled
      BY <2>1, TurnFacts DEF IntakeInv, Turn
    <3> SUFFICES ASSUME NEW x \in commitments, x.by \in before'[r] \cap Done'
                 PROVE  ~(x.work = req[r].work /\ x.line = req[r].line)
      BY <2>1, <1>5 DEF Putting, tables
    <3>2. x.by \in Done
      BY <3>1
    <3> QED BY <3>2, <1>5 DEF Committed, See, Done
  <2>3. Naming(r)' /\ Claiming(r)'
    BY <2>1 DEF Naming, Claiming
  <2>4. Calm(r)
    BY <1>5, <2>1 DEF Calm, Until, tables
  <2> QED BY <2>1, <2>2, <2>3, <2>4, CalmKeeps DEF Reading, Reads
<1> QED BY <1>2, <1>3, <1>4, <1>5 DEF Commit, c

LEMMA PutKeeps == ASSUME IntakeInv, NEW r, Put(r) PROVE IntakeInv' /\ StepsOn(r)
<1> DEFINE new == [by |-> r, work |-> req[r].work, line |-> req[r].line,
                   qty |-> ThisLine(r).qty, key |-> ThisLine(r).key]
<1>1. r \in Underway /\ r \in Imports /\ req[r].at = "put"
  BY DEF Put, Unblocked, At, Underway
<1>2. CASE Refuse(r)
  BY <1>1, <1>2, RefuseKeeps DEF Refuse
<1>3. CASE /\ commitments' = commitments \cup {new} /\ NextLine(r)
           /\ UNCHANGED <<arrivals, items, orders, orderLines, work, adoptions, keys, picks, before>>
  <2>1. new.by = r /\ new.work = req[r].work /\ new.line = req[r].line
    OBVIOUS
  <2> HIDE DEF new
  <2>2. Turn(r) /\ req'[r].at \in {"loaded", "line"}
    BY <1>1, <1>3, NextLineOn DEF IntakeInv
  <2>3. before'[r] = before[r]
    BY <1>1, <2>2 DEF Turn
  <2>4. \A y \in commitments : y.work = new.work /\ y.line = new.line => y.by \notin before'[r] \cap Done
    BY <1>1, <2>1, <2>3 DEF IntakeInv, Putting
  <2>5. Alone(r, commitments, commitments', {"work", "line"})
    <3>1. ASSUME NEW x \in commitments' \ commitments, NEW y \in commitments, \A k \in {"work", "line"} : x[k] = y[k]
          PROVE  y.by \notin before'[r] \cap Done
      <4>1. x = new /\ y.work = x.work /\ y.line = x.line
        BY <1>3, <3>1
      <4> QED BY <4>1, <2>4
    <3>2. commitments \subseteq commitments' /\ \A x \in commitments' \ commitments : x.by = r
      BY <1>3, <2>1
    <3> QED BY <3>1, <3>2 DEF Alone
  <2>6. Rows(r)
    BY <1>3, <2>5 DEF Rows, Alone
  <2>7. Naming(r)' /\ Claiming(r)' /\ Putting(r)'
    BY <2>2 DEF Naming, Claiming, Putting
  <2> QED BY <1>3, <2>2, <2>6, <2>7, WorkKept DEF Until, Reading, Reads
<1> QED BY <1>2, <1>3 DEF Put

LEMMA LearnKeeps == ASSUME IntakeInv, NEW r, Learn(r) PROVE IntakeInv' /\ StepsOn(r)
<1>1. r \in Underway /\ r \in Imports /\ req[r].at = "learn"
  BY DEF Learn, Unblocked, At, Underway
<1>2. CASE Refuse(r)
  BY <1>1, <1>2, RefuseKeeps DEF Refuse
<1>3. CASE NextLine(r) /\ UNCHANGED <<arrivals, orders, orderLines, commitments, work, adoptions, before>>
  <2>1. Turn(r) /\ req'[r].at \in {"loaded", "line"}
    BY <1>1, <1>3, NextLineOn DEF IntakeInv
  <2> QED BY <1>3, <2>1, PlainKeeps DEF Until, Reading, Reads
<1> QED BY <1>2, <1>3 DEF Learn, tables

\* Its end, and what a load replaces.
LEMMA EndKeeps ==
    ASSUME IntakeInv, NEW r, Loaded(r) \/ Picks(r) \/ Reopen(r) \/ Replace(r) \/ Clear(r) \/ Fill(r)
    PROVE  IntakeInv' /\ StepsOn(r)
<1>1. r \in Underway /\ r \in Imports
  BY DEF Loaded, Picks, Reopen, Replace, Clear, Fill, Unblocked, At, Underway
<1>2. UNCHANGED <<arrivals, orders, orderLines, commitments, work, adoptions, before>>
  BY DEF Loaded, Picks, Reopen, Replace, Clear, Fill, tables
<1>3. ASSUME NEW how \in {"done", "undone"}, Ends(r, how) PROVE IntakeInv' /\ StepsOn(r)
  <2>1. Turn(r) /\ req'[r].at = how
    BY <1>1, <1>2, <1>3, EndsOn DEF IntakeInv
  <2> QED BY <1>2, <2>1, PlainKeeps DEF Until, Reading, Reads
<1>4. ASSUME NEW step \in {"picks", "reopen", "fill"}, Proceeds(r, step), Reading(r) => Reads(Send(r), step)
      PROVE  IntakeInv' /\ StepsOn(r)
  <2>1. Turn(r) /\ req'[r].at = step /\ req'[r].send = Send(r)
    BY <1>1, <1>2, <1>4, ProceedsOn DEF IntakeInv, Send
  <2>2. Reading(r) => Reading(r)'
    BY <1>4, <2>1 DEF Reading
  <2> QED BY <1>2, <2>1, <2>2, PlainKeeps DEF Until
<1>5. CASE Loaded(r)
  <2>1. \/ Ends(r, "undone") \/ Ends(r, "done") \/ Proceeds(r, "picks") \/ Proceeds(r, "reopen")
    BY <1>5 DEF Loaded
  <2>2. Reads(Send(r), "picks") /\ Reads(Send(r), "reopen")
    BY DEF Reads
  <2> QED BY <2>1, <2>2, <1>3, <1>4
<1>6. CASE Picks(r)
  BY <1>6, <1>4 DEF Picks, Reads
<1>7. CASE Reopen(r)
  BY <1>7, <1>3 DEF Reopen
<1>8. CASE Replace(r)
  <2>1. Turn(r) /\ req'[r].at = "clear" /\ req'[r].send = req[r].send /\ req[r].at = "replace"
    <3>1. PICK gone : gone = Live(r, Send(r).feed)
      OBVIOUS
    <3>2. Takes(r, "clear", "wants", gone)
      BY <1>8, <3>1 DEF Replace
    <3> QED BY <1>1, <1>2, <1>8, <3>2, TakesOn DEF IntakeInv, Replace, At
  <2> QED BY <1>2, <2>1, PlainKeeps DEF Until, Reading, Reads
<1>9. CASE Clear(r)
  <2>1. Reading(r) => Reads(Send(r), "fill")
    BY <1>9 DEF Clear, Unblocked, At, Reading, Reads, Send
  <2> QED BY <1>9, <2>1, <1>4 DEF Clear
<1>10. CASE Fill(r)
  <2>1. Ends(r, "done") \/ Ends(r, "undone")
    BY <1>10 DEF Fill
  <2> QED BY <2>1, <1>3
<1> QED BY <1>5, <1>6, <1>7, <1>8, <1>9, <1>10

LEMMA StatusKeeps ==
    ASSUME IntakeInv, UNCHANGED <<req, arrivals, orders, orderLines, commitments, work, adoptions, before>>
    PROVE  IntakeInv'
<1>1. Arrived' /\ Written' /\ Done' = Done /\ Underway' = Underway /\ Failed' = Failed
  BY DEF IntakeInv, Arrived, Written, WrittenIn, Done, Begun, Settled, Underway, Over, Failed
<1>2. \A r \in Imports : Early(r)' /\ Naming(r)' /\ Claiming(r)' /\ Putting(r)'
  BY <1>1 DEF IntakeInv, Early, Naming, Claiming, Putting, Send
<1>3. Once' /\ Planned' /\ Apart' /\ OneWrite' /\ Serial'
  BY <1>1 DEF IntakeInv, Once, OnceIn, Met, Planned, Apart, OneWrite, Serial
<1>4. \A q : Wrote(q)' = Wrote(q)
  BY DEF Wrote
<1>5. \A f : Docs(f)' = Docs(f)
  BY <1>1 DEF Docs, DocumentOnFile
<1>6. Unique' /\ Promised'
  BY <1>1, <1>4, <1>5 DEF IntakeInv, Unique, Promised
<1> QED BY <1>1, <1>2, <1>3, <1>6 DEF IntakeInv

LEMMA StepKeeps == ASSUME IntakeInv, NEW r \in Imports, Step(r) PROVE IntakeInv' /\ StepsOn(r)
<1>1. CASE \E s \in Sends, apply \in BOOLEAN : Store(r, s, apply)
  <2>1. PICK s, apply : Stored(r, s, apply, "items")
    BY <1>1 DEF Store
  <2>2. Reads(s, "items")
    BY DEF Reads
  <2> QED BY <2>1, <2>2, StoredKeeps
<1>2. CASE \E s \in Reports, apply \in BOOLEAN : StoreReport(r, s, apply)
  <2>1. PICK s, apply, next : s \in Reports /\ next \in {"replace", "done", "undone"} /\ Stored(r, s, apply, next)
    <3>1. PICK s \in Reports, apply \in BOOLEAN : StoreReport(r, s, apply)
      BY <1>2
    <3>2. (IF ~s.short THEN "replace" ELSE IF apply THEN "done" ELSE "undone") \in {"replace", "done", "undone"}
      OBVIOUS
    <3> QED BY <3>1, <3>2 DEF StoreReport
  <2>2. next \notin Until \cup {"put"}
    BY <2>1 DEF Until
  <2>3. Reads(s, next)
    BY <2>1, FilesAssumption DEF Reads
  <2> QED BY <2>1, <2>2, <2>3, StoredKeeps
<1> QED BY <1>1, <1>2, ItemsKeeps, MakeKeeps, OrderKeeps, ChooseKeeps, PlanOneKeeps, TakeFirstKeeps,
           FindKeeps, AdoptKeeps, ClaimKeeps, RaiseKeeps, LineKeeps, CommitKeeps, PutKeeps, LearnKeeps,
           EndKeeps DEF Step

\* The other files write none of these rows.
LEMMA FeedStepKeeps == ASSUME IntakeInv, NEW r \in Imports, FeedStep(r) PROVE IntakeInv' /\ StepsOn(r)
<1>1. CASE \E s \in Files, apply \in BOOLEAN : StoreFile(r, s, apply)
  <2>1. PICK s, apply, next : /\ next \in {"code", "replace", "unsay", "read packed", "site", "done", "undone"}
                              /\ Stored(r, s, apply, next) /\ Reads(s, next)
    <3>1. PICK s \in Files, apply \in BOOLEAN : StoreFile(r, s, apply)
      BY <1>1
    <3>2. FirstStep(s) \in {"code", "replace", "unsay", "read packed", "site"}
      BY FilesAssumption DEF FirstStep
    <3>3. PICK next : next = IF ~Short(s) THEN FirstStep(s) ELSE IF apply THEN "done" ELSE "undone"
      OBVIOUS
    <3>4. next \in {"code", "replace", "unsay", "read packed", "site", "done", "undone"}
      BY <3>2, <3>3
    <3>5. Stored(r, s, apply, next)
      BY <3>1, <3>3 DEF StoreFile
    <3>6. Reads(s, FirstStep(s)) /\ Reads(s, "done") /\ Reads(s, "undone")
      BY FilesAssumption DEF FirstStep, Reads
    <3> QED BY <3>3, <3>4, <3>5, <3>6
  <2>2. next \notin Until \cup {"put"}
    BY <2>1 DEF Until
  <2> QED BY <2>1, <2>2, StoredKeeps
<1> SUFFICES ASSUME \/ Code(r) \/ MatchSite(r) \/ OpenSite(r) \/ Bin(r) \/ FillStock(r)
                    \/ Unsay(r) \/ SayItems(r) \/ ReadFields(r) \/ CloseFields(r) \/ ReadOpen(r) \/ SayFields(r)
                    \/ ReadPacked(r) \/ Pack(r) \/ DeadlockVictim(r)
             PROVE  IntakeInv' /\ StepsOn(r)
  BY <1>1 DEF FeedStep
<1>2. r \in Underway
  BY DEF Code, MatchSite, OpenSite, Bin, FillStock, Unsay, SayItems, ReadFields, CloseFields, ReadOpen, SayFields,
         ReadPacked, Pack, DeadlockVictim, May, At
<1>3. UNCHANGED <<arrivals, orders, orderLines, commitments, work, adoptions, before>>
  BY DEF Code, MatchSite, OpenSite, Bin, FillStock, Unsay, SayItems, ReadFields, CloseFields, ReadOpen, SayFields,
         ReadPacked, Pack, DeadlockVictim, Errors, others, tables
<1>4. ASSUME NEW step \in {"read fields", "read open", "open site"}, Proceeds(r, step),
             Reading(r) => Reads(Send(r), step)
      PROVE  IntakeInv' /\ StepsOn(r)
  <2>1. Turn(r) /\ req'[r].at = step /\ req'[r].send = Send(r)
    BY <1>2, <1>3, <1>4, ProceedsOn DEF IntakeInv, Send
  <2>2. Reading(r) => Reading(r)'
    BY <1>4, <2>1 DEF Reading
  <2> QED BY <1>3, <2>1, <2>2, PlainKeeps DEF Until
<1>5. ASSUME NEW step \in {"say", "close", "open", "pack"}, NEW field \in {"wants", "line"}, NEW value,
             Takes(r, step, field, value), Reading(r) => Reads(Send(r), step)
      PROVE  IntakeInv' /\ StepsOn(r)
  <2>1. step # "idle" /\ field \in {"wants", "order", "work", "line", "row"} /\ Arrived /\ UNCHANGED before
    BY <1>3 DEF IntakeInv
  <2>2. Turn(r) /\ req'[r].at = step /\ req'[r].send = req[r].send
    <3>1. CASE field = "wants"
      BY <1>2, <1>5, <2>1, <3>1, TakesOn
    <3>2. CASE field = "line"
      BY <1>2, <1>5, <2>1, <3>2, TakesOn
    <3> QED BY <3>1, <3>2
  <2>3. Reading(r) => Reading(r)'
    BY <1>5, <2>2 DEF Reading, Send
  <2> QED BY <1>3, <2>2, <2>3, PlainKeeps DEF Until
<1>6. ASSUME NEW step \in {"code", "bin"}, NextRow(r, step) PROVE IntakeInv' /\ StepsOn(r)
  <2>1. Turn(r) /\ req'[r].at \in {step, "done", "undone"}
    BY <1>2, <1>3, <1>6, NextRowOn DEF IntakeInv
  <2> QED BY <1>3, <2>1, PlainKeeps DEF Until, Reading, Reads
<1>7. ASSUME NEW found, NextHouse(r, found) PROVE IntakeInv' /\ StepsOn(r)
  <2>1. Turn(r) /\ req'[r].at \in {"bin", "site"}
    BY <1>2, <1>3, <1>7, NextHouseOn DEF IntakeInv
  <2> QED BY <1>3, <2>1, PlainKeeps DEF Until, Reading, Reads
<1>8. ASSUME NEW how \in {"done", "undone", "refused"}, Ends(r, how) PROVE IntakeInv' /\ StepsOn(r)
  <2>1. Turn(r) /\ req'[r].at = how
    BY <1>2, <1>3, <1>8, EndsOn DEF IntakeInv
  <2> QED BY <1>3, <2>1, PlainKeeps DEF Until, Reading, Reads
<1>9. CASE Ended(r)
  <2>1. Ends(r, "done") \/ Ends(r, "undone")
    BY <1>9 DEF Ended
  <2> QED BY <2>1, <1>8
<1>10. CASE Errors(r)
  BY <1>10, <1>8 DEF Errors
<1>11. CASE Code(r) \/ Bin(r)
  BY <1>11, <1>6 DEF Code, Bin
<1>12. CASE MatchSite(r)
  <2>1. Reads(Send(r), "open site")
    BY DEF Reads
  <2> QED BY <1>12, <2>1, <1>4, <1>7, <1>10 DEF MatchSite
<1>13. CASE OpenSite(r)
  BY <1>13, <1>7, <1>10 DEF OpenSite
<1>14. CASE FillStock(r)
  BY <1>14, <1>9, <1>10 DEF FillStock
<1>15. CASE Unsay(r)
  <2>1. Reading(r) => Reads(Send(r), "say")
    BY <1>15 DEF Unsay, May, At, Reading, Reads, Send
  <2> QED BY <1>15, <2>1, <1>5 DEF Unsay
<1>16. CASE SayItems(r)
  <2>1. Reading(r) => Reads(Send(r), "read fields")
    BY <1>16 DEF SayItems, May, At, Reading, Reads, Send
  <2> QED BY <1>16, <2>1, <1>4 DEF SayItems
<1>17. CASE ReadFields(r)
  <2>1. Reading(r) => Reads(Send(r), "close")
    BY <1>17 DEF ReadFields, May, At, Reading, Reads, Send
  <2> QED BY <1>17, <2>1, <1>5 DEF ReadFields
<1>18. CASE CloseFields(r)
  <2>1. Reading(r) => Reads(Send(r), "read open")
    BY <1>18 DEF CloseFields, May, At, Reading, Reads, Send
  <2> QED BY <1>18, <2>1, <1>4, <1>10 DEF CloseFields
<1>19. CASE ReadOpen(r)
  <2>1. Reading(r) => Reads(Send(r), "open")
    BY <1>19 DEF ReadOpen, May, At, Reading, Reads, Send
  <2> QED BY <1>19, <2>1, <1>5 DEF ReadOpen
<1>20. CASE SayFields(r)
  BY <1>20, <1>9, <1>10 DEF SayFields
<1>21. CASE ReadPacked(r)
  <2>1. Reading(r) => Reads(Send(r), "pack")
    BY <1>21 DEF ReadPacked, May, At, Reading, Reads, Send
  <2> QED BY <1>21, <2>1, <1>5 DEF ReadPacked
<1>22. CASE Pack(r)
  BY <1>22, <1>9, <1>10 DEF Pack
<1>23. CASE DeadlockVictim(r)
  BY <1>23, <1>10 DEF DeadlockVictim
<1> QED BY <1>11, <1>12, <1>13, <1>14, <1>15, <1>16, <1>17, <1>18, <1>19, <1>20, <1>21, <1>22, <1>23

LEMMA IntakeInvInit == FeedInit => IntakeInv
<1> SUFFICES ASSUME FeedInit PROVE IntakeInv
  OBVIOUS
<1>1. /\ req = [r \in Imports |-> Fresh(None, FALSE)] /\ before = [r \in Imports |-> {}]
      /\ arrivals = {} /\ orders = {} /\ orderLines = {} /\ commitments = {} /\ work = <<>> /\ adoptions = <<>>
  BY DEF FeedInit, IntakeInit
<1>2. \A r \in Imports : req[r].at = "idle" /\ DOMAIN req[r] = ReqFields
  BY <1>1 DEF Fresh, ReqFields
<1>3. Arrived
  BY <1>1, <1>2 DEF Arrived
<1>4. DOMAIN work = {} /\ DOMAIN adoptions = {} /\ Sequential(work) /\ Sequential(adoptions)
  BY <1>1 DEF Sequential
<1>5. Written
  BY <1>1, <1>4 DEF Written, WrittenIn
<1>6. \A r \in Imports : Early(r) /\ Naming(r) /\ Claiming(r) /\ Putting(r)
  BY <1>2, <1>4 DEF Early, Naming, Claiming, Putting
<1>7. Once /\ Planned /\ Apart /\ OneWrite /\ Serial /\ Unique
  BY <1>1, <1>4 DEF Once, OnceIn, Planned, Apart, OneWrite, Serial, Unique
<1>8. Underway = {}
  BY <1>2 DEF Underway, Over
<1> QED BY <1>3, <1>5, <1>6, <1>7, <1>8 DEF IntakeInv, Promised

LEMMA IntakeInvStep ==
    IntakeInv /\ [FeedNext]_feedVars =>
        IntakeInv' /\ ((\E r \in Imports : StepsOn(r)) \/ UNCHANGED <<req, work, adoptions>>)
<1> SUFFICES ASSUME IntakeInv, [FeedNext]_feedVars
             PROVE  IntakeInv' /\ ((\E r \in Imports : StepsOn(r)) \/ UNCHANGED <<req, work, adoptions>>)
  OBVIOUS
<1>1. CASE UNCHANGED feedVars
  BY <1>1, StatusKeeps DEF feedVars, intakeVars, tables
<1>2. CASE \E r \in Imports : Step(r)
  BY <1>2, StepKeeps
<1>3. CASE \E x \in Statuses : Status(x.doc, x.how)
  BY <1>3, StatusKeeps DEF Status, tables
<1>4. CASE \E r \in Imports : FeedStep(r)
  BY <1>4, FeedStepKeeps
<1> QED BY <1>1, <1>2, <1>3, <1>4 DEF FeedNext, IntakeNext

\* The invariant holds of every import, of whatever is sent and in whatever order it comes.
THEOREM IntakeInvHolds == FeedSpec => []IntakeInv
BY IntakeInvInit, IntakeInvStep, PTL DEF FeedSpec

LEMMA OnceFollows == IntakeInv => OnceUnlessTogether
<1> SUFFICES ASSUME IntakeInv PROVE OnceUnlessTogether
  OBVIOUS
<1>1. \A q \in Imports : req[q].at = "done" => q \in Done /\ q \notin Failed
  BY DEF Done, Failed
<1>2. Begun \subseteq Imports
  BY DEF Begun
<1>3. ~\E x, y \in OnFile(arrivals) : Same(x, y) /\ x.send = y.send
  BY <1>1, <1>2 DEF OnFile, Same, IntakeInv, Written, WrittenIn, Once, OnceIn
<1>4. ~\E x, y \in OnFile(orders) : Same(x, y) /\ x.number = y.number
  BY <1>1, <1>2 DEF OnFile, Same, IntakeInv, Written, WrittenIn, Once, OnceIn
<1>5. ~\E x, y \in OnFile(orderLines) : Same(x, y) /\ x.order = y.order /\ x.item = y.item /\ x.no = y.no
  BY <1>1, <1>2 DEF OnFile, Same, IntakeInv, Written, WrittenIn, Once, OnceIn
<1>6. ~\E x, y \in OnFile(commitments) : Same(x, y) /\ x.work = y.work /\ x.line = y.line
  BY <1>1, <1>2 DEF OnFile, Same, IntakeInv, Written, WrittenIn, Once, OnceIn
<1>7. ASSUME NEW f \in DOMAIN work, NEW g \in DOMAIN work, req[work[f].by].at = "done", req[work[g].by].at = "done",
             f < g, work[f].order = work[g].order
      PROVE  /\ work[g].doc = None => Met(work[f].by, work[g].by)
             /\ DocumentOnFile(f) = DocumentOnFile(g) => DocumentOnFile(f) = None
  <2>1. work[f].by \in Done \ Failed /\ work[g].by \in Done \ Failed
    BY <1>1, <1>2, <1>7 DEF IntakeInv, Written
  <2>2. work[g].doc = None => Met(work[f].by, work[g].by)
    BY <2>1, <1>7 DEF IntakeInv, Planned
  <2>3. f # g
    <3>1. f \in Nat
      BY DEF IntakeInv, Written, Sequential
    <3> QED BY <3>1, <1>7
  <2>4. Docs(f) \cap Docs(g) = {}
    BY <2>3 DEF IntakeInv, Unique
  <2>5. DocumentOnFile(f) = DocumentOnFile(g) => DocumentOnFile(f) = None
    BY <2>1, <2>4 DEF Docs
  <2> QED BY <2>2, <2>5
<1> QED BY <1>3, <1>4, <1>5, <1>6, <1>7 DEF OnceUnlessTogether

\* Sent again, nothing is written again: a body is stored once, and there is one order of a
\* number, one line of an order and one commitment of it, unless two imports in progress together
\* wrote them; and never two fulfilments of one document.
THEOREM OnceUnlessTogetherHolds == FeedSpec => []OnceUnlessTogether
BY IntakeInvHolds, OnceFollows, PTL

------------------------------------------------------------------------------
(* The document of a fulfilment stays *)

LEMMA GivenIs ==
    ASSUME Written, NEW f
    PROVE  Given(f) = {i \in DOMAIN adoptions : adoptions[i].work = f /\ req[adoptions[i].by].at = "done"}
BY DEF Given, Done, Written, Begun

LEMMA DocumentKept ==
    IntakeInv /\ IntakeInv' /\ ((\E r \in Imports : StepsOn(r)) \/ UNCHANGED <<req, work, adoptions>>) =>
        \A f \in DOMAIN work :
            DocumentOnFile(f) # None /\ DocumentOnFile(f)' # DocumentOnFile(f) =>
                \E i, j \in Given(f)' : i # j /\ Met(adoptions[i].by, adoptions[j].by)'
<1> SUFFICES ASSUME IntakeInv, IntakeInv', (\E r \in Imports : StepsOn(r)) \/ UNCHANGED <<req, work, adoptions>>,
                    NEW f \in DOMAIN work, DocumentOnFile(f) # None, DocumentOnFile(f)' # DocumentOnFile(f)
             PROVE  \E i, j \in Given(f)' : i # j /\ Met(adoptions[i].by, adoptions[j].by)'
  OBVIOUS
<1>1. CASE UNCHANGED <<req, work, adoptions>>
  BY <1>1 DEF DocumentOnFile
<1>2. CASE \E r \in Imports : StepsOn(r)
  <2>1. PICK r \in Imports : StepsOn(r)
    BY <1>2
  <2>2. /\ Done \subseteq Done' /\ f \in DOMAIN work' /\ work'[f] = work[f]
        /\ DOMAIN adoptions \subseteq DOMAIN adoptions' /\ \A i \in DOMAIN adoptions : adoptions'[i] = adoptions[i]
    BY <2>1, TurnFacts DEF StepsOn, Writes, IntakeInv
  <2>3. PICK G : G = Given(f)
    OBVIOUS
  <2>4. PICK H : H = Given(f)'
    OBVIOUS
  <2>5. G \subseteq H
    BY <2>2, <2>3, <2>4 DEF Given
  <2>6. DocumentOnFile(f) = IF G = {} THEN work[f].doc ELSE adoptions[Max(G)].doc
    BY <2>3, DocumentIs DEF IntakeInv
  <2>7. DocumentOnFile(f)' = IF H = {} THEN work'[f].doc ELSE adoptions'[Max(H)].doc
    <3>1. H = {i \in DOMAIN adoptions' : adoptions'[i].work = f /\ req'[adoptions'[i].by].at = "done"}
      BY <2>4 DEF Given, Done, Written, Begun, IntakeInv
    <3> QED BY <3>1 DEF DocumentOnFile
  <2>8. G # {}
    <3>1. H # {} => work'[f].doc = None
      BY <2>4 DEF Given, IntakeInv, Written
    <3> QED BY <2>2, <2>6, <2>7, <3>1
  <2>9. PICK n \in Nat : DOMAIN adoptions' = 1..n
    BY DEF IntakeInv, Written, Sequential
  <2>10. G \in SUBSET (1..n) /\ H \in SUBSET (1..n)
    BY <2>4, <2>5, <2>9 DEF Given
  <2>11. Max(G) \in G /\ Max(H) \in H
    BY <2>5, <2>8, <2>10, LastIs
  <2>12. PICK a, b : a = Max(G) /\ b = Max(H)
    OBVIOUS
  <2>13. a \in H /\ b \in H /\ a # b
    <3>1. a \in DOMAIN adoptions
      BY <2>3, <2>11, <2>12 DEF Given
    <3> QED BY <2>2, <2>5, <2>6, <2>7, <2>8, <2>11, <2>12, <3>1
  <2>14. \A i \in H : i \in DOMAIN adoptions' /\ adoptions'[i].work = f /\ adoptions'[i].by \notin Failed'
    BY <2>4 DEF Given, Done, Failed
  <2>15. ASSUME NEW i \in H, NEW j \in H, i < j PROVE Met(adoptions[i].by, adoptions[j].by)'
    BY <2>14, <2>15 DEF IntakeInv, Apart
  <2>16. a < b \/ b < a
    BY <2>10, <2>13
  <2> QED BY <2>4, <2>13, <2>15, <2>16
<1> QED BY <1>1, <1>2

\* A fulfilment that became an item fulfilment stays that one, unless two documents' first sends
\* were in progress together.
THEOREM DocumentStaysHolds == FeedSpec => DocumentStays
<1>1. IntakeInv /\ [FeedNext]_feedVars =>
        [\A f \in DOMAIN work :
          LET by == {i \in DOMAIN adoptions' : adoptions'[i].work = f /\ req'[adoptions'[i].by].at = "done"}
          IN  DocumentOnFile(f) # None /\ DocumentOnFile(f)' # DocumentOnFile(f) =>
                 \E i, j \in by : i # j /\ Met(adoptions[i].by, adoptions[j].by)']_intakeVars
  <2> SUFFICES ASSUME IntakeInv, [FeedNext]_feedVars, NEW f \in DOMAIN work,
                      DocumentOnFile(f) # None, DocumentOnFile(f)' # DocumentOnFile(f)
               PROVE  \E i, j \in {i \in DOMAIN adoptions' : adoptions'[i].work = f /\ req'[adoptions'[i].by].at = "done"} :
                         i # j /\ Met(adoptions[i].by, adoptions[j].by)'
    OBVIOUS
  <2>1. IntakeInv' /\ ((\E r \in Imports : StepsOn(r)) \/ UNCHANGED <<req, work, adoptions>>)
    BY IntakeInvStep
  <2>2. Given(f)' = {i \in DOMAIN adoptions' : adoptions'[i].work = f /\ req'[adoptions'[i].by].at = "done"}
    BY <2>1 DEF Given, Done, Written, Begun, IntakeInv
  <2> QED BY <2>1, <2>2, DocumentKept
<1> QED BY <1>1, IntakeInvHolds, PTL DEF FeedSpec, DocumentStays

------------------------------------------------------------------------------
(* What was said stands *)

\* Of what the files say: a value closes no earlier than it was first said; and what was packed is
\* written, and done away with, as an import ends.
Closes ==
    \A c \in cleared : /\ c.row.feed.of = "fields" => c.at >= c.row.val.from
                       /\ c.row.feed.of = "packed" => c.row.by \in Done /\ c.by \in Settled
Says ==
    \A x \in reported : /\ x.by \in Begun
                        /\ x.feed.of = "fields" => x.val.from \in Int
                        /\ x.feed.of = "packed" => x.by \in Settled

\* The rows of one packed fulfilment say one time, and one of them is there to be read.
PackedRows == {x \in reported : x.feed.of = "packed" /\ x.by \in Done}
Alike(x, y) == x.feed = y.feed /\ x.key = y.key
OneTime    == \A x, y \in PackedRows : Alike(x, y) => x.val.at = y.val.at
Standing == \A x \in PackedRows : \E y \in PackedRows : Alike(x, y) /\ \A c \in cleared : c.row = y => c.by \notin Done

SaidInv == (\A r \in Imports : Reading(r)) /\ Closes /\ Says /\ OneTime /\ Standing

\* What is on file of what was said is not taken away.
RowsStay == \A x \in reported : x.by \in Done => x \in reported'

\* A step that says nothing of what was packed, and closes no value before it was said.
Speaks(r) ==
    /\ \A x \in reported \ reported' : x.by = r /\ x.feed.of # "packed"
    /\ \A x \in reported' \ reported : x.by = r /\ x.feed.of # "packed" /\ (x.feed.of = "fields" => x.val.from \in Int)
    /\ cleared \subseteq cleared'
    /\ \A c \in cleared' \ cleared : c.row.feed.of # "packed" /\ (c.row.feed.of = "fields" => c.at >= c.row.val.from)

LEMMA ReadingKept ==
    ASSUME SaidInv, NEW r, StepsOn(r)
    PROVE  \A q \in Imports : Reading(q)'
BY DEF SaidInv, StepsOn, Turn, Reading

LEMMA SpeaksKeeps ==
    ASSUME IntakeInv, SaidInv, NEW r, StepsOn(r), Speaks(r)
    PROVE  SaidInv' /\ RowsStay
<1>1. /\ Settled \subseteq Settled' /\ Begun \subseteq Begun' /\ r \in Begun' /\ Done \subseteq Done'
      /\ Done' \subseteq Done \cup {r} /\ r \notin Settled /\ r \notin Done
  BY TurnFacts DEF IntakeInv, StepsOn, Turn, Settled, Done
<1>2. \A q \in Imports : Reading(q)'
  BY ReadingKept
<1>3. RowsStay
  BY <1>1 DEF RowsStay, Speaks
<1>4. Closes'
  <2>1. ASSUME NEW c \in cleared' PROVE c \in cleared \/ (c.row.feed.of # "packed" /\ (c.row.feed.of = "fields" => c.at >= c.row.val.from))
    BY DEF Speaks
  <2> QED BY <1>1, <2>1 DEF SaidInv, Closes
<1>5. Says'
  <2>1. ASSUME NEW x \in reported'
        PROVE  x \in reported \/ (x.by = r /\ x.feed.of # "packed" /\ (x.feed.of = "fields" => x.val.from \in Int))
    BY DEF Speaks
  <2> QED BY <1>1, <2>1 DEF SaidInv, Says
<1>6. PackedRows' = PackedRows
  <2>1. ASSUME NEW x \in PackedRows PROVE x \in PackedRows'
    BY <1>1, <2>1 DEF PackedRows, Speaks
  <2>2. ASSUME NEW x \in PackedRows' PROVE x \in PackedRows
    <3>1. x \in reported /\ x.feed.of = "packed" /\ x.by \in Done'
      BY <2>2 DEF PackedRows, Speaks
    <3> QED BY <1>1, <3>1 DEF PackedRows, SaidInv, Says
  <2> QED BY <2>1, <2>2
<1>7. OneTime'
  BY <1>6 DEF SaidInv, OneTime
<1>8. Standing'
  <2> SUFFICES ASSUME NEW x \in PackedRows
               PROVE  \E y \in PackedRows : Alike(x, y) /\ \A c \in cleared' : c.row = y => c.by \notin Done'
    BY <1>6 DEF Standing
  <2>1. PICK y \in PackedRows : Alike(x, y) /\ \A c \in cleared : c.row = y => c.by \notin Done
    BY DEF SaidInv, Standing
  <2>2. ASSUME NEW c \in cleared', c.row = y PROVE c.by \notin Done'
    <3>1. c \in cleared /\ y.feed.of = "packed"
      BY <2>2 DEF Speaks, PackedRows
    <3> QED BY <1>1, <2>1, <2>2, <3>1 DEF SaidInv, Closes
  <2> QED BY <2>1, <2>2
<1> QED BY <1>2, <1>3, <1>4, <1>5, <1>7, <1>8 DEF SaidInv

\* What an import sees of what was packed is on file, and it sees some of it if there is any.
LEMMA PackedSeen ==
    ASSUME SaidInv, NEW r, r \notin Settled, NEW feed, feed.of = "packed"
    PROVE  /\ Live(r, feed) \subseteq PackedRows
           /\ \A x \in PackedRows : x.feed = feed => \E o \in Live(r, feed) : o.key = x.key
<1>1. ASSUME NEW x \in Live(r, feed) PROVE x \in PackedRows
  <2>1. x \in reported /\ x.feed = feed /\ (x.by = r \/ req[x.by].at = "done")
    BY <1>1 DEF Live, See
  <2>2. x.by \in Settled
    BY <2>1 DEF SaidInv, Says
  <2> QED BY <2>1, <2>2 DEF PackedRows, Done, Settled
<1>2. ASSUME NEW x \in PackedRows, x.feed = feed PROVE \E o \in Live(r, feed) : o.key = x.key
  <2>1. PICK y \in PackedRows : Alike(x, y) /\ \A c \in cleared : c.row = y => c.by \notin Done
    BY DEF SaidInv, Standing
  <2>2. ASSUME NEW c \in cleared, c.row = y PROVE c.by # r /\ req[c.by].at # "done"
    <3>1. c.by \in Settled /\ c.by \notin Done
      BY <2>1, <2>2 DEF SaidInv, Closes, PackedRows
    <3> QED BY <3>1 DEF Settled, Done
  <2>3. y \in reported /\ req[y.by].at = "done" /\ y.feed = feed /\ y.key = x.key
    BY <1>2, <2>1 DEF PackedRows, Done, Alike
  <2> QED BY <2>2, <2>3 DEF Live, See
<1> QED BY <1>1, <1>2

LEMMA PackKeeps ==
    ASSUME IntakeInv, SaidInv, NEW r, r \in Imports, StepsOn(r), Pack(r)
    PROVE  SaidInv' /\ RowsStay
<1> DEFINE s == Send(r)
           firsts == {i \in DOMAIN s.rows : /\ Matches(r, s.rows[i].house) # {}
                                            /\ ~\E j \in 1..(i - 1) : s.rows[j].doc = s.rows[i].doc /\ Matches(r, s.rows[j].house) # {}}
           Old(x) == {o \in Live(r, s.feed) : o.key = x.doc}
           row(i) == LET x == s.rows[i]
                     IN  Feed(r, s.feed, x.doc, [packer |-> x.packer, at |-> PackedThen(r, Old(x), x)])
           away   == {Gone(r, o) : o \in UNION {Old(s.rows[i]) : i \in firsts}}
           new    == {row(i) : i \in firsts}
<1>1. /\ Settled \subseteq Settled' /\ Begun \subseteq Begun' /\ r \in Begun' /\ Done \subseteq Done'
      /\ Done' \subseteq Done \cup {r} /\ r \notin Settled /\ r \notin Done
  BY TurnFacts DEF IntakeInv, StepsOn, Turn, Settled, Done
<1>2. r \in Underway /\ s \in Files /\ req[r].at = "pack"
  BY DEF Pack, May, At
<1>3. s.feed.of = "packed"
  BY <1>2 DEF SaidInv, Reading, Reads, Send
<1>4. CASE UNCHANGED <<reported, cleared>>
  BY <1>4, SpeaksKeeps DEF Speaks
<1>5. CASE Ended(r) /\ reported' = reported \cup new /\ cleared' = cleared \cup away
  <2>1. r \in Settled'
    <3>1. Ends(r, "done") \/ Ends(r, "undone")
      BY <1>5 DEF Ended
    <3>2. UNCHANGED before
      BY DEF Pack, others, Errors
    <3>3. req'[r].at \in {"done", "undone"}
      BY <1>2, <3>1, <3>2, EndsOn DEF IntakeInv
    <3> QED BY <3>3 DEF Settled
  <2>2. \A i \in firsts : row(i).by = r /\ row(i).feed = s.feed /\ row(i).key = s.rows[i].doc
    BY DEF Feed
  <2>3. \A i \in firsts : row(i).val.at = PackedThen(r, Old(s.rows[i]), s.rows[i])
    BY DEF Feed
  <2>4. \A i, j \in firsts : s.rows[i].doc = s.rows[j].doc => i = j
    <3> SUFFICES ASSUME NEW i \in firsts, NEW j \in firsts, s.rows[i].doc = s.rows[j].doc, i # j PROVE FALSE
      OBVIOUS
    <3>1. i \in Nat \ {0} /\ j \in Nat \ {0}
      BY <1>2, FilesAssumption
    <3>2. i \in 1..(j - 1) \/ j \in 1..(i - 1)
      BY <3>1
    <3> QED BY <3>2
  <2>5. \A c \in away : \E i \in firsts : c.by = r /\ c.row \in Old(s.rows[i])
    <3> SUFFICES ASSUME NEW c \in away PROVE \E i \in firsts : c.by = r /\ c.row \in Old(s.rows[i])
      OBVIOUS
    <3> HIDE DEF Old, firsts
    <3>1. PICK o : c = Gone(r, o) /\ \E i \in firsts : o \in Old(s.rows[i])
      OBVIOUS
    <3> QED BY <3>1 DEF Gone
  <2>6. /\ \A i \in firsts : Old(s.rows[i]) \subseteq PackedRows
        /\ \A i \in firsts, x \in PackedRows : x.feed = s.feed /\ x.key = s.rows[i].doc => Old(s.rows[i]) # {}
    BY <1>1, <1>3, PackedSeen
  <2>7. \A i \in firsts : \A o \in Old(s.rows[i]) : o.feed = s.feed /\ o.key = s.rows[i].doc
    BY DEF Live
  <2>8. \A i \in firsts, x \in PackedRows : x.feed = s.feed /\ x.key = s.rows[i].doc => row(i).val.at = x.val.at
    <3> SUFFICES ASSUME NEW i \in firsts, NEW x \in PackedRows, x.feed = s.feed, x.key = s.rows[i].doc
                 PROVE  row(i).val.at = x.val.at
      OBVIOUS
    <3>1. PICK old : old = Old(s.rows[i])
      OBVIOUS
    <3>2. old # {} /\ old \subseteq PackedRows /\ \A o \in old : Alike(o, x)
      BY <2>6, <2>7, <3>1 DEF Alike
    <3>3. (CHOOSE o \in old : TRUE) \in old
      BY <3>2
    <3>4. row(i).val.at = (CHOOSE o \in old : TRUE).val.at
      BY <2>3, <3>1, <3>2 DEF PackedThen
    <3> QED BY <3>2, <3>3, <3>4 DEF SaidInv, OneTime
  <2>9. /\ reported \subseteq reported' /\ \A x \in reported' \ reported : \E i \in firsts : x = row(i)
        /\ cleared \subseteq cleared' /\ \A c \in cleared' \ cleared : c \in away
        /\ \A i \in firsts : row(i) \in reported'
    BY <1>5
  <2> HIDE DEF row, away, new, Old, firsts
  <2>11. RowsStay
    BY <2>9 DEF RowsStay
  <2>12. Closes'
    <3>1. ASSUME NEW c \in away PROVE c.row.feed.of = "packed" /\ c.row.by \in Done /\ c.by = r
      BY <2>5, <2>6 DEF PackedRows
    <3> QED BY <1>1, <2>1, <2>9, <3>1 DEF SaidInv, Closes
  <2>13. Says'
    <3>1. ASSUME NEW i \in firsts PROVE row(i).by = r /\ row(i).feed.of = "packed"
      BY <1>3, <2>2
    <3> QED BY <1>1, <2>1, <2>9, <3>1 DEF SaidInv, Says
  <2>14. /\ PackedRows \subseteq PackedRows'
         /\ \A x \in PackedRows' : x \in PackedRows \/ \E i \in firsts : x = row(i) /\ r \in Done'
    <3>1. ASSUME NEW x \in PackedRows' PROVE x \in PackedRows \/ \E i \in firsts : x = row(i) /\ r \in Done'
      <4>1. x \in reported' /\ x.feed.of = "packed" /\ x.by \in Done'
        BY <3>1 DEF PackedRows
      <4>2. CASE x \in reported
        BY <1>1, <4>1, <4>2 DEF PackedRows, SaidInv, Says
      <4>3. CASE x \notin reported
        BY <2>2, <2>9, <4>1, <4>3
      <4> QED BY <4>2, <4>3
    <3>2. PackedRows \subseteq PackedRows'
      BY <1>1, <2>9 DEF PackedRows
    <3> QED BY <3>1, <3>2
  <2>15. OneTime'
    <3> SUFFICES ASSUME NEW x \in PackedRows', NEW y \in PackedRows', Alike(x, y) PROVE x.val.at = y.val.at
      BY DEF OneTime
    <3>1. CASE x \in PackedRows /\ y \in PackedRows
      BY <3>1 DEF SaidInv, OneTime
    <3>2. CASE x \in PackedRows /\ y \notin PackedRows
      BY <3>2, <2>2, <2>8, <2>14 DEF Alike
    <3>3. CASE x \notin PackedRows /\ y \in PackedRows
      BY <3>3, <2>2, <2>8, <2>14 DEF Alike
    <3>4. CASE x \notin PackedRows /\ y \notin PackedRows
      BY <3>4, <2>2, <2>4, <2>14 DEF Alike
    <3> QED BY <3>1, <3>2, <3>3, <3>4
  <2>16. Standing'
    <3> SUFFICES ASSUME NEW x \in PackedRows'
                 PROVE  \E y \in PackedRows' : Alike(x, y) /\ \A c \in cleared' : c.row = y => c.by \notin Done'
      BY DEF Standing
    <3>1. CASE r \in Done' /\ \E i \in firsts : x.feed = s.feed /\ x.key = s.rows[i].doc
      <4>1. PICK i \in firsts : x.feed = s.feed /\ x.key = s.rows[i].doc
        BY <3>1
      <4>2. row(i) \in PackedRows' /\ Alike(x, row(i))
        BY <1>3, <2>2, <2>9, <3>1, <4>1 DEF PackedRows, Alike
      <4>3. ASSUME NEW c \in cleared' PROVE c.row # row(i)
        <5>1. CASE c \in cleared
          BY <1>1, <1>3, <2>2, <5>1 DEF SaidInv, Closes
        <5>2. CASE c \in away
          BY <1>1, <2>2, <2>5, <2>6, <5>2 DEF PackedRows
        <5> QED BY <2>9, <5>1, <5>2
      <4> QED BY <4>2, <4>3
    <3>2. CASE ~(r \in Done' /\ \E i \in firsts : x.feed = s.feed /\ x.key = s.rows[i].doc)
      <4>1. x \in PackedRows
        BY <2>2, <2>14, <3>2
      <4>2. PICK y \in PackedRows : Alike(x, y) /\ \A c \in cleared : c.row = y => c.by \notin Done
        BY <4>1 DEF SaidInv, Standing
      <4>3. ASSUME NEW c \in cleared', c.row = y PROVE c.by \notin Done'
        <5>1. CASE c \in cleared
          <6>1. c.by \in Settled /\ c.by \notin Done
            BY <4>2, <4>3, <5>1 DEF SaidInv, Closes, PackedRows
          <6> QED BY <1>1, <6>1
        <5>2. CASE c \in away
          BY <1>1, <2>5, <2>7, <3>2, <4>2, <4>3, <5>2 DEF Alike
        <5> QED BY <2>9, <5>1, <5>2
      <4> QED BY <2>14, <4>2, <4>3
    <3> QED BY <3>1, <3>2
  <2> QED BY <2>11, <2>12, <2>13, <2>15, <2>16, ReadingKept DEF SaidInv
<1> QED BY <1>4, <1>5 DEF Pack, Errors, report

\* The steps that say or close something, each its own.
LEMMA ClearSpeaks == ASSUME SaidInv, NEW r, r \in Imports, Clear(r) PROVE Speaks(r)
<1>1. Send(r).feed.of \in {"orders", "stock"}
  BY DEF Clear, Unblocked, At, SaidInv, Reading, Reads, Send
<1>2. PICK gone : gone = req[r].wants \cap Live(r, Send(r).feed)
  OBVIOUS
<1>3. \A x \in gone : x.feed.of \in {"orders", "stock"}
  BY <1>1, <1>2 DEF Live
<1>4. reported' = reported /\ cleared' = cleared \cup {Gone(r, x) : x \in gone}
  BY <1>2 DEF Clear
<1>5. \A c \in cleared' \ cleared : c.row.feed.of \in {"orders", "stock"}
  BY <1>3, <1>4 DEF Gone
<1> QED BY <1>4, <1>5 DEF Speaks

LEMMA FillSpeaks == ASSUME SaidInv, NEW r, r \in Imports, Fill(r) PROVE Speaks(r)
<1>1. Send(r).feed.of \in {"orders", "stock"}
  BY DEF Fill, Unblocked, At, SaidInv, Reading, Reads, Send
<1>2. PICK lines : lines = {x \in Send(r).lines : ~\E y \in Live(r, Send(r).feed) : y.key = x.id}
  OBVIOUS
<1>3. /\ cleared' = cleared
      /\ reported' = reported \cup {[by |-> r, feed |-> Send(r).feed, key |-> l.id, line |-> l, known |-> Known(r, l.item)] : l \in lines}
  BY <1>2 DEF Fill
<1>4. \A x \in reported' \ reported : x.by = r /\ x.feed = Send(r).feed
  BY <1>3
<1>5. reported \subseteq reported'
  BY <1>3
<1> QED BY <1>1, <1>3, <1>4, <1>5 DEF Speaks

LEMMA BinSpeaks == ASSUME SaidInv, NEW r, r \in Imports, Bin(r) PROVE Speaks(r)
<1> DEFINE at   == {p[2] : p \in {q \in req[r].wants : q[1] = Row(r).house}}
           row(t) == Feed(r, BinsFeed, <<t, Row(r).bin>>, [kind |-> KindOf(Send(r), Row(r)), order |-> Position(Row(r))])
           new  == {row(t) : t \in at}
           old  == {x \in Live(r, BinsFeed) : \E y \in new : y.key = x.key}
<1>1. CASE UNCHANGED <<reported, cleared>>
  BY <1>1 DEF Speaks
<1>2. CASE /\ reported' = (reported \ {x \in old : x.by = r}) \cup new
           /\ cleared' = cleared \cup {Gone(r, x) : x \in {y \in old : y.by # r}}
  <2>1. \A x \in old : x.feed = BinsFeed
    BY DEF Live
  <2>2. \A x \in new : x.by = r /\ x.feed = BinsFeed
    BY DEF Feed
  <2>3. BinsFeed.of = "bins"
    BY DEF BinsFeed
  <2> HIDE DEF old, new
  <2>4. \A x \in reported \ reported' : x \in old /\ x.by = r
    BY <1>2
  <2>5. \A x \in reported' \ reported : x \in new
    BY <1>2
  <2>6. \A c \in cleared' \ cleared : c.row \in old
    BY <1>2 DEF Gone
  <2>7. cleared \subseteq cleared'
    BY <1>2
  <2> QED BY <2>1, <2>2, <2>3, <2>4, <2>5, <2>6, <2>7 DEF Speaks
<1> QED BY <1>1, <1>2 DEF Bin, report

LEMMA FillStockSpeaks == ASSUME SaidInv, NEW r, r \in Imports, FillStock(r) PROVE Speaks(r)
<1>1. Send(r).feed.of \in {"orders", "stock"}
  BY DEF FillStock, May, At, SaidInv, Reading, Reads, Send
<1>2. \A x \in Balances(r) : x.by = r /\ x.feed = Send(r).feed
  BY DEF Balances
<1>3. UNCHANGED <<reported, cleared>> \/ (reported' = reported \cup Balances(r) /\ cleared' = cleared)
  BY DEF FillStock, Errors, report
<1> QED BY <1>1, <1>2, <1>3 DEF Speaks

LEMMA SayItemsSpeaks == ASSUME SaidInv, NEW r, r \in Imports, SayItems(r) PROVE Speaks(r)
<1>1. Send(r).feed.of = "details"
  BY DEF SayItems, May, At, SaidInv, Reading, Reads, Send
<1>2. PICK old : old = {x \in Live(r, Send(r).feed) : x \in req[r].wants \/ x.key \in Named(r)}
  OBVIOUS
<1>3. \A x \in old : x.feed = Send(r).feed
  BY <1>2 DEF Live
<1>4. cleared' = cleared \cup {Gone(r, x) : x \in old}
  BY <1>2 DEF SayItems
<1>5. reported' = reported \cup {Feed(r, Send(r).feed, i, LastOf(Send(r), i).said) : i \in Named(r)}
  BY DEF SayItems
<1>6. \A c \in cleared' \ cleared : c.row.feed.of = "details"
  BY <1>1, <1>3, <1>4 DEF Gone
<1>7. \A x \in reported' \ reported : x.by = r /\ x.feed.of = "details"
  BY <1>1, <1>5 DEF Feed
<1>8. cleared \subseteq cleared' /\ reported \subseteq reported'
  BY <1>4, <1>5
<1> QED BY <1>6, <1>7, <1>8 DEF Speaks

LEMMA CloseFieldsSpeaks == ASSUME SaidInv, NEW r, r \in Imports, CloseFields(r) PROVE Speaks(r)
<1>1. Send(r).at \in Int
  BY DEF CloseFields, May, At, SaidInv, Reading, Reads, Send
<1>2. PICK old : old = req[r].wants \cap OpenFields(r)
  OBVIOUS
<1>3. \A x \in old : x.feed.of = "fields" /\ x.val.from \in Int
  BY <1>2 DEF OpenFields, Live, See, Fields, SaidInv, Says
<1>4. CASE UNCHANGED <<reported, cleared>>
  BY <1>4 DEF Speaks
<1>5. CASE /\ ~\E x \in old : x.val.from > Send(r).at
           /\ cleared' = cleared \cup {[by |-> r, row |-> x, at |-> Send(r).at] : x \in old}
           /\ reported' = reported
  <2>1. \A x \in old : Send(r).at >= x.val.from
    BY <1>1, <1>3, <1>5
  <2>2. \A c \in cleared' \ cleared : c.row \in old /\ c.at = Send(r).at
    BY <1>5
  <2>3. \A c \in cleared' \ cleared : c.row.feed.of = "fields" /\ c.at >= c.row.val.from
    BY <1>3, <2>1, <2>2
  <2> QED BY <1>5, <2>3 DEF Speaks
<1> QED BY <1>2, <1>4, <1>5 DEF CloseFields, Errors, report

LEMMA SayFieldsSpeaks == ASSUME SaidInv, NEW r, r \in Imports, SayFields(r) PROVE Speaks(r)
<1>1. Send(r).at \in Int
  BY DEF SayFields, May, At, SaidInv, Reading, Reads, Send
<1>2. CASE UNCHANGED <<reported, cleared>>
  BY <1>2 DEF Speaks
<1>3. CASE /\ reported' = reported \cup {Feed(r, Fields(Send(r)), x.key, [value |-> x.value, from |-> Send(r).at]) : x \in req[r].wants}
           /\ cleared' = cleared
  <2>1. \A x \in reported' \ reported : x.by = r /\ x.feed = Fields(Send(r)) /\ x.val.from = Send(r).at
    BY <1>3 DEF Feed
  <2>2. Fields(Send(r)).of = "fields" /\ reported \subseteq reported'
    BY <1>3 DEF Fields
  <2> QED BY <1>1, <1>3, <2>1, <2>2 DEF Speaks
<1> QED BY <1>2, <1>3 DEF SayFields, Errors, report

\* Every other step says nothing.
LEMMA SilentSpeaks == ASSUME NEW r, UNCHANGED report PROVE Speaks(r)
BY DEF Speaks, report

LEMMA StepSpeaks == ASSUME SaidInv, NEW r \in Imports, Step(r) PROVE Speaks(r)
<1>1. CASE Clear(r) \/ Fill(r)
  BY <1>1, ClearSpeaks, FillSpeaks
<1>2. CASE ~(Clear(r) \/ Fill(r))
  <2>1. UNCHANGED report
    BY <1>2 DEF Step, Store, StoreReport, Stored, Items, Make, Order, ChooseOrder, PlanOne, TakeFirst, Find, Adopt, Claim, Raise,
                Line, Commit, Put, Learn, Loaded, Picks, Reopen, Replace, Refuse
  <2> QED BY <2>1, SilentSpeaks
<1> QED BY <1>1, <1>2

LEMMA FeedStepSpeaks == ASSUME SaidInv, NEW r \in Imports, FeedStep(r), ~Pack(r) PROVE Speaks(r)
<1>1. CASE Bin(r) \/ FillStock(r) \/ SayItems(r) \/ CloseFields(r) \/ SayFields(r)
  BY <1>1, BinSpeaks, FillStockSpeaks, SayItemsSpeaks, CloseFieldsSpeaks, SayFieldsSpeaks
<1>2. CASE ~(Bin(r) \/ FillStock(r) \/ SayItems(r) \/ CloseFields(r) \/ SayFields(r))
  <2>1. UNCHANGED report
    BY <1>2 DEF FeedStep, StoreFile, Stored, Code, MatchSite, OpenSite, Unsay, ReadFields, ReadOpen, ReadPacked, DeadlockVictim, Errors
  <2> QED BY <2>1, SilentSpeaks
<1> QED BY <1>1, <1>2

LEMMA SaidInvInit == FeedInit => SaidInv
<1> SUFFICES ASSUME FeedInit PROVE SaidInv
  OBVIOUS
<1>1. reported = {} /\ cleared = {} /\ \A r \in Imports : req[r].at = "idle"
  BY DEF FeedInit, IntakeInit, Fresh
<1> QED BY <1>1 DEF SaidInv, Reading, Reads, Closes, Says, OneTime, Standing, PackedRows

LEMMA SaidInvStep ==
    IntakeInv /\ SaidInv /\ [FeedNext]_feedVars => SaidInv' /\ RowsStay /\ Done \subseteq Done'
<1> SUFFICES ASSUME IntakeInv, SaidInv, [FeedNext]_feedVars
             PROVE  SaidInv' /\ RowsStay /\ Done \subseteq Done'
  OBVIOUS
<1>1. ASSUME UNCHANGED <<req, reported, cleared>> PROVE SaidInv' /\ RowsStay /\ Done \subseteq Done'
  BY <1>1 DEF SaidInv, Reading, Closes, Says, OneTime, Standing, PackedRows, Done, Settled, Begun, RowsStay
<1>2. CASE UNCHANGED feedVars
  BY <1>1, <1>2 DEF feedVars, intakeVars, report
<1>3. CASE \E x \in Statuses : Status(x.doc, x.how)
  BY <1>1, <1>3 DEF Status, report
<1>4. ASSUME NEW r \in Imports, Step(r) \/ FeedStep(r) PROVE SaidInv' /\ RowsStay /\ Done \subseteq Done'
  <2>1. StepsOn(r)
    BY <1>4, StepKeeps, FeedStepKeeps
  <2>2. Done \subseteq Done'
    BY <2>1, TurnFacts DEF StepsOn, IntakeInv
  <2>3. CASE Pack(r)
    BY <2>1, <2>2, <2>3, PackKeeps
  <2>4. CASE Speaks(r)
    BY <2>1, <2>2, <2>4, SpeaksKeeps
  <2> QED BY <1>4, <2>3, <2>4, StepSpeaks, FeedStepSpeaks
<1> QED BY <1>2, <1>3, <1>4 DEF FeedNext, IntakeNext

\* What was said on file is still said, or closed no earlier than it was said; and what says when a
\* fulfilment was packed says what was said before.
LEMMA SaidKept ==
    SaidInv /\ SaidInv' /\ RowsStay /\ Done \subseteq Done' =>
       /\ \A x \in Shown("fields") : x \in Shown("fields")' \/ \E c \in OnFile(cleared)' : c.row = x /\ c.at >= x.val.from
       /\ \A x \in OnFileRows("packed"), y \in OnFileRows("packed")' :
             x.feed = y.feed /\ x.key = y.key => x.val.at = y.val.at
<1> SUFFICES ASSUME SaidInv, SaidInv', RowsStay, Done \subseteq Done'
             PROVE  /\ \A x \in Shown("fields") : x \in Shown("fields")' \/ \E c \in OnFile(cleared)' : c.row = x /\ c.at >= x.val.from
                    /\ \A x \in OnFileRows("packed"), y \in OnFileRows("packed")' :
                          x.feed = y.feed /\ x.key = y.key => x.val.at = y.val.at
  OBVIOUS
<1>1. ASSUME NEW x \in Shown("fields"), x \notin Shown("fields")' PROVE \E c \in OnFile(cleared)' : c.row = x /\ c.at >= x.val.from
  <2>1. x \in reported /\ x.feed.of = "fields" /\ x.by \in Imports /\ req[x.by].at = "done"
    BY <1>1 DEF Shown, SaidInv, Says, Begun
  <2>2. x \in reported' /\ req'[x.by].at = "done"
    BY <2>1 DEF Done, RowsStay
  <2>3. PICK c \in cleared' : c.row = x /\ req'[c.by].at = "done"
    BY <1>1, <2>1, <2>2 DEF Shown
  <2>4. c.at >= x.val.from
    BY <2>1, <2>3 DEF SaidInv, Closes
  <2> QED BY <2>3, <2>4 DEF OnFile
<1>2. ASSUME NEW x \in OnFileRows("packed"), NEW y \in OnFileRows("packed")', x.feed = y.feed, x.key = y.key
      PROVE  x.val.at = y.val.at
  <2>1. x \in reported /\ x.feed.of = "packed" /\ x.by \in Done
    BY DEF OnFileRows, SaidInv, Says, Begun, Done
  <2>2. x \in PackedRows'
    BY <2>1 DEF PackedRows, RowsStay
  <2>3. y \in PackedRows'
    BY DEF OnFileRows, SaidInv, Says, Begun, Done, PackedRows
  <2> QED BY <1>2, <2>2, <2>3 DEF SaidInv, OneTime, Alike
<1> QED BY <1>1, <1>2

\* What is closed stays closed, from when the closing load was taken, and when a fulfilment was
\* packed does not move.
THEOREM SaidStandsHolds == FeedSpec => SaidStands
<1>1. FeedSpec => []SaidInv
  <2>1. IntakeInv /\ SaidInv /\ [FeedNext]_feedVars => SaidInv'
    BY SaidInvStep
  <2> QED BY <2>1, SaidInvInit, IntakeInvHolds, PTL DEF FeedSpec
<1>2. IntakeInv /\ SaidInv /\ [FeedNext]_feedVars =>
        [/\ \A x \in Shown("fields") : x \in Shown("fields")' \/ \E c \in OnFile(cleared)' : c.row = x /\ c.at >= x.val.from
         /\ \A x \in OnFileRows("packed"), y \in OnFileRows("packed")' :
               x.feed = y.feed /\ x.key = y.key => x.val.at = y.val.at]_feedVars
  BY SaidInvStep, SaidKept
<1> QED BY <1>1, <1>2, IntakeInvHolds, PTL DEF FeedSpec, SaidStands

\* What a file once settled stays settled, whatever is loaded after it or beside it: the document
\* of a fulfilment, what is closed, and when it was packed.
THEOREM SettledStaysHolds == FeedSpec => SettledStays
BY DocumentStaysHolds, SaidStandsHolds, PTL DEF SettledStays

------------------------------------------------------------------------------
(* Sums over finite sets: what MapThenSumSet comes to *)

First(s) == CHOOSE x \in s : TRUE

\* Induction over an interval, for a set: a number outside it would have a least one.
LEMMA Counting ==
    ASSUME NEW N \in Nat, NEW P, 0 \in P, \A i \in 1..N : i - 1 \in P => i \in P
    PROVE  0..N \subseteq P
<1> SUFFICES ASSUME ~(0..N \subseteq P) PROVE FALSE
  OBVIOUS
<1> DEFINE T == {i \in 0..N : i \notin P}
<1>1. T \subseteq Nat /\ T # {}
  OBVIOUS
<1>2. IsWellFoundedOn(OpToRel(<, Nat), Nat)
  BY NatLessThanWellFounded
<1>3. PICK i \in T : \A j \in T : <<j, i>> \notin OpToRel(<, Nat)
  BY <1>1, <1>2, WFMin
<1>4. \A j \in T : ~(j < i)
  BY <1>1, <1>3 DEF OpToRel
<1>5. i # 0 /\ i \in 1..N
  OBVIOUS
<1>6. i - 1 \in T
  BY <1>5
<1> QED BY <1>4, <1>5, <1>6

\* Adds(f, D, w): on each set of D, f is the weight of one of its members and what f is
\* on the rest.
Adds(f, D, w) ==
    \A s \in D : f[s] = IF s = {} THEN 0 ELSE w[First(s)] + f[s \ {First(s)}]

Weighs(w, S)      == \A x \in S : w[x] \in Nat
AnyOfThem(f, S, w) == \A s \in SUBSET S : \A x \in s : f[s] = w[x] + f[s \ {x}]
Agree(f, g, T)    == \A s \in SUBSET T : f[s] = g[s]

LEMMA FirstIs == ASSUME NEW s, s # {} PROVE First(s) \in s
BY DEF First


\* What is so of every finite set that it is so of every smaller part of, is so of all.
LEMMA BySize ==
    ASSUME NEW S, IsFiniteSet(S), NEW P,
           \A s \in SUBSET S : (\A t \in SUBSET s : t # s => t \in P) => s \in P
    PROVE  SUBSET S \subseteq P
<1> SUFFICES ASSUME ~(SUBSET S \subseteq P) PROVE FALSE
  OBVIOUS
<1> DEFINE T == {s \in SUBSET S : s \notin P}
<1>1. T # {} /\ T \subseteq FiniteSubsetsOf(S)
  BY FS_FiniteSubsetsOfFinite
<1>2. IsWellFoundedOn(StrictSubsetOrdering(S), FiniteSubsetsOf(S))
  BY FS_StrictSubsetOrderingWellFounded
<1> HIDE DEF T
<1>3. PICK s \in T : \A t \in T : ~ (<<t, s>> \in StrictSubsetOrdering(S))
  BY <1>1, <1>2, WFMin
<1> USE DEF T
<1>4. \A t \in SUBSET s : t # s => t \notin T
  BY <1>3 DEF StrictSubsetOrdering
<1> QED BY <1>4

Small(n, S)        == {s \in SUBSET S : Cardinality(s) <= n}
AddsTo(n, f, S, w) == f \in [Small(n, S) -> Nat] /\ Adds(f, Small(n, S), w)

\* A function that sums the weights of a set's parts is there.
LEMMA AddsExists ==
    ASSUME NEW S, IsFiniteSet(S), NEW w \in [S -> Nat]
    PROVE  \E f \in [SUBSET S -> Nat] : Adds(f, SUBSET S, w)
<1> DEFINE N == Cardinality(S)
           Q == {n \in 0..N : \E f : AddsTo(n, f, S, w)}
<1>1. N \in Nat
  BY FS_CardinalityType
<1>2. \A s \in SUBSET S : IsFiniteSet(s) /\ Cardinality(s) \in Nat /\ Cardinality(s) <= N
  BY FS_Subset, FS_CardinalityType
<1>3. \A s \in SUBSET S : s # {} =>
          /\ First(s) \in S /\ s \ {First(s)} \in SUBSET S
          /\ Cardinality(s \ {First(s)}) = Cardinality(s) - 1
  BY <1>2, FirstIs, FS_RemoveElement
<1>4. Small(0, S) = {{}} /\ Small(N, S) = SUBSET S
  BY <1>1, <1>2, FS_EmptySet DEF Small
<1>5. \E f : AddsTo(0, f, S, w)
  <2>1. AddsTo(0, [s \in {{}} |-> 0], S, w)
    BY <1>4 DEF Adds, AddsTo
  <2> QED BY <2>1
<1>6. ASSUME NEW n \in 1..N, NEW f, AddsTo(n - 1, f, S, w)
      PROVE  \E g : AddsTo(n, g, S, w)
  <2> DEFINE g == [s \in Small(n, S) |->
                       IF s = {} THEN 0 ELSE w[First(s)] + f[s \ {First(s)}]]
  <2>2. \A s \in Small(n, S) : s # {} =>
            /\ s \ {First(s)} \in Small(n - 1, S)
            /\ s \ {First(s)} \in Small(n, S)
            /\ w[First(s)] \in Nat
    BY <1>1, <1>2, <1>3 DEF Small
  <2>3. \A s \in Small(n - 1, S) : f[s] \in Nat
    BY <1>6 DEF AddsTo
  <2>4. g \in [Small(n, S) -> Nat]
    BY <2>2, <2>3
  <2>5. \A s \in Small(n - 1, S) : g[s] = f[s]
    <3>1. Small(n - 1, S) \subseteq Small(n, S)
      BY <1>1, <1>2 DEF Small
    <3> QED BY <1>6, <3>1 DEF Adds, AddsTo
  <2>6. Adds(g, Small(n, S), w)
    BY <2>2, <2>5 DEF Adds
  <2> HIDE DEF g
  <2>7. AddsTo(n, g, S, w)
    BY <2>4, <2>6 DEF AddsTo
  <2> QED BY <2>7
<1>7. 0 \in Q /\ \A n \in 1..N : n - 1 \in Q => n \in Q
  BY <1>1, <1>5, <1>6
<1> HIDE DEF Q
<1>8. 0..N \subseteq Q
  BY <1>1, <1>7, Counting
<1>9. \E f : AddsTo(N, f, S, w)
  BY <1>1, <1>8 DEF Q
<1> QED BY <1>4, <1>9 DEF AddsTo

\* The member that is taken first makes no difference.
LEMMA AnyFirst ==
    ASSUME NEW S, IsFiniteSet(S), NEW w, Weighs(w, S),
           NEW f, f \in [SUBSET S -> Nat], Adds(f, SUBSET S, w)
    PROVE  AnyOfThem(f, S, w)
<1> USE DEF Weighs
<1> DEFINE P == {s \in SUBSET S : \A x \in s : f[s] = w[x] + f[s \ {x}]}
<1>1. ASSUME NEW s \in SUBSET S, \A t \in SUBSET s : t # s => t \in P, NEW x \in s
      PROVE  f[s] = w[x] + f[s \ {x}]
  <2> DEFINE y == First(s)
  <2>1. y \in s /\ f[s] = w[y] + f[s \ {y}]
    BY FirstIs DEF Adds
  <2>2. CASE x = y
    BY <2>1, <2>2
  <2>3. CASE x # y
    <3> HIDE DEF y
    <3>0. \A t \in SUBSET S : t # s /\ t \subseteq s => \A z \in t : f[t] = w[z] + f[t \ {z}]
      BY <1>1
    <3>1. f[s \ {y}] = w[x] + f[(s \ {y}) \ {x}]
      BY <2>1, <2>3, <3>0
    <3>2. f[s \ {x}] = w[y] + f[(s \ {x}) \ {y}]
      BY <2>1, <2>3, <3>0
    <3>3. (s \ {y}) \ {x} = (s \ {x}) \ {y}
      OBVIOUS
    <3>4. w[x] \in Nat /\ w[y] \in Nat /\ f[(s \ {x}) \ {y}] \in Nat
      BY <2>1
    <3> DEFINE k == f[(s \ {x}) \ {y}]
    <3>5. f[s] = w[y] + (w[x] + k) /\ f[s \ {x}] = w[y] + k
      BY <2>1, <3>1, <3>2, <3>3
    <3>6. k \in Nat
      BY <3>4
    <3> HIDE DEF k
    <3> QED BY <3>4, <3>5, <3>6
  <2> QED BY <2>2, <2>3
<1>2. \A s \in SUBSET S : (\A t \in SUBSET s : t # s => t \in P) => s \in P
  BY <1>1
<1> HIDE DEF P
<1>3. SUBSET S \subseteq P
  BY <1>2, BySize
<1> QED BY <1>3 DEF P, AnyOfThem

\* What a set comes to does not depend on the set it is a part of.
LEMMA SameSums ==
    ASSUME NEW S, IsFiniteSet(S), NEW T, T \subseteq S, NEW w, NEW f, NEW g,
           Adds(f, SUBSET S, w), Adds(g, SUBSET T, w)
    PROVE  Agree(f, g, T)
<1> DEFINE P == {s \in SUBSET T : f[s] = g[s]}
<1>1. IsFiniteSet(T)
  BY FS_Subset
<1>2. ASSUME NEW s \in SUBSET T, \A t \in SUBSET s : t # s => t \in P
      PROVE  f[s] = g[s]
  <2>1. CASE s = {}
    BY <2>1 DEF Adds
  <2>2. CASE s # {}
    <3>1. First(s) \in s
      BY <2>2, FirstIs
    <3>2. f[s \ {First(s)}] = g[s \ {First(s)}]
      BY <1>2, <3>1
    <3> QED BY <2>2, <3>2 DEF Adds
  <2> QED BY <2>1, <2>2
<1>3. \A s \in SUBSET T : (\A t \in SUBSET s : t # s => t \in P) => s \in P
  BY <1>2
<1> HIDE DEF P
<1>4. SUBSET T \subseteq P
  BY <1>1, <1>3, BySize
<1> QED BY <1>4 DEF P, Agree

LEMMA SumIs ==
    ASSUME NEW S, IsFiniteSet(S), S \subseteq Requests
    PROVE  \E f \in [SUBSET S -> Nat] : Adds(f, SUBSET S, Units) /\ Covered(S) = f[S]
<1> DEFINE Is(f) == f = [s \in SUBSET S |-> IF s = {} THEN 0 ELSE Units[First(s)] + f[s \ {First(s)}]]
<1>1. Covered(S) = (CHOOSE f : Is(f))[S]
  BY DEF Covered, MapThenSumSet, MapThenFoldSet, First
<1> DEFINE w == [r \in S |-> Units[r]]
<1>2. w \in [S -> Nat]
  BY ClaimsAssumption DEF ClaimsAssumption
<1>3. PICK f \in [SUBSET S -> Nat] : Adds(f, SUBSET S, w)
  BY <1>2, AddsExists
<1>4. \A s \in SUBSET S : s # {} => First(s) \in S /\ w[First(s)] = Units[First(s)]
  BY FirstIs
<1>5. \A s \in SUBSET S : f[s] = IF s = {} THEN 0 ELSE Units[First(s)] + f[s \ {First(s)}]
  BY <1>3, <1>4 DEF Adds
<1>6. Is(f)
  BY <1>5
<1> DEFINE g == CHOOSE h : Is(h)
<1>7. Is(g)
  <2> HIDE DEF Is
  <2> QED BY <1>6
<1> HIDE DEF g
<1>8. Adds(g, SUBSET S, Units)
  BY <1>7 DEF Adds
<1>9. Adds(f, SUBSET S, Units)
  BY <1>5 DEF Adds
<1>10. f[S] = g[S]
  <2>1. Agree(g, f, S)
    BY <1>8, <1>9, SameSums
  <2> QED BY <2>1 DEF Agree
<1> QED BY <1>1, <1>9, <1>10 DEF g

LEMMA SumType ==
    ASSUME NEW S, IsFiniteSet(S), S \subseteq Requests
    PROVE  Covered(S) \in Nat
<1>1. PICK f \in [SUBSET S -> Nat] : Covered(S) = f[S]
  BY SumIs
<1>2. S \in SUBSET S
  OBVIOUS
<1> QED BY <1>1, <1>2

\* A member adds its units to the rest.
LEMMA SumAdds ==
    ASSUME NEW S, IsFiniteSet(S), S \subseteq Requests, NEW x \in S
    PROVE  Covered(S) = Units[x] + Covered(S \ {x})
<1> DEFINE T == S \ {x}
<1>1. IsFiniteSet(T) /\ T \subseteq Requests
  BY FS_Subset
<1>2. PICK f \in [SUBSET S -> Nat] : Adds(f, SUBSET S, Units) /\ Covered(S) = f[S]
  BY SumIs
<1> HIDE DEF T
<1>3. PICK g \in [SUBSET T -> Nat] : Adds(g, SUBSET T, Units) /\ Covered(T) = g[T]
  BY <1>1, SumIs
<1>4. f[T] = g[T]
  <2>1. T \subseteq S
    BY DEF T
  <2>2. Agree(f, g, T)
    BY <1>2, <1>3, <2>1, SameSums
  <2>3. T \in SUBSET T
    OBVIOUS
  <2> QED BY <2>2, <2>3 DEF Agree
<1>5. f[S] = Units[x] + f[S \ {x}]
  <2>1. Weighs(Units, S)
    BY ClaimsAssumption DEF ClaimsAssumption, Weighs
  <2>2. AnyOfThem(f, S, Units)
    BY <1>2, <2>1, AnyFirst
  <2>3. S \in SUBSET S
    OBVIOUS
  <2> QED BY <2>2, <2>3 DEF AnyOfThem
<1>6. S \ {x} = T
  BY DEF T
<1>7. f[S] = Units[x] + f[T]
  BY <1>5, <1>6
<1> QED BY <1>2, <1>3, <1>4, <1>6, <1>7

\* More claims take no less.
LEMMA SumGrows ==
    ASSUME NEW S, IsFiniteSet(S), S \subseteq Requests
    PROVE  \A T \in SUBSET S : Covered(T) <= Covered(S)
<1> DEFINE P == {s \in SUBSET S : \A t \in SUBSET s : Covered(t) <= Covered(s)}
<1>1. ASSUME NEW s \in SUBSET S, \A u \in SUBSET s : u # s => u \in P,
             NEW t \in SUBSET s
      PROVE  Covered(t) <= Covered(s)
  <2>0. IsFiniteSet(s) /\ s \subseteq Requests /\ Covered(s) \in Nat /\ Covered(t) \in Nat
    BY FS_Subset, SumType
  <2>1. CASE t = s
    BY <2>0, <2>1
  <2>2. CASE t # s
    <3>1. PICK x \in s : x \notin t
      BY <2>2
    <3> DEFINE u == s \ {x}
    <3>2. t \in SUBSET u /\ u \in SUBSET s /\ u # s
      BY <3>1
    <3>6. u \subseteq Requests /\ IsFiniteSet(u)
      BY <2>0, FS_Subset
    <3>3. Covered(t) <= Covered(u)
      BY <1>1, <3>2
    <3>4. Covered(s) = Units[x] + Covered(u)
      BY <2>0, SumAdds
    <3> HIDE DEF u
    <3>5. Covered(u) \in Nat
      BY <3>6, SumType
    <3>7. Units[x] \in Nat
      BY <2>0, <3>1, ClaimsAssumption DEF ClaimsAssumption
    <3> QED BY <2>0, <3>3, <3>4, <3>5, <3>7
  <2> QED BY <2>1, <2>2
<1>2. \A s \in SUBSET S : (\A t \in SUBSET s : t # s => t \in P) => s \in P
  BY <1>1
<1> HIDE DEF P
<1>3. SUBSET S \subseteq P
  BY <1>2, BySize
<1> QED BY <1>3 DEF P

------------------------------------------------------------------------------
USE ClaimsAssumption
USE DEF ClaimsAssumption, Callers

Types ==
    /\ pc \in [Callers -> {"new", "read", "checked", "inserted", "updated", "ended"}]
    /\ seen \in [Requests -> SUBSET Requests]
    /\ holder \in [Ids -> Requests \cup {NoOne}]
    /\ rows \subseteq Requests
    /\ outcome \in [Callers -> {"none", "ok", "refused", "failed"}]
    /\ unfit \subseteq Requests
    /\ told \in [Requests -> Requests \cup {NoOne}]

HolderShape ==
    /\ \A i \in Ids : holder[i] # NoOne =>
           pc[holder[i]] = "inserted" /\ IdOf[holder[i]] = i
    /\ \A r \in Requests : pc[r] = "inserted" =>
           holder[IdOf[r]] = r /\ RowsOf(IdOf[r]) = {}

Unanswered ==
    \A r \in Requests : pc[r] # "ended" =>
        outcome[r] = "none" /\ told[r] = NoOne /\ r \notin rows

SeenShape ==
    \A r \in Requests : seen[r] \subseteq rows /\ (r \in unfit => pc[r] = "ended")

IInv == Types /\ HolderShape /\ Unanswered /\ SeenShape /\ OneClaim /\ OwnClaimNotCounted

------------------------------------------------------------------------------
\* Nothing is claimed and nobody is answered at the start.
LEMMA InitIInv == Init => IInv
BY DEF Init, IInv, Types, HolderShape, Unanswered, SeenShape, OneClaim,
       OwnClaimNotCounted, RowsOf

\* The ending of a request touches only that request and the ids it held.
LEMMA EndTypes ==
    ASSUME Types, NEW c \in Callers,
           NEW how \in {"ok", "refused", "failed"}, End(c, how)
    PROVE  /\ pc' \in [Callers -> {"new", "read", "checked", "inserted", "updated", "ended"}]
           /\ holder' \in [Ids -> Requests \cup {NoOne}]
           /\ outcome' \in [Callers -> {"none", "ok", "refused", "failed"}]
BY DEF Types, End, Goes

\* When the rows do not change, the holders keep their shape.
LEMMA EndHolder ==
    ASSUME Types, HolderShape, NEW c \in Callers, NEW how, End(c, how), rows' = rows
    PROVE  HolderShape'
BY DEF Types, HolderShape, End, Goes, RowsOf

\* A replay ends its request, with the row it was answered with or without one.
LEMMA ReplayEnds ==
    ASSUME Types, NEW r \in Requests, Replay(r)
    PROVE  /\ UNCHANGED <<seen, table, unfit>>
           /\ \/ End(r, "refused") /\ told' = told
              \/ \E p \in RowsOf(IdOf[r]) : /\ SameBody(p, r)
                                            /\ End(r, "ok")
                                            /\ told' = [told EXCEPT ![r] = p]
BY DEF Replay

\* The actions in which a request goes on without writing a row or an answer, and
\* those in which one ends without success; the rest are replays and records.
GoesOn(r) ==
    /\ pc[r] # "ended"
    /\ pc[r] # "inserted"
    /\ \E to \in {"read", "checked"} : Goes(r, to)
    /\ \/ seen' = seen
       \/ seen' = [seen EXCEPT ![r] = Covering(LineOf[r])]
    /\ UNCHANGED <<holder, table, answers>>

TurnsDown(c) ==
    /\ pc[c] # "ended"
    /\ \E how \in {"refused", "failed"} : End(c, how)
    /\ unfit' = unfit \/ (c \in Requests /\ RowsOf(IdOf[c]) = {} /\ unfit' = unfit \cup {c})
    /\ UNCHANGED <<seen, table, told>>

Replays(r) == pc[r] # "ended" /\ Replay(r)

\* What a release does to the rows' state, the requests do not see.
ReleaseStep(q) ==
    /\ \/ \E to \in {"read", "updated"} : Goes(q, to) /\ UNCHANGED <<holder, outcome>>
       \/ End(q, "ok") \/ End(q, "refused")
    /\ UNCHANGED <<seen, rows, unfit, told>>

\* Every step is one of these.
LEMMA Steps ==
    ASSUME Types, [Next]_vars
    PROVE  \/ \E r \in Requests : GoesOn(r) \/ Replays(r) \/ Insert(r) \/ Record(r)
           \/ \E c \in Callers : TurnsDown(c)
           \/ \E q \in Releases : ReleaseStep(q)
           \/ UNCHANGED <<pc, seen, holder, rows, answers>>
<1>1. ASSUME NEW r \in Requests, ReadLine(r) PROVE GoesOn(r)
  BY <1>1 DEF ReadLine, GoesOn
<1>2. ASSUME NEW r \in Requests, Settle(r) PROVE GoesOn(r) \/ Replays(r) \/ TurnsDown(r)
  <2>1. CASE RowsOf(IdOf[r]) = {} /\ OverCovers(r)
    BY <1>2, <2>1 DEF Settle, Check, TurnsDown
  <2>2. CASE RowsOf(IdOf[r]) = {} /\ ~OverCovers(r)
    BY <1>2, <2>2 DEF Settle, Check, GoesOn, answers
  <2>3. CASE RowsOf(IdOf[r]) # {}
    BY <1>2, <2>3 DEF Settle, Replays
  <2> QED BY <2>1, <2>2, <2>3
<1>3. ASSUME NEW r \in Requests, Lose(r) PROVE Replays(r)
  BY <1>3 DEF Lose, Replays
<1>4. ASSUME NEW q \in Releases, ReadClaim(q) \/ Update(q) \/ Free(q)
      PROVE  ReleaseStep(q)
  BY <1>4 DEF ReadClaim, Update, Free, ReleaseStep, table, answers
<1>5. ASSUME NEW c \in Callers, Abort(c) PROVE TurnsDown(c)
  BY <1>5 DEF Abort, TurnsDown
<1> QED
  BY <1>1, <1>2, <1>3, <1>4, <1>5 DEF Next, ServeClaim, ServeRelease, vars, table, answers

------------------------------------------------------------------------------
\* The ranges hold after every step.
LEMMA NextTypes == IInv /\ [Next]_vars => Types'
<1> SUFFICES ASSUME IInv, [Next]_vars PROVE Types'
  OBVIOUS
<1>0. Types
  BY DEF IInv
<1>1. ASSUME NEW r \in Requests, GoesOn(r) PROVE Types'
  <2>1. Covering(LineOf[r]) \subseteq Requests
    BY <1>0 DEF Covering, Types
  <2>2. seen' \in [Requests -> SUBSET Requests]
    BY <1>0, <1>1, <2>1 DEF GoesOn, Types
  <2> QED BY <1>0, <1>1, <2>2 DEF GoesOn, Goes, Types, table, answers
<1>2. ASSUME NEW r \in Requests, Replays(r) PROVE Types'
  <2>1. Replay(r) /\ UNCHANGED <<seen, table, unfit>>
    BY <1>0, <1>2, ReplayEnds DEF Replays
  <2>2. End(r, "refused") \/ End(r, "ok")
    BY <1>0, <2>1, ReplayEnds
  <2>3. told' \in [Requests -> Requests \cup {NoOne}]
    BY <1>0, <2>1, ReplayEnds DEF Types, RowsOf
  <2> QED BY <1>0, <2>1, <2>2, <2>3, EndTypes DEF Types, table
<1>3. ASSUME NEW r \in Requests, Insert(r) PROVE Types'
  BY <1>0, <1>3 DEF Insert, Goes, Types, table, answers
<1>4. ASSUME NEW r \in Requests, Record(r) PROVE Types'
  <2>1. End(r, "ok") /\ UNCHANGED <<seen, unfit>>
    BY <1>4 DEF Record
  <2>2. rows' \subseteq Requests /\ told' \in [Requests -> Requests \cup {NoOne}]
    BY <1>0, <1>4 DEF Record, Types
  <2> QED BY <1>0, <2>1, <2>2, EndTypes DEF Types
<1>5. ASSUME NEW c \in Callers, TurnsDown(c) PROVE Types'
  <2>1. End(c, "refused") \/ End(c, "failed")
    BY <1>5 DEF TurnsDown
  <2>2. UNCHANGED <<seen, rows, told>> /\ unfit' \subseteq Requests
    BY <1>0, <1>5 DEF TurnsDown, Types, table
  <2> QED BY <1>0, <2>1, <2>2, EndTypes DEF Types
<1>6. ASSUME NEW q \in Releases, ReleaseStep(q) PROVE Types'
  <2>1. UNCHANGED <<seen, rows, unfit, told>>
    BY <1>6 DEF ReleaseStep
  <2>2. CASE End(q, "ok") \/ End(q, "refused")
    BY <1>0, <2>1, <2>2, EndTypes DEF Types
  <2>3. CASE \E to \in {"read", "updated"} : Goes(q, to) /\ UNCHANGED <<holder, outcome>>
    BY <1>0, <2>1, <2>3 DEF Types, Goes
  <2> QED BY <1>6, <2>2, <2>3 DEF ReleaseStep
<1>7. CASE UNCHANGED <<pc, seen, holder, rows, answers>>
  BY <1>0, <1>7 DEF Types, answers
<1> QED BY <1>0, <1>1, <1>2, <1>3, <1>4, <1>5, <1>6, <1>7, Steps

\* One request at a time holds an id, and only while no row has it.
LEMMA NextHolder == IInv /\ [Next]_vars => HolderShape'
<1> SUFFICES ASSUME IInv, [Next]_vars PROVE HolderShape'
  OBVIOUS
<1>0. Types /\ HolderShape
  BY DEF IInv
<1>1. ASSUME NEW r \in Requests, GoesOn(r) PROVE HolderShape'
  <2>1. rows' = rows /\ holder' = holder /\ pc[r] # "inserted"
    BY <1>1 DEF GoesOn, table
  <2> QED BY <1>0, <1>1, <2>1 DEF GoesOn, Goes, Types, HolderShape, RowsOf
<1>2. ASSUME NEW r \in Requests, Replays(r) PROVE HolderShape'
  BY <1>0, <1>2, ReplayEnds, EndHolder DEF Replays, table
<1>3. ASSUME NEW r \in Requests, Insert(r) PROVE HolderShape'
  BY <1>0, <1>3 DEF Insert, Goes, Types, HolderShape, RowsOf, table
<1>4. ASSUME NEW r \in Requests, Record(r) PROVE HolderShape'
  BY <1>0, <1>4 DEF Record, End, Goes, Types, HolderShape, RowsOf
<1>5. ASSUME NEW c \in Callers, TurnsDown(c) PROVE HolderShape'
  BY <1>0, <1>5, EndHolder DEF TurnsDown, table
<1>6. ASSUME NEW q \in Releases, ReleaseStep(q) PROVE HolderShape'
  <2>1. rows' = rows
    BY <1>6 DEF ReleaseStep
  <2>2. CASE End(q, "ok") \/ End(q, "refused")
    BY <1>0, <2>1, <2>2, EndHolder
  <2>3. CASE \E to \in {"read", "updated"} : Goes(q, to) /\ UNCHANGED <<holder, outcome>>
    BY <1>0, <2>1, <2>3 DEF Types, Goes, HolderShape, RowsOf
  <2> QED BY <1>6, <2>2, <2>3 DEF ReleaseStep
<1>7. CASE UNCHANGED <<pc, seen, holder, rows, answers>>
  BY <1>0, <1>7 DEF HolderShape, RowsOf
<1> QED BY <1>0, <1>1, <1>2, <1>3, <1>4, <1>5, <1>6, <1>7, Steps

\* A request is answered in the step that ends it, and writes its row in that step.
LEMMA NextUnanswered == IInv /\ [Next]_vars => Unanswered'
<1> SUFFICES ASSUME IInv, [Next]_vars PROVE Unanswered'
  OBVIOUS
<1>0. Types /\ Unanswered
  BY DEF IInv
<1>1. ASSUME NEW r \in Requests, GoesOn(r) PROVE Unanswered'
  BY <1>0, <1>1 DEF GoesOn, Goes, Types, Unanswered, table, answers
<1>2. ASSUME NEW r \in Requests, Replays(r) PROVE Unanswered'
  <2>1. UNCHANGED table /\ \E how \in {"ok", "refused"} : End(r, how)
    BY <1>0, <1>2, ReplayEnds DEF Replays
  <2>2. told' = told \/ \E p : told' = [told EXCEPT ![r] = p]
    BY <1>0, <1>2, ReplayEnds DEF Replays
  <2> QED BY <1>0, <2>1, <2>2 DEF End, Goes, Types, Unanswered, table
<1>3. ASSUME NEW r \in Requests, Insert(r) PROVE Unanswered'
  BY <1>0, <1>3 DEF Insert, Goes, Types, Unanswered, table, answers
<1>4. ASSUME NEW r \in Requests, Record(r) PROVE Unanswered'
  BY <1>0, <1>4 DEF Record, End, Goes, Types, Unanswered
<1>5. ASSUME NEW c \in Callers, TurnsDown(c) PROVE Unanswered'
  BY <1>0, <1>5 DEF TurnsDown, End, Goes, Types, Unanswered, table
<1>6. ASSUME NEW q \in Releases, ReleaseStep(q) PROVE Unanswered'
  BY <1>0, <1>6 DEF ReleaseStep, End, Goes, Types, Unanswered
<1>7. CASE UNCHANGED <<pc, seen, holder, rows, answers>>
  BY <1>0, <1>7 DEF Unanswered, answers
<1> QED BY <1>0, <1>1, <1>2, <1>3, <1>4, <1>5, <1>6, <1>7, Steps

\* Rows are never taken away.
LEMMA RowsGrow ==
    ASSUME Types, [Next]_vars
    PROVE  rows \subseteq rows'
BY Steps, ReplayEnds DEF GoesOn, Replays, Insert, Record, TurnsDown, ReleaseStep, table

\* What a request read is still there.
LEMMA NextSeen == IInv /\ [Next]_vars => SeenShape'
<1> SUFFICES ASSUME IInv, [Next]_vars PROVE SeenShape'
  OBVIOUS
<1>0. Types /\ SeenShape /\ rows \subseteq rows'
  BY RowsGrow DEF IInv
<1>1. ASSUME NEW r \in Requests, GoesOn(r) PROVE SeenShape'
  <2>1. Covering(LineOf[r]) \subseteq rows
    BY DEF Covering
  <2>2. \A s \in Requests : seen'[s] \subseteq rows'
    BY <1>0, <1>1, <2>1 DEF GoesOn, Types, SeenShape
  <2> QED BY <1>0, <1>1, <2>2 DEF GoesOn, Goes, Types, SeenShape, answers
<1>2. ASSUME NEW r \in Requests, Replays(r) PROVE SeenShape'
  <2>1. UNCHANGED <<seen, unfit>> /\ \E how \in {"ok", "refused"} : End(r, how)
    BY <1>0, <1>2, ReplayEnds DEF Replays
  <2> QED BY <1>0, <2>1 DEF End, Goes, Types, SeenShape
<1>3. ASSUME NEW r \in Requests, Insert(r) PROVE SeenShape'
  BY <1>0, <1>3 DEF Insert, Goes, Types, SeenShape, answers
<1>4. ASSUME NEW r \in Requests, Record(r) PROVE SeenShape'
  BY <1>0, <1>4 DEF Record, End, Goes, Types, SeenShape
<1>5. ASSUME NEW c \in Callers, TurnsDown(c) PROVE SeenShape'
  BY <1>0, <1>5 DEF TurnsDown, End, Goes, Types, SeenShape
<1>6. ASSUME NEW q \in Releases, ReleaseStep(q) PROVE SeenShape'
  BY <1>0, <1>6 DEF ReleaseStep, End, Goes, Types, SeenShape
<1>7. CASE UNCHANGED <<pc, seen, holder, rows, answers>>
  BY <1>0, <1>7 DEF SeenShape, answers
<1> QED BY <1>0, <1>1, <1>2, <1>3, <1>4, <1>5, <1>6, <1>7, Steps

------------------------------------------------------------------------------
\* Only Record writes a row, and then nothing has its id.
LEMMA NextOneClaim == IInv /\ [Next]_vars => OneClaim'
<1> SUFFICES ASSUME IInv, [Next]_vars PROVE OneClaim'
  OBVIOUS
<1>0. Types /\ HolderShape /\ Unanswered /\ OneClaim
  BY DEF IInv
<1>1. ASSUME NEW r \in Requests, GoesOn(r) \/ Insert(r) PROVE OneClaim'
  BY <1>0, <1>1 DEF GoesOn, Insert, OneClaim, SameBody, table, answers
<1>2. ASSUME NEW r \in Requests, Replays(r) PROVE OneClaim'
  <2>1. rows' = rows
    BY <1>0, <1>2, ReplayEnds DEF Replays, table
  <2>2. CASE End(r, "refused") /\ told' = told
    BY <1>0, <2>1, <2>2 DEF OneClaim, SameBody, End, Types
  <2>3. ASSUME NEW p \in RowsOf(IdOf[r]), SameBody(p, r), End(r, "ok"),
               told' = [told EXCEPT ![r] = p]
        PROVE  OneClaim'
    <3>1. p \in rows /\ IdOf[p] = IdOf[r]
      BY <2>3 DEF RowsOf
    <3>2. outcome' = [outcome EXCEPT ![r] = "ok"]
      BY <2>3 DEF End
    <3> QED BY <1>0, <2>1, <2>3, <3>1, <3>2 DEF OneClaim, SameBody, Types
  <2> QED BY <1>0, <1>2, <2>2, <2>3, ReplayEnds DEF Replays
<1>3. ASSUME NEW r \in Requests, Record(r) PROVE OneClaim'
  <2>1. \A p \in rows : IdOf[p] # IdOf[r]
    BY <1>0, <1>3 DEF Record, HolderShape, RowsOf
  <2>2. /\ rows' = rows \cup {r}
        /\ told' = [told EXCEPT ![r] = r]
        /\ outcome' = [outcome EXCEPT ![r] = "ok"]
    BY <1>3 DEF Record, End
  <2>3. \A p, q \in rows' : IdOf[p] = IdOf[q] => p = q
    BY <1>0, <2>1, <2>2 DEF OneClaim
  <2>4. \A s \in Requests : outcome'[s] = "ok" =>
            told'[s] \in rows' /\ IdOf[told'[s]] = IdOf[s] /\ SameBody(told'[s], s)
    BY <1>0, <2>2 DEF OneClaim, SameBody, Types
  <2> QED BY <2>3, <2>4 DEF OneClaim, SameBody
<1>4. ASSUME NEW c \in Callers, TurnsDown(c) PROVE OneClaim'
  BY <1>0, <1>4 DEF TurnsDown, End, OneClaim, SameBody, Types, table
<1>5. ASSUME NEW q \in Releases, ReleaseStep(q) PROVE OneClaim'
  BY <1>0, <1>5 DEF ReleaseStep, End, OneClaim, SameBody, Types
<1>6. CASE UNCHANGED <<pc, seen, holder, rows, answers>>
  BY <1>0, <1>6 DEF OneClaim, SameBody, answers
<1> QED BY <1>0, <1>1, <1>2, <1>3, <1>4, <1>5, <1>6, Steps

\* A request is refused for its line only when no row has its id; every row it read
\* is still there, so none of those has its id either.
LEMMA NextOwn == IInv /\ [Next]_vars => OwnClaimNotCounted'
<1> SUFFICES ASSUME IInv, [Next]_vars PROVE OwnClaimNotCounted'
  OBVIOUS
<1>0. Types /\ SeenShape /\ OwnClaimNotCounted
  BY DEF IInv
<1>1. ASSUME NEW r \in Requests, GoesOn(r) PROVE OwnClaimNotCounted'
  <2>1. r \notin unfit /\ unfit' = unfit
    BY <1>0, <1>1 DEF GoesOn, SeenShape, answers
  <2>2. \A s \in Requests \ {r} : seen'[s] = seen[s]
    BY <1>0, <1>1 DEF GoesOn, Types
  <2> QED BY <1>0, <2>1, <2>2 DEF OwnClaimNotCounted, Types
<1>2. ASSUME NEW r \in Requests, Replays(r) PROVE OwnClaimNotCounted'
  BY <1>0, <1>2, ReplayEnds DEF Replays, OwnClaimNotCounted
<1>3. ASSUME NEW r \in Requests, Insert(r) \/ Record(r) PROVE OwnClaimNotCounted'
  BY <1>0, <1>3 DEF Insert, Record, OwnClaimNotCounted, answers
<1>4. ASSUME NEW c \in Callers, TurnsDown(c) PROVE OwnClaimNotCounted'
  <2>1. seen' = seen
    BY <1>4 DEF TurnsDown
  <2>2. CASE unfit' = unfit
    BY <1>0, <2>1, <2>2 DEF OwnClaimNotCounted
  <2>3. CASE c \in Requests /\ RowsOf(IdOf[c]) = {} /\ unfit' = unfit \cup {c}
    <3>1. \A p \in seen[c] : IdOf[p] # IdOf[c]
      BY <1>0, <2>3 DEF SeenShape, RowsOf
    <3> QED BY <1>0, <2>1, <2>3, <3>1 DEF OwnClaimNotCounted
  <2> QED BY <1>4, <2>2, <2>3 DEF TurnsDown
<1>5. ASSUME NEW q \in Releases, ReleaseStep(q) PROVE OwnClaimNotCounted'
  BY <1>0, <1>5 DEF ReleaseStep, OwnClaimNotCounted
<1>6. CASE UNCHANGED <<pc, seen, holder, rows, answers>>
  BY <1>0, <1>6 DEF OwnClaimNotCounted, answers
<1> QED BY <1>0, <1>1, <1>2, <1>3, <1>4, <1>5, <1>6, Steps

LEMMA NextIInv == IInv /\ [Next]_vars => IInv'
BY NextTypes, NextHolder, NextUnanswered, NextSeen, NextOneClaim, NextOwn DEF IInv

LEMMA Inductive == Spec => []IInv
BY InitIInv, NextIInv, PTL DEF Spec

------------------------------------------------------------------------------
\* Copies of a claim are one row, and each success is told that row and asked for
\* what it says: the primary key and reject_allocation_mismatch, where a row is
\* found before the insert and where the insert finds it.
THEOREM ClaimsAreOne == Spec => []OneClaim
<1>1. IInv => OneClaim
  BY DEF IInv
<1> QED BY <1>1, Inductive, PTL

\* No retry is refused for the room its own claim takes up: record_allocation reads
\* the line before it looks for the claim, and settles the replay before the checks.
THEOREM OwnClaimIsNotCounted == Spec => []OwnClaimNotCounted
<1>1. IInv => OwnClaimNotCounted
  BY DEF IInv
<1> QED BY <1>1, Inductive, PTL

------------------------------------------------------------------------------
(* What a line has room for *)

\* What a request was checked against still fits it until it is answered.
CheckedFit ==
    \A r \in Requests : pc[r] \in {"checked", "inserted"} =>
        Covered(seen[r]) + Units[r] <= Wanted[LineOf[r]]

FitInv == IInv /\ IsFiniteSet(rows) /\ CheckedFit /\ SeenClaimsFit

\* Part of the rows takes no more than the part it is in, and a number.
LEMMA PartSum ==
    ASSUME Types, IsFiniteSet(rows), NEW S, S \subseteq rows, NEW T, T \subseteq S
    PROVE  Covered(S) \in Nat /\ Covered(T) \in Nat /\ Covered(T) <= Covered(S)
<1>1. IsFiniteSet(S) /\ S \subseteq Requests /\ IsFiniteSet(T) /\ T \subseteq Requests
  BY FS_Subset DEF Types
<1> QED BY <1>1, SumType, SumGrows

LEMMA InitFit == Init => FitInv
<1> SUFFICES ASSUME Init PROVE FitInv
  OBVIOUS
<1>1. IInv /\ rows = {} /\ IsFiniteSet(rows) /\ Types
  BY InitIInv, FS_EmptySet DEF Init, IInv
<1>2. CheckedFit
  BY DEF Init, CheckedFit
<1>3. \A l \in Lines : Covering(l) \ raced = {}
  BY <1>1 DEF Covering
<1>4. Covered({}) = 0
  <2>1. PICK f \in [SUBSET {} -> Nat] : Adds(f, SUBSET {}, Units) /\ Covered({}) = f[{}]
    BY FS_EmptySet, SumIs
  <2> QED BY <2>1 DEF Adds
<1>5. SeenClaimsFit
  <2>1. \A l \in Lines : Covered(Covering(l) \ raced) = 0 /\ Wanted[l] \in Nat
    BY <1>3, <1>4
  <2>2. \A l \in Lines : Covered(Covering(l) \ raced) <= Wanted[l]
    BY <2>1
  <2> QED BY <2>2 DEF SeenClaimsFit
<1> QED BY <1>1, <1>2, <1>5 DEF FitInv

\* The rows stay finitely many: a step writes one at most.
LEMMA NextFinite == FitInv /\ [Next]_vars => IsFiniteSet(rows)'
<1> SUFFICES ASSUME FitInv, [Next]_vars PROVE IsFiniteSet(rows')
  OBVIOUS
<1>1. rows' = rows \/ \E r \in Requests : rows' = rows \cup {r}
  BY Steps, ReplayEnds DEF FitInv, IInv, GoesOn, Replays, Insert, Record, TurnsDown,
     ReleaseStep, table
<1> QED BY <1>1, FS_AddElement DEF FitInv

\* Check lets only a request go on that fits what it read, and what it read is not
\* read again.
LEMMA NextChecked == FitInv /\ [Next]_vars => CheckedFit'
<1> SUFFICES ASSUME FitInv, [Next]_vars PROVE CheckedFit'
  OBVIOUS
<1>0. Types /\ CheckedFit /\ SeenShape /\ IsFiniteSet(rows)
  BY DEF FitInv, IInv
<1> DEFINE Room(r) == Covered(seen[r]) + Units[r] <= Wanted[LineOf[r]]
<1>a. ASSUME NEW r \in Requests,
             \A s \in Requests \ {r} : pc'[s] = pc[s] /\ seen'[s] = seen[s],
             pc'[r] \in {"checked", "inserted"} => seen'[r] = seen[r] /\ Room(r)
      PROVE  CheckedFit'
  BY <1>0, <1>a DEF CheckedFit
<1>b. ASSUME seen' = seen, NEW q, \A s \in Requests \ {q} : pc'[s] = pc[s],
             q \in Requests => pc'[q] \notin {"checked", "inserted"}
      PROVE  CheckedFit'
  BY <1>0, <1>b DEF CheckedFit
<1>1. ASSUME NEW r \in Requests, ReadLine(r) PROVE CheckedFit'
  <2>1. /\ \A s \in Requests \ {r} : pc'[s] = pc[s] /\ seen'[s] = seen[s]
        /\ pc'[r] = "read"
    BY <1>0, <1>1 DEF ReadLine, Goes, Types
  <2> QED BY <1>a, <2>1
<1>2. ASSUME NEW r \in Requests, Settle(r) PROVE CheckedFit'
  <2>1. CASE Replay(r)
    BY <1>0, <1>b, <2>1 DEF Replay, End, Goes, Types
  <2>2. CASE Check(r)
    <3>1. CASE OverCovers(r)
      BY <1>0, <1>b, <2>2, <3>1 DEF Check, End, Goes, Types
    <3>2. CASE ~OverCovers(r)
      <4>1. /\ seen' = seen
            /\ \A s \in Requests \ {r} : pc'[s] = pc[s]
        BY <1>0, <2>2, <3>2 DEF Check, Goes, Types
      <4>2. Covered(seen[r]) \in Nat
        BY <1>0, PartSum DEF SeenShape
      <4>3. Units[r] \in Nat /\ Wanted[LineOf[r]] \in Nat
        OBVIOUS
      <4>4. Room(r)
        BY <3>2, <4>2, <4>3 DEF OverCovers
      <4> HIDE DEF Room
      <4> QED BY <1>a, <4>1, <4>4
    <3> QED BY <3>1, <3>2
  <2> QED BY <1>2, <2>1, <2>2 DEF Settle
<1>3. ASSUME NEW r \in Requests, Insert(r) PROVE CheckedFit'
  <2>1. /\ \A s \in Requests \ {r} : pc'[s] = pc[s] /\ seen'[s] = seen[s]
        /\ seen'[r] = seen[r] /\ Room(r)
    BY <1>0, <1>3 DEF Insert, Goes, Types, CheckedFit
  <2> HIDE DEF Room
  <2> QED BY <1>a, <2>1
<1>4. ASSUME NEW r \in Requests, Lose(r) \/ Record(r) PROVE CheckedFit'
  BY <1>0, <1>4, <1>b DEF Lose, Replay, Record, End, Goes, Types
<1>5. ASSUME NEW q \in Releases, ReadClaim(q) \/ Update(q) \/ Free(q) PROVE CheckedFit'
  <2>1. seen' = seen /\ \A s \in Requests : pc'[s] = pc[s]
    BY <1>0, <1>5 DEF ReadClaim, Update, Free, End, Goes, Types
  <2> QED BY <1>0, <2>1 DEF CheckedFit
<1>6. ASSUME NEW c \in Callers, Abort(c) PROVE CheckedFit'
  BY <1>0, <1>6, <1>b DEF Abort, End, Goes, Types
<1>7. CASE UNCHANGED vars
  BY <1>0, <1>7 DEF CheckedFit, vars
<1> QED BY <1>1, <1>2, <1>3, <1>4, <1>5, <1>6, <1>7 DEF Next, ServeClaim, ServeRelease

\* A claim that missed no other is added to part of what it was checked against; a
\* release only takes away.
LEMMA NextFit == FitInv /\ [Next]_vars => SeenClaimsFit'
<1> SUFFICES ASSUME FitInv, [Next]_vars, NEW l \in Lines
             PROVE  Covered(Covering(l)' \ raced') <= Wanted[l]
  BY DEF SeenClaimsFit
<1>0. Types /\ CheckedFit /\ SeenShape /\ IsFiniteSet(rows) /\ SeenClaimsFit /\ HolderShape
  BY DEF FitInv, IInv
<1> DEFINE S == Covering(l) \ raced
           T == Covering(l)' \ raced'
<1>1. S \subseteq rows /\ Covered(S) \in Nat /\ Covered(S) <= Wanted[l] /\ Wanted[l] \in Nat
  <2>1. S \subseteq rows
    BY DEF Covering
  <2>2. Covered(S) <= Wanted[l]
    BY <1>0 DEF SeenClaimsFit
  <2> QED BY <1>0, <2>1, <2>2, PartSum
<1>2. ASSUME T \subseteq S PROVE Covered(T) <= Wanted[l]
  <2>1. Covered(T) \in Nat /\ Covered(T) <= Covered(S)
    BY <1>0, <1>1, <1>2, PartSum
  <2> QED BY <1>1, <2>1
<1>3. ASSUME NEW r \in Requests, Record(r) PROVE Covered(T) <= Wanted[l]
  <2>0. /\ rows' = rows \cup {r} /\ released' = released
        /\ raced' = IF Covering(LineOf[r]) \subseteq seen[r] THEN raced ELSE raced \cup {r}
    BY <1>3 DEF Record
  <2>1. CASE LineOf[r] # l \/ ~(Covering(LineOf[r]) \subseteq seen[r])
    <3>1. T \subseteq S
      BY <2>0, <2>1 DEF Covering
    <3> QED BY <1>2, <3>1
  <2>2. CASE LineOf[r] = l /\ Covering(LineOf[r]) \subseteq seen[r]
    <3> DEFINE U == seen[r] \cup {r}
    <3>1. T \subseteq U /\ U \subseteq Requests /\ IsFiniteSet(seen[r])
      <4>1. T \subseteq U
        BY <2>0, <2>2 DEF Covering
      <4>2. seen[r] \subseteq rows /\ seen[r] \subseteq Requests
        BY <1>0 DEF SeenShape, Types
      <4> QED BY <1>0, <4>1, <4>2, FS_Subset
    <3>2. IsFiniteSet(U)
      BY <3>1, FS_AddElement
    <3>3. r \notin seen[r]
      <4>1. r \notin rows
        BY <1>0, <1>3 DEF Record, HolderShape, RowsOf
      <4> QED BY <1>0, <4>1 DEF SeenShape
    <3>4. Covered(U) = Units[r] + Covered(seen[r])
      <4>1. U \ {r} = seen[r] /\ r \in U
        BY <3>3
      <4> HIDE DEF U
      <4>2. Covered(U) = Units[r] + Covered(U \ {r})
        BY <3>1, <3>2, <4>1, SumAdds
      <4> QED BY <4>1, <4>2
    <3>5. Covered(seen[r]) + Units[r] <= Wanted[l] /\ Units[r] \in Nat
      BY <1>0, <1>3, <2>2 DEF CheckedFit, Record
    <3> HIDE DEF T, U
    <3>6. Covered(T) \in Nat /\ Covered(U) \in Nat /\ Covered(T) <= Covered(U) /\ Covered(seen[r]) \in Nat
      <4>1. IsFiniteSet(T) /\ T \subseteq Requests /\ T \in SUBSET U
        BY <3>1, <3>2, FS_Subset
      <4>2. Covered(T) <= Covered(U)
        BY <3>1, <3>2, <4>1, SumGrows
      <4>3. seen[r] \subseteq Requests
        BY <1>0 DEF Types
      <4> QED BY <3>1, <3>2, <4>1, <4>2, <4>3, SumType
    <3> QED BY <3>4, <3>5, <3>6, <1>1
  <2> QED BY <2>1, <2>2
<1>4. ASSUME NEW q \in Releases, Free(q) PROVE Covered(T) <= Wanted[l]
  <2>1. T \subseteq S
    BY <1>4 DEF Free, Covering
  <2> QED BY <1>2, <2>1
<1>5. ASSUME UNCHANGED <<table, raced>> PROVE Covered(T) <= Wanted[l]
  <2>1. T \subseteq S
    BY <1>5 DEF Covering, table
  <2> QED BY <1>2, <2>1
<1>6. \/ \E r \in Requests : Record(r)
      \/ \E q \in Releases : Free(q)
      \/ UNCHANGED <<table, raced>>
  <2>1. ASSUME NEW r \in Requests, ReadLine(r) \/ Settle(r) \/ Insert(r) \/ Lose(r)
        PROVE  UNCHANGED <<table, raced>>
    BY <2>1 DEF ReadLine, Settle, Check, Replay, Insert, Lose
  <2>2. ASSUME NEW q \in Releases, ReadClaim(q) \/ Update(q) PROVE UNCHANGED <<table, raced>>
    BY <2>2 DEF ReadClaim, Update
  <2>3. ASSUME NEW c \in Callers, Abort(c) PROVE UNCHANGED <<table, raced>>
    BY <2>3 DEF Abort
  <2> QED BY <2>1, <2>2, <2>3 DEF Next, ServeClaim, ServeRelease, vars
<1> QED BY <1>3, <1>4, <1>5, <1>6

LEMMA NextFitInv == FitInv /\ [Next]_vars => FitInv'
BY NextIInv, NextFinite, NextChecked, NextFit DEF FitInv

\* A line is over-covered only by claims that missed one another: a claim that reads
\* everything committed on its line before it fits beside it, whatever is released
\* or rolled back in between.  No bound on the requests is needed: the rows begin as
\* none and grow by one.
THEOREM SeenClaimsFitHolds == Spec => []SeenClaimsFit
<1>1. FitInv => SeenClaimsFit
  BY DEF FitInv
<1> QED BY <1>1, InitFit, NextFitInv, PTL DEF Spec

------------------------------------------------------------------------------
\* One row is owned by its request, no row by nobody.
LEMMA OwnerOfRow ==
    /\ \A r : OwnerOf({r}) = r
    /\ OwnerOf({}) = NoOne
BY DEF OwnerOf

\* No new rows, no news for the log.
LEMMA SameLog ==
    ASSUME rows' = rows
    PROVE  LogNow' = LogNow
BY DEF LogNow, OwnerOf, RowsOf

\* The row of an id is its entry in the log.
LEMMA LogOfRow ==
    ASSUME OneClaim, NEW i \in Ids, NEW p \in RowsOf(i)
    PROVE  LogNow[i] = p
<1>1. RowsOf(i) = {p}
  BY DEF OneClaim, RowsOf
<1> QED BY <1>1, OwnerOfRow DEF LogNow

\* The log changes at the claim that is recorded and nowhere else.
LEMMA RecordLog ==
    ASSUME IInv, NEW r \in Requests, Record(r)
    PROVE  /\ LogNow[IdOf[r]] = NoOne
           /\ LogNow' = [LogNow EXCEPT ![IdOf[r]] = r]
<1>1. RowsOf(IdOf[r]) = {}
  BY DEF IInv, HolderShape, Record
<1>2. rows' = rows \cup {r}
  BY DEF Record
<1>3. /\ RowsOf(IdOf[r])' = {r}
      /\ \A i \in Ids \ {IdOf[r]} : RowsOf(i)' = RowsOf(i)
  BY <1>1, <1>2 DEF RowsOf
<1>4. LogNow[IdOf[r]] = NoOne
  BY <1>1, OwnerOfRow DEF LogNow
<1>5. LogNow'[IdOf[r]] = r
  <2>1. LogNow'[IdOf[r]] = OwnerOf(RowsOf(IdOf[r])')
    BY DEF LogNow, OwnerOf
  <2> QED BY <1>3, <2>1, OwnerOfRow
<1>6. \A i \in Ids \ {IdOf[r]} : LogNow'[i] = LogNow[i]
  BY <1>3 DEF LogNow
<1>7. /\ LogNow = [i \in Ids |-> LogNow[i]]
      /\ LogNow' = [i \in Ids |-> LogNow'[i]]
  BY DEF LogNow
<1> QED BY <1>4, <1>5, <1>6, <1>7

\* The requests' own answers, as the log sees them.
Answers == [r \in Requests |-> outcome[r]]

\* A request's ending is the change of its answer.
LEMMA EndAnswer ==
    ASSUME Types, Unanswered, NEW r \in Requests, pc[r] # "ended",
           NEW how \in {"ok", "refused", "failed"}, End(r, how)
    PROVE  Answers[r] = "none" /\ Answers' = [Answers EXCEPT ![r] = how]
BY DEF Types, Unanswered, End, Answers

\* A request that ends without success is turned down; the log does not move.
LEMMA EndTurnsDown ==
    ASSUME IInv, NEW r \in Requests, pc[r] # "ended", UNCHANGED <<rows, told>>,
           NEW how \in {"refused", "failed"}, End(r, how)
    PROVE  Log!ATurnDown(r)
<1>1. Answers[r] = "none" /\ Answers' = [Answers EXCEPT ![r] = how]
  BY EndAnswer DEF IInv
<1>2. LogNow' = LogNow
  BY SameLog
<1> QED BY <1>1, <1>2 DEF Log!ATurnDown, Answers

\* Each action is a step of the log, or one it does not see.
LEMMA NextLog == IInv /\ [Next]_vars => [Log!ANext]_(Log!avars)
<1> SUFFICES ASSUME IInv, [Next]_vars PROVE [Log!ANext]_(Log!avars)
  OBVIOUS
<1>0. Types /\ Unanswered /\ HolderShape /\ OneClaim
  BY DEF IInv
<1>a. ASSUME LogNow' = LogNow, Answers' = Answers, told' = told
      PROVE  [Log!ANext]_(Log!avars)
  BY <1>a DEF Log!avars, Answers
<1>1. ASSUME NEW r \in Requests, GoesOn(r) \/ Insert(r) PROVE [Log!ANext]_(Log!avars)
  BY <1>1, <1>a, SameLog DEF GoesOn, Insert, Answers, table, answers
<1>2. ASSUME NEW r \in Requests, Replays(r) PROVE [Log!ANext]_(Log!avars)
  <2>1. rows' = rows /\ pc[r] # "ended" /\ LogNow' = LogNow
    BY <1>0, <1>2, ReplayEnds, SameLog DEF Replays, table
  <2>2. CASE End(r, "refused") /\ told' = told
    <3>1. Log!ATurnDown(r)
      BY <2>1, <2>2, EndTurnsDown
    <3> QED BY <3>1 DEF Log!ANext
  <2>3. ASSUME NEW p \in RowsOf(IdOf[r]), End(r, "ok"), told' = [told EXCEPT ![r] = p]
        PROVE  Log!AReplay(r)
    <3>1. Answers[r] = "none" /\ Answers' = [Answers EXCEPT ![r] = "ok"]
      BY <1>0, <2>1, <2>3, EndAnswer
    <3>2. LogNow[IdOf[r]] = p /\ p # NoOne
      BY <1>0, LogOfRow DEF RowsOf, Types
    <3> QED BY <2>1, <2>3, <3>1, <3>2 DEF Log!AReplay, Answers
  <2>4. (End(r, "refused") /\ told' = told) \/ Log!AReplay(r)
    BY <1>0, <1>2, <2>3, ReplayEnds DEF Replays
  <2> QED BY <2>2, <2>4 DEF Log!ANext
<1>3. ASSUME NEW r \in Requests, Record(r) PROVE [Log!ANext]_(Log!avars)
  <2>1. Answers[r] = "none" /\ Answers' = [Answers EXCEPT ![r] = "ok"]
    BY <1>0, <1>3, EndAnswer DEF Record
  <2>2. told' = [told EXCEPT ![r] = r]
    BY <1>3 DEF Record
  <2>3. Log!ARecord(r)
    BY <1>3, <2>1, <2>2, RecordLog DEF Log!ARecord, Answers
  <2> QED BY <2>3 DEF Log!ANext
<1>4. ASSUME NEW c \in Callers, TurnsDown(c) PROVE [Log!ANext]_(Log!avars)
  <2>1. UNCHANGED <<rows, told>> /\ pc[c] # "ended" /\ LogNow' = LogNow
    BY <1>4, SameLog DEF TurnsDown, table
  <2>2. CASE c \in Requests
    <3>1. Log!ATurnDown(c)
      BY <1>4, <2>1, <2>2, EndTurnsDown DEF TurnsDown
    <3> QED BY <2>2, <3>1 DEF Log!ANext
  <2>3. CASE c \notin Requests
    <3>1. Answers' = Answers
      BY <1>0, <1>4, <2>3 DEF TurnsDown, End, Answers, Types
    <3> QED BY <1>a, <2>1, <3>1
  <2> QED BY <2>2, <2>3
<1>5. ASSUME NEW q \in Releases, ReleaseStep(q) PROVE [Log!ANext]_(Log!avars)
  <2>1. Answers' = Answers
    BY <1>0, <1>5 DEF ReleaseStep, End, Answers, Types
  <2> QED BY <1>5, <1>a, <2>1, SameLog DEF ReleaseStep
<1>6. CASE UNCHANGED <<pc, seen, holder, rows, answers>>
  BY <1>6, <1>a, SameLog DEF Answers, answers
<1> QED BY <1>0, <1>1, <1>2, <1>3, <1>4, <1>5, <1>6, Steps

\* Claims implement the act log with the id alone: however copies interleave, wait
\* for one another's rows and roll back, a claim is recorded at most once and every
\* success is told that record.
THEOREM ClaimsImplementActLog == Spec => ImplementsActLog
<1>1. Init => Log!AInit
  BY OwnerOfRow DEF Init, Log!AInit, LogNow, RowsOf
<1>2. IInv /\ [Next]_vars => [Log!ANext]_(Log!avars)
  BY NextLog
<1> QED BY <1>1, <1>2, Inductive, PTL DEF Spec, ImplementsActLog, Log!ASpec
==============================================================================
