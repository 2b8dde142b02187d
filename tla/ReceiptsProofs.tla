----------------------------- MODULE ReceiptsProofs -----------------------------
(***************************************************************************)
(* For any requests, deliveries and claims: a delivery is opened by one of    *)
(* its lines and joined by the others.  What OneDelivery says of committed     *)
(* lines rests on what is not committed yet: the row a request inserted is its *)
(* lock, nobody else has inserted or committed that row, and a request that     *)
(* joined did so after the row it joined was committed.  What is handed over   *)
(* fits what arrived, by what a plan over the claims returns.                 *)
(*                                                                        *)
(* For any rules, places and counted lines: a count is answered by the policy  *)
(* that was in force when it was counted.  There is always a foremost rule, as *)
(* the order of the rules is total and they are finitely many, and an instant  *)
(* that is past keeps the one version each rule had.                          *)
(***************************************************************************)
EXTENDS Receipts, Policy, FiniteSetTheorems, WellFoundedInduction, TLAPS

USE ReceiptsAssumption
USE DEF ReceiptsAssumption

Steps  == {"new", "checked", "claimed", "read", "named", "headed", "asked", "moved", "planned",
           "ended"}
Headed == {"headed", "asked", "moved", "planned"}

Types ==
    /\ pc \in [Requests -> Steps]
    /\ outcome \in [Requests -> {"none", "ok", "refused", "failed"}]
    /\ opened \in [Requests -> BOOLEAN]
    /\ header \in [Headers -> Requests \cup {None}]
    /\ headLock \in [Headers -> Requests \cup {None}]
    /\ lines \subseteq Requests

\* Only a request that names its lot makes or reads one, and only such a request fails.
LotsOnly(r) ==
    /\ pc[r] \in {"claimed", "read"} => Ask[r].lot
    /\ outcome[r] = "failed" => Ask[r].lot

\* A row that is inserted and not committed: nobody has committed it.
Inserted(h) ==
    headLock[h] # None =>
        /\ header[h] = None
        /\ Ask[headLock[h]].delivery = h /\ pc[headLock[h]] \in Headed /\ opened[headLock[h]]

\* A row that is committed, with the line that opened it.
Committed(h) ==
    header[h] # None =>
        /\ header[h] \in lines /\ opened[header[h]]
        /\ Ask[header[h]].delivery = h

\* The line r is recorded, or its request is past its delivery.
Past(r) == r \in lines \/ pc[r] \in Headed

\* A line opened its delivery, or joined one that was there.
Belongs(r) ==
    /\ r \in lines => pc[r] = "ended"
    /\ Past(r) /\ Ask[r].delivery # None =>
          LET h == Ask[r].delivery IN
          /\ opened[r] => header[h] = r \/ (headLock[h] = r /\ r \notin lines)
          /\ ~opened[r] => header[h] # None /\ ~Clash(Ask[header[h]].from, Ask[r].from)

\* An envelope is committed with its line.
Enveloped == envelopes = {Ask[r].act : r \in lines}

IInv ==
    /\ Types /\ Enveloped
    /\ \A r \in Requests : LotsOnly(r) /\ Belongs(r)
    /\ \A h \in Headers : Inserted(h) /\ Committed(h)

------------------------------------------------------------------------------
\* A step within its transaction that touches no delivery.
LEMMA GoesOn ==
    ASSUME IInv, NEW r \in Requests, NEW s \in Steps \ {"ended"}, Goes(r, s), pc[r] # "ended",
           pc[r] \in Headed <=> s \in Headed, s \in {"claimed", "read"} => Ask[r].lot,
           UNCHANGED <<envelopes, headers, lines, outcome, opened>>
    PROVE  IInv'
<1>1. Types' /\ Enveloped'
  BY DEF IInv, Types, Enveloped, Goes, headers
<1>2. \A q \in Requests : pc'[q] = IF q = r THEN s ELSE pc[q]
  BY DEF IInv, Types, Goes
<1>3. \A q \in Requests : /\ pc'[q] \in Headed <=> pc[q] \in Headed
                          /\ pc[q] = "ended" => pc'[q] = "ended"
  BY <1>2
<1>4. \A q \in Requests : LotsOnly(q)'
  BY <1>2 DEF IInv, LotsOnly
<1>5. \A q \in Requests : Belongs(q)'
  BY <1>3 DEF IInv, Belongs, Past, headers
<1>6. \A h \in Headers : Inserted(h)' /\ Committed(h)'
  BY <1>3 DEF IInv, Types, Inserted, Committed, headers
<1> QED BY <1>1, <1>4, <1>5, <1>6 DEF IInv

\* A transaction that ends with no line of its own, and had touched no delivery.
LEMMA EndsEmpty ==
    ASSUME IInv, NEW r \in Requests, NEW how \in {"ok", "refused", "failed"}, End(r, how),
           pc[r] \notin Headed \cup {"ended"}, how = "failed" => Ask[r].lot,
           opened' \in [Requests -> BOOLEAN], \A q \in Requests \ {r} : opened'[q] = opened[q],
           UNCHANGED <<envelopes, header, lines>>
    PROVE  IInv'
<1>1. \A q \in Requests : pc'[q] = IF q = r THEN "ended" ELSE pc[q]
  BY DEF IInv, Types, End, Goes
<1>2. \A q \in Requests : outcome'[q] = IF q = r THEN how ELSE outcome[q]
  BY DEF IInv, Types, End
<1>3. headLock' = headLock
  <2>1. \A h \in Headers : headLock[h] # r
    BY DEF IInv, Types, Inserted
  <2> QED BY <2>1 DEF IInv, Types, End
<1>4. r \notin lines /\ \A h \in Headers : header[h] # r /\ headLock[h] # r
  BY DEF IInv, Types, Belongs, Inserted, Committed
<1>5. Types' /\ Enveloped'
  BY <1>3 DEF IInv, Types, Enveloped, End, Goes, Steps
<1>6. \A q \in Requests : LotsOnly(q)'
  BY <1>1, <1>2 DEF IInv, LotsOnly
<1>7. \A q \in Requests : Belongs(q)'
  <2> SUFFICES ASSUME NEW q \in Requests PROVE Belongs(q)'
    OBVIOUS
  <2>1. CASE q = r
    BY <1>1, <1>4, <2>1 DEF Belongs, Past, Headed
  <2>2. CASE q # r
    BY <1>1, <1>3, <2>2 DEF IInv, Belongs, Past
  <2> QED BY <2>1, <2>2
<1>8. \A h \in Headers : Inserted(h)' /\ Committed(h)'
  <2> SUFFICES ASSUME NEW h \in Headers PROVE Inserted(h)' /\ Committed(h)'
    OBVIOUS
  <2>1. Inserted(h) /\ Committed(h) /\ header[h] # r /\ headLock[h] # r
        /\ header[h] \in Requests \cup {None} /\ headLock[h] \in Requests \cup {None}
    BY <1>4 DEF IInv, Types
  <2> QED BY <1>1, <1>3, <2>1 DEF Inserted, Committed
<1> QED BY <1>5, <1>6, <1>7, <1>8 DEF IInv

LEMMA FailsEmpty ==
    ASSUME IInv, NEW r \in Requests, NEW how \in {"refused", "failed"}, Fails(r, how),
           pc[r] \notin Headed \cup {"ended"}, how = "failed" => Ask[r].lot
    PROVE  IInv'
BY EndsEmpty DEF Fails, IInv, Types

------------------------------------------------------------------------------
\* ON CONFLICT DO NOTHING waits for another's insert: whoever is let through finds the row
\* committed, or inserts it alone.
LEMMA OpensOrJoins ==
    ASSUME IInv, NEW r \in Requests, NEW accept \in BOOLEAN, OpenOrJoin(r, accept)
    PROVE  IInv'
<1> DEFINE h == Ask[r].delivery
<1>1. pc[r] = "named" /\ h \in Headers \cup {None} /\ (h # None => headLock[h] = None)
  BY DEF OpenOrJoin
<1>2. CASE h # None /\ header[h] # None /\ Clash(Ask[header[h]].from, Ask[r].from)
  BY <1>1, <1>2, FailsEmpty DEF OpenOrJoin, Headed
<1>3. CASE ~(h # None /\ header[h] # None /\ Clash(Ask[header[h]].from, Ask[r].from))
  <2>1. /\ headLock' = IF h # None /\ header[h] = None THEN [headLock EXCEPT ![h] = r] ELSE headLock
        /\ opened' = [opened EXCEPT ![r] = h = None \/ header[h] = None]
        /\ Goes(r, "headed") /\ UNCHANGED <<envelopes, header, lines, outcome>>
    BY <1>3 DEF OpenOrJoin, acts
  <2>2. \A q \in Requests : pc'[q] = IF q = r THEN "headed" ELSE pc[q]
    BY <2>1 DEF IInv, Types, Goes
  <2>3. \A q \in Requests : opened'[q] = IF q = r THEN h = None \/ header[h] = None ELSE opened[q]
    BY <2>1 DEF IInv, Types
  <2>4. Types' /\ Enveloped'
    BY <1>1, <2>1 DEF IInv, Types, Enveloped, Goes, Steps
  <2>5. r \notin lines /\ \A g \in Headers : header[g] # r /\ headLock[g] # r
    BY <1>1 DEF IInv, Types, Belongs, Inserted, Committed, Headed
  <2>6. \A g \in Headers : headLock'[g] = IF g = h /\ header[h] = None THEN r ELSE headLock[g]
    BY <1>1, <2>1 DEF IInv, Types
  <2>7. \A q \in Requests : LotsOnly(q)'
    BY <2>1, <2>2 DEF IInv, LotsOnly
  <2>8. \A q \in Requests : Belongs(q)'
    <3> SUFFICES ASSUME NEW q \in Requests PROVE Belongs(q)'
      OBVIOUS
    <3>1. CASE q = r
      BY <1>1, <1>3, <2>1, <2>2, <2>3, <2>5, <2>6, <3>1 DEF Belongs
    <3>2. CASE q # r
      <4>1. Belongs(q) /\ (Past(q)' <=> Past(q)) /\ opened'[q] = opened[q] /\ pc'[q] = pc[q]
        BY <2>1, <2>2, <2>3, <3>2 DEF IInv, Past
      <4>2. Ask[q].delivery \in Headers \cup {None}
        OBVIOUS
      <4>3. Ask[q].delivery # None /\ headLock[Ask[q].delivery] = q
              => headLock'[Ask[q].delivery] = q
        BY <1>1, <2>6, <4>2
      <4> QED BY <2>1, <4>1, <4>3 DEF Belongs
    <3> QED BY <3>1, <3>2
  <2>9. \A g \in Headers : Inserted(g)' /\ Committed(g)'
    <3> SUFFICES ASSUME NEW g \in Headers PROVE Inserted(g)' /\ Committed(g)'
      OBVIOUS
    <3>1. Inserted(g) /\ Committed(g) /\ header[g] # r /\ headLock[g] # r
          /\ header[g] \in Requests \cup {None} /\ headLock[g] \in Requests \cup {None}
      BY <2>5 DEF IInv, Types
    <3>2. Committed(g)'
      BY <2>1, <2>3, <3>1 DEF Committed
    <3>3. CASE g = h /\ header[h] = None
      <4>1. headLock'[g] = r /\ header'[g] = None /\ pc'[r] \in Headed /\ Ask[r].delivery = g
        BY <2>1, <2>2, <2>6, <3>3 DEF Headed
      <4>2. opened'[r]
        BY <2>3, <3>3, Zenon
      <4> QED BY <3>2, <4>1, <4>2 DEF Inserted
    <3>4. CASE ~(g = h /\ header[h] = None)
      <4>1. headLock'[g] = headLock[g] /\ header'[g] = header[g]
        BY <2>1, <2>6, <3>4
      <4>2. headLock[g] # None => pc'[headLock[g]] = pc[headLock[g]]
                                  /\ opened'[headLock[g]] = opened[headLock[g]]
        BY <2>2, <2>3, <3>1
      <4> QED BY <3>1, <3>2, <4>1, <4>2 DEF Inserted
    <3> QED BY <3>2, <3>3, <3>4
  <2> QED BY <2>4, <2>7, <2>8, <2>9 DEF IInv
<1> QED BY <1>2, <1>3

\* The row is committed with the line that opened it.
LEMMA Commits == ASSUME IInv, NEW r \in Requests, Commit(r) PROVE IInv'
<1>1. pc[r] \in Headed /\ r \notin lines
  BY DEF Commit, Headed, IInv, Belongs
<1>2. /\ End(r, "ok") /\ lines' = lines \cup {r} /\ opened' = opened
      /\ header' = [h \in Headers |-> IF headLock[h] = r THEN r ELSE header[h]]
      /\ headLock' = [h \in Headers |-> IF headLock[h] = r THEN None ELSE headLock[h]]
  BY DEF Commit, End
<1>3. \A q \in Requests : pc'[q] = IF q = r THEN "ended" ELSE pc[q]
  BY <1>2 DEF IInv, Types, End, Goes
<1>4. \A q \in Requests : outcome'[q] = IF q = r THEN "ok" ELSE outcome[q]
  BY <1>2 DEF IInv, Types, End
<1>5. Types' /\ Enveloped'
  <2>1. Types'
    BY <1>2 DEF IInv, Types, End, Goes, Steps
  <2>2. Enveloped'
    BY <1>2 DEF IInv, Enveloped, Commit
  <2> QED BY <2>1, <2>2
<1>6. \A q \in Requests : LotsOnly(q)'
  BY <1>3, <1>4 DEF IInv, LotsOnly
<1>7. \A h \in Headers : header[h] # None => header'[h] = header[h]
  BY <1>2 DEF IInv, Types, Inserted
<1>8. \A q \in Requests : Belongs(q)'
  <2> SUFFICES ASSUME NEW q \in Requests PROVE Belongs(q)'
    OBVIOUS
  <2>1. Belongs(q) /\ Ask[q].delivery \in Headers \cup {None}
    BY DEF IInv
  <2>2. CASE q = r
    <3>1. Past(q)
      BY <1>1, <2>2 DEF Past
    <3>2. q \in lines => pc'[q] = "ended"
      BY <1>3, <2>2
    <3> QED BY <1>1, <1>2, <1>3, <1>7, <2>1, <2>2, <3>1 DEF Belongs
  <2>3. CASE q # r
    <3>1. (Past(q)' <=> Past(q)) /\ opened'[q] = opened[q] /\ pc'[q] = pc[q]
          /\ (q \in lines' <=> q \in lines)
      BY <1>2, <1>3, <2>3 DEF Past
    <3>2. Ask[q].delivery # None /\ headLock[Ask[q].delivery] = q
            => headLock'[Ask[q].delivery] = q
      BY <1>2, <2>1, <2>3
    <3> QED BY <1>7, <2>1, <3>1, <3>2 DEF Belongs
  <2> QED BY <2>2, <2>3
<1>9. \A h \in Headers : Inserted(h)' /\ Committed(h)'
  <2> SUFFICES ASSUME NEW h \in Headers PROVE Inserted(h)' /\ Committed(h)'
    OBVIOUS
  <2>1. Inserted(h) /\ Committed(h)
        /\ header[h] \in Requests \cup {None} /\ headLock[h] \in Requests \cup {None}
    BY DEF IInv, Types
  <2>2. CASE headLock[h] = r
    BY <1>2, <2>1, <2>2 DEF Inserted, Committed
  <2>3. CASE headLock[h] # r
    BY <1>2, <1>3, <2>1, <2>3 DEF Inserted, Committed
  <2> QED BY <2>2, <2>3
<1> QED BY <1>5, <1>6, <1>8, <1>9 DEF IInv

LEMMA ServeKeeps == ASSUME IInv, NEW r \in Requests, Check(r) \/ Serve(r) PROVE IInv'
<1>1. CASE Check(r)
  BY <1>1, GoesOn DEF Check, Steps, Headed, acts, answers
<1>2. CASE Claim(r)
  <2>1. \E s \in {"claimed", "named"} : Goes(r, s) /\ (s = "claimed" => Ask[r].lot)
    BY <1>2 DEF Claim
  <2> QED BY <1>2, <2>1, GoesOn DEF Claim, Steps, Headed, acts, answers
<1>3. CASE Replay(r)
  <2>1. /\ \E how \in {"ok", "refused"} : End(r, how)
        /\ pc[r] = "checked" /\ UNCHANGED <<envelopes, header, lines>>
    BY <1>3 DEF Replay
  <2>2. opened' \in [Requests -> BOOLEAN] /\ \A q \in Requests \ {r} : opened'[q] = opened[q]
    <3> DEFINE p == CHOOSE q \in LineOf(Ask[r].act) : TRUE
    <3>1. CASE UNCHANGED opened
      BY <3>1 DEF IInv, Types
    <3>2. CASE opened' = [opened EXCEPT ![r] = opened[p]] /\ p \in Requests
      BY <3>2 DEF IInv, Types
    <3>3. p \in Requests
      <4>1. LineOf(Ask[r].act) # {}
        BY <1>3 DEF Replay, LineOf, IInv, Types, Enveloped
      <4> QED BY <4>1 DEF LineOf, IInv, Types
    <3> QED BY <1>3, <3>1, <3>2, <3>3 DEF Replay
  <2> QED BY <2>1, <2>2, EndsEmpty DEF Headed
<1>4. CASE FindLot(r)
  BY <1>4, GoesOn DEF FindLot, Steps, Headed, acts, answers, IInv, LotsOnly
<1>5. CASE NameLot(r)
  <2>1. CASE Writes(r) /\ seenLot[r] = "absent" /\ lot # "absent"
    BY <1>5, <2>1, FailsEmpty DEF NameLot, Headed, IInv, LotsOnly
  <2>2. CASE ~(Writes(r) /\ seenLot[r] = "absent" /\ lot # "absent")
    BY <1>5, <2>2, GoesOn DEF NameLot, Steps, Headed, acts, answers
  <2> QED BY <2>1, <2>2
<1>6. CASE \E accept \in BOOLEAN : OpenOrJoin(r, accept)
  BY <1>6, OpensOrJoins
<1>7. CASE Unresolved(r)
  BY <1>7, FailsEmpty DEF Unresolved, Headed
<1>8. CASE Move(r)
  <2>1. \E s \in {"moved", "asked"} : Goes(r, s)
    BY <1>8 DEF Move
  <2> QED BY <1>8, <2>1, GoesOn DEF Move, Steps, Headed, acts, answers
<1>9. CASE Rebuild(r) \/ Plan(r)
  BY <1>9, GoesOn DEF Rebuild, Plan, Steps, Headed, acts, answers
<1>10. CASE Commit(r)
  BY <1>10, Commits
<1> QED BY <1>1, <1>2, <1>3, <1>4, <1>5, <1>6, <1>7, <1>8, <1>9, <1>10 DEF Serve

LEMMA StepKeeps == IInv /\ [Next]_vars => IInv'
<1> SUFFICES ASSUME IInv, [Next]_vars PROVE IInv'
  OBVIOUS
<1>1. ASSUME UNCHANGED <<pc, envelopes, headers, lines, answers>> PROVE IInv'
  BY <1>1 DEF IInv, Types, Enveloped, LotsOnly, Belongs, Past, Inserted, Committed, headers, answers
<1>2. CASE UNCHANGED vars
  BY <1>1, <1>2 DEF vars, acts
<1>3. CASE (\E c \in Bound : Release(c)) \/ Drain \/ Elapse
  BY <1>1, <1>3 DEF Release, Drain, Elapse, acts
<1> QED BY <1>2, <1>3, ServeKeeps DEF Next

LEMMA InitKeeps == Init => IInv
BY DEF Init, IInv, Types, Enveloped, Steps, LotsOnly, Belongs, Past, Headed, Inserted, Committed

LEMMA LinesAgree == IInv => OneDelivery
<1> SUFFICES ASSUME IInv PROVE OneDelivery
  OBVIOUS
<1>1. \A r \in Requests : outcome[r] = "failed" => Ask[r].lot
  BY DEF IInv, LotsOnly
<1>2. ASSUME NEW h \in Headers, NEW r \in lines, Ask[r].delivery = h
      PROVE  /\ {q \in lines : Ask[q].delivery = h /\ opened[q]} = {header[h]}
             /\ ~Clash(Ask[r].from, Ask[header[h]].from)
  <2>1. \A q \in lines : Ask[q].delivery = h =>
            /\ opened[q] => header[h] = q
            /\ ~opened[q] => header[h] # None /\ ~Clash(Ask[header[h]].from, Ask[q].from)
    BY <1>2 DEF IInv, Types, Belongs, Past
  <2>2. header[h] # None
    BY <1>2, <2>1 DEF IInv, Types
  <2>3. header[h] \in lines /\ opened[header[h]] /\ Ask[header[h]].delivery = h
    BY <2>2 DEF IInv, Committed
  <2> QED BY <1>2, <2>1, <2>3 DEF Clash
<1> QED BY <1>1, <1>2 DEF OneDelivery

------------------------------------------------------------------------------
\* ensure_goods_receipt: of the lines of one delivery that arrive together, one opens it and
\* the others join what it stated, and none fails because of it.
THEOREM OneDeliveryHolds == Spec => []OneDelivery
BY InitKeeps, StepKeeps, LinesAgree, PTL DEF Spec

------------------------------------------------------------------------------
(* Counting, and what counting defines *)

\* Induction over an interval, for a set: a number outside it would have a least one.
LEMMA Counting ==
    ASSUME NEW N \in Nat, NEW P, 0 \in P, \A i \in 1..N : i - 1 \in P => i \in P
    PROVE  0..N \subseteq P
<1> SUFFICES ASSUME ~(0..N \subseteq P) PROVE FALSE
  OBVIOUS
<1> DEFINE T == {i \in 0..N : i \notin P}
<1>1. T \subseteq Nat /\ T # {}
  OBVIOUS
<1>2. IsWellFoundedOn(OpToRel(<, Nat), Nat)
  BY NatLessThanWellFounded
<1>3. PICK i \in T : \A j \in T : <<j, i>> \notin OpToRel(<, Nat)
  BY <1>1, <1>2, WFMin
<1>4. \A j \in T : ~(j < i)
  BY <1>1, <1>3 DEF OpToRel
<1>5. i # 0 /\ i \in 1..N
  OBVIOUS
<1>6. i - 1 \in T
  BY <1>5
<1> QED BY <1>4, <1>5, <1>6

\* f starts with s0 and goes on, value by value, as G says.
CountsFrom(f, N, S, s0, G) ==
    f \in [0..N -> S] /\ f[0] = s0 /\ \A i \in 1..N : f[i] = G[i][f[i - 1]]

\* A function that each of its values defines from the one before is there.
LEMMA Defined ==
    ASSUME NEW N \in Nat, NEW S, NEW s0 \in S, NEW G \in [1..N -> [S -> S]]
    PROVE  \E f : CountsFrom(f, N, S, s0, G)
<1> DEFINE Ok(n, f) == CountsFrom(f, n, S, s0, G)
           P == {n \in 0..N : \E f : Ok(n, f)}
<1>1. 0 \in P
  <2>1. Ok(0, [i \in 0..0 |-> s0])
    BY DEF CountsFrom
  <2> HIDE DEF Ok
  <2> QED BY <2>1
<1>2. \A n \in 1..N : n - 1 \in P => n \in P
  <2> SUFFICES ASSUME NEW n \in 1..N, n - 1 \in P PROVE n \in P
    OBVIOUS
  <2>1. PICK f : Ok(n - 1, f)
    OBVIOUS
  <2> DEFINE g == [i \in 0..n |-> IF i = n THEN G[n][f[n - 1]] ELSE f[i]]
  <2>2. G[n][f[n - 1]] \in S
    BY <2>1 DEF CountsFrom
  <2>3. g \in [0..n -> S] /\ g[0] = s0 /\ g[n] = G[n][g[n - 1]]
    BY <2>1, <2>2 DEF CountsFrom
  <2>4. \A i \in 1..n : g[i] = G[i][g[i - 1]]
    BY <2>1, <2>3 DEF CountsFrom
  <2>5. Ok(n, g)
    BY <2>3, <2>4 DEF CountsFrom
  <2> HIDE DEF Ok, g
  <2> QED BY <2>5
<1> HIDE DEF P
<1>3. 0..N \subseteq P
  BY <1>1, <1>2, Counting
<1> QED BY <1>3 DEF P

HIDE DEF ReceiptsAssumption

Quantity == Len(Claims)

LEMMA ClaimsAre ==
    /\ Quantity \in Nat /\ DOMAIN Claims = 1..Quantity
    /\ \A i \in 1..Quantity : Claims[i] \in Bound /\ Units[Claims[i]] \in Nat
    /\ Bound = {Claims[i] : i \in 1..Quantity}
BY ReceiptsAssumption DEF ReceiptsAssumption, Bound, Quantity

\* What is left, as receiving::plan goes from claim to claim.
After(C, i, x) == IF Claims[i] \in C /\ Units[Claims[i]] <= x THEN x - Units[Claims[i]] ELSE x

LEMMA LeftIs ==
    ASSUME NEW C, NEW n \in Nat
    PROVE  /\ Left(C, n) \in [0..Quantity -> Nat] /\ Left(C, n)[0] = n
           /\ \A i \in 1..Quantity : Left(C, n)[i] = After(C, i, Left(C, n)[i - 1])
<1> DEFINE G == [i \in 1..Quantity |-> [x \in Nat |-> After(C, i, x)]]
           Is(f) == f = [i \in 0..Quantity |-> IF i = 0 THEN n ELSE After(C, i, f[i - 1])]
<1>1. \A i \in 1..Quantity : \A x \in Nat : After(C, i, x) \in Nat
  <2> SUFFICES ASSUME NEW i \in 1..Quantity, NEW x \in Nat PROVE After(C, i, x) \in Nat
    OBVIOUS
  <2>1. Units[Claims[i]] \in Nat
    BY ClaimsAre
  <2>2. Units[Claims[i]] <= x => x - Units[Claims[i]] \in Nat
    BY <2>1
  <2> QED BY <2>2 DEF After
<1>2. G \in [1..Quantity -> [Nat -> Nat]] /\ Quantity \in Nat
  BY <1>1, ClaimsAre
<1>3. \A i \in 1..Quantity : \A x \in Nat : G[i][x] = After(C, i, x)
  OBVIOUS
<1> HIDE DEF G
<1>4. PICK f \in [0..Quantity -> Nat] : f[0] = n /\ \A i \in 1..Quantity : f[i] = G[i][f[i - 1]]
  <2>1. \E f : CountsFrom(f, Quantity, Nat, n, G)
    BY <1>2, Defined
  <2> QED BY <2>1 DEF CountsFrom
<1>5. \A i \in 1..Quantity : i - 1 \in 0..Quantity /\ i \in 0..Quantity /\ i # 0
  BY <1>2
<1>6. \A i \in 0..Quantity : f[i] = IF i = 0 THEN n ELSE After(C, i, f[i - 1])
  <2>1. \A i \in 1..Quantity : f[i] = After(C, i, f[i - 1])
    BY <1>3, <1>4, <1>5
  <2>2. \A i \in 0..Quantity : i = 0 \/ i \in 1..Quantity
    BY <1>2
  <2> QED BY <1>4, <1>5, <2>1, <2>2
<1>7. Is(f)
  BY <1>4, <1>6
<1>8. Left(C, n) = CHOOSE g : Is(g)
  BY DEF Left, Quantity, After
<1>9. Is(Left(C, n))
  <2> HIDE DEF Is
  <2> QED BY <1>7, <1>8
<1>10. \A L : Is(L) => /\ L[0] = n /\ L = [i \in 0..Quantity |-> L[i]]
                      /\ \A i \in 1..Quantity : L[i] = After(C, i, L[i - 1])
  <2> SUFFICES ASSUME NEW L, Is(L)
               PROVE  /\ L[0] = n /\ L = [i \in 0..Quantity |-> L[i]]
                      /\ \A i \in 1..Quantity : L[i] = After(C, i, L[i - 1])
    OBVIOUS
  <2>1. DOMAIN L = 0..Quantity /\ 0 \in 0..Quantity
    BY <1>2
  <2>2. \A i \in 0..Quantity : L[i] = IF i = 0 THEN n ELSE After(C, i, L[i - 1])
    OBVIOUS
  <2>3. L[0] = n /\ \A i \in 1..Quantity : L[i] = After(C, i, L[i - 1])
    BY <1>5, <2>1, <2>2
  <2>4. L = [i \in 0..Quantity |-> L[i]]
    BY <2>1
  <2> QED BY <2>3, <2>4
<1> DEFINE L == Left(C, n)
<1>11. /\ L[0] = n /\ L = [i \in 0..Quantity |-> L[i]]
       /\ \A i \in 1..Quantity : L[i] = After(C, i, L[i - 1])
  BY <1>9, <1>10
<1> HIDE DEF L
<1>12. \A i \in 0..Quantity : L[i] \in Nat
  <2> DEFINE P == {i \in 0..Quantity : L[i] \in Nat}
  <2>1. 0 \in P
    BY <1>2, <1>11
  <2>2. \A i \in 1..Quantity : i - 1 \in P => i \in P
    BY <1>1, <1>5, <1>11
  <2> HIDE DEF P
  <2>3. 0..Quantity \subseteq P
    BY <1>2, <2>1, <2>2, Counting
  <2> QED BY <2>3 DEF P
<1> QED BY <1>11, <1>12 DEF L

\* What a set of claims claims, claim by claim.
LEMMA UnitsOfIs ==
    ASSUME NEW T
    PROVE  \E sum \in [0..Quantity -> Nat] :
              /\ sum[0] = 0 /\ UnitsOf(T) = sum[Quantity]
              /\ \A i \in 1..Quantity :
                    sum[i] = sum[i - 1] + (IF Claims[i] \in T THEN Units[Claims[i]] ELSE 0)
<1> DEFINE U(i) == IF Claims[i] \in T THEN Units[Claims[i]] ELSE 0
           G == [i \in 1..Quantity |-> [x \in Nat |-> x + U(i)]]
           Is(f) == f = [i \in 0..Quantity |-> IF i = 0 THEN 0 ELSE f[i - 1] + U(i)]
<1>1. \A i \in 1..Quantity : U(i) \in Nat
  BY ClaimsAre
<1>2. UnitsOf(T) = (CHOOSE f : Is(f))[Quantity]
  BY DEF UnitsOf, Quantity
<1> HIDE DEF U
<1>3. G \in [1..Quantity -> [Nat -> Nat]] /\ Quantity \in Nat
  BY <1>1, ClaimsAre
<1>4. \A i \in 1..Quantity : \A x \in Nat : G[i][x] = x + U(i)
  OBVIOUS
<1> HIDE DEF G
<1>5. PICK f : CountsFrom(f, Quantity, Nat, 0, G)
  BY <1>3, Defined
<1>6. \A i \in 1..Quantity : i - 1 \in 0..Quantity /\ i \in 0..Quantity /\ i # 0
  BY <1>3
<1>7. \A i \in 0..Quantity : f[i] = IF i = 0 THEN 0 ELSE f[i - 1] + U(i)
  <2>1. \A i \in 1..Quantity : f[i] = f[i - 1] + U(i)
    BY <1>4, <1>5, <1>6 DEF CountsFrom
  <2>2. \A i \in 0..Quantity : i = 0 \/ i \in 1..Quantity
    BY <1>3
  <2> QED BY <1>5, <1>6, <2>1, <2>2 DEF CountsFrom
<1>8. Is(f)
  BY <1>5, <1>7 DEF CountsFrom
<1> DEFINE sum == CHOOSE g : Is(g)
<1>9. Is(sum)
  <2> HIDE DEF Is
  <2> QED BY <1>8
<1> HIDE DEF sum
<1>10. /\ sum[0] = 0 /\ sum = [i \in 0..Quantity |-> sum[i]]
       /\ \A i \in 1..Quantity : sum[i] = sum[i - 1] + U(i)
  <2>1. DOMAIN sum = 0..Quantity /\ 0 \in 0..Quantity
    BY <1>3, <1>9
  <2>2. \A i \in 0..Quantity : sum[i] = IF i = 0 THEN 0 ELSE sum[i - 1] + U(i)
    BY <1>9
  <2>3. sum[0] = 0 /\ \A i \in 1..Quantity : sum[i] = sum[i - 1] + U(i)
    BY <1>6, <2>1, <2>2
  <2>4. sum = [i \in 0..Quantity |-> sum[i]]
    BY <1>9, <2>1
  <2> QED BY <2>3, <2>4
<1>11. \A i \in 0..Quantity : sum[i] \in Nat
  <2> DEFINE P == {i \in 0..Quantity : sum[i] \in Nat}
  <2>1. 0 \in P
    BY <1>3, <1>10
  <2>2. \A i \in 1..Quantity : i - 1 \in P => i \in P
    BY <1>1, <1>6, <1>10
  <2> HIDE DEF P
  <2>3. 0..Quantity \subseteq P
    BY <1>3, <2>1, <2>2, Counting
  <2> QED BY <2>3 DEF P
<1>12. sum \in [0..Quantity -> Nat] /\ UnitsOf(T) = sum[Quantity]
  BY <1>2, <1>10, <1>11 DEF sum
<1> QED BY <1>10, <1>12 DEF U

\* receiving::plan never plans more than there is.
LEMMA TakesFit == ASSUME NEW C, NEW n \in Nat PROVE UnitsOf(Takes(C, n)) <= n
<1> DEFINE T == Takes(C, n)
           L == Left(C, n)
<1>1. PICK sum \in [0..Quantity -> Nat] :
         /\ sum[0] = 0 /\ UnitsOf(T) = sum[Quantity]
         /\ \A i \in 1..Quantity :
               sum[i] = sum[i - 1] + (IF Claims[i] \in T THEN Units[Claims[i]] ELSE 0)
  BY UnitsOfIs
<1>2. /\ L \in [0..Quantity -> Nat] /\ L[0] = n
      /\ \A i \in 1..Quantity : L[i] = After(C, i, L[i - 1])
  BY LeftIs
<1>3. \A i \in 1..Quantity : Claims[i] \in T <=> Claims[i] \in C /\ Units[Claims[i]] <= L[i - 1]
  <2>1. \A i, j \in 1..Quantity : Claims[i] = Claims[j] => i = j
    BY ReceiptsAssumption, ClaimsAre DEF ReceiptsAssumption
  <2>2. T = {Claims[i] : i \in {j \in 1..Quantity : Claims[j] \in C /\ Units[Claims[j]] <= L[j - 1]}}
    BY ClaimsAre DEF Takes
  <2> HIDE DEF T, L
  <2> QED BY <2>1, <2>2
<1> HIDE DEF T, L
<1>4. 0..Quantity \subseteq {i \in 0..Quantity : sum[i] + L[i] = n}
  <2> DEFINE P == {i \in 0..Quantity : sum[i] + L[i] = n}
  <2>1. 0 \in P
    BY <1>1, <1>2, ClaimsAre
  <2>2. \A i \in 1..Quantity : i - 1 \in P => i \in P
    <3> SUFFICES ASSUME NEW i \in 1..Quantity, i - 1 \in P PROVE i \in P
      OBVIOUS
    <3>1. /\ i - 1 \in 0..Quantity /\ i \in 0..Quantity /\ sum[i - 1] + L[i - 1] = n
          /\ Units[Claims[i]] \in Nat
      BY ClaimsAre
    <3>2. sum[i - 1] \in Nat /\ L[i - 1] \in Nat
      BY <1>1, <1>2, <3>1
    <3>3. CASE Claims[i] \in T
      BY <1>1, <1>2, <1>3, <3>1, <3>2, <3>3 DEF After
    <3>4. CASE Claims[i] \notin T
      BY <1>1, <1>2, <1>3, <3>1, <3>2, <3>4 DEF After
    <3> QED BY <3>3, <3>4
  <2> HIDE DEF P
  <2>3. 0..Quantity \subseteq P
    BY <2>1, <2>2, Counting, ClaimsAre
  <2> QED BY <2>3 DEF P
<1>5. sum[Quantity] + L[Quantity] = n /\ sum[Quantity] \in Nat /\ L[Quantity] \in Nat
  BY <1>1, <1>2, <1>4, ClaimsAre
<1>6. UnitsOf(T) <= n
  BY <1>1, <1>5
<1> QED BY <1>6 DEF T

LEMMA NoneIsNobody == None \notin Requests
BY ReceiptsAssumption DEF ReceiptsAssumption

\* Only claims that are offered are taken.
LEMMA TakesSome == ASSUME NEW C, NEW n PROVE Takes(C, n) \subseteq C \cap Bound
BY DEF Takes, Bound

LEMMA NothingFits == ASSUME NEW n \in Nat PROVE UnitsOf({}) <= n
<1>1. Takes({}, n) = {}
  BY TakesSome
<1> QED BY <1>1, TakesFit

------------------------------------------------------------------------------
(* A claim is handed over once *)

\* A request plans after its rebuild, which it holds until it ends.
Rebuilt(r) ==
    /\ fold[r] # {} => pc[r] \in {"moved", "planned", "ended"}
    /\ fold[r] # {} /\ pc[r] # "ended" => rebuild = r
    /\ plan[r] # {} => pc[r] \in {"planned", "ended"}

\* What a request planned: a claim that no request it came after had handed over, and, if
\* it rebuilt, no other that rebuilt either.
Planned(r, c) ==
    c \in plan[r] =>
        /\ pc[r] = "ended" => r \in handed[c]
        /\ \A q \in handed[c] : /\ q \notin before[r]
                                /\ q # r => (fold[q] = {} \/ fold[r] = {})

\* A claim that was handed over was planned, and is on the promise no more.
Handed(c) ==
    \A r \in handed[c] : c \in plan[r] /\ pc[r] = "ended" /\ c \notin onPromise

OnceInv ==
    /\ pc \in [Requests -> Steps]
    /\ before \in [Requests -> SUBSET Requests]
    /\ fold \in [Requests -> SUBSET Requests] /\ moves \subseteq Requests
    /\ plan \in [Requests -> SUBSET Bound]
    /\ handed \in [Bound -> SUBSET Requests]
    /\ \A r \in Requests : Rebuilt(r) /\ \A q \in before[r] : pc[q] = "ended"
    /\ \A r \in Requests, c \in Bound : Planned(r, c)
    /\ \A c \in Bound : Handed(c)

\* Every step but the three below: a request goes on, or ends with nothing planned.
LEMMA OnceGoesOn ==
    ASSUME OnceInv, NEW r \in Requests, NEW s \in Steps \ {"planned"}, Goes(r, s),
           pc[r] \notin {"moved", "planned", "ended"},
           rebuild' = rebuild \/ rebuild = r,
           \/ before' = before
           \/ before' = [before EXCEPT ![r] = {q \in Requests : pc[q] = "ended"}],
           UNCHANGED <<fold, moves, plan, handed, onPromise>>
    PROVE  OnceInv'
<1>1. \A q \in Requests : pc'[q] = IF q = r THEN s ELSE pc[q]
  BY DEF OnceInv, Goes
<1>2. pc' \in [Requests -> Steps] /\ before' \in [Requests -> SUBSET Requests]
  BY DEF OnceInv, Goes
<1>3. \A q \in Requests : q # r => before'[q] = before[q]
  BY DEF OnceInv
<1>4. \A q \in Requests : \A p \in before'[q] : pc'[p] = "ended"
  BY <1>1 DEF OnceInv
<1>5. fold[r] = {} /\ plan[r] = {}
  BY DEF OnceInv, Rebuilt
<1>6. \A q \in Requests : Rebuilt(q)'
  BY <1>1, <1>5 DEF OnceInv, Rebuilt
<1>7. \A q \in Requests, c \in Bound : Planned(q, c)'
  <2> SUFFICES ASSUME NEW q \in Requests, NEW c \in Bound, c \in plan[q] PROVE Planned(q, c)'
    BY DEF Planned
  <2>1. q # r /\ Planned(q, c)
    BY <1>5 DEF OnceInv
  <2> QED BY <1>1, <1>3, <2>1 DEF Planned
<1>8. \A c \in Bound : Handed(c)'
  BY <1>1, <1>5 DEF OnceInv, Handed
<1> QED BY <1>2, <1>4, <1>6, <1>7, <1>8 DEF OnceInv

\* It rebuilds before it plans, and alone.
LEMMA OnceRebuild == ASSUME OnceInv, NEW r \in Requests, Rebuild(r) PROVE OnceInv'
<1>1. \A q \in Requests : pc'[q] = IF q = r THEN "moved" ELSE pc[q]
  BY DEF OnceInv, Rebuild, Goes
<1>2. pc' \in [Requests -> Steps] /\ fold' \in [Requests -> SUBSET Requests]
  BY DEF OnceInv, Rebuild, Goes, Steps
<1>3. \A q \in Requests : q # r => fold'[q] = fold[q]
  BY DEF OnceInv, Rebuild
<1>4. pc[r] = "asked" /\ rebuild = None /\ rebuild' = r /\ plan[r] = {}
  BY DEF OnceInv, Rebuild, Rebuilt
<1>5. UNCHANGED <<before, moves, plan, handed, onPromise>>
  BY DEF Rebuild, claims
<1>6. \A q \in Requests : Rebuilt(q)'
  BY <1>1, <1>3, <1>4, <1>5, NoneIsNobody DEF OnceInv, Rebuilt
<1>7. \A q \in Requests, c \in Bound : Planned(q, c)'
  <2> SUFFICES ASSUME NEW q \in Requests, NEW c \in Bound, c \in plan[q] PROVE Planned(q, c)'
    BY <1>5 DEF Planned
  <2>1. q # r /\ Planned(q, c)
    BY <1>4 DEF OnceInv
  <2>2. \A p \in handed[c] : p # r
    BY <1>4 DEF OnceInv, Handed
  <2>3. \A p \in handed[c] : fold'[p] = fold[p]
    BY <1>3, <2>2 DEF OnceInv
  <2> QED BY <1>1, <1>3, <1>5, <2>1, <2>3 DEF Planned
<1>8. \A c \in Bound : Handed(c)'
  BY <1>1, <1>4, <1>5 DEF OnceInv, Handed
<1>9. \A q \in Requests : \A p \in before'[q] : pc'[p] = "ended"
  BY <1>1, <1>4, <1>5 DEF OnceInv
<1> QED BY <1>2, <1>5, <1>6, <1>7, <1>8, <1>9 DEF OnceInv

\* What is planned was on the promise, and so was handed over by nobody.
LEMMA OncePlan ==
    ASSUME OnceInv, NEW r \in Requests, Plan(r) PROVE OnceInv'
<1>1. \A q \in Requests : pc'[q] = IF q = r THEN "planned" ELSE pc[q]
  BY DEF OnceInv, Plan, Goes
<1>2. UNCHANGED <<before, fold, rebuild, moves, handed, onPromise>> /\ pc[r] = "moved"
  BY DEF Plan, stock
<1>3. PICK T \in SUBSET (onPromise \cap Bound) : plan' = [plan EXCEPT ![r] = T]
  <2>1. {} \in SUBSET (onPromise \cap Bound)
        /\ Takes(onPromise \cap active, Ask[r].n) \in SUBSET (onPromise \cap Bound)
    BY TakesSome
  <2> QED BY <2>1 DEF Plan
<1>4. \A q \in Requests : plan'[q] = IF q = r THEN T ELSE plan[q]
  BY <1>3 DEF OnceInv
<1>5. pc' \in [Requests -> Steps] /\ plan' \in [Requests -> SUBSET Bound]
  BY <1>3 DEF OnceInv, Plan, Goes, Steps
<1>6. \A q \in Requests : Rebuilt(q)'
  BY <1>1, <1>2, <1>4 DEF OnceInv, Rebuilt
<1>7. \A q \in Requests, c \in Bound : Planned(q, c)'
  <2> SUFFICES ASSUME NEW q \in Requests, NEW c \in Bound, c \in plan'[q] PROVE Planned(q, c)'
    BY DEF Planned
  <2>1. CASE q = r
    <3>1. c \in onPromise /\ handed[c] = {}
      BY <1>4, <2>1 DEF OnceInv, Handed
    <3> QED BY <1>1, <1>2, <2>1, <3>1 DEF Planned
  <2>2. CASE q # r
    BY <1>1, <1>2, <1>4, <2>2 DEF OnceInv, Planned
  <2> QED BY <2>1, <2>2
<1>8. \A c \in Bound : Handed(c)'
  BY <1>1, <1>2, <1>4 DEF OnceInv, Handed
<1>9. \A q \in Requests : \A p \in before'[q] : pc'[p] = "ended"
  BY <1>1, <1>2 DEF OnceInv
<1> QED BY <1>2, <1>5, <1>6, <1>7, <1>8, <1>9 DEF OnceInv

\* What is handed over was planned; another that planned it too overlapped, and one of the
\* two did not rebuild.
LEMMA OnceCommit == ASSUME OnceInv, NEW r \in Requests, Commit(r) PROVE OnceInv'
<1>1. pc[r] \in {"planned", "headed"} /\ UNCHANGED <<before, fold, plan>>
  BY DEF Commit
<1>2. \A q \in Requests : pc'[q] = IF q = r THEN "ended" ELSE pc[q]
  BY DEF OnceInv, Commit, End, Goes
<1>3. \A c \in Bound : handed'[c] = IF c \in plan[r] THEN handed[c] \cup {r} ELSE handed[c]
  BY DEF OnceInv, Commit
<1>4. onPromise' = onPromise \ plan[r] /\ rebuild' = IF rebuild = r THEN None ELSE rebuild
  BY DEF Commit, End
<1>5. pc' \in [Requests -> Steps] /\ moves' \subseteq Requests
      /\ handed' \in [Bound -> SUBSET Requests]
  <2>1. handed' \in [Bound -> SUBSET Requests]
    BY DEF OnceInv, Commit
  <2> QED BY <2>1 DEF OnceInv, Commit, End, Goes, Steps
<1>6. \A q \in Requests : Rebuilt(q)'
  BY <1>1, <1>2, <1>4 DEF OnceInv, Rebuilt
<1>7. \A q \in Requests, c \in Bound : Planned(q, c)'
  <2> SUFFICES ASSUME NEW q \in Requests, NEW c \in Bound, c \in plan[q] PROVE Planned(q, c)'
    BY <1>1 DEF Planned
  <2>1. Planned(q, c) /\ Planned(r, c) /\ Rebuilt(q) /\ Rebuilt(r)
    BY DEF OnceInv
  <2>2. pc'[q] = "ended" => q \in handed'[c]
    BY <1>2, <1>3, <2>1 DEF Planned
  <2>3. c \in plan[r] => r \notin before[q]
    BY <1>1 DEF OnceInv
  <2>4. CASE c \in plan[r] /\ q # r
    <3>1. pc[q] = "ended" => fold[q] = {} \/ fold[r] = {}
      <4>1. pc[q] = "ended" => q \in handed[c]
        BY <2>1 DEF Planned
      <4> QED BY <2>1, <2>4, <4>1 DEF Planned
    <3>2. pc[q] # "ended" => fold[q] = {} \/ fold[r] = {}
      <4>1. pc[r] # "ended" /\ q # r
        BY <1>1, <2>4
      <4>2. /\ fold[r] # {} => rebuild = r
            /\ pc[q] # "ended" /\ fold[q] # {} => rebuild = q
        BY <2>1, <4>1 DEF Rebuilt
      <4> QED BY <4>1, <4>2
    <3> QED BY <1>1, <1>3, <2>1, <2>2, <2>3, <3>1, <3>2 DEF Planned
  <2>5. CASE ~(c \in plan[r] /\ q # r)
    BY <1>1, <1>3, <2>1, <2>2, <2>3, <2>5 DEF Planned
  <2> QED BY <2>4, <2>5
<1>8. \A c \in Bound : Handed(c)'
  <2> SUFFICES ASSUME NEW c \in Bound, NEW q \in handed'[c]
               PROVE  c \in plan'[q] /\ pc'[q] = "ended" /\ c \notin onPromise'
    BY DEF Handed
  <2>1. CASE q = r /\ c \in plan[r]
    BY <1>1, <1>2, <1>4, <2>1
  <2>2. CASE q \in handed[c]
    <3>1. q \in Requests /\ c \in plan[q] /\ pc[q] = "ended" /\ c \notin onPromise
      BY <2>2 DEF OnceInv, Handed
    <3> QED BY <1>1, <1>2, <1>4, <3>1
  <2> QED BY <1>3, <2>1, <2>2
<1>9. \A q \in Requests : \A p \in before'[q] : pc'[p] = "ended"
  BY <1>1, <1>2 DEF OnceInv
<1> QED BY <1>1, <1>5, <1>6, <1>7, <1>8, <1>9 DEF OnceInv

LEMMA OnceStep == OnceInv /\ [Next]_vars => OnceInv'
<1> SUFFICES ASSUME OnceInv, [Next]_vars PROVE OnceInv'
  OBVIOUS
<1>1. ASSUME UNCHANGED <<pc, before, fold, rebuild, moves, plan, handed, onPromise>> PROVE OnceInv'
  BY <1>1 DEF OnceInv, Rebuilt, Planned, Handed
<1>2. CASE UNCHANGED vars
  BY <1>1, <1>2 DEF vars, stock, claims
<1>3. CASE (\E c \in Bound : Release(c)) \/ Drain \/ Elapse
  BY <1>1, <1>3 DEF Release, Drain, Elapse, stock, claims
<1>4. ASSUME NEW r \in Requests, Check(r) \/ Serve(r) PROVE OnceInv'
  <2>1. CASE Rebuild(r) \/ Plan(r) \/ Commit(r)
    BY <2>1, OnceRebuild, OncePlan, OnceCommit
  <2>2. ASSUME NEW how \in {"ok", "refused", "failed"}, End(r, how),
               pc[r] \in {"checked", "read", "named"},
               UNCHANGED <<before, fold, moves, claims>>
        PROVE  OnceInv'
    BY <2>2, OnceGoesOn DEF End, Steps, claims
  <2>3. CASE Replay(r) \/ Unresolved(r)
    BY <2>2, <2>3 DEF Replay, Unresolved, Fails, stock
  <2>4. CASE Check(r) \/ Claim(r) \/ FindLot(r) \/ Move(r)
    <3>1. \E s \in {"checked", "claimed", "named", "read", "moved", "asked"} : Goes(r, s)
      BY <2>4 DEF Check, Claim, FindLot, Move
    <3> QED BY <2>4, <3>1, OnceGoesOn DEF Check, Claim, FindLot, Move, Steps, stock, claims
  <2>5. CASE NameLot(r) \/ (\E accept \in BOOLEAN : OpenOrJoin(r, accept))
    <3>1. pc[r] \in {"read", "named"} /\ UNCHANGED <<before, fold, moves, claims>>
      BY <2>5 DEF NameLot, OpenOrJoin, Fails, stock
    <3>2. \/ \E how \in {"refused", "failed"} : End(r, how)
          \/ rebuild' = rebuild /\ \E s \in {"named", "headed"} : Goes(r, s)
      BY <2>5 DEF NameLot, OpenOrJoin, Fails, stock
    <3> QED BY <2>2, <3>1, <3>2, OnceGoesOn DEF Steps, claims
  <2> QED BY <1>4, <2>1, <2>3, <2>4, <2>5 DEF Serve
<1> QED BY <1>2, <1>3, <1>4 DEF Next

\* No request plans more than it says has arrived.
PlansFit == \A r \in Requests : UnitsOf(plan[r]) <= Ask[r].n

LEMMA PlansFitStep == OnceInv /\ PlansFit /\ [Next]_vars => PlansFit'
<1> SUFFICES ASSUME OnceInv, PlansFit, [Next]_vars, NEW q \in Requests
             PROVE  UnitsOf(plan'[q]) <= Ask[q].n
  BY DEF PlansFit
<1>1. Ask[q].n \in Nat /\ UnitsOf(plan[q]) <= Ask[q].n
  BY ReceiptsAssumption DEF ReceiptsAssumption, PlansFit
<1>2. ASSUME plan' = plan PROVE UnitsOf(plan'[q]) <= Ask[q].n
  BY <1>1, <1>2
<1>3. ASSUME NEW r \in Requests, Plan(r) PROVE UnitsOf(plan'[q]) <= Ask[q].n
  <2>1. plan'[q] \in {plan[q], {}, Takes(onPromise \cap active, Ask[q].n)}
    BY <1>3 DEF Plan, OnceInv
  <2> QED BY <1>1, <2>1, TakesFit, NothingFits
<1>4. ASSUME NEW r \in Requests, Check(r) \/ (Serve(r) /\ ~Plan(r)) PROVE plan' = plan
  BY <1>4 DEF Check, Serve, Claim, Replay, FindLot, NameLot, OpenOrJoin, Unresolved, Move,
              Rebuild, Commit, Fails, claims
<1>5. UNCHANGED vars \/ (\E c \in Bound : Release(c)) \/ Drain \/ Elapse => plan' = plan
  BY DEF vars, claims, Release, Drain, Elapse
<1> QED BY <1>2, <1>3, <1>4, <1>5 DEF Next, Serve

LEMMA OnceInit == Init => OnceInv /\ PlansFit
<1> SUFFICES ASSUME Init PROVE OnceInv /\ PlansFit
  OBVIOUS
<1>1. OnceInv
  BY DEF Init, OnceInv, Steps, Rebuilt, Planned, Handed
<1>2. PlansFit
  <2>1. \A r \in Requests : plan[r] = {} /\ Ask[r].n \in Nat
    BY ReceiptsAssumption DEF ReceiptsAssumption, Init
  <2> QED BY <2>1, NothingFits DEF PlansFit
<1> QED BY <1>1, <1>2

LEMMA OnceIsCovered == OnceInv /\ PlansFit => HandoverCovered
<1> SUFFICES ASSUME OnceInv, PlansFit PROVE HandoverCovered
  OBVIOUS
<1>1. HandsOverWhatArrived
  <2> SUFFICES ASSUME NEW r \in Requests
               PROVE  UnitsOf({c \in Bound : r \in handed[c]}) <= Ask[r].n
    BY DEF HandsOverWhatArrived, OnceInv
  <2>1. CASE pc[r] = "ended"
    <3>1. \A c \in Bound : r \in handed[c] <=> c \in plan[r]
      BY <2>1 DEF OnceInv, Planned, Handed
    <3>2. {c \in Bound : r \in handed[c]} = plan[r]
      BY <3>1 DEF OnceInv
    <3> QED BY <3>2 DEF PlansFit
  <2>2. CASE pc[r] # "ended"
    <3>1. {c \in Bound : r \in handed[c]} = {} /\ Ask[r].n \in Nat
      BY <2>2, ReceiptsAssumption DEF OnceInv, Handed, ReceiptsAssumption
    <3> QED BY <3>1, NothingFits
  <2> QED BY <2>1, <2>2
<1>2. HandedOnce
  BY DEF HandedOnce, Overlap, OnceInv, Planned, Handed
<1> QED BY <1>1, <1>2 DEF HandoverCovered

\* receiving::plan and its callers: what an arrival hands over is never more than arrived,
\* and a claim is handed over once, unless two receipts overlapped and one did not rebuild.
THEOREM HandoverIsCovered == Spec => []HandoverCovered
<1>1. Init => OnceInv /\ PlansFit
  BY OnceInit
<1>2. OnceInv /\ PlansFit /\ [Next]_vars => (OnceInv /\ PlansFit)'
  BY OnceStep, PlansFitStep
<1>3. OnceInv /\ PlansFit => HandoverCovered
  BY OnceIsCovered
<1> QED BY <1>1, <1>2, <1>3, PTL DEF Spec

------------------------------------------------------------------------------
(***************************************************************************)
(* The rules that govern a count                                           *)
(***************************************************************************)
HIDE ReceiptsAssumption
HIDE DEF ReceiptsAssumption
USE DEF Depth

------------------------------------------------------------------------------
(* The first of a finite set *)

\* What is so of every finite set that it is so of every smaller part of, is so of all.
LEMMA BySize ==
    ASSUME NEW S, IsFiniteSet(S), NEW P,
           \A s \in SUBSET S : (\A t \in SUBSET s : t # s => t \in P) => s \in P
    PROVE  SUBSET S \subseteq P
<1> SUFFICES ASSUME ~(SUBSET S \subseteq P) PROVE FALSE
  OBVIOUS
<1> DEFINE T == {s \in SUBSET S : s \notin P}
<1>1. T # {} /\ T \subseteq FiniteSubsetsOf(S)
  BY FS_FiniteSubsetsOfFinite
<1>2. IsWellFoundedOn(StrictSubsetOrdering(S), FiniteSubsetsOf(S))
  BY FS_StrictSubsetOrderingWellFounded
<1> HIDE DEF T
<1>3. PICK s \in T : \A t \in T : ~ (<<t, s>> \in StrictSubsetOrdering(S))
  BY <1>1, <1>2, WFMin
<1> USE DEF T
<1>4. \A t \in SUBSET s : t # s => t \notin T
  BY <1>3 DEF StrictSubsetOrdering
<1> QED BY <1>4

\* Of a finite set that is ordered there is a first.
LEMMA FirstExists ==
    ASSUME NEW S, IsFiniteSet(S), S # {}, NEW R,
           \A x, y \in S : x # y => <<x, y>> \in R \/ <<y, x>> \in R,
           \A x, y, z \in S : x # y /\ y # z /\ x # z
                             /\ <<x, y>> \in R /\ <<y, z>> \in R => <<x, z>> \in R
    PROVE  \E x \in S : \A y \in S \ {x} : <<x, y>> \in R
<1> DEFINE Has(s) == \E x \in s : \A y \in s \ {x} : <<x, y>> \in R
           P == {s \in SUBSET S : s # {} => Has(s)}
<1>1. ASSUME NEW s \in SUBSET S, \A t \in SUBSET s : t # s => t \in P PROVE s \in P
  <2> SUFFICES ASSUME s # {} PROVE Has(s)
    OBVIOUS
  <2>1. PICK z \in s : TRUE
    OBVIOUS
  <2> DEFINE t == s \ {z}
  <2>2. CASE t = {}
    <3>1. s \ {z} = {}
      BY <2>2
    <3> QED BY <2>1, <3>1
  <2>3. CASE t # {}
    <3>0. t \in SUBSET s /\ t # s
      BY <2>1
    <3>1. Has(t)
      BY <1>1, <2>3, <3>0
    <3>2. PICK x \in t : \A y \in t \ {x} : <<x, y>> \in R
      BY <3>1
    <3>3. CASE <<x, z>> \in R
      <4>1. \A y \in s \ {x} : <<x, y>> \in R
        BY <3>2, <3>3
      <4> QED BY <3>2, <4>1
    <3>4. CASE <<x, z>> \notin R
      <4>1. <<z, x>> \in R
        BY <2>1, <3>2, <3>4
      <4>2. \A y \in s \ {z} : <<z, y>> \in R
        BY <2>1, <3>2, <4>1
      <4> QED BY <2>1, <4>2
    <3> QED BY <3>3, <3>4
  <2> QED BY <2>2, <2>3
<1> HIDE DEF P
<1>2. SUBSET S \subseteq P
  BY <1>1, BySize
<1>3. S \in P
  BY <1>2
<1> QED BY <1>3 DEF P

LEMMA MaxIs ==
    ASSUME NEW S, IsFiniteSet(S), S # {}, S \subseteq Int
    PROVE  Max(S) \in S /\ \A y \in S : Max(S) >= y
<1> DEFINE R == {p \in S \X S : p[1] >= p[2]}
<1>1. \A x, y \in S : <<x, y>> \in R <=> x >= y
  OBVIOUS
<1>2. \A x, y \in S : (x >= y \/ y >= x) /\ x >= x
  OBVIOUS
<1>3. \A x, y, z \in S : x >= y /\ y >= z => x >= z
  OBVIOUS
<1> HIDE DEF R
<1>4. \A x, y \in S : x # y => <<x, y>> \in R \/ <<y, x>> \in R
  BY <1>1, <1>2
<1>5. \A x, y, z \in S : x # y /\ y # z /\ x # z
                             /\ <<x, y>> \in R /\ <<y, z>> \in R => <<x, z>> \in R
  BY <1>1, <1>3
<1>6. \E x \in S : \A y \in S \ {x} : <<x, y>> \in R
  BY ONLY IsFiniteSet(S), S # {}, <1>4, <1>5, FirstExists
<1>7. PICK x \in S : \A y \in S \ {x} : <<x, y>> \in R
  BY <1>6
<1>8. \A y \in S : x >= y
  <2> TAKE y \in S
  <2>1. CASE y = x
    BY <1>2, <2>1
  <2>2. CASE y # x
    BY <1>1, <1>7, <2>2
  <2> QED BY <2>1, <2>2
<1>9. \E m \in S : \A y \in S : m >= y
  BY <1>8
<1> QED BY <1>9, Zenon DEF Max

LEMMA MinIs ==
    ASSUME NEW S, IsFiniteSet(S), S # {}, S \subseteq Int
    PROVE  Min(S) \in S /\ \A y \in S : Min(S) <= y
<1> DEFINE R == {p \in S \X S : p[1] <= p[2]}
<1>1. \A x, y \in S : <<x, y>> \in R <=> x <= y
  OBVIOUS
<1>2. \A x, y \in S : (x <= y \/ y <= x) /\ x <= x
  OBVIOUS
<1>3. \A x, y, z \in S : x <= y /\ y <= z => x <= z
  OBVIOUS
<1> HIDE DEF R
<1>4. \A x, y \in S : x # y => <<x, y>> \in R \/ <<y, x>> \in R
  BY <1>1, <1>2
<1>5. \A x, y, z \in S : x # y /\ y # z /\ x # z
                             /\ <<x, y>> \in R /\ <<y, z>> \in R => <<x, z>> \in R
  BY <1>1, <1>3
<1>6. \E x \in S : \A y \in S \ {x} : <<x, y>> \in R
  BY ONLY IsFiniteSet(S), S # {}, <1>4, <1>5, FirstExists
<1>7. PICK x \in S : \A y \in S \ {x} : <<x, y>> \in R
  BY <1>6
<1>8. \A y \in S : x <= y
  <2> TAKE y \in S
  <2>1. CASE y = x
    BY <1>2, <2>1
  <2>2. CASE y # x
    BY <1>1, <1>7, <2>2
  <2> QED BY <2>1, <2>2
<1>9. \E m \in S : \A y \in S : m <= y
  BY <1>8
<1> QED BY <1>9, Zenon DEF Min

LEMMA ImageIsFinite ==
    ASSUME NEW S, IsFiniteSet(S), NEW f
    PROVE  IsFiniteSet({f[x] : x \in S})
<1> DEFINE T == {f[x] : x \in S}
           g == [x \in S |-> f[x]]
<1>1. g \in Surjection(S, T)
  BY DEF Surjection
<1> HIDE DEF g, T
<1>2. IsFiniteSet(T)
  BY <1>1, FS_Surjection
<1> QED BY <1>2 DEF T

------------------------------------------------------------------------------
(* The order of bindings *)

Kinds == DOMAIN Dimensions

LEMMA SixDimensions ==
    ASSUME NEW k \in Kinds
    PROVE  /\ DOMAIN Dimensions[k] = 1..6
           /\ Dimensions[k][1] = "tenancy"
           /\ \A i \in 1..6 : Dimensions[k][i] \in
                  {"tenancy", "product", "counterparty", "space", "ownership", "metric"}
BY DEF Kinds, Dimensions, PartyThenProduct, ProductThenSpace

LEMMA DepthIs ==
    ASSUME NEW k \in Kinds, NEW b \in Bindings, NEW i \in 1..6
    PROVE  Depth(k, b, i) \in Int
<1>1. \A leaf, class : class \in {Unsaid} \cup DOMAIN Parents => NodeDepth(leaf, class) \in Int
  BY PolicyAssumption, FS_CardinalityType DEF NodeDepth
<1>2. {Scope[b].axes.item_class, Scope[b].axes.party_class} \subseteq {Unsaid} \cup DOMAIN Parents
  BY PolicyAssumption
<1>3. \A d \in {"tenancy", "product", "counterparty", "space", "ownership", "metric"} :
          Depths(b)[d] \in Int
  BY <1>1, <1>2 DEF Depths
<1> QED BY <1>3, SixDimensions

\* Level(k, a, b, i): the first i dimensions of the order do not tell the two apart.
Level(k, a, b, n) == \A j \in 1..6 : j < n => Depth(k, a, j) = Depth(k, b, j)

LEMMA BeforeIs ==
    ASSUME NEW k \in Kinds, NEW a \in Bindings, NEW b \in Bindings
    PROVE  Before(k, a, b) <=>
             \/ Level(k, a, b, 7) /\ Rank[a] < Rank[b]
             \/ \E i \in 1..6 : Level(k, a, b, i) /\ Depth(k, a, i) > Depth(k, b, i)
<1> DEFINE S == Apart(k, a, b)
           m == Min(S)
<1>1. S = {i \in 1..6 : Depth(k, a, i) # Depth(k, b, i)}
  BY SixDimensions DEF Apart
<1>2. IsFiniteSet(S) /\ S \subseteq Int
  <2>1. IsFiniteSet(1..6)
    BY FS_Interval, 1 \in Int, 6 \in Int
  <2> QED BY <1>1, <2>1, FS_Subset
<1>3. Before(k, a, b) <=> IF S = {} THEN Rank[a] < Rank[b] ELSE Depth(k, a, m) > Depth(k, b, m)
  BY DEF Before
<1>4. \A i \in 1..6 : Depth(k, a, i) \in Int /\ Depth(k, b, i) \in Int
  BY DepthIs
<1>5. S # {} => m \in S /\ \A y \in S : m <= y
  BY <1>2, MinIs
<1> HIDE DEF S, m, Depth
<1>6. CASE S = {}
  BY <1>1, <1>3, <1>4, <1>6 DEF Level
<1>7. CASE S # {}
  <2>1. m \in 1..6 /\ Level(k, a, b, m) /\ Depth(k, a, m) # Depth(k, b, m)
    BY <1>1, <1>5, <1>7 DEF Level
  <2>2. ~Level(k, a, b, 7)
    BY <2>1 DEF Level
  <2>3. ASSUME NEW i \in 1..6, Level(k, a, b, i), Depth(k, a, i) > Depth(k, b, i) PROVE i = m
    BY <1>1, <1>4, <1>5, <1>7, <2>1, <2>3 DEF Level
  <2> QED BY <1>3, <1>7, <2>1, <2>2, <2>3
<1> QED BY <1>6, <1>7

\* Any two bindings are told apart.
LEMMA AheadTotal ==
    ASSUME NEW k \in Kinds, NEW a \in Bindings, NEW b \in Bindings, a # b
    PROVE  Before(k, a, b) \/ Before(k, b, a)
<1>a. \A i \in 1..6 : Depth(k, a, i) \in Int /\ Depth(k, b, i) \in Int
  BY DepthIs
<1>b. Rank[a] \in Nat /\ Rank[b] \in Nat /\ Rank[a] # Rank[b]
  BY PolicyAssumption
<1> HIDE DEF Depth
<1>1. CASE Level(k, a, b, 7)
  <2>1. Level(k, b, a, 7)
    BY <1>1 DEF Level
  <2> QED BY <1>b, <1>1, <2>1, BeforeIs
<1>2. CASE ~Level(k, a, b, 7)
  <2> DEFINE S == {i \in 1..6 : Depth(k, a, i) # Depth(k, b, i)}
  <2>0. IsFiniteSet(1..6)
    BY FS_Interval, 1 \in Int, 6 \in Int
  <2>1. S # {} /\ S \subseteq Int /\ IsFiniteSet(S)
    BY <1>2, <2>0, FS_Subset DEF Level
  <2>2. PICK i \in S : \A y \in S : i <= y
    BY <2>1, MinIs
  <2>3. Level(k, a, b, i) /\ Level(k, b, a, i)
    BY <2>2 DEF Level
  <2>4. Depth(k, a, i) > Depth(k, b, i) \/ Depth(k, b, i) > Depth(k, a, i)
    BY <1>a, <2>2
  <2> QED BY <2>2, <2>3, <2>4, BeforeIs
<1> QED BY <1>1, <1>2

\* And being ahead is passed on.
LEMMA AheadOrders ==
    ASSUME NEW k \in Kinds, NEW a \in Bindings, NEW b \in Bindings, NEW c \in Bindings,
           a # b, b # c, a # c
    PROVE  Before(k, a, b) /\ Before(k, b, c) => Before(k, a, c)
<1>1. \A i \in 1..6 : /\ Depth(k, a, i) \in Int /\ Depth(k, b, i) \in Int
                      /\ Depth(k, c, i) \in Int
  BY DepthIs
<1>2. /\ Rank[a] \in Nat /\ Rank[b] \in Nat /\ Rank[c] \in Nat
      /\ Rank[a] # Rank[b]
  BY PolicyAssumption
<1> HIDE DEF Depth
<1>3. ASSUME Before(k, a, b), Before(k, b, c) PROVE Before(k, a, c)
  <2>1. CASE Level(k, a, b, 7) /\ Level(k, b, c, 7)
    <3>1. Level(k, a, c, 7)
      BY <2>1 DEF Level
    <3>2. Rank[a] < Rank[b] /\ Rank[b] < Rank[c]
      BY <1>1, <1>3, <2>1, BeforeIs DEF Level
    <3> QED BY <1>2, <3>1, <3>2, BeforeIs
  <2>2. ASSUME NEW i \in 1..6, Level(k, a, b, i), Level(k, b, c, i),
               \/ Depth(k, a, i) > Depth(k, b, i) /\ Depth(k, b, i) >= Depth(k, c, i)
               \/ Depth(k, a, i) >= Depth(k, b, i) /\ Depth(k, b, i) > Depth(k, c, i)
        PROVE  Before(k, a, c)
    <3>1. Level(k, a, c, i)
      BY <2>2 DEF Level
    <3>2. Depth(k, a, i) > Depth(k, c, i)
      BY <1>1, <2>2
    <3> QED BY <3>1, <3>2, BeforeIs
  <2>3. ASSUME NEW i \in 1..6, Level(k, a, b, i), Depth(k, a, i) > Depth(k, b, i)
        PROVE  Before(k, a, c)
    <3>1. CASE Level(k, b, c, 7)
      BY <1>1, <2>2, <2>3, <3>1 DEF Level
    <3>2. ASSUME NEW j \in 1..6, Level(k, b, c, j), Depth(k, b, j) > Depth(k, c, j)
          PROVE  Before(k, a, c)
      <4>1. CASE i <= j
        <5>1. Level(k, b, c, i) /\ Depth(k, b, i) >= Depth(k, c, i)
          BY <1>1, <3>2, <4>1 DEF Level
        <5> QED BY <2>2, <2>3, <5>1
      <4>2. CASE j < i
        <5>1. Level(k, a, b, j) /\ Depth(k, a, j) = Depth(k, b, j)
          BY <1>1, <2>3, <4>2 DEF Level
        <5>2. Depth(k, a, j) >= Depth(k, b, j)
          BY <1>1, <5>1
        <5> QED BY <2>2, <3>2, <5>1, <5>2
      <4> QED BY <4>1, <4>2
    <3> QED BY <1>3, <3>1, <3>2, BeforeIs
  <2>4. ASSUME NEW j \in 1..6, Level(k, b, c, j), Depth(k, b, j) > Depth(k, c, j), Level(k, a, b, 7)
        PROVE  Before(k, a, c)
    <3>1. Level(k, a, b, j) /\ Depth(k, a, j) = Depth(k, b, j)
      BY <2>4 DEF Level
    <3>2. Depth(k, a, j) >= Depth(k, b, j)
      BY <1>1, <3>1
    <3> QED BY <2>2, <2>4, <3>1, <3>2
  <2> QED BY <1>3, <2>1, <2>3, <2>4, BeforeIs
<1> QED BY <1>3

\* Of any matches there is a winner, and it is ahead of all others.
LEMMA ForemostIs ==
    ASSUME NEW k \in Kinds, NEW A, A \subseteq Bindings, IsFiniteSet(A), A # {}
    PROVE  /\ Foremost(k, A) \in A
           /\ \A b \in A \ {Foremost(k, A)} : Before(k, Foremost(k, A), b)
<1> DEFINE R == {p \in A \X A : Before(k, p[1], p[2])}
<1>1. \A x, y \in A : <<x, y>> \in R <=> Before(k, x, y)
  OBVIOUS
<1>2. \A x, y \in A : x # y => Before(k, x, y) \/ Before(k, y, x)
  BY PolicyAssumption, AheadTotal
<1>3. \A x, y, z \in A : x # y /\ y # z /\ x # z
                         /\ <<x, y>> \in R /\ <<y, z>> \in R => <<x, z>> \in R
  <2> SUFFICES ASSUME NEW x \in A, NEW y \in A, NEW z \in A, x # y, y # z, x # z,
                      Before(k, x, y), Before(k, y, z)
               PROVE  Before(k, x, z)
    BY <1>1
  <2> QED BY AheadOrders
<1> HIDE DEF R
<1>4. \E x \in A : \A y \in A \ {x} : <<x, y>> \in R
  BY <1>1, <1>2, <1>3, FirstExists
<1>5. \A x, y \in A : <<k, x, y>> \in Ahead <=> x # y /\ Before(k, x, y)
  BY DEF Ahead, Kinds
<1>6. \E x \in A : \A y \in A \ {x} : <<k, x, y>> \in Ahead
  BY <1>1, <1>4, <1>5
<1> QED BY <1>5, <1>6 DEF Foremost

------------------------------------------------------------------------------
(* Clamps *)

\* apply_clamps: what a field comes to is no looser than what any of the matches states.
LEMMA ClampsHold ==
    ASSUME NEW k \in DOMAIN ClampedFields, NEW values, IsFiniteSet(values),
           \A v \in values : Figures(k, v),
           NEW said, NEW r, r.values = Applied(k, said, values)
    PROVE  NoLooser(ClampedFields[k], r, values)
<1> DEFINE directions == ClampedFields[k]
           Stated(f)  == {v[f] : v \in {v \in values : f \in DOMAIN v}}
<1>1. \A f : IsFiniteSet(Stated(f))
  <2> TAKE f
  <2> DEFINE U == {v \in values : f \in DOMAIN v}
             g == [v \in U |-> v[f]]
  <2>1. IsFiniteSet(U)
    BY FS_Subset
  <2>2. Stated(f) = {g[v] : v \in U}
    OBVIOUS
  <2> HIDE DEF g, U, Stated
  <2>3. IsFiniteSet({g[v] : v \in U})
    BY <2>1, ImageIsFinite
  <2> QED BY <2>2, <2>3
<1>2. \A f \in DOMAIN directions : Stated(f) \subseteq Int
  BY DEF Figures
<1>3. r.values = [f \in DOMAIN said |->
          IF f \notin DOMAIN directions THEN said[f]
          ELSE IF directions[f] = "floor" THEN Max(Stated(f)) ELSE Min(Stated(f))]
  BY DEF Applied
<1> HIDE DEF directions
<1>4. ASSUME NEW f \in DOMAIN r.values \cap DOMAIN directions,
             NEW v \in values, f \in DOMAIN v
      PROVE  IF directions[f] = "floor" THEN r.values[f] >= v[f] ELSE r.values[f] <= v[f]
  <2>1. v[f] \in Stated(f)
    BY <1>4
  <2>2. f \in DOMAIN said
    BY <1>3, <1>4
  <2>3. r.values[f] = IF directions[f] = "floor" THEN Max(Stated(f)) ELSE Min(Stated(f))
    BY <1>3, <1>4, <2>2
  <2> HIDE DEF Stated
  <2>4. Max(Stated(f)) >= v[f] /\ Min(Stated(f)) <= v[f]
    BY <1>1, <1>2, <1>4, <2>1, MaxIs, MinIs
  <2> QED BY <2>3, <2>4
<1> QED BY <1>4 DEF NoLooser, directions

------------------------------------------------------------------------------
(* What is so of the configuration, and of the past *)

PolicyTypes ==
    /\ clock \in 0..Horizon
    /\ bound \subseteq Bindings /\ IsFiniteSet(bound)
    /\ readAt \in [CountedLines -> Nat \cup {-1}]
    /\ shown = [l \in CountedLines |-> shown[l]]
    /\ disposed = [l \in CountedLines |-> disposed[l]]
    /\ answered = [l \in CountedLines |-> answered[l]]
    /\ \A g \in golden : g.case \in Cases /\ g.at \in Nat /\ g.at < clock

IsVersion(v) ==
    /\ v = [of |-> v.of, from |-> v.from, till |-> v.till, states |-> v.states]
    /\ v.of \in bound /\ Figures(Scope[v.of].kind, v.states)
    /\ v.from \in Nat /\ v.from <= clock
    /\ v.till \in Nat /\ (v.till > Horizon \/ v.till <= clock)

\* A binding has one version at a time.
OneInForce ==
    /\ \A v \in versions : IsVersion(v)
    /\ \A u, v \in versions : u.of = v.of /\ u # v => u.till <= v.from \/ v.till <= u.from

\* What was shown of a line that waits would be shown again, as of when it was read.
LinesKept ==
    \A l \in CountedLines :
        /\ readAt[l] <= clock
        /\ readAt[l] = -1 => disposed[l] = Undecided
        /\ disposed[l] = Undecided => answered[l] = {}
        /\ l \in Waiting \ moved => shown[l] = Resolution("receiving", Says[l], readAt[l])

PolicyInv ==
    PolicyTypes /\ OneInForce /\ LinesKept /\ LinesAsShown /\ RetriesAlike /\ PastAnswersStand

LEMMA OnlyOne ==
    ASSUME PolicyTypes, OneInForce, NEW v \in versions, NEW t \in Nat, InForce(v, t)
    PROVE  VersionsAt(v.of, t) = {v}
<1>1. \A u \in versions : u.of = v.of /\ u # v => u.till <= v.from \/ v.till <= u.from
  BY DEF OneInForce
<1>2. \A u \in versions : u.from \in Nat /\ u.till \in Nat
  BY DEF OneInForce, IsVersion
<1> QED BY <1>1, <1>2 DEF VersionsAt, InForce

\* The rule that won is a tenant's if there was one, and what it comes to is no looser than
\* any match.
LEMMA AnswersNeverLooser ==
    ASSUME PolicyTypes, OneInForce, NEW k \in Kinds, NEW ask, NEW t \in Nat
    PROVE  NeverLooser(k, Candidates(k, ask, t), Resolution(k, ask, t), t)
<1> DEFINE A == Candidates(k, ask, t)
           w == Foremost(k, A)
           r == Resolution(k, ask, t)
           values == {ValueAt(b, t) : b \in A}
<1> SUFFICES ASSUME A # {} PROVE NeverLooser(k, A, r, t)
  BY DEF NeverLooser
<1>1. A \subseteq bound /\ \A b \in A : Scope[b].kind = k /\ VersionsAt(b, t) # {}
  BY DEF Candidates
<1>2. A \subseteq Bindings /\ IsFiniteSet(A)
  BY <1>1, FS_Subset DEF PolicyTypes
<1>3. r = Answer(k, w, A, t)
  BY DEF Resolution, AnswerAmong
<1> HIDE DEF A
<1>4. w \in A /\ \A b \in A \ {w} : Before(k, w, b)
  BY <1>2, ForemostIs
<1> HIDE DEF w, r
<1>5. r.winner = w /\ r.values = Applied(k, ValueAt(w, t), values)
  BY <1>3 DEF Answer
<1>6. ASSUME NEW b \in A, Scope[b].tenant PROVE Scope[w].tenant
  <2> SUFFICES ASSUME ~Scope[w].tenant, b # w PROVE FALSE
    BY <1>6
  <2>1. Depth(k, w, 1) = 0 /\ Depth(k, b, 1) = 1
    BY <1>6, SixDimensions DEF Depths
  <2>2. Before(k, w, b)
    BY <1>4
  <2> HIDE DEF Depth
  <2> QED BY <1>2, <1>4, <2>1, <2>2, BeforeIs DEF Level
<1>7. ASSUME NEW b \in A PROVE Figures(k, ValueAt(b, t))
  <2>1. PICK v \in versions : v.of = b /\ InForce(v, t)
    BY <1>1 DEF VersionsAt
  <2>2. ValueAt(b, t) = v.states
    BY <2>1, OnlyOne DEF ValueAt
  <2> QED BY <1>1, <2>1, <2>2 DEF OneInForce, IsVersion
<1>8. IsFiniteSet(values)
  <2> DEFINE g == [b \in A |-> ValueAt(b, t)]
  <2>1. values = {g[b] : b \in A}
    OBVIOUS
  <2> HIDE DEF g, values
  <2>2. IsFiniteSet({g[b] : b \in A})
    BY <1>2, ImageIsFinite
  <2> QED BY <2>1, <2>2
<1>9. \A v \in values : Figures(k, v)
  BY <1>7
<1> HIDE DEF values
<1>10. k \in DOMAIN ClampedFields => NoLooser(ClampedFields[k], r, values)
  BY <1>5, <1>8, <1>9, ClampsHold
<1> QED BY <1>5, <1>6, <1>10 DEF NeverLooser, values

------------------------------------------------------------------------------
(* The past stands *)

\* What was in force at t is, from then and as it was, and nothing else is.
SameAt(t) ==
    /\ \A v \in versions : InForce(v, t) =>
          \E u \in versions' : /\ u.of = v.of /\ InForce(u, t)
                               /\ u.from = v.from /\ u.states = v.states
    /\ \A u \in versions' : InForce(u, t) => \E v \in versions : v.of = u.of /\ InForce(v, t)

LEMMA PastResolves ==
    ASSUME PolicyTypes, PolicyTypes', OneInForce, OneInForce', NEW t \in Nat, SameAt(t),
           bound \subseteq bound', succeeds' = succeeds, classOf' = classOf,
           NEW k \in Kinds, NEW ask
    PROVE  Resolution(k, ask, t)' = Resolution(k, ask, t)
<1> DEFINE C == Candidates(k, ask, t)
<1>1. \A b : VersionsAt(b, t)' # {} <=> VersionsAt(b, t) # {}
  BY DEF SameAt, VersionsAt, InForce
<1>2. \A b : VersionsAt(b, t) # {} => b \in bound
  BY DEF VersionsAt, OneInForce, IsVersion
<1>3. C' = C
  BY <1>1, <1>2 DEF Candidates, Matches, ClassesAbove
<1>4. ASSUME NEW b \in C
      PROVE  \E u, v : /\ VersionsAt(b, t) = {v} /\ VersionsAt(b, t)' = {u}
                       /\ u.from = v.from /\ u.states = v.states
  <2>1. PICK v \in versions : v.of = b /\ InForce(v, t)
    BY DEF Candidates, VersionsAt
  <2>2. PICK u \in versions' : /\ u.of = v.of /\ InForce(u, t)
                              /\ u.from = v.from /\ u.states = v.states
    BY <2>1 DEF SameAt
  <2>3. VersionsAt(b, t) = {v}
    BY <2>1, OnlyOne
  <2>4. VersionsAt(b, t)' = {u}
    <3>1. \A w \in versions' : w.of = u.of /\ w # u => w.till <= u.from \/ u.till <= w.from
      BY <2>2 DEF OneInForce
    <3>2. \A w \in versions' : w.from \in Nat /\ w.till \in Nat
      BY DEF OneInForce, IsVersion
    <3> QED BY <2>1, <2>2, <3>1, <3>2 DEF VersionsAt, InForce
  <2> QED BY <2>2, <2>3, <2>4
<1>5. \A b \in C : /\ ValueAt(b, t)' = ValueAt(b, t)
                   /\ ((CHOOSE v \in VersionsAt(b, t) : TRUE).from)'
                         = (CHOOSE v \in VersionsAt(b, t) : TRUE).from
  <2> TAKE b \in C
  <2>1. PICK u, v : /\ VersionsAt(b, t) = {v} /\ VersionsAt(b, t)' = {u}
                    /\ u.from = v.from /\ u.states = v.states
    BY <1>4
  <2> QED BY <2>1 DEF ValueAt
<1>6. CASE C = {}
  BY <1>3, <1>6 DEF Resolution, AnswerAmong
<1>7. CASE C # {}
  <2>1. C \subseteq Bindings /\ IsFiniteSet(C)
    BY FS_Subset DEF Candidates, PolicyTypes
  <2>2. PICK w \in C : w = Foremost(k, C)
    BY <1>7, <2>1, ForemostIs
  <2> DEFINE Of(from, val, values) ==
                 [winner  |-> w,
                  from    |-> from,
                  decided |-> DecidedOn(k, w, C \ {w}),
                  tied    |-> AmbiguousWith(k, w, C \ {w}),
                  values  |-> Applied(k, val, values)]
  <2>3. Resolution(k, ask, t) =
          Of((CHOOSE v \in VersionsAt(w, t) : TRUE).from, ValueAt(w, t), {ValueAt(b, t) : b \in C})
    BY <1>7, <2>2 DEF Resolution, AnswerAmong, Answer
  <2>4. Resolution(k, ask, t)' =
          Of(((CHOOSE v \in VersionsAt(w, t) : TRUE).from)', ValueAt(w, t)', {ValueAt(b, t)' : b \in C})
    BY <1>3, <1>7, <2>2 DEF Resolution, AnswerAmong, Answer
  <2>5. {ValueAt(b, t)' : b \in C} = {ValueAt(b, t) : b \in C}
    BY <1>5
  <2>6. /\ ValueAt(w, t)' = ValueAt(w, t)
        /\ ((CHOOSE v \in VersionsAt(w, t) : TRUE).from)' = (CHOOSE v \in VersionsAt(w, t) : TRUE).from
    BY <1>5, <2>2
  <2> HIDE DEF Of, C
  <2> QED BY <2>3, <2>4, <2>5, <2>6
<1> QED BY <1>6, <1>7

\* Nothing of the configuration changed.
LEMMA Unchanged ==
    ASSUME PolicyTypes, PolicyTypes', OneInForce, OneInForce', UNCHANGED policy,
           NEW k \in Kinds, NEW ask, NEW t \in Nat
    PROVE  Resolution(k, ask, t)' = Resolution(k, ask, t)
<1>1. SameAt(t)
  BY DEF SameAt, policy
<1>2. bound' = bound /\ succeeds' = succeeds /\ classOf' = classOf
  BY DEF policy
<1> QED BY <1>1, <1>2, PastResolves

------------------------------------------------------------------------------
(* The configuration changes *)

LEMMA Receives ==
    /\ "receiving" \in Kinds
    /\ \A c \in Cases : c.kind \in Kinds
BY PolicyAssumption DEF Kinds, Dimensions

\* A change takes back what was read as of the instants it reaches, and leaves the others.
LEMMA EditKeeps ==
    ASSUME PolicyInv, PolicyTypes', OneInForce', NEW taken, NEW stands, Edit(taken, stands),
           \/ taken = CountedLines /\ stands = {}
           \/ /\ taken = ReadNow /\ stands = golden
              /\ bound \subseteq bound' /\ succeeds' = succeeds /\ classOf' = classOf
              /\ \A t \in Nat : t < clock => SameAt(t)
    PROVE  PolicyInv'
<1>1. /\ clock' = clock /\ readAt' = readAt /\ shown' = shown /\ disposed' = disposed
      /\ answered' = answered /\ moved' = moved \cup (Waiting \cap taken) /\ golden' = stands
  BY DEF Edit
<1>2. Waiting' = Waiting
  BY <1>1 DEF Waiting
<1>3. ASSUME taken = ReadNow, NEW k \in Kinds, NEW ask, NEW t \in Nat, t < clock,
             ~(taken = CountedLines /\ stands = {})
      PROVE  Resolution(k, ask, t)' = Resolution(k, ask, t)
  BY <1>3, PastResolves DEF PolicyInv
<1>4. LinesKept'
  <2> SUFFICES ASSUME NEW l \in CountedLines
               PROVE  /\ readAt'[l] <= clock'
                      /\ readAt'[l] = -1 => disposed'[l] = Undecided
                      /\ disposed'[l] = Undecided => answered'[l] = {}
                      /\ l \in Waiting' \ moved' =>
                             shown'[l] = Resolution("receiving", Says[l], readAt[l])'
    BY DEF LinesKept
  <2>1. ASSUME l \in Waiting' \ moved'
        PROVE  shown'[l] = Resolution("receiving", Says[l], readAt[l])'
    <3>1. l \in Waiting \ moved /\ l \notin taken
      BY <1>1, <1>2, <2>1
    <3>2. shown[l] = Resolution("receiving", Says[l], readAt[l])
      BY <3>1 DEF PolicyInv, LinesKept
    <3>3. taken = ReadNow /\ ~(taken = CountedLines /\ stands = {})
      BY <3>1
    <3>4. PICK t \in Nat : t = readAt[l]
      BY <3>1 DEF Waiting, PolicyInv, PolicyTypes
    <3>5. t < clock
      BY <3>1, <3>3, <3>4 DEF ReadNow, PolicyInv, PolicyTypes, LinesKept
    <3>6. Resolution("receiving", Says[l], t)' = Resolution("receiving", Says[l], t)
      BY <1>3, <3>3, <3>5, Receives
    <3>7. Resolution("receiving", Says[l], readAt[l])' = Resolution("receiving", Says[l], t)'
      BY <1>1, <3>4
    <3> QED BY <1>1, <3>2, <3>4, <3>6, <3>7
  <2> QED BY <1>1, <2>1 DEF PolicyInv, LinesKept
<1>5. PastAnswersStand'
  <2> SUFFICES ASSUME NEW g \in golden'
               PROVE  g.answer = Resolution(g.case.kind, g.case, g.at)'
    BY DEF PastAnswersStand
  <2>1. g \in golden /\ taken = ReadNow /\ ~(taken = CountedLines /\ stands = {})
    BY <1>1
  <2>2. g.case \in Cases /\ g.at \in Nat /\ g.at < clock
    BY <2>1 DEF PolicyInv, PolicyTypes
  <2>3. Resolution(g.case.kind, g.case, g.at)' = Resolution(g.case.kind, g.case, g.at)
    BY <1>3, <2>1, <2>2, Receives
  <2> QED BY <2>1, <2>3 DEF PolicyInv, PastAnswersStand
<1>6. LinesAsShown' /\ RetriesAlike'
  BY <1>1 DEF PolicyInv, LinesAsShown, RetriesAlike
<1> QED BY <1>4, <1>5, <1>6 DEF PolicyInv

\* A binding that is new has no version yet, and gets one from now.
LEMMA OpensKeeps ==
    ASSUME PolicyInv, NEW b \in Bindings, b \notin bound,
           NEW states \in Values[Scope[b].kind], NEW taken, NEW stands, Edit(taken, stands),
           stands \in {golden, {}},
           bound' = bound \cup {b}, versions' = versions \cup {Opens(b, states)}
    PROVE  PolicyTypes' /\ OneInForce' /\ \A t \in Nat : t < clock => SameAt(t)
<1>1. PolicyTypes'
  BY FS_AddElement DEF PolicyInv, PolicyTypes, Edit
<1>2. clock' = clock /\ clock \in Nat /\ clock <= Horizon /\ Horizon \in Nat
  BY PolicyAssumption DEF Edit, PolicyInv, PolicyTypes
<1>3. Figures(Scope[b].kind, states)
  BY PolicyAssumption
<1>n. PICK new : new = Opens(b, states)
  OBVIOUS
<1>4. /\ new = [of |-> new.of, from |-> new.from, till |-> new.till, states |-> new.states]
      /\ new.of = b /\ new.from = clock /\ new.till = Horizon + 1 /\ new.states = states
  BY <1>n DEF Opens
<1>5. \A v \in versions : IsVersion(v) /\ v.of # b
  BY DEF PolicyInv, OneInForce, IsVersion
<1>6. \A v \in versions : IsVersion(v)'
  BY <1>2, <1>5 DEF IsVersion
<1>7. IsVersion(new)'
  BY <1>2, <1>3, <1>4 DEF IsVersion
<1>8. OneInForce'
  <2>1. \A v \in versions' : v \in versions \/ v = new
    BY <1>n
  <2> QED BY <1>4, <1>5, <1>6, <1>7, <2>1 DEF PolicyInv, OneInForce
<1>9. ASSUME NEW t \in Nat, t < clock PROVE SameAt(t)
  <2>1. ~InForce(new, t)
    BY <1>2, <1>4, <1>9 DEF InForce
  <2> QED BY <1>n, <2>1 DEF SameAt
<1> QED BY <1>1, <1>8, <1>9

\* A version that is running ends now, and at most one takes its place.
LEMMA ClosesKeeps ==
    ASSUME PolicyInv, NEW v \in versions, Running(v), Edit(ReadNow, golden), bound' = bound,
           NEW new, new \subseteq {Opens(v.of, states) : states \in Values[Scope[v.of].kind]},
           \A u, w \in new : u = w,
           versions' = Close(v) \cup new
    PROVE  PolicyTypes' /\ OneInForce' /\ \A t \in Nat : t < clock => SameAt(t)
<1>1. PolicyTypes'
  BY DEF PolicyInv, PolicyTypes, Edit
<1>2. clock' = clock /\ clock \in Nat /\ clock <= Horizon /\ Horizon \in Nat
  BY PolicyAssumption DEF Edit, PolicyInv, PolicyTypes
<1>3. IsVersion(v) /\ v.of \in Bindings
  BY DEF PolicyInv, OneInForce, IsVersion, PolicyTypes
<1>4. \A u \in new : /\ u = [of |-> u.of, from |-> u.from, till |-> u.till, states |-> u.states]
                     /\ u.of = v.of /\ u.from = clock /\ u.till = Horizon + 1
                     /\ Figures(Scope[v.of].kind, u.states)
  BY <1>3, PolicyAssumption DEF Opens
<1>e. PICK end : end = [v EXCEPT !.till = clock]
  OBVIOUS
<1>5. /\ end = [of |-> end.of, from |-> end.from, till |-> end.till, states |-> end.states]
      /\ end.of = v.of /\ end.from = v.from /\ end.till = clock /\ end.states = v.states
  BY <1>3, <1>e DEF IsVersion
<1>6. versions' = (versions \ {v}) \cup {end} \cup new
  BY <1>e DEF Close
<1>7. v.till > Horizon /\ v.from < clock /\ v.from \in Nat /\ v.till \in Nat
  BY <1>3 DEF Running, IsVersion
<1>8. \A u \in versions : IsVersion(u)
  BY DEF PolicyInv, OneInForce
<1>9. \A u \in versions' : IsVersion(u)'
  <2>1. \A u \in versions : IsVersion(u)'
    BY <1>2, <1>8 DEF IsVersion
  <2>2. IsVersion(end)'
    BY <1>2, <1>3, <1>5 DEF IsVersion
  <2>3. \A u \in new : IsVersion(u)'
    BY <1>2, <1>3, <1>4 DEF IsVersion
  <2> QED BY <1>6, <2>1, <2>2, <2>3
<1>10. \A u \in versions \ {v} : u.of = v.of => u.till <= v.from /\ u.till < clock
  <2> SUFFICES ASSUME NEW u \in versions \ {v}, u.of = v.of PROVE u.till <= v.from /\ u.till < clock
    OBVIOUS
  <2>1. u.till <= v.from \/ v.till <= u.from
    BY DEF PolicyInv, OneInForce
  <2>2. u.from \in Nat /\ u.from <= clock /\ u.till \in Nat
    BY <1>8 DEF IsVersion
  <2> QED BY <1>2, <1>7, <2>1, <2>2
<1>11. \A u, w \in versions' : u.of = w.of /\ u # w => u.till <= w.from \/ w.till <= u.from
  <2>1. ASSUME NEW u \in versions \ {v}, NEW w \in versions \ {v}, u.of = w.of, u # w
        PROVE  u.till <= w.from \/ w.till <= u.from
    BY <2>1 DEF PolicyInv, OneInForce
  <2>2. \A u \in versions \ {v} : u.of = end.of => u.till <= end.from
    BY <1>5, <1>10
  <2>3. \A u \in versions \ {v} : \A w \in new : u.of = w.of => u.till <= w.from
    BY <1>2, <1>4, <1>8, <1>10 DEF IsVersion
  <2>4. \A w \in new : end.till <= w.from
    BY <1>2, <1>4, <1>5
  <2> QED BY <1>6, <2>1, <2>2, <2>3, <2>4
<1>12. OneInForce'
  BY <1>9, <1>11 DEF OneInForce
<1>13. ASSUME NEW t \in Nat, t < clock PROVE SameAt(t)
  <2>1. \A u \in new : ~InForce(u, t)
    BY <1>2, <1>4, <1>13 DEF InForce
  <2>2. InForce(end, t) <=> InForce(v, t)
    BY <1>2, <1>5, <1>7, <1>13 DEF InForce
  <2> QED BY <1>5, <1>6, <2>1, <2>2 DEF SameAt
<1> QED BY <1>1, <1>12, <1>13

LEMMA NextEdit ==
    ASSUME PolicyInv,
           \/ \E b \in Bindings : \E states \in Values[Scope[b].kind] :
                 Bind(b, states) \/ \E old \in bound : Supersede(b, old, states)
           \/ \E v \in versions : Retire(v) \/ \E states \in Values[Scope[v.of].kind] : Revalue(v, states)
           \/ \E x \in DOMAIN classOf : \E class \in DOMAIN Parents : Classify(x, class)
    PROVE  PolicyInv'
<1>1. ASSUME NEW b \in Bindings, NEW states \in Values[Scope[b].kind], Bind(b, states)
      PROVE  PolicyInv'
  <2>1. PolicyTypes' /\ OneInForce' /\ \A t \in Nat : t < clock => SameAt(t)
    BY <1>1, OpensKeeps DEF Bind
  <2> QED BY <1>1, <2>1, EditKeeps DEF Bind
<1>2. ASSUME NEW b \in Bindings, NEW states \in Values[Scope[b].kind],
             NEW old \in bound, Supersede(b, old, states)
      PROVE  PolicyInv'
  <2>1. PolicyTypes' /\ OneInForce'
    BY <1>2, OpensKeeps DEF Supersede
  <2> QED BY <1>2, <2>1, EditKeeps DEF Supersede
<1>3. ASSUME NEW v \in versions, Retire(v) PROVE PolicyInv'
  <2>1. PolicyTypes' /\ OneInForce' /\ \A t \in Nat : t < clock => SameAt(t)
    <3>1. PICK new : new = {}
      OBVIOUS
    <3>2. versions' = Close(v) \cup new
      BY <1>3, <3>1 DEF Retire
    <3>3. /\ new \subseteq {Opens(v.of, s) : s \in Values[Scope[v.of].kind]}
          /\ \A u, w \in new : u = w
      BY <3>1
    <3> QED BY <1>3, <3>2, <3>3, ClosesKeeps DEF Retire
  <2> QED BY <1>3, <2>1, EditKeeps DEF Retire
<1>4. ASSUME NEW v \in versions, NEW states \in Values[Scope[v.of].kind], Revalue(v, states)
      PROVE  PolicyInv'
  <2>1. PolicyTypes' /\ OneInForce' /\ \A t \in Nat : t < clock => SameAt(t)
    <3>1. PICK new : new = {Opens(v.of, states)}
      OBVIOUS
    <3>2. versions' = Close(v) \cup new
      BY <1>4, <3>1 DEF Revalue
    <3>3. /\ new \subseteq {Opens(v.of, s) : s \in Values[Scope[v.of].kind]}
          /\ \A u, w \in new : u = w
      BY <3>1
    <3> QED BY <1>4, <3>2, <3>3, ClosesKeeps DEF Revalue
  <2> QED BY <1>4, <2>1, EditKeeps DEF Revalue
<1>5. ASSUME NEW x, NEW class, Classify(x, class) PROVE PolicyInv'
  <2>1. PolicyTypes' /\ OneInForce'
    BY <1>5 DEF Classify, Edit, PolicyInv, PolicyTypes, OneInForce, IsVersion
  <2> QED BY <1>5, <2>1, EditKeeps DEF Classify
<1> QED BY <1>1, <1>2, <1>3, <1>4, <1>5

------------------------------------------------------------------------------
(* The dock, and time *)

\* Where the configuration stays, the past and what was shown stay.
LEMMA StaysKept ==
    ASSUME PolicyInv, UNCHANGED policy, clock <= clock', PolicyTypes'
    PROVE  /\ OneInForce'
           /\ \A ask : \A t \in Nat :
                 Resolution("receiving", ask, t)' = Resolution("receiving", ask, t)
           /\ golden' = golden => PastAnswersStand'
<1>1. OneInForce'
  <2>1. clock \in Nat /\ clock' \in Nat /\ clock' <= Horizon /\ Horizon \in Nat
    BY PolicyAssumption DEF PolicyInv, PolicyTypes
  <2>2. bound' = bound /\ versions' = versions
    BY DEF policy
  <2>3. \A v \in versions : IsVersion(v)'
    <3>1. \A v \in versions : IsVersion(v)
      BY DEF PolicyInv, OneInForce
    <3> QED BY <2>1, <2>2, <3>1 DEF IsVersion
  <2> QED BY <2>2, <2>3 DEF PolicyInv, OneInForce
<1>2. \A ask : \A t \in Nat : Resolution("receiving", ask, t)' = Resolution("receiving", ask, t)
  BY <1>1, Unchanged, Receives DEF PolicyInv
<1>3. ASSUME golden' = golden PROVE PastAnswersStand'
  <2> SUFFICES ASSUME NEW g \in golden'
               PROVE  g.answer = Resolution(g.case.kind, g.case, g.at)'
    BY DEF PastAnswersStand
  <2>1. g \in golden /\ g.case \in Cases /\ g.at \in Nat
    BY <1>3 DEF PolicyInv, PolicyTypes
  <2>2. Resolution(g.case.kind, g.case, g.at)' = Resolution(g.case.kind, g.case, g.at)
    BY <1>1, <2>1, Unchanged, Receives DEF PolicyInv
  <2> QED BY <2>1, <2>2 DEF PolicyInv, PastAnswersStand
<1> QED BY <1>1, <1>2, <1>3

\* The lines that are neither counted, nor decided, nor answered are as they were.
LEMMA LineKept ==
    ASSUME PolicyInv, UNCHANGED <<policy, moved>>, clock <= clock', PolicyTypes',
           NEW l \in CountedLines,
           readAt'[l] = readAt[l], shown'[l] = shown[l], disposed'[l] = disposed[l]
    PROVE  /\ readAt'[l] <= clock'
           /\ readAt'[l] = -1 => disposed'[l] = Undecided
           /\ l \in Waiting' \ moved' => shown'[l] = Resolution("receiving", Says[l], readAt[l])'
<1>1. clock \in Nat /\ clock' \in Nat /\ readAt[l] \in Nat \cup {-1}
  BY DEF PolicyInv, PolicyTypes
<1>2. readAt[l] <= clock /\ (readAt[l] = -1 => disposed[l] = Undecided)
  BY DEF PolicyInv, LinesKept
<1>3. ASSUME l \in Waiting' \ moved'
      PROVE  shown'[l] = Resolution("receiving", Says[l], readAt[l])'
  <2>1. l \in Waiting \ moved
    BY <1>3 DEF Waiting
  <2>2. PICK t \in Nat : t = readAt[l]
    BY <1>1, <2>1 DEF Waiting
  <2>3. shown[l] = Resolution("receiving", Says[l], t)
    BY <2>1, <2>2 DEF PolicyInv, LinesKept
  <2>4. Resolution("receiving", Says[l], t)' = Resolution("receiving", Says[l], t)
    BY <2>2, StaysKept DEF policy
  <2>5. Resolution("receiving", Says[l], readAt[l])' = Resolution("receiving", Says[l], t)'
    BY <2>2
  <2> QED BY <2>3, <2>4, <2>5
<1> QED BY <1>1, <1>2, <1>3

LEMMA NextCount == ASSUME PolicyInv, NEW l \in CountedLines, Count(l) PROVE PolicyInv'
<1>1. /\ clock' = clock /\ UNCHANGED policy /\ moved' = moved /\ disposed' = disposed
      /\ answered' = answered /\ golden' = golden /\ readAt[l] = -1
      /\ readAt' = [readAt EXCEPT ![l] = clock]
      /\ shown' = [shown EXCEPT ![l] = Resolution("receiving", Says[l], clock)]
  BY DEF Count
<1>2. PolicyTypes'
  BY <1>1 DEF PolicyInv, PolicyTypes, policy
<1>3. clock \in Nat /\ clock <= clock'
  BY <1>1 DEF PolicyInv, PolicyTypes
<1>4. OneInForce' /\ PastAnswersStand'
  BY <1>1, <1>2, <1>3, StaysKept
<1>5. disposed[l] = Undecided
  BY <1>1 DEF PolicyInv, LinesKept
<1>6. LinesAsShown' /\ RetriesAlike'
  BY <1>1, <1>5 DEF PolicyInv, PolicyTypes, LinesAsShown, RetriesAlike
<1>7. LinesKept'
  <2> SUFFICES ASSUME NEW q \in CountedLines
               PROVE  /\ readAt'[q] <= clock'
                      /\ readAt'[q] = -1 => disposed'[q] = Undecided
                      /\ disposed'[q] = Undecided => answered'[q] = {}
                      /\ q \in Waiting' \ moved' =>
                             shown'[q] = Resolution("receiving", Says[q], readAt[q])'
    BY DEF LinesKept
  <2>1. disposed'[q] = Undecided => answered'[q] = {}
    BY <1>1 DEF PolicyInv, LinesKept
  <2>2. CASE q # l
    <3>1. readAt'[q] = readAt[q] /\ shown'[q] = shown[q] /\ disposed'[q] = disposed[q]
      BY <1>1, <2>2 DEF PolicyInv, PolicyTypes
    <3> QED BY <1>1, <1>2, <1>3, <2>1, <3>1, LineKept
  <2>3. CASE q = l
    <3>1. readAt'[l] = clock /\ shown'[l] = Resolution("receiving", Says[l], clock)
      BY <1>1 DEF PolicyInv, PolicyTypes
    <3>2. PICK t \in Nat : t = clock
      BY <1>3
    <3>3. Resolution("receiving", Says[l], t)' = Resolution("receiving", Says[l], t)
      BY <1>1, <1>2, <1>3, StaysKept
    <3>4. Resolution("receiving", Says[l], readAt[l])' = Resolution("receiving", Says[l], t)'
      BY <3>1, <3>2
    <3> QED BY <1>1, <1>3, <2>1, <2>3, <3>1, <3>2, <3>3, <3>4
  <2> QED BY <2>2, <2>3
<1> QED BY <1>2, <1>4, <1>6, <1>7 DEF PolicyInv

LEMMA NextArrive == ASSUME PolicyInv, NEW l \in CountedLines, Arrive(l) PROVE PolicyInv'
<1> DEFINE r == Resolution("receiving", Says[l], readAt[l])
<1>1. /\ clock' = clock /\ UNCHANGED policy /\ moved' = moved /\ readAt' = readAt
      /\ shown' = shown /\ answered' = answered /\ golden' = golden /\ l \in Waiting
      /\ disposed' = [disposed EXCEPT ![l] = Decided(r, Says[l])]
  BY DEF Arrive
<1> HIDE DEF r
<1>2. PolicyTypes'
  BY <1>1 DEF PolicyInv, PolicyTypes, policy
<1>3. clock \in Nat /\ clock <= clock'
  BY <1>1 DEF PolicyInv, PolicyTypes
<1>4. OneInForce' /\ PastAnswersStand'
  BY <1>1, <1>2, <1>3, StaysKept
<1>5. /\ disposed[l] = Undecided /\ readAt[l] >= 0
      /\ disposed'[l] = Decided(r, Says[l])
      /\ \A q \in CountedLines : q # l => disposed'[q] = disposed[q]
  BY <1>1 DEF Waiting, PolicyInv, PolicyTypes
<1>6. l \notin moved => shown[l] = r
  BY <1>1 DEF PolicyInv, LinesKept, r
<1>7. LinesAsShown'
  <2>1. ASSUME l \notin moved
        PROVE  /\ disposed'[l].winner = shown[l].winner /\ disposed'[l].from = shown[l].from
               /\ disposed'[l].raised = "lot_missing" => shown[l].values.require_lot = 1
    BY <1>5, <1>6, <2>1 DEF Decided, Raises
  <2> QED BY <1>1, <1>5, <2>1 DEF PolicyInv, LinesAsShown
<1>8. RetriesAlike'
  <2>1. answered[l] = {}
    BY <1>5 DEF PolicyInv, LinesKept
  <2> QED BY <1>1, <1>5, <2>1 DEF PolicyInv, RetriesAlike
<1>9. LinesKept'
  <2> SUFFICES ASSUME NEW q \in CountedLines
               PROVE  /\ readAt'[q] <= clock'
                      /\ readAt'[q] = -1 => disposed'[q] = Undecided
                      /\ disposed'[q] = Undecided => answered'[q] = {}
                      /\ q \in Waiting' \ moved' =>
                             shown'[q] = Resolution("receiving", Says[q], readAt[q])'
    BY DEF LinesKept
  <2>1. disposed'[q] = Undecided => answered'[q] = {}
    BY <1>1, <1>5 DEF PolicyInv, LinesKept
  <2>2. CASE q # l
    <3>1. readAt'[q] = readAt[q] /\ shown'[q] = shown[q] /\ disposed'[q] = disposed[q]
      BY <1>1, <1>5, <2>2
    <3> QED BY <1>1, <1>2, <1>3, <2>1, <3>1, LineKept
  <2>3. CASE q = l
    <3>1. readAt[l] <= clock /\ readAt[l] # -1
      BY <1>5 DEF PolicyInv, LinesKept
    <3>2. ASSUME l \in Waiting' \ moved'
          PROVE  shown'[l] = Resolution("receiving", Says[l], readAt[l])'
      <4>1. PICK t \in Nat : t = readAt[l]
        BY <1>5 DEF PolicyInv, PolicyTypes
      <4>2. Resolution("receiving", Says[l], t)' = Resolution("receiving", Says[l], t)
        BY <1>1, <1>2, <1>3, StaysKept
      <4>3. Resolution("receiving", Says[l], readAt[l])' = Resolution("receiving", Says[l], t)'
        BY <1>1, <4>1
      <4>4. shown[l] = Resolution("receiving", Says[l], t)
        BY <1>1, <1>6, <3>2, <4>1 DEF r
      <4> QED BY <1>1, <4>2, <4>3, <4>4
    <3> QED BY <1>1, <2>1, <2>3, <3>1, <3>2
  <2> QED BY <2>2, <2>3
<1> QED BY <1>2, <1>4, <1>7, <1>8, <1>9 DEF PolicyInv

LEMMA NextResend == ASSUME PolicyInv, NEW l \in CountedLines, Resend(l) PROVE PolicyInv'
<1>1. /\ clock' = clock /\ UNCHANGED policy /\ moved' = moved /\ readAt' = readAt
      /\ shown' = shown /\ disposed' = disposed /\ golden' = golden
      /\ disposed[l] # Undecided
      /\ answered' = [answered EXCEPT ![l] = @ \cup {disposed[l]}]
  BY DEF Resend
<1>2. PolicyTypes'
  BY <1>1 DEF PolicyInv, PolicyTypes, policy
<1>3. clock \in Nat /\ clock <= clock'
  BY <1>1 DEF PolicyInv, PolicyTypes
<1>4. OneInForce' /\ PastAnswersStand'
  BY <1>1, <1>2, <1>3, StaysKept
<1>5. LinesAsShown' /\ RetriesAlike'
  BY <1>1 DEF PolicyInv, PolicyTypes, LinesAsShown, RetriesAlike
<1>6. \A q \in CountedLines : disposed'[q] = Undecided => answered'[q] = {}
  BY <1>1 DEF PolicyInv, PolicyTypes, LinesKept
<1>7. LinesKept'
  BY <1>1, <1>2, <1>3, <1>6, LineKept DEF LinesKept
<1> QED BY <1>2, <1>4, <1>5, <1>7 DEF PolicyInv

LEMMA NextTick == ASSUME PolicyInv, Tick PROVE PolicyInv'
<1>1. /\ clock < Horizon /\ clock' = clock + 1 /\ UNCHANGED <<policy, moved>>
      /\ UNCHANGED <<readAt, shown, disposed, answered>>
      /\ golden' = golden \cup {[case |-> c, at |-> clock, answer |-> Resolution(c.kind, c, clock)] : c \in Cases}
  BY DEF Tick, dock
<1>2. clock \in Nat /\ clock <= clock' /\ clock' \in 0..Horizon
  BY <1>1, PolicyAssumption DEF PolicyInv, PolicyTypes
<1>3. PolicyTypes'
  <2>1. \A g \in golden' : g.case \in Cases /\ g.at \in Nat /\ g.at < clock'
    BY <1>1, <1>2 DEF PolicyInv, PolicyTypes
  <2> QED BY <1>1, <1>2, <2>1 DEF PolicyInv, PolicyTypes, policy
<1>4. OneInForce'
  BY <1>1, <1>2, <1>3, StaysKept
<1>5. LinesKept'
  BY <1>1, <1>2, <1>3, LineKept DEF PolicyInv, LinesKept
<1>6. PastAnswersStand'
  <2> SUFFICES ASSUME NEW g \in golden'
               PROVE  g.answer = Resolution(g.case.kind, g.case, g.at)'
    BY DEF PastAnswersStand
  <2>1. g.answer = Resolution(g.case.kind, g.case, g.at) /\ g.case \in Cases /\ g.at \in Nat
    BY <1>1, <1>2 DEF PolicyInv, PolicyTypes, PastAnswersStand
  <2>2. Resolution(g.case.kind, g.case, g.at)' = Resolution(g.case.kind, g.case, g.at)
    BY <1>1, <1>3, <1>4, <2>1, Unchanged, Receives DEF PolicyInv
  <2> QED BY <2>1, <2>2
<1>7. LinesAsShown' /\ RetriesAlike'
  BY <1>1 DEF PolicyInv, LinesAsShown, RetriesAlike
<1> QED BY <1>3, <1>4, <1>5, <1>6, <1>7 DEF PolicyInv

LEMMA PolicyStarts == PolicyInit => PolicyInv
<1> SUFFICES ASSUME PolicyInit PROVE PolicyInv
  OBVIOUS
<1>1. PolicyTypes
  BY PolicyAssumption DEF PolicyInit, PolicyTypes
<1>2. \A v \in versions :
          \E b \in FirstBound : v = [of |-> b, from |-> 0, till |-> Horizon + 1, states |-> FirstStates[b]]
  BY DEF PolicyInit
<1>3. \A v \in versions : IsVersion(v)
  BY <1>2, PolicyAssumption DEF PolicyInit, IsVersion
<1>4. \A u, v \in versions : u.of = v.of => u = v
  BY <1>2
<1>5. LinesKept
  BY PolicyAssumption DEF PolicyInit, LinesKept, Waiting
<1> QED BY <1>1, <1>3, <1>4, <1>5 DEF PolicyInv, PolicyInit, OneInForce, LinesAsShown, RetriesAlike,
                                      PastAnswersStand

LEMMA PolicyNextKeeps == PolicyInv /\ [PolicyNext]_pvars => PolicyInv'
<1> SUFFICES ASSUME PolicyInv, [PolicyNext]_pvars PROVE PolicyInv'
  OBVIOUS
<1>1. CASE PolicyNext
  BY <1>1, NextEdit, NextCount, NextArrive, NextResend, NextTick DEF PolicyNext
<1>2. CASE UNCHANGED pvars
  <2>1. /\ UNCHANGED policy /\ clock' = clock /\ UNCHANGED <<readAt, shown, moved, disposed, answered, golden>>
    BY <1>2 DEF pvars, dock
  <2>2. PolicyTypes'
    BY <2>1 DEF PolicyInv, PolicyTypes, policy
  <2>3. clock \in Nat /\ clock <= clock'
    BY <2>1 DEF PolicyInv, PolicyTypes
  <2>4. LinesKept'
    BY <2>1, <2>2, <2>3, LineKept DEF PolicyInv, LinesKept
  <2> QED BY <2>1, <2>2, <2>3, <2>4, StaysKept DEF PolicyInv, LinesAsShown, RetriesAlike
<1> QED BY <1>1, <1>2

\* Goods are judged by the rules of the moment they were counted, whatever is configured
\* afterwards and however often the line is sent, and by no looser rule than any that
\* matched: policy_candidate, resolve and apply_clamps, as of the instant.
THEOREM GovernedAsItHappenedHolds == PolicySpec => []GovernedAsItHappened
<1>1. PolicyInv => GovernedAsItHappened
  <2> SUFFICES ASSUME PolicyInv, NEW g \in golden
               PROVE  NeverLooser(g.case.kind, Candidates(g.case.kind, g.case, g.at), g.answer, g.at)
    BY DEF PolicyInv, GovernedAsItHappened
  <2>1. g.case.kind \in Kinds /\ g.at \in Nat
    BY Receives DEF PolicyInv, PolicyTypes
  <2>2. g.answer = Resolution(g.case.kind, g.case, g.at)
    BY DEF PolicyInv, PastAnswersStand
  <2> QED BY <2>1, <2>2, AnswersNeverLooser DEF PolicyInv
<1> QED BY <1>1, PolicyStarts, PolicyNextKeeps, PTL DEF PolicySpec
====
