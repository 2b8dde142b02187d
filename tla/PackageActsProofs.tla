--------------------------- MODULE PackageActsProofs ---------------------------
(***************************************************************************)
(* What the act envelope guarantees for any requests and acts.  The         *)
(* inductive invariant says who holds an act (HolderShape), that a request  *)
(* that is not answered has written nothing (Unanswered), that an act owns  *)
(* all of its rows or none (WholeActs) and that a success was told them     *)
(* (OneAnswer).  What the projections hold plays no part in it.             *)
(***************************************************************************)
EXTENDS PackageActs, TLAPS

USE RequestsAssumption, MintedAssumption
USE DEF RequestsAssumption, MintedAssumption

Rows(a) == EventsOf(a) \cup MovementsOf(a)

\* The part of TypeOK the argument needs.
Types ==
    /\ pc \in [Requests -> {"new", "checked", "claimed", "ended"}]
    /\ holder \in [Acts -> Requests \cup {NoOne}]
    /\ envelopes \subseteq Acts
    /\ events \subseteq Requests
    /\ movements \subseteq Requests
    /\ outcome \in [Requests -> {"none", "ok", "refused", "failed"}]
    /\ told \in [Requests -> Requests \cup {NoOne}]

HolderShape ==
    /\ \A a \in Acts : holder[a] # NoOne =>
           pc[holder[a]] = "claimed" /\ ActOf[holder[a]] = a
    /\ \A r \in Requests : pc[r] = "claimed" =>
           holder[ActOf[r]] = r /\ ActOf[r] \notin envelopes

Unanswered ==
    \A r \in Requests : pc[r] # "ended" =>
        /\ outcome[r] = "none"
        /\ told[r] = NoOne
        /\ r \notin events \cup movements

IInv == Types /\ HolderShape /\ Unanswered /\ WholeActs /\ OneAnswer

------------------------------------------------------------------------------
\* Nothing is recorded and nobody is answered at the start.
LEMMA InitIInv == Init => IInv
BY DEF Init, IInv, Types, HolderShape, Unanswered, WholeActs, OneAnswer, EventsOf,
       MovementsOf

\* The ending of a request touches only that request and the acts it held.
LEMMA EndTypes ==
    ASSUME Types, NEW r \in Requests,
           NEW how \in {"ok", "refused", "failed"}, End(r, how)
    PROVE  /\ pc' \in [Requests -> {"new", "checked", "claimed", "ended"}]
           /\ holder' \in [Acts -> Requests \cup {NoOne}]
           /\ outcome' \in [Requests -> {"none", "ok", "refused", "failed"}]
BY DEF Types, End

\* When the request that ends leaves the envelopes alone, the holders keep their
\* shape: it lets go of every act it held.
LEMMA EndHolder ==
    ASSUME Types, HolderShape, NEW r \in Requests, NEW how, End(r, how),
           envelopes' = envelopes
    PROVE  HolderShape'
BY DEF Types, HolderShape, End

------------------------------------------------------------------------------
\* The ranges hold after every step of every handler.
LEMMA NextTypes == IInv /\ [Next]_vars => Types'
<1> SUFFICES ASSUME IInv, [Next]_vars PROVE Types'
  OBVIOUS
<1>0. Types
  BY DEF IInv
<1>1. ASSUME NEW r \in Requests, Check(r) PROVE Types'
  <2>1. CASE Refused(r)
    <3>1. End(r, "refused") /\ UNCHANGED <<told, facts>>
      BY <1>1, <2>1 DEF Check
    <3> QED BY <1>0, <3>1, EndTypes DEF Types, facts
  <2>2. CASE ~Refused(r)
    BY <1>0, <1>1, <2>2 DEF Check, Types, facts, answers
  <2> QED BY <2>1, <2>2
<1>2. ASSUME NEW r \in Requests, Claim(r) PROVE Types'
  BY <1>0, <1>2 DEF Claim, Types, facts, answers
<1>3. ASSUME NEW r \in Requests, Record(r) PROVE Types'
  <2>1. End(r, "ok")
    BY <1>3 DEF Record
  <2>2. envelopes' \subseteq Acts /\ told' \in [Requests -> Requests \cup {NoOne}]
    BY <1>0, <1>3 DEF Record, Types
  <2>3. events' \subseteq Requests /\ movements' \subseteq Requests
    BY <1>0, <1>3 DEF Record, Types
  <2> QED BY <1>0, <2>1, <2>2, <2>3, EndTypes DEF Types
<1>4. ASSUME NEW r \in Requests, Replay(r) PROVE Types'
  <2>1. End(r, "ok") \/ End(r, "refused")
    BY <1>4 DEF Replay
  <2>2. told' \in [Requests -> Requests \cup {NoOne}]
    BY <1>0, <1>4 DEF Replay, Types
  <2>3. UNCHANGED facts
    BY <1>4 DEF Replay
  <2> QED BY <1>0, <2>1, <2>2, <2>3, EndTypes DEF Types, facts
<1>5. ASSUME NEW r \in Requests, Abort(r) PROVE Types'
  <2>1. End(r, "failed") /\ UNCHANGED <<facts, told>>
    BY <1>5 DEF Abort
  <2> QED BY <1>0, <2>1, EndTypes DEF Types, facts
<1>6. CASE Drain
  BY <1>0, <1>6 DEF Drain, Types, facts, answers
<1>7. CASE UNCHANGED vars
  BY <1>0, <1>7 DEF vars, Types, facts, answers
<1> QED BY <1>1, <1>2, <1>3, <1>4, <1>5, <1>6, <1>7 DEF Next, Serve

\* One transaction at a time holds an act, and only an act with no envelope.
LEMMA NextHolder == IInv /\ [Next]_vars => HolderShape'
<1> SUFFICES ASSUME IInv, [Next]_vars PROVE HolderShape'
  OBVIOUS
<1>0. Types /\ HolderShape
  BY DEF IInv
<1>1. ASSUME NEW r \in Requests, Check(r) PROVE HolderShape'
  <2>1. CASE Refused(r)
    <3>1. End(r, "refused") /\ envelopes' = envelopes
      BY <1>1, <2>1 DEF Check, facts
    <3> QED BY <1>0, <3>1, EndHolder
  <2>2. CASE ~Refused(r)
    BY <1>0, <1>1, <2>2 DEF Check, Types, HolderShape, facts
  <2> QED BY <2>1, <2>2
<1>2. ASSUME NEW r \in Requests, Claim(r) PROVE HolderShape'
  BY <1>0, <1>2 DEF Claim, Types, HolderShape, facts
<1>3. ASSUME NEW r \in Requests, Record(r) PROVE HolderShape'
  BY <1>0, <1>3 DEF Record, End, Types, HolderShape
<1>4. ASSUME NEW r \in Requests, Replay(r) PROVE HolderShape'
  <2>1. \E how : End(r, how)
    BY <1>4 DEF Replay
  <2>2. envelopes' = envelopes
    BY <1>4 DEF Replay, facts
  <2> QED BY <1>0, <2>1, <2>2, EndHolder
<1>5. ASSUME NEW r \in Requests, Abort(r) PROVE HolderShape'
  <2>1. End(r, "failed") /\ envelopes' = envelopes
    BY <1>5 DEF Abort, facts
  <2> QED BY <1>0, <2>1, EndHolder
<1>6. CASE Drain
  BY <1>0, <1>6 DEF Drain, HolderShape, facts
<1>7. CASE UNCHANGED vars
  BY <1>0, <1>7 DEF vars, HolderShape, facts
<1> QED BY <1>1, <1>2, <1>3, <1>4, <1>5, <1>6, <1>7 DEF Next, Serve

\* A request writes its rows in the step that answers it, and not before.
LEMMA NextUnanswered == IInv /\ [Next]_vars => Unanswered'
<1> SUFFICES ASSUME IInv, [Next]_vars PROVE Unanswered'
  OBVIOUS
<1>0. Types /\ Unanswered
  BY DEF IInv
<1>1. ASSUME NEW r \in Requests, Check(r) PROVE Unanswered'
  BY <1>0, <1>1 DEF Check, End, Types, Unanswered, facts, answers
<1>2. ASSUME NEW r \in Requests, Claim(r) PROVE Unanswered'
  BY <1>0, <1>2 DEF Claim, Types, Unanswered, facts, answers
<1>3. ASSUME NEW r \in Requests, Record(r) PROVE Unanswered'
  BY <1>0, <1>3 DEF Record, End, Types, Unanswered
<1>4. ASSUME NEW r \in Requests, Replay(r) PROVE Unanswered'
  BY <1>0, <1>4 DEF Replay, End, Types, Unanswered, facts
<1>5. ASSUME NEW r \in Requests, Abort(r) PROVE Unanswered'
  BY <1>0, <1>5 DEF Abort, End, Types, Unanswered, facts
<1>6. CASE Drain
  BY <1>0, <1>6 DEF Drain, Unanswered, facts, answers
<1>7. CASE UNCHANGED vars
  BY <1>0, <1>7 DEF vars, Unanswered, facts, answers
<1> QED BY <1>1, <1>2, <1>3, <1>4, <1>5, <1>6, <1>7 DEF Next, Serve

------------------------------------------------------------------------------
\* A step that leaves the facts alone leaves every act whole.
LEMMA SameFacts ==
    ASSUME WholeActs, UNCHANGED facts
    PROVE  WholeActs'
BY DEF WholeActs, EventsOf, MovementsOf, facts

\* Only Record writes rows, so every other step is settled by SameFacts.
LEMMA NextFacts ==
    ASSUME [Next]_vars
    PROVE  UNCHANGED facts \/ \E r \in Requests : Record(r)
BY DEF Next, Serve, vars, Check, Claim, Replay, Abort, Drain

\* What Record does to the rows of its act, which had none, and of the others.
LEMMA RecordRows ==
    ASSUME Types, HolderShape, WholeActs, NEW r \in Requests, Record(r)
    PROVE  /\ Rows(ActOf[r]) = {}
           /\ Rows(ActOf[r])' = {r}
           /\ \A a \in Acts \ {ActOf[r]} : Rows(a)' = Rows(a)
<1>1. ActOf[r] \in Acts \ envelopes
  BY DEF HolderShape, Record
<1>2. Rows(ActOf[r]) = {}
  BY <1>1 DEF WholeActs, Rows
<1>3. Kind[r] \in EventKinds \/ Kind[r] \in MovementKinds
  BY DEF EventKinds, MovementKinds
<1>4. /\ events' = IF Kind[r] \in EventKinds THEN events \cup {r} ELSE events
      /\ movements' = IF Kind[r] \in MovementKinds THEN movements \cup {r} ELSE movements
  BY DEF Record
<1>5. Rows(ActOf[r])' = {r}
  BY <1>2, <1>3, <1>4 DEF Rows, EventsOf, MovementsOf
<1>6. \A a \in Acts \ {ActOf[r]} : Rows(a)' = Rows(a)
  BY <1>4 DEF Rows, EventsOf, MovementsOf
<1> QED BY <1>2, <1>5, <1>6

\* An act is whole after every step.
LEMMA NextWhole == IInv /\ [Next]_vars => WholeActs'
<1> SUFFICES ASSUME IInv, [Next]_vars PROVE WholeActs'
  OBVIOUS
<1>0. Types /\ HolderShape /\ Unanswered /\ WholeActs
  BY DEF IInv
<1>1. CASE UNCHANGED facts
  BY <1>0, <1>1, SameFacts
<1>2. ASSUME NEW r \in Requests, Record(r) PROVE WholeActs'
  <2>1. /\ Rows(ActOf[r])' = {r}
        /\ \A a \in Acts \ {ActOf[r]} : Rows(a)' = Rows(a)
    BY <1>0, <1>2, RecordRows
  <2>2. envelopes' = envelopes \cup {ActOf[r]}
    BY <1>2 DEF Record
  <2>3. r \notin events \cup movements
    BY <1>0, <1>2 DEF Unanswered, Record
  <2>4. /\ events' = IF Kind[r] \in EventKinds THEN events \cup {r} ELSE events
        /\ movements' = IF Kind[r] \in MovementKinds THEN movements \cup {r}
                                                      ELSE movements
    BY <1>2 DEF Record
  <2> SUFFICES ASSUME NEW a \in Acts
               PROVE  IF a \in envelopes'
                      THEN \E q \in Requests :
                              /\ Rows(a)' = {q}
                              /\ q \in events' <=> Kind[q] \in EventKinds
                              /\ q \in movements' <=> Kind[q] \in MovementKinds
                      ELSE Rows(a)' = {}
    BY DEF WholeActs, Rows, EventsOf, MovementsOf
  <2>5. CASE a = ActOf[r]
    BY <2>1, <2>2, <2>3, <2>4, <2>5
  <2>6. CASE a # ActOf[r] /\ a \notin envelopes
    BY <1>0, <2>1, <2>2, <2>6 DEF WholeActs, Rows
  <2>7. CASE a # ActOf[r] /\ a \in envelopes
    <3>1. PICK q \in Requests : /\ Rows(a) = {q}
                                /\ q \in events <=> Kind[q] \in EventKinds
                                /\ q \in movements <=> Kind[q] \in MovementKinds
      BY <1>0, <2>7 DEF WholeActs, Rows
    <3>2. ActOf[q] = a
      BY <3>1 DEF Rows, EventsOf, MovementsOf
    <3>3. q # r
      BY <3>2, <2>7
    <3>4. Rows(a)' = {q} /\ a \in envelopes'
      BY <2>1, <2>2, <2>7, <3>1
    <3>5. (q \in events' <=> q \in events) /\ (q \in movements' <=> q \in movements)
      BY <2>4, <3>3
    <3> QED BY <3>1, <3>4, <3>5
  <2> QED BY <2>5, <2>6, <2>7
<1> QED BY <1>1, <1>2, NextFacts

------------------------------------------------------------------------------
\* The row a replay finds is a row of its act and asks for the same thing: a pick
\* and a despatch never carry the same act, so the movement a replayed pick finds
\* is a pick.
LEMMA PriorSays ==
    ASSUME Types, NEW p \in Requests, NEW r \in Requests, Prior(p, r), WholeActs
    PROVE  /\ p \in events \cup movements
           /\ ActOf[p] = ActOf[r] /\ Kind[p] = Kind[r]
           /\ Kind[r] \in MovementKinds => Units[p] = Units[r]
           /\ Rows(ActOf[r]) = {p}
<1>0. Kind[r] \in Kinds /\ Kind[p] \in Kinds /\ ActOf[r] \in Acts
  OBVIOUS
<1>1. CASE Kind[r] = "picked"
  <2>1. p \in movements /\ ActOf[p] = ActOf[r] /\ Units[p] = Units[r]
    BY <1>1 DEF Prior, MovementsOf
  <2>2. p \in Rows(ActOf[r])
    BY <2>1 DEF Rows, MovementsOf, Types
  <2>3. PICK q \in Requests : Rows(ActOf[r]) = {q} /\ (q \in movements <=> Kind[q] \in MovementKinds)
    BY <1>0, <2>2 DEF WholeActs, Rows
  <2>4. Kind[p] \in MovementKinds /\ Rows(ActOf[r]) = {p}
    BY <2>1, <2>2, <2>3
  <2>5. Kind[p] # "despatched"
    BY <1>1, <2>1
  <2> QED BY <1>1, <2>1, <2>4, <2>5 DEF MovementKinds
<1>2. CASE Kind[r] = "despatched"
  BY <1>2 DEF Prior, MovementsOf, EventsOf, Rows
<1>3. CASE Kind[r] \notin {"picked", "despatched"}
  <2>1. EventsOf(ActOf[r]) = {p} /\ Kind[p] = Kind[r]
    BY <1>3 DEF Prior
  <2>2. p \in events /\ ActOf[p] = ActOf[r] /\ p \in Rows(ActOf[r])
    BY <2>1 DEF EventsOf, Rows
  <2>3. Rows(ActOf[r]) = {p}
    BY <1>0, <2>2 DEF WholeActs, Rows
  <2> QED BY <1>3, <2>1, <2>2, <2>3 DEF MovementKinds
<1> QED BY <1>1, <1>2, <1>3

\* A success is told rows of its act after every step: rows are never removed,
\* and the one new success is told its own rows or the ones a replay found.
LEMMA NextAnswer == IInv /\ [Next]_vars => OneAnswer'
<1> SUFFICES ASSUME IInv, [Next]_vars PROVE OneAnswer'
  OBVIOUS
<1>0. Types /\ Unanswered /\ WholeActs /\ OneAnswer
  BY DEF IInv
<1>1. ASSUME NEW r \in Requests, Check(r) PROVE OneAnswer'
  BY <1>0, <1>1 DEF Check, End, Types, OneAnswer, facts, answers
<1>2. ASSUME NEW r \in Requests, Claim(r) PROVE OneAnswer'
  BY <1>0, <1>2 DEF Claim, OneAnswer, facts, answers
<1>3. ASSUME NEW r \in Requests, Record(r) PROVE OneAnswer'
  <2>1. r \in events' \cup movements'
    BY <1>3 DEF Record, EventKinds, MovementKinds, Kinds
  <2>2. events \cup movements \subseteq events' \cup movements'
    BY <1>3 DEF Record
  <2>3. told' = [told EXCEPT ![r] = r] /\ outcome' = [outcome EXCEPT ![r] = "ok"]
    BY <1>3 DEF Record, End
  <2> QED BY <1>0, <2>1, <2>2, <2>3 DEF OneAnswer, Types
<1>4. ASSUME NEW r \in Requests, Replay(r) PROVE OneAnswer'
  <2>1. UNCHANGED <<events, movements>>
    BY <1>4 DEF Replay, facts
  <2>2. ASSUME NEW p \in Requests, Prior(p, r), told' = [told EXCEPT ![r] = p],
               End(r, "ok")
        PROVE  OneAnswer'
    <3>1. outcome' = [outcome EXCEPT ![r] = "ok"]
      BY <2>2 DEF End
    <3>2. /\ p \in events \cup movements
          /\ ActOf[p] = ActOf[r] /\ Kind[p] = Kind[r]
          /\ Kind[r] \in MovementKinds => Units[p] = Units[r]
      BY <1>0, <2>2, PriorSays
    <3> QED BY <1>0, <2>1, <2>2, <3>1, <3>2 DEF OneAnswer, Types
  <2>3. CASE told' = told /\ End(r, "refused")
    BY <1>0, <2>1, <2>3 DEF OneAnswer, Types, End
  <2> QED BY <1>4, <2>2, <2>3 DEF Replay
<1>5. ASSUME NEW r \in Requests, Abort(r) PROVE OneAnswer'
  BY <1>0, <1>5 DEF Abort, End, Types, OneAnswer, facts
<1>6. CASE Drain
  BY <1>0, <1>6 DEF Drain, OneAnswer, facts, answers
<1>7. CASE UNCHANGED vars
  BY <1>0, <1>7 DEF vars, OneAnswer, facts, answers
<1> QED BY <1>1, <1>2, <1>3, <1>4, <1>5, <1>6, <1>7 DEF Next, Serve

LEMMA NextIInv == IInv /\ [Next]_vars => IInv'
BY NextTypes, NextHolder, NextUnanswered, NextWhole, NextAnswer DEF IInv

LEMMA Inductive == Spec => []IInv
BY InitIInv, NextIInv, PTL DEF Spec

------------------------------------------------------------------------------
\* An act owns exactly the rows one request writes or none at all, whatever
\* copies of it arrive together and whichever of them roll back: claim_act and
\* the one transaction of each handler.
THEOREM ActsAreWhole == Spec => []WholeActs
<1>1. IInv => WholeActs
  BY DEF IInv
<1> QED BY <1>1, Inductive, PTL

\* Every success is told rows of its own act that say what it asked for:
\* require_one_movement, require_one_package_event, require_despatch_facts.
THEOREM SuccessTellsTheRecord == Spec => []OneAnswer
<1>1. IInv => OneAnswer
  BY DEF IInv
<1> QED BY <1>1, Inductive, PTL

------------------------------------------------------------------------------
\* One row is owned by its request, no row by nobody.
LEMMA OwnerOfRow ==
    /\ \A r : OwnerOf({r}) = r
    /\ OwnerOf({}) = NoOne
BY DEF OwnerOf

\* No facts, no news for the log.
LEMMA SameLog ==
    ASSUME UNCHANGED facts
    PROVE  LogNow' = LogNow
BY DEF LogNow, OwnerOf, EventsOf, MovementsOf, facts

\* The log changes at the act that is recorded and nowhere else.
LEMMA RecordLog ==
    ASSUME IInv, NEW r \in Requests, Record(r)
    PROVE  /\ LogNow[ActOf[r]] = NoOne
           /\ LogNow' = [LogNow EXCEPT ![ActOf[r]] = r]
<1>1. /\ Rows(ActOf[r]) = {}
      /\ Rows(ActOf[r])' = {r}
      /\ \A a \in Acts \ {ActOf[r]} : Rows(a)' = Rows(a)
  BY RecordRows DEF IInv
<1>2. LogNow[ActOf[r]] = NoOne
  BY <1>1, OwnerOfRow DEF LogNow, Rows
<1>3. LogNow'[ActOf[r]] = r
  <2>1. LogNow'[ActOf[r]] = OwnerOf(Rows(ActOf[r])')
    BY DEF LogNow, Rows, OwnerOf
  <2> QED BY <1>1, <2>1, OwnerOfRow
<1>4. \A a \in Acts \ {ActOf[r]} : LogNow'[a] = LogNow[a]
  BY <1>1 DEF LogNow, Rows
<1>5. /\ LogNow = [a \in Acts |-> LogNow[a]]
      /\ LogNow' = [a \in Acts |-> LogNow'[a]]
  BY DEF LogNow
<1> QED BY <1>2, <1>3, <1>4, <1>5

\* A request that ends without an answer is turned down; the log does not move.
LEMMA EndTurnsDown ==
    ASSUME IInv, NEW r \in Requests, pc[r] # "ended", UNCHANGED <<facts, told>>,
           NEW how \in {"refused", "failed"}, End(r, how)
    PROVE  Log!ATurnDown(r)
<1>1. outcome[r] = "none"
  BY DEF IInv, Unanswered
<1>2. LogNow' = LogNow
  BY SameLog
<1> QED BY <1>1, <1>2 DEF Log!ATurnDown, End

\* Each action is a step of the log, or one it does not see.
LEMMA NextLog == IInv /\ [Next]_vars => [Log!ANext]_(Log!avars)
<1> SUFFICES ASSUME IInv, [Next]_vars PROVE [Log!ANext]_(Log!avars)
  OBVIOUS
<1>0. Types /\ Unanswered /\ WholeActs
  BY DEF IInv
<1>1. ASSUME NEW r \in Requests, Check(r) PROVE [Log!ANext]_(Log!avars)
  <2>1. CASE Refused(r)
    <3>1. Log!ATurnDown(r)
      BY <1>1, <2>1, EndTurnsDown DEF Check
    <3> QED BY <3>1 DEF Log!ANext
  <2>2. CASE ~Refused(r)
    <3>1. UNCHANGED <<facts, answers>>
      BY <1>1, <2>2 DEF Check
    <3> QED BY <3>1, SameLog DEF answers, Log!avars
  <2> QED BY <2>1, <2>2
<1>2. ASSUME NEW r \in Requests, Claim(r) PROVE [Log!ANext]_(Log!avars)
  BY <1>2, SameLog DEF Claim, answers, Log!avars
<1>3. ASSUME NEW r \in Requests, Record(r) PROVE [Log!ANext]_(Log!avars)
  <2>1. outcome[r] = "none"
    BY <1>0, <1>3 DEF Record, Unanswered
  <2>2. told' = [told EXCEPT ![r] = r] /\ outcome' = [outcome EXCEPT ![r] = "ok"]
    BY <1>3 DEF Record, End
  <2>3. Log!ARecord(r)
    BY <1>3, <2>1, <2>2, RecordLog DEF Log!ARecord
  <2> QED BY <2>3 DEF Log!ANext
<1>4. ASSUME NEW r \in Requests, Replay(r) PROVE [Log!ANext]_(Log!avars)
  <2>1. UNCHANGED facts /\ LogNow' = LogNow /\ outcome[r] = "none"
    BY <1>0, <1>4, SameLog DEF Replay, Unanswered
  <2>2. ASSUME NEW p \in Requests, Prior(p, r), told' = [told EXCEPT ![r] = p],
               End(r, "ok")
        PROVE  Log!AReplay(r)
    <3>1. LogNow[ActOf[r]] = p
      <4>1. Rows(ActOf[r]) = {p} /\ ActOf[r] \in Acts
        BY <1>0, <2>2, PriorSays
      <4> QED BY <4>1, OwnerOfRow DEF LogNow, Rows
    <3>2. outcome' = [outcome EXCEPT ![r] = "ok"] /\ p # NoOne
      BY <2>2 DEF End
    <3> QED BY <2>1, <2>2, <3>1, <3>2 DEF Log!AReplay
  <2>3. CASE told' = told /\ End(r, "refused")
    <3>1. Log!ATurnDown(r)
      BY <1>4, <2>1, <2>3, EndTurnsDown DEF Replay
    <3> QED BY <3>1 DEF Log!ANext
  <2> QED BY <1>4, <2>2, <2>3 DEF Replay, Log!ANext
<1>5. ASSUME NEW r \in Requests, Abort(r) PROVE [Log!ANext]_(Log!avars)
  <2>1. Log!ATurnDown(r)
    BY <1>5, EndTurnsDown DEF Abort
  <2> QED BY <2>1 DEF Log!ANext
<1>6. CASE Drain
  BY <1>6, SameLog DEF Drain, answers, Log!avars
<1>7. CASE UNCHANGED vars
  BY <1>7, SameLog DEF vars, answers, Log!avars
<1> QED BY <1>1, <1>2, <1>3, <1>4, <1>5, <1>6, <1>7 DEF Next, Serve

\* The handlers implement the act log: however requests interleave, wait for one
\* another's envelopes, fail and are sent again, an act is recorded at most once
\* and every success is told that record.
THEOREM HandlersImplementActLog == Spec => ImplementsActLog
<1>1. Init => Log!AInit
  BY OwnerOfRow DEF Init, Log!AInit, LogNow, EventsOf, MovementsOf
<1>2. IInv /\ [Next]_vars => [Log!ANext]_(Log!avars)
  BY NextLog
<1> QED BY <1>1, <1>2, Inductive, PTL DEF Spec, ImplementsActLog, Log!ASpec
------------------------------------------------------------------------------
(* What two readers of a package take for its state, and what a void leaves in it *)

\* A void that is under way read a package with no units in it, and units that moved
\* since have told.
EmptyAsRead ==
    \A v \in Requests :
        Kind[v] = "voided" /\ pc[v] \in {"checked", "claimed"} /\ v \notin overtaken =>
            HeldAll = 0

AgreeInv == Types /\ EmptyAsRead /\ PackageAgrees /\ sealedAt \in BOOLEAN

Sealings == {e \in events : Kind[e] \in {"sealed", "opened"}}

LEMMA InitAgree == Init => AgreeInv
BY DEF Init, AgreeInv, Types, EmptyAsRead, PackageAgrees, SealedAtAgrees, VoidStrandsNothing

\* Where no row is written, the package reads as it did, and only a request that
\* checks becomes one under way.
LEMMA AgreeKept ==
    ASSUME AgreeInv, UNCHANGED <<facts, late, overtaken, stranded>>,
           \A v \in Requests : pc'[v] \in {"checked", "claimed"} =>
               \/ pc[v] \in {"checked", "claimed"}
               \/ Kind[v] = "voided" => HeldAll = 0
    PROVE  EmptyAsRead' /\ PackageAgrees' /\ (sealedAt \in BOOLEAN)'
<1>1. HeldAll' = HeldAll
  BY DEF HeldAll, facts
<1>2. EmptyAsRead'
  BY <1>1 DEF AgreeInv, EmptyAsRead
<1>3. SealedAtAgrees' /\ (sealedAt \in BOOLEAN)'
  BY DEF AgreeInv, PackageAgrees, SealedAtAgrees, facts, Newest
<1>4. VoidStrandsNothing'
  BY DEF AgreeInv, PackageAgrees, VoidStrandsNothing
<1> QED BY <1>2, <1>3, <1>4 DEF PackageAgrees

\* A request that ends is no longer under way, and no other becomes so.
LEMMA EndPc ==
    ASSUME Types, NEW r \in Requests, NEW how, End(r, how)
    PROVE  \A v \in Requests : pc'[v] \in {"checked", "claimed"} =>
               pc[v] \in {"checked", "claimed"}
BY DEF Types, End

\* A seal or an opening that is recorded after every other that occurred before it is
\* the newest of them, and the one sealed_at says.
LEMMA RecordSeals ==
    ASSUME AgreeInv, NEW r \in Requests, Record(r) PROVE SealedAtAgrees'
<1> SUFFICES ASSUME ~late'
             PROVE  sealedAt' = (Sealings' # {} /\ Kind[Newest(Sealings')] = "sealed")
  BY DEF SealedAtAgrees, Sealings, Newest
<1>1. late' = (late \/ \E e \in events : /\ {Kind[r], Kind[e]} \subseteq {"sealed", "opened"}
                                          /\ At[r] <= At[e])
  BY DEF Record
<1>2. ~late /\ ~\E e \in events : /\ {Kind[r], Kind[e]} \subseteq {"sealed", "opened"}
                                  /\ At[r] <= At[e]
  BY <1>1, Zenon
<1>3. sealedAt = (Sealings # {} /\ Kind[Newest(Sealings)] = "sealed") /\ sealedAt \in BOOLEAN
  BY <1>2, Zenon DEF AgreeInv, PackageAgrees, SealedAtAgrees, Sealings
<1>4. CASE Kind[r] \in {"sealed", "opened"}
  <2>1. Sealings' = Sealings \cup {r}
    BY <1>4 DEF Record, Sealings, EventKinds, Kinds
  <2>2. \A e \in Sealings : At[e] < At[r] /\ e \in Requests
    BY <1>2, <1>4 DEF Sealings, AgreeInv, Types
  <2>3. \A e \in Sealings \cup {r} :
            (\A f \in Sealings \cup {r} : At[f] <= At[e]) <=> e = r
    BY <2>2
  <2>4. Newest(Sealings \cup {r}) = r
    BY <2>3 DEF Newest
  <2>5. sealedAt' = (Kind[r] = "sealed")
    BY <1>4 DEF Record, SealedAtAfter
  <2> QED BY <2>1, <2>4, <2>5
<1>5. CASE Kind[r] \notin {"sealed", "opened"}
  <2>1. Sealings' = Sealings
    BY <1>5 DEF Record, Sealings
  <2>2. sealedAt' = sealedAt
    BY <1>3, <1>5 DEF Record, SealedAtAfter
  <2> QED BY <1>3, <2>1, <2>2
<1> QED BY <1>4, <1>5

\* A void that is recorded while the package holds units was overtaken by them.
LEMMA RecordVoids ==
    ASSUME AgreeInv, NEW r \in Requests, Record(r)
    PROVE  EmptyAsRead' /\ VoidStrandsNothing' /\ (sealedAt \in BOOLEAN)'
<1>1. /\ pc[r] = "claimed" /\ End(r, "ok") /\ overtaken \subseteq overtaken'
      /\ stranded' = IF Kind[r] = "voided" /\ HeldAll # 0
                     THEN stranded \cup {r} ELSE stranded
  BY DEF Record
<1>2. VoidStrandsNothing'
  BY <1>1 DEF AgreeInv, EmptyAsRead, PackageAgrees, VoidStrandsNothing
<1>3. CASE Kind[r] \in MovementKinds
  <2>1. \A v \in Requests : Kind[v] = "voided" /\ pc[v] \in {"checked", "claimed"} =>
            v \in overtaken'
    BY <1>3 DEF Record
  <2> QED BY <1>1, <1>2, <2>1, EndPc DEF AgreeInv, EmptyAsRead, Record, SealedAtAfter
<1>4. CASE Kind[r] \notin MovementKinds
  <2>1. movements' = movements
    BY <1>4 DEF Record
  <2>2. HeldAll' = HeldAll
    BY <2>1 DEF HeldAll
  <2> QED BY <1>1, <1>2, <2>2, EndPc DEF AgreeInv, EmptyAsRead, Record, SealedAtAfter
<1> QED BY <1>3, <1>4

LEMMA NextAgree == AgreeInv /\ IInv /\ [Next]_vars => AgreeInv'
<1> SUFFICES ASSUME AgreeInv, IInv, [Next]_vars
             PROVE  EmptyAsRead' /\ PackageAgrees' /\ (sealedAt \in BOOLEAN)'
  BY NextTypes DEF AgreeInv
<1>0. Types
  BY DEF IInv
<1> DEFINE Goal == EmptyAsRead' /\ PackageAgrees' /\ (sealedAt \in BOOLEAN)'
<1>1. ASSUME NEW r \in Requests, Check(r) PROVE Goal
  <2>1. UNCHANGED <<facts, late, overtaken, stranded>>
    BY <1>1 DEF Check
  <2>2. CASE Refused(r)
    <3>1. End(r, "refused")
      BY <1>1, <2>2 DEF Check
    <3> QED BY <1>0, <2>1, <3>1, EndPc, AgreeKept
  <2>3. CASE ~Refused(r)
    <3>1. pc' = [pc EXCEPT ![r] = "checked"]
      BY <1>1, <2>3 DEF Check
    <3>2. Kind[r] = "voided" => HeldAll = 0
      BY <2>3 DEF Refused, VoidRefused
    <3> QED BY <1>0, <2>1, <3>1, <3>2, AgreeKept DEF Types
  <2> QED BY <2>2, <2>3
<1>2. ASSUME NEW r \in Requests, Claim(r) PROVE Goal
  <2>1. /\ UNCHANGED <<facts, late, overtaken, stranded>>
        /\ pc[r] = "checked" /\ pc' = [pc EXCEPT ![r] = "claimed"]
    BY <1>2 DEF Claim, seen
  <2> QED BY <1>0, <2>1, AgreeKept DEF Types
<1>3. ASSUME NEW r \in Requests, Record(r) PROVE Goal
  BY <1>3, RecordSeals, RecordVoids DEF PackageAgrees
<1>4. ASSUME NEW r \in Requests, Replay(r) PROVE Goal
  <2>1. UNCHANGED <<facts, late, overtaken, stranded>> /\ \E how : End(r, how)
    BY <1>4 DEF Replay, seen
  <2> QED BY <1>0, <2>1, EndPc, AgreeKept
<1>5. ASSUME NEW r \in Requests, Abort(r) PROVE Goal
  <2>1. UNCHANGED <<facts, late, overtaken, stranded>> /\ \E how : End(r, how)
    BY <1>5 DEF Abort, seen
  <2> QED BY <1>0, <2>1, EndPc, AgreeKept
<1>6. CASE Drain \/ UNCHANGED vars
  <2>1. UNCHANGED <<facts, late, overtaken, stranded, pc>>
    BY <1>6 DEF Drain, seen, vars
  <2> QED BY <2>1, AgreeKept
<1> QED BY <1>1, <1>2, <1>3, <1>4, <1>5, <1>6 DEF Next, Serve

\* What sealed_at says and what the fold of the events says agree while no seal or
\* opening is recorded after one that occurred later (seal_package, open_package), and a
\* void leaves units in its package only if they moved while it ran (void_package).
THEOREM PackagesAgree == Spec => []PackageAgrees
<1>1. AgreeInv => PackageAgrees
  BY DEF AgreeInv
<1> QED BY <1>1, InitAgree, NextAgree, InitIInv, NextIInv, PTL DEF Spec
==============================================================================
