------------------------------ MODULE PackageActs ------------------------------
(***************************************************************************)
(* The acts on one package: picks into it, sealing, opening, voiding it,    *)
(* and despatching what it holds of a fulfilment line.                      *)
(*                                                                         *)
(* Every handler is one READ COMMITTED transaction of the same shape: read  *)
(* the rows, refuse on a hard problem, claim the act's envelope, and then   *)
(* either write the facts (the envelope is fresh) or load what the act      *)
(* recorded before (a replay).  The unique index on client_event makes a    *)
(* second claim of an act wait for the first one's transaction.  Nothing is *)
(* locked between the reads and the claim.                                  *)
(*                                                                         *)
(* Two things the handlers read are projections, status and the units of    *)
(* the stock cell: they are as old as the last rebuild (ProjectionDrain).   *)
(* A row is named by the request that wrote it, so a set of rows is a set   *)
(* of requests.                                                             *)
(***************************************************************************)
EXTENDS Integers, FiniteSets, FiniteSetsExt

CONSTANTS
    Requests,  \* HTTP requests, each sent once; a retry is another request
    Acts,      \* client_event ids
    Lines,     \* fulfilment lines with units in the package
    ActOf,     \* the act each request carries
    Kind,      \* what each request asks for
    LineOf,    \* the line a pick or a despatch names
    Units,     \* its quantity
    At,        \* its occurred_at, from the device's clock
    MaxAborts, \* BOUND: requests that roll back
    NoOne      \* no request

Kinds == {"picked", "sealed", "opened", "voided", "despatched"}

ASSUME RequestsAssumption ==
    /\ NoOne \notin Requests
    /\ ActOf \in [Requests -> Acts]
    /\ Kind \in [Requests -> Kinds]
    /\ LineOf \in [Requests -> Lines]
    /\ Units \in [Requests -> Nat \ {0}]
    /\ At \in [Requests -> Nat]
    /\ MaxAborts \in Nat

\* The client mints an id per write, so a pick and a despatch share none.  (A
\* replayed pick looks for one movement of its act and not for a pick.)
ASSUME MintedAssumption ==
    \A q, r \in Requests :
        ActOf[q] = ActOf[r] /\ Kind[q] = "picked" => Kind[r] # "despatched"

VARIABLES
    pc,         \* a request: "new", "checked", "claimed", "ended"
    holder,     \* per act, the request whose envelope is not committed yet
    envelopes,  \* acts with a committed client_event row
    events,     \* committed package_event rows
    movements,  \* committed stock_movement rows into or out of the package
    sealedAt,   \* whether package.sealed_at is set
    status,     \* package.status, as last folded
    cell,       \* per line, the package's stock cell, as last folded
    outcome,    \* what the request was answered: "none" while it runs
    told,       \* the request that wrote the facts it was answered with
    landed,     \* HISTORY: requests read for the first time after their act landed
    late,       \* HISTORY: an event was recorded after one that occurred later
    closedSeen, \* HISTORY: voids that read a package its events say is closed
    overtaken,  \* HISTORY: voids during which units moved
    stranded    \* HISTORY: voids recorded while the package held units

facts   == <<envelopes, events, movements, sealedAt>>
answers == <<outcome, told>>
folded  == <<status, cell>>
seen    == <<landed, late, closedSeen, overtaken, stranded>>
vars    == <<pc, holder, facts, answers, folded, seen>>

------------------------------------------------------------------------------
(* Folds of the facts *)

EventKinds    == Kinds \ {"picked"}
MovementKinds == {"picked", "despatched"}

\* The newest of a set of events, by occurred_at.
Newest(E) == CHOOSE e \in E : \A f \in E : At[f] <= At[e]

\* package_status_now, and the status fold of projection_package_rebuild.
StatusNow == IF events = {} THEN "none" ELSE Kind[Newest(events)]

\* What movements left in the package: in, less out.
Delta(m) == IF Kind[m] = "picked" THEN Units[m] ELSE -Units[m]
Held(l)  == MapThenSumSet(Delta, {m \in movements : LineOf[m] = l})
HeldAll  == MapThenSumSet(Delta, movements)

EventsOf(a)    == {e \in events : ActOf[e] = a}
MovementsOf(a) == {m \in movements : ActOf[m] = a}

Init ==
    /\ pc = [r \in Requests |-> "new"]
    /\ holder = [a \in Acts |-> NoOne]
    /\ envelopes = {}
    /\ events = {}
    /\ movements = {}
    /\ sealedAt = FALSE
    /\ status = "none"
    /\ cell = [l \in Lines |-> 0]
    /\ outcome = [r \in Requests |-> "none"]
    /\ told = [r \in Requests |-> NoOne]
    /\ landed = {}
    /\ late = FALSE
    /\ closedSeen = {}
    /\ overtaken = {}
    /\ stranded = {}

------------------------------------------------------------------------------
(* Reading and refusing *)

\* MUTANT: the units held are asked of the projection, as the first version did.
VoidRefusedByCell(r) ==
    \/ status \in {"despatched", "voided", "sealed"}
    \/ \E l \in Lines : cell[l] # 0

\* void_package: the status as folded, the units from the ledger.
VoidRefused(r) ==
    \/ status \in {"despatched", "voided", "sealed"}
    \/ HeldAll # 0

\* The hard problems that depend on what was read.  A seal and a pick have none.
Refused(r) ==
    \/ Kind[r] = "opened" /\ status \in {"despatched", "voided"}
    \/ Kind[r] = "despatched" /\ cell[LineOf[r]] <= 0
    \/ Kind[r] = "voided" /\ VoidRefused(r)

\* The request ends: its uncommitted envelope, if it had one, is let go of.
End(r, how) ==
    /\ pc' = [pc EXCEPT ![r] = "ended"]
    /\ outcome' = [outcome EXCEPT ![r] = how]
    /\ holder' = [a \in Acts |-> IF holder[a] = r THEN NoOne ELSE holder[a]]

\* The handler loads its rows, before it claims anything.
Check(r) ==
    /\ pc[r] = "new"
    /\ landed' = IF ActOf[r] \in envelopes THEN landed \cup {r} ELSE landed
    /\ IF Refused(r)
       THEN End(r, "refused") /\ UNCHANGED <<told, closedSeen>>
       ELSE /\ pc' = [pc EXCEPT ![r] = "checked"]
            /\ closedSeen' = IF Kind[r] = "voided" /\ StatusNow \in {"sealed", "despatched"}
                             THEN closedSeen \cup {r} ELSE closedSeen
            /\ UNCHANGED <<holder, answers>>
    /\ UNCHANGED <<facts, folded, late, overtaken, stranded>>

------------------------------------------------------------------------------
(* Claiming the act *)

\* claim_act, fresh: the envelope is inserted and holds the act until the end of
\* the transaction.  A second insert of it waits for that end.
Claim(r) ==
    /\ pc[r] = "checked"
    /\ ActOf[r] \notin envelopes
    /\ holder[ActOf[r]] = NoOne
    /\ holder' = [holder EXCEPT ![ActOf[r]] = r]
    /\ pc' = [pc EXCEPT ![r] = "claimed"]
    /\ UNCHANGED <<facts, answers, folded, seen>>

\* MUTANT: opening does not clear sealed_at.
SealedAtKept(r) == Kind[r] = "sealed" \/ sealedAt

\* seal_package stamps sealed_at when it is not set, open_package clears it.
SealedAtAfter(r) == Kind[r] = "sealed" \/ (Kind[r] # "opened" /\ sealedAt)

\* The facts are written and everything is committed at once.
Record(r) ==
    /\ pc[r] = "claimed"
    /\ envelopes' = envelopes \cup {ActOf[r]}
    /\ events' = IF Kind[r] \in EventKinds THEN events \cup {r} ELSE events
    /\ movements' = IF Kind[r] \in MovementKinds THEN movements \cup {r}
                                                 ELSE movements
    /\ sealedAt' = SealedAtAfter(r)
    /\ told' = [told EXCEPT ![r] = r]
    /\ End(r, "ok")
    /\ late' = (late \/ \E e \in events : /\ {Kind[r], Kind[e]} \subseteq {"sealed", "opened"}
                                          /\ At[r] <= At[e])
    /\ overtaken' = IF Kind[r] \in MovementKinds
                    THEN overtaken \cup
                           {v \in Requests : /\ Kind[v] = "voided"
                                             /\ pc[v] \in {"checked", "claimed"}}
                    ELSE overtaken
    /\ stranded' = IF Kind[r] = "voided" /\ HeldAll # 0
                   THEN stranded \cup {r} ELSE stranded
    /\ UNCHANGED <<folded, landed, closedSeen>>

\* MUTANT: a replay is answered whatever quantity it asks for.
AnyQuantity(p, r) ==
    LET a == ActOf[r] IN
    IF Kind[r] = "picked"
    THEN MovementsOf(a) = {p}
    ELSE EventsOf(a) = {p} /\ Kind[p] = Kind[r]

\* require_one_movement, require_one_package_event, require_despatch_facts and
\* reject_quantity_mismatch: whether r's act owns exactly the rows r would have
\* written, p's.
Prior(p, r) ==
    LET a == ActOf[r] IN
    CASE Kind[r] = "picked"     -> MovementsOf(a) = {p} /\ Units[p] = Units[r]
      [] Kind[r] = "despatched" -> /\ EventsOf(a) = {p} /\ Kind[p] = "despatched"
                                   /\ MovementsOf(a) = {p} /\ Units[p] = Units[r]
      [] OTHER                  -> EventsOf(a) = {p} /\ Kind[p] = Kind[r]

\* MUTANT: ON CONFLICT DO NOTHING alone, and the facts are inserted again.
ReplayWritesAgain(r) ==
    /\ pc[r] = "checked"
    /\ ActOf[r] \in envelopes
    /\ events' = IF Kind[r] \in EventKinds THEN events \cup {r} ELSE events
    /\ movements' = IF Kind[r] \in MovementKinds THEN movements \cup {r}
                                                 ELSE movements
    /\ told' = [told EXCEPT ![r] = r]
    /\ End(r, "ok")
    /\ UNCHANGED <<envelopes, sealedAt, folded, seen>>

\* claim_act finds the envelope: nothing is written, and the answer is what the
\* act recorded, unless that is not what this request asks for.
Replay(r) ==
    /\ pc[r] = "checked"
    /\ ActOf[r] \in envelopes
    /\ \/ \E p \in Requests : /\ Prior(p, r)
                              /\ told' = [told EXCEPT ![r] = p]
                              /\ End(r, "ok")
       \/ /\ \A p \in Requests : ~Prior(p, r)
          /\ told' = told
          /\ End(r, "refused")
    /\ UNCHANGED <<facts, folded, seen>>

\* A statement errors or the process dies: the transaction rolls back.
Abort(r) ==
    /\ pc[r] \in {"checked", "claimed"}
    /\ Cardinality({q \in Requests : outcome[q] = "failed"}) < MaxAborts
    /\ End(r, "failed")
    /\ UNCHANGED <<facts, told, folded, seen>>

\* A rebuild brings the projections up to the facts.
Drain ==
    /\ status' = StatusNow
    /\ cell' = [l \in Lines |-> Held(l)]
    /\ folded' # folded
    /\ UNCHANGED <<pc, holder, facts, answers, seen>>

------------------------------------------------------------------------------
Serve(r) == Claim(r) \/ Record(r) \/ Replay(r)

Next ==
    \/ \E r \in Requests : Check(r) \/ Serve(r) \/ Abort(r)
    \/ Drain

Spec == Init /\ [][Next]_vars

\* A handler that has what it waits for goes on.
FairSpec == Spec /\ \A r \in Requests : WF_vars(Serve(r))

------------------------------------------------------------------------------
\* Every variable stays in its range, and a request is told of rows exactly when it
\* is answered with success.
TypeOK ==
    /\ pc \in [Requests -> {"new", "checked", "claimed", "ended"}]
    /\ holder \in [Acts -> Requests \cup {NoOne}]
    /\ envelopes \subseteq Acts
    /\ events \subseteq Requests
    /\ movements \subseteq Requests
    /\ sealedAt \in BOOLEAN
    /\ status \in Kinds \cup {"none"}
    /\ cell \in [Lines -> Int]
    /\ outcome \in [Requests -> {"none", "ok", "refused", "failed"}]
    /\ told \in [Requests -> Requests \cup {NoOne}]
    /\ \A r \in Requests : outcome[r] = "ok" <=> told[r] # NoOne
    /\ landed \cup closedSeen \cup overtaken \cup stranded \subseteq Requests
    /\ late \in BOOLEAN

\* An act is whole or absent: an envelope owns exactly the rows one request
\* writes, and no row is there without its envelope.  What claim_act and the one
\* transaction are for, whatever copies of the act arrive together.
WholeActs ==
    \A a \in Acts :
        LET rows == EventsOf(a) \cup MovementsOf(a) IN
        IF a \in envelopes
        THEN \E r \in Requests :
                /\ rows = {r}
                /\ r \in events <=> Kind[r] \in EventKinds
                /\ r \in movements <=> Kind[r] \in MovementKinds
        ELSE rows = {}

\* Every copy of an act that is answered with success is told the same rows, and
\* they are rows of that act that say what the copy asked for.
OneAnswer ==
    \A r \in Requests : outcome[r] = "ok" =>
        LET p == told[r] IN
        /\ p \in events \cup movements
        /\ ActOf[p] = ActOf[r] /\ Kind[p] = Kind[r]
        /\ Kind[r] \in MovementKinds => Units[p] = Units[r]

\* package.sealed_at is written as acts arrive and package.status is folded in
\* the order they occurred, and the despatch bench and the fold read one each:
\* they agree as long as no seal or open arrives after one that occurred later.
SealedAtAgrees ==
    LET E == {e \in events : Kind[e] \in {"sealed", "opened"}} IN
    ~late => sealedAt = (E # {} /\ Kind[Newest(E)] = "sealed")

\* A void never leaves units in the package it voids, unless they moved between
\* the handler's reads and its commit: the guard reads the ledger, not a cache.
VoidStrandsNothing == stranded \subseteq overtaken

\* The two ways a package and the ledger could tell different stories: what two readers of it
\* take for its state, and units in one that was voided.
PackageAgrees == SealedAtAgrees /\ VoidStrandsNothing

\* "Sealed and despatched cartons are refused" by void_package: no void is
\* recorded that read the package when its events said it was sealed or gone.
ClosedIsNotVoided == events \cap closedSeen = {}

\* "replay same (tenant_id, client_event_id): load prior facts, return 200": a
\* copy of an act that has landed, asking for the same thing, is not refused.
ReplayAnswered ==
    \A r \in landed : outcome[r] = "refused" => ~\E p \in Requests : Prior(p, r)

\* Every request that read its rows is answered: waiting for another copy of the
\* act ends when that copy's transaction does, so the server comes to rest.
Open(r) == pc[r] \in {"checked", "claimed"}
AllAnswered == (\E r \in Requests : Open(r)) ~> (\A r \in Requests : ~Open(r))

\* The log of an act is the request whose rows the act owns.
OwnerOf(rows) == IF rows = {} THEN NoOne ELSE CHOOSE r \in rows : TRUE
LogNow == [a \in Acts |-> OwnerOf(EventsOf(a) \cup MovementsOf(a))]

Log == INSTANCE ActLog WITH log <- LogNow

\* Each step of the handlers is a step of the act log: an act sent any number of
\* times is recorded once, and every success is told that one record.
ImplementsActLog == Log!ASpec
==============================================================================
