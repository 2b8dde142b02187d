--------------------------------- MODULE Claims ---------------------------------
(***************************************************************************)
(* Claims on the stock for fulfilment lines (stock_allocation): recording    *)
(* one and releasing one.                                                   *)
(*                                                                         *)
(* A claim is an intention and carries no envelope: what makes its retry     *)
(* safe is the id the client minted, the row's primary key.  The handler     *)
(* reads what covers the line, looks for a row of its id, checks that the    *)
(* line is not over-covered by what it read, and inserts.  Each of these is  *)
(* a statement of one READ COMMITTED transaction that locks nothing until    *)
(* the insert, so other claims commit in between.  A second insert of an id  *)
(* waits for the first one's transaction, and so does a second release of a  *)
(* row for the first one's.  A row is named by the request that wrote it.    *)
(*                                                                         *)
(* The claim states picking, picked, packed and fulfilled are written by     *)
(* nothing in the server: a row is allocated until it is released.           *)
(***************************************************************************)
EXTENDS Integers, FiniteSets, FiniteSetsExt

CONSTANTS
    Requests,  \* POST /allocations
    Releases,  \* POST /allocations/{id}/release
    Ids,       \* ids of claims
    IdOf,      \* the claim each request or release names
    Lines,     \* fulfilment lines
    LineOf,    \* the line a claim is for
    Units,     \* how much of it
    Wanted,    \* per line, the quantity it commits
    Firm,      \* requests for a firm claim
    Forced,    \* releases that say so of a firm claim
    MaxAborts, \* BOUND: requests that roll back
    NoOne

Callers == Requests \cup Releases

ASSUME ClaimsAssumption ==
    /\ Requests \cap Releases = {}
    /\ NoOne \notin Callers
    /\ IdOf \in [Callers -> Ids]
    /\ LineOf \in [Requests -> Lines]
    /\ Units \in [Requests -> Nat \ {0}]
    /\ Wanted \in [Lines -> Nat]
    /\ Firm \subseteq Requests
    /\ Forced \subseteq Releases
    /\ MaxAborts \in Nat

VARIABLES
    pc,        \* a request: "new", "read", "checked", "inserted", "ended";
               \* a release: "new", "read", "updated", "ended"
    seen,      \* the claims a request read on its line
    holder,    \* per id, the request whose row is inserted and not committed
    freeing,   \* per id, the release whose update is not committed
    rows,      \* committed claims
    released,  \* those in state 'released'
    outcome,   \* "none", "ok", "refused" or "failed"
    unfit,     \* requests refused for over-covering their line
    told,      \* the row a request was answered with
    raced      \* HISTORY: claims that missed another on their line

answers == <<outcome, unfit, told>>
table   == <<rows, released>>
vars    == <<pc, seen, holder, freeing, table, answers, raced>>

------------------------------------------------------------------------------
RowsOf(i)    == {p \in rows : IdOf[p] = i}
Covering(l)  == {p \in rows \ released : LineOf[p] = l}
Covered(S)   == MapThenSumSet(LAMBDA p : Units[p], S)

Init ==
    /\ pc = [c \in Callers |-> "new"]
    /\ seen = [r \in Requests |-> {}]
    /\ holder = [i \in Ids |-> NoOne]
    /\ freeing = [i \in Ids |-> NoOne]
    /\ rows = {}
    /\ released = {}
    /\ outcome = [c \in Callers |-> "none"]
    /\ unfit = {}
    /\ told = [r \in Requests |-> NoOne]
    /\ raced = {}

Goes(c, to) == pc' = [pc EXCEPT ![c] = to]

\* The transaction ends, and whatever it held is let go of.
End(c, how) ==
    /\ Goes(c, "ended")
    /\ outcome' = [outcome EXCEPT ![c] = how]
    /\ holder' = [i \in Ids |-> IF holder[i] = c THEN NoOne ELSE holder[i]]
    /\ freeing' = [i \in Ids |-> IF freeing[i] = c THEN NoOne ELSE freeing[i]]

------------------------------------------------------------------------------
(* Recording a claim *)

\* The first statement: the line, with the sum of the claims that cover it.
ReadLine(r) ==
    /\ pc[r] = "new"
    /\ seen' = [seen EXCEPT ![r] = Covering(LineOf[r])]
    /\ Goes(r, "read")
    /\ UNCHANGED <<holder, freeing, table, answers, raced>>

\* reject_allocation_mismatch: a retry says what the first one said.
SameBody(p, r) == LineOf[p] = LineOf[r] /\ Units[p] = Units[r]

\* A row of the request's id is there: the request is answered with it, or
\* refused because it asks for something else.
Replay(r) ==
    \E p \in RowsOf(IdOf[r]) :
        /\ IF SameBody(p, r)
           THEN End(r, "ok") /\ told' = [told EXCEPT ![r] = p]
           ELSE End(r, "refused") /\ UNCHANGED told
        /\ UNCHANGED <<seen, table, unfit, raced>>

\* MUTANT: the claims already on the line are not subtracted.
OverCoversAlone(r) == Units[r] > Wanted[LineOf[r]]

\* allocating::check, against what the first statement read.
OverCovers(r) == Covered(seen[r]) + Units[r] > Wanted[LineOf[r]]

Check(r) ==
    /\ IF OverCovers(r)
       THEN End(r, "refused") /\ unfit' = unfit \cup {r}
       ELSE Goes(r, "checked") /\ UNCHANGED <<holder, freeing, outcome, unfit>>
    /\ UNCHANGED <<seen, table, told, raced>>

\* MUTANT: the checks come first, and a replay is settled after them.
SettleChecked(r) ==
    /\ pc[r] = "read"
    /\ IF OverCovers(r) \/ RowsOf(IdOf[r]) = {} THEN Check(r) ELSE Replay(r)

\* Replay is settled before the checks: the line was read with the claim a retry
\* is retrying already counted.
Settle(r) ==
    /\ pc[r] = "read"
    /\ IF RowsOf(IdOf[r]) = {} THEN Check(r) ELSE Replay(r)

\* INSERT ON CONFLICT (id) DO NOTHING, and nobody else has the id.
Insert(r) ==
    /\ pc[r] = "checked"
    /\ RowsOf(IdOf[r]) = {}
    /\ holder[IdOf[r]] = NoOne
    /\ holder' = [holder EXCEPT ![IdOf[r]] = r]
    /\ Goes(r, "inserted")
    /\ UNCHANGED <<seen, freeing, table, answers, raced>>

\* MUTANT: the loser answers with what it finds, without comparing it.
LoseUncompared(r) ==
    /\ pc[r] = "checked"
    /\ \E p \in RowsOf(IdOf[r]) : End(r, "ok") /\ told' = [told EXCEPT ![r] = p]
    /\ UNCHANGED <<seen, table, unfit, raced>>

\* The insert meets a row of the id: the loser reads what the winner wrote.
Lose(r) ==
    /\ pc[r] = "checked"
    /\ Replay(r)

\* The claim is committed and the tenant marked dirty.
Record(r) ==
    /\ pc[r] = "inserted"
    /\ rows' = rows \cup {r}
    /\ told' = [told EXCEPT ![r] = r]
    /\ End(r, "ok")
    /\ raced' = IF Covering(LineOf[r]) \subseteq seen[r] THEN raced ELSE raced \cup {r}
    /\ UNCHANGED <<seen, released, unfit>>

------------------------------------------------------------------------------
(* Releasing one *)

\* check_release: only an allocated claim, and a firm one only deliberately.
Releasable(q, p) == p \notin released /\ (p \in Firm => q \in Forced)

ReadClaim(q) ==
    /\ pc[q] = "new"
    /\ IF \E p \in RowsOf(IdOf[q]) : Releasable(q, p)
       THEN Goes(q, "read") /\ UNCHANGED <<holder, freeing, outcome>>
       ELSE End(q, "refused")
    /\ UNCHANGED <<seen, table, unfit, told, raced>>

\* UPDATE ... SET state = 'released' WHERE id = $1, once no other release of the
\* row is under way.  It does not ask for the state again.
Update(q) ==
    /\ pc[q] = "read"
    /\ freeing[IdOf[q]] = NoOne
    /\ freeing' = [freeing EXCEPT ![IdOf[q]] = q]
    /\ Goes(q, "updated")
    /\ UNCHANGED <<seen, holder, table, answers, raced>>

Free(q) ==
    /\ pc[q] = "updated"
    /\ released' = released \cup RowsOf(IdOf[q])
    /\ End(q, "ok")
    /\ UNCHANGED <<seen, rows, unfit, told, raced>>

\* A statement errors or the process dies.
Abort(c) ==
    /\ pc[c] \notin {"new", "ended"}
    /\ Cardinality({d \in Callers : outcome[d] = "failed"}) < MaxAborts
    /\ End(c, "failed")
    /\ UNCHANGED <<seen, table, unfit, told, raced>>

------------------------------------------------------------------------------
ServeClaim(r)   == Settle(r) \/ Insert(r) \/ Lose(r) \/ Record(r)
ServeRelease(q) == Update(q) \/ Free(q)

Next ==
    \/ \E r \in Requests : ReadLine(r) \/ ServeClaim(r)
    \/ \E q \in Releases : ReadClaim(q) \/ ServeRelease(q)
    \/ \E c \in Callers : Abort(c)

Spec == Init /\ [][Next]_vars

\* A handler that has what it waits for goes on.
FairSpec ==
    /\ Spec
    /\ \A r \in Requests : WF_vars(ServeClaim(r))
    /\ \A q \in Releases : WF_vars(ServeRelease(q))

------------------------------------------------------------------------------
\* Every variable stays in its range, a released claim is a claim, and a request is
\* told of a row exactly when it is answered with success.
TypeOK ==
    /\ pc \in [Callers -> {"new", "read", "checked", "inserted", "updated", "ended"}]
    /\ seen \in [Requests -> SUBSET Requests]
    /\ holder \in [Ids -> Requests \cup {NoOne}]
    /\ freeing \in [Ids -> Releases \cup {NoOne}]
    /\ rows \subseteq Requests
    /\ released \subseteq rows
    /\ outcome \in [Callers -> {"none", "ok", "refused", "failed"}]
    /\ unfit \subseteq Requests
    /\ told \in [Requests -> Requests \cup {NoOne}]
    /\ \A r \in Requests : outcome[r] = "ok" <=> told[r] # NoOne
    /\ raced \subseteq rows

\* Copies of a claim, whenever they arrive, are one row, and each that is answered
\* with success is told that row and asked for what it says: the primary key and
\* reject_allocation_mismatch, on both paths that find a row.
OneClaim ==
    /\ \A p, q \in rows : IdOf[p] = IdOf[q] => p = q
    /\ \A r \in Requests : outcome[r] = "ok" =>
           told[r] \in rows /\ IdOf[told[r]] = IdOf[r] /\ SameBody(told[r], r)

\* A retry is not refused for the room its own claim takes up, although it may
\* read the line before its claim is committed and look for the claim after.
OwnClaimNotCounted ==
    \A r \in unfit : \A p \in seen[r] : IdOf[p] # IdOf[r]

\* A line is over-covered only by claims that missed one another: those that read
\* everything committed before them never take more than the line wants, however
\* releases and rolled-back claims come between.
SeenClaimsFit ==
    \A l \in Lines : Covered(Covering(l) \ raced) <= Wanted[l]

\* "Over-covering the line is hard - J56 is a finding about stored data and the
\* write path should not mint it" (allocating.rs): no line is ever over-covered.
NeverOverCovered == \A l \in Lines : Covered(Covering(l)) <= Wanted[l]

\* Waiting for another copy of a claim, or for another release of it, ends: the
\* server comes to rest.
Open(c)     == pc[c] \notin {"new", "ended"}
AllAnswered == (\E c \in Callers : Open(c)) ~> (\A c \in Callers : ~Open(c))

\* The claim of an id is its one row.
OwnerOf(S) == IF S = {} THEN NoOne ELSE CHOOSE p \in S : TRUE
LogNow     == [i \in Ids |-> OwnerOf(RowsOf(i))]

Log == INSTANCE ActLog WITH
    Acts    <- Ids,
    ActOf   <- [r \in Requests |-> IdOf[r]],
    log     <- LogNow,
    outcome <- [r \in Requests |-> outcome[r]]

\* "claim_act's mechanism without claim_act's envelope": claims make the same
\* promise as acts do, with the id alone.
ImplementsActLog == Log!ASpec
==============================================================================
