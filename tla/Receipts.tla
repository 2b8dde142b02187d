-------------------------------- MODULE Receipts --------------------------------
(***************************************************************************)
(* Goods arriving against a promise (an expected_supply row): the lot they   *)
(* are of, the delivery their lines belong to, the policy that accepts or    *)
(* rejects them, the movement they make, and the claims on the promise that   *)
(* the arrival hands over to the stock it became.                            *)
(*                                                                         *)
(* A receipt is one READ COMMITTED transaction of many statements.  Inside   *)
(* it asks for the projections to be rebuilt, because a claim is handed over  *)
(* to a stock cell and a cell is a projection.  The rebuild is refused when   *)
(* one was accepted within five seconds, and otherwise waits for a rebuild    *)
(* that is not committed (ProjectionDrain).                                  *)
(*                                                                         *)
(* One promise, one item, one lot code and one destination, so one cell.  A   *)
(* line and its movement are named by the request that recorded them.        *)
(***************************************************************************)
EXTENDS Integers, Sequences

CONSTANTS
    Requests,   \* HTTP requests, each sent once; a retry is another request
    Acts,       \* client_event ids
    Headers,    \* the ids of deliveries
    Claims,     \* the claims on the promise, a sequence: the first bound first
    Units,      \* what each claim claims
    Ask,        \* what each request says has arrived
    Together,   \* BOUND: what one behaviour sends, and the claims there are
    None        \* no request, delivery or date

Bound == {Claims[i] : i \in DOMAIN Claims}

\* n: the units; lot: whether it names the lot, with the expiry it states; delivery:
\* the one it joins; from: the site it states, or None.
ASSUME ReceiptsAssumption ==
    /\ None \notin Requests \cup Headers
    /\ Together \subseteq [sent : SUBSET Requests, bound : SUBSET Bound]
    /\ Claims \in Seq(Bound)
    /\ \A i, j \in DOMAIN Claims : Claims[i] = Claims[j] => i = j
    /\ Units \in [Bound -> Nat \ {0}]
    /\ \A r \in Requests :
          /\ Ask[r].act \in Acts /\ Ask[r].n \in Nat \ {0}
          /\ Ask[r].lot \in BOOLEAN /\ Ask[r].delivery \in Headers \cup {None}

VARIABLES
    pc,        \* "new", "checked", "claimed", "read", "named", "headed", "asked",
               \* "moved", "planned", "ended"
    before,    \* HISTORY: requests that had ended when this one read
    holder,    \* per act, the request whose envelope is not committed yet
    envelopes, \* acts with a committed client_event row
    lot,       \* the lot's row: "absent", None when it has no date, or its date
    seenLot,   \* what a request read of it and has not acted on yet
    lotLock,   \* the request that has written the lot and not committed
    header,    \* per delivery, the request whose line opened it, or None
    headLock,  \* per delivery, the request that inserted it and has not committed
    lines,     \* committed lines
    moves,     \* committed receipt movements
    accepts,   \* whether the policy accepted a request's line
    folded,    \* the movements in the stock projection
    rebuild,   \* the request whose rebuild is not committed yet
    fold,      \* what a request's own rebuild folded: {} when it made none
    limited,   \* a rebuild was accepted less than five seconds ago
    onPromise, \* the claims that name the promise
    active,    \* the claims that are not released
    plan,      \* per request, the claims it will hand over
    handed,    \* per claim, the requests that handed it over
    deferred,  \* HISTORY: arrivals answered that their handover waits for a rebuild
    outcome,   \* "none", "ok", "refused" or "failed"
    opened     \* what a request was told: whether its act opened the delivery

acts     == <<holder, envelopes>>
lots     == <<lot, seenLot, lotLock>>
headers  == <<header, headLock>>
stock    == <<folded, rebuild, fold, limited>>
claims   == <<onPromise, active, plan, handed, deferred>>
answers  == <<outcome, opened>>
vars     == <<pc, before, acts, lots, headers, lines, moves, accepts, stock, claims, answers>>

Init ==
    /\ \E t \in Together :
          /\ pc = [r \in Requests |-> IF r \in t.sent THEN "new" ELSE "ended"]
          /\ onPromise = t.bound
          /\ active = t.bound
    /\ before = [r \in Requests |-> {}]
    /\ holder = [a \in Acts |-> None]
    /\ envelopes = {}
    /\ lot = "absent"
    /\ seenLot = [r \in Requests |-> "absent"]
    /\ lotLock = None
    /\ header = [h \in Headers |-> None]
    /\ headLock = [h \in Headers |-> None]
    /\ lines = {}
    /\ moves = {}
    /\ accepts = [r \in Requests |-> FALSE]
    /\ folded = {}
    /\ rebuild = None
    /\ fold = [r \in Requests |-> {}]
    /\ limited \in BOOLEAN
    /\ plan = [r \in Requests |-> {}]
    /\ handed = [c \in Bound |-> {}]
    /\ deferred = {}
    /\ outcome = [r \in Requests |-> "none"]
    /\ opened = [r \in Requests |-> FALSE]

Goes(r, step) == pc' = [pc EXCEPT ![r] = step]

\* The transaction ends.  What it had not committed, and its locks, are gone.
End(r, how) ==
    /\ Goes(r, "ended")
    /\ outcome' = [outcome EXCEPT ![r] = how]
    /\ holder' = [a \in Acts |-> IF holder[a] = r THEN None ELSE holder[a]]
    /\ headLock' = [h \in Headers |-> IF headLock[h] = r THEN None ELSE headLock[h]]
    /\ lotLock' = IF lotLock = r THEN None ELSE lotLock
    /\ rebuild' = IF rebuild = r THEN None ELSE rebuild

Fails(r, how) ==
    /\ End(r, how)
    /\ UNCHANGED <<before, envelopes, lot, seenLot, header, lines, moves, accepts, folded,
                   fold, limited, claims, opened>>

------------------------------------------------------------------------------
(* Up to the envelope *)

\* The promise, the conversion to base units, the destination and the owner.
Check(r) ==
    /\ pc[r] = "new"
    /\ Goes(r, "checked")
    /\ before' = [before EXCEPT ![r] = {q \in Requests : pc[q] = "ended"}]
    /\ UNCHANGED <<acts, lots, headers, lines, moves, accepts, stock, claims, answers>>

\* claim_act, fresh; a line that names no lot goes on to the policy.
Claim(r) ==
    /\ pc[r] = "checked"
    /\ Ask[r].act \notin envelopes /\ holder[Ask[r].act] = None
    /\ holder' = [holder EXCEPT ![Ask[r].act] = r]
    /\ Goes(r, IF Ask[r].lot THEN "claimed" ELSE "named")
    /\ UNCHANGED <<before, envelopes, lots, headers, lines, moves, accepts, stock, claims, answers>>

LineOf(a) == {q \in lines : Ask[q].act = a}

\* require_receipt_facts: the act's one line answers, when what it moved is what is
\* asked for.  It says again whether it opened its delivery.
Replay(r) ==
    /\ pc[r] = "checked" /\ Ask[r].act \in envelopes
    /\ LET p == CHOOSE q \in LineOf(Ask[r].act) : TRUE IN
       IF p \in moves /\ Ask[p].n # Ask[r].n
       THEN End(r, "refused") /\ UNCHANGED opened
       ELSE End(r, "ok") /\ opened' = [opened EXCEPT ![r] = opened[p]]
    /\ UNCHANGED <<before, envelopes, lot, seenLot, header, lines, moves, accepts, folded,
                   fold, limited, claims>>

------------------------------------------------------------------------------
(* The lot *)

\* find_or_make_lot reads the lot.
FindLot(r) ==
    /\ pc[r] = "claimed"
    /\ seenLot' = [seenLot EXCEPT ![r] = lot]
    /\ Goes(r, "read")
    /\ UNCHANGED <<before, acts, lot, lotLock, headers, lines, moves, accepts, stock, claims,
                   answers>>

\* A lot that was not there is made; one without a date is given the date stated.
Writes(r) ==
    seenLot[r] = "absent" \/ (seenLot[r] = None /\ Ask[r].expiry # None)

\* find_or_make_lot writes it, by its id alone, and waits for another's write of it.
\* A lot that was made since it was read is a duplicate key.
NameLot(r) ==
    /\ pc[r] = "read"
    /\ Writes(r) => lotLock = None
    /\ IF Writes(r) /\ seenLot[r] = "absent" /\ lot # "absent"
       THEN Fails(r, "failed")
       ELSE /\ lotLock' = IF Writes(r) THEN r ELSE lotLock
            /\ seenLot' = [seenLot EXCEPT ![r] = "absent"]
            /\ Goes(r, "named")
            /\ UNCHANGED <<before, acts, lot, headers, lines, moves, accepts, stock, claims,
                           answers>>

------------------------------------------------------------------------------
(* The policy and the delivery *)

\* Two statements of where a delivery is from: None disagrees with nothing.
Clash(x, y) == None \notin {x, y} /\ x # y

\* MUTANT: looked for and then inserted, without ON CONFLICT.
OpenOrJoinChecked(r, accept) ==
    LET h == Ask[r].delivery IN
    /\ pc[r] = "named"
    /\ IF h # None /\ headLock[h] \notin {None, r}
       THEN Fails(r, "failed")
       ELSE /\ headLock' = IF h # None /\ header[h] = None
                           THEN [headLock EXCEPT ![h] = r] ELSE headLock
            /\ accepts' = [accepts EXCEPT ![r] = accept]
            /\ opened' = [opened EXCEPT ![r] = h = None \/ header[h] = None]
            /\ Goes(r, "headed")
            /\ UNCHANGED <<before, acts, lots, header, lines, moves, stock, claims, outcome>>

\* resolve_receiving_policy and disposition, which the configuration decides; and
\* ensure_goods_receipt: the delivery is inserted, or is there and joined, when the line
\* states nothing else than its first line did.  The insert waits for another's.
OpenOrJoin(r, accept) ==
    LET h == Ask[r].delivery IN
    /\ pc[r] = "named"
    /\ h # None => headLock[h] = None
    /\ IF h # None /\ header[h] # None /\ Clash(Ask[header[h]].from, Ask[r].from)
       THEN Fails(r, "refused")
       ELSE /\ headLock' = IF h # None /\ header[h] = None
                           THEN [headLock EXCEPT ![h] = r] ELSE headLock
            /\ accepts' = [accepts EXCEPT ![r] = accept]
            /\ opened' = [opened EXCEPT ![r] = h = None \/ header[h] = None]
            /\ Goes(r, "headed")
            /\ UNCHANGED <<before, acts, lots, header, lines, moves, stock, claims, outcome>>

\* No version of the policy says what the line needs: it is refused.
Unresolved(r) == pc[r] = "named" /\ Fails(r, "refused")

------------------------------------------------------------------------------
(* The movement, and the claims *)

\* The line, its disposition, and the movement of what was accepted; then
\* projection_refresh_tenant, which says no within five seconds of another.
Move(r) ==
    /\ pc[r] = "headed" /\ accepts[r]
    /\ Goes(r, IF limited THEN "moved" ELSE "asked")
    /\ UNCHANGED <<before, acts, lots, headers, lines, moves, accepts, stock, claims, answers>>

\* The rebuild it was allowed waits for one that is not committed, and folds what is.
Rebuild(r) ==
    /\ pc[r] = "asked" /\ rebuild = None
    /\ rebuild' = r
    /\ fold' = [fold EXCEPT ![r] = moves \cup {r}]
    /\ Goes(r, "moved")
    /\ UNCHANGED <<before, acts, lots, headers, lines, moves, accepts, folded, limited,
                   claims, answers>>

\* The arrival's cell is in the stock projection.
CellThere(r) == \E q \in folded \cup fold[r] : Ask[q].lot = Ask[r].lot

\* MUTANT: what a claim takes is not taken from what is left.
TakesAlone(C, n) == {c \in C : Units[c] <= n}

\* receiving::plan: what is left of n units after each claim, the first bound first; a
\* claim in C is taken when what is left covers it.
Left(C, n) ==
    LET left[i \in 0..Len(Claims)] ==
            IF i = 0 THEN n
            ELSE IF Claims[i] \in C /\ Units[Claims[i]] <= left[i - 1]
                 THEN left[i - 1] - Units[Claims[i]] ELSE left[i - 1]
    IN  left

Takes(C, n) ==
    {Claims[i] : i \in {j \in DOMAIN Claims :
                           Claims[j] \in C /\ Units[Claims[j]] <= Left(C, n)[j - 1]}}

\* The claims on the promise are read and the handover planned.
Plan(r) ==
    /\ pc[r] = "moved"
    /\ plan' = [plan EXCEPT ![r] = IF CellThere(r) THEN Takes(onPromise \cap active, Ask[r].n)
                                                   ELSE {}]
    /\ deferred' = IF CellThere(r) THEN deferred ELSE deferred \cup {r}
    /\ Goes(r, "planned")
    /\ UNCHANGED <<before, acts, lots, headers, lines, moves, accepts, stock, onPromise, active,
                   handed, answers>>

\* The claims planned are handed over, by their ids: they name the stock, and the
\* promise no more.  Everything is committed.
Commit(r) ==
    /\ pc[r] = "planned" \/ (pc[r] = "headed" /\ ~accepts[r])
    /\ envelopes' = envelopes \cup {Ask[r].act}
    /\ lot' = IF lotLock = r THEN Ask[r].expiry ELSE lot
    /\ header' = [h \in Headers |-> IF headLock[h] = r THEN r ELSE header[h]]
    /\ lines' = lines \cup {r}
    /\ moves' = IF accepts[r] THEN moves \cup {r} ELSE moves
    /\ folded' = IF rebuild = r THEN fold[r] ELSE folded
    /\ limited' = (limited \/ rebuild = r)
    /\ onPromise' = onPromise \ plan[r]
    /\ handed' = [c \in Bound |-> IF c \in plan[r] THEN handed[c] \cup {r} ELSE handed[c]]
    /\ End(r, "ok")
    /\ UNCHANGED <<before, seenLot, accepts, fold, active, plan, deferred, opened>>

------------------------------------------------------------------------------
\* A claim is released.
Release(c) ==
    /\ c \in active
    /\ active' = active \ {c}
    /\ UNCHANGED <<pc, before, acts, lots, headers, lines, moves, accepts, stock, onPromise,
                   plan, handed, deferred, answers>>

\* The scheduler rebuilds the projections.
Drain ==
    /\ rebuild = None /\ folded # moves
    /\ folded' = moves
    /\ UNCHANGED <<pc, before, acts, lots, headers, lines, moves, accepts, rebuild, fold,
                   limited, claims, answers>>

\* Five seconds pass.
Elapse ==
    /\ limited
    /\ limited' = FALSE
    /\ UNCHANGED <<pc, before, acts, lots, headers, lines, moves, accepts, folded, rebuild,
                   fold, claims, answers>>

Serve(r) ==
    \/ Claim(r) \/ Replay(r) \/ FindLot(r) \/ NameLot(r)
    \/ (\E accept \in BOOLEAN : OpenOrJoin(r, accept)) \/ Unresolved(r)
    \/ Move(r) \/ Rebuild(r) \/ Plan(r) \/ Commit(r)

Next ==
    \/ \E r \in Requests : Check(r) \/ Serve(r)
    \/ \E c \in Bound : Release(c)
    \/ Drain \/ Elapse

Spec == Init /\ [][Next]_vars

\* A handler that has what it waits for goes on, and the scheduler rebuilds.
FairSpec == Spec /\ WF_vars(Drain) /\ \A r \in Requests : WF_vars(Serve(r))

------------------------------------------------------------------------------
\* Every variable stays in its range, and locks are held by requests that run.
TypeOK ==
    /\ pc \in [Requests -> {"new", "checked", "claimed", "read", "named", "headed", "asked",
                            "moved", "planned", "ended"}]
    /\ holder \in [Acts -> Requests \cup {None}]
    /\ headLock \in [Headers -> Requests \cup {None}]
    /\ {lotLock, rebuild} \subseteq Requests \cup {None}
    /\ \A q \in {lotLock, rebuild} \cup {holder[a] : a \in Acts} \cup {headLock[h] : h \in Headers} :
          q # None => pc[q] \notin {"new", "checked", "ended"}
    /\ envelopes = {Ask[r].act : r \in lines}
    /\ moves \subseteq lines /\ folded \subseteq moves
    /\ onPromise \subseteq Bound /\ active \subseteq Bound
    /\ outcome \in [Requests -> {"none", "ok", "refused", "failed"}]
    /\ opened \in [Requests -> BOOLEAN]

Overlap(q, r) == q \notin before[r] /\ r \notin before[q]

\* "Two lines of one delivery arriving together": one of them opens it, the others join
\* what it stated, and none of them fails because of it.  (What fails is a line that
\* makes the lot another is making.)
OneDelivery ==
    /\ \A r \in Requests : outcome[r] = "failed" => Ask[r].lot
    /\ \A h \in Headers :
          LET L == {r \in lines : Ask[r].delivery = h} IN
          L # {} => /\ {r \in L : opened[r]} = {header[h]}
                    /\ \A r \in L : ~Clash(Ask[r].from, Ask[header[h]].from)

UnitsOf(T) ==
    LET sum[i \in 0..Len(Claims)] ==
            IF i = 0 THEN 0
            ELSE sum[i - 1] + (IF Claims[i] \in T THEN Units[Claims[i]] ELSE 0)
    IN  sum[Len(Claims)]

\* What an arrival hands over to its cell is never more than arrived.
HandsOverWhatArrived ==
    \A r \in moves : UnitsOf({c \in Bound : r \in handed[c]}) <= Ask[r].n

\* A claim is handed over once, unless the two receipts overlapped and the rebuild of one
\* was refused (rebuilds wait for each other; a refused one waits for nothing).
HandedOnce ==
    \A c \in Bound : \A q, r \in handed[c] : q # r => Overlap(q, r) /\ {} \in {fold[q], fold[r]}

\* What arrivals hand over to a cell never adds up to more than arrived in it, however
\* claims are released and receipts race; and nothing is handed over twice but by two
\* that overlapped.
HandoverCovered == HandsOverWhatArrived /\ HandedOnce

\* "Claim handover deferred until the scheduler rebuilds stock": what arrived is handed
\* over in the end, unless no claim that it covers is left on the promise.
DeferredIsHandedOver ==
    \A r \in Requests :
        r \in deferred \cap moves
        ~> (\E c \in Bound : r \in handed[c]) \/ Takes(onPromise \cap active, Ask[r].n) = {}
==============================================================================
