--------------------------------- MODULE Ledger ---------------------------------
(***************************************************************************)
(* Counts, adjustments, corrections and moves of one item, and the findings  *)
(* (discrepancy rows) that counts, pack checks and bin flags raise and that  *)
(* adjustments, investigations and acceptances settle.                       *)
(*                                                                         *)
(* Every handler is one READ COMMITTED transaction.  It reads without        *)
(* locking; then it either claims the act's envelope (counts, adjustments,   *)
(* corrections, moves, flags, checks) or updates the finding's row           *)
(* (investigate, accept).  What it writes is published by its commit, so      *)
(* other handlers come between the read and the write.                       *)
(*                                                                         *)
(* A row is named by the request that wrote it: movement[r], count r, and    *)
(* the finding r raised.  The stock cells that handlers read are folded      *)
(* from the movements later: "folded" is the set last folded.                *)
(***************************************************************************)
EXTENDS Integers, FiniteSets, FiniteSetsExt

CONSTANTS
    Requests,  \* HTTP requests, each sent once; a retry is another request
    Acts,      \* client_event ids
    Cells,     \* the bins the item may be in
    Nowhere,   \* the empty side of a movement
    Ask,       \* what each request asks for
    Together,  \* BOUND: the sets of requests one behaviour sends
    NoOne      \* no request

ActKinds  == {"counted", "adjusted", "corrected", "moved", "flagged", "checked"}
Kinds     == ActKinds \cup {"investigated", "accepted"}
Flags     == {"not_here", "found_here"}

\* n: the units counted, corrected, moved or seen.  of: the movement corrected, or
\* the finding settled, by its id or (byCount) by the count that raised it.
\* short: of a check, whether fewer were seen than expected.
ASSUME LedgerAssumption ==
    /\ NoOne \notin Requests /\ Nowhere \notin Cells
    /\ Together \subseteq SUBSET Requests
    /\ Ask \in [Requests -> [kind : Kinds, act : Acts, cell : Cells, to : Cells, n : Nat,
                             of : Requests \cup {NoOne}, byCount : BOOLEAN,
                             short : BOOLEAN, said : Flags, at : Nat]]
    /\ \A r \in Requests :
           /\ Ask[r].kind = "corrected" => Ask[r].n > 0
           /\ Ask[r].kind \in {"investigated", "accepted"} => Ask[r].of # NoOne

VARIABLES
    pc,         \* a request: "new", "checked", "claimed", "ended"
    seen,       \* what it read: the folded movements, and the findings' states
    holder,     \* per act, the request whose envelope is not committed yet
    envelopes,  \* acts with a committed client_event row
    movement,   \* per request, the movement it recorded, or NoMove
    counts,     \* committed stock_count rows
    system,     \* per count, the system quantity it was taken against
    finding,    \* per request, the state of the finding it raised
    resolving,  \* per finding, resolving_movement_id
    folded,     \* the movements the stock projection has folded
    listed,     \* the bins NetSuite's newest balance lists the item in
    outcome,    \* "none", "ok" or "refused"
    told,       \* the row a request was answered with, or NoOne
    before      \* HISTORY: requests that had ended when this one read

facts    == <<envelopes, movement, counts, system>>
findings == <<finding, resolving>>
answers  == <<outcome, told>>
vars     == <<pc, seen, holder, facts, findings, folded, listed, answers, before>>

Kind(r)    == Ask[r].kind
NoMove     == [n |-> 0, from |-> Nowhere, to |-> Nowhere, of |-> NoOne]
Unresolved == {"open", "investigating"}
States     == Unresolved \cup {"none", "resolved", "accepted"}

------------------------------------------------------------------------------
(* Folds of the movements *)

Moves          == {r \in Requests : movement[r] # NoMove}
MovesOf(a)     == {r \in Moves : Ask[r].act = a}
CountsOf(a)    == {r \in counts : Ask[r].act = a}
Into(c, m)     == (IF m.to = c THEN m.n ELSE 0) - (IF m.from = c THEN m.n ELSE 0)
Total(w, S)    == MapThenSumSet(LAMBDA r : w[r], S)
Balance(c, M)  == Total([r \in M |-> Into(c, movement[r])], M)

\* stock_movement_effective: what is left of a movement after its whole correction
\* subtree, the closed form the view states.
\* The movements that correct r, or, of NoOne, those that correct none.
Corrections(r) == {s \in Moves : movement[s].of = r}
Effective[r \in Requests] == movement[r].n - Total(Effective, Corrections(r))

Init ==
    /\ pc = [r \in Requests |-> "new"]
    /\ seen = [r \in Requests |-> [folded |-> {}, finding |-> [q \in Requests |-> "none"]]]
    /\ holder = [a \in Acts |-> NoOne]
    /\ envelopes = {}
    /\ movement = [r \in Requests |-> NoMove]
    /\ counts = {}
    /\ system = [r \in Requests |-> 0]
    /\ finding = [r \in Requests |-> "none"]
    /\ resolving = [r \in Requests |-> NoOne]
    /\ folded = {}
    /\ listed = {}
    /\ outcome = [r \in Requests |-> "none"]
    /\ told = [r \in Requests |-> NoOne]
    /\ before = [r \in Requests |-> {}]

------------------------------------------------------------------------------
(* Reading and refusing *)

System(r) == Balance(Ask[r].cell, seen[r].folded)
Variance(r) == Ask[r].n - System(r)

\* The finding an adjustment closes: the one named, or the unresolved one of the
\* count named.
FindingOf(r) ==
    LET f == Ask[r].of IN
    IF f = NoOne \/ (Ask[r].byCount /\ ~(Kind(f) = "counted" /\ finding[f] \in Unresolved))
    THEN NoOne ELSE f

\* adjusting::check, its hard problems: a finding that is missing, closed, about
\* NetSuite's balance, or about a count of another cell.
AdjustmentRefused(r) ==
    LET f == FindingOf(r) IN
    f # NoOne /\ \/ finding[f] \notin Unresolved
                 \/ Kind(f) = "flagged"
                 \/ Kind(f) = "counted" /\ Ask[f].cell # Ask[r].cell

\* correction::check: no such movement, or one correction of more than it moved.
CorrectionRefused(r) ==
    LET t == Ask[r].of IN t = NoOne \/ movement[t] = NoMove \/ Ask[r].n > movement[t].n

\* moving::check, its hard problems: no units, or the bin they are in.
MoveRefused(r) == Ask[r].n = 0 \/ Ask[r].cell = Ask[r].to

\* check_investigate and check_accept.
InvestigateRefused(r) == finding[Ask[r].of] \notin Unresolved
AcceptRefused(r)      == finding[Ask[r].of] \in {"none", "resolved"}

Refused(r) ==
    \/ Kind(r) = "adjusted" /\ AdjustmentRefused(r)
    \/ Kind(r) = "corrected" /\ CorrectionRefused(r)
    \/ Kind(r) = "moved" /\ MoveRefused(r)
    \/ Kind(r) = "investigated" /\ InvestigateRefused(r)
    \/ Kind(r) = "accepted" /\ AcceptRefused(r)

\* The transaction ends, and lets go of an envelope it had not committed.
End(r, how, row) ==
    /\ pc' = [pc EXCEPT ![r] = "ended"]
    /\ outcome' = [outcome EXCEPT ![r] = how]
    /\ told' = [told EXCEPT ![r] = row]
    /\ holder' = [a \in Acts |-> IF holder[a] = r THEN NoOne ELSE holder[a]]

Look(r) == /\ seen' = [seen EXCEPT ![r] = [folded |-> folded, finding |-> finding]]
           /\ before' = [before EXCEPT ![r] = {q \in Requests : pc[q] = "ended"}]

\* The statements before the first write.
Check(r) ==
    /\ pc[r] = "new"
    /\ \E S \in Together : {q \in Requests : pc[q] # "new"} \cup {r} \subseteq S
    /\ Look(r)
    /\ IF Refused(r)
       THEN End(r, "refused", NoOne)
       ELSE pc' = [pc EXCEPT ![r] = "checked"] /\ UNCHANGED <<holder, answers>>
    /\ UNCHANGED <<facts, findings, folded, listed>>

------------------------------------------------------------------------------
(* Acts *)

\* An adjustment that agrees with the system claims nothing.
Agrees(r) == Kind(r) = "adjusted" /\ Variance(r) = 0

\* claim_act, fresh.  A flag and a check read the open findings after it.
Claim(r) ==
    /\ pc[r] = "checked" /\ Kind(r) \in ActKinds /\ ~Agrees(r)
    /\ Ask[r].act \notin envelopes
    /\ holder[Ask[r].act] = NoOne
    /\ holder' = [holder EXCEPT ![Ask[r].act] = r]
    /\ pc' = [pc EXCEPT ![r] = "claimed"]
    /\ IF Kind(r) \in {"flagged", "checked"} THEN Look(r) ELSE UNCHANGED <<seen, before>>
    /\ UNCHANGED <<facts, findings, folded, listed, answers>>

\* MUTANT: the UPDATE names the finding alone.
ClosesAnyway(f, m) ==
    IF f # NoOne
    THEN /\ finding' = [finding EXCEPT ![f] = "resolved"]
         /\ resolving' = [resolving EXCEPT ![f] = m]
    ELSE UNCHANGED findings

\* The UPDATE that closes a finding asks for its state again.
Closes(f, m) ==
    IF f # NoOne /\ finding[f] \in Unresolved
    THEN /\ finding' = [finding EXCEPT ![f] = "resolved"]
         /\ resolving' = [resolving EXCEPT ![f] = m]
    ELSE UNCHANGED findings

Raise(r)   == finding' = [finding EXCEPT ![r] = "open"] /\ UNCHANGED resolving
Writes(r, m) == movement' = [movement EXCEPT ![r] = m] /\ UNCHANGED <<counts, system>>

\* record_count: the count, and a variance when the system says otherwise.
Count(r) ==
    /\ counts' = counts \cup {r}
    /\ system' = [system EXCEPT ![r] = System(r)]
    /\ IF Variance(r) # 0 THEN Raise(r) ELSE UNCHANGED findings
    /\ End(r, "ok", r)
    /\ UNCHANGED movement

\* MUTANT: what was counted is moved in, whatever the system had.
AdjustByCount(r) ==
    /\ Writes(r, [n |-> Ask[r].n, from |-> Nowhere, to |-> Ask[r].cell, of |-> NoOne])
    /\ Closes(FindingOf(r), r)
    /\ End(r, "ok", r)

\* record_adjustment: the variance is moved in, or out, and the finding closed.
\* The finding is the one that was read.
Adjust(r) ==
    LET d == Variance(r)
        f == IF Ask[r].of # NoOne /\ seen[r].finding[Ask[r].of] \in Unresolved
             THEN Ask[r].of ELSE NoOne
    IN
    /\ Writes(r, IF d > 0 THEN [n |-> d, from |-> Nowhere, to |-> Ask[r].cell, of |-> NoOne]
                          ELSE [n |-> -d, from |-> Ask[r].cell, to |-> Nowhere, of |-> NoOne])
    /\ Closes(f, r)
    /\ End(r, "ok", r)

\* MUTANT: the root of the chain is mirrored, and not the movement corrected.
CorrectTheRoot(r) ==
    LET t == movement[Ask[r].of]
        s == IF t.of = NoOne THEN t ELSE movement[t.of] IN
    /\ Writes(r, [n |-> Ask[r].n, from |-> s.to, to |-> s.from, of |-> Ask[r].of])
    /\ End(r, "ok", r)
    /\ UNCHANGED findings

\* record_correction: the movement corrected, the other way.
Correct(r) ==
    LET t == movement[Ask[r].of] IN
    /\ Writes(r, [n |-> Ask[r].n, from |-> t.to, to |-> t.from, of |-> Ask[r].of])
    /\ End(r, "ok", r)
    /\ UNCHANGED findings

\* record_move.
Move(r) ==
    /\ Writes(r, [n |-> Ask[r].n, from |-> Ask[r].cell, to |-> Ask[r].to, of |-> NoOne])
    /\ End(r, "ok", r)
    /\ UNCHANGED findings

\* Findings of what r is about: a flag's of its bin and what it said, a check's of
\* its line (the line a check is about is its cell).
Alike(r) == {q \in Requests : /\ Kind(q) = Kind(r) /\ Ask[q].cell = Ask[r].cell
                              /\ Kind(r) = "flagged" => Ask[q].said = Ask[r].said}
LastOf(S) == CHOOSE q \in S : \A p \in S : Ask[p].at <= Ask[q].at

\* MUTANT: a finding somebody is looking into is not counted as open.
StillOpenUntouched(r) == {q \in Alike(r) : seen[r].finding[q] = "open"}

StillOpen(r) == {q \in Alike(r) : seen[r].finding[q] \in Unresolved}

\* flag_bin: the finding that is open already, or a new one when NetSuite's balance
\* and the person disagree.  A refusal takes the envelope back with it.
Flag(r) ==
    /\ IF StillOpen(r) # {}
       THEN End(r, "ok", LastOf(StillOpen(r))) /\ UNCHANGED findings
       ELSE IF (Ask[r].said = "not_here") = (Ask[r].cell \in listed)
            THEN End(r, "ok", r) /\ Raise(r)
            ELSE End(r, "refused", NoOne) /\ UNCHANGED findings
    /\ UNCHANGED <<movement, counts, system>>

\* check_line and short: a short line is a finding, unless one is open on it.
CheckLine(r) ==
    /\ IF Ask[r].short /\ StillOpen(r) = {} THEN Raise(r) ELSE UNCHANGED findings
    /\ End(r, "ok", r)
    /\ UNCHANGED <<movement, counts, system>>

\* The facts are written and the transaction commits.
Record(r) ==
    /\ pc[r] = "claimed"
    /\ \/ Kind(r) = "counted" /\ Count(r)
       \/ Kind(r) = "adjusted" /\ Adjust(r)
       \/ Kind(r) = "corrected" /\ Correct(r)
       \/ Kind(r) = "moved" /\ Move(r)
       \/ Kind(r) = "flagged" /\ Flag(r)
       \/ Kind(r) = "checked" /\ CheckLine(r)
    /\ envelopes' = IF outcome'[r] = "ok" THEN envelopes \cup {Ask[r].act} ELSE envelopes
    /\ UNCHANGED <<seen, folded, listed, before>>

------------------------------------------------------------------------------
(* Acts that landed before *)

TellOr(r, S, else) ==
    IF S = {} THEN End(r, else, NoOne) ELSE End(r, "ok", CHOOSE p \in S : TRUE)

\* claim_act finds the envelope: require_count_facts, require_one_movement,
\* optional_one_movement and reject_quantity_mismatch; a flag's newest finding.
Replay(r) ==
    LET a == Ask[r].act IN
    /\ pc[r] = "checked" /\ Kind(r) \in ActKinds /\ ~Agrees(r)
    /\ a \in envelopes
    /\ \/ Kind(r) = "counted"
          /\ TellOr(r, {p \in CountsOf(a) : Ask[p].n = Ask[r].n}, "refused")
       \/ Kind(r) = "adjusted" /\ TellOr(r, MovesOf(a), "ok")
       \/ Kind(r) \in {"corrected", "moved"}
          /\ TellOr(r, {p \in MovesOf(a) : movement[p].n = Ask[r].n}, "refused")
       \/ Kind(r) = "flagged"
          /\ LET F == {q \in Alike(r) : finding[q] # "none"} IN
             IF F = {} THEN End(r, "refused", NoOne) ELSE End(r, "ok", LastOf(F))
       \/ Kind(r) = "checked" /\ End(r, "ok", NoOne)
    /\ UNCHANGED <<seen, facts, findings, folded, listed, before>>

\* A variance of zero: the act may be what made it zero, so its movement is looked
\* for.  With one, the finding that was read is closed as if it had just moved.
Agree(r) ==
    /\ pc[r] = "checked" /\ Agrees(r)
    /\ TellOr(r, MovesOf(Ask[r].act), "ok")
    /\ IF MovesOf(Ask[r].act) # {} /\ Ask[r].of # NoOne
          /\ seen[r].finding[Ask[r].of] \in Unresolved
       THEN Closes(Ask[r].of, CHOOSE p \in MovesOf(Ask[r].act) : TRUE)
       ELSE UNCHANGED findings
    /\ UNCHANGED <<seen, facts, folded, listed, before>>

------------------------------------------------------------------------------
(* Investigating and accepting a finding *)

\* investigate_discrepancy's UPDATE.  Nothing updated is a refusal, unless the
\* finding was under investigation already when it was read.
Investigate(r) ==
    LET f == Ask[r].of IN
    /\ pc[r] = "checked" /\ Kind(r) = "investigated"
    /\ IF finding[f] \in Unresolved
       THEN finding' = [finding EXCEPT ![f] = "investigating"] /\ End(r, "ok", f)
       ELSE /\ UNCHANGED finding
            /\ IF seen[r].finding[f] = "investigating" THEN End(r, "ok", f)
                                                       ELSE End(r, "refused", NoOne)
    /\ UNCHANGED <<seen, facts, resolving, folded, listed, before>>

\* accept_discrepancy's UPDATE.
Accept(r) ==
    LET f == Ask[r].of IN
    /\ pc[r] = "checked" /\ Kind(r) = "accepted"
    /\ IF finding[f] \in Unresolved \cup {"accepted"}
       THEN finding' = [finding EXCEPT ![f] = "accepted"] /\ End(r, "ok", f)
       ELSE /\ UNCHANGED finding
            /\ IF seen[r].finding[f] = "accepted" THEN End(r, "ok", f)
                                                  ELSE End(r, "refused", NoOne)
    /\ UNCHANGED <<seen, facts, resolving, folded, listed, before>>

------------------------------------------------------------------------------
\* A rebuild brings the stock projection up to the movements.
Drain ==
    /\ folded # Moves
    /\ folded' = Moves
    /\ UNCHANGED <<pc, seen, holder, facts, findings, listed, answers, before>>

\* NetSuite's balance is imported: it lists the item in a bin, or no longer does.
\* (Only the bins that a flag names matter.)
Import(c) ==
    /\ listed' = IF c \in listed THEN listed \ {c} ELSE listed \cup {c}
    /\ UNCHANGED <<pc, seen, holder, facts, findings, folded, answers, before>>

Serve(r) == Claim(r) \/ Record(r) \/ Replay(r) \/ Agree(r) \/ Investigate(r) \/ Accept(r)

Next ==
    \/ \E r \in Requests : Check(r) \/ Serve(r)
    \/ Drain
    \/ \E r \in Requests : Kind(r) = "flagged" /\ Import(Ask[r].cell)

Spec == Init /\ [][Next]_vars

------------------------------------------------------------------------------
\* Every variable stays in its range, and a finding names a resolving movement exactly
\* when it is resolved.
TypeOK ==
    /\ pc \in [Requests -> {"new", "checked", "claimed", "ended"}]
    /\ seen \in [Requests -> [folded : SUBSET Requests, finding : [Requests -> States]]]
    /\ holder \in [Acts -> Requests \cup {NoOne}]
    /\ envelopes \subseteq Acts
    /\ movement \in [Requests -> [n : Nat, from : Cells \cup {Nowhere},
                                  to : Cells \cup {Nowhere}, of : Requests \cup {NoOne}]]
    /\ counts \subseteq Requests
    /\ system \in [Requests -> Int]
    /\ finding \in [Requests -> States]
    /\ resolving \in [Requests -> Requests \cup {NoOne}]
    /\ \A f \in Requests : resolving[f] # NoOne <=> finding[f] = "resolved"
    /\ folded \subseteq Moves
    /\ listed \subseteq Cells
    /\ outcome \in [Requests -> {"none", "ok", "refused"}]
    /\ told \in [Requests -> Requests \cup {NoOne}]
    /\ before \in [Requests -> SUBSET Requests]

\* Said twice, a short line or a wrong bin is one open finding, unless the two
\* requests overlapped: nothing orders the look for an open finding and its insert.
OneOpenFinding ==
    LET O == {f \in Requests : finding[f] \in Unresolved /\ Kind(f) \in {"flagged", "checked"}}
    IN  \A p, q \in O : p # q /\ q \in Alike(p) => p \notin before[q] /\ q \notin before[p]

\* A finding is settled once: whatever investigations, acceptances, adjustments and
\* retries of them race, one that is resolved or accepted stays as it is, with the
\* movement that resolved it, and that movement is in the ledger; until then it is the one
\* open finding of what it says.
SettledOnce ==
    [][/\ OneOpenFinding'
       /\ \A f \in Requests : finding[f] \in {"resolved", "accepted"} =>
             /\ finding'[f] = finding[f]
             /\ resolving'[f] = resolving[f]
             /\ finding[f] = "resolved" => resolving[f] \in Moves']_vars

\* Two readers of the ledger agree on what a correction does: the balance of a cell
\* is what the uncorrected movements moved, each counted at its effective quantity,
\* however corrections of corrections were chained.
CorrectionsNet ==
    \A c \in Cells :
        Balance(c, Moves) =
            LET R == Corrections(NoOne) IN
            Total([r \in R |-> Into(c, [movement[r] EXCEPT !.n = Effective[r]])], R)

\* An adjustment leaves in the ledger what was counted, unless a movement of its
\* cell was not folded yet when it read the cell: the variance is computed from a
\* projection, and nothing else makes it wrong.
AdjustedToTheCount ==
    [][\A r \in Requests :
          LET c == Ask[r].cell IN
          Kind(r) = "adjusted" /\ r \in Moves' \ Moves
          /\ {m \in Moves : Into(c, movement[m]) # 0} \subseteq seen[r].folded
          => (Balance(c, Moves))' = Ask[r].n]_vars

\* A copy of an adjustment whose movement is in the ledger is told that movement, also
\* when the movement is what made the variance zero, unless it is refused.
AdjustmentRetryTold ==
    [][\A r \in Requests :
          Kind(r) = "adjusted" /\ outcome[r] = "none" /\ outcome'[r] = "ok"
          /\ MovesOf(Ask[r].act) # {}
          => told'[r] \in MovesOf(Ask[r].act)]_vars
==============================================================================
