--------------------------------- MODULE Policy ---------------------------------
(***************************************************************************)
(* Which rule governs: the bindings that match a request at an instant, the   *)
(* one that wins by the order of its kind, and the fields a less specific     *)
(* match clamps; and the line of a receipt that is decided by them as of the   *)
(* instant it was counted, whenever it arrives.                              *)
(*                                                                         *)
(* The receiver's screen resolves the same policy when it is read, to say     *)
(* whether a lot is asked for.  Between that and the line's arrival the       *)
(* configuration changes: a binding is made, revalued, retired or superseded,  *)
(* an item is classified elsewhere.  No handler writes the configuration: it   *)
(* is changed in the database, under its constraints.                        *)
(***************************************************************************)
EXTENDS Integers, FiniteSets, SequencesExt

CONSTANTS
    Bindings,     \* the bindings that may come to be
    Scope,        \* per binding: its kind, whether it is a tenant's, and its axes
    Rank,         \* the order of their ids
    FirstBound,   \* the bindings there are at first, in force from the instant 0
    FirstStates,  \* per binding of these, the values it states
    Values,       \* per kind, the values a version may state
    Parents,      \* per class, itself and the classes above it
    Classes,      \* the class each item and party is of at first, or Unsaid
    CountedLines, \* lines a receiver counts
    Says,         \* per line: item, party and site, what is expected, and what is counted
    Config,       \* the packing config: its item, what each rung holds, from when it applies
    Cases,        \* requests whose answer is watched
    Horizon,      \* BOUND: the last instant
    Edits,        \* BOUND: changes of the configuration
    Unsaid           \* an axis not declared, a value not stated

VARIABLES
    clock,     \* the instant
    edits,     \* BOUND: changes so far
    bound,     \* the bindings there are
    succeeds,  \* pairs: a binding, and the one it supersedes
    versions,  \* the versions of their values
    classOf,   \* the class of each item and party
    readAt,    \* per line, the instant its screen was read and it was counted, or -1
    shown,     \* what that read resolved
    moved,     \* HISTORY: lines whose answer the configuration took back before they arrived
    disposed,  \* per line, the decision stored with it
    answered,  \* per line, the answers its act was given from what is stored
    golden     \* the recorded answers of the cases, at instants gone by

policy == <<bound, succeeds, versions, classOf>>
dock   == <<readAt, shown, moved, disposed, answered>>
pvars  == <<clock, edits, policy, dock, golden>>

------------------------------------------------------------------------------
(* The order of each kind, and what clamps *)

PartyThenProduct == <<"tenancy", "counterparty", "product", "space", "ownership", "metric">>
ProductThenSpace == <<"tenancy", "product", "space", "counterparty", "ownership", "metric">>

Dimensions ==
    [allocation             |-> PartyThenProduct,
     receiving              |-> PartyThenProduct,
     order_tolerance        |-> PartyThenProduct,
     shelf_life             |-> PartyThenProduct,
     putaway                |-> ProductThenSpace,
     count_tolerance        |-> ProductThenSpace,
     cycle_count            |-> ProductThenSpace,
     sampling               |-> <<"tenancy", "product", "counterparty", "space", "ownership", "metric">>,
     specification          |-> <<"tenancy", "metric", "product", "counterparty", "space", "ownership">>,
     observation_precedence |-> <<"tenancy", "metric", "counterparty", "product", "space", "ownership">>,
     observation_acceptance |-> <<"tenancy", "counterparty", "metric", "product", "space", "ownership">>]

OrderingIsWellFormed(k) ==
    /\ Dimensions[k][1] = "tenancy"
    /\ Len(Dimensions[k]) = 6 /\ IsInjective(Dimensions[k])

ClampedFields ==
    [shelf_life             |-> [min_shelf_life_days |-> "floor", min_shelf_life_pct |-> "floor"],
     receiving              |-> [respond_by_hours |-> "ceiling", tolerance_over_pct |-> "ceiling",
                                 tolerance_under_pct |-> "ceiling", require_lot |-> "floor"],
     observation_precedence |-> [prefer_own |-> "floor", accept_counterparty |-> "ceiling"]]

\* A value that is clamped is a number.
Figures(k, states) ==
    k \in DOMAIN ClampedFields =>
        \A f \in DOMAIN states \cap DOMAIN ClampedFields[k] : states[f] \in Int

ASSUME PolicyAssumption ==
    /\ Unsaid \notin Bindings /\ FirstBound \subseteq Bindings /\ IsFiniteSet(FirstBound)
    /\ \A k \in DOMAIN Dimensions : OrderingIsWellFormed(k)
    /\ Rank \in [Bindings -> Nat]
    /\ \A a, b \in Bindings : a # b => Rank[a] # Rank[b] /\ Scope[a] # Scope[b]
    /\ \A c \in DOMAIN Parents : IsFiniteSet(Parents[c])
    /\ \A b \in Bindings : /\ Scope[b].kind \in DOMAIN Dimensions
                          /\ {Scope[b].axes.item_class, Scope[b].axes.party_class}
                                 \subseteq {Unsaid} \cup DOMAIN Parents
                          /\ \A states \in Values[Scope[b].kind] : Figures(Scope[b].kind, states)
    /\ \A b \in FirstBound : Figures(Scope[b].kind, FirstStates[b])
    /\ \A c \in Cases : c.kind \in DOMAIN Dimensions
    /\ \A l \in CountedLines : Says[l].kind = "receiving"
    /\ Horizon \in Nat

------------------------------------------------------------------------------
(* How specific a binding is *)

NodeDepth(leaf, class) ==
    IF leaf # Unsaid THEN 1000 ELSE IF class # Unsaid THEN Cardinality(Parents[class]) ELSE 0

Depths(b) ==
    LET at == Scope[b].axes
        Declared(x) == IF x = Unsaid THEN 0 ELSE 1
    IN  [tenancy      |-> IF Scope[b].tenant THEN 1 ELSE 0,
         product      |-> NodeDepth(at.item, at.item_class),
         counterparty |-> NodeDepth(at.party, at.party_class),
         space        |-> IF at.zone # Unsaid THEN 2 ELSE Declared(at.site),
         ownership    |-> Declared(at.owner),
         metric       |-> Declared(at.metric)]

\* On the i-th dimension of the kind.
Depth(k, a, i) == Depths(a)[Dimensions[k][i]]

\* Where in the order of the kind two bindings differ; the first of these decides.
Apart(k, a, b) == {i \in DOMAIN Dimensions[k] : Depth(k, a, i) # Depth(k, b, i)}

\* resolve's comparison: the deeper on the first dimension they differ on, and the
\* lower id when there is none.
Before(k, a, b) ==
    LET apart == Apart(k, a, b) IN
    IF apart = {} THEN Rank[a] < Rank[b] ELSE Depth(k, a, Min(apart)) > Depth(k, b, Min(apart))

Ahead ==
    {p \in (DOMAIN Dimensions) \X Bindings \X Bindings : p[2] # p[3] /\ Before(p[1], p[2], p[3])}

------------------------------------------------------------------------------
(* What matches, and what wins *)

ClassesAbove(x) == IF x = Unsaid \/ classOf[x] = Unsaid THEN {} ELSE Parents[classOf[x]]

\* policy_candidate: every axis it declares is at or above what is asked.  The
\* receipt and the screen ask about no zone, owner or metric.
Matches(b, ask) ==
    LET at == Scope[b].axes IN
    /\ at.item_class  \in {Unsaid} \cup ClassesAbove(ask.item)
    /\ at.item        \in {Unsaid, ask.item}
    /\ at.party_class \in {Unsaid} \cup ClassesAbove(ask.party)
    /\ at.party       \in {Unsaid, ask.party}
    /\ at.site        \in {Unsaid, ask.site}
    /\ {at.zone, at.owner, at.metric} = {Unsaid}

InForce(v, t) == v.from <= t /\ t < v.till

VersionsAt(b, t) == {v \in versions : v.of = b /\ InForce(v, t)}

Candidates(k, ask, t) ==
    {b \in bound : /\ Scope[b].kind = k
                   /\ \A p \in succeeds : p[2] # b
                   /\ Matches(b, ask) /\ VersionsAt(b, t) # {}}

Foremost(k, A) == CHOOSE a \in A : \A b \in A \ {a} : <<k, a, b>> \in Ahead

\* What decided against the runner-up; nothing, when they tie.
DecidedOn(k, w, rest) ==
    LET apart == IF rest = {} THEN {} ELSE Apart(k, w, Foremost(k, rest)) IN
    IF apart = {} THEN "sole" ELSE Dimensions[k][Min(apart)]

AmbiguousWith(k, w, rest) == {b \in rest : Apart(k, w, b) = {}}

------------------------------------------------------------------------------
(* The values *)

ValueAt(b, t) == (CHOOSE v \in VersionsAt(b, t) : TRUE).states

\* MUTANT: what the winner states is what applies.
Unclamped(k, said, values) == said

\* apply_clamps: a field the winner states is no looser than any match's; one it does
\* not state is not clamped.
Applied(k, said, values) ==
    LET directions == IF k \in DOMAIN ClampedFields THEN ClampedFields[k] ELSE <<>>
        Stated(f)  == {v[f] : v \in {v \in values : f \in DOMAIN v}}
    IN  [f \in DOMAIN said |->
            IF f \notin DOMAIN directions THEN said[f]
            ELSE IF directions[f] = "floor" THEN Max(Stated(f)) ELSE Min(Stated(f))]

NoPolicy == [winner |-> Unsaid, from |-> -1, decided |-> "nothing", tied |-> {}, values |-> <<>>]

Answer(k, w, A, t) ==
    [winner  |-> w,
     from    |-> (CHOOSE v \in VersionsAt(w, t) : TRUE).from,
     decided |-> DecidedOn(k, w, A \ {w}),
     tied    |-> AmbiguousWith(k, w, A \ {w}),
     values  |-> Applied(k, ValueAt(w, t), {ValueAt(b, t) : b \in A})]

AnswerAmong(k, A, t) == IF A = {} THEN NoPolicy ELSE Answer(k, Foremost(k, A), A, t)

\* resolve_receiving_policy, and observe for the kinds that are watched.
Resolution(k, ask, t) == AnswerAmong(k, Candidates(k, ask, t), t)

------------------------------------------------------------------------------
(* The count and the decision *)

\* packing_factor, of a level by its number: each is 0.
Factor(level) == FoldLeft(LAMBDA x, y : x * y, 1, SubSeq(Config.rungs, 1, level))

Converts(say) ==
    IF say.entered = Unsaid THEN say.base ELSE say.entered * Factor(say.level)

\* resolve_count accepts it, and record_receipt the config it names at the instant.
CountIsGood(say, t) ==
    /\ say.config => Config.from <= t
    /\ \/ {say.entered, say.level} = {Unsaid} /\ say.base # Unsaid /\ say.base > 0
       \/ /\ Unsaid \notin {say.entered, say.level} /\ say.entered > 0
          /\ say.level <= IF say.config THEN Len(Config.rungs) ELSE 0
          /\ say.config => Config.item = say.item
          /\ Converts(say) > 0
          /\ say.base \in {Unsaid, Converts(say)}

Within(values, say) ==
    /\ "tolerance_over_pct" \in DOMAIN values
    /\ (Converts(say) - say.expected) * 100 <= say.expected * values.tolerance_over_pct

\* disposition
Raises(values, say) ==
    IF values.require_lot = 1 /\ ~say.lot THEN "lot_missing"
    ELSE IF Converts(say) > say.expected /\ ~Within(values, say) THEN "over_receipt" ELSE "nothing"

Undecided == [winner |-> Unsaid, from |-> -1, raised |-> "nothing"]

Decided(r, say) == [winner |-> r.winner, from |-> r.from, raised |-> Raises(r.values, say)]

------------------------------------------------------------------------------
(* The configuration changes *)

PolicyInit ==
    /\ clock = 0 /\ edits = 0
    /\ bound = FirstBound
    /\ succeeds = {}
    /\ versions = {[of |-> b, from |-> 0, till |-> Horizon + 1, states |-> FirstStates[b]] : b \in FirstBound}
    /\ classOf = Classes
    /\ readAt = [l \in CountedLines |-> -1]
    /\ shown = [l \in CountedLines |-> NoPolicy]
    /\ moved = {}
    /\ disposed = [l \in CountedLines |-> Undecided]
    /\ answered = [l \in CountedLines |-> {}]
    /\ golden = {}

Waiting == {l \in CountedLines : readAt[l] >= 0 /\ disposed[l] = Undecided}

Edit(taken, stands) ==
    /\ edits < Edits /\ edits' = edits + 1
    /\ moved' = moved \cup (Waiting \cap taken)
    /\ golden' = stands
    /\ UNCHANGED <<clock, readAt, shown, disposed, answered>>

\* What begins or ends now takes back what was read at this very instant; what reaches
\* into the past takes back everything, the recorded answers too.
ReadNow == {l \in CountedLines : readAt[l] = clock}

Opens(b, states) == [of |-> b, from |-> clock, till |-> Horizon + 1, states |-> states]

Bind(b, states) ==
    /\ b \notin bound
    /\ bound' = bound \cup {b}
    /\ versions' = versions \cup {Opens(b, states)}
    /\ Edit(ReadNow, golden)
    /\ UNCHANGED <<succeeds, classOf>>

\* "A change of scope is a new binding superseding the old."
Supersede(b, old, states) ==
    /\ b \notin bound /\ old \in bound /\ Scope[b].kind = Scope[old].kind
    /\ bound' = bound \cup {b}
    /\ succeeds' = succeeds \cup {<<b, old>>}
    /\ versions' = versions \cup {Opens(b, states)}
    /\ Edit(CountedLines, {})
    /\ UNCHANGED classOf

Close(v) == (versions \ {v}) \cup {[v EXCEPT !.till = clock]}

Running(v) == v.till > Horizon /\ v.from < clock

Revalue(v, states) ==
    /\ Running(v) /\ states # v.states
    /\ versions' = Close(v) \cup {Opens(v.of, states)}
    /\ Edit(ReadNow, golden)
    /\ UNCHANGED <<bound, succeeds, classOf>>

Retire(v) ==
    /\ Running(v)
    /\ versions' = Close(v)
    /\ Edit(ReadNow, golden)
    /\ UNCHANGED <<bound, succeeds, classOf>>

Classify(x, class) ==
    /\ classOf[x] # class
    /\ classOf' = [classOf EXCEPT ![x] = class]
    /\ Edit(CountedLines, {})
    /\ UNCHANGED <<bound, succeeds, versions>>

------------------------------------------------------------------------------
(* The dock *)

\* The receiving screen is read, and the line counted by it.
Count(l) ==
    /\ readAt[l] = -1
    /\ Resolution("receiving", Says[l], clock) # NoPolicy
    /\ readAt' = [readAt EXCEPT ![l] = clock]
    /\ shown' = [shown EXCEPT ![l] = Resolution("receiving", Says[l], clock)]
    /\ UNCHANGED <<clock, edits, policy, moved, disposed, answered, golden>>

\* MUTANT: as of now, when it arrives.
ArriveAsOfNow(l) ==
    LET r == Resolution("receiving", Says[l], clock) IN
    /\ l \in Waiting /\ CountIsGood(Says[l], readAt[l]) /\ r # NoPolicy
    /\ disposed' = [disposed EXCEPT ![l] = Decided(r, Says[l])]
    /\ UNCHANGED <<clock, edits, policy, readAt, shown, moved, answered, golden>>

\* record_receipt, its act claimed: the policy as of when it was counted.  A count that
\* cannot be converted is refused, and so is one no policy matches.
Arrive(l) ==
    LET r == Resolution("receiving", Says[l], readAt[l]) IN
    /\ l \in Waiting /\ CountIsGood(Says[l], readAt[l]) /\ r # NoPolicy
    /\ disposed' = [disposed EXCEPT ![l] = Decided(r, Says[l])]
    /\ UNCHANGED <<clock, edits, policy, readAt, shown, moved, answered, golden>>

\* MUTANT: the policy is resolved again for a retry.
ResendResolved(l) ==
    LET r == Resolution("receiving", Says[l], readAt[l]) IN
    /\ disposed[l] # Undecided /\ r # NoPolicy
    /\ answered' = [answered EXCEPT ![l] = @ \cup {Decided(r, Says[l])}]
    /\ UNCHANGED <<clock, edits, policy, readAt, shown, moved, disposed, golden>>

\* The same act again: answered from its line, whatever is configured by now.
Resend(l) ==
    /\ disposed[l] # Undecided
    /\ answered' = [answered EXCEPT ![l] = @ \cup {disposed[l]}]
    /\ UNCHANGED <<clock, edits, policy, readAt, shown, moved, disposed, golden>>

\* Time passes, and what the instant answered is recorded: observe and render.
Tick ==
    /\ clock < Horizon /\ clock' = clock + 1
    /\ golden' = golden \cup {[case |-> c, at |-> clock, answer |-> Resolution(c.kind, c, clock)] : c \in Cases}
    /\ UNCHANGED <<edits, policy, dock>>

PolicyNext ==
    \/ Tick
    \/ \E b \in Bindings : \E states \in Values[Scope[b].kind] :
          Bind(b, states) \/ \E old \in bound : Supersede(b, old, states)
    \/ \E v \in versions : Retire(v) \/ \E states \in Values[Scope[v.of].kind] : Revalue(v, states)
    \/ \E x \in DOMAIN classOf : \E class \in DOMAIN Parents : Classify(x, class)
    \/ \E l \in CountedLines : Count(l) \/ Arrive(l) \/ Resend(l)

PolicySpec == PolicyInit /\ [][PolicyNext]_pvars

------------------------------------------------------------------------------
\* A past answer stands: what is configured from now on does not change which rule
\* governed an instant gone by, what decided it or what clamped it, for any kind that is
\* watched.  (A superseded binding is no candidate for its own past either, and a
\* classification has no past.)
PastAnswersStand == \A g \in golden : g.answer = Resolution(g.case.kind, g.case, g.at)

\* A line is governed by the version its receiver was shown, and refused for a lot only
\* when one was asked for, unless that was taken back before it arrived.
LinesAsShown ==
    \A l \in CountedLines : disposed[l] # Undecided /\ l \notin moved =>
        /\ disposed[l].winner = shown[l].winner /\ disposed[l].from = shown[l].from
        /\ disposed[l].raised = "lot_missing" => shown[l].values.require_lot = 1

RetriesAlike == \A l \in CountedLines : answered[l] \subseteq {disposed[l]}

\* A tenant's own rule wins, and no field that clamps is looser than any match states.
NoLooser(directions, r, values) ==
    \A f \in DOMAIN r.values \cap DOMAIN directions : \A v \in values : f \in DOMAIN v =>
        IF directions[f] = "floor" THEN r.values[f] >= v[f] ELSE r.values[f] <= v[f]

NeverLooser(k, A, r, t) ==
    A # {} => /\ (\E b \in A : Scope[b].tenant) => Scope[r.winner].tenant
              /\ k \in DOMAIN ClampedFields =>
                     NoLooser(ClampedFields[k], r, {ValueAt(b, t) : b \in A})

\* Goods are judged by the rules of the moment they were counted, whatever became of the
\* configuration, the network and the retries in between, and by no looser rule than any
\* that matches.
GovernedAsItHappened ==
    /\ PastAnswersStand /\ LinesAsShown /\ RetriesAlike
    /\ \A g \in golden :
          NeverLooser(g.case.kind, Candidates(g.case.kind, g.case, g.at), g.answer, g.at)
==============================================================================
