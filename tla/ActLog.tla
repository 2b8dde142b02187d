-------------------------------- MODULE ActLog --------------------------------
(***************************************************************************)
(* What the act envelope promises (D5, client_events.rs): an act that is    *)
(* sent any number of times is recorded at most once, by one of the         *)
(* requests that carried it, and every request answered with success is     *)
(* told what that one recorded.  A request may be refused or fail whenever. *)
(***************************************************************************)
CONSTANTS Requests, Acts, ActOf, NoOne

VARIABLES
    log,      \* per act, the request that recorded it, or NoOne
    outcome,  \* per request: "none", "ok", "refused" or "failed"
    told      \* per request answered "ok", the request whose facts it was told

avars == <<log, outcome, told>>

AInit ==
    /\ log = [a \in Acts |-> NoOne]
    /\ outcome = [r \in Requests |-> "none"]
    /\ told = [r \in Requests |-> NoOne]

\* The first success writes the facts and is told them.
ARecord(r) ==
    /\ outcome[r] = "none"
    /\ log[ActOf[r]] = NoOne
    /\ log' = [log EXCEPT ![ActOf[r]] = r]
    /\ told' = [told EXCEPT ![r] = r]
    /\ outcome' = [outcome EXCEPT ![r] = "ok"]

\* A replay writes nothing and is told what the first one recorded.
AReplay(r) ==
    /\ outcome[r] = "none"
    /\ log[ActOf[r]] # NoOne
    /\ told' = [told EXCEPT ![r] = log[ActOf[r]]]
    /\ outcome' = [outcome EXCEPT ![r] = "ok"]
    /\ log' = log

ATurnDown(r) ==
    /\ outcome[r] = "none"
    /\ outcome' \in {[outcome EXCEPT ![r] = o] : o \in {"refused", "failed"}}
    /\ UNCHANGED <<log, told>>

ANext == \E r \in Requests : ARecord(r) \/ AReplay(r) \/ ATurnDown(r)

ASpec == AInit /\ [][ANext]_avars
==============================================================================
