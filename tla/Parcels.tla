-------------------------------- MODULE Parcels --------------------------------
(***************************************************************************)
(* The parcels of an order and how they are nested: the bench's plan of      *)
(* parcels to make, a parcel made from it, put at a location or onto a        *)
(* pallet, and booked with a carrier as part of a consignment.               *)
(*                                                                         *)
(* Making, placing and containing are acts of one READ COMMITTED transaction *)
(* each (PackageActs): rows are read, the act's envelope is claimed, and the  *)
(* facts are published by the commit.  Saving the plan locks the order's row. *)
(* Booking has no envelope: the consignment's id makes a retry a replay, and  *)
(* a unique index decides who gets a parcel.                                 *)
(*                                                                         *)
(* Whether a parcel is sealed, despatched or voided is PackageActs' part:     *)
(* here it may read as one it cannot be done to at any time, and the request  *)
(* is refused.  An event is named by the request that recorded it.           *)
(***************************************************************************)
EXTENDS Integers, FiniteSets, Sequences, SequencesExt

CONSTANTS
    Requests,   \* HTTP requests, each sent once; a retry is another request
    Acts,       \* client_event ids, and the ids of consignments
    Packages,   \* the ids parcels have, planned or made
    OfOrder,    \* those that are the order's; the others are breakdown pallets
    BreaksDown, \* pallets broken down at the depot, as they are made
    Ask,        \* what each request asks for
    Together,   \* BOUND: the sets of requests of one behaviour: sent, and earlier
    Longest,    \* how many packages a walk goes through: 16 in the code
    NoOne       \* no request, no package

Kinds   == {"created", "placed", "contained", "planned", "booked"}
Placing == {"created", "placed", "contained"}

\* A wrap, a pallet and a carton.
MostLevels == 3

ASSUME ParcelsAssumption ==
    /\ NoOne \notin Requests \cup Packages
    /\ Longest \in Nat /\ Longest > MostLevels + 1
    /\ BreaksDown \subseteq Packages /\ OfOrder \subseteq Packages
    /\ \A t \in Together :
          /\ t.sent \cup t.earlier \subseteq Requests
          /\ t.sent \cap t.earlier = {}
          /\ \A r \in t.earlier : Ask[r].kind = "created"
          /\ \A q, r \in t.earlier :
                q # r => Ask[q].pkg # Ask[r].pkg /\ Ask[q].act # Ask[r].act
    /\ \A r \in Requests :
          /\ Ask[r].kind \in Kinds /\ Ask[r].act \in Acts /\ Ask[r].at \in Nat
          /\ Ask[r].pkg \in Packages /\ Ask[r].parent \in Packages \cup {NoOne}
          /\ Ask[r].load \in Seq(Packages)
          /\ Ask[r].kind # "contained" => Ask[r].parent = NoOne
          /\ DOMAIN Ask[r].plan \subseteq OfOrder
    \* Placements of a package are in one order: by time, by when recorded, by id.
    /\ \A q, r \in Requests :
          /\ {Ask[q].kind, Ask[r].kind} \subseteq Placing
          /\ Ask[q].pkg = Ask[r].pkg /\ Ask[q].act # Ask[r].act
          => Ask[q].at # Ask[r].at

VARIABLES
    pc,        \* "new", "checked", "claimed", "locked", "counted", "booking", "ended"
    holder,    \* per act, the request whose envelope or consignment is not committed yet
    envelopes, \* acts and consignments that are committed
    packages,  \* committed package rows
    events,    \* committed package_event rows that assert a placement
    plan,      \* per planned parcel, what it goes on, and whether that is made already
    lock,      \* the request that holds the order's row
    closed,    \* whether the order is closed
    rows,      \* consignment_package rows, <<request, package>>
    outcome,   \* "none", "ok", "refused" or "failed"
    before     \* HISTORY: requests that had ended when this one read

acts == <<holder, envelopes>>
vars == <<pc, acts, packages, events, plan, lock, closed, rows, outcome, before>>

Kind(r) == Ask[r].kind

\* The acts of some earlier requests have landed: parcels made.
Init ==
    \E t \in Together :
        /\ pc = [r \in Requests |-> IF r \in t.sent THEN "new" ELSE "ended"]
        /\ holder = [a \in Acts |-> NoOne]
        /\ envelopes = {Ask[r].act : r \in t.earlier}
        /\ packages = {Ask[r].pkg : r \in t.earlier}
        /\ events = t.earlier
        /\ plan = <<>>
        /\ lock = NoOne
        /\ closed = FALSE
        /\ rows = {}
        /\ outcome = [r \in Requests |-> IF r \in t.earlier THEN "ok" ELSE "none"]
        /\ before = [r \in Requests |-> IF r \in t.earlier THEN t.earlier ELSE {}]

------------------------------------------------------------------------------
(* What is in or on what *)

\* package_parent_now: the parent the newest placement names, if it names one.
Parent(p) ==
    LET E == {e \in events : Ask[e].pkg = p} IN
    IF E = {} THEN NoOne
    ELSE Ask[CHOOSE e \in E : \A f \in E : Ask[f].at <= Ask[e].at].parent

\* Up from p: p, what it is in or on, what that is in or on, and so on.
Walk(p) ==
    LET up == [q \in Packages \cup {NoOne} |-> IF q = NoOne THEN NoOne ELSE Parent(q)]
        w[n \in 1 .. Longest] == IF n = 1 THEN p ELSE up[w[n - 1]]
    IN  w

Above(p)      == LET w == Walk(p) IN {w[n] : n \in 2 .. Longest} \ {NoOne}
LevelsUp(p)   == LET w == Walk(p) IN Cardinality({n \in 1 .. Longest : w[n] # NoOne})
LevelsDown(p) ==
    Max(UNION {LET w == Walk(q) IN {n \in 1 .. Longest : w[n] = p} : q \in Packages})

\* MUTANT: what is in or on the package is not counted.
NestsAlone(p, q) == p # q /\ p \notin Above(q) /\ LevelsUp(q) + 1 <= MostLevels

\* nesting and check_contain: p may go in or on q.
Nests(p, q) ==
    /\ p # q /\ p \notin Above(q)
    /\ LevelsUp(q) + LevelsDown(p) <= MostLevels

------------------------------------------------------------------------------
(* Plans *)

\* check_plan: a parcel goes on one of the plan or on a made one, and never, up the
\* planned pallets, on itself.
Planned(pl, p) == IF p \in DOMAIN pl /\ ~pl[p].made THEN pl[p].on ELSE NoOne
PlanHolds(pl) ==
    /\ \A p \in DOMAIN pl : Planned(pl, p) \in DOMAIN pl \cup {NoOne}
    /\ \A p \in DOMAIN pl :
          LET up[n \in Nat] == IF n = 0 THEN p ELSE Planned(pl, up[n - 1])
          IN  \A n \in 1 .. Cardinality(DOMAIN pl) : up[n] # p

\* Rows deleted take with them what is planned onto them: ON DELETE CASCADE.
Without(pl, S) ==
    LET up(p) == [n \in 0 .. 2 |-> IF n = 0 THEN p ELSE IF n = 1 THEN Planned(pl, p)
                                   ELSE Planned(pl, Planned(pl, p))]
    IN  Restrict(pl, {p \in DOMAIN pl : \A n \in 0 .. 2 : up(p)[n] \notin S})

\* Made from the plan: what was planned onto it goes on it as made, and its row goes.
UsedUp(pl, p) ==
    Without([q \in DOMAIN pl |-> IF Planned(pl, q) = p THEN [pl[q] EXCEPT !.made = TRUE]
                                                       ELSE pl[q]], {p})

------------------------------------------------------------------------------
(* Reading and refusing *)

\* The transaction ends, and lets go of what it had not committed.
End(r, how) ==
    /\ pc' = [pc EXCEPT ![r] = "ended"]
    /\ outcome' = [outcome EXCEPT ![r] = how]
    /\ holder' = [a \in Acts |-> IF holder[a] = r THEN NoOne ELSE holder[a]]
    /\ lock' = IF lock = r THEN NoOne ELSE lock

Booked(p) == \E r \in Requests : pc[r] = "ended" /\ <<r, p>> \in rows

\* record_consignment's checks of one parcel: booked already, broken down at the depot,
\* carried on a pallet that goes as one, or a pallet with something booked on it.
BookingRefused(p) ==
    \/ p \notin packages \/ Booked(p)
    \/ p \in BreaksDown
    \/ Parent(p) \notin BreaksDown \cup {NoOne}
    \/ \E q \in packages : Booked(q) /\ p \in {Walk(q)[n] : n \in 2 .. 5}

Loaded(r) == {Ask[r].load[i] : i \in DOMAIN Ask[r].load}

Refused(r) ==
    \/ Kind(r) \in {"placed", "contained"} /\ Ask[r].pkg \notin packages
    \/ Kind(r) = "contained" /\ (Ask[r].parent \notin packages \/ ~Nests(Ask[r].pkg, Ask[r].parent))
    \/ Kind(r) = "planned" /\ ~PlanHolds(Ask[r].plan)
    \/ Kind(r) = "booked" /\ \E p \in Loaded(r) : BookingRefused(p)

\* A booking whose consignment is there is a replay, before anything is checked.
Replayed(r) == Kind(r) = "booked" /\ Ask[r].act \in envelopes

\* A parcel may read as despatched, voided or not sealed, and a closed order as cancelled.
MayBeRefused(r) ==
    \/ Kind(r) \in {"placed", "contained", "booked"}
    \/ Kind(r) = "created" /\ Ask[r].pkg \in OfOrder /\ closed

\* The statements before the first write, or the first lock.
Check(r) ==
    /\ pc[r] = "new"
    /\ before' = [before EXCEPT ![r] = {q \in Requests : pc[q] = "ended"}]
    /\ \/ Replayed(r) /\ End(r, "ok")
       \/ /\ ~Replayed(r)
          /\ Refused(r) \/ MayBeRefused(r)
          /\ End(r, "refused")
       \/ /\ ~Replayed(r) /\ ~Refused(r)
          /\ pc' = [pc EXCEPT ![r] = "checked"]
          /\ UNCHANGED <<holder, lock, outcome>>
    /\ UNCHANGED <<envelopes, packages, events, plan, closed, rows>>

------------------------------------------------------------------------------
(* Acts *)

\* claim_act, fresh; or the INSERT of the consignment, whose id is its key.
Claim(r) ==
    /\ pc[r] = "checked" /\ Kind(r) # "planned"
    /\ Ask[r].act \notin envelopes
    /\ holder[Ask[r].act] = NoOne
    /\ holder' = [holder EXCEPT ![Ask[r].act] = r]
    /\ pc' = [pc EXCEPT ![r] = IF Kind(r) = "booked" THEN "booking" ELSE "claimed"]
    /\ UNCHANGED <<envelopes, packages, events, plan, lock, closed, rows, outcome, before>>

\* The envelope is there: the act's own event answers, and only a copy of it is ok.
\* A consignment's id that is there by now is an error.
Replay(r) ==
    /\ pc[r] = "checked" /\ Kind(r) # "planned"
    /\ Ask[r].act \in envelopes
    /\ End(r, IF Kind(r) = "booked" THEN "failed"
              ELSE IF \E e \in events : /\ Ask[e].act = Ask[r].act /\ Kind(e) = Kind(r)
                                        /\ Kind(r) = "created" \/ Ask[e].pkg = Ask[r].pkg
                   THEN "ok" ELSE "refused")
    /\ UNCHANGED <<envelopes, packages, events, plan, closed, rows, before>>

\* create_package: the row, the plan's row used up, and the event.  The row's order is
\* a foreign key, so its insert waits for who holds the order.
Make(r) ==
    LET p == Ask[r].pkg IN
    /\ Kind(r) = "created"
    /\ p \in OfOrder => lock = NoOne
    /\ IF p \in packages
       THEN End(r, "failed") /\ UNCHANGED <<envelopes, packages, events, plan>>
       ELSE /\ packages' = packages \cup {p}
            /\ plan' = UsedUp(plan, p)
            /\ events' = events \cup {r}
            /\ envelopes' = envelopes \cup {Ask[r].act}
            /\ End(r, "ok")

\* place_package and contain_package: an event, and no more.
Put(r) ==
    /\ Kind(r) \in {"placed", "contained"}
    /\ events' = events \cup {r}
    /\ envelopes' = envelopes \cup {Ask[r].act}
    /\ End(r, "ok")
    /\ UNCHANGED <<packages, plan>>

Record(r) ==
    /\ pc[r] = "claimed"
    /\ Make(r) \/ Put(r)
    /\ UNCHANGED <<closed, rows, before>>

------------------------------------------------------------------------------
(* Saving the plan *)

\* MUTANT: the order's row is not locked.
NotLocked(r) ==
    /\ pc[r] = "checked" /\ Kind(r) = "planned"
    /\ pc' = [pc EXCEPT ![r] = "locked"]
    /\ UNCHANGED <<acts, packages, events, plan, lock, closed, rows, outcome, before>>

\* SELECT ... FOR UPDATE on the order.
Lock(r) ==
    /\ pc[r] = "checked" /\ Kind(r) = "planned"
    /\ lock = NoOne
    /\ lock' = r
    /\ pc' = [pc EXCEPT ![r] = "locked"]
    /\ UNCHANGED <<acts, packages, events, plan, closed, rows, outcome, before>>

\* A planned parcel that has been made already is refused.
Count(r) ==
    /\ pc[r] = "locked"
    /\ IF DOMAIN Ask[r].plan \cap packages # {}
       THEN End(r, "refused")
       ELSE pc' = [pc EXCEPT ![r] = "counted"] /\ UNCHANGED <<holder, lock, outcome>>
    /\ UNCHANGED <<envelopes, packages, events, plan, closed, rows, before>>

\* The order's plan is deleted and this one inserted.  What a parcel goes on, when it
\* is a made package, is a foreign key.
Save(r) ==
    /\ pc[r] = "counted"
    /\ LET pl == Ask[r].plan IN
       IF \E p \in DOMAIN pl : pl[p].made /\ pl[p].on \notin packages
       THEN End(r, "failed") /\ UNCHANGED plan
       ELSE End(r, "ok") /\ plan' = pl
    /\ UNCHANGED <<envelopes, packages, events, closed, rows, before>>

\* The order is cancelled, closed elsewhere or despatched in full, or open again.
\* (It matters to a plan.)
CloseOrder ==
    /\ DOMAIN plan # {} \/ \E r \in Requests : Kind(r) = "planned" /\ pc[r] # "ended"
    /\ closed' = ~closed
    /\ UNCHANGED <<pc, acts, packages, events, plan, lock, rows, outcome, before>>

\* pack_plan_drop_closed, after a fold.
DropClosed ==
    /\ closed /\ DOMAIN plan # {}
    /\ plan' = <<>>
    /\ UNCHANGED <<pc, acts, packages, events, lock, closed, rows, outcome, before>>

------------------------------------------------------------------------------
(* Booking *)

RowsOf(r)    == {p \in Packages : <<r, p>> \in rows}
NextToLoad(r) == Ask[r].load[Cardinality(RowsOf(r)) + 1]
OnTruck(p)   == {r \in Requests : <<r, p>> \in rows}

\* The rows of a transaction that ends without a commit are gone.
Unloaded(r) == {x \in rows : x[1] # r}

\* One row of the consignment is inserted, or found inserted by another consignment
\* that is committed; it waits for one that is not.
Load(r) ==
    /\ pc[r] = "booking" /\ RowsOf(r) # Loaded(r)
    /\ \/ /\ OnTruck(NextToLoad(r)) = {}
          /\ rows' = rows \cup {<<r, NextToLoad(r)>>}
          /\ UNCHANGED <<pc, holder, lock, outcome>>
       \/ /\ Booked(NextToLoad(r))
          /\ rows' = Unloaded(r)
          /\ End(r, "refused")
    /\ UNCHANGED <<envelopes, packages, events, plan, closed, before>>

Waits(r, q) == /\ pc[r] = "booking" /\ RowsOf(r) # Loaded(r)
               /\ pc[q] = "booking" /\ q \in OnTruck(NextToLoad(r))

\* Two bookings each wait for a row of the other's: the database fails one of them.
Deadlocked(r) ==
    /\ \E q \in Requests : Waits(r, q) /\ Waits(q, r)
    /\ rows' = Unloaded(r)
    /\ End(r, "failed")
    /\ UNCHANGED <<envelopes, packages, events, plan, closed, before>>

Book(r) ==
    /\ pc[r] = "booking" /\ RowsOf(r) = Loaded(r)
    /\ envelopes' = envelopes \cup {Ask[r].act}
    /\ End(r, "ok")
    /\ UNCHANGED <<packages, events, plan, closed, rows, before>>

------------------------------------------------------------------------------
Serve(r) ==
    \/ Claim(r) \/ Replay(r) \/ Record(r)
    \/ Lock(r) \/ Count(r) \/ Save(r)
    \/ Load(r) \/ Deadlocked(r) \/ Book(r)

Next ==
    \/ \E r \in Requests : Check(r) \/ Serve(r)
    \/ CloseOrder
    \/ DropClosed

Spec == Init /\ [][Next]_vars

------------------------------------------------------------------------------
\* Every variable stays in its range.
TypeOK ==
    /\ pc \in [Requests -> {"new", "checked", "claimed", "locked", "counted", "booking", "ended"}]
    /\ holder \in [Acts -> Requests \cup {NoOne}]
    /\ envelopes \subseteq Acts
    /\ packages \subseteq Packages
    /\ events \subseteq Requests
    /\ DOMAIN plan \subseteq OfOrder
    /\ \A p \in DOMAIN plan : plan[p].on \in Packages \cup {NoOne} /\ plan[p].made \in BOOLEAN
    /\ lock \in Requests \cup {NoOne}
    /\ lock # NoOne => pc[lock] \in {"locked", "counted"}
    /\ closed \in BOOLEAN
    /\ rows \subseteq Requests \X Packages
    /\ outcome \in [Requests -> {"none", "ok", "refused", "failed"}]
    /\ before \in [Requests -> SUBSET Requests]

\* J79 and J80: no package is inside itself and none is more than three deep, whatever
\* order the containments arrive in and whatever their clocks say, unless two of them
\* overlapped: each reads the chain as it is, and nothing locks it.
Nested ==
    LET C == {e \in events : Kind(e) = "contained"} IN
    (\A e, f \in C : e = f \/ e \in before[f] \/ f \in before[e])
    => \A p \in packages : p \notin Above(p) /\ LevelsUp(p) <= MostLevels

\* A parcel that has been made is not planned again, however a save of the plan and the
\* making of it race: the foreign key of the one waits for the lock of the other.
MadeIsNotPlanned == DOMAIN plan \cap packages = {}

\* J81, "what is delivered is what is booked": a booked parcel is not a pallet that is
\* broken down, and is carried on none that goes as one.
BookedIsDelivered ==
    \A p \in packages : Booked(p) =>
        /\ p \notin BreaksDown
        /\ Above(p) \subseteq BreaksDown
==============================================================================
