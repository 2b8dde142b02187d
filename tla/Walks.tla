--------------------------------- MODULE Walks ----------------------------------
(***************************************************************************)
(* Walks routed on a layout people are changing.  The server keeps one floor  *)
(* per site, built from the places, under the version the layout had when it  *)
(* was asked for.  A walk reads the version in one statement; when the kept    *)
(* floor is of another version it reads the places in a later one, and keeps   *)
(* the floor it builds of them under the version it read first.  Each statement *)
(* sees what is committed when it runs.                                      *)
(*                                                                         *)
(* A version is the places as they then stood, and a floor the places it was   *)
(* built of; Routes says what is made of one.                                *)
(***************************************************************************)
EXTENDS Layout

CONSTANTS
    Walkers,   \* walks asked for, on screens or for a plan
    Meanwhile  \* BOUND: the sets of requests walks are asked for beside

ASSUME WalksAssumption == Meanwhile \subseteq Together /\ None \notin Walkers

VARIABLES
    kept,    \* FLOORS: the site's floor with its version, and who built it, or None
    walk,    \* per walk: "new", "asked", "read" or "ended"
    asked,   \* the version it read
    floor,   \* the places of the floor it walks
    builder  \* and the walk that built it

walks == <<kept, walk, asked, floor, builder>>

WalksInit ==
    /\ Init
    /\ kept = None
    /\ walk = [w \in Walkers |-> IF {r \in Requests : pc[r] = "new"} \in Meanwhile THEN "new" ELSE "ended"]
    /\ asked = [w \in Walkers |-> <<>>]
    /\ floor = [w \in Walkers |-> <<>>]
    /\ builder = [w \in Walkers |-> None]

\* A walk that finds no floor where it starts builds nothing.
HasFloor(P) == \E p \in DOMAIN P : ~P[p].solid

\* MUTANT: the kept floor is used whatever the layout is now.
AskAny(w) ==
    /\ walk[w] = "new"
    /\ asked' = [asked EXCEPT ![w] = places]
    /\ IF kept # None
       THEN /\ floor' = [floor EXCEPT ![w] = kept.of] /\ builder' = [builder EXCEPT ![w] = kept.by]
            /\ walk' = [walk EXCEPT ![w] = "ended"]
       ELSE walk' = [walk EXCEPT ![w] = "asked"] /\ UNCHANGED <<floor, builder>>
    /\ UNCHANGED <<vars, kept>>

AskVersion(w) ==
    /\ walk[w] = "new"
    /\ asked' = [asked EXCEPT ![w] = places]
    /\ IF kept # None /\ kept.version = places
       THEN /\ floor' = [floor EXCEPT ![w] = kept.of] /\ builder' = [builder EXCEPT ![w] = kept.by]
            /\ walk' = [walk EXCEPT ![w] = "ended"]
       ELSE walk' = [walk EXCEPT ![w] = "asked"] /\ UNCHANGED <<floor, builder>>
    /\ UNCHANGED <<vars, kept>>

ReadPlaces(w) ==
    /\ walk[w] = "asked"
    /\ floor' = [floor EXCEPT ![w] = places]
    /\ builder' = [builder EXCEPT ![w] = w]
    /\ walk' = [walk EXCEPT ![w] = IF HasFloor(places) THEN "read" ELSE "ended"]
    /\ UNCHANGED <<vars, kept, asked>>

Keep(w) ==
    /\ walk[w] = "read"
    /\ kept' = [version |-> asked[w], of |-> floor[w], by |-> w]
    /\ walk' = [walk EXCEPT ![w] = "ended"]
    /\ UNCHANGED <<vars, asked, floor, builder>>

\* The server starts again: no floor is kept, and walks on their way get no answer.
Restart ==
    /\ kept # None
    /\ kept' = None
    /\ walk' = [w \in Walkers |-> IF walk[w] = "new" THEN "new" ELSE "ended"]
    /\ floor' = [w \in Walkers |-> IF walk[w] \in {"asked", "read"} THEN <<>> ELSE floor[w]]
    /\ builder' = [w \in Walkers |-> IF walk[w] \in {"asked", "read"} THEN None ELSE builder[w]]
    /\ UNCHANGED <<vars, asked>>

WalksNext ==
    \/ Next /\ UNCHANGED walks
    \/ \E w \in Walkers : AskVersion(w) \/ ReadPlaces(w) \/ Keep(w)
    \/ Restart

WalksSpec == WalksInit /\ [][WalksNext]_<<vars, walks>>

------------------------------------------------------------------------------
(***************************************************************************)
(* "The floor is kept per site, rebuilt when the layout or its scale changes"  *)
(* (walk_route.rs 9-10).  A walk goes over the floor of the layout as it was   *)
(* when it asked, or as it found it a statement later; one kept for it by      *)
(* another is of another layout only when the layout changed between that       *)
(* other's two statements, and came back to what it had been.                  *)
(***************************************************************************)
FloorIsTheLayout ==
    \A w \in Walkers :
        walk[w] = "ended" /\ builder[w] \notin {None, w} =>
            \/ floor[w] = asked[w]
            \/ asked[builder[w]] = asked[w] /\ asked[w] # floor[builder[w]]

\* The same, as it is stated.
KeptFloorIsTheLayout ==
    \A w \in Walkers : walk[w] = "ended" /\ builder[w] \notin {None, w} => floor[w] = asked[w]
==============================================================================
