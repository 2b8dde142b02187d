------------------------------- MODULE MCParcels -------------------------------
(* Two cartons and two pallets of an order, and a pallet that is broken down at   *)
(* the depot.  A plan of a carton and a pallet, saved while they are made; three  *)
(* containments that could loop or go four deep; bookings of the same cartons.    *)
EXTENDS Parcels, TLC

CONSTANTS makeA, makeB, makeP, makeQ, planA, planAP, putB, onAP, onPB, onBQ, onPA, onAD, makeD,
          bookAB, bookBA, bookAB2, bookA, bookP, a, b, lower, upper, d

Row(kind, act, pkg, parent, at, pl, load) ==
    [kind |-> kind, act |-> act, pkg |-> pkg, parent |-> parent, at |-> at,
     plan |-> pl, load |-> load]
Mk(act, x)        == Row("created", act, x, NoOne, 1, <<>>, <<>>)
On(act, x, y, at) == Row("contained", act, x, y, at, <<>>, <<>>)
Pl(pl)            == Row("planned", "none", a, NoOne, 1, pl, <<>>)
Bk(act, load)     == Row("booked", act, load[1], NoOne, 1, <<>>, load)
Onto(x)           == [on |-> x, made |-> FALSE]

MCAsk ==
    (makeA :> Mk("mA", a)) @@ (makeB :> Mk("mB", b)) @@ (makeP :> Mk("mP", lower)) @@
    (makeQ :> Mk("mQ", upper)) @@ (makeD :> Mk("mD", d)) @@
    (planA :> Pl((a :> Onto(NoOne)))) @@
    (planAP :> Pl((a :> Onto(lower)) @@ (lower :> [on |-> upper, made |-> TRUE]))) @@
    (putB :> Row("placed", "lB", b, NoOne, 4, <<>>, <<>>)) @@
    (onAP :> On("AP", a, lower, 2)) @@ (onPB :> On("PB", lower, b, 3)) @@ (onBQ :> On("BQ", b, upper, 2)) @@
    (onPA :> On("PA", lower, a, 4)) @@ (onAD :> On("AD", a, d, 3)) @@
    (bookAB :> Bk("c1", <<a, b>>)) @@ (bookAB2 :> Bk("c1", <<a, b>>)) @@
    (bookBA :> Bk("c2", <<b, a>>)) @@ (bookA :> Bk("c4", <<a>>)) @@ (bookP :> Bk("c3", <<lower>>))

MCRequests == DOMAIN MCAsk
MCActs == {MCAsk[r].act : r \in MCRequests}
T(earlier, sent) == [earlier |-> earlier, sent |-> sent]
MCTogether == {T({makeQ}, {planA, planAP, makeA, makeP}),
               T({makeA, makeB, makeP, makeQ}, {onAP, onPB, onBQ, onPA}),
               T({makeA, makeB}, {makeP, onAP, onPB, putB}),
               T({makeA, makeB}, {bookAB, bookBA, bookAB2}),
               T({makeA, makeP, makeD}, {onAP, onAD, bookP, bookA})}
==============================================================================
