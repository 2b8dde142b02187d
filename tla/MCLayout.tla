-------------------------------- MODULE MCLayout --------------------------------
(* A building with a rack C of four bays, numbered 1 to 4 from the left, that      *)
(* holds bay 1, an empty rack, and bins for its bay 3 and for a rack D.             *)
EXTENDS Walks, Routes

CONSTANTS e1, e2, move1, move1b, move2, back, flip, shelve, gone, draft1, draft2, preview, tier,
          c1, c3, d2, d5, hall, rackC, bare, wall

Grid(bays) == [bays |-> bays, levels |-> 2, first |-> 1, step |-> 1, sides |-> 1, right |-> FALSE]
Place(inside, name, solid, rack, bays) ==
    [inside |-> inside, name |-> name, solid |-> solid, box |-> None, rack |-> rack,
     reach |-> 1, grid |-> Grid(bays)]
MCDrawn == (hall :> Place(None, "hall", FALSE, None, 1)) @@
           (rackC :> Place(hall, <<"C", 1>>, TRUE, "C", 4)) @@
           (bare :> Place(hall, <<"D", 1>>, TRUE, None, 1))

MCBins   == {c1, c3, d2, d5}
MCCode   == (c1 :> [rack |-> "C", bay |-> 1]) @@ (c3 :> [rack |-> "C", bay |-> 3]) @@
            (d2 :> [rack |-> "D", bay |-> 2]) @@ (d5 :> [rack |-> "D", bay |-> 5])
MCPlaced == (c1 :> [place |-> rackC, side |-> 1, bay |-> 1]) @@
            [b \in {c3, d2, d5} |-> None]

Save(e, does, p, in, b) == [editor |-> e, does |-> does, place |-> p, box |-> e, inside |-> in, bin |-> b]
Draft(apply, two, right) == [apply |-> apply, out |-> {}, two |-> two, right |-> right]
MCAsk ==
    (move1 :> Save(e1, "moves", rackC, None, None)) @@
    (move1b :> Save(e1, "moves", rackC, None, None)) @@
    (move2 :> Save(e2, "moves", rackC, None, None)) @@
    (back :> [Save(e2, "moves", rackC, None, None) EXCEPT !.box = None]) @@
    (flip :> Save(e2, "flips", rackC, None, None)) @@
    (shelve :> Save(e1, "adds", wall, hall, c3)) @@
    (gone :> Save(e2, "removes", bare, None, None)) @@
    (draft1 :> Draft(TRUE, {}, {})) @@ (draft2 :> Draft(TRUE, {<<"D", 2>>}, {<<"D", 2>>})) @@
    (preview :> Draft(FALSE, {}, {})) @@
    (tier :> [place |-> rackC, levels |-> 2])

MCSaves    == {move1, move1b, move2, back, flip, shelve, gone}
MCDrafts   == {draft1, draft2, preview}
MCReaches  == {tier}
MCTogether == {{move1, move1b, flip, tier}, {move1, flip, draft1}, {move2, draft1, draft2},
               {flip, shelve, draft1, preview}, {gone, shelve, draft2, tier},
               {move1, flip, draft2, tier}, {move1, back}}
MCMeanwhile == {{move1, back}}

\* Floors to walk: a rack in the middle; two that touch at a corner, beside a column; a room
\* that is not a rectangle's, with a doorway's wall.  Corners are at even numbers.
Box(x0, y0, x1, y1) == << <<2 * x0, 2 * y0>>, <<2 * x1, 2 * y0>>, <<2 * x1, 2 * y1>>, <<2 * x0, 2 * y1>> >>
Column == << <<4, 5>>, <<5, 4>>, <<6, 5>>, <<5, 6>> >>
MCFloors == {[walkways |-> {Box(0, 0, 5, 5)}, solids |-> {Box(1, 1, 2, 3)}],
             [walkways |-> {Box(0, 0, 4, 3)}, solids |-> {Box(1, 0, 2, 1), Box(0, 1, 1, 2), Column}],
             [walkways |-> {Box(0, 0, 1, 3), Box(2, 0, 4, 3)}, solids |-> {Box(2, 1, 3, 2)}]}

\* Walks typed: bins on the floor, and in the faces of the first floor's rack.
Spot(x, y)   == [at |-> <<2 * x + 1, 2 * y + 1>>, out |-> <<0, 0>>]
Face(x, y, u, v) == [at |-> <<x, y>>, out |-> <<u, v>>]
MCTyped ==
    [f \in MCFloors |->
        {[base |-> Spot(0, 0), lines |-> <<Spot(3, 0), Nowhere, Spot(0, 2), Spot(3, 0), Spot(2, 2)>>],
         [base |-> Nowhere, lines |-> <<Spot(0, 2), Spot(3, 2), Spot(2, 0), Spot(0, 0)>>],
         [base |-> Face(3, 2, 0, -1), lines |-> <<Face(4, 4, 1, 0), Face(2, 4, -1, 0), Spot(1, 1), Face(3, 6, 0, 1)>>],
         [base |-> Nowhere, lines |-> <<Nowhere>>]}]

\* Benches and stops along an aisle, round a block, and as they may be.
Aisle(n) == [i \in 1..n |-> [j \in 1..n |-> 2 * Abs(i - j)]]
Block(n) == [i \in 1..n |-> [j \in 1..n |-> 3 * Min({Abs(i - j), n - Abs(i - j)})]]
Apart    == << <<0, 4, 4, 5, 3>>, <<4, 0, 2, 7, 5>>, <<4, 2, 0, 6, 6>>, <<5, 7, 6, 0, 2>>, <<3, 5, 6, 2, 0>> >>
Benchless(c) == [i \in DOMAIN c |-> [j \in DOMAIN c |-> IF 1 \in {i, j} THEN 0 ELSE c[i][j]]]
MCCosts  == {Aisle(4), Block(5), Apart, Benchless(Block(4)), Benchless(Apart)}

\* Batches: one along an aisle with a kit, shorts and a bin off the floor; one round about,
\* where two orders want one shelf, and the same with no bench.
Take(bin, q) == [bin |-> bin, quantity |-> q]
Line(code, takes, short) ==
    [kit |-> FALSE, code |-> code, takes |-> takes, short |-> short,
     wanted |-> short + FoldLeft(LAMBDA sum, t : sum + t.quantity, 0, takes)]
Kit == [Line("kit", <<Take("b2", 1)>>, 0) EXCEPT !.kit = TRUE]
Order(state, lines) == [state |-> state, lines |-> lines]
Along ==
     [cost  |-> Aisle(5), stand |-> [b1 |-> 2, b2 |-> 4, b3 |-> 5, b4 |-> Nowhere],
      asked |-> <<Order("waiting", <<Line("i", <<Take("b1", 2), Take("b3", 1)>>, 0)>>),
                  Order("waiting", <<Kit, Line("i", <<Take("b3", 2)>>, 1)>>),
                  Order("part_picked", <<Line("j", <<Take("b4", 1)>>, 0), Line("i", <<Take("b3", 1)>>, 0)>>),
                  Order("picked", <<Line("j", <<Take("b2", 1)>>, 0)>>),
                  Order("waiting", <<Line("j", <<Take("b4", 1)>>, 0)>>)>>]
About ==
     [cost  |-> Apart, stand |-> [b1 |-> 2, b2 |-> 3, b3 |-> 4, b4 |-> 5],
      asked |-> <<Order("waiting", <<Line("i", <<Take("b1", 2)>>, 0)>>),
                  Order("waiting", <<Line("i", <<Take("b2", 2)>>, 0)>>),
                  Order("waiting", <<Line("i", <<Take("b3", 2)>>, 0), Line("j", <<Take("b2", 1)>>, 0)>>),
                  Order("waiting", <<Line("i", <<Take("b4", 2)>>, 0), Line("j", <<Take("b2", 1)>>, 0)>>)>>]
MCBatches == {Along, About, [About EXCEPT !.cost = Benchless(Apart)]}
MCSharings == [pickers : 1..3, most : {Nowhere, 1, 2}, gather : BOOLEAN, stop : {0, 3}]

(***************************************************************************)
(* What Routes promises of every floor, walk and batch named, before anything   *)
(* has happened: it is of constants alone.  The way found is the shortest there   *)
(* is, the order of few stops no longer than any other, that of many no longer    *)
(* than its first route, and whatever is shared out is carried.                   *)
(***************************************************************************)
NothingYet == /\ \A w \in Walkers : walk[w] = "new"
              /\ \A e \in Editors : desk[e] = "closed"
              /\ \A r \in Requests : pc[r] \in {"new", "ended"} /\ outcome[r] = "none"
WalkedAsPromised == NothingYet => WalksAreFound /\ TripsCarryAll
==============================================================================
