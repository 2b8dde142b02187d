--------------------------------- MODULE Routes ---------------------------------
(***************************************************************************)
(* Walking the floor: how far it is from one spot to another, in what order  *)
(* a walk visits its stops, and which waiting orders are picked on one walk.  *)
(* All of it is computed from what it is given, so it is functions here, and   *)
(* what it should compute is stated beside it and compared over the inputs a    *)
(* configuration names.                                                       *)
(*                                                                         *)
(* The floor is a grid of unit squares, a straight step 5 long and a diagonal   *)
(* one 7, for 1 and the root of 2.  A route of many stops is improved until its   *)
(* time is up, and it may be up after any move: such an order is one of a set.    *)
(***************************************************************************)
EXTENDS Integers, Sequences, FiniteSets, SequencesExt, FiniteSetsExt, TLC

CONSTANTS
    Floors,   \* BOUND: the floors walked: walkways and solids, rings of corners
    Typed,    \* BOUND: on each floor, the walks typed: the bench's bin, or Nowhere, and each line's
    Costs,    \* BOUND: walks between nodes, node 1 the bench, or nothing from anywhere
    ExactUpTo, \* the most stops ordered exactly
    Batches,  \* BOUND: orders asked for, the node each bin is reached from, the walks between
    Sharings, \* BOUND: how a batch is shared out
    Nowhere   \* no bench; no most on a trip; a pick whose bin is not on the floor

ASSUME RoutesAssumption ==
    /\ \A c \in Costs \cup {t.cost : t \in Batches} : \A i, j, k \in DOMAIN c :
          c[i][j] \in Nat /\ c[i][i] = 0 /\ c[i][j] = c[j][i] /\ (j # 1 => c[i][k] <= c[i][j] + c[j][k])
    /\ ExactUpTo \in Nat
    /\ \A s \in Sharings : s.pickers > 0 /\ s.most # 0

Abs(x) == IF x < 0 THEN -x ELSE x
Far    == 10000
Least(S, val(_)) == CHOOSE x \in S : \A y \in S : val(x) <= val(y)

------------------------------------------------------------------------------
(* Floor::build: inside a walkway and outside everything solid *)

\* A ray to the right crosses the ring's edges an odd number of times.
Inside(ring, p) ==
    LET crosses(k) ==
            LET a == ring[k]  b == ring[(k % Len(ring)) + 1]
                reach == (p[2] - a[2]) * (b[1] - a[1]) - (p[1] - a[1]) * (b[2] - a[2])
            IN  /\ (a[2] > p[2]) # (b[2] > p[2])
                /\ IF b[2] > a[2] THEN reach > 0 ELSE reach < 0
    IN  Cardinality({k \in DOMAIN ring : crosses(k)}) % 2 = 1

\* Corners are at even numbers, so the middle of a square is on no edge.
Middle(n) == <<2 * n[1] + 1, 2 * n[2] + 1>>
Built(f)  ==
    LET corners == UNION {Range(r) : r \in f.walkways}
        grid == (0..Max({c[1] : c \in corners}) \div 2) \X (0..Max({c[2] : c \in corners}) \div 2)
    IN  {n \in grid : /\ \E r \in f.walkways : Inside(r, Middle(n))
                      /\ ~\E r \in f.solids : Inside(r, Middle(n))}

\* A diagonal cuts no corner.
Steps(open, n) ==
    {m \in open : /\ m # n /\ m[1] - n[1] \in -1..1 /\ m[2] - n[2] \in -1..1
                  /\ <<m[1], n[2]>> \in open /\ <<n[1], m[2]>> \in open}
Stride(n, m) == IF n[1] # m[1] /\ n[2] # m[2] THEN 7 ELSE 5

\* What a walk would be with nothing in the way.
GuessBySides(n, m) == 5 * (Abs(n[1] - m[1]) + Abs(n[2] - m[2])) \* variant: no step is diagonal
Guess(n, m) ==
    LET dx == Abs(n[1] - m[1])  dy == Abs(n[2] - m[2])
    IN  5 * Max({dx, dy}) + 2 * Min({dx, dy})

\* A square a node improves on, with what it comes to by way of it.
Relax(open, best, n) ==
    FoldSet(LAMBDA m, b : [b EXCEPT ![m] = Min({@, best[n] + Stride(n, m)})], best, Steps(open, n))

\* Floor::distances: the nearest not looked at yet is looked at next, until all wanted are.
RECURSIVE Spread(_, _, _, _)
Spread(open, wanted, best, looked) ==
    LET next == {n \in open \ looked : best[n] < Far}
    IN  IF wanted \subseteq looked \/ next = {} THEN best
        ELSE LET n == Least(next, LAMBDA x : best[x])
             IN  Spread(open, wanted, Relax(open, best, n), looked \cup {n})
Distances(open, from, wanted) ==
    IF from \notin open THEN [n \in open \cup wanted |-> Far]
    ELSE Spread(open, wanted, [n \in open \cup wanted |-> IF n = from THEN 0 ELSE Far], {})

\* Floor::path: the same, nearest to the end by the guess first; a square is looked at again
\* when it is improved on, and what it was reached from is kept.
RECURSIVE Seek(_, _, _, _, _)
Seek(open, to, best, came, heap) ==
    IF heap = {} THEN [len |-> Far, came |-> came]
    ELSE LET n == Least(heap, LAMBDA x : best[x] + Guess(x, to))
             better == {m \in Steps(open, n) : best[n] + Stride(n, m) < best[m]}
         IN  IF n = to THEN [len |-> best[n], came |-> came]
             ELSE Seek(open, to, Relax(open, best, n), [m \in open |-> IF m \in better THEN n ELSE came[m]],
                       (heap \ {n}) \cup better)
RECURSIVE Back(_, _, _)
Back(came, from, n) == IF n = from THEN <<n>> ELSE Append(Back(came, from, came[n]), n)
Path(open, from, to) ==
    IF ~{from, to} \subseteq open THEN [len |-> Far, path |-> <<>>]
    ELSE LET found == Seek(open, to, [n \in open |-> IF n = from THEN 0 ELSE Far], [n \in open |-> n], {from})
         IN  [len |-> found.len, path |-> IF found.len = Far THEN <<>> ELSE Back(found.came, from, to)]

------------------------------------------------------------------------------
(* routing::order: an order to visit every stop in, from the first node *)

LengthOf(cost, route, closed) ==
    FoldLeftDomain(LAMBDA sum, i : IF i = Len(route) THEN sum ELSE sum + cost[route[i]][route[i + 1]], 0, route)
    + IF closed /\ Len(route) > 1 THEN cost[route[Len(route)]][route[1]] ELSE 0

\* Held and Karp: the best walk ending at each stop over each set of stops.
Ends(cost, stops) ==
    LET best[S \in SUBSET stops, j \in stops] ==
            IF S = {j} THEN cost[1][j]
            ELSE IF j \notin S THEN Far
            ELSE Min({best[S \ {j}, k] + cost[k][j] : k \in S \ {j}})
    IN  best
RECURSIVE Traced(_, _, _, _)
Traced(cost, best, S, j) ==
    IF S = {j} THEN <<1, j>>
    ELSE Append(Traced(cost, best, S \ {j}, Least(S \ {j}, LAMBDA k : best[S \ {j}, k] + cost[k][j])), j)
Exact(cost, stops, closed) ==
    IF stops = {} THEN <<1>>
    ELSE LET best == Ends(cost, stops)
             last == Least(stops, LAMBDA j : best[stops, j] + IF closed THEN cost[j][1] ELSE 0)
         IN  Traced(cost, best, stops, last)

\* The quick way's first routes, by insertion where it adds least, and always to the nearest;
Inserted(cost, stops, closed) ==
    LET near(route, k) == Min({cost[r][k] : r \in Range(route)})
        added(route, k, at) == LengthOf(cost, InsertAt(route, at, k), closed)
        put(route) == LET k == Least(stops \ Range(route), LAMBDA x : near(route, x))
                      IN  InsertAt(route, Least(2..Len(route) + 1, LAMBDA at : added(route, k, at)), k)
    IN  FoldSet(LAMBDA x, route : put(route), <<1>>, stops)
Nearest(cost, stops) ==
    FoldSet(LAMBDA x, route : Append(route, Least(stops \ Range(route), LAMBDA k : cost[Last(route)][k])), <<1>>, stops)

\* and its moves: a stretch turned round, a stretch of one to three moved, and, in five
\* nodes and more, two stretches swapped.
TurnedFrom1(route) == {SubSeq(route, 1, i - 1) \o Reverse(SubSeq(route, i, k)) \o SubSeq(route, k + 1, Len(route)) :
                          i \in 1..Len(route), k \in 1..Len(route)} \* variant: the start may be turned too
Turned(route) == {SubSeq(route, 1, i - 1) \o Reverse(SubSeq(route, i, k)) \o SubSeq(route, k + 1, Len(route)) :
                     <<i, k>> \in {p \in (2..Len(route)) \X (2..Len(route)) : p[1] < p[2]}}
Moved(route) ==
    UNION {LET piece == SubSeq(route, i, i + len - 1)
               rest == SubSeq(route, 1, i - 1) \o SubSeq(route, i + len, Len(route))
           IN  {SubSeq(rest, 1, at) \o way \o SubSeq(rest, at + 1, Len(rest)) :
                   at \in 1..Len(rest), way \in {piece, Reverse(piece)}}
           : <<i, len>> \in {p \in (2..Len(route)) \X (1..3) : p[1] + p[2] - 1 <= Len(route)}}
Shaken(route) ==
    {SubSeq(route, 1, c[1]) \o SubSeq(route, c[2] + 1, c[3]) \o SubSeq(route, c[1] + 1, c[2]) \o SubSeq(route, c[3] + 1, Len(route)) :
        c \in {d \in (1..Len(route) - 1) \X (1..Len(route) - 1) \X (1..Len(route) - 1) :
                  Len(route) >= 5 /\ d[1] < d[2] /\ d[2] < d[3]}}

\* polish: what routes may become by moves that each shorten them, whenever the time is up.
RECURSIVE Polished(_, _, _)
Polished(cost, closed, routes) ==
    LET shorter(r) == {q \in Turned(r) \cup Moved(r) : LengthOf(cost, q, closed) < LengthOf(cost, r, closed)}
        more == routes \cup UNION {shorter(r) : r \in routes}
    IN  IF more = routes THEN routes ELSE Polished(cost, closed, more)

\* And shaken, polished again and kept when that is shorter, as often as there is time.
RECURSIVE Tried(_, _, _)
Tried(cost, closed, routes) ==
    LET shorter(r) == {q \in Polished(cost, closed, Shaken(r)) : LengthOf(cost, q, closed) < LengthOf(cost, r, closed)}
        more == routes \cup UNION {shorter(r) : r \in routes}
    IN  IF more = routes THEN routes ELSE Tried(cost, closed, more)
Improved(cost, stops, closed) ==
    LET one   == Polished(cost, closed, {Inserted(cost, stops, closed)})
        other == Polished(cost, closed, {Nearest(cost, stops)})
        length(r) == LengthOf(cost, r, closed)
    IN  Tried(cost, closed, {r \in one : \E o \in other : length(r) <= length(o)}
                            \cup {o \in other : \E r \in one : length(o) < length(r)})

\* The orders it may return.
Ordered(cost, stops, closed) ==
    IF Cardinality(stops) <= 1 \/ Cardinality(stops) <= ExactUpTo
    THEN {Exact(cost, stops, closed)} ELSE Improved(cost, stops, closed)

------------------------------------------------------------------------------
(* routing::plan: a walk against the order it was typed in *)

\* The walk over the start and what it reaches, `mine`, with the walks between them.
Compared(mine, reached, cost, closed, route) ==
    [order  |-> [i \in 1..Len(route) - 1 |-> reached[route[i + 1] - 1]],
     walked |-> LengthOf(cost, route, closed),
     typed  |-> LengthOf(cost, [i \in DOMAIN mine |-> i], closed)]
Between(open, nodes) == FoldSet(LAMBDA n, known : known @@ (n :> Distances(open, n, nodes)), <<>>, nodes)
Matrix(mine, between) == [i \in DOMAIN mine |-> [j \in DOMAIN mine |-> between[mine[i]][mine[j]]]]
WalkedOver(mine, reached, cost, closed) ==
    {Compared(mine, reached, cost, closed, route) : route \in Ordered(cost, 2..Len(mine), closed)}
WalkedFrom(open, start, closed, stops, reached) ==
    LET mine == <<start>> \o [i \in DOMAIN reached |-> stops[reached[i]]]
    IN  WalkedOver(mine, reached, Matrix(mine, Between(open, ToSet(mine))), closed)

\* With a bench it starts there and comes back; without one, it starts at the first stop.
Reachable(far, stops) == SelectSeq([k \in DOMAIN stops |-> k], LAMBDA k : far[stops[k]] < Far)
Planned(open, base, stops) ==
    LET start == IF base # Nowhere THEN base ELSE stops[1]
    IN  WalkedFrom(open, start, base # Nowhere, stops,
                   Reachable(Distances(open, start, ToSet(stops) \cup {start}), stops))

\* walk_route: where a picker stands for a bin, in half squares: on its spot, or, for a face,
\* the first open square the way it looks, no further than they reach.  What is on an edge
\* is in the square after it.
SquareOf(p) == <<IF p[1] = 0 THEN -1 ELSE p[1] \div 2, IF p[2] = 0 THEN -1 ELSE p[2] \div 2>>
ReachOut   == 6
Stand(open, bin) ==
    LET at(k) == SquareOf(<<bin.at[1] + k * bin.out[1], bin.at[2] + k * bin.out[2]>>)
        met   == {k \in IF bin.out = <<0, 0>> THEN {0} ELSE 1..ReachOut : at(k) \in open}
    IN  IF bin = Nowhere \/ met = {} THEN Nowhere ELSE at(Min(met))

\* walk_route::route: a walk's lines in route order, one stop per spot, and after them the
\* lines whose bin is off the layout or cannot be walked to, as they were typed.
Stops(spots) == FoldLeft(LAMBDA had, n : IF n \in ToSet(had) \cup {Nowhere} THEN had ELSE Append(had, n), <<>>, spots)
InRoute(spots, stops, plan) ==
    LET typed  == [i \in DOMAIN spots |-> i]
        placed == FlattenSeq([k \in DOMAIN plan.order |-> SelectSeq(typed, LAMBDA i : spots[i] = stops[plan.order[k]])])
    IN  [lines |-> placed \o SelectSeq(typed, LAMBDA i : i \notin ToSet(placed)),
         off |-> DOMAIN spots \ ToSet(placed), walked |-> plan.walked, typed |-> plan.typed]
RoutedOver(open, from, spots, stops) ==
    {InRoute(spots, stops, plan) :
        plan \in IF stops = <<>> THEN {[order |-> <<>>, walked |-> 0, typed |-> 0]} ELSE Planned(open, from, stops)}
Spots(open, lines) == [i \in DOMAIN lines |-> Stand(open, lines[i])]
Routed(open, base, lines) == RoutedOver(open, Stand(open, base), Spots(open, lines), Stops(Spots(open, lines)))

------------------------------------------------------------------------------
(* to_pick::plan: what is picked for the orders waiting.  A line's takes, and what no bin *)
(* covers; two takes of one product from one bin are one shelf's, a short is its own.       *)

PicksOfLine(order, line) ==
    IF line.kit THEN <<>>
    ELSE [i \in DOMAIN line.takes |-> [order |-> order, code |-> line.code,
                                       bin |-> line.takes[i].bin, quantity |-> line.takes[i].quantity]]
         \o IF line.short > 0
            THEN <<[order |-> order, code |-> line.code, bin |-> Nowhere, quantity |-> line.short]>> ELSE <<>>
ShelfOf(picked, i) == IF picked[i].bin = Nowhere THEN i
                      ELSE Min({j \in DOMAIN picked : picked[j].bin = picked[i].bin /\ picked[j].code = picked[i].code})
Batch(t) ==
    LET waiting == SelectSeq([n \in DOMAIN t.asked |-> n], LAMBDA n : t.asked[n].state \in {"waiting", "part_picked"})
        lines(k) == t.asked[waiting[k]].lines
        picked  == FlattenSeq([k \in DOMAIN waiting |-> FlattenSeq(
                       [l \in DOMAIN lines(k) |-> PicksOfLine(k, lines(k)[l])])])
    IN  [orders |-> Len(waiting), cost |-> t.cost,
         picks  |-> [i \in DOMAIN picked |->
                        [order |-> picked[i].order, ask |-> waiting[picked[i].order], code |-> picked[i].code,
                         quantity |-> picked[i].quantity, what |-> ShelfOf(picked, i),
                         stop |-> IF picked[i].bin = Nowhere THEN Nowhere ELSE t.stand[picked[i].bin]]]]

(* pick_groups::plan: who walks what.  A trip is the set of orders it brings back. *)

\* walks.length: from the bench round these stops and back, each worked out once.
Round(cost, stops) == {LengthOf(cost, route, TRUE) : route \in Ordered(cost, stops, TRUE)}

StopsOf(b, taken) == {b.picks[i].stop : i \in taken} \ {Nowhere}
PicksFor(b, orders) == {i \in DOMAIN b.picks : b.picks[i].order \in orders}

\* The two that walk least together become one, while they fit: while that saves, or there
\* are more trips than people.
RECURSIVE Merged(_, _, _, _, _)
Merged(b, round, cap, pickers, trips) ==
    LET saved(p) == MapThenSumSet(LAMBDA t : round[StopsOf(b, PicksFor(b, t))], p) - round[StopsOf(b, PicksFor(b, UNION p))]
        pairs == {p \in kSubset(2, trips) : /\ Cardinality(UNION p) <= cap
                                            /\ saved(p) > 0 \/ Cardinality(trips) > pickers}
        first(p) == 100 * Min(UNION p) + Max({Min(t) : t \in p})
        most == {p \in pairs : \A q \in pairs : saved(q) <= saved(p)}
        best == Least(most, first)
    IN  IF pairs = {} THEN trips ELSE Merged(b, round, cap, pickers, (trips \ best) \cup {UNION best})

\* gather: a shelf more than one trip wants goes to the one that loses least by keeping it.
GatheredOnFloor(b, round, taker, what) == \* variant: only what is on the floor
    LET of == {i \in DOMAIN b.picks : b.picks[i].what = what /\ b.picks[i].stop # Nowhere}
    IN  [i \in DOMAIN taker |-> IF i \in of THEN Least({taker[j] : j \in of}, Min) ELSE taker[i]]
Gathered(b, round, taker, what) ==
    LET of      == {i \in DOMAIN b.picks : b.picks[i].what = what}
        wanting == {taker[i] : i \in of}
        mine(t) == {i \in DOMAIN b.picks : taker[i] = t}
        loss(t) == round[StopsOf(b, mine(t))] - round[StopsOf(b, mine(t) \ of)]
        keeper  == Least({t \in wanting : \A u \in wanting : loss(t) <= loss(u)}, Min)
    IN  [i \in DOMAIN taker |-> IF i \in of THEN keeper ELSE taker[i]]

Cap(b, s) == IF s.most # Nowhere THEN s.most ELSE Max({(b.orders + s.pickers - 1) \div s.pickers, 1})
Rounds(b) == LET stops == {b.picks[i].stop : i \in DOMAIN b.picks} \ {Nowhere}
             IN  FoldSet(LAMBDA S, known : {k @@ (S :> length) : k \in known, length \in Round(b.cost, S)},
                         {<<>>}, SUBSET stops)

\* Who takes each pick: the trip bringing its order back, unless its shelf is gathered.
Taken(b, gather, round, trips) ==
    LET own   == [i \in DOMAIN b.picks |-> CHOOSE t \in trips : b.picks[i].order \in t]
        whats == SetToSortSeq({b.picks[i].what : i \in DOMAIN b.picks}, <)
    IN  IF gather THEN FoldLeft(LAMBDA t, w : Gathered(b, round, t, w), own, whats) ELSE own
TripsOf(b, round, trips, taker) ==
    LET takes(t) == {i \in DOMAIN b.picks : taker[i] = t}
    IN  {[orders |-> t, takes |-> takes(t), walked |-> round[StopsOf(b, takes(t))]] : t \in trips}
MadeOf(b, s, round, trips) == TripsOf(b, round, trips, Taken(b, s.gather, round, trips))
MadeWith(b, s, round) ==
    MadeOf(b, s, round, Merged(b, round, Cap(b, s), s.pickers, {{o} : o \in 1..b.orders}))

\* A trip's work: its walk, and the time each stop takes said as a walk.
Work(b, s, trip) ==
    trip.walked + s.stop * (Cardinality(StopsOf(b, trip.takes))
                            + Cardinality({i \in trip.takes : b.picks[i].stop = Nowhere}))

\* Longest first, each to whoever has least so far.
SharedOut(b, s, made) ==
    LET longer(x, y) == \/ Work(b, s, x) > Work(b, s, y)
                        \/ Work(b, s, x) = Work(b, s, y) /\ Min(x.orders) < Min(y.orders)
        give(had, trip) == LET p == Least(1..s.pickers, LAMBDA q : 100 * had[q].load + q)
                           IN  [had EXCEPT ![p] = [load |-> @.load + Work(b, s, trip), trips |-> @.trips \cup {trip}]]
    IN  FoldLeft(give, [p \in 1..s.pickers |-> [load |-> 0, trips |-> {}]], SetToSortSeq(made, longer))

------------------------------------------------------------------------------
(* What they should compute *)

Total(numbers) == FoldLeft(+, 0, numbers)

\* In a convex ring: on one side of every edge.
Surrounds(ring, p) ==
    LET side(k) == LET a == ring[k]  b == ring[(k % Len(ring)) + 1]
                   IN  (b[1] - a[1]) * (p[2] - a[2]) - (b[2] - a[2]) * (p[1] - a[1])
    IN  (\A k \in DOMAIN ring : side(k) > 0) \/ \A k \in DOMAIN ring : side(k) < 0

\* A floor walked with nothing left to improve.
RECURSIVE Settled(_, _)
Settled(open, best) ==
    LET next == FoldSet(LAMBDA n, b : Relax(open, b, n), best, open)
    IN  IF next = best THEN best ELSE Settled(open, next)

\* A walk on the floor that goes through no solid and clips no corner of one.
Walkable(open, path) ==
    \A i \in 1..Len(path) - 1 :
        LET n == path[i]  m == path[i + 1]
        IN  /\ m \in open /\ Abs(n[1] - m[1]) <= 1 /\ Abs(n[2] - m[2]) <= 1
            /\ {<<n[1], m[2]>>, <<m[1], n[2]>>} \subseteq open
WalkedAlong(path) == FoldLeftDomain(LAMBDA sum, i : IF i = Len(path) THEN sum ELSE sum + Stride(path[i], path[i + 1]), 0, path)

(***************************************************************************)
(* On every floor the shortest walk is found, by both searches, and it is one  *)
(* a person can walk: a guess that is ever too long, or a search that stops     *)
(* early, returns a longer one.  A walk's stops are each visited once or named  *)
(* as out of reach.  Up to ExactUpTo stops no order is shorter, nor so the one  *)
(* that was typed; past it an order may be longer than what was typed, and is   *)
(* as short as its first route at least.  (routing.rs 153-208, 287-390, 545-575) *)
(***************************************************************************)
FloorsAreWalked ==
    \A f \in Floors :
        LET open == Built(f)
        IN  /\ \A n \in open : /\ \E r \in f.walkways : Surrounds(r, Middle(n))
                               /\ ~\E r \in f.solids : Surrounds(r, Middle(n))
            /\ \A from \in open :
                  LET far   == Settled(open, [n \in open |-> IF n = from THEN 0 ELSE Far])
                      looks == Distances(open, from, open)
                  IN  \A to \in open :
                         LET found == Path(open, from, to)
                         IN  /\ looks[to] = far[to] /\ found.len = far[to]
                             /\ Distances(open, from, {to})[to] = far[to]
                             /\ far[to] < Far => /\ Walkable(open, found.path) /\ WalkedAlong(found.path) = far[to]
                                                 /\ found.path[1] = from /\ found.path[Len(found.path)] = to
WalkIsShort(t, open, walk, spots, reached) ==
    /\ ToSet(walk.lines) = DOMAIN spots /\ Len(walk.lines) = Len(spots)
    /\ walk.off = DOMAIN spots \ reached
    /\ \A i, j \in DOMAIN spots : walk.lines[j] \in walk.off /\ i > j => walk.lines[i] \in walk.off
    /\ Cardinality({spots[i] : i \in reached}) <= ExactUpTo => walk.walked <= walk.typed
    /\ \A i \in reached :
          t.lines[i].out[1] * (2 * spots[i][1] + 1 - t.lines[i].at[1])
          + t.lines[i].out[2] * (2 * spots[i][2] + 1 - t.lines[i].at[2]) >= 0
Reached(open, start, spots) ==
    IF ToSet(spots) \subseteq {Nowhere} THEN {}
    ELSE LET far == Settled(open, [n \in open |-> IF n = IF start # Nowhere THEN start ELSE Stops(spots)[1] THEN 0 ELSE Far])
         IN  {i \in DOMAIN spots : spots[i] # Nowhere /\ far[spots[i]] < Far}
WalksAreShort ==
    \A f \in Floors : \A t \in Typed[f] : \A open \in {Built(f)} : \A spots \in {Spots(open, t.lines)} :
        \A walk \in Routed(open, t.base, t.lines) :
            WalkIsShort(t, open, walk, spots, Reached(open, Stand(open, t.base), spots))
OrdersVisitAll ==
    \A c \in Costs, closed \in BOOLEAN :
        LET stops  == 2..Len(c)
            routes == {<<1>> \o r : r \in SetToSeqs(stops)}
            best   == Exact(c, stops, closed)
        IN  /\ best \in routes
            /\ \A r \in routes : LengthOf(c, best, closed) <= LengthOf(c, r, closed)
            /\ Ordered(c, stops, closed) \subseteq routes
            /\ \A r \in Ordered(c, stops, closed) :
                  LengthOf(c, r, closed) <= LengthOf(c, Inserted(c, stops, closed), closed)
WalksAreFound == FloorsAreWalked /\ WalksAreShort /\ OrdersVisitAll

(***************************************************************************)
(* However a batch is shared out, every waiting order is on one trip, no trip *)
(* takes more orders than it may, and everything to pick is taken once; when    *)
(* shelves are gathered each is one trip's, whether or not it is on the floor,   *)
(* and, of trips ordered exactly, nobody walks further for it.  No two trips are left that would walk less   *)
(* as one, and nobody was given a trip while another had less to do.  (pick_groups *)
(* 80-206, on what to_pick 516-588 asks of it.)                                  *)
(***************************************************************************)
Walked(trips) == MapThenSumSet(LAMBDA x : x.walked, trips)
AllPicked ==
    \A t \in Batches : \A n \in DOMAIN t.asked : \A l \in DOMAIN t.asked[n].lines :
        LET line == t.asked[n].lines[l]
            mine == SelectSeq(Batch(t).picks, LAMBDA p : <<p.ask, p.code>> = <<n, line.code>>)
        IN  Total([i \in DOMAIN mine |-> mine[i].quantity]) =
            IF line.kit \/ t.asked[n].state \notin {"waiting", "part_picked"} THEN 0 ELSE line.wanted
Carries(b, s, round, trips, apart) ==
    LET shelves(x) == {b.picks[i].what : i \in x.takes}
    IN  /\ \A o \in 1..b.orders : Cardinality({x \in trips : o \in x.orders}) = 1
        /\ \A i \in DOMAIN b.picks : Cardinality({x \in trips : i \in x.takes}) = 1
        /\ \A x \in trips : Cardinality(x.orders) <= Cap(b, s)
        /\ s.gather => /\ \A x, y \in trips : x # y => shelves(x) \cap shelves(y) = {}
                       /\ (\A x \in apart : Cardinality(StopsOf(b, x.takes)) <= ExactUpTo) =>
                              Walked(trips) <= Walked(apart)
        /\ \A x, y \in apart : x # y /\ Cardinality(x.orders \cup y.orders) <= Cap(b, s) =>
              /\ x.walked + y.walked <= round[StopsOf(b, x.takes \cup y.takes)]
              /\ Cardinality(apart) <= s.pickers
Shares(b, s, trips, out) ==
    /\ UNION {out[p].trips : p \in 1..s.pickers} = trips
    /\ \A p, q \in 1..s.pickers : p # q =>
          /\ out[p].trips \cap out[q].trips = {}
          /\ out[p].trips # {} => out[p].load - Min({Work(b, s, x) : x \in out[p].trips}) <= out[q].load
AllCarried ==
    \A b \in {Batch(t) : t \in Batches} : \A s \in Sharings, round \in Rounds(b) :
        \A trips \in {MadeWith(b, s, round)} :
            /\ Carries(b, s, round, trips, MadeWith(b, [s EXCEPT !.gather = FALSE], round))
            /\ Shares(b, s, trips, SharedOut(b, s, trips))
TripsCarryAll == AllPicked /\ AllCarried
==============================================================================
