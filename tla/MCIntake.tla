------------------------------- MODULE MCIntake -------------------------------
(* An order whose two item fulfilments share a line, one of them a kit's and its part; the  *)
(* first is picked, then less of it, then none; and the order as it was sent before documents were.    *)
(* A behaviour sends the bodies of one of MCTogether: each other file beside what it meets. *)
EXTENDS Feeds

CONSTANTS N, D1, D2, glove, spray, nozzle, k1, k2, F, A, X, b1, b2

MCImports == 1..3

L(no, item, qty, key, kit, type) == [no |-> no, item |-> item, qty |-> qty, left |-> 0, key |-> key, kit |-> kit, type |-> type]
S(doc, picked, at, lines) == [order |-> N, doc |-> doc, picked |-> picked, at |-> at, lines |-> lines]

Plain   == S(None, FALSE, None, <<L(1, glove, 2, None, None, None)>>)
Picked  == S(D1, TRUE, 1, <<L(1, glove, 2, k1, None, None)>>)
Less    == S(D1, TRUE, 2, <<L(1, glove, 1, k1, None, None)>>)
KitSend == S(D2, TRUE, 1, <<L(2, spray, 1, k2, None, "kit"), L(1, glove, 1, k1, k2, None)>>)
Undone   == S(D1, TRUE, 3, <<[L(1, glove, 0, k1, None, None) EXCEPT !.left = 2], L(2, spray, 0, k2, None, None)>>)
Nought  == S(D2, FALSE, None, <<L(1, nozzle, 0, k1, None, None)>>)
MCSends == {Plain, Picked, Less, KitSend, Undone, Nought}

R(id, item, left) == [id |-> id, order |-> N, item |-> item, left |-> left, key |-> id, kit |-> None, type |-> None]
OpenOrders(lines, short) == [feed |-> [of |-> "orders", source |-> F], lines |-> lines, short |-> short]
TwoGloves == OpenOrders({R(1, glove, 3), R(2, glove, 2)}, FALSE)
MCReports ==
    {TwoGloves, OpenOrders({R(2, glove, 1), R(3, spray, 1)}, FALSE), OpenOrders({R(1, glove, 3)}, TRUE)}

\* Two sites, and a warehouse that is each by half; one more somewhere else.
Site(code, name)    == [code |-> code, name |-> name]
Hs(code, name)      == [code |-> code, name |-> name, external |-> FALSE, clock |-> TRUE]
MCSitesOnFile       == {Site(A, A), Site(X, X)}
MCBinsOnFile        == {<<Site(A, A), b1>>}
ItemFile(codes)     == [kind |-> "items", rows |-> codes]
Balances1(rows, short) == [kind |-> "stock", feed |-> [of |-> "stock", source |-> F], at |-> 1, short |-> short, rows |-> rows]
On(house, item, bin, qty) == [house |-> house, item |-> item, bin |-> bin, qty |-> qty]
Details(at, rows)   == [kind |-> "details", feed |-> [of |-> "details", source |-> F], at |-> at, rows |-> rows]
Says(item, fields)  == [item |-> item, said |-> fields]
PackedFile(at, rows) == [kind |-> "packed", feed |-> [of |-> "packed", source |-> F], at |-> at, rows |-> rows]
By(doc, date, packer) == [house |-> Hs(A, A), doc |-> doc, date |-> date, packer |-> packer]
BinFile(assume, houses, rows) == [kind |-> "bins", assume |-> assume, houses |-> houses, rows |-> rows]
Shelf(house, bin, kind, order) == [house |-> house, bin |-> bin, kind |-> kind, order |-> order]

SprayFirst == ItemFile(<<spray, nozzle>>)
ItemFiles  == {SprayFirst, ItemFile(<<nozzle, spray>>)}
Lots    == Balances1(<<On(Hs(A, A), glove, b1, 2), On(Hs(A, A), glove, b1, 1), On(Hs(A, A), spray, b1, 1)>>, FALSE)
Moved   == Balances1(<<On(Hs(A, A), glove, b2, 1), On(Hs(A, A), glove, b1, -1)>>, FALSE)
Stocks  == {Lots, Moved, Balances1(<<On(Hs(A, A), glove, b1, 1)>>, TRUE)}
Detailed ==
    {Details(1, <<Says(glove, {<<"colour", "red">>}), Says(spray, {<<"colour", "red">>})>>),
     Details(2, <<Says(glove, {<<"colour", "blue">>, <<"size", "L">>})>>),
     Details(3, <<Says(glove, {}), Says(glove, {<<"colour", "red">>, <<"size", "L">>})>>)}
Packings ==
    {PackedFile(3, <<By(D1, 1, "sam")>>), PackedFile(4, <<By(D2, 2, None), By(D1, None, "kim"), By(D1, 2, "sam")>>)}
BinFiles ==
    {BinFile(None, <<Hs("N", "north")>>, <<Shelf("north", b2, "pick", 1), Shelf("north", b1, None, 0)>>),
     BinFile("pick", <<Hs(A, "a"), Hs("N", "north")>>, <<Shelf("a", b2, None, 0), Shelf("north", b2, None, 2)>>),
     BinFile("pick", <<Hs(A, X), [Hs("E", "else") EXCEPT !.external = TRUE]>>, <<Shelf(X, b1, None, 0)>>)}

MCFiles == ItemFiles \cup Stocks \cup Detailed \cup Packings \cup BinFiles
MCTogether ==
    {{Plain, Picked, KitSend}, {Picked, Less}, {Less, Undone}, {Picked, Nought}, MCReports \cup ItemFiles, Detailed,
     {Picked} \cup Packings, Stocks \cup {SprayFirst}, {Moved} \cup BinFiles, {Lots, TwoGloves}}

MCDryRuns  == {Picked, TwoGloves, SprayFirst, Moved}
MCStatuses == {[doc |-> D1, how |-> "packed"]}

MCCatalogue == {glove}
MCPiles == [i \in {glove, spray} |-> IF i = glove THEN <<[bin |-> b1, qty |-> 2], [bin |-> b2, qty |-> 2]>> ELSE <<>>]
MCInReach == {b2}
==============================================================================
