----------------------------- MODULE MCPackageActs -----------------------------
(* One carton and one line: a pick of one unit, sent again asking for two, a    *)
(* seal, an open, a void, and a despatch sent twice.                            *)
EXTENDS PackageActs, TLC

CONSTANTS p1, p2, s1, o1, v1, d1, d2, aPick, aSeal, aOpen, aVoid, aDespatch,
          line

\* A row per request: the act, what it asks for, its quantity and its clock.
Table ==
    (p1 :> <<aPick, "picked", 1, 1>>) @@
    (p2 :> <<aPick, "picked", 2, 1>>) @@
    (s1 :> <<aSeal, "sealed", 1, 2>>) @@
    (o1 :> <<aOpen, "opened", 1, 3>>) @@
    (v1 :> <<aVoid, "voided", 1, 4>>) @@
    (d1 :> <<aDespatch, "despatched", 1, 5>>) @@
    (d2 :> <<aDespatch, "despatched", 1, 5>>)

MCRequests == {p1, p2, s1, o1, v1, d1, d2}
MCActs     == {aPick, aSeal, aOpen, aVoid, aDespatch}
MCLines    == {line}
MCActOf    == [r \in MCRequests |-> Table[r][1]]
MCKind     == [r \in MCRequests |-> Table[r][2]]
MCLineOf   == [r \in MCRequests |-> line]
MCUnits    == [r \in MCRequests |-> Table[r][3]]
MCAt       == [r \in MCRequests |-> Table[r][4]]
==============================================================================
