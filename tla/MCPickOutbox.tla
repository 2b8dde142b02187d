------------------------------ MODULE MCPickOutbox ------------------------------
(* Ann presses two picks at her east site, one that has to claim its unit first and *)
(* one the server will not take, and may change to the west site; Bob, on the same  *)
(* device, presses one on a covered line.                                          *)
EXTENDS PickOutbox

CONSTANTS a1, a2, b1, annEast, annWest, bob, t1, t2

MCActs       == {a1, a2, b1}
MCOwners     == {annEast, annWest, bob}
MCOwnerOf    == [a \in MCActs |-> IF a = b1 THEN bob ELSE annEast]
MCPersonOf   == [o \in MCOwners |-> IF o = bob THEN "bob" ELSE "ann"]
MCNeedsClaim == {a1}
MCBad        == {a2}
==============================================================================
