------------------------------ MODULE MCLiveChannel ------------------------------
(* One device; changes at its site and elsewhere.                              *)
EXTENDS LiveChannel

CONSTANTS here, elsewhere, d1

MCHears == [d \in Devices |-> {here}]
==============================================================================
