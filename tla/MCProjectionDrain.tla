---------------------------- MODULE MCProjectionDrain ----------------------------
(* One write, one refresh, one receipt and the scheduler over two steps. *)
EXTENDS ProjectionDrain

CONSTANTS w1, a1, p1

MCWriters    == {w1}
MCRefreshers == {a1}
MCReceipts   == {p1}
==============================================================================
