-------------------------------- MODULE MCLedger --------------------------------
(* Two bins.  A count of the first, the adjustment it calls for sent twice, and    *)
(* another one that names its finding; a move, a correction of it and a correction *)
(* of that; two flags of a bin, two checks of a line; somebody investigates and    *)
(* somebody accepts.                                                             *)
EXTENDS Ledger

CONSTANTS count, adj1, adj2, adj3, move, corr1, corr2, flag1, flag2, short1, short2,
          probe, probeS, probeF, accept, acceptS, acceptF, b1, b2

A(k, a, c, n, of) == [kind |-> k, act |-> a, cell |-> c, to |-> b2, n |-> n, of |-> of,
                      byCount |-> FALSE, short |-> TRUE, said |-> "found_here", at |-> 1]

MCAsk ==
    [r \in {count, adj1, adj2, adj3, move, corr1, corr2, flag1, flag2, short1, short2,
            probe, probeS, probeF, accept, acceptS, acceptF} |->
      CASE r = count   -> A("counted", "a1", b1, 2, NoOne)
        [] r \in {adj1, adj2} -> [A("adjusted", "a2", b1, 2, count) EXCEPT !.byCount = TRUE]
        [] r = adj3    -> A("adjusted", "a3", b1, 2, count)
        [] r = move    -> A("moved", "a4", b1, 2, NoOne)
        [] r = corr1   -> A("corrected", "a5", b1, 2, move)
        [] r = corr2   -> A("corrected", "a6", b1, 1, corr1)
        [] r = flag1   -> A("flagged", "a7", b1, 0, NoOne)
        [] r = flag2   -> [A("flagged", "a8", b1, 0, NoOne) EXCEPT !.at = 2]
        [] r \in {short1, short2} -> A("checked", IF r = short1 THEN "a9" ELSE "a10", b1, 0, NoOne)
        [] r = probe   -> A("investigated", "a1", b1, 0, count)
        [] r = probeS  -> A("investigated", "a1", b1, 0, short1)
        [] r = accept  -> A("accepted", "a1", b1, 0, count)
        [] r = probeF  -> A("investigated", "a1", b1, 0, flag1)
        [] r = acceptS -> A("accepted", "a1", b1, 0, short1)
        [] OTHER       -> A("accepted", "a1", b1, 0, flag1)]
MCTogether == {{count, adj1, adj2, adj3, accept}, {count, adj1, adj2, probe, accept},
               {count, adj1, move, corr1}, {move, corr1, corr2, adj1}, {adj1, adj2, adj3, move},
               {short1, short2, probeS, acceptS}, {flag1, flag2, probeF, acceptF}}
MCActs == {"a1", "a2", "a3", "a4", "a5", "a6", "a7", "a8", "a9", "a10"}
==============================================================================
