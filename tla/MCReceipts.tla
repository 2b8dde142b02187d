------------------------------- MODULE MCReceipts -------------------------------
(* One promise with claims of two units and of one.  Lines of a delivery that      *)
(* state a site, another and none, one of them sent twice; lines of a lot that      *)
(* state an expiry, another and none.  And, with nothing of these sent, the policy:  *)
(* a shipped default, rules of an item, a class and a party that come and go, and    *)
(* two lines counted against them.                                                *)
EXTENDS Receipts, Policy, TLC

CONSTANTS line1, line1b, line2, line3, lotNone, lotEarly, lotLate, c1, c2, dlv

L(act, n, d, from) == [act |-> act, n |-> n, delivery |-> d, from |-> from,
                       lot |-> FALSE, expiry |-> None]
Of(act, expiry)    == [L(act, 1, None, "s1") EXCEPT !.lot = TRUE, !.expiry = expiry]
MCAsk ==
    (line1 :> L("a1", 2, dlv, "s1")) @@ (line1b :> L("a1", 2, dlv, "s1")) @@
    (line2 :> L("a2", 3, dlv, None)) @@ (line3 :> L("a3", 2, dlv, "s2")) @@
    (lotNone :> Of("a4", None)) @@ (lotEarly :> Of("a5", "early")) @@
    (lotLate :> Of("a6", "late"))

MCRequests == DOMAIN MCAsk
MCActs     == {MCAsk[r].act : r \in MCRequests}
MCTogether == {[sent |-> {line1, line1b, line2}, bound |-> {c1, c2}],
               [sent |-> {line1, line2, line3}, bound |-> {c1, c2}],
               [sent |-> {lotNone, lotEarly, lotLate}, bound |-> {c2}],
               [sent |-> {}, bound |-> {}]}
MCClaims   == <<c1, c2>>
MCUnits    == (c1 :> 2) @@ (c2 :> 1)

CONSTANTS shipped, tenantItem, tenantClass, tenantParty, shelfItem, shelfParty, glove, acme, ppe, hand

Axes == [item_class |-> Unsaid, item |-> Unsaid, party_class |-> Unsaid, party |-> Unsaid,
         site |-> Unsaid, zone |-> Unsaid, owner |-> Unsaid, metric |-> Unsaid]
Of1(kind, tenant, axes) == [kind |-> kind, tenant |-> tenant, axes |-> axes]
MCScope ==
    (shipped     :> Of1("receiving", FALSE, Axes)) @@
    (tenantItem  :> Of1("receiving", TRUE, [Axes EXCEPT !.item = glove])) @@
    (tenantClass :> Of1("receiving", TRUE, [Axes EXCEPT !.item_class = hand])) @@
    (tenantParty :> Of1("receiving", TRUE, [Axes EXCEPT !.party = acme])) @@
    (shelfItem   :> Of1("shelf_life", FALSE, [Axes EXCEPT !.item = glove])) @@
    (shelfParty  :> Of1("shelf_life", TRUE, [Axes EXCEPT !.party = acme]))
MCBindings == DOMAIN MCScope
MCRank == (shipped :> 1) @@ (tenantItem :> 2) @@ (tenantClass :> 3) @@ (tenantParty :> 4) @@
          (shelfItem :> 5) @@ (shelfParty :> 6)
Lots(n)      == [require_lot |-> n]
Over(n, pct) == [require_lot |-> n, tolerance_over_pct |-> pct]
Days(n)      == [min_shelf_life_days |-> n]
MCFirstBound  == {shipped, tenantClass, shelfItem, shelfParty}
MCFirstStates == (shipped :> Over(0, 10)) @@ (tenantClass :> Lots(0)) @@
                 (shelfItem :> Days(120)) @@ (shelfParty :> Days(60))
MCValues == [receiving |-> {Lots(1), Over(0, 25)}, shelf_life |-> {Days(90)}]
MCParents == (ppe :> {ppe}) @@ (hand :> {hand, ppe})
MCClasses == (glove :> hand) @@ (acme :> Unsaid)
Count1 == [kind |-> "receiving", item |-> glove, party |-> acme, site |-> "s1", expected |-> 10, base |-> 10,
           entered |-> Unsaid, level |-> Unsaid, config |-> FALSE, lot |-> FALSE]
MCSays == [each |-> Count1,
           cartons |-> [Count1 EXCEPT !.base = Unsaid, !.entered = 2, !.level = 2, !.config = TRUE, !.lot = TRUE, !.party = Unsaid]]
MCConfig == [item |-> glove, rungs |-> <<2, 3>>, from |-> 1]
MCCases == {[kind |-> k, item |-> glove, party |-> acme] @@ [site |-> "s1"] : k \in {"receiving", "shelf_life"}}

Alone == \A r \in Requests : pc[r] = "ended" /\ outcome[r] = "none"

ReceiptsInit == Init /\ PolicyInit

ReceiptsSpec ==
    /\ ReceiptsInit
    /\ [][(Next /\ UNCHANGED pvars) \/ (Alone /\ PolicyNext /\ UNCHANGED vars)]_<<vars, pvars>>
==============================================================================
