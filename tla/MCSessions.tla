------------------------------- MODULE MCSessions -------------------------------
(* A browser with two tabs, and a handheld: one person's.  Two administrators, and  *)
(* what they ask about each other and that person, beside one tab.                *)
EXTENDS Accounts, TLC

CONSTANTS t1, t2, app, browser, handheld, w, a, b,
          demoteA, demoteB, outB, backB, operB, outW, backW, setup1, setup2, firstB,
          enrol1, enrol2, drop, mint, import, withdraw

MCDeviceOf == [x \in {t1, t2, app} |-> IF x = app THEN handheld ELSE browser]
Symmetric  == Permutations(Tokens)

Q(k, by, who, role, r) == [kind |-> k, by |-> by, of |-> who, role |-> role, on |-> r]

MCAsking ==
    (demoteA :> Q("role", b, a, "operator", demoteA)) @@
    (demoteB :> Q("role", a, b, "operator", demoteB)) @@
    (outB :> Q("leave", a, b, "operator", outB)) @@
    (backB :> Q("add", a, b, "administrator", backB)) @@
    (operB :> Q("add", a, b, "operator", operB)) @@
    (outW :> Q("leave", a, w, "operator", outW)) @@
    (backW :> Q("add", a, w, "operator", backW)) @@
    (setup1 :> Q("setup", a, a, "administrator", setup1)) @@
    (setup2 :> Q("setup", b, b, "administrator", setup2)) @@
    (firstB :> Q("add", a, b, "operator", firstB)) @@
    (enrol1 :> Q("enrol", w, w, "operator", enrol1)) @@
    (enrol2 :> Q("enrol", w, w, "operator", enrol1)) @@
    (drop :> Q("disable", w, w, "operator", enrol1)) @@
    (mint :> Q("mint", w, w, "operator", mint)) @@
    (import :> Q("import", w, w, "operator", mint)) @@
    (withdraw :> Q("withdraw", a, w, "operator", mint))
MCRequests == DOMAIN MCAsking
Scene(S, T) == [sent |-> S, tabs |-> T]
MCTogether == {Scene({}, {t1, t2}), Scene({}, {app}),
               Scene({outW, backW}, {t1}), Scene({enrol1, enrol2, drop}, {t1}),
               Scene({demoteA, demoteB, backB}, {}), Scene({outB, backB, operB, demoteA}, {}),
               Scene({setup1, setup2, firstB}, {}),
               Scene({drop}, {t1, app}), Scene({mint, import, withdraw, outW, backW}, {})}
==============================================================================
