-------------------------------- MODULE MCCards --------------------------------
(* A boot looked at out of its carton, whose carton holds six; a clog looked at in   *)
(* its carton; of the clog's and the sock's nobody said what they hold; and a shoe   *)
(* with nothing on file.                                                           *)
EXTENDS Cards

CONSTANTS look1, look2, bare, evid, weigh1, weigh2, photo1, photo2, late, same1, cut1, face1,
          shift1, fix1, fix1b, fix2, out1, out2, out3, out4, out5, match1, match2, match3, match4,
          say1, say2, per1, fixsay, first, pic1, pic2, boot, clog, shoe, sock

Card(item, level) == [item |-> item, level |-> level]
Thing(item, level, pack) == [item |-> item, level |-> level, pack |-> pack]
Row(e, metric, value) == Figure(first, e, metric, value)

MCOnFile ==
    [events  |-> <<Event(first, Thing(boot, "each", 0), 1, TRUE, 0),
                   Event(first, Thing(clog, "carton", 2), 1, FALSE, 0)>>,
     figures |-> <<Row(1, "weight", 50), Row(1, "length", 9), Row(2, "weight", 500), Row(2, "length", 40)>>,
     photos  |-> <<Photo(pic1, 1, "front", 0), Photo(pic2, 2, "top", 0)>>,
     packs   |-> <<Pack(first, boot, 1, <<1, 6>>), Pack(first, clog, 1, <<None, None>>),
                  Pack(first, sock, 1, <<None, None>>)>>]

W(n) == [m \in {"weight"} |-> 10 * n] \* in grams
L(n) == [m \in {"length"} |-> n]
Look(kind, act, day, card, taken, arranged) ==
    [kind |-> kind, act |-> act, day |-> day, card |-> card, figures |-> taken, arranged |-> arranged]
Correct(act, card, taken) == [kind |-> "correct", act |-> act, day |-> 3, card |-> card, figures |-> taken]
Refile(act, from, to, counted) ==
    [kind |-> "refile", act |-> act, day |-> 3, from |-> from, to |-> to, counts |-> counted]
Match(act, sibling, levels) ==
    [kind |-> "match", act |-> act, day |-> 3, item |-> shoe, sibling |-> sibling, levels |-> levels]
Say(act, counted, correction) ==
    [kind |-> "say", act |-> act, day |-> 2, item |-> clog, counts |-> counted, correction |-> correction]
Of1(kind, act, of, face) == [kind |-> kind, act |-> act, day |-> 2, of |-> of, face |-> face]

MCAsk == [r \in Requests |->
    CASE r = look1  -> Look("look", r, 2, Card(boot, "each"), W(6), TRUE)
      [] r = look2  -> Look("look", r, 2, Card(boot, "carton"), W(60), FALSE)
      [] r = bare   -> Look("look", r, 2, Card(boot, "each"), L(8), FALSE)
      [] r = evid   -> Look("evidence", r, 2, Card(clog, "carton"), <<>>, FALSE)
      [] r = weigh1 -> Look("weigh", r, 3, Card(boot, "each"), W(5), FALSE)
      [] r = weigh2 -> Look("weigh", weigh1, 3, Card(boot, "each"), W(8), FALSE)
      [] r = photo1 -> Of1("photo", r, look1, "front")
      [] r = photo2 -> Of1("photo", r, look2, "front")
      [] r = late   -> Of1("photo", r, first, "back")
      [] r = same1  -> Of1("same", r, pic1, "left")
      [] r = cut1   -> Of1("cut", r, None, None)
      [] r = face1  -> Of1("face", r, pic1, "right")
      [] r = shift1 -> [kind |-> "shift", act |-> r, day |-> 2, of |-> pic1, to |-> photo2]
      [] r = fix1   -> Correct(r, Card(boot, "each"), [m \in {"weight", "length"} |-> IF m = "weight" THEN 70 ELSE 9])
      [] r = fix1b  -> Correct(fix1, Card(boot, "each"), [m \in {"weight", "length"} |-> IF m = "weight" THEN 70 ELSE 9])
      [] r = fix2   -> Correct(r, Card(boot, "each"), W(8))
      [] r = out1   -> Refile(r, Card(boot, "each"), Card(boot, "carton"), <<None, None>>)
      [] r = out2   -> Refile(r, Card(boot, "each"), Card(clog, "each"), <<None, None>>)
      [] r = out3   -> Refile(r, Card(clog, "carton"), Card(shoe, "carton"), <<1, 4>>)
      [] r = out4   -> Refile(r, Card(clog, "carton"), Card(boot, "each"), <<None, None>>)
      [] r = out5   -> Refile(r, Card(boot, "each"), Card(sock, "carton"), <<1, 3>>)
      [] r = match1 -> Match(r, boot, <<"each">>)
      [] r = match2 -> Match(r, boot, <<"carton", "each">>)
      [] r = match3 -> Match(r, clog, <<"carton">>)
      [] r = match4 -> Match(r, boot, <<"each", "carton">>)
      [] r = say1   -> Say(r, <<1, 10>>, FALSE)
      [] r = say2   -> Say(r, <<1, 12>>, FALSE)
      [] r = per1   -> Say(r, <<2, None>>, FALSE)
      [] r = fixsay -> Say(r, <<1, 12>>, TRUE)]

MCRequests == {look1, look2, bare, evid, weigh1, weigh2, photo1, photo2, late, same1, cut1, face1,
               shift1, fix1, fix1b, fix2, out1, out2, out3, out4, out5, match1, match2, match3, match4,
               say1, say2, per1, fixsay}
MCGiven    == {first, pic1, pic2}
MCTogether == {{look1, fix1, out1}, {fix1, fix1b, look1}, {fix1, fix2, out2}, {match1, match2, fix1},
               {match1, late, match2}, {late, cut1, out1}, {look2, photo2, shift1, face1},
               {look1, photo1, shift1, out1}, {face1, out1, same1, cut1}, {say1, say2, per1, fixsay},
               {out1, out2}, {out1, look2}, {out1, out4, bare}, {out3, say1, match3}, {out3, evid},
               {out5, fix2}, {match4, look1},
               {weigh1, weigh2, fix1, evid}}
==============================================================================
