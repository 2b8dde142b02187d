--------------------------------- MODULE Feeds ---------------------------------
(***************************************************************************)
(* The files an import token sends beside the fulfilments (Intake): the item    *)
(* master, the balance, what is said of each item, what was packed, and the bin  *)
(* list.  Each is an import like the others: what arrived is stored, then its    *)
(* load runs, statement by statement, and a dry run is the load undone.          *)
(*                                                                         *)
(* Three ways of taking a file in.  The balance is the whole of what a feed      *)
(* says and replaces what it said before; of an item, what is said otherwise or  *)
(* no longer is closed and kept; what was packed is kept once seen.  Nothing     *)
(* compares when two files were taken: an older one loads like any other.        *)
(***************************************************************************)
EXTENDS Intake

CONSTANTS
    Files,       \* the files that may be sent
    SitesOnFile, \* the sites at the start, their code and name
    BinsOnFile   \* the bins at the start, each a site and a code

\* What a file says is kept apart from what the others say.
ASSUME FilesAssumption ==
    /\ \A s \in Files : /\ s.kind \in {"items", "stock", "details", "packed", "bins"}
                        /\ s.kind \in {"stock", "details", "packed"} => s.feed.of = s.kind
                        /\ s.kind = "details" => s.at \in Int
                        /\ \A i \in DOMAIN s.rows : i \in Nat \ {0}
    /\ \A s \in Reports : s.feed.of = "orders"

VARIABLES sites  \* sites made by a bin list

feedVars == <<intakeVars, sites>>
others   == <<tables, closed, bounds, before>>

SitesSeen(r)     == SitesOnFile \cup {x.site : x \in See(r, sites)}
Matches(r, h)    == {t \in SitesSeen(r) : t.code = h.code \/ t.name = h.name}
Houses(s) == CASE s.kind = "bins"               -> Range(s.houses)
               [] s.kind \in {"stock", "packed"} -> {x.house : x \in Range(s.rows)}
               [] OTHER                           -> {}
BinsFeed         == [of |-> "bins", source |-> None]
Fields(s)        == [of |-> "fields", source |-> s.feed.source]
Row(r)           == Send(r).rows[req[r].n]
Ended(r)         == Ends(r, IF req[r].apply THEN "done" ELSE "undone")
NextRow(r, step) == IF req[r].n = Len(Send(r).rows) THEN Ended(r)
                    ELSE req' = [req EXCEPT ![r].at = step, ![r].n = @ + 1]
Feed(r, feed, key, val) == [by |-> r, feed |-> feed, key |-> key, val |-> val]

\* A load meets another at the rows both write.
Keyed(r, feed, k) == {x \in Elsewhere(r, reported) : x.feed = feed /\ x.key \in k}
Taken(r, rows)    == {c \in Elsewhere(r, cleared) : c.row \in rows}

FeedHolders(r) ==
    LET s == Send(r)
    IN  CASE req[r].at = "code"   -> {x \in Elsewhere(r, items) : x.code = Row(r)}
          [] req[r].at = "open site" -> {x \in Elsewhere(r, sites) : x.site.code = s.houses[req[r].n].code}
          [] req[r].at = "bin"    -> LET k == {<<p[2], Row(r).bin>> : p \in {q \in req[r].wants : q[1] = Row(r).house}}
                                     IN  Keyed(r, BinsFeed, k) \cup Taken(r, {x \in Live(r, BinsFeed) : x.key \in k})
          [] req[r].at = "fill" /\ s \in Files -> Keyed(r, s.feed, {[item |-> x.item, bin |-> x.bin] : x \in Range(s.rows)})
          [] req[r].at = "say"    -> LET k == {x.item : x \in Range(s.rows)}
                                     IN  Keyed(r, s.feed, k)
                                         \cup Taken(r, req[r].wants \cup {x \in Live(r, s.feed) : x.key \in k})
          [] req[r].at = "close"  -> Taken(r, req[r].wants)
          [] req[r].at = "open"   -> Keyed(r, Fields(s), {x.key : x \in req[r].wants})
          [] req[r].at = "pack"   -> LET k == {x.doc : x \in Range(s.rows)}
                                     IN  Keyed(r, s.feed, k) \cup Taken(r, {x \in Live(r, s.feed) : x.key \in k})
          [] OTHER -> {}

Blocks(r)      == {x.by : x \in Holders(r) \cup FeedHolders(r)}
May(r, step)   == At(r, step) /\ Send(r) \in Files /\ Blocks(r) = {}
Errors(r)      == Ends(r, "refused") /\ UNCHANGED <<arrivals, report, sites, others>>

\* The database ends one of two that wait for each other.
DeadlockVictim(r) ==
    /\ r \in Underway /\ \E q \in Blocks(r) : r \in Blocks(q)
    /\ Errors(r)

------------------------------------------------------------------------------
(* Any file: stored, then loaded, unless it is shorter than it was said to be *)

FirstStep(s) == CASE s.kind = "items"   -> "code"
              [] s.kind = "stock"   -> "replace"
              [] s.kind = "details" -> "unsay"
              [] s.kind = "packed"  -> "read packed"
              [] s.kind = "bins"    -> "site"

Short(s) == s.kind = "stock" /\ s.short

StoreFile(r, s, apply) ==
    /\ s \in Files
    /\ Stored(r, s, apply, IF ~Short(s) THEN FirstStep(s) ELSE IF apply THEN "done" ELSE "undone")
    /\ UNCHANGED sites

------------------------------------------------------------------------------
(* items::load: a code on file is left as it is *)

Code(r) ==
    /\ May(r, "code") /\ NextRow(r, "code")
    /\ items' = IF Known(r, Row(r)) THEN items ELSE items \cup {[by |-> r, code |-> Row(r)]}
    /\ UNCHANGED <<arrivals, orders, orderLines, commitments, work, adoptions, keys, picks, report, sites,
                   closed, bounds, before>>

------------------------------------------------------------------------------
(* bins::load: each warehouse is matched before it is made, then each bin *)

House(r)    == Send(r).houses[req[r].n]
Left(h)     == h.external \/ ~h.clock       \* somebody else's building, or no known clock
NextHouse(r, found) ==
    req' = [req EXCEPT ![r].wants = @ \cup found,
                       ![r].n  = IF @ = Len(Send(r).houses) THEN 1 ELSE @ + 1,
                       ![r].at = IF req[r].n = Len(Send(r).houses) THEN "bin" ELSE "site"]

MatchSite(r) ==
    LET m == Matches(r, House(r))
    IN  /\ May(r, "site")
        /\ IF Left(House(r)) THEN NextHouse(r, {}) /\ UNCHANGED <<arrivals, report, sites, others>>
           ELSE IF Cardinality(m) > 1 THEN Errors(r)
           ELSE /\ IF m = {} THEN Proceeds(r, "open site") ELSE NextHouse(r, {House(r).name} \X m)
                /\ UNCHANGED <<arrivals, report, sites, others>>
OpenSite(r) ==
    LET site == [code |-> House(r).code, name |-> House(r).name]
    IN  /\ May(r, "open site")
        /\ IF \E t \in SitesSeen(r) : t.code = site.code THEN Errors(r)
           ELSE /\ sites' = sites \cup {[by |-> r, site |-> site]}
                /\ NextHouse(r, {<<site.name, site>>})
                /\ UNCHANGED <<arrivals, report, others>>

\* The kind a bin states, or is assumed to have; a position of 0 is no position.
KindOf(s, x)  == IF x.kind # None THEN x.kind ELSE s.assume
Position(x)   == IF x.order = 0 THEN None ELSE x.order

Bin(r) ==
    LET at   == {p[2] : p \in {q \in req[r].wants : q[1] = Row(r).house}}
        new  == {Feed(r, BinsFeed, <<t, Row(r).bin>>, [kind |-> KindOf(Send(r), Row(r)), order |-> Position(Row(r))]) : t \in at}
        old  == {x \in Live(r, BinsFeed) : \E y \in new : y.key = x.key}
        same == \E x \in old, y \in new : x.val = y.val
    IN  /\ May(r, "bin") /\ NextRow(r, "bin")
        /\ IF KindOf(Send(r), Row(r)) = None \/ same THEN UNCHANGED report
           ELSE reported' = (reported \ {x \in old : x.by = r}) \cup new
                /\ cleared' = cleared \cup {Gone(r, x) : x \in {y \in old : y.by # r}}
        /\ UNCHANGED <<arrivals, sites, others>>

------------------------------------------------------------------------------
(* stock::load: a feed's balances, one of an item on a shelf, in place of its last *)

BinOnFile(r, site, bin) == <<site, bin>> \in BinsOnFile \/ \E x \in Live(r, BinsFeed) : x.key = <<site, bin>>

\* The rows read: of a site, an item and a shelf on file.
Resolved(r) ==
    {i \in DOMAIN Send(r).rows :
        LET x == Send(r).rows[i]
        IN  /\ Known(r, x.item)
            /\ \E t \in Matches(r, x.house) : x.bin = None \/ BinOnFile(r, t, x.bin)}

BalanceLast(s, on, key) == s.rows[Max({i \in on : [item |-> s.rows[i].item, bin |-> s.rows[i].bin] = key})].qty \* variant: the last lot
Balance(s, on, key) ==
    MapThenSumSet(LAMBDA i : s.rows[i].qty, {i \in on : [item |-> s.rows[i].item, bin |-> s.rows[i].bin] = key})

\* Less than nothing is not written.
Balances(r) ==
    LET s == Send(r)  on == Resolved(r)
        held == {[item |-> s.rows[i].item, bin |-> s.rows[i].bin] : i \in on}
    IN  {[by |-> r, feed |-> s.feed, key |-> k, qty |-> Balance(s, on, k)] : k \in {h \in held : Balance(s, on, h) >= 0}}

FillStock(r) ==
    /\ May(r, "fill")
    /\ IF \/ \E x \in Range(Send(r).rows) : Cardinality(Matches(r, x.house)) > 1
          \/ \E x \in Live(r, Send(r).feed), y \in Balances(r) : x.key = y.key
       THEN Errors(r)
       ELSE /\ reported' = reported \cup Balances(r) /\ Ended(r)
            /\ UNCHANGED <<arrivals, cleared, sites, others>>

------------------------------------------------------------------------------
(* item_details::load: what is said of each item, and of each of its fields *)

\* The last row naming an item is its word.
LastOf(s, item) == s.rows[Max({i \in DOMAIN s.rows : s.rows[i].item = item})]
Named(r)        == {i \in {x.item : x \in Range(Send(r).rows)} : Known(r, i)}
SaidNow(r)      == UNION {{[key |-> <<i, f[1]>>, value |-> f[2]] : f \in LastOf(Send(r), i).said} : i \in Named(r)}

Unsay(r) ==
    /\ May(r, "unsay")
    /\ Takes(r, "say", "wants", {x \in Live(r, Send(r).feed) : x.key \notin Named(r)})
    /\ UNCHANGED <<arrivals, report, sites, others>>
SayItems(r) ==
    LET feed == Send(r).feed
        old == {x \in Live(r, feed) : x \in req[r].wants \/ x.key \in Named(r)}
    IN  /\ May(r, "say") /\ Proceeds(r, "read fields")
        /\ cleared' = cleared \cup {Gone(r, x) : x \in old}
        /\ reported' = reported \cup {Feed(r, feed, i, LastOf(Send(r), i).said) : i \in Named(r)}
        /\ UNCHANGED <<arrivals, sites, others>>

OpenFields(r) == Live(r, Fields(Send(r)))
NotSaidOfNamed(r) == \* variant: only what a row it names says otherwise
    {x \in OpenFields(r) : (\E y \in SaidNow(r) : y.key = x.key) /\ ~\E y \in SaidNow(r) : y.key = x.key /\ y.value = x.val.value}
NotSaid(r) == {x \in OpenFields(r) : ~\E y \in SaidNow(r) : y.key = x.key /\ y.value = x.val.value}

ReadFields(r) ==
    /\ May(r, "read fields") /\ Takes(r, "close", "wants", NotSaid(r))
    /\ UNCHANGED <<arrivals, report, sites, others>>
\* Closed when this load was taken, which is never before it was first said.
CloseFields(r) ==
    LET old == req[r].wants \cap OpenFields(r)
    IN  /\ May(r, "close")
        /\ IF \E x \in old : x.val.from > Send(r).at THEN Errors(r)
           ELSE /\ cleared' = cleared \cup {[by |-> r, row |-> x, at |-> Send(r).at] : x \in old}
                /\ Proceeds(r, "read open")
                /\ UNCHANGED <<arrivals, reported, sites, others>>
ReadOpen(r) ==
    /\ May(r, "read open")
    /\ Takes(r, "open", "wants", {y \in SaidNow(r) : ~\E x \in OpenFields(r) : x.key = y.key})
    /\ UNCHANGED <<arrivals, report, sites, others>>
\* One value is open of a field: two for it in one file, or one opened meanwhile, fail the load.
SayFields(r) ==
    LET new == req[r].wants
    IN  /\ May(r, "open")
        /\ IF \/ \E x, y \in new : x # y /\ x.key = y.key
              \/ \E x \in new, y \in OpenFields(r) : x.key = y.key
           THEN Errors(r)
           ELSE /\ reported' = reported \cup
                        {Feed(r, Fields(Send(r)), x.key, [value |-> x.value, from |-> Send(r).at]) : x \in new}
                /\ Ended(r)
                /\ UNCHANGED <<arrivals, cleared, sites, others>>

------------------------------------------------------------------------------
(* packed::load: kept once seen; only who packed it follows *)

ClosedHere(doc) == \E f \in OnFileWork(doc) : closed[f] # None

\* When it was packed: 0 for when it was seen closed here; else this load, or on a feed's first the
\* day it says.
PackedAt(r, x) ==
    IF x.doc \in req[r].line.closed THEN 0
    ELSE IF req[r].line.first /\ x.date # None /\ x.date < Send(r).at THEN x.date ELSE Send(r).at

ReadPacked(r) ==
    /\ May(r, "read packed")
    /\ Takes(r, "pack", "line", [first  |-> ~\E x \in See(r, reported) : x.feed = Send(r).feed,
                                 closed |-> {d \in {x.doc : x \in Range(Send(r).rows)} : ClosedHere(d)}])
    /\ UNCHANGED <<arrivals, report, sites, others>>

PackedAgain(r, old, x) == PackedAt(r, x) \* variant: when it was packed follows too
PackedThen(r, old, x)  == IF old = {} THEN PackedAt(r, x) ELSE (CHOOSE o \in old : TRUE).val.at

\* The first row of a fulfilment is read.
Pack(r) ==
    LET s == Send(r)
        rows == {i \in DOMAIN s.rows : /\ Matches(r, s.rows[i].house) # {}
                                       /\ ~\E j \in 1..(i - 1) : s.rows[j].doc = s.rows[i].doc /\ Matches(r, s.rows[j].house) # {}}
        Old(x) == {o \in Live(r, s.feed) : o.key = x.doc}
    IN  /\ May(r, "pack")
        /\ IF \E h \in Houses(s) : Cardinality(Matches(r, h)) > 1 THEN Errors(r)
           ELSE /\ Ended(r)
                /\ cleared' = cleared \cup {Gone(r, o) : o \in UNION {Old(s.rows[i]) : i \in rows}}
                /\ reported' = reported \cup {LET x == s.rows[i]
                                              IN  Feed(r, s.feed, x.doc, [packer |-> x.packer, at |-> PackedThen(r, Old(x), x)]) : i \in rows}
                /\ UNCHANGED <<arrivals, sites, others>>

------------------------------------------------------------------------------
(* Specification: any of the token's imports *)

FeedInit == IntakeInit /\ sites = {}

FeedStep(r) ==
    \/ \E s \in Files, apply \in BOOLEAN : StoreFile(r, s, apply)
    \/ Code(r) \/ MatchSite(r) \/ OpenSite(r) \/ Bin(r) \/ FillStock(r)
    \/ Unsay(r) \/ SayItems(r) \/ ReadFields(r) \/ CloseFields(r) \/ ReadOpen(r) \/ SayFields(r)
    \/ ReadPacked(r) \/ Pack(r) \/ DeadlockVictim(r)

FeedNext == (IntakeNext /\ UNCHANGED sites) \/ \E r \in Imports : FeedStep(r)
FeedSpec == FeedInit /\ [][FeedNext]_feedVars

------------------------------------------------------------------------------
(* Properties *)

Newer(r) == \E q \in Imports : req[q].at = "done" /\ req[q].send \in Files /\ Send(q).kind = Send(r).kind
                               /\ "feed" \in DOMAIN Send(q) /\ Send(q).feed = Send(r).feed /\ Send(q).at > Send(r).at

Tally(s, key) == MapThenSumSet(LAMBDA i : s.rows[i].qty, {i \in DOMAIN s.rows : s.rows[i].item = key.item /\ s.rows[i].bin = key.bin})

\* After a load of a feed that began when every other of it had ended, what the feed says is
\* that load's whole word and nothing else's: a balance is all the rows of an item on a shelf,
\* an item or field it does not name is not said, and a short file changed nothing; and one
\* value is open of a field whatever is loaded together.
FeedIsOneLoad ==
    LET loads(kind) == {r \in Imports : req[r].at = "done" /\ req[r].send \in Files /\ Send(r).kind = kind /\ ~Short(Send(r))}
        Lone(r) == \A q \in loads(Send(r).kind) \ {r} : Send(q).feed = Send(r).feed => q \in before[r]
    IN  /\ \A r \in loads("stock") : Lone(r) =>
              /\ \A x \in Shown("stock") : x.feed = Send(r).feed =>
                    x.by = r /\ x.qty = Tally(Send(r), x.key)
              /\ \A x \in Range(Send(r).rows) :
                    LET k == [item |-> x.item, bin |-> x.bin]
                    IN  /\ x.item \in Catalogue /\ Tally(Send(r), k) >= 0
                        /\ \E t \in SitesOnFile : t.code = x.house.code /\ (x.bin = None \/ <<t, x.bin>> \in BinsOnFile)
                        => \E y \in Shown("stock") : y.by = r /\ y.key = k
        /\ \A r \in loads("details") : Lone(r) =>
              LET now == {x \in Shown("fields") : x.feed.source = Send(r).feed.source}
              IN  /\ {x.key[1] : x \in now} \cup {x.key : x \in {y \in Shown("details") : y.feed = Send(r).feed}}
                        \subseteq {x.item : x \in Range(Send(r).rows)}
                  /\ \A x \in now : <<x.key[2], x.val.value>> \in LastOf(Send(r), x.key[1]).said
                  /\ \A x \in Range(Send(r).rows) : x.item \in Catalogue =>
                        \A f \in LastOf(Send(r), x.item).said : \E y \in now : y.key = <<x.item, f[1]>>
        /\ \A x, y \in Shown("fields") : x.feed = y.feed /\ x.key = y.key => x = y

\* Both: the batch and every feed read as one whole load left them.
LoadsAreWhole == BatchIsTheLoad /\ FeedIsOneLoad

\* What was said is kept as it was said: what is closed stays closed, from when the closing
\* load was taken, and when a fulfilment was packed, once known, does not move, whatever is
\* loaded again, late or together.
OnFileRows(of) == {x \in reported : x.feed.of = of /\ req[x.by].at = "done"}
SaidStands ==
    [][/\ \A x \in Shown("fields") : x \in Shown("fields")' \/ \E c \in OnFile(cleared)' : c.row = x /\ c.at >= x.val.from
       /\ \A x \in OnFileRows("packed"), y \in OnFileRows("packed")' :
             x.feed = y.feed /\ x.key = y.key => x.val.at = y.val.at]_feedVars

\* What a file once settled stays settled, whatever is loaded after it or beside it: the
\* document of a fulfilment, what is closed, and when it was packed.
SettledStays == DocumentStays /\ SaidStands

\* An import fails only when it met another, or for what a person can put right: two that met
\* left one thing on file twice, what a file puts an end to was said later than the file was
\* taken, it says one field twice, or its warehouse is two sites here.
FailsForAReason ==
    /\ RefusedForAReason
    /\ \A r \in Imports : req[r].at = "refused" /\ req[r].send \in Files =>
          \/ \E q \in Imports \ {r} : Met(r, q)
          \/ Send(r).kind = "details" /\ (Newer(r) \/ \E x \in Range(Send(r).rows) : \E f, g \in x.said : f # g /\ f[1] = g[1])
          \/ \E h \in Houses(Send(r)) : Cardinality({t \in SitesOnFile \cup {x.site : x \in OnFile(sites)} :
                                                        t.code = h.code \/ t.name = h.name}) > 1
==============================================================================
