-------------------------------- MODULE Intake --------------------------------
(***************************************************************************)
(* What the system of record sends: item fulfilments to be packed, with what  *)
(* was picked on them; their status afterwards; and the report of what is       *)
(* still to pick.  Each import is one READ COMMITTED transaction, whose          *)
(* statements are steps here, because nothing locks one import out while         *)
(* another runs: two of them meet only at a unique index or a row both update.   *)
(*                                                                         *)
(* A row names the import that wrote it and is seen by that import, and by      *)
(* everyone once the import is done.  A number, a document, an item and a key    *)
(* are model values; the sends are the bodies that may arrive, any of them again *)
(* at any time.  There is one site and one channel, and no fulfilment cancelled:   *)
(* nothing in the code cancels one.                                              *)
(***************************************************************************)
EXTENDS Integers, Sequences, FiniteSets, SequencesExt

CONSTANTS
    Imports,   \* BOUND: the requests, 1 to how many, in the order they arrive
    MaxOpen,   \* BOUND: how many are in progress at once
    MaxStatus, \* BOUND: how many times a status is said
    Sends,     \* the item fulfilments that may be sent
    Reports,   \* the reports of what is still to pick that may be sent
    DryRuns,   \* BOUND: which bodies may also be sent as a dry run
    Together,  \* BOUND: the bodies that may be sent in one behaviour
    Statuses,  \* BOUND: what may be said of a document afterwards; how None is picked again
    Catalogue, \* the items on file at the start
    Piles,     \* per item, the bins the ledger has it in, the fullest first, and what each holds
    InReach,   \* the bins within reach of the floor
    None       \* no document, no key, no kit, nothing chosen

ASSUME IntakeAssumption ==
    /\ \A s \in Sends : Len(s.lines) > 0 /\ \A i \in 1..Len(s.lines) : {s.lines[i].qty, s.lines[i].left} \subseteq Nat
    /\ \A s, t \in Sends : s.doc # None /\ s.doc = t.doc => s.order = t.order

VARIABLES
    req,      \* what each import sent, and how far it has come
    arrivals, \* the bodies stored as they arrived
    items, orders, orderLines, commitments,
    work,     \* the fulfilments, numbered as they were made
    adoptions,\* which of them was given a document after it was made, in order
    keys,     \* commitments that learnt their line's key
    picks,    \* the picks reported on commitments
    closed,   \* per fulfilment, how the other system closed it, or None
    reported, cleared, \* what each feed reported, by its key, and what a later load removed
    sending,  \* the bodies of this behaviour
    said,     \* BOUND: how many times a status was said
    before    \* HISTORY: per import, those that had ended when it began

tables == <<items, orders, orderLines, commitments, work, adoptions, keys, picks>>
report == <<reported, cleared>>
bounds == <<said, sending>>
intakeVars   == <<req, arrivals, tables, closed, report, bounds, before>>

------------------------------------------------------------------------------
(* Transactions *)

Over    == {"idle", "done", "refused", "undone"}
Underway    == {r \in Imports : req[r].at \notin Over}
At(r, step) == r \in Underway /\ req[r].at = step
Send(r) == req[r].send

See(r, table) == {x \in table : x.by = r \/ req[x.by].at = "done"}
Elsewhere(r, table) == {x \in table : x.by # r /\ x.by \in Underway}

\* Numbered rows: those of a sequence that r sees.
Seen(r, rows) == {i \in DOMAIN rows : rows[i].by = r \/ req[rows[i].by].at = "done"}

DocumentSeen(r, f) ==
    LET given == {i \in Seen(r, adoptions) : adoptions[i].work = f}
    IN  IF given = {} THEN work[f].doc ELSE adoptions[Max(given)].doc
KeySeen(r, c) ==
    IF c.key # None THEN c.key
    ELSE LET learnt == {k \in See(r, keys) : k.of = c}
         IN  IF learnt = {} THEN None ELSE (CHOOSE k \in learnt : TRUE).key

Fresh(s, apply) == [send |-> s, apply |-> apply, at |-> "idle", new |-> FALSE, wants |-> {},
                    order |-> None, work |-> None, n |-> 1, line |-> None, row |-> None]

Proceeds(r, step)    == req' = [req EXCEPT ![r].at = step]
Ends(r, how)     == req' = [req EXCEPT ![r] = [Fresh(req[r].send, req[r].apply) EXCEPT !.at = how]]
Takes(r, step, field, value) == req' = [req EXCEPT ![r].at = step, ![r][field] = value]
Refuse(r)        == Ends(r, "refused") /\ UNCHANGED <<arrivals, tables, closed, report, bounds, before>>

------------------------------------------------------------------------------
(* What a line of an item fulfilment is *)

Key(l)   == l.key
KitOf(lines, l) == \* the kit's line, for one of its parts
    {k \in Range(lines) : l.kit # None /\ l.kit # l.key /\ k.key = l.kit}
Role(lines, l) ==
    IF KitOf(lines, l) # {} THEN "part"
    ELSE IF l.type = "kit" \/ (l.key # None /\ \E x \in Range(lines) : x.kit = l.key)
         THEN "kit" ELSE "goods"

ReportedLines(s) == {l \in Range(s.lines) : l.key # None /\ Role(s.lines, l) # "kit"}
Reportable(s) == s.picked /\ s.doc # None /\ s.at # None /\ ReportedLines(s) # {}

\* What was ordered, as far as a send says: what is left of it, or what this one picks.  What is
\* still to pick: none of a kit's own line.
OrderedOn(l)          == Max({l.left, l.qty})
Outstanding(lines, l) == IF Role(lines, l) = "kit" THEN 0 ELSE l.qty

------------------------------------------------------------------------------
(* An import waits for one that holds the row it would write *)

SameLine(c, f, key) == c.work = f /\ key # None

Holders(r) ==
    LET s == Send(r)  f == req[r].work
    IN  CASE req[r].at = "make"  -> {x \in Elsewhere(r, items) : x.code \in req[r].wants}
          [] req[r].at = "claim" -> {a \in Elsewhere(r, Range(adoptions)) : a.work = f \/ a.doc = s.doc}
                                    \cup {w \in Elsewhere(r, Range(work)) : w.doc = s.doc}
          [] req[r].at = "raise" -> {x \in Elsewhere(r, Range(adoptions)) \cup Elsewhere(r, Range(work)) :
                                        x.doc = s.doc}
          [] req[r].at = "put"   -> {c \in Elsewhere(r, commitments) : SameLine(c, f, s.lines[req[r].n].key)
                                                                       /\ c.key = s.lines[req[r].n].key}
                                    \cup {k \in Elsewhere(r, keys) : k.of.work = f /\ k.key = s.lines[req[r].n].key}
          [] req[r].at = "learn" -> {k \in Elsewhere(r, keys) : \/ k.of = req[r].row
                                                                \/ k.of.work = f /\ k.key = s.lines[req[r].n].key}
                                    \cup {c \in Elsewhere(r, commitments) : c.work = f /\ c.key = s.lines[req[r].n].key}
          [] req[r].at = "picks" -> {p \in Elsewhere(r, picks) : KeySeen(r, p.of) # None /\ p.at = s.at
                                                                 /\ DocumentSeen(r, p.of.work) = s.doc}
          [] req[r].at = "reopen" -> {a \in Elsewhere(r, Range(adoptions)) :
                                        DocumentSeen(r, a.work) = s.doc /\ closed[a.work] # None}
          [] req[r].at = "clear" -> {c \in Elsewhere(r, cleared) : c.row \in req[r].wants}
          [] req[r].at = "fill" /\ s \in Reports ->
                {x \in Elsewhere(r, reported) : x.feed = s.feed /\ \E l \in s.lines : l.id = x.key}
          [] OTHER -> {}

WaitsFor(r) == {x.by : x \in Holders(r)}
Unblocked(r, step) == At(r, step) /\ WaitsFor(r) = {}

------------------------------------------------------------------------------
(* Any import begins by storing what arrived *)

Stored(r, s, apply, next) ==
    LET seen == \E a \in arrivals : a.send = s /\ req[a.by].at = "done"
    IN  /\ s \in sending /\ req[r].at = "idle" /\ \A q \in Imports : q < r => req[q].at # "idle"
        /\ Cardinality(Underway) < MaxOpen /\ (apply \/ s \in DryRuns)
        /\ req' = [req EXCEPT ![r] = [Fresh(s, apply) EXCEPT !.at = next, !.new = apply /\ ~seen]]
        /\ arrivals' = IF apply /\ ~seen THEN arrivals \cup {[by |-> r, send |-> s]} ELSE arrivals
        /\ before' = [before EXCEPT ![r] = {q \in Imports : req[q].at \in Over \ {"idle"}}]
        /\ UNCHANGED <<tables, closed, report, bounds>>

Store(r, s, apply) == s \in Sends /\ Stored(r, s, apply, "items")

------------------------------------------------------------------------------
(* orders::load, one item fulfilment *)

Known(r, code) == code \in Catalogue \cup {x.code : x \in See(r, items)}

LacksAll(r) == {l.item : l \in Range(Send(r).lines)} \ Catalogue \* variant: does not look again
Lacks(r)    == {i \in {l.item : l \in Range(Send(r).lines)} : ~Known(r, i)}

\* Of a line with nothing ordered no more is loaded, nor of a send of nothing else.
Loading(r) == IF \E l \in Range(Send(r).lines) : OrderedOn(l) > 0 THEN "order" ELSE "loaded"

Items(r) ==
    /\ At(r, "items")
    /\ Takes(r, IF Lacks(r) = {} THEN Loading(r) ELSE "make", "wants", Lacks(r))
    /\ UNCHANGED <<arrivals, tables, closed, report, bounds, before>>

Make(r) ==
    /\ Unblocked(r, "make")
    /\ IF \E x \in See(r, items) : x.code \in req[r].wants THEN Refuse(r)
       ELSE /\ items' = items \cup {[by |-> r, code |-> i] : i \in req[r].wants}
            /\ Proceeds(r, Loading(r))
            /\ UNCHANGED <<arrivals, orders, orderLines, commitments, work, adoptions, keys, picks, closed, report, bounds, before>>

NumberedMine(r) == {o \in orders : o.by = r /\ o.number = Send(r).order} \* variant: looks among its own only
Numbered(r) == {o \in See(r, orders) : o.number = Send(r).order}

Order(r) ==
    /\ At(r, "order") /\ Proceeds(r, "choose")
    /\ orders' = IF Numbered(r) = {} THEN orders \cup {[by |-> r, number |-> Send(r).order]} ELSE orders
    /\ UNCHANGED <<arrivals, items, orderLines, commitments, work, adoptions, keys, picks, closed, report, bounds, before>>

\* Orders of one number were placed on one day, so the newest may be any of them.
ChooseOrder(r) ==
    /\ At(r, "choose")
    /\ \E o \in Numbered(r) : Takes(r, IF Send(r).doc = None THEN "plan" ELSE "find", "order", o)
    /\ UNCHANGED <<arrivals, tables, closed, report, bounds, before>>

OfOrder(r) == {f \in Seen(r, work) : work[f].order = req[r].order}

Plans(r, doc) == work' = Append(work, [by |-> r, order |-> req[r].order, doc |-> doc])
                 /\ closed' = Append(closed, None)

PlanOne(r) == \* no document: one for the order and site
    /\ At(r, "plan") /\ Proceeds(r, "first")
    /\ IF OfOrder(r) = {} THEN Plans(r, None) ELSE UNCHANGED <<work, closed>>
    /\ UNCHANGED <<arrivals, items, orders, orderLines, commitments, adoptions, keys, picks, report, bounds, before>>
TakeFirst(r) ==
    /\ At(r, "first") /\ Takes(r, "line", "work", Min(OfOrder(r)))
    /\ UNCHANGED <<arrivals, tables, closed, report, bounds, before>>

Documented(r) == {f \in Seen(r, work) : DocumentSeen(r, f) = Send(r).doc}
UnclaimedOrNot(r) == OfOrder(r) \* variant: any row of the order
Unclaimed(r)  == {f \in OfOrder(r) : DocumentSeen(r, f) = None}

Find(r) ==
    /\ At(r, "find")
    /\ IF Documented(r) = {} THEN Proceeds(r, "adopt") ELSE Takes(r, "line", "work", Min(Documented(r)))
    /\ UNCHANGED <<arrivals, tables, closed, report, bounds, before>>
Adopt(r) ==
    /\ At(r, "adopt")
    /\ IF Unclaimed(r) = {} THEN Proceeds(r, "raise") ELSE Takes(r, "claim", "work", Min(Unclaimed(r)))
    /\ UNCHANGED <<arrivals, tables, closed, report, bounds, before>>
\* By the row's id alone: what was unclaimed when it was read may be claimed by now.
Claim(r) ==
    /\ Unblocked(r, "claim")
    /\ IF Documented(r) \ {req[r].work} # {} THEN Refuse(r)
       ELSE /\ adoptions' = Append(adoptions, [by |-> r, work |-> req[r].work, doc |-> Send(r).doc])
            /\ Proceeds(r, "line")
            /\ UNCHANGED <<arrivals, items, orders, orderLines, commitments, work, keys, picks, closed, report, bounds, before>>
Raise(r) ==
    /\ Unblocked(r, "raise")
    /\ IF Documented(r) # {} THEN Refuse(r)
       ELSE /\ Plans(r, Send(r).doc) /\ Takes(r, "line", "work", Len(work) + 1)
            /\ UNCHANGED <<arrivals, items, orders, orderLines, commitments, adoptions, keys, picks, report, bounds, before>>

------------------------------------------------------------------------------
(* and its lines, one after another *)

ThisLine(r) == Send(r).lines[req[r].n]
NextLine(r) == req' = [req EXCEPT ![r].n = @ + 1, ![r].line = None, ![r].row = None,
                                  ![r].at = IF req[r].n = Len(Send(r).lines) THEN "loaded" ELSE "line"]

\* More than one row where one is looked for fails the import.
Line(r) ==
    /\ At(r, "line")
    /\ LET l == ThisLine(r)
           onFile == {x \in See(r, orderLines) : x.order = req[r].order /\ x.item = l.item /\ x.no = l.no}
           added  == [by |-> r, order |-> req[r].order, item |-> l.item, no |-> l.no, qty |-> OrderedOn(l)]
       IN  IF OrderedOn(l) = 0 THEN NextLine(r) /\ UNCHANGED <<arrivals, tables, closed, report, bounds, before>>
           ELSE IF Cardinality(onFile) > 1 THEN Refuse(r)
           ELSE /\ orderLines' = IF onFile = {} THEN orderLines \cup {added} ELSE orderLines
                /\ Takes(r, "commit", "line", IF onFile = {} THEN added ELSE CHOOSE x \in onFile : TRUE)
                /\ UNCHANGED <<arrivals, items, orders, commitments, work, adoptions, keys, picks, closed, report, bounds, before>>

Committed(r) == {c \in See(r, commitments) : c.work = req[r].work /\ c.line = req[r].line}

Commit(r) ==
    /\ At(r, "commit")
    /\ LET l == ThisLine(r)  c == CHOOSE x \in Committed(r) : TRUE
       IN  IF Cardinality(Committed(r)) > 1 THEN Refuse(r)
           ELSE /\ IF Committed(r) # {}
                   THEN IF l.key # None /\ KeySeen(r, c) = None THEN Takes(r, "learn", "row", c) ELSE NextLine(r)
                   ELSE IF Outstanding(Send(r).lines, l) = 0 THEN NextLine(r) ELSE Proceeds(r, "put")
                /\ UNCHANGED <<arrivals, tables, closed, report, bounds, before>>

KeyTaken(r) == \E c \in See(r, commitments) :
                  c.work = req[r].work /\ ThisLine(r).key # None /\ KeySeen(r, c) = ThisLine(r).key

Put(r) ==
    /\ Unblocked(r, "put")
    /\ IF KeyTaken(r) THEN Refuse(r)
       ELSE /\ commitments' = commitments \cup {[by |-> r, work |-> req[r].work, line |-> req[r].line,
                                                 qty |-> ThisLine(r).qty, key |-> ThisLine(r).key]}
            /\ NextLine(r)
            /\ UNCHANGED <<arrivals, items, orders, orderLines, work, adoptions, keys, picks, closed, report, bounds, before>>
\* Into an empty column only.
Learn(r) ==
    /\ Unblocked(r, "learn")
    /\ IF KeySeen(r, req[r].row) # None
       THEN NextLine(r) /\ UNCHANGED <<arrivals, tables, closed, report, bounds, before>>
       ELSE IF KeyTaken(r) THEN Refuse(r)
       ELSE /\ keys' = keys \cup {[by |-> r, of |-> req[r].row, key |-> ThisLine(r).key]}
            /\ NextLine(r)
            /\ UNCHANGED <<arrivals, items, orders, orderLines, commitments, work, adoptions, picks, closed, report, bounds, before>>

------------------------------------------------------------------------------
(* then its picks, and its end *)

Loaded(r) ==
    /\ At(r, "loaded")
    /\ IF ~req[r].apply THEN Ends(r, "undone")
       ELSE IF ~Reportable(Send(r)) THEN Ends(r, "done")
       ELSE Proceeds(r, IF req[r].new THEN "picks" ELSE "reopen")
    /\ UNCHANGED <<arrivals, tables, closed, report, bounds, before>>

PickLine(r, l) == {c \in See(r, commitments) : DocumentSeen(r, c.work) = Send(r).doc /\ KeySeen(r, c) = l.key}

Picks(r) ==
    /\ Unblocked(r, "picks") /\ Proceeds(r, "reopen")
    /\ picks' = picks \cup UNION {
                   {[by |-> r, of |-> c, key |-> l.key, at |-> Send(r).at, qty |-> l.qty] : c \in {
                       x \in PickLine(r, l) :
                           ~\E p \in See(r, picks) : p.of = x /\ p.key = l.key /\ p.at = Send(r).at}} :
                   l \in ReportedLines(Send(r))}
    /\ UNCHANGED <<arrivals, items, orders, orderLines, commitments, work, adoptions, keys, closed, report, bounds, before>>

\* A commitment's level as it is folded: its line's newest report.
LevelAsReceived(c) == LET on == {p \in picks : p.of = c /\ req[p.by].at = "done"} \* variant: the last to arrive
                      IN  (CHOOSE p \in on : \A q \in on : q.by <= p.by).qty
Level(c) == LET on == {p \in picks : p.of = c /\ req[p.by].at = "done"}
            IN  (CHOOSE p \in on : \A q \in on : q.at <= p.at).qty

\* Picked there is open here, whichever of its reports this is.
Reopen(r) ==
    /\ Unblocked(r, "reopen") /\ Ends(r, "done")
    /\ closed' = [f \in DOMAIN closed |-> IF f \in Documented(r) THEN None ELSE closed[f]]
    /\ UNCHANGED <<arrivals, tables, report, bounds, before>>

\* One statement: it sees what is committed, and waits for nobody it does not see.
OnFileWork(doc) ==
    {f \in DOMAIN work : /\ req[work[f].by].at = "done"
                         /\ LET given == {i \in DOMAIN adoptions : adoptions[i].work = f /\ req[adoptions[i].by].at = "done"}
                            IN  (IF given = {} THEN work[f].doc ELSE adoptions[Max(given)].doc) = doc}
Status(doc, how) ==
    /\ said < MaxStatus /\ said' = said + 1
    /\ ~\E i \in DOMAIN adoptions : adoptions[i].work \in OnFileWork(doc) /\ adoptions[i].by \in Underway
    /\ closed' = [f \in DOMAIN closed |-> IF f \in OnFileWork(doc) THEN how ELSE closed[f]]
    /\ UNCHANGED <<req, arrivals, tables, report, sending, before>>

------------------------------------------------------------------------------
(* open_orders::load: the whole of what is still to pick, replacing the last *)

Live(r, feed) == {x \in See(r, reported) : x.feed = feed /\ ~\E c \in See(r, cleared) : c.row = x}
Gone(r, row)  == [by |-> r, row |-> row, at |-> None]

\* A report with fewer lines than it was said to have is stored and not loaded.
StoreReport(r, s, apply) ==
    s \in Reports /\ Stored(r, s, apply, IF ~s.short THEN "replace" ELSE IF apply THEN "done" ELSE "undone")
ReplaceNone(r) == \* variant: adds to what is there
    /\ At(r, "replace") /\ Takes(r, "clear", "wants", {})
    /\ UNCHANGED <<arrivals, tables, closed, report, bounds, before>>
Replace(r) == \* the rows the DELETE finds
    /\ At(r, "replace") /\ Takes(r, "clear", "wants", Live(r, Send(r).feed))
    /\ UNCHANGED <<arrivals, tables, closed, report, bounds, before>>
Clear(r) ==   \* and deletes, once nobody else is deleting them
    /\ Unblocked(r, "clear") /\ Proceeds(r, "fill")
    /\ cleared' = cleared \cup {Gone(r, x) : x \in req[r].wants \cap Live(r, Send(r).feed)}
    /\ UNCHANGED <<arrivals, tables, closed, reported, bounds, before>>
Fill(r) ==    \* a line already there, from a load that got in between, is left
    /\ Send(r) \in Reports
    /\ Unblocked(r, "fill") /\ Ends(r, IF req[r].apply THEN "done" ELSE "undone")
    /\ reported' = reported \cup {[by |-> r, feed |-> Send(r).feed, key |-> l.id, line |-> l, known |-> Known(r, l.item)] :
                      l \in {x \in Send(r).lines : ~\E y \in Live(r, Send(r).feed) : y.key = x.id}}
    /\ UNCHANGED <<arrivals, tables, closed, cleared, bounds, before>>

------------------------------------------------------------------------------
(* to_pick::read: the report shared over the bins, in the order shown *)

Shown(of) == {x \in reported : /\ x.feed.of = of /\ req[x.by].at = "done"
                               /\ ~\E c \in cleared : c.row = x /\ req[c.by].at = "done"}
OnReport  == Shown("orders")

\* items::piles: a bin within reach first, then the ledger's before those a feed reports, then
\* the fullest.  Both records may have a pile in one bin.
SumOf(rows) == FoldSet(LAMBDA x, n : n + x.qty, 0, rows)
Reported(item) ==
    LET here == {x \in Shown("stock") : x.key.item = item /\ x.key.bin # None /\ x.qty > 0}
    IN  SetToSortSeq({[bin |-> b, qty |-> SumOf({x \in here : x.key.bin = b})] : b \in {x.key.bin : x \in here}},
                     LAMBDA x, y : x.qty > y.qty)
PilesOf(item) == LET all == Piles[item] \o Reported(item)
                 IN  SelectSeq(all, LAMBDA p : p.bin \in InReach) \o SelectSeq(all, LAMBDA p : p.bin \notin InReach)
BinsOf(item)  == {p.bin : p \in Range(PilesOf(item))}
FirstIn(item, bin) == LET piles == PilesOf(item) IN piles[Min({i \in DOMAIN piles : piles[i].bin = bin})]
Batch == SetToSortSeq(OnReport, LAMBDA x, y : x.line.id < y.line.id)

ReportLines(order) == SetToSeq({x.line : x \in {y \in OnReport : y.line.order = order}})
HasParts(l) == \E k \in Range(ReportLines(l.order)) : l \in KitOf(ReportLines(l.order), k)
Needed(l)   == IF Role(ReportLines(l.order), l) = "kit" /\ HasParts(l) THEN 0 ELSE l.left

\* What a line takes of its item's piles in their turn, out of what the lines before it left in
\* their bins.
TakesAnew(left, piles, need) == \* variant: each line finds the piles as they are
    FoldLeft(LAMBDA acc, p : LET take == Min({acc.need, p.qty})
                             IN  [left  |-> acc.left,
                                  need  |-> acc.need - take,
                                  takes |-> Append(acc.takes, [bin |-> p.bin, qty |-> take])],
             [left |-> left, need |-> need, takes |-> <<>>], piles)
TakesOf(left, piles, need) ==
    FoldLeft(LAMBDA acc, p : LET take == Min({acc.need, acc.left[p.bin]})
                             IN  [left  |-> [acc.left EXCEPT ![p.bin] = @ - take],
                                  need  |-> acc.need - take,
                                  takes |-> Append(acc.takes, [bin |-> p.bin, qty |-> take])],
             [left |-> left, need |-> need, takes |-> <<>>], piles)

\* What is in a bin is what the first pile there says.
Shared ==
    FoldLeft(LAMBDA acc, x :
                LET item == x.line.item
                    t == TakesOf(acc.left[item], IF x.known THEN PilesOf(item) ELSE <<>>, Needed(x.line))
                IN  [left  |-> [acc.left EXCEPT ![item] = t.left],
                     lines |-> Append(acc.lines, [line |-> x.line, known |-> x.known, takes |-> t.takes, short |-> t.need])],
             [left |-> [i \in DOMAIN Piles |-> [b \in BinsOf(i) |-> FirstIn(i, b).qty]], lines |-> <<>>], Batch)

------------------------------------------------------------------------------
(* Specification *)

IntakeInit ==
    /\ req = [r \in Imports |-> Fresh(None, FALSE)]
    /\ arrivals = {} /\ items = {} /\ orders = {} /\ orderLines = {} /\ commitments = {}
    /\ work = <<>> /\ adoptions = <<>> /\ keys = {} /\ picks = {} /\ closed = <<>>
    /\ reported = {} /\ cleared = {} /\ said = 0 /\ sending \in Together
    /\ before = [r \in Imports |-> {}]

Step(r) ==
    \/ \E s \in Sends, apply \in BOOLEAN : Store(r, s, apply)
    \/ \E s \in Reports, apply \in BOOLEAN : StoreReport(r, s, apply)
    \/ Items(r) \/ Make(r) \/ Order(r) \/ ChooseOrder(r) \/ PlanOne(r) \/ TakeFirst(r)
    \/ Find(r) \/ Adopt(r) \/ Claim(r) \/ Raise(r)
    \/ Line(r) \/ Commit(r) \/ Put(r) \/ Learn(r)
    \/ Loaded(r) \/ Picks(r) \/ Reopen(r)
    \/ Replace(r) \/ Clear(r) \/ Fill(r)

IntakeNext ==
    \/ \E r \in Imports : Step(r)
    \/ \E x \in Statuses : Status(x.doc, x.how)

IntakeSpec == IntakeInit /\ [][IntakeNext]_intakeVars

------------------------------------------------------------------------------
(* Properties *)

\* What is on file has the shape its reader expects, and an import its place in it.
IntakeTypeOK ==
    /\ \A r \in Imports : /\ req[r].work \in DOMAIN work \cup {None}
                          /\ before[r] \subseteq Imports \ {r}
    /\ DOMAIN closed = DOMAIN work /\ Range(closed) \subseteq {None, "packed", "shipped", "gone"}
    /\ \A c \in commitments : c.work \in DOMAIN work /\ c.line \in orderLines /\ c.line.order \in orders
    /\ {k.of : k \in keys} \cup {p.of : p \in picks} \subseteq commitments
    /\ \A c \in cleared : c.row \in reported

OnFile(table) == {x \in table : req[x.by].at = "done"}
DocumentOnFile(f) ==
    LET given == {i \in DOMAIN adoptions : adoptions[i].work = f /\ req[adoptions[i].by].at = "done"}
    IN  IF given = {} THEN work[f].doc ELSE adoptions[Max(given)].doc
Met(a, b) == req[b].at # "idle" /\ a \notin before[b] /\ b \notin before[a]

\* What "the same" is, table by table: the key the source says each is kept by.
Same(x, y)     == x # y /\ ~Met(x.by, y.by)
TwiceOnFile ==
    \/ \E x, y \in OnFile(orders) : x # y /\ x.number = y.number
    \/ \E x, y \in OnFile(orderLines) : x # y /\ x.order = y.order /\ x.item = y.item /\ x.no = y.no
    \/ \E x, y \in OnFile(commitments) : x # y /\ x.work = y.work /\ x.line = y.line

\* Sent again, nothing is written again: a body is stored once, and there is one order of a
\* number, one line of an order, one fulfilment where none was named, and one commitment of a
\* line to a fulfilment, unless two imports that were in progress together wrote them (nothing
\* in the database keeps those apart); and one fulfilment of a document whatever happens.
OnceUnlessTogether ==
    /\ ~\E x, y \in OnFile(arrivals) : Same(x, y) /\ x.send = y.send
    /\ ~\E x, y \in OnFile(orders) : Same(x, y) /\ x.number = y.number
    /\ ~\E x, y \in OnFile(orderLines) : Same(x, y) /\ x.order = y.order /\ x.item = y.item /\ x.no = y.no
    /\ ~\E x, y \in OnFile(commitments) : Same(x, y) /\ x.work = y.work /\ x.line = y.line
    /\ \A f, g \in {h \in DOMAIN work : req[work[h].by].at = "done"} :
          f < g /\ work[f].order = work[g].order =>
             /\ work[g].doc = None => Met(work[f].by, work[g].by)
             /\ DocumentOnFile(f) = DocumentOnFile(g) => DocumentOnFile(f) = None

\* A fulfilment that became an item fulfilment stays that one, with the work recorded against
\* it, unless two documents' first sends were in progress together (the adoption goes by the
\* row's id and does not look again).
DocumentStays ==
    [][\A f \in DOMAIN work :
          LET by == {i \in DOMAIN adoptions' : adoptions'[i].work = f /\ req'[adoptions'[i].by].at = "done"}
          IN  DocumentOnFile(f) # None /\ DocumentOnFile(f)' # DocumentOnFile(f) =>
                 \E i, j \in by : i # j /\ Met(adoptions[i].by, adoptions[j].by)']_intakeVars

\* What is shown as picked on a line is what the newest report of it says, in whatever order
\* the reports came and however often, but for one first sent when nothing was yet to pick on it
\* and of which it said nothing is: the line was not committed, so the report was on none, and
\* the same report again is not read.
KeyOnFile(c) == LET learnt == {k \in OnFile(keys) : k.of = c}
                IN  IF c.key # None \/ learnt = {} THEN c.key ELSE (CHOOSE k \in learnt : TRUE).key
NewestLevel ==
    \A c \in OnFile(commitments) :
        LET SaidOf(q) == {l \in ReportedLines(Send(q)) : l.key = KeyOnFile(c)}
            told == {q \in Imports : /\ req[q].at = "done" /\ req[q].send \in Sends
                                     /\ Reportable(Send(q)) /\ Send(q).doc = DocumentOnFile(c.work)
                                     /\ SaidOf(q) # {}}
            lost == {q \in told : c.by \notin before[q] \cup {q} /\ \A l \in SaidOf(q) : l.qty = 0}
            kept == {q \in told : \A p \in lost : Send(p) # Send(q)}
            adopted == {i \in DOMAIN adoptions : adoptions[i].work = c.work /\ req[adoptions[i].by].at = "done"}
        IN  kept # {} /\ Cardinality(adopted) <= 1 =>
               \E q \in told : /\ \A p \in kept : Send(p).at <= Send(q).at
                               /\ \E l \in SaidOf(q) : Level(c) = l.qty

\* An import is refused only when it met another, or when two that met left one thing on file
\* twice: sent alone, over what was written alone, it loads.
RefusedForAReason ==
    \A r \in Imports : req[r].at = "refused" /\ req[r].send \in Sends \cup Reports => TwiceOnFile \/ \E q \in Imports \ {r} : Met(r, q)

\* The batch the pickers are given is one load, shared out: after a load that began when every
\* other had ended it has exactly the lines that load said, short loads, dry runs and what two
\* loads in progress together left all gone; it never sends two pickers for the same goods;
\* and a line is short of what it needs only when its bins are empty.
TakenFrom(item, bin) ==
    LET Here(x) == SelectSeq(x.takes, LAMBDA t : x.line.item = item /\ t.bin = bin)
    IN  FoldLeft(LAMBDA n, x : FoldLeft(LAMBDA m, t : m + t.qty, n, Here(x)), 0, Shared.lines)
BatchIsTheLoad ==
    LET loads == {r \in Imports : req[r].at = "done" /\ req[r].send \in Reports /\ ~Send(r).short}
    IN  /\ \A r \in loads : loads \ {r} \subseteq before[r] => {x.line : x \in OnReport} = Send(r).lines
        /\ \A item \in DOMAIN Piles : \A b \in BinsOf(item) : TakenFrom(item, b) <= FirstIn(item, b).qty
        /\ \A i \in DOMAIN Shared.lines :
              LET x == Shared.lines[i]
              IN  x.short > 0 /\ x.known =>
                     \A b \in BinsOf(x.line.item) : TakenFrom(x.line.item, b) = FirstIn(x.line.item, b).qty

------------------------------------------------------------------------------
(* What the docs and comments say, which the code does not keep *)

\* "Loading the same rows twice writes nothing the second time": a send already stored reopens
\* the fulfilment that was closed since.
ResendChangesNothing ==
    [][\A r \in Imports : (At(r, "reopen") /\ ~req[r].new) => UNCHANGED closed]_intakeVars
\* "Adopt, do not duplicate. Only a row nobody has claimed."
AdoptedStays ==
    [][\A f \in DOMAIN work : DocumentOnFile(f) # None => DocumentOnFile(f)' = DocumentOnFile(f)]_intakeVars
\* "A later report of a different number is a new level, which is how an un-pick arrives": one
\* that came while nothing was to pick on its line is not kept, and an earlier one is shown.
NewestOfAll ==
    \A c \in OnFile(commitments) : \A q \in Imports :
        req[q].at = "done" /\ req[q].send \in Sends /\ Reportable(Send(q)) /\ Send(q).doc = DocumentOnFile(c.work) =>
            \A l \in ReportedLines(Send(q)) : l.key = KeyOnFile(c) =>
                \E p \in OnFile(picks) : p.of = c /\ p.at >= Send(q).at
\* "Idempotent per order, because the sender will resend": two lines of one order left by two
\* imports make every later send of it fail.
SentAloneLoads ==
    \A r \in Imports : req[r].at = "refused" => \E q \in Imports \ {r} : Met(r, q)
==============================================================================
