--------------------------------- MODULE Layout ---------------------------------
(***************************************************************************)
(* A site's layout: places inside places, the bins in their cells, and the   *)
(* people who change it at once.  The plan editor reads the layout, is held   *)
(* by a person for minutes, and saves against the version it read; a draft    *)
(* puts the bins that have no cell where their codes say; and a rack's reach   *)
(* is set on its own.  Each is a READ COMMITTED transaction of several         *)
(* statements.  Saves exclude each other by an advisory lock that neither a   *)
(* draft nor a reach takes.                                                 *)
(*                                                                         *)
(* A bin's code is its rack's name and a bay number.  Levels, rows and         *)
(* positions are left out: codes spell them as they spell bays, and numbering  *)
(* from the other end mirrors bays only.  A box is one of a few drawn.  A save    *)
(* does one thing to one place.                                            *)
(***************************************************************************)
EXTENDS Integers, FiniteSets

CONSTANTS
    Saves,    \* requests of the plan editor, each sent once; a retry is another
    Editors,  \* screens of the plan editor, and the acts their saves are
    Drafts,   \* requests to draft the layout
    Reaches,  \* requests that set a rack's reach
    Ask,      \* what each request asks
    Bins,     \* the site's active bins
    Code,     \* each bin's code: its rack and its bay
    Drawn,    \* the places at the start
    Placed,   \* and the bins in them
    Together, \* BOUND: the sets of requests one behaviour sends
    None

Requests == Saves \cup Drafts \cup Reaches
Racks    == {Code[b].rack : b \in Bins}

\* A save names its editor, what it does ("moves", "flips", "adds" or "removes"), the
\* place, the box it is left in, and for a spot added its bin.  A draft says whether it is applied, and names
\* families left out, on two sides, and numbered from the right.
ASSUME LayoutAssumption ==
    /\ Saves \cap Drafts = {} /\ Saves \cap Reaches = {} /\ Drafts \cap Reaches = {}
    /\ None \notin Requests \cup Bins \cup DOMAIN Drawn
    /\ Together \subseteq SUBSET Requests
    /\ \A s \in Saves : Ask[s].editor \in Editors
                        /\ Ask[s].does \in {"moves", "flips", "adds", "removes"}
    /\ \A b, c \in Bins : Code[b] = Code[c] => b = c
    /\ \A p \in DOMAIN Drawn : Drawn[p].inside \in DOMAIN Drawn \cup {None}

VARIABLES
    places,   \* the places, by id: what each is inside, its name, box, rack and grid
    cell,     \* per bin, its place, side and bay, or None
    desk,     \* per editor: "closed", "seen" or "open"
    view,     \* the places an editor was sent
    version,  \* and the version they were sent with: the places as they then stood
    pc,       \* "new", "begun", "checked", "read", "drawn", "listed", "put", "done", "ended"
    before,   \* HISTORY: the requests that had ended when this one began
    lock,     \* the save that holds the layout's advisory lock, or None
    saved,    \* the acts whose save is committed
    rows,     \* the places a request read
    listed,   \* the bins a save read in the place it numbers from its other end
    plan,     \* what a draft will do
    work,     \* what a request has written and not committed
    outcome   \* "none", "saved", "told", "refused" or "failed"

editors == <<desk, view, version>>
reads   == <<before, rows, listed, plan>>
vars    == <<places, cell, editors, pc, reads, lock, saved, work, outcome>>

------------------------------------------------------------------------------
(* A rack's numbers *)

\* Grid::label_number: round the back and on, from either end.
Label(g, side, bay) ==
    LET along == IF g.right THEN g.bays + 1 - bay ELSE bay IN
    g.first + (IF side = 2 THEN 2 * g.bays - along ELSE along - 1) * g.step

\* The cells of a place that its pattern names as a bin is called: one, or none.
\* MUTANT: from the right end or the left, the cells are read the same.
SpellsAsDrawn(p, b) ==
    IF p.rack # Code[b].rack THEN {}
    ELSE {c \in (1..p.grid.sides) \X (1..p.grid.bays) :
            Label([p.grid EXCEPT !.right = FALSE], c[1], c[2]) = Code[b].bay}

Spells(p, b) ==
    IF p.rack # Code[b].rack THEN {}
    ELSE {c \in (1..p.grid.sides) \X (1..p.grid.bays) :
            Label(p.grid, c[1], c[2]) = Code[b].bay}

In(id, c) == [place |-> id, side |-> c[1], bay |-> c[2]]

\* The places at the start are such as drafts and saves leave, their bins in the cells their
\* codes spell; and the id of a place that is added is its own.
ASSUME DrawnAssumption ==
    /\ IsFiniteSet(Bins) /\ \A b \in Bins : Code[b].bay \in Nat /\ Code[b].rack # None
    /\ \A p \in DOMAIN Drawn :
          /\ DOMAIN Drawn[p] = {"inside", "name", "solid", "box", "rack", "reach", "grid"}
          /\ DOMAIN Drawn[p].grid = {"bays", "levels", "first", "step", "sides", "right"}
    /\ DOMAIN Placed = Bins
    /\ \A b \in Bins : Placed[b] # None =>
          /\ Placed[b].place \in DOMAIN Drawn
          /\ LET p == Drawn[Placed[b].place] IN
             p.rack # None => /\ p.rack = Code[b].rack
                              /\ Label(p.grid, Placed[b].side, Placed[b].bay) = Code[b].bay
    /\ \A s \in Saves : Ask[s].does = "adds" => Ask[s].place \notin DOMAIN Drawn
    /\ \A d \in Drafts, k \in Racks \cup {"building"} :
          /\ <<d, k>> \notin DOMAIN Drawn
          /\ \A s \in Saves : Ask[s].does = "adds" => Ask[s].place # <<d, k>>

\* layout::draft, for one family: from the lowest number to the highest, by two when
\* they are all odd or all even.
GridOf(N) ==
    LET lo == CHOOSE n \in N : \A k \in N : n <= k
        hi == CHOOSE n \in N : \A k \in N : k <= n
        step == IF hi > lo /\ \A n \in N : (n - lo) % 2 = 0 THEN 2 ELSE 1
    IN  [bays |-> (hi - lo) \div step + 1, levels |-> 1, first |-> lo, step |-> step,
         sides |-> 1, right |-> FALSE]

\* two_sides: the same rack, half as long, with the rest of its bays round the back.
TwoSides(g) == [g EXCEPT !.bays = (g.bays + 1) \div 2, !.sides = 2]

------------------------------------------------------------------------------
(* Rows, locks and transactions *)

Nothing == [places |-> <<>>, cells |-> <<>>, gone |-> {}]

\* One row; and what is in f, with what is only in g.
Only(x, v) == [y \in {x} |-> v]
Over(f, g) == [x \in DOMAIN f \cup DOMAIN g |-> IF x \in DOMAIN f THEN f[x] ELSE g[x]]

\* What a request sees: what is committed, and what it wrote.
Seen(r)     == [p \in (DOMAIN places \cup DOMAIN work[r].places) \ work[r].gone |->
                  IF p \in DOMAIN work[r].places THEN work[r].places[p] ELSE places[p]]
CellOf(r, b) == IF b \in DOMAIN work[r].cells THEN work[r].cells[b] ELSE cell[b]

\* A row another has written and not committed.
Drawing(r, p) == \E q \in Requests \ {r} : p \in DOMAIN work[q].places \/ p \in work[q].gone
Moving(r, b)  == \E q \in Requests \ {r} : b \in DOMAIN work[q].cells

Goes(r, step) == pc' = [pc EXCEPT ![r] = step]
Writes(r, w)  == work' = [work EXCEPT ![r] = w]

End(r, how) ==
    /\ Goes(r, "ended")
    /\ outcome' = [outcome EXCEPT ![r] = how]
    /\ Writes(r, Nothing)
    /\ lock' = IF lock = r THEN None ELSE lock

Fails(r, how) == End(r, how) /\ UNCHANGED <<places, cell, editors, reads, saved>>

\* The bins that are in no cell still.
StillOut(r, M) == {m \in M : CellOf(r, m.bin) = None}

\* The UPDATE that puts bins in cells, M: it waits for a bin another has moved, for a
\* cell another is filling or emptying and for a place another is removing.  Then only
\* a bin in no cell moves; a cell that is taken, or a place that is gone, fails it.
Waits(r, M) ==
    \E m \in StillOut(r, M) :
        \/ Moving(r, m.bin)
        \/ \E q \in Requests \ {r} :
              \/ m.to.place \in work[q].gone
              \/ \E b \in DOMAIN work[q].cells : m.to \in {cell[b], work[q].cells[b]}
Collides(r, M) ==
    \E m \in StillOut(r, M) :
        \/ m.to.place \notin DOMAIN Seen(r)
        \/ \E b \in Bins \ {m.bin} : CellOf(r, b) = m.to
Puts(r, M) ==
    LET out == StillOut(r, M) IN
    Over([b \in {m.bin : m \in out} |-> (CHOOSE m \in out : m.bin = b).to], work[r].cells)

Init ==
    /\ \E S \in Together : pc = [r \in Requests |-> IF r \in S THEN "new" ELSE "ended"]
    /\ places = Drawn
    /\ cell = Placed
    /\ desk = [e \in Editors |-> "closed"]
    /\ view = [e \in Editors |-> <<>>]
    /\ version = [e \in Editors |-> <<>>]
    /\ before = [r \in Requests |-> {}]
    /\ lock = None
    /\ saved = {}
    /\ rows = [r \in Requests |-> <<>>]
    /\ listed = [s \in Saves |-> {}]
    /\ plan = [d \in Drafts |-> [fill |-> {}, make |-> {}]]
    /\ work = [r \in Requests |-> Nothing]
    /\ outcome = [r \in Requests |-> "none"]

------------------------------------------------------------------------------
(* The editor's screen *)

\* GET /layout reads the places,
See(e) ==
    /\ desk[e] = "closed"
    /\ \E s \in Saves : Ask[s].editor = e /\ pc[s] = "new"
    /\ view' = [view EXCEPT ![e] = places]
    /\ desk' = [desk EXCEPT ![e] = "seen"]
    /\ UNCHANGED <<places, cell, version, pc, reads, lock, saved, work, outcome>>

\* and then, in a statement of its own, the version.
SeeVersion(e) ==
    /\ desk[e] = "seen"
    /\ version' = [version EXCEPT ![e] = places]
    /\ desk' = [desk EXCEPT ![e] = "open"]
    /\ UNCHANGED <<places, cell, view, pc, reads, lock, saved, work, outcome>>

------------------------------------------------------------------------------
(* A save *)

Began(r) == before' = [before EXCEPT ![r] = {q \in Requests : pc[q] = "ended"}]

\* One save at a time; a retry of one that landed is answered with what it did.
Begin(s) ==
    /\ pc[s] = "new" /\ desk[Ask[s].editor] = "open"
    /\ lock = None
    /\ Began(s)
    /\ IF Ask[s].editor \in saved
       THEN End(s, "told")
       ELSE lock' = s /\ Goes(s, "begun") /\ UNCHANGED <<work, outcome>>
    /\ UNCHANGED <<places, cell, editors, rows, listed, plan, saved>>

\* MUTANT: a save is taken whatever the layout is now.
CheckNothing(s) ==
    /\ pc[s] = "begun"
    /\ Goes(s, "checked")
    /\ UNCHANGED <<places, cell, editors, reads, lock, saved, work, outcome>>

\* Against the version the editor read.
Check(s) ==
    /\ pc[s] = "begun"
    /\ IF places # version[Ask[s].editor]
       THEN Fails(s, "refused")
       ELSE /\ Goes(s, "checked")
            /\ UNCHANGED <<places, cell, editors, reads, lock, saved, work, outcome>>

ReadRows(r) ==
    /\ \/ pc[r] = "checked"
       \/ r \in Drafts /\ pc[r] = "new"
    /\ rows' = [rows EXCEPT ![r] = places]
    /\ IF r \in Drafts THEN Began(r) ELSE UNCHANGED before
    /\ Goes(r, "read")
    /\ UNCHANGED <<places, cell, editors, listed, plan, lock, saved, work, outcome>>

\* The box, and which end the numbers start from, as the editor left them.
AsLeft(s) ==
    LET p == Ask[s].place
        was == view[Ask[s].editor][p]
    IN  [places[p] EXCEPT !.box = Ask[s].box,
           !.grid.right = IF Ask[s].does = "flips" THEN ~was.grid.right ELSE was.grid.right]

\* UPDATE place.  A place that is numbered from its other end is renumbered.
Draw(s) ==
    LET p == Ask[s].place IN
    /\ pc[s] = "read" /\ Ask[s].does \in {"moves", "flips"}
    /\ ~Drawing(s, p)
    /\ IF p \notin DOMAIN rows[s]
       THEN Fails(s, "refused")
       ELSE /\ Writes(s, [Nothing EXCEPT !.places = Only(p, AsLeft(s))])
            /\ Goes(s, IF AsLeft(s).grid.right # rows[s][p].grid.right THEN "drawn" ELSE "done")
            /\ UNCHANGED <<places, cell, editors, reads, lock, saved, outcome>>

BinsIn(p) == {b \in Bins : cell[b] # None /\ cell[b].place = p}

\* renumber reads the bins of the place, and refuses one its pattern does not name.
List(s) ==
    LET p == Ask[s].place IN
    /\ pc[s] = "drawn"
    /\ IF \E b \in BinsIn(p) : Spells(Seen(s)[p], b) = {}
       THEN Fails(s, "refused")
       ELSE /\ listed' = [listed EXCEPT ![s] = BinsIn(p)]
            /\ Goes(s, IF BinsIn(p) = {} THEN "done" ELSE "listed")
            /\ UNCHANGED <<places, cell, editors, before, rows, plan, lock, saved, work, outcome>>

\* "Off and back on": every bin in the place is taken off, and those that were read
\* are put in the cells their names are on now.
Renumber(s) ==
    LET p  == Ask[s].place
        M  == {[bin |-> b, to |-> In(p, CHOOSE c \in Spells(Seen(s)[p], b) : TRUE)] :
                 b \in listed[s]}
        off == [b \in BinsIn(p) |-> None]
    IN
    /\ pc[s] = "listed" /\ Ask[s].does # "removes"
    /\ \A b \in BinsIn(p) : ~Moving(s, b)
    /\ \A m \in M : ~\E q \in Requests \ {s} :
          \E b \in DOMAIN work[q].cells : work[q].cells[b] = m.to
    /\ IF \E m \in M : \E b \in Bins \ BinsIn(p) : cell[b] = m.to
       THEN Fails(s, "failed")
       ELSE /\ Writes(s, [work[s] EXCEPT !.cells =
                  Over([b \in {m.bin : m \in M} |-> (CHOOSE m \in M : m.bin = b).to], off)])
            /\ Goes(s, "done")
            /\ UNCHANGED <<places, cell, editors, reads, lock, saved, outcome>>

\* A place drawn, or a bin from the tray on a spot of its own.  Its parent must be one
\* that was read; one that is being removed is waited for.
Add(s) ==
    LET id == Ask[s].place
        b  == Ask[s].bin
        spot == [inside |-> Ask[s].inside, name |-> id, solid |-> FALSE, box |-> Ask[s].box,
                 rack |-> None, reach |-> 1,
                 grid |-> [bays |-> 1, levels |-> 1, first |-> 1, step |-> 1, sides |-> 1,
                           right |-> FALSE]]
    IN
    /\ pc[s] = "read" /\ Ask[s].does = "adds"
    /\ Ask[s].inside # None => ~\E q \in Requests \ {s} : Ask[s].inside \in work[q].gone
    /\ b # None /\ cell[b] = None => ~Moving(s, b)
    /\ IF \/ Ask[s].inside \notin DOMAIN rows[s] \cup {None}
          \/ b # None /\ cell[b] # None
       THEN Fails(s, "refused")
       ELSE IF Ask[s].inside \notin DOMAIN places \cup {None}
       THEN Fails(s, "failed")
       ELSE /\ Writes(s, [Nothing EXCEPT !.places = Only(id, spot),
                                         !.cells = IF b = None THEN <<>>
                                                   ELSE Only(b, In(id, <<1, 1>>))])
            /\ Goes(s, "done")
            /\ UNCHANGED <<places, cell, editors, reads, lock, saved, outcome>>

\* A place that has bins, or places inside it, stays.  The count, and then,
CountIn(s) ==
    LET p == Ask[s].place IN
    /\ pc[s] = "read" /\ Ask[s].does = "removes"
    /\ IF \/ p \notin DOMAIN rows[s]
          \/ BinsIn(p) # {}
          \/ \E q \in DOMAIN rows[s] : rows[s][q].inside = p
       THEN Fails(s, "refused")
       ELSE /\ Goes(s, "listed")
            /\ UNCHANGED <<places, cell, editors, reads, lock, saved, work, outcome>>

\* the DELETE, which waits for those who are putting something in it.
RemovePlace(s) ==
    LET p == Ask[s].place IN
    /\ pc[s] = "listed" /\ Ask[s].does = "removes"
    /\ ~Drawing(s, p)
    /\ \A q \in Requests \ {s} :
          /\ \A b \in DOMAIN work[q].cells :
                work[q].cells[b] # None => work[q].cells[b].place # p
          /\ \A x \in DOMAIN work[q].places : work[q].places[x].inside # p
    /\ IF BinsIn(p) # {} \/ \E x \in DOMAIN places : places[x].inside = p
       THEN Fails(s, "failed")
       ELSE /\ Writes(s, [Nothing EXCEPT !.gone = {p}])
            /\ Goes(s, "done")
            /\ UNCHANGED <<places, cell, editors, reads, lock, saved, outcome>>

------------------------------------------------------------------------------
(* A draft *)

\* The first walk-through place standing on the site, or a building it will make.
Container(d) ==
    LET T == {p \in DOMAIN rows[d] : rows[d][p].inside = None /\ ~rows[d][p].solid} IN
    IF T = {} THEN <<d, "building">> ELSE CHOOSE p \in T : TRUE

\* A name that no place there has: `Rack C`, then `Rack C (2)`.
Unused(P, k) ==
    LET free == {n \in 1..Cardinality(DOMAIN P) + 1 : \A p \in DOMAIN P : P[p].name # <<k, n>>}
    IN  <<k, CHOOSE n \in free : \A m \in free : n <= m>>

Within(P, id) == [p \in {q \in DOMAIN P : P[q].inside = id} |-> P[p]]

\* The waiting bins go where a place's pattern names them and the cell is free, and the
\* rest into new places, one per family, but for what was asked.
Plan(d) ==
    LET waiting == {b \in Bins : cell[b] = None}
        named(b) == {p \in DOMAIN rows[d] : Spells(rows[d][p], b) # {}}
        where(b) == LET p == CHOOSE q \in named(b) : TRUE
                    IN  In(p, CHOOSE c \in Spells(rows[d][p], b) : TRUE)
        fill == {b \in waiting : named(b) # {} /\ \A x \in Bins : cell[x] # where(b)}
        family(k) == {b \in waiting \ fill : Code[b].rack = k}
        name(k) == Unused(Within(rows[d], Container(d)), k)
        proposed == {k \in Racks : family(k) # {}}
        grid(k) == LET g == GridOf({Code[b].bay : b \in family(k)})
                       h == IF name(k) \in Ask[d].two THEN TwoSides(g) ELSE g
                   IN  [h EXCEPT !.right = name(k) \in Ask[d].right]
    IN
    /\ pc[d] = "read" /\ d \in Drafts
    /\ IF \/ ~(Ask[d].out \cup Ask[d].two \cup Ask[d].right \subseteq {name(k) : k \in proposed})
          \/ \E k \in proposed : name(k) \in Ask[d].two \ Ask[d].out
                                 /\ GridOf({Code[b].bay : b \in family(k)}).bays < 2
       THEN Fails(d, "refused")
       ELSE /\ plan' = [plan EXCEPT ![d] =
                  [fill |-> {[bin |-> b, to |-> where(b)] : b \in fill},
                   make |-> {[rack |-> k, name |-> name(k), grid |-> grid(k), bins |-> family(k)] :
                               k \in {j \in proposed : name(j) \notin Ask[d].out}}]]
            /\ Goes(d, "listed")
            /\ UNCHANGED <<places, cell, editors, before, rows, listed, lock, saved, work, outcome>>

\* Into the places already drawn.
Fill(d) ==
    LET M == plan[d].fill IN
    /\ pc[d] = "listed" /\ d \in Drafts
    /\ ~Waits(d, M)
    /\ IF Collides(d, M)
       THEN Fails(d, "failed")
       ELSE /\ Writes(d, [work[d] EXCEPT !.cells = Puts(d, M)])
            /\ Goes(d, IF plan[d].make = {} THEN "done" ELSE "put")
            /\ UNCHANGED <<places, cell, editors, reads, lock, saved, outcome>>

\* The place around them, which may grow, or is made; the new places; and their bins.
\* Another's place of the same name there is waited for, and then fails it.
Make(d, grows) ==
    LET box == Container(d)
        top == box = <<d, "building">>
        around == IF top
                  THEN [inside |-> None, name |-> Unused(Within(rows[d], None), "building"),
                        solid |-> FALSE, box |-> d, rack |-> None, reach |-> 1,
                        grid |-> [bays |-> 1, levels |-> 1, first |-> 1, step |-> 1, sides |-> 1,
                                  right |-> FALSE]]
                  ELSE [places[box] EXCEPT !.box = IF grows THEN d ELSE @]
        racks == [x \in {<<d, m.rack>> : m \in plan[d].make} |->
                    LET m == CHOOSE n \in plan[d].make : <<d, n.rack>> = x IN
                    [inside |-> box, name |-> m.name, solid |-> TRUE, box |-> d,
                     rack |-> m.rack, reach |-> 1, grid |-> m.grid]]
        made == Over(racks, Only(box, around))
        same(p, q) == p.inside = q.inside /\ p.name = q.name
        M == UNION {LET x == <<d, m.rack>> IN
                    {[bin |-> b, to |-> In(x, CHOOSE c \in Spells(racks[x], b) : TRUE)] :
                        b \in m.bins} : m \in plan[d].make}
    IN
    /\ pc[d] = "put"
    /\ ~top => ~Drawing(d, box)
    /\ IF ~top /\ box \notin DOMAIN places
       THEN Fails(d, "failed")
       ELSE /\ \A q \in Requests \ {d} : \A x \in DOMAIN work[q].places \ {box} :
                  \A y \in DOMAIN made : ~same(work[q].places[x], made[y])
            /\ \A m \in StillOut(d, M) : ~Moving(d, m.bin)
            /\ IF \E x \in DOMAIN places \ {box} : \E y \in DOMAIN made : same(places[x], made[y])
               THEN Fails(d, "failed")
               ELSE /\ Writes(d, [work[d] EXCEPT !.places = made, !.cells = Puts(d, M)])
                    /\ Goes(d, "done")
                    /\ UNCHANGED <<places, cell, editors, reads, lock, saved, outcome>>

------------------------------------------------------------------------------
\* Everything is committed; a preview is rolled back.
Commit(r) ==
    /\ pc[r] = "done"
    /\ IF r \in Drafts /\ ~Ask[r].apply
       THEN UNCHANGED <<places, cell, saved>>
       ELSE /\ places' = Seen(r)
            /\ cell' = [b \in Bins |-> CellOf(r, b)]
            /\ saved' = IF r \in Saves THEN saved \cup {Ask[r].editor} ELSE saved
    /\ End(r, "saved")
    /\ UNCHANGED <<editors, reads>>

\* set_reach: one statement.
Reach(q) ==
    LET p == Ask[q].place IN
    /\ q \in Reaches /\ pc[q] = "new"
    /\ ~Drawing(q, p)
    /\ IF p \notin DOMAIN places \/ Ask[q].levels \notin 0..places[p].grid.levels
       THEN End(q, "refused") /\ UNCHANGED places
       ELSE End(q, "saved") /\ places' = [places EXCEPT ![p].reach = Ask[q].levels]
    /\ UNCHANGED <<cell, editors, reads, saved>>

Next ==
    \/ \E e \in Editors : See(e) \/ SeeVersion(e)
    \/ \E s \in Saves : Begin(s) \/ Check(s) \/ Draw(s) \/ List(s) \/ Renumber(s) \/ Add(s)
                        \/ CountIn(s) \/ RemovePlace(s)
    \/ \E d \in Drafts : Plan(d) \/ Fill(d) \/ \E grows \in BOOLEAN : Make(d, grows)
    \/ \E r \in Requests : ReadRows(r) \/ Commit(r) \/ Reach(r)

Spec == Init /\ [][Next]_vars

------------------------------------------------------------------------------
\* Every place is inside one that is there, every bin in one that is there, in a cell of
\* its grid (J76) that no other bin is in; and the advisory lock is held by a save that runs.
TypeOK ==
    /\ \A p \in DOMAIN places : places[p].inside \in DOMAIN places \cup {None}
    /\ \A b \in Bins : cell[b] # None =>
          /\ cell[b].place \in DOMAIN places
          /\ cell[b].side \in 1..places[cell[b].place].grid.sides
          /\ cell[b].bay \in 1..places[cell[b].place].grid.bays
          /\ \A c \in Bins : cell[c] = cell[b] => c = b
    /\ lock # None => lock \in Saves /\ pc[lock] \notin {"new", "ended"}
    /\ \A r \in Requests : work[r] # Nothing => pc[r] \in {"drawn", "listed", "put", "done"}

\* "Every bin the draft places, its pattern names back exactly", and a rack numbered from
\* its other end keeps its bins' names: a bin in a rack is in the cell its code spells,
\* unless the draft that put it there had read the rack before it was renumbered.
BinsReadTheirNames ==
    \A b \in Bins :
        cell[b] # None /\ places[cell[b].place].rack # None =>
            \/ /\ places[cell[b].place].rack = Code[b].rack
               /\ Label(places[cell[b].place].grid, cell[b].side, cell[b].bay) = Code[b].bay
            \/ \E d \in Drafts :
                  /\ Ask[d].apply /\ outcome[d] = "saved"
                  /\ [bin |-> b, to |-> cell[b]] \in plan[d].fill
                  /\ rows[d][cell[b].place].grid.right # places[cell[b].place].grid.right

\* A save that lands where what it writes over is not what its editor was shown.
WritesOver(s) ==
    LET p == Ask[s].place IN
    /\ pc[s] = "done" /\ outcome'[s] = "saved" /\ Ask[s].does # "adds"
    /\ places[p] # view[Ask[s].editor][p]

\* "Nobody's change is overwritten without them knowing": what a save writes over is what
\* its editor was shown, unless a draft or a reach landed while it ran, or a change landed
\* between the two statements that read the layout for that editor.
NothingOverwritten ==
    [][\A s \in Saves :
          WritesOver(s) =>
             \/ view[Ask[s].editor] # version[Ask[s].editor]
             \/ \E q \in Drafts \cup Reaches : pc[q] = "ended" /\ q \notin before[s]]_vars

\* The same, as it is stated, of two people who edit.
EditorsOverwriteNothing ==
    [][\A s \in Saves : WritesOver(s) => \E q \in Drafts \cup Reaches : outcome[q] = "saved"]_vars
==============================================================================
