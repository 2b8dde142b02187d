--------------------------------- MODULE Cards ---------------------------------
(***************************************************************************)
(* What is known of an item: the looks taken of it, each a set of figures     *)
(* and photographs filed on one of its cards, and the acts that put them       *)
(* right afterwards.  A figure is never edited.  It is corrected by another    *)
(* that names it; moved, by a copy on the other card and a retraction here;     *)
(* matched, by a copy.  What a card shows is folded from the figures behind     *)
(* the acts, and a correction is found through what was last folded.          *)
(*                                                                         *)
(* Each request is a READ COMMITTED transaction; its statements are steps      *)
(* where another's commit between two of them makes a difference.  Rows are    *)
(* appended under their number and are seen by others once their request       *)
(* has committed.  A card is an item's each or its carton (a pack is filed     *)
(* as a carton is); a carton's rows name the case pack in force.              *)
(***************************************************************************)
EXTENDS Integers, Sequences, FiniteSets, SequencesExt

CONSTANTS
    Requests, \* what is sent, each once
    Given,    \* the requests that had ended before the behaviour starts
    Ask,      \* what each request asks, and the act it is (a retry is the same act)
    OnFile,   \* the rows at the start
    Together, \* BOUND: the sets of requests one behaviour sends
    None

ASSUME CardsAssumption ==
    /\ Given \cap Requests = {} /\ None \notin Requests \cup Given
    /\ Together \subseteq SUBSET Requests
    /\ \A r \in Requests : {"kind", "act", "day"} \subseteq DOMAIN Ask[r]

\* What is measured says what of; only a correction is refused without its value; and the
\* screen asks for each card to match once.
ASSUME AskAssumption ==
    \A r \in Requests :
        /\ Ask[r].kind \in {"look", "weigh", "correct"} => IsFiniteSet(DOMAIN Ask[r].figures)
        /\ Ask[r].kind = "look" => Ask[r].arranged \in BOOLEAN
        /\ Ask[r].kind = "weigh" => DOMAIN Ask[r].figures = {"weight"}
        /\ Ask[r].kind = "correct" => \A m \in DOMAIN Ask[r].figures : Ask[r].figures[m] # None
        /\ Ask[r].kind = "match" =>
              /\ Ask[r].levels \in Seq(Range(Ask[r].levels)) /\ Ask[r].levels # <<>>
              /\ \A i, j \in DOMAIN Ask[r].levels : Ask[r].levels[i] = Ask[r].levels[j] => i = j

\* The rows at the start are such as these requests leave.
ASSUME OnFileAssumption ==
    LET E == OnFile.events
        F == OnFile.figures IN
    /\ E \in Seq(Range(E)) /\ F \in Seq(Range(F))
    /\ \A e \in DOMAIN E :
          /\ DOMAIN E[e] = {"by", "of", "day", "arranged", "from"} /\ E[e].by \in Given /\ E[e].from \in 0..(e - 1)
          /\ E[e].from # 0 /\ E[e].of.level = "each" => E[e].arranged
    /\ \A f \in DOMAIN F :
          /\ DOMAIN F[f] = {"by", "event", "metric", "value", "corrects", "retracts"}
          /\ F[f].event \in DOMAIN E /\ F[f].by = E[F[f].event].by
          /\ F[f].retracts \in 0..(f - 1) /\ F[f].corrects \in 0..(f - 1)
          /\ F[f].corrects # 0 => F[f].value # None /\ F[f].metric = F[F[f].corrects].metric
          /\ E[F[f].event].of.level = "each" /\ F[f].metric \in {"length", "width", "height"} /\ F[f].value # None
                => E[F[f].event].arranged
          /\ \A g \in DOMAIN F : F[f].event = F[g].event /\ F[f].metric = F[g].metric
                => f = g \/ (F[f].retracts # 0 /\ F[g].retracts # 0)

VARIABLES
    sent,     \* the requests of this behaviour
    pc,       \* "new", or the step a request is at, or "ended"
    outcome,  \* "none", "saved", "told" (recorded before, or nothing to do), "refused", "failed"
    claimed,  \* the requests that have written their act's row
    events,   \* looks: by whom, of what, on which day, arranged or not, copied from which
    figures,  \* figures: in which event, their metric and value, correcting or retracting which
    photos,   \* photographs: in which event, of which face, and the one it looks the same as
    cuts,     \* photographs cut to their face
    moves,    \* photographs moved, and to which
    packs,    \* case packs: of which item, from which day, and the two counts
    current,  \* the figures the cards show
    behind,    \* the mark that they are to be folded again
    plan,     \* what a request has read and decided
    findings, \* weighings that disagreed with what was held
    seen,     \* HISTORY: per mover, the requests that had ended when it mirrored the card
    before,   \* HISTORY: per request, the requests that had ended when it began
    revived   \* HISTORY: corrections of a figure already retracted

rows     == <<events, figures, photos, cuts, moves, packs>>
control  == <<pc, outcome, claimed, plan, before>>
display  == <<current, behind>>
cardVars == <<sent, control, rows, display, findings, seen, revived>>

------------------------------------------------------------------------------
(* Rows and requests *)

Saved == Given \cup {q \in Requests : outcome[q] = "saved"}

\* The rows of a table that request r sees; None sees what is committed.
Rows(r, table) == {i \in DOMAIN table : table[i].by \in Saved \cup {r}}

Begins(r, kinds) ==
    /\ pc[r] = "new" /\ r \in sent /\ Ask[r].kind \in kinds
    /\ before' = [before EXCEPT ![r] = Given \cup {q \in Requests : pc[q] = "ended"}]
At(r, step)    == pc[r] = step /\ UNCHANGED before
Goes(r, step)  == pc' = [pc EXCEPT ![r] = step] /\ UNCHANGED outcome
Plans(r, p)    == plan' = [plan EXCEPT ![r] = p]
Ends(r, how)   == /\ pc' = [pc EXCEPT ![r] = "ended"]
                  /\ outcome' = [outcome EXCEPT ![r] = how]
                  /\ Plans(r, None)
Keeps          == UNCHANGED <<sent, rows, display, findings, seen, revived>>
Stops(r, how)  == Ends(r, how) /\ UNCHANGED claimed /\ Keeps

\* claim_act: one row per act; a second waits for the first, and is a replay of one
\* that committed.
Others(r)  == {q \in claimed \ {r} : Ask[q].act = Ask[r].act}
Waits(r)   == \E q \in Others(r) : outcome[q] = "none"
Replay(r)  == Others(r) \cap Saved # {}
Claims(r)  == ~Waits(r) /\ ~Replay(r) /\ claimed' = claimed \cup {r}

------------------------------------------------------------------------------
(* What is on a card *)

Retracted(f, F) == \E x \in F : figures[x].retracts = f
Live(f, F)      == /\ figures[f].retracts = 0
                   /\ ~Retracted(f, F)
                   /\ ~\E x \in F : figures[x].corrects = f
Unmoved(p, M)   == ~\E m \in M : moves[m].photo = p

Of(f)           == events[figures[f].event].of
Day(f)          == events[figures[f].event].day
IsCard(of, card) == of.item = card.item /\ of.level = card.level

\* The live figures and the unmoved photographs of a card, as r sees them.
LiveOn(r, card) == LET F == Rows(r, figures) IN {f \in F : IsCard(Of(f), card) /\ Live(f, F)}
PhotosOn(r, card) ==
    {p \in Rows(r, photos) : IsCard(events[photos[p].event].of, card) /\ Unmoved(p, Rows(r, moves))}

\* first_recorded and holds: the days of what is on it.
Days(r, card) == {Day(f) : f \in LiveOn(r, card)}
                 \cup {events[photos[p].event].day : p \in PhotosOn(r, card)}
Holds(r, card) == Days(r, card) # {}
First(r, card) == CHOOSE d \in Days(r, card) : \A e \in Days(r, card) : d <= e

\* in_force: the newest case pack, then the last said, or 0.
InForce(r, item, day) ==
    LET P == {p \in Rows(r, packs) : packs[p].item = item /\ packs[p].day <= day} IN
    IF P = {} THEN 0
    ELSE CHOOSE p \in P : \A q \in P : packs[q].day < packs[p].day
                                       \/ (packs[q].day = packs[p].day /\ q <= p)

\* observable_for: an each is itself; a carton is one of the case pack in force.
ObservableFor(r, card, day) ==
    [item |-> card.item, level |-> card.level,
     pack |-> IF card.level = "each" THEN 0 ELSE InForce(r, card.item, day)]
Definite(of) == of.level = "each" \/ of.pack # 0

\* The fold: of each observable and metric, the newest live figure.  Between those of one
\* day the times they were recorded decide, which the model leaves open.
Newest(F)     == {f \in F : \A g \in F : Day(g) <= Day(f)}
Shelf(f, F)   == {g \in F : figures[g].metric = figures[f].metric /\ Of(g) = Of(f)}
Folds ==
    LET F == Rows(None, figures)
        L == {f \in F : Live(f, F)}
        front == UNION {Newest(Shelf(f, L)) : f \in L}
        tied  == {f \in front : Shelf(f, front) # {f}} IN
    {(front \ tied) \cup T : T \in {C \in SUBSET tied : \A f \in tied : Cardinality(C \cap Shelf(f, tied)) = 1}}

------------------------------------------------------------------------------
(* Looks, weighings and photographs *)

\* presentation_required: a size of a single thing.
Sizes == {"length", "width", "height"}
Unarranged(ask) ==
    ask.card.level = "each" /\ ~ask.arranged
    /\ \E m \in DOMAIN ask.figures : m \in Sizes /\ ask.figures[m] # None

Event(r, of, day, arranged, from) == [by |-> r, of |-> of, day |-> day, arranged |-> arranged, from |-> from]
Figure(r, event, metric, value) ==
    [by |-> r, event |-> event, metric |-> metric, value |-> value, corrects |-> 0, retracts |-> 0]
Photo(r, event, face, same) == [by |-> r, event |-> event, face |-> face, same |-> same]

\* What the card shows of a metric, to a reader of what is committed.
Held(of, metric) == {f \in current : Of(f) = of /\ figures[f].metric = metric}

\* A look goes on file, with its figures.
Recorded(r, of, taken) ==
    LET mets == SetToSeq(DOMAIN taken) IN
    /\ events' = Append(events, Event(r, of, Ask[r].day, Ask[r].arranged, 0))
    /\ figures' = figures \o [i \in DOMAIN mets |-> Figure(r, Len(events) + 1, mets[i], taken[mets[i]])]
    /\ Goes(r, "put")
    /\ UNCHANGED <<sent, plan, photos, cuts, moves, packs, display, seen, revived>>

\* record_observation: a thing's size says how the thing was arranged.
LookTakes(r) ==
    LET of == ObservableFor(r, Ask[r].card, Ask[r].day) IN
    /\ Begins(r, {"look"})
    /\ \/ Replay(r) /\ Stops(r, "told")
       \/ ~Replay(r) /\ ~Waits(r) /\ (~Definite(of) \/ Unarranged(Ask[r])) /\ Stops(r, "refused")
       \/ /\ Claims(r) /\ Definite(of) /\ ~Unarranged(Ask[r])
          /\ Recorded(r, of, Ask[r].figures) /\ UNCHANGED findings

\* record_evidence: a look with nothing measured, in support of another record.
EvidenceTakes(r) ==
    LET of == ObservableFor(r, Ask[r].card, Ask[r].day) IN
    /\ Begins(r, {"evidence"})
    /\ \/ Replay(r) /\ Stops(r, IF \E q \in Others(r) : Ask[q].kind = "evidence" THEN "told" ELSE "refused")
       \/ ~Replay(r) /\ ~Waits(r) /\ ~Definite(of) /\ Stops(r, "refused")
       \/ Claims(r) /\ Definite(of) /\ Recorded(r, of, <<>>) /\ UNCHANGED findings

\* materially_differs, in grams: by more than five, and than a tenth of what was held.
MateriallyDiffers(previous, recorded) ==
    LET gap == IF previous > recorded THEN previous - recorded ELSE recorded - previous
    IN  gap > 5 /\ gap * 10 > previous

\* A first weighing cannot contradict anything.
Disagrees(of, n) ==
    \E f \in Held(of, "weight") : figures[f].value # None /\ MateriallyDiffers(figures[f].value, n)

\* record_weighing: what is held is read before the reading is written over it.
WeighTakes(r) ==
    LET of == ObservableFor(r, Ask[r].card, Ask[r].day)
        n  == Ask[r].figures["weight"] IN
    /\ Begins(r, {"weigh"})
    /\ \/ Replay(r) /\ Stops(r, "refused")
       \/ ~Replay(r) /\ ~Waits(r) /\ ~Definite(of) /\ Stops(r, "refused")
       \/ /\ Claims(r) /\ Definite(of) /\ Recorded(r, of, Ask[r].figures)
          /\ findings' = IF Disagrees(of, n) THEN findings \cup {r} ELSE findings

\* Committed: an observation marks what the cards show as behind; a weighing does not.
LookCommits(r) ==
    /\ At(r, "put")
    /\ Ends(r, "saved")
    /\ behind' = (behind \/ Ask[r].kind = "look")
    /\ UNCHANGED <<sent, claimed, rows, current, findings, seen, revived>>

\* record_observation_image: the photograph of a look whose answer the phone has.
Uploads(r) ==
    /\ Begins(r, {"photo"})
    /\ \E e \in Rows(None, events) :
          /\ events[e].by = Ask[r].of
          /\ photos' = Append(photos, Photo(r, e, Ask[r].face, 0))
    /\ Ends(r, "saved")
    /\ UNCHANGED <<sent, claimed, events, figures, cuts, moves, packs, display, findings, seen, revived>>

\* The photograph that request q uploaded.
PhotoOf(q) == {p \in Rows(None, photos) : photos[p].by = q}

\* same_as: another side of the box looks like a photograph; that is said of the one taken.
SaysSame(r) ==
    /\ Begins(r, {"same"})
    /\ \E p \in PhotoOf(Ask[r].of) :
          photos' = Append(photos, Photo(r, photos[p].event, Ask[r].face,
                                         IF photos[p].same = 0 THEN p ELSE photos[p].same))
    /\ Ends(r, "saved")
    /\ UNCHANGED <<sent, claimed, events, figures, cuts, moves, packs, display, findings, seen, revived>>

\* UNCUT: the newest photograph of each face of a thing, never moved nor cut, and not
\* said to be the same as another.
Uncut ==
    LET P == {p \in Rows(None, photos) : Unmoved(p, Rows(None, moves))}
        Side(p) == <<events[photos[p].event].of, photos[p].face>>
        Taken(p) == events[photos[p].event].day IN
    {p \in P : /\ photos[p].same = 0
               /\ ~\E c \in Rows(None, cuts) : cuts[c].photo = p
               /\ \A q \in P : Side(q) = Side(p) => Taken(q) < Taken(p) \/ (Taken(q) = Taken(p) /\ q <= p)}

\* A photograph is taken from the queue and cut on the screen; then record_cut, which
\* asks only that it exists.
TakesFromQueue(r) ==
    /\ Begins(r, {"cut"})
    /\ \E p \in Uncut : Plans(r, p)
    /\ Goes(r, "cut")
    /\ UNCHANGED claimed /\ Keeps

RecordsCut(r) ==
    /\ At(r, "cut")
    /\ \/ Replay(r) /\ Stops(r, "told")
       \/ /\ Claims(r)
          /\ cuts' = Append(cuts, [by |-> r, photo |-> plan[r]])
          /\ Ends(r, "saved")
          /\ UNCHANGED <<sent, events, figures, photos, moves, packs, display, findings, seen, revived>>

------------------------------------------------------------------------------
(* A photograph is moved once *)

\* The unique key: another's move of it is waited for, and then stands.
Moving(r, P) == \E m \in DOMAIN moves : moves[m].photo \in P /\ moves[m].by \notin Saved \cup {r}
                                        /\ outcome[moves[m].by] = "none"
Moved(P)     == \E m \in Rows(None, moves) : moves[m].photo \in P
Move(r, p, q) == [by |-> r, photo |-> p, to |-> q]

\* file_as_face: filed again in the same look under the side it is of, if not moved yet.
FaceFiles(r) ==
    /\ Begins(r, {"face"})
    /\ \/ Replay(r) /\ Stops(r, "told")
       \/ ~Replay(r) /\ ~Waits(r) /\ Moved(PhotoOf(Ask[r].of)) /\ Stops(r, "refused")
       \/ \E p \in PhotoOf(Ask[r].of) :
             /\ Claims(r) /\ ~Moved({p})
             /\ photos' = Append(photos, Photo(r, photos[p].event, Ask[r].face, 0))
             /\ Plans(r, [photo |-> p, to |-> Len(photos) + 1])
             /\ Goes(r, "move")
             /\ UNCHANGED <<sent, events, figures, cuts, moves, packs, display, findings, seen, revived>>

FaceMoves(r) ==
    /\ At(r, "move") /\ ~Moving(r, {plan[r].photo})
    /\ \/ Moved({plan[r].photo}) /\ Stops(r, "failed")
       \/ /\ ~Moved({plan[r].photo})
          /\ moves' = Append(moves, Move(r, plan[r].photo, plan[r].to))
          /\ Ends(r, "saved")
          /\ UNCHANGED <<sent, claimed, events, figures, photos, cuts, packs, display, findings, seen, revived>>

\* record_move: moved to one uploaded already; moved before, it is left where it went.
Shifts(r) ==
    /\ Begins(r, {"shift"})
    /\ \E p \in PhotoOf(Ask[r].of), q \in PhotoOf(Ask[r].to) :
          \/ Replay(r) /\ Stops(r, "told")
          \/ /\ Claims(r) /\ ~Moving(r, {p})
             /\ moves' = IF Moved({p}) THEN moves ELSE Append(moves, Move(r, p, q))
             /\ Ends(r, "saved")
             /\ UNCHANGED <<sent, events, figures, photos, cuts, packs, display, findings, seen, revived>>

------------------------------------------------------------------------------
(* A figure put right *)

Corrections(f, F) == {c \in F : figures[c].corrects = f}

\* MUTANT: the figure last folded is taken for the one that counts.
AsFolded(f, F) == f

\* shown: the figure the card has of a metric, followed to its newest correction.
NewestCorrection(f, F) ==
    LET last[g \in F] == IF Corrections(g, F) = {} THEN g
                         ELSE last[CHOOSE c \in Corrections(g, F) : \A d \in Corrections(g, F) : d <= c] IN
    last[f]
ShownOf(card, metric) ==
    LET F == Rows(None, figures) IN
    {NewestCorrection(f, F) :
        f \in Newest({g \in current : /\ IsCard(Of(g), card)
                                      /\ figures[g].metric = metric /\ figures[g].value # None})}

\* correct: what each figure is, read before the act is claimed.
CorrectFinds(r) ==
    LET ask == Ask[r] IN
    /\ Begins(r, {"correct"})
    /\ \/ (\E m \in DOMAIN ask.figures : ShownOf(ask.card, m) = {}) /\ Stops(r, "refused")
       \/ /\ \E pick \in [DOMAIN ask.figures -> DOMAIN figures] :
                /\ \A m \in DOMAIN ask.figures : pick[m] \in ShownOf(ask.card, m)
                /\ Plans(r, {pick[m] : m \in {n \in DOMAIN ask.figures : figures[pick[n]].value # ask.figures[n]}})
          /\ Goes(r, "correct")
          /\ UNCHANGED claimed /\ Keeps

\* Each wrong figure is named by its correction, one event for each look put right, of
\* the day and in the arrangement it was taken.
CorrectPuts(r) ==
    LET wrong == SetToSeq(plan[r])
        looks == SetToSeq({figures[f].event : f \in plan[r]})
        Into(f) == Len(events) + (CHOOSE i \in DOMAIN looks : looks[i] = figures[f].event) IN
    /\ At(r, "correct")
    /\ \/ Replay(r) /\ Stops(r, "told")
       \/ /\ Claims(r)
          /\ events' = events \o [i \in DOMAIN looks |-> [events[looks[i]] EXCEPT !.by = r, !.from = 0]]
          /\ figures' = figures \o
                [i \in DOMAIN wrong |->
                    [Figure(r, Into(wrong[i]), figures[wrong[i]].metric, Ask[r].figures[figures[wrong[i]].metric])
                        EXCEPT !.corrects = wrong[i]]]
          /\ revived' = revived \cup {f \in plan[r] : Retracted(f, Rows(None, figures))}
          /\ behind' = (behind \/ plan[r] # {})
          /\ Ends(r, "saved")
          /\ UNCHANGED <<sent, photos, cuts, moves, packs, current, findings, seen>>

------------------------------------------------------------------------------
(* What a carton holds *)

\* The two counts: of the item in a pack, and of packs in the carton; and who said them.
Pack(r, item, day, counted) == [by |-> r, item |-> item, day |-> day, counts |-> counted, said |-> r]
Amend(r, p, counted) == [packs EXCEPT ![p].counts = counted, ![p].said = r]

\* say: what saying these counts does to the case pack in force, or why it is refused.
Says(r, item, day, counted, correction) ==
    LET p      == InForce(r, item, day)
        onfile == IF p = 0 THEN <<None, None>> ELSE packs[p].counts
        only   == counted[1] # None /\ counted[2] = None
        wanted == IF p # 0 /\ only THEN <<counted[1], onfile[2]>> ELSE counted
        How(does) == [does |-> does, pack |-> p, counts |-> wanted] IN
    IF p = 0 THEN How("make")
    ELSE IF only /\ ~correction /\ onfile[2] # None /\ onfile[1] \notin {None, wanted[1]} THEN How("refuse")
    ELSE IF wanted \in {onfile, <<None, None>>} THEN How("nothing")
    ELSE IF \/ onfile[2] = None
            \/ onfile[1] = None /\ onfile[2] = wanted[2]
            \/ correction THEN How("amend")
    ELSE How("version")

\* A row another request has amended and not committed.
Amending(r, p) ==
    \E q \in Requests \ {r} : Ask[q].kind \in {"refile", "match"} /\ plan[q] # None /\ p \in plan[q].amends

\* What saying it writes: a row of its own, or the one on file, unseen until committed.
Writes(r, say, item, day, from) ==
    CASE say.does = "amend"   -> ~Amending(r, say.pack) /\ UNCHANGED packs
      [] say.does = "make"    -> packs' = Append(packs, Pack(r, item, IF from < day THEN from ELSE day, say.counts))
      [] say.does = "version" -> packs' = Append(packs, Pack(r, item, day, say.counts))

\* say_carton: what it does is read before the act is claimed.
SayReads(r) ==
    LET ask == Ask[r]
        say == Says(r, ask.item, ask.day, ask.counts, ask.correction) IN
    /\ Begins(r, {"say"})
    /\ \/ say.does = "refuse" /\ Stops(r, "refused")
       \/ say.does = "nothing" /\ Stops(r, "told")
       \/ /\ say.does \notin {"refuse", "nothing"}
          /\ Plans(r, say)
          /\ Goes(r, "say")
          /\ UNCHANGED claimed /\ Keeps

SayWrites(r) ==
    LET say == plan[r] IN
    /\ At(r, "say")
    /\ \/ Replay(r) /\ Stops(r, "told")
       \/ /\ Claims(r)
          /\ IF say.does = "amend"
             THEN ~Amending(r, say.pack) /\ packs' = Amend(r, say.pack, say.counts)
             ELSE Writes(r, say, Ask[r].item, Ask[r].day, Ask[r].day)
          /\ Ends(r, "saved")
          /\ UNCHANGED <<sent, events, figures, photos, cuts, moves, display, findings, seen, revived>>

------------------------------------------------------------------------------
(* Moving a card, and matching a sibling's *)

Moves(r) == Ask[r].kind = "refile"

\* refile: the card has something on it, and the other nothing.  A count on file is not
\* put right by a move; where none is on file, or one is said, the carton is said first.
RefileChecks(r) ==
    LET ask == Ask[r]
        p   == InForce(r, ask.to.item, ask.day)
        contradicts == /\ p # 0 /\ ask.counts[2] # None
                       /\ packs[p].counts[2] # None /\ packs[p].counts # ask.counts
        carton == ask.to.level # "each"
        says   == carton /\ (p = 0 \/ ask.counts # <<None, None>>) IN
    /\ Begins(r, {"refile"})
    /\ \/ Replay(r) /\ Stops(r, "told")
       \/ /\ ~Replay(r) /\ ~Waits(r)
          /\ ~Holds(r, ask.from) \/ Holds(r, ask.to) \/ (carton /\ contradicts)
          /\ Stops(r, "refused")
       \/ /\ Claims(r)
          /\ Holds(r, ask.from) /\ ~Holds(r, ask.to) /\ ~(carton /\ contradicts)
          /\ Plans(r, [todo |-> <<[from |-> ask.from, to |-> ask.to]>>, amends |-> {}, any |-> TRUE,
                       counts |-> ask.counts, first |-> First(r, ask.from)])
          /\ Goes(r, IF says THEN "says" ELSE "mirror")
          /\ Keeps

\* match_family: cartons that hold differently are not the same to match, and an item
\* without a case pack is given its sibling's.
MatchChecks(r) ==
    LET ask == Ask[r]
        theirs == InForce(r, ask.sibling, ask.day)
        ours   == InForce(r, ask.item, ask.day)
        Differ(i) == /\ None \notin {packs[theirs].counts[i], packs[ours].counts[i]}
                     /\ packs[theirs].counts[i] # packs[ours].counts[i]
        boxed  == \E i \in DOMAIN ask.levels : ask.levels[i] # "each"
        differ == boxed /\ theirs # 0 /\ ours # 0 /\ (Differ(1) \/ Differ(2))
        says   == boxed /\ theirs # 0 /\ ours = 0 IN
    /\ Begins(r, {"match"})
    /\ \/ Replay(r) /\ Stops(r, "told")
       \/ ~Replay(r) /\ ~Waits(r) /\ differ /\ Stops(r, "refused")
       \/ /\ Claims(r) /\ ~differ
          /\ Plans(r, [todo |-> [i \in DOMAIN ask.levels |->
                                    [from |-> [item |-> ask.sibling, level |-> ask.levels[i]],
                                     to   |-> [item |-> ask.item, level |-> ask.levels[i]]]],
                       amends |-> {}, any |-> FALSE, first |-> ask.day,
                       counts |-> IF says THEN packs[theirs].counts ELSE <<None, None>>])
          /\ Goes(r, IF says THEN "says" ELSE "mirror")
          /\ Keeps

\* The carton is said as an act named from this one.
MoverSays(r) ==
    LET item == plan[r].todo[1].to.item
        say  == Says(r, item, Ask[r].day, plan[r].counts, FALSE) IN
    /\ At(r, "says")
    /\ \/ say.does = "refuse" /\ Stops(r, "refused")
       \/ /\ say.does # "refuse"
          /\ IF say.does = "nothing" THEN UNCHANGED packs ELSE Writes(r, say, item, Ask[r].day, plan[r].first)
          /\ Plans(r, [plan[r] EXCEPT !.amends = IF say.does = "amend" THEN {say.pack} ELSE {},
                                      !.counts = say.counts])
          /\ Goes(r, "mirror")
          /\ UNCHANGED <<sent, claimed, events, figures, photos, cuts, moves, display, findings, seen, revived>>

\* MUTANT: the arrangement goes with the look.
ArrangedAsWas(from, to, was) == was

\* A card on an each is said to be as supplied where nothing was said; a single thing's
\* arrangement is left off its carton.
Arranged(from, to, was) == to = "each" \/ (from # "each" /\ was)

\* MUTANT: matching, a look mirrored there before is mirrored again.
MirroredAgain(r, target) ==
    LET card == plan[r].todo[1].from IN
    SetToSeq({e \in Rows(r, events) :
        \/ \E f \in LiveOn(r, card) : figures[f].event = e
        \/ \E p \in PhotosOn(r, card) : photos[p].event = e})

\* Each look with anything still on the card, mirrored on the other; matching, one that
\* was mirrored there before is left out.
Mirrored(r, target) ==
    LET card == plan[r].todo[1].from IN
    SetToSeq({e \in Rows(r, events) :
        /\ IsCard(events[e].of, card)
        /\ \/ \E f \in LiveOn(r, card) : figures[f].event = e
           \/ \E p \in PhotosOn(r, card) : photos[p].event = e
        /\ ~(~Moves(r) /\ \E d \in Rows(r, events) : events[d].from = e /\ events[d].of = target)})

\* The last of its cards filed: the act commits.
MoverEnds(r) ==
    /\ Ends(r, "saved")
    /\ IF plan[r].amends = {} THEN UNCHANGED packs
       ELSE packs' = Amend(r, CHOOSE p \in plan[r].amends : TRUE, plan[r].counts)
    /\ behind' = TRUE

\* The next of a match's cards, or the end of it; nothing on any of them is refused.
Skips(r) ==
    LET left == Tail(plan[r].todo) IN
    /\ At(r, "mirror")
    /\ ~Moves(r) /\ ~Holds(r, plan[r].todo[1].from)
    /\ IF left = <<>> /\ ~plan[r].any THEN Stops(r, "refused")
       ELSE IF left = <<>> THEN
            /\ MoverEnds(r)
            /\ UNCHANGED <<sent, claimed, events, figures, photos, cuts, moves, current,
                           findings, seen, revived>>
       ELSE /\ Plans(r, [plan[r] EXCEPT !.todo = left]) /\ Goes(r, "mirror")
            /\ UNCHANGED claimed /\ Keeps

Mirrors(r) ==
    LET do     == plan[r].todo[1]
        target == ObservableFor(r, do.to, Ask[r].day)
        looks  == Mirrored(r, target) IN
    /\ At(r, "mirror") /\ (Moves(r) \/ Holds(r, do.from))
    /\ \/ ~Definite(target) /\ Stops(r, "refused")
       \/ /\ Definite(target)
          /\ events' = events \o
                [i \in DOMAIN looks |->
                    Event(r, target, events[looks[i]].day,
                          Arranged(do.from.level, do.to.level, events[looks[i]].arranged), looks[i])]
          /\ seen' = [seen EXCEPT ![r] = Saved]
          /\ Goes(r, "copy")
          /\ UNCHANGED <<sent, claimed, plan, figures, photos, cuts, moves, packs, display, findings, revived>>

\* The looks this act has mirrored from a card, each to its mirror.
Mirror(r, e) == {d \in DOMAIN events : events[d].by = r /\ events[d].from = e
                                       /\ IsCard(events[d].of, plan[r].todo[1].to)}

\* MUTANT: a correction is not copied with the look it put right.
CopiedFirst(r) == {f \in LiveOn(r, plan[r].todo[1].from) :
                      Mirror(r, figures[f].event) # {} /\ figures[f].corrects = 0}

Copied(r) == {f \in LiveOn(r, plan[r].todo[1].from) : Mirror(r, figures[f].event) # {}}

Copies(r) ==
    LET ids == SetToSeq(Copied(r)) IN
    /\ At(r, "copy")
    /\ figures' = figures \o
          [i \in DOMAIN ids |-> [figures[ids[i]] EXCEPT !.by = r, !.corrects = 0,
                                    !.event = CHOOSE d \in Mirror(r, figures[ids[i]].event) : TRUE]]
    /\ Goes(r, IF Moves(r) THEN "retract" ELSE "list")
    /\ UNCHANGED <<sent, claimed, plan, events, photos, cuts, moves, packs, display, findings, seen, revived>>

\* What is live where they were now, retracted: one event on each thing it was of.
Retracts(r) ==
    LET live == SetToSeq(LiveOn(r, plan[r].todo[1].from))
        ofs  == SetToSeq({Of(live[i]) : i \in DOMAIN live})
        On(f) == Len(events) + (CHOOSE i \in DOMAIN ofs : ofs[i] = Of(f)) IN
    /\ At(r, "retract")
    /\ events' = events \o [i \in DOMAIN ofs |-> Event(r, ofs[i], Ask[r].day, FALSE, 0)]
    /\ figures' = figures \o
          [i \in DOMAIN live |-> [Figure(r, On(live[i]), figures[live[i]].metric, None) EXCEPT !.retracts = live[i]]]
    /\ Goes(r, "list")
    /\ UNCHANGED <<sent, claimed, plan, photos, cuts, moves, packs, display, findings, seen, revived>>

\* The photographs not moved before, of the looks mirrored.
ToFile(r) == {p \in PhotosOn(r, plan[r].todo[1].from) : Mirror(r, photos[p].event) # {}}
Lists(r) ==
    /\ At(r, "list")
    /\ Plans(r, [todo |-> plan[r].todo, amends |-> plan[r].amends, any |-> TRUE, counts |-> plan[r].counts,
                 list |-> ToFile(r)])
    /\ Goes(r, "file")
    /\ UNCHANGED claimed /\ Keeps

\* Each filed again in its look's mirror, with its cut, and where it looks the same as one
\* filed before it, as that one's copy; moved, it is marked moved there.
Files(r) ==
    LET ids == SortSeq(SetToSeq(plan[r].list), LAMBDA x, y : x < y)
        New(p) == Len(photos) + (CHOOSE i \in DOMAIN ids : ids[i] = p)
        wasCut == SelectSeq(ids, LAMBDA p : \E c \in Rows(r, cuts) : cuts[c].photo = p)
        left == Tail(plan[r].todo) IN
    /\ At(r, "file")
    /\ \/ /\ Moves(r) /\ ~Moving(r, plan[r].list) /\ Moved(plan[r].list)
          /\ Stops(r, "failed")
       \/ /\ Moves(r) => ~Moving(r, plan[r].list) /\ ~Moved(plan[r].list)
          /\ photos' = photos \o
                [i \in DOMAIN ids |->
                    Photo(r, CHOOSE d \in Mirror(r, photos[ids[i]].event) : TRUE, photos[ids[i]].face,
                          IF photos[ids[i]].same \in plan[r].list THEN New(photos[ids[i]].same)
                          ELSE photos[ids[i]].same)]
          /\ cuts' = cuts \o [i \in DOMAIN wasCut |-> [by |-> r, photo |-> New(wasCut[i])]]
          /\ moves' = IF Moves(r) THEN moves \o [i \in DOMAIN ids |-> Move(r, ids[i], New(ids[i]))] ELSE moves
          /\ IF left # <<>>
             THEN /\ Plans(r, [plan[r] EXCEPT !.todo = left]) /\ Goes(r, "mirror")
                  /\ UNCHANGED <<packs, behind>>
             ELSE MoverEnds(r)
          /\ UNCHANGED <<sent, claimed, events, figures, current, findings, seen, revived>>

------------------------------------------------------------------------------
(* The fold behind the acts *)

\* projection_observation_current_rebuild, as the drain calls it.
Drains ==
    /\ behind
    /\ behind' = FALSE
    /\ current' \in Folds
    /\ UNCHANGED <<sent, control, rows, findings, seen, revived>>

CardsInit ==
    /\ sent \in Together
    /\ pc = [r \in Requests |-> "new"]
    /\ outcome = [r \in Requests |-> "none"]
    /\ claimed = {} /\ findings = {} /\ revived = {}
    /\ plan = [r \in Requests |-> None]
    /\ before = [r \in Requests |-> {}] /\ seen = before
    /\ events = OnFile.events /\ figures = OnFile.figures /\ photos = OnFile.photos
    /\ cuts = <<>> /\ moves = <<>> /\ packs = OnFile.packs
    /\ current \in Folds /\ behind = FALSE

Step(r) ==
    \/ LookTakes(r) \/ EvidenceTakes(r) \/ WeighTakes(r) \/ LookCommits(r)
    \/ Uploads(r) \/ SaysSame(r) \/ TakesFromQueue(r) \/ RecordsCut(r)
    \/ FaceFiles(r) \/ FaceMoves(r) \/ Shifts(r) \/ CorrectFinds(r) \/ CorrectPuts(r)
    \/ SayReads(r) \/ SayWrites(r) \/ RefileChecks(r) \/ MatchChecks(r) \/ MoverSays(r)
    \/ Skips(r) \/ Mirrors(r) \/ Copies(r) \/ Retracts(r) \/ Lists(r) \/ Files(r)

CardsNext == Drains \/ \E r \in Requests : Step(r)
CardsSpec == CardsInit /\ [][CardsNext]_cardVars

------------------------------------------------------------------------------
(* Properties *)

\* J72: a size of a single thing says how the thing was arranged, by whichever act it got
\* there: measured, put right, moved from a carton's card or matched.
EachSizesArranged ==
    \A f \in Rows(None, figures) :
        Of(f).level = "each" /\ figures[f].metric \in Sizes /\ figures[f].value # None
            => events[figures[f].event].arranged

\* A figure f that x moved to another card.
CopyOf(f, x) ==
    {c \in Rows(None, figures) : /\ figures[c].by = x /\ figures[c].metric = figures[f].metric
                                 /\ events[figures[c].event].from = figures[f].event}

\* refile: a figure is retracted from the card it was on only when it is on the other one,
\* as it was, unless it was recorded while the card was being moved.
NothingForgotten ==
    \A x \in Rows(None, figures) :
        LET f == figures[x].retracts
            r == figures[x].by IN
        f # 0 /\ r \in Requests /\ figures[f].by \in seen[r]
            => \E c \in CopyOf(f, r) : figures[c].value = figures[f].value

\* Acts of which neither had ended when the other began.
Overlap(q, r) == q # r /\ q \notin before[r] /\ r \notin before[q]

\* A figure has one figure after it, on this card or another: it counts twice only when two
\* acts overlapped, or it was put right after it had been moved away and before the fold.
\* Of two that were there at the start nothing is said.
Heirs(f) == {c \in Rows(None, figures) : figures[c].corrects = f}
            \cup UNION {CopyOf(f, r) : r \in {q \in Requests : Ask[q].kind = "refile"}}
OneHeir ==
    \A f \in Rows(None, figures) : \A c, d \in Heirs(f) :
        c # d /\ ~({figures[c].by, figures[d].by} \subseteq Given)
            => f \in revived \/ Overlap(figures[c].by, figures[d].by)

\* match_family: matching again brings only what is new; a look is on a card twice only
\* when two matches overlapped.
MatchedOnce ==
    LET E == {e \in Rows(None, events) : events[e].by \in Requests /\ Ask[events[e].by].kind = "match"} IN
    \A d, e \in E :
        d # e /\ events[d].from = events[e].from /\ events[d].of = events[e].of /\ events[d].from # 0
            => Overlap(events[d].by, events[e].by)

\* Nothing is on a card twice, from a figure put right or from a match, but by acts that met.
OnceEach == OneHeir /\ MatchedOnce

\* A refile that ends.
Refiled(r) == Ask[r].kind = "refile" /\ outcome[r] = "none" /\ outcome'[r] = "saved"

\* "A card that already has its own figures or photos is refused, rather than two sets mixed
\* on it": what is on a card something was just moved to is what was moved.
NeverMixed ==
    [][\A r \in Requests : Refiled(r) =>
          /\ \A f \in LiveOn(None, Ask[r].to)' : figures'[f].by = r
          /\ \A p \in PhotosOn(None, Ask[r].to)' : photos'[p].by = r]_cardVars

\* "Matching twice brings only what is new": what a card had when a match began is on the
\* card it was matched to.
MatchBrings ==
    [][\A r \in Requests :
          Ask[r].kind = "match" /\ outcome[r] = "none" /\ outcome'[r] = "saved" =>
              \A i \in DOMAIN Ask[r].levels :
                  LET from == [item |-> Ask[r].sibling, level |-> Ask[r].levels[i]]
                      to   == [item |-> Ask[r].item, level |-> Ask[r].levels[i]] IN
                  \A p \in PhotosOn(None, from) :
                      photos[p].by \in before[r] =>
                          \E q \in PhotosOn(None, to)' :
                              /\ photos'[q].face = photos[p].face
                              /\ events'[photos'[q].event].from = photos[p].event]_cardVars
==============================================================================
