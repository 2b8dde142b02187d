------------------------------- MODULE ShownProofs -------------------------------
(***************************************************************************)
(* What an item's cards have goes where they go, and what is committed         *)
(* reaches the projections and the screens.                                  *)
(*                                                                         *)
(* For any requests on any cards: CardInv follows each figure from the look    *)
(* it was taken in to the card it is on.  A size is of an arranged look on an   *)
(* each whether it is on file, on its way or about to be put right               *)
(* (ArrangedInv); and a figure is retracted only when its mover has written its  *)
(* copy, which a figure recorded before it mirrored the card always has          *)
(* (MoveInv).  What comes after a figure does so once, but for acts that met:   *)
(* each had looked for the other's when it wrote (OnceInv).                    *)
(*                                                                         *)
(* For any number of writes, refreshes, receipts and steps: the inductive    *)
(* invariant of ProjectionDrain says where each rebuild can be (RunShape),   *)
(* who may hold the mark's row (LockShape), that what a rebuild has folded   *)
(* covers every fact older than it (FoldCovers), and that it is never behind *)
(* what is already committed (FoldIsFresh).                                 *)
(*                                                                         *)
(* For any devices, sites, changes and faults: a screen that has not asked    *)
(* since the last change at its site is going to.  What NothingUnheard        *)
(* promises is not enough to go on: while the hello of a screen's first        *)
(* stream is on the wire, taking it makes no read, so that what is on its way   *)
(* must then be behind it (Coming).  That needs the order of the wire: a hello   *)
(* is the first thing a stream says, to a device that waits for it (InOrder).    *)
(***************************************************************************)
EXTENDS ProjectionDrain, LiveChannel, Cards, FiniteSetTheorems, FunctionTheorems, SequenceTheorems,
        WellFoundedInduction, TLAPS

------------------------------------------------------------------------------
(* Tables that grow *)

Sequential(s) == s \in Seq(Range(s))

\* A function on the first numbers is a sequence.
LEMMA ListIs ==
    ASSUME NEW n \in Nat, NEW s, s = [i \in DOMAIN s |-> s[i]], DOMAIN s = 1..n
    PROVE  Sequential(s) /\ Len(s) = n
<1>1. s \in [1..n -> Range(s)]
  BY DEF Range
<1>2. s \in Seq(Range(s))
  BY <1>1, SeqDef
<1>3. Len(s) \in Nat /\ DOMAIN s = 1..Len(s)
  BY <1>2
<1>4. Len(s) = n
  <2> DEFINE l == Len(s)
  <2>1. l \in Nat /\ 1..l = 1..n
    BY <1>3
  <2> HIDE DEF l
  <2>2. l >= 1 => l \in 1..n
    BY <2>1
  <2>3. n >= 1 => n \in 1..l
    BY <2>1
  <2>4. l = n
    BY <2>1, <2>2, <2>3
  <2> QED BY <2>4 DEF l
<1> QED BY <1>2, <1>4 DEF Sequential

\* One sequence after another.
LEMMA JoinIs ==
    ASSUME NEW s, NEW t, Sequential(s), Sequential(t)
    PROVE  /\ Sequential(s \o t)
           /\ Len(s) \in Nat /\ Len(t) \in Nat
           /\ DOMAIN s = 1..Len(s) /\ DOMAIN t = 1..Len(t) /\ DOMAIN (s \o t) = 1..(Len(s) + Len(t))
           /\ \A i \in DOMAIN s : (s \o t)[i] = s[i]
           /\ \A i \in DOMAIN t : (s \o t)[Len(s) + i] = t[i]
           /\ \A k \in DOMAIN (s \o t) : k \in DOMAIN s \/ \E i \in DOMAIN t : k = Len(s) + i
<1> DEFINE S == Range(s) \cup Range(t)
           u == s \o t
<1>1. s \in Seq(S) /\ t \in Seq(S)
  BY SeqMonotonic DEF Sequential
<1>2. /\ Len(s) \in Nat /\ Len(t) \in Nat
      /\ DOMAIN s = 1..Len(s) /\ DOMAIN t = 1..Len(t)
  BY <1>1
<1>3. /\ u \in Seq(S) /\ Len(u) = Len(s) + Len(t)
      /\ \A i \in 1..(Len(s) + Len(t)) : u[i] = IF i <= Len(s) THEN s[i] ELSE t[i - Len(s)]
  BY <1>1, ConcatProperties
<1>4. DOMAIN u = 1..(Len(s) + Len(t)) /\ u = [i \in DOMAIN u |-> u[i]]
  <2>1. u \in Seq(S) /\ Len(u) = Len(s) + Len(t)
    BY <1>3
  <2> HIDE DEF u, S
  <2>2. u \in [1..Len(u) -> S]
    BY <2>1
  <2> QED BY <2>1, <2>2
<1>5. Sequential(u)
  <2>1. Len(s) + Len(t) \in Nat
    BY <1>2
  <2> HIDE DEF u
  <2> QED BY <1>4, <2>1, ListIs
<1>6. ASSUME NEW i \in DOMAIN s PROVE u[i] = s[i]
  <2>1. i \in 1..Len(s)
    BY <1>2
  <2>2. i \in 1..(Len(s) + Len(t)) /\ i <= Len(s)
    BY <1>2, <2>1
  <2> QED BY <1>3, <2>2
<1>7. ASSUME NEW i \in DOMAIN t PROVE u[Len(s) + i] = t[i]
  <2>1. i \in 1..Len(t)
    BY <1>2
  <2>2. Len(s) + i \in 1..(Len(s) + Len(t)) /\ ~(Len(s) + i <= Len(s)) /\ Len(s) + i - Len(s) = i
    BY <1>2, <2>1
  <2> QED BY <1>3, <2>2
<1>8. ASSUME NEW k \in DOMAIN u, k \notin DOMAIN s PROVE \E i \in DOMAIN t : k = Len(s) + i
  <2>1. k \in 1..(Len(s) + Len(t)) /\ ~(k \in 1..Len(s))
    BY <1>2, <1>4, <1>8
  <2>2. k - Len(s) \in 1..Len(t) /\ k = Len(s) + (k - Len(s))
    BY <1>2, <2>1
  <2> QED BY <1>2, <2>2
<1> QED BY <1>2, <1>4, <1>5, <1>6, <1>7, <1>8

LEMMA JoinedAt ==
    ASSUME NEW s, NEW t, Sequential(s), Sequential(t), NEW i \in DOMAIN t
    PROVE  Len(s) + i \in DOMAIN (s \o t) /\ Len(s) + i \notin DOMAIN s /\ (s \o t)[Len(s) + i] = t[i]
<1>1. \A j \in DOMAIN t : (s \o t)[Len(s) + j] = t[j]
  BY ONLY Sequential(s), Sequential(t), JoinIs
<1>2. /\ Len(s) \in Nat /\ Len(t) \in Nat
      /\ DOMAIN s = 1..Len(s) /\ DOMAIN t = 1..Len(t) /\ DOMAIN (s \o t) = 1..(Len(s) + Len(t))
  BY JoinIs
<1> QED BY <1>1, <1>2

LEMMA JoinedNew ==
    ASSUME NEW s, NEW t, Sequential(s), Sequential(t), NEW k \in DOMAIN (s \o t), k \notin DOMAIN s
    PROVE  \E i \in DOMAIN t : (s \o t)[k] = t[i]
<1>1. PICK i \in DOMAIN t : k = Len(s) + i
  BY JoinIs
<1>2. (s \o t)[k] = t[i]
  BY <1>1, JoinIs
<1> QED BY <1>2

\* Two members it adds are of two places in the second.
LEMMA JoinedApart ==
    ASSUME NEW s, NEW t, Sequential(s), Sequential(t),
           NEW k \in DOMAIN (s \o t), k \notin DOMAIN s, NEW l \in DOMAIN (s \o t), l \notin DOMAIN s
    PROVE  \E i, j \in DOMAIN t : /\ (s \o t)[k] = t[i] /\ (s \o t)[l] = t[j]
                                  /\ i = j => k = l
<1>1. PICK i \in DOMAIN t : k = Len(s) + i
  BY JoinIs
<1>2. PICK j \in DOMAIN t : l = Len(s) + j
  BY JoinIs
<1>3. \A n \in DOMAIN t : (s \o t)[Len(s) + n] = t[n]
  BY ONLY Sequential(s), Sequential(t), JoinIs
<1> QED BY <1>1, <1>2, <1>3

\* The members of a finite set, each once.
LEMMA ListedOnce ==
    ASSUME NEW S, IsFiniteSet(S)
    PROVE  /\ Sequential(SetToSeq(S)) /\ IsInjective(SetToSeq(S))
           /\ \A i \in DOMAIN SetToSeq(S) : SetToSeq(S)[i] \in S
           /\ \A x \in S : \E i \in DOMAIN SetToSeq(S) : SetToSeq(S)[i] = x
<1> DEFINE n == Cardinality(S)
           q == SetToSeq(S)
<1>1. n \in Nat /\ ExistsBijection(1..n, S)
  BY FS_CardinalityType
<1>2. PICK b \in [1..n -> S] : IsInjective(b)
  BY <1>1 DEF ExistsBijection, Bijection, Injection
<1>3. q \in [1..n -> S] /\ IsInjective(q)
  BY <1>2 DEF SetToSeq
<1>4. Sequential(q)
  BY <1>1, <1>3, ListIs
<1>5. q \in Injection(1..n, S)
  BY <1>3 DEF Injection
<1>6. IsFiniteSet(1..n) /\ Cardinality(1..n) = n
  <2>1. IsFiniteSet(1..n) /\ Cardinality(1..n) = IF 1 > n THEN 0 ELSE n - 1 + 1
    BY ONLY <1>1, FS_Interval
  <2> QED BY <1>1, <2>1
<1>7. q \in Surjection(1..n, S)
  BY <1>5, <1>6, FS_Injection
<1> QED BY <1>3, <1>4, <1>7 DEF Surjection

\* What tells of each of a sequence's members is a sequence as long.
LEMMA MapIs ==
    ASSUME NEW s, Sequential(s), NEW t, DOMAIN t = DOMAIN s, t = [i \in DOMAIN t |-> t[i]]
    PROVE  Sequential(t) /\ Len(t) = Len(s)
<1>1. Len(s) \in Nat /\ DOMAIN s = 1..Len(s)
  BY DEF Sequential
<1> QED BY <1>1, ListIs

\* All but the first.
LEMMA TailIs ==
    ASSUME NEW s, Sequential(s), s # <<>>
    PROVE  Sequential(Tail(s)) /\ \A i \in DOMAIN Tail(s) : i \in Nat /\ i + 1 \in DOMAIN s /\ Tail(s)[i] = s[i + 1]
<1>1. s \in Seq(Range(s)) /\ Len(s) \in Nat /\ DOMAIN s = 1..Len(s)
  BY DEF Sequential
<1>2. /\ Tail(s) \in Seq(Range(s)) /\ Len(Tail(s)) = Len(s) - 1
      /\ \A i \in 1..Len(Tail(s)) : Tail(s)[i] = s[i + 1]
  BY <1>1, HeadTailProperties
<1>3. DOMAIN Tail(s) = 1..(Len(s) - 1) /\ Len(Tail(s)) \in Nat /\ Len(s) - 1 \in Nat
  BY <1>2
<1> DEFINE t == Tail(s)
<1>4. t = [i \in DOMAIN t |-> t[i]]
  <2>1. t \in Seq(Range(s))
    BY <1>2
  <2> HIDE DEF t
  <2> QED BY <2>1
<1>5. Sequential(t)
  <2>1. DOMAIN t = 1..(Len(s) - 1)
    BY <1>3
  <2> HIDE DEF t
  <2> QED BY <1>3, <1>4, <2>1, ListIs
<1>6. \A i \in 1..(Len(s) - 1) : i \in Nat /\ i + 1 \in 1..Len(s)
  BY <1>1
<1> QED BY <1>1, <1>2, <1>3, <1>5, <1>6

\* Part of a sequence's numbers are finitely many.
LEMMA SomeOf ==
    ASSUME NEW s, Sequential(s), NEW S, S \subseteq DOMAIN s PROVE IsFiniteSet(S)
<1>1. Len(s) \in Nat /\ DOMAIN s = 1..Len(s)
  BY DEF Sequential
<1>2. IsFiniteSet(1..Len(s))
  BY ONLY <1>1, FS_Interval
<1> QED BY ONLY <1>1, <1>2, FS_Subset, S \subseteq DOMAIN s

------------------------------------------------------------------------------
(* What holds throughout *)

Hows == {"saved", "told", "refused", "failed"}
CardSteps == {"new", "put", "cut", "move", "correct", "say", "says", "mirror", "copy", "retract", "list", "file", "ended"}
EventFields  == {"by", "of", "day", "arranged", "from"}
FigureFields == {"by", "event", "metric", "value", "corrects", "retracts"}

\* A figure is filed in a look its own request wrote, and names figures before it.
Filed ==
    /\ Sequential(events) /\ Sequential(figures)
    /\ \A e \in DOMAIN events : DOMAIN events[e] = EventFields /\ events[e].by \in Given \cup Requests
    /\ \A f \in DOMAIN figures :
          /\ DOMAIN figures[f] = FigureFields
          /\ figures[f].event \in DOMAIN events /\ figures[f].by = events[figures[f].event].by
          /\ figures[f].corrects \in 0..(f - 1) /\ figures[f].retracts \in 0..(f - 1)

\* A request's outcome is its last.
Controlled ==
    /\ DOMAIN pc = Requests /\ DOMAIN outcome = Requests /\ DOMAIN plan = Requests /\ DOMAIN seen = Requests
    /\ \A r \in Requests : /\ pc[r] \in CardSteps
                           /\ outcome[r] # "none" <=> pc[r] = "ended"
                           /\ seen[r] \subseteq Saved
    /\ current \subseteq Rows(None, figures)

BaseInv == Filed /\ Controlled

\* A correction has a value, of what it corrects.
Valued ==
    \A f \in DOMAIN figures : figures[f].corrects # 0 =>
        figures[f].value # None /\ figures[f].metric = figures[figures[f].corrects].metric

\* What is being corrected has a value, and is asked about.
Wrongly(r) ==
    /\ Ask[r].kind = "correct" /\ plan[r] \subseteq DOMAIN figures
    /\ \A f \in plan[r] : figures[f].value # None /\ figures[f].metric \in DOMAIN Ask[r].figures
Wrong == \A r \in Requests : pc[r] = "correct" => Wrongly(r)

\* A look mirrored to a single thing is arranged, and so is one a size of it was taken in.
MirrorsSaid ==
    \A e \in DOMAIN events : events[e].from # 0 /\ events[e].of.level = "each" => events[e].arranged
SizeSaid(f) ==
    Of(f).level = "each" /\ figures[f].metric \in Sizes /\ figures[f].value # None
        => events[figures[f].event].arranged
SizesSaid == \A f \in DOMAIN figures : SizeSaid(f)

ArrangedInv == BaseInv /\ Valued /\ Wrong /\ MirrorsSaid /\ SizesSaid

Refiling == {"says", "mirror", "copy", "retract", "list", "file"}

\* A refile moves one card, the one asked for, and only a refile retracts.
OneCard(r) ==
    /\ pc[r] \in Refiling => "todo" \in DOMAIN plan[r]
    /\ Moves(r) /\ pc[r] \in Refiling => plan[r].todo = <<[from |-> Ask[r].from, to |-> Ask[r].to]>>
    /\ pc[r] = "retract" => Moves(r)

\* A figure that was there when r mirrored the card it is still live on.
Took(r, f) == f \in LiveOn(r, Ask[r].from) /\ figures[f].by \in seen[r]

\* The copy r made of it.
Copy(r, f, c) == /\ figures[c].by = r /\ figures[c].metric = figures[f].metric
                 /\ figures[c].value = figures[f].value
                 /\ events[figures[c].event].from = figures[f].event

\* Before what is on a card is retracted, its looks are mirrored and then its figures copied.
MirroredFirst(r) ==
    Moves(r) /\ pc[r] = "copy" =>
        \A f \in DOMAIN figures : Took(r, f) => Mirror(r, figures[f].event) # {}
CopiedThen(r) ==
    pc[r] = "retract" =>
        \A f \in DOMAIN figures : Took(r, f) => \E c \in DOMAIN figures : Copy(r, f, c)
RetractedLast(x) ==
    figures[x].retracts # 0 /\ figures[x].by \in Requests =>
        /\ Moves(figures[x].by) /\ pc[figures[x].by] \in {"list", "file", "ended"}
        /\ figures[figures[x].retracts].by \in seen[figures[x].by] =>
              \E c \in DOMAIN figures : Copy(figures[x].by, figures[x].retracts, c)

MoveInv ==
    /\ BaseInv
    /\ \A r \in Requests : OneCard(r) /\ MirroredFirst(r) /\ CopiedThen(r)
    /\ \A x \in DOMAIN figures : RetractedLast(x)

\* c is a copy of f that a refile made; what comes after f corrects it or is such a copy.
Carried(f, c) == /\ figures[c].by \in Requests /\ Moves(figures[c].by)
                 /\ figures[c].metric = figures[f].metric /\ events[figures[c].event].from = figures[f].event
Heir(f, c)    == figures[c].corrects = f \/ Carried(f, c)
After(f, F)   == \E x \in F : figures[x].retracts = f \/ figures[x].corrects = f
Failed        == {q \in Requests : outcome[q] \notin {"none", "saved"}}

\* What had ended when a request began has ended.
Timely(r) == /\ before[r] \subseteq Given \cup {q \in Requests : pc[q] = "ended"}
             /\ pc[r] # "new" => Given \subseteq before[r]

\* What it has written by the step it is at.
Yet(r) ==
    /\ pc[r] \in {"new", "cut", "move", "correct", "say", "says"} \/ (pc[r] = "mirror" /\ Moves(r))
          => \A e \in DOMAIN events : events[e].by # r
    /\ pc[r] = "copy" /\ Moves(r) => \A f \in DOMAIN figures : figures[f].by # r
    /\ Moves(r) => pc[r] \in Refiling \cup {"new", "ended"}

\* A request puts right one figure of a metric, with nothing after it of what had ended when
\* it began but a copy, and then it was retracted.
Righting(r) ==
    pc[r] = "correct" =>
        /\ plan[r] \subseteq DOMAIN figures
        /\ \A f, g \in plan[r] : figures[f].metric = figures[g].metric => f = g
        /\ \A f \in plan[r], c \in DOMAIN figures : figures[c].by \in before[r] \cap Saved =>
              figures[c].corrects # f /\ (Carried(f, c) => Retracted(f, Rows(None, figures)))

\* A match comes to each of its cards once, and has written no figure on those to come.
YetToCome(r) ==
    pc[r] \in Refiling =>
        /\ Sequential(plan[r].todo) /\ plan[r].todo # <<>>
        /\ \A i, j \in DOMAIN plan[r].todo : plan[r].todo[i].to.level = plan[r].todo[j].to.level => i = j
        /\ ~Moves(r) => \A f \in DOMAIN figures, i \in DOMAIN plan[r].todo :
              figures[f].by = r /\ Of(f).level = plan[r].todo[i].to.level
                  => i = 1 /\ pc[r] \notin {"says", "mirror", "copy"}

\* What a refile has copied is retracted next, if nothing else comes after it first.
CopiedFrom(r) ==
    Moves(r) /\ pc[r] = "retract" => \A f, c \in DOMAIN figures : figures[c].by = r /\ Carried(f, c) =>
        f \in Rows(r, figures) /\ figures[f].retracts = 0 /\ IsCard(Of(f), Ask[r].from)
GoneFrom(r) ==
    Moves(r) /\ pc[r] \in {"list", "file", "ended"} => \A f, c \in DOMAIN figures : figures[c].by = r /\ Carried(f, c) =>
        After(f, Rows(r, figures))

ItsOwn(r) == Yet(r) /\ Righting(r) /\ YetToCome(r) /\ CopiedFrom(r) /\ GoneFrom(r)

\* A refile mirrors what is saved.
MirrorsTold ==
    \A e \in DOMAIN events : events[e].from # 0 =>
        /\ events[e].from \in DOMAIN events
        /\ events[e].by \in Requests /\ Moves(events[e].by) => events[events[e].from].by \in Saved

Matching(e) == /\ events[e].by \in Requests \ Failed /\ Ask[events[e].by].kind = "match"
               /\ events[e].from # 0
Twice(d, e) == d # e /\ events[d].from = events[e].from /\ events[d].of = events[e].of
MatchesOnce ==
    \A d, e \in DOMAIN events :
        Matching(d) /\ Matching(e) /\ Twice(d, e) => Overlap(events[d].by, events[e].by)

\* One figure of a metric in a look, but for retractions.
OneOfEach ==
    \A f, g \in DOMAIN figures :
        figures[f].event = figures[g].event /\ figures[f].metric = figures[g].metric
            => f = g \/ (figures[f].retracts # 0 /\ figures[g].retracts # 0)

Met(c, d) == \/ {figures[c].by, figures[d].by} \subseteq Given
             \/ {figures[c].by, figures[d].by} \subseteq Requests /\ Overlap(figures[c].by, figures[d].by)
HeirOnce ==
    \A f, c, d \in DOMAIN figures :
        Heir(f, c) /\ Heir(f, d) /\ c # d /\ figures[c].by \notin Failed /\ figures[d].by \notin Failed
            => f \in revived \/ Met(c, d)

OnceInv ==
    /\ DOMAIN before = Requests
    /\ \A r \in Requests : Timely(r) /\ ItsOwn(r)
    /\ MirrorsTold /\ MatchesOnce /\ OneOfEach /\ HeirOnce

------------------------------------------------------------------------------
(* What a step of a request changes *)

\* Its own place only, and its outcome is its last.
Turn(r) ==
    /\ pc[r] # "ended" /\ pc'[r] \in CardSteps \ {"new"}
    /\ DOMAIN pc' = Requests /\ DOMAIN outcome' = Requests /\ DOMAIN plan' = Requests
    /\ \A q \in Requests \ {r} : pc'[q] = pc[q] /\ outcome'[q] = outcome[q] /\ plan'[q] = plan[q]
    /\ outcome'[r] # "none" <=> pc'[r] = "ended"
    /\ UNCHANGED current

\* Rows are added under its name.
Adds(r) ==
    /\ Sequential(events') /\ Sequential(figures')
    /\ DOMAIN events \subseteq DOMAIN events' /\ DOMAIN figures \subseteq DOMAIN figures'
    /\ \A e \in DOMAIN events : events'[e] = events[e]
    /\ \A f \in DOMAIN figures : figures'[f] = figures[f]
    /\ \A e \in DOMAIN events' \ DOMAIN events : DOMAIN events'[e] = EventFields /\ events'[e].by = r
    /\ \A f \in DOMAIN figures' \ DOMAIN figures :
          /\ DOMAIN figures'[f] = FigureFields
          /\ figures'[f].event \in DOMAIN events' /\ figures'[f].by = r /\ events'[figures'[f].event].by = r
          /\ figures'[f].corrects \in 0..(f - 1) /\ figures'[f].retracts \in 0..(f - 1)

\* What a mover has seen is what is saved.
Sees(r) == /\ DOMAIN seen' = Requests /\ \A q \in Requests \ {r} : seen'[q] = seen[q]
           /\ seen'[r] \in {seen[r], Saved}

Turned(r) == Turn(r) /\ Adds(r) /\ Sees(r)

\* It begins once, and knows what had ended.
Timed(r) ==
    \/ pc[r] = "new" /\ before' = [before EXCEPT ![r] = Given \cup {q \in Requests : pc[q] = "ended"}]
    \/ pc[r] # "new" /\ UNCHANGED before

\* What is saved stays so, and what was not yet is only the request's own.
LEMMA SavedGrows ==
    ASSUME BaseInv, CardsAssumption, NEW r \in Requests, Turn(r)
    PROVE  Saved \subseteq Saved' /\ Saved' \subseteq Saved \cup {r} /\ r \notin Saved
<1>1. outcome[r] = "none" /\ r \notin Given
  BY DEF BaseInv, Controlled, Turn, CardsAssumption
<1>2. \A q \in Requests : q # r => outcome'[q] = outcome[q]
  BY DEF Turn
<1> QED BY <1>1, <1>2 DEF Saved

LEMMA BaseKept ==
    ASSUME BaseInv, CardsAssumption, NEW r \in Requests, Turned(r) PROVE BaseInv'
<1>1. Saved \subseteq Saved' /\ Saved' \subseteq Saved \cup {r} /\ r \notin Saved
  BY SavedGrows DEF Turned
<1>2. Controlled'
  <2>1. \A q \in Requests : pc'[q] \in CardSteps /\ (outcome'[q] # "none" <=> pc'[q] = "ended")
    BY DEF Turned, Turn, BaseInv, Controlled
  <2>2. \A q \in Requests : seen'[q] \subseteq Saved'
    BY <1>1 DEF Turned, Sees, BaseInv, Controlled
  <2>3. current' \subseteq Rows(None, figures)'
    BY <1>1 DEF Turned, Turn, Adds, BaseInv, Controlled, Rows
  <2> HIDE DEF BaseInv
  <2> QED BY <2>1, <2>2, <2>3 DEF Controlled, Turned, Turn, Sees
<1>3. Filed'
  <2>1. ASSUME NEW e \in DOMAIN events' PROVE DOMAIN events'[e] = EventFields /\ events'[e].by \in Given \cup Requests
    <3>1. CASE e \in DOMAIN events
      BY <3>1 DEF Turned, Adds, BaseInv, Filed
    <3>2. CASE e \notin DOMAIN events
      BY <3>2 DEF Turned, Adds
    <3> QED BY <3>1, <3>2
  <2>2. ASSUME NEW f \in DOMAIN figures'
        PROVE  /\ DOMAIN figures'[f] = FigureFields
               /\ figures'[f].event \in DOMAIN events' /\ figures'[f].by = events'[figures'[f].event].by
               /\ figures'[f].corrects \in 0..(f - 1) /\ figures'[f].retracts \in 0..(f - 1)
    <3>1. CASE f \in DOMAIN figures
      <4>1. figures'[f] = figures[f] /\ figures[f].event \in DOMAIN events
        BY <3>1 DEF Turned, Adds, BaseInv, Filed
      <4>2. figures[f].event \in DOMAIN events' /\ events'[figures[f].event] = events[figures[f].event]
        BY <4>1 DEF Turned, Adds
      <4> QED BY <3>1, <4>1, <4>2 DEF BaseInv, Filed
    <3>2. CASE f \notin DOMAIN figures
      BY <3>2 DEF Turned, Adds
    <3> QED BY <3>1, <3>2
  <2> QED BY <2>1, <2>2 DEF Filed, Turned, Adds
<1> QED BY <1>2, <1>3 DEF BaseInv

\* What is live on a card to another was live there before.
LEMMA OldLive ==
    ASSUME BaseInv, CardsAssumption, NEW r \in Requests, Turned(r), NEW q \in Requests, NEW card,
           NEW f \in DOMAIN figures', figures'[f].by \in Saved, f \in LiveOn(q, card)'
    PROVE  f \in DOMAIN figures /\ f \in LiveOn(q, card)
<1>1. Saved \subseteq Saved' /\ r \notin Saved
  BY SavedGrows DEF Turned
<1>2. f \in DOMAIN figures
  BY <1>1 DEF Turned, Adds
<1>3. /\ figures'[f] = figures[f]
      /\ figures[f].event \in DOMAIN events /\ events'[figures[f].event] = events[figures[f].event]
  BY <1>2 DEF Turned, Adds, BaseInv, Filed
<1>4. f \in Rows(q, figures)
  BY <1>1, <1>2, <1>3 DEF Rows
<1>5. Rows(q, figures) \subseteq Rows(q, figures)'
  BY <1>1 DEF Rows, Turned, Adds
<1>6. \A x \in Rows(q, figures) : figures'[x] = figures[x]
  BY DEF Rows, Turned, Adds
<1>7. IsCard(Of(f), card)' /\ Live(f, Rows(q, figures))'
  BY DEF LiveOn
<1>8. IsCard(Of(f), card)
  BY <1>3, <1>7 DEF IsCard, Of
<1>9. Live(f, Rows(q, figures))
  BY <1>3, <1>5, <1>6, <1>7 DEF Live, Retracted
<1> QED BY <1>2, <1>4, <1>8, <1>9 DEF LiveOn

\* The looks mirrored for another stay so.
LEMMA OldMirror ==
    ASSUME BaseInv, NEW r \in Requests, Turned(r), NEW q \in Requests, plan'[q] = plan[q], NEW e
    PROVE  Mirror(q, e) \subseteq Mirror(q, e)'
BY DEF Mirror, Turned, Adds, IsCard

LEMMA OldCopy ==
    ASSUME BaseInv, NEW r \in Requests, Turned(r), NEW q \in Requests,
           NEW f \in DOMAIN figures, NEW c \in DOMAIN figures, Copy(q, f, c)
    PROVE  Copy(q, f, c)'
<1>1. /\ figures'[f] = figures[f] /\ figures'[c] = figures[c]
      /\ figures[c].event \in DOMAIN events /\ events'[figures[c].event] = events[figures[c].event]
  BY DEF Turned, Adds, BaseInv, Filed
<1> QED BY <1>1 DEF Copy

\* The rows a step adds say how the thing was arranged.
SaysHow ==
    /\ \A f \in DOMAIN figures' \ DOMAIN figures :
          /\ figures'[f].corrects # 0 => /\ figures'[f].value # None
                                         /\ figures'[f].metric = figures'[figures'[f].corrects].metric
          /\ SizeSaid(f)'
    /\ \A e \in DOMAIN events' \ DOMAIN events :
          events'[e].from # 0 /\ events'[e].of.level = "each" => events'[e].arranged

LEMMA ArrangedKept ==
    ASSUME ArrangedInv, CardsAssumption, NEW r \in Requests, Turned(r), SaysHow,
           pc'[r] = "correct" => Wrongly(r)'
    PROVE  ArrangedInv'
<1>1. BaseInv /\ BaseInv'
  BY BaseKept DEF ArrangedInv
<1>2. ASSUME NEW f \in DOMAIN figures
      PROVE  /\ f \in DOMAIN figures' /\ figures'[f] = figures[f]
             /\ figures[f].event \in DOMAIN events /\ events'[figures[f].event] = events[figures[f].event]
  BY <1>1 DEF Turned, Adds, BaseInv, Filed
<1>3. Valued'
  <2> SUFFICES ASSUME NEW f \in DOMAIN figures', figures'[f].corrects # 0
               PROVE  figures'[f].value # None /\ figures'[f].metric = figures'[figures'[f].corrects].metric
    BY DEF Valued
  <2>1. CASE f \notin DOMAIN figures
    BY <2>1 DEF SaysHow
  <2>2. CASE f \in DOMAIN figures
    <3>1. figures[f].corrects \in DOMAIN figures
      <4>1. f \in 1..Len(figures) /\ Len(figures) \in Nat
        BY <1>1, <2>2, JoinIs DEF BaseInv, Filed
      <4>2. figures[f].corrects \in 0..(f - 1) /\ figures[f].corrects # 0
        BY <1>1, <1>2, <2>2 DEF BaseInv, Filed
      <4>3. figures[f].corrects \in 1..Len(figures)
        BY <4>1, <4>2
      <4> QED BY <1>1, <4>3, JoinIs DEF BaseInv, Filed
    <3> QED BY <1>2, <2>2, <3>1 DEF ArrangedInv, Valued
  <2> QED BY <2>1, <2>2
<1>4. Wrong'
  <2> SUFFICES ASSUME NEW q \in Requests, pc'[q] = "correct" PROVE Wrongly(q)'
    BY DEF Wrong
  <2>1. CASE q = r
    BY <2>1
  <2>2. CASE q # r
    <3>1. pc[q] = "correct" /\ plan'[q] = plan[q]
      BY <2>2 DEF Turned, Turn
    <3>2. Wrongly(q)
      BY <3>1 DEF ArrangedInv, Wrong
    <3> QED BY <1>2, <3>1, <3>2 DEF Wrongly
  <2> QED BY <2>1, <2>2
<1>5. MirrorsSaid'
  <2> SUFFICES ASSUME NEW e \in DOMAIN events', events'[e].from # 0, events'[e].of.level = "each"
               PROVE  events'[e].arranged
    BY DEF MirrorsSaid
  <2>1. CASE e \notin DOMAIN events
    BY <2>1 DEF SaysHow
  <2>2. CASE e \in DOMAIN events
    BY <2>2 DEF ArrangedInv, MirrorsSaid, Turned, Adds
  <2> QED BY <2>1, <2>2
<1>6. SizesSaid'
  <2> SUFFICES ASSUME NEW f \in DOMAIN figures' PROVE SizeSaid(f)'
    BY DEF SizesSaid
  <2>1. CASE f \notin DOMAIN figures
    BY <2>1 DEF SaysHow
  <2>2. CASE f \in DOMAIN figures
    <3>1. SizeSaid(f)
      BY <2>2 DEF ArrangedInv, SizesSaid
    <3> QED BY <1>2, <2>2, <3>1 DEF SizeSaid, Of
  <2> QED BY <2>1, <2>2
<1> QED BY <1>1, <1>3, <1>4, <1>5, <1>6 DEF ArrangedInv

\* The last steps of a move stay last.
LastStays(r) == pc[r] \in {"list", "file"} /\ Moves(r) => pc'[r] \in {"list", "file", "ended"} /\ seen'[r] = seen[r]

LEMMA MoveKept ==
    ASSUME MoveInv, CardsAssumption, NEW r \in Requests, Turned(r), LastStays(r),
           OneCard(r)', MirroredFirst(r)', CopiedThen(r)',
           \A x \in DOMAIN figures' \ DOMAIN figures : RetractedLast(x)'
    PROVE  MoveInv'
<1>1. BaseInv /\ BaseInv'
  BY BaseKept DEF MoveInv
<1>2. ASSUME NEW f \in DOMAIN figures
      PROVE  /\ f \in DOMAIN figures' /\ figures'[f] = figures[f]
             /\ figures[f].event \in DOMAIN events /\ events'[figures[f].event] = events[figures[f].event]
  BY <1>1 DEF Turned, Adds, BaseInv, Filed
<1>3. ASSUME NEW q \in Requests PROVE OneCard(q)' /\ MirroredFirst(q)' /\ CopiedThen(q)'
  <2>1. CASE q = r
    BY <2>1
  <2>2. CASE q # r
    <3>1. pc'[q] = pc[q] /\ plan'[q] = plan[q] /\ seen'[q] = seen[q]
      BY <2>2 DEF Turned, Turn, Sees
    <3>2. OneCard(q) /\ MirroredFirst(q) /\ CopiedThen(q)
      BY DEF MoveInv
    <3>3. ASSUME NEW f \in DOMAIN figures', Took(q, f)' PROVE f \in DOMAIN figures /\ Took(q, f)
      <4>1. figures'[f].by \in Saved /\ f \in LiveOn(q, Ask[q].from)'
        BY <1>1, <3>1, <3>3 DEF Took, BaseInv, Controlled
      <4> QED BY <1>1, <1>2, <3>1, <3>3, <4>1, OldLive DEF Took
    <3>4. OneCard(q)'
      BY <3>1, <3>2 DEF OneCard, Moves
    <3>5. MirroredFirst(q)'
      <4> SUFFICES ASSUME Moves(q), pc'[q] = "copy", NEW f \in DOMAIN figures', Took(q, f)'
                   PROVE  Mirror(q, figures[f].event)' # {}
        BY <3>3 DEF MirroredFirst, Moves
      <4>1. f \in DOMAIN figures /\ Took(q, f)
        BY <3>3
      <4>2. PICK e : e = figures[f].event
        OBVIOUS
      <4>3. Mirror(q, e) # {}
        BY <3>1, <3>2, <4>1, <4>2 DEF MirroredFirst
      <4>4. Mirror(q, e)' # {}
        BY <1>1, <3>1, <4>3, OldMirror
      <4>5. figures'[f].event = e
        BY <1>2, <4>1, <4>2
      <4> QED BY <4>4, <4>5 DEF Mirror
    <3>6. CopiedThen(q)'
      <4> SUFFICES ASSUME pc'[q] = "retract", NEW f \in DOMAIN figures', Took(q, f)'
                   PROVE  \E c \in DOMAIN figures' : Copy(q, f, c)'
        BY DEF CopiedThen
      <4>1. f \in DOMAIN figures /\ Took(q, f)
        BY <3>3
      <4>2. PICK c \in DOMAIN figures : Copy(q, f, c)
        BY <3>1, <3>2, <4>1 DEF CopiedThen
      <4>3. Copy(q, f, c)'
        BY <1>1, <4>1, <4>2, OldCopy
      <4> QED BY <1>2, <4>3
    <3> QED BY <3>4, <3>5, <3>6
  <2> QED BY <2>1, <2>2
<1>4. ASSUME NEW x \in DOMAIN figures' PROVE RetractedLast(x)'
  <2>1. CASE x \notin DOMAIN figures
    BY <2>1
  <2>2. CASE x \in DOMAIN figures
    <3>1. RetractedLast(x) /\ figures'[x] = figures[x]
      BY <1>2, <2>2 DEF MoveInv
    <3>2. PICK q, f : q = figures[x].by /\ f = figures[x].retracts
      OBVIOUS
    <3> SUFFICES ASSUME f # 0, q \in Requests
                 PROVE  /\ Moves(q) /\ pc'[q] \in {"list", "file", "ended"}
                        /\ figures'[f].by \in seen'[q] => \E c \in DOMAIN figures' : Copy(q, f, c)'
      BY <3>1, <3>2 DEF RetractedLast, Moves
    <3>3. /\ Moves(q) /\ pc[q] \in {"list", "file", "ended"}
          /\ figures[f].by \in seen[q] => \E c \in DOMAIN figures : Copy(q, f, c)
      BY <3>1, <3>2 DEF RetractedLast
    <3>4. pc'[q] \in {"list", "file", "ended"} /\ seen'[q] = seen[q]
      BY <3>3 DEF LastStays, Turned, Turn, Sees
    <3>5. f \in DOMAIN figures
      <4>1. x \in 1..Len(figures) /\ Len(figures) \in Nat
        BY <1>1, <2>2, JoinIs DEF BaseInv, Filed
      <4>2. f \in 0..(x - 1) /\ f # 0
        BY <1>1, <2>2, <3>2 DEF BaseInv, Filed
      <4>3. f \in 1..Len(figures)
        BY <4>1, <4>2
      <4> QED BY <1>1, <4>3, JoinIs DEF BaseInv, Filed
    <3>6. ASSUME figures'[f].by \in seen'[q] PROVE \E c \in DOMAIN figures' : Copy(q, f, c)'
      <4>1. PICK c \in DOMAIN figures : Copy(q, f, c)
        BY <1>2, <3>3, <3>4, <3>5, <3>6
      <4>2. Copy(q, f, c)'
        BY <1>1, <3>5, <4>1, OldCopy
      <4> QED BY <1>2, <4>2
    <3> QED BY <3>3, <3>4, <3>6
  <2> QED BY <2>1, <2>2
<1> QED BY <1>1, <1>3, <1>4 DEF MoveInv

\* The looks and figures a step adds follow nothing that others saved before it, nor r itself.
NewLooks(r) ==
    \A e \in DOMAIN events' \ DOMAIN events : events'[e].from # 0 =>
        /\ events'[e].from \in DOMAIN events
        /\ Moves(r) => events[events'[e].from].by \in Saved
        /\ Ask[r].kind = "match" => \A d \in DOMAIN events' : Twice(d, e)' =>
              d \in DOMAIN events /\ events[d].by \notin Saved \cup {r}
NewFigures(r) ==
    \A c \in DOMAIN figures' \ DOMAIN figures :
        /\ \A g \in DOMAIN figures' : figures'[c].event = figures'[g].event /\ figures'[c].metric = figures'[g].metric
              => c = g \/ (figures'[c].retracts # 0 /\ figures'[g].retracts # 0)
        /\ \A f \in DOMAIN figures' : Heir(f, c)' =>
              /\ f \in DOMAIN figures
              /\ f \in revived' \/ \A d \in DOMAIN figures' : Heir(f, d)' /\ d # c =>
                    d \in DOMAIN figures /\ figures[d].by \notin (Saved \cap before'[r]) \cup {r}

\* What comes after an old figure, and what an old one comes after, is old.
LEMMA OldHeir ==
    ASSUME BaseInv, OnceInv, CardsAssumption, NEW r \in Requests, Turned(r),
           NEW f \in DOMAIN figures', NEW c \in DOMAIN figures
    PROVE  /\ Carried(f, c)' <=> f \in DOMAIN figures /\ Carried(f, c)
           /\ Heir(f, c)' <=> f \in DOMAIN figures /\ Heir(f, c)
<1>1. ASSUME NEW x \in DOMAIN figures
      PROVE  /\ figures'[x] = figures[x]
             /\ figures[x].event \in DOMAIN events /\ events'[figures[x].event] = events[figures[x].event]
  BY DEF Turned, Adds, BaseInv, Filed
<1>2. CASE f \in DOMAIN figures
  <2>1. Carried(f, c)' <=> Carried(f, c)
    BY <1>1, <1>2 DEF Carried, Moves
  <2>2. figures'[c].corrects = figures[c].corrects
    BY <1>1
  <2> QED BY <1>2, <2>1, <2>2 DEF Heir
<1>3. CASE f \notin DOMAIN figures
  <2>1. r \notin Saved
    BY SavedGrows DEF Turned
  <2>2. ASSUME Carried(f, c)' PROVE FALSE
    <3>1. figures[c].by \in Requests /\ Moves(figures[c].by) /\ events[figures[c].event].from = figures'[f].event
      BY <1>1, <2>2 DEF Carried, Moves
    <3>2. figures'[f].event \in DOMAIN events' /\ events'[figures'[f].event].by = r
      BY <1>3 DEF Turned, Adds
    <3>3. PICK e : e = figures'[f].event
      OBVIOUS
    <3>4. events[figures[c].event].from = e /\ e # 0 /\ events[figures[c].event].by = figures[c].by
      <4>1. Sequential(events')
        BY DEF Turned, Adds
      <4>2. e \in 1..Len(events')
        BY <3>2, <3>3, <4>1 DEF Sequential
      <4>3. Len(events') \in Nat
        BY <4>1 DEF Sequential
      <4>4. e # 0
        BY <4>2, <4>3
      <4> QED BY <3>1, <3>3, <4>4 DEF BaseInv, Filed
    <3>5. e \in DOMAIN events /\ events[e].by \in Saved
      BY <1>1, <3>1, <3>4 DEF OnceInv, MirrorsTold
    <3>6. events'[e] = events[e]
      BY <3>5 DEF Turned, Adds
    <3> QED BY <2>1, <3>2, <3>3, <3>5, <3>6
  <2>3. ASSUME figures'[c].corrects = f PROVE FALSE
    <3>1. figures[c].corrects = f /\ f \in 0..(c - 1)
      BY <1>1, <2>3 DEF BaseInv, Filed
    <3>2. DOMAIN figures = 1..Len(figures) /\ Len(figures) \in Nat
      BY DEF BaseInv, Filed, Sequential
    <3>3. DOMAIN figures' = 1..Len(figures') /\ Len(figures') \in Nat
      BY DEF Turned, Adds, Sequential
    <3> QED BY <1>3, <3>1, <3>2, <3>3
  <2> QED BY <1>3, <2>2, <2>3 DEF Heir
<1> QED BY <1>2, <1>3

\* Acts that met, when each had written something, go on having met.
LEMMA OldMet ==
    ASSUME OnceInv, NEW r \in Requests, Timed(r), NEW p \in Requests, NEW q \in Requests,
           NEW d \in DOMAIN events, NEW e \in DOMAIN events, events[d].by = p, events[e].by = q, Overlap(p, q)
    PROVE  Overlap(p, q)'
<1>1. before'[p] = before[p] /\ before'[q] = before[q]
  <2>1. CASE pc[r] = "new"
    <3>1. p # r /\ q # r
      BY <2>1 DEF OnceInv, ItsOwn, Yet
    <3> QED BY <2>1, <3>1 DEF Timed, OnceInv
  <2>2. CASE pc[r] # "new"
    BY <2>2 DEF Timed
  <2> QED BY <2>1, <2>2
<1> QED BY <1>1 DEF Overlap

\* Another whose work is on its way or was not there when r began has met r.
LEMMA NewMet ==
    ASSUME BaseInv, OnceInv, CardsAssumption, NEW r \in Requests, Turned(r), Timed(r), Timely(r)',
           NEW q \in Given \cup Requests, q \notin Failed', q \notin (Saved \cap before'[r]) \cup {r}
    PROVE  q \in Requests /\ Overlap(q, r)' /\ Overlap(r, q)'
<1>1. Saved' \subseteq Saved \cup {r} /\ Given \subseteq Saved /\ r \notin Given /\ BaseInv'
  BY SavedGrows, BaseKept DEF Turned, Saved, CardsAssumption
<1>2. pc'[r] # "new" /\ before'[r] \subseteq Given \cup {x \in Requests : pc'[x] = "ended"} /\ Given \subseteq before'[r]
  BY DEF Turned, Turn, Timely
<1>3. q \in Requests
  BY <1>1, <1>2
<1>4. q \notin before'[r]
  <2> SUFFICES ASSUME q \in before'[r] PROVE FALSE
    OBVIOUS
  <2>1. q \notin Saved /\ q # r
    OBVIOUS
  <2>2. pc'[q] = "ended"
    BY <1>1, <1>2, <2>1
  <2>3. outcome'[q] = "saved"
    BY <1>1, <1>3, <2>2 DEF BaseInv, Controlled, Failed
  <2>4. q \in Saved'
    BY <1>3, <2>3 DEF Saved
  <2> QED BY <1>1, <2>1, <2>4
<1>5. r \notin before'[q]
  <2>1. before'[q] = before[q]
    BY <1>3 DEF Timed, OnceInv
  <2>2. pc[r] # "ended" /\ before[q] \subseteq Given \cup {x \in Requests : pc[x] = "ended"}
    BY <1>3 DEF Turned, Turn, OnceInv, Timely
  <2> QED BY <1>1, <2>1, <2>2
<1> QED BY <1>3, <1>4, <1>5 DEF Overlap

\* What a request knows of itself stands when another takes a step.
LEMMA OwnStands ==
    ASSUME BaseInv, OnceInv, CardsAssumption, NEW r \in Requests, Turned(r), Timed(r), NEW q \in Requests, q # r
    PROVE  ItsOwn(q)'
<1>1. /\ Saved \subseteq Saved' /\ Saved' \subseteq Saved \cup {r} /\ r \notin Saved /\ r \notin Given
      /\ pc'[q] = pc[q] /\ plan'[q] = plan[q] /\ before'[q] = before[q]
  BY SavedGrows DEF Turned, Turn, Timed, CardsAssumption, OnceInv
<1>2. ASSUME NEW f \in DOMAIN figures
      PROVE  /\ f \in DOMAIN figures' /\ figures'[f] = figures[f] /\ Of(f)' = Of(f)
             /\ figures[f].event \in DOMAIN events /\ events'[figures[f].event] = events[figures[f].event]
  BY DEF Turned, Adds, BaseInv, Filed, Of
<1>3. /\ \A e \in DOMAIN events' : events'[e].by # r => e \in DOMAIN events /\ events'[e] = events[e]
      /\ \A f \in DOMAIN figures' : figures'[f].by # r => f \in DOMAIN figures
  BY DEF Turned, Adds
<1>4. ItsOwn(q) /\ Timely(q)
  BY DEF OnceInv
<1>5. Rows(q, figures) \subseteq Rows(q, figures)' /\ Rows(None, figures) \subseteq Rows(None, figures)'
  BY <1>1, <1>2 DEF Rows
<1>6. Yet(q)'
  BY <1>1, <1>3, <1>4, <1>2 DEF ItsOwn, Yet, Moves
<1>7. Righting(q)'
  <2> SUFFICES ASSUME pc[q] = "correct"
               PROVE  /\ plan[q] \subseteq DOMAIN figures'
                      /\ \A f, g \in plan[q] : figures'[f].metric = figures'[g].metric => f = g
                      /\ \A f \in plan[q], c \in DOMAIN figures' : figures'[c].by \in before[q] \cap Saved' =>
                            figures'[c].corrects # f /\ (Carried(f, c)' => Retracted(f, Rows(None, figures))')
    BY <1>1 DEF Righting
  <2>1. plan[q] \subseteq DOMAIN figures
    BY <1>4 DEF ItsOwn, Righting
  <2>2. \A f, g \in plan[q] : figures'[f].metric = figures'[g].metric => f = g
    BY <1>2, <1>4, <2>1 DEF ItsOwn, Righting
  <2>3. ASSUME NEW f \in plan[q], NEW c \in DOMAIN figures', figures'[c].by \in before[q] \cap Saved'
        PROVE  figures'[c].corrects # f /\ (Carried(f, c)' => Retracted(f, Rows(None, figures))')
    <3>1. r \notin before[q]
      BY <1>1, <1>4 DEF Timely, Turned, Turn
    <3>2. c \in DOMAIN figures /\ figures[c].by \in before[q] \cap Saved /\ figures'[c] = figures[c]
      BY <1>1, <1>2, <1>3, <2>3, <3>1
    <3>3. figures[c].corrects # f /\ (Carried(f, c) => Retracted(f, Rows(None, figures)))
      BY <1>4, <3>2 DEF ItsOwn, Righting
    <3>4. Carried(f, c)' <=> Carried(f, c)
      BY <1>2, <2>1, <3>2, OldHeir
    <3>5. Retracted(f, Rows(None, figures)) => Retracted(f, Rows(None, figures))'
      BY <1>2, <1>5 DEF Retracted, Rows
    <3> QED BY <3>2, <3>3, <3>4, <3>5
  <2>4. plan[q] \subseteq DOMAIN figures'
    BY <1>2, <2>1
  <2> QED BY <2>2, <2>3, <2>4
<1>8. YetToCome(q)'
  BY <1>1, <1>2, <1>3, <1>4 DEF ItsOwn, YetToCome, Moves
<1>9. ASSUME NEW f \in DOMAIN figures', NEW c \in DOMAIN figures', figures'[c].by = q, Carried(f, c)'
      PROVE  f \in DOMAIN figures /\ c \in DOMAIN figures /\ figures[c].by = q /\ Carried(f, c)
  <2>1. c \in DOMAIN figures /\ figures[c].by = q
    BY <1>2, <1>3, <1>9
  <2> QED BY <1>9, <2>1, OldHeir
<1>10. CopiedFrom(q)'
  <2> SUFFICES ASSUME Moves(q), pc[q] = "retract", NEW f \in DOMAIN figures', NEW c \in DOMAIN figures',
                      figures'[c].by = q, Carried(f, c)'
               PROVE  f \in Rows(q, figures)' /\ figures'[f].retracts = 0 /\ IsCard(Of(f), Ask[q].from)'
    BY <1>1 DEF CopiedFrom, Moves
  <2>1. f \in DOMAIN figures /\ c \in DOMAIN figures /\ figures[c].by = q /\ Carried(f, c)
    BY <1>9
  <2>2. f \in Rows(q, figures) /\ figures[f].retracts = 0 /\ IsCard(Of(f), Ask[q].from)
    BY <1>4, <2>1 DEF ItsOwn, CopiedFrom
  <2> QED BY <1>2, <1>5, <2>1, <2>2 DEF IsCard
<1>11. GoneFrom(q)'
  <2> SUFFICES ASSUME Moves(q), pc[q] \in {"list", "file", "ended"}, NEW f \in DOMAIN figures', NEW c \in DOMAIN figures',
                      figures'[c].by = q, Carried(f, c)'
               PROVE  After(f, Rows(q, figures))'
    BY <1>1 DEF GoneFrom, Moves
  <2>1. f \in DOMAIN figures /\ c \in DOMAIN figures /\ figures[c].by = q /\ Carried(f, c)
    BY <1>9
  <2>2. After(f, Rows(q, figures))
    BY <1>4, <2>1 DEF ItsOwn, GoneFrom
  <2> QED BY <1>2, <1>5, <2>2 DEF After, Rows
<1> QED BY <1>6, <1>7, <1>8, <1>10, <1>11 DEF ItsOwn

LEMMA OnceKept ==
    ASSUME BaseInv, OnceInv, CardsAssumption, NEW r \in Requests, Turned(r), Timed(r), revived \subseteq revived',
           ItsOwn(r)', NewLooks(r), NewFigures(r)
    PROVE  OnceInv'
<1>1. /\ BaseInv' /\ Saved \subseteq Saved' /\ Saved' \subseteq Saved \cup {r} /\ r \notin Saved /\ r \notin Given
      /\ DOMAIN before = Requests
  BY BaseKept, SavedGrows DEF Turned, CardsAssumption, OnceInv
<1>2. ASSUME NEW f \in DOMAIN figures
      PROVE  /\ f \in DOMAIN figures' /\ figures'[f] = figures[f]
             /\ figures[f].event \in DOMAIN events /\ events'[figures[f].event] = events[figures[f].event]
  BY DEF Turned, Adds, BaseInv, Filed
<1>3. /\ \A e \in DOMAIN events : e \in DOMAIN events' /\ events'[e] = events[e]
      /\ \A e \in DOMAIN events' \ DOMAIN events : events'[e].by = r
      /\ \A f \in DOMAIN figures' \ DOMAIN figures : figures'[f].by = r
  BY DEF Turned, Adds
<1>4. DOMAIN before' = Requests
  BY <1>1 DEF Timed
<1>5. ASSUME NEW q \in Requests PROVE Timely(q)'
  <2>1. {x \in Requests : pc[x] = "ended"} \subseteq {x \in Requests : pc'[x] = "ended"}
    BY DEF Turned, Turn
  <2>2. Timely(q)
    BY DEF OnceInv
  <2>3. CASE q = r /\ pc[r] = "new"
    <3>1. before'[r] = Given \cup {x \in Requests : pc[x] = "ended"}
      BY <1>1, <2>3 DEF Timed
    <3> QED BY <2>1, <2>3, <3>1 DEF Timely
  <2>4. CASE q # r \/ pc[r] # "new"
    <3>1. before'[q] = before[q]
      BY <1>1, <2>4 DEF Timed
    <3>2. pc'[q] # "new" => pc[q] # "new"
      BY <2>4 DEF Turned, Turn
    <3> QED BY <2>1, <2>2, <3>1, <3>2 DEF Timely
  <2> QED BY <2>3, <2>4
<1>6. \A q \in Requests : ItsOwn(q)'
  BY OwnStands
<1>7. MirrorsTold'
  <2> SUFFICES ASSUME NEW e \in DOMAIN events', events'[e].from # 0
               PROVE  /\ events'[e].from \in DOMAIN events'
                      /\ events'[e].by \in Requests /\ Moves(events'[e].by) => events'[events'[e].from].by \in Saved'
    BY DEF MirrorsTold, Moves
  <2>1. CASE e \in DOMAIN events
    <3>1. events'[e] = events[e] /\ events[e].from \in DOMAIN events
      BY <1>3, <2>1 DEF OnceInv, MirrorsTold
    <3> QED BY <1>1, <1>3, <2>1, <3>1 DEF OnceInv, MirrorsTold
  <2>2. CASE e \notin DOMAIN events
    <3>1. events'[e].by = r /\ events'[e].from \in DOMAIN events /\ (Moves(r) => events[events'[e].from].by \in Saved)
      BY <1>3, <2>2 DEF NewLooks
    <3> QED BY <1>1, <1>3, <3>1
  <2> QED BY <2>1, <2>2
<1>8. \A q \in Requests \ {r} : q \in Failed' <=> q \in Failed
  BY DEF Failed, Turned, Turn
<1>9. r \notin Failed
  BY DEF Failed, BaseInv, Controlled, Turned, Turn
<1>10. MatchesOnce'
  <2>1. ASSUME NEW d \in DOMAIN events', NEW e \in DOMAIN events', Matching(d)', Matching(e)', Twice(d, e)',
               e \notin DOMAIN events
        PROVE  Overlap(events[d].by, events[e].by)'
    <3>1. events'[e].by = r
      BY <1>3, <2>1
    <3>2. Ask[r].kind = "match" /\ events'[e].from # 0
      BY <2>1, <3>1 DEF Matching
    <3>3. d \in DOMAIN events /\ events[d].by \notin Saved \cup {r} /\ events'[d].by = events[d].by
      BY <1>3, <2>1, <3>2 DEF NewLooks
    <3>4. PICK q : q = events[d].by
      OBVIOUS
    <3>5. q \in Requests /\ q \notin Failed'
      BY <2>1, <3>3, <3>4 DEF Matching
    <3>6. Overlap(q, r)'
      BY <1>5, <3>3, <3>4, <3>5, NewMet
    <3> QED BY <3>1, <3>3, <3>4, <3>6 DEF Overlap
  <2>2. ASSUME NEW d \in DOMAIN events, NEW e \in DOMAIN events, Matching(d)', Matching(e)', Twice(d, e)'
        PROVE  Overlap(events[d].by, events[e].by)'
    <3>1. events'[d] = events[d] /\ events'[e] = events[e]
      BY <1>3
    <3>2. Matching(d) /\ Matching(e) /\ Twice(d, e)
      BY <1>8, <1>9, <2>2, <3>1 DEF Matching, Twice
    <3>3. PICK p, q : p = events[d].by /\ q = events[e].by
      OBVIOUS
    <3>4. p \in Requests /\ q \in Requests /\ Overlap(p, q)
      BY <3>2, <3>3 DEF OnceInv, MatchesOnce, Matching
    <3>5. Overlap(p, q)'
      BY <3>3, <3>4, OldMet
    <3> QED BY <3>1, <3>3, <3>5 DEF Overlap
  <2>3. ASSUME NEW d \in DOMAIN events', NEW e \in DOMAIN events', Overlap(events[d].by, events[e].by)'
        PROVE  Overlap(events[e].by, events[d].by)'
    BY <2>3 DEF Overlap
  <2>4. \A d, e \in DOMAIN events' : Twice(d, e)' => Twice(e, d)'
    BY DEF Twice
  <2> QED BY <2>1, <2>2, <2>3, <2>4 DEF MatchesOnce
<1>11. OneOfEach'
  <2> SUFFICES ASSUME NEW f \in DOMAIN figures', NEW g \in DOMAIN figures',
                      figures'[f].event = figures'[g].event, figures'[f].metric = figures'[g].metric
               PROVE  f = g \/ (figures'[f].retracts # 0 /\ figures'[g].retracts # 0)
    BY DEF OneOfEach
  <2>1. CASE f \in DOMAIN figures /\ g \in DOMAIN figures
    BY <1>2, <2>1 DEF OnceInv, OneOfEach
  <2>2. CASE f \notin DOMAIN figures
    BY <2>2 DEF NewFigures
  <2>3. CASE g \notin DOMAIN figures
    BY <2>3 DEF NewFigures
  <2> QED BY <2>1, <2>2, <2>3
<1>12. HeirOnce'
  <2>1. ASSUME NEW f \in DOMAIN figures', NEW c \in DOMAIN figures', NEW d \in DOMAIN figures', c \notin DOMAIN figures,
               Heir(f, c)', Heir(f, d)', c # d, figures'[d].by \notin Failed'
        PROVE  f \in revived' \/ (Met(c, d)' /\ Met(d, c)')
    <3> SUFFICES ASSUME f \notin revived' PROVE Met(c, d)' /\ Met(d, c)'
      OBVIOUS
    <3>1. d \in DOMAIN figures /\ figures[d].by \notin (Saved \cap before'[r]) \cup {r}
      BY <2>1 DEF NewFigures
    <3>2. PICK q : q = figures[d].by
      OBVIOUS
    <3>3. figures'[c].by = r /\ figures'[d].by = q
      BY <1>2, <1>3, <2>1, <3>1, <3>2
    <3>4. q \in Given \cup Requests /\ q \notin Failed' /\ q \notin (Saved \cap before'[r]) \cup {r}
      BY <2>1, <3>1, <3>2, <3>3 DEF BaseInv, Filed
    <3>5. q \in Requests /\ Overlap(q, r)' /\ Overlap(r, q)'
      BY <1>5, <3>4, NewMet
    <3> QED BY <3>3, <3>5 DEF Met, Overlap
  <2>2. ASSUME NEW f \in DOMAIN figures', NEW c \in DOMAIN figures, NEW d \in DOMAIN figures,
               Heir(f, c)', Heir(f, d)', c # d, figures'[c].by \notin Failed', figures'[d].by \notin Failed'
        PROVE  f \in revived' \/ Met(c, d)'
    <3>1. f \in DOMAIN figures /\ Heir(f, c) /\ Heir(f, d)
      BY <2>2, OldHeir
    <3>2. PICK p, q : p = figures[c].by /\ q = figures[d].by
      OBVIOUS
    <3>3. figures'[c].by = p /\ figures'[d].by = q
      BY <1>2, <3>2
    <3>4. p \notin Failed /\ q \notin Failed
      BY <1>8, <1>9, <2>2, <3>3 DEF Failed
    <3>5. f \in revived \/ {p, q} \subseteq Given \/ (p \in Requests /\ q \in Requests /\ Overlap(p, q))
      BY <2>2, <3>1, <3>2, <3>4 DEF OnceInv, HeirOnce, Met
    <3>6. ASSUME p \in Requests, q \in Requests, Overlap(p, q) PROVE Overlap(p, q)'
      <4>1. /\ figures[c].event \in DOMAIN events /\ events[figures[c].event].by = p
            /\ figures[d].event \in DOMAIN events /\ events[figures[d].event].by = q
        BY <3>2 DEF BaseInv, Filed
      <4> QED BY <3>6, <4>1, OldMet
    <3> QED BY <3>3, <3>5, <3>6 DEF Met, Overlap
  <2>3. ASSUME NEW f \in DOMAIN figures', NEW c \in DOMAIN figures', NEW d \in DOMAIN figures', Heir(f, c)', Heir(f, d)',
               c # d, figures'[c].by \notin Failed', figures'[d].by \notin Failed'
        PROVE  f \in revived' \/ Met(c, d)'
    <3>1. CASE c \notin DOMAIN figures
      BY <2>1, <2>3, <3>1
    <3>2. CASE d \notin DOMAIN figures
      BY <2>1, <2>3, <3>2
    <3>3. CASE c \in DOMAIN figures /\ d \in DOMAIN figures
      BY <2>2, <2>3, <3>3
    <3> QED BY <3>1, <3>2, <3>3
  <2> QED BY <2>3 DEF HeirOnce
<1> QED BY <1>4, <1>5, <1>6, <1>7, <1>10, <1>11, <1>12 DEF OnceInv

------------------------------------------------------------------------------
(* A step that adds no look and no figure *)

CardInv == ArrangedInv /\ MoveInv /\ OnceInv

\* A request goes on to a step, with a plan or without.
LEMMA GoingTurns ==
    ASSUME BaseInv, NEW r \in Requests, NEW stage \in CardSteps \ {"new", "ended"}, pc[r] # "ended", Goes(r, stage),
           plan' = plan \/ \E p : Plans(r, p), UNCHANGED current
    PROVE  Turn(r) /\ pc'[r] = stage
<1>1. DOMAIN plan' = Requests /\ \A q \in Requests \ {r} : plan'[q] = plan[q]
  BY DEF Plans, BaseInv, Controlled
<1>2. outcome'[r] = "none"
  BY DEF Goes, BaseInv, Controlled
<1> QED BY <1>1, <1>2 DEF Goes, Turn, BaseInv, Controlled

LEMMA EndingTurns ==
    ASSUME BaseInv, NEW r \in Requests, NEW how \in Hows, pc[r] # "ended", Ends(r, how), UNCHANGED current
    PROVE  Turn(r) /\ pc'[r] = "ended"
BY DEF Ends, Plans, Turn, BaseInv, Controlled, CardSteps, Hows

LEMMA StillAdds ==
    ASSUME BaseInv, NEW r \in Requests, UNCHANGED <<events, figures>> PROVE Adds(r)
BY DEF Adds, BaseInv, Filed, Sequential

LEMMA QuietKeeps ==
    ASSUME CardInv, CardsAssumption, NEW r \in Requests, Turn(r), UNCHANGED <<events, figures, seen, revived>>, LastStays(r),
           pc'[r] = "correct" => Wrongly(r)', pc'[r] \notin {"copy", "retract"}, OneCard(r)', Timed(r), ItsOwn(r)'
    PROVE  CardInv'
<1>1. BaseInv
  BY DEF CardInv, ArrangedInv
<1>2. Turned(r)
  BY <1>1, StillAdds DEF Turned, Sees, BaseInv, Controlled
<1>3. SaysHow
  BY DEF SaysHow
<1>4. MirroredFirst(r)' /\ CopiedThen(r)'
  BY DEF MirroredFirst, CopiedThen
<1>5. \A x \in DOMAIN figures' \ DOMAIN figures : RetractedLast(x)'
  OBVIOUS
<1>6. NewLooks(r) /\ NewFigures(r)
  BY DEF NewLooks, NewFigures
<1> QED BY <1>1, <1>2, <1>3, <1>4, <1>5, <1>6, ArrangedKept, MoveKept, OnceKept DEF CardInv

\* A request that ends has told what it knows of itself, unless its copies are still to be retracted.
LEMMA OwnEnds ==
    ASSUME BaseInv, OnceInv, CardsAssumption, NEW r \in Requests, Turn(r), pc'[r] = "ended", pc[r] # "retract",
           UNCHANGED <<events, figures>>
    PROVE  ItsOwn(r)'
<1>1. Yet(r)' /\ Righting(r)' /\ YetToCome(r)' /\ CopiedFrom(r)'
  BY DEF Yet, Righting, YetToCome, CopiedFrom, Refiling
<1>2. GoneFrom(r)'
  <2> SUFFICES ASSUME Moves(r), NEW f \in DOMAIN figures, NEW c \in DOMAIN figures, figures[c].by = r, Carried(f, c)
               PROVE  After(f, Rows(r, figures))'
    BY DEF GoneFrom, Moves, Carried
  <2>1. Yet(r) /\ GoneFrom(r)
    BY DEF OnceInv, ItsOwn
  <2>2. figures[c].event \in DOMAIN events /\ events[figures[c].event].by = r
    BY DEF BaseInv, Filed
  <2>3. pc[r] \in {"list", "file"}
    BY <2>1, <2>2 DEF Yet, Refiling, Turn
  <2>4. After(f, Rows(r, figures))
    BY <2>1, <2>3 DEF GoneFrom
  <2>5. Rows(r, figures) \subseteq Rows(r, figures)'
    BY SavedGrows DEF Rows
  <2> QED BY <2>4, <2>5 DEF After
<1> QED BY <1>1, <1>2 DEF ItsOwn

\* One that begins with something else than moving a card has written nothing yet.
LEMMA OwnBegins ==
    ASSUME BaseInv, OnceInv, NEW r \in Requests, ~Moves(r), pc[r] = "new", pc'[r] \in {"cut", "move", "say"},
           UNCHANGED <<events, figures>>
    PROVE  ItsOwn(r)'
<1>1. Yet(r)
  BY DEF OnceInv, ItsOwn
<1> QED BY <1>1 DEF ItsOwn, Yet, Righting, YetToCome, CopiedFrom, GoneFrom, Refiling, Moves

\* A match goes on to its next card.
LEMMA OwnGoesOn ==
    ASSUME BaseInv, OnceInv, NEW r \in Requests, ~Moves(r), pc[r] \in {"mirror", "file"}, pc'[r] = "mirror",
           plan'[r].todo = Tail(plan[r].todo), Tail(plan[r].todo) # <<>>, UNCHANGED <<events, figures>>
    PROVE  ItsOwn(r)'
<1> DEFINE todo == plan[r].todo
<1>1. YetToCome(r)
  BY DEF OnceInv, ItsOwn
<1>2. Sequential(todo) /\ todo # <<>>
  BY <1>1 DEF YetToCome, Refiling
<1>3. Sequential(Tail(todo)) /\ \A i \in DOMAIN Tail(todo) : i \in Nat /\ i + 1 \in DOMAIN todo /\ Tail(todo)[i] = todo[i + 1]
  BY <1>2, TailIs
<1>4. \A i, j \in DOMAIN Tail(todo) : Tail(todo)[i].to.level = Tail(todo)[j].to.level => i = j
  <2> SUFFICES ASSUME NEW i \in DOMAIN Tail(todo), NEW j \in DOMAIN Tail(todo), Tail(todo)[i].to.level = Tail(todo)[j].to.level
               PROVE  i = j
    OBVIOUS
  <2>1. i + 1 = j + 1
    BY <1>1, <1>3 DEF YetToCome, Refiling
  <2> QED BY <1>3, <2>1
<1>5. \A f \in DOMAIN figures, i \in DOMAIN Tail(todo) : figures[f].by = r => Of(f).level # Tail(todo)[i].to.level
  <2> SUFFICES ASSUME NEW f \in DOMAIN figures, NEW i \in DOMAIN Tail(todo), figures[f].by = r, Of(f).level = Tail(todo)[i].to.level
               PROVE  FALSE
    OBVIOUS
  <2>1. i + 1 = 1
    BY <1>1, <1>3 DEF YetToCome, Refiling
  <2> QED BY <1>3, <2>1
<1> HIDE DEF todo
<1>6. plan'[r].todo = Tail(todo) /\ Tail(todo) # <<>>
  BY DEF todo
<1>7. YetToCome(r)'
  <2>1. \A f : Of(f)' = Of(f)
    BY DEF Of
  <2>2. PICK t : t = Tail(todo)
    OBVIOUS
  <2>3. plan'[r].todo = t /\ t # <<>> /\ Sequential(t) /\ \A k, l \in DOMAIN t : t[k].to.level = t[l].to.level => k = l
    BY <1>3, <1>4, <1>6, <2>2
  <2>4. \A f \in DOMAIN figures, k \in DOMAIN t : figures[f].by = r => Of(f).level # t[k].to.level
    BY <1>5, <2>2
  <2> QED BY <2>1, <2>3, <2>4 DEF YetToCome
<1>8. Yet(r)' /\ Righting(r)' /\ CopiedFrom(r)' /\ GoneFrom(r)'
  BY DEF Yet, Righting, CopiedFrom, GoneFrom, Moves
<1> QED BY <1>7, <1>8 DEF ItsOwn

\* Nor has one that has only chosen its cards.
LEMMA OwnChooses ==
    ASSUME BaseInv, OnceInv, NEW r \in Requests, pc[r] \in {"new", "says"}, pc'[r] \in {"says", "mirror"},
           UNCHANGED <<events, figures>>, Sequential(plan'[r].todo), plan'[r].todo # <<>>,
           \A i, j \in DOMAIN plan'[r].todo : plan'[r].todo[i].to.level = plan'[r].todo[j].to.level => i = j
    PROVE  ItsOwn(r)'
<1>1. \A e \in DOMAIN events : events[e].by # r
  BY DEF OnceInv, ItsOwn, Yet
<1>2. \A f \in DOMAIN figures : figures[f].by # r
  BY <1>1 DEF BaseInv, Filed
<1>3. Yet(r)'
  BY <1>1 DEF Yet, Refiling
<1>4. YetToCome(r)'
  BY <1>2 DEF YetToCome, Refiling
<1>5. Righting(r)' /\ CopiedFrom(r)' /\ GoneFrom(r)'
  BY DEF Righting, CopiedFrom, GoneFrom
<1> QED BY <1>3, <1>4, <1>5 DEF ItsOwn

LEMMA StepEnds ==
    ASSUME CardInv, CardsAssumption, NEW r \in Requests, Timed(r), NEW how \in Hows, pc[r] \notin {"retract", "ended"},
           Ends(r, how), UNCHANGED <<events, figures, current, seen, revived>>
    PROVE  CardInv'
<1>1. BaseInv /\ OnceInv
  BY DEF CardInv, ArrangedInv
<1>2. Turn(r) /\ pc'[r] = "ended"
  BY <1>1, EndingTurns
<1>3. LastStays(r) /\ OneCard(r)'
  BY <1>2 DEF LastStays, OneCard, Refiling
<1>4. ItsOwn(r)'
  BY <1>1, <1>2, OwnEnds
<1> QED BY <1>2, <1>3, <1>4, QuietKeeps

LEMMA StepGoes ==
    ASSUME CardInv, CardsAssumption, NEW r \in Requests, Timed(r), ItsOwn(r)', pc[r] # "ended",
           NEW stage \in CardSteps \ {"new", "ended", "copy", "retract"}, Goes(r, stage),
           plan' = plan \/ \E p : Plans(r, p), UNCHANGED <<events, figures, current, seen, revived>>,
           Moves(r) /\ pc[r] \in {"list", "file"} => stage \in {"list", "file"},
           stage = "correct" => Wrongly(r)',
           stage \in Refiling => OneCard(r)'
    PROVE  CardInv'
<1>1. BaseInv
  BY DEF CardInv, ArrangedInv
<1>2. Turn(r) /\ pc'[r] = stage
  BY <1>1, GoingTurns
<1>3. LastStays(r)
  BY <1>2 DEF LastStays
<1>4. OneCard(r)'
  BY <1>2 DEF OneCard, Refiling
<1> QED BY <1>2, <1>3, <1>4, QuietKeeps

LEMMA StepStops ==
    ASSUME CardInv, CardsAssumption, NEW r \in Requests, Timed(r), NEW how \in Hows, pc[r] \notin {"retract", "ended"},
           Stops(r, how)
    PROVE  CardInv'
<1>1. Ends(r, how) /\ UNCHANGED <<events, figures, current, seen, revived>>
  BY DEF Stops, Keeps, rows, display
<1> QED BY <1>1, StepEnds DEF Hows

\* It stops short.
Halts(r) == Stops(r, "told") \/ Stops(r, "refused") \/ Stops(r, "failed")

LEMMA StepHalts ==
    ASSUME CardInv, CardsAssumption, NEW r \in Requests, Timed(r), pc[r] \notin {"retract", "ended"}, Halts(r)
    PROVE  CardInv'
BY StepStops DEF Halts, Hows

LEMMA LookCommitsStep ==
    ASSUME CardInv, CardsAssumption, NEW r \in Requests, Timed(r), LookCommits(r) PROVE CardInv'
<1>1. pc[r] \notin {"retract", "ended"} /\ Ends(r, "saved") /\ UNCHANGED <<events, figures, current, seen, revived>>
  BY DEF LookCommits, At, rows
<1> QED BY <1>1, StepEnds DEF Hows

LEMMA UploadsStep ==
    ASSUME CardInv, CardsAssumption, NEW r \in Requests, Timed(r), Uploads(r) \/ SaysSame(r) PROVE CardInv'
<1>1. pc[r] \notin {"retract", "ended"} /\ Ends(r, "saved") /\ UNCHANGED <<events, figures, current, seen, revived>>
  BY DEF Uploads, SaysSame, Begins, display
<1> QED BY <1>1, StepEnds DEF Hows

LEMMA CutsStep ==
    ASSUME CardInv, CardsAssumption, NEW r \in Requests, Timed(r), TakesFromQueue(r) \/ RecordsCut(r) PROVE CardInv'
<1>1. CASE TakesFromQueue(r)
  <2>1. /\ pc[r] \notin {"retract", "ended"} /\ pc[r] \notin {"list", "file"} /\ Goes(r, "cut") /\ \E p : Plans(r, p)
        /\ UNCHANGED <<events, figures, current, seen, revived>>
    BY <1>1 DEF TakesFromQueue, Begins, Keeps, rows, display
  <2>2. BaseInv /\ OnceInv /\ ~Moves(r) /\ pc[r] = "new" /\ pc'[r] = "cut"
    BY <1>1 DEF TakesFromQueue, Begins, Goes, Moves, CardInv, ArrangedInv, BaseInv, Controlled
  <2>3. ItsOwn(r)'
    BY <2>1, <2>2, OwnBegins
  <2> QED BY <2>1, <2>3, StepGoes DEF CardSteps, Refiling
<1>2. CASE RecordsCut(r)
  <2>1. CASE Stops(r, "told")
    BY <1>2, <2>1, StepStops DEF RecordsCut, At, Hows
  <2>2. CASE ~Stops(r, "told")
    <3>1. pc[r] \notin {"retract", "ended"} /\ Ends(r, "saved") /\ UNCHANGED <<events, figures, current, seen, revived>>
      BY <1>2, <2>2 DEF RecordsCut, At, display
    <3> QED BY <3>1, StepEnds DEF Hows
  <2> QED BY <2>1, <2>2
<1> QED BY <1>1, <1>2

LEMMA FacesStep ==
    ASSUME CardInv, CardsAssumption, NEW r \in Requests, Timed(r), FaceFiles(r) \/ FaceMoves(r) \/ Shifts(r) PROVE CardInv'
<1>1. pc[r] \notin {"retract", "ended"}
  BY DEF FaceFiles, FaceMoves, Shifts, Begins, At
<1>2. CASE Halts(r)
  BY <1>1, <1>2, StepHalts
<1>3. CASE ~Halts(r)
  <2>1. CASE FaceFiles(r)
    <3>1. /\ pc[r] \notin {"list", "file"} /\ Goes(r, "move") /\ \E p : Plans(r, p)
          /\ UNCHANGED <<events, figures, current, seen, revived>>
      BY <1>3, <2>1 DEF FaceFiles, Begins, display, Halts
    <3>2. BaseInv /\ OnceInv /\ ~Moves(r) /\ pc[r] = "new" /\ pc'[r] = "move"
      BY <2>1, <3>1 DEF FaceFiles, Begins, Goes, Moves, CardInv, ArrangedInv, BaseInv, Controlled
    <3>3. ItsOwn(r)'
      BY <3>1, <3>2, OwnBegins
    <3> QED BY <1>1, <3>1, <3>3, StepGoes DEF CardSteps, Refiling
  <2>2. CASE FaceMoves(r)
    <3>1. Ends(r, "saved") /\ UNCHANGED <<events, figures, current, seen, revived>>
      BY <1>3, <2>2 DEF FaceMoves, display, Halts
    <3> QED BY <1>1, <3>1, StepEnds DEF Hows
  <2>3. CASE Shifts(r)
    <3>1. Ends(r, "saved") /\ UNCHANGED <<events, figures, current, seen, revived>>
      BY <1>3, <2>3 DEF Shifts, display, Halts
    <3> QED BY <1>1, <3>1, StepEnds DEF Hows
  <2> QED BY <2>1, <2>2, <2>3
<1> QED BY <1>2, <1>3

LEMMA SayStep ==
    ASSUME CardInv, CardsAssumption, NEW r \in Requests, Timed(r), SayReads(r) \/ SayWrites(r) PROVE CardInv'
<1>1. pc[r] \notin {"retract", "ended"}
  BY DEF SayReads, SayWrites, Begins, At
<1>2. CASE Halts(r)
  BY <1>1, <1>2, StepHalts
<1>3. CASE ~Halts(r)
  <2>1. CASE SayReads(r)
    <3>1. /\ pc[r] \notin {"list", "file"} /\ Goes(r, "say") /\ \E p : Plans(r, p)
          /\ UNCHANGED <<events, figures, current, seen, revived>>
      BY <1>3, <2>1 DEF SayReads, Begins, Keeps, rows, display, Halts
    <3>2. BaseInv /\ OnceInv /\ ~Moves(r) /\ pc[r] = "new" /\ pc'[r] = "say"
      BY <2>1, <3>1 DEF SayReads, Begins, Goes, Moves, CardInv, ArrangedInv, BaseInv, Controlled
    <3>3. ItsOwn(r)'
      BY <3>1, <3>2, OwnBegins
    <3> QED BY <1>1, <3>1, <3>3, StepGoes DEF CardSteps, Refiling
  <2>2. CASE SayWrites(r)
    <3>1. Ends(r, "saved") /\ UNCHANGED <<events, figures, current, seen, revived>>
      BY <1>3, <2>2 DEF SayWrites, display, Halts
    <3> QED BY <1>1, <3>1, StepEnds DEF Hows
  <2> QED BY <2>1, <2>2
<1> QED BY <1>2, <1>3

LEMMA ChecksStep ==
    ASSUME CardInv, CardsAssumption, AskAssumption, NEW r \in Requests, Timed(r), RefileChecks(r) \/ MatchChecks(r) PROVE CardInv'
<1>0. BaseInv /\ OnceInv
  BY DEF CardInv, ArrangedInv
<1>1. pc[r] = "new" /\ pc[r] \notin {"retract", "ended"} /\ pc[r] \notin {"list", "file"} /\ DOMAIN plan = Requests
  BY <1>0 DEF RefileChecks, MatchChecks, Begins, BaseInv, Controlled
<1>2. CASE Halts(r)
  BY <1>1, <1>2, StepHalts
<1>3. CASE ~Halts(r)
  <2>1. CASE RefileChecks(r)
    <3> DEFINE todo == <<[from |-> Ask[r].from, to |-> Ask[r].to]>>
    <3>1. PICK stage \in {"says", "mirror"} : Goes(r, stage)
      BY <1>3, <2>1 DEF RefileChecks, Halts
    <3>2. PICK p : Plans(r, p) /\ p.todo = todo /\ "todo" \in DOMAIN p
      BY <1>3, <2>1 DEF RefileChecks, Halts
    <3>3. UNCHANGED <<events, figures, current, seen, revived>>
      BY <1>3, <2>1 DEF RefileChecks, Keeps, rows, display, Halts
    <3>4. plan'[r] = p
      BY <1>1, <3>2 DEF Plans
    <3>5. Moves(r)
      BY <2>1 DEF RefileChecks, Begins, Moves
    <3>6. pc'[r] = stage
      BY <3>1 DEF Goes, CardInv, ArrangedInv, BaseInv, Controlled
    <3>7. OneCard(r)'
      BY <3>1, <3>2, <3>4, <3>5, <3>6 DEF OneCard, Moves
    <3>8. ItsOwn(r)'
      <4>1. Sequential(todo) /\ todo # <<>> /\ \A i, j \in DOMAIN todo : i = j
        <5>1. DOMAIN todo = 1..1 /\ todo = [i \in DOMAIN todo |-> todo[i]] /\ todo # <<>> /\ 1 \in Nat
          OBVIOUS
        <5> HIDE DEF todo
        <5>2. Sequential(todo)
          BY <5>1, ListIs
        <5> QED BY <5>1, <5>2
      <4>2. plan'[r].todo = todo
        BY <3>2, <3>4
      <4> HIDE DEF todo
      <4> QED BY <1>0, <1>1, <3>1, <3>3, <3>6, <4>1, <4>2, OwnChooses
    <3> QED BY <1>1, <3>1, <3>2, <3>3, <3>7, <3>8, StepGoes DEF CardSteps
  <2>2. CASE MatchChecks(r)
    <3>0. Ask[r].kind = "match"
      BY <2>2 DEF MatchChecks, Begins
    <3> DEFINE levels == Ask[r].levels
               todo == [i \in DOMAIN levels |-> [from |-> [item |-> Ask[r].sibling, level |-> levels[i]],
                                                 to   |-> [item |-> Ask[r].item, level |-> levels[i]]]]
    <3>a. MatchChecks(r) /\ ~Stops(r, "told") /\ ~Stops(r, "refused")
      BY <1>3, <2>2 DEF Halts
    <3>1. PICK stage \in {"says", "mirror"} : Goes(r, stage)
      BY ONLY <3>a DEF MatchChecks
    <3>2. PICK p : Plans(r, p) /\ "todo" \in DOMAIN p /\ p.todo = todo
      <4> DEFINE theirs == InForce(r, Ask[r].sibling, Ask[r].day)
                 ours == InForce(r, Ask[r].item, Ask[r].day)
                 boxed == \E i \in DOMAIN Ask[r].levels : Ask[r].levels[i] # "each"
                 c == IF boxed /\ theirs # 0 /\ ours = 0 THEN packs[theirs].counts ELSE <<None, None>>
      <4>1. Plans(r, [todo |-> todo, amends |-> {}, any |-> FALSE, first |-> Ask[r].day, counts |-> c])
        BY ONLY <3>a, Zenon DEF MatchChecks
      <4> HIDE DEF todo, c
      <4> QED BY ONLY <4>1
    <3> HIDE DEF todo
    <3>b. Keeps
      BY ONLY <3>a DEF MatchChecks
    <3>3. UNCHANGED <<events, figures, current, seen, revived>>
      BY <3>b DEF Keeps, rows, display
    <3>4. plan'[r] = p
      BY <1>1, <3>2 DEF Plans
    <3>5. ~Moves(r)
      BY <3>0 DEF Moves
    <3>6. pc'[r] = stage
      BY <3>1 DEF Goes, CardInv, ArrangedInv, BaseInv, Controlled
    <3>7. OneCard(r)'
      BY <3>1, <3>2, <3>4, <3>5, <3>6 DEF OneCard, Moves
    <3>8. ItsOwn(r)'
      <4>1. Sequential(levels) /\ levels # <<>> /\ \A i, j \in DOMAIN levels : levels[i] = levels[j] => i = j
        BY <3>0 DEF AskAssumption, Sequential
      <4>2. DOMAIN todo = DOMAIN levels /\ todo = [i \in DOMAIN todo |-> todo[i]]
            /\ \A i \in DOMAIN todo : todo[i].to.level = levels[i]
        BY DEF todo
      <4> HIDE DEF levels
      <4>3. Sequential(todo) /\ Len(todo) = Len(levels)
        BY <4>1, <4>2, MapIs
      <4>4. todo # <<>>
        <5>1. ASSUME todo = <<>> PROVE levels = <<>>
          <6>1. levels \in Seq(Range(levels)) /\ DOMAIN levels = {}
            BY <4>1, <4>2, <5>1 DEF Sequential
          <6> QED BY <6>1
        <5> QED BY <4>1, <5>1
      <4>5. \A i, j \in DOMAIN todo : todo[i].to.level = todo[j].to.level => i = j
        BY <4>1, <4>2
      <4> QED BY <1>0, <1>1, <3>1, <3>2, <3>3, <3>4, <3>6, <4>3, <4>4, <4>5, OwnChooses
    <3> QED BY <1>1, <3>1, <3>2, <3>3, <3>7, <3>8, StepGoes DEF CardSteps
  <2> QED BY <2>1, <2>2
<1> QED BY <1>2, <1>3

LEMMA MoverSaysStep ==
    ASSUME CardInv, CardsAssumption, NEW r \in Requests, Timed(r), MoverSays(r) PROVE CardInv'
<1>1. pc[r] = "says" /\ DOMAIN plan = Requests /\ OneCard(r)
  BY DEF MoverSays, At, CardInv, ArrangedInv, BaseInv, Controlled, MoveInv
<1>2. CASE Halts(r)
  BY <1>1, <1>2, StepHalts
<1>3. CASE ~Halts(r)
  <2>1. Goes(r, "mirror") /\ UNCHANGED <<events, figures, current, seen, revived>>
    BY <1>3 DEF MoverSays, display, Halts
  <2>2. PICK a, c : Plans(r, [plan[r] EXCEPT !.amends = a, !.counts = c])
    <3>1. MoverSays(r) /\ ~Stops(r, "refused")
      BY <1>3 DEF Halts
    <3> QED BY ONLY <3>1, Zenon DEF MoverSays
  <2>3. plan'[r] = [plan[r] EXCEPT !.amends = a, !.counts = c]
    BY <1>1, <2>2 DEF Plans
  <2>4. "todo" \in DOMAIN plan[r]
    BY <1>1 DEF OneCard, Refiling
  <2>5. "todo" \in DOMAIN plan'[r] /\ plan'[r].todo = plan[r].todo
    BY <2>3, <2>4
  <2>6. pc'[r] = "mirror"
    BY <2>1 DEF Goes, CardInv, ArrangedInv, BaseInv, Controlled
  <2>7. OneCard(r)'
    BY <1>1, <2>5, <2>6 DEF OneCard, Refiling, Moves
  <2>8. ItsOwn(r)'
    <3>1. YetToCome(r) /\ BaseInv /\ OnceInv
      BY DEF CardInv, ArrangedInv, OnceInv, ItsOwn
    <3> QED BY <1>1, <2>1, <2>5, <2>6, <3>1, OwnChooses DEF YetToCome, Refiling
  <2> QED BY <1>1, <2>1, <2>2, <2>7, <2>8, StepGoes DEF CardSteps
<1> QED BY <1>2, <1>3

LEMMA SkipsStep ==
    ASSUME CardInv, CardsAssumption, NEW r \in Requests, Timed(r), Skips(r) PROVE CardInv'
<1> DEFINE left == Tail(plan[r].todo)
<1>1. pc[r] = "mirror" /\ DOMAIN plan = Requests /\ OneCard(r) /\ ~Moves(r)
  BY DEF Skips, At, CardInv, ArrangedInv, BaseInv, Controlled, MoveInv
<1>2. CASE Halts(r)
  BY <1>1, <1>2, StepHalts
<1>3. CASE left = <<>> /\ ~Halts(r)
  <2>1. Ends(r, "saved") /\ UNCHANGED <<events, figures, current, seen, revived>>
    BY <1>3 DEF Skips, MoverEnds, Halts
  <2> QED BY <1>1, <2>1, StepEnds DEF Hows
<1>4. CASE left # <<>>
  <2>1. Goes(r, "mirror") /\ UNCHANGED <<events, figures, current, seen, revived>> /\ Plans(r, [plan[r] EXCEPT !.todo = left])
    BY <1>4 DEF Skips, Keeps, rows, display, Halts
  <2>2. "todo" \in DOMAIN plan[r]
    BY <1>1 DEF OneCard, Refiling
  <2>3. "todo" \in DOMAIN plan'[r]
    BY <1>1, <2>1, <2>2 DEF Plans
  <2>4. pc'[r] = "mirror"
    BY <2>1 DEF Goes, CardInv, ArrangedInv, BaseInv, Controlled
  <2>5. OneCard(r)'
    BY <1>1, <2>3, <2>4 DEF OneCard, Moves
  <2>6. plan'[r].todo = left /\ BaseInv /\ OnceInv
    BY <1>1, <2>1, <2>2 DEF Plans, CardInv, ArrangedInv
  <2>7. ItsOwn(r)'
    BY <1>1, <1>4, <2>1, <2>4, <2>6, OwnGoesOn
  <2> QED BY <1>1, <2>1, <2>5, <2>7, StepGoes DEF CardSteps
<1> QED BY <1>2, <1>3, <1>4

LEMMA ListsStep ==
    ASSUME CardInv, CardsAssumption, NEW r \in Requests, Timed(r), Lists(r) PROVE CardInv'
<1>1. pc[r] = "list" /\ DOMAIN plan = Requests /\ OneCard(r)
  BY DEF Lists, At, CardInv, ArrangedInv, BaseInv, Controlled, MoveInv
<1>2. Goes(r, "file") /\ UNCHANGED <<events, figures, current, seen, revived>>
  BY DEF Lists, Keeps, rows, display
<1>3. PICK p : Plans(r, p) /\ "todo" \in DOMAIN p /\ p.todo = plan[r].todo
  BY DEF Lists
<1>4. plan'[r] = p
  BY <1>1, <1>3 DEF Plans
<1>5. pc'[r] = "file"
  BY <1>2 DEF Goes, CardInv, ArrangedInv, BaseInv, Controlled
<1>6. OneCard(r)'
  BY <1>1, <1>3, <1>4, <1>5 DEF OneCard, Refiling, Moves
<1>7. ItsOwn(r)'
  <2>1. ItsOwn(r) /\ Saved' = Saved
    BY <1>2 DEF CardInv, OnceInv, Goes, Saved
  <2>2. Yet(r)' /\ Righting(r)' /\ CopiedFrom(r)'
    BY <1>5 DEF Yet, Righting, CopiedFrom, Refiling
  <2>3. YetToCome(r)'
    BY <1>1, <1>2, <1>3, <1>4, <1>5, <2>1 DEF ItsOwn, YetToCome, Refiling, Of
  <2>4. GoneFrom(r)'
    BY <1>1, <1>2, <1>5, <2>1 DEF ItsOwn, GoneFrom, Moves, Carried, After, Rows
  <2> QED BY <2>2, <2>3, <2>4 DEF ItsOwn
<1> QED BY <1>1, <1>2, <1>3, <1>6, <1>7, StepGoes DEF CardSteps

LEMMA FilesStep ==
    ASSUME CardInv, CardsAssumption, NEW r \in Requests, Timed(r), Files(r) PROVE CardInv'
<1> DEFINE left == Tail(plan[r].todo)
<1>1. pc[r] = "file" /\ DOMAIN plan = Requests /\ OneCard(r)
  <2>1. pc[r] = "file"
    BY DEF Files, At
  <2> QED BY <2>1 DEF CardInv, ArrangedInv, BaseInv, Controlled, MoveInv
<1>2. CASE Halts(r)
  BY <1>1, <1>2, StepHalts
<1>3. CASE left = <<>> /\ ~Halts(r)
  <2>1. Ends(r, "saved") /\ UNCHANGED <<events, figures, current, seen, revived>>
    <3>1. Files(r) /\ ~Stops(r, "failed") /\ Tail(plan[r].todo) = <<>>
      BY <1>3 DEF Halts
    <3>2. MoverEnds(r) /\ UNCHANGED <<events, figures, current, seen, revived>>
      BY ONLY <3>1, Zenon DEF Files
    <3> QED BY <3>2 DEF MoverEnds
  <2> QED BY <1>1, <2>1, StepEnds DEF Hows
<1>4. CASE left # <<>> /\ ~Halts(r)
  <2>1. Goes(r, "mirror") /\ UNCHANGED <<events, figures, current, seen, revived>> /\ Plans(r, [plan[r] EXCEPT !.todo = left])
    <3>1. Files(r) /\ ~Stops(r, "failed") /\ Tail(plan[r].todo) # <<>>
      BY <1>4 DEF Halts
    <3> QED BY ONLY <3>1, Zenon DEF Files
  <2>2. "todo" \in DOMAIN plan[r] /\ ~Moves(r)
    <3>1. ASSUME NEW x, plan[r].todo = <<x>> PROVE FALSE
      BY <1>4, <3>1
    <3> QED BY <1>1, <3>1 DEF OneCard, Refiling
  <2>3. "todo" \in DOMAIN plan'[r]
    BY <1>1, <2>1, <2>2 DEF Plans
  <2>4. pc'[r] = "mirror"
    BY <2>1 DEF Goes, CardInv, ArrangedInv, BaseInv, Controlled
  <2>5. OneCard(r)'
    BY <2>2, <2>3, <2>4 DEF OneCard, Moves
  <2>6. plan'[r].todo = left /\ BaseInv /\ OnceInv
    BY <1>1, <2>1, <2>2 DEF Plans, CardInv, ArrangedInv
  <2>7. ItsOwn(r)'
    BY <1>1, <1>4, <2>1, <2>2, <2>4, <2>6, OwnGoesOn
  <2> QED BY <1>1, <2>1, <2>2, <2>5, <2>7, StepGoes DEF CardSteps
<1> QED BY <1>2, <1>3, <1>4

------------------------------------------------------------------------------
(* A step that adds looks and figures *)

LEMMA EmptyIs == Sequential(<<>>) /\ DOMAIN <<>> = {}
<1>1. <<>> \in Seq(Range(<<>>)) /\ DOMAIN <<>> = {}
  OBVIOUS
<1> QED BY <1>1 DEF Sequential

\* Looks and figures added at the end, under the request's name.
LEMMA GrowAdds ==
    ASSUME BaseInv, NEW r \in Requests, NEW es, NEW fs, Sequential(es), Sequential(fs),
           events' = events \o es, figures' = figures \o fs,
           \A i \in DOMAIN es : DOMAIN es[i] = EventFields /\ es[i].by = r,
           \A i \in DOMAIN fs :
              /\ DOMAIN fs[i] = FigureFields /\ fs[i].by = r
              /\ fs[i].event \in DOMAIN events' /\ events'[fs[i].event].by = r
              /\ fs[i].corrects \in {0} \cup DOMAIN figures /\ fs[i].retracts \in {0} \cup DOMAIN figures
    PROVE  Adds(r)
<1>1. Sequential(events) /\ Sequential(figures)
  BY DEF BaseInv, Filed
<1>2. /\ Sequential(events') /\ Sequential(figures')
      /\ \A e \in DOMAIN events : events'[e] = events[e]
      /\ \A f \in DOMAIN figures : figures'[f] = figures[f]
      /\ \A i \in DOMAIN es : events'[Len(events) + i] = es[i]
      /\ \A i \in DOMAIN fs : figures'[Len(figures) + i] = fs[i]
      /\ \A e \in DOMAIN events' : e \in DOMAIN events \/ \E i \in DOMAIN es : e = Len(events) + i
      /\ \A f \in DOMAIN figures' : f \in DOMAIN figures \/ \E i \in DOMAIN fs : f = Len(figures) + i
  <2>1. /\ Sequential(events')
        /\ \A e \in DOMAIN events : events'[e] = events[e]
        /\ \A i \in DOMAIN es : events'[Len(events) + i] = es[i]
        /\ \A e \in DOMAIN events' : e \in DOMAIN events \/ \E i \in DOMAIN es : e = Len(events) + i
    <3>1. Sequential(events) /\ Sequential(es) /\ events' = events \o es
      BY <1>1
    <3>2. Sequential(events')
      BY ONLY <3>1, JoinIs
    <3>3. \A e \in DOMAIN events : events'[e] = events[e]
      BY ONLY <3>1, JoinIs
    <3>4. \A i \in DOMAIN es : events'[Len(events) + i] = es[i]
      BY ONLY <3>1, JoinIs
    <3>5. \A e \in DOMAIN events' : e \in DOMAIN events \/ \E i \in DOMAIN es : e = Len(events) + i
      BY ONLY <3>1, JoinIs
    <3> QED BY <3>2, <3>3, <3>4, <3>5
  <2>2. /\ Sequential(figures')
        /\ \A f \in DOMAIN figures : figures'[f] = figures[f]
        /\ \A i \in DOMAIN fs : figures'[Len(figures) + i] = fs[i]
        /\ \A f \in DOMAIN figures' : f \in DOMAIN figures \/ \E i \in DOMAIN fs : f = Len(figures) + i
    <3>1. Sequential(figures) /\ Sequential(fs) /\ figures' = figures \o fs
      BY <1>1
    <3>2. Sequential(figures')
      BY ONLY <3>1, JoinIs
    <3>3. \A f \in DOMAIN figures : figures'[f] = figures[f]
      BY ONLY <3>1, JoinIs
    <3>4. \A i \in DOMAIN fs : figures'[Len(figures) + i] = fs[i]
      BY ONLY <3>1, JoinIs
    <3>5. \A f \in DOMAIN figures' : f \in DOMAIN figures \/ \E i \in DOMAIN fs : f = Len(figures) + i
      BY ONLY <3>1, JoinIs
    <3> QED BY <3>2, <3>3, <3>4, <3>5
  <2> QED BY <2>1, <2>2
<1>3. /\ Len(events) \in Nat /\ Len(es) \in Nat /\ Len(figures) \in Nat /\ Len(fs) \in Nat
      /\ DOMAIN events = 1..Len(events) /\ DOMAIN es = 1..Len(es) /\ DOMAIN events' = 1..(Len(events) + Len(es))
      /\ DOMAIN figures = 1..Len(figures) /\ DOMAIN fs = 1..Len(fs) /\ DOMAIN figures' = 1..(Len(figures) + Len(fs))
  BY <1>1, JoinIs
<1>4. DOMAIN events \subseteq DOMAIN events' /\ DOMAIN figures \subseteq DOMAIN figures'
  BY <1>3
<1>7. ASSUME NEW f \in DOMAIN figures' \ DOMAIN figures
      PROVE  /\ DOMAIN figures'[f] = FigureFields
             /\ figures'[f].event \in DOMAIN events' /\ figures'[f].by = r /\ events'[figures'[f].event].by = r
             /\ figures'[f].corrects \in 0..(f - 1) /\ figures'[f].retracts \in 0..(f - 1)
  <2>1. PICK i \in DOMAIN fs : f = Len(figures) + i
    BY <1>2
  <2>2. figures'[f] = fs[i]
    BY <1>2, <2>1
  <2>3. fs[i].corrects \in {0} \cup 1..Len(figures) /\ fs[i].retracts \in {0} \cup 1..Len(figures)
    BY <1>3
  <2>4. \A n \in {0} \cup 1..Len(figures) : n \in 0..(f - 1)
    BY <1>3, <2>1
  <2> QED BY <2>2, <2>3, <2>4
<1>8. \A e \in DOMAIN events' \ DOMAIN events : DOMAIN events'[e] = EventFields /\ events'[e].by = r
  BY <1>2
<1> QED BY <1>2, <1>4, <1>7, <1>8 DEF Adds

\* One figure of a metric in a look: those added among themselves, and with those there were.
LEMMA NewOfEach ==
    ASSUME BaseInv, NEW fs, Sequential(fs), figures' = figures \o fs,
           \A i, j \in DOMAIN fs : fs[i].event = fs[j].event /\ fs[i].metric = fs[j].metric
              => i = j \/ (fs[i].retracts # 0 /\ fs[j].retracts # 0),
           \A i \in DOMAIN fs, g \in DOMAIN figures : figures[g].event = fs[i].event => figures[g].metric # fs[i].metric
    PROVE  \A c \in DOMAIN figures' \ DOMAIN figures, g \in DOMAIN figures' :
              figures'[c].event = figures'[g].event /\ figures'[c].metric = figures'[g].metric
                  => c = g \/ (figures'[c].retracts # 0 /\ figures'[g].retracts # 0)
<1>1. Sequential(figures) /\ Sequential(fs) /\ figures' = figures \o fs
  BY DEF BaseInv, Filed
<1> SUFFICES ASSUME NEW c \in DOMAIN figures' \ DOMAIN figures, NEW g \in DOMAIN figures',
                    figures'[c].event = figures'[g].event, figures'[c].metric = figures'[g].metric
             PROVE  c = g \/ (figures'[c].retracts # 0 /\ figures'[g].retracts # 0)
  OBVIOUS
<1>2. CASE g \in DOMAIN figures
  <2>1. figures'[g] = figures[g]
    BY ONLY <1>1, <1>2, JoinIs
  <2>2. PICK i \in DOMAIN fs : figures'[c] = fs[i]
    BY ONLY <1>1, c \in DOMAIN figures' \ DOMAIN figures, JoinedNew
  <2> QED BY <1>2, <2>1, <2>2
<1>3. CASE g \notin DOMAIN figures
  <2>1. PICK i \in DOMAIN fs : c = Len(figures) + i
    BY ONLY <1>1, c \in DOMAIN figures' \ DOMAIN figures, JoinIs
  <2>2. PICK j \in DOMAIN fs : g = Len(figures) + j
    BY ONLY <1>1, <1>3, g \in DOMAIN figures', JoinIs
  <2>3. \A n \in DOMAIN fs : figures'[Len(figures) + n] = fs[n]
    BY ONLY <1>1, JoinIs
  <2> QED BY <2>1, <2>2, <2>3
<1> QED BY <1>2, <1>3

\* What corrects nothing and is in no mirror comes after nothing.
LEMMA NoneBefore ==
    ASSUME BaseInv, CardsAssumption, NEW r \in Requests, Turned(r), NEW c \in DOMAIN figures', figures'[c].corrects = 0,
           events'[figures'[c].event].from = 0 \/ (figures'[c].by = r /\ ~Moves(r)), NEW f \in DOMAIN figures'
    PROVE  ~Heir(f, c)'
<1>1. BaseInv'
  BY BaseKept
<1>2. f \in 1..Len(figures') /\ Len(figures') \in Nat
  BY <1>1 DEF BaseInv, Filed, Sequential
<1>3. figures'[f].event \in 1..Len(events') /\ Len(events') \in Nat
  BY <1>1 DEF BaseInv, Filed, Sequential
<1>4. f # 0 /\ figures'[f].event # 0
  BY <1>2, <1>3
<1> QED BY <1>4 DEF Heir, Carried, Moves

\* A request that was not at a last step goes to "put" having added what it took.
LEMMA RecordedKeeps ==
    ASSUME CardInv, CardsAssumption, NEW r \in Requests, NEW of, NEW taken, IsFiniteSet(DOMAIN taken),
           Timed(r), pc[r] = "new", ~Moves(r), Recorded(r, of, taken),
           of.level = "each" => \A m \in DOMAIN taken : m \in Sizes /\ taken[m] # None => Ask[r].arranged
    PROVE  CardInv'
<1> DEFINE mets == SetToSeq(DOMAIN taken)
           ev   == Event(r, of, Ask[r].day, Ask[r].arranged, 0)
           fs   == [i \in DOMAIN mets |-> Figure(r, Len(events) + 1, mets[i], taken[mets[i]])]
<1>1. BaseInv /\ OnceInv /\ pc[r] # "ended"
  BY DEF CardInv, ArrangedInv
<1>2. /\ events' = Append(events, ev) /\ figures' = figures \o fs
      /\ Goes(r, "put") /\ UNCHANGED <<plan, current, seen, revived>>
  BY DEF Recorded, display
<1>3. Sequential(mets) /\ IsInjective(mets) /\ \A i \in DOMAIN mets : mets[i] \in DOMAIN taken
  BY ListedOnce
<1>4. Sequential(fs) /\ DOMAIN fs = DOMAIN mets
  <2>1. DOMAIN fs = DOMAIN mets /\ fs = [i \in DOMAIN fs |-> fs[i]]
    OBVIOUS
  <2> HIDE DEF mets, fs
  <2> QED BY <1>3, <2>1, MapIs
<1>5. Sequential(<<ev>>) /\ DOMAIN <<ev>> = {1} /\ <<ev>>[1] = ev
  <2>1. DOMAIN <<ev>> = 1..1 /\ <<ev>> = [i \in DOMAIN <<ev>> |-> <<ev>>[i]] /\ 1 \in Nat
    OBVIOUS
  <2>2. Sequential(<<ev>>)
    BY <2>1, ListIs
  <2> QED BY <2>2
<1>6. events' = events \o <<ev>>
  <2> HIDE DEF ev
  <2>1. events \in Seq(Range(events) \cup {ev})
    BY <1>1, SeqMonotonic DEF BaseInv, Filed, Sequential
  <2> QED BY <1>2, <2>1
<1>7. /\ DOMAIN ev = EventFields /\ ev.by = r /\ ev.from = 0 /\ ev.of = of /\ ev.arranged = Ask[r].arranged
      /\ \A i \in DOMAIN fs :
            /\ DOMAIN fs[i] = FigureFields /\ fs[i].by = r /\ fs[i].event = Len(events) + 1
            /\ fs[i].corrects = 0 /\ fs[i].retracts = 0
            /\ fs[i].metric = mets[i] /\ fs[i].value = taken[mets[i]]
  BY DEF Event, Figure, EventFields, FigureFields
<1> HIDE DEF fs, ev, mets
<1>8. Len(events) + 1 \in DOMAIN events' /\ events'[Len(events) + 1] = ev /\ Len(events) + 1 \notin DOMAIN events
  <2>1. Sequential(events)
    BY <1>1 DEF BaseInv, Filed
  <2>2. /\ \A i \in DOMAIN <<ev>> : events'[Len(events) + i] = <<ev>>[i]
        /\ DOMAIN events' = 1..(Len(events) + Len(<<ev>>)) /\ DOMAIN <<ev>> = 1..Len(<<ev>>)
        /\ DOMAIN events = 1..Len(events) /\ Len(events) \in Nat /\ Len(<<ev>>) \in Nat
    BY <1>5, <1>6, <2>1, JoinIs
  <2>3. Len(<<ev>>) = 1
    OBVIOUS
  <2> QED BY <1>5, <2>2, <2>3
<1>9. /\ Adds(r)
      /\ \A e \in DOMAIN events' \ DOMAIN events : events'[e] = ev
      /\ \A f \in DOMAIN figures' \ DOMAIN figures : \E i \in DOMAIN fs : figures'[f] = fs[i]
  <2>1. \A i \in DOMAIN <<ev>> : DOMAIN <<ev>>[i] = EventFields /\ <<ev>>[i].by = r /\ <<ev>>[i] = ev
    BY <1>5, <1>7
  <2>2. \A i \in DOMAIN fs :
           /\ DOMAIN fs[i] = FigureFields /\ fs[i].by = r
           /\ fs[i].event \in DOMAIN events' /\ events'[fs[i].event].by = r
           /\ fs[i].corrects \in {0} \cup DOMAIN figures /\ fs[i].retracts \in {0} \cup DOMAIN figures
    BY <1>7, <1>8
  <2> DEFINE es == <<ev>>
  <2>3. Sequential(es) /\ events' = events \o es /\ \A i \in DOMAIN es : DOMAIN es[i] = EventFields /\ es[i].by = r /\ es[i] = ev
    BY <1>5, <1>6, <2>1
  <2> HIDE DEF es
  <2>4. /\ Adds(r)
        /\ \A e \in DOMAIN events' \ DOMAIN events : \E i \in DOMAIN es : events'[e] = es[i]
        /\ \A f \in DOMAIN figures' \ DOMAIN figures : \E i \in DOMAIN fs : figures'[f] = fs[i]
    <3>1. /\ BaseInv /\ r \in Requests /\ Sequential(es) /\ Sequential(fs)
          /\ events' = events \o es /\ figures' = figures \o fs
          /\ \A i \in DOMAIN es : DOMAIN es[i] = EventFields /\ es[i].by = r
      BY <1>1, <1>2, <1>4, <2>3
    <3>2. Adds(r)
      BY ONLY <3>1, <2>2, GrowAdds
    <3>3. Sequential(events) /\ Sequential(figures)
      BY <1>1 DEF BaseInv, Filed
    <3>4. \A e \in DOMAIN events' \ DOMAIN events : \E i \in DOMAIN es : events'[e] = es[i]
      BY ONLY <3>1, <3>3, JoinedNew
    <3>5. \A f \in DOMAIN figures' \ DOMAIN figures : \E i \in DOMAIN fs : figures'[f] = fs[i]
      BY ONLY <3>1, <3>3, JoinedNew
    <3> QED BY <3>2, <3>4, <3>5
  <2> QED BY <2>3, <2>4
<1>10. Turn(r) /\ pc'[r] = "put"
  BY <1>1, <1>2, GoingTurns DEF CardSteps
<1>11. Turned(r)
  BY <1>1, <1>2, <1>9, <1>10 DEF Turned, Sees, BaseInv, Controlled
<1>12. SaysHow
  <2>1. ASSUME NEW f \in DOMAIN figures' \ DOMAIN figures PROVE figures'[f].corrects = 0 /\ SizeSaid(f)'
    <3>1. PICK i \in DOMAIN fs : figures'[f] = fs[i]
      BY <1>9
    <3>2. mets[i] \in DOMAIN taken
      BY <1>3, <1>4, <3>1
    <3> QED BY <1>7, <1>8, <3>1, <3>2 DEF SizeSaid, Of
  <2>2. \A e \in DOMAIN events' \ DOMAIN events : events'[e].from = 0
    BY <1>7, <1>9
  <2> QED BY <2>1, <2>2 DEF SaysHow
<1>13. \A x \in DOMAIN figures' \ DOMAIN figures : RetractedLast(x)'
  BY <1>7, <1>9 DEF RetractedLast
<1>14. LastStays(r) /\ OneCard(r)' /\ MirroredFirst(r)' /\ CopiedThen(r)'
  BY <1>10 DEF LastStays, OneCard, MirroredFirst, CopiedThen, Refiling
<1>15. ArrangedInv'
  BY <1>10, <1>11, <1>12, ArrangedKept DEF CardInv
<1>16. MoveInv'
  BY <1>11, <1>13, <1>14, MoveKept DEF CardInv
<1>17. ItsOwn(r)'
  BY <1>10 DEF ItsOwn, Yet, Righting, YetToCome, CopiedFrom, GoneFrom, Refiling, Moves
<1>18. NewLooks(r)
  BY <1>7, <1>9 DEF NewLooks
<1>19. NewFigures(r)
  <2>1. \A i, j \in DOMAIN fs : fs[i].event = fs[j].event /\ fs[i].metric = fs[j].metric => i = j
    BY <1>3, <1>4, <1>7 DEF IsInjective
  <2>2. \A i \in DOMAIN fs, g \in DOMAIN figures : figures[g].event # fs[i].event
    BY <1>1, <1>7, <1>8 DEF BaseInv, Filed
  <2>3. Sequential(fs) /\ figures' = figures \o fs
    BY <1>2, <1>4
  <2>4. \A c \in DOMAIN figures' \ DOMAIN figures, g \in DOMAIN figures' :
           figures'[c].event = figures'[g].event /\ figures'[c].metric = figures'[g].metric
               => c = g \/ (figures'[c].retracts # 0 /\ figures'[g].retracts # 0)
    BY ONLY <1>1, <2>1, <2>2, <2>3, NewOfEach
  <2>5. \A c \in DOMAIN figures' \ DOMAIN figures : figures'[c].corrects = 0 /\ figures'[c].by = r
    BY <1>7, <1>9
  <2>6. \A c \in DOMAIN figures' \ DOMAIN figures, f \in DOMAIN figures' : ~Heir(f, c)'
    BY <1>1, <1>11, <2>5, NoneBefore
  <2> QED BY <2>4, <2>6 DEF NewFigures
<1>20. OnceInv'
  BY <1>1, <1>2, <1>11, <1>17, <1>18, <1>19, OnceKept
<1> QED BY <1>15, <1>16, <1>20 DEF CardInv

LEMMA LevelIs == ASSUME NEW r, NEW card, NEW day PROVE ObservableFor(r, card, day).level = card.level /\ ObservableFor(r, card, day).item = card.item
BY DEF ObservableFor

LEMMA TakesStep ==
    ASSUME CardInv, CardsAssumption, AskAssumption, NEW r \in Requests, Timed(r),
           LookTakes(r) \/ EvidenceTakes(r) \/ WeighTakes(r)
    PROVE  CardInv'
<1> DEFINE of == ObservableFor(r, Ask[r].card, Ask[r].day)
<1>1. pc[r] = "new" /\ pc[r] \notin {"retract", "ended"} /\ ~Moves(r)
  BY DEF LookTakes, EvidenceTakes, WeighTakes, Begins, Moves
<1>2. CASE Halts(r)
  BY <1>1, <1>2, StepHalts
<1>3. CASE ~Halts(r)
  <2>0. of.level = Ask[r].card.level
    BY LevelIs
  <2>1. CASE LookTakes(r)
    <3>1. Recorded(r, of, Ask[r].figures) /\ ~Unarranged(Ask[r])
      BY <1>3, <2>1 DEF LookTakes, Halts
    <3>2. IsFiniteSet(DOMAIN Ask[r].figures) /\ Ask[r].arranged \in BOOLEAN
      BY <2>1 DEF LookTakes, Begins, AskAssumption
    <3>3. of.level = "each" => \A m \in DOMAIN Ask[r].figures : m \in Sizes /\ Ask[r].figures[m] # None => Ask[r].arranged
      BY <2>0, <3>1, <3>2 DEF Unarranged
    <3> HIDE DEF of
    <3> QED BY <1>1, <3>1, <3>2, <3>3, RecordedKeeps
  <2>2. CASE EvidenceTakes(r)
    <3>1. Recorded(r, of, <<>>)
      BY <1>3, <2>2 DEF EvidenceTakes, Halts
    <3>2. IsFiniteSet(DOMAIN <<>>) /\ \A m \in DOMAIN <<>> : FALSE
      BY EmptyIs, FS_EmptySet
    <3> HIDE DEF of
    <3> QED BY <1>1, <3>1, <3>2, RecordedKeeps
  <2>3. CASE WeighTakes(r)
    <3>1. Recorded(r, of, Ask[r].figures)
      BY <1>3, <2>3 DEF WeighTakes, Halts
    <3>2. IsFiniteSet(DOMAIN Ask[r].figures)
      BY <2>3 DEF WeighTakes, Begins, AskAssumption
    <3>3. of.level = "each" => \A m \in DOMAIN Ask[r].figures : m \in Sizes /\ Ask[r].figures[m] # None => Ask[r].arranged
      <4>1. DOMAIN Ask[r].figures = {"weight"}
        BY <2>3 DEF WeighTakes, Begins, AskAssumption
      <4> QED BY <4>1 DEF Sizes
    <3> HIDE DEF of
    <3> QED BY <1>1, <3>1, <3>2, <3>3, RecordedKeeps
  <2> QED BY <2>1, <2>2, <2>3
<1> QED BY <1>2, <1>3

LEMMA CorrectPutsStep ==
    ASSUME CardInv, CardsAssumption, AskAssumption, NEW r \in Requests, Timed(r), CorrectPuts(r) PROVE CardInv'
<1> DEFINE L == {figures[f].event : f \in plan[r]}
           wrong == SetToSeq(plan[r])
           looks == SetToSeq(L)
           Place(f) == CHOOSE i \in DOMAIN looks : looks[i] = figures[f].event
           Into(f) == Len(events) + Place(f)
           es == [i \in DOMAIN looks |-> [events[looks[i]] EXCEPT !.by = r, !.from = 0]]
           fs == [i \in DOMAIN wrong |->
                    [Figure(r, Into(wrong[i]), figures[wrong[i]].metric, Ask[r].figures[figures[wrong[i]].metric])
                        EXCEPT !.corrects = wrong[i]]]
<1>1. BaseInv /\ OnceInv /\ pc[r] = "correct" /\ Wrongly(r)
  <2>1. pc[r] = "correct"
    BY Zenon DEF CorrectPuts, At
  <2> QED BY <2>1 DEF CardInv, ArrangedInv, Wrong
<1>2. CASE Halts(r)
  BY <1>1, <1>2, StepHalts
<1>3. CASE ~Halts(r)
  <2>1. /\ events' = events \o es /\ figures' = figures \o fs
        /\ Ends(r, "saved") /\ UNCHANGED <<current, seen, before>>
        /\ revived' = revived \cup {f \in plan[r] : Retracted(f, Rows(None, figures))}
    <3>1. CorrectPuts(r) /\ ~Stops(r, "told")
      BY <1>3 DEF Halts
    <3> QED BY ONLY <3>1, Zenon DEF CorrectPuts, At
  <2>2. /\ Sequential(events) /\ Sequential(figures) /\ plan[r] \subseteq DOMAIN figures /\ L \subseteq DOMAIN events
        /\ IsFiniteSet(plan[r]) /\ IsFiniteSet(L)
    <3>1. Sequential(events) /\ Sequential(figures) /\ plan[r] \subseteq DOMAIN figures
      BY <1>1 DEF Wrongly, BaseInv, Filed
    <3>2. L \subseteq DOMAIN events
      BY <1>1, <3>1 DEF BaseInv, Filed
    <3> HIDE DEF L
    <3> QED BY <3>1, <3>2, SomeOf
  <2>3. /\ Sequential(looks) /\ Sequential(wrong) /\ IsInjective(wrong)
        /\ \A i \in DOMAIN looks : looks[i] \in L
        /\ \A x \in L : \E i \in DOMAIN looks : looks[i] = x
        /\ \A i \in DOMAIN wrong : wrong[i] \in plan[r]
    <3> HIDE DEF L
    <3> QED BY <2>2, ListedOnce
  <2>4. \A f \in plan[r] : Place(f) \in DOMAIN looks /\ looks[Place(f)] = figures[f].event
    <3> HIDE DEF looks
    <3> QED BY <2>3
  <2>5. /\ Sequential(es) /\ DOMAIN es = DOMAIN looks
        /\ Sequential(fs) /\ DOMAIN fs = DOMAIN wrong
    <3>1. DOMAIN es = DOMAIN looks /\ es = [i \in DOMAIN es |-> es[i]]
      OBVIOUS
    <3>2. DOMAIN fs = DOMAIN wrong /\ fs = [i \in DOMAIN fs |-> fs[i]]
      OBVIOUS
    <3> HIDE DEF es, fs, looks, wrong
    <3> QED BY <2>3, <3>1, <3>2, MapIs
  <2>a. \A i \in DOMAIN es : es[i] = [events[looks[i]] EXCEPT !.by = r, !.from = 0]
    BY ONLY <2>5, Zenon
  <2>b. \A i \in DOMAIN fs :
           fs[i] = [Figure(r, Into(wrong[i]), figures[wrong[i]].metric, Ask[r].figures[figures[wrong[i]].metric])
                        EXCEPT !.corrects = wrong[i]]
    BY ONLY <2>5, Zenon
  <2> HIDE DEF es, fs, Place, wrong, looks, L
  <2>6. ASSUME NEW i \in DOMAIN es
        PROVE  /\ DOMAIN es[i] = EventFields /\ es[i].by = r /\ es[i].from = 0
               /\ es[i].of = events[looks[i]].of /\ es[i].arranged = events[looks[i]].arranged
    <3>1. looks[i] \in DOMAIN events
      BY ONLY <2>2, <2>3, <2>5, i \in DOMAIN es
    <3>2. DOMAIN events[looks[i]] = {"by", "of", "day", "arranged", "from"}
      BY <1>1, <3>1 DEF BaseInv, Filed, EventFields
    <3>3. es[i] = [events[looks[i]] EXCEPT !.by = r, !.from = 0]
      BY ONLY <2>a, i \in DOMAIN es, Zenon
    <3> QED BY <3>2, <3>3 DEF EventFields
  <2>7. ASSUME NEW i \in DOMAIN fs
        PROVE  /\ DOMAIN fs[i] = FigureFields /\ fs[i].by = r /\ fs[i].event = Into(wrong[i])
               /\ fs[i].corrects = wrong[i] /\ fs[i].retracts = 0
               /\ fs[i].metric = figures[wrong[i]].metric /\ fs[i].value = Ask[r].figures[figures[wrong[i]].metric]
    <3>1. fs[i] = [Figure(r, Into(wrong[i]), figures[wrong[i]].metric, Ask[r].figures[figures[wrong[i]].metric])
                        EXCEPT !.corrects = wrong[i]]
      BY ONLY <2>b, i \in DOMAIN fs, Zenon
    <3> HIDE DEF Into
    <3> QED BY <3>1 DEF Figure, FigureFields
  <2>8. ASSUME NEW f \in plan[r]
        PROVE  /\ Into(f) \in DOMAIN events' /\ Into(f) \notin DOMAIN events /\ events'[Into(f)].by = r
               /\ events'[Into(f)].of = Of(f) /\ events'[Into(f)].arranged = events[figures[f].event].arranged
    <3>1. Place(f) \in DOMAIN es
      BY <2>4, <2>5
    <3>2. Into(f) \in DOMAIN events' /\ Into(f) \notin DOMAIN events /\ events'[Into(f)] = es[Place(f)]
      BY <2>1, <2>2, <2>5, <3>1, JoinedAt
    <3> QED BY <2>4, <2>6, <3>1, <3>2 DEF Of
  <2>9. \A e \in DOMAIN events' \ DOMAIN events : \E i \in DOMAIN es : events'[e] = es[i]
    BY <2>1, <2>2, <2>5, JoinedNew
  <2>10. \A f \in DOMAIN figures' \ DOMAIN figures : \E i \in DOMAIN fs : figures'[f] = fs[i]
    <3>1. Sequential(figures) /\ Sequential(fs) /\ figures' = figures \o fs
      BY <2>1, <2>2, <2>5
    <3> QED BY ONLY <3>1, JoinedNew
  <2>11. Adds(r)
    <3>1. \A i \in DOMAIN es : DOMAIN es[i] = EventFields /\ es[i].by = r
      BY <2>6
    <3>2. \A i \in DOMAIN fs :
             /\ DOMAIN fs[i] = FigureFields /\ fs[i].by = r
             /\ fs[i].event \in DOMAIN events' /\ events'[fs[i].event].by = r
             /\ fs[i].corrects \in {0} \cup DOMAIN figures /\ fs[i].retracts \in {0} \cup DOMAIN figures
      BY <2>2, <2>3, <2>5, <2>7, <2>8
    <3>3. Sequential(es) /\ Sequential(fs) /\ events' = events \o es /\ figures' = figures \o fs /\ BaseInv
      BY <1>1, <2>1, <2>5
    <3> QED BY ONLY r \in Requests, <3>1, <3>2, <3>3, GrowAdds
  <2>12. Turn(r) /\ pc'[r] = "ended"
    BY <1>1, <2>1, EndingTurns DEF Hows
  <2>13. Turned(r)
    BY <1>1, <2>1, <2>11, <2>12 DEF Turned, Sees, BaseInv, Controlled
  <2>14. SaysHow
    <3>1. ASSUME NEW f \in DOMAIN figures' \ DOMAIN figures
          PROVE  /\ figures'[f].value # None /\ figures'[f].metric = figures'[figures'[f].corrects].metric
                 /\ SizeSaid(f)'
      <4>1. PICK i \in DOMAIN fs : figures'[f] = fs[i]
        BY <2>10
      <4>2. PICK w : w = wrong[i]
        OBVIOUS
      <4>3. w \in plan[r] /\ w \in DOMAIN figures /\ figures'[w] = figures[w]
        BY <2>2, <2>3, <2>5, <2>11, <4>2 DEF Adds
      <4>4. /\ figures'[f].event = Into(w) /\ figures'[f].corrects = w
            /\ figures'[f].metric = figures[w].metric /\ figures'[f].value = Ask[r].figures[figures[w].metric]
        BY <2>7, <4>1, <4>2
      <4>5. figures[w].value # None /\ figures[w].metric \in DOMAIN Ask[r].figures /\ Ask[r].kind = "correct"
        BY <1>1, <4>3 DEF Wrongly
      <4>6. figures'[f].value # None
        BY <4>4, <4>5 DEF AskAssumption
      <4>7. SizeSaid(w)
        BY <4>3 DEF CardInv, ArrangedInv, SizesSaid
      <4>8. SizeSaid(f)'
        BY <2>8, <4>3, <4>4, <4>5, <4>7 DEF SizeSaid, Of
      <4> QED BY <4>3, <4>4, <4>6, <4>8
    <3>2. \A e \in DOMAIN events' \ DOMAIN events : events'[e].from = 0
      BY <2>6, <2>9
    <3> QED BY <3>1, <3>2 DEF SaysHow
  <2>15. \A x \in DOMAIN figures' \ DOMAIN figures : RetractedLast(x)'
    BY <2>7, <2>10 DEF RetractedLast
  <2>16. LastStays(r) /\ OneCard(r)' /\ MirroredFirst(r)' /\ CopiedThen(r)'
    BY <1>1, <2>12 DEF LastStays, OneCard, MirroredFirst, CopiedThen, Refiling
  <2>17. ArrangedInv'
    BY <2>12, <2>13, <2>14, ArrangedKept DEF CardInv
  <2>18. MoveInv'
    BY <2>13, <2>15, <2>16, MoveKept DEF CardInv
  <2>19. ~Moves(r) /\ Righting(r) /\ \A f \in DOMAIN figures : figures[f].by # r
    BY <1>1 DEF Wrongly, Moves, OnceInv, ItsOwn, Yet, BaseInv, Filed
  <2>20. ItsOwn(r)'
    BY <2>12, <2>19 DEF ItsOwn, Yet, Righting, YetToCome, CopiedFrom, GoneFrom, Refiling, Moves
  <2>21. NewLooks(r)
    BY <2>6, <2>9 DEF NewLooks
  <2>22. ASSUME NEW c \in DOMAIN figures' \ DOMAIN figures, NEW g \in DOMAIN figures',
                figures'[c].event = figures'[g].event, figures'[c].metric = figures'[g].metric
         PROVE  c = g
    <3>1. ASSUME NEW i \in DOMAIN fs, NEW j \in DOMAIN fs, fs[i].metric = fs[j].metric PROVE i = j
      <4>1. wrong[i] \in plan[r] /\ wrong[j] \in plan[r] /\ figures[wrong[i]].metric = figures[wrong[j]].metric
        BY <2>3, <2>5, <2>7, <3>1
      <4>2. wrong[i] = wrong[j]
        BY <1>1, <2>19, <4>1 DEF Righting
      <4> QED BY <2>3, <2>5, <4>2 DEF IsInjective
    <3>2. \A i \in DOMAIN fs : fs[i].event \notin DOMAIN events /\ fs[i].retracts = 0
      BY <2>3, <2>5, <2>7, <2>8
    <3>3. \A i \in DOMAIN fs, x \in DOMAIN figures : figures[x].event # fs[i].event
      BY <1>1, <3>2 DEF BaseInv, Filed
    <3>4. Sequential(fs) /\ figures' = figures \o fs
      BY <2>1, <2>5
    <3>5. c = g \/ (figures'[c].retracts # 0 /\ figures'[g].retracts # 0)
      BY ONLY <1>1, <2>22, <3>1, <3>3, <3>4, c \in DOMAIN figures' \ DOMAIN figures, g \in DOMAIN figures', NewOfEach
    <3> QED BY <2>10, <3>2, <3>5
  <2>23. ASSUME NEW c \in DOMAIN figures' \ DOMAIN figures, NEW f \in DOMAIN figures', Heir(f, c)'
         PROVE  /\ f \in plan[r] /\ f \in DOMAIN figures
                /\ \A d \in DOMAIN figures' \ DOMAIN figures : Heir(f, d)' => d = c
    <3>1. ASSUME NEW d \in DOMAIN figures' \ DOMAIN figures, Heir(f, d)'
          PROVE  \E i \in DOMAIN fs : figures'[d] = fs[i] /\ wrong[i] = f
      <4>1. PICK i \in DOMAIN fs : figures'[d] = fs[i]
        BY <2>10
      <4>2. figures'[d].by = r /\ figures'[d].corrects = wrong[i]
        BY <2>7, <4>1
      <4>3. figures'[d].corrects = f
        BY <2>19, <3>1, <4>2 DEF Heir, Carried, Moves
      <4> QED BY <4>1, <4>2, <4>3
    <3>2. PICK i \in DOMAIN fs : figures'[c] = fs[i] /\ wrong[i] = f
      BY <2>23, <3>1
    <3>3. ASSUME NEW d \in DOMAIN figures' \ DOMAIN figures, Heir(f, d)' PROVE d = c
      <4>1. PICK j \in DOMAIN fs : figures'[d] = fs[j] /\ wrong[j] = f
        BY <3>1, <3>3
      <4>2. i = j
        BY <2>3, <2>5, <3>2, <4>1 DEF IsInjective
      <4> QED BY <2>22, <3>2, <4>1, <4>2
    <3> QED BY <2>2, <2>3, <2>5, <3>2, <3>3
  <2>24. NewFigures(r)
    <3>1. ASSUME NEW c \in DOMAIN figures' \ DOMAIN figures, NEW f \in DOMAIN figures', Heir(f, c)', f \notin revived',
                 NEW d \in DOMAIN figures', Heir(f, d)', d # c
          PROVE  d \in DOMAIN figures /\ figures[d].by \notin (Saved \cap before'[r]) \cup {r}
      <4>1. f \in plan[r] /\ f \in DOMAIN figures /\ d \in DOMAIN figures
        BY <2>23, <3>1
      <4>2. figures[d].by # r
        BY <2>19, <4>1
      <4>3. Heir(f, d)
        BY <1>1, <2>13, <3>1, <4>1, OldHeir
      <4>4. ~Retracted(f, Rows(None, figures))
        BY <2>1, <3>1, <4>1
      <4>5. ASSUME figures[d].by \in Saved \cap before[r] PROVE FALSE
        <5>1. figures[d].corrects # f /\ (Carried(f, d) => Retracted(f, Rows(None, figures)))
          BY <1>1, <2>19, <4>1, <4>5 DEF Righting
        <5> QED BY <4>3, <4>4, <5>1 DEF Heir
      <4> QED BY <2>1, <4>1, <4>2, <4>5
    <3> QED BY <2>22, <2>23, <3>1 DEF NewFigures
  <2>25. OnceInv'
    BY <1>1, <2>1, <2>13, <2>20, <2>21, <2>24, OnceKept
  <2> QED BY <2>17, <2>18, <2>25 DEF CardInv
<1> QED BY <1>2, <1>3

LEMMA NothingJoined == ASSUME NEW s, Sequential(s) PROVE s = s \o <<>>
<1>1. s \in Seq(Range(s)) /\ DOMAIN <<>> = {}
  BY DEF Sequential
<1> QED BY <1>1

LEMMA MirrorsStep ==
    ASSUME CardInv, CardsAssumption, NEW r \in Requests, Timed(r), Mirrors(r) PROVE CardInv'
<1> DEFINE do == plan[r].todo[1]
           target == ObservableFor(r, do.to, Ask[r].day)
           M == {e \in Rows(r, events) :
                   /\ IsCard(events[e].of, do.from)
                   /\ \/ \E f \in LiveOn(r, do.from) : figures[f].event = e
                      \/ \E p \in PhotosOn(r, do.from) : photos[p].event = e
                   /\ ~(~Moves(r) /\ \E d \in Rows(r, events) : events[d].from = e /\ events[d].of = target)}
           looks == Mirrored(r, target)
           es == [i \in DOMAIN looks |->
                    Event(r, target, events[looks[i]].day,
                          Arranged(do.from.level, do.to.level, events[looks[i]].arranged), looks[i])]
<1>1. BaseInv /\ OnceInv /\ pc[r] = "mirror" /\ OneCard(r) /\ Sequential(events) /\ Sequential(figures)
  <2>1. pc[r] = "mirror"
    BY Zenon DEF Mirrors, At
  <2> QED BY <2>1 DEF CardInv, ArrangedInv, MoveInv, BaseInv, Filed
<1>2. CASE Halts(r)
  BY <1>1, <1>2, StepHalts
<1>3. CASE ~Halts(r)
  <2>1. /\ events' = events \o es /\ UNCHANGED <<figures, plan, current, revived>>
        /\ seen' = [seen EXCEPT ![r] = Saved] /\ Goes(r, "copy")
    <3>1. Mirrors(r) /\ ~Stops(r, "refused")
      BY <1>3 DEF Halts
    <3> QED BY ONLY <3>1, Zenon DEF Mirrors, display
  <2>2. M \subseteq DOMAIN events /\ looks = SetToSeq(M)
    BY DEF Rows, Mirrored
  <2>3. target.item = do.to.item /\ target.level = do.to.level
    BY LevelIs
  <2>4. \A i : Arranged(do.from.level, "each", i) = TRUE
    BY DEF Arranged
  <2> HIDE DEF looks, target
  <2>5. /\ Sequential(looks) /\ IsInjective(looks) /\ \A i \in DOMAIN looks : looks[i] \in M
        /\ \A x \in M : \E i \in DOMAIN looks : looks[i] = x
    <3> HIDE DEF M
    <3>1. IsFiniteSet(M)
      BY <1>1, <2>2, SomeOf
    <3> QED BY <2>2, <3>1, ListedOnce
  <2>6. Sequential(es) /\ DOMAIN es = DOMAIN looks
    <3>1. DOMAIN es = DOMAIN looks /\ es = [i \in DOMAIN es |-> es[i]]
      OBVIOUS
    <3> HIDE DEF es
    <3> QED BY <2>5, <3>1, MapIs
  <2>7. ASSUME NEW i \in DOMAIN es
        PROVE  /\ DOMAIN es[i] = EventFields /\ es[i].by = r /\ es[i].from = looks[i] /\ es[i].of = target
               /\ do.to.level = "each" => es[i].arranged
    BY <2>4, <2>6 DEF Event, EventFields
  <2> HIDE DEF es, M
  <2>8. Adds(r)
    <3>1. figures' = figures \o <<>>
      BY <1>1, <2>1, NothingJoined
    <3>2. Sequential(<<>>) /\ \A i \in DOMAIN <<>> : FALSE
      BY EmptyIs
    <3>3. Sequential(es) /\ \A i \in DOMAIN es : DOMAIN es[i] = EventFields /\ es[i].by = r
      BY <2>6, <2>7
    <3> DEFINE fs == <<>>
    <3>4. \A i \in DOMAIN fs :
             /\ DOMAIN fs[i] = FigureFields /\ fs[i].by = r
             /\ fs[i].event \in DOMAIN events' /\ events'[fs[i].event].by = r
             /\ fs[i].corrects \in {0} \cup DOMAIN figures /\ fs[i].retracts \in {0} \cup DOMAIN figures
      BY <3>2
    <3>5. Sequential(fs) /\ figures' = figures \o fs
      BY <3>1, <3>2
    <3> HIDE DEF fs
    <3>6. BaseInv /\ events' = events \o es
      BY <1>1, <2>1
    <3> QED BY ONLY r \in Requests, <3>3, <3>4, <3>5, <3>6, GrowAdds
  <2>9. Turn(r) /\ pc'[r] = "copy"
    BY <1>1, <2>1, GoingTurns DEF CardSteps
  <2>10. Turned(r) /\ seen'[r] = Saved
    BY <1>1, <2>1, <2>8, <2>9 DEF Turned, Sees, BaseInv, Controlled
  <2>11. SaysHow
    <3>1. ASSUME NEW e \in DOMAIN events' \ DOMAIN events, events'[e].of.level = "each" PROVE events'[e].arranged
      <4>1. PICK i \in DOMAIN es : events'[e] = es[i]
        BY <1>1, <2>1, <2>6, JoinedNew
      <4> QED BY <2>3, <2>7, <3>1, <4>1
    <3> QED BY <2>1, <3>1 DEF SaysHow
  <2>12. MirroredFirst(r)'
    <3> SUFFICES ASSUME Moves(r), NEW f \in DOMAIN figures', Took(r, f)' PROVE Mirror(r, figures[f].event)' # {}
      BY DEF MirroredFirst, Moves
    <3>1. do.from = Ask[r].from
      BY <1>1 DEF OneCard, Refiling
    <3>2. f \in DOMAIN figures /\ f \in LiveOn(r, do.from)
      BY <1>1, <2>10, <3>1, OldLive DEF Took
    <3>3. PICK e : e = figures[f].event
      OBVIOUS
    <3>4. e \in M
      <4>1. e \in DOMAIN events /\ events[e].by = figures[f].by
        BY <1>1, <3>2, <3>3 DEF BaseInv, Filed
      <4>2. figures[f].by \in Saved \cup {r} /\ IsCard(events[e].of, do.from)
        BY <3>2, <3>3 DEF LiveOn, Rows, Of
      <4>3. e \in Rows(r, events)
        BY <4>1, <4>2 DEF Rows
      <4> QED BY <3>2, <3>3, <4>2, <4>3 DEF M
    <3>5. PICK i \in DOMAIN looks : looks[i] = e
      BY <2>5, <3>4
    <3>6. Len(events) + i \in DOMAIN events' /\ events'[Len(events) + i] = es[i]
      BY <1>1, <2>1, <2>6, <3>5, JoinedAt
    <3>7. es[i].by = r /\ es[i].from = e /\ IsCard(es[i].of, plan'[r].todo[1].to)
      BY <2>1, <2>3, <2>6, <2>7, <3>5 DEF IsCard
    <3>8. Len(events) + i \in Mirror(r, e)'
      BY <3>6, <3>7 DEF Mirror, IsCard
    <3>9. figures'[f].event = e
      BY <2>1, <3>3
    <3> QED BY <3>8, <3>9 DEF Mirror
  <2>13. LastStays(r) /\ OneCard(r)' /\ CopiedThen(r)'
    BY <1>1, <2>1, <2>9 DEF LastStays, OneCard, CopiedThen, Refiling, Moves
  <2>14. \A x \in DOMAIN figures' \ DOMAIN figures : RetractedLast(x)'
    BY <2>1
  <2>15. ArrangedInv'
    BY <2>9, <2>10, <2>11, ArrangedKept DEF CardInv
  <2>16. MoveInv'
    BY <2>10, <2>12, <2>13, <2>14, MoveKept DEF CardInv
  <2>17. Yet(r) /\ YetToCome(r) /\ (Moves(r) => \A e \in DOMAIN events : events[e].by # r)
    BY <1>1 DEF OnceInv, ItsOwn, Yet
  <2>18. ItsOwn(r)'
    <3>1. Moves(r) => \A f \in DOMAIN figures : figures[f].by # r
      BY <1>1, <2>17 DEF BaseInv, Filed
    <3>2. Yet(r)'
      BY <2>1, <2>9, <3>1 DEF Yet, Refiling, Moves
    <3>3. \A f \in DOMAIN figures : Of(f)' = Of(f)
      BY <1>1, <2>1, <2>8 DEF Adds, BaseInv, Filed, Of
    <3>4. YetToCome(r)'
      BY <1>1, <2>1, <2>9, <2>17, <3>3 DEF YetToCome, Refiling, Moves
    <3>5. Righting(r)' /\ CopiedFrom(r)' /\ GoneFrom(r)'
      BY <2>9 DEF Righting, CopiedFrom, GoneFrom
    <3> QED BY <3>2, <3>4, <3>5 DEF ItsOwn
  <2>19. ASSUME NEW e \in DOMAIN events' \ DOMAIN events
         PROVE  /\ events'[e].from \in DOMAIN events /\ (Moves(r) => events[events'[e].from].by \in Saved)
                /\ Ask[r].kind = "match" => \A d \in DOMAIN events' : Twice(d, e)' =>
                      d \in DOMAIN events /\ events[d].by \notin Saved \cup {r}
    <3>0. Sequential(events) /\ Sequential(es) /\ events' = events \o es
      BY <1>1, <2>1, <2>6
    <3>1. PICK i \in DOMAIN es : events'[e] = es[i]
      BY ONLY <3>0, e \in DOMAIN events' \ DOMAIN events, JoinedNew
    <3>2. PICK l : l = looks[i]
      OBVIOUS
    <3>3. l \in M /\ events'[e].from = l /\ events'[e].of = target
      BY <2>5, <2>6, <2>7, <3>1, <3>2
    <3>4. /\ l \in DOMAIN events /\ events[l].by \in Saved \cup {r}
          /\ ~Moves(r) => \A d \in DOMAIN events : events[d].from = l /\ events[d].of = target => events[d].by \notin Saved \cup {r}
      BY <3>3 DEF M, Rows
    <3>5. ASSUME Ask[r].kind = "match", NEW d \in DOMAIN events', Twice(d, e)'
          PROVE  d \in DOMAIN events /\ events[d].by \notin Saved \cup {r}
      <4>1. d # e /\ events'[d].from = l /\ events'[d].of = target /\ ~Moves(r)
        BY <3>3, <3>5 DEF Twice, Moves
      <4>2. ASSUME d \notin DOMAIN events PROVE FALSE
        <5>1. PICK k, n \in DOMAIN es : events'[d] = es[k] /\ events'[e] = es[n] /\ (k = n => d = e)
          <6>1. PICK k \in DOMAIN es : d = Len(events) + k
            BY ONLY <3>0, <4>2, d \in DOMAIN events', JoinIs
          <6>2. PICK n \in DOMAIN es : e = Len(events) + n
            <7>1. e \in DOMAIN events' /\ e \notin DOMAIN events
              OBVIOUS
            <7> QED BY ONLY <3>0, <7>1, JoinIs
          <6>3. \A x \in DOMAIN es : events'[Len(events) + x] = es[x]
            BY ONLY <3>0, JoinIs
          <6> QED BY <6>1, <6>2, <6>3
        <5>2. looks[k] = looks[n]
          BY <2>7, <3>3, <4>1, <5>1
        <5>3. k = n
          BY <2>5, <2>6, <5>2 DEF IsInjective
        <5> QED BY <4>1, <5>1, <5>3
      <4>3. events'[d] = events[d]
        BY <2>8, <4>2 DEF Adds
      <4> QED BY <3>4, <4>1, <4>2, <4>3
    <3>6. Moves(r) => events[l].by \in Saved
      BY <2>17, <3>4
    <3> QED BY <3>3, <3>4, <3>5, <3>6
  <2>20. NewLooks(r)
    BY <2>19 DEF NewLooks
  <2>21. NewFigures(r)
    BY <2>1 DEF NewFigures
  <2>22. OnceInv'
    BY <1>1, <2>1, <2>10, <2>18, <2>20, <2>21, OnceKept
  <2> QED BY <2>15, <2>16, <2>22 DEF CardInv
<1> QED BY <1>2, <1>3

LEMMA CopiesStep ==
    ASSUME CardInv, CardsAssumption, NEW r \in Requests, Timed(r), Copies(r) PROVE CardInv'
<1> DEFINE ids == SetToSeq(Copied(r))
           Into(f) == CHOOSE d \in Mirror(r, figures[f].event) : TRUE
           fs == [i \in DOMAIN ids |-> [figures[ids[i]] EXCEPT !.by = r, !.corrects = 0, !.event = Into(ids[i])]]
           stage == IF Moves(r) THEN "retract" ELSE "list"
<1>1. /\ BaseInv /\ OnceInv /\ pc[r] = "copy" /\ OneCard(r) /\ MirroredFirst(r) /\ Sequential(events) /\ Sequential(figures)
      /\ seen[r] \subseteq Saved
  <2>1. pc[r] = "copy"
    BY Zenon DEF Copies, At
  <2> QED BY <2>1 DEF CardInv, ArrangedInv, MoveInv, BaseInv, Filed, Controlled
<1>2. /\ figures' = figures \o fs /\ UNCHANGED <<events, plan, current, seen, revived>> /\ Goes(r, stage)
  <2>1. Copies(r)
    OBVIOUS
  <2> QED BY ONLY <2>1, Zenon DEF Copies, display
<1>3. /\ \A f \in Copied(r) : /\ f \in DOMAIN figures /\ f \in LiveOn(r, plan[r].todo[1].from)
                             /\ figures[f].retracts = 0 /\ Mirror(r, figures[f].event) # {}
      /\ Copied(r) \subseteq DOMAIN figures
  BY DEF Copied, LiveOn, Rows, Live
<1>4. /\ Sequential(ids) /\ IsInjective(ids) /\ \A i \in DOMAIN ids : ids[i] \in Copied(r)
      /\ \A f \in Copied(r) : \E i \in DOMAIN ids : ids[i] = f
  <2>1. IsFiniteSet(Copied(r))
    BY <1>1, <1>3, SomeOf
  <2> QED BY <2>1, ListedOnce
<1>5. \A f \in Copied(r) : /\ Into(f) \in DOMAIN events /\ events[Into(f)].by = r
                          /\ events[Into(f)].from = figures[f].event
                          /\ events[Into(f)].of.level = plan[r].todo[1].to.level
  <2>1. \A f \in Copied(r) : Into(f) \in Mirror(r, figures[f].event)
    BY <1>3
  <2> HIDE DEF Into
  <2> QED BY <2>1 DEF Mirror, IsCard
<1> HIDE DEF Into, ids
<1>6. Sequential(fs) /\ DOMAIN fs = DOMAIN ids
  <2>1. DOMAIN fs = DOMAIN ids /\ fs = [i \in DOMAIN fs |-> fs[i]]
    OBVIOUS
  <2> HIDE DEF fs
  <2> QED BY <1>4, <2>1, MapIs
<1>a. \A i \in DOMAIN fs : fs[i] = [figures[ids[i]] EXCEPT !.by = r, !.corrects = 0, !.event = Into(ids[i])]
  BY ONLY <1>6, Zenon
<1> HIDE DEF fs
<1>7. ASSUME NEW i \in DOMAIN fs
      PROVE  /\ DOMAIN fs[i] = FigureFields /\ fs[i].by = r /\ fs[i].event = Into(ids[i])
             /\ fs[i].corrects = 0 /\ fs[i].retracts = 0
             /\ fs[i].metric = figures[ids[i]].metric /\ fs[i].value = figures[ids[i]].value
  <2>1. ids[i] \in DOMAIN figures /\ figures[ids[i]].retracts = 0
    BY <1>3, <1>4, <1>6
  <2>2. DOMAIN figures[ids[i]] = {"by", "event", "metric", "value", "corrects", "retracts"}
    BY <1>1, <2>1 DEF BaseInv, Filed, FigureFields
  <2>3. fs[i] = [figures[ids[i]] EXCEPT !.by = r, !.corrects = 0, !.event = Into(ids[i])]
    BY ONLY <1>a, i \in DOMAIN fs, Zenon
  <2> QED BY <2>1, <2>2, <2>3 DEF FigureFields
<1>8. Adds(r)
  <2> DEFINE es == <<>>
  <2>1. Sequential(es) /\ events' = events \o es /\ \A i \in DOMAIN es : DOMAIN es[i] = EventFields /\ es[i].by = r
    BY <1>1, <1>2, EmptyIs, NothingJoined
  <2> HIDE DEF es
  <2>2. \A i \in DOMAIN fs :
           /\ DOMAIN fs[i] = FigureFields /\ fs[i].by = r
           /\ fs[i].event \in DOMAIN events' /\ events'[fs[i].event].by = r
           /\ fs[i].corrects \in {0} \cup DOMAIN figures /\ fs[i].retracts \in {0} \cup DOMAIN figures
    BY <1>2, <1>4, <1>5, <1>6, <1>7
  <2>3. BaseInv /\ Sequential(fs) /\ figures' = figures \o fs
    BY <1>1, <1>2, <1>6
  <2> QED BY ONLY r \in Requests, <2>1, <2>2, <2>3, GrowAdds
<1>9. Turn(r) /\ pc'[r] = stage
  <2>1. stage \in CardSteps \ {"new", "ended"}
    BY DEF CardSteps
  <2> HIDE DEF stage
  <2> QED BY <1>1, <1>2, <2>1, GoingTurns
<1>10. Turned(r)
  BY <1>1, <1>2, <1>8, <1>9 DEF Turned, Sees, BaseInv, Controlled
<1>11. \A f \in DOMAIN figures' \ DOMAIN figures : \E i \in DOMAIN fs : figures'[f] = fs[i]
  BY <1>1, <1>2, <1>6, JoinedNew
<1>12. SaysHow
  <2>1. ASSUME NEW f \in DOMAIN figures' \ DOMAIN figures PROVE figures'[f].corrects = 0 /\ SizeSaid(f)'
    <3>1. PICK i \in DOMAIN fs : figures'[f] = fs[i]
      BY <1>11
    <3>2. PICK d : d = Into(ids[i])
      OBVIOUS
    <3>3. ids[i] \in Copied(r) /\ ids[i] \in DOMAIN figures
      BY <1>3, <1>4, <1>6
    <3>4. d \in DOMAIN events /\ events[d].from = figures[ids[i]].event
      BY <1>5, <3>2, <3>3
    <3>5. figures[ids[i]].event \in DOMAIN events /\ DOMAIN events = 1..Len(events) /\ Len(events) \in Nat
      BY <1>1, <3>3, JoinIs DEF BaseInv, Filed
    <3>6. events[d].from # 0
      BY <3>4, <3>5
    <3>7. events[d].of.level = "each" => events[d].arranged
      BY <3>4, <3>6 DEF CardInv, ArrangedInv, MirrorsSaid
    <3> QED BY <1>2, <1>7, <3>1, <3>2, <3>7 DEF SizeSaid, Of
  <2> QED BY <1>2, <2>1 DEF SaysHow
<1>13. CopiedThen(r)'
  <2> SUFFICES ASSUME Moves(r), NEW f \in DOMAIN figures', Took(r, f)' PROVE \E c \in DOMAIN figures' : Copy(r, f, c)'
    BY <1>9 DEF CopiedThen, Moves
  <2>1. plan[r].todo[1].from = Ask[r].from
    BY <1>1 DEF OneCard, Refiling
  <2>2. figures'[f].by \in seen[r] /\ figures'[f].by \in Saved /\ f \in LiveOn(r, Ask[r].from)'
    BY <1>1, <1>2 DEF Took
  <2>3. f \in DOMAIN figures /\ f \in LiveOn(r, Ask[r].from)
    BY <1>1, <1>10, <2>2, OldLive
  <2>4. figures'[f] = figures[f]
    BY <1>8, <2>3 DEF Adds
  <2>5. Mirror(r, figures[f].event) # {}
    BY <1>1, <2>2, <2>3, <2>4 DEF MirroredFirst, Took
  <2>6. f \in Copied(r)
    BY <2>1, <2>3, <2>5 DEF Copied
  <2>7. PICK i \in DOMAIN fs : ids[i] = f
    BY <1>4, <1>6, <2>6
  <2>8. PICK c : c = Len(figures) + i /\ c \in DOMAIN figures' /\ figures'[c] = fs[i]
    BY <1>1, <1>2, <1>6, JoinedAt
  <2>9. events'[fs[i].event].from = figures[f].event
    BY <1>2, <1>5, <1>7, <2>6, <2>7
  <2>10. Copy(r, f, c)'
    BY <1>7, <2>4, <2>7, <2>8, <2>9 DEF Copy
  <2> QED BY <2>8, <2>10
<1>14. LastStays(r) /\ OneCard(r)' /\ MirroredFirst(r)'
  BY <1>1, <1>2, <1>9 DEF LastStays, OneCard, MirroredFirst, Refiling, Moves
<1>15. \A x \in DOMAIN figures' \ DOMAIN figures : RetractedLast(x)'
  BY <1>7, <1>11 DEF RetractedLast
<1>16. ArrangedInv'
  BY <1>9, <1>10, <1>12, ArrangedKept DEF CardInv
<1>17. MoveInv'
  BY <1>10, <1>13, <1>14, <1>15, MoveKept DEF CardInv
<1>18. /\ Yet(r) /\ YetToCome(r) /\ plan[r].todo # <<>>
       /\ Moves(r) => \A f \in DOMAIN figures : figures[f].by # r
  <2>1. Yet(r) /\ YetToCome(r)
    BY <1>1 DEF OnceInv, ItsOwn
  <2> QED BY <1>1, <2>1 DEF Yet, YetToCome, Refiling
<1>19. ASSUME NEW f \in DOMAIN figures, f \in Copied(r), NEW g \in DOMAIN figures,
              figures[f].event = figures[g].event, figures[f].metric = figures[g].metric
       PROVE  f = g
  BY <1>1, <1>3, <1>19 DEF OnceInv, OneOfEach
<1>20. ASSUME NEW g \in DOMAIN figures, figures[g].by = r PROVE ~Moves(r) /\ Of(g).level # plan[r].todo[1].to.level
  <2>1. Sequential(plan[r].todo)
    BY <1>1, <1>18 DEF YetToCome, Refiling
  <2>2. 1 \in DOMAIN plan[r].todo
    <3> DEFINE todo == plan[r].todo
    <3>1. todo \in Seq(Range(todo)) /\ todo # <<>>
      BY <1>18, <2>1 DEF Sequential
    <3> HIDE DEF todo
    <3>2. 1 \in DOMAIN todo
      BY <3>1
    <3> QED BY <3>2 DEF todo
  <2> QED BY <1>1, <1>18, <1>20, <2>2 DEF YetToCome, Refiling
<1>21. \A c \in DOMAIN figures' \ DOMAIN figures, g \in DOMAIN figures' :
          figures'[c].event = figures'[g].event /\ figures'[c].metric = figures'[g].metric
              => c = g \/ (figures'[c].retracts # 0 /\ figures'[g].retracts # 0)
  <2>1. ASSUME NEW k \in DOMAIN fs, NEW l \in DOMAIN fs, fs[k].event = fs[l].event, fs[k].metric = fs[l].metric PROVE k = l
    <3>1. ids[k] \in Copied(r) /\ ids[l] \in Copied(r) /\ ids[k] \in DOMAIN figures /\ ids[l] \in DOMAIN figures
      BY <1>3, <1>4, <1>6
    <3>2. figures[ids[k]].event = figures[ids[l]].event /\ figures[ids[k]].metric = figures[ids[l]].metric
      BY <1>5, <1>7, <2>1, <3>1
    <3>3. ids[k] = ids[l]
      BY <1>19, <3>1, <3>2
    <3> QED BY <1>4, <1>6, <3>3 DEF IsInjective
  <2>2. ASSUME NEW k \in DOMAIN fs, NEW g \in DOMAIN figures, figures[g].event = fs[k].event PROVE FALSE
    <3>1. ids[k] \in Copied(r) /\ fs[k].event = Into(ids[k])
      BY <1>4, <1>6, <1>7
    <3>2. events[figures[g].event].by = r /\ Of(g).level = plan[r].todo[1].to.level
      BY <1>5, <2>2, <3>1 DEF Of
    <3>3. figures[g].by = r
      BY <1>1, <3>2 DEF BaseInv, Filed
    <3> QED BY <1>20, <3>2, <3>3
  <2>3. Sequential(fs) /\ figures' = figures \o fs
    BY <1>2, <1>6
  <2>4. \A k, l \in DOMAIN fs : fs[k].event = fs[l].event /\ fs[k].metric = fs[l].metric
           => k = l \/ (fs[k].retracts # 0 /\ fs[l].retracts # 0)
    BY <2>1
  <2>5. \A k \in DOMAIN fs, g \in DOMAIN figures : figures[g].event = fs[k].event => figures[g].metric # fs[k].metric
    BY <2>2
  <2> QED BY ONLY <1>1, <2>3, <2>4, <2>5, NewOfEach
\* What a copy comes after is what it copies.
<1>22. ASSUME NEW c \in DOMAIN figures' \ DOMAIN figures, NEW f \in DOMAIN figures', Heir(f, c)'
       PROVE  Moves(r) /\ f \in DOMAIN figures /\ f \in Copied(r) /\ figures'[c].event = Into(f)
              /\ figures'[c].metric = figures[f].metric
  <2>1. PICK k \in DOMAIN fs : figures'[c] = fs[k]
    BY <1>11
  <2>2. PICK g : g = ids[k]
    OBVIOUS
  <2>3. /\ figures'[c].by = r /\ figures'[c].corrects = 0 /\ figures'[c].event = Into(g)
        /\ figures'[c].metric = figures[g].metric
    BY <1>7, <2>1, <2>2
  <2>4. g \in Copied(r) /\ g \in DOMAIN figures
    BY <1>3, <1>4, <1>6, <2>2
  <2>5. f # 0
    <3>1. Sequential(figures')
      BY <1>10 DEF Turned, Adds
    <3>2. f \in 1..Len(figures') /\ Len(figures') \in Nat
      BY <3>1 DEF Sequential
    <3> QED BY <3>2
  <2>6. Carried(f, c)'
    BY <1>22, <2>3, <2>5 DEF Heir
  <2>7. Moves(r) /\ figures'[f].metric = figures[g].metric /\ figures'[f].event = figures[g].event
    BY <1>2, <1>5, <2>3, <2>4, <2>6 DEF Carried, Moves
  <2>8. f \in DOMAIN figures
    <3> SUFFICES ASSUME f \notin DOMAIN figures PROVE FALSE
      OBVIOUS
    <3>1. events'[figures'[f].event].by = r
      BY <1>8 DEF Adds
    <3>2. events[figures[g].event].by = figures[g].by /\ figures[g].by # r
      BY <1>1, <1>20, <2>4, <2>7 DEF BaseInv, Filed
    <3> QED BY <1>2, <2>7, <3>1, <3>2
  <2>9. figures'[f] = figures[f]
    BY <1>8, <2>8 DEF Adds
  <2>10. g = f
    BY <1>19, <2>4, <2>7, <2>8, <2>9
  <2> QED BY <2>3, <2>4, <2>7, <2>10
<1>23. NewFigures(r)
  <2> SUFFICES ASSUME NEW c \in DOMAIN figures' \ DOMAIN figures, NEW f \in DOMAIN figures', Heir(f, c)'
               PROVE  /\ f \in DOMAIN figures
                      /\ \A d \in DOMAIN figures' : Heir(f, d)' /\ d # c =>
                            d \in DOMAIN figures /\ figures[d].by \notin (Saved \cap before'[r]) \cup {r}
    BY <1>21 DEF NewFigures
  <2>1. Moves(r) /\ f \in DOMAIN figures /\ f \in Copied(r)
    BY <1>22
  <2>2. ASSUME NEW d \in DOMAIN figures', Heir(f, d)', d # c
        PROVE  d \in DOMAIN figures /\ figures[d].by \notin Saved \cup {r}
    <3>1. d \in DOMAIN figures
      <4> SUFFICES ASSUME d \notin DOMAIN figures PROVE FALSE
        OBVIOUS
      <4>1. figures'[d].event = figures'[c].event /\ figures'[d].metric = figures'[c].metric
        BY <1>22, <2>2
      <4>2. \A x \in DOMAIN figures' \ DOMAIN figures : figures'[x].retracts = 0
        BY <1>7, <1>11
      <4> QED BY <1>21, <2>2, <4>1, <4>2
    <3>2. Heir(f, d) /\ figures[d].by # r
      BY <1>1, <1>10, <1>20, <2>1, <2>2, <3>1, OldHeir
    <3>3. Live(f, Rows(r, figures))
      BY <2>1 DEF Copied, LiveOn
    <3>4. ASSUME figures[d].by \in Saved PROVE FALSE
      <4>1. d \in Rows(r, figures)
        BY <3>1, <3>4 DEF Rows
      <4>2. figures[d].corrects # f
        BY <3>3, <4>1 DEF Live
      <4>3. Carried(f, d)
        BY <3>2, <4>2 DEF Heir
      <4>4. PICK q : q = figures[d].by
        OBVIOUS
      <4>5. q \in Requests /\ Moves(q) /\ q \in Saved
        BY <3>4, <4>3, <4>4 DEF Carried
      <4>6. pc[q] = "ended"
        BY <1>1, <4>5 DEF Saved, CardsAssumption, BaseInv, Controlled
      <4>7. After(f, Rows(q, figures))
        BY <1>1, <2>1, <3>1, <4>3, <4>4, <4>5, <4>6 DEF OnceInv, ItsOwn, GoneFrom
      <4>8. Rows(q, figures) \subseteq Rows(r, figures)
        BY <4>5 DEF Rows
      <4> QED BY <3>3, <4>7, <4>8 DEF After, Live, Retracted
    <3> QED BY <3>1, <3>2, <3>4
  <2> QED BY <2>1, <2>2
<1>24. ItsOwn(r)'
  <2>1. Yet(r)' /\ Righting(r)' /\ GoneFrom(r)'
    BY <1>9 DEF Yet, Righting, GoneFrom, Refiling, Moves
  <2>2. YetToCome(r)'
    <3>1. ASSUME ~Moves(r), NEW f \in DOMAIN figures', NEW k \in DOMAIN plan[r].todo, figures'[f].by = r,
                 Of(f)'.level = plan[r].todo[k].to.level
          PROVE  k = 1
      <4>1. CASE f \in DOMAIN figures
        <5>1. figures'[f] = figures[f] /\ Of(f)' = Of(f)
          BY <1>2, <1>8, <4>1 DEF Adds, Of
        <5> QED BY <1>1, <1>18, <3>1, <4>1, <5>1 DEF YetToCome, Refiling
      <4>2. CASE f \notin DOMAIN figures
        <5>1. PICK l \in DOMAIN fs : figures'[f] = fs[l]
          BY <1>11, <4>2
        <5>2. ids[l] \in Copied(r) /\ fs[l].event = Into(ids[l])
          BY <1>4, <1>6, <1>7
        <5>3. Of(f)'.level = plan[r].todo[1].to.level
          BY <1>2, <1>5, <5>1, <5>2 DEF Of
        <5>4. 1 \in DOMAIN plan[r].todo
          <6> DEFINE todo == plan[r].todo
          <6>1. todo \in Seq(Range(todo)) /\ todo # <<>>
            BY <1>1, <1>18 DEF YetToCome, Refiling, Sequential
          <6> HIDE DEF todo
          <6>2. 1 \in DOMAIN todo
            BY <6>1
          <6> QED BY <6>2 DEF todo
        <5> QED BY <1>1, <1>18, <3>1, <5>3, <5>4 DEF YetToCome, Refiling
      <4> QED BY <4>1, <4>2
    <3>2. ~Moves(r) => pc'[r] = "list"
      BY <1>9
    <3> QED BY <1>1, <1>2, <1>18, <3>1, <3>2 DEF YetToCome, Refiling, Moves
  <2>3. CopiedFrom(r)'
    <3> SUFFICES ASSUME Moves(r), NEW f \in DOMAIN figures', NEW c \in DOMAIN figures', figures'[c].by = r, Carried(f, c)'
                 PROVE  f \in Rows(r, figures)' /\ figures'[f].retracts = 0 /\ IsCard(Of(f), Ask[r].from)'
      BY DEF CopiedFrom, Moves
    <3>1. c \notin DOMAIN figures
      BY <1>8, <1>18 DEF Adds
    <3>2. f \in DOMAIN figures /\ f \in Copied(r)
      BY <1>22, <3>1 DEF Heir
    <3>3. figures'[f] = figures[f] /\ f \in LiveOn(r, Ask[r].from) /\ figures[f].retracts = 0
      BY <1>1, <1>3, <1>8, <3>2 DEF Adds, OneCard, Refiling
    <3>4. f \in Rows(r, figures) /\ IsCard(Of(f), Ask[r].from)
      BY <3>3 DEF LiveOn
    <3>5. Saved \subseteq Saved'
      BY <1>1, <1>10, SavedGrows DEF Turned
    <3>6. f \in Rows(r, figures)'
      BY <3>3, <3>4, <3>5 DEF Rows
    <3> QED BY <1>2, <3>3, <3>4, <3>6 DEF IsCard, Of
  <2> QED BY <2>1, <2>2, <2>3 DEF ItsOwn
<1>25. NewLooks(r)
  BY <1>2 DEF NewLooks
<1>26. OnceInv'
  BY <1>1, <1>2, <1>10, <1>23, <1>24, <1>25, OnceKept
<1> QED BY <1>16, <1>17, <1>26 DEF CardInv

\* What a sequence tells of its members is finitely much.
LEMMA TellsFew ==
    ASSUME NEW s, Sequential(s), NEW t, DOMAIN t = DOMAIN s, t = [i \in DOMAIN t |-> t[i]]
    PROVE  IsFiniteSet({t[i] : i \in DOMAIN s})
<1> DEFINE T == {t[i] : i \in DOMAIN s}
<1>1. IsFiniteSet(DOMAIN s)
  BY SomeOf
<1>2. t \in Surjection(DOMAIN s, T)
  BY DEF Surjection
<1> QED BY <1>1, <1>2, FS_Surjection DEF ExistsSurjection

LEMMA RetractsStep ==
    ASSUME CardInv, CardsAssumption, NEW r \in Requests, Timed(r), Retracts(r) PROVE CardInv'
<1> DEFINE card == plan[r].todo[1].from
           live == SetToSeq(LiveOn(r, card))
           O == {Of(live[i]) : i \in DOMAIN live}
           ofs == SetToSeq(O)
           Place(f) == CHOOSE i \in DOMAIN ofs : ofs[i] = Of(f)
           On(f) == Len(events) + Place(f)
           es == [i \in DOMAIN ofs |-> Event(r, ofs[i], Ask[r].day, FALSE, 0)]
           fs == [i \in DOMAIN live |->
                    [Figure(r, On(live[i]), figures[live[i]].metric, None) EXCEPT !.retracts = live[i]]]
<1>1. /\ BaseInv /\ OnceInv /\ pc[r] = "retract" /\ OneCard(r) /\ CopiedThen(r) /\ Sequential(events) /\ Sequential(figures)
  <2>1. pc[r] = "retract"
    BY Zenon DEF Retracts, At
  <2> QED BY <2>1 DEF CardInv, ArrangedInv, MoveInv, BaseInv, Filed
<1>2. /\ events' = events \o es /\ figures' = figures \o fs
      /\ UNCHANGED <<plan, current, seen, revived>> /\ Goes(r, "list")
  <2>1. Retracts(r)
    OBVIOUS
  <2> QED BY ONLY <2>1, Zenon DEF Retracts, display
<1>3. LiveOn(r, card) \subseteq DOMAIN figures
  BY DEF LiveOn, Rows
<1>4. /\ Sequential(live) /\ \A i \in DOMAIN live : live[i] \in LiveOn(r, card)
      /\ \A f \in LiveOn(r, card) : \E i \in DOMAIN live : live[i] = f
  <2>1. IsFiniteSet(LiveOn(r, card))
    BY <1>1, <1>3, SomeOf
  <2> QED BY <2>1, ListedOnce
<1> HIDE DEF live
<1>5. Sequential(ofs) /\ \A x \in O : \E i \in DOMAIN ofs : ofs[i] = x
  <2>1. IsFiniteSet(O)
    <3> DEFINE t == [i \in DOMAIN live |-> Of(live[i])]
    <3>1. DOMAIN t = DOMAIN live /\ t = [i \in DOMAIN t |-> t[i]] /\ O = {t[i] : i \in DOMAIN live}
      OBVIOUS
    <3> HIDE DEF t, O
    <3> QED BY <1>4, <3>1, TellsFew
  <2> HIDE DEF O
  <2> QED BY <2>1, ListedOnce
<1> HIDE DEF ofs
<1>6. \A i \in DOMAIN live : Place(live[i]) \in DOMAIN ofs
  BY <1>5
<1> HIDE DEF Place, O
<1>7. /\ Sequential(es) /\ DOMAIN es = DOMAIN ofs
      /\ Sequential(fs) /\ DOMAIN fs = DOMAIN live
  <2>1. DOMAIN es = DOMAIN ofs /\ es = [i \in DOMAIN es |-> es[i]]
    OBVIOUS
  <2>2. DOMAIN fs = DOMAIN live /\ fs = [i \in DOMAIN fs |-> fs[i]]
    OBVIOUS
  <2> HIDE DEF es, fs
  <2> QED BY <1>4, <1>5, <2>1, <2>2, MapIs
<1>8. \A i \in DOMAIN es : DOMAIN es[i] = EventFields /\ es[i].by = r /\ es[i].from = 0
  BY <1>7 DEF Event, EventFields
<1>9. ASSUME NEW i \in DOMAIN fs
      PROVE  /\ DOMAIN fs[i] = FigureFields /\ fs[i].by = r /\ fs[i].event = On(live[i])
             /\ fs[i].corrects = 0 /\ fs[i].retracts = live[i] /\ fs[i].value = None
  <2>1. fs[i] = [Figure(r, On(live[i]), figures[live[i]].metric, None) EXCEPT !.retracts = live[i]]
    BY <1>7
  <2> HIDE DEF fs, On
  <2> QED BY <2>1 DEF Figure, FigureFields
<1> HIDE DEF es, fs
<1>10. Adds(r)
  <2>1. ASSUME NEW i \in DOMAIN fs
        PROVE  /\ DOMAIN fs[i] = FigureFields /\ fs[i].by = r
               /\ fs[i].event \in DOMAIN events' /\ events'[fs[i].event].by = r
               /\ fs[i].corrects \in {0} \cup DOMAIN figures /\ fs[i].retracts \in {0} \cup DOMAIN figures
    <3>1. Place(live[i]) \in DOMAIN es
      BY <1>6, <1>7
    <3>2. On(live[i]) \in DOMAIN events' /\ events'[On(live[i])] = es[Place(live[i])]
      BY <1>1, <1>2, <1>7, <3>1, JoinedAt
    <3>3. live[i] \in DOMAIN figures
      BY <1>3, <1>4, <1>7
    <3> HIDE DEF On
    <3> QED BY <1>8, <1>9, <3>1, <3>2, <3>3
  <2>2. BaseInv /\ Sequential(es) /\ Sequential(fs) /\ events' = events \o es /\ figures' = figures \o fs
    BY <1>1, <1>2, <1>7
  <2>3. \A i \in DOMAIN es : DOMAIN es[i] = EventFields /\ es[i].by = r
    BY <1>8
  <2> QED BY ONLY r \in Requests, <2>1, <2>2, <2>3, GrowAdds
<1>11. Turn(r) /\ pc'[r] = "list"
  BY <1>1, <1>2, GoingTurns DEF CardSteps
<1>12. Turned(r)
  BY <1>1, <1>2, <1>10, <1>11 DEF Turned, Sees, BaseInv, Controlled
<1>13. \A f \in DOMAIN figures' \ DOMAIN figures : \E i \in DOMAIN fs : figures'[f] = fs[i]
  <2>1. Sequential(figures) /\ Sequential(fs) /\ figures' = figures \o fs
    BY <1>1, <1>2, <1>7
  <2> QED BY ONLY <2>1, JoinedNew
<1>14. SaysHow
  <2>1. \A e \in DOMAIN events' \ DOMAIN events : \E i \in DOMAIN es : events'[e] = es[i]
    BY <1>1, <1>2, <1>7, JoinedNew
  <2>2. \A f \in DOMAIN figures' \ DOMAIN figures : figures'[f].corrects = 0 /\ figures'[f].value = None
    BY <1>9, <1>13
  <2> QED BY <1>8, <2>1, <2>2 DEF SaysHow, SizeSaid
<1>15. ASSUME NEW x \in DOMAIN figures' \ DOMAIN figures PROVE RetractedLast(x)'
  <2>1. PICK i \in DOMAIN fs : figures'[x] = fs[i]
    BY <1>13
  <2>2. PICK f : f = live[i]
    OBVIOUS
  <2>3. figures'[x].by = r /\ figures'[x].retracts = f
    BY <1>9, <2>1, <2>2
  <2>4. f \in DOMAIN figures /\ f \in LiveOn(r, card)
    BY <1>3, <1>4, <1>7, <2>2
  <2>5. Moves(r) /\ card = Ask[r].from
    BY <1>1 DEF OneCard, Refiling
  <2>6. figures'[f] = figures[f] /\ seen'[r] = seen[r] /\ DOMAIN figures \subseteq DOMAIN figures'
    BY <1>2, <1>10, <2>4 DEF Adds
  <2>7. ASSUME figures[f].by \in seen[r] PROVE \E c \in DOMAIN figures' : Copy(r, f, c)'
    <3>1. PICK c \in DOMAIN figures : Copy(r, f, c)
      BY <1>1, <2>4, <2>5, <2>7 DEF CopiedThen, Took
    <3>2. Copy(r, f, c)'
      BY <1>1, <1>12, <2>4, <3>1, OldCopy
    <3> QED BY <2>6, <3>2
  <2> QED BY <1>11, <2>3, <2>5, <2>6, <2>7 DEF RetractedLast, Moves
<1>16. LastStays(r) /\ OneCard(r)' /\ MirroredFirst(r)' /\ CopiedThen(r)'
  BY <1>1, <1>2, <1>11 DEF LastStays, OneCard, MirroredFirst, CopiedThen, Refiling, Moves
<1>17. ArrangedInv'
  BY <1>11, <1>12, <1>14, ArrangedKept DEF CardInv
<1>18. MoveInv'
  BY <1>12, <1>15, <1>16, MoveKept DEF CardInv
<1>19. \A i \in DOMAIN live : On(live[i]) \notin DOMAIN events
       /\ On(live[i]) \in DOMAIN events' /\ events'[On(live[i])].from = 0
  <2>1. Sequential(events) /\ Sequential(es) /\ events' = events \o es
    BY <1>1, <1>2, <1>7
  <2>2. ASSUME NEW i \in DOMAIN live
        PROVE  On(live[i]) \notin DOMAIN events /\ On(live[i]) \in DOMAIN events' /\ events'[On(live[i])].from = 0
    <3>1. Place(live[i]) \in DOMAIN es
      BY <1>6, <1>7
    <3>2. /\ Len(events) + Place(live[i]) \in DOMAIN events' /\ Len(events) + Place(live[i]) \notin DOMAIN events
          /\ events'[Len(events) + Place(live[i])] = es[Place(live[i])]
      BY ONLY <2>1, <3>1, JoinedAt
    <3> QED BY <1>8, <3>1, <3>2
  <2> QED BY <2>2
<1> HIDE DEF On
<1>20. NewLooks(r)
  <2>1. \A e \in DOMAIN events' \ DOMAIN events : \E i \in DOMAIN es : events'[e] = es[i]
    <3>1. Sequential(events) /\ Sequential(es) /\ events' = events \o es
      BY <1>1, <1>2, <1>7
    <3> QED BY ONLY <3>1, JoinedNew
  <2> QED BY <1>8, <2>1 DEF NewLooks
<1>21. \A c \in DOMAIN figures' \ DOMAIN figures, f \in DOMAIN figures' : ~Heir(f, c)'
  <2>1. ASSUME NEW c \in DOMAIN figures' \ DOMAIN figures
        PROVE  figures'[c].corrects = 0 /\ events'[figures'[c].event].from = 0
    <3>1. PICK i \in DOMAIN fs : figures'[c] = fs[i]
      BY <1>13
    <3>2. fs[i].corrects = 0 /\ fs[i].event = On(live[i]) /\ i \in DOMAIN live
      BY <1>7, <1>9
    <3> QED BY <1>19, <3>1, <3>2
  <2> QED BY <1>1, <1>12, <2>1, NoneBefore
<1>22. NewFigures(r)
  <2>1. ASSUME NEW k \in DOMAIN fs PROVE fs[k].retracts # 0
    <3>1. fs[k].retracts \in DOMAIN figures
      BY <1>3, <1>4, <1>7, <1>9
    <3>2. DOMAIN figures = 1..Len(figures) /\ Len(figures) \in Nat
      BY <1>1 DEF Sequential
    <3> QED BY <3>1, <3>2
  <2>2. \A k \in DOMAIN fs, g \in DOMAIN figures : figures[g].event # fs[k].event
    BY <1>1, <1>7, <1>9, <1>19 DEF BaseInv, Filed
  <2>3. Sequential(fs) /\ figures' = figures \o fs
    BY <1>2, <1>7
  <2>4. \A k, l \in DOMAIN fs : fs[k].event = fs[l].event /\ fs[k].metric = fs[l].metric
           => k = l \/ (fs[k].retracts # 0 /\ fs[l].retracts # 0)
    BY <2>1
  <2>5. \A c \in DOMAIN figures' \ DOMAIN figures, g \in DOMAIN figures' :
           figures'[c].event = figures'[g].event /\ figures'[c].metric = figures'[g].metric
               => c = g \/ (figures'[c].retracts # 0 /\ figures'[g].retracts # 0)
    BY ONLY <1>1, <2>2, <2>3, <2>4, NewOfEach
  <2> QED BY <1>21, <2>5 DEF NewFigures
<1>23. Moves(r) /\ card = Ask[r].from /\ ItsOwn(r)
  BY <1>1 DEF OneCard, Refiling, OnceInv
<1>24. ItsOwn(r)'
  <2>1. Yet(r)' /\ Righting(r)' /\ CopiedFrom(r)'
    BY <1>11 DEF Yet, Righting, CopiedFrom, Refiling, Moves
  <2>2. YetToCome(r)'
    BY <1>1, <1>2, <1>11, <1>23 DEF ItsOwn, YetToCome, Refiling, Moves
  <2>3. GoneFrom(r)'
    <3> SUFFICES ASSUME NEW f \in DOMAIN figures', NEW c \in DOMAIN figures', figures'[c].by = r, Carried(f, c)'
                 PROVE  After(f, Rows(r, figures))'
      BY DEF GoneFrom
    <3>1. c \in DOMAIN figures
      BY <1>21 DEF Heir
    <3>2. f \in DOMAIN figures /\ Carried(f, c) /\ figures[c].by = r
      BY <1>1, <1>10, <1>12, <3>1, OldHeir DEF Adds
    <3>3. f \in Rows(r, figures) /\ figures[f].retracts = 0 /\ IsCard(Of(f), card)
      BY <1>1, <1>23, <3>1, <3>2 DEF ItsOwn, CopiedFrom
    <3>4. Rows(r, figures) \subseteq Rows(r, figures)' /\ \A x \in Rows(r, figures) : figures'[x] = figures[x]
      BY <1>1, <1>10, <1>12, SavedGrows DEF Turned, Adds, Rows
    <3>5. CASE f \in LiveOn(r, card)
      <4>1. PICK i \in DOMAIN live : live[i] = f
        BY <1>4, <3>5
      <4>2. PICK x : x = Len(figures) + i
        OBVIOUS
      <4>3. x \in DOMAIN figures' /\ figures'[x] = fs[i]
        <5>1. Sequential(figures) /\ Sequential(fs) /\ figures' = figures \o fs /\ i \in DOMAIN fs
          BY <1>1, <1>2, <1>7
        <5> QED BY ONLY <4>2, <5>1, JoinedAt
      <4>4. figures'[x].by = r /\ figures'[x].retracts = f
        BY <1>7, <1>9, <4>1, <4>3
      <4>5. x \in Rows(r, figures)'
        BY <4>3, <4>4 DEF Rows
      <4> QED BY <4>4, <4>5 DEF After
    <3>6. CASE f \notin LiveOn(r, card)
      <4>1. After(f, Rows(r, figures))
        BY <3>3, <3>6 DEF LiveOn, Live, Retracted, After
      <4> QED BY <3>4, <4>1 DEF After
    <3> QED BY <3>5, <3>6
  <2> QED BY <2>1, <2>2, <2>3 DEF ItsOwn
<1>25. OnceInv'
  BY <1>1, <1>2, <1>12, <1>20, <1>22, <1>24, OnceKept
<1> QED BY <1>17, <1>18, <1>25 DEF CardInv

------------------------------------------------------------------------------
(* The newest correction of a figure *)

\* The greatest of some numbers up to a bound.
LEMMA GreatestIs ==
    ASSUME NEW N \in Nat, NEW S \in SUBSET (1..N), S # {} PROVE \E n \in S : \A m \in S : m <= n
<1> DEFINE Less == {N - n : n \in S}
<1>1. Less \in SUBSET Nat /\ Less # {}
  <2>1. \A n \in S : n \in Int /\ 1 <= n /\ n <= N
    OBVIOUS
  <2>2. \A n \in S : N - n \in Nat
    BY <2>1
  <2> QED BY <2>2
<1>2. PICK k \in Less : \A m \in Less : <<m, k>> \notin OpToRel(<, Nat)
  <2>1. IsWellFoundedOn(OpToRel(<, Nat), Nat)
    BY NatLessThanWellFounded
  <2> HIDE DEF Less
  <2> QED BY <1>1, <2>1, WFMin
<1>3. PICK n \in S : k = N - n
  OBVIOUS
<1>4. \A m \in S : N - m \in Less
  OBVIOUS
<1> HIDE DEF Less
<1>5. \A m \in S : ~(N - m < N - n)
  <2>1. \A m \in Less : ~(m < k)
    BY <1>1, <1>2 DEF OpToRel
  <2> QED BY <1>3, <1>4, <2>1
<1>6. \A m \in S : m <= n
  BY <1>5
<1> QED BY <1>6

\* A figure is followed to a correction that nothing corrects; each is of the metric of the
\* one before it, and has a value.
LEMMA FollowedTo ==
    ASSUME ArrangedInv, NEW F, F = Rows(None, figures), NEW f \in F, figures[f].value # None
    PROVE  /\ NewestCorrection(f, F) \in F
           /\ figures[NewestCorrection(f, F)].metric = figures[f].metric
           /\ figures[NewestCorrection(f, F)].value # None
           /\ Corrections(NewestCorrection(f, F), F) = {}
<1> DEFINE n == Len(figures)
           Follow(g) == CHOOSE c \in Corrections(g, F) : \A d \in Corrections(g, F) : d <= c
           Upper(k) == {g \in F : g > n - k}
           Goes2(w, k) == /\ DOMAIN w = Upper(k)
                          /\ \A g \in Upper(k) : w[g] = IF Corrections(g, F) = {} THEN g ELSE w[Follow(g)]
           Is(w) == w = [g \in F |-> IF Corrections(g, F) = {} THEN g ELSE w[Follow(g)]]
           Short == {k \in 0..n : ~\E w : Goes2(w, k)}
<1>1. n \in Nat /\ F \subseteq 1..n /\ F \subseteq DOMAIN figures
  BY JoinIs DEF ArrangedInv, BaseInv, Filed, Rows
<1>2. ASSUME NEW g \in F, Corrections(g, F) # {}
      PROVE  /\ Follow(g) \in F /\ Follow(g) > g
             /\ figures[Follow(g)].metric = figures[g].metric /\ figures[Follow(g)].value # None
  <2>1. Corrections(g, F) \in SUBSET (1..n)
    BY <1>1 DEF Corrections
  <2>2. \E c \in Corrections(g, F) : \A d \in Corrections(g, F) : d <= c
    BY <1>1, <1>2, <2>1, GreatestIs
  <2>3. Follow(g) \in Corrections(g, F)
    BY <2>2
  <2>4. PICK c : c = Follow(g)
    OBVIOUS
  <2>5. c \in F /\ c \in DOMAIN figures /\ figures[c].corrects = g
    BY <1>1, <2>3, <2>4 DEF Corrections
  <2>6. g \in 0..(c - 1) /\ g # 0 /\ c \in Int /\ g \in Int
    BY <1>1, <2>5 DEF ArrangedInv, BaseInv, Filed
  <2>7. c > g
    BY <2>6
  <2>8. figures[c].metric = figures[g].metric /\ figures[c].value # None
    BY <2>5, <2>6 DEF ArrangedInv, Valued
  <2> QED BY <2>4, <2>5, <2>7, <2>8
<1> HIDE DEF Follow, n
<1>3. Short = {}
  <2> SUFFICES ASSUME Short # {} PROVE FALSE
    OBVIOUS
  <2>1. Short \in SUBSET Nat
    BY <1>1
  <2>2. PICK k \in Short : \A m \in Short : ~(m < k)
    <3>1. IsWellFoundedOn(OpToRel(<, Nat), Nat)
      BY NatLessThanWellFounded
    <3> HIDE DEF Short
    <3>2. PICK k \in Short : \A m \in Short : <<m, k>> \notin OpToRel(<, Nat)
      BY <2>1, <3>1, WFMin
    <3>3. k \in Nat /\ \A m \in Short : m \in Nat
      BY <2>1
    <3>4. \A m \in Short : ~(m < k)
      BY <3>2, <3>3 DEF OpToRel
    <3> QED BY <3>4
  <2>3. k \in 0..n /\ ~\E w : Goes2(w, k)
    OBVIOUS
  <2>4. k # 0
    <3>1. Upper(0) = {}
      BY <1>1
    <3>2. Goes2(<<>>, 0)
      BY <3>1
    <3> HIDE DEF Goes2
    <3> QED BY <2>3, <3>2
  <2>5. k - 1 \in 0..n /\ k - 1 \notin Short
    <3>1. k - 1 \in 0..n /\ k - 1 < k
      BY <1>1, <2>3, <2>4
    <3> HIDE DEF Short
    <3> QED BY <2>2, <3>1
  <2>6. PICK w : Goes2(w, k - 1)
    BY <2>5
  <2> DEFINE v == [g \in Upper(k) |-> IF Corrections(g, F) = {} THEN g ELSE w[Follow(g)]]
  <2>7. ASSUME NEW g \in Upper(k) PROVE v[g] = IF Corrections(g, F) = {} THEN g ELSE v[Follow(g)]
    <3>1. CASE Corrections(g, F) = {}
      BY <3>1
    <3>2. CASE Corrections(g, F) # {}
      <4>1. Follow(g) \in F /\ Follow(g) > g
        BY <1>2, <3>2
      <4>2. Follow(g) \in Int /\ g \in Int /\ k \in Int /\ n \in Int /\ g > n - k
        BY <1>1, <2>3, <4>1
      <4>3. Follow(g) > n - k /\ Follow(g) > n - (k - 1)
        BY <4>1, <4>2
      <4>4. Follow(g) \in Upper(k) /\ Follow(g) \in Upper(k - 1)
        BY <4>1, <4>3
      <4>5. v[Follow(g)] = w[Follow(g)]
        BY <2>6, <4>4
      <4> QED BY <3>2, <4>5
    <3> QED BY <3>1, <3>2
  <2>8. Goes2(v, k)
    BY <2>7
  <2> HIDE DEF Goes2, v
  <2> QED BY <2>3, <2>8
<1>4. n \in 0..n
  BY <1>1
<1>5. PICK w : Goes2(w, n)
  BY <1>3, <1>4
<1>6. Upper(n) = F
  BY <1>1
<1> DEFINE u == [g \in F |-> w[g]]
<1>7. Is(u)
  <2>1. \A g \in F : Corrections(g, F) # {} => Follow(g) \in F
    BY <1>2
  <2> HIDE DEF Upper
  <2> QED BY <1>5, <1>6, <2>1
<1>8. NewestCorrection(f, F) = (CHOOSE x : Is(x))[f]
  BY DEF NewestCorrection, Follow
<1> DEFINE last == CHOOSE x : Is(x)
<1> HIDE DEF Is, u
<1>9. Is(last)
  BY <1>7
<1> HIDE DEF last
<1>10. \A g \in F : last[g] = IF Corrections(g, F) = {} THEN g ELSE last[Follow(g)]
  BY <1>9 DEF Is
<1> DEFINE Good(g, x) == x \in F /\ Corrections(x, F) = {} /\ figures[x].metric = figures[g].metric
                                /\ (figures[g].value # None => figures[x].value # None)
           Bad == {g \in F : ~Good(g, last[g])}
<1>11. Bad = {}
  <2> SUFFICES ASSUME Bad # {} PROVE FALSE
    OBVIOUS
  <2>1. PICK g \in Bad : \A m \in Bad : m <= g
    <3>1. Bad \in SUBSET (1..n)
      BY <1>1
    <3> HIDE DEF Bad
    <3> QED BY <1>1, <3>1, GreatestIs
  <2>2. Corrections(g, F) # {}
    BY <1>10
  <2>3. Follow(g) \in F /\ Follow(g) > g /\ figures[Follow(g)].metric = figures[g].metric /\ figures[Follow(g)].value # None
    BY <1>2, <2>2
  <2>4. Follow(g) \notin Bad
    BY <1>1, <2>1, <2>3
  <2> QED BY <1>10, <2>2, <2>3, <2>4
<1> QED BY <1>8, <1>11 DEF last

LEMMA CorrectFindsStep ==
    ASSUME CardInv, CardsAssumption, NEW r \in Requests, Timed(r), CorrectFinds(r) PROVE CardInv'
<1> DEFINE ask == Ask[r]
<1>1. pc[r] = "new" /\ ask.kind = "correct" /\ BaseInv /\ OnceInv /\ DOMAIN plan = Requests
  <2>1. pc[r] = "new" /\ ask.kind = "correct"
    BY Zenon DEF CorrectFinds, Begins
  <2> QED BY <2>1 DEF CardInv, ArrangedInv, BaseInv, Controlled
<1>2. CASE Halts(r)
  BY <1>1, <1>2, StepHalts
<1>3. CASE ~Halts(r)
  <2>0. CorrectFinds(r) /\ ~Stops(r, "refused")
    BY <1>3 DEF Halts
  <2>1. Goes(r, "correct") /\ UNCHANGED <<events, figures, current, seen, revived>>
    BY ONLY <2>0 DEF CorrectFinds, Keeps, rows, display
  <2>2. PICK pick \in [DOMAIN ask.figures -> DOMAIN figures] :
           /\ \A m \in DOMAIN ask.figures : pick[m] \in ShownOf(ask.card, m)
           /\ Plans(r, {pick[m] : m \in {x \in DOMAIN ask.figures : figures[pick[x]].value # ask.figures[x]}})
    BY ONLY <2>0 DEF CorrectFinds
  <2>3. ASSUME NEW m \in DOMAIN ask.figures
        PROVE  /\ figures[pick[m]].value # None /\ figures[pick[m]].metric = m
               /\ Corrections(pick[m], Rows(None, figures)) = {}
    <3>1. PICK F : F = Rows(None, figures)
      OBVIOUS
    <3>2. PICK f \in Newest({g \in current : /\ IsCard(Of(g), ask.card)
                                             /\ figures[g].metric = m /\ figures[g].value # None}) :
             pick[m] = NewestCorrection(f, F)
      <4>1. pick[m] \in ShownOf(ask.card, m)
        BY <2>2
      <4> HIDE DEF ask
      <4> QED BY ONLY <3>1, <4>1 DEF ShownOf
    <3>3. f \in current /\ figures[f].metric = m /\ figures[f].value # None
      BY <3>2 DEF Newest
    <3>4. f \in F
      BY <1>1, <3>1, <3>3 DEF BaseInv, Controlled
    <3> QED BY <3>1, <3>2, <3>3, <3>4, FollowedTo DEF CardInv
  <2>4. plan'[r] = {pick[m] : m \in {x \in DOMAIN ask.figures : figures[pick[x]].value # ask.figures[x]}}
    BY <1>1, <2>2 DEF Plans
  <2>5. Wrongly(r)'
    BY <1>1, <2>1, <2>2, <2>3, <2>4 DEF Wrongly
  <2>6. pc'[r] = "correct" /\ Saved' = Saved /\ ~Moves(r)
    BY <1>1, <2>1 DEF Goes, Saved, Moves, BaseInv, Controlled
  <2>7. Righting(r)'
    <3>1. plan'[r] \subseteq DOMAIN figures
      BY <2>2, <2>4
    <3>2. \A f, g \in plan'[r] : figures[f].metric = figures[g].metric => f = g
      BY <2>3, <2>4
    <3>3. ASSUME NEW f \in plan'[r], NEW c \in DOMAIN figures, figures[c].by \in Saved
          PROVE  figures[c].corrects # f /\ (Carried(f, c) => Retracted(f, Rows(None, figures)))
      <4>1. f \in DOMAIN figures /\ Corrections(f, Rows(None, figures)) = {}
        <5>1. PICK m \in DOMAIN ask.figures : f = pick[m]
          BY <2>4
        <5> QED BY <2>3, <3>1, <5>1
      <4>2. figures[c].corrects # f
        BY <3>3, <4>1 DEF Corrections, Rows
      <4>3. ASSUME Carried(f, c) PROVE Retracted(f, Rows(None, figures))
        <5>1. PICK q : q = figures[c].by
          OBVIOUS
        <5>2. q \in Requests /\ Moves(q) /\ q \in Saved
          BY <3>3, <4>3, <5>1 DEF Carried
        <5>3. pc[q] = "ended"
          BY <1>1, <5>2 DEF Saved, CardsAssumption, BaseInv, Controlled
        <5>4. After(f, Rows(q, figures))
          BY <1>1, <4>1, <4>3, <5>1, <5>2, <5>3 DEF OnceInv, ItsOwn, GoneFrom
        <5>5. Rows(q, figures) \subseteq Rows(None, figures)
          BY <5>2 DEF Rows
        <5> QED BY <4>1, <5>4, <5>5 DEF After, Retracted, Corrections
      <4> QED BY <4>2, <4>3
    <3>4. \A f, c : Carried(f, c)' <=> Carried(f, c)
      BY <2>1 DEF Carried, Moves
    <3>5. \A f : Retracted(f, Rows(None, figures))' <=> Retracted(f, Rows(None, figures))
      BY <2>1, <2>6 DEF Retracted, Rows
    <3> QED BY <2>1, <2>6, <3>1, <3>2, <3>3, <3>4, <3>5 DEF Righting
  <2>8. ItsOwn(r)'
    <3>1. Yet(r)
      BY <1>1 DEF OnceInv, ItsOwn
    <3> QED BY <1>1, <2>1, <2>6, <2>7, <3>1 DEF ItsOwn, Yet, YetToCome, CopiedFrom, GoneFrom, Refiling, Moves
  <2> QED BY <1>1, <2>1, <2>2, <2>5, <2>6, <2>8, StepGoes DEF CardSteps, Refiling, Moves
<1> QED BY <1>2, <1>3

------------------------------------------------------------------------------
(* The invariants hold *)

LEMMA FoldsAreOfFile == ASSUME NEW C \in Folds PROVE C \subseteq Rows(None, figures)
<1> DEFINE F == Rows(None, figures)
           L == {f \in F : Live(f, F)}
           front == UNION {Newest(Shelf(f, L)) : f \in L}
           tied == {f \in front : Shelf(f, front) # {f}}
<1>1. PICK T \in SUBSET tied : C = (front \ tied) \cup T
  BY DEF Folds
<1>2. front \subseteq F
  BY DEF Newest, Shelf
<1> QED BY <1>1, <1>2

\* What changes no row and no request's place changes none of it.
LEMMA CardStays ==
    ASSUME CardInv, UNCHANGED <<events, figures, pc, outcome, plan, seen, before, revived>>,
           current' \subseteq Rows(None, figures)
    PROVE  CardInv'
<1>1. Saved' = Saved /\ \A q : Rows(q, figures)' = Rows(q, figures) /\ Rows(q, events)' = Rows(q, events)
  BY DEF Saved, Rows
<1>2. BaseInv'
  <2>1. Filed'
    BY DEF CardInv, ArrangedInv, BaseInv, Filed
  <2>2. Controlled'
    BY <1>1 DEF CardInv, ArrangedInv, BaseInv, Controlled
  <2> QED BY <2>1, <2>2 DEF BaseInv
<1>3. ArrangedInv'
  <2>1. Valued' /\ MirrorsSaid'
    BY DEF CardInv, ArrangedInv, Valued, MirrorsSaid
  <2>2. Wrong'
    BY DEF CardInv, ArrangedInv, Wrong, Wrongly
  <2>3. SizesSaid'
    BY DEF CardInv, ArrangedInv, SizesSaid, SizeSaid, Of
  <2> QED BY <1>2, <2>1, <2>2, <2>3 DEF ArrangedInv
<1>4. MoveInv'
  <2>1. \A q, card : LiveOn(q, card)' = LiveOn(q, card)
    BY <1>1 DEF LiveOn, IsCard, Of, Live, Retracted
  <2>2. \A q, e : Mirror(q, e)' = Mirror(q, e)
    BY DEF Mirror, IsCard
  <2>3. \A q \in Requests : \A f : Took(q, f)' <=> Took(q, f)
    BY <2>1 DEF Took
  <2>4. \A q, f, c : Copy(q, f, c)' <=> Copy(q, f, c)
    BY DEF Copy
  <2>5. ASSUME NEW q \in Requests PROVE OneCard(q)' /\ MirroredFirst(q)' /\ CopiedThen(q)'
    <3>1. OneCard(q) /\ MirroredFirst(q) /\ CopiedThen(q)
      BY DEF CardInv, MoveInv
    <3>2. OneCard(q)'
      BY <3>1 DEF OneCard, Moves
    <3>3. MirroredFirst(q)'
      <4> SUFFICES ASSUME Moves(q), pc'[q] = "copy", NEW f \in DOMAIN figures', Took(q, f)'
                   PROVE  Mirror(q, figures[f].event)' # {}
        BY DEF MirroredFirst, Moves
      <4>1. Mirror(q, figures[f].event) # {}
        BY <2>3, <3>1 DEF MirroredFirst
      <4> QED BY <4>1 DEF Mirror, IsCard
    <3>4. CopiedThen(q)'
      BY <2>3, <2>4, <3>1 DEF CopiedThen
    <3> QED BY <3>2, <3>3, <3>4
  <2>6. ASSUME NEW x \in DOMAIN figures' PROVE RetractedLast(x)'
    <3>1. RetractedLast(x)
      BY DEF CardInv, MoveInv
    <3> QED BY <2>4, <3>1 DEF RetractedLast, Moves
  <2> QED BY <1>2, <2>5, <2>6 DEF MoveInv
<1>5. OnceInv'
  <2>1. /\ Failed' = Failed /\ \A f : Of(f)' = Of(f)
        /\ \A f, c : (Carried(f, c)' <=> Carried(f, c)) /\ (Heir(f, c)' <=> Heir(f, c))
        /\ \A f : Retracted(f, Rows(None, figures))' <=> Retracted(f, Rows(None, figures))
        /\ \A f, q : After(f, Rows(q, figures))' <=> After(f, Rows(q, figures))
    BY <1>1 DEF Failed, Of, Carried, Heir, Moves, Retracted, After
  <2>2. ASSUME NEW q \in Requests PROVE Timely(q)' /\ ItsOwn(q)'
    <3>1. Timely(q) /\ ItsOwn(q)
      BY DEF CardInv, OnceInv
    <3>2. Timely(q)' /\ Yet(q)'
      BY <3>1 DEF Timely, ItsOwn, Yet, Moves
    <3>3. Righting(q)'
      BY <1>1, <2>1, <3>1 DEF ItsOwn, Righting
    <3>4. YetToCome(q)'
      BY <2>1, <3>1 DEF ItsOwn, YetToCome, Moves
    <3>5. CopiedFrom(q)'
      BY <1>1, <2>1, <3>1 DEF ItsOwn, CopiedFrom, Moves, IsCard
    <3>6. GoneFrom(q)'
      BY <2>1, <3>1 DEF ItsOwn, GoneFrom, Moves
    <3> QED BY <3>2, <3>3, <3>4, <3>5, <3>6 DEF ItsOwn
  <2>3. MirrorsTold' /\ OneOfEach'
    BY <1>1 DEF CardInv, OnceInv, MirrorsTold, OneOfEach, Moves
  <2>4. MatchesOnce'
    BY <2>1 DEF CardInv, OnceInv, MatchesOnce, Matching, Twice, Overlap
  <2>5. HeirOnce'
    BY <2>1 DEF CardInv, OnceInv, HeirOnce, Met, Overlap
  <2> QED BY <2>2, <2>3, <2>4, <2>5 DEF CardInv, OnceInv
<1> QED BY <1>3, <1>4, <1>5 DEF CardInv

LEMMA CardInvInit ==
    ASSUME CardsAssumption, OnFileAssumption, CardsInit PROVE CardInv
<1>1. /\ events = OnFile.events /\ figures = OnFile.figures
      /\ pc = [r \in Requests |-> "new"] /\ outcome = [r \in Requests |-> "none"]
      /\ plan = [r \in Requests |-> None] /\ seen = [r \in Requests |-> {}] /\ current \in Folds
      /\ before = [r \in Requests |-> {}]
  BY DEF CardsInit
<1>2. Filed
  <2>1. Sequential(events) /\ Sequential(figures)
    BY <1>1 DEF OnFileAssumption, Sequential
  <2>2. \A e \in DOMAIN events : DOMAIN events[e] = EventFields /\ events[e].by \in Given \cup Requests
    BY <1>1 DEF OnFileAssumption, EventFields
  <2>3. \A f \in DOMAIN figures :
           /\ DOMAIN figures[f] = FigureFields
           /\ figures[f].event \in DOMAIN events /\ figures[f].by = events[figures[f].event].by
           /\ figures[f].corrects \in 0..(f - 1) /\ figures[f].retracts \in 0..(f - 1)
    BY <1>1 DEF OnFileAssumption, FigureFields
  <2> QED BY <2>1, <2>2, <2>3 DEF Filed
<1>3. Controlled
  <2>1. current \subseteq Rows(None, figures)
    BY <1>1, FoldsAreOfFile
  <2> QED BY <1>1, <2>1 DEF Controlled, CardSteps
<1>4. BaseInv
  BY <1>2, <1>3 DEF BaseInv
<1>5. Valued /\ MirrorsSaid
  BY <1>1 DEF OnFileAssumption, Valued, MirrorsSaid
<1>6. SizesSaid
  BY <1>1 DEF OnFileAssumption, SizesSaid, SizeSaid, Of, Sizes
<1>7. Wrong
  BY <1>1 DEF Wrong
<1>8. \A r \in Requests : OneCard(r) /\ MirroredFirst(r) /\ CopiedThen(r)
  BY <1>1 DEF OneCard, MirroredFirst, CopiedThen, Refiling
<1>9. ASSUME NEW x \in DOMAIN figures PROVE RetractedLast(x)
  <2>1. figures[x].by \in Given
    BY <1>1 DEF OnFileAssumption
  <2> QED BY <2>1 DEF RetractedLast, CardsAssumption
<1>10. OnceInv
  <2>1. /\ \A e \in DOMAIN events : events[e].by \in Given /\ events[e].by \notin Requests
        /\ \A f \in DOMAIN figures : figures[f].by \in Given /\ figures[f].by \notin Requests
    BY <1>1 DEF OnFileAssumption, CardsAssumption
  <2>2. ASSUME NEW r \in Requests PROVE Timely(r) /\ ItsOwn(r)
    <3>1. pc[r] = "new" /\ before[r] = {}
      BY <1>1
    <3> QED BY <2>1, <3>1 DEF Timely, ItsOwn, Yet, Righting, YetToCome, CopiedFrom, GoneFrom, Refiling
  <2>3. MirrorsTold
    <3> SUFFICES ASSUME NEW e \in DOMAIN events, events[e].from # 0 PROVE events[e].from \in DOMAIN events
      BY <2>1 DEF MirrorsTold
    <3>1. events[e].from \in 0..(e - 1)
      BY <1>1 DEF OnFileAssumption
    <3>2. DOMAIN events = 1..Len(events) /\ Len(events) \in Nat
      BY <1>2 DEF Filed, Sequential
    <3> QED BY <3>1, <3>2
  <2>4. MatchesOnce
    BY <2>1 DEF MatchesOnce, Matching
  <2>5. OneOfEach
    BY <1>1 DEF OnFileAssumption, OneOfEach
  <2>6. HeirOnce
    BY <2>1 DEF HeirOnce, Met
  <2>7. DOMAIN before = Requests
    BY <1>1
  <2> QED BY <2>2, <2>3, <2>4, <2>5, <2>6, <2>7 DEF OnceInv
<1> QED BY <1>4, <1>5, <1>6, <1>7, <1>8, <1>9, <1>10 DEF CardInv, ArrangedInv, MoveInv


\* A step is a request's first, or a later one.
LEMMA StepTimed == ASSUME NEW r \in Requests, Step(r) PROVE Timed(r)
<1>1. ASSUME NEW kinds, Begins(r, kinds) PROVE Timed(r)
  BY <1>1 DEF Begins, Timed
<1>2. ASSUME NEW stage, stage # "new", At(r, stage) PROVE Timed(r)
  BY <1>2 DEF At, Timed
<1>3. LookTakes(r) => \E kinds : Begins(r, kinds)
  BY Zenon DEF LookTakes
<1>4. EvidenceTakes(r) => \E kinds : Begins(r, kinds)
  BY Zenon DEF EvidenceTakes
<1>5. WeighTakes(r) => \E kinds : Begins(r, kinds)
  BY Zenon DEF WeighTakes
<1>6. Uploads(r) => \E kinds : Begins(r, kinds)
  BY Zenon DEF Uploads
<1>7. SaysSame(r) => \E kinds : Begins(r, kinds)
  BY Zenon DEF SaysSame
<1>8. TakesFromQueue(r) => \E kinds : Begins(r, kinds)
  BY Zenon DEF TakesFromQueue
<1>9. FaceFiles(r) => \E kinds : Begins(r, kinds)
  BY Zenon DEF FaceFiles
<1>10. Shifts(r) => \E kinds : Begins(r, kinds)
  BY Zenon DEF Shifts
<1>11. CorrectFinds(r) => \E kinds : Begins(r, kinds)
  BY Zenon DEF CorrectFinds
<1>12. SayReads(r) => \E kinds : Begins(r, kinds)
  BY Zenon DEF SayReads
<1>13. RefileChecks(r) => \E kinds : Begins(r, kinds)
  BY Zenon DEF RefileChecks
<1>14. MatchChecks(r) => \E kinds : Begins(r, kinds)
  BY Zenon DEF MatchChecks
<1>15. LookCommits(r) => At(r, "put")
  BY Zenon DEF LookCommits
<1>16. RecordsCut(r) => At(r, "cut")
  BY Zenon DEF RecordsCut
<1>17. FaceMoves(r) => At(r, "move")
  BY Zenon DEF FaceMoves
<1>18. CorrectPuts(r) => At(r, "correct")
  BY Zenon DEF CorrectPuts
<1>19. SayWrites(r) => At(r, "say")
  BY Zenon DEF SayWrites
<1>20. MoverSays(r) => At(r, "says")
  BY Zenon DEF MoverSays
<1>21. Skips(r) => At(r, "mirror")
  BY Zenon DEF Skips
<1>22. Mirrors(r) => At(r, "mirror")
  BY Zenon DEF Mirrors
<1>23. Copies(r) => At(r, "copy")
  BY Zenon DEF Copies
<1>24. Retracts(r) => At(r, "retract")
  BY Zenon DEF Retracts
<1>25. Lists(r) => At(r, "list")
  BY Zenon DEF Lists
<1>26. Files(r) => At(r, "file")
  BY Zenon DEF Files
<1>27. (\E kinds : Begins(r, kinds)) \/ \E stage : stage # "new" /\ At(r, stage)
  BY <1>3, <1>4, <1>5, <1>6, <1>7, <1>8, <1>9, <1>10, <1>11, <1>12, <1>13, <1>14,
     <1>15, <1>16, <1>17, <1>18, <1>19, <1>20, <1>21, <1>22, <1>23, <1>24, <1>25, <1>26 DEF Step
<1> QED BY <1>1, <1>2, <1>27

LEMMA CardInvKept ==
    ASSUME CardsAssumption, AskAssumption, CardInv, [CardsNext]_cardVars PROVE CardInv'
<1>1. ASSUME NEW r \in Requests, Step(r) PROVE CardInv'
  <2>1. Timed(r)
    BY <1>1, StepTimed
  <2> QED BY <1>1, <2>1, TakesStep, LookCommitsStep, UploadsStep, CutsStep, FacesStep, CorrectFindsStep, CorrectPutsStep,
             SayStep, ChecksStep, MoverSaysStep, SkipsStep, MirrorsStep, CopiesStep, RetractsStep, ListsStep, FilesStep DEF Step
<1>2. CASE Drains
  <2>1. UNCHANGED <<events, figures, pc, outcome, plan, seen, before, revived>> /\ current' \in Folds
    BY <1>2 DEF Drains, control, rows
  <2>2. current' \subseteq Rows(None, figures)
    BY <2>1, FoldsAreOfFile
  <2> QED BY <2>1, <2>2, CardStays
<1>3. CASE UNCHANGED cardVars
  <2>1. UNCHANGED <<events, figures, pc, outcome, plan, seen, before, revived, current>>
    BY <1>3 DEF cardVars, control, rows, display
  <2>2. current' \subseteq Rows(None, figures)
    BY <2>1 DEF CardInv, ArrangedInv, BaseInv, Controlled
  <2> QED BY <2>1, <2>2, CardStays
<1> QED BY <1>1, <1>2, <1>3 DEF CardsNext

\* What a card is said to be, and a move of it, as far as each has come.
THEOREM CardInvHolds == CardsSpec => []CardInv
<1>1. CardsInit => CardInv
  BY CardInvInit, CardsAssumption, OnFileAssumption
<1>2. CardInv /\ [CardsNext]_cardVars => CardInv'
  BY CardInvKept, CardsAssumption, AskAssumption
<1> QED BY <1>1, <1>2, PTL DEF CardsSpec

\* A size of a single thing says how the thing was arranged, whichever act put it there.
THEOREM EachSizesArrangedHolds == CardsSpec => []EachSizesArranged
<1>1. CardInv => EachSizesArranged
  <2> SUFFICES ASSUME CardInv, NEW f \in Rows(None, figures) PROVE SizeSaid(f)
    BY DEF EachSizesArranged, SizeSaid
  <2> QED BY DEF CardInv, ArrangedInv, SizesSaid, Rows
<1> QED BY <1>1, CardInvHolds, PTL

\* A figure is retracted from the card it was on only when it is on the other, as it was,
\* unless it was recorded while the card was being moved.
THEOREM NothingForgottenHolds == CardsSpec => []NothingForgotten
<1>1. CardInv => NothingForgotten
  <2> SUFFICES ASSUME CardInv, NEW x \in Rows(None, figures), NEW f, NEW r, f = figures[x].retracts, r = figures[x].by,
                      f # 0, r \in Requests, figures[f].by \in seen[r]
               PROVE  \E c \in CopyOf(f, r) : figures[c].value = figures[f].value
    BY DEF NothingForgotten
  <2>1. x \in DOMAIN figures /\ r \in Saved \cup {None}
    BY DEF Rows
  <2>2. PICK c \in DOMAIN figures : Copy(r, f, c)
    BY <2>1 DEF CardInv, MoveInv, RetractedLast
  <2>3. c \in CopyOf(f, r) /\ figures[c].value = figures[f].value
    BY <2>1, <2>2 DEF Copy, CopyOf, Rows
  <2> QED BY <2>3
<1> QED BY <1>1, CardInvHolds, PTL

\* A figure has one figure after it, and a match brings a look once, but for acts that met.
THEOREM OnceEachHolds == CardsSpec => []OnceEach
<1>1. CardInv => OneHeir
  <2> SUFFICES ASSUME CardInv, NEW f \in Rows(None, figures), NEW c \in Heirs(f), NEW d \in Heirs(f), c # d,
                      f \notin revived, ~({figures[c].by, figures[d].by} \subseteq Given)
               PROVE  Overlap(figures[c].by, figures[d].by)
    BY DEF OneHeir
  <2>1. None \notin Requests /\ None \notin Given
    BY CardsAssumption DEF CardsAssumption
  <2>2. ASSUME NEW x \in Heirs(f) PROVE x \in DOMAIN figures /\ Heir(f, x) /\ figures[x].by \notin Failed
    <3>1. x \in Rows(None, figures) /\ Heir(f, x)
      BY DEF Heirs, Heir, CopyOf, Carried, Moves
    <3>2. x \in DOMAIN figures /\ figures[x].by \in Given \cup Requests
      BY <3>1 DEF Rows, CardInv, ArrangedInv, BaseInv, Filed
    <3>3. figures[x].by \in Saved
      BY <2>1, <3>1, <3>2 DEF Rows
    <3>4. figures[x].by \notin Failed
      BY <3>3, CardsAssumption DEF Saved, Failed, CardsAssumption
    <3> QED BY <3>1, <3>2, <3>4
  <2>3. f \in DOMAIN figures
    BY DEF Rows
  <2>4. Met(c, d)
    BY <2>2, <2>3 DEF CardInv, OnceInv, HeirOnce
  <2> QED BY <2>4 DEF Met
<1>2. CardInv => MatchedOnce
  <2> SUFFICES ASSUME CardInv, NEW d \in Rows(None, events), NEW e \in Rows(None, events),
                      events[d].by \in Requests, Ask[events[d].by].kind = "match",
                      events[e].by \in Requests, Ask[events[e].by].kind = "match",
                      d # e, events[d].from = events[e].from, events[d].of = events[e].of, events[d].from # 0
               PROVE  Overlap(events[d].by, events[e].by)
    BY DEF MatchedOnce
  <2>1. None \notin Requests /\ Given \cap Requests = {}
    BY CardsAssumption DEF CardsAssumption
  <2>2. d \in DOMAIN events /\ e \in DOMAIN events /\ events[d].by \notin Failed /\ events[e].by \notin Failed
    BY <2>1 DEF Rows, Saved, Failed
  <2>3. Matching(d) /\ Matching(e) /\ Twice(d, e)
    BY <2>2 DEF Matching, Twice
  <2> QED BY <2>2, <2>3 DEF CardInv, OnceInv, MatchesOnce
<1> QED BY <1>1, <1>2, CardInvHolds, PTL DEF OnceEach

------------------------------------------------------------------------------
(* The drain *)

USE NStepsAssumption, MaxAbortsAssumption, ActorsAssumption
USE DEF NStepsAssumption, MaxAbortsAssumption, ActorsAssumption

\* Facts every rebuild that is folding must have seen.
Old == Committed \ overlapped

RanAll(r)    == step[r] = NSteps + 1 /\ ~failed[r]
StoppedAt(r) == step[r] \in Steps /\ failed[r]

RunShape == \A r \in Runs :
    /\ rpc[r] \in {"idle", "done"} => step[r] = 1 /\ ~failed[r]
    /\ rpc[r] \in {"read", "write"} => step[r] \in Steps /\ ~failed[r]
    /\ rpc[r] = "clear" => RanAll(r) \/ StoppedAt(r)
    /\ rpc[r] = "mark" => r \in Receipts
    /\ rpc[r] \in {"mark", "commit"} =>
           \/ RanAll(r)
           \/ StoppedAt(r)
           \/ r \in Receipts /\ step[r] = 1 /\ ~failed[r]

LockShape ==
    /\ \A w \in Writers : wpc[w] = "open" <=> dirtyLock = w
    /\ \A r \in Runs : dirtyLock = r => rpc[r] \in {"mark", "commit"}
    /\ \A r \in Receipts : rpc[r] = "commit" => dirtyLock = r

FoldCovers == \A r \in Runs :
    /\ Folding(r) => \A s \in Steps : s < step[r] => Old \subseteq work[r][s]
    /\ rpc[r] = "write" => Old \subseteq snap[r]
    /\ rpc[r] \in {"mark", "commit"} =>
           \/ \A s \in Steps : s < step[r] => Old \subseteq work[r][s]
           \/ dirty /\ (dirtyLock # r \/ r \in Receipts)

FoldIsFresh ==
    /\ \A s \in Steps : proj[s] \subseteq Committed
    /\ \A r \in Runs :
        /\ snap[r] \subseteq Committed \cup Own(r)
        /\ \A s \in Steps : work[r][s] \subseteq Committed \cup Own(r)
        /\ rpc[r] = "write" /\ step[r] > 1 => proj[step[r]] \subseteq snap[r]
        /\ \A s \in Steps \ {1} : s < step[r] => proj[s] \subseteq work[r][s]

IInv ==
    /\ TypeOK
    /\ RunShape
    /\ LockShape
    /\ SerialisedRuns
    /\ FoldCovers
    /\ FoldIsFresh
    /\ CleanMeansFolded

------------------------------------------------------------------------------
\* The initial state: nobody is in a transaction and nothing is projected.
LEMMA InitIInv == Init => IInv
<1> SUFFICES ASSUME Init PROVE IInv
  OBVIOUS
<1>1. TypeOK
  <2> USE DEF Init
  <2>1. wpc \in [Writers -> {"idle", "open", "committed"}] /\ rpc \in [Runs -> RunStates]
    BY DEF RunStates
  <2>2. step \in [Runs -> 1..(NSteps + 1)] /\ failed \in [Runs -> BOOLEAN]
    OBVIOUS
  <2>3. snap \in [Runs -> SUBSET Facts] /\ work \in [Runs -> [Steps -> SUBSET Facts]]
    OBVIOUS
  <2>4. proj \in [Steps -> SUBSET Facts] /\ lastError \in [Steps -> BOOLEAN]
    OBVIOUS
  <2>5. dirty \in BOOLEAN /\ limited \in BOOLEAN
    OBVIOUS
  <2>6. dirtyLock \in Writers \cup Runs \cup {NoOne}
    OBVIOUS
  <2>7. aborts \in 0..MaxAborts
    OBVIOUS
  <2>8. overlapped \subseteq Facts
    OBVIOUS
  <2> QED
    BY <2>1, <2>2, <2>3, <2>4, <2>5, <2>6, <2>7, <2>8 DEF TypeOK
<1>2. RunShape /\ LockShape /\ SerialisedRuns
  BY DEF Init, RunShape, LockShape, SerialisedRuns, PastFirst, Active, Runs, Demand
<1>3. FoldCovers /\ FoldIsFresh /\ CleanMeansFolded
  BY DEF Init, FoldCovers, FoldIsFresh, CleanMeansFolded, Folding, Committed, Old,
         Runs, Demand
<1> QED
  BY <1>1, <1>2, <1>3 DEF IInv

\* Every action keeps the variables in their types.
LEMMA TypeStep == TypeOK /\ RunShape /\ [Next]_vars => TypeOK'
<1> SUFFICES ASSUME TypeOK, RunShape, [Next]_vars PROVE TypeOK'
  OBVIOUS
<1> USE DEF TypeOK, RunStates
<1>1. ASSUME NEW w \in Writers, WriteTx(w) PROVE TypeOK'
  <2>1. CASE Write(w)
    BY <2>1 DEF Write
  <2>2. CASE CommitWrite(w)
    <3>1. dirty' \in BOOLEAN
      BY <2>2 DEF CommitWrite
    <3>2. overlapped' \subseteq Facts
      BY <2>2 DEF CommitWrite, Facts
    <3> QED
      BY <2>2, <3>1, <3>2 DEF CommitWrite
  <2>3. CASE AbortWrite(w)
    BY <2>3 DEF AbortWrite
  <2> QED
    BY <1>1, <2>1, <2>2, <2>3 DEF WriteTx
<1>2. CASE BeginDrain
  BY <1>2 DEF BeginDrain, Start, Runs
<1>3. ASSUME NEW r \in Demand, BeginRefresh(r) PROVE TypeOK'
  BY <1>3 DEF BeginRefresh, Start, Runs
<1>4. ASSUME NEW r \in Receipts, BeginLimitedReceipt(r) PROVE TypeOK'
  BY <1>4 DEF BeginLimitedReceipt, Start, Runs, Demand
<1>5. ASSUME NEW r \in Runs, ReadLedger(r) PROVE TypeOK'
  BY <1>5 DEF ReadLedger, Committed, Own, Facts
<1>6. ASSUME NEW r \in Runs, WriteStep(r) PROVE TypeOK'
  BY <1>6 DEF WriteStep, Steps, RunShape
<1>7. ASSUME NEW r \in Runs, ClearMark(r) PROVE TypeOK'
  BY <1>7 DEF ClearMark, AfterClear
<1>8. ASSUME NEW r \in Runs, MarkReceipt(r) PROVE TypeOK'
  BY <1>8 DEF MarkReceipt
<1>9. ASSUME NEW r \in Runs, CommitRun(r) PROVE TypeOK'
  BY <1>9 DEF CommitRun, End, Steps, Facts
<1>10. ASSUME NEW r \in Runs, FailStep(r) PROVE TypeOK'
  BY <1>10 DEF FailStep
<1>11. ASSUME NEW r \in Runs, AbortRun(r) PROVE TypeOK'
  BY <1>11 DEF AbortRun, End
<1>12. CASE Elapse
  BY <1>12 DEF Elapse
<1>13. CASE UNCHANGED vars
  BY <1>13 DEF vars
<1> QED
  BY <1>1, <1>2, <1>3, <1>4, <1>5, <1>6, <1>7, <1>8, <1>9, <1>10, <1>11, <1>12,
     <1>13 DEF Next, Progress

\* Where a rebuild is and how far it got agree.
LEMMA RunShapeStep == TypeOK /\ RunShape /\ [Next]_vars => RunShape'
<1> SUFFICES ASSUME TypeOK, RunShape, [Next]_vars PROVE RunShape'
  OBVIOUS
<1> USE DEF TypeOK, RunShape, RanAll, StoppedAt, Steps
<1>1. ASSUME NEW w \in Writers, WriteTx(w) PROVE RunShape'
  BY <1>1 DEF WriteTx, Write, CommitWrite, AbortWrite
<1>2. CASE BeginDrain
  BY <1>2 DEF BeginDrain, Start, Runs
<1>3. ASSUME NEW r \in Demand, BeginRefresh(r) PROVE RunShape'
  BY <1>3 DEF BeginRefresh, Start, Runs
<1>4. ASSUME NEW r \in Receipts, BeginLimitedReceipt(r) PROVE RunShape'
  BY <1>4 DEF BeginLimitedReceipt, Start, Runs, Demand
<1>5. ASSUME NEW r \in Runs, ReadLedger(r) PROVE RunShape'
  BY <1>5 DEF ReadLedger
<1>6. ASSUME NEW r \in Runs, WriteStep(r) PROVE RunShape'
  BY <1>6 DEF WriteStep
<1>7. ASSUME NEW r \in Runs, ClearMark(r) PROVE RunShape'
  BY <1>7 DEF ClearMark, AfterClear
<1>8. ASSUME NEW r \in Runs, MarkReceipt(r) PROVE RunShape'
  BY <1>8 DEF MarkReceipt
<1>9. ASSUME NEW r \in Runs, CommitRun(r) PROVE RunShape'
  BY <1>9 DEF CommitRun, End
<1>10. ASSUME NEW r \in Runs, FailStep(r) PROVE RunShape'
  BY <1>10 DEF FailStep
<1>11. ASSUME NEW r \in Runs, AbortRun(r) PROVE RunShape'
  BY <1>11 DEF AbortRun, End
<1>12. CASE Elapse
  BY <1>12 DEF Elapse
<1>13. CASE UNCHANGED vars
  BY <1>13 DEF vars
<1> QED
  BY <1>1, <1>2, <1>3, <1>4, <1>5, <1>6, <1>7, <1>8, <1>9, <1>10, <1>11, <1>12,
     <1>13 DEF Next, Progress

\* The mark's row is locked by an open write or by a rebuild that is about to
\* commit, and by nobody else.
LEMMA LockShapeStep == TypeOK /\ LockShape /\ [Next]_vars => LockShape'
<1> SUFFICES ASSUME TypeOK, LockShape, [Next]_vars PROVE LockShape'
  OBVIOUS
<1> USE DEF TypeOK, LockShape, Runs, Demand
<1>1. ASSUME NEW w \in Writers, WriteTx(w) PROVE LockShape'
  BY <1>1 DEF WriteTx, Write, CommitWrite, AbortWrite
<1>2. CASE BeginDrain
  BY <1>2 DEF BeginDrain, Start
<1>3. ASSUME NEW r \in Demand, BeginRefresh(r) PROVE LockShape'
  BY <1>3 DEF BeginRefresh, Start
<1>4. ASSUME NEW r \in Receipts, BeginLimitedReceipt(r) PROVE LockShape'
  BY <1>4 DEF BeginLimitedReceipt, Start
<1>5. ASSUME NEW r \in Runs, ReadLedger(r) PROVE LockShape'
  BY <1>5 DEF ReadLedger
<1>6. ASSUME NEW r \in Runs, WriteStep(r) PROVE LockShape'
  BY <1>6 DEF WriteStep
<1>7. ASSUME NEW r \in Runs, ClearMark(r) PROVE LockShape'
  BY <1>7 DEF ClearMark, AfterClear
<1>8. ASSUME NEW r \in Runs, MarkReceipt(r) PROVE LockShape'
  BY <1>8 DEF MarkReceipt
<1>9. ASSUME NEW r \in Runs, CommitRun(r) PROVE LockShape'
  BY <1>9 DEF CommitRun, End
<1>10. ASSUME NEW r \in Runs, FailStep(r) PROVE LockShape'
  BY <1>10 DEF FailStep
<1>11. ASSUME NEW r \in Runs, AbortRun(r) PROVE LockShape'
  BY <1>11 DEF AbortRun, End
<1>12. CASE Elapse
  BY <1>12 DEF Elapse
<1>13. CASE UNCHANGED vars
  BY <1>13 DEF vars
<1> QED
  BY <1>1, <1>2, <1>3, <1>4, <1>5, <1>6, <1>7, <1>8, <1>9, <1>10, <1>11, <1>12,
     <1>13 DEF Next, Progress

\* Leaving the first step needs its freshness row, which a rebuild that has left
\* it holds.
LEMMA SerialisedStep ==
    TypeOK /\ RunShape /\ SerialisedRuns /\ [Next]_vars => SerialisedRuns'
<1> SUFFICES ASSUME TypeOK, RunShape, SerialisedRuns, [Next]_vars
             PROVE  SerialisedRuns'
  OBVIOUS
<1> USE DEF TypeOK, SerialisedRuns, PastFirst, Active
<1>1. ASSUME NEW w \in Writers, WriteTx(w) PROVE SerialisedRuns'
  BY <1>1 DEF WriteTx, Write, CommitWrite, AbortWrite
<1>2. CASE BeginDrain
  BY <1>2 DEF BeginDrain, Start, RunShape, Runs
<1>3. ASSUME NEW r \in Demand, BeginRefresh(r) PROVE SerialisedRuns'
  BY <1>3 DEF BeginRefresh, Start, RunShape, Runs
<1>4. ASSUME NEW r \in Receipts, BeginLimitedReceipt(r) PROVE SerialisedRuns'
  BY <1>4 DEF BeginLimitedReceipt, Start, RunShape, Runs, Demand
<1>5. ASSUME NEW r \in Runs, ReadLedger(r) PROVE SerialisedRuns'
  BY <1>5 DEF ReadLedger
<1>6. ASSUME NEW r \in Runs, WriteStep(r) \/ FailStep(r) PROVE SerialisedRuns'
  <2>1. step[r] \in Steps /\ Active(r)
    BY <1>6 DEF WriteStep, FailStep, RunShape
  <2>2. \A q \in Runs \ {r} : ~PastFirst(q)
    <3> SUFFICES ASSUME NEW q \in Runs \ {r}, PastFirst(q) PROVE FALSE
      OBVIOUS
    <3>1. step[r] = 1
      BY <2>1 DEF Steps
    <3>2. HeldByOther(r, step[r])
      BY <3>1 DEF HeldByOther
    <3> QED
      BY <1>6, <3>2 DEF WriteStep, FailStep
  <2>3. \A q \in Runs \ {r} : rpc'[q] = rpc[q] /\ step'[q] = step[q] /\ failed'[q] = failed[q]
    BY <1>6 DEF WriteStep, FailStep
  <2> QED
    BY <2>2, <2>3
<1>7. ASSUME NEW r \in Runs, ClearMark(r) PROVE SerialisedRuns'
  BY <1>7 DEF ClearMark, AfterClear
<1>8. ASSUME NEW r \in Runs, MarkReceipt(r) PROVE SerialisedRuns'
  BY <1>8 DEF MarkReceipt
<1>9. ASSUME NEW r \in Runs, CommitRun(r) PROVE SerialisedRuns'
  BY <1>9 DEF CommitRun, End
<1>10. ASSUME NEW r \in Runs, AbortRun(r) PROVE SerialisedRuns'
  BY <1>10 DEF AbortRun, End
<1>11. CASE Elapse
  BY <1>11 DEF Elapse
<1>12. CASE UNCHANGED vars
  BY <1>12 DEF vars
<1> QED
  BY <1>1, <1>2, <1>3, <1>4, <1>5, <1>6, <1>7, <1>8, <1>9, <1>10, <1>11, <1>12
     DEF Next, Progress

------------------------------------------------------------------------------
\* What other transactions can read only grows, and it grows by the fact of the
\* transaction that commits.
LEMMA CommittedGrows ==
    TypeOK /\ [Next]_vars => Committed \subseteq Committed'
<1> SUFFICES ASSUME TypeOK, [Next]_vars PROVE Committed \subseteq Committed'
  OBVIOUS
<1> USE DEF TypeOK, Committed, Runs, Demand
<1>1. ASSUME NEW w \in Writers, WriteTx(w) PROVE Committed \subseteq Committed'
  BY <1>1 DEF WriteTx, Write, CommitWrite, AbortWrite
<1>2. CASE BeginDrain
  BY <1>2 DEF BeginDrain, Start
<1>3. ASSUME NEW r \in Demand, BeginRefresh(r) PROVE Committed \subseteq Committed'
  BY <1>3 DEF BeginRefresh, Start
<1>4. ASSUME NEW r \in Receipts, BeginLimitedReceipt(r)
      PROVE  Committed \subseteq Committed'
  BY <1>4 DEF BeginLimitedReceipt, Start
<1>5. ASSUME NEW r \in Runs,
             ReadLedger(r) \/ WriteStep(r) \/ ClearMark(r) \/ MarkReceipt(r) \/ FailStep(r)
      PROVE  Committed \subseteq Committed'
  BY <1>5 DEF ReadLedger, WriteStep, ClearMark, AfterClear, MarkReceipt, FailStep
<1>6. ASSUME NEW r \in Runs, CommitRun(r) \/ AbortRun(r)
      PROVE  Committed \subseteq Committed'
  BY <1>6 DEF CommitRun, AbortRun, Active, End
<1>7. CASE Elapse \/ UNCHANGED vars
  BY <1>7 DEF Elapse, vars
<1> QED
  BY <1>1, <1>2, <1>3, <1>4, <1>5, <1>6, <1>7 DEF Next, Progress

LEMMA CommitWriteFacts ==
    ASSUME TypeOK, NEW w \in Writers, CommitWrite(w)
    PROVE  Committed' = Committed \cup {w}
BY DEF TypeOK, CommitWrite, Committed

LEMMA EndFacts ==
    ASSUME TypeOK, NEW r \in Runs, CommitRun(r)
    PROVE  Committed' = Committed \cup Own(r)
BY DEF TypeOK, CommitRun, End, Committed, Own, Runs, Demand

\* An action that commits nothing leaves what every rebuild must have seen.
LEMMA OldUnchanged ==
    ASSUME TypeOK, NEW r \in Runs,
           \/ ReadLedger(r) \/ WriteStep(r) \/ FailStep(r)
           \/ ClearMark(r) \/ MarkReceipt(r) \/ AbortRun(r)
    PROVE  Old' = Old
<1>1. wpc' = wpc /\ overlapped' = overlapped
  BY DEF ReadLedger, WriteStep, FailStep, ClearMark, MarkReceipt, AbortRun
<1>2. \A q \in Runs : rpc'[q] = "done" <=> rpc[q] = "done"
  BY DEF TypeOK, ReadLedger, WriteStep, FailStep, ClearMark, AfterClear, MarkReceipt,
         AbortRun, End, Active
<1> QED
  BY <1>1, <1>2 DEF Old, Committed, Runs, Demand

\* The fold a rebuild has made so far is never behind what is committed.
LEMMA FoldIsFreshStep == IInv /\ [Next]_vars => FoldIsFresh'
<1> SUFFICES ASSUME IInv, [Next]_vars PROVE FoldIsFresh'
  OBVIOUS
<1> USE DEF IInv
<1>0. Committed \subseteq Committed'
  BY CommittedGrows
<1>1. ASSUME NEW w \in Writers, WriteTx(w) PROVE FoldIsFresh'
  BY <1>0, <1>1 DEF WriteTx, Write, CommitWrite, AbortWrite, FoldIsFresh, Own
<1>2. CASE BeginDrain
  BY <1>0, <1>2 DEF BeginDrain, Start, FoldIsFresh, Own, TypeOK
<1>3. ASSUME NEW r \in Demand, BeginRefresh(r) PROVE FoldIsFresh'
  BY <1>0, <1>3 DEF BeginRefresh, Start, FoldIsFresh, Own, TypeOK
<1>4. ASSUME NEW r \in Receipts, BeginLimitedReceipt(r) PROVE FoldIsFresh'
  BY <1>0, <1>4 DEF BeginLimitedReceipt, Start, FoldIsFresh, Own, TypeOK
<1>5. ASSUME NEW r \in Runs, ReadLedger(r) PROVE FoldIsFresh'
  <2>1. step[r] \in Steps
    BY <1>5 DEF ReadLedger, RunShape
  <2> QED
    BY <1>0, <1>5, <2>1 DEF ReadLedger, FoldIsFresh, Own, TypeOK
<1>6. ASSUME NEW r \in Runs, WriteStep(r) PROVE FoldIsFresh'
  <2>1. step[r] \in Steps
    BY <1>6 DEF WriteStep, RunShape
  <2>2. \A q \in Runs, s \in Steps : work'[q][s] =
            IF q = r /\ s = step[r] THEN snap[r] ELSE work[q][s]
    BY <1>6, <2>1 DEF WriteStep, TypeOK
  <2>3. \A q \in Runs : step'[q] = IF q = r THEN step[r] + 1 ELSE step[q]
    BY <1>6 DEF WriteStep, TypeOK
  <2>4. \A q \in Runs : /\ snap'[q] = IF q = r THEN {} ELSE snap[q]
                        /\ q # r => rpc'[q] = rpc[q]
                        /\ rpc'[r] # "write"
    BY <1>6 DEF WriteStep, TypeOK
  <2>5. proj' = proj
    BY <1>6 DEF WriteStep
  <2>6. rpc[r] = "write"
    BY <1>6 DEF WriteStep
  <2>7. \A q \in Runs, s \in Steps \ {1} : s < step'[q] => proj[s] \subseteq work'[q][s]
    <3> SUFFICES ASSUME NEW q \in Runs, NEW s \in Steps \ {1}, s < step'[q]
                 PROVE  proj[s] \subseteq work'[q][s]
      OBVIOUS
    <3>1. CASE q = r /\ s = step[r]
      BY <2>1, <2>2, <2>6, <3>1 DEF FoldIsFresh, Steps
    <3>2. CASE ~(q = r /\ s = step[r])
      <4>1. s < step[q]
        BY <2>1, <2>3, <3>2 DEF Steps, TypeOK
      <4> QED
        BY <2>2, <3>2, <4>1 DEF FoldIsFresh
    <3> QED
      BY <3>1, <3>2
  <2> QED
    BY <1>0, <2>2, <2>4, <2>5, <2>7 , <2>3 DEF FoldIsFresh, Own
<1>7. ASSUME NEW r \in Runs, ClearMark(r) \/ MarkReceipt(r) \/ FailStep(r)
      PROVE  FoldIsFresh'
  <2>1. /\ proj' = proj /\ work' = work /\ step' = step
        /\ snap' = snap \/ snap' = [snap EXCEPT ![r] = {}]
        /\ \A q \in Runs : rpc'[q] = "write" => rpc[q] = "write" /\ snap'[q] = snap[q]
    BY <1>7 DEF ClearMark, AfterClear, MarkReceipt, FailStep, TypeOK
  <2>2. \A q \in Runs : snap'[q] \subseteq Committed' \cup Own(q)
    BY <1>0, <2>1 DEF FoldIsFresh, TypeOK
  <2> QED
    BY <1>0, <2>1, <2>2 DEF FoldIsFresh, Own
<1>8. ASSUME NEW r \in Runs, CommitRun(r) \/ AbortRun(r) PROVE FoldIsFresh'
  <2>1. /\ \A q \in Runs \ {r} : /\ rpc'[q] = rpc[q] /\ step'[q] = step[q]
                                 /\ snap'[q] = snap[q] /\ work'[q] = work[q]
        /\ step'[r] = 1 /\ snap'[r] = {} /\ rpc'[r] # "write"
        /\ work'[r] = [s \in Steps |-> {}]
    BY <1>8 DEF CommitRun, AbortRun, End, TypeOK
  <2>2. CASE AbortRun(r)
    BY <1>0, <2>1, <2>2 DEF AbortRun, FoldIsFresh, Own, Steps
  <2>3. CASE CommitRun(r)
    <3>1. \A s \in Steps : proj'[s] = IF s < step[r] THEN work[r][s] ELSE proj[s]
      BY <2>3 DEF CommitRun
    <3>2. \A s \in Steps : proj'[s] \subseteq Committed'
      BY <1>0, <2>3, <3>1, EndFacts DEF FoldIsFresh
    <3>3. ASSUME NEW q \in Runs, step'[q] > 1
          PROVE  proj' = proj /\ q # r
      <4>1. q # r
        BY <2>1, <3>3
      <4>2. PastFirst(q)
        BY <2>1, <3>3, <4>1 DEF RunShape, PastFirst, Active, TypeOK
      <4>3. ~PastFirst(r)
        BY <4>1, <4>2 DEF SerialisedRuns
      <4>4. \A s \in Steps : ~(s < step[r])
        BY <2>3, <4>3 DEF PastFirst, Active, CommitRun, Steps, TypeOK
      <4> QED
        BY <2>3, <4>1, <4>4 DEF CommitRun, TypeOK
    <3>4. \A q \in Runs : /\ snap'[q] \subseteq Committed' \cup Own(q)
                          /\ \A s \in Steps : work'[q][s] \subseteq Committed' \cup Own(q)
      BY <1>0, <2>1 DEF FoldIsFresh
    <3>5. ASSUME NEW q \in Runs
          PROVE  /\ rpc'[q] = "write" /\ step'[q] > 1 => proj'[step'[q]] \subseteq snap'[q]
                 /\ \A s \in Steps \ {1} : s < step'[q] => proj'[s] \subseteq work'[q][s]
      <4>1. CASE step'[q] > 1
        BY <2>1, <3>3, <4>1 DEF FoldIsFresh
      <4>2. CASE ~(step'[q] > 1)
        <5>1. step'[q] = step[q] \/ step'[q] = 1
          BY <2>1
        <5>2. step'[q] \in Nat /\ ~(step'[q] > 1)
          BY <4>2, <5>1 DEF TypeOK
        <5>3. \A s \in Steps \ {1} : ~(s < step'[q])
          BY <5>2 DEF Steps
        <5> QED
          BY <4>2, <5>3
      <4> QED
        BY <4>1, <4>2
    <3> QED
      BY <3>2, <3>4, <3>5 DEF FoldIsFresh, Own
  <2> QED
    BY <1>8, <2>2, <2>3
<1>9. CASE Elapse \/ UNCHANGED vars
  BY <1>0, <1>9 DEF Elapse, vars, FoldIsFresh, Own
<1> QED
  BY <1>1, <1>2, <1>3, <1>4, <1>5, <1>6, <1>7, <1>8, <1>9 DEF Next, Progress

\* What a rebuild has folded covers every fact that is not newer than it, up to
\* the rebuild's DELETE, and after it as long as the mark it deletes is the last.
LEMMA FoldCoversStep == IInv /\ [Next]_vars => FoldCovers'
<1> SUFFICES ASSUME IInv, [Next]_vars PROVE FoldCovers'
  OBVIOUS
<1> USE DEF IInv
<1>1. ASSUME NEW w \in Writers, Write(w) \/ AbortWrite(w) PROVE FoldCovers'
  <2>1. Old' = Old
    BY <1>1 DEF Write, AbortWrite, Old, Committed, TypeOK
  <2>2. /\ rpc' = rpc /\ step' = step /\ work' = work /\ snap' = snap /\ dirty' = dirty
        /\ dirtyLock' \in {w, NoOne}
    BY <1>1 DEF Write, AbortWrite
  <2>3. \A r \in Runs : dirtyLock' # r
    BY <2>2 DEF Runs
  <2> QED
    BY <2>1, <2>2, <2>3 DEF FoldCovers, Folding
<1>2. ASSUME NEW w \in Writers, CommitWrite(w) PROVE FoldCovers'
  <2>1. /\ rpc' = rpc /\ step' = step /\ work' = work /\ snap' = snap
        /\ dirty' /\ dirtyLock' = NoOne
    BY <1>2 DEF CommitWrite
  <2>2. ASSUME NEW r \in Runs, Folding(r) PROVE Old' \subseteq Old
    <3>1. overlapped' = overlapped \cup {w}
      BY <1>2, <2>2 DEF CommitWrite
    <3> QED
      BY <1>2, <3>1, CommitWriteFacts DEF Old
  <2> QED
    BY <2>1, <2>2 DEF FoldCovers, Folding
<1>3. ASSUME NEW r \in Runs, NEW x \in {"read", "mark"}, rpc[r] = "idle", Start(r, x)
      PROVE  FoldCovers'
  <2>1. step[r] = 1
    BY <1>3 DEF RunShape
  <2>2. Old' = Old
    BY <1>3 DEF Start, Old, Committed, TypeOK, Runs, Demand
  <2>3. /\ rpc' = [rpc EXCEPT ![r] = x] /\ step' = step /\ work' = work
        /\ snap' = snap /\ dirty' = dirty /\ dirtyLock' = dirtyLock
    BY <1>3 DEF Start
  <2>4. \A s \in Steps : ~(s < step[r])
    BY <2>1 DEF Steps
  <2> QED
    BY <2>1, <2>2, <2>3, <2>4 DEF FoldCovers, Folding, TypeOK
<1>4. ASSUME NEW r \in Runs, ReadLedger(r) PROVE FoldCovers'
  <2>1. Old' = Old /\ Old \subseteq snap'[r]
    BY <1>4, OldUnchanged DEF ReadLedger, Old, TypeOK
  <2>2. \A q \in Runs \ {r} : rpc'[q] = rpc[q] /\ snap'[q] = snap[q]
    BY <1>4 DEF ReadLedger, TypeOK
  <2>3. /\ step' = step /\ work' = work /\ dirty' = dirty /\ dirtyLock' = dirtyLock
        /\ rpc[r] = "read" /\ rpc'[r] = "write"
    BY <1>4 DEF ReadLedger, TypeOK
  <2>4. step[r] > 1 \/ \A s \in Steps : ~(s < step[r])
    BY DEF Steps, TypeOK
  <2> QED
    BY <2>1, <2>2, <2>3, <2>4 DEF FoldCovers, Folding
<1>5. ASSUME NEW r \in Runs, WriteStep(r) PROVE FoldCovers'
  <2>1. Old' = Old
    BY <1>5, OldUnchanged
  <2>2. step[r] \in Steps /\ rpc[r] = "write" /\ rpc'[r] \in {"clear", "read"}
    BY <1>5 DEF WriteStep, RunShape, TypeOK
  <2>3. /\ step'[r] = step[r] + 1 /\ dirty' = dirty /\ dirtyLock' = dirtyLock
        /\ \A q \in Runs \ {r} : /\ rpc'[q] = rpc[q] /\ step'[q] = step[q]
                               /\ snap'[q] = snap[q] /\ work'[q] = work[q]
    BY <1>5 DEF WriteStep, TypeOK
  <2>4. \A s \in Steps : work'[r][s] = IF s = step[r] THEN snap[r] ELSE work[r][s]
    BY <1>5, <2>2 DEF WriteStep, TypeOK
  <2>5. \A s \in Steps : s < step'[r] => s < step[r] \/ s = step[r]
    BY <2>2, <2>3 DEF Steps
  <2>6. \A s \in Steps : s < step'[r] => Old \subseteq work'[r][s]
    BY <2>2, <2>4, <2>5 DEF FoldCovers, Folding
  <2> QED
    BY <2>1, <2>2, <2>3, <2>6 DEF FoldCovers, Folding
<1>6. ASSUME NEW r \in Runs, FailStep(r) PROVE FoldCovers'
  <2>1. Old' = Old
    BY <1>6, OldUnchanged
  <2>2. /\ step' = step /\ work' = work /\ dirty' = dirty /\ dirtyLock' = dirtyLock
        /\ rpc[r] = "write" /\ rpc'[r] = "clear"
        /\ \A q \in Runs \ {r} : rpc'[q] = rpc[q] /\ snap'[q] = snap[q]
    BY <1>6 DEF FailStep, TypeOK
  <2> QED
    BY <2>1, <2>2 DEF FoldCovers, Folding
<1>7. ASSUME NEW r \in Runs, ClearMark(r) PROVE FoldCovers'
  <2>1. Old' = Old
    BY <1>7, OldUnchanged
  <2>2. /\ step' = step /\ work' = work /\ dirty' = dirty /\ snap' = snap
        /\ dirtyLock' \in {dirtyLock, r}
        /\ rpc[r] = "clear" /\ rpc'[r] \in {"mark", "commit"}
        /\ \A q \in Runs \ {r} : rpc'[q] = rpc[q]
    BY <1>7 DEF ClearMark, AfterClear, TypeOK
  <2> QED
    BY <2>1, <2>2 DEF FoldCovers, Folding
<1>8. ASSUME NEW r \in Runs, MarkReceipt(r) PROVE FoldCovers'
  <2>1. Old' = Old
    BY <1>8, OldUnchanged
  <2>2. /\ step' = step /\ work' = work /\ dirty' = dirty /\ snap' = snap
        /\ dirtyLock' = r /\ rpc[r] = "mark" /\ rpc'[r] = "commit"
        /\ \A q \in Runs \ {r} : rpc'[q] = rpc[q]
    BY <1>8 DEF MarkReceipt, TypeOK
  <2>3. r \in Receipts
    BY <2>2 DEF RunShape
  <2> QED
    BY <2>1, <2>2, <2>3 DEF FoldCovers, Folding
<1>9. ASSUME NEW r \in Runs, CommitRun(r) PROVE FoldCovers'
  <2>1. /\ rpc[r] = "commit" /\ rpc'[r] \in {"idle", "done"}
        /\ \A q \in Runs \ {r} : /\ rpc'[q] = rpc[q] /\ step'[q] = step[q]
                               /\ snap'[q] = snap[q] /\ work'[q] = work[q]
    BY <1>9 DEF CommitRun, End, TypeOK
  <2>2. ASSUME NEW q \in Runs, Folding(q) PROVE Old' \subseteq Old
    <3>1. CASE r \in Receipts
      <4>1. overlapped' = overlapped \cup {r}
        BY <1>9, <2>2, <3>1 DEF CommitRun
      <4> QED
        BY <1>9, <3>1, <4>1, EndFacts DEF Old, Own
    <3>2. CASE r \notin Receipts
      BY <1>9, <3>2, EndFacts DEF CommitRun, Old, Own
    <3> QED
      BY <3>1, <3>2
  <2>3. ASSUME NEW q \in Runs \ {r}, rpc[q] \in {"mark", "commit"}
        PROVE  \/ \A s \in Steps : s < step[q] => Old' \subseteq work[q][s]
               \/ dirty' /\ (dirtyLock' # q \/ q \in Receipts)
    <3>1. CASE PastFirst(q)
      <4>1. ~PastFirst(r)
        BY <3>1 DEF SerialisedRuns
      <4>2. r \in Receipts
        BY <2>1, <4>1 DEF RunShape, RanAll, StoppedAt, PastFirst, Active
      <4>3. dirtyLock' = NoOne /\ dirty'
        BY <1>9, <2>1, <4>2 DEF CommitRun, End, LockShape
      <4> QED
        BY <4>3 DEF Runs
    <3>2. CASE ~PastFirst(q)
      <4>1. \A s \in Steps : ~(s < step[q])
        BY <2>3, <3>2 DEF PastFirst, Active, Steps, TypeOK
      <4> QED
        BY <4>1
    <3> QED
      BY <3>1, <3>2
  <2> QED
    BY <2>1, <2>2, <2>3 DEF FoldCovers, Folding
<1>10. ASSUME NEW r \in Runs, AbortRun(r) PROVE FoldCovers'
  <2>1. Old' = Old
    BY <1>10, OldUnchanged
  <2>2. /\ dirty' = dirty /\ rpc'[r] = "idle" /\ dirtyLock' \in {dirtyLock, NoOne}
        /\ \A q \in Runs \ {r} : /\ rpc'[q] = rpc[q] /\ step'[q] = step[q]
                               /\ snap'[q] = snap[q] /\ work'[q] = work[q]
    BY <1>10 DEF AbortRun, End, TypeOK
  <2>3. \A q \in Runs : q # NoOne
    OBVIOUS
  <2> QED
    BY <2>1, <2>2, <2>3 DEF FoldCovers, Folding
<1>11. CASE Elapse \/ UNCHANGED vars
  BY <1>11 DEF Elapse, vars, FoldCovers, Folding, Old, Committed
<1> QED
  BY <1>1, <1>2, <1>3, <1>4, <1>5, <1>6, <1>7, <1>8, <1>9, <1>10, <1>11
     DEF Next, Progress, WriteTx, BeginDrain, BeginRefresh, BeginLimitedReceipt, Runs,
         Demand

\* Only a commit of a rebuild unmarks the tenant, and then its fold covers every
\* older fact up to the step where it stopped, whose error it records.
LEMMA CleanStep == IInv /\ [Next]_vars => CleanMeansFolded'
<1> SUFFICES ASSUME IInv, [Next]_vars, ~dirty',
                    NEW f \in Old', NEW s \in Steps
             PROVE  f \in proj'[s] \/ \E e \in 1..s : lastError'[e]
  BY DEF CleanMeansFolded, Old
<1> USE DEF IInv
<1>1. ASSUME NEW r \in Runs, CommitRun(r)
      PROVE  f \in proj'[s] \/ \E e \in 1..s : lastError'[e]
  <2>1. r \notin Receipts /\ (~dirty \/ dirtyLock = r) /\ rpc[r] = "commit"
    BY <1>1 DEF CommitRun
  <2>2. f \in Old
    BY <1>1, <2>1, EndFacts DEF CommitRun, Old, Own
  <2>3. \A t \in Steps : t < step[r] => f \in work[r][t]
    BY <2>1, <2>2 DEF FoldCovers
  <2>4. CASE s < step[r]
    BY <1>1, <2>3, <2>4 DEF CommitRun
  <2>5. CASE ~(s < step[r])
    <3>1. StoppedAt(r)
      BY <2>1, <2>5 DEF RunShape, RanAll, Steps
    <3>2. step[r] \in 1..s
      BY <2>5, <3>1 DEF StoppedAt, Steps
    <3>3. lastError'[step[r]]
      BY <1>1, <3>1 DEF CommitRun, StoppedAt
    <3> QED
      BY <3>2, <3>3
  <2> QED
    BY <2>4, <2>5
<1>2. ASSUME Old' = Old, dirty' = dirty, proj' = proj, lastError' = lastError
      PROVE  f \in proj'[s] \/ \E e \in 1..s : lastError'[e]
  BY <1>2 DEF CleanMeansFolded, Old
<1>3. ASSUME NEW w \in Writers, WriteTx(w)
      PROVE  f \in proj'[s] \/ \E e \in 1..s : lastError'[e]
  <2>1. CASE CommitWrite(w)
    BY <2>1 DEF CommitWrite
  <2>2. CASE Write(w) \/ AbortWrite(w)
    <3>1. Old' = Old
      BY <2>2 DEF Write, AbortWrite, Old, Committed, TypeOK
    <3> QED
      BY <1>2, <2>2, <3>1 DEF Write, AbortWrite
  <2> QED
    BY <1>3, <2>1, <2>2 DEF WriteTx
<1>4. ASSUME NEW r \in Runs, NEW x \in {"read", "mark"}, rpc[r] = "idle", Start(r, x)
      PROVE  f \in proj'[s] \/ \E e \in 1..s : lastError'[e]
  <2>1. Old' = Old
    BY <1>4 DEF Start, Old, Committed, TypeOK, Runs, Demand
  <2> QED
    BY <1>2, <1>4, <2>1 DEF Start
<1>5. ASSUME NEW r \in Runs,
             \/ ReadLedger(r) \/ WriteStep(r) \/ FailStep(r)
             \/ ClearMark(r) \/ MarkReceipt(r) \/ AbortRun(r)
      PROVE  f \in proj'[s] \/ \E e \in 1..s : lastError'[e]
  <2>1. Old' = Old
    BY <1>5, OldUnchanged
  <2>2. dirty' = dirty /\ proj' = proj /\ lastError' = lastError
    BY <1>5 DEF ReadLedger, WriteStep, FailStep, ClearMark, MarkReceipt, AbortRun
  <2> QED
    BY <1>2, <2>1, <2>2
<1>6. CASE Elapse \/ UNCHANGED vars
  BY <1>2, <1>6 DEF Elapse, vars, Old, Committed
<1> QED
  BY <1>1, <1>3, <1>4, <1>5, <1>6
     DEF Next, Progress, BeginDrain, BeginRefresh, BeginLimitedReceipt, Runs, Demand

LEMMA Inductive == Spec => []IInv
<1>1. IInv /\ [Next]_vars => IInv'
  BY TypeStep, RunShapeStep, LockShapeStep, SerialisedStep, FoldCoversStep,
     FoldIsFreshStep, CleanStep DEF IInv
<1> QED
  BY <1>1, InitIInv, PTL DEF Spec

------------------------------------------------------------------------------
\* The state stays well formed whatever the interleaving.
THEOREM TypeCorrect == Spec => []TypeOK
<1>1. IInv => TypeOK
  BY DEF IInv
<1> QED
  BY <1>1, Inductive, PTL

\* At most one rebuild of a tenant is past the first step of projection_run_all:
\* the freshness row of that step is held to the end of the transaction.
THEOREM RunsAreSerialised == Spec => []SerialisedRuns
<1>1. IInv => SerialisedRuns
  BY DEF IInv
<1> QED
  BY <1>1, Inductive, PTL

\* A tenant absent from projection_dirty has every committed fact folded, but
\* for a recorded failure or a fact committed while a rebuild was folding.
THEOREM UnmarkedIsFolded == Spec => []CleanMeansFolded
<1>1. IInv => CleanMeansFolded
  BY DEF IInv
<1> QED
  BY <1>1, Inductive, PTL

\* What a committed projection counted it goes on counting, in every step but
\* the first, however rebuilds overlap, fail and roll back.
THEOREM ProjectionsNeverForget == Spec => NoForgotten
<1>1. ASSUME IInv, [Next]_vars, NEW s \in Steps \ {1}
      PROVE  proj[s] \subseteq proj'[s]
  <2>1. ASSUME NEW r \in Runs, CommitRun(r) PROVE proj[s] \subseteq proj'[s]
    BY <1>1, <2>1 DEF CommitRun, IInv, FoldIsFresh
  <2>2. CASE proj' = proj
    BY <2>2
  <2>3. (\E r \in Runs : CommitRun(r)) \/ proj' = proj
    BY <1>1 DEF Next, vars, WriteTx, Write, CommitWrite, AbortWrite, BeginDrain,
       BeginRefresh, BeginLimitedReceipt, Start, Progress, ReadLedger, WriteStep,
       ClearMark, MarkReceipt, FailStep, AbortRun, Elapse
  <2> QED
    BY <2>1, <2>2, <2>3
<1>2. IInv /\ [Next]_vars => [\A s \in Steps \ {1} : proj[s] \subseteq proj'[s]]_vars
  BY <1>1
<1> QED
  BY <1>2, Inductive, PTL DEF Spec, NoForgotten

------------------------------------------------------------------------------
(* The screens *)

HIDE DEF NStepsAssumption, MaxAbortsAssumption, ActorsAssumption
USE LiveChannelAssumption
USE DEF LiveChannelAssumption

Frames == {"hello", "changed", "end"}
Said   == Topics \cup {"everywhere", "closing"}

ScreenTypes ==
    /\ link \in {"down", "connected", "listening", "ended"}
    /\ lost \in BOOLEAN
    /\ heard \in Seq(Topics)
    /\ stream \in [Devices -> {"none", "asked", "open"}]
    /\ rx \in [Devices -> Seq(Said)]
    /\ lagged \in [Devices -> BOOLEAN]
    /\ pipe \in [Devices -> Seq(Frames)]
    /\ conn \in [Devices -> {"none", "opening", "reading"}]
    /\ heardOnce \in [Devices -> BOOLEAN]
    /\ timers \in [Devices -> SUBSET {"settling", "polling", "retrying"}]
    /\ owed \in [Devices -> {"no", "yes", "unlistened", "ungreeted"}]

\* The hello of a stream is on the wire.
Greeted(d) == pipe[d] # <<>> /\ Head(pipe[d]) = "hello"

\* A stream that is asked for has said nothing, to a connect that waits for its hello;
\* which is the first thing it says.
InOrder(d) ==
    /\ stream[d] = "asked" => conn[d] = "opening" /\ pipe[d] = <<>>
    /\ \A i \in 1..Len(pipe[d]) : i > 1 => pipe[d][i] # "hello"

\* The change is with the hub, or with the listener.
InHub(d)  == \E i \in 1..Len(rx[d]) : rx[d][i] \in Hears[d] \cup {"everywhere"}
InLink(d) == \E i \in 1..Len(heard) : heard[i] \in Hears[d]

\* The change is behind a stream that is open, or its device has yet to see the stream end.
Behind(d) ==
    \/ Len(pipe[d]) > 1
    \/ stream[d] = "none" \/ lagged[d]
    \/ InHub(d) \/ InLink(d)
    \/ lost /\ link # "listening"
    \/ link = "ended"

Coming(d) ==
    /\ Greeted(d) /\ ~heardOnce[d] => Behind(d)
    /\ timers[d] # {} \/ conn[d] # "reading" \/ pipe[d] # <<>> \/ Behind(d)

Told(d) == InOrder(d) /\ (owed[d] = "yes" => Coming(d))

ScreenInv == ScreenTypes /\ \A d \in Devices : Told(d)

------------------------------------------------------------------------------
(* Sequences *)

LEMMA Appended ==
    ASSUME NEW S, NEW s \in Seq(S), NEW e \in S
    PROVE  /\ Append(s, e) \in Seq(S) /\ Len(Append(s, e)) = Len(s) + 1
           /\ Append(s, e) # <<>>
           /\ \A i \in 1..Len(s) : Append(s, e)[i] = s[i]
           /\ Append(s, e)[Len(s) + 1] = e
           /\ s # <<>> => Head(Append(s, e)) = Head(s)
           /\ s = <<>> => Head(Append(s, e)) = e
OBVIOUS

LEMMA Tailed ==
    ASSUME NEW S, NEW s \in Seq(S), s # <<>>
    PROVE  /\ Tail(s) \in Seq(S) /\ Len(Tail(s)) = Len(s) - 1 /\ Len(s) \in Nat \ {0}
           /\ \A i \in 1..Len(Tail(s)) : Tail(s)[i] = s[i + 1]
           /\ Head(s) = s[1] /\ Head(s) \in S
           /\ (Tail(s) # <<>>) <=> Len(s) > 1
           /\ Tail(s) # <<>> => Head(Tail(s)) = s[2]
<1>1. Len(s) \in Nat \ {0} /\ Head(s) = s[1] /\ Head(s) \in S
  OBVIOUS
<1>2. Tail(s) \in Seq(S) /\ Len(Tail(s)) = Len(s) - 1
  OBVIOUS
<1>3. \A i \in 1..Len(Tail(s)) : Tail(s)[i] = s[i + 1]
  OBVIOUS
<1>4. (Tail(s) # <<>>) <=> Len(s) > 1
  <2>1. Len(<<>>) = 0 /\ (Tail(s) # <<>> => Len(Tail(s)) \in Nat \ {0})
    BY <1>2, EmptySeq
  <2>2. CASE Tail(s) = <<>>
    BY <2>1, <2>2, <1>1, <1>2
  <2>3. CASE Tail(s) # <<>>
    BY <2>1, <2>3, <1>1, <1>2
  <2> QED BY <2>2, <2>3
<1>5. Tail(s) # <<>> => Head(Tail(s)) = s[2]
  BY <1>1, <1>2, <1>3, <1>4
<1> QED BY <1>1, <1>2, <1>3, <1>4, <1>5

LEMMA Emptied == ASSUME NEW S PROVE <<>> \in Seq(S) /\ Len(<<>>) = 0
OBVIOUS

\* What is in the buffer of an open stream stays there, or the stream has lagged; and what
\* is sent is in it.
LEMMA BroadcastHeld ==
    ASSUME ScreenTypes, NEW m \in Said, Broadcast(m), NEW d \in Devices
    PROVE  /\ rx' \in [Devices -> Seq(Said)] /\ lagged' \in [Devices -> BOOLEAN]
           /\ lagged[d] => lagged'[d]
           /\ InHub(d) => InHub(d)' \/ lagged'[d]
           /\ m \in Hears[d] \cup {"everywhere"} => stream[d] # "open" \/ InHub(d)'
<1>1. \A e \in Devices :
          rx'[e] = IF stream[e] # "open" THEN rx[e]
                   ELSE Append(IF Len(rx[e]) = Buffer THEN Tail(rx[e]) ELSE rx[e], m)
  BY DEF Broadcast
<1>2. \A e \in Devices : rx[e] \in Seq(Said) /\ (Len(rx[e]) = Buffer => rx[e] # <<>>)
  BY DEF ScreenTypes
<1>3. \A e \in Devices : rx'[e] \in Seq(Said)
  <2> SUFFICES ASSUME NEW e \in Devices PROVE rx'[e] \in Seq(Said)
    OBVIOUS
  <2>1. Len(rx[e]) = Buffer => Append(Tail(rx[e]), m) \in Seq(Said)
    BY <1>2, Tailed, Appended
  <2>2. Append(rx[e], m) \in Seq(Said)
    BY <1>2, Appended
  <2> QED BY <1>1, <1>2, <2>1, <2>2
<1>4. rx' \in [Devices -> Seq(Said)] /\ lagged' \in [Devices -> BOOLEAN]
  BY <1>3 DEF Broadcast, ScreenTypes
<1>5. lagged'[d] <=> lagged[d] \/ (stream[d] = "open" /\ Len(rx[d]) = Buffer)
  BY DEF Broadcast
<1>6. rx[d] \in Seq(Said)
  BY DEF ScreenTypes
<1>7. CASE stream[d] # "open"
  <2>1. rx'[d] = rx[d]
    BY <1>1, <1>7
  <2>2. InHub(d)' <=> InHub(d)
    BY <2>1 DEF InHub
  <2> QED BY <1>4, <1>5, <1>7, <2>2, Zenon
<1>8. CASE stream[d] = "open" /\ Len(rx[d]) = Buffer
  <2>1. rx'[d] = Append(Tail(rx[d]), m) /\ rx[d] # <<>>
    BY <1>1, <1>2, <1>8
  <2>2. rx'[d][Len(rx'[d])] = m /\ Len(rx'[d]) \in Nat \ {0}
    BY <1>6, <2>1, Tailed, Appended
  <2> QED BY <1>4, <1>5, <1>8, <2>2 DEF InHub
<1>9. CASE stream[d] = "open" /\ Len(rx[d]) # Buffer
  <2>1. rx'[d] = Append(rx[d], m)
    BY <1>1, <1>9
  <2>2. /\ Len(rx'[d]) = Len(rx[d]) + 1 /\ Len(rx[d]) \in Nat
        /\ rx'[d][Len(rx[d]) + 1] = m
        /\ \A i \in 1..Len(rx[d]) : rx'[d][i] = rx[d][i]
    BY <1>6, <2>1, Appended
  <2>3. InHub(d) => InHub(d)'
    BY <2>2 DEF InHub
  <2>4. m \in Hears[d] \cup {"everywhere"} => InHub(d)'
    BY <2>2 DEF InHub
  <2> QED BY <1>4, <1>5, <2>3, <2>4, Zenon
<1> QED BY <1>7, <1>8, <1>9 DEF ScreenTypes

------------------------------------------------------------------------------
(* What every step leaves in its range *)

LEMMA TypesCommit == ASSUME ScreenTypes, NEW t \in Topics, Commit(t) PROVE ScreenTypes'
<1>1. heard' \in Seq(Topics)
  BY Appended DEF ScreenTypes, Commit
<1>2. owed' \in [Devices -> {"no", "yes", "unlistened", "ungreeted"}]
  BY DEF ScreenTypes, Commit
<1> QED BY <1>1, <1>2 DEF ScreenTypes, Commit, hub, client

LEMMA TypesListener ==
    ASSUME ScreenTypes, Connect \/ Listen \/ LoseLink \/ Forward \/ EndLink
    PROVE  ScreenTypes'
<1>1. Connect \/ EndLink => ScreenTypes'
  BY DEF ScreenTypes, Connect, EndLink, Fault, hub, client, screen
<1>2. Listen => ScreenTypes'
  <2> SUFFICES ASSUME Listen PROVE ScreenTypes'
    OBVIOUS
  <2>1. "everywhere" \in Said
    BY DEF Said
  <2>2. rx' \in [Devices -> Seq(Said)] /\ lagged' \in [Devices -> BOOLEAN]
    <3>1. CASE lost /\ Devices # {}
      BY <2>1, <3>1, BroadcastHeld DEF Listen
    <3>2. CASE lost /\ Devices = {}
      BY <3>2 DEF Listen, Broadcast
    <3>3. CASE ~lost
      BY <3>3 DEF Listen, hub, ScreenTypes
    <3> QED BY <3>1, <3>2, <3>3
  <2> QED BY <2>2 DEF ScreenTypes, Listen, client, screen
<1>3. LoseLink => ScreenTypes'
  <2> SUFFICES ASSUME LoseLink PROVE ScreenTypes'
    OBVIOUS
  <2>1. PICK n \in 0..Len(heard) : heard' = SubSeq(heard, 1, n)
    BY DEF LoseLink
  <2>2. heard' \in Seq(Topics)
    BY <2>1, SubSeqProperties DEF ScreenTypes
  <2> QED BY <2>2 DEF ScreenTypes, LoseLink, hub, client, screen
<1>4. Forward => ScreenTypes'
  <2> SUFFICES ASSUME Forward PROVE ScreenTypes'
    OBVIOUS
  <2>1. heard' \in Seq(Topics) /\ Head(heard) \in Said
    BY Tailed DEF ScreenTypes, Forward, Said
  <2>2. rx' \in [Devices -> Seq(Said)] /\ lagged' \in [Devices -> BOOLEAN]
    <3>1. CASE Devices # {}
      BY <2>1, <3>1, BroadcastHeld DEF Forward
    <3>2. CASE Devices = {}
      BY <3>2 DEF Forward, Broadcast
    <3> QED BY <3>1, <3>2
  <2> QED BY <2>1, <2>2 DEF ScreenTypes, Forward, client, screen
<1> QED BY <1>1, <1>2, <1>3, <1>4

LEMMA TypesProcess == ASSUME ScreenTypes, DrainServer \/ Halt \/ StartServer PROVE ScreenTypes'
<1>1. DrainServer => ScreenTypes'
  <2> SUFFICES ASSUME DrainServer PROVE ScreenTypes'
    OBVIOUS
  <2>1. "closing" \in Said
    BY DEF Said
  <2>2. rx' \in [Devices -> Seq(Said)] /\ lagged' \in [Devices -> BOOLEAN]
    <3>1. CASE Devices # {}
      BY <2>1, <3>1, BroadcastHeld DEF DrainServer
    <3>2. CASE Devices = {}
      BY <3>2 DEF DrainServer, Broadcast
    <3> QED BY <3>1, <3>2
  <2> QED BY <2>2 DEF ScreenTypes, DrainServer, client, screen
<1>2. Halt => ScreenTypes'
  <2> SUFFICES ASSUME Halt PROVE ScreenTypes'
    OBVIOUS
  <2>1. <<>> \in Seq(Topics) /\ <<>> \in Seq(Said)
    BY Emptied
  <2>2. rx' \in [Devices -> Seq(Said)]
    BY <2>1 DEF Halt
  <2> QED BY <2>1, <2>2 DEF ScreenTypes, Halt, client, screen
<1>3. StartServer => ScreenTypes'
  BY DEF ScreenTypes, StartServer, hub, client, screen
<1> QED BY <1>1, <1>2, <1>3

\* Parts that several steps are made of.
LEMMA TypesClose == ASSUME ScreenTypes, NEW d \in Devices, Close(d)
                    PROVE  /\ stream' \in [Devices -> {"none", "asked", "open"}]
                           /\ rx' \in [Devices -> Seq(Said)]
                           /\ lagged' \in [Devices -> BOOLEAN]
BY DEF ScreenTypes, Close

LEMMA TypesSay == ASSUME ScreenTypes, NEW d \in Devices, NEW f \in Frames, Say(d, f)
                  PROVE  pipe' \in [Devices -> Seq(Frames)]
BY Appended DEF ScreenTypes, Say

LEMMA TypesStream ==
    ASSUME ScreenTypes, NEW d \in Devices, Enter(d) \/ Hello(d) \/ Receive(d) \/ ExpireStream(d)
    PROVE  ScreenTypes'
<1>1. Enter(d) => ScreenTypes'
  BY DEF ScreenTypes, Enter, process, hub, client, screen
<1>2. Hello(d) => ScreenTypes'
  <2> SUFFICES ASSUME Hello(d) PROVE ScreenTypes'
    OBVIOUS
  <2>1. <<"hello">> \in Seq(Frames) /\ <<>> \in Seq(Said)
    BY DEF Frames
  <2>2. owed' \in [Devices -> {"no", "yes", "unlistened", "ungreeted"}]
    BY DEF ScreenTypes, Hello
  <2> QED BY <2>1, <2>2 DEF ScreenTypes, Hello, process, client
<1>3. Receive(d) => ScreenTypes'
  <2> SUFFICES ASSUME Receive(d) PROVE ScreenTypes'
    OBVIOUS
  <2>1. {"changed", "end"} \subseteq Frames
    BY DEF Frames
  <2>2. CASE lagged[d]
    <3>1. pipe' \in [Devices -> Seq(Frames)]
      BY <2>1, <2>2, TypesSay DEF Receive
    <3> QED BY <2>2, <3>1 DEF ScreenTypes, Receive, process, client, screen
  <2>3. CASE ~lagged[d] /\ rx[d] # <<>> /\ Hear(d)
    <3>1. CASE Head(rx[d]) = "closing"
      BY <2>1, <2>3, <3>1, TypesClose, TypesSay DEF Hear, ScreenTypes, Receive, process, client, screen
    <3>2. CASE Head(rx[d]) # "closing"
      <4>1. pipe' \in [Devices -> Seq(Frames)]
        BY <2>1, <2>3, <3>2, TypesSay DEF Hear, ScreenTypes
      <4>2. rx' \in [Devices -> Seq(Said)]
        <5>1. Tail(rx[d]) \in Seq(Said)
          BY <2>3, Tailed DEF ScreenTypes
        <5> QED BY <2>3, <3>2, <5>1 DEF Hear, ScreenTypes
      <4> QED BY <2>3, <3>2, <4>1, <4>2 DEF Hear, ScreenTypes, Receive, process, client, screen
    <3> QED BY <3>1, <3>2
  <2> QED BY <2>2, <2>3 DEF Receive
<1>4. ExpireStream(d) => ScreenTypes'
  BY TypesClose, TypesSay DEF ExpireStream, ScreenTypes, process, client, screen, Frames
<1> QED BY <1>1, <1>2, <1>3, <1>4

LEMMA TypesAbandon == ASSUME ScreenTypes, NEW d \in Devices, Abandon(d)
                      PROVE  /\ stream' \in [Devices -> {"none", "asked", "open"}]
                             /\ rx' \in [Devices -> Seq(Said)]
                             /\ lagged' \in [Devices -> BOOLEAN]
                             /\ pipe' \in [Devices -> Seq(Frames)]
<1>1. <<>> \in Seq(Frames)
  BY Emptied
<1> QED BY <1>1, TypesClose DEF Abandon, ScreenTypes

TimerKinds == {"settling", "polling", "retrying"}

LEMMA TimersSet ==
    ASSUME ScreenTypes, NEW d \in Devices, NEW T \in SUBSET TimerKinds, timers' = [timers EXCEPT ![d] = T]
    PROVE  timers' \in [Devices -> SUBSET TimerKinds]
BY DEF ScreenTypes, TimerKinds

LEMMA TimersOf == ASSUME ScreenTypes, NEW d \in Devices PROVE timers[d] \in SUBSET TimerKinds
BY DEF ScreenTypes, TimerKinds

LEMMA TypesScreen ==
    ASSUME ScreenTypes, NEW d \in Devices,
           Mount(d) \/ Leave(d) \/ Nudge(d) \/ Retry(d) \/ Settle(d) \/ Poll(d) \/ Screen(d)
    PROVE  ScreenTypes'
<1>1. Mount(d) => ScreenTypes'
  BY TypesAbandon DEF ScreenTypes, Mount, Open, AskAgain, process
<1>2. Leave(d) => ScreenTypes'
  BY TypesAbandon DEF ScreenTypes, Leave, process
<1>3. Nudge(d) => ScreenTypes'
  <2> SUFFICES ASSUME Nudge(d) PROVE ScreenTypes'
    OBVIOUS
  <2>1. UNCHANGED <<server, link, lost, heard, heardOnce>>
    BY DEF Nudge, process
  <2>2. owed' \in [Devices -> {"no", "yes", "unlistened", "ungreeted"}]
    BY DEF ScreenTypes, Nudge, AskAgain
  <2>3. CASE standing[d] = "polling"
    <3>1. Abandon(d) /\ conn' \in [Devices -> {"none", "opening", "reading"}]
      BY <2>3 DEF ScreenTypes, Nudge, Open
    <3>2. timers' \in [Devices -> SUBSET TimerKinds]
      <4>1. timers' = [timers EXCEPT ![d] = timers[d] \ {"retrying"}]
        BY <2>3 DEF Nudge, Open
      <4>2. timers[d] \ {"retrying"} \in SUBSET TimerKinds
        BY TimersOf
      <4> QED BY <4>1, <4>2, TimersSet
    <3> QED BY <2>1, <2>2, <3>1, <3>2, TypesAbandon DEF ScreenTypes, TimerKinds
  <2>4. CASE standing[d] # "polling"
    BY <2>1, <2>2, <2>4 DEF ScreenTypes, Nudge, hub
  <2> QED BY <2>3, <2>4
<1>4. Retry(d) => ScreenTypes'
  BY TypesAbandon DEF ScreenTypes, Retry, Open, process, screen
<1>5. Settle(d) \/ Poll(d) => ScreenTypes'
  <2> SUFFICES ASSUME Settle(d) \/ Poll(d) PROVE ScreenTypes'
    OBVIOUS
  <2>1. owed' \in [Devices -> {"no", "yes", "unlistened", "ungreeted"}]
    BY DEF ScreenTypes, Settle, Poll, AskAgain
  <2>2. timers' \in [Devices -> SUBSET TimerKinds]
    <3>1. CASE Settle(d)
      <4>1. timers' = [timers EXCEPT ![d] = timers[d] \ {"settling"}]
        BY <3>1 DEF Settle
      <4>2. timers[d] \ {"settling"} \in SUBSET TimerKinds
        BY TimersOf
      <4> QED BY <4>1, <4>2, TimersSet
    <3>2. CASE Poll(d)
      BY <3>2 DEF ScreenTypes, Poll, client, TimerKinds
    <3> QED BY <3>1, <3>2
  <2>3. UNCHANGED <<server, link, lost, heard, stream, rx, lagged, pipe, conn, heardOnce>>
    BY DEF Settle, Poll, process, hub, client
  <2> QED BY <2>1, <2>2, <2>3 DEF ScreenTypes, TimerKinds
<1>6. Screen(d) => ScreenTypes'
  <2> SUFFICES ASSUME Screen(d) PROVE ScreenTypes'
    OBVIOUS
  <2>1. UNCHANGED <<process, stream, hub, pipe, client, owed>>
    BY DEF Screen, Answer, Land, FailRead
  <2> QED BY <2>1 DEF ScreenTypes, process, hub, client
<1> QED BY <1>1, <1>2, <1>3, <1>4, <1>5, <1>6

LEMMA TypesEnd ==
    ASSUME ScreenTypes, NEW d \in Devices, EndConnect(d), UNCHANGED <<process, owed>>
    PROVE  ScreenTypes'
<1>1. timers' \in [Devices -> SUBSET TimerKinds]
  <2>1. \E on \in {{"retrying"}, {"retrying", "polling"}} :
            timers' = [timers EXCEPT ![d] = timers[d] \cup on]
    BY DEF EndConnect, Set
  <2>2. \A on \in {{"retrying"}, {"retrying", "polling"}} : timers[d] \cup on \in SUBSET TimerKinds
    BY TimersOf DEF TimerKinds
  <2> QED BY <2>1, <2>2, TimersSet
<1>2. conn' \in [Devices -> {"none", "opening", "reading"}]
  BY DEF ScreenTypes, EndConnect
<1>3. Abandon(d) /\ UNCHANGED <<server, link, lost, heard, heardOnce, owed>>
  BY DEF EndConnect, process
<1> QED BY <1>1, <1>2, <1>3, TypesAbandon DEF ScreenTypes, TimerKinds

LEMMA TypesConnect ==
    ASSUME ScreenTypes, NEW d \in Devices,
           Take(d) \/ GiveUp(d) \/ LoseStream(d) \/ Orphaned(d)
    PROVE  ScreenTypes'
<1>1. UNCHANGED <<process, owed>>
  BY DEF Take, GiveUp, LoseStream, Orphaned, screen
<1>2. GiveUp(d) \/ LoseStream(d) \/ Orphaned(d) => ScreenTypes'
  BY <1>1, TypesEnd DEF GiveUp, LoseStream, Orphaned
<1>3. Take(d) => ScreenTypes'
  <2> SUFFICES ASSUME Take(d), Head(pipe[d]) # "end" PROVE ScreenTypes'
    BY <1>1, TypesEnd DEF Take
  <2>1. Tail(pipe[d]) \in Seq(Frames)
    BY Tailed DEF Take, ScreenTypes
  <2>2. pipe' \in [Devices -> Seq(Frames)]
    BY <2>1 DEF Take, ScreenTypes
  <2>3. UNCHANGED <<stream, rx, lagged, server, link, lost, heard, owed>>
    BY <1>1 DEF Take, process, hub
  <2>4. /\ conn' \in [Devices -> {"none", "opening", "reading"}]
        /\ heardOnce' \in [Devices -> BOOLEAN]
    <3>1. CASE Head(pipe[d]) = "hello"
      BY <3>1 DEF Take, ScreenTypes
    <3>2. CASE Head(pipe[d]) # "hello"
      BY <3>2 DEF Take, ScreenTypes
    <3> QED BY <3>1, <3>2
  <2>5. timers' \in [Devices -> SUBSET TimerKinds]
    <3>1. \E T \in SUBSET TimerKinds : timers' = [timers EXCEPT ![d] = T]
      <4>1. CASE Head(pipe[d]) = "hello"
        <5>1. timers' = [timers EXCEPT ![d] = (timers[d] \ {"polling"})
                            \cup (IF heardOnce[d] THEN {"settling"} ELSE {})]
          BY <4>1 DEF Take
        <5> QED BY <5>1, TimersOf DEF TimerKinds
      <4>2. CASE Head(pipe[d]) # "hello"
        <5>1. timers' = [timers EXCEPT ![d] = timers[d] \cup {"settling"}]
          BY <4>2 DEF Take, Settling, Set
        <5> QED BY <5>1, TimersOf DEF TimerKinds
      <4> QED BY <4>1, <4>2
    <3> QED BY <3>1, TimersSet
  <2> QED BY <2>2, <2>3, <2>4, <2>5 DEF ScreenTypes, TimerKinds
<1> QED BY <1>2, <1>3

LEMMA TypesStep == ScreenTypes /\ [LiveNext]_liveVars => ScreenTypes'
<1> SUFFICES ASSUME ScreenTypes, [LiveNext]_liveVars PROVE ScreenTypes'
  OBVIOUS
<1>1. UNCHANGED liveVars => ScreenTypes'
  BY DEF ScreenTypes, liveVars, process, hub, client, screen
<1>2. (\E t \in Topics : Commit(t)) \/ Listener \/ LoseLink \/ DrainServer \/ Halt \/ StartServer => ScreenTypes'
  BY TypesCommit, TypesListener, TypesProcess DEF Listener
<1>3. ASSUME NEW d \in Devices, Streams(d) \/ ExpireStream(d) PROVE ScreenTypes'
  BY <1>3, TypesStream DEF Streams
<1>4. ASSUME NEW d \in Devices,
             Mount(d) \/ Leave(d) \/ Nudge(d) \/ Retry(d) \/ Settle(d) \/ Poll(d) \/ Screen(d)
      PROVE  ScreenTypes'
  BY <1>4, TypesScreen
<1>5. ASSUME NEW d \in Devices, Take(d) \/ GiveUp(d) \/ LoseStream(d) \/ Orphaned(d)
      PROVE  ScreenTypes'
  BY <1>5, TypesConnect
<1> QED BY <1>1, <1>2, <1>3, <1>4, <1>5 DEF LiveNext
------------------------------------------------------------------------------
(* Nothing a step does leaves a change with nobody *)

\* A stream that is over, with nothing of it on the wire, is one its device will see end.
LEMMA Abandoned ==
    ASSUME NEW d \in Devices, stream'[d] = "none", pipe'[d] = <<>>
    PROVE  Told(d)'
<1>1. Behind(d)'
  BY DEF Behind
<1>2. InOrder(d)' /\ ~Greeted(d)'
  BY Emptied DEF InOrder, Greeted
<1> QED BY <1>1, <1>2 DEF Told, Coming

\* A step of the server leaves the device as it was: what was behind its stream has to be
\* behind it still.  A stream that is only asked for will say hello.
LEMMA StillBehind ==
    ASSUME NEW d \in Devices, Told(d), stream \in [Devices -> {"none", "asked", "open"}],
           stream'[d] = stream[d], pipe'[d] = pipe[d], conn'[d] = conn[d],
           heardOnce'[d] = heardOnce[d], timers'[d] = timers[d],
           stream[d] = "open" /\ owed'[d] = "yes" =>
               Behind(d)' \/ (owed[d] = "yes" /\ (Behind(d) => Behind(d)'))
    PROVE  Told(d)'
<1>1. InOrder(d)'
  BY DEF Told, InOrder
<1>2. stream[d] \in {"none", "asked", "open"}
  OBVIOUS
<1>3. CASE stream[d] = "none"
  <2>1. Behind(d)'
    BY <1>3 DEF Behind
  <2> QED BY <1>1, <2>1 DEF Told, Coming
<1>4. CASE stream[d] = "asked"
  <2>1. ~Greeted(d)' /\ conn'[d] # "reading"
    BY <1>4 DEF Told, InOrder, Greeted
  <2> QED BY <1>1, <2>1 DEF Told, Coming
<1>5. CASE stream[d] = "open"
  <2>1. (Greeted(d)' <=> Greeted(d)) /\ heardOnce'[d] = heardOnce[d]
    BY DEF Greeted
  <2>2. CASE Behind(d)'
    BY <1>1, <2>2 DEF Told, Coming
  <2>3. CASE owed[d] = "yes" /\ ~Behind(d)
    <3>1. Coming(d)
      BY <2>3 DEF Told
    <3>2. Coming(d)'
      BY <2>1, <2>3, <3>1 DEF Coming
    <3> QED BY <1>1, <3>2 DEF Told
  <2>4. CASE owed'[d] # "yes"
    BY <1>1, <2>4 DEF Told
  <2> QED BY <1>5, <2>2, <2>3, <2>4
<1> QED BY <1>2, <1>3, <1>4, <1>5

\* What does not touch the device or the listener.
LEMMA Elsewhere ==
    ASSUME ScreenTypes, NEW d \in Devices, Told(d),
           stream'[d] = stream[d], rx'[d] = rx[d], lagged'[d] = lagged[d], pipe'[d] = pipe[d],
           conn'[d] = conn[d], heardOnce'[d] = heardOnce[d], timers'[d] = timers[d],
           owed'[d] \in {owed[d], "no"}, UNCHANGED <<link, lost, heard>>
    PROVE  Told(d)'
<1>1. Behind(d)' <=> Behind(d)
  BY DEF Behind, InHub, InLink
<1> QED BY <1>1, StillBehind DEF ScreenTypes

LEMMA ToldCommit ==
    ASSUME ScreenTypes, NEW t \in Topics, Commit(t), NEW d \in Devices, Told(d)
    PROVE  Told(d)'
<1>1. UNCHANGED <<link, lost, stream, rx, lagged, pipe, conn, heardOnce, timers>>
  BY DEF Commit, hub, client
<1>2. InLink(d) => InLink(d)'
  BY Appended DEF Commit, InLink, ScreenTypes
<1>3. Behind(d) => Behind(d)'
  BY <1>1, <1>2 DEF Behind, InHub
<1>4. CASE t \in Hears[d] /\ Mounted(d) /\ link = "listening"
  <2>1. heard' = Append(heard, t)
    BY <1>4 DEF Commit
  <2>2. heard'[Len(heard) + 1] = t /\ Len(heard') = Len(heard) + 1 /\ Len(heard) \in Nat
    BY <2>1, Appended DEF ScreenTypes
  <2>3. InLink(d)'
    BY <1>4, <2>2 DEF InLink
  <2> QED BY <1>1, <2>3, StillBehind DEF ScreenTypes, Behind
<1>5. CASE t \in Hears[d] /\ Mounted(d) /\ link # "listening" /\ lost
  <2>1. Behind(d)'
    BY <1>1, <1>5 DEF Behind
  <2> QED BY <1>1, <2>1, StillBehind DEF ScreenTypes
<1>6. CASE ~(t \in Hears[d] /\ Mounted(d) /\ (lost \/ link = "listening"))
  <2>1. owed'[d] = "yes" => owed[d] = "yes"
    BY <1>6 DEF Commit
  <2> QED BY <1>1, <1>3, <2>1, StillBehind DEF ScreenTypes
<1> QED BY <1>4, <1>5, <1>6

LEMMA ToldListener ==
    ASSUME ScreenTypes, Connect \/ Listen \/ LoseLink \/ Forward \/ EndLink,
           NEW d \in Devices, Told(d)
    PROVE  Told(d)'
<1>1. UNCHANGED <<stream, pipe, conn, heardOnce, timers, owed>>
  BY DEF Connect, Listen, LoseLink, Forward, EndLink, client, screen
<1>2. stream[d] = "open" => Behind(d)' \/ (Behind(d) => Behind(d)')
  <2>1. CASE Connect
    <3>1. UNCHANGED <<heard, rx, lagged, stream, pipe>> /\ (InHub(d)' <=> InHub(d))
          /\ (InLink(d)' <=> InLink(d))
      BY <2>1 DEF Connect, hub, InHub, InLink
    <3>2. link = "down" /\ link' # "listening" /\ (lost => lost')
      BY <2>1 DEF Connect
    <3> QED BY <3>1, <3>2 DEF Behind
  <2>2. CASE Listen /\ lost
    <3>1. Broadcast("everywhere") /\ "everywhere" \in Said
      BY <2>2 DEF Listen, Said
    <3>2. stream[d] = "open" => InHub(d)'
      BY <3>1, BroadcastHeld
    <3> QED BY <3>2 DEF Behind
  <2>3. CASE Listen /\ ~lost
    <3>1. UNCHANGED <<heard, lost, rx, lagged, stream, pipe>> /\ link # "ended"
          /\ (InHub(d)' <=> InHub(d)) /\ (InLink(d)' <=> InLink(d))
      BY <2>3 DEF Listen, hub, InHub, InLink
    <3> QED BY <2>3, <3>1 DEF Behind
  <2>4. CASE LoseLink
    BY <2>4 DEF LoseLink, Behind
  <2>5. CASE EndLink
    BY <2>5 DEF EndLink, Behind
  <2>6. CASE Forward
    <3>1. /\ heard # <<>> /\ heard \in Seq(Topics) /\ heard' = Tail(heard)
          /\ Broadcast(Head(heard)) /\ UNCHANGED <<link, lost, stream, pipe>>
      BY <2>6 DEF Forward, ScreenTypes
    <3>2. Head(heard) \in Said /\ Head(heard) = heard[1] /\ Len(heard) \in Nat \ {0}
          /\ Len(heard') = Len(heard) - 1
          /\ \A i \in 1..Len(heard') : heard'[i] = heard[i + 1]
      BY <3>1, Tailed DEF Said
    <3>3. /\ lagged[d] => lagged'[d]
          /\ InHub(d) => InHub(d)' \/ lagged'[d]
          /\ heard[1] \in Hears[d] => stream[d] # "open" \/ InHub(d)'
      BY <3>1, <3>2, BroadcastHeld
    <3>4. InLink(d) => heard[1] \in Hears[d] \/ InLink(d)'
      <4> SUFFICES ASSUME NEW i \in 1..Len(heard), heard[i] \in Hears[d], i # 1
                   PROVE  InLink(d)'
        BY DEF InLink
      <4>1. i - 1 \in 1..Len(heard') /\ heard'[i - 1] = heard[i]
        BY <3>2
      <4> QED BY <4>1 DEF InLink
    <3> QED BY <3>1, <3>3, <3>4 DEF Behind
  <2> QED BY <2>1, <2>2, <2>3, <2>4, <2>5, <2>6
<1> QED BY <1>1, <1>2, StillBehind DEF ScreenTypes

LEMMA ToldProcess ==
    ASSUME ScreenTypes, DrainServer \/ Halt \/ StartServer, NEW d \in Devices, Told(d)
    PROVE  Told(d)'
<1>1. CASE DrainServer
  <2>1. /\ UNCHANGED <<link, lost, heard, stream, pipe, conn, heardOnce, timers, owed>>
        /\ Broadcast("closing") /\ "closing" \in Said
    BY <1>1 DEF DrainServer, client, screen, Said
  <2>2. (lagged[d] => lagged'[d]) /\ (InHub(d) => InHub(d)' \/ lagged'[d])
    BY <2>1, BroadcastHeld
  <2>3. InLink(d)' <=> InLink(d)
    BY <2>1 DEF InLink
  <2>4. Behind(d) => Behind(d)'
    BY <2>1, <2>2, <2>3 DEF Behind
  <2> QED BY <2>1, <2>4, StillBehind DEF ScreenTypes
<1>2. CASE Halt
  <2>1. UNCHANGED <<pipe, conn, heardOnce, timers, owed>> /\ stream'[d] = "none"
    BY <1>2 DEF Halt, client, screen
  <2>2. Behind(d)' /\ InOrder(d)'
    BY <2>1 DEF Behind, Told, InOrder
  <2> QED BY <2>2 DEF Told, Coming
<1>3. CASE StartServer
  BY <1>3, Elsewhere DEF StartServer, hub, client, screen
<1> QED BY <1>1, <1>2, <1>3

LEMMA ToldAsked ==
    ASSUME ScreenTypes, NEW d \in Devices, Enter(d) \/ Hello(d), Told(d)
    PROVE  Told(d)'
<1>1. CASE Enter(d)
  <2>1. /\ conn'[d] = "opening" /\ pipe'[d] = <<>>
    BY <1>1 DEF Enter, client
  <2>2. InOrder(d)' /\ ~Greeted(d)'
    BY <2>1, Emptied DEF InOrder, Greeted
  <2> QED BY <2>1, <2>2 DEF Told, Coming
<1>2. CASE Hello(d)
  <2>1. /\ conn'[d] = "opening" /\ pipe'[d] = <<"hello">> /\ stream'[d] = "open"
        /\ heardOnce' = heardOnce
    BY <1>2 DEF Hello, client, ScreenTypes, Told, InOrder
  <2>2. owed'[d] = "yes" => heardOnce[d]
    BY <1>2 DEF Hello, ScreenTypes
  <2>3. InOrder(d)'
    BY <2>1 DEF InOrder
  <2> QED BY <2>1, <2>2, <2>3 DEF Told, Coming
<1> QED BY <1>1, <1>2

\* What a stream says after its hello is said in order.
LEMMA SaidInOrder ==
    ASSUME ScreenTypes, NEW d \in Devices, NEW f \in {"changed", "end"}, Say(d, f),
           stream[d] = "open", stream'[d] # "asked", Told(d)
    PROVE  InOrder(d)' /\ pipe'[d] # <<>> /\ (Greeted(d)' => Behind(d)')
<1>1. pipe[d] \in Seq(Frames) /\ f \in Frames /\ pipe'[d] = Append(pipe[d], f)
  BY DEF ScreenTypes, Say, Frames
<1>2. /\ Len(pipe'[d]) = Len(pipe[d]) + 1 /\ Len(pipe[d]) \in Nat /\ pipe'[d] # <<>>
      /\ \A i \in 1..Len(pipe[d]) : pipe'[d][i] = pipe[d][i]
      /\ pipe'[d][Len(pipe[d]) + 1] = f
      /\ pipe[d] = <<>> => Head(pipe'[d]) = f
  BY <1>1, Appended
<1>3. InOrder(d)'
  BY <1>2 DEF InOrder, Told
<1>4. pipe[d] = <<>> \/ Len(pipe'[d]) > 1
  BY <1>1, <1>2, EmptySeq
<1> QED BY <1>2, <1>3, <1>4 DEF Greeted, Behind

LEMMA ToldSaid ==
    ASSUME ScreenTypes, NEW d \in Devices, Receive(d) \/ ExpireStream(d), Told(d)
    PROVE  Told(d)'
<1>1. /\ UNCHANGED <<link, lost, heard, conn, heardOnce, timers, owed>>
      /\ stream[d] = "open"
  BY DEF Receive, ExpireStream, process, client, screen
<1>2. ASSUME NEW f \in {"changed", "end"}, Say(d, f), stream'[d] # "asked" PROVE Told(d)'
  BY <1>1, <1>2, SaidInOrder DEF Told, Coming
<1>3. CASE ExpireStream(d) \/ (Receive(d) /\ lagged[d])
  <2>1. \E f \in {"changed", "end"} : Say(d, f)
    BY <1>3 DEF ExpireStream, Receive
  <2>2. stream'[d] # "asked"
    BY <1>1, <1>3 DEF ExpireStream, Receive, Close, ScreenTypes
  <2> QED BY <1>2, <2>1, <2>2
<1>4. CASE ~lagged[d] /\ rx[d] # <<>> /\ Hear(d)
  <2>1. CASE Head(rx[d]) = "closing"
    BY <1>2, <1>4, <2>1 DEF Hear, Close, ScreenTypes
  <2>2. CASE Head(rx[d]) # "closing" /\ Head(rx[d]) \in Hears[d] \cup {"everywhere"}
    BY <1>1, <1>2, <1>4, <2>2 DEF Hear
  <2>3. CASE Head(rx[d]) # "closing" /\ Head(rx[d]) \notin Hears[d] \cup {"everywhere"}
    <3>1. UNCHANGED <<stream, lagged, pipe>> /\ rx'[d] = Tail(rx[d]) /\ rx[d] \in Seq(Said)
      BY <1>4, <2>3 DEF Hear, ScreenTypes
    <3>2. /\ Len(rx[d]) \in Nat \ {0} /\ Len(rx'[d]) = Len(rx[d]) - 1 /\ Head(rx[d]) = rx[d][1]
          /\ \A i \in 1..Len(rx'[d]) : rx'[d][i] = rx[d][i + 1]
      BY <1>4, <3>1, Tailed
    <3>3. InHub(d) => InHub(d)'
      <4> SUFFICES ASSUME NEW i \in 1..Len(rx[d]), rx[d][i] \in Hears[d] \cup {"everywhere"}
                   PROVE  InHub(d)'
        BY DEF InHub
      <4>1. i # 1
        BY <2>3, <3>2
      <4>2. i - 1 \in 1..Len(rx'[d]) /\ rx'[d][i - 1] = rx[d][i]
        BY <3>2, <4>1
      <4> QED BY <4>2 DEF InHub
    <3>4. Behind(d) => Behind(d)'
      BY <1>1, <3>1, <3>3 DEF Behind, InLink
    <3> QED BY <1>1, <3>1, <3>4, StillBehind DEF ScreenTypes
  <2> QED BY <2>1, <2>2, <2>3
<1> QED BY <1>3, <1>4 DEF Receive

LEMMA ToldScreen ==
    ASSUME ScreenTypes, NEW d \in Devices, Told(d),
           Mount(d) \/ Leave(d) \/ Nudge(d) \/ Retry(d) \/ Settle(d) \/ Poll(d) \/ Screen(d)
    PROVE  Told(d)'
<1>1. ASSUME Abandon(d) PROVE Told(d)'
  <2>1. stream'[d] = "none" /\ pipe'[d] = <<>>
    BY <1>1 DEF Abandon, Close, ScreenTypes
  <2> QED BY <2>1, Abandoned
<1>2. Mount(d) \/ Leave(d) \/ Retry(d) => Abandon(d)
  BY DEF Mount, Leave, Retry, Open
<1>3. CASE Nudge(d) \/ Settle(d) \/ Poll(d)
  <2>1. owed'[d] = "no"
    BY <1>3 DEF Nudge, Settle, Poll, AskAgain, ScreenTypes
  <2>2. Abandon(d) \/ UNCHANGED <<stream, pipe, conn>>
    BY <1>3 DEF Nudge, Settle, Poll, Open, client
  <2>3. UNCHANGED <<stream, pipe, conn>> => InOrder(d)'
    BY DEF Told, InOrder
  <2> QED BY <1>1, <2>1, <2>2, <2>3 DEF Told
<1>4. CASE Screen(d)
  <2>1. UNCHANGED <<process, stream, hub, pipe, client, owed>>
    BY <1>4 DEF Screen, Answer, Land, FailRead
  <2> QED BY <2>1, Elsewhere DEF process, hub, client
<1> QED BY <1>1, <1>2, <1>3, <1>4

LEMMA ToldConnect ==
    ASSUME ScreenTypes, NEW d \in Devices, Told(d),
           Take(d) \/ GiveUp(d) \/ LoseStream(d) \/ Orphaned(d)
    PROVE  Told(d)'
<1>1. ASSUME EndConnect(d) PROVE Told(d)'
  <2>1. stream'[d] = "none" /\ pipe'[d] = <<>>
    BY <1>1 DEF EndConnect, Abandon, Close, ScreenTypes
  <2> QED BY <2>1, Abandoned
<1>2. CASE Take(d) /\ Head(pipe[d]) # "end"
  <2>1. /\ UNCHANGED <<link, lost, heard, stream, rx, lagged, owed>>
        /\ pipe[d] # <<>> /\ pipe[d] \in Seq(Frames) /\ pipe'[d] = Tail(pipe[d])
    BY <1>2 DEF Take, process, hub, screen, ScreenTypes
  <2>2. /\ Len(pipe'[d]) = Len(pipe[d]) - 1 /\ Len(pipe[d]) \in Nat \ {0}
        /\ \A i \in 1..Len(pipe'[d]) : pipe'[d][i] = pipe[d][i + 1]
        /\ pipe'[d] # <<>> <=> Len(pipe[d]) > 1
        /\ pipe'[d] # <<>> => Head(pipe'[d]) = pipe[d][2]
    BY <2>1, Tailed
  <2>3. InOrder(d)'
    BY <2>1, <2>2 DEF InOrder, Told
  <2>4. ~Greeted(d)'
    BY <2>2 DEF Greeted, InOrder, Told
  <2>5. CASE Head(pipe[d]) # "hello" \/ heardOnce[d]
    <3>1. "settling" \in timers'[d]
      BY <1>2, <2>5 DEF Take, Settling, Set, ScreenTypes
    <3> QED BY <2>3, <2>4, <3>1 DEF Told, Coming
  <2>6. CASE Head(pipe[d]) = "hello" /\ ~heardOnce[d]
    <3>1. owed[d] = "yes" => Behind(d)
      BY <2>1, <2>6 DEF Told, Coming, Greeted
    <3>2. Behind(d) => pipe'[d] # <<>> \/ Behind(d)'
      BY <2>1, <2>2 DEF Behind, InHub, InLink
    <3> QED BY <2>1, <2>3, <2>4, <3>1, <3>2 DEF Told, Coming
  <2> QED BY <2>5, <2>6
<1> QED BY <1>1, <1>2 DEF Take, GiveUp, LoseStream, Orphaned

\* What one device does leaves the others as they were.
LEMMA ToldElsewhere ==
    ASSUME ScreenTypes, NEW e \in Devices, NEW d \in Devices, d # e, Told(d),
           \/ Streams(e) \/ ExpireStream(e) \/ Mount(e) \/ Leave(e) \/ Nudge(e) \/ Take(e)
           \/ GiveUp(e) \/ LoseStream(e) \/ Orphaned(e)
           \/ Retry(e) \/ Settle(e) \/ Poll(e) \/ Screen(e)
    PROVE  Told(d)'
<1>1. UNCHANGED <<link, lost, heard>>
  BY DEF Streams, Enter, Hello, Receive, ExpireStream, Mount, Leave, Nudge, Take, GiveUp, LoseStream,
         Orphaned, Retry, Settle, Poll, Screen, Answer, Land, FailRead, process
<1>2. Close(e) => UNCHANGED <<stream[d], rx[d], lagged[d]>>
  BY DEF Close, ScreenTypes
<1>3. Abandon(e) => UNCHANGED <<stream[d], rx[d], lagged[d], pipe[d]>>
  BY <1>2 DEF Abandon, ScreenTypes
<1>4. EndConnect(e) => UNCHANGED <<stream[d], rx[d], lagged[d], pipe[d], conn[d], heardOnce[d], timers[d]>>
  BY <1>3 DEF EndConnect, Set, ScreenTypes
<1>5. \A T : Open(e, T) => UNCHANGED <<stream[d], rx[d], lagged[d], pipe[d], conn[d], timers[d]>>
  BY <1>3 DEF Open, ScreenTypes
<1>6. AskAgain(e) => owed'[d] = owed[d]
  BY DEF AskAgain, ScreenTypes
<1>7. \A f : Say(e, f) => pipe'[d] = pipe[d]
  BY DEF Say, ScreenTypes
<1>8. CASE Streams(e) \/ ExpireStream(e)
  <2>1. UNCHANGED <<conn, heardOnce, timers>> /\ owed'[d] = owed[d]
    BY <1>8 DEF Streams, Enter, Hello, Receive, ExpireStream, client, screen, ScreenTypes
  <2>2. UNCHANGED <<stream[d], rx[d], lagged[d], pipe[d]>>
    <3>1. CASE Enter(e) \/ Hello(e)
      BY <3>1 DEF Enter, Hello, hub, ScreenTypes
    <3>2. CASE ExpireStream(e)
      BY <3>2, <1>2, <1>7 DEF ExpireStream
    <3>3. CASE Receive(e)
      BY <3>3, <1>2, <1>7 DEF Receive, Hear, ScreenTypes
    <3> QED BY <1>8, <3>1, <3>2, <3>3 DEF Streams
  <2> QED BY <1>1, <2>1, <2>2, Elsewhere
<1>9. CASE Mount(e) \/ Leave(e) \/ Nudge(e) \/ Retry(e)
  <2>1. UNCHANGED <<stream[d], rx[d], lagged[d], pipe[d], conn[d], timers[d]>>
    <3>1. CASE Nudge(e) /\ standing[e] # "polling"
      BY <3>1 DEF Nudge, hub
    <3>2. CASE Leave(e)
      BY <3>2, <1>3 DEF Leave, ScreenTypes
    <3> QED BY <1>5, <1>9, <3>1, <3>2 DEF Mount, Nudge, Retry
  <2>2. heardOnce'[d] = heardOnce[d] /\ owed'[d] = owed[d]
    BY <1>6, <1>9 DEF Mount, Leave, Nudge, Retry, screen, ScreenTypes
  <2> QED BY <1>1, <2>1, <2>2, Elsewhere
<1>10. CASE Take(e) \/ GiveUp(e) \/ LoseStream(e) \/ Orphaned(e)
  <2>1. owed' = owed
    BY <1>10 DEF Take, GiveUp, LoseStream, Orphaned, screen
  <2>2. UNCHANGED <<stream[d], rx[d], lagged[d], pipe[d], conn[d], heardOnce[d], timers[d]>>
    <3>1. CASE EndConnect(e)
      BY <1>4, <3>1
    <3>2. CASE Take(e) /\ Head(pipe[e]) # "end"
      <4>1. UNCHANGED <<stream, rx, lagged>> /\ pipe'[d] = pipe[d]
        BY <3>2 DEF Take, hub, ScreenTypes
      <4>2. UNCHANGED <<conn[d], heardOnce[d], timers[d]>>
        BY <3>2 DEF Take, Settling, Set, ScreenTypes
      <4> QED BY <4>1, <4>2
    <3> QED BY <1>10, <3>1, <3>2 DEF Take, GiveUp, LoseStream, Orphaned
  <2> QED BY <1>1, <2>1, <2>2, Elsewhere
<1>11. CASE Settle(e) \/ Poll(e)
  <2>1. UNCHANGED <<stream, rx, lagged, pipe, conn, heardOnce>> /\ timers'[d] = timers[d]
    BY <1>11 DEF Settle, Poll, hub, client, ScreenTypes
  <2>2. owed'[d] = owed[d]
    BY <1>6, <1>11 DEF Settle, Poll
  <2> QED BY <1>1, <2>1, <2>2, Elsewhere
<1>12. CASE Screen(e)
  <2>1. UNCHANGED <<process, stream, hub, pipe, client, owed>>
    BY <1>12 DEF Screen, Answer, Land, FailRead
  <2> QED BY <2>1, Elsewhere DEF process, hub, client
<1> QED BY <1>8, <1>9, <1>10, <1>11, <1>12

LEMMA TellingStep == ASSUME ScreenInv, [LiveNext]_liveVars PROVE \A d \in Devices : Told(d)'
<1> SUFFICES ASSUME NEW d \in Devices PROVE Told(d)'
  OBVIOUS
<1>1. ScreenTypes /\ Told(d)
  BY DEF ScreenInv
<1>2. CASE UNCHANGED liveVars
  BY <1>1, <1>2, Elsewhere DEF liveVars, process, hub, client, screen
<1>3. CASE \E t \in Topics : Commit(t)
  BY <1>1, <1>3, ToldCommit
<1>4. CASE Listener \/ LoseLink
  BY <1>1, <1>4, ToldListener DEF Listener
<1>5. CASE DrainServer \/ Halt \/ StartServer
  BY <1>1, <1>5, ToldProcess
<1>6. ASSUME NEW e \in Devices,
             \/ Streams(e) \/ ExpireStream(e) \/ Mount(e) \/ Leave(e) \/ Nudge(e) \/ Take(e)
             \/ GiveUp(e) \/ LoseStream(e) \/ Orphaned(e)
             \/ Retry(e) \/ Settle(e) \/ Poll(e) \/ Screen(e)
      PROVE  Told(d)'
  <2>1. CASE e # d
    BY <1>1, <1>6, <2>1, ToldElsewhere
  <2>2. CASE e = d
    BY <1>1, <1>6, <2>2, ToldAsked, ToldSaid, ToldScreen, ToldConnect DEF Streams
  <2> QED BY <2>1, <2>2
<1> QED BY <1>2, <1>3, <1>4, <1>5, <1>6 DEF LiveNext

LEMMA InitTold == LiveInit => ScreenInv
<1> SUFFICES ASSUME LiveInit PROVE ScreenInv
  OBVIOUS
<1>1. <<>> \in Seq(Topics) /\ <<>> \in Seq(Said) /\ <<>> \in Seq(Frames) /\ Len(<<>>) = 0
  BY Emptied
<1>2. ScreenTypes
  BY <1>1 DEF LiveInit, ScreenTypes
<1>3. ASSUME NEW d \in Devices PROVE Told(d)
  BY <1>1 DEF LiveInit, Told, InOrder
<1> QED BY <1>2, <1>3 DEF ScreenInv

LEMMA ToldIsOnItsWay == ScreenInv => NothingUnheard
<1> SUFFICES ASSUME ScreenInv, NEW d \in Devices, owed[d] = "yes" PROVE OnItsWay(d)
  BY DEF NothingUnheard
<1>1. Coming(d) /\ rx[d] \in Seq(Said) /\ heard \in Seq(Topics) /\ pipe[d] \in Seq(Frames)
  BY DEF ScreenInv, ScreenTypes, Told
<1>2. DOMAIN rx[d] = 1..Len(rx[d]) /\ DOMAIN heard = 1..Len(heard)
  BY <1>1
<1>3. Len(pipe[d]) > 1 => pipe[d] # <<>>
  BY <1>1, Emptied
<1>4. Behind(d) => OnItsWay(d)
  BY <1>2, <1>3 DEF Behind, OnItsWay, InHub, InLink
<1> QED BY <1>1, <1>4 DEF Coming, OnItsWay

------------------------------------------------------------------------------
\* live.rs and changes.ts: whatever is lost, left behind, drained or restarted, a screen
\* that has not asked since the last change at its site is going to.
THEOREM NothingGoesUnheard == LiveSpec => []NothingUnheard
<1>1. LiveInit => ScreenInv
  BY InitTold
<1>2. ScreenInv /\ [LiveNext]_liveVars => ScreenInv'
  <2> SUFFICES ASSUME ScreenInv, [LiveNext]_liveVars PROVE ScreenInv'
    OBVIOUS
  <2>1. ScreenTypes'
    BY TypesStep DEF ScreenInv
  <2> QED BY <2>1, TellingStep DEF ScreenInv
<1>3. ScreenInv => NothingUnheard
  BY ToldIsOnItsWay
<1> QED BY <1>1, <1>2, <1>3, PTL DEF LiveSpec
==============================================================================
