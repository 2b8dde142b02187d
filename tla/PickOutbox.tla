------------------------------- MODULE PickOutbox -------------------------------
(***************************************************************************)
(* Picks kept on a device until the server has them (D207): the outbox in   *)
(* the browser's storage, the tabs that read it, and the two requests a     *)
(* pick is made of, its claim and then the pick.                            *)
(*                                                                         *)
(* A press keeps its act and sends it at once (`now`); a drain sends what   *)
(* is kept, oldest first (`drain`), and only the Picking screen begins one.  *)
(* Each runs to its next await in one go, so each action below is what a    *)
(* tab does between two awaits.  The store and the session's cookie belong  *)
(* to the browser; which acts a press is sending, and who a tab takes to be *)
(* signed in, are in a tab's memory.  A change of site is three awaits      *)
(* (SiteSwitcher), and what is sending goes on beside them.                 *)
(* A request can be lost on its way, or its reply on the way back, or be    *)
(* served after the tab has given it up.                                    *)
(***************************************************************************)
EXTENDS Naturals, Sequences, SequencesExt, FiniteSets

CONSTANTS
    Acts,        \* presses of Take, each with the ids and the moment it minted
    OwnerOf,     \* the person, workspace and site each act is made by
    PersonOf,    \* the person and workspace of an owner
    NeedsClaim,  \* acts whose line was not covered for them as the walk read it
    Bad,         \* acts whose pick the server has a hard problem with
    Tabs,        \* tabs of one browser
    Owners,      \* person, workspace and site
    Nobody,      \* no session
    NoAct,       \* no act
    Wanted,      \* units the line still wants covered; an act claims one of them
    MaxMishaps   \* BOUND: requests lost, pages gone while sending, sessions ended, sites chosen

ASSUME OutboxAssumption ==
    /\ OwnerOf \in [Acts -> Owners]
    /\ DOMAIN PersonOf = Owners
    /\ NeedsClaim \subseteq Acts
    /\ Bad \subseteq Acts
    /\ Nobody \notin Owners
    /\ NoAct \notin Acts
    /\ {Wanted, MaxMishaps} \subseteq Nat

\* The two loops that send acts in a tab; each has one request out at a time.
Senders == Tabs \X {"press", "drain"}

VARIABLES
    cookie,    \* the session the browser's cookie names
    who,       \* per tab, whose session it last heard is on
    picking,   \* tabs on the Picking screen, where useOutbox is mounted
    choosing,  \* per tab, how far its change of site is: the server's, then the tab's
    box,       \* the store: kept acts, oldest first
    setAside,  \* kept acts with the server's refusal beside them
    pressed,   \* per tab, Outbox.pressed
    job,       \* per sender, its request and the reply on its way
    todo,      \* per tab, the rest of the list its drain goes through
    stray,     \* requests nobody waits for that the server may still get
    told,      \* per act, what its press last said
    claims,    \* SERVER: acts whose allocation is recorded
    others,    \* SERVER: units of the line somebody else has covered
    picks,     \* SERVER: acts whose pick is recorded
    by,        \* SERVER: the session each pick was recorded under
    turned,    \* HISTORY: acts whose claim the server refused
    shown,     \* HISTORY: acts whose refusal the person was shown since pressing
    crossed,   \* HISTORY: acts a request of which left during its tab's change of site
    mishaps    \* requests lost, pages gone while sending, sessions ended, sites chosen

page    == <<pressed, todo>>
server  == <<claims, others, picks, by, turned>>
heard   == <<told, shown>>
screen  == <<picking, choosing>>
outboxVars == <<cookie, who, screen, box, setAside, page, job, stray, heard, server,
                crossed, mishaps>>

Idle == [act |-> NoAct, at |-> "idle", as |-> Nobody, reply |-> "none"]

OutboxInit ==
    /\ cookie = Nobody
    /\ who = [t \in Tabs |-> Nobody]
    /\ picking = {} /\ choosing = [t \in Tabs |-> "no"]
    /\ crossed = {}
    /\ box = <<>>
    /\ setAside = {}
    /\ pressed = [t \in Tabs |-> {}]
    /\ job = [x \in Senders |-> Idle]
    /\ todo = [t \in Tabs |-> <<>>]
    /\ stray = {}
    /\ told = [a \in Acts |-> "nothing"]
    /\ claims = {} /\ others = 0
    /\ picks = {} /\ by = [a \in Acts |-> Nobody]
    /\ turned = {} /\ shown = {}
    /\ mishaps = 0

\* One of the bounded number of things that go wrong.
Mishap == mishaps < MaxMishaps /\ mishaps' = mishaps + 1

------------------------------------------------------------------------------
(* The store *)

Kept(a)    == Contains(box, a)
Waiting(a) == Kept(a) /\ a \notin setAside

\* MUTANT: a refused act is kept as it was.
RefuseUnsaid(a) == UNCHANGED <<box, setAside>>

\* What put, drop and refuse leave in the store.  A put replaces the entry, and
\* with it the refusal it carried.
Put(a)    == /\ box' = IF Kept(a) THEN box ELSE Append(box, a)
             /\ setAside' = setAside \ {a}
Drop(a)   == /\ box' = RemoveFirst(box, a)
             /\ setAside' = setAside \ {a}
Refuse(a) == /\ setAside' = IF Kept(a) THEN setAside \cup {a} ELSE setAside
             /\ UNCHANGED box

------------------------------------------------------------------------------
(* Sending *)

\* api.pick: the claim first, unless the line is covered already.
First(a) == IF a \in NeedsClaim THEN "claim" ELSE "pick"

Request(a, at) == [act |-> a, at |-> at, as |-> cookie, reply |-> "none"]

\* MUTANT: a drain sends what a press is sending itself.
SendableUnpressed(t, o, a) == Waiting(a) /\ OwnerOf[a] = o

\* MUTANT: a drain sends whatever is kept on the device.
SendableAnyOwner(t, o, a) == Waiting(a) /\ a \notin pressed[t]

\* What a drain begun for o stops at: its owner's, still waiting, and not being
\* sent by a press.
Sendable(t, o, a) == Waiting(a) /\ OwnerOf[a] = o /\ a \notin pressed[t]

\* The act's request leaves as its tab changes site.
Crosses(t, a) == crossed' = IF choosing[t] = "no" THEN crossed ELSE crossed \cup {a}

\* The drain's loop goes on through a list until an act it can send.
DrainOn(t, o, list) ==
    LET i == SelectInSeq(list, LAMBDA a : Sendable(t, o, a)) IN
    IF i = 0
    THEN /\ job' = [job EXCEPT ![<<t, "drain">>] = Idle]
         /\ todo' = [todo EXCEPT ![t] = <<>>]
         /\ UNCHANGED crossed
    ELSE /\ job' = [job EXCEPT ![<<t, "drain">>] = Request(list[i], First(list[i]))]
         /\ todo' = [todo EXCEPT ![t] = SubSeq(list, i + 1, Len(list))]
         /\ Crosses(t, list[i])

\* Take, and `now`: the act is kept, and then sent.  Pressing again after a
\* refusal is the same act.
Press(t, a) ==
    /\ t \in picking
    /\ who[t] = OwnerOf[a]
    /\ job[<<t, "press">>] = Idle
    /\ told[a] \in {"nothing", "refused"}
    /\ told' = [told EXCEPT ![a] = "sending"]
    /\ shown' = shown \ {a}
    /\ pressed' = [pressed EXCEPT ![t] = @ \cup {a}]
    /\ Put(a)
    /\ job' = [job EXCEPT ![<<t, "press">>] = Request(a, First(a))]
    /\ Crosses(t, a)
    /\ UNCHANGED <<cookie, who, screen, todo, stray, server, mishaps>>

\* useOutbox tries: on arrival, online, on a change, and every fifteen seconds, while
\* the Picking screen it belongs to is there.
Drain(t) ==
    /\ t \in picking
    /\ who[t] # Nobody
    /\ job[<<t, "drain">>] = Idle
    /\ UNCHANGED <<box, setAside, pressed>>
    /\ DrainOn(t, who[t], box)
    /\ job'[<<t, "drain">>] # Idle
    /\ UNCHANGED <<cookie, who, screen, stray, heard, server, mishaps>>

------------------------------------------------------------------------------
(* The server, whose handlers are one transaction each *)

Covered == Cardinality(claims) + others

\* record_allocation: a replay is answered, an over-covering claim refused.
Claim(a) ==
    /\ claims' = IF Covered < Wanted THEN claims \cup {a} ELSE claims
    /\ turned' = IF a \notin claims' THEN turned \cup {a} ELSE turned
    /\ UNCHANGED <<others, picks, by>>

\* record_pick: the act is recorded once, under the session that sent it first.
Pick(a, o) ==
    /\ picks' = IF a \in Bad THEN picks ELSE picks \cup {a}
    /\ by' = IF a \in picks' \ picks THEN [by EXCEPT ![a] = o] ELSE by
    /\ UNCHANGED <<claims, others, turned>>

\* What the server answers, and does.  Without a session, or with one that was
\* ended, it is 401.
SessionOn(m) == m.as = cookie /\ cookie # Nobody

Served(m, reply) ==
    \/ ~SessionOn(m) /\ reply = "lapsed" /\ UNCHANGED server
    \/ /\ SessionOn(m)
       /\ m.at = "claim"
       /\ Claim(m.act)
       /\ reply = IF m.act \in claims' THEN "ok" ELSE "refused"
    \/ /\ SessionOn(m)
       /\ m.at = "pick"
       /\ Pick(m.act, m.as)
       /\ reply = IF m.act \in picks' THEN "ok" ELSE "refused"

Serve(x) ==
    /\ job[x] # Idle
    /\ job[x].reply = "none"
    /\ \E reply \in {"ok", "refused", "lapsed"} :
           /\ Served(job[x], reply)
           /\ job' = [job EXCEPT ![x].reply = reply]
    /\ UNCHANGED <<cookie, who, screen, box, setAside, page, stray, heard, crossed, mishaps>>

\* A request its tab gave up is served after all; nobody hears the answer.
ServeStray(m) ==
    /\ m \in stray
    /\ stray' = stray \ {m}
    /\ \E reply \in {"ok", "refused", "lapsed"} : Served(m, reply)
    /\ UNCHANGED <<cookie, who, screen, box, setAside, page, job, heard, crossed, mishaps>>

\* Planning, or another picker, covers a unit of the line, or lets one go.
CoverElsewhere ==
    /\ others' \in {others + 1, others - 1} \cap (0..Wanted)
    /\ Cardinality(claims) + others' <= Wanted
    /\ UNCHANGED <<cookie, who, screen, box, setAside, page, job, stray, heard, claims,
                   picks, by, turned, crossed, mishaps>>

------------------------------------------------------------------------------
(* The answers *)

\* The claim is there, or was refused to a drain (`pickAnyway`): now the pick.
GoOn(x) ==
    /\ job[x].at = "claim"
    /\ \/ job[x].reply = "ok"
       \/ job[x].reply = "refused" /\ x[2] = "drain"
    /\ job' = [job EXCEPT ![x] = Request(job[x].act, "pick")]
    /\ Crosses(x[1], job[x].act)
    /\ UNCHANGED <<cookie, who, screen, box, setAside, page, stray, heard, server, mishaps>>

\* A press ends: it was recorded, or refused, and leaves the store either way.
EndPress(t) ==
    LET x == <<t, "press">>  a == job[x].act IN
    /\ \/ job[x].at = "pick" /\ job[x].reply = "ok"
       \/ job[x].reply = "refused"
    /\ Drop(a)
    /\ told' = [told EXCEPT ![a] = IF job[x].reply = "ok" THEN "taken" ELSE "refused"]
    /\ shown' = IF job[x].reply = "ok" THEN shown ELSE shown \cup {a}
    /\ pressed' = [pressed EXCEPT ![t] = @ \ {a}]
    /\ job' = [job EXCEPT ![x] = Idle]
    /\ UNCHANGED <<cookie, who, screen, todo, stray, server, crossed, mishaps>>

\* A drained act is dropped once recorded, or set aside with its refusal, and
\* the drain goes on to the next.
EndDrained(t) ==
    LET x == <<t, "drain">>  a == job[x].act IN
    /\ job[x].at = "pick"
    /\ \/ job[x].reply = "ok" /\ Drop(a)
       \/ job[x].reply = "refused" /\ Refuse(a)
    /\ UNCHANGED pressed
    /\ DrainOn(t, OwnerOf[a], todo[t])
    /\ UNCHANGED <<cookie, who, screen, stray, heard, server, mishaps>>

\* MUTANT: a press that gets no answer is dropped as a refused one is.
NoAnswerDrops(x) ==
    LET t == x[1]  a == job[x].act IN
    /\ job' = [job EXCEPT ![x] = Idle]
    /\ IF x[2] = "press"
       THEN /\ pressed' = [pressed EXCEPT ![t] = @ \ {a}]
            /\ told' = [told EXCEPT ![a] = "saved"]
            /\ UNCHANGED shown
            /\ Drop(a)
            /\ UNCHANGED todo
       ELSE /\ todo' = [todo EXCEPT ![t] = <<>>]
            /\ UNCHANGED <<pressed, heard, box, setAside>>
    /\ UNCHANGED <<server>>

\* `transient`: a press leaves its act kept and says it is saved, and a drain
\* stops, because the acts behind would not get through either.
NoAnswer(x) ==
    LET t == x[1]  a == job[x].act IN
    /\ job' = [job EXCEPT ![x] = Idle]
    /\ IF x[2] = "press"
       THEN /\ pressed' = [pressed EXCEPT ![t] = @ \ {a}]
            /\ told' = [told EXCEPT ![a] = "saved"]
            /\ UNCHANGED shown
            /\ UNCHANGED todo
       ELSE /\ todo' = [todo EXCEPT ![t] = <<>>]
            /\ UNCHANGED <<pressed, heard>>
    /\ UNCHANGED <<box, setAside, server>>

\* A 401 is no answer either, and the tab takes nobody to be signed in.
Lapsed(x) ==
    /\ job[x].reply = "lapsed"
    /\ NoAnswer(x)
    /\ who' = [who EXCEPT ![x[1]] = Nobody]
    /\ UNCHANGED <<cookie, screen, stray, crossed, mishaps>>

\* The connection fails before the server has the request, after it, or while
\* the request is still on its way.
Lose(x) ==
    /\ job[x] # Idle
    /\ Mishap
    /\ NoAnswer(x)
    /\ \/ stray' = stray
       \/ job[x].reply = "none" /\ stray' = stray \cup {job[x]}
    /\ UNCHANGED <<cookie, who, screen, crossed>>

------------------------------------------------------------------------------
(* The browser *)

\* A tab's page goes: its loops stop, and a request on its way is nobody's.
Unload(t) ==
    /\ pressed' = [pressed EXCEPT ![t] = {}]
    /\ todo' = [todo EXCEPT ![t] = <<>>]
    /\ choosing' = [choosing EXCEPT ![t] = "no"]
    /\ job' = [x \in Senders |-> IF x[1] = t THEN Idle ELSE job[x]]
    /\ stray' = stray \cup {job[x] : x \in {y \in Senders :
                    y[1] = t /\ job[y] # Idle /\ job[y].reply = "none"}}
    /\ UNCHANGED <<box, setAside, heard, server, crossed>>

\* A page is loaded, again or in another tab, or the device starts after a flat
\* battery; the page asks the server whose session it is.
Load(t) ==
    /\ IF \E x \in Senders : x[1] = t /\ job[x] # Idle
       THEN Mishap
       ELSE who[t] # cookie /\ UNCHANGED mishaps
    /\ Unload(t)
    /\ who' = [who EXCEPT ![t] = cookie]
    /\ UNCHANGED <<cookie, picking>>

\* UserMenu: the session is revoked and this tab goes to the sign-in page.  The
\* other tabs are not told.
SignOff(t) ==
    /\ who[t] # Nobody /\ who[t] = cookie
    /\ Mishap
    /\ cookie' = Nobody
    /\ Unload(t)
    /\ who' = [who EXCEPT ![t] = Nobody]
    /\ picking' = picking \ {t}

\* Signing on loads the page afresh, and goes back to where it was asked for.
SignOn(t, o) ==
    /\ who[t] = Nobody
    /\ cookie = Nobody
    /\ cookie' = o
    /\ Unload(t)
    /\ who' = [who EXCEPT ![t] = o]
    /\ UNCHANGED <<picking, mishaps>>

\* The session lapses, or is revoked from another device.
Expire ==
    /\ cookie # Nobody
    /\ Mishap
    /\ cookie' = Nobody
    /\ UNCHANGED <<who, screen, box, setAside, page, job, stray, heard, server, crossed>>

\* The tab goes to the Picking screen, or leaves it with what it is sending on its way.
Navigate(t) ==
    /\ picking' = IF t \in picking THEN picking \ {t} ELSE picking \cup {t}
    /\ UNCHANGED <<cookie, who, choosing, box, setAside, page, job, stray, heard, server,
                   crossed, mishaps>>

\* SiteSwitcher's `choose`: chooseSite, heard by the tab as the server does it (one
\* that is not heard is an Expire, its old session being revoked) ...
ChooseSite(t, o) ==
    /\ who[t] # Nobody /\ cookie # Nobody
    /\ choosing[t] = "no"
    /\ o # cookie /\ PersonOf[o] = PersonOf[cookie]
    /\ Mishap
    /\ cookie' = o
    /\ choosing' = [choosing EXCEPT ![t] = "chosen"]
    /\ UNCHANGED <<who, picking, box, setAside, page, job, stray, heard, server, crossed>>

\* ... then refresh, which reads whose session it is ...
Refresh(t) ==
    /\ choosing[t] = "chosen"
    /\ who' = [who EXCEPT ![t] = cookie]
    /\ choosing' = [choosing EXCEPT ![t] = "read"]
    /\ UNCHANGED <<cookie, picking, box, setAside, page, job, stray, heard, server,
                   crossed, mishaps>>

\* ... and then the page is loaded again, whatever it is sending.
Reload(t) ==
    /\ choosing[t] = "read"
    /\ Unload(t)
    /\ who' = [who EXCEPT ![t] = cookie]
    /\ UNCHANGED <<cookie, picking, mishaps>>

\* The refusal has been read.
Dismiss(a) ==
    /\ a \in setAside
    /\ Drop(a)
    /\ shown' = shown \cup {a}
    /\ UNCHANGED <<cookie, told, who, screen, page, job, stray, server, crossed, mishaps>>

------------------------------------------------------------------------------
Answers(x)  == GoOn(x) \/ Lapsed(x)

OutboxNext ==
    \/ \E t \in Tabs, a \in Acts : Press(t, a)
    \/ \E t \in Tabs : Drain(t) \/ EndPress(t) \/ EndDrained(t)
    \/ \E t \in Tabs : Load(t) \/ SignOff(t) \/ Reload(t)
    \/ \E t \in Tabs, o \in Owners : SignOn(t, o) \/ ChooseSite(t, o)
    \/ \E t \in Tabs : Navigate(t) \/ Refresh(t)
    \/ \E x \in Senders : Serve(x) \/ Answers(x) \/ Lose(x)
    \/ \E m \in stray : ServeStray(m)
    \/ \E a \in Acts : Dismiss(a)
    \/ CoverElsewhere
    \/ Expire

OutboxSpec == OutboxInit /\ [][OutboxNext]_outboxVars

\* The Picking screen's timer runs while it is there, a page's loops and its change
\* of site go on, and a request that is not lost is answered.
OutboxFairness ==
    /\ \A t \in Tabs : /\ WF_outboxVars(Drain(t))
                       /\ WF_outboxVars(EndPress(t))
                       /\ WF_outboxVars(EndDrained(t))
                       /\ WF_outboxVars(Refresh(t))
                       /\ WF_outboxVars(Reload(t))
    /\ \A x \in Senders : WF_outboxVars(Serve(x)) /\ WF_outboxVars(Answers(x))

OutboxFairSpec == OutboxSpec /\ OutboxFairness

------------------------------------------------------------------------------
Sent == [act : Acts, at : {"claim", "pick"}, as : Owners \cup {Nobody},
             reply : {"none", "ok", "refused", "lapsed"}]

\* Every variable stays in its range, the store holds an act once, and a refusal
\* is kept only beside an act that is.
OutboxTypeOK ==
    /\ cookie \in Owners \cup {Nobody}
    /\ who \in [Tabs -> Owners \cup {Nobody}]
    /\ picking \subseteq Tabs
    /\ choosing \in [Tabs -> {"no", "chosen", "read"}]
    /\ ToSet(box) \subseteq Acts /\ IsInjective(box)
    /\ setAside \subseteq ToSet(box)
    /\ pressed \in [Tabs -> SUBSET Acts]
    /\ job \in [Senders -> Sent \cup {Idle}]
    /\ \A t \in Tabs : ToSet(todo[t]) \subseteq Acts
    /\ stray \subseteq Sent
    /\ told \in [Acts -> {"nothing", "sending", "taken", "saved", "refused"}]
    /\ claims \cup picks \cup turned \cup shown \cup crossed \subseteq Acts
    /\ others \in 0..Wanted
    /\ mishaps \in 0..MaxMishaps
    /\ by \in [Acts -> Owners \cup {Nobody}]

\* A pick that was pressed is recorded, or still kept on the device, or its
\* refusal was shown to the person: whatever is lost, reloaded or sent by another
\* tab, goods in a tote are never without one of the three.
NothingLost ==
    \A a \in Acts : told[a] # "nothing" => a \in picks \/ Kept(a) \/ a \in shown

\* What is left on the device by a press that ended is sent, whatever is refused
\* before it, as long as its owner stays signed in on the Picking screen of some page:
\* nothing else of the client sends it.
Left == \E t \in Tabs, a \in Acts :
            /\ who[t] = OwnerOf[a] /\ t \in picking /\ Waiting(a)
            /\ \A u \in Tabs : a \notin pressed[u]
LeftIsSent == Left ~> ~Left

\* "The same act sent from here at the same moment must not record what the press
\* was told was refused" (Outbox.drain): the answer to a press is the only one.
\* It holds in one tab, whose memory is where `pressed` is.
RefusedIsNotRecorded ==
    \A a \in Acts : told[a] = "refused" => a \notin picks

\* The answer a person gets to a press is what became of it, as long as either is there.
PressAnswered == NothingLost /\ RefusedIsNotRecorded

\* An act "is sent only under that session" (the head of outbox.ts, D207): a pick is
\* recorded as its owner's.  A change of site breaks it, in one tab too: what is sending
\* goes on between the server's change and the page's reload.
SentAsItsOwner == \A a \in picks : by[a] = OwnerOf[a]

\* In one tab nothing else does: a pick is recorded as its owner's, unless a request of
\* it left during a change of site, and then as the same person's in the same workspace.
SentAsItsOwnerUnlessCrossed ==
    \A a \in picks : \/ by[a] = OwnerOf[a]
                     \/ a \in crossed /\ PersonOf[by[a]] = PersonOf[OwnerOf[a]]
==============================================================================
