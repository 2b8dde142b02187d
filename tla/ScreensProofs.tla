------------------------------ MODULE ScreensProofs ------------------------------
(***************************************************************************)
(* What two screens promise who works at them.  The pick screen's outbox,  *)
(* for any acts, tabs, owners and losses: a pressed act is recorded, kept  *)
(* or shown refused whoever sends it (KeepInv).  In one tab more is so     *)
(* (TabInv): an act nobody has an answer to wait for is nowhere            *)
(* (FreshUnsent), one a press is sending is sent by nothing else (Held),   *)
(* and whoever is signed in is whom the tab takes to be (Seated), or, as   *)
(* the tab changes site, the same person: every request goes as its        *)
(* owner's, as nobody's, or across that change.  Two tabs break each of    *)
(* these three.  The layout editor, for any saves, drafts and reaches:  *)
(* saves run one at a time and each writes over what its editor read, but  *)
(* for what takes no lock (SaveInv); and a bin is where its name is, by    *)
(* what each request has read and has written and not committed (NameInv). *)
(* Walks only read the layout, and a kept floor is one its builder asked   *)
(* for and read (FloorInv).                                                *)
(***************************************************************************)
EXTENDS PickOutbox, Walks, FiniteSetTheorems, WellFoundedInduction, TLAPS

------------------------------------------------------------------------------
(* Sequences *)

\* A set of numbers has a least one.
LEMMA LeastIs ==
    ASSUME NEW I, I \subseteq Nat, I # {}
    PROVE  Min(I) \in I
<1>1. IsWellFoundedOn(OpToRel(<, Nat), Nat)
  BY NatLessThanWellFounded
<1>2. PICK i \in I : \A j \in I : <<j, i>> \notin OpToRel(<, Nat)
  BY <1>1, WFMin
<1>3. \A j \in I : ~(j < i)
  BY <1>2 DEF OpToRel
<1>4. i \in Nat /\ \A j \in I : j \in Nat
  OBVIOUS
<1>5. \A j \in I : i <= j
  BY <1>3, <1>4
<1> QED BY <1>5 DEF Min

\* What RemoveFirst leaves of a sequence that holds nothing twice.
LEMMA Removed ==
    ASSUME NEW S, NEW q \in Seq(S), IsInjective(q), NEW a
    PROVE  /\ RemoveFirst(q, a) \in Seq(S)
           /\ IsInjective(RemoveFirst(q, a))
           /\ \A x : Contains(RemoveFirst(q, a), x) <=> Contains(q, x) /\ x # a
<1> DEFINE p == SelectInSeq(q, LAMBDA v : v = a)  s == RemoveFirst(q, a)  n == Len(q)
<1>0. CASE ~Contains(q, a)
  <2>1. s = q
    BY <1>0 DEF RemoveFirst, Contains
  <2> QED BY <1>0, <2>1 DEF Contains
<1>a. CASE Contains(q, a)
  <2>1. p \in 1..n /\ q[p] = a
    <3> DEFINE I == {i \in 1..n : q[i] = a}
    <3>1. I # {} /\ I \subseteq Nat
      BY <1>a DEF Contains
    <3>2. Min(I) \in I
      BY <3>1, LeastIs
    <3>3. p = Min(I)
      BY <3>1 DEF SelectInSeq
    <3> QED BY <3>2, <3>3
  <2>2. s = SubSeq(q, 1, p - 1) \o SubSeq(q, p + 1, n)
    BY <1>a DEF RemoveFirst, RemoveAt, Contains
  <2> HIDE DEF p, s
  <2>n. n \in Nat /\ p \in Nat /\ p >= 1 /\ p <= n
    BY <2>1
  <2> DEFINE u == SubSeq(q, 1, p - 1)  v == SubSeq(q, p + 1, n)
  <2>u. u \in Seq(S) /\ Len(u) = p - 1 /\ \A i \in 1..(p - 1) : u[i] = q[i]
    BY <2>n
  <2>v. v \in Seq(S) /\ Len(v) = n - p /\ \A i \in 1..(n - p) : v[i] = q[p + i]
    BY <2>n
  <2> HIDE DEF u, v, n
  <2>3. s \in Seq(S) /\ Len(s) = n - 1
    BY <2>2, <2>n, <2>u, <2>v DEF u, v
  <2>4. \A i \in 1..(n - 1) : s[i] = IF i < p THEN q[i] ELSE q[i + 1]
    <3>1. s = u \o v
      BY <2>2 DEF u, v, n
    <3>2. \A i \in 1..(n - 1) : s[i] = IF i <= p - 1 THEN u[i] ELSE v[i - (p - 1)]
      BY <2>n, <2>u, <2>v, <3>1
    <3>3. \A i \in 1..(n - 1) : i > p - 1 => i - (p - 1) \in 1..(n - p) /\ p + (i - (p - 1)) = i + 1
      BY <2>n
    <3> QED BY <2>n, <2>u, <2>v, <3>2, <3>3
  <2> USE DEF n
  <2>d. DOMAIN q = 1..n /\ DOMAIN s = 1..(n - 1)
    BY <2>3
  <2>5. IsInjective(s)
    <3> SUFFICES ASSUME NEW i \in 1..(n - 1), NEW j \in 1..(n - 1), s[i] = s[j]
                 PROVE  i = j
      BY <2>d DEF IsInjective
    <3>1. \A k, l \in 1..n : q[k] = q[l] => k = l
      BY <2>d DEF IsInjective
    <3> QED BY <2>n, <2>4, <3>1
  <2>6. ASSUME NEW x, Contains(s, x) PROVE Contains(q, x) /\ x # a
    <3>1. PICK i \in 1..(n - 1) : s[i] = x
      BY <2>3, <2>6 DEF Contains
    <3> DEFINE k == IF i < p THEN i ELSE i + 1
    <3>2. k \in 1..n /\ k # p /\ q[k] = x
      BY <2>n, <2>4, <3>1
    <3>3. \A l, m \in 1..n : q[l] = q[m] => l = m
      BY <2>d DEF IsInjective
    <3> HIDE DEF k
    <3> QED BY <2>1, <3>2, <3>3 DEF Contains
  <2>7. ASSUME NEW x, Contains(q, x), x # a PROVE Contains(s, x)
    <3>1. PICK i \in 1..n : q[i] = x
      BY <2>7 DEF Contains
    <3> DEFINE k == IF i < p THEN i ELSE i - 1
    <3>2. i # p
      BY <2>1, <2>7, <3>1
    <3>3. k \in 1..(n - 1) /\ s[k] = x
      BY <2>n, <2>4, <3>1, <3>2
    <3> HIDE DEF k
    <3> QED BY <2>3, <3>3 DEF Contains
  <2> QED BY <2>3, <2>5, <2>6, <2>7 DEF s
<1> QED BY <1>0, <1>a

------------------------------------------------------------------------------
USE OutboxAssumption
USE DEF OutboxAssumption

Jobs == Sent \cup {Idle}

Types ==
    /\ cookie \in Owners \cup {Nobody}
    /\ who \in [Tabs -> Owners \cup {Nobody}]
    /\ choosing \in [Tabs -> {"no", "chosen", "read"}]
    /\ box \in Seq(Acts) /\ IsInjective(box)
    /\ pressed \in [Tabs -> SUBSET Acts]
    /\ job \in [Senders -> Jobs]
    /\ todo \in [Tabs -> Seq(Acts)]
    /\ stray \subseteq Sent
    /\ told \in [Acts -> {"nothing", "sending", "taken", "saved", "refused"}]
    /\ picks \subseteq Acts
    /\ by \in [Acts -> Owners \cup {Nobody}]

\* A page that starts afresh, and what a tab does that neither sends nor hears.
Afresh(t) == Load(t) \/ SignOff(t) \/ Reload(t) \/ \E o \in Owners : SignOn(t, o)
Roams(t)  == Navigate(t) \/ Refresh(t) \/ \E o \in Owners : ChooseSite(t, o)

\* A request of an act's is one of Sent, and another.
LEMMA RequestIs ==
    ASSUME Types, NEW a \in Acts, NEW k \in {"claim", "pick"}
    PROVE  /\ Request(a, k) \in Sent
           /\ Request(a, k).act = a /\ Request(a, k).at = k
           /\ Request(a, k).as = cookie /\ Request(a, k).reply = "none"
BY DEF Types, Request, Sent

LEMMA IdleIs ==
    /\ Idle.act = NoAct /\ Idle.as = Nobody /\ Idle.reply = "none" /\ Idle.at = "idle"
    /\ Idle \notin Sent
BY DEF Idle, Sent

LEMMA JobIs ==
    ASSUME Types, NEW x \in Senders, job[x] # Idle
    PROVE  /\ job[x] \in Sent
           /\ job[x].act \in Acts /\ job[x].at \in {"claim", "pick"}
           /\ job[x].as \in Owners \cup {Nobody}
           /\ job[x].reply \in {"none", "ok", "refused", "lapsed"}
BY DEF Types, Jobs, Sent

\* A store that an act is put in, or taken from.
LEMMA PutIs ==
    ASSUME Types, NEW a \in Acts, Put(a)
    PROVE  /\ box' \in Seq(Acts) /\ IsInjective(box')
           /\ \A x : Kept(x)' <=> Kept(x) \/ x = a
<1>1. CASE Kept(a)
  BY <1>1 DEF Put, Types, Kept
<1>2. CASE ~Kept(a)
  <2>1. box' = Append(box, a) /\ box \in Seq(Acts)
    BY <1>2 DEF Put, Types
  <2>2. /\ box' \in Seq(Acts) /\ Len(box') = Len(box) + 1
        /\ \A i \in 1..Len(box) : box'[i] = box[i]
        /\ box'[Len(box) + 1] = a
    BY <2>1
  <2>3. \A i \in 1..Len(box) : box[i] # a
    BY <1>2 DEF Kept, Contains
  <2>4. \A i, j \in 1..Len(box) : box[i] = box[j] => i = j
    BY <2>1 DEF Types, IsInjective
  <2>5. Len(box) \in Nat /\ DOMAIN box' = 1..(Len(box) + 1)
    BY <2>1, <2>2
  <2>6. IsInjective(box')
    BY <2>2, <2>3, <2>4, <2>5 DEF IsInjective
  <2>7. \A x : Contains(box', x) <=> Contains(box, x) \/ x = a
    BY <2>2, <2>5 DEF Contains
  <2> QED BY <2>2, <2>6, <2>7 DEF Kept
<1> QED BY <1>1, <1>2

LEMMA DropIs ==
    ASSUME Types, NEW a, Drop(a)
    PROVE  /\ box' \in Seq(Acts) /\ IsInjective(box')
           /\ \A x : Kept(x)' <=> Kept(x) /\ x # a
BY Removed DEF Types, Drop, Kept

\* A drain goes on with nothing, or with an act it may send.
LEMMA DrainOnIs ==
    ASSUME Types, NEW t \in Tabs, NEW o, NEW list \in Seq(Acts), DrainOn(t, o, list)
    PROVE  /\ todo' \in [Tabs -> Seq(Acts)]
           /\ \/ job' = [job EXCEPT ![<<t, "drain">>] = Idle]
              \/ \E a \in Acts : /\ Sendable(t, o, a) /\ Crosses(t, a)
                                 /\ job' = [job EXCEPT ![<<t, "drain">>] = Request(a, First(a))]
<1> DEFINE i == SelectInSeq(list, LAMBDA a : Sendable(t, o, a))
           I == {j \in 1..Len(list) : Sendable(t, o, list[j])}
<1>1. CASE I = {}
  <2>1. i = 0
    BY <1>1 DEF SelectInSeq
  <2>2. /\ job' = [job EXCEPT ![<<t, "drain">>] = Idle]
        /\ todo' = [todo EXCEPT ![t] = <<>>]
    BY <1>1, <2>1 DEF DrainOn, SelectInSeq
  <2>3. <<>> \in Seq(Acts)
    OBVIOUS
  <2> QED BY <2>2, <2>3 DEF Types
<1>2. CASE I # {}
  <2>1. i = Min(I)
    BY <1>2 DEF SelectInSeq
  <2>2. I \subseteq Nat
    OBVIOUS
  <2>3. i \in I
    <3> HIDE DEF I, i
    <3> QED BY <1>2, <2>1, <2>2, LeastIs
  <2>4. i \in 1..Len(list) /\ Sendable(t, o, list[i]) /\ list[i] \in Acts
    BY <2>3
  <2>5. /\ job' = [job EXCEPT ![<<t, "drain">>] = Request(list[i], First(list[i]))]
        /\ todo' = [todo EXCEPT ![t] = SubSeq(list, i + 1, Len(list))]
        /\ Crosses(t, list[i])
    BY <1>2, <2>4 DEF DrainOn, SelectInSeq
  <2> HIDE DEF i
  <2>6. SubSeq(list, i + 1, Len(list)) \in Seq(Acts)
    BY <2>4
  <2>7. todo' \in [Tabs -> Seq(Acts)]
    BY <2>5, <2>6 DEF Types
  <2> QED BY <2>4, <2>5, <2>7
<1> QED BY <1>1, <1>2

\* What a served request changes: one pick is recorded at most, of its act, under the
\* session that is on, and answered "ok".
LEMMA ServedIs ==
    ASSUME Types, NEW m \in Sent, NEW reply, Served(m, reply)
    PROVE  /\ \/ UNCHANGED <<picks, by>>
              \/ /\ picks' = picks \cup {m.act} /\ m.act \notin picks
                 /\ by' = [by EXCEPT ![m.act] = m.as]
                 /\ m.at = "pick" /\ reply = "ok" /\ m.as = cookie /\ cookie # Nobody
           /\ m.at = "pick" /\ reply = "ok" => m.act \in picks'
           /\ reply = "lapsed" => m.as # cookie \/ cookie = Nobody
<1>1. CASE ~SessionOn(m) /\ reply = "lapsed" /\ UNCHANGED server
  BY <1>1 DEF SessionOn, server
<1>2. CASE /\ m.at = "claim"
           /\ Claim(m.act)
           /\ reply = IF m.act \in claims' THEN "ok" ELSE "refused"
  BY <1>2 DEF Claim
<1>3. CASE /\ SessionOn(m)
           /\ m.at = "pick"
           /\ Pick(m.act, m.as)
           /\ reply = IF m.act \in picks' THEN "ok" ELSE "refused"
  <2>1. CASE picks' = picks
    BY <1>3, <2>1 DEF Pick
  <2>2. CASE picks' # picks
    <3>1. picks' = picks \cup {m.act} /\ m.act \notin picks
      BY <1>3, <2>2 DEF Pick
    <3>2. m.act \in picks' \ picks
      BY <3>1
    <3> QED BY <1>3, <3>1, <3>2 DEF Pick, SessionOn
  <2> QED BY <2>1, <2>2
<1> QED BY <1>1, <1>2, <1>3 DEF Served

\* No answer leaves the store and the server as they are, and ends the sender's request.
LEMMA NoAnswerIs ==
    ASSUME Types, NEW x \in Senders, job[x] # Idle, NoAnswer(x)
    PROVE  /\ UNCHANGED <<box, setAside, server>>
           /\ job' = [job EXCEPT ![x] = Idle]
           /\ todo' \in [Tabs -> Seq(Acts)]
           /\ \/ /\ x[2] = "press"
                 /\ pressed' = [pressed EXCEPT ![x[1]] = @ \ {job[x].act}]
                 /\ told' = [told EXCEPT ![job[x].act] = "saved"]
                 /\ shown' = shown
              \/ x[2] = "drain" /\ UNCHANGED <<pressed, told, shown>>
<1>1. x[1] \in Tabs /\ x[2] \in {"press", "drain"} /\ <<>> \in Seq(Acts)
  BY DEF Senders
<1>2. todo' \in [Tabs -> Seq(Acts)]
  BY <1>1 DEF NoAnswer, Types
<1> QED BY <1>1, <1>2 DEF NoAnswer, heard

\* A page that goes leaves no request behind but strays.
LEMMA UnloadIs ==
    ASSUME Types, NEW t \in Tabs, Unload(t)
    PROVE  /\ pressed' \in [Tabs -> SUBSET Acts] /\ pressed'[t] = {}
           /\ todo' \in [Tabs -> Seq(Acts)]
           /\ job' \in [Senders -> Jobs]
           /\ \A x \in Senders : job'[x] = IF x[1] = t THEN Idle ELSE job[x]
           /\ stray' \subseteq Sent
           /\ \A m \in stray' : m \in stray \/ \E x \in Senders : job[x] # Idle /\ m = job[x]
           /\ choosing' = [choosing EXCEPT ![t] = "no"]
           /\ choosing' \in [Tabs -> {"no", "chosen", "read"}]
           /\ UNCHANGED <<box, setAside, told, shown, picks, by, crossed>>
<1>0. /\ choosing' = [choosing EXCEPT ![t] = "no"]
      /\ choosing' \in [Tabs -> {"no", "chosen", "read"}]
      /\ UNCHANGED <<box, setAside, told, shown, picks, by, crossed>>
  BY DEF Unload, Types, heard, server
<1>1. <<>> \in Seq(Acts)
  OBVIOUS
<1>2. /\ pressed' \in [Tabs -> SUBSET Acts] /\ pressed'[t] = {}
      /\ todo' \in [Tabs -> Seq(Acts)]
  BY <1>1 DEF Unload, Types
<1>3. /\ job' = [x \in Senders |-> IF x[1] = t THEN Idle ELSE job[x]]
      /\ stray' = stray \cup {job[x] : x \in {y \in Senders :
                    y[1] = t /\ job[y] # Idle /\ job[y].reply = "none"}}
  BY DEF Unload
<1>4. job' \in [Senders -> Jobs]
  BY <1>3 DEF Types, Jobs
<1>5. \A m \in stray' : m \in stray \/ \E x \in Senders : job[x] # Idle /\ m = job[x]
  BY <1>3
<1>6. stray' \subseteq Sent
  BY <1>5, JobIs DEF Types
<1> QED BY <1>0, <1>2, <1>3, <1>4, <1>5, <1>6

\* A sender whose job changes, and no other.
LEMMA JobsTyped ==
    ASSUME Types, NEW x \in Senders, NEW n \in Jobs, job' = [job EXCEPT ![x] = n]
    PROVE  job' \in [Senders -> Jobs]
BY DEF Types

LEMMA SenderIs ==
    ASSUME NEW t \in Tabs
    PROVE  /\ <<t, "press">> \in Senders /\ <<t, "drain">> \in Senders
           /\ <<t, "press">> # <<t, "drain">>
BY DEF Senders

LEMMA FirstIs == \A a : First(a) \in {"claim", "pick"}
BY DEF First

\* A step of a sender's loop.
LEMMA LoopTypes ==
    ASSUME Types, NEW t \in Tabs,
           Drain(t) \/ EndDrained(t) \/ EndPress(t) \/ \E a \in Acts : Press(t, a)
    PROVE  Types'
<1>1. ASSUME NEW o, NEW list \in Seq(Acts), DrainOn(t, o, list)
      PROVE  job' \in [Senders -> Jobs] /\ todo' \in [Tabs -> Seq(Acts)]
  <2>1. CASE job' = [job EXCEPT ![<<t, "drain">>] = Idle]
    BY <1>1, <2>1, DrainOnIs, JobsTyped, SenderIs DEF Jobs
  <2>2. ASSUME NEW a \in Acts, job' = [job EXCEPT ![<<t, "drain">>] = Request(a, First(a))]
        PROVE  job' \in [Senders -> Jobs]
    <3>1. Request(a, First(a)) \in Jobs
      BY FirstIs, RequestIs DEF Jobs
    <3> QED BY <2>2, <3>1, JobsTyped, SenderIs
  <2> QED BY <1>1, <2>1, <2>2, DrainOnIs
<1>2. CASE Drain(t)
  <2>1. DrainOn(t, who[t], box) /\ box \in Seq(Acts)
    BY <1>2 DEF Drain, Types
  <2>2. job' \in [Senders -> Jobs] /\ todo' \in [Tabs -> Seq(Acts)]
    BY <1>1, <2>1
  <2> QED BY <1>2, <2>2 DEF Drain, Types, screen, heard, server
<1>3. CASE EndDrained(t)
  <2> DEFINE a == job[<<t, "drain">>].act
  <2>1. DrainOn(t, OwnerOf[a], todo[t]) /\ todo[t] \in Seq(Acts)
    BY <1>3 DEF EndDrained, Types
  <2>2. job' \in [Senders -> Jobs] /\ todo' \in [Tabs -> Seq(Acts)]
    BY <1>1, <2>1
  <2>3. Drop(a) \/ Refuse(a)
    BY <1>3 DEF EndDrained
  <2>4. box' \in Seq(Acts) /\ IsInjective(box')
    BY <2>3, DropIs DEF Refuse, Types
  <2> QED BY <1>3, <2>2, <2>4 DEF EndDrained, Types, screen, heard, server
<1>4. CASE EndPress(t)
  <2> DEFINE x == <<t, "press">>
             a == job[x].act
             how == IF job[x].reply = "ok" THEN "taken" ELSE "refused"
  <2>1. /\ Drop(a) /\ job' = [job EXCEPT ![x] = Idle]
        /\ pressed' = [pressed EXCEPT ![t] = @ \ {a}]
        /\ told' = [told EXCEPT ![a] = how]
        /\ UNCHANGED <<cookie, who, choosing, todo, stray, picks, by>>
    BY <1>4 DEF EndPress, screen, server
  <2>2. job' \in [Senders -> Jobs]
    BY <2>1, JobsTyped, SenderIs DEF Jobs
  <2>3. box' \in Seq(Acts) /\ IsInjective(box')
    BY <2>1, DropIs
  <2> HIDE DEF a
  <2>4. told' \in [Acts -> {"nothing", "sending", "taken", "saved", "refused"}]
    BY <2>1 DEF Types
  <2>5. pressed' \in [Tabs -> SUBSET Acts]
    BY <2>1 DEF Types
  <2> QED BY <2>1, <2>2, <2>3, <2>4, <2>5 DEF Types
<1>5. ASSUME NEW a \in Acts, Press(t, a) PROVE Types'
  <2>1. /\ Put(a) /\ job' = [job EXCEPT ![<<t, "press">>] = Request(a, First(a))]
        /\ pressed' = [pressed EXCEPT ![t] = @ \cup {a}]
        /\ told' = [told EXCEPT ![a] = "sending"]
        /\ UNCHANGED <<cookie, who, choosing, todo, stray, picks, by>>
    BY <1>5 DEF Press, screen, server
  <2>2. Request(a, First(a)) \in Jobs
    BY FirstIs, RequestIs DEF Jobs
  <2>3. job' \in [Senders -> Jobs]
    BY <2>1, <2>2, JobsTyped, SenderIs
  <2>4. box' \in Seq(Acts) /\ IsInjective(box')
    BY <2>1, PutIs
  <2>5. pressed' \in [Tabs -> SUBSET Acts]
        /\ told' \in [Acts -> {"nothing", "sending", "taken", "saved", "refused"}]
    BY <2>1 DEF Types
  <2> QED BY <2>1, <2>3, <2>4, <2>5 DEF Types
<1> QED BY <1>2, <1>3, <1>4, <1>5

\* What a request does at the server.
LEMMA ServedTypes ==
    ASSUME Types, NEW m \in Sent, NEW reply, Served(m, reply)
    PROVE  picks' \subseteq Acts /\ by' \in [Acts -> Owners \cup {Nobody}]
<1>1. m.act \in Acts /\ m.as \in Owners \cup {Nobody}
  BY DEF Sent
<1> QED BY <1>1, ServedIs DEF Types

\* A step of a sender's request, or its end.
LEMMA SenderTypes ==
    ASSUME Types, NEW x \in Senders, Serve(x) \/ Answers(x) \/ Lose(x)
    PROVE  Types'
<1>1. CASE Serve(x)
  <2>1. PICK reply \in {"ok", "refused", "lapsed"} :
            Served(job[x], reply) /\ job' = [job EXCEPT ![x].reply = reply]
    BY <1>1 DEF Serve
  <2>2. job[x] \in Sent
    BY <1>1, JobIs DEF Serve
  <2> DEFINE n == [job[x] EXCEPT !.reply = reply]
  <2>3. n \in Sent
    BY <2>2 DEF Sent
  <2>4. job' = [job EXCEPT ![x] = n]
    BY <2>1
  <2> HIDE DEF n
  <2>5. job' \in [Senders -> Jobs]
    BY <2>3, <2>4, JobsTyped DEF Jobs
  <2>6. picks' \subseteq Acts /\ by' \in [Acts -> Owners \cup {Nobody}]
    BY <2>1, <2>2, ServedTypes
  <2> QED BY <1>1, <2>5, <2>6 DEF Serve, Types, screen, page, heard
<1>2. CASE GoOn(x)
  <2>1. job[x].act \in Acts
    BY <1>2, JobIs, IdleIs DEF GoOn
  <2>2. Request(job[x].act, "pick") \in Jobs
    BY <2>1, RequestIs DEF Jobs
  <2>3. job' \in [Senders -> Jobs]
    BY <1>2, <2>2, JobsTyped DEF GoOn
  <2> QED BY <1>2, <2>3 DEF GoOn, Types, screen, page, heard, server
<1>3. ASSUME NoAnswer(x), job[x] # Idle, cookie' = cookie, choosing' = choosing,
             who' \in [Tabs -> Owners \cup {Nobody}], stray' \subseteq Sent
      PROVE  Types'
  <2>1. /\ UNCHANGED <<box, picks, by>> /\ job' = [job EXCEPT ![x] = Idle]
        /\ todo' \in [Tabs -> Seq(Acts)]
    BY <1>3, NoAnswerIs DEF server
  <2>2. job' \in [Senders -> Jobs]
    BY <2>1, JobsTyped DEF Jobs
  <2>3. pressed' \in [Tabs -> SUBSET Acts]
        /\ told' \in [Acts -> {"nothing", "sending", "taken", "saved", "refused"}]
    <3>1. job[x].act \in Acts
      BY <1>3, JobIs
    <3>2. CASE UNCHANGED <<pressed, told, shown>>
      BY <3>2 DEF Types
    <3>3. CASE /\ pressed' = [pressed EXCEPT ![x[1]] = @ \ {job[x].act}]
               /\ told' = [told EXCEPT ![job[x].act] = "saved"]
      BY <3>1, <3>3 DEF Types
    <3> QED BY <1>3, <3>2, <3>3, NoAnswerIs
  <2> QED BY <1>3, <2>1, <2>2, <2>3 DEF Types
<1>4. CASE Lapsed(x)
  <2>1. job[x] # Idle
    BY <1>4, IdleIs DEF Lapsed
  <2>2. who' \in [Tabs -> Owners \cup {Nobody}]
    BY <1>4 DEF Lapsed, Types
  <2> QED BY <1>3, <1>4, <2>1, <2>2 DEF Lapsed, Types, screen
<1>5. CASE Lose(x)
  <2>1. job[x] # Idle /\ job[x] \in Sent
    BY <1>5, JobIs DEF Lose
  <2>2. stray' \subseteq Sent /\ who' \in [Tabs -> Owners \cup {Nobody}]
    BY <1>5, <2>1 DEF Lose, Types
  <2> QED BY <1>3, <1>5, <2>1, <2>2 DEF Lose, screen
<1> QED BY <1>1, <1>2, <1>4, <1>5 DEF Answers

\* The browser's steps.
LEMMA BrowserTypes ==
    ASSUME Types, NEW t \in Tabs, Afresh(t)
    PROVE  Types'
<1>1. /\ Unload(t) /\ UNCHANGED <<box, told, picks, by>>
      /\ cookie' \in Owners \cup {Nobody}
      /\ \E o \in Owners \cup {Nobody} : who' = [who EXCEPT ![t] = o]
  BY DEF Afresh, Load, SignOff, Reload, SignOn, Unload, heard, server, Types
<1>2. who' \in [Tabs -> Owners \cup {Nobody}]
  BY <1>1 DEF Types
<1> QED BY <1>1, <1>2, UnloadIs DEF Types

LEMMA NextTypes == Types /\ [OutboxNext]_outboxVars => Types'
<1> SUFFICES ASSUME Types, [OutboxNext]_outboxVars PROVE Types'
  OBVIOUS
<1>1. ASSUME NEW m \in stray, ServeStray(m) PROVE Types'
  <2>1. m \in Sent
    BY DEF Types
  <2>2. picks' \subseteq Acts /\ by' \in [Acts -> Owners \cup {Nobody}]
    BY <1>1, <2>1, ServedTypes DEF ServeStray
  <2> QED BY <1>1, <2>2 DEF ServeStray, Types, screen, page, heard
<1>2. ASSUME NEW a \in Acts, Dismiss(a) PROVE Types'
  <2>1. box' \in Seq(Acts) /\ IsInjective(box')
    BY <1>2, DropIs DEF Dismiss
  <2> QED BY <1>2, <2>1 DEF Dismiss, Types, screen, page, server
<1>3. CASE CoverElsewhere \/ Expire \/ UNCHANGED outboxVars
  BY <1>3 DEF CoverElsewhere, Expire, outboxVars, Types, screen, page, heard, server
<1>4. ASSUME NEW t \in Tabs, Roams(t) PROVE Types'
  <2>1. /\ UNCHANGED <<box, pressed, job, todo, stray, told, picks, by>>
        /\ cookie' \in Owners \cup {Nobody}
        /\ who' = who \/ who' = [who EXCEPT ![t] = cookie]
        /\ \/ choosing' = choosing
           \/ choosing' = [choosing EXCEPT ![t] = "chosen"]
           \/ choosing' = [choosing EXCEPT ![t] = "read"]
    BY <1>4 DEF Roams, Navigate, Refresh, ChooseSite, Types, page, heard, server
  <2>2. who' \in [Tabs -> Owners \cup {Nobody}]
    BY <2>1 DEF Types
  <2>3. choosing' \in [Tabs -> {"no", "chosen", "read"}]
    BY <2>1 DEF Types
  <2> QED BY <2>1, <2>2, <2>3 DEF Types
<1>5. \/ \E m \in stray : ServeStray(m)
      \/ \E a \in Acts : Dismiss(a)
      \/ CoverElsewhere \/ Expire \/ UNCHANGED outboxVars
      \/ \E t \in Tabs : Roams(t) \/ Afresh(t)
      \/ \E t \in Tabs : Drain(t) \/ EndDrained(t) \/ EndPress(t) \/ \E a \in Acts : Press(t, a)
      \/ \E x \in Senders : Serve(x) \/ Answers(x) \/ Lose(x)
  BY DEF OutboxNext, Roams, Afresh
<1> QED BY <1>1, <1>2, <1>3, <1>4, <1>5, LoopTypes, SenderTypes, BrowserTypes

------------------------------------------------------------------------------
(* Whatever is lost *)

\* A pick answered "ok" is recorded.
PickDone ==
    \A x \in Senders : job[x].at = "pick" /\ job[x].reply = "ok" => job[x].act \in picks

\* An act that was not pressed is nowhere.
Unpressed ==
    \A a \in Acts : told[a] = "nothing" => ~Kept(a) /\ \A x \in Senders : job[x].act # a

KeepInv == Types /\ PickDone /\ Unpressed /\ NothingLost

\* Acts are recorded for good.
LEMMA PicksGrow ==
    ASSUME Types, [OutboxNext]_outboxVars
    PROVE  picks \subseteq picks'
<1>1. ASSUME NEW m \in Sent, NEW reply, Served(m, reply) PROVE picks \subseteq picks'
  BY <1>1, ServedIs
<1>2. ASSUME NEW x \in Senders, Serve(x) PROVE picks \subseteq picks'
  BY <1>1, <1>2, JobIs DEF Serve
<1>3. ASSUME NEW m \in stray, ServeStray(m) PROVE picks \subseteq picks'
  BY <1>1, <1>3 DEF ServeStray, Types
<1>4. ASSUME NEW t \in Tabs,
             \/ \E a \in Acts : Press(t, a)
             \/ Drain(t) \/ EndPress(t) \/ EndDrained(t)
             \/ Afresh(t)
      PROVE  picks' = picks
  BY <1>4 DEF Press, Drain, EndPress, EndDrained, Afresh, Load, SignOff, Reload, SignOn,
         Unload, server
<1>5. ASSUME NEW x \in Senders, Answers(x) \/ Lose(x) PROVE picks' = picks
  BY <1>5 DEF Answers, GoOn, Lapsed, Lose, NoAnswer, server
<1>6. CASE (\E a \in Acts : Dismiss(a))
               \/ CoverElsewhere \/ Expire \/ (\E s \in Tabs : Roams(s)) \/ UNCHANGED outboxVars
  BY <1>6 DEF Dismiss, CoverElsewhere, Expire, Roams, Navigate, ChooseSite, Refresh,
         outboxVars, server
<1> QED BY <1>2, <1>3, <1>4, <1>5, <1>6 DEF OutboxNext, Roams, Afresh

\* Why a sender sends an act: it waits in the store for the drain of its owner, its
\* claim was answered, or its owner pressed it.  One sent as the tab changes site is marked.
Due(x, a) ==
    /\ choosing[x[1]] # "no" => a \in crossed'
    /\ UNCHANGED <<cookie, who, choosing>>
    /\ \/ /\ x[2] = "drain" /\ Waiting(a) /\ a \notin pressed[x[1]]
          /\ \/ OwnerOf[a] = who[x[1]]
             \/ job[x] # Idle /\ OwnerOf[a] = OwnerOf[job[x].act]
       \/ job[x] # Idle /\ job[x].act = a
       \/ x[2] = "press" /\ told'[a] = "sending" /\ OwnerOf[a] = who[x[1]]

\* Where a request stands after a step: gone, sent afresh, as it was, or answered.
LEMMA JobStep ==
    ASSUME Types, [OutboxNext]_outboxVars, NEW x \in Senders
    PROVE  \/ job'[x] = Idle
           \/ \E a \in Acts, k \in {"claim", "pick"} : job'[x] = Request(a, k) /\ Due(x, a)
           \/ job'[x] = job[x]
           \/ \E reply : /\ job[x] # Idle /\ Served(job[x], reply)
                         /\ job'[x] = [job[x] EXCEPT !.reply = reply]
<1> DEFINE Goal == \/ job'[x] = Idle
                   \/ \E a \in Acts, k \in {"claim", "pick"} : job'[x] = Request(a, k) /\ Due(x, a)
                   \/ job'[x] = job[x]
                   \/ \E reply : /\ job[x] # Idle /\ Served(job[x], reply)
                                 /\ job'[x] = [job[x] EXCEPT !.reply = reply]
<1>a. ASSUME NEW y \in Senders, NEW n, job' = [job EXCEPT ![y] = n],
             n = Idle \/ \E a \in Acts, k \in {"claim", "pick"} : n = Request(a, k) /\ Due(y, a)
      PROVE  Goal
  BY <1>a DEF Types
<1>1. ASSUME NEW t \in Tabs, NEW o, NEW list \in Seq(Acts), DrainOn(t, o, list),
             \/ o = who[t]
             \/ job[<<t, "drain">>] # Idle /\ o = OwnerOf[job[<<t, "drain">>].act],
             UNCHANGED <<cookie, who, screen>>
      PROVE  Goal
  <2> HIDE DEF Goal
  <2>1. CASE job' = [job EXCEPT ![<<t, "drain">>] = Idle]
    BY <1>a, <2>1, SenderIs
  <2>2. ASSUME NEW a \in Acts, Sendable(t, o, a), Crosses(t, a),
               job' = [job EXCEPT ![<<t, "drain">>] = Request(a, First(a))]
        PROVE  Goal
    <3>1. \E b \in Acts, k \in {"claim", "pick"} :
              Request(a, First(a)) = Request(b, k) /\ Due(<<t, "drain">>, b)
      BY <1>1, <2>2, FirstIs DEF Due, Sendable, Crosses, screen
    <3> QED BY <1>a, <2>2, <3>1, SenderIs
  <2> QED BY <1>1, <2>1, <2>2, DrainOnIs
<1>2. ASSUME NEW t \in Tabs, Drain(t) PROVE Goal
  BY <1>1, <1>2 DEF Drain, Types
<1>3. ASSUME NEW t \in Tabs, EndDrained(t) PROVE Goal
  <2> DEFINE a == job[<<t, "drain">>].act
  <2>1. /\ DrainOn(t, OwnerOf[a], todo[t]) /\ todo[t] \in Seq(Acts)
        /\ job[<<t, "drain">>] # Idle
        /\ UNCHANGED <<cookie, who, screen>>
    BY <1>3, IdleIs DEF EndDrained, Types
  <2> HIDE DEF Goal
  <2> QED BY <1>1, <2>1
<1>4. ASSUME NEW t \in Tabs, EndPress(t) PROVE Goal
  <2>1. job' = [job EXCEPT ![<<t, "press">>] = Idle]
    BY <1>4 DEF EndPress
  <2> QED BY <1>a, <2>1, SenderIs
<1>5. ASSUME NEW t \in Tabs, NEW a \in Acts, Press(t, a) PROVE Goal
  <2>1. job' = [job EXCEPT ![<<t, "press">>] = Request(a, First(a))]
    BY <1>5 DEF Press
  <2>2. /\ told'[a] = "sending" /\ OwnerOf[a] = who[t]
        /\ Crosses(t, a) /\ UNCHANGED <<cookie, who, choosing>>
    BY <1>5 DEF Press, Types, screen
  <2>3. \E b \in Acts, k \in {"claim", "pick"} :
            Request(a, First(a)) = Request(b, k) /\ Due(<<t, "press">>, b)
    BY <2>2, FirstIs DEF Due, Crosses
  <2> HIDE DEF Goal
  <2> QED BY <1>a, <2>1, <2>3, SenderIs
<1>6. ASSUME NEW y \in Senders, Serve(y) PROVE Goal
  <2>1. PICK reply : Served(job[y], reply) /\ job' = [job EXCEPT ![y].reply = reply]
    BY <1>6 DEF Serve
  <2>2. CASE y = x
    <3>1. job'[x] = [job[x] EXCEPT !.reply = reply] /\ job[x] # Idle
      BY <1>6, <2>1, <2>2 DEF Types, Serve
    <3> QED BY <2>1, <2>2, <3>1
  <2>3. CASE y # x
    BY <2>1, <2>3 DEF Types
  <2> QED BY <2>2, <2>3
<1>7. ASSUME NEW y \in Senders, GoOn(y) PROVE Goal
  <2>1. job' = [job EXCEPT ![y] = Request(job[y].act, "pick")] /\ job[y].act \in Acts
    BY <1>7, JobIs, IdleIs DEF GoOn
  <2>2. Due(y, job[y].act)
    BY <1>7, IdleIs DEF Due, GoOn, Crosses, screen
  <2> HIDE DEF Goal
  <2> QED BY <1>a, <2>1, <2>2
<1>8. ASSUME NEW y \in Senders, Lapsed(y) \/ Lose(y) PROVE Goal
  <2>1. job' = [job EXCEPT ![y] = Idle]
    BY <1>8 DEF Lapsed, Lose, NoAnswer
  <2> HIDE DEF Goal
  <2> QED BY <1>a, <2>1
<1>9. ASSUME NEW t \in Tabs, Afresh(t) PROVE Goal
  BY <1>9, UnloadIs DEF Afresh, Load, SignOff, Reload, SignOn, Unload
<1>10. CASE \/ \E m \in stray : ServeStray(m)
            \/ \E a \in Acts : Dismiss(a)
            \/ CoverElsewhere \/ Expire \/ (\E s \in Tabs : Roams(s)) \/ UNCHANGED outboxVars
  BY <1>10 DEF ServeStray, Dismiss, CoverElsewhere, Expire, Roams, Navigate, ChooseSite,
         Refresh, outboxVars
<1> HIDE DEF Goal
<1> DEFINE OfTab(t) == \/ \E a \in Acts : Press(t, a)
                       \/ Drain(t) \/ EndPress(t) \/ EndDrained(t)
                       \/ Afresh(t)
           OfSender(y) == Serve(y) \/ Answers(y) \/ Lose(y)
           Elsewhere == \/ \E m \in stray : ServeStray(m)
                        \/ \E a \in Acts : Dismiss(a)
                        \/ CoverElsewhere \/ Expire \/ (\E s \in Tabs : Roams(s)) \/ UNCHANGED outboxVars
<1>11. ASSUME NEW y \in Senders, OfSender(y) PROVE Goal
  BY <1>6, <1>7, <1>8, <1>11 DEF Answers
<1>12. ASSUME NEW t \in Tabs, OfTab(t) PROVE Goal
  BY <1>2, <1>3, <1>4, <1>5, <1>9, <1>12
<1>13. (\E t \in Tabs : OfTab(t)) \/ (\E y \in Senders : OfSender(y)) \/ Elsewhere
  BY DEF OutboxNext, Roams, Afresh
<1>14. CASE Elsewhere
  BY <1>10, <1>14
<1> HIDE DEF OfTab, OfSender, Elsewhere
<1>15. (\E t \in Tabs : OfTab(t)) => Goal
  BY <1>12
<1>16. (\E y \in Senders : OfSender(y)) => Goal
  BY <1>11
<1>17. Elsewhere => Goal
  BY <1>14 DEF Goal
<1> QED BY <1>13, <1>15, <1>16, <1>17 DEF Goal

LEMMA NextPickDone == Types /\ PickDone /\ [OutboxNext]_outboxVars => PickDone'
<1> SUFFICES ASSUME Types, PickDone, [OutboxNext]_outboxVars, NEW x \in Senders,
                    job'[x].at = "pick", job'[x].reply = "ok"
             PROVE  job'[x].act \in picks'
  BY DEF PickDone
<1>1. picks \subseteq picks'
  BY PicksGrow
<1>2. job'[x] # Idle
  BY IdleIs
<1>3. ASSUME NEW a \in Acts, NEW k \in {"claim", "pick"} PROVE job'[x] # Request(a, k)
  BY RequestIs
<1>4. CASE job'[x] = job[x]
  BY <1>1, <1>4 DEF PickDone
<1>5. ASSUME NEW reply, job[x] # Idle, Served(job[x], reply),
             job'[x] = [job[x] EXCEPT !.reply = reply]
      PROVE  job'[x].act \in picks'
  <2>1. job[x] \in Sent
    BY <1>5, JobIs
  <2>2. job'[x].act = job[x].act /\ job'[x].at = job[x].at /\ job'[x].reply = reply
    BY <1>5, <2>1 DEF Sent
  <2> QED BY <1>5, <2>1, <2>2, ServedIs
<1> QED BY <1>2, <1>3, <1>4, <1>5, JobStep

\* An act leaves the store when it is recorded or its refusal shown, and is shown
\* no more only when it is put in the store again.
LEMMA NextNothingLost == KeepInv /\ [OutboxNext]_outboxVars => NothingLost'
<1> SUFFICES ASSUME KeepInv, [OutboxNext]_outboxVars, NEW a \in Acts, told'[a] # "nothing"
             PROVE  a \in picks' \/ Kept(a)' \/ a \in shown'
  BY DEF NothingLost
<1>0. Types /\ PickDone /\ Unpressed /\ picks \subseteq picks'
  BY PicksGrow DEF KeepInv
<1>a. told[a] # "nothing" => a \in picks \/ Kept(a) \/ a \in shown
  BY DEF KeepInv, NothingLost
<1> DEFINE Goal == a \in picks' \/ Kept(a)' \/ a \in shown'
<1>b. ASSUME box' = box, shown \subseteq shown',
             told'[a] = told[a] \/ \E t \in Tabs : told[a] # "nothing"
      PROVE  Goal
  BY <1>0, <1>a, <1>b DEF Kept
<1>1. ASSUME NEW t \in Tabs, NEW b \in Acts, Press(t, b) PROVE Goal
  <2>1. /\ Put(b) /\ told' = [told EXCEPT ![b] = "sending"] /\ shown' = shown \ {b}
    BY <1>1 DEF Press
  <2>2. CASE a = b
    BY <1>0, <2>1, <2>2, PutIs
  <2>3. CASE a # b
    <3>1. told'[a] = told[a] /\ (Kept(a) => Kept(a)')
      BY <1>0, <2>1, <2>3, PutIs DEF Types
    <3> QED BY <1>0, <1>a, <2>1, <2>3, <3>1
  <2> QED BY <2>2, <2>3
<1>2. ASSUME NEW t \in Tabs, EndPress(t) PROVE Goal
  <2> DEFINE x == <<t, "press">>  b == job[x].act
  <2>1. x \in Senders
    BY SenderIs
  <2>2. /\ Drop(b)
        /\ told' = [told EXCEPT ![b] = IF job[x].reply = "ok" THEN "taken" ELSE "refused"]
        /\ shown' = IF job[x].reply = "ok" THEN shown ELSE shown \cup {b}
        /\ \/ job[x].at = "pick" /\ job[x].reply = "ok"
           \/ job[x].reply = "refused"
    BY <1>2 DEF EndPress
  <2>3. b \in picks \/ b \in shown'
    BY <1>0, <2>1, <2>2 DEF PickDone
  <2> HIDE DEF b
  <2>4. a # b => told'[a] = told[a] /\ (Kept(a) => Kept(a)')
    BY <1>0, <2>2, DropIs DEF Types
  <2> QED BY <1>0, <1>a, <2>2, <2>3, <2>4
<1>3. ASSUME NEW t \in Tabs, EndDrained(t) PROVE Goal
  <2> DEFINE x == <<t, "drain">>  b == job[x].act
  <2>1. x \in Senders
    BY SenderIs
  <2>2. /\ \/ job[x].at = "pick" /\ job[x].reply = "ok" /\ Drop(b)
           \/ Refuse(b)
        /\ told' = told /\ shown' = shown
    BY <1>3 DEF EndDrained, heard
  <2>3. CASE Refuse(b)
    BY <1>b, <2>2, <2>3 DEF Refuse
  <2>4. CASE job[x].at = "pick" /\ job[x].reply = "ok" /\ Drop(b)
    <3>1. b \in picks
      BY <1>0, <2>1, <2>4 DEF PickDone
    <3> HIDE DEF b
    <3>2. a # b /\ Kept(a) => Kept(a)'
      BY <1>0, <2>4, DropIs
    <3> QED BY <1>0, <1>a, <2>2, <3>1, <3>2
  <2> QED BY <2>2, <2>3, <2>4
<1>4. ASSUME NEW b \in Acts, Dismiss(b) PROVE Goal
  <2>1. Drop(b) /\ shown' = shown \cup {b} /\ told' = told
    BY <1>4 DEF Dismiss
  <2>2. a # b /\ Kept(a) => Kept(a)'
    BY <1>0, <2>1, DropIs
  <2> QED BY <1>0, <1>a, <2>1, <2>2
<1>5. ASSUME NEW x \in Senders, Lapsed(x) \/ Lose(x) PROVE Goal
  <2>1. NoAnswer(x) /\ job[x] # Idle
    BY <1>5, IdleIs DEF Lapsed, Lose
  <2>2. box' = box /\ shown' = shown
        /\ (told' = told \/ told' = [told EXCEPT ![job[x].act] = "saved"])
    BY <1>0, <2>1, NoAnswerIs
  <2>3. CASE told' = told \/ job[x].act # a
    <3>1. told'[a] = told[a]
      BY <1>0, <2>2, <2>3 DEF Types
    <3> QED BY <1>b, <2>2, <3>1
  <2>4. CASE told[a] # "nothing"
    BY <1>0, <1>a, <2>2, <2>4 DEF Kept
  <2>5. job[x].act # a \/ told[a] # "nothing"
    BY <1>0 DEF Unpressed
  <2> QED BY <2>3, <2>4, <2>5
<1>6. ASSUME UNCHANGED <<box, told, shown>> PROVE Goal
  BY <1>b, <1>6
<1>7. \/ UNCHANGED <<box, told, shown>>
      \/ \E t \in Tabs, b \in Acts : Press(t, b)
      \/ \E t \in Tabs : EndPress(t) \/ EndDrained(t)
      \/ \E b \in Acts : Dismiss(b)
      \/ \E x \in Senders : Lapsed(x) \/ Lose(x)
  BY DEF OutboxNext, Drain, Afresh, Load, SignOff, Reload, SignOn, Unload, Serve,
         ServeStray, Answers, GoOn,
         CoverElsewhere, Expire, Roams, Navigate, ChooseSite, Refresh, outboxVars, heard
<1> QED BY <1>1, <1>2, <1>3, <1>4, <1>5, <1>6, <1>7

\* What was not pressed is put nowhere.
LEMMA NextUnpressed == KeepInv /\ [OutboxNext]_outboxVars => Unpressed'
<1> SUFFICES ASSUME KeepInv, [OutboxNext]_outboxVars, NEW a \in Acts, told'[a] = "nothing"
             PROVE  ~Kept(a)' /\ \A x \in Senders : job'[x].act # a
  BY DEF Unpressed
<1>0. Types /\ Unpressed
  BY DEF KeepInv
<1>1. told[a] = "nothing" /\ ~Kept(a)'
  <2> DEFINE Goal == told[a] = "nothing" /\ ~Kept(a)'
  <2>a. ASSUME UNCHANGED <<box, told>> PROVE Goal
    BY <1>0, <2>a DEF Unpressed, Kept
  <2>b. ASSUME NEW b, Drop(b), told' = told PROVE Goal
    BY <1>0, <2>b, DropIs DEF Unpressed
  <2>1. ASSUME NEW t \in Tabs, NEW b \in Acts, Press(t, b) PROVE Goal
    <3>1. Put(b) /\ told' = [told EXCEPT ![b] = "sending"]
      BY <2>1 DEF Press
    <3>2. a # b /\ told[a] = "nothing"
      BY <1>0, <3>1 DEF Types
    <3> QED BY <1>0, <3>1, <3>2, PutIs DEF Unpressed
  <2>2. ASSUME NEW t \in Tabs, EndPress(t) PROVE Goal
    <3> DEFINE b == job[<<t, "press">>].act
               how == IF job[<<t, "press">>].reply = "ok" THEN "taken" ELSE "refused"
    <3>1. Drop(b) /\ told' = [told EXCEPT ![b] = how] /\ how # "nothing"
      BY <2>2 DEF EndPress
    <3> HIDE DEF b, how
    <3>2. told[a] = "nothing"
      BY <1>0, <3>1 DEF Types
    <3> QED BY <1>0, <3>1, <3>2, DropIs DEF Unpressed
  <2>3. ASSUME NEW t \in Tabs, EndDrained(t) PROVE Goal
    BY <2>a, <2>b, <2>3 DEF EndDrained, Refuse, heard
  <2>4. ASSUME NEW b \in Acts, Dismiss(b) PROVE Goal
    BY <2>b, <2>4 DEF Dismiss
  <2>5. ASSUME NEW x \in Senders, Lapsed(x) \/ Lose(x) PROVE Goal
    <3>1. NoAnswer(x) /\ job[x] # Idle
      BY <2>5, IdleIs DEF Lapsed, Lose
    <3>2. box' = box /\ (told' = told \/ told' = [told EXCEPT ![job[x].act] = "saved"])
      BY <1>0, <3>1, NoAnswerIs
    <3>3. told[a] = "nothing"
      BY <1>0, <3>2 DEF Types
    <3> QED BY <1>0, <3>2, <3>3 DEF Unpressed, Kept
  <2>6. \/ UNCHANGED <<box, told>>
        \/ \E t \in Tabs, b \in Acts : Press(t, b)
        \/ \E t \in Tabs : EndPress(t) \/ EndDrained(t)
        \/ \E b \in Acts : Dismiss(b)
        \/ \E x \in Senders : Lapsed(x) \/ Lose(x)
    BY DEF OutboxNext, Drain, Afresh, Load, SignOff, Reload, SignOn, Unload, Serve,
           ServeStray, Answers, GoOn,
           CoverElsewhere, Expire, Roams, Navigate, ChooseSite, Refresh, outboxVars, heard
  <2> HIDE DEF Goal
  <2>7. Goal
    BY <2>a, <2>1, <2>2, <2>3, <2>4, <2>5, <2>6
  <2> QED BY <2>7 DEF Goal
<1>2. ASSUME NEW x \in Senders PROVE job'[x].act # a
  <2>1. job[x].act # a /\ ~Waiting(a)
    BY <1>0, <1>1 DEF Unpressed, Waiting
  <2>2. CASE job'[x] = Idle
    BY <2>2, IdleIs
  <2>3. ASSUME NEW b \in Acts, NEW k \in {"claim", "pick"}, job'[x] = Request(b, k), Due(x, b)
        PROVE  job'[x].act # a
    <3>1. b # a
      BY <2>1, <2>3 DEF Due
    <3> QED BY <1>0, <2>3, <3>1, RequestIs
  <2>4. ASSUME NEW reply, job[x] # Idle, job'[x] = [job[x] EXCEPT !.reply = reply]
        PROVE  job'[x].act # a
    <3>1. job[x] \in Sent
      BY <1>0, <2>4, JobIs
    <3> QED BY <2>1, <2>4, <3>1 DEF Sent
  <2> QED BY <1>0, <2>1, <2>2, <2>3, <2>4, JobStep
<1> QED BY <1>1, <1>2

LEMMA InitKeep == OutboxInit => KeepInv
<1> SUFFICES ASSUME OutboxInit PROVE KeepInv
  OBVIOUS
<1>1. <<>> \in Seq(Acts) /\ DOMAIN <<>> = {}
  OBVIOUS
<1>2. Types
  BY <1>1 DEF OutboxInit, Types, Jobs, IsInjective
<1>3. PickDone /\ Unpressed /\ NothingLost
  BY IdleIs DEF OutboxInit, PickDone, Unpressed, NothingLost, Kept, Contains
<1> QED BY <1>2, <1>3 DEF KeepInv

LEMMA NextKeep == KeepInv /\ [OutboxNext]_outboxVars => KeepInv'
BY NextTypes, NextPickDone, NextUnpressed, NextNothingLost DEF KeepInv

LEMMA Keeps == OutboxSpec => []KeepInv
BY InitKeep, NextKeep, PTL DEF OutboxSpec

\* Of a pick that was pressed there is always the record, the act kept on the device
\* or a refusal that was shown, whatever is lost, reloaded, or sent by another tab:
\* the outbox lets go of an act only for one of the other two.
THEOREM NothingIsLost == OutboxSpec => []NothingLost
<1>1. KeepInv => NothingLost
  BY DEF KeepInv
<1> QED BY <1>1, Keeps, PTL

------------------------------------------------------------------------------
(* In one tab *)

OneTab == \A s, t \in Tabs : s = t

\* Nothing of the act is anywhere.
Fresh(a) ==
    /\ a \notin picks /\ ~Kept(a)
    /\ \A x \in Senders : job[x].act # a
    /\ \A m \in stray : m.act # a

\* An act that waits to be pressed, for the first time or after it was refused, is fresh.
FreshUnsent == \A a \in Acts : told[a] \in {"nothing", "refused"} => Fresh(a)

\* An act that a press is sending is sent by nothing else, and the press hears "ok" if
\* it is recorded.
Held ==
    \A t \in Tabs :
        /\ job[<<t, "press">>] # Idle => job[<<t, "press">>].act \in pressed[t]
        /\ \A a \in pressed[t] :
               /\ told[a] = "sending"
               /\ job[<<t, "press">>].act = a
               /\ job[<<t, "drain">>].act # a
               /\ \A m \in stray : m.act # a
               /\ a \in picks => /\ job[<<t, "press">>].at = "pick"
                                 /\ job[<<t, "press">>].reply = "ok"

\* A request goes as its act's owner's or as nobody's, or as the same person's if it
\* left during a change of site.
OwnAs(m) ==
    \/ m.as = Nobody \/ m.as = OwnerOf[m.act]
    \/ m.act \in crossed /\ PersonOf[m.as] = PersonOf[OwnerOf[m.act]]

\* The tab takes whoever is signed in to be, or is changing that person's site; what it
\* sends goes as its owner, who is signed in still unless nobody is, or the site changes.
Seated ==
    /\ \A t \in Tabs : cookie # Nobody =>
           \/ who[t] = cookie
           \/ /\ choosing[t] # "no"
              /\ who[t] = Nobody \/ PersonOf[who[t]] = PersonOf[cookie]
    /\ \A x \in Senders : job[x] # Idle =>
           /\ OwnAs(job[x])
           /\ cookie # Nobody =>
                  \/ cookie = job[x].as /\ cookie = OwnerOf[job[x].act]
                  \/ choosing[x[1]] # "no" /\ PersonOf[OwnerOf[job[x].act]] = PersonOf[cookie]
           /\ job[x].reply = "lapsed" /\ choosing[x[1]] = "no" => cookie = Nobody
    /\ \A m \in stray : OwnAs(m)

TabInv == Types /\ FreshUnsent /\ Held /\ Seated /\ SentAsItsOwnerUnlessCrossed

\* What crossed a change of site is marked for good.
LEMMA CrossedGrows ==
    ASSUME Types, [OutboxNext]_outboxVars
    PROVE  crossed \subseteq crossed'
<1>1. ASSUME NEW t, NEW a, Crosses(t, a) PROVE crossed \subseteq crossed'
  BY <1>1 DEF Crosses
<1>2. ASSUME NEW t, NEW o, NEW list, DrainOn(t, o, list) PROVE crossed \subseteq crossed'
  BY <1>1, <1>2 DEF DrainOn
<1>3. \/ crossed' = crossed
      \/ \E t, a : Crosses(t, a)
      \/ \E t, o, list : DrainOn(t, o, list)
  BY DEF OutboxNext, Press, Drain, EndPress, EndDrained, Dismiss, Load, SignOff, Reload,
         SignOn, Unload, Serve, ServeStray, Answers, GoOn, Lapsed, Lose, CoverElsewhere,
         Expire, Navigate, ChooseSite, Refresh, outboxVars
<1> QED BY <1>1, <1>2, <1>3

\* One pick is recorded at most, that of a request that is served.
LEMMA PicksStep ==
    ASSUME Types, [OutboxNext]_outboxVars
    PROVE  \/ UNCHANGED <<picks, by>>
           \/ \E m \in Sent :
                  /\ \/ m \in stray
                     \/ \E x \in Senders : /\ Serve(x) /\ m = job[x]
                                           /\ job'[x] = [job[x] EXCEPT !.reply = "ok"]
                  /\ picks' = picks \cup {m.act} /\ m.act \notin picks
                  /\ by' = [by EXCEPT ![m.act] = m.as]
                  /\ m.at = "pick" /\ m.as = cookie /\ cookie # Nobody
<1> DEFINE Pinned(m) == /\ picks' = picks \cup {m.act} /\ m.act \notin picks
                        /\ by' = [by EXCEPT ![m.act] = m.as]
                        /\ m.at = "pick" /\ m.as = cookie /\ cookie # Nobody
<1>1. ASSUME NEW x \in Senders, Serve(x)
      PROVE  \/ UNCHANGED <<picks, by>>
             \/ job[x] \in Sent /\ Pinned(job[x])
                /\ job'[x] = [job[x] EXCEPT !.reply = "ok"]
  <2>1. PICK reply : Served(job[x], reply) /\ job' = [job EXCEPT ![x].reply = reply]
    BY <1>1 DEF Serve
  <2>2. job[x] \in Sent /\ job'[x] = [job[x] EXCEPT !.reply = reply]
    BY <1>1, <2>1, JobIs DEF Serve, Types
  <2> QED BY <2>1, <2>2, ServedIs
<1>2. ASSUME NEW m \in stray, ServeStray(m)
      PROVE  UNCHANGED <<picks, by>> \/ (m \in Sent /\ Pinned(m))
  BY <1>2, ServedIs DEF ServeStray, Types
<1>3. ASSUME NEW t \in Tabs,
             \/ \E a \in Acts : Press(t, a)
             \/ Drain(t) \/ EndPress(t) \/ EndDrained(t)
             \/ Afresh(t)
      PROVE  UNCHANGED <<picks, by>>
  BY <1>3 DEF Press, Drain, EndPress, EndDrained, Afresh, Load, SignOff, Reload, SignOn,
         Unload, server
<1>4. ASSUME NEW x \in Senders, Answers(x) \/ Lose(x) PROVE UNCHANGED <<picks, by>>
  BY <1>4 DEF Answers, GoOn, Lapsed, Lose, NoAnswer, server
<1>5. ASSUME (\E a \in Acts : Dismiss(a))
               \/ CoverElsewhere \/ Expire \/ (\E s \in Tabs : Roams(s)) \/ UNCHANGED outboxVars
      PROVE  UNCHANGED <<picks, by>>
  BY <1>5 DEF Dismiss, CoverElsewhere, Expire, Roams, Navigate, ChooseSite, Refresh,
         outboxVars, server
<1> HIDE DEF Pinned
<1>6. \/ UNCHANGED <<picks, by>>
      \/ \E x \in Senders : /\ Serve(x) /\ job[x] \in Sent /\ Pinned(job[x])
                            /\ job'[x] = [job[x] EXCEPT !.reply = "ok"]
      \/ \E m \in stray : m \in Sent /\ Pinned(m)
  <2>1. CASE \E x \in Senders : Serve(x)
    BY <1>1, <2>1
  <2>2. CASE \E m \in stray : ServeStray(m)
    BY <1>2, <2>2
  <2>3. UNCHANGED <<picks, by>> \/ (\E x \in Senders : Serve(x)) \/ \E m \in stray : ServeStray(m)
    BY <1>3, <1>4, <1>5 DEF OutboxNext, Roams, Afresh
  <2> QED BY <2>1, <2>2, <2>3
<1> QED BY <1>6 DEF Pinned

\* Only a press puts an act in the store.
LEMMA KeptStep ==
    ASSUME Types, [OutboxNext]_outboxVars, NEW a \in Acts, Kept(a)'
    PROVE  Kept(a) \/ told'[a] = "sending"
<1>1. ASSUME NEW t \in Tabs, NEW b \in Acts, Press(t, b)
      PROVE  Kept(a) \/ told'[a] = "sending"
  <2>1. Put(b) /\ told' = [told EXCEPT ![b] = "sending"]
    BY <1>1 DEF Press
  <2>2. Kept(a) \/ a = b
    BY <2>1, PutIs
  <2> QED BY <2>1, <2>2 DEF Types
<1>2. ASSUME NEW b, Drop(b) PROVE Kept(a)
  BY <1>2, DropIs
<1>3. ASSUME box' = box PROVE Kept(a)
  BY <1>3 DEF Kept
<1>4. \/ \E t \in Tabs, b \in Acts : Press(t, b)
      \/ \E b : Drop(b)
      \/ box' = box
  BY DEF OutboxNext, Drain, EndPress, EndDrained, Refuse, Dismiss, Afresh, Load, SignOff,
         Reload, SignOn, Unload, Serve,
         ServeStray, Answers, GoOn, Lapsed, Lose, NoAnswer, CoverElsewhere, Expire, Roams, Navigate, ChooseSite, Refresh, outboxVars
<1> QED BY <1>1, <1>2, <1>3, <1>4

\* A request that strays was its sender's, which is done with the act.
LEMMA StrayStep ==
    ASSUME Types, [OutboxNext]_outboxVars, NEW m \in stray'
    PROVE  \/ m \in stray
           \/ \E x \in Senders : /\ job[x] # Idle /\ m = job[x]
                                 /\ x[2] = "press" => m.act \notin pressed'[x[1]]
<1>1. ASSUME NEW t \in Tabs, Unload(t)
      PROVE  \/ m \in stray
             \/ \E x \in Senders : /\ job[x] # Idle /\ m = job[x]
                                   /\ x[2] = "press" => m.act \notin pressed'[x[1]]
  <2>1. \/ m \in stray
        \/ \E y \in Senders : y[1] = t /\ job[y] # Idle /\ m = job[y]
    BY <1>1 DEF Unload
  <2>2. pressed'[t] = {}
    BY <1>1, UnloadIs
  <2> QED BY <2>1, <2>2
<1>2. ASSUME NEW x \in Senders, Lose(x)
      PROVE  m \in stray \/ (/\ job[x] # Idle /\ m = job[x]
                             /\ x[2] = "press" => m.act \notin pressed'[x[1]])
  <2>1. NoAnswer(x) /\ job[x] # Idle /\ (m \in stray \/ m = job[x])
    BY <1>2 DEF Lose
  <2>2. x[1] \in Tabs
    BY DEF Senders
  <2>3. x[2] = "press" => job[x].act \notin pressed'[x[1]]
    BY <2>1, <2>2 DEF NoAnswer, Types
  <2> QED BY <2>1, <2>3
<1>3. ASSUME NEW n \in stray, ServeStray(n) PROVE m \in stray
  BY <1>3 DEF ServeStray
<1>4. \/ stray' = stray
      \/ \E t \in Tabs : Unload(t)
      \/ \E x \in Senders : Lose(x)
      \/ \E n \in stray : ServeStray(n)
  BY DEF OutboxNext, Press, Drain, EndPress, EndDrained, Dismiss, Afresh, Load, SignOff,
         Reload, SignOn, Unload, Serve,
         Answers, GoOn, Lapsed, CoverElsewhere, Expire, Roams, Navigate, ChooseSite, Refresh, outboxVars
<1> QED BY <1>1, <1>2, <1>3, <1>4

\* What a press says changes when it sends, ends, or gets no answer.
LEMMA ToldStep ==
    ASSUME Types, [OutboxNext]_outboxVars, NEW a \in Acts
    PROVE  \/ told'[a] = told[a]
           \/ told'[a] \in {"sending", "taken", "saved"}
           \/ \E t \in Tabs : /\ EndPress(t) /\ job[<<t, "press">>].act = a
                              /\ job[<<t, "press">>].reply # "ok"
<1>1. ASSUME NEW t \in Tabs, NEW b \in Acts, Press(t, b)
      PROVE  told'[a] = told[a] \/ told'[a] = "sending"
  BY <1>1 DEF Press, Types
<1>2. ASSUME NEW t \in Tabs, EndPress(t)
      PROVE  \/ told'[a] = told[a] \/ told'[a] = "taken"
             \/ job[<<t, "press">>].act = a /\ job[<<t, "press">>].reply # "ok"
  <2> DEFINE b == job[<<t, "press">>].act
             how == IF job[<<t, "press">>].reply = "ok" THEN "taken" ELSE "refused"
  <2>1. told' = [told EXCEPT ![b] = how]
    BY <1>2 DEF EndPress
  <2> HIDE DEF b
  <2>2. told'[a] = told[a] \/ (a = b /\ told'[a] = how)
    BY <2>1 DEF Types
  <2> QED BY <2>2 DEF b
<1>3. ASSUME NEW x \in Senders, Lapsed(x) \/ Lose(x)
      PROVE  told'[a] = told[a] \/ told'[a] = "saved"
  <2>1. NoAnswer(x) /\ job[x] # Idle
    BY <1>3, IdleIs DEF Lapsed, Lose
  <2>2. told' = told \/ told' = [told EXCEPT ![job[x].act] = "saved"]
    BY <2>1, NoAnswerIs
  <2> QED BY <2>2 DEF Types
<1>4. \/ told' = told
      \/ \E t \in Tabs, b \in Acts : Press(t, b)
      \/ \E t \in Tabs : EndPress(t)
      \/ \E x \in Senders : Lapsed(x) \/ Lose(x)
  BY DEF OutboxNext, Drain, EndDrained, Dismiss, Afresh, Load, SignOff, Reload, SignOn,
         Unload, Serve, ServeStray,
         Answers, GoOn, CoverElsewhere, Expire, Roams, Navigate, ChooseSite, Refresh, outboxVars, heard
<1> QED BY <1>1, <1>2, <1>3, <1>4

\* Who a tab takes to be signed in, when the session changes.
LEMMA SessionStep ==
    ASSUME Types, [OutboxNext]_outboxVars
    PROVE  \/ UNCHANGED <<cookie, who, choosing>>
           \/ cookie' = Nobody
           \/ \E t \in Tabs : who'[t] = cookie' /\ \A x \in Senders : x[1] = t => job'[x] = Idle
           \/ \E x \in Senders : /\ job[x] # Idle /\ job[x].reply = "lapsed"
                                 /\ who'[x[1]] = Nobody
                                 /\ UNCHANGED <<cookie, choosing>>
           \/ \E t \in Tabs : /\ cookie # Nobody /\ PersonOf[cookie'] = PersonOf[cookie]
                              /\ choosing[t] = "no" /\ choosing'[t] # "no"
                              /\ UNCHANGED <<who, job>>
           \/ \E t \in Tabs : /\ who'[t] = cookie /\ cookie' = cookie
                              /\ choosing[t] # "no" /\ choosing'[t] # "no"
                              /\ job' = job
<1>1. ASSUME NEW t \in Tabs, Load(t) \/ Reload(t) \/ \E o \in Owners : SignOn(t, o)
      PROVE  who'[t] = cookie' /\ \A x \in Senders : x[1] = t => job'[x] = Idle
  BY <1>1, UnloadIs DEF Load, Reload, SignOn, Types
<1>2. ASSUME NEW x \in Senders, Lapsed(x)
      PROVE  /\ job[x] # Idle /\ job[x].reply = "lapsed"
             /\ who'[x[1]] = Nobody /\ UNCHANGED <<cookie, choosing>>
  <2>1. x[1] \in Tabs
    BY DEF Senders
  <2> QED BY <1>2, <2>1, IdleIs DEF Lapsed, Types, screen
<1>3. ASSUME NEW t \in Tabs, NEW o \in Owners, ChooseSite(t, o)
      PROVE  /\ cookie # Nobody /\ PersonOf[cookie'] = PersonOf[cookie]
             /\ choosing[t] = "no" /\ choosing'[t] # "no"
             /\ UNCHANGED <<who, job>>
  BY <1>3 DEF ChooseSite, Types
<1>4. ASSUME NEW t \in Tabs, Refresh(t)
      PROVE  /\ who'[t] = cookie /\ cookie' = cookie
             /\ choosing[t] # "no" /\ choosing'[t] # "no"
             /\ job' = job
  BY <1>4 DEF Refresh, Types
<1>5. \/ UNCHANGED <<cookie, who, choosing>>
      \/ cookie' = Nobody
      \/ \E t \in Tabs : Load(t) \/ Reload(t) \/ \E o \in Owners : SignOn(t, o)
      \/ \E x \in Senders : Lapsed(x)
      \/ \E t \in Tabs, o \in Owners : ChooseSite(t, o)
      \/ \E t \in Tabs : Refresh(t)
  BY DEF OutboxNext, Press, Drain, EndPress, EndDrained, Dismiss, SignOff, Serve,
         ServeStray,
         Answers, GoOn, Lose, CoverElsewhere, Expire, Navigate, screen, outboxVars
<1> QED BY <1>1, <1>2, <1>3, <1>4, <1>5

\* The senders of the one tab.
LEMMA OneTabIs ==
    ASSUME OneTab, NEW t \in Tabs
    PROVE  /\ \A s \in Tabs : s = t
           /\ \A x \in Senders : x = <<t, "press">> \/ x = <<t, "drain">>
BY DEF OneTab, Senders

\* A press that ends holds the act until it does.
LEMMA PressHolds ==
    ASSUME Types, Held, NEW t \in Tabs, job[<<t, "press">>] # Idle
    PROVE  pressed[t] = {job[<<t, "press">>].act}
<1>1. job[<<t, "press">>].act \in pressed[t]
  BY DEF Held
<1>2. \A a \in pressed[t] : job[<<t, "press">>].act = a
  BY DEF Held
<1> QED BY <1>1, <1>2

LEMMA NextFresh == OneTab /\ TabInv /\ [OutboxNext]_outboxVars => FreshUnsent'
<1> SUFFICES ASSUME OneTab, TabInv, [OutboxNext]_outboxVars,
                    NEW a \in Acts, told'[a] \in {"nothing", "refused"}
             PROVE  Fresh(a)'
  BY DEF FreshUnsent
<1>0. Types /\ Held /\ FreshUnsent
  BY DEF TabInv
<1>1. CASE told[a] \in {"nothing", "refused"}
  <2>0. Fresh(a)
    BY <1>0, <1>1 DEF FreshUnsent
  <2>1. a \notin picks'
    <3>1. CASE picks' = picks
      BY <2>0, <3>1 DEF Fresh
    <3>2. ASSUME NEW m, m \in stray \/ \E x \in Senders : m = job[x],
                 picks' = picks \cup {m.act}
          PROVE  a \notin picks'
      BY <2>0, <3>2 DEF Fresh
    <3>3. \/ picks' = picks
          \/ \E m : /\ m \in stray \/ \E x \in Senders : m = job[x]
                    /\ picks' = picks \cup {m.act}
      BY <1>0, PicksStep
    <3> QED BY <3>1, <3>2, <3>3
  <2>2. ~Kept(a)'
    BY <1>0, <2>0, KeptStep DEF Fresh
  <2>3. ASSUME NEW x \in Senders PROVE job'[x].act # a
    <3>1. ~Due(x, a) /\ job[x].act # a
      BY <2>0 DEF Due, Fresh, Waiting
    <3>2. CASE job'[x] = Idle
      BY <3>2, IdleIs
    <3>3. ASSUME NEW b \in Acts, NEW k \in {"claim", "pick"}, job'[x] = Request(b, k), Due(x, b)
          PROVE  job'[x].act # a
      <4>1. b # a
        BY <3>1, <3>3
      <4> QED BY <1>0, <3>3, <4>1, RequestIs
    <3>4. ASSUME NEW reply, job[x] # Idle, job'[x] = [job[x] EXCEPT !.reply = reply]
          PROVE  job'[x].act # a
      <4>1. job[x] \in Sent
        BY <1>0, <3>4, JobIs
      <4> QED BY <3>1, <3>4, <4>1 DEF Sent
    <3> QED BY <1>0, <3>1, <3>2, <3>3, <3>4, JobStep
  <2>4. ASSUME NEW m \in stray' PROVE m.act # a
    BY <1>0, <2>0, StrayStep DEF Fresh
  <2> QED BY <2>1, <2>2, <2>3, <2>4 DEF Fresh
<1>2. CASE told[a] \notin {"nothing", "refused"}
  <2>1. PICK t \in Tabs : /\ EndPress(t) /\ job[<<t, "press">>].act = a
                          /\ job[<<t, "press">>].reply # "ok"
    BY <1>0, <1>2, ToldStep
  <2>2. a \in pressed[t]
    <3>1. job[<<t, "press">>] # Idle
      BY <2>1, IdleIs
    <3> QED BY <1>0, <2>1, <3>1 DEF Held
  <2>3. /\ a \notin picks /\ job[<<t, "drain">>].act # a
        /\ \A m \in stray : m.act # a
    BY <1>0, <2>1, <2>2 DEF Held
  <2>4. /\ Drop(a) /\ job' = [job EXCEPT ![<<t, "press">>] = Idle]
        /\ picks' = picks /\ stray' = stray
    BY <2>1 DEF EndPress, server
  <2>5. ~Kept(a)'
    BY <1>0, <2>4, DropIs
  <2>6. \A x \in Senders : job'[x].act # a
    BY <1>0, <2>3, <2>4, OneTabIs, IdleIs DEF Types
  <2> QED BY <2>3, <2>4, <2>5, <2>6 DEF Fresh
<1> QED BY <1>1, <1>2

\* What a press's sender goes through: it begins, is answered, goes on to the pick, or
\* is over, and its act is the tab's no more.
LEMMA PressStep ==
    ASSUME OneTab, Types, Held, [OutboxNext]_outboxVars, NEW t \in Tabs
    PROVE  LET P == <<t, "press">> IN
           \/ \E a \in Acts : Press(t, a)
           \/ pressed'[t] = {} /\ job'[P] = Idle
           \/ pressed' = pressed /\ told' = told /\ (Serve(P) \/ GoOn(P))
           \/ pressed' = pressed /\ told' = told /\ job'[P] = job[P]
<1> DEFINE P == <<t, "press">>
           D == <<t, "drain">>
           Ended == pressed'[t] = {} /\ job'[P] = Idle
           Still == pressed' = pressed /\ told' = told /\ job'[P] = job[P]
<1>0. P \in Senders /\ D \in Senders /\ P # D
  BY SenderIs
<1>1. CASE EndPress(t)
  <2>1. job[P] # Idle
    BY <1>1, IdleIs DEF EndPress
  <2>2. pressed' = [pressed EXCEPT ![t] = @ \ {job[P].act}] /\ job' = [job EXCEPT ![P] = Idle]
    BY <1>1 DEF EndPress
  <2>3. Ended
    BY <1>0, <2>1, <2>2, PressHolds DEF Types
  <2> QED BY <2>3
<1>2. CASE Lapsed(P) \/ Lose(P)
  <2>1. NoAnswer(P) /\ job[P] # Idle
    BY <1>2, IdleIs DEF Lapsed, Lose
  <2>2. pressed' = [pressed EXCEPT ![t] = @ \ {job[P].act}] /\ job' = [job EXCEPT ![P] = Idle]
    BY <2>1 DEF NoAnswer
  <2>3. Ended
    BY <1>0, <2>1, <2>2, PressHolds DEF Types
  <2> QED BY <2>3
<1>3. CASE Lapsed(D) \/ Lose(D)
  <2>1. NoAnswer(D) /\ job[D] # Idle
    BY <1>3, IdleIs DEF Lapsed, Lose
  <2>2. pressed' = pressed /\ told' = told /\ job' = [job EXCEPT ![D] = Idle]
    BY <1>0, <2>1 DEF NoAnswer, heard
  <2>3. Still
    BY <1>0, <2>2 DEF Types
  <2> QED BY <2>3
<1>4. CASE Afresh(t)
  <2>1. Ended
    BY <1>0, <1>4, UnloadIs DEF Afresh, Load, SignOff, Reload, SignOn, Unload
  <2> QED BY <2>1
<1>5. CASE Serve(P) \/ GoOn(P)
  BY <1>5 DEF Serve, GoOn, page, heard
<1>6. CASE Serve(D) \/ GoOn(D)
  <2>1. \E n : job' = [job EXCEPT ![D] = n]
    BY <1>6 DEF Serve, GoOn
  <2>2. Still
    BY <1>0, <1>6, <2>1 DEF Serve, GoOn, page, heard, Types
  <2> QED BY <2>2
<1>7. CASE Drain(t) \/ EndDrained(t)
  <2>1. \E o, list : DrainOn(t, o, list)
    BY <1>7 DEF Drain, EndDrained
  <2>2. \E n : job' = [job EXCEPT ![D] = n]
    BY <2>1 DEF DrainOn
  <2>3. Still
    BY <1>0, <1>7, <2>2 DEF Drain, EndDrained, heard, Types
  <2> QED BY <2>3
<1>8. CASE \/ \E m \in stray : ServeStray(m)
           \/ \E a \in Acts : Dismiss(a)
           \/ CoverElsewhere \/ Expire \/ (\E s \in Tabs : Roams(s)) \/ UNCHANGED outboxVars
  BY <1>8 DEF ServeStray, Dismiss, CoverElsewhere, Expire, Roams, Navigate, ChooseSite,
         Refresh, outboxVars, page, heard
<1>9. \/ \E s \in Tabs : \/ \E a \in Acts : Press(s, a)
                         \/ Drain(s) \/ EndPress(s) \/ EndDrained(s)
                         \/ Afresh(s)
      \/ \E x \in Senders : Serve(x) \/ GoOn(x) \/ Lapsed(x) \/ Lose(x)
      \/ \E m \in stray : ServeStray(m)
      \/ \E a \in Acts : Dismiss(a)
      \/ CoverElsewhere \/ Expire \/ (\E s \in Tabs : Roams(s)) \/ UNCHANGED outboxVars
  BY DEF OutboxNext, Answers, Roams, Afresh
<1>10. ASSUME NEW x \in Senders PROVE x = P \/ x = D
  BY OneTabIs
<1>11. ASSUME NEW s \in Tabs PROVE s = t
  BY OneTabIs
<1>12. \/ \E a \in Acts : Press(t, a)
       \/ EndPress(t)
       \/ Lapsed(P) \/ Lose(P)
       \/ Lapsed(D) \/ Lose(D)
       \/ Afresh(t)
       \/ Serve(P) \/ GoOn(P)
       \/ Serve(D) \/ GoOn(D)
       \/ Drain(t) \/ EndDrained(t)
       \/ (\E m \in stray : ServeStray(m)) \/ (\E a \in Acts : Dismiss(a))
       \/ CoverElsewhere \/ Expire \/ (\E s \in Tabs : Roams(s)) \/ UNCHANGED outboxVars
  <2> HIDE DEF P, D
  <2> QED BY <1>9, <1>10, <1>11
<1>13. CASE \E a \in Acts : Press(t, a)
  BY <1>13
<1> HIDE DEF P, D, Over, Still
<1> QED BY <1>1, <1>2, <1>3, <1>4, <1>5, <1>6, <1>7, <1>8, <1>12, <1>13 DEF P

LEMMA NextHeld == OneTab /\ TabInv /\ [OutboxNext]_outboxVars => Held'
<1> SUFFICES ASSUME OneTab, TabInv, [OutboxNext]_outboxVars PROVE Held'
  OBVIOUS
<1>0. Types /\ Held /\ FreshUnsent /\ Types'
  BY NextTypes DEF TabInv
<1> SUFFICES ASSUME NEW t \in Tabs
             PROVE  /\ job'[<<t, "press">>] # Idle => job'[<<t, "press">>].act \in pressed'[t]
                    /\ \A a \in pressed'[t] :
                           /\ told'[a] = "sending"
                           /\ job'[<<t, "press">>].act = a
                           /\ job'[<<t, "drain">>].act # a
                           /\ \A m \in stray' : m.act # a
                           /\ a \in picks' => /\ job'[<<t, "press">>].at = "pick"
                                              /\ job'[<<t, "press">>].reply = "ok"
  BY DEF Held
<1> DEFINE P == <<t, "press">>
           D == <<t, "drain">>
<1>s. P \in Senders /\ D \in Senders /\ P # D /\ P[1] = t /\ P[2] = "press" /\ D[1] = t /\ D[2] = "drain"
  BY SenderIs
<1>t. \A x \in Senders : x = P \/ x = D
  BY OneTabIs
\* The press begins.
<1>1. ASSUME NEW b \in Acts, Press(t, b)
      PROVE  /\ job'[P] # Idle => job'[P].act \in pressed'[t]
             /\ \A a \in pressed'[t] :
                    /\ told'[a] = "sending" /\ job'[P].act = a /\ job'[D].act # a
                    /\ \A m \in stray' : m.act # a
                    /\ a \notin picks'
  <2>1. Fresh(b) /\ job[P] = Idle
    BY <1>0, <1>1 DEF Press, FreshUnsent
  <2>2. pressed[t] = {}
    <3>1. \A a \in pressed[t] : job[P].act = a
      BY <1>0 DEF Held
    <3>2. job[P].act = NoAct
      BY <2>1, IdleIs
    <3>3. pressed[t] \subseteq Acts
      BY <1>0 DEF Types
    <3> QED BY <3>1, <3>2, <3>3
  <2>3. /\ pressed'[t] = {b} /\ told'[b] = "sending"
        /\ stray' = stray /\ picks' = picks
    BY <1>0, <1>1, <2>2 DEF Press, server, Types
  <2>4. job'[P] = Request(b, First(b)) /\ job'[D] = job[D]
    BY <1>0, <1>1, <1>s DEF Press, Types
  <2>5. job'[P].act = b
    BY <1>0, <2>4, RequestIs, FirstIs
  <2> QED BY <1>s, <2>1, <2>3, <2>4, <2>5 DEF Fresh
\* The press is over.
<1>2. ASSUME pressed'[t] = {}, job'[P] = Idle
      PROVE  /\ job'[P] # Idle => job'[P].act \in pressed'[t]
             /\ \A a \in pressed'[t] : FALSE
  BY <1>2
\* The press waits, or goes on with the same act.
<1>3. ASSUME pressed' = pressed, told' = told,
             Serve(P) \/ GoOn(P) \/ job'[P] = job[P]
      PROVE  /\ job'[P] # Idle => job'[P].act \in pressed'[t]
             /\ \A a \in pressed'[t] :
                    /\ told'[a] = "sending" /\ job'[P].act = a /\ job'[D].act # a
                    /\ \A m \in stray' : m.act # a
                    /\ a \in picks' => job'[P].at = "pick" /\ job'[P].reply = "ok"
  <2>1. job'[P].act = job[P].act /\ (job'[P] # Idle => job[P] # Idle)
    <3>1. CASE Serve(P)
      <4>1. PICK reply : job' = [job EXCEPT ![P].reply = reply]
        BY <3>1 DEF Serve
      <4>2. job[P] # Idle /\ job[P] \in Sent
        BY <1>0, <1>s, <3>1, JobIs DEF Serve
      <4> QED BY <1>0, <1>s, <4>1, <4>2 DEF Types, Sent
    <3>2. CASE GoOn(P)
      <4>1. job' = [job EXCEPT ![P] = Request(job[P].act, "pick")] /\ job[P] # Idle
        BY <3>2, IdleIs DEF GoOn
      <4>2. job[P].act \in Acts
        BY <1>0, <1>s, <4>1, JobIs
      <4> QED BY <1>0, <1>s, <4>1, <4>2, RequestIs DEF Types
    <3> QED BY <1>3, <3>1, <3>2
  <2>2. job'[P] # Idle => job'[P].act \in pressed'[t]
    BY <1>0, <1>3, <2>1 DEF Held
  <2>3. ASSUME NEW a \in pressed[t]
        PROVE  /\ told'[a] = "sending" /\ job'[P].act = a /\ job'[D].act # a
               /\ \A m \in stray' : m.act # a
               /\ a \in picks' => job'[P].at = "pick" /\ job'[P].reply = "ok"
    <3>1. /\ told'[a] = "sending" /\ job'[P].act = a
          /\ job[D].act # a /\ \A m \in stray : m.act # a
          /\ a \in picks => job[P].at = "pick" /\ job[P].reply = "ok"
          /\ a \in Acts
      BY <1>0, <1>3, <2>1 DEF Held, Types
    <3>2. \A m \in stray' : m.act # a
      <4> SUFFICES ASSUME NEW m \in stray', m.act = a PROVE FALSE
        OBVIOUS
      <4>1. PICK x \in Senders : /\ m = job[x]
                                 /\ x[2] = "press" => m.act \notin pressed'[x[1]]
        BY <1>0, <3>1, StrayStep
      <4>2. x = P
        BY <1>t, <3>1, <4>1
      <4> QED BY <1>3, <1>s, <4>1, <4>2
    <3>3. job'[D].act # a
      <4>1. CASE job'[D] = Idle
        BY <3>1, <4>1, IdleIs
      <4>2. ASSUME NEW b \in Acts, NEW k \in {"claim", "pick"}, job'[D] = Request(b, k), Due(D, b)
            PROVE  job'[D].act # a
        <5>1. b # a
          BY <1>s, <3>1, <4>2 DEF Due
        <5> QED BY <1>0, <4>2, <5>1, RequestIs
      <4>3. ASSUME NEW reply, job[D] # Idle, job'[D] = [job[D] EXCEPT !.reply = reply]
            PROVE  job'[D].act # a
        <5>1. job[D] \in Sent
          BY <1>0, <1>s, <4>3, JobIs
        <5> QED BY <3>1, <4>3, <5>1 DEF Sent
      <4> QED BY <1>0, <1>s, <3>1, <4>1, <4>2, <4>3, JobStep
    <3>4. ASSUME a \in picks' PROVE job'[P].at = "pick" /\ job'[P].reply = "ok"
      <4>1. CASE a \in picks
        <5>1. job[P].at = "pick" /\ job[P].reply = "ok"
          BY <3>1, <4>1
        <5>2. ~Serve(P) /\ ~GoOn(P)
          BY <5>1 DEF Serve, GoOn
        <5> QED BY <1>3, <5>1, <5>2
      <4>2. CASE a \notin picks
        <5>1. PICK m \in Sent :
                  /\ \/ m \in stray
                     \/ \E x \in Senders : /\ Serve(x) /\ m = job[x]
                                           /\ job'[x] = [job[x] EXCEPT !.reply = "ok"]
                  /\ picks' = picks \cup {m.act} /\ m.at = "pick"
          BY <1>0, <3>4, <4>2, PicksStep
        <5>2. m.act = a
          BY <3>4, <4>2, <5>1
        <5>3. PICK x \in Senders : m = job[x] /\ job'[x] = [job[x] EXCEPT !.reply = "ok"]
          BY <3>1, <5>1, <5>2
        <5>4. x = P
          BY <1>t, <3>1, <5>2, <5>3
        <5> QED BY <5>1, <5>3, <5>4 DEF Sent
      <4> QED BY <4>1, <4>2
    <3> QED BY <3>1, <3>2, <3>3, <3>4
  <2> QED BY <1>3, <2>2, <2>3
<1>4. \/ \E b \in Acts : Press(t, b)
      \/ pressed'[t] = {} /\ job'[P] = Idle
      \/ pressed' = pressed /\ told' = told /\ (Serve(P) \/ GoOn(P))
      \/ pressed' = pressed /\ told' = told /\ job'[P] = job[P]
  BY <1>0, PressStep
<1>5. CASE \E b \in Acts : Press(t, b)
  BY <1>1, <1>5
<1>6. CASE pressed'[t] = {} /\ job'[P] = Idle
  BY <1>2, <1>6
<1>7. CASE \/ pressed' = pressed /\ told' = told /\ (Serve(P) \/ GoOn(P))
           \/ pressed' = pressed /\ told' = told /\ job'[P] = job[P]
  BY <1>3, <1>7
<1> QED BY <1>4, <1>5, <1>6, <1>7

\* A request that leaves, leaves as its owner's, as nobody's, or marked.
LEMMA LeavesAs ==
    ASSUME Types, Seated, NEW x \in Senders, NEW a \in Acts, Due(x, a)
    PROVE  \/ cookie = Nobody
           \/ cookie = OwnerOf[a] /\ choosing[x[1]] = "no"
           \/ /\ choosing[x[1]] # "no" /\ PersonOf[OwnerOf[a]] = PersonOf[cookie]
              /\ a \in crossed'
<1>1. x[1] \in Tabs /\ OwnerOf[a] # Nobody
  BY DEF Senders
<1>2. CASE OwnerOf[a] = who[x[1]]
  BY <1>1, <1>2 DEF Seated, Due
<1>3. CASE job[x] # Idle /\ OwnerOf[a] = OwnerOf[job[x].act]
  BY <1>3 DEF Seated, Due
<1> QED BY <1>2, <1>3 DEF Due

LEMMA NextSeated == OneTab /\ TabInv /\ [OutboxNext]_outboxVars => Seated'
<1> SUFFICES ASSUME OneTab, TabInv, [OutboxNext]_outboxVars PROVE Seated'
  OBVIOUS
<1>0. Types /\ Seated /\ crossed \subseteq crossed' /\ \A x \in Senders : x[1] \in Tabs
  BY CrossedGrows DEF TabInv, Senders
<1> DEFINE Sits(x) ==
               /\ cookie # Nobody =>
                      \/ cookie = job[x].as /\ cookie = OwnerOf[job[x].act]
                      \/ choosing[x[1]] # "no" /\ PersonOf[OwnerOf[job[x].act]] = PersonOf[cookie]
               /\ job[x].reply = "lapsed" /\ choosing[x[1]] = "no" => cookie = Nobody
           Marked(m) == m.act \in crossed' /\ PersonOf[m.as] = PersonOf[OwnerOf[m.act]]
           Owned(m) == m.as = Nobody \/ m.as = OwnerOf[m.act] \/ Marked(m)
<1>1. \A x \in Senders : job[x] # Idle => OwnAs(job[x]) /\ Sits(x)
  BY <1>0 DEF Seated
<1>o. \A m : OwnAs(m) => Owned(m)
  BY <1>0 DEF OwnAs
\* The session stays or ends, unless the tab starts afresh or changes site.
<1>2. \/ (\A t \in Tabs : who'[t] = cookie') /\ \A x \in Senders : job'[x] = Idle
      \/ cookie' = Nobody
      \/ UNCHANGED <<cookie, who, choosing>>
      \/ /\ \A t \in Tabs : who'[t] = Nobody /\ choosing[t] # "no"
         /\ UNCHANGED <<cookie, choosing>>
      \/ /\ \A t \in Tabs : choosing[t] = "no" /\ choosing'[t] # "no"
         /\ cookie # Nobody /\ PersonOf[cookie'] = PersonOf[cookie]
         /\ UNCHANGED <<who, job>>
      \/ /\ \A t \in Tabs : /\ who'[t] = cookie
                            /\ choosing[t] # "no" /\ choosing'[t] # "no"
         /\ cookie' = cookie /\ job' = job
  <2>1. ASSUME NEW t \in Tabs, who'[t] = cookie', \A x \in Senders : x[1] = t => job'[x] = Idle
        PROVE  (\A s \in Tabs : who'[s] = cookie') /\ \A x \in Senders : job'[x] = Idle
    BY <1>0, <2>1, OneTabIs
  <2>2. ASSUME NEW x \in Senders, job[x] # Idle, job[x].reply = "lapsed",
               who'[x[1]] = Nobody, UNCHANGED <<cookie, choosing>>
        PROVE  \/ cookie' = Nobody
               \/ \A t \in Tabs : who'[t] = Nobody /\ choosing[t] # "no"
    BY <1>0, <1>1, <2>2, OneTabIs
  <2>3. ASSUME NEW t \in Tabs, choosing[t] = "no", choosing'[t] # "no"
        PROVE  \A s \in Tabs : choosing[s] = "no" /\ choosing'[s] # "no"
    BY <2>3, OneTabIs
  <2>4. ASSUME NEW t \in Tabs, who'[t] = cookie, choosing[t] # "no", choosing'[t] # "no"
        PROVE  \A s \in Tabs : who'[s] = cookie /\ choosing[s] # "no" /\ choosing'[s] # "no"
    BY <2>4, OneTabIs
  <2> HIDE DEF Sits, Owned, Marked
  <2> QED BY <1>0, <2>1, <2>2, <2>3, <2>4, SessionStep
<1>3. ASSUME NEW t \in Tabs, cookie' # Nobody
      PROVE  \/ who'[t] = cookie'
             \/ /\ choosing'[t] # "no"
                /\ who'[t] = Nobody \/ PersonOf[who'[t]] = PersonOf[cookie']
  <2>1. cookie # Nobody =>
            \/ who[t] = cookie
            \/ choosing[t] # "no" /\ (who[t] = Nobody \/ PersonOf[who[t]] = PersonOf[cookie])
    BY <1>0 DEF Seated
  <2> HIDE DEF Sits, Owned, Marked
  <2> QED BY <1>2, <1>3, <2>1
<1>4. \A m \in stray' : Owned(m)
  BY <1>0, <1>1, <1>o, StrayStep DEF Seated
<1>5. ASSUME NEW x \in Senders, NEW a \in Acts, NEW k \in {"claim", "pick"},
             job'[x] = Request(a, k), Due(x, a)
      PROVE  Owned(job'[x]) /\ Sits(x)'
  <2>1. job'[x].act = a /\ job'[x].as = cookie /\ job'[x].reply = "none"
    BY <1>0, <1>5, RequestIs
  <2>2. UNCHANGED <<cookie, choosing>>
    BY <1>5 DEF Due
  <2>3. \/ cookie = Nobody
        \/ cookie = OwnerOf[a] /\ choosing[x[1]] = "no"
        \/ /\ choosing[x[1]] # "no" /\ PersonOf[OwnerOf[a]] = PersonOf[cookie]
           /\ a \in crossed'
    BY <1>0, <1>5, LeavesAs
  <2> QED BY <2>1, <2>2, <2>3
<1>6. ASSUME NEW x \in Senders, job'[x] = job[x], job[x] # Idle
      PROVE  Owned(job'[x]) /\ Sits(x)'
  <2>1. Owned(job'[x])
    BY <1>1, <1>6, <1>o
  <2>2. Sits(x) /\ x[1] \in Tabs
    BY <1>0, <1>1, <1>6
  <2>3. Sits(x)'
    BY <1>2, <1>6, <2>2
  <2> QED BY <2>1, <2>3
<1>7. ASSUME NEW x \in Senders, NEW reply, job[x] # Idle, Served(job[x], reply),
             job'[x] = [job[x] EXCEPT !.reply = reply], job'[x] # Idle
      PROVE  Owned(job'[x]) /\ Sits(x)'
  <2>1. job[x] \in Sent /\ x[1] \in Tabs
    BY <1>0, <1>7, JobIs
  <2>2. job'[x].act = job[x].act /\ job'[x].as = job[x].as /\ job'[x].reply = reply
    BY <1>7, <2>1 DEF Sent
  <2>3. reply = "lapsed" => job[x].as # cookie \/ cookie = Nobody
    BY <1>0, <1>7, <2>1, ServedIs
  <2>4. OwnAs(job[x]) /\ Sits(x) /\ Owned(job[x])
    BY <1>1, <1>7, <1>o
  <2>5. Owned(job'[x])
    BY <2>2, <2>4
  <2>6. Sits(x)'
    <3>1. CASE job' = job
      BY <1>2, <1>7, <2>1, <2>4, <3>1
    <3>2. CASE UNCHANGED <<cookie, choosing>>
      BY <2>2, <2>3, <2>4, <3>2
    <3>3. CASE cookie' = Nobody
      BY <3>3
    <3> QED BY <1>2, <1>7, <3>1, <3>2, <3>3
  <2> QED BY <2>5, <2>6
<1>8. ASSUME NEW x \in Senders, job'[x] # Idle PROVE Owned(job'[x]) /\ Sits(x)'
  <2> HIDE DEF Sits, Owned, Marked
  <2> QED BY <1>0, <1>5, <1>6, <1>7, <1>8, JobStep
<1> QED BY <1>3, <1>4, <1>8 DEF Seated, OwnAs

LEMMA NextSent == TabInv /\ [OutboxNext]_outboxVars => SentAsItsOwnerUnlessCrossed'
<1> DEFINE Of(o,
       a) == o = OwnerOf[a] \/ (a \in crossed' /\ PersonOf[o] = PersonOf[OwnerOf[a]])
<1> SUFFICES ASSUME TabInv, [OutboxNext]_outboxVars, NEW a \in picks' PROVE Of(by'[a], a)
  BY DEF SentAsItsOwnerUnlessCrossed
<1>0. Types /\ Seated /\ SentAsItsOwnerUnlessCrossed /\ crossed \subseteq crossed'
  BY CrossedGrows DEF TabInv
<1>a. a \in picks => Of(by[a], a)
  BY <1>0 DEF SentAsItsOwnerUnlessCrossed
<1>1. CASE UNCHANGED <<picks, by>>
  BY <1>a, <1>1
<1>2. ASSUME NEW m \in Sent, OwnAs(m), picks' = picks \cup {m.act},
             by' = [by EXCEPT ![m.act] = m.as], m.as # Nobody
      PROVE  Of(by'[a], a)
  <2>1. m.act \in Acts /\ Of(m.as, m.act)
    BY <1>0, <1>2 DEF Sent, OwnAs
  <2>2. by'[m.act] = m.as /\ (a # m.act => by'[a] = by[a])
    BY <1>0, <1>2, <2>1 DEF Types
  <2> QED BY <1>a, <1>2, <2>1, <2>2
<1>3. \A m : (m \in stray \/ \E x \in Senders : Serve(x) /\ m = job[x]) => OwnAs(m)
  BY <1>0 DEF Seated, Serve
<1>4. \/ UNCHANGED <<picks, by>>
      \/ \E m \in Sent :
             /\ m \in stray \/ \E x \in Senders : Serve(x) /\ m = job[x]
             /\ picks' = picks \cup {m.act}
             /\ by' = [by EXCEPT ![m.act] = m.as]
             /\ m.as # Nobody
  BY <1>0, PicksStep
<1> HIDE DEF Of
<1> QED BY <1>1, <1>2, <1>3, <1>4

LEMMA InitTab == OutboxInit => TabInv
<1> SUFFICES ASSUME OutboxInit PROVE TabInv
  OBVIOUS
<1>1. Types
  BY InitKeep DEF KeepInv
<1>2. \A a \in Acts : Fresh(a)
  BY IdleIs DEF OutboxInit, Fresh, Kept, Contains
<1>3. FreshUnsent
  BY <1>2 DEF FreshUnsent
<1>4. Held /\ Seated /\ SentAsItsOwnerUnlessCrossed
  BY SenderIs DEF OutboxInit, Held, Seated, SentAsItsOwnerUnlessCrossed
<1> QED BY <1>1, <1>3, <1>4 DEF TabInv

LEMMA NextTab == OneTab /\ TabInv /\ [OutboxNext]_outboxVars => TabInv'
BY NextTypes, NextFresh, NextHeld, NextSeated, NextSent DEF TabInv

LEMMA InOneTab == ASSUME OneTab PROVE OutboxSpec => []TabInv
<1>1. TabInv /\ [OutboxNext]_outboxVars => TabInv'
  BY NextTab
<1> QED BY <1>1, InitTab, PTL DEF OutboxSpec

\* With one tab, what a press was told was refused is never recorded, and no pressed
\* act is lost: `pressed` keeps the drain from sending what a press is sending, and it is
\* in the memory of one tab.
THEOREM PressAnsweredHolds == ASSUME OneTab PROVE OutboxSpec => []PressAnswered
<1>1. TabInv => RefusedIsNotRecorded
  BY DEF TabInv, FreshUnsent, Fresh, RefusedIsNotRecorded
<1>2. KeepInv /\ TabInv => PressAnswered
  BY <1>1 DEF KeepInv, PressAnswered
<1> QED BY <1>2, Keeps, InOneTab, PTL

\* With one tab a pick is recorded as its owner's, unless a request of it left between
\* the server's change of site and the reload (SiteSwitcher.tsx), and then as the same
\* person's in the same workspace: nobody else's session sends it.
THEOREM SentUnlessCrossedHolds ==
    ASSUME OneTab PROVE OutboxSpec => []SentAsItsOwnerUnlessCrossed
<1>1. TabInv => SentAsItsOwnerUnlessCrossed
  BY DEF TabInv
<1> QED BY <1>1, InOneTab, PTL

------------------------------------------------------------------------------
(* The layout editor *)

HIDE OutboxAssumption
HIDE DEF OutboxAssumption
USE LayoutAssumption
USE DEF LayoutAssumption

LayoutSteps == {"new", "begun", "checked", "read", "drawn", "listed", "put", "done", "ended"}

\* Every variable a save's check rests on stays in its range.
LayoutTypes ==
    /\ pc \in [Requests -> LayoutSteps]
    /\ before \in [Requests -> SUBSET Requests]
    /\ desk \in [Editors -> {"closed", "seen", "open"}]
    /\ DOMAIN version = Editors

\* A save that runs holds the lock, and its editor has the layout.
OneSaves == \A s \in Saves : pc[s] \notin {"new", "ended"} => lock = s /\ desk[Ask[s].editor] = "open"

BeganAfter == \A r \in Requests : \A q \in before[r] : pc[q] = "ended"

\* Once it has checked, the layout is what its editor read, or who changed it takes no lock.
AsChecked ==
    \A s \in Saves : pc[s] \notin {"new", "begun", "ended"} =>
        \/ places = version[Ask[s].editor]
        \/ \E q \in Drafts \cup Reaches : pc[q] = "ended" /\ q \notin before[s]

SaveInv == LayoutTypes /\ OneSaves /\ BeganAfter /\ AsChecked

\* One of a save's steps that ends nothing and commits nothing.
LEMMA SaveGoesOn ==
    ASSUME SaveInv, NEW r \in Requests, NEW step \in LayoutSteps, Goes(r, step),
           pc[r] \notin {"new", "begun", "ended"}, step \notin {"new", "begun", "ended"},
           UNCHANGED <<places, editors, before, lock>>
    PROVE  SaveInv'
BY DEF SaveInv, LayoutTypes, OneSaves, BeganAfter, AsChecked, Goes, editors

\* One that ends without a commit.
LEMMA SaveEnds ==
    ASSUME SaveInv, NEW r \in Requests, NEW how, End(r, how), pc[r] # "ended",
           UNCHANGED <<places, editors>>,
           before' = before \/ before' = [before EXCEPT ![r] = {q \in Requests : pc[q] = "ended"}]
    PROVE  SaveInv'
<1>1. pc' = [pc EXCEPT ![r] = "ended"] /\ lock' = IF lock = r THEN None ELSE lock
  BY DEF End, Goes
<1>2. LayoutTypes'
  BY <1>1 DEF SaveInv, LayoutTypes, LayoutSteps, editors
<1>3. OneSaves'
  BY <1>1 DEF SaveInv, LayoutTypes, OneSaves, editors, Requests
<1>4. BeganAfter'
  BY <1>1 DEF SaveInv, LayoutTypes, BeganAfter
<1>5. AsChecked'
  BY <1>1 DEF SaveInv, LayoutTypes, AsChecked, editors, Requests
<1> QED BY <1>2, <1>3, <1>4, <1>5 DEF SaveInv

\* One that ends with places changed: it is no save, or it was the save that held the lock.
LEMMA SaveLands ==
    ASSUME SaveInv, NEW r \in Requests, NEW how, End(r, how), pc[r] # "ended",
           r \in Saves => pc[r] # "new",
           UNCHANGED <<editors, before>>
    PROVE  SaveInv'
<1>1. pc' = [pc EXCEPT ![r] = "ended"] /\ lock' = IF lock = r THEN None ELSE lock
  BY DEF End, Goes
<1>2. LayoutTypes'
  BY <1>1 DEF SaveInv, LayoutTypes, LayoutSteps, editors
<1>3. OneSaves'
  BY <1>1 DEF SaveInv, LayoutTypes, OneSaves, editors, Requests
<1>4. BeganAfter'
  BY <1>1 DEF SaveInv, LayoutTypes, BeganAfter
<1>5. AsChecked'
  <2> SUFFICES ASSUME NEW s \in Saves, pc'[s] \notin {"new", "begun", "ended"}
               PROVE  \E q \in Drafts \cup Reaches : pc'[q] = "ended" /\ q \notin before'[s]
    BY DEF AsChecked
  <2>1. s # r /\ pc[s] = pc'[s] /\ s \in Requests
    BY <1>1 DEF SaveInv, LayoutTypes, Requests
  <2>2. r \notin Saves
    BY <2>1 DEF SaveInv, OneSaves
  <2>3. r \notin before[s]
    BY <2>1 DEF SaveInv, BeganAfter
  <2> QED BY <1>1, <2>2, <2>3 DEF SaveInv, LayoutTypes, Requests
<1> QED BY <1>2, <1>3, <1>4, <1>5 DEF SaveInv

\* One of a draft.
LEMMA DraftGoesOn ==
    ASSUME SaveInv, NEW d \in Drafts, NEW step \in LayoutSteps, Goes(d, step), pc[d] # "ended", step # "ended",
           UNCHANGED <<places, editors, lock>>,
           before' = before \/ before' = [before EXCEPT ![d] = {q \in Requests : pc[q] = "ended"}]
    PROVE  SaveInv'
<1>1. d \in Requests /\ d \notin Saves /\ pc' = [pc EXCEPT ![d] = step]
  BY DEF Goes, Requests
<1>2. LayoutTypes'
  BY <1>1 DEF SaveInv, LayoutTypes, LayoutSteps, editors
<1>3. OneSaves'
  BY <1>1 DEF SaveInv, LayoutTypes, OneSaves, editors, Requests
<1>4. BeganAfter'
  BY <1>1 DEF SaveInv, LayoutTypes, BeganAfter
<1>5. AsChecked'
  BY <1>1 DEF SaveInv, LayoutTypes, AsChecked, editors, Requests
<1> QED BY <1>2, <1>3, <1>4, <1>5 DEF SaveInv

LEMMA SaveKept == SaveInv /\ [Next]_vars => SaveInv'
<1> SUFFICES ASSUME SaveInv, [Next]_vars PROVE SaveInv'
  OBVIOUS
<1> USE DEF Requests
<1>1. CASE UNCHANGED vars
  BY <1>1 DEF vars, editors, reads, SaveInv, LayoutTypes, OneSaves, BeganAfter, AsChecked
<1>2. ASSUME NEW e \in Editors, See(e) \/ SeeVersion(e) PROVE SaveInv'
  <2>1. /\ desk[e] # "open"
        /\ \A x \in Editors \ {e} : desk'[x] = desk[x] /\ version'[x] = version[x]
        /\ UNCHANGED <<places, pc, before, lock>>
    BY <1>2 DEF See, SeeVersion, reads, SaveInv, LayoutTypes
  <2>2. desk' \in [Editors -> {"closed", "seen", "open"}] /\ DOMAIN version' = Editors
    BY <1>2 DEF See, SeeVersion, SaveInv, LayoutTypes
  <2>3. \A s \in Saves : pc[s] \notin {"new", "ended"} => Ask[s].editor \in Editors \ {e}
    BY <2>1 DEF SaveInv, OneSaves
  <2> QED BY <2>1, <2>2, <2>3 DEF SaveInv, LayoutTypes, OneSaves, BeganAfter, AsChecked
<1>3. ASSUME NEW s \in Saves, Begin(s) PROVE SaveInv'
  <2>1. /\ pc[s] = "new" /\ desk[Ask[s].editor] = "open" /\ lock = None
        /\ before' = [before EXCEPT ![s] = {q \in Requests : pc[q] = "ended"}]
        /\ UNCHANGED <<places, editors>>
    BY <1>3 DEF Begin, Began
  <2>2. CASE End(s, "told")
    BY <2>1, <2>2, SaveEnds
  <2>3. CASE lock' = s /\ Goes(s, "begun")
    <3>1. pc' = [pc EXCEPT ![s] = "begun"]
      BY <2>3 DEF Goes
    <3>2. LayoutTypes'
      BY <2>1, <3>1 DEF SaveInv, LayoutTypes, LayoutSteps, editors
    <3>3. OneSaves'
      BY <2>1, <2>3, <3>1 DEF SaveInv, LayoutTypes, OneSaves, editors
    <3>4. BeganAfter'
      BY <2>1, <3>1 DEF SaveInv, LayoutTypes, BeganAfter
    <3>5. AsChecked'
      BY <2>1, <3>1 DEF SaveInv, LayoutTypes, OneSaves, AsChecked, editors
    <3> QED BY <3>2, <3>3, <3>4, <3>5 DEF SaveInv
  <2> QED BY <1>3, <2>2, <2>3 DEF Begin
<1>4. ASSUME NEW s \in Saves, Check(s) PROVE SaveInv'
  <2>1. pc[s] = "begun" /\ UNCHANGED <<places, editors, before>>
    BY <1>4 DEF Check, Fails, reads
  <2>2. CASE End(s, "refused")
    BY <2>1, <2>2, SaveEnds
  <2>3. CASE places = version[Ask[s].editor] /\ Goes(s, "checked") /\ lock' = lock
    <3>1. pc' = [pc EXCEPT ![s] = "checked"]
      BY <2>3 DEF Goes
    <3>2. LayoutTypes'
      BY <2>1, <3>1 DEF SaveInv, LayoutTypes, LayoutSteps, editors
    <3>3. OneSaves' /\ BeganAfter'
      BY <2>1, <2>3, <3>1 DEF SaveInv, LayoutTypes, OneSaves, BeganAfter, editors
    <3>4. AsChecked'
      BY <2>1, <2>3, <3>1 DEF SaveInv, LayoutTypes, AsChecked, editors
    <3> QED BY <3>2, <3>3, <3>4 DEF SaveInv
  <2> QED BY <1>4, <2>2, <2>3 DEF Check, Fails
<1>5. ASSUME NEW s \in Saves, NEW how, Fails(s, how), pc[s] \notin {"new", "ended"} PROVE SaveInv'
  BY <1>5, SaveEnds DEF Fails, reads
<1>6. ASSUME NEW s \in Saves, NEW step \in {"drawn", "listed", "done"}, Goes(s, step),
             pc[s] \in {"read", "drawn", "listed"}, UNCHANGED <<places, editors, before, lock>>
      PROVE  SaveInv'
  BY <1>6, SaveGoesOn DEF LayoutSteps
<1>7. ASSUME NEW s \in Saves,
             Draw(s) \/ List(s) \/ Renumber(s) \/ Add(s) \/ CountIn(s) \/ RemovePlace(s)
      PROVE  SaveInv'
  <2>1. pc[s] \in {"read", "drawn", "listed"}
    BY <1>7 DEF Draw, List, Renumber, Add, CountIn, RemovePlace
  <2>2. \/ \E how : Fails(s, how)
        \/ /\ \E step \in {"drawn", "listed", "done"} : Goes(s, step)
           /\ UNCHANGED <<places, editors, before, lock>>
    BY <1>7 DEF Draw, List, Renumber, Add, CountIn, RemovePlace, reads
  <2> QED BY <1>5, <1>6, <2>1, <2>2
<1>8. ASSUME NEW d \in Drafts, NEW how, Fails(d, how), pc[d] # "ended" PROVE SaveInv'
  BY <1>8, SaveEnds DEF Fails, reads
<1>9. ASSUME NEW d \in Drafts, Plan(d) \/ Fill(d) \/ \E grows \in BOOLEAN : Make(d, grows) PROVE SaveInv'
  <2>1. pc[d] \in {"read", "listed", "put"}
    BY <1>9 DEF Plan, Fill, Make
  <2>2. \/ \E how : Fails(d, how)
        \/ /\ \E step \in {"listed", "put", "done"} : Goes(d, step)
           /\ UNCHANGED <<places, editors, before, lock>>
    BY <1>9 DEF Plan, Fill, Make, reads
  <2> QED BY <1>8, <2>1, <2>2, DraftGoesOn DEF LayoutSteps
<1>10. ASSUME NEW r \in Requests, ReadRows(r) PROVE SaveInv'
  <2>1. Goes(r, "read") /\ UNCHANGED <<places, editors, lock>>
    BY <1>10 DEF ReadRows
  <2>2. CASE r \in Drafts
    BY <1>10, <2>1, <2>2, DraftGoesOn DEF ReadRows, Began, LayoutSteps
  <2>3. CASE r \notin Drafts
    BY <1>10, <2>1, <2>3, SaveGoesOn DEF ReadRows, LayoutSteps
  <2> QED BY <2>2, <2>3
<1>11. ASSUME NEW r \in Requests, Commit(r) PROVE SaveInv'
  BY <1>11, SaveLands DEF Commit, reads
<1>12. ASSUME NEW q \in Requests, Reach(q) PROVE SaveInv'
  BY <1>12, SaveLands DEF Reach, reads
<1> QED BY <1>1, <1>2, <1>3, <1>4, <1>7, <1>9, <1>10, <1>11, <1>12 DEF Next

LEMMA SavesAtFirst == Init => SaveInv
BY DEF Init, SaveInv, LayoutTypes, LayoutSteps, OneSaves, BeganAfter, AsChecked, Requests

\* save_layout: what a save writes over is what its editor was shown, unless a draft or a
\* reach landed while it ran, or the layout changed between the two statements that read it.
THEOREM NothingOverwrittenHolds == Spec => NothingOverwritten
<1>1. Init => SaveInv
  BY SavesAtFirst
<1>2. SaveInv => [\A s \in Saves : WritesOver(s) =>
             \/ view[Ask[s].editor] # version[Ask[s].editor]
             \/ \E q \in Drafts \cup Reaches : pc[q] = "ended" /\ q \notin before[s]]_vars
  BY DEF SaveInv, AsChecked, WritesOver
<1> QED BY <1>1, <1>2, SaveKept, PTL DEF Spec, NothingOverwritten

HIDE LayoutAssumption
HIDE DEF LayoutAssumption

------------------------------------------------------------------------------
(* A draft's numbers *)

\* Finitely many numbers have a least and a greatest.
LEMMA EndsOf ==
    ASSUME NEW N \in SUBSET Nat, N # {}, IsFiniteSet(N)
    PROVE  /\ \E n \in N : \A m \in N : n <= m
           /\ \E n \in N : \A m \in N : m <= n
<1>1. \E n \in N : \A m \in N : n <= m
  <2>1. IsWellFoundedOn(OpToRel(<, Nat), Nat)
    BY NatLessThanWellFounded
  <2>2. PICK n \in N : \A m \in N : <<m, n>> \notin OpToRel(<, Nat)
    BY <2>1, WFMin
  <2>3. \A m \in N : ~(m < n)
    BY <2>2 DEF OpToRel
  <2> QED BY <2>3
<1>2. \E n \in N : \A m \in N : m <= n
  <2> DEFINE Top(S) == \E n \in S : \A m \in S : m <= n
             Topless == {S \in SUBSET N : S # {} /\ ~Top(S)}
  <2>1. ASSUME Topless # {} PROVE FALSE
    <3>1. Topless \subseteq FiniteSubsetsOf(N)
      BY FS_FiniteSubsetsOfFinite
    <3>2. IsWellFoundedOn(StrictSubsetOrdering(N), FiniteSubsetsOf(N))
      BY FS_StrictSubsetOrderingWellFounded
    <3> HIDE DEF Topless
    <3>3. PICK S \in Topless : \A T \in Topless : <<T, S>> \notin StrictSubsetOrdering(N)
      BY <2>1, <3>1, <3>2, WFMin
    <3> USE DEF Topless
    <3>4. S \in SUBSET N /\ S # {} /\ ~Top(S)
      OBVIOUS
    <3>5. PICK x \in S : TRUE
      BY <3>4
    <3> DEFINE R == S \ {x}
    <3>6. R \in SUBSET N /\ R \subseteq S /\ R # S
      BY <3>4, <3>5
    <3>7. R \notin Topless
      BY <3>3, <3>4, <3>6 DEF StrictSubsetOrdering
    <3>8. CASE R = {}
      BY <3>4, <3>5, <3>8
    <3>9. CASE Top(R)
      <4>1. PICK n \in R : \A m \in R : m <= n
        BY <3>9
      <4>2. n \in Nat /\ x \in Nat /\ \A m \in S : m \in Nat /\ (m = x \/ m <= n)
        BY <3>4, <3>5, <3>6, <4>1
      <4>3. CASE x <= n
        BY <3>4, <3>6, <4>1, <4>2, <4>3
      <4>4. CASE n <= x
        BY <3>4, <3>5, <4>2, <4>4
      <4> QED BY <4>2, <4>3, <4>4
    <3> QED BY <3>6, <3>7, <3>8, <3>9
  <2>2. N \notin Topless
    BY <2>1
  <2> QED BY <2>2
<1> QED BY <1>1, <1>2

\* A draft's grid, on one side or two and from either end, has a cell of each number it is for.
LEMMA NumbersSpell ==
    ASSUME NEW N \in SUBSET Nat, IsFiniteSet(N), NEW n \in N, NEW g, NEW right,
           g = GridOf(N) \/ g = TwoSides(GridOf(N))
    PROVE  \E c \in (1..g.sides) \X (1..g.bays) : Label([g EXCEPT !.right = right], c[1], c[2]) = n
<1> DEFINE IsLo(x) == x \in N /\ \A k \in N : x <= k
           IsHi(x) == x \in N /\ \A k \in N : k <= x
           lo == CHOOSE x \in N : \A k \in N : x <= k
           hi == CHOOSE x \in N : \A k \in N : k <= x
           step == IF hi > lo /\ \A x \in N : (x - lo) % 2 = 0 THEN 2 ELSE 1
           bays == (hi - lo) \div step + 1
           G == GridOf(N)
           h == [g EXCEPT !.right = right]
<1>1. lo \in N /\ hi \in N /\ lo \in Nat /\ hi \in Nat /\ n \in Nat /\ lo <= n /\ n <= hi
  BY EndsOf
<1>2. G = [bays |-> bays, levels |-> 1, first |-> lo, step |-> step, sides |-> 1, right |-> FALSE]
  BY DEF GridOf
<1>3. step \in {1, 2} /\ (step = 2 => (n - lo) % 2 = 0 /\ (hi - lo) % 2 = 0)
  BY <1>1
<1> DEFINE o == (n - lo) \div step
<1> HIDE DEF lo, hi, step, G
<1>4. o \in 0..(bays - 1) /\ lo + o * step = n /\ bays \in Nat /\ bays >= 1
  <2>1. CASE step = 1
    BY <1>1, <2>1
  <2>2. CASE step = 2
    BY <1>1, <1>3, <2>2
  <2> QED BY <1>3, <2>1, <2>2
<1>5. \A s, b : Label(h, s, b) =
          LET along == IF right THEN g.bays + 1 - b ELSE b IN
          g.first + (IF s = 2 THEN 2 * g.bays - along ELSE along - 1) * g.step
  <2>1. h.right = right /\ h.bays = g.bays /\ h.first = g.first /\ h.step = g.step
    BY <1>2 DEF TwoSides
  <2> HIDE DEF h
  <2> QED BY <2>1 DEF Label
<1> HIDE DEF o, bays, h
<1>6. CASE g = G
  <2>1. g.bays = bays /\ g.sides = 1 /\ g.first = lo /\ g.step = step
    BY <1>2, <1>6
  <2> DEFINE b == IF right THEN bays - o ELSE o + 1
  <2>2. b \in 1..bays /\ (IF right THEN bays + 1 - b ELSE b) - 1 = o
    BY <1>4
  <2>3. Label(h, 1, b) = n
    <3>1. Label(h, 1, b) = lo + ((IF right THEN bays + 1 - b ELSE b) - 1) * step
      BY <1>5, <2>1
    <3> HIDE DEF b
    <3> QED BY <1>4, <2>2, <3>1
  <2>4. <<1, b>> \in (1..g.sides) \X (1..g.bays)
    BY <2>1, <2>2
  <2> HIDE DEF b
  <2> QED BY <2>3, <2>4 DEF h
<1>7. CASE g = TwoSides(G)
  <2> DEFINE half == (bays + 1) \div 2
  <2>1. g.bays = half /\ g.sides = 2 /\ g.first = lo /\ g.step = step
    BY <1>2, <1>7 DEF TwoSides
  <2>2. half \in Nat /\ o \in Nat /\ o <= 2 * half - 1
    BY <1>4
  <2> DEFINE along == IF o < half THEN o + 1 ELSE 2 * half - o
             s == IF o < half THEN 1 ELSE 2
             b == IF right THEN half + 1 - along ELSE along
  <2> HIDE DEF half
  <2>3. along \in 1..half /\ b \in 1..half /\ s \in 1..2
    BY <2>2
  <2>4. (IF right THEN half + 1 - b ELSE b) = along
    BY <2>2
  <2>5. (IF s = 2 THEN 2 * half - along ELSE along - 1) = o
    BY <2>2
  <2>6. Label(h, s, b) = n
    <3>1. Label(h, s, b) = lo + (IF s = 2 THEN 2 * half - along ELSE along - 1) * step
      <4> HIDE DEF b, along, s
      <4> QED BY <1>5, <2>1, <2>4
    <3> HIDE DEF b, along, s
    <3> QED BY <1>4, <2>5, <3>1
  <2>7. <<s, b>> \in (1..g.sides) \X (1..g.bays)
    BY <2>1, <2>3
  <2> HIDE DEF b, s
  <2> QED BY <2>6, <2>7 DEF h
<1> QED BY <1>6, <1>7 DEF G

------------------------------------------------------------------------------
(* What holds of the bins and of who is changing them *)

PlaceFields == {"inside", "name", "solid", "box", "rack", "reach", "grid"}
GridFields  == {"bays", "levels", "first", "step", "sides", "right"}

Added     == {Ask[s].place : s \in {t \in Saves : Ask[t].does = "adds"}}
Minted(d) == {<<d, k>> : k \in Racks \cup {"building"}}

\* Two records of one place: what a pattern reads its bins' names by, from either end.
SameRack(p, q) == p.rack = q.rack /\ \A f \in {"bays", "first", "step", "sides"} : p.grid[f] = q.grid[f]
SameEnd(p, q)  == p.grid.right = q.grid.right
ReadsIn(p, b, c) == p.rack = Code[b].rack /\ Label(p.grid, c.side, c.bay) = Code[b].bay

\* A saved draft filled the cell the bin is in.
Filled(b) ==
    \E d \in Drafts : /\ Ask[d].apply /\ outcome[d] = "saved"
                      /\ [bin |-> b, to |-> cell[b]] \in plan[d].fill

\* A place an editor added has no rack.
Shaped(P) ==
    \A p \in DOMAIN P : /\ DOMAIN P[p] = PlaceFields /\ DOMAIN P[p].grid = GridFields
                        /\ p \in Added => P[p].rack = None

\* A request has written nothing before its first write and after its last step.
ShapeOf(r) ==
    /\ DOMAIN work[r] = {"places", "cells", "gone"}
    /\ Shaped(work[r].places) /\ Shaped(rows[r])
    /\ outcome[r] = "saved" => pc[r] = "ended"
    /\ pc[r] \in {"new", "begun", "checked", "read", "ended"} => work[r] = Nothing
    /\ r \in Drafts => /\ pc[r] \notin {"begun", "checked", "drawn"} /\ work[r].gone = {}
                       /\ pc[r] = "listed" => work[r] = Nothing
                       /\ pc[r] = "put" => DOMAIN work[r].places = {}
    /\ r \in Reaches => pc[r] \in {"new", "ended"}

\* A place it has written is there, or it is a draft and mints it; and only a save numbers
\* one from its other end.
SteadyOf(r) ==
    \A p \in DOMAIN work[r].places \ Added :
        /\ p \in DOMAIN places \/ (r \in Drafts /\ p \in Minted(r))
        /\ p \in DOMAIN places =>
              /\ SameRack(work[r].places[p], places[p])
              /\ SameEnd(work[r].places[p], places[p]) \/ (r \in Saves /\ p = Ask[r].place)

\* What a save has read is as it read it.
SaveRowsOf(s) ==
    pc[s] \notin {"new", "begun", "checked", "ended"} =>
        /\ DOMAIN rows[s] \subseteq DOMAIN places
        /\ \A p \in DOMAIN rows[s] \ Added : SameRack(rows[s][p], places[p]) /\ SameEnd(rows[s][p], places[p])
        /\ pc[s] # "read" /\ Ask[s].does # "adds" => Ask[s].place \in DOMAIN rows[s]

\* What a draft has read is as it was, but for the end it is numbered from.
DraftRowsOf(d) ==
    \A p \in DOMAIN rows[d] \ Added : p \in DOMAIN places => SameRack(rows[d][p], places[p])

\* It plans to fill cells whose names it read.
FillReadOf(d) ==
    /\ pc[d] \in {"new", "read"} => plan[d].fill = {}
    /\ \A m \in plan[d].fill :
          /\ m.bin \in Bins /\ m = [bin |-> m.bin, to |-> m.to]
          /\ m.to.place \in DOMAIN rows[d] /\ ReadsIn(rows[d][m.to.place], m.bin, m.to)

\* And to make racks with a cell of each of their bins' names.
MakeReadOf(d) ==
    /\ pc[d] \in {"new", "read"} => plan[d].make = {}
    /\ \A m \in plan[d].make :
          /\ m.rack \in Racks /\ DOMAIN m.grid = GridFields
          /\ m.bins \subseteq Bins /\ \A b \in m.bins : Spells([rack |-> m.rack, grid |-> m.grid], b) # {}
          /\ \A n \in plan[d].make : m.rack = n.rack => m = n

\* A cell it has put a bin in is of a place it has written and of the bin's name there, or it
\* is a draft and planned to fill it.
WroteIn(r, b, c) ==
    /\ c.place \in DOMAIN work[r].places
    /\ r \in Drafts => c.place \in Minted(r)
    /\ work[r].places[c.place].rack # None => ReadsIn(work[r].places[c.place], b, c)
FillsIn(r, b, c) ==
    /\ r \in Drafts /\ [bin |-> b, to |-> c] \in plan[r].fill
    /\ c.place \in DOMAIN places /\ \A q \in Requests : c.place \notin work[q].gone
CellsReadOf(r) ==
    \A b \in DOMAIN work[r].cells :
        work[r].cells[b] # None => WroteIn(r, b, work[r].cells[b]) \/ FillsIn(r, b, work[r].cells[b])

\* A place it has removed holds no bin.
GoneEmptyOf(s) ==
    work[s].gone # {} =>
        /\ work[s].gone = {Ask[s].place} /\ Ask[s].does = "removes"
        /\ DOMAIN work[s].cells = {} /\ DOMAIN work[s].places = {}
        /\ BinsIn(Ask[s].place) = {}

\* A place it numbers from its other end holds bins it has put where their names are now, and
\* bins a draft filled in since.
NumberingOf(s) ==
    LET p == Ask[s].place IN
    /\ DOMAIN work[s].places \subseteq {p}
    /\ pc[s] = "drawn" \/ (pc[s] = "listed" /\ Ask[s].does # "removes")
          => /\ p \in DOMAIN work[s].places /\ DOMAIN work[s].cells = {}
             /\ Ask[s].does \in {"moves", "flips"}
    /\ pc[s] = "listed" /\ Ask[s].does # "removes" =>
          listed[s] \subseteq Bins /\ \A b \in listed[s] : Spells(work[s].places[p], b) # {}
    /\ pc[s] = "done" /\ p \in DOMAIN work[s].places \ Added =>
          SameEnd(work[s].places[p], places[p]) \/ \A b \in BinsIn(p) \ DOMAIN work[s].cells : Filled(b)

OwnInv(r) ==
    /\ ShapeOf(r) /\ SteadyOf(r) /\ CellsReadOf(r)
    /\ r \in Saves => SaveRowsOf(r) /\ GoneEmptyOf(r) /\ NumberingOf(r)
    /\ r \in Drafts => DraftRowsOf(r) /\ FillReadOf(r) /\ MakeReadOf(r)

\* The ids a draft mints are nobody else's until it is committed.
FreshIds ==
    \A d \in Drafts : pc[d] # "ended" => \A x \in Minted(d) :
        /\ x \notin DOMAIN places
        /\ \A r \in Requests : x \notin DOMAIN rows[r] /\ (r # d => x \notin DOMAIN work[r].places)

\* Two requests write no one place, nor one what the other removes.
ApartFrom(r, q) ==
    \A p \in DOMAIN work[r].places :
        p \notin work[q].gone /\ (p \notin Added => p \notin DOMAIN work[q].places)
RowsApart == \A r, q \in Requests : r # q => ApartFrom(r, q)

\* A bin in a rack is in the cell its name is on, or a saved draft filled it.
NamedIn(b) ==
    cell[b] # None =>
        /\ cell[b].place \in DOMAIN places
        /\ \/ places[cell[b].place].rack = None
           \/ ReadsIn(places[cell[b].place], b, cell[b])
           \/ Filled(b)
CellsNamed == \A b \in Bins : NamedIn(b)

Tables ==
    /\ DOMAIN pc = Requests /\ DOMAIN work = Requests /\ DOMAIN rows = Requests /\ DOMAIN plan = Drafts
    /\ DOMAIN outcome = Requests /\ DOMAIN listed = Saves /\ DOMAIN cell = Bins
    /\ Shaped(places)

NameInv ==
    /\ Tables /\ FreshIds /\ RowsApart /\ CellsNamed
    /\ \A r \in Requests : OwnInv(r)

------------------------------------------------------------------------------
(* One request's step *)

\* Only r's own rows and place change.
Elsewhere(r) ==
    /\ pc[r] # "ended"
    /\ \A q \in Requests \ {r} : /\ pc'[q] = pc[q] /\ work'[q] = work[q]
                                 /\ rows'[q] = rows[q] /\ outcome'[q] = outcome[q]
    /\ \A d \in Drafts \ {r} : plan'[d] = plan[d]
    /\ \A s \in Saves \ {r} : listed'[s] = listed[s]
    /\ DOMAIN pc' = Requests /\ DOMAIN work' = Requests /\ DOMAIN rows' = Requests /\ DOMAIN plan' = Drafts
    /\ DOMAIN outcome' = Requests /\ DOMAIN listed' = Saves

\* What it removes is no place another puts a bin in.
Spared(r) ==
    \A q \in Requests \ {r} : \A b \in DOMAIN work[q].cells :
        work[q].cells[b] # None => work[q].cells[b].place \notin work'[r].gone

LEMMA KindsApart ==
    /\ \A s \in Saves : s \in Requests /\ s \notin Drafts /\ s \notin Reaches
    /\ \A d \in Drafts : d \in Requests /\ d \notin Saves /\ d \notin Reaches
    /\ \A q \in Reaches : q \in Requests /\ q \notin Saves /\ q \notin Drafts
BY LayoutAssumption DEF LayoutAssumption, Requests

LEMMA IdsApart ==
    /\ \A d \in Drafts : Minted(d) \cap Added = {} /\ Minted(d) \cap DOMAIN Drawn = {}
    /\ \A d, e \in Drafts : d # e => Minted(d) \cap Minted(e) = {}
    /\ DOMAIN Drawn \cap Added = {}
<1>1. \A d \in Drafts : Minted(d) \cap Added = {} /\ Minted(d) \cap DOMAIN Drawn = {}
  BY DrawnAssumption DEF DrawnAssumption, Minted, Added
<1>2. \A d, e \in Drafts : d # e => Minted(d) \cap Minted(e) = {}
  BY DEF Minted
<1>3. DOMAIN Drawn \cap Added = {}
  BY DrawnAssumption DEF DrawnAssumption, Added
<1> QED BY <1>1, <1>2, <1>3

LEMMA NothingIs ==
    /\ DOMAIN Nothing = {"places", "cells", "gone"}
    /\ DOMAIN Nothing.places = {} /\ DOMAIN Nothing.cells = {} /\ Nothing.gone = {}
BY DEF Nothing

\* A bin a draft filled in stays so.
LEMMA FilledStays ==
    ASSUME NameInv, NEW r \in Requests, Elsewhere(r), NEW b, cell'[b] = cell[b], Filled(b)
    PROVE  Filled(b)'
<1>1. PICK d \in Drafts : Ask[d].apply /\ outcome[d] = "saved" /\ [bin |-> b, to |-> cell[b]] \in plan[d].fill
  BY DEF Filled
<1>2. d \in Requests /\ pc[d] = "ended"
  BY <1>1, KindsApart DEF NameInv, OwnInv, ShapeOf
<1>3. d # r
  BY <1>2 DEF Elsewhere
<1> QED BY <1>1, <1>2, <1>3 DEF Filled, Elsewhere

\* What it does not write is left to the others as it was.
LEMMA OthersKeep ==
    ASSUME NameInv, NEW r \in Requests, Elsewhere(r), UNCHANGED <<places, cell>>, Spared(r),
           NEW q \in Requests, q # r
    PROVE  OwnInv(q)'
<1>1. /\ pc'[q] = pc[q] /\ work'[q] = work[q] /\ rows'[q] = rows[q] /\ outcome'[q] = outcome[q]
      /\ q \in Drafts => plan'[q] = plan[q]
      /\ q \in Saves => listed'[q] = listed[q]
      /\ places' = places /\ cell' = cell
  BY DEF Elsewhere
<1>2. OwnInv(q)
  BY DEF NameInv
<1>3. ShapeOf(q)'
  BY ONLY <1>1, <1>2 DEF OwnInv, ShapeOf, Shaped
<1>4. SteadyOf(q)'
  BY ONLY <1>1, <1>2 DEF OwnInv, SteadyOf, SameRack, SameEnd
<1>5. CellsReadOf(q)'
  <2> SUFFICES ASSUME NEW b \in DOMAIN work[q].cells, work[q].cells[b] # None
               PROVE  WroteIn(q, b, work[q].cells[b])' \/ FillsIn(q, b, work[q].cells[b])'
    BY <1>1 DEF CellsReadOf, WroteIn, FillsIn
  <2> DEFINE c == work[q].cells[b]
  <2>1. WroteIn(q, b, c) \/ FillsIn(q, b, c)
    BY <1>2 DEF OwnInv, CellsReadOf
  <2>2. c.place \notin work'[r].gone
    BY DEF Spared
  <2>3. CASE WroteIn(q, b, c)
    BY ONLY <1>1, <2>3 DEF WroteIn, ReadsIn
  <2>4. CASE FillsIn(q, b, c)
    <3>1. \A x \in Requests : c.place \notin work'[x].gone
      BY <2>2, <2>4 DEF FillsIn, Elsewhere
    <3> QED BY ONLY <1>1, <2>4, <3>1 DEF FillsIn
  <2> QED BY <2>1, <2>3, <2>4, <1>1 DEF WroteIn, FillsIn
<1>6. ASSUME q \in Saves PROVE SaveRowsOf(q)' /\ GoneEmptyOf(q)' /\ NumberingOf(q)'
  <2>1. SaveRowsOf(q)'
    BY ONLY <1>1, <1>2, <1>6 DEF OwnInv, SaveRowsOf, SameRack, SameEnd
  <2>2. GoneEmptyOf(q)'
    BY ONLY <1>1, <1>2, <1>6 DEF OwnInv, GoneEmptyOf, BinsIn
  <2>3. \A b \in BinsIn(Ask[q].place) : Filled(b) => Filled(b)'
    BY <1>1, FilledStays
  <2>4. NumberingOf(q)'
    <3>1. BinsIn(Ask[q].place)' = BinsIn(Ask[q].place)
      BY <1>1 DEF BinsIn
    <3> HIDE DEF BinsIn
    <3> QED BY ONLY <1>1, <1>2, <1>6, <2>3, <3>1 DEF OwnInv, NumberingOf, SameEnd, Spells
  <2> QED BY <2>1, <2>2, <2>4
<1>7. ASSUME q \in Drafts PROVE DraftRowsOf(q)' /\ FillReadOf(q)' /\ MakeReadOf(q)'
  <2>1. DraftRowsOf(q)'
    BY ONLY <1>1, <1>2, <1>7 DEF OwnInv, DraftRowsOf, SameRack
  <2>2. FillReadOf(q)'
    BY ONLY <1>1, <1>2, <1>7 DEF OwnInv, FillReadOf, ReadsIn
  <2>3. MakeReadOf(q)'
    BY ONLY <1>1, <1>2, <1>7 DEF OwnInv, MakeReadOf
  <2> QED BY <2>1, <2>2, <2>3
<1> QED BY <1>3, <1>4, <1>5, <1>6, <1>7 DEF OwnInv

\* A step that leaves what is committed.
LEMMA StepKeeps ==
    ASSUME NameInv, NEW r \in Requests, Elsewhere(r), UNCHANGED <<places, cell>>, Spared(r), OwnInv(r)',
           \A x \in DOMAIN rows'[r] : x \in DOMAIN rows[r] \cup DOMAIN places,
           \A x \in DOMAIN work'[r].places :
              \/ x \in DOMAIN work[r].places \cup DOMAIN places \cup DOMAIN rows[r] \cup Added
              \/ r \in Drafts /\ x \in Minted(r),
           \A q \in Requests \ {r} : ApartFrom(r, q)' /\ ApartFrom(q, r)'
    PROVE  NameInv'
<1>1. Tables'
  BY DEF NameInv, Tables, Elsewhere, Shaped
<1>2. FreshIds'
  <2> SUFFICES ASSUME NEW d \in Drafts, pc'[d] # "ended", NEW x \in Minted(d), NEW q \in Requests
               PROVE  /\ x \notin DOMAIN places
                      /\ x \notin DOMAIN rows'[q] /\ (q # d => x \notin DOMAIN work'[q].places)
    BY DEF FreshIds, Minted
  <2>1. pc[d] # "ended" /\ d \in Requests
    BY KindsApart DEF Elsewhere
  <2>2. /\ x \notin DOMAIN places
        /\ \A p \in Requests : x \notin DOMAIN rows[p] /\ (p # d => x \notin DOMAIN work[p].places)
    BY <2>1 DEF NameInv, FreshIds
  <2>3. x \notin Added /\ (r \in Drafts /\ r # d => x \notin Minted(r))
    BY IdsApart
  <2>4. CASE q = r
    BY <2>2, <2>3, <2>4
  <2>5. CASE q # r
    BY <2>2, <2>5 DEF Elsewhere
  <2> QED BY <2>2, <2>4, <2>5
<1>3. RowsApart'
  <2> SUFFICES ASSUME NEW p \in Requests, NEW q \in Requests, p # q PROVE ApartFrom(p, q)'
    BY DEF RowsApart
  <2>1. CASE p = r \/ q = r
    BY <2>1
  <2>2. CASE p # r /\ q # r
    BY <2>2 DEF NameInv, RowsApart, ApartFrom, Elsewhere
  <2> QED BY <2>1, <2>2
<1>4. CellsNamed'
  <2> SUFFICES ASSUME NEW b \in Bins PROVE NamedIn(b)'
    BY DEF CellsNamed
  <2>1. NamedIn(b)
    BY DEF NameInv, CellsNamed
  <2>2. Filled(b) => Filled(b)'
    BY FilledStays
  <2> QED BY <2>1, <2>2 DEF NamedIn, ReadsIn
<1>5. \A q \in Requests : OwnInv(q)'
  BY OthersKeep
<1> QED BY <1>1, <1>2, <1>3, <1>4, <1>5 DEF NameInv

\* What another puts a bin in is nowhere r has removed.
LEMMA SparedNow ==
    ASSUME NameInv, NEW r \in Requests, work'[r].gone \subseteq work[r].gone PROVE Spared(r)
<1> SUFFICES ASSUME NEW q \in Requests \ {r}, NEW b \in DOMAIN work[q].cells, work[q].cells[b] # None
             PROVE  work[q].cells[b].place \notin work[r].gone
  BY DEF Spared
<1>1. WroteIn(q, b, work[q].cells[b]) \/ FillsIn(q, b, work[q].cells[b])
  BY DEF NameInv, OwnInv, CellsReadOf
<1>2. ApartFrom(q, r)
  BY DEF NameInv, RowsApart
<1> QED BY <1>1, <1>2 DEF WroteIn, FillsIn, ApartFrom

\* One that writes nothing.
LEMMA QuietKeeps ==
    ASSUME NameInv, NEW r \in Requests, Elsewhere(r), UNCHANGED <<places, cell>>, OwnInv(r)',
           work'[r] = work[r], rows'[r] \in {rows[r], places}
    PROVE  NameInv'
<1>1. Spared(r)
  BY SparedNow
<1>2. \A q \in Requests \ {r} : ApartFrom(r, q)' /\ ApartFrom(q, r)'
  BY DEF NameInv, RowsApart, ApartFrom, Elsewhere
<1> QED BY <1>1, <1>2, StepKeeps

\* One that ends, and commits nothing.
LEMMA EndKeeps ==
    ASSUME NameInv, NEW r \in Requests, Elsewhere(r), UNCHANGED <<places, cell, plan, rows, listed>>,
           pc'[r] = "ended", work'[r] = Nothing
    PROVE  NameInv'
<1>1. Spared(r)
  BY SparedNow, NothingIs
<1>2. \A q \in Requests \ {r} : ApartFrom(r, q)' /\ ApartFrom(q, r)'
  BY NothingIs DEF ApartFrom
<1>3. OwnInv(r)
  BY DEF NameInv
<1>4. ShapeOf(r)'
  BY <1>3, NothingIs DEF OwnInv, ShapeOf, Shaped
<1>5. SteadyOf(r)' /\ CellsReadOf(r)'
  BY NothingIs DEF SteadyOf, CellsReadOf
<1>6. SaveRowsOf(r)' /\ GoneEmptyOf(r)' /\ NumberingOf(r)'
  BY NothingIs DEF SaveRowsOf, GoneEmptyOf, NumberingOf
<1>7. ASSUME r \in Drafts PROVE DraftRowsOf(r)' /\ FillReadOf(r)' /\ MakeReadOf(r)'
  <2>1. DraftRowsOf(r)'
    BY <1>3, <1>7 DEF OwnInv, DraftRowsOf, SameRack
  <2>2. FillReadOf(r)'
    BY <1>3, <1>7 DEF OwnInv, FillReadOf, ReadsIn
  <2>3. MakeReadOf(r)'
    BY <1>3, <1>7 DEF OwnInv, MakeReadOf
  <2> QED BY <2>1, <2>2, <2>3
<1>8. OwnInv(r)'
  BY <1>4, <1>5, <1>6, <1>7 DEF OwnInv
<1>9. \A x \in DOMAIN work'[r].places : FALSE
  BY NothingIs
<1> QED BY <1>1, <1>2, <1>8, <1>9, StepKeeps

\* A request goes on to a step, or ends.
LEMMA GoesAlone ==
    ASSUME NameInv, NEW r \in Requests, pc[r] # "ended", NEW step, Goes(r, step),
           work' = work \/ \E w : Writes(r, w),
           rows' = rows \/ \E P : rows' = [rows EXCEPT ![r] = P],
           plan' = plan \/ \E v : plan' = [plan EXCEPT ![r] = v],
           listed' = listed \/ \E S : listed' = [listed EXCEPT ![r] = S],
           outcome' = outcome \/ \E how : outcome' = [outcome EXCEPT ![r] = how]
    PROVE  Elsewhere(r) /\ pc'[r] = step
<1>1. /\ DOMAIN pc = Requests /\ DOMAIN work = Requests /\ DOMAIN rows = Requests /\ DOMAIN plan = Drafts
      /\ DOMAIN outcome = Requests /\ DOMAIN listed = Saves
  BY DEF NameInv, Tables
<1>2. DOMAIN pc' = Requests /\ pc'[r] = step /\ \A q \in Requests \ {r} : pc'[q] = pc[q]
  BY <1>1 DEF Goes
<1>3. DOMAIN work' = Requests /\ \A q \in Requests \ {r} : work'[q] = work[q]
  BY <1>1 DEF Writes
<1>4. DOMAIN rows' = Requests /\ \A q \in Requests \ {r} : rows'[q] = rows[q]
  BY <1>1
<1>5. DOMAIN plan' = Drafts /\ \A d \in Drafts \ {r} : plan'[d] = plan[d]
  BY <1>1
<1>6. DOMAIN listed' = Saves /\ \A s \in Saves \ {r} : listed'[s] = listed[s]
  BY <1>1
<1>7. DOMAIN outcome' = Requests /\ \A q \in Requests \ {r} : outcome'[q] = outcome[q]
  BY <1>1
<1> QED BY <1>2, <1>3, <1>4, <1>5, <1>6, <1>7 DEF Elsewhere

LEMMA EndsKeep ==
    ASSUME NameInv, NEW r \in Requests, pc[r] # "ended", NEW how, End(r, how),
           UNCHANGED <<places, cell, plan, rows, listed>>
    PROVE  NameInv'
<1>1. Elsewhere(r) /\ pc'[r] = "ended"
  BY GoesAlone DEF End
<1>2. work'[r] = Nothing
  BY DEF End, Writes, NameInv, Tables
<1> QED BY <1>1, <1>2, EndKeeps

LEMMA FailsKeep ==
    ASSUME NameInv, NEW r \in Requests, pc[r] # "ended", NEW how, Fails(r, how) PROVE NameInv'
BY EndsKeep DEF Fails, reads

\* While a save runs no other does, and none but it removes.
LEMMA SaveAlone ==
    ASSUME NameInv, SaveInv, NEW s \in Saves, pc[s] \notin {"new", "ended"}
    PROVE  /\ \A t \in Saves \ {s} : pc[t] \in {"new", "ended"} /\ work[t] = Nothing
           /\ \A q \in Requests \ {s} : work[q].gone = {}
<1>1. ASSUME NEW t \in Saves \ {s} PROVE pc[t] \in {"new", "ended"}
  BY DEF SaveInv, OneSaves
<1>2. \A q \in Requests : pc[q] \in {"new", "ended"} => work[q] = Nothing
  BY DEF NameInv, OwnInv, ShapeOf
<1>3. \A t \in Saves \ {s} : pc[t] \in {"new", "ended"} /\ work[t] = Nothing
  BY <1>1, <1>2, KindsApart
<1>4. ASSUME NEW q \in Requests \ {s} PROVE work[q].gone = {}
  <2>1. CASE q \in Saves
    BY <1>3, <2>1, NothingIs
  <2>2. CASE q \in Drafts
    BY <2>2 DEF NameInv, OwnInv, ShapeOf
  <2>3. CASE q \in Reaches
    BY <1>2, <2>3, NothingIs DEF NameInv, OwnInv, ShapeOf
  <2> QED BY <2>1, <2>2, <2>3 DEF Requests
<1> QED BY <1>3, <1>4

------------------------------------------------------------------------------
(* Steps that write nothing *)

LEMMA BeginKeeps ==
    ASSUME NameInv, NEW s \in Saves, Begin(s) PROVE NameInv'
<1>1. s \in Requests /\ pc[s] = "new" /\ UNCHANGED <<places, cell, rows, listed, plan>>
  BY KindsApart DEF Begin
<1>2. CASE End(s, "told")
  BY <1>1, <1>2, EndsKeep
<1>3. CASE Goes(s, "begun") /\ UNCHANGED <<work, outcome>>
  <2>1. Elsewhere(s) /\ pc'[s] = "begun"
    BY <1>1, <1>3, GoesAlone
  <2>2. OwnInv(s) /\ work[s] = Nothing /\ s \notin Drafts /\ s \notin Reaches
    BY <1>1, KindsApart DEF NameInv, OwnInv, ShapeOf
  <2>3. ShapeOf(s)'
    BY <1>1, <1>3, <2>1, <2>2 DEF OwnInv, ShapeOf, Shaped
  <2>4. SteadyOf(s)' /\ CellsReadOf(s)' /\ SaveRowsOf(s)' /\ GoneEmptyOf(s)' /\ NumberingOf(s)'
    BY <1>1, <1>3, <2>1, <2>2, NothingIs DEF SteadyOf, CellsReadOf, SaveRowsOf, GoneEmptyOf, NumberingOf
  <2>5. OwnInv(s)'
    BY <2>2, <2>3, <2>4 DEF OwnInv
  <2> QED BY <1>1, <1>3, <2>1, <2>5, QuietKeeps
<1> QED BY <1>2, <1>3 DEF Begin

LEMMA CheckKeeps ==
    ASSUME NameInv, NEW s \in Saves, Check(s) PROVE NameInv'
<1>1. s \in Requests /\ pc[s] = "begun"
  BY KindsApart DEF Check
<1>2. CASE Fails(s, "refused")
  BY <1>1, <1>2, FailsKeep
<1>3. CASE Goes(s, "checked") /\ UNCHANGED <<places, cell, editors, reads, lock, saved, work, outcome>>
  <2>1. Elsewhere(s) /\ pc'[s] = "checked"
    BY <1>1, <1>3, GoesAlone DEF reads
  <2>2. OwnInv(s) /\ work[s] = Nothing /\ s \notin Drafts /\ s \notin Reaches
    BY <1>1, KindsApart DEF NameInv, OwnInv, ShapeOf
  <2>3. ShapeOf(s)'
    BY <1>1, <1>3, <2>1, <2>2 DEF OwnInv, ShapeOf, Shaped, reads
  <2>4. SteadyOf(s)' /\ CellsReadOf(s)' /\ SaveRowsOf(s)' /\ GoneEmptyOf(s)' /\ NumberingOf(s)'
    BY <1>1, <1>3, <2>1, <2>2, NothingIs DEF SteadyOf, CellsReadOf, SaveRowsOf, GoneEmptyOf, NumberingOf
  <2>5. OwnInv(s)'
    BY <2>2, <2>3, <2>4 DEF OwnInv
  <2> QED BY <1>1, <1>3, <2>1, <2>5, QuietKeeps DEF reads
<1> QED BY <1>2, <1>3 DEF Check

LEMMA ReadRowsKeeps ==
    ASSUME NameInv, NEW r \in Requests, ReadRows(r) PROVE NameInv'
<1>1. /\ pc[r] = "checked" \/ (r \in Drafts /\ pc[r] = "new")
      /\ rows' = [rows EXCEPT ![r] = places] /\ Goes(r, "read")
      /\ UNCHANGED <<places, cell, listed, plan, work, outcome>>
  BY DEF ReadRows
<1>2. Elsewhere(r) /\ pc'[r] = "read"
  BY <1>1, GoesAlone
<1>3. OwnInv(r) /\ work[r] = Nothing /\ rows'[r] = places /\ r \notin Reaches /\ Shaped(places)
  BY <1>1, KindsApart DEF NameInv, OwnInv, ShapeOf, Tables
<1>4. ShapeOf(r)'
  BY <1>1, <1>2, <1>3 DEF OwnInv, ShapeOf, Shaped
<1>5. SteadyOf(r)' /\ CellsReadOf(r)' /\ SaveRowsOf(r)' /\ GoneEmptyOf(r)' /\ NumberingOf(r)'
  BY <1>1, <1>2, <1>3, NothingIs DEF SteadyOf, CellsReadOf, SaveRowsOf, GoneEmptyOf, NumberingOf, SameRack, SameEnd
<1>6. ASSUME r \in Drafts PROVE DraftRowsOf(r)' /\ FillReadOf(r)' /\ MakeReadOf(r)'
  <2>1. pc[r] = "new"
    BY <1>1, <1>3, <1>6 DEF OwnInv, ShapeOf
  <2>2. plan'[r].fill = {} /\ plan'[r].make = {}
    BY <1>1, <1>3, <1>6, <2>1 DEF OwnInv, FillReadOf, MakeReadOf
  <2>3. DraftRowsOf(r)'
    BY <1>1, <1>3 DEF DraftRowsOf, SameRack
  <2> QED BY <2>2, <2>3 DEF FillReadOf, MakeReadOf
<1>7. OwnInv(r)'
  BY <1>4, <1>5, <1>6 DEF OwnInv
<1> QED BY <1>1, <1>2, <1>3, <1>7, QuietKeeps

LEMMA CountKeeps ==
    ASSUME NameInv, NEW s \in Saves, CountIn(s) PROVE NameInv'
<1>1. s \in Requests /\ pc[s] = "read" /\ Ask[s].does = "removes"
  BY KindsApart DEF CountIn
<1>2. CASE Fails(s, "refused")
  BY <1>1, <1>2, FailsKeep
<1>3. CASE /\ Ask[s].place \in DOMAIN rows[s] /\ Goes(s, "listed")
           /\ UNCHANGED <<places, cell, editors, reads, lock, saved, work, outcome>>
  <2>1. Elsewhere(s) /\ pc'[s] = "listed"
    BY <1>1, <1>3, GoesAlone DEF reads
  <2>2. OwnInv(s) /\ work[s] = Nothing /\ s \notin Drafts /\ s \notin Reaches
    BY <1>1, KindsApart DEF NameInv, OwnInv, ShapeOf
  <2>3. ShapeOf(s)'
    BY <1>1, <1>3, <2>1, <2>2 DEF OwnInv, ShapeOf, Shaped, reads
  <2>4. SaveRowsOf(s)'
    BY <1>1, <1>3, <2>1, <2>2 DEF OwnInv, SaveRowsOf, SameRack, SameEnd, reads
  <2>5. SteadyOf(s)' /\ CellsReadOf(s)' /\ GoneEmptyOf(s)' /\ NumberingOf(s)'
    BY <1>1, <1>3, <2>1, <2>2, NothingIs DEF SteadyOf, CellsReadOf, GoneEmptyOf, NumberingOf
  <2>6. OwnInv(s)'
    BY <2>2, <2>3, <2>4, <2>5 DEF OwnInv
  <2> QED BY <1>1, <1>3, <2>1, <2>6, QuietKeeps DEF reads
<1>4. Fails(s, "refused") \/ (/\ Ask[s].place \in DOMAIN rows[s] /\ Goes(s, "listed")
                              /\ UNCHANGED <<places, cell, editors, reads, lock, saved, work, outcome>>)
  BY DEF CountIn
<1> QED BY <1>2, <1>3, <1>4

\* What a save sees of the place it has written is what it wrote.
LEMMA SeenIs ==
    ASSUME NEW r, NEW p \in DOMAIN work[r].places, work[r].gone = {} PROVE Seen(r)[p] = work[r].places[p]
BY DEF Seen

LEMMA ListKeeps ==
    ASSUME NameInv, NEW s \in Saves, List(s) PROVE NameInv'
<1> DEFINE p == Ask[s].place
<1>1. s \in Requests /\ pc[s] = "drawn" /\ s \notin Drafts /\ s \notin Reaches
  BY KindsApart DEF List
<1>2. CASE Fails(s, "refused")
  BY <1>1, <1>2, FailsKeep
<1>3. CASE /\ ~\E b \in BinsIn(p) : Spells(Seen(s)[p], b) = {}
           /\ listed' = [listed EXCEPT ![s] = BinsIn(p)]
           /\ Goes(s, IF BinsIn(p) = {} THEN "done" ELSE "listed")
           /\ UNCHANGED <<places, cell, editors, before, rows, plan, lock, saved, work, outcome>>
  <2>1. Elsewhere(s) /\ pc'[s] = IF BinsIn(p) = {} THEN "done" ELSE "listed"
    BY <1>1, <1>3, GoesAlone
  <2>2. /\ OwnInv(s) /\ p \in DOMAIN work[s].places /\ DOMAIN work[s].cells = {}
        /\ Ask[s].does \in {"moves", "flips"}
    BY <1>1 DEF NameInv, OwnInv, NumberingOf
  <2>3. work[s].gone = {}
    BY <2>2 DEF OwnInv, GoneEmptyOf
  <2>4. listed'[s] = BinsIn(p) /\ work' = work /\ places' = places /\ cell' = cell /\ rows' = rows
    BY <1>3 DEF NameInv, Tables
  <2>5. ShapeOf(s)'
    BY <1>1, <1>3, <2>1, <2>2 DEF OwnInv, ShapeOf, Shaped
  <2>6. SaveRowsOf(s)'
    BY <1>1, <2>1, <2>2, <2>4 DEF OwnInv, SaveRowsOf, SameRack, SameEnd
  <2>7. SteadyOf(s)'
    BY <2>2, <2>4 DEF OwnInv, SteadyOf, SameRack, SameEnd
  <2>8. CellsReadOf(s)' /\ GoneEmptyOf(s)'
    BY <2>2, <2>3, <2>4 DEF CellsReadOf, GoneEmptyOf
  <2>9. NumberingOf(s)'
    <3>1. \A b \in BinsIn(p) : Spells(work[s].places[p], b) # {}
      BY <1>3, <2>2, <2>3, SeenIs
    <3>2. BinsIn(p) \subseteq Bins /\ BinsIn(p)' = BinsIn(p) /\ DOMAIN work[s].places \subseteq {p}
      BY <1>1, <2>2, <2>4 DEF BinsIn, OwnInv, NumberingOf
    <3> HIDE DEF BinsIn
    <3> QED BY ONLY <2>1, <2>2, <2>4, <3>1, <3>2 DEF NumberingOf, Spells
  <2>10. OwnInv(s)'
    BY <1>1, <2>5, <2>6, <2>7, <2>8, <2>9 DEF OwnInv
  <2> QED BY <1>1, <1>3, <2>1, <2>10, QuietKeeps
<1>4. \/ Fails(s, "refused")
      \/ /\ ~\E b \in BinsIn(p) : Spells(Seen(s)[p], b) = {}
         /\ listed' = [listed EXCEPT ![s] = BinsIn(p)]
         /\ Goes(s, IF BinsIn(p) = {} THEN "done" ELSE "listed")
         /\ UNCHANGED <<places, cell, editors, before, rows, plan, lock, saved, work, outcome>>
  BY DEF List
<1> QED BY <1>2, <1>3, <1>4

------------------------------------------------------------------------------
(* What a save writes *)

\* A place as the editor left it is the rack it was.
LEMMA AsLeftIs ==
    ASSUME NameInv, NEW s \in Saves, Ask[s].place \in DOMAIN places
    PROVE  LET p == Ask[s].place IN
           /\ DOMAIN AsLeft(s) = PlaceFields /\ DOMAIN AsLeft(s).grid = GridFields
           /\ AsLeft(s).rack = places[p].rack /\ SameRack(AsLeft(s), places[p])
<1> DEFINE p == Ask[s].place
<1>1. DOMAIN places[p] = PlaceFields /\ DOMAIN places[p].grid = GridFields
  BY DEF NameInv, Tables, Shaped
<1>2. PICK v : AsLeft(s) = [places[p] EXCEPT !.box = Ask[s].box, !.grid.right = v]
  BY DEF AsLeft
<1> HIDE DEF p
<1>3. DOMAIN AsLeft(s) = PlaceFields /\ AsLeft(s).rack = places[p].rack
  BY ONLY <1>1, <1>2 DEF PlaceFields
<1>4. AsLeft(s).grid = [places[p].grid EXCEPT !.right = v]
  BY ONLY <1>1, <1>2 DEF PlaceFields
<1>5. DOMAIN AsLeft(s).grid = GridFields
  BY ONLY <1>1, <1>4
<1>6. \A f \in {"bays", "first", "step", "sides"} : AsLeft(s).grid[f] = places[p].grid[f]
  BY ONLY <1>1, <1>4 DEF GridFields
<1> QED BY <1>3, <1>5, <1>6 DEF SameRack, p

\* A request that writes w, and goes on.
LEMMA WritesIs ==
    ASSUME NameInv, NEW r \in Requests, NEW w, Writes(r, w) PROVE work'[r] = w
BY DEF NameInv, Tables, Writes

\* One place written, and nothing in it yet.
LEMMA OneWritten ==
    ASSUME NEW p, NEW v
    PROVE  LET w == [Nothing EXCEPT !.places = Only(p, v)] IN
           /\ DOMAIN w = {"places", "cells", "gone"} /\ DOMAIN w.places = {p} /\ w.places[p] = v
           /\ DOMAIN w.cells = {} /\ w.gone = {}
BY DEF Nothing, Only

LEMMA DrawKeeps ==
    ASSUME NameInv, SaveInv, NEW s \in Saves, Draw(s) PROVE NameInv'
<1> DEFINE p == Ask[s].place
           w == [Nothing EXCEPT !.places = Only(p, AsLeft(s))]
           on == IF AsLeft(s).grid.right # rows[s][p].grid.right THEN "drawn" ELSE "done"
<1>1. /\ s \in Requests /\ s \notin Drafts /\ s \notin Reaches
      /\ pc[s] = "read" /\ Ask[s].does \in {"moves", "flips"} /\ ~Drawing(s, p)
  BY KindsApart DEF Draw
<1>2. CASE Fails(s, "refused")
  BY <1>1, <1>2, FailsKeep
<1>3. CASE /\ p \in DOMAIN rows[s] /\ Writes(s, w) /\ Goes(s, on)
           /\ UNCHANGED <<places, cell, editors, reads, lock, saved, outcome>>
  <2>1. Elsewhere(s) /\ pc'[s] = on /\ on \in {"drawn", "done"}
    BY <1>1, <1>3, GoesAlone DEF reads
  <2>2. OwnInv(s)
    BY <1>1 DEF NameInv
  <2>3. /\ DOMAIN rows[s] \subseteq DOMAIN places
        /\ \A x \in DOMAIN rows[s] \ Added : SameRack(rows[s][x], places[x]) /\ SameEnd(rows[s][x], places[x])
    BY <1>1, <2>2 DEF OwnInv, SaveRowsOf
  <2>4. work'[s] = w
    BY <1>1, <1>3, WritesIs
  <2>5. /\ DOMAIN w = {"places", "cells", "gone"} /\ DOMAIN w.places = {p} /\ w.places[p] = AsLeft(s)
        /\ DOMAIN w.cells = {} /\ w.gone = {}
    BY OneWritten
  <2> HIDE DEF w, on
  <2>6. p \in DOMAIN places /\ rows'[s] = rows[s] /\ places' = places /\ cell' = cell /\ outcome' = outcome
    BY <1>3, <2>3 DEF reads
  <2>7. /\ DOMAIN AsLeft(s) = PlaceFields /\ DOMAIN AsLeft(s).grid = GridFields
        /\ AsLeft(s).rack = places[p].rack /\ SameRack(AsLeft(s), places[p])
    BY <2>6, AsLeftIs
  <2>8. ShapeOf(s)'
    <3>1. Shaped(work'[s].places)
      BY <2>4, <2>5, <2>6, <2>7 DEF Shaped, NameInv, Tables
    <3>2. Shaped(rows'[s])
      BY <2>2, <2>6 DEF OwnInv, ShapeOf
    <3> QED BY ONLY <1>1, <2>1, <2>2, <2>4, <2>5, <2>6, <3>1, <3>2 DEF OwnInv, ShapeOf, Shaped
  <2>9. SteadyOf(s)'
    BY ONLY <2>4, <2>5, <2>6, <2>7, s \in Saves DEF SteadyOf, p, SameRack, SameEnd
  <2>10. CellsReadOf(s)' /\ GoneEmptyOf(s)'
    BY ONLY <2>4, <2>5 DEF CellsReadOf, GoneEmptyOf
  <2>11. SaveRowsOf(s)'
    BY ONLY <1>3, <2>1, <2>3, <2>6 DEF SaveRowsOf, SameRack, SameEnd, p
  <2>12. NumberingOf(s)'
    <3>1. on = "done" /\ p \notin Added => SameEnd(w.places[p], places[p])
      BY <1>3, <2>3, <2>5 DEF SameEnd, on
    <3> QED BY ONLY <1>1, <2>1, <2>4, <2>5, <2>6, <3>1 DEF NumberingOf, p, SameEnd
  <2>13. OwnInv(s)'
    BY <1>1, <2>8, <2>9, <2>10, <2>11, <2>12 DEF OwnInv
  <2>14. ASSUME NEW q \in Requests \ {s} PROVE ApartFrom(s, q)' /\ ApartFrom(q, s)'
    <3>1. work'[q] = work[q] /\ p \notin DOMAIN work[q].places /\ p \notin work[q].gone
      BY <1>1, <2>1 DEF Drawing, Elsewhere
    <3> QED BY ONLY <2>4, <2>5, <3>1 DEF ApartFrom
  <2>15. Spared(s)
    BY <2>4, <2>5, <1>1, SparedNow
  <2>16. \A x \in DOMAIN work'[s].places : x \in DOMAIN places
    BY <2>4, <2>5, <2>6
  <2> QED BY <1>1, <2>1, <2>6, <2>13, <2>14, <2>15, <2>16, StepKeeps
<1>4. \/ Fails(s, "refused")
      \/ /\ p \in DOMAIN rows[s] /\ Writes(s, w) /\ Goes(s, on)
         /\ UNCHANGED <<places, cell, editors, reads, lock, saved, outcome>>
  BY DEF Draw
<1> QED BY <1>2, <1>3, <1>4

LEMMA AddKeeps ==
    ASSUME NameInv, SaveInv, NEW s \in Saves, Add(s) PROVE NameInv'
<1> DEFINE id == Ask[s].place
           b == Ask[s].bin
           spot == [inside |-> Ask[s].inside, name |-> id, solid |-> FALSE, box |-> Ask[s].box,
                    rack |-> None, reach |-> 1,
                    grid |-> [bays |-> 1, levels |-> 1, first |-> 1, step |-> 1, sides |-> 1,
                              right |-> FALSE]]
           w == [Nothing EXCEPT !.places = Only(id, spot),
                                !.cells = IF b = None THEN <<>> ELSE Only(b, In(id, <<1, 1>>))]
<1>1. s \in Requests /\ s \notin Drafts /\ s \notin Reaches /\ pc[s] = "read" /\ Ask[s].does = "adds"
  BY KindsApart DEF Add
<1>2. ASSUME NEW how, Fails(s, how) PROVE NameInv'
  BY <1>1, <1>2, FailsKeep
<1>3. CASE /\ Writes(s, w) /\ Goes(s, "done")
           /\ UNCHANGED <<places, cell, editors, reads, lock, saved, outcome>>
  <2>1. Elsewhere(s) /\ pc'[s] = "done"
    BY <1>1, <1>3, GoesAlone DEF reads
  <2>2. OwnInv(s) /\ id \in Added
    BY <1>1 DEF NameInv, Added
  <2>4. work'[s] = w
    BY <1>1, <1>3, WritesIs
  <2>5. /\ DOMAIN w = {"places", "cells", "gone"} /\ DOMAIN w.places = {id} /\ w.places[id] = spot
        /\ w.gone = {}
    BY DEF Nothing, Only
  <2>6. \A x \in DOMAIN w.cells : w.cells[x].place = id
    BY DEF Nothing, Only, In
  <2>7. DOMAIN spot = PlaceFields /\ DOMAIN spot.grid = GridFields /\ spot.rack = None
    BY DEF PlaceFields, GridFields
  <2> HIDE DEF w, spot
  <2>8. rows'[s] = rows[s] /\ places' = places /\ cell' = cell /\ outcome' = outcome
    BY <1>3 DEF reads
  <2>9. ShapeOf(s)'
    <3>1. Shaped(work'[s].places)
      BY <2>4, <2>5, <2>7 DEF Shaped
    <3>2. Shaped(rows'[s])
      BY <2>2, <2>8 DEF OwnInv, ShapeOf
    <3> QED BY ONLY <1>1, <2>1, <2>2, <2>4, <2>5, <2>8, <3>1, <3>2 DEF OwnInv, ShapeOf, Shaped
  <2>10. SteadyOf(s)' /\ GoneEmptyOf(s)'
    BY ONLY <2>2, <2>4, <2>5 DEF SteadyOf, GoneEmptyOf
  <2>11. CellsReadOf(s)'
    BY ONLY <1>1, <2>4, <2>5, <2>6, <2>7 DEF CellsReadOf, WroteIn
  <2>12. SaveRowsOf(s)'
    BY <1>1, <2>1, <2>2, <2>8 DEF OwnInv, SaveRowsOf, SameRack, SameEnd
  <2>13. NumberingOf(s)'
    BY ONLY <2>1, <2>2, <2>4, <2>5 DEF NumberingOf, id
  <2>14. OwnInv(s)'
    BY <1>1, <2>9, <2>10, <2>11, <2>12, <2>13 DEF OwnInv
  <2>15. ASSUME NEW q \in Requests \ {s} PROVE ApartFrom(s, q)' /\ ApartFrom(q, s)'
    <3>1. work'[q] = work[q] /\ work[q].gone = {}
      BY <1>1, <2>1, SaveAlone DEF Elsewhere
    <3> QED BY ONLY <2>2, <2>4, <2>5, <3>1 DEF ApartFrom
  <2>16. Spared(s)
    BY <2>4, <2>5, <1>1, SparedNow
  <2>17. \A x \in DOMAIN work'[s].places : x \in Added
    BY <2>2, <2>4, <2>5
  <2> QED BY <1>1, <2>1, <2>8, <2>14, <2>15, <2>16, <2>17, StepKeeps
<1>4. \/ \E how : Fails(s, how)
      \/ /\ Writes(s, w) /\ Goes(s, "done")
         /\ UNCHANGED <<places, cell, editors, reads, lock, saved, outcome>>
  BY DEF Add
<1> QED BY <1>2, <1>3, <1>4

LEMMA RemoveKeeps ==
    ASSUME NameInv, SaveInv, NEW s \in Saves, RemovePlace(s) PROVE NameInv'
<1> DEFINE p == Ask[s].place
           w == [Nothing EXCEPT !.gone = {p}]
<1>1. /\ s \in Requests /\ s \notin Drafts /\ s \notin Reaches
      /\ pc[s] = "listed" /\ Ask[s].does = "removes" /\ ~Drawing(s, p)
  BY KindsApart DEF RemovePlace
<1>2. CASE Fails(s, "failed")
  BY <1>1, <1>2, FailsKeep
<1>3. CASE /\ BinsIn(p) = {} /\ Writes(s, w) /\ Goes(s, "done")
           /\ UNCHANGED <<places, cell, editors, reads, lock, saved, outcome>>
  <2>1. Elsewhere(s) /\ pc'[s] = "done"
    BY <1>1, <1>3, GoesAlone DEF reads
  <2>2. OwnInv(s)
    BY <1>1 DEF NameInv
  <2>3. work'[s] = w
    BY <1>1, <1>3, WritesIs
  <2>4. /\ DOMAIN w = {"places", "cells", "gone"} /\ DOMAIN w.places = {} /\ DOMAIN w.cells = {}
        /\ w.gone = {p}
    BY DEF Nothing
  <2> HIDE DEF w
  <2>5. rows'[s] = rows[s] /\ places' = places /\ cell' = cell /\ outcome' = outcome
    BY <1>3 DEF reads
  <2>6. ShapeOf(s)'
    <3>1. Shaped(rows'[s]) /\ Shaped(work'[s].places)
      BY <2>2, <2>3, <2>4, <2>5 DEF OwnInv, ShapeOf, Shaped
    <3> QED BY ONLY <1>1, <2>1, <2>2, <2>3, <2>4, <2>5, <3>1 DEF OwnInv, ShapeOf, Shaped
  <2>7. SteadyOf(s)' /\ CellsReadOf(s)'
    BY ONLY <2>3, <2>4 DEF SteadyOf, CellsReadOf
  <2>8. GoneEmptyOf(s)'
    BY <1>1, <1>3, <2>3, <2>4, <2>5 DEF GoneEmptyOf, BinsIn
  <2>9. SaveRowsOf(s)'
    BY <1>1, <2>1, <2>2, <2>5 DEF OwnInv, SaveRowsOf, SameRack, SameEnd
  <2>10. NumberingOf(s)'
    BY ONLY <2>1, <2>3, <2>4 DEF NumberingOf
  <2>11. OwnInv(s)'
    BY <1>1, <2>6, <2>7, <2>8, <2>9, <2>10 DEF OwnInv
  <2>12. ASSUME NEW q \in Requests \ {s} PROVE ApartFrom(s, q)' /\ ApartFrom(q, s)'
    <3>1. work'[q] = work[q] /\ p \notin DOMAIN work[q].places
      BY <1>1, <2>1 DEF Drawing, Elsewhere
    <3> QED BY ONLY <2>3, <2>4, <3>1 DEF ApartFrom
  <2>13. Spared(s)
    <3>1. \A q \in Requests \ {s} : \A b \in DOMAIN work[q].cells :
              work[q].cells[b] # None => work[q].cells[b].place # p
      BY DEF RemovePlace
    <3> QED BY ONLY <2>3, <2>4, <3>1 DEF Spared
  <2>14. \A x \in DOMAIN work'[s].places : FALSE
    BY <2>3, <2>4
  <2> QED BY <1>1, <2>1, <2>5, <2>11, <2>12, <2>13, <2>14, StepKeeps
<1>4. \/ Fails(s, "failed")
      \/ /\ BinsIn(p) = {} /\ Writes(s, w) /\ Goes(s, "done")
         /\ UNCHANGED <<places, cell, editors, reads, lock, saved, outcome>>
  BY DEF RemovePlace
<1> QED BY <1>2, <1>3, <1>4

\* The cell a name is on.
LEMMA NamedCell ==
    ASSUME NEW p, NEW id, NEW b, Spells(p, b) # {}
    PROVE  ReadsIn(p, b, In(id, CHOOSE c \in Spells(p, b) : TRUE)) /\ In(id, CHOOSE c \in Spells(p, b) : TRUE).place = id
<1> DEFINE c == CHOOSE x \in Spells(p, b) : TRUE
<1>1. c \in Spells(p, b)
  OBVIOUS
<1> HIDE DEF c
<1>2. p.rack = Code[b].rack /\ Label(p.grid, c[1], c[2]) = Code[b].bay
  BY <1>1 DEF Spells
<1>3. In(id, c).place = id /\ In(id, c).side = c[1] /\ In(id, c).bay = c[2]
  BY DEF In
<1> QED BY ONLY <1>2, <1>3 DEF ReadsIn, c

LEMMA RenumberKeeps ==
    ASSUME NameInv, SaveInv, NEW s \in Saves, Renumber(s) PROVE NameInv'
<1> DEFINE p == Ask[s].place
           to(b) == In(p, CHOOSE c \in Spells(Seen(s)[p], b) : TRUE)
           M == {[bin |-> b, to |-> In(p, CHOOSE c \in Spells(Seen(s)[p], b) : TRUE)] : b \in listed[s]}
           off == [b \in BinsIn(p) |-> None]
           C == Over([b \in {m.bin : m \in M} |-> (CHOOSE m \in M : m.bin = b).to], off)
           w == [work[s] EXCEPT !.cells = C]
<1>1. /\ s \in Requests /\ s \notin Drafts /\ s \notin Reaches
      /\ pc[s] = "listed" /\ Ask[s].does # "removes"
  BY KindsApart DEF Renumber
<1>2. CASE Fails(s, "failed")
  BY <1>1, <1>2, FailsKeep
<1>3. CASE /\ Writes(s, w) /\ Goes(s, "done")
           /\ UNCHANGED <<places, cell, editors, reads, lock, saved, outcome>>
  <2>1. Elsewhere(s) /\ pc'[s] = "done"
    BY <1>1, <1>3, GoesAlone DEF reads
  <2>2. /\ OwnInv(s) /\ p \in DOMAIN work[s].places /\ DOMAIN work[s].cells = {}
        /\ Ask[s].does \in {"moves", "flips"} /\ DOMAIN work[s].places \subseteq {p}
        /\ listed[s] \subseteq Bins /\ \A b \in listed[s] : Spells(work[s].places[p], b) # {}
    BY <1>1 DEF NameInv, OwnInv, NumberingOf
  <2>3. work[s].gone = {} /\ DOMAIN work[s] = {"places", "cells", "gone"}
    BY <2>2 DEF OwnInv, GoneEmptyOf, ShapeOf
  <2>4. work'[s] = w
    BY <1>1, <1>3, WritesIs
  <2>5. DOMAIN w = {"places", "cells", "gone"} /\ w.places = work[s].places /\ w.cells = C /\ w.gone = {}
    <3> HIDE DEF C
    <3> QED BY <2>3
  <2>6. Seen(s)[p] = work[s].places[p]
    BY <2>2, <2>3, SeenIs
  <2>7. ASSUME NEW b \in DOMAIN C
        PROVE  C[b] # None => C[b].place = p /\ ReadsIn(work[s].places[p], b, C[b])
    <3>1. CASE b \in {m.bin : m \in M}
      <4>1. b \in listed[s] /\ [bin |-> b, to |-> to(b)] \in M
        BY <3>1
      <4>2. C[b] = (CHOOSE m \in M : m.bin = b).to
        BY <3>1 DEF Over
      <4>3. (CHOOSE m \in M : m.bin = b) = [bin |-> b, to |-> to(b)]
        <5>1. \A m \in M : m.bin = b => m = [bin |-> b, to |-> to(b)]
          OBVIOUS
        <5> HIDE DEF M, to
        <5>2. [bin |-> b, to |-> to(b)].bin = b
          OBVIOUS
        <5> QED BY <4>1, <5>1, <5>2
      <4>4. C[b] = to(b)
        <5> DEFINE m1 == CHOOSE m \in M : m.bin = b
        <5>1. m1 = [bin |-> b, to |-> to(b)] /\ C[b] = m1.to
          BY <4>2, <4>3
        <5> HIDE DEF m1, M, to, C
        <5> QED BY ONLY <5>1
      <4>5. to(b).place = p /\ ReadsIn(work[s].places[p], b, to(b))
        <5>1. Spells(Seen(s)[p], b) # {}
          BY <2>2, <2>6, <4>1
        <5> QED BY ONLY <2>6, <5>1, NamedCell
      <4> HIDE DEF M, to, C
      <4> QED BY <4>4, <4>5
    <3>2. CASE b \notin {m.bin : m \in M}
      BY <3>2 DEF Over
    <3> QED BY <3>1, <3>2
  <2>8. BinsIn(p) \subseteq DOMAIN C
    BY DEF Over
  <2> HIDE DEF w, C
  <2>9. rows'[s] = rows[s] /\ places' = places /\ cell' = cell /\ outcome' = outcome
    BY <1>3 DEF reads
  <2>10. ShapeOf(s)'
    <3>1. Shaped(rows'[s]) /\ Shaped(work'[s].places)
      BY <2>2, <2>4, <2>5, <2>9 DEF OwnInv, ShapeOf
    <3> QED BY ONLY <1>1, <2>1, <2>2, <2>4, <2>5, <2>9, <3>1 DEF OwnInv, ShapeOf, Shaped
  <2>11. SteadyOf(s)'
    BY ONLY <2>2, <2>4, <2>5, <2>9 DEF OwnInv, SteadyOf, SameRack, SameEnd
  <2>12. CellsReadOf(s)'
    BY ONLY <1>1, <2>2, <2>4, <2>5, <2>7 DEF CellsReadOf, WroteIn, ReadsIn
  <2>13. GoneEmptyOf(s)'
    BY ONLY <2>4, <2>5 DEF GoneEmptyOf
  <2>14. SaveRowsOf(s)'
    BY <1>1, <2>1, <2>2, <2>9 DEF OwnInv, SaveRowsOf, SameRack, SameEnd
  <2>15. NumberingOf(s)'
    <3>1. BinsIn(p)' = BinsIn(p)
      BY <2>9 DEF BinsIn
    <3> HIDE DEF BinsIn
    <3> QED BY ONLY <2>1, <2>2, <2>4, <2>5, <2>8, <3>1 DEF NumberingOf, p
  <2>16. OwnInv(s)'
    BY <1>1, <2>10, <2>11, <2>12, <2>13, <2>14, <2>15 DEF OwnInv
  <2>17. ASSUME NEW q \in Requests \ {s} PROVE ApartFrom(s, q)' /\ ApartFrom(q, s)'
    <3>1. work'[q] = work[q] /\ ApartFrom(s, q) /\ ApartFrom(q, s)
      BY <1>1, <2>1 DEF Elsewhere, NameInv, RowsApart
    <3> QED BY ONLY <2>3, <2>4, <2>5, <3>1 DEF ApartFrom
  <2>18. Spared(s)
    BY <2>4, <2>5, <1>1, SparedNow
  <2>19. \A x \in DOMAIN work'[s].places : x \in DOMAIN work[s].places
    BY <2>4, <2>5
  <2> QED BY <1>1, <2>1, <2>9, <2>16, <2>17, <2>18, <2>19, StepKeeps
<1>4. \/ Fails(s, "failed")
      \/ /\ Writes(s, w) /\ Goes(s, "done")
         /\ UNCHANGED <<places, cell, editors, reads, lock, saved, outcome>>
  BY DEF Renumber
<1> QED BY <1>2, <1>3, <1>4

------------------------------------------------------------------------------
(* What a draft plans and writes *)

\* What is planned for a family of bins has a cell of each one's name.
LEMMA FamilySpells ==
    ASSUME NEW k, NEW B \in SUBSET Bins, \A b \in B : Code[b].rack = k, NEW g, NEW right,
           g = GridOf({Code[b].bay : b \in B}) \/ g = TwoSides(GridOf({Code[b].bay : b \in B}))
    PROVE  /\ DOMAIN [g EXCEPT !.right = right] = GridFields
           /\ \A b \in B : Spells([rack |-> k, grid |-> [g EXCEPT !.right = right]], b) # {}
<1> DEFINE N == {Code[b].bay : b \in B}
           h == [g EXCEPT !.right = right]
<1>1. N \in SUBSET Nat /\ IsFiniteSet(N)
  <2>1. IsFiniteSet(B)
    BY DrawnAssumption, FS_Subset DEF DrawnAssumption
  <2> DEFINE f == [b \in B |-> Code[b].bay]
  <2>2. f \in Surjection(B, N)
    BY DEF Surjection
  <2>3. IsFiniteSet(N)
    <3> HIDE DEF f, N
    <3> QED BY <2>1, <2>2, FS_Surjection
  <2> QED BY <2>3, DrawnAssumption DEF DrawnAssumption
<1>2. DOMAIN GridOf(N) = GridFields
  BY DEF GridOf, GridFields
<1>3. DOMAIN TwoSides(GridOf(N)) = GridFields
  <2> HIDE DEF N
  <2> QED BY <1>2 DEF TwoSides
<1>4. DOMAIN g = GridFields /\ (g = GridOf(N) \/ g = TwoSides(GridOf(N)))
  BY <1>2, <1>3
<1>5. DOMAIN h = GridFields /\ h.sides = g.sides /\ h.bays = g.bays
  <2> HIDE DEF N
  <2> QED BY <1>4 DEF GridFields
<1>6. ASSUME NEW b \in B PROVE Spells([rack |-> k, grid |-> h], b) # {}
  <2>1. Code[b].bay \in N /\ Code[b].rack = k
    OBVIOUS
  <2> HIDE DEF N
  <2> DEFINE n == Code[b].bay
  <2> HIDE DEF n
  <2>2. n \in N
    BY <2>1 DEF n
  <2>3. PICK c \in (1..g.sides) \X (1..g.bays) : Label(h, c[1], c[2]) = Code[b].bay
    <3>1. \E c \in (1..g.sides) \X (1..g.bays) : Label([g EXCEPT !.right = right], c[1], c[2]) = n
      BY ONLY <1>1, <1>4, <2>2, NumbersSpell
    <3> QED BY <3>1 DEF n
  <2> HIDE DEF h
  <2>4. c \in Spells([rack |-> k, grid |-> h], b)
    BY <1>5, <2>1, <2>3 DEF Spells
  <2> QED BY <2>4
<1> QED BY <1>5, <1>6

LEMMA PlanKeeps ==
    ASSUME NameInv, NEW d \in Drafts, Plan(d) PROVE NameInv'
<1> DEFINE waiting == {b \in Bins : cell[b] = None}
           named(b) == {p \in DOMAIN rows[d] : Spells(rows[d][p], b) # {}}
           where(b) == LET p == CHOOSE q \in named(b) : TRUE
                       IN  In(p, CHOOSE c \in Spells(rows[d][p], b) : TRUE)
           fill == {b \in waiting : named(b) # {} /\ \A x \in Bins : cell[x] # where(b)}
           family(k) == {b \in waiting \ fill : Code[b].rack = k}
           name(k) == Unused(Within(rows[d], Container(d)), k)
           proposed == {k \in Racks : family(k) # {}}
           grid(k) == LET g == GridOf({Code[b].bay : b \in family(k)})
                          h == IF name(k) \in Ask[d].two THEN TwoSides(g) ELSE g
                      IN  [h EXCEPT !.right = name(k) \in Ask[d].right]
           F == {[bin |-> b, to |-> where(b)] : b \in fill}
           K == {[rack |-> k, name |-> name(k), grid |-> grid(k), bins |-> family(k)] :
                   k \in {j \in proposed : name(j) \notin Ask[d].out}}
<1>1. d \in Requests /\ d \notin Saves /\ d \notin Reaches /\ pc[d] = "read"
  BY KindsApart DEF Plan
<1>2. CASE Fails(d, "refused")
  BY <1>1, <1>2, FailsKeep
<1>3. CASE /\ plan' = [plan EXCEPT ![d] = [fill |-> F, make |-> K]] /\ Goes(d, "listed")
           /\ UNCHANGED <<places, cell, editors, before, rows, listed, lock, saved, work, outcome>>
  <2>1. Elsewhere(d) /\ pc'[d] = "listed"
    <3> HIDE DEF F, K
    <3> QED BY <1>1, <1>3, GoesAlone
  <2>2. OwnInv(d) /\ work[d] = Nothing
    BY <1>1 DEF NameInv, OwnInv, ShapeOf
  <2>3. plan'[d].fill = F /\ plan'[d].make = K
    <3> HIDE DEF F, K
    <3> QED BY <1>3 DEF NameInv, Tables
  <2>4. ShapeOf(d)'
    BY <1>1, <1>3, <2>1, <2>2, NothingIs DEF OwnInv, ShapeOf, Shaped
  <2>5. SteadyOf(d)' /\ CellsReadOf(d)'
    BY <1>3, <2>2, NothingIs DEF SteadyOf, CellsReadOf
  <2>6. DraftRowsOf(d)'
    BY <1>3, <2>2 DEF OwnInv, DraftRowsOf, SameRack
  <2>7. FillReadOf(d)'
    <3>1. ASSUME NEW b \in fill
          PROVE  b \in Bins /\ where(b).place \in DOMAIN rows[d] /\ ReadsIn(rows[d][where(b).place], b, where(b))
      <4> DEFINE q == CHOOSE p \in named(b) : TRUE
      <4>1. q \in named(b) /\ b \in Bins
        OBVIOUS
      <4>2. q \in DOMAIN rows[d] /\ Spells(rows[d][q], b) # {}
        BY <4>1
      <4>3. where(b) = In(q, CHOOSE c \in Spells(rows[d][q], b) : TRUE)
        OBVIOUS
      <4> HIDE DEF q, where
      <4>4. where(b).place = q /\ ReadsIn(rows[d][q], b, where(b))
        BY ONLY <4>2, <4>3, NamedCell
      <4> QED BY <4>1, <4>2, <4>4
    <3> HIDE DEF where, fill
    <3>2. ASSUME NEW m \in F
          PROVE  /\ m.bin \in Bins /\ m = [bin |-> m.bin, to |-> m.to]
                 /\ m.to.place \in DOMAIN rows[d] /\ ReadsIn(rows[d][m.to.place], m.bin, m.to)
      BY <3>1
    <3> HIDE DEF F
    <3> QED BY <1>3, <2>1, <2>3, <3>2 DEF FillReadOf, ReadsIn
  <2>8. MakeReadOf(d)'
    <3>1. ASSUME NEW k
          PROVE  /\ family(k) \subseteq Bins /\ DOMAIN grid(k) = GridFields
                 /\ \A b \in family(k) : Spells([rack |-> k, grid |-> grid(k)], b) # {}
      <4> DEFINE g == GridOf({Code[b].bay : b \in family(k)})
                 h == IF name(k) \in Ask[d].two THEN TwoSides(g) ELSE g
                 right == name(k) \in Ask[d].right
      <4>1. family(k) \in SUBSET Bins /\ \A b \in family(k) : Code[b].rack = k
        OBVIOUS
      <4>2. grid(k) = [h EXCEPT !.right = right]
        OBVIOUS
      <4> HIDE DEF family, grid, name
      <4>3. h = g \/ h = TwoSides(g)
        OBVIOUS
      <4> DEFINE B == family(k)
      <4> HIDE DEF h, right, B
      <4>4. B \in SUBSET Bins /\ (\A b \in B : Code[b].rack = k)
            /\ (h = GridOf({Code[b].bay : b \in B}) \/ h = TwoSides(GridOf({Code[b].bay : b \in B})))
        BY <4>1, <4>3 DEF B
      <4>5. /\ DOMAIN [h EXCEPT !.right = right] = GridFields
            /\ \A b \in B : Spells([rack |-> k, grid |-> [h EXCEPT !.right = right]], b) # {}
        BY ONLY <4>4, FamilySpells
      <4> QED BY <4>1, <4>2, <4>5 DEF B
    <3> HIDE DEF family, grid, name
    <3>2. ASSUME NEW m \in K
          PROVE  /\ m.rack \in Racks /\ DOMAIN m.grid = GridFields
                 /\ m.bins \subseteq Bins /\ \A b \in m.bins : Spells([rack |-> m.rack, grid |-> m.grid], b) # {}
                 /\ \A n \in K : m.rack = n.rack => m = n
      <4>1. \A n \in K : n = [rack |-> n.rack, name |-> name(n.rack), grid |-> grid(n.rack), bins |-> family(n.rack)]
        OBVIOUS
      <4>2. m.rack \in Racks /\ m.grid = grid(m.rack) /\ m.bins = family(m.rack)
        OBVIOUS
      <4> HIDE DEF K
      <4>3. \A n \in K : m.rack = n.rack => m = n
        BY <4>1
      <4> QED BY <3>1, <4>2, <4>3
    <3> HIDE DEF K
    <3> QED BY ONLY <1>3, <2>1, <2>3, <3>2 DEF MakeReadOf, Spells
  <2>9. OwnInv(d)'
    BY <1>1, <2>4, <2>5, <2>6, <2>7, <2>8 DEF OwnInv
  <2> HIDE DEF F, K
  <2> QED BY <1>1, <1>3, <2>1, <2>9, QuietKeeps
<1>4. \/ Fails(d, "refused")
      \/ /\ plan' = [plan EXCEPT ![d] = [fill |-> F, make |-> K]] /\ Goes(d, "listed")
         /\ UNCHANGED <<places, cell, editors, before, rows, listed, lock, saved, work, outcome>>
  BY DEF Plan
<1> QED BY <1>2, <1>3, <1>4

\* What a bin is put in is what was found for it, or what it was put in before.
LEMMA PutsIs ==
    ASSUME NEW r, NEW M, NEW b \in DOMAIN Puts(r, M)
    PROVE  \/ \E m \in StillOut(r, M) : m.bin = b /\ Puts(r, M)[b] = m.to
           \/ b \in DOMAIN work[r].cells /\ Puts(r, M)[b] = work[r].cells[b]
<1> DEFINE out == StillOut(r, M)
           f == [x \in {m.bin : m \in out} |-> (CHOOSE m \in out : m.bin = x).to]
<1>1. Puts(r, M) = Over(f, work[r].cells)
  BY DEF Puts
<1>2. CASE b \in {m.bin : m \in out}
  <2> DEFINE m1 == CHOOSE m \in out : m.bin = b
  <2>1. m1 \in out /\ m1.bin = b
    BY <1>2
  <2>2. Over(f, work[r].cells)[b] = m1.to
    BY <1>2 DEF Over
  <2> HIDE DEF m1, out, f
  <2> QED BY <1>1, <2>1, <2>2 DEF out
<1>3. CASE b \notin {m.bin : m \in out}
  <2>1. b \in DOMAIN work[r].cells /\ Over(f, work[r].cells)[b] = work[r].cells[b]
    BY <1>1, <1>3 DEF Over
  <2> QED BY <1>1, <2>1
<1> QED BY <1>2, <1>3

LEMMA FillKeeps ==
    ASSUME NameInv, SaveInv, NEW d \in Drafts, Fill(d) PROVE NameInv'
<1> DEFINE M == plan[d].fill
           C == Puts(d, M)
           w == [work[d] EXCEPT !.cells = C]
           on == IF plan[d].make = {} THEN "done" ELSE "put"
<1>1. d \in Requests /\ d \notin Saves /\ d \notin Reaches /\ pc[d] = "listed" /\ ~Waits(d, M)
  BY KindsApart DEF Fill
<1>2. CASE Fails(d, "failed")
  BY <1>1, <1>2, FailsKeep
<1>3. CASE /\ ~Collides(d, M) /\ Writes(d, w) /\ Goes(d, on)
           /\ UNCHANGED <<places, cell, editors, reads, lock, saved, outcome>>
  <2>1. Elsewhere(d) /\ pc'[d] = on /\ on \in {"put", "done"}
    BY <1>1, <1>3, GoesAlone DEF reads
  <2>2. OwnInv(d) /\ work[d] = Nothing
    BY <1>1 DEF NameInv, OwnInv, ShapeOf
  <2>3. work'[d] = w
    BY <1>1, <1>3, WritesIs
  <2>4. /\ DOMAIN w = {"places", "cells", "gone"} /\ DOMAIN w.places = {} /\ w.gone = {}
        /\ w.cells = C
    <3> HIDE DEF C
    <3> QED BY <2>2, NothingIs
  <2>5. DOMAIN Seen(d) = DOMAIN places
    BY <2>2, NothingIs DEF Seen
  <2>6. ASSUME NEW b \in DOMAIN C PROVE FillsIn(d, b, C[b])
    <3>1. PICK m \in StillOut(d, M) : m.bin = b /\ C[b] = m.to
      BY <2>2, NothingIs, PutsIs
    <3>2. m \in M /\ m = [bin |-> m.bin, to |-> m.to]
      BY <2>2, <3>1 DEF StillOut, OwnInv, FillReadOf
    <3>3. m.to.place \in DOMAIN places
      BY <1>3, <2>5, <3>1 DEF Collides
    <3>4. \A q \in Requests \ {d} : m.to.place \notin work[q].gone
      BY <1>1, <3>1 DEF Waits
    <3>5. m.to.place \notin work[d].gone
      BY <2>2, NothingIs
    <3> HIDE DEF C
    <3> QED BY <3>1, <3>2, <3>3, <3>4, <3>5 DEF FillsIn
  <2> HIDE DEF w, C, on
  <2>7. rows'[d] = rows[d] /\ places' = places /\ cell' = cell /\ outcome' = outcome /\ plan' = plan
    BY <1>3 DEF reads
  <2>8. ShapeOf(d)'
    <3>1. Shaped(rows'[d]) /\ Shaped(work'[d].places)
      BY <2>2, <2>3, <2>4, <2>7 DEF OwnInv, ShapeOf, Shaped
    <3> QED BY ONLY <1>1, <2>1, <2>2, <2>3, <2>4, <2>7, <3>1 DEF OwnInv, ShapeOf, Shaped
  <2>9. SteadyOf(d)'
    BY ONLY <2>3, <2>4 DEF SteadyOf
  <2>10. \A q \in Requests : work'[q].gone = work[q].gone
    BY <2>1, <2>2, <2>3, <2>4, NothingIs DEF Elsewhere
  <2>11. CellsReadOf(d)'
    BY ONLY <2>3, <2>4, <2>6, <2>7, <2>10 DEF CellsReadOf, FillsIn
  <2>12. DraftRowsOf(d)' /\ FillReadOf(d)' /\ MakeReadOf(d)'
    <3>1. DraftRowsOf(d)'
      BY ONLY <2>2, <2>7, d \in Drafts DEF OwnInv, DraftRowsOf, SameRack
    <3>2. FillReadOf(d)'
      BY ONLY <2>1, <2>2, <2>7, d \in Drafts DEF OwnInv, FillReadOf, ReadsIn
    <3>3. MakeReadOf(d)'
      BY ONLY <2>1, <2>2, <2>7, d \in Drafts DEF OwnInv, MakeReadOf
    <3> QED BY <3>1, <3>2, <3>3
  <2>13. OwnInv(d)'
    BY <1>1, <2>8, <2>9, <2>11, <2>12 DEF OwnInv
  <2>14. ASSUME NEW q \in Requests \ {d} PROVE ApartFrom(d, q)' /\ ApartFrom(q, d)'
    BY ONLY <2>3, <2>4 DEF ApartFrom
  <2>15. Spared(d)
    BY <2>3, <2>4, <1>1, SparedNow
  <2>16. \A x \in DOMAIN work'[d].places : FALSE
    BY <2>3, <2>4
  <2> QED BY <1>1, <2>1, <2>7, <2>13, <2>14, <2>15, <2>16, StepKeeps
<1>4. \/ Fails(d, "failed")
      \/ /\ ~Collides(d, M) /\ Writes(d, w) /\ Goes(d, on)
         /\ UNCHANGED <<places, cell, editors, reads, lock, saved, outcome>>
  BY DEF Fill
<1> QED BY <1>2, <1>3, <1>4

\* What a request has removed is a place its save read.
LEMMA GoneRead ==
    ASSUME NameInv, NEW q \in Requests, NEW x \in work[q].gone
    PROVE  /\ q \in Saves /\ x = Ask[q].place /\ x \in DOMAIN rows[q]
           /\ pc[q] \notin {"new", "begun", "checked", "read", "ended"}
<1>1. OwnInv(q)
  BY DEF NameInv
<1>2. pc[q] \notin {"new", "begun", "checked", "read", "ended"}
  BY <1>1, NothingIs DEF OwnInv, ShapeOf
<1>3. q \in Saves
  BY <1>1, <1>2 DEF OwnInv, ShapeOf, Requests
<1>4. x = Ask[q].place /\ Ask[q].does = "removes"
  BY <1>1, <1>3 DEF OwnInv, GoneEmptyOf
<1> QED BY <1>1, <1>2, <1>3, <1>4 DEF OwnInv, SaveRowsOf

\* An id a draft mints is of no place another writes or removes.
LEMMA MintedApart ==
    ASSUME NameInv, NEW d \in Drafts, pc[d] # "ended", NEW x \in Minted(d), NEW q \in Requests, q # d
    PROVE  x \notin work[q].gone /\ x \notin DOMAIN work[q].places /\ x \notin DOMAIN places
BY GoneRead DEF NameInv, FreshIds

\* The place around what a draft makes is one it makes, or one that was there.
LEMMA AroundIs ==
    ASSUME NameInv, NEW d \in Drafts, NEW grows, NEW outer, outer \in DOMAIN places
    PROVE  LET around == [places[outer] EXCEPT !.box = IF grows THEN d ELSE @] IN
           /\ DOMAIN around = PlaceFields /\ DOMAIN around.grid = GridFields
           /\ around.rack = places[outer].rack /\ SameRack(around, places[outer]) /\ SameEnd(around, places[outer])
<1>1. DOMAIN places[outer] = PlaceFields /\ DOMAIN places[outer].grid = GridFields
  BY DEF NameInv, Tables, Shaped
<1>2. PICK v : v = IF grows THEN d ELSE places[outer].box
  OBVIOUS
<1> DEFINE around == [places[outer] EXCEPT !.box = v]
<1>3. DOMAIN around = PlaceFields /\ around.rack = places[outer].rack /\ around.grid = places[outer].grid
  BY ONLY <1>1 DEF PlaceFields
<1> HIDE DEF around
<1>4. /\ DOMAIN around = PlaceFields /\ DOMAIN around.grid = GridFields
      /\ around.rack = places[outer].rack /\ SameRack(around, places[outer]) /\ SameEnd(around, places[outer])
  BY ONLY <1>1, <1>3 DEF SameRack, SameEnd
<1> QED BY <1>2, <1>4 DEF around

LEMMA MakeKeeps ==
    ASSUME NameInv, SaveInv, NEW d \in Drafts, NEW grows \in BOOLEAN, Make(d, grows) PROVE NameInv'
<1> DEFINE outer == Container(d)
           top == outer = <<d, "building">>
           around == IF top
                     THEN [inside |-> None, name |-> Unused(Within(rows[d], None), "building"),
                           solid |-> FALSE, box |-> d, rack |-> None, reach |-> 1,
                           grid |-> [bays |-> 1, levels |-> 1, first |-> 1, step |-> 1, sides |-> 1,
                                     right |-> FALSE]]
                     ELSE [places[outer] EXCEPT !.box = IF grows THEN d ELSE @]
           racks == [x \in {<<d, m.rack>> : m \in plan[d].make} |->
                       LET m == CHOOSE n \in plan[d].make : <<d, n.rack>> = x IN
                       [inside |-> outer, name |-> m.name, solid |-> TRUE, box |-> d,
                        rack |-> m.rack, reach |-> 1, grid |-> m.grid]]
           made == Over(racks, Only(outer, around))
           M == UNION {LET x == <<d, m.rack>> IN
                       {[bin |-> b, to |-> In(x, CHOOSE c \in Spells(racks[x], b) : TRUE)] :
                           b \in m.bins} : m \in plan[d].make}
           C == Puts(d, M)
           w == [work[d] EXCEPT !.places = made, !.cells = C]
<1>1. d \in Requests /\ d \notin Saves /\ d \notin Reaches /\ pc[d] = "put" /\ (~top => ~Drawing(d, outer))
  BY KindsApart DEF Make
<1>2. CASE Fails(d, "failed")
  BY <1>1, <1>2, FailsKeep
<1>3. CASE /\ top \/ outer \in DOMAIN places
           /\ Writes(d, w) /\ Goes(d, "done")
           /\ UNCHANGED <<places, cell, editors, reads, lock, saved, outcome>>
  <2>1. Elsewhere(d) /\ pc'[d] = "done"
    BY <1>1, <1>3, GoesAlone DEF reads
  <2>2. OwnInv(d) /\ DOMAIN work[d].places = {} /\ work[d].gone = {} /\ DOMAIN work[d] = {"places", "cells", "gone"}
    BY <1>1 DEF NameInv, OwnInv, ShapeOf
  <2>3. work'[d] = w
    BY <1>1, <1>3, WritesIs
  <2>4. DOMAIN w = {"places", "cells", "gone"} /\ w.places = made /\ w.gone = {} /\ w.cells = C
    <3> HIDE DEF C, made
    <3> QED BY <2>2
  <2>5. /\ DOMAIN made = {<<d, m.rack>> : m \in plan[d].make} \cup {outer}
        /\ \A x \in {<<d, m.rack>> : m \in plan[d].make} : made[x] = racks[x]
        /\ \A x \in DOMAIN made : made[x] = around \/ x \in {<<d, m.rack>> : m \in plan[d].make}
    <3> HIDE DEF racks, around
    <3>1. DOMAIN racks = {<<d, m.rack>> : m \in plan[d].make}
      BY DEF racks
    <3> QED BY <3>1 DEF Over, Only
  <2>6. ASSUME NEW m \in plan[d].make
        PROVE  /\ <<d, m.rack>> \in Minted(d)
               /\ DOMAIN racks[<<d, m.rack>>] = PlaceFields
               /\ racks[<<d, m.rack>>].rack = m.rack /\ racks[<<d, m.rack>>].grid = m.grid
               /\ DOMAIN m.grid = GridFields /\ \A b \in m.bins : Spells(racks[<<d, m.rack>>], b) # {}
    <3>1. /\ m.rack \in Racks /\ DOMAIN m.grid = GridFields
          /\ \A b \in m.bins : Spells([rack |-> m.rack, grid |-> m.grid], b) # {}
          /\ \A n \in plan[d].make : m.rack = n.rack => m = n
      BY <2>2 DEF OwnInv, MakeReadOf
    <3>2. (CHOOSE n \in plan[d].make : <<d, n.rack>> = <<d, m.rack>>) = m
      BY <3>1
    <3> DEFINE x == <<d, m.rack>>
               n1 == CHOOSE n \in plan[d].make : <<d, n.rack>> = x
               R == [inside |-> outer, name |-> n1.name, solid |-> TRUE, box |-> d,
                     rack |-> n1.rack, reach |-> 1, grid |-> n1.grid]
    <3>3. racks[x] = R
      <4>1. x \in {<<d, k.rack>> : k \in plan[d].make}
        OBVIOUS
      <4> HIDE DEF x, outer
      <4> QED BY <4>1
    <3>4. DOMAIN R = PlaceFields /\ R.rack = n1.rack /\ R.grid = n1.grid
      <4> HIDE DEF n1, outer
      <4> QED BY DEF PlaceFields
    <3>5. n1 = m
      BY <3>2
    <3> HIDE DEF R, n1, racks
    <3>6. DOMAIN racks[x] = PlaceFields /\ racks[x].rack = m.rack /\ racks[x].grid = m.grid
      BY <3>3, <3>4, <3>5
    <3>7. \A b \in m.bins : Spells(racks[x], b) = Spells([rack |-> m.rack, grid |-> m.grid], b)
      <4> HIDE DEF x
      <4> QED BY <3>6 DEF Spells
    <3> QED BY <3>1, <3>6, <3>7 DEF Minted
  <2>7. top => outer \in Minted(d) /\ around.rack = None /\ DOMAIN around = PlaceFields /\ DOMAIN around.grid = GridFields
    BY DEF Minted, PlaceFields, GridFields
  <2>8. ~top => /\ outer \in DOMAIN places /\ DOMAIN around = PlaceFields /\ DOMAIN around.grid = GridFields
                /\ around.rack = places[outer].rack /\ SameRack(around, places[outer]) /\ SameEnd(around, places[outer])
    BY <1>3, AroundIs
  <2>9. ASSUME NEW m \in M
        PROVE  /\ m = [bin |-> m.bin, to |-> m.to] /\ m.to.place \in DOMAIN made /\ m.to.place \in Minted(d)
               /\ ReadsIn(made[m.to.place], m.bin, m.to)
    <3>1. PICK n \in plan[d].make : \E b \in n.bins :
              m = [bin |-> b, to |-> In(<<d, n.rack>>, CHOOSE c \in Spells(racks[<<d, n.rack>>], b) : TRUE)]
      <4> HIDE DEF racks
      <4> QED OBVIOUS
    <3> HIDE DEF racks, made, M
    <3>2. PICK b \in n.bins :
              m = [bin |-> b, to |-> In(<<d, n.rack>>, CHOOSE c \in Spells(racks[<<d, n.rack>>], b) : TRUE)]
      BY <3>1
    <3> DEFINE x == <<d, n.rack>>
               to == In(x, CHOOSE c \in Spells(racks[x], b) : TRUE)
    <3>3. x \in Minted(d) /\ Spells(racks[x], b) # {}
      BY <2>6
    <3>4. x \in DOMAIN made /\ made[x] = racks[x]
      BY <2>5
    <3>5. m = [bin |-> b, to |-> to]
      BY <3>2
    <3> HIDE DEF x
    <3>6. ReadsIn(racks[x], b, to) /\ to.place = x
      BY ONLY <3>3, NamedCell
    <3> HIDE DEF to
    <3> QED BY ONLY <3>3, <3>4, <3>5, <3>6
  <2> HIDE DEF M, racks, around
  <2>10. rows'[d] = rows[d] /\ places' = places /\ cell' = cell /\ outcome' = outcome /\ plan' = plan
    BY <1>3 DEF reads
  <2>11. \A q \in Requests : work'[q].gone = work[q].gone
    BY <2>1, <2>2, <2>3, <2>4 DEF Elsewhere
  <2>12. ASSUME NEW x \in DOMAIN made
         PROVE  /\ DOMAIN made[x] = PlaceFields /\ DOMAIN made[x].grid = GridFields
                /\ x \in Minted(d) \/ (~top /\ x = outer /\ made[x] = around)
    <3> HIDE DEF made
    <3> QED BY <2>5, <2>6, <2>7, <2>8
  <2> HIDE DEF made
  <2>13. \A x \in Minted(d) : x \notin DOMAIN places /\ x \notin Added
    BY <1>1, IdsApart DEF NameInv, FreshIds
  <2>14. Shaped(made)
    BY <2>8, <2>12, <2>13 DEF Shaped, NameInv, Tables
  <2>15. ASSUME NEW b \in DOMAIN C, C[b] # None
         PROVE  \/ C[b].place \in DOMAIN made /\ C[b].place \in Minted(d) /\ ReadsIn(made[C[b].place], b, C[b])
                \/ FillsIn(d, b, C[b])
    <3>1. \/ \E m \in StillOut(d, M) : m.bin = b /\ C[b] = m.to
          \/ b \in DOMAIN work[d].cells /\ C[b] = work[d].cells[b]
      BY PutsIs
    <3> HIDE DEF C
    <3>2. CASE \E m \in StillOut(d, M) : m.bin = b /\ C[b] = m.to
      <4>1. PICK m \in M : m.bin = b /\ C[b] = m.to
        BY <3>2 DEF StillOut
      <4> QED BY <2>9, <4>1
    <3>3. CASE b \in DOMAIN work[d].cells /\ C[b] = work[d].cells[b]
      <4>1. WroteIn(d, b, C[b]) \/ FillsIn(d, b, C[b])
        BY <2>2, <2>15, <3>3 DEF OwnInv, CellsReadOf
      <4> QED BY <2>2, <4>1 DEF WroteIn
    <3> QED BY <3>1, <3>2, <3>3
  <2> HIDE DEF w, C
  <2>16. ShapeOf(d)'
    <3>1. Shaped(rows'[d]) /\ Shaped(work'[d].places)
      BY <2>2, <2>3, <2>4, <2>10, <2>14 DEF OwnInv, ShapeOf
    <3> QED BY ONLY <1>1, <2>1, <2>2, <2>3, <2>4, <2>10, <3>1 DEF OwnInv, ShapeOf, Shaped
  <2>17. SteadyOf(d)'
    BY ONLY <2>3, <2>4, <2>8, <2>10, <2>12, <2>13, d \in Drafts DEF SteadyOf, SameRack, SameEnd
  <2>18. CellsReadOf(d)'
    BY ONLY <2>3, <2>4, <2>10, <2>11, <2>15, d \in Drafts DEF CellsReadOf, FillsIn, WroteIn, ReadsIn
  <2>19. DraftRowsOf(d)' /\ FillReadOf(d)' /\ MakeReadOf(d)'
    <3>1. DraftRowsOf(d)'
      BY ONLY <2>2, <2>10, d \in Drafts DEF OwnInv, DraftRowsOf, SameRack
    <3>2. FillReadOf(d)'
      BY ONLY <2>1, <2>2, <2>10, d \in Drafts DEF OwnInv, FillReadOf, ReadsIn
    <3>3. MakeReadOf(d)'
      BY ONLY <2>1, <2>2, <2>10, d \in Drafts DEF OwnInv, MakeReadOf
    <3> QED BY <3>1, <3>2, <3>3
  <2>20. OwnInv(d)'
    BY <1>1, <2>16, <2>17, <2>18, <2>19 DEF OwnInv
  <2>21. ASSUME NEW q \in Requests \ {d} PROVE ApartFrom(d, q)' /\ ApartFrom(q, d)'
    <3>1. \A x \in DOMAIN made : x \notin work[q].gone /\ x \notin DOMAIN work[q].places
      BY <1>1, <2>12, MintedApart DEF Drawing
    <3>2. work'[q] = work[q]
      BY <2>1 DEF Elsewhere
    <3> QED BY ONLY <2>3, <2>4, <3>1, <3>2 DEF ApartFrom
  <2>22. Spared(d)
    BY <2>3, <2>4, <1>1, SparedNow
  <2>23. \A x \in DOMAIN work'[d].places : x \in DOMAIN places \/ x \in Minted(d)
    BY <2>3, <2>4, <2>8, <2>12
  <2> QED BY <1>1, <2>1, <2>10, <2>20, <2>21, <2>22, <2>23, StepKeeps
<1>4. \/ Fails(d, "failed")
      \/ /\ top \/ outer \in DOMAIN places
         /\ Writes(d, w) /\ Goes(d, "done")
         /\ UNCHANGED <<places, cell, editors, reads, lock, saved, outcome>>
  BY DEF Make
<1> QED BY <1>2, <1>3, <1>4

------------------------------------------------------------------------------
(* A commit *)

\* r's places and cells are committed.
Lands(r) ==
    /\ NameInv /\ SaveInv /\ pc[r] = "done" /\ Elsewhere(r)
    /\ pc'[r] = "ended" /\ outcome'[r] = "saved" /\ work'[r] = Nothing
    /\ r \in Drafts => Ask[r].apply
    /\ places' = Seen(r) /\ cell' = [b \in Bins |-> CellOf(r, b)]
    /\ UNCHANGED <<rows, plan, listed>>

\* Who has written and goes on is a save or a draft.
LEMMA LandsOf ==
    ASSUME NEW r \in Requests, Lands(r)
    PROVE  /\ OwnInv(r) /\ (r \in Saves \/ r \in Drafts)
           /\ r \in Drafts => work[r].gone = {}
           /\ r \in Saves => /\ \A t \in Saves \ {r} : pc[t] \in {"new", "ended"} /\ work[t] = Nothing
                             /\ work[r].gone # {} => DOMAIN work[r].cells = {} /\ DOMAIN work[r].places = {}
<1>1. OwnInv(r) /\ pc[r] = "done"
  BY DEF Lands, NameInv
<1>2. r \in Saves \/ r \in Drafts
  BY <1>1 DEF OwnInv, ShapeOf, Requests
<1>3. r \in Saves => \A t \in Saves \ {r} : pc[t] \in {"new", "ended"} /\ work[t] = Nothing
  BY <1>1, SaveAlone DEF Lands
<1> QED BY <1>1, <1>2, <1>3 DEF OwnInv, ShapeOf, GoneEmptyOf

\* The places then.
LEMMA LandsIn ==
    ASSUME NEW r \in Requests, Lands(r)
    PROVE  /\ DOMAIN places' = (DOMAIN places \cup DOMAIN work[r].places) \ work[r].gone
           /\ \A p \in DOMAIN places' :
                 places'[p] = IF p \in DOMAIN work[r].places THEN work[r].places[p] ELSE places[p]
           /\ \A b \in Bins : cell'[b] = IF b \in DOMAIN work[r].cells THEN work[r].cells[b] ELSE cell[b]
BY DEF Lands, Seen, CellOf

\* A place that was there is the rack it was, numbered from the end it was but where a save says.
LEMMA LandsAsIs ==
    ASSUME NEW r \in Requests, Lands(r), NEW p \in DOMAIN places' \ Added, p \in DOMAIN places
    PROVE  /\ SameRack(places'[p], places[p])
           /\ SameEnd(places'[p], places[p]) \/ (r \in Saves /\ p = Ask[r].place /\ p \in DOMAIN work[r].places)
<1>1. places'[p] = IF p \in DOMAIN work[r].places THEN work[r].places[p] ELSE places[p]
  BY LandsIn
<1>2. OwnInv(r)
  BY LandsOf
<1>3. CASE p \in DOMAIN work[r].places
  BY <1>1, <1>2, <1>3 DEF OwnInv, SteadyOf
<1>4. CASE p \notin DOMAIN work[r].places
  BY <1>1, <1>4 DEF SameRack, SameEnd
<1> QED BY <1>3, <1>4

\* A new place is one a draft mints, or an editor added.
LEMMA LandsNew ==
    ASSUME NEW r \in Requests, Lands(r), NEW p \in DOMAIN places' \ Added, p \notin DOMAIN places
    PROVE  r \in Drafts /\ p \in Minted(r) /\ \A q \in Requests : p \notin DOMAIN rows[q]
<1>1. OwnInv(r) /\ p \in DOMAIN work[r].places
  BY LandsOf, LandsIn
<1>2. r \in Drafts /\ p \in Minted(r)
  BY <1>1 DEF OwnInv, SteadyOf
<1> QED BY <1>2 DEF Lands, NameInv, FreshIds

\* A bin that moves is where r wrote its name, or a draft has filled its cell.
LEMMA LandsMoved ==
    ASSUME NEW r \in Requests, Lands(r), NEW b \in Bins, b \in DOMAIN work[r].cells, cell'[b] # None
    PROVE  \/ WroteIn(r, b, cell'[b])
           \/ Filled(b)' /\ FillsIn(r, b, cell'[b])
<1>1. cell'[b] = work[r].cells[b]
  BY LandsIn
<1>2. WroteIn(r, b, cell'[b]) \/ FillsIn(r, b, cell'[b])
  BY <1>1, LandsOf DEF OwnInv, CellsReadOf
<1>3. ASSUME FillsIn(r, b, cell'[b]) PROVE Filled(b)'
  BY <1>3 DEF FillsIn, Filled, Lands
<1> QED BY <1>2, <1>3

LEMMA LandsStays ==
    ASSUME NEW r \in Requests, Lands(r), NEW b \in Bins, b \notin DOMAIN work[r].cells
    PROVE  cell'[b] = cell[b] /\ (Filled(b) => Filled(b)')
<1>1. cell'[b] = cell[b]
  BY LandsIn
<1> QED BY <1>1, FilledStays DEF Lands

\* Every bin is still where its name is.
LEMMA LandsNamed ==
    ASSUME NEW r \in Requests, Lands(r) PROVE CellsNamed'
<1> SUFFICES ASSUME NEW b \in Bins, cell'[b] # None
             PROVE  /\ cell'[b].place \in DOMAIN places'
                    /\ \/ places'[cell'[b].place].rack = None
                       \/ ReadsIn(places'[cell'[b].place], b, cell'[b])
                       \/ Filled(b)'
  BY DEF CellsNamed, NamedIn, ReadsIn
<1> DEFINE p == cell'[b].place
<1>1. /\ DOMAIN places' = (DOMAIN places \cup DOMAIN work[r].places) \ work[r].gone
      /\ \A x \in DOMAIN places' :
            places'[x] = IF x \in DOMAIN work[r].places THEN work[r].places[x] ELSE places[x]
  BY LandsIn
<1>2. /\ OwnInv(r) /\ (r \in Saves \/ r \in Drafts) /\ (r \in Drafts => work[r].gone = {})
      /\ r \in Saves /\ work[r].gone # {} => DOMAIN work[r].cells = {} /\ DOMAIN work[r].places = {}
  BY LandsOf
<1>3. CASE b \in DOMAIN work[r].cells
  <2>1. work[r].gone = {}
    BY <1>2, <1>3
  <2>2. CASE WroteIn(r, b, cell'[b])
    BY <1>1, <2>1, <2>2 DEF WroteIn
  <2>3. CASE Filled(b)' /\ FillsIn(r, b, cell'[b])
    BY <1>1, <2>1, <2>3 DEF FillsIn
  <2> QED BY <1>3, <2>2, <2>3, LandsMoved
<1>4. CASE b \notin DOMAIN work[r].cells
  <2>1. cell'[b] = cell[b] /\ (Filled(b) => Filled(b)')
    BY <1>4, LandsStays
  <2>2. /\ p \in DOMAIN places
        /\ places[p].rack = None \/ ReadsIn(places[p], b, cell[b]) \/ Filled(b)
    BY <2>1 DEF Lands, NameInv, CellsNamed, NamedIn
  <2>3. p \notin work[r].gone
    BY <1>2, <2>1 DEF OwnInv, GoneEmptyOf, BinsIn
  <2>4. p \in DOMAIN places'
    BY <1>1, <2>2, <2>3
  <2>5. CASE p \in Added
    <3>1. places'[p].rack = None
      BY <1>1, <1>2, <2>4, <2>5 DEF OwnInv, ShapeOf, Shaped, Lands, NameInv, Tables
    <3> QED BY <2>4, <3>1
  <2>6. CASE p \notin Added
    <3>1. SameRack(places'[p], places[p])
      BY <2>2, <2>4, <2>6, LandsAsIs
    <3>2. CASE SameEnd(places'[p], places[p])
      <4>1. places[p].rack = None => places'[p].rack = None
        BY <3>1 DEF SameRack
      <4>2. ReadsIn(places[p], b, cell[b]) => ReadsIn(places'[p], b, cell[b])
        BY ONLY <3>1, <3>2 DEF ReadsIn, Label, SameRack, SameEnd
      <4> QED BY <2>1, <2>2, <2>4, <4>1, <4>2
    <3>3. CASE ~SameEnd(places'[p], places[p])
      <4>1. r \in Saves /\ p = Ask[r].place /\ p \in DOMAIN work[r].places \ Added
        BY <2>2, <2>4, <2>6, <3>3, LandsAsIs
      <4>2. ~SameEnd(work[r].places[p], places[p])
        BY <1>1, <2>4, <3>3, <4>1
      <4>3. b \in BinsIn(p) \ DOMAIN work[r].cells
        BY <1>4, <2>1 DEF BinsIn
      <4>4. Filled(b)
        BY <1>2, <4>1, <4>2, <4>3 DEF OwnInv, NumberingOf, Lands
      <4> QED BY <2>1, <2>4, <4>4
    <3> QED BY <3>2, <3>3
  <2> QED BY <2>5, <2>6
<1> QED BY <1>3, <1>4

\* What r has removed is not what another has written or puts a bin in.
LEMMA LandsApart ==
    ASSUME NEW r \in Requests, Lands(r), NEW q \in Requests, q # r
    PROVE  /\ pc'[q] = pc[q] /\ work'[q] = work[q] /\ rows'[q] = rows[q] /\ outcome'[q] = outcome[q]
           /\ plan' = plan /\ listed' = listed /\ OwnInv(q)
           /\ \A p \in DOMAIN work[q].places :
                 p \notin work[r].gone /\ (p \notin Added => p \notin DOMAIN work[r].places)
           /\ \A p \in DOMAIN work[r].places : p \notin work[q].gone
           /\ q \in Saves /\ pc[q] \notin {"new", "ended"} => r \in Drafts /\ r \notin Saves
<1>1. ApartFrom(q, r) /\ ApartFrom(r, q) /\ OwnInv(q)
  BY DEF Lands, NameInv, RowsApart
<1>2. q \in Saves /\ pc[q] \notin {"new", "ended"} => r \in Drafts /\ r \notin Saves
  BY LandsOf, KindsApart
<1> QED BY <1>1, <1>2 DEF Lands, Elsewhere, ApartFrom

LEMMA LandsSteady ==
    ASSUME NEW r \in Requests, Lands(r), NEW q \in Requests, q # r PROVE SteadyOf(q)' /\ CellsReadOf(q)'
<1>1. /\ work'[q] = work[q] /\ plan' = plan /\ OwnInv(q)
      /\ \A p \in DOMAIN work[q].places :
            p \notin work[r].gone /\ (p \notin Added => p \notin DOMAIN work[r].places)
  BY LandsApart
<1>2. /\ DOMAIN places' = (DOMAIN places \cup DOMAIN work[r].places) \ work[r].gone
      /\ \A x \in DOMAIN places' :
            places'[x] = IF x \in DOMAIN work[r].places THEN work[r].places[x] ELSE places[x]
  BY LandsIn
<1>3. SteadyOf(q)'
  <2>1. \A p \in DOMAIN work[q].places \ Added :
           (p \in DOMAIN places' <=> p \in DOMAIN places) /\ (p \in DOMAIN places => places'[p] = places[p])
    BY ONLY <1>1, <1>2
  <2> QED BY ONLY <1>1, <2>1 DEF OwnInv, SteadyOf, SameRack, SameEnd
<1>4. CellsReadOf(q)'
  <2> SUFFICES ASSUME NEW b \in DOMAIN work[q].cells, work[q].cells[b] # None
               PROVE  WroteIn(q, b, work[q].cells[b])' \/ FillsIn(q, b, work[q].cells[b])'
    BY <1>1 DEF CellsReadOf, WroteIn, FillsIn
  <2> DEFINE c == work[q].cells[b]
  <2>1. WroteIn(q, b, c) \/ FillsIn(q, b, c)
    BY <1>1 DEF OwnInv, CellsReadOf
  <2>2. CASE WroteIn(q, b, c)
    BY ONLY <1>1, <2>2 DEF WroteIn, ReadsIn
  <2>3. CASE FillsIn(q, b, c)
    <3>1. \A x \in Requests : c.place \notin work[x].gone
      BY <2>3 DEF FillsIn
    <3>2. \A x \in Requests : c.place \notin work'[x].gone
      BY <3>1, NothingIs DEF Lands, Elsewhere
    <3>3. c.place \in DOMAIN places'
      BY <1>2, <2>3, <3>1 DEF FillsIn
    <3> QED BY ONLY <1>1, <2>3, <3>2, <3>3 DEF FillsIn
  <2> QED BY <2>1, <2>2, <2>3, <1>1 DEF WroteIn, FillsIn
<1> QED BY <1>3, <1>4

LEMMA LandsSave ==
    ASSUME NEW r \in Requests, Lands(r), NEW q \in Saves, q # r
    PROVE  SaveRowsOf(q)' /\ GoneEmptyOf(q)' /\ NumberingOf(q)'
<1> DEFINE p == Ask[q].place
<1>1. /\ q \in Requests /\ pc'[q] = pc[q] /\ work'[q] = work[q] /\ rows'[q] = rows[q]
      /\ listed' = listed /\ OwnInv(q)
      /\ \A x \in DOMAIN work[q].places :
            x \notin work[r].gone /\ (x \notin Added => x \notin DOMAIN work[r].places)
      /\ \A x \in DOMAIN work[r].places : x \notin work[q].gone
      /\ pc[q] \notin {"new", "ended"} => r \in Drafts /\ r \notin Saves
  BY KindsApart, LandsApart
<1>2. CASE pc[q] \in {"new", "ended"}
  <2>1. work'[q] = Nothing
    BY <1>1, <1>2 DEF OwnInv, ShapeOf
  <2> QED BY <1>1, <1>2, <2>1, NothingIs DEF SaveRowsOf, GoneEmptyOf, NumberingOf
<1>3. CASE pc[q] \notin {"new", "ended"}
  <2>1. r \in Drafts /\ r \notin Saves /\ work[r].gone = {}
    BY <1>1, <1>3, LandsOf
  <2>2. /\ DOMAIN places' = DOMAIN places \cup DOMAIN work[r].places
        /\ \A x \in DOMAIN places' :
              places'[x] = IF x \in DOMAIN work[r].places THEN work[r].places[x] ELSE places[x]
    BY <2>1, LandsIn
  <2>3. \A x \in DOMAIN places \ Added : SameRack(places'[x], places[x]) /\ SameEnd(places'[x], places[x])
    BY <2>1, <2>2, LandsAsIs
  <2>4. SaveRowsOf(q)'
    BY ONLY <1>1, <2>2, <2>3, q \in Saves DEF OwnInv, SaveRowsOf, SameRack, SameEnd
  <2>5. ASSUME NEW x, x \in work[q].gone \/ x \in DOMAIN work[q].places \ Added
        PROVE  \A b \in BinsIn(x)' : /\ b \in Bins /\ cell'[b] # None /\ cell'[b].place = x
                                     /\ b \in BinsIn(x) \/ (x \notin work[q].gone /\ Filled(b)')
                                     /\ b \in BinsIn(x) /\ Filled(b) => Filled(b)'
    <3> TAKE b \in BinsIn(x)'
    <3>1. b \in Bins /\ cell'[b] # None /\ cell'[b].place = x
      BY DEF BinsIn
    <3>2. CASE b \in DOMAIN work[r].cells
      <4>1. x \notin DOMAIN work[r].places
        BY <1>1, <2>5
      <4>2. Filled(b)' /\ FillsIn(r, b, cell'[b])
        BY <3>1, <3>2, <4>1, LandsMoved DEF WroteIn
      <4> QED BY <1>1, <3>1, <4>2 DEF FillsIn
    <3>3. CASE b \notin DOMAIN work[r].cells
      <4>1. cell'[b] = cell[b] /\ (Filled(b) => Filled(b)')
        BY <3>1, <3>3, LandsStays
      <4> QED BY <3>1, <4>1 DEF BinsIn
    <3> QED BY <3>2, <3>3
  <2>6. GoneEmptyOf(q)'
    <3>1. work[q].gone # {} => BinsIn(p)' = {}
      BY <1>1, <2>5 DEF OwnInv, GoneEmptyOf
    <3> HIDE DEF BinsIn
    <3> QED BY ONLY <1>1, <3>1, q \in Saves DEF OwnInv, GoneEmptyOf, p
  <2>7. NumberingOf(q)'
    <3>1. ASSUME pc[q] = "done", p \in DOMAIN work[q].places \ Added
          PROVE  SameEnd(work[q].places[p], places'[p]) \/ \A b \in BinsIn(p)' \ DOMAIN work[q].cells : Filled(b)'
      <4>1. p \in DOMAIN places
        BY <1>1, <3>1, KindsApart DEF OwnInv, SteadyOf
      <4>2. places'[p] = places[p]
        BY <1>1, <2>2, <3>1, <4>1
      <4>3. SameEnd(work[q].places[p], places[p]) \/ \A b \in BinsIn(p) \ DOMAIN work[q].cells : Filled(b)
        BY <1>1, <3>1 DEF OwnInv, NumberingOf
      <4>4. \A b \in BinsIn(p)' : (b \in BinsIn(p) \/ Filled(b)') /\ (b \in BinsIn(p) /\ Filled(b) => Filled(b)')
        BY <2>5, <3>1
      <4> QED BY <4>2, <4>3, <4>4
    <3>2. /\ DOMAIN work[q].places \subseteq {p}
          /\ pc[q] = "drawn" \/ (pc[q] = "listed" /\ Ask[q].does # "removes")
                => /\ p \in DOMAIN work[q].places /\ DOMAIN work[q].cells = {}
                   /\ Ask[q].does \in {"moves", "flips"}
          /\ pc[q] = "listed" /\ Ask[q].does # "removes" =>
                listed[q] \subseteq Bins /\ \A b \in listed[q] : Spells(work[q].places[p], b) # {}
      BY <1>1 DEF OwnInv, NumberingOf
    <3> HIDE DEF BinsIn, Filled
    <3> QED BY ONLY <1>1, <3>1, <3>2 DEF NumberingOf, Spells, SameEnd, p
  <2> QED BY <2>4, <2>6, <2>7
<1> QED BY <1>2, <1>3

\* What a draft had read is still the rack it was.
LEMMA LandsDraftRows ==
    ASSUME NEW r \in Requests, Lands(r), NEW q \in Drafts PROVE DraftRowsOf(q)'
<1>1. q \in Requests /\ OwnInv(q) /\ rows' = rows
  BY KindsApart DEF Lands, NameInv
<1> SUFFICES ASSUME NEW p \in DOMAIN rows[q] \ Added, p \in DOMAIN places'
             PROVE  SameRack(rows[q][p], places'[p])
  BY <1>1 DEF DraftRowsOf, SameRack
<1>2. p \in DOMAIN places
  BY <1>1, LandsNew
<1>3. SameRack(rows[q][p], places[p])
  BY <1>1, <1>2 DEF OwnInv, DraftRowsOf
<1>4. SameRack(places'[p], places[p])
  BY <1>2, LandsAsIs
<1> QED BY ONLY <1>3, <1>4 DEF SameRack

LEMMA LandsOthers ==
    ASSUME NEW r \in Requests, Lands(r), NEW q \in Requests, q # r PROVE OwnInv(q)'
<1>1. /\ pc'[q] = pc[q] /\ work'[q] = work[q] /\ rows'[q] = rows[q] /\ outcome'[q] = outcome[q]
      /\ plan' = plan /\ OwnInv(q)
  BY LandsApart
<1>2. ShapeOf(q)'
  BY ONLY <1>1 DEF OwnInv, ShapeOf, Shaped
<1>3. q \in Drafts => FillReadOf(q)'
  BY ONLY <1>1 DEF OwnInv, FillReadOf, ReadsIn
<1>4. q \in Drafts => MakeReadOf(q)'
  BY ONLY <1>1 DEF OwnInv, MakeReadOf
<1> QED BY <1>2, <1>3, <1>4, LandsSteady, LandsSave, LandsDraftRows DEF OwnInv

LEMMA LandsOwn ==
    ASSUME NEW r \in Requests, Lands(r) PROVE OwnInv(r)'
<1>1. OwnInv(r) /\ pc'[r] = "ended" /\ work'[r] = Nothing /\ rows' = rows /\ plan' = plan
  BY DEF Lands, NameInv
<1>2. ShapeOf(r)'
  BY <1>1, NothingIs DEF OwnInv, ShapeOf, Shaped
<1>3. SteadyOf(r)' /\ CellsReadOf(r)'
  BY <1>1, NothingIs DEF SteadyOf, CellsReadOf
<1>4. SaveRowsOf(r)' /\ GoneEmptyOf(r)' /\ NumberingOf(r)'
  BY <1>1, NothingIs DEF SaveRowsOf, GoneEmptyOf, NumberingOf
<1>5. r \in Drafts => FillReadOf(r)'
  BY ONLY <1>1 DEF OwnInv, FillReadOf, ReadsIn
<1>6. r \in Drafts => MakeReadOf(r)'
  BY ONLY <1>1 DEF OwnInv, MakeReadOf
<1> QED BY <1>2, <1>3, <1>4, <1>5, <1>6, LandsDraftRows DEF OwnInv

LEMMA CommitKeeps ==
    ASSUME NameInv, SaveInv, NEW r \in Requests, Commit(r) PROVE NameInv'
<1>1. pc[r] = "done" /\ End(r, "saved") /\ UNCHANGED <<rows, plan, listed>>
  BY DEF Commit, reads
<1>2. CASE UNCHANGED <<places, cell, saved>>
  BY <1>1, <1>2, EndsKeep
<1>3. CASE /\ r \in Drafts => Ask[r].apply
           /\ places' = Seen(r) /\ cell' = [b \in Bins |-> CellOf(r, b)]
  <2>1. Elsewhere(r) /\ pc'[r] = "ended"
    BY <1>1, GoesAlone DEF End
  <2>2. work'[r] = Nothing /\ outcome'[r] = "saved"
    BY <1>1 DEF End, Writes, NameInv, Tables
  <2>3. Lands(r)
    BY <1>1, <1>3, <2>1, <2>2 DEF Lands
  <2>4. /\ DOMAIN places' = (DOMAIN places \cup DOMAIN work[r].places) \ work[r].gone
        /\ \A p \in DOMAIN places' :
              places'[p] = IF p \in DOMAIN work[r].places THEN work[r].places[p] ELSE places[p]
    BY ONLY <2>3, LandsIn, r \in Requests
  <2>5. Tables'
    <3>1. DOMAIN cell' = Bins
      BY <1>3
    <3>2. Shaped(places')
      <4>1. Shaped(places) /\ Shaped(work[r].places)
        BY DEF NameInv, Tables, OwnInv, ShapeOf
      <4> QED BY ONLY <2>4, <4>1 DEF Shaped
    <3> QED BY <2>1, <3>1, <3>2 DEF Tables, Elsewhere, Shaped
  <2>6. FreshIds'
    <3> SUFFICES ASSUME NEW d \in Drafts, pc'[d] # "ended", NEW x \in Minted(d), NEW q \in Requests
                 PROVE  /\ x \notin DOMAIN places'
                        /\ x \notin DOMAIN rows'[q] /\ (q # d => x \notin DOMAIN work'[q].places)
      BY DEF FreshIds, Minted
    <3>1. d # r /\ pc[d] # "ended" /\ d \in Requests
      BY <2>1, KindsApart DEF Elsewhere
    <3>2. /\ x \notin DOMAIN places
          /\ \A p \in Requests : x \notin DOMAIN rows[p] /\ (p # d => x \notin DOMAIN work[p].places)
      BY <3>1 DEF NameInv, FreshIds
    <3>3. x \notin DOMAIN places'
      BY <2>4, <3>1, <3>2
    <3>4. q # d => x \notin DOMAIN work'[q].places
      BY <2>1, <2>2, <3>2, NothingIs DEF Elsewhere
    <3> QED BY <1>1, <3>2, <3>3, <3>4
  <2>7. RowsApart'
    <3> SUFFICES ASSUME NEW p \in Requests, NEW q \in Requests, p # q PROVE ApartFrom(p, q)'
      BY DEF RowsApart
    <3>1. CASE p = r \/ q = r
      BY <2>2, <3>1, NothingIs DEF ApartFrom
    <3>2. CASE p # r /\ q # r
      BY <2>1, <3>2 DEF NameInv, RowsApart, ApartFrom, Elsewhere
    <3> QED BY <3>1, <3>2
  <2>8. CellsNamed'
    BY <2>3, LandsNamed
  <2>9. \A q \in Requests : OwnInv(q)'
    BY <2>3, LandsOthers, LandsOwn
  <2> QED BY <2>5, <2>6, <2>7, <2>8, <2>9 DEF NameInv
<1> QED BY <1>2, <1>3 DEF Commit

\* A rack's reach changes, and nothing its pattern is read by.
LEMMA ReachKeeps ==
    ASSUME NameInv, NEW r \in Requests, Reach(r) PROVE NameInv'
<1> DEFINE p == Ask[r].place
<1>1. /\ pc[r] = "new" /\ UNCHANGED <<cell, rows, plan, listed>>
      /\ \/ End(r, "refused") /\ UNCHANGED places
         \/ /\ p \in DOMAIN places /\ End(r, "saved")
            /\ places' = [places EXCEPT ![p].reach = Ask[r].levels]
  BY DEF Reach, reads
<1>2. CASE End(r, "refused") /\ UNCHANGED places
  BY <1>1, <1>2, EndsKeep
<1>3. CASE /\ p \in DOMAIN places /\ End(r, "saved")
           /\ places' = [places EXCEPT ![p].reach = Ask[r].levels]
  <2>1. Elsewhere(r) /\ pc'[r] = "ended"
    BY <1>1, <1>3, GoesAlone DEF End
  <2>2. work'[r] = Nothing /\ work[r] = Nothing
    BY <1>1, <1>3 DEF End, Writes, NameInv, Tables, OwnInv, ShapeOf
  <2>3. \A q \in Requests : work'[q] = work[q]
    BY <2>1, <2>2 DEF Elsewhere
  <2>4. /\ DOMAIN places' = DOMAIN places
        /\ \A x \in DOMAIN places : /\ DOMAIN places'[x] = DOMAIN places[x]
                                    /\ places'[x].rack = places[x].rack /\ places'[x].grid = places[x].grid
    <3>1. \A x \in DOMAIN places : DOMAIN places[x] = PlaceFields
      BY DEF NameInv, Tables, Shaped
    <3> QED BY ONLY <1>3, <3>1 DEF PlaceFields
  <2>5. Tables'
    BY <1>1, <2>1, <2>4 DEF NameInv, Tables, Elsewhere, Shaped
  <2>6. FreshIds' /\ RowsApart'
    <3>1. FreshIds /\ RowsApart /\ rows' = rows
      BY <1>1 DEF NameInv
    <3>2. \A d \in Drafts : d \in Requests /\ (pc'[d] # "ended" => pc[d] # "ended")
      BY <2>1, KindsApart DEF Elsewhere
    <3>3. FreshIds'
      BY ONLY <2>3, <2>4, <3>1, <3>2 DEF FreshIds, Minted
    <3>4. RowsApart'
      BY ONLY <2>3, <3>1 DEF RowsApart, ApartFrom
    <3> QED BY <3>3, <3>4
  <2>7. CellsNamed'
    <3> SUFFICES ASSUME NEW b \in Bins PROVE NamedIn(b)'
      BY DEF CellsNamed
    <3>1. NamedIn(b) /\ (Filled(b) => Filled(b)')
      BY <1>1, <2>1, FilledStays DEF NameInv, CellsNamed
    <3> QED BY <1>1, <2>4, <3>1 DEF NamedIn, ReadsIn
  <2>8. ASSUME NEW q \in Requests PROVE OwnInv(q)'
    <3>1. OwnInv(q)
      BY DEF NameInv
    <3>2. /\ rows' = rows /\ plan' = plan /\ listed' = listed /\ cell' = cell
          /\ pc'[q] = "ended" \/ (pc'[q] = pc[q] /\ outcome'[q] = outcome[q])
          /\ pc'[q] = "ended" /\ q = r => work[q] = Nothing
      BY <1>1, <2>1, <2>2 DEF Elsewhere
    <3>3. ShapeOf(q)'
      <4>1. CASE q = r
        BY <2>1, <2>2, <3>1, <3>2, <4>1, NothingIs DEF OwnInv, ShapeOf, Shaped
      <4>2. CASE q # r
        BY <2>1, <2>3, <3>1, <3>2, <4>2 DEF OwnInv, ShapeOf, Shaped, Elsewhere
      <4> QED BY <4>1, <4>2
    <3>4. SteadyOf(q)'
      BY ONLY <2>3, <2>4, <3>1 DEF OwnInv, SteadyOf, SameRack, SameEnd
    <3>5. CellsReadOf(q)'
      BY ONLY <2>3, <2>4, <3>1, <3>2 DEF OwnInv, CellsReadOf, WroteIn, FillsIn, ReadsIn
    <3>6. ASSUME q \in Saves PROVE SaveRowsOf(q)' /\ GoneEmptyOf(q)' /\ NumberingOf(q)'
      <4>1. CASE q = r
        BY <2>1, <2>2, <4>1, NothingIs DEF SaveRowsOf, GoneEmptyOf, NumberingOf
      <4>2. CASE q # r
        <5>1. pc'[q] = pc[q]
          BY <2>1, <4>2 DEF Elsewhere
        <5>2. SaveRowsOf(q)'
          BY ONLY <2>4, <3>1, <3>2, <3>6, <5>1 DEF OwnInv, SaveRowsOf, SameRack, SameEnd
        <5>3. BinsIn(Ask[q].place)' = BinsIn(Ask[q].place)
          BY <3>2 DEF BinsIn
        <5>4. GoneEmptyOf(q)'
          BY ONLY <2>3, <3>1, <3>6, <5>3 DEF OwnInv, GoneEmptyOf
        <5>5. \A b \in BinsIn(Ask[q].place) : Filled(b) => Filled(b)'
          BY <1>1, <2>1, FilledStays
        <5>6. q \notin Drafts
          BY <3>6, KindsApart
        <5>7. Ask[q].place \in DOMAIN work[q].places \ Added => Ask[q].place \in DOMAIN places
          BY <3>1, <5>6 DEF OwnInv, SteadyOf
        <5>8. NumberingOf(q)'
          <6> HIDE DEF BinsIn, Filled
          <6> QED BY ONLY <2>3, <2>4, <3>1, <3>2, <3>6, <5>1, <5>3, <5>5, <5>7
                  DEF OwnInv, NumberingOf, SameEnd, Spells
        <5> QED BY <5>2, <5>4, <5>8
      <4> QED BY <4>1, <4>2
    <3>7. ASSUME q \in Drafts PROVE DraftRowsOf(q)' /\ FillReadOf(q)' /\ MakeReadOf(q)'
      <4>1. DraftRowsOf(q)'
        BY ONLY <2>4, <3>1, <3>2, <3>7 DEF OwnInv, DraftRowsOf, SameRack
      <4>2. pc'[q] \in {"new", "read"} => pc[q] \in {"new", "read"}
        BY <3>2
      <4>3. FillReadOf(q)'
        BY ONLY <3>1, <3>2, <3>7, <4>2 DEF OwnInv, FillReadOf, ReadsIn
      <4>4. MakeReadOf(q)'
        BY ONLY <3>1, <3>2, <3>7, <4>2 DEF OwnInv, MakeReadOf
      <4> QED BY <4>1, <4>3, <4>4
    <3> QED BY <3>3, <3>4, <3>5, <3>6, <3>7 DEF OwnInv
  <2> QED BY <2>5, <2>6, <2>7, <2>8 DEF NameInv
<1> QED BY <1>1, <1>2, <1>3

\* A screen that reads the layout changes none of it.
LEMMA StillKeeps ==
    ASSUME NameInv, UNCHANGED <<places, cell, pc, rows, listed, plan, work, outcome>> PROVE NameInv'
<1>1. Tables' /\ FreshIds' /\ RowsApart'
  BY DEF NameInv, Tables, Shaped, FreshIds, Minted, RowsApart, ApartFrom
<1>2. CellsNamed' /\ \A b : Filled(b)' = Filled(b)
  BY DEF NameInv, CellsNamed, NamedIn, ReadsIn, Filled
<1>3. ASSUME NEW q \in Requests PROVE OwnInv(q)'
  <2>1. OwnInv(q)
    BY DEF NameInv
  <2>2. ShapeOf(q)' /\ SteadyOf(q)'
    BY <2>1 DEF OwnInv, ShapeOf, Shaped, SteadyOf, SameRack, SameEnd
  <2>3. CellsReadOf(q)'
    BY <2>1 DEF OwnInv, CellsReadOf, WroteIn, FillsIn, ReadsIn
  <2>4. ASSUME q \in Saves PROVE SaveRowsOf(q)' /\ GoneEmptyOf(q)' /\ NumberingOf(q)'
    <3>1. SaveRowsOf(q)'
      BY <2>1, <2>4 DEF OwnInv, SaveRowsOf, SameRack, SameEnd
    <3>2. BinsIn(Ask[q].place)' = BinsIn(Ask[q].place)
      BY DEF BinsIn
    <3> HIDE DEF BinsIn, Filled
    <3>3. GoneEmptyOf(q)'
      BY <2>1, <2>4, <3>2 DEF OwnInv, GoneEmptyOf
    <3>4. NumberingOf(q)'
      BY <1>2, <2>1, <2>4, <3>2 DEF OwnInv, NumberingOf, SameEnd, Spells
    <3> QED BY <3>1, <3>3, <3>4
  <2>5. ASSUME q \in Drafts PROVE DraftRowsOf(q)' /\ FillReadOf(q)' /\ MakeReadOf(q)'
    BY <2>1, <2>5 DEF OwnInv, DraftRowsOf, FillReadOf, MakeReadOf, SameRack, ReadsIn
  <2> QED BY <2>2, <2>3, <2>4, <2>5 DEF OwnInv
<1> QED BY <1>1, <1>2, <1>3 DEF NameInv

LEMMA NamesKept == NameInv /\ SaveInv /\ [Next]_vars => NameInv'
<1> SUFFICES ASSUME NameInv, SaveInv, [Next]_vars PROVE NameInv'
  OBVIOUS
<1>1. CASE UNCHANGED vars
  BY <1>1, StillKeeps DEF vars, reads
<1>2. ASSUME NEW e \in Editors, See(e) \/ SeeVersion(e) PROVE NameInv'
  BY <1>2, StillKeeps DEF See, SeeVersion, reads
<1>3. ASSUME NEW s \in Saves, \/ Begin(s) \/ Check(s) \/ Draw(s) \/ List(s)
                              \/ Renumber(s) \/ Add(s) \/ CountIn(s) \/ RemovePlace(s)
      PROVE  NameInv'
  BY <1>3, BeginKeeps, CheckKeeps, DrawKeeps, ListKeeps, RenumberKeeps, AddKeeps, CountKeeps, RemoveKeeps
<1>4. ASSUME NEW d \in Drafts, Plan(d) \/ Fill(d) \/ \E grows \in BOOLEAN : Make(d, grows) PROVE NameInv'
  BY <1>4, PlanKeeps, FillKeeps, MakeKeeps
<1>5. ASSUME NEW r \in Requests, ReadRows(r) \/ Commit(r) \/ Reach(r) PROVE NameInv'
  BY <1>5, ReadRowsKeeps, CommitKeeps, ReachKeeps
<1> QED BY <1>1, <1>2, <1>3, <1>4, <1>5 DEF Next

LEMMA NamesAtFirst == Init => NameInv
<1> SUFFICES ASSUME Init PROVE NameInv
  OBVIOUS
<1>1. Shaped(Drawn)
  BY DrawnAssumption, IdsApart DEF DrawnAssumption, Shaped, PlaceFields, GridFields
<1>2. /\ DOMAIN pc = Requests /\ \A r \in Requests : pc[r] \in {"new", "ended"}
      /\ places = Drawn /\ cell = Placed
      /\ DOMAIN rows = Requests /\ \A r \in Requests : rows[r] = <<>>
      /\ DOMAIN work = Requests /\ \A r \in Requests : work[r] = Nothing
      /\ DOMAIN plan = Drafts /\ \A d \in Drafts : plan[d] = [fill |-> {}, make |-> {}]
      /\ DOMAIN outcome = Requests /\ \A r \in Requests : outcome[r] = "none"
      /\ DOMAIN listed = Saves
  BY DEF Init
<1>3. Tables
  BY <1>1, <1>2, DrawnAssumption DEF Tables, DrawnAssumption
<1>4. DOMAIN <<>> = {}
  OBVIOUS
<1>5. FreshIds
  BY <1>2, <1>4, IdsApart, NothingIs DEF FreshIds
<1>6. RowsApart
  BY <1>2, NothingIs DEF RowsApart, ApartFrom
<1>7. CellsNamed
  BY <1>2, DrawnAssumption DEF DrawnAssumption, CellsNamed, NamedIn, ReadsIn
<1>8. ASSUME NEW r \in Requests PROVE OwnInv(r)
  <2>1. ShapeOf(r)
    BY <1>2, <1>4, <1>8, NothingIs DEF ShapeOf, Shaped
  <2>2. SteadyOf(r) /\ CellsReadOf(r)
    BY <1>2, NothingIs DEF SteadyOf, CellsReadOf
  <2>3. SaveRowsOf(r) /\ GoneEmptyOf(r) /\ NumberingOf(r)
    BY <1>2, NothingIs DEF SaveRowsOf, GoneEmptyOf, NumberingOf
  <2>4. r \in Drafts => DraftRowsOf(r) /\ FillReadOf(r) /\ MakeReadOf(r)
    BY <1>2, <1>4 DEF DraftRowsOf, FillReadOf, MakeReadOf
  <2> QED BY <2>1, <2>2, <2>3, <2>4 DEF OwnInv
<1> QED BY <1>3, <1>5, <1>6, <1>7, <1>8 DEF NameInv

LEMMA NamesRead == NameInv => BinsReadTheirNames
<1> SUFFICES ASSUME NameInv, NEW b \in Bins, cell[b] # None, places[cell[b].place].rack # None,
                    ~ReadsIn(places[cell[b].place], b, cell[b])
             PROVE  \E d \in Drafts :
                       /\ Ask[d].apply /\ outcome[d] = "saved"
                       /\ [bin |-> b, to |-> cell[b]] \in plan[d].fill
                       /\ rows[d][cell[b].place].grid.right # places[cell[b].place].grid.right
  BY DEF BinsReadTheirNames, ReadsIn
<1> DEFINE p == cell[b].place
           m == [bin |-> b, to |-> cell[b]]
<1>1. p \in DOMAIN places /\ Filled(b)
  BY DEF NameInv, CellsNamed, NamedIn
<1>2. PICK d \in Drafts : Ask[d].apply /\ outcome[d] = "saved" /\ m \in plan[d].fill
  BY <1>1 DEF Filled
<1>3. OwnInv(d)
  BY KindsApart DEF NameInv
<1>4. p \in DOMAIN rows[d] /\ ReadsIn(rows[d][p], b, cell[b])
  BY <1>2, <1>3 DEF OwnInv, FillReadOf
<1>5. p \notin Added
  BY <1>1 DEF NameInv, Tables, Shaped
<1>6. SameRack(rows[d][p], places[p])
  BY <1>1, <1>3, <1>4, <1>5 DEF OwnInv, DraftRowsOf
<1>7. SameEnd(rows[d][p], places[p]) => ReadsIn(places[p], b, cell[b])
  BY ONLY <1>4, <1>6 DEF ReadsIn, SameRack, SameEnd, Label
<1> QED BY <1>2, <1>7 DEF SameEnd

\* layout::draft_layout, renumber and the saves: a bin in a rack is in the cell its code
\* spells, however requests interleave, unless the draft that filled the cell had read the
\* rack before it was renumbered.
THEOREM BinsReadTheirNamesHolds == Spec => []BinsReadTheirNames
<1>1. Init => NameInv /\ SaveInv
  BY NamesAtFirst, SavesAtFirst
<1>2. (NameInv /\ SaveInv) /\ [Next]_vars => (NameInv /\ SaveInv)'
  BY NamesKept, SaveKept
<1>3. NameInv => BinsReadTheirNames
  BY NamesRead
<1> QED BY <1>1, <1>2, <1>3, PTL DEF Spec

------------------------------------------------------------------------------
(* Walks: a floor is kept with what its builder asked for and read *)

\* What w walks is what another walk built, which is over, and asked for the same version.
WalksOn(w) ==
    builder[w] \notin {None, w} =>
        /\ builder[w] \in Walkers /\ walk[builder[w]] = "ended"
        /\ floor[w] = floor[builder[w]] /\ asked[w] = asked[builder[w]]

\* The kept floor is its builder's, who is done with it: what was asked for and read stands.
FloorInv ==
    /\ DOMAIN walk = Walkers /\ DOMAIN asked = Walkers
    /\ DOMAIN floor = Walkers /\ DOMAIN builder = Walkers
    /\ kept # None =>
          /\ kept.by \in Walkers /\ walk[kept.by] = "ended"
          /\ kept.version = asked[kept.by] /\ kept.of = floor[kept.by]
    /\ \A w \in Walkers : WalksOn(w)
    /\ \A w \in Walkers : walk[w] # "ended" => builder[w] \in {None, w}

LEMMA FloorAtFirst == WalksInit => FloorInv
BY DEF WalksInit, FloorInv, WalksOn

\* A walk that has just begun is nobody's builder, and its floor is not the one that is kept.
LEMMA FloorAsked ==
    ASSUME FloorInv, NEW w \in Walkers, AskVersion(w)
    PROVE  FloorInv'
<1> USE WalksAssumption
<1>1. walk[w] = "new" /\ asked' = [asked EXCEPT ![w] = places] /\ kept' = kept
  BY DEF AskVersion
<1>2. \A v \in Walkers \ {w} : walk'[v] = walk[v] /\ asked'[v] = asked[v] /\ floor'[v] = floor[v]
                               /\ builder'[v] = builder[v]
  BY DEF AskVersion, FloorInv
<1>3. DOMAIN walk' = Walkers /\ DOMAIN asked' = Walkers /\ DOMAIN floor' = Walkers
      /\ DOMAIN builder' = Walkers
  BY DEF AskVersion, FloorInv
<1>4. kept # None => kept.by \in Walkers \ {w}
  BY <1>1 DEF FloorInv
<1>5. \A v \in Walkers \ {w} : WalksOn(v)'
  <2> SUFFICES ASSUME NEW v \in Walkers \ {w}, builder[v] \notin {None, v}
               PROVE  /\ builder[v] \in Walkers /\ walk'[builder[v]] = "ended"
                      /\ floor[v] = floor'[builder[v]] /\ asked[v] = asked'[builder[v]]
    BY <1>2 DEF WalksOn
  <2>1. builder[v] \in Walkers \ {w}
    BY <1>1 DEF FloorInv, WalksOn
  <2> QED BY <1>2, <2>1 DEF FloorInv, WalksOn
<1>6. WalksOn(w)' /\ (walk'[w] # "ended" => builder'[w] \in {None, w})
  <2>1. CASE kept # None /\ kept.version = places
    <3>1. /\ floor'[w] = kept.of /\ builder'[w] = kept.by /\ walk'[w] = "ended"
          /\ asked'[w] = places
      BY <2>1 DEF AskVersion, FloorInv
    <3>2. /\ walk'[kept.by] = "ended" /\ floor'[kept.by] = kept.of /\ asked'[kept.by] = places
      BY <1>2, <1>4, <2>1 DEF FloorInv
    <3> QED BY <1>4, <2>1, <3>1, <3>2 DEF WalksOn
  <2>2. CASE ~(kept # None /\ kept.version = places)
    <3>1. builder'[w] = builder[w] /\ builder[w] \in {None, w}
      BY <1>1, <2>2 DEF AskVersion, FloorInv
    <3> QED BY <3>1 DEF WalksOn
  <2> QED BY <2>1, <2>2
<1>7. kept' # None => /\ kept'.by \in Walkers /\ walk'[kept'.by] = "ended"
                      /\ kept'.version = asked'[kept'.by] /\ kept'.of = floor'[kept'.by]
  BY <1>1, <1>2, <1>4 DEF FloorInv
<1>8. \A v \in Walkers : walk'[v] # "ended" => builder'[v] \in {None, v}
  BY <1>2, <1>6 DEF FloorInv
<1>9. \A v \in Walkers : WalksOn(v)'
  BY <1>5, <1>6
<1> QED BY <1>3, <1>7, <1>8, <1>9 DEF FloorInv

LEMMA FloorRead ==
    ASSUME FloorInv, NEW w \in Walkers, ReadPlaces(w)
    PROVE  FloorInv'
<1>1. walk[w] = "asked" /\ kept' = kept /\ asked' = asked /\ builder'[w] = w
  BY DEF ReadPlaces, FloorInv
<1>2. \A v \in Walkers \ {w} : walk'[v] = walk[v] /\ floor'[v] = floor[v] /\ builder'[v] = builder[v]
  BY DEF ReadPlaces, FloorInv
<1>3. DOMAIN walk' = Walkers /\ DOMAIN asked' = Walkers /\ DOMAIN floor' = Walkers
      /\ DOMAIN builder' = Walkers
  BY DEF ReadPlaces, FloorInv
<1>4. kept # None => kept.by \in Walkers \ {w}
  BY <1>1 DEF FloorInv
<1>5. \A v \in Walkers \ {w} : WalksOn(v)'
  <2> SUFFICES ASSUME NEW v \in Walkers \ {w}, builder[v] \notin {None, v}
               PROVE  /\ builder[v] \in Walkers /\ walk'[builder[v]] = "ended"
                      /\ floor[v] = floor'[builder[v]] /\ asked[v] = asked[builder[v]]
    BY <1>1, <1>2 DEF WalksOn
  <2>1. builder[v] \in Walkers \ {w}
    BY <1>1 DEF FloorInv, WalksOn
  <2> QED BY <1>2, <2>1 DEF FloorInv, WalksOn
<1>6. WalksOn(w)'
  BY <1>1 DEF WalksOn
<1>7. kept' # None => /\ kept'.by \in Walkers /\ walk'[kept'.by] = "ended"
                      /\ kept'.version = asked'[kept'.by] /\ kept'.of = floor'[kept'.by]
  BY <1>1, <1>2, <1>4 DEF FloorInv
<1>8. \A v \in Walkers : walk'[v] # "ended" => builder'[v] \in {None, v}
  BY <1>1, <1>2 DEF FloorInv
<1>9. \A v \in Walkers : WalksOn(v)'
  BY <1>5, <1>6
<1> QED BY <1>3, <1>7, <1>8, <1>9 DEF FloorInv

LEMMA FloorKept ==
    ASSUME FloorInv, NEW w \in Walkers, Keep(w)
    PROVE  FloorInv'
<1>1. /\ kept' = [version |-> asked[w], of |-> floor[w], by |-> w]
      /\ walk' = [walk EXCEPT ![w] = "ended"]
      /\ asked' = asked /\ floor' = floor /\ builder' = builder
  BY DEF Keep
<1>2. \A v \in Walkers : walk[v] = "ended" \/ v = w => walk'[v] = "ended"
  BY <1>1 DEF FloorInv
<1>3. \A v \in Walkers : WalksOn(v)'
  BY <1>1, <1>2 DEF FloorInv, WalksOn
<1>4. \A v \in Walkers : walk'[v] # "ended" => builder'[v] \in {None, v}
  BY <1>1, <1>2 DEF FloorInv
<1> QED BY <1>1, <1>2, <1>3, <1>4 DEF FloorInv

LEMMA FloorGone == FloorInv /\ Restart => FloorInv'
<1> SUFFICES ASSUME FloorInv, Restart PROVE FloorInv'
  OBVIOUS
<1>1. kept' = None /\ asked' = asked
  BY DEF Restart
<1>2. \A v \in Walkers : walk[v] = "ended" =>
         walk'[v] = "ended" /\ floor'[v] = floor[v] /\ builder'[v] = builder[v]
  BY DEF Restart
<1>3. \A v \in Walkers : builder'[v] \in {None, builder[v]} /\ (walk'[v] # "ended" => walk[v] = "new")
  BY DEF Restart
<1>4. ASSUME NEW v \in Walkers PROVE WalksOn(v)'
  <2>1. CASE walk[v] = "ended"
    BY <1>1, <1>2, <2>1 DEF FloorInv, WalksOn
  <2>2. CASE walk[v] # "ended"
    BY <1>3, <2>2 DEF FloorInv, WalksOn
  <2> QED BY <2>1, <2>2
<1>5. \A v \in Walkers : walk'[v] # "ended" => builder'[v] \in {None, v}
  BY <1>2, <1>3 DEF FloorInv
<1>6. DOMAIN walk' = Walkers /\ DOMAIN asked' = Walkers /\ DOMAIN floor' = Walkers
      /\ DOMAIN builder' = Walkers
  BY DEF Restart, FloorInv
<1> QED BY <1>1, <1>4, <1>5, <1>6 DEF FloorInv

LEMMA FloorStays == FloorInv /\ [WalksNext]_<<vars, walks>> => FloorInv'
<1> SUFFICES ASSUME FloorInv, [WalksNext]_<<vars, walks>> PROVE FloorInv'
  OBVIOUS
<1>1. CASE UNCHANGED walks
  BY <1>1 DEF walks, FloorInv, WalksOn
<1>2. CASE Restart
  BY <1>2, FloorGone
<1>3. ASSUME NEW w \in Walkers, AskVersion(w) \/ ReadPlaces(w) \/ Keep(w) PROVE FloorInv'
  BY <1>3, FloorAsked, FloorRead, FloorKept
<1> QED BY <1>1, <1>2, <1>3 DEF WalksNext

\* floor_for: a walk given a kept floor asked for the version its builder asked for, so that
\* the floor is of another layout only when the builder read the places after they had changed.
THEOREM FloorIsTheLayoutHolds == WalksSpec => []FloorIsTheLayout
<1>1. FloorInv => FloorIsTheLayout
  BY DEF FloorInv, WalksOn, FloorIsTheLayout
<1> QED BY <1>1, FloorAtFirst, FloorStays, PTL DEF WalksSpec

\* A walk only reads: beside walks the layout does what it does without them, so that what
\* is proved of it holds of the run's specification.
LEMMA WalksOnlyRead == WalksSpec => Spec
<1>1. WalksInit => Init
  BY DEF WalksInit
<1>2. [WalksNext]_<<vars, walks>> => [Next]_vars
  <2>1. ASSUME NEW w \in Walkers, AskVersion(w) \/ ReadPlaces(w) \/ Keep(w) PROVE UNCHANGED vars
    BY <2>1 DEF AskVersion, ReadPlaces, Keep
  <2>2. Restart => UNCHANGED vars
    BY DEF Restart
  <2> QED BY <2>1, <2>2 DEF WalksNext
<1> QED BY <1>1, <1>2, PTL DEF WalksSpec, Spec
==============================================================================
