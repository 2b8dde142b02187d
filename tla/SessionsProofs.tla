----------------------------- MODULE SessionsProofs -----------------------------
(***************************************************************************)
(* For any tokens, tabs and devices, the digests a row keeps are enough to *)
(* tell which session a token was minted for: the database ends exactly    *)
(* the sessions people meant to end.  The inductive invariant says whose   *)
(* each token is (Minted), that every token a device holds, in its jar or  *)
(* in a request or its answer, is its session's current or previous one    *)
(* (HeldNamed), that a session is held on one device (OneHome), and, which *)
(* is what keeps HeldNamed over a rotation, that a session whose token is  *)
(* due is held by one token (DueOnce).  On top of it, SteadyInv says what  *)
(* a device that missed no answer has at every moment, and with it that    *)
(* such a device stays signed in.                                          *)
(*                                                                         *)
(* The second part is about the people of Accounts, over the same          *)
(* sessions.  AllInv carries who a request in flight has counted, and when *)
(* (CrewInv), what is used up once (OnceInv), and since when a session can *)
(* be open at all (OffInv), next to the invariant of the first part.       *)
(***************************************************************************)
EXTENDS Accounts, FiniteSetTheorems, TLAPS

\* A set whose members are all the same has at most one.
LEMMA AtMostOne ==
  ASSUME NEW S, \A q, r \in S : q = r
  PROVE  Cardinality(S) <= 1
<1>1. CASE S = {}
  BY <1>1, FS_EmptySet
<1>2. ASSUME NEW r \in S PROVE Cardinality(S) <= 1
  <2>1. S = {r}
    OBVIOUS
  <2> QED BY <2>1, FS_Singleton
<1> QED BY <1>1, <1>2

USE SessionsAssumption
USE DEF SessionsAssumption, Maybe

Types ==
    /\ current \in [Tokens -> Maybe]
    /\ previous \in [Tokens -> Maybe]
    /\ of \in [Tokens -> Maybe]
    /\ due \subseteq Tokens
    /\ jar \in [Devices -> Maybe]
    /\ call \in [Tabs -> Calls]
    /\ \A x \in Tabs : ~Out(x) => call[x].token = Nil /\ call[x].set = Nil

Minted ==
    /\ \A t \in Tokens : of[t] # Nil => of[t] \in Opened
    /\ \A s \in Opened : of[current[s]] = s /\ of[s] = s
    /\ \A s \in Tokens : previous[s] # Nil =>
           s \in Opened /\ of[previous[s]] = s /\ previous[s] # current[s]

\* Device d holds token t: in its jar, or in a request or an answer on its way.
HeldAt(d, t) ==
    /\ t # Nil
    /\ \/ jar[d] = t
       \/ \E x \in Tabs : DeviceOf[x] = d /\ t \in {call[x].token, call[x].set}

HeldNamed ==
    \A d \in Devices, t \in Tokens : HeldAt(d, t) =>
        of[t] \in Opened /\ t \in {current[of[t]], previous[of[t]]}

OneHome ==
    \A d, e \in Devices : \A t, u \in Tokens :
        HeldAt(d, t) /\ HeldAt(e, u) /\ of[t] = of[u] => d = e

DueOnce ==
    \A d \in Devices : \A t, u \in Tokens :
        HeldAt(d, t) /\ HeldAt(d, u) /\ of[t] = of[u] /\ of[t] \in due => t = u

Tracked == Minted /\ HeldNamed /\ OneHome /\ DueOnce

IInv == Types /\ Tracked /\ EndedAsAsked

\* No device comes to hold what it did not.
NoneGained == \A d \in Devices, t \in Tokens : HeldAt(d, t)' => HeldAt(d, t)

\* Only device e comes to hold anything, and that is n.
GainsOnly(e, n) ==
    \A d \in Devices, t \in Tokens : HeldAt(d, t)' => HeldAt(d, t) \/ (d = e /\ t = n)

------------------------------------------------------------------------------
\* Nobody holds anything at the start.
LEMMA InitIInv == Init => IInv
BY DEF Init, IInv, Types, Tracked, Minted, HeldNamed, OneHome, DueOnce, HeldAt,
       EndedAsAsked, Opened, Out, Idle, Calls, Kinds, Moves

\* A step that mints nothing, and after which no device holds more and no more is
\* due, keeps track of every token.
LEMMA KeepTrack ==
    ASSUME Tracked, UNCHANGED <<current, previous, of>>, due' \subseteq due, NoneGained
    PROVE  Tracked'
<1>1. Opened' = Opened
  BY DEF Opened
<1>2. Minted'
  BY <1>1 DEF Tracked, Minted
<1>3. HeldNamed'
  BY <1>1 DEF Tracked, HeldNamed, NoneGained
<1>4. OneHome'
  BY DEF Tracked, OneHome, NoneGained
<1>5. DueOnce'
  BY DEF Tracked, DueOnce, NoneGained
<1> QED BY <1>2, <1>3, <1>4, <1>5 DEF Tracked

\* A session opened under a fresh token, held only where it was asked for.
LEMMA TrackIssue ==
    ASSUME Types, Tracked, NEW e \in Devices, NEW n \in Fresh, Open(n),
           UNCHANGED <<previous, due>>, GainsOnly(e, n)
    PROVE  Tracked'
<1>1. n \in Tokens /\ of[n] = Nil /\ n \notin Opened /\ n # Nil
  BY DEF Fresh, Tracked, Minted
<1>2. /\ \A t \in Tokens : t # n => current'[t] = current[t] /\ of'[t] = of[t]
      /\ current'[n] = n /\ of'[n] = n
  BY <1>1 DEF Open, Types
<1>3. Opened' = Opened \cup {n}
  BY <1>1, <1>2 DEF Opened
<1>4. \A s \in Opened : current[s] \in Tokens /\ current[s] # n
  BY <1>1 DEF Opened, Types, Tracked, Minted
<1>5. \A s \in Tokens : previous[s] # n
  BY <1>1 DEF Tracked, Minted
<1>6. \A d \in Devices, t \in Tokens : HeldAt(d, t) => t # n /\ of[t] \in Opened
  BY <1>1 DEF Tracked, HeldNamed, Opened
<1>7. Minted'
  <2>1. \A t \in Tokens : of'[t] # Nil => of'[t] \in Opened'
    BY <1>2, <1>3 DEF Tracked, Minted
  <2>2. \A s \in Opened' : of'[current'[s]] = s /\ of'[s] = s
    BY <1>1, <1>2, <1>3, <1>4 DEF Tracked, Minted, Opened
  <2>3. \A s \in Tokens : previous'[s] # Nil =>
            s \in Opened' /\ of'[previous'[s]] = s /\ previous'[s] # current'[s]
    BY <1>1, <1>2, <1>3, <1>5 DEF Tracked, Minted, Types
  <2> QED BY <2>1, <2>2, <2>3 DEF Minted
<1>8. HeldNamed'
  <2> SUFFICES ASSUME NEW d \in Devices, NEW t \in Tokens, HeldAt(d, t)'
               PROVE  of'[t] \in Opened' /\ t \in {current'[of'[t]], previous'[of'[t]]}
    BY DEF HeldNamed
  <2>1. CASE t = n
    BY <2>1, <1>2, <1>3
  <2>2. CASE t # n
    BY <2>2, <1>1, <1>2, <1>3 DEF GainsOnly, Tracked, HeldNamed, Opened
  <2> QED BY <2>1, <2>2
<1>9. OneHome'
  <2> SUFFICES ASSUME NEW d \in Devices, NEW f \in Devices, NEW t \in Tokens, NEW u \in Tokens,
                      HeldAt(d, t)', HeldAt(f, u)', of'[t] = of'[u]
               PROVE  d = f
    BY DEF OneHome
  <2>1. HeldAt(d, t) \/ (d = e /\ t = n)
    BY DEF GainsOnly
  <2>2. HeldAt(f, u) \/ (f = e /\ u = n)
    BY DEF GainsOnly
  <2> QED BY <2>1, <2>2, <1>1, <1>2, <1>6 DEF Tracked, OneHome
<1>10. DueOnce'
  <2> SUFFICES ASSUME NEW d \in Devices, NEW t \in Tokens, NEW u \in Tokens,
                      HeldAt(d, t)', HeldAt(d, u)', of'[t] = of'[u], of'[t] \in due'
               PROVE  t = u
    BY DEF DueOnce
  <2>1. HeldAt(d, t) \/ t = n
    BY DEF GainsOnly
  <2>2. HeldAt(d, u) \/ u = n
    BY DEF GainsOnly
  <2> QED BY <2>1, <2>2, <1>1, <1>2, <1>6 DEF Tracked, DueOnce
<1> QED BY <1>7, <1>8, <1>9, <1>10 DEF Tracked

\* A rotation: the session was due, so its device held the old token and no other.
LEMMA TrackRotate ==
    ASSUME Types, Tracked, NEW e \in Devices, NEW s \in Tokens, NEW n \in Fresh,
           s \in due, s \in Opened, HeldAt(e, current[s]),
           current' = [current EXCEPT ![s] = n],
           previous' = [previous EXCEPT ![s] = current[s]],
           of' = [of EXCEPT ![n] = s], due' = due \ {s}, GainsOnly(e, n)
    PROVE  Tracked'
<1> DEFINE t0 == current[s]
<1>1. /\ n \in Tokens /\ of[n] = Nil /\ n # Nil
      /\ t0 \in Tokens /\ of[t0] = s /\ t0 # n /\ t0 # Nil
  BY DEF Fresh, Types, Opened, Tracked, Minted
<1>2. /\ \A t \in Tokens : t # n => of'[t] = of[t]
      /\ of'[n] = s
      /\ \A r \in Tokens : r # s => current'[r] = current[r] /\ previous'[r] = previous[r]
      /\ current'[s] = n /\ previous'[s] = t0
  BY <1>1 DEF Types
<1>3. Opened' = Opened
  BY <1>1, <1>2 DEF Opened
<1>4. \A d \in Devices, t \in Tokens : HeldAt(d, t) =>
          t # n /\ of'[t] = of[t] /\ of[t] \in Opened /\ (of[t] = s => d = e /\ t = t0)
  <2> SUFFICES ASSUME NEW d \in Devices, NEW t \in Tokens, HeldAt(d, t)
               PROVE  /\ t # n /\ of[t] \in Opened
                      /\ of[t] = s => d = e /\ t = t0
    BY <1>2
  <2>1. of[t] \in Opened /\ t # n
    BY <1>1 DEF Tracked, HeldNamed, Opened
  <2>2. of[t] = s => d = e
    BY <1>1 DEF Tracked, OneHome
  <2>3. of[t] = s => t = t0
    BY <2>2, <1>1 DEF Tracked, DueOnce
  <2> QED BY <2>1, <2>2, <2>3
<1>5. Minted'
  <2>1. \A t \in Tokens : of'[t] # Nil => of'[t] \in Opened'
    BY <1>1, <1>2, <1>3 DEF Tracked, Minted
  <2>2. \A r \in Opened : current[r] \in Tokens /\ current[r] # n /\ r # n
    BY <1>1 DEF Opened, Types, Tracked, Minted
  <2>3. \A r \in Opened' : of'[current'[r]] = r /\ of'[r] = r
    BY <1>1, <1>2, <1>3, <2>2 DEF Tracked, Minted, Opened
  <2>4. \A r \in Tokens : previous'[r] # Nil =>
            r \in Opened' /\ of'[previous'[r]] = r /\ previous'[r] # current'[r]
    <3> SUFFICES ASSUME NEW r \in Tokens, previous'[r] # Nil
                 PROVE  r \in Opened' /\ of'[previous'[r]] = r /\ previous'[r] # current'[r]
      OBVIOUS
    <3>1. CASE r = s
      BY <3>1, <1>1, <1>2, <1>3
    <3>2. CASE r # s
      BY <3>2, <1>1, <1>2, <1>3 DEF Tracked, Minted, Types
    <3> QED BY <3>1, <3>2
  <2> QED BY <2>1, <2>3, <2>4 DEF Minted
<1>6. HeldNamed'
  <2> SUFFICES ASSUME NEW d \in Devices, NEW t \in Tokens, HeldAt(d, t)'
               PROVE  of'[t] \in Opened' /\ t \in {current'[of'[t]], previous'[of'[t]]}
    BY DEF HeldNamed
  <2>1. CASE t = n
    BY <2>1, <1>2, <1>3
  <2>2. CASE t # n
    <3>1. HeldAt(d, t)
      BY <2>2 DEF GainsOnly
    <3>2. of'[t] = of[t] /\ of[t] \in Opened
      BY <3>1, <1>4
    <3>3. CASE of[t] = s
      BY <3>1, <3>2, <3>3, <1>2, <1>3, <1>4
    <3>4. CASE of[t] # s
      BY <3>1, <3>2, <3>4, <1>2, <1>3 DEF Tracked, HeldNamed, Opened
    <3> QED BY <3>3, <3>4
  <2> QED BY <2>1, <2>2
<1>7. OneHome'
  <2> SUFFICES ASSUME NEW d \in Devices, NEW f \in Devices, NEW t \in Tokens, NEW u \in Tokens,
                      HeldAt(d, t)', HeldAt(f, u)', of'[t] = of'[u]
               PROVE  d = f
    BY DEF OneHome
  <2>1. HeldAt(d, t) \/ (d = e /\ t = n)
    BY DEF GainsOnly
  <2>2. HeldAt(f, u) \/ (f = e /\ u = n)
    BY DEF GainsOnly
  <2> QED BY <2>1, <2>2, <1>2, <1>4 DEF Tracked, OneHome
<1>8. DueOnce'
  <2> SUFFICES ASSUME NEW d \in Devices, NEW t \in Tokens, NEW u \in Tokens,
                      HeldAt(d, t)', HeldAt(d, u)', of'[t] = of'[u], of'[t] \in due'
               PROVE  t = u
    BY DEF DueOnce
  <2>1. t # n /\ u # n
    BY <1>2
  <2>2. HeldAt(d, t) /\ HeldAt(d, u)
    BY <2>1 DEF GainsOnly
  <2> QED BY <2>2, <1>4 DEF Tracked, DueOnce
<1> QED BY <1>5, <1>6, <1>7, <1>8 DEF Tracked

\* The token a request carries answers to the session it was minted for.
LEMMA AnswersToMeant ==
    ASSUME Types, Tracked, NEW x \in Tabs
    PROVE  AnswersTo(call[x].token) = Meant(call[x].token)
<1> DEFINE t == call[x].token
<1>1. CASE t = Nil
  BY <1>1 DEF AnswersTo, Meant
<1>2. CASE t # Nil
  <2>1. t \in Tokens /\ HeldAt(DeviceOf[x], t) /\ DeviceOf[x] \in Devices
    BY <1>2 DEF Types, Calls, HeldAt
  <2>2. of[t] \in Opened /\ t \in {current[of[t]], previous[of[t]]}
    BY <2>1 DEF Tracked, HeldNamed
  <2>3. \A s \in Opened : t \in {current[s], previous[s]} => of[t] = s
    BY <1>2 DEF Tracked, Minted, Opened
  <2> QED BY <1>2, <2>2, <2>3 DEF AnswersTo, Meant, Opened
<1> QED BY <1>1, <1>2

\* An answer leaves its tab with what it sets, and gives up the token it carried.
LEMMA AnswerHolds ==
    ASSUME Types, NEW x \in Tabs, NEW t \in Maybe, Answer(x, t), jar' = jar
    PROVE  /\ call' \in [Tabs -> Calls]
           /\ \A y \in Tabs : ~Out(y)' => call'[y].token = Nil /\ call'[y].set = Nil
           /\ \A d \in Devices, u \in Tokens :
                  HeldAt(d, u)' => HeldAt(d, u) \/ (d = DeviceOf[x] /\ u = t)
<1>1. /\ call' \in [Tabs -> Calls]
      /\ call'[x].token = Nil /\ call'[x].set = t /\ call'[x].at = "answered"
      /\ \A y \in Tabs \ {x} : call'[y] = call[y]
  BY DEF Types, Answer, Calls
<1>2. \A y \in Tabs : ~Out(y)' => call'[y].token = Nil /\ call'[y].set = Nil
  BY <1>1 DEF Out, Types
<1>3. ASSUME NEW d \in Devices, NEW u \in Tokens, HeldAt(d, u)'
      PROVE  HeldAt(d, u) \/ (d = DeviceOf[x] /\ u = t)
  BY <1>1, <1>3 DEF HeldAt
<1> QED BY <1>1, <1>2, <1>3

------------------------------------------------------------------------------
(* One lemma for each action, or group of actions, that changes the rows. *)

LEMMA IssueOnStep == ASSUME IInv, NEW x \in Tabs, IssueOn(x) PROVE IInv'
<1> PICK n \in Fresh : Open(n) /\ Answer(x, n)
  BY DEF IssueOn
<1> USE DEF IInv
<1>1. n \in Tokens /\ DeviceOf[x] \in Devices /\ jar' = jar
  BY DEF Fresh, IssueOn
<1>2. GainsOnly(DeviceOf[x], n)
  BY <1>1, AnswerHolds DEF GainsOnly
<1>3. Tracked'
  BY <1>1, <1>2, TrackIssue DEF IssueOn
<1>4. Types'
  BY <1>1, AnswerHolds DEF Types, IssueOn, Open
<1>5. EndedAsAsked'
  BY DEF IssueOn, EndedAsAsked
<1> QED BY <1>3, <1>4, <1>5

LEMMA IssueSiteStep == ASSUME IInv, NEW x \in Tabs, IssueSite(x) PROVE IInv'
<1> PICK n \in Fresh :
        Open(n) /\ call' = [call EXCEPT ![x].at = "issued", ![x].set = n]
  BY DEF IssueSite
<1> USE DEF IInv
<1>1. n \in Tokens /\ DeviceOf[x] \in Devices /\ jar' = jar
  BY DEF Fresh, IssueSite
<1>2. /\ call' \in [Tabs -> Calls]
      /\ call'[x].token = call[x].token /\ call'[x].set = n /\ call'[x].at = "issued"
      /\ \A y \in Tabs \ {x} : call'[y] = call[y]
  <2>1. call[x] \in Calls
    BY DEF Types
  <2>2. [call[x] EXCEPT !.at = "issued", !.set = n] \in Calls
    BY <1>1, <2>1 DEF Calls
  <2>3. call' = [call EXCEPT ![x] = [call[x] EXCEPT !.at = "issued", !.set = n]]
    BY DEF Types, Calls
  <2> QED BY <2>1, <2>2, <2>3 DEF Types, Calls
<1>3. GainsOnly(DeviceOf[x], n)
  BY <1>1, <1>2 DEF GainsOnly, HeldAt
<1>4. Tracked'
  BY <1>1, <1>3, TrackIssue DEF IssueSite
<1>5. Types'
  BY <1>1, <1>2 DEF Types, IssueSite, Open, Out
<1>6. EndedAsAsked'
  BY DEF IssueSite, EndedAsAsked, heard
<1> QED BY <1>4, <1>5, <1>6

LEMMA LoadStep == ASSUME IInv, NEW x \in Tabs, Load(x) PROVE IInv'
<1> USE DEF IInv
<1> DEFINE t == call[x].token
<1>1. DeviceOf[x] \in Devices /\ jar' = jar /\ t \in Maybe
  BY DEF Load, Types, Calls
<1>2. EndedAsAsked'
  BY DEF Load, EndedAsAsked, heard
<1>3. CASE Answer(x, Nil) /\ UNCHANGED <<current, previous, grace, due, of>>
  <2>1. NoneGained
    BY <1>1, <1>3, AnswerHolds DEF NoneGained
  <2>2. Tracked'
    BY <1>3, <2>1, KeepTrack
  <2>3. Types'
    BY <1>1, <1>3, AnswerHolds DEF Types
  <2> QED BY <1>2, <2>2, <2>3
<1>4. ASSUME NEW s \in Rotatable(t), NEW n \in Fresh,
             current' = [current EXCEPT ![s] = n],
             previous' = [previous EXCEPT ![s] = current[s]],
             due' = due \ {s}, of' = [of EXCEPT ![n] = of[t]], Answer(x, n)
      PROVE  IInv'
  <2>1. s \in Tokens /\ s \in due /\ s \in Opened /\ current[s] = t /\ n \in Tokens
    BY <1>4 DEF Rotatable, Live, Opened, Fresh
  <2>2. t # Nil /\ of[t] = s
    BY <2>1 DEF Opened, Tracked, Minted
  <2>3. HeldAt(DeviceOf[x], current[s])
    BY <2>1, <2>2 DEF HeldAt
  <2>4. GainsOnly(DeviceOf[x], n)
    BY <1>1, <1>4, <2>1, AnswerHolds DEF GainsOnly
  <2>5. of' = [of EXCEPT ![n] = s]
    BY <1>4, <2>2
  <2>6. Tracked'
    BY <1>1, <1>4, <2>1, <2>3, <2>4, <2>5, TrackRotate
  <2>7. Types'
    BY <1>1, <1>4, <2>1, <2>5, AnswerHolds DEF Types
  <2> QED BY <1>2, <2>6, <2>7
<1> QED BY <1>3, <1>4 DEF Load

\* CloseOld, Off and RevokeOthers end the sessions they were asked to end.
LEMMA EndStep ==
    ASSUME IInv, NEW x \in Tabs, CloseOld(x) \/ Off(x) \/ RevokeOthers(x)
    PROVE  IInv'
<1> USE DEF IInv
<1>1. /\ DeviceOf[x] \in Devices /\ call[x].set \in Maybe
      /\ UNCHANGED <<current, previous, of, due, jar>>
  BY DEF CloseOld, Off, RevokeOthers, Types, Calls
<1>2. PICK t \in {Nil, call[x].set} : Answer(x, t)
  BY DEF CloseOld, Off, RevokeOthers
<1>3. NoneGained
  <2> SUFFICES ASSUME NEW d \in Devices, NEW u \in Tokens, HeldAt(d, u)'
               PROVE  HeldAt(d, u)
    BY DEF NoneGained
  <2>1. HeldAt(d, u) \/ (d = DeviceOf[x] /\ u = t)
    BY <1>1, <1>2, AnswerHolds
  <2>2. d = DeviceOf[x] /\ u = call[x].set => HeldAt(d, u)
    BY DEF HeldAt
  <2> QED BY <1>2, <2>1, <2>2
<1>4. Tracked'
  BY <1>1, <1>3, KeepTrack
<1>5. Types'
  BY <1>1, <1>2, AnswerHolds DEF Types
<1>6. EndedAsAsked'
  BY AnswersToMeant DEF EndedAsAsked, CloseOld, Off, RevokeOthers, Ask
<1> QED BY <1>4, <1>5, <1>6

\* The steps of a request that the rows do not notice.
LEMMA CallStep ==
    ASSUME IInv, NEW x \in Tabs,
           (\E k \in Kinds : Send(x, k)) \/ Resolve(x) \/ Reject(x) \/ Hear(x)
               \/ Lose(x) \/ Cut(x)
    PROVE  IInv'
<1> USE DEF IInv
<1>1. /\ DeviceOf[x] \in Devices
      /\ call[x].token \in Maybe /\ call[x].set \in Maybe /\ call[x] \in Calls
      /\ jar[DeviceOf[x]] \in Maybe
      /\ UNCHANGED <<current, previous, of, due>>
  BY DEF Send, Resolve, Reject, Hear, Lose, Cut, Types, Calls, rows
<1>2. EndedAsAsked'
  BY DEF EndedAsAsked, Send, Resolve, Reject, Hear, Lose, Cut, rows, heard
<1>3. NoneGained /\ Types'
  <2>1. ASSUME NEW k \in Kinds, Send(x, k) PROVE NoneGained /\ Types'
    <3>1. /\ call' \in [Tabs -> Calls] /\ jar' = jar
          /\ call'[x].token \in {Nil, jar[DeviceOf[x]]} /\ call'[x].set = Nil
          /\ call'[x].at = "sent"
          /\ \A y \in Tabs \ {x} : call'[y] = call[y]
      BY <1>1, <2>1 DEF Send, Types, Calls
    <3>2. NoneGained
      BY <1>1, <3>1 DEF NoneGained, HeldAt
    <3>3. Types'
      BY <1>1, <3>1 DEF Types, Out
    <3> QED BY <3>2, <3>3
  <2>2. CASE Answer(x, Nil) /\ jar' = jar
    BY <1>1, <2>2, AnswerHolds DEF NoneGained, Types
  <2>3. ASSUME NEW s \in Tokens, jar' = jar,
               call' = [call EXCEPT ![x].at = "resolved", ![x].due = (s \in due)]
        PROVE  NoneGained /\ Types'
    <3> DEFINE b == s \in due
    <3>a. b \in BOOLEAN
      OBVIOUS
    <3>b. call' = [call EXCEPT ![x].at = "resolved", ![x].due = b]
      BY <2>3, Zenon
    <3> HIDE DEF b
    <3>1. /\ call' \in [Tabs -> Calls]
          /\ call'[x].token = call[x].token /\ call'[x].set = call[x].set
          /\ call'[x].at = "resolved"
          /\ \A y \in Tabs \ {x} : call'[y] = call[y]
      BY <1>1, <3>a, <3>b DEF Types, Calls
    <3>2. NoneGained
      BY <2>3, <3>1 DEF NoneGained, HeldAt
    <3>3. Types'
      BY <1>1, <2>3, <3>1 DEF Types, Out
    <3> QED BY <3>2, <3>3
  <2>4. ASSUME NEW t \in {Nil, jar[DeviceOf[x]], call[x].set},
               jar' = [jar EXCEPT ![DeviceOf[x]] = t], call' = [call EXCEPT ![x] = Idle]
        PROVE  NoneGained /\ Types'
    <3>1. /\ call' \in [Tabs -> Calls] /\ jar' \in [Devices -> Maybe]
          /\ call'[x].token = Nil /\ call'[x].set = Nil
          /\ \A y \in Tabs \ {x} : call'[y] = call[y]
      BY <1>1, <2>4 DEF Types, Calls, Idle, Kinds, Moves
    <3>2. \A d \in Devices : jar'[d] = jar[d] \/ (d = DeviceOf[x] /\ jar'[d] = t)
      BY <2>4 DEF Types
    <3>3. NoneGained
      BY <1>1, <2>4, <3>1, <3>2 DEF NoneGained, HeldAt
    <3>4. Types'
      BY <1>1, <3>1 DEF Types, Out
    <3> QED BY <3>3, <3>4
  <2>5. Resolve(x) => NoneGained /\ Types'
    <3> SUFFICES ASSUME Resolve(x) PROVE NoneGained /\ Types'
      OBVIOUS
    <3>1. jar' = jar
      BY DEF Resolve
    <3>2. Answer(x, Nil) => NoneGained /\ Types'
      BY <2>2, <3>1
    <3>3. Resolved(call[x].token) \subseteq Tokens
      BY DEF Resolved, Live, Opened
    <3>4. \/ Answer(x, Nil)
          \/ \E s \in Resolved(call[x].token) :
                call' = [call EXCEPT ![x].at = "resolved", ![x].due = (s \in due)]
      BY Zenon DEF Resolve
    <3>5. CASE \E s \in Resolved(call[x].token) :
                call' = [call EXCEPT ![x].at = "resolved", ![x].due = (s \in due)]
      BY <2>3, <3>1, <3>3, <3>5
    <3> QED BY <3>2, <3>4, <3>5
  <2>6. Reject(x) \/ Cut(x) => NoneGained /\ Types'
    BY <2>2 DEF Reject, Cut
  <2>7. Hear(x) => NoneGained /\ Types'
    <3>1. Holds(x) \in {Nil, jar[DeviceOf[x]], call[x].set}
      BY DEF Holds
    <3> QED BY <2>4, <3>1 DEF Hear
  <2>8. Lose(x) => NoneGained /\ Types'
    <3>1. [jar EXCEPT ![DeviceOf[x]] = jar[DeviceOf[x]]] = jar
      BY DEF Types
    <3> QED BY <2>4, <3>1 DEF Lose
  <2> QED BY <2>1, <2>5, <2>6, <2>7, <2>8
<1>4. Tracked'
  BY <1>1, <1>3, KeepTrack
<1> QED BY <1>2, <1>3, <1>4

\* A day passes when no request is out, so that what is held is in the jars.
LEMMA DayStep == ASSUME IInv, NEW s \in Tokens, Day(s) PROVE IInv'
<1> USE DEF IInv
<1>1. UNCHANGED <<current, previous, of, jar, call>>
  BY DEF Day
<1>2. \A d \in Devices, t \in Tokens : HeldAt(d, t) => jar[d] = t
  BY DEF Day, Types, HeldAt
<1>3. \A d \in Devices, t \in Tokens : HeldAt(d, t)' <=> HeldAt(d, t)
  BY <1>1 DEF HeldAt
<1>4. Opened' = Opened
  BY <1>1 DEF Opened
<1>5. Minted' /\ HeldNamed' /\ OneHome'
  BY <1>1, <1>3, <1>4 DEF Tracked, Minted, HeldNamed, OneHome
<1>6. DueOnce'
  BY <1>2, <1>3 DEF DueOnce
<1>7. Types'
  BY <1>1 DEF Types, Day, Live, Opened, Out
<1>8. EndedAsAsked'
  BY DEF Day, EndedAsAsked, heard
<1> QED BY <1>5, <1>6, <1>7, <1>8 DEF Tracked

\* The end of a grace or of a session changes neither what is held nor its digests.
LEMMA QuietStep ==
    ASSUME IInv, (\E s \in Tokens : GraceEnds(s) \/ Expire(s)) \/ UNCHANGED vars
    PROVE  IInv'
<1> USE DEF IInv
<1>1. UNCHANGED <<current, previous, of, jar, call, due, revoked, asked>>
  BY DEF GraceEnds, Expire, vars, rows, heard
<1>2. NoneGained
  BY <1>1 DEF NoneGained, HeldAt
<1>3. Tracked'
  BY <1>1, <1>2, KeepTrack
<1>4. Types' /\ EndedAsAsked'
  BY <1>1 DEF Types, EndedAsAsked, Out
<1> QED BY <1>3, <1>4

LEMMA Inductive == IInv /\ [Next]_vars => IInv'
<1> SUFFICES ASSUME IInv, [Next]_vars PROVE IInv'
  OBVIOUS
<1>1. ASSUME NEW x \in Tabs, Serve(x) PROVE IInv'
  BY <1>1, CallStep, LoadStep, IssueOnStep, IssueSiteStep, EndStep DEF Serve
<1> QED BY <1>1, CallStep, DayStep, QuietStep DEF Next

\* The database ends exactly the sessions that people meant to end.
THEOREM EndedAsAskedHolds == Spec => []EndedAsAsked
<1>1. IInv => EndedAsAsked
  BY DEF IInv
<1> QED BY <1>1, InitIInv, Inductive, PTL DEF Spec
------------------------------------------------------------------------------
(***************************************************************************)
(* What a device that heard every answer in time and in order may count on. *)
(* Everywhere is what holds of all rows and requests; Steady(d) is what     *)
(* holds at such a device d.  Of two requests out there at once neither     *)
(* replaces the credential (OneMove).  The jar holds the session the device   *)
(* was put on, unless an answer on its way replaces it (OnItsSession) or it *)
(* is a handheld that a change of site left on the session it ended, and    *)
(* its current token, unless an answer on its way brings that one while the *)
(* grace of the rotation lasts (NewestOnItsWay).  An answer brings nothing  *)
(* older (Brings), and a request carries a token of the jar's session       *)
(* (Carries) that resolves to it when it has still to (StillNames).         *)
(***************************************************************************)

\* The answer to x replaces what its device holds.
Replaces(x) ==
    /\ call[x].at = "answered"
    /\ call[x].kind \in Moves
    /\ call[x].kind = "off" \/ call[x].set # Nil

\* What a request carries and brings, wherever it is sent from.
Proper(x) ==
    /\ call[x].at \in {"sent", "resolved"} => call[x].set = Nil
    /\ call[x].at \in {"sent", "resolved", "issued"} /\ call[x].kind # "on" => call[x].token # Nil
    /\ call[x].at = "issued" => /\ call[x].kind = "site" /\ call[x].set # Nil
                                /\ of[call[x].set] = call[x].set
                                /\ of[call[x].token] # call[x].set

RowsSound ==
    /\ on \in [Devices -> Maybe]
    /\ \A d \in Devices : on[d] # Nil => on[d] \in Live
    /\ grace \subseteq Tokens \ due
    /\ revoked \cup expired \subseteq Opened

Everywhere == RowsSound /\ \A x \in Tabs : Proper(x)

OneMove(d) ==
    \A x, y \in OutAt(d) : x # y => call[x].kind \notin Moves

OnItsSession(d) ==
    on[d] # Nil /\ d \notin stranded =>
        /\ (\A x \in OutAt(d) : ~Replaces(x)) => jar[d] # Nil /\ of[jar[d]] = on[d]
        /\ \A x \in OutAt(d) : Replaces(x) => /\ call[x].kind # "off"
                                              /\ call[x].kind = "site" => d \notin Handhelds
                                              /\ call[x].set = on[d] /\ of[on[d]] = on[d]

NewestOnItsWay(d) ==
    LET t == jar[d] IN
    t # Nil /\ t # current[of[t]] =>
        /\ of[t] \in grace
        /\ \E x \in OutAt(d) : /\ call[x].at = "answered" /\ call[x].kind \notin Moves
                               /\ call[x].set = current[of[t]]

Brings(d) ==
    \A x \in OutAt(d) :
        LET t == call[x].set IN
        t # Nil =>
            /\ t = current[of[t]]
            /\ call[x].kind \notin Moves =>
                   /\ call[x].at = "answered" /\ d \notin Handhelds
                   /\ jar[d] # Nil /\ of[t] = of[jar[d]] /\ of[t] \in grace

Carries(d) ==
    \A x \in OutAt(d) :
        call[x].at # "answered" /\ call[x].token # Nil =>
            jar[d] # Nil /\ of[call[x].token] = of[jar[d]]

StillNames(d) ==
    \A x \in OutAt(d) :
        LET t == call[x].token IN
        call[x].at = "sent" /\ t # Nil => t = current[of[t]] \/ of[t] \in grace

Steady(d) ==
    /\ OneMove(d) /\ OnItsSession(d) /\ NewestOnItsWay(d)
    /\ Brings(d) /\ Carries(d) /\ StillNames(d)

SteadyPart ==
    /\ Everywhere
    /\ \A d \in Devices \ disturbed : Steady(d)
    /\ NobodyTurnedAway

SteadyInv == IInv /\ SteadyPart

\* A device whose jar and requests a step leaves alone, and whose tokens and their
\* sessions too, stays as it was.
LEMMA Frame ==
    ASSUME Types, NEW d \in Devices, Steady(d),
           jar'[d] = jar[d], on'[d] \in {on[d], Nil}, d \in stranded => d \in stranded',
           \A x \in Tabs : DeviceOf[x] = d => call'[x] = call[x],
           \A t \in Tokens : HeldAt(d, t) =>
               /\ of'[t] = of[t] /\ current'[of[t]] = current[of[t]]
               /\ of[t] \in grace => of[t] \in grace'
    PROVE  Steady(d)'
<1>1. OutAt(d)' = OutAt(d) /\ \A x \in OutAt(d) : call'[x] = call[x] /\ x \in Tabs
  BY DEF OutAt, Out
<1>2. \A x \in OutAt(d) : Replaces(x)' <=> Replaces(x)
  BY <1>1 DEF Replaces
<1>3. jar[d] # Nil => jar[d] \in Tokens /\ HeldAt(d, jar[d])
  BY DEF Types, HeldAt
<1>4. \A x \in OutAt(d) : \A t \in {call[x].token, call[x].set} :
          t # Nil => t \in Tokens /\ HeldAt(d, t)
  BY DEF Types, Calls, OutAt, HeldAt
<1>5. OneMove(d)'
  BY <1>1 DEF Steady, OneMove
<1>6. OnItsSession(d)'
  <2> SUFFICES ASSUME on'[d] # Nil, d \notin stranded'
               PROVE  /\ (\A x \in OutAt(d)' : ~Replaces(x)') =>
                             jar'[d] # Nil /\ of'[jar'[d]] = on'[d]
                      /\ \A x \in OutAt(d)' : Replaces(x)' =>
                             /\ call'[x].kind # "off"
                             /\ call'[x].kind = "site" => d \notin Handhelds
                             /\ call'[x].set = on'[d] /\ of'[on'[d]] = on'[d]
    BY DEF OnItsSession
  <2>1. on'[d] = on[d] /\ on[d] # Nil /\ d \notin stranded
    OBVIOUS
  <2>2. (\A x \in OutAt(d)' : ~Replaces(x)') => jar'[d] # Nil /\ of'[jar'[d]] = on'[d]
    BY <2>1, <1>1, <1>2, <1>3 DEF Steady, OnItsSession
  <2>3. ASSUME NEW x \in OutAt(d)', Replaces(x)'
        PROVE  /\ call'[x].kind # "off"
               /\ call'[x].kind = "site" => d \notin Handhelds
               /\ call'[x].set = on'[d] /\ of'[on'[d]] = on'[d]
    BY <2>1, <2>3, <1>1, <1>2, <1>4 DEF Steady, OnItsSession
  <2> QED BY <2>2, <2>3
<1>7. NewestOnItsWay(d)'
  BY <1>1, <1>3 DEF Steady, NewestOnItsWay
<1>8. Brings(d)'
  BY <1>1, <1>3, <1>4 DEF Steady, Brings
<1>9. Carries(d)'
  BY <1>1, <1>3, <1>4 DEF Steady, Carries
<1>10. StillNames(d)'
  BY <1>1, <1>4 DEF Steady, StillNames
<1> QED BY <1>5, <1>6, <1>7, <1>8, <1>9, <1>10 DEF Steady

\* A request that replaces the credential is out alone, and its jar is up to date.
LEMMA Mover ==
    ASSUME Types, NEW d \in Devices, Steady(d), NEW x \in OutAt(d), call[x].kind \in Moves
    PROVE  /\ OutAt(d) = {x}
           /\ jar[d] = Nil \/ jar[d] = current[of[jar[d]]]
BY DEF Steady, OneMove, NewestOnItsWay

\* A request that is served without an answer that sets or ends anything.
LEMMA ServedSteady ==
    ASSUME Types, NEW x \in Tabs, NEW d \in Devices, d = DeviceOf[x], Steady(d),
           call[x].at \in {"sent", "resolved", "issued"},
           call'[x].at \in {"resolved", "answered"},
           call'[x].at = "answered" => call[x].kind # "off",
           call'[x].kind = call[x].kind, call'[x].set = Nil,
           call'[x].token \in {call[x].token, Nil},
           \A y \in Tabs \ {x} : call'[y] = call[y],
           jar' = jar, on'[d] \in {on[d], Nil}, UNCHANGED <<current, of, grace, stranded>>
    PROVE  Steady(d)'
<1>1. OutAt(d)' = OutAt(d) /\ x \in OutAt(d) /\ OutAt(d) \subseteq Tabs
  <2>1. Out(x) /\ Out(x)' /\ \A y \in Tabs \ {x} : Out(y)' <=> Out(y)
    BY DEF Out
  <2> QED BY <2>1 DEF OutAt
<1>2. ~Replaces(x) /\ ~Replaces(x)' /\ \A y \in Tabs \ {x} : Replaces(y)' <=> Replaces(y)
  BY DEF Replaces
<1>3. OneMove(d)'
  <2>1. \A y \in Tabs : call'[y].kind = call[y].kind
    OBVIOUS
  <2> QED BY <1>1, <2>1 DEF Steady, OneMove
<1>4. OnItsSession(d)'
  BY <1>1, <1>2 DEF Steady, OnItsSession
<1>5. NewestOnItsWay(d)'
  <2> SUFFICES ASSUME jar[d] # Nil, jar[d] # current[of[jar[d]]]
               PROVE  /\ of[jar[d]] \in grace
                      /\ \E y \in OutAt(d) :
                            /\ call'[y].at = "answered" /\ call'[y].kind \notin Moves
                            /\ call'[y].set = current[of[jar[d]]]
    BY <1>1 DEF NewestOnItsWay
  <2>1. PICK y \in OutAt(d) : /\ call[y].at = "answered" /\ call[y].kind \notin Moves
                              /\ call[y].set = current[of[jar[d]]]
    BY DEF Steady, NewestOnItsWay
  <2>2. y # x /\ call'[y] = call[y]
    BY <2>1, <1>1
  <2> QED BY <2>1, <2>2 DEF Steady, NewestOnItsWay
<1>6. Brings(d)'
  BY <1>1 DEF Steady, Brings
<1>7. Carries(d)'
  BY <1>1 DEF Steady, Carries
<1>8. StillNames(d)'
  BY <1>1 DEF Steady, StillNames
<1> QED BY <1>3, <1>4, <1>5, <1>6, <1>7, <1>8 DEF Steady
\* A request that a step leaves alone, and its tokens too, stays a proper one.
LEMMA ProperKept ==
    ASSUME Types, NEW x \in Tabs, Proper(x), call'[x] = call[x],
           \A t \in Tokens : HeldAt(DeviceOf[x], t) => of'[t] = of[t]
    PROVE  Proper(x)'
<1>1. \A t \in {call[x].token, call[x].set} : t # Nil => of'[t] = of[t]
  BY DEF Types, Calls, HeldAt
<1> QED BY <1>1 DEF Proper, Out

\* A session that is opened is no session of a token that a device holds.
LEMMA OpenKeeps ==
    ASSUME IInv, NEW n \in Fresh, Open(n)
    PROVE  /\ n \in Tokens /\ n \notin Opened /\ n # Nil
           /\ Opened' = Opened \cup {n} /\ of'[n] = n /\ current'[n] = n
           /\ \A d \in Devices, t \in Tokens : HeldAt(d, t) =>
                  of'[t] = of[t] /\ current'[of[t]] = current[of[t]] /\ of[t] # n
<1>1. n \in Tokens /\ of[n] = Nil /\ n \notin Opened /\ n # Nil
  BY DEF Fresh, IInv, Tracked, Minted
<1>2. /\ \A t \in Tokens : t # n => current'[t] = current[t] /\ of'[t] = of[t]
      /\ current'[n] = n /\ of'[n] = n
  BY <1>1 DEF Open, IInv, Types
<1>3. Opened' = Opened \cup {n}
  BY <1>1, <1>2 DEF Opened
<1>4. ASSUME NEW d \in Devices, NEW t \in Tokens, HeldAt(d, t)
      PROVE  of'[t] = of[t] /\ current'[of[t]] = current[of[t]] /\ of[t] # n
  <2>1. of[t] \in Opened /\ of[t] \in Tokens /\ t # n
    BY <1>1, <1>4 DEF IInv, Tracked, HeldNamed, Opened
  <2> QED BY <2>1, <1>1, <1>2
<1> QED BY <1>1, <1>2, <1>3, <1>4

\* Someone signs on: the device is put on the new session, whose token is on its way.
LEMMA IssueOnSteady ==
    ASSUME SteadyInv, NEW x \in Tabs, IssueOn(x) PROVE SteadyPart'
<1> DEFINE e == DeviceOf[x]
<1> USE DEF SteadyInv
<1> PICK n \in Fresh : Open(n) /\ Answer(x, n) /\ on' = [on EXCEPT ![e] = n] /\ stranded' = stranded \ {e}
  BY DEF IssueOn
<1>1. /\ Types /\ e \in Devices /\ x \in OutAt(e) /\ call[x].kind = "on" /\ call[x].at = "sent"
      /\ UNCHANGED <<grace, due, revoked, expired, jar, turned, disturbed>>
  BY DEF IInv, IssueOn, OutAt, Out
<1>2. /\ call'[x] = [at |-> "answered", kind |-> "on", token |-> Nil, due |-> FALSE, set |-> n]
      /\ \A y \in Tabs \ {x} : call'[y] = call[y]
  BY <1>1 DEF Types, Answer, Calls
<1>3. on'[e] = n /\ \A d \in Devices \ {e} : on'[d] = on[d]
  BY <1>1 DEF SteadyPart, Everywhere, RowsSound
<1>4. RowsSound'
  BY <1>1, <1>3, OpenKeeps DEF SteadyPart, Everywhere, RowsSound, Live
<1>5. ASSUME NEW y \in Tabs PROVE Proper(y)'
  <2>1. CASE y = x
    BY <2>1, <1>2 DEF Proper
  <2>2. CASE y # x
    <3>1. Proper(y) /\ DeviceOf[y] \in Devices
      BY DEF SteadyPart, Everywhere
    <3> QED BY <2>2, <3>1, <1>1, <1>2, OpenKeeps, ProperKept
  <2> QED BY <2>1, <2>2
<1>6. ASSUME NEW d \in Devices \ disturbed, d # e PROVE Steady(d)'
  <2>1. Steady(d)
    BY DEF SteadyPart
  <2>2. jar'[d] = jar[d] /\ on'[d] = on[d] /\ (d \in stranded => d \in stranded')
    BY <1>1, <1>3, <1>6
  <2>3. \A y \in Tabs : DeviceOf[y] = d => call'[y] = call[y]
    BY <1>2, <1>6
  <2> QED BY <1>1, <2>1, <2>2, <2>3, OpenKeeps, Frame
<1>7. ASSUME e \notin disturbed PROVE Steady(e)'
  <2>1. OutAt(e) = {x} /\ (jar[e] = Nil \/ jar[e] = current[of[jar[e]]])
    BY <1>1, <1>7, Mover DEF SteadyPart, Moves
  <2>2. OutAt(e)' = {x}
    BY <2>1, <1>2 DEF OutAt, Out
  <2>3. Replaces(x)'
    BY <1>2, OpenKeeps DEF Replaces, Moves
  <2>4. jar[e] # Nil => jar[e] = current'[of'[jar[e]]]
    BY <2>1, <1>1, OpenKeeps DEF Types, HeldAt
  <2>5. OneMove(e)' /\ OnItsSession(e)'
    BY <2>2, <2>3, <1>2, <1>3, OpenKeeps DEF OneMove, OnItsSession
  <2>6. NewestOnItsWay(e)'
    BY <2>4, <1>1 DEF NewestOnItsWay
  <2>7. Brings(e)'
    BY <2>2, <1>2, OpenKeeps DEF Brings, Moves
  <2>8. Carries(e)' /\ StillNames(e)'
    BY <2>2, <1>2 DEF Carries, StillNames
  <2> QED BY <2>5, <2>6, <2>7, <2>8 DEF Steady
<1>8. NobodyTurnedAway'
  BY <1>1 DEF SteadyPart, NobodyTurnedAway
<1> QED BY <1>1, <1>4, <1>5, <1>6, <1>7, <1>8 DEF SteadyPart, Everywhere

\* A site is chosen: the new session is there, and the device still on the old one.
LEMMA IssueSiteSteady ==
    ASSUME SteadyInv, NEW x \in Tabs, IssueSite(x) PROVE SteadyPart'
<1> DEFINE e == DeviceOf[x]
<1> USE DEF SteadyInv
<1> PICK n \in Fresh :
        Open(n) /\ call' = [call EXCEPT ![x].at = "issued", ![x].set = n]
  BY DEF IssueSite
<1>0. /\ n \in Tokens /\ n # Nil
      /\ Opened' = Opened \cup {n} /\ of'[n] = n /\ current'[n] = n
      /\ \A d \in Devices, t \in Tokens : HeldAt(d, t) =>
             of'[t] = of[t] /\ current'[of[t]] = current[of[t]] /\ of[t] # n
  BY OpenKeeps
<1>1. /\ Types /\ e \in Devices /\ x \in OutAt(e) /\ call[x].kind = "site" /\ call[x].at = "resolved"
      /\ call[x] \in Calls
      /\ UNCHANGED <<grace, due, revoked, expired, jar, on, turned, disturbed, stranded>>
  BY DEF IInv, IssueSite, OutAt, Out, heard, Types
<1>2. /\ call'[x].at = "issued" /\ call'[x].kind = "site" /\ call'[x].set = n
      /\ call'[x].token = call[x].token
      /\ \A y \in Tabs \ {x} : call'[y] = call[y]
  BY <1>1 DEF Types, Calls
<1>3. call[x].token \in Tokens /\ of'[call[x].token] = of[call[x].token]
      /\ of[call[x].token] # n
  <2>1. call[x].token # Nil
    BY <1>1 DEF SteadyPart, Everywhere, Proper
  <2>2. call[x].token \in Tokens /\ HeldAt(e, call[x].token)
    BY <1>1, <2>1 DEF Calls, HeldAt
  <2> QED BY <2>2, <1>1, <1>0
<1>4. RowsSound'
  BY <1>1, <1>0 DEF SteadyPart, Everywhere, RowsSound, Live
<1>5. ASSUME NEW y \in Tabs PROVE Proper(y)'
  <2>0. Proper(y) /\ DeviceOf[y] \in Devices
    BY DEF SteadyPart, Everywhere
  <2>1. CASE y = x
    BY <2>0, <2>1, <1>1, <1>2, <1>3, <1>0 DEF Proper, Out
  <2>2. CASE y # x
    BY <2>0, <2>2, <1>1, <1>2, <1>0, ProperKept
  <2> QED BY <2>1, <2>2
<1>6. ASSUME NEW d \in Devices \ disturbed, d # e PROVE Steady(d)'
  <2>1. Steady(d)
    BY DEF SteadyPart
  <2>2. \A y \in Tabs : DeviceOf[y] = d => call'[y] = call[y]
    BY <1>2, <1>6
  <2>3. jar'[d] = jar[d] /\ on'[d] = on[d] /\ grace' = grace
    BY <1>1
  <2> QED BY <1>1, <2>1, <2>2, <2>3, <1>0, Frame
<1>7. ASSUME e \notin disturbed PROVE Steady(e)'
  <2>1. OutAt(e) = {x} /\ (jar[e] = Nil \/ jar[e] = current[of[jar[e]]]) /\ Steady(e)
    BY <1>1, <1>7, Mover DEF SteadyPart, Moves
  <2>2. OutAt(e)' = {x}
    BY <2>1, <1>2 DEF OutAt, Out
  <2>3. ~Replaces(x) /\ ~Replaces(x)'
    BY <1>1, <1>2 DEF Replaces
  <2>4. jar[e] # Nil => /\ jar[e] = current'[of'[jar[e]]]
                        /\ of'[jar[e]] = of[jar[e]]
    BY <2>1, <1>1, <1>0 DEF Types, HeldAt
  <2>5. OneMove(e)' /\ OnItsSession(e)'
    BY <2>1, <2>2, <2>3, <2>4, <1>1 DEF OneMove, OnItsSession, Steady
  <2>6. NewestOnItsWay(e)'
    BY <2>4, <1>1 DEF NewestOnItsWay
  <2>7. Brings(e)'
    BY <2>2, <1>2, <1>0 DEF Brings, Moves
  <2>8. Carries(e)'
    BY <2>1, <2>2, <2>4, <1>1, <1>2, <1>3 DEF Carries, Steady
  <2>9. StillNames(e)'
    BY <2>2, <1>2 DEF StillNames
  <2> QED BY <2>5, <2>6, <2>7, <2>8, <2>9 DEF Steady
<1>8. NobodyTurnedAway'
  BY <1>1 DEF SteadyPart, NobodyTurnedAway
<1> QED BY <1>1, <1>4, <1>5, <1>6, <1>7, <1>8 DEF SteadyPart, Everywhere
\* Sessions that are ended are nobody's any more.
LEMMA LeftOn ==
    ASSUME RowsSound, NEW S \in SUBSET Tokens
    PROVE  /\ Left(S) \in [Devices -> Maybe]
           /\ \A d \in Devices : /\ Left(S)[d] \in {on[d], Nil}
                                 /\ Left(S)[d] # Nil => on[d] \notin S
BY DEF RowsSound, Left

\* The steps that end sessions, where they take them from their devices.
LEMMA EndRows ==
    ASSUME SteadyInv, NEW S \in SUBSET Opened, revoked' = revoked \cup S,
           on' \in [Devices -> Maybe],
           \A d \in Devices : on'[d] # Nil => on'[d] \in Live \ S,
           UNCHANGED <<current, grace, due, expired>>
    PROVE  RowsSound'
<1>1. Opened' = Opened
  BY DEF Opened
<1>2. Live' = Live \ S
  BY <1>1 DEF Live
<1> QED BY <1>1, <1>2 DEF SteadyInv, SteadyPart, Everywhere, RowsSound

\* The session that was left is ended, and the answer puts the device on the new one.
LEMMA CloseOldSteady ==
    ASSUME SteadyInv, NEW x \in Tabs, CloseOld(x) PROVE SteadyPart'
<1> DEFINE e == DeviceOf[x]  t == call[x].token  n == call[x].set
<1> USE DEF SteadyInv
<1>1. /\ Types /\ e \in Devices /\ x \in OutAt(e) /\ call[x].at = "issued"
      /\ n \in Maybe
      /\ UNCHANGED <<current, of, grace, due, expired, jar, turned, disturbed>>
      /\ stranded' = IF e \in Handhelds THEN stranded \cup {e} ELSE stranded
  BY DEF IInv, CloseOld, OutAt, Out, Types, Calls
<1>2. Proper(x) /\ call[x].kind = "site" /\ n \in Tokens /\ of[n] = n /\ of[t] # n
  BY <1>1 DEF SteadyPart, Everywhere, Proper
<1>3. /\ call'[x] = [at |-> "answered", kind |-> "site", token |-> Nil, due |-> FALSE, set |-> n]
      /\ \A y \in Tabs \ {x} : call'[y] = call[y]
  BY <1>1, <1>2 DEF CloseOld, Types, Answer, Calls
<1>4. AnswersTo(t) = Meant(t) /\ Meant(t) \in SUBSET Opened /\ n \notin Meant(t)
      /\ Meant(t) \in SUBSET Tokens
  BY <1>1, <1>2, AnswersToMeant DEF IInv, Meant, Opened
<1>5. /\ on' \in [Devices -> Maybe]
      /\ on'[e] = IF n \in Live THEN n ELSE Nil
      /\ \A d \in Devices \ {e} : on'[d] = Left(Meant(t))[d]
  <2> DEFINE L == Left(Meant(t))  r == IF n \in Live THEN n ELSE Nil
  <2>1. L \in [Devices -> Maybe]
    BY <1>4, LeftOn DEF SteadyPart, Everywhere
  <2>2. on' = [L EXCEPT ![e] = r] /\ r \in Maybe
    BY <1>1 DEF CloseOld
  <2> HIDE DEF L, r
  <2>3. on' \in [Devices -> Maybe] /\ on'[e] = r /\ \A d \in Devices \ {e} : on'[d] = L[d]
    BY <1>1, <2>1, <2>2
  <2> QED BY <2>3 DEF L, r
<1>6. RowsSound'
  <2>1. \A d \in Devices \ {e} : on'[d] # Nil => on'[d] \in Live \ Meant(t)
    BY <1>4, <1>5, LeftOn DEF SteadyPart, Everywhere, RowsSound
  <2>2. on'[e] # Nil => on'[e] \in Live \ Meant(t)
    BY <1>4, <1>5
  <2>3. revoked' = revoked \cup Meant(t)
    BY <1>4 DEF CloseOld
  <2>4. \A d \in Devices : on'[d] # Nil => on'[d] \in Live \ Meant(t)
    BY <2>1, <2>2
  <2>5. UNCHANGED <<current, grace, due, expired>> /\ on' \in [Devices -> Maybe]
    BY <1>1, <1>5
  <2> QED BY <2>3, <2>4, <2>5, <1>4, EndRows
<1>7. ASSUME NEW y \in Tabs PROVE Proper(y)'
  <2>1. CASE y = x
    BY <2>1, <1>1, <1>2, <1>3 DEF Proper, Out
  <2>2. CASE y # x
    <3>1. Proper(y) /\ DeviceOf[y] \in Devices
      BY DEF SteadyPart, Everywhere
    <3> QED BY <2>2, <3>1, <1>1, <1>3, ProperKept
  <2> QED BY <2>1, <2>2
<1>8. ASSUME NEW d \in Devices \ disturbed, d # e PROVE Steady(d)'
  <2>1. Steady(d) /\ jar'[d] = jar[d]
    BY <1>1 DEF SteadyPart
  <2>2. on'[d] \in {on[d], Nil}
    BY <1>4, <1>5, <1>8, LeftOn DEF SteadyPart, Everywhere
  <2>3. \A y \in Tabs : DeviceOf[y] = d => call'[y] = call[y]
    BY <1>3, <1>8
  <2> QED BY <1>1, <2>1, <2>2, <2>3, Frame
<1>9. ASSUME e \notin disturbed PROVE Steady(e)'
  <2>1. OutAt(e) = {x} /\ (jar[e] = Nil \/ jar[e] = current[of[jar[e]]]) /\ Steady(e)
    BY <1>1, <1>2, <1>9, Mover DEF SteadyPart, Moves
  <2>2. OutAt(e)' = {x}
    BY <2>1, <1>3 DEF OutAt, Out
  <2>3. Replaces(x)'
    BY <1>2, <1>3 DEF Replaces, Moves
  <2>4. OneMove(e)' /\ OnItsSession(e)'
    BY <2>2, <2>3, <1>1, <1>2, <1>3, <1>5 DEF OneMove, OnItsSession
  <2>5. NewestOnItsWay(e)'
    BY <2>1, <1>1 DEF NewestOnItsWay
  <2>6. Brings(e)'
    <3>1. n = current[of[n]]
      BY <2>1, <1>1, <1>2 DEF Steady, Brings
    <3> QED BY <2>2, <3>1, <1>1, <1>3 DEF Brings, Moves
  <2>7. Carries(e)' /\ StillNames(e)'
    BY <2>2, <1>3 DEF Carries, StillNames
  <2> QED BY <2>4, <2>5, <2>6, <2>7 DEF Steady
<1>10. NobodyTurnedAway'
  BY <1>1 DEF SteadyPart, NobodyTurnedAway
<1> QED BY <1>1, <1>6, <1>7, <1>8, <1>9, <1>10 DEF SteadyPart, Everywhere

\* Signing off: the device's own session is the one that is ended.
LEMMA OffSteady ==
    ASSUME SteadyInv, NEW x \in Tabs, Off(x) PROVE SteadyPart'
<1> DEFINE e == DeviceOf[x]  t == call[x].token
<1> USE DEF SteadyInv
<1>1. /\ Types /\ e \in Devices /\ x \in OutAt(e) /\ call[x].at = "sent"
      /\ call[x].kind = "off"
      /\ UNCHANGED <<current, of, grace, due, expired, jar, turned, disturbed, stranded>>
  BY DEF IInv, Off, OutAt, Out, Types
<1>2. t \in Tokens
  BY <1>1 DEF SteadyPart, Everywhere, Proper, Types, Calls
<1>3. /\ call'[x] = [at |-> "answered", kind |-> "off", token |-> Nil, due |-> FALSE, set |-> Nil]
      /\ \A y \in Tabs \ {x} : call'[y] = call[y]
  BY <1>1 DEF Off, Types, Answer, Calls
<1>4. AnswersTo(t) = Meant(t) /\ Meant(t) \in SUBSET Opened /\ Meant(t) \in SUBSET Tokens
  BY <1>1, AnswersToMeant DEF IInv, Meant, Opened
<1>5. /\ on' \in [Devices -> Maybe]
      /\ \A d \in Devices : /\ on'[d] \in {on[d], Nil}
                            /\ on'[d] # Nil => on[d] \notin Meant(t)
  BY <1>4, LeftOn DEF Off, SteadyPart, Everywhere
<1>6. RowsSound'
  <2>1. \A d \in Devices : on'[d] # Nil => on'[d] \in Live \ Meant(t)
    BY <1>5 DEF SteadyPart, Everywhere, RowsSound
  <2>2. revoked' = revoked \cup Meant(t)
    BY <1>4 DEF Off
  <2> QED BY <2>1, <2>2, <1>1, <1>4, <1>5, EndRows
<1>7. ASSUME NEW y \in Tabs PROVE Proper(y)'
  <2>1. CASE y = x
    BY <2>1, <1>3 DEF Proper
  <2>2. CASE y # x
    <3>1. Proper(y) /\ DeviceOf[y] \in Devices
      BY DEF SteadyPart, Everywhere
    <3> QED BY <2>2, <3>1, <1>1, <1>3, ProperKept
  <2> QED BY <2>1, <2>2
<1>8. ASSUME NEW d \in Devices \ disturbed, d # e PROVE Steady(d)'
  <2>1. Steady(d) /\ jar'[d] = jar[d] /\ on'[d] \in {on[d], Nil}
    BY <1>1, <1>5 DEF SteadyPart
  <2>3. \A y \in Tabs : DeviceOf[y] = d => call'[y] = call[y]
    BY <1>3, <1>8
  <2> QED BY <1>1, <2>1, <2>3, Frame
<1>9. ASSUME e \notin disturbed PROVE Steady(e)'
  <2>1. OutAt(e) = {x} /\ (jar[e] = Nil \/ jar[e] = current[of[jar[e]]]) /\ Steady(e)
    BY <1>1, <1>9, Mover DEF SteadyPart, Moves
  <2>2. OutAt(e)' = {x}
    BY <2>1, <1>3 DEF OutAt, Out
  <2>3. on'[e] = Nil \/ e \in stranded'
    <3>1. SUFFICES ASSUME on[e] # Nil, e \notin stranded PROVE on[e] \in Meant(t)
      BY <1>1, <1>5
    <3>2. ~Replaces(x)
      BY <1>1 DEF Replaces
    <3>3. jar[e] # Nil /\ of[jar[e]] = on[e]
      BY <2>1, <3>1, <3>2 DEF Steady, OnItsSession
    <3>4. of[t] = of[jar[e]]
      BY <2>1, <1>1, <1>2 DEF Steady, Carries
    <3>5. on[e] \in Opened
      BY <1>1, <3>1 DEF SteadyPart, Everywhere, RowsSound, Live
    <3> QED BY <3>3, <3>4, <3>5, <1>2 DEF Meant
  <2>4. OneMove(e)' /\ OnItsSession(e)'
    BY <2>2, <2>3 DEF OneMove, OnItsSession
  <2>5. NewestOnItsWay(e)'
    BY <2>1, <1>1 DEF NewestOnItsWay
  <2>6. Brings(e)' /\ Carries(e)' /\ StillNames(e)'
    BY <2>2, <1>3 DEF Brings, Carries, StillNames
  <2> QED BY <2>4, <2>5, <2>6 DEF Steady
<1>10. NobodyTurnedAway'
  BY <1>1 DEF SteadyPart, NobodyTurnedAway
<1> QED BY <1>1, <1>6, <1>7, <1>8, <1>9, <1>10 DEF SteadyPart, Everywhere
\* What a request is served with, short of an answer that sets or ends its own session.
Served(x) ==
    /\ call[x].at \in {"sent", "resolved", "issued"}
    /\ call'[x].at \in {"resolved", "answered"}
    /\ call'[x].at = "answered" => call[x].kind # "off"
    /\ call'[x].at = "resolved" => call[x].at = "sent" /\ call'[x].token = call[x].token
    /\ call'[x].kind = call[x].kind /\ call'[x].set = Nil
    /\ call'[x].token \in {call[x].token, Nil}
    /\ \A y \in Tabs \ {x} : call'[y] = call[y]

LEMMA ServedPart ==
    ASSUME SteadyInv, NEW x \in Tabs, Served(x),
           UNCHANGED <<current, of, grace, jar, disturbed, stranded>>,
           \A d \in Devices : on'[d] \in {on[d], Nil},
           RowsSound', turned' \subseteq disturbed
    PROVE  SteadyPart'
<1> DEFINE e == DeviceOf[x]
<1>1. Types /\ e \in Devices
  BY DEF SteadyInv, IInv
<1>2. ASSUME NEW y \in Tabs PROVE Proper(y)'
  <2>0. Proper(y) /\ DeviceOf[y] \in Devices
    BY DEF SteadyInv, SteadyPart, Everywhere
  <2>1. CASE y = x
    BY <2>0, <2>1 DEF Proper, Out, Served
  <2>2. CASE y # x
    BY <2>0, <2>2, <1>1, ProperKept DEF Served
  <2> QED BY <2>1, <2>2
<1>3. ASSUME NEW d \in Devices \ disturbed PROVE Steady(d)'
  <2>0. Steady(d) /\ on'[d] \in {on[d], Nil}
    BY DEF SteadyInv, SteadyPart
  <2>1. CASE d = e
    BY <2>0, <2>1, <1>1, ServedSteady DEF Served
  <2>2. CASE d # e
    BY <2>0, <2>2, <1>1, Frame DEF Served
  <2> QED BY <2>1, <2>2
<1> QED BY <1>2, <1>3 DEF SteadyPart, Everywhere, NobodyTurnedAway

\* An answer that sets nothing, to anything but a sign-off.
LEMMA AnswerServes ==
    ASSUME Types, NEW x \in Tabs, Answer(x, Nil), call[x].kind # "off",
           call[x].at \in {"sent", "resolved", "issued"}
    PROVE  Served(x)
<1>1. /\ call'[x] = [at |-> "answered", kind |-> call[x].kind, token |-> Nil,
                     due |-> FALSE, set |-> Nil]
      /\ \A y \in Tabs \ {x} : call'[y] = call[y]
  BY DEF Types, Answer, Calls
<1> QED BY <1>1 DEF Served

\* A device that heard every answer has a token that resolves to its session while it is open.
LEMMA TurnedFits ==
    ASSUME SteadyInv, NEW x \in Tabs, call[x].at = "sent", call[x].token # Nil,
           DeviceOf[x] \notin disturbed, Meant(call[x].token) \cap Live # {}
    PROVE  Resolved(call[x].token) # {}
<1> DEFINE t == call[x].token  d == DeviceOf[x]
<1>1. t \in Tokens /\ d \in Devices /\ x \in OutAt(d) /\ HeldAt(d, t)
  BY DEF SteadyInv, IInv, Types, Calls, OutAt, Out, HeldAt
<1>2. of[t] \in Live /\ of[t] \in Tokens
  BY DEF Meant, Live, Opened
<1>3. t \in {current[of[t]], previous[of[t]]}
  BY <1>1 DEF SteadyInv, IInv, Tracked, HeldNamed
<1>4. t = current[of[t]] \/ of[t] \in grace
  BY <1>1 DEF SteadyInv, SteadyPart, Steady, StillNames
<1>5. Names(t, of[t])
  BY <1>3, <1>4 DEF Names
<1> QED BY <1>2, <1>5 DEF Resolved

LEMMA ResolveSteady ==
    ASSUME SteadyInv, NEW x \in Tabs, Resolve(x) PROVE SteadyPart'
<1> DEFINE t == call[x].token
<1>1. /\ Types /\ call[x].at = "sent" /\ call[x].kind \in {"load", "site", "password"}
      /\ t # Nil /\ call[x] \in Calls /\ call[x].set = Nil /\ DeviceOf[x] \in Devices
      /\ UNCHANGED <<current, of, grace, due, revoked, expired, jar, on, disturbed, stranded>>
  BY DEF SteadyInv, IInv, SteadyPart, Everywhere, Proper, Resolve, rows, Types
<1>2. RowsSound'
  BY <1>1 DEF SteadyInv, SteadyPart, Everywhere, RowsSound, Live, Opened
<1>3. Served(x) /\ turned' \subseteq disturbed
  <2>0. turned \subseteq disturbed
    BY DEF SteadyInv, SteadyPart, NobodyTurnedAway
  <2>1. \/ /\ turned' = turned
           /\ \E s \in Resolved(t) :
                 call' = [call EXCEPT ![x].at = "resolved", ![x].due = (s \in due)]
        \/ /\ Resolved(t) = {} /\ Answer(x, Nil)
           /\ turned' = IF Meant(t) \cap Live = {} THEN turned
                        ELSE turned \cup {DeviceOf[x]}
    BY Zenon DEF Resolve
  <2>2. ASSUME turned' = turned, NEW s \in Resolved(t),
               call' = [call EXCEPT ![x].at = "resolved", ![x].due = (s \in due)]
        PROVE  Served(x) /\ turned' \subseteq disturbed
    <3> DEFINE b == s \in due
    <3>a. b \in BOOLEAN
      OBVIOUS
    <3>b. call' = [call EXCEPT ![x].at = "resolved", ![x].due = b]
      BY <2>2, Zenon
    <3> HIDE DEF b
    <3>1. /\ call'[x].at = "resolved" /\ call'[x].kind = call[x].kind
          /\ call'[x].token = call[x].token /\ call'[x].set = call[x].set
          /\ \A y \in Tabs \ {x} : call'[y] = call[y]
      BY <1>1, <3>a, <3>b DEF Types, Calls
    <3> QED BY <1>1, <2>0, <2>2, <3>1 DEF Served
  <2>3. ASSUME Resolved(t) = {}, Answer(x, Nil),
               turned' = IF Meant(t) \cap Live = {} THEN turned
                         ELSE turned \cup {DeviceOf[x]}
        PROVE  Served(x) /\ turned' \subseteq disturbed
    <3>1. Served(x)
      BY <1>1, <2>3, AnswerServes
    <3>2. Meant(t) \cap Live # {} => DeviceOf[x] \in disturbed
      BY <1>1, <2>3, TurnedFits
    <3> QED BY <2>0, <2>3, <3>1, <3>2
  <2> QED BY <2>1, <2>2, <2>3
<1> QED BY <1>1, <1>2, <1>3, ServedPart DEF SteadyInv

\* A wrong site or password, and a handler that was cut off, leave the rows alone.
LEMMA RejectSteady ==
    ASSUME SteadyInv, NEW x \in Tabs, Reject(x) \/ Cut(x) PROVE SteadyPart'
<1>1. /\ Types /\ Answer(x, Nil) /\ call[x].kind # "off"
      /\ call[x].at \in {"sent", "resolved", "issued"}
      /\ UNCHANGED <<current, of, grace, due, revoked, expired, jar, on, turned, disturbed, stranded>>
  BY DEF SteadyInv, IInv, Reject, Cut, rows, heard
<1>2. RowsSound'
  BY <1>1 DEF SteadyInv, SteadyPart, Everywhere, RowsSound, Live, Opened
<1>3. turned' \subseteq disturbed
  BY <1>1 DEF SteadyInv, SteadyPart, NobodyTurnedAway
<1> QED BY <1>1, <1>2, <1>3, AnswerServes, ServedPart

LEMMA RevokeOthersSteady ==
    ASSUME SteadyInv, NEW x \in Tabs, RevokeOthers(x) PROVE SteadyPart'
<1> DEFINE t == call[x].token  others == Opened \ Meant(t)
<1>1. /\ Types /\ Answer(x, Nil) /\ call[x].kind # "off" /\ call[x].at = "resolved"
      /\ on' = Left(others)
      /\ UNCHANGED <<current, of, grace, due, expired, jar, turned, disturbed, stranded>>
  BY DEF SteadyInv, IInv, RevokeOthers
<1>2. revoked' = revoked \cup others /\ others \in SUBSET Opened /\ others \in SUBSET Tokens
  BY AnswersToMeant DEF SteadyInv, IInv, RevokeOthers, Opened
<1>3. RowsSound /\ turned \subseteq disturbed
  BY DEF SteadyInv, SteadyPart, Everywhere, NobodyTurnedAway
<1>4. /\ on' \in [Devices -> Maybe]
      /\ \A d \in Devices : on'[d] \in {on[d], Nil} /\ (on'[d] # Nil => on[d] \notin others)
  BY <1>1, <1>2, <1>3, LeftOn
<1>5. RowsSound'
  <2>1. \A d \in Devices : on'[d] # Nil => on'[d] \in Live \ others
    BY <1>3, <1>4 DEF RowsSound
  <2> QED BY <2>1, <1>1, <1>2, <1>4, EndRows
<1> QED BY <1>1, <1>3, <1>4, <1>5, AnswerServes, ServedPart
\* The rotation of a session: its device has the old token, and the answer to x brings
\* the new one; a due session is in no grace, so no other answer brings a token of it.
LEMMA RotateSteady ==
    ASSUME SteadyInv, NEW x \in Tabs, call[x].at = "resolved", call[x].kind = "load",
           Rotates(x), NEW s \in Rotatable(call[x].token), NEW n \in Fresh,
           current' = [current EXCEPT ![s] = n],
           grace' = grace \cup {s}, due' = due \ {s},
           of' = [of EXCEPT ![n] = of[call[x].token]], Answer(x, n),
           UNCHANGED <<revoked, expired, jar, heard>>
    PROVE  SteadyPart'
<1> DEFINE e == DeviceOf[x]  t == call[x].token
<1> USE DEF SteadyInv
<1>1. /\ Types /\ e \in Devices \ Handhelds /\ x \in OutAt(e)
      /\ UNCHANGED <<on, turned, disturbed, stranded>>
  BY DEF IInv, Rotates, OutAt, Out, heard
<1>2. s \in Tokens /\ s \in due /\ s \in Live /\ s \in Opened /\ current[s] = t
  BY DEF Rotatable, Live, Opened
<1>3. t \in Tokens /\ t # Nil /\ of[t] = s /\ HeldAt(e, t)
  BY <1>1, <1>2 DEF Opened, IInv, Tracked, Minted, Types, HeldAt
<1>4. n \in Tokens /\ n # Nil /\ of[n] = Nil
  BY DEF Fresh
<1>5. /\ current'[s] = n /\ \A r \in Tokens \ {s} : current'[r] = current[r]
      /\ of'[n] = s /\ \A u \in Tokens \ {n} : of'[u] = of[u]
  BY <1>1, <1>2, <1>3, <1>4 DEF Types
<1>6. ASSUME NEW d \in Devices, NEW u \in Tokens, HeldAt(d, u)
      PROVE  u # n /\ of'[u] = of[u] /\ of[u] \in Tokens /\ (of[u] = s => d = e /\ u = t)
  <2>1. of[u] \in Opened
    BY <1>6 DEF IInv, Tracked, HeldNamed
  <2>2. of[u] = s => d = e
    BY <1>1, <1>3, <1>6 DEF IInv, Tracked, OneHome
  <2>3. of[u] = s => u = t
    BY <2>2, <1>1, <1>2, <1>3, <1>6 DEF IInv, Tracked, DueOnce
  <2> QED BY <2>1, <2>2, <2>3, <1>4, <1>5 DEF Opened
<1>7. /\ call'[x] = [at |-> "answered", kind |-> "load", token |-> Nil, due |-> FALSE, set |-> n]
      /\ \A y \in Tabs \ {x} : call'[y] = call[y]
  BY <1>1 DEF Types, Answer, Calls
<1>8. RowsSound'
  <2>1. Opened' = Opened
    BY <1>2, <1>4, <1>5 DEF Opened
  <2> QED BY <2>1, <1>1, <1>2 DEF SteadyPart, Everywhere, RowsSound, Live
<1>9. ASSUME NEW y \in Tabs PROVE Proper(y)'
  <2>0. Proper(y) /\ DeviceOf[y] \in Devices
    BY DEF SteadyPart, Everywhere
  <2>1. CASE y = x
    BY <2>1, <1>7 DEF Proper
  <2>2. CASE y # x
    BY <2>0, <2>2, <1>1, <1>6, <1>7, ProperKept
  <2> QED BY <2>1, <2>2
<1>10. ASSUME NEW d \in Devices \ disturbed, d # e PROVE Steady(d)'
  <2>1. Steady(d) /\ jar'[d] = jar[d] /\ on'[d] = on[d]
    BY <1>1 DEF SteadyPart
  <2>2. \A y \in Tabs : DeviceOf[y] = d => call'[y] = call[y]
    BY <1>7, <1>10
  <2>3. \A u \in Tokens : HeldAt(d, u) =>
            /\ of'[u] = of[u] /\ current'[of[u]] = current[of[u]]
            /\ of[u] \in grace => of[u] \in grace'
    BY <1>5, <1>6, <1>10
  <2> QED BY <1>1, <2>1, <2>2, <2>3, Frame
<1>11. ASSUME e \notin disturbed PROVE Steady(e)'
  <2> DEFINE k == jar[e]
  <2>1. Steady(e) /\ Proper(x)
    BY <1>1, <1>11 DEF SteadyPart, Everywhere
  <2>2. OutAt(e)' = OutAt(e) /\ OutAt(e) \subseteq Tabs
    <3>1. Out(x) /\ Out(x)' /\ \A y \in Tabs \ {x} : Out(y)' <=> Out(y)
      BY <1>7 DEF Out
    <3> QED BY <3>1 DEF OutAt
  <2>3. \A y \in OutAt(e) : Replaces(y)' <=> Replaces(y)
    <3>1. ~Replaces(x) /\ ~Replaces(x)'
      BY <1>7 DEF Replaces, Moves
    <3> QED BY <2>2, <3>1, <1>7 DEF Replaces
  <2>4. \A y \in OutAt(e) : \A u \in {call[y].token, call[y].set} :
            u # Nil => u \in Tokens /\ HeldAt(e, u)
    BY <1>1 DEF Types, Calls, OutAt, HeldAt
  <2>5. k # Nil /\ k \in Tokens /\ HeldAt(e, k) /\ of[k] = s
    <3>1. k # Nil /\ of[k] = s
      BY <2>1, <1>1, <1>3 DEF Steady, Carries
    <3> QED BY <3>1, <1>1 DEF Types, HeldAt
  <2>6. k = t
    BY <2>5, <1>1, <1>6
  <2>7. OneMove(e)'
    <3>1. \A y \in OutAt(e) : call'[y].kind = call[y].kind
      BY <2>2, <1>7
    <3> QED BY <2>1, <2>2, <3>1 DEF Steady, OneMove
  <2>8. OnItsSession(e)'
    <3> SUFFICES ASSUME on[e] # Nil, e \notin stranded
                 PROVE  /\ (\A y \in OutAt(e) : ~Replaces(y)) => k # Nil /\ of'[k] = on[e]
                        /\ \A y \in OutAt(e) : Replaces(y) =>
                               /\ call'[y].kind # "off"
                               /\ call'[y].kind = "site" => e \notin Handhelds
                               /\ call'[y].set = on[e] /\ of'[on[e]] = on[e]
      BY <2>2, <2>3, <1>1 DEF OnItsSession
    <3>1. (\A y \in OutAt(e) : ~Replaces(y)) => k # Nil /\ of'[k] = on[e]
      BY <2>1, <2>5, <1>1, <1>6 DEF Steady, OnItsSession
    <3>2. ASSUME NEW y \in OutAt(e), Replaces(y)
          PROVE  /\ call'[y].kind # "off"
                 /\ call'[y].kind = "site" => e \notin Handhelds
                 /\ call'[y].set = on[e] /\ of'[on[e]] = on[e]
      <4>1. y # x
        BY <3>2 DEF Replaces, Moves
      <4>2. call[y].kind # "off" /\ call[y].set = on[e] /\ of[on[e]] = on[e]
        BY <2>1, <3>2 DEF Steady, OnItsSession
      <4>3. of'[on[e]] = of[on[e]]
        BY <4>2, <2>4, <1>1, <1>6
      <4> QED BY <4>1, <4>2, <4>3, <2>2, <1>1, <1>7
    <3> QED BY <3>1, <3>2
  <2>9. NewestOnItsWay(e)'
    BY <2>2, <2>5, <1>1, <1>4, <1>5, <1>6, <1>7 DEF NewestOnItsWay, Moves
  <2>10. Brings(e)'
    <3> SUFFICES ASSUME NEW y \in OutAt(e), call'[y].set # Nil
                 PROVE  /\ call'[y].set = current'[of'[call'[y].set]]
                        /\ call'[y].kind \notin Moves =>
                              /\ call'[y].at = "answered" /\ e \notin Handhelds
                              /\ k # Nil /\ of'[call'[y].set] = of'[k]
                              /\ of'[call'[y].set] \in grace'
      BY <2>2, <1>1 DEF Brings
    <3>1. CASE y = x
      BY <3>1, <2>5, <2>6, <1>1, <1>3, <1>4, <1>5, <1>6, <1>7
    <3>2. CASE y # x
      <4> DEFINE u == call[y].set
      <4>1. call'[y] = call[y] /\ u \in Tokens /\ HeldAt(e, u)
        BY <3>2, <2>2, <2>4, <1>7
      <4>2. call[y].kind \notin Moves
        BY <3>2, <2>1, <1>1 DEF Steady, OneMove
      <4>3. u = current[of[u]] /\ call[y].at = "answered" /\ of[u] = of[k] /\ of[u] \in grace
        BY <4>1, <4>2, <2>1 DEF Steady, Brings
      <4>4. s \notin grace
        BY <1>2 DEF SteadyPart, Everywhere, RowsSound
      <4> QED BY <4>3, <4>4, <2>5
    <3> QED BY <3>1, <3>2
  <2>11. Carries(e)'
    BY <2>1, <2>2, <2>4, <2>5, <1>1, <1>6, <1>7 DEF Steady, Carries
  <2>12. StillNames(e)'
    <3> SUFFICES ASSUME NEW y \in OutAt(e), call'[y].at = "sent", call'[y].token # Nil
                 PROVE  \/ call'[y].token = current'[of'[call'[y].token]]
                        \/ of'[call'[y].token] \in grace'
      BY <2>2 DEF StillNames
    <3> DEFINE u == call[y].token
    <3>1. y # x /\ call'[y] = call[y] /\ u \in Tokens /\ HeldAt(e, u)
      BY <2>2, <2>4, <1>7
    <3>2. of'[u] = of[u] /\ of[u] \in Tokens
      BY <3>1, <1>1, <1>6
    <3>3. u = current[of[u]] \/ of[u] \in grace
      BY <3>1, <2>1 DEF Steady, StillNames
    <3> QED BY <3>1, <3>2, <3>3, <1>5
  <2> QED BY <2>7, <2>8, <2>9, <2>10, <2>11, <2>12 DEF Steady
<1>12. NobodyTurnedAway'
  BY <1>1 DEF SteadyPart, NobodyTurnedAway
<1> QED BY <1>1, <1>8, <1>9, <1>10, <1>11, <1>12 DEF SteadyPart, Everywhere

LEMMA LoadSteady ==
    ASSUME SteadyInv, NEW x \in Tabs, Load(x) PROVE SteadyPart'
<1>1. /\ Types /\ call[x].at = "resolved" /\ call[x].kind = "load"
      /\ UNCHANGED <<revoked, expired, jar, on, turned, disturbed, stranded, heard>>
  BY DEF SteadyInv, IInv, Load, heard
<1>2. CASE Answer(x, Nil) /\ UNCHANGED <<current, previous, grace, due, of>>
  <2>1. RowsSound'
    BY <1>1, <1>2 DEF SteadyInv, SteadyPart, Everywhere, RowsSound, Live, Opened
  <2>2. turned' \subseteq disturbed
    BY <1>1 DEF SteadyInv, SteadyPart, NobodyTurnedAway
  <2> QED BY <1>1, <1>2, <2>1, <2>2, AnswerServes, ServedPart
<1>3. CASE Rotates(x) /\ \E s \in Rotatable(call[x].token), n \in Fresh :
                /\ current' = [current EXCEPT ![s] = n]
                /\ grace' = grace \cup {s}
                /\ due' = due \ {s}
                /\ of' = [of EXCEPT ![n] = of[call[x].token]]
                /\ Answer(x, n)
  BY <1>1, <1>3, RotateSteady
<1> QED BY <1>2, <1>3 DEF Load
\* A request that is over, and that brought its device nothing.
LEMMA GoneSteady ==
    ASSUME Types, Tracked, NEW x \in Tabs, NEW d \in Devices, d = DeviceOf[x], Steady(d),
           ~Replaces(x), call[x].at = "answered" => call[x].set = Nil,
           call'[x] = Idle, \A y \in Tabs \ {x} : call'[y] = call[y],
           jar'[d] = jar[d], on'[d] = on[d], UNCHANGED <<current, of, grace, stranded>>
    PROVE  Steady(d)'
<1>1. OutAt(d)' = OutAt(d) \ {x} /\ OutAt(d) \subseteq Tabs
  BY DEF OutAt, Out, Idle
<1>2. \A y \in OutAt(d)' : call'[y] = call[y] /\ y \in OutAt(d) /\ (Replaces(y)' <=> Replaces(y))
  BY <1>1 DEF Replaces
<1>3. OneMove(d)'
  BY <1>2 DEF Steady, OneMove
<1>4. OnItsSession(d)'
  BY <1>1, <1>2 DEF Steady, OnItsSession
<1>5. NewestOnItsWay(d)'
  <2> SUFFICES ASSUME jar[d] # Nil, jar[d] # current[of[jar[d]]]
               PROVE  /\ of[jar[d]] \in grace
                      /\ \E y \in OutAt(d)' :
                            /\ call'[y].at = "answered" /\ call'[y].kind \notin Moves
                            /\ call'[y].set = current[of[jar[d]]]
    BY DEF NewestOnItsWay
  <2>1. PICK y \in OutAt(d) : /\ call[y].at = "answered" /\ call[y].kind \notin Moves
                              /\ call[y].set = current[of[jar[d]]]
    BY DEF Steady, NewestOnItsWay
  <2>2. current[of[jar[d]]] # Nil
    BY DEF Types, Tracked, HeldNamed, HeldAt, Opened
  <2>3. y \in OutAt(d)' /\ call'[y] = call[y]
    BY <2>1, <2>2, <1>1
  <2> QED BY <2>1, <2>3 DEF Steady, NewestOnItsWay
<1>6. Brings(d)'
  BY <1>2 DEF Steady, Brings
<1>7. Carries(d)' /\ StillNames(d)'
  BY <1>2 DEF Steady, Carries, StillNames
<1> QED BY <1>3, <1>4, <1>5, <1>6, <1>7 DEF Steady

\* The steps of tab x that end its request and touch nothing but its device.
LEMMA OverPart ==
    ASSUME SteadyInv, NEW x \in Tabs, call'[x] = Idle,
           \A y \in Tabs \ {x} : call'[y] = call[y],
           \A d \in Devices \ {DeviceOf[x]} : jar'[d] = jar[d],
           UNCHANGED <<rows, of, on, turned, stranded>>, disturbed \subseteq disturbed',
           DeviceOf[x] \notin disturbed' => Steady(DeviceOf[x])'
    PROVE  SteadyPart'
<1>1. Types /\ UNCHANGED <<current, grace, due, revoked, expired>>
  BY DEF SteadyInv, IInv, rows
<1>2. RowsSound'
  BY <1>1 DEF SteadyInv, SteadyPart, Everywhere, RowsSound, Live, Opened
<1>3. ASSUME NEW y \in Tabs PROVE Proper(y)'
  <2>0. Proper(y)
    BY DEF SteadyInv, SteadyPart, Everywhere
  <2>1. CASE y = x
    BY <2>1 DEF Proper, Out, Idle
  <2>2. CASE y # x
    BY <2>0, <2>2, <1>1, ProperKept
  <2> QED BY <2>1, <2>2
<1>4. ASSUME NEW d \in Devices \ disturbed' PROVE Steady(d)'
  <2>1. CASE d = DeviceOf[x]
    BY <2>1
  <2>2. CASE d # DeviceOf[x]
    <3>1. Steady(d)
      BY DEF SteadyInv, SteadyPart
    <3> QED BY <2>2, <3>1, <1>1, Frame
  <2> QED BY <2>1, <2>2
<1>5. NobodyTurnedAway'
  BY DEF SteadyInv, SteadyPart, NobodyTurnedAway
<1> QED BY <1>2, <1>3, <1>4, <1>5 DEF SteadyPart, Everywhere

\* An answer is heard: what it brings is the device's session and its current token.
LEMMA HearSteady ==
    ASSUME SteadyInv, NEW x \in Tabs, Hear(x)
    PROVE  SteadyPart'
<1> DEFINE d == DeviceOf[x]  c == call[x]
<1> USE DEF SteadyInv
<1>1. /\ Types /\ Tracked /\ d \in Devices /\ x \in OutAt(d) /\ c.at = "answered"
      /\ c.set \in Maybe /\ c.kind \in Kinds
      /\ UNCHANGED <<rows, current, of, grace, on, turned, disturbed, stranded>>
  BY DEF IInv, Hear, OutAt, Out, rows, heard, Types, Calls
<1>2. /\ call'[x] = Idle /\ \A y \in Tabs \ {x} : call'[y] = call[y]
      /\ jar'[d] = Holds(x) /\ \A e \in Devices \ {d} : jar'[e] = jar[e]
  BY <1>1 DEF Hear, Types
<1>3. ASSUME d \notin disturbed PROVE Steady(d)'
  <2>0. Steady(d) /\ Proper(x)
    BY <1>1, <1>3 DEF SteadyPart, Everywhere
  <2>1. CASE c.kind # "off" /\ c.set = Nil
    <3>1. ~Replaces(x) /\ jar'[d] = jar[d]
      BY <2>1, <1>2 DEF Replaces, Holds
    <3> QED BY <2>0, <2>1, <3>1, <1>1, <1>2, GoneSteady
  <2>2. CASE c.kind = "off"
    <3>1. OutAt(d)' = {} /\ jar'[d] = Nil
      <4>1. OutAt(d) = {x}
        BY <2>0, <2>2, <1>1, Mover DEF Moves
      <4> QED BY <4>1, <2>2, <1>2 DEF OutAt, Out, Idle, Holds
    <3>2. on[d] = Nil \/ d \in stranded
      BY <2>0, <2>2, <1>1 DEF Steady, OnItsSession, Replaces, Moves
    <3> QED BY <3>1, <3>2, <1>1 DEF Steady, OneMove, OnItsSession, NewestOnItsWay, Brings,
                                     Carries, StillNames
  <2>3. CASE c.kind \in {"on", "site"} /\ c.set # Nil /\ ~(c.kind = "site" /\ d \in Handhelds)
    <3>1. OutAt(d) = {x} /\ OutAt(d)' = {}
      <4>1. OutAt(d) = {x}
        BY <2>0, <2>3, <1>1, Mover DEF Moves
      <4> QED BY <4>1, <1>2 DEF OutAt, Out, Idle
    <3>2. jar'[d] = c.set
      BY <2>3, <1>2 DEF Holds
    <3>3. c.set = current[of[c.set]]
      BY <2>0, <2>3, <1>1 DEF Steady, Brings
    <3>4. on[d] # Nil /\ d \notin stranded => c.set = on[d] /\ of[c.set] = on[d]
      BY <2>0, <2>3, <1>1 DEF Steady, OnItsSession, Replaces, Moves
    <3> QED BY <2>3, <3>1, <3>2, <3>3, <3>4, <1>1
            DEF Steady, OneMove, OnItsSession, NewestOnItsWay, Brings, Carries, StillNames
  <2>4. CASE c.kind \notin Moves /\ c.set # Nil
    <3> DEFINE n == c.set
    <3>1. /\ d \notin Handhelds /\ jar[d] # Nil /\ of[n] = of[jar[d]]
          /\ n = current[of[n]]
      BY <2>0, <2>4, <1>1 DEF Steady, Brings
    <3>2. jar'[d] = n
      BY <2>4, <3>1, <1>2 DEF Holds, Moves
    <3>3. OutAt(d)' = OutAt(d) \ {x} /\ OutAt(d) \subseteq Tabs
      BY <1>2 DEF OutAt, Out, Idle
    <3>4. \A y \in OutAt(d)' : call'[y] = call[y] /\ y \in OutAt(d) /\ y # x
      BY <3>3, <1>2
    <3>5. \A y \in OutAt(d) : ~Replaces(y) \/ y = x
      BY <2>0, <1>1 DEF Steady, OneMove, Replaces
    <3>6. ~Replaces(x) /\ \A y \in OutAt(d)' : ~Replaces(y)'
      BY <2>4, <3>4, <3>5 DEF Replaces
    <3>7. OneMove(d)'
      BY <2>0, <3>4 DEF Steady, OneMove
    <3>8. OnItsSession(d)'
      BY <2>0, <2>4, <3>1, <3>2, <3>5, <3>6, <1>1 DEF Steady, OnItsSession
    <3>9. NewestOnItsWay(d)'
      BY <3>1, <3>2, <1>1 DEF NewestOnItsWay
    <3>10. Brings(d)'
      BY <2>0, <2>4, <3>1, <3>2, <3>4, <1>1 DEF Steady, Brings
    <3>11. Carries(d)' /\ StillNames(d)'
      BY <2>0, <2>4, <3>1, <3>2, <3>4, <1>1 DEF Steady, Carries, StillNames
    <3> QED BY <3>7, <3>8, <3>9, <3>10, <3>11 DEF Steady
  <2>5. CASE c.kind = "site" /\ c.set # Nil /\ d \in Handhelds
    <3>1. OutAt(d) = {x} /\ OutAt(d)' = {} /\ (jar[d] = Nil \/ jar[d] = current[of[jar[d]]])
      <4>1. OutAt(d) = {x} /\ (jar[d] = Nil \/ jar[d] = current[of[jar[d]]])
        BY <2>0, <2>5, <1>1, Mover DEF Moves
      <4> QED BY <4>1, <1>2 DEF OutAt, Out, Idle
    <3>2. jar'[d] = jar[d]
      BY <2>5, <1>2 DEF Holds
    <3>3. on[d] = Nil \/ d \in stranded
      BY <2>0, <2>5, <1>1 DEF Steady, OnItsSession, Replaces, Moves
    <3> QED BY <3>1, <3>2, <3>3, <1>1
            DEF Steady, OneMove, OnItsSession, NewestOnItsWay, Brings, Carries, StillNames
  <2> QED BY <2>1, <2>2, <2>3, <2>4, <2>5 DEF Moves
<1> QED BY <1>1, <1>2, <1>3, OverPart

\* A request or an answer is lost: the device is disturbed, or was to be told nothing.
LEMMA LoseSteady ==
    ASSUME SteadyInv, NEW x \in Tabs, Lose(x) PROVE SteadyPart'
<1> DEFINE d == DeviceOf[x]  c == call[x]
           forgets == c.kind = "off" /\ d \in Handhelds
           missed  == c.at = "answered" /\ (c.set # Nil \/ c.kind = "off")
<1> USE DEF SteadyInv
<1>1. /\ Types /\ Tracked /\ d \in Devices
      /\ UNCHANGED <<rows, current, of, grace, on, turned, stranded>>
      /\ disturbed \subseteq disturbed'
      /\ forgets \/ missed => d \in disturbed'
  BY DEF IInv, Lose, rows
<1>2. /\ call'[x] = Idle /\ \A y \in Tabs \ {x} : call'[y] = call[y]
      /\ \A e \in Devices \ {d} : jar'[e] = jar[e]
      /\ ~forgets => jar' = jar
  BY <1>1 DEF Lose, Types
<1>3. ASSUME d \notin disturbed' PROVE Steady(d)'
  <2>1. Steady(d)
    BY <1>1, <1>3 DEF SteadyPart
  <2>2. ~Replaces(x) /\ (c.at = "answered" => c.set = Nil)
    BY <1>1, <1>3 DEF Replaces
  <2>3. jar'[d] = jar[d]
    BY <1>1, <1>2, <1>3
  <2> QED BY <2>1, <2>2, <2>3, <1>1, <1>2, GoneSteady
<1> QED BY <1>1, <1>2, <1>3, OverPart

\* A request is sent with what the jar holds, which names the session of the device.
LEMMA SendSteady ==
    ASSUME SteadyInv, NEW x \in Tabs, NEW k \in Kinds, Send(x, k) PROVE SteadyPart'
<1> DEFINE d == DeviceOf[x]  t == IF k = "on" THEN Nil ELSE jar[d]
<1> USE DEF SteadyInv
<1>1. /\ Types /\ d \in Devices /\ x \notin OutAt(d) /\ jar[d] \in Maybe
      /\ k # "on" => t # Nil
      /\ UNCHANGED <<rows, jar, of, on, turned, stranded>>
      /\ UNCHANGED <<current, grace, due, revoked, expired>>
  BY DEF IInv, Send, OutAt, rows, Types
<1>2. /\ call'[x] = [at |-> "sent", kind |-> k, due |-> FALSE, token |-> t, set |-> Nil]
      /\ \A y \in Tabs \ {x} : call'[y] = call[y]
  BY <1>1 DEF Send, Types
<1>3. RowsSound'
  BY <1>1 DEF SteadyPart, Everywhere, RowsSound, Live, Opened
<1>4. ASSUME NEW y \in Tabs PROVE Proper(y)'
  <2>0. Proper(y)
    BY DEF SteadyPart, Everywhere
  <2>1. CASE y = x
    BY <2>1, <1>1, <1>2 DEF Proper
  <2>2. CASE y # x
    BY <2>0, <2>2, <1>1, <1>2, ProperKept
  <2> QED BY <2>1, <2>2
<1>5. disturbed' = IF Crosses(x, k) THEN disturbed \cup {d} ELSE disturbed
  BY DEF Send
<1>6. ASSUME NEW e \in Devices \ disturbed', e # d PROVE Steady(e)'
  <2>1. Steady(e)
    BY <1>5 DEF SteadyPart
  <2> QED BY <2>1, <1>1, <1>2, <1>6, Frame
<1>7. ASSUME d \notin disturbed' PROVE Steady(d)'
  <2>1. Steady(d) /\ ~Crosses(x, k)
    BY <1>1, <1>5, <1>7 DEF SteadyPart
  <2>2. OutAt(d)' = OutAt(d) \cup {x} /\ OutAt(d) \subseteq Tabs
    BY <1>2 DEF OutAt, Out
  <2>3. \A y \in OutAt(d) : /\ y # x /\ call'[y] = call[y]
                            /\ k \notin Moves /\ call[y].kind \notin Moves
    BY <2>1, <2>2, <1>1, <1>2 DEF Crosses
  <2>4. ~Replaces(x)' /\ \A y \in OutAt(d) : Replaces(y)' <=> Replaces(y)
    BY <2>3, <1>2 DEF Replaces
  <2>5. OneMove(d)'
    BY <2>2, <2>3, <1>2 DEF OneMove
  <2>6. OnItsSession(d)'
    BY <2>1, <2>2, <2>3, <2>4, <1>1 DEF Steady, OnItsSession
  <2>7. NewestOnItsWay(d)'
    BY <2>1, <2>2, <2>3, <1>1 DEF Steady, NewestOnItsWay
  <2>8. Brings(d)'
    BY <2>1, <2>2, <2>3, <1>1, <1>2 DEF Steady, Brings
  <2>9. Carries(d)'
    BY <2>1, <2>2, <2>3, <1>1, <1>2 DEF Steady, Carries
  <2>10. StillNames(d)'
    BY <2>1, <2>2, <2>3, <1>1, <1>2 DEF Steady, NewestOnItsWay, StillNames
  <2> QED BY <2>5, <2>6, <2>7, <2>8, <2>9, <2>10 DEF Steady
<1>8. NobodyTurnedAway'
  BY <1>1, <1>5 DEF SteadyPart, NobodyTurnedAway
<1> QED BY <1>3, <1>4, <1>6, <1>7, <1>8 DEF SteadyPart, Everywhere
\* Time: tokens come due and sessions expire; a grace that ends disturbs whoever was late.
LEMMA TimeSteady ==
    ASSUME SteadyInv, NEW s \in Tokens, Day(s) \/ Expire(s) PROVE SteadyPart'
<1> USE DEF SteadyInv
<1>1. /\ Types /\ s \in Opened
      /\ UNCHANGED <<current, of, grace, jar, call, turned, disturbed, stranded, revoked>>
  BY DEF IInv, Day, Expire, heard, Live
<1>2. RowsSound' /\ \A d \in Devices : on'[d] \in {on[d], Nil}
  <2>0. RowsSound /\ Opened' = Opened
    BY <1>1 DEF SteadyPart, Everywhere, Opened
  <2>1. CASE Day(s)
    BY <2>0, <2>1, <1>1 DEF RowsSound, Live, Day, heard
  <2>2. CASE Expire(s)
    <3>1. Left({s}) \in [Devices -> Maybe]
          /\ \A d \in Devices : /\ Left({s})[d] \in {on[d], Nil}
                                /\ Left({s})[d] # Nil => on[d] \notin {s}
      BY <2>0, LeftOn
    <3> QED BY <2>0, <2>2, <3>1, <1>1 DEF RowsSound, Live, Expire
  <2> QED BY <2>1, <2>2
<1>3. ASSUME NEW x \in Tabs PROVE Proper(x)'
  BY <1>1, ProperKept DEF SteadyPart, Everywhere
<1>4. ASSUME NEW d \in Devices \ disturbed PROVE Steady(d)'
  <2>1. Steady(d)
    BY DEF SteadyPart
  <2> QED BY <2>1, <1>1, <1>2, Frame
<1> QED BY <1>1, <1>2, <1>3, <1>4 DEF SteadyPart, Everywhere, NobodyTurnedAway

LEMMA GraceSteady ==
    ASSUME SteadyInv, NEW s \in Tokens, GraceEnds(s) PROVE SteadyPart'
<1> USE DEF SteadyInv
<1>1. /\ Types /\ Tracked /\ grace' = grace \ {s}
      /\ disturbed' = disturbed \cup {DeviceOf[x] : x \in {y \in Tabs : Late(y, s)}}
      /\ UNCHANGED <<current, of, jar, call, on, turned, stranded, due, revoked, expired>>
  BY DEF IInv, GraceEnds
<1>2. RowsSound'
  BY <1>1 DEF SteadyPart, Everywhere, RowsSound, Live, Opened
<1>3. ASSUME NEW x \in Tabs PROVE Proper(x)'
  BY <1>1, ProperKept DEF SteadyPart, Everywhere
<1>4. ASSUME NEW d \in Devices \ disturbed' PROVE Steady(d)'
  <2>1. Steady(d)
    BY <1>1 DEF SteadyPart
  <2>2. \A x \in OutAt(d) : x \in Tabs /\ Out(x) /\ ~Late(x, s)
    BY <1>1 DEF OutAt
  <2>3. OutAt(d)' = OutAt(d) /\ \A x \in OutAt(d) : Replaces(x)' <=> Replaces(x)
    BY <1>1 DEF OutAt, Out, Replaces
  <2>4. OneMove(d)' /\ OnItsSession(d)' /\ Carries(d)'
    BY <2>1, <2>3, <1>1 DEF Steady, OneMove, OnItsSession, Carries
  <2>5. NewestOnItsWay(d)'
    BY <2>1, <2>2, <2>3, <1>1 DEF Steady, NewestOnItsWay, Late
  <2>6. Brings(d)'
    BY <2>1, <2>2, <2>3, <1>1 DEF Steady, Brings, Late
  <2>7. StillNames(d)'
    <3> SUFFICES ASSUME NEW x \in OutAt(d), call[x].at = "sent", call[x].token # Nil
                 PROVE  \/ call[x].token = current[of[call[x].token]]
                        \/ of[call[x].token] \in grace \ {s}
      BY <2>3, <1>1 DEF StillNames
    <3> DEFINE t == call[x].token
    <3>1. t = current[of[t]] \/ of[t] \in grace
      BY <2>1 DEF Steady, StillNames
    <3>2. t \in Tokens /\ HeldAt(d, t)
      BY <1>1 DEF Types, Calls, OutAt, HeldAt
    <3>3. t \in {current[of[t]], previous[of[t]]}
      BY <3>2, <1>1 DEF Tracked, HeldNamed
    <3>4. t # previous[s]
      BY <2>2 DEF Late
    <3> QED BY <3>1, <3>3, <3>4
  <2> QED BY <2>4, <2>5, <2>6, <2>7 DEF Steady
<1>5. NobodyTurnedAway'
  BY <1>1 DEF SteadyPart, NobodyTurnedAway
<1> QED BY <1>2, <1>3, <1>4, <1>5 DEF SteadyPart, Everywhere

LEMMA StutterSteady == ASSUME SteadyInv, UNCHANGED vars PROVE SteadyPart'
<1>1. UNCHANGED <<current, previous, grace, due, revoked, expired, jar, call, of, on,
                  asked, turned, disturbed, stranded>>
  BY DEF vars, rows, heard
<1>2. \A d \in Devices : Steady(d)' <=> Steady(d)
  BY <1>1 DEF Steady, OneMove, OnItsSession, NewestOnItsWay, Brings, Carries, StillNames,
              OutAt, Out, Replaces
<1>3. Everywhere'
  BY <1>1 DEF SteadyInv, SteadyPart, Everywhere, RowsSound, Proper, Live, Opened, Out
<1> QED BY <1>1, <1>2, <1>3 DEF SteadyInv, SteadyPart, NobodyTurnedAway

LEMMA InitSteady == Init => SteadyInv
<1> SUFFICES ASSUME Init PROVE SteadyPart
  BY InitIInv DEF SteadyInv
<1>1. /\ \A x \in Tabs : ~Out(x) /\ call[x] = Idle
      /\ \A d \in Devices : OutAt(d) = {} /\ jar[d] = Nil /\ on[d] = Nil
      /\ Opened = {}
  BY DEF Init, Out, OutAt, Idle, Opened
<1>2. Everywhere
  BY <1>1 DEF Init, Everywhere, RowsSound, Proper, Idle
<1>3. \A d \in Devices : Steady(d)
  BY <1>1 DEF Steady, OneMove, OnItsSession, NewestOnItsWay, Brings, Carries, StillNames
<1> QED BY <1>2, <1>3 DEF Init, SteadyPart, NobodyTurnedAway

LEMMA SteadyInductive == SteadyInv /\ [Next]_vars => SteadyInv'
<1> SUFFICES ASSUME SteadyInv, [Next]_vars PROVE SteadyPart'
  BY Inductive DEF SteadyInv
<1>1. ASSUME NEW x \in Tabs, Serve(x) PROVE SteadyPart'
  BY <1>1, ResolveSteady, LoadSteady, IssueOnSteady, IssueSiteSteady, CloseOldSteady,
     OffSteady, RevokeOthersSteady, RejectSteady DEF Serve
<1>2. ASSUME NEW x \in Tabs, Hear(x) \/ Lose(x) \/ Cut(x) PROVE SteadyPart'
  BY <1>2, HearSteady, LoseSteady, RejectSteady
<1>3. ASSUME NEW s \in Tokens, Day(s) \/ GraceEnds(s) \/ Expire(s) PROVE SteadyPart'
  BY <1>3, TimeSteady, GraceSteady
<1> QED BY <1>1, <1>2, <1>3, SendSteady, StutterSteady DEF Next

LEMMA SteadyIsSignedIn == SteadyInv => SignedInStays
<1> SUFFICES ASSUME SteadyInv, NEW d \in Devices \ (disturbed \cup stranded),
                    Quiet(d), on[d] # Nil
             PROVE  Resolved(jar[d]) = {on[d]}
  BY DEF SignedInStays, StaysSignedIn, SteadyInv, SteadyPart
<1> DEFINE t == jar[d]
<1>1. Steady(d) /\ OutAt(d) = {} /\ on[d] \in Live
  BY DEF SteadyInv, SteadyPart, Everywhere, RowsSound, Quiet
<1>2. t # Nil /\ of[t] = on[d] /\ t = current[of[t]]
  BY <1>1 DEF Steady, OnItsSession, NewestOnItsWay
<1>3. on[d] \in Resolved(t)
  BY <1>1, <1>2 DEF Resolved, Names
<1>4. ASSUME NEW s \in Resolved(t) PROVE s = on[d]
  BY <1>2, <1>4 DEF Resolved, Names, Live, Opened, SteadyInv, IInv, Tracked, Minted
<1> QED BY <1>3, <1>4

\* A device that heard every answer in time and in order is never turned away, and stays
\* signed in, whatever its tabs do at once (rotated_cookie, session_resolve): every
\* browser, and a handheld as long as no site was chosen at it since it signed on, the
\* token of whose new session it does not take out of the answer (api.ts, chooseSite).
THEOREM SignedInStaysHolds == Spec => []SignedInStays
BY InitSteady, SteadyInductive, SteadyIsSignedIn, PTL DEF Spec

------------------------------------------------------------------------------
(***************************************************************************)
(* Accounts, for any people, requests and devices.  A request that may take   *)
(* an administrator away and read several leaves one, as long as nobody else    *)
(* took one since (Spare); a setup that succeeded found nobody there, and an     *)
(* enrolment that is past its claim is the one that claimed its ceremony         *)
(* (OnceInv).  Of the sessions that are open, a removal has seen all that were    *)
(* not opened since (Seen), and a change of password leaves none but its own     *)
(* (ChangedSince).                                                           *)
(***************************************************************************)

USE AccountsAssumption
USE DEF AccountsAssumption

Places   == {"new", "asked", "read", "written", "ended"}
Outcomes == {"none", "ok", "refused", "lost"}
People   == [is : {"none", "in", "left"}, role : Roles]
About    == {"add", "role", "leave"}
Pasts    == [taken : Nat, crossed : BOOLEAN, leaves : Nat, changed : Nat,
             kept : SUBSET Tokens, blind : BOOLEAN]
Proofs   == [by : {"none", "password", "key", "session", "digest", "changed"}, at : Nat]

PeopleTypes ==
    /\ at \in [Requests -> Places]
    /\ outcome \in [Requests -> Outcomes]
    /\ people \in [Persons -> People]
    /\ saw \in [Of(About) -> [person : People, sessions : SUBSET Tokens, taken : Nat]]
    /\ setup \in {"none", "good", "stale"}
    /\ past \in Pasts
    /\ password \in Nat
    /\ proof \in [Tabs -> Proofs]

\* Where a request can be.
Stages ==
    \A r \in Requests :
        /\ at[r] = "asked" => Asking[r].kind \notin {"setup", "import"}
        /\ at[r] = "read" => Asking[r].kind \in About \cup {"setup", "enrol"}
        /\ at[r] = "written" => Asking[r].kind \in {"leave", "setup"}

------------------------------------------------------------------------------
(* What a step does to the people *)

\* The devices leave the people, the requests and most of the past alone.
LEMMA DeviceKeeps ==
    ASSUME PeopleTypes, NEW x \in Tabs, Device(x)
    PROVE  /\ UNCHANGED <<asks, people, setup, keys, claimed, tokens>>
           /\ past' \in Pasts
           /\ past'.taken = past.taken /\ past'.crossed = past.crossed
           /\ past'.leaves = past.leaves /\ past'.blind = past.blind
<1>1. ASSUME SignOthersOff(x)
      PROVE  /\ UNCHANGED <<asks, people, setup, keys, claimed, tokens>>
             /\ past' \in Pasts
             /\ past'.taken = past.taken /\ past'.crossed = past.crossed
             /\ past'.leaves = past.leaves /\ past'.blind = past.blind
  <2>1. proof[x].at \in Nat /\ Meant(call[x].token) \subseteq Tokens
    BY DEF PeopleTypes, Proofs, Meant, Opened
  <2>2. past' = [past EXCEPT !.changed = proof[x].at, !.kept = Meant(call[x].token)]
    BY <1>1 DEF SignOthersOff
  <2>3. UNCHANGED <<asks, people, setup, keys, claimed, tokens>>
    BY <1>1 DEF SignOthersOff, tables
  <2> QED BY <2>1, <2>2, <2>3 DEF PeopleTypes, Pasts
<1>2. ASSUME ~SignOthersOff(x)
      PROVE  UNCHANGED <<asks, people, setup, keys, claimed, tokens, past>>
  BY <1>2 DEF Device, SendFrom, TypePassword, ShowKey, SignOn, SignOnSite, TurnAway,
       ResolveMember, ReadDigest, ChangePassword, Refuses, Quietly, tables, avars
<1> QED BY <1>1, <1>2 DEF PeopleTypes

\* What the devices prove, and the password.
LEMMA ProofsKept ==
    ASSUME PeopleTypes, NEW x \in Tabs, Device(x)
    PROVE  password' \in Nat /\ proof' \in [Tabs -> Proofs]
<1>1. ASSUME NEW how \in {"none", "password", "key", "session", "digest", "changed"}, NEW n \in Nat,
             proof' = [proof EXCEPT ![x] = [by |-> how, at |-> n]]
      PROVE  proof' \in [Tabs -> Proofs]
  BY <1>1 DEF PeopleTypes, Proofs
<1>2. ASSUME NEW how \in {"none", "password", "key", "session", "digest", "changed"}, Shows(x, how)
      PROVE  proof' \in [Tabs -> Proofs]
  BY <1>1, <1>2 DEF Shows, PeopleTypes
<1>3. Done(x) => proof' \in [Tabs -> Proofs]
  BY <1>1 DEF Done, NoProof
<1>4. UNCHANGED proof => proof' \in [Tabs -> Proofs]
  BY DEF PeopleTypes
<1>5. ASSUME ChangePassword(x) PROVE password' \in Nat /\ proof' \in [Tabs -> Proofs]
  <2>1. password + 1 \in Nat
    BY DEF PeopleTypes
  <2>2. /\ password' = password + 1
        /\ proof' = [proof EXCEPT ![x] = [by |-> "changed", at |-> password + 1]]
    BY <1>5 DEF ChangePassword
  <2> QED BY <1>1, <2>1, <2>2
<1>6. ~ChangePassword(x) => password' = password
  BY DEF Device, SendFrom, TypePassword, ShowKey, SignOn, SignOnSite, TurnAway,
       ResolveMember, ReadDigest, SignOthersOff, Refuses, Quietly, tables, avars
<1>7. ~ChangePassword(x) => Done(x) \/ UNCHANGED proof \/ \E how \in {"password", "key", "session", "digest"} : Shows(x, how)
  BY DEF Device, SendFrom, TypePassword, ShowKey, SignOn, SignOnSite, TurnAway,
       ResolveMember, ReadDigest, SignOthersOff, Refuses, Quietly, avars
<1> QED BY <1>2, <1>3, <1>4, <1>5, <1>6, <1>7 DEF PeopleTypes

\* The membership of whom r asks about becomes m, and r ends.
Alters(r, m) ==
    /\ r \in Of(About) /\ at[r] \in {"read", "written"} /\ at'[r] = "ended"
    /\ m \in People /\ m.is \in {"in", "left"}
    /\ Asking[r].kind = "role" => m = [is |-> "in", role |-> Asking[r].role]
    /\ m.is = "left" => at[r] = "written" /\ Asking[r].kind = "leave"
    /\ Becomes(r, m)
    /\ saw' = saw

\* The first administrator is made.
Makes(r) ==
    /\ r \in Of({"setup"}) /\ ~Somebody
    /\ at'[r] = "written"
    /\ people' = [people EXCEPT ![Asking[r].by] = [is |-> "in", role |-> "administrator"]]
    /\ past' = past /\ saw' = saw

\* A person, or what one reads of the past, is as before.
SameCrew == people' = people /\ past'.taken = past.taken /\ past'.crossed = past.crossed
            /\ past'.leaves = past.leaves

LEMMA RequestsAt ==
    ASSUME PeopleTypes, Stages, NEW r \in Requests, Request(r)
    PROVE  /\ \A q \in Requests \ {r} : at'[q] = at[q] /\ outcome'[q] = outcome[q]
           /\ at' \in [Requests -> Places] /\ outcome' \in [Requests -> Outcomes]
           /\ Stages'
           /\ UNCHANGED <<password, proof, opened, using>>
<1> DEFINE G == /\ \A q \in Requests \ {r} : at'[q] = at[q] /\ outcome'[q] = outcome[q]
                /\ at' \in [Requests -> Places] /\ outcome' \in [Requests -> Outcomes]
<1>1. ASSUME NEW where \in Places, Goes(r, where) PROVE G /\ at'[r] = where
  BY <1>1 DEF Goes, PeopleTypes
<1>2. ASSUME NEW how \in Outcomes, Ends(r, how) PROVE G /\ at'[r] = "ended"
  BY <1>2 DEF Ends, PeopleTypes, Places
<1>3. ASSUME NEW where \in Places, NEW how \in Outcomes,
             at' = [at EXCEPT ![r] = where], outcome' = [outcome EXCEPT ![r] = how]
      PROVE  G /\ at'[r] = where
  BY <1>3 DEF PeopleTypes
<1>4. RemoveToken(r) => G /\ at'[r] = "ended"
  BY DEF RemoveToken, PeopleTypes, Places
<1> HIDE DEF G
<1>a. Come(r) => G /\ (at'[r] = "ended" \/ (at'[r] = "asked" /\ Asking[r].kind \notin {"setup", "import"}))
  BY <1>1, <1>2 DEF Come, Places, Outcomes
<1>b. ReadPeople(r) => G /\ (at'[r] = "ended" \/ (at'[r] = "read" /\ Asking[r].kind \in About))
  BY <1>1, <1>2 DEF ReadPeople, Is, Places, Outcomes, About
<1>c. SetRole(r) => G /\ at'[r] = "ended"
  BY <1>2 DEF SetRole, Outcomes
<1>d. Add(r) => G /\ at'[r] = "ended"
  BY <1>2 DEF Add, Outcomes
<1>e. EndSessions(r) => G /\ at'[r] = "written" /\ Asking[r].kind = "leave"
  BY <1>1 DEF EndSessions, Is, Places
<1>f. Leave(r) => G /\ at'[r] = "ended"
  BY <1>2 DEF Leave, Outcomes
<1>g. Match(r) => G /\ (at'[r] = "ended" \/ (at'[r] = "read" /\ Asking[r].kind = "setup"))
  BY <1>1, <1>2 DEF Match, Is, Places, Outcomes
<1>h. Make(r) => G /\ (at'[r] = "ended" \/ (at'[r] = "written" /\ Asking[r].kind = "setup"))
  BY <1>2, <1>3 DEF Make, Is, Places, Outcomes
<1>i. Claim(r) => G /\ (at'[r] = "ended" \/ (at'[r] = "read" /\ Asking[r].kind = "enrol"))
  BY <1>1, <1>2 DEF Claim, Is, Places, Outcomes
<1>j. Register(r) \/ Disable(r) \/ Mint(r) \/ Withdraw(r) \/ Import(r) => G /\ at'[r] = "ended"
  BY <1>2 DEF Register, Disable, Mint, Withdraw, Import, Outcomes
<1>5. G
  BY <1>4, <1>a, <1>b, <1>c, <1>d, <1>e, <1>f, <1>g, <1>h, <1>i, <1>j DEF Request
<1>6. /\ at'[r] = "asked" => Asking[r].kind \notin {"setup", "import"}
      /\ at'[r] = "read" => Asking[r].kind \in About \cup {"setup", "enrol"}
      /\ at'[r] = "written" => Asking[r].kind \in {"leave", "setup"}
  BY <1>4, <1>a, <1>b, <1>c, <1>d, <1>e, <1>f, <1>g, <1>h, <1>i, <1>j DEF Request
<1>7. Stages'
  BY <1>5, <1>6 DEF Stages, G
<1>8. UNCHANGED <<password, proof, opened, using>>
  BY DEF Request, Come, ReadPeople, SetRole, Add, EndSessions, Leave, Match, Make, RemoveToken,
     Claim, Register, Disable, Mint, Withdraw, Import, SameDevices, tables, Becomes
<1> QED BY <1>5, <1>7, <1>8 DEF G

\* What a request does to the people, and how one comes to have read them.
LEMMA RequestsPeople ==
    ASSUME PeopleTypes, Stages, NEW r \in Requests, Request(r)
    PROVE  \/ SameCrew /\ past' = past
           \/ Makes(r)
           \/ \E m \in People : Alters(r, m)
<1>1. ASSUME Is(r, "read", {"role"}), Member(Asking[r].of), Ends(r, "ok"), saw' = saw,
             Becomes(r, [is |-> "in", role |-> Asking[r].role])
      PROVE  \E m \in People : Alters(r, m)
  <2> DEFINE m == [is |-> "in", role |-> Asking[r].role]
  <2>1. m \in People /\ r \in Of(About) /\ at'[r] = "ended"
    BY <1>1 DEF People, Of, About, Is, Ends, PeopleTypes
  <2> QED BY <1>1, <2>1 DEF Alters, Is
<1>2. ASSUME Is(r, "read", {"add"}), Ends(r, "ok"), saw' = saw,
             Becomes(r, [is |-> "in", role |-> Asking[r].role])
      PROVE  \E m \in People : Alters(r, m)
  <2> DEFINE m == [is |-> "in", role |-> Asking[r].role]
  <2>1. m \in People /\ r \in Of(About) /\ at'[r] = "ended"
    BY <1>2 DEF People, Of, About, Is, Ends, PeopleTypes
  <2> QED BY <1>2, <2>1 DEF Alters, Is
<1>3. ASSUME Is(r, "written", {"leave"}), Ends(r, "ok"), saw' = saw,
             Becomes(r, [is |-> "left", role |-> people[Asking[r].of].role])
      PROVE  \E m \in People : Alters(r, m)
  <2> DEFINE m == [is |-> "left", role |-> people[Asking[r].of].role]
  <2>1. m \in People /\ r \in Of(About) /\ at'[r] = "ended"
    BY <1>3 DEF People, Of, About, Is, Ends, PeopleTypes, Persons
  <2> QED BY <1>3, <2>1 DEF Alters, Is
<1>4. Make(r) => Makes(r) \/ (SameCrew /\ past' = past)
  BY DEF Make, Makes, Is, Of, SameCrew, PeopleTypes
<1>5. SetRole(r) \/ Add(r) \/ Leave(r) => (SameCrew /\ past' = past) \/ \E m \in People : Alters(r, m)
  BY <1>1, <1>2, <1>3 DEF SetRole, Add, Leave, SameCrew, tables
<1>6. ~(SetRole(r) \/ Add(r) \/ Leave(r) \/ Make(r)) => SameCrew /\ past' = past
  BY DEF Request, Come, ReadPeople, EndSessions, Match, RemoveToken, Claim, Register, Disable,
         Mint, Withdraw, Import, SameCrew, tables
<1> QED BY <1>4, <1>5, <1>6

\* What every step does to the requests and the people.
LEMMA CrewStep ==
    ASSUME PeopleTypes, Stages, [AccountsNext]_<<vars, avars>>
    PROVE  \/ /\ SameCrew /\ past'.changed = past.changed /\ past'.kept = past.kept
              /\ UNCHANGED <<password, proof, opened>>
              /\ saw' = saw
              /\ \A r \in Requests : at'[r] \in {at[r], "ended"}
           \/ \E x \in Tabs : ~Alone /\ Device(x)
           \/ \E r \in Requests : Request(r)
<1> DEFINE G == /\ SameCrew /\ past'.changed = past.changed /\ past'.kept = past.kept
                /\ UNCHANGED <<password, proof, opened>>
                /\ saw' = saw
                /\ \A r \in Requests : at'[r] \in {at[r], "ended"}
<1>1. UNCHANGED avars => G
  BY DEF avars, asks, tables, SameCrew
<1>2. TokenExpires => G
  BY DEF TokenExpires, SameDevices, SameCrew
<1>3. ASSUME Boot PROVE G
  <2>1. /\ people' = people /\ UNCHANGED <<password, proof, opened>> /\ saw' = saw
        /\ \A r \in Requests : at'[r] \in {at[r], "ended"}
    BY <1>3 DEF Boot, SameDevices, PeopleTypes
  <2>2. \E b \in BOOLEAN : past' = [past EXCEPT !.blind = b]
    BY <1>3 DEF Boot
  <2>3. /\ past'.taken = past.taken /\ past'.crossed = past.crossed /\ past'.leaves = past.leaves
        /\ past'.changed = past.changed /\ past'.kept = past.kept
    BY <2>2 DEF PeopleTypes, Pasts
  <2> QED BY <2>1, <2>3 DEF SameCrew
<1> QED BY <1>1, <1>2, <1>3 DEF AccountsNext

LEMMA BecomesTypes ==
    ASSUME PeopleTypes, NEW r \in Requests, NEW m \in People, Becomes(r, m)
    PROVE  /\ people' \in [Persons -> People] /\ past' \in Pasts
           /\ people'[Asking[r].of] = m
           /\ \A p \in Persons \ {Asking[r].of} : people'[p] = people[p]
           /\ past'.changed = past.changed /\ past'.kept = past.kept /\ past'.blind = past.blind
           /\ past'.taken \in {past.taken, past.taken + 1}
           /\ past'.leaves = IF m.is = "left" /\ Asking[r].of = Worker THEN past.leaves + 1
                                                                   ELSE past.leaves
<1> DEFINE p == Asking[r].of
           takes == Administrator(p) /\ m # [is |-> "in", role |-> "administrator"]
           T == IF takes THEN past.taken + 1 ELSE past.taken
           C == past.crossed \/ (takes /\ saw[r].taken # past.taken)
           L == IF m.is = "left" /\ p = Worker THEN past.leaves + 1 ELSE past.leaves
<1>1. T \in Nat /\ L \in Nat /\ p \in Persons
  BY DEF PeopleTypes, Pasts
<1>2. C \in BOOLEAN
  OBVIOUS
<1>3. past' = [past EXCEPT !.taken = T, !.crossed = C, !.leaves = L] /\ people' = [people EXCEPT ![p] = m]
  BY DEF Becomes
<1> HIDE DEF T, C, L
<1>4. past' \in Pasts /\ past'.changed = past.changed /\ past'.kept = past.kept /\ past'.leaves = L
      /\ past'.taken = T /\ past'.blind = past.blind
  BY <1>1, <1>2, <1>3 DEF PeopleTypes, Pasts
<1> QED BY <1>1, <1>3, <1>4 DEF PeopleTypes, L, T

LEMMA RequestTypes ==
    ASSUME PeopleTypes, Stages, NEW r \in Requests, Request(r)
    PROVE  PeopleTypes'
<1> DEFINE S == [person : People, sessions : SUBSET Tokens, taken : Nat]
<1>1. people' \in [Persons -> People] /\ past' \in Pasts
  <2>1. CASE SameCrew /\ past' = past
    BY <2>1 DEF SameCrew, PeopleTypes
  <2>2. CASE Makes(r)
    BY <2>2 DEF Makes, PeopleTypes, People, Roles
  <2>3. ASSUME NEW m \in People, Alters(r, m) PROVE people' \in [Persons -> People] /\ past' \in Pasts
    BY <2>3, BecomesTypes DEF Alters
  <2> QED BY <2>1, <2>2, <2>3, RequestsPeople
<1>2. saw' \in [Of(About) -> S]
  <2>1. ReadPeople(r) => saw' \in [Of(About) -> S]
    <3>1. ASSUME NEW p \in Persons, Reads(r, p, {}) PROVE saw' \in [Of(About) -> S]
      <4> DEFINE v == [person |-> people[p], sessions |-> {}, taken |-> past.taken]
      <4>1. v \in S
        BY DEF PeopleTypes, Pasts
      <4>2. saw' = [saw EXCEPT ![r] = v]
        BY <3>1 DEF Reads
      <4> QED BY <4>1, <4>2 DEF PeopleTypes
    <3>2. ReadPeople(r) => saw' = saw \/ Reads(r, Asking[r].of, {})
      BY DEF ReadPeople
    <3>3. Asking[r].of \in Persons
      OBVIOUS
    <3> QED BY <3>1, <3>2, <3>3 DEF PeopleTypes
  <2>2. ASSUME EndSessions(r) PROVE saw' \in [Of(About) -> S]
    <3> DEFINE p == Asking[r].of  T == IF p = Worker THEN Opened \ revoked ELSE {}
    <3>1. r \in Of(About) /\ people[p] \in People /\ T \in SUBSET Tokens /\ saw[r] \in S
      BY <2>2 DEF EndSessions, Is, Of, About, PeopleTypes, Opened
    <3>2. saw' = [saw EXCEPT ![r].person = people[p], ![r].sessions = T]
      BY <2>2 DEF EndSessions
    <3> HIDE DEF T, p
    <3>3. [saw[r] EXCEPT !.person = people[p], !.sessions = T] \in S
      BY <3>1
    <3>4. saw' = [saw EXCEPT ![r] = [saw[r] EXCEPT !.person = people[p], !.sessions = T]]
      BY <3>1, <3>2, <3>3 DEF PeopleTypes
    <3> QED BY <3>3, <3>4 DEF PeopleTypes
  <2>3. ~ReadPeople(r) /\ ~EndSessions(r) => saw' = saw
    BY DEF Request, Come, SetRole, Add, Leave, Match, Make, RemoveToken, Claim, Register,
           Disable, Mint, Withdraw, Import
  <2> QED BY <2>1, <2>2, <2>3 DEF PeopleTypes
<1>3. setup' \in {"none", "good", "stale"}
  BY DEF Request, Come, ReadPeople, SetRole, Add, EndSessions, Leave, Match, Make, RemoveToken,
     Claim, Register, Disable, Mint, Withdraw, Import, SameDevices, tables, Becomes, PeopleTypes
<1>4. password' \in Nat /\ proof' \in [Tabs -> Proofs]
  BY RequestsAt DEF PeopleTypes
<1> QED BY <1>1, <1>2, <1>3, <1>4, RequestsAt DEF PeopleTypes

LEMMA TypesKept == PeopleTypes /\ Stages /\ [AccountsNext]_<<vars, avars>> => PeopleTypes' /\ Stages'
<1> SUFFICES ASSUME PeopleTypes, Stages, [AccountsNext]_<<vars, avars>> PROVE PeopleTypes' /\ Stages'
  OBVIOUS
<1>1. UNCHANGED avars => PeopleTypes' /\ Stages'
  BY DEF avars, asks, tables, PeopleTypes, Stages
<1>2. TokenExpires => PeopleTypes' /\ Stages'
  BY DEF TokenExpires, SameDevices, PeopleTypes, Stages
<1>3. ASSUME Boot PROVE PeopleTypes' /\ Stages'
  <2>1. at' = [r \in Requests |-> IF at[r] = "new" THEN "new" ELSE "ended"]
    BY <1>3 DEF Boot
  <2>2. at' \in [Requests -> Places] /\ Stages'
    BY <2>1 DEF Places, Stages
  <2>3. outcome' \in [Requests -> Outcomes]
    BY <1>3 DEF Boot, PeopleTypes, Outcomes
  <2>4. setup' \in {"none", "good", "stale"}
    BY <1>3 DEF Boot, Reconcile, PeopleTypes
  <2>5. past' \in Pasts
    BY <1>3 DEF Boot, PeopleTypes, Pasts
  <2>6. UNCHANGED <<people, saw, password, proof>>
    BY <1>3 DEF Boot, SameDevices
  <2> QED BY <2>2, <2>3, <2>4, <2>5, <2>6 DEF PeopleTypes
<1>4. ASSUME NEW x \in Tabs, Device(x) PROVE PeopleTypes' /\ Stages'
  BY <1>4, DeviceKeeps, ProofsKept DEF PeopleTypes, Stages, asks
<1> QED BY <1>1, <1>2, <1>3, <1>4, RequestTypes, RequestsAt DEF AccountsNext

------------------------------------------------------------------------------
(* An administrator stays *)

\* Whoever asks about people is one of them.
Peopled == \A r \in Of(About) : at[r] \in {"asked", "read", "written"} => Somebody

\* A request that may take an administrator away, past its reading.
Takes(r)     == Asking[r].kind = "role" => Asking[r].role # "administrator"
ReadBefore(r) == at[r] \in {"read", "written"}

SawBefore == \A r \in Of(About) : saw[r].taken <= past.taken

\* As long as nobody else took an administrator away since it read, it leaves one.
Spare ==
    ~past.crossed =>
        \A r \in Of(About) :
            ReadBefore(r) /\ saw[r].taken = past.taken /\ Takes(r) => OtherAdministrator(Asking[r].of)

CrewInv == PeopleTypes /\ Stages /\ Peopled /\ SawBefore /\ Spare /\ AdministratorStays

\* A request about people that did not end comes to be asked, or reads, or writes.
LEMMA GoesOn ==
    ASSUME PeopleTypes, NEW r \in Of(About), Request(r), at'[r] # "ended"
    PROVE  \/ at[r] = "new" /\ at'[r] = "asked" /\ Administrator(Asking[r].by) /\ saw' = saw
           \/ at[r] = "asked" /\ at'[r] = "read" /\ ~Refused(r) /\ Reads(r, Asking[r].of, {})
           \/ at[r] = "read" /\ at'[r] = "written" /\ EndSessions(r)
<1>0. r \in Requests /\ Asking[r].kind \in About
  BY DEF Of
<1>1. Come(r) => at[r] = "new" /\ at'[r] = "asked" /\ Administrator(Asking[r].by) /\ saw' = saw
  BY <1>0 DEF Come, Ends, Goes, PeopleTypes, About
<1>2. ReadPeople(r) => at[r] = "asked" /\ at'[r] = "read" /\ ~Refused(r) /\ Reads(r, Asking[r].of, {})
  BY <1>0 DEF ReadPeople, Is, Ends, Goes, PeopleTypes
<1>3. EndSessions(r) => at[r] = "read" /\ at'[r] = "written" /\ EndSessions(r)
  BY <1>0 DEF EndSessions, Is, Goes, PeopleTypes
<1>4. ~(SetRole(r) \/ Add(r) \/ Leave(r))
  BY <1>0 DEF SetRole, Add, Leave, Ends, PeopleTypes
<1>5. ~(Match(r) \/ Make(r) \/ RemoveToken(r) \/ Claim(r) \/ Register(r) \/ Disable(r)
         \/ Mint(r) \/ Withdraw(r) \/ Import(r))
  BY <1>0 DEF Match, Make, RemoveToken, Claim, Register, Disable, Mint, Withdraw, Import, Is, About
<1> QED BY <1>1, <1>2, <1>3, <1>4, <1>5 DEF Request

\* What a request sees of the past it keeps, or reads now.
LEMMA SeesPast ==
    ASSUME PeopleTypes, Stages, NEW r \in Requests, Request(r), NEW q \in Of(About)
    PROVE  \/ saw'[q].taken = saw[q].taken
           \/ q = r /\ saw'[q].taken = past.taken /\ at[q] = "asked" /\ past' = past
<1>1. ASSUME ReadPeople(r) PROVE saw'[q] = saw[q] \/ (q = r /\ saw'[q].taken = past.taken /\ at[q] = "asked" /\ past' = past)
  BY <1>1 DEF ReadPeople, Is, Reads, PeopleTypes
<1>2. ASSUME EndSessions(r) PROVE saw'[q].taken = saw[q].taken
  <2>1. CASE q # r
    BY <1>2, <2>1 DEF EndSessions, PeopleTypes
  <2>2. CASE q = r
    BY <1>2, <2>2 DEF EndSessions, PeopleTypes
  <2> QED BY <2>1, <2>2
<1>3. ~ReadPeople(r) /\ ~EndSessions(r) => saw' = saw
  BY DEF Request, Come, SetRole, Add, Leave, Match, Make, RemoveToken, Claim, Register,
         Disable, Mint, Withdraw, Import
<1> QED BY <1>1, <1>2, <1>3

\* Somebody stays somebody.
LEMMA SomebodyStays ==
    ASSUME PeopleTypes, Somebody,
           SameCrew \/ (\E r \in Requests : Makes(r)) \/ (\E r \in Requests, m \in People : Alters(r, m))
    PROVE  Somebody'
<1> PICK p \in Persons : Exists(p)
  BY DEF Somebody
<1>1. CASE SameCrew
  BY <1>1 DEF SameCrew, Somebody, Exists
<1>2. ASSUME NEW r \in Requests, Makes(r) PROVE FALSE
  BY <1>2 DEF Makes
<1>3. ASSUME NEW r \in Requests, NEW m \in People, Alters(r, m) PROVE Exists(p)'
  <2>1. Becomes(r, m) /\ m.is # "none"
    BY <1>3 DEF Alters
  <2>2. people'[p] = people[p] \/ people'[p] = m
    BY <2>1, BecomesTypes
  <2> QED BY <2>1, <2>2 DEF Exists
<1> QED BY <1>1, <1>2, <1>3 DEF Somebody

\* An alteration counts an administrator taken away, and whether it counted them all.
LEMMA BecomesCrew ==
    ASSUME PeopleTypes, NEW r \in Requests, NEW m \in People, Becomes(r, m), ~past'.crossed
    PROVE  /\ ~past.crossed
           /\ \/ /\ past'.taken = past.taken
                 /\ \A p \in Persons : Administrator(p) => Administrator(p)'
              \/ past'.taken = past.taken + 1 /\ saw[r].taken = past.taken
                 /\ m # [is |-> "in", role |-> "administrator"]
<1> DEFINE p == Asking[r].of
           admin == [is |-> "in", role |-> "administrator"]
           takes == Administrator(p) /\ m # admin
           T == IF takes THEN past.taken + 1 ELSE past.taken
           C == past.crossed \/ (takes /\ saw[r].taken # past.taken)
           L == IF m.is = "left" /\ p = Worker THEN past.leaves + 1 ELSE past.leaves
<1>1. past' = [past EXCEPT !.taken = T, !.crossed = C, !.leaves = L]
  BY DEF Becomes
<1>2. past'.taken = T /\ past'.crossed = C
  <2> HIDE DEF T, C, L
  <2> QED BY <1>1 DEF PeopleTypes, Pasts
<1>3. ~past.crossed /\ ~(takes /\ saw[r].taken # past.taken)
  <2>1. ~C
    BY <1>2
  <2> QED BY <2>1
<1>4. CASE takes
  BY <1>2, <1>3, <1>4
<1>5. CASE ~takes
  <2>1. past'.taken = past.taken
    BY <1>2, <1>5
  <2>2. \A q \in Persons : Administrator(q) => Administrator(q)'
    <3> SUFFICES ASSUME NEW q \in Persons, Administrator(q) PROVE Administrator(q)'
      OBVIOUS
    <3>1. CASE q = p
      <4>1. people'[q] = m /\ m = admin
        BY <1>5, <3>1, BecomesTypes
      <4> QED BY <4>1 DEF Administrator, Member
    <3>2. CASE q # p
      BY <3>2, BecomesTypes DEF Administrator, Member
    <3> QED BY <3>1, <3>2
  <2> QED BY <1>3, <2>1, <2>2
<1> QED BY <1>4, <1>5

\* What a step may do to whoever is there.
LEMMA CrewChange ==
    ASSUME PeopleTypes, Stages, [AccountsNext]_<<vars, avars>>
    PROVE  \/ SameCrew
           \/ \E r \in Requests : Makes(r)
           \/ \E r \in Requests, m \in People : Alters(r, m)
<1>1. ASSUME NEW x \in Tabs, Device(x) PROVE SameCrew
  BY <1>1, DeviceKeeps DEF SameCrew
<1> QED BY <1>1, CrewStep, RequestsPeople

LEMMA NextPeopled == CrewInv /\ [AccountsNext]_<<vars, avars>> => Peopled'
<1> SUFFICES ASSUME CrewInv, [AccountsNext]_<<vars, avars>>,
                    NEW q \in Of(About), at'[q] \in {"asked", "read", "written"}
             PROVE  Somebody'
  BY DEF Peopled
<1>0. PeopleTypes /\ Stages /\ Peopled
  BY DEF CrewInv
<1>1. SUFFICES Somebody
  BY <1>0, <1>1, SomebodyStays, CrewChange
<1>2. CASE at[q] \in {"asked", "read", "written"}
  BY <1>0, <1>2 DEF Peopled
<1>3. CASE at[q] \notin {"asked", "read", "written"}
  <2>0. q \in Requests
    BY DEF Of
  <2>1. PICK r \in Requests : Request(r)
    <3>1. ASSUME NEW x \in Tabs, Device(x) PROVE at' = at
      BY <1>0, <3>1, DeviceKeeps DEF asks
    <3> QED BY <1>0, <1>3, <2>0, <3>1, CrewStep
  <2>2. q = r
    BY <1>0, <1>3, <2>0, <2>1, RequestsAt
  <2>3. Administrator(Asking[q].by)
    BY <1>0, <1>3, <2>1, <2>2, GoesOn
  <2>4. Asking[q].by \in Persons /\ people[Asking[q].by].is = "in"
    BY <2>0, <2>3 DEF Administrator, Member
  <2> QED BY <2>4 DEF Somebody, Exists
<1> QED BY <1>2, <1>3

LEMMA NextSawBefore == CrewInv /\ [AccountsNext]_<<vars, avars>> => SawBefore'
<1> SUFFICES ASSUME CrewInv, [AccountsNext]_<<vars, avars>>, NEW q \in Of(About)
             PROVE  saw'[q].taken <= past'.taken
  BY DEF SawBefore
<1>0. PeopleTypes /\ Stages /\ saw[q].taken <= past.taken
  BY DEF CrewInv, SawBefore
<1>n. saw[q].taken \in Nat /\ past.taken \in Nat
  BY <1>0 DEF PeopleTypes, Pasts
<1>1. past'.taken \in {past.taken, past.taken + 1}
  <2>1. SameCrew \/ (\E r \in Requests : Makes(r)) => past'.taken = past.taken
    BY DEF SameCrew, Makes
  <2>2. ASSUME NEW r \in Requests, NEW m \in People, Alters(r, m)
        PROVE  past'.taken \in {past.taken, past.taken + 1}
    BY <1>0, <2>2, BecomesTypes DEF Alters
  <2> QED BY <1>0, <2>1, <2>2, CrewChange
<1>2. saw'[q].taken = saw[q].taken \/ (saw'[q].taken = past.taken)
  <2>1. ASSUME NEW x \in Tabs, Device(x) PROVE saw' = saw
    BY <1>0, <2>1, DeviceKeeps DEF asks
  <2> QED BY <1>0, <2>1, CrewStep, SeesPast
<1> QED BY <1>0, <1>n, <1>1, <1>2

\* A request that has just read leaves somebody else who administers.
LEMMA ReadLeavesOne ==
    ASSUME CrewInv, NEW r \in Of(About), at[r] = "asked", ~Refused(r), Takes(r), ~past.crossed
    PROVE  OtherAdministrator(Asking[r].of)
<1>0. r \in Requests /\ Asking[r].kind \in About /\ Asking[r].of \in Persons
  BY DEF Of
<1>1. PICK q \in Persons : Administrator(q)
  BY DEF CrewInv, Peopled, AdministratorStays
<1>2. CASE ~Administrator(Asking[r].of)
  BY <1>1, <1>2 DEF OtherAdministrator
<1>3. CASE Administrator(Asking[r].of)
  <2>1. Asking[r].kind # "add"
    BY <1>3 DEF Refused, Administrator
  <2>2. CASE Asking[r].kind = "role"
    BY <2>2 DEF Refused, Takes
  <2>3. CASE Asking[r].kind = "leave"
    BY <1>3, <2>3 DEF Refused
  <2> QED BY <1>0, <2>1, <2>2, <2>3 DEF About
<1> QED BY <1>2, <1>3

LEMMA NextSpare == CrewInv /\ [AccountsNext]_<<vars, avars>> => Spare'
<1> SUFFICES ASSUME CrewInv, [AccountsNext]_<<vars, avars>>, ~past'.crossed, NEW q \in Of(About),
                    ReadBefore(q)', saw'[q].taken = past'.taken, Takes(q)
             PROVE  OtherAdministrator(Asking[q].of)'
  BY DEF Spare, Takes
<1>0. PeopleTypes /\ Stages /\ Peopled /\ SawBefore /\ Spare /\ q \in Requests
  BY DEF CrewInv, Of
<1>n. saw[q].taken \in Nat /\ past.taken \in Nat /\ saw[q].taken <= past.taken
  BY <1>0 DEF PeopleTypes, Pasts, SawBefore
<1>1. /\ at[q] \in {"asked", "read", "written"} /\ Somebody
      /\ \/ ReadBefore(q) /\ saw'[q].taken = saw[q].taken
         \/ at[q] = "asked" /\ ~Refused(q) /\ past' = past /\ people' = people
  <2>1. ASSUME NEW x \in Tabs, Device(x)
        PROVE  ReadBefore(q) /\ saw'[q].taken = saw[q].taken
    BY <1>0, <2>1, DeviceKeeps DEF asks, ReadBefore
  <2>2. ASSUME NEW r \in Requests, Request(r), r # q
        PROVE  ReadBefore(q) /\ saw'[q].taken = saw[q].taken
    BY <1>0, <2>2, RequestsAt, SeesPast DEF ReadBefore
  <2>3. CASE Request(q)
    <3>1. at'[q] \in {"read", "written"}
      BY DEF ReadBefore
    <3>2. CASE at[q] = "asked" /\ at'[q] = "read" /\ ~Refused(q) /\ Reads(q, Asking[q].of, {})
      <4>1. ~Alters(q, people'[Asking[q].of]) /\ ~Makes(q) /\ \A m \in People : ~Alters(q, m)
        BY <3>2 DEF Alters, Makes
      <4>2. SameCrew /\ past' = past
        BY <1>0, <2>3, <4>1, RequestsPeople
      <4> QED BY <1>0, <3>2, <4>2 DEF SameCrew, Peopled
    <3>3. CASE at[q] = "read" /\ at'[q] = "written" /\ EndSessions(q)
      <4>1. saw'[q].taken = saw[q].taken
        BY <1>0, <2>3, <3>3, SeesPast
      <4> QED BY <1>0, <3>3, <4>1 DEF ReadBefore, Peopled
    <3> QED BY <1>0, <2>3, <3>1, <3>2, <3>3, GoesOn
  <2>4. CASE saw' = saw /\ \A r \in Requests : at'[r] \in {at[r], "ended"}
    BY <1>0, <2>4 DEF ReadBefore, Peopled
  <2>5. ReadBefore(q) => Somebody /\ at[q] \in {"asked", "read", "written"}
    BY <1>0 DEF ReadBefore, Peopled
  <2> QED BY <1>0, <2>1, <2>2, <2>3, <2>4, <2>5, CrewStep
<1>2. CASE SameCrew
  <2>1. OtherAdministrator(Asking[q].of)
    BY <1>0, <1>1, <1>2, ReadLeavesOne DEF SameCrew, Spare
  <2> QED BY <1>2, <2>1 DEF SameCrew, OtherAdministrator, Administrator, Member
<1>3. ASSUME NEW r \in Requests, Makes(r) PROVE FALSE
  BY <1>1, <1>3 DEF Makes
<1>4. ASSUME ~SameCrew, NEW r \in Requests, NEW m \in People, Alters(r, m)
      PROVE  OtherAdministrator(Asking[q].of)'
  <2>1. Becomes(r, m) /\ saw' = saw /\ at'[r] = "ended" /\ ReadBefore(r)
    BY <1>4 DEF Alters, ReadBefore
  <2>2. ReadBefore(q) /\ saw[q].taken = past'.taken
    <3>1. ~(past' = past /\ people' = people)
      BY <1>4 DEF SameCrew
    <3> QED BY <1>1, <2>1, <3>1
  <2>3. ~past.crossed /\ past'.taken = past.taken /\ \A p \in Persons : Administrator(p) => Administrator(p)'
    BY <1>0, <1>n, <2>1, <2>2, BecomesCrew
  <2> QED BY <1>0, <2>2, <2>3 DEF Spare, OtherAdministrator
<1> QED BY <1>0, <1>2, <1>3, <1>4, CrewChange

LEMMA NextAdministrator == CrewInv /\ [AccountsNext]_<<vars, avars>> => AdministratorStays'
<1> SUFFICES ASSUME CrewInv, [AccountsNext]_<<vars, avars>>, Somebody', ~past'.crossed
             PROVE  \E p \in Persons : Administrator(p)'
  BY DEF AdministratorStays
<1>0. PeopleTypes /\ Stages /\ Peopled /\ Spare /\ AdministratorStays
  BY DEF CrewInv
<1>1. CASE SameCrew
  BY <1>0, <1>1 DEF SameCrew, AdministratorStays, Somebody, Exists, Administrator, Member
<1>2. ASSUME NEW r \in Requests, Makes(r) PROVE Administrator(Asking[r].by)' /\ Asking[r].by \in Persons
  BY <1>0, <1>2 DEF Makes, PeopleTypes, Administrator, Member
<1>3. ASSUME NEW r \in Requests, NEW m \in People, Alters(r, m)
      PROVE  \E p \in Persons : Administrator(p)'
  <2>1. Becomes(r, m) /\ r \in Of(About) /\ ReadBefore(r)
    BY <1>3 DEF Alters, ReadBefore
  <2>2. ~past.crossed /\ \E p \in Persons : Administrator(p)
    BY <1>0, <2>1, BecomesCrew DEF Peopled, ReadBefore, AdministratorStays
  <2>3. CASE \A p \in Persons : Administrator(p) => Administrator(p)'
    BY <2>2, <2>3
  <2>4. CASE saw[r].taken = past.taken /\ m # [is |-> "in", role |-> "administrator"]
    <3>1. Takes(r)
      BY <1>3, <2>4 DEF Alters, Takes
    <3>2. PICK q \in Persons \ {Asking[r].of} : Administrator(q)
      BY <1>0, <2>1, <2>2, <2>4, <3>1 DEF Spare, OtherAdministrator
    <3>3. people'[q] = people[q]
      BY <1>0, <2>1, BecomesTypes
    <3> QED BY <3>2, <3>3 DEF Administrator, Member
  <2> QED BY <1>0, <2>1, <2>3, <2>4, BecomesCrew
<1> QED BY <1>0, <1>1, <1>2, <1>3, CrewChange

LEMMA NextCrew == CrewInv /\ [AccountsNext]_<<vars, avars>> => CrewInv'
BY TypesKept, NextPeopled, NextSawBefore, NextSpare, NextAdministrator DEF CrewInv

------------------------------------------------------------------------------
(* Once only *)

\* A setup that succeeded found nobody there and left somebody.
SetUpOnce ==
    /\ \A r \in Of({"setup"}) : at[r] = "written" => outcome[r] = "ok"
    /\ \A r \in Of({"setup"}) : outcome[r] = "ok" => at[r] \in {"written", "ended"} /\ Somebody
    /\ \A q, r \in Of({"setup"}) : outcome[q] = "ok" /\ outcome[r] = "ok" => q = r

TokenGone ==
    Somebody /\ setup # "none" => (past.blind \/ \E r \in Requests : Is(r, "written", {"setup"}))

\* An enrolment that claimed its ceremony, and may have its key.
Claimer(r) == at[r] = "read" \/ keys[r] # "none"

ClaimedOnce ==
    /\ keys \in [Of({"enrol"}) -> {"none", "live", "disabled"}]
    /\ \A r \in Of({"enrol"}) : Claimer(r) => Asking[r].on \in claimed
    /\ \A q, r \in Of({"enrol"}) : Claimer(q) /\ Claimer(r) /\ Asking[q].on = Asking[r].on => q = r

OnceInv == SetUpOnce /\ TokenGone /\ ClaimedOnce

LEMMA SetupStep ==
    ASSUME PeopleTypes, NEW r \in Of({"setup"}), Request(r)
    PROVE  \/ /\ at'[r] \in {"read", "ended"} /\ outcome'[r] \in {outcome[r], "refused"}
              /\ at[r] \in {"new", "read"} /\ ~Makes(r) /\ setup' = setup
           \/ Makes(r) /\ outcome'[r] = "ok" /\ at[r] = "read" /\ setup' = setup
           \/ at[r] = "written" /\ at'[r] = "ended" /\ outcome' = outcome /\ setup' = "none"
<1>0. r \in Requests /\ Asking[r].kind = "setup"
  BY DEF Of
<1>1. ASSUME Match(r)
      PROVE  /\ at'[r] \in {"read", "ended"} /\ outcome'[r] \in {outcome[r], "refused"}
             /\ at[r] \in {"new", "read"} /\ ~Makes(r) /\ setup' = setup
  BY <1>0, <1>1 DEF Match, Is, Goes, Ends, PeopleTypes, tables, Makes
<1>2. ASSUME Make(r)
      PROVE  \/ /\ at'[r] \in {"read", "ended"} /\ outcome'[r] \in {outcome[r], "refused"}
                /\ at[r] \in {"new", "read"} /\ ~Makes(r) /\ setup' = setup
             \/ Makes(r) /\ outcome'[r] = "ok" /\ at[r] = "read" /\ setup' = setup
  BY <1>0, <1>2 DEF Make, Is, Ends, PeopleTypes, Makes
<1>3. ASSUME RemoveToken(r)
      PROVE  at[r] = "written" /\ at'[r] = "ended" /\ outcome' = outcome /\ setup' = "none"
  BY <1>0, <1>3 DEF RemoveToken, Is, PeopleTypes
<1>4. ~(Come(r) \/ ReadPeople(r) \/ SetRole(r) \/ Add(r) \/ EndSessions(r) \/ Leave(r) \/ Claim(r)
         \/ Register(r) \/ Disable(r) \/ Mint(r) \/ Withdraw(r) \/ Import(r))
  BY <1>0 DEF Come, ReadPeople, SetRole, Add, EndSessions, Leave, Claim, Register, Disable, Mint,
     Withdraw, Import, Is
<1> QED BY <1>1, <1>2, <1>3, <1>4 DEF Request

LEMMA SomebodyIs ==
    ASSUME PeopleTypes, Stages, [AccountsNext]_<<vars, avars>>, Somebody
    PROVE  Somebody'
BY SomebodyStays, CrewChange

LEMMA NextSetUpOnce == CrewInv /\ SetUpOnce /\ [AccountsNext]_<<vars, avars>> => SetUpOnce'
<1> SUFFICES ASSUME CrewInv, SetUpOnce, [AccountsNext]_<<vars, avars>> PROVE SetUpOnce'
  OBVIOUS
<1>0. PeopleTypes /\ Stages /\ \A r \in Of({"setup"}) : r \in Requests
  BY DEF CrewInv, Of
<1>1. ASSUME NEW r \in Of({"setup"}), at' = at, outcome' = outcome
      PROVE  /\ at'[r] = "written" => outcome'[r] = "ok"
             /\ outcome'[r] = "ok" => at'[r] \in {"written", "ended"} /\ outcome[r] = "ok"
  BY <1>1 DEF SetUpOnce
<1>2. ASSUME NEW r \in Of({"setup"}), Boot
      PROVE  /\ at'[r] = "written" => outcome'[r] = "ok"
             /\ outcome'[r] = "ok" => at'[r] \in {"written", "ended"} /\ outcome[r] = "ok"
  BY <1>0, <1>2 DEF Boot, SetUpOnce, PeopleTypes
<1>3. ASSUME NEW r \in Of({"setup"}), NEW s \in Requests, Request(s)
      PROVE  /\ at'[r] = "written" => outcome'[r] = "ok"
             /\ outcome'[r] = "ok" => /\ at'[r] \in {"written", "ended"}
                                      /\ outcome[r] = "ok" \/ (r = s /\ Makes(s))
  <2>1. CASE r # s
    BY <1>0, <1>3, <2>1, RequestsAt DEF SetUpOnce
  <2>2. CASE r = s
    BY <1>3, <2>2, <1>0, SetupStep DEF SetUpOnce, Makes
  <2> QED BY <2>1, <2>2
<1>4. \/ at' = at /\ outcome' = outcome
      \/ Boot
      \/ \E s \in Requests : Request(s)
  <2>1. ASSUME NEW x \in Tabs, Device(x) PROVE at' = at /\ outcome' = outcome
    BY <1>0, <2>1, DeviceKeeps DEF asks
  <2> QED BY <2>1 DEF AccountsNext, avars, asks, TokenExpires
<1>5. ASSUME NEW r \in Of({"setup"}), outcome'[r] = "ok"
      PROVE  outcome[r] = "ok" \/ \E s \in Requests : s = r /\ Makes(s) /\ Request(s)
  BY <1>1, <1>2, <1>3, <1>4, <1>5
<1>6. ASSUME NEW r \in Of({"setup"}), outcome'[r] = "ok" PROVE Somebody'
  <2>1. CASE outcome[r] = "ok"
    BY <1>0, <2>1, SomebodyIs DEF SetUpOnce
  <2>2. CASE Makes(r)
    <3>1. Asking[r].by \in Persons /\ people'[Asking[r].by].is = "in"
      BY <1>0, <2>2 DEF Makes, PeopleTypes
    <3> QED BY <3>1 DEF Somebody, Exists
  <2> QED BY <1>5, <1>6, <2>1, <2>2
<1>7. ASSUME NEW q \in Of({"setup"}), NEW r \in Of({"setup"}), outcome'[q] = "ok", outcome'[r] = "ok"
      PROVE  q = r
  <2>1. CASE outcome[q] = "ok" /\ outcome[r] = "ok"
    BY <2>1 DEF SetUpOnce
  <2>2. ASSUME NEW s \in Requests, Makes(s), Request(s)
        PROVE  outcome[q] # "ok" /\ outcome[r] # "ok" /\ q = s /\ r = s
    <3>1. outcome[q] # "ok" /\ outcome[r] # "ok"
      BY <2>2 DEF SetUpOnce, Makes
    <3> QED BY <1>0, <1>7, <2>2, <3>1, RequestsAt
  <2> QED BY <1>5, <1>7, <2>1, <2>2
<1> QED BY <1>1, <1>2, <1>3, <1>4, <1>6, <1>7 DEF SetUpOnce

LEMMA NextTokenGone == CrewInv /\ TokenGone /\ [AccountsNext]_<<vars, avars>> => TokenGone'
<1> SUFFICES ASSUME CrewInv, TokenGone, [AccountsNext]_<<vars, avars>>, Somebody', setup' # "none"
             PROVE  past'.blind \/ \E r \in Requests : Is(r, "written", {"setup"})'
  BY DEF TokenGone
<1>0. PeopleTypes /\ Stages /\ Peopled
  BY DEF CrewInv
<1>1. CASE Boot
  <2>1. Somebody
    BY <1>1 DEF Boot, SameDevices, Somebody, Exists
  <2>2. past' = [past EXCEPT !.blind = TRUE]
    BY <1>1, <2>1 DEF Boot, Reconcile
  <2>3. past'.blind
    BY <1>0, <2>2 DEF PeopleTypes, Pasts
  <2> QED BY <2>3
<1>2. ASSUME NEW r \in Requests, Makes(r)
      PROVE  Is(r, "written", {"setup"})'
  BY <1>2 DEF Makes, Is, Of
<1>3. ASSUME Somebody, past'.blind = past.blind, setup # "none",
             \A r \in Requests : Is(r, "written", {"setup"}) => Is(r, "written", {"setup"})'
      PROVE  past'.blind \/ \E r \in Requests : Is(r, "written", {"setup"})'
  BY <1>3 DEF TokenGone
<1>4. ASSUME NEW r \in Requests, Request(r)
      PROVE  past'.blind \/ \E q \in Requests : Is(q, "written", {"setup"})'
  <2>1. CASE Makes(r)
    BY <1>2, <2>1
  <2>2. CASE ~Makes(r)
    <3>1. Somebody /\ past'.blind = past.blind
      <4>1. CASE SameCrew /\ past' = past
        BY <4>1 DEF SameCrew, Somebody, Exists
      <4>2. ASSUME NEW m \in People, Alters(r, m) PROVE Somebody /\ past'.blind = past.blind
        BY <1>0, <4>2, BecomesTypes DEF Alters, Peopled
      <4> QED BY <1>0, <1>4, <2>2, <4>1, <4>2, RequestsPeople
    <3>2. setup # "none"
      BY <1>4 DEF Request, Come, ReadPeople, SetRole, Add, EndSessions, Leave, Match, Make,
         RemoveToken,
         Claim, Register, Disable, Mint, Withdraw, Import, SameDevices, tables, Becomes
    <3>3. ASSUME NEW q \in Requests, Is(q, "written", {"setup"}) PROVE Is(q, "written", {"setup"})'
      <4>1. q \in Of({"setup"}) /\ at[q] = "written"
        BY <3>3 DEF Is, Of
      <4>2. q # r
        BY <1>0, <1>4, <2>2, <4>1, SetupStep
      <4> QED BY <1>0, <1>4, <3>3, <4>2, RequestsAt DEF Is
    <3> QED BY <1>3, <3>1, <3>2, <3>3
  <2> QED BY <2>1, <2>2
<1>5. ASSUME SameCrew, past'.blind = past.blind, setup # "none", at' = at
      PROVE  past'.blind \/ \E r \in Requests : Is(r, "written", {"setup"})'
  BY <1>3, <1>5 DEF SameCrew, Somebody, Exists, Is
<1>6. ASSUME NEW x \in Tabs, Device(x) PROVE SameCrew /\ past'.blind = past.blind /\ setup' = setup /\ at' = at
  BY <1>0, <1>6, DeviceKeeps DEF asks, SameCrew
<1>7. UNCHANGED avars \/ TokenExpires => SameCrew /\ past'.blind = past.blind /\ setup # "none" /\ at' = at
  BY DEF avars, asks, tables, TokenExpires, SameDevices, SameCrew
<1> QED BY <1>1, <1>4, <1>5, <1>6, <1>7 DEF AccountsNext

\* Request s claims the ceremony of r, which is its own.
ClaimsNow(r, s) == r = s /\ Asking[r].on \notin claimed /\ Asking[r].on \in claimed'

\* An enrolment is past its claim only by claiming, which one does whose ceremony is not.
LEMMA EnrolStep ==
    ASSUME PeopleTypes, Stages, ClaimedOnce, NEW s \in Requests, Request(s)
    PROVE  /\ keys' \in [Of({"enrol"}) -> {"none", "live", "disabled"}]
           /\ claimed \subseteq claimed'
           /\ \A r \in Of({"enrol"}) : Claimer(r)' => Claimer(r) \/ ClaimsNow(r, s)
<1> DEFINE K == [Of({"enrol"}) -> {"none", "live", "disabled"}]
<1>0. keys \in K /\ \A r \in Of({"enrol"}) : r \in Requests
  BY DEF ClaimedOnce, Of
<1>1. ASSUME Register(s)
      PROVE  /\ keys' \in K /\ claimed \subseteq claimed'
             /\ \A r \in Of({"enrol"}) : Claimer(r)' => Claimer(r) \/ ClaimsNow(r, s)
  <2>1. /\ keys' = [keys EXCEPT ![s] = "live"] /\ at[s] = "read" /\ claimed \subseteq claimed'
        /\ at' = [at EXCEPT ![s] = "ended"]
    BY <1>1 DEF Register, Is, Ends
  <2>k. keys' \in K
    BY <1>0, <2>1
  <2>r. ASSUME NEW r \in Of({"enrol"}), Claimer(r)' PROVE Claimer(r) \/ ClaimsNow(r, s)
    BY <1>0, <2>1, <2>r DEF Claimer, ClaimsNow, PeopleTypes
  <2> QED BY <2>1, <2>k, <2>r
<1>2. ASSUME Claim(s)
      PROVE  /\ keys' \in K /\ claimed \subseteq claimed'
             /\ \A r \in Of({"enrol"}) : Claimer(r)' => Claimer(r) \/ ClaimsNow(r, s)
  <2>1. keys' = keys /\ claimed \subseteq claimed'
    BY <1>2 DEF Claim
  <2>2. at'[s] = "read" => Asking[s].on \notin claimed /\ Asking[s].on \in claimed'
    BY <1>2 DEF Claim, Ends, Goes, PeopleTypes
  <2>3. \A r \in Requests \ {s} : at'[r] = at[r]
    BY RequestsAt
  <2>k. keys' \in K
    BY <1>0, <2>1
  <2>r. ASSUME NEW r \in Of({"enrol"}), Claimer(r)' PROVE Claimer(r) \/ ClaimsNow(r, s)
    BY <1>0, <2>1, <2>2, <2>3, <2>r DEF Claimer, ClaimsNow, PeopleTypes
  <2> QED BY <2>1, <2>k, <2>r
<1>3. ASSUME Disable(s)
      PROVE  /\ keys' \in K /\ claimed \subseteq claimed'
             /\ \A r \in Of({"enrol"}) : Claimer(r)' => Claimer(r) \/ ClaimsNow(r, s)
  <2>1. /\ at'[s] = "ended" /\ claimed' = claimed
        /\ \/ keys' = keys
           \/ keys[Asking[s].on] = "live" /\ keys' = [keys EXCEPT ![Asking[s].on] = "disabled"]
    BY <1>3 DEF Disable, Ends, PeopleTypes
  <2>2. \A r \in Requests \ {s} : at'[r] = at[r]
    BY RequestsAt
  <2>k. keys' \in K
    BY <1>0, <2>1
  <2>r. ASSUME NEW r \in Of({"enrol"}), Claimer(r)' PROVE Claimer(r) \/ ClaimsNow(r, s)
    BY <1>0, <2>1, <2>2, <2>r DEF Claimer, ClaimsNow, PeopleTypes
  <2> QED BY <2>1, <2>k, <2>r
<1>4. ASSUME ~(Register(s) \/ Claim(s) \/ Disable(s))
      PROVE  /\ keys' \in K /\ claimed \subseteq claimed'
             /\ \A r \in Of({"enrol"}) : Claimer(r)' => Claimer(r) \/ ClaimsNow(r, s)
  <2>1. keys' = keys /\ claimed' = claimed
    BY <1>4 DEF Request, Come, ReadPeople, SetRole, Add, EndSessions, Leave, Match, Make,
       RemoveToken,
       Mint, Withdraw, Import, SameDevices, tables, Becomes
  <2>2. ASSUME NEW r \in Of({"enrol"}), at'[r] = "read" PROVE at[r] = "read"
    <3>1. CASE r # s
      BY <1>0, <2>2, <3>1, RequestsAt
    <3>2. CASE r = s
      <4>1. Asking[s].kind = "enrol"
        BY <3>2 DEF Of
      <4>2. Come(s) \/ Mint(s) \/ Withdraw(s) \/ Import(s) => at'[s] # "read"
        BY DEF Come, Mint, Withdraw, Import, Goes, Ends, PeopleTypes
      <4>3. ~(ReadPeople(s) \/ SetRole(s) \/ Add(s) \/ EndSessions(s) \/ Leave(s) \/ Match(s) \/ Make(s)
               \/ RemoveToken(s))
        BY <4>1 DEF ReadPeople, SetRole, Add, EndSessions, Leave, Match, Make, RemoveToken, Is
      <4> QED BY <1>4, <2>2, <3>2, <4>2, <4>3 DEF Request
    <3> QED BY <3>1, <3>2
  <2>k. keys' \in K
    BY <1>0, <2>1
  <2>r. ASSUME NEW r \in Of({"enrol"}), Claimer(r)' PROVE Claimer(r) \/ ClaimsNow(r, s)
    BY <1>0, <2>1, <2>2, <2>r DEF Claimer, ClaimsNow, PeopleTypes
  <2> QED BY <2>1, <2>k, <2>r
<1> QED BY <1>1, <1>2, <1>3, <1>4

LEMMA NextClaimedOnce == CrewInv /\ ClaimedOnce /\ [AccountsNext]_<<vars, avars>> => ClaimedOnce'
<1> SUFFICES ASSUME CrewInv, ClaimedOnce, [AccountsNext]_<<vars, avars>> PROVE ClaimedOnce'
  OBVIOUS
<1>0. PeopleTypes /\ Stages
  BY DEF CrewInv
<1>1. ASSUME NEW s \in Requests, Request(s) PROVE ClaimedOnce'
  <2>1. /\ keys' \in [Of({"enrol"}) -> {"none", "live", "disabled"}]
        /\ claimed \subseteq claimed'
        /\ \A r \in Of({"enrol"}) : Claimer(r)' => Claimer(r) \/ ClaimsNow(r, s)
    BY <1>0, <1>1, EnrolStep
  <2>2. \A r \in Of({"enrol"}) : Claimer(r)' => Asking[r].on \in claimed'
    BY <2>1 DEF ClaimedOnce, ClaimsNow
  <2>3. \A q, r \in Of({"enrol"}) : Claimer(q)' /\ Claimer(r)' /\ Asking[q].on = Asking[r].on => q = r
    BY <2>1 DEF ClaimedOnce, ClaimsNow
  <2> QED BY <2>1, <2>2, <2>3 DEF ClaimedOnce
<1>2. ASSUME keys' = keys, claimed' = claimed, \A r \in Requests : at'[r] \in {at[r], "ended"}
      PROVE  ClaimedOnce'
  BY <1>2 DEF ClaimedOnce, Claimer, Of
<1>3. ASSUME NEW x \in Tabs, Device(x) PROVE keys' = keys /\ claimed' = claimed /\ at' = at
  BY <1>0, <1>3, DeviceKeeps DEF asks
<1>4. UNCHANGED avars \/ TokenExpires => keys' = keys /\ claimed' = claimed /\ at' = at
  BY DEF avars, asks, tables, TokenExpires
<1>5. Boot => keys' = keys /\ claimed' = claimed /\ \A r \in Requests : at'[r] \in {at[r], "ended"}
  BY <1>0 DEF Boot, PeopleTypes
<1> QED BY <1>1, <1>2, <1>3, <1>4, <1>5 DEF AccountsNext

LEMMA NextOnce == CrewInv /\ OnceInv /\ [AccountsNext]_<<vars, avars>> => OnceInv'
BY NextSetUpOnce, NextTokenGone, NextClaimedOnce DEF OnceInv

------------------------------------------------------------------------------
(* Seen off *)

OpenNow == Opened \ revoked

Openings == [at : Nat, left : Nat, late : BOOLEAN, amid : BOOLEAN]

\* No proof and no change is of a password yet to come, and nothing happened where
\* nobody asked for anything.
Times ==
    /\ opened \in [Tokens -> Openings]
    /\ past.changed <= password
    /\ \A x \in Tabs : proof[x].at <= password
    /\ Alone => past.leaves = 0 /\ past.changed = 0

\* Of a person who left, what is open was opened as they did, or since.
LeftSince == \A s \in OpenNow : opened[s].left < past.leaves => opened[s].amid

\* Of a password that changed, what is open was kept, or opened by it, or on its way.
ChangedSince ==
    \A s \in OpenNow : opened[s].at < past.changed => (opened[s].late \/ s \in past.kept)

\* A removal has seen every session that was not opened since.
Seen ==
    \A r \in Of({"leave"}) : at[r] = "written" /\ Asking[r].of = Worker =>
        \A s \in OpenNow : s \in saw[r].sessions \/ opened[s].amid

OffInv == Times /\ LeftSince /\ ChangedSince /\ Seen

\* Every step is one of Sessions, or refuses a request of a device, or is a removal.
RefusesNow(x) == Answer(x, Nil) /\ UNCHANGED <<rows, jar, of, heard>>

LEMMA SessionsStep ==
    ASSUME [AccountsNext]_<<vars, avars>>
    PROVE  \/ [Next]_vars
           \/ \E x \in Tabs : RefusesNow(x)
           \/ \E r \in Requests : Leave(r)
<1>1. ASSUME NEW x \in Tabs, Device(x) PROVE [Next]_vars \/ RefusesNow(x)
  <2>1. ASSUME NEW k \in Kinds, SendFrom(x, k) PROVE Next
    BY <2>1 DEF SendFrom, Next
  <2>2. SignOn(x) \/ SignOnSite(x) \/ SignOthersOff(x) \/ CloseOld(x) \/ Off(x) \/ Load(x) \/ Reject(x) => Serve(x)
    BY DEF SignOn, SignOnSite, SignOthersOff, Serve
  <2>3. TypePassword(x) \/ ShowKey(x) \/ ReadDigest(x) \/ ChangePassword(x) => UNCHANGED vars
    BY DEF TypePassword, ShowKey, ReadDigest, ChangePassword
  <2>4. TurnAway(x) => RefusesNow(x)
    BY DEF TurnAway, Refuses, RefusesNow
  <2>5. ResolveMember(x) => Serve(x) \/ RefusesNow(x)
    BY DEF ResolveMember, Refuses, RefusesNow, Serve
  <2> QED BY <1>1, <2>1, <2>2, <2>3, <2>4, <2>5 DEF Device, Next
<1>2. ASSUME NEW r \in Requests, Request(r), ~Leave(r) PROVE UNCHANGED vars
  BY <1>2 DEF Request, Come, ReadPeople, SetRole, Add, EndSessions, Match, Make, RemoveToken,
     Claim, Register, Disable, Mint, Withdraw, Import, SameDevices
<1>3. TokenExpires \/ Boot => UNCHANGED vars
  BY DEF TokenExpires, Boot, SameDevices
<1> QED BY <1>1, <1>2, <1>3 DEF AccountsNext

\* What the rows keep of whose token is whose holds with people coming and leaving.
LEMMA NextIInv == IInv /\ [AccountsNext]_<<vars, avars>> => IInv'
<1> SUFFICES ASSUME IInv, [AccountsNext]_<<vars, avars>> PROVE IInv'
  OBVIOUS
<1>0. Types /\ Tracked /\ EndedAsAsked
  BY DEF IInv
<1>1. ASSUME NEW x \in Tabs, RefusesNow(x) PROVE IInv'
  <2>1. UNCHANGED <<current, previous, of, due, jar, revoked, asked>> /\ Answer(x, Nil) /\ Nil \in Maybe
    BY <1>1 DEF RefusesNow, rows, heard, Maybe
  <2>2. NoneGained
    <3> SUFFICES ASSUME NEW d \in Devices, NEW u \in Tokens, HeldAt(d, u)'
                 PROVE  HeldAt(d, u)
      BY DEF NoneGained
    <3> QED BY <1>0, <2>1, AnswerHolds, SessionsAssumption DEF SessionsAssumption
  <2>3. Tracked'
    BY <1>0, <2>1, <2>2, KeepTrack
  <2>4. Types'
    BY <1>0, <2>1, AnswerHolds DEF Types
  <2> QED BY <1>0, <2>1, <2>3, <2>4 DEF IInv, EndedAsAsked
<1>2. ASSUME NEW r \in Requests, Leave(r) PROVE IInv'
  <2>1. UNCHANGED <<current, previous, of, due, jar, call>>
    BY <1>2 DEF Leave
  <2>2. NoneGained
    BY <2>1 DEF NoneGained, HeldAt
  <2>3. Tracked'
    BY <1>0, <2>1, <2>2, KeepTrack
  <2>4. EndedAsAsked'
    BY <1>0, <1>2 DEF EndedAsAsked, Leave, Ask
  <2>5. Types'
    BY <1>0, <2>1 DEF Types, Out
  <2> QED BY <2>3, <2>4, <2>5 DEF IInv
<1> QED BY <1>1, <1>2, SessionsStep, Inductive

\* A rotation opens nothing.
LEMMA LoadOpens ==
    ASSUME Types, NEW x \in Tabs, Load(x)
    PROVE  OpenNow' \subseteq OpenNow
<1>1. ASSUME NEW s \in Rotatable(call[x].token), NEW n \in Fresh, current' = [current EXCEPT ![s] = n]
      PROVE  Opened' \subseteq Opened
  BY <1>1 DEF Opened, Rotatable, Live, Types
<1>2. revoked' = revoked
  BY DEF Load
<1>3. Opened' \subseteq Opened
  BY <1>1 DEF Load, Opened
<1> QED BY <1>2, <1>3 DEF OpenNow

\* Whoever asked stays one who did.
LEMMA SentStays ==
    ASSUME PeopleTypes, Stages, SetUpOnce, [AccountsNext]_<<vars, avars>>
    PROVE  Alone' => Alone
<1>1. ASSUME NEW r \in Requests, Request(r) PROVE Sent(r)'
  <2> DEFINE G == at'[r] # "ended" \/ outcome'[r] # "none"
  <2>1. Come(r) \/ ReadPeople(r) \/ SetRole(r) \/ Add(r) \/ EndSessions(r) \/ Leave(r) => G
    BY DEF Come, ReadPeople, SetRole, Add, EndSessions, Leave, Ends, Goes, PeopleTypes
  <2>2. Match(r) \/ Make(r) \/ Claim(r) \/ Register(r) \/ Disable(r) \/ Mint(r) \/ Withdraw(r) => G
    BY DEF Match, Make, Claim, Register, Disable, Mint, Withdraw, Ends, Goes, PeopleTypes
  <2>3. Import(r) => G
    <3>1. ASSUME NEW how \in {"ok", "refused"}, Ends(r, how) PROVE G
      BY <3>1 DEF Ends, PeopleTypes
    <3> QED BY <3>1 DEF Import
  <2>4. RemoveToken(r) => G
    BY DEF RemoveToken, Is, SetUpOnce, Of
  <2> QED BY <1>1, <2>1, <2>2, <2>3, <2>4 DEF Request, Sent
<1>2. ASSUME Boot, NEW r \in Requests, Sent(r) PROVE Sent(r)'
  <2>1. at[r] \in Places
    BY DEF PeopleTypes
  <2>2. /\ at'[r] = IF at[r] = "new" THEN "new" ELSE "ended"
        /\ outcome'[r] = IF at[r] \in {"asked", "read", "written"} /\ outcome[r] = "none"
                         THEN "lost" ELSE outcome[r]
    BY <1>2 DEF Boot
  <2> QED BY <1>2, <2>1, <2>2 DEF Sent, Places
<1>3. ASSUME UNCHANGED <<at, outcome>> PROVE Alone' => Alone
  BY <1>3 DEF Alone, Sent
<1>4. ASSUME NEW x \in Tabs, Device(x) PROVE UNCHANGED <<at, outcome>>
  BY <1>4, DeviceKeeps DEF asks
<1>5. UNCHANGED avars \/ TokenExpires => UNCHANGED <<at, outcome>>
  BY DEF avars, asks, TokenExpires
<1> QED BY <1>1, <1>2, <1>3, <1>4, <1>5 DEF AccountsNext, Alone

\* What somebody was asked to do is being done.
LEMMA AskedIs ==
    ASSUME NEW r \in Requests, Request(r)
    PROVE  ~Alone
<1>1. at[r] # "ended"
  BY DEF Request, Come, ReadPeople, SetRole, Add, EndSessions, Leave, Match, Make, RemoveToken,
     Claim, Register, Disable, Mint, Withdraw, Import, Is
<1> QED BY <1>1 DEF Alone, Sent

\* A request counts a person as left only by removing them.
LEMMA RequestLeaves ==
    ASSUME PeopleTypes, Stages, NEW r \in Requests, Request(r)
    PROVE  /\ past'.changed = past.changed /\ past'.kept = past.kept
           /\ \/ past'.leaves = past.leaves
              \/ Leave(r) /\ at[r] = "written" /\ r \in Of({"leave"}) /\ Asking[r].of = Worker
                 /\ past'.leaves = past.leaves + 1
<1>1. CASE SameCrew /\ past' = past
  BY <1>1
<1>2. CASE Makes(r)
  BY <1>2 DEF Makes
<1>3. ASSUME NEW m \in People, Alters(r, m)
      PROVE  /\ past'.changed = past.changed /\ past'.kept = past.kept
             /\ \/ past'.leaves = past.leaves
                \/ Leave(r) /\ at[r] = "written" /\ r \in Of({"leave"}) /\ Asking[r].of = Worker
                   /\ past'.leaves = past.leaves + 1
  <2>1. Becomes(r, m) /\ (m.is = "left" => at[r] = "written" /\ Asking[r].kind = "leave")
    BY <1>3 DEF Alters
  <2>2. at[r] = "written" /\ Asking[r].kind = "leave" => Leave(r)
    BY DEF Request, Come, ReadPeople, SetRole, Add, EndSessions, Match, Make, RemoveToken,
       Claim, Register, Disable, Mint, Withdraw, Import, Is
  <2> QED BY <2>1, <2>2, BecomesTypes DEF Of
<1> QED BY <1>1, <1>2, <1>3, RequestsPeople

\* Times, over a step that opens nothing.
LEMMA NextTimes ==
    CrewInv /\ OnceInv /\ IInv /\ Times /\ [AccountsNext]_<<vars, avars>> => Times'
<1> SUFFICES ASSUME CrewInv, OnceInv, IInv, Times, [AccountsNext]_<<vars, avars>> PROVE Times'
  OBVIOUS
<1>0. PeopleTypes /\ Stages /\ SetUpOnce /\ password \in Nat /\ past \in Pasts
  BY DEF CrewInv, OnceInv, PeopleTypes
<1>1. opened' \in [Tokens -> Openings]
  <2>1. ASSUME NEW x \in Tabs, Device(x), Notes(x), call'[x].set \in Tokens PROVE opened' \in [Tokens -> Openings]
    <3> DEFINE o == [at |-> proof[x].at, left |-> past.leaves,
                     late |-> proof[x].at # password, amid |-> Removing]
    <3>1. proof[x].at \in Nat /\ past.leaves \in Nat
      BY <1>0 DEF PeopleTypes, Proofs, Pasts
    <3>2. (proof[x].at # password) \in BOOLEAN /\ Removing \in BOOLEAN
      BY DEF Removing
    <3>3. o \in Openings
      BY <3>1, <3>2 DEF Openings
    <3> HIDE DEF o
    <3>4. opened' = [opened EXCEPT ![call'[x].set] = o]
      BY <2>1 DEF Notes, o
    <3> QED BY <3>3, <3>4 DEF Times
  <2>2. ASSUME NEW x \in Tabs, Device(x), ~Notes(x) PROVE opened' = opened
    BY <2>2 DEF Device, SendFrom, TypePassword, ShowKey, SignOn, SignOnSite, TurnAway,
       ResolveMember, ReadDigest, ChangePassword, SignOthersOff, Refuses, Quietly, avars
  <2>3. ASSUME NEW x \in Tabs, Device(x), Notes(x), call'[x].set \notin Tokens PROVE opened' = opened
    <3>1. opened' = [opened EXCEPT ![call'[x].set] =
                [at |-> proof[x].at, left |-> past.leaves,
                 late |-> proof[x].at # password, amid |-> Removing]]
      BY <2>3 DEF Notes
    <3> QED BY <2>3, <3>1 DEF Times
  <2> QED BY <1>0, <2>1, <2>2, <2>3, CrewStep, RequestsAt DEF Times
<1>2. /\ past'.changed <= password'
      /\ \A x \in Tabs : proof'[x].at <= password'
  <2> DEFINE G == /\ past'.changed <= password'
                  /\ \A x \in Tabs : proof'[x].at <= password'
  <2>1. ASSUME past'.changed = past.changed, UNCHANGED <<password, proof>> PROVE G
    BY <2>1 DEF Times
  <2>2. ASSUME NEW x \in Tabs, Device(x) PROVE G
    <3>n. /\ proof \in [Tabs -> Proofs] /\ past.changed \in Nat
          /\ past.changed <= password /\ \A y \in Tabs : proof[y].at \in Nat /\ proof[y].at <= password
      BY <1>0 DEF PeopleTypes, Pasts, Proofs, Times
    <3>1. ASSUME NEW how, Shows(x, how), password' = password, past' = past PROVE G
      BY <1>0, <3>n, <3>1 DEF Shows
    <3>2. ASSUME Done(x), password' = password, past' = past PROVE G
      BY <1>0, <3>n, <3>2 DEF Done, NoProof
    <3>3. ASSUME ChangePassword(x) PROVE G
      <4>1. /\ password' = password + 1 /\ past' = past
            /\ proof' = [proof EXCEPT ![x] = [by |-> "changed", at |-> password + 1]]
        BY <3>3 DEF ChangePassword
      <4>2. past'.changed <= password'
        BY <1>0, <3>n, <4>1
      <4>3. \A y \in Tabs : proof'[y].at <= password'
        BY <1>0, <3>n, <4>1
      <4> QED BY <4>2, <4>3
    <3>4. ASSUME SignOthersOff(x) PROVE G
      <4>1. past'.changed = proof[x].at
        BY <1>0, <3>4 DEF SignOthersOff, Pasts
      <4>2. password' = password /\ Done(x)
        BY <3>4 DEF SignOthersOff, tables
      <4> QED BY <1>0, <3>n, <4>1, <4>2 DEF Done, NoProof
    <3>5. ~ChangePassword(x) /\ ~SignOthersOff(x) =>
              /\ password' = password /\ past' = past
              /\ Done(x) \/ UNCHANGED proof \/ \E how \in {"password", "key", "session", "digest"} : Shows(x, how)
      BY <2>2 DEF Device, SendFrom, TypePassword, ShowKey, SignOn, SignOnSite, TurnAway,
         ResolveMember, ReadDigest, Refuses, Quietly, avars, tables
    <3> QED BY <2>1, <3>1, <3>2, <3>3, <3>4, <3>5
  <2> QED BY <1>0, <2>1, <2>2, CrewStep, RequestsAt, RequestLeaves
<1>3. Alone' => past'.leaves = 0 /\ past'.changed = 0
  <2>1. Alone' => Alone
    BY <1>0, SentStays
  <2>2. Alone => past'.leaves = past.leaves /\ past'.changed = past.changed
    BY <1>0, AskedIs, CrewStep DEF SameCrew
  <2> QED BY <2>1, <2>2 DEF Times
<1> QED BY <1>1, <1>2, <1>3 DEF Times

\* Nothing is newly open, and what was is as it was.
Fewer == OpenNow' \subseteq OpenNow /\ opened' = opened

\* A session n is issued to x, as its opening says.
IssuesOne(x, n) ==
    /\ n \in Tokens /\ OpenNow' \subseteq OpenNow \cup {n} /\ n \notin OpenNow
    /\ opened' = [opened EXCEPT ![n] = [at |-> proof[x].at, left |-> past.leaves,
                                       late |-> proof[x].at # password, amid |-> Removing]]
    /\ past' = past /\ at' = at /\ saw' = saw

LEMMA IssuesAre ==
    ASSUME IInv, PeopleTypes, NEW x \in Tabs, SignOn(x) \/ SignOnSite(x)
    PROVE  \E n \in Tokens : IssuesOne(x, n)
<1>0. Types /\ Tracked /\ Nil \notin Tokens
  BY SessionsAssumption DEF IInv, SessionsAssumption
<1>1. PICK n \in Fresh : Open(n) /\ call'[x].set = n /\ revoked' = revoked
  <2>1. ASSUME SignOn(x) PROVE \E n \in Fresh : Open(n) /\ call'[x].set = n /\ revoked' = revoked
    BY <1>0, <2>1 DEF SignOn, IssueOn, Answer, Types
  <2>2. ASSUME SignOnSite(x) PROVE \E n \in Fresh : Open(n) /\ call'[x].set = n /\ revoked' = revoked
    <3>1. PICK n \in Fresh : Open(n) /\ call' = [call EXCEPT ![x].at = "issued", ![x].set = n]
      BY <2>2 DEF SignOnSite, IssueSite
    <3>2. revoked' = revoked
      BY <2>2 DEF SignOnSite, IssueSite
    <3>3. call[x] \in Calls
      BY <1>0 DEF Types
    <3>4. [call[x] EXCEPT !.at = "issued", !.set = n].set = n
      BY <3>3 DEF Calls
    <3>5. call'[x].set = n
      BY <1>0, <3>1, <3>4 DEF Types
    <3> QED BY <3>1, <3>2, <3>5
  <2> QED BY <2>1, <2>2
<1>2. n \in Tokens /\ n \notin Opened
  BY <1>0, <1>1 DEF Fresh, Tracked, Minted
<1>3. OpenNow' \subseteq OpenNow \cup {n}
  BY <1>0, <1>1 DEF OpenNow, Opened, Open, Types
<1>4. Notes(x) /\ past' = past /\ at' = at /\ saw' = saw
  BY DEF SignOn, SignOnSite, asks
<1>5. opened' = [opened EXCEPT ![n] = [at |-> proof[x].at, left |-> past.leaves,
                                       late |-> proof[x].at # password, amid |-> Removing]]
  BY <1>1, <1>4 DEF Notes
<1> QED BY <1>2, <1>3, <1>4, <1>5 DEF IssuesOne, OpenNow

\* A step of the whole, as the sessions that are open see it.
LEMMA OffStep ==
    ASSUME CrewInv, IInv, [AccountsNext]_<<vars, avars>>
    PROVE  \/ Fewer
           \/ Alone /\ at' = at /\ past' = past
           \/ \E x \in Tabs, n \in Tokens : IssuesOne(x, n)
<1>0. PeopleTypes /\ Stages /\ Types
  BY DEF CrewInv, IInv
<1>1. ASSUME current' = current, revoked \subseteq revoked' PROVE OpenNow' \subseteq OpenNow
  BY <1>1 DEF OpenNow, Opened
<1>2. ASSUME NEW x \in Tabs, Device(x), ~(SignOn(x) \/ SignOnSite(x)) PROVE Fewer
  <2>1. opened' = opened
    BY <1>2 DEF Device, SendFrom, TypePassword, ShowKey, TurnAway, ResolveMember, ReadDigest,
       ChangePassword, SignOthersOff, Refuses, Quietly, avars
  <2>2. ~Load(x) => current' = current /\ revoked \subseteq revoked'
    BY <1>2 DEF Device, SendFrom, TypePassword, ShowKey, TurnAway, ResolveMember, ReadDigest,
       ChangePassword, SignOthersOff, Refuses, Quietly, Send, Resolve, CloseOld, Off, RevokeOthers,
       Reject, Hear, rows, vars
  <2> QED BY <1>0, <1>1, <2>1, <2>2, LoadOpens DEF Fewer
<1>3. ASSUME NEW r \in Requests, Request(r) PROVE Fewer
  <2>1. opened' = opened
    BY <1>0, <1>3, RequestsAt
  <2>2. Leave(r) => current' = current /\ revoked \subseteq revoked'
    BY DEF Leave
  <2>3. ~Leave(r) => UNCHANGED vars
    BY <1>3 DEF Request, Come, ReadPeople, SetRole, Add, EndSessions, Match, Make, RemoveToken,
       Claim, Register, Disable, Mint, Withdraw, Import, SameDevices
  <2>4. UNCHANGED vars => current' = current /\ revoked' = revoked
    BY DEF vars, rows
  <2> QED BY <1>1, <2>1, <2>2, <2>3, <2>4 DEF Fewer
<1>4. TokenExpires \/ Boot \/ UNCHANGED <<vars, avars>> => current' = current /\ revoked' = revoked /\ opened' = opened
  BY DEF TokenExpires, Boot, SameDevices, vars, rows, avars
<1>5. UNCHANGED avars => at' = at /\ past' = past
  BY DEF avars, asks
<1>6. ASSUME NEW x \in Tabs, SignOn(x) \/ SignOnSite(x) PROVE \E n \in Tokens : IssuesOne(x, n)
  BY <1>0, <1>6, IssuesAre
<1> QED BY <1>1, <1>2, <1>3, <1>4, <1>5, <1>6 DEF AccountsNext, Fewer

LEMMA NextLeftSince ==
    CrewInv /\ IInv /\ OffInv /\ Times' /\ [AccountsNext]_<<vars, avars>> => LeftSince'
<1> SUFFICES ASSUME CrewInv, IInv, OffInv, Times', [AccountsNext]_<<vars, avars>>,
                    NEW s \in OpenNow', opened'[s].left < past'.leaves
             PROVE  opened'[s].amid
  BY DEF LeftSince
<1>0. /\ PeopleTypes /\ Stages /\ Times /\ LeftSince /\ Seen /\ s \in Tokens
      /\ opened'[s].left \in Nat /\ past.leaves \in Nat
  BY DEF CrewInv, OffInv, OpenNow, Opened, Times, Openings, PeopleTypes, Pasts
<1>1. CASE Alone /\ past' = past
  BY <1>0, <1>1 DEF Times
<1>2. ASSUME NEW x \in Tabs, NEW n \in Tokens, IssuesOne(x, n) PROVE opened'[s].amid
  <2>1. CASE s = n
    <3>1. opened'[s].left = past.leaves /\ past'.leaves = past.leaves
      BY <1>0, <1>2, <2>1 DEF IssuesOne, Times
    <3> QED BY <1>0, <3>1
  <2>2. CASE s # n
    <3>1. opened'[s] = opened[s] /\ past' = past /\ s \in OpenNow
      BY <1>0, <1>2, <2>2 DEF IssuesOne, Times
    <3> QED BY <1>0, <3>1 DEF LeftSince
  <2> QED BY <2>1, <2>2
<1>3. ASSUME Fewer PROVE opened'[s].amid
  <2>1. s \in OpenNow /\ opened'[s] = opened[s]
    BY <1>3 DEF Fewer
  <2>2. CASE past'.leaves = past.leaves
    BY <1>0, <2>1, <2>2 DEF LeftSince
  <2>3. ASSUME NEW r \in Requests, Leave(r), at[r] = "written", r \in Of({"leave"}), Asking[r].of = Worker
        PROVE  opened'[s].amid
    <3>1. s \notin saw[r].sessions
      BY <2>3 DEF Leave, OpenNow
    <3> QED BY <1>0, <2>1, <2>3, <3>1 DEF Seen
  <2>4. \/ past'.leaves = past.leaves
        \/ \E r \in Requests : Leave(r) /\ at[r] = "written" /\ r \in Of({"leave"}) /\ Asking[r].of = Worker
    <3>1. ASSUME NEW x \in Tabs, Device(x) PROVE past'.leaves = past.leaves
      BY <1>0, <3>1, DeviceKeeps
    <3> QED BY <1>0, <3>1, CrewStep, RequestLeaves DEF SameCrew
  <2> QED BY <2>2, <2>3, <2>4
<1> QED BY <1>1, <1>2, <1>3, OffStep

LEMMA NextSeen ==
    CrewInv /\ IInv /\ OffInv /\ Times' /\ [AccountsNext]_<<vars, avars>> => Seen'
<1> SUFFICES ASSUME CrewInv, IInv, OffInv, Times', [AccountsNext]_<<vars, avars>>,
                    NEW r \in Of({"leave"}), at'[r] = "written", Asking[r].of = Worker,
                    NEW s \in OpenNow'
             PROVE  s \in saw'[r].sessions \/ opened'[s].amid
  BY DEF Seen
<1>0. PeopleTypes /\ Stages /\ Times /\ Seen /\ s \in Tokens /\ r \in Requests /\ r \in Of(About)
  BY DEF CrewInv, OffInv, OpenNow, Opened, Of, About
<1>1. CASE Alone /\ at' = at
  BY <1>0, <1>1 DEF Alone, Sent
<1>2. ASSUME NEW x \in Tabs, NEW n \in Tokens, IssuesOne(x, n)
      PROVE  s \in saw'[r].sessions \/ opened'[s].amid
  <2>1. CASE s = n
    <3>1. opened'[s].amid = Removing
      BY <1>2, <2>1 DEF IssuesOne, Times, OffInv
    <3>2. at[r] = "written" /\ Asking[r].kind = "leave"
      BY <1>2 DEF IssuesOne, Of
    <3> QED BY <1>0, <3>1, <3>2 DEF Removing
  <2>2. CASE s # n
    <3>1. opened'[s] = opened[s] /\ s \in OpenNow /\ saw' = saw /\ at' = at
      BY <1>0, <1>2, <2>2 DEF IssuesOne, Times
    <3> QED BY <1>0, <3>1 DEF Seen
  <2> QED BY <2>1, <2>2
<1>3. ASSUME Fewer PROVE s \in saw'[r].sessions \/ opened'[s].amid
  <2>1. s \in OpenNow /\ opened'[s] = opened[s]
    BY <1>3 DEF Fewer
  <2>2. CASE at[r] = "written" /\ saw'[r].sessions = saw[r].sessions
    BY <1>0, <2>1, <2>2 DEF Seen
  <2>3. CASE EndSessions(r)
    <3>1. saw'[r].sessions = Opened \ revoked
      BY <1>0, <2>3 DEF EndSessions, PeopleTypes
    <3> QED BY <2>1, <3>1 DEF OpenNow
  <2>4. \/ at[r] = "written" /\ saw'[r].sessions = saw[r].sessions
        \/ EndSessions(r)
    <3>1. ASSUME NEW x \in Tabs, Device(x) PROVE at' = at /\ saw' = saw
      BY <1>0, <3>1, DeviceKeeps DEF asks
    <3>2. ASSUME NEW q \in Requests, q # r, Request(q)
          PROVE  at[r] = "written" /\ saw'[r].sessions = saw[r].sessions
      <4>1. at[r] = "written"
        BY <1>0, <3>2, RequestsAt
      <4>2. saw'[r].sessions = saw[r].sessions
        BY <1>0, <3>2 DEF Request, Come, ReadPeople, SetRole, Add, EndSessions, Leave, Match, Make,
           RemoveToken, Claim, Register, Disable, Mint, Withdraw, Import, Reads, PeopleTypes
      <4> QED BY <4>1, <4>2
    <3>3. CASE Request(r)
      BY <1>0, <3>3, GoesOn
    <3>4. CASE saw' = saw /\ \A q \in Requests : at'[q] \in {at[q], "ended"}
      BY <1>0, <3>4
    <3> QED BY <1>0, <3>1, <3>2, <3>3, <3>4, CrewStep
  <2> QED BY <2>2, <2>3, <2>4
<1> QED BY <1>1, <1>2, <1>3, OffStep

LEMMA NextChangedSince ==
    CrewInv /\ IInv /\ OffInv /\ Times' /\ [AccountsNext]_<<vars, avars>> => ChangedSince'
<1> SUFFICES ASSUME CrewInv, IInv, OffInv, Times', [AccountsNext]_<<vars, avars>>,
                    NEW s \in OpenNow', opened'[s].at < past'.changed
             PROVE  opened'[s].late \/ s \in past'.kept
  BY DEF ChangedSince
<1>0. /\ PeopleTypes /\ Stages /\ Times /\ ChangedSince /\ s \in Tokens /\ Types /\ Tracked
      /\ opened'[s].at \in Nat /\ past.changed \in Nat /\ past.changed <= password /\ password \in Nat
  BY DEF CrewInv, OffInv, OpenNow, Opened, Times, Openings, PeopleTypes, Pasts, IInv
<1>1. CASE Alone /\ past' = past
  BY <1>0, <1>1 DEF Times
<1>2. ASSUME NEW x \in Tabs, NEW n \in Tokens, IssuesOne(x, n)
      PROVE  opened'[s].late \/ s \in past'.kept
  <2>1. CASE s = n
    <3>1. opened'[s].at = proof[x].at /\ opened'[s].late = (proof[x].at # password) /\ past' = past
      BY <1>2, <2>1, <1>0 DEF IssuesOne, Times
    <3>2. proof[x].at # password
      BY <1>0, <3>1
    <3> QED BY <3>1, <3>2
  <2>2. CASE s # n
    <3>1. opened'[s] = opened[s] /\ s \in OpenNow /\ past' = past
      BY <1>0, <1>2, <2>2 DEF IssuesOne, Times
    <3> QED BY <1>0, <3>1 DEF ChangedSince
  <2> QED BY <2>1, <2>2
<1>3. ASSUME Fewer PROVE opened'[s].late \/ s \in past'.kept
  <2>1. s \in OpenNow /\ opened'[s] = opened[s]
    BY <1>3 DEF Fewer
  <2>2. CASE past'.changed = past.changed /\ past'.kept = past.kept
    BY <1>0, <2>1, <2>2 DEF ChangedSince
  <2>3. ASSUME NEW x \in Tabs, SignOthersOff(x) PROVE s \in past'.kept
    <3>1. s \in AnswersTo(call[x].token)
      BY <2>1, <2>3 DEF SignOthersOff, RevokeOthers, OpenNow
    <3>2. s \in Meant(call[x].token)
      BY <1>0, <3>1, AnswersToMeant
    <3>3. past'.kept = Meant(call[x].token)
      BY <1>0, <2>3 DEF SignOthersOff, PeopleTypes, Pasts
    <3> QED BY <3>2, <3>3
  <2>4. \/ past'.changed = past.changed /\ past'.kept = past.kept
        \/ \E x \in Tabs : SignOthersOff(x)
    <3>1. ASSUME NEW x \in Tabs, Device(x), ~SignOthersOff(x) PROVE past' = past
      BY <3>1 DEF Device, SendFrom, TypePassword, ShowKey, SignOn, SignOnSite, TurnAway,
       ResolveMember, ReadDigest, ChangePassword, Refuses, Quietly, avars
    <3> QED BY <1>0, <3>1, CrewStep, RequestLeaves
  <2> QED BY <2>2, <2>3, <2>4
<1> QED BY <1>1, <1>2, <1>3, OffStep

------------------------------------------------------------------------------
(* The whole *)

AllInv == CrewInv /\ OnceInv /\ IInv /\ OffInv

LEMMA AllInit == AccountsInit => AllInv
<1> SUFFICES ASSUME AccountsInit PROVE AllInv
  OBVIOUS
<1> PICK T \in Together :
        /\ at = [r \in Requests |-> IF r \in T.sent THEN "new" ELSE "ended"]
        /\ using = T.tabs
        /\ IF \E r \in T.sent : Asking[r].kind = "setup"
           THEN people = [p \in Persons |-> Nobody] /\ setup = "good"
           ELSE /\ people = [p \in Persons |-> [is |-> "in", role |->
                     IF p = Worker THEN "operator" ELSE "administrator"]]
                /\ setup = "none"
  BY DEF AccountsInit
<1>1. /\ outcome = [r \in Requests |-> "none"]
      /\ saw = [r \in Of({"add", "role", "leave"}) |-> NoNews]
      /\ password = 0
      /\ keys = [r \in Of({"enrol"}) |-> "none"]
      /\ claimed = {}
      /\ proof = [x \in Tabs |-> NoProof]
      /\ opened = [s \in Tokens |-> NotYet]
      /\ past = [taken |-> 0, crossed |-> FALSE, leaves |-> 0, changed |-> 0, kept |-> {},
                 blind |-> FALSE]
      /\ Init
  BY DEF AccountsInit
<1>2. at \in [Requests -> {"new", "ended"}]
  OBVIOUS
<1>3. PeopleTypes
  <2>1. people \in [Persons -> People] /\ setup \in {"none", "good", "stale"}
    BY DEF Nobody, People, Roles
  <2>2. saw \in [Of(About) -> [person : People, sessions : SUBSET Tokens, taken : Nat]]
    BY <1>1 DEF About, NoNews, Nobody, People, Roles
  <2>3. proof \in [Tabs -> Proofs] /\ password \in Nat
    BY <1>1 DEF Proofs, NoProof
  <2>5. past \in Pasts
    BY <1>1 DEF Pasts
  <2>4. at \in [Requests -> Places] /\ outcome \in [Requests -> Outcomes]
    BY <1>1, <1>2 DEF Places, Outcomes
  <2> QED BY <2>1, <2>2, <2>3, <2>4, <2>5 DEF PeopleTypes
<1>4. Stages /\ Peopled
  BY <1>2 DEF Stages, Peopled, Of
<1>5. SawBefore
  BY <1>1 DEF SawBefore, About, NoNews
<1>6. Spare
  BY <1>2 DEF Spare, ReadBefore, Of
<1>7. AdministratorStays
  <2>1. CASE \E r \in T.sent : Asking[r].kind = "setup"
    BY <2>1 DEF AdministratorStays, Somebody, Exists, Nobody
  <2>2. CASE ~\E r \in T.sent : Asking[r].kind = "setup"
    <3>1. PICK p : p \in Others
      OBVIOUS
    <3>2. p \in Persons /\ Administrator(p)
      BY <2>2, <3>1 DEF Persons, Administrator, Member
    <3> QED BY <3>2 DEF AdministratorStays
  <2> QED BY <2>1, <2>2
<1>8. SetUpOnce
  BY <1>1, <1>2 DEF SetUpOnce, Of
<1>9. TokenGone
  BY DEF TokenGone, Somebody, Exists, Nobody
<1>10. ClaimedOnce
  BY <1>1, <1>2 DEF ClaimedOnce, Claimer, Of
<1>11. IInv
  BY <1>1, InitIInv
<1>12. Times
  BY <1>1 DEF Times, Openings, NotYet, NoProof
<1>13. OpenNow = {}
  BY <1>1 DEF OpenNow, Opened, Init
<1> QED BY <1>3, <1>4, <1>5, <1>6, <1>7, <1>8, <1>9, <1>10, <1>11, <1>12, <1>13
     DEF AllInv, CrewInv, OnceInv, OffInv, LeftSince, ChangedSince, Seen

LEMMA AllNext == AllInv /\ [AccountsNext]_<<vars, avars>> => AllInv'
<1> SUFFICES ASSUME AllInv, [AccountsNext]_<<vars, avars>> PROVE AllInv'
  OBVIOUS
<1>1. CrewInv' /\ OnceInv' /\ IInv'
  BY NextCrew, NextOnce, NextIInv DEF AllInv
<1>2. Times'
  BY NextTimes DEF AllInv, OffInv
<1>3. OffInv'
  BY <1>2, NextLeftSince, NextSeen, NextChangedSince DEF AllInv, OffInv
<1> QED BY <1>1, <1>3 DEF AllInv

LEMMA AllHolds == AccountsSpec => []AllInv
BY AllInit, AllNext, PTL DEF AccountsSpec

\* A workspace keeps an administrator, whoever is promoted, demoted, removed or added,
\* unless two requests that each take one away overlap: set_role and remove_person count
\* the others in the transaction that writes, and lock none of them.
THEOREM AdministratorStaysHolds == AccountsSpec => []AdministratorStays
<1>1. AllInv => AdministratorStays
  BY DEF AllInv, CrewInv
<1> QED BY <1>1, AllHolds, PTL

\* A deployment is set up once and its token does not outlive that, and a ceremony
\* enrols one key, over any copies of the requests and any restarts.
THEOREM OnceOnlyHolds == AccountsSpec => []OnceOnly
<1>1. ASSUME SetUpOnce
      PROVE  Cardinality({r \in Requests : Asking[r].kind = "setup" /\ outcome[r] = "ok"}) <= 1
  <2> DEFINE S == {r \in Requests : Asking[r].kind = "setup" /\ outcome[r] = "ok"}
  <2>1. \A q, r \in S : q = r
    BY <1>1 DEF SetUpOnce, Of
  <2> HIDE DEF S
  <2>4. Cardinality(S) <= 1
    BY <2>1, AtMostOne
  <2> QED BY <2>4 DEF S
<1>2. ASSUME ClaimedOnce
      PROVE  \A p, q \in DOMAIN keys : p # q /\ keys[p] # "none" /\ keys[q] # "none"
                                       => Asking[p].on # Asking[q].on
  BY <1>2 DEF ClaimedOnce, Claimer
<1>3. AllInv => OnceOnly
  BY <1>1, <1>2 DEF AllInv, OnceInv, OnceOnly, TokenGone
<1> QED BY <1>3, AllHolds, PTL

\* Who was removed and brought back, or changed the password, is signed on nowhere from
\* before, but where they asked from and where signing on was on its way: remove_person
\* ends the sessions it sees, change_password all but its own.
THEOREM SeenOffHolds == AccountsSpec => []SeenOff
<1>1. Live \subseteq OpenNow
  BY DEF Live, OpenNow
<1>2. AllInv => SeenOff
  BY <1>1 DEF AllInv, OffInv, LeftSince, ChangedSince, SeenOff
<1> QED BY <1>2, AllHolds, PTL

\* With people removed as well, the database ends exactly the sessions that somebody
\* asked to end.
THEOREM AccountsEndAsAsked == AccountsSpec => []EndedAsAsked
<1>1. AllInv => EndedAsAsked
  BY DEF AllInv, IInv
<1> QED BY <1>1, AllHolds, PTL
=============================================================================
