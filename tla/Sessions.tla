-------------------------------- MODULE Sessions --------------------------------
(***************************************************************************)
(* One person's sessions: the rows that session_open, session_resolve,      *)
(* session_rotate, session_revoke and session_revoke_others keep (migration *)
(* 92), the handlers that call them, and the credential each device holds.  *)
(*                                                                         *)
(* A browser's tabs share one cookie; a handheld sends its token itself and *)
(* is set no cookie.  Every call to the database commits by itself, so a    *)
(* handler is one action per call, and what a handler answers reaches the   *)
(* device in any order.  A session is named by its first token.  All are    *)
(* remembered sessions; the others differ in never being rotated.           *)
(***************************************************************************)
EXTENDS Naturals, FiniteSets

CONSTANTS
    Tokens,      \* BOUND: every token minted
    Tabs,        \* a page, or the app on a handheld: one request out at a time
    Devices,
    DeviceOf,    \* the device a tab is on
    Handhelds,   \* devices whose credential is a bearer token
    Nil,         \* no token
    MaxMishaps   \* BOUND: requests lost, handlers cut off, sessions expired

ASSUME SessionsAssumption ==
    /\ DeviceOf \in [Tabs -> Devices]
    /\ Handhelds \subseteq Devices
    /\ Nil \notin Tokens
    /\ MaxMishaps \in Nat

Maybe == Tokens \cup {Nil}
Moves == {"on", "site", "off"}          \* requests that replace the credential
Kinds == {"load", "password"} \cup Moves

VARIABLES
    current,    \* session.token_sha256, Nil before the session is opened
    previous,   \* session.previous_token_sha256
    grace,      \* sessions rotated in the last two minutes
    due,        \* sessions whose token is ROTATE_AFTER_HOURS old
    revoked,    \* sessions with revoked_at
    expired,    \* sessions idle or open for too long
    jar,        \* per device, the cookie, or the token a handheld remembers
    call,       \* per tab, its request: where it is, and what it will set
    of,         \* HISTORY: per token, the session it was minted for
    on,         \* HISTORY: per device, the session it was last put on, until ended
    asked,      \* HISTORY: sessions that somebody asked to end
    turned,     \* HISTORY: devices answered 401 while their session was open
    disturbed,  \* HISTORY: devices that an answer did not reach in time and in order
    stranded,   \* HISTORY: handhelds where a site was chosen since they were signed on
    mishaps

rows    == <<current, previous, grace, due, revoked, expired>>
heard   == <<on, asked, turned, disturbed, stranded>>
vars    == <<rows, jar, call, of, heard, mishaps>>

Idle == [at |-> "idle", kind |-> "load", token |-> Nil, due |-> FALSE, set |-> Nil]

Init ==
    /\ current = [s \in Tokens |-> Nil]
    /\ previous = [s \in Tokens |-> Nil]
    /\ grace = {} /\ due = {} /\ revoked = {} /\ expired = {}
    /\ jar = [d \in Devices |-> Nil]
    /\ call = [x \in Tabs |-> Idle]
    /\ of = [t \in Tokens |-> Nil]
    /\ on = [d \in Devices |-> Nil]
    /\ asked = {} /\ turned = {} /\ disturbed = {} /\ stranded = {}
    /\ mishaps = 0

------------------------------------------------------------------------------
(* The rows *)

Opened  == {s \in Tokens : current[s] # Nil}
Live    == Opened \ (revoked \cup expired)

\* What mint_token can return.
Fresh == {t \in Tokens : of[t] = Nil}

\* MUTANT: a token is refused as soon as it is rotated.
NamesNoGrace(t, s) == current[s] = t

\* The digests session_resolve accepts for a session.
Names(t, s) == current[s] = t \/ (previous[s] = t /\ s \in grace)

\* The session a token resolves to, as a set of at most one.
Resolved(t) == {s \in Live : Names(t, s)}

\* MUTANT: a session answers only to its newest token.
AnswersToNewest(t) == {s \in Opened : t # Nil /\ current[s] = t}

\* The sessions that a sign-off with t, or a password change keeping t, takes t
\* to be: the digest before the last rotation names its session however old.
AnswersTo(t) == {s \in Opened : t # Nil /\ t \in {current[s], previous[s]}}

\* The session t was minted for, as a set.
Meant(t) == {s \in Opened : t # Nil /\ of[t] = s}

\* A new row: session_open.
Open(s) == /\ current' = [current EXCEPT ![s] = s]
           /\ of' = [of EXCEPT ![s] = s]

\* Somebody asks for the sessions S to end.
Ask(S) == asked' = asked \cup S

\* The devices still on a session once those in S are ended.
Left(S) == [d \in Devices |-> IF on[d] \in S THEN Nil ELSE on[d]]

------------------------------------------------------------------------------
(* A request, from the tab to its answer *)

Out(x)      == call[x].at # "idle"
OutAt(d)    == {y \in Tabs : Out(y) /\ DeviceOf[y] = d}
Quiet(d)    == OutAt(d) = {}
Answer(x, t) == call' = [call EXCEPT ![x] = [at |-> "answered", kind |-> @.kind,
                            token |-> Nil, due |-> FALSE, set |-> t]]

\* Two requests of one device that replace what the device holds, or one of them
\* and any other, have answers that may be heard in either order.
Crosses(x, k) == \E y \in OutAt(DeviceOf[x]) : k \in Moves \/ call[y].kind \in Moves

Send(x, k) ==
    /\ ~Out(x)
    /\ (k = "on") \/ jar[DeviceOf[x]] # Nil
    /\ call' = [call EXCEPT ![x] = [at |-> "sent", kind |-> k, due |-> FALSE,
                   token |-> IF k = "on" THEN Nil ELSE jar[DeviceOf[x]], set |-> Nil]]
    /\ disturbed' = IF Crosses(x, k) THEN disturbed \cup {DeviceOf[x]} ELSE disturbed
    /\ UNCHANGED <<rows, jar, of, on, asked, turned, stranded, mishaps>>

\* caller: the request is its session's, or is answered 401.
Resolve(x) ==
    LET t == call[x].token IN
    /\ call[x].at = "sent" /\ call[x].kind \in {"load", "site", "password"}
    /\ \/ \E s \in Resolved(t) :
            /\ call' = [call EXCEPT ![x].at = "resolved", ![x].due = (s \in due)]
            /\ UNCHANGED turned
       \/ /\ Resolved(t) = {}
          /\ Answer(x, Nil)
          /\ turned' = IF Meant(t) \cap Live = {} THEN turned
                       ELSE turned \cup {DeviceOf[x]}
    /\ UNCHANGED <<rows, jar, of, on, asked, disturbed, stranded, mishaps>>

\* MUTANT: session_rotate matches the row that session_resolve did.
RotatableAsResolved(t) == Resolved(t)

\* The row session_rotate matches: by the current digest only, and by its age.
Rotatable(t) == {s \in Live \cap due : current[s] = t}

\* rotated_cookie goes on to mint: only for a cookie, and only when the session
\* was a day old as the request resolved.
Rotates(x) == call[x].due /\ DeviceOf[x] \notin Handhelds

\* current_session: the answer, with a new token when one is due.
Load(x) ==
    LET t == call[x].token IN
    /\ call[x].at = "resolved" /\ call[x].kind = "load"
    /\ \/ /\ Rotates(x)
          /\ \E s \in Rotatable(t), n \in Fresh :
                /\ current' = [current EXCEPT ![s] = n]
                /\ previous' = [previous EXCEPT ![s] = current[s]]
                /\ grace' = grace \cup {s}
                /\ due' = due \ {s}
                /\ of' = [of EXCEPT ![n] = of[t]]
                /\ Answer(x, n)
       \/ /\ Rotates(x) => Rotatable(t) = {}
          /\ Answer(x, Nil)
          /\ UNCHANGED <<current, previous, grace, due, of>>
    /\ UNCHANGED <<revoked, expired, jar, heard, mishaps>>

\* issue_session, for somebody who signs on and for a site that was chosen.
IssueOn(x) ==
    /\ call[x].at = "sent" /\ call[x].kind = "on"
    /\ \E n \in Fresh :
          /\ Open(n)
          /\ Answer(x, n)
          /\ on' = [on EXCEPT ![DeviceOf[x]] = n]
          /\ stranded' = stranded \ {DeviceOf[x]}
    /\ UNCHANGED <<previous, grace, due, revoked, expired, jar, asked, turned,
                   disturbed, mishaps>>

IssueSite(x) ==
    /\ call[x].at = "resolved" /\ call[x].kind = "site"
    /\ \E n \in Fresh :
          /\ Open(n)
          /\ call' = [call EXCEPT ![x].at = "issued", ![x].set = n]
    /\ UNCHANGED <<previous, grace, due, revoked, expired, jar, heard, mishaps>>

\* choose_site ends the session it replaces once the new one is there.
CloseOld(x) ==
    LET t == call[x].token  n == call[x].set IN
    /\ call[x].at = "issued"
    /\ Answer(x, n)
    /\ revoked' = revoked \cup AnswersTo(t)
    /\ Ask(Meant(t))
    /\ on' = [Left(Meant(t)) EXCEPT ![DeviceOf[x]] = IF n \in Live THEN n ELSE Nil]
    /\ stranded' = IF DeviceOf[x] \in Handhelds THEN stranded \cup {DeviceOf[x]}
                                                 ELSE stranded
    /\ UNCHANGED <<current, previous, grace, due, expired, jar, of, turned,
                   disturbed, mishaps>>

\* sign_off, which does not resolve its token first.
Off(x) ==
    LET t == call[x].token IN
    /\ call[x].at = "sent" /\ call[x].kind = "off"
    /\ Answer(x, Nil)
    /\ revoked' = revoked \cup AnswersTo(t)
    /\ Ask(Meant(t))
    /\ on' = Left(Meant(t))
    /\ UNCHANGED <<current, previous, grace, due, expired, jar, of, turned,
                   disturbed, stranded, mishaps>>

\* change_password ends every session but the one it was asked from.
RevokeOthers(x) ==
    LET t == call[x].token  others == Opened \ Meant(t) IN
    /\ call[x].at = "resolved" /\ call[x].kind = "password"
    /\ Answer(x, Nil)
    /\ revoked' = revoked \cup (Opened \ AnswersTo(t))
    /\ Ask(others)
    /\ on' = Left(others)
    /\ UNCHANGED <<current, previous, grace, due, expired, jar, of, turned,
                   disturbed, stranded, mishaps>>

\* A site this account cannot work at, or a password that is wrong, the same or
\* changed in the meantime.
Reject(x) ==
    /\ call[x].at = "resolved" /\ call[x].kind \in {"site", "password"}
    /\ Answer(x, Nil)
    /\ UNCHANGED <<rows, jar, of, heard, mishaps>>

\* What the device holds after the answer to x.  A browser does as Set-Cookie
\* says.  The app on a handheld takes the token out of a sign-on's answer and
\* forgets it on signing off; it takes none out of the answer to a site.
Holds(x) ==
    LET d == DeviceOf[x]  c == call[x] IN
    IF c.kind = "off" THEN Nil
    ELSE IF c.set = Nil \/ (d \in Handhelds /\ c.kind # "on") THEN jar[d]
    ELSE c.set

Hear(x) ==
    /\ call[x].at = "answered"
    /\ jar' = [jar EXCEPT ![DeviceOf[x]] = Holds(x)]
    /\ call' = [call EXCEPT ![x] = Idle]
    /\ UNCHANGED <<rows, of, heard, mishaps>>

------------------------------------------------------------------------------
(* What goes wrong, and time *)

Mishap == mishaps < MaxMishaps /\ mishaps' = mishaps + 1

\* The request, or the answer to it, is lost, which the page is told as an error.
\* A handheld that was signing off forgets its token all the same (`finally`).
Lose(x) ==
    LET d == DeviceOf[x]  c == call[x]
        forgets == c.kind = "off" /\ d \in Handhelds
        missed  == c.at = "answered" /\ (c.set # Nil \/ c.kind = "off")
    IN
    /\ c.at \in {"sent", "answered"}
    /\ Mishap
    /\ call' = [call EXCEPT ![x] = Idle]
    /\ jar' = IF forgets THEN [jar EXCEPT ![d] = Nil] ELSE jar
    /\ disturbed' = IF forgets \/ missed THEN disturbed \cup {d} ELSE disturbed
    /\ UNCHANGED <<rows, of, on, asked, turned, stranded>>

\* A handler fails at its next call to the database and answers 500.  A sign-off
\* that fails is, to its device, one whose request was lost.
Cut(x) ==
    /\ call[x].at \in {"sent", "resolved", "issued"}
    /\ call[x].kind # "off"
    /\ Mishap
    /\ Answer(x, Nil)
    /\ UNCHANGED <<rows, jar, of, heard>>

\* A token is a day old.  No request is out for so long.
Day(s) ==
    /\ s \in Live \ (grace \cup due)
    /\ \A x \in Tabs : ~Out(x)
    /\ due' = due \cup {s}
    /\ UNCHANGED <<current, previous, grace, revoked, expired, jar, call, of,
                   heard, mishaps>>

\* The request has yet to resolve by a token that is out of its grace, or brings
\* the token that replaces it.
Late(x, s) == \/ call[x].at = "sent" /\ call[x].token = previous[s]
              \/ Out(x) /\ call[x].set = current[s]

\* Two minutes are over.
GraceEnds(s) ==
    /\ s \in grace
    /\ grace' = grace \ {s}
    /\ disturbed' = disturbed \cup {DeviceOf[x] : x \in {y \in Tabs : Late(y, s)}}
    /\ UNCHANGED <<current, previous, due, revoked, expired, jar, call, of, on,
                   asked, turned, stranded, mishaps>>

\* The session was idle or open for too long, or the person left.
Expire(s) ==
    /\ s \in Live
    /\ Mishap
    /\ expired' = expired \cup {s}
    /\ on' = Left({s})
    /\ UNCHANGED <<current, previous, grace, due, revoked, jar, call, of, asked,
                   turned, disturbed, stranded>>

Serve(x) == \/ Resolve(x) \/ Load(x) \/ IssueOn(x) \/ IssueSite(x) \/ CloseOld(x)
            \/ Off(x) \/ RevokeOthers(x) \/ Reject(x)

Next ==
    \/ \E x \in Tabs, k \in Kinds : Send(x, k)
    \/ \E x \in Tabs : Serve(x) \/ Hear(x) \/ Lose(x) \/ Cut(x)
    \/ \E s \in Tokens : Day(s) \/ GraceEnds(s) \/ Expire(s)

Spec == Init /\ [][Next]_vars

------------------------------------------------------------------------------
(* Properties *)

Calls == [at : {"idle", "sent", "resolved", "issued", "answered"}, kind : Kinds,
          token : Maybe, due : BOOLEAN, set : Maybe]

\* Types, and what the table's constraints and unique indexes say of a row: a
\* digest is one session's, and a session rotated in the last two minutes has a
\* digest from before.
TypeOK ==
    /\ {current, previous, of} \subseteq [Tokens -> Maybe]
    /\ {grace, due, revoked, expired, asked} \subseteq SUBSET Tokens
    /\ {turned, disturbed, stranded} \subseteq SUBSET Devices
    /\ {jar, on} \subseteq [Devices -> Maybe]
    /\ call \in [Tabs -> Calls]
    /\ mishaps \in 0..MaxMishaps
    /\ \A s, r \in Opened : s # r => current[s] \notin {current[r], previous[r]}
    /\ \A s \in grace : previous[s] \in Tokens \ {current[s]}

\* The database ends the sessions that people meant to end and no other: a
\* sign-off, a change of site or of password made with the token from before a
\* rotation (routes.rs, sign_off, choose_site, change_password) is about the
\* session that token was minted for.
EndedAsAsked == revoked = asked

\* A device that heard every answer in time and in order holds a credential that
\* resolves to the session it was last put on, until that session is ended: tabs
\* that race on an old cookie are not both signed out (rotated_cookie).  A handheld at
\* which a site was chosen is not one of them until it signs on again: choose_site
\* ends the session of the token it goes on remembering (api.ts, chooseSite).
StaysSignedIn ==
    \A d \in Devices \ (disturbed \cup stranded) :
        Quiet(d) /\ on[d] # Nil => Resolved(jar[d]) = {on[d]}

\* What the gate to a site says of every device: "sending them through it once is the
\* whole fix, and after that it never appears again" (Gate.tsx).  It fails: a handheld
\* that was sent through it is signed out by it.
ChoosesOnce ==
    \A d \in Devices \ disturbed : Quiet(d) /\ on[d] # Nil => Resolved(jar[d]) = {on[d]}

\* While a session is open, no request of its device is answered 401 unless an
\* answer was lost, late past the grace, or overtook another.
NobodyTurnedAway == turned \subseteq disturbed

\* Both of what a device that heard every answer may count on: it stays on its session,
\* but for a handheld that changed site, and
\* no request of it is turned away meanwhile.
SignedInStays == StaysSignedIn /\ NobodyTurnedAway
==============================================================================
