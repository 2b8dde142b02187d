-------------------------------- MODULE Accounts --------------------------------
(***************************************************************************)
(* The people of one workspace, and what they sign in with: setting a         *)
(* deployment up, adding, promoting and removing people (people.rs, setup.rs),  *)
(* the password and the keys of one of them (credentials.rs, passkeys.rs), and   *)
(* the import tokens (tokens.rs).  That one's sessions are those of Sessions:   *)
(* each sign-on that reaches session_open has shown a password or a key before,  *)
(* and a session resolves only while its person is a member.                  *)
(*                                                                         *)
(* A request is a sequence of statements, and others come between them.  What   *)
(* one transaction writes is seen when it commits; a membership being written    *)
(* is locked until then.                                                    *)
(***************************************************************************)
EXTENDS Sessions

CONSTANTS
    Requests,   \* requests about people, keys and import tokens, each sent once
    Asking,     \* what each asks for
    Worker,     \* the person whose sessions are those of Sessions
    Others,     \* everybody else
    Together,   \* BOUND: the requests one behaviour sends, and the tabs in use beside
    MaxChanges  \* BOUND: changes of password

Of(kinds) == {r \in Requests : Asking[r].kind \in kinds}
Persons  == Others \cup {Worker}
Roles    == {"administrator", "operator"}
AskKinds == {"setup", "add", "role", "leave", "enrol", "disable", "mint", "withdraw", "import"}

\* by: who asks.  of: whom it is about.  role: what they are to be.  on: the request
\* whose ceremony, key or import token it names.
ASSUME AccountsAssumption ==
    /\ Worker \notin Others /\ Others # {}
    /\ Together \subseteq [sent : SUBSET Requests, tabs : SUBSET Tabs]
    /\ Asking \in [Requests -> [kind : AskKinds, by : Persons, of : Persons, role : Roles,
                                on : Requests]]
    /\ MaxChanges \in Nat

VARIABLES
    at,        \* a request: "new", "asked", "read", "written", "ended"
    using,     \* the tabs in use
    outcome,   \* "none", "ok", "refused", or "lost" with a server that stopped
    saw,       \* what it read: whom it is about, the sessions it ends, and past.taken
    people,    \* per person, the membership ("none", "in" or "left") and the role
    setup,     \* the setup token on disk: "none", "good" or "stale"
    password,  \* the worker's digest, by how often it was changed
    keys,      \* by the request that enrolled it, a key of the worker: "none", "live", "disabled"
    claimed,   \* ceremonies that were claimed
    tokens,    \* by the request that minted it, an import token: "none", "live", "withdrawn"
    proof,     \* per tab, what its request has shown, and the password as it then was
    opened,    \* HISTORY: per session, how it came to be opened
    past       \* HISTORY: administrators taken away, leaves and changes carried through

asks   == <<at, outcome, saw, using>>
tables == <<people, setup, password, keys, claimed, tokens>>
avars  == <<asks, tables, proof, opened, past>>

Nobody  == [is |-> "none", role |-> "operator"]
NoProof == [by |-> "none", at |-> 0]
NoNews  == [person |-> Nobody, sessions |-> {}, taken |-> 0]
NotYet  == [at |-> 0, left |-> 0, late |-> FALSE, amid |-> FALSE]

Exists(p)        == people[p].is # "none"
Member(p)        == people[p].is = "in"
Administrator(p) == Member(p) /\ people[p].role = "administrator"
Somebody         == \E p \in Persons : Exists(p)

\* A request that is or was sent.
Sent(r) == at[r] # "ended" \/ outcome[r] # "none"
Alone   == \A r \in Requests : ~Sent(r)

\* A deployment with administrators and a worker, or one that is to be set up.
AccountsInit ==
    /\ Init
    /\ \E T \in Together :
          /\ at = [r \in Requests |-> IF r \in T.sent THEN "new" ELSE "ended"]
          /\ using = T.tabs
          /\ IF \E r \in T.sent : Asking[r].kind = "setup"
             THEN people = [p \in Persons |-> Nobody] /\ setup = "good"
             ELSE /\ people = [p \in Persons |-> [is |-> "in", role |->
                       IF p = Worker THEN "operator" ELSE "administrator"]]
                  /\ setup = "none"
    /\ outcome = [r \in Requests |-> "none"]
    /\ saw = [r \in Of({"add", "role", "leave"}) |-> NoNews]
    /\ password = 0
    /\ keys = [r \in Of({"enrol"}) |-> "none"]
    /\ tokens = [r \in Of({"mint"}) |-> "none"]
    /\ claimed = {}
    /\ proof = [x \in Tabs |-> NoProof]
    /\ opened = [s \in Tokens |-> NotYet]
    /\ past = [taken |-> 0, crossed |-> FALSE, leaves |-> 0, changed |-> 0, kept |-> {},
               blind |-> FALSE]

------------------------------------------------------------------------------
(* The worker's devices *)

Shows(x, how) == proof' = [proof EXCEPT ![x] = [by |-> how, at |-> password]]
Done(x)       == proof' = [proof EXCEPT ![x] = NoProof]
Quietly       == UNCHANGED <<asks, tables, opened, past>>
Refuses(x)    == Answer(x, Nil) /\ Done(x) /\ Quietly /\ UNCHANGED <<rows, jar, of, heard, mishaps>>

SendFrom(x, k) ==
    /\ x \in using
    /\ Send(x, k)
    /\ UNCHANGED avars

\* sign_on: the password is right, and the account not locked.
TypePassword(x) ==
    /\ call[x].at = "sent" /\ call[x].kind = "on" /\ proof[x].by = "none"
    /\ Exists(Worker)
    /\ Shows(x, "password")
    /\ Quietly /\ UNCHANGED vars

\* passkey_authentication_finish, up to the use it records: the ceremony is claimed
\* and the key that signed is one that is not disabled.
ShowKey(x) ==
    /\ call[x].at = "sent" /\ call[x].kind = "on" /\ proof[x].by = "none"
    /\ \E r \in DOMAIN keys : keys[r] = "live"
    /\ Shows(x, "key")
    /\ Quietly /\ UNCHANGED vars

\* How a session that x is issued now came to be opened: whether the password changed
\* since it was shown, and whether somebody is being removed who is counted as removed.
Removing == \E r \in Requests : Asking[r].kind = "leave" /\ at[r] = "written"
Notes(x) == opened' = [opened EXCEPT ![call'[x].set] =
                [at |-> proof[x].at, left |-> past.leaves,
                 late |-> proof[x].at # password, amid |-> Removing]]

\* issue_session: memberships_of and session_open ask whether they are a member.
SignOn(x) ==
    /\ proof[x].by # "none" /\ Member(Worker)
    /\ IssueOn(x)
    /\ Notes(x) /\ Done(x)
    /\ UNCHANGED <<asks, tables, past>>

SignOnSite(x) ==
    /\ Member(Worker)
    /\ IssueSite(x)
    /\ Notes(x) /\ Done(x)
    /\ UNCHANGED <<asks, tables, past>>

\* Nothing that proves who they are, or nobody of this workspace.
TurnAway(x) ==
    /\ \/ call[x].at = "sent" /\ call[x].kind = "on" /\ (proof[x].by = "none" \/ ~Member(Worker))
       \/ call[x].at = "resolved" /\ call[x].kind = "site" /\ ~Member(Worker)
    /\ Refuses(x)

\* session_resolve, which asks whether its person is a member.
ResolveMember(x) ==
    \/ /\ Member(Worker) /\ Resolve(x)
       /\ IF call'[x].at = "resolved" THEN Shows(x, "session") ELSE Done(x)
       /\ Quietly
    \/ /\ ~Member(Worker)
       /\ call[x].at = "sent" /\ call[x].kind \in {"load", "site", "password"}
       /\ Refuses(x)

\* change_password: the digest is read and the password typed verified against it.
ReadDigest(x) ==
    /\ call[x].at = "resolved" /\ call[x].kind = "password" /\ proof[x].by = "session"
    /\ Shows(x, "digest")
    /\ Quietly /\ UNCHANGED vars

\* credential_change_password: over the digest that was read, or not at all.
ChangePassword(x) ==
    /\ proof[x].by = "digest" /\ call[x].at = "resolved"
    /\ password = proof[x].at /\ password < MaxChanges
    /\ password' = password + 1
    /\ proof' = [proof EXCEPT ![x] = [by |-> "changed", at |-> password + 1]]
    /\ UNCHANGED <<vars, asks, people, setup, keys, claimed, tokens, opened, past>>

SignOthersOff(x) ==
    /\ proof[x].by = "changed"
    /\ RevokeOthers(x)
    /\ past' = [past EXCEPT !.changed = proof[x].at, !.kept = Meant(call[x].token)]
    /\ Done(x)
    /\ UNCHANGED <<asks, tables, opened>>

Device(x) ==
    \/ \E k \in Kinds : SendFrom(x, k)
    \/ TypePassword(x) \/ ShowKey(x) \/ SignOn(x) \/ SignOnSite(x) \/ TurnAway(x)
    \/ ResolveMember(x) \/ ReadDigest(x) \/ ChangePassword(x) \/ SignOthersOff(x)
    \/ (CloseOld(x) \/ Off(x) \/ Hear(x)) /\ UNCHANGED avars
    \/ (Load(x) \/ (proof[x].by # "changed" /\ Reject(x))) /\ Done(x) /\ Quietly

------------------------------------------------------------------------------
(* Requests about people *)

Is(r, where, kinds) == at[r] = where /\ Asking[r].kind \in kinds
Goes(r, where)      == at' = [at EXCEPT ![r] = where] /\ UNCHANGED outcome
Ends(r, how)        == at' = [at EXCEPT ![r] = "ended"] /\ outcome' = [outcome EXCEPT ![r] = how]
SameDevices         == UNCHANGED <<vars, proof, opened, using>>
Reads(r, p, S)      == saw' = [saw EXCEPT ![r] = [person |-> people[p], sessions |-> S,
                                                 taken |-> past.taken]]

\* caller, and administrator for what only one may do.  Nobody removes themselves.
Come(r) ==
    LET q == Asking[r] IN
    /\ at[r] = "new" /\ q.kind \notin {"setup", "import"}
    /\ IF /\ IF q.kind \in {"add", "role", "leave"} THEN Administrator(q.by) ELSE Member(q.by)
          /\ q.kind = "leave" => q.by # q.of
       THEN Goes(r, "asked") ELSE Ends(r, "refused")
    /\ SameDevices /\ UNCHANGED <<saw, tables, past>>

\* MUTANT: everybody who administers the workspace, the one asked about with them.
AnyAdministrator(p) == \E q \in Persons : Administrator(q)

OtherAdministrator(p) == \E q \in Persons \ {p} : Administrator(q)

\* What set_role, remove_person and add_person read in their transaction: the last
\* administrator stays one, and a member is not added again.
Refused(r) ==
    LET q == Asking[r] IN
    CASE q.kind = "role"  -> q.role # "administrator" /\ ~OtherAdministrator(q.of)
      [] q.kind = "leave" -> ~Member(q.of) \/ (Administrator(q.of) /\ ~OtherAdministrator(q.of))
      [] OTHER            -> Member(q.of)

ReadPeople(r) ==
    /\ Is(r, "asked", {"add", "role", "leave"})
    /\ IF Refused(r) THEN Ends(r, "refused") /\ UNCHANGED saw
                     ELSE Goes(r, "read") /\ Reads(r, Asking[r].of, {})
    /\ SameDevices /\ UNCHANGED <<tables, past>>

\* The membership is being written by a removal that has not committed.
Held(p) == \E r \in Requests : /\ Is(r, "written", {"leave"}) /\ Asking[r].of = p
                              /\ saw[r].person.is = "in"

\* A membership as it becomes, and whether that takes an administrator away beside
\* somebody else's doing so since this request read.
Becomes(r, m) ==
    LET p == Asking[r].of
        takes == Administrator(p) /\ m # [is |-> "in", role |-> "administrator"]
    IN  /\ people' = [people EXCEPT ![p] = m]
        /\ past' = [past EXCEPT !.taken = IF takes THEN @ + 1 ELSE @,
                                !.crossed = @ \/ (takes /\ saw[r].taken # past.taken),
                                !.leaves = IF m.is = "left" /\ p = Worker THEN @ + 1 ELSE @]
        /\ UNCHANGED <<setup, password, keys, claimed, tokens>>

\* set_role's UPDATE, of a current member.
SetRole(r) ==
    LET p == Asking[r].of IN
    /\ Is(r, "read", {"role"}) /\ ~Held(p)
    /\ IF Member(p)
       THEN Becomes(r, [is |-> "in", role |-> Asking[r].role]) /\ Ends(r, "ok")
       ELSE Ends(r, "refused") /\ UNCHANGED <<tables, past>>
    /\ SameDevices /\ UNCHANGED saw

\* add_person: a new membership, or the one they left, as it was read.  A membership
\* made in between is a conflict.
Add(r) ==
    LET p == Asking[r].of IN
    /\ Is(r, "read", {"add"}) /\ ~Held(p)
    /\ IF saw[r].person.is = "none" /\ Exists(p)
       THEN Ends(r, "refused") /\ UNCHANGED <<tables, past>>
       ELSE Becomes(r, [is |-> "in", role |-> Asking[r].role]) /\ Ends(r, "ok")
    /\ SameDevices /\ UNCHANGED saw

\* MUTANT: the sessions of who leaves are left to lapse with the membership.
EndMembership(r) ==
    /\ Is(r, "read", {"leave"}) /\ ~Held(Asking[r].of)
    /\ Goes(r, "written")
    /\ saw' = [saw EXCEPT ![r].person = people[Asking[r].of]]
    /\ SameDevices /\ UNCHANGED <<tables, past>>

\* remove_person's UPDATEs: the membership, then the sessions there are by then.
EndSessions(r) ==
    LET p == Asking[r].of IN
    /\ Is(r, "read", {"leave"}) /\ ~Held(p)
    /\ Goes(r, "written")
    /\ saw' = [saw EXCEPT ![r].person = people[p],
                           ![r].sessions = IF p = Worker THEN Opened \ revoked ELSE {}]
    /\ SameDevices /\ UNCHANGED <<tables, past>>

\* And its commit.  Who had left by then stays as they were.
Leave(r) ==
    LET p == Asking[r].of  S == saw[r].sessions IN
    /\ Is(r, "written", {"leave"})
    /\ IF Member(p) THEN Becomes(r, [is |-> "left", role |-> people[p].role])
                    ELSE UNCHANGED <<tables, past>>
    /\ revoked' = revoked \cup S
    /\ Ask(S)
    /\ on' = IF p = Worker THEN [d \in Devices |-> Nil] ELSE on
    /\ Ends(r, "ok")
    /\ UNCHANGED <<current, previous, grace, due, expired, jar, call, of, turned,
                   disturbed, stranded, mishaps, saw, using, proof, opened>>

------------------------------------------------------------------------------
(* Setting up, and starting the server *)

\* create_first_administrator: the token is the one on disk.
Match(r) ==
    /\ Is(r, "new", {"setup"})
    /\ IF setup = "good" THEN Goes(r, "read") ELSE Ends(r, "refused")
    /\ SameDevices /\ UNCHANGED <<saw, tables, past>>

\* MUTANT: whether there is anybody was read as the token was.
MakeUnseen(r) ==
    /\ Is(r, "read", {"setup"})
    /\ people' = [people EXCEPT ![Asking[r].by] = [is |-> "in", role |-> "administrator"]]
    /\ at' = [at EXCEPT ![r] = "written"] /\ outcome' = [outcome EXCEPT ![r] = "ok"]
    /\ SameDevices /\ UNCHANGED <<saw, setup, password, keys, claimed, tokens, past>>

\* The lock, the count and the inserts, until the commit lets the lock go.
Make(r) ==
    /\ Is(r, "read", {"setup"})
    /\ IF Somebody
       THEN Ends(r, "refused") /\ UNCHANGED people
       ELSE /\ people' = [people EXCEPT ![Asking[r].by] = [is |-> "in", role |-> "administrator"]]
            /\ at' = [at EXCEPT ![r] = "written"] /\ outcome' = [outcome EXCEPT ![r] = "ok"]
    /\ SameDevices /\ UNCHANGED <<saw, setup, password, keys, claimed, tokens, past>>

\* The token dies with the act it authorised.
RemoveToken(r) ==
    /\ Is(r, "written", {"setup"})
    /\ at' = [at EXCEPT ![r] = "ended"]
    /\ setup' = "none"
    /\ SameDevices /\ UNCHANGED <<outcome, saw, people, password, keys, claimed, tokens, past>>

\* Half an hour.
TokenExpires ==
    /\ setup = "good"
    /\ setup' = "stale"
    /\ SameDevices /\ UNCHANGED <<at, outcome, saw, people, password, keys, claimed, tokens, past>>

\* MUTANT: a token that is there is left alone.
ReconcileEmpty == IF ~Somebody /\ setup # "good" THEN "good" ELSE setup

\* reconcile: the token is removed when there is somebody, and there when there is not.
Reconcile == IF Somebody THEN "none" ELSE "good"

\* The server stops, whatever was being asked, and starts; it may not reach the
\* database as it does.
Boot ==
    /\ \E r \in Requests : Sent(r) /\ Asking[r].kind = "setup"
    /\ \A x \in Tabs : ~Out(x)
    /\ at' = [r \in Requests |-> IF at[r] = "new" THEN "new" ELSE "ended"]
    /\ outcome' = [r \in Requests |-> IF at[r] \in {"asked", "read", "written"} /\ outcome[r] = "none"
                                      THEN "lost" ELSE outcome[r]]
    /\ \/ setup' = Reconcile /\ past' = [past EXCEPT !.blind = FALSE]
       \/ UNCHANGED setup /\ past' = [past EXCEPT !.blind = TRUE]
    /\ SameDevices /\ UNCHANGED <<saw, people, password, keys, claimed, tokens>>

------------------------------------------------------------------------------
(* Keys and import tokens *)

\* MUTANT: the ceremony is looked at, and marked when the key is there.
ClaimLater(r) ==
    /\ Is(r, "asked", {"enrol"})
    /\ IF Asking[r].on \in claimed THEN Ends(r, "refused") ELSE Goes(r, "read")
    /\ SameDevices /\ UNCHANGED <<saw, tables, past>>

\* passkey_registration_finish: webauthn_challenge_claim, of who it was opened for.
Claim(r) ==
    /\ Is(r, "asked", {"enrol"})
    /\ IF Asking[r].on \in claimed
       THEN Ends(r, "refused") /\ UNCHANGED claimed
       ELSE /\ claimed' = claimed \cup {Asking[r].on}
            /\ IF Asking[r].by = Worker THEN Goes(r, "read") ELSE Ends(r, "refused")
    /\ SameDevices /\ UNCHANGED <<saw, people, setup, password, keys, tokens, past>>

Register(r) ==
    /\ Is(r, "read", {"enrol"})
    /\ keys' = [keys EXCEPT ![r] = "live"]
    /\ claimed' = claimed \cup {Asking[r].on}
    /\ Ends(r, "ok")
    /\ SameDevices /\ UNCHANGED <<saw, people, setup, password, tokens, past>>

\* passkey_disable, of one's own key.
Disable(r) ==
    LET k == Asking[r].on IN
    /\ Is(r, "asked", {"disable"})
    /\ IF Asking[r].by = Worker /\ keys[k] = "live"
       THEN keys' = [keys EXCEPT ![k] = "disabled"] /\ Ends(r, "ok")
       ELSE Ends(r, "refused") /\ UNCHANGED keys
    /\ SameDevices /\ UNCHANGED <<saw, people, setup, password, claimed, tokens, past>>

\* api_token_open, for a member, and api_token_revoke.
Mint(r) ==
    /\ Is(r, "asked", {"mint"})
    /\ IF Member(Asking[r].by)
       THEN tokens' = [tokens EXCEPT ![r] = "live"] /\ Ends(r, "ok")
       ELSE Ends(r, "refused") /\ UNCHANGED tokens
    /\ SameDevices /\ UNCHANGED <<saw, people, setup, password, keys, claimed, past>>

Withdraw(r) ==
    LET t == Asking[r].on IN
    /\ Is(r, "asked", {"withdraw"})
    /\ IF tokens[t] = "live"
       THEN tokens' = [tokens EXCEPT ![t] = "withdrawn"] /\ Ends(r, "ok")
       ELSE Ends(r, "refused") /\ UNCHANGED tokens
    /\ SameDevices /\ UNCHANGED <<saw, people, setup, password, keys, claimed, past>>

\* machine: a token names its workspace while who minted it is one of its people.
Speaks(t) == tokens[t] = "live" /\ Member(Asking[t].by)

Import(r) ==
    /\ Is(r, "new", {"import"})
    /\ Ends(r, IF Speaks(Asking[r].on) THEN "ok" ELSE "refused")
    /\ SameDevices /\ UNCHANGED <<saw, tables, past>>

Request(r) ==
    \/ Come(r) \/ ReadPeople(r) \/ SetRole(r) \/ Add(r) \/ EndSessions(r) \/ Leave(r)
    \/ Match(r) \/ Make(r) \/ RemoveToken(r)
    \/ Claim(r) \/ Register(r) \/ Disable(r) \/ Mint(r) \/ Withdraw(r) \/ Import(r)

AccountsNext ==
    \* BOUND: with no requests about people, the steps of Sessions as they are.
    \/ Alone /\ Next /\ (\A x \in Tabs \ using : ~Out(x)') /\ UNCHANGED avars
    \/ \E x \in Tabs : ~Alone /\ Device(x)
    \/ \E r \in Requests : Request(r)
    \/ ~Alone /\ (TokenExpires \/ Boot)

AccountsSpec == AccountsInit /\ [][AccountsNext]_<<vars, avars>>

------------------------------------------------------------------------------
(* Properties *)

\* "A workspace needs an administrator" (people.rs 235, 274): once somebody is there it
\* has one, whoever is promoted, demoted, removed and brought back, unless two requests
\* that each took one away overlapped: each counted the other.
AdministratorStays == Somebody /\ ~past.crossed => \E p \in Persons : Administrator(p)

\* A deployment is set up once, whatever copies of the form and restarts come between,
\* and its token is off the disk as soon as there is somebody, but for a server that was
\* cut off there and could not look since (setup.rs, reconcile).  A ceremony enrols one
\* key, whatever copies of its end arrive (migration 75, webauthn_challenge_claim).
OnceOnly ==
    /\ Cardinality({r \in Requests : Asking[r].kind = "setup" /\ outcome[r] = "ok"}) <= 1
    /\ Somebody /\ setup # "none" => (past.blind \/ \E r \in Requests : Is(r, "written", {"setup"}))
    /\ \A p, q \in DOMAIN keys : p # q /\ keys[p] # "none" /\ keys[q] # "none"
                               => Asking[p].on # Asking[q].on

\* Who was removed and brought back, or changed the password, is signed on nowhere from
\* before: a session that resolves was opened since, but for the one the change was
\* asked from, and for one whose sign-on was on its way, past the check or past the
\* removal's look at the sessions, as that happened.
SeenOff ==
    Member(Worker) =>
        \A s \in Live : /\ opened[s].left < past.leaves => opened[s].amid
                        /\ opened[s].at < past.changed => (opened[s].late \/ s \in past.kept)
==============================================================================
