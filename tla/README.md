# Spork: a verification development

Spork is a warehouse management system: handhelds and browsers send *acts*
(picks, seals, despatches, receipts, claims) to a Rust server, which appends
them to a PostgreSQL ledger and answers. What the screens read is mostly folded
from that ledger later, by a scheduler.

This directory holds TLA+ modules of the parts of Spork where the order of
things matters, the TLC runs that check them on small instances, and TLAPS
proofs of what they promise for every instance. `PROJECT.json` maps every
definition to the lines it stands for; paths below are relative to the
repository.

## 1. Inventory

### How the parts meet

    device (React, several tabs)             server (actix, one READ COMMITTED
      press -> outbox in localStorage          transaction per handler)
      now / drain  -- POST /allocations -->     record_allocation
                   -- POST /picks       -->     record_pick
                                                read, check, claim_act, facts,
                                                projection_mark_dirty, COMMIT
                                                      |
                    client_event, stock_movement, package_event (append only)
                                                      |
      spork-scheduler every few seconds:        projection_run_dirty
      POST /projections/refresh, receipts:      projection_refresh_tenant
                                                      |
                    projections: stock, package.status, *_quantity of lines ...

The facts are never updated. An *act* is one `client_event` whose id the device
minted, and everything it caused carries that id. A handler that finds the
envelope already there answers with what it recorded before. Handlers hardly
lock: the exceptions are `boxes.rs`, `pack_plan.rs` and `places.rs`
(`FOR UPDATE`), two advisory locks and one REPEATABLE READ backup. So what orders
two handlers is a unique index, or nothing.

### Components

| Component | State | Operations | Hard about it | Modelled |
|---|---|---|---|---|
| Projection drain (migrations 24, 49, 52, 58, 61, 62; `bin/scheduler.rs`) | `projection_dirty`, `projection_freshness`, the projected columns | mark, drain, refresh, run_all | statement-level snapshots, a mark deleted by whoever finishes, a failing step | `ProjectionDrain` |
| Act envelope (`client_events.rs`) | `client_event` | claim_act, require_* | two copies at once; a retry after the world moved | `ActLog`, `PackageActs` |
| Packages, despatch, picking (`routes.rs`, `despatching.rs`, `packages.rs`, `picking/`) | `package_event`, `stock_movement`, `package.sealed_at`, `package.status`, containment, consignments | create, place, contain, pick, seal, open, void, despatch, book | guards on stale projections; two orders (arrival, occurrence); chains read without a lock | `PackageActs` (pick, seal, open, void, despatch of a line), `Parcels` (the others) |
| Claims (`routes.rs`, `allocating.rs`) | `stock_allocation` | record, release, re-point | check-then-insert without a lock | `Claims`, `Receipts` |
| Pick outbox (`client/domain/outbox.ts`, `client/app/outbox.ts`, `api.pick`) | `localStorage`, one tab's memory, a cookie | press, drain, dismiss, sign on and off, change site, leave the screen | lost answers, reloads, tabs, two people, a site changed under what is sending | `PickOutbox` |
| Pack bench outbox (`usePackBench.ts`) | the same store, a press of several calls | press, resume | partial progress | no |
| Receiving (`receiving.rs`, `/receipts`) | lots, headers, lines, claims on promises | record, hand claims over | header race, lot race, stale claim list, a rate-limited refresh | `Receipts` |
| Policy resolver (`crates/policy`, migrations 8 and 40) | bindings, their versions, what supersedes what | resolve, clamp, decide a line | answers about the past under a configuration that changes | `Policy` |
| Counts, adjustments, corrections | counts, movements, reversals | record, correct | delta from a stale projection; correction races | `Ledger` |
| Moves, repacking, carrying | movements, containment | move, nest | same shape as package acts | moves in `Ledger` |
| Item cards (`refile.rs`, `correcting.rs`, `cartons.rs`, `observing.rs`, `cuts.rs`, `images.rs`) | looks, figures, photographs, case packs, the fold of each card | look, weigh, photograph, correct, refile, match, say | a correction finds what it corrects through a fold that lags; nothing locks a card that is moved | `Cards` |
| Pack plan, boxes | planned parcels | save, make, drop closed | FOR UPDATE against the scheduler; a cascade | `Parcels` |
| Live channel (`live.rs`, `changes.ts`, `useWork.ts`) | a listener, a broadcast, streams, a channel's timers, a screen's reads | notify, reconnect, lag, close, read | lost notifications, late answers, a server that drains | `LiveChannel` |
| Sessions, credentials, passkeys | `session`, attempt counters, challenges | open, resolve, rotate, revoke, attempt | rotation whose answer is lost; grace; two tabs | `Sessions`, `Accounts`; attempt counters no |
| People, setup, import tokens (`people.rs`, `setup.rs`, `tokens.rs`) | memberships, a token on the disk, ceremonies, tokens | add, promote, remove, set up, enrol, mint, withdraw | two administrators at once; a form sent twice, a restart; sessions opened while their person leaves | `Accounts` |
| Findings, checking, flagging | `discrepancy` | raise, investigate, accept, resolve | raised twice, settled twice | `Ledger` |
| Importers (`importing/`, `bins.rs`) | reports, orders, fulfilments, feeds beside the ledger | take in, load, dry run | two imports at once, bodies sent again, files out of order, nothing that compares when two were taken | `Intake` (fulfilments and open orders), `Feeds` (items, stock, details, packed, bins); what a stock import means to the ledger, in `Ledger` |
| Orders, lists, walk (`routing.rs`, `walk_route.rs`, `pick_groups.rs`) | a floor kept per site | route, order, batch | a cache keyed by a version read beside it; search | `Routes`, `Walks` |
| Places and layout (`places.rs`, `layout.rs`, `usePlanEditor.ts`) | places, the cells of bins | save, draft, preview, reach | a version read beside what it versions; drafts that take no lock | `Layout` |
| Invariant suite (`crates/invariants`) | none | SQL over stored data | | source of properties |
| Backup, assets, web pages, mobile shell | files, static pages | | pure I/O | no |

### What makes each component correct

* **Drain**: a projection never silently misses a fact; a rebuild never undoes
  another one's; a mark is always drained.
* **Acts**: recorded once, whole, and every success tells what was recorded; the
  server never waits for ever on a copy of an act.
* **Packages**: a voided package holds nothing; a closed package is not voided;
  the stamp and the fold agree on whether a package is sealed.
* **Claims**: one row per id; a line is not over-covered.
* **Outbox**: goods in a tote are recorded, kept or refused to somebody's face;
  what a person was told is what happened; a pick is recorded as its maker's.
* **Ledger**: a count, its finding and the movement that settles it agree; a
  correction nets, however corrections are chained.
* **Receiving**: one header a delivery, a lot's date stands, what is handed over
  has arrived.
* **Policy**: goods are judged by the rules of the moment they were counted.
* **Cards**: a figure or a photograph that leaves a card is on another, once, and a
  size says how the thing was arranged.
* **Parcels**: packages nest without a loop, a parcel that is made is not planned,
  a load is whole.
* **Live channel**: a screen comes to show what is stored.
* **Layout, walks**: a bin stands where its name says, nobody's change is lost unseen,
  and a walk is routed on the floor there is.
* **Sessions, people**: the sessions that end are those people meant to end, whichever
  of its tokens a session is named by; nobody is signed out by a rotation; a workspace
  has an administrator; who was removed is gone.
* **Importers**: what is sent again is not written again, a feed is one whole file, and
  what a file settled stays settled.

The hazards behind these, each at its line, are listed in `PROJECT.json`.

## 2. The modules

| Module | What it is |
|---|---|
| `ActLog` | The abstract promise: an act is recorded at most once and every success is told that record. |
| `PackageActs` | The package handlers, statement group by statement group. Implements `ActLog`. |
| `Claims` | Recording and releasing claims. Implements `ActLog` with the row's id for the act's. |
| `ProjectionDrain` | Marks, rebuilds, failures and locks of one tenant. |
| `PickOutbox` | A browser, its tabs, and the requests of a pick. |
| `Sessions` | One person's session rows, the handlers over them, and what each device holds. |
| `Accounts` | The people of a workspace and what they sign in with. Extends `Sessions`. |
| `Ledger` | Counts, adjustments, corrections, moves, findings, and the fold between them. |
| `LiveChannel` | From a commit to a screen: NOTIFY, listener, broadcast, stream, channel, reads. |
| `Receipts` | A receipt statement by statement, with releases, the drain and the rate limit. |
| `Policy` | Which rule governs, and a line decided by it however late it arrives. |
| `Parcels` | The plan of an order, making, placing and nesting packages, booking them. |
| `Layout` | Saves, drafts and reaches over one warehouse's places, and its editors. |
| `Routes` | Walking a floor, as functions beside what they should compute. |
| `Walks` | Walks routed on a layout people are changing. Extends `Layout`; `MCLayout` brings `Routes` to it. |
| `Cards` | What is known of an item, and the acts that put it right. |
| `Intake` | Fulfilments and open orders, as the system of record sends them. |
| `Feeds` | The other files of an import token. Extends `Intake`. |
| `...Proofs`, eight of them | Theorems and proofs (section 4). |
| `MC...`, twelve of them | The instances TLC checks. |

Three conventions hold everywhere. A fact is named by the request that wrote it,
so a table is a set of requests. HISTORY variables record what a property has to
refer back to and are read by no guard. Operators marked MUTANT are plausible
bugs, used by nothing: each shows that a property fails when the code is changed
that way. Modules state their types as `TypeOK`, which holds of the same instances
when it is added to the `INVARIANTS` of a configuration; the proofs carry the types
they need in their inductive invariants. Where a module is given
`Together`, a behaviour sends one of its sets of requests, chosen at the start: each
set is a meeting the code could get wrong, and the sets bound the state space.

### ProjectionDrain

A write transaction is two steps: `Write` (the facts and `projection_mark_dirty`,
whose upsert takes the dirty row's lock) and `CommitWrite`. A rebuild goes through
its steps one by one: `ReadLedger` takes the snapshot of the step's statement,
`WriteStep` rewrites what differs and stamps `projection_freshness`, and
`FailStep` is the `EXCEPTION` branch of `projection_run_all` (migration 58 holds
the current body), which records the error and returns *normally*. `ClearMark` is
the DELETE, which waits for the dirty row and happens whatever the fold met.
`CommitRun` publishes everything at once. A receipt is a write that refreshes
before it commits and then marks again (`MarkReceipt`), or skips the refresh when
rate limited. The locks are PostgreSQL's: a row written by an open transaction
blocks the next writer of it until the end (`HeldByOther`).

Abstracted: a step's projection is the set of facts it counted; the tenants the
scheduler walks through in the same transaction; `pack_plan_drop_closed`.

### PackageActs

`Check` is everything before `claim_act`: the reads, the hard problems, the
refusal. The reads are one action although they are two or three statements; the
reads that matter together (`status`, the ledger sum) are one statement in
`void_package`, and of the other handlers only one guard depends on changing
state. `Claim` inserts the envelope and holds the act. `Record` writes facts and
commits. `Replay` finds a committed envelope and runs the kind's own loaders
(`Prior`). `status` and `cell` are projections, changed only by `Drain`;
`sealedAt` is written by the handlers themselves.

Abstracted: soft warnings, item, lot and tenant checks; nested packages (the
model has one package); the despatch of a package with no line.

### Claims

`ReadLine`, `Settle` (the lookup by id, then `allocating::check`), `Insert`,
`Lose`, `Record` are the statements of `record_allocation` in their order;
`ReadClaim`, `Update`, `Free` those of `release_allocation`. The mismatch check
also compares the stock cell, which the model has one of. A request without an id
cannot be retried and is left out.

### PickOutbox

Each action is what a tab does between two awaits. `Press` and `EndPress` are the
two ends of `Outbox.now`, `Drain` and `EndDrained` of `Outbox.drain`; `GoOn` is the
second request of `api.pick`, after a claim that was taken, or refused to a drain
(`pickAnyway`). `Lose` is any failure to hear an answer, with the request served or
not, or still on its way (`stray`). `Load`, `SignOff`, `SignOn`, `Expire` move the
cookie and what each tab believes. Only the Picking screen begins a press or a drain;
`Navigate` comes to it and leaves it, with what it is sending on its way. An owner is a
person at a site: `ChooseSite`, `Refresh` and `Reload` are the three awaits of
`SiteSwitcher`, and the loops go on between them with the owner they began with. The
server here is three sets: claims, picks and under whose session each pick was recorded.

A site change that the tab does not hear is an `Expire`: the server has ended the old
session, and the tab shows the error and goes on. The gate to a site (`Gate.tsx`) is left out here: it takes
sessions that have no site, which nothing is picked in.

### Sessions

A row is `current`, `previous`, and membership of `grace`, `due`, `revoked`,
`expired`; a session is named by its first token. The definers of migration 92
are operators: `Resolved` is the row `session_resolve` matches, `Rotatable` that of
`session_rotate`, `AnswersTo` the rows that `session_revoke` and
`session_revoke_others` take a digest to name. Every database call of these
handlers commits by itself, so a handler is one action per call: `Resolve`
(`caller`), then `Load` (`rotated_cookie`), `IssueSite` and `CloseOld`
(`choose_site`, which opens before it revokes), or `RevokeOthers`
(`change_password`); `Off` does not resolve. `Hear` applies the answer to the
device: a browser's tabs share one cookie, while the app on a handheld takes a token
only out of the answer to a sign-on (`api.ts`) and is never rotated.

Time is three actions: a token gets a day old (`Day`), two minutes end
(`GraceEnds`), a session is idle or open for too long (`Expire`). A request is
taken to be over within a day. Within the grace nothing is assumed: a device whose
request or answer outlives it joins `disturbed`, as one whose answer is lost, or
that replaces its credential by one request while another is out.
`SignedInStays` speaks of the other devices, but for stranded handhelds (below). The last
exemption covers something the code does do: a rotated cookie heard after the
answer to a site change in another tab overwrites it with a token of a session that
has just ended.

Abstracted: all sessions are remembered ones, of one person in one tenant. The
password itself, attempt counting and lock-out are one choice, `Reject`.

Any device changes site, as the shell shows `SiteSwitcher` on all of them and the gate
sends each through it. `choose_site` ends the session it was asked from. The app on a
handheld does not remember the token of the answer (`api.ts`, `chooseSite`), so it is left
with the ended one: it is `stranded` until it signs on again, and `ChoosesOnce`, below,
is what the gate's comment says of it. The app sends no cookie
(`platform/mobile.ts:70`), so the one the answer sets does not help it.

### Accounts

The people of one workspace, one of whom (`Worker`) holds the sessions of `Sessions`, which
this module extends: its actions are those of `Sessions` and the statements of each request
about people, keys, passwords and import tokens. A sign-on shows its password or its key in
one statement and opens the session in a later one. A membership that is being written is
locked until its transaction ends; a session resolves only while its person is a member.
Setting a deployment up asks for a token on the disk, which goes when it is done, and a
ceremony is kept in memory: a restart loses it.

### Ledger

One item, in cells that are bins. `Look` is what a handler reads first: the cell of
the projection, and the finding, movement or balance its checks need (`seen`).
`Check` refuses, or goes on; `Agrees` is the adjustment whose variance is zero, which
writes no movement and leaves no envelope; `Claim` is `claim_act`; then the handler's
facts (`Count`, `Adjust`, `Correct`, `Move`, `Flag`, `CheckLine`, `Investigate`,
`Accept`) commit with it. A finding is named by the request that raised it: a count
whose quantity differs, a flag, a short line. `Closes` is the guarded UPDATE of an
adjustment, which resolves a finding only from `open` or `investigating`.
`Effective` is the view of migration 57: a movement's quantity less the effective
quantities of its `Corrections`, and so on down the chain. `Drain` folds every movement; `Import` changes the reported figure a
flag and a check compare with.

Three things the code does are left as they are, and no property denies them. A
retry of an adjustment that names its finding by id is refused, because the finding
is resolved by then. Two adjustments on one stale cell both write their delta
(`AdjustedToTheCount` says that an unfolded movement is the only cause). Corrections
that arrive one after the other may reverse more than was moved:
`docs/invariants.md:195` and J51 (`jobs.rs`) report that, and the handler does not
refuse it.

### LiveChannel

A change is a commit with its topic (`Commit`; the triggers of migration 118). The
listener is down, connecting, connected or listening (`link`), and what was notified
while it listens is queued in `heard` until it forwards. The broadcast keeps the last
`Buffer` messages per receiver (`rx`); one that misses some is `lagged` and is told to
read again. A stream is entered, says hello, and ends when its time is up, its client
goes or the server drains. The client is `changes.ts` as written: one connection
attempt at a time (`conn`), four timers, `Settle` that gathers changes into one read,
`Poll` when the stream fails, `Nudge` when the page is shown again, and the abort of an
attempt by the next. The screen is `useWork`: several reads may be out, they come back
in any order, with what was stored when the server answered (`Answer`), or fail.

`ComesToShow` needs fairness of everything that runs by itself: the listener's loop,
the drain of a server and its successor's start, a stream's loop and its limit, the
client's reading and timers, and the answer of a read. Two things deserve more.
`Settle` and `Poll` are strongly fair: their timers are set again and again, and one
that keeps being re-armed is taken to go off in the end. No fairness is given to
commits, faults, mounting, leaving, nudges or failing reads.

### Receipts

The statements of `record_receipt` in their order: `Check`, `Claim` (before the policy
is resolved, as the code's comment asks), `FindLot` and `NameLot`, `OpenOrJoin` (with
the policy's verdict as a choice), `Move`, `Rebuild` (which waits for another's, or
is refused by the rate limit), `Plan` over the claims on the promise, and `Commit`,
which hands over by id what was planned. `Release` is a release of a claim at any
moment; `Elapse` lets five seconds pass. A lock is a variable that holds the request
that wrote the row. A receiver that makes a lot another one is making meets a
duplicate key and fails; the code has no retry there.

### Policy

Which rule governs is computed as `crates/policy` and `record_receipt` do: the bindings that
match (`Matches`), the foremost of them in the order of its kind, and what a less specific
match clamps. A line is decided as of the instant it was counted, whenever it arrives and
however often. No handler writes the configuration; it changes in the database, under the
constraints of migrations 8 and 40, and nobody locks it.

Three consequences are kept as they are. A superseded binding is no candidate for its own
past (migration 40, line 313), so a late line falls to another rule. A classification keeps no
past at all. Configuration that was not in force when the header was received passes
`record_receipt` and is reported afterwards (J57).

### Parcels

`events` are the packages' placings and containments, each with the time its device
gave it: `Parent` is the newest by that time, then by when it was recorded, as
`package_parent_now` reads it, so a late one may win or lose. `Nests` is `check_contain` over the chain above and below as
it is read, unlocked. `Lock`, `Count`, `Save` are `save_plan` under FOR UPDATE of the
order; `Make` takes the planned row its package came from (`UsedUp`) before the
cascade can; `DropClosed` is the scheduler's. A booking inserts its cartons one by one
in the order asked (`Load`), under the unique index that keeps a carton on one truck,
so two bookings can wait for each other (`Deadlocked`, one of them fails). A walk up
or down the chain stops after `Longest` packages, 16 in the code and 6 here.

### Layout

One warehouse. `See` and `SeeVersion` are the two statements of `site_layout`, and an
editor holds what they answered (`view`, `version`). A save takes the advisory lock and
its act (`Begin`), compares the version (`Check`), reads the rows, and does one thing
to one place: draws it, flips its numbering (`List`, then `Renumber`, off and back on),
adds, or removes. A draft takes no lock: `Plan` reads the rows, the waiting bins and
the taken cells, `Fill` puts bins into racks already drawn, `Make` draws the others,
`Commit` keeps or undoes them. What each transaction wrote and has not committed is in
`work`; the keys of migrations 96 and 99 are `Waits` and `Collides`. A bin's name is its
rack and bay, and `Spells` is where a rack's grid has that name.

Left out: rows, levels and positions of a bin, two places in a save, `set_scale`, and
that a draft reads the waiting bins and the taken cells in two statements.

### Routes, Walks

`Routes` is functions: the shortest way over a floor's grid (a straight step is 5, a
diagonal one 7), the order of a walk's stops, and the orders picked on one walk, each
beside what it should compute. Up to `ExactUpTo` stops (12 in the code, 3 in the run) an order
is the shortest; past it, it is what the insertions and the moves of `improved` make of it
(`Inserted`, `Nearest`, `Polished`, `Shaken`, `Tried`), for as many rounds as its time lets it
have, and no worse than where it began. `Walks` asks for walks while `Layout` changes the places: a
walk reads the version of the layout in one statement and the places in a later one, and the
floor it builds is kept under the version. A kept floor of a version that came back may be of
places that were there between (`KeptFloorIsTheLayout`, below).

### Cards

A figure is never edited. A correction names it; a refile copies what is live on a card to the
other and retracts it there; a match copies. `Mirrors`, `Copies`, `Retracts`, `Lists` and
`Files` are the statements of a refile in their order, each reading what is committed when it
runs; nothing locks a card. What a card shows (`current`) is folded by `Drains`, and
`CorrectFinds` looks for the figure to correct through that fold. A photograph is moved at most
once, by a unique key. A case pack is said, amended or made a version of as `say` decides
from the one in force.

### Intake, Feeds

Each import is one transaction whose statements are steps: `Store`, then, for a fulfilment, its
items, order, work, lines, commitments and picks. A row names the import that wrote it and is
seen by everyone once that import is done. Two imports meet only where a unique index or a row
both update makes one wait (`Holders`), and the second then goes on with what it had read.
A dry run is the load undone at its end. `Feeds` adds the other files: a balance replaces what
its feed said before; what is said of an item is closed and kept when it is said otherwise;
when a fulfilment was packed is kept once seen; warehouses are matched before they are made.
Nothing compares when two files were taken. There is one site and one channel.

The units of a batch are shared out over the piles of an item (`PilesOf`): those within reach
first, then by when they came. A bin is a pile of the ledger, of a report, or of both, and
what is left of an item in a bin is one number for all of its piles (`Shared`, `TakesOf`). A line
that orders nothing is skipped, and one that has nothing left to send gets no commitment
(`OrderedOn`, `Outstanding`). `commit` also leaves cancelled fulfilments out of what is
outstanding; no statement of the server cancels one, so the model has none.

## 3. The runs

Passing runs but `live` use `CHECK_DEADLOCK FALSE`: a finite set of requests ends,
and a server with none left rests. `live` has no such end (a stream always has
something to do next) and is checked for deadlock.

| Run | Instance | States | Checks |
|---|---|---|---|
| `drain` | 1 write, 1 refresh, 1 receipt, the scheduler, 2 steps, 1 rollback | 112 000 | `SerialisedRuns`, `CleanMeansFolded`, `MarkIsDrained` |
| `acts` | 1 package, 1 line, 7 requests for 5 acts, 1 rollback | 239 000 | `WholeActs`, `OneAnswer`, `PackageAgrees`, `ImplementsActLog` |
| `claims` | 1 line wanting 2, 4 requests, 3 releases, 2 ids, 1 rollback | 254 000 | `OneClaim`, `OwnClaimNotCounted`, `SeenClaimsFit` |
| `outbox` | 1 tab, 2 people, one of them at 2 sites, 3 picks, 2 mishaps | 213 000 | `PressAnswered`, `SentAsItsOwnerUnlessCrossed`, `LeftIsSent` |
| `sessions` | a browser with 2 tabs, a handheld, 3 people, 3 tokens, 1 mishap, a restart or a change of password, in sets | 440 000 | `EndedAsAsked`, `SignedInStays`, `AdministratorStays`, `OnceOnly`, `SeenOff` |
| `ledger` | 17 requests in the sets of `MCTogether`, 2 bins | 202 000 | `CorrectionsNet`, `SettledOnce`, `AdjustedToTheCount` |
| `live` | 1 device, 2 topics, a buffer of 1, 2 reads, 2 commits, 1 fault | 333 000 | `NothingUnheard`, `ComesToShow`, no deadlock |
| `parcels` | 5 packages, 18 requests in sets of at most 5 | 42 900 | `Nested`, `MadeIsNotPlanned` |
| `receipts` | 7 receipts in sets, 2 claims, 1 delivery; and the policy alone: 6 bindings, 2 counted lines, 3 instants, 1 edit | 273 000 | `OneDelivery`, `HandoverCovered`, `GovernedAsItHappened` |
| `layout` | 4 bins, 4 places, 7 saves, 3 drafts, a reach, 2 editors, 2 walks; 3 floors, 3 sets of distances, 2 batches, exact up to 3 stops | 136 000 | `BinsReadTheirNames`, `FloorIsTheLayout`, `WalkedAsPromised`, `NothingOverwritten` |
| `cards` | 29 requests in sets of 2 to 4, 4 items | 29 700 | `EachSizesArranged`, `NothingForgotten`, `OnceEach` |
| `intake` | 3 imports, 2 at a time, 1 status, the bodies of `MCTogether` | 326 000 | `OnceUnlessTogether`, `NewestLevel`, `LoadsAreWhole`, `FailsForAReason`, `SettledStays` |

The configurations below are kept beside these. Each states something a comment, a
document or a screen says, and TLC finds it violated.

| Configuration | Module | Instance | Violates |
|---|---|---|---|
| `drain_lost_mark` | `MCProjectionDrain` | as `drain`, no rollback | `LaggingIsDirty` |
| `acts_replay_refused` | `MCPackageActs` | as `acts` | `ReplayAnswered` |
| `acts_void_closed` | `MCPackageActs` | as `acts` | `ClosedIsNotVoided` |
| `over_cover` | `MCClaims` | as `claims`, no rollback | `NeverOverCovered` |
| `outbox_tabs` | `MCPickOutbox` | 2 tabs, 2 mishaps | `SentAsItsOwner`, `RefusedIsNotRecorded` |
| `parcels_carried` | `MCParcels` | as `parcels` | `BookedIsDelivered` |
| `receipts_deferred` | `MCReceipts` | as `receipts`, fair | `DeferredIsHandedOver` |
| `layout_overwritten` | `MCLayout` | as `layout` | `EditorsOverwriteNothing` |

More such statements are in the modules. Put in place of the invariants of their
configuration, `StreamsEndInADrain` (`live.cfg`), `KeptFloorIsTheLayout` (`layout.cfg`),
`ChoosesOnce` (`sessions.cfg`), `SentAsItsOwner` (`outbox.cfg`), `NewestOfAll` (`intake.cfg`) and,
as a property, `NeverMixed` (`cards.cfg`) are violated.

**Bounds.** `MaxAborts` bounds rollbacks: one is enough for each wait to end by
a rollback, and a rolled-back transaction leaves nothing behind for a second one
to meet. `MaxMishaps` is 2 in `outbox`, so that an answer can be lost and the retry of the
same act be interrupted too, and a site changed and changed back; it bounds site changes with
the rest. Two steps are the first one, whose freshness row is
the lock, and one behind it. Two copies of an act are what its unique index tells
apart; the third copy of the claim asks for something else. Three tokens let a
browser's session be rotated twice, or rotated and then replaced by a site change,
and a rotated browser and a handheld end each other's sessions. In `Sessions` a
mishap is a lost request or answer, a handler cut off, or a session that expires.
In `LiveChannel` a buffer of one message makes a stream lag at the second commit,
`MaxFaults` is one lost connection or drained server, and two reads are what it takes
for answers to overtake each other. Three imports, two of them at a time, are two that
meet and one that is sent before or after both. Everything else is a
finite set of requests, each sent once: a retry is another request. `Together` lists
which of them meet; every operation of a module is in some set with each operation
whose rows it reads or writes.

**Fairness.** The scheduler's loop never stops (`scheduler.rs:102`), a
transaction that waits for nothing goes on, and an open one ends; no fairness is
assumed of rollbacks, of failures, of users pressing, signing on or off, or of the
first read of a request. `LiveChannel` gives the listener, the streams and the
client's timers fairness as its section says; `Receipts` gives it, in the violation's
run, to the scheduler and to a receipt under way. In `PickOutbox` the Picking screen's timer
runs while that screen is there (`useOutbox` clears it when it goes), a page's loops and a
change of site that has begun go on, and a request that was not lost is answered. No tab is
taken to come to that screen or to stay on it. The other modules promise nothing that needs
fairness. `LeftIsSent` therefore asks for the owner to stay signed in, on the Picking screen,
only through its own left-hand side, and its premise ends when they leave: a pick left when
its owner goes to another screen waits there.

### What the violations mean

* **`drain_lost_mark`.** The rebuild folds, a write commits, the rebuild deletes
  the dirty row: the write's mark goes with it, and its facts are in no fold until
  the tenant's next write. `CleanMeansFolded` says exactly that this, and a
  recorded error, are the only ways for it to happen.
* **`acts_replay_refused`.** The checks of a despatch and of a void run before the
  replay is looked for, against state the act itself changed. A retry of a landed
  despatch is refused; `despatchCarton` then stops at its first line. Claims settle
  the replay first, for this reason.
* **`acts_void_closed`.** `void_package` sums units from the ledger but takes the
  status from the projection. `package_status_now` would give the live one.
* **`over_cover`.** Nothing orders the coverage read and the insert of two claims
  of one line. `SeenClaimsFit` says that only such a race over-covers.
* **`outbox_tabs`.** `pressed` and the owner are per tab, the store and the cookie are per
  browser: a tab sends one person's picks in another one's session, and records what a press
  in another tab was told is refused. In one tab no other person's session is met, and
  `RefusedIsNotRecorded` holds.
* **`SentAsItsOwner`.** In one tab it fails at a change of site: the server's session is at the
  new site as soon as `chooseSite` is answered, and the loops send the old site's picks until
  the page is loaded again. `SentAsItsOwnerUnlessCrossed`, which the run `outbox` checks, says
  that only requests that leave in that window are recorded at another site, and as the
  same person's.
* **`ChoosesOnce`.** A handheld that is sent through the gate, or changes site, is signed out by
  its next request. `SignedInStays` excepts such a device until it signs on again.
* **`NewestOfAll`.** A report that nothing is picked, of a line nothing is committed on, is kept
  nowhere; an earlier report that comes after it, or beside it, is then what counts.
* **`parcels_carried`.** Two handlers check against each other's rows before either
  commits, so a carton can be booked while it goes onto a pallet that is delivered as
  one (J81 reports it).
* **`receipts_deferred`.** A receipt whose refresh is rate limited answers that the
  hand-over waits for the scheduler. The scheduler rebuilds `stock` and hands nothing
  over; a retry is a replay. The claim stays on a promise that has arrived.
* **`layout_overwritten`.** `site_layout` reads the places, then their version. A save
  between the two gives an editor old places with the new version, and its own save
  passes the check that was there to stop it. `NothingOverwritten` says what does
  hold: a save whose editor read both from one moment writes over nothing unseen.
* **`KeptFloorIsTheLayout`.** A walk reads the version, the layout is changed and changed
  back, and the walk reads the places in between: the floor kept under that version is of
  places that are no longer there, until the layout is changed again.
* **`StreamsEndInADrain`.** A stream that is entered after the drain of a server was
  announced is not told to end; it ends with the server.
* **`NeverMixed`.** A look that lands on a card while another is moved onto it ends up
  beside what was moved.

Some things the code does are kept by the models and denied by no property, because the
code makes no claim about them. An old report sent again after its document was packed
reopens the document (`routes.rs:7756`). A photograph added after a match is not brought by
matching again. Two administrators who demote or remove each other at once can leave none.
A sign-on that is under way while its person is removed and brought back is good afterwards.
Two flags of one bin at once may raise two findings, and receipt lines that are each within
what was expected, but over it together, raise none.

## 4. What is proved

For every value of the constants that the named assumptions allow, with no bound on
requests, runs or steps. Each theorem rests on an inductive invariant, a conjunction of
named parts; each was first checked by TLC as an invariant of the module's run.

| Module | Theorems | Invariant |
|---|---|---|
| `ShownProofs` (`ProjectionDrain`, `LiveChannel`, `Cards`) | `TypeCorrect`, `RunsAreSerialised`, `UnmarkedIsFolded`, `ProjectionsNeverForget`; `NothingGoesUnheard`; `EachSizesArrangedHolds`, `NothingForgottenHolds`, `OnceEachHolds` | `IInv` of each; `CardInv` |
| `PackageActsProofs` | `ActsAreWhole`, `SuccessTellsTheRecord`, `HandlersImplementActLog`; `PackagesAgree` | `IInv`, `AgreeInv` |
| `OnceProofs` (`Claims`; `Intake`, `Feeds`) | `ClaimsAreOne`, `OwnClaimIsNotCounted`, `ClaimsImplementActLog`; `SeenClaimsFitHolds`; `OnceUnlessTogetherHolds`; `SettledStaysHolds` | `IInv`; `FitInv`; `IntakeInv`; `SaidInv` |
| `SessionsProofs` (`Sessions`, `Accounts`) | `EndedAsAskedHolds`, `AccountsEndAsAsked`; `SignedInStaysHolds`; `AdministratorStaysHolds`, `OnceOnlyHolds`, `SeenOffHolds` | `IInv`; `SteadyInv`; `AllInv` |
| `ReceiptsProofs` (`Receipts`, `Policy`) | `OneDeliveryHolds`, `HandoverIsCovered`; `GovernedAsItHappenedHolds` | `OnceInv`, `PlansFit`; `PolicyInv` |
| `ScreensProofs` (`PickOutbox`, `Layout`, `Walks`) | `NothingIsLost`; `PressAnsweredHolds`, `SentUnlessCrossedHolds`; `NothingOverwrittenHolds`, `BinsReadTheirNamesHolds`; `FloorIsTheLayoutHolds` | `KeepInv`; `TabInv`; `SaveInv`, `NameInv`; `FloorInv` |
| `LedgerProofs` | `CorrectionsNetHolds`, `AdjustedToTheCountHolds`; `SettledOnceHolds`; `AdjustmentRetryIsTold` | `SumInv`; `FindingInv`; `EnvelopeInv` |
| `ParcelsProofs` | `MadeStaysOutOfThePlan`; `NestedHolds` | `PlanInv`; `NestInv` |

`TypeCorrect`, `ProjectionsNeverForget`, `NothingIsLost`, `AdjustmentRetryIsTold` and
`ClaimsImplementActLog` are proved and are in no listed run.

### The arguments

*Drain.* `SerialisedRuns` is the heart: the rebuild past the first step holds
that step's freshness row, so every other one waits there before it writes
anything. It is what makes the fold of a later step read from a snapshot no older
than the committed projection (`FoldIsFresh`), whence nothing is forgotten. The
other half follows the mark: while the row is gone or about to go, either every
committed fact was there when the fold read (`FoldCovers`), or it was committed
during the fold and the history has it. `RunShape` and `LockShape` say which
program points hold what.

*Live channel.* A change a screen has not asked about since is somewhere on its way: in the
listener's queue, in a receiver's messages or its lag, in a stream, in a timer, or in a read
that was sent after it. Every step moves it along that chain or makes the screen ask.

*Acts and claims.* The holder of an act is the one request between its insert
and its end (`HolderShape`), so when it commits the act is still unrecorded:
`Unanswered` gives that a running request was told nothing, and `WholeActs` (for
claims, `OneClaim`) that what a replay finds is one request's rows. The
refinement maps an act's log entry to the request that owns its rows; `Record`
is then `ARecord`, a matching `Replay` is `AReplay`, refusals and rollbacks are
`ATurnDown`, and everything else stutters. For claims `SeenShape` adds what a
request that read its own id must have seen, which gives `OwnClaimNotCounted`:
`Settle` looks the id up after the line was read, so a row it does not find then
was not counted earlier. `FitInv` follows the coverage a claim read: what covers the line now
and was there then adds up to no more than it read.

*Imports.* Two imports that did not meet are one after the other, and the later one saw what the
earlier had committed; so it found every row it would have written again (`Once`, `Planned`).
What it read and had yet to write is carried between the statements (`Naming`, `Claiming`,
`Putting`). For documents that is not enough, since an import that is under way is not seen: an
index makes the second wait, so a document that one import has given is given by no other under
way and is on file nowhere else (`Promised`), and a fulfilment is adopted by one after another
(`Serial`), whence its last document is the one its last import gave (`Unique`); two that adopted
one met (`Apart`). Of the files, a load speaks of its own feed (`Reading`), and the rows of one
packed fulfilment, which are written and done away with as an import ends, say one time, one of
them being there for the next load to read (`OneTime`, `Standing`).

*Sessions.* A row remembers two digests, and a session may be rotated any number of
times; why is the token that somebody signs off with always one of the two? Because
every token a device holds, in its jar, in a request or in an answer, is
(`HeldNamed`). A rotation drops the older digest, so this needs that nobody holds
it: a session is held on one device (`OneHome`), and when its token gets a day old
no request is out, so the jar alone holds it, and one token only (`DueOnce`). The
rotation needs the current digest, so that token is the current one. `Minted` says
that no digest is in two rows. Together the rows a digest names are the session it
was minted for (`AnswersToMeant`). `SteadyInv` says of a device that nothing disturbed that
its jar, its requests and its answers all name one live session (`Everywhere`, `OneMove`); of a
handheld it says so until a site is chosen there (`stranded`).

*Accounts.* An administrator who is counted has a membership no other transaction has
written (`SawBefore`, `Spare`); a claim of the setup token, or of a ceremony, is the first one
(`ClaimedOnce`, `TokenGone`); and what a session was opened after is compared with what its
person did since (`LeftSince`, `ChangedSince`).

*Receipts and policy.* A line that opens its delivery's header holds the key until it ends
(`OnceInv`), and a plan is of claims as they stood, no more than arrived (`PlansFit`). That a
foremost match exists is a fact about the order of a kind, a lexicographic comparison that is
total on a finite set; that a late line is judged as it was counted is that a past instant
keeps its one version per binding (`PastAnswersStand`).

*Outbox.* An act that was pressed is kept until an answer is heard (`KeepInv`). In one tab
(the hypothesis `OneTab`) an act nobody has an answer to wait for is nowhere, one a press is
sending is sent by nothing else, and whoever is signed in is whom the tab takes to be, but
for the window of its own change of site, when they are one person at two sites
(`TabInv`). Two tabs break each of these.

*Layout.* A save that runs holds the advisory lock and its editor has the layout open
(`OneSaves`). From the moment it has checked, the places are what its editor read, or whoever
changed them ended while it ran and is a draft or a reach (`AsChecked`).

That a bin stands where its name is (`BinsReadTheirNames`, `NameInv`) is about requests that have
read and have not written, and that have written and not committed. Two of them never write
one place, nor one the other removes (`RowsApart`, from the row locks); the ids a draft mints are
nobody else's until it commits (`FreshIds`); and no request but a save that flips a place changes
what its pattern is read by (`SteadyOf`, `SaveRowsOf`, `DraftRowsOf`). So a cell a request has put a
bin in is, in the place as that request wrote it, the cell of the bin's name, or it is one a draft
had planned to fill (`CellsReadOf`); a save that renumbers a place has moved every bin in
it but what such drafts filled in since it read them (`NumberingOf`); and at each commit the bins
that stay and those that move are where their names are. A draft's own racks have a cell of each
name by arithmetic: its grid runs from the lowest number to the highest, by two when that
meets them all, and folds in half without losing one (`NumbersSpell`). What the exception
allows does happen: a draft reads a rack, a save renumbers it, and the draft fills a cell of it by
the old numbers.

*Walks.* Who built the kept floor is done with it, so that what that walk asked for and read
stands, and the floor is kept with both (`FloorInv`); a walk that is given it asked for the same
version. A restart forgets the floor and whoever was on the way, and no walk that is over. `Walks`
changes nothing of the layout (the lemma `WalksOnlyRead`), so that what is proved of `Layout`'s
specification holds of `WalksSpec`, which the run checks.

*Ledger.* Corrections form chains, and `Effective` is a recursive function along them. It is
defined (by well-founded induction over what corrects what), a new correction takes its
quantity from the one it names and from nothing else, and the sum of a cell follows (`SumInv`).
A finding's state goes one way (`FindingInv`), and an envelope is written by one adjustment,
which its copies are told of (`EnvelopeInv`). Requests need not be finite.

*Cards.* What a mover retracts it has copied: a figure it saw when it mirrored the card, and
finds live when it retracts, was live when it copied, and its look was mirrored (`MoveInv`). Rows
are only added, and what is seen stays seen, so that a figure never becomes live again. A size
keeps an arrangement on its way (`ArrangedInv`): every mirror on an each has one, and a
correction takes that of the look it puts right. The newest correction is a recursive function;
that it is a figure of the same metric, on file, is proved by a least counterexample.

That nothing is on a card twice (`OnceInv`) is about two acts and when each began. Whatever comes
after a figure, a correction or a refile's copy, is written by an act that had looked for one: a
correction finds its figure through every correction of it on file and skips what is retracted
(`Righting`), a refile copies only what is live and retracts what it copied (`CopiedFrom`,
`GoneFrom`), and a match mirrors a look only to a card that has no mirror of it (`YetToCome`,
`MatchesOnce`). So when the second of two was written the first was not yet on file, or the
figure had been retracted since. An act that was not on file then had not ended when the other
began, nor the other when it did (`Timely`): they overlapped (`HeirOnce`). Of one act, a
look has one figure of a metric (`OneOfEach`). Of two figures that were on file at the start
nothing is known, and nothing is said.

*Parcels.* The chain above a package and the levels below it are read before the containment
is written. When no two containments overlapped, every containment was read by the next one;
so the walk up from any package ends, and its depth fits (`Shallow`, `StillFits`).

**Induction over data** is done with sets: a least counterexample (`WFMin`) in place of an
induction theorem, which needs an operator for its parameter. In that way a recursive function
is shown to be defined and to follow its equation (`WalkIs`, `LeftIs`), and a fold over a finite
set to add what is added (`SumIs`, `TotalIs`).

### Assumptions

Those of the modules (`RequestsAssumption`, `MintedAssumption`,
`ClaimsAssumption`, `NStepsAssumption`, ...): constants are functions of the right
type, quantities are positive, actors are distinct, and a device mints a fresh id
per write, so that a pick and a despatch never share one. The rows `Cards` starts from are such
as its acts leave (`OnFileAssumption`: one figure of a metric in a look, naming earlier ones), and
its screen asks for each card to match once. The places `Layout` starts from have their bins where
their names are, and the id of a place that is added is new (`DrawnAssumption`). TLC evaluates them
in every run. Beyond these, two theorems have a hypothesis, named above: `OneTab`.

### Only model-checked

* Liveness (`MarkIsDrained`, `LeftIsSent`, `ComesToShow`), which is beyond the prover.
* `WalkedAsPromised`: `Routes` computes with recursive operators, which the prover cannot take in.
  `MCLayout` states it, so that `Walks` can be proved about.
* `NewestLevel` and `FailsForAReason`, which are not true of every value of the constants: they are
  checked for sends that keep a line's key from one to the next, as the sender's do. A send that
  gives one line another line's key is refused alone, at the index.
* `LoadsAreWhole`: the batch is shared out by folds over a sorted sequence, whose steps the prover
  has no induction for.

## 5. Not modelled, and why

* The contents of the folds. A projection step is trusted to fold what it read;
  what is checked is which facts it read.
* Several tenants. Their facts never meet, but the drain runs them in one
  transaction and `projection_step` is shared, so two rebuilds of *different*
  tenants can deadlock. PostgreSQL ends that with a rollback.
* Two tabs inside one `localStorage` read-modify-write; the store is atomic here.
* Repacking, carrying with contents; the despatch of a package with no line; the pack
  bench's press of several calls; the counters that lock a sign-on out.
* Several sites and channels of an import; rows, levels and positions of a bin.
* The invariant suite, exports and pages, which read; row-level security, parsing,
  formatting, images.

## 6. Plan

1. **Repacks** over `Ledger`'s movements.
2. **PickOutbox, extended** by the pack bench's press with kept progress.
