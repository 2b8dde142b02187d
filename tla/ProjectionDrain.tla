---------------------------- MODULE ProjectionDrain ----------------------------
(***************************************************************************)
(* The projections of one tenant and how they catch up with its ledger.    *)
(*                                                                         *)
(* A write path inserts its facts and upserts the tenant's row of          *)
(* projection_dirty in one transaction (D107).  A rebuild is another       *)
(* transaction: the scheduler's projection_run_dirty, or the on-demand     *)
(* projection_refresh_tenant, called by POST /projections/refresh and, in  *)
(* the middle of its own write, by a receipt.  A rebuild runs              *)
(* projection_run_all, which folds the ledger once per declared step in    *)
(* ordinal order, and then deletes the dirty row.                          *)
(*                                                                         *)
(* Every transaction is READ COMMITTED, so each statement of a rebuild     *)
(* reads the facts committed when that statement starts, and what the      *)
(* rebuild wrote is seen by others when it commits.  Three kinds of row    *)
(* locks order the transactions: the dirty row (the upsert and the DELETE  *)
(* wait for each other), the projected rows a step wrote and the step's    *)
(* row of projection_freshness, both kept to the end of the rebuild.       *)
(*                                                                         *)
(* The facts of different tenants never meet; the drain goes through the   *)
(* tenants in one transaction, which here only delays its commit.          *)
(***************************************************************************)
EXTENDS Naturals

CONSTANTS
    Writers,     \* write transactions, each with the facts it inserts
    Refreshers,  \* requests that call projection_refresh_tenant
    Receipts,    \* receipts: they insert facts and refresh before they commit
    Scheduler,   \* the scheduler process
    NoOne,       \* no holder of the dirty row's lock
    NSteps,      \* declared steps in projection_step
    MaxAborts    \* BOUND: transactions that roll back, over the whole behaviour

Demand == Refreshers \cup Receipts
Runs   == Demand \cup {Scheduler}
Facts  == Writers \cup Receipts
Steps  == 1..NSteps

ASSUME NStepsAssumption    == NSteps \in Nat \ {0}
ASSUME MaxAbortsAssumption == MaxAborts \in Nat
ASSUME ActorsAssumption    == /\ Writers \cap Runs = {}
                              /\ Refreshers \cap Receipts = {}
                              /\ Scheduler \notin Demand
                              /\ NoOne \notin Writers \cup Runs

VARIABLES
    wpc,        \* a write transaction: "idle", "open" (uncommitted), "committed"
    rpc,        \* where a rebuild is: see RunStates
    step,       \* the step a rebuild is at, NSteps + 1 when it ran them all
    failed,     \* the step a rebuild is at raised, so the rebuild returned there
    snap,       \* what the running step's statement read
    work,       \* per rebuild and step, the facts folded and not yet committed
    proj,       \* per step, the facts its committed projection counts
    lastError,  \* per step, whether projection_freshness.last_error is set
    dirty,      \* whether projection_dirty has a committed row for the tenant
    dirtyLock,  \* who holds that row's lock
    limited,    \* less than five seconds since last_on_demand_at
    aborts,     \* rolled-back transactions so far
    overlapped  \* HISTORY: facts committed while a rebuild was folding

vars == <<wpc, rpc, step, failed, snap, work, proj, lastError, dirty,
          dirtyLock, limited, aborts, overlapped>>

RunStates == {"idle", "read", "write", "clear", "mark", "commit", "done"}

\* The facts other transactions can read.
Committed == {w \in Writers : wpc[w] = "committed"}
                 \cup {r \in Receipts : rpc[r] = "done"}

Active(r) == rpc[r] \notin {"idle", "done"}

\* A rebuild that wrote the freshness row of the first step holds that row until
\* it ends, and with it every later step of every other rebuild.
PastFirst(r) == Active(r) /\ (step[r] > 1 \/ failed[r])

\* A rebuild between the first snapshot of its fold and its DELETE of the mark.
Folding(r) == rpc[r] \in {"write", "clear"} \/ (rpc[r] = "read" /\ step[r] > 1)

\* What a receipt's own transaction sees of itself.
Own(r) == IF r \in Receipts THEN {r} ELSE {}

Init ==
    /\ wpc = [w \in Writers |-> "idle"]
    /\ rpc = [r \in Runs |-> "idle"]
    /\ step = [r \in Runs |-> 1]
    /\ failed = [r \in Runs |-> FALSE]
    /\ snap = [r \in Runs |-> {}]
    /\ work = [r \in Runs |-> [s \in Steps |-> {}]]
    /\ proj = [s \in Steps |-> {}]
    /\ lastError = [s \in Steps |-> FALSE]
    /\ dirty = FALSE
    /\ dirtyLock = NoOne
    /\ limited = FALSE
    /\ aborts = 0
    /\ overlapped = {}

------------------------------------------------------------------------------
(* Write transactions *)

\* record_pick and the other write paths: the facts, then projection_mark_dirty,
\* whose upsert waits for whoever holds the row.
Write(w) ==
    /\ wpc[w] = "idle"
    /\ dirtyLock = NoOne
    /\ wpc' = [wpc EXCEPT ![w] = "open"]
    /\ dirtyLock' = w
    /\ UNCHANGED <<rpc, step, failed, snap, work, proj, lastError, dirty,
                   limited, aborts, overlapped>>

\* MUTANT: a write path that does not call projection_mark_dirty.
CommitUnmarked(w) ==
    /\ wpc[w] = "open"
    /\ wpc' = [wpc EXCEPT ![w] = "committed"]
    /\ dirtyLock' = NoOne
    /\ overlapped' = IF \E r \in Runs : Folding(r)
                     THEN overlapped \cup {w} ELSE overlapped
    /\ UNCHANGED <<rpc, step, failed, snap, work, proj, lastError, dirty, limited,
                   aborts>>

CommitWrite(w) ==
    /\ wpc[w] = "open"
    /\ wpc' = [wpc EXCEPT ![w] = "committed"]
    /\ dirty' = TRUE
    /\ dirtyLock' = NoOne
    /\ overlapped' = IF \E r \in Runs : Folding(r)
                     THEN overlapped \cup {w} ELSE overlapped
    /\ UNCHANGED <<rpc, step, failed, snap, work, proj, lastError, limited, aborts>>

\* TenantScope::run rolls back; the client sends the write again.
AbortWrite(w) ==
    /\ wpc[w] = "open"
    /\ aborts < MaxAborts
    /\ wpc' = [wpc EXCEPT ![w] = "idle"]
    /\ dirtyLock' = NoOne
    /\ aborts' = aborts + 1
    /\ UNCHANGED <<rpc, step, failed, snap, work, proj, lastError, dirty,
                   limited, overlapped>>

------------------------------------------------------------------------------
(* Rebuilds *)

\* A rebuild's transaction begins; nothing is folded yet.
Start(r, state) ==
    /\ rpc' = [rpc EXCEPT ![r] = state]
    /\ UNCHANGED <<wpc, step, failed, snap, work, proj, lastError, dirty,
                   dirtyLock, limited, aborts, overlapped>>

\* It ends: its locks and whatever it had not committed are gone.
End(r, state) ==
    /\ rpc' = [rpc EXCEPT ![r] = state]
    /\ step' = [step EXCEPT ![r] = 1]
    /\ failed' = [failed EXCEPT ![r] = FALSE]
    /\ snap' = [snap EXCEPT ![r] = {}]
    /\ work' = [work EXCEPT ![r] = [s \in Steps |-> {}]]
    /\ dirtyLock' = IF dirtyLock = r THEN NoOne ELSE dirtyLock

\* projection_run_dirty: only a tenant whose committed row exists is rebuilt.
BeginDrain ==
    /\ rpc[Scheduler] = "idle"
    /\ dirty
    /\ Start(Scheduler, "read")

\* projection_refresh_tenant accepts, unless the last accepted one is recent.
BeginRefresh(r) ==
    /\ rpc[r] = "idle"
    /\ ~limited
    /\ Start(r, "read")

\* A rate-limited refresh returns NULL: a receipt then goes on to its own mark,
\* and for POST /projections/refresh nothing happens at all.
BeginLimitedReceipt(r) ==
    /\ rpc[r] = "idle"
    /\ limited
    /\ Start(r, "mark")

\* A step's statement takes its snapshot.
ReadLedger(r) ==
    /\ rpc[r] = "read"
    /\ snap' = [snap EXCEPT ![r] = Committed \cup Own(r)]
    /\ rpc' = [rpc EXCEPT ![r] = "write"]
    /\ UNCHANGED <<wpc, step, failed, work, proj, lastError, dirty, dirtyLock,
                   limited, aborts, overlapped>>

\* MUTANT: projection_run_all does not stamp projection_freshness, and no row is
\* rewritten that already holds what the step folded.
HeldWithoutStamp(r, s) ==
    \E q \in Runs \ {r} : Active(q) /\ s < step[q] /\ work[q][s] # proj[s]

\* Another rebuild wrote step s, so its projected rows and freshness row are
\* locked until that rebuild ends.
HeldByOther(r, s) ==
    \E q \in Runs \ {r} :
        Active(q) /\ (s < step[q] \/ (s = step[q] /\ failed[q]))

\* The fold's compare-and-set rewrites the rows that differ from what it READ
\* (it does not read again after waiting), and the freshness row is stamped.
WriteStep(r) ==
    /\ rpc[r] = "write"
    /\ ~HeldByOther(r, step[r])
    /\ work' = [work EXCEPT ![r][step[r]] = snap[r]]
    /\ snap' = [snap EXCEPT ![r] = {}]
    /\ step' = [step EXCEPT ![r] = @ + 1]
    /\ rpc' = [rpc EXCEPT ![r] = IF step[r] = NSteps THEN "clear" ELSE "read"]
    /\ UNCHANGED <<wpc, failed, proj, lastError, dirty, dirtyLock,
                   limited, aborts, overlapped>>

\* The step raised: its savepoint undoes it, the error is recorded on its
\* freshness row, and projection_run_all returns normally without the rest.
FailStep(r) ==
    /\ rpc[r] = "write"
    /\ ~HeldByOther(r, step[r])
    /\ failed' = [failed EXCEPT ![r] = TRUE]
    /\ snap' = [snap EXCEPT ![r] = {}]
    /\ rpc' = [rpc EXCEPT ![r] = "clear"]
    /\ UNCHANGED <<wpc, step, work, proj, lastError, dirty, dirtyLock,
                   limited, aborts, overlapped>>

AfterClear(r) == IF r \in Receipts THEN "mark" ELSE "commit"

\* MUTANT: the drain does not delete the mark.
KeepMark(r) ==
    /\ rpc[r] = "clear"
    /\ rpc' = [rpc EXCEPT ![r] = AfterClear(r)]
    /\ UNCHANGED <<wpc, step, failed, snap, work, proj, lastError, dirty, dirtyLock,
                   limited, aborts, overlapped>>

\* DELETE FROM projection_dirty, whatever projection_run_all met.  With a
\* committed row it waits for the row's lock; with none it deletes nothing.
ClearMark(r) ==
    /\ rpc[r] = "clear"
    /\ \/ ~dirty /\ dirtyLock' = dirtyLock
       \/ dirty /\ dirtyLock = NoOne /\ dirtyLock' = r
    /\ rpc' = [rpc EXCEPT ![r] = AfterClear(r)]
    /\ UNCHANGED <<wpc, step, failed, snap, work, proj, lastError, dirty,
                   limited, aborts, overlapped>>

\* record_receipt marks the tenant after its refresh deleted the mark.
MarkReceipt(r) ==
    /\ rpc[r] = "mark"
    /\ dirtyLock \in {NoOne, r}
    /\ dirtyLock' = r
    /\ rpc' = [rpc EXCEPT ![r] = "commit"]
    /\ UNCHANGED <<wpc, step, failed, snap, work, proj, lastError, dirty,
                   limited, aborts, overlapped>>

\* Everything the rebuild did becomes visible at once.
CommitRun(r) ==
    /\ rpc[r] = "commit"
    /\ proj' = [s \in Steps |-> IF s < step[r] THEN work[r][s] ELSE proj[s]]
    /\ lastError' = [s \in Steps |-> \/ s = step[r] /\ failed[r]
                                     \/ s >= step[r] /\ lastError[s]]
    /\ dirty' = (r \in Receipts \/ (dirty /\ dirtyLock # r))
    /\ End(r, IF r \in Receipts THEN "done" ELSE "idle")
    /\ limited' = (limited \/ (r \in Demand /\ PastFirst(r)))
    /\ overlapped' = IF r \in Receipts /\ \E q \in Runs : Folding(q)
                     THEN overlapped \cup {r} ELSE overlapped
    /\ UNCHANGED <<wpc, aborts>>

\* The transaction ends in an error or the process dies: everything it did is
\* gone.  The scheduler logs it and comes back a period later.
AbortRun(r) ==
    /\ Active(r)
    /\ aborts < MaxAborts
    /\ End(r, "idle")
    /\ aborts' = aborts + 1
    /\ UNCHANGED <<wpc, proj, lastError, dirty, limited, overlapped>>

\* Five seconds go by.
Elapse ==
    /\ limited
    /\ limited' = FALSE
    /\ UNCHANGED <<wpc, rpc, step, failed, snap, work, proj, lastError, dirty,
                   dirtyLock, aborts, overlapped>>

------------------------------------------------------------------------------
WriteTx(w) == Write(w) \/ CommitWrite(w) \/ AbortWrite(w)

Progress(r) ==
    \/ ReadLedger(r)
    \/ WriteStep(r)
    \/ ClearMark(r)
    \/ MarkReceipt(r)
    \/ CommitRun(r)

Next ==
    \/ \E w \in Writers : WriteTx(w)
    \/ BeginDrain
    \/ \E r \in Demand : BeginRefresh(r)
    \/ \E r \in Receipts : BeginLimitedReceipt(r)
    \/ \E r \in Runs : Progress(r) \/ FailStep(r) \/ AbortRun(r)
    \/ Elapse

Spec == Init /\ [][Next]_vars

\* The scheduler's loop never stops, an open transaction ends, and a rebuild
\* that is not waiting for a lock goes on.
Fairness ==
    /\ WF_vars(BeginDrain)
    /\ \A w \in Writers : WF_vars(CommitWrite(w))
    /\ \A r \in Runs : WF_vars(Progress(r))

FairSpec == Spec /\ Fairness

------------------------------------------------------------------------------
\* Every variable stays in its range; a rebuild's step never passes the last one by
\* more than one, and the history of overlaps holds facts only.
TypeOK ==
    /\ wpc \in [Writers -> {"idle", "open", "committed"}]
    /\ rpc \in [Runs -> RunStates]
    /\ step \in [Runs -> 1..(NSteps + 1)]
    /\ failed \in [Runs -> BOOLEAN]
    /\ snap \in [Runs -> SUBSET Facts]
    /\ work \in [Runs -> [Steps -> SUBSET Facts]]
    /\ proj \in [Steps -> SUBSET Facts]
    /\ lastError \in [Steps -> BOOLEAN]
    /\ dirty \in BOOLEAN
    /\ dirtyLock \in Writers \cup Runs \cup {NoOne}
    /\ limited \in BOOLEAN
    /\ aborts \in 0..MaxAborts
    /\ overlapped \subseteq Facts

\* Two rebuilds of a tenant never fold past the first step at the same time.
\* Nothing takes a lock for it: the freshness stamp of the first step does.
SerialisedRuns ==
    \A r, q \in Runs : r # q => ~(PastFirst(r) /\ PastFirst(q))

\* A clean tenant whose projection misses a committed fact has either recorded
\* an error at that step or an earlier one, or the fact was committed while a
\* rebuild was between its first snapshot and its DELETE.  There is no third way
\* for a fact to be left out with nobody told.
CleanMeansFolded ==
    ~dirty => \A f \in Committed \ overlapped, s \in Steps :
                  f \in proj[s] \/ \E e \in 1..s : lastError[e]

\* The mark of projection_dirty as its comment describes it: a tenant whose
\* projections lag a committed write is in the set, unless the fold failed.
LaggingIsDirty ==
    (\A r \in Runs : ~Active(r)) /\ ~dirty =>
        \A f \in Committed, s \in Steps :
            f \in proj[s] \/ \E e \in 1..s : lastError[e]

\* A committed projection never loses a fact it counted, in any step but the
\* first: a rebuild that waited for another one folds again from a new snapshot.
NoForgotten == [][\A s \in Steps \ {1} : proj[s] \subseteq proj'[s]]_vars

\* A mark is always drained, by the scheduler or by a refresh that beat it.
MarkIsDrained == dirty ~> ~dirty
==============================================================================
