------------------------------- MODULE LiveChannel -------------------------------
(***************************************************************************)
(* Devices are told when something changed (live.rs, domain/changes.ts).      *)
(* A commit notifies the one connection that LISTENs; the listener passes it  *)
(* to a broadcast hub; the hub to the open streams; a stream says "changed"    *)
(* to its device; the device settles, then its screen reads again.            *)
(*                                                                         *)
(* Nothing is replayed.  What may be missed on the way (the listener or a      *)
(* stream lost, a full buffer, a process restarted) is made good by reading    *)
(* again: Everywhere after a lost listener, a changed after a lag, a read at   *)
(* every hello but the first, a read every so often while there is no stream. *)
(*                                                                         *)
(* What a read brings back is "new" until a change at the device's site makes  *)
(* it "old".  One screen of each device listens.  Timers fire at any time.     *)
(***************************************************************************)
EXTENDS Naturals, Sequences

CONSTANTS
    Devices,
    Topics,      \* the tenants and sites a change may be at
    Hears,       \* per device, the topics whose changes reach it
    Buffer,      \* the hub's buffer for one stream (256 in the code)
    Reads,       \* BOUND: the reads a screen may have in flight
    MaxCommits,  \* BOUND: changes committed
    MaxFaults    \* BOUND: connections lost, reads failed and processes killed

ASSUME LiveChannelAssumption ==
    /\ Hears \in [Devices -> SUBSET Topics]
    /\ Buffer \in Nat \ {0}
    /\ MaxCommits \in Nat /\ MaxFaults \in Nat

VARIABLES
    commits,    \* how many changes were committed
    server,     \* the process: "up", "draining", "down"
    link,       \* its listener: "down", "connected", "listening", "ended"
    lost,       \* whether the listener has failed since the process started
    heard,      \* notifications sent to the listener, not yet passed on
    stream,     \* per device, its stream: "none", "asked", "open"
    rx,         \* per device, what the hub holds for its stream
    lagged,     \* per device, whether its stream missed something
    pipe,       \* per device, the frames on the wire
    conn,       \* per device, its connect(): "none", "opening", "reading"
    standing,   \* per device: "off", "connecting", "live", "polling"
    heardOnce,  \* per device, whether a hello came since the screen came
    timers,     \* per device, the timers set: "settling", "polling", "retrying"
    reads,      \* per device and slot, a read: "idle", "asked", or answered "new" or "old"
    shown,      \* per device, what its screen shows: "new" or "old"
    faults,     \* how many faults there were
    owed        \* HISTORY: per device, whether its screen has to ask since the last change:
                \* "no", "yes", or for a change that came before a new process listened
                \* ("unlistened") or before its first hello's stream ("ungreeted")

hub     == <<rx, lagged>>
client  == <<conn, standing, heardOnce, timers>>
screen  == <<reads, shown, owed>>
process == <<server, link, lost, heard>>
liveVars == <<commits, process, stream, hub, pipe, client, screen, faults>>

Mounted(d) == standing[d] # "off"

LiveInit ==
    /\ commits = 0
    /\ server = "up" /\ link = "down" /\ lost = FALSE /\ heard = <<>>
    /\ stream = [d \in Devices |-> "none"]
    /\ rx = [d \in Devices |-> <<>>]
    /\ lagged = [d \in Devices |-> FALSE]
    /\ pipe = [d \in Devices |-> <<>>]
    /\ conn = [d \in Devices |-> "none"]
    /\ standing = [d \in Devices |-> "off"]
    /\ heardOnce = [d \in Devices |-> FALSE]
    /\ timers = [d \in Devices |-> {}]
    /\ reads = [d \in Devices |-> [s \in Reads |-> "idle"]]
    /\ shown = [d \in Devices |-> "old"]
    /\ faults = 0
    /\ owed = [d \in Devices |-> "no"]

Fault == faults < MaxFaults /\ faults' = faults + 1

------------------------------------------------------------------------------
(* The listener *)

\* Every open stream is sent m.  A full buffer drops its oldest and remembers it.
Broadcast(m) ==
    /\ rx' = [d \in Devices |->
                IF stream[d] # "open" THEN rx[d]
                ELSE Append(IF Len(rx[d]) = Buffer THEN Tail(rx[d]) ELSE rx[d], m)]
    /\ lagged' = [d \in Devices |->
                    lagged[d] \/ (stream[d] = "open" /\ Len(rx[d]) = Buffer)]

\* live_notify: NOTIFY at commit, to whoever LISTENs by then.
Commit(t) ==
    /\ commits < MaxCommits
    /\ commits' = commits + 1
    /\ heard' = IF link = "listening" THEN Append(heard, t) ELSE heard
    /\ shown' = [d \in Devices |-> IF t \in Hears[d] THEN "old" ELSE shown[d]]
    /\ reads' = [d \in Devices |-> [s \in Reads |->
                   IF t \in Hears[d] /\ reads[d][s] = "new" THEN "old" ELSE reads[d][s]]]
    /\ owed' = [d \in Devices |->
                  IF t \notin Hears[d] \/ ~Mounted(d) THEN owed[d]
                  ELSE IF lost \/ link = "listening" THEN "yes" ELSE "unlistened"]
    /\ UNCHANGED <<server, link, lost, stream, hub, pipe, client, faults>>

Connect ==
    /\ server # "down" /\ link = "down"
    /\ \/ link' = "connected" /\ UNCHANGED <<lost, faults>>
       \/ Fault /\ lost' = TRUE /\ UNCHANGED link
    /\ UNCHANGED <<commits, server, heard, stream, hub, pipe, client, screen>>

\* MUTANT: a listener that is back says nothing.
ListenQuietly ==
    /\ link = "connected"
    /\ link' = "listening"
    /\ UNCHANGED <<commits, server, lost, heard, stream, hub, pipe, client, screen, faults>>

\* LISTEN; a listener that is back tells everybody.
Listen ==
    /\ link = "connected"
    /\ link' = "listening"
    /\ IF lost THEN Broadcast("everywhere") ELSE UNCHANGED hub
    /\ UNCHANGED <<commits, server, lost, heard, stream, pipe, client, screen, faults>>

\* The connection breaks; what it had not delivered yet is gone.
LoseLink ==
    /\ link \in {"connected", "listening"} /\ Fault
    /\ link' = "ended"
    /\ \E n \in 0..Len(heard) : heard' = SubSeq(heard, 1, n)
    /\ UNCHANGED <<commits, server, lost, stream, hub, pipe, client, screen>>

\* Passing on what was heard, also after the connection broke.
Forward ==
    /\ heard # <<>>
    /\ heard' = Tail(heard)
    /\ Broadcast(Head(heard))
    /\ UNCHANGED <<commits, server, link, lost, stream, pipe, client, screen, faults>>

EndLink ==
    /\ link = "ended" /\ heard = <<>>
    /\ link' = "down" /\ lost' = TRUE
    /\ UNCHANGED <<commits, server, heard, stream, hub, pipe, client, screen, faults>>

------------------------------------------------------------------------------
(* GET /changes *)

\* Past the draining check, and waiting for the session to be read.
Enter(d) ==
    /\ conn[d] = "opening" /\ stream[d] = "none" /\ pipe[d] = <<>> /\ server = "up"
    /\ stream' = [stream EXCEPT ![d] = "asked"]
    /\ UNCHANGED <<commits, process, hub, pipe, client, screen, faults>>

\* Subscribed, and saying hello.
Hello(d) ==
    /\ stream[d] = "asked"
    /\ stream' = [stream EXCEPT ![d] = "open"]
    /\ rx' = [rx EXCEPT ![d] = <<>>]
    /\ lagged' = [lagged EXCEPT ![d] = FALSE]
    /\ pipe' = [pipe EXCEPT ![d] = <<"hello">>]
    /\ owed' = [owed EXCEPT ![d] = IF ~heardOnce[d] /\ @ = "yes" THEN "ungreeted" ELSE @]
    /\ UNCHANGED <<commits, process, client, reads, shown, faults>>

\* The stream is over, and its receiver is dropped.
Close(d) ==
    /\ stream' = [stream EXCEPT ![d] = "none"]
    /\ rx' = [rx EXCEPT ![d] = <<>>]
    /\ lagged' = [lagged EXCEPT ![d] = FALSE]

Say(d, frame) == pipe' = [pipe EXCEPT ![d] = Append(pipe[d], frame)]

\* What the hub holds next: a change that reaches the device is said to it.
Hear(d) ==
    IF Head(rx[d]) = "closing"
    THEN Close(d) /\ Say(d, "end")
    ELSE /\ rx' = [rx EXCEPT ![d] = Tail(rx[d])]
         /\ IF Head(rx[d]) \in Hears[d] \cup {"everywhere"} THEN Say(d, "changed")
                                                             ELSE UNCHANGED pipe
         /\ UNCHANGED <<stream, lagged>>

\* One turn of the stream's loop.  Too far behind to know what was missed is a change.
Receive(d) ==
    /\ stream[d] = "open"
    /\ \/ /\ lagged[d]
          /\ lagged' = [lagged EXCEPT ![d] = FALSE]
          /\ Say(d, "changed")
          /\ UNCHANGED <<rx, stream>>
       \/ ~lagged[d] /\ rx[d] # <<>> /\ Hear(d)
    /\ UNCHANGED <<commits, process, client, screen, faults>>

\* The stream has lasted its five minutes, whatever is left in the hub.
ExpireStream(d) ==
    /\ stream[d] = "open"
    /\ Close(d)
    /\ Say(d, "end")
    /\ UNCHANGED <<commits, process, client, screen, faults>>

------------------------------------------------------------------------------
(* The device *)

Set(d, on)   == timers' = [timers EXCEPT ![d] = timers[d] \cup on]
Settling(d)  == Set(d, {"settling"})

\* The screen reads, in a free slot.
AskAgain(d) ==
    /\ \E s \in Reads : reads[d][s] = "idle"
    /\ reads' = [reads EXCEPT ![d][CHOOSE s \in Reads : reads[d][s] = "idle"] = "asked"]
    /\ owed' = [owed EXCEPT ![d] = "no"]
    /\ UNCHANGED shown

\* The stream before is let go of.
Abandon(d) == Close(d) /\ pipe' = [pipe EXCEPT ![d] = <<>>]

\* Channel.connect, up to its await; T are the timers that stay.
Open(d, T) ==
    /\ Abandon(d)
    /\ conn' = [conn EXCEPT ![d] = "opening"]
    /\ standing' = [standing EXCEPT ![d] = IF @ = "polling" THEN @ ELSE "connecting"]
    /\ timers' = [timers EXCEPT ![d] = T]

\* The rest of connect: a stream that worked is opened again at once, one that did
\* not say hello is no stream, and the device asks on a timer meanwhile.
EndConnect(d) ==
    /\ Abandon(d)
    /\ conn' = [conn EXCEPT ![d] = "none"]
    /\ IF conn[d] = "reading"
       THEN standing' = [standing EXCEPT ![d] = "connecting"] /\ Set(d, {"retrying"})
       ELSE standing' = [standing EXCEPT ![d] = "polling"] /\ Set(d, {"retrying", "polling"})
    /\ UNCHANGED heardOnce

\* Channel.subscribe, and the screen's own first read.
Mount(d) ==
    /\ ~Mounted(d)
    /\ Open(d, {})
    /\ AskAgain(d)
    /\ UNCHANGED <<commits, process, heardOnce, faults>>

\* Channel.stop; reads in flight come back to nobody.
Leave(d) ==
    /\ Mounted(d)
    /\ Abandon(d)
    /\ conn' = [conn EXCEPT ![d] = "none"]
    /\ standing' = [standing EXCEPT ![d] = "off"]
    /\ heardOnce' = [heardOnce EXCEPT ![d] = FALSE]
    /\ timers' = [timers EXCEPT ![d] = {}]
    /\ reads' = [reads EXCEPT ![d] = [s \in Reads |-> "idle"]]
    /\ shown' = [shown EXCEPT ![d] = "old"]
    /\ owed' = [owed EXCEPT ![d] = "no"]
    /\ UNCHANGED <<commits, process, faults>>

\* MUTANT: a hello is only a greeting.
TakeChangesOnly(d) ==
    /\ conn[d] # "none" /\ pipe[d] # <<>>
    /\ LET frame == Head(pipe[d]) IN
       IF frame = "end" THEN EndConnect(d) ELSE
       /\ pipe' = [pipe EXCEPT ![d] = Tail(pipe[d])]
       /\ IF frame = "hello"
          THEN /\ conn' = [conn EXCEPT ![d] = "reading"]
               /\ standing' = [standing EXCEPT ![d] = "live"]
               /\ heardOnce' = [heardOnce EXCEPT ![d] = TRUE]
               /\ timers' = [timers EXCEPT ![d] = @ \ {"polling"}]
          ELSE Settling(d) /\ UNCHANGED <<conn, standing, heardOnce>>
       /\ UNCHANGED <<stream, hub>>
    /\ UNCHANGED <<commits, process, screen, faults>>

\* A frame arrives.  Any hello but the first follows a gap.
Take(d) ==
    /\ conn[d] # "none" /\ pipe[d] # <<>>
    /\ LET frame == Head(pipe[d]) IN
       IF frame = "end" THEN EndConnect(d) ELSE
       /\ pipe' = [pipe EXCEPT ![d] = Tail(pipe[d])]
       /\ IF frame = "hello"
          THEN /\ conn' = [conn EXCEPT ![d] = "reading"]
               /\ standing' = [standing EXCEPT ![d] = "live"]
               /\ heardOnce' = [heardOnce EXCEPT ![d] = TRUE]
               /\ timers' = [timers EXCEPT ![d] =
                     (@ \ {"polling"}) \cup (IF heardOnce[d] THEN {"settling"} ELSE {})]
          ELSE Settling(d) /\ UNCHANGED <<conn, standing, heardOnce>>
       /\ UNCHANGED <<stream, hub>>
    /\ UNCHANGED <<commits, process, screen, faults>>

\* Refused by a server that is draining or gone, or no hello within its time.
GiveUp(d) ==
    /\ conn[d] = "opening"
    /\ EndConnect(d)
    /\ UNCHANGED <<commits, process, screen, faults>>

\* The connection breaks.
LoseStream(d) ==
    /\ conn[d] # "none" /\ Fault
    /\ EndConnect(d)
    /\ UNCHANGED <<commits, process, screen>>

\* The process that held the stream is gone.
Orphaned(d) ==
    /\ conn[d] = "reading" /\ stream[d] = "none" /\ pipe[d] = <<>>
    /\ EndConnect(d)
    /\ UNCHANGED <<commits, process, screen, faults>>

Retry(d) ==
    /\ "retrying" \in timers[d]
    /\ Open(d, timers[d] \ {"retrying"})
    /\ UNCHANGED <<commits, process, heardOnce, screen, faults>>

\* The settle timer: a burst of changes is one read.
Settle(d) ==
    /\ "settling" \in timers[d]
    /\ timers' = [timers EXCEPT ![d] = @ \ {"settling"}]
    /\ AskAgain(d)
    /\ UNCHANGED <<commits, process, stream, hub, pipe, conn, standing, heardOnce, faults>>

Poll(d) ==
    /\ "polling" \in timers[d]
    /\ AskAgain(d)
    /\ UNCHANGED <<commits, process, stream, hub, pipe, client, faults>>

\* The screen woke, or the network is back.
Nudge(d) ==
    /\ Mounted(d)
    /\ AskAgain(d)
    /\ IF standing[d] = "polling"
       THEN Open(d, timers[d] \ {"retrying"})
       ELSE UNCHANGED <<stream, hub, pipe, conn, standing, timers>>
    /\ UNCHANGED <<commits, process, heardOnce, faults>>

\* The server answers a read with what is committed.
Answer(d, s) ==
    /\ reads[d][s] = "asked" /\ server # "down"
    /\ reads' = [reads EXCEPT ![d][s] = "new"]
    /\ UNCHANGED <<commits, process, stream, hub, pipe, client, shown, owed, faults>>

\* A read comes back, whatever was shown meanwhile.
Land(d, s) ==
    /\ reads[d][s] \in {"new", "old"}
    /\ shown' = [shown EXCEPT ![d] = reads[d][s]]
    /\ reads' = [reads EXCEPT ![d][s] = "idle"]
    /\ UNCHANGED <<commits, process, stream, hub, pipe, client, owed, faults>>

\* A read fails, and nobody is told; a process that is gone answers none.
FailRead(d, s) ==
    /\ reads[d][s] # "idle"
    /\ IF server = "down" THEN UNCHANGED faults ELSE Fault
    /\ reads' = [reads EXCEPT ![d][s] = "idle"]
    /\ UNCHANGED <<commits, process, stream, hub, pipe, client, shown, owed>>

------------------------------------------------------------------------------
(* The process *)

\* begin_shutdown, and Closing to every stream.
DrainServer ==
    /\ server = "up" /\ Fault
    /\ server' = "draining"
    /\ Broadcast("closing")
    /\ UNCHANGED <<commits, link, lost, heard, stream, pipe, client, screen>>

\* The drain is over, or the process is killed.  What is on the wire may still arrive.
Halt ==
    /\ \/ server = "draining" /\ UNCHANGED faults
       \/ server = "up" /\ Fault
    /\ server' = "down" /\ link' = "down" /\ lost' = FALSE /\ heard' = <<>>
    /\ stream' = [d \in Devices |-> "none"]
    /\ rx' = [d \in Devices |-> <<>>]
    /\ lagged' = [d \in Devices |-> FALSE]
    /\ UNCHANGED <<commits, pipe, client, screen>>

StartServer ==
    /\ server = "down"
    /\ server' = "up"
    /\ UNCHANGED <<commits, link, lost, heard, stream, hub, pipe, client, screen, faults>>

Listener  == Connect \/ Listen \/ Forward \/ EndLink
Streams(d) == Enter(d) \/ Hello(d) \/ Receive(d)
Screen(d) == \E s \in Reads : Answer(d, s) \/ Land(d, s) \/ FailRead(d, s)

LiveNext ==
    \/ \E t \in Topics : Commit(t)
    \/ Listener \/ LoseLink
    \/ DrainServer \/ Halt \/ StartServer
    \/ \E d \in Devices :
          \/ Streams(d) \/ ExpireStream(d)
          \/ Mount(d) \/ Leave(d) \/ Nudge(d)
          \/ Take(d) \/ GiveUp(d) \/ LoseStream(d) \/ Orphaned(d)
          \/ Retry(d) \/ Settle(d) \/ Poll(d)
          \/ Screen(d)

\* Timers fire, frames arrive, reads come back, and a stopped process is started.
LiveFairness ==
    /\ WF_liveVars(Connect) /\ WF_liveVars(Listen) /\ WF_liveVars(Forward) /\ WF_liveVars(EndLink)
    /\ WF_liveVars(Halt /\ server = "draining") /\ WF_liveVars(StartServer)
    /\ \A d \in Devices :
          /\ WF_liveVars(Streams(d)) /\ WF_liveVars(ExpireStream(d))
          /\ WF_liveVars(Take(d)) /\ WF_liveVars(GiveUp(d)) /\ WF_liveVars(Orphaned(d))
          /\ WF_liveVars(Retry(d)) /\ SF_liveVars(Settle(d)) /\ SF_liveVars(Poll(d))
          /\ \A s \in Reads : WF_liveVars(Answer(d, s) \/ Land(d, s) \/ FailRead(d, s))

LiveSpec == LiveInit /\ [][LiveNext]_liveVars /\ LiveFairness

------------------------------------------------------------------------------
\* Every variable stays in its range; a device with no screen listening holds no
\* stream, no timer and no read.
LiveTypeOK ==
    /\ commits \in 0..MaxCommits
    /\ server \in {"up", "draining", "down"}
    /\ link \in {"down", "connected", "listening", "ended"}
    /\ lost \in BOOLEAN
    /\ heard \in Seq(Topics)
    /\ stream \in [Devices -> {"none", "asked", "open"}]
    /\ rx \in [Devices -> Seq(Topics \cup {"everywhere", "closing"})]
    /\ lagged \in [Devices -> BOOLEAN]
    /\ pipe \in [Devices -> Seq({"hello", "changed", "end"})]
    /\ conn \in [Devices -> {"none", "opening", "reading"}]
    /\ standing \in [Devices -> {"off", "connecting", "live", "polling"}]
    /\ heardOnce \in [Devices -> BOOLEAN]
    /\ timers \in [Devices -> SUBSET {"settling", "polling", "retrying"}]
    /\ reads \in [Devices -> [Reads -> {"idle", "asked", "new", "old"}]]
    /\ shown \in [Devices -> {"new", "old"}]
    /\ owed \in [Devices -> {"no", "yes", "unlistened", "ungreeted"}]
    /\ faults \in 0..MaxFaults
    /\ \A d \in Devices : Len(rx[d]) <= Buffer
    /\ \A d \in Devices : ~Mounted(d) =>
          /\ conn[d] = "none" /\ stream[d] = "none" /\ timers[d] = {} /\ ~heardOnce[d]
          /\ \A s \in Reads : reads[d][s] = "idle"

\* Something will make the screen ask: the change is with the listener, the hub or the
\* stream, or the device is between two streams or about to read.
OnItsWay(d) ==
    \/ timers[d] # {} \/ conn[d] # "reading" \/ pipe[d] # <<>>
    \/ stream[d] = "none" \/ lagged[d]
    \/ \E i \in DOMAIN rx[d] : rx[d][i] \in Hears[d] \cup {"everywhere"}
    \/ \E i \in DOMAIN heard : heard[i] \in Hears[d]
    \/ lost /\ link # "listening"
    \/ link = "ended"

\* A screen that has not asked since the last change at its site is going to, whatever
\* was lost, left behind or restarted.  Two gaps are excepted: changes before the
\* stream of a screen's first hello, and changes before a new process first listens.
NothingUnheard == \A d \in Devices : owed[d] = "yes" => OnItsWay(d)

\* A device that stays on a screen comes to show the last change at its site, and
\* keeps showing it, whatever was lost on the way and in whatever order reads came
\* back: every stream ends, and its successor's hello is a read.
ComesToShow ==
    \A d \in Devices : <>[]Mounted(d) => <>[](shown[d] = "new")

\* What live.rs says of a drain: its streams end, for each is told Closing, and so
\* none is left to hold the stop open.
StreamsEndInADrain ==
    server = "draining" =>
        \A d \in Devices : stream[d] = "open" =>
            lagged[d] \/ \E i \in DOMAIN rx[d] : rx[d][i] = "closing"
==============================================================================
