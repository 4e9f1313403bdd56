------------------------------- MODULE Poller -------------------------------
(***************************************************************************)
(* The device poller, internal/poller/manager.go: the registry of worker   *)
(* goroutines, the sync loop and ReloadDevice that start and stop them,    *)
(* the worker itself (runDevice), and the tables it shares with the API    *)
(* and the WebSocket hub (status, lastErr, prev, stats).                   *)
(*                                                                         *)
(* Every critical section of Manager.mu and every database read is one     *)
(* action, and whatever lies between two of them can be interleaved with   *)
(* the other goroutines.  An outcome that only the worker sees (a router's *)
(* answer, a failed read) is joined with the critical section it leads to. *)
(*                                                                         *)
(* A worker goroutine and the stop channel it was given at its start are   *)
(* one identity, a member of Workers.  An identity is reused when its      *)
(* goroutine has returned and the registry does not hold its channel.      *)
(*                                                                         *)
(* A device has one monitored interface here, so that the counters of a    *)
(* poll are one value; of a counter we keep the host it was read from.     *)
(*                                                                         *)
(* A definition whose name has a suffix (Wipe_keepsPrev) is a faulty form  *)
(* of the one it precedes, and is used by no specification: it shows that  *)
(* some property below tells the two apart.  So in the other modules.      *)
(***************************************************************************)
EXTENDS Naturals, FiniteSets

CONSTANTS
    Devices,     \* device ids
    Workers,     \* worker goroutines, each with its stop channel
    Hosts,       \* router addresses a device can be configured with
    Handlers,    \* concurrent HTTP handlers and scheduled reboots
    Loop,        \* the goroutine of syncLoop
    NoWorker, NoHost, NoDevice,
    MaxEdits,    \* bound: administrative requests in a behaviour
    MaxFaults    \* bound: failed database reads in a behaviour

Syncers == Handlers \cup {Loop}

ASSUME PollerAssumption ==
    /\ Loop \notin Handlers
    /\ NoWorker \notin Workers
    /\ NoHost \notin Hosts
    /\ NoDevice \notin Devices
    /\ MaxEdits \in Nat
    /\ MaxFaults \in Nat

VARIABLES
    row,         \* the devices table, with "has monitored interfaces"
    workers,     \* Manager.workers
    table,       \* Manager.status and Manager.lastErr
    prev,        \* Manager.prev: the host the baseline counters came from
    stats,       \* Manager.stats: the host the figures came from
    stopped,     \* whether the stop channel is closed
    pc, dev,     \* where a worker is, and the device it polls
    host,        \* the host it read from its device row
    call,        \* the arguments of its setStatus call, and what follows
    base,        \* the host of the baseline its current sample was taken from
    first,       \* whether the current pollOnce is the first of a connection
    spc, sdev,   \* where a syncer is, and the device it reloads
    active, todo,\* sync's local set, and the devices it has still to visit
    edits, faults,
    tainted,     \* history: a stopped worker wrote to the device's tables
    reported,    \* history: the worker has completed a setStatus call
    shown        \* history: the device's last status broadcast

dbVars     == <<row, edits, faults>>
tableVars  == <<workers, table, prev, stats>>
localVars  == <<host, call, base, first>>
workerVars == <<pc, dev, stopped, localVars>>
syncVars   == <<spc, sdev, active, todo>>
history    == <<tainted, reported, shown>>
vars       == <<dbVars, tableVars, workerVars, syncVars, history>>

-----------------------------------------------------------------------------
Lives  == {"none", "enabled", "disabled", "gone"}
\* Error texts matter only by being equal or not: those of a session that was
\* not established (no password, no interfaces, no connection) and of one that
\* broke.
Errors == {"", "setup", "poll"}
Rows   == [life : Lives, ifaces : BOOLEAN, host : Hosts]
Status == [online : BOOLEAN, err : Errors]
Blank  == [online |-> FALSE, err |-> ""]

WorkerPCs == {"exited", "top", "load", "secret", "ifaces", "dial", "broadcast",
              "sleep", "fetch", "store", "resource", "loop"}
SyncPCs   == {"idle", "reload", "list", "start"}
Calls     == [status : Status, then : WorkerPCs]
NoCall    == [status |-> Blank, then |-> "exited"]

Enabled(d) == row[d].life = "enabled"
Exists(d)  == row[d].life \in {"enabled", "disabled"}
Running(w) == pc[w] # "exited"
Registered(w) == \E d \in Devices : workers[d] = w

\* The identities that sync may give to a new goroutine.
Free == {w \in Workers : ~Running(w) /\ ~Registered(w)}

Init ==
    /\ row \in [Devices -> [life : {"none", "enabled", "disabled"},
                            ifaces : BOOLEAN, host : Hosts]]
    /\ workers = [d \in Devices |-> NoWorker]
    /\ table = [d \in Devices |-> Blank]
    /\ prev = [d \in Devices |-> NoHost]
    /\ stats = [d \in Devices |-> NoHost]
    /\ stopped = [w \in Workers |-> FALSE]
    /\ pc = [w \in Workers |-> "exited"]
    /\ dev = [w \in Workers |-> NoDevice]
    /\ host = [w \in Workers |-> NoHost]
    /\ call = [w \in Workers |-> NoCall]
    /\ base = [w \in Workers |-> NoHost]
    /\ first = [w \in Workers |-> TRUE]
    /\ spc = [s \in Syncers |-> IF s = Loop THEN "list" ELSE "idle"]
    /\ sdev = [s \in Syncers |-> NoDevice]
    /\ active = [s \in Syncers |-> {}]
    /\ todo = [s \in Syncers |-> {}]
    /\ edits = 0
    /\ faults = 0
    /\ tainted = [d \in Devices |-> FALSE]
    /\ reported = [w \in Workers |-> FALSE]
    /\ shown = [d \in Devices |-> Blank]

-----------------------------------------------------------------------------
(* The registry: sync and ReloadDevice.                                    *)

\* close(stopCh), for the registered workers of the devices in D.
CloseStops_skipped(D) == UNCHANGED stopped
CloseStops(D) ==
    stopped' = [w \in Workers |-> stopped[w] \/ \E d \in D : workers[d] = w]

\* delete(m.workers, id)
Deregister_skipped(D) == UNCHANGED workers
Deregister(D) == workers' = [d \in Devices |-> IF d \in D THEN NoWorker ELSE workers[d]]

\* delete from prev, prevTime, status, lastErr and stats.
Wipe_keepsPrev(D) ==
    /\ table' = [d \in Devices |-> IF d \in D THEN Blank ELSE table[d]]
    /\ stats' = [d \in Devices |-> IF d \in D THEN NoHost ELSE stats[d]]
    /\ tainted' = [d \in Devices |-> d \notin D /\ tainted[d]]
    /\ UNCHANGED prev
Wipe(D) ==
    /\ table' = [d \in Devices |-> IF d \in D THEN Blank ELSE table[d]]
    /\ prev' = [d \in Devices |-> IF d \in D THEN NoHost ELSE prev[d]]
    /\ stats' = [d \in Devices |-> IF d \in D THEN NoHost ELSE stats[d]]
    /\ tainted' = [d \in Devices |-> d \notin D /\ tainted[d]]

\* The critical section in which workers are stopped.
StopAndWipe(D) ==
    /\ CloseStops(D) /\ Deregister(D) /\ Wipe(D)
    /\ UNCHANGED <<dbVars, pc, dev, localVars, reported, shown>>

\* The locked half of ReloadDevice; its call of sync follows.
ReloadDevice(s) ==
    /\ spc[s] = "reload"
    /\ StopAndWipe({sdev[s]})
    /\ spc' = [spc EXCEPT ![s] = "list"]
    /\ sdev' = [sdev EXCEPT ![s] = NoDevice]
    /\ UNCHANGED <<active, todo>>

\* ListDevices is one query: active is a copy of the table at this moment.
SyncList(s) ==
    /\ spc[s] = "list"
    /\ active' = [active EXCEPT ![s] = {d \in Devices : Enabled(d)}]
    /\ todo' = [todo EXCEPT ![s] = {d \in Devices : Enabled(d)}]
    /\ spc' = [spc EXCEPT ![s] = "start"]
    /\ UNCHANGED <<dbVars, tableVars, workerVars, sdev, history>>

SyncListFails(s) ==
    /\ spc[s] = "list"
    /\ faults < MaxFaults
    /\ faults' = faults + 1
    /\ spc' = [spc EXCEPT ![s] = "idle"]
    /\ UNCHANGED <<row, edits, tableVars, workerVars, sdev, active, todo, history>>

\* One iteration of sync's first loop: start a worker unless one is registered.
SyncStart(s) == \E d \in todo[s] :
    /\ spc[s] = "start"
    /\ todo' = [todo EXCEPT ![s] = @ \ {d}]
    /\ IF workers[d] # NoWorker
       THEN UNCHANGED <<workers, workerVars, reported>>
       ELSE \E w \in Free :
              /\ workers' = [workers EXCEPT ![d] = w]
              /\ stopped' = [stopped EXCEPT ![w] = FALSE]
              /\ pc' = [pc EXCEPT ![w] = "top"]
              /\ dev' = [dev EXCEPT ![w] = d]
              /\ reported' = [reported EXCEPT ![w] = FALSE]
              /\ UNCHANGED localVars
    /\ UNCHANGED <<dbVars, table, prev, stats, spc, sdev, active, tainted, shown>>

\* sync's last critical section: stop every worker whose device is not active.
SyncPrune(s) ==
    /\ spc[s] = "start"
    /\ todo[s] = {}
    /\ StopAndWipe({d \in Devices \ active[s] : workers[d] # NoWorker})
    /\ spc' = [spc EXCEPT ![s] = "idle"]
    /\ active' = [active EXCEPT ![s] = {}]
    /\ UNCHANGED <<sdev, todo>>

\* The 15 s ticker of syncLoop.
SyncTick ==
    /\ spc[Loop] = "idle"
    /\ spc' = [spc EXCEPT ![Loop] = "list"]
    /\ UNCHANGED <<dbVars, tableVars, workerVars, sdev, active, todo, history>>

-----------------------------------------------------------------------------
(* The requests that change a device row or reload a device.               *)

\* A free handler accepts a request; the last action of the request, if it
\* has one, is ReloadDevice(d).
Request(h, d, next) ==
    /\ spc[h] = "idle"
    /\ edits < MaxEdits
    /\ edits' = edits + 1
    /\ spc' = [spc EXCEPT ![h] = next]
    /\ sdev' = [sdev EXCEPT ![h] = IF next = "reload" THEN d ELSE NoDevice]
    /\ UNCHANGED <<tableVars, workerVars, active, todo, history>>

\* createDevice does not touch the poller.
CreateDevice(h, d) == \E r \in Rows :
    /\ row[d].life = "none"
    /\ r.life \in {"enabled", "disabled"} /\ ~r.ifaces
    /\ row' = [row EXCEPT ![d] = r]
    /\ Request(h, d, "idle")
    /\ UNCHANGED faults

\* copyDevice inserts the row with its interfaces, then reloads it.
CopyDevice(h, d) == \E r \in Rows :
    /\ row[d].life = "none"
    /\ r.life \in {"enabled", "disabled"}
    /\ row' = [row EXCEPT ![d] = r]
    /\ Request(h, d, "reload")
    /\ UNCHANGED faults

UpdateDevice(h, d) == \E r \in Rows :
    /\ Exists(d)
    /\ r.life \in {"enabled", "disabled"} /\ r.ifaces = row[d].ifaces
    /\ row' = [row EXCEPT ![d] = r]
    /\ Request(h, d, "reload")
    /\ UNCHANGED faults

\* The update is committed but reading it back fails: no reload.
UpdateDeviceFails(h, d) == \E r \in Rows :
    /\ Exists(d)
    /\ r.life \in {"enabled", "disabled"} /\ r.ifaces = row[d].ifaces
    /\ faults < MaxFaults
    /\ faults' = faults + 1
    /\ row' = [row EXCEPT ![d] = r]
    /\ Request(h, d, "idle")

SetInterfaces(h, d) == \E b \in BOOLEAN :
    /\ Exists(d)
    /\ row' = [row EXCEPT ![d].ifaces = b]
    /\ Request(h, d, "reload")
    /\ UNCHANGED faults

\* The device is reloaded though there may be no such row.
DeleteDevice(h, d) ==
    /\ row' = IF Exists(d) THEN [row EXCEPT ![d].life = "gone"] ELSE row
    /\ Request(h, d, "reload")
    /\ UNCHANGED faults

\* RebootDevice reloads the device once the router took the command.
RebootDevice(h, d) ==
    /\ Exists(d)
    /\ Request(h, d, "reload")
    /\ UNCHANGED <<row, faults>>

-----------------------------------------------------------------------------
(* The worker: runDevice.                                                  *)

Goto(w, to) == pc' = [pc EXCEPT ![w] = to]

\* A write to the tables of w's device, noted when w has been stopped.
Taint(w) == tainted' = [tainted EXCEPT ![dev[w]] = @ \/ stopped[w]]

Changed_online(d, online, err) == table[d].online # online
Changed(d, online, err) == table[d].online # online \/ table[d].err # err

\* The locked half of setStatus(dev[w], online, err); the worker goes on at
\* "then", after a broadcast if the call changed something.
SetStatus(w, online, err, then) ==
    LET d == dev[w]
        e == IF err # "" \/ online THEN err ELSE table[d].err
        changed == Changed(d, online, err)
    IN  /\ Goto(w, IF changed THEN "broadcast" ELSE then)
        /\ table' = [table EXCEPT ![d] = [online |-> online, err |-> e]]
        /\ call' = IF changed
                   THEN [call EXCEPT ![w] = [status |-> [online |-> online, err |-> err],
                                             then |-> then]]
                   ELSE call
        /\ reported' = [reported EXCEPT ![w] = @ \/ ~changed]
        /\ Taint(w)
        /\ UNCHANGED <<workers, prev, stats, shown>>

\* The goroutine returns.  Its registry entry, if it has one, stays.
Return(w) ==
    /\ Goto(w, "exited")
    /\ dev' = [dev EXCEPT ![w] = NoDevice]
    /\ host' = [host EXCEPT ![w] = NoHost]
    /\ base' = [base EXCEPT ![w] = NoHost]
    /\ first' = [first EXCEPT ![w] = TRUE]
    /\ reported' = [reported EXCEPT ![w] = FALSE]
    /\ UNCHANGED <<stopped, call, tainted, shown>>

StopCheck(w) ==
    /\ pc[w] = "top"
    /\ IF stopped[w]
       THEN Return(w)
       ELSE Goto(w, "load") /\ UNCHANGED <<dev, stopped, localVars, history>>
    /\ UNCHANGED <<dbVars, tableVars, syncVars>>

GetDevice_unread(w) ==
    /\ pc[w] = "load"
    /\ Goto(w, "secret")
    /\ UNCHANGED <<dbVars, tableVars, dev, stopped, localVars, syncVars, history>>
GetDevice(w) ==
    /\ pc[w] = "load"
    /\ IF Enabled(dev[w])
       THEN /\ Goto(w, "secret")
            /\ host' = [host EXCEPT ![w] = row[dev[w]].host]
            /\ UNCHANGED <<dev, stopped, call, base, first, history>>
       ELSE Return(w)
    /\ UNCHANGED <<dbVars, tableVars, syncVars>>

GetDeviceFails(w) ==
    /\ pc[w] = "load"
    /\ faults < MaxFaults
    /\ faults' = faults + 1
    /\ Return(w)
    /\ UNCHANGED <<row, edits, tableVars, syncVars>>

\* The password cannot be read when the row is gone, and may not decrypt.
GetDevicePassword(w) ==
    /\ pc[w] = "secret"
    /\ \/ Exists(dev[w]) /\ Goto(w, "ifaces") /\ UNCHANGED <<tableVars, call, history>>
       \/ SetStatus(w, FALSE, "setup", "sleep")
    /\ UNCHANGED <<dbVars, dev, stopped, host, base, first, syncVars>>

\* An empty list and a list that cannot be read get the same answer.
ListMonitoredInterfaces(w) ==
    /\ pc[w] = "ifaces"
    /\ \/ /\ Exists(dev[w]) /\ row[dev[w]].ifaces
          /\ Goto(w, "dial")
          /\ UNCHANGED <<tableVars, call, history>>
       \/ SetStatus(w, FALSE, "setup", "sleep")
    /\ UNCHANGED <<dbVars, dev, stopped, host, base, first, syncVars>>

\* Connect and Ping.
Connect(w) ==
    /\ pc[w] = "dial"
    /\ SetStatus(w, TRUE, "", "fetch") \/ SetStatus(w, FALSE, "setup", "sleep")
    /\ first' = [first EXCEPT ![w] = TRUE]
    /\ UNCHANGED <<dbVars, dev, stopped, host, base, syncVars>>

\* The unlocked half of setStatus.
BroadcastStatus(w) ==
    /\ pc[w] = "broadcast"
    /\ Goto(w, call[w].then)
    /\ shown' = [shown EXCEPT ![dev[w]] = call[w].status]
    /\ call' = [call EXCEPT ![w] = NoCall]
    /\ reported' = [reported EXCEPT ![w] = TRUE]
    /\ Taint(w)
    /\ UNCHANGED <<dbVars, tableVars, dev, stopped, host, base, first, syncVars>>

\* sleepOrStop: either branch may be taken once the channel is closed.
SleepOrStop(w) ==
    /\ pc[w] = "sleep"
    /\ \/ stopped[w] /\ Return(w)
       \/ Goto(w, "top") /\ UNCHANGED <<dev, stopped, localVars, history>>
    /\ UNCHANGED <<dbVars, tableVars, syncVars>>

\* The first half of pollOnce.  The rate is taken against the stored counters,
\* which the new ones replace.
FetchCountersOn(w) ==
    /\ pc[w] = "fetch"
    /\ Goto(w, "store")
    /\ base' = [base EXCEPT ![w] = prev[dev[w]]]
    /\ prev' = [prev EXCEPT ![dev[w]] = host[w]]
    /\ Taint(w)
    /\ UNCHANGED <<dbVars, workers, table, stats, dev, stopped, host, call,
                   first, syncVars, reported, shown>>

\* The result of the first pollOnce of a connection is ignored; after a later
\* failure the worker connects anew.
FetchFails(w) ==
    /\ pc[w] = "fetch"
    /\ SetStatus(w, FALSE, "poll", IF first[w] THEN "loop" ELSE "top")
    /\ UNCHANGED <<dbVars, dev, stopped, host, base, first, syncVars>>

\* storeSample hands the sample on; then setStatus(true).
StoreSample(w) ==
    /\ pc[w] = "store"
    /\ SetStatus(w, TRUE, "", "resource")
    /\ base' = [base EXCEPT ![w] = NoHost]
    /\ UNCHANGED <<dbVars, dev, stopped, host, first, syncVars>>

\* The last part of pollOnce: the figures of /system/resource, if they come.
GetSystemResourceOn(w) ==
    /\ pc[w] = "resource"
    /\ Goto(w, "loop")
    /\ \/ stats' = [stats EXCEPT ![dev[w]] = host[w]] /\ Taint(w)
       \/ UNCHANGED <<stats, tainted>>
    /\ UNCHANGED <<dbVars, workers, table, prev, dev, stopped, localVars,
                   syncVars, reported, shown>>

\* The select of the poll loop: a tick that is due may win over a closed
\* stop channel.
PollTick(w) ==
    /\ pc[w] = "loop"
    /\ Goto(w, "fetch")
    /\ first' = [first EXCEPT ![w] = FALSE]
    /\ UNCHANGED <<dbVars, tableVars, dev, stopped, host, call, base, syncVars, history>>

PollStop_pollsOn(w) ==
    /\ pc[w] = "loop"
    /\ stopped[w]
    /\ Goto(w, "fetch")
    /\ UNCHANGED <<dbVars, tableVars, dev, stopped, localVars, syncVars, history>>
PollStop(w) ==
    /\ pc[w] = "loop"
    /\ stopped[w]
    /\ Return(w)
    /\ UNCHANGED <<dbVars, tableVars, syncVars>>

-----------------------------------------------------------------------------
SyncStep(s) ==
    ReloadDevice(s) \/ SyncList(s) \/ SyncListFails(s) \/ SyncStart(s) \/ SyncPrune(s)

HandlerStep(h, d) ==
    \/ CreateDevice(h, d) \/ CopyDevice(h, d) \/ UpdateDevice(h, d)
    \/ UpdateDeviceFails(h, d) \/ SetInterfaces(h, d) \/ DeleteDevice(h, d)
    \/ RebootDevice(h, d)

WorkerStep(w) ==
    \/ StopCheck(w) \/ GetDevice(w) \/ GetDeviceFails(w) \/ GetDevicePassword(w)
    \/ ListMonitoredInterfaces(w) \/ Connect(w) \/ BroadcastStatus(w)
    \/ SleepOrStop(w) \/ FetchCountersOn(w) \/ FetchFails(w) \/ StoreSample(w)
    \/ GetSystemResourceOn(w) \/ PollTick(w) \/ PollStop(w)

Next ==
    \/ SyncTick
    \/ \E s \in Syncers : SyncStep(s)
    \/ \E h \in Handlers, d \in Devices : HandlerStep(h, d)
    \/ \E w \in Workers : WorkerStep(w)

Spec == Init /\ [][Next]_vars

\* Goroutines that can run do run, and calls to the database and to routers
\* return.  Go's select picks at random among its ready branches, so a closed
\* stop channel is not passed over for ever: strong fairness of PollStop.
Fairness ==
    /\ WF_vars(SyncTick)
    /\ \A s \in Syncers : WF_vars(SyncStep(s))
    /\ \A w \in Workers : WF_vars(WorkerStep(w)) /\ SF_vars(PollStop(w))

FairSpec == Spec /\ Fairness

-----------------------------------------------------------------------------
(* Properties.                                                             *)

TypeOK ==
    /\ row \in [Devices -> Rows]
    /\ workers \in [Devices -> Workers \cup {NoWorker}]
    /\ table \in [Devices -> Status]
    /\ prev \in [Devices -> Hosts \cup {NoHost}]
    /\ stats \in [Devices -> Hosts \cup {NoHost}]
    /\ stopped \in [Workers -> BOOLEAN]
    /\ pc \in [Workers -> WorkerPCs]
    /\ dev \in [Workers -> Devices \cup {NoDevice}]
    /\ host \in [Workers -> Hosts \cup {NoHost}]
    /\ call \in [Workers -> Calls]
    /\ base \in [Workers -> Hosts \cup {NoHost}]
    /\ first \in [Workers -> BOOLEAN]
    /\ \A w \in Workers : Running(w) =>
          dev[w] \in Devices /\ (pc[w] \notin {"top", "load"} => host[w] \in Hosts)
    /\ spc \in [Syncers -> SyncPCs]
    /\ sdev \in [Syncers -> Devices \cup {NoDevice}]
    /\ \A s \in Syncers : spc[s] = "reload" => sdev[s] \in Devices
    /\ active \in [Syncers -> SUBSET Devices]
    /\ todo \in [Syncers -> SUBSET Devices]
    /\ edits \in 0 .. MaxEdits
    /\ faults \in 0 .. MaxFaults
    /\ tainted \in [Devices -> BOOLEAN]
    /\ reported \in [Workers -> BOOLEAN]
    /\ shown \in [Devices -> Status]

\* sync and ReloadDevice close the channels they find in the registry, and
\* closing a closed channel panics: every registered channel is open.
RegisteredOpen ==
    \A d \in Devices : workers[d] # NoWorker => ~stopped[workers[d]]

\* No worker is beyond reach: a running goroutine that has not been told to
\* stop is the one the registry holds for its device.
NoOrphan ==
    \A w \in Workers : Running(w) /\ ~stopped[w] => workers[dev[w]] = w

\* Two workers that poll the same device are not both unstopped.
OneLiveWorker ==
    \A v, w \in Workers :
        Running(v) /\ Running(w) /\ dev[v] = dev[w] /\ ~stopped[v] /\ ~stopped[w]
        => v = w

\* A device without a worker reports nothing and keeps no baseline, unless a
\* worker that was already stopped wrote to its tables after they were wiped.
NoGhost ==
    \A d \in Devices :
        workers[d] = NoWorker /\ ~tainted[d] =>
            table[d] = Blank /\ prev[d] = NoHost /\ stats[d] = NoHost

\* A device's registered worker has told the clients what the table says once
\* it has completed a report and is not in the middle of another: broadcasting
\* only on a change loses nothing, stopped workers aside.
FeedAgrees ==
    \A d \in Devices : LET w == workers[d] IN
        w # NoWorker /\ ~tainted[d] =>
            (reported[w] /\ pc[w] # "broadcast" => shown[d] = table[d])

\* A live worker takes a rate between two readings of the router it is
\* connected to, unless a stopped worker interfered, a reload is due, or was
\* left out because the edited row could not be read back.
RateSameHost ==
    faults = 0 => \A w \in Workers :
        pc[w] = "store" /\ ~stopped[w] /\ ~tainted[dev[w]]
        /\ (\A s \in Syncers : sdev[s] # dev[w])
        => base[w] \in {NoHost, host[w]}

\* A worker that was told to stop returns.
StoppedExits == \A w \in Workers : stopped[w] ~> ~Running(w)

\* handlers.go:263, "Poller starts ... via sync loop": a device that stays
\* enabled ends up with a worker that is registered and running.
EnabledIsServed ==
    \A d \in Devices :
        <>[]Enabled(d) =>
            <>[](workers[d] # NoWorker /\ Running(workers[d]))
=============================================================================
