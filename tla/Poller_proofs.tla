---------------------------- MODULE Poller_proofs ----------------------------
(* Proofs about Poller: its types, its registry of stop channels, what is    *)
(* left in the tables of a device without a worker, what the clients were    *)
(* told of one with a worker, and whose counters a rate is taken from.       *)
EXTENDS Poller, TLAPS

-----------------------------------------------------------------------------
(* Types.                                                                  *)

LEMMA InitType == Init => TypeOK
<1>. SUFFICES ASSUME Init
              PROVE  TypeOK
  OBVIOUS
<1>1. Blank \in Status /\ NoCall \in Calls
  BY DEF Blank, Status, Errors, NoCall, Calls, WorkerPCs
<1>2. row \in [Devices -> Rows]
  BY DEF Init, Rows, Lives
<1>3. /\ edits \in 0 .. MaxEdits
      /\ faults \in 0 .. MaxFaults
  BY PollerAssumption DEF Init
<1>4. spc \in [Syncers -> SyncPCs]
  BY DEF Init, SyncPCs
<1>5. pc \in [Workers -> WorkerPCs] /\ \A w \in Workers : ~Running(w)
  BY DEF Init, WorkerPCs, Running
<1>. QED
  BY <1>1, <1>2, <1>3, <1>4, <1>5 DEF Init, TypeOK

LEMMA StopAndWipeType ==
  ASSUME TypeOK, NEW D \in SUBSET Devices,
         StopAndWipe(D)
  PROVE  /\ workers' \in [Devices -> Workers \cup {NoWorker}]
         /\ table' \in [Devices -> Status]
         /\ prev' \in [Devices -> Hosts \cup {NoHost}]
         /\ stats' \in [Devices -> Hosts \cup {NoHost}]
         /\ stopped' \in [Workers -> BOOLEAN]
         /\ tainted' \in [Devices -> BOOLEAN]
  BY DEF StopAndWipe, CloseStops, Deregister, Wipe, TypeOK, Status, Blank, Errors

LEMMA SyncType ==
  ASSUME TypeOK, NEW s \in Syncers, SyncStep(s)
  PROVE  TypeOK'
<1>1. CASE ReloadDevice(s)
  <2>1. sdev[s] \in Devices \cup {NoDevice}
    BY DEF TypeOK
  <2>. QED
    BY <1>1, <2>1 DEF ReloadDevice, StopAndWipe, CloseStops, Deregister, Wipe, TypeOK, Status, Blank, Errors,
       SyncPCs, Running, dbVars, localVars
<1>2. CASE SyncList(s)
  BY <1>2 DEF SyncList, TypeOK, SyncPCs, Running, dbVars, tableVars, workerVars,
     localVars, history
<1>3. CASE SyncListFails(s)
  BY <1>3, PollerAssumption DEF SyncListFails, TypeOK, SyncPCs, Running, tableVars,
     workerVars, localVars, history
<1>4. CASE SyncStart(s)
  <2>1. PICK d \in todo[s] : SyncStart(s)!(d)
    BY <1>4 DEF SyncStart
  <2>2. d \in Devices
    BY <2>1 DEF TypeOK
  <2>3. CASE workers[d] # NoWorker
    BY <2>1, <2>2, <2>3 DEF TypeOK, Running, dbVars, workerVars, localVars
  <2>4. CASE workers[d] = NoWorker
    <3>1. PICK w \in Free :
            /\ workers' = [workers EXCEPT ![d] = w]
            /\ stopped' = [stopped EXCEPT ![w] = FALSE]
            /\ pc' = [pc EXCEPT ![w] = "top"]
            /\ dev' = [dev EXCEPT ![w] = d]
            /\ reported' = [reported EXCEPT ![w] = FALSE]
            /\ UNCHANGED localVars
      BY <2>1, <2>4
    <3>2. w \in Workers
      BY DEF Free
    <3>3. pc' \in [Workers -> WorkerPCs]
      BY <3>1, <3>2 DEF TypeOK, WorkerPCs
    <3>. QED
      BY <2>1, <2>2, <3>1, <3>2, <3>3 DEF TypeOK, Running, dbVars, localVars
  <2>. QED
    BY <2>3, <2>4
<1>5. CASE SyncPrune(s)
  BY <1>5 DEF SyncPrune, StopAndWipe, CloseStops, Deregister, Wipe, TypeOK, Status, Blank, Errors, SyncPCs,
     Running, dbVars, localVars
<1>. QED
  BY <1>1, <1>2, <1>3, <1>4, <1>5 DEF SyncStep

LEMMA HandlerType ==
  ASSUME TypeOK, NEW h \in Handlers, NEW d \in Devices, HandlerStep(h, d)
  PROVE  TypeOK'
<1>1. row' \in [Devices -> Rows]
  <2>1. \A r \in Rows : [row EXCEPT ![d] = r] \in [Devices -> Rows]
    BY DEF TypeOK
  <2>2. \A b \in BOOLEAN : [row EXCEPT ![d].ifaces = b] \in [Devices -> Rows]
    BY DEF TypeOK, Rows
  <2>3. [row EXCEPT ![d].life = "gone"] \in [Devices -> Rows]
    BY ZenonT(60) DEF TypeOK, Rows, Lives
  <2>4. row \in [Devices -> Rows]
    BY DEF TypeOK
  <2>. QED
    BY <2>1, <2>2, <2>3, <2>4 DEF HandlerStep, CreateDevice, CopyDevice, UpdateDevice,
       UpdateDeviceFails, SetInterfaces, DeleteDevice, RebootDevice
<1>3. faults' \in 0 .. MaxFaults
  <2>1. faults' = faults \/ (faults < MaxFaults /\ faults' = faults + 1)
    BY DEF HandlerStep, CreateDevice, CopyDevice, UpdateDevice,
       UpdateDeviceFails, SetInterfaces, DeleteDevice, RebootDevice
  <2>. QED
    BY <2>1, PollerAssumption DEF TypeOK
<1>4. PICK next \in {"idle", "reload"} : Request(h, d, next)
  BY DEF HandlerStep, CreateDevice, CopyDevice, UpdateDevice,
     UpdateDeviceFails, SetInterfaces, DeleteDevice, RebootDevice
<1>2. h \in Syncers
  BY DEF Syncers
<1>. QED
  BY <1>1, <1>2, <1>3, <1>4, PollerAssumption DEF Request, TypeOK, SyncPCs, Running, tableVars,
     workerVars, localVars, history

LEMMA SetStatusType ==
  ASSUME TypeOK, NEW w \in Workers, Running(w), NEW online \in BOOLEAN,
         NEW err \in Errors, NEW then \in WorkerPCs, SetStatus(w, online, err, then)
  PROVE  /\ pc' \in [Workers -> WorkerPCs]
         /\ table' \in [Devices -> Status]
         /\ call' \in [Workers -> Calls]
         /\ reported' \in [Workers -> BOOLEAN]
         /\ tainted' \in [Devices -> BOOLEAN]
         /\ UNCHANGED <<workers, prev, stats, shown>>
         /\ \A v \in Workers \ {w} : pc'[v] = pc[v]
         /\ pc'[w] \in {then, "broadcast"}
<1>1. dev[w] \in Devices
  BY DEF TypeOK
<1>2. table[dev[w]].err \in Errors
  BY <1>1 DEF TypeOK, Status
<1>. QED
  BY <1>1, <1>2 DEF SetStatus, Changed, TypeOK, Goto, Taint, WorkerPCs, Status, Calls

LEMMA ReturnType ==
  ASSUME TypeOK, NEW w \in Workers, Return(w)
  PROVE  /\ pc' \in [Workers -> WorkerPCs]
         /\ dev' \in [Workers -> Devices \cup {NoDevice}]
         /\ host' \in [Workers -> Hosts \cup {NoHost}]
         /\ base' \in [Workers -> Hosts \cup {NoHost}]
         /\ first' \in [Workers -> BOOLEAN]
         /\ reported' \in [Workers -> BOOLEAN]
         /\ UNCHANGED <<stopped, call, tainted, shown>>
         /\ \A v \in Workers : Running(v)' =>
               pc'[v] = pc[v] /\ dev'[v] = dev[v] /\ host'[v] = host[v]
  BY DEF Return, Goto, TypeOK, WorkerPCs, Running

\* The running workers but w keep their pc, device and host, and w, if it
\* still runs, its device.
LEMMA WorkerType ==
  ASSUME TypeOK, NEW w \in Workers, WorkerStep(w)
  PROVE  TypeOK'
<1>0. Running(w) /\ dev[w] \in Devices /\ (pc[w] \notin {"top", "load"} => host[w] \in Hosts)
  BY DEF WorkerStep, StopCheck, GetDevice, GetDeviceFails, GetDevicePassword,
     ListMonitoredInterfaces, Connect, BroadcastStatus, SleepOrStop, FetchCountersOn,
     FetchFails, StoreSample, GetSystemResourceOn, PollTick, PollStop, Running, TypeOK
<1>1. CASE StopCheck(w)
  <2>1. CASE stopped[w]
    BY <1>1, <2>1, ReturnType DEF StopCheck, TypeOK, Running, dbVars, tableVars, syncVars
  <2>2. CASE ~stopped[w]
    BY <1>0, <1>1, <2>2 DEF StopCheck, Goto, TypeOK, WorkerPCs, Running, dbVars,
       tableVars, localVars, syncVars, history
  <2>. QED
    BY <2>1, <2>2
<1>2. CASE GetDevice(w)
  <2>1. CASE Enabled(dev[w])
    <3>1. row[dev[w]].host \in Hosts
      BY <1>0 DEF TypeOK, Rows
    <3>. QED
      BY <1>0, <1>2, <2>1, <3>1 DEF GetDevice, Goto, TypeOK, WorkerPCs, Running, dbVars,
         tableVars, syncVars, history
  <2>2. CASE ~Enabled(dev[w])
    BY <1>2, <2>2, ReturnType DEF GetDevice, TypeOK, Running, dbVars, tableVars, syncVars
  <2>. QED
    BY <2>1, <2>2
<1>3. CASE GetDeviceFails(w)
  BY <1>3, ReturnType, PollerAssumption DEF GetDeviceFails, TypeOK, Running, tableVars, syncVars
<1>4. CASE GetDevicePassword(w)
  <2>1. CASE SetStatus(w, FALSE, "setup", "sleep")
    <3>1. "setup" \in Errors /\ "sleep" \in WorkerPCs
      BY DEF Errors, WorkerPCs
    <3>. QED
      BY <1>0, <1>4, <2>1, <3>1, SetStatusType DEF GetDevicePassword, TypeOK, Running,
         dbVars, syncVars
  <2>2. CASE Goto(w, "ifaces") /\ UNCHANGED <<tableVars, call, history>>
    BY <1>0, <1>4, <2>2 DEF GetDevicePassword, Goto, TypeOK, WorkerPCs, Running, dbVars,
       tableVars, syncVars, history
  <2>. QED
    BY <1>4, <2>1, <2>2 DEF GetDevicePassword
<1>5. CASE ListMonitoredInterfaces(w)
  <2>1. CASE SetStatus(w, FALSE, "setup", "sleep")
    <3>1. "setup" \in Errors /\ "sleep" \in WorkerPCs
      BY DEF Errors, WorkerPCs
    <3>. QED
      BY <1>0, <1>5, <2>1, <3>1, SetStatusType DEF ListMonitoredInterfaces, TypeOK,
         Running, dbVars, syncVars
  <2>2. CASE Goto(w, "dial") /\ UNCHANGED <<tableVars, call, history>>
    BY <1>0, <1>5, <2>2 DEF ListMonitoredInterfaces, Goto, TypeOK, WorkerPCs, Running,
       dbVars, tableVars, syncVars, history
  <2>. QED
    BY <1>5, <2>1, <2>2 DEF ListMonitoredInterfaces
<1>6. CASE Connect(w)
  <2>1. PICK online \in BOOLEAN, err \in Errors, then \in {"fetch", "sleep"} :
          SetStatus(w, online, err, then)
    BY <1>6 DEF Connect, Errors
  <2>2. then \in WorkerPCs
    BY DEF WorkerPCs
  <2>. QED
    BY <1>0, <1>6, <2>1, <2>2, SetStatusType, ZenonT(60) DEF Connect, TypeOK, Running, dbVars, syncVars
<1>7. CASE BroadcastStatus(w)
  <2>1. call[w].then \in WorkerPCs /\ call[w].status \in Status
    BY DEF TypeOK, Calls
  <2>2. NoCall \in Calls
    BY DEF NoCall, Calls, Blank, Status, Errors, WorkerPCs
  <2>3. pc' = [pc EXCEPT ![w] = call[w].then] /\ pc[w] = "broadcast"
    BY <1>7 DEF BroadcastStatus, Goto
  <2>. QED
    BY <1>0, <1>7, <2>1, <2>2, <2>3 DEF BroadcastStatus, Taint, TypeOK, Running, dbVars,
       tableVars, syncVars
<1>8. CASE SleepOrStop(w)
  <2>1. CASE Return(w)
    BY <1>8, <2>1, ReturnType DEF SleepOrStop, TypeOK, Running, dbVars, tableVars, syncVars
  <2>2. CASE Goto(w, "top") /\ UNCHANGED <<dev, stopped, localVars, history>>
    BY <1>0, <1>8, <2>2 DEF SleepOrStop, Goto, TypeOK, WorkerPCs, Running, dbVars,
       tableVars, localVars, syncVars, history
  <2>. QED
    BY <1>8, <2>1, <2>2 DEF SleepOrStop
<1>9. CASE FetchCountersOn(w)
  BY <1>0, <1>9 DEF FetchCountersOn, Goto, Taint, TypeOK, WorkerPCs, Running, dbVars, syncVars
<1>10. CASE FetchFails(w)
  <2>1. PICK then \in {"loop", "top"} : SetStatus(w, FALSE, "poll", then)
    BY <1>10 DEF FetchFails
  <2>2. then \in WorkerPCs /\ "poll" \in Errors
    BY DEF WorkerPCs, Errors
  <2>. QED
    BY <1>0, <1>10, <2>1, <2>2, SetStatusType DEF FetchFails, TypeOK, Running, dbVars, syncVars
<1>11. CASE StoreSample(w)
  <2>1. "resource" \in WorkerPCs /\ "" \in Errors
    BY DEF WorkerPCs, Errors
  <2>. QED
    BY <1>0, <1>11, <2>1, SetStatusType DEF StoreSample, TypeOK, Running, dbVars, syncVars
<1>12. CASE GetSystemResourceOn(w)
  BY <1>0, <1>12 DEF GetSystemResourceOn, Goto, Taint, TypeOK, WorkerPCs, Running, dbVars,
     localVars, syncVars
<1>13. CASE PollTick(w)
  BY <1>0, <1>13 DEF PollTick, Goto, TypeOK, WorkerPCs, Running, dbVars, tableVars,
     syncVars, history
<1>14. CASE PollStop(w)
  BY <1>14, ReturnType DEF PollStop, TypeOK, Running, dbVars, tableVars, syncVars
<1>. QED
  BY <1>1, <1>2, <1>3, <1>4, <1>5, <1>6, <1>7, <1>8, <1>9, <1>10, <1>11, <1>12, <1>13,
     <1>14 DEF WorkerStep

\* Every reachable state is well typed.
THEOREM TypeCorrect == Spec => []TypeOK
<1>1. TypeOK /\ [Next]_vars => TypeOK'
  <2>. SUFFICES ASSUME TypeOK, [Next]_vars
                PROVE  TypeOK'
    OBVIOUS
  <2>1. CASE SyncTick
    BY <2>1 DEF SyncTick, TypeOK, SyncPCs, Syncers, Running, dbVars, tableVars,
       workerVars, localVars, history
  <2>2. CASE \E s \in Syncers : SyncStep(s)
    BY <2>2, SyncType
  <2>3. CASE \E h \in Handlers, d \in Devices : HandlerStep(h, d)
    BY <2>3, HandlerType
  <2>4. CASE \E w \in Workers : WorkerStep(w)
    BY <2>4, WorkerType
  <2>5. CASE UNCHANGED vars
    BY <2>5 DEF vars, dbVars, tableVars, workerVars, localVars, syncVars, history,
       TypeOK, Running
  <2>. QED
    BY <2>1, <2>2, <2>3, <2>4, <2>5 DEF Next
<1>. QED
  BY <1>1, InitType, PTL DEF Spec

-----------------------------------------------------------------------------
(* The registry.  An entry is open, belongs to one device, and if its       *)
(* goroutine still runs it polls that device; conversely a goroutine that   *)
(* runs unstopped is registered.  The two halves need each other: closing   *)
(* the channel found under one device must not close another device's, and  *)
(* an identity that is still registered must not be given out again.        *)

EntryOK ==
    \A d \in Devices : workers[d] # NoWorker =>
        /\ Running(workers[d]) => dev[workers[d]] = d
        /\ \A e \in Devices : workers[e] = workers[d] => e = d

RegistryInv == RegisteredOpen /\ NoOrphan /\ EntryOK

LEMMA InitRegistry == Init => RegistryInv
  BY DEF Init, RegistryInv, RegisteredOpen, NoOrphan, EntryOK, Running

\* Closing the registered channels of D and deregistering D.
LEMMA StopAndWipeRegistry ==
  ASSUME TypeOK, RegistryInv, NEW D \in SUBSET Devices,
         StopAndWipe(D)
  PROVE  RegistryInv'
<1>1. \A d \in Devices : workers'[d] = IF d \in D THEN NoWorker ELSE workers[d]
  BY DEF StopAndWipe, CloseStops, Deregister, Wipe
<1>2. \A w \in Workers : stopped'[w] <=> stopped[w] \/ \E d \in D : workers[d] = w
  BY DEF StopAndWipe, CloseStops, Deregister, Wipe, TypeOK
<1>3. pc' = pc /\ dev' = dev
  BY DEF StopAndWipe, CloseStops, Deregister, Wipe, localVars
<1>4. RegisteredOpen'
  BY <1>1, <1>2 DEF RegistryInv, RegisteredOpen, EntryOK, TypeOK
<1>5. NoOrphan'
  BY <1>1, <1>2, <1>3 DEF RegistryInv, NoOrphan, Running, TypeOK
<1>6. EntryOK'
  BY <1>1, <1>3 DEF RegistryInv, EntryOK, Running, TypeOK
<1>. QED
  BY <1>4, <1>5, <1>6 DEF RegistryInv

\* Starting a worker under an identity that is free.
LEMMA SyncStartRegistry ==
  ASSUME TypeOK, RegistryInv, NEW s \in Syncers, SyncStart(s)
  PROVE  RegistryInv'
<1>1. PICK d \in todo[s] : SyncStart(s)!(d)
  BY DEF SyncStart
<1>2. d \in Devices
  BY <1>1 DEF TypeOK
<1>3. CASE workers[d] # NoWorker
  BY <1>1, <1>3 DEF RegistryInv, RegisteredOpen, NoOrphan, EntryOK, Running, workerVars
<1>4. CASE workers[d] = NoWorker
  <2>1. PICK w \in Free :
          /\ workers' = [workers EXCEPT ![d] = w]
          /\ stopped' = [stopped EXCEPT ![w] = FALSE]
          /\ pc' = [pc EXCEPT ![w] = "top"]
          /\ dev' = [dev EXCEPT ![w] = d]
    BY <1>1, <1>4
  <2>2. w \in Workers /\ w # NoWorker /\ \A e \in Devices : workers[e] # w
    BY PollerAssumption DEF Free, Registered
  <2>3. RegisteredOpen'
    BY <1>2, <2>1, <2>2 DEF RegistryInv, RegisteredOpen, TypeOK
  <2>4. NoOrphan'
    BY <1>2, <1>4, <2>1, <2>2, PollerAssumption DEF RegistryInv, NoOrphan, Running, TypeOK
  <2>5. EntryOK'
    BY <1>2, <2>1, <2>2 DEF RegistryInv, EntryOK, Running, TypeOK
  <2>. QED
    BY <2>3, <2>4, <2>5 DEF RegistryInv
<1>. QED
  BY <1>3, <1>4

\* A worker changes neither the registry nor a channel; it may return.
LEMMA WorkerFrame ==
  ASSUME TypeOK, NEW w \in Workers, WorkerStep(w)
  PROVE  /\ workers' = workers /\ stopped' = stopped
         /\ Running(w)
         /\ \A v \in Workers : Running(v)' => Running(v) /\ dev'[v] = dev[v]
<1>1. Running(w)
  BY DEF WorkerStep, StopCheck, GetDevice, GetDeviceFails, GetDevicePassword,
     ListMonitoredInterfaces, Connect, BroadcastStatus, SleepOrStop, FetchCountersOn,
     FetchFails, StoreSample, GetSystemResourceOn, PollTick, PollStop, Running
<1>2. \A online, err, then : SetStatus(w, online, err, then) =>
         /\ workers' = workers
         /\ \A v \in Workers \ {w} : pc'[v] = pc[v]
  BY DEF SetStatus, Changed, Goto, TypeOK
<1>3. \A to : Goto(w, to) => \A v \in Workers \ {w} : pc'[v] = pc[v]
  BY DEF Goto, TypeOK
<1>4. Return(w) => /\ stopped' = stopped
                   /\ \A v \in Workers : Running(v)' => Running(v) /\ dev'[v] = dev[v]
  BY DEF Return, Goto, Running, TypeOK
<1>. DEFINE Quiet == /\ workers' = workers /\ stopped' = stopped /\ dev' = dev
                    /\ \A v \in Workers \ {w} : pc'[v] = pc[v]
<1>5. CASE GetDevicePassword(w) \/ ListMonitoredInterfaces(w) \/ Connect(w)
           \/ FetchFails(w) \/ StoreSample(w)
  <2>1. Quiet
    BY <1>2, <1>3, <1>5 DEF GetDevicePassword, ListMonitoredInterfaces, Connect,
       FetchFails, StoreSample, tableVars
  <2>. QED
    BY <1>1, <2>1 DEF Running
<1>6. CASE BroadcastStatus(w) \/ FetchCountersOn(w) \/ GetSystemResourceOn(w) \/ PollTick(w)
  <2>1. Quiet
    BY <1>3, <1>6 DEF BroadcastStatus, FetchCountersOn, GetSystemResourceOn, PollTick, tableVars
  <2>. QED
    BY <1>1, <2>1 DEF Running
<1>7. CASE StopCheck(w) \/ GetDevice(w) \/ GetDeviceFails(w) \/ SleepOrStop(w) \/ PollStop(w)
  <2>1. workers' = workers
    BY <1>7 DEF StopCheck, GetDevice, GetDeviceFails, SleepOrStop, PollStop, tableVars
  <2>2. Return(w) \/ Quiet
    BY <1>3, <1>7, <2>1 DEF StopCheck, GetDevice, GetDeviceFails, SleepOrStop, PollStop
  <2>3. CASE Return(w)
    BY <1>1, <1>4, <2>1, <2>3
  <2>4. CASE Quiet
    BY <1>1, <2>4 DEF Running
  <2>. QED
    BY <2>2, <2>3, <2>4
<1>. QED
  BY <1>5, <1>6, <1>7 DEF WorkerStep

LEMMA RegistryStep == TypeOK /\ RegistryInv /\ [Next]_vars => RegistryInv'
<1>. SUFFICES ASSUME TypeOK, RegistryInv, [Next]_vars
              PROVE  RegistryInv'
  OBVIOUS
<1>1. ASSUME UNCHANGED <<workers, stopped, pc, dev>>
      PROVE  RegistryInv'
  BY <1>1 DEF RegistryInv, RegisteredOpen, NoOrphan, EntryOK, Running
<1>2. CASE SyncTick \/ UNCHANGED vars
  BY <1>1, <1>2 DEF SyncTick, vars, tableVars, workerVars
<1>3. ASSUME NEW s \in Syncers, SyncStep(s)
      PROVE  RegistryInv'
  <2>1. CASE SyncList(s) \/ SyncListFails(s)
    BY <1>1, <2>1 DEF SyncList, SyncListFails, tableVars, workerVars
  <2>2. CASE SyncStart(s)
    BY <2>2, SyncStartRegistry
  <2>3. CASE SyncPrune(s)
    BY <2>3, StopAndWipeRegistry DEF SyncPrune
  <2>4. CASE ReloadDevice(s)
    <3>1. {sdev[s]} \in SUBSET Devices
      BY <2>4 DEF ReloadDevice, TypeOK
    <3>. QED
      BY <2>4, <3>1, StopAndWipeRegistry DEF ReloadDevice
  <2>. QED
    BY <1>3, <2>1, <2>2, <2>3, <2>4 DEF SyncStep
<1>4. ASSUME NEW h \in Handlers, NEW d \in Devices, HandlerStep(h, d)
      PROVE  RegistryInv'
  <2>1. \E next \in {"idle", "reload"} : Request(h, d, next)
    BY <1>4 DEF HandlerStep, CreateDevice, CopyDevice, UpdateDevice, UpdateDeviceFails,
       SetInterfaces, DeleteDevice, RebootDevice
  <2>. QED
    BY <1>1, <2>1 DEF Request, tableVars, workerVars
<1>5. ASSUME NEW w \in Workers, WorkerStep(w)
      PROVE  RegistryInv'
  BY <1>5, WorkerFrame DEF RegistryInv, RegisteredOpen, NoOrphan, EntryOK, TypeOK
<1>. QED
  BY <1>2, <1>3, <1>4, <1>5 DEF Next

\* Every channel that sync and ReloadDevice find in the registry is open, so
\* that closing it does not panic.
THEOREM ChannelsClosedOnce == Spec => []RegisteredOpen
<1>1. RegistryInv => RegisteredOpen
  BY DEF RegistryInv
<1>. QED
  BY <1>1, InitRegistry, RegistryStep, TypeCorrect, PTL DEF Spec

\* Every worker that runs and was not told to stop can be told to.
THEOREM NoWorkerIsLost == Spec => []NoOrphan
<1>1. RegistryInv => NoOrphan
  BY DEF RegistryInv
<1>. QED
  BY <1>1, InitRegistry, RegistryStep, TypeCorrect, PTL DEF Spec

\* At most one worker of a device is unstopped.
THEOREM AtMostOneWorker == Spec => []OneLiveWorker
<1>1. NoOrphan => OneLiveWorker
  BY DEF NoOrphan, OneLiveWorker
<1>. QED
  BY <1>1, NoWorkerIsLost, PTL

-----------------------------------------------------------------------------
(* The tables.  A worker writes only to the tables of its own device; when  *)
(* it is not stopped the registry holds it (RegistryInv), and when it is    *)
(* the write is noted.  Deregistering a device wipes its tables.            *)

\* What a worker step may do to the tables.
LEMMA WorkerWrites ==
  ASSUME TypeOK, NEW w \in Workers, WorkerStep(w)
  PROVE  \/ UNCHANGED <<table, prev, stats, tainted, shown>>
         \/ /\ tainted' = [tainted EXCEPT ![dev[w]] = @ \/ stopped[w]]
            /\ \A d \in Devices \ {dev[w]} :
                  /\ table'[d] = table[d] /\ prev'[d] = prev[d]
                  /\ stats'[d] = stats[d] /\ shown'[d] = shown[d]
<1>. DEFINE Write ==
       /\ tainted' = [tainted EXCEPT ![dev[w]] = @ \/ stopped[w]]
       /\ \A d \in Devices \ {dev[w]} :
             /\ table'[d] = table[d] /\ prev'[d] = prev[d]
             /\ stats'[d] = stats[d] /\ shown'[d] = shown[d]
<1>1. \A online, err, then : SetStatus(w, online, err, then) => Write
  BY DEF SetStatus, Changed, Taint, TypeOK
<1>2. CASE GetDevicePassword(w) \/ ListMonitoredInterfaces(w) \/ Connect(w)
           \/ FetchFails(w) \/ StoreSample(w)
  <2>1. Write \/ UNCHANGED <<table, prev, stats, tainted, shown>>
    BY <1>1, <1>2 DEF GetDevicePassword, ListMonitoredInterfaces, Connect, FetchFails,
       StoreSample, tableVars, history
  <2>. QED
    BY <2>1
<1>3. CASE BroadcastStatus(w) \/ FetchCountersOn(w) \/ GetSystemResourceOn(w)
  BY <1>3 DEF BroadcastStatus, FetchCountersOn, GetSystemResourceOn, Taint, TypeOK, tableVars
<1>4. CASE PollTick(w) \/ StopCheck(w) \/ GetDevice(w) \/ GetDeviceFails(w)
           \/ SleepOrStop(w) \/ PollStop(w)
  BY <1>4 DEF PollTick, StopCheck, GetDevice, GetDeviceFails, SleepOrStop, PollStop,
     Return, tableVars, history
<1>. QED
  BY <1>2, <1>3, <1>4 DEF WorkerStep

LEMMA NoGhostStep ==
  TypeOK /\ RegistryInv /\ NoGhost /\ [Next]_vars => NoGhost'
<1>. SUFFICES ASSUME TypeOK, RegistryInv, NoGhost, [Next]_vars
              PROVE  NoGhost'
  OBVIOUS
<1>1. ASSUME UNCHANGED <<workers, table, prev, stats, tainted>>
      PROVE  NoGhost'
  BY <1>1 DEF NoGhost
<1>2. CASE SyncTick \/ UNCHANGED vars
  BY <1>1, <1>2 DEF SyncTick, vars, tableVars, history
<1>3. ASSUME NEW D \in SUBSET Devices, StopAndWipe(D)
      PROVE  NoGhost'
  BY <1>3 DEF StopAndWipe, CloseStops, Deregister, Wipe, NoGhost
<1>4. ASSUME NEW s \in Syncers, SyncStep(s)
      PROVE  NoGhost'
  <2>1. CASE SyncList(s) \/ SyncListFails(s)
    BY <1>1, <2>1 DEF SyncList, SyncListFails, tableVars, history
  <2>2. CASE SyncStart(s)
    BY <2>2, PollerAssumption DEF SyncStart, NoGhost, Free, TypeOK
  <2>3. CASE SyncPrune(s)
    BY <1>3, <2>3 DEF SyncPrune
  <2>4. CASE ReloadDevice(s)
    <3>1. {sdev[s]} \in SUBSET Devices
      BY <2>4 DEF ReloadDevice, TypeOK
    <3>. QED
      BY <1>3, <2>4, <3>1 DEF ReloadDevice
  <2>. QED
    BY <1>4, <2>1, <2>2, <2>3, <2>4 DEF SyncStep
<1>5. ASSUME NEW h \in Handlers, NEW d \in Devices, HandlerStep(h, d)
      PROVE  NoGhost'
  <2>1. \E next \in {"idle", "reload"} : Request(h, d, next)
    BY <1>5 DEF HandlerStep, CreateDevice, CopyDevice, UpdateDevice, UpdateDeviceFails,
       SetInterfaces, DeleteDevice, RebootDevice
  <2>. QED
    BY <1>1, <2>1 DEF Request, tableVars, history
<1>6. ASSUME NEW w \in Workers, WorkerStep(w)
      PROVE  NoGhost'
  <2>1. workers' = workers /\ Running(w)
    BY <1>6, WorkerFrame
  <2>2. stopped[w] \/ workers[dev[w]] = w
    BY <2>1 DEF RegistryInv, NoOrphan
  <2>3. dev[w] \in Devices /\ w # NoWorker
    BY <2>1, PollerAssumption DEF TypeOK
  <2>. QED
    BY <1>6, <2>1, <2>2, <2>3, WorkerWrites DEF NoGhost, TypeOK
<1>. QED
  BY <1>2, <1>4, <1>5, <1>6 DEF Next

\* A device without a worker has nothing in the tables, but for what workers
\* wrote there after they had been stopped.
THEOREM TablesWiped == Spec => []NoGhost
<1>1. Init => NoGhost
  BY DEF Init, NoGhost
<1>2. TypeOK /\ RegistryInv /\ [Next]_vars => RegistryInv'
  BY RegistryStep
<1>. QED
  BY <1>1, <1>2, InitRegistry, NoGhostStep, TypeCorrect, PTL DEF Spec

-----------------------------------------------------------------------------
(* What the clients were told.  A report that changes the table is          *)
(* broadcast before the next one; a worker that has not reported yet finds  *)
(* the table as it was wiped (NoGhost), so that its first report changes it. *)

\* A worker's step touches the local state of no other worker.
LEMMA WorkerLocal ==
  ASSUME TypeOK, NEW w \in Workers, WorkerStep(w), NEW v \in Workers \ {w}
  PROVE  /\ UNCHANGED <<row, syncVars>>
         /\ faults' = faults \/ faults' = faults + 1
         /\ pc'[v] = pc[v] /\ dev'[v] = dev[v] /\ host'[v] = host[v]
         /\ base'[v] = base[v] /\ call'[v] = call[v] /\ reported'[v] = reported[v]
<1>1. \A online, err, then : SetStatus(w, online, err, then) =>
         pc'[v] = pc[v] /\ call'[v] = call[v] /\ reported'[v] = reported[v]
  BY ZenonT(60) DEF SetStatus, Changed, Goto, TypeOK
<1>2. \A to : Goto(w, to) => pc'[v] = pc[v]
  BY DEF Goto, TypeOK
<1>3. Return(w) => /\ pc'[v] = pc[v] /\ dev'[v] = dev[v] /\ host'[v] = host[v]
                   /\ base'[v] = base[v] /\ call'[v] = call[v] /\ reported'[v] = reported[v]
  BY DEF Return, Goto, TypeOK
<1>4. CASE GetDevicePassword(w) \/ ListMonitoredInterfaces(w) \/ Connect(w)
           \/ FetchFails(w) \/ StoreSample(w)
  <2>1. pc'[v] = pc[v] /\ call'[v] = call[v] /\ reported'[v] = reported[v]
    BY <1>1, <1>2, <1>4 DEF GetDevicePassword, ListMonitoredInterfaces, Connect, FetchFails,
       StoreSample, history
  <2>2. /\ dev'[v] = dev[v] /\ host'[v] = host[v] /\ base'[v] = base[v]
        /\ UNCHANGED <<row, faults, syncVars>>
    BY <1>4 DEF GetDevicePassword, ListMonitoredInterfaces, Connect, FetchFails, StoreSample,
       dbVars, TypeOK
  <2>. QED
    BY <2>1, <2>2
<1>5. CASE BroadcastStatus(w) \/ FetchCountersOn(w) \/ GetSystemResourceOn(w) \/ PollTick(w)
  BY <1>2, <1>5 DEF BroadcastStatus, FetchCountersOn, GetSystemResourceOn, PollTick, dbVars,
     tableVars, localVars, history, TypeOK
<1>6. CASE StopCheck(w) \/ GetDevice(w) \/ GetDeviceFails(w) \/ SleepOrStop(w) \/ PollStop(w)
  BY <1>2, <1>3, <1>6 DEF StopCheck, GetDevice, GetDeviceFails, SleepOrStop, PollStop, dbVars,
     localVars, history, TypeOK
<1>. QED
  BY <1>4, <1>5, <1>6 DEF WorkerStep

\* Where a worker goes on after a report.
AfterReport == {"top", "sleep", "fetch", "resource", "loop"}

FeedOK(d, w) ==
    /\ reported[w] /\ pc[w] # "broadcast" => shown[d] = table[d]
    /\ pc[w] = "broadcast" => /\ call[w].status = table[d]
                              /\ call[w].then \in AfterReport
    /\ Running(w) /\ ~reported[w] /\ pc[w] # "broadcast" => table[d] = Blank
FeedInv == \A d \in Devices : workers[d] # NoWorker /\ ~tainted[d] => FeedOK(d, workers[d])

\* A report by the live worker of a device.
LEMMA ReportOK ==
  ASSUME TypeOK, NEW w \in Workers, Running(w), NEW d \in Devices, d = dev[w],
         FeedOK(d, w), pc[w] # "broadcast",
         NEW online \in BOOLEAN, NEW err \in Errors, online \/ err # "",
         NEW then \in AfterReport, SetStatus(w, online, err, then)
  PROVE  FeedOK(d, w)'
<1>0. table[d] \in Status /\ shown' = shown /\ reported[w] \in BOOLEAN
  BY DEF TypeOK, SetStatus
<1>1. table' = [table EXCEPT ![d] = [online |-> online, err |-> err]]
  BY DEF SetStatus
<1>4. table'[d] = [online |-> online, err |-> err]
  BY <1>1 DEF TypeOK
<1>2. CASE Changed(d, online, err)
  <2>1. PICK st : st = [online |-> online, err |-> err]
    OBVIOUS
  <2>2. /\ pc' = [pc EXCEPT ![w] = "broadcast"]
        /\ call' = [call EXCEPT ![w] = [status |-> st, then |-> then]]
    BY <1>2, <2>1 DEF SetStatus, Goto
  <2>4. pc'[w] = "broadcast" /\ call'[w] = [status |-> st, then |-> then]
    BY <2>2 DEF TypeOK
  <2>5. table'[d] = st
    BY <1>4, <2>1
  <2>6. /\ [status |-> st, then |-> then].status = st
        /\ [status |-> st, then |-> then].then = then
    OBVIOUS
  <2>3. call'[w].status = table'[d] /\ call'[w].then = then
    BY <2>4, <2>5, <2>6, Zenon
  <2>. QED
    BY <2>3, <2>4 DEF FeedOK, AfterReport
<1>3. CASE ~Changed(d, online, err)
  <2>1. table[d].online = online /\ table[d].err = err
    BY <1>3 DEF Changed
  <2>5. table[d] = [online |-> online, err |-> err]
    BY <1>0, <2>1 DEF Status
  <2>2. table[d] # Blank
    <3>1. Blank.online = FALSE /\ Blank.err = ""
      BY DEF Blank
    <3>2. CASE online = TRUE
      BY <2>1, <3>1, <3>2
    <3>3. CASE err # ""
      BY <2>1, <3>1, <3>3
    <3>. QED
      BY <3>2, <3>3
  <2>3. reported[w] /\ shown[d] = table[d]
    BY <1>0, <2>2 DEF FeedOK
  <2>6. pc' = [pc EXCEPT ![w] = then] /\ reported' = [reported EXCEPT ![w] = TRUE]
    BY <1>0, <1>3, <2>3 DEF SetStatus, Goto
  <2>4. pc'[w] = then /\ reported'[w] /\ table'[d] = table[d] /\ shown'[d] = shown[d]
    BY <1>0, <1>4, <2>5, <2>6 DEF TypeOK
  <2>. QED
    BY <2>3, <2>4 DEF FeedOK, AfterReport
<1>. QED
  BY <1>2, <1>3

\* The other steps of a live worker.
LEMMA LiveFeed ==
  ASSUME TypeOK, NEW w \in Workers, WorkerStep(w), NEW d \in Devices, d = dev[w],
         FeedOK(d, w)
  PROVE  FeedOK(d, w)'
<1>0. Running(w)
  BY WorkerFrame
<1>1. ASSUME Return(w)
      PROVE  FeedOK(d, w)'
  <2>. ~Running(w)' /\ ~reported'[w] /\ pc'[w] # "broadcast"
    BY <1>1 DEF Return, Goto, Running, TypeOK
  <2>. QED
    BY DEF FeedOK
<1>2. ASSUME NEW to \in WorkerPCs \ {"exited", "broadcast"}, Goto(w, to), pc[w] # "broadcast",
             UNCHANGED <<table, shown, reported, call>>
      PROVE  FeedOK(d, w)'
  <2>. pc'[w] = to
    BY <1>2 DEF Goto, TypeOK
  <2>. QED
    BY <1>0, <1>2 DEF FeedOK, Running
<1>3. ASSUME NEW online \in BOOLEAN, NEW err \in Errors, online \/ err # "",
             NEW then \in AfterReport, SetStatus(w, online, err, then),
             pc[w] # "broadcast"
      PROVE  FeedOK(d, w)'
  BY <1>0, <1>3, ReportOK
<1>4. CASE StopCheck(w)
  BY <1>1, <1>2, <1>4 DEF StopCheck, WorkerPCs, tableVars, localVars, history
<1>5. CASE GetDevice(w) \/ GetDeviceFails(w)
  BY <1>1, <1>2, <1>5 DEF GetDevice, GetDeviceFails, WorkerPCs, tableVars, history
<1>6. CASE GetDevicePassword(w)
  BY <1>2, <1>3, <1>6 DEF GetDevicePassword, WorkerPCs, AfterReport, Errors, tableVars, history
<1>7. CASE ListMonitoredInterfaces(w)
  BY <1>2, <1>3, <1>7 DEF ListMonitoredInterfaces, WorkerPCs, AfterReport, Errors, tableVars, history
<1>8. CASE Connect(w)
  BY <1>3, <1>8 DEF Connect, AfterReport, Errors
<1>9. CASE BroadcastStatus(w)
  <2>1. /\ shown' = [shown EXCEPT ![d] = call[w].status]
        /\ call[w].status = table[d] /\ table' = table
        /\ reported' = [reported EXCEPT ![w] = TRUE]
        /\ pc' = [pc EXCEPT ![w] = call[w].then]
        /\ call[w].then \in AfterReport
    BY <1>9 DEF BroadcastStatus, FeedOK, Goto, tableVars
  <2>2. /\ shown'[d] = table'[d] /\ reported'[w]
        /\ pc'[w] # "broadcast"
    BY <2>1 DEF TypeOK, AfterReport
  <2>. QED
    BY <2>2 DEF FeedOK
<1>10. CASE SleepOrStop(w)
  BY <1>1, <1>2, <1>10 DEF SleepOrStop, WorkerPCs, tableVars, localVars, history
<1>11. CASE FetchCountersOn(w)
  BY <1>2, <1>11 DEF FetchCountersOn, WorkerPCs
<1>12. CASE FetchFails(w)
  BY <1>3, <1>12 DEF FetchFails, AfterReport, Errors
<1>13. CASE StoreSample(w)
  BY <1>3, <1>13 DEF StoreSample, AfterReport, Errors
<1>14. CASE GetSystemResourceOn(w) \/ PollTick(w)
  BY <1>2, <1>14 DEF GetSystemResourceOn, PollTick, WorkerPCs, tableVars, localVars, history
<1>15. CASE PollStop(w)
  BY <1>1, <1>15 DEF PollStop, tableVars
<1>. QED
  BY <1>4, <1>5, <1>6, <1>7, <1>8, <1>9, <1>10, <1>11, <1>12, <1>13, <1>14, <1>15 DEF WorkerStep

LEMMA FeedStep ==
  TypeOK /\ RegistryInv /\ NoGhost /\ FeedInv /\ [Next]_vars => FeedInv'
<1>. SUFFICES ASSUME TypeOK, RegistryInv, NoGhost, FeedInv, [Next]_vars
              PROVE  FeedInv'
  OBVIOUS
<1>1. ASSUME UNCHANGED <<workers, table, tainted, pc, call, reported, shown>>
      PROVE  FeedInv'
  BY <1>1 DEF FeedInv, FeedOK, Running
<1>2. CASE SyncTick \/ UNCHANGED vars
  BY <1>1, <1>2 DEF SyncTick, vars, tableVars, workerVars, localVars, history
<1>3. ASSUME NEW D \in SUBSET Devices, StopAndWipe(D)
      PROVE  FeedInv'
  BY <1>3 DEF StopAndWipe, CloseStops, Deregister, Wipe, FeedInv, FeedOK, Running, localVars
<1>4. ASSUME NEW s \in Syncers, SyncStart(s)
      PROVE  FeedInv'
  <2>1. PICK d \in todo[s] : SyncStart(s)!(d)
    BY <1>4 DEF SyncStart
  <2>2. d \in Devices
    BY <2>1 DEF TypeOK
  <2>3. CASE workers[d] # NoWorker
    BY <1>1, <2>1, <2>3 DEF workerVars, localVars
  <2>4. CASE workers[d] = NoWorker
    <3>1. PICK w \in Free :
            /\ workers' = [workers EXCEPT ![d] = w]
            /\ pc' = [pc EXCEPT ![w] = "top"]
            /\ reported' = [reported EXCEPT ![w] = FALSE]
            /\ UNCHANGED localVars
      BY <2>1, <2>4
    <3>2. w \in Workers /\ \A e \in Devices : workers[e] # w
      BY DEF Free, Registered
    <3>3. UNCHANGED <<table, tainted, shown, call>>
      BY <2>1, <3>1 DEF localVars
    <3>4. ~tainted[d] => FeedOK(d, w)'
      <4>1. pc'[w] = "top" /\ ~reported'[w]
        BY <3>1, <3>2 DEF TypeOK
      <4>2. ~tainted[d] => table[d] = Blank
        BY <2>2, <2>4 DEF NoGhost
      <4>. QED
        BY <3>3, <4>1, <4>2 DEF FeedOK
    <3>5. ASSUME NEW e \in Devices \ {d}, workers[e] # NoWorker, ~tainted[e]
          PROVE  FeedOK(e, workers[e])'
      <4>1. workers'[e] = workers[e] /\ workers[e] \in Workers \ {w}
        BY <2>2, <3>1, <3>2, <3>5 DEF TypeOK
      <4>2. pc'[workers[e]] = pc[workers[e]] /\ reported'[workers[e]] = reported[workers[e]]
        BY <3>1, <3>2, <4>1 DEF TypeOK
      <4>. QED
        BY <3>3, <3>5, <4>1, <4>2 DEF FeedInv, FeedOK, Running
    <3>6. workers'[d] = w
      BY <2>2, <3>1 DEF TypeOK
    <3>. QED
      BY <3>1, <3>3, <3>4, <3>5, <3>6 DEF FeedInv, TypeOK
  <2>. QED
    BY <2>3, <2>4
<1>5. ASSUME NEW s \in Syncers, SyncStep(s)
      PROVE  FeedInv'
  <2>1. CASE SyncList(s) \/ SyncListFails(s)
    BY <1>1, <2>1 DEF SyncList, SyncListFails, tableVars, workerVars, localVars, history
  <2>2. CASE SyncPrune(s)
    BY <1>3, <2>2 DEF SyncPrune
  <2>3. CASE ReloadDevice(s)
    <3>1. {sdev[s]} \in SUBSET Devices
      BY <2>3 DEF ReloadDevice, TypeOK
    <3>. QED
      BY <1>3, <2>3, <3>1 DEF ReloadDevice
  <2>. QED
    BY <1>4, <1>5, <2>1, <2>2, <2>3 DEF SyncStep
<1>6. ASSUME NEW h \in Handlers, NEW d \in Devices, HandlerStep(h, d)
      PROVE  FeedInv'
  <2>1. \E next \in {"idle", "reload"} : Request(h, d, next)
    BY <1>6 DEF HandlerStep, CreateDevice, CopyDevice, UpdateDevice, UpdateDeviceFails,
       SetInterfaces, DeleteDevice, RebootDevice
  <2>. QED
    BY <1>1, <2>1 DEF Request, tableVars, workerVars, localVars, history
<1>7. ASSUME NEW w \in Workers, WorkerStep(w)
      PROVE  FeedInv'
  <2>1. workers' = workers /\ Running(w)
    BY <1>7, WorkerFrame
  <2>2. stopped[w] \/ workers[dev[w]] = w
    BY <2>1 DEF RegistryInv, NoOrphan
  <2>3. dev[w] \in Devices
    BY <2>1 DEF TypeOK
  <2>. SUFFICES ASSUME NEW d \in Devices, workers[d] # NoWorker, ~tainted'[d]
                PROVE  FeedOK(d, workers[d])'
    BY <2>1 DEF FeedInv
  <2>4. ~tainted[d] /\ workers[d] \in Workers
    BY <1>7, <2>3, WorkerWrites DEF TypeOK
  <2>5. FeedOK(d, workers[d])
    BY <2>4 DEF FeedInv
  <2>6. CASE workers[d] = w
    <3>1. d = dev[w]
      BY <2>1, <2>6 DEF RegistryInv, EntryOK
    <3>. QED
      BY <1>7, <2>1, <2>5, <2>6, <3>1, LiveFeed
  <2>7. CASE workers[d] # w
    <3>1. table'[d] = table[d] /\ shown'[d] = shown[d]
      BY <1>7, <2>2, <2>3, <2>7, WorkerWrites DEF TypeOK
    <3>2. PICK v \in Workers \ {w} : v = workers[d]
      BY <2>4, <2>7
    <3>3. pc'[v] = pc[v] /\ call'[v] = call[v] /\ reported'[v] = reported[v]
      BY <1>7, WorkerLocal
    <3>. QED
      BY <2>1, <2>5, <3>1, <3>2, <3>3 DEF FeedOK, Running
  <2>. QED
    BY <2>6, <2>7
<1>. QED
  BY <1>2, <1>5, <1>6, <1>7 DEF Next

\* The clients have been told what the table says of a device, once its
\* worker has completed a report and is not in the middle of another.
THEOREM ClientsAreTold == Spec => []FeedAgrees
<1>1. Init => FeedInv
  BY DEF Init, FeedInv
<1>2. FeedInv => FeedAgrees
  BY DEF FeedInv, FeedOK, FeedAgrees
<1>3. TypeOK /\ RegistryInv /\ [Next]_vars => RegistryInv'
  BY RegistryStep
<1>. QED
  BY <1>1, <1>2, <1>3, InitRegistry, FeedStep, TablesWiped, TypeCorrect, PTL DEF Spec

-----------------------------------------------------------------------------
(* Whose counters a rate is taken from.  While no database read has failed,  *)
(* a device whose row was edited has a reload pending.  When none is and no  *)
(* stopped worker wrote to its tables, the device is settled: the baseline   *)
(* and its live worker are both of the host in its row.  A row's host may    *)
(* also be set by createDevice, without a reload: nothing polls the device   *)
(* or holds a baseline of it before (Unborn).                                *)

Settled(d) == ~tainted[d] /\ \A s \in Syncers : sdev[s] # d

ReloadPending == \A s \in Syncers : spc[s] # "reload" => sdev[s] = NoDevice

UnbornOK(d) ==
    row[d].life = "none" =>
        /\ prev[d] = NoHost
        /\ \A w \in Workers : Running(w) => dev[w] # d
        /\ \A s \in Syncers : d \notin todo[s]
Unborn == \A d \in Devices : UnbornOK(d)

BaselineOK(d) == Settled(d) => prev[d] \in {NoHost, row[d].host}
ConnectedOK(w) ==
    Running(w) /\ ~stopped[w] /\ Settled(dev[w]) =>
        /\ pc[w] \notin {"top", "load"} => host[w] = row[dev[w]].host
        /\ pc[w] = "store" => base[w] \in {NoHost, host[w]}
SameHost == faults = 0 => /\ \A d \in Devices : BaselineOK(d)
                          /\ \A w \in Workers : ConnectedOK(w)

HostInv == ReloadPending /\ Unborn /\ SameHost

LEMMA InitHosts == Init => HostInv
  BY DEF Init, HostInv, ReloadPending, Unborn, UnbornOK, SameHost, BaselineOK, ConnectedOK,
     Running

\* What a worker's step does to its own host and baseline.
LEMMA WorkerHosts ==
  ASSUME TypeOK, NEW w \in Workers, WorkerStep(w),
         pc[w] = "broadcast" => call[w].then \in AfterReport
  PROVE  /\ \/ prev' = prev
            \/ pc[w] = "fetch" /\ prev' = [prev EXCEPT ![dev[w]] = host[w]]
         /\ pc'[w] \notin {"exited", "top", "load"} =>
               \/ host'[w] = host[w] /\ pc[w] \notin {"top", "load"}
               \/ host'[w] = row[dev[w]].host
         /\ pc'[w] = "store" =>
               pc[w] = "fetch" /\ host'[w] = host[w] /\ base'[w] = prev[dev[w]]
<1>0. w \in Workers /\ Running(w)
  BY WorkerFrame
<1>1. \A to : Goto(w, to) => pc'[w] = to
  BY DEF Goto, TypeOK
<1>2. Return(w) => pc'[w] = "exited"
  BY DEF Return, Goto, TypeOK
<1>3. \A online, err, then : SetStatus(w, online, err, then) =>
         pc'[w] \in {then, "broadcast"} /\ prev' = prev
  BY <1>1 DEF SetStatus, Changed
<1>4. CASE StopCheck(w) \/ SleepOrStop(w) \/ GetDeviceFails(w) \/ PollStop(w)
  BY <1>1, <1>2, <1>4 DEF StopCheck, SleepOrStop, GetDeviceFails, PollStop, tableVars
<1>5. CASE GetDevice(w)
  <2>1. prev' = prev
    BY <1>5 DEF GetDevice, tableVars
  <2>2. CASE Enabled(dev[w])
    <3>1. pc'[w] = "secret" /\ host'[w] = row[dev[w]].host
      BY <1>1, <1>5, <2>2 DEF GetDevice, TypeOK
    <3>. QED
      BY <2>1, <3>1
  <2>3. CASE ~Enabled(dev[w])
    BY <1>2, <1>5, <2>1, <2>3 DEF GetDevice
  <2>. QED
    BY <2>2, <2>3
<1>6. CASE GetDevicePassword(w) \/ ListMonitoredInterfaces(w)
  <2>1. /\ host' = host /\ pc[w] \notin {"top", "load"}
        /\ \/ prev' = prev /\ (Goto(w, "ifaces") \/ Goto(w, "dial"))
           \/ SetStatus(w, FALSE, "setup", "sleep")
    BY <1>6 DEF GetDevicePassword, ListMonitoredInterfaces, tableVars
  <2>2. prev' = prev /\ pc'[w] \in {"ifaces", "dial", "sleep", "broadcast"}
    <3>1. CASE SetStatus(w, FALSE, "setup", "sleep")
      BY <1>3, <3>1
    <3>. QED
      BY <1>1, <2>1, <3>1
  <2>. QED
    BY <2>1, <2>2
<1>7. CASE Connect(w) \/ FetchFails(w) \/ StoreSample(w)
  <2>1. /\ prev' = prev /\ host' = host
        /\ pc[w] \notin {"top", "load"}
        /\ pc'[w] \in {"fetch", "sleep", "loop", "top", "resource", "broadcast"}
    BY <1>3, <1>7 DEF Connect, FetchFails, StoreSample
  <2>. QED
    BY <2>1
<1>8. CASE BroadcastStatus(w)
  BY <1>1, <1>8 DEF BroadcastStatus, AfterReport, tableVars
<1>9. CASE FetchCountersOn(w)
  <2>1. pc'[w] = "store" /\ base'[w] = prev[dev[w]] /\ host' = host /\ pc[w] = "fetch"
        /\ prev' = [prev EXCEPT ![dev[w]] = host[w]]
    BY <1>1, <1>9 DEF FetchCountersOn, TypeOK
  <2>. QED
    BY <2>1
<1>10. CASE GetSystemResourceOn(w) \/ PollTick(w)
  BY <1>1, <1>10 DEF GetSystemResourceOn, PollTick, tableVars, localVars
<1>. QED
  BY <1>4, <1>5, <1>6, <1>7, <1>8, <1>9, <1>10 DEF WorkerStep

LEMMA WorkerHostInv ==
  ASSUME TypeOK, RegistryInv, FeedInv, HostInv, NEW w \in Workers, WorkerStep(w)
  PROVE  HostInv'
<1>1. /\ workers' = workers /\ stopped' = stopped /\ Running(w)
      /\ \A v \in Workers : Running(v)' => Running(v) /\ dev'[v] = dev[v]
  BY WorkerFrame
<1>2. UNCHANGED <<row, syncVars>> /\ (faults' = faults \/ faults' = faults + 1)
  BY DEF WorkerStep, StopCheck, GetDevice, GetDeviceFails, GetDevicePassword, ListMonitoredInterfaces,
     Connect, BroadcastStatus, SleepOrStop, FetchCountersOn, FetchFails, StoreSample,
     GetSystemResourceOn, PollTick, PollStop, dbVars
<1>3. PICK d \in Devices : d = dev[w]
  BY <1>1 DEF TypeOK
<1>4. \A e \in Devices : /\ Settled(e)' => Settled(e)
                         /\ e # d => prev'[e] = prev[e]
                         /\ Settled(d)' => prev'[e] = prev[e] \/ ~stopped[w]
  BY <1>2, <1>3, WorkerWrites DEF Settled, syncVars, TypeOK
<1>5. ReloadPending'
  BY <1>2 DEF HostInv, ReloadPending, syncVars
<1>6. Unborn'
  <2>. SUFFICES ASSUME NEW e \in Devices, row'[e].life = "none"
                PROVE  UnbornOK(e)'
    BY DEF Unborn, UnbornOK
  <2>1. UnbornOK(e) /\ row[e].life = "none"
    BY <1>2 DEF HostInv, Unborn
  <2>2. e # d
    BY <1>1, <1>3, <2>1 DEF UnbornOK
  <2>. QED
    BY <1>1, <1>2, <1>4, <2>1, <2>2 DEF UnbornOK, syncVars
<1>7. SameHost'
  <2>. SUFFICES ASSUME faults' = 0
                PROVE  /\ \A e \in Devices : BaselineOK(e)'
                       /\ \A v \in Workers : ConnectedOK(v)'
    BY DEF SameHost
  <2>1. faults = 0
    BY <1>2 DEF TypeOK
  <2>2. /\ \A e \in Devices : BaselineOK(e)
        /\ \A v \in Workers : ConnectedOK(v)
    BY <2>1 DEF HostInv, SameHost
  <2>3. ASSUME Settled(d), ~stopped[w]
        PROVE  pc[w] = "broadcast" => call[w].then \in AfterReport
    <3>1. workers[d] = w /\ w # NoWorker /\ ~tainted[d]
      BY <1>1, <1>3, <2>3, PollerAssumption DEF RegistryInv, NoOrphan, Settled
    <3>2. FeedOK(d, w)
      BY <3>1 DEF FeedInv
    <3>. QED
      BY <3>2 DEF FeedOK
  <2>4. ASSUME Settled(d)', ~stopped[w]
        PROVE  /\ \/ prev' = prev
                  \/ pc[w] = "fetch" /\ prev' = [prev EXCEPT ![d] = host[w]]
               /\ pc'[w] \notin {"exited", "top", "load"} =>
                     \/ host'[w] = host[w] /\ pc[w] \notin {"top", "load"}
                     \/ host'[w] = row[d].host
               /\ pc'[w] = "store" =>
                     pc[w] = "fetch" /\ host'[w] = host[w] /\ base'[w] = prev[d]
    BY <1>3, <1>4, <2>3, <2>4, WorkerHosts
  <2>5. ASSUME NEW e \in Devices
        PROVE  BaselineOK(e)'
    <3>1. CASE ~Settled(e)'
      BY <3>1 DEF BaselineOK
    <3>2. CASE Settled(e)' /\ prev'[e] = prev[e]
      BY <1>2, <1>4, <2>2, <3>2 DEF BaselineOK
    <3>3. CASE Settled(e)' /\ prev'[e] # prev[e]
      <4>1. e = d /\ ~stopped[w] /\ Settled(d)
        BY <1>4, <3>3
      <4>2. pc[w] = "fetch" /\ prev'[d] = host[w]
        BY <2>4, <3>3, <4>1 DEF TypeOK
      <4>3. host[w] = row[d].host
        BY <1>1, <1>3, <2>2, <4>1, <4>2 DEF ConnectedOK
      <4>. QED
        BY <1>2, <4>1, <4>2, <4>3 DEF BaselineOK
    <3>. QED
      BY <3>1, <3>2, <3>3
  <2>6. ConnectedOK(w)'
    <3>. SUFFICES ASSUME Running(w)', ~stopped[w], Settled(d)'
                  PROVE  /\ pc'[w] \notin {"top", "load"} => host'[w] = row'[d].host
                         /\ pc'[w] = "store" => base'[w] \in {NoHost, host'[w]}
      BY <1>1, <1>3 DEF ConnectedOK
    <3>1. /\ pc[w] \notin {"top", "load"} => host[w] = row[d].host
          /\ prev[d] \in {NoHost, row[d].host}
      BY <1>1, <1>3, <1>4, <2>2 DEF ConnectedOK, BaselineOK
    <3>. QED
      BY <1>2, <2>4, <3>1 DEF Running
  <2>7. ASSUME NEW v \in Workers \ {w}
        PROVE  ConnectedOK(v)'
    <3>1. /\ pc'[v] = pc[v] /\ dev'[v] = dev[v] /\ host'[v] = host[v] /\ base'[v] = base[v]
      BY WorkerLocal
    <3>2. Running(v) => dev[v] \in Devices
      BY DEF TypeOK
    <3>3. ConnectedOK(v)
      BY <2>2
    <3>. QED
      BY <1>1, <1>2, <1>4, <3>1, <3>2, <3>3 DEF ConnectedOK, Running
  <2>. QED
    BY <2>5, <2>6, <2>7
<1>. QED
  BY <1>5, <1>6, <1>7 DEF HostInv

LEMMA StopAndWipeHostInv ==
  ASSUME TypeOK, RegistryInv, HostInv, NEW D \in SUBSET Devices, StopAndWipe(D),
         todo' = todo,
         \A s \in Syncers : \/ sdev'[s] = sdev[s] /\ (spc'[s] = spc[s] \/ spc[s] # "reload")
                            \/ sdev[s] \in D /\ sdev'[s] = NoDevice
  PROVE  HostInv'
<1>1. /\ UNCHANGED <<row, faults, pc, dev, host, base>>
      /\ \A d \in Devices : prev'[d] = IF d \in D THEN NoHost ELSE prev[d]
      /\ \A d \in Devices : tainted'[d] = (d \notin D /\ tainted[d])
      /\ \A w \in Workers : stopped'[w] <=> stopped[w] \/ \E d \in D : workers[d] = w
  BY DEF StopAndWipe, CloseStops, Deregister, Wipe, dbVars, localVars, TypeOK
<1>2. ASSUME NEW d \in Devices \ D, Settled(d)'
      PROVE  Settled(d)
  <2>1. ~tainted[d] /\ \A s \in Syncers : sdev'[s] # d
    BY <1>1, <1>2 DEF Settled
  <2>2. \A s \in Syncers : sdev[s] # d
    BY <2>1
  <2>. QED
    BY <2>1, <2>2 DEF Settled
<1>3. ASSUME NEW w \in Workers, Running(w), ~stopped'[w]
      PROVE  dev[w] \in Devices \ D /\ ~stopped[w]
  BY <1>1, <1>3 DEF RegistryInv, NoOrphan, TypeOK
<1>4. Unborn'
  BY <1>1 DEF HostInv, Unborn, UnbornOK, Running
<1>5. ReloadPending'
  BY DEF HostInv, ReloadPending
<1>6. SameHost'
  BY <1>1, <1>2, <1>3 DEF HostInv, SameHost, BaselineOK, ConnectedOK, Running
<1>. QED
  BY <1>4, <1>5, <1>6 DEF HostInv

LEMMA SyncHostInv ==
  ASSUME TypeOK, RegistryInv, HostInv, NEW s \in Syncers, SyncStep(s)
  PROVE  HostInv'
<1>1. CASE ReloadDevice(s)
  <2>1. {sdev[s]} \in SUBSET Devices
    BY <1>1 DEF ReloadDevice, TypeOK
  <2>. QED
    BY <1>1, <2>1, StopAndWipeHostInv DEF ReloadDevice, TypeOK
<1>2. CASE SyncPrune(s)
  <2>1. {d \in Devices \ active[s] : workers[d] # NoWorker} \in SUBSET Devices
    OBVIOUS
  <2>. QED
    BY <1>2, <2>1, StopAndWipeHostInv DEF SyncPrune, TypeOK
<1>3. CASE SyncList(s)
  <2>1. /\ UNCHANGED <<row, faults, prev, tainted, pc, dev, host, base, stopped, sdev>>
        /\ spc[s] = "list" /\ spc' = [spc EXCEPT ![s] = "start"]
        /\ todo' = [todo EXCEPT ![s] = {d \in Devices : Enabled(d)}]
    BY <1>3 DEF SyncList, dbVars, tableVars, workerVars, localVars, history
  <2>2. ReloadPending'
    BY <2>1 DEF HostInv, ReloadPending, TypeOK
  <2>3. Unborn'
    BY <2>1 DEF HostInv, Unborn, UnbornOK, Running, Enabled, TypeOK
  <2>4. SameHost'
    BY <2>1 DEF HostInv, SameHost, BaselineOK, ConnectedOK, Running, Settled
  <2>. QED
    BY <2>2, <2>3, <2>4 DEF HostInv
<1>4. CASE SyncListFails(s)
  <2>1. /\ UNCHANGED <<row, prev, pc, dev, todo, sdev>>
        /\ spc[s] = "list" /\ spc' = [spc EXCEPT ![s] = "idle"]
        /\ faults' = faults + 1
    BY <1>4 DEF SyncListFails, tableVars, workerVars
  <2>2. ReloadPending'
    BY <2>1 DEF HostInv, ReloadPending, TypeOK
  <2>3. Unborn'
    BY <2>1 DEF HostInv, Unborn, UnbornOK, Running
  <2>4. SameHost'
    BY <2>1 DEF SameHost, TypeOK
  <2>. QED
    BY <2>2, <2>3, <2>4 DEF HostInv
<1>5. CASE SyncStart(s)
  <2>1. PICK d \in todo[s] : SyncStart(s)!(d)
    BY <1>5 DEF SyncStart
  <2>2. d \in Devices /\ row[d].life # "none"
    BY <2>1 DEF TypeOK, HostInv, Unborn, UnbornOK
  <2>3. /\ UNCHANGED <<row, faults, prev, tainted, sdev, spc>>
        /\ todo' = [todo EXCEPT ![s] = @ \ {d}]
    BY <2>1 DEF dbVars
  <2>4. /\ UNCHANGED <<host, base>>
        /\ \/ UNCHANGED <<pc, dev, stopped>>
           \/ \E w \in Workers : /\ stopped' = [stopped EXCEPT ![w] = FALSE]
                                 /\ pc' = [pc EXCEPT ![w] = "top"]
                                 /\ dev' = [dev EXCEPT ![w] = d]
    BY <2>1 DEF workerVars, localVars, Free
  <2>5. ReloadPending'
    BY <2>3 DEF HostInv, ReloadPending
  <2>6. \A e \in Devices : row[e].life = "none" => \A w \in Workers : Running(w)' => dev'[w] # e
    BY <2>2, <2>4 DEF HostInv, Unborn, UnbornOK, Running, TypeOK
  <2>7. Unborn'
    BY <2>3, <2>6 DEF HostInv, Unborn, UnbornOK, TypeOK
  <2>8. SameHost'
    BY <2>3, <2>4 DEF HostInv, SameHost, BaselineOK, ConnectedOK, Running, Settled, TypeOK
  <2>. QED
    BY <2>5, <2>7, <2>8 DEF HostInv
<1>. QED
  BY <1>1, <1>2, <1>3, <1>4, <1>5 DEF SyncStep

LEMMA HandlerHostInv ==
  ASSUME TypeOK, HostInv, NEW h \in Handlers, NEW d \in Devices, HandlerStep(h, d)
  PROVE  HostInv'
<1>1. PICK next \in {"idle", "reload"} : Request(h, d, next)
  BY DEF HandlerStep, CreateDevice, CopyDevice, UpdateDevice,
     UpdateDeviceFails, SetInterfaces, DeleteDevice, RebootDevice
<1>2. h \in Syncers /\ d # NoDevice
  BY PollerAssumption DEF Syncers
<1>3. /\ UNCHANGED <<prev, tainted, pc, dev, host, base, stopped, todo>>
      /\ spc[h] = "idle" /\ spc' = [spc EXCEPT ![h] = next]
      /\ sdev' = [sdev EXCEPT ![h] = IF next = "reload" THEN d ELSE NoDevice]
  BY <1>1 DEF Request, tableVars, workerVars, localVars, history
<1>4. \A e \in Devices \ {d} : row'[e] = row[e]
  BY DEF HandlerStep, CreateDevice, CopyDevice, UpdateDevice,
     UpdateDeviceFails, SetInterfaces, DeleteDevice, RebootDevice, TypeOK
<1>5. row'[d].life = "none" => row'[d] = row[d]
  BY DEF HandlerStep, CreateDevice, CopyDevice, UpdateDevice,
     UpdateDeviceFails, SetInterfaces, DeleteDevice, RebootDevice, Exists, TypeOK, Rows
<1>6. \/ next = "reload" /\ faults' = faults
      \/ faults' = faults + 1
      \/ row[d].life = "none" /\ faults' = faults
  <2>1. CASE CreateDevice(h, d)
    BY <2>1 DEF CreateDevice
  <2>2. CASE UpdateDeviceFails(h, d)
    BY <2>2 DEF UpdateDeviceFails
  <2>3. CASE CopyDevice(h, d) \/ UpdateDevice(h, d) \/ SetInterfaces(h, d)
             \/ DeleteDevice(h, d) \/ RebootDevice(h, d)
    <3>1. Request(h, d, "reload") /\ faults' = faults
      BY <2>3 DEF CopyDevice, UpdateDevice, SetInterfaces, DeleteDevice, RebootDevice
    <3>2. spc'[h] = "reload"
      BY <1>2, <3>1 DEF Request, TypeOK
    <3>. QED
      BY <1>2, <1>3, <3>1, <3>2 DEF TypeOK
  <2>. QED
    BY <2>1, <2>2, <2>3 DEF HandlerStep
<1>7. ReloadPending'
  BY <1>2, <1>3 DEF HostInv, ReloadPending, TypeOK
<1>8. Unborn'
  BY <1>3, <1>4, <1>5 DEF HostInv, Unborn, UnbornOK, Running
<1>9. SameHost'
  <2>. SUFFICES ASSUME faults' = 0
                PROVE  /\ \A e \in Devices : BaselineOK(e)'
                       /\ \A v \in Workers : ConnectedOK(v)'
    BY DEF SameHost
  <2>1. /\ faults = 0
        /\ next = "reload" \/ row[d].life = "none"
    BY <1>6 DEF TypeOK
  <2>2. /\ \A e \in Devices : BaselineOK(e)
        /\ \A v \in Workers : ConnectedOK(v)
    BY <2>1 DEF HostInv, SameHost
  <2>3. sdev[h] = NoDevice
    BY <1>2, <1>3 DEF HostInv, ReloadPending
  <2>4. \A e \in Devices : Settled(e)' => Settled(e)
    BY <1>2, <1>3, <2>3, PollerAssumption DEF Settled, TypeOK
  <2>5. next = "reload" => ~Settled(d)'
    BY <1>2, <1>3 DEF Settled, TypeOK
  <2>6. row[d].life = "none" => prev[d] = NoHost /\ \A v \in Workers : Running(v) => dev[v] # d
    BY DEF HostInv, Unborn, UnbornOK
  <2>7. \A e \in Devices : BaselineOK(e)'
    BY <1>3, <1>4, <2>1, <2>2, <2>4, <2>5, <2>6 DEF BaselineOK
  <2>8. ASSUME NEW v \in Workers
        PROVE  ConnectedOK(v)'
    <3>1. Running(v) => dev[v] \in Devices
      BY DEF TypeOK
    <3>. QED
      BY <1>3, <1>4, <2>1, <2>2, <2>4, <2>5, <2>6, <3>1 DEF ConnectedOK, Running
  <2>. QED
    BY <2>7, <2>8
<1>. QED
  BY <1>7, <1>8, <1>9 DEF HostInv

LEMMA HostStep == TypeOK /\ RegistryInv /\ FeedInv /\ HostInv /\ [Next]_vars => HostInv'
<1>. SUFFICES ASSUME TypeOK, RegistryInv, FeedInv, HostInv, [Next]_vars
              PROVE  HostInv'
  OBVIOUS
<1>1. ASSUME UNCHANGED <<row, faults, prev, tainted, pc, dev, host, base, stopped, sdev, todo>>,
             UNCHANGED spc \/ (spc[Loop] = "idle" /\ spc' = [spc EXCEPT ![Loop] = "list"])
      PROVE  HostInv'
  <2>1. ReloadPending'
    BY <1>1 DEF HostInv, ReloadPending, TypeOK
  <2>2. Unborn' /\ SameHost'
    BY <1>1 DEF HostInv, Unborn, UnbornOK, SameHost, BaselineOK, ConnectedOK, Settled, Running
  <2>. QED
    BY <2>1, <2>2 DEF HostInv
<1>2. CASE SyncTick \/ UNCHANGED vars
  BY <1>1, <1>2 DEF SyncTick, vars, dbVars, tableVars, workerVars, localVars, syncVars, history
<1>. QED
  BY <1>2, SyncHostInv, HandlerHostInv, WorkerHostInv DEF Next

\* While no database read has failed, a live worker takes a rate between two
\* readings of one router, stopped workers and pending reloads aside.
THEOREM RatesOfOneHost == Spec => []RateSameHost
<1>1. Init => FeedInv
  BY DEF Init, FeedInv
<1>2. TypeOK /\ RegistryInv /\ [Next]_vars => RegistryInv'
  BY RegistryStep
<1>3. HostInv => RateSameHost
  BY DEF HostInv, SameHost, ConnectedOK, Settled, Running, RateSameHost
<1>. QED
  BY <1>1, <1>2, <1>3, InitRegistry, InitHosts, FeedStep, HostStep, TablesWiped, TypeCorrect,
     PTL DEF Spec
=============================================================================
