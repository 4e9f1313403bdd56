----------------------------- MODULE RebootSched -----------------------------
(***************************************************************************)
(* Scheduled reboots, internal/rebootsched: the pure function Due, the     *)
(* minute ticker, the sequential tick that marks, reboots and notifies,    *)
(* and the process that may stop at any moment and start again.            *)
(*                                                                         *)
(* Time is counted in ticks of the minute ticker.  A day has DayLen of     *)
(* them and a week has Week days.  reboot_last_run_at is stored in whole   *)
(* seconds and a slot lies on a whole minute, so the rounding never        *)
(* changes a comparison of the two, and is left out.                       *)
(*                                                                         *)
(* A tick tests Due only with what it read at its start, so we let it      *)
(* collect the due slots there; marking and rebooting come one by one.     *)
(***************************************************************************)
EXTENDS Integers, Sequences

CONSTANTS
    Devices, NoDevice,
    None,          \* no slot; the last run of a device that never had one
    DayLen, Week,  \* ticks in a day, days in a week
    Catchup,       \* DefaultCatchup
    Plans,         \* bound: the schedules [days, hhmm] that are tried
    Horizon,       \* bound: the last moment considered
    MaxBusy,       \* bound: ticks that pass within one step of the scheduler
    MaxEdits, MaxFaults, MaxCrashes, MaxJumps  \* bounds on these events

ASSUME SchedAssumption ==
    /\ NoDevice \notin Devices
    /\ None \notin Int
    /\ DayLen \in Nat \ {0} /\ Week \in Nat \ {0} /\ Catchup \in Nat \ {0}
    /\ Plans \subseteq [days : SUBSET (0 .. Week - 1), hhmm : 0 .. DayLen - 1]
    /\ Horizon \in Nat /\ Horizon >= DayLen
    /\ MaxBusy \in Nat /\ MaxEdits \in Nat /\ MaxFaults \in Nat
    /\ MaxCrashes \in Nat /\ MaxJumps \in Nat

-----------------------------------------------------------------------------
(* Due.                                                                    *)

Start == DayLen            \* there is a yesterday

Day(t) == t \div DayLen

\* The slot of plan p on t's day (off = 0) or on the day before (off = 1).
SlotOf(t, p, off) == (Day(t) - off) * DayLen + p.hhmm

\* One iteration of the loop over dayOffset.
Hit_again(t, p, last, off) ==
    /\ (Day(t) - off) % Week \in p.days
    /\ SlotOf(t, p, off) <= t
    /\ t < SlotOf(t, p, off) + Catchup
    /\ last = None \/ last <= SlotOf(t, p, off)
Hit_onTime(t, p, last, off) ==
    /\ (Day(t) - off) % Week \in p.days
    /\ SlotOf(t, p, off) = t
    /\ last = None \/ last < SlotOf(t, p, off)
Hit(t, p, last, off) ==
    /\ (Day(t) - off) % Week \in p.days
    /\ SlotOf(t, p, off) <= t
    /\ t < SlotOf(t, p, off) + Catchup
    /\ last = None \/ last < SlotOf(t, p, off)

Due_today(t, p, last) == IF Hit(t, p, last, 0) THEN SlotOf(t, p, 0) ELSE None
Due(t, p, last) ==
    IF Hit(t, p, last, 0) THEN SlotOf(t, p, 0)
    ELSE IF Hit(t, p, last, 1) THEN SlotOf(t, p, 1)
    ELSE None

-----------------------------------------------------------------------------
VARIABLES
    clock,         \* the wall clock
    row,           \* a device's row: its state and its plan
    last,          \* reboot_last_run_at
    up,            \* the process runs
    tick,          \* the ticker's channel holds a tick
    pc, now,       \* the scheduler goroutine, and the now of its tick
    due,           \* the slots of this tick still to be served
    cur,           \* the device being rebooted
    result,        \* what RebootDevice made of it
    busy, used,    \* bounds: ticks in this step, and events of each kind so far
    fired,         \* history: the slots a device was marked for, in order
    since,         \* history: since when app and row have been as they are
    sent           \* history, until it is notified: whether the command left, and
                   \*   the state of the row when it did

vars == <<clock, row, last, up, tick, pc, now, due, cur, result, busy, used,
          fired, since, sent>>

proc == <<tick, pc, now, due, cur, result>>

\* "off": the device or its schedule is disabled.
Rows == [life : {"on", "off", "gone"}, plan : Plans]
Results == {"", "success", "failure"}
Kinds == {"edit", "fault", "crash", "jump"}
NotSent == [left |-> FALSE, life |-> "gone"]
Nothing == [d \in Devices |-> None]

Init ==
    /\ clock = Start
    /\ row \in [Devices -> [life : {"on", "off"}, plan : Plans]]
    /\ last = Nothing
    /\ up = TRUE
    /\ tick = FALSE
    /\ pc = "idle" /\ now = 0 /\ due = Nothing /\ cur = NoDevice /\ result = ""
    /\ busy = 0
    /\ used = [k \in Kinds |-> 0]
    /\ fired = [d \in Devices |-> <<>>]
    /\ since = [d \in Devices |-> Start - 1]
    /\ sent = NotSent

Use(kind, max) == used[kind] < max /\ used' = [used EXCEPT ![kind] = @ + 1]

-----------------------------------------------------------------------------
(* The clock, the ticker and the process.                                  *)

AtRest == pc = "idle" /\ ~tick

\* A minute passes.  The ticker's channel holds one tick; others are dropped.
Advance ==
    /\ clock < Horizon
    /\ AtRest \/ busy < MaxBusy
    /\ clock' = clock + 1
    /\ busy' = IF AtRest THEN 0 ELSE busy + 1
    /\ tick' = up
    /\ UNCHANGED <<row, last, up, pc, now, due, cur, result, used, fired, since, sent>>

\* The wall clock is set; the ticker does not notice.
Jump(t) ==
    /\ Use("jump", MaxJumps)
    /\ clock' = t
    /\ UNCHANGED <<row, last, up, proc, busy, fired, since, sent>>

\* The process stops wherever it is; only the database stays.
Crash ==
    /\ up
    /\ Use("crash", MaxCrashes)
    /\ up' = FALSE
    /\ tick' = FALSE
    /\ pc' = "idle" /\ now' = 0 /\ due' = Nothing /\ cur' = NoDevice /\ result' = ""
    /\ sent' = NotSent
    /\ UNCHANGED <<clock, row, last, busy, fired, since>>

Restart ==
    /\ ~up
    /\ up' = TRUE
    /\ since' = [d \in Devices |-> clock]
    /\ UNCHANGED <<clock, row, last, proc, busy, used, fired, sent>>

\* updateDevice and deleteDevice; an enabled schedule has a day (validated).
Edit(d) == \E r \in Rows :
    /\ up
    /\ row[d].life # "gone"
    /\ r.life = "on" => r.plan.days # {}
    /\ row' = [row EXCEPT ![d] = r]
    /\ since' = [since EXCEPT ![d] = clock]
    /\ Use("edit", MaxEdits)
    /\ UNCHANGED <<clock, last, up, proc, busy, fired, sent>>

-----------------------------------------------------------------------------
(* tick.                                                                   *)

\* The devices whose schedule is looked at.
Scheduled_any(d) == row[d].life # "gone"
Scheduled(d) == row[d].life = "on"

Tick ==
    /\ up /\ pc = "idle" /\ tick
    /\ tick' = FALSE
    /\ now' = clock
    /\ due' = [d \in Devices |->
                 IF Scheduled(d) THEN Due(clock, row[d].plan, last[d]) ELSE None]
    /\ pc' = "scan"
    /\ busy' = 0
    /\ UNCHANGED <<clock, row, last, up, cur, result, used, fired, since, sent>>

\* ListDevices fails: nothing until the next tick.
TickFails ==
    /\ up /\ pc = "idle" /\ tick
    /\ tick' = FALSE
    /\ Use("fault", MaxFaults)
    /\ UNCHANGED <<clock, row, last, up, pc, now, due, cur, result, busy, fired, since, sent>>

\* MarkRebootLastRun, before the reboot.  A deleted row takes no mark.
Mark(d) ==
    /\ pc = "scan"
    /\ due[d] # None
    /\ last' = IF row[d].life = "gone" THEN last ELSE [last EXCEPT ![d] = now]
    /\ cur' = d
    /\ pc' = "reboot"
    /\ fired' = [fired EXCEPT ![d] = Append(@, due[d])]
    /\ UNCHANGED <<clock, row, up, tick, now, due, result, busy, used, since, sent>>

MarkFails(d) ==
    /\ pc = "scan"
    /\ due[d] # None
    /\ due' = [due EXCEPT ![d] = None]
    /\ Use("fault", MaxFaults)
    /\ UNCHANGED <<clock, row, last, up, tick, pc, now, cur, result, busy, fired, since, sent>>

\* RebootDevice.  left: the command was written to an open connection.  An
\* error that mentions "connection", "closed", "eof" or "broken" is a success,
\* and so is the error of a connection that was refused or timed out.
RebootDevice ==
    /\ pc = "reboot"
    /\ \E o \in IF row[cur].life = "gone"
                THEN {<<FALSE, "failure">>}
                ELSE {<<TRUE, "success">>, <<TRUE, "failure">>,
                      <<FALSE, "success">>, <<FALSE, "failure">>} :
         /\ result' = o[2]
         /\ sent' = [left |-> o[1], life |-> row[cur].life]
    /\ pc' = "notify"
    /\ UNCHANGED <<clock, row, last, up, tick, now, due, cur, busy, used, fired, since>>

\* Notify blocks until the message is out; then the next device.
Notify ==
    /\ pc = "notify"
    /\ due' = [due EXCEPT ![cur] = None]
    /\ cur' = NoDevice
    /\ result' = ""
    /\ pc' = "scan"
    /\ busy' = 0
    /\ sent' = NotSent
    /\ UNCHANGED <<clock, row, last, up, tick, now, used, fired, since>>

EndTick ==
    /\ pc = "scan"
    /\ due = Nothing
    /\ pc' = "idle"
    /\ now' = 0
    /\ UNCHANGED <<clock, row, last, up, tick, due, cur, result, busy, used, fired, since, sent>>

-----------------------------------------------------------------------------
Next ==
    \/ Advance \/ Crash \/ Restart \/ \E t \in Start .. Horizon : Jump(t)
    \/ \E d \in Devices : Edit(d) \/ Mark(d) \/ MarkFails(d)
    \/ Tick \/ TickFails \/ RebootDevice \/ Notify \/ EndTick

Spec == Init /\ [][Next]_vars

-----------------------------------------------------------------------------
(* Properties.                                                             *)

TypeOK ==
    /\ clock \in Start .. Horizon
    /\ row \in [Devices -> Rows]
    /\ last \in [Devices -> Int \cup {None}]
    /\ up \in BOOLEAN /\ tick \in BOOLEAN
    /\ pc \in {"idle", "scan", "reboot", "notify"}
    /\ now \in Int
    /\ due \in [Devices -> Int \cup {None}]
    /\ cur \in Devices \cup {NoDevice}
    /\ pc \in {"reboot", "notify"} => cur \in Devices /\ due[cur] # None
    /\ pc = "idle" => due = Nothing
    /\ result \in Results
    /\ busy \in 0 .. MaxBusy
    /\ used \in [Kinds -> Nat]
    /\ fired \in [Devices -> Seq(Int)]
    /\ since \in [Devices -> Start - 1 .. Horizon]

\* A device is rebooted at most once for a slot, and for its slots in the
\* order of time, whatever is edited, whenever the process stops, and however
\* the wall clock is set (the plan's "last_run_at >= slot blocks re-fire").
SlotsOnceInOrder ==
    \A d \in Devices : \A i, j \in 1 .. Len(fired[d]) :
        i < j => fired[d][i] < fired[d][j]

\* Why: the mark of a slot is not earlier than the slot.
MarkedPast ==
    \A d \in Devices : row[d].life # "gone" =>
        \A i \in 1 .. Len(fired[d]) : last[d] # None /\ fired[d][i] <= last[d]

\* The calendar of plan p: its slots on all days, computed without reference
\* to a moment.
Calendar(p) == {day * DayLen + p.hhmm : day \in {n \in 0 .. Day(Horizon) : n % Week \in p.days}}

\* Due looks at two days only, yet finds every slot of the calendar that is in
\* its window and not served, across midnight and the turn of the week.
DueIsCalendar ==
    \A p \in Plans : \A l \in {None} \cup (0 .. clock) :
        LET S == {s \in Calendar(p) : s <= clock /\ clock < s + Catchup /\ (l = None \/ l < s)}
        IN  IF S = {} THEN Due(clock, p, l) = None ELSE Due(clock, p, l) \in S

\* While the process runs, the clock goes and the row stays as it is, no slot
\* is left out, though a statement fails or reboots are slow: its window does
\* not close before it was marked or collected.
SlotServed ==
    used.jump = 0 => \A d \in Devices :
        up /\ row[d].life = "on" =>
            \A s \in Calendar(row[d].plan) :
                since[d] < s /\ s + Catchup <= clock =>
                    due[d] = s \/ \E i \in 1 .. Len(fired[d]) : fired[d][i] = s

\* Plan, "Device disabled | Scheduler skips": a device that is disabled when it
\* is sent the command was so only after the tick had begun.
DisabledSkipped ==
    used.jump = 0 /\ sent.left /\ sent.life = "off" => since[cur] >= now
=============================================================================
