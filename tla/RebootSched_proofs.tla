------------------------- MODULE RebootSched_proofs -------------------------
(* Proofs about RebootSched: a device is rebooted at most once for a slot,   *)
(* Due finds every slot of the calendar, a disabled device is skipped, and   *)
(* no slot is left out when the window is long enough.                       *)
EXTENDS RebootSched, FiniteSets, FiniteSetTheorems, TLAPS

-----------------------------------------------------------------------------
(* Due returns nothing, or a slot that began and was not served.           *)

LEMMA DueSound ==
  ASSUME NEW t \in Int, NEW p \in Plans, NEW l \in Int \cup {None}
  PROVE  \/ Due(t, p, l) = None
         \/ /\ Due(t, p, l) \in Int
            /\ Due(t, p, l) <= t
            /\ l = None \/ l < Due(t, p, l)
<1>1. p.hhmm \in Int /\ DayLen \in Int /\ DayLen > 0
  BY SchedAssumption
<1>2. Day(t) \in Int
  BY <1>1 DEF Day
<1>3. \A off \in {0, 1} : SlotOf(t, p, off) \in Int
  BY <1>1, <1>2 DEF SlotOf
<1>. QED
  BY <1>3 DEF Due, Hit

-----------------------------------------------------------------------------
(* The part of the type invariant that the argument needs.                 *)

Typed ==
    /\ clock \in Int /\ now \in Int
    /\ row \in [Devices -> Rows]
    /\ last \in [Devices -> Int \cup {None}]
    /\ due \in [Devices -> Int \cup {None}]
    /\ fired \in [Devices -> Seq(Int)]
    /\ pc \in {"idle", "scan", "reboot", "notify"}
    /\ pc \in {"reboot", "notify"} => cur \in Devices

\* A device whose slot of this tick is still to be marked.
Waiting(d) == due[d] # None /\ ~(pc \in {"reboot", "notify"} /\ cur = d)

\* A waiting slot is later than every slot the device was marked for, and not
\* later than the mark it is about to get.
WaitingIsNew ==
    \A d \in Devices : Waiting(d) =>
        due[d] <= now /\ \A i \in 1 .. Len(fired[d]) : fired[d][i] < due[d]

OnceInv == Typed /\ MarkedPast /\ WaitingIsNew /\ SlotsOnceInOrder

LEMMA Numbers == DayLen \in Int /\ Horizon \in Int /\ None \notin Int
  BY SchedAssumption

LEMMA InitOnce == Init => OnceInv
<1>. SUFFICES ASSUME Init
              PROVE  OnceInv
  OBVIOUS
<1>1. clock \in Int /\ now \in Int
  <2>1. clock = DayLen /\ now = 0
    BY DEF Init, Start
  <2>. QED
    BY <2>1, Numbers
<1>2. row \in [Devices -> Rows]
  BY DEF Init, Rows
<1>3. /\ fired \in [Devices -> Seq(Int)]
      /\ \A d \in Devices : Len(fired[d]) = 0
  <2>1. fired = [d \in Devices |-> <<>>]
    BY DEF Init
  <2>. QED
    BY <2>1
<1>4. due = Nothing /\ last = Nothing /\ pc = "idle"
  BY DEF Init
<1>5. Typed
  BY <1>1, <1>2, <1>3, <1>4 DEF Typed, Nothing
<1>6. WaitingIsNew
  BY <1>4 DEF WaitingIsNew, Waiting, Nothing
<1>7. MarkedPast /\ SlotsOnceInOrder
  BY <1>3 DEF MarkedPast, SlotsOnceInOrder
<1>. QED
  BY <1>5, <1>6, <1>7 DEF OnceInv

LEMMA TickOnce == OnceInv /\ Tick => OnceInv'
<1>. SUFFICES ASSUME OnceInv, Tick
              PROVE  OnceInv'
  OBVIOUS
<1>. USE DEF OnceInv
<1>1. ASSUME NEW d \in Devices
      PROVE  \/ due'[d] = None
             \/ /\ due'[d] \in Int /\ due'[d] <= now'
                /\ row[d].life # "gone"
                /\ last[d] = None \/ last[d] < due'[d]
  <2>1. CASE row[d].life = "on"
    <3>1. row[d].plan \in Plans /\ last[d] \in Int \cup {None} /\ clock \in Int
      BY DEF Typed, Rows
    <3>2. due'[d] = Due(clock, row[d].plan, last[d]) /\ now' = clock
      BY <2>1 DEF Tick, Scheduled
    <3>. QED
      BY <2>1, <3>1, <3>2, DueSound
  <2>2. CASE row[d].life # "on"
    BY <2>2 DEF Tick, Scheduled
  <2>. QED
    BY <2>1, <2>2
<1>2. Typed'
  BY <1>1 DEF Tick, Typed
<1>3. WaitingIsNew'
  <2>. SUFFICES ASSUME NEW d \in Devices, due'[d] # None, NEW i \in 1 .. Len(fired[d])
                PROVE  fired[d][i] < due'[d]
    BY <1>1 DEF WaitingIsNew, Waiting, Tick
  <2>1. last[d] # None /\ fired[d][i] <= last[d]
    BY <1>1 DEF MarkedPast
  <2>. QED
    BY <1>1, <2>1 DEF Typed
<1>4. MarkedPast' /\ SlotsOnceInOrder'
  BY DEF Tick, MarkedPast, SlotsOnceInOrder
<1>. QED
  BY <1>2, <1>3, <1>4

LEMMA MarkOnce == ASSUME OnceInv, NEW d \in Devices, Mark(d) PROVE OnceInv'
<1>. USE DEF OnceInv
<1>1. Waiting(d) /\ due[d] \in Int /\ fired[d] \in Seq(Int)
  BY DEF Mark, Waiting, Typed
<1>2. /\ Len(fired'[d]) = Len(fired[d]) + 1
      /\ fired'[d][Len(fired[d]) + 1] = due[d]
      /\ \A i \in 1 .. Len(fired[d]) : fired'[d][i] = fired[d][i]
      /\ \A e \in Devices \ {d} : fired'[e] = fired[e]
      /\ fired' \in [Devices -> Seq(Int)]
  BY <1>1 DEF Mark, Typed
<1>9. Len(fired'[d]) = Len(fired[d]) + 1 /\ Len(fired[d]) \in Nat
  BY <1>1, <1>2
<1>10. \A i \in 1 .. Len(fired'[d]) : i # Len(fired[d]) + 1 => i \in 1 .. Len(fired[d])
  BY <1>9
<1>11. \A i \in 1 .. Len(fired[d]) : fired[d][i] \in Int
  BY <1>1
<1>3. Typed'
  BY <1>2 DEF Mark, Typed
<1>4. \A i \in 1 .. Len(fired[d]) : fired[d][i] < due[d] /\ due[d] <= now
  BY <1>1 DEF WaitingIsNew
<1>5. due[d] <= now /\ Len(fired[d]) \in Nat
  BY <1>1 DEF WaitingIsNew
<1>6. SlotsOnceInOrder'
  <2>. SUFFICES ASSUME NEW e \in Devices, NEW i \in 1 .. Len(fired'[e]),
                       NEW j \in 1 .. Len(fired'[e]), i < j
                PROVE  fired'[e][i] < fired'[e][j]
    BY DEF SlotsOnceInOrder
  <2>1. CASE e # d
    BY <1>2, <2>1 DEF SlotsOnceInOrder
  <2>2. CASE e = d /\ j = Len(fired[d]) + 1
    <3>1. i \in 1 .. Len(fired[d])
      BY <1>9, <1>10, <2>2
    <3>. QED
      BY <1>2, <1>4, <2>2, <3>1
  <2>3. CASE e = d /\ j # Len(fired[d]) + 1
    <3>1. i \in 1 .. Len(fired[d]) /\ j \in 1 .. Len(fired[d])
      BY <1>9, <1>10, <2>3
    <3>. QED
      BY <1>2, <2>3, <3>1 DEF SlotsOnceInOrder
  <2>. QED
    BY <1>2, <1>5, <2>1, <2>2, <2>3
<1>7. MarkedPast'
  <2>. SUFFICES ASSUME NEW e \in Devices, row'[e].life # "gone",
                       NEW i \in 1 .. Len(fired'[e])
                PROVE  last'[e] # None /\ fired'[e][i] <= last'[e]
    BY DEF MarkedPast
  <2>1. CASE e # d
    BY <1>2, <2>1 DEF Mark, MarkedPast, Typed
  <2>2. CASE e = d
    <3>1. last'[d] = now /\ now \in Int /\ now # None
      BY <2>2, SchedAssumption DEF Mark, Typed
    <3>2. fired'[d][i] <= due[d]
      <4>1. CASE i = Len(fired[d]) + 1
        BY <1>1, <1>2, <4>1
      <4>2. CASE i # Len(fired[d]) + 1
        <5>1. i \in 1 .. Len(fired[d])
          BY <1>10, <2>2, <4>2
        <5>2. fired'[d][i] = fired[d][i] /\ fired[d][i] < due[d]
          BY <1>2, <1>4, <5>1
        <5>. QED
          BY <1>1, <1>11, <5>1, <5>2
      <4>. QED
        BY <4>1, <4>2
    <3>3. fired'[d][i] \in Int
      BY <1>2, <2>2
    <3>. QED
      BY <1>1, <1>5, <2>2, <3>1, <3>2, <3>3
  <2>. QED
    BY <2>1, <2>2
<1>8. WaitingIsNew'
  BY <1>2 DEF Mark, WaitingIsNew, Waiting
<1>. QED
  BY <1>3, <1>6, <1>7, <1>8

\* The other steps take slots away, or delete a row, or do not matter here.
LEMMA OtherOnce ==
  ASSUME OnceInv, UNCHANGED <<last, fired>>,
         \A d \in Devices : row[d].life = "gone" => row'[d].life = "gone",
         row' \in [Devices -> Rows], clock' \in Int, now' \in Int,
         pc' \in {"idle", "scan", "reboot", "notify"},
         pc' \in {"reboot", "notify"} => cur' \in Devices,
         due' \in [Devices -> Int \cup {None}],
         \A d \in Devices : Waiting(d)' => Waiting(d) /\ due'[d] = due[d] /\ now' = now
  PROVE  OnceInv'
<1>1. Typed'
  BY DEF OnceInv, Typed
<1>2. MarkedPast' /\ SlotsOnceInOrder'
  BY DEF OnceInv, MarkedPast, SlotsOnceInOrder
<1>3. WaitingIsNew'
  BY DEF OnceInv, WaitingIsNew
<1>. QED
  BY <1>1, <1>2, <1>3 DEF OnceInv

LEMMA NextOnce == OnceInv /\ [Next]_vars => OnceInv'
<1>. SUFFICES ASSUME OnceInv, [Next]_vars
              PROVE  OnceInv'
  OBVIOUS
<1>0. Typed
  BY DEF OnceInv
<1>. USE DEF proc
<1>1. CASE Advance
  BY <1>0, <1>1, OtherOnce DEF Advance, Typed, Waiting
<1>2. CASE \E t \in Start .. Horizon : Jump(t)
  BY <1>0, <1>2, OtherOnce, SchedAssumption DEF Jump, Typed, Waiting, Start
<1>3. CASE Crash
  <2>1. due' = Nothing /\ pc' = "idle" /\ now' = 0 /\ UNCHANGED <<clock, row, last, fired>>
    BY <1>3 DEF Crash
  <2>2. due' \in [Devices -> Int \cup {None}] /\ \A d \in Devices : due'[d] = None
    BY <2>1 DEF Nothing
  <2>3. \A d \in Devices : ~Waiting(d)'
    BY <2>2 DEF Waiting
  <2>. QED
    BY <1>0, <2>1, <2>2, <2>3, OtherOnce DEF Typed
<1>4. CASE Restart
  BY <1>0, <1>4, OtherOnce DEF Restart, Typed, Waiting
<1>5. CASE \E d \in Devices : Edit(d)
  <2>1. PICK d \in Devices, r \in Rows : /\ row[d].life # "gone"
                                        /\ row' = [row EXCEPT ![d] = r]
                                        /\ UNCHANGED <<clock, last, proc, fired>>
    BY <1>5 DEF Edit
  <2>. QED
    BY <1>0, <2>1, OtherOnce DEF Typed, Waiting
<1>6. CASE \E d \in Devices : Mark(d)
  BY <1>6, MarkOnce
<1>7. CASE \E d \in Devices : MarkFails(d)
  BY <1>0, <1>7, OtherOnce DEF MarkFails, Typed, Waiting
<1>8. CASE Tick
  BY <1>8, TickOnce
<1>9. CASE TickFails
  BY <1>0, <1>9, OtherOnce DEF TickFails, Typed, Waiting
<1>10. CASE RebootDevice
  BY <1>0, <1>10, OtherOnce DEF RebootDevice, Typed, Waiting
<1>11. CASE Notify
  BY <1>0, <1>11, OtherOnce DEF Notify, Typed, Waiting
<1>12. CASE EndTick
  BY <1>0, <1>12, OtherOnce DEF EndTick, Typed, Waiting, Nothing
<1>13. CASE UNCHANGED vars
  BY <1>0, <1>13, OtherOnce DEF vars, Typed, Waiting
<1>. QED
  BY <1>1, <1>2, <1>3, <1>4, <1>5, <1>6, <1>7, <1>8, <1>9, <1>10, <1>11, <1>12, <1>13
  DEF Next

\* A device is rebooted at most once for a slot, and for its slots in order,
\* for every calendar, catch-up window and number of devices, and with any
\* number of crashes, edits, failures and settings of the clock.
THEOREM RebootedOnce == Spec => []SlotsOnceInOrder
<1>1. OnceInv => SlotsOnceInOrder
  BY DEF OnceInv
<1>. QED
  BY <1>1, InitOnce, NextOnce, PTL DEF Spec

-----------------------------------------------------------------------------
(* Types.                                                                   *)

LEMMA DueType ==
  ASSUME NEW t \in Int, NEW p \in Plans, NEW l \in Int \cup {None}
  PROVE  Due(t, p, l) \in Int \cup {None}
BY DueSound

LEMMA InitType == Init => TypeOK
<1>. SUFFICES ASSUME Init
              PROVE  TypeOK
  OBVIOUS
<1>1. /\ Start \in Start .. Horizon
      /\ Start - 1 \in Start - 1 .. Horizon
      /\ 0 \in 0 .. MaxBusy
  BY SchedAssumption DEF Start
<1>2. clock \in Start .. Horizon /\ since \in [Devices -> Start - 1 .. Horizon]
  <2>1. clock = Start /\ since = [d \in Devices |-> Start - 1]
    BY DEF Init
  <2>. QED
    BY <1>1, <2>1
<1>3. fired \in [Devices -> Seq(Int)]
  <2>1. fired = [d \in Devices |-> <<>>]
    BY DEF Init
  <2>. QED
    BY <2>1
<1>4. row \in [Devices -> Rows]
  BY DEF Init, Rows
<1>5. busy \in 0 .. MaxBusy
  BY <1>1 DEF Init
<1>6. Nothing \in [Devices -> Int \cup {None}]
  BY DEF Nothing
<1>7. used \in [Kinds -> Nat]
  BY DEF Init
<1>8. last = Nothing /\ due = Nothing /\ pc = "idle" /\ now = 0
      /\ up \in BOOLEAN /\ tick \in BOOLEAN /\ cur = NoDevice /\ result = ""
  BY DEF Init
<1>9. /\ last \in [Devices -> Int \cup {None}] /\ due \in [Devices -> Int \cup {None}]
      /\ pc = "idle" => due = Nothing
  BY <1>6, <1>8
<1>10. /\ now \in Int /\ result \in Results /\ cur \in Devices \cup {NoDevice}
       /\ pc \in {"idle", "scan", "reboot", "notify"}
       /\ pc \in {"reboot", "notify"} => cur \in Devices /\ due[cur] # None
  <2>1. now \in Int
    <3>1. now = 0
      BY <1>8
    <3>. QED
      BY <3>1
  <2>. QED
    BY <1>8, <2>1 DEF Results
<1>. QED
  BY <1>2, <1>3, <1>4, <1>5, <1>7, <1>8, <1>9, <1>10 DEF TypeOK

LEMMA UseType ==
  ASSUME used \in [Kinds -> Nat],
         NEW kind \in Kinds, NEW max, Use(kind, max)
  PROVE  /\ used' \in [Kinds -> Nat]
         /\ kind = "jump" => used'.jump # 0
         /\ kind # "jump" => used'.jump = used.jump
BY DEF Use, Kinds

LEMMA TypeStep == TypeOK /\ [Next]_vars => TypeOK'
<1>. SUFFICES ASSUME TypeOK, [Next]_vars
              PROVE  TypeOK'
  OBVIOUS
<1>0. /\ Start \in Nat /\ Horizon \in Nat /\ MaxBusy \in Nat
      /\ Start .. Horizon \subseteq Start - 1 .. Horizon
      /\ Start .. Horizon \subseteq Int
      /\ Nothing \in [Devices -> Int \cup {None}]
      /\ 0 \in 0 .. MaxBusy
  BY SchedAssumption DEF Start, Nothing
<1>1. CASE Advance
  <2>1. busy' \in 0 .. MaxBusy
    BY <1>0, <1>1 DEF Advance, TypeOK
  <2>. QED
    BY <1>0, <1>1, <2>1 DEF Advance, TypeOK
<1>2. CASE \E t \in Start .. Horizon : Jump(t)
  BY <1>2, UseType DEF Kinds, Jump, TypeOK, proc
<1>3. CASE Crash
  <2>1. used' \in [Kinds -> Nat]
    BY <1>3, UseType DEF Kinds, Crash, TypeOK
  <2>2. /\ pc' = "idle" /\ now' = 0 /\ due' = Nothing /\ cur' = NoDevice /\ result' = ""
        /\ up' \in BOOLEAN /\ tick' \in BOOLEAN
        /\ UNCHANGED <<clock, row, last, busy, fired, since>>
    BY <1>3 DEF Crash
  <2>3. due' \in [Devices -> Int \cup {None}] /\ (pc' = "idle" => due' = Nothing)
    BY <1>0, <2>2
  <2>4. /\ now' \in Int /\ result' \in Results /\ cur' \in Devices \cup {NoDevice}
        /\ pc' \in {"idle", "scan", "reboot", "notify"}
        /\ pc' \in {"reboot", "notify"} => cur' \in Devices /\ due'[cur'] # None
    <3>1. now' = 0
      BY <2>2
    <3>2. now' \in Int
      BY <3>1
    <3>. QED
      BY <2>2, <3>2 DEF Results
  <2>. QED
    BY <2>1, <2>2, <2>3, <2>4 DEF TypeOK
<1>4. CASE Restart
  BY <1>0, <1>4 DEF Restart, TypeOK, proc
<1>5. CASE \E d \in Devices : Edit(d)
  <2>1. PICK d \in Devices, r \in Rows :
          /\ row' = [row EXCEPT ![d] = r]
          /\ since' = [since EXCEPT ![d] = clock]
          /\ Use("edit", MaxEdits)
          /\ UNCHANGED <<clock, last, up, proc, busy, fired>>
    BY <1>5 DEF Edit
  <2>2. used' \in [Kinds -> Nat]
    BY <2>1, UseType DEF Kinds, TypeOK
  <2>3. /\ row' \in [Devices -> Rows]
        /\ since' \in [Devices -> Start - 1 .. Horizon]
    BY <1>0, <2>1 DEF TypeOK
  <2>. QED
    BY <2>1, <2>2, <2>3 DEF TypeOK, proc
<1>6. CASE \E d \in Devices : Mark(d)
  <2>1. PICK d \in Devices : Mark(d)
    BY <1>6
  <2>2. due[d] \in Int /\ fired[d] \in Seq(Int)
    BY <2>1 DEF Mark, TypeOK
  <2>3. fired' \in [Devices -> Seq(Int)]
    BY <2>1, <2>2 DEF Mark, TypeOK
  <2>4. last' \in [Devices -> Int \cup {None}]
    BY <2>1 DEF Mark, TypeOK
  <2>. QED
    BY <2>1, <2>3, <2>4 DEF Mark, TypeOK
<1>7. CASE \E d \in Devices : MarkFails(d)
  BY <1>7, UseType DEF Kinds, MarkFails, TypeOK
<1>8. CASE Tick
  <2>1. due' \in [Devices -> Int \cup {None}]
    BY <1>0, <1>8, DueType DEF Tick, TypeOK, Rows
  <2>. QED
    <3>1. /\ tick' = FALSE /\ now' = clock /\ pc' = "scan" /\ busy' = 0
          /\ UNCHANGED <<clock, row, last, up, cur, result, used, fired, since>>
      BY <1>8 DEF Tick
    <3>. QED
      BY <1>0, <2>1, <3>1 DEF TypeOK
<1>9. CASE TickFails
  BY <1>9, UseType DEF Kinds, TickFails, TypeOK
<1>10. CASE RebootDevice
  <2>1. result' \in Results
    <3>1. PICK o \in {<<TRUE, "success">>, <<TRUE, "failure">>,
                      <<FALSE, "success">>, <<FALSE, "failure">>} : result' = o[2]
      BY <1>10 DEF RebootDevice
    <3>2. \A a, b : <<a, b>>[2] = b
      OBVIOUS
    <3>. QED
      BY <3>1, <3>2, Zenon DEF Results
  <2>. QED
    BY <1>10, <2>1 DEF RebootDevice, TypeOK
<1>11. CASE Notify
  <2>1. due' \in [Devices -> Int \cup {None}]
    BY <1>11 DEF Notify, TypeOK
  <2>2. /\ cur' = NoDevice /\ result' = "" /\ pc' = "scan" /\ busy' = 0
        /\ UNCHANGED <<clock, row, last, up, tick, now, used, fired, since>>
    BY <1>11 DEF Notify
  <2>. QED
    BY <1>0, <2>1, <2>2 DEF TypeOK, Results
<1>12. CASE EndTick
  BY <1>12 DEF EndTick, TypeOK
<1>13. CASE UNCHANGED vars
  BY <1>13 DEF vars, TypeOK
<1>. QED
  BY <1>1, <1>2, <1>3, <1>4, <1>5, <1>6, <1>7, <1>8, <1>9, <1>10, <1>11, <1>12, <1>13
  DEF Next

\* Every reachable state is well typed.
THEOREM TypeCorrect == Spec => []TypeOK
BY InitType, TypeStep, PTL DEF Spec

-----------------------------------------------------------------------------
(* Due and the calendar.  The two days that Due looks at are enough when     *)
(* the window is not longer than a day.                                      *)

\* The day of a moment, and the day of a slot, as bounds.
LEMMA DayBounds ==
  ASSUME NEW t \in Int
  PROVE  Day(t) \in Int /\ Day(t) * DayLen <= t /\ t < (Day(t) + 1) * DayLen
BY SchedAssumption DEF Day

LEMMA DayOrder ==
  ASSUME NEW m \in Int, NEW n \in Int, m * DayLen < n * DayLen
  PROVE  m < n
BY SchedAssumption

LEMMA SlotWindow ==
  ASSUME Catchup <= DayLen, NEW t \in Int, NEW n \in Int, NEW p \in Plans,
         n * DayLen + p.hhmm <= t, t < n * DayLen + p.hhmm + Catchup
  PROVE  n \in {Day(t), Day(t) - 1}
<1>1. /\ p.hhmm \in Nat /\ p.hhmm < DayLen
      /\ DayLen \in Nat \ {0} /\ Catchup \in Nat
  BY SchedAssumption
<1>2. Day(t) \in Int /\ Day(t) * DayLen <= t /\ t < (Day(t) + 1) * DayLen
  BY DayBounds
<1>. DEFINE a == n * DayLen
            b == Day(t) * DayLen
<1>3. a \in Int /\ b \in Int /\ (Day(t) + 1) * DayLen = b + DayLen /\ (n + 2) * DayLen = a + DayLen + DayLen
  BY <1>1, <1>2
<1>4. a < b + DayLen /\ b < a + DayLen + DayLen
  BY <1>1, <1>2, <1>3
<1>5. n * DayLen < (Day(t) + 1) * DayLen /\ Day(t) * DayLen < (n + 2) * DayLen
  BY <1>3, <1>4
<1>6. n < Day(t) + 1 /\ Day(t) < n + 2
  BY <1>2, <1>5, DayOrder
<1>. QED
  BY <1>2, <1>6

\* A hit is a slot of the calendar in its window and not served; with off = 0
\* or 1 the day it belongs to is today or yesterday.
Open(p, t, l) ==
    {s \in Calendar(p) : s <= t /\ t < s + Catchup /\ (l = None \/ l < s)}

LEMMA DueFinds ==
  ASSUME Catchup <= DayLen, NEW t \in Start .. Horizon, NEW p \in Plans,
         NEW l \in Int \cup {None}
  PROVE  IF Open(p, t, l) = {} THEN Due(t, p, l) = None ELSE Due(t, p, l) \in Open(p, t, l)
<1>1. /\ p.hhmm \in Nat /\ DayLen \in Nat \ {0} /\ Catchup \in Nat /\ Horizon \in Nat
      /\ None \notin Int /\ t \in Int /\ DayLen <= t /\ t <= Horizon
  BY SchedAssumption DEF Start
<1>2. Day(t) \in 1 .. Day(Horizon)
  <2>1. /\ Day(t) \in Int /\ Day(t) * DayLen <= t /\ t < (Day(t) + 1) * DayLen
        /\ Day(Horizon) \in Int /\ Horizon < (Day(Horizon) + 1) * DayLen
    BY <1>1, DayBounds
  <2>2. 1 * DayLen < (Day(t) + 1) * DayLen /\ Day(t) * DayLen < (Day(Horizon) + 1) * DayLen
    BY <1>1, <2>1
  <2>3. 1 < Day(t) + 1 /\ Day(t) < Day(Horizon) + 1
    BY <2>1, <2>2, DayOrder
  <2>. QED
    BY <2>1, <2>3
<1>3. ASSUME NEW off \in {0, 1}, Hit(t, p, l, off)
      PROVE  SlotOf(t, p, off) \in Open(p, t, l)
  <2>1. PICK day \in Int : day = Day(t) - off
    BY <1>2
  <2>2. day \in 0 .. Day(Horizon) /\ day % Week \in p.days
    <3>1. Day(Horizon) \in Int
      BY <1>1, DayBounds
    <3>2. day \in 0 .. Day(Horizon)
      BY <1>2, <2>1, <3>1
    <3>3. day % Week \in p.days
      BY <1>3, <2>1 DEF Hit
    <3>. QED
      BY <3>2, <3>3
  <2>3. SlotOf(t, p, off) = day * DayLen + p.hhmm
    BY <2>1 DEF SlotOf
  <2>4. SlotOf(t, p, off) \in Calendar(p)
    BY <2>2, <2>3 DEF Calendar
  <2>. QED
    BY <1>3, <2>4 DEF Open, Hit
<1>4. ASSUME NEW s \in Open(p, t, l)
      PROVE  Hit(t, p, l, 0) \/ Hit(t, p, l, 1)
  <2>1. PICK day \in 0 .. Day(Horizon) : day % Week \in p.days /\ s = day * DayLen + p.hhmm
    BY DEF Open, Calendar
  <2>2. day \in Int
    BY <2>1
  <2>3. day \in {Day(t), Day(t) - 1}
    BY <1>1, <1>4, <2>1, <2>2, SlotWindow DEF Open
  <2>4. CASE day = Day(t)
    <3>1. Day(t) - 0 = day
      BY <1>2, <2>4
    <3>. QED
      BY <1>4, <2>1, <3>1 DEF Hit, SlotOf, Open
  <2>5. CASE day = Day(t) - 1
    BY <1>4, <2>1, <2>5 DEF Hit, SlotOf, Open
  <2>. QED
    BY <2>3, <2>4, <2>5
<1>5. CASE Hit(t, p, l, 0)
  <2>1. Due(t, p, l) = SlotOf(t, p, 0)
    BY <1>5 DEF Due
  <2>. QED
    BY <1>3, <1>5, <2>1
<1>6. CASE ~Hit(t, p, l, 0) /\ Hit(t, p, l, 1)
  <2>1. Due(t, p, l) = SlotOf(t, p, 1)
    BY <1>6 DEF Due
  <2>. QED
    BY <1>3, <1>6, <2>1
<1>7. CASE ~Hit(t, p, l, 0) /\ ~Hit(t, p, l, 1)
  <2>1. Due(t, p, l) = None
    BY <1>7 DEF Due
  <2>. QED
    BY <1>4, <1>7, <2>1
<1>. QED
  BY <1>5, <1>6, <1>7

\* With a window of at most a day, Due finds a slot of the calendar that is in
\* its window and was not served whenever there is one, and only such a slot.
THEOREM DueFindsTheCalendar ==
  ASSUME Catchup <= DayLen
  PROVE  Spec => []DueIsCalendar
<1>1. TypeOK => DueIsCalendar
  <2>. SUFFICES ASSUME TypeOK, NEW p \in Plans, NEW l \in {None} \cup (0 .. clock)
                PROVE  IF Open(p, clock, l) = {} THEN Due(clock, p, l) = None
                       ELSE Due(clock, p, l) \in Open(p, clock, l)
    BY DEF DueIsCalendar, Open
  <2>1. clock \in Start .. Horizon /\ l \in Int \cup {None}
    BY DEF TypeOK
  <2>. QED
    BY <2>1, DueFinds
<1>. QED
  BY <1>1, TypeCorrect, PTL

-----------------------------------------------------------------------------
(* A disabled device.  As long as the clock goes forward, what was done to a *)
(* row after the tick began carries a later moment than the tick's.          *)

SkipInv ==
    used.jump = 0 =>
        /\ now <= clock
        /\ \A d \in Devices : due[d] # None /\ row[d].life = "off" => since[d] >= now
        /\ sent.left => pc = "notify" /\ (sent.life = "off" => since[cur] >= now)

LEMMA SkipStep == TypeOK /\ SkipInv /\ [Next]_vars => SkipInv'
<1>. SUFFICES ASSUME TypeOK, SkipInv, [Next]_vars, used'.jump = 0
              PROVE  SkipInv'
  BY DEF SkipInv
<1>0. /\ used \in [Kinds -> Nat] /\ clock \in Int /\ now \in Int
      /\ \A d \in Devices : since[d] \in Int
      /\ Start \in Int /\ Horizon \in Int
  BY SchedAssumption DEF TypeOK, Start
<1>1. CASE Advance
  BY <1>0, <1>1 DEF Advance, SkipInv
<1>2. CASE \E t \in Start .. Horizon : Jump(t)
  BY <1>0, <1>2, UseType DEF Jump, Kinds
<1>3. CASE Crash
  <2>1. /\ due' = Nothing /\ now' = 0 /\ sent' = NotSent /\ clock' = clock
    BY <1>3 DEF Crash
  <2>2. \A d \in Devices : due'[d] = None
    BY <2>1 DEF Nothing
  <2>3. ~sent'.left
    BY <2>1 DEF NotSent
  <2>4. 0 <= clock
    BY SchedAssumption DEF TypeOK, Start
  <2>. QED
    BY <2>1, <2>2, <2>3, <2>4 DEF SkipInv
<1>4. CASE Restart
  BY <1>0, <1>4 DEF Restart, SkipInv, proc, TypeOK
<1>5. CASE \E d \in Devices : Edit(d)
  <2>1. PICK d \in Devices, r \in Rows : /\ row' = [row EXCEPT ![d] = r]
                                         /\ since' = [since EXCEPT ![d] = clock]
                                         /\ Use("edit", MaxEdits)
                                         /\ UNCHANGED <<clock, proc, sent>>
    BY <1>5 DEF Edit
  <2>2. used.jump = 0
    BY <1>0, <2>1, UseType DEF Kinds
  <2>. QED
    BY <1>0, <2>1, <2>2 DEF SkipInv, proc, TypeOK
<1>6. CASE \E d \in Devices : Mark(d)
  BY <1>0, <1>6 DEF Mark, SkipInv, TypeOK
<1>7. CASE \E d \in Devices : MarkFails(d)
  <2>1. used.jump = 0
    BY <1>0, <1>7, UseType DEF Kinds, MarkFails
  <2>. QED
    BY <1>0, <1>7, <2>1 DEF MarkFails, SkipInv, TypeOK
<1>8. CASE Tick
  BY <1>0, <1>8 DEF Tick, SkipInv, TypeOK, Scheduled
<1>9. CASE TickFails
  <2>1. used.jump = 0
    BY <1>0, <1>9, UseType DEF Kinds, TickFails
  <2>. QED
    BY <1>0, <1>9, <2>1 DEF TickFails, SkipInv
<1>10. CASE RebootDevice
  <2>1. cur \in Devices /\ due[cur] # None /\ sent'.life = row[cur].life
    BY <1>10 DEF RebootDevice, TypeOK
  <2>. QED
    BY <1>0, <1>10, <2>1 DEF RebootDevice, SkipInv
<1>11. CASE Notify
  BY <1>0, <1>11 DEF Notify, SkipInv, NotSent, TypeOK
<1>12. CASE EndTick
  <2>1. ~sent.left
    BY <1>0, <1>12 DEF EndTick, SkipInv
  <2>2. \A d \in Devices : due'[d] = None
    BY <1>12 DEF EndTick, Nothing
  <2>. QED
    BY <1>0, <1>12, <2>1, <2>2, SchedAssumption DEF EndTick, SkipInv, TypeOK, Start
<1>13. CASE UNCHANGED vars
  BY <1>13 DEF vars, SkipInv
<1>. QED
  BY <1>1, <1>2, <1>3, <1>4, <1>5, <1>6, <1>7, <1>8, <1>9, <1>10, <1>11, <1>12, <1>13
  DEF Next

\* A device that is disabled when it is sent the command was disabled only
\* after the tick had begun, unless the clock was set.
THEOREM DisabledIsSkipped == Spec => []DisabledSkipped
<1>1. Init => SkipInv
  <2>1. ASSUME Init
        PROVE  SkipInv
    <3>1. due = Nothing /\ now = 0 /\ clock = Start /\ sent = NotSent
      BY <2>1 DEF Init
    <3>2. now <= clock
      BY <3>1, SchedAssumption DEF Start
    <3>3. \A d \in Devices : due[d] = None
      BY <3>1 DEF Nothing
    <3>4. ~sent.left
      BY <3>1 DEF NotSent
    <3>. QED
      BY <3>2, <3>3, <3>4 DEF SkipInv
  <2>. QED
    BY <2>1
<1>2. SkipInv => DisabledSkipped
  BY DEF SkipInv, DisabledSkipped
<1>. QED
  BY <1>1, <1>2, SkipStep, TypeCorrect, PTL DEF Spec
-----------------------------------------------------------------------------
(* No slot is left out, as long as the window is long enough for the slow    *)
(* reboots and the failures that may come: at any moment, what is left of    *)
(* the window is more than the time until the scheduler looks again, with    *)
(* that of the failures added.                                               *)

\* The devices that the scheduler has still to serve in this tick.
Held == {d \in Devices : due[d] # None}

\* The most ticks between two looks at the devices, when all of them are
\* rebooted in one tick.
Round == MaxBusy * Cardinality(Devices) + MaxBusy + 1

\* The most ticks before the scheduler looks at the devices again.
Ahead == (IF tick THEN MaxBusy - busy ELSE MaxBusy + 1) + MaxBusy * Cardinality(Held)

\* The most ticks that the failures to come may cost.
Spare == (MaxFaults - used.fault) * Round

Late == clock + Ahead + Spare

Limit == MaxFaults * Round + Round + 1

\* The assumption: every failure may cost a round, and the window holds those
\* and one more, and the minute in which the process came up; it is not longer
\* than a day.
EnoughTime == IsFiniteSet(Devices) /\ Limit <= Catchup /\ Catchup <= DayLen

Fired(d, s) == \E i \in 1 .. Len(fired[d]) : fired[d][i] = s

\* The slots of a device that have begun since its row is as it is, and that it
\* was not marked for.
Unmarked(d) == {s \in Calendar(row[d].plan) : since[d] < s /\ s <= clock /\ ~Fired(d, s)}

InWindow(t, s) == s <= t /\ t < s + Catchup

StageInv ==
    /\ used.fault <= MaxFaults
    /\ pc # "idle" \/ tick => up
    /\ pc \in {"reboot", "notify"} => Fired(cur, due[cur])

\* Unless the clock is set, nothing lies in the future.
PastInv ==
    /\ now <= clock
    /\ \A d \in Devices : since[d] <= clock /\ (last[d] # None => last[d] <= clock)

\* A slot to be served is one of the plan, unless the plan is a new one.
DueInv ==
    \A d \in Devices : row[d].life = "on" /\ due[d] # None /\ since[d] < now =>
        due[d] \in Calendar(row[d].plan) /\ InWindow(now, due[d])

\* So is the slot that a mark was made for.
LastInv ==
    \A d \in Devices : row[d].life = "on" /\ last[d] # None /\ since[d] < last[d] =>
        \E s \in Calendar(row[d].plan) : Fired(d, s) /\ InWindow(last[d], s)

\* A slot that is not marked will be looked at before its window closes; one
\* that is about to be marked may still fail once.
TimeInv ==
    \A d \in Devices : up /\ row[d].life = "on" =>
        \A s \in Unmarked(d) : Late < s + Limit + (IF due[d] = s THEN Round ELSE 0)

ClockInv == PastInv /\ DueInv /\ LastInv /\ TimeInv

ServeInv == StageInv /\ (used.jump = 0 => ClockInv)

\* Products, for the provers.
LEMMA Times ==
  ASSUME NEW m \in Nat, NEW n \in Nat
  PROVE  /\ m * n \in Nat /\ n * m \in Nat
         /\ m * (n + 1) = m * n + m /\ (n + 1) * m = n * m + m
OBVIOUS

LEMMA TimesMonotone ==
  ASSUME NEW m \in Nat, NEW n \in Nat, NEW k \in Nat, n <= k
  PROVE  m * n <= m * k /\ n * m <= k * m
<1>1. PICK j \in Nat : k = n + j
  <2>1. k - n \in Nat /\ k = n + (k - n)
    OBVIOUS
  <2>. QED
    BY <2>1
<1>2. m * j \in Nat /\ j * m \in Nat /\ m * n \in Nat /\ n * m \in Nat
  BY Times
<1>3. m * (n + j) = m * n + m * j /\ (n + j) * m = n * m + j * m
  OBVIOUS
<1>. QED
  BY <1>1, <1>2, <1>3

LEMMA CalendarSlots ==
  ASSUME NEW p \in Plans
  PROVE  /\ Calendar(p) \subseteq Int
         /\ \A s, t \in Calendar(p) : s < t => s + DayLen <= t
<1>1. p.hhmm \in Int /\ DayLen \in Nat /\ DayLen > 0
  BY SchedAssumption
<1>2. Calendar(p) \subseteq Int
  BY <1>1 DEF Calendar
<1>3. ASSUME NEW s \in Calendar(p), NEW t \in Calendar(p), s < t
      PROVE  s + DayLen <= t
  <2>1. PICK m \in Nat : s = m * DayLen + p.hhmm
    BY DEF Calendar
  <2>2. PICK n \in Nat : t = n * DayLen + p.hhmm
    BY DEF Calendar
  <2>3. m * DayLen \in Nat /\ n * DayLen \in Nat /\ (m + 1) * DayLen = m * DayLen + DayLen
    BY <1>1, Times
  <2>4. m * DayLen < n * DayLen
    BY <1>1, <1>3, <2>1, <2>2, <2>3
  <2>5. m + 1 <= n
    BY <2>4, DayOrder
  <2>6. (m + 1) * DayLen <= n * DayLen
    BY <1>1, <2>5, TimesMonotone
  <2>. QED
    BY <1>1, <2>1, <2>2, <2>3, <2>6
<1>. QED
  BY <1>2, <1>3

LEMMA Counted ==
  ASSUME TypeOK, IsFiniteSet(Devices)
  PROVE  /\ Cardinality(Devices) \in Nat
         /\ IsFiniteSet(Held) /\ Cardinality(Held) \in Nat
         /\ Cardinality(Held) <= Cardinality(Devices)
BY FS_Subset, FS_CardinalityType DEF Held

LEMMA RoundType ==
  ASSUME IsFiniteSet(Devices)
  PROVE  /\ Round \in Nat /\ MaxBusy + 1 <= Round
         /\ MaxBusy * Cardinality(Devices) + MaxBusy + 1 = Round
         /\ Limit \in Nat /\ MaxFaults * Round \in Nat /\ Limit = MaxFaults * Round + Round + 1
         /\ MaxFaults \in Nat /\ MaxBusy \in Nat /\ Catchup \in Nat /\ DayLen \in Nat
<1>1. /\ MaxFaults \in Nat /\ MaxBusy \in Nat /\ Cardinality(Devices) \in Nat
      /\ Catchup \in Nat /\ DayLen \in Nat
  BY FS_CardinalityType, SchedAssumption
<1>2. MaxBusy * Cardinality(Devices) \in Nat
  BY <1>1, Times
<1>3. Round \in Nat /\ MaxBusy + 1 <= Round
      /\ MaxBusy * Cardinality(Devices) + MaxBusy + 1 = Round
  BY <1>1, <1>2 DEF Round
<1>4. MaxFaults * Round \in Nat
  BY <1>1, <1>3, Times
<1>. QED
  BY <1>1, <1>3, <1>4 DEF Limit

\* How far the scheduler may be from its next look, and what failures cost.
LEMMA AheadType ==
  ASSUME TypeOK, StageInv, IsFiniteSet(Devices)
  PROVE  /\ Ahead \in Nat /\ Ahead <= Round
         /\ MaxBusy * Cardinality(Held) \in Nat
         /\ busy \in Nat /\ busy <= MaxBusy
         /\ Spare \in Nat /\ Spare <= MaxFaults * Round
         /\ Late \in Int /\ Late = clock + Ahead + Spare /\ clock <= Late /\ clock \in Int
<1>1. /\ Cardinality(Held) \in Nat /\ Cardinality(Devices) \in Nat
      /\ Cardinality(Held) <= Cardinality(Devices)
  BY Counted
<1>2. /\ MaxBusy * Cardinality(Held) \in Nat /\ MaxBusy * Cardinality(Devices) \in Nat
      /\ MaxBusy * Cardinality(Held) <= MaxBusy * Cardinality(Devices)
  BY <1>1, RoundType, Times, TimesMonotone
<1>3. busy \in Nat /\ busy <= MaxBusy /\ clock \in Int
  BY RoundType, SchedAssumption DEF TypeOK, Start
<1>4. Ahead \in Nat /\ Ahead <= Round
  <2>1. CASE tick
    BY <1>2, <1>3, <2>1, RoundType DEF Ahead
  <2>2. CASE ~tick
    BY <1>2, <1>3, <2>2, RoundType DEF Ahead
  <2>. QED
    BY <2>1, <2>2
<1>5. Spare \in Nat /\ Spare <= MaxFaults * Round
  <2>1. used.fault \in Nat /\ used.fault <= MaxFaults
    BY DEF TypeOK, StageInv, Kinds
  <2>2. PICK f \in Nat : f = MaxFaults - used.fault /\ f <= MaxFaults
    BY <2>1, RoundType
  <2>3. f * Round \in Nat /\ f * Round <= MaxFaults * Round
    BY <2>2, RoundType, Times, TimesMonotone
  <2>. QED
    BY <2>2, <2>3 DEF Spare
<1>. QED
  BY <1>2, <1>3, <1>4, <1>5 DEF Late

\* One event is used.
LEMMA UseCounts ==
  ASSUME used \in [Kinds -> Nat], NEW kind \in Kinds, NEW max, Use(kind, max)
  PROVE  /\ kind # "fault" => used'.fault = used.fault
         /\ kind = "fault" => used.fault < max /\ used'.fault = used.fault + 1
BY DEF Use, Kinds

LEMMA FaultCosts ==
  ASSUME TypeOK, StageInv, IsFiniteSet(Devices), Use("fault", MaxFaults)
  PROVE  /\ used'.fault <= MaxFaults /\ (used'.jump = 0 => used.jump = 0)
         /\ Spare' + Round = Spare
<1>1. /\ used.fault \in Nat /\ used.fault < MaxFaults /\ used'.fault = used.fault + 1
      /\ (used'.jump = 0 => used.jump = 0)
  BY UseCounts, UseType DEF TypeOK, Kinds
<1>2. PICK f \in Nat : f = MaxFaults - used'.fault
  <2>1. MaxFaults - used'.fault \in Nat
    BY <1>1, RoundType
  <2>. QED
    BY <2>1
<1>3. MaxFaults - used.fault = f + 1
  BY <1>1, <1>2, RoundType
<1>4. (f + 1) * Round = f * Round + Round
  BY RoundType, Times
<1>5. Spare' = f * Round /\ Spare = (f + 1) * Round
  BY <1>2, <1>3 DEF Spare, Round
<1>. QED
  BY <1>1, <1>4, <1>5, RoundType

LEMMA SpareType ==
  ASSUME TypeOK, IsFiniteSet(Devices), Use("fault", MaxFaults)
  PROVE  Spare' \in Int
<1>1. used'.fault \in Int /\ MaxFaults \in Int /\ Round \in Int
  BY UseType, RoundType DEF TypeOK, Kinds
<1>2. PICK f \in Int : f = MaxFaults - used'.fault
  BY <1>1
<1>. QED
  BY <1>1, <1>2 DEF Spare, Round

\* A step after which the scheduler is no farther from its next look, and no
\* slot is newly left out.
LEMMA TimeKept ==
  ASSUME TimeInv, Late \in Int, Late' \in Int, Late' <= Late, Limit \in Int, Round \in Nat,
         Limit' = Limit, Round' = Round, row \in [Devices -> Rows],
         \A d \in Devices : up' /\ row'[d].life = "on" =>
            \A s \in Unmarked(d)' :
               /\ up /\ row[d].life = "on" /\ s \in Unmarked(d)
               /\ due[d] = s => due'[d] = s
  PROVE  TimeInv'
<1>. SUFFICES ASSUME NEW d \in Devices, up', row'[d].life = "on", NEW s \in Unmarked(d)'
              PROVE  Late' < s + Limit' + (IF due'[d] = s THEN Round' ELSE 0)
  BY DEF TimeInv
<1>1. /\ up /\ row[d].life = "on" /\ s \in Unmarked(d)
      /\ due[d] = s => due'[d] = s
  OBVIOUS
<1>2. s \in Int
  BY <1>1, CalendarSlots DEF Unmarked, Rows
<1>3. Late < s + Limit + (IF due[d] = s THEN Round ELSE 0)
  BY <1>1 DEF TimeInv
<1>4. CASE due[d] = s
  BY <1>1, <1>2, <1>3, <1>4
<1>5. CASE due[d] # s
  <2>1. Late < s + Limit /\ Late' < s + Limit
    BY <1>2, <1>3, <1>5
  <2>. QED
    BY <1>2, <2>1
<1>. QED
  BY <1>4, <1>5

LEMMA Nearer ==
  ASSUME NEW t \in Int, NEW a \in Int, NEW b \in Int, NEW f \in Int, NEW l \in Int,
         b + 1 <= a, a + f <= l
  PROVE  /\ t + 1 + b + f <= t + a + f /\ t + 1 + b + f < t + 1 + l
         /\ t + 1 + b + f \in Int /\ t + a + f \in Int
OBVIOUS

LEMMA Delayed ==
  ASSUME NEW t \in Int, NEW a \in Int, NEW b \in Int, NEW f \in Int, NEW g \in Int,
         NEW r \in Int, 0 <= a, b <= r, g + r = f
  PROVE  t + b + g <= t + a + f /\ t + b + g \in Int /\ t + a + f \in Int
OBVIOUS

LEMMA Sooner ==
  ASSUME NEW t \in Int, NEW a \in Int, NEW b \in Int, NEW f \in Int, NEW g \in Int,
         NEW r \in Int, b <= a, g + r = f
  PROVE  (t + b + g) + r <= t + a + f /\ t + b + g \in Int /\ t + a + f \in Int
OBVIOUS

LEMMA Fewer ==
  ASSUME NEW k \in Int, NEW m \in Nat, NEW n \in Nat, m <= n
  PROVE  k + m <= k + n /\ k + m \in Int
OBVIOUS

LEMMA Spent ==
  ASSUME NEW x \in Int, NEW y \in Int, NEW s \in Int, NEW l \in Nat, NEW r \in Nat,
         x + r <= y, y < s + l + r
  PROVE  x < s + l
OBVIOUS

LEMMA Closer ==
  ASSUME NEW t \in Int, NEW a \in Int, NEW b \in Int, NEW f \in Int, b <= a
  PROVE  t + b + f <= t + a + f /\ t + b + f \in Int /\ t + a + f \in Int
OBVIOUS

LEMMA Collected ==
  ASSUME NEW t \in Int, NEW b \in Nat, NEW f \in Nat, NEW y \in Int, NEW s \in Int,
         NEW l \in Nat, NEW r \in Nat, b <= r, t + f <= y, y < s + l
  PROVE  t + b + f < s + l + r
OBVIOUS

LEMMA Constants == Round' = Round /\ Limit' = Limit
BY DEF Round, Limit

\* A minute passes: the next look is one minute nearer, and a slot that begins
\* now has a window that holds it.
LEMMA AdvanceServe ==
  ASSUME TypeOK, TypeOK', StageInv, ClockInv, EnoughTime, Advance
  PROVE  StageInv' /\ ClockInv'
<1>1. /\ clock' = clock + 1 /\ tick' = up
      /\ UNCHANGED <<row, last, up, pc, now, due, cur, used, fired, since>>
      /\ AtRest \/ busy < MaxBusy
      /\ busy' = IF AtRest THEN 0 ELSE busy + 1
  BY DEF Advance
<1>2. StageInv'
  BY <1>1 DEF StageInv, Fired
<1>3. /\ clock \in Int /\ now \in Int /\ \A d \in Devices : since[d] \in Int
      /\ \A d \in Devices : last[d] \in Int \cup {None}
  BY SchedAssumption DEF TypeOK, Start
<1>4. PastInv'
  BY <1>1, <1>3 DEF ClockInv, PastInv
<1>5. DueInv' /\ LastInv'
  BY <1>1 DEF ClockInv, DueInv, LastInv, Fired, InWindow
<1>6. Held' = Held /\ Cardinality(Held)' = Cardinality(Held) /\ Spare' = Spare
  BY <1>1 DEF Held, Spare, Round
<1>7. /\ Round \in Nat /\ Limit \in Nat /\ Ahead \in Nat /\ Ahead <= Round
      /\ Spare \in Nat /\ Spare <= MaxFaults * Round /\ Late = clock + Ahead + Spare
      /\ Limit = MaxFaults * Round + Round + 1 /\ MaxFaults * Round \in Nat
      /\ MaxBusy * Cardinality(Held) \in Nat /\ busy \in Nat /\ MaxBusy \in Nat
  BY AheadType, RoundType DEF EnoughTime
<1>8. up => Ahead' + 1 <= Ahead /\ Ahead' \in Int
  <2>. DEFINE c == MaxBusy * Cardinality(Held)
  <2>1. up => Ahead' = MaxBusy - busy' + c
    BY <1>1, <1>6 DEF Ahead
  <2>2. Ahead = (IF tick THEN MaxBusy - busy ELSE MaxBusy + 1) + c
    BY DEF Ahead
  <2>3. c \in Nat
    BY <1>7
  <2>. HIDE DEF c
  <2>4. CASE AtRest
    BY <1>1, <1>7, <2>1, <2>2, <2>3, <2>4 DEF AtRest
  <2>5. CASE ~AtRest
    BY <1>1, <1>7, <2>1, <2>2, <2>3, <2>5
  <2>. QED
    BY <2>4, <2>5
<1>10. /\ Late = clock + Ahead + Spare /\ Ahead \in Int /\ Spare \in Int
       /\ Limit \in Int /\ Ahead + Spare <= Limit
  BY <1>7
<1>9. TimeInv'
  <2>. SUFFICES ASSUME NEW d \in Devices, up', row'[d].life = "on", NEW s \in Unmarked(d)'
                PROVE  Late' < s + Limit' + (IF due'[d] = s THEN Round' ELSE 0)
    BY DEF TimeInv
  <2>1. s \in Calendar(row[d].plan) /\ since[d] < s /\ s <= clock + 1 /\ ~Fired(d, s) /\ s \in Int
    BY <1>1, CalendarSlots DEF Unmarked, Fired, TypeOK, Rows
  <2>2. up /\ row[d].life = "on"
    BY <1>1
  <2>3. Late' = clock + 1 + Ahead' + Spare /\ Ahead' + 1 <= Ahead /\ Ahead' \in Int
    BY <1>1, <1>6, <1>8, <2>2 DEF Late
  <2>4. CASE s <= clock
    <3>1. s \in Unmarked(d)
      BY <2>1, <2>4 DEF Unmarked
    <3>2. Late < s + Limit + (IF due[d] = s THEN Round ELSE 0)
      BY <2>2, <3>1 DEF ClockInv, TimeInv
    <3>3. Late' <= Late /\ Late' \in Int /\ Late \in Int
      BY <1>3, <1>10, <2>3, Nearer
    <3>4. Late' < s + Limit + (IF due[d] = s THEN Round ELSE 0)
      BY <1>7, <2>1, <3>2, <3>3
    <3>. QED
      BY <1>1, <3>4, Constants
  <2>5. CASE s = clock + 1
    <3>1. Late' < clock + 1 + Limit /\ Late' \in Int
      BY <1>3, <1>10, <2>3, Nearer
    <3>2. Late' < s + Limit
      BY <2>5, <3>1
    <3>. QED
      BY <1>7, <2>1, <3>1, <3>2, Constants
  <2>. QED
    BY <1>3, <2>1, <2>4, <2>5
<1>. QED
  BY <1>2, <1>4, <1>5, <1>9 DEF ClockInv

LEMMA HeldCost ==
  ASSUME IsFiniteSet(Devices), NEW S \in SUBSET Devices
  PROVE  /\ IsFiniteSet(S) /\ Cardinality(S) \in Nat
         /\ MaxBusy * Cardinality(S) \in Nat
         /\ MaxBusy * Cardinality(S) + MaxBusy + 1 <= Round
<1>1. /\ IsFiniteSet(S) /\ Cardinality(S) \in Nat /\ Cardinality(Devices) \in Nat
      /\ Cardinality(S) <= Cardinality(Devices)
  BY FS_Subset, FS_CardinalityType
<1>2. /\ MaxBusy * Cardinality(S) \in Nat /\ MaxBusy * Cardinality(Devices) \in Nat
      /\ MaxBusy * Cardinality(S) <= MaxBusy * Cardinality(Devices)
  BY <1>1, RoundType, Times, TimesMonotone
<1>. QED
  BY <1>1, <1>2, RoundType

\* Two slots of a plan do not share a moment in their windows.
LEMMA OneWindow ==
  ASSUME Catchup <= DayLen, NEW p \in Plans, NEW s \in Calendar(p), NEW u \in Calendar(p),
         NEW t \in Int, InWindow(t, s), InWindow(t, u)
  PROVE  s = u
<1>1. s \in Int /\ u \in Int /\ Catchup \in Int /\ DayLen \in Int
  BY CalendarSlots, SchedAssumption
<1>2. (s < u => s + DayLen <= u) /\ (u < s => u + DayLen <= s)
  BY CalendarSlots
<1>. QED
  BY <1>1, <1>2 DEF InWindow

\* An unmarked slot is in its window, and later than the last mark.
LEMMA UnmarkedIsOpen ==
  ASSUME TypeOK, StageInv, ClockInv, EnoughTime,
         NEW d \in Devices, up, row[d].life = "on", NEW s \in Unmarked(d), due[d] # s
  PROVE  s \in Open(row[d].plan, clock, last[d]) /\ s + Catchup > clock
<1>1. /\ row[d].plan \in Plans /\ last[d] \in Int \cup {None}
      /\ since[d] \in Int /\ clock \in Int
  BY SchedAssumption DEF TypeOK, Rows, Start
<1>2. s \in Calendar(row[d].plan) /\ s \in Int /\ since[d] < s /\ s <= clock /\ ~Fired(d, s)
  BY <1>1, CalendarSlots DEF Unmarked
<1>3. Limit \in Int /\ Limit <= Catchup /\ Catchup \in Int /\ DayLen \in Int /\ Catchup <= DayLen
  BY RoundType DEF EnoughTime
<1>4. clock <= Late /\ Late \in Int
  BY AheadType DEF EnoughTime
<1>5. Late < s + Limit
  BY <1>2, <1>3 DEF ClockInv, TimeInv
<1>6. clock < s + Catchup
  BY <1>1, <1>2, <1>3, <1>4, <1>5
<1>7. ASSUME last[d] # None, ~(last[d] < s)
      PROVE  FALSE
  <2>1. last[d] \in Int /\ s <= last[d] /\ since[d] < last[d] /\ last[d] <= clock
    BY <1>1, <1>2, <1>7 DEF ClockInv, PastInv
  <2>2. PICK u \in Calendar(row[d].plan) : Fired(d, u) /\ InWindow(last[d], u)
    BY <1>7, <2>1 DEF ClockInv, LastInv
  <2>3. InWindow(last[d], s)
    BY <1>1, <1>2, <1>3, <1>6, <2>1 DEF InWindow
  <2>4. u = s
    BY <1>1, <1>2, <1>3, <2>1, <2>2, <2>3, OneWindow
  <2>. QED
    BY <1>2, <2>2, <2>4
<1>. QED
  BY <1>2, <1>6, <1>7 DEF Open

\* A tick finds every slot that is not marked.
LEMMA TickServe ==
  ASSUME TypeOK, StageInv, ClockInv, EnoughTime, Tick
  PROVE  StageInv' /\ ClockInv'
<1>1. /\ up /\ pc = "idle" /\ tick /\ tick' = FALSE /\ now' = clock /\ pc' = "scan" /\ busy' = 0
      /\ UNCHANGED <<clock, row, last, up, cur, used, fired, since>>
      /\ due' = [d \in Devices |->
                   IF Scheduled(d) THEN Due(clock, row[d].plan, last[d]) ELSE None]
  BY DEF Tick
<1>2. StageInv'
  BY <1>1 DEF StageInv
<1>3. clock \in Int /\ clock \in Start .. Horizon /\ \A d \in Devices : due[d] = None
  BY <1>1, SchedAssumption DEF TypeOK, Start, Nothing
<1>4. PastInv' /\ LastInv'
  BY <1>1, <1>3 DEF ClockInv, PastInv, LastInv, Fired, InWindow
<1>5. ASSUME NEW d \in Devices, row[d].life = "on"
      PROVE  /\ row[d].plan \in Plans /\ last[d] \in Int \cup {None}
             /\ due'[d] = Due(clock, row[d].plan, last[d])
             /\ IF Open(row[d].plan, clock, last[d]) = {} THEN due'[d] = None
                ELSE due'[d] \in Open(row[d].plan, clock, last[d])
  <2>1. row[d].plan \in Plans /\ last[d] \in Int \cup {None}
    BY DEF TypeOK, Rows
  <2>2. due'[d] = Due(clock, row[d].plan, last[d])
    BY <1>1, <1>5 DEF Scheduled
  <2>. QED
    BY <1>3, <2>1, <2>2, DueFinds DEF EnoughTime
<1>6. DueInv'
  <2>. SUFFICES ASSUME NEW d \in Devices, row[d].life = "on", due'[d] # None
                PROVE  due'[d] \in Calendar(row[d].plan) /\ InWindow(clock, due'[d])
    BY <1>1 DEF DueInv, InWindow
  <2>. QED
    BY <1>5 DEF Open, InWindow
<1>7. TimeInv'
  <2>1. /\ Late' = clock + Ahead' + Spare /\ Ahead' \in Nat /\ Ahead' <= Round
        /\ Spare \in Nat /\ clock + Spare <= Late /\ Late \in Int /\ Round \in Nat /\ Limit \in Nat
    <3>1. Held' \in SUBSET Devices
      BY DEF Held
    <3>2. Ahead' = MaxBusy + 1 + MaxBusy * Cardinality(Held')
      BY <1>1 DEF Ahead
    <3>3. MaxBusy * Cardinality(Held') \in Nat
          /\ MaxBusy * Cardinality(Held') + MaxBusy + 1 <= Round
      BY <3>1, HeldCost DEF EnoughTime
    <3>4. Spare' = Spare /\ Late' = clock + Ahead' + Spare
      BY <1>1 DEF Late, Spare, Round
    <3>5. MaxBusy \in Nat /\ Round \in Nat /\ Limit \in Nat
      BY RoundType DEF EnoughTime
    <3>6. Ahead' \in Nat /\ Ahead' <= Round
      BY <3>2, <3>3, <3>5
    <3>7. Spare \in Nat /\ Ahead \in Nat /\ Late = clock + Ahead + Spare /\ Late \in Int
      BY AheadType DEF EnoughTime
    <3>8. clock + Spare <= Late
      BY <1>3, <3>7
    <3>. QED
      BY <3>4, <3>5, <3>6, <3>7, <3>8
  <2>. SUFFICES ASSUME NEW d \in Devices, row[d].life = "on", NEW s \in Unmarked(d)'
                PROVE  Late' < s + Limit' + (IF due'[d] = s THEN Round' ELSE 0)
    BY <1>1 DEF TimeInv
  <2>2. s \in Unmarked(d) /\ s \in Int /\ due[d] # s
    BY <1>1, <1>3, <1>5, CalendarSlots, SchedAssumption DEF Unmarked, Fired
  <2>3. s \in Open(row[d].plan, clock, last[d])
    BY <1>1, <2>2, UnmarkedIsOpen
  <2>4. due'[d] = s
    <3>1. due'[d] \in Open(row[d].plan, clock, last[d])
      BY <1>5, <2>3
    <3>. QED
      BY <1>3, <1>5, <2>3, <3>1, OneWindow DEF Open, InWindow, EnoughTime
  <2>5. Late < s + Limit
    <3>1. Late < s + Limit + (IF due[d] = s THEN Round ELSE 0)
      BY <1>1, <2>2, Zenon DEF ClockInv, TimeInv
    <3>. QED
      BY <2>1, <2>2, <3>1
  <2>6. Late' < s + Limit + Round
    BY <1>3, <2>1, <2>2, <2>5, Collected
  <2>. QED
    BY <2>4, <2>6, Constants
<1>. QED
  BY <1>2, <1>4, <1>6, <1>7 DEF ClockInv

\* A failed list costs a round at most.
LEMMA TickFailsServe ==
  ASSUME TypeOK, StageInv, ClockInv, EnoughTime, TickFails, used'.jump = 0
  PROVE  ClockInv'
<1>1. /\ pc = "idle" /\ tick' = FALSE /\ Use("fault", MaxFaults)
      /\ UNCHANGED <<clock, row, last, up, pc, now, due, cur, result, busy, fired, since>>
  BY DEF TickFails
<1>2. PastInv' /\ DueInv' /\ LastInv'
  BY <1>1 DEF ClockInv, PastInv, DueInv, LastInv, Fired, InWindow
<1>3. Spare' + Round = Spare
  BY <1>1, FaultCosts DEF EnoughTime
<1>4. Late' <= Late /\ Late' \in Int /\ Late \in Int
  <2>1. Ahead' = MaxBusy + 1 + MaxBusy * Cardinality(Held)
    BY <1>1 DEF Ahead, Held
  <2>2. /\ MaxBusy * Cardinality(Held) \in Nat
        /\ MaxBusy * Cardinality(Held) + MaxBusy + 1 <= Round
    <3>1. Held \in SUBSET Devices
      BY DEF Held
    <3>. QED
      BY <3>1, HeldCost DEF EnoughTime
  <2>3. /\ Ahead \in Nat /\ Spare \in Nat /\ Late = clock + Ahead + Spare /\ clock \in Int
        /\ MaxBusy \in Nat /\ Round \in Nat /\ Late \in Int
    BY AheadType, RoundType DEF EnoughTime
  <2>4. Late' = clock + Ahead' + Spare'
    BY <1>1 DEF Late
  <2>5. Ahead' \in Nat /\ Ahead' <= Round
    BY <2>1, <2>2, <2>3
  <2>6. Spare' \in Int
    BY <1>1, <2>3, SpareType DEF EnoughTime
  <2>7. /\ Round \in Int /\ Spare \in Int /\ Ahead \in Int /\ Ahead' \in Int /\ 0 <= Ahead
    BY <2>3, <2>5
  <2>. QED
    BY <1>3, <2>3, <2>4, <2>5, <2>6, <2>7, Delayed
<1>5. TimeInv'
  <2>1. \A d \in Devices : Unmarked(d)' = Unmarked(d)
    BY <1>1 DEF Unmarked, Fired
  <2>2. row \in [Devices -> Rows] /\ Limit \in Int /\ Round \in Nat
    BY RoundType DEF TypeOK, EnoughTime
  <2>. QED
    BY <1>1, <1>4, <2>1, <2>2, TimeKept, Constants DEF ClockInv
<1>. QED
  BY <1>2, <1>5 DEF ClockInv

\* So does a failed mark; the slot had a round to spare.
LEMMA MarkFailsServe ==
  ASSUME TypeOK, StageInv, ClockInv, EnoughTime, NEW e \in Devices, MarkFails(e),
         used'.jump = 0
  PROVE  ClockInv'
<1>1. /\ due[e] # None /\ due' = [due EXCEPT ![e] = None] /\ Use("fault", MaxFaults)
      /\ UNCHANGED <<clock, row, last, up, tick, pc, now, busy, fired, since>>
      /\ due \in [Devices -> Int \cup {None}]
  BY DEF MarkFails, TypeOK
<1>2. \A d \in Devices : due'[d] = None \/ due'[d] = due[d]
  BY <1>1
<1>3. PastInv' /\ DueInv' /\ LastInv'
  BY <1>1, <1>2 DEF ClockInv, PastInv, DueInv, LastInv, Fired, InWindow
<1>4. /\ Late' + Round <= Late /\ Late' \in Int /\ Late \in Int
      /\ Round \in Nat /\ Limit \in Nat
  <2>1. /\ Ahead \in Nat /\ Spare \in Nat /\ Late = clock + Ahead + Spare /\ clock \in Int
        /\ Round \in Nat /\ Limit \in Nat /\ Late \in Int /\ Spare' \in Int
        /\ busy \in Nat /\ busy <= MaxBusy /\ MaxBusy \in Nat
    BY <1>1, AheadType, RoundType, SpareType DEF EnoughTime
  <2>2. Spare' + Round = Spare
    BY <1>1, FaultCosts DEF EnoughTime
  <2>3. /\ MaxBusy * Cardinality(Held) \in Nat /\ MaxBusy * Cardinality(Held') \in Nat
        /\ MaxBusy * Cardinality(Held') <= MaxBusy * Cardinality(Held)
    <3>1. Held' \subseteq Held /\ Held \in SUBSET Devices
      BY <1>2 DEF Held
    <3>2. IsFiniteSet(Held)
      BY <3>1, HeldCost DEF EnoughTime
    <3>3. Cardinality(Held') <= Cardinality(Held) /\ Cardinality(Held') \in Nat
          /\ Cardinality(Held) \in Nat
      BY <3>1, <3>2, FS_Subset, FS_CardinalityType
    <3>. QED
      BY <2>1, <3>3, Times, TimesMonotone
  <2>4. Ahead' \in Int /\ Ahead' <= Ahead
    <3>1. /\ Ahead' = (IF tick THEN MaxBusy - busy ELSE MaxBusy + 1) + MaxBusy * Cardinality(Held')
          /\ Ahead = (IF tick THEN MaxBusy - busy ELSE MaxBusy + 1) + MaxBusy * Cardinality(Held)
      BY <1>1 DEF Ahead
    <3>2. (IF tick THEN MaxBusy - busy ELSE MaxBusy + 1) \in Int
      BY <2>1
    <3>. QED
      BY <2>3, <3>1, <3>2, Fewer
  <2>5. Late' = clock + Ahead' + Spare'
    BY <1>1 DEF Late
  <2>6. Round \in Int /\ Spare \in Int /\ Ahead \in Int
    BY <2>1
  <2>. QED
    BY <2>1, <2>2, <2>4, <2>5, <2>6, Sooner
<1>5. TimeInv'
  <2>. SUFFICES ASSUME NEW d \in Devices, up, row[d].life = "on", NEW s \in Unmarked(d)'
                PROVE  Late' < s + Limit' + (IF due'[d] = s THEN Round' ELSE 0)
    BY <1>1 DEF TimeInv
  <2>1. s \in Unmarked(d) /\ s \in Int
    BY <1>1, CalendarSlots DEF Unmarked, Fired, TypeOK, Rows
  <2>2. Late < s + Limit + (IF due[d] = s THEN Round ELSE 0)
    BY <2>1, Zenon DEF ClockInv, TimeInv
  <2>3. Late < s + Limit + Round
    BY <1>4, <2>1, <2>2
  <2>4. Late' < s + Limit
    BY <1>4, <2>1, <2>3, Spent
  <2>. QED
    BY <1>4, <2>1, <2>4, Constants
<1>. QED
  BY <1>3, <1>5 DEF ClockInv

\* A mark is kept.
LEMMA MarkFires ==
  ASSUME TypeOK, NEW e \in Devices, Mark(e)
  PROVE  Fired(e, due[e])' /\ \A d \in Devices, s \in Int : Fired(d, s) => Fired(d, s)'
<1>1. /\ due[e] # None /\ due' = due
      /\ fired' = [fired EXCEPT ![e] = Append(@, due[e])]
  BY DEF Mark
<1>2. due[e] \in Int /\ fired[e] \in Seq(Int) /\ fired \in [Devices -> Seq(Int)]
  BY <1>1 DEF TypeOK
<1>3. /\ Len(fired[e]) \in Nat /\ Len(fired'[e]) = Len(fired[e]) + 1
      /\ fired'[e][Len(fired[e]) + 1] = due[e]
      /\ \A i \in 1 .. Len(fired[e]) : fired'[e][i] = fired[e][i]
      /\ \A d \in Devices \ {e} : fired'[d] = fired[d]
  BY <1>1, <1>2
<1>4. /\ Len(fired[e]) + 1 \in 1 .. Len(fired'[e])
      /\ \A i \in 1 .. Len(fired[e]) : i \in 1 .. Len(fired'[e])
  BY <1>3
<1>. QED
  BY <1>1, <1>3, <1>4 DEF Fired

LEMMA MarkStage ==
  ASSUME TypeOK, StageInv, NEW e \in Devices, Mark(e)
  PROVE  StageInv'
BY MarkFires DEF Mark, StageInv

\* A mark serves the slot of its device; the mark lies in the slot's window.
LEMMA MarkServe ==
  ASSUME TypeOK, StageInv, ClockInv, EnoughTime, NEW e \in Devices, Mark(e)
  PROVE  StageInv' /\ ClockInv'
<1>1. /\ pc = "scan" /\ due[e] # None /\ cur' = e /\ pc' = "reboot"
      /\ last' = IF row[e].life = "gone" THEN last ELSE [last EXCEPT ![e] = now]
      /\ fired' = [fired EXCEPT ![e] = Append(@, due[e])]
      /\ UNCHANGED <<clock, row, up, tick, now, due, busy, used, since>>
  BY DEF Mark
<1>2. /\ due[e] \in Int /\ fired[e] \in Seq(Int) /\ fired \in [Devices -> Seq(Int)]
      /\ last \in [Devices -> Int \cup {None}] /\ row \in [Devices -> Rows]
      /\ now \in Int /\ clock \in Int /\ None \notin Int
  BY <1>1, SchedAssumption DEF TypeOK, Start
<1>3. Fired(e, due[e])' /\ \A d \in Devices, s \in Int : Fired(d, s) => Fired(d, s)'
  BY MarkFires
<1>4. StageInv'
  BY MarkStage
<1>5. PastInv'
  BY <1>1, <1>2 DEF ClockInv, PastInv
<1>6. DueInv'
  BY <1>1 DEF ClockInv, DueInv, InWindow
<1>7. LastInv'
  <2>. SUFFICES ASSUME NEW d \in Devices, row[d].life = "on", last'[d] # None,
                       since[d] < last'[d]
                PROVE  \E s \in Calendar(row[d].plan) : Fired(d, s)' /\ InWindow(last'[d], s)
    BY <1>1 DEF LastInv, InWindow
  <2>1. CASE d = e
    <3>1. last'[d] = now
      BY <1>1, <1>2, <2>1
    <3>2. due[d] \in Calendar(row[d].plan) /\ InWindow(now, due[d])
      BY <1>1, <2>1, <3>1 DEF ClockInv, DueInv
    <3>. QED
      BY <1>1, <1>3, <2>1, <3>1, <3>2
  <2>2. CASE d # e
    <3>1. last'[d] = last[d]
      BY <1>1, <1>2, <2>2
    <3>2. PICK s \in Calendar(row[d].plan) : Fired(d, s) /\ InWindow(last[d], s)
      BY <3>1 DEF ClockInv, LastInv
    <3>3. s \in Int
      BY <1>2, CalendarSlots DEF Rows
    <3>. QED
      BY <1>3, <3>1, <3>2, <3>3
  <2>. QED
    BY <2>1, <2>2
<1>8. TimeInv'
  <2>1. \A d \in Devices : Unmarked(d)' \subseteq Unmarked(d)
    BY <1>1, <1>2, <1>3, CalendarSlots DEF Unmarked, Rows
  <2>2. Late' = Late
    BY <1>1 DEF Late, Ahead, Spare, Held, Round
  <2>3. Late \in Int /\ Limit \in Int /\ Round \in Nat
    BY AheadType, RoundType DEF EnoughTime
  <2>. QED
    BY <1>1, <1>2, <2>1, <2>2, <2>3, TimeKept, Constants DEF ClockInv
<1>. QED
  BY <1>4, <1>5, <1>6, <1>7, <1>8 DEF ClockInv

\* When a device is done, the time it may have taken is no longer ahead.
LEMMA NotifyServe ==
  ASSUME TypeOK, StageInv, ClockInv, EnoughTime, Notify
  PROVE  StageInv' /\ ClockInv'
<1>1. /\ pc = "notify" /\ due' = [due EXCEPT ![cur] = None] /\ pc' = "scan" /\ busy' = 0
      /\ UNCHANGED <<clock, row, last, up, tick, now, used, fired, since>>
      /\ cur \in Devices /\ due[cur] # None /\ due \in [Devices -> Int \cup {None}]
      /\ row \in [Devices -> Rows]
  BY DEF Notify, TypeOK
<1>2. due'[cur] = None /\ \A d \in Devices \ {cur} : due'[d] = due[d]
  BY <1>1
<1>3. StageInv'
  BY <1>1 DEF StageInv
<1>4. PastInv' /\ DueInv' /\ LastInv'
  BY <1>1, <1>2 DEF ClockInv, PastInv, DueInv, LastInv, Fired, InWindow
<1>5. /\ Late' <= Late /\ Late' \in Int /\ Late \in Int
      /\ Round \in Nat /\ Limit \in Nat
  <2>1. /\ Spare \in Int /\ clock \in Int /\ Late = clock + Ahead + Spare
        /\ busy \in Nat /\ busy <= MaxBusy /\ MaxBusy \in Nat /\ Ahead \in Int
        /\ Round \in Nat /\ Limit \in Nat
    BY AheadType, RoundType DEF EnoughTime
  <2>2. /\ MaxBusy * Cardinality(Held') \in Nat
        /\ MaxBusy * Cardinality(Held) = MaxBusy * Cardinality(Held') + MaxBusy
    <3>1. Held' = Held \ {cur} /\ cur \in Held /\ Held \in SUBSET Devices
      BY <1>1, <1>2 DEF Held
    <3>2. IsFiniteSet(Held) /\ Cardinality(Held) \in Nat
      BY <3>1, HeldCost DEF EnoughTime
    <3>3. Cardinality(Held') = Cardinality(Held) - 1
      BY <3>1, <3>2, FS_RemoveElement
    <3>4. Cardinality(Held') \in Nat
      BY <3>1, <3>2, FS_RemoveElement, FS_CardinalityType
    <3>5. Cardinality(Held) = Cardinality(Held') + 1
      BY <3>2, <3>3, <3>4
    <3>. QED
      BY <2>1, <3>4, <3>5, Times
  <2>3. Ahead' <= Ahead /\ Ahead' \in Int
    <3>1. PICK m \in Nat, n \in Nat :
             m = MaxBusy * Cardinality(Held') /\ n = MaxBusy * Cardinality(Held) /\ n = m + MaxBusy
      BY <2>1, <2>2
    <3>2. /\ Ahead' = (IF tick THEN MaxBusy ELSE MaxBusy + 1) + m
          /\ Ahead = (IF tick THEN MaxBusy - busy ELSE MaxBusy + 1) + n
      BY <1>1, <2>1, <3>1 DEF Ahead
    <3>. QED
      BY <2>1, <3>1, <3>2
  <2>4. Late' = clock + Ahead' + Spare
    BY <1>1 DEF Late, Spare, Round
  <2>. QED
    BY <2>1, <2>3, <2>4, Closer
<1>6. TimeInv'
  <2>1. \A d \in Devices : Unmarked(d)' = Unmarked(d)
    BY <1>1 DEF Unmarked, Fired
  <2>2. \A d \in Devices : \A s \in Unmarked(d) : due[d] = s => due'[d] = s
    BY <1>1, <1>2 DEF StageInv, Unmarked
  <2>. QED
    BY <1>1, <1>5, <2>1, <2>2, TimeKept, Constants DEF ClockInv
<1>. QED
  BY <1>3, <1>4, <1>6 DEF ClockInv

\* A row that is as it is since now has no slots yet.
LEMMA FreshRow ==
  ASSUME NEW d \in Devices, clock \in Int, since[d] = clock, row[d].plan \in Plans
  PROVE  Unmarked(d) = {}
BY CalendarSlots DEF Unmarked

LEMMA NextServe ==
  ASSUME EnoughTime
  PROVE  TypeOK /\ TypeOK' /\ ServeInv /\ [Next]_vars => ServeInv'
<1>. SUFFICES ASSUME TypeOK, TypeOK', ServeInv, [Next]_vars
              PROVE  ServeInv'
  OBVIOUS
<1>0. /\ StageInv /\ (used.jump = 0 => ClockInv)
      /\ used \in [Kinds -> Nat] /\ row \in [Devices -> Rows] /\ clock \in Int
      /\ Late \in Int /\ Round \in Nat /\ Limit \in Nat
  BY AheadType, RoundType DEF ServeInv, TypeOK, EnoughTime
<1>1. CASE Advance
  <2>1. used' = used
    BY <1>1 DEF Advance
  <2>2. StageInv'
    BY <1>0, <1>1 DEF Advance, StageInv, Fired
  <2>. QED
    BY <1>0, <1>1, <2>1, <2>2, AdvanceServe DEF ServeInv
<1>2. CASE \E t \in Start .. Horizon : Jump(t)
  <2>1. /\ used'.jump # 0 /\ used'.fault = used.fault
        /\ UNCHANGED <<up, proc, fired>>
    BY <1>0, <1>2, UseType, UseCounts DEF Jump, Kinds
  <2>2. StageInv'
    BY <1>0, <2>1 DEF StageInv, Fired, proc
  <2>. QED
    BY <2>1, <2>2 DEF ServeInv
<1>3. CASE Crash
  <2>1. /\ used'.fault = used.fault /\ used'.jump = used.jump /\ tick' = FALSE /\ pc' = "idle"
        /\ now' = 0 /\ up' = FALSE /\ UNCHANGED <<clock, row, last, fired, since>>
        /\ \A d \in Devices : due'[d] = None
    BY <1>0, <1>3, UseType, UseCounts DEF Crash, Kinds, Nothing
  <2>2. StageInv' /\ TimeInv'
    BY <1>0, <2>1 DEF StageInv, TimeInv
  <2>3. 0 <= clock
    BY SchedAssumption DEF TypeOK, Start
  <2>4. used.jump = 0 => PastInv' /\ DueInv' /\ LastInv'
    BY <1>0, <2>1, <2>3 DEF ClockInv, PastInv, DueInv, LastInv, Fired, InWindow
  <2>. QED
    BY <2>1, <2>2, <2>4 DEF ServeInv, ClockInv
<1>4. CASE Restart
  <2>1. /\ ~up /\ up' = TRUE /\ UNCHANGED <<clock, row, last, proc, used, fired>>
        /\ \A d \in Devices : since'[d] = clock
    BY <1>4 DEF Restart
  <2>2. StageInv'
    BY <1>0, <2>1 DEF StageInv, Fired, proc
  <2>3. \A d \in Devices : Unmarked(d)' = {}
    BY <1>0, <2>1, CalendarSlots DEF Unmarked, Rows
  <2>4. TimeInv'
    BY <2>3 DEF TimeInv
  <2>5. /\ now \in Int /\ \A d \in Devices : last[d] \in Int \cup {None}
    BY DEF TypeOK
  <2>6. used.jump = 0 => PastInv' /\ DueInv' /\ LastInv'
    BY <1>0, <2>1, <2>5 DEF ClockInv, PastInv, DueInv, LastInv, proc
  <2>. QED
    BY <2>1, <2>2, <2>4, <2>6 DEF ServeInv, ClockInv
<1>5. CASE \E d \in Devices : Edit(d)
  <2>1. PICK e \in Devices, r \in Rows :
          /\ row' = [row EXCEPT ![e] = r]
          /\ since' = [since EXCEPT ![e] = clock]
          /\ Use("edit", MaxEdits)
          /\ UNCHANGED <<clock, last, up, proc, busy, fired>>
    BY <1>5 DEF Edit
  <2>2. used'.fault = used.fault /\ (used'.jump = 0 => used.jump = 0)
    BY <1>0, <2>1, UseType, UseCounts DEF Kinds
  <2>3. /\ since'[e] = clock /\ row'[e] = r
        /\ \A d \in Devices \ {e} : since'[d] = since[d] /\ row'[d] = row[d]
        /\ now \in Int /\ \A d \in Devices : last[d] \in Int \cup {None} /\ since[d] \in Int
    BY <2>1, SchedAssumption DEF TypeOK, Start
  <2>4. StageInv'
    BY <1>0, <2>1, <2>2 DEF StageInv, Fired, proc
  <2>5. used.jump = 0 => PastInv' /\ DueInv' /\ LastInv'
    <3>. SUFFICES ASSUME ClockInv
                  PROVE  PastInv' /\ DueInv' /\ LastInv'
      BY <1>0
    <3>1. UNCHANGED <<clock, now, due, last, fired>>
      BY <2>1 DEF proc
    <3>2. PastInv'
      BY <1>0, <2>3, <3>1 DEF ClockInv, PastInv
    <3>3. now <= since'[e] /\ (last[e] # None => last[e] <= since'[e]) /\ since'[e] \in Int
      BY <1>0, <2>3 DEF ClockInv, PastInv
    <3>4. DueInv'
      BY <2>3, <3>1, <3>3 DEF ClockInv, DueInv, InWindow
    <3>5. LastInv'
      BY <2>3, <3>1, <3>3 DEF ClockInv, LastInv, Fired, InWindow
    <3>. QED
      BY <3>2, <3>4, <3>5
  <2>6. Late' = Late
    BY <2>1, <2>2 DEF Late, Ahead, Held, Spare, Round, proc
  <2>7. used.jump = 0 => TimeInv'
    <3>1. Unmarked(e)' = {}
      BY <1>0, <2>1, <2>3, CalendarSlots DEF Unmarked, Rows
    <3>2. \A d \in Devices \ {e} : Unmarked(d)' = Unmarked(d)
      BY <2>1, <2>3 DEF Unmarked, Fired
    <3>3. \A d \in Devices : up' /\ row'[d].life = "on" =>
             \A s \in Unmarked(d)' :
                /\ up /\ row[d].life = "on" /\ s \in Unmarked(d)
                /\ due[d] = s => due'[d] = s
      BY <2>1, <2>3, <3>1, <3>2 DEF proc
    <3>. QED
      BY <1>0, <2>6, <3>3, TimeKept, Constants DEF ClockInv
  <2>. QED
    BY <2>2, <2>4, <2>5, <2>7 DEF ServeInv, ClockInv
<1>6. CASE \E d \in Devices : Mark(d)
  <2>1. PICK e \in Devices : Mark(e)
    BY <1>6
  <2>2. used' = used
    BY <2>1 DEF Mark
  <2>3. StageInv'
    BY <1>0, <2>1, MarkStage
  <2>. QED
    BY <1>0, <2>1, <2>2, <2>3, MarkServe DEF ServeInv
<1>7. CASE \E d \in Devices : MarkFails(d)
  <2>1. PICK e \in Devices : MarkFails(e)
    BY <1>7
  <2>2. used'.fault <= MaxFaults /\ (used'.jump = 0 => used.jump = 0)
    BY <1>0, <2>1, FaultCosts DEF MarkFails, EnoughTime
  <2>3. StageInv'
    BY <1>0, <2>1, <2>2 DEF StageInv, MarkFails
  <2>. QED
    BY <1>0, <2>1, <2>2, <2>3, MarkFailsServe DEF ServeInv
<1>8. CASE Tick
  <2>1. used' = used
    BY <1>8 DEF Tick
  <2>2. StageInv'
    BY <1>0, <1>8 DEF Tick, StageInv
  <2>. QED
    BY <1>0, <1>8, <2>1, <2>2, TickServe DEF ServeInv
<1>9. CASE TickFails
  <2>1. used'.fault <= MaxFaults /\ (used'.jump = 0 => used.jump = 0)
    BY <1>0, <1>9, FaultCosts DEF TickFails, EnoughTime
  <2>2. StageInv'
    BY <1>0, <1>9, <2>1 DEF StageInv, TickFails, Fired
  <2>. QED
    BY <1>0, <1>9, <2>1, <2>2, TickFailsServe DEF ServeInv
<1>10. CASE Notify
  <2>1. used' = used
    BY <1>10 DEF Notify
  <2>2. StageInv'
    BY <1>0, <1>10 DEF Notify, StageInv
  <2>. QED
    BY <1>0, <1>10, <2>1, <2>2, NotifyServe DEF ServeInv
<1>11. CASE RebootDevice \/ UNCHANGED vars
  <2>1. /\ UNCHANGED <<clock, row, last, up, tick, now, due, cur, busy, used, fired, since>>
        /\ pc' = pc \/ (pc = "reboot" /\ pc' = "notify")
    BY <1>11 DEF RebootDevice, vars
  <2>2. StageInv'
    BY <1>0, <2>1 DEF StageInv, Fired
  <2>3. used.jump = 0 => PastInv' /\ DueInv' /\ LastInv'
    BY <1>0, <2>1 DEF ClockInv, PastInv, DueInv, LastInv, Fired, InWindow
  <2>4. Late' = Late /\ \A d \in Devices : Unmarked(d)' = Unmarked(d)
    BY <2>1 DEF Late, Ahead, Held, Spare, Round, Unmarked, Fired
  <2>5. used.jump = 0 => TimeInv'
    BY <1>0, <2>1, <2>4, TimeKept, Constants DEF ClockInv
  <2>. QED
    BY <2>1, <2>2, <2>3, <2>5 DEF ServeInv, ClockInv
<1>12. CASE EndTick
  <2>1. /\ pc = "scan" /\ pc' = "idle" /\ now' = 0 /\ \A d \in Devices : due'[d] = None
        /\ UNCHANGED <<clock, row, last, up, tick, due, cur, busy, used, fired, since>>
    BY <1>12 DEF EndTick, Nothing
  <2>2. StageInv'
    BY <1>0, <2>1 DEF StageInv
  <2>3. 0 <= clock
    BY SchedAssumption DEF TypeOK, Start
  <2>4. used.jump = 0 => PastInv' /\ DueInv' /\ LastInv'
    BY <1>0, <2>1, <2>3 DEF ClockInv, PastInv, DueInv, LastInv, Fired, InWindow
  <2>5. Late' = Late /\ \A d \in Devices : Unmarked(d)' = Unmarked(d)
    BY <2>1 DEF Late, Ahead, Held, Spare, Round, Unmarked, Fired
  <2>6. used.jump = 0 => TimeInv'
    BY <1>0, <2>1, <2>5, TimeKept, Constants DEF ClockInv
  <2>. QED
    BY <2>1, <2>2, <2>4, <2>6 DEF ServeInv, ClockInv
<1>. QED
  BY <1>1, <1>2, <1>3, <1>4, <1>5, <1>6, <1>7, <1>8, <1>9, <1>10, <1>11, <1>12 DEF Next

LEMMA InitServe ==
  ASSUME EnoughTime
  PROVE  Init => ServeInv
<1>. SUFFICES ASSUME Init
              PROVE  ServeInv
  OBVIOUS
<1>1. /\ clock = Start /\ up = TRUE /\ tick = FALSE /\ pc = "idle" /\ now = 0
      /\ used = [k \in Kinds |-> 0] /\ row \in [Devices -> [life : {"on", "off"}, plan : Plans]]
      /\ \A d \in Devices : due[d] = None /\ last[d] = None /\ since[d] = Start - 1
  BY DEF Init, Nothing
<1>2. Start \in Nat /\ Start > 0
  BY SchedAssumption DEF Start
<1>3. used.fault = 0 /\ MaxFaults \in Nat
  BY <1>1, SchedAssumption DEF Kinds
<1>4. StageInv
  BY <1>1, <1>3 DEF StageInv
<1>5. PastInv /\ DueInv /\ LastInv
  BY <1>1, <1>2 DEF PastInv, DueInv, LastInv
<1>6. TimeInv
  <2>. SUFFICES ASSUME NEW d \in Devices, NEW s \in Unmarked(d)
                PROVE  Late < s + Limit + (IF due[d] = s THEN Round ELSE 0)
    BY DEF TimeInv
  <2>1. s \in Int /\ s = clock
    BY <1>1, <1>2, CalendarSlots DEF Unmarked
  <2>2. due[d] # s
    BY <1>1, <2>1, SchedAssumption
  <2>3. /\ Round \in Nat /\ Limit = MaxFaults * Round + Round + 1 /\ MaxFaults * Round \in Nat
        /\ Limit \in Nat
    BY RoundType DEF EnoughTime
  <2>4. Spare = MaxFaults * Round
    BY <1>3 DEF Spare
  <2>5. Ahead \in Int /\ Ahead <= Round /\ Late = clock + Ahead + Spare
    BY InitType, <1>4, AheadType DEF EnoughTime
  <2>6. PICK m \in Nat : m = MaxFaults * Round
    BY <2>3
  <2>7. Spare = m /\ Limit = m + Round + 1
    BY <2>3, <2>4, <2>6
  <2>8. Late < s + Limit
    BY <2>1, <2>3, <2>5, <2>6, <2>7
  <2>. QED
    BY <2>2, <2>3, <2>1, <2>8
<1>. QED
  BY <1>4, <1>5, <1>6 DEF ServeInv, ClockInv

\* While the process runs, the clock goes and the row stays as it is, no slot
\* is left out: the window of a device's slot does not close before the device
\* is marked or about to be, for any number of devices, when the window is at
\* most a day and holds the rounds that failures and slow reboots may cost.
THEOREM EverySlotIsServed ==
  ASSUME EnoughTime
  PROVE  Spec => []SlotServed
<1>1. TypeOK /\ ServeInv => SlotServed
  <2>. SUFFICES ASSUME TypeOK, ServeInv, used.jump = 0, NEW d \in Devices, up,
                       row[d].life = "on", NEW s \in Calendar(row[d].plan),
                       since[d] < s, s + Catchup <= clock, due[d] # s, ~Fired(d, s)
                PROVE  FALSE
    BY DEF SlotServed, Fired
  <2>1. s \in Int /\ clock \in Int /\ Catchup \in Nat
    BY CalendarSlots, SchedAssumption DEF TypeOK, Rows, Start
  <2>2. s \in Unmarked(d)
    BY <2>1 DEF Unmarked
  <2>3. s + Catchup > clock
    BY <2>2, UnmarkedIsOpen DEF ServeInv
  <2>. QED
    BY <2>1, <2>3
<1>. QED
  BY <1>1, InitServe, NextServe, TypeCorrect, PTL DEF Spec
=============================================================================
