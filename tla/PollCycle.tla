------------------------------ MODULE PollCycle ------------------------------
(***************************************************************************)
(* From the byte counters of a router to traffic samples: a worker's       *)
(* pollOnce, internal/poller/manager.go, with FetchCountersOn and          *)
(* BytesToBps of internal/mikrotik/client.go.  pollOnce takes the manager's *)
(* lock once per interface, and the baselines of a device are in a map     *)
(* that it picks up at the first; a reload takes the map away and starts   *)
(* another worker, while the stopped one ends its poll, or makes one more. *)
(* Which worker runs when is in Poller; here it is what they compute.      *)
(*                                                                         *)
(* One direction stands for both, which are alike.  A sample is the bytes  *)
(* that are divided by the time elapsed.  Of that time it matters whether  *)
(* it is positive: always, as the clock is monotonic, between two polls of *)
(* a worker, and either way if two workers' polls cross.                   *)
(***************************************************************************)
EXTENDS Integers, FiniteSets, Functions

CONSTANTS
    Ifaces,    \* the monitored interfaces of the device, 1 .. n in their order
    Workers,   \* bound: its workers, 1 .. n, one after the other
    None,
    Replies,   \* bound: for each strategy, the interfaces whose bytes it shows
    Width,     \* counters count modulo Width
    MaxBytes,  \* bound: bytes that pass the interfaces
    MaxResets  \* bound: counters that start anew

Strategies == 1 .. 3
Readings == [bytes : Nat, real : BOOLEAN, seen : Nat, era : Nat]

ASSUME PollCycleAssumption ==
    /\ Ifaces = 1 .. Cardinality(Ifaces)
    /\ Workers = 1 .. Cardinality(Workers) /\ 1 \in Workers
    /\ None \notin Nat \cup Readings
    /\ Replies \subseteq [Strategies -> SUBSET Ifaces]
    /\ Width \in Nat \ {0} /\ MaxBytes \in Nat
    /\ MaxResets \in Nat

VARIABLES
    counter,  \* the router's count for an interface
    shows,    \* the interfaces whose bytes the reply to a strategy has
    there,    \* the interfaces that the router has
    era,      \* resets of an interface's counter, by the router or otherwise
    held,     \* Manager.prev of the device: a map's number, or 0
    maps,     \* the maps made so far: an interface's last reading
    started,  \* the worker that is registered; those before it are stopped
    pc,
    asked,    \* the strategy that a worker tries next
    got,      \* its counters, of the interfaces still to be reported
    map,      \* its prevMap, or 0
    out,      \* the sample it has computed and not yet sent, or None
    passed,   \* history: bytes that passed an interface
    last      \* history: its last reading that was reported, before any reload

router == <<counter, shows, there, era, passed>>
workerVars == <<pc, asked, got, map, out>>
tables == <<held, maps>>
vars == <<router, started, tables, workerVars, last>>

Untaken == [i \in Ifaces |-> None]

Init ==
    /\ counter = [i \in Ifaces |-> 0] /\ passed = counter
    /\ shows \in Replies
    /\ there = Ifaces /\ era = [i \in Ifaces |-> 0]
    /\ held = 0 /\ maps = <<>>
    /\ started = 1
    /\ pc = [w \in Workers |-> "ask"] /\ asked = [w \in Workers |-> 1]
    /\ got = [w \in Workers |-> <<>>]
    /\ map = [w \in Workers |-> 0]
    /\ out = [w \in Workers |-> None] /\ last = Untaken

-----------------------------------------------------------------------------
(* The router.                                                             *)

Resets == FoldFunction(+, 0, era)
Pass(i) ==
    /\ i \in there /\ FoldFunction(+, 0, passed) < MaxBytes
    /\ passed' = [passed EXCEPT ![i] = @ + 1]
    /\ counter' = [counter EXCEPT ![i] = (@ + 1) % Width]
    /\ era' = IF counter[i] + 1 = Width THEN [era EXCEPT ![i] = @ + 1] ELSE era
    /\ UNCHANGED <<shows, there, started, tables, workerVars, last>>

\* A reboot of the router sets all counters to 0.
Reboot ==
    /\ Resets < MaxResets
    /\ counter' = [i \in Ifaces |-> 0]
    /\ era' = [i \in Ifaces |-> era[i] + 1]
    /\ UNCHANGED <<shows, there, passed, started, tables, workerVars, last>>

\* An interface goes away, as those of clients do, and comes back with a
\* counter at 0.
Toggle(i) ==
    /\ i \in there => Resets < MaxResets
    /\ there' = IF i \in there THEN there \ {i} ELSE there \cup {i}
    /\ counter' = [counter EXCEPT ![i] = 0]
    /\ era' = [era EXCEPT ![i] = IF i \in there THEN @ + 1 ELSE @]
    /\ UNCHANGED <<shows, passed, started, tables, workerVars, last>>

-----------------------------------------------------------------------------
(* FetchCountersOn.                                                        *)

\* extractCounters: a count that the reply lacks, or that is no number, is 0.
Extracted(s) ==
    [i \in there |-> [bytes |-> IF i \in shows[s] THEN counter[i] ELSE 0,
                      real |-> i \in shows[s] \/ counter[i] = 0,
                      seen |-> passed[i], era |-> era[i]]]
HasNonZero(c) == \E i \in DOMAIN c : c[i].bytes > 0

\* After the last strategy the worker connects again, and keeps the baselines.
NextStrategy(w) ==
    /\ asked' = [asked EXCEPT ![w] = (@ % 3) + 1]
    /\ UNCHANGED <<pc, got, map, out>>

\* The ticker fires, which may win over the stop channel, and the router
\* answers.  A reply whose counts are all 0 is taken only if it is the last.
Answered(w) ==
    /\ pc[w] = "ask" /\ w <= started
    /\ LET c == Extracted(asked[w])
       IN  IF HasNonZero(c) \/ (asked[w] = 3 /\ there # {})
           THEN /\ pc' = [pc EXCEPT ![w] = "report"]
                /\ got' = [got EXCEPT ![w] = c]
                /\ asked' = [asked EXCEPT ![w] = 1]
                /\ UNCHANGED <<map, out>>
           ELSE NextStrategy(w)
    /\ UNCHANGED <<router, started, tables, last>>

\* The router answers with an error.
AnswerFails(w) ==
    /\ pc[w] = "ask" /\ w <= started
    /\ NextStrategy(w)
    /\ UNCHANGED <<router, started, tables, last>>

-----------------------------------------------------------------------------
(* The rest of pollOnce.                                                   *)

\* The map that the worker reads and writes; it is made if there is none.
PrevMap(w) == IF map[w] # 0 THEN map[w]
              ELSE IF held # 0 THEN held ELSE Cardinality(DOMAIN maps) + 1

Delta_signed(cur, prev) == cur.bytes - prev.bytes
\* A count below the last one is that of a counter that was reset.
Delta(cur, prev) == IF cur.bytes >= prev.bytes THEN cur.bytes - prev.bytes ELSE 0

\* BytesToBps reports nothing unless time has passed.
Bytes(cur, prev, later) == IF prev = None \/ ~later THEN 0 ELSE Delta(cur, prev)

Baseline_grown(cur, prev) == IF prev # None /\ cur.bytes < prev.bytes THEN prev ELSE cur
Baseline(cur, prev) == cur

\* The baseline of interface i that worker w reads.
Prev(w, i) == IF PrevMap(w) \in DOMAIN maps THEN maps[PrevMap(w)][i] ELSE None

\* One interface of the loop, under the lock.  The time of a worker's own last
\* reading is earlier.
Report(w, i, later) ==
    LET m == PrevMap(w)
        table == IF m \in DOMAIN maps THEN maps[m] ELSE Untaken
        cur == got[w][i]
    IN  /\ pc[w] = "report"
        /\ i \in DOMAIN got[w] /\ \A j \in DOMAIN got[w] : i <= j
        /\ started = 1 \/ Prev(w, i) = None => later
        /\ out' = [out EXCEPT ![w] = [iface |-> i, bytes |-> Bytes(cur, Prev(w, i), later)]]
        /\ last' = IF started = 1 THEN [last EXCEPT ![i] = cur] ELSE last
        /\ maps' = [k \in DOMAIN maps \cup {m} |->
                      IF k = m THEN [table EXCEPT ![i] = Baseline(cur, Prev(w, i))] ELSE maps[k]]
        /\ held' = IF map[w] = 0 THEN m ELSE held
        /\ map' = [map EXCEPT ![w] = m]
        /\ got' = [got EXCEPT ![w] = [j \in DOMAIN got[w] \ {i} |-> got[w][j]]]
        /\ pc' = [pc EXCEPT ![w] = "send"]
        /\ UNCHANGED <<router, started, asked>>

\* storeSample, after the lock is given back.
StoreSample(w) ==
    /\ pc[w] = "send"
    /\ pc' = [pc EXCEPT ![w] = "report"]
    /\ out' = [out EXCEPT ![w] = None]
    /\ UNCHANGED <<router, started, tables, asked, got, map, last>>

EndPoll(w) ==
    /\ pc[w] = "report" /\ DOMAIN got[w] = {}
    /\ pc' = [pc EXCEPT ![w] = "ask"] /\ map' = [map EXCEPT ![w] = 0]
    /\ UNCHANGED <<router, started, tables, asked, got, out, last>>

\* ReloadDevice: the worker is stopped, the map dropped, another worker started.
ReloadDevice ==
    /\ started + 1 \in Workers
    /\ started' = started + 1
    /\ held' = 0
    /\ last' = Untaken
    /\ UNCHANGED <<router, maps, workerVars>>

Next ==
    \/ \E i \in Ifaces : Pass(i) \/ Toggle(i)
    \/ Reboot
    \/ \E w \in Workers : \/ Answered(w) \/ AnswerFails(w)
                          \/ StoreSample(w) \/ EndPoll(w)
                          \/ \E i \in Ifaces, later \in BOOLEAN : Report(w, i, later)
    \/ ReloadDevice

Spec == Init /\ [][Next]_vars

-----------------------------------------------------------------------------
(* Properties.                                                             *)

TypeOK ==
    /\ counter \in [Ifaces -> 0 .. Width - 1] /\ passed \in [Ifaces -> 0 .. MaxBytes]
    /\ shows \in [Strategies -> SUBSET Ifaces] /\ there \subseteq Ifaces
    /\ era \in [Ifaces -> Nat]
    /\ held = 0 \/ held \in DOMAIN maps
    /\ \A k \in DOMAIN maps : maps[k] \in [Ifaces -> Readings \cup {None}]
    /\ started \in Workers
    /\ pc \in [Workers -> {"ask", "report", "send"}]
    /\ asked \in [Workers -> Strategies]
    /\ \A w \in Workers : map[w] \in {0} \cup DOMAIN maps /\ DOMAIN got[w] \subseteq Ifaces
    /\ \A w \in Workers : out[w] # None <=> pc[w] = "send"

\* A sample reports no more than what passed between its two readings, and
\* nothing that a reset or a wrapped counter makes up.  Two cases are not so: a
\* stopped worker that reports a reading from before a reset on the baseline of
\* its successor from after it; and a baseline that is no count, as the strategy
\* taken is that of the whole reply, so that an interface whose bytes the reply
\* lacks is read as 0, and another strategy then shows all it ever counted.
Interval(w, i) ==
    LET passing == got[w][i].seen - Prev(w, i).seen IN IF passing > 0 THEN passing ELSE 0
Samples(w) == IF out'[w] \notin {None, out[w]} THEN {out'[w]} ELSE {}
SampleIsTrue ==
    [][\A w \in Workers : \A s \in Samples(w) :
        LET cur == got[w][s.iface]   prev == Prev(w, s.iface)
        IN  prev # None /\ prev.real /\ cur.era >= prev.era =>
                s.bytes \in 0 .. Interval(w, s.iface)]_vars

\* Until a reload, a sample reports all that passed since the last one of its
\* interface, if the same counter ran on: a reset, an interface that the router
\* lacked or a lost connection spoils one sample and delays nothing after it.
SampleIsComplete ==
    [][\A w \in Workers : \A s \in Samples(w) :
        LET cur == got[w][s.iface]   prev == last[s.iface]
        IN  started = 1 /\ prev # None /\ prev.real /\ cur.real /\ cur.era = prev.era =>
                s.bytes = cur.seen - prev.seen]_vars
=============================================================================
