------------------------------ MODULE LiveChart ------------------------------
(***************************************************************************)
(* A chart of the device's page (frontend/src/pages/DeviceDetail.jsx):     *)
(* history from the database, followed by what arrives over the WebSocket. *)
(* A sample takes both ways: storeSample caches and broadcasts it at once, *)
(* and through the writer's batches it becomes a row, whose time is text   *)
(* in whole seconds, written as local time and read as UTC                 *)
(* (models/samples.go, parseTime).                                         *)
(*                                                                         *)
(* One interface, one page and its connection.  Time is in ticks, of which *)
(* a second has Sec; a sample is the tick it was taken at.  The way to the *)
(* table is a queue (SamplePipeline has its parts), and so is the way      *)
(* through the hub (Hub has the rest of what a page receives).             *)
(***************************************************************************)
EXTENDS Integers, Sequences, SequencesExt, FiniteSets

CONSTANTS
    None,
    Sec,        \* ticks in a second
    Zones,      \* the server's offset from UTC, in ticks: what it may be
    Window,     \* the age of the history that the page asks for
    MaxSamples, \* MAX_SAMPLES
    Cap,        \* the capacity of client.send
    Horizon,    \* bound: the clock
    MaxFaults   \* bound: batches, requests, connections and servers that fail

ASSUME LiveChartAssumption ==
    /\ Sec \in Nat \ {0} /\ Window \in Nat
    /\ Zones \subseteq {z \in Int : z % Sec = 0}
    /\ MaxSamples \in Nat \ {0} /\ Cap \in Nat \ {0}
    /\ Horizon \in Nat \ {0} /\ MaxFaults \in Nat /\ None \notin Int

VARIABLES
    now, zone, faults,
    taken,     \* the last sample that was taken, or 0
    wpc,       \* storeSample: "idle", "broadcast", "send"
    latest,    \* Manager.latest, or None
    pending,   \* samples on their way to the table
    rows,      \* traffic_samples, as the samples they are made of
    link, send, snap, \* connection; client.send; the snapshot readPump holds
    ppc,       \* the page: "load", "ask", "answer", "done", or "failed"
    answer, history, tail, latestTs,
    arrived,   \* history: samples that the page was sent
    early      \* history: of them, those it had when the history arrived

worker == <<taken, wpc, latest>>
table == <<pending, rows>>
conn == <<link, send, snap>>
page == <<ppc, answer, history, tail, latestTs, arrived, early>>
vars == <<now, zone, faults, worker, table, conn, page>>

Init ==
    /\ now = 1 /\ zone \in Zones /\ faults = 0
    /\ taken = 0 /\ wpc = "idle" /\ latest = None
    /\ pending = <<>> /\ rows = <<>>
    /\ link = "down" /\ send = <<>> /\ snap = None
    /\ ppc = "load" /\ answer = <<>> /\ history = <<>>
    /\ tail = <<>> /\ latestTs = None
    /\ arrived = {} /\ early = {}

\* The text that Format makes of a time, and the time that parseTime, and
\* after it the page, makes of this text.
Text(t) == (t \div Sec) * Sec
Parsed_up(text) == text + Sec + zone
Parsed(text) == text + zone

\* A send in a select with an empty default.
Offered(s) == IF Len(send) < Cap THEN Append(send, s) ELSE send
LastN(q, n) == IF Len(q) <= n THEN q ELSE SubSeq(q, Len(q) - n + 1, Len(q))

-----------------------------------------------------------------------------
(* The server.                                                             *)

Advance ==
    /\ now < Horizon /\ now' = now + 1
    /\ UNCHANGED <<zone, faults, worker, table, conn, page>>

CacheSample ==
    /\ wpc = "idle" /\ taken < now
    /\ taken' = now /\ latest' = now /\ wpc' = "broadcast"
    /\ UNCHANGED <<now, zone, faults, table, conn, page>>

\* A connection gets the broadcasts of this device even while its
\* subscription is being made: an empty one stands for all devices.
Broadcast ==
    /\ wpc = "broadcast" /\ wpc' = "send"
    /\ send' = IF link = "up" THEN Offered(taken) ELSE send
    /\ UNCHANGED <<now, zone, faults, taken, latest, table, link, snap, page>>

SendSample ==
    /\ wpc = "send" /\ wpc' = "idle"
    /\ pending' = Append(pending, taken)
    /\ UNCHANGED <<now, zone, faults, taken, latest, rows, conn, page>>

\* A batch becomes rows, or is lost as a whole.
Flush ==
    \E n \in 1 .. Len(pending) :
        /\ pending' = SubSeq(pending, n + 1, Len(pending))
        /\ \/ rows' = rows \o SubSeq(pending, 1, n) /\ UNCHANGED faults
           \/ faults < MaxFaults /\ faults' = faults + 1 /\ UNCHANGED rows
        /\ UNCHANGED <<now, zone, worker, conn, page>>

\* GetTrafficHistory: the texts are compared, and ordered.  Rows are inserted in
\* the order of their times, so that those in the window are the last ones.
GetTrafficHistory ==
    /\ ppc = "ask" /\ ppc' = "answer"
    /\ \E k \in 0 .. Len(rows) :
         /\ \A i \in 1 .. Len(rows) : i > k <=> Text(rows[i]) >= Text(now - Window)
         /\ answer' = SubSeq(rows, k + 1, Len(rows))
    /\ UNCHANGED <<now, zone, faults, worker, table, conn, history, tail, latestTs,
                   arrived, early>>

HandleWS ==
    /\ link = "down" /\ link' = "up"
    /\ UNCHANGED <<now, zone, faults, worker, table, send, snap, page>>

\* The page subscribes when it is connected and after every render, and
\* readPump takes the snapshot and then sends it.
Subscribe ==
    /\ link = "up" /\ snap = None /\ latest # None
    /\ snap' = latest
    /\ UNCHANGED <<now, zone, faults, worker, table, link, send, page>>
PushSnapshot ==
    /\ snap # None /\ snap' = None
    /\ send' = Offered(snap)
    /\ UNCHANGED <<now, zone, faults, worker, table, link, page>>

Lost == link' = "down" /\ send' = <<>> /\ snap' = None
Disconnect ==
    /\ link = "up" /\ faults < MaxFaults /\ faults' = faults + 1
    /\ Lost
    /\ UNCHANGED <<now, zone, worker, table, page>>

\* The server is restarted.  A request that is under way fails.
Restart ==
    /\ faults < MaxFaults /\ faults' = faults + 1
    /\ wpc' = "idle" /\ latest' = None /\ pending' = <<>>
    /\ Lost
    /\ ppc' = IF ppc = "done" THEN "done" ELSE "failed"
    /\ answer' = <<>>
    /\ UNCHANGED <<now, zone, taken, rows, history, tail, latestTs, arrived, early>>

-----------------------------------------------------------------------------
(* The page.                                                               *)

\* load() has the list of interfaces, and the effect asks for the history.
Load ==
    /\ ppc = "load" /\ ppc' = "ask"
    /\ UNCHANGED <<now, zone, faults, worker, table, conn, answer, history, tail, latestTs,
                   arrived, early>>

\* Without the interfaces there is no request; without the history the page
\* goes on with what is live.
LoadFails ==
    /\ ppc \in {"load", "ask", "answer"} /\ ppc' = "failed"
    /\ faults < MaxFaults /\ faults' = faults + 1 /\ answer' = <<>>
    /\ UNCHANGED <<now, zone, worker, table, conn, history, tail, latestTs,
                   arrived, early>>

IsNew(t) == latestTs = None \/ t > latestTs
LoadHistory_unseeded ==
    /\ ppc = "answer" /\ ppc' = "done"
    /\ history' = answer /\ answer' = <<>> /\ early' = ToSet(tail)
    /\ UNCHANGED <<now, zone, faults, worker, table, conn, tail, latestTs, arrived>>
LoadHistory ==
    /\ ppc = "answer" /\ ppc' = "done"
    /\ history' = answer /\ answer' = <<>> /\ early' = ToSet(tail)
    /\ latestTs' = IF answer # <<>> /\ IsNew(Parsed(Text(Last(answer))))
                   THEN Parsed(Text(Last(answer))) ELSE latestTs
    /\ UNCHANGED <<now, zone, faults, worker, table, conn, tail, arrived>>

\* The handler of a message.
Receive_again ==
    /\ send # <<>> /\ send' = Tail(send)
    /\ arrived' = arrived \cup {Head(send)}
    /\ IF IsNew(Head(send)) \/ Head(send) = latestTs
       THEN latestTs' = Head(send) /\ tail' = LastN(Append(tail, Head(send)), MaxSamples)
       ELSE UNCHANGED <<latestTs, tail>>
    /\ UNCHANGED <<now, zone, faults, worker, table, link, snap, ppc, answer, history, early>>
Receive ==
    /\ send # <<>> /\ send' = Tail(send)
    /\ arrived' = arrived \cup {Head(send)}
    /\ IF IsNew(Head(send))
       THEN latestTs' = Head(send) /\ tail' = LastN(Append(tail, Head(send)), MaxSamples)
       ELSE UNCHANGED <<latestTs, tail>>
    /\ UNCHANGED <<now, zone, faults, worker, table, link, snap, ppc, answer, history, early>>

-----------------------------------------------------------------------------
Next ==
    \/ Advance \/ CacheSample \/ Broadcast \/ SendSample \/ Flush \/ GetTrafficHistory
    \/ HandleWS \/ Subscribe \/ PushSnapshot \/ Disconnect \/ Restart
    \/ Load \/ LoadFails \/ LoadHistory \/ Receive

Spec == Init /\ [][Next]_vars

-----------------------------------------------------------------------------
(* Properties.                                                             *)

Samples == 1 .. Horizon

\* Type correctness.
TypeOK ==
    /\ now \in Samples /\ zone \in Zones /\ faults \in 0 .. MaxFaults
    /\ taken \in 0 .. now /\ latest \in Samples \cup {None}
    /\ wpc \in {"idle", "broadcast", "send"}
    /\ link \in {"down", "up"} /\ snap \in Samples \cup {None}
    /\ \A q \in {pending, rows, send, answer, history, tail} : q \in Seq(Samples)
    /\ ppc \in {"load", "ask", "answer", "done", "failed"}
    /\ latestTs \in Int \cup {None}
    /\ arrived \subseteq Samples /\ early \subseteq Samples

\* Live samples are in order and none is twice, although the snapshot of a
\* subscription is read at another time than it is sent and broadcasts overtake
\* it, and although each connection begins with what the last one may have
\* brought already.
LiveInOrder == \A i, j \in DOMAIN tail : i < j => tail[i] < tail[j]

\* The merge that the chart is drawn from.
Chart == IF tail = <<>> THEN history ELSE LastN(history \o tail, MaxSamples)
InLastSecond(t) == history # <<>> /\ Text(t) = Text(Last(history))

\* Where the server's time is UTC the chart reads forward, without a sample
\* that is there twice, whatever order the history, the snapshots and the
\* broadcasts come in.  Two cases are exceptions: live samples that came before
\* the history, which may be part of it, and a sample within the second of the
\* last row, as the row has lost its fraction of a second.
ChartReadsForward ==
    zone = 0 =>
        \A i, j \in DOMAIN Chart :
            i < j => \/ Chart[i] < Chart[j]
                     \/ Chart[j] \in early
                     \/ InLastSecond(Chart[i]) /\ InLastSecond(Chart[j])

\* The page is not behind what it was sent: something as new is shown.  The
\* exception is a server east of UTC, where the last row's time lies in the
\* future as the page reads it and hides all that is not newer.
NeverBehind ==
    \A t \in arrived :
        \/ \E u \in ToSet(history) \cup ToSet(tail) : u >= t
        \/ zone > 0 /\ history # <<>> /\ t <= Text(Last(history)) + zone
=============================================================================
