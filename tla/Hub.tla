--------------------------------- MODULE Hub ---------------------------------
(***************************************************************************)
(* The live feed: the WebSocket hub (internal/wshub/hub.go) with the two   *)
(* pumps of each of its clients, the broadcasts and tables of the poller   *)
(* that it serves (poller/manager.go), and a page of the frontend that     *)
(* subscribes to it (hooks/useWebSocket.js with the pages that use it).    *)
(*                                                                         *)
(* The three kinds of broadcast go the same way.  What is broadcast is a   *)
(* version: each change of a table has its own, and later ones are larger. *)
(* The hub treats each connection by itself, so one page is enough; it has *)
(* several connections, one after another, since the server may take its   *)
(* time to see that one is lost.                                           *)
(***************************************************************************)
EXTENDS Naturals, Sequences

CONSTANTS
    Devices,
    Conns,       \* identities of connections, each with its client and pumps
    Kinds,       \* the kinds of broadcast considered
    None,
    SendCap,     \* capacity of client.send
    InFlight,    \* bound: frames from the page that the server has not read
    MaxChanges,  \* bound: changes of a table
    MaxEvents    \* bound: lost connections, failed requests, crashes, and
                 \* workers that are stopped or replaced

Entries  == Devices \X Kinds
Versions == 0 .. MaxChanges
Tables   == [Entries -> Versions]
Messages == [entry : Entries, val : Versions]
Broadcasts ==
    [entry : Entries, val : Versions, sending : BOOLEAN, todo : SUBSET Conns]

ASSUME HubAssumption ==
    /\ Kinds \subseteq {"status", "device_stats", "sample"}
    /\ None \notin Conns /\ None \notin Tables /\ None \notin Broadcasts
    /\ SendCap \in Nat \ {0} /\ InFlight \in Nat \ {0}
    /\ MaxChanges \in Nat /\ MaxEvents \in Nat

VARIABLES
    cur,         \* Manager.status, stats and latest: 0 where nothing is stored
    pub,         \* the broadcast a device's worker is in
    ver,         \* the number of changes, and so the last version
    clients,     \* Hub.clients
    conn,        \* the connection: up, broken, or closed by the server
    inbox,       \* frames from the page
    subs,        \* client.deviceIDs
    send,        \* client.send
    closed,      \* whether client.send is closed
    rpc, step, left, batch, \* readPump: where it is, and the snapshot it sends
    wpc,         \* writePump: running or returned
    page,        \* which page it is
    loaded, want,\* whether it has its devices, and the ids it subscribes to
    view,        \* the versions it shows
    dirty,       \* a state was set, so that it renders again
    rest,        \* the answer to its request, on its way
    link,        \* wsRef.current
    events,
    told,        \* history: the last version broadcast
    behind,      \* history: entries whose last message was lost, or was a
                 \* snapshot older than the table
    aged         \* history: entries in whose place an answer to the page's
                 \* request put an older version

tableVars  == <<cur, pub, ver>>
readerVars == <<rpc, step, left, batch>>
connVars   == <<clients, conn, inbox, subs, send, closed, readerVars, wpc>>
pageVars   == <<page, loaded, want, view, dirty, rest, link>>
history    == <<told, behind, aged>>
vars       == <<tableVars, connVars, pageVars, events, history>>

-----------------------------------------------------------------------------
\* In the order in which a subscription is answered.
Ask(k) == IF k \in Kinds THEN <<k>> ELSE <<>>
Asked  == Ask("status") \o Ask("device_stats") \o Ask("sample")

Empty  == [e \in Entries |-> 0]

Event == events < MaxEvents /\ events' = events + 1

Idle(c) == rpc[c] = "ended" /\ wpc[c] = "ended" /\ link # c

\* Goroutines that hold the hub's read lock.
Sending(d) == pub[d] # None /\ pub[d].sending
RLocked == \E d \in Devices : Sending(d)

Init ==
    /\ cur = Empty /\ told = Empty /\ view = Empty
    /\ pub = [d \in Devices |-> None] /\ ver = 0
    /\ clients = {}
    /\ conn = [c \in Conns |-> "closed"]
    /\ inbox = [c \in Conns |-> <<>>] /\ send = [c \in Conns |-> <<>>]
    /\ subs = [c \in Conns |-> {}] /\ closed = [c \in Conns |-> TRUE]
    /\ rpc = [c \in Conns |-> "ended"] /\ wpc = [c \in Conns |-> "ended"]
    /\ step = [c \in Conns |-> 1]
    /\ left = [c \in Conns |-> {}] /\ batch = [c \in Conns |-> {}]
    /\ page \in {"dashboard", "detail"}
    /\ loaded = FALSE /\ dirty = FALSE /\ rest = None /\ link = None
    /\ want \in {{}} \cup {{d} : d \in Devices}
    /\ page = "dashboard" <=> want = {}
    /\ events = 0
    /\ behind = [c \in Conns |-> {}] /\ aged = {}

-----------------------------------------------------------------------------
(* The poller: a table changes under its mutex, which is then released.    *)

Change(e) ==
    /\ pub[e[1]] = None
    /\ ver < MaxChanges
    /\ ver' = ver + 1
    /\ cur' = [cur EXCEPT ![e] = ver']
    /\ pub' = [pub EXCEPT ![e[1]] = [entry |-> e, val |-> ver', sending |-> FALSE, todo |-> {}]]
    /\ UNCHANGED <<connVars, pageVars, events, history>>

\* sync and ReloadDevice forget the state of a device, and tell nobody.
Wipe(d) ==
    /\ Event
    /\ cur' = [e \in Entries |-> IF e[1] = d /\ e[2] # "sample" THEN 0 ELSE cur[e]]
    /\ UNCHANGED <<pub, ver, connVars, pageVars, history>>

\* Broadcast, BroadcastStatus and BroadcastDeviceStats.
Offering(d, C) ==
    pub' = [pub EXCEPT ![d] = IF C = {} THEN None
                              ELSE [@ EXCEPT !.sending = TRUE, !.todo = C]]

BroadcastBegin(d) ==
    /\ pub[d] # None /\ ~pub[d].sending
    /\ told' = [told EXCEPT ![pub[d].entry] = pub[d].val]
    /\ Offering(d, clients)
    /\ UNCHANGED <<cur, ver, connVars, pageVars, events, behind, aged>>

\* What the test of deviceIDs may say.  While readPump fills the map, which it
\* does without the lock, it may say anything.
Passes(c, d) ==
    IF rpc[c] = "fill" THEN BOOLEAN ELSE {subs[c] # {} => d \in subs[c]}

\* An offer to a client's channel; a full channel loses the message.
Offer_blocks(c, m, stale) ==
    /\ Len(send[c]) < SendCap
    /\ send' = [send EXCEPT ![c] = Append(@, m)]
    /\ behind' = [behind EXCEPT ![c] = IF stale THEN @ \cup {m.entry} ELSE @ \ {m.entry}]
    /\ UNCHANGED aged
Offer(c, m, stale) ==
    LET fits == Len(send[c]) < SendCap
    IN  /\ send' = IF fits THEN [send EXCEPT ![c] = Append(@, m)] ELSE send
        /\ behind' = [behind EXCEPT ![c] = IF fits /\ ~stale THEN @ \ {m.entry}
                                           ELSE @ \cup {m.entry}]
        /\ aged' = IF fits /\ ~stale /\ c = link THEN aged \ {m.entry} ELSE aged

BroadcastTo(d, c) ==
    /\ Sending(d) /\ c \in pub[d].todo
    /\ \E pass \in Passes(c, d) :
          IF pass THEN Offer(c, [entry |-> pub[d].entry, val |-> pub[d].val], FALSE)
          ELSE UNCHANGED <<send, behind, aged>>
    /\ Offering(d, pub[d].todo \ {c})
    /\ UNCHANGED <<cur, ver, clients, conn, inbox, subs, closed, readerVars, wpc,
                   pageVars, events, told>>

-----------------------------------------------------------------------------
(* readPump.                                                               *)

\* The rest of HandleWS, once the connection is upgraded.
HandleWS(c) ==
    /\ rpc[c] = "new"
    /\ clients' = clients \cup {c}
    /\ closed' = [closed EXCEPT ![c] = FALSE]
    /\ send' = [send EXCEPT ![c] = <<>>]
    /\ rpc' = [rpc EXCEPT ![c] = "read"]
    /\ wpc' = [wpc EXCEPT ![c] = "run"]
    /\ UNCHANGED <<tableVars, conn, inbox, subs, step, left, batch, pageVars,
                   events, history>>

\* A subscription comes, and deviceIDs is made anew.
Subscribe(c) ==
    /\ rpc[c] = "read" /\ conn[c] = "up"
    /\ inbox[c] # <<>>
    /\ inbox' = [inbox EXCEPT ![c] = Tail(@)]
    /\ subs' = [subs EXCEPT ![c] = Head(inbox[c])]
    /\ rpc' = [rpc EXCEPT ![c] = "fill"]
    /\ UNCHANGED <<tableVars, clients, conn, send, closed, step, left, batch, wpc,
                   pageVars, events, history>>

\* The n-th answer to the subscription comes next, if there is one.
Answer(c, n) ==
    LET more == subs[c] # {} /\ n <= Len(Asked)
    IN  /\ rpc' = [rpc EXCEPT ![c] = IF more THEN "load" ELSE "read"]
        /\ step' = [step EXCEPT ![c] = IF more THEN n ELSE 1]
        /\ left' = [left EXCEPT ![c] = IF more THEN subs[c] ELSE {}]

Filled(c) ==
    /\ rpc[c] = "fill"
    /\ Answer(c, 1)
    /\ UNCHANGED <<tableVars, clients, conn, inbox, subs, send, closed, batch, wpc,
                   pageVars, events, history>>

\* GetStatus and GetDeviceStats read their table under one lock, GetSnapshot
\* takes it for each device.  A device without an entry is offline, and has no
\* figures and no sample.
Stored(D, k) ==
    {[entry |-> <<d, k>>, val |-> cur[<<d, k>>]] :
        d \in {d \in D : k = "status" \/ cur[<<d, k>>] # 0}}

GetSnapshot(c) ==
    /\ rpc[c] = "load"
    /\ LET k == Asked[step[c]] IN
       \E D \in IF k = "sample" THEN {{d} : d \in left[c]} ELSE {left[c]} :
          /\ batch' = [batch EXCEPT ![c] = @ \cup Stored(D, k)]
          /\ IF left[c] = D /\ batch'[c] = {}
             THEN Answer(c, step[c] + 1)
             ELSE /\ left' = [left EXCEPT ![c] = @ \ D]
                  /\ rpc' = [rpc EXCEPT ![c] = IF left[c] = D THEN "push" ELSE "load"]
                  /\ UNCHANGED step
    /\ UNCHANGED <<tableVars, clients, conn, inbox, subs, send, closed, wpc,
                   pageVars, events, history>>

\* The entries go out in the order of the ids, which is the page's.
PushSnapshot(c) ==
    /\ rpc[c] = "push"
    /\ \E m \in batch[c] :
          /\ Offer(c, m, m.val # cur[m.entry])
          /\ batch' = [batch EXCEPT ![c] = @ \ {m}]
    /\ IF batch'[c] = {} THEN Answer(c, step[c] + 1) ELSE UNCHANGED <<rpc, step, left>>
    /\ UNCHANGED <<tableVars, clients, conn, inbox, subs, closed, wpc, pageVars,
                   events, told>>

\* ReadMessage fails: the connection is lost, or nothing came for a minute.
\* First the client leaves the hub, for which it needs the lock alone; then the
\* channel and the connection are closed.
Unregister_unlocked(c) ==
    /\ rpc[c] = "read" /\ conn[c] # "up"
    /\ clients' = clients \ {c}
    /\ rpc' = [rpc EXCEPT ![c] = "close"]
    /\ UNCHANGED <<tableVars, conn, inbox, subs, send, closed, step, left, batch, wpc,
                   pageVars, events, history>>
Unregister_afterWrite(c) ==
    /\ rpc[c] = "read" /\ conn[c] # "up" /\ wpc[c] = "ended"
    /\ ~RLocked
    /\ clients' = clients \ {c}
    /\ rpc' = [rpc EXCEPT ![c] = "close"]
    /\ UNCHANGED <<tableVars, conn, inbox, subs, send, closed, step, left, batch, wpc,
                   pageVars, events, history>>
Unregister(c) ==
    /\ rpc[c] = "read" /\ conn[c] # "up"
    /\ ~RLocked
    /\ clients' = clients \ {c}
    /\ rpc' = [rpc EXCEPT ![c] = "close"]
    /\ UNCHANGED <<tableVars, conn, inbox, subs, send, closed, step, left, batch, wpc,
                   pageVars, events, history>>

CloseSend(c) ==
    /\ rpc[c] = "close"
    /\ closed' = [closed EXCEPT ![c] = TRUE]
    /\ conn' = [conn EXCEPT ![c] = "closed"]
    /\ inbox' = [inbox EXCEPT ![c] = <<>>]
    /\ subs' = [subs EXCEPT ![c] = {}]
    /\ behind' = [behind EXCEPT ![c] = {}]
    /\ rpc' = [rpc EXCEPT ![c] = "ended"]
    /\ UNCHANGED <<tableVars, clients, send, step, left, batch, wpc, pageVars,
                   events, told, aged>>

-----------------------------------------------------------------------------
(* The page.                                                               *)

\* What the page shows: the page of a device no other device, and no figures.
Shown(e) == page = "dashboard" \/ (e[1] \in want /\ e[2] # "device_stats")

\* Whether the page takes the message into its state.  The page of a device
\* keeps the time of the last sample of an interface.
Takes(m) ==
    CASE m.entry[2] = "status"       -> loaded
      [] m.entry[2] = "device_stats" -> page = "dashboard"
      [] OTHER -> page = "dashboard" \/ (m.entry[1] \in want /\ m.val > view[m.entry])

\* What the message is taken for.  The page of a device does not look whose
\* status it is.
Touches(m, e) ==
    \/ m.entry = e
    \/ page = "detail" /\ m.entry[2] = "status" /\ e[2] = "status"

\* Whether the array of ids is another one after the render that follows: on
\* the dashboard it is made from the overview, which both kinds replace; the
\* page of a device makes a new one in each render.
Renews(m) ==
    \/ m.entry[2] = "status" /\ (page = "dashboard" \/ loaded)
    \/ m.entry[2] = "sample" /\ Takes(m)

\* writePump and onmessage.  What is written to a lost connection is lost, until
\* a write or a ping fails, as it does once the connection is closed.
WriteMessage(c) ==
    /\ wpc[c] = "run" /\ send[c] # <<>>
    /\ LET m == Head(send[c]) IN
       IF conn[c] = "up"
       THEN /\ view' = [e \in Entries |-> IF Takes(m) /\ Touches(m, e) THEN m.val ELSE view[e]]
            /\ dirty' = (dirty \/ Renews(m))
       ELSE conn[c] # "closed" /\ UNCHANGED <<view, dirty>>
    /\ send' = [send EXCEPT ![c] = Tail(@)]
    /\ UNCHANGED <<tableVars, clients, conn, inbox, subs, closed, readerVars, wpc,
                   page, loaded, want, rest, link, events, history>>

WriteFails(c) ==
    /\ wpc[c] = "run" /\ conn[c] # "up"
    /\ wpc' = [wpc EXCEPT ![c] = "ended"]
    /\ UNCHANGED <<tableVars, clients, conn, inbox, subs, send, closed, readerVars,
                   pageVars, events, history>>

\* The effect on [deviceIds] runs after a render with another array.
SendSubscribe_once ==
    /\ dirty /\ dirty' = FALSE
    /\ UNCHANGED <<tableVars, connVars, page, loaded, want, view, rest, link, events,
                   history>>
SendSubscribe ==
    /\ dirty /\ dirty' = FALSE
    /\ IF link # None /\ conn[link] = "up"
       THEN /\ Len(inbox[link]) < InFlight
            /\ inbox' = [inbox EXCEPT ![link] = Append(@, want)]
       ELSE UNCHANGED inbox
    /\ UNCHANGED <<tableVars, clients, conn, subs, send, closed, readerVars, wpc, page,
                   loaded, want, view, rest, link, events, history>>

\* The page asks for the state of its devices: the dashboard every 15 seconds,
\* the page of a device once.
Request ==
    /\ rest = None
    /\ page = "dashboard" \/ ~loaded
    /\ rest' = [e \in Entries |-> IF e[2] = "sample" THEN 0 ELSE cur[e]]
    /\ UNCHANGED <<tableVars, connVars, page, loaded, want, view, dirty, link, events,
                   history>>

\* The samples it brings are not the ones of the live view.
Fresh(e) == {told[e], cur[e]}

Replaces(e) ==
    Shown(e) /\ e[2] # "sample" /\ (e[2] = "device_stats" => rest[e] # 0)

Response ==
    /\ rest # None
    /\ view' = [e \in Entries |-> IF Replaces(e) THEN rest[e] ELSE view[e]]
    /\ aged' = aged \cup {e \in Entries : Replaces(e) /\ rest[e] \notin Fresh(e)}
    /\ want' = IF page = "dashboard" THEN Devices ELSE want
    /\ loaded' = TRUE /\ dirty' = TRUE /\ rest' = None
    /\ UNCHANGED <<tableVars, connVars, page, link, events, told, behind>>

\* The dashboard then shows no devices.  The page of a device does not ask
\* again, as if it had not asked.
ResponseFails ==
    /\ rest # None /\ page = "dashboard"
    /\ Event
    /\ rest' = None /\ want' = {}
    /\ loaded' = FALSE /\ dirty' = TRUE
    /\ UNCHANGED <<tableVars, connVars, page, view, link, history>>

\* connect and onopen.
Connect(c) ==
    /\ link = None /\ Idle(c)
    /\ link' = c
    /\ conn' = [conn EXCEPT ![c] = "up"]
    /\ inbox' = [inbox EXCEPT ![c] = <<want>>]
    /\ rpc' = [rpc EXCEPT ![c] = "new"]
    /\ UNCHANGED <<tableVars, clients, subs, send, closed, step, left, batch, wpc, page,
                   loaded, want, view, dirty, rest, events, history>>

\* onclose, after which the page connects anew.
OnClose ==
    /\ link # None /\ conn[link] # "up"
    /\ link' = None
    /\ UNCHANGED <<tableVars, connVars, page, loaded, want, view, dirty, rest, events,
                   history>>

-----------------------------------------------------------------------------
(* Faults.                                                                 *)

LoseConnection(c) ==
    /\ conn[c] = "up"
    /\ Event
    /\ conn' = [conn EXCEPT ![c] = "broken"]
    /\ UNCHANGED <<tableVars, clients, inbox, subs, send, closed, readerVars, wpc,
                   pageVars, history>>

\* A broadcast reads the map that readPump fills, and the runtime notices: the
\* process ends and is started again, with nothing in its tables.
MapRace(d, c) ==
    /\ Sending(d) /\ c \in pub[d].todo /\ rpc[c] = "fill" /\ subs[c] # {}
    /\ Event
    /\ cur' = Empty /\ told' = Empty
    /\ pub' = [e \in Devices |-> None]
    /\ clients' = {}
    /\ conn' = [x \in Conns |-> "closed"]
    /\ inbox' = [x \in Conns |-> <<>>] /\ send' = [x \in Conns |-> <<>>]
    /\ closed' = [x \in Conns |-> TRUE]
    /\ rpc' = [x \in Conns |-> "ended"] /\ wpc' = [x \in Conns |-> "ended"]
    /\ step' = [x \in Conns |-> 1]
    /\ left' = [x \in Conns |-> {}] /\ batch' = [x \in Conns |-> {}]
    /\ subs' = [x \in Conns |-> {}] /\ behind' = [x \in Conns |-> {}]
    /\ UNCHANGED <<ver, pageVars, aged>>

-----------------------------------------------------------------------------
Reader(c) ==
    \/ HandleWS(c) \/ Subscribe(c) \/ Filled(c) \/ GetSnapshot(c) \/ PushSnapshot(c)
    \/ Unregister(c) \/ CloseSend(c)

Writer(c) == WriteMessage(c) \/ WriteFails(c)

Broadcast(d) == BroadcastBegin(d) \/ \E c \in Conns : BroadcastTo(d, c)

Page == SendSubscribe \/ Response \/ OnClose \/ \E c \in Conns : Connect(c)

Next ==
    \/ \E e \in Entries : Change(e)
    \/ \E d \in Devices : Wipe(d) \/ Broadcast(d)
    \/ \E c \in Conns : Reader(c) \/ Writer(c) \/ LoseConnection(c)
    \/ Page \/ Request \/ ResponseFails
    \/ \E d \in Devices, c \in Conns : MapRace(d, c)

Spec == Init /\ [][Next]_vars

\* Goroutines run on; a write may take for ever, but the deadline of the reads
\* does not.
ServerSpec ==
    /\ Spec
    /\ \A d \in Devices : WF_vars(Broadcast(d))
    /\ \A c \in Conns : WF_vars(Reader(c))

\* And so does the browser.
FairSpec == ServerSpec /\ WF_vars(Page)

-----------------------------------------------------------------------------
(* Properties.                                                             *)

TypeOK ==
    /\ cur \in Tables /\ told \in Tables /\ view \in Tables
    /\ ver \in Versions
    /\ \A d \in Devices : pub[d] # None =>
          /\ pub[d].entry \in Entries /\ pub[d].entry[1] = d /\ pub[d].val \in Versions
          /\ pub[d].todo \subseteq Conns
          /\ pub[d].sending <=> pub[d].todo # {}
    /\ clients = {c \in Conns : rpc[c] \notin {"new", "close", "ended"}}
    /\ conn \in [Conns -> {"up", "broken", "closed"}]
    /\ \A c \in Conns : Len(inbox[c]) <= InFlight /\ Len(send[c]) <= SendCap
    /\ subs \in [Conns -> SUBSET Devices]
    /\ \A c \in Conns : send[c] \in Seq(Messages) /\ batch[c] \subseteq Messages
    /\ rpc \in [Conns -> {"new", "read", "fill", "load", "push", "close", "ended"}]
    /\ wpc \in [Conns -> {"run", "ended"}]
    /\ loaded \in BOOLEAN /\ dirty \in BOOLEAN
    /\ want \subseteq Devices
    /\ rest \in Tables \cup {None}
    /\ link \in Conns \cup {None}
    /\ behind \in [Conns -> SUBSET Entries] /\ aged \subseteq Entries

\* No broadcast is about to send to a channel that readPump has closed, which
\* would end the process: a client leaves the hub when no broadcast runs, and
\* its channel is closed after that.
NoSendOnClosed ==
    \A d \in Devices, c \in Conns : Sending(d) /\ c \in pub[d].todo => ~closed[c]

\* What concerns the page: what it shows of the devices it subscribed to.  A
\* snapshot leaves out figures and samples that are not there.
Concerns(c, e) ==
    e[1] \in subs[c] /\ Shown(e) /\ (e[2] # "status" => cur[e] # 0)

\* It is still broadcast to the client, or read or sent for its subscription.
Broadcasting(c, e) ==
    /\ pub[e[1]] # None /\ pub[e[1]].entry = e
    /\ pub[e[1]].sending => c \in pub[e[1]].todo

Answering(c, e) ==
    \/ rpc[c] = "fill"
    \/ /\ rpc[c] \in {"load", "push"}
       /\ \E n \in 1 .. Len(Asked) : n > step[c] /\ Asked[n] = e[2]
    \/ rpc[c] = "load" /\ Asked[step[c]] = e[2] /\ e[1] \in left[c]
    \/ \E m \in batch[c] : m.entry = e

\* The last message of s that touches e, or else v, is one of V.
Ends(s, e, v, V) ==
    /\ \A i \in 1 .. Len(s) :
          Touches(s[i], e) /\ (\A j \in 1 .. Len(s) : j > i => ~Touches(s[j], e))
          => s[i].val \in V
    /\ (\A i \in 1 .. Len(s) : ~Touches(s[i], e)) => v \in V

\* A page without devices shows no status.
Seen(e) == IF e[2] = "status" /\ ~loaded THEN told[e] ELSE view[e]

\* At no time does a connected page miss the newest of an entry: what was last
\* broadcast, or has been stored since, is what it shows or will show once its
\* channel is read; unless that is still on its way, by the broadcast or by the
\* answer to its subscription, or the answer to a request put an older version
\* in its place, and then the page is about to subscribe again.  Excepted are a
\* message that a full channel lost, and a snapshot that a broadcast overtook.
PageFollows ==
    link # None /\ conn[link] = "up" =>
        \A e \in Entries :
            Concerns(link, e) =>
                \/ Broadcasting(link, e) \/ Answering(link, e)
                \/ e \in behind[link]
                \/ e \in aged /\ (dirty \/ inbox[link] # <<>>)
                \/ Ends(send[link], e, Seen(e), Fresh(e))

\* A broadcast ends even if no client reads its connection.
BroadcastEnds == \A d \in Devices : pub[d] # None ~> pub[d] = None

\* A client whose connection is lost leaves the hub, also when its writePump
\* has returned before or hangs in a write.
LostClientLeaves == \A c \in Conns : conn[c] = "broken" ~> c \notin clients

\* useWebSocket.js:63, "Re-subscribe when the device ID list changes": the list
\* of a device's page never does, so it comes to rest.
SubscribesEnd == page = "detail" => <>[]~dirty
=============================================================================
