----------------------------- MODULE Hub_proofs -----------------------------
(* Proofs about Hub, for any number of devices, connections and broadcasts  *)
(* at a time: it is well typed, no broadcast sends to a closed channel, and *)
(* a connected page follows what is broadcast and stored.                   *)
EXTENDS Hub, SequenceTheorems, TLAPS

USE DEF history

Served == {"read", "fill", "load", "push"}

-----------------------------------------------------------------------------
(* Types.                                                                  *)

TypedTables ==
    /\ cur \in Tables /\ told \in Tables /\ view \in Tables
    /\ ver \in Versions

TypedPub ==
    /\ pub \in [Devices -> Broadcasts \cup {None}]
    /\ \A d \in Devices : pub[d] # None =>
          /\ pub[d].entry[1] = d
          /\ 0 < pub[d].val /\ pub[d].val <= ver
          /\ pub[d].sending <=> pub[d].todo # {}
    /\ clients \subseteq Conns

TypedReader ==
    /\ subs \in [Conns -> SUBSET Devices]
    /\ closed \in [Conns -> BOOLEAN]
    /\ rpc \in [Conns -> Served \cup {"new", "close", "ended"}]
    /\ left \in [Conns -> SUBSET Devices]
    /\ batch \in [Conns -> SUBSET Messages]
    /\ DOMAIN step = Conns
    /\ \A c \in Conns : rpc[c] \in {"load", "push"} => step[c] \in 1 .. Len(Asked)
    /\ behind \in [Conns -> SUBSET Entries] /\ aged \subseteq Entries

TypedConns ==
    /\ conn \in [Conns -> {"up", "broken", "closed"}]
    /\ inbox \in [Conns -> Seq(SUBSET Devices)]
    /\ send \in [Conns -> Seq(Messages)]
    /\ \A c \in Conns : Len(inbox[c]) <= InFlight /\ Len(send[c]) <= SendCap
    /\ wpc \in [Conns -> {"run", "ended"}]

TypedPage ==
    /\ page \in {"dashboard", "detail"}
    /\ loaded \in BOOLEAN /\ dirty \in BOOLEAN
    /\ want \subseteq Devices
    /\ rest \in Tables \cup {None}
    /\ link \in Conns \cup {None}

Types == TypedTables /\ TypedPub /\ TypedReader /\ TypedConns /\ TypedPage

\* A subscription is answered in all kinds.
Has(s, k) == \E n \in 1 .. Len(s) : s[n] = k

LEMMA ConcatHas ==
  ASSUME NEW s \in Seq(Kinds), NEW t \in Seq(Kinds), NEW k, Has(s, k) \/ Has(t, k)
  PROVE  Has(s \o t, k)
<1>1. /\ Len(s) \in Nat /\ Len(t) \in Nat
      /\ Len(s \o t) = Len(s) + Len(t)
      /\ \A i \in 1 .. Len(s) + Len(t) :
            (s \o t)[i] = IF i <= Len(s) THEN s[i] ELSE t[i - Len(s)]
  BY ConcatProperties, LenProperties
<1>2. CASE Has(s, k)
  <2>1. PICK n \in 1 .. Len(s) : s[n] = k
    BY <1>2 DEF Has
  <2>2. n \in 1 .. Len(s \o t) /\ (s \o t)[n] = k
    BY <1>1, <2>1
  <2>. QED
    BY <2>2 DEF Has
<1>3. CASE Has(t, k)
  <2>1. PICK n \in 1 .. Len(t) : t[n] = k
    BY <1>3 DEF Has
  <2>2. PICK l \in Nat : l = Len(s) + n
    BY <1>1
  <2>3. l \in 1 .. Len(s) + Len(t) /\ ~(l <= Len(s)) /\ l - Len(s) = n
    BY <1>1, <2>2
  <2>4. l \in 1 .. Len(s \o t) /\ (s \o t)[l] = k
    BY <1>1, <2>1, <2>3
  <2>. QED
    BY <2>4 DEF Has
<1>. QED
  BY <1>2, <1>3

LEMMA AskedKinds == Asked \in Seq(Kinds) /\ \A k \in Kinds : Has(Asked, k)
<1>1. ASSUME NEW k
      PROVE  Ask(k) \in Seq(Kinds) /\ (k \in Kinds => Has(Ask(k), k))
  <2>1. CASE k \in Kinds
    <3>1. Ask(k) = <<k>>
      BY <2>1 DEF Ask
    <3>2. <<k>> \in Seq(Kinds) /\ Len(<<k>>) = 1 /\ <<k>>[1] = k
      BY <2>1
    <3>. QED
      BY <3>1, <3>2 DEF Has
  <2>2. CASE k \notin Kinds
    <3>1. Ask(k) = <<>>
      BY <2>2 DEF Ask
    <3>. QED
      BY <2>2, <3>1
  <2>. QED
    BY <2>1, <2>2
<1>2. PICK a \in Seq(Kinds) : a = Ask("status") \o Ask("device_stats")
  BY <1>1, ConcatProperties
<1>3. Asked = a \o Ask("sample")
  BY <1>2 DEF Asked
<1>4. Asked \in Seq(Kinds)
  BY <1>1, <1>3, ConcatProperties
<1>5. ASSUME NEW k \in Kinds
      PROVE  Has(Asked, k)
  <2>1. k \in {"status", "device_stats", "sample"}
    BY HubAssumption
  <2>2. Has(a, k) \/ Has(Ask("sample"), k)
    BY <1>1, <1>2, <2>1, ConcatHas
  <2>. QED
    BY <1>1, <1>3, <2>2, ConcatHas
<1>. QED
  BY <1>4, <1>5

LEMMA InitTypes == Init => Types
<1>. SUFFICES ASSUME Init
              PROVE  Types
  OBVIOUS
<1>0. Empty \in Tables
  BY HubAssumption DEF Empty, Tables, Versions
<1>1. TypedTables
  BY <1>0, HubAssumption DEF Init, TypedTables, Versions
<1>2. TypedPub
  BY DEF Init, TypedPub
<1>3. TypedReader
  BY DEF Init, TypedReader, Served
<1>4. TypedConns
  <2>1. <<>> \in Seq(SUBSET Devices) /\ <<>> \in Seq(Messages) /\ Len(<<>>) = 0
    OBVIOUS
  <2>. QED
    BY <2>1, HubAssumption DEF Init, TypedConns
<1>5. TypedPage
  BY DEF Init, TypedPage
<1>. QED
  BY <1>1, <1>2, <1>3, <1>4, <1>5 DEF Types

\* Steps that leave a part alone.
LEMMA TypesKept ==
  /\ TypedTables /\ UNCHANGED <<cur, told, view, ver>> => TypedTables'
  /\ TypedPub /\ UNCHANGED <<pub, clients, ver>> => TypedPub'
  /\ TypedReader /\ UNCHANGED <<subs, closed, readerVars, behind, aged>> => TypedReader'
  /\ TypedConns /\ UNCHANGED <<conn, inbox, send, wpc>> => TypedConns'
  /\ TypedPage /\ UNCHANGED pageVars => TypedPage'
<1>1. TypedTables /\ UNCHANGED <<cur, told, view, ver>> => TypedTables'
  BY DEF TypedTables
<1>2. TypedPub /\ UNCHANGED <<pub, clients, ver>> => TypedPub'
  BY DEF TypedPub
<1>3. TypedReader /\ UNCHANGED <<subs, closed, readerVars, behind, aged>> => TypedReader'
  BY DEF TypedReader, readerVars
<1>4. TypedConns /\ UNCHANGED <<conn, inbox, send, wpc>> => TypedConns'
  BY DEF TypedConns
<1>5. TypedPage /\ UNCHANGED pageVars => TypedPage'
  BY DEF TypedPage, pageVars
<1>. QED
  BY <1>1, <1>2, <1>3, <1>4, <1>5

-----------------------------------------------------------------------------
(* Parts of the steps, and that they are typed.                            *)

\* What is left of a broadcast.
LEMMA OfferingShape ==
  ASSUME Types, NEW d \in Devices, NEW C \in SUBSET Conns,
         pub[d] # None, Offering(d, C)
  PROVE  /\ pub[d] \in Broadcasts
         /\ pub' \in [Devices -> Broadcasts \cup {None}]
         /\ \A x \in Devices : x # d => pub'[x] = pub[x]
         /\ C = {} => pub'[d] = None
         /\ C # {} =>
               /\ pub'[d] # None /\ pub'[d].sending /\ pub'[d].todo = C
               /\ pub'[d].entry = pub[d].entry /\ pub'[d].val = pub[d].val
<1>1. pub[d] \in Broadcasts
  BY DEF Types, TypedPub
<1>2. CASE C = {}
  BY <1>1, <1>2 DEF Offering, Types, TypedPub
<1>3. CASE C # {}
  <2>1. PICK b : b = [pub[d] EXCEPT !.sending = TRUE, !.todo = C]
    OBVIOUS
  <2>2. /\ b \in Broadcasts /\ b.sending /\ b.todo = C
        /\ b.entry = pub[d].entry /\ b.val = pub[d].val
    BY <1>1, <2>1 DEF Broadcasts
  <2>3. pub' = [pub EXCEPT ![d] = b]
    BY <1>3, <2>1 DEF Offering
  <2>4. b # None
    BY <2>2, HubAssumption
  <2>. QED
    BY <1>1, <1>3, <2>2, <2>3, <2>4 DEF Types, TypedPub
<1>. QED
  BY <1>2, <1>3

LEMMA OfferingTyped ==
  ASSUME Types, NEW d \in Devices, NEW C \in SUBSET Conns,
         pub[d] # None, Offering(d, C), UNCHANGED <<ver, clients>>
  PROVE  TypedPub'
<1>1. /\ pub' \in [Devices -> Broadcasts \cup {None}]
      /\ \A x \in Devices : x # d => pub'[x] = pub[x]
      /\ C = {} => pub'[d] = None
      /\ C # {} =>
            /\ pub'[d] # None /\ pub'[d].sending /\ pub'[d].todo = C
            /\ pub'[d].entry = pub[d].entry /\ pub'[d].val = pub[d].val
  BY OfferingShape
<1>2. ASSUME NEW x \in Devices, pub'[x] # None
      PROVE  /\ pub'[x].entry[1] = x
             /\ 0 < pub'[x].val /\ pub'[x].val <= ver'
             /\ pub'[x].sending <=> pub'[x].todo # {}
  <2>1. CASE x # d
    BY <1>1, <1>2, <2>1 DEF Types, TypedPub
  <2>2. CASE x = d
    BY <1>1, <1>2, <2>2 DEF Types, TypedPub
  <2>. QED
    BY <2>1, <2>2
<1>3. clients' \subseteq Conns
  BY DEF Types, TypedPub
<1>. QED
  BY <1>1, <1>2, <1>3 DEF TypedPub

\* What an offer does: it reaches the end of the channel, or is lost.
LEMMA OfferCases ==
  ASSUME Types, NEW c \in Conns, NEW m \in Messages, NEW stale \in BOOLEAN,
         Offer(c, m, stale)
  PROVE  /\ send' \in [Conns -> Seq(Messages)]
         /\ \A x \in Conns : Len(send'[x]) <= SendCap
         /\ \A x \in Conns : x # c => send'[x] = send[x] /\ behind'[x] = behind[x]
         /\ behind' \in [Conns -> SUBSET Entries]
         /\ behind'[c] \subseteq behind[c] \cup {m.entry}
         /\ behind[c] \subseteq behind'[c] \cup {m.entry}
         /\ \/ send'[c] = Append(send[c], m) /\ (stale => m.entry \in behind'[c])
            \/ send'[c] = send[c] /\ m.entry \in behind'[c]
         /\ aged' \subseteq aged /\ aged \subseteq aged' \cup {m.entry}
         /\ c # link => aged' = aged
<1>1. /\ send \in [Conns -> Seq(Messages)] /\ behind \in [Conns -> SUBSET Entries]
      /\ \A x \in Conns : Len(send[x]) <= SendCap
      /\ m.entry \in Entries
  BY DEF Types, TypedConns, TypedReader, Messages
<1>2. PICK q \in Seq(Messages) : q = Append(send[c], m)
  BY <1>1, AppendProperties
<1>3. Len(q) = Len(send[c]) + 1
  BY <1>1, <1>2, AppendProperties
<1>4. Len(send[c]) \in Nat /\ SendCap \in Nat
  BY <1>1, LenProperties, HubAssumption
<1>5. /\ behind' \in [Conns -> SUBSET Entries]
      /\ \A x \in Conns : x # c => behind'[x] = behind[x]
      /\ behind'[c] \subseteq behind[c] \cup {m.entry}
      /\ behind[c] \subseteq behind'[c] \cup {m.entry}
      /\ ~(Len(send[c]) < SendCap) \/ stale => m.entry \in behind'[c]
  BY <1>1 DEF Offer
<1>8. /\ aged' \subseteq aged /\ aged \subseteq aged' \cup {m.entry}
      /\ c # link => aged' = aged
  BY DEF Offer
<1>6. CASE Len(send[c]) < SendCap
  <2>1. send' = [send EXCEPT ![c] = q]
    BY <1>2, <1>6 DEF Offer
  <2>2. Len(q) <= SendCap
    BY <1>3, <1>4, <1>6
  <2>. QED
    BY <1>1, <1>2, <1>5, <1>8, <2>1, <2>2
<1>7. CASE ~(Len(send[c]) < SendCap)
  <2>1. send' = send
    BY <1>7 DEF Offer
  <2>. QED
    BY <1>1, <1>5, <1>7, <1>8, <2>1
<1>. QED
  BY <1>6, <1>7

\* What a message that is written does to the page.
LEMMA Written ==
  ASSUME Types, NEW c \in Conns, WriteMessage(c)
  PROVE  \E m \in Messages :
           /\ m = Head(send[c]) /\ m.entry \in Entries /\ m.val \in Versions
           /\ send[c] \in Seq(Messages) /\ send[c] # <<>>
           /\ send' = [send EXCEPT ![c] = Tail(@)]
           /\ view' \in Tables
           /\ \A e \in Entries :
                 view'[e] = IF conn[c] = "up" /\ Takes(m) /\ Touches(m, e) THEN m.val
                            ELSE view[e]
<1>1. /\ send[c] \in Seq(Messages) /\ send[c] # <<>>
      /\ send' = [send EXCEPT ![c] = Tail(@)]
      /\ view \in Tables
  BY DEF WriteMessage, Types, TypedConns, TypedTables
<1>2. PICK m \in Messages : m = Head(send[c])
  BY <1>1, HeadTailProperties
<1>3. m.entry \in Entries /\ m.val \in Versions
  BY <1>2 DEF Messages
<1>4. CASE conn[c] = "up"
  <2>1. view' = [e \in Entries |-> IF Takes(m) /\ Touches(m, e) THEN m.val ELSE view[e]]
    BY <1>2, <1>4 DEF WriteMessage
  <2>2. view' \in Tables
    BY <1>1, <1>3, <2>1 DEF Tables
  <2>. QED
    BY <1>1, <1>2, <1>3, <1>4, <2>1, <2>2
<1>5. CASE conn[c] # "up"
  <2>1. view' = view
    BY <1>5 DEF WriteMessage
  <2>. QED
    BY <1>1, <1>2, <1>3, <1>5, <2>1
<1>. QED
  BY <1>4, <1>5

LEMMA AnswerTyped ==
  ASSUME Types, NEW c \in Conns, NEW n \in Nat \ {0}, Answer(c, n)
  PROVE  /\ rpc' \in [Conns -> Served \cup {"new", "close", "ended"}]
         /\ left' \in [Conns -> SUBSET Devices]
         /\ DOMAIN step' = Conns
         /\ \A x \in Conns : x # c => rpc'[x] = rpc[x] /\ step'[x] = step[x]
         /\ rpc'[c] \in {"load", "read"}
         /\ rpc'[c] = "load" => step'[c] = n /\ n <= Len(Asked) /\ left'[c] = subs[c]
         /\ subs[c] # {} /\ n <= Len(Asked) => rpc'[c] = "load"
<1>1. CASE subs[c] # {} /\ n <= Len(Asked)
  BY <1>1 DEF Answer, Types, TypedReader, Served
<1>2. CASE ~(subs[c] # {} /\ n <= Len(Asked))
  BY <1>2 DEF Answer, Types, TypedReader, Served
<1>. QED
  BY <1>1, <1>2

LEMMA StoredTyped ==
  ASSUME Types, NEW D \in SUBSET Devices, NEW k \in Kinds
  PROVE  Stored(D, k) \in SUBSET Messages
<1>1. ASSUME NEW d \in D
      PROVE  [entry |-> <<d, k>>, val |-> cur[<<d, k>>]] \in Messages
  BY DEF Types, TypedTables, Tables, Entries, Messages
<1>. QED
  BY <1>1 DEF Stored

\* What GetSnapshot does: it reads some devices of those left, and with the last
\* of them sends what it has, or goes on.
LEMMA SnapshotCases ==
  ASSUME Types, NEW c \in Conns, GetSnapshot(c)
  PROVE  \E k \in Kinds : \E D \in SUBSET left[c] :
           /\ k = Asked[step[c]] /\ step[c] \in 1 .. Len(Asked) /\ D \in SUBSET Devices
           /\ batch' = [batch EXCEPT ![c] = @ \cup Stored(D, k)]
           /\ \/ left[c] = D /\ batch'[c] = {} /\ Answer(c, step[c] + 1)
              \/ /\ left[c] # D \/ batch'[c] # {}
                 /\ left' = [left EXCEPT ![c] = @ \ D]
                 /\ rpc' = [rpc EXCEPT ![c] = IF left[c] = D THEN "push" ELSE "load"]
                 /\ UNCHANGED step
<1>1. /\ rpc[c] = "load" /\ step[c] \in 1 .. Len(Asked)
      /\ left[c] \subseteq Devices
  BY DEF GetSnapshot, Types, TypedReader
<1>2. PICK k \in Kinds : k = Asked[step[c]]
  BY <1>1, AskedKinds, ElementOfSeq
<1>3. PICK D \in IF k = "sample" THEN {{d} : d \in left[c]} ELSE {left[c]} :
           /\ batch' = [batch EXCEPT ![c] = @ \cup Stored(D, k)]
           /\ IF left[c] = D /\ batch'[c] = {}
              THEN Answer(c, step[c] + 1)
              ELSE /\ left' = [left EXCEPT ![c] = @ \ D]
                   /\ rpc' = [rpc EXCEPT ![c] = IF left[c] = D THEN "push" ELSE "load"]
                   /\ UNCHANGED step
  BY <1>2 DEF GetSnapshot
<1>4. D \subseteq left[c] /\ D \subseteq Devices
  BY <1>1, <1>3
<1>. QED
  BY <1>1, <1>2, <1>3, <1>4

LEMMA BroadcasterTypes ==
  ASSUME Types, NEW d \in Devices,
         (\E e \in Entries : Change(e)) \/ Wipe(d) \/ Broadcast(d)
  PROVE  Types'
<1>1. ASSUME NEW e \in Entries, Change(e)
      PROVE  Types'
  <2>1. ver \in Nat /\ MaxChanges \in Nat /\ ver < MaxChanges /\ ver' = ver + 1
    BY <1>1, HubAssumption DEF Change, Types, TypedTables, Versions
  <2>2. ver' \in Versions /\ 0 < ver' /\ ver <= ver'
    BY <2>1 DEF Versions
  <2>3. TypedTables'
    BY <1>1, <2>2 DEF Change, connVars, pageVars, Types, TypedTables, Tables
  <2>4. PICK b \in Broadcasts : b = [entry |-> e, val |-> ver', sending |-> FALSE, todo |-> {}]
    BY <2>2 DEF Broadcasts
  <2>5. /\ b # None /\ b.entry = e /\ b.val = ver' /\ b.sending = FALSE /\ b.todo = {}
        /\ e[1] \in Devices /\ pub' = [pub EXCEPT ![e[1]] = b]
        /\ clients' = clients
    BY <1>1, <2>4, HubAssumption DEF Change, Entries, connVars
  <2>6. TypedPub'
    <3>1. ASSUME NEW x \in Devices, pub'[x] # None
          PROVE  /\ pub'[x].entry[1] = x
                 /\ 0 < pub'[x].val /\ pub'[x].val <= ver'
                 /\ pub'[x].sending <=> pub'[x].todo # {}
      <4>1. CASE x = e[1]
        <5>1. pub'[x] = b /\ ver' <= ver'
          BY <2>1, <2>5, <4>1 DEF Types, TypedPub
        <5>. QED
          BY <2>2, <2>5, <4>1, <5>1
      <4>2. CASE x # e[1]
        <5>1. /\ pub'[x] = pub[x] /\ pub[x].val \in Nat
          BY <2>5, <3>1, <4>2 DEF Types, TypedPub, Broadcasts, Versions
        <5>. QED
          BY <2>1, <2>2, <3>1, <5>1 DEF Types, TypedPub
      <4>. QED
        BY <4>1, <4>2
    <3>2. pub' \in [Devices -> Broadcasts \cup {None}] /\ clients' \subseteq Conns
      BY <2>4, <2>5 DEF Types, TypedPub
    <3>. QED
      BY <3>1, <3>2 DEF TypedPub
  <2>. QED
    BY <1>1, <2>3, <2>6, TypesKept DEF Change, Types, connVars
<1>2. CASE Wipe(d)
  <2>1. TypedTables'
    BY <1>2, HubAssumption DEF Wipe, connVars, pageVars, Types, TypedTables, Tables, Versions
  <2>. QED
    BY <1>2, <2>1, TypesKept DEF Wipe, Types, connVars
<1>3. CASE BroadcastBegin(d)
  <2>1. TypedTables'
    BY <1>3 DEF BroadcastBegin, connVars, pageVars, Types, TypedTables, TypedPub, Tables,
                Broadcasts
  <2>2. TypedPub'
    BY <1>3, OfferingTyped DEF BroadcastBegin, connVars, Types, TypedPub
  <2>. QED
    BY <1>3, <2>1, <2>2, TypesKept DEF BroadcastBegin, Types, connVars
<1>4. ASSUME NEW c \in Conns, BroadcastTo(d, c)
      PROVE  Types'
  <2>1. /\ pub[d] # None /\ pub[d] \in Broadcasts
        /\ UNCHANGED <<cur, ver, told, clients, conn, inbox, subs, closed, readerVars, wpc,
                       pageVars>>
    BY <1>4 DEF BroadcastTo, Sending, Types, TypedPub
  <2>2. pub[d].todo \ {c} \in SUBSET Conns
    BY <2>1 DEF Broadcasts
  <2>3. TypedPub'
    BY <1>4, <2>1, <2>2, OfferingTyped DEF BroadcastTo
  <2>4. PICK m \in Messages : m = [entry |-> pub[d].entry, val |-> pub[d].val]
    BY <2>1 DEF Broadcasts, Messages
  <2>5. Offer(c, m, FALSE) \/ UNCHANGED <<send, behind, aged>>
    BY <1>4, <2>4 DEF BroadcastTo
  <2>6. /\ send' \in [Conns -> Seq(Messages)]
        /\ \A x \in Conns : Len(send'[x]) <= SendCap
        /\ behind' \in [Conns -> SUBSET Entries] /\ aged' \subseteq Entries
    <3>1. CASE Offer(c, m, FALSE)
      BY <3>1, OfferCases DEF Types, TypedReader
    <3>2. CASE UNCHANGED <<send, behind, aged>>
      BY <3>2 DEF Types, TypedConns, TypedReader
    <3>. QED
      BY <2>5, <3>1, <3>2
  <2>7. TypedConns' /\ TypedReader'
    BY <2>1, <2>6 DEF Types, TypedConns, TypedReader, readerVars
  <2>. QED
    BY <2>1, <2>3, <2>7, TypesKept DEF Types, pageVars
<1>. QED
  BY <1>1, <1>2, <1>3, <1>4 DEF Broadcast

LEMMA ReaderTypes ==
  ASSUME Types, NEW c \in Conns, Reader(c)
  PROVE  Types'
<1>. USE DEF Types
<1>0. /\ <<>> \in Seq(SUBSET Devices) /\ <<>> \in Seq(Messages) /\ Len(<<>>) = 0
      /\ InFlight \in Nat /\ SendCap \in Nat
  BY HubAssumption
<1>1. CASE HandleWS(c)
  <2>1. TypedPub'
    BY <1>1 DEF HandleWS, tableVars, TypedPub
  <2>2. TypedReader' /\ TypedConns'
    BY <1>0, <1>1 DEF HandleWS, TypedReader, TypedConns, Served
  <2>. QED
    BY <1>1, <2>1, <2>2, TypesKept DEF HandleWS, tableVars, pageVars
<1>2. CASE Subscribe(c)
  <2>1. /\ Head(inbox[c]) \in SUBSET Devices /\ Tail(inbox[c]) \in Seq(SUBSET Devices)
        /\ Len(Tail(inbox[c])) = Len(inbox[c]) - 1 /\ Len(inbox[c]) \in Nat
        /\ Len(inbox[c]) <= InFlight
    BY <1>2, HeadTailProperties, LenProperties DEF Subscribe, TypedConns
  <2>2. Len(Tail(inbox[c])) <= InFlight
    BY <1>0, <2>1
  <2>3. TypedConns'
    BY <1>2, <2>1, <2>2 DEF Subscribe, TypedConns
  <2>4. TypedReader'
    BY <1>2, <2>1 DEF Subscribe, TypedReader, Served
  <2>. QED
    BY <1>2, <2>3, <2>4, TypesKept DEF Subscribe, tableVars, pageVars
<1>3. CASE Filled(c)
  <2>1. Answer(c, 1)
    BY <1>3 DEF Filled
  <2>2. TypedReader'
    BY <1>3, <2>1, AnswerTyped DEF Filled, TypedReader
  <2>. QED
    BY <1>3, <2>2, TypesKept DEF Filled, tableVars, pageVars
<1>4. CASE GetSnapshot(c)
  <2>1. PICK k \in Kinds, D \in SUBSET left[c] :
           /\ k = Asked[step[c]] /\ step[c] \in 1 .. Len(Asked) /\ D \in SUBSET Devices
           /\ batch' = [batch EXCEPT ![c] = @ \cup Stored(D, k)]
           /\ \/ left[c] = D /\ batch'[c] = {} /\ Answer(c, step[c] + 1)
              \/ /\ left[c] # D \/ batch'[c] # {}
                 /\ left' = [left EXCEPT ![c] = @ \ D]
                 /\ rpc' = [rpc EXCEPT ![c] = IF left[c] = D THEN "push" ELSE "load"]
                 /\ UNCHANGED step
    BY <1>4, SnapshotCases
  <2>2. batch' \in [Conns -> SUBSET Messages]
    BY <2>1, StoredTyped DEF TypedReader
  <2>3. TypedReader'
    <3>1. CASE Answer(c, step[c] + 1)
      <4>1. PICK n \in Nat \ {0} : n = step[c] + 1
        BY <2>1
      <4>. QED
        BY <1>4, <2>2, <3>1, <4>1, AnswerTyped DEF GetSnapshot, TypedReader
    <3>2. CASE /\ left' = [left EXCEPT ![c] = @ \ D]
               /\ rpc' = [rpc EXCEPT ![c] = IF left[c] = D THEN "push" ELSE "load"]
               /\ UNCHANGED step
      BY <1>4, <2>1, <2>2, <3>2 DEF GetSnapshot, TypedReader, Served
    <3>. QED
      BY <2>1, <3>1, <3>2
  <2>. QED
    BY <1>4, <2>3, TypesKept DEF GetSnapshot, tableVars, pageVars
<1>5. CASE PushSnapshot(c)
  <2>1. PICK m \in batch[c] :
           /\ Offer(c, m, m.val # cur[m.entry])
           /\ batch' = [batch EXCEPT ![c] = @ \ {m}]
    BY <1>5 DEF PushSnapshot
  <2>2. m \in Messages /\ batch' \in [Conns -> SUBSET Messages]
    BY <2>1 DEF TypedReader
  <2>3. /\ send' \in [Conns -> Seq(Messages)]
        /\ \A x \in Conns : Len(send'[x]) <= SendCap
        /\ behind' \in [Conns -> SUBSET Entries] /\ aged' \subseteq Entries
    BY <2>1, <2>2, OfferCases DEF TypedReader
  <2>4. TypedReader'
    <3>1. CASE Answer(c, step[c] + 1)
      <4>1. PICK n \in Nat \ {0} : n = step[c] + 1
        BY <1>5 DEF PushSnapshot, TypedReader
      <4>2. /\ rpc' \in [Conns -> Served \cup {"new", "close", "ended"}]
            /\ left' \in [Conns -> SUBSET Devices]
            /\ DOMAIN step' = Conns
            /\ \A x \in Conns : x # c => rpc'[x] = rpc[x] /\ step'[x] = step[x]
            /\ rpc'[c] \in {"load", "read"}
            /\ rpc'[c] = "load" => step'[c] = n /\ n <= Len(Asked)
        BY <3>1, <4>1, AnswerTyped
      <4>3. UNCHANGED <<subs, closed>>
        BY <1>5 DEF PushSnapshot
      <4>4. \A x \in Conns : rpc'[x] \in {"load", "push"} => step'[x] \in 1 .. Len(Asked)
        BY <4>2 DEF TypedReader
      <4>. QED
        BY <2>2, <2>3, <4>2, <4>3, <4>4 DEF TypedReader
    <3>2. CASE UNCHANGED <<rpc, step, left>>
      BY <1>5, <2>2, <2>3, <3>2 DEF PushSnapshot, TypedReader
    <3>. QED
      BY <1>5, <3>1, <3>2 DEF PushSnapshot
  <2>5. TypedConns'
    BY <1>5, <2>3 DEF PushSnapshot, TypedConns
  <2>. QED
    BY <1>5, <2>4, <2>5, TypesKept DEF PushSnapshot, tableVars, pageVars
<1>6. CASE Unregister(c)
  <2>1. TypedPub'
    BY <1>6 DEF Unregister, tableVars, TypedPub
  <2>2. TypedReader'
    BY <1>6 DEF Unregister, TypedReader, Served
  <2>. QED
    BY <1>6, <2>1, <2>2, TypesKept DEF Unregister, tableVars, pageVars
<1>7. CASE CloseSend(c)
  <2>1. TypedReader'
    BY <1>7 DEF CloseSend, TypedReader, Served
  <2>2. TypedConns'
    BY <1>0, <1>7 DEF CloseSend, TypedConns
  <2>. QED
    BY <1>7, <2>1, <2>2, TypesKept DEF CloseSend, tableVars, pageVars
<1>. QED
  BY <1>1, <1>2, <1>3, <1>4, <1>5, <1>6, <1>7 DEF Reader

LEMMA WriterTypes ==
  ASSUME Types, NEW c \in Conns, Writer(c)
  PROVE  Types'
<1>. USE DEF Types
<1>1. CASE WriteMessage(c)
  <2>1. /\ Head(send[c]) \in Messages /\ Tail(send[c]) \in Seq(Messages)
        /\ Len(Tail(send[c])) = Len(send[c]) - 1 /\ Len(send[c]) \in Nat
        /\ Len(send[c]) <= SendCap /\ SendCap \in Nat
    BY <1>1, HeadTailProperties, LenProperties, HubAssumption DEF WriteMessage, TypedConns
  <2>2. Len(Tail(send[c])) <= SendCap
    BY <2>1
  <2>3. TypedConns'
    BY <1>1, <2>1, <2>2 DEF WriteMessage, TypedConns
  <2>5. view' \in Tables /\ dirty' \in BOOLEAN
    BY <1>1, Written DEF WriteMessage, TypedPage
  <2>6. TypedTables' /\ TypedPage'
    BY <1>1, <2>5 DEF WriteMessage, tableVars, TypedTables, TypedPage
  <2>. QED
    BY <1>1, <2>3, <2>6, TypesKept DEF WriteMessage, tableVars
<1>2. CASE WriteFails(c)
  <2>1. TypedConns'
    BY <1>2 DEF WriteFails, TypedConns
  <2>. QED
    BY <1>2, <2>1, TypesKept DEF WriteFails, tableVars, pageVars
<1>. QED
  BY <1>1, <1>2 DEF Writer

LEMMA PageTypes ==
  ASSUME Types, SendSubscribe \/ Response \/ OnClose \/ Request \/ ResponseFails
  PROVE  Types'
<1>. USE DEF Types
<1>1. CASE SendSubscribe
  <2>1. TypedPage'
    BY <1>1 DEF SendSubscribe, TypedPage
  <2>2. CASE link # None /\ conn[link] = "up"
    <3>1. link \in Conns /\ want \in SUBSET Devices /\ InFlight \in Nat
      BY <2>2, HubAssumption DEF TypedPage
    <3>2. PICK q \in Seq(SUBSET Devices) : q = Append(inbox[link], want)
      BY <3>1, AppendProperties DEF TypedConns
    <3>3. Len(q) = Len(inbox[link]) + 1 /\ Len(inbox[link]) \in Nat /\ Len(inbox[link]) < InFlight
      BY <1>1, <2>2, <3>1, <3>2, AppendProperties, LenProperties DEF SendSubscribe, TypedConns
    <3>4. Len(q) <= InFlight
      BY <3>1, <3>3
    <3>5. inbox' = [inbox EXCEPT ![link] = q]
      BY <1>1, <2>2, <3>2 DEF SendSubscribe
    <3>6. TypedConns'
      BY <1>1, <3>1, <3>2, <3>4, <3>5 DEF SendSubscribe, TypedConns
    <3>. QED
      BY <1>1, <2>1, <3>6, TypesKept DEF SendSubscribe, tableVars
  <2>3. CASE ~(link # None /\ conn[link] = "up")
    <3>1. TypedConns'
      BY <1>1, <2>3 DEF SendSubscribe, TypedConns
    <3>. QED
      BY <1>1, <2>1, <3>1, TypesKept DEF SendSubscribe, tableVars
  <2>. QED
    BY <2>2, <2>3
<1>2. CASE Response
  <2>1. rest \in Tables
    BY <1>2 DEF Response, TypedPage
  <2>2. TypedTables'
    BY <1>2, <2>1 DEF Response, tableVars, TypedTables, Tables
  <2>3. TypedPage'
    BY <1>2 DEF Response, TypedPage
  <2>4. TypedReader'
    BY <1>2 DEF Response, connVars, readerVars, TypedReader
  <2>. QED
    BY <1>2, <2>2, <2>3, <2>4, TypesKept DEF Response, tableVars, connVars
<1>3. CASE OnClose
  <2>1. TypedPage'
    BY <1>3 DEF OnClose, TypedPage
  <2>. QED
    BY <1>3, <2>1, TypesKept DEF OnClose, tableVars, connVars
<1>4. CASE Request
  <2>1. rest' \in Tables
    BY <1>4, HubAssumption DEF Request, TypedTables, Tables, Versions
  <2>2. TypedPage'
    BY <1>4, <2>1 DEF Request, TypedPage
  <2>. QED
    BY <1>4, <2>2, TypesKept DEF Request, tableVars, connVars
<1>5. CASE ResponseFails
  <2>1. TypedPage'
    BY <1>5 DEF ResponseFails, TypedPage
  <2>. QED
    BY <1>5, <2>1, TypesKept DEF ResponseFails, tableVars, connVars
<1>. QED
  BY <1>1, <1>2, <1>3, <1>4, <1>5

LEMMA LinkTypes ==
  ASSUME Types, NEW c \in Conns,
         Connect(c) \/ LoseConnection(c) \/ \E d \in Devices : MapRace(d, c)
  PROVE  Types'
<1>. USE DEF Types
<1>0. /\ <<>> \in Seq(SUBSET Devices) /\ <<>> \in Seq(Messages) /\ Len(<<>>) = 0
      /\ InFlight \in Nat \ {0} /\ SendCap \in Nat
  BY HubAssumption
<1>1. CASE Connect(c)
  <2>1. /\ want \in SUBSET Devices
        /\ <<want>> \in Seq(SUBSET Devices) /\ Len(<<want>>) = 1 /\ 1 <= InFlight
    BY <1>0 DEF TypedPage
  <2>2. TypedConns'
    BY <1>1, <2>1 DEF Connect, TypedConns
  <2>3. TypedReader'
    BY <1>1 DEF Connect, TypedReader, Served
  <2>4. TypedPage'
    BY <1>1 DEF Connect, TypedPage
  <2>. QED
    BY <1>1, <2>2, <2>3, <2>4, TypesKept DEF Connect, tableVars
<1>2. CASE LoseConnection(c)
  <2>1. TypedConns'
    BY <1>2 DEF LoseConnection, TypedConns
  <2>. QED
    BY <1>2, <2>1, TypesKept DEF LoseConnection, tableVars, pageVars
<1>3. ASSUME NEW d \in Devices, MapRace(d, c)
      PROVE  Types'
  <2>1. Empty \in Tables
    BY HubAssumption DEF Empty, Tables, Versions
  <2>2. TypedTables'
    BY <1>3, <2>1 DEF MapRace, pageVars, TypedTables
  <2>3. TypedPub'
    BY <1>3 DEF MapRace, TypedPub
  <2>4. TypedReader'
    BY <1>3 DEF MapRace, TypedReader, Served
  <2>5. TypedConns'
    BY <1>0, <1>3 DEF MapRace, TypedConns
  <2>. QED
    BY <1>3, <2>2, <2>3, <2>4, <2>5, TypesKept DEF MapRace
<1>. QED
  BY <1>1, <1>2, <1>3

LEMMA NextTypes == Types /\ [Next]_vars => Types'
<1>. SUFFICES ASSUME Types, [Next]_vars
              PROVE  Types'
  OBVIOUS
<1>1. ASSUME NEW e \in Entries, Change(e)
      PROVE  Types'
  <2>1. e[1] \in Devices
    BY DEF Entries
  <2>. QED
    BY <1>1, <2>1, BroadcasterTypes
<1>2. ASSUME NEW d \in Devices, Wipe(d) \/ Broadcast(d)
      PROVE  Types'
  BY <1>2, BroadcasterTypes
<1>3. ASSUME NEW c \in Conns, LoseConnection(c) \/ Connect(c)
      PROVE  Types'
  BY <1>3, LinkTypes
<1>4. CASE UNCHANGED vars
  BY <1>4, TypesKept DEF vars, tableVars, connVars, pageVars, Types
<1>. QED
  BY <1>1, <1>2, <1>3, <1>4, ReaderTypes, WriterTypes, PageTypes, LinkTypes
     DEF Next, Page

LEMMA TypesInvariant == Spec => []Types
BY InitTypes, NextTypes, PTL DEF Spec

-----------------------------------------------------------------------------
(* No send on a closed channel.  The hub has the clients whose readPump      *)
(* serves them, whose channels are open, and a broadcast that runs is still  *)
(* to be sent to clients of the hub only: none leaves while it runs.         *)

ServedOpen ==
    \A c \in Conns :
        /\ c \in clients <=> rpc[c] \in Served
        /\ rpc[c] \in Served => ~closed[c]

TodoInHub == \A d \in Devices : Sending(d) => pub[d].todo \subseteq clients

FeedInv == ServedOpen /\ TodoInHub

LEMMA InitFeed == Init => FeedInv
BY DEF Init, FeedInv, ServedOpen, TodoInHub, Sending, Served

LEMMA FeedKept == FeedInv /\ UNCHANGED <<pub, clients, closed, rpc>> => FeedInv'
BY DEF FeedInv, ServedOpen, TodoInHub, Sending

\* A step that only changes a broadcast, and leaves it clients of the hub.
LEMMA OfferingFeeds ==
  ASSUME Types, FeedInv, NEW d \in Devices, NEW C \in SUBSET Conns,
         pub[d] # None, C \subseteq clients, Offering(d, C),
         UNCHANGED <<clients, closed, rpc>>
  PROVE  FeedInv'
<1>1. /\ \A x \in Devices : x # d => pub'[x] = pub[x]
      /\ C = {} => pub'[d] = None
      /\ C # {} => pub'[d].todo = C
  BY OfferingShape
<1>2. ServedOpen'
  BY DEF FeedInv, ServedOpen
<1>3. ASSUME NEW x \in Devices, Sending(x)'
      PROVE  pub'[x].todo \subseteq clients'
  BY <1>1, <1>3 DEF FeedInv, TodoInHub, Sending
<1>. QED
  BY <1>2, <1>3 DEF FeedInv, TodoInHub

LEMMA BroadcasterFeeds ==
  ASSUME Types, FeedInv, NEW d \in Devices,
         (\E e \in Entries : e[1] = d /\ Change(e)) \/ Wipe(d) \/ Broadcast(d)
  PROVE  FeedInv'
<1>1. ASSUME NEW e \in Entries, e[1] = d, Change(e)
      PROVE  FeedInv'
  <2>1. /\ pub' \in [Devices -> {pub'[x] : x \in Devices}]
        /\ pub'[d].sending = FALSE
        /\ \A x \in Devices : x # d => pub'[x] = pub[x]
        /\ UNCHANGED <<clients, closed, rpc>>
    BY <1>1 DEF Change, connVars, readerVars, Types, TypedPub
  <2>2. ServedOpen'
    BY <2>1 DEF FeedInv, ServedOpen
  <2>3. ASSUME NEW x \in Devices, Sending(x)'
        PROVE  pub'[x].todo \subseteq clients'
    BY <2>1, <2>3 DEF FeedInv, TodoInHub, Sending
  <2>. QED
    BY <2>2, <2>3 DEF FeedInv, TodoInHub
<1>2. CASE Wipe(d)
  BY <1>2, FeedKept DEF Wipe, connVars, readerVars
<1>3. CASE BroadcastBegin(d)
  BY <1>3, OfferingFeeds DEF BroadcastBegin, connVars, readerVars, Types, TypedPub
<1>4. ASSUME NEW c \in Conns, BroadcastTo(d, c)
      PROVE  FeedInv'
  <2>1. /\ Sending(d) /\ Offering(d, pub[d].todo \ {c})
        /\ UNCHANGED <<clients, closed, rpc>>
    BY <1>4 DEF BroadcastTo, readerVars
  <2>2. /\ pub[d] # None
        /\ pub[d].todo \ {c} \subseteq clients
        /\ pub[d].todo \ {c} \in SUBSET Conns
    BY <2>1 DEF FeedInv, TodoInHub, Types, TypedPub, Sending, Broadcasts
  <2>. QED
    BY <2>1, <2>2, OfferingFeeds
<1>. QED
  BY <1>1, <1>2, <1>3, <1>4 DEF Broadcast

\* readPump goes on to serve its client.
LEMMA ServingFeeds ==
  ASSUME Types, FeedInv, NEW c \in Conns, rpc[c] \in Served,
         \E s \in Served : rpc' = [rpc EXCEPT ![c] = s],
         UNCHANGED <<pub, clients, closed>>
  PROVE  FeedInv'
BY DEF FeedInv, ServedOpen, TodoInHub, Sending, Types, TypedReader

LEMMA ReaderFeeds ==
  ASSUME Types, FeedInv, NEW c \in Conns, Reader(c)
  PROVE  FeedInv'
<1>1. CASE HandleWS(c)
  <2>1. /\ clients' = clients \cup {c}
        /\ closed' = [closed EXCEPT ![c] = FALSE]
        /\ rpc' = [rpc EXCEPT ![c] = "read"]
        /\ UNCHANGED pub
    BY <1>1 DEF HandleWS, tableVars
  <2>2. ServedOpen'
    BY <2>1 DEF FeedInv, ServedOpen, Types, TypedReader, Served
  <2>3. TodoInHub'
    BY <2>1 DEF FeedInv, TodoInHub, Sending
  <2>. QED
    BY <2>2, <2>3 DEF FeedInv
<1>2. CASE Subscribe(c) \/ Filled(c) \/ GetSnapshot(c)
  <2>1. /\ rpc[c] \in Served
        /\ \E s \in Served : rpc' = [rpc EXCEPT ![c] = s]
        /\ UNCHANGED <<pub, clients, closed>>
    BY <1>2 DEF Subscribe, Filled, GetSnapshot, Answer, tableVars, Served
  <2>. QED
    BY <2>1, ServingFeeds
<1>3. CASE PushSnapshot(c)
  <2>1. /\ rpc[c] \in Served
        /\ UNCHANGED rpc \/ \E s \in Served : rpc' = [rpc EXCEPT ![c] = s]
        /\ UNCHANGED <<pub, clients, closed>>
    BY <1>3 DEF PushSnapshot, Answer, tableVars, Served
  <2>. QED
    BY <2>1, ServingFeeds, FeedKept
<1>4. CASE Unregister(c)
  <2>1. /\ \A d \in Devices : ~Sending(d)
        /\ clients' = clients \ {c}
        /\ rpc' = [rpc EXCEPT ![c] = "close"]
        /\ UNCHANGED <<pub, closed>>
    BY <1>4 DEF Unregister, RLocked, tableVars
  <2>2. ServedOpen'
    BY <2>1 DEF FeedInv, ServedOpen, Types, TypedReader, Served
  <2>3. TodoInHub'
    BY <2>1 DEF TodoInHub, Sending
  <2>. QED
    BY <2>2, <2>3 DEF FeedInv
<1>5. CASE CloseSend(c)
  <2>1. /\ rpc[c] = "close"
        /\ closed' = [closed EXCEPT ![c] = TRUE]
        /\ rpc' = [rpc EXCEPT ![c] = "ended"]
        /\ UNCHANGED <<pub, clients>>
    BY <1>5 DEF CloseSend, tableVars
  <2>2. ServedOpen'
    BY <2>1 DEF FeedInv, ServedOpen, Types, TypedReader, Served
  <2>3. TodoInHub'
    BY <2>1 DEF FeedInv, TodoInHub, Sending
  <2>. QED
    BY <2>2, <2>3 DEF FeedInv
<1>. QED
  BY <1>1, <1>2, <1>3, <1>4, <1>5 DEF Reader

LEMMA NextFeed == Types /\ FeedInv /\ [Next]_vars => FeedInv'
<1>. SUFFICES ASSUME Types, FeedInv, [Next]_vars
              PROVE  FeedInv'
  OBVIOUS
<1>1. ASSUME NEW e \in Entries, Change(e)
      PROVE  FeedInv'
  <2>1. e[1] \in Devices
    BY DEF Entries
  <2>. QED
    BY <1>1, <2>1, BroadcasterFeeds
<1>2. ASSUME NEW c \in Conns, Writer(c) \/ LoseConnection(c)
      PROVE  FeedInv'
  BY <1>2, FeedKept DEF Writer, WriteMessage, WriteFails, LoseConnection,
                        tableVars, readerVars
<1>3. CASE SendSubscribe \/ Response \/ OnClose \/ Request \/ ResponseFails
  BY <1>3, FeedKept DEF SendSubscribe, Response, OnClose, Request, ResponseFails,
                        tableVars, connVars, readerVars
<1>4. ASSUME NEW c \in Conns, Connect(c)
      PROVE  FeedInv'
  <2>1. /\ rpc[c] = "ended" /\ rpc' = [rpc EXCEPT ![c] = "new"]
        /\ UNCHANGED <<pub, clients, closed>>
    BY <1>4 DEF Connect, Idle, tableVars
  <2>. QED
    BY <2>1 DEF FeedInv, ServedOpen, TodoInHub, Sending, Types, TypedReader, Served
<1>5. ASSUME NEW d \in Devices, NEW c \in Conns, MapRace(d, c)
      PROVE  FeedInv'
  BY <1>5 DEF MapRace, FeedInv, ServedOpen, TodoInHub, Sending, Served
<1>6. CASE UNCHANGED vars
  BY <1>6, FeedKept DEF vars, tableVars, connVars, readerVars
<1>. QED
  BY <1>1, <1>2, <1>3, <1>4, <1>5, <1>6, BroadcasterFeeds, ReaderFeeds DEF Next, Page

LEMMA FeedInvariant == Spec => []FeedInv
BY InitFeed, NextFeed, TypesInvariant, PTL DEF Spec

\* No broadcast sends to a channel that readPump has closed, however many
\* clients come, subscribe and leave while broadcasts run.
THEOREM ClosedIsNotSentTo == Spec => []NoSendOnClosed
<1>1. Types /\ FeedInv => NoSendOnClosed
  BY DEF Types, TypedPub, Sending, FeedInv, ServedOpen, TodoInHub, NoSendOnClosed
<1>. QED
  BY <1>1, TypesInvariant, FeedInvariant, PTL

\* Every reachable state is well typed: the channels keep to their capacity, and
\* the hub has exactly the clients whose readPump is between HandleWS and close.
THEOREM TypeCorrect == Spec => []TypeOK
<1>1. ASSUME Types, FeedInv
      PROVE  TypeOK
  <2>. USE <1>1 DEF Types
  <2>1. ASSUME NEW d \in Devices, pub[d] # None
        PROVE  /\ pub[d].entry \in Entries /\ pub[d].entry[1] = d /\ pub[d].val \in Versions
               /\ pub[d].todo \subseteq Conns
               /\ pub[d].sending <=> pub[d].todo # {}
    BY <2>1 DEF TypedPub, Broadcasts
  <2>2. clients = {c \in Conns : rpc[c] \notin {"new", "close", "ended"}}
    BY DEF TypedPub, TypedReader, FeedInv, ServedOpen, Served
  <2>3. /\ conn \in [Conns -> {"up", "broken", "closed"}]
        /\ \A c \in Conns : Len(inbox[c]) <= InFlight /\ Len(send[c]) <= SendCap
        /\ subs \in [Conns -> SUBSET Devices]
        /\ \A c \in Conns : send[c] \in Seq(Messages) /\ batch[c] \subseteq Messages
        /\ rpc \in [Conns -> {"new", "read", "fill", "load", "push", "close", "ended"}]
        /\ wpc \in [Conns -> {"run", "ended"}]
        /\ behind \in [Conns -> SUBSET Entries] /\ aged \subseteq Entries
    BY DEF TypedConns, TypedReader, Served
  <2>. QED
    BY <2>1, <2>2, <2>3 DEF TypeOK, TypedTables, TypedPage
<1>. QED
  BY <1>1, TypesInvariant, FeedInvariant, PTL

-----------------------------------------------------------------------------
(* The tables and the broadcasts.  An entry holds what is about to be        *)
(* broadcast, or else what was broadcast last, unless it was wiped.  Nothing *)
(* wipes samples.                                                           *)

Pending(e) == pub[e[1]] # None /\ ~pub[e[1]].sending /\ pub[e[1]].entry = e
Newest(e)  == IF Pending(e) THEN pub[e[1]].val ELSE told[e]

StoredInv ==
    /\ \A e \in Entries : cur[e] = Newest(e) \/ (cur[e] = 0 /\ e[2] # "sample")
    /\ \A d \in Devices : Sending(d) => told[pub[d].entry] = pub[d].val

LEMMA ChangeShape ==
  ASSUME Types, NEW e \in Entries, Change(e)
  PROVE  /\ e[1] \in Devices /\ pub[e[1]] = None
         /\ pub'[e[1]] # None /\ ~pub'[e[1]].sending
         /\ pub'[e[1]].entry = e /\ pub'[e[1]].val = ver'
         /\ \A x \in Devices : x # e[1] => pub'[x] = pub[x]
         /\ cur'[e] = ver' /\ \A x \in Entries : x # e => cur'[x] = cur[x]
         /\ ver \in Nat /\ ver' = ver + 1
         /\ UNCHANGED <<connVars, pageVars, history>>
<1>1. e[1] \in Devices /\ ver \in Nat
  BY HubAssumption DEF Entries, Types, TypedTables, Versions
<1>2. PICK b : b = [entry |-> e, val |-> ver', sending |-> FALSE, todo |-> {}]
  OBVIOUS
<1>3. pub' = [pub EXCEPT ![e[1]] = b] /\ cur' = [cur EXCEPT ![e] = ver'] /\ ver' = ver + 1
  BY <1>2 DEF Change
<1>4. b \in Broadcasts
  BY <1>1, <1>2, <1>3, HubAssumption DEF Broadcasts, Change, Versions
<1>5. b # None /\ ~b.sending /\ b.entry = e /\ b.val = ver'
  BY <1>2, <1>4, HubAssumption
<1>. QED
  BY <1>1, <1>3, <1>5 DEF Change, Types, TypedPub, TypedTables, Tables

LEMMA InitStored == Init => StoredInv
BY DEF Init, StoredInv, Newest, Pending, Sending, Empty, Entries

LEMMA StoredKept == StoredInv /\ UNCHANGED <<cur, pub, told>> => StoredInv'
BY DEF StoredInv, Newest, Pending, Sending

LEMMA BroadcasterStores ==
  ASSUME Types, StoredInv, NEW d \in Devices,
         (\E e \in Entries : e[1] = d /\ Change(e)) \/ Wipe(d) \/ Broadcast(d)
  PROVE  StoredInv'
<1>0. \A x \in Entries : x[1] \in Devices
  BY DEF Entries
<1>1. ASSUME NEW e \in Entries, e[1] = d, Change(e)
      PROVE  StoredInv'
  <2>1. /\ pub[d] = None /\ pub'[d] # None /\ ~pub'[d].sending
        /\ pub'[d].entry = e /\ pub'[d].val = ver'
        /\ \A x \in Devices : x # d => pub'[x] = pub[x]
        /\ cur'[e] = ver' /\ \A x \in Entries : x # e => cur'[x] = cur[x]
        /\ UNCHANGED told
    BY <1>1, ChangeShape
  <2>2. ASSUME NEW x \in Entries
        PROVE  cur'[x] = Newest(x)' \/ (cur'[x] = 0 /\ x[2] # "sample")
    <3>1. CASE x = e
      BY <1>1, <2>1, <3>1 DEF Newest, Pending
    <3>2. CASE x # e
      BY <1>0, <2>1, <3>2 DEF StoredInv, Newest, Pending
    <3>. QED
      BY <3>1, <3>2
  <2>3. ASSUME NEW x \in Devices, Sending(x)'
        PROVE  told'[pub'[x].entry] = pub'[x].val
    BY <2>1, <2>3 DEF StoredInv, Sending
  <2>. QED
    BY <2>2, <2>3 DEF StoredInv
<1>2. CASE Wipe(d)
  BY <1>2 DEF Wipe, StoredInv, Newest, Pending, Sending
<1>3. CASE BroadcastBegin(d)
  <2>1. /\ pub[d] # None /\ ~pub[d].sending /\ Offering(d, clients)
        /\ told' = [told EXCEPT ![pub[d].entry] = pub[d].val]
        /\ UNCHANGED cur
        /\ clients \in SUBSET Conns
    BY <1>3 DEF BroadcastBegin, Types, TypedPub
  <2>2. PICK e \in Entries : e = pub[d].entry
    BY <2>1 DEF Types, TypedPub, Broadcasts
  <2>3. /\ \A x \in Devices : x # d => pub'[x] = pub[x]
        /\ pub'[d] # None => /\ pub'[d].sending
                             /\ pub'[d].entry = e /\ pub'[d].val = pub[d].val
        /\ e[1] = d
    BY <2>1, <2>2, OfferingShape DEF Types, TypedPub
  <2>4. told'[e] = pub[d].val /\ \A x \in Entries : x # e => told'[x] = told[x]
    BY <2>1, <2>2 DEF Types, TypedTables, Tables
  <2>5. ASSUME NEW x \in Entries
        PROVE  cur'[x] = Newest(x)' \/ (cur'[x] = 0 /\ x[2] # "sample")
    <3>1. CASE x = e
      <4>1. ~Pending(x)' /\ Pending(x)
        BY <2>1, <2>2, <2>3, <3>1 DEF Pending
      <4>. QED
        BY <2>1, <2>3, <2>4, <3>1, <4>1 DEF StoredInv, Newest
    <3>2. CASE x # e
      <4>1. Pending(x)' <=> Pending(x)
        BY <1>0, <2>1, <2>2, <2>3, <3>2 DEF Pending
      <4>2. pub'[x[1]] = pub[x[1]] \/ ~Pending(x)
        BY <1>0, <2>1, <2>2, <2>3, <3>2 DEF Pending
      <4>. QED
        BY <2>1, <2>4, <3>2, <4>1, <4>2 DEF StoredInv, Newest
    <3>. QED
      BY <3>1, <3>2
  <2>6. ASSUME NEW x \in Devices, Sending(x)'
        PROVE  told'[pub'[x].entry] = pub'[x].val
    <3>1. CASE x = d
      BY <2>3, <2>4, <2>6, <3>1 DEF Sending
    <3>2. CASE x # d
      <4>1. Sending(x) /\ pub'[x] = pub[x]
        BY <2>3, <2>6, <3>2 DEF Sending
      <4>2. pub[x].entry # e /\ pub[x].entry \in Entries
        BY <2>3, <3>2, <4>1 DEF Types, TypedPub, Sending, Broadcasts
      <4>. QED
        BY <2>4, <4>1, <4>2 DEF StoredInv
    <3>. QED
      BY <3>1, <3>2
  <2>. QED
    BY <2>5, <2>6 DEF StoredInv
<1>4. ASSUME NEW c \in Conns, BroadcastTo(d, c)
      PROVE  StoredInv'
  <2>1. /\ Sending(d) /\ Offering(d, pub[d].todo \ {c})
        /\ UNCHANGED <<cur, told>>
    BY <1>4 DEF BroadcastTo
  <2>2. pub[d] # None /\ pub[d].sending /\ pub[d].todo \ {c} \in SUBSET Conns
    BY <2>1 DEF Types, TypedPub, Sending, Broadcasts
  <2>3. /\ \A x \in Devices : x # d => pub'[x] = pub[x]
        /\ pub'[d] # None => /\ pub'[d].sending
                             /\ pub'[d].entry = pub[d].entry /\ pub'[d].val = pub[d].val
    BY <2>1, <2>2, OfferingShape
  <2>4. ASSUME NEW x \in Entries
        PROVE  Newest(x)' = Newest(x)
    BY <1>0, <2>1, <2>2, <2>3 DEF Newest, Pending
  <2>5. ASSUME NEW x \in Devices, Sending(x)'
        PROVE  told'[pub'[x].entry] = pub'[x].val
    BY <2>1, <2>2, <2>3, <2>5 DEF StoredInv, Sending
  <2>. QED
    BY <2>1, <2>4, <2>5 DEF StoredInv
<1>. QED
  BY <1>1, <1>2, <1>3, <1>4 DEF Broadcast

LEMMA NextStored == Types /\ StoredInv /\ [Next]_vars => StoredInv'
<1>. SUFFICES ASSUME Types, StoredInv, [Next]_vars
              PROVE  StoredInv'
  OBVIOUS
<1>1. ASSUME NEW e \in Entries, Change(e)
      PROVE  StoredInv'
  <2>1. e[1] \in Devices
    BY DEF Entries
  <2>. QED
    BY <1>1, <2>1, BroadcasterStores
<1>2. ASSUME NEW c \in Conns, Reader(c)
      PROVE  StoredInv'
  BY <1>2, StoredKept DEF Reader, HandleWS, Subscribe, Filled, GetSnapshot, PushSnapshot,
                          Unregister, CloseSend, tableVars
<1>3. ASSUME NEW c \in Conns, Writer(c) \/ LoseConnection(c) \/ Connect(c)
      PROVE  StoredInv'
  BY <1>3, StoredKept DEF Writer, WriteMessage, WriteFails, LoseConnection, Connect, tableVars
<1>4. CASE SendSubscribe \/ Response \/ OnClose \/ Request \/ ResponseFails
  BY <1>4, StoredKept DEF SendSubscribe, Response, OnClose, Request, ResponseFails, tableVars
<1>5. ASSUME NEW d \in Devices, NEW c \in Conns, MapRace(d, c)
      PROVE  StoredInv'
  BY <1>5 DEF MapRace, StoredInv, Newest, Pending, Sending, Empty, Entries
<1>6. CASE UNCHANGED vars
  BY <1>6, StoredKept DEF vars, tableVars
<1>. QED
  BY <1>1, <1>2, <1>3, <1>4, <1>5, <1>6, BroadcasterStores DEF Next, Page

LEMMA StoredInvariant == Spec => []StoredInv
BY InitStored, NextStored, TypesInvariant, PTL DEF Spec

-----------------------------------------------------------------------------
(* Connections.  At most the page's own is up; before readPump serves it, it *)
(* has no subscription; readPump holds a snapshot only to send it.           *)

LinkInv ==
    \A c \in Conns :
        /\ conn[c] = "up" => c = link /\ rpc[c] \notin {"close", "ended"}
        /\ rpc[c] \in {"new", "ended"} => subs[c] = {}
        /\ rpc[c] \notin {"load", "push"} => batch[c] = {}

LEMMA InitLink == Init => LinkInv
BY DEF Init, LinkInv

LEMMA LinkKept == LinkInv /\ UNCHANGED <<conn, link, rpc, subs, batch>> => LinkInv'
BY DEF LinkInv

LEMMA ReaderLink ==
  ASSUME Types, LinkInv, NEW c \in Conns, Reader(c)
  PROVE  LinkInv'
<1>1. CASE HandleWS(c)
  BY <1>1 DEF HandleWS, Types, TypedReader, TypedConns, LinkInv, pageVars
<1>2. CASE Subscribe(c)
  BY <1>2 DEF Subscribe, Types, TypedReader, TypedConns, LinkInv, pageVars
<1>3. CASE Filled(c)
  <2>1. Answer(c, 1)
    BY <1>3 DEF Filled
  <2>2. /\ rpc'[c] \in {"load", "read"} /\ rpc[c] = "fill"
        /\ \A x \in Conns : x # c => rpc'[x] = rpc[x]
    BY <1>3, <2>1, AnswerTyped DEF Filled
  <2>. QED
    BY <1>3, <2>2 DEF Filled, LinkInv, pageVars
<1>4. CASE GetSnapshot(c)
  <2>1. PICK k \in Kinds, D \in SUBSET left[c] :
           /\ k = Asked[step[c]] /\ step[c] \in 1 .. Len(Asked) /\ D \in SUBSET Devices
           /\ batch' = [batch EXCEPT ![c] = @ \cup Stored(D, k)]
           /\ \/ left[c] = D /\ batch'[c] = {} /\ Answer(c, step[c] + 1)
              \/ /\ left[c] # D \/ batch'[c] # {}
                 /\ left' = [left EXCEPT ![c] = @ \ D]
                 /\ rpc' = [rpc EXCEPT ![c] = IF left[c] = D THEN "push" ELSE "load"]
                 /\ UNCHANGED step
    BY <1>4, SnapshotCases
  <2>2. PICK n \in Nat \ {0} : n = step[c] + 1
    BY <2>1
  <2>3. /\ rpc'[c] \in {"load", "push"} \/ (rpc'[c] = "read" /\ batch'[c] = {})
        /\ \A x \in Conns : x # c => rpc'[x] = rpc[x] /\ batch'[x] = batch[x]
    <3>1. CASE batch'[c] = {} /\ Answer(c, n)
      BY <2>1, <3>1, AnswerTyped DEF Types, TypedReader
    <3>2. CASE rpc' = [rpc EXCEPT ![c] = IF left[c] = D THEN "push" ELSE "load"]
      BY <2>1, <3>2 DEF Types, TypedReader
    <3>. QED
      BY <2>1, <2>2, <3>1, <3>2
  <2>. QED
    BY <1>4, <2>3 DEF GetSnapshot, LinkInv, pageVars
<1>5. CASE PushSnapshot(c)
  <2>1. PICK m \in batch[c] : batch' = [batch EXCEPT ![c] = @ \ {m}]
    BY <1>5 DEF PushSnapshot
  <2>2. step[c] \in 1 .. Len(Asked)
    BY <1>5 DEF PushSnapshot, Types, TypedReader
  <2>3. PICK n \in Nat \ {0} : n = step[c] + 1
    BY <2>2
  <2>4. /\ rpc'[c] \in {"load", "push"} \/ (rpc'[c] = "read" /\ batch'[c] = {})
        /\ \A x \in Conns : x # c => rpc'[x] = rpc[x] /\ batch'[x] = batch[x]
    <3>1. CASE batch'[c] = {} /\ Answer(c, n)
      BY <2>1, <3>1, AnswerTyped DEF Types, TypedReader
    <3>2. CASE UNCHANGED rpc
      BY <1>5, <2>1, <3>2 DEF PushSnapshot, Types, TypedReader
    <3>. QED
      BY <1>5, <2>3, <3>1, <3>2 DEF PushSnapshot
  <2>. QED
    BY <1>5, <2>4 DEF PushSnapshot, LinkInv, pageVars
<1>6. CASE Unregister(c)
  BY <1>6 DEF Unregister, Types, TypedReader, TypedConns, LinkInv, pageVars
<1>7. CASE CloseSend(c)
  BY <1>7 DEF CloseSend, Types, TypedReader, TypedConns, LinkInv, pageVars
<1>. QED
  BY <1>1, <1>2, <1>3, <1>4, <1>5, <1>6, <1>7 DEF Reader

LEMMA NextLink == Types /\ LinkInv /\ [Next]_vars => LinkInv'
<1>. SUFFICES ASSUME Types, LinkInv, [Next]_vars
              PROVE  LinkInv'
  OBVIOUS
<1>1. ASSUME NEW d \in Devices, Wipe(d) \/ Broadcast(d)
      PROVE  LinkInv'
  BY <1>1, LinkKept DEF Wipe, Broadcast, BroadcastBegin, BroadcastTo, connVars, readerVars,
                        pageVars
<1>2. ASSUME NEW e \in Entries, Change(e)
      PROVE  LinkInv'
  BY <1>2, LinkKept DEF Change, connVars, readerVars, pageVars
<1>3. ASSUME NEW c \in Conns, Writer(c)
      PROVE  LinkInv'
  BY <1>3, LinkKept DEF Writer, WriteMessage, WriteFails, readerVars, pageVars
<1>4. ASSUME NEW c \in Conns, LoseConnection(c)
      PROVE  LinkInv'
  BY <1>4 DEF LoseConnection, LinkInv, readerVars, pageVars, Types, TypedConns
<1>5. ASSUME NEW c \in Conns, Connect(c)
      PROVE  LinkInv'
  <2>1. link = None /\ \A x \in Conns : conn[x] # "up"
    BY <1>5, HubAssumption DEF Connect, LinkInv
  <2>2. /\ conn' = [conn EXCEPT ![c] = "up"]
        /\ UNCHANGED subs
        /\ rpc' = [rpc EXCEPT ![c] = "new"]
        /\ link' = c /\ UNCHANGED batch /\ rpc[c] = "ended"
    BY <1>5 DEF Connect, Idle
  <2>. QED
    BY <2>1, <2>2 DEF LinkInv, Types, TypedConns, TypedReader
<1>6. CASE SendSubscribe
  BY <1>6, LinkKept DEF SendSubscribe, readerVars
<1>7. CASE Response \/ Request \/ ResponseFails
  BY <1>7, LinkKept DEF Response, Request, ResponseFails, connVars, readerVars
<1>8. CASE OnClose
  BY <1>8 DEF OnClose, connVars, readerVars, LinkInv
<1>9. ASSUME NEW d \in Devices, NEW c \in Conns, MapRace(d, c)
      PROVE  LinkInv'
  BY <1>9 DEF MapRace, LinkInv
<1>10. CASE UNCHANGED vars
  BY <1>10, LinkKept DEF vars, connVars, readerVars, pageVars
<1>. QED
  BY <1>1, <1>2, <1>3, <1>4, <1>5, <1>6, <1>7, <1>8, <1>9, <1>10, ReaderLink DEF Next, Page

LEMMA LinkInvariant == Spec => []LinkInv
BY InitLink, NextLink, TypesInvariant, PTL DEF Spec

-----------------------------------------------------------------------------
(* Samples under way to the page.  The one that was broadcast last is the    *)
(* one stored, or the one before; and those under way, as the one shown, are *)
(* older ones or the one stored.  After a crash the page may show a sample   *)
(* that the new process does not know.                                       *)

Under(c) == {send[c][i] : i \in 1 .. Len(send[c])} \cup batch[c]

WasStored(m) ==
    m.entry[2] = "sample" =>
        m.val > 0 /\ (m.val <= told[m.entry] \/ m.val = cur[m.entry])

InOrder(e) ==
    /\ told[e] <= cur[e] /\ cur[e] <= ver /\ view[e] <= ver
    /\ view[e] <= cur[e] \/ cur[e] = 0
    /\ view[e] <= told[e] \/ view[e] = cur[e] \/ told[e] = 0

SampleInv ==
    /\ \A e \in Entries : e[2] = "sample" => InOrder(e)
    /\ \A c \in Conns : \A m \in Under(c) : WasStored(m)

LEMMA InitSample == Init => SampleInv
<1>. SUFFICES ASSUME Init
              PROVE  SampleInv
  OBVIOUS
<1>1. ASSUME NEW c \in Conns
      PROVE  Under(c) = {}
  BY DEF Init, Under
<1>2. \A e \in Entries : InOrder(e)
  BY DEF Init, InOrder, Empty
<1>. QED
  BY <1>1, <1>2 DEF SampleInv

LEMMA NatTables ==
  ASSUME Types
  PROVE  /\ ver \in Nat
         /\ \A e \in Entries : cur[e] \in Nat /\ told[e] \in Nat /\ view[e] \in Nat
         /\ \A c \in Conns : \A m \in Under(c) :
               m \in Messages /\ m.entry \in Entries /\ m.val \in Nat
         /\ \A d \in Devices : pub[d] # None =>
               pub[d] \in Broadcasts /\ pub[d].entry \in Entries /\ pub[d].val \in Nat
<1>1. \A v \in Versions : v \in Nat
  BY HubAssumption DEF Versions
<1>2. ver \in Nat
  BY <1>1 DEF Types, TypedTables
<1>3. ASSUME NEW e \in Entries
      PROVE  cur[e] \in Nat /\ told[e] \in Nat /\ view[e] \in Nat
  BY <1>1 DEF Types, TypedTables, Tables
<1>4. ASSUME NEW c \in Conns, NEW m \in Under(c)
      PROVE  m \in Messages /\ m.entry \in Entries /\ m.val \in Nat
  <2>1. send[c] \in Seq(Messages) /\ batch[c] \in SUBSET Messages
    BY DEF Types, TypedConns, TypedReader
  <2>2. m \in Messages
    BY <2>1, ElementOfSeq DEF Under
  <2>. QED
    BY <1>1, <2>2 DEF Messages
<1>5. ASSUME NEW d \in Devices, pub[d] # None
      PROVE  pub[d] \in Broadcasts /\ pub[d].entry \in Entries /\ pub[d].val \in Nat
  BY <1>1, <1>5 DEF Types, TypedPub, Broadcasts
<1>. QED
  BY <1>2, <1>3, <1>4, <1>5

LEMMA SampleKept == SampleInv /\ UNCHANGED <<cur, told, view, ver, send, batch>> => SampleInv'
BY DEF SampleInv, Under, WasStored, InOrder

\* A step that brings only such samples on their way.
LEMMA SampleQueues ==
  ASSUME SampleInv, UNCHANGED <<cur, told, view, ver>>,
         \A c \in Conns : \A m \in Under(c)' : m \in Under(c) \/ WasStored(m)
  PROVE  SampleInv'
<1>1. ASSUME NEW c \in Conns, NEW m \in Under(c)'
      PROVE  WasStored(m)'
  <2>1. WasStored(m)
    BY DEF SampleInv
  <2>. QED
    BY <2>1 DEF WasStored
<1>2. ASSUME NEW e \in Entries, e[2] = "sample"
      PROVE  InOrder(e)'
  BY <1>2 DEF SampleInv, InOrder
<1>. QED
  BY <1>1, <1>2 DEF SampleInv

LEMMA AppendRange ==
  ASSUME NEW s \in Seq(Messages), NEW m \in Messages
  PROVE  \A i \in 1 .. Len(Append(s, m)) :
            Append(s, m)[i] = m \/ Append(s, m)[i] \in {s[j] : j \in 1 .. Len(s)}
<1>1. /\ Len(Append(s, m)) = Len(s) + 1 /\ Len(s) \in Nat
      /\ \A i \in 1 .. Len(s) : Append(s, m)[i] = s[i]
      /\ Append(s, m)[Len(s) + 1] = m
  BY AppendProperties, LenProperties
<1>. TAKE i \in 1 .. Len(Append(s, m))
<1>2. i \in 1 .. Len(s) \/ i = Len(s) + 1
  BY <1>1
<1>. QED
  BY <1>1, <1>2

LEMMA TailRange ==
  ASSUME NEW s \in Seq(Messages), s # <<>>
  PROVE  /\ Head(s) \in {s[j] : j \in 1 .. Len(s)}
         /\ \A i \in 1 .. Len(Tail(s)) : Tail(s)[i] \in {s[j] : j \in 1 .. Len(s)}
<1>1. /\ Len(Tail(s)) = Len(s) - 1 /\ Len(s) \in Nat /\ Len(s) # 0
      /\ \A i \in 1 .. Len(Tail(s)) : Tail(s)[i] = s[i + 1]
      /\ Head(s) = s[1]
  BY HeadTailProperties, LenProperties, EmptySeq
<1>2. 1 \in 1 .. Len(s)
  BY <1>1
<1>3. \A i \in 1 .. Len(Tail(s)) : i + 1 \in 1 .. Len(s)
  BY <1>1
<1>. QED
  BY <1>1, <1>2, <1>3

LEMMA BroadcasterSample ==
  ASSUME Types, StoredInv, SampleInv, NEW d \in Devices,
         (\E e \in Entries : e[1] = d /\ Change(e)) \/ Wipe(d) \/ Broadcast(d)
  PROVE  SampleInv'
<1>0. /\ ver \in Nat
      /\ \A e \in Entries : cur[e] \in Nat /\ told[e] \in Nat /\ view[e] \in Nat
      /\ \A c \in Conns : \A m \in Under(c) : m.entry \in Entries /\ m.val \in Nat
  BY NatTables
<1>1. ASSUME NEW e \in Entries, e[1] = d, Change(e)
      PROVE  SampleInv'
  <2>1. /\ cur'[e] = ver' /\ \A x \in Entries : x # e => cur'[x] = cur[x]
        /\ pub[d] = None /\ ver' = ver + 1
        /\ UNCHANGED <<told, view, send, batch>>
    BY <1>1, ChangeShape DEF connVars, readerVars, pageVars
  <2>2. e[2] = "sample" => cur[e] = told[e]
    BY <1>1, <2>1 DEF StoredInv, Newest, Pending
  <2>3. ASSUME NEW x \in Entries, x[2] = "sample"
        PROVE  InOrder(x)'
    <3>1. InOrder(x) /\ cur[x] \in Nat /\ told[x] \in Nat /\ view[x] \in Nat
      BY <1>0, <2>3 DEF SampleInv
    <3>2. CASE x = e
      BY <1>0, <2>1, <2>2, <2>3, <3>1, <3>2 DEF InOrder
    <3>3. CASE x # e
      BY <1>0, <2>1, <3>1, <3>3 DEF InOrder
    <3>. QED
      BY <3>2, <3>3
  <2>4. ASSUME NEW c \in Conns, NEW m \in Under(c)'
        PROVE  WasStored(m)'
    <3>1. m \in Under(c)
      BY <2>1, <2>4 DEF Under
    <3>2. WasStored(m) /\ m.entry \in Entries /\ m.val \in Nat
      BY <1>0, <3>1 DEF SampleInv
    <3>3. CASE m.entry = e
      BY <1>0, <2>1, <2>2, <3>2, <3>3 DEF WasStored
    <3>4. CASE m.entry # e
      BY <2>1, <3>2, <3>4 DEF WasStored
    <3>. QED
      BY <3>3, <3>4
  <2>. QED
    BY <2>3, <2>4 DEF SampleInv
<1>2. CASE Wipe(d)
  <2>1. /\ UNCHANGED <<told, view, ver, send, batch>>
        /\ \A e \in Entries : e[2] = "sample" => cur'[e] = cur[e]
    BY <1>2 DEF Wipe, connVars, readerVars, pageVars
  <2>2. ASSUME NEW c \in Conns, NEW m \in Under(c)'
        PROVE  WasStored(m)'
    <3>1. m \in Under(c)
      BY <2>1, <2>2 DEF Under
    <3>. QED
      BY <1>0, <2>1, <3>1 DEF SampleInv, WasStored
  <2>3. ASSUME NEW e \in Entries, e[2] = "sample"
        PROVE  InOrder(e)'
    BY <2>1, <2>3 DEF SampleInv, InOrder
  <2>. QED
    BY <2>2, <2>3 DEF SampleInv
<1>3. CASE BroadcastBegin(d)
  <2>1. /\ pub[d] # None /\ ~pub[d].sending
        /\ told' = [told EXCEPT ![pub[d].entry] = pub[d].val]
        /\ UNCHANGED <<cur, view, ver, send, batch>>
    BY <1>3 DEF BroadcastBegin, connVars, readerVars, pageVars
  <2>2. PICK e \in Entries : e = pub[d].entry
    BY <2>1, NatTables
  <2>3. /\ told'[e] = pub[d].val /\ \A x \in Entries : x # e => told'[x] = told[x]
        /\ 0 < pub[d].val /\ pub[d].val \in Nat /\ e[1] = d
    BY <2>1, <2>2, NatTables DEF Types, TypedTables, Tables, TypedPub
  <2>4. e[2] = "sample" => cur[e] = told'[e]
    BY <2>1, <2>2, <2>3 DEF StoredInv, Newest, Pending
  <2>5. ASSUME NEW x \in Entries, x[2] = "sample"
        PROVE  InOrder(x)'
    <3>1. InOrder(x) /\ cur[x] \in Nat /\ told[x] \in Nat /\ view[x] \in Nat
      BY <1>0, <2>5 DEF SampleInv
    <3>2. CASE x = e
      BY <1>0, <2>1, <2>3, <2>4, <2>5, <3>1, <3>2 DEF InOrder
    <3>3. CASE x # e
      BY <2>1, <2>3, <3>1, <3>3 DEF InOrder
    <3>. QED
      BY <3>2, <3>3
  <2>6. ASSUME NEW c \in Conns, NEW m \in Under(c)'
        PROVE  WasStored(m)'
    <3>1. m \in Under(c)
      BY <2>1, <2>6 DEF Under
    <3>2. WasStored(m) /\ m.entry \in Entries /\ m.val \in Nat
      BY <1>0, <3>1 DEF SampleInv
    <3>3. CASE m.entry = e /\ e[2] = "sample"
      <4>1. told[e] <= cur[e] /\ cur[e] \in Nat /\ told[e] \in Nat
        BY <1>0, <3>3 DEF SampleInv, InOrder
      <4>2. m.val <= cur[e]
        BY <3>2, <3>3, <4>1 DEF WasStored
      <4>. QED
        BY <2>1, <2>4, <3>2, <3>3, <4>2 DEF WasStored
    <3>4. CASE m.entry # e
      BY <2>1, <2>3, <3>2, <3>4 DEF WasStored
    <3>5. CASE e[2] # "sample" /\ m.entry = e
      BY <3>5 DEF WasStored
    <3>. QED
      BY <3>3, <3>4, <3>5
  <2>. QED
    BY <2>5, <2>6 DEF SampleInv
<1>4. ASSUME NEW c \in Conns, BroadcastTo(d, c)
      PROVE  SampleInv'
  <2>1. /\ Sending(d) /\ pub[d] # None
        /\ UNCHANGED <<cur, told, view, ver, batch>>
    BY <1>4 DEF BroadcastTo, Sending, readerVars, pageVars
  <2>2. PICK m \in Messages : m = [entry |-> pub[d].entry, val |-> pub[d].val]
    BY <2>1, ZenonT(60) DEF Types, TypedPub, Broadcasts, Messages
  <2>3. WasStored(m)
    BY <2>1, <2>2, NatTables DEF StoredInv, Types, TypedPub, WasStored
  <2>4. Offer(c, m, FALSE) \/ UNCHANGED send
    BY <1>4, <2>2 DEF BroadcastTo
  <2>5. ASSUME NEW x \in Conns, NEW y \in Under(x)'
        PROVE  y \in Under(x) \/ WasStored(y)
    <3>1. send[x] \in Seq(Messages)
      BY DEF Types, TypedConns
    <3>2. send'[x] = send[x] \/ send'[x] = Append(send[x], m)
      BY <2>4, OfferCases
    <3>3. CASE send'[x] = send[x]
      BY <2>1, <3>3 DEF Under
    <3>4. CASE send'[x] = Append(send[x], m)
      <4>1. y = m \/ y \in Under(x)
        BY <2>1, <2>5, <3>1, <3>4, AppendRange DEF Under
      <4>. QED
        BY <2>3, <4>1
    <3>. QED
      BY <3>2, <3>3, <3>4
  <2>. QED
    BY <2>1, <2>5, SampleQueues
<1>. QED
  BY <1>1, <1>2, <1>3, <1>4 DEF Broadcast

LEMMA ReaderSample ==
  ASSUME Types, SampleInv, NEW c \in Conns, Reader(c)
  PROVE  SampleInv'
<1>1. CASE HandleWS(c)
  <2>1. /\ send' = [send EXCEPT ![c] = <<>>]
        /\ UNCHANGED <<cur, told, view, ver, batch>>
    BY <1>1 DEF HandleWS, tableVars, pageVars
  <2>2. ASSUME NEW x \in Conns, NEW y \in Under(x)'
        PROVE  y \in Under(x)
    <3>1. send'[x] = send[x] \/ send'[x] = <<>>
      BY <2>1 DEF Types, TypedConns
    <3>2. CASE send'[x] = <<>>
      BY <2>1, <2>2, <3>2 DEF Under
    <3>3. CASE send'[x] = send[x]
      BY <2>1, <2>2, <3>3 DEF Under
    <3>. QED
      BY <3>1, <3>2, <3>3
  <2>. QED
    BY <2>1, <2>2, SampleQueues
<1>2. CASE Subscribe(c) \/ Filled(c) \/ Unregister(c) \/ CloseSend(c)
  BY <1>2, SampleKept DEF Subscribe, Filled, Unregister, CloseSend, tableVars, pageVars
<1>3. CASE GetSnapshot(c)
  <2>1. PICK k \in Kinds, D \in SUBSET left[c] :
           /\ k = Asked[step[c]] /\ step[c] \in 1 .. Len(Asked) /\ D \in SUBSET Devices
           /\ batch' = [batch EXCEPT ![c] = @ \cup Stored(D, k)]
           /\ \/ left[c] = D /\ batch'[c] = {} /\ Answer(c, step[c] + 1)
              \/ /\ left[c] # D \/ batch'[c] # {}
                 /\ left' = [left EXCEPT ![c] = @ \ D]
                 /\ rpc' = [rpc EXCEPT ![c] = IF left[c] = D THEN "push" ELSE "load"]
                 /\ UNCHANGED step
    BY <1>3, SnapshotCases
  <2>2. UNCHANGED <<cur, told, view, ver, send>>
    BY <1>3 DEF GetSnapshot, tableVars, pageVars
  <2>3. ASSUME NEW m \in Stored(D, k)
        PROVE  WasStored(m)
    <3>1. PICK d \in D : /\ k = "status" \/ cur[<<d, k>>] # 0
                         /\ m = [entry |-> <<d, k>>, val |-> cur[<<d, k>>]]
      BY <2>3 DEF Stored
    <3>2. <<d, k>> \in Entries
      BY <2>1 DEF Entries
    <3>3. cur[<<d, k>>] \in Nat
      BY <3>2, NatTables
    <3>. QED
      BY <3>1, <3>3 DEF WasStored
  <2>4. ASSUME NEW x \in Conns, NEW y \in Under(x)'
        PROVE  y \in Under(x) \/ WasStored(y)
    BY <2>1, <2>2, <2>3, <2>4 DEF Under, Types, TypedReader
  <2>. QED
    BY <2>2, <2>4, SampleQueues
<1>4. CASE PushSnapshot(c)
  <2>1. PICK m \in batch[c] :
           /\ Offer(c, m, m.val # cur[m.entry])
           /\ batch' = [batch EXCEPT ![c] = @ \ {m}]
    BY <1>4 DEF PushSnapshot
  <2>2. m \in Messages
    BY <2>1 DEF Types, TypedReader
  <2>3. UNCHANGED <<cur, told, view, ver>>
    BY <1>4 DEF PushSnapshot, tableVars, pageVars
  <2>4. ASSUME NEW x \in Conns, NEW y \in Under(x)'
        PROVE  y \in Under(x)
    <3>1. send[x] \in Seq(Messages) /\ batch'[x] \subseteq batch[x]
      BY <2>1 DEF Types, TypedConns, TypedReader
    <3>2. \/ send'[x] = send[x]
          \/ send'[x] = Append(send[x], m) /\ m \in batch[x]
      BY <2>1, <2>2, OfferCases
    <3>3. CASE send'[x] = send[x]
      BY <2>4, <3>1, <3>3 DEF Under
    <3>4. CASE send'[x] = Append(send[x], m) /\ m \in batch[x]
      BY <2>2, <2>4, <3>1, <3>4, AppendRange DEF Under
    <3>. QED
      BY <3>2, <3>3, <3>4
  <2>. QED
    BY <2>3, <2>4, SampleQueues
<1>. QED
  BY <1>1, <1>2, <1>3, <1>4 DEF Reader

LEMMA WriterSample ==
  ASSUME Types, SampleInv, NEW c \in Conns, Writer(c)
  PROVE  SampleInv'
<1>0. \A e \in Entries : cur[e] \in Nat /\ told[e] \in Nat /\ view[e] \in Nat /\ ver \in Nat
  BY NatTables
<1>1. CASE WriteMessage(c)
  <2>1. PICK m \in Messages :
           /\ m = Head(send[c])
           /\ send[c] \in Seq(Messages) /\ send[c] # <<>>
           /\ send' = [send EXCEPT ![c] = Tail(@)]
           /\ \A e \in Entries :
                 view'[e] = IF conn[c] = "up" /\ Takes(m) /\ Touches(m, e) THEN m.val
                            ELSE view[e]
    BY <1>1, Written
  <2>2. /\ \A e \in Entries : e[2] = "sample" =>
              view'[e] = view[e] \/ (view'[e] = m.val /\ m.entry = e)
        /\ send' = [send EXCEPT ![c] = Tail(@)]
        /\ UNCHANGED <<cur, told, ver, batch>>
        /\ send[c] \in Seq(Messages) /\ send[c] # <<>>
    BY <1>1, <2>1 DEF WriteMessage, Touches, tableVars, readerVars
  <2>3. m \in Under(c)
    BY <2>1, <2>2, TailRange DEF Under
  <2>4. WasStored(m) /\ m.entry \in Entries /\ m.val \in Nat
    BY <2>3, NatTables DEF SampleInv
  <2>5. ASSUME NEW e \in Entries, e[2] = "sample"
        PROVE  InOrder(e)'
    <3>1. InOrder(e) /\ cur[e] \in Nat /\ told[e] \in Nat /\ view[e] \in Nat /\ ver \in Nat
      BY <1>0, <2>5 DEF SampleInv
    <3>2. CASE view'[e] = view[e]
      BY <2>2, <3>1, <3>2 DEF InOrder
    <3>3. CASE view'[e] = m.val /\ m.entry = e
      BY <2>2, <2>4, <2>5, <3>1, <3>3 DEF InOrder, WasStored
    <3>. QED
      BY <2>2, <2>5, <3>2, <3>3
  <2>6. ASSUME NEW x \in Conns, NEW y \in Under(x)'
        PROVE  WasStored(y)'
    <3>1. y \in Under(x)
      <4>1. CASE x = c
        <5>1. send'[c] = Tail(send[c])
          BY <2>2 DEF Types, TypedConns
        <5>. QED
          BY <2>2, <2>6, <4>1, <5>1, TailRange DEF Under
      <4>2. CASE x # c
        <5>1. send'[x] = send[x]
          BY <2>2, <4>2 DEF Types, TypedConns
        <5>. QED
          BY <2>2, <2>6, <5>1 DEF Under
      <4>. QED
        BY <4>1, <4>2
    <3>2. WasStored(y)
      BY <3>1 DEF SampleInv
    <3>. QED
      BY <2>2, <3>2 DEF WasStored
  <2>. QED
    BY <2>5, <2>6 DEF SampleInv
<1>2. CASE WriteFails(c)
  BY <1>2, SampleKept DEF WriteFails, tableVars, pageVars, readerVars
<1>. QED
  BY <1>1, <1>2 DEF Writer

LEMMA NextSample == Types /\ StoredInv /\ SampleInv /\ [Next]_vars => SampleInv'
<1>. SUFFICES ASSUME Types, StoredInv, SampleInv, [Next]_vars
              PROVE  SampleInv'
  OBVIOUS
<1>1. ASSUME NEW e \in Entries, Change(e)
      PROVE  SampleInv'
  <2>1. e[1] \in Devices
    BY DEF Entries
  <2>. QED
    BY <1>1, <2>1, BroadcasterSample
<1>2. ASSUME NEW c \in Conns, LoseConnection(c) \/ Connect(c)
      PROVE  SampleInv'
  BY <1>2, SampleKept DEF LoseConnection, Connect, tableVars, pageVars, readerVars
<1>3. CASE SendSubscribe \/ OnClose \/ Request \/ ResponseFails
  BY <1>3, SampleKept DEF SendSubscribe, OnClose, Request, ResponseFails, tableVars, connVars,
                          readerVars
<1>4. CASE Response
  <2>1. /\ \A e \in Entries : e[2] = "sample" => view'[e] = view[e]
        /\ UNCHANGED <<cur, told, ver, send, batch>>
    BY <1>4 DEF Response, Replaces, tableVars, connVars, readerVars
  <2>2. ASSUME NEW c \in Conns, NEW m \in Under(c)'
        PROVE  WasStored(m)'
    <3>1. WasStored(m)
      BY <2>1, <2>2 DEF SampleInv, Under
    <3>. QED
      BY <2>1, <3>1 DEF WasStored
  <2>3. ASSUME NEW e \in Entries, e[2] = "sample"
        PROVE  InOrder(e)'
    BY <2>1, <2>3 DEF SampleInv, InOrder
  <2>. QED
    BY <2>2, <2>3 DEF SampleInv
<1>5. ASSUME NEW d \in Devices, NEW c \in Conns, MapRace(d, c)
      PROVE  SampleInv'
  <2>1. /\ cur' = Empty /\ told' = Empty /\ UNCHANGED <<view, ver>>
        /\ send' = [x \in Conns |-> <<>>] /\ batch' = [x \in Conns |-> {}]
    BY <1>5 DEF MapRace, pageVars
  <2>2. ASSUME NEW x \in Conns
        PROVE  Under(x)' = {}
    BY <2>1 DEF Under
  <2>3. ASSUME NEW e \in Entries, e[2] = "sample"
        PROVE  InOrder(e)'
    <3>1. cur'[e] = 0 /\ told'[e] = 0 /\ InOrder(e) /\ ver \in Nat
      BY <2>1, <2>3, NatTables DEF Empty, SampleInv
    <3>. QED
      BY <2>1, <3>1 DEF InOrder
  <2>. QED
    BY <2>2, <2>3 DEF SampleInv
<1>6. CASE UNCHANGED vars
  BY <1>6, SampleKept DEF vars, tableVars, connVars, readerVars, pageVars
<1>. QED
  BY <1>1, <1>2, <1>3, <1>4, <1>5, <1>6, BroadcasterSample, ReaderSample, WriterSample
     DEF Next, Page

LEMMA SampleInvariant == Spec => []SampleInv
BY InitSample, NextSample, StoredInvariant, TypesInvariant, PTL DEF Spec

-----------------------------------------------------------------------------
(* The page of a device asks for that device only, and its connection serves *)
(* no other: it is never answered for one whose status it would take for its *)
(* own.                                                                      *)

Of(d, c) ==
    /\ subs[c] \subseteq {d} /\ left[c] \subseteq {d}
    /\ \A m \in batch[c] : m.entry[1] = d
    /\ \A i \in 1 .. Len(inbox[c]) : inbox[c][i] \subseteq {d}

OwnInv == page = "detail" => \E d \in Devices : want = {d} /\ \A c \in Conns : Of(d, c)

LEMMA InitOwn == Init => OwnInv
<1>. SUFFICES ASSUME Init, page = "detail"
              PROVE  \E d \in Devices : want = {d} /\ \A c \in Conns : Of(d, c)
  BY DEF OwnInv
<1>1. PICK d \in Devices : want = {d}
  BY DEF Init
<1>2. ASSUME NEW c \in Conns
      PROVE  Of(d, c)
  BY DEF Init, Of
<1>. QED
  BY <1>1, <1>2

LEMMA OwnKept ==
  ASSUME OwnInv, UNCHANGED <<page, subs, left, batch, inbox>>, page = "detail" => want' = want
  PROVE  OwnInv'
BY DEF OwnInv, Of

\* A step of a connection that keeps to the device, as the others do.
LEMMA OwnConns ==
  ASSUME OwnInv, UNCHANGED <<page, want>>,
         \A c \in Conns : \A d \in Devices : page = "detail" /\ want = {d} /\ Of(d, c) => Of(d, c)'
  PROVE  OwnInv'
BY DEF OwnInv

LEMMA ReaderOwn ==
  ASSUME Types, OwnInv, NEW c \in Conns, Reader(c)
  PROVE  OwnInv'
<1>1. CASE HandleWS(c) \/ Unregister(c)
  BY <1>1, OwnKept DEF HandleWS, Unregister, pageVars
<1>2. CASE Subscribe(c) \/ CloseSend(c)
  <2>1. UNCHANGED <<page, want, left, batch>>
    BY <1>2 DEF Subscribe, CloseSend, pageVars
  <2>2. ASSUME NEW x \in Conns, NEW d \in Devices, Of(d, x)
        PROVE  Of(d, x)'
    <3>1. CASE x # c
      <4>1. subs'[x] = subs[x] /\ inbox'[x] = inbox[x]
        BY <1>2, <3>1 DEF Subscribe, CloseSend, Types, TypedReader, TypedConns
      <4>. QED
        BY <2>1, <2>2, <4>1 DEF Of
    <3>2. CASE x = c /\ CloseSend(c)
      <4>1. subs'[c] = {} /\ inbox'[c] = <<>>
        BY <3>2 DEF CloseSend, Types, TypedReader, TypedConns
      <4>. QED
        BY <2>1, <2>2, <3>2, <4>1 DEF Of
    <3>3. CASE x = c /\ Subscribe(c)
      <4>1. PICK s \in Seq(SUBSET Devices) :
               /\ s = inbox[c] /\ s # <<>>
               /\ subs'[c] = Head(s) /\ inbox'[c] = Tail(s)
        BY <3>3 DEF Subscribe, Types, TypedReader, TypedConns
      <4>2. /\ Len(s) \in Nat /\ Len(s) # 0 /\ Head(s) = s[1]
            /\ Len(Tail(s)) = Len(s) - 1
            /\ \A i \in 1 .. Len(Tail(s)) : Tail(s)[i] = s[i + 1]
        BY <4>1, HeadTailProperties, LenProperties, EmptySeq
      <4>3. 1 \in 1 .. Len(s) /\ \A i \in 1 .. Len(Tail(s)) : i + 1 \in 1 .. Len(s)
        BY <4>2
      <4>4. \A i \in 1 .. Len(s) : s[i] \subseteq {d}
        BY <2>2, <3>3, <4>1 DEF Of
      <4>5. Head(s) \subseteq {d} /\ \A i \in 1 .. Len(Tail(s)) : Tail(s)[i] \subseteq {d}
        BY <4>2, <4>3, <4>4
      <4>. QED
        BY <2>1, <2>2, <3>3, <4>1, <4>5 DEF Of
    <3>. QED
      BY <1>2, <3>1, <3>2, <3>3
  <2>. QED
    BY <2>1, <2>2, OwnConns
<1>3. CASE Filled(c) \/ GetSnapshot(c) \/ PushSnapshot(c)
  <2>1. UNCHANGED <<page, want, subs, inbox>>
    BY <1>3 DEF Filled, GetSnapshot, PushSnapshot, pageVars
  <2>2. \A x \in Conns : left'[x] = left[x] \/ left'[x] \subseteq left[x] \/ left'[x] = subs[x] \/ left'[x] = {}
    BY <1>3 DEF Filled, GetSnapshot, PushSnapshot, Answer, Types, TypedReader
  <2>3. ASSUME NEW x \in Conns, NEW m \in batch'[x]
        PROVE  m \in batch[x] \/ m.entry[1] \in left[x]
    <3>1. CASE Filled(c)
      BY <2>3, <3>1 DEF Filled
    <3>2. CASE PushSnapshot(c)
      BY <2>3, <3>2 DEF PushSnapshot, Types, TypedReader
    <3>3. CASE GetSnapshot(c)
      <4>1. PICK k \in Kinds, D \in SUBSET left[c] :
               /\ k = Asked[step[c]] /\ step[c] \in 1 .. Len(Asked) /\ D \in SUBSET Devices
               /\ batch' = [batch EXCEPT ![c] = @ \cup Stored(D, k)]
               /\ \/ left[c] = D /\ batch'[c] = {} /\ Answer(c, step[c] + 1)
                  \/ /\ left[c] # D \/ batch'[c] # {}
                     /\ left' = [left EXCEPT ![c] = @ \ D]
                     /\ rpc' = [rpc EXCEPT ![c] = IF left[c] = D THEN "push" ELSE "load"]
                     /\ UNCHANGED step
        BY <3>3, SnapshotCases
      <4>2. ASSUME NEW y \in Stored(D, k)
            PROVE  y.entry[1] \in D
        <5>1. PICK d \in D : y = [entry |-> <<d, k>>, val |-> cur[<<d, k>>]]
          BY <4>2 DEF Stored
        <5>. QED
          BY <5>1
      <4>3. m \in batch[x] \/ (x = c /\ m \in Stored(D, k))
        BY <2>3, <4>1 DEF Types, TypedReader
      <4>. QED
        BY <4>2, <4>3
    <3>. QED
      BY <1>3, <3>1, <3>2, <3>3
  <2>4. ASSUME NEW x \in Conns, NEW d \in Devices, Of(d, x)
        PROVE  Of(d, x)'
    BY <2>1, <2>2, <2>3, <2>4 DEF Of
  <2>. QED
    BY <2>1, <2>4, OwnConns
<1>. QED
  BY <1>1, <1>2, <1>3 DEF Reader

LEMMA PageOwn ==
  ASSUME Types, OwnInv, SendSubscribe \/ Response \/ OnClose \/ Request \/ ResponseFails
  PROVE  OwnInv'
<1>1. CASE SendSubscribe
  <2>1. UNCHANGED <<page, want, subs, left, batch>>
    BY <1>1 DEF SendSubscribe, readerVars
  <2>2. ASSUME NEW c \in Conns, NEW d \in Devices, want = {d}, Of(d, c)
        PROVE  Of(d, c)'
    <3>1. CASE inbox'[c] = inbox[c]
      BY <2>1, <2>2, <3>1 DEF Of
    <3>2. CASE inbox'[c] = Append(inbox[c], want)
      <4>1. PICK s \in Seq(SUBSET Devices) : s = inbox[c]
        BY DEF Types, TypedConns
      <4>2. want \in SUBSET Devices
        BY DEF Types, TypedPage
      <4>3. /\ Len(s) \in Nat /\ Len(Append(s, want)) = Len(s) + 1
            /\ \A i \in 1 .. Len(s) : Append(s, want)[i] = s[i]
            /\ Append(s, want)[Len(s) + 1] = want
        BY <4>1, <4>2, AppendProperties, LenProperties
      <4>4. \A i \in 1 .. Len(s) + 1 : i \in 1 .. Len(s) \/ i = Len(s) + 1
        BY <4>3
      <4>5. \A i \in 1 .. Len(s) : s[i] \subseteq {d}
        BY <2>2, <4>1 DEF Of
      <4>6. \A i \in 1 .. Len(Append(s, want)) : Append(s, want)[i] \subseteq {d}
        BY <2>2, <4>3, <4>4, <4>5
      <4>. QED
        BY <2>1, <2>2, <3>2, <4>1, <4>6 DEF Of
    <3>. QED
      BY <1>1, <3>1, <3>2 DEF SendSubscribe, Types, TypedConns
  <2>. QED
    BY <2>1, <2>2, OwnConns
<1>2. CASE Response \/ OnClose \/ Request \/ ResponseFails
  BY <1>2, OwnKept DEF Response, OnClose, Request, ResponseFails, connVars, readerVars
<1>. QED
  BY <1>1, <1>2

LEMMA NextOwn == Types /\ OwnInv /\ [Next]_vars => OwnInv'
<1>. SUFFICES ASSUME Types, OwnInv, [Next]_vars
              PROVE  OwnInv'
  OBVIOUS
<1>1. ASSUME NEW d \in Devices, (\E e \in Entries : Change(e)) \/ Wipe(d) \/ Broadcast(d)
      PROVE  OwnInv'
  BY <1>1, OwnKept DEF Change, Wipe, Broadcast, BroadcastBegin, BroadcastTo, connVars,
                       readerVars, pageVars
<1>2. ASSUME NEW c \in Conns, Writer(c) \/ LoseConnection(c)
      PROVE  OwnInv'
  BY <1>2, OwnKept DEF Writer, WriteMessage, WriteFails, LoseConnection, readerVars, pageVars
<1>3. ASSUME NEW c \in Conns, Connect(c)
      PROVE  OwnInv'
  <2>1. UNCHANGED <<page, want, subs, left, batch>> /\ inbox' = [inbox EXCEPT ![c] = <<want>>]
    BY <1>3 DEF Connect
  <2>2. ASSUME NEW x \in Conns, NEW d \in Devices, want = {d}, Of(d, x)
        PROVE  Of(d, x)'
    <3>1. inbox'[x] = inbox[x] \/ inbox'[x] = <<want>>
      BY <2>1 DEF Types, TypedConns
    <3>2. \A i \in 1 .. Len(<<want>>) : <<want>>[i] = want
      OBVIOUS
    <3>. QED
      BY <2>1, <2>2, <3>1, <3>2 DEF Of
  <2>. QED
    BY <2>1, <2>2, OwnConns
<1>4. ASSUME NEW d \in Devices, NEW c \in Conns, MapRace(d, c)
      PROVE  OwnInv'
  <2>1. /\ UNCHANGED <<page, want>>
        /\ \A x \in Conns : subs'[x] = {} /\ left'[x] = {} /\ batch'[x] = {} /\ inbox'[x] = <<>>
    BY <1>4 DEF MapRace, pageVars
  <2>2. ASSUME NEW x \in Conns, NEW y \in Devices
        PROVE  Of(y, x)'
    BY <2>1 DEF Of
  <2>. QED
    BY <2>1, <2>2, OwnConns
<1>5. CASE UNCHANGED vars
  BY <1>5, OwnKept DEF vars, connVars, readerVars, pageVars
<1>6. Entries # {} => Devices # {}
  BY DEF Entries
<1>. QED
  BY <1>1, <1>2, <1>3, <1>4, <1>5, <1>6, ReaderOwn, PageOwn DEF Next, Page, Entries

LEMMA OwnInvariant == Spec => []OwnInv
BY InitOwn, NextOwn, TypesInvariant, PTL DEF Spec

\* What is shown and what such a message is about are one entry, if the one
\* touches the other.
LEMMA TouchesOwn ==
  ASSUME OwnInv, NEW c \in Conns, NEW e \in Entries, NEW m \in Messages, Shown(e),
         Touches(m, e), m.entry[1] \in subs[c] \/ m \in batch[c]
  PROVE  m.entry = e
<1>1. CASE page # "detail"
  BY <1>1 DEF Touches
<1>2. CASE page = "detail" /\ m.entry # e
  <2>1. PICK d \in Devices : want = {d} /\ Of(d, c)
    BY <1>2 DEF OwnInv
  <2>2. m.entry[1] = d /\ e[1] = d
    BY <1>2, <2>1 DEF Of, Shown
  <2>3. m.entry[2] = "status" /\ e[2] = "status"
    BY <1>2 DEF Touches
  <2>. QED
    BY <2>2, <2>3 DEF Messages, Entries
<1>. QED
  BY <1>1, <1>2

-----------------------------------------------------------------------------
(* What the page shows.  The property is inductive: of an entry that concerns *)
(* the page, the last message in its channel, or without one what it shows,   *)
(* is current; unless another is sure to follow.                              *)

Healing(c, e) == e \in aged /\ (dirty \/ inbox[c] # <<>>)

Coming(c, e) ==
    \/ Answering(c, e) \/ e \in behind[c] \/ Healing(c, e)
    \/ Ends(send[c], e, Seen(e), Fresh(e))

CurrentInv ==
    link # None /\ conn[link] = "up" =>
        \A e \in Entries :
            Concerns(link, e) => Broadcasting(link, e) \/ Coming(link, e)

LEMMA EndsAppend ==
  ASSUME NEW s \in Seq(Messages), NEW m \in Messages, NEW e, NEW v, NEW V,
         IF Touches(m, e) THEN m.val \in V ELSE Ends(s, e, v, V)
  PROVE  Ends(Append(s, m), e, v, V)
<1>1. PICK n \in Nat : n = Len(s)
  BY LenProperties
<1>2. PICK q \in Seq(Messages) : q = Append(s, m)
  BY AppendProperties
<1>3. /\ Len(q) = n + 1 /\ n + 1 \in 1 .. Len(q)
      /\ \A i \in 1 .. n : q[i] = s[i]
      /\ q[n + 1] = m
  BY <1>1, <1>2, AppendProperties
<1>4. \A i \in 1 .. Len(q) : i \in 1 .. n \/ i = n + 1
  BY <1>3
<1>5. \A i \in 1 .. n : i \in 1 .. Len(q) /\ n + 1 > i
  BY <1>3
<1>6. CASE Touches(m, e)
  <2>1. ASSUME NEW i \in 1 .. Len(q), \A j \in 1 .. Len(q) : j > i => ~Touches(q[j], e)
        PROVE  q[i].val \in V
    BY <1>3, <1>4, <1>5, <1>6, <2>1
  <2>2. ~\A i \in 1 .. Len(q) : ~Touches(q[i], e)
    BY <1>3, <1>6
  <2>. QED
    BY <1>2, <2>1, <2>2 DEF Ends
<1>7. CASE ~Touches(m, e)
  <2>1. Ends(s, e, v, V)
    BY <1>7
  <2>2. ASSUME NEW i \in 1 .. Len(q), Touches(q[i], e),
               \A j \in 1 .. Len(q) : j > i => ~Touches(q[j], e)
        PROVE  q[i].val \in V
    <3>1. i \in 1 .. n /\ q[i] = s[i]
      BY <1>3, <1>4, <1>7, <2>2
    <3>2. \A j \in 1 .. n : j > i => ~Touches(s[j], e)
      BY <1>3, <1>5, <2>2
    <3>. QED
      BY <1>1, <2>1, <2>2, <3>1, <3>2 DEF Ends
  <2>3. ASSUME \A i \in 1 .. Len(q) : ~Touches(q[i], e)
        PROVE  v \in V
    <3>1. \A i \in 1 .. n : ~Touches(s[i], e)
      BY <1>3, <1>5, <2>3
    <3>. QED
      BY <1>1, <2>1, <3>1 DEF Ends
  <2>. QED
    BY <1>2, <2>2, <2>3 DEF Ends
<1>. QED
  BY <1>6, <1>7

LEMMA EndsTail ==
  ASSUME NEW s \in Seq(Messages), s # <<>>, NEW e, NEW v, NEW w, NEW V,
         Ends(s, e, v, V),
         IF Touches(Head(s), e) THEN Head(s).val \in V => w \in V ELSE w = v
  PROVE  Ends(Tail(s), e, w, V)
<1>1. PICK n \in Nat \ {0} : n = Len(s)
  BY LenProperties, EmptySeq
<1>2. PICK t \in Seq(Messages) : t = Tail(s)
  BY HeadTailProperties
<1>3. /\ Len(t) = n - 1 /\ Head(s) = s[1]
      /\ \A i \in 1 .. n - 1 : t[i] = s[i + 1] /\ i + 1 \in 1 .. n
  BY <1>1, <1>2, HeadTailProperties
<1>4. \A i \in 1 .. n : i = 1 \/ (i - 1 \in 1 .. n - 1 /\ i - 1 + 1 = i)
  BY <1>1
<1>5. ASSUME NEW i \in 1 .. n - 1, Touches(t[i], e),
             \A j \in 1 .. n - 1 : j > i => ~Touches(t[j], e)
      PROVE  t[i].val \in V
  <2>1. ASSUME NEW j \in 1 .. n, j > i + 1
        PROVE  ~Touches(s[j], e)
    <3>1. j - 1 \in 1 .. n - 1 /\ j - 1 > i /\ j - 1 + 1 = j
      BY <2>1
    <3>. QED
      BY <1>3, <1>5, <3>1
  <2>. QED
    BY <1>1, <1>3, <1>5, <2>1 DEF Ends
<1>6. ASSUME \A i \in 1 .. n - 1 : ~Touches(t[i], e)
      PROVE  w \in V
  <2>1. \A j \in 1 .. n : j > 1 => ~Touches(s[j], e)
    <3>1. ASSUME NEW j \in 1 .. n, j > 1
          PROVE  ~Touches(s[j], e)
      <4>1. j - 1 \in 1 .. n - 1 /\ j - 1 + 1 = j
        BY <3>1
      <4>. QED
        BY <1>3, <1>6, <4>1
    <3>. QED
      BY <3>1
  <2>2. 1 \in 1 .. n
    BY <1>1
  <2>3. CASE Touches(s[1], e)
    BY <1>1, <1>3, <2>1, <2>2, <2>3 DEF Ends
  <2>4. CASE ~Touches(s[1], e)
    <3>1. \A j \in 1 .. n : ~Touches(s[j], e)
      BY <2>1, <2>4
    <3>. QED
      BY <1>1, <1>3, <2>4, <3>1 DEF Ends
  <2>. QED
    BY <2>3, <2>4
<1>. QED
  BY <1>2, <1>3, <1>5, <1>6 DEF Ends

\* What a connection holds for the page.
Held(c) == <<subs[c], inbox[c], behind[c], rpc[c], step[c], left[c], batch[c], send[c]>>

LEMMA ComingKept ==
  ASSUME NEW c \in Conns, NEW e \in Entries, Coming(c, e), UNCHANGED Held(c),
         UNCHANGED <<page, dirty, loaded, aged, view[e], told[e], cur[e]>>
  PROVE  Coming(c, e)'
<1>1. /\ Healing(c, e) => Healing(c, e)'
      /\ Answering(c, e) => Answering(c, e)'
  BY DEF Held, Healing, Answering
<1>2. Ends(send[c], e, Seen(e), Fresh(e)) => Ends(send[c], e, Seen(e), Fresh(e))'
  BY DEF Held, Ends, Touches, Seen, Fresh
<1>. QED
  BY <1>1, <1>2 DEF Coming, Held

\* A message is offered, or not.
LEMMA ComingOffered ==
  ASSUME Types, NEW c \in Conns, NEW e \in Entries,
         NEW m \in Messages, NEW stale \in BOOLEAN, Offer(c, m, stale),
         UNCHANGED <<page, dirty, loaded, inbox, view, told, cur>>,
         IF m.entry = e THEN ~stale => m.val \in Fresh(e)
         ELSE ~Touches(m, e) /\ Coming(c, e) /\ (Answering(c, e) => Answering(c, e)')
  PROVE  Coming(c, e)'
<1>1. /\ behind[c] \subseteq behind'[c] \cup {m.entry}
      /\ \/ send'[c] = Append(send[c], m) /\ (stale => m.entry \in behind'[c])
         \/ send'[c] = send[c] /\ m.entry \in behind'[c]
      /\ aged \subseteq aged' \cup {m.entry}
      /\ send[c] \in Seq(Messages)
  BY OfferCases DEF Types, TypedConns
<1>2. Fresh(e)' = Fresh(e) /\ Seen(e)' = Seen(e)
  BY DEF Fresh, Seen
<1>4. CASE m.entry = e
  <2>1. CASE e \in behind'[c]
    BY <2>1 DEF Coming
  <2>2. CASE send'[c] = Append(send[c], m) /\ ~stale
    <3>1. Ends(Append(send[c], m), e, Seen(e), Fresh(e))
      BY <1>1, <1>4, <2>2, EndsAppend DEF Touches
    <3>. QED
      BY <1>2, <2>2, <3>1 DEF Coming, Ends, Touches
  <2>. QED
    BY <1>1, <1>4, <2>1, <2>2
<1>5. CASE m.entry # e
  <2>1. CASE Healing(c, e) \/ e \in behind[c] \/ Answering(c, e)
    BY <1>1, <1>5, <2>1 DEF Coming, Healing
  <2>2. CASE Ends(send[c], e, Seen(e), Fresh(e))
    <3>1. Ends(Append(send[c], m), e, Seen(e), Fresh(e))
      BY <1>1, <1>5, <2>2, EndsAppend
    <3>2. Ends(send'[c], e, Seen(e), Fresh(e))
      BY <1>1, <2>2, <3>1
    <3>. QED
      BY <1>2, <3>2 DEF Coming, Ends, Touches
  <2>. QED
    BY <1>5, <2>1, <2>2 DEF Coming
<1>. QED
  BY <1>4, <1>5

LEMMA InitCurrent == Init => CurrentInv
BY DEF Init, CurrentInv

LEMMA BroadcasterCurrent ==
  ASSUME Types, FeedInv, LinkInv, OwnInv, StoredInv, CurrentInv, NEW d \in Devices,
         (\E e \in Entries : e[1] = d /\ Change(e)) \/ Wipe(d) \/ Broadcast(d)
  PROVE  CurrentInv'
<1>1. UNCHANGED <<conn, inbox, subs, readerVars, pageVars, clients>>
  BY DEF Change, Wipe, Broadcast, BroadcastBegin, BroadcastTo, connVars
<1>. SUFFICES ASSUME link # None, conn[link] = "up", NEW e \in Entries, Concerns(link, e)'
              PROVE  Broadcasting(link, e)' \/ Coming(link, e)'
  BY <1>1 DEF CurrentInv, pageVars
<1>2. PICK c \in Conns : c = link
  BY DEF Types, TypedPage
<1>3. SUFFICES Broadcasting(c, e)' \/ Coming(c, e)'
  BY <1>1, <1>2 DEF pageVars
<1>4. Concerns(c, e)' /\ e[1] \in Devices
  BY <1>1, <1>2 DEF Concerns, pageVars, Shown, Entries
<1>5. (Concerns(c, e) => Broadcasting(c, e) \/ Coming(c, e)) /\ conn[c] = "up"
  BY <1>2 DEF CurrentInv
<1>6. ASSUME NEW x \in Entries, x[1] = d, Change(x)
      PROVE  Broadcasting(c, e)' \/ Coming(c, e)'
  <2>1. /\ pub[d] = None /\ pub'[d] # None /\ ~pub'[d].sending /\ pub'[d].entry = x
        /\ \A y \in Devices : y # d => pub'[y] = pub[y]
        /\ \A y \in Entries : y # x => cur'[y] = cur[y]
        /\ UNCHANGED <<connVars, pageVars, history>>
    BY <1>6, ChangeShape
  <2>2. CASE e = x
    BY <1>6, <2>1, <2>2 DEF Broadcasting
  <2>3. CASE e # x
    <3>1. Concerns(c, e) /\ UNCHANGED Held(c)
      BY <1>4, <2>1, <2>3 DEF Concerns, Shown, Held, connVars, readerVars, pageVars
    <3>2. Broadcasting(c, e) => Broadcasting(c, e)'
      BY <1>4, <2>1 DEF Broadcasting
    <3>3. Coming(c, e) => Coming(c, e)'
      BY <2>1, <2>3, <3>1, ComingKept DEF pageVars
    <3>. QED
      BY <1>5, <3>1, <3>2, <3>3
  <2>. QED
    BY <2>2, <2>3
<1>7. CASE Wipe(d)
  <2>1. /\ cur' = [y \in Entries |-> IF y[1] = d /\ y[2] # "sample" THEN 0 ELSE cur[y]]
        /\ UNCHANGED <<pub, connVars, pageVars, history>>
    BY <1>7 DEF Wipe
  <2>2. UNCHANGED Held(c)
    BY <2>1 DEF Held, connVars, readerVars
  <2>3. Concerns(c, e) /\ (cur'[e] = cur[e] \/ (cur'[e] = 0 /\ e[2] = "status"))
    BY <1>4, <2>1 DEF Concerns, Shown, connVars, pageVars
  <2>4. Broadcasting(c, e) => Broadcasting(c, e)'
    BY <2>1 DEF Broadcasting
  <2>5. CASE cur'[e] = cur[e]
    BY <1>5, <2>1, <2>2, <2>3, <2>4, <2>5, ComingKept DEF pageVars
  <2>6. CASE cur'[e] = 0 /\ ~Broadcasting(c, e)
    <3>1. cur[e] = told[e] \/ cur[e] = 0
      BY <2>6 DEF StoredInv, Newest, Pending, Broadcasting
    <3>2. Fresh(e) \subseteq Fresh(e)'
      BY <2>1, <2>6, <3>1 DEF Fresh
    <3>3. CASE Healing(c, e) \/ e \in behind[c] \/ Answering(c, e)
      BY <2>1, <2>2, <3>3 DEF Coming, Healing, Answering, Held, pageVars
    <3>4. CASE Ends(send[c], e, Seen(e), Fresh(e))
      <4>1. Ends(send[c], e, Seen(e), Fresh(e)')
        BY <3>2, <3>4 DEF Ends
      <4>2. send'[c] = send[c] /\ Seen(e)' = Seen(e) /\ page' = page
        BY <2>1, <2>2 DEF Held, Seen, pageVars
      <4>. QED
        BY <4>1, <4>2 DEF Coming, Ends, Touches
    <3>. QED
      BY <1>5, <2>3, <2>6, <3>3, <3>4 DEF Coming
  <2>. QED
    BY <2>3, <2>4, <2>5, <2>6
<1>8. CASE BroadcastBegin(d)
  <2>1. /\ pub[d] # None /\ ~pub[d].sending /\ Offering(d, clients)
        /\ told' = [told EXCEPT ![pub[d].entry] = pub[d].val]
        /\ UNCHANGED <<cur, connVars, pageVars, behind, aged>>
        /\ clients \in SUBSET Conns
    BY <1>8 DEF BroadcastBegin, Types, TypedPub
  <2>2. UNCHANGED Held(c) /\ Concerns(c, e)
    BY <1>4, <2>1 DEF Held, Concerns, Shown, connVars, readerVars, pageVars
  <2>3. PICK x \in Entries : x = pub[d].entry
    BY <2>1, NatTables
  <2>4. /\ \A y \in Devices : y # d => pub'[y] = pub[y]
        /\ clients # {} =>
              pub'[d] # None /\ pub'[d].todo = clients /\ pub'[d].entry = x
        /\ x[1] = d
    BY <2>1, <2>3, OfferingShape DEF Types, TypedPub
  <2>5. CASE e = x
    <3>1. CASE c \in clients
      BY <2>4, <2>5, <3>1 DEF Broadcasting
    <3>2. CASE c \notin clients
      <4>1. rpc[c] = "new"
        BY <1>5, <3>2 DEF FeedInv, ServedOpen, LinkInv, Types, TypedReader, Served
      <4>2. subs[c] = {}
        BY <4>1 DEF LinkInv
      <4>. QED
        BY <2>2, <4>2 DEF Concerns
    <3>. QED
      BY <3>1, <3>2
  <2>6. CASE e # x
    <3>1. told'[e] = told[e]
      BY <2>1, <2>3, <2>6 DEF Types, TypedTables, Tables
    <3>2. Broadcasting(c, e) => Broadcasting(c, e)'
      BY <1>4, <2>3, <2>4, <2>6 DEF Broadcasting
    <3>3. Coming(c, e) => Coming(c, e)'
      BY <2>1, <2>2, <3>1, ComingKept DEF pageVars
    <3>. QED
      BY <1>5, <2>2, <3>2, <3>3
  <2>. QED
    BY <2>5, <2>6
<1>9. ASSUME NEW x \in Conns, BroadcastTo(d, x)
      PROVE  Broadcasting(c, e)' \/ Coming(c, e)'
  <2>1. /\ Sending(d) /\ pub[d] # None /\ pub[d].sending
        /\ Offering(d, pub[d].todo \ {x})
        /\ UNCHANGED <<cur, told, conn, inbox, subs, readerVars, pageVars>>
        /\ pub[d].todo \ {x} \in SUBSET Conns
    BY <1>9 DEF BroadcastTo, Sending, Types, TypedPub, Broadcasts
  <2>2. Concerns(c, e)
    BY <1>4, <2>1 DEF Concerns, Shown, pageVars
  <2>3. PICK m \in Messages : m = [entry |-> pub[d].entry, val |-> pub[d].val]
    BY <2>1 DEF Types, TypedPub, Broadcasts, Messages
  <2>4. /\ \A y \in Devices : y # d => pub'[y] = pub[y]
        /\ pub[d].todo \ {x} # {} =>
              pub'[d] # None /\ pub'[d].todo = pub[d].todo \ {x} /\ pub'[d].entry = m.entry
        /\ m.entry[1] = d /\ m.val = told[m.entry] /\ m.entry \in Entries
    <3>1. /\ \A y \in Devices : y # d => pub'[y] = pub[y]
          /\ pub[d].todo \ {x} # {} =>
                /\ pub'[d] # None /\ pub'[d].todo = pub[d].todo \ {x}
                /\ pub'[d].entry = pub[d].entry
      BY <2>1, OfferingShape
    <3>2. m.entry = pub[d].entry /\ m.val = pub[d].val
      BY <2>3
    <3>3. pub[d].entry[1] = d /\ pub[d].entry \in Entries
      BY <2>1, NatTables DEF Types, TypedPub
    <3>4. told[pub[d].entry] = pub[d].val
      BY <2>1 DEF StoredInv
    <3>. QED
      BY <3>1, <3>2, <3>3, <3>4
  <2>5. /\ Answering(c, e) => Answering(c, e)'
        /\ UNCHANGED <<page, dirty, loaded, inbox, view, told, cur>>
    BY <2>1 DEF Answering, readerVars, pageVars
  <2>6. PICK pass \in Passes(x, d) :
           IF pass THEN Offer(x, m, FALSE) ELSE UNCHANGED <<send, behind, aged>>
    BY <1>9, <2>3 DEF BroadcastTo
  <2>7. CASE x # c
    <3>1. send'[c] = send[c] /\ behind'[c] = behind[c] /\ aged' = aged
      BY <1>2, <2>6, <2>7, OfferCases
    <3>2. UNCHANGED Held(c)
      BY <2>1, <3>1 DEF Held, readerVars
    <3>3. Coming(c, e) => Coming(c, e)'
      BY <2>5, <3>1, <3>2, ComingKept
    <3>4. Broadcasting(c, e) => Broadcasting(c, e)'
      BY <1>4, <2>1, <2>3, <2>4, <2>7 DEF Broadcasting
    <3>. QED
      BY <1>5, <2>2, <3>3, <3>4
  <2>8. CASE x = c /\ e = m.entry
    <3>1. CASE rpc[c] = "fill"
      BY <2>1, <3>1 DEF Coming, Answering, readerVars
    <3>2. CASE rpc[c] # "fill"
      <4>1. d \in subs[c]
        BY <2>2, <2>4, <2>8 DEF Concerns
      <4>2. pass
        BY <2>6, <2>8, <3>2, <4>1 DEF Passes
      <4>3. Offer(c, m, FALSE)
        BY <2>6, <2>8, <4>2
      <4>4. m.val \in Fresh(e)
        BY <2>4, <2>8 DEF Fresh
      <4>. QED
        BY <2>5, <2>8, <4>3, <4>4, ComingOffered
    <3>. QED
      BY <3>1, <3>2
  <2>9. CASE x = c /\ e # m.entry
    <3>1. Broadcasting(c, e) => Broadcasting(c, e)'
      BY <1>4, <2>3, <2>4, <2>9 DEF Broadcasting
    <3>2. ASSUME Coming(c, e)
          PROVE  Coming(c, e)'
      <4>1. CASE rpc[c] = "fill"
        BY <2>1, <4>1 DEF Coming, Answering, readerVars
      <4>2. CASE UNCHANGED <<send, behind, aged>>
        <5>1. UNCHANGED Held(c)
          BY <2>1, <4>2 DEF Held, readerVars
        <5>. QED
          BY <2>5, <3>2, <4>2, <5>1, ComingKept
      <4>3. CASE rpc[c] # "fill" /\ Offer(c, m, FALSE) /\ pass
        <5>1. d \in subs[c] /\ Shown(e)
          BY <2>2, <2>6, <2>9, <4>3 DEF Passes, Concerns
        <5>2. ~Touches(m, e)
          BY <2>4, <2>9, <5>1, TouchesOwn
        <5>. QED
          BY <2>5, <2>9, <3>2, <4>3, <5>2, ComingOffered
      <4>. QED
        BY <2>6, <2>9, <4>1, <4>2, <4>3
    <3>. QED
      BY <1>5, <2>2, <3>1, <3>2
  <2>. QED
    BY <2>7, <2>8, <2>9
<1>. QED
  BY <1>6, <1>7, <1>8, <1>9 DEF Broadcast

LEMMA ReaderCurrent ==
  ASSUME Types, LinkInv, OwnInv, CurrentInv, NEW x \in Conns, Reader(x)
  PROVE  CurrentInv'
<1>1. /\ UNCHANGED <<cur, pub, told, pageVars>>
      /\ \A y \in Conns : conn'[y] = "up" => conn[y] = "up"
  BY DEF Reader, HandleWS, Subscribe, Filled, GetSnapshot, PushSnapshot, Unregister, CloseSend,
         tableVars, Types, TypedConns
<1>. SUFFICES ASSUME link # None, conn'[link] = "up", NEW e \in Entries, Concerns(link, e)'
              PROVE  Broadcasting(link, e)' \/ Coming(link, e)'
  BY <1>1 DEF CurrentInv, pageVars
<1>2. PICK c \in Conns : c = link
  BY DEF Types, TypedPage
<1>3. SUFFICES ASSUME ~Broadcasting(c, e)
               PROVE  Coming(c, e)'
  BY <1>1, <1>2 DEF pageVars, Broadcasting
<1>4. e[1] \in subs'[c] /\ Shown(e) /\ (e[2] # "status" => cur[e] # 0)
  BY <1>1, <1>2 DEF Concerns, pageVars, Shown
<1>5. conn[c] = "up"
  BY <1>1, <1>2
<1>6. subs'[c] = subs[c] => Coming(c, e)
  BY <1>2, <1>3, <1>4, <1>5 DEF CurrentInv, Concerns
<1>7. UNCHANGED <<page, dirty, loaded, view, told, cur>>
  BY <1>1 DEF pageVars
<1>8. CASE x # c
  <2>1. UNCHANGED Held(c) /\ aged' = aged
    <3>1. CASE HandleWS(x) \/ Subscribe(x) \/ Unregister(x) \/ CloseSend(x)
      BY <1>8, <3>1 DEF HandleWS, Subscribe, Unregister, CloseSend, Held, Types, TypedReader, TypedConns
    <3>2. CASE Filled(x)
      BY <1>8, <3>2 DEF Filled, Answer, Held, Types, TypedReader, TypedConns
    <3>3. CASE GetSnapshot(x)
      BY <1>8, <3>3 DEF GetSnapshot, Answer, Held, Types, TypedReader, TypedConns
    <3>4. CASE PushSnapshot(x)
      <4>1. PICK m \in batch[x] :
               /\ Offer(x, m, m.val # cur[m.entry])
               /\ batch' = [batch EXCEPT ![x] = @ \ {m}]
        BY <3>4 DEF PushSnapshot
      <4>2. m \in Messages
        BY <4>1 DEF Types, TypedReader
      <4>3. send'[c] = send[c] /\ behind'[c] = behind[c] /\ aged' = aged
        BY <1>2, <1>8, <4>1, <4>2, OfferCases
      <4>. QED
        BY <1>8, <3>4, <4>1, <4>3 DEF PushSnapshot, Answer, Held, Types, TypedReader, TypedConns
    <3>. QED
      BY <3>1, <3>2, <3>3, <3>4 DEF Reader
  <2>2. Coming(c, e)
    BY <1>6, <2>1 DEF Held
  <2>. QED
    BY <1>7, <2>1, <2>2, ComingKept
<1>9. ASSUME x = c
      PROVE  Coming(c, e)'
  <2>1. CASE HandleWS(c)
    <3>1. subs'[c] = {}
      BY <2>1 DEF HandleWS, LinkInv
    <3>. QED
      BY <1>4, <3>1
  <2>2. CASE Subscribe(c)
    <3>1. rpc'[c] = "fill"
      BY <2>2 DEF Subscribe, Types, TypedReader
    <3>. QED
      BY <3>1 DEF Coming, Answering
  <2>3. CASE Filled(c)
    <3>1. Answer(c, 1) /\ subs[c] # {} /\ e[1] \in subs[c]
      BY <1>4, <2>3 DEF Filled
    <3>2. PICK n \in 1 .. Len(Asked) : Asked[n] = e[2]
      BY AskedKinds DEF Has, Entries
    <3>3. 1 <= Len(Asked) /\ (n = 1 \/ n > 1)
      BY <3>2
    <3>4. rpc'[c] = "load" /\ step'[c] = 1 /\ left'[c] = subs[c]
      BY <3>1, <3>3, AnswerTyped
    <3>. QED
      BY <3>1, <3>2, <3>3, <3>4 DEF Coming, Answering
  <2>4. CASE GetSnapshot(c)
    <3>1. PICK k \in Kinds, D \in SUBSET left[c] :
             /\ k = Asked[step[c]] /\ step[c] \in 1 .. Len(Asked) /\ D \in SUBSET Devices
             /\ batch' = [batch EXCEPT ![c] = @ \cup Stored(D, k)]
             /\ \/ left[c] = D /\ batch'[c] = {} /\ Answer(c, step[c] + 1)
                \/ /\ left[c] # D \/ batch'[c] # {}
                   /\ left' = [left EXCEPT ![c] = @ \ D]
                   /\ rpc' = [rpc EXCEPT ![c] = IF left[c] = D THEN "push" ELSE "load"]
                   /\ UNCHANGED step
      BY <2>4, SnapshotCases
    <3>2. /\ UNCHANGED <<inbox, subs, send, behind, aged>> /\ rpc[c] = "load"
          /\ batch'[c] = batch[c] \cup Stored(D, k)
      BY <2>4, <3>1 DEF GetSnapshot, Types, TypedReader
    <3>3. Coming(c, e)
      BY <1>6, <3>2
    <3>4. CASE Healing(c, e) \/ e \in behind[c]
      BY <1>7, <3>2, <3>4 DEF Coming, Healing
    <3>5. CASE Ends(send[c], e, Seen(e), Fresh(e))
      BY <1>7, <3>2, <3>5 DEF Coming, Ends, Touches, Seen, Fresh
    <3>6. CASE \E m \in batch'[c] : m.entry = e
      BY <3>6 DEF Coming, Answering
    <3>7. CASE \E m \in batch[c] : m.entry = e
      BY <3>2, <3>6, <3>7
    <3>8. ASSUME NEW n \in 1 .. Len(Asked), n > step[c], Asked[n] = e[2]
          PROVE  Coming(c, e)'
      <4>1. CASE Answer(c, step[c] + 1)
        <5>1. PICK j \in Nat \ {0} : j = step[c] + 1
          BY <3>1
        <5>2. j <= Len(Asked) /\ (n = j \/ n > j)
          BY <3>1, <3>8, <5>1
        <5>3. e[1] \in subs[c] /\ subs[c] # {}
          BY <1>4, <3>2
        <5>4. rpc'[c] = "load" /\ step'[c] = j /\ left'[c] = subs[c]
          BY <4>1, <5>1, <5>2, <5>3, AnswerTyped
        <5>. QED
          BY <3>8, <5>2, <5>3, <5>4 DEF Coming, Answering
      <4>2. CASE /\ rpc' = [rpc EXCEPT ![c] = IF left[c] = D THEN "push" ELSE "load"]
                 /\ UNCHANGED step
        <5>1. rpc'[c] \in {"load", "push"} /\ step'[c] = step[c]
          BY <4>2 DEF Types, TypedReader
        <5>. QED
          BY <3>8, <5>1 DEF Coming, Answering
      <4>. QED
        BY <3>1, <4>1, <4>2
    <3>9. CASE Asked[step[c]] = e[2] /\ e[1] \in left[c]
      <4>1. CASE e[1] \in D
        <5>1. e = <<e[1], k>>
          BY <3>1, <3>9 DEF Entries
        <5>2. [entry |-> e, val |-> cur[e]] \in Stored(D, k)
          BY <1>4, <3>1, <3>9, <4>1, <5>1 DEF Stored
        <5>. QED
          BY <3>2, <3>6, <5>2
      <4>2. CASE e[1] \notin D
        <5>1. /\ left[c] # D
              /\ left'[c] = left[c] \ D /\ rpc'[c] = "load" /\ step'[c] = step[c]
          BY <3>1, <3>9, <4>2 DEF Types, TypedReader
        <5>. QED
          BY <3>9, <4>2, <5>1 DEF Coming, Answering
      <4>. QED
        BY <4>1, <4>2
    <3>. QED
      BY <3>2, <3>3, <3>4, <3>5, <3>7, <3>8, <3>9 DEF Coming, Answering
  <2>5. CASE PushSnapshot(c)
    <3>1. PICK m \in batch[c] :
             /\ Offer(c, m, m.val # cur[m.entry])
             /\ batch' = [batch EXCEPT ![c] = @ \ {m}]
      BY <2>5 DEF PushSnapshot
    <3>2. /\ UNCHANGED <<inbox, subs>> /\ rpc[c] = "push"
          /\ batch'[c] = batch[c] \ {m}
          /\ IF batch'[c] = {} THEN Answer(c, step[c] + 1) ELSE UNCHANGED <<rpc, step, left>>
          /\ step[c] \in 1 .. Len(Asked) /\ m \in Messages
      BY <2>5, <3>1 DEF PushSnapshot, Types, TypedReader
    <3>3. Coming(c, e) /\ e[1] \in subs[c]
      BY <1>4, <1>6, <3>2
    <3>4. PICK stale \in BOOLEAN : stale = (m.val # cur[m.entry])
      OBVIOUS
    <3>5. m.entry = e /\ ~stale => m.val \in Fresh(e)
      BY <3>4 DEF Fresh
    <3>6. ASSUME m.entry # e, Answering(c, e)
          PROVE  Answering(c, e)'
      <4>1. CASE \E y \in batch[c] : y.entry = e
        BY <3>2, <3>6, <4>1 DEF Answering
      <4>2. ASSUME NEW n \in 1 .. Len(Asked), n > step[c], Asked[n] = e[2]
            PROVE  Answering(c, e)'
        <5>1. CASE batch'[c] = {}
          <6>1. PICK j \in Nat \ {0} : j = step[c] + 1
            BY <3>2
          <6>2. j <= Len(Asked) /\ (n = j \/ n > j)
            BY <3>2, <4>2, <6>1
          <6>3. Answer(c, j) /\ subs[c] # {}
            BY <3>2, <3>3, <5>1, <6>1
          <6>4. rpc'[c] = "load" /\ step'[c] = j /\ left'[c] = subs[c]
            BY <6>2, <6>3, AnswerTyped
          <6>. QED
            BY <3>3, <4>2, <6>2, <6>4 DEF Answering
        <5>2. CASE batch'[c] # {}
          BY <3>2, <4>2, <5>2 DEF Answering
        <5>. QED
          BY <5>1, <5>2
      <4>. QED
        BY <3>2, <3>6, <4>1, <4>2 DEF Answering
    <3>7. m.entry # e => ~Touches(m, e)
      BY <1>4, <3>1, <3>2, TouchesOwn
    <3>. QED
      BY <1>7, <3>1, <3>2, <3>3, <3>4, <3>5, <3>6, <3>7, ComingOffered
  <2>6. CASE Unregister(c) \/ CloseSend(c)
    BY <1>5, <2>6 DEF Unregister, CloseSend, LinkInv
  <2>. QED
    BY <1>9, <2>1, <2>2, <2>3, <2>4, <2>5, <2>6 DEF Reader
<1>. QED
  BY <1>8, <1>9

LEMMA WriterCurrent ==
  ASSUME Types, LinkInv, SampleInv, CurrentInv, NEW x \in Conns, Writer(x)
  PROVE  CurrentInv'
<1>1. /\ UNCHANGED <<cur, pub, told, page, loaded, want, link, conn, inbox, subs, behind, aged>>
      /\ UNCHANGED readerVars
  BY DEF Writer, WriteMessage, WriteFails, tableVars, pageVars
<1>. SUFFICES ASSUME link # None, conn[link] = "up", NEW e \in Entries, Concerns(link, e)'
              PROVE  Broadcasting(link, e)' \/ Coming(link, e)'
  BY <1>1 DEF CurrentInv
<1>2. PICK c \in Conns : c = link
  BY DEF Types, TypedPage
<1>3. Concerns(c, e) /\ conn[c] = "up"
  BY <1>1, <1>2 DEF Concerns, Shown
<1>4. SUFFICES ASSUME Coming(c, e)
               PROVE  Coming(c, e)'
  BY <1>1, <1>2, <1>3 DEF CurrentInv, Broadcasting
<1>5. dirty => dirty'
  BY DEF Writer, WriteMessage, WriteFails, pageVars
<1>6. CASE Healing(c, e) \/ e \in behind[c] \/ Answering(c, e)
  BY <1>1, <1>5, <1>6 DEF Coming, Healing, Answering, readerVars
<1>7. CASE Ends(send[c], e, Seen(e), Fresh(e))
  <2>1. Fresh(e)' = Fresh(e)
    BY <1>1 DEF Fresh
  <2>2. SUFFICES Ends(send'[c], e, Seen(e)', Fresh(e))
    BY <1>1, <2>1 DEF Coming, Ends, Touches
  <2>3. CASE UNCHANGED <<view, send>> \/ (x # c /\ WriteMessage(x))
    <3>1. x # c => conn[x] # "up"
      BY <1>2 DEF LinkInv
    <3>2. send'[c] = send[c] /\ view'[e] = view[e]
      BY <2>3, <3>1 DEF WriteMessage, Types, TypedConns
    <3>3. Seen(e)' = Seen(e)
      BY <1>1, <3>2 DEF Seen
    <3>. QED
      BY <1>7, <3>2, <3>3
  <2>4. CASE WriteMessage(c)
    <3>1. PICK m \in Messages :
             /\ m = Head(send[c]) /\ m.entry \in Entries
             /\ send[c] \in Seq(Messages) /\ send[c] # <<>>
             /\ send' = [send EXCEPT ![c] = Tail(@)]
             /\ view'[e] = IF Takes(m) /\ Touches(m, e) THEN m.val ELSE view[e]
      BY <1>3, <2>4, Written
    <3>2. send'[c] = Tail(send[c])
      BY <3>1 DEF Types, TypedConns
    <3>3. CASE ~Touches(m, e)
      <4>1. Seen(e)' = Seen(e)
        BY <1>1, <3>1, <3>3 DEF Seen
      <4>. QED
        BY <1>7, <3>1, <3>2, <3>3, <4>1, EndsTail
    <3>4. CASE Touches(m, e)
      <4>1. m.val \in Fresh(e) => Seen(e)' \in Fresh(e)
        <5>1. CASE e[2] = "status" /\ ~loaded
          BY <1>1, <5>1 DEF Seen, Fresh
        <5>2. CASE e[2] = "status" /\ loaded
          <6>1. Takes(m)
            BY <3>4, <5>2 DEF Touches, Takes
          <6>. QED
            BY <1>1, <3>1, <3>4, <5>2, <6>1 DEF Seen
        <5>3. CASE e[2] # "status"
          <6>1. m.entry = e /\ Seen(e)' = view'[e]
            BY <3>4, <5>3 DEF Touches, Seen
          <6>2. CASE Takes(m)
            BY <3>1, <3>4, <6>1, <6>2
          <6>3. CASE ~Takes(m)
            <7>1. e[2] \in {"device_stats", "sample"}
              BY <5>3, HubAssumption DEF Entries
            <7>2. e[2] # "device_stats"
              BY <1>3, <6>1, <6>3 DEF Takes, Concerns, Shown
            <7>3. e[2] = "sample" /\ ~(m.val > view[e])
              BY <1>3, <6>1, <6>3, <7>1, <7>2 DEF Takes, Concerns, Shown
            <7>4. m \in Under(c)
              BY <3>1, TailRange DEF Under
            <7>5. InOrder(e) /\ m.val > 0 /\ (m.val <= told[e] \/ m.val = cur[e])
              BY <6>1, <7>3, <7>4 DEF SampleInv, WasStored
            <7>6. /\ cur[e] \in Nat /\ told[e] \in Nat /\ view[e] \in Nat /\ m.val \in Nat
              BY <7>4, NatTables
            <7>7. ASSUME m.val \in Fresh(e)
                  PROVE  view[e] = told[e] \/ view[e] = cur[e]
              BY <7>3, <7>5, <7>6, <7>7 DEF InOrder, Fresh
            <7>. QED
              BY <3>1, <6>1, <6>3, <7>7 DEF Fresh
          <6>. QED
            BY <6>2, <6>3
        <5>. QED
          BY <5>1, <5>2, <5>3
      <4>. QED
        BY <1>7, <3>1, <3>2, <3>4, <4>1, EndsTail
    <3>. QED
      BY <3>3, <3>4
  <2>. QED
    BY <2>3, <2>4 DEF Writer, WriteFails, pageVars
<1>. QED
  BY <1>4, <1>6, <1>7 DEF Coming

LEMMA PageCurrent ==
  ASSUME Types, CurrentInv, SendSubscribe \/ Response \/ OnClose \/ Request \/ ResponseFails
  PROVE  CurrentInv'
<1>1. CASE OnClose
  BY <1>1 DEF OnClose, CurrentInv
<1>2. CASE ~OnClose
  <2>1. /\ UNCHANGED <<pub, cur, told, behind, page, link, conn, subs, send, readerVars>>
        /\ \A e \in Entries : Shown(e)' <=> Shown(e)
    BY <1>2 DEF SendSubscribe, Response, Request, ResponseFails, tableVars, connVars, Shown
  <2>. SUFFICES ASSUME link # None, conn[link] = "up", NEW e \in Entries, Concerns(link, e)'
                PROVE  Broadcasting(link, e)' \/ Coming(link, e)'
    BY <2>1 DEF CurrentInv
  <2>2. PICK c \in Conns : c = link
    BY DEF Types, TypedPage
  <2>3. Concerns(c, e) /\ Fresh(e)' = Fresh(e) /\ Shown(e)
    BY <2>1, <2>2 DEF Concerns, Fresh
  <2>4. SUFFICES ASSUME Coming(c, e)
                 PROVE  Coming(c, e)'
    BY <2>1, <2>2, <2>3 DEF CurrentInv, Broadcasting
  <2>5. CASE e \in behind[c] \/ Answering(c, e)
    BY <2>1, <2>5 DEF Coming, Answering, readerVars
  <2>6. CASE Healing(c, e)
    <3>1. e \in aged'
      BY <1>2, <2>6 DEF Healing, SendSubscribe, Response, Request, ResponseFails
    <3>2. dirty' \/ inbox'[c] # <<>>
      <4>1. CASE SendSubscribe
        <5>1. want \in SUBSET Devices /\ inbox[c] \in Seq(SUBSET Devices)
          BY DEF Types, TypedPage, TypedConns
        <5>2. inbox'[c] = Append(inbox[c], want)
          BY <2>2, <4>1 DEF SendSubscribe, Types, TypedConns
        <5>3. Append(inbox[c], want) # <<>>
          BY <5>1, AppendProperties
        <5>. QED
          BY <5>2, <5>3
      <4>2. CASE Response \/ ResponseFails
        BY <4>2 DEF Response, ResponseFails
      <4>3. CASE Request
        BY <2>6, <4>3 DEF Request, Healing, connVars
      <4>. QED
        BY <1>2, <4>1, <4>2, <4>3
    <3>. QED
      BY <3>1, <3>2 DEF Coming, Healing
  <2>7. CASE Ends(send[c], e, Seen(e), Fresh(e))
    <3>1. ASSUME Seen(e) \in Fresh(e) => Seen(e)' \in Fresh(e)
          PROVE  Coming(c, e)'
      <4>1. Ends(send[c], e, Seen(e)', Fresh(e))
        BY <2>7, <3>1 DEF Ends
      <4>. QED
        BY <2>1, <2>3, <4>1 DEF Coming, Ends, Touches
    <3>2. CASE SendSubscribe \/ Request
      <4>1. Seen(e)' = Seen(e)
        BY <2>1, <3>2 DEF Seen, SendSubscribe, Request
      <4>. QED
        BY <3>1, <4>1
    <3>3. CASE ResponseFails
      <4>1. Seen(e)' = told[e] \/ Seen(e)' = Seen(e)
        BY <2>1, <3>3 DEF Seen, ResponseFails
      <4>. QED
        BY <3>1, <4>1 DEF Fresh
    <3>4. CASE Response
      <4>1. CASE Replaces(e) /\ rest[e] \notin Fresh(e)
        <5>1. e \in aged' /\ dirty'
          BY <3>4, <4>1 DEF Response
        <5>. QED
          BY <5>1 DEF Coming, Healing
      <4>2. CASE Replaces(e) /\ rest[e] \in Fresh(e)
        <5>1. Seen(e)' = rest[e]
          BY <3>4, <4>2 DEF Response, Seen
        <5>. QED
          BY <3>1, <4>2, <5>1
      <4>3. CASE ~Replaces(e)
        <5>1. e[2] # "status"
          BY <2>3, <4>3 DEF Replaces
        <5>2. Seen(e)' = Seen(e)
          BY <3>4, <4>3, <5>1 DEF Response, Seen
        <5>. QED
          BY <3>1, <5>2
      <4>. QED
        BY <4>1, <4>2, <4>3
    <3>. QED
      BY <1>2, <3>2, <3>3, <3>4
  <2>. QED
    BY <2>4, <2>5, <2>6, <2>7 DEF Coming
<1>. QED
  BY <1>1, <1>2

LEMMA LinkCurrent ==
  ASSUME Types, LinkInv, CurrentInv, NEW x \in Conns,
         Connect(x) \/ LoseConnection(x) \/ \E d \in Devices : MapRace(d, x)
  PROVE  CurrentInv'
<1>1. CASE Connect(x)
  <2>1. link' = x /\ subs'[x] = {}
    BY <1>1 DEF Connect, Idle, LinkInv
  <2>. QED
    BY <2>1 DEF CurrentInv, Concerns
<1>2. CASE LoseConnection(x)
  <2>1. /\ UNCHANGED <<tableVars, inbox, subs, send, readerVars, pageVars, history>>
        /\ \A c \in Conns : conn'[c] = "up" => conn[c] = "up"
    BY <1>2 DEF LoseConnection, Types, TypedConns
  <2>2. ASSUME link # None, conn'[link] = "up", NEW e \in Entries, Concerns(link, e)'
        PROVE  Broadcasting(link, e)' \/ Coming(link, e)'
    <3>1. PICK c \in Conns : c = link
      BY <2>2 DEF Types, TypedPage
    <3>2. /\ Concerns(c, e) /\ conn[c] = "up" /\ UNCHANGED Held(c)
          /\ UNCHANGED <<page, dirty, loaded, aged, view, told, cur>>
      BY <2>1, <2>2, <3>1 DEF Concerns, Shown, Held, tableVars, readerVars, pageVars
    <3>3. Broadcasting(c, e) => Broadcasting(c, e)'
      BY <2>1 DEF Broadcasting, tableVars
    <3>4. Coming(c, e) => Coming(c, e)'
      BY <3>2, ComingKept
    <3>5. Broadcasting(c, e)' \/ Coming(c, e)'
      BY <2>2, <3>1, <3>2, <3>3, <3>4 DEF CurrentInv
    <3>6. link' = link
      BY <2>1 DEF pageVars
    <3>. QED
      BY <3>1, <3>5, <3>6 DEF Broadcasting, Coming, Answering, Healing
  <2>. QED
    BY <2>1, <2>2 DEF CurrentInv, pageVars
<1>3. ASSUME NEW d \in Devices, MapRace(d, x)
      PROVE  CurrentInv'
  <2>1. link' = link /\ conn' = [y \in Conns |-> "closed"]
    BY <1>3 DEF MapRace, pageVars
  <2>. QED
    BY <2>1 DEF CurrentInv, Types, TypedPage
<1>. QED
  BY <1>1, <1>2, <1>3

LEMMA NextCurrent ==
  /\ Types /\ FeedInv /\ LinkInv /\ OwnInv /\ StoredInv /\ SampleInv
  /\ CurrentInv /\ [Next]_vars
  => CurrentInv'
<1>. SUFFICES ASSUME Types, FeedInv, LinkInv, OwnInv, StoredInv, SampleInv, CurrentInv,
                     [Next]_vars
              PROVE  CurrentInv'
  OBVIOUS
<1>1. ASSUME NEW e \in Entries, Change(e)
      PROVE  CurrentInv'
  <2>1. e[1] \in Devices
    BY DEF Entries
  <2>. QED
    BY <1>1, <2>1, BroadcasterCurrent
<1>2. CASE UNCHANGED vars
  BY <1>2 DEF vars, tableVars, connVars, readerVars, pageVars, CurrentInv, Concerns, Shown,
              Broadcasting, Coming, Healing, Answering, Ends, Touches, Seen, Fresh
<1>. QED
  BY <1>1, <1>2, BroadcasterCurrent, ReaderCurrent, WriterCurrent, PageCurrent, LinkCurrent
     DEF Next, Page

LEMMA CurrentInvariant == Spec => []CurrentInv
BY InitCurrent, NextCurrent, TypesInvariant, FeedInvariant, LinkInvariant, OwnInvariant,
   StoredInvariant, SampleInvariant, PTL DEF Spec

\* A connected page follows what is broadcast and stored, at all times: for any
\* number of devices and any interleaving of broadcasts, subscriptions and their
\* answers, answers to requests and lost connections.
THEOREM PageIsCurrent == Spec => []PageFollows
<1>1. CurrentInv => PageFollows
  BY DEF CurrentInv, PageFollows, Coming, Healing
<1>. QED
  BY <1>1, CurrentInvariant, PTL
=============================================================================
