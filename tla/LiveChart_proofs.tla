--------------------------- MODULE LiveChart_proofs ---------------------------
(* Proofs about LiveChart: its types, that live samples are in order, that the *)
(* page is not behind what it was sent, and that the chart reads forward.      *)
EXTENDS LiveChart, SequenceTheorems, TLAPS

-----------------------------------------------------------------------------
(* Sequences of samples, and their texts.                                  *)

Ascending(q) == \A i, j \in 1 .. Len(q) : i < j => q[i] < q[j]

LEMMA Sizes ==
  /\ Sec \in Nat /\ Sec > 0 /\ Window \in Nat /\ Zones \subseteq Int
  /\ MaxSamples \in Nat /\ MaxSamples > 0 /\ Cap \in Nat
  /\ Horizon \in Nat /\ Horizon > 0 /\ MaxFaults \in Nat /\ None \notin Int
  /\ Samples \subseteq Int /\ 1 \in Samples
<1>1. \A n \in Nat \ {0} : n \in Nat /\ n > 0
  OBVIOUS
<1>2. Horizon \in Nat /\ Horizon > 0
  BY <1>1, LiveChartAssumption
<1>. QED
  BY <1>1, <1>2, LiveChartAssumption DEF Samples

\* The last n elements of a sequence.
LEMMA LastNProperties ==
  ASSUME NEW S, NEW q \in Seq(S), NEW n \in Nat, n > 0
  PROVE  /\ LastN(q, n) \in Seq(S)
         /\ \E k \in 0 .. Len(q) :
              /\ Len(LastN(q, n)) = Len(q) - k
              /\ \A i \in 1 .. Len(q) - k : LastN(q, n)[i] = q[i + k]
              /\ Len(q) > 0 => k < Len(q)
<1>1. Len(q) \in Nat
  BY LenProperties
<1>2. CASE Len(q) <= n
  BY <1>1, <1>2 DEF LastN
<1>3. CASE Len(q) > n
  <2>0. Len(q) - n \in 1 .. Len(q) - 1
    BY <1>1, <1>3
  <2>1. PICK k \in 1 .. Len(q) - 1 : k = Len(q) - n
    BY <2>0
  <2>2. \A i \in k + 1 .. Len(q) : q[i] \in S
    BY <1>1, <2>1, ElementOfSeq
  <2>3. LastN(q, n) = SubSeq(q, k + 1, Len(q))
    BY <1>1, <1>3, <2>1 DEF LastN
  <2>4. /\ SubSeq(q, k + 1, Len(q)) \in Seq(S)
        /\ Len(SubSeq(q, k + 1, Len(q))) = Len(q) - k
        /\ \A i \in 1 .. Len(q) - k : SubSeq(q, k + 1, Len(q))[i] = q[i + k]
    BY <1>1, <2>1, <2>2, SubSeqProperties
  <2>5. /\ Len(LastN(q, n)) = Len(q) - k
        /\ \A i \in 1 .. Len(q) - k : LastN(q, n)[i] = q[i + k]
        /\ Len(q) > 0 => k < Len(q)
        /\ k \in 0 .. Len(q)
    BY <1>1, <2>1, <2>3, <2>4
  <2>. QED
    BY <2>3, <2>4, <2>5
<1>. QED
  BY <1>1, <1>2, <1>3

\* A message that is offered to client.send.
LEMMA OfferedProperties ==
  ASSUME NEW s \in Samples, send \in Seq(Samples)
  PROVE  Offered(s) \in Seq(Samples)
BY AppendProperties DEF Offered

\* Text rounds down to a whole second, and keeps the order.
LEMMA TextBounds ==
  ASSUME NEW t \in Int
  PROVE  Text(t) \in Int /\ Text(t) <= t /\ t < Text(t) + Sec
BY Sizes DEF Text

LEMMA SecondsApart ==
  ASSUME NEW m \in Int, NEW n \in Int, m < n
  PROVE  m * Sec + Sec <= n * Sec
<1>1. (m + 1) * Sec <= n * Sec
  BY Sizes
<1>. QED
  BY <1>1, Sizes

LEMMA TextOrder ==
  ASSUME NEW s \in Int, NEW t \in Int, Text(s) # Text(t), s <= t
  PROVE  Text(s) + Sec <= Text(t)
<1>1. s \div Sec \in Int /\ t \div Sec \in Int
  BY Sizes
<1>2. PICK m \in Int, n \in Int : /\ m = s \div Sec /\ n = t \div Sec
                                  /\ Text(s) = m * Sec /\ Text(t) = n * Sec
  BY <1>1 DEF Text
<1>3. CASE m < n
  BY <1>2, <1>3, SecondsApart
<1>4. CASE n < m
  <2>1. n * Sec + Sec <= m * Sec
    BY <1>4, SecondsApart
  <2>. QED
    BY <1>2, <2>1, TextBounds, Sizes
<1>5. CASE m = n
  BY <1>2, <1>5
<1>. QED
  BY <1>3, <1>4, <1>5

-----------------------------------------------------------------------------
(* Types.                                                                  *)

TypedQueues ==
    /\ pending \in Seq(Samples) /\ rows \in Seq(Samples) /\ send \in Seq(Samples)
    /\ answer \in Seq(Samples) /\ history \in Seq(Samples) /\ tail \in Seq(Samples)
Stored == wpc = "idle" \/ taken \in Samples

TypeInv == TypeOK /\ Stored

LEMMA Queues == TypeOK => TypedQueues
BY DEF TypeOK, TypedQueues

TypedRest ==
    /\ now \in Samples /\ zone \in Zones /\ faults \in 0 .. MaxFaults
    /\ taken \in 0 .. now /\ latest \in Samples \cup {None}
    /\ wpc \in {"idle", "broadcast", "send"}
    /\ link \in {"down", "up"} /\ snap \in Samples \cup {None}
    /\ ppc \in {"load", "ask", "answer", "done", "failed"}
    /\ latestTs \in Int \cup {None}
    /\ arrived \subseteq Samples /\ early \subseteq Samples

LEMMA TypeParts == TypeInv <=> TypedQueues /\ TypedRest /\ Stored
BY DEF TypeInv, TypeOK, TypedQueues, TypedRest

\* The time that the page reads in the last row of q.
LEMMA LastTime ==
  ASSUME NEW q \in Seq(Samples), q # <<>>, zone \in Int
  PROVE  /\ Len(q) \in 1 .. Len(q) /\ Last(q) = q[Len(q)]
         /\ Last(q) \in Samples /\ Last(q) \in Int
         /\ Parsed(Text(Last(q))) = Text(Last(q)) + zone
         /\ Text(Last(q)) \in Int /\ Text(Last(q)) <= Last(q) /\ Last(q) < Text(Last(q)) + Sec
<1>1. Len(q) \in 1 .. Len(q) /\ Last(q) = q[Len(q)]
  BY EmptySeq DEF Last
<1>2. PICK t \in Samples : t = Last(q)
  BY <1>1, ElementOfSeq
<1>3. t \in Int
  BY Sizes
<1>4. Text(t) \in Int /\ Text(t) <= t /\ t < Text(t) + Sec
  BY <1>3, TextBounds
<1>. QED
  BY <1>1, <1>2, <1>3, <1>4 DEF Parsed

LEMMA InitType == Init => TypeInv
<1>. SUFFICES ASSUME Init
              PROVE  TypedQueues /\ TypedRest /\ Stored
  BY TypeParts
<1>1. TypedQueues
  BY DEF Init, TypedQueues
<1>2. now = 1 /\ faults = 0 /\ taken = 0
  BY DEF Init
<1>3. now \in Samples /\ faults \in 0 .. MaxFaults /\ taken \in 0 .. now
  BY <1>2, Sizes
<1>4. TypedRest /\ Stored
  BY <1>3 DEF Init, TypedRest, Stored
<1>. QED
  BY <1>1, <1>4

LEMMA NextType == TypeInv /\ [Next]_vars => TypeInv'
<1>. SUFFICES ASSUME TypedQueues, TypedRest, Stored, [Next]_vars
              PROVE  TypedQueues' /\ TypedRest' /\ Stored'
  BY DEF TypeInv, TypeOK, TypedQueues, TypedRest
<1>. USE DEF worker, table, conn, page
<1>0. taken \in Int /\ now \in Int /\ now <= Horizon /\ now >= 1 /\ faults \in Int
  BY DEF TypedRest, Samples
<1>1. CASE Advance
  <2>1. now' \in Samples /\ taken \in 0 .. now'
    BY <1>0, <1>1, Sizes DEF Advance, Samples, TypedRest
  <2>. QED
    BY <1>1, <2>1 DEF Advance, TypedQueues, TypedRest, Stored
<1>2. CASE CacheSample
  <2>1. taken' \in 0 .. now /\ taken' \in Samples /\ latest' \in Samples
    BY <1>0, <1>2 DEF CacheSample, TypedRest
  <2>. QED
    BY <1>2, <2>1 DEF CacheSample, TypedQueues, TypedRest, Stored
<1>3. CASE Broadcast
  <2>1. send' \in Seq(Samples)
    BY <1>3, OfferedProperties DEF Broadcast, Stored, TypedQueues
  <2>. QED
    BY <1>3, <2>1 DEF Broadcast, TypedQueues, TypedRest, Stored
<1>4. CASE SendSample
  <2>1. pending' \in Seq(Samples)
    BY <1>4, AppendProperties DEF SendSample, Stored, TypedQueues
  <2>. QED
    BY <1>4, <2>1 DEF SendSample, TypedQueues, TypedRest, Stored
<1>5. CASE Flush
  <2>0. PICK n \in 1 .. Len(pending) : Flush!(n)
    BY <1>5 DEF Flush
  <2>1. /\ pending' = SubSeq(pending, n + 1, Len(pending))
        /\ rows' = rows \o SubSeq(pending, 1, n) \/ rows' = rows
        /\ faults' = faults \/ (faults < MaxFaults /\ faults' = faults + 1)
    BY <2>0
  <2>2. Len(pending) \in Nat /\ \A i \in 1 .. Len(pending) : pending[i] \in Samples
    BY LenProperties, ElementOfSeq DEF TypedQueues
  <2>3. SubSeq(pending, n + 1, Len(pending)) \in Seq(Samples)
        /\ SubSeq(pending, 1, n) \in Seq(Samples)
    BY <2>2, SubSeqProperties
  <2>4. pending' \in Seq(Samples) /\ rows' \in Seq(Samples)
    <3>1. rows \o SubSeq(pending, 1, n) \in Seq(Samples)
      BY <2>3, ConcatProperties DEF TypedQueues
    <3>. QED
      BY <2>1, <2>3, <3>1 DEF TypedQueues
  <2>5. faults' \in 0 .. MaxFaults
    BY <2>1, Sizes DEF TypedRest
  <2>. QED
    BY <1>5, <2>4, <2>5 DEF Flush, TypedQueues, TypedRest, Stored
<1>6. CASE GetTrafficHistory
  <2>1. PICK k \in 0 .. Len(rows) : answer' = SubSeq(rows, k + 1, Len(rows))
    BY <1>6 DEF GetTrafficHistory
  <2>2. Len(rows) \in Nat /\ \A i \in 1 .. Len(rows) : rows[i] \in Samples
    BY LenProperties, ElementOfSeq DEF TypedQueues
  <2>3. answer' \in Seq(Samples)
    BY <2>1, <2>2, SubSeqProperties
  <2>. QED
    BY <1>6, <2>3 DEF GetTrafficHistory, TypedQueues, TypedRest, Stored
<1>7. CASE HandleWS
  BY <1>7 DEF HandleWS, TypedQueues, TypedRest, Stored
<1>8. CASE Subscribe
  BY <1>8 DEF Subscribe, TypedQueues, TypedRest, Stored
<1>9. CASE PushSnapshot
  <2>1. send' \in Seq(Samples)
    BY <1>9, OfferedProperties DEF PushSnapshot, TypedQueues, TypedRest
  <2>. QED
    BY <1>9, <2>1 DEF PushSnapshot, TypedQueues, TypedRest, Stored
<1>10. ASSUME faults < MaxFaults, faults' = faults + 1
       PROVE  faults' \in 0 .. MaxFaults
  BY <1>10, Sizes DEF TypedRest
<1>11. CASE Disconnect
  BY <1>10, <1>11 DEF Disconnect, Lost, TypedQueues, TypedRest, Stored
<1>12. CASE Restart
  BY <1>10, <1>12 DEF Restart, Lost, TypedQueues, TypedRest, Stored
<1>13. CASE Load
  BY <1>13 DEF Load, TypedQueues, TypedRest, Stored
<1>14. CASE LoadFails
  BY <1>10, <1>14 DEF LoadFails, TypedQueues, TypedRest, Stored
<1>15. CASE LoadHistory
  <2>1. ToSet(tail) \subseteq Samples
    BY LenProperties, ElementOfSeq DEF TypedQueues, ToSet
  <2>2. latestTs' \in Int \cup {None}
    <3>1. CASE answer = <<>>
      BY <1>15, <3>1 DEF LoadHistory, TypedRest
    <3>2. CASE answer # <<>>
      <4>1. answer \in Seq(Samples) /\ zone \in Int
        BY Sizes DEF TypedQueues, TypedRest
      <4>2. Parsed(Text(Last(answer))) \in Int
        BY <3>2, <4>1, LastTime
      <4>. QED
        BY <1>15, <4>2 DEF LoadHistory, TypedRest
    <3>. QED
      BY <3>1, <3>2
  <2>. QED
    BY <1>15, <2>1, <2>2 DEF LoadHistory, TypedQueues, TypedRest, Stored
<1>16. CASE Receive
  <2>1. Head(send) \in Samples /\ Tail(send) \in Seq(Samples)
    BY <1>16, HeadTailProperties DEF Receive, TypedQueues
  <2>2. tail' \in Seq(Samples) /\ latestTs' \in Int \cup {None}
    <3>1. LastN(Append(tail, Head(send)), MaxSamples) \in Seq(Samples)
      BY <2>1, AppendProperties, LastNProperties, Sizes DEF TypedQueues
    <3>. QED
      BY <1>16, <2>1, <3>1, Sizes DEF Receive, TypedQueues, TypedRest
  <2>. QED
    BY <1>16, <2>1, <2>2 DEF Receive, TypedQueues, TypedRest, Stored
<1>17. CASE UNCHANGED vars
  BY <1>17 DEF vars, TypedQueues, TypedRest, Stored
<1>. QED
  BY <1>1, <1>2, <1>3, <1>4, <1>5, <1>6, <1>7, <1>8, <1>9, <1>11, <1>12, <1>13, <1>14,
     <1>15, <1>16, <1>17 DEF Next

LEMMA TypeInvariant == Spec => []TypeInv
BY InitType, NextType, PTL DEF Spec

\* Every reachable state is well typed.
THEOREM TypeCorrect == Spec => []TypeOK
<1>1. TypeInv => TypeOK
  BY DEF TypeInv
<1>. QED
  BY <1>1, TypeInvariant, PTL

-----------------------------------------------------------------------------
(* Live samples.  What is newer than latestTs goes to the end of the tail, and *)
(* latestTs to it.                                                             *)

\* What the handler of a message does to the page.
Shown(x) ==
    \/ ~IsNew(x) /\ UNCHANGED <<latestTs, tail>>
    \/ /\ IsNew(x) /\ latestTs' = x
       /\ \E k \in 0 .. Len(tail) :
            /\ Len(tail') = Len(tail) - k + 1
            /\ \A i \in 1 .. Len(tail) - k : tail'[i] = tail[i + k]
            /\ tail'[Len(tail) - k + 1] = x

LEMMA ReceiveShows ==
  ASSUME TypeInv, Receive
  PROVE  \E x \in Samples : arrived' = arrived \cup {x} /\ Shown(x)
<1>1. TypedQueues /\ Len(tail) \in Nat
  BY TypeParts, LenProperties DEF TypedQueues
<1>2. PICK x \in Samples : x = Head(send)
  BY <1>1, HeadTailProperties DEF Receive, TypedQueues
<1>3. arrived' = arrived \cup {x}
  BY <1>2 DEF Receive
<1>4. CASE ~IsNew(x)
  BY <1>2, <1>3, <1>4 DEF Receive, Shown
<1>5. CASE IsNew(x)
  <2>1. PICK q \in Seq(Samples) : q = Append(tail, x)
    BY <1>1, AppendProperties DEF TypedQueues
  <2>2. /\ Len(q) = Len(tail) + 1
        /\ \A i \in 1 .. Len(tail) : q[i] = tail[i]
        /\ q[Len(tail) + 1] = x
    BY <1>1, <2>1, AppendProperties DEF TypedQueues
  <2>3. tail' = LastN(q, MaxSamples) /\ latestTs' = x
    BY <1>2, <1>5, <2>1 DEF Receive
  <2>4. PICK k \in 0 .. Len(q) :
          /\ Len(tail') = Len(q) - k
          /\ \A i \in 1 .. Len(q) - k : tail'[i] = q[i + k]
          /\ Len(q) > 0 => k < Len(q)
    BY <2>3, LastNProperties, Sizes
  <2>5. k \in 0 .. Len(tail)
    BY <1>1, <2>2, <2>4
  <2>6. /\ Len(tail') = Len(tail) - k + 1
        /\ \A i \in 1 .. Len(tail) - k : tail'[i] = tail[i + k]
        /\ tail'[Len(tail) - k + 1] = x
    <3>1. \A i \in 1 .. Len(tail) - k : i \in 1 .. Len(q) - k /\ i + k \in 1 .. Len(tail)
      BY <1>1, <2>2, <2>5
    <3>2. Len(tail) - k + 1 \in 1 .. Len(q) - k /\ Len(tail) - k + 1 + k = Len(tail) + 1
      BY <1>1, <2>2, <2>5
    <3>3. Len(tail') = Len(tail) - k + 1
      BY <1>1, <2>2, <2>4, <2>5
    <3>4. ASSUME NEW i \in 1 .. Len(tail) - k
          PROVE  tail'[i] = tail[i + k]
      <4>1. tail'[i] = q[i + k]
        BY <2>4, <3>1
      <4>. QED
        BY <2>2, <3>1, <4>1
    <3>5. tail'[Len(tail) - k + 1] = q[Len(tail) + 1]
      BY <2>4, <3>2
    <3>. QED
      BY <2>2, <3>3, <3>4, <3>5
  <2>. QED
    BY <1>3, <1>5, <2>3, <2>5, <2>6 DEF Shown
<1>. QED
  BY <1>4, <1>5

\* The steps that are not the page's.
LEMMA PageKept ==
  ASSUME [Next]_vars
  PROVE  \/ UNCHANGED <<history, tail, latestTs, arrived, early>> /\ (ppc' = "done" => ppc = "done")
         \/ LoadHistory
         \/ Receive
BY DEF Next, Advance, CacheSample, Broadcast, SendSample, Flush, GetTrafficHistory, HandleWS,
   Subscribe, PushSnapshot, Disconnect, Restart, Load, LoadFails, page, vars

LiveInv ==
    /\ Ascending(tail)
    /\ \A i \in 1 .. Len(tail) : latestTs # None /\ tail[i] <= latestTs

LEMMA NextLive == TypeInv /\ LiveInv /\ [Next]_vars => LiveInv'
<1>. SUFFICES ASSUME TypeInv, LiveInv, [Next]_vars
              PROVE  LiveInv'
  OBVIOUS
<1>0. /\ TypedQueues /\ TypedRest /\ Len(tail) \in Nat
      /\ \A i \in 1 .. Len(tail) : tail[i] \in Int
  <2>1. TypedQueues /\ TypedRest
    BY TypeParts
  <2>2. \A i \in 1 .. Len(tail) : tail[i] \in Int
    BY <2>1, ElementOfSeq, Sizes DEF TypedQueues
  <2>. QED
    BY <2>1, <2>2, LenProperties DEF TypedQueues
<1>1. CASE UNCHANGED <<history, tail, latestTs, arrived, early>>
  BY <1>1 DEF LiveInv, Ascending
<1>2. CASE LoadHistory
  <2>1. tail' = tail
    BY <1>2 DEF LoadHistory
  <2>2. latestTs # None => latestTs' # None /\ latestTs <= latestTs'
    <3>1. CASE latestTs' = latestTs
      BY <1>0, <3>1 DEF TypedRest
    <3>2. CASE latestTs' # latestTs
      <4>1. IsNew(Parsed(Text(Last(answer)))) /\ latestTs' = Parsed(Text(Last(answer)))
            /\ answer # <<>>
        BY <1>2, <3>2 DEF LoadHistory
      <4>2. answer \in Seq(Samples) /\ zone \in Int
        BY <1>0, Sizes DEF TypedQueues, TypedRest
      <4>3. Parsed(Text(Last(answer))) \in Int
        BY <4>1, <4>2, LastTime
      <4>. QED
        BY <1>0, <4>1, <4>3, Sizes DEF IsNew, TypedRest
    <3>. QED
      BY <3>1, <3>2
  <2>3. latestTs' \in Int \cup {None}
    BY <1>0, <2>2, NextType, TypeParts DEF TypeInv, TypeOK
  <2>. QED
    BY <1>0, <2>1, <2>2, <2>3 DEF LiveInv, Ascending, TypedRest
<1>3. CASE Receive
  <2>1. PICK x \in Samples : Shown(x)
    BY <1>3, ReceiveShows
  <2>2. CASE UNCHANGED <<latestTs, tail>>
    BY <2>2 DEF LiveInv, Ascending
  <2>3. CASE IsNew(x) /\ latestTs' = x
             /\ \E k \in 0 .. Len(tail) :
                  /\ Len(tail') = Len(tail) - k + 1
                  /\ \A i \in 1 .. Len(tail) - k : tail'[i] = tail[i + k]
                  /\ tail'[Len(tail) - k + 1] = x
    <3>1. PICK k \in 0 .. Len(tail) :
            /\ Len(tail') = Len(tail) - k + 1
            /\ \A i \in 1 .. Len(tail) - k : tail'[i] = tail[i + k]
            /\ tail'[Len(tail) - k + 1] = x
      BY <2>3
    <3>2. x \in Int /\ x # None
      BY Sizes
    <3>3. \A i \in 1 .. Len(tail) : tail[i] < x
      BY <1>0, <2>3, <3>2, SMTT(30) DEF IsNew, LiveInv, TypedRest
    <3>4. \A i \in 1 .. Len(tail') : \/ /\ i \in 1 .. Len(tail) - k /\ i + k \in 1 .. Len(tail)
                                        /\ tail'[i] = tail[i + k]
                                     \/ i = Len(tail') /\ tail'[i] = x
      <4>1. PICK m \in Int : m = Len(tail) - k
        BY <1>0
      <4>2. m >= 0 /\ m + k = Len(tail) /\ k >= 0 /\ Len(tail') = m + 1
        BY <1>0, <3>1, <4>1
      <4>3. \A i \in 1 .. m : i + k \in 1 .. Len(tail) /\ tail'[i] = tail[i + k]
        BY <1>0, <3>1, <4>1, <4>2
      <4>4. \A i \in 1 .. m + 1 : i \in 1 .. m \/ i = m + 1
        BY <4>2
      <4>. QED
        BY <3>1, <4>1, <4>2, <4>3, <4>4
    <3>5. Len(tail') \in Nat
      BY <1>0, <3>1
    <3>6. ASSUME NEW i \in 1 .. Len(tail'), NEW j \in 1 .. Len(tail'), i < j
          PROVE  tail'[i] < tail'[j]
      <4>1. i \in 1 .. Len(tail) - k /\ i + k \in 1 .. Len(tail) /\ tail'[i] = tail[i + k]
        BY <3>4, <3>5, <3>6
      <4>2. CASE j \in 1 .. Len(tail) - k /\ j + k \in 1 .. Len(tail) /\ tail'[j] = tail[j + k]
        BY <1>0, <3>6, <4>1, <4>2 DEF LiveInv, Ascending
      <4>3. CASE tail'[j] = x
        BY <3>3, <4>1, <4>3
      <4>. QED
        BY <3>4, <4>2, <4>3
    <3>7. \A i \in 1 .. Len(tail') : tail'[i] <= x
      BY <1>0, <3>2, <3>3, <3>4
    <3>. QED
      BY <2>3, <3>2, <3>6, <3>7 DEF LiveInv, Ascending
  <2>. QED
    BY <2>1, <2>2, <2>3 DEF Shown
<1>. QED
  BY <1>1, <1>2, <1>3, PageKept

LEMMA LiveInvariant == Spec => []LiveInv
<1>1. Init => LiveInv
  BY DEF Init, LiveInv, Ascending
<1>. QED
  BY <1>1, NextLive, TypeInvariant, PTL DEF Spec

\* The live samples of a chart are in order and none is there twice.
THEOREM LiveSamplesInOrder == Spec => []LiveInOrder
<1>1. TypeInv /\ LiveInv => LiveInOrder
  <2>1. ASSUME TypeInv, LiveInv
        PROVE  LiveInOrder
    <3>1. DOMAIN tail = 1 .. Len(tail)
      BY <2>1, TypeParts, LenProperties DEF TypedQueues
    <3>. QED
      BY <2>1, <3>1 DEF LiveInv, Ascending, LiveInOrder
  <2>. QED
    BY <2>1
<1>. QED
  BY <1>1, LiveInvariant, TypeInvariant, PTL

-----------------------------------------------------------------------------
(* The page and what it was sent.  A message is shown, or latestTs is as new;  *)
(* and latestTs is the newest live sample or the last row of the history, as   *)
(* the page reads its time.  The history comes once.                           *)

\* After a message the tail ends in it, and the rest was there before.
LEMMA ShownTail ==
  ASSUME Len(tail) \in Nat, NEW x \in Samples, Shown(x), ~UNCHANGED <<latestTs, tail>>
  PROVE  /\ IsNew(x) /\ latestTs' = x
         /\ \E i \in 1 .. Len(tail') : tail'[i] = x
         /\ \A i \in 1 .. Len(tail') :
               tail'[i] = x \/ \E j \in 1 .. Len(tail) : tail'[i] = tail[j]
<1>1. IsNew(x) /\ latestTs' = x
  BY DEF Shown
<1>2. PICK k \in 0 .. Len(tail) :
        /\ Len(tail') = Len(tail) - k + 1
        /\ \A i \in 1 .. Len(tail) - k : tail'[i] = tail[i + k]
        /\ tail'[Len(tail) - k + 1] = x
  BY DEF Shown
<1>3. PICK m \in Int : m = Len(tail) - k
  OBVIOUS
<1>4. m >= 0 /\ m + k = Len(tail) /\ k >= 0 /\ Len(tail') = m + 1
  BY <1>2, <1>3
<1>5. \A i \in 1 .. m : i + k \in 1 .. Len(tail) /\ tail'[i] = tail[i + k]
  BY <1>2, <1>3, <1>4
<1>6. \A i \in 1 .. m + 1 : i \in 1 .. m \/ i = m + 1
  BY <1>4
<1>7. m + 1 \in 1 .. Len(tail')
  BY <1>4
<1>. QED
  BY <1>1, <1>2, <1>3, <1>4, <1>5, <1>6, <1>7

ShownInv ==
    /\ ppc # "done" => history = <<>>
    /\ \A t \in arrived : latestTs # None /\ t <= latestTs
    /\ latestTs # None => \/ \E i \in 1 .. Len(tail) : tail[i] = latestTs
                          \/ history # <<>> /\ latestTs = Parsed(Text(Last(history)))

LEMMA NextShown == TypeInv /\ ShownInv /\ [Next]_vars => ShownInv'
<1>. SUFFICES ASSUME TypeInv, ShownInv, [Next]_vars
              PROVE  ShownInv'
  OBVIOUS
<1>0. /\ TypedQueues /\ TypedRest /\ Len(tail) \in Nat /\ zone \in Int
      /\ \A t \in arrived : t \in Int
  BY TypeParts, LenProperties, Sizes DEF TypedQueues, TypedRest
<1>1. zone' = zone
  BY DEF Next, Advance, CacheSample, Broadcast, SendSample, Flush, GetTrafficHistory, HandleWS,
     Subscribe, PushSnapshot, Disconnect, Restart, Load, LoadFails, LoadHistory, Receive, vars
<1>2. CASE UNCHANGED <<history, tail, latestTs, arrived, early>> /\ (ppc' = "done" => ppc = "done")
  <2>1. ppc' # "done" => history' = <<>>
    <3>1. CASE ppc = "done"
      BY <1>2, <3>1 DEF Next, Advance, CacheSample, Broadcast, SendSample, Flush,
         GetTrafficHistory, HandleWS, Subscribe, PushSnapshot, Disconnect, Restart, Load,
         LoadFails, LoadHistory, Receive, page, vars
    <3>2. CASE ppc # "done"
      BY <1>2, <3>2 DEF ShownInv
    <3>. QED
      BY <3>1, <3>2
  <2>. QED
    BY <1>1, <1>2, <2>1 DEF ShownInv, Parsed, Text
<1>3. CASE LoadHistory
  <2>1. /\ ppc' = "done" /\ UNCHANGED <<tail, arrived>> /\ history' = answer /\ history = <<>>
    BY <1>3 DEF LoadHistory, ShownInv
  <2>2. CASE latestTs' = latestTs
    BY <2>1, <2>2 DEF ShownInv
  <2>3. CASE latestTs' # latestTs
    <3>1. IsNew(Parsed(Text(Last(answer)))) /\ latestTs' = Parsed(Text(Last(answer)))
          /\ answer # <<>>
      BY <1>3, <2>3 DEF LoadHistory
    <3>2. answer \in Seq(Samples)
      BY <1>0 DEF TypedQueues
    <3>3. Parsed(Text(Last(answer))) \in Int
      BY <1>0, <3>1, <3>2, LastTime
    <3>4. latestTs' # None /\ \A t \in arrived : t <= latestTs'
      BY <1>0, <3>1, <3>3, Sizes DEF IsNew, ShownInv, TypedRest
    <3>5. latestTs' = Parsed(Text(Last(history)))'
      BY <1>1, <2>1, <3>1 DEF Parsed, Text
    <3>. QED
      BY <2>1, <3>1, <3>4, <3>5 DEF ShownInv
  <2>. QED
    BY <2>2, <2>3
<1>4. CASE Receive
  <2>1. PICK x \in Samples : arrived' = arrived \cup {x} /\ Shown(x)
    BY <1>4, ReceiveShows
  <2>2. ppc' = ppc /\ history' = history /\ x \in Int
    BY <1>4, Sizes DEF Receive
  <2>3. CASE UNCHANGED <<latestTs, tail>>
    <3>1. latestTs # None /\ x <= latestTs
      <4>1. ~IsNew(x)
        BY <2>1, <2>2, <2>3, Sizes DEF Shown, IsNew, TypedRest
      <4>. QED
        BY <1>0, <2>2, <4>1, Sizes DEF IsNew, TypedRest
    <3>. QED
      BY <1>1, <2>1, <2>2, <2>3, <3>1 DEF ShownInv, Parsed, Text
  <2>4. CASE ~UNCHANGED <<latestTs, tail>>
    <3>1. /\ IsNew(x) /\ latestTs' = x
          /\ \E i \in 1 .. Len(tail') : tail'[i] = x
      BY <1>0, <2>1, <2>4, ShownTail
    <3>2. \A t \in arrived : t <= x
      BY <1>0, <2>2, <3>1, Sizes DEF IsNew, ShownInv, TypedRest
    <3>3. x # None /\ x <= x
      BY <2>2, Sizes
    <3>. QED
      BY <2>1, <2>2, <3>1, <3>2, <3>3 DEF ShownInv
  <2>. QED
    BY <2>3, <2>4
<1>. QED
  BY <1>2, <1>3, <1>4, PageKept

LEMMA ShownInvariant == Spec => []ShownInv
<1>1. Init => ShownInv
  BY DEF Init, ShownInv
<1>. QED
  BY <1>1, NextShown, TypeInvariant, PTL DEF Spec

\* Of everything the page was sent, something as new is shown, except where
\* the server is east of UTC and the last row lies in the page's future.
THEOREM PageIsNeverBehind == Spec => []NeverBehind
<1>1. TypeInv /\ ShownInv => NeverBehind
  <2>. SUFFICES ASSUME TypeInv, ShownInv, NEW t \in arrived
                PROVE  \/ \E u \in ToSet(history) \cup ToSet(tail) : u >= t
                       \/ zone > 0 /\ history # <<>> /\ t <= Text(Last(history)) + zone
    BY DEF NeverBehind
  <2>1. /\ TypedQueues /\ TypedRest /\ zone \in Int /\ t \in Int
        /\ DOMAIN tail = 1 .. Len(tail) /\ DOMAIN history = 1 .. Len(history)
    BY TypeParts, LenProperties, Sizes DEF TypedQueues, TypedRest
  <2>2. latestTs # None /\ t <= latestTs /\ latestTs \in Int
    BY <2>1 DEF ShownInv, TypedRest
  <2>3. CASE \E i \in 1 .. Len(tail) : tail[i] = latestTs
    <3>1. latestTs \in ToSet(tail)
      BY <2>1, <2>3 DEF ToSet
    <3>2. latestTs >= t
      BY <2>1, <2>2
    <3>. QED
      BY <3>1, <3>2
  <2>4. CASE history # <<>> /\ latestTs = Parsed(Text(Last(history)))
    <3>1. history \in Seq(Samples)
      BY <2>1 DEF TypedQueues
    <3>2. /\ Len(history) \in 1 .. Len(history) /\ Last(history) = history[Len(history)]
          /\ Last(history) \in Int
          /\ Parsed(Text(Last(history))) = Text(Last(history)) + zone
          /\ Text(Last(history)) \in Int /\ Text(Last(history)) <= Last(history)
      BY <2>1, <2>4, <3>1, LastTime
    <3>3. Last(history) \in ToSet(history)
      BY <2>1, <3>2 DEF ToSet
    <3>4. CASE zone > 0
      BY <2>2, <2>4, <3>2, <3>4
    <3>5. CASE ~(zone > 0)
      <4>1. Last(history) >= t
        BY <2>1, <2>2, <2>4, <3>2, <3>5
      <4>. QED
        BY <3>3, <4>1
    <3>. QED
      BY <3>4, <3>5
  <2>. QED
    BY <2>2, <2>3, <2>4 DEF ShownInv
<1>. QED
  BY <1>1, ShownInvariant, TypeInvariant, PTL

-----------------------------------------------------------------------------
(* The rows of the table ascend, as samples are taken one after another and    *)
(* their way to the table is a queue; so does the history, the last of them.   *)

AscendingTo(q, t) == Ascending(q) /\ \A i \in 1 .. Len(q) : q[i] <= t
Before(q, r) == \A i \in 1 .. Len(q), j \in 1 .. Len(r) : q[i] < r[j]

WayInv ==
    /\ AscendingTo(rows, taken) /\ AscendingTo(pending, taken) /\ Before(rows, pending)
    /\ wpc # "idle" => Before(rows, <<taken>>) /\ Before(pending, <<taken>>)
HistoryInv == Ascending(answer) /\ Ascending(history)

\* A contiguous part of an ascending sequence.
LEMMA PartAscends ==
  ASSUME NEW q \in Seq(Samples), NEW m \in 0 .. Len(q), NEW n \in m .. Len(q)
  PROVE  LET r == SubSeq(q, m + 1, n)
         IN  /\ r \in Seq(Samples) /\ Len(r) = n - m
             /\ \A i \in 1 .. Len(r) : r[i] = q[i + m] /\ i + m \in 1 .. Len(q)
             /\ Ascending(q) => Ascending(r)
<1>. DEFINE r == SubSeq(q, m + 1, n)
<1>1. Len(q) \in Nat /\ \A i \in 1 .. Len(q) : q[i] \in Samples
  BY LenProperties, ElementOfSeq
<1>2. \A i \in m + 1 .. n : q[i] \in Samples
  BY <1>1
<1>3. /\ r \in Seq(Samples) /\ Len(r) = n - m
      /\ \A i \in 1 .. n - m : r[i] = q[m + 1 + i - 1]
  BY <1>1, <1>2, SubSeqProperties
<1>4. \A i \in 1 .. Len(r) : r[i] = q[i + m] /\ i + m \in 1 .. Len(q)
  <2>. SUFFICES ASSUME NEW i \in 1 .. Len(r)
                PROVE  r[i] = q[i + m] /\ i + m \in 1 .. Len(q)
    OBVIOUS
  <2>1. m + 1 + i - 1 = i + m /\ i \in 1 .. n - m /\ i + m \in 1 .. Len(q)
    BY <1>1, <1>3
  <2>. QED
    BY <1>3, <2>1
<1>5. ASSUME Ascending(q)
      PROVE  Ascending(r)
  <2>. SUFFICES ASSUME NEW i \in 1 .. Len(r), NEW j \in 1 .. Len(r), i < j
                PROVE  r[i] < r[j]
    BY DEF Ascending
  <2>1. i + m < j + m
    BY <1>1, <1>3
  <2>. QED
    BY <1>4, <1>5, <2>1 DEF Ascending
<1>. QED
  BY <1>3, <1>4, <1>5

\* One ascending sequence after another.
LEMMA ConcatAscends ==
  ASSUME NEW q \in Seq(Samples), NEW r \in Seq(Samples)
  PROVE  /\ q \o r \in Seq(Samples) /\ Len(q \o r) = Len(q) + Len(r)
         /\ \A i \in 1 .. Len(q \o r) :
               \/ i \in 1 .. Len(q) /\ (q \o r)[i] = q[i]
               \/ i - Len(q) \in 1 .. Len(r) /\ (q \o r)[i] = r[i - Len(q)] /\ i > Len(q)
         /\ Ascending(q) /\ Ascending(r) /\ Before(q, r) => Ascending(q \o r)
<1>1. Len(q) \in Nat /\ Len(r) \in Nat
  BY LenProperties
<1>2. /\ q \o r \in Seq(Samples) /\ Len(q \o r) = Len(q) + Len(r)
      /\ \A i \in 1 .. Len(q) + Len(r) :
            (q \o r)[i] = IF i <= Len(q) THEN q[i] ELSE r[i - Len(q)]
  BY ConcatProperties
<1>3. PICK qr \in Seq(Samples) : qr = q \o r
  BY <1>2
<1>4. \A i \in 1 .. Len(qr) :
         \/ i \in 1 .. Len(q) /\ qr[i] = q[i]
         \/ i - Len(q) \in 1 .. Len(r) /\ qr[i] = r[i - Len(q)] /\ i > Len(q)
  <2>. SUFFICES ASSUME NEW i \in 1 .. Len(qr)
                PROVE  \/ i \in 1 .. Len(q) /\ qr[i] = q[i]
                       \/ i - Len(q) \in 1 .. Len(r) /\ qr[i] = r[i - Len(q)] /\ i > Len(q)
    OBVIOUS
  <2>1. i \in 1 .. Len(q) + Len(r)
    BY <1>2, <1>3
  <2>2. qr[i] = IF i <= Len(q) THEN q[i] ELSE r[i - Len(q)]
    BY <1>2, <1>3, <2>1
  <2>3. CASE i <= Len(q)
    BY <1>1, <2>1, <2>2, <2>3
  <2>4. CASE ~(i <= Len(q))
    BY <1>1, <2>1, <2>2, <2>4
  <2>. QED
    BY <2>3, <2>4
<1>5. ASSUME Ascending(q), Ascending(r), Before(q, r)
      PROVE  Ascending(qr)
  <2>. SUFFICES ASSUME NEW i \in 1 .. Len(qr), NEW j \in 1 .. Len(qr), i < j
                PROVE  qr[i] < qr[j]
    BY DEF Ascending
  <2>1. CASE i \in 1 .. Len(q) /\ qr[i] = q[i] /\ j \in 1 .. Len(q) /\ qr[j] = q[j]
    BY <1>5, <2>1 DEF Ascending
  <2>2. CASE i \in 1 .. Len(q) /\ qr[i] = q[i]
             /\ j - Len(q) \in 1 .. Len(r) /\ qr[j] = r[j - Len(q)]
    BY <1>5, <2>2 DEF Before
  <2>3. CASE i > Len(q) /\ i - Len(q) \in 1 .. Len(r) /\ qr[i] = r[i - Len(q)]
    <3>1. j - Len(q) \in 1 .. Len(r) /\ qr[j] = r[j - Len(q)] /\ i - Len(q) < j - Len(q)
      BY <1>1, <1>2, <1>3, <1>4, <2>3
    <3>. QED
      BY <1>5, <2>3, <3>1 DEF Ascending
  <2>. QED
    BY <1>4, <2>1, <2>2, <2>3
<1>. QED
  BY <1>2, <1>3, <1>4, <1>5

LEMMA NextWay == TypeInv /\ WayInv /\ [Next]_vars => WayInv'
<1>. SUFFICES ASSUME TypeInv, WayInv, [Next]_vars
              PROVE  WayInv'
  OBVIOUS
<1>0. /\ TypedQueues /\ TypedRest /\ Stored
      /\ taken \in Int /\ now \in Int
      /\ Len(rows) \in Nat /\ Len(pending) \in Nat
      /\ \A i \in 1 .. Len(rows) : rows[i] \in Samples /\ rows[i] \in Int
      /\ \A i \in 1 .. Len(pending) : pending[i] \in Samples /\ pending[i] \in Int
  <2>1. TypedQueues /\ TypedRest /\ Stored
    BY TypeParts
  <2>2. rows \in Seq(Samples) /\ pending \in Seq(Samples)
    BY <2>1 DEF TypedQueues
  <2>3. Len(rows) \in Nat /\ Len(pending) \in Nat
    BY <2>2, LenProperties
  <2>4. /\ \A i \in 1 .. Len(rows) : rows[i] \in Samples
        /\ \A i \in 1 .. Len(pending) : pending[i] \in Samples
    BY <2>2, ElementOfSeq
  <2>5. \A t \in Samples : t \in Int
    BY Sizes
  <2>6. taken \in Int /\ now \in Int
    BY <2>1, Sizes DEF TypedRest
  <2>. QED
    BY <2>1, <2>3, <2>4, <2>5, <2>6
<1>. USE DEF worker, table, conn, page
<1>1. CASE UNCHANGED <<rows, pending, taken>> /\ (wpc' = "idle" \/ wpc # "idle")
  BY <1>1 DEF WayInv, AscendingTo, Before, Ascending
<1>2. CASE CacheSample
  <2>1. taken' \in Int /\ taken < taken' /\ UNCHANGED <<rows, pending>>
    BY <1>0, <1>2 DEF CacheSample
  <2>2. Len(<<taken'>>) = 1 /\ <<taken'>>[1] = taken'
    OBVIOUS
  <2>3. /\ \A i \in 1 .. Len(rows) : rows[i] < taken'
        /\ \A i \in 1 .. Len(pending) : pending[i] < taken'
    BY <1>0, <2>1 DEF WayInv, AscendingTo
  <2>4. Before(rows, <<taken'>>) /\ Before(pending, <<taken'>>)
    BY <2>2, <2>3 DEF Before
  <2>5. AscendingTo(rows, taken') /\ AscendingTo(pending, taken')
    BY <1>0, <2>1, <2>3 DEF WayInv, AscendingTo
  <2>. QED
    BY <2>1, <2>4, <2>5 DEF WayInv
<1>3. CASE SendSample
  <2>1. taken \in Samples /\ UNCHANGED <<rows, taken>> /\ wpc' = "idle"
        /\ pending' = Append(pending, taken) /\ wpc # "idle"
    BY <1>0, <1>3 DEF SendSample, Stored
  <2>2. /\ Len(pending') = Len(pending) + 1
        /\ \A i \in 1 .. Len(pending) : pending'[i] = pending[i]
        /\ pending'[Len(pending) + 1] = taken
    BY <1>0, <2>1, AppendProperties DEF TypedQueues
  <2>3. Len(<<taken>>) = 1 /\ <<taken>>[1] = taken
    OBVIOUS
  <2>4. /\ \A i \in 1 .. Len(rows) : rows[i] < taken
        /\ \A i \in 1 .. Len(pending) : pending[i] < taken
    BY <2>1, <2>3 DEF WayInv, Before
  <2>5. \A i \in 1 .. Len(pending') : \/ i \in 1 .. Len(pending) /\ pending'[i] = pending[i]
                                      \/ i = Len(pending) + 1 /\ pending'[i] = taken
    BY <1>0, <2>2
  <2>6. Ascending(pending')
    BY <1>0, <2>2, <2>4, <2>5, SMTT(30) DEF Ascending, WayInv, AscendingTo
  <2>7. \A i \in 1 .. Len(pending') : pending'[i] <= taken
    BY <1>0, <2>4, <2>5
  <2>8. Before(rows, pending')
    BY <2>4, <2>5 DEF WayInv, Before
  <2>. QED
    BY <2>1, <2>6, <2>7, <2>8 DEF WayInv, AscendingTo
<1>4. CASE Flush
  <2>1. PICK n \in 1 .. Len(pending) : Flush!(n)
    BY <1>4 DEF Flush
  <2>2. PICK a \in Seq(Samples), b \in Seq(Samples) :
          /\ a = SubSeq(pending, 1, n) /\ b = SubSeq(pending, n + 1, Len(pending))
          /\ Len(a) = n /\ Len(b) = Len(pending) - n
          /\ \A i \in 1 .. Len(a) : a[i] = pending[i] /\ i \in 1 .. Len(pending)
          /\ \A i \in 1 .. Len(b) : b[i] = pending[i + n] /\ i + n \in 1 .. Len(pending)
          /\ Ascending(a) /\ Ascending(b)
    <3>1. pending \in Seq(Samples) /\ Ascending(pending)
      BY <1>0 DEF TypedQueues, WayInv, AscendingTo
    <3>2. /\ SubSeq(pending, 0 + 1, n) \in Seq(Samples) /\ Len(SubSeq(pending, 0 + 1, n)) = n - 0
          /\ \A i \in 1 .. Len(SubSeq(pending, 0 + 1, n)) :
               SubSeq(pending, 0 + 1, n)[i] = pending[i + 0] /\ i + 0 \in 1 .. Len(pending)
          /\ Ascending(SubSeq(pending, 0 + 1, n))
      BY <1>0, <3>1, PartAscends
    <3>3. /\ SubSeq(pending, n + 1, Len(pending)) \in Seq(Samples)
          /\ Len(SubSeq(pending, n + 1, Len(pending))) = Len(pending) - n
          /\ \A i \in 1 .. Len(SubSeq(pending, n + 1, Len(pending))) :
               SubSeq(pending, n + 1, Len(pending))[i] = pending[i + n] /\ i + n \in 1 .. Len(pending)
          /\ Ascending(SubSeq(pending, n + 1, Len(pending)))
      BY <1>0, <3>1, PartAscends
    <3>4. 0 + 1 = 1 /\ n - 0 = n /\ \A i \in 1 .. n : i + 0 = i
      BY <1>0
    <3>. QED
      BY <3>2, <3>3, <3>4
  <2>3. Before(a, b)
    BY <1>0, <2>2 DEF Before, WayInv, AscendingTo, Ascending
  <2>4. AscendingTo(b, taken) /\ AscendingTo(a, taken)
    BY <2>2 DEF WayInv, AscendingTo
  <2>5. Before(rows, a) /\ Before(rows, b)
    BY <2>2 DEF WayInv, Before
  <2>6. wpc # "idle" => Before(a, <<taken>>) /\ Before(b, <<taken>>)
    BY <2>2 DEF WayInv, Before
  <2>7. pending' = b /\ UNCHANGED <<taken, wpc>>
    BY <2>1, <2>2
  <2>8. CASE rows' = rows
    BY <2>4, <2>5, <2>6, <2>7, <2>8 DEF WayInv
  <2>9. CASE rows' = rows \o a
    <3>1. /\ Len(rows') = Len(rows) + Len(a)
          /\ \A i \in 1 .. Len(rows') :
               \/ i \in 1 .. Len(rows) /\ rows'[i] = rows[i]
               \/ i - Len(rows) \in 1 .. Len(a) /\ rows'[i] = a[i - Len(rows)]
          /\ Ascending(rows')
      <4>1. rows \in Seq(Samples) /\ Ascending(rows)
        BY <1>0 DEF TypedQueues, WayInv, AscendingTo
      <4>2. /\ Len(rows \o a) = Len(rows) + Len(a)
            /\ \A i \in 1 .. Len(rows \o a) :
                 \/ i \in 1 .. Len(rows) /\ (rows \o a)[i] = rows[i]
                 \/ i - Len(rows) \in 1 .. Len(a) /\ (rows \o a)[i] = a[i - Len(rows)]
            /\ Ascending(rows \o a)
        BY <2>2, <2>5, <4>1, ConcatAscends, ZenonT(60)
      <4>. QED
        BY <2>9, <4>2
    <3>2. AscendingTo(rows', taken)
      BY <2>4, <3>1 DEF WayInv, AscendingTo
    <3>3. Before(rows', b)
      BY <2>3, <2>5, <3>1 DEF Before
    <3>4. wpc # "idle" => Before(rows', <<taken>>)
      BY <2>6, <3>1 DEF WayInv, Before
    <3>. QED
      BY <2>4, <2>6, <2>7, <3>2, <3>3, <3>4 DEF WayInv
  <2>. QED
    BY <2>1, <2>2, <2>8, <2>9
<1>5. CASE Restart
  <2>1. pending' = <<>> /\ wpc' = "idle" /\ UNCHANGED <<rows, taken>>
    BY <1>5 DEF Restart
  <2>2. AscendingTo(<<>>, taken) /\ Before(rows, <<>>)
    BY DEF AscendingTo, Ascending, Before
  <2>. QED
    BY <2>1, <2>2 DEF WayInv
<1>. QED
  BY <1>1, <1>2, <1>3, <1>4, <1>5 DEF Next, Advance, Broadcast, GetTrafficHistory, HandleWS, Subscribe,
     PushSnapshot, Disconnect, Load, LoadFails, LoadHistory, Receive, vars

LEMMA NextHistory == TypeInv /\ WayInv /\ HistoryInv /\ [Next]_vars => HistoryInv'
<1>. SUFFICES ASSUME TypeInv, WayInv, HistoryInv, [Next]_vars
              PROVE  HistoryInv'
  OBVIOUS
<1>. USE DEF worker, table, conn, page
<1>1. Ascending(<<>>)
  BY DEF Ascending
<1>2. CASE UNCHANGED history /\ (answer' = answer \/ answer' = <<>>)
  BY <1>1, <1>2 DEF HistoryInv
<1>3. CASE GetTrafficHistory
  <2>1. PICK k \in 0 .. Len(rows) : answer' = SubSeq(rows, k + 1, Len(rows))
    BY <1>3 DEF GetTrafficHistory
  <2>2. rows \in Seq(Samples) /\ Ascending(rows) /\ Len(rows) \in k .. Len(rows)
    BY TypeParts, LenProperties DEF TypedQueues, WayInv, AscendingTo
  <2>3. Ascending(answer')
    BY <2>1, <2>2, PartAscends
  <2>. QED
    BY <1>3, <2>3 DEF GetTrafficHistory, HistoryInv
<1>4. CASE LoadHistory
  BY <1>1, <1>4 DEF LoadHistory, HistoryInv
<1>. QED
  BY <1>2, <1>3, <1>4 DEF Next, Advance, CacheSample, Broadcast, SendSample, Flush, HandleWS, Subscribe,
     PushSnapshot, Disconnect, Restart, Load, LoadFails, Receive, vars

LEMMA HistoryInvariant == Spec => [](WayInv /\ HistoryInv)
<1>1. Init => WayInv /\ HistoryInv
  BY DEF Init, WayInv, HistoryInv, AscendingTo, Ascending, Before
<1>. QED
  BY <1>1, NextWay, NextHistory, TypeInvariant, PTL DEF Spec

-----------------------------------------------------------------------------
(* The merge.  The page goes on from the last row of the history: what is in   *)
(* the tail was there before the history came, or is newer than that row.      *)

MergeInv ==
    history # <<>> =>
        /\ latestTs # None /\ Parsed(Text(Last(history))) <= latestTs
        /\ \A i \in 1 .. Len(tail) :
              tail[i] \in early \/ Parsed(Text(Last(history))) < tail[i]

LEMMA NextMerge == TypeInv /\ ShownInv /\ MergeInv /\ [Next]_vars => MergeInv'
<1>. SUFFICES ASSUME TypeInv, ShownInv, MergeInv, [Next]_vars, history' # <<>>
              PROVE  /\ latestTs' # None /\ Parsed(Text(Last(history)))' <= latestTs'
                     /\ \A i \in 1 .. Len(tail') :
                           tail'[i] \in early' \/ Parsed(Text(Last(history)))' < tail'[i]
  BY DEF MergeInv
<1>0. /\ TypedQueues /\ TypedRest /\ Len(tail) \in Nat /\ zone \in Int
      /\ DOMAIN tail = 1 .. Len(tail) /\ None \notin Int
  BY TypeParts, LenProperties, Sizes DEF TypedQueues, TypedRest
<1>1. zone' = zone
  BY DEF Next, Advance, CacheSample, Broadcast, SendSample, Flush, GetTrafficHistory, HandleWS,
     Subscribe, PushSnapshot, Disconnect, Restart, Load, LoadFails, LoadHistory, Receive, vars
<1>2. CASE UNCHANGED <<history, tail, latestTs, arrived, early>>
  BY <1>1, <1>2 DEF MergeInv, Parsed, Text
<1>3. CASE LoadHistory
  <2>1. /\ UNCHANGED tail /\ history' = answer /\ answer # <<>> /\ early' = ToSet(tail)
        /\ latestTs' = IF IsNew(Parsed(Text(Last(answer)))) THEN Parsed(Text(Last(answer)))
                                                            ELSE latestTs
    BY <1>3 DEF LoadHistory
  <2>2. Parsed(Text(Last(history)))' = Parsed(Text(Last(answer)))
    BY <1>1, <2>1 DEF Parsed, Text
  <2>3. Parsed(Text(Last(answer))) \in Int
    <3>1. answer \in Seq(Samples)
      BY <1>0 DEF TypedQueues
    <3>. QED
      BY <1>0, <2>1, <3>1, LastTime
  <2>4. latestTs' # None /\ Parsed(Text(Last(answer))) <= latestTs'
    BY <1>0, <2>1, <2>3 DEF IsNew, TypedRest
  <2>5. \A i \in 1 .. Len(tail') : tail'[i] \in early'
    BY <1>0, <2>1 DEF ToSet
  <2>. QED
    BY <2>2, <2>4, <2>5
<1>4. CASE Receive
  <2>1. PICK x \in Samples : Shown(x)
    BY <1>4, ReceiveShows
  <2>2. UNCHANGED <<history, early>> /\ x \in Int
    BY <1>4, Sizes DEF Receive
  <2>3. PICK p \in Int : p = Parsed(Text(Last(history)))
    <3>1. history \in Seq(Samples)
      BY <1>0 DEF TypedQueues
    <3>. QED
      BY <1>0, <2>2, <3>1, LastTime
  <2>4. p = Parsed(Text(Last(history)))'
    BY <1>1, <2>2, <2>3 DEF Parsed, Text
  <2>5. latestTs # None /\ p <= latestTs
        /\ \A i \in 1 .. Len(tail) : tail[i] \in early \/ p < tail[i]
    BY <2>2, <2>3 DEF MergeInv
  <2>6. CASE UNCHANGED <<latestTs, tail>>
    BY <2>2, <2>4, <2>5, <2>6
  <2>7. CASE ~UNCHANGED <<latestTs, tail>>
    <3>1. /\ IsNew(x) /\ latestTs' = x
          /\ \A i \in 1 .. Len(tail') :
                tail'[i] = x \/ \E j \in 1 .. Len(tail) : tail'[i] = tail[j]
      BY <1>0, <2>1, <2>7, ShownTail
    <3>2. p < x /\ x # None
      BY <1>0, <2>2, <2>5, <3>1 DEF IsNew, TypedRest
    <3>. QED
      BY <2>2, <2>4, <2>5, <3>1, <3>2
  <2>. QED
    BY <2>6, <2>7
<1>. QED
  BY <1>2, <1>3, <1>4, PageKept

LEMMA MergeInvariant == Spec => []MergeInv
<1>1. Init => MergeInv
  BY DEF Init, MergeInv
<1>. QED
  BY <1>1, NextMerge, ShownInvariant, TypeInvariant, PTL DEF Spec

\* The history and the tail, one after the other, as the chart is to read.
Forward(s, t) == s < t \/ t \in early \/ (InLastSecond(s) /\ InLastSecond(t))

LEMMA MergeForward ==
  ASSUME TypeInv, LiveInv, HistoryInv, MergeInv, zone = 0
  PROVE  \A i \in 1 .. Len(history), j \in 1 .. Len(tail) : Forward(history[i], tail[j])
<1>. SUFFICES ASSUME NEW i \in 1 .. Len(history), NEW j \in 1 .. Len(tail)
              PROVE  Forward(history[i], tail[j])
  OBVIOUS
<1>1. history \in Seq(Samples) /\ tail \in Seq(Samples) /\ zone \in Int
  BY TypeParts DEF TypedQueues
<1>2. Len(history) \in Nat /\ history # <<>>
  BY <1>1, LenProperties, EmptySeq
<1>3. PICK s \in Int, t \in Int, l \in Int :
         s = history[i] /\ t = tail[j] /\ l = Last(history)
  BY <1>1, <1>2, ElementOfSeq, Sizes, LastTime
<1>4. s <= l
  <2>1. /\ Len(history) \in 1 .. Len(history) /\ i <= Len(history)
        /\ history[Len(history)] = l
    BY <1>2, <1>3, Sizes DEF Last
  <2>2. i < Len(history) => history[i] < history[Len(history)]
    BY <2>1, Zenon DEF HistoryInv, Ascending
  <2>3. i < Len(history) \/ i = Len(history)
    BY <1>2, <2>1
  <2>. QED
    BY <1>3, <2>1, <2>2, <2>3
<1>5. t \in early \/ Text(l) < t
  <2>1. Parsed(Text(Last(history))) = Text(l) + zone
    BY <1>3 DEF Parsed
  <2>2. Text(l) + zone = Text(l)
    BY <1>3, TextBounds
  <2>. QED
    BY <1>2, <1>3, <2>1, <2>2 DEF MergeInv
<1>6. ASSUME Text(l) < t
      PROVE  s < t \/ (Text(s) = Text(l) /\ Text(t) = Text(l))
  <2>1. /\ Text(s) \in Int /\ Text(t) \in Int /\ Text(l) \in Int /\ Sec \in Nat
        /\ s < Text(s) + Sec /\ Text(t) <= t /\ t < Text(t) + Sec /\ l < Text(l) + Sec
    BY TextBounds, Sizes
  <2>2. CASE Text(s) # Text(l)
    <3>1. Text(s) + Sec <= Text(l)
      BY <1>4, <2>2, TextOrder
    <3>. QED
      BY <1>6, <2>1, <3>1
  <2>3. CASE Text(t) # Text(l) /\ l <= t
    <3>1. Text(l) + Sec <= Text(t)
      BY <2>3, TextOrder
    <3>. QED
      BY <1>4, <2>1, <3>1
  <2>4. CASE Text(t) # Text(l) /\ t <= l
    <3>1. Text(t) + Sec <= Text(l)
      BY <2>4, TextOrder
    <3>. QED
      BY <1>6, <2>1, <3>1
  <2>. QED
    BY <2>2, <2>3, <2>4
<1>. QED
  BY <1>2, <1>3, <1>5, <1>6 DEF Forward, InLastSecond

\* Where the server's time is UTC the chart reads forward, except for what was
\* live before the history came and within the second of the last row.
THEOREM ChartIsForward == Spec => []ChartReadsForward
<1>1. TypeInv /\ LiveInv /\ HistoryInv /\ MergeInv => ChartReadsForward
  <2>. SUFFICES ASSUME TypeInv, LiveInv, HistoryInv, MergeInv, zone = 0,
                       NEW i \in DOMAIN Chart, NEW j \in DOMAIN Chart, i < j
                PROVE  Forward(Chart[i], Chart[j])
    BY DEF ChartReadsForward, Forward
  <2>1. history \in Seq(Samples) /\ tail \in Seq(Samples)
        /\ Ascending(history) /\ Ascending(tail)
    BY TypeParts DEF TypedQueues, HistoryInv, LiveInv
  <2>2. CASE tail = <<>>
    <3>1. Chart = history /\ DOMAIN history = 1 .. Len(history)
      BY <2>1, <2>2, LenProperties DEF Chart
    <3>2. history[i] < history[j]
      BY <2>1, <3>1 DEF Ascending
    <3>. QED
      BY <3>1, <3>2 DEF Forward
  <2>3. CASE tail # <<>>
    <3>1. PICK q \in Seq(Samples) : q = history \o tail
      BY <2>1, ConcatAscends
    <3>2. Chart = LastN(q, MaxSamples) /\ Chart \in Seq(Samples)
      BY <2>3, <3>1, LastNProperties, Sizes DEF Chart
    <3>3. PICK k \in 0 .. Len(q) :
             /\ Len(Chart) = Len(q) - k
             /\ \A n \in 1 .. Len(q) - k : Chart[n] = q[n + k]
      <4>1. \E k \in 0 .. Len(q) :
               /\ Len(LastN(q, MaxSamples)) = Len(q) - k
               /\ \A n \in 1 .. Len(q) - k : LastN(q, MaxSamples)[n] = q[n + k]
        BY LastNProperties, Sizes, ZenonT(60)
      <4>. QED
        BY <3>2, <4>1
    <3>4. i \in 1 .. Len(q) - k /\ j \in 1 .. Len(q) - k
      BY <3>2, <3>3, LenProperties
    <3>5. Len(q) \in Nat /\ Len(history) \in Nat
      BY <2>1, LenProperties
    <3>6. PICK m \in 1 .. Len(q), n \in 1 .. Len(q) :
             m < n /\ Chart[i] = q[m] /\ Chart[j] = q[n]
      <4>1. i + k \in 1 .. Len(q) /\ j + k \in 1 .. Len(q) /\ i + k < j + k
        BY <3>3, <3>4, <3>5
      <4>2. Chart[i] = q[i + k] /\ Chart[j] = q[j + k]
        BY <3>3, <3>4
      <4>. QED
        BY <4>1, <4>2
    <3>7. \A o \in 1 .. Len(q) :
             \/ o \in 1 .. Len(history) /\ q[o] = history[o]
             \/ o - Len(history) \in 1 .. Len(tail) /\ q[o] = tail[o - Len(history)]
                /\ o > Len(history)
      BY <2>1, <3>1, ConcatAscends
    <3>8. CASE n \in 1 .. Len(history) /\ q[n] = history[n]
      <4>1. m \in 1 .. Len(history) /\ q[m] = history[m]
        BY <3>5, <3>6, <3>7, <3>8
      <4>2. history[m] < history[n]
        BY <2>1, <3>6, <3>8, <4>1 DEF Ascending
      <4>. QED
        BY <3>6, <3>8, <4>1, <4>2 DEF Forward
    <3>9. CASE n - Len(history) \in 1 .. Len(tail) /\ q[n] = tail[n - Len(history)]
      <4>1. CASE m \in 1 .. Len(history) /\ q[m] = history[m]
        BY <3>6, <3>9, <4>1, MergeForward
      <4>2. CASE m - Len(history) \in 1 .. Len(tail) /\ q[m] = tail[m - Len(history)]
        <5>1. m - Len(history) < n - Len(history)
          BY <3>5, <3>6
        <5>2. tail[m - Len(history)] < tail[n - Len(history)]
          BY <2>1, <3>9, <4>2, <5>1 DEF Ascending
        <5>. QED
          BY <3>6, <3>9, <4>2, <5>2 DEF Forward
      <4>. QED
        BY <3>7, <4>1, <4>2
    <3>. QED
      BY <3>7, <3>8, <3>9
  <2>. QED
    BY <2>2, <2>3
<1>. QED
  BY <1>1, MergeInvariant, HistoryInvariant, LiveInvariant, TypeInvariant, PTL
=============================================================================
