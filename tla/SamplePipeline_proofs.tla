------------------------ MODULE SamplePipeline_proofs ------------------------
(* Proofs about SamplePipeline: its types, that a sample is stored once and in *)
(* order, that nothing received is forgotten, that the cache is never behind,  *)
(* and that the channels serve their readers like lossy queues, for any        *)
(* workers, capacities and batches.                                            *)
EXTENDS SamplePipeline, SequenceTheorems, FiniteSetTheorems, TLAPS

-----------------------------------------------------------------------------
(* Sequences of samples.                                                   *)

\* The numbers of the samples of a sequence, and that they increase.
N(s) == {s[i].n : i \in DOMAIN s}
Inc(s) == \A i, j \in DOMAIN s : i < j => s[i].n < s[j].n
Less(A, B) == \A a \in A, b \in B : a < b

LEMMA AppendSample ==
  ASSUME NEW S, NEW s \in Seq(S), NEW e \in S
  PROVE  /\ Append(s, e) \in Seq(S)
         /\ Len(Append(s, e)) = Len(s) + 1
         /\ N(Append(s, e)) = N(s) \cup {e.n}
         /\ Inc(s) /\ Less(N(s), {e.n}) => Inc(Append(s, e))
<1>1. /\ Append(s, e) \in Seq(S) /\ Len(Append(s, e)) = Len(s) + 1
      /\ \A i \in 1 .. Len(s) : Append(s, e)[i] = s[i]
      /\ Append(s, e)[Len(s) + 1] = e
  BY AppendProperties
<1>2. /\ DOMAIN s = 1 .. Len(s) /\ Len(s) \in Nat
      /\ DOMAIN Append(s, e) = 1 .. Len(s) + 1
  BY <1>1, LenProperties
<1>3. N(Append(s, e)) = N(s) \cup {e.n}
  BY <1>1, <1>2 DEF N
<1>4. ASSUME Inc(s), Less(N(s), {e.n})
      PROVE  Inc(Append(s, e))
  <2>1. SUFFICES ASSUME NEW i \in 1 .. Len(s) + 1, NEW j \in 1 .. Len(s) + 1, i < j
                 PROVE  Append(s, e)[i].n < Append(s, e)[j].n
    BY <1>2 DEF Inc
  <2>2. i \in 1 .. Len(s) /\ (j \in 1 .. Len(s) \/ j = Len(s) + 1)
    BY <1>2, <2>1
  <2>. QED
    BY <1>1, <1>2, <1>4, <2>1, <2>2 DEF Inc, Less, N
<1>. QED
  BY <1>1, <1>3, <1>4

LEMMA TailSample ==
  ASSUME NEW S, NEW s \in Seq(S), s # <<>>
  PROVE  /\ Head(s) \in S /\ Tail(s) \in Seq(S)
         /\ Len(Tail(s)) = Len(s) - 1 /\ Len(s) > 0
         /\ N(s) = {Head(s).n} \cup N(Tail(s))
         /\ Inc(s) => Inc(Tail(s)) /\ Less({Head(s).n}, N(Tail(s)))
<1>1. /\ Head(s) \in S /\ Tail(s) \in Seq(S)
      /\ Len(Tail(s)) = Len(s) - 1
      /\ \A i \in 1 .. Len(Tail(s)) : Tail(s)[i] = s[i + 1]
      /\ Len(s) \in Nat \ {0}
  BY HeadTailProperties, EmptySeq
<1>2. /\ DOMAIN s = 1 .. Len(s)
      /\ DOMAIN Tail(s) = 1 .. Len(s) - 1
      /\ Head(s) = s[1]
  BY <1>1, LenProperties
<1>3. \A i \in 1 .. Len(s) : i = 1 \/ (i - 1 \in 1 .. Len(s) - 1 /\ s[i] = Tail(s)[i - 1])
  BY <1>1
<1>4. N(s) = {Head(s).n} \cup N(Tail(s))
  <2>1. ASSUME NEW i \in 1 .. Len(s)
        PROVE  s[i].n \in {Head(s).n} \cup N(Tail(s))
    BY <1>2, <1>3 DEF N
  <2>2. ASSUME NEW i \in 1 .. Len(s) - 1
        PROVE  Tail(s)[i].n \in N(s)
    BY <1>1, <1>2 DEF N
  <2>3. Head(s).n \in N(s)
    BY <1>1, <1>2 DEF N
  <2>. QED
    BY <1>2, <2>1, <2>2, <2>3 DEF N
<1>5. ASSUME Inc(s)
      PROVE  Inc(Tail(s)) /\ Less({Head(s).n}, N(Tail(s)))
  BY <1>1, <1>2, <1>5 DEF Inc, Less, N
<1>. QED
  BY <1>1, <1>4, <1>5

LEMMA NoSamples == N(<<>>) = {} /\ Inc(<<>>)
BY DEF N, Inc

-----------------------------------------------------------------------------
(* Types.                                                                  *)

\* A worker that is not polling holds a sample of its device.
Hands ==
    \A p \in Producers : ppc[p] # "poll" => hand[p] \in Samples /\ hand[p].dev = DeviceOf[p]

\* No more samples are offered than were taken.
Busy == {p \in Producers : ppc[p] # "poll"}
Counted == IsFiniteSet(Busy) /\ offered + Cardinality(Busy) <= taken

TypeInv == TypeOK /\ Hands /\ Counted

LEMMA Capacities ==
  /\ DeviceOf \in [Producers -> Devices]
  /\ SamplesCap \in Nat /\ AlerterCap \in Nat /\ WriterCap \in Nat /\ BatchSize \in Nat
  /\ SamplesCap > 0 /\ AlerterCap > 0 /\ WriterCap > 0 /\ BatchSize > 0
  /\ MaxSamples \in Nat /\ MaxFaults \in Nat
<1>1. \A c \in {SamplesCap, AlerterCap, WriterCap, BatchSize} : c \in Nat /\ c > 0
  <2>1. \A n \in Nat \ {0} : n \in Nat /\ n > 0
    OBVIOUS
  <2>. QED
    BY <2>1, PipelineAssumption
<1>2. DeviceOf \in [Producers -> Devices]
  BY PipelineAssumption
<1>3. MaxSamples \in Nat /\ MaxFaults \in Nat
  BY PipelineAssumption
<1>. QED
  BY <1>1, <1>2, <1>3

\* A channel takes a sample if it has room.
LEMMA OfferedTyped ==
  ASSUME NEW ch \in Seq(Samples), NEW cap \in Nat, Len(ch) <= cap, NEW s \in Samples
  PROVE  /\ Offered(ch, cap, s) \in Seq(Samples)
         /\ Len(Offered(ch, cap, s)) <= cap
BY AppendProperties, LenProperties DEF Offered

LEMMA InitType == Init => TypeInv
<1>. SUFFICES ASSUME Init
              PROVE  TypeInv
  OBVIOUS
<1>1. TypeOK
  BY Capacities DEF Init, TypeOK
<1>2. Busy = {}
  BY DEF Init, Busy
<1>3. Counted
  BY <1>2, FS_EmptySet DEF Init, Counted
<1>. QED
  BY <1>1, <1>3 DEF Init, TypeInv, Hands

\* What the workers keep.
Working ==
    /\ taken \in 0 .. MaxSamples /\ offered \in 0 .. MaxSamples
    /\ ppc \in [Producers -> {"poll", "cache", "send"}]
    /\ hand \in [Producers -> Samples \cup {NoSample}]
    /\ latest \in [Devices -> 0 .. MaxSamples] /\ newest \in [Devices -> 0 .. MaxSamples]
    /\ takenBy \in Seq(Producers) /\ Len(takenBy) = taken
    /\ Hands /\ Counted

\* What is on its way, and what is stored.
Flowing ==
    /\ samples \in Seq(Samples) /\ Len(samples) <= SamplesCap
    /\ alerterCh \in Seq(Samples) /\ Len(alerterCh) <= AlerterCap
    /\ writerCh \in Seq(Samples) /\ Len(writerCh) <= WriterCap
    /\ fpc \in {"receive", "alerter", "writer"}
    /\ fhand \in IF fpc = "receive" THEN {NoSample} ELSE Samples
    /\ buffer \in Seq(Samples) /\ Len(buffer) < BatchSize
Storing ==
    /\ db \in Seq(Samples \cup {NoSample})
    /\ exists \subseteq Devices
    /\ faults \in 0 .. MaxFaults

LEMMA TypeParts == TypeInv <=> Working /\ Flowing /\ Storing
BY DEF TypeInv, TypeOK, Working, Flowing, Storing

LEMMA WorkingKept == Working /\ UNCHANGED <<offered, prodVars>> => Working'
BY DEF Working, Hands, Counted, Busy, prodVars

LEMMA InsertTyped ==
  ASSUME Storing, NEW batch \in Seq(Samples), Insert(batch)
  PROVE  Storing'
<1>1. batch \in Seq(Samples \cup {NoSample})
  BY SeqMonotonic
<1>2. db \o batch \in Seq(Samples \cup {NoSample})
  BY <1>1, ConcatProperties DEF Storing
<1>3. db' \in Seq(Samples \cup {NoSample}) /\ exists' = exists
  BY <1>2 DEF Insert, Storing
<1>4. faults' \in 0 .. MaxFaults
  BY Capacities DEF Insert, Storing
<1>. QED
  BY <1>3, <1>4 DEF Storing

LEMMA TakeTyped ==
  ASSUME Working, NEW p \in Producers, TakeSample(p)
  PROVE  Working'
<1>. DEFINE s == [n |-> 0, dev |-> DeviceOf[p], at |-> taken']
<1>1. taken' \in 0 .. MaxSamples /\ taken' = taken + 1 /\ taken \in Nat /\ offered \in Nat
  BY Capacities DEF Working, TakeSample
<1>2. s \in Samples /\ s.dev = DeviceOf[p]
  BY <1>1, Capacities DEF Samples
<1>3. hand' = [hand EXCEPT ![p] = s] /\ ppc' = [ppc EXCEPT ![p] = "cache"]
  BY DEF TakeSample
<1>. HIDE DEF s
<1>4. p \notin Busy /\ Busy' = Busy \cup {p}
  BY <1>3 DEF Working, Busy, TakeSample
<1>5. IsFiniteSet(Busy') /\ Cardinality(Busy') = Cardinality(Busy) + 1
        /\ Cardinality(Busy) \in Nat
  BY <1>4, FS_AddElement, FS_CardinalityType DEF Working, Counted
<1>6. Counted'
  BY <1>1, <1>5 DEF Working, Counted, TakeSample
<1>7. Hands'
  BY <1>2, <1>3 DEF Working, Hands
<1>8. takenBy' \in Seq(Producers) /\ Len(takenBy') = taken'
  BY <1>1, AppendProperties DEF Working, TakeSample
<1>. QED
  BY <1>1, <1>2, <1>3, <1>6, <1>7, <1>8 DEF Working, TakeSample

LEMMA CacheTyped ==
  ASSUME Working, NEW p \in Producers, CacheSample(p)
  PROVE  Working'
<1>1. hand[p] \in Samples /\ hand[p].at \in 0 .. MaxSamples /\ DeviceOf[p] \in Devices
  BY Capacities DEF Working, Hands, CacheSample, Samples
<1>2. Busy' = Busy
  BY DEF Working, Busy, CacheSample
<1>3. Hands' /\ Counted'
  BY <1>2 DEF Working, Hands, Counted, CacheSample
<1>4. latest' \in [Devices -> 0 .. MaxSamples] /\ newest' \in [Devices -> 0 .. MaxSamples]
  BY <1>1 DEF Working, CacheSample
<1>. QED
  BY <1>1, <1>3, <1>4 DEF Working, CacheSample

\* The sample that a worker offers, numbered.
LEMMA SendTyped ==
  ASSUME Working, NEW p \in Producers, SendSample(p)
  PROVE  /\ Working'
         /\ [hand[p] EXCEPT !.n = offered'] \in Samples
<1>1. p \in Busy /\ Busy' = Busy \ {p}
  BY DEF Working, Busy, SendSample
<1>2. /\ IsFiniteSet(Busy') /\ Cardinality(Busy') = Cardinality(Busy) - 1
      /\ Cardinality(Busy) \in Nat /\ Cardinality(Busy') \in Nat
  BY <1>1, FS_RemoveElement, FS_CardinalityType DEF Working, Counted
<1>3. offered' = offered + 1 /\ offered' \in 0 .. MaxSamples
  <2>1. /\ offered' = offered + 1 /\ offered \in Nat /\ taken \in Nat
        /\ offered + Cardinality(Busy) <= taken /\ taken <= MaxSamples
    BY Capacities DEF Working, Counted, SendSample
  <2>. QED
    BY <1>2, <2>1, Capacities
<1>4. Counted'
  BY <1>2, <1>3 DEF Working, Counted, SendSample
<1>5. Hands'
  BY DEF Working, Hands, SendSample
<1>6. hand[p] \in Samples
  BY DEF Working, Hands, SendSample
<1>7. [hand[p] EXCEPT !.n = offered'] \in Samples
  BY <1>3, <1>6 DEF Samples
<1>. QED
  BY <1>3, <1>4, <1>5, <1>7 DEF Working, SendSample

LEMMA NextType == TypeInv /\ [Next]_vars => TypeInv'
<1>. SUFFICES ASSUME Working, Flowing, Storing, [Next]_vars
              PROVE  Working' /\ Flowing' /\ Storing'
  BY DEF TypeInv, TypeOK, Working, Flowing, Storing
<1>. USE Capacities
<1>1. ASSUME NEW p \in Producers, TakeSample(p) \/ CacheSample(p)
      PROVE  Working' /\ Flowing' /\ Storing'
  BY <1>1, TakeTyped, CacheTyped DEF TakeSample, CacheSample, Flowing, Storing, dbVars
<1>2. ASSUME NEW p \in Producers, SendSample(p)
      PROVE  Working' /\ Flowing' /\ Storing'
  BY <1>2, SendTyped, OfferedTyped DEF SendSample, Flowing, Storing, dbVars
<1>3. CASE FanReceive
  BY <1>3, WorkingKept, TailSample DEF FanReceive, Flowing, Storing, dbVars
<1>4. CASE FanToAlerter
  BY <1>4, WorkingKept, OfferedTyped DEF FanToAlerter, Flowing, Storing, dbVars
<1>5. CASE FanToWriter
  BY <1>5, WorkingKept, OfferedTyped DEF FanToWriter, Flowing, Storing, dbVars
<1>6. CASE AlerterReceive
  BY <1>6, WorkingKept, TailSample DEF AlerterReceive, Flowing, Storing, dbVars
<1>7. CASE WriterReceive
  <2>. DEFINE b == Append(buffer, Head(writerCh))
  <2>1. /\ Head(writerCh) \in Samples /\ writerCh' \in Seq(Samples)
        /\ Len(writerCh') <= WriterCap
    BY <1>7, TailSample, LenProperties DEF WriterReceive, Flowing
  <2>2. b \in Seq(Samples) /\ Len(b) \in Nat
    BY <2>1, AppendSample, LenProperties DEF Flowing
  <2>3. UNCHANGED <<offered, prodVars, samples, alerterCh, fpc, fhand>>
    BY <1>7 DEF WriterReceive
  <2>4. IF Full(b) THEN Flush(b) ELSE buffer' = b /\ UNCHANGED dbVars
    BY <1>7 DEF WriterReceive
  <2>. HIDE DEF b
  <2>5. CASE Full(b)
    BY <2>1, <2>2, <2>3, <2>4, <2>5, WorkingKept, InsertTyped, EmptySeq DEF Flush, Flowing
  <2>6. CASE ~Full(b)
    BY <2>1, <2>2, <2>3, <2>4, <2>6, WorkingKept DEF Full, Flowing, Storing, dbVars
  <2>. QED
    BY <2>5, <2>6
<1>8. CASE WriterTick
  BY <1>8, WorkingKept, InsertTyped, EmptySeq DEF WriterTick, Flush, Flowing
<1>9. ASSUME NEW d \in Devices, DeleteDevice(d)
      PROVE  Working' /\ Flowing' /\ Storing'
  <2>1. db' \in Seq(Samples \cup {NoSample})
    <3>1. DOMAIN db = 1 .. Len(db) /\ Len(db) \in Nat
      BY LenProperties DEF Storing
    <3>2. \A i \in 1 .. Len(db) : db[i] \in Samples \cup {NoSample}
      BY ElementOfSeq DEF Storing
    <3>3. db' \in [1 .. Len(db) -> Samples \cup {NoSample}]
      BY <1>9, <3>1, <3>2 DEF DeleteDevice
    <3>. QED
      BY <3>1, <3>3, SeqDef
  <2>. QED
    BY <1>9, <2>1, WorkingKept DEF DeleteDevice, Flowing, Storing
<1>10. CASE Restart
  <2>1. Busy' = {}
    BY <1>10 DEF Restart, Busy
  <2>2. IsFiniteSet(Busy') /\ Cardinality(Busy') = 0
    BY <2>1, FS_EmptySet
  <2>3. Cardinality(Busy) \in Nat
    BY FS_CardinalityType DEF Working, Counted
  <2>4. Counted'
    BY <1>10, <2>2, <2>3 DEF Restart, Counted, Working
  <2>5. Hands'
    BY <1>10 DEF Restart, Hands
  <2>. QED
    BY <1>10, <2>4, <2>5, EmptySeq DEF Restart, Working, Flowing, Storing
<1>11. CASE UNCHANGED vars
  BY <1>11, WorkingKept DEF vars, Flowing, Storing, dbVars
<1>. QED
  BY <1>1, <1>2, <1>3, <1>4, <1>5, <1>6, <1>7, <1>8, <1>9, <1>10, <1>11 DEF Next

LEMMA TypeInvariant == Spec => []TypeInv
BY InitType, NextType, PTL DEF Spec

\* Every sample, channel and buffer of the pipeline keeps its type, no channel
\* exceeds its capacity and the writer's buffer stays below a batch, for any
\* workers, capacities and batches.
THEOREM TypeCorrect == Spec => []TypeOK
BY TypeInvariant, PTL DEF TypeInv

-----------------------------------------------------------------------------
(* Stored once and in order.                                               *)

RowN == {db[i].n : i \in Rows}
HeldN == IF fpc = "receive" THEN {} ELSE {fhand.n}

\* Whatever is further along the way was offered earlier: the rows R, the
\* buffer B, the writer's channel W, the fan-out's hand H, the samples S.
Chain(R, B, W, H, S, last) ==
    /\ R \cup B \cup W \cup H \cup S \subseteq 0 .. last
    /\ Less(R, B \cup W \cup H \cup S)
    /\ Less(B, W \cup H \cup S)
    /\ Less(W, H \cup S)
    /\ Less(H, S)

OrderInv ==
    /\ TypeInv /\ StoredOnce
    /\ Inc(buffer) /\ Inc(writerCh) /\ Inc(samples)
    /\ Chain(RowN, N(buffer), N(writerCh), HeldN, N(samples), offered)

\* A batch that follows the rows is stored behind them.
LEMMA InsertOrdered ==
  ASSUME TypeInv, StoredOnce, NEW batch \in Seq(Samples), Insert(batch),
         Inc(batch), Less(RowN, N(batch))
  PROVE  StoredOnce' /\ RowN' \subseteq RowN \cup N(batch)
<1>1. CASE UNCHANGED <<db, exists>>
  BY <1>1 DEF StoredOnce, Rows, RowN
<1>2. CASE /\ \A i \in DOMAIN batch : batch[i].dev \in exists
           /\ db' = db \o batch
           /\ UNCHANGED exists
  <2>. DEFINE T == Samples \cup {NoSample}
  <2>1. db \in Seq(T) /\ batch \in Seq(T)
    BY SeqMonotonic DEF TypeInv, TypeOK
  <2>2. /\ db' \in Seq(T)
        /\ Len(db') = Len(db) + Len(batch)
        /\ \A i \in 1 .. Len(db) + Len(batch) :
              db'[i] = IF i <= Len(db) THEN db[i] ELSE batch[i - Len(db)]
    BY <1>2, <2>1, ConcatProperties
  <2>3. /\ Len(db) \in Nat /\ Len(batch) \in Nat
        /\ DOMAIN db = 1 .. Len(db) /\ DOMAIN batch = 1 .. Len(batch)
        /\ DOMAIN db' = 1 .. Len(db) + Len(batch)
    BY <2>1, <2>2, LenProperties
  <2>. HIDE DEF T
  <2>4. ASSUME NEW i \in Rows'
        PROVE  \/ i \in Rows /\ i <= Len(db) /\ db'[i] = db[i]
               \/ i > Len(db) /\ i - Len(db) \in DOMAIN batch /\ db'[i] = batch[i - Len(db)]
    BY <2>2, <2>3 DEF Rows
  <2>5. Rows' \subseteq Int
    BY <2>3 DEF Rows
  <2>6. ASSUME NEW i \in Rows', NEW j \in Rows', i < j
        PROVE  db'[i].n < db'[j].n
    <3>1. CASE i \in Rows /\ db'[i] = db[i] /\ j > Len(db)
      <4>1. db'[j] = batch[j - Len(db)] /\ j - Len(db) \in DOMAIN batch
        <5>1. ~(j <= Len(db))
          BY <2>3, <2>5, <3>1
        <5>. QED
          BY <2>4, <5>1
      <4>. QED
        BY <3>1, <4>1 DEF Less, RowN, N
    <3>2. CASE i \in Rows /\ db'[i] = db[i] /\ j \in Rows /\ db'[j] = db[j]
      BY <2>6, <3>2 DEF StoredOnce
    <3>3. CASE i > Len(db)
      <4>1. /\ db'[i] = batch[i - Len(db)] /\ i - Len(db) \in DOMAIN batch
            /\ db'[j] = batch[j - Len(db)] /\ j - Len(db) \in DOMAIN batch
            /\ i - Len(db) < j - Len(db)
        <5>1. j > Len(db) /\ ~(i <= Len(db)) /\ ~(j <= Len(db))
          BY <2>3, <2>5, <2>6, <3>3
        <5>2. i - Len(db) < j - Len(db)
          BY <2>3, <2>5, <2>6
        <5>. QED
          BY <2>4, <5>1, <5>2
      <4>. QED
        BY <4>1 DEF Inc
    <3>. QED
      BY <2>3, <2>4, <2>5, <3>1, <3>2, <3>3
  <2>7. \A i \in Rows' : db'[i].dev \in exists'
    BY <1>2, <2>4 DEF StoredOnce
  <2>8. RowN' \subseteq RowN \cup N(batch)
    BY <2>4 DEF RowN, N
  <2>. QED
    BY <2>6, <2>7, <2>8 DEF StoredOnce
<1>. QED
  BY <1>1, <1>2 DEF Insert

LEMMA NextOrder == OrderInv /\ [Next]_vars => OrderInv'
<1>. SUFFICES ASSUME OrderInv, [Next]_vars
              PROVE  /\ StoredOnce' /\ Inc(buffer') /\ Inc(writerCh') /\ Inc(samples')
                     /\ Chain(RowN', N(buffer'), N(writerCh'), HeldN', N(samples'), offered')
  BY NextType DEF OrderInv, Inc, N, Chain
<1>0. /\ TypeInv /\ StoredOnce /\ offered \in Nat
      /\ Inc(buffer) /\ Inc(writerCh) /\ Inc(samples)
      /\ Chain(RowN, N(buffer), N(writerCh), HeldN, N(samples), offered)
  <2>1. TypeInv /\ offered \in Nat
    BY Capacities DEF OrderInv, TypeInv, TypeOK
  <2>. QED
    BY <2>1 DEF OrderInv
<1>a. samples \in Seq(Samples) /\ writerCh \in Seq(Samples) /\ buffer \in Seq(Samples)
  BY <1>0 DEF TypeInv, TypeOK
<1>b. UNCHANGED <<db, exists>> => RowN' = RowN /\ StoredOnce'
  BY <1>0 DEF RowN, Rows, StoredOnce
<1>c. UNCHANGED <<fpc, fhand>> => HeldN' = HeldN
  BY DEF HeldN
<1>1. CASE \/ \E p \in Producers : TakeSample(p) \/ CacheSample(p)
           \/ AlerterReceive \/ UNCHANGED vars
  <2>1. UNCHANGED <<offered, samples, writerCh, fpc, fhand, buffer, db, exists>>
    BY <1>1 DEF TakeSample, CacheSample, AlerterReceive, vars, dbVars, prodVars
  <2>. QED
    BY <1>0, <1>b, <1>c, <2>1
<1>2. ASSUME NEW p \in Producers, SendSample(p)
      PROVE  /\ StoredOnce' /\ Inc(buffer') /\ Inc(writerCh') /\ Inc(samples')
             /\ Chain(RowN', N(buffer'), N(writerCh'), HeldN', N(samples'), offered')
  <2>1. UNCHANGED <<writerCh, fpc, fhand, buffer, db, exists>> /\ offered' = offered + 1
    BY <1>2 DEF SendSample, dbVars
  <2>. DEFINE s == [hand[p] EXCEPT !.n = offered']
  <2>2. s \in Samples /\ s.n = offered'
    BY <1>0, <1>2, SendTyped, TypeParts DEF Samples
  <2>3. samples' = samples \/ samples' = Append(samples, s)
    BY <1>2 DEF SendSample, Offered
  <2>. HIDE DEF s
  <2>4. \A n \in N(samples) : n < offered'
    BY <1>0, <2>1 DEF Chain
  <2>5. Inc(samples') /\ N(samples') \subseteq N(samples) \cup {offered'}
    BY <1>0, <1>a, <2>2, <2>3, <2>4, AppendSample DEF Less
  <2>6. Chain(RowN, N(buffer), N(writerCh), HeldN, N(samples'), offered')
    BY <1>0, <2>1, <2>5 DEF Chain, Less
  <2>. QED
    BY <1>0, <1>b, <1>c, <2>1, <2>5, <2>6
<1>3. CASE FanReceive
  <2>1. /\ UNCHANGED <<offered, writerCh, buffer, db, exists>>
        /\ samples' = Tail(samples) /\ samples # <<>>
        /\ HeldN = {} /\ HeldN' = {Head(samples).n}
    BY <1>3 DEF FanReceive, dbVars, HeldN
  <2>2. /\ N(samples) = {Head(samples).n} \cup N(samples')
        /\ Inc(samples') /\ Less({Head(samples).n}, N(samples'))
    BY <1>0, <1>a, <2>1, TailSample
  <2>3. Chain(RowN, N(buffer), N(writerCh), HeldN', N(samples'), offered)
    BY <1>0, <2>1, <2>2 DEF Chain, Less
  <2>. QED
    BY <1>0, <1>b, <2>1, <2>2, <2>3
<1>4. CASE FanToAlerter
  <2>1. UNCHANGED <<offered, samples, writerCh, buffer, db, exists>> /\ HeldN' = HeldN
    BY <1>4 DEF FanToAlerter, dbVars, HeldN
  <2>. QED
    BY <1>0, <1>b, <2>1
<1>5. CASE FanToWriter
  <2>1. /\ UNCHANGED <<offered, samples, buffer, db, exists>>
        /\ HeldN = {fhand.n} /\ HeldN' = {} /\ fhand \in Samples
    BY <1>0, <1>5 DEF FanToWriter, dbVars, HeldN, TypeInv, TypeOK
  <2>2. writerCh' = writerCh \/ writerCh' = Append(writerCh, fhand)
    BY <1>5 DEF FanToWriter, Offered
  <2>3. Less(N(writerCh), {fhand.n})
    BY <1>0, <2>1 DEF Chain, Less
  <2>4. Inc(writerCh') /\ N(writerCh') \subseteq N(writerCh) \cup {fhand.n}
    BY <1>0, <1>a, <2>1, <2>2, <2>3, AppendSample, ZenonT(60)
  <2>5. Chain(RowN, N(buffer), N(writerCh'), HeldN', N(samples), offered)
    BY <1>0, <2>1, <2>4 DEF Chain, Less
  <2>. QED
    BY <1>0, <1>b, <2>1, <2>4, <2>5
<1>6. CASE WriterReceive
  <2>. DEFINE b == Append(buffer, Head(writerCh))
  <2>1. /\ UNCHANGED <<offered, samples, fpc, fhand>>
        /\ writerCh' = Tail(writerCh) /\ writerCh # <<>>
        /\ IF Full(b) THEN Flush(b) ELSE buffer' = b /\ UNCHANGED dbVars
    BY <1>6 DEF WriterReceive
  <2>2. /\ N(writerCh) = {Head(writerCh).n} \cup N(writerCh')
        /\ Inc(writerCh') /\ Less({Head(writerCh).n}, N(writerCh'))
        /\ Head(writerCh) \in Samples
    BY <1>0, <1>a, <2>1, TailSample
  <2>3. Less(N(buffer), {Head(writerCh).n})
    BY <1>0, <2>2 DEF Chain, Less
  <2>4. b \in Seq(Samples) /\ Inc(b) /\ N(b) = N(buffer) \cup {Head(writerCh).n}
    BY <1>0, <1>a, <2>2, <2>3, AppendSample
  <2>. HIDE DEF b
  <2>5. Chain(RowN, N(b), N(writerCh'), HeldN, N(samples), offered)
    BY <1>0, <2>2, <2>4 DEF Chain, Less
  <2>6. CASE Flush(b)
    <3>1. StoredOnce' /\ RowN' \subseteq RowN \cup N(b) /\ buffer' = <<>>
      BY <1>0, <2>4, <2>5, <2>6, InsertOrdered DEF Flush, Chain, Less
    <3>2. Chain(RowN', {}, N(writerCh'), HeldN, N(samples), offered)
      BY <2>5, <3>1 DEF Chain, Less
    <3>. QED
      BY <1>0, <1>c, <2>1, <2>2, <3>1, <3>2, NoSamples
  <2>7. CASE buffer' = b /\ UNCHANGED dbVars
    BY <1>0, <1>b, <1>c, <2>1, <2>2, <2>4, <2>5, <2>7 DEF dbVars
  <2>. QED
    BY <2>1, <2>6, <2>7
<1>7. CASE WriterTick
  <2>1. UNCHANGED <<offered, samples, writerCh, fpc, fhand>> /\ Flush(buffer)
    BY <1>7 DEF WriterTick
  <2>2. StoredOnce' /\ RowN' \subseteq RowN \cup N(buffer) /\ buffer' = <<>>
    BY <1>0, <1>a, <2>1, InsertOrdered DEF Flush, Chain, Less
  <2>3. Chain(RowN', {}, N(writerCh), HeldN, N(samples), offered)
    BY <1>0, <2>2 DEF Chain, Less
  <2>. QED
    BY <1>0, <1>c, <2>1, <2>2, <2>3, NoSamples
<1>8. ASSUME NEW d \in Devices, DeleteDevice(d)
      PROVE  /\ StoredOnce' /\ Inc(buffer') /\ Inc(writerCh') /\ Inc(samples')
             /\ Chain(RowN', N(buffer'), N(writerCh'), HeldN', N(samples'), offered')
  <2>1. UNCHANGED <<offered, samples, writerCh, fpc, fhand, buffer>>
    BY <1>8 DEF DeleteDevice
  <2>2. \A i \in Rows' : i \in Rows /\ db'[i] = db[i] /\ db[i].dev # d
    BY <1>8 DEF DeleteDevice, Rows
  <2>3. RowN' \subseteq RowN
    BY <2>2 DEF RowN
  <2>4. StoredOnce'
    BY <1>0, <1>8, <2>2 DEF StoredOnce, DeleteDevice
  <2>5. Chain(RowN', N(buffer), N(writerCh), HeldN, N(samples), offered)
    BY <1>0, <2>3 DEF Chain, Less
  <2>. QED
    BY <1>0, <1>c, <2>1, <2>4, <2>5
<1>9. CASE Restart
  <2>1. /\ samples' = <<>> /\ writerCh' = <<>> /\ buffer' = <<>> /\ HeldN' = {}
        /\ UNCHANGED <<offered, db, exists>>
    BY <1>9 DEF Restart, HeldN
  <2>2. Chain(RowN, {}, {}, {}, {}, offered)
    BY <1>0 DEF Chain, Less
  <2>. QED
    BY <1>b, <2>1, <2>2, NoSamples
<1>. QED
  BY <1>1, <1>2, <1>3, <1>4, <1>5, <1>6, <1>7, <1>8, <1>9 DEF Next

\* The rows of traffic_samples are in the order in which the samples were
\* offered, no sample has two rows, and no row is of a deleted device: for any
\* workers, capacities, batches, failed batches and restarts.
THEOREM RowsInOrder == Spec => []StoredOnce
<1>1. Init => OrderInv
  <2>. SUFFICES ASSUME Init
                PROVE  OrderInv
    OBVIOUS
  <2>1. TypeInv
    BY InitType
  <2>2. Rows = {} /\ HeldN = {} /\ buffer = <<>> /\ writerCh = <<>> /\ samples = <<>>
    BY DEF Init, Rows, HeldN
  <2>3. StoredOnce /\ RowN = {}
    BY <2>2 DEF StoredOnce, RowN
  <2>. QED
    BY <2>1, <2>2, <2>3, NoSamples DEF OrderInv, Chain, Less
<1>2. OrderInv => StoredOnce
  BY DEF OrderInv
<1>. QED
  BY <1>1, <1>2, NextOrder, PTL DEF Spec

-----------------------------------------------------------------------------
(* The cache.                                                              *)

\* What holds of a sample that was cached: a newer one of its device was at most
\* cached before, the cache is behind it only with another worker's sample, and
\* what its worker still has to cache was taken later.
Fine(s) ==
    /\ 1 <= s.at /\ s.at <= taken
    /\ s.at <= newest[s.dev]
    /\ latest[s.dev] < s.at => latest[s.dev] > 0 /\ takenBy[latest[s.dev]] # takenBy[s.at]
    /\ \A p \in Producers : ppc[p] = "cache" /\ takenBy[s.at] = p => s.at < hand[p].at
AllFine(ch) == \A i \in DOMAIN ch : Fine(ch[i])

\* A worker holds a sample of its own.
Own(p) == 1 <= hand[p].at /\ hand[p].at <= taken /\ takenBy[hand[p].at] = p

CacheInv ==
    /\ TypeInv
    /\ \A d \in Devices : latest[d] <= taken
    /\ \A p \in Producers : ppc[p] # "poll" => Own(p)
    /\ \A p \in Producers : ppc[p] = "send" => Fine(hand[p])
    /\ fpc # "receive" => Fine(fhand)
    /\ AllFine(samples) /\ AllFine(alerterCh) /\ AllFine(writerCh)

LEMMA AppendFine ==
  ASSUME NEW ch \in Seq(Samples), NEW s \in Samples, AllFine(ch), Fine(s), NEW cap
  PROVE  AllFine(Offered(ch, cap, s))
<1>1. /\ Append(ch, s) \in Seq(Samples)
      /\ Len(Append(ch, s)) = Len(ch) + 1
      /\ \A i \in 1 .. Len(ch) : Append(ch, s)[i] = ch[i]
      /\ Append(ch, s)[Len(ch) + 1] = s
  BY AppendProperties
<1>2. /\ DOMAIN ch = 1 .. Len(ch) /\ Len(ch) \in Nat
      /\ DOMAIN Append(ch, s) = 1 .. Len(ch) + 1
  BY <1>1, LenProperties
<1>3. \A i \in 1 .. Len(ch) + 1 : i \in 1 .. Len(ch) \/ i = Len(ch) + 1
  BY <1>2
<1>4. AllFine(Append(ch, s))
  BY <1>1, <1>2, <1>3 DEF AllFine
<1>. QED
  BY <1>4 DEF Offered

LEMMA TailFine ==
  ASSUME NEW ch \in Seq(Samples), ch # <<>>, AllFine(ch)
  PROVE  AllFine(Tail(ch)) /\ Fine(Head(ch)) /\ Head(ch) \in Samples
<1>1. /\ Head(ch) \in Samples /\ Tail(ch) \in Seq(Samples)
      /\ Len(Tail(ch)) = Len(ch) - 1
      /\ \A i \in 1 .. Len(Tail(ch)) : Tail(ch)[i] = ch[i + 1]
      /\ Len(ch) \in Nat \ {0}
  BY HeadTailProperties, EmptySeq
<1>2. /\ DOMAIN ch = 1 .. Len(ch) /\ DOMAIN Tail(ch) = 1 .. Len(ch) - 1
      /\ Head(ch) = ch[1]
  BY <1>1, LenProperties
<1>. QED
  BY <1>1, <1>2 DEF AllFine

\* Samples stay fine as others are taken ...
LEMMA TakeFine ==
  ASSUME Working, \A d \in Devices : latest[d] <= taken,
         NEW p \in Producers, TakeSample(p), NEW s \in Samples, Fine(s)
  PROVE  Fine(s)'
<1>1. /\ taken' = taken + 1 /\ taken \in Nat /\ UNCHANGED <<latest, newest>>
      /\ hand' = [hand EXCEPT ![p] = [n |-> 0, dev |-> DeviceOf[p], at |-> taken + 1]]
      /\ ppc' = [ppc EXCEPT ![p] = "cache"]
      /\ takenBy' = Append(takenBy, p)
  BY Capacities DEF Working, TakeSample
<1>2. \A i \in 1 .. taken : takenBy'[i] = takenBy[i]
  BY <1>1, AppendProperties DEF Working
<1>3. s.at \in 1 .. taken /\ s.dev \in Devices
  BY <1>1, Capacities DEF Fine, Samples
<1>4. latest[s.dev] \in Nat /\ latest[s.dev] <= taken
  BY <1>3, Capacities DEF Working
<1>5. /\ takenBy'[s.at] = takenBy[s.at]
      /\ latest[s.dev] > 0 => takenBy'[latest[s.dev]] = takenBy[latest[s.dev]]
  <2>1. latest[s.dev] > 0 => latest[s.dev] \in 1 .. taken
    BY <1>1, <1>4
  <2>. QED
    BY <1>2, <1>3, <2>1
<1>6. ASSUME NEW q \in Producers, ppc'[q] = "cache", takenBy'[s.at] = q
      PROVE  s.at < hand'[q].at
  <2>1. CASE q = p
    BY <1>1, <1>3, <2>1 DEF Working
  <2>2. CASE q # p
    BY <1>1, <1>5, <1>6, <2>2 DEF Working, Fine
  <2>. QED
    BY <2>1, <2>2
<1>7. /\ 1 <= s.at /\ s.at <= taken' /\ s.at <= newest'[s.dev]
      /\ latest'[s.dev] = latest[s.dev]
  BY <1>1, <1>3 DEF Fine
<1>. QED
  BY <1>5, <1>6, <1>7 DEF Fine

\* ... and cached, which is where one worker can set the cache back ...
LEMMA CacheFine ==
  ASSUME Working, NEW p \in Producers, CacheSample(p), Own(p), NEW s \in Samples
  PROVE  /\ Fine(s) => Fine(s)'
         /\ Fine(hand[p])'
<1>. DEFINE d == DeviceOf[p]
<1>1. /\ latest' = [latest EXCEPT ![d] = hand[p].at]
      /\ newest' = [newest EXCEPT ![d] = IF @ < hand[p].at THEN hand[p].at ELSE @]
      /\ ppc[p] = "cache" /\ ppc' = [ppc EXCEPT ![p] = "send"]
      /\ UNCHANGED <<taken, hand, takenBy>>
  BY DEF CacheSample
<1>2. /\ d \in Devices /\ hand[p].dev = d /\ hand[p].at \in Nat
      /\ hand[p] \in Samples
      /\ newest[d] \in Nat
  BY <1>1, Capacities DEF Working, Hands, Samples
<1>3. \A q \in Producers : ppc'[q] = "cache" => ppc[q] = "cache" /\ q # p
  BY <1>1 DEF Working
<1>4. latest'[d] = hand[p].at /\ newest'[d] \in Nat
      /\ newest[d] <= newest'[d] /\ hand[p].at <= newest'[d]
  BY <1>1, <1>2 DEF Working
<1>. HIDE DEF d
<1>5. ASSUME Fine(s)
      PROVE  Fine(s)'
  <2>1. s.dev \in Devices /\ s.at \in Nat
    BY Capacities DEF Samples
  <2>2. CASE s.dev # d
    <3>1. latest'[s.dev] = latest[s.dev] /\ newest'[s.dev] = newest[s.dev]
      BY <1>1, <2>1, <2>2 DEF Working
    <3>. QED
      BY <1>1, <1>3, <1>5, <3>1 DEF Fine
  <2>3. CASE s.dev = d
    <3>1. s.at <= newest'[d]
      BY <1>2, <1>4, <1>5, <2>1, <2>3 DEF Fine
    <3>2. hand[p].at < s.at => hand[p].at > 0 /\ takenBy[hand[p].at] # takenBy[s.at]
      BY <1>1, <1>2, <1>5, <2>1 DEF Fine, Own
    <3>. QED
      BY <1>1, <1>3, <1>4, <1>5, <2>3, <3>1, <3>2 DEF Fine
  <2>. QED
    BY <2>2, <2>3
<1>6. Fine(hand[p])'
  <2>1. /\ (hand[p].dev)' = d /\ (hand[p].at)' = hand[p].at
        /\ takenBy'[hand[p].at] = p
    BY <1>1, <1>2 DEF Own
  <2>. QED
    BY <1>1, <1>2, <1>3, <1>4, <2>1 DEF Fine, Own
<1>. QED
  BY <1>5, <1>6

\* ... and sent, as a worker that is sending has nothing to cache.
LEMMA SendFine ==
  ASSUME Working, NEW p \in Producers, SendSample(p), NEW s \in Samples, Fine(s)
  PROVE  Fine(s)'
<1>1. /\ hand' = [hand EXCEPT ![p] = NoSample] /\ ppc' = [ppc EXCEPT ![p] = "poll"]
      /\ UNCHANGED <<taken, latest, newest, takenBy>>
  BY DEF SendSample
<1>2. \A q \in Producers : ppc'[q] = "cache" => ppc[q] = "cache" /\ hand'[q] = hand[q]
  BY <1>1 DEF Working
<1>. QED
  BY <1>1, <1>2 DEF Fine

LEMMA NextCached ==
  ASSUME CacheInv, [Next]_vars
  PROVE  CacheInv'
<1>. USE Capacities
<1>0. TypeInv /\ TypeInv' /\ Working /\ Flowing
  BY NextType, TypeParts DEF CacheInv
<1>a. /\ samples \in Seq(Samples) /\ alerterCh \in Seq(Samples) /\ writerCh \in Seq(Samples)
      /\ fpc # "receive" => fhand \in Samples
      /\ AllFine(samples) /\ AllFine(alerterCh) /\ AllFine(writerCh)
      /\ fpc # "receive" => Fine(fhand)
  BY <1>0 DEF Flowing, CacheInv
<1>b. taken \in Nat /\ \A d \in Devices : latest[d] \in Nat /\ latest[d] <= taken
  BY <1>0 DEF Working, CacheInv
\* The workers' steps leave fine what was on its way.
<1>d. ASSUME \A s \in Samples : Fine(s) => Fine(s)', UNCHANGED <<alerterCh, writerCh, fpc, fhand>>
      PROVE  /\ (fpc # "receive" => Fine(fhand))' /\ AllFine(alerterCh)' /\ AllFine(writerCh)'
             /\ UNCHANGED samples => AllFine(samples)'
  <2>2. (fpc # "receive" => Fine(fhand))'
    BY <1>a, <1>d DEF Fine
  <2>3. ASSUME NEW ch \in Seq(Samples), AllFine(ch)
        PROVE  \A i \in DOMAIN ch : Fine(ch[i])'
    <3>1. \A i \in DOMAIN ch : ch[i] \in Samples /\ Fine(ch[i])
      BY <2>3, ElementOfSeq, LenProperties DEF AllFine
    <3>. QED
      BY <1>d, <3>1
  <2>4. \A ch \in Seq(Samples) : AllFine(ch) => AllFine(ch)'
    BY <2>3 DEF AllFine
  <2>5. AllFine(alerterCh)' /\ AllFine(writerCh)'
    BY <1>a, <1>d, <2>4 DEF AllFine, Fine
  <2>6. UNCHANGED samples => AllFine(samples)'
    BY <1>a, <2>4 DEF AllFine, Fine
  <2>. QED
    BY <2>2, <2>5, <2>6
<1>c. CASE UNCHANGED prodVars
  <2>1. SUFFICES /\ fpc' # "receive" => Fine(fhand')
                 /\ AllFine(samples') /\ AllFine(alerterCh') /\ AllFine(writerCh')
    BY <1>0, <1>c DEF CacheInv, prodVars, Fine, AllFine, Own
  <2>2. CASE FanReceive
    BY <1>a, <2>2, TailFine DEF FanReceive
  <2>3. CASE FanToAlerter
    BY <1>a, <2>3, AppendFine DEF FanToAlerter
  <2>4. CASE FanToWriter
    BY <1>a, <2>4, AppendFine DEF FanToWriter
  <2>5. CASE AlerterReceive
    BY <1>a, <2>5, TailFine DEF AlerterReceive
  <2>6. CASE WriterReceive
    BY <1>a, <2>6, TailFine DEF WriterReceive
  <2>7. CASE WriterTick \/ (\E d \in Devices : DeleteDevice(d)) \/ UNCHANGED vars
    BY <1>a, <2>7 DEF WriterTick, DeleteDevice, vars
  <2>8. CASE Restart
    BY <2>8 DEF Restart, AllFine
  <2>9. CASE \E p \in Producers : TakeSample(p) \/ CacheSample(p) \/ SendSample(p)
    BY <1>0, <1>c, <2>9 DEF TakeSample, CacheSample, SendSample, prodVars, Working
  <2>. QED
    BY <2>2, <2>3, <2>4, <2>5, <2>6, <2>7, <2>8, <2>9 DEF Next
<1>1. ASSUME NEW p \in Producers, TakeSample(p)
      PROVE  CacheInv'
  <2>1. /\ hand' = [hand EXCEPT ![p] = [n |-> 0, dev |-> DeviceOf[p], at |-> taken + 1]]
        /\ ppc' = [ppc EXCEPT ![p] = "cache"] /\ taken' = taken + 1
        /\ takenBy' = Append(takenBy, p)
        /\ UNCHANGED <<latest, samples, alerterCh, writerCh, fpc, fhand>>
    BY <1>1 DEF TakeSample
  <2>2. takenBy'[taken + 1] = p /\ \A i \in 1 .. taken : takenBy'[i] = takenBy[i]
    BY <1>0, <2>1, AppendProperties DEF Working
  <2>3. ASSUME NEW q \in Producers, ppc'[q] # "poll"
        PROVE  Own(q)'
    <3>1. CASE q = p
      BY <1>0, <1>b, <2>1, <2>2, <3>1 DEF Working, Own
    <3>2. CASE q # p
      <4>1. hand'[q] = hand[q] /\ hand[q].at \in 1 .. taken /\ takenBy[hand[q].at] = q
        BY <1>0, <1>b, <2>1, <2>3, <3>2 DEF Working, Hands, Samples, CacheInv, Own
      <4>2. PICK k \in 1 .. taken : k = hand[q].at
        BY <4>1
      <4>3. takenBy'[k] = q /\ 1 <= k /\ k <= taken + 1
        BY <1>b, <2>2, <4>1, <4>2
      <4>. QED
        BY <2>1, <4>1, <4>2, <4>3 DEF Own
    <3>. QED
      BY <3>1, <3>2
  <2>4. \A s \in Samples : Fine(s) => Fine(s)'
    BY <1>0, <1>b, <1>1, TakeFine
  <2>5. ASSUME NEW q \in Producers, ppc'[q] = "send"
        PROVE  Fine(hand[q])'
    <3>1. ppc[q] = "send" /\ hand'[q] = hand[q] /\ hand[q] \in Samples
      BY <1>0, <2>1, <2>5 DEF Working, Hands
    <3>2. PICK s \in Samples : s = hand[q]
      BY <3>1
    <3>3. Fine(s)'
      BY <2>4, <3>1, <3>2 DEF CacheInv
    <3>. QED
      BY <3>1, <3>2, <3>3 DEF Fine
  <2>6. \A d \in Devices : latest'[d] <= taken'
    BY <1>b, <2>1
  <2>7. /\ (fpc # "receive" => Fine(fhand))' /\ AllFine(alerterCh)' /\ AllFine(writerCh)'
        /\ AllFine(samples)'
    BY <1>d, <2>1, <2>4
  <2>. QED
    BY <1>0, <2>3, <2>5, <2>6, <2>7 DEF CacheInv
<1>2. ASSUME NEW p \in Producers, CacheSample(p)
      PROVE  CacheInv'
  <2>1. /\ latest' = [latest EXCEPT ![DeviceOf[p]] = hand[p].at]
        /\ ppc[p] = "cache" /\ ppc' = [ppc EXCEPT ![p] = "send"]
        /\ UNCHANGED <<taken, hand, takenBy, samples, alerterCh, writerCh, fpc, fhand>>
    BY <1>2 DEF CacheSample
  <2>2. Own(p)
    BY <2>1 DEF CacheInv
  <2>3. \A s \in Samples : Fine(s) => Fine(s)'
    BY <1>0, <1>2, <2>2, CacheFine
  <2>4. Fine(hand[p])'
    <3>1. PICK s \in Samples : TRUE
      BY <1>0, <2>1 DEF Working, Hands
    <3>. QED
      BY <1>0, <1>2, <2>2, CacheFine
  <2>5. ASSUME NEW q \in Producers, ppc'[q] = "send"
        PROVE  Fine(hand[q])'
    <3>1. CASE q # p
      <4>1. ppc[q] = "send" /\ hand'[q] = hand[q] /\ hand[q] \in Samples
        BY <1>0, <2>1, <2>5, <3>1 DEF Working, Hands
      <4>2. PICK s \in Samples : s = hand[q]
        BY <4>1
      <4>3. Fine(s)'
        BY <2>3, <4>1, <4>2 DEF CacheInv
      <4>. QED
        BY <4>1, <4>2, <4>3 DEF Fine
    <3>. QED
      BY <2>4, <3>1
  <2>6. \A q \in Producers : ppc'[q] # "poll" => Own(q)'
    BY <1>0, <2>1 DEF Working, CacheInv, Own
  <2>7. \A d \in Devices : latest'[d] <= taken'
    BY <1>0, <1>b, <2>1, <2>2 DEF Working, Own
  <2>8. /\ (fpc # "receive" => Fine(fhand))' /\ AllFine(alerterCh)' /\ AllFine(writerCh)'
        /\ AllFine(samples)'
    BY <1>d, <2>1, <2>3
  <2>. QED
    BY <1>0, <2>5, <2>6, <2>7, <2>8 DEF CacheInv
<1>3. ASSUME NEW p \in Producers, SendSample(p)
      PROVE  CacheInv'
  <2>. DEFINE s == [hand[p] EXCEPT !.n = offered']
  <2>1. s \in Samples
    BY <1>0, <1>3, SendTyped
  <2>2. Fine(s)
    BY <1>0, <1>3 DEF SendSample, CacheInv, Fine, Working, Hands, Samples
  <2>3. /\ samples' = Offered(samples, SamplesCap, s)
        /\ hand' = [hand EXCEPT ![p] = NoSample] /\ ppc' = [ppc EXCEPT ![p] = "poll"]
        /\ UNCHANGED <<taken, latest, newest, takenBy, alerterCh, writerCh, fpc, fhand>>
    BY <1>3 DEF SendSample
  <2>. HIDE DEF s
  <2>4. \A t \in Samples : Fine(t) => Fine(t)'
    BY <1>0, <1>3, SendFine
  <2>5. AllFine(samples)'
    <3>1. PICK t \in Seq(Samples) : t = Offered(samples, SamplesCap, s)
      BY <1>a, <2>1, AppendProperties DEF Offered
    <3>2. AllFine(t)
      BY <1>a, <2>1, <2>2, <3>1, AppendFine
    <3>3. \A i \in DOMAIN t : t[i] \in Samples
      BY ElementOfSeq, LenProperties
    <3>4. \A i \in DOMAIN t : Fine(t[i])'
      BY <2>4, <3>2, <3>3 DEF AllFine
    <3>. QED
      BY <2>3, <3>1, <3>4 DEF AllFine, Fine
  <2>6. \A q \in Producers : ppc'[q] # "poll" => ppc'[q] = ppc[q] /\ hand'[q] = hand[q]
    BY <1>0, <2>3 DEF Working
  <2>7. ASSUME NEW q \in Producers, ppc'[q] = "send"
        PROVE  Fine(hand[q])'
    <3>1. ppc[q] = "send" /\ hand'[q] = hand[q] /\ hand[q] \in Samples
      BY <1>0, <2>6, <2>7 DEF Working, Hands
    <3>2. PICK t \in Samples : t = hand[q]
      BY <3>1
    <3>3. Fine(t)'
      BY <2>4, <3>1, <3>2 DEF CacheInv
    <3>. QED
      BY <3>1, <3>2, <3>3 DEF Fine
  <2>8. \A q \in Producers : ppc'[q] # "poll" => Own(q)'
    BY <2>3, <2>6 DEF CacheInv, Own
  <2>9. /\ (fpc # "receive" => Fine(fhand))' /\ AllFine(alerterCh)' /\ AllFine(writerCh)'
    BY <1>d, <2>3, <2>4
  <2>10. \A d \in Devices : latest'[d] <= taken'
    BY <1>b, <2>3
  <2>. QED
    BY <1>0, <2>5, <2>7, <2>8, <2>9, <2>10 DEF CacheInv
<1>4. CASE Restart
  <2>1. TypeInv' /\ samples' = <<>> /\ alerterCh' = <<>> /\ writerCh' = <<>> /\ fpc' = "receive"
    BY <1>0, <1>4 DEF Restart
  <2>2. /\ \A d \in Devices : latest'[d] <= taken'
        /\ \A p \in Producers : ppc'[p] = "poll"
    BY <1>b, <1>4 DEF Restart
  <2>. QED
    BY <2>1, <2>2 DEF CacheInv, AllFine
<1>. QED
  BY <1>c, <1>1, <1>2, <1>3, <1>4
  DEF Next, FanReceive, FanToAlerter, FanToWriter, AlerterReceive, WriterReceive, WriterTick,
      DeleteDevice, vars

LEMMA CachedConcat == CacheInv => CachedFirst
<1>. SUFFICES ASSUME CacheInv
              PROVE  CachedFirst
  OBVIOUS
<1>. DEFINE a == samples \o alerterCh
            s == a \o writerCh
<1>1. /\ samples \in Seq(Samples) /\ alerterCh \in Seq(Samples) /\ writerCh \in Seq(Samples)
      /\ AllFine(samples) /\ AllFine(alerterCh) /\ AllFine(writerCh)
  BY DEF CacheInv, TypeInv, TypeOK
<1>2. ASSUME NEW x \in Seq(Samples), NEW y \in Seq(Samples), AllFine(x), AllFine(y)
      PROVE  x \o y \in Seq(Samples) /\ AllFine(x \o y)
  <2>1. /\ x \o y \in Seq(Samples) /\ Len(x \o y) = Len(x) + Len(y)
        /\ \A i \in 1 .. Len(x) + Len(y) : (x \o y)[i] = IF i <= Len(x) THEN x[i]
                                                                        ELSE y[i - Len(x)]
    BY ConcatProperties
  <2>2. /\ Len(x) \in Nat /\ Len(y) \in Nat
        /\ DOMAIN x = 1 .. Len(x) /\ DOMAIN y = 1 .. Len(y)
        /\ DOMAIN (x \o y) = 1 .. Len(x) + Len(y)
    BY <2>1, LenProperties
  <2>3. ASSUME NEW i \in 1 .. Len(x) + Len(y)
        PROVE  Fine((x \o y)[i])
    <3>1. CASE i <= Len(x)
      BY <1>2, <2>1, <2>2, <3>1 DEF AllFine
    <3>2. CASE i > Len(x)
      <4>1. i - Len(x) \in 1 .. Len(y)
        BY <2>2, <3>2
      <4>. QED
        BY <1>2, <2>1, <2>2, <3>2, <4>1 DEF AllFine
    <3>. QED
      BY <2>2, <3>1, <3>2
  <2>. QED
    BY <2>1, <2>2, <2>3 DEF AllFine
<1>3. a \in Seq(Samples) /\ AllFine(a)
  BY <1>1, <1>2
<1>. HIDE DEF a
<1>4. AllFine(s)
  BY <1>1, <1>2, <1>3
<1>. QED
  BY <1>4 DEF CachedFirst, AllFine, Fine, a

\* hub.go:19, "the latest samples": what is on its way was cached before or had a
\* newer one cached, and the cache falls behind it only by another worker of the
\* device, for any number of workers that share devices, stopped or not.
THEOREM CacheIsAhead == Spec => []CachedFirst
<1>1. Init => CacheInv
  <2>. SUFFICES ASSUME Init
                PROVE  CacheInv
    OBVIOUS
  <2>1. TypeInv
    BY InitType
  <2>. QED
    BY <2>1 DEF Init, CacheInv, AllFine
<1>2. CacheInv /\ [Next]_vars => CacheInv'
  BY NextCached
<1>. QED
  BY <1>1, <1>2, CachedConcat, PTL DEF Spec

-----------------------------------------------------------------------------
(* Numbers of a sequence.                                                  *)

Known == Samples \cup {NoSample}

LEMMA NumbersTyped ==
  ASSUME NEW s \in Seq(Known)
  PROVE  /\ Numbers(s) \in Seq(Nat) /\ Len(Numbers(s)) = Len(s)
         /\ DOMAIN s = 1 .. Len(s) /\ Len(s) \in Nat
         /\ \A i \in 1 .. Len(s) : Numbers(s)[i] = s[i].n
<1>1. DOMAIN s = 1 .. Len(s) /\ Len(s) \in Nat
  BY LenProperties
<1>2. \A i \in 1 .. Len(s) : s[i].n \in Nat
  <2>1. \A k \in Known : k.n \in Nat
    BY Capacities DEF Known, Samples, NoSample
  <2>. QED
    BY <2>1, ElementOfSeq
<1>3. Numbers(s) \in [1 .. Len(s) -> Nat]
  BY <1>1, <1>2 DEF Numbers
<1>4. Numbers(s) \in Seq(Nat)
  BY <1>1, <1>3, SeqDef
<1>. QED
  BY <1>1, <1>3, <1>4, LenProperties DEF Numbers

LEMMA NumbersConcat ==
  ASSUME NEW s \in Seq(Known), NEW t \in Seq(Known)
  PROVE  Numbers(s \o t) = Numbers(s) \o Numbers(t)
<1>1. /\ s \o t \in Seq(Known) /\ Len(s \o t) = Len(s) + Len(t)
      /\ \A i \in 1 .. Len(s) + Len(t) : (s \o t)[i] = IF i <= Len(s) THEN s[i]
                                                                      ELSE t[i - Len(s)]
  BY ConcatProperties
<1>2. /\ Numbers(s) \o Numbers(t) \in Seq(Nat)
      /\ Len(Numbers(s) \o Numbers(t)) = Len(s) + Len(t)
      /\ \A i \in 1 .. Len(s) + Len(t) :
            (Numbers(s) \o Numbers(t))[i] = IF i <= Len(s) THEN Numbers(s)[i]
                                                           ELSE Numbers(t)[i - Len(s)]
  <2>1. /\ Numbers(s) \in Seq(Nat) /\ Len(Numbers(s)) = Len(s)
        /\ Numbers(t) \in Seq(Nat) /\ Len(Numbers(t)) = Len(t)
    BY NumbersTyped
  <2>2. /\ Numbers(s) \o Numbers(t) \in Seq(Nat)
        /\ Len(Numbers(s) \o Numbers(t)) = Len(Numbers(s)) + Len(Numbers(t))
        /\ \A i \in 1 .. Len(Numbers(s)) + Len(Numbers(t)) :
              (Numbers(s) \o Numbers(t))[i] = IF i <= Len(Numbers(s)) THEN Numbers(s)[i]
                                                ELSE Numbers(t)[i - Len(Numbers(s))]
    BY <2>1, ConcatProperties
  <2>. QED
    BY <2>1, <2>2
<1>3. /\ Numbers(s \o t) \in Seq(Nat) /\ Len(Numbers(s \o t)) = Len(s) + Len(t)
      /\ \A i \in 1 .. Len(s) + Len(t) : Numbers(s \o t)[i] = (s \o t)[i].n
  BY <1>1, NumbersTyped
<1>4. ASSUME NEW i \in 1 .. Len(s) + Len(t)
      PROVE  Numbers(s \o t)[i] = (Numbers(s) \o Numbers(t))[i]
  <2>0. Len(s) \in Nat /\ Len(t) \in Nat
    BY NumbersTyped
  <2>1. CASE i <= Len(s)
    <3>1. i \in 1 .. Len(s)
      BY <2>0, <2>1
    <3>. QED
      BY <1>1, <1>2, <1>3, <2>1, <3>1, NumbersTyped
  <2>2. CASE ~(i <= Len(s))
    <3>1. i - Len(s) \in 1 .. Len(t)
      BY <2>0, <2>2
    <3>. QED
      BY <1>1, <1>2, <1>3, <2>2, <3>1, NumbersTyped
  <2>. QED
    BY <2>1, <2>2
<1>. QED
  BY <1>2, <1>3, <1>4, SeqEqual

LEMMA NumbersEmpty == Numbers(<<>>) = <<>>
<1>1. <<>> \in Seq(Known) /\ Len(<<>>) = 0
  BY EmptySeq
<1>2. Numbers(<<>>) \in Seq(Nat) /\ Len(Numbers(<<>>)) = 0
  BY <1>1, NumbersTyped
<1>. QED
  BY <1>2, EmptySeq

LEMMA NumbersAppend ==
  ASSUME NEW s \in Seq(Known), NEW e \in Known
  PROVE  Numbers(Append(s, e)) = Append(Numbers(s), e.n) /\ e.n \in Nat
<1>0. e.n \in Nat
  BY Capacities DEF Known, Samples, NoSample
<1>1. /\ Append(s, e) \in Seq(Known) /\ Len(Append(s, e)) = Len(s) + 1
      /\ \A i \in 1 .. Len(s) : Append(s, e)[i] = s[i]
      /\ Append(s, e)[Len(s) + 1] = e
  BY AppendProperties
<1>2. /\ Append(Numbers(s), e.n) \in Seq(Nat)
      /\ Len(Append(Numbers(s), e.n)) = Len(s) + 1
      /\ \A i \in 1 .. Len(s) : Append(Numbers(s), e.n)[i] = Numbers(s)[i]
      /\ Append(Numbers(s), e.n)[Len(s) + 1] = e.n
  BY <1>0, NumbersTyped, AppendProperties
<1>3. /\ Numbers(Append(s, e)) \in Seq(Nat) /\ Len(Numbers(Append(s, e))) = Len(s) + 1
      /\ \A i \in 1 .. Len(s) + 1 : Numbers(Append(s, e))[i] = Append(s, e)[i].n
  BY <1>1, NumbersTyped
<1>4. ASSUME NEW i \in 1 .. Len(s) + 1
      PROVE  Numbers(Append(s, e))[i] = Append(Numbers(s), e.n)[i]
  <2>1. i \in 1 .. Len(s) \/ i = Len(s) + 1
    BY NumbersTyped
  <2>2. Numbers(Append(s, e))[i] = Append(s, e)[i].n
    BY <1>3
  <2>3. CASE i \in 1 .. Len(s)
    <3>1. Append(s, e)[i] = s[i] /\ Append(Numbers(s), e.n)[i] = Numbers(s)[i]
      BY <1>1, <1>2, <2>3
    <3>2. Numbers(s)[i] = s[i].n
      BY <2>3, NumbersTyped
    <3>. QED
      BY <2>2, <3>1, <3>2
  <2>4. CASE i = Len(s) + 1
    BY <1>1, <1>2, <2>2, <2>4
  <2>. QED
    BY <2>1, <2>3, <2>4
<1>. QED
  BY <1>0, <1>2, <1>3, <1>4, SeqEqual

LEMMA NumbersTail ==
  ASSUME NEW s \in Seq(Known), s # <<>>
  PROVE  /\ Numbers(s) = <<Head(s).n>> \o Numbers(Tail(s))
         /\ Head(s) \in Known /\ Tail(s) \in Seq(Known) /\ Head(s).n \in Nat
<1>1. /\ Head(s) \in Known /\ Tail(s) \in Seq(Known) /\ Len(s) \in Nat \ {0}
  BY HeadTailProperties, EmptySeq
<1>2. s = SubSeq(s, 1, Len(s)) /\ Tail(s) = SubSeq(s, 2, Len(s)) /\ Head(s) = s[1]
  BY SubSeqFull, TailIsSubSeq
<1>3. SubSeq(s, 1, Len(s)) = <<s[1]>> \o SubSeq(s, 1 + 1, Len(s))
  BY <1>1, SubSeqRecursiveFirst
<1>4. s = <<Head(s)>> \o Tail(s)
  BY <1>2, <1>3
<1>5. <<Head(s)>> \in Seq(Known) /\ Append(<<>>, Head(s)) = <<Head(s)>>
        /\ <<>> \in Seq(Known)
  BY <1>1
<1>6. Numbers(<<Head(s)>>) = Append(<<>>, Head(s).n) /\ Head(s).n \in Nat
  BY <1>1, <1>5, NumbersAppend, NumbersEmpty
<1>7. Append(<<>>, Head(s).n) = <<Head(s).n>>
  BY <1>6
<1>8. Numbers(<<Head(s)>> \o Tail(s)) = Numbers(<<Head(s)>>) \o Numbers(Tail(s))
  BY <1>1, <1>5, NumbersConcat
<1>9. Numbers(s) = <<Head(s).n>> \o Numbers(Tail(s))
  BY <1>4, <1>6, <1>7, <1>8
<1>. QED
  BY <1>1, <1>6, <1>9

-----------------------------------------------------------------------------
(* Nothing that the writer received is forgotten.                          *)

ForgetInv == TypeInv /\ NothingForgotten

LEMMA NextForgotten == ForgetInv /\ [Next]_vars => ForgetInv'
<1>. SUFFICES ASSUME ForgetInv, [Next]_vars, faults' = 0, exists' = Devices
              PROVE  Numbers(db' \o buffer') = seenW'
  BY NextType DEF ForgetInv, NothingForgotten
<1>1. /\ db \in Seq(Known) /\ buffer \in Seq(Known) /\ faults \in Nat
      /\ writerCh \in Seq(Samples) /\ buffer \in Seq(Samples)
  BY SeqMonotonic, Capacities DEF ForgetInv, TypeInv, TypeOK, Known
<1>2. ASSUME faults = 0, exists = Devices
      PROVE  Numbers(db \o buffer) = seenW /\ db \o buffer \in Seq(Known)
  BY <1>1, <1>2, ConcatProperties DEF ForgetInv, NothingForgotten
<1>3. CASE UNCHANGED <<dbVars, buffer, seenW>>
  BY <1>2, <1>3 DEF dbVars
<1>4. ASSUME NEW b \in Seq(Samples), Flush(b)
      PROVE  /\ faults = 0 /\ exists = Devices
             /\ db' \o buffer' = db \o b
  <2>1. exists = Devices
    BY <1>4 DEF Flush, Insert
  <2>2. \A i \in DOMAIN b : b[i].dev \in exists
    <3>1. \A i \in DOMAIN b : b[i] \in Samples
      BY ElementOfSeq, LenProperties
    <3>. QED
      BY <2>1, <3>1 DEF Samples
  <2>3. faults = 0 /\ db' = db \o b
    BY <1>1, <1>4, <2>2 DEF Flush, Insert
  <2>4. b \in Seq(Known) /\ db \o b \in Seq(Known)
    BY <1>1, SeqMonotonic, ConcatProperties DEF Known
  <2>5. buffer' = <<>>
    BY <1>4 DEF Flush
  <2>6. (db \o b) \o <<>> = db \o b
    BY <2>4, ConcatEmptySeq
  <2>. QED
    BY <2>1, <2>3, <2>5, <2>6
<1>5. CASE WriterReceive
  <2>. DEFINE h == Head(writerCh)
              b == Append(buffer, h)
  <2>1. /\ seenW' = Append(seenW, h.n) /\ writerCh # <<>>
        /\ IF Full(b) THEN Flush(b) ELSE buffer' = b /\ UNCHANGED dbVars
    BY <1>5 DEF WriterReceive
  <2>2. h \in Samples /\ h \in Known /\ b \in Seq(Samples) /\ b \in Seq(Known)
    BY <1>1, <2>1, HeadTailProperties, AppendProperties, SeqMonotonic DEF Known
  <2>3. faults = 0 /\ exists = Devices /\ db' \o buffer' = db \o b
    BY <1>4, <2>1, <2>2 DEF dbVars
  <2>4. db \o b = Append(db \o buffer, h)
    <3>1. <<h>> \in Seq(Known) /\ b = buffer \o <<h>>
      BY <1>1, <2>2, AppendIsConcat
    <3>2. db \o (buffer \o <<h>>) = (db \o buffer) \o <<h>>
      BY <1>1, <3>1, ConcatAssociative
    <3>3. db \o buffer \in Seq(Known)
      BY <1>1, ConcatProperties
    <3>. QED
      BY <2>2, <3>1, <3>2, <3>3, AppendIsConcat
  <2>. HIDE DEF h, b
  <2>. QED
    BY <1>2, <2>1, <2>2, <2>3, <2>4, NumbersAppend
<1>6. CASE WriterTick
  <2>1. Flush(buffer) /\ seenW' = seenW
    BY <1>6 DEF WriterTick
  <2>. QED
    BY <1>1, <1>2, <1>4, <2>1
<1>7. CASE \E d \in Devices : DeleteDevice(d)
  BY <1>7 DEF DeleteDevice, ForgetInv, TypeInv, TypeOK
<1>8. CASE Restart
  BY <1>1, <1>8 DEF Restart
<1>. QED
  BY <1>3, <1>5, <1>6, <1>7, <1>8
  DEF Next, TakeSample, CacheSample, SendSample, FanReceive, FanToAlerter, FanToWriter,
      AlerterReceive, vars

\* As long as no batch failed and no device was deleted, the rows and the
\* writer's buffer are exactly what the writer received, in order: for any
\* workers, capacities and batches.
THEOREM AllReceivedIsStored == Spec => []NothingForgotten
<1>1. Init => ForgetInv
  <2>1. <<>> \o <<>> = <<>>
    BY EmptySeq, ConcatEmptySeq
  <2>. QED
    BY <2>1, InitType, NumbersEmpty DEF Init, ForgetInv, NothingForgotten
<1>2. ForgetInv => NothingForgotten
  BY DEF ForgetInv
<1>. QED
  BY <1>1, <1>2, NextForgotten, PTL DEF Spec

-----------------------------------------------------------------------------
(* The channels serve their readers like lossy queues.                     *)

\* The numbers that are on their way to a reader: in its channel ch, held by the
\* fan-out, and in the channel of samples.
Line(ch, held, from) == Numbers(ch) \o held \o Numbers(from)

LEMMA ConsParts ==
  ASSUME NEW n \in Nat, NEW s \in Seq(Nat)
  PROVE  /\ <<n>> \o s \in Seq(Nat) /\ <<n>> \o s # <<>>
         /\ Head(<<n>> \o s) = n /\ Tail(<<n>> \o s) = s
<1>. DEFINE t == <<n>> \o s
<1>1. <<n>> \in Seq(Nat) /\ Len(<<n>>) = 1 /\ <<n>>[1] = n /\ Len(s) \in Nat
  BY LenProperties
<1>2. /\ t \in Seq(Nat) /\ Len(t) = 1 + Len(s)
      /\ \A i \in 1 .. 1 + Len(s) : t[i] = IF i <= 1 THEN <<n>>[i] ELSE s[i - 1]
  BY <1>1, ConcatProperties
<1>. HIDE DEF t
<1>3. t # <<>> /\ Head(t) = t[1]
  BY <1>1, <1>2, EmptySeq
<1>4. Head(t) = n
  BY <1>1, <1>2, <1>3
<1>5. /\ Tail(t) \in Seq(Nat) /\ Len(Tail(t)) = Len(s)
      /\ \A i \in 1 .. Len(s) : Tail(t)[i] = t[i + 1]
  BY <1>1, <1>2, <1>3, HeadTailProperties
<1>6. \A i \in 1 .. Len(s) : t[i + 1] = s[i]
  BY <1>1, <1>2, SMTT(30)
<1>7. Tail(t) = s
  BY <1>5, <1>6, SeqEqual
<1>. QED
  BY <1>2, <1>3, <1>4, <1>7 DEF t

LEMMA Concat ==
  /\ \A a, b \in Seq(Nat) :
        /\ a \o b \in Seq(Nat) /\ Len(a \o b) = Len(a) + Len(b)
        /\ \A i \in 1 .. Len(a) + Len(b) :
              (a \o b)[i] = IF i <= Len(a) THEN a[i] ELSE b[i - Len(a)]
  /\ \A a, b, c \in Seq(Nat) : (a \o b) \o c = a \o (b \o c)
<1>1. ASSUME NEW a \in Seq(Nat), NEW b \in Seq(Nat)
      PROVE  /\ a \o b \in Seq(Nat) /\ Len(a \o b) = Len(a) + Len(b)
             /\ \A i \in 1 .. Len(a) + Len(b) :
                   (a \o b)[i] = IF i <= Len(a) THEN a[i] ELSE b[i - Len(a)]
  BY ConcatProperties
<1>2. ASSUME NEW a \in Seq(Nat), NEW b \in Seq(Nat), NEW c \in Seq(Nat)
      PROVE  (a \o b) \o c = a \o (b \o c)
  BY ConcatAssociative, SMTT(30)
<1>3. \A a, b \in Seq(Nat) :
         /\ a \o b \in Seq(Nat) /\ Len(a \o b) = Len(a) + Len(b)
         /\ \A i \in 1 .. Len(a) + Len(b) :
               (a \o b)[i] = IF i <= Len(a) THEN a[i] ELSE b[i - Len(a)]
  BY <1>1, Zenon
<1>4. \A a, b, c \in Seq(Nat) : (a \o b) \o c = a \o (b \o c)
  BY <1>2, Zenon
<1>. QED
  BY <1>3, <1>4, Zenon

LEMMA RemoveMiddle ==
  ASSUME NEW x \in Seq(Nat), NEW n \in Nat, NEW z \in Seq(Nat)
  PROVE  /\ Len(x) + 1 \in DOMAIN (x \o <<n>> \o z)
         /\ RemoveAt(x \o <<n>> \o z, Len(x) + 1) = x \o z
<1>0. PICK m \in Nat : m = Len(x)
  BY LenProperties
<1>1. PICK k \in Nat : k = m + 1
  BY <1>0
<1>2. PICK l \in Nat : l = Len(z)
  BY LenProperties
<1>3. PICK a \in Seq(Nat) :
           /\ a = x \o <<n>> /\ Len(a) = k
           /\ \A i \in 1 .. k : a[i] = IF i <= m THEN x[i] ELSE <<n>>[i - m]
  <2>1. <<n>> \in Seq(Nat) /\ Len(<<n>>) = 1
    OBVIOUS
  <2>2. /\ x \o <<n>> \in Seq(Nat) /\ Len(x \o <<n>>) = Len(x) + Len(<<n>>)
        /\ \A i \in 1 .. Len(x) + Len(<<n>>) :
              (x \o <<n>>)[i] = IF i <= Len(x) THEN x[i] ELSE <<n>>[i - Len(x)]
    BY <2>1, Concat
  <2>. QED
    BY <1>0, <1>1, <2>1, <2>2
<1>4. PICK s \in Seq(Nat) :
           /\ s = a \o z /\ Len(s) = k + l
           /\ \A i \in 1 .. k + l : s[i] = IF i <= k THEN a[i] ELSE z[i - k]
  <2>1. /\ a \o z \in Seq(Nat) /\ Len(a \o z) = Len(a) + Len(z)
        /\ \A i \in 1 .. Len(a) + Len(z) :
              (a \o z)[i] = IF i <= Len(a) THEN a[i] ELSE z[i - Len(a)]
    BY Concat
  <2>. QED
    BY <1>2, <1>3, <2>1
<1>5. DOMAIN s = 1 .. k + l
  BY <1>4, LenProperties
<1>6. SubSeq(s, 1, m) = x
  <2>1. \A i \in 1 .. m : x[i] \in Nat
    BY <1>0, ElementOfSeq
  <2>2. \A i \in 1 .. m : s[i] = x[i]
    BY <1>1, <1>3, <1>4
  <2>3. \A i \in 1 .. m : s[i] \in Nat
    BY <2>1, <2>2
  <2>4. /\ SubSeq(s, 1, m) \in Seq(Nat)
        /\ Len(SubSeq(s, 1, m)) = IF 1 <= m THEN m - 1 + 1 ELSE 0
        /\ \A i \in 1 .. m - 1 + 1 : SubSeq(s, 1, m)[i] = s[1 + i - 1]
    BY <2>3, SubSeqProperties
  <2>5. Len(SubSeq(s, 1, m)) = m /\ \A i \in 1 .. m : SubSeq(s, 1, m)[i] = x[i]
    BY <2>2, <2>4
  <2>. QED
    BY <1>0, <2>4, <2>5, SeqEqual
<1>7. SubSeq(s, k + 1, k + l) = z
  <2>1. \A i \in 1 .. l : z[i] \in Nat
    BY <1>2, ElementOfSeq
  <2>2. \A i \in k + 1 .. k + l : i - k \in 1 .. l /\ s[i] = z[i - k]
    BY <1>4
  <2>3. \A i \in k + 1 .. k + l : s[i] \in Nat
    BY <2>1, <2>2
  <2>4. PICK y : y = SubSeq(s, k + 1, k + l)
    OBVIOUS
  <2>5. /\ y \in Seq(Nat)
        /\ Len(y) = IF k + 1 <= k + l THEN k + l - (k + 1) + 1 ELSE 0
        /\ \A i \in 1 .. k + l - (k + 1) + 1 : y[i] = s[k + 1 + i - 1]
    BY <2>3, <2>4, SubSeqProperties
  <2>6. Len(y) = l
    BY <2>5
  <2>7. ASSUME NEW i \in 1 .. l
        PROVE  y[i] = z[i]
    <3>1. /\ i \in 1 .. k + l - (k + 1) + 1 /\ k + 1 + i - 1 = k + i
          /\ k + i \in k + 1 .. k + l /\ k + i - k = i
      OBVIOUS
    <3>. QED
      BY <2>2, <2>5, <3>1
  <2>. QED
    BY <1>2, <2>4, <2>5, <2>6, <2>7, SeqEqual
<1>8. RemoveAt(s, k) = SubSeq(s, 1, m) \o SubSeq(s, k + 1, k + l)
  <2>1. k - 1 = m
    BY <1>1
  <2>. QED
    BY <1>4, <2>1 DEF RemoveAt
<1>9. k \in DOMAIN s
  BY <1>1, <1>5
<1>. QED
  BY <1>0, <1>1, <1>3, <1>4, <1>6, <1>7, <1>8, <1>9

LEMMA LineTyped ==
  ASSUME NEW ch \in Seq(Known), NEW held \in Seq(Nat), NEW from \in Seq(Known)
  PROVE  Line(ch, held, from) \in Seq(Nat)
BY NumbersTyped, ConcatProperties DEF Line

LEMMA Regrouped ==
  ASSUME NEW s \in Seq(Nat), NEW t \in Seq(Nat), NEW u \in Seq(Nat)
  PROVE  s \o (t \o u) = (s \o t) \o u
BY ConcatAssociative, SMTT(30)

LEMMA LineOffer ==
  ASSUME NEW ch \in Seq(Known), NEW held \in Seq(Nat), NEW from \in Seq(Known), NEW e \in Known
  PROVE  Line(ch, held, Append(from, e)) = Append(Line(ch, held, from), e.n)
<1>1. /\ Numbers(ch) \in Seq(Nat) /\ Numbers(from) \in Seq(Nat) /\ e.n \in Nat
      /\ Numbers(Append(from, e)) = Append(Numbers(from), e.n)
  BY NumbersTyped, NumbersAppend
<1>2. /\ Numbers(ch) \o held \in Seq(Nat) /\ <<e.n>> \in Seq(Nat)
      /\ Line(ch, held, from) \in Seq(Nat)
  BY <1>1, ConcatProperties, LineTyped
<1>3. Append(Numbers(from), e.n) = Numbers(from) \o <<e.n>>
  BY <1>1, AppendIsConcat
<1>4. (Numbers(ch) \o held) \o (Numbers(from) \o <<e.n>>) = Line(ch, held, from) \o <<e.n>>
  <2>1. (Numbers(ch) \o held) \o (Numbers(from) \o <<e.n>>)
          = ((Numbers(ch) \o held) \o Numbers(from)) \o <<e.n>>
    BY <1>1, <1>2, Regrouped, SMTT(30)
  <2>2. Line(ch, held, from) = (Numbers(ch) \o held) \o Numbers(from)
    BY Zenon DEF Line
  <2>. QED
    BY <2>1, <2>2, Zenon
<1>5. Line(ch, held, from) \o <<e.n>> = Append(Line(ch, held, from), e.n)
  BY <1>1, <1>2, AppendIsConcat
<1>6. Line(ch, held, Append(from, e)) = (Numbers(ch) \o held) \o Numbers(Append(from, e))
  BY Zenon DEF Line
<1>. QED
  BY <1>1, <1>3, <1>4, <1>5, <1>6, Zenon

LEMMA LineTake ==
  ASSUME NEW ch \in Seq(Known), NEW from \in Seq(Known), from # <<>>
  PROVE  Line(ch, <<>>, from) = Line(ch, <<Head(from).n>>, Tail(from))
<1>. DEFINE h == <<Head(from).n>>
<1>1. /\ Numbers(from) = h \o Numbers(Tail(from))
      /\ Tail(from) \in Seq(Known) /\ Head(from).n \in Nat
  BY NumbersTail
<1>a. h \in Seq(Nat)
  BY <1>1
<1>2. Numbers(ch) \in Seq(Nat) /\ Numbers(Tail(from)) \in Seq(Nat)
  BY <1>1, NumbersTyped
<1>3. Numbers(ch) \o <<>> = Numbers(ch)
  BY <1>2, ConcatEmptySeq
<1>. HIDE DEF h
<1>4. Numbers(ch) \o (h \o Numbers(Tail(from))) = (Numbers(ch) \o h) \o Numbers(Tail(from))
  BY <1>a, <1>2, Concat
<1>. QED
  BY <1>1, <1>3, <1>4 DEF Line, h

LEMMA LinePut ==
  ASSUME NEW ch \in Seq(Known), NEW e \in Known, NEW from \in Seq(Known)
  PROVE  Line(Append(ch, e), <<>>, from) = Line(ch, <<e.n>>, from)
<1>1. /\ Numbers(ch) \in Seq(Nat) /\ e.n \in Nat
      /\ Numbers(Append(ch, e)) = Append(Numbers(ch), e.n)
  BY NumbersTyped, NumbersAppend
<1>2. Append(Numbers(ch), e.n) = Numbers(ch) \o <<e.n>> /\ Append(Numbers(ch), e.n) \in Seq(Nat)
  BY <1>1, AppendIsConcat, AppendProperties
<1>3. Append(Numbers(ch), e.n) \o <<>> = Append(Numbers(ch), e.n)
  BY <1>2, ConcatEmptySeq
<1>. QED
  BY <1>1, <1>2, <1>3 DEF Line

LEMMA LineDrop ==
  ASSUME NEW ch \in Seq(Known), NEW n \in Nat, NEW from \in Seq(Known)
  PROVE  \E i \in DOMAIN Line(ch, <<n>>, from) :
            Line(ch, <<>>, from) = RemoveAt(Line(ch, <<n>>, from), i)
<1>1. Numbers(ch) \in Seq(Nat) /\ Numbers(from) \in Seq(Nat)
  BY NumbersTyped
<1>2. Numbers(ch) \o <<>> = Numbers(ch)
  BY <1>1, ConcatEmptySeq
<1>3. /\ Len(Numbers(ch)) + 1 \in DOMAIN Line(ch, <<n>>, from)
      /\ RemoveAt(Line(ch, <<n>>, from), Len(Numbers(ch)) + 1) = Numbers(ch) \o Numbers(from)
  BY <1>1, RemoveMiddle DEF Line
<1>. QED
  BY <1>2, <1>3 DEF Line

LEMMA LineGet ==
  ASSUME NEW ch \in Seq(Known), ch # <<>>, NEW held \in Seq(Nat), NEW from \in Seq(Known)
  PROVE  /\ Line(ch, held, from) # <<>>
         /\ Head(Line(ch, held, from)) = Head(ch).n
         /\ Tail(Line(ch, held, from)) = Line(Tail(ch), held, from)
<1>. DEFINE n == Head(ch).n
            x == Numbers(Tail(ch))
            z == Numbers(from)
<1>1. /\ Numbers(ch) = <<n>> \o x /\ Tail(ch) \in Seq(Known)
      /\ n \in Nat
  BY NumbersTail
<1>a. x \in Seq(Nat) /\ z \in Seq(Nat)
  BY <1>1, NumbersTyped
<1>. HIDE DEF n, x, z
<1>b. <<n>> \in Seq(Nat)
  BY <1>1
<1>2. (<<n>> \o x) \o held = <<n>> \o (x \o held) /\ x \o held \in Seq(Nat)
  BY <1>a, <1>b, Concat, SMTT(30)
<1>3. (<<n>> \o (x \o held)) \o z = <<n>> \o (x \o held \o z) /\ x \o held \o z \in Seq(Nat)
  BY <1>a, <1>b, <1>2, Concat, SMTT(60)
<1>4. Line(ch, held, from) = <<n>> \o Line(Tail(ch), held, from)
        /\ Line(Tail(ch), held, from) \in Seq(Nat)
  BY <1>1, <1>2, <1>3 DEF Line, x, z
<1>5. PICK l \in Seq(Nat) : l = Line(Tail(ch), held, from)
  BY <1>4
<1>6. PICK k \in Nat : k = Head(ch).n
  BY <1>1 DEF n
<1>7. <<k>> \o l # <<>> /\ Head(<<k>> \o l) = k /\ Tail(<<k>> \o l) = l
  BY ConsParts
<1>8. Line(ch, held, from) = <<k>> \o l
  BY <1>4, <1>5, <1>6 DEF n
<1>. QED
  BY <1>5, <1>6, <1>7, <1>8

LEMMA LineEmpty == Line(<<>>, <<>>, <<>>) = <<>>
<1>1. <<>> \o <<>> = <<>> /\ <<>> \in Seq(Nat)
  BY EmptySeq, ConcatEmptySeq
<1>. QED
  BY <1>1, NumbersEmpty DEF Line

LEMMA HeldTyped == TypeInv => \A pcs : Held(pcs) \in Seq(Nat)
<1>. SUFFICES ASSUME TypeInv, NEW pcs
              PROVE  Held(pcs) \in Seq(Nat)
  OBVIOUS
<1>1. fhand.n \in Nat
  BY Capacities DEF TypeInv, TypeOK, Samples, NoSample
<1>2. <<fhand.n>> \in Seq(Nat) /\ <<>> \in Seq(Nat)
  BY <1>1
<1>. QED
  BY <1>2 DEF Held

\* What both readers are waiting for, as their queues see it.
QA == Line(alerterCh, Held({"alerter"}), samples)
QW == Line(writerCh, Held({"alerter", "writer"}), samples)

\* What a step is for a lossy queue q, of which g was received.
QStep(q, qq, g, gg) ==
    \/ offered' = offered + 1 /\ qq \in {q, Append(q, offered')} /\ gg = g
    \/ q # <<>> /\ gg = Append(g, Head(q)) /\ qq = Tail(q) /\ offered' = offered
    \/ (\E i \in DOMAIN q : qq = RemoveAt(q, i)) /\ offered' = offered /\ gg = g
    \/ qq = <<>> /\ offered' = offered /\ gg = g
    \/ qq = q /\ offered' = offered /\ gg = g

LEMMA NextServes ==
  ASSUME TypeInv, [Next]_vars
  PROVE  QStep(QA, QA', seenA, seenA') /\ QStep(QW, QW', seenW, seenW')
<1>0. /\ samples \in Seq(Known) /\ alerterCh \in Seq(Known) /\ writerCh \in Seq(Known)
      /\ \A pcs : Held(pcs) \in Seq(Nat)
  BY SeqMonotonic, HeldTyped DEF TypeInv, TypeOK, Known
<1>1. CASE UNCHANGED <<offered, samples, alerterCh, writerCh, fpc, fhand, seenA, seenW>>
  <2>1. QA' = QA /\ QW' = QW
    BY <1>1 DEF QA, QW, Held, Line, Numbers
  <2>. QED
    BY <1>1, <2>1 DEF QStep
<1>2. ASSUME NEW p \in Producers, SendSample(p)
      PROVE  QStep(QA, QA', seenA, seenA') /\ QStep(QW, QW', seenW, seenW')
  <2>. DEFINE e == [hand[p] EXCEPT !.n = offered']
  <2>1. e \in Known /\ e.n = offered'
    BY <1>2, SendTyped, TypeParts DEF Known, Samples
  <2>2. /\ samples' = samples \/ samples' = Append(samples, e)
        /\ offered' = offered + 1
        /\ UNCHANGED <<alerterCh, writerCh, fpc, fhand, seenA, seenW>>
    BY <1>2 DEF SendSample, Offered
  <2>. HIDE DEF e
  <2>3. QA' = Line(alerterCh, Held({"alerter"}), samples')
        /\ QW' = Line(writerCh, Held({"alerter", "writer"}), samples')
    BY <2>2 DEF QA, QW, Held, Line, Numbers
  <2>4. CASE samples' = samples
    BY <2>2, <2>3, <2>4 DEF QStep, QA, QW
  <2>5. CASE samples' = Append(samples, e)
    <3>0. Held({"alerter"}) \in Seq(Nat) /\ Held({"alerter", "writer"}) \in Seq(Nat)
      BY <1>0
    <3>1. QA' = Append(QA, e.n)
      BY <1>0, <2>1, <2>3, <2>5, <3>0, LineOffer DEF QA
    <3>2. QW' = Append(QW, e.n)
      BY <1>0, <2>1, <2>3, <2>5, <3>0, LineOffer DEF QW
    <3>. QED
      BY <2>1, <2>2, <3>1, <3>2 DEF QStep
  <2>. QED
    BY <2>2, <2>4, <2>5
<1>3. CASE FanReceive
  <2>1. /\ fpc = "receive" /\ fpc' = "alerter" /\ samples # <<>>
        /\ fhand' = Head(samples) /\ samples' = Tail(samples)
        /\ UNCHANGED <<offered, alerterCh, writerCh, seenA, seenW>>
    BY <1>3 DEF FanReceive
  <2>2. /\ Held({"alerter"}) = <<>> /\ Held({"alerter", "writer"}) = <<>>
        /\ Held({"alerter"})' = <<Head(samples).n>>
        /\ Held({"alerter", "writer"})' = <<Head(samples).n>>
    BY <2>1 DEF Held
  <2>3. /\ QA' = Line(alerterCh, <<Head(samples).n>>, Tail(samples))
        /\ QW' = Line(writerCh, <<Head(samples).n>>, Tail(samples))
    BY <2>1, <2>2 DEF QA, QW, Line, Numbers
  <2>4. QA' = QA /\ QW' = QW
    BY <1>0, <2>1, <2>2, <2>3, LineTake DEF QA, QW
  <2>. QED
    BY <2>1, <2>4 DEF QStep
<1>4. CASE FanToAlerter
  <2>1. /\ fpc = "alerter" /\ fpc' = "writer"
        /\ UNCHANGED <<offered, samples, writerCh, fhand, seenA, seenW>>
        /\ alerterCh' = alerterCh \/ alerterCh' = Append(alerterCh, fhand)
    BY <1>4 DEF FanToAlerter, Offered
  <2>2. fhand \in Known /\ fhand.n \in Nat
    BY <2>1, Capacities DEF TypeInv, TypeOK, Known, Samples
  <2>3. /\ Held({"alerter"}) = <<fhand.n>> /\ Held({"alerter"})' = <<>>
        /\ Held({"alerter", "writer"})' = Held({"alerter", "writer"})
    BY <2>1 DEF Held
  <2>4. QW' = QW /\ QA' = Line(alerterCh', <<>>, samples) /\ QA = Line(alerterCh, <<fhand.n>>, samples)
    BY <2>1, <2>3 DEF QA, QW, Line, Numbers
  <2>5. QA' = QA \/ \E i \in DOMAIN QA : QA' = RemoveAt(QA, i)
    <3>1. CASE alerterCh' = alerterCh
      BY <1>0, <2>2, <2>4, <3>1, LineDrop
    <3>2. CASE alerterCh' = Append(alerterCh, fhand)
      BY <1>0, <2>2, <2>4, <3>2, LinePut
    <3>. QED
      BY <2>1, <3>1, <3>2
  <2>. QED
    BY <2>1, <2>4, <2>5 DEF QStep
<1>5. CASE FanToWriter
  <2>1. /\ fpc = "writer" /\ fpc' = "receive"
        /\ UNCHANGED <<offered, samples, alerterCh, seenA, seenW>>
        /\ writerCh' = writerCh \/ writerCh' = Append(writerCh, fhand)
    BY <1>5 DEF FanToWriter, Offered
  <2>2. fhand \in Known /\ fhand.n \in Nat
    BY <2>1, Capacities DEF TypeInv, TypeOK, Known, Samples
  <2>3. /\ Held({"alerter"}) = <<>> /\ Held({"alerter"})' = <<>>
        /\ Held({"alerter", "writer"}) = <<fhand.n>> /\ Held({"alerter", "writer"})' = <<>>
    BY <2>1 DEF Held
  <2>4. QA' = QA /\ QW' = Line(writerCh', <<>>, samples) /\ QW = Line(writerCh, <<fhand.n>>, samples)
    BY <2>1, <2>3 DEF QA, QW, Line, Numbers
  <2>5. QW' = QW \/ \E i \in DOMAIN QW : QW' = RemoveAt(QW, i)
    <3>1. CASE writerCh' = writerCh
      BY <1>0, <2>2, <2>4, <3>1, LineDrop
    <3>2. CASE writerCh' = Append(writerCh, fhand)
      BY <1>0, <2>2, <2>4, <3>2, LinePut
    <3>. QED
      BY <2>1, <3>1, <3>2
  <2>. QED
    BY <2>1, <2>4, <2>5 DEF QStep
<1>6. CASE AlerterReceive
  <2>1. /\ alerterCh # <<>> /\ seenA' = Append(seenA, Head(alerterCh).n)
        /\ alerterCh' = Tail(alerterCh)
        /\ UNCHANGED <<offered, samples, writerCh, fpc, fhand, seenW>>
    BY <1>6 DEF AlerterReceive
  <2>2. QW' = QW /\ QA' = Line(Tail(alerterCh), Held({"alerter"}), samples)
    BY <2>1 DEF QA, QW, Held, Line, Numbers
  <2>3. QA # <<>> /\ Head(QA) = Head(alerterCh).n /\ Tail(QA) = QA'
    BY <1>0, <2>1, <2>2, LineGet DEF QA
  <2>. QED
    BY <2>1, <2>2, <2>3 DEF QStep
<1>7. CASE WriterReceive
  <2>1. /\ writerCh # <<>> /\ seenW' = Append(seenW, Head(writerCh).n)
        /\ writerCh' = Tail(writerCh)
        /\ UNCHANGED <<offered, samples, alerterCh, fpc, fhand, seenA>>
    BY <1>7 DEF WriterReceive
  <2>2. QA' = QA /\ QW' = Line(Tail(writerCh), Held({"alerter", "writer"}), samples)
    BY <2>1 DEF QA, QW, Held, Line, Numbers
  <2>3. QW # <<>> /\ Head(QW) = Head(writerCh).n /\ Tail(QW) = QW'
    BY <1>0, <2>1, <2>2, LineGet DEF QW
  <2>. QED
    BY <2>1, <2>2, <2>3 DEF QStep
<1>8. CASE Restart
  <2>1. /\ samples' = <<>> /\ alerterCh' = <<>> /\ writerCh' = <<>>
        /\ Held({"alerter"})' = <<>> /\ Held({"alerter", "writer"})' = <<>>
        /\ UNCHANGED <<offered, seenA, seenW>>
    BY <1>8 DEF Restart, Held
  <2>2. QA' = Line(<<>>, <<>>, <<>>) /\ QW' = Line(<<>>, <<>>, <<>>)
    BY <2>1 DEF QA, QW, Line, Numbers
  <2>. QED
    BY <2>1, <2>2, LineEmpty DEF QStep
<1>. QED
  BY <1>1, <1>2, <1>3, <1>4, <1>5, <1>6, <1>7, <1>8
  DEF Next, TakeSample, CacheSample, WriterTick, DeleteDevice, vars, prodVars

\* Through channels that lose samples, a fan-out that drops them and restarts,
\* the alerter and the writer are each served like from one queue that keeps the
\* order and repeats nothing, whatever the capacities and however many workers.
THEOREM ChannelsImplementQueues == Spec => ChannelsServe
<1>1. Init => ToAlerter!QInit /\ ToWriter!QInit
  <2>. SUFFICES ASSUME Init
                PROVE  ToAlerter!QInit /\ ToWriter!QInit
    OBVIOUS
  <2>1. QA = Line(<<>>, <<>>, <<>>) /\ QW = Line(<<>>, <<>>, <<>>)
    BY DEF Init, QA, QW, Held
  <2>. QED
    BY <2>1, LineEmpty DEF Init, QA, QW, Line, ToAlerter!QInit, ToWriter!QInit
<1>2. TypeInv /\ [Next]_vars =>
         [ToAlerter!QNext]_(ToAlerter!qvars) /\ [ToWriter!QNext]_(ToWriter!qvars)
  <2>. SUFFICES ASSUME TypeInv, [Next]_vars
                PROVE  /\ ToAlerter!QNext \/ UNCHANGED ToAlerter!qvars
                       /\ ToWriter!QNext \/ UNCHANGED ToWriter!qvars
    OBVIOUS
  <2>1. QStep(QA, QA', seenA, seenA') /\ QStep(QW, QW', seenW, seenW')
    BY NextServes
  <2>2. ToAlerter!QNext \/ UNCHANGED ToAlerter!qvars
    <3>1. CASE offered' = offered + 1 /\ QA' \in {QA, Append(QA, offered')} /\ seenA' = seenA
      BY <3>1 DEF QA, Line, ToAlerter!QNext, ToAlerter!Offer
    <3>2. CASE QA # <<>> /\ seenA' = Append(seenA, Head(QA)) /\ QA' = Tail(QA) /\ offered' = offered
      BY <3>2 DEF QA, Line, ToAlerter!QNext, ToAlerter!Deliver
    <3>3. CASE (\E i \in DOMAIN QA : QA' = RemoveAt(QA, i)) /\ offered' = offered /\ seenA' = seenA
      BY <3>3 DEF QA, Line, ToAlerter!QNext, ToAlerter!Lose, RemoveAt, ToAlerter!RemoveAt
    <3>4. CASE QA' = <<>> /\ offered' = offered /\ seenA' = seenA
      BY <3>4 DEF QA, Line, ToAlerter!QNext, ToAlerter!LoseAll
    <3>5. CASE QA' = QA /\ offered' = offered /\ seenA' = seenA
      BY <3>5 DEF QA, Line, ToAlerter!qvars
    <3>. QED
      BY <2>1, <3>1, <3>2, <3>3, <3>4, <3>5 DEF QStep
  <2>3. ToWriter!QNext \/ UNCHANGED ToWriter!qvars
    <3>1. CASE offered' = offered + 1 /\ QW' \in {QW, Append(QW, offered')} /\ seenW' = seenW
      BY <3>1 DEF QW, Line, ToWriter!QNext, ToWriter!Offer
    <3>2. CASE QW # <<>> /\ seenW' = Append(seenW, Head(QW)) /\ QW' = Tail(QW) /\ offered' = offered
      BY <3>2 DEF QW, Line, ToWriter!QNext, ToWriter!Deliver
    <3>3. CASE (\E i \in DOMAIN QW : QW' = RemoveAt(QW, i)) /\ offered' = offered /\ seenW' = seenW
      BY <3>3 DEF QW, Line, ToWriter!QNext, ToWriter!Lose, RemoveAt, ToWriter!RemoveAt
    <3>4. CASE QW' = <<>> /\ offered' = offered /\ seenW' = seenW
      BY <3>4 DEF QW, Line, ToWriter!QNext, ToWriter!LoseAll
    <3>5. CASE QW' = QW /\ offered' = offered /\ seenW' = seenW
      BY <3>5 DEF QW, Line, ToWriter!qvars
    <3>. QED
      BY <2>1, <3>1, <3>2, <3>3, <3>4, <3>5 DEF QStep
  <2>. QED
    BY <2>2, <2>3
<1>. QED
  BY <1>1, <1>2, TypeInvariant, PTL DEF Spec, ChannelsServe, ToAlerter!QSpec, ToWriter!QSpec
=============================================================================
