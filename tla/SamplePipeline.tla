---------------------------- MODULE SamplePipeline ----------------------------
(***************************************************************************)
(* The way of a sample: storeSample of a poll worker puts it in the cache  *)
(* of latest samples and offers it to the channel "samples"; the fan-out   *)
(* goroutine of main offers it to the channels of the alerter and of the   *)
(* writer; SampleWriter collects what it receives and inserts it into the  *)
(* database in batches, each in one transaction.  No send on the way       *)
(* blocks: a full channel loses the sample.                                *)
(*                                                                         *)
(* Samples are numbered in the order in which they are offered.  Of its    *)
(* data a sample keeps the device and the moment it was taken.             *)
(***************************************************************************)
EXTENDS Naturals, Sequences, SequencesExt

CONSTANTS
    Producers,     \* poll workers
    DeviceOf,      \* the device that each of them polls
    SamplesCap, AlerterCap, WriterCap,  \* capacities of the channels
    BatchSize,     \* the buffer length at which SampleWriter flushes
    MaxSamples,    \* bound: samples taken in a behaviour
    MaxFaults      \* bound: batches that fail without a cause in the data

Devices == {DeviceOf[p] : p \in Producers}
NoSample == [n |-> 0, dev |-> "none", at |-> 0]

ASSUME PipelineAssumption ==
    /\ DeviceOf \in [Producers -> Devices]
    /\ \A c \in {SamplesCap, AlerterCap, WriterCap, BatchSize} : c \in Nat \ {0}
    /\ MaxSamples \in Nat /\ MaxFaults \in Nat

VARIABLES
    taken, offered,     \* samples taken, and samples offered to "samples"
    ppc, hand,          \* where a producer is, and the sample it has taken
    latest,             \* Manager.latest: when the cached sample was taken
    samples, alerterCh, writerCh,
    fpc, fhand,         \* the fan-out goroutine and the sample it holds
    buffer,             \* SampleWriter.buffer
    db,                 \* the rows of traffic_samples, by id; no id is given out
                        \*   twice, and NoSample is where a row was deleted
    exists,             \* the devices that have a row
    faults,
    seenA, seenW,       \* history: numbers received by alerter and writer
    takenBy,            \* history: the worker that took each sample
    newest              \* history: the newest sample cached since the start

prodVars  == <<taken, ppc, hand, latest, takenBy, newest>>
dbVars    == <<db, exists, faults>>
vars == <<offered, prodVars, samples, alerterCh, writerCh, fpc, fhand, buffer,
          dbVars, seenA, seenW>>

Init ==
    /\ taken = 0 /\ offered = 0
    /\ ppc = [p \in Producers |-> "poll"]
    /\ hand = [p \in Producers |-> NoSample]
    /\ latest = [d \in Devices |-> 0]
    /\ samples = <<>> /\ alerterCh = <<>> /\ writerCh = <<>>
    /\ fpc = "receive" /\ fhand = NoSample
    /\ buffer = <<>> /\ db = <<>>
    /\ exists = Devices
    /\ faults = 0
    /\ seenA = <<>> /\ seenW = <<>>
    /\ takenBy = <<>> /\ newest = latest

\* A send in a select with an empty default.
Offered(ch, cap, s) == IF Len(ch) < cap THEN Append(ch, s) ELSE ch

-----------------------------------------------------------------------------
(* The poll workers.                                                       *)

\* pollOnce takes the time of a sample and then lets go of the lock.
TakeSample(p) ==
    /\ ppc[p] = "poll"
    /\ taken < MaxSamples
    /\ taken' = taken + 1
    /\ hand' = [hand EXCEPT ![p] = [n |-> 0, dev |-> DeviceOf[p], at |-> taken']]
    /\ ppc' = [ppc EXCEPT ![p] = "cache"]
    /\ takenBy' = Append(takenBy, p)
    /\ UNCHANGED <<offered, latest, newest, samples, alerterCh, writerCh, fpc, fhand,
                   buffer, dbVars, seenA, seenW>>

\* The critical section of storeSample.
CacheSample_skipped(p) ==
    /\ ppc[p] = "cache"
    /\ ppc' = [ppc EXCEPT ![p] = "send"]
    /\ UNCHANGED <<offered, taken, hand, latest, takenBy, newest, samples, alerterCh,
                   writerCh, fpc, fhand, buffer, dbVars, seenA, seenW>>
CacheSample(p) ==
    /\ ppc[p] = "cache"
    /\ LET d == DeviceOf[p] IN
       /\ latest' = [latest EXCEPT ![d] = hand[p].at]
       /\ newest' = [newest EXCEPT ![d] = IF @ < hand[p].at THEN hand[p].at ELSE @]
    /\ ppc' = [ppc EXCEPT ![p] = "send"]
    /\ UNCHANGED <<offered, taken, hand, takenBy, samples, alerterCh, writerCh, fpc,
                   fhand, buffer, dbVars, seenA, seenW>>

\* Its send, which does not block.
SendSample(p) ==
    /\ ppc[p] = "send"
    /\ offered' = offered + 1
    /\ samples' = Offered(samples, SamplesCap, [hand[p] EXCEPT !.n = offered'])
    /\ hand' = [hand EXCEPT ![p] = NoSample]
    /\ ppc' = [ppc EXCEPT ![p] = "poll"]
    /\ UNCHANGED <<taken, latest, takenBy, newest, alerterCh, writerCh, fpc, fhand,
                   buffer, dbVars, seenA, seenW>>

-----------------------------------------------------------------------------
(* The fan-out goroutine of main.                                          *)

FanReceive ==
    /\ fpc = "receive"
    /\ samples # <<>>
    /\ fhand' = Head(samples)
    /\ samples' = Tail(samples)
    /\ fpc' = "alerter"
    /\ UNCHANGED <<offered, prodVars, alerterCh, writerCh, buffer, dbVars, seenA, seenW>>

FanToAlerter_blocks ==
    /\ fpc = "alerter"
    /\ Len(alerterCh) < AlerterCap
    /\ alerterCh' = Append(alerterCh, fhand)
    /\ fpc' = "writer"
    /\ UNCHANGED <<offered, prodVars, samples, writerCh, fhand, buffer, dbVars, seenA, seenW>>
FanToAlerter ==
    /\ fpc = "alerter"
    /\ alerterCh' = Offered(alerterCh, AlerterCap, fhand)
    /\ fpc' = "writer"
    /\ UNCHANGED <<offered, prodVars, samples, writerCh, fhand, buffer, dbVars, seenA, seenW>>

FanToWriter_retries ==
    /\ fpc = "writer"
    /\ writerCh' = Offered(writerCh, WriterCap, fhand)
    /\ UNCHANGED <<offered, prodVars, samples, alerterCh, fpc, fhand, buffer, dbVars, seenA, seenW>>
FanToWriter ==
    /\ fpc = "writer"
    /\ writerCh' = Offered(writerCh, WriterCap, fhand)
    /\ fhand' = NoSample
    /\ fpc' = "receive"
    /\ UNCHANGED <<offered, prodVars, samples, alerterCh, buffer, dbVars, seenA, seenW>>

\* The alerter takes a sample; what it makes of it is module Alerter.
AlerterReceive ==
    /\ alerterCh # <<>>
    /\ seenA' = Append(seenA, Head(alerterCh).n)
    /\ alerterCh' = Tail(alerterCh)
    /\ UNCHANGED <<offered, prodVars, samples, writerCh, fpc, fhand, buffer, dbVars, seenW>>

-----------------------------------------------------------------------------
(* SampleWriter.                                                           *)

\* InsertTrafficSamplesBatch: one transaction for the whole batch, which fails
\* when one of the rows refers to a device that is gone.
Insert(batch) ==
    /\ \/ /\ \A i \in DOMAIN batch : batch[i].dev \in exists
          /\ db' = db \o batch
          /\ UNCHANGED faults
       \/ /\ \E i \in DOMAIN batch : batch[i].dev \notin exists
          /\ UNCHANGED <<db, faults>>
       \/ /\ faults < MaxFaults
          /\ faults' = faults + 1
          /\ UNCHANGED db
    /\ UNCHANGED exists

\* flush: the buffer is emptied whether the insert succeeds or not.
Flush_keeps(batch) == Insert(batch) /\ buffer' = SubSeq(batch, 2, Len(batch))
Flush(batch) == Insert(batch) /\ buffer' = <<>>

\* Whether the buffer has to be flushed at once.
Full(b) == Len(b) >= BatchSize

WriterReceive_dropsLast ==
    /\ writerCh # <<>>
    /\ writerCh' = Tail(writerCh)
    /\ seenW' = Append(seenW, Head(writerCh).n)
    /\ LET b == Append(buffer, Head(writerCh))
       IN  IF Full(b) THEN Flush(buffer) ELSE buffer' = b /\ UNCHANGED dbVars
    /\ UNCHANGED <<offered, prodVars, samples, alerterCh, fpc, fhand, seenA>>
WriterReceive ==
    /\ writerCh # <<>>
    /\ writerCh' = Tail(writerCh)
    /\ seenW' = Append(seenW, Head(writerCh).n)
    /\ LET b == Append(buffer, Head(writerCh))
       IN  IF Full(b) THEN Flush(b) ELSE buffer' = b /\ UNCHANGED dbVars
    /\ UNCHANGED <<offered, prodVars, samples, alerterCh, fpc, fhand, seenA>>

\* The 5 s ticker of SampleWriter.
WriterTick ==
    /\ buffer # <<>>
    /\ Flush(buffer)
    /\ UNCHANGED <<offered, prodVars, samples, alerterCh, writerCh, fpc, fhand, seenA, seenW>>

-----------------------------------------------------------------------------
\* deleteDevice removes the samples of the device with it.
DeleteDevice(d) ==
    /\ d \in exists
    /\ exists' = exists \ {d}
    /\ db' = [i \in DOMAIN db |-> IF db[i].dev = d THEN NoSample ELSE db[i]]
    /\ UNCHANGED <<offered, prodVars, samples, alerterCh, writerCh, fpc, fhand,
                   buffer, faults, seenA, seenW>>

\* The process stops and starts again: what was on its way is lost.
Restart ==
    /\ ppc' = [p \in Producers |-> "poll"]
    /\ hand' = [p \in Producers |-> NoSample]
    /\ latest' = [d \in Devices |-> 0] /\ newest' = latest'
    /\ samples' = <<>> /\ alerterCh' = <<>> /\ writerCh' = <<>>
    /\ fpc' = "receive" /\ fhand' = NoSample
    /\ buffer' = <<>>
    /\ faults < MaxFaults /\ faults' = faults + 1
    /\ UNCHANGED <<taken, offered, takenBy, db, exists, seenA, seenW>>

Next ==
    \/ \E p \in Producers : TakeSample(p) \/ CacheSample(p) \/ SendSample(p)
    \/ FanReceive \/ FanToAlerter \/ FanToWriter
    \/ AlerterReceive \/ WriterReceive \/ WriterTick
    \/ \E d \in Devices : DeleteDevice(d)
    \/ Restart

Spec == Init /\ [][Next]_vars

\* The fan-out and the writer run; the alerter may be busy with a
\* notification for ever, and is given no fairness.
Fairness ==
    /\ WF_vars(FanReceive) /\ WF_vars(FanToAlerter) /\ WF_vars(FanToWriter)
    /\ WF_vars(WriterReceive) /\ WF_vars(WriterTick)

FairSpec == Spec /\ Fairness

-----------------------------------------------------------------------------
(* Properties.                                                             *)

Samples == [n : 0 .. MaxSamples, dev : Devices, at : 0 .. MaxSamples]

TypeOK ==
    /\ taken \in 0 .. MaxSamples /\ offered \in 0 .. MaxSamples
    /\ ppc \in [Producers -> {"poll", "cache", "send"}]
    /\ hand \in [Producers -> Samples \cup {NoSample}]
    /\ latest \in [Devices -> 0 .. MaxSamples]
    /\ newest \in [Devices -> 0 .. MaxSamples]
    /\ takenBy \in Seq(Producers) /\ Len(takenBy) = taken
    /\ samples \in Seq(Samples) /\ Len(samples) <= SamplesCap
    /\ alerterCh \in Seq(Samples) /\ Len(alerterCh) <= AlerterCap
    /\ writerCh \in Seq(Samples) /\ Len(writerCh) <= WriterCap
    /\ fpc \in {"receive", "alerter", "writer"}
    /\ fhand \in IF fpc = "receive" THEN {NoSample} ELSE Samples
    /\ buffer \in Seq(Samples) /\ Len(buffer) < BatchSize
    /\ db \in Seq(Samples \cup {NoSample})
    /\ exists \subseteq Devices
    /\ faults \in 0 .. MaxFaults

Numbers(s) == [i \in DOMAIN s |-> s[i].n]
Held(pcs) == IF fpc \in pcs THEN <<fhand.n>> ELSE <<>>

\* Through both channels and the fan-out between them, the alerter and the
\* writer are each served like from one queue that may lose samples but keeps
\* their order and never repeats one.
ToAlerter == INSTANCE LossyQueue WITH
    queue <- Numbers(alerterCh) \o Held({"alerter"}) \o Numbers(samples),
    got <- seenA
ToWriter == INSTANCE LossyQueue WITH
    queue <- Numbers(writerCh) \o Held({"alerter", "writer"}) \o Numbers(samples),
    got <- seenW

ChannelsServe == ToAlerter!QSpec /\ ToWriter!QSpec

Rows == {i \in DOMAIN db : db[i] # NoSample}

\* The stored rows are in the order in which the samples were offered, each
\* sample is stored once, and only samples of existing devices are.
StoredOnce ==
    /\ \A i, j \in Rows : i < j => db[i].n < db[j].n
    /\ \A i \in Rows : db[i].dev \in exists

\* When nothing failed and no device was deleted, the writer stored all that
\* it received, but for what it still holds.
NothingForgotten ==
    faults = 0 /\ exists = Devices => Numbers(db \o buffer) = seenW

\* A stuck alerter holds up neither the fan-out nor the writer: a sample that
\* was accepted leaves the channels and the buffer.
InFlight(n) ==
    LET s == samples \o writerCh \o buffer IN
    (\E i \in DOMAIN s : s[i].n = n) \/ fhand.n = n
WriterNotHeldUp == \A n \in 1 .. MaxSamples : InFlight(n) ~> ~InFlight(n)

\* The snapshot that a subscribing client is given is "the latest samples"
\* (hub.go:19): a sample on its way to the alerter or the database was cached
\* before, or a newer one was; and the cache has fallen behind it only if another
\* worker of the device, stopped or its successor, cached a sample since.
CachedFirst ==
    LET s == samples \o alerterCh \o writerCh IN
    \A i \in DOMAIN s :
        LET c == latest[s[i].dev] IN
        /\ s[i].at <= newest[s[i].dev]
        /\ c < s[i].at => c > 0 /\ takenBy[c] # takenBy[s[i].at]
=============================================================================
