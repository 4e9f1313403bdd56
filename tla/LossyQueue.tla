------------------------------ MODULE LossyQueue ------------------------------
(* What a consumer of samples is promised: of the samples offered, those it    *)
(* gets come in the order in which they were offered, each at most once.       *)
(* Samples are numbered as they are offered.  Any of them may be lost.         *)
EXTENDS Naturals, Sequences, SequencesExt

VARIABLES offered,  \* how many samples were offered
          queue,    \* those under way
          got       \* those delivered

qvars == <<offered, queue, got>>

QInit == offered = 0 /\ queue = <<>> /\ got = <<>>

Offer ==
    /\ offered' = offered + 1
    /\ queue' \in {queue, Append(queue, offered')}
    /\ UNCHANGED got

Deliver ==
    /\ queue # <<>>
    /\ got' = Append(got, Head(queue))
    /\ queue' = Tail(queue)
    /\ UNCHANGED offered

Lose ==
    /\ \E i \in DOMAIN queue : queue' = RemoveAt(queue, i)
    /\ UNCHANGED <<offered, got>>

\* The process stops.
LoseAll == queue' = <<>> /\ UNCHANGED <<offered, got>>

QNext == Offer \/ Deliver \/ Lose \/ LoseAll

QSpec == QInit /\ [][QNext]_qvars

\* In order, and at most once.
InOrder ==
    LET s == got \o queue
    IN  \A i, j \in DOMAIN s : i < j => s[i] < s[j]
=============================================================================
