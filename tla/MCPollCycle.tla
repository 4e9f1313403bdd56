----------------------------- MODULE MCPollCycle -----------------------------
(* An instance of PollCycle for TLC.                                       *)
EXTENDS PollCycle

\* All strategies are alike; the first and the last lack the bytes of 2.
MCReplies == {[s \in Strategies |-> {1, 2}],
              [s \in Strategies |-> IF s = 2 THEN {1, 2} ELSE {1}]}
\* States that differ only in maps that nobody refers to any more are alike:
\* no guard and no property reads such a map.
InUse == [k \in {held} \cup {map[w] : w \in Workers} |-> IF k = 0 THEN <<>> ELSE maps[k]]
Live == <<router, started, held, Cardinality(DOMAIN maps), InUse, workerVars, last>>
=============================================================================
