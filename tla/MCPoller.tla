------------------------------ MODULE MCPoller ------------------------------
(* Instances of Poller for TLC: model values and symmetry.                 *)
EXTENDS Poller, TLC

\* Workers and hosts are interchangeable; sound for the safety runs only.
Symmetry == Permutations(Workers) \cup Permutations(Hosts)

\* The liveness runs start from a device that is configured but disabled.
ConfiguredInit ==
    Init /\ \A d \in Devices : row[d].life = "disabled" /\ row[d].ifaces
ConfiguredSpec == ConfiguredInit /\ [][Next]_vars /\ Fairness

\* No guard, fairness condition or liveness property reads the history
\* variables, so the liveness runs identify states that differ only in them.
NoHistory == <<dbVars, tableVars, workerVars, syncVars>>
=============================================================================
