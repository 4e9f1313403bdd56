--------------------------- MODULE MCRebootSched ---------------------------
(* Instances of RebootSched for TLC: a week of two short days.             *)
EXTENDS RebootSched, TLC

\* A plan that is due every day, in a window that wraps around midnight, and
\* one that is due one day in two.
MCTwoPlans == {[days |-> {0, 1}, hhmm |-> DayLen - 1], [days |-> {1}, hhmm |-> 1]}
=============================================================================
