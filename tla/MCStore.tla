------------------------------- MODULE MCStore -------------------------------
(* Instances of DeviceTables for TLC: the databases are chosen here.       *)
EXTENDS DeviceTables

At2(r, m) == [ran |-> r, marked |-> m]

\* A new database; one of before the marks; one of each version that marked;
\* and those whose files an early version marked without running them.
MCOrigins == {At2(0, 0), At2(2, 0), At2(3, 3), At2(4, 4), At2(5, 5),
              At2(2, 3), At2(2, 4), At2(3, 4)}

\* Those that an early version left with marks for files it did not run.
Legacy == {At2(2, 3), At2(2, 4), At2(3, 4)}
=============================================================================
