------------------------------ MODULE MCAlerter ------------------------------
(* Instances of Alerter for TLC: an interface of a router, whose row may be    *)
(* deleted and created anew under another id.                                  *)
EXTENDS Alerter, TLC

CONSTANTS i1, i2

OneLink == {<<"d1", "ether1">>}

Text(i, dir, cond, dur, cool) ==
    [dev |-> "d1", iface |-> i, direction |-> dir, condition |-> cond,
     threshold |-> IF cond = "above" THEN 0 ELSE 1, duration |-> dur, cooldown |-> cool]

\* A rule on one interface and a rule on all.
Mixed == {Text(i1, "tx", "below", 2, 1), Text(All, "both", "above", 1, 1)}

Levels == {[tx |-> 0, rx |-> 0], [tx |-> 1, rx |-> 0]}
=============================================================================
