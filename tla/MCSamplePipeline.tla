-------------------------- MODULE MCSamplePipeline --------------------------
(* Instances of SamplePipeline for TLC: a worker that was stopped and its      *)
(* successor, both of one device, and the worker of another.                   *)
EXTENDS SamplePipeline, TLC

CONSTANTS p1, p2, p3

OneReplaced == p1 :> "d1" @@ p2 :> "d1" @@ p3 :> "d2"
=============================================================================
