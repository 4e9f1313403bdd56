-------------------------------- MODULE MCHub --------------------------------
(* Instances of Hub for TLC: the kinds of broadcast are chosen here.        *)
EXTENDS Hub

Light == {"status", "sample"}
StatusOnly == {"status"}
=============================================================================
