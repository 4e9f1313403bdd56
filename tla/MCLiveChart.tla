----------------------------- MODULE MCLiveChart -----------------------------
(* An instance of LiveChart for TLC: a server west of, at, and east of UTC. *)
EXTENDS LiveChart

MCZones == {-2, 0, 2}
=============================================================================
