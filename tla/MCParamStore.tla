---------------------------- MODULE MCParamStore ----------------------------
(* Two connections, so that requests meet each other and the stop.         *)
EXTENDS ParamStore, TLC

Symmetry == Permutations(Conns)

(* Bound: where the properties say nothing any more, but for the types,    *)
(* the search ends: when requests have overlapped and the parameters are   *)
(* damaged too, and with the first request of the last process after       *)
(* damage.                                                                 *)
Telling ==
  /\ ~(hist.overlap /\ (hist.damage \/ hist.odd))
  /\ ~(hist.damage /\ hist.end = "none" /\ count.boot = MaxBoots)
=============================================================================
