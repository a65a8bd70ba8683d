--------------------------- MODULE MCOsdLifecycle ---------------------------
(* Two OSDs, so that there can be two clocks, two connections besides the  *)
(* video, and two calls, which may be a stop and a restart, or two         *)
(* restarts of which the second follows the failure of the first's clock.  *)
(* Five identities are enough for every thread that can be started.        *)
EXTENDS OsdLifecycle
=============================================================================
