----------------------------- MODULE MCRknnPool -----------------------------
(* Two models and workers, a frame submitted every second iteration, and   *)
(* a channel deep enough for four submissions: every model is used again.  *)
EXTENDS RknnPool
=============================================================================
