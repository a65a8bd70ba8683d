-------------------------- MODULE MCVideoLifecycle --------------------------
(* One restart between the start and the stop, two changes of the snapshot *)
(* switch, so that it can be off for the join and on again for the next    *)
(* assignment, and one photo besides those of the snapshot thread.         *)
EXTENDS VideoLifecycle
=============================================================================
