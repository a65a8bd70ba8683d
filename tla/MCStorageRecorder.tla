-------------------------- MODULE MCStorageRecorder --------------------------
(* The storage is initialised twice, with two device events and one RPC    *)
(* call. No property says anything of a behaviour after a message was      *)
(* handled while the control thread was busy, so TLC does not follow one.  *)
EXTENDS StorageRecorder

BeforeRace == ~raced
==============================================================================
