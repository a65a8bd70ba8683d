---------------------------- MODULE MCThreadPool ----------------------------
(* At most two workers, four thread ids and four tasks: more tasks than    *)
(* workers, and one id beyond the bound on threads_.                       *)
EXTENDS ThreadPool
=============================================================================
