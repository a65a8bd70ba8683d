--------------------------- MODULE MCStorageFolder ---------------------------
(* Folder limits for the runs: a number of files or a percentage.          *)
EXTENDS StorageFolder

LimitOne == [f \in Folders |-> 1]
LimitHalf == [f \in Folders |-> 50]

(* The model ends where a second scan thread is made.                      *)
OneScan == ~doubled
==============================================================================
