---- MODULE MCStorageObjects ----
(* Bounds of the runs of StorageObjects. *)
EXTENDS StorageObjects, TLC

\* Names and slots are told apart by equality only.
Symmetry == Permutations(Names) \union Permutations(Requests)

====
