---- MODULE MCWorkerDeploy ----
(* Bounds of the runs of WorkerDeploy. *)
EXTENDS WorkerDeploy, TLC

\* Modules and slots are told apart by equality only.
Symmetry == Permutations(Modules) \union Permutations(Requests)

====
