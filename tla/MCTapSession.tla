---- MODULE MCTapSession ----
(* The bounds of the runs of TapSession are in their configurations. *)
EXTENDS TapSession
====
