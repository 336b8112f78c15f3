---- MODULE MCFieldRules ----
(* Bounds of the runs of FieldRules. *)
EXTENDS FieldRules, TLC

\* Changes are told apart by equality only.
Symmetry == Permutations(Changes)

====
