-------------------------- MODULE MCRealtimeClient --------------------------
(* TLC instance of RealtimeClient. *)
EXTENDS RealtimeClient, TLC

CONSTANTS c1, c2, s1, s2, anon, user

MCChannels == {c1, c2}
MCSockets  == {s1, s2}
MCTokens   == {anon, user}
MCSymmetry == Permutations(MCChannels) \cup Permutations(MCSockets) \cup Permutations(MCTokens)
=============================================================================
