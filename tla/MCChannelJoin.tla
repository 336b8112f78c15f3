--------------------------- MODULE MCChannelJoin ---------------------------
(* TLC instance of ChannelJoin. *)
EXTENDS ChannelJoin, TLC

CONSTANTS h1, h2, tasks, notes, broken, peer

MCHandles    == {h1, h2}
MCTargets    == {tasks, notes, broken}
MCTwoTargets == {tasks, notes}
MCUnreadable == {broken}
MCPeers      == {peer}
MCNobody     == {}
MCSymmetry   == Permutations(MCHandles)
=============================================================================
