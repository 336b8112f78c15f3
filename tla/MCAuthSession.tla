---- MODULE MCAuthSession ----
(* Bounds of the runs of AuthSession. *)
EXTENDS AuthSession, TLC

\* Users and slots are interchangeable: only equality tells them apart.
Symmetry == Permutations(Users) \union Permutations(Calls)

\* The default on both storages, each option turned off, and a token that comes
\* without a refresh token at the start and later.
Default == [storage |-> "sync", autoRefreshToken |-> TRUE, refreshExpiredToken |-> TRUE, bare |-> {}]
MCOptions == {Default,
              [Default EXCEPT !.storage = "async"],
              [Default EXCEPT !.refreshExpiredToken = FALSE],
              [Default EXCEPT !.autoRefreshToken = FALSE, !.bare = {2}],
              [Default EXCEPT !.storage = "async", !.bare = {1}]}

====
