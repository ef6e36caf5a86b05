--------------------------- MODULE MCRefreshSessions ---------------------------
(* Small instances of RefreshSessions for TLC. *)
EXTENDS RefreshSessions, TLC

Interchangeable == Permutations(Requests) \cup Permutations(SessionIds)
=============================================================================
