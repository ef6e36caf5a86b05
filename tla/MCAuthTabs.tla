------------------------------- MODULE MCAuthTabs -------------------------------
(* Small instances of AuthTabs for TLC. *)
EXTENDS AuthTabs, TLC

Interchangeable == Permutations(Tabs) \cup Permutations(Users)
=============================================================================
