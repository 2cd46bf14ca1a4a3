---------------------------- MODULE MCHostSession ----------------------------
(* Small instances of HostSession for TLC. *)
EXTENDS HostSession, TLC

Perms == Permutations(Requests) \cup Permutations(BootTokens) \cup Permutations(Sessions)
=============================================================================
