---------------------------- MODULE MCCodexRefresh ----------------------------
(* Small instances of CodexRefresh.                                        *)
EXTENDS CodexRefresh, TLC

Interchangeable == Permutations(Caller) \cup Permutations(Login)
=============================================================================
