----------------------------- MODULE MCCodexLogin -----------------------------
(* Small instances of CodexLogin.                                          *)
EXTENDS CodexLogin, TLC
=============================================================================
