--------------------------- MODULE MCStateMigration ---------------------------
(* A small instance of StateMigration: the accepted manifest, one with     *)
(* another digest, and one of another size.                                *)
EXTENDS StateMigration

CONSTANTS s1, s2, r1, n1

MCManifest ==
  {[digest |-> "a", resources |-> {r1, n1}],
   [digest |-> "b", resources |-> {r1, n1}],
   [digest |-> "c", resources |-> {r1}]}
=============================================================================
