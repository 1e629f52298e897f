------------------------- MODULE ReversibleRetirement -------------------------
(***************************************************************************)
(* What the retirement of state rows promises: a stale row leaves the      *)
(* state only while an archive holds every stale row, the archive is       *)
(* replaced only while no row is missing, and what left can come back.     *)
(***************************************************************************)
CONSTANTS Stale

VARIABLES
  live,  \* the stale rows in the state
  kept   \* the stale rows the archive can give back

Init == live = Stale /\ kept \subseteq Stale

Archive == live = Stale /\ kept' \subseteq Stale /\ UNCHANGED live

Remove == kept = Stale /\ (\E row \in live : live' = live \ {row}) /\ UNCHANGED kept

Return == (\E row \in kept : live' = live \cup {row}) /\ UNCHANGED kept

Next == Archive \/ Remove \/ Return

Spec == Init /\ [][Next]_<<live, kept>>
=============================================================================
