-------------------------- MODULE AtomicStoreClient --------------------------
(***************************************************************************)
(* The atomic store as its callers see it over the network                 *)
(* (packages/store/src/upstash-layer.internal.ts): a transaction answers   *)
(* "applied" or "conflict", or it fails, and then the caller cannot know   *)
(* whether the script ran before the failure.                              *)
(*                                                                         *)
(* The Redis client (upstash.layer.ts:18) is built with its default        *)
(* retries: it sends a request again whose answer it has lost.  The caller *)
(* then gets the answer of the second run, "conflict" where the first has  *)
(* been applied and changed what the conditions ask for.  Both runs are    *)
(* one step here: nobody else acts between them.                           *)
(***************************************************************************)
EXTENDS AtomicKeyValueStore

CONSTANT MaxFaults      \* bound on the faults of a behaviour

VARIABLES
  db,         \* the atomic store
  faults      \* how many faults have happened

Result == {"applied", "conflict", "error"}

Fault == faults < MaxFaults /\ faults' = faults + 1

Transact(txn, result) ==
  \/ /\ result = Outcome(db, txn)
     /\ db' = Transacted(db, txn)
     /\ UNCHANGED faults
  \/ /\ result = "error"
     /\ Fault
     /\ db' \in {db, Transacted(db, txn)}
  \/ /\ Fault
     /\ Holds(db, txn)
     /\ db' = Written(db, txn)
     /\ result = Outcome(db', txn)

=============================================================================
