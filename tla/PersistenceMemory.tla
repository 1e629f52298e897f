-------------------------- MODULE PersistenceMemory --------------------------
(***************************************************************************)
(* The memory layer of the store, which names the time at which an entry   *)
(* expires and drops expired entries whenever it is used; and what it      *)
(* amounts to in the terms of AtomicKeyValueStore, where an entry carries  *)
(* what is left of its time.                                               *)
(* Source: packages/store/src/memory.layer.ts.                             *)
(*                                                                         *)
(* The state is a function of the keys that are in the map.  An operator   *)
(* returns the state that modify leaves; now is the time of the call.      *)
(***************************************************************************)
EXTENDS AtomicKeyValueStore

MemoryEntry(value, expiresAt) == [value |-> value, expiresAt |-> expiresAt]

MemoryState(Keys, Values) ==
  UNION {[held -> [value : Values, expiresAt : Nat \cup {Nil}]] : held \in SUBSET Keys}

WithoutExpiredEntries(state, now) ==
  [key \in {k \in DOMAIN state : state[k].expiresAt # Nil => state[k].expiresAt > now} |->
     state[key]]

-----------------------------------------------------------------------------
(* transact.                                                               *)

MemoryHolds(live, txn) ==
  \A key \in DOMAIN txn.conditions :
    IF txn.conditions[key] = Nil THEN key \notin DOMAIN live
    ELSE key \in DOMAIN live /\ live[key].value = txn.conditions[key]

Removed(txn) == {key \in DOMAIN txn.mutations : txn.mutations[key] = Gone}

MemoryWritten(live, txn, now) ==
  [key \in (DOMAIN live \cup DOMAIN txn.mutations) \ Removed(txn) |->
     IF key \in DOMAIN txn.mutations
     THEN MemoryEntry(txn.mutations[key].value,
                      IF txn.mutations[key].ttl = Nil THEN Nil
                      ELSE now + txn.mutations[key].ttl)
     ELSE live[key]]

MemoryOutcome(state, txn, now) ==
  IF MemoryHolds(WithoutExpiredEntries(state, now), txn) THEN "applied" ELSE "conflict"

MemoryTransacted(state, txn, now) ==
  LET live == WithoutExpiredEntries(state, now)
  IN IF MemoryHolds(live, txn) THEN MemoryWritten(live, txn, now) ELSE live

-----------------------------------------------------------------------------
(* The native store beside it: set and remove leave expired entries where  *)
(* they are, get returns Nil for undefined.                                *)

MemoryGet(state, key, now) ==
  LET live == WithoutExpiredEntries(state, now)
  IN IF key \in DOMAIN live THEN live[key].value ELSE Nil

MemorySet(state, key, value) ==
  [k \in DOMAIN state \cup {key} |->
     IF k = key THEN MemoryEntry(value, Nil) ELSE state[k]]

MemoryRemove(state, key) == [k \in DOMAIN state \ {key} |-> state[k]]

-----------------------------------------------------------------------------

(* The store that a state of the memory stands for.                        *)
Remaining(Keys, state, now) ==
  LET live == WithoutExpiredEntries(state, now)
  IN [key \in Keys |->
        IF key \notin DOMAIN live THEN Gone
        ELSE Put(live[key].value,
                 IF live[key].expiresAt = Nil THEN Nil ELSE live[key].expiresAt - now)]

=============================================================================
