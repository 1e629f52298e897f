-------------------------- MODULE MCChannelOutbound --------------------------
(* Small instances of ChannelOutbound, and of the memory layer of the      *)
(* store it runs on.                                                       *)
EXTENDS ChannelOutbound, PersistenceMemory, TLC

Interchangeable == Permutations(Attempt) \cup Permutations(Event)

-----------------------------------------------------------------------------
(* The states of a map and the transactions over two keys.                 *)
SmallState ==
  UNION {[held -> [value : {"x", "y"}, expiresAt : 0..2 \cup {Nil}]]
           : held \in SUBSET {"a", "b"}}

SmallTransaction ==
  [conditions : [{"a"} -> {"x", Nil}],
   mutations  : UNION {[named -> [value : {"y"}, ttl : {1, Nil}] \cup {Gone}]
                         : named \in SUBSET {"a", "b"}}]

(* The memory layer answers, leaves, shows and ages what the store does;   *)
(* MemoryIsTheStore proves it for all keys, values and times.              *)
ASSUME MemoryIsTheStoreInSmall ==
  \A state \in SmallState, now \in 0..1 :
    \E store \in {Remaining({"a", "b"}, state, now)} :
      /\ \A txn \in SmallTransaction :
           /\ MemoryOutcome(state, txn, now) = Outcome(store, txn)
           /\ Remaining({"a", "b"}, MemoryTransacted(state, txn, now), now) =
                Transacted(store, txn)
      /\ \A key \in {"a", "b"} : MemoryGet(state, key, now) = Read(store, key)
      /\ Remaining({"a", "b"}, state, now + 1) = Aged(store)

(* set and remove are transactions without conditions.                     *)
ASSUME NativeWritesInSmall ==
  \A state \in SmallState, now \in 0..1, key \in {"a", "b"} :
    \A entry \in {Put("y", Nil), Gone} :
      Remaining({"a", "b"}, IF entry = Gone THEN MemoryRemove(state, key)
                            ELSE MemorySet(state, key, "y"), now) =
        Transacted(Remaining({"a", "b"}, state, now),
                   Transaction([k \in {} |-> Nil], [k \in {key} |-> entry]))
=============================================================================
