------------------------- MODULE AtomicKeyValueStore -------------------------
(***************************************************************************)
(* The atomic store of packages/store, which holds every durable record of *)
(* the agent and of the Codex profiles: a map of keys to values, each with *)
(* an optional time to live, changed only by transactions that check a     *)
(* list of conditions and write a list of mutations in one step.           *)
(*                                                                         *)
(* Time is what is left of it: an entry carries the number of ticks before *)
(* it expires, so "the entry's expiresAt lies in the future" reads         *)
(* "ttl > 0", and a clock that advances is Aged.                           *)
(***************************************************************************)
EXTENDS Naturals

CONSTANT Nil    \* no value, and no time to live

(* An entry of the map; a key that is not in the map holds Gone.           *)
Put(value, ttl) == [value |-> value, ttl |-> ttl]

Gone == Put(Nil, Nil)

(* The value a transaction sees under a key: expired entries are out.      *)
Read(db, key) == db[key].value

(***************************************************************************)
(* A transaction.  The schema refuses two conditions, or two mutations, on *)
(* one key, so both lists are functions of the keys they name: a condition *)
(* expects a value, or Nil for Absent; a mutation puts an entry, or Gone   *)
(* for Remove.                                                             *)
(***************************************************************************)
Transaction(conditions, mutations) ==
  [conditions |-> conditions, mutations |-> mutations]

Holds(db, txn) ==
  \A key \in DOMAIN txn.conditions : Read(db, key) = txn.conditions[key]

Written(db, txn) ==
  [key \in DOMAIN db |->
     IF key \in DOMAIN txn.mutations THEN txn.mutations[key] ELSE db[key]]

(* What a transaction answers, and what it leaves behind.                  *)
Outcome(db, txn) == IF Holds(db, txn) THEN "applied" ELSE "conflict"

Transacted(db, txn) == IF Holds(db, txn) THEN Written(db, txn) ELSE db

(* One unit of time: an entry on its last tick expires.                    *)
Aged(db) ==
  [key \in DOMAIN db |->
     IF db[key].ttl = Nil THEN db[key]
     ELSE IF db[key].ttl = 1 THEN Gone
     ELSE Put(db[key].value, db[key].ttl - 1)]

=============================================================================
