------------------------ MODULE ChannelOutbound_proofs ------------------------
(***************************************************************************)
(* Proofs about ChannelOutbound, for any number of events, attempts and    *)
(* faults: what holds whether or not leases lapse and answers are clear,   *)
(* and then what a punctual deployment adds.                               *)
(***************************************************************************)
EXTENDS ChannelOutbound, PersistenceMemory, TLAPS, FiniteSetTheorems

(* Whatever a transaction answers, the store is as it was, or all of the   *)
(* conditions held and all of the mutations were written; an answer        *)
(* "applied" means the latter, any other one may hide either (transact of  *)
(* upstash-layer.internal.ts).                                             *)
LEMMA TransactionIsAtomic ==
  ASSUME NEW txn, NEW result, Transact(txn, result)
  PROVE  /\ db' = db \/ (Holds(db, txn) /\ db' = Written(db, txn))
         /\ result = "applied"  => Holds(db, txn) /\ db' = Written(db, txn)
BY DEF Transact, Outcome, Transacted

(* A store of well-formed entries is well-formed after a transaction whose *)
(* mutations are well-formed.                                              *)
LEMMA WrittenIsTyped ==
  ASSUME NEW Keys, NEW Entries,
         db \in [Keys -> Entries],
         NEW txn,
         \A key \in DOMAIN txn.mutations : txn.mutations[key] \in Entries
  PROVE  Written(db, txn) \in [Keys -> Entries]
BY DEF Written

(* Time leaves well-formed entries well-formed: what is left of one is     *)
(* never zero.                                                             *)
LEMMA AgedIsTyped ==
  ASSUME NEW Keys, NEW Values,
         db \in [Keys -> [value : Values, ttl : Nat \ {0}] \cup {Gone}]
  PROVE  Aged(db) \in [Keys -> [value : Values, ttl : Nat \ {0}] \cup {Gone}]
<1> DEFINE Entries == [value : Values, ttl : Nat \ {0}]
<1>1. ASSUME NEW key \in Keys
      PROVE  Aged(db)[key] \in Entries \cup {Gone}
  <2>1. Aged(db)[key] = IF db[key].ttl = Nil THEN db[key]
                        ELSE IF db[key].ttl = 1 THEN Gone
                        ELSE Put(db[key].value, db[key].ttl - 1)
    BY DEF Aged
  <2>2. CASE db[key] \in Entries
    BY <2>1, <2>2 DEF Put
  <2>3. CASE db[key] = Gone
    BY <2>1, <2>3 DEF Gone, Put
  <2> QED
    BY <2>2, <2>3
<1> QED
  BY <1>1 DEF Aged

(* Time changes a value only by taking away an entry on its last tick.     *)
LEMMA AgingKeepsValues ==
  ASSUME NEW key \in DOMAIN db, db' = Aged(db)
  PROVE  \/ db'[key].value = db[key].value
         \/ db[key].ttl = 1 /\ db'[key] = Gone
BY DEF Aged, Put

(* What a transaction leaves under one key.                                *)
LEMMA WrittenAt ==
  ASSUME NEW txn, NEW key \in DOMAIN db
  PROVE  Written(db, txn)[key] =
           IF key \in DOMAIN txn.mutations THEN txn.mutations[key] ELSE db[key]
BY DEF Written

AttemptType == [Attempt -> [pc : Sending \cup Settling \cup
                                   {"idle", "claim", "done", "dead"},
                            event : Event \cup {Nil},
                            answer : Answer \cup {Nil},
                            result : Report \cup {Nil}]]

(* An attempt goes on, with an answer of the provider or without.          *)
Moves(a, point) == Go(a, point) \/ \E answer \in Answer : Hear(a, answer, point)

PostType == [Attempt -> {"none", "inflight", "delivered", "refused"}]

(* An attempt that acts for an event has one, has not sent before it posts, *)
(* and settles or reports as accepted only what the provider delivered.    *)
Causal(a) ==
  /\ attempt[a].pc # "idle" => attempt[a].event \in Event
  /\ attempt[a].pc \in {"idle", "claim", "claimed"} => post[a] = "none"
  /\ attempt[a].pc = "complete" => post[a] = "delivered"
  /\ attempt[a].result = "sendAccepted" => attempt[a].pc = "done" /\ post[a] = "delivered"

RecordsDelivered ==
  \A e \in Event : Read(db, OutboundKey(e)) = "complete" => Delivered(e) # {}

Inv ==
  /\ TypeOK
  /\ \A a \in Attempt : Causal(a)
  /\ RecordsDelivered

LEMMA KeysAreDistinct == \A e, f : OutboundKey(e) = OutboundKey(f) => e = f
BY DEF OutboundKey

LEMMA Initially == Init => Inv
<1> SUFFICES ASSUME Init PROVE Inv
  OBVIOUS
<1>1. TypeOK
  BY OutboundAssumption DEF Init, TypeOK
<1>2. ASSUME NEW a \in Attempt
      PROVE  Causal(a)
  BY UnreportedAssumption DEF Init, Causal, Report
<1>3. RecordsDelivered
  BY OutboundAssumption DEF Init, RecordsDelivered, Key, Read, Gone, Put, ReplayStatus
<1> QED
  BY <1>1, <1>2, <1>3 DEF Inv

-----------------------------------------------------------------------------
(* The steps of attempts and of the provider.                              *)

(* What a step leaves of an attempt and of its message at the provider.    *)
Stepped ==
  /\ attempt' \in AttemptType
  /\ post' \in PostType
  /\ \A a \in Attempt : Causal(a)'
  /\ \A a \in Attempt : post[a] = "delivered" =>
       post'[a] = "delivered" /\ attempt'[a].event = attempt[a].event

(* An attempt that moves or returns, with nothing new at the provider.     *)
LEMMA MovesAreCausal ==
  ASSUME Inv, NEW a \in Attempt, attempt[a].pc \notin {"idle", "done"}, UNCHANGED post,
         \/ \E point \in (Sending \cup Settling \cup {"dead"}) :
              /\ Moves(a, point)
              /\ point = "claimed"  => post[a] = "none"
              /\ point = "complete" => post[a] = "delivered"
         \/ \E result \in Report :
              /\ Return(a, result)
              /\ result = "sendAccepted" => post[a] = "delivered"
  PROVE  Stepped
<1>1. attempt \in AttemptType /\ post \in PostType
  BY DEF Inv, TypeOK, AttemptType, PostType
<1>2. ASSUME NEW point \in (Sending \cup Settling \cup {"dead"}), Moves(a, point),
             point = "claimed"  => post[a] = "none",
             point = "complete" => post[a] = "delivered"
      PROVE  Stepped
  <2>1. attempt' \in AttemptType
    <3>1. ASSUME NEW answer \in Answer
          PROVE  [attempt[a] EXCEPT !.pc = point, !.answer = answer] \in
                   [pc : Sending \cup Settling \cup {"idle", "claim", "done", "dead"},
                    event : Event \cup {Nil}, answer : Answer \cup {Nil},
                    result : Report \cup {Nil}]
      BY <1>1 DEF AttemptType
    <3>2. CASE Go(a, point)
      BY <1>1, <3>2 DEF Go, AttemptType
    <3>3. CASE \E answer \in Answer : Hear(a, answer, point)
      <4>1. PICK answer \in Answer : Hear(a, answer, point)
        BY <3>3
      <4> DEFINE heard == [attempt[a] EXCEPT !.pc = point, !.answer = answer]
      <4>2. attempt' = [attempt EXCEPT ![a] = heard]
        BY <4>1 DEF Hear
      <4>3. heard \in [pc : Sending \cup Settling \cup {"idle", "claim", "done", "dead"},
                       event : Event \cup {Nil}, answer : Answer \cup {Nil},
                       result : Report \cup {Nil}]
        BY <3>1
      <4> HIDE DEF heard
      <4> QED
        BY <1>1, <4>2, <4>3 DEF AttemptType
    <3> QED
      BY <1>2, <3>2, <3>3 DEF Moves
  <2>2. ASSUME NEW b \in Attempt
        PROVE  /\ attempt'[b].event = attempt[b].event
               /\ attempt'[b].result = attempt[b].result
               /\ attempt'[b].pc = IF b = a THEN point ELSE attempt[b].pc
    BY <1>1, <1>2 DEF Moves, Go, Hear, AttemptType
  <2>3. ASSUME NEW b \in Attempt
        PROVE  Causal(b)'
    <3>1. Causal(b)
      BY DEF Inv
    <3> QED
      BY <3>1, <1>2, <2>2 DEF Causal, Sending, Settling
  <2> QED
    BY <1>1, <2>1, <2>2, <2>3 DEF Stepped
<1>3. ASSUME NEW result \in Report, Return(a, result),
             result = "sendAccepted" => post[a] = "delivered"
      PROVE  Stepped
  <2>1. attempt' \in AttemptType
    <3> DEFINE done == [attempt[a] EXCEPT !.pc = "done", !.result = result]
    <3>1. attempt' = [attempt EXCEPT ![a] = done]
      BY <1>3 DEF Return
    <3>2. done \in [pc : Sending \cup Settling \cup {"idle", "claim", "done", "dead"},
                    event : Event \cup {Nil}, answer : Answer \cup {Nil},
                    result : Report \cup {Nil}]
      BY <1>1 DEF AttemptType
    <3> HIDE DEF done
    <3> QED
      BY <1>1, <3>1, <3>2 DEF AttemptType
  <2>2. ASSUME NEW b \in Attempt
        PROVE  /\ attempt'[b].event = attempt[b].event
               /\ attempt'[b].result = IF b = a THEN result ELSE attempt[b].result
               /\ attempt'[b].pc = IF b = a THEN "done" ELSE attempt[b].pc
    BY <1>1, <1>3 DEF Return, AttemptType
  <2>3. ASSUME NEW b \in Attempt
        PROVE  Causal(b)'
    <3>1. Causal(b)
      BY DEF Inv
    <3> QED
      BY <3>1, <1>3, <2>2 DEF Causal
  <2> QED
    BY <1>1, <2>1, <2>2, <2>3 DEF Stepped
<1> QED
  BY <1>2, <1>3

(* What is sent, and what becomes of it at the provider.                   *)
LEMMA PostsAreCausal ==
  ASSUME Inv, NEW a \in Attempt,
         Post(a) \/ ProviderDelivers(a) \/ ProviderRefuses(a)
  PROVE  Stepped
<1>1. attempt \in AttemptType /\ post \in PostType /\ Causal(a)
  BY DEF Inv, TypeOK, AttemptType, PostType
<1>2. CASE Post(a)
  <2>1. ASSUME NEW b \in Attempt
        PROVE  /\ attempt'[b].event = attempt[b].event
               /\ attempt'[b].result = attempt[b].result
               /\ attempt'[b].pc = IF b = a THEN "posted" ELSE attempt[b].pc
               /\ post'[b] = IF b = a THEN "inflight" ELSE post[b]
    BY <1>1, <1>2 DEF Post, Go, AttemptType, PostType
  <2>2. attempt[a].pc = "claimed" /\ post[a] = "none"
    BY <1>1, <1>2 DEF Post, At, Causal
  <2>3. ASSUME NEW b \in Attempt
        PROVE  Causal(b)'
    <3>1. Causal(b)
      BY DEF Inv
    <3> QED
      BY <3>1, <2>1, <2>2 DEF Causal
  <2>4. attempt' \in AttemptType /\ post' \in PostType
    BY <1>1, <1>2 DEF Post, Go, AttemptType, PostType, Sending
  <2> QED
    BY <2>1, <2>2, <2>3, <2>4 DEF Stepped
<1>3. CASE ProviderDelivers(a) \/ ProviderRefuses(a)
  <2>1. PICK outcome \in {"delivered", "refused"} :
          /\ post[a] = "inflight"
          /\ post' = [post EXCEPT ![a] = outcome]
          /\ UNCHANGED attempt
    BY <1>3 DEF ProviderDelivers, ProviderRefuses
  <2>2. ASSUME NEW b \in Attempt
        PROVE  post'[b] = IF b = a THEN outcome ELSE post[b]
    BY <1>1, <2>1 DEF PostType
  <2>3. ASSUME NEW b \in Attempt
        PROVE  Causal(b)'
    <3>1. Causal(b)
      BY DEF Inv
    <3> QED
      BY <3>1, <2>1, <2>2 DEF Causal
  <2> QED
    BY <1>1, <2>1, <2>2, <2>3 DEF Stepped, PostType
<1> QED
  BY <1>2, <1>3

(* Every step does no more than that to attempts and posts.                *)
LEMMA StepsAreCausal ==
  ASSUME Inv, [Next]_vars
  PROVE  Stepped
<1>1. attempt \in AttemptType /\ post \in PostType /\ \A a \in Attempt : Causal(a)
  BY DEF Inv, TypeOK, AttemptType, PostType
<1>2. CASE Tick \/ UNCHANGED vars
  BY <1>1, <1>2 DEF Tick, vars, Stepped, Causal
<1>3. ASSUME NEW a \in Attempt, NEW e \in Event, Handle(a, e)
      PROVE  Stepped
  <2>1. attempt[a].pc = "idle" /\ UNCHANGED post
    BY <1>3 DEF Handle, At
  <2>2. ASSUME NEW b \in Attempt
        PROVE  /\ attempt'[b].result = attempt[b].result
               /\ attempt'[b].event = IF b = a THEN e ELSE attempt[b].event
               /\ attempt'[b].pc = IF b = a THEN "claim" ELSE attempt[b].pc
    BY <1>1, <1>3 DEF Handle, AttemptType
  <2>3. ASSUME NEW b \in Attempt
        PROVE  Causal(b)'
    BY <1>1, <2>1, <2>2 DEF Causal
  <2>4. attempt' \in AttemptType
    BY <1>1, <1>3 DEF Handle, AttemptType
  <2> QED
    BY <1>1, <2>1, <2>2, <2>3, <2>4 DEF Stepped, Causal
<1>4. ASSUME NEW a \in Attempt, Advance(a) \/ Crash(a)
      PROVE  Stepped
  <2>1. CASE ClaimOutbound(a)
    BY <1>1, <2>1, MovesAreCausal DEF ClaimOutbound, Moves, At, Causal, Sending, Report
  <2>2. CASE FailBeforePost(a) \/ AnswerAccepted(a) \/ AnswerRejected(a) \/ AnswerMissing(a)
    BY <2>2, MovesAreCausal
    DEF FailBeforePost, AnswerAccepted, AnswerRejected, AnswerMissing, Moves, Answer, At,
        Settling
  <2>3. CASE CompleteOutbound(a)
    BY <1>1, <2>3, MovesAreCausal DEF CompleteOutbound, Settle, At, Causal, Report
  <2>4. CASE UncertainOutbound(a) \/ RetryOutbound(a)
    BY <2>4, MovesAreCausal DEF UncertainOutbound, RetryOutbound, Settle, At, Report
  <2>5. CASE Crash(a)
    BY <2>5, MovesAreCausal DEF Crash, Moves
  <2>6. CASE Post(a)
    BY <2>6, PostsAreCausal
  <2> QED
    BY <1>4, <2>1, <2>2, <2>3, <2>4, <2>5, <2>6 DEF Advance
<1>5. ASSUME NEW a \in Attempt, ProviderDelivers(a) \/ ProviderRefuses(a)
      PROVE  Stepped
  BY <1>5, PostsAreCausal
<1> QED
  BY <1>2, <1>3, <1>4, <1>5 DEF Next

-----------------------------------------------------------------------------
(* The store.                                                              *)

(* A step ages the store, or applies one transaction of an attempt; only   *)
(* an attempt whose text was delivered completes a record.                 *)
LEMMA StepsOfTheStore ==
  ASSUME Inv, [Next]_vars
  PROVE  \/ db' = db
         \/ db' = Aged(db)
         \/ \E a \in Attempt :
              /\ attempt[a].event \in Event
              /\ \E txn \in {Claim(Record(a)), Retryable(Record(a)),
                             Retain(Record(a), "uncertain")} : db' = Written(db, txn)
         \/ \E a \in Attempt :
              /\ a \in Delivered(attempt[a].event)
              /\ attempt[a].event \in Event
              /\ db' = Written(db, Retain(Record(a), "complete"))
<1> DEFINE Goal(a) ==
      \/ db' = db
      \/ /\ attempt[a].event \in Event
         /\ \E txn \in {Claim(Record(a)), Retryable(Record(a)),
                        Retain(Record(a), "uncertain")} : db' = Written(db, txn)
      \/ /\ a \in Delivered(attempt[a].event)
         /\ attempt[a].event \in Event
         /\ db' = Written(db, Retain(Record(a), "complete"))
<1>1. ASSUME NEW a \in Attempt, Advance(a)
      PROVE  Goal(a)
  <2>1. Causal(a)
    BY DEF Inv
  <2>2. CASE ClaimOutbound(a)
    <3>1. PICK answer : Transact(Claim(Record(a)), answer)
      BY <2>2 DEF ClaimOutbound
    <3> QED
      BY <2>1, <2>2, <3>1, TransactionIsAtomic DEF ClaimOutbound, At, Causal
  <2>3. CASE CompleteOutbound(a)
    <3>1. PICK answer : Transact(Retain(Record(a), "complete"), answer)
      BY <2>3 DEF CompleteOutbound, Settle
    <3> QED
      BY <2>1, <2>3, <3>1, TransactionIsAtomic
      DEF CompleteOutbound, Settle, At, Causal, Delivered
  <2>4. CASE UncertainOutbound(a)
    <3>1. PICK answer : Transact(Retain(Record(a), "uncertain"), answer)
      BY <2>4 DEF UncertainOutbound, Settle
    <3> QED
      BY <2>1, <2>4, <3>1, TransactionIsAtomic DEF UncertainOutbound, Settle, At, Causal
  <2>5. CASE RetryOutbound(a)
    <3>1. PICK answer : Transact(Retryable(Record(a)), answer)
      BY <2>5 DEF RetryOutbound, Settle
    <3> QED
      BY <2>1, <2>5, <3>1, TransactionIsAtomic DEF RetryOutbound, Settle, At, Causal
  <2> QED
    BY <1>1, <2>2, <2>3, <2>4, <2>5
    DEF Advance, FailBeforePost, Post, AnswerAccepted, AnswerRejected, AnswerMissing
<1> QED
  BY <1>1 DEF Next, vars, Handle, ProviderDelivers, ProviderRefuses, Crash, Tick

LEMMA StoreStaysTyped ==
  ASSUME Inv, [Next]_vars
  PROVE  db' \in [Key -> Entry \cup {Gone}]
<1> DEFINE Entries == Entry \cup {Gone}
<1>1. db \in [Key -> Entries]
  BY DEF Inv, TypeOK
<1>2. ASSUME NEW txn,
             \A key \in DOMAIN txn.mutations : txn.mutations[key] \in Entries,
             db' = Written(db, txn)
      PROVE  db' \in [Key -> Entries]
  BY <1>1, <1>2, WrittenIsTyped
<1>3. \A status \in ReplayStatus, ttl \in {LeaseTtl, RetentionTtl} :
        Put(status, ttl) \in Entries
  BY TtlAssumption DEF Put, Entry
<1>4. CASE db' = Aged(db)
  BY <1>1, <1>4, AgedIsTyped DEF Entry
<1>5. ASSUME NEW key, NEW status \in ReplayStatus,
             NEW txn \in {Claim(key), Retryable(key), Retain(key, status)}
      PROVE  \A k \in DOMAIN txn.mutations : txn.mutations[k] \in Entries
  BY <1>3, <1>5 DEF Claim, Retryable, Retain, Transaction, ReplayStatus
<1> QED
  BY <1>1, <1>2, <1>4, <1>5, StepsOfTheStore DEF ReplayStatus

-----------------------------------------------------------------------------

LEMMA StepsAreBounded ==
  ASSUME Inv, [Next]_vars
  PROVE  faults' \in 0..MaxFaults
<1>1. \/ UNCHANGED faults
      \/ Fault
      \/ \E txn, result : Transact(txn, result)
  BY DEF Next, vars, Handle, Advance, ClaimOutbound, FailBeforePost, Post, AnswerAccepted,
         AnswerRejected, AnswerMissing, CompleteOutbound, UncertainOutbound,
         RetryOutbound, Settle, ProviderDelivers, ProviderRefuses, Crash, Tick
<1> QED
  BY <1>1, OutboundAssumption DEF Inv, TypeOK, Transact, Fault

LEMMA StepsKeepInv == Inv /\ [Next]_vars => Inv'
<1> SUFFICES ASSUME Inv, [Next]_vars PROVE Inv'
  OBVIOUS
<1>1. Stepped /\ db' \in [Key -> Entry \cup {Gone}] /\ faults' \in 0..MaxFaults
  BY StepsAreCausal, StoreStaysTyped, StepsAreBounded
<1>2. ASSUME NEW e \in Event, Read(db', OutboundKey(e)) = "complete"
      PROVE  Delivered(e)' # {}
  <2> DEFINE key == OutboundKey(e)
  <2>1. key \in DOMAIN db /\ Nil # "complete"
    BY OutboundAssumption DEF Inv, TypeOK, Key, ReplayStatus
  <2>2. Delivered(e) # {}
    <3>1. CASE Read(db, key) = "complete"
      BY <3>1 DEF Inv, RecordsDelivered
    <3>2. CASE db' = Aged(db)
      BY <1>2, <2>1, <3>1, <3>2, AgingKeepsValues DEF Read, Gone, Put
    <3>3. ASSUME NEW a \in Attempt,
                 NEW txn \in {Claim(Record(a)), Retryable(Record(a)),
                              Retain(Record(a), "uncertain")},
                 db' = Written(db, txn)
          PROVE  Read(db, key) = "complete"
      BY <1>2, <2>1, <3>3, WrittenAt
      DEF Claim, Retryable, Retain, Transaction, Read, Put, Gone
    <3>4. ASSUME NEW a \in Attempt, a \in Delivered(attempt[a].event),
                 db' = Written(db, Retain(Record(a), "complete"))
          PROVE  Delivered(e) # {}
      <4>1. CASE Record(a) = key
        BY <3>4, <4>1, KeysAreDistinct DEF Record
      <4>2. CASE Record(a) # key
        <5>1. Read(db, key) = "complete"
          BY <1>2, <2>1, <3>4, <4>2, WrittenAt DEF Retain, Transaction, Read
        <5> QED
          BY <3>1, <5>1
      <4> QED
        BY <4>1, <4>2
    <3> QED
      BY <1>2, <3>1, <3>2, <3>3, <3>4, StepsOfTheStore
  <2> QED
    BY <1>1, <2>2 DEF Stepped, Delivered
<1> QED
  BY <1>1, <1>2
  DEF Inv, TypeOK, Stepped, AttemptType, PostType, RecordsDelivered, Read, Delivered

(* Every reachable state is well-typed.                                    *)
THEOREM TypeCorrect == Spec => []TypeOK
<1>1. Inv => TypeOK
  BY DEF Inv
<1> QED
  BY <1>1, Initially, StepsKeepInv, PTL DEF Spec

(* A record says "complete" only of a text the provider took, and Eve is   *)
(* told so only of an attempt whose own text was taken, however late or    *)
(* foreign the settlement: also where leases lapse under their attempts    *)
(* and answers hide deliveries (channel.ts, the OutboundTextReady handler). *)
THEOREM CompletionsAreDelivered == Spec => []CompleteIsDelivered
<1>1. Inv => CompleteIsDelivered
  BY DEF Inv, Causal, RecordsDelivered, CompleteIsDelivered
<1> QED
  BY <1>1, Initially, StepsKeepInv, PTL DEF Spec

-----------------------------------------------------------------------------
(* Punctual deployments.                                                   *)

LEMMA Invariance == Spec => []Inv
BY Initially, StepsKeepInv, PTL DEF Spec

Coming == {"idle", "claim"}

Holding == Sending \cup Settling

Value(e) == db[OutboundKey(e)].value

(* From its claim to its settlement an attempt is alone with its event,    *)
(* and the claim in the store is its own.                                  *)
Alone(a) ==
  attempt[a].pc \in Holding =>
    /\ Value(attempt[a].event) = "claimed"
    /\ \A b \in Attempt :
         attempt[b].pc \in Holding /\ attempt[b].event = attempt[a].event => b = a

Exclusion == \A a \in Attempt : Alone(a)

(* Nobody claims the event any more.                                       *)
Closed(e) ==
  \/ Value(e) \in {"complete", "uncertain"}
  \/ Value(e) = Nil /\ \A a \in Attempt : attempt[a].pc \notin Coming

(* What a step does to the record of an event: nothing; a claim of nobody's *)
(* event; the settlement of whoever holds it; its expiry.                  *)
StepOfRecord(e) ==
  \/ Value(e)' = Value(e)
  \/ \E a \in Attempt : /\ attempt[a].event = e
                        /\ attempt[a].pc = "claim"
                        /\ Value(e) = Nil
                        /\ Value(e)' = "claimed"
  \/ \E a \in Attempt : /\ attempt[a].event = e
                        /\ attempt[a].pc \in Settling
                        /\ Value(e) = "claimed"
                        /\ attempt'[a].pc = "done"
  \/ /\ Tick
     /\ db[OutboundKey(e)].ttl = 1
     /\ Value(e)' = Nil

LEMMA StepsOfRecords ==
  ASSUME Inv, [Next]_vars, NEW e \in Event
  PROVE  StepOfRecord(e)
<1> DEFINE key == OutboundKey(e)
<1>1. key \in DOMAIN db /\ attempt \in AttemptType
  BY DEF Inv, TypeOK, Key, AttemptType
<1>2. CASE UNCHANGED db
  BY <1>2 DEF StepOfRecord, Value
<1>3. CASE Tick
  BY <1>1, <1>3, AgingKeepsValues DEF Tick, StepOfRecord, Value, Gone, Put
<1>4. ASSUME NEW a \in Attempt, ClaimOutbound(a)
      PROVE  StepOfRecord(e)
  <2>1. PICK result : Transact(Claim(Record(a)), result)
    BY <1>4 DEF ClaimOutbound
  <2>2. CASE UNCHANGED db
    BY <1>2, <2>2
  <2>3. CASE Holds(db, Claim(Record(a))) /\ db' = Written(db, Claim(Record(a)))
    <3>1. CASE Record(a) = key
      <4>1. attempt[a].event = e /\ attempt[a].pc = "claim"
        BY <1>4, <3>1, KeysAreDistinct DEF ClaimOutbound, At, Record
      <4>2. Value(e) = Nil /\ Value(e)' = "claimed"
        BY <1>1, <2>3, <3>1, WrittenAt
        DEF Holds, Claim, Transaction, Read, Value, Put
      <4> QED
        BY <4>1, <4>2 DEF StepOfRecord
    <3>2. CASE Record(a) # key
      <4>1. db'[key] = db[key]
        BY <1>1, <2>3, <3>2, WrittenAt DEF Claim, Transaction
      <4> QED
        BY <4>1 DEF StepOfRecord, Value
    <3> QED
      BY <3>1, <3>2
  <2> QED
    BY <2>1, <2>2, <2>3, TransactionIsAtomic
<1>5. ASSUME NEW a \in Attempt, NEW point \in Settling, NEW report,
             NEW txn \in {Retain(Record(a), "complete"), Retain(Record(a), "uncertain"),
                          Retryable(Record(a))},
             Settle(a, point, txn, report)
      PROVE  StepOfRecord(e)
  <2>1. PICK result : Transact(txn, result)
    BY <1>5 DEF Settle
  <2>2. attempt[a].pc \in Settling /\ attempt'[a].pc = "done"
    BY <1>1, <1>5 DEF Settle, At, Return, AttemptType
  <2>3. DOMAIN txn.conditions = {Record(a)} /\ DOMAIN txn.mutations = {Record(a)}
        /\ txn.conditions[Record(a)] = "claimed"
    BY <1>5 DEF Retain, Retryable, Transaction
  <2>4. CASE UNCHANGED db
    BY <1>2, <2>4
  <2>5. CASE Holds(db, txn) /\ db' = Written(db, txn)
    <3>1. CASE Record(a) = key
      <4>1. attempt[a].event = e
        BY <3>1, KeysAreDistinct DEF Record
      <4>2. Value(e) = "claimed"
        BY <2>3, <2>5, <3>1 DEF Holds, Read, Value
      <4> QED
        BY <2>2, <4>1, <4>2 DEF StepOfRecord
    <3>2. CASE Record(a) # key
      <4>1. db'[key] = db[key]
        BY <1>1, <2>3, <2>5, <3>2, WrittenAt
      <4> QED
        BY <4>1 DEF StepOfRecord, Value
    <3> QED
      BY <3>1, <3>2
  <2> QED
    BY <2>1, <2>4, <2>5, TransactionIsAtomic
<1> QED
  BY <1>2, <1>3, <1>4, <1>5
  DEF Next, vars, Handle, Advance, FailBeforePost, Post, AnswerAccepted, AnswerRejected,
      AnswerMissing, CompleteOutbound, UncertainOutbound, RetryOutbound, ProviderDelivers,
      ProviderRefuses, Crash, Settling

(* A step is that of one attempt, and leaves all others as they are.       *)
LEMMA OneActs ==
  ASSUME Inv, [Next]_vars
  PROVE  \/ UNCHANGED attempt
         \/ \E a \in Attempt :
              /\ Advance(a) \/ Crash(a) \/ \E e \in Event : Handle(a, e)
              /\ \A b \in Attempt \ {a} : attempt'[b] = attempt[b]
<1>1. attempt \in AttemptType
  BY DEF Inv, TypeOK, AttemptType
<1>2. ASSUME NEW a \in Attempt, Advance(a) \/ Crash(a) \/ \E e \in Event : Handle(a, e)
      PROVE  \A b \in Attempt \ {a} : attempt'[b] = attempt[b]
  BY <1>1, <1>2
  DEF Advance, Crash, Handle, ClaimOutbound, FailBeforePost, Post, AnswerAccepted,
      AnswerRejected, AnswerMissing, CompleteOutbound, UncertainOutbound, RetryOutbound,
      Settle, Go, Hear, Return, AttemptType
<1> QED
  BY <1>2 DEF Next, vars, Tick, ProviderDelivers, ProviderRefuses

(* Nobody comes back, and only a claim that found no record lets anyone in. *)
LEMMA OnlyClaimsEnter ==
  ASSUME Inv, [Next]_vars, NEW b \in Attempt
  PROVE  /\ attempt'[b].pc \in Coming => attempt[b].pc \in Coming
         /\ attempt'[b].pc \in Holding =>
              /\ attempt'[b].event = attempt[b].event
              /\ \/ attempt[b].pc \in Holding
                 \/ /\ attempt[b].pc = "claim"
                    /\ Value(attempt[b].event) = Nil
                    /\ Value(attempt[b].event)' = "claimed"
                    /\ \A c \in Attempt \ {b} : attempt'[c] = attempt[c]
<1> DEFINE Goal == /\ attempt'[b].pc \in Coming => attempt[b].pc \in Coming
                   /\ attempt'[b].pc \in Holding =>
                        /\ attempt'[b].event = attempt[b].event
                        /\ \/ attempt[b].pc \in Holding
                           \/ /\ attempt[b].pc = "claim"
                              /\ Value(attempt[b].event) = Nil
                              /\ Value(attempt[b].event)' = "claimed"
                              /\ \A c \in Attempt \ {b} : attempt'[c] = attempt[c]
<1>1. attempt \in AttemptType /\ Causal(b)
  BY DEF Inv, TypeOK, AttemptType
<1>2. CASE attempt'[b] = attempt[b]
  BY <1>2
<1>3. ASSUME NEW e \in Event, Handle(b, e)
      PROVE  Goal
  <2>1. attempt[b].pc = "idle" /\ attempt'[b].pc = "claim"
    BY <1>1, <1>3 DEF Handle, At, AttemptType
  <2> QED
    BY <2>1 DEF Coming, Holding, Sending, Settling
<1>4. CASE ClaimOutbound(b)
  <2>1. attempt[b].pc = "claim" /\ attempt[b].event \in Event
    BY <1>1, <1>4 DEF ClaimOutbound, At, Causal
  <2>2. PICK result \in Result :
          /\ Transact(Claim(Record(b)), result)
          /\ \/ result = "applied" /\ Go(b, "claimed")
             \/ result # "applied" /\ \E report \in Report : Return(b, report)
    BY <1>4 DEF ClaimOutbound, Report
  <2>3. CASE result = "applied"
    <3>1. Go(b, "claimed")
      BY <2>2, <2>3
    <3>2. Holds(db, Claim(Record(b))) /\ db' = Written(db, Claim(Record(b)))
      BY <2>2, <2>3, TransactionIsAtomic
    <3>3. Value(attempt[b].event) = Nil
      BY <3>2 DEF Holds, Claim, Transaction, Read, Value, Record
    <3>4. Record(b) \in DOMAIN db
      BY <2>1 DEF Record, Inv, TypeOK, Key
    <3>5. db'[Record(b)].value = "claimed"
      BY <3>2, <3>4, WrittenAt DEF Claim, Transaction, Put
    <3>6. /\ attempt'[b].event = attempt[b].event
          /\ attempt'[b].pc = "claimed"
          /\ \A c \in Attempt \ {b} : attempt'[c] = attempt[c]
      BY <1>1, <3>1 DEF Go, AttemptType
    <3> QED
      BY <2>1, <3>3, <3>5, <3>6 DEF Value, Record, Coming
  <2>4. CASE result # "applied"
    <3>1. attempt'[b].pc = "done"
      BY <1>1, <2>2, <2>4 DEF Return, AttemptType
    <3> QED
      BY <3>1 DEF Coming, Holding, Sending, Settling
  <2> QED
    BY <2>3, <2>4
<1>5. CASE FailBeforePost(b) \/ Post(b) \/ AnswerAccepted(b) \/ AnswerRejected(b)
             \/ AnswerMissing(b)
  <2>1. /\ attempt[b].pc \in Sending
        /\ \E point \in {"posted"} \cup Settling : Moves(b, point)
    BY <1>5 DEF FailBeforePost, Post, AnswerAccepted, AnswerRejected, AnswerMissing, Moves,
               Answer, At, Sending, Settling
  <2>2. attempt'[b].pc \in {"posted"} \cup Settling /\ attempt'[b].event = attempt[b].event
    BY <1>1, <2>1 DEF Moves, Go, Hear, AttemptType
  <2> QED
    BY <2>1, <2>2 DEF Coming, Holding, Settling
<1>6. CASE CompleteOutbound(b) \/ UncertainOutbound(b) \/ RetryOutbound(b) \/ Crash(b)
  <2>1. attempt'[b].pc \in {"done", "dead"}
    BY <1>1, <1>6 DEF CompleteOutbound, UncertainOutbound, RetryOutbound, Crash, Settle,
                      Return, Go, AttemptType
  <2> QED
    BY <2>1 DEF Coming, Holding, Sending, Settling
<1> QED
  BY <1>2, <1>3, <1>4, <1>5, <1>6, OneActs DEF Advance

LEMMA ExclusionIsInductive ==
  ASSUME Punctual, Inv, Exclusion, [Next]_vars
  PROVE  Exclusion'
<1>1. ASSUME NEW a \in Attempt, attempt'[a].pc \in Holding
      PROVE  Value(attempt[a].event)' = "claimed" /\ attempt'[a].event = attempt[a].event
  <2> DEFINE e == attempt[a].event
  <2>1. attempt'[a].event = e /\ e \in Event
    BY <1>1, OnlyClaimsEnter DEF Inv, Causal, Holding, Sending, Settling
  <2>2. CASE attempt[a].pc \in Holding
    <3>1. Value(e) = "claimed" /\ "claimed" # Nil
      BY <2>2, OutboundAssumption DEF Exclusion, Alone, ReplayStatus
    <3>2. ~\E b \in Attempt : /\ attempt[b].event = e
                             /\ attempt[b].pc \in Settling
                             /\ attempt'[b].pc = "done"
      BY <1>1, <2>2 DEF Exclusion, Alone, Holding, Sending, Settling
    <3>3. ~(Tick /\ db[OutboundKey(e)].ttl = 1)
      <4> SUFFICES ASSUME Tick, db[OutboundKey(e)].ttl = 1 PROVE FALSE
        OBVIOUS
      <4>1. Early
        BY <2>2, <3>1 DEF Early, Expiring, Holding, Value
      <4> QED
        BY <4>1 DEF Tick
    <3>4. StepOfRecord(e)
      BY <2>1, StepsOfRecords
    <3> QED
      BY <2>1, <3>1, <3>2, <3>3, <3>4 DEF StepOfRecord
  <2> QED
    BY <1>1, <2>1, <2>2, OnlyClaimsEnter
<1>2. ASSUME NEW a \in Attempt, NEW b \in Attempt, a # b,
             attempt'[a].pc \in Holding, attempt'[b].pc \in Holding,
             attempt[a].event = attempt[b].event,
             attempt[a].pc \notin Holding
      PROVE  FALSE
  <2>1. Value(attempt[a].event) = Nil /\ attempt'[b] = attempt[b]
    BY <1>2, OnlyClaimsEnter
  <2>2. Value(attempt[b].event) = "claimed"
    BY <1>2, <2>1 DEF Exclusion, Alone
  <2> QED
    BY <1>2, <2>1, <2>2, OutboundAssumption DEF ReplayStatus
<1>3. ASSUME NEW a \in Attempt, NEW b \in Attempt,
             attempt'[a].pc \in Holding, attempt'[b].pc \in Holding,
             attempt'[a].event = attempt'[b].event
      PROVE  a = b
  <2>1. attempt[a].event = attempt[b].event
    BY <1>1, <1>3
  <2> QED
    BY <1>2, <1>3, <2>1 DEF Exclusion, Alone
<1>4. ASSUME NEW a \in Attempt, attempt'[a].pc \in Holding
      PROVE  Value(attempt[a].event)' = db'[OutboundKey(attempt'[a].event)].value
  BY <1>1, <1>4 DEF Value
<1> QED
  BY <1>1, <1>3, <1>4 DEF Exclusion, Alone, Value

(* In a punctual deployment two attempts of one event never hold the       *)
(* transport together, for any number of attempts and faults               *)
(* (claimOutbound of replay.ts).                                           *)
THEOREM SendIsExclusive ==
  ASSUME Punctual
  PROVE  Spec => []ExclusiveSend
<1>1. Init => Exclusion
  BY DEF Init, Exclusion, Alone, Holding, Sending, Settling
<1>2. Inv /\ Exclusion /\ [Next]_vars => Exclusion'
  BY ExclusionIsInductive
<1>3. Exclusion => ExclusiveSend
  BY DEF Exclusion, Alone, ExclusiveSend, Holding
<1> QED
  BY <1>1, <1>2, <1>3, Invariance, PTL DEF Spec

LEMMA ClosedForGood ==
  ASSUME Punctual, Inv, Exclusion, [Next]_vars, NEW e \in Event, Closed(e)
  PROVE  Closed(e)'
<1>1. Nil \notin ReplayStatus
  BY OutboundAssumption
<1>2. \A a \in Attempt : attempt'[a].pc \in Coming => attempt[a].pc \in Coming
  BY OnlyClaimsEnter
<1>3. CASE Value(e)' = Value(e)
  BY <1>2, <1>3 DEF Closed
<1>4. ASSUME NEW a \in Attempt, attempt[a].event = e, attempt[a].pc = "claim", Value(e) = Nil
      PROVE  FALSE
  BY <1>1, <1>4 DEF Closed, Coming, ReplayStatus
<1>5. CASE Value(e) = "claimed"
  BY <1>1, <1>5 DEF Closed, ReplayStatus
<1>6. CASE Tick /\ db[OutboundKey(e)].ttl = 1 /\ Value(e)' = Nil
  <2>1. ~Early
    BY <1>6 DEF Tick
  <2>2. CASE Value(e) \in {"complete", "uncertain"}
    BY <1>2, <1>6, <2>1, <2>2 DEF Early, Expiring, Value, Closed, Coming
  <2>3. CASE Value(e) = Nil
    BY <1>3, <1>6, <2>3
  <2> QED
    BY <2>2, <2>3 DEF Closed
<1> QED
  BY <1>3, <1>4, <1>5, <1>6, StepsOfRecords DEF StepOfRecord

-----------------------------------------------------------------------------
(* The price of a second delivery.                                         *)

Sent(e) ==
  {a \in Attempt : attempt[a].event = e /\ post[a] \in {"inflight", "delivered"}}

(* The one delivery that costs no fault has been spent.                    *)
Spent(e) ==
  \/ Closed(e)
  \/ \E a \in Sent(e) : attempt[a].pc \in {"posted", "complete", "uncertain"}

Counted(e) ==
  /\ IsFiniteSet(Sent(e))
  /\ Cardinality(Sent(e)) <= faults + IF Spent(e) THEN 1 ELSE 0

(* What a step does to the texts of an event at the provider.              *)
LEMMA StepsOfPosts ==
  ASSUME Inv, [Next]_vars, NEW e \in Event
  PROVE  \/ Sent(e)' = Sent(e)
         \/ \E a \in Attempt : Post(a) /\ attempt[a].event = e /\ Sent(e)' = Sent(e) \cup {a}
         \/ \E a \in Sent(e) : ProviderRefuses(a) /\ Sent(e)' = Sent(e) \ {a}
<1>1. attempt \in AttemptType /\ post \in PostType
  BY DEF Inv, TypeOK, AttemptType, PostType
<1>2. ASSUME NEW a \in Attempt, Post(a)
      PROVE  /\ attempt[a].event = e => Sent(e)' = Sent(e) \cup {a}
             /\ attempt[a].event # e => Sent(e)' = Sent(e)
  <2>1. \A b \in Attempt : /\ attempt'[b].event = attempt[b].event
                           /\ post'[b] = IF b = a THEN "inflight" ELSE post[b]
    BY <1>1, <1>2 DEF Post, Go, AttemptType, PostType
  <2> QED
    BY <2>1 DEF Sent
<1>3. ASSUME NEW a \in Attempt, ProviderDelivers(a)
      PROVE  Sent(e)' = Sent(e)
  BY <1>1, <1>3 DEF ProviderDelivers, Sent, PostType
<1>4. ASSUME NEW a \in Attempt, ProviderRefuses(a)
      PROVE  /\ a \in Sent(e) => Sent(e)' = Sent(e) \ {a}
             /\ a \notin Sent(e) => Sent(e)' = Sent(e)
  <2>1. UNCHANGED attempt /\ \A b \in Attempt : post'[b] = IF b = a THEN "refused" ELSE post[b]
    BY <1>1, <1>4 DEF ProviderRefuses, PostType
  <2> QED
    BY <2>1 DEF Sent
<1>5. ASSUME NEW a \in Attempt, NEW f \in Event, Handle(a, f)
      PROVE  Sent(e)' = Sent(e)
  <2>1. post[a] = "none" /\ UNCHANGED post
    BY <1>5 DEF Inv, Causal, Handle, At
  <2>2. \A b \in Attempt \ {a} : attempt'[b] = attempt[b]
    BY <1>1, <1>5 DEF Handle, AttemptType
  <2> QED
    BY <2>1, <2>2 DEF Sent
<1>6. ASSUME UNCHANGED post, \A a \in Attempt : attempt'[a].event = attempt[a].event
      PROVE  Sent(e)' = Sent(e)
  BY <1>6 DEF Sent
<1>7. ASSUME NEW a \in Attempt, Advance(a) \/ Crash(a), ~Post(a)
      PROVE  Sent(e)' = Sent(e)
  <2>1. /\ UNCHANGED post
        /\ \/ \E point : Go(a, point)
           \/ \E answer, point : Hear(a, answer, point)
           \/ \E report : Return(a, report)
    BY <1>7
    DEF Advance, Crash, ClaimOutbound, FailBeforePost, AnswerAccepted, AnswerRejected,
        AnswerMissing, CompleteOutbound, UncertainOutbound, RetryOutbound, Settle
  <2>2. \A b \in Attempt : attempt'[b].event = attempt[b].event
    <3>1. CASE \E point : Go(a, point)
      BY <1>1, <3>1 DEF Go, AttemptType
    <3>2. CASE \E answer, point : Hear(a, answer, point)
      BY <1>1, <3>2 DEF Hear, AttemptType
    <3>3. CASE \E report : Return(a, report)
      BY <1>1, <3>3 DEF Return, AttemptType
    <3> QED
      BY <2>1, <3>1, <3>2, <3>3
  <2> QED
    BY <1>6, <2>1, <2>2
<1>8. CASE Tick \/ UNCHANGED vars
  BY <1>8 DEF Tick, vars, Sent
<1> QED
  BY <1>2, <1>3, <1>4, <1>5, <1>7, <1>8 DEF Next

(* An attempt that completes its record, or marks it uncertain, closes its *)
(* event, unless the store fails and Eve is told so.                       *)
LEMMA SettlementsClose ==
  ASSUME Inv, Exclusion, NEW a \in Attempt, NEW e \in Event, attempt[a].event = e,
         CompleteOutbound(a) \/ UncertainOutbound(a)
  PROVE  \/ Closed(e)'
         \/ faults' = faults + 1 /\ attempt'[a].result = "replayError"
<1>1. PICK status \in {"complete", "uncertain"}, result \in Result :
        /\ attempt[a].pc = status
        /\ Transact(Retain(Record(a), status), result)
        /\ result # "applied" => Return(a, "replayError")
  BY DEF CompleteOutbound, UncertainOutbound, Settle, At
<1>2. attempt[a].pc \in Holding
  BY <1>1 DEF Holding, Settling
<1>3. Value(e) = "claimed" /\ OutboundKey(e) \in DOMAIN db
  BY <1>2 DEF Exclusion, Alone, Inv, TypeOK, Key
<1>4. Holds(db, Retain(Record(a), status))
  BY <1>3 DEF Holds, Retain, Transaction, Read, Record, Value
<1>5. CASE result = "error" /\ faults' = faults + 1
  <2>1. attempt'[a].result = "replayError"
    BY <1>1, <1>5 DEF Return, Inv, TypeOK
  <2> QED
    BY <1>5, <2>1
<1>6. CASE db' = Written(db, Retain(Record(a), status))
  <2>1. db'[OutboundKey(e)].value = status
    BY <1>3, <1>6, WrittenAt DEF Retain, Transaction, Record, Put
  <2> QED
    BY <2>1 DEF Closed, Value
<1> QED
  BY <1>1, <1>4, <1>5, <1>6 DEF Transact, Fault, Transacted

(* What has been spent stays so, but for a fault, or a text that the       *)
(* provider refuses after all.                                             *)
LEMMA SpentForGood ==
  ASSUME Punctual, Inv, Exclusion, [Next]_vars, NEW e \in Event, Spent(e),
         faults' # faults + 1,
         ~\E a \in Sent(e) : ProviderRefuses(a)
  PROVE  Spent(e)'
<1>1. attempt \in AttemptType /\ post \in PostType
  BY DEF Inv, TypeOK, AttemptType, PostType
<1>2. CASE Closed(e)
  BY <1>2, ClosedForGood DEF Spent
<1>3. ASSUME NEW a \in Sent(e), attempt[a].pc \in {"posted", "complete", "uncertain"}
      PROVE  Spent(e)'
  <2>1. a \in Sent(e)' /\ a \in Attempt
    BY StepsOfPosts DEF Sent
  <2>2. CASE attempt'[a] = attempt[a]
    BY <1>3, <2>1, <2>2 DEF Spent
  <2>3. CASE AnswerAccepted(a) \/ AnswerMissing(a)
    <3>1. attempt'[a].pc \in {"complete", "uncertain"}
      BY <1>1, <2>1, <2>3 DEF AnswerAccepted, AnswerMissing, Go, Hear, AttemptType
    <3> QED
      BY <2>1, <3>1 DEF Spent
  <2>4. CASE AnswerRejected(a)
    BY <1>3, <2>4 DEF AnswerRejected, Fault, Sent
  <2>5. CASE CompleteOutbound(a) \/ UncertainOutbound(a)
    <3>1. attempt[a].event = e
      BY DEF Sent
    <3> QED
      BY <2>1, <2>5, <3>1, SettlementsClose DEF Spent
  <2>6. CASE ClaimOutbound(a) \/ FailBeforePost(a) \/ Post(a) \/ RetryOutbound(a)
               \/ \E f \in Event : Handle(a, f)
    BY <1>3, <2>6 DEF ClaimOutbound, FailBeforePost, Post, RetryOutbound, Settle, Handle, At
  <2>7. CASE Crash(a)
    BY <2>7 DEF Crash, Fault
  <2> QED
    BY <2>1, <2>2, <2>3, <2>4, <2>5, <2>6, <2>7, OneActs DEF Advance
<1> QED
  BY <1>2, <1>3 DEF Spent

LEMMA CountsAreInductive ==
  ASSUME Punctual, Inv, Exclusion, [Next]_vars, NEW e \in Event, Counted(e)
  PROVE  Counted(e)'
<1>1. /\ faults \in Nat
      /\ faults' \in Nat
      /\ faults' = faults \/ faults' = faults + 1
      /\ Cardinality(Sent(e)) \in Nat
  <2>1. \/ UNCHANGED faults
        \/ Fault
        \/ \E txn, result : Transact(txn, result)
    BY DEF Next, vars, Handle, Advance, ClaimOutbound, FailBeforePost, Post, AnswerAccepted,
           AnswerRejected, AnswerMissing, CompleteOutbound, UncertainOutbound,
           RetryOutbound, Settle, ProviderDelivers, ProviderRefuses, Crash, Tick
  <2> QED
    BY <2>1, OutboundAssumption, FS_CardinalityType DEF Fault, Transact, Inv, TypeOK, Counted
<1>2. CASE Sent(e)' = Sent(e) /\ ~\E a \in Sent(e) : ProviderRefuses(a)
  <2>1. IsFiniteSet(Sent(e)')
    BY <1>2 DEF Counted
  <2>2. Cardinality(Sent(e)') <= faults' + IF Spent(e)' THEN 1 ELSE 0
    <3>1. CASE faults' = faults + 1
      BY <1>1, <1>2, <3>1 DEF Counted
    <3>2. CASE faults' = faults
      <4>1. Spent(e) => Spent(e)'
        BY <1>1, <1>2, <3>2, SpentForGood
      <4> QED
        BY <1>1, <1>2, <3>2, <4>1 DEF Counted
    <3> QED
      BY <1>1, <3>1, <3>2
  <2> QED
    BY <2>1, <2>2 DEF Counted
<1>3. ASSUME NEW a \in Sent(e), ProviderRefuses(a), Sent(e)' = Sent(e) \ {a}
      PROVE  Counted(e)'
  <2>1. /\ IsFiniteSet(Sent(e)')
        /\ Cardinality(Sent(e)') = Cardinality(Sent(e)) - 1
    BY <1>3, FS_RemoveElement DEF Counted
  <2>2. faults' = faults
    BY <1>3 DEF ProviderRefuses
  <2> QED
    BY <1>1, <2>1, <2>2 DEF Counted
<1>4. ASSUME NEW a \in Attempt, Post(a), attempt[a].event = e, Sent(e)' = Sent(e) \cup {a}
      PROVE  Counted(e)'
  <2>1. attempt[a].pc = "claimed" /\ attempt'[a].pc = "posted" /\ UNCHANGED faults
    BY <1>4 DEF Post, At, Go, Inv, TypeOK
  <2>2. ~Spent(e)
    <3>1. Value(e) = "claimed"
      BY <1>4, <2>1 DEF Exclusion, Alone, Holding, Sending
    <3>2. ~Closed(e)
      BY <3>1, OutboundAssumption DEF Closed, ReplayStatus
    <3>3. ASSUME NEW b \in Sent(e), attempt[b].pc \in {"posted", "complete", "uncertain"}
          PROVE  FALSE
      <4>1. b = a
        BY <1>4, <2>1, <3>3 DEF Exclusion, Alone, Holding, Sending, Settling, Sent
      <4> QED
        BY <2>1, <3>3, <4>1
    <3> QED
      BY <3>2, <3>3 DEF Spent
  <2>3. Spent(e)'
    BY <1>4, <2>1 DEF Spent
  <2>4. /\ IsFiniteSet(Sent(e)')
        /\ Cardinality(Sent(e)') <= Cardinality(Sent(e)) + 1
    <3>1. IsFiniteSet(Sent(e))
      BY DEF Counted
    <3>2. /\ IsFiniteSet(Sent(e) \cup {a})
          /\ Cardinality(Sent(e) \cup {a}) =
               IF a \in Sent(e) THEN Cardinality(Sent(e)) ELSE Cardinality(Sent(e)) + 1
      BY <3>1, FS_AddElement
    <3>3. Cardinality(Sent(e) \cup {a}) <= Cardinality(Sent(e)) + 1
      BY <1>1, <3>2
    <3> QED
      BY <1>4, <3>2, <3>3
  <2>5. Cardinality(Sent(e)') \in Nat
    BY <2>4, FS_CardinalityType
  <2> QED
    BY <1>1, <2>1, <2>2, <2>3, <2>4, <2>5 DEF Counted
<1>5. CASE Sent(e)' = Sent(e) /\ \E a \in Sent(e) : ProviderRefuses(a)
  <2>1. PICK a \in Sent(e) : ProviderRefuses(a)
    BY <1>5
  <2>2. post'[a] = "refused"
    BY <2>1 DEF ProviderRefuses, Inv, TypeOK, Sent
  <2> QED
    BY <1>5, <2>1, <2>2 DEF Sent
<1> QED
  BY <1>2, <1>3, <1>4, <1>5, StepsOfPosts

(* In a punctual deployment a text reaches the recipient once, and once    *)
(* more for each fault at most, for any number of attempts and faults      *)
(* (OutboundTextReady in channel.ts, with the transports).                 *)
THEOREM ResendsAreCounted ==
  ASSUME Punctual
  PROVE  Spec => []ResendsCostFaults
<1> DEFINE Counts == \A e \in Event : Counted(e)
<1>1. Init => Exclusion /\ Counts
  <2> SUFFICES ASSUME Init PROVE Exclusion /\ Counts
    OBVIOUS
  <2>1. Exclusion
    BY DEF Init, Exclusion, Alone, Holding, Sending, Settling
  <2>2. ASSUME NEW e \in Event
        PROVE  Counted(e)
    <3>1. Sent(e) = {} /\ faults = 0
      BY DEF Init, Sent
    <3>2. IsFiniteSet(Sent(e)) /\ Cardinality(Sent(e)) = 0
      BY <3>1, FS_EmptySet
    <3> QED
      BY <3>1, <3>2 DEF Counted
  <2> QED
    BY <2>1, <2>2
<1>2. Inv /\ Exclusion /\ Counts /\ [Next]_vars => Exclusion' /\ Counts'
  BY ExclusionIsInductive, CountsAreInductive
<1>3. Inv /\ Counts => ResendsCostFaults
  <2> SUFFICES ASSUME Inv, NEW e \in Event, Counted(e)
               PROVE  Cardinality(Delivered(e)) <= 1 + faults
    BY DEF ResendsCostFaults
  <2>1. Delivered(e) \subseteq Sent(e)
    BY DEF Delivered, Sent
  <2>2. /\ Cardinality(Delivered(e)) <= Cardinality(Sent(e))
        /\ Cardinality(Delivered(e)) \in Nat
        /\ Cardinality(Sent(e)) \in Nat
    BY <2>1, FS_Subset, FS_CardinalityType DEF Counted
  <2> QED
    BY <2>2, OutboundAssumption DEF Counted, Inv, TypeOK
<1> QED
  BY <1>1, <1>2, <1>3, Invariance, PTL DEF Spec

-----------------------------------------------------------------------------
(* No blind retry.                                                         *)

(* What was told to Eve, and of what text the provider knows without       *)
(* having answered with an error.                                          *)
Told(a) == attempt[a].result \in {"sendAccepted", "deliveryError"}

Unanswered(a) == post[a] # "none" /\ attempt[a].answer # "error"

(* A release follows an error, or nothing; an attempt that Eve has been    *)
(* told of has closed its event, unless it heard an error or sent nothing. *)
Kept(a) ==
  /\ At(a, "retryable") => ~Unanswered(a)
  /\ attempt[a].result # Nil => At(a, "done")
  /\ Told(a) /\ Unanswered(a) => Closed(attempt[a].event)

(* What becomes of the text of an attempt that does not post.              *)
LEMMA PostsMove ==
  ASSUME Inv, [Next]_vars, NEW a \in Attempt, ~Post(a)
  PROVE  \/ post'[a] = post[a]
         \/ /\ post[a] = "inflight"
            /\ post'[a] \in {"delivered", "refused"}
            /\ UNCHANGED attempt
<1>1. post \in PostType
  BY DEF Inv, TypeOK, PostType
<1>2. ASSUME NEW b \in Attempt, ProviderDelivers(b) \/ ProviderRefuses(b)
      PROVE  \/ post'[a] = post[a]
             \/ /\ post[a] = "inflight"
                /\ post'[a] \in {"delivered", "refused"}
                /\ UNCHANGED attempt
  BY <1>1, <1>2 DEF ProviderDelivers, ProviderRefuses, PostType
<1>3. ASSUME NEW b \in Attempt, Post(b)
      PROVE  post'[a] = post[a]
  BY <1>1, <1>3 DEF Post, PostType
<1>4. CASE UNCHANGED post
  BY <1>4
<1> QED
  BY <1>2, <1>3, <1>4
  DEF Next, vars, Handle, Advance, ClaimOutbound, FailBeforePost, AnswerAccepted,
      AnswerRejected, AnswerMissing, CompleteOutbound, UncertainOutbound, RetryOutbound,
      Settle, Crash, Tick

LEMMA KeepingIsInductive ==
  ASSUME Punctual, Inv, Exclusion, [Next]_vars,
         NEW a \in Attempt, Kept(a)
  PROVE  Kept(a)'
<1>1. attempt \in AttemptType /\ post \in PostType /\ Causal(a)
  BY DEF Inv, TypeOK, AttemptType, PostType
<1>2. CASE attempt'[a] = attempt[a]
  <2>1. ~Post(a)
    BY <1>1, <1>2 DEF Post, At, Go, AttemptType
  <2>2. post'[a] = post[a] \/ post[a] = "inflight"
    BY <1>1, <2>1, PostsMove DEF PostType
  <2>3. ASSUME Told(a), Unanswered(a)
        PROVE  Closed(attempt[a].event)'
    <3>1. PICK e \in Event : attempt[a].event = e
      BY <1>1, <2>3 DEF Causal, Unanswered
    <3>2. Closed(e)'
      BY <2>3, <3>1, ClosedForGood DEF Kept
    <3> QED
      BY <1>2, <3>1, <3>2 DEF Closed, Value
  <2>4. (Told(a)' <=> Told(a)) /\ (Unanswered(a)' => Unanswered(a))
    BY <1>2, <2>2 DEF Told, Unanswered
  <2> QED
    BY <1>2, <2>3, <2>4 DEF Kept, At
<1>3. ASSUME attempt'[a].pc \notin {"done", "retryable"}, attempt'[a].result = Nil
      PROVE  Kept(a)'
  BY <1>3, UnreportedAssumption DEF Kept, At, Told, Report
<1>4. CASE \E e \in Event : Handle(a, e)
  BY <1>1, <1>3, <1>4 DEF Handle, At, AttemptType, Kept
<1>5. CASE Post(a) \/ AnswerAccepted(a) \/ AnswerMissing(a) \/ Crash(a)
  <2>1. attempt[a].pc # "done"
    BY <1>5 DEF Post, AnswerAccepted, AnswerMissing, Crash, At
  <2>2. /\ attempt'[a].result = attempt[a].result
        /\ attempt'[a].pc \in {"posted", "complete", "uncertain", "dead"}
    BY <1>1, <1>5 DEF Post, AnswerAccepted, AnswerMissing, Crash, Go, Hear, AttemptType
  <2> QED
    BY <1>3, <2>1, <2>2 DEF Kept, At
<1>6. CASE FailBeforePost(a) \/ AnswerRejected(a)
  <2>1. attempt[a].result = Nil /\ UNCHANGED post
    BY <1>6 DEF FailBeforePost, AnswerRejected, At, Kept
  <2>2. post[a] = "none" \/ attempt'[a].answer = "error"
    BY <1>1, <1>6 DEF FailBeforePost, AnswerRejected, Hear, At, Causal, AttemptType
  <2>3. attempt'[a].result = Nil
    BY <1>1, <1>6, <2>1 DEF FailBeforePost, AnswerRejected, Go, Hear, AttemptType
  <2> QED
    BY <2>1, <2>2, <2>3, UnreportedAssumption DEF Kept, Told, Unanswered, Report
<1>7. CASE ClaimOutbound(a)
  <2>1. UNCHANGED post /\ post[a] = "none" /\ attempt[a].result = Nil
    BY <1>1, <1>7 DEF ClaimOutbound, At, Causal, Kept
  <2>2. \/ attempt'[a].pc = "done"
        \/ attempt'[a].pc = "claimed" /\ attempt'[a].result = Nil
    BY <1>1, <1>7, <2>1 DEF ClaimOutbound, Go, Return, AttemptType
  <2> QED
    BY <2>1, <2>2 DEF Kept, Unanswered, At
<1>8. CASE RetryOutbound(a)
  <2>1. /\ UNCHANGED post /\ ~Unanswered(a)
        /\ attempt'[a].pc = "done" /\ attempt'[a].answer = attempt[a].answer
    BY <1>1, <1>8 DEF RetryOutbound, Settle, Return, Kept, At, AttemptType
  <2> QED
    BY <2>1 DEF Kept, Unanswered, At
<1>9. CASE CompleteOutbound(a) \/ UncertainOutbound(a)
  <2>1. PICK e \in Event : attempt[a].event = e
    BY <1>1, <1>9 DEF CompleteOutbound, UncertainOutbound, Settle, At, Causal
  <2>2. attempt'[a].pc = "done" /\ attempt'[a].event = e
    BY <1>1, <1>9, <2>1
    DEF CompleteOutbound, UncertainOutbound, Settle, Return, AttemptType
  <2>3. Closed(e)' \/ ~Told(a)'
    BY <1>9, <2>1, SettlementsClose DEF Told
  <2>4. Closed(e)' => Closed(attempt[a].event)'
    BY <2>2 DEF Closed, Value
  <2> QED
    BY <2>2, <2>3, <2>4 DEF Kept, At
<1> QED
  BY <1>2, <1>4, <1>5, <1>6, <1>7, <1>8, <1>9, OneActs DEF Advance

(* In a punctual deployment a text that went to the provider is sent again *)
(* after its attempt has reported to Eve only if the provider answered     *)
(* that attempt with an error, whatever else the provider hides or the     *)
(* store loses (channel.ts, the error handlers around sendMessage).        *)
THEOREM RetriesAreNotBlind ==
  ASSUME Punctual
  PROVE  Spec => NeverBlindRetry
<1> DEFINE Keeping == \A a \in Attempt : Kept(a)
<1>1. Init => Exclusion /\ Keeping
  BY UnreportedAssumption
  DEF Init, Exclusion, Alone, Holding, Sending, Settling, Kept, Told, At, Report
<1>2. Inv /\ Exclusion /\ Keeping /\ [Next]_vars => Exclusion' /\ Keeping'
  BY ExclusionIsInductive, KeepingIsInductive
<1> DEFINE Blind ==
      \E a, b \in Attempt :
        /\ post[a] = "none" /\ post'[a] = "inflight"
        /\ attempt[b].event = attempt[a].event
        /\ attempt[b].result \in {"sendAccepted", "deliveryError"}
        /\ post[b] # "none" /\ attempt[b].answer # "error"
<1>3. ASSUME Inv, Exclusion, Keeping, [Next]_vars
      PROVE  ~Blind
  <2> SUFFICES ASSUME NEW a \in Attempt, NEW b \in Attempt,
                      post[a] = "none", post'[a] = "inflight",
                      attempt[b].event = attempt[a].event, Told(b), Unanswered(b)
               PROVE  FALSE
    BY <1>3 DEF Told, Unanswered
  <2>1. Post(a)
    BY <1>3, PostsMove
  <2>2. Value(attempt[a].event) = "claimed"
    BY <1>3, <2>1 DEF Exclusion, Alone, Post, At, Holding, Sending
  <2>3. Closed(attempt[a].event)
    BY <1>3 DEF Kept
  <2> QED
    BY <2>2, <2>3, OutboundAssumption DEF Closed, ReplayStatus
<1>4. Inv /\ Exclusion /\ Keeping /\ [Next]_vars =>
        [\A a, b \in Attempt :
           /\ post[a] = "none" /\ post'[a] = "inflight"
           /\ attempt[b].event = attempt[a].event
           /\ attempt[b].result \in {"sendAccepted", "deliveryError"}
           /\ post[b] # "none"
           => attempt[b].answer = "error"]_vars
  BY <1>3
<1> QED
  BY <1>1, <1>2, <1>4, Invariance, PTL DEF Spec, NeverBlindRetry

-----------------------------------------------------------------------------
(* The memory layer of the store.                                          *)

(* What transactions over some keys and values may ask for (the schemas of *)
(* packages/store/src/schemas.ts: a time to live is a positive integer).   *)
Transactions(Keys, Values) ==
  [conditions : UNION {[named -> Values \cup {Nil}] : named \in SUBSET Keys},
   mutations  : UNION {[named -> [value : Values, ttl : (Nat \ {0}) \cup {Nil}] \cup {Gone}]
                         : named \in SUBSET Keys}]

(* An entry under a key that is live, and one under a key that is not.     *)
Live(state, now, key) ==
  key \in DOMAIN state /\ (state[key].expiresAt # Nil => state[key].expiresAt > now)

LEMMA LiveAt ==
  ASSUME NEW state, NEW now, NEW key
  PROVE  /\ key \in DOMAIN WithoutExpiredEntries(state, now) <=> Live(state, now, key)
         /\ Live(state, now, key) => WithoutExpiredEntries(state, now)[key] = state[key]
BY DEF WithoutExpiredEntries, Live

LEMMA RemainingAt ==
  ASSUME NEW Keys, NEW state, NEW now, NEW key \in Keys
  PROVE  Remaining(Keys, state, now)[key] =
           IF Live(state, now, key)
           THEN Put(state[key].value,
                    IF state[key].expiresAt = Nil THEN Nil ELSE state[key].expiresAt - now)
           ELSE Gone
BY LiveAt DEF Remaining

LEMMA PutHolds ==
  ASSUME NEW value, NEW ttl
  PROVE  Put(value, ttl).value = value /\ Put(value, ttl).ttl = ttl
BY DEF Put

LEMMA HeldAt ==
  ASSUME NEW Keys, NEW Values, NEW state \in MemoryState(Keys, Values)
  PROVE  /\ DOMAIN state \subseteq Keys
         /\ \A key \in DOMAIN state :
              state[key] \in [value : Values, expiresAt : Nat \cup {Nil}]
BY DEF MemoryState

LEMMA StatesAreFunctions ==
  ASSUME NEW Keys, NEW Values, NEW held \in SUBSET Keys,
         NEW state \in [held -> [value : Values, expiresAt : Nat \cup {Nil}]]
  PROVE  state \in MemoryState(Keys, Values)
BY DEF MemoryState

LEMMA LiveIsAState ==
  ASSUME NEW Keys, NEW Values, NEW now, NEW state \in MemoryState(Keys, Values)
  PROVE  /\ WithoutExpiredEntries(state, now) \in MemoryState(Keys, Values)
         /\ WithoutExpiredEntries(WithoutExpiredEntries(state, now), now) =
              WithoutExpiredEntries(state, now)
<1> DEFINE live == WithoutExpiredEntries(state, now)
           held == {k \in DOMAIN state : state[k].expiresAt # Nil => state[k].expiresAt > now}
<1>1. live = [key \in held |-> state[key]] /\ DOMAIN live = held
  BY DEF WithoutExpiredEntries
<1>2. held \in SUBSET Keys
  BY HeldAt
<1>3. live \in [held -> [value : Values, expiresAt : Nat \cup {Nil}]]
  BY <1>1, HeldAt
<1>4. live \in MemoryState(Keys, Values)
  BY <1>2, <1>3, StatesAreFunctions
<1>5. \A k \in held : live[k] = state[k]
  BY <1>1
<1> HIDE DEF live
<1>6. {k \in DOMAIN live : live[k].expiresAt # Nil => live[k].expiresAt > now} = held
  <2>1. \A k \in held : live[k].expiresAt # Nil => live[k].expiresAt > now
    BY <1>5
  <2>2. DOMAIN live = held
    BY <1>1
  <2> HIDE DEF held
  <2> QED
    BY <2>1, <2>2
<1>7. WithoutExpiredEntries(live, now) = [key \in held |-> live[key]]
  <2> DEFINE again == {k \in DOMAIN live : live[k].expiresAt # Nil => live[k].expiresAt > now}
  <2>1. WithoutExpiredEntries(live, now) = [key \in again |-> live[key]]
    BY DEF WithoutExpiredEntries
  <2>2. again = held
    BY <1>6
  <2> HIDE DEF again, held
  <2> QED
    BY <2>1, <2>2
<1>8. WithoutExpiredEntries(live, now) = live
  BY <1>3, <1>7
<1> QED
  BY <1>4, <1>8 DEF live

(* Reading drops what has expired and changes nothing that can be seen.    *)
LEMMA ReadingKeepsRemaining ==
  ASSUME NEW Keys, NEW Values, NEW now \in Nat,
         NEW state \in MemoryState(Keys, Values), NEW key \in Keys
  PROVE  /\ Remaining(Keys, WithoutExpiredEntries(state, now), now) = Remaining(Keys, state, now)
         /\ MemoryGet(state, key, now) = Read(Remaining(Keys, state, now), key)
<1>1. Remaining(Keys, WithoutExpiredEntries(state, now), now) = Remaining(Keys, state, now)
  BY LiveIsAState DEF Remaining
<1>2. MemoryGet(state, key, now) = Read(Remaining(Keys, state, now), key)
  BY DEF MemoryGet, Remaining, Read, Put, Gone
<1> QED
  BY <1>1, <1>2

(* One unit of time is Aged.                                               *)
LEMMA ClockAges ==
  ASSUME Nil \notin Nat, NEW Keys, NEW Values, NEW now \in Nat,
         NEW state \in MemoryState(Keys, Values)
  PROVE  Remaining(Keys, state, now + 1) = Aged(Remaining(Keys, state, now))
<1>1. ASSUME NEW key \in Keys
      PROVE  Remaining(Keys, state, now + 1)[key] = Aged(Remaining(Keys, state, now))[key]
  <2> DEFINE was == Remaining(Keys, state, now)[key]
             is  == Remaining(Keys, state, now + 1)[key]
  <2>1. Aged(Remaining(Keys, state, now))[key] =
          IF was.ttl = Nil THEN was
          ELSE IF was.ttl = 1 THEN Gone
          ELSE Put(was.value, was.ttl - 1)
    BY DEF Aged, Remaining
  <2>2. CASE ~Live(state, now, key)
    <3>1. ~Live(state, now + 1, key)
      BY <2>2, HeldAt DEF Live
    <3>2. was = Gone /\ is = Gone
      BY <2>2, <3>1, RemainingAt
    <3> QED
      BY <2>1, <3>2 DEF Gone, Put
  <2>3. CASE Live(state, now, key) /\ state[key].expiresAt = Nil
    <3>1. Live(state, now + 1, key)
      BY <2>3 DEF Live
    <3>2. was = Put(state[key].value, Nil) /\ is = Put(state[key].value, Nil)
      BY <2>3, <3>1, RemainingAt
    <3> QED
      BY <2>1, <3>2 DEF Put
  <2>4. CASE Live(state, now, key) /\ state[key].expiresAt # Nil
    <3>1. PICK end \in Nat : end = state[key].expiresAt
      BY <2>4, HeldAt DEF Live
    <3>2. end > now
      BY <2>4, <3>1 DEF Live
    <3>3. was = Put(state[key].value, end - now) /\ was.ttl = end - now /\ end - now \in Nat
      <4>1. was = Put(state[key].value, end - now)
        BY <2>4, <3>1, RemainingAt
      <4>2. end - now \in Nat
        BY <3>2
      <4> QED
        BY <4>1, <4>2, PutHolds
    <3>4. CASE end = now + 1
      <4>1. ~Live(state, now + 1, key) /\ was.ttl = 1
        BY <2>4, <3>1, <3>3, <3>4 DEF Live
      <4>2. is = Gone
        BY <4>1, RemainingAt
      <4>3. 1 # Nil
        OBVIOUS
      <4> QED
        BY <2>1, <4>1, <4>2, <4>3
    <3>5. CASE end # now + 1
      <4>1. end > now + 1
        BY <3>1, <3>2, <3>5
      <4>2. Live(state, now + 1, key)
        BY <2>4, <3>1, <4>1 DEF Live
      <4>3. is = Put(state[key].value, end - (now + 1))
        BY <2>4, <3>1, <4>2, RemainingAt
      <4>4. (end - now) - 1 = end - (now + 1) /\ end - now # 1
        BY <3>1, <4>1
      <4>5. was.ttl # Nil /\ was.value = state[key].value
        BY <3>3 DEF Put
      <4> QED
        BY <2>1, <3>3, <4>3, <4>4, <4>5
    <3> QED
      BY <3>4, <3>5
  <2> QED
    BY <2>2, <2>3, <2>4
<1> QED
  BY <1>1 DEF Aged, Remaining

LEMMA MemoryChecksWhatHolds ==
  ASSUME NEW Keys, NEW Values, Nil \notin Values, NEW now \in Nat,
         NEW state \in MemoryState(Keys, Values), NEW txn \in Transactions(Keys, Values)
  PROVE  MemoryHolds(WithoutExpiredEntries(state, now), txn)
           <=> Holds(Remaining(Keys, state, now), txn)
<1>1. DOMAIN txn.conditions \subseteq Keys
  BY DEF Transactions
<1>2. ASSUME NEW key \in DOMAIN txn.conditions
      PROVE  (IF txn.conditions[key] = Nil
              THEN key \notin DOMAIN WithoutExpiredEntries(state, now)
              ELSE /\ key \in DOMAIN WithoutExpiredEntries(state, now)
                   /\ WithoutExpiredEntries(state, now)[key].value = txn.conditions[key])
             <=> Read(Remaining(Keys, state, now), key) = txn.conditions[key]
  <2>1. CASE Live(state, now, key)
    <3>1. Read(Remaining(Keys, state, now), key) = state[key].value
      <4>1. Remaining(Keys, state, now)[key] =
              Put(state[key].value,
                  IF state[key].expiresAt = Nil THEN Nil ELSE state[key].expiresAt - now)
        BY <1>1, <2>1, RemainingAt
      <4> QED
        BY <4>1, PutHolds DEF Read
    <3>2. state[key].value \in Values
      BY <2>1, HeldAt DEF Live
    <3> QED
      BY <2>1, <3>1, <3>2, LiveAt
  <2>2. CASE ~Live(state, now, key)
    <3>1. Read(Remaining(Keys, state, now), key) = Nil
      <4>1. Remaining(Keys, state, now)[key] = Gone
        BY <1>1, <2>2, RemainingAt
      <4> QED
        BY <4>1, PutHolds DEF Read, Gone
    <3> QED
      BY <2>2, <3>1, LiveAt
  <2> QED
    BY <2>1, <2>2
<1> QED
  BY <1>2 DEF MemoryHolds, Holds

LEMMA MemoryWrites ==
  ASSUME Nil \notin Nat, NEW Keys, NEW Values, Nil \notin Values, NEW now \in Nat,
         NEW state \in MemoryState(Keys, Values), NEW txn \in Transactions(Keys, Values)
  PROVE  /\ MemoryWritten(WithoutExpiredEntries(state, now), txn, now)
              \in MemoryState(Keys, Values)
         /\ Remaining(Keys, MemoryWritten(WithoutExpiredEntries(state, now), txn, now), now) =
              Written(Remaining(Keys, state, now), txn)
<1> DEFINE live == WithoutExpiredEntries(state, now)
           next == MemoryWritten(live, txn, now)
<1>1. /\ DOMAIN txn.mutations \subseteq Keys
      /\ \A key \in DOMAIN txn.mutations :
           txn.mutations[key] \in [value : Values, ttl : (Nat \ {0}) \cup {Nil}] \cup {Gone}
  BY DEF Transactions
<1>2. DOMAIN next = (DOMAIN live \cup DOMAIN txn.mutations) \ Removed(txn)
  BY DEF MemoryWritten
<1>3. /\ DOMAIN live \subseteq Keys
      /\ \A key \in DOMAIN live : live[key] \in [value : Values, expiresAt : Nat \cup {Nil}]
  BY LiveIsAState, HeldAt
<1>4. ASSUME NEW key \in DOMAIN txn.mutations, txn.mutations[key] # Gone
      PROVE  \E value \in Values, ttl \in (Nat \ {0}) \cup {Nil} :
               /\ txn.mutations[key] = Put(value, ttl)
               /\ key \in DOMAIN next
               /\ next[key] = MemoryEntry(value, IF ttl = Nil THEN Nil ELSE now + ttl)
  <2>1. PICK entry \in [value : Values, ttl : (Nat \ {0}) \cup {Nil}] : txn.mutations[key] = entry
    BY <1>1, <1>4
  <2>2. entry = Put(entry.value, entry.ttl)
    BY DEF Put
  <2>3. key \in DOMAIN next
    BY <1>2, <1>4 DEF Removed
  <2>4. next[key] = MemoryEntry(entry.value, IF entry.ttl = Nil THEN Nil ELSE now + entry.ttl)
    BY <1>2, <2>1, <2>3 DEF MemoryWritten
  <2>5. entry.value \in Values /\ entry.ttl \in (Nat \ {0}) \cup {Nil}
    OBVIOUS
  <2> QED
    BY <2>1, <2>2, <2>3, <2>4, <2>5
<1>5. next \in MemoryState(Keys, Values)
  <2>1. ASSUME NEW key \in DOMAIN next
        PROVE  next[key] \in [value : Values, expiresAt : Nat \cup {Nil}]
    <3>1. CASE key \in DOMAIN txn.mutations
      <4>1. PICK value \in Values, ttl \in (Nat \ {0}) \cup {Nil} :
              next[key] = MemoryEntry(value, IF ttl = Nil THEN Nil ELSE now + ttl)
        BY <1>2, <1>4, <2>1, <3>1 DEF Removed
      <4>2. (IF ttl = Nil THEN Nil ELSE now + ttl) \in Nat \cup {Nil}
        OBVIOUS
      <4> QED
        BY <4>1, <4>2 DEF MemoryEntry
    <3>2. CASE key \notin DOMAIN txn.mutations
      BY <1>2, <1>3, <2>1, <3>2 DEF MemoryWritten
    <3> QED
      BY <3>1, <3>2
  <2>2. next \in [DOMAIN next -> [value : Values, expiresAt : Nat \cup {Nil}]]
    <3> DEFINE held == (DOMAIN live \cup DOMAIN txn.mutations) \ Removed(txn)
               EntryAt(key) == IF key \in DOMAIN txn.mutations
                               THEN MemoryEntry(txn.mutations[key].value,
                                                IF txn.mutations[key].ttl = Nil THEN Nil
                                                ELSE now + txn.mutations[key].ttl)
                               ELSE live[key]
    <3>1. next = [key \in held |-> EntryAt(key)]
      BY DEF MemoryWritten
    <3> HIDE DEF held, EntryAt, next
    <3> QED
      BY <2>1, <3>1
  <2>3. DOMAIN next \in SUBSET Keys
    BY <1>1, <1>2, <1>3
  <2> QED
    BY <2>2, <2>3, StatesAreFunctions
<1>6. ASSUME NEW key \in Keys
      PROVE  Remaining(Keys, next, now)[key] = Written(Remaining(Keys, state, now), txn)[key]
  <2>1. Written(Remaining(Keys, state, now), txn)[key] =
          IF key \in DOMAIN txn.mutations THEN txn.mutations[key]
          ELSE Remaining(Keys, state, now)[key]
    BY DEF Written, Remaining
  <2>2. CASE key \in DOMAIN txn.mutations /\ txn.mutations[key] = Gone
    <3>1. ~Live(next, now, key)
      BY <1>2, <2>2 DEF Live, Removed
    <3> QED
      BY <2>1, <2>2, <3>1, RemainingAt
  <2>3. CASE key \in DOMAIN txn.mutations /\ txn.mutations[key] # Gone
    <3>1. PICK value \in Values, ttl \in (Nat \ {0}) \cup {Nil} :
            /\ txn.mutations[key] = Put(value, ttl)
            /\ key \in DOMAIN next
            /\ next[key] = MemoryEntry(value, IF ttl = Nil THEN Nil ELSE now + ttl)
      BY <1>4, <2>3
    <3>2. CASE ttl = Nil
      <4>1. next[key].value = value /\ next[key].expiresAt = Nil
        BY <3>1, <3>2 DEF MemoryEntry
      <4>2. Live(next, now, key)
        BY <3>1, <4>1 DEF Live
      <4> QED
        BY <2>1, <2>3, <3>1, <3>2, <4>1, <4>2, RemainingAt
    <3>3. CASE ttl # Nil
      <4>1. next[key].value = value /\ next[key].expiresAt = now + ttl
        BY <3>1, <3>3 DEF MemoryEntry
      <4>2. now + ttl # Nil /\ now + ttl > now /\ (now + ttl) - now = ttl
        BY <3>3
      <4>3. Live(next, now, key)
        BY <3>1, <4>1, <4>2 DEF Live
      <4> QED
        BY <2>1, <2>3, <3>1, <4>1, <4>2, <4>3, RemainingAt
    <3> QED
      BY <3>2, <3>3
  <2>4. CASE key \notin DOMAIN txn.mutations
    <3>1. key \in DOMAIN next <=> key \in DOMAIN live
      BY <1>2, <2>4 DEF Removed
    <3>2. key \in DOMAIN live => next[key] = state[key]
      BY <1>2, <2>4, <3>1, LiveAt DEF MemoryWritten
    <3>3. Live(next, now, key) <=> Live(state, now, key)
      BY <3>1, <3>2, LiveAt DEF Live
    <3>4. Live(state, now, key) => next[key] = state[key]
      BY <3>2, LiveAt
    <3>5. Remaining(Keys, next, now)[key] = Remaining(Keys, state, now)[key]
      BY <3>3, <3>4, RemainingAt
    <3> QED
      BY <2>1, <2>4, <3>5
  <2> QED
    BY <2>2, <2>3, <2>4
<1>7. Remaining(Keys, next, now) = Written(Remaining(Keys, state, now), txn)
  BY <1>6 DEF Remaining, Written
<1> QED
  BY <1>5, <1>7

(* The memory layer is the store that every model here uses, with an       *)
(* entry's expiry told by what is left of it: it answers and leaves what   *)
(* the store's transaction does, a read finds what the store holds, and a  *)
(* clock that moves on by one is Aged (PersistenceMemory of                *)
(* memory.layer.ts).                                                       *)
THEOREM MemoryIsTheStore ==
  ASSUME Nil \notin Nat,
         NEW Keys, NEW Values, Nil \notin Values,
         NEW now \in Nat, NEW state \in MemoryState(Keys, Values),
         NEW txn \in Transactions(Keys, Values), NEW key \in Keys
  PROVE  /\ MemoryTransacted(state, txn, now) \in MemoryState(Keys, Values)
         /\ MemoryOutcome(state, txn, now) = Outcome(Remaining(Keys, state, now), txn)
         /\ Remaining(Keys, MemoryTransacted(state, txn, now), now) =
              Transacted(Remaining(Keys, state, now), txn)
         /\ MemoryGet(state, key, now) = Read(Remaining(Keys, state, now), key)
         /\ Remaining(Keys, WithoutExpiredEntries(state, now), now) = Remaining(Keys, state, now)
         /\ Remaining(Keys, state, now + 1) = Aged(Remaining(Keys, state, now))
<1>1. MemoryHolds(WithoutExpiredEntries(state, now), txn)
        <=> Holds(Remaining(Keys, state, now), txn)
  BY MemoryChecksWhatHolds
<1>2. MemoryOutcome(state, txn, now) = Outcome(Remaining(Keys, state, now), txn)
  BY <1>1 DEF MemoryOutcome, Outcome
<1>3. CASE Holds(Remaining(Keys, state, now), txn)
  <2>1. /\ MemoryTransacted(state, txn, now) =
             MemoryWritten(WithoutExpiredEntries(state, now), txn, now)
        /\ Transacted(Remaining(Keys, state, now), txn) =
             Written(Remaining(Keys, state, now), txn)
    BY <1>1, <1>3 DEF MemoryTransacted, Transacted
  <2> QED
    BY <1>2, <2>1, MemoryWrites, ReadingKeepsRemaining, ClockAges
<1>4. CASE ~Holds(Remaining(Keys, state, now), txn)
  <2>1. /\ MemoryTransacted(state, txn, now) = WithoutExpiredEntries(state, now)
        /\ Transacted(Remaining(Keys, state, now), txn) = Remaining(Keys, state, now)
    BY <1>1, <1>4 DEF MemoryTransacted, Transacted
  <2> QED
    BY <1>2, <2>1, LiveIsAState, ReadingKeepsRemaining, ClockAges
<1> QED
  BY <1>3, <1>4

(* A native set or remove beside the transactions is one without           *)
(* conditions, of an entry that does not expire or of none, although it    *)
(* leaves expired entries in the map (set and remove of memory.layer.ts).  *)
THEOREM NativeWritesAreTransactions ==
  ASSUME NEW Keys, NEW Values, NEW now \in Nat, NEW state \in MemoryState(Keys, Values),
         NEW key \in Keys, NEW value \in Values
  PROVE  /\ MemorySet(state, key, value) \in MemoryState(Keys, Values)
         /\ Remaining(Keys, MemorySet(state, key, value), now) =
              Transacted(Remaining(Keys, state, now),
                         Transaction([k \in {} |-> Nil], [k \in {key} |-> Put(value, Nil)]))
         /\ MemoryRemove(state, key) \in MemoryState(Keys, Values)
         /\ Remaining(Keys, MemoryRemove(state, key), now) =
              Transacted(Remaining(Keys, state, now),
                         Transaction([k \in {} |-> Nil], [k \in {key} |-> Gone]))
<1> DEFINE set     == MemorySet(state, key, value)
           without == MemoryRemove(state, key)
           store   == Remaining(Keys, state, now)
<1>1. /\ DOMAIN state \in SUBSET Keys
      /\ \A k \in DOMAIN state : state[k] \in [value : Values, expiresAt : Nat \cup {Nil}]
  BY HeldAt
<1>2. /\ DOMAIN set = DOMAIN state \cup {key}
      /\ set[key] = MemoryEntry(value, Nil)
      /\ \A k \in DOMAIN state \ {key} : set[k] = state[k]
  BY DEF MemorySet
<1>3. /\ DOMAIN without = DOMAIN state \ {key}
      /\ \A k \in DOMAIN state \ {key} : without[k] = state[k]
  BY DEF MemoryRemove
<1>4. set \in MemoryState(Keys, Values)
  <2>1. set \in [DOMAIN state \cup {key} -> [value : Values, expiresAt : Nat \cup {Nil}]]
    BY <1>1 DEF MemorySet, MemoryEntry
  <2>2. DOMAIN state \cup {key} \in SUBSET Keys
    BY <1>1
  <2> QED
    BY <2>1, <2>2, StatesAreFunctions
<1>5. without \in MemoryState(Keys, Values)
  <2>1. without \in [DOMAIN state \ {key} -> [value : Values, expiresAt : Nat \cup {Nil}]]
    BY <1>1 DEF MemoryRemove
  <2>2. DOMAIN state \ {key} \in SUBSET Keys
    BY <1>1
  <2> QED
    BY <2>1, <2>2, StatesAreFunctions
<1> HIDE DEF set, without
<1>6. ASSUME NEW entry
      PROVE  Transacted(store, Transaction([k \in {} |-> Nil], [k \in {key} |-> entry])) =
               [k \in Keys |-> IF k = key THEN entry ELSE store[k]]
  <2> DEFINE txn == Transaction([k \in {} |-> Nil], [k \in {key} |-> entry])
  <2>1. /\ DOMAIN txn.conditions = {}
        /\ DOMAIN txn.mutations = {key}
        /\ txn.mutations[key] = entry
    BY DEF Transaction
  <2> HIDE DEF txn
  <2>2. Transacted(store, txn) = Written(store, txn)
    BY <2>1 DEF Transacted, Holds
  <2>3. DOMAIN store = Keys
    BY DEF Remaining
  <2> HIDE DEF store
  <2>4. Written(store, txn) =
          [k \in Keys |-> IF k \in {key} THEN txn.mutations[k] ELSE store[k]]
    BY <2>1, <2>3 DEF Written
  <2>5. Written(store, txn) = [k \in Keys |-> IF k = key THEN entry ELSE store[k]]
    BY <2>1, <2>4
  <2> QED
    BY <2>2, <2>5 DEF txn
<1>7. ASSUME NEW k \in Keys
      PROVE  /\ Remaining(Keys, set, now)[k] = IF k = key THEN Put(value, Nil) ELSE store[k]
             /\ Remaining(Keys, without, now)[k] = IF k = key THEN Gone ELSE store[k]
  <2>1. CASE k = key
    <3>1. set[key].value = value /\ set[key].expiresAt = Nil
      BY <1>2 DEF MemoryEntry
    <3>2. Live(set, now, key) /\ ~Live(without, now, key)
      BY <1>2, <1>3, <3>1 DEF Live
    <3> QED
      BY <2>1, <3>1, <3>2, RemainingAt
  <2>2. CASE k # key
    <3>1. /\ Live(set, now, k) <=> Live(state, now, k)
          /\ Live(without, now, k) <=> Live(state, now, k)
      BY <1>2, <1>3, <2>2 DEF Live
    <3>2. Live(state, now, k) => set[k] = state[k] /\ without[k] = state[k]
      BY <1>2, <1>3, <2>2 DEF Live
    <3> QED
      BY <2>2, <3>1, <3>2, RemainingAt
  <2> QED
    BY <2>1, <2>2
<1>8. Remaining(Keys, set, now) = [k \in Keys |-> IF k = key THEN Put(value, Nil) ELSE store[k]]
  BY <1>7 DEF Remaining
<1>9. Remaining(Keys, without, now) = [k \in Keys |-> IF k = key THEN Gone ELSE store[k]]
  BY <1>7 DEF Remaining
<1> QED
  BY <1>4, <1>5, <1>6, <1>8, <1>9 DEF set, without

=============================================================================
