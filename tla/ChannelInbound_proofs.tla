------------------------ MODULE ChannelInbound_proofs ------------------------
(***************************************************************************)
(* Proofs about ChannelInbound, for any number of messages, conversations, *)
(* sessions, deliveries and faults, and whether or not leases lapse under  *)
(* their holders, unless a theorem assumes Punctual.  StoreSteps says all  *)
(* that a step may do to the store; Causal says what a delivery and a      *)
(* session have behind them when they do it.  In a punctual deployment     *)
(* Guard says who protects a message and Sealed when nobody has to, and    *)
(* Counted pays for every send that neither of them covers with a fault.   *)
(***************************************************************************)
EXTENDS ChannelInbound, TLAPS, FiniteSetTheorems

(* Whatever a transaction answers, the store is as it was, or all of the   *)
(* conditions held and all of the mutations were written; an answer        *)
(* "applied" means the latter, any other one may hide either (transact of  *)
(* upstash-layer.internal.ts).                                             *)
LEMMA TransactionIsAtomic ==
  ASSUME NEW txn, NEW result, Transact(txn, result)
  PROVE  /\ db' = db \/ (Holds(db, txn) /\ db' = Written(db, txn))
         /\ result = "applied"  => Holds(db, txn) /\ db' = Written(db, txn)
BY DEF Transact, Outcome, Transacted

(* A store of well-formed entries is well-formed after a transaction whose *)
(* mutations are well-formed.                                              *)
LEMMA WrittenIsTyped ==
  ASSUME NEW Keys, NEW Entries,
         db \in [Keys -> Entries],
         NEW txn,
         \A key \in DOMAIN txn.mutations : txn.mutations[key] \in Entries
  PROVE  Written(db, txn) \in [Keys -> Entries]
BY DEF Written

(* Time leaves well-formed entries well-formed: what is left of one is     *)
(* never zero.                                                             *)
LEMMA AgedIsTyped ==
  ASSUME NEW Keys, NEW Values,
         db \in [Keys -> [value : Values, ttl : Nat \ {0}] \cup {Gone}]
  PROVE  Aged(db) \in [Keys -> [value : Values, ttl : Nat \ {0}] \cup {Gone}]
<1> DEFINE Entries == [value : Values, ttl : Nat \ {0}]
<1>1. ASSUME NEW key \in Keys
      PROVE  Aged(db)[key] \in Entries \cup {Gone}
  <2>1. Aged(db)[key] = IF db[key].ttl = Nil THEN db[key]
                        ELSE IF db[key].ttl = 1 THEN Gone
                        ELSE Put(db[key].value, db[key].ttl - 1)
    BY DEF Aged
  <2>2. CASE db[key] \in Entries
    BY <2>1, <2>2 DEF Put
  <2>3. CASE db[key] = Gone
    BY <2>1, <2>3 DEF Gone, Put
  <2> QED
    BY <2>2, <2>3
<1> QED
  BY <1>1 DEF Aged

(* Time changes a value only by taking away an entry on its last tick.     *)
LEMMA AgingKeepsValues ==
  ASSUME NEW key \in DOMAIN db, db' = Aged(db)
  PROVE  \/ db'[key].value = db[key].value
         \/ db[key].ttl = 1 /\ db'[key] = Gone
BY DEF Aged, Put

(* What a transaction leaves under one key.                                *)
LEMMA WrittenAt ==
  ASSUME NEW txn, NEW key \in DOMAIN db
  PROVE  Written(db, txn)[key] =
           IF key \in DOMAIN txn.mutations THEN txn.mutations[key] ELSE db[key]
BY DEF Written

Typed == [Key -> Entry \cup {Gone}]

(* Keys of different kinds differ, and so do keys of one kind.             *)
LEMMA KeysAreDistinct ==
  /\ \A m, n : InboundKey(m) = InboundKey(n) => m = n
  /\ \A t, u : ContinuityKey(t) = ContinuityKey(u) => t = u
  /\ \A s, z : TerminalKey(s) = TerminalKey(z) => s = z
  /\ \A m, t : InboundKey(m) # ContinuityKey(t)
  /\ \A m, s : InboundKey(m) # TerminalKey(s)
  /\ \A t, s : ContinuityKey(t) # TerminalKey(s)
BY DEF InboundKey, ContinuityKey, TerminalKey

-----------------------------------------------------------------------------
(* What lies behind each point of a delivery.                              *)

(* A delivery that acts for a message has one; it has not sent before it   *)
(* starts to; it records, acknowledges and reports only what Eve accepted; *)
(* and the session that accepted it belongs to its conversation.           *)
Causal(r) ==
  /\ delivery[r].pc # "idle" => delivery[r].message \in Message
  /\ delivery[r].pc \in {"idle", "claim", "prepare", "dispatch"} => send[r].status = "none"
  /\ delivery[r].pc \in {"acceptNew", "acceptResumed", "converge", "respond"} =>
       send[r].status = "accepted"
  /\ delivery[r].disposition \in {"acceptedForDispatch", "providerRetryRequested"} =>
       /\ delivery[r].pc = "done"
       /\ send[r].status = "accepted"
  /\ send[r].status = "accepted" =>
       /\ send[r].session \in Session
       /\ session[send[r].session].token = TokenOf[delivery[r].message]
       /\ session[send[r].session].status # "unused"

(* A session that is being settled has ended.                              *)
EndsAreReal ==
  \A s \in Session :
    session[s].ended # "no" => session[s].status \in {"completed", "failed"}

Inv ==
  /\ TypeOK
  /\ \A r \in Delivery : Causal(r)
  /\ EndsAreReal

-----------------------------------------------------------------------------
(* What a step may do to the store.                                        *)

Applied(txn) == Holds(db, txn) /\ db' = Written(db, txn)

AcceptedBy(r, continuity) ==
  Accept(delivery[r].message, TokenOf[delivery[r].message], send[r].session, continuity)

Settled(m) ==
  \/ Applied(Claim(InboundKey(m)))
  \/ Applied(Retain(InboundKey(m), "uncertain"))
  \/ Applied(Retryable(InboundKey(m)))

Bound(r) ==
  /\ delivery[r].pc \in {"acceptNew", "acceptResumed"}
  /\ \E continuity \in {Nil, send[r].session} : Applied(AcceptedBy(r, continuity))

Retired(s) ==
  /\ session[s].ended = "settle"
  /\ Applied(Retirement(session[s].token, s, session[s].status))

StoreSteps ==
  \/ db' = db
  \/ db' = Aged(db)
  \/ \E m \in Message : Settled(m)
  \/ \E r \in Delivery : Bound(r)
  \/ \E s \in Session : Retired(s)

(* The settlements of a claim, wherever a delivery makes them.             *)
LEMMA SettlementSteps ==
  ASSUME NEW r \in Delivery, delivery[r].message \in Message, NEW result,
         \/ Transact(Claim(Record(r)), result)
         \/ Transact(Retain(Record(r), "uncertain"), result)
         \/ Transact(Retryable(Record(r)), result)
  PROVE  StoreSteps
<1>1. db' = db \/ Settled(delivery[r].message)
  BY TransactionIsAtomic DEF Settled, Applied, Record
<1> QED
  BY <1>1 DEF StoreSteps

(* Every step of the system is one of these (every handler of eve.ts,      *)
(* channel.ts and replay.ts that writes, and the clock).                   *)
LEMMA StepsOfTheStore ==
  ASSUME Inv, [Next]_vars
  PROVE  StoreSteps
<1>1. ASSUME NEW r \in Delivery, Handle(r)
      PROVE  StoreSteps
  <2>1. CASE ClaimInbound(r)
    BY <2>1, SettlementSteps DEF ClaimInbound, Inv, Causal, At
  <2>2. CASE Release(r)
    BY <2>2, SettlementSteps DEF Release, Inv, Causal, At
  <2>3. CASE RetryInbound(r)
    BY <2>3, SettlementSteps DEF RetryInbound, Inv, Causal, At
  <2>4. CASE QuarantineInbound(r) \/ UncertainInbound(r)
    BY <2>4, SettlementSteps DEF QuarantineInbound, UncertainInbound, Inv, Causal, At
  <2>5. CASE AcceptInboundFork(r) \/ FinalizeInterrupt(r)
    BY <2>5, SettlementSteps DEF AcceptInboundFork, FinalizeInterrupt, Inv, Causal, At
  <2>6. CASE AcceptInboundNew(r)
    <3>1. PICK result : Transact(AcceptedBy(r, Nil), result)
      BY <2>6 DEF AcceptInboundNew, AcceptNew, AcceptedBy
    <3>2. db' = db \/ Applied(AcceptedBy(r, Nil))
      BY <3>1, TransactionIsAtomic DEF Applied
    <3> QED
      BY <2>6, <3>2 DEF AcceptInboundNew, StoreSteps, Bound, At
  <2>7. CASE AcceptInboundResumed(r)
    <3>1. PICK result : Transact(AcceptedBy(r, send[r].session), result)
      BY <2>7 DEF AcceptInboundResumed, AcceptResumed, AcceptedBy
    <3>2. db' = db \/ Applied(AcceptedBy(r, send[r].session))
      BY <3>1, TransactionIsAtomic DEF Applied
    <3> QED
      BY <2>7, <3>2 DEF AcceptInboundResumed, StoreSteps, Bound, At
  <2> QED
    BY <1>1, <2>1, <2>2, <2>3, <2>4, <2>5, <2>6, <2>7
    DEF Handle, StoreSteps, Prepare, StartSend, RejectSend, SendResolves, SendFails,
        SendTimesOut, Converge, ConvergeFork, Respond, RespondUncertain
<1>2. ASSUME NEW s \in Session, SettleSession(s)
      PROVE  StoreSteps
  <2>1. PICK result :
          Transact(Retirement(session[s].token, s, session[s].status), result)
    BY <1>2 DEF SettleSession
  <2>2. db' = db \/ Applied(Retirement(session[s].token, s, session[s].status))
    BY <2>1, TransactionIsAtomic DEF Applied
  <2> QED
    BY <1>2, <2>2 DEF SettleSession, StoreSteps, Retired
<1> QED
  BY <1>1, <1>2
  DEF Next, vars, StoreSteps, Receive, Refuse, Interrupt, Crash, EveAccepts, EveRefuses,
      SessionEnds, StopPresence, Tick

(* The store holds well-formed entries after every step.                   *)
LEMMA StoreStaysTyped ==
  ASSUME Inv, StoreSteps
  PROVE  db' \in Typed
<1> DEFINE Entries == Entry \cup {Gone}
<1>1. db \in [Key -> Entries]
  BY DEF Inv, TypeOK
<1>2. ASSUME NEW txn,
             \A key \in DOMAIN txn.mutations : txn.mutations[key] \in Entries,
             Applied(txn)
      PROVE  db' \in [Key -> Entries]
  BY <1>1, <1>2, WrittenIsTyped DEF Applied
<1>3. /\ Put("claimed", LeaseTtl) \in Entries
      /\ Put("uncertain", RetentionTtl) \in Entries
      /\ Put("complete", RetentionTtl) \in Entries
      /\ Put("failed", RetentionTtl) \in Entries
      /\ \A s \in Session : Put(s, RetentionTtl) \in Entries
  BY TtlAssumption DEF Put, Entry, Value, ReplayStatus
<1>4. CASE db' = Aged(db)
  BY <1>1, <1>4, AgedIsTyped DEF Entry, Typed
<1>5. ASSUME NEW m \in Message, Settled(m)
      PROVE  db' \in [Key -> Entries]
  <2>1. CASE Applied(Claim(InboundKey(m)))
    BY <2>1, <1>2, <1>3 DEF Claim, Transaction
  <2>2. CASE Applied(Retain(InboundKey(m), "uncertain"))
    BY <2>2, <1>2, <1>3 DEF Retain, Transaction
  <2>3. CASE Applied(Retryable(InboundKey(m)))
    BY <2>3, <1>2 DEF Retryable, Transaction
  <2> QED
    BY <1>5, <2>1, <2>2, <2>3 DEF Settled
<1>6. ASSUME NEW r \in Delivery, Bound(r)
      PROVE  db' \in [Key -> Entries]
  <2>1. send[r].session \in Session
    BY <1>6 DEF Bound, Inv, Causal
  <2>2. ASSUME NEW continuity
        PROVE  \A key \in DOMAIN AcceptedBy(r, continuity).mutations :
                 AcceptedBy(r, continuity).mutations[key] \in Entries
    BY <2>1, <1>3 DEF AcceptedBy, Accept, Transaction
  <2> QED
    BY <1>6, <1>2, <2>2 DEF Bound
<1>7. ASSUME NEW s \in Session, Retired(s)
      PROVE  db' \in [Key -> Entries]
  <2>1. \A key \in DOMAIN Retirement(session[s].token, s, session[s].status).mutations :
          Retirement(session[s].token, s, session[s].status).mutations[key] \in Entries
    BY <1>3 DEF Retirement, Transaction
  <2> QED
    BY <1>7, <1>2, <2>1 DEF Retired
<1> QED
  BY <1>1, <1>4, <1>5, <1>6, <1>7 DEF StoreSteps, Typed

-----------------------------------------------------------------------------
(* The invariant is inductive.                                             *)

DeliveryType == [Delivery -> [pc : Point, message : Message \cup {Nil},
                              disposition : Disposition \cup {Nil}]]

SendType == [Delivery -> [status  : {"none", "inflight", "accepted", "refused"},
                          session : Session \cup {Nil}]]

SessionType == [Session -> [status : {"unused", "live", "completed", "failed"},
                            token  : Token \cup {Nil},
                            ended  : {"no", "presence", "settle", "retired",
                                      "stale", "lost"}]]

(* A delivery that only moves, past its claim and without an answer, keeps *)
(* the invariant of every delivery if it has behind it what it needs.      *)
LEMMA MovesAreCausal ==
  ASSUME Inv, NEW r \in Delivery, NEW point \in Point \ {"idle", "claim", "done"},
         Go(r, point), UNCHANGED <<send, session>>,
         delivery[r].pc \notin {"idle", "done"},
         point \in {"prepare", "dispatch"} => send[r].status = "none",
         point \in {"acceptNew", "acceptResumed", "converge", "respond"} =>
           send[r].status = "accepted"
  PROVE  delivery' \in DeliveryType /\ \A q \in Delivery : Causal(q)'
<1>1. delivery \in DeliveryType
  BY DEF Inv, TypeOK, DeliveryType
<1>2. delivery' \in DeliveryType
  BY <1>1 DEF Go, DeliveryType
<1>3. ASSUME NEW q \in Delivery
      PROVE  Causal(q)'
  <2>1. Causal(q)
    BY DEF Inv
  <2>2. /\ delivery'[q].message = delivery[q].message
        /\ delivery'[q].disposition = delivery[q].disposition
        /\ delivery'[q].pc = IF q = r THEN point ELSE delivery[q].pc
    BY <1>1 DEF Go, DeliveryType
  <2> QED
    BY <2>1, <2>2 DEF Causal
<1> QED
  BY <1>2, <1>3

(* So does a delivery that answers.                                        *)
LEMMA AnswersAreCausal ==
  ASSUME Inv, NEW r \in Delivery, NEW disposition \in Disposition,
         Answer(r, disposition), UNCHANGED <<send, session>>,
         delivery[r].pc \notin {"idle", "done"},
         disposition \in {"acceptedForDispatch", "providerRetryRequested"} =>
           send[r].status = "accepted"
  PROVE  delivery' \in DeliveryType /\ \A q \in Delivery : Causal(q)'
<1>1. delivery \in DeliveryType
  BY DEF Inv, TypeOK, DeliveryType
<1>2. delivery' \in DeliveryType
  BY <1>1 DEF Answer, DeliveryType, Point
<1>3. ASSUME NEW q \in Delivery
      PROVE  Causal(q)'
  <2>1. Causal(q)
    BY DEF Inv
  <2>2. /\ delivery'[q].message = delivery[q].message
        /\ delivery'[q].disposition = IF q = r THEN disposition ELSE delivery[q].disposition
        /\ delivery'[q].pc = IF q = r THEN "done" ELSE delivery[q].pc
    BY <1>1 DEF Answer, DeliveryType
  <2> QED
    BY <2>1, <2>2 DEF Causal
<1> QED
  BY <1>2, <1>3

(* Every handler of a delivery, cut off or not, keeps the invariant of all *)
(* deliveries.                                                             *)
LEMMA HandlersAreCausal ==
  ASSUME Inv, NEW r \in Delivery, Handle(r) \/ Interrupt(r) \/ Crash(r)
  PROVE  delivery' \in DeliveryType /\ \A q \in Delivery : Causal(q)'
<1>1. Causal(r)
  BY DEF Inv
<1>2. CASE ClaimInbound(r)
  <2>1. PICK result \in Result :
          \/ result = "applied"  /\ Go(r, "prepare")
          \/ result = "conflict" /\ Answer(r, "duplicate")
          \/ result = "error"    /\ Answer(r, "replayFailed")
    BY <1>2 DEF ClaimInbound
  <2>2. delivery[r].pc = "claim" /\ UNCHANGED <<send, session>>
    BY <1>2 DEF ClaimInbound, At
  <2> QED
    BY <1>1, <2>1, <2>2, MovesAreCausal, AnswersAreCausal
    DEF Causal, Point, Dispatching, Disposition
<1>3. CASE Prepare(r) \/ SendResolves(r) \/ Converge(r) \/ ConvergeFork(r)
  BY <1>1, <1>3, MovesAreCausal
  DEF Prepare, SendResolves, Converge, ConvergeFork, At, Causal, Point, Dispatching, Settling
<1>4. CASE Release(r) \/ Respond(r) \/ RespondUncertain(r)
  BY <1>1, <1>4, AnswersAreCausal
  DEF Release, Respond, RespondUncertain, At, Causal, Disposition
<1>5. CASE StartSend(r)
  <2>1. /\ delivery \in DeliveryType
        /\ delivery[r].pc = "dispatch"
        /\ delivery' = [delivery EXCEPT ![r].pc = "sending"]
        /\ send' = [send EXCEPT ![r].status = "inflight"]
        /\ UNCHANGED session
    BY <1>5 DEF StartSend, At, Go, Inv, TypeOK, DeliveryType
  <2>2. delivery' \in DeliveryType
    BY <2>1 DEF DeliveryType, Point, Dispatching
  <2>3. ASSUME NEW q \in Delivery
        PROVE  Causal(q)'
    <3>1. Causal(q) /\ send \in SendType
      BY DEF Inv, TypeOK, SendType
    <3>2. /\ delivery'[q].message = delivery[q].message
          /\ delivery'[q].disposition = delivery[q].disposition
          /\ delivery'[q].pc = IF q = r THEN "sending" ELSE delivery[q].pc
      BY <2>1 DEF DeliveryType
    <3>3. /\ send'[q].session = send[q].session
          /\ send'[q].status = IF q = r THEN "inflight" ELSE send[q].status
      BY <2>1, <3>1 DEF SendType
    <3> QED
      BY <2>1, <3>1, <3>2, <3>3 DEF Causal
  <2> QED
    BY <2>2, <2>3
<1>6. CASE RejectSend(r) \/ SendFails(r) \/ SendTimesOut(r)
  BY <1>1, <1>6, MovesAreCausal
  DEF RejectSend, SendFails, SendTimesOut, At, Causal, Point, Settling
<1>7. CASE AcceptInboundNew(r) \/ AcceptInboundResumed(r) \/ AcceptInboundFork(r)
  <2>1. /\ delivery[r].pc \in {"acceptNew", "acceptResumed", "fork"}
        /\ UNCHANGED <<send, session>>
        /\ \E point \in {"converge", "acceptResumed", "fork", "convergeFork", "uncertain"} :
             /\ Go(r, point)
             /\ point \in {"converge", "acceptResumed"} => delivery[r].pc # "fork"
    BY <1>7 DEF AcceptInboundNew, AcceptInboundResumed, AcceptInboundFork, At
  <2> QED
    BY <1>1, <2>1, MovesAreCausal DEF Causal, Point, Dispatching, Settling
<1>8. CASE RetryInbound(r) \/ QuarantineInbound(r) \/ UncertainInbound(r) \/ FinalizeInterrupt(r)
  BY <1>1, <1>8, MovesAreCausal
  DEF RetryInbound, QuarantineInbound, UncertainInbound, FinalizeInterrupt, At, Causal,
      Point, Settling
<1>9. CASE Interrupt(r) \/ Crash(r)
  BY <1>1, <1>9, MovesAreCausal DEF Interrupt, Crash, Causal, Point, Settling
<1> QED
  BY <1>2, <1>3, <1>4, <1>5, <1>6, <1>7, <1>8, <1>9 DEF Handle

(* Eve accepts a message for a session of its conversation, or refuses it. *)
LEMMA EveIsCausal ==
  ASSUME Inv, NEW r \in Delivery,
         EveRefuses(r) \/ \E s \in Session : EveAccepts(r, s)
  PROVE  /\ send' \in SendType
         /\ session' \in SessionType
         /\ \A q \in Delivery : Causal(q)'
         /\ EndsAreReal'
<1>1. /\ send \in SendType
      /\ session \in SessionType
      /\ Causal(r)
      /\ EndsAreReal
  BY DEF Inv, TypeOK, SendType, SessionType
<1>2. CASE EveRefuses(r)
  <2>1. /\ send[r].status = "inflight"
        /\ send' = [send EXCEPT ![r].status = "refused"]
        /\ UNCHANGED <<delivery, session>>
    BY <1>2 DEF EveRefuses
  <2>2. ASSUME NEW q \in Delivery
        PROVE  /\ send'[q].session = send[q].session
               /\ send'[q].status = IF q = r THEN "refused" ELSE send[q].status
    BY <1>1, <2>1 DEF SendType
  <2>3. \A q \in Delivery : Causal(q)'
    BY <1>1, <2>1, <2>2 DEF Causal, Inv
  <2> QED
    BY <1>1, <2>1, <2>3 DEF SendType, EndsAreReal
<1>3. ASSUME NEW s \in Session, EveAccepts(r, s)
      PROVE  /\ send' \in SendType
             /\ session' \in SessionType
             /\ \A q \in Delivery : Causal(q)'
             /\ EndsAreReal'
  <2> DEFINE token == TokenOf[delivery[r].message]
  <2>1. /\ send[r].status = "inflight"
        /\ send' = [send EXCEPT ![r] = [status |-> "accepted", session |-> s]]
        /\ session' = [session EXCEPT ![s].status = "live", ![s].token = token]
        /\ UNCHANGED delivery
    BY <1>3 DEF EveAccepts
  <2>2. \/ session[s].status = "live" /\ session[s].token = token
        \/ session[s].status = "unused"
    BY <1>3 DEF EveAccepts, Eligible
  <2>3. /\ delivery[r].message \in Message
        /\ token \in Token
        /\ delivery[r].pc \notin {"acceptNew", "acceptResumed", "converge", "respond",
                                "idle", "claim", "prepare", "dispatch"}
    BY <1>1, <2>1, ChannelAssumption DEF Causal
  <2>4. ASSUME NEW z \in Session
        PROVE  /\ session'[z].status = IF z = s THEN "live" ELSE session[z].status
               /\ session'[z].token = IF z = s THEN token ELSE session[z].token
               /\ session'[z].ended = session[z].ended
    BY <1>1, <2>1 DEF SessionType
  <2>5. ASSUME NEW q \in Delivery
        PROVE  /\ send'[q].session = IF q = r THEN s ELSE send[q].session
               /\ send'[q].status = IF q = r THEN "accepted" ELSE send[q].status
    BY <1>1, <2>1 DEF SendType
  <2>6. ASSUME NEW q \in Delivery
        PROVE  Causal(q)'
    <3>1. Causal(q)
      BY DEF Inv
    <3>2. CASE q = r
      <4>1. /\ send'[q].session = s
            /\ send'[q].status = "accepted"
            /\ session'[s].token = token
            /\ session'[s].status = "live"
        BY <3>2, <2>4, <2>5
      <4>2. delivery'[q].disposition \notin {"acceptedForDispatch", "providerRetryRequested"}
        BY <3>1, <3>2, <2>1 DEF Causal
      <4> QED
        BY <3>2, <4>1, <4>2, <2>1, <2>3 DEF Causal
    <3>3. CASE q # r
      <4>1. /\ delivery'[q] = delivery[q]
            /\ send'[q].session = send[q].session
            /\ send'[q].status = send[q].status
        BY <3>3, <2>1, <2>5
      <4>2. ASSUME send[q].status = "accepted"
            PROVE  /\ session'[send[q].session].token = TokenOf[delivery[q].message]
                   /\ session'[send[q].session].status # "unused"
        BY <4>2, <3>1, <2>2, <2>4 DEF Causal
      <4> QED
        BY <3>1, <4>1, <4>2 DEF Causal
    <3> QED
      BY <3>2, <3>3
  <2>7. EndsAreReal'
    BY <1>1, <2>2, <2>4 DEF EndsAreReal
  <2> QED
    BY <1>1, <2>1, <2>3, <2>6, <2>7 DEF SendType, SessionType
<1> QED
  BY <1>2, <1>3

(* A session ends once, from alive, and its settlement changes nothing of  *)
(* what the deliveries rely on.                                            *)
LEMMA SessionsAreCausal ==
  ASSUME Inv, NEW s \in Session,
         \/ \E outcome \in {"completed", "failed"} : SessionEnds(s, outcome)
         \/ StopPresence(s)
         \/ SettleSession(s)
  PROVE  /\ session' \in SessionType
         /\ \A q \in Delivery : Causal(q)'
         /\ EndsAreReal'
<1>1. session \in SessionType /\ EndsAreReal /\ UNCHANGED <<delivery, send>>
  BY DEF Inv, TypeOK, SessionType, SessionEnds, StopPresence, SettleSession
<1>2. PICK status \in {"live", "completed", "failed"},
           ended \in {"presence", "settle", "retired", "stale", "lost"} :
        /\ session' = [session EXCEPT ![s].status = status, ![s].ended = ended]
        /\ status # "live"
        /\ session[s].status \in {"live", "completed", "failed"}
  <2>1. CASE \E outcome \in {"completed", "failed"} : SessionEnds(s, outcome)
    BY <2>1 DEF SessionEnds
  <2>2. CASE StopPresence(s)
    <3>1. PICK ended \in {"settle", "lost"} :
            /\ session[s].ended = "presence"
            /\ session' = [session EXCEPT ![s].ended = ended]
      BY <2>2 DEF StopPresence
    <3>2. session' = [session EXCEPT ![s].status = session[s].status, ![s].ended = ended]
      BY <3>1, <1>1 DEF SessionType
    <3> QED
      BY <3>1, <3>2, <1>1 DEF EndsAreReal
  <2>3. CASE SettleSession(s)
    <3>1. PICK ended \in {"retired", "stale", "lost"} :
            /\ session[s].ended = "settle"
            /\ session' = [session EXCEPT ![s].ended = ended]
      BY <2>3 DEF SettleSession, Result
    <3>2. session' = [session EXCEPT ![s].status = session[s].status, ![s].ended = ended]
      BY <3>1, <1>1 DEF SessionType
    <3> QED
      BY <3>1, <3>2, <1>1 DEF EndsAreReal
  <2> QED
    BY <2>1, <2>2, <2>3
<1>3. ASSUME NEW z \in Session
      PROVE  /\ session'[z].status = IF z = s THEN status ELSE session[z].status
             /\ session'[z].token = session[z].token
             /\ session'[z].ended = IF z = s THEN ended ELSE session[z].ended
  BY <1>1, <1>2 DEF SessionType
<1>4. ASSUME NEW q \in Delivery
      PROVE  Causal(q)'
  <2>1. Causal(q)
    BY DEF Inv
  <2> QED
    BY <2>1, <1>1, <1>2, <1>3 DEF Causal
<1>5. EndsAreReal'
  BY <1>1, <1>2, <1>3 DEF EndsAreReal
<1>6. session' \in SessionType
  BY <1>1, <1>2 DEF SessionType
<1> QED
  BY <1>4, <1>5, <1>6

(* A request arrives: nothing has happened for it yet.                     *)
LEMMA ArrivalsAreCausal ==
  ASSUME Inv, NEW r \in Delivery, NEW m \in Message,
         Receive(r, m) \/ \E d \in Refusal : Refuse(r, m, d)
  PROVE  delivery' \in DeliveryType /\ \A q \in Delivery : Causal(q)'
<1>1. delivery \in DeliveryType /\ delivery[r].pc = "idle" /\ UNCHANGED <<send, session>>
  BY DEF Inv, TypeOK, DeliveryType, Receive, Refuse, At
<1>2. PICK pc \in {"claim", "done"}, disposition \in Refusal \cup {delivery[r].disposition} :
        /\ delivery' \in DeliveryType
        /\ \A q \in Delivery \ {r} : delivery'[q] = delivery[q]
        /\ delivery'[r].pc = pc
        /\ delivery'[r].message = m
        /\ delivery'[r].disposition = disposition
  <2>1. CASE Receive(r, m)
    <3>1. delivery' = [delivery EXCEPT ![r].pc = "claim", ![r].message = m]
      BY <2>1 DEF Receive
    <3>2. /\ \A q \in Delivery \ {r} : delivery'[q] = delivery[q]
          /\ delivery'[r].pc = "claim"
          /\ delivery'[r].message = m
          /\ delivery'[r].disposition = delivery[r].disposition
      BY <1>1, <3>1 DEF DeliveryType
    <3>3. delivery' \in DeliveryType
      BY <1>1, <3>1 DEF DeliveryType, Point
    <3> QED
      BY <3>2, <3>3
  <2>2. ASSUME NEW d \in Refusal, Refuse(r, m, d)
        PROVE  /\ delivery' \in DeliveryType
               /\ \A q \in Delivery \ {r} : delivery'[q] = delivery[q]
               /\ delivery'[r].pc = "done"
               /\ delivery'[r].message = m
               /\ delivery'[r].disposition = d
    BY <1>1, <2>2 DEF Refuse, DeliveryType, Point, Disposition
  <2> QED
    BY <2>1, <2>2
<1>3. ASSUME NEW q \in Delivery
      PROVE  Causal(q)'
  <2>1. Causal(q) /\ Causal(r)
    BY DEF Inv
  <2>2. disposition \notin {"acceptedForDispatch", "providerRetryRequested"}
    BY <1>1, <2>1 DEF Causal, Refusal
  <2>3. CASE q = r
    BY <1>1, <1>2, <2>1, <2>2, <2>3 DEF Causal
  <2>4. CASE q # r
    BY <1>1, <1>2, <2>1, <2>4 DEF Causal
  <2> QED
    BY <2>3, <2>4
<1> QED
  BY <1>2, <1>3

(* No step goes beyond the faults of a behaviour.                          *)
LEMMA StepsAreBounded ==
  ASSUME Inv, [Next]_vars
  PROVE  faults' \in 0..MaxFaults
<1>1. \/ UNCHANGED faults
      \/ Fault
      \/ \E txn, result : Transact(txn, result)
  <2>1. ASSUME NEW r \in Delivery, Handle(r)
        PROVE  UNCHANGED faults \/ Fault \/ \E txn, result : Transact(txn, result)
    BY <2>1
    DEF Handle, ClaimInbound, Prepare, Release, StartSend, RejectSend, SendResolves,
        SendFails, SendTimesOut, AcceptInboundNew, AcceptInboundResumed, AcceptInboundFork,
        Converge, ConvergeFork, RetryInbound, QuarantineInbound, UncertainInbound,
        Respond, RespondUncertain, FinalizeInterrupt, Observe
  <2>2. ASSUME NEW s \in Session, SettleSession(s)
        PROVE  \E txn, result : Transact(txn, result)
    BY <2>2 DEF SettleSession
  <2> QED
    BY <2>1, <2>2
    DEF Next, vars, Receive, Refuse, Interrupt, Crash, EveAccepts, Eligible, EveRefuses,
        SessionEnds, StopPresence, Observe, Tick
<1> QED
  BY <1>1, ChannelAssumption DEF Inv, TypeOK, Transact, Fault

(* The history of claims only ever names deliveries.                       *)
LEMMA HoldersAreDeliveries ==
  ASSUME Inv, [Next]_vars
  PROVE  holder' \in [Message -> Delivery \cup {Nil}]
<1>1. holder \in [Message -> Delivery \cup {Nil}]
  BY DEF Inv, TypeOK
<1>2. ASSUME NEW r \in Delivery, ClaimInbound(r)
      PROVE  holder' \in [Message -> Delivery \cup {Nil}]
  BY <1>1, <1>2 DEF ClaimInbound
<1>3. CASE UNCHANGED holder
  BY <1>1, <1>3
<1>4. ASSUME NEW r \in Delivery, Handle(r)
      PROVE  UNCHANGED holder \/ ClaimInbound(r)
  BY <1>4
  DEF Handle, Prepare, Release, StartSend, RejectSend, SendResolves,
      SendFails, SendTimesOut, AcceptInboundNew, AcceptInboundResumed, AcceptInboundFork,
      Converge, ConvergeFork, RetryInbound, QuarantineInbound, UncertainInbound,
      Respond, RespondUncertain, FinalizeInterrupt
<1> QED
  BY <1>2, <1>3, <1>4
  DEF Next, vars, Receive, Refuse, Interrupt, Crash, EveAccepts, EveRefuses,
      SessionEnds, StopPresence, SettleSession, Tick

(* Inv is inductive.                                                       *)
LEMMA Initially == Init => Inv
<1> SUFFICES ASSUME Init PROVE Inv
  OBVIOUS
<1>1. TypeOK
  BY ChannelAssumption DEF Init, TypeOK, Point
<1>2. ASSUME NEW r \in Delivery
      PROVE  Causal(r)
  <2>1. /\ delivery[r].pc = "idle"
        /\ delivery[r].disposition = Nil
        /\ send[r].status = "none"
    BY DEF Init
  <2> QED
    BY <2>1, UnansweredAssumption DEF Causal, Disposition
<1>3. EndsAreReal
  BY DEF Init, EndsAreReal
<1> QED
  BY <1>1, <1>2, <1>3 DEF Inv

LEMMA StepsKeepInv == Inv /\ [Next]_vars => Inv'
<1> SUFFICES ASSUME Inv, [Next]_vars PROVE Inv'
  OBVIOUS
<1>1. /\ db' \in Typed
      /\ holder' \in [Message -> Delivery \cup {Nil}]
      /\ faults' \in 0..MaxFaults
  BY StepsOfTheStore, StoreStaysTyped, HoldersAreDeliveries, StepsAreBounded
<1>2. /\ delivery \in DeliveryType
      /\ send \in SendType
      /\ session \in SessionType
      /\ EndsAreReal
      /\ \A q \in Delivery : Causal(q)
  BY DEF Inv, TypeOK, DeliveryType, SendType, SessionType
<1> DEFINE Goal == /\ delivery' \in DeliveryType
                   /\ send' \in SendType
                   /\ session' \in SessionType
                   /\ EndsAreReal'
                   /\ \A q \in Delivery : Causal(q)'
<1>3. ASSUME UNCHANGED <<delivery, send, session>>
      PROVE  Goal
  BY <1>2, <1>3 DEF EndsAreReal, Causal
<1>4. ASSUME NEW r \in Delivery, NEW m \in Message,
             Receive(r, m) \/ \E d \in Refusal : Refuse(r, m, d)
      PROVE  Goal
  BY <1>2, <1>4, ArrivalsAreCausal DEF Receive, Refuse, EndsAreReal
<1>5. ASSUME NEW r \in Delivery, Handle(r) \/ Interrupt(r) \/ Crash(r)
      PROVE  Goal
  <2>1. delivery' \in DeliveryType /\ \A q \in Delivery : Causal(q)'
    BY <1>5, HandlersAreCausal
  <2>2. UNCHANGED session /\ (UNCHANGED send \/ send' = [send EXCEPT ![r].status = "inflight"])
    BY <1>5
    DEF Handle, ClaimInbound, Prepare, Release, StartSend, RejectSend, SendResolves,
        SendFails, SendTimesOut, AcceptInboundNew, AcceptInboundResumed, AcceptInboundFork,
        Converge, ConvergeFork, RetryInbound, QuarantineInbound, UncertainInbound,
        Respond, RespondUncertain, FinalizeInterrupt, Interrupt, Crash
  <2>3. send' \in SendType
    BY <1>2, <2>2 DEF SendType
  <2> QED
    BY <1>2, <2>1, <2>2, <2>3 DEF EndsAreReal
<1>6. ASSUME NEW r \in Delivery, EveRefuses(r) \/ \E s \in Session : EveAccepts(r, s)
      PROVE  Goal
  <2>1. UNCHANGED delivery
    BY <1>6 DEF EveRefuses, EveAccepts
  <2> QED
    BY <1>2, <1>6, <2>1, EveIsCausal
<1>7. ASSUME NEW s \in Session,
             \/ \E outcome \in {"completed", "failed"} : SessionEnds(s, outcome)
             \/ StopPresence(s)
             \/ SettleSession(s)
      PROVE  Goal
  <2>1. UNCHANGED <<delivery, send>>
    BY <1>7 DEF SessionEnds, StopPresence, SettleSession
  <2> QED
    BY <1>2, <1>7, <2>1, SessionsAreCausal
<1>8. Goal
  <2>1. CASE Tick \/ UNCHANGED vars
    BY <1>3, <2>1 DEF Tick, vars
  <2> QED
    BY <1>4, <1>5, <1>6, <1>7, <2>1 DEF Next
<1> QED
  BY <1>1, <1>8 DEF Inv, TypeOK, Typed, DeliveryType, SendType, SessionType

LEMMA Invariance == Spec => []Inv
BY Initially, StepsKeepInv, PTL DEF Spec

(* Every reachable state is well-typed: in particular no record has a time *)
(* to live of zero and no session is bound before Eve has named it.        *)
THEOREM TypeCorrect == Spec => []TypeOK
<1>1. Inv => TypeOK
  BY DEF Inv
<1> QED
  BY <1>1, Invariance, PTL

(* The provider is told that its message was taken only after Eve accepted *)
(* that very delivery, whatever fails and whenever leases lapse (the route *)
(* of eve.ts, after convergence).                                          *)
THEOREM AcknowledgementsAreEarned == Spec => []AcknowledgedIsAccepted
<1>1. Inv => AcknowledgedIsAccepted
  BY DEF Inv, Causal, AcknowledgedIsAccepted
<1> QED
  BY <1>1, Invariance, PTL

-----------------------------------------------------------------------------
(* The effects of a step on one record.                                    *)

(* What the acceptance of a delivery expects of its two records, and what  *)
(* it puts there.                                                          *)
LEMMA AcceptShape ==
  ASSUME NEW r, NEW continuity
  PROVE  LET txn    == AcceptedBy(r, continuity)
             replay == InboundKey(delivery[r].message)
             bound  == ContinuityKey(TokenOf[delivery[r].message])
         IN  /\ DOMAIN txn.conditions = {replay, bound}
             /\ DOMAIN txn.mutations = {replay, bound}
             /\ txn.conditions[replay] = "claimed"
             /\ txn.conditions[bound] = continuity
             /\ txn.mutations[replay].value = "complete"
             /\ txn.mutations[bound].value = send[r].session
BY KeysAreDistinct DEF AcceptedBy, Accept, Transaction, Put

(* Of a replay record: it is claimed when there is none, it is settled     *)
(* when it is claimed, and it is completed only with a continuity record.  *)
LEMMA EffectsOnReplay ==
  ASSUME Inv, StoreSteps, NEW m \in Message
  PROVE  LET old == db[InboundKey(m)]
             new == db'[InboundKey(m)]
         IN  \/ new.value = old.value
             \/ old.ttl = 1 /\ new = Gone
             \/ old.value = Nil /\ new.value = "claimed"
             \/ old.value = "claimed" /\ new.value \in {Nil, "uncertain"}
             \/ /\ old.value = "claimed" /\ new.value = "complete"
                /\ \E r \in Delivery : Bound(r) /\ delivery[r].message = m
<1> DEFINE key == InboundKey(m)
<1>1. key \in DOMAIN db
  BY DEF Inv, TypeOK, Key
<1>2. CASE db' = Aged(db)
  BY <1>1, <1>2, AgingKeepsValues
<1>3. ASSUME NEW n \in Message, Settled(n)
      PROVE  \/ db'[key] = db[key]
             \/ db[key].value = Nil /\ db'[key].value = "claimed"
             \/ db[key].value = "claimed" /\ db'[key].value \in {Nil, "uncertain"}
  <2>1. CASE Applied(Claim(InboundKey(n)))
    BY <1>1, <2>1, WrittenAt DEF Applied, Claim, Transaction, Holds, Read, Put
  <2>2. CASE Applied(Retain(InboundKey(n), "uncertain"))
    BY <1>1, <2>2, WrittenAt DEF Applied, Retain, Transaction, Holds, Read, Put
  <2>3. CASE Applied(Retryable(InboundKey(n)))
    BY <1>1, <2>3, WrittenAt DEF Applied, Retryable, Transaction, Holds, Read, Put, Gone
  <2> QED
    BY <1>3, <2>1, <2>2, <2>3 DEF Settled
<1>4. ASSUME NEW r \in Delivery, Bound(r)
      PROVE  \/ db'[key] = db[key]
             \/ /\ db[key].value = "claimed" /\ db'[key].value = "complete"
                /\ delivery[r].message = m
  <2>1. PICK continuity : Applied(AcceptedBy(r, continuity))
    BY <1>4 DEF Bound
  <2>2. CASE delivery[r].message = m
    BY <1>1, <2>1, <2>2, AcceptShape, WrittenAt DEF Applied, Holds, Read
  <2>3. CASE delivery[r].message # m
    <3>1. key \notin DOMAIN AcceptedBy(r, continuity).mutations
      BY <2>3, KeysAreDistinct DEF AcceptedBy, Accept, Transaction
    <3> QED
      BY <1>1, <2>1, <3>1, WrittenAt DEF Applied
  <2> QED
    BY <2>2, <2>3
<1>5. ASSUME NEW s \in Session, Retired(s)
      PROVE  db'[key] = db[key]
  <2>1. key \notin DOMAIN Retirement(session[s].token, s, session[s].status).mutations
    BY KeysAreDistinct DEF Retirement, Transaction
  <2> QED
    BY <1>1, <1>5, <2>1, WrittenAt DEF Retired, Applied
<1> QED
  BY <1>2, <1>3, <1>4, <1>5 DEF StoreSteps

(* Of a continuity record: a delivery writes it for the session that       *)
(* accepted it, where there is none or that session's; a session that has  *)
(* ended removes its own.                                                  *)
LEMMA EffectsOnContinuity ==
  ASSUME Inv, StoreSteps, NEW t \in Token
  PROVE  LET old == db[ContinuityKey(t)]
             new == db'[ContinuityKey(t)]
         IN  \/ new.value = old.value
             \/ old.ttl = 1 /\ new = Gone
             \/ \E r \in Delivery :
                  /\ Bound(r)
                  /\ TokenOf[delivery[r].message] = t
                  /\ old.value \in {Nil, send[r].session}
                  /\ new.value = send[r].session
             \/ \E s \in Session :
                  /\ Retired(s)
                  /\ old.value = s
                  /\ new = Gone
<1> DEFINE key == ContinuityKey(t)
<1>1. key \in DOMAIN db
  BY DEF Inv, TypeOK, Key
<1>2. CASE db' = Aged(db)
  BY <1>1, <1>2, AgingKeepsValues
<1>3. ASSUME NEW m \in Message, Settled(m)
      PROVE  db'[key] = db[key]
  <2>1. /\ key \notin DOMAIN Claim(InboundKey(m)).mutations
        /\ key \notin DOMAIN Retain(InboundKey(m), "uncertain").mutations
        /\ key \notin DOMAIN Retryable(InboundKey(m)).mutations
    BY KeysAreDistinct DEF Claim, Retain, Retryable, Transaction
  <2> QED
    BY <1>1, <1>3, <2>1, WrittenAt DEF Settled, Applied
<1>4. ASSUME NEW r \in Delivery, Bound(r)
      PROVE  \/ db'[key] = db[key]
             \/ /\ TokenOf[delivery[r].message] = t
                /\ db[key].value \in {Nil, send[r].session}
                /\ db'[key].value = send[r].session
  <2>1. PICK continuity \in {Nil, send[r].session} : Applied(AcceptedBy(r, continuity))
    BY <1>4 DEF Bound
  <2>2. CASE TokenOf[delivery[r].message] = t
    BY <1>1, <2>1, <2>2, AcceptShape, WrittenAt DEF Applied, Holds, Read
  <2>3. CASE TokenOf[delivery[r].message] # t
    <3>1. key \notin DOMAIN AcceptedBy(r, continuity).mutations
      BY <2>3, KeysAreDistinct DEF AcceptedBy, Accept, Transaction
    <3> QED
      BY <1>1, <2>1, <3>1, WrittenAt DEF Applied
  <2> QED
    BY <2>2, <2>3
<1>5. ASSUME NEW s \in Session, Retired(s)
      PROVE  db'[key] = db[key] \/ (db[key].value = s /\ db'[key] = Gone)
  <2> DEFINE txn == Retirement(session[s].token, s, session[s].status)
  <2>1. Applied(txn)
    BY <1>5 DEF Retired
  <2>2. CASE session[s].token = t
    BY <1>1, <2>1, <2>2, WrittenAt DEF Applied, Retirement, Transaction, Holds, Read
  <2>3. CASE session[s].token # t
    <3>1. key \notin DOMAIN txn.mutations
      BY <2>3, KeysAreDistinct DEF Retirement, Transaction
    <3> QED
      BY <1>1, <2>1, <3>1, WrittenAt DEF Applied
  <2> QED
    BY <2>2, <2>3
<1> QED
  BY <1>2, <1>3, <1>4, <1>5 DEF StoreSteps

(* Of a terminal record: only the retirement of its own session writes it. *)
LEMMA EffectsOnTerminal ==
  ASSUME Inv, StoreSteps, NEW z \in Session
  PROVE  \/ db'[TerminalKey(z)].value = db[TerminalKey(z)].value
         \/ db'[TerminalKey(z)] = Gone
         \/ Retired(z) /\ session[z].status = "failed"
<1> DEFINE key == TerminalKey(z)
<1>1. key \in DOMAIN db
  BY DEF Inv, TypeOK, Key
<1>2. CASE db' = Aged(db)
  BY <1>1, <1>2, AgingKeepsValues
<1>3. ASSUME NEW m \in Message, Settled(m)
      PROVE  db'[key] = db[key]
  <2>1. /\ key \notin DOMAIN Claim(InboundKey(m)).mutations
        /\ key \notin DOMAIN Retain(InboundKey(m), "uncertain").mutations
        /\ key \notin DOMAIN Retryable(InboundKey(m)).mutations
    BY KeysAreDistinct DEF Claim, Retain, Retryable, Transaction
  <2> QED
    BY <1>1, <1>3, <2>1, WrittenAt DEF Settled, Applied
<1>4. ASSUME NEW r \in Delivery, Bound(r)
      PROVE  db'[key] = db[key]
  <2>1. PICK continuity : Applied(AcceptedBy(r, continuity))
    BY <1>4 DEF Bound
  <2>2. key \notin DOMAIN AcceptedBy(r, continuity).mutations
    BY KeysAreDistinct DEF AcceptedBy, Accept, Transaction
  <2> QED
    BY <1>1, <2>1, <2>2, WrittenAt DEF Applied
<1>5. ASSUME NEW s \in Session, Retired(s), ~(s = z /\ session[z].status = "failed")
      PROVE  db'[key] = db[key]
  <2> DEFINE txn == Retirement(session[s].token, s, session[s].status)
  <2>1. key \notin DOMAIN txn.mutations
    BY <1>5, KeysAreDistinct DEF Retirement, Transaction
  <2> QED
    BY <1>1, <1>5, <2>1, WrittenAt DEF Applied, Retired
<1> QED
  BY <1>2, <1>3, <1>4, <1>5 DEF StoreSteps

-----------------------------------------------------------------------------
(* Settled records and conversations.                                      *)

(* A settled replay record never changes again before it expires, whatever *)
(* late, repeated or foreign settlement still runs (retain and retryable   *)
(* of replay.ts).                                                          *)
THEOREM SettledForGood == Spec => SettledRecordsAreFinal
<1>1. ASSUME Inv, [Next]_vars, NEW m \in Message,
             db[InboundKey(m)].value \in {"complete", "uncertain"}
      PROVE  \/ db'[InboundKey(m)].value = db[InboundKey(m)].value
             \/ db[InboundKey(m)].ttl = 1 /\ db'[InboundKey(m)] = Gone
  <2>1. db[InboundKey(m)].value \notin {Nil, "claimed"}
    BY <1>1, ChannelAssumption DEF ReplayStatus
  <2> QED
    BY <1>1, <2>1, StepsOfTheStore, EffectsOnReplay
<1> DEFINE Final == \A m \in Message :
                      LET old == db[InboundKey(m)]
                          new == db'[InboundKey(m)]
                      IN  old.value \in {"complete", "uncertain"} =>
                            \/ new.value = old.value
                            \/ old.ttl = 1 /\ new = Gone
<1>2. Inv /\ [Next]_vars => [Final]_vars
  BY <1>1
<1> QED
  BY <1>2, Invariance, PTL DEF Spec, SettledRecordsAreFinal

(* A conversation never passes from one session to another: its record     *)
(* goes when it expires or when its session has ended, and the record of a *)
(* failed session goes only into that session's terminal record            *)
(* (acceptInbound and settleSession of replay.ts).                         *)
THEOREM ConversationsNeverFork == Spec => ContinuityNeverForks
<1>1. ASSUME Inv, [Next]_vars, NEW t \in Token, NEW s \in Session,
             db[ContinuityKey(t)].value = s, db'[ContinuityKey(t)].value # s
      PROVE  /\ db'[ContinuityKey(t)] = Gone
             /\ \/ db[ContinuityKey(t)].ttl = 1
                \/ session[s].status = "completed"
                \/ /\ session[s].status = "failed"
                   /\ db'[TerminalKey(s)].value = "failed"
  <2>1. /\ s # Nil
        /\ StoreSteps
    BY <1>1, ChannelAssumption, StepsOfTheStore
  <2>2. CASE db[ContinuityKey(t)].ttl = 1 /\ db'[ContinuityKey(t)] = Gone
    BY <2>2
  <2>3. CASE Retired(s) /\ db'[ContinuityKey(t)] = Gone
    <3>1. session[s].status \in {"completed", "failed"}
      BY <1>1, <2>3 DEF Retired, Inv, EndsAreReal
    <3>2. ASSUME session[s].status = "failed"
          PROVE  db'[TerminalKey(s)].value = "failed"
      <4> DEFINE txn == Retirement(session[s].token, s, session[s].status)
      <4>1. /\ TerminalKey(s) \in DOMAIN txn.mutations
            /\ txn.mutations[TerminalKey(s)].value = "failed"
        BY <3>2, KeysAreDistinct DEF Retirement, Transaction, Put
      <4>2. TerminalKey(s) \in DOMAIN db
        BY <1>1 DEF Inv, TypeOK, Key
      <4> QED
        BY <2>3, <4>1, <4>2, WrittenAt DEF Retired, Applied
    <3> QED
      BY <2>3, <3>1, <3>2
  <2> QED
    BY <1>1, <2>1, <2>2, <2>3, EffectsOnContinuity
<1> DEFINE Kept == \A t \in Token, s \in Session :
                     LET old == db[ContinuityKey(t)]
                         new == db'[ContinuityKey(t)]
                     IN  old.value = s /\ new.value # s =>
                           /\ new = Gone
                           /\ \/ old.ttl = 1
                              \/ session[s].status = "completed"
                              \/ /\ session[s].status = "failed"
                                 /\ db'[TerminalKey(s)].value = "failed"
<1>2. Inv /\ [Next]_vars => [Kept]_vars
  BY <1>1
<1> QED
  BY <1>2, Invariance, PTL DEF Spec, ContinuityNeverForks

-----------------------------------------------------------------------------
(* Nothing durable is written on hope.                                     *)

(* What a record was earned by is never undone.                            *)
LEMMA CausesPersist ==
  ASSUME Inv, [Next]_vars
  PROVE  /\ \A r \in Delivery : send[r].status = "accepted" =>
              /\ send'[r] = send[r]
              /\ delivery'[r].message = delivery[r].message
         /\ \A s \in Session :
              /\ session[s].status # "unused" => session'[s].token = session[s].token
              /\ session[s].status = "failed" => session'[s].status = "failed"
<1> DEFINE Goal == /\ \A r \in Delivery : send[r].status = "accepted" =>
                        /\ send'[r] = send[r]
                        /\ delivery'[r].message = delivery[r].message
                   /\ \A s \in Session :
                        /\ session[s].status # "unused" => session'[s].token = session[s].token
                        /\ session[s].status = "failed" => session'[s].status = "failed"
<1>1. /\ delivery \in DeliveryType
      /\ send \in SendType
      /\ session \in SessionType
      /\ \A q \in Delivery : Causal(q)
  BY DEF Inv, TypeOK, DeliveryType, SendType, SessionType
<1>2. CASE Tick \/ UNCHANGED vars
  BY <1>2 DEF Tick, vars
<1>3. ASSUME NEW r \in Delivery, NEW m \in Message,
             Receive(r, m) \/ \E d \in Refusal : Refuse(r, m, d)
      PROVE  Goal
  <2>1. /\ send[r].status # "accepted"
        /\ UNCHANGED <<send, session>>
        /\ \A q \in Delivery \ {r} : delivery'[q] = delivery[q]
    BY <1>1, <1>3 DEF Causal, Receive, Refuse, At, DeliveryType
  <2> QED
    BY <2>1
<1>4. ASSUME NEW r \in Delivery, Handle(r) \/ Interrupt(r) \/ Crash(r)
      PROVE  Goal
  <2>1. \/ \E point : Go(r, point)
        \/ \E disposition : Answer(r, disposition)
    BY <1>4
    DEF Handle, ClaimInbound, Prepare, Release, StartSend, RejectSend, SendResolves,
        SendFails, SendTimesOut, AcceptInboundNew, AcceptInboundResumed, AcceptInboundFork,
        Converge, ConvergeFork, RetryInbound, QuarantineInbound, UncertainInbound,
        Respond, RespondUncertain, FinalizeInterrupt, Interrupt, Crash
  <2>2. \A q \in Delivery : delivery'[q].message = delivery[q].message
    BY <1>1, <2>1 DEF Go, Answer, DeliveryType
  <2>3. UNCHANGED session /\ (UNCHANGED send \/ StartSend(r))
    BY <1>4
    DEF Handle, ClaimInbound, Prepare, Release, StartSend, RejectSend, SendResolves,
        SendFails, SendTimesOut, AcceptInboundNew, AcceptInboundResumed, AcceptInboundFork,
        Converge, ConvergeFork, RetryInbound, QuarantineInbound, UncertainInbound,
        Respond, RespondUncertain, FinalizeInterrupt, Interrupt, Crash
  <2>4. \A q \in Delivery : send[q].status = "accepted" => send'[q] = send[q]
    BY <1>1, <2>3 DEF StartSend, At, Causal, SendType
  <2> QED
    BY <2>2, <2>3, <2>4
<1>5. ASSUME NEW r \in Delivery, EveRefuses(r)
      PROVE  Goal
  BY <1>1, <1>5 DEF EveRefuses, SendType
<1>6. ASSUME NEW r \in Delivery, NEW s \in Session, EveAccepts(r, s)
      PROVE  Goal
  <2>1. /\ send[r].status = "inflight"
        /\ send' = [send EXCEPT ![r] = [status |-> "accepted", session |-> s]]
        /\ UNCHANGED delivery
    BY <1>6 DEF EveAccepts
  <2>2. \/ /\ session[s].status = "live"
           /\ session[s].token = TokenOf[delivery[r].message]
        \/ session[s].status = "unused"
    BY <1>6 DEF EveAccepts, Eligible
  <2>3. ASSUME NEW z \in Session
        PROVE  /\ z # s => session'[z] = session[z]
               /\ session'[s].token = TokenOf[delivery[r].message]
    BY <1>1, <1>6 DEF EveAccepts, SessionType
  <2>4. \A q \in Delivery : send[q].status = "accepted" => send'[q] = send[q]
    BY <1>1, <2>1 DEF SendType
  <2> QED
    BY <2>1, <2>2, <2>3, <2>4
<1>7. ASSUME NEW s \in Session,
             \/ \E outcome \in {"completed", "failed"} : SessionEnds(s, outcome)
             \/ StopPresence(s)
             \/ SettleSession(s)
      PROVE  Goal
  <2>1. UNCHANGED <<delivery, send>>
    BY <1>7 DEF SessionEnds, StopPresence, SettleSession
  <2>2. ASSUME NEW z \in Session
        PROVE  /\ session'[z].token = session[z].token
               /\ session[z].status = "failed" => session'[z].status = "failed"
    BY <1>1, <1>7 DEF SessionEnds, StopPresence, SettleSession, SessionType
  <2> QED
    BY <2>1, <2>2
<1> QED
  BY <1>2, <1>3, <1>4, <1>5, <1>6, <1>7 DEF Next

(* A delivery whose acceptance is being recorded was accepted.             *)
LEMMA BoundIsAccepted ==
  ASSUME Inv, NEW r \in Delivery, Bound(r)
  PROVE  /\ r \in AcceptedDeliveries(delivery[r].message)
         /\ delivery[r].message \in Message
         /\ send[r].session \in Session
         /\ session[send[r].session].token = TokenOf[delivery[r].message]
<1>1. Causal(r)
  BY DEF Inv
<1> QED
  BY <1>1 DEF Bound, Causal, AcceptedDeliveries

LEMMA AcceptancesPersist ==
  ASSUME Inv, [Next]_vars, NEW m
  PROVE  \A r \in AcceptedDeliveries(m) :
           r \in AcceptedDeliveries(m)' /\ send'[r].session = send[r].session
BY CausesPersist DEF AcceptedDeliveries

(* A completed message was accepted by Eve, a continuity record names a    *)
(* session that accepted a message of that conversation, a terminal record *)
(* a session that failed (acceptInbound and settleSession of replay.ts).   *)
THEOREM RecordsEarned == Spec => []RecordsAreEarned
<1>1. Init => RecordsAreEarned
  <2> SUFFICES ASSUME Init PROVE RecordsAreEarned
    OBVIOUS
  <2>1. \A key \in Key : Read(db, key) = Nil
    BY DEF Init, Read, Gone, Put
  <2>2. \A s \in Session : Nil # s
    BY ChannelAssumption
  <2> QED
    BY <2>1, <2>2, ChannelAssumption DEF RecordsAreEarned, Key, ReplayStatus
<1>2. Inv /\ RecordsAreEarned /\ [Next]_vars => RecordsAreEarned'
  <2> SUFFICES ASSUME Inv, RecordsAreEarned, [Next]_vars PROVE RecordsAreEarned'
    OBVIOUS
  <2>1. StoreSteps
    BY StepsOfTheStore
  <2>2. Gone.value = Nil /\ Nil # "complete" /\ \A s \in Session : s # Nil
    BY ChannelAssumption DEF Gone, Put, ReplayStatus
  <2>3. ASSUME NEW m \in Message, Read(db', InboundKey(m)) = "complete"
        PROVE  AcceptedDeliveries(m)' # {}
    <3>1. AcceptedDeliveries(m) # {}
      BY <2>1, <2>2, <2>3, EffectsOnReplay, BoundIsAccepted DEF Read, RecordsAreEarned
    <3> QED
      BY <3>1, AcceptancesPersist
  <2>4. ASSUME NEW t \in Token, NEW s \in Session, Read(db', ContinuityKey(t)) = s
        PROVE  /\ session'[s].token = t
               /\ \E m \in Message : /\ TokenOf[m] = t
                                    /\ \E r \in AcceptedDeliveries(m)' : send'[r].session = s
    <3>1. PICK m \in Message : /\ TokenOf[m] = t
                              /\ \E r \in AcceptedDeliveries(m) : send[r].session = s
      <4>1. CASE Read(db, ContinuityKey(t)) = s
        BY <4>1 DEF RecordsAreEarned
      <4>2. CASE \E r \in Delivery : /\ Bound(r)
                                    /\ TokenOf[delivery[r].message] = t
                                    /\ send[r].session = s
        BY <4>2, BoundIsAccepted
      <4> QED
        BY <2>1, <2>2, <2>4, <4>1, <4>2, EffectsOnContinuity DEF Read
    <3>2. session[s].token = t /\ session[s].status # "unused"
      BY <3>1 DEF Inv, Causal, AcceptedDeliveries
    <3> QED
      BY <3>1, <3>2, CausesPersist, AcceptancesPersist
  <2>5. ASSUME NEW s \in Session, Read(db', TerminalKey(s)) # Nil
        PROVE  session'[s].status = "failed"
    <3>1. session[s].status = "failed"
      BY <2>1, <2>2, <2>5, EffectsOnTerminal DEF Read, RecordsAreEarned
    <3> QED
      BY <3>1, CausesPersist
  <2> QED
    BY <2>3, <2>4, <2>5 DEF RecordsAreEarned, Read, AcceptedDeliveries
<1> QED
  BY <1>1, <1>2, Invariance, PTL DEF Spec

-----------------------------------------------------------------------------
(* The channel keeps the ledger.                                           *)

FactsStand == UNCHANGED <<LedgerAccepted, LedgerEnded>>

(* What Eve accepted is what the accepted sends say.                       *)
LEMMA SendsAreTheFacts ==
  ASSUME \A q \in Delivery : send'[q].status = "accepted" <=> send[q].status = "accepted",
         \A q \in Delivery : send[q].status = "accepted" =>
           /\ send'[q].session = send[q].session
           /\ delivery'[q].message = delivery[q].message
  PROVE  LedgerAccepted' = LedgerAccepted
<1>1. ASSUME NEW fact
      PROVE  fact \in LedgerAccepted' <=> fact \in LedgerAccepted
  <2>1. fact \in LedgerAccepted <=>
          \E q \in Delivery : /\ send[q].status = "accepted"
                              /\ fact = <<delivery[q].message, send[q].session>>
    BY DEF LedgerAccepted
  <2>2. fact \in LedgerAccepted' <=>
          \E q \in Delivery : /\ send'[q].status = "accepted"
                              /\ fact = <<delivery'[q].message, send'[q].session>>
    BY DEF LedgerAccepted
  <2> QED
    BY <2>1, <2>2
<1> QED
  BY <1>1

(* The steps that touch no send of Eve and end no session.                 *)
LEMMA HandlersKeepFacts ==
  ASSUME Inv, NEW r \in Delivery, Handle(r) \/ Interrupt(r) \/ Crash(r)
  PROVE  FactsStand
<1>1. delivery \in DeliveryType /\ send \in SendType /\ Causal(r)
  BY DEF Inv, TypeOK, DeliveryType, SendType
<1>2. \/ \E point : Go(r, point)
      \/ \E disposition : Answer(r, disposition)
      \/ UNCHANGED delivery
  BY
  DEF Handle, ClaimInbound, Prepare, Release, StartSend, RejectSend, SendResolves,
      SendFails, SendTimesOut, AcceptInboundNew, AcceptInboundResumed, AcceptInboundFork,
      Converge, ConvergeFork, RetryInbound, QuarantineInbound, UncertainInbound,
      Respond, RespondUncertain, FinalizeInterrupt, Interrupt, Crash
<1>3. \A q \in Delivery : delivery'[q].message = delivery[q].message
  BY <1>1, <1>2 DEF Go, Answer, DeliveryType
<1>4. UNCHANGED session /\ (UNCHANGED send \/ StartSend(r))
  BY
  DEF Handle, ClaimInbound, Prepare, Release, StartSend, RejectSend, SendResolves,
      SendFails, SendTimesOut, AcceptInboundNew, AcceptInboundResumed, AcceptInboundFork,
      Converge, ConvergeFork, RetryInbound, QuarantineInbound, UncertainInbound,
      Respond, RespondUncertain, FinalizeInterrupt, Interrupt, Crash
<1>5. ASSUME NEW q \in Delivery
      PROVE  /\ send'[q].status = "accepted" <=> send[q].status = "accepted"
             /\ send[q].status = "accepted" => send'[q].session = send[q].session
  BY <1>1, <1>4 DEF StartSend, At, Causal, SendType
<1>6. LedgerAccepted' = LedgerAccepted
  BY <1>3, <1>5, SendsAreTheFacts
<1> QED
  BY <1>4, <1>6 DEF FactsStand, LedgerEnded

LEMMA ArrivalsKeepFacts ==
  ASSUME Inv, NEW r \in Delivery, NEW m \in Message,
         Receive(r, m) \/ \E d \in Refusal : Refuse(r, m, d)
  PROVE  FactsStand
<1>1. delivery \in DeliveryType /\ Causal(r)
  BY DEF Inv, TypeOK, DeliveryType
<1>2. /\ send[r].status # "accepted"
      /\ UNCHANGED <<send, session>>
      /\ \A q \in Delivery \ {r} : delivery'[q] = delivery[q]
  BY <1>1 DEF Causal, Receive, Refuse, At, DeliveryType
<1>3. LedgerAccepted' = LedgerAccepted
  BY <1>2, SendsAreTheFacts
<1> QED
  BY <1>2, <1>3 DEF FactsStand, LedgerEnded

(* Eve takes a message into a session that has not ended and serves no     *)
(* other conversation.                                                     *)
LEMMA AcceptancesAreFacts ==
  ASSUME Inv, NEW r \in Delivery, NEW s \in Session, EveAccepts(r, s)
  PROVE  Ledger!Accept(delivery[r].message, s)
<1> DEFINE m == delivery[r].message
<1>1. /\ send \in SendType
      /\ session \in SessionType
      /\ \A q \in Delivery : Causal(q)
  BY DEF Inv, TypeOK, SendType, SessionType
<1>2. /\ send[r].status = "inflight"
      /\ send' = [send EXCEPT ![r] = [status |-> "accepted", session |-> s]]
      /\ session' = [session EXCEPT ![s].status = "live", ![s].token = TokenOf[m]]
      /\ UNCHANGED <<db, delivery>>
  BY DEF EveAccepts
<1>3. \/ session[s].status = "live" /\ session[s].token = TokenOf[m]
      \/ session[s].status = "unused"
  BY DEF EveAccepts, Eligible
<1>4. LedgerEnded[s] = "no"
  BY <1>3 DEF LedgerEnded
<1>5. ASSUME NEW n \in Message, <<n, s>> \in LedgerAccepted
      PROVE  TokenOf[n] = TokenOf[m]
  <2>1. PICK q \in Delivery : /\ send[q].status = "accepted"
                              /\ <<n, s>> = <<delivery[q].message, send[q].session>>
    BY <1>5 DEF LedgerAccepted
  <2> QED
    BY <1>1, <1>3, <2>1 DEF Causal
<1>6. LedgerAccepted' = LedgerAccepted \cup {<<m, s>>}
  <2>1. /\ send'[r].status = "accepted" /\ send'[r].session = s
        /\ \A q \in Delivery \ {r} : send'[q] = send[q]
    BY <1>1, <1>2 DEF SendType
  <2>2. ASSUME NEW fact
        PROVE  fact \in LedgerAccepted' <=> fact \in LedgerAccepted \/ fact = <<m, s>>
    <3>1. fact \in LedgerAccepted <=>
            \E q \in Delivery : /\ send[q].status = "accepted"
                                /\ fact = <<delivery[q].message, send[q].session>>
      BY DEF LedgerAccepted
    <3>2. fact \in LedgerAccepted' <=>
            \E q \in Delivery : /\ send'[q].status = "accepted"
                                /\ fact = <<delivery[q].message, send'[q].session>>
      BY <1>2 DEF LedgerAccepted
    <3> QED
      BY <1>2, <2>1, <3>1, <3>2
  <2> QED
    BY <2>2
<1>7. LedgerEnded' = LedgerEnded
  <2>1. ASSUME NEW z \in Session
        PROVE  LedgerEnded'[z] = LedgerEnded[z]
    BY <1>1, <1>2, <1>3 DEF LedgerEnded, SessionType
  <2> QED
    BY <2>1 DEF LedgerEnded
<1>8. UNCHANGED <<LedgerRecord, LedgerBound, LedgerTerminal>>
  BY <1>2 DEF LedgerRecord, LedgerBound, LedgerTerminal
<1> QED
  BY <1>4, <1>5, <1>6, <1>7, <1>8 DEF Ledger!Accept

LEMMA EndsAreFacts ==
  ASSUME Inv, NEW s \in Session, NEW outcome \in {"completed", "failed"},
         SessionEnds(s, outcome)
  PROVE  Ledger!End(s, outcome)
<1>1. session \in SessionType
  BY DEF Inv, TypeOK, SessionType
<1>2. /\ session[s].status = "live"
      /\ session' = [session EXCEPT ![s].status = outcome, ![s].ended = "presence"]
      /\ UNCHANGED <<db, delivery, send>>
  BY DEF SessionEnds
<1>3. LedgerEnded[s] = "no"
  BY <1>2 DEF LedgerEnded
<1>4. LedgerEnded' = [LedgerEnded EXCEPT ![s] = outcome]
  <2>1. ASSUME NEW z \in Session
        PROVE  session'[z].status = IF z = s THEN outcome ELSE session[z].status
    BY <1>1, <1>2 DEF SessionType
  <2> QED
    BY <2>1 DEF LedgerEnded
<1>5. UNCHANGED <<LedgerAccepted, LedgerRecord, LedgerBound, LedgerTerminal>>
  BY <1>2 DEF LedgerAccepted, LedgerRecord, LedgerBound, LedgerTerminal
<1> QED
  BY <1>3, <1>4, <1>5 DEF Ledger!End

LEMMA SettlementsKeepFacts ==
  ASSUME Inv, NEW s \in Session, StopPresence(s) \/ SettleSession(s)
  PROVE  FactsStand
<1>1. session \in SessionType
  BY DEF Inv, TypeOK, SessionType
<1>2. UNCHANGED <<delivery, send>>
  BY DEF StopPresence, SettleSession
<1>3. \A z \in Session : session'[z].status = session[z].status
  BY <1>1 DEF StopPresence, SettleSession, SessionType
<1> QED
  BY <1>2, <1>3 DEF FactsStand, LedgerAccepted, LedgerEnded

(* A session that was ever used serves a conversation.                     *)
SessionsServe ==
  \A s \in Session : session[s].status # "unused" => session[s].token \in Token

LEMMA ServiceIsInvariant == Spec => []SessionsServe
<1>1. Init => SessionsServe
  BY DEF Init, SessionsServe
<1>2. ASSUME Inv, SessionsServe, [Next]_vars
      PROVE  SessionsServe'
  <2>1. session \in SessionType
    BY <1>2 DEF Inv, TypeOK, SessionType
  <2>2. CASE UNCHANGED session
    BY <1>2, <2>2 DEF SessionsServe
  <2>3. ASSUME NEW r \in Delivery, NEW z \in Session, EveAccepts(r, z)
        PROVE  SessionsServe'
    <3>1. delivery[r].message \in Message
      BY <1>2, <2>3 DEF Inv, Causal, EveAccepts
    <3>2. TokenOf[delivery[r].message] \in Token
      BY <3>1, ChannelAssumption
    <3>3. session' = [session EXCEPT ![z].status = "live",
                                     ![z].token = TokenOf[delivery[r].message]]
      BY <2>3 DEF EveAccepts
    <3> QED
      BY <1>2, <2>1, <3>2, <3>3 DEF SessionsServe, SessionType
  <2>4. ASSUME NEW z \in Session,
               \/ \E outcome \in {"completed", "failed"} : SessionEnds(z, outcome)
               \/ StopPresence(z)
               \/ SettleSession(z)
        PROVE  SessionsServe'
    <3>1. \A s \in Session : /\ session'[s].token = session[s].token
                             /\ session'[s].status # "unused" => session[s].status # "unused"
      BY <2>1, <2>4 DEF SessionEnds, StopPresence, SettleSession, SessionType
    <3> QED
      BY <1>2, <3>1 DEF SessionsServe
  <2> QED
    BY <1>2, <2>2, <2>3, <2>4
    DEF Next, vars, Handle, ClaimInbound, Prepare, Release, StartSend, RejectSend,
        SendResolves, SendFails, SendTimesOut, AcceptInboundNew, AcceptInboundResumed,
        AcceptInboundFork, Converge, ConvergeFork, RetryInbound, QuarantineInbound,
        UncertainInbound, Respond, RespondUncertain, FinalizeInterrupt, Interrupt,
        Crash, Receive, Refuse, EveRefuses, Tick
<1> QED
  BY <1>1, <1>2, Invariance, PTL DEF Spec

(* A function rewritten at one point.                                      *)
LEMMA ExceptAt ==
  ASSUME NEW S, NEW f, f = [x \in S |-> f[x]], NEW a, NEW v
  PROVE  [x \in S |-> IF x = a THEN v ELSE f[x]] = [f EXCEPT ![a] = v]
OBVIOUS

LEMMA LedgersAreFunctions ==
  /\ LedgerRecord = [m \in Message |-> LedgerRecord[m]]
  /\ LedgerBound = [t \in Token |-> LedgerBound[t]]
BY DEF LedgerRecord, LedgerBound

(* A transaction on the store as the ledger sees it.                       *)
LEMMA WrittenRecords ==
  ASSUME Inv, NEW txn, Applied(txn)
  PROVE  /\ LedgerRecord' =
              [m \in Message |->
                 IF InboundKey(m) \in DOMAIN txn.mutations
                 THEN txn.mutations[InboundKey(m)].value ELSE LedgerRecord[m]]
         /\ LedgerBound' =
              [t \in Token |->
                 IF ContinuityKey(t) \in DOMAIN txn.mutations
                 THEN txn.mutations[ContinuityKey(t)].value ELSE LedgerBound[t]]
         /\ LedgerTerminal' =
              {s \in Session :
                 IF TerminalKey(s) \in DOMAIN txn.mutations
                 THEN txn.mutations[TerminalKey(s)].value # Nil ELSE s \in LedgerTerminal}
<1>1. /\ \A m \in Message : InboundKey(m) \in DOMAIN db
      /\ \A t \in Token : ContinuityKey(t) \in DOMAIN db
      /\ \A s \in Session : TerminalKey(s) \in DOMAIN db
  BY DEF Inv, TypeOK, Key
<1>2. \A key \in DOMAIN db :
        db'[key] = IF key \in DOMAIN txn.mutations THEN txn.mutations[key] ELSE db[key]
  BY WrittenAt DEF Applied
<1>3. LedgerRecord' =
        [m \in Message |->
           IF InboundKey(m) \in DOMAIN txn.mutations
           THEN txn.mutations[InboundKey(m)].value ELSE LedgerRecord[m]]
  BY <1>1, <1>2 DEF LedgerRecord, Read
<1>4. LedgerBound' =
        [t \in Token |->
           IF ContinuityKey(t) \in DOMAIN txn.mutations
           THEN txn.mutations[ContinuityKey(t)].value ELSE LedgerBound[t]]
  BY <1>1, <1>2 DEF LedgerBound, Read
<1>5. LedgerTerminal' =
        {s \in Session :
           IF TerminalKey(s) \in DOMAIN txn.mutations
           THEN txn.mutations[TerminalKey(s)].value # Nil ELSE s \in LedgerTerminal}
  BY <1>1, <1>2 DEF LedgerTerminal, Read
<1> QED
  BY <1>3, <1>4, <1>5

(* One on a replay record touches nothing else of the ledger.              *)
LEMMA OneReplayRecord ==
  ASSUME Inv, NEW m \in Message, NEW txn, Applied(txn),
         DOMAIN txn.mutations = {InboundKey(m)}
  PROVE  /\ LedgerRecord' =
              [LedgerRecord EXCEPT ![m] = txn.mutations[InboundKey(m)].value]
         /\ UNCHANGED <<LedgerBound, LedgerTerminal>>
<1>1. \A n \in Message : InboundKey(n) \in DOMAIN txn.mutations <=> n = m
  BY KeysAreDistinct
<1>2. /\ \A t \in Token : ContinuityKey(t) \notin DOMAIN txn.mutations
      /\ \A s \in Session : TerminalKey(s) \notin DOMAIN txn.mutations
  BY KeysAreDistinct
<1>3. LedgerRecord' = [LedgerRecord EXCEPT ![m] = txn.mutations[InboundKey(m)].value]
  <2> DEFINE v == txn.mutations[InboundKey(m)].value
  <2>1. LedgerRecord' = [n \in Message |-> IF n = m THEN v ELSE LedgerRecord[n]]
    BY <1>1, WrittenRecords
  <2> QED
    BY <2>1, ExceptAt, LedgersAreFunctions
<1>4. LedgerBound' = LedgerBound
  BY <1>2, WrittenRecords DEF LedgerBound
<1>5. LedgerTerminal' = LedgerTerminal
  BY <1>2, WrittenRecords DEF LedgerTerminal
<1> QED
  BY <1>3, <1>4, <1>5

LEMMA SettlementsAreLedgerSteps ==
  ASSUME Inv, FactsStand, NEW m \in Message, Settled(m)
  PROVE  Ledger!Claim(m) \/ Ledger!Settle(m, Nil) \/ Ledger!Settle(m, "uncertain")
<1>1. LedgerRecord[m] = Read(db, InboundKey(m))
  BY DEF LedgerRecord
<1>2. CASE Applied(Claim(InboundKey(m)))
  <2> DEFINE txn == Claim(InboundKey(m))
  <2>1. /\ Holds(db, txn)
        /\ DOMAIN txn.conditions = {InboundKey(m)}
        /\ txn.conditions[InboundKey(m)] = Nil
        /\ DOMAIN txn.mutations = {InboundKey(m)}
        /\ txn.mutations[InboundKey(m)].value = "claimed"
    BY <1>2 DEF Applied, Claim, Transaction, Put
  <2>2. LedgerRecord[m] = Nil
    BY <1>1, <2>1 DEF Holds
  <2> HIDE DEF txn
  <2>3. Applied(txn)
    BY <1>2 DEF txn
  <2>4. /\ LedgerRecord' = [LedgerRecord EXCEPT ![m] = "claimed"]
        /\ UNCHANGED <<LedgerBound, LedgerTerminal>>
    BY <2>1, <2>3, OneReplayRecord
  <2> QED
    BY <2>2, <2>4 DEF Ledger!Claim, FactsStand
<1>3. ASSUME NEW verdict, NEW txn, Applied(txn),
             /\ DOMAIN txn.conditions = {InboundKey(m)}
             /\ txn.conditions[InboundKey(m)] = "claimed"
             /\ DOMAIN txn.mutations = {InboundKey(m)}
             /\ txn.mutations[InboundKey(m)].value = verdict
      PROVE  Ledger!Settle(m, verdict)
  <2>1. LedgerRecord[m] = "claimed"
    BY <1>1, <1>3 DEF Applied, Holds
  <2>2. /\ LedgerRecord' = [LedgerRecord EXCEPT ![m] = verdict]
        /\ UNCHANGED <<LedgerBound, LedgerTerminal>>
    BY <1>3, OneReplayRecord
  <2> QED
    BY <2>1, <2>2 DEF Ledger!Settle, FactsStand
<1>4. CASE Applied(Retain(InboundKey(m), "uncertain"))
  <2>1. Ledger!Settle(m, "uncertain")
    BY <1>3, <1>4 DEF Retain, Transaction, Put
  <2> QED
    BY <2>1
<1>5. CASE Applied(Retryable(InboundKey(m)))
  <2>1. Ledger!Settle(m, Nil)
    BY <1>3, <1>5 DEF Retryable, Transaction, Put, Gone
  <2> QED
    BY <2>1
<1> QED
  BY <1>2, <1>4, <1>5 DEF Settled

(* A message is completed, and its conversation bound, in one step.        *)
LEMMA CompletionsAreLedgerSteps ==
  ASSUME Inv, FactsStand, NEW r \in Delivery, Bound(r)
  PROVE  Ledger!Complete(delivery[r].message, send[r].session)
<1> DEFINE m == delivery[r].message
           s == send[r].session
<1>1. /\ <<m, s>> \in LedgerAccepted
      /\ m \in Message /\ s \in Session /\ TokenOf[m] \in Token
  BY BoundIsAccepted, ChannelAssumption DEF LedgerAccepted, AcceptedDeliveries
<1>2. PICK continuity \in {Nil, s} : Applied(AcceptedBy(r, continuity))
  BY DEF Bound
<1> DEFINE txn == AcceptedBy(r, continuity)
<1>3. /\ DOMAIN txn.conditions = {InboundKey(m), ContinuityKey(TokenOf[m])}
      /\ DOMAIN txn.mutations = {InboundKey(m), ContinuityKey(TokenOf[m])}
      /\ txn.conditions[InboundKey(m)] = "claimed"
      /\ txn.conditions[ContinuityKey(TokenOf[m])] = continuity
      /\ txn.mutations[InboundKey(m)].value = "complete"
      /\ txn.mutations[ContinuityKey(TokenOf[m])].value = s
  BY AcceptShape
<1> HIDE DEF txn
<1>4. Applied(txn)
  BY <1>2 DEF txn
<1>5. /\ LedgerRecord[m] = "claimed"
      /\ LedgerBound[TokenOf[m]] \in {Nil, s}
  BY <1>1, <1>2, <1>3, <1>4 DEF Applied, Holds, LedgerRecord, LedgerBound
<1>6. /\ \A n \in Message : InboundKey(n) \in DOMAIN txn.mutations <=> n = m
      /\ \A t \in Token : ContinuityKey(t) \in DOMAIN txn.mutations <=> t = TokenOf[m]
      /\ \A z \in Session : TerminalKey(z) \notin DOMAIN txn.mutations
  BY <1>3, KeysAreDistinct
<1>7. LedgerRecord' = [LedgerRecord EXCEPT ![m] = "complete"]
  <2>1. LedgerRecord' = [n \in Message |-> IF n = m THEN "complete" ELSE LedgerRecord[n]]
    BY <1>3, <1>4, <1>6, WrittenRecords
  <2> QED
    BY <2>1, ExceptAt, LedgersAreFunctions
<1>8. LedgerBound' = [LedgerBound EXCEPT ![TokenOf[m]] = s]
  <2>1. LedgerBound' = [t \in Token |-> IF t = TokenOf[m] THEN s ELSE LedgerBound[t]]
    BY <1>3, <1>4, <1>6, WrittenRecords
  <2> QED
    BY <2>1, ExceptAt, LedgersAreFunctions
<1>9. LedgerTerminal' = LedgerTerminal
  BY <1>4, <1>6, WrittenRecords DEF LedgerTerminal
<1> QED
  BY <1>1, <1>5, <1>7, <1>8, <1>9 DEF Ledger!Complete, FactsStand

(* A conversation loses the session that is over, and the failure is noted *)
(* in that step.                                                           *)
LEMMA RetirementsAreLedgerSteps ==
  ASSUME Inv, SessionsServe, FactsStand, NEW s \in Session, Retired(s)
  PROVE  session[s].token \in Token /\ Ledger!Retire(session[s].token, s)
<1> DEFINE t   == session[s].token
           txn == Retirement(t, s, session[s].status)
<1>1. /\ Applied(txn)
      /\ session[s].status \in {"completed", "failed"}
      /\ t \in Token
  BY DEF Retired, Inv, EndsAreReal, SessionsServe
<1>2. LedgerEnded[s] = session[s].status
  BY <1>1 DEF LedgerEnded
<1>3. /\ DOMAIN txn.conditions = {ContinuityKey(t)}
      /\ txn.conditions[ContinuityKey(t)] = s
      /\ DOMAIN txn.mutations = {ContinuityKey(t)} \cup
           (IF session[s].status = "failed" THEN {TerminalKey(s)} ELSE {})
      /\ txn.mutations[ContinuityKey(t)].value = Nil
      /\ session[s].status = "failed" => txn.mutations[TerminalKey(s)].value = "failed"
  BY KeysAreDistinct DEF Retirement, Transaction, Put, Gone
<1> HIDE DEF txn
<1>4. /\ \A n \in Message : InboundKey(n) \notin DOMAIN txn.mutations
      /\ \A u \in Token : ContinuityKey(u) \in DOMAIN txn.mutations <=> u = t
      /\ \A z \in Session : TerminalKey(z) \in DOMAIN txn.mutations <=>
                              z = s /\ session[s].status = "failed"
  BY <1>3, KeysAreDistinct
<1>5. LedgerRecord' = LedgerRecord
  BY <1>1, <1>4, WrittenRecords DEF LedgerRecord
<1>6. LedgerTerminal' = LedgerTerminal \cup (IF LedgerEnded[s] = "failed" THEN {s} ELSE {})
  <2>1. Nil # "failed"
    BY ChannelAssumption
  <2> QED
    BY <1>1, <1>2, <1>3, <1>4, <2>1, WrittenRecords DEF LedgerTerminal
<1>7. LedgerBound[t] = s
  BY <1>1, <1>3 DEF Applied, Holds, LedgerBound
<1>8. LedgerBound' = [LedgerBound EXCEPT ![t] = Nil]
  <2>1. LedgerBound' = [u \in Token |-> IF u = t THEN Nil ELSE LedgerBound[u]]
    BY <1>1, <1>3, <1>4, WrittenRecords
  <2> QED
    BY <2>1, ExceptAt, LedgersAreFunctions
<1> QED
  BY <1>1, <1>2, <1>5, <1>6, <1>7, <1>8 DEF Ledger!Retire, FactsStand

(* Time lets records lapse and does nothing else.                          *)
LEMMA AgingIsLapse ==
  ASSUME Inv, FactsStand, db' = Aged(db)
  PROVE  \E messages \in SUBSET Message, tokens \in SUBSET Token,
            sessions \in SUBSET Session : Ledger!Lapse(messages, tokens, sessions)
<1>1. /\ \A m \in Message : InboundKey(m) \in DOMAIN db
      /\ \A t \in Token : ContinuityKey(t) \in DOMAIN db
      /\ \A s \in Session : TerminalKey(s) \in DOMAIN db
  BY DEF Inv, TypeOK, Key
<1>2. \A key \in DOMAIN db : db'[key].value = db[key].value \/ db'[key].value = Nil
  BY AgingKeepsValues DEF Gone, Put
<1>3. PICK messages \in SUBSET Message :
        \A m \in Message : m \in messages <=> Read(db', InboundKey(m)) = Nil
  <2>1. {m \in Message : Read(db', InboundKey(m)) = Nil} \in SUBSET Message
    OBVIOUS
  <2> QED
    BY <2>1
<1>4. PICK tokens \in SUBSET Token :
        \A t \in Token : t \in tokens <=> Read(db', ContinuityKey(t)) = Nil
  <2>1. {t \in Token : Read(db', ContinuityKey(t)) = Nil} \in SUBSET Token
    OBVIOUS
  <2> QED
    BY <2>1
<1>5. PICK sessions \in SUBSET Session :
        \A s \in Session : s \in sessions <=> Read(db', TerminalKey(s)) = Nil
  <2>1. {s \in Session : Read(db', TerminalKey(s)) = Nil} \in SUBSET Session
    OBVIOUS
  <2> QED
    BY <2>1
<1>6. LedgerRecord' = [m \in Message |-> IF m \in messages THEN Nil ELSE LedgerRecord[m]]
  BY <1>1, <1>2, <1>3 DEF LedgerRecord, Read
<1>7. LedgerBound' = [t \in Token |-> IF t \in tokens THEN Nil ELSE LedgerBound[t]]
  BY <1>1, <1>2, <1>4 DEF LedgerBound, Read
<1>8. LedgerTerminal' = LedgerTerminal \ sessions
  BY <1>1, <1>2, <1>5 DEF LedgerTerminal, Read
<1>9. Ledger!Lapse(messages, tokens, sessions)
  BY <1>6, <1>7, <1>8 DEF Ledger!Lapse, FactsStand
<1> QED
  BY <1>9

(* What a step does to the store is a step of the ledger, once Eve's facts *)
(* stand still.                                                            *)
LEMMA StoreStepsAreLedgerSteps ==
  ASSUME Inv, SessionsServe, FactsStand, StoreSteps
  PROVE  [Ledger!Next]_Ledger!ledger
<1>1. CASE db' = db
  BY <1>1 DEF FactsStand, LedgerRecord, LedgerBound, LedgerTerminal, Ledger!ledger
<1>2. CASE db' = Aged(db)
  <2>1. Ledger!Next
    BY <1>2, AgingIsLapse DEF Ledger!Next
  <2> QED
    BY <2>1
<1>3. ASSUME NEW m \in Message, Settled(m)
      PROVE  Ledger!Next
  BY <1>3, SettlementsAreLedgerSteps DEF Ledger!Next
<1>4. ASSUME NEW r \in Delivery, Bound(r)
      PROVE  Ledger!Next
  BY <1>4, CompletionsAreLedgerSteps, BoundIsAccepted DEF Ledger!Next
<1>5. ASSUME NEW s \in Session, Retired(s)
      PROVE  Ledger!Next
  BY <1>5, RetirementsAreLedgerSteps DEF Ledger!Next
<1> QED
  BY <1>1, <1>2, <1>3, <1>4, <1>5 DEF StoreSteps

(* Every step of the channel is a step of the ledger, or none.             *)
LEMMA StepsAreLedgerSteps ==
  ASSUME Inv, SessionsServe, [Next]_vars
  PROVE  [Ledger!Next]_Ledger!ledger
<1>1. CASE FactsStand
  BY <1>1, StepsOfTheStore, StoreStepsAreLedgerSteps
<1>2. ASSUME NEW r \in Delivery, NEW s \in Session, EveAccepts(r, s)
      PROVE  Ledger!Next
  <2>1. delivery[r].message \in Message
    BY <1>2 DEF Inv, Causal, EveAccepts
  <2> QED
    BY <1>2, <2>1, AcceptancesAreFacts DEF Ledger!Next
<1>3. ASSUME NEW s \in Session, NEW outcome \in {"completed", "failed"},
             SessionEnds(s, outcome)
      PROVE  Ledger!Next
  BY <1>3, EndsAreFacts DEF Ledger!Next
<1>4. CASE Tick \/ UNCHANGED vars
  <2>1. FactsStand
    BY <1>4 DEF Tick, vars, FactsStand, LedgerAccepted, LedgerEnded
  <2> QED
    BY <1>1, <2>1
<1>5. ASSUME NEW r \in Delivery, EveRefuses(r)
      PROVE  FactsStand
  <2>1. /\ send \in SendType
        /\ UNCHANGED <<delivery, session>>
        /\ send[r].status = "inflight"
        /\ send' = [send EXCEPT ![r].status = "refused"]
    BY <1>5 DEF EveRefuses, Inv, TypeOK, SendType
  <2>2. \A q \in Delivery : /\ send'[q].status = "accepted" <=> send[q].status = "accepted"
                             /\ send'[q].session = send[q].session
    BY <2>1 DEF SendType
  <2>3. LedgerAccepted' = LedgerAccepted
    BY <2>1, <2>2, SendsAreTheFacts
  <2> QED
    BY <2>1, <2>3 DEF FactsStand, LedgerEnded
<1> QED
  BY <1>1, <1>2, <1>3, <1>4, <1>5, ArrivalsKeepFacts, HandlersKeepFacts,
     SettlementsKeepFacts
  DEF Next

(* Whatever interleaves, fails, crashes or lapses, each step on the store  *)
(* is one of the ledger's on its records, made on the facts of Eve that    *)
(* entitle to it (claim, acceptInbound, retryable, retain and              *)
(* settleSession of replay.ts).                                            *)
THEOREM LedgerIsKept == Spec => KeepsLedger
<1>1. Init => Ledger!Init
  <2> SUFFICES ASSUME Init PROVE Ledger!Init
    OBVIOUS
  <2>1. \A key \in Key : Read(db, key) = Nil
    BY DEF Init, Read, Gone, Put
  <2>2. LedgerAccepted = {}
    BY DEF Init, LedgerAccepted
  <2>3. LedgerEnded = [s \in Session |-> "no"]
    BY DEF Init, LedgerEnded
  <2>4. /\ LedgerRecord = [m \in Message |-> Nil]
        /\ LedgerBound = [t \in Token |-> Nil]
        /\ LedgerTerminal = {}
    BY <2>1 DEF LedgerRecord, LedgerBound, LedgerTerminal, Key
  <2> QED
    BY <2>2, <2>3, <2>4 DEF Ledger!Init
<1>2. Inv /\ SessionsServe /\ [Next]_vars => [Ledger!Next]_Ledger!ledger
  BY StepsAreLedgerSteps
<1> QED
  BY <1>1, <1>2, Invariance, ServiceIsInvariant, PTL DEF Spec, KeepsLedger, Ledger!Spec

-----------------------------------------------------------------------------
(* In a punctual deployment deliveries of one message exclude each other.  *)

(* A delivery that may dispatch, or release what it claimed.               *)
Holding == Dispatching \cup {"release", "retry"}

Coming == {"idle", "claim"}

(* It is alone with its message, and its message keeps a record as long as *)
(* another delivery may come for it.                                       *)
Alone(r) ==
  delivery[r].pc \in Holding =>
    /\ \/ db[Record(r)].value # Nil
       \/ \A q \in Delivery : delivery[q].pc \notin Coming
    /\ \A q \in Delivery :
         delivery[q].pc \in Holding /\ delivery[q].message = delivery[r].message => q = r

Exclusion ==
  /\ \A m \in Message : db[InboundKey(m)].value \in ReplayStatus \cup {Nil}
  /\ \A r \in Delivery : Alone(r)

(* Nobody comes back, and only a claim that found no record lets anyone in. *)
LEMMA OnlyClaimsEnter ==
  ASSUME Inv, [Next]_vars, NEW q \in Delivery
  PROVE  /\ delivery'[q].pc \in Coming => delivery[q].pc \in Coming
         /\ delivery'[q].pc \in Holding =>
              /\ delivery'[q].message = delivery[q].message
              /\ \/ delivery[q].pc \in Holding
                 \/ /\ delivery[q].pc = "claim"
                    /\ Applied(Claim(Record(q)))
                    /\ \A p \in Delivery \ {q} : delivery'[p] = delivery[p]
<1> DEFINE Goal == /\ delivery'[q].pc \in Coming => delivery[q].pc \in Coming
                   /\ delivery'[q].pc \in Holding =>
                        /\ delivery'[q].message = delivery[q].message
                        /\ \/ delivery[q].pc \in Holding
                           \/ /\ delivery[q].pc = "claim"
                              /\ Applied(Claim(Record(q)))
                              /\ \A p \in Delivery \ {q} : delivery'[p] = delivery[p]
<1>1. delivery \in DeliveryType
  BY DEF Inv, TypeOK, DeliveryType
<1>2. CASE UNCHANGED delivery
  BY <1>2
<1>3. ASSUME NEW r \in Delivery, NEW m \in Message,
             Receive(r, m) \/ \E d \in Refusal : Refuse(r, m, d)
      PROVE  Goal
  <2>1. /\ delivery[r].pc = "idle"
        /\ delivery'[r].pc \in {"claim", "done"}
        /\ q # r => delivery'[q] = delivery[q]
    BY <1>1, <1>3 DEF Receive, Refuse, At, DeliveryType
  <2> QED
    BY <2>1 DEF Holding, Coming, Dispatching
<1>4. ASSUME NEW r \in Delivery, ClaimInbound(r)
      PROVE  Goal
  <2>1. delivery[r].pc = "claim"
    BY <1>4 DEF ClaimInbound, At
  <2>2. PICK result \in Result :
          /\ Transact(Claim(Record(r)), result)
          /\ \/ result = "applied"  /\ Go(r, "prepare")
             \/ result # "applied" /\ \E disposition : Answer(r, disposition)
    BY <1>4 DEF ClaimInbound
  <2>3. \A p \in Delivery \ {r} : delivery'[p] = delivery[p]
    BY <1>1, <2>2 DEF Go, Answer, DeliveryType
  <2>4. CASE result = "applied"
    <3>1. /\ Applied(Claim(Record(r)))
          /\ delivery'[r].message = delivery[r].message
          /\ delivery'[r].pc = "prepare"
      BY <1>1, <2>2, <2>4, TransactionIsAtomic DEF Go, Applied, DeliveryType
    <3> QED
      BY <2>1, <2>3, <3>1 DEF Coming
  <2>5. CASE result # "applied"
    <3>1. delivery'[r].pc = "done"
      BY <1>1, <2>2, <2>5 DEF Answer, DeliveryType
    <3> QED
      BY <2>1, <2>3, <3>1 DEF Coming, Holding, Dispatching
  <2> QED
    BY <2>4, <2>5
<1>5. ASSUME NEW r \in Delivery, Handle(r) \/ Interrupt(r) \/ Crash(r), ~ClaimInbound(r)
      PROVE  Goal
  <2>1. \/ \E disposition : Answer(r, disposition)
        \/ \E point \in Point \ Coming :
             Go(r, point) /\ (point \in Holding => delivery[r].pc \in Holding)
    <3>1. CASE Prepare(r) \/ StartSend(r) \/ RejectSend(r) \/ SendResolves(r)
                 \/ SendFails(r) \/ SendTimesOut(r) \/ AcceptInboundNew(r)
                 \/ AcceptInboundResumed(r)
      BY <3>1
      DEF Prepare, StartSend, RejectSend, SendResolves, SendFails, SendTimesOut,
          AcceptInboundNew, AcceptInboundResumed, At, Point, Holding, Dispatching,
          Settling, Coming
    <3>2. CASE Release(r) \/ Respond(r) \/ RespondUncertain(r)
      BY <3>2 DEF Release, Respond, RespondUncertain
    <3>3. CASE AcceptInboundFork(r) \/ Converge(r) \/ ConvergeFork(r) \/ RetryInbound(r)
                 \/ QuarantineInbound(r) \/ UncertainInbound(r) \/ FinalizeInterrupt(r)
      BY <3>3
      DEF AcceptInboundFork, Converge, ConvergeFork, RetryInbound, QuarantineInbound,
          UncertainInbound, FinalizeInterrupt, Point, Holding, Dispatching, Settling, Coming
    <3>4. CASE Interrupt(r) \/ Crash(r)
      BY <3>4 DEF Interrupt, Crash, Point, Holding, Dispatching, Settling, Coming
    <3> QED
      BY <1>5, <3>1, <3>2, <3>3, <3>4 DEF Handle
  <2>2. q # r => delivery'[q] = delivery[q]
    BY <1>1, <2>1 DEF Go, Answer, DeliveryType
  <2>3. CASE \E disposition : Answer(r, disposition)
    <3>1. delivery'[r].pc = "done"
      BY <1>1, <2>3 DEF Answer, DeliveryType
    <3> QED
      BY <2>2, <3>1 DEF Coming, Holding, Dispatching
  <2>4. ASSUME NEW point \in Point \ Coming, Go(r, point),
               point \in Holding => delivery[r].pc \in Holding
        PROVE  Goal
    <3>1. delivery'[r].pc = point /\ delivery'[r].message = delivery[r].message
      BY <1>1, <2>4 DEF Go, DeliveryType
    <3> QED
      BY <2>2, <2>4, <3>1
  <2> QED
    BY <2>1, <2>3, <2>4
<1> QED
  BY <1>2, <1>3, <1>4, <1>5
  DEF Next, vars, Handle, EveAccepts, EveRefuses, SessionEnds, StopPresence,
      SettleSession, Tick

(* A replay record goes when it expires, or by the release of a delivery   *)
(* that held it and holds it no longer.                                    *)
LEMMA OnlyReleasesRemove ==
  ASSUME Inv, [Next]_vars, NEW m \in Message,
         db[InboundKey(m)].value # Nil, db'[InboundKey(m)].value = Nil
  PROVE  \/ Tick /\ db[InboundKey(m)].ttl = 1
         \/ \E r \in Delivery : /\ delivery[r].message = m
                               /\ db[InboundKey(m)].value = "claimed"
                               /\ delivery[r].pc \in {"release", "retry"}
                               /\ delivery'[r].pc \notin Holding
<1> DEFINE key  == InboundKey(m)
           Goal == \/ Tick /\ db[key].ttl = 1
                   \/ \E r \in Delivery : /\ delivery[r].message = m
                                         /\ db[key].value = "claimed"
                                         /\ delivery[r].pc \in {"release", "retry"}
                                         /\ delivery'[r].pc \notin Holding
<1>1. /\ key \in DOMAIN db
      /\ delivery \in DeliveryType
      /\ Nil \notin ReplayStatus
  BY ChannelAssumption DEF Inv, TypeOK, Key, DeliveryType
<1>2. CASE Tick
  BY <1>1, <1>2, AgingKeepsValues DEF Tick
<1>3. ASSUME NEW txn, NEW result, Transact(txn, result),
             key \in DOMAIN txn.mutations => txn.mutations[key].value # Nil
      PROVE  FALSE
  BY <1>1, <1>3, TransactionIsAtomic, WrittenAt
<1>4. ASSUME NEW r \in Delivery, Release(r) \/ RetryInbound(r)
      PROVE  Goal
  <2>1. PICK result : Transact(Retryable(Record(r)), result)
    BY <1>4 DEF Release, RetryInbound
  <2>2. delivery[r].message = m
    BY <1>3, <2>1, KeysAreDistinct DEF Retryable, Transaction, Record
  <2>3. delivery[r].pc \in {"release", "retry"} /\ delivery'[r].pc \notin Holding
    BY <1>1, <1>4
    DEF Release, RetryInbound, At, Answer, Go, DeliveryType, Holding, Dispatching
  <2>4. Holds(db, Retryable(Record(r)))
    BY <1>1, <2>1, TransactionIsAtomic
  <2>5. db[key].value = "claimed"
    BY <2>2, <2>4 DEF Holds, Retryable, Transaction, Read, Record
  <2> QED
    BY <2>2, <2>3, <2>5
<1>5. ASSUME NEW r \in Delivery, ClaimInbound(r)
      PROVE  FALSE
  <2>1. PICK result : Transact(Claim(Record(r)), result)
    BY <1>5 DEF ClaimInbound
  <2>2. \A k \in DOMAIN Claim(Record(r)).mutations : Claim(Record(r)).mutations[k].value # Nil
    BY <1>1 DEF Claim, Transaction, Put, ReplayStatus
  <2> QED
    BY <1>3, <2>1, <2>2
<1>6. ASSUME NEW r \in Delivery,
             \/ QuarantineInbound(r) \/ UncertainInbound(r)
             \/ AcceptInboundFork(r) \/ FinalizeInterrupt(r)
      PROVE  FALSE
  <2>1. PICK result : Transact(Retain(Record(r), "uncertain"), result)
    BY <1>6 DEF QuarantineInbound, UncertainInbound, AcceptInboundFork, FinalizeInterrupt
  <2>2. \A k \in DOMAIN Retain(Record(r), "uncertain").mutations :
          Retain(Record(r), "uncertain").mutations[k].value # Nil
    BY <1>1 DEF Retain, Transaction, Put, ReplayStatus
  <2> QED
    BY <1>3, <2>1, <2>2
<1>7. ASSUME NEW r \in Delivery, AcceptInboundNew(r) \/ AcceptInboundResumed(r)
      PROVE  FALSE
  <2>1. PICK result, continuity : Transact(AcceptedBy(r, continuity), result)
    BY <1>7 DEF AcceptInboundNew, AcceptInboundResumed, AcceptNew, AcceptResumed, AcceptedBy
  <2>2. key \in DOMAIN AcceptedBy(r, continuity).mutations =>
          AcceptedBy(r, continuity).mutations[key].value = "complete"
    BY AcceptShape, KeysAreDistinct
  <2> QED
    BY <1>1, <1>3, <2>1, <2>2 DEF ReplayStatus
<1>8. ASSUME NEW s \in Session, SettleSession(s)
      PROVE  FALSE
  <2> DEFINE txn == Retirement(session[s].token, s, session[s].status)
  <2>1. PICK result : Transact(txn, result)
    BY <1>8 DEF SettleSession
  <2>2. key \notin DOMAIN txn.mutations
    BY KeysAreDistinct DEF Retirement, Transaction
  <2> QED
    BY <1>3, <2>1, <2>2
<1>9. ASSUME UNCHANGED db
      PROVE  FALSE
  BY <1>9
<1>10. ASSUME NEW r \in Delivery, Handle(r)
       PROVE  Goal
  BY <1>4, <1>5, <1>6, <1>7, <1>9, <1>10
  DEF Handle, Prepare, StartSend, RejectSend, SendResolves, SendFails, SendTimesOut,
      Converge, ConvergeFork, Respond, RespondUncertain
<1> QED
  BY <1>2, <1>8, <1>9, <1>10
  DEF Next, vars, Receive, Refuse, Interrupt, Crash, EveAccepts, EveRefuses,
      SessionEnds, StopPresence

LEMMA ExclusionIsInductive ==
  ASSUME Punctual, Inv, Exclusion, [Next]_vars
  PROVE  Exclusion'
<1>1. StoreSteps /\ Nil \notin ReplayStatus
  BY StepsOfTheStore, ChannelAssumption
<1>2. ASSUME NEW m \in Message
      PROVE  db'[InboundKey(m)].value \in ReplayStatus \cup {Nil}
  BY <1>1, EffectsOnReplay DEF Exclusion, ReplayStatus, Gone, Put
<1>3. ASSUME NEW r \in Delivery, delivery'[r].pc \in Holding
      PROVE  \/ db'[Record(r)'].value # Nil
             \/ \A q \in Delivery : delivery'[q].pc \notin Coming
  <2> DEFINE m == delivery[r].message
  <2>1. m \in Message /\ delivery'[r].message = m /\ Record(r)' = InboundKey(m)
    BY <1>3, OnlyClaimsEnter DEF Inv, Causal, Record, Holding, Dispatching
  <2>2. CASE delivery[r].pc = "claim" /\ Applied(Claim(Record(r)))
    <3>1. db'[InboundKey(m)].value = "claimed"
      BY <2>1, <2>2, WrittenAt DEF Applied, Claim, Transaction, Record, Put, Inv, TypeOK, Key
    <3> QED
      BY <1>1, <2>1, <3>1 DEF ReplayStatus
  <2>3. CASE delivery[r].pc \in Holding
    <3>1. CASE \A q \in Delivery : delivery[q].pc \notin Coming
      BY <3>1, OnlyClaimsEnter
    <3>2. ASSUME db[InboundKey(m)].value # Nil, db'[InboundKey(m)].value = Nil
          PROVE  \A q \in Delivery : delivery'[q].pc \notin Coming
      <4>1. CASE \E q \in Delivery : /\ delivery[q].message = m
                                   /\ delivery[q].pc \in Holding
                                   /\ delivery'[q].pc \notin Holding
        BY <1>3, <2>3, <4>1 DEF Exclusion, Alone
      <4>2. CASE Tick /\ db[InboundKey(m)].ttl = 1
        <5>1. ~Early /\ UNCHANGED delivery
          BY <4>2 DEF Tick
        <5>2. delivery[r].pc \in Dispatching \cup Settling
          BY <2>3 DEF Holding, Settling
        <5>3. db[InboundKey(m)].value # "claimed"
          BY <4>2, <5>1, <5>2 DEF Early, Expiring
        <5>4. db[InboundKey(m)].value \in {"complete", "uncertain"}
          BY <2>1, <3>2, <5>3 DEF Exclusion, ReplayStatus
        <5> QED
          BY <2>1, <4>2, <5>1, <5>4 DEF Early, Expiring, Coming
      <4> QED
        BY <2>1, <3>2, <4>1, <4>2, OnlyReleasesRemove DEF Holding
    <3> QED
      BY <2>1, <2>3, <3>1, <3>2 DEF Exclusion, Alone, Record
  <2> QED
    BY <1>3, <2>2, <2>3, OnlyClaimsEnter
<1>4. ASSUME NEW r \in Delivery, NEW q \in Delivery,
             delivery'[r].pc \in Holding, delivery'[q].pc \in Holding,
             delivery'[q].message = delivery'[r].message, r # q
      PROVE  FALSE
  <2>1. /\ delivery[r].message = delivery[q].message
        /\ Record(r) = Record(q)
    BY <1>4, OnlyClaimsEnter DEF Record
  <2>2. ASSUME NEW p \in Delivery, NEW other \in Delivery, p # other,
               Record(p) = Record(other),
               delivery[p].pc = "claim", Applied(Claim(Record(p))),
               \A x \in Delivery \ {p} : delivery'[x] = delivery[x],
               delivery'[other].pc \in Holding
        PROVE  FALSE
    <3>1. db[Record(other)].value = Nil
      BY <2>2 DEF Applied, Claim, Transaction, Holds, Read
    <3>2. delivery[other].pc \in Holding
      BY <2>2
    <3> QED
      BY <2>2, <3>1, <3>2 DEF Exclusion, Alone, Coming
  <2>3. delivery[r].pc \in Holding
    BY <1>4, <2>1, <2>2, OnlyClaimsEnter
  <2>4. delivery[q].pc \in Holding
    BY <1>4, <2>1, <2>2, OnlyClaimsEnter
  <2> QED
    BY <1>4, <2>1, <2>3, <2>4 DEF Exclusion, Alone
<1> QED
  BY <1>2, <1>3, <1>4 DEF Exclusion, Alone

(* Where leases outlast handlers and retention outlasts retries, no two    *)
(* deliveries of one message are ever past the claim together, whatever    *)
(* fails and however often the provider retries (claim of replay.ts).      *)
THEOREM DispatchIsExclusive ==
  ASSUME Punctual
  PROVE  Spec => []ExclusiveDispatch
<1>1. Init => Exclusion
  <2> SUFFICES ASSUME Init PROVE Exclusion
    OBVIOUS
  <2>1. \A m \in Message : InboundKey(m) \in Key /\ db[InboundKey(m)].value = Nil
    BY DEF Init, Key, Gone, Put
  <2>2. \A r \in Delivery : delivery[r].pc \notin Holding
    BY DEF Init, Holding, Dispatching
  <2> QED
    BY <2>1, <2>2 DEF Exclusion, Alone
<1>2. Inv /\ Exclusion /\ [Next]_vars => Exclusion'
  BY ExclusionIsInductive
<1>3. Exclusion => ExclusiveDispatch
  BY DEF Exclusion, Alone, ExclusiveDispatch, Holding
<1> QED
  BY <1>1, <1>2, <1>3, Invariance, PTL DEF Spec

-----------------------------------------------------------------------------
(* What a settled message keeps away.                                      *)

LEMMA OneActs ==
  ASSUME Inv, [Next]_vars
  PROVE  \/ UNCHANGED delivery
         \/ \E r \in Delivery :
              /\ \/ \E m \in Message : Receive(r, m)
                 \/ \E m \in Message, d \in Refusal : Refuse(r, m, d)
                 \/ Handle(r) \/ Interrupt(r) \/ Crash(r)
              /\ \A q \in Delivery \ {r} : delivery'[q] = delivery[q]
<1>1. delivery \in DeliveryType
  BY DEF Inv, TypeOK, DeliveryType
<1>2. ASSUME NEW r \in Delivery,
             \/ \E m \in Message : Receive(r, m)
             \/ \E m \in Message, d \in Refusal : Refuse(r, m, d)
      PROVE  \A q \in Delivery \ {r} : delivery'[q] = delivery[q]
  BY <1>1, <1>2 DEF Receive, Refuse, DeliveryType
<1>3. ASSUME NEW r \in Delivery, Handle(r) \/ Interrupt(r) \/ Crash(r)
      PROVE  \A q \in Delivery \ {r} : delivery'[q] = delivery[q]
  <2>1. (\E point : Go(r, point)) \/ \E disposition : Answer(r, disposition)
    BY <1>3
    DEF Handle, Interrupt, Crash, ClaimInbound, Prepare, Release, StartSend, RejectSend,
        SendResolves, SendFails, SendTimesOut, AcceptInboundNew, AcceptInboundResumed,
        AcceptInboundFork, Converge, ConvergeFork, RetryInbound, QuarantineInbound,
        UncertainInbound, Respond, RespondUncertain, FinalizeInterrupt
  <2> QED
    BY <1>1, <2>1 DEF Go, Answer, DeliveryType
<1> QED
  BY <1>2, <1>3
  DEF Next, vars, EveAccepts, EveRefuses, SessionEnds, StopPresence, SettleSession, Tick

Acting == Settling \cup {"converge", "convergeFork"}

(* Where a delivery comes from.                                            *)
LEMMA StepsFollow ==
  ASSUME Inv, [Next]_vars, NEW r \in Delivery
  PROVE  /\ delivery'[r].pc \in Acting =>
              /\ delivery[r].pc \in Holding \cup Acting
              /\ delivery'[r].message = delivery[r].message
         /\ delivery'[r].pc \in {"prepare", "dispatch"} =>
              /\ delivery[r].pc \in {"claim", "prepare", "dispatch"}
              /\ delivery'[r].message = delivery[r].message
         /\ delivery'[r].pc = "respond" =>
              /\ delivery[r].pc \in {"respond", "converge"}
              /\ delivery'[r].message = delivery[r].message
         /\ delivery'[r].pc \in {"release", "retry"} =>
              \/ delivery'[r].pc = delivery[r].pc
              \/ delivery[r].pc \in {"prepare", "dispatch"}
<1> DEFINE Goal == /\ delivery'[r].pc \in Acting =>
                        /\ delivery[r].pc \in Holding \cup Acting
                        /\ delivery'[r].message = delivery[r].message
                   /\ delivery'[r].pc \in {"prepare", "dispatch"} =>
                        /\ delivery[r].pc \in {"claim", "prepare", "dispatch"}
                        /\ delivery'[r].message = delivery[r].message
                   /\ delivery'[r].pc = "respond" =>
                        /\ delivery[r].pc \in {"respond", "converge"}
                        /\ delivery'[r].message = delivery[r].message
                   /\ delivery'[r].pc \in {"release", "retry"} =>
                        \/ delivery'[r].pc = delivery[r].pc
                        \/ delivery[r].pc \in {"prepare", "dispatch"}
<1>1. delivery \in DeliveryType
  BY DEF Inv, TypeOK, DeliveryType
<1>2. CASE delivery'[r] = delivery[r]
  BY <1>2
<1>3. CASE \/ \E m \in Message : Receive(r, m)
           \/ \E m \in Message, d \in Refusal : Refuse(r, m, d)
  <2>1. delivery'[r].pc \in {"claim", "done"}
    BY <1>1, <1>3 DEF Receive, Refuse, DeliveryType
  <2> QED
    BY <2>1 DEF Acting, Settling
<1>4. ASSUME NEW disposition, Answer(r, disposition)
      PROVE  Goal
  <2>1. delivery'[r].pc = "done"
    BY <1>1, <1>4 DEF Answer, DeliveryType
  <2> QED
    BY <2>1 DEF Acting, Settling
<1>5. ASSUME NEW point, Go(r, point)
      PROVE  delivery'[r].pc = point /\ delivery'[r].message = delivery[r].message
  BY <1>1, <1>5 DEF Go, DeliveryType
<1>6. CASE ClaimInbound(r)
  BY <1>4, <1>5, <1>6 DEF ClaimInbound, At, Acting, Settling
<1>7. CASE Prepare(r) \/ RejectSend(r) \/ StartSend(r)
  BY <1>5, <1>7
  DEF Prepare, RejectSend, StartSend, At, Acting, Settling, Holding, Dispatching
<1>8. CASE Release(r) \/ Respond(r) \/ RespondUncertain(r)
  BY <1>4, <1>8 DEF Release, Respond, RespondUncertain
<1>9. CASE SendResolves(r) \/ SendFails(r) \/ SendTimesOut(r)
  BY <1>5, <1>9
  DEF SendResolves, SendFails, SendTimesOut, At, Acting, Settling, Holding, Dispatching
<1>10. CASE AcceptInboundNew(r) \/ AcceptInboundResumed(r) \/ AcceptInboundFork(r)
  BY <1>5, <1>10
  DEF AcceptInboundNew, AcceptInboundResumed, AcceptInboundFork, At, Acting, Settling,
      Holding, Dispatching
<1>11. CASE Converge(r) \/ ConvergeFork(r) \/ RetryInbound(r) \/ QuarantineInbound(r)
              \/ UncertainInbound(r) \/ FinalizeInterrupt(r)
  BY <1>5, <1>11
  DEF Converge, ConvergeFork, RetryInbound, QuarantineInbound, UncertainInbound,
      FinalizeInterrupt, At, Acting, Settling, Holding, Dispatching
<1>12. CASE Interrupt(r) \/ Crash(r)
  BY <1>5, <1>12 DEF Interrupt, Crash, Acting, Settling, Holding, Dispatching
<1> QED
  BY <1>2, <1>3, <1>6, <1>7, <1>8, <1>9, <1>10, <1>11, <1>12, OneActs DEF Handle

(* What becomes of the send of a delivery.                                 *)
LEMMA StepsOfSends ==
  ASSUME Inv, [Next]_vars, NEW r \in Delivery
  PROVE  \/ send'[r] = send[r]
         \/ StartSend(r) /\ send'[r].status = "inflight"
         \/ /\ send[r].status = "inflight"
            /\ UNCHANGED delivery
            /\ \/ send'[r].status = "accepted"
               \/ send'[r].status = "refused" /\ EveRefuses(r)
<1>1. send \in SendType
  BY DEF Inv, TypeOK, SendType
<1>2. ASSUME NEW q \in Delivery, StartSend(q)
      PROVE  send'[r] = send[r] \/ (StartSend(r) /\ send'[r].status = "inflight")
  BY <1>1, <1>2 DEF StartSend, SendType
<1>3. ASSUME NEW q \in Delivery, EveRefuses(q) \/ \E z \in Session : EveAccepts(q, z)
      PROVE  \/ send'[r] = send[r]
             \/ /\ send[r].status = "inflight"
                /\ UNCHANGED delivery
                /\ \/ send'[r].status = "accepted"
                   \/ send'[r].status = "refused" /\ EveRefuses(r)
  <2>1. CASE q # r
    <3>1. \E answer : send' = [send EXCEPT ![q] = answer]
      BY <1>3 DEF EveRefuses, EveAccepts
    <3> QED
      BY <1>1, <2>1, <3>1 DEF SendType
  <2>2. CASE q = r /\ EveRefuses(r)
    BY <1>1, <2>2 DEF EveRefuses, SendType
  <2>3. ASSUME NEW z \in Session, EveAccepts(r, z)
        PROVE  /\ send[r].status = "inflight"
               /\ UNCHANGED delivery
               /\ send'[r].status = "accepted"
    BY <1>1, <2>3 DEF EveAccepts, SendType
  <2> QED
    BY <1>3, <2>1, <2>2, <2>3
<1>4. CASE UNCHANGED send
  BY <1>4
<1>5. ASSUME NEW q \in Delivery, Handle(q), ~StartSend(q)
      PROVE  UNCHANGED send
  BY <1>5
  DEF Handle, ClaimInbound, Prepare, Release, RejectSend, SendResolves, SendFails,
      SendTimesOut, AcceptInboundNew, AcceptInboundResumed, AcceptInboundFork, Converge,
      ConvergeFork, RetryInbound, QuarantineInbound, UncertainInbound, Respond,
      RespondUncertain, FinalizeInterrupt
<1> QED
  BY <1>2, <1>3, <1>4, <1>5
  DEF Next, vars, Receive, Refuse, Interrupt, Crash, SessionEnds, StopPresence,
      SettleSession, Tick

Status(m) == db[InboundKey(m)].value

(* The message is settled, and its record stays for as long as another     *)
(* delivery may come.                                                      *)
Closed(m) ==
  \/ Status(m) \in {"complete", "uncertain"}
  \/ Status(m) = Nil /\ \A q \in Delivery : delivery[q].pc \notin Coming

(* Nor is there a delivery that has claimed it and not sent it.            *)
Sealed(m) ==
  /\ Closed(m)
  /\ \A r \in Delivery :
       delivery[r].message = m => delivery[r].pc \notin {"prepare", "dispatch"}

(* Only a delivery that has claimed a message it found without a record    *)
(* gives it one.                                                           *)
LEMMA OnlyClaimsCreate ==
  ASSUME Inv, [Next]_vars, NEW m \in Message, Status(m) = Nil, Status(m)' # Nil
  PROVE  \E r \in Delivery : delivery[r].pc = "claim" /\ delivery[r].message = m
<1> DEFINE key  == InboundKey(m)
           Goal == \E r \in Delivery : delivery[r].pc = "claim" /\ delivery[r].message = m
<1>1. /\ key \in DOMAIN db
      /\ "claimed" # Nil
      /\ db[key].value = Nil
      /\ db'[key].value # Nil
  BY ChannelAssumption DEF Inv, TypeOK, Key, Status, ReplayStatus
<1>2. CASE Tick
  BY <1>1, <1>2, AgingKeepsValues DEF Tick, Gone, Put
<1>3. ASSUME UNCHANGED db
      PROVE  FALSE
  BY <1>1, <1>3
<1>4. ASSUME NEW txn, NEW result, Transact(txn, result),
             key \in DOMAIN txn.mutations =>
               key \in DOMAIN txn.conditions /\ txn.conditions[key] = "claimed"
      PROVE  FALSE
  <2>1. Holds(db, txn) /\ db' = Written(db, txn)
    BY <1>1, <1>4, TransactionIsAtomic
  <2>2. key \in DOMAIN txn.mutations
    BY <1>1, <2>1, WrittenAt
  <2> QED
    BY <1>1, <1>4, <2>1, <2>2 DEF Holds, Read
<1>5. ASSUME NEW r \in Delivery, ClaimInbound(r)
      PROVE  Goal
  <2>1. PICK result : Transact(Claim(Record(r)), result)
    BY <1>5 DEF ClaimInbound
  <2>2. Record(r) = key
    BY <1>4, <2>1 DEF Claim, Transaction
  <2> QED
    BY <1>5, <2>2, KeysAreDistinct DEF ClaimInbound, At, Record
<1>6. ASSUME NEW r \in Delivery, NEW txn, NEW result, Transact(txn, result),
             txn \in {Retain(Record(r), "uncertain"), Retryable(Record(r))}
      PROVE  FALSE
  <2>1. DOMAIN txn.conditions = {Record(r)} /\ DOMAIN txn.mutations = {Record(r)}
        /\ txn.conditions[Record(r)] = "claimed"
    BY <1>6 DEF Retain, Retryable, Transaction
  <2> QED
    BY <1>4, <1>6, <2>1
<1>7. ASSUME NEW r \in Delivery, AcceptInboundNew(r) \/ AcceptInboundResumed(r)
      PROVE  FALSE
  <2>1. PICK result, continuity : Transact(AcceptedBy(r, continuity), result)
    BY <1>7 DEF AcceptInboundNew, AcceptInboundResumed, AcceptNew, AcceptResumed, AcceptedBy
  <2>2. key \in DOMAIN AcceptedBy(r, continuity).mutations =>
          /\ key \in DOMAIN AcceptedBy(r, continuity).conditions
          /\ AcceptedBy(r, continuity).conditions[key] = "claimed"
    BY AcceptShape, KeysAreDistinct
  <2> QED
    BY <1>4, <2>1, <2>2
<1>8. ASSUME NEW s \in Session, SettleSession(s)
      PROVE  FALSE
  <2> DEFINE txn == Retirement(session[s].token, s, session[s].status)
  <2>1. PICK result : Transact(txn, result)
    BY <1>8 DEF SettleSession
  <2>2. key \notin DOMAIN txn.mutations
    BY KeysAreDistinct DEF Retirement, Transaction
  <2> QED
    BY <1>4, <2>1, <2>2
<1>9. ASSUME NEW r \in Delivery, Handle(r), ~ClaimInbound(r)
      PROVE  FALSE
  <2>1. CASE Release(r) \/ RetryInbound(r)
    <3>1. PICK result : Transact(Retryable(Record(r)), result)
      BY <2>1 DEF Release, RetryInbound
    <3> QED
      BY <1>6, <3>1
  <2>2. CASE QuarantineInbound(r) \/ UncertainInbound(r) \/ AcceptInboundFork(r)
               \/ FinalizeInterrupt(r)
    <3>1. PICK result : Transact(Retain(Record(r), "uncertain"), result)
      BY <2>2 DEF QuarantineInbound, UncertainInbound, AcceptInboundFork, FinalizeInterrupt
    <3> QED
      BY <1>6, <3>1
  <2>3. CASE \/ Prepare(r) \/ StartSend(r) \/ RejectSend(r) \/ SendResolves(r)
             \/ SendFails(r) \/ SendTimesOut(r) \/ Converge(r) \/ ConvergeFork(r)
             \/ Respond(r) \/ RespondUncertain(r)
    BY <1>3, <2>3
    DEF Prepare, StartSend, RejectSend, SendResolves, SendFails, SendTimesOut, Converge,
        ConvergeFork, Respond, RespondUncertain
  <2> QED
    BY <1>7, <1>9, <2>1, <2>2, <2>3 DEF Handle
<1> QED
  BY <1>2, <1>3, <1>5, <1>8, <1>9
  DEF Next, vars, Receive, Refuse, Interrupt, Crash, EveAccepts, EveRefuses,
      SessionEnds, StopPresence

LEMMA ClosedForGood ==
  ASSUME Punctual, Inv, Exclusion, [Next]_vars, NEW m \in Message, Closed(m)
  PROVE  Closed(m)'
<1>1. \A q \in Delivery : delivery'[q].pc \in Coming => delivery[q].pc \in Coming
  BY OnlyClaimsEnter
<1>2. Nil \notin ReplayStatus
  BY ChannelAssumption
<1>3. CASE Status(m) = Nil
  <2>1. \A q \in Delivery : delivery[q].pc # "claim"
    BY <1>2, <1>3 DEF Closed, Coming, ReplayStatus
  <2>2. Status(m)' = Nil
    BY <1>3, <2>1, OnlyClaimsCreate
  <2> QED
    BY <1>1, <1>2, <1>3, <2>2 DEF Closed, ReplayStatus
<1>4. CASE Status(m) \in {"complete", "uncertain"}
  <2>1. \/ Status(m)' = Status(m)
        \/ db'[InboundKey(m)].value = Nil
    BY <1>2, <1>4, StepsOfTheStore, EffectsOnReplay DEF Status, Gone, Put, ReplayStatus
  <2>2. CASE db'[InboundKey(m)].value = Nil
    <3>1. Tick /\ db[InboundKey(m)].ttl = 1
      BY <1>2, <1>4, <2>2, OnlyReleasesRemove DEF Status, ReplayStatus
    <3>2. \A q \in Delivery : delivery[q].pc \notin Coming
      BY <1>4, <3>1 DEF Tick, Early, Expiring, Status, Coming
    <3> QED
      BY <1>1, <2>2, <3>2 DEF Closed, Status
  <2> QED
    BY <1>4, <2>1, <2>2 DEF Closed
<1> QED
  BY <1>3, <1>4 DEF Closed

LEMMA SealedForGood ==
  ASSUME Punctual, Inv, Exclusion, [Next]_vars, NEW m \in Message, Sealed(m)
  PROVE  Sealed(m)'
<1>1. Closed(m)'
  BY ClosedForGood DEF Sealed
<1>2. ASSUME NEW r \in Delivery, delivery'[r].message = m,
             delivery'[r].pc \in {"prepare", "dispatch"}
      PROVE  FALSE
  <2>1. /\ delivery[r].pc \in {"claim", "prepare", "dispatch"}
        /\ delivery[r].message = m
    BY <1>2, StepsFollow
  <2>2. delivery[r].pc = "claim"
    BY <2>1 DEF Sealed
  <2>3. Applied(Claim(Record(r)))
    BY <1>2, <2>2, OnlyClaimsEnter DEF Holding, Dispatching
  <2>4. Status(m) = Nil
    BY <2>1, <2>3 DEF Applied, Claim, Transaction, Holds, Read, Record, Status
  <2> QED
    BY <2>2, <2>4, ChannelAssumption DEF Sealed, Closed, Coming, ReplayStatus
<1> QED
  BY <1>1, <1>2 DEF Sealed

-----------------------------------------------------------------------------
(* Who guards a message until it is settled.                               *)

Sending(r) == send[r].status \in {"inflight", "accepted"}

(* A delivery that may dispatch, or that has sent and not yet settled.     *)
Guarding(r) ==
  \/ delivery[r].pc \in Holding
  \/ delivery[r].pc \in Acting /\ Sending(r)

Acknowledged(r) ==
  delivery[r].disposition \in {"acceptedForDispatch", "providerRetryRequested"}

(* It is alone with its message, which keeps its record; nothing is sent   *)
(* before a release; what has converged is sealed.                         *)
Guarded(r) ==
  /\ Guarding(r) =>
       /\ \/ Status(delivery[r].message) # Nil
          \/ \A q \in Delivery : delivery[q].pc \notin Coming
       /\ \A q \in Delivery :
            Guarding(q) /\ delivery[q].message = delivery[r].message => q = r
  /\ delivery[r].pc \in {"release", "retry"} => send[r].status = "none"
  /\ delivery[r].pc = "fork" => send[r].status = "accepted"
  /\ delivery[r].pc \in {"converge", "convergeFork", "respond"} \/ Acknowledged(r) =>
       Sealed(delivery[r].message)

Guard == Exclusion /\ \A r \in Delivery : Guarded(r)

(* Who guards a message did so before, or has just claimed it.             *)
LEMMA GuardsFollow ==
  ASSUME Inv, [Next]_vars, NEW r \in Delivery, Guarding(r)'
  PROVE  /\ delivery[r].message \in Message
         /\ delivery'[r].message = delivery[r].message
         /\ \/ Guarding(r)
            \/ /\ delivery[r].pc = "claim"
               /\ delivery'[r].pc \in Holding
               /\ Status(delivery[r].message) = Nil
               /\ Applied(Claim(Record(r)))
               /\ \A q \in Delivery \ {r} : delivery'[q] = delivery[q]
<1>1. Causal(r)
  BY DEF Inv
<1>2. CASE delivery'[r].pc \in Holding
  <2>1. Applied(Claim(Record(r))) => Status(delivery[r].message) = Nil
    BY DEF Applied, Claim, Transaction, Holds, Read, Record, Status
  <2> QED
    BY <1>1, <1>2, <2>1, OnlyClaimsEnter DEF Guarding, Causal, Holding, Dispatching
<1>3. CASE delivery'[r].pc \in Acting /\ Sending(r)' /\ delivery'[r].pc \notin Holding
  <2>1. /\ delivery[r].pc \in Holding \cup Acting
        /\ delivery'[r].message = delivery[r].message
    BY <1>3, StepsFollow
  <2>2. ~StartSend(r)
    <3> SUFFICES ASSUME StartSend(r) PROVE FALSE
      OBVIOUS
    <3>1. delivery'[r].pc = "sending"
      BY DEF StartSend, Go, Inv, TypeOK
    <3> QED
      BY <1>3, <3>1 DEF Holding, Dispatching
  <2>3. Sending(r)
    BY <1>3, <2>2, StepsOfSends DEF Sending
  <2>4. delivery[r].message \in Message
    BY <1>1, <2>1 DEF Causal, Holding, Acting, Settling, Dispatching
  <2> QED
    BY <2>1, <2>3, <2>4 DEF Guarding
<1> QED
  BY <1>2, <1>3 DEF Guarding

(* A delivery that converges has settled its message, and so has one that  *)
(* no longer acts, unless the store failed.                                *)
LEMMA SettlementsClose ==
  ASSUME Punctual, Inv, Guard, [Next]_vars, NEW m \in Message, NEW r \in Delivery,
         delivery[r].message = m, Guarding(r),
         \/ AcceptInboundNew(r) \/ AcceptInboundResumed(r) \/ AcceptInboundFork(r)
         \/ QuarantineInbound(r) \/ UncertainInbound(r) \/ FinalizeInterrupt(r)
  PROVE  \/ Closed(m)'
         \/ /\ delivery'[r].pc \in Acting \cup Holding
            /\ delivery'[r].pc \notin {"converge", "convergeFork"}
         \/ faults' = faults + 1 /\ delivery'[r].pc \notin {"converge", "convergeFork"}
<1>1. /\ delivery \in DeliveryType
      /\ InboundKey(m) \in DOMAIN db
      /\ Status(m) \in ReplayStatus \cup {Nil}
      /\ Status(m) # Nil \/ \A q \in Delivery : delivery[q].pc \notin Coming
  BY DEF Inv, TypeOK, DeliveryType, Key, Guard, Exclusion, Guarded, Status
<1>2. CASE AcceptInboundNew(r) \/ AcceptInboundResumed(r)
  <2>1. PICK result, continuity :
          /\ Transact(AcceptedBy(r, continuity), result)
          /\ \/ result = "applied"
             \/ \E point \in {"acceptResumed", "fork", "uncertain"} : Go(r, point)
    BY <1>2 DEF AcceptInboundNew, AcceptInboundResumed, AcceptNew, AcceptResumed, AcceptedBy
  <2>2. CASE result = "applied"
    <3>1. db' = Written(db, AcceptedBy(r, continuity))
      BY <2>1, <2>2, TransactionIsAtomic
    <3>2. db'[InboundKey(m)].value = "complete"
      BY <1>1, <3>1, AcceptShape, WrittenAt
    <3> QED
      BY <3>2 DEF Closed, Status
  <2>3. ASSUME NEW point \in {"acceptResumed", "fork", "uncertain"}, Go(r, point)
        PROVE  delivery'[r].pc = point
    BY <1>1, <2>3 DEF Go, DeliveryType
  <2> QED
    BY <2>1, <2>2, <2>3 DEF Acting, Settling, Holding, Dispatching
<1>3. ASSUME NEW result, Transact(Retain(Record(r), "uncertain"), result),
             result # "error"
      PROVE  Closed(m)'
  <2>1. CASE Holds(db, Retain(Record(r), "uncertain"))
    <3>1. db' = Written(db, Retain(Record(r), "uncertain"))
      BY <1>3, <2>1 DEF Transact, Transacted
    <3>2. db'[InboundKey(m)].value = "uncertain"
      BY <1>1, <3>1, WrittenAt DEF Retain, Transaction, Record, Put
    <3> QED
      BY <3>2 DEF Closed, Status
  <2>2. CASE ~Holds(db, Retain(Record(r), "uncertain"))
    <3>1. Status(m) # "claimed"
      BY <2>2 DEF Holds, Retain, Transaction, Read, Record, Status
    <3>2. Closed(m)
      BY <1>1, <3>1 DEF Closed, ReplayStatus
    <3> QED
      BY <3>2, ClosedForGood DEF Guard
  <2> QED
    BY <2>1, <2>2
<1>4. ASSUME NEW result, Transact(Retain(Record(r), "uncertain"), result),
             result = "error"
      PROVE  faults' = faults + 1
  BY <1>4 DEF Transact, Outcome, Fault
<1>5. CASE AcceptInboundFork(r)
  <2>1. PICK result :
          /\ Transact(Retain(Record(r), "uncertain"), result)
          /\ Go(r, IF result = "applied" THEN "convergeFork" ELSE "uncertain")
    BY <1>5 DEF AcceptInboundFork
  <2>2. delivery'[r].pc = IF result = "applied" THEN "convergeFork" ELSE "uncertain"
    BY <1>1, <2>1 DEF Go, DeliveryType
  <2> QED
    BY <1>3, <1>4, <2>1, <2>2
<1>6. CASE QuarantineInbound(r) \/ UncertainInbound(r) \/ FinalizeInterrupt(r)
  <2>1. PICK result : Transact(Retain(Record(r), "uncertain"), result)
    BY <1>6 DEF QuarantineInbound, UncertainInbound, FinalizeInterrupt
  <2>2. delivery'[r].pc \in {"respondUncertain", "uncertain", "lost"}
    BY <1>1, <1>6 DEF QuarantineInbound, UncertainInbound, FinalizeInterrupt, Go, DeliveryType
  <2> QED
    BY <1>3, <1>4, <2>1, <2>2
<1> QED
  BY <1>2, <1>5, <1>6

(* A settlement that closes its message seals it.                          *)
LEMMA ClosingSeals ==
  ASSUME Inv, Guard, [Next]_vars, NEW m \in Message, NEW r \in Delivery,
         delivery[r].message = m, Guarding(r),
         delivery[r].pc \notin {"prepare", "dispatch"},
         delivery'[r] # delivery[r], Closed(m)'
  PROVE  Sealed(m)'
<1> SUFFICES ASSUME NEW q \in Delivery, delivery'[q].message = m,
                    delivery'[q].pc \in {"prepare", "dispatch"}
             PROVE  FALSE
  BY DEF Sealed
<1>1. q # r
  <2> SUFFICES ASSUME q = r PROVE FALSE
    OBVIOUS
  <2>1. delivery[r].pc = "claim"
    BY StepsFollow
  <2> QED
    BY <2>1 DEF Guarding, Holding, Acting, Dispatching, Settling
<1>2. delivery'[q] = delivery[q]
  BY <1>1, OneActs
<1>3. Guarding(q)
  BY <1>2 DEF Guarding, Holding, Dispatching
<1> QED
  BY <1>1, <1>2, <1>3 DEF Guard, Guarded

(* How a delivery converges, finds a fork, and acknowledges.               *)
LEMMA ConvergencesFollow ==
  ASSUME Inv, [Next]_vars, NEW r \in Delivery, delivery'[r] # delivery[r]
  PROVE  /\ delivery'[r].pc \in {"converge", "convergeFork"} =>
              AcceptInboundNew(r) \/ AcceptInboundResumed(r) \/ AcceptInboundFork(r)
         /\ delivery'[r].pc = "fork" => AcceptInboundResumed(r)
         /\ Acknowledged(r)' => Respond(r)
<1> DEFINE Goal == /\ delivery'[r].pc \in {"converge", "convergeFork"} =>
                        \/ AcceptInboundNew(r) \/ AcceptInboundResumed(r)
                        \/ AcceptInboundFork(r)
                   /\ delivery'[r].pc = "fork" => AcceptInboundResumed(r)
                   /\ Acknowledged(r)' => Respond(r)
<1>1. delivery \in DeliveryType /\ Causal(r)
  BY DEF Inv, TypeOK, DeliveryType
<1>2. CASE \/ \E m \in Message : Receive(r, m)
           \/ \E m \in Message, d \in Refusal : Refuse(r, m, d)
  <2>1. /\ delivery[r].pc = "idle"
        /\ delivery'[r].pc \in {"claim", "done"}
        /\ delivery'[r].disposition \in Refusal \cup {delivery[r].disposition}
    BY <1>1, <1>2 DEF Receive, Refuse, At, DeliveryType
  <2> QED
    BY <1>1, <2>1 DEF Acknowledged, Causal, Refusal
<1>3. ASSUME NEW point, Go(r, point), delivery[r].pc # "done"
      PROVE  delivery'[r].pc = point /\ ~Acknowledged(r)'
  BY <1>1, <1>3 DEF Go, DeliveryType, Acknowledged, Causal
<1>4. ASSUME NEW disposition, Answer(r, disposition)
      PROVE  delivery'[r].pc = "done" /\ delivery'[r].disposition = disposition
  BY <1>1, <1>4 DEF Answer, DeliveryType
<1>5. CASE ClaimInbound(r)
  BY <1>3, <1>4, <1>5 DEF ClaimInbound, At, Acknowledged
<1>6. CASE Prepare(r) \/ RejectSend(r) \/ StartSend(r) \/ SendResolves(r) \/ SendFails(r)
             \/ SendTimesOut(r)
  BY <1>3, <1>6
  DEF Prepare, RejectSend, StartSend, SendResolves, SendFails, SendTimesOut, At
<1>7. CASE Release(r) \/ RespondUncertain(r)
  BY <1>4, <1>7 DEF Release, RespondUncertain, Acknowledged
<1>8. CASE Respond(r)
  BY <1>4, <1>8 DEF Respond
<1>9. CASE AcceptInboundNew(r) \/ AcceptInboundResumed(r) \/ AcceptInboundFork(r)
  BY <1>3, <1>9 DEF AcceptInboundNew, AcceptInboundResumed, AcceptInboundFork, At
<1>10. CASE Converge(r) \/ ConvergeFork(r) \/ RetryInbound(r) \/ QuarantineInbound(r)
              \/ UncertainInbound(r) \/ FinalizeInterrupt(r)
  BY <1>3, <1>10
  DEF Converge, ConvergeFork, RetryInbound, QuarantineInbound, UncertainInbound,
      FinalizeInterrupt, At
<1>11. CASE Interrupt(r) \/ Crash(r)
  BY <1>3, <1>11 DEF Interrupt, Crash
<1> QED
  BY <1>2, <1>5, <1>6, <1>7, <1>8, <1>9, <1>10, <1>11, OneActs DEF Handle

(* A message keeps its record for whoever guards it.                       *)
LEMMA RecordsAreGuarded ==
  ASSUME Punctual, Inv, Guard, [Next]_vars, NEW r \in Delivery, NEW m \in Message,
         delivery[r].message = m, Guarding(r)'
  PROVE  Status(m)' # Nil \/ \A q \in Delivery : delivery'[q].pc \notin Coming
<1>1. Nil \notin ReplayStatus
  BY ChannelAssumption
<1>2. CASE Applied(Claim(Record(r)))
  <2>1. db'[InboundKey(m)].value = "claimed"
    BY <1>2, WrittenAt DEF Applied, Claim, Transaction, Record, Put, Inv, TypeOK, Key
  <2> QED
    BY <1>1, <2>1 DEF Status, ReplayStatus
<1>3. ASSUME Guarding(r), Status(m) # Nil, Status(m)' = Nil,
             NEW q \in Delivery, delivery[q].message = m, Status(m) = "claimed",
             delivery[q].pc \in {"release", "retry"}, delivery'[q].pc \notin Holding
      PROVE  FALSE
  <2>1. q = r
    BY <1>3 DEF Guard, Guarded, Guarding, Holding
  <2>2. send[r].status = "none" /\ ~StartSend(r)
    BY <1>3, <2>1 DEF Guard, Guarded, StartSend, At
  <2>3. ~Sending(r)'
    BY <2>2, StepsOfSends DEF Sending
  <2> QED
    BY <1>3, <2>1, <2>3 DEF Guarding
<1>4. ASSUME Guarding(r), Status(m) # Nil, Tick
      PROVE  \/ Status(m)' # Nil
             \/ \A q \in Delivery : delivery'[q].pc \notin Coming
  <2>1. CASE db[InboundKey(m)].ttl # 1
    <3>1. InboundKey(m) \in DOMAIN db
      BY DEF Inv, TypeOK, Key
    <3> QED
      BY <1>4, <2>1, <3>1, AgingKeepsValues DEF Tick, Status
  <2>2. CASE db[InboundKey(m)].ttl = 1
    <3>1. ~Early /\ UNCHANGED delivery
      BY <1>4 DEF Tick
    <3>2. Status(m) # "claimed"
      <4>1. CASE delivery[r].pc \in Dispatching \cup Settling
        BY <2>2, <3>1, <4>1 DEF Early, Expiring, Status
      <4>2. CASE delivery[r].pc \in {"converge", "convergeFork"}
        <5>1. Closed(m)
          BY <4>2 DEF Guard, Guarded, Sealed
        <5> QED
          BY <1>1, <5>1 DEF Closed, ReplayStatus
      <4> QED
        BY <1>4, <4>1, <4>2 DEF Guarding, Holding, Acting, Settling
    <3>3. Status(m) \in {"complete", "uncertain"}
      BY <1>4, <3>2 DEF Guard, Exclusion, Status, ReplayStatus
    <3> QED
      BY <2>2, <3>1, <3>3 DEF Early, Expiring, Status, Coming
  <2> QED
    BY <2>1, <2>2
<1>5. CASE Guarding(r)
  <2>1. CASE \A q \in Delivery : delivery[q].pc \notin Coming
    BY <2>1, OnlyClaimsEnter
  <2>2. CASE Status(m) # Nil
    BY <1>3, <1>4, <1>5, <2>2, OnlyReleasesRemove DEF Status
  <2> QED
    BY <1>5, <2>1, <2>2 DEF Guard, Guarded
<1> QED
  BY <1>2, <1>5, GuardsFollow

LEMMA GuardsAreAlone ==
  ASSUME Punctual, Inv, Guard, [Next]_vars, NEW r \in Delivery, NEW q \in Delivery,
         Guarding(r)', Guarding(q)', delivery'[q].message = delivery'[r].message
  PROVE  q = r
<1>1. delivery[q].message = delivery[r].message
  BY GuardsFollow
<1>2. ASSUME NEW p \in Delivery, NEW other \in Delivery, p # other, Guarding(other)',
             delivery[other].message = delivery[p].message,
             delivery[p].pc = "claim", Status(delivery[p].message) = Nil,
             \A x \in Delivery \ {p} : delivery'[x] = delivery[x]
      PROVE  FALSE
  <2>1. Guarding(other)
    BY <1>2, GuardsFollow DEF Holding, Dispatching
  <2> QED
    BY <1>2, <2>1 DEF Guard, Guarded, Coming
<1>3. CASE Guarding(r) /\ Guarding(q)
  BY <1>1, <1>3 DEF Guard, Guarded
<1> QED
  BY <1>1, <1>2, <1>3, GuardsFollow

LEMMA GuardIsInductive ==
  ASSUME Punctual, Inv, Guard, [Next]_vars
  PROVE  Guard'
<1>1. Exclusion'
  BY ExclusionIsInductive DEF Guard
<1>2. ASSUME NEW r \in Delivery
      PROVE  Guarded(r)'
  <2>1. ASSUME Guarding(r)'
        PROVE  \/ Status(delivery[r].message)' # Nil
               \/ \A q \in Delivery : delivery'[q].pc \notin Coming
    <3>1. PICK m \in Message : delivery[r].message = m /\ delivery'[r].message = m
      BY <2>1, GuardsFollow
    <3> QED
      BY <2>1, <3>1, RecordsAreGuarded DEF Status
  <2>2. ASSUME Guarding(r)'
        PROVE  \A q \in Delivery :
                 Guarding(q)' /\ delivery'[q].message = delivery'[r].message => q = r
    BY <2>2, GuardsAreAlone
  <2>3. ASSUME delivery'[r].pc \in {"release", "retry"}
        PROVE  send'[r].status = "none"
    <3>1. send[r].status = "none"
      BY <2>3, StepsFollow DEF Guard, Guarded, Inv, Causal
    <3>2. ~StartSend(r)
      BY <2>3 DEF StartSend, Go, Inv, TypeOK
    <3> QED
      BY <3>1, <3>2, StepsOfSends
  <2>4. ASSUME delivery'[r].pc = "fork"
        PROVE  send'[r].status = "accepted"
    <3>1. send[r].status = "accepted"
      BY <2>4, ConvergencesFollow DEF Guard, Guarded, Inv, Causal, AcceptInboundResumed, At
    <3> QED
      BY <3>1, CausesPersist
  <2>5. ASSUME \/ delivery'[r].pc \in {"converge", "convergeFork", "respond"}
               \/ Acknowledged(r)'
        PROVE  Sealed(delivery[r].message)'
    <3> DEFINE Converged == \/ delivery[r].pc \in {"converge", "convergeFork", "respond"}
                            \/ Acknowledged(r)
    <3>1. CASE Converged /\ delivery'[r].message = delivery[r].message
      <4>1. PICK m \in Message : delivery[r].message = m /\ delivery'[r].message = m
        BY <3>1 DEF Inv, Causal, Acknowledged
      <4>2. Sealed(m)'
        BY <3>1, <4>1, SealedForGood DEF Guard, Guarded
      <4> QED
        BY <4>1, <4>2 DEF Sealed, Closed, Status
    <3>2. CASE delivery'[r] = delivery[r]
      BY <2>5, <3>1, <3>2 DEF Acknowledged
    <3>3. CASE /\ delivery'[r] # delivery[r]
               /\ delivery'[r].pc \in {"converge", "convergeFork"}
      <4>1. \/ AcceptInboundNew(r) \/ AcceptInboundResumed(r) \/ AcceptInboundFork(r)
        BY <3>3, ConvergencesFollow
      <4>2. /\ delivery[r].pc \in {"acceptNew", "acceptResumed", "fork"}
            /\ delivery'[r].message = delivery[r].message
        BY <3>3, <4>1, StepsFollow
        DEF AcceptInboundNew, AcceptInboundResumed, AcceptInboundFork, At, Acting
      <4>3. PICK m \in Message : delivery[r].message = m /\ delivery'[r].message = m
        BY <4>2 DEF Inv, Causal
      <4>4. Guarding(r)
        BY <4>2 DEF Guard, Guarded, Guarding, Holding, Dispatching, Acting, Settling, Sending
      <4>5. Closed(m)'
        BY <3>3, <4>1, <4>3, <4>4, SettlementsClose
      <4>6. Sealed(m)'
        BY <3>3, <4>2, <4>3, <4>4, <4>5, ClosingSeals
      <4> QED
        BY <4>3, <4>6 DEF Sealed, Closed, Status
    <3>4. CASE delivery'[r].pc = "respond"
      BY <3>1, <3>4, StepsFollow
    <3>5. CASE delivery'[r] # delivery[r] /\ Acknowledged(r)'
      <4>1. Respond(r)
        BY <3>5, ConvergencesFollow
      <4>2. delivery[r].pc = "respond" /\ delivery'[r].message = delivery[r].message
        BY <4>1 DEF Respond, At, Answer, Inv, TypeOK
      <4> QED
        BY <3>1, <4>2
    <3> QED
      BY <2>5, <3>2, <3>3, <3>4, <3>5
  <2> QED
    BY <2>1, <2>2, <2>3, <2>4, <2>5 DEF Guarded
<1> QED
  BY <1>1, <1>2 DEF Guard

-----------------------------------------------------------------------------
(* The price of a repeat.                                                  *)

(* The sends of a message that Eve accepted or may still accept; the send  *)
(* that no fault has paid for has its guard, or the message is sealed.     *)
Sent(m) == {r \in Delivery : delivery[r].message = m /\ Sending(r)}

Spent(m) == (\E r \in Sent(m) : Guarding(r)) \/ Sealed(m)

Counted(m) ==
  /\ IsFiniteSet(Sent(m))
  /\ Cardinality(Sent(m)) <= faults + IF Spent(m) THEN 1 ELSE 0

(* What a step does to the sends of a message.                             *)
LEMMA StepsOfSent ==
  ASSUME Inv, [Next]_vars, NEW m \in Message
  PROVE  \/ Sent(m)' = Sent(m)
         \/ \E r \in Delivery : /\ StartSend(r)
                               /\ delivery[r].message = m
                               /\ Sent(m)' = Sent(m) \cup {r}
         \/ \E r \in Sent(m) : EveRefuses(r) /\ Sent(m)' = Sent(m) \ {r}
<1>1. delivery \in DeliveryType /\ send \in SendType
  BY DEF Inv, TypeOK, DeliveryType, SendType
<1>2. ASSUME NEW r \in Delivery, StartSend(r)
      PROVE  /\ delivery[r].message = m => Sent(m)' = Sent(m) \cup {r}
             /\ delivery[r].message # m => Sent(m)' = Sent(m)
  <2>1. \A q \in Delivery :
          /\ delivery'[q].message = delivery[q].message
          /\ send'[q].status = IF q = r THEN "inflight" ELSE send[q].status
    BY <1>1, <1>2 DEF StartSend, Go, DeliveryType, SendType
  <2> QED
    BY <2>1 DEF Sent, Sending
<1>3. ASSUME NEW r \in Delivery, NEW s \in Session, EveAccepts(r, s)
      PROVE  Sent(m)' = Sent(m)
  <2>1. /\ UNCHANGED delivery
        /\ send[r].status = "inflight"
        /\ \A q \in Delivery :
             send'[q].status = IF q = r THEN "accepted" ELSE send[q].status
    BY <1>1, <1>3 DEF EveAccepts, SendType
  <2> QED
    BY <2>1 DEF Sent, Sending
<1>4. ASSUME NEW r \in Delivery, EveRefuses(r)
      PROVE  /\ r \in Sent(m) => Sent(m)' = Sent(m) \ {r}
             /\ r \notin Sent(m) => Sent(m)' = Sent(m)
  <2>1. /\ UNCHANGED delivery
        /\ \A q \in Delivery :
             send'[q].status = IF q = r THEN "refused" ELSE send[q].status
    BY <1>1, <1>4 DEF EveRefuses, SendType
  <2> QED
    BY <2>1 DEF Sent, Sending
<1>5. ASSUME NEW r \in Delivery, NEW n \in Message,
             Receive(r, n) \/ \E d \in Refusal : Refuse(r, n, d)
      PROVE  Sent(m)' = Sent(m)
  <2>1. send[r].status = "none" /\ UNCHANGED send
    BY <1>5 DEF Inv, Causal, Receive, Refuse, At
  <2>2. \A q \in Delivery \ {r} : delivery'[q] = delivery[q]
    BY <1>1, <1>5 DEF Receive, Refuse, DeliveryType
  <2> QED
    BY <2>1, <2>2 DEF Sent, Sending
<1>6. ASSUME UNCHANGED send, \A q \in Delivery : delivery'[q].message = delivery[q].message
      PROVE  Sent(m)' = Sent(m)
  BY <1>6 DEF Sent, Sending
<1>7. ASSUME NEW r \in Delivery, Handle(r) \/ Interrupt(r) \/ Crash(r), ~StartSend(r)
      PROVE  Sent(m)' = Sent(m)
  <2>1. /\ UNCHANGED send
        /\ (\E point : Go(r, point)) \/ \E disposition : Answer(r, disposition)
    BY <1>7
    DEF Handle, Interrupt, Crash, ClaimInbound, Prepare, Release, RejectSend,
        SendResolves, SendFails, SendTimesOut, AcceptInboundNew, AcceptInboundResumed,
        AcceptInboundFork, Converge, ConvergeFork, RetryInbound, QuarantineInbound,
        UncertainInbound, Respond, RespondUncertain, FinalizeInterrupt
  <2>2. \A q \in Delivery : delivery'[q].message = delivery[q].message
    BY <1>1, <2>1 DEF Go, Answer, DeliveryType
  <2> QED
    BY <1>6, <2>1, <2>2
<1>8. CASE UNCHANGED <<delivery, send>>
  BY <1>8 DEF Sent, Sending
<1> QED
  BY <1>2, <1>3, <1>4, <1>5, <1>7, <1>8
  DEF Next, vars, SessionEnds, StopPresence, SettleSession, Tick

(* A send that is guarded stays so until its message is sealed, but for a  *)
(* fault.                                                                  *)
LEMMA SpentForGood ==
  ASSUME Punctual, Inv, Guard, [Next]_vars, NEW m \in Message, Spent(m),
         faults' # faults + 1, Sent(m) \subseteq Sent(m)'
  PROVE  Spent(m)'
<1>1. delivery \in DeliveryType
  BY DEF Inv, TypeOK, DeliveryType
<1>2. CASE Sealed(m)
  BY <1>2, SealedForGood DEF Spent, Guard
<1>3. ASSUME NEW r \in Sent(m), Guarding(r)
      PROVE  Spent(m)'
  <2>1. /\ r \in Delivery /\ delivery[r].message = m /\ Sending(r) /\ Sending(r)'
        /\ r \in Sent(m)' /\ Causal(r) /\ Guarded(r)
    BY DEF Sent, Inv, Guard
  <2>2. delivery[r].pc \notin {"idle", "claim", "prepare", "dispatch", "release", "retry"}
    BY <2>1 DEF Causal, Guarded, Sending
  <2>3. ASSUME delivery'[r].pc \in Holding \cup Acting
        PROVE  Spent(m)'
    BY <2>1, <2>3 DEF Spent, Guarding
  <2>4. ASSUME NEW point, Go(r, point)
        PROVE  delivery'[r].pc = point
    BY <1>1, <2>1, <2>4 DEF Go, DeliveryType
  <2>5. CASE delivery'[r] = delivery[r]
    BY <1>3, <2>3, <2>5 DEF Guarding
  <2>6. CASE SendResolves(r) \/ SendFails(r) \/ SendTimesOut(r)
    BY <2>3, <2>4, <2>6
    DEF SendResolves, SendFails, SendTimesOut, Acting, Settling, Holding, Dispatching
  <2>7. CASE /\ delivery'[r] # delivery[r]
             /\ \/ AcceptInboundNew(r) \/ AcceptInboundResumed(r) \/ AcceptInboundFork(r)
                \/ QuarantineInbound(r) \/ UncertainInbound(r) \/ FinalizeInterrupt(r)
    <3>1. Closed(m)' => Sealed(m)'
      BY <1>3, <2>1, <2>2, <2>7, ClosingSeals
    <3> QED
      BY <1>3, <2>1, <2>3, <2>7, <3>1, SettlementsClose DEF Spent
  <2>8. CASE Converge(r) \/ ConvergeFork(r)
    BY <1>2, <2>1, <2>8 DEF Converge, ConvergeFork, At, Guarded
  <2>9. CASE \/ \E n \in Message : Receive(r, n)
             \/ \E n \in Message, d \in Refusal : Refuse(r, n, d)
             \/ ClaimInbound(r) \/ Prepare(r) \/ StartSend(r) \/ RejectSend(r)
             \/ Release(r) \/ RetryInbound(r)
    BY <2>2, <2>9
    DEF Receive, Refuse, ClaimInbound, Prepare, StartSend, RejectSend, Release,
        RetryInbound, At
  <2>10. CASE Respond(r) \/ RespondUncertain(r)
    BY <1>3, <2>10
    DEF Respond, RespondUncertain, At, Guarding, Holding, Acting, Dispatching, Settling
  <2>11. CASE Interrupt(r) \/ Crash(r)
    BY <2>11 DEF Interrupt, Crash, Fault
  <2> QED
    BY <2>1, <2>5, <2>6, <2>7, <2>8, <2>9, <2>10, <2>11, OneActs DEF Handle
<1> QED
  BY <1>2, <1>3 DEF Spent

LEMMA CountsAreInductive ==
  ASSUME Punctual, Inv, Guard, [Next]_vars, NEW m \in Message, Counted(m)
  PROVE  Counted(m)'
<1>1. /\ faults \in Nat
      /\ faults' \in Nat
      /\ faults' = faults \/ faults' = faults + 1
      /\ Cardinality(Sent(m)) \in Nat
  <2>1. \/ UNCHANGED faults
        \/ Fault
        \/ \E txn, result : Transact(txn, result)
    <3>1. ASSUME NEW r \in Delivery, Handle(r)
          PROVE  \/ UNCHANGED faults
                 \/ Fault
                 \/ \E txn, result : Transact(txn, result)
      BY <3>1
      DEF Handle, ClaimInbound, Prepare, Release, StartSend, RejectSend, SendResolves,
          SendFails, SendTimesOut, AcceptInboundNew, AcceptInboundResumed, AcceptNew,
          AcceptResumed, AcceptInboundFork, Converge, ConvergeFork, RetryInbound,
          QuarantineInbound, UncertainInbound, Respond, RespondUncertain,
          FinalizeInterrupt, Observe
    <3> QED
      BY <3>1
      DEF Next, vars, Receive, Refuse, Interrupt, Crash, EveAccepts, Eligible, EveRefuses,
          SessionEnds, StopPresence, SettleSession, Observe, Tick
  <2> QED
    BY <2>1, ChannelAssumption, FS_CardinalityType DEF Fault, Transact, Inv, TypeOK, Counted
<1>2. CASE Sent(m)' = Sent(m)
  <2>1. IsFiniteSet(Sent(m)')
    BY <1>2 DEF Counted
  <2>2. CASE faults' = faults + 1
    BY <1>1, <1>2, <2>1, <2>2 DEF Counted
  <2>3. CASE faults' = faults
    <3>1. Spent(m) => Spent(m)'
      BY <1>1, <1>2, <2>3, SpentForGood
    <3> QED
      BY <1>1, <1>2, <2>1, <2>3, <3>1 DEF Counted
  <2> QED
    BY <1>1, <2>2, <2>3
<1>3. ASSUME NEW r \in Sent(m), EveRefuses(r), Sent(m)' = Sent(m) \ {r}
      PROVE  Counted(m)'
  <2>1. /\ IsFiniteSet(Sent(m)')
        /\ Cardinality(Sent(m)') = Cardinality(Sent(m)) - 1
    BY <1>3, FS_RemoveElement DEF Counted
  <2>2. faults' = faults
    BY <1>3 DEF EveRefuses
  <2> QED
    BY <1>1, <2>1, <2>2 DEF Counted
<1>4. ASSUME NEW r \in Delivery, StartSend(r), delivery[r].message = m,
             Sent(m)' = Sent(m) \cup {r}
      PROVE  Counted(m)'
  <2>1. delivery[r].pc = "dispatch" /\ delivery'[r].pc = "sending" /\ UNCHANGED faults
    BY <1>4 DEF StartSend, At, Go, Inv, TypeOK
  <2>2. ~Spent(m)
    <3>1. ~Sealed(m)
      BY <1>4, <2>1 DEF Sealed
    <3>2. ASSUME NEW q \in Sent(m), Guarding(q)
          PROVE  FALSE
      <4>1. q = r
        BY <1>4, <2>1, <3>2 DEF Guard, Guarded, Guarding, Holding, Dispatching, Sent
      <4> QED
        BY <2>1, <3>2, <4>1 DEF Sent, Sending, Inv, Causal
    <3> QED
      BY <3>1, <3>2 DEF Spent
  <2>3. Spent(m)'
    BY <1>4, <2>1 DEF Spent, Guarding, Holding, Dispatching
  <2>4. /\ IsFiniteSet(Sent(m)')
        /\ Cardinality(Sent(m)') <= Cardinality(Sent(m)) + 1
    <3>1. IsFiniteSet(Sent(m))
      BY DEF Counted
    <3>2. /\ IsFiniteSet(Sent(m) \cup {r})
          /\ Cardinality(Sent(m) \cup {r}) =
               IF r \in Sent(m) THEN Cardinality(Sent(m)) ELSE Cardinality(Sent(m)) + 1
      BY <3>1, FS_AddElement
    <3>3. Cardinality(Sent(m) \cup {r}) <= Cardinality(Sent(m)) + 1
      BY <1>1, <3>2
    <3> QED
      BY <1>4, <3>2, <3>3
  <2>5. Cardinality(Sent(m)') \in Nat
    BY <2>4, FS_CardinalityType
  <2> QED
    BY <1>1, <2>1, <2>2, <2>3, <2>4, <2>5 DEF Counted
<1> QED
  BY <1>2, <1>3, <1>4, StepsOfSent

LEMMA InitiallyGuarded == Init => Guard
<1> SUFFICES ASSUME Init PROVE Guard
  OBVIOUS
<1>1. \A m \in Message : InboundKey(m) \in Key /\ db[InboundKey(m)].value = Nil
  BY DEF Init, Key, Gone, Put
<1>2. \A r \in Delivery : delivery[r].pc = "idle" /\ delivery[r].disposition = Nil
  BY DEF Init
<1>3. Exclusion
  BY <1>1, <1>2 DEF Exclusion, Alone, Holding, Dispatching
<1>4. \A r \in Delivery : ~Acknowledged(r)
  BY <1>2, UnansweredAssumption DEF Acknowledged, Disposition
<1> QED
  BY <1>2, <1>3, <1>4
  DEF Guard, Guarded, Guarding, Holding, Dispatching, Acting, Settling

(* In a punctual deployment a message reaches Eve once, and once more for  *)
(* each fault at most, for any number of deliveries and faults (the claim  *)
(* and its settlements in replay.ts, the dispatch in channel.ts).          *)
THEOREM RepeatsAreCounted ==
  ASSUME Punctual
  PROVE  Spec => []RepeatsCostFaults
<1> DEFINE Counts == \A m \in Message : Counted(m)
<1>1. Init => Guard /\ Counts
  <2> SUFFICES ASSUME Init, NEW m \in Message PROVE Counted(m)
    BY InitiallyGuarded
  <2>1. Sent(m) = {} /\ faults = 0
    BY DEF Init, Sent, Sending
  <2>2. IsFiniteSet(Sent(m)) /\ Cardinality(Sent(m)) = 0
    BY <2>1, FS_EmptySet
  <2> QED
    BY <2>1, <2>2 DEF Counted
<1>2. Inv /\ Guard /\ Counts /\ [Next]_vars => Guard' /\ Counts'
  BY GuardIsInductive, CountsAreInductive
<1>3. Inv /\ Counts => RepeatsCostFaults
  <2> SUFFICES ASSUME Inv, NEW m \in Message, Counted(m)
               PROVE  Cardinality(AcceptedDeliveries(m)) <= 1 + faults
    BY DEF RepeatsCostFaults
  <2>1. AcceptedDeliveries(m) \subseteq Sent(m)
    BY DEF AcceptedDeliveries, Sent, Sending
  <2>2. /\ Cardinality(AcceptedDeliveries(m)) <= Cardinality(Sent(m))
        /\ Cardinality(AcceptedDeliveries(m)) \in Nat
        /\ Cardinality(Sent(m)) \in Nat
    BY <2>1, FS_Subset, FS_CardinalityType DEF Counted
  <2> QED
    BY <2>2, ChannelAssumption DEF Counted, Inv, TypeOK
<1> QED
  BY <1>1, <1>2, <1>3, Invariance, PTL DEF Spec

(* In a punctual deployment nothing is sent for a message whose acceptance *)
(* was already reported to the provider (the route of eve.ts, against the  *)
(* claims of replay.ts).                                                   *)
THEOREM AcknowledgedIsSentOnce ==
  ASSUME Punctual
  PROVE  Spec => NoSendAfterAcknowledgement
<1>1. Inv /\ Guard /\ [Next]_vars => Guard'
  BY GuardIsInductive
<1>2. ASSUME Inv, Guard, [Next]_vars, NEW r \in Delivery, NEW q \in Delivery,
             Acknowledged(q), delivery[q].message = delivery[r].message,
             send'[r].status = "inflight", send[r].status # "inflight"
      PROVE  FALSE
  <2>1. delivery[r].pc = "dispatch"
    BY <1>2, StepsOfSends DEF StartSend, At
  <2>2. Sealed(delivery[r].message)
    BY <1>2 DEF Guard, Guarded
  <2> QED
    BY <2>1, <2>2 DEF Sealed
<1> DEFINE Quiet ==
      \A r, q \in Delivery :
        /\ delivery[q].disposition \in {"acceptedForDispatch", "providerRetryRequested"}
        /\ delivery[q].message = delivery[r].message
        /\ send'[r].status = "inflight"
        => send[r].status = "inflight"
<1>3. Inv /\ Guard /\ [Next]_vars => [Quiet]_vars
  BY <1>2 DEF Acknowledged
<1> QED
  BY <1>1, <1>3, InitiallyGuarded, Invariance, PTL DEF Spec, NoSendAfterAcknowledgement

-----------------------------------------------------------------------------
(* The end of a request.                                                   *)

(* How many steps a request may still make from a point of its route.      *)
StepsFrom(point) ==
  CASE point = "idle" -> 11
    [] point = "claim" -> 10
    [] point = "prepare" -> 9
    [] point = "dispatch" -> 8
    [] point = "sending" -> 7
    [] point = "acceptNew" -> 6
    [] point = "acceptResumed" -> 5
    [] point = "fork" -> 4
    [] point \in {"converge", "convergeFork", "quarantine", "retry"} -> 3
    [] point \in {"uncertain", "interrupted"} -> 2
    [] point \in {"respond", "respondUncertain", "release"} -> 1
    [] point \in {"done", "lost"} -> 0

StepsLeft(r) == StepsFrom(delivery[r].pc)

(* A request makes eleven steps at most: each of its own brings it nearer  *)
(* to its answer, no store call or observer is tried twice, and nothing    *)
(* that others do sends it back (the route of eve.ts and dispatch.ts).     *)
RequestsAreShort ==
  [][\A r \in Delivery :
       /\ StepsLeft(r)' <= StepsLeft(r)
       /\ Handle(r) => StepsLeft(r)' < StepsLeft(r)]_vars

LEMMA StepsFromAreCounted ==
  ASSUME NEW point \in Point
  PROVE  StepsFrom(point) \in 0..11
BY DEF StepsFrom, Point, Dispatching, Settling

LEMMA FewerStays ==
  ASSUME NEW n \in 0..11, NEW k \in 0..11
  PROVE  /\ n <= n
         /\ k < n => k <= n
         /\ 0 <= n
OBVIOUS

LEMMA HandlersAdvance ==
  ASSUME Inv, NEW r \in Delivery, Handle(r)
  PROVE  /\ StepsLeft(r)' < StepsLeft(r)
         /\ \A q \in Delivery \ {r} : delivery'[q] = delivery[q]
<1>1. delivery \in DeliveryType
  BY DEF Inv, TypeOK, DeliveryType
<1>2. CASE ClaimInbound(r) \/ Prepare(r) \/ Release(r)
  BY <1>1, <1>2 DEF ClaimInbound, Prepare, Release, At, Go, Answer, DeliveryType, StepsLeft, StepsFrom
<1>3. CASE StartSend(r) \/ RejectSend(r)
  BY <1>1, <1>3 DEF StartSend, RejectSend, At, Go, DeliveryType, StepsLeft, StepsFrom
<1>4. CASE SendResolves(r) \/ SendFails(r) \/ SendTimesOut(r)
  BY <1>1, <1>4 DEF SendResolves, SendFails, SendTimesOut, At, Go, DeliveryType, StepsLeft, StepsFrom
<1>5. CASE AcceptInboundNew(r) \/ AcceptInboundResumed(r) \/ AcceptInboundFork(r)
  BY <1>1, <1>5 DEF AcceptInboundNew, AcceptInboundResumed, AcceptInboundFork, At, Go,
    DeliveryType, StepsLeft, StepsFrom
<1>6. CASE Converge(r) \/ ConvergeFork(r)
  BY <1>1, <1>6 DEF Converge, ConvergeFork, At, Go, DeliveryType, StepsLeft, StepsFrom
<1>7. CASE RetryInbound(r) \/ QuarantineInbound(r) \/ UncertainInbound(r)
  BY <1>1, <1>7 DEF RetryInbound, QuarantineInbound, UncertainInbound, At, Go, DeliveryType,
    StepsLeft, StepsFrom
<1>8. CASE Respond(r) \/ RespondUncertain(r) \/ FinalizeInterrupt(r)
  BY <1>1, <1>8 DEF Respond, RespondUncertain, FinalizeInterrupt, At, Go, Answer,
    DeliveryType, StepsLeft, StepsFrom
<1> QED
  BY <1>2, <1>3, <1>4, <1>5, <1>6, <1>7, <1>8 DEF Handle

LEMMA CutsShorten ==
  ASSUME Inv, NEW r \in Delivery,
         \/ Interrupt(r) \/ Crash(r)
         \/ \E m \in Message : Receive(r, m)
         \/ \E m \in Message, d \in Refusal : Refuse(r, m, d)
  PROVE  /\ StepsLeft(r)' <= StepsLeft(r)
         /\ \A q \in Delivery \ {r} : delivery'[q] = delivery[q]
<1>1. delivery \in DeliveryType
  BY DEF Inv, TypeOK, DeliveryType
<1>2. CASE \E m \in Message : Receive(r, m)
  <2>1. PICK m \in Message : Receive(r, m)
    BY <1>2
  <2>2. delivery[r].pc = "idle"
    BY <2>1 DEF Receive, At
  <2>3. delivery' = [delivery EXCEPT ![r].pc = "claim", ![r].message = m]
    BY <2>1 DEF Receive
  <2>4. /\ delivery'[r].pc = "claim"
        /\ \A q \in Delivery \ {r} : delivery'[q] = delivery[q]
    BY <1>1, <2>3 DEF DeliveryType
  <2> QED
    BY <2>2, <2>4 DEF StepsLeft, StepsFrom
<1>3. CASE \E m \in Message, d \in Refusal : Refuse(r, m, d)
  <2>1. PICK m \in Message, d \in Refusal : Refuse(r, m, d)
    BY <1>3
  <2>2. /\ delivery'[r] = [pc |-> "done", message |-> m, disposition |-> d]
        /\ \A q \in Delivery \ {r} : delivery'[q] = delivery[q]
    BY <1>1, <2>1 DEF Refuse, DeliveryType
  <2>3. delivery'[r].pc = "done" /\ delivery[r].pc = "idle"
    BY <2>1, <2>2 DEF Refuse, At
  <2> QED
    BY <2>2, <2>3 DEF StepsLeft, StepsFrom
<1>4. CASE Interrupt(r)
  <2>1. /\ delivery'[r].pc = "interrupted"
        /\ \A q \in Delivery \ {r} : delivery'[q] = delivery[q]
    BY <1>1, <1>4 DEF Interrupt, Go, DeliveryType
  <2>2. delivery[r].pc \in {"dispatch", "sending", "acceptNew", "acceptResumed",
                             "fork", "converge", "convergeFork"}
    BY <1>4 DEF Interrupt
  <2> QED
    BY <2>1, <2>2 DEF StepsLeft, StepsFrom
<1>5. CASE Crash(r)
  <2>1. delivery'[r].pc = "lost" /\ \A q \in Delivery \ {r} : delivery'[q] = delivery[q]
    BY <1>1, <1>5 DEF Crash, Go, DeliveryType
  <2>2. StepsFrom("lost") = 0
    BY DEF StepsFrom
  <2>3. delivery[r].pc \in Point
    BY DEF Inv, TypeOK
  <2>4. StepsFrom("lost") <= StepsFrom(delivery[r].pc)
    BY <2>2, <2>3, StepsFromAreCounted, FewerStays
  <2> QED
    BY <2>1, <2>4 DEF StepsLeft
<1> QED
  BY <1>2, <1>3, <1>4, <1>5

(* Nobody waits for ever by going round: with a runtime that keeps running *)
(* a request (EveryDeliveryEnds) this is what its end rests on, for any    *)
(* number of deliveries and faults.                                        *)
THEOREM RequestsEndInElevenSteps == Spec => RequestsAreShort
<1> DEFINE Short == \A r \in Delivery :
                      /\ StepsLeft(r)' <= StepsLeft(r)
                      /\ Handle(r) => StepsLeft(r)' < StepsLeft(r)
<1>1. ASSUME Inv, [Next]_vars, NEW r \in Delivery
      PROVE  /\ StepsLeft(r)' <= StepsLeft(r)
             /\ Handle(r) => StepsLeft(r)' < StepsLeft(r)
  <2>1. PICK was : was = StepsLeft(r)
    OBVIOUS
  <2>2. PICK now : now = StepsFrom(delivery'[r].pc)
    OBVIOUS
  <2>3. /\ was \in 0..11 /\ now \in 0..11
        /\ StepsLeft(r)' = now
    <3>1. Inv'
      BY <1>1, StepsKeepInv
    <3>2. delivery'[r].pc \in Point /\ delivery[r].pc \in Point
      BY <1>1, <3>1 DEF Inv, TypeOK
    <3>3. StepsLeft(r)' = StepsFrom(delivery'[r].pc)
      BY DEF StepsLeft
    <3>4. StepsLeft(r) = StepsFrom(delivery[r].pc)
      BY DEF StepsLeft
    <3> QED
      BY <2>1, <2>2, <3>2, <3>3, <3>4, StepsFromAreCounted
  <2> SUFFICES now <= was /\ (Handle(r) => now < was)
    BY <2>1, <2>3
  <2>same. ASSUME delivery'[r] = delivery[r]
           PROVE  now <= was
    <3>1. now = was
      BY <2>same, <2>1, <2>2 DEF StepsLeft
    <3> QED
      BY <3>1, <2>3, FewerStays
  <2>4. CASE Handle(r)
    <3>1. now < was
      BY <1>1, <2>1, <2>3, <2>4, HandlersAdvance
    <3> QED
      BY <3>1, <2>3, FewerStays
  <2>5. CASE ~Handle(r)
    <3>1. ASSUME NEW q \in Delivery,
                 \/ Handle(q) \/ Interrupt(q) \/ Crash(q)
                 \/ \E m \in Message : Receive(q, m)
                 \/ \E m \in Message, d \in Refusal : Refuse(q, m, d)
          PROVE  now <= was
      <4>1. CASE q = r
        BY <1>1, <2>1, <2>3, <2>5, <3>1, <4>1, CutsShorten
      <4>2. CASE q # r
        <5>1. delivery'[r] = delivery[r]
          BY <1>1, <3>1, <4>2, HandlersAdvance, CutsShorten
        <5> QED
          BY <2>same, <5>1
      <4> QED
        BY <4>1, <4>2
    <3>2. ASSUME NEW q \in Delivery, EveRefuses(q) \/ \E s \in Session : EveAccepts(q, s)
          PROVE  UNCHANGED delivery
      BY <3>2 DEF EveAccepts, EveRefuses
    <3>3. ASSUME NEW s \in Session,
                 \/ \E outcome \in {"completed", "failed"} : SessionEnds(s, outcome)
                 \/ StopPresence(s) \/ SettleSession(s)
          PROVE  UNCHANGED delivery
      BY <3>3 DEF SessionEnds, StopPresence, SettleSession
    <3>4. ASSUME Tick \/ UNCHANGED vars
          PROVE  UNCHANGED delivery
      BY <3>4 DEF Tick, vars
    <3>5. UNCHANGED delivery => now <= was
      BY <2>same
    <3>6. now <= was
      BY <1>1, <3>1, <3>2, <3>3, <3>4, <3>5 DEF Next
    <3> QED
      BY <2>5, <3>6
  <2> QED
    BY <2>4, <2>5
<1>2. Inv /\ [Next]_vars => [Short]_vars
  BY <1>1
<1> QED
  BY <1>2, Invariance, PTL DEF Spec, RequestsAreShort

=============================================================================
