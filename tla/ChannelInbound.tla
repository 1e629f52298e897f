---------------------------- MODULE ChannelInbound ----------------------------
(***************************************************************************)
(* Inbound messages of the agent: a provider posts a message to the        *)
(* webhook, perhaps several times; each delivery claims the message, hands *)
(* it to Eve, binds the conversation to the session Eve chose, and answers *)
(* the provider.  Sessions later end and retire their conversation.        *)
(* Source: apps/agent/agent/lib/channel/{eve,channel,dispatch,replay}.ts.  *)
(*                                                                         *)
(* Deliveries interleave at every call to the store, to Eve and to the     *)
(* handoff observer.  A fault is a store call that fails, whether or not   *)
(* its transaction was applied; an observation that fails; a lost send; a  *)
(* session forked by Eve; an interrupted request; a dead process.          *)
(***************************************************************************)
EXTENDS ChannelReplay, AtomicStoreClient, FiniteSets

CONSTANTS
  Message,              \* provider message identities
  Token,                \* continuation tokens, one for each conversation
  Session,              \* Eve sessions
  Delivery,             \* webhook requests
  TokenOf,              \* router.route: the conversation of a message
  ProviderRetryProof,   \* proofPolicy = "provider-retry"
  Punctual              \* leases outlast handlers, retention outlasts retries

ASSUME ChannelAssumption ==
  /\ TokenOf \in [Message -> Token]
  /\ ProviderRetryProof \in BOOLEAN
  /\ Punctual \in BOOLEAN
  /\ MaxFaults \in Nat
  /\ Nil \notin ReplayStatus \cup {"failed"} \cup Message \cup Session \cup Delivery
  /\ Session \cap (ReplayStatus \cup {"failed"}) = {}

VARIABLES
  delivery,   \* where each webhook request is, and what it answered
  send,       \* what Eve made of each request's send
  session,    \* Eve's sessions and the handlers of their session.ended event
  holder      \* the delivery that wrote a message's last claim (history)

vars == <<db, delivery, send, session, holder, faults>>

-----------------------------------------------------------------------------

Key == {InboundKey(m) : m \in Message}
         \cup {ContinuityKey(t) : t \in Token}
         \cup {TerminalKey(s) : s \in Session}

Value == ReplayStatus \cup {"failed"} \cup Session

Entry == [value : Value, ttl : Nat \ {0}]

(* Between the transaction that claims a message and the one that settles  *)
(* it a delivery may dispatch; the other points only settle and answer.    *)
Dispatching == {"prepare", "dispatch", "sending", "acceptNew", "acceptResumed"}

Settling == {"release", "retry", "quarantine", "uncertain", "fork", "interrupted"}

Point == Dispatching \cup Settling \cup
           {"idle", "claim", "converge", "convergeFork",
            "respond", "respondUncertain", "done", "lost"}

(* The dispositions the route logs, one for each way to answer.            *)
Refusal == {"ignored", "identityRejected", "routingFailed",
            "authenticationRejected", "schemaRejected"}

Disposition == Refusal \cup
  {"duplicate", "replayFailed", "handoffObservationFailed",
   "handoffContinuityUncertain", "providerRetryRequested", "acceptedForDispatch"}

ASSUME UnansweredAssumption == Nil \notin Disposition

TypeOK ==
  /\ db \in [Key -> Entry \cup {Gone}]
  /\ delivery \in [Delivery -> [pc : Point, message : Message \cup {Nil},
                                disposition : Disposition \cup {Nil}]]
  /\ send \in [Delivery -> [status  : {"none", "inflight", "accepted", "refused"},
                            session : Session \cup {Nil}]]
  /\ session \in [Session -> [status : {"unused", "live", "completed", "failed"},
                              token  : Token \cup {Nil},
                              ended  : {"no", "presence", "settle", "retired",
                                        "stale", "lost"}]]
  /\ holder \in [Message -> Delivery \cup {Nil}]
  /\ faults \in 0..MaxFaults

Init ==
  /\ db = [key \in Key |-> Gone]
  /\ delivery = [r \in Delivery |-> [pc |-> "idle", message |-> Nil, disposition |-> Nil]]
  /\ send = [r \in Delivery |-> [status |-> "none", session |-> Nil]]
  /\ session = [s \in Session |-> [status |-> "unused", token |-> Nil, ended |-> "no"]]
  /\ holder = [m \in Message |-> Nil]
  /\ faults = 0

-----------------------------------------------------------------------------
(* Steps of a delivery.                                                    *)

At(r, point) == delivery[r].pc = point

Go(r, point) == delivery' = [delivery EXCEPT ![r].pc = point]

Answer(r, disposition) ==
  delivery' = [delivery EXCEPT ![r].pc = "done", ![r].disposition = disposition]

Record(r) == InboundKey(delivery[r].message)

(* A call to the handoff observer.                                         *)
Observe(ok) ==
  \/ ok /\ UNCHANGED faults
  \/ ~ok /\ Fault

(* The provider posts a message: for the first time, or again.  It may be  *)
(* refused before any claim is made.                                       *)
Receive(r, m) ==
  /\ At(r, "idle")
  /\ delivery' = [delivery EXCEPT ![r].pc = "claim", ![r].message = m]
  /\ UNCHANGED <<db, send, session, holder, faults>>

Refuse(r, m, disposition) ==
  /\ At(r, "idle")
  /\ delivery' = [delivery EXCEPT ![r] = [pc |-> "done", message |-> m,
                                          disposition |-> disposition]]
  /\ UNCHANGED <<db, send, session, holder, faults>>

ClaimInbound(r) ==
  /\ At(r, "claim")
  /\ \E result \in Result :
       /\ Transact(Claim(Record(r)), result)
       /\ \/ result = "applied"  /\ Go(r, "prepare")
          \/ result = "conflict" /\ Answer(r, "duplicate")
          \/ result = "error"    /\ Answer(r, "replayFailed")
  /\ holder' = IF db' = db THEN holder ELSE [holder EXCEPT ![delivery[r].message] = r]
  /\ UNCHANGED <<send, session>>

(* handoff.prepared; when it fails the claim is released first.            *)
Prepare(r) ==
  /\ At(r, "prepare")
  /\ \E ok \in BOOLEAN : Observe(ok) /\ Go(r, IF ok THEN "dispatch" ELSE "release")
  /\ UNCHANGED <<db, send, session, holder>>

Release(r) ==
  /\ At(r, "release")
  /\ \E result \in Result :
       /\ Transact(Retryable(Record(r)), result)
       /\ Answer(r, IF result = "applied" THEN "handoffObservationFailed"
                                          ELSE "replayFailed")
  /\ UNCHANGED <<send, session, holder>>

(* The send starts, unless sendStarted or the state's encoding fails: then *)
(* the dispatch is rejected and retryInbound runs, or uncertainInbound     *)
(* when the observation of the exit fails too.                             *)
StartSend(r) ==
  /\ At(r, "dispatch")
  /\ send' = [send EXCEPT ![r].status = "inflight"]
  /\ Go(r, "sending")
  /\ UNCHANGED <<db, session, holder, faults>>

RejectSend(r) ==
  /\ At(r, "dispatch")
  /\ Fault
  /\ \E point \in {"retry", "uncertain"} : Go(r, point)
  /\ UNCHANGED <<db, send, session, holder>>

(* The promise of the send settles: with the session that accepted it, or  *)
(* with a failure that may hide an acceptance.                             *)
SendResolves(r) ==
  /\ At(r, "sending")
  /\ send[r].status = "accepted"
  /\ \E ok \in BOOLEAN : Observe(ok) /\ Go(r, IF ok THEN "acceptNew" ELSE "quarantine")
  /\ UNCHANGED <<db, send, session, holder>>

SendFails(r) ==
  /\ At(r, "sending")
  /\ \/ send[r].status = "refused" /\ UNCHANGED faults
     \/ send[r].status # "refused" /\ Fault
  /\ Go(r, "quarantine")
  /\ UNCHANGED <<db, send, session, holder>>

(* The acceptance timeout abandons the promise, not the send behind it.    *)
SendTimesOut(r) ==
  /\ At(r, "sending")
  /\ Go(r, "quarantine")
  /\ UNCHANGED <<db, send, session, holder, faults>>

(* acceptInbound: a new continuity record, else the record of this same    *)
(* session, else the claim is kept as uncertain.                           *)
AcceptInboundNew(r) ==
  /\ At(r, "acceptNew")
  /\ \E result \in Result :
       /\ Transact(AcceptNew(delivery[r].message, TokenOf[delivery[r].message],
                             send[r].session), result)
       /\ \/ result = "applied"  /\ Go(r, "converge")
          \/ result = "conflict" /\ Go(r, "acceptResumed")
          \/ result = "error"    /\ Go(r, "uncertain")
  /\ UNCHANGED <<send, session, holder>>

AcceptInboundResumed(r) ==
  /\ At(r, "acceptResumed")
  /\ \E result \in Result :
       /\ Transact(AcceptResumed(delivery[r].message, TokenOf[delivery[r].message],
                                 send[r].session), result)
       /\ \/ result = "applied"  /\ Go(r, "converge")
          \/ result = "conflict" /\ Go(r, "fork")
          \/ result = "error"    /\ Go(r, "uncertain")
  /\ UNCHANGED <<send, session, holder>>

AcceptInboundFork(r) ==
  /\ At(r, "fork")
  /\ \E result \in Result :
       /\ Transact(Retain(Record(r), "uncertain"), result)
       /\ Go(r, IF result = "applied" THEN "convergeFork" ELSE "uncertain")
  /\ UNCHANGED <<send, session, holder>>

(* handoff.converged and handoff.settled, after either result.             *)
Converge(r) ==
  /\ At(r, "converge")
  /\ \E ok \in BOOLEAN : Observe(ok) /\ Go(r, IF ok THEN "respond" ELSE "uncertain")
  /\ UNCHANGED <<db, send, session, holder>>

ConvergeFork(r) ==
  /\ At(r, "convergeFork")
  /\ \E ok \in BOOLEAN : Observe(ok) /\ Go(r, IF ok THEN "respondUncertain" ELSE "uncertain")
  /\ UNCHANGED <<db, send, session, holder>>

(* retryInbound after a rejected dispatch, uncertainInbound after one that *)
(* may have been accepted; if the store refuses, uncertainInbound runs     *)
(* (again) and whatever it answers is swallowed.                           *)
RetryInbound(r) ==
  /\ At(r, "retry")
  /\ \E result \in Result :
       /\ Transact(Retryable(Record(r)), result)
       /\ Go(r, IF result = "applied" THEN "respondUncertain" ELSE "uncertain")
  /\ UNCHANGED <<send, session, holder>>

(* Mutants of QuarantineInbound: it releases the claim; it insists.        *)
QuarantineReleasing(r) ==
  /\ At(r, "quarantine")
  /\ \E result \in Result :
       /\ Transact(Retryable(Record(r)), result)
       /\ Go(r, IF result = "applied" THEN "respondUncertain" ELSE "uncertain")
  /\ UNCHANGED <<send, session, holder>>

QuarantineInsisting(r) ==
  /\ At(r, "quarantine")
  /\ \E result \in Result :
       /\ Transact(Retain(Record(r), "uncertain"), result)
       /\ IF result = "applied" THEN Go(r, "respondUncertain") ELSE UNCHANGED delivery
  /\ UNCHANGED <<send, session, holder>>

QuarantineInbound(r) ==
  /\ At(r, "quarantine")
  /\ \E result \in Result :
       /\ Transact(Retain(Record(r), "uncertain"), result)
       /\ Go(r, IF result = "applied" THEN "respondUncertain" ELSE "uncertain")
  /\ UNCHANGED <<send, session, holder>>

(* Mutant of UncertainInbound: it completes the message.                   *)
UncertainCompleting(r) ==
  /\ At(r, "uncertain")
  /\ \E result \in Result :
       Transact(Retain(Record(r), "complete"), result)
  /\ Go(r, "respondUncertain")
  /\ UNCHANGED <<send, session, holder>>

UncertainInbound(r) ==
  /\ At(r, "uncertain")
  /\ \E result \in Result :
       Transact(Retain(Record(r), "uncertain"), result)
  /\ Go(r, "respondUncertain")
  /\ UNCHANGED <<send, session, holder>>

(* handoff.response, then the answer: 503 after an uncertain dispatch, 202 *)
(* after a converged one, or 503 when the proof policy allows the provider *)
(* to ask for a retry and it does.                                         *)
RespondUncertain(r) ==
  /\ At(r, "respondUncertain")
  /\ \E ok \in BOOLEAN :
       /\ Observe(ok)
       /\ Answer(r, IF ok THEN "handoffContinuityUncertain" ELSE "handoffObservationFailed")
  /\ UNCHANGED <<db, send, session, holder>>

Respond(r) ==
  /\ At(r, "respond")
  /\ \/ /\ UNCHANGED faults
        /\ \/ Answer(r, "acceptedForDispatch")
           \/ ProviderRetryProof /\ Answer(r, "providerRetryRequested")
     \/ Fault /\ Answer(r, "handoffObservationFailed")
  /\ UNCHANGED <<db, send, session, holder>>

(* An interrupt or a defect inside the dispatch: the exit finalizer tries  *)
(* to keep the claim as uncertain, and no response is written.             *)
Interrupt(r) ==
  /\ delivery[r].pc \in {"dispatch", "sending", "acceptNew", "acceptResumed",
                         "fork", "converge", "convergeFork"}
  /\ Fault
  /\ Go(r, "interrupted")
  /\ UNCHANGED <<db, send, session, holder>>

FinalizeInterrupt(r) ==
  /\ At(r, "interrupted")
  /\ \E result \in Result :
       Transact(Retain(Record(r), "uncertain"), result)
  /\ Go(r, "lost")
  /\ UNCHANGED <<send, session, holder>>

(* The process dies: nothing more of the request runs.                     *)
Crash(r) ==
  /\ delivery[r].pc \notin {"idle", "done", "lost"}
  /\ Fault
  /\ Go(r, "lost")
  /\ UNCHANGED <<db, send, session, holder>>

-----------------------------------------------------------------------------
(* Eve, as the channel uses it, and the handlers of its session events.    *)

(* A send resumes the conversation's live session, or starts one; Eve also *)
(* starts one when it fails to resume (a fork).                            *)
Eligible(s, token) ==
  \/ session[s].status = "live" /\ session[s].token = token /\ UNCHANGED faults
  \/ /\ session[s].status = "unused"
     /\ \/ /\ \A other \in Session : ~(/\ session[other].status = "live"
                                       /\ session[other].token = token)
           /\ UNCHANGED faults
        \/ /\ \E other \in Session : /\ session[other].status = "live"
                                     /\ session[other].token = token
           /\ Fault

EveAccepts(r, s) ==
  LET token == TokenOf[delivery[r].message]
  IN  /\ send[r].status = "inflight"
      /\ Eligible(s, token)
      /\ send' = [send EXCEPT ![r] = [status |-> "accepted", session |-> s]]
      /\ session' = [session EXCEPT ![s].status = "live", ![s].token = token]
      /\ UNCHANGED <<db, delivery, holder>>

EveRefuses(r) ==
  /\ send[r].status = "inflight"
  /\ send' = [send EXCEPT ![r].status = "refused"]
  /\ UNCHANGED <<db, delivery, session, holder, faults>>

SessionEnds(s, outcome) ==
  /\ session[s].status = "live"
  /\ session' = [session EXCEPT ![s].status = outcome, ![s].ended = "presence"]
  /\ UNCHANGED <<db, delivery, send, holder, faults>>

(* settleSession stops the typing indicator first; when that fails the     *)
(* handler fails with it and the session is never settled.                 *)
StopPresence(s) ==
  /\ session[s].ended = "presence"
  /\ \E ok \in BOOLEAN :
       /\ Observe(ok)
       /\ session' = [session EXCEPT ![s].ended = IF ok THEN "settle" ELSE "lost"]
  /\ UNCHANGED <<db, delivery, send, holder>>

SettleSession(s) ==
  /\ session[s].ended = "settle"
  /\ \E result \in Result :
       /\ Transact(Retirement(session[s].token, s, session[s].status), result)
       /\ session' = [session EXCEPT ![s].ended =
                        CASE result = "applied"  -> "retired"
                          [] result = "conflict" -> "stale"
                          [] result = "error"    -> "lost"]
  /\ UNCHANGED <<delivery, send, holder>>

(* Time passes.  A punctual deployment never lets a lease run out under a  *)
(* delivery that is still dispatching, nor a retained record run out while *)
(* the provider may still post its message.                                *)
Expiring(m, statuses) ==
  /\ db[InboundKey(m)].value \in statuses
  /\ db[InboundKey(m)].ttl = 1

Early ==
  \/ \E r \in Delivery : /\ delivery[r].pc \in Dispatching \cup Settling
                         /\ Expiring(delivery[r].message, {"claimed"})
  \/ \E r \in Delivery, m \in Message : /\ delivery[r].pc \in {"idle", "claim"}
                                        /\ Expiring(m, {"complete", "uncertain"})

Tick ==
  /\ Punctual => ~Early
  /\ db' = Aged(db)
  /\ UNCHANGED <<delivery, send, session, holder, faults>>

-----------------------------------------------------------------------------

Handle(r) ==
  \/ ClaimInbound(r) \/ Prepare(r) \/ Release(r)
  \/ StartSend(r) \/ RejectSend(r)
  \/ SendResolves(r) \/ SendFails(r) \/ SendTimesOut(r)
  \/ AcceptInboundNew(r) \/ AcceptInboundResumed(r) \/ AcceptInboundFork(r)
  \/ Converge(r) \/ ConvergeFork(r)
  \/ RetryInbound(r) \/ QuarantineInbound(r) \/ UncertainInbound(r)
  \/ Respond(r) \/ RespondUncertain(r) \/ FinalizeInterrupt(r)

Next ==
  \/ \E r \in Delivery :
       \/ \E m \in Message : Receive(r, m)
       \/ \E m \in Message, d \in Refusal : Refuse(r, m, d)
       \/ Handle(r)
       \/ Interrupt(r)
       \/ Crash(r)
       \/ \E s \in Session : EveAccepts(r, s)
       \/ EveRefuses(r)
  \/ \E s \in Session :
       \/ \E outcome \in {"completed", "failed"} : SessionEnds(s, outcome)
       \/ StopPresence(s)
       \/ SettleSession(s)
  \/ Tick

Spec == Init /\ [][Next]_vars

(* The runtime keeps running a request that is not cut off, the timer of   *)
(* an awaited send fires, an event handler runs, and the clock moves.      *)
FairSpec ==
  /\ Spec
  /\ \A r \in Delivery : WF_vars(Handle(r))
  /\ \A s \in Session : WF_vars(StopPresence(s) \/ SettleSession(s))
  /\ WF_vars(Tick)

-----------------------------------------------------------------------------
(* Properties.                                                             *)

AcceptedDeliveries(m) ==
  {r \in Delivery : delivery[r].message = m /\ send[r].status = "accepted"}

(* Nothing durable is written on hope: a completed message was accepted by *)
(* Eve, a continuity record names a session that accepted a message of     *)
(* that conversation, a terminal record a session that failed              *)
(* (acceptInbound and settleSession of replay.ts).                         *)
RecordsAreEarned ==
  /\ \A m \in Message :
       Read(db, InboundKey(m)) = "complete" => AcceptedDeliveries(m) # {}
  /\ \A t \in Token, s \in Session :
       Read(db, ContinuityKey(t)) = s =>
         /\ session[s].token = t
         /\ \E m \in Message : /\ TokenOf[m] = t
                              /\ \E r \in AcceptedDeliveries(m) : send[r].session = s
  /\ \A s \in Session :
       Read(db, TerminalKey(s)) # Nil => session[s].status = "failed"

(* The provider is told that its message was taken (202, or the 503 that   *)
(* proves a retry) only after Eve accepted that very delivery (the route   *)
(* of eve.ts, after convergence).                                          *)
AcknowledgedIsAccepted ==
  \A r \in Delivery :
    delivery[r].disposition \in {"acceptedForDispatch", "providerRetryRequested"} =>
      send[r].status = "accepted"

(* The channel's records and Eve's facts as the ledger of conversations    *)
(* has them.                                                               *)
LedgerAccepted ==
  {<<delivery[r].message, send[r].session>> :
     r \in {q \in Delivery : send[q].status = "accepted"}}

LedgerEnded ==
  [s \in Session |-> IF session[s].status \in {"completed", "failed"}
                     THEN session[s].status ELSE "no"]

LedgerRecord   == [m \in Message |-> Read(db, InboundKey(m))]
LedgerBound    == [t \in Token |-> Read(db, ContinuityKey(t))]
LedgerTerminal == {s \in Session : Read(db, TerminalKey(s)) # Nil}

Ledger == INSTANCE ConversationLedger
            WITH accepted <- LedgerAccepted, ended <- LedgerEnded,
                 record <- LedgerRecord, bound <- LedgerBound,
                 terminal <- LedgerTerminal

(* The channel keeps the ledger: whatever interleaves, fails, crashes or   *)
(* lapses, a step on the store is a step of the ledger on its records,     *)
(* made on the facts of Eve that entitle to it, and the records that       *)
(* belong together change together (claim, acceptInbound, retryable,       *)
(* retain and settleSession of replay.ts).                                 *)
KeepsLedger == Ledger!Spec

(* A settled replay record never changes again before it expires, whatever *)
(* late, repeated or foreign settlement still runs (retain and retryable   *)
(* of replay.ts compare with the claimed value).                           *)
SettledRecordsAreFinal ==
  [][\A m \in Message :
       LET old == db[InboundKey(m)]
           new == db'[InboundKey(m)]
       IN  old.value \in {"complete", "uncertain"} =>
             \/ new.value = old.value
             \/ old.ttl = 1 /\ new = Gone]_vars

(* A conversation never passes from one session to another: its record     *)
(* goes only when it expires or when the session it names has ended, and   *)
(* the record of a failed session goes only into that session's terminal   *)
(* record (acceptInbound, settleSession).                                  *)
ContinuityNeverForks ==
  [][\A t \in Token, s \in Session :
       LET old == db[ContinuityKey(t)]
           new == db'[ContinuityKey(t)]
       IN  old.value = s /\ new.value # s =>
             /\ new = Gone
             /\ \/ old.ttl = 1
                \/ session[s].status = "completed"
                \/ /\ session[s].status = "failed"
                   /\ db'[TerminalKey(s)].value = "failed"]_vars

(* In a punctual deployment no two deliveries of one message are ever past *)
(* the claim together (claim of replay.ts, eve.ts:176-208).                *)
ExclusiveDispatch ==
  \A r, q \in Delivery :
    /\ delivery[r].pc \in Dispatching
    /\ delivery[q].pc \in Dispatching
    /\ delivery[r].message = delivery[q].message
    => r = q

(* In a punctual deployment a message reaches Eve once, and once more for  *)
(* each fault at most: a repeat is the price of a crash, a lost answer or  *)
(* a failed observation, never of a provider retry alone.                  *)
RepeatsCostFaults ==
  \A m \in Message : Cardinality(AcceptedDeliveries(m)) <= 1 + faults

(* In a punctual deployment nothing is sent for a message whose acceptance *)
(* was already reported to the provider.                                   *)
NoSendAfterAcknowledgement ==
  [][\A r, q \in Delivery :
       /\ delivery[q].disposition \in {"acceptedForDispatch", "providerRetryRequested"}
       /\ delivery[q].message = delivery[r].message
       /\ send'[r].status = "inflight"
       => send[r].status = "inflight"]_vars

(* Every request that entered the route is answered, or its process died   *)
(* or was interrupted: no send to Eve, failed store call or repeated       *)
(* settlement holds it for ever.                                           *)
EveryDeliveryEnds ==
  \A r \in Delivery : delivery[r].pc # "idle" ~> delivery[r].pc \in {"done", "lost"}

=============================================================================
