--------------------------- MODULE ChannelOutbound ---------------------------
(***************************************************************************)
(* Outbound replies of the agent: for each completed text Eve runs the     *)
(* content.completed handler, perhaps several times for one event.  An     *)
(* attempt claims the event, sends the text through the provider and       *)
(* settles the claim by what the transport made of the provider's answer.  *)
(* Source: apps/agent/agent/lib/channel/{eve,channel,replay}.ts and the    *)
(* transports packages/sendblue/src/live.layer.ts and packages/photon/src. *)
(*                                                                         *)
(* A fault is a store call that fails, whether or not it was applied; an   *)
(* answer that hides what the provider did; a dead process.                *)
(***************************************************************************)
EXTENDS ChannelReplay, AtomicStoreClient, FiniteSets

CONSTANTS
  Event,          \* coordinates of Eve's completed texts
  Attempt,        \* runs of the content.completed handler
  Punctual        \* leases outlast attempts, retention outlasts Eve's retries

ASSUME OutboundAssumption ==
  /\ Punctual \in BOOLEAN
  /\ MaxFaults \in Nat
  /\ Nil \notin ReplayStatus \cup Event

VARIABLES
  attempt,    \* where each attempt is, its event, the answer it got from the
              \* provider and what it told Eve
  post        \* what the provider made of each attempt's send

vars == <<db, attempt, post, faults>>

-----------------------------------------------------------------------------

Key == {OutboundKey(e) : e \in Event}

Entry == [value : ReplayStatus, ttl : Nat \ {0}]

(* Between its claim and its settlement an attempt holds the transport.    *)
Sending == {"claimed", "posted"}

Settling == {"complete", "uncertain", "retryable"}

Report == {"sendAccepted", "duplicate", "deliveryError", "replayError"}

Answer == {"identity", "error"}

ASSUME UnreportedAssumption == Nil \notin Report \cup Answer

TypeOK ==
  /\ db \in [Key -> Entry \cup {Gone}]
  /\ attempt \in [Attempt -> [pc : Sending \cup Settling \cup
                                     {"idle", "claim", "done", "dead"},
                              event : Event \cup {Nil},
                              answer : Answer \cup {Nil},
                              result : Report \cup {Nil}]]
  /\ post \in [Attempt -> {"none", "inflight", "delivered", "refused"}]
  /\ faults \in 0..MaxFaults

Init ==
  /\ db = [key \in Key |-> Gone]
  /\ attempt = [a \in Attempt |-> [pc |-> "idle", event |-> Nil,
                                 answer |-> Nil, result |-> Nil]]
  /\ post = [a \in Attempt |-> "none"]
  /\ faults = 0

-----------------------------------------------------------------------------

At(a, point) == attempt[a].pc = point

Go(a, point) == attempt' = [attempt EXCEPT ![a].pc = point]

Hear(a, answer, point) ==
  attempt' = [attempt EXCEPT ![a].pc = point, ![a].answer = answer]

Return(a, result) ==
  attempt' = [attempt EXCEPT ![a].pc = "done", ![a].result = result]

Record(a) == OutboundKey(attempt[a].event)

(* Eve delivers the event: for the first time, or again.                   *)
Handle(a, e) ==
  /\ At(a, "idle")
  /\ attempt' = [attempt EXCEPT ![a].pc = "claim", ![a].event = e]
  /\ UNCHANGED <<db, post, faults>>

ClaimOutbound(a) ==
  /\ At(a, "claim")
  /\ \E result \in Result :
       /\ Transact(Claim(Record(a)), result)
       /\ \/ result = "applied"  /\ Go(a, "claimed")
          \/ result = "conflict" /\ Return(a, "duplicate")
          \/ result = "error"    /\ Return(a, "replayError")
  /\ UNCHANGED post

(* The transport refuses before anything is sent: a foreign conversation,  *)
(* a request that does not encode, an SDK client that is not acquired or a *)
(* space that is not resolved.  The 30 second timeout covers these too.    *)
FailBeforePost(a) ==
  /\ At(a, "claimed")
  /\ \E point \in {"retryable", "uncertain"} : Go(a, point)
  /\ UNCHANGED <<db, post, faults>>

Post(a) ==
  /\ At(a, "claimed")
  /\ post' = [post EXCEPT ![a] = "inflight"]
  /\ Go(a, "posted")
  /\ UNCHANGED <<db, faults>>

(* The provider takes the message or refuses it, also after the attempt    *)
(* has stopped waiting.                                                    *)
ProviderDelivers(a) ==
  /\ post[a] = "inflight"
  /\ post' = [post EXCEPT ![a] = "delivered"]
  /\ UNCHANGED <<db, attempt, faults>>

ProviderRefuses(a) ==
  /\ post[a] = "inflight"
  /\ post' = [post EXCEPT ![a] = "refused"]
  /\ UNCHANGED <<db, attempt, faults>>

(* The answer is a message identity.                                       *)
AnswerAccepted(a) ==
  /\ At(a, "posted")
  /\ post[a] = "delivered"
  /\ Hear(a, "identity", "complete")
  /\ UNCHANGED <<db, post, faults>>

(* The answer is an error status, a body that says ERROR, or a body that   *)
(* does not decode: ProviderRejected or Unavailable.  It may hide a text   *)
(* that was delivered, or is on its way, which is a fault.                 *)
AnswerRejected(a) ==
  /\ At(a, "posted")
  /\ \/ post[a] = "refused" /\ UNCHANGED faults
     \/ post[a] # "refused" /\ Fault
  /\ Hear(a, "error", "retryable")
  /\ UNCHANGED <<db, post>>

(* Mutant of AnswerMissing: silence is taken for a rejection.              *)
AnswerMissingRejected(a) ==
  /\ At(a, "posted")
  /\ Go(a, "retryable")
  /\ UNCHANGED <<db, post, faults>>

(* No answer: the transport or the SDK failed, or 30 seconds have passed.  *)
AnswerMissing(a) ==
  /\ At(a, "posted")
  /\ Go(a, "uncertain")
  /\ UNCHANGED <<db, post, faults>>

(* The settlement of the claim; when the store refuses it the attempt      *)
(* fails with the store's error and leaves the claim as it is.             *)
Settle(a, point, txn, result) ==
  /\ At(a, point)
  /\ \E answer \in Result :
       /\ Transact(txn, answer)
       /\ Return(a, IF answer = "applied" THEN result ELSE "replayError")
  /\ UNCHANGED post

CompleteOutbound(a) ==
  Settle(a, "complete", Retain(Record(a), "complete"), "sendAccepted")

(* Mutants of UncertainOutbound: it releases the claim; it completes it.   *)
UncertainReleasing(a) ==
  Settle(a, "uncertain", Retryable(Record(a)), "deliveryError")

UncertainCompleting(a) ==
  Settle(a, "uncertain", Retain(Record(a), "complete"), "deliveryError")

UncertainOutbound(a) ==
  Settle(a, "uncertain", Retain(Record(a), "uncertain"), "deliveryError")

RetryOutbound(a) ==
  Settle(a, "retryable", Retryable(Record(a)), "deliveryError")

Crash(a) ==
  /\ attempt[a].pc \notin {"idle", "done", "dead"}
  /\ Fault
  /\ Go(a, "dead")
  /\ UNCHANGED <<db, post>>

(* Time passes.  A punctual deployment never lets a lease run out under an *)
(* attempt (30 seconds of transport under a lease of 60), nor a retained   *)
(* record while Eve may still repeat the event.                            *)
Expiring(e, statuses) ==
  /\ db[OutboundKey(e)].value \in statuses
  /\ db[OutboundKey(e)].ttl = 1

Early ==
  \/ \E a \in Attempt : /\ attempt[a].pc \in Sending \cup Settling
                        /\ Expiring(attempt[a].event, {"claimed"})
  \/ \E a \in Attempt, e \in Event : /\ attempt[a].pc \in {"idle", "claim"}
                                     /\ Expiring(e, {"complete", "uncertain"})

Tick ==
  /\ Punctual => ~Early
  /\ db' = Aged(db)
  /\ UNCHANGED <<attempt, post, faults>>

Advance(a) ==
  \/ ClaimOutbound(a) \/ FailBeforePost(a) \/ Post(a)
  \/ AnswerAccepted(a) \/ AnswerRejected(a) \/ AnswerMissing(a)
  \/ CompleteOutbound(a) \/ UncertainOutbound(a) \/ RetryOutbound(a)

Next ==
  \/ \E a \in Attempt :
       \/ \E e \in Event : Handle(a, e)
       \/ Advance(a)
       \/ ProviderDelivers(a)
       \/ ProviderRefuses(a)
       \/ Crash(a)
  \/ Tick

Spec == Init /\ [][Next]_vars

-----------------------------------------------------------------------------
(* Properties.                                                             *)

Delivered(e) == {a \in Attempt : attempt[a].event = e /\ post[a] = "delivered"}

(* A record says "complete" only of a text the provider took, and Eve is   *)
(* told so only of an attempt whose own text was taken (channel.ts, the    *)
(* OutboundTextReady handler), however late or foreign the settlement.     *)
CompleteIsDelivered ==
  /\ \A e \in Event : Read(db, OutboundKey(e)) = "complete" => Delivered(e) # {}
  /\ \A a \in Attempt : attempt[a].result = "sendAccepted" => post[a] = "delivered"

(* In a punctual deployment two attempts of one event never hold the       *)
(* transport together (claimOutbound of replay.ts).                        *)
ExclusiveSend ==
  \A a, b \in Attempt :
    /\ attempt[a].pc \in Sending
    /\ attempt[b].pc \in Sending
    /\ attempt[a].event = attempt[b].event
    => a = b

(* In a punctual deployment a text reaches the recipient once, and once    *)
(* more for each fault at most.                                            *)
ResendsCostFaults ==
  \A e \in Event : Cardinality(Delivered(e)) <= 1 + faults

(* In a punctual deployment a text that went to the provider is sent again *)
(* after its attempt has reported to Eve only if the provider answered     *)
(* that attempt with an error: a silent one keeps its record as uncertain, *)
(* only a rejected one removes it (channel.ts, the error handlers around   *)
(* sendMessage).  docs/product-specs/sendblue-eve-channel.md:687:          *)
(* "Provider timeout/unknown result | outbound claim `uncertain`, no       *)
(* auto-resend".  An error that hides a delivered text does have it sent   *)
(* again (live.layer.ts:336, photon client.ts:276): ResendsCostFaults      *)
(* bounds that, docs/architecture/eve-agent.md:287 ("never blind retry")   *)
(* does not provide for it.                                                *)
NeverBlindRetry ==
  [][\A a, b \in Attempt :
       /\ post[a] = "none" /\ post'[a] = "inflight"
       /\ attempt[b].event = attempt[a].event
       /\ attempt[b].result \in {"sendAccepted", "deliveryError"}
       /\ post[b] # "none"
       => attempt[b].answer = "error"]_vars

=============================================================================
