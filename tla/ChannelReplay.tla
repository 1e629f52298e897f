---------------------------- MODULE ChannelReplay ----------------------------
(***************************************************************************)
(* The transactions of the agent's ChannelReplay service                   *)
(* (apps/agent/agent/lib/channel/replay.ts) over the atomic store: claims  *)
(* with a lease, their three settlements, the continuity record of a       *)
(* conversation and its retirement.                                        *)
(***************************************************************************)
EXTENDS AtomicKeyValueStore

CONSTANTS
  LeaseTtl,       \* options.leaseMilliseconds: how long a claim lasts
  RetentionTtl    \* options.ttlMilliseconds: how long everything else lasts

ASSUME TtlAssumption ==
  /\ LeaseTtl \in Nat \ {0}
  /\ RetentionTtl \in Nat \ {0}

(* The three statuses of a replay record.  A claim names no owner: every   *)
(* claimer writes this same value, and settles whatever claim it finds.    *)
ReplayStatus == {"claimed", "complete", "uncertain"}

InboundKey(message)      == <<"inbound", message>>
OutboundKey(coordinates) == <<"outbound", coordinates>>
ContinuityKey(token)     == <<"continuity", token>>
TerminalKey(session)     == <<"terminal", session>>

(* Mutant of Claim: it looks for no other claim.                           *)
ClaimUnguarded(key) ==
  Transaction(<<>>, [k \in {key} |-> Put("claimed", LeaseTtl)])

Claim(key) ==
  Transaction([k \in {key} |-> Nil], [k \in {key} |-> Put("claimed", LeaseTtl)])

(* Mutant of Retain: it does not look for its claim.                       *)
RetainUnguarded(key, status) ==
  Transaction(<<>>, [k \in {key} |-> Put(status, RetentionTtl)])

(* retain, with operation "complete" or "uncertain".                       *)
Retain(key, status) ==
  Transaction([k \in {key} |-> "claimed"], [k \in {key} |-> Put(status, RetentionTtl)])

Retryable(key) ==
  Transaction([k \in {key} |-> "claimed"], [k \in {key} |-> Gone])

(* acceptInbound's first transaction expects no continuity record, its     *)
(* second one the record of the accepted session; both complete the claim  *)
(* and write the record.                                                   *)
Accept(message, token, session, continuity) ==
  LET replay == InboundKey(message)
      keys   == {replay, ContinuityKey(token)}
  IN  Transaction(
        [k \in keys |-> IF k = replay THEN "claimed" ELSE continuity],
        [k \in keys |-> IF k = replay THEN Put("complete", RetentionTtl)
                                      ELSE Put(session, RetentionTtl)])

(* Mutants of the two: the first forgets the message it completes, the     *)
(* second takes a conversation from whatever session has it.               *)
AcceptNewForgetting(message, token, session) ==
  LET replay == InboundKey(message)
      txn    == Accept(message, token, session, Nil)
  IN  Transaction(txn.conditions, [txn.mutations EXCEPT ![replay] = Gone])

AcceptResumedForking(message, token, session) ==
  Transaction([k \in {InboundKey(message)} |-> "claimed"],
              Accept(message, token, session, session).mutations)

AcceptNew(message, token, session)     == Accept(message, token, session, Nil)
AcceptResumed(message, token, session) == Accept(message, token, session, session)

(* settleSession: the record that names the session goes; a failure leaves *)
(* a terminal record in its place.                                         *)
Retirement(token, session, outcome) ==
  LET continuity == ContinuityKey(token)
  IN  Transaction(
        [k \in {continuity} |-> session],
        [k \in {continuity} \cup
               (IF outcome = "failed" THEN {TerminalKey(session)} ELSE {}) |->
           IF k = continuity THEN Gone ELSE Put("failed", RetentionTtl)])

=============================================================================
