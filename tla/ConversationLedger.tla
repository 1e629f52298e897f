-------------------------- MODULE ConversationLedger --------------------------
(***************************************************************************)
(* What the durable records of the inbound channel promise.  Eve accepts   *)
(* messages into sessions and ends sessions; those are the facts.  The     *)
(* ledger claims a message before anything is done for it, completes it    *)
(* only for a session that took it, and in that same step names that       *)
(* session as the one of the conversation, unless another has it; a claim  *)
(* is otherwise released or left in doubt.  A conversation loses its       *)
(* session when that session is over, and a failed one is noted as it      *)
(* goes.  A record may lapse; none is ever changed but in these ways.      *)
(***************************************************************************)
CONSTANTS Message, Token, Session, TokenOf, Nil

VARIABLES
  accepted,  \* which message was taken by which session
  ended,     \* how each session ended, if it did
  record,    \* the claim or the verdict on each message
  bound,     \* the session of each conversation
  terminal   \* the sessions noted as failed

ledger == <<accepted, ended, record, bound, terminal>>

Init ==
  /\ accepted = {}
  /\ ended = [s \in Session |-> "no"]
  /\ record = [m \in Message |-> Nil]
  /\ bound = [t \in Token |-> Nil]
  /\ terminal = {}

(* The facts: a session serves one conversation, and takes no message once *)
(* it is over.                                                             *)
Accept(m, s) ==
  /\ ended[s] = "no"
  /\ \A n \in Message : <<n, s>> \in accepted => TokenOf[n] = TokenOf[m]
  /\ accepted' = accepted \cup {<<m, s>>}
  /\ UNCHANGED <<ended, record, bound, terminal>>

End(s, outcome) ==
  /\ ended[s] = "no"
  /\ ended' = [ended EXCEPT ![s] = outcome]
  /\ UNCHANGED <<accepted, record, bound, terminal>>

(* The records.                                                            *)
Claim(m) ==
  /\ record[m] = Nil
  /\ record' = [record EXCEPT ![m] = "claimed"]
  /\ UNCHANGED <<accepted, ended, bound, terminal>>

Settle(m, verdict) ==
  /\ record[m] = "claimed"
  /\ record' = [record EXCEPT ![m] = verdict]
  /\ UNCHANGED <<accepted, ended, bound, terminal>>

Complete(m, s) ==
  /\ <<m, s>> \in accepted
  /\ record[m] = "claimed"
  /\ bound[TokenOf[m]] \in {Nil, s}
  /\ record' = [record EXCEPT ![m] = "complete"]
  /\ bound' = [bound EXCEPT ![TokenOf[m]] = s]
  /\ UNCHANGED <<accepted, ended, terminal>>

Retire(t, s) ==
  /\ bound[t] = s
  /\ ended[s] # "no"
  /\ bound' = [bound EXCEPT ![t] = Nil]
  /\ terminal' = terminal \cup (IF ended[s] = "failed" THEN {s} ELSE {})
  /\ UNCHANGED <<accepted, ended, record>>

Lapse(messages, tokens, sessions) ==
  /\ record' = [m \in Message |-> IF m \in messages THEN Nil ELSE record[m]]
  /\ bound' = [t \in Token |-> IF t \in tokens THEN Nil ELSE bound[t]]
  /\ terminal' = terminal \ sessions
  /\ UNCHANGED <<accepted, ended>>

Next ==
  \/ \E m \in Message, s \in Session : Accept(m, s) \/ Complete(m, s)
  \/ \E s \in Session, outcome \in {"completed", "failed"} : End(s, outcome)
  \/ \E m \in Message : Claim(m) \/ Settle(m, Nil) \/ Settle(m, "uncertain")
  \/ \E t \in Token, s \in Session : Retire(t, s)
  \/ \E messages \in SUBSET Message, tokens \in SUBSET Token,
        sessions \in SUBSET Session : Lapse(messages, tokens, sessions)

Spec == Init /\ [][Next]_ledger
=============================================================================
