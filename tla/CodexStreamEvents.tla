-------------------------- MODULE CodexStreamEvents ---------------------------
(***************************************************************************)
(* The sequence of Codex stream events and its mapping to the chunks of an *)
(* OpenAI-compatible stream.                                               *)
(* Source: packages/codex/src/provider/stream-events.ts, stream-mapper.ts. *)
(*                                                                         *)
(* An event has a type, its sequence number and, for function calls, the   *)
(* index of its output item.  "failed" stands for the three terminal       *)
(* failures, "ignored" for every event the mapper has no use for.          *)
(***************************************************************************)
EXTENDS Naturals, Sequences, FiniteSets

(* One step after the other, each from the value the last one returned.    *)
Run(step(_, _), base, seq) ==
  LET after[i \in 0..Len(seq)] ==
        IF i = 0 THEN base
        ELSE CHOOSE next \in {step(last, seq[i]) : last \in {after[i - 1]}} : TRUE
  IN after[Len(seq)]

FreshMapper ==
  [completed |-> FALSE, done |-> FALSE, next |-> 0,
   indexes |-> <<>>, hasFunctionCall |-> FALSE, fault |-> "none", chunks |-> <<>>]

(* One payload holds one event, or it does not decode.                     *)
Undecodable == [type |-> "undecodable", seq |-> 0, index |-> 0]

DecodeStreamData(payload) ==
  IF Len(payload) = 1 /\ Len(payload[1]) = 1 /\ payload[1][1].kind = "event"
  THEN payload[1][1].event ELSE Undecodable

Emit(m, chunk) == [m EXCEPT !.chunks = Append(@, chunk)]

(* The calls of a response are numbered in the order of their arrival.     *)
MapFunctionCall(m, e) ==
  LET index == Cardinality(DOMAIN m.indexes)
  IN IF e.index \in DOMAIN m.indexes THEN [m EXCEPT !.fault = "callRepeated"]
     ELSE Emit([m EXCEPT !.indexes = [i \in DOMAIN @ \cup {e.index} |->
                                        IF i = e.index THEN index ELSE @[i]],
                         !.hasFunctionCall = TRUE],
               <<"call", index>>)

MapArguments(m, e) ==
  IF e.index \notin DOMAIN m.indexes THEN [m EXCEPT !.fault = "argumentsEarly"]
  ELSE Emit([m EXCEPT !.hasFunctionCall = TRUE], <<"arguments", m.indexes[e.index]>>)

MapEvent(m, e) ==
  CASE e.type = "text" -> Emit(m, <<"text", 0>>)
    [] e.type = "call" -> MapFunctionCall(m, e)
    [] e.type = "arguments" -> MapArguments(m, e)
    [] e.type = "completed" -> [m EXCEPT !.completed = TRUE]
    [] e.type = "failed" -> [m EXCEPT !.fault = "reportedFailure"]
    [] e.type = "ignored" -> m

AdvanceSequence(m, e) ==
  CASE m.fault # "none" -> m
    [] m.fault = "none" /\ e.type = "undecodable" -> [m EXCEPT !.fault = "undecodable"]
    [] m.fault = "none" /\ e.type = "done" ->
         IF ~m.completed \/ m.done THEN [m EXCEPT !.fault = "doneOutOfOrder"]
         ELSE [m EXCEPT !.done = TRUE]
    [] m.fault = "none" /\ e.type \notin {"undecodable", "done"} ->
         CASE m.completed -> [m EXCEPT !.fault = "afterCompletion"]
           [] ~m.completed /\ e.seq # m.next -> [m EXCEPT !.fault = "outOfOrder"]
           [] ~m.completed /\ e.seq = m.next -> MapEvent([m EXCEPT !.next = @ + 1], e)

(* Mutant: any end of the body finishes the response.                      *)
FinishUnearned(m) == Emit(m, <<"finish", IF m.hasFunctionCall THEN 1 ELSE 0>>)

(* What the mapper adds when the body has ended.                           *)
FinishMapper(m) ==
  IF m.completed
  THEN Emit(m, <<"finish", IF m.hasFunctionCall THEN 1 ELSE 0>>)
  ELSE [m EXCEPT !.fault = "endedEarly"]
=============================================================================
