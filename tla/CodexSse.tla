------------------------------- MODULE CodexSse -------------------------------
(***************************************************************************)
(* The decoder of server-sent events: bytes to lines, lines to payloads.   *)
(* Source: packages/codex/src/provider/sse.ts.                             *)
(*                                                                         *)
(* The bytes of a body arrive in chunks that may be cut anywhere.  A byte  *)
(* is a record whose kind is "cr", "lf", "bom", "bad" (it does not decode  *)
(* as UTF-8), "data" (the field name and its colon), "other" or "event"    *)
(* (the JSON of one event).                                                *)
(***************************************************************************)
EXTENDS CodexStreamEvents

CONSTANTS
  LineMax,      \* codexResponsesSseLineMaxBytes
  FragmentMax,  \* codexResponsesSseLineFragmentMaxCount
  EventMax,     \* codexResponsesSseEventMaxBytes
  FieldMax      \* codexResponsesSseEventFieldMaxCount

ASSUME SseAssumption == {LineMax, FragmentMax, EventMax, FieldMax} \subseteq Nat \ {0}

-----------------------------------------------------------------------------
(* Lines.  A carriage return that ends a chunk is pending: whether a line  *)
(* feed belongs to it only the next chunk tells.                           *)

FreshLines ==
  [line |-> <<>>, segment |-> 0, fragments |-> 0, first |-> TRUE,
   pending |-> <<>>, lines |-> <<>>, fault |-> "none"]

(* Every chunk that holds a part of the line has added one fragment.       *)
Fragments(s) == s.fragments + IF s.segment > 0 THEN 1 ELSE 0

DecodedLine(s) ==
  IF s.first /\ s.line # <<>> /\ Head(s.line).kind = "bom" THEN Tail(s.line) ELSE s.line

LineFault(s) ==
  CASE Len(s.line) > LineMax -> "lineLimit"
    [] Fragments(s) > FragmentMax -> "fragmentLimit"
    [] OTHER -> "none"

EmitPending(s, width) ==
  [s EXCEPT !.pending = <<>>,
            !.lines = Append(@, [value |-> s.pending[1].value,
                                 wire |-> s.pending[1].length + width])]

CompleteLine(s, b) ==
  LET fault == IF LineFault(s) = "none" /\ \E i \in DOMAIN s.line : s.line[i].kind = "bad"
               THEN "badBytes" ELSE LineFault(s)
      next  == [s EXCEPT !.line = <<>>, !.segment = 0, !.fragments = 0, !.first = FALSE]
      value == DecodedLine(s)
  IN CASE fault # "none" -> [s EXCEPT !.fault = fault]
       [] b.kind = "cr" ->
            [next EXCEPT !.pending = <<[value |-> value, length |-> Len(s.line)]>>]
       [] b.kind = "lf" ->
            [next EXCEPT !.lines = Append(@, [value |-> value, wire |-> Len(s.line) + 1])]

SplitByte(s, b) ==
  LET t == IF s.pending # <<>> THEN EmitPending(s, 1) ELSE s
  IN CASE s.fault # "none" -> s
       [] s.fault = "none" /\ s.pending # <<>> /\ b.kind = "lf" -> EmitPending(s, 2)
       [] s.fault = "none" /\ b.kind \notin {"cr", "lf"} ->
            [t EXCEPT !.line = Append(@, b), !.segment = @ + 1]
       [] OTHER -> CompleteLine(t, b)

(* Mutant: the carriage return at the end of a chunk is forgotten.         *)
SplitForgetsReturn(s, chunk) ==
  LET t == Run(SplitByte, [s EXCEPT !.lines = <<>>, !.pending = <<>>], chunk)
  IN IF t.fault # "none" THEN [t EXCEPT !.lines = <<>>]
     ELSE [t EXCEPT !.fragments = Fragments(t), !.segment = 0]

(* A chunk that fails takes the lines it had completed with it.            *)
SplitSseBytes(s, chunk) ==
  LET t == Run(SplitByte, [s EXCEPT !.lines = <<>>], chunk)
      fault == IF t.fault = "none" /\ t.segment > 0 THEN LineFault(t) ELSE t.fault
  IN IF fault # "none" THEN [t EXCEPT !.lines = <<>>, !.fault = fault]
     ELSE [t EXCEPT !.fragments = Fragments(t), !.segment = 0]

(* Mutant: a line that was cut off is dropped in silence.                  *)
FinishDropsLine(s) ==
  IF s.pending # <<>> THEN EmitPending([s EXCEPT !.lines = <<>>], 1)
  ELSE [s EXCEPT !.lines = <<>>]

FinishSseLines(s) ==
  IF s.line # <<>> THEN [s EXCEPT !.lines = <<>>, !.fault = "incompleteLine"]
  ELSE IF s.pending # <<>> THEN EmitPending([s EXCEPT !.lines = <<>>], 1)
  ELSE [s EXCEPT !.lines = <<>>]

-----------------------------------------------------------------------------
(* Events.  A payload is the sequence of the values of its data fields.    *)

FreshFrame == [bytes |-> 0, fields |-> 0, parts |-> <<>>, payloads |-> <<>>, fault |-> "none"]

FrameSseLine(f, line) ==
  LET bytes == f.bytes + line.wire
  IN CASE f.fault # "none" -> f
       [] f.fault = "none" /\ bytes > EventMax -> [f EXCEPT !.fault = "eventLimit"]
       [] f.fault = "none" /\ bytes <= EventMax /\ line.value = <<>> ->
            [f EXCEPT !.bytes = 0, !.fields = 0, !.parts = <<>>,
                      !.payloads = IF f.parts = <<>> THEN @ ELSE Append(@, f.parts)]
       [] f.fault = "none" /\ bytes <= EventMax /\ line.value # <<>> ->
            IF f.fields + 1 > FieldMax THEN [f EXCEPT !.fault = "fieldLimit"]
            ELSE [f EXCEPT !.bytes = bytes, !.fields = @ + 1,
                           !.parts = IF Head(line.value).kind = "data"
                                     THEN Append(@, Tail(line.value)) ELSE @]

(* Payloads that were framed before a fault have been handed on.           *)
FrameSseLines(f, lines) == Run(FrameSseLine, [f EXCEPT !.payloads = <<>>], lines)

FinishFrame(f) == IF f.bytes > 0 THEN [f EXCEPT !.fault = "incompleteEvent"] ELSE f
=============================================================================
