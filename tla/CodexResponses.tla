---------------------------- MODULE CodexResponses ----------------------------
(***************************************************************************)
(* One model invocation: the proxy's route, the request to Codex with one  *)
(* retry after a 401, the response body and who owns it, its decoding, and *)
(* the span that records how the stream ended.                             *)
(* Source: packages/codex/src/provider/http-client.ts, direct.ts, sse.ts,  *)
(* stream-events.ts, stream-mapper.ts; apps/codex-proxy/src/server.ts and  *)
(* vercel.ts.                                                              *)
(*                                                                         *)
(* The upstream writes any sequence of frames and may close, reset or stop *)
(* at any byte.  The host is the platform that reads the proxied response. *)
(***************************************************************************)
EXTENDS CodexSse, CodexBody

CONSTANTS
  Frame,       \* what the upstream may write: sequences of bytes
  MaxFrames,   \* bound on the frames it writes
  MaxChunk,    \* bound on the bytes of a chunk
  MaxBody,     \* transportPolicy.maximumBodyBytes
  MaxEvents    \* transportPolicy.maximumEvents

ASSUME ResponsesAssumption ==
  /\ {MaxFrames, MaxChunk, MaxBody, MaxEvents} \subseteq Nat \ {0}
  /\ \A f \in Frame : f # <<>>

VARIABLES
  pc,         \* where the request is
  attempt,    \* the request to Codex: the first, or the one after recovery
  scope,      \* responseScope of each attempt
  watchdog,   \* the detached fiber that closes a body nobody claims
  upstream,   \* what the upstream has written and the client not yet read
  wire,       \* the bytes read so far
  decoder,    \* the stages of the decoder
  out,        \* the mapped chunks
  fault,      \* why the stream failed
  pull,       \* the host waits for a chunk
  span        \* of the proxied response

vars == <<pc, attempt, scope, watchdog, upstream, wire, decoder, out, fault, pull, span>>

body == <<upstream, wire, decoder, out>>
-----------------------------------------------------------------------------

Unanswered == {"arrived", "posting", "recovering"}

Streamed == {"streaming", "reading", "finished"}

Over == {"answered", "interrupted", "failed", "cancelled", "closed"}

TypeOK ==
  /\ pc \in Unanswered \cup Streamed \cup Over
  /\ attempt \in 0..2
  /\ scope \in [1..2 -> {"none", "open", "closed"}]
  /\ watchdog \in {"none", "armed", "claimed", "fired"}
  /\ upstream.frames \in 0..MaxFrames /\ upstream.events \in Nat
  /\ Len(wire) <= MaxBody + MaxChunk
  /\ decoder.events \in 0..MaxEvents
  /\ \A i \in DOMAIN out : out[i] \in {"text", "call", "arguments", "finish"} \X Nat
  /\ fault \in STRING
  /\ pull \in BOOLEAN
  /\ span \in {"none", "open", "completed", "failed"}

Init ==
  /\ pc = "arrived"
  /\ attempt = 0
  /\ scope = [a \in 1..2 |-> "none"]
  /\ watchdog = "none"
  /\ upstream = [rest |-> <<>>, frames |-> 0, events |-> 0]
  /\ wire = <<>>
  /\ decoder = [split |-> FreshLines, frame |-> FreshFrame, mapper |-> FreshMapper,
                events |-> 0]
  /\ out = <<>>
  /\ fault = "none"
  /\ pull = FALSE
  /\ span = "none"

-----------------------------------------------------------------------------
(* The route, and the request to Codex.                                    *)

CloseScope == scope' = [scope EXCEPT ![attempt] = "closed"]

(* The route answers without a request to Codex: it does not decode, is    *)
(* not authorized, or has no credential.                                   *)
AnswerError ==
  /\ pc = "arrived"
  /\ pc' = "answered"
  /\ UNCHANGED <<attempt, scope, watchdog, body, fault, pull, span>>

(* With a credential, the first or the recovered one.                      *)
PostResponses ==
  /\ pc \in {"arrived", "recovering"}
  /\ pc' = "posting"
  /\ attempt' = attempt + 1
  /\ scope' = [scope EXCEPT ![attempt + 1] = "open"]
  /\ UNCHANGED <<watchdog, body, fault, pull, span>>

(* The first 401 is worth a recovery of the credential.                    *)
Rejected ==
  /\ pc = "posting"
  /\ CloseScope
  /\ pc' = IF attempt = 1 THEN "recovering" ELSE "answered"
  /\ UNCHANGED <<attempt, watchdog, body, fault, pull, span>>

RecoveryFails ==
  /\ pc = "recovering"
  /\ pc' = "answered"
  /\ UNCHANGED <<attempt, scope, watchdog, body, fault, pull, span>>

(* No headers in time, another status, or a body that is not SSE.          *)
PostFails ==
  /\ pc = "posting"
  /\ CloseScope
  /\ pc' = "answered"
  /\ UNCHANGED <<attempt, watchdog, body, fault, pull, span>>

(* The response is handed out with its body unread, under a watchdog.      *)
PostSucceeds ==
  /\ pc = "posting"
  /\ pc' = "streaming"
  /\ watchdog' = "armed"
  /\ span' = "open"
  /\ UNCHANGED <<attempt, scope, body, fault, pull>>

(* The client goes away before there is a response.                        *)
Interrupt ==
  /\ pc \in {"posting", "recovering"}
  /\ pc' = "interrupted"
  /\ IF pc = "posting" THEN CloseScope ELSE UNCHANGED scope
  /\ UNCHANGED <<attempt, watchdog, body, fault, pull, span>>

-----------------------------------------------------------------------------
(* The ownership of the body.                                              *)

WatchdogCloses ==
  /\ watchdog = "armed"
  /\ watchdog' = "fired"
  /\ CloseScope
  /\ UNCHANGED <<pc, attempt, body, fault, pull, span>>

(* Whoever completes the Deferred first has the body.                      *)
ClaimBody ==
  /\ pc = "streaming" /\ pull
  /\ watchdog = "armed"
  /\ watchdog' = "claimed"
  /\ pc' = "reading"
  /\ UNCHANGED <<attempt, scope, body, fault, pull, span>>

(* Mutant: a stream that fails keeps its response.                         *)
FailHolding(why) ==
  /\ pc' = "failed"
  /\ fault' = why
  /\ UNCHANGED scope
  /\ pull' = FALSE
  /\ span' = "failed"

(* A stream that fails releases its body and fails the host's read.        *)
Fail(why) ==
  /\ pc' = "failed"
  /\ fault' = why
  /\ CloseScope
  /\ pull' = FALSE
  /\ span' = "failed"

ClaimTooLate ==
  /\ pc = "streaming" /\ pull
  /\ watchdog = "fired"
  /\ Fail("ownership")
  /\ UNCHANGED <<attempt, watchdog, body>>

-----------------------------------------------------------------------------
(* Reading and decoding.                                                   *)

(* The stages pull on each other, so that an event is mapped before the    *)
(* next line is framed.                                                    *)
Decoded(d, split) ==
  LET frame    == FrameSseLines(d.frame, split.lines)
      arrived  == Len(frame.payloads)
      admitted == IF d.events + arrived > MaxEvents THEN MaxEvents - d.events ELSE arrived
      mapper   == Run(LAMBDA m, p : AdvanceSequence(m, DecodeStreamData(p)),
                           [d.mapper EXCEPT !.chunks = <<>>],
                           SubSeq(frame.payloads, 1, admitted))
  IN [decoder |-> [split |-> split, frame |-> frame, mapper |-> mapper,
                   events |-> d.events + admitted],
      fault |-> CASE mapper.fault # "none" -> mapper.fault
                  [] mapper.fault = "none" /\ admitted < arrived -> "eventCount"
                  [] mapper.fault = "none" /\ admitted = arrived ->
                       IF frame.fault # "none" THEN frame.fault ELSE split.fault]

(* The end of the body ends the stages in turn.                            *)
Finished(result) ==
  LET ending == IF result.fault # "none" THEN result.fault
                ELSE FinishFrame(result.decoder.frame).fault
  IN IF ending = "none" THEN FinishMapper(result.decoder.mapper)
     ELSE [result.decoder.mapper EXCEPT !.fault = ending]

Events(bytes) == Len(SelectSeq(bytes, LAMBDA b : b.kind = "event"))

(* A frame whose events are numbered from n.                               *)
Stamped(frame, n) ==
  [i \in DOMAIN frame |->
     IF frame[i].kind = "event"
     THEN [frame[i] EXCEPT !.event.seq = n + Events(SubSeq(frame, 1, i - 1))]
     ELSE frame[i]]

(* The upstream numbers its events in order, or skips a number.            *)
UpstreamWrites ==
  /\ pc = "reading"
  /\ upstream.rest = <<>> /\ upstream.frames < MaxFrames
  /\ \E f \in Frame, skipped \in 0..1 :
       upstream' = [rest   |-> Stamped(f, upstream.events + skipped),
                    frames |-> upstream.frames + 1,
                    events |-> upstream.events + skipped + Events(f)]
  /\ UNCHANGED <<pc, attempt, scope, watchdog, wire, decoder, out, fault, pull, span>>

(* A chunk is counted, decoded and mapped before the next one is read.     *)
ReadChunk ==
  /\ pc = "reading" /\ pull
  /\ \E n \in 1..MaxChunk :
       /\ n <= Len(upstream.rest)
       /\ wire' = wire \o SubSeq(upstream.rest, 1, n)
       /\ upstream' = [upstream EXCEPT !.rest = SubSeq(@, n + 1, Len(@))]
       /\ \/ /\ Len(wire') > MaxBody
             /\ Fail("bodyLimit")
             /\ UNCHANGED <<decoder, out>>
          \/ /\ Len(wire') <= MaxBody
             /\ \E result \in {Decoded(decoder, SplitSseBytes(decoder.split, SubSeq(upstream.rest, 1, n)))} :
                  /\ decoder' = result.decoder
                  /\ out' = out \o result.decoder.mapper.chunks
                  /\ IF result.fault # "none" THEN Fail(result.fault)
                     ELSE /\ pull' = (result.decoder.mapper.chunks = <<>>)
                          /\ UNCHANGED <<pc, fault, scope, span>>
  /\ UNCHANGED <<attempt, watchdog>>

(* The body ends; what it leaves behind decides whether the stream does.   *)
BodyEnds ==
  /\ pc = "reading" /\ pull
  /\ \E result \in {Decoded(decoder, FinishSseLines(decoder.split))} :
     \E mapper \in {Finished(result)} :
       /\ decoder' = [result.decoder EXCEPT !.mapper = mapper]
       /\ out' = out \o mapper.chunks
       /\ IF mapper.fault # "none" THEN Fail(mapper.fault)
          ELSE /\ pc' = "finished"
               /\ CloseScope
               /\ pull' = FALSE
               /\ UNCHANGED <<fault, span>>
  /\ UNCHANGED <<attempt, watchdog, upstream, wire>>

(* The connection breaks, or no byte comes within streamIdleTimeoutMillis. *)
BodyFails ==
  /\ pc = "reading" /\ pull
  /\ Fail("readResponseBody")
  /\ UNCHANGED <<attempt, watchdog, body>>

-----------------------------------------------------------------------------
(* The host, and the span around the response.                             *)

Pull ==
  /\ pc \in Streamed /\ ~pull
  /\ pull' = TRUE
  /\ UNCHANGED <<pc, attempt, scope, watchdog, body, fault, span>>

(* The read that finds the end completes the span.                         *)
ReadEnd ==
  /\ pc = "finished" /\ pull
  /\ pc' = "closed"
  /\ pull' = FALSE
  /\ span' = "completed"
  /\ UNCHANGED <<attempt, scope, watchdog, body, fault>>

(* The host gives the response up.  An unread body is left to the watchdog. *)
Cancel ==
  /\ pc \in Streamed
  /\ pc' = "cancelled"
  /\ IF pc = "reading" THEN CloseScope ELSE UNCHANGED scope
  /\ UNCHANGED <<attempt, watchdog, body, fault, pull, span>>

(* Cancelling a reader first ends the read it has outstanding, and the     *)
(* pull that waits for it finds the end of the stream.                     *)
PendingReadEnds ==
  /\ pc = "cancelled" /\ pull
  /\ pull' = FALSE
  /\ span' = "completed"
  /\ UNCHANGED <<pc, attempt, scope, watchdog, body, fault>>

(* Then the cancellation itself settles.                                   *)
CancelSettles ==
  /\ pc = "cancelled" /\ ~pull /\ span = "open"
  /\ span' = "failed"
  /\ UNCHANGED <<pc, attempt, scope, watchdog, body, fault, pull>>

Next ==
  \/ AnswerError \/ PostResponses \/ Rejected \/ RecoveryFails \/ PostFails
  \/ PostSucceeds \/ Interrupt
  \/ WatchdogCloses \/ ClaimBody \/ ClaimTooLate
  \/ UpstreamWrites \/ ReadChunk \/ BodyEnds \/ BodyFails
  \/ Pull \/ ReadEnd \/ Cancel \/ PendingReadEnds \/ CancelSettles

(* Requests and watchdogs run on timers; the host reads the response or    *)
(* gives it up, but may leave it only between the two.                     *)
Fairness ==
  /\ WF_vars(PostResponses \/ AnswerError \/ RecoveryFails)
  /\ WF_vars(PostFails \/ Rejected \/ PostSucceeds)
  /\ WF_vars(WatchdogCloses)
  /\ WF_vars(ClaimBody \/ ClaimTooLate)
  /\ WF_vars(BodyFails \/ BodyEnds \/ ReadChunk)
  /\ WF_vars(Pull \/ Cancel)
  /\ WF_vars(PendingReadEnds \/ CancelSettles \/ ReadEnd)

Spec == Init /\ [][Next]_vars

FairSpec == Spec /\ Fairness
-----------------------------------------------------------------------------
(* Properties.                                                             *)

Settled == IF wire # <<>> /\ Last(wire).kind = "cr" THEN Front(wire) ELSE wire

DecoderFaults ==
  {"badBytes", "incompleteLine", "incompleteEvent", "undecodable", "doneOutOfOrder",
   "afterCompletion", "outOfOrder", "callRepeated", "argumentsEarly",
   "reportedFailure", "endedEarly"}

(* What the client gets does not depend on how the bytes were cut (the     *)
(* carried state of splitSseBytes): while the body is read it has got      *)
(* everything that has arrived whole, and never anything else.             *)
CutsDoNotMatter ==
  \A expected \in {WholeMapper(IF pc = "reading" THEN Settled ELSE wire).chunks} :
    CASE pc = "reading" -> out = expected
      [] pc \in {"finished", "closed"} -> Front(out) = expected
      [] OTHER -> IsPrefix(SelectSeq(out, LAMBDA c : c[1] # "finish"), expected)

(* Nor does the verdict: a stream that finishes had a whole body, and one  *)
(* the decoder refused had none, in whatever chunks it came.               *)
VerdictsAreTheBodys ==
  /\ pc \in {"finished", "closed"} => Whole(wire)
  /\ fault \in DecoderFaults => ~Whole(wire)
  /\ fault \in DecoderFaults \ {"incompleteLine", "incompleteEvent", "endedEarly"} => Broken(wire)

(* The finish chunk, after which a client acts on the tool calls it got,   *)
(* comes once and last, after response.completed and the whole numbered    *)
(* sequence of events before it.                                           *)
FinishIsEarned ==
  \A i \in DOMAIN out : out[i][1] = "finish" =>
    \A numbered \in {SelectSeq(WholeEvents(wire), LAMBDA e : e.type # "done")} :
       /\ i = Len(out)
       /\ \A k \in DOMAIN numbered : numbered[k].seq = k - 1
       /\ \A k \in DOMAIN numbered : numbered[k].type = "completed" <=> k = Len(numbered)
       /\ out[i][2] = 1 <=> \E k \in DOMAIN numbered : numbered[k].type = "call"

(* Every response is let go: read to its end, failed, cancelled, or never  *)
(* claimed and closed by the watchdog.                                     *)
EveryBodyIsReleased == \A a \in 1..2 : scope[a] = "open" ~> scope[a] = "closed"
=============================================================================
