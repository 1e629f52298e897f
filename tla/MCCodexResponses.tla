--------------------------- MODULE MCCodexResponses ---------------------------
(***************************************************************************)
(* CodexResponses with an upstream that writes the frames below.           *)
(***************************************************************************)
EXTENDS CodexResponses

Mark(kind) == <<[kind |-> kind]>>

Event(type, index) ==
  <<[kind |-> "event", event |-> [type |-> type, seq |-> 0, index |-> index]]>>

Data(type, index) == Mark("data") \o Event(type, index)

LF == Mark("lf")
CR == Mark("cr")
CRLF == CR \o LF

(* One event, in each of the ways a line may end.                          *)
Ended(line) == {line \o LF \o LF, line \o CRLF \o CRLF, line \o CR \o CR}

MCFrame ==
  UNION {Ended(Data("text", 0)), Ended(Data("completed", 0))}
    \cup {Data(e[1], e[2]) \o LF \o LF :
            e \in {<<"call", 0>>, <<"call", 1>>, <<"arguments", 0>>, <<"arguments", 1>>,
                   <<"failed", 0>>, <<"done", 0>>}}
    \cup {Mark("bom") \o Data("text", 0) \o CRLF \o CR,
          Mark("other") \o LF,
          Mark("bad") \o LF,
          Data("ignored", 0) \o LF \o LF,
          Mark("data") \o Mark("other") \o LF \o LF,
          Data("text", 0) \o CRLF \o Data("text", 0) \o LF \o LF,
          Data("text", 0) \o LF \o LF \o Data("text", 0) \o LF \o LF,
          Data("text", 0) \o Mark("other") \o Mark("other") \o Mark("other") \o LF}
=============================================================================
