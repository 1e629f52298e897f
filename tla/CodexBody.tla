------------------------------ MODULE CodexBody -------------------------------
(***************************************************************************)
(* What a body of server-sent events says, read as a whole: the reference  *)
(* that the incremental decoder is compared with.  It knows no chunks, no  *)
(* pending state and no limits.                                            *)
(***************************************************************************)
EXTENDS CodexStreamEvents, SequencesExt

(* A line ends with a line feed, or with a carriage return that none       *)
(* follows.                                                                *)
LineEnds(w) ==
  {i \in DOMAIN w : \/ w[i].kind = "lf"
                    \/ w[i].kind = "cr" /\ (i = Len(w) \/ w[i + 1].kind # "lf")}

Content(w) == SelectSeq(w, LAMBDA b : b.kind \notin {"cr", "lf"})

(* A function on 1..n, written out as a sequence.                          *)
Listed(f) == <<>> \o f

(* The elements of a set of positions in their order.                      *)
InOrder(S) ==
  Listed([k \in 1..Cardinality(S) |-> CHOOSE i \in S : Cardinality({j \in S : j <= i}) = k])

(* The pieces of a sequence that end at the given positions.               *)
Pieces(s, ends) ==
  LET at == InOrder(ends)
  IN Listed([k \in DOMAIN at |-> SubSeq(s, IF k = 1 THEN 1 ELSE at[k - 1] + 1, at[k])])

(* The lines that have ended, without the byte order mark of the first.    *)
WholeLines(w) ==
  LET pieces == Pieces(w, LineEnds(w))
      marked == pieces # <<>> /\ Head(pieces[1]).kind = "bom"
  IN Listed([k \in DOMAIN pieces |->
               Content(IF k = 1 /\ marked THEN Tail(pieces[1]) ELSE pieces[k])])

(* The values of the data fields among some lines.                         *)
DataOf(lines) ==
  LET data == SelectSeq(lines, LAMBDA l : l # <<>> /\ Head(l).kind = "data")
  IN Listed([i \in DOMAIN data |-> Tail(data[i])])

(* One payload for each blank line that has data before it.                *)
WholePayloads(w) ==
  LET lines  == WholeLines(w)
      groups == Pieces(lines, {k \in DOMAIN lines : lines[k] = <<>>})
  IN SelectSeq(Listed([k \in DOMAIN groups |-> DataOf(groups[k])]), LAMBDA p : p # <<>>)

WholeEvents(w) ==
  LET payloads == WholePayloads(w)
  IN Listed([k \in DOMAIN payloads |-> DecodeStreamData(payloads[k])])

WholeMapper(w) == Run(AdvanceSequence, FreshMapper, WholeEvents(w))

(* No continuation of such a body is accepted.                             *)
Broken(w) ==
  LET lines == WholeLines(w)
  IN \/ WholeMapper(w).fault # "none"
     \/ \E k \in DOMAIN lines : \E i \in DOMAIN lines[k] : lines[k][i].kind = "bad"

(* A body that may end here: nothing is cut off, and the response is       *)
(* complete.                                                               *)
Whole(w) ==
  LET lines == WholeLines(w)
  IN /\ ~Broken(w)
     /\ w # <<>> /\ Last(w).kind \in {"cr", "lf"}
     /\ Last(lines) = <<>>
     /\ WholeMapper(w).completed
=============================================================================
