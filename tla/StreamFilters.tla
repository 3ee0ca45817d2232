---------------------------- MODULE StreamFilters ----------------------------
(***************************************************************************)
(* The filters of utility/filteredStream.cpp.  Each keeps a character or   *)
(* two between calls, so that what it replaces may be cut anywhere.        *)
(***************************************************************************)
EXTENDS ByteStreams

CONSTANTS
  FilterTexts,  \* what goes through the filters
  SplitAtDots   \* may a piece end between a dot and a line break?

\* Streams carry bytes.
ASSUME FilterTextsAssumption == FilterTexts \subseteq Seq(Byte) /\ SplitAtDots \in BOOLEAN

Filters == {"dot output", "dot input", "CRLF to LF", "LF to CRLF"}

FilterInit ==
  /\ job \in [kind : Filters] /\ text \in FilterTexts
  /\ at = 0 /\ output = <<>>
  /\ worker = [previous2 |-> 0, previous1 |-> 0, start |-> TRUE]

Before(data, i) == IF i = 1 THEN worker.previous1 ELSE data[i - 1]
NewLineAt(data, i) == i \in DOMAIN data /\ data[i] \in {CR, LF}

\* A dot is doubled after LF, and at the start of the content before a line
\* break.  When the last piece ended in a dot and this one starts with a line
\* break, a dot and that character are written ahead of the whole piece.
DotStuffed(data) ==
  LET doubled(i) ==
        data[i] = DOT /\ (Before(data, i) = LF \/ (i = 1 /\ worker.start /\ NewLineAt(data, 2)))
      late == IF worker.previous1 = DOT /\ NewLineAt(data, 1) THEN <<DOT, data[1]>> ELSE <<>>
  IN late \o FlattenSeq([i \in DOMAIN data |-> IF doubled(i) THEN <<DOT, DOT>> ELSE <<data[i]>>])

\* Slip: a dot at the head of a piece counts as one in mid-line.
DotUnstuffed_ForgetsPiece(data) ==
  FlattenSeq([i \in DOMAIN data |->
    IF i > 2 /\ data[i] = DOT /\ data[i - 1] = DOT /\ data[i - 2] = LF THEN <<>> ELSE <<data[i]>>])

\* The second dot after LF is dropped.
DotUnstuffed(data) ==
  LET all == <<worker.previous2, worker.previous1>> \o data IN
  FlattenSeq([i \in DOMAIN data |->
    IF data[i] = DOT /\ all[i + 1] = DOT /\ all[i] = LF THEN <<>> ELSE <<data[i]>>])

\* CR is dropped before LF; at the end of a piece it is held back, and written
\* by the next piece unless that starts with LF.
LFOnly(data) ==
  (IF worker.previous1 = CR /\ data[1] # LF THEN <<CR>> ELSE <<>>) \o
  FlattenSeq([i \in DOMAIN data |->
    IF data[i] = CR /\ (i = Len(data) \/ data[i + 1] = LF) THEN <<>> ELSE <<data[i]>>])

\* CR becomes CR LF, and so does LF unless it comes after CR.
CRLFOnly(data) ==
  FlattenSeq([i \in DOMAIN data |->
    IF data[i] = LF /\ Before(data, i) = CR THEN <<>>
    ELSE IF data[i] \in {CR, LF} THEN CRLF ELSE <<data[i]>>])

Filtered(n, written) ==
  /\ output' = output \o written /\ at' = at + n
  /\ worker' = [previous2 |-> Before(Piece(n), n), previous1 |-> text[at + n], start |-> FALSE]
  /\ UNCHANGED <<job, text>>

SplitsDot(n) == text[at + n] = DOT /\ NewLineAt(text, at + n + 1)

writeDotFiltered == job.kind = "dot output" /\ \E n \in Sizes :
  (SplitAtDots \/ ~SplitsDot(n)) /\ Filtered(n, DotStuffed(Piece(n)))
readDotFiltered == job.kind = "dot input" /\ \E n \in Sizes : Filtered(n, DotUnstuffed(Piece(n)))
writeCRLFToLF == job.kind = "CRLF to LF" /\ \E n \in Sizes : Filtered(n, LFOnly(Piece(n)))
writeLFToCRLF == job.kind = "LF to CRLF" /\ \E n \in Sizes : Filtered(n, CRLFOnly(Piece(n)))

FilterNext == writeDotFiltered \/ readDotFiltered \/ writeCRLFToLF \/ writeLFToCRLF

-----------------------------------------------------------------------------
(* What filtering all that was read at once would give: what each character
   of s becomes, and all of them. *)
Whole(kind, s, i) ==
  LET is(j, c) == j \in DOMAIN s /\ s[j] = c
  IN CASE kind = "dot output" ->
            IF is(i, DOT) /\ (is(i - 1, LF) \/ (i = 1 /\ (is(2, CR) \/ is(2, LF)))) THEN <<DOT, DOT>> ELSE <<s[i]>>
       [] kind = "dot input" -> IF is(i, DOT) /\ is(i - 1, DOT) /\ is(i - 2, LF) THEN <<>> ELSE <<s[i]>>
       [] kind = "CRLF to LF" -> IF is(i, CR) /\ is(i + 1, LF) THEN <<>> ELSE <<s[i]>>
       [] kind = "LF to CRLF" ->
            IF is(i, CR) THEN CRLF ELSE IF ~is(i, LF) THEN <<s[i]>> ELSE IF is(i - 1, CR) THEN <<>> ELSE CRLF

WholeFiltered(kind, s) == FlattenSeq([i \in DOMAIN s |-> Whole(kind, s, i)])
=============================================================================
