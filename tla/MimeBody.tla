------------------------------ MODULE MimeBody ------------------------------
(***************************************************************************)
(* body.cpp: a multipart body is generated from its prolog, parts and      *)
(* epilog, and taken apart again at the lines that bear its boundary.      *)
(* Positions count from 0, as in the code.  A part is what stands between  *)
(* two boundaries; its own header and body are left out.                   *)
(***************************************************************************)
EXTENDS ParserStream

CONSTANTS PartContents, MaxParts, Boundaries, Prologs, Epilogs, Paddings

\* Prologs and epilogs are words with a space between.  When the lines are
\* short, each of the spaces becomes a line break (text::encodeAndFold).
encodeAndFold(words, folds) ==
  FlattenSeq([i \in DOMAIN words |-> IF folds /\ words[i] = SPACE THEN CRLF ELSE <<words[i]>>])
Paragraph(words, folds) == IF words = <<>> THEN <<>> ELSE encodeAndFold(words, folds) \o CRLF

\* generateImpl, for a body with parts.  A gateway may have added white space
\* to the delimiter lines, and the closing one may have been cut off.
Delimiter(boundary, padding) == <<DASH, DASH>> \o boundary \o padding
Generated(body) ==
  Paragraph(body.prolog, body.folds) \o Delimiter(body.boundary, body.padding) \o
  FlattenSeq([i \in DOMAIN body.parts |->
    CRLF \o body.parts[i] \o
      IF i = Len(body.parts) /\ ~body.closed THEN <<>>
      ELSE CRLF \o Delimiter(body.boundary, IF i = Len(body.parts) THEN <<>> ELSE body.padding)]) \o
  (IF ~body.closed THEN <<>>
   ELSE <<DASH, DASH>> \o CRLF \o Paragraph(body.epilog, body.folds))

\* The body comes after the empty line of a header, and another part with the
\* same boundary may come after it.
Position == Len(CRLF)
BodyEnd == Position + Len(Generated(job))
After == IF job.followed THEN CRLF \o Delimiter(job.boundary, <<>>) \o CRLF ELSE <<>>

BodyInit ==
  /\ job \in [kind : {"body"}, prolog : Prologs, parts : SeqOf(PartContents, MaxParts) \ {<<>>},
              epilog : Epilogs, boundary : Boundaries, padding : Paddings,
              hasBoundary : BOOLEAN, closed : BOOLEAN, followed : BOOLEAN, folds : BOOLEAN]
  /\ job.followed => job.closed
  /\ ~job.closed => job.epilog = <<>>
  /\ job.folds => SPACE \in ToSet(job.prolog) \cup ToSet(job.epilog)
  /\ text = CRLF \o Generated(job) \o After
  /\ at = 0 /\ output = <<>>
  /\ worker = [phase |-> "begin", boundary |-> <<>>, pos |-> 0, partStart |-> Position, boundaryStart |-> 0,
               boundaryEnd |-> 0, end |-> BodyEnd, index |-> 0, lastPart |-> FALSE, prolog |-> <<>>, epilog |-> <<>>]

Region(start, end) == SubSeq(text, start + 1, end)
ByteAt(p) == IF p < Len(text) THEN text[p + 1] ELSE 0
MatchAt(p, bytes) == p + Len(bytes) <= Len(text) /\ Region(p, p + Len(bytes)) = bytes
White == {SPACE, TAB}
Space == White \cup {CR, LF}

\* What text::parse keeps of words that are not encoded: no white space in front, and
\* for each line break, with the white space after it, a space before what follows.
Unfolded(bytes) ==
  LET Blank(first, last) == \A i \in first .. last : bytes[i] \in Space
      Breaks(i) == \E j \in 1 .. i : bytes[j] = LF /\ Blank(j, i)
      Drops(i) == Blank(1, i) \/ Breaks(i) \/ (bytes[i] = CR /\ i < Len(bytes) /\ bytes[i + 1] = LF)
  IN FlattenSeq([i \in DOMAIN bytes |->
       IF Drops(i) THEN <<>>
       ELSE IF Breaks(i - 1) /\ ~Blank(1, i - 1) THEN <<SPACE, bytes[i]>> ELSE <<bytes[i]>>])

\* The boundary that is guessed when the header does not tell it: what follows
\* the first two dashes at the beginning of a line, up to the end of the line,
\* without white space around, unless it is too long.
BoundaryLimit == 100
guessStart ==
  LET dashes == firstAt(<<LF, DASH, DASH>>, text, Position)
  IN IF MatchAt(Position, <<DASH, DASH>>) THEN Position + 2 ELSE IF dashes = npos THEN npos ELSE dashes + 3
\* The first byte from p on that is not in a set, within the body.
Skip(p, bytes) == Min({q \in p .. worker.end : q = worker.end \/ ByteAt(q) \notin bytes})
LineAt(p) == Region(p, Min({q \in p .. worker.end : q = worker.end \/ ByteAt(q) \in {CR, LF}}))
Trimmed(line) ==
  LET solid == {i \in DOMAIN line : line[i] \notin White}
  IN IF solid = {} \/ Len(line) >= BoundaryLimit THEN <<>> ELSE SubSeq(line, 1, Max(solid))
guessBoundary ==
  {Trimmed(line) : line \in {IF start = npos THEN <<>> ELSE LineAt(Skip(start, Space)) : start \in {guessStart}}}

\* Slip: a boundary counts anywhere in a line.
IsBoundary_AnyPlace(p, boundary) ==
  p >= 3 /\ MatchAt(p - 2, <<DASH, DASH>>) /\ ByteAt(p + Len(boundary)) \in White \cup {CR, LF, DASH}

\* A boundary counts at the start of a line, after two dashes and before white
\* space or a dash.
IsBoundary(p, boundary) ==
  /\ p >= 3 /\ MatchAt(p - 3, <<LF, DASH, DASH>>)
  /\ ByteAt(p + Len(boundary)) \in White \cup {CR, LF, DASH}

\* The search goes on from place to place until the end of the body; pos is
\* where it stopped, and the bounds change only when it found a boundary.
findNextBoundaryPosition(state, boundary, start) ==
  LET stops == {p \in Positions(boundary, text) :
                  p >= start /\ (IsBoundary(p, boundary) \/ p + 1 >= worker.end)}
      p == Min(stops)
  IN IF start >= worker.end THEN [state EXCEPT !.pos = start]
     ELSE IF stops = {} THEN [state EXCEPT !.pos = npos]
     ELSE IF ~IsBoundary(p, boundary) THEN [state EXCEPT !.pos = p + 1]
     ELSE [state EXCEPT !.pos = p, !.boundaryEnd = p + Len(boundary),
             !.boundaryStart = p - 3 - (IF p >= 4 /\ ByteAt(p - 4) = CR THEN 1 ELSE 0)]

beginParse ==
  /\ job.kind = "body" /\ worker.phase = "begin"
  /\ \E boundary \in IF job.hasBoundary THEN {job.boundary} ELSE guessBoundary :
     worker' = IF boundary = <<>> THEN [worker EXCEPT !.phase = "simple"]
               ELSE [findNextBoundaryPosition([worker EXCEPT !.boundary = boundary], boundary, Position) EXCEPT !.phase = "parts"]
  /\ UNCHANGED <<job, text, at, output>>

MoreParts == worker.phase = "parts" /\ ~worker.lastPart /\ worker.pos # npos /\ worker.pos < worker.end

isLast == worker.boundaryEnd + 1 < worker.end /\ MatchAt(worker.boundaryEnd, <<DASH, DASH>>)
padded == Skip(worker.boundaryEnd + IF isLast THEN 2 ELSE 0, White)
endsLine ==
  IF padded + 1 < worker.end /\ MatchAt(padded, CRLF) THEN padded + 2
  ELSE IF padded < worker.end /\ ByteAt(padded) = LF THEN padded + 1
  ELSE IF padded = worker.end THEN padded ELSE npos

\* Something else stands after the boundary: the line is passed over.
skipJunk ==
  /\ job.kind = "body" /\ MoreParts /\ endsLine = npos
  /\ \E lineEnd \in {Min({q \in padded .. worker.end : q = worker.end \/ ByteAt(q) = LF})} :
       worker' = findNextBoundaryPosition([worker EXCEPT !.lastPart = isLast], worker.boundary, lineEnd)
  /\ UNCHANGED <<job, text, at, output>>

\* What stands before the first boundary is the prolog, before another a part.
nextPart ==
  /\ job.kind = "body" /\ MoreParts
  /\ \E start \in {endsLine} \ {npos} :
       LET first == worker.index = 0
           prolog == IF first THEN Unfolded(Region(worker.partStart, worker.boundaryStart)) ELSE worker.prolog
           part == IF worker.partStart <= worker.boundaryStart THEN Region(worker.partStart, worker.boundaryStart)
                   ELSE Region(worker.boundaryStart, worker.partStart)
           next == [worker EXCEPT !.lastPart = isLast, !.index = @ + 1, !.partStart = start, !.prolog = prolog]
       IN /\ worker' = findNextBoundaryPosition(next, worker.boundary, start)
          /\ output' = IF first THEN output ELSE Append(output, part)
  /\ UNCHANGED <<job, text, at>>

\* Without a closing boundary the rest is a part, else it is the epilog.
endParse ==
  /\ job.kind = "body" /\ worker.phase = "parts" /\ ~MoreParts
  /\ IF ~worker.lastPart /\ worker.pos = npos
     THEN output' = Append(output, Region(worker.partStart, worker.end)) /\ worker' = [worker EXCEPT !.phase = "done"]
     ELSE /\ worker' = [worker EXCEPT !.phase = "done", !.epilog = Unfolded(Region(worker.partStart, worker.end))]
          /\ UNCHANGED output
  /\ UNCHANGED <<job, text, at>>

BodyNext == beginParse \/ skipJunk \/ nextPart \/ endParse
=============================================================================
