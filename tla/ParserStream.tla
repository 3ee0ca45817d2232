---------------------------- MODULE ParserStream ----------------------------
(***************************************************************************)
(* parserInputStreamAdapter: the search for a token with a buffer of two   *)
(* halves, the second of which becomes the first when more is read.        *)
(***************************************************************************)
EXTENDS ByteStreams

CONSTANTS
  SearchTexts, Tokens,
  MaxStart,   \* searches begin at a position up to this one
  HalfBuffer  \* BUFFER_SIZE / 2
ASSUME SearchAssumption ==
  /\ HalfBuffer \in Nat \ {0} /\ MaxStart \in Nat
  /\ SearchTexts \subseteq Seq(Byte) /\ Tokens \subseteq Seq(Byte)
  /\ \A t \in Tokens : Len(t) \in 1 .. HalfBuffer

npos == -1
Searching == -2

\* Strings know at once that they are at their end; a POSIX file only after a
\* read has returned nothing, and then it does not forget it (eof).
SearchInit ==
  /\ job \in [kind : {"find"}, token : Tokens, start : 0 .. MaxStart, file : BOOLEAN]
  /\ text \in SearchTexts /\ job.start <= Len(text)
  /\ at = job.start /\ output = <<>>
  /\ worker \in [window : {<<>>}, offset : {0}, filled : {FALSE}, isEOF : {FALSE},
                 eof : IF job.file THEN BOOLEAN ELSE {FALSE}, result : {Searching}]

\* Where the token is in a text, from 0.
Positions(token, s) == {i \in 0 .. Len(s) - Len(token) : SubSeq(s, i + 1, i + Len(token)) = token}

\* The first place of a token from a position on: what findNext promises.
firstAt(token, s, start) ==
  LET places == {i \in Positions(token, s) : i >= start} IN IF places = {} THEN npos ELSE Min(places)

\* A read of up to this many bytes, and what the stream knows afterwards.
Available(count) == SubSeq(text, at + 1, Min({at + count, Len(text)}))
Read(bytes) == at' = at + Len(bytes) /\ UNCHANGED <<job, text, output>>
EofAfter(bytes) == worker.eof \/ (job.file /\ bytes = <<>>)
streamEof == IF job.file THEN worker.eof ELSE AllRead

fillBuffer ==
  /\ job.kind = "find" /\ ~worker.filled
  /\ LET bytes == Available(2 * HalfBuffer) IN
     /\ Read(bytes)
     /\ worker' = [worker EXCEPT !.window = bytes, !.filled = TRUE, !.eof = EofAfter(bytes),
                     !.result = IF bytes = <<>> THEN npos ELSE Searching]

SearchingOn == job.kind = "find" /\ worker.filled /\ worker.result = Searching

\* Slip: the last place in the buffer is not looked at.
found_NotLast == LET w == worker.window IN
  IF w = <<>> THEN {} ELSE Positions(job.token, Front(w))

\* The places of the token in what the buffer holds.
found == Positions(job.token, worker.window)

findToken ==
  /\ SearchingOn /\ found # {}
  /\ worker' = [worker EXCEPT !.result = job.start + worker.offset + Min(found)]
  /\ UNCHANGED <<job, text, at, output>>

LastWindow == Len(worker.window) < 2 * HalfBuffer /\ (streamEof \/ worker.isEOF)

\* The second half of the buffer, of which only a part may have been read:
\* the rest is whatever is there.
SecondHalf(rest) == SubSeq(worker.window, HalfBuffer + 1, Len(worker.window)) \o rest
Unread == HalfBuffer - Max({Len(worker.window) - HalfBuffer, 0})

rotateBuffer ==
  /\ SearchingOn /\ found = {} /\ ~LastWindow
  /\ \E rest \in [1 .. Unread -> UNION {ToSet(t) : t \in Tokens}] :
       LET bytes == Available(HalfBuffer) IN
       /\ Read(bytes)
       /\ worker' = [worker EXCEPT !.window = SecondHalf(rest) \o bytes, !.offset = @ + HalfBuffer,
                       !.isEOF = @ \/ bytes = <<>>, !.eof = EofAfter(bytes)]

notFound ==
  /\ SearchingOn /\ found = {} /\ LastWindow
  /\ worker' = [worker EXCEPT !.result = npos]
  /\ UNCHANGED <<job, text, at, output>>

SearchNext == fillBuffer \/ findToken \/ rotateBuffer \/ notFound
=============================================================================
