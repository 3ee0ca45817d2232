-------------------------------- MODULE Texts --------------------------------
(***************************************************************************)
(* The jobs on texts, one per behaviour, and what each must come to        *)
(* whatever the pieces that its stream delivers.                           *)
(***************************************************************************)
EXTENDS POP3Reply, ContentEncoders, MimeBody, MessageSets

Init == FilterInit \/ ReplyInit \/ EncoderInit \/ SearchInit \/ BodyInit \/ SetInit
Next == FilterNext \/ ReplyNext \/ EncoderNext \/ SearchNext \/ BodyNext \/ SetNext

Spec == Init /\ [][Next]_streamVars
\* Streams deliver what they have and time-outs happen, so the loops that wait
\* for the end of a stream, or search from place to place, go on.
FairSpec ==
  Spec /\ WF_streamVars(ReplyNext) /\ WF_streamVars(SearchNext) /\ WF_streamVars(BodyNext) /\ WF_streamVars(SetNext)

-----------------------------------------------------------------------------
HeldCR == IF job.kind = "CRLF to LF" /\ worker.previous1 = CR THEN <<CR>> ELSE <<>>

\* Wherever the input was cut, a filter has written what it would have made of
\* all of it at once; only a CR at the end may be held back. For dots it holds
\* when no piece ends between a dot and a line break (filteredStream.cpp).
FilteredAsWhole ==
  job.kind \in Filters => output \o HeldCR = WholeFiltered(job.kind, SubSeq(text, 1, at))

\* The dot filter doubles the dots that it is documented to double and writes
\* everything else once, wherever its input is cut (dotFilteredOutputStream).
DotsDoubled ==
  job.kind = "dot output" => output = WholeFiltered(job.kind, SubSeq(text, 1, at))

\* RETR gives the caller the lines of the message, without the last line end,
\* and ends without a time-out; a refusal never passes for a message
\* (POP3Response::readLargeResponse and its three filters).
ContentIsMessage ==
  job.kind = "reply" =>
    LET message == Lines(job.message) IN
    /\ IsPrefix(output, message)
    /\ worker.outcome = "done" => job.accepted /\ output = SubSeq(message, 1, Len(message) - 2)
    /\ job.accepted => worker.outcome \in {"reading", "done"}

\* Decoding gives the text that was encoded, however both streams are cut. For
\* uuencode it holds when every line has a multiple of three bytes.
RoundTrip ==
  job.kind \in {"base64", "quoted-printable", "uuencode"} /\ worker.phase = "done"
    /\ (job.kind = "uuencode" => Len(text) % 3 = 0 /\ job.maxLineLength % 3 = 1) =>
  output = text

\* There is no room for "=2E=3D=" in fewer than five characters, and two more.
KeepsLines == cutLines /\ job.maxLineLength >= 5 /\ (job.kind = "base64" \/ job.mode # "rfc2047")
OneLine(s, i, j) == \A k \in i .. j : s[k] \notin {CR, LF}

\* What is encoded can be mailed: no line is longer than asked for (by two, in
\* quoted-printable), none starts with a dot or ends in a space, and without a
\* limit on lines the size was estimated high enough (encode, getEncodedSize).
EncodedFits ==
  job.kind \in {"base64", "quoted-printable"} /\ worker.phase = "decode" =>
    LET s == worker.encoded IN
    /\ KeepsLines =>
         \A i, j \in DOMAIN s : OneLine(s, i, j) => j - i + 1 <= job.maxLineLength + (IF job.kind = "base64" THEN 0 ELSE 2)
    /\ \A i \in DOMAIN s :
         /\ s[i] = DOT => i > 1 /\ s[i - 1] # LF
         /\ s[i] = SPACE => i < Len(s) /\ s[i + 1] \notin {CR, LF}
    /\ ~cutLines => Len(s) <= getEncodedSize(Len(text))

\* A search finds the first place of the token; if there is none, it says so,
\* or names a place that runs over the end of a file (findNext).
FindsFirst ==
  job.kind = "find" /\ worker.result # Searching =>
    LET first == firstAt(job.token, text, job.start) IN
    IF first # npos THEN worker.result = first
    ELSE worker.result = npos \/ (job.file /\ worker.result + Len(job.token) > Len(text))

\* Without its end the last part is not always seen: it is taken for the epilog
\* when it is empty or when the search stops at the boundary in its last line.
CanRecover == Last(job.parts) # <<>> /\ Positions(job.boundary, Last(job.parts)) = {}

\* A generated body is taken apart into what it was made of, also when a gateway
\* has padded its delimiters or its end has been cut off, and though its prolog and
\* epilog have been folded (body::parseImpl after body::generateImpl).
PartsSurvive ==
  job.kind = "body" /\ worker.phase \in {"done", "simple"} /\ (job.closed \/ CanRecover) =>
    /\ worker.phase = "done" /\ output = job.parts
    /\ worker.prolog = job.prolog /\ worker.epilog = job.epilog

\* A set made from a list names what is in the list and nothing else, in the
\* fewest ranges and in order; a list with no message number is refused
\* (messageSet::byNumber, byUID).
RangesAreTheSet ==
  BuildingSet =>
    /\ worker.outcome = "invalid" => job.kind = "numbers" /\ (text = <<>> \/ 0 \in ToSet(text))
    /\ worker.outcome = "built" /\ text # <<>> =>
         /\ UNION {output[i].first .. output[i].last : i \in DOMAIN output} = ToSet(text)
         /\ NotNumeric \notin ToSet(text) =>
              \A i \in 1 .. Len(output) - 1 : output[i].last + 1 < output[i + 1].first

Finished ==
  CASE job.kind = "reply" -> worker.outcome # "reading"
    [] job.kind = "find" -> worker.result # Searching
    [] job.kind = "body" -> worker.phase \in {"done", "simple"}
    [] BuildingSet -> worker.outcome \in {"built", "invalid"}
    [] OTHER -> TRUE  \* filters and encoders end with their input

\* Every loop ends that reads until a stream says that it is at its end, or goes
\* on from each place that was found (readLargeResponse, findNext, parseImpl).
JobsEnd == <>Finished
=============================================================================
