--------------------------- MODULE ContentEncoders ---------------------------
(***************************************************************************)
(* The encoders of utility/encoder: base64, quoted-printable, uuencode.    *)
(* A job encodes its text, then decodes what came out of that.             *)
(***************************************************************************)
EXTENDS ByteStreams

CONSTANTS
  Binaries,     \* texts for base64 and uuencode
  Printables,   \* texts for quoted-printable
  LineLengths,  \* values of the property "maxlinelength"
  UULineLengths \* the same for uuencode, which takes 46 for more

\* A limit of zero is not one: encodeQP takes one from it, and has no sign. With one,
\* encodeUU would read lines of no bytes for ever.
ASSUME EncoderAssumption ==
  /\ Binaries \subseteq Seq(Byte) /\ Printables \subseteq Seq(Byte)
  /\ LineLengths \subseteq Nat \ {0} /\ UULineLengths \subseteq 2 .. 46

NoLimit == -1  \* the property is not set
cutLines == job.maxLineLength # NoLimit
LineLimit(most) == Min({job.maxLineLength, most})

\* phase; input bytes not used yet; the column; what the encoder wrote
Fresh == [phase |-> "encode", carry |-> <<>>, column |-> 0, encoded |-> <<>>]
Begin == <<98, 101, 103, 105, 110>> \o CRLF
End == <<101, 110, 100>> \o CRLF

EncoderInit ==
  /\ at = 0 /\ worker = Fresh
  /\ \/ /\ job \in [kind : {"base64"}, maxLineLength : LineLengths \cup {NoLimit}]
        /\ text \in Binaries /\ output = <<>>
     \/ /\ job \in [kind : {"quoted-printable"}, mode : {"binary", "text", "rfc2047"},
                    maxLineLength : LineLengths \cup {NoLimit}]
        /\ text \in Printables /\ output = <<>>
     \/ /\ job \in [kind : {"uuencode"}, maxLineLength : UULineLengths]
        /\ text \in Binaries /\ output = Begin

Encoding(kind) == job.kind = kind /\ worker.phase = "encode"
Decoding(kind) == job.kind = kind /\ worker.phase = "decode"
Encodes(n, written, carry, column) ==
  /\ at' = at + n /\ output' = output \o written
  /\ worker' = [worker EXCEPT !.carry = carry, !.column = column]
  /\ UNCHANGED <<job, text>>

\* The decoder is given what the encoder has written.
ThenDecode(written) ==
  /\ AllRead
  /\ worker' = [Fresh EXCEPT !.phase = "decode", !.encoded = output \o written]
  /\ at' = 0 /\ output' = <<>> /\ UNCHANGED <<job, text>>

ToDecode == 1 .. Min({Len(worker.encoded) - at, MaxPiece})
Decodes(n, decoded, carry) ==
  /\ at' = at + n /\ output' = decoded
  /\ worker' = [worker EXCEPT !.carry = carry]
  /\ UNCHANGED <<job, text>>

Decoded ==
  /\ worker' = [worker EXCEPT !.phase = "done"]
  /\ UNCHANGED <<job, text, at, output>>

-----------------------------------------------------------------------------
(* Base64: three bytes are four letters of an alphabet of 64. *)

Letter == [s \in 0 .. 63 |->
  IF s < 26 THEN 65 + s ELSE IF s < 52 THEN 71 + s ELSE IF s < 62 THEN s - 4 ELSE IF s = 62 THEN 43 ELSE 47]
LetterValue == [c \in {Letter[s] : s \in 0 .. 63} |-> CHOOSE s \in 0 .. 63 : Letter[s] = c]

\* The next three bytes or, at the end, one or two.
Letters(bytes) ==
  LET byte(i) == IF i <= Len(bytes) THEN bytes[i] ELSE 0
      all == 65536 * byte(1) + 256 * byte(2) + byte(3)
      letter(s, i) == IF i <= Len(bytes) + 1 THEN Letter[s % 64] ELSE EQUALS
  IN <<letter(all \div 262144, 1), letter(all \div 4096, 2), letter(all \div 64, 3), letter(all, 4)>>

\* A line ends when the next four letters and its end would not fit.
EndsLine(column) == cutLines /\ column + 2 + 4 >= LineLimit(76)

AddGroup(s, letters) ==
  IF EndsLine(s.column + 4) THEN [out |-> s.out \o letters \o CRLF, column |-> 0]
  ELSE [out |-> s.out \o letters, column |-> s.column + 4]

Base64Lines(bytes, start) ==
  LET groups == (Len(bytes) + 2) \div 3
      group(i) == Letters(SubSeq(bytes, 3 * i - 2, Min({3 * i, Len(bytes)})))
      after[i \in 0 .. groups] ==
        IF i = 0 THEN [out |-> <<>>, column |-> start] ELSE AddGroup(after[i - 1], group(i))
  IN after[groups]

\* Slip: what is left of a piece is not put before the next.
encodeBase64_ForgetsCarry == Encoding("base64") /\ \E n \in Sizes :
  LET bytes == Piece(n)
      whole == Len(bytes) - (Len(bytes) % 3)
      lines == Base64Lines(SubSeq(bytes, 1, whole), worker.column)
  IN Encodes(n, lines.out, SubSeq(bytes, whole + 1, Len(bytes)), lines.column)

encodeBase64 == Encoding("base64") /\ \E n \in Sizes :
  LET bytes == worker.carry \o Piece(n)
      whole == Len(bytes) - (Len(bytes) % 3)
      lines == Base64Lines(SubSeq(bytes, 1, whole), worker.column)
  IN Encodes(n, lines.out, SubSeq(bytes, whole + 1, Len(bytes)), lines.column)

endBase64 == Encoding("base64") /\ ThenDecode(Base64Lines(worker.carry, worker.column).out)

Bytes(letters) ==
  LET value(i) == IF letters[i] = EQUALS THEN 0 ELSE LetterValue[letters[i]]
      all == 262144 * value(1) + 4096 * value(2) + 64 * value(3) + value(4)
      count == IF letters[3] = EQUALS THEN 1 ELSE IF letters[4] = EQUALS THEN 2 ELSE 3
  IN SubSeq(<<all \div 65536, (all \div 256) % 256, all % 256>>, 1, count)

\* White space is skipped; carry is less than four letters.
DecodeLetter(s, c) ==
  IF c \in {CR, LF} THEN s
  ELSE IF Len(s.carry) < 3 THEN [s EXCEPT !.carry = Append(@, c)]
  ELSE [out |-> s.out \o Bytes(Append(s.carry, c)), carry |-> <<>>]

-----------------------------------------------------------------------------
(* Quoted-printable. *)

Hex(c) == LET digit(v) == IF v < 10 THEN 48 + v ELSE 55 + v IN <<EQUALS, digit(c \div 16), digit(c % 16)>>
HexValue(c) == IF c < 65 THEN c - 48 ELSE c - 55

\* rfc2047: the characters that need no encoding in an encoded word.
Plain == {33, 42, 43, 45, 47} \cup (48 .. 57) \cup (65 .. 90) \cup (97 .. 122)
NoByte == -1

\* Is this byte written in hexadecimal, given the next one and the column?
Encoded(c, next, column) ==
  \/ c = DOT /\ column = 0
  \/ c = SPACE /\ next \in {CR, LF, NoByte}
  \/ c \in {CR, LF} /\ job.mode # "text"
  \/ c \notin (33 .. 126) \cup {SPACE, CR, LF}
  \/ c \in {EQUALS, 63}

\* Slip: a space is written as it is when the piece ends with it.
AddByte_NoLookAhead(s, c, next) ==
  LET hex == Encoded(c, IF next = NoByte THEN DOT ELSE next, s.column)
      column == IF hex THEN s.column + 3 ELSE IF c = LF THEN 0 ELSE s.column + 1
      out == s.out \o (IF hex THEN Hex(c) ELSE <<c>>)
  IN IF job.mode = "rfc2047" THEN [s EXCEPT !.out = @ \o (IF c \in Plain THEN <<c>> ELSE Hex(c))]
     ELSE IF cutLines /\ column >= LineLimit(74) - 1 THEN [out |-> out \o <<EQUALS>> \o CRLF, column |-> 0]
     ELSE [out |-> out, column |-> column]

AddByte(s, c, next) ==
  IF job.mode = "rfc2047"
  THEN [s EXCEPT !.out = @ \o (IF c = SPACE THEN <<95>> ELSE IF c \in Plain THEN <<c>> ELSE Hex(c))]
  ELSE
  LET hex == Encoded(c, next, s.column)
      column == IF hex THEN s.column + 3 ELSE IF c = LF THEN 0 ELSE s.column + 1
      out == s.out \o (IF hex THEN Hex(c) ELSE <<c>>)
      leadingDot == c = DOT /\ s.column = 0   \* goes on without a look at the line length
  IN IF cutLines /\ column >= LineLimit(74) - 1 /\ ~leadingDot
     THEN [out |-> out \o <<EQUALS>> \o CRLF, column |-> 0]
     ELSE [out |-> out, column |-> column]

QPLines(bytes, next) ==
  LET following(i) == IF i < Len(bytes) THEN bytes[i + 1] ELSE next
      after[i \in 0 .. Len(bytes)] ==
        IF i = 0 THEN [out |-> <<>>, column |-> worker.column] ELSE AddByte(after[i - 1], bytes[i], following(i))
  IN after[Len(bytes)]

\* A space at the end of a piece waits for the byte after it.
encodeQP == Encoding("quoted-printable") /\ \E n \in Sizes :
  LET bytes == worker.carry \o Piece(n)
      waits == Last(bytes) = SPACE
      lines == QPLines(IF waits THEN Front(bytes) ELSE bytes, SPACE)
  IN Encodes(n, lines.out, IF waits THEN <<SPACE>> ELSE <<>>, lines.column)

endQP == Encoding("quoted-printable") /\ ThenDecode(QPLines(worker.carry, NoByte).out)

\* carry is what follows an equals sign, up to the last byte of it.
DecodeByte(s, c) ==
  IF s.carry = <<>> THEN
    IF c = EQUALS THEN [s EXCEPT !.carry = <<c>>]
    ELSE [s EXCEPT !.out = Append(@, IF c = 95 /\ job.mode = "rfc2047" THEN SPACE ELSE c)]
  ELSE IF Len(s.carry) = 1 THEN IF c = LF THEN [s EXCEPT !.carry = <<>>] ELSE [s EXCEPT !.carry = Append(@, c)]
  ELSE IF s.carry[2] = CR THEN [s EXCEPT !.carry = <<>>]
  ELSE [out |-> Append(s.out, 16 * HexValue(s.carry[2]) + HexValue(c)), carry |-> <<>>]

-----------------------------------------------------------------------------
(* Both decoders go on byte by byte. *)

DecodeNext(s, c) == IF job.kind = "base64" THEN DecodeLetter(s, c) ELSE DecodeByte(s, c)

\* What four letters stand for, and an escape, may be cut anywhere.
DecodedAfter(n) ==
  LET after[i \in 0 .. n] ==
        IF i = 0 THEN [out |-> output, carry |-> worker.carry] ELSE DecodeNext(after[i - 1], worker.encoded[at + i])
  IN after[n]

decodeBase64 == Decoding("base64") /\ \E n \in ToDecode : Decodes(n, DecodedAfter(n).out, DecodedAfter(n).carry)
decodeQP == Decoding("quoted-printable") /\ \E n \in ToDecode : Decodes(n, DecodedAfter(n).out, DecodedAfter(n).carry)

endDecode ==
  /\ job.kind \in {"base64", "quoted-printable"} /\ worker.phase = "decode"
  /\ at = Len(worker.encoded) /\ Decoded

-----------------------------------------------------------------------------
(* Uuencode: a line is its length and, for each three bytes, four characters. *)

UU(v) == (v % 64) + SPACE
UUValue(c) == (c - SPACE) % 64

UULine(data) ==
  LET byte(i) == IF i <= Len(data) THEN data[i] ELSE 0
      three(g) == 65536 * byte(3 * g + 1) + 256 * byte(3 * g + 2) + byte(3 * g + 3)
      sixBits(k) == three((k - 1) \div 4) \div (CASE k % 4 = 1 -> 262144 [] k % 4 = 2 -> 4096 [] k % 4 = 3 -> 64 [] OTHER -> 1)
  IN <<UU(Len(data))>> \o [k \in 1 .. 4 * ((Len(data) + 2) \div 3) |-> UU(sixBits(k))] \o CRLF

\* The encoder asks for a line of bytes at a time, and is given as many as there are.
encodeUU == Encoding("uuencode") /\ ~AllRead /\
  LET n == Min({job.maxLineLength - 1, Len(text) - at}) IN Encodes(n, UULine(Piece(n)), <<>>, 0)

endUU == Encoding("uuencode") /\ ThenDecode(End)

\* A line of data: the characters of its bytes are read, and others are 0.
UUData(length, chars) ==
  LET value(i) == UUValue(IF i <= Len(chars) THEN chars[i] ELSE 0)
      byte(k) == LET c == 4 * ((k - 1) \div 3) + ((k - 1) % 3) + 1 IN
        CASE k % 3 = 1 -> (4 * value(c) + (value(c + 1) \div 16)) % 256
          [] k % 3 = 2 -> (16 * value(c) + (value(c + 1) \div 4)) % 256
          [] OTHER -> (64 * value(c) + value(c + 1)) % 256
  IN [k \in 1 .. length |-> byte(k)]

\* Each turn of the decoder's loop: the prelude, "end", white space, or data.
decodeUU == Decoding("uuencode") /\
  LET rest == SubSeq(worker.encoded, at + 1, Len(worker.encoded))
      length == UUValue(Head(rest))
      count == Min({(4 * length) \div 3, 64})
  IN IF rest = <<>> THEN Decoded
     ELSE IF Head(rest) \in {SPACE, TAB, CR, LF} THEN Decodes(1, output, <<>>)
     ELSE IF IsPrefix(Front(Begin), rest) THEN Decodes(Len(Begin), output, <<>>)
     ELSE IF IsPrefix(Front(End), rest) \/ 1 + count > Len(rest) THEN Decoded
     ELSE Decodes(1 + count, output \o UUData(length, SubSeq(rest, 2, 1 + count)), <<>>)

EncoderNext ==
  \/ encodeBase64 \/ endBase64 \/ decodeBase64
  \/ encodeQP \/ endQP \/ decodeQP \/ endDecode
  \/ encodeUU \/ endUU \/ decodeUU

-----------------------------------------------------------------------------
(* getEncodedSize of the three classes. *)
getEncodedSize(n) ==
  LET lineEnds(most) == IF cutLines THEN 2 * (n \div LineLimit(most)) ELSE 0
  IN CASE job.kind = "base64" -> (4 * n) \div 3 + lineEnds(76) + 4
       [] job.kind = "quoted-printable" -> 3 * n + lineEnds(74)
       [] OTHER -> 200 + 3 * n + 2 * (n \div 45)
=============================================================================
