-------------------------- MODULE RoundTrip_proofs ---------------------------
(***************************************************************************)
(* What was encoded decodes to the text: base64 and quoted-printable for   *)
(* every text, every way to cut both streams and every limit on lines;     *)
(* uuencode when every line has a multiple of three bytes.                 *)
(***************************************************************************)
EXTENDS Texts_proofs

\* A decoder that has given x and keeps y, and one that goes on with the bytes of e.
Decoder(x, y) == [out |-> x, carry |-> y]
Decodes1(f, e, n) == /\ f[0] = Decoder(<<>>, <<>>)
                     /\ \A i \in 1 .. n : f[i] = DecodeNext(f[i - 1], e[i])
DecodedTo(e, r) ==
  /\ e \in Seq(Byte)
  /\ \E f : Decodes1(f, e, Len(e)) /\ f[Len(e)] = r

\* Nothing decodes to nothing.
LEMMA NothingDecoded == DecodedTo(<<>>, Decoder(<<>>, <<>>))
<1>1. PICK e, r : e = <<>> /\ r = Decoder(<<>>, <<>>)
  OBVIOUS
<1>2. e \in Seq(Byte) /\ Len(e) = 0
  BY <1>1, EmptySeq
<1>3. PICK f : f = [i \in 0 .. 0 |-> r]
  OBVIOUS
<1>4. f[0] = r
  BY <1>3
<1>5. Decodes1(f, e, Len(e)) /\ f[Len(e)] = r
  BY <1>1, <1>2, <1>4 DEF Decodes1
<1> QED
  BY <1>1, <1>2, <1>5 DEF DecodedTo

\* More bytes are decoded.
LEMMA DecodesWord ==
  ASSUME NEW e, NEW r, DecodedTo(e, r), NEW w \in Seq(Byte), NEW m \in Nat, m = Len(w),
         NEW g, g[0] = r, \A i \in 1 .. m : g[i] = DecodeNext(g[i - 1], w[i])
  PROVE  DecodedTo(e \o w, g[m])
<1>1. PICK n, f : n = Len(e) /\ Decodes1(f, e, n) /\ f[n] = r
  BY DEF DecodedTo
<1>2. e \in Seq(Byte) /\ n \in Nat
  BY <1>1, LenProperties DEF DecodedTo
<1>3. PICK t : t = e \o w
  OBVIOUS
<1>4. /\ t \in Seq(Byte) /\ Len(t) = n + m
      /\ \A i \in 1 .. n : t[i] = e[i]
      /\ \A i \in 1 .. m : t[n + i] = w[i]
  <2>1. IsBoth(t, e, n, w, m)
    BY <1>1, <1>2, <1>3, BothAre
  <2> QED
    BY <1>2, <1>3, <2>1, ConcatProperties DEF IsBoth
<1>5. PICK h : h = [i \in 0 .. n + m |-> IF i <= n THEN f[i] ELSE g[i - n]]
  OBVIOUS
<1>6. \A i \in 0 .. n : h[i] = f[i]
  <2>1. \A i \in 0 .. n : i \in 0 .. n + m /\ i <= n
    BY <1>2
  <2> QED
    BY <1>5, <2>1
<1>7. \A i \in 0 .. m : h[n + i] = g[i]
  <2> SUFFICES ASSUME NEW i \in 0 .. m
               PROVE  h[n + i] = g[i]
    OBVIOUS
  <2>1. CASE i = 0
    <3>1. n + i = n /\ n \in 0 .. n
      BY <1>2, <2>1
    <3> QED
      BY <1>1, <1>6, <2>1, <3>1
  <2>2. CASE i # 0
    <3>1. n + i \in 0 .. n + m /\ ~(n + i <= n) /\ (n + i) - n = i
      BY <1>2, <2>2
    <3> QED
      BY <1>5, <3>1
  <2> QED
    BY <2>1, <2>2
<1>8. h[0] = Decoder(<<>>, <<>>)
  <2>1. 0 \in 0 .. n
    BY <1>2
  <2> QED
    BY <1>1, <1>6, <2>1 DEF Decodes1
<1>9. ASSUME NEW i \in 1 .. n + m
      PROVE  h[i] = DecodeNext(h[i - 1], t[i])
  <2>1. CASE i <= n
    <3>1. i \in 0 .. n /\ i - 1 \in 0 .. n /\ i \in 1 .. n
      BY <1>2, <2>1
    <3>2. h[i] = f[i] /\ h[i - 1] = f[i - 1] /\ t[i] = e[i]
      BY <1>4, <1>6, <3>1
    <3>3. f[i] = DecodeNext(f[i - 1], e[i])
      BY <1>1, <3>1 DEF Decodes1
    <3> QED
      BY <3>2, <3>3
  <2>2. CASE ~(i <= n)
    <3>1. PICK j : j = i - n
      OBVIOUS
    <3>2. j \in 1 .. m /\ j \in 0 .. m /\ j - 1 \in 0 .. m /\ i = n + j /\ i - 1 = n + (j - 1)
      BY <1>2, <2>2, <3>1
    <3>3. h[i] = g[j] /\ h[i - 1] = g[j - 1] /\ t[i] = w[j]
      BY <1>4, <1>7, <3>2
    <3> QED
      BY <3>2, <3>3
  <2> QED
    BY <2>1, <2>2
<1>10. h[n + m] = g[m]
  <2>1. m \in 0 .. m
    OBVIOUS
  <2> QED
    BY <1>7, <2>1
<1>11. Decodes1(h, t, Len(t)) /\ h[Len(t)] = g[m]
  BY <1>4, <1>8, <1>9, <1>10 DEF Decodes1
<1> QED
  BY <1>3, <1>4, <1>11 DEF DecodedTo

-----------------------------------------------------------------------------
(* Quoted-printable. *)

\* What the decoder makes of one byte: it is given,
LEMMA PlainDecodes ==
  ASSUME NEW x, NEW c, c # EQUALS, NEW a, a = IF c = 95 /\ job.mode = "rfc2047" THEN SPACE ELSE c
  PROVE  DecodeByte(Decoder(x, <<>>), c) = Decoder(Append(x, a), <<>>)
<1>1. PICK e, s : e = <<>> /\ s = [out |-> x, carry |-> e]
  OBVIOUS
<1>2. s.carry = e /\ s.out = x
  BY <1>1
<1>3. PICK b : b = Append(x, a)
  OBVIOUS
<1>4. DecodeByte(s, c) = [s EXCEPT !.out = b]
  BY <1>1, <1>2, <1>3 DEF DecodeByte
<1>5. [s EXCEPT !.out = b] = [out |-> b, carry |-> e]
  BY <1>1
<1> QED
  BY <1>1, <1>3, <1>4, <1>5 DEF Decoder

\* or it begins an escape,
LEMMA EqualsDecodes ==
  ASSUME NEW x
  PROVE  DecodeByte(Decoder(x, <<>>), EQUALS) = Decoder(x, <<EQUALS>>)
<1>1. PICK e, d, s : e = <<>> /\ d = <<EQUALS>> /\ s = [out |-> x, carry |-> e]
  OBVIOUS
<1>2. s.carry = <<>>
  BY <1>1
<1>3. DecodeByte(s, EQUALS) = [s EXCEPT !.carry = d]
  BY <1>1, <1>2 DEF DecodeByte
<1>4. [s EXCEPT !.carry = d] = [out |-> x, carry |-> d]
  BY <1>1
<1> QED
  BY <1>1, <1>3, <1>4 DEF Decoder

\* or it is the first of two digits,
LEMMA FirstDecodes ==
  ASSUME NEW x, NEW c, c # LF
  PROVE  DecodeByte(Decoder(x, <<EQUALS>>), c) = Decoder(x, <<EQUALS, c>>)
<1>1. PICK d, y, s : d = <<EQUALS>> /\ y = <<EQUALS, c>> /\ s = [out |-> x, carry |-> d]
  OBVIOUS
<1>2. s.carry = d /\ d # <<>> /\ Len(d) = 1 /\ y = Append(d, c)
  BY <1>1
<1>3. DecodeByte(s, c) = [s EXCEPT !.carry = Append(s.carry, c)]
  BY <1>2 DEF DecodeByte
<1>4. DecodeByte(s, c) = [s EXCEPT !.carry = y]
  BY <1>2, <1>3
<1>5. [s EXCEPT !.carry = y] = [out |-> x, carry |-> y]
  BY <1>1
<1> QED
  BY <1>1, <1>4, <1>5 DEF Decoder

\* or the end of a soft line break,
LEMMA SoftDecodes ==
  ASSUME NEW x, NEW c
  PROVE  DecodeByte(Decoder(x, <<EQUALS, CR>>), c) = Decoder(x, <<>>)
<1>1. PICK d, e, s : d = <<EQUALS, CR>> /\ e = <<>> /\ s = [out |-> x, carry |-> d]
  OBVIOUS
<1>2. s.carry = d /\ d # <<>> /\ Len(d) = 2 /\ d[2] = CR
  BY <1>1
<1>3. DecodeByte(s, c) = [s EXCEPT !.carry = e]
  BY <1>1, <1>2 DEF DecodeByte
<1>4. [s EXCEPT !.carry = e] = [out |-> x, carry |-> e]
  BY <1>1
<1> QED
  BY <1>1, <1>3, <1>4 DEF Decoder

\* or the second digit.
LEMMA SecondDecodes ==
  ASSUME NEW x, NEW h, h # CR, NEW c, NEW v, v = 16 * HexValue(h) + HexValue(c)
  PROVE  DecodeByte(Decoder(x, <<EQUALS, h>>), c) = Decoder(Append(x, v), <<>>)
<1>1. PICK d, s : d = <<EQUALS, h>> /\ s = [out |-> x, carry |-> d]
  OBVIOUS
<1>2. s.out = x /\ s.carry = d /\ d # <<>> /\ Len(d) = 2 /\ d[2] = h
  BY <1>1
<1>3. DecodeByte(s, c) = [out |-> Append(s.out, 16 * HexValue(s.carry[2]) + HexValue(c)), carry |-> <<>>]
  BY <1>2 DEF DecodeByte
<1> QED
  BY <1>1, <1>2, <1>3 DEF Decoder

\* The byte that was written in hexadecimal.
LEMMA HexIsByte ==
  ASSUME NEW c \in Byte
  PROVE  \E h, l \in Byte : /\ Hex(c) = <<EQUALS, h, l>> /\ h # CR /\ h # LF
                            /\ 16 * HexValue(h) + HexValue(l) = c
<1> DEFINE digit(v) == IF v < 10 THEN 48 + v ELSE 55 + v
<1>1. ASSUME NEW v \in 0 .. 15
      PROVE  digit(v) \in Byte /\ digit(v) # CR /\ digit(v) # LF /\ HexValue(digit(v)) = v
  <2>1. PICK h : h = digit(v)
    OBVIOUS
  <2>2. v < 10 => h = 48 + v /\ h < 65
    BY <2>1
  <2>3. ~(v < 10) => h = 55 + v /\ ~(h < 65)
    BY <2>1
  <2>4. h \in 48 .. 70
    BY <2>2, <2>3
  <2>5. HexValue(h) = v
    BY <2>2, <2>3, <2>4 DEF HexValue
  <2> QED
    BY <2>1, <2>4, <2>5 DEF Byte, CR, LF
<1>2. PICK a, b \in 0 .. 15 : a = c \div 16 /\ b = c % 16 /\ 16 * a + b = c
  BY DEF Byte
<1>3. Hex(c) = <<EQUALS, digit(a), digit(b)>>
  BY <1>2 DEF Hex
<1> HIDE DEF digit
<1> QED
  BY <1>1, <1>2, <1>3

\* What is written decodes to x.
StandsFor(u, x) == x \in Seq(Byte) /\ DecodedTo(u, Decoder(x, <<>>))

\* A byte in hexadecimal.
LEMMA HexDecodes ==
  ASSUME job.kind = "quoted-printable", NEW u, NEW x, StandsFor(u, x), NEW c \in Byte
  PROVE  StandsFor(u \o Hex(c), Append(x, c))
<1>1. PICK h, l \in Byte : /\ Hex(c) = <<EQUALS, h, l>> /\ h # CR /\ h # LF
                           /\ 16 * HexValue(h) + HexValue(l) = c
  BY HexIsByte
<1>2. PICK w : w = <<EQUALS, h, l>>
  OBVIOUS
<1>3. w \in Seq(Byte) /\ Len(w) = 3 /\ w[1] = EQUALS /\ w[2] = h /\ w[3] = l
  BY <1>2 DEF EQUALS, Byte
<1>4. PICK r0, r1, r2, r3 : r0 = Decoder(x, <<>>) /\ r1 = Decoder(x, <<EQUALS>>) /\ r2 = Decoder(x, <<EQUALS, h>>) /\ r3 = Decoder(Append(x, c), <<>>)
  OBVIOUS
<1>5. x \in Seq(Byte) /\ DecodedTo(u, r0)
  BY <1>4 DEF StandsFor
<1>6. DecodeByte(r0, EQUALS) = r1 /\ DecodeByte(r1, h) = r2 /\ DecodeByte(r2, l) = r3
  <2>1. DecodeByte(r0, EQUALS) = r1
    BY <1>4, EqualsDecodes
  <2>2. DecodeByte(r1, h) = r2
    BY <1>1, <1>4, FirstDecodes
  <2>3. DecodeByte(r2, l) = r3
    BY <1>1, <1>4, SecondDecodes
  <2> QED
    BY <1>1, <1>4, <2>1, <2>3, <2>2
<1>7. DecodeNext(r0, EQUALS) = r1 /\ DecodeNext(r1, h) = r2 /\ DecodeNext(r2, l) = r3
  BY <1>6 DEF DecodeNext
<1>8. PICK g : g = [i \in 0 .. 3 |-> IF i = 0 THEN r0 ELSE IF i = 1 THEN r1 ELSE IF i = 2 THEN r2 ELSE r3]
  OBVIOUS
<1>9. g[0] = r0 /\ g[1] = r1 /\ g[2] = r2 /\ g[3] = r3
  BY <1>8
<1>10. \A i \in 1 .. 3 : g[i] = DecodeNext(g[i - 1], w[i])
  <2>1. \A i \in 1 .. 3 : i = 1 \/ i = 2 \/ i = 3
    OBVIOUS
  <2>2. 1 - 1 = 0 /\ 2 - 1 = 1 /\ 3 - 1 = 2
    OBVIOUS
  <2> QED
    BY <1>3, <1>7, <1>9, <2>1, <2>2
<1>11. DecodedTo(u \o w, g[3])
  <2>1. PICK m \in Nat : m = 3
    OBVIOUS
  <2>2. DecodedTo(u \o w, g[m])
    BY <1>3, <1>5, <1>9, <1>10, <2>1, DecodesWord
  <2> QED
    BY <2>1, <2>2
<1>12. Append(x, c) \in Seq(Byte)
  BY <1>5, AppendProperties
<1> QED
  BY <1>1, <1>2, <1>4, <1>9, <1>11, <1>12 DEF StandsFor

\* A byte as it is; an underscore is a space in an encoded word.
LEMMA ByteDecodes ==
  ASSUME job.kind = "quoted-printable", NEW u, NEW x, StandsFor(u, x), NEW c \in Byte, c # EQUALS,
         NEW d \in Byte, d = IF c = 95 /\ job.mode = "rfc2047" THEN SPACE ELSE c
  PROVE  StandsFor(u \o <<c>>, Append(x, d))
<1>1. PICK w : w = <<c>>
  OBVIOUS
<1>2. w \in Seq(Byte) /\ Len(w) = 1 /\ w[1] = c
  BY <1>1
<1>3. PICK r, q : r = Decoder(x, <<>>) /\ q = Decoder(Append(x, d), <<>>)
  OBVIOUS
<1>4. x \in Seq(Byte) /\ DecodedTo(u, r)
  BY <1>3 DEF StandsFor
<1>5. DecodeNext(r, c) = q
  <2>1. DecodeByte(r, c) = q
    BY <1>3, PlainDecodes
  <2> QED
    BY <2>1 DEF DecodeNext
<1>6. PICK g : g = [i \in 0 .. 1 |-> IF i = 0 THEN r ELSE q]
  OBVIOUS
<1>7. g[0] = r /\ g[1] = q
  BY <1>6
<1>8. \A i \in 1 .. 1 : g[i] = DecodeNext(g[i - 1], w[i])
  <2>1. \A i \in 1 .. 1 : i = 1 /\ i - 1 = 0
    OBVIOUS
  <2> QED
    BY <1>2, <1>5, <1>7, <2>1
<1>9. DecodedTo(u \o w, g[1])
  <2>1. PICK m \in Nat : m = 1
    OBVIOUS
  <2>2. DecodedTo(u \o w, g[m])
    BY <1>2, <1>4, <1>7, <1>8, <2>1, DecodesWord
  <2> QED
    BY <2>1, <2>2
<1>10. Append(x, d) \in Seq(Byte)
  BY <1>4, AppendProperties
<1> QED
  BY <1>1, <1>3, <1>7, <1>9, <1>10 DEF StandsFor

\* A soft line break is nothing.
LEMMA SoftBreakDecodes ==
  ASSUME job.kind = "quoted-printable", NEW u, NEW x, StandsFor(u, x)
  PROVE  StandsFor(u \o <<EQUALS, CR, LF>>, x)
<1>1. PICK w : w = <<EQUALS, CR, LF>>
  OBVIOUS
<1>2. w \in Seq(Byte) /\ Len(w) = 3 /\ w[1] = EQUALS /\ w[2] = CR /\ w[3] = LF
  BY <1>1 DEF EQUALS, CR, LF, Byte
<1>3. PICK r0, r1, r2 : r0 = Decoder(x, <<>>) /\ r1 = Decoder(x, <<EQUALS>>) /\ r2 = Decoder(x, <<EQUALS, CR>>)
  OBVIOUS
<1>4. x \in Seq(Byte) /\ DecodedTo(u, r0)
  BY <1>3 DEF StandsFor
<1>5. DecodeNext(r0, EQUALS) = r1 /\ DecodeNext(r1, CR) = r2 /\ DecodeNext(r2, LF) = r0
  <2>1. DecodeByte(r0, EQUALS) = r1 /\ DecodeByte(r2, LF) = r0
    BY <1>3, EqualsDecodes, SoftDecodes
  <2>2. CR # LF
    BY DEF CR, LF
  <2>3. DecodeByte(r1, CR) = r2
    BY <1>3, <2>2, FirstDecodes
  <2> QED
    BY <2>1, <2>3 DEF DecodeNext
<1>6. PICK g : g = [i \in 0 .. 3 |-> IF i = 0 THEN r0 ELSE IF i = 1 THEN r1 ELSE IF i = 2 THEN r2 ELSE r0]
  OBVIOUS
<1>7. g[0] = r0 /\ g[1] = r1 /\ g[2] = r2 /\ g[3] = r0
  BY <1>6
<1>8. \A i \in 1 .. 3 : g[i] = DecodeNext(g[i - 1], w[i])
  <2>1. \A i \in 1 .. 3 : i = 1 \/ i = 2 \/ i = 3
    OBVIOUS
  <2>2. 1 - 1 = 0 /\ 2 - 1 = 1 /\ 3 - 1 = 2
    OBVIOUS
  <2> QED
    BY <1>2, <1>5, <1>7, <2>1, <2>2
<1>9. DecodedTo(u \o w, g[3])
  <2>1. PICK m \in Nat : m = 3
    OBVIOUS
  <2>2. DecodedTo(u \o w, g[m])
    BY <1>2, <1>4, <1>7, <1>8, <2>1, DecodesWord
  <2> QED
    BY <2>1, <2>2
<1> QED
  BY <1>1, <1>3, <1>4, <1>7, <1>9 DEF StandsFor

\* Sequences of bytes, one after the other.
LEMMA Joined ==
  ASSUME NEW a \in Seq(Byte), NEW b \in Seq(Byte), NEW c \in Seq(Byte), NEW d \in Seq(Byte)
  PROVE  /\ a \o b \in Seq(Byte) /\ b \o c \in Seq(Byte)
         /\ a \o (b \o c) = (a \o b) \o c
         /\ (b \o c) \o d \in Seq(Byte) /\ a \o ((b \o c) \o d) = (a \o b) \o (c \o d)
<1>1. PICK e, f, g : e = a \o b /\ f = b \o c /\ g = c \o d
  OBVIOUS
<1>2. e \in Seq(Byte) /\ f \in Seq(Byte) /\ g \in Seq(Byte) /\ f \o d \in Seq(Byte)
  BY <1>1, ConcatProperties
<1>3. e \o c = a \o f
  BY <1>1, Associative
<1>4. f \o d = b \o g
  BY <1>1, Associative
<1>5. (a \o b) \o g = a \o (b \o g)
  <2>1. a \in Seq(Byte) /\ b \in Seq(Byte) /\ g \in Seq(Byte)
    BY <1>2
  <2> QED
    BY <2>1, Associative
<1> QED
  BY <1>1, <1>2, <1>3, <1>4, <1>5

\* The end of a line after an equals sign.
LEMMA SoftBreakIs == <<EQUALS>> \in Seq(Byte) /\ CRLF \in Seq(Byte) /\ <<EQUALS>> \o CRLF = <<EQUALS, CR, LF>>
<1>1. EQUALS \in Byte /\ CR \in Byte /\ LF \in Byte
  BY DEF EQUALS, CR, LF, Byte
<1>2. PICK e, f, w : e = <<EQUALS>> /\ f = <<CR, LF>> /\ w = <<EQUALS, CR, LF>>
  OBVIOUS
<1>3. /\ e \in Seq(Byte) /\ Len(e) = 1 /\ e[1] = EQUALS
      /\ f \in Seq(Byte) /\ Len(f) = 2 /\ f[1] = CR /\ f[2] = LF
      /\ w \in Seq(Byte) /\ Len(w) = 3 /\ w[1] = EQUALS /\ w[2] = CR /\ w[3] = LF
  BY <1>1, <1>2
<1>4. PICK t : t = e \o f
  OBVIOUS
<1>5. t \in Seq(Byte) /\ Len(t) = Len(e) + Len(f) /\ \A i \in 1 .. Len(e) + Len(f) : t[i] = IF i <= Len(e) THEN e[i] ELSE f[i - Len(e)]
  BY <1>3, <1>4, ConcatProperties
<1>6. Len(t) = 3 /\ t[1] = EQUALS /\ t[2] = CR /\ t[3] = LF
  BY <1>3, <1>5
<1>7. \A i \in 1 .. Len(t) : t[i] = w[i]
  BY <1>3, <1>5, <1>6
<1>8. t = w
  BY <1>3, <1>5, <1>7, SeqEqual
<1> QED
  BY <1>2, <1>3, <1>4, <1>8 DEF CRLF

\* What is known of a decoder of what was written after o.
Brings(o, r, x) == \E y, col : r = [out |-> y, column |-> col] /\ y \in Seq(Byte) /\ StandsFor(o \o y, x)

\* What AddByte adds stands for the byte.
LEMMA ByteAddedDecodes ==
  ASSUME job.kind = "quoted-printable", NEW o \in Seq(Byte), NEW y \in Seq(Byte), NEW col, NEW x, StandsFor(o \o y, x),
         NEW c \in Byte, NEW next, NEW s, s = [out |-> y, column |-> col]
  PROVE  Brings(o, AddByte(s, c, next), Append(x, c))
<1>1. PICK u : u = o \o y
  OBVIOUS
<1>2. s.out = y /\ s.column = col
  OBVIOUS
<1>3. PICK h, b : h = Hex(c) /\ b = <<c>>
  OBVIOUS
<1>4. h \in Seq(Byte) /\ b \in Seq(Byte)
  BY <1>3, HexIsPlain DEF IsPlain
<1>5. StandsFor(u \o h, Append(x, c))
  BY <1>1, <1>3, HexDecodes
<1>6. CASE job.mode = "rfc2047"
  <2>1. PICK g : g = <<95>>
    OBVIOUS
  <2>2. g \in Seq(Byte)
    <3>1. 95 \in Byte
      BY DEF Byte
    <3> QED
      BY <2>1, <3>1
  <2>3. PICK w : w = IF c = SPACE THEN g ELSE IF c \in Plain THEN b ELSE h
    OBVIOUS
  <2>4. w \in Seq(Byte) /\ StandsFor(u \o w, Append(x, c))
    <3>1. CASE c = SPACE
      <4>1. PICK k : k = 95
        OBVIOUS
      <4>2. k \in Byte /\ k # EQUALS
        BY <4>1 DEF Byte, EQUALS
      <4>3. StandsFor(u \o <<k>>, Append(x, c))
        BY <1>1, <1>6, <3>1, <4>1, <4>2, ByteDecodes
      <4> QED
        BY <2>1, <2>2, <2>3, <3>1, <4>1, <4>3
    <3>2. CASE c # SPACE /\ c \in Plain
      <4>1. c # EQUALS /\ c # 95
        BY <3>2 DEF Plain, EQUALS
      <4>2. StandsFor(u \o b, Append(x, c))
        BY <1>1, <1>3, <4>1, ByteDecodes
      <4> QED
        BY <1>4, <2>3, <3>2, <4>2
    <3>3. CASE c # SPACE /\ c \notin Plain
      BY <1>4, <1>5, <2>3, <3>3
    <3> QED
      BY <3>1, <3>2, <3>3
  <2>5. PICK z : z = y \o w
    OBVIOUS
  <2>6. AddByte(s, c, next) = [s EXCEPT !.out = z]
    BY <1>2, <1>3, <1>6, <2>1, <2>3, <2>5 DEF AddByte
  <2>7. [s EXCEPT !.out = z] = [out |-> z, column |-> col]
    OBVIOUS
  <2>8. z \in Seq(Byte) /\ o \o z = u \o w
    BY <1>1, <2>4, <2>5, Joined
  <2> QED
    BY <2>4, <2>6, <2>7, <2>8 DEF Brings
<1>7. CASE job.mode # "rfc2047"
  <2>1. PICK hex \in BOOLEAN : hex <=> Encoded(c, next, col)
    OBVIOUS
  <2>2. PICK w, col1 : w = (IF hex THEN h ELSE b) /\ col1 = IF hex THEN col + 3 ELSE IF c = LF THEN 0 ELSE col + 1
    OBVIOUS
  <2>3. w \in Seq(Byte) /\ StandsFor(u \o w, Append(x, c))
    <3>1. CASE hex
      BY <1>4, <1>5, <2>2, <3>1
    <3>2. CASE ~hex
      <4>1. c # EQUALS
        BY <2>1, <3>2 DEF Encoded
      <4>2. StandsFor(u \o b, Append(x, c))
        BY <1>1, <1>3, <1>7, <4>1, ByteDecodes
      <4> QED
        BY <1>4, <2>2, <3>2, <4>2
    <3> QED
      BY <3>1, <3>2
  <2>4. PICK z : z = y \o w
    OBVIOUS
  <2>5. z \in Seq(Byte) /\ o \o z = u \o w
    <3>1. o \in Seq(Byte) /\ y \in Seq(Byte) /\ w \in Seq(Byte) /\ u = o \o y
      BY <1>1, <2>3
    <3>2. y \o w \in Seq(Byte)
      BY <3>1, ConcatProperties
    <3>3. (o \o y) \o w = o \o (y \o w)
      BY <3>1, Associative
    <3> QED
      BY <2>4, <3>1, <3>2, <3>3
  <2>6. PICK e, f : e = <<EQUALS>> /\ f = CRLF
    OBVIOUS
  <2>7. e \in Seq(Byte) /\ f \in Seq(Byte) /\ e \o f = <<EQUALS, CR, LF>>
    BY <2>6, SoftBreakIs
  <2>8. PICK t : t = (z \o e) \o f
    OBVIOUS
  <2>9. t \in Seq(Byte) /\ o \o t = (o \o z) \o (e \o f)
    <3>1. o \in Seq(Byte) /\ z \in Seq(Byte) /\ e \in Seq(Byte) /\ f \in Seq(Byte)
      BY <2>5, <2>7
    <3>2. (z \o e) \o f = z \o (e \o f)
      BY <3>1, Associative
    <3>3. PICK q : q = e \o f
      OBVIOUS
    <3>4. o \in Seq(Byte) /\ z \in Seq(Byte) /\ q \in Seq(Byte)
      BY <3>1, <3>3, ConcatProperties
    <3>5. (o \o z) \o q = o \o (z \o q)
      BY <3>4, Associative
    <3>6. z \o q \in Seq(Byte)
      BY <3>4, ConcatProperties
    <3>7. t = z \o q
      BY <2>8, <3>2, <3>3
    <3> QED
      BY <3>3, <3>5, <3>6, <3>7
  <2>10. StandsFor(o \o t, Append(x, c))
    BY <2>3, <2>5, <2>7, <2>9, SoftBreakDecodes
  <2>11. AddByte(s, c, next) \in {[out |-> t, column |-> 0], [out |-> z, column |-> col1]}
    BY <1>2, <1>3, <1>7, <2>1, <2>2, <2>4, <2>6, <2>8 DEF AddByte
  <2> QED
    BY <2>3, <2>5, <2>9, <2>10, <2>11 DEF Brings
<1> QED
  BY <1>6, <1>7

\* Beginnings of a sequence: with the part that follows, and with the next element.
LEMMA BeginningAndPart ==
  ASSUME NEW s \in Seq(Byte), NEW j \in Nat, NEW k \in Nat, j <= k, k <= Len(s)
  PROVE  /\ SubSeq(s, 1, j) \in Seq(Byte) /\ SubSeq(s, j + 1, k) \in Seq(Byte)
         /\ SubSeq(s, 1, j) \o SubSeq(s, j + 1, k) = SubSeq(s, 1, k)
<1>1. PICK n \in Nat : n = Len(s)
  BY LenProperties
<1>2. \A i \in 1 .. n : s[i] \in Byte
  BY <1>1, ElementOfSeq
<1>3. (\A i \in 1 .. j : s[i] \in Byte) /\ \A i \in j + 1 .. k : s[i] \in Byte
  <2>1. 1 .. j \subseteq 1 .. n /\ j + 1 .. k \subseteq 1 .. n
    BY <1>1
  <2> QED
    BY <1>2, <2>1
<1>4. SubSeq(s, 1, j) \in Seq(Byte)
  <2>1. 1 \in Int /\ j \in Int
    OBVIOUS
  <2> QED
    BY <1>3, <2>1, SubSeqProperties
<1>5. SubSeq(s, j + 1, k) \in Seq(Byte)
  <2>1. PICK a, b \in Int : a = j + 1 /\ b = k
    OBVIOUS
  <2>2. \A i \in a .. b : s[i] \in Byte
    BY <1>3, <2>1
  <2>3. SubSeq(s, a, b) \in Seq(Byte)
    BY <2>2, SubSeqProperties
  <2> QED
    BY <2>1, <2>3
<1>6. SubSeq(s, 1, j) \o SubSeq(s, j + 1, k) = SubSeq(s, 1, k)
  <2>1. 1 \in 1 .. Len(s) + 1 /\ j \in 1 - 1 .. Len(s) /\ k \in j .. Len(s)
    BY <1>1
  <2> QED
    BY <2>1, ConcatAdjacentSubSeq
<1> QED
  BY <1>4, <1>5, <1>6

\* The next element.
LEMMA BeginningAndNext ==
  ASSUME NEW x \in Seq(Byte), NEW s \in Seq(Byte), NEW i \in 1 .. Len(s)
  PROVE  Append(x \o SubSeq(s, 1, i - 1), s[i]) = x \o SubSeq(s, 1, i)
<1>1. PICK n \in Nat : n = Len(s)
  BY LenProperties
<1>2. PICK j, k \in Nat : j = i - 1 /\ k = i /\ j <= k /\ k <= Len(s) /\ k = j + 1
  BY <1>1
<1>3. PICK a, b, c : a = SubSeq(s, 1, j) /\ b = SubSeq(s, j + 1, k) /\ c = SubSeq(s, 1, k)
  OBVIOUS
<1>4. a \in Seq(Byte) /\ b \in Seq(Byte) /\ a \o b = c
  BY <1>2, <1>3, BeginningAndPart
<1>5. s[i] \in Byte
  BY ElementOfSeq
<1>6. b = <<s[i]>>
  <2>1. PICK p : p = <<s[i]>>
    OBVIOUS
  <2>2. p \in Seq(Byte) /\ Len(p) = 1 /\ p[1] = s[i]
    BY <1>5, <2>1
  <2>3. Len(b) = 1 /\ b[1] = s[i]
    <3>1. \A q \in k .. k : s[q] \in Byte
      BY <1>2, <1>5
    <3>2. PICK e \in Int : e = k
      BY <1>2
    <3>3. Len(SubSeq(s, e, e)) = (IF e <= e THEN e - e + 1 ELSE 0) /\ \A q \in 1 .. e - e + 1 : SubSeq(s, e, e)[q] = s[e + q - 1]
      BY <3>1, <3>2, SubSeqProperties
    <3>4. b = SubSeq(s, e, e)
      BY <1>2, <1>3, <3>2
    <3>5. 1 \in 1 .. e - e + 1 /\ e + 1 - 1 = i /\ e - e + 1 = 1
      BY <1>2, <3>2
    <3> QED
      BY <3>3, <3>4, <3>5
  <2>4. \A q \in 1 .. Len(b) : b[q] = p[q]
    BY <2>2, <2>3
  <2>5. b = p
    BY <1>4, <2>2, <2>3, <2>4, SeqEqual
  <2> QED
    BY <2>1, <2>5
<1>7. x \o a \in Seq(Byte)
  BY <1>4, ConcatProperties
<1>8. Append(x \o a, s[i]) = (x \o a) \o <<s[i]>>
  BY <1>5, <1>7, AppendIsConcat
<1>9. (x \o a) \o b = x \o (a \o b)
  BY <1>4, Associative
<1> QED
  BY <1>2, <1>3, <1>4, <1>6, <1>8, <1>9

\* All bytes of a piece.
LEMMA LinesDecode ==
  ASSUME job.kind = "quoted-printable", NEW o \in Seq(Byte), NEW x, StandsFor(o, x),
         NEW bytes \in Seq(Byte), NEW next, worker.column \in Nat
  PROVE  Brings(o, QPLines(bytes, next), x \o bytes)
<1>1. PICK n \in Nat : n = Len(bytes)
  BY LenProperties
<1>2. PICK after : ByteByByte(after, bytes, next) /\ QPLines(bytes, next) = after[Len(bytes)]
  BY QPSteps
<1> DEFINE following(i) == IF i < n THEN bytes[i + 1] ELSE next
<1>3. after[0] = [out |-> <<>>, column |-> worker.column]
  BY <1>2 DEF ByteByByte
<1>4. \A i \in 1 .. n : after[i] = AddByte(after[i - 1], bytes[i], following(i))
  BY <1>1, <1>2 DEF ByteByByte
<1>5. x \in Seq(Byte)
  BY DEF StandsFor
<1> DEFINE S == {i \in 0 .. n : Brings(o, after[i], x \o SubSeq(bytes, 1, i))}
<1>6. 0 \in S
  <2>1. PICK y, col : y = <<>> /\ col = worker.column
    OBVIOUS
  <2>2. y \in Seq(Byte) /\ o \o y = o
    BY <2>1, EmptySeq, ConcatEmptySeq
  <2>3. x \o SubSeq(bytes, 1, 0) = x
    <3>1. SubSeq(bytes, 1, 0) = <<>>
      BY SubSeqEmpty
    <3> QED
      BY <1>5, <3>1, ConcatEmptySeq
  <2>4. Brings(o, after[0], x \o SubSeq(bytes, 1, 0))
    BY <1>3, <2>1, <2>2, <2>3 DEF Brings
  <2> QED
    BY <2>4
<1>7. ASSUME NEW i \in 1 .. n, i - 1 \in S
      PROVE  i \in S
  <2>1. PICK q : q = x \o SubSeq(bytes, 1, i - 1)
    OBVIOUS
  <2>2. Brings(o, after[i - 1], q)
    BY <1>7, <2>1
  <2>3. PICK y, col : after[i - 1] = [out |-> y, column |-> col] /\ y \in Seq(Byte) /\ StandsFor(o \o y, q)
    BY <2>2 DEF Brings
  <2>4. PICK c, d : c = bytes[i] /\ d = following(i)
    OBVIOUS
  <2>5. c \in Byte
    BY <1>1, <2>4, ElementOfSeq
  <2>6. after[i] = AddByte([out |-> y, column |-> col], c, d)
    BY <1>4, <2>3, <2>4
  <2>7. Brings(o, after[i], Append(q, c))
    <3>1. PICK s : s = [out |-> y, column |-> col]
      OBVIOUS
    <3>2. Brings(o, AddByte(s, c, d), Append(q, c))
      BY <2>3, <2>5, <3>1, ByteAddedDecodes
    <3> QED
      BY <2>6, <3>1, <3>2
  <2>8. Append(q, c) = x \o SubSeq(bytes, 1, i)
    BY <1>1, <1>5, <2>1, <2>4, BeginningAndNext
  <2> QED
    BY <2>7, <2>8
<1>8. n \in S
  <2> HIDE DEF S
  <2>1. 0 .. n \subseteq S
    BY <1>6, <1>7, NumberInduction
  <2> QED
    BY <2>1
<1>9. SubSeq(bytes, 1, n) = bytes
  BY <1>1, SubSeqFull
<1> QED
  BY <1>1, <1>2, <1>8, <1>9

-----------------------------------------------------------------------------
(* The decoder goes on as it would have gone on with all that was written. *)

\* One byte more leaves a decoder.
LEMMA DecoderStays ==
  ASSUME NEW x, NEW y, NEW c
  PROVE  \E z, v : DecodeNext(Decoder(x, y), c) = Decoder(z, v)
<1>1. PICK s : s = [out |-> x, carry |-> y]
  OBVIOUS
<1>2. \A z : [s EXCEPT !.out = z] = [out |-> z, carry |-> y]
  BY <1>1
<1>3. \A v : [s EXCEPT !.carry = v] = [out |-> x, carry |-> v]
  BY <1>1
<1>4. CASE job.kind = "base64"
  <2>1. \/ DecodeLetter(s, c) = [out |-> x, carry |-> y]
        \/ DecodeLetter(s, c) = [s EXCEPT !.carry = Append(s.carry, c)]
        \/ DecodeLetter(s, c) = [out |-> s.out \o Bytes(Append(s.carry, c)), carry |-> <<>>]
    BY <1>1 DEF DecodeLetter
  <2>2. \E z, v : DecodeLetter(s, c) = [out |-> z, carry |-> v]
    BY <1>3, <2>1
  <2> QED
    BY <1>1, <1>4, <2>2 DEF DecodeNext, Decoder
<1>5. CASE job.kind # "base64"
  <2>1. PICK d : d = IF c = 95 /\ job.mode = "rfc2047" THEN SPACE ELSE c
    OBVIOUS
  <2>2. \/ DecodeByte(s, c) = [s EXCEPT !.carry = <<c>>]
        \/ DecodeByte(s, c) = [s EXCEPT !.out = Append(s.out, d)]
        \/ DecodeByte(s, c) = [s EXCEPT !.carry = <<>>]
        \/ DecodeByte(s, c) = [s EXCEPT !.carry = Append(s.carry, c)]
        \/ DecodeByte(s, c) = [out |-> Append(s.out, 16 * HexValue(s.carry[2]) + HexValue(c)), carry |-> <<>>]
    BY <2>1 DEF DecodeByte
  <2>3. \E z, v : DecodeByte(s, c) = [out |-> z, carry |-> v]
    BY <1>2, <1>3, <2>2
  <2> QED
    BY <1>1, <1>5, <2>3 DEF DecodeNext, Decoder
<1> QED
  BY <1>4, <1>5

\* What a decoder has given and what it keeps.
LEMMA DecoderHas ==
  ASSUME NEW x, NEW y
  PROVE  /\ Decoder(x, y).out = x /\ Decoder(x, y).carry = y
         /\ \A z, v : Decoder(x, y) = Decoder(z, v) => x = z /\ y = v
BY DEF Decoder

\* All along a text it is one.
LEMMA DecodersAll ==
  ASSUME NEW f, NEW e, NEW n \in Nat, Decodes1(f, e, n)
  PROVE  \A i \in 0 .. n : f[i] = Decoder(f[i].out, f[i].carry)
<1> DEFINE S == {i \in 0 .. n : \E x, y : f[i] = Decoder(x, y)}
<1>1. 0 \in S
  BY DEF Decodes1
<1>2. ASSUME NEW i \in 1 .. n, i - 1 \in S
      PROVE  i \in S
  <2>1. PICK x, y : f[i - 1] = Decoder(x, y)
    BY <1>2
  <2>2. f[i] = DecodeNext(Decoder(x, y), e[i])
    BY <2>1 DEF Decodes1
  <2>3. \E z, v : f[i] = Decoder(z, v)
    BY <2>2, DecoderStays
  <2> QED
    BY <2>3
<1>3. 0 .. n \subseteq S
  <2> HIDE DEF S
  <2> QED
    BY <1>1, <1>2, NumberInduction
<1> TAKE i \in 0 .. n
<1>4. PICK x, y : f[i] = Decoder(x, y)
  BY <1>3
<1> QED
  BY <1>4, DecoderHas

\* Whatever the pieces, the decoder is where it would be.
LEMMA DecodedAfterIs ==
  ASSUME NEW f, NEW l \in Nat, Decodes1(f, worker.encoded, l),
         NEW k \in Nat, k = at, f[k] = Decoder(output, worker.carry),
         NEW n \in Nat, k + n <= l
  PROVE  DecodedAfter(n) = f[k + n]
<1> DEFINE first == [out |-> output, carry |-> worker.carry]
           rule(h) == h = [i \in 0 .. n |-> IF i = 0 THEN first ELSE DecodeNext(h[i - 1], worker.encoded[k + i])]
           after == CHOOSE h : rule(h)
<1>1. PICK g : g = [i \in 0 .. n |-> f[k + i]]
  OBVIOUS
<1>2. f[k] = first
  BY DEF Decoder
<1>3. DecodedAfter(n) = after[n]
  BY DEF DecodedAfter
<1> HIDE DEF first
<1>4. \A i \in 1 .. n : f[k + i] = DecodeNext(f[k + (i - 1)], worker.encoded[k + i])
  <2> TAKE i \in 1 .. n
  <2>1. PICK j : j = k + i
    OBVIOUS
  <2>2. j \in 1 .. l /\ j - 1 = k + (i - 1)
    BY <2>1
  <2>3. f[j] = DecodeNext(f[j - 1], worker.encoded[j])
    BY <2>2 DEF Decodes1
  <2> QED
    BY <2>1, <2>2, <2>3
<1>5. rule(g)
  <2>1. ASSUME NEW i \in 0 .. n
        PROVE  f[k + i] = IF i = 0 THEN first ELSE DecodeNext(g[i - 1], worker.encoded[k + i])
    <3>1. CASE i = 0
      BY <1>2, <3>1
    <3>2. CASE i # 0
      <4>1. i \in 1 .. n /\ i - 1 \in 0 .. n
        BY <3>2
      <4>2. g[i - 1] = f[k + (i - 1)]
        BY <1>1, <4>1
      <4> QED
        BY <1>4, <3>2, <4>1, <4>2
    <3> QED
      BY <3>1, <3>2
  <2> QED
    BY <1>1, <2>1
<1>6. rule(after)
  <2> HIDE DEF rule
  <2> QED
    BY <1>5
<1> HIDE DEF after
<1>7. after[0] = first /\ \A i \in 1 .. n : after[i] = DecodeNext(after[i - 1], worker.encoded[k + i])
  <2>1. \A i \in 0 .. n : after[i] = IF i = 0 THEN first ELSE DecodeNext(after[i - 1], worker.encoded[k + i])
    BY <1>6
  <2>2. 0 \in 0 .. n /\ \A i \in 1 .. n : i \in 0 .. n /\ i # 0
    OBVIOUS
  <2> QED
    BY <2>1, <2>2
<1> DEFINE S == {i \in 0 .. n : after[i] = f[k + i]}
<1>8. 0 \in S
  BY <1>2, <1>7
<1>9. ASSUME NEW i \in 1 .. n, i - 1 \in S
      PROVE  i \in S
  BY <1>4, <1>7, <1>9
<1>10. n \in S
  <2> HIDE DEF S
  <2>1. 0 .. n \subseteq S
    BY <1>8, <1>9, NumberInduction
  <2> QED
    BY <2>1
<1> QED
  BY <1>3, <1>10

-----------------------------------------------------------------------------
(* Base64. *)

\* The letter of a value has this value, and is not the padding.
LEMMA LetterIsValue ==
  ASSUME NEW v \in Nat, v < 64
  PROVE  Letter[v] # EQUALS /\ LetterValue[Letter[v]] = v
<1> DEFINE of(s) == IF s < 26 THEN 65 + s ELSE IF s < 52 THEN 71 + s ELSE IF s < 62 THEN s - 4 ELSE IF s = 62 THEN 43 ELSE 47
<1>1. \A s \in 0 .. 63 : Letter[s] = of(s)
  BY DEF Letter
<1>2. \A s \in 0 .. 63 : of(s) # 61
  OBVIOUS
<1>3. \A s, t \in 0 .. 63 : of(s) = of(t) => s = t
  OBVIOUS
<1> HIDE DEF of
<1>4. PICK c : c = Letter[v]
  OBVIOUS
<1>5. c \in {Letter[s] : s \in 0 .. 63}
  BY <1>4
<1>6. LetterValue[c] = CHOOSE s \in 0 .. 63 : Letter[s] = c
  BY <1>5 DEF LetterValue
<1>7. \E s \in 0 .. 63 : Letter[s] = c
  BY <1>4
<1>8. LetterValue[c] \in 0 .. 63 /\ Letter[LetterValue[c]] = c
  BY <1>6, <1>7
<1>9. LetterValue[c] = v
  <2>1. v \in 0 .. 63
    OBVIOUS
  <2>2. PICK w : w = LetterValue[c] /\ w \in 0 .. 63 /\ Letter[w] = c
    BY <1>8
  <2>3. Letter[w] = of(w) /\ Letter[v] = of(v)
    BY <1>1, <2>1, <2>2
  <2>4. of(w) = of(v)
    BY <1>4, <2>2, <2>3
  <2>5. w = v
    BY <1>3, <2>1, <2>2, <2>4
  <2> QED
    BY <2>2, <2>5
<1> QED
  BY <1>1, <1>2, <1>4, <1>9 DEF EQUALS

\* Quotient and remainder by four of a number that is given with both.
LEMMA By4 ==
  ASSUME NEW a \in Nat, NEW b \in Nat, b < 4, NEW n, n = 4 * a + b
  PROVE  n \div 4 = a /\ n % 4 = b
OBVIOUS

\* The same by sixteen.
LEMMA By16 ==
  ASSUME NEW a \in Nat, NEW b \in Nat, b < 16, NEW n, n = 16 * a + b
  PROVE  n \div 16 = a /\ n % 16 = b
OBVIOUS

\* The same by 64.
LEMMA By64 ==
  ASSUME NEW a \in Nat, NEW b \in Nat, b < 64, NEW n, n = 64 * a + b
  PROVE  n \div 64 = a /\ n % 64 = b
OBVIOUS

\* The same by 256.
LEMMA By256 ==
  ASSUME NEW a \in Nat, NEW b \in Nat, b < 256, NEW n, n = 256 * a + b
  PROVE  n \div 256 = a /\ n % 256 = b
OBVIOUS

\* The quotient by 4096.
LEMMA By4096 ==
  ASSUME NEW a \in Nat, NEW b \in Nat, b < 4096, NEW n, n = 4096 * a + b
  PROVE  n \div 4096 = a
OBVIOUS

\* The quotient by 65536.
LEMMA By65536 ==
  ASSUME NEW a \in Nat, NEW b \in Nat, b < 65536, NEW n, n = 65536 * a + b
  PROVE  n \div 65536 = a
OBVIOUS

\* The quotient by 262144.
LEMMA By262144 ==
  ASSUME NEW a \in Nat, NEW b \in Nat, b < 262144, NEW n, n = 262144 * a + b
  PROVE  n \div 262144 = a
OBVIOUS

\* A byte is a number of six bits and one of two.
LEMMA Split4 ==
  ASSUME NEW x \in Nat, x < 256
  PROVE  \E a, b \in Nat : a < 64 /\ b < 4 /\ x = 4 * a + b
<1>1. PICK a, b \in Nat : a = x \div 4 /\ b = x % 4
  OBVIOUS
<1> QED
  BY <1>1

\* Four bits and four.
LEMMA Split16 ==
  ASSUME NEW x \in Nat, x < 256
  PROVE  \E a, b \in Nat : a < 16 /\ b < 16 /\ x = 16 * a + b
<1>1. PICK a, b \in Nat : a = x \div 16 /\ b = x % 16
  OBVIOUS
<1> QED
  BY <1>1

\* Two bits and six.
LEMMA Split64 ==
  ASSUME NEW x \in Nat, x < 256
  PROVE  \E a, b \in Nat : a < 4 /\ b < 64 /\ x = 64 * a + b
<1>1. PICK a, b \in Nat : a = x \div 64 /\ b = x % 64
  OBVIOUS
<1> QED
  BY <1>1

\* Three bytes are four values of six bits.
SixBitsOf(all, p, q, r, s) ==
  p = (all \div 262144) % 64 /\ q = (all \div 4096) % 64 /\ r = (all \div 64) % 64 /\ s = all % 64
FourOf(x, y, z, p, q, r, s) ==
  /\ p < 64 /\ q < 64 /\ r < 64 /\ s < 64
  /\ 65536 * x + 256 * y + z = 262144 * p + 4096 * q + 64 * r + s
  /\ (z = 0 => s = 0) /\ (y = 0 /\ z = 0 => r = 0)

\* There are such values.
LEMMA SixBits ==
  ASSUME NEW x \in Nat, x < 256, NEW y \in Nat, y < 256, NEW z \in Nat, z < 256
  PROVE  \E p, q, r, s \in Nat : FourOf(x, y, z, p, q, r, s)
<1>1. PICK a, b \in Nat : a < 64 /\ b < 4 /\ x = 4 * a + b
  BY Split4
<1>2. PICK c, d \in Nat : c < 16 /\ d < 16 /\ y = 16 * c + d
  BY Split16
<1>3. PICK e, s \in Nat : e < 4 /\ s < 64 /\ z = 64 * e + s
  BY Split64
<1>4. PICK q \in Nat : q = 16 * b + c
  OBVIOUS
<1>5. PICK r \in Nat : r = 4 * d + e
  OBVIOUS
<1>6. 65536 * x + 256 * y + z = 262144 * a + 4096 * q + 64 * r + s
  BY <1>1, <1>2, <1>3, <1>4, <1>5
<1>7. z = 0 => s = 0
  BY <1>3
<1>8. y = 0 /\ z = 0 => r = 0
  BY <1>2, <1>3, <1>5
<1>9. q < 64 /\ r < 64
  BY <1>1, <1>2, <1>3, <1>4, <1>5
<1>10. FourOf(x, y, z, a, q, r, s)
  BY <1>1, <1>3, <1>6, <1>7, <1>8, <1>9 DEF FourOf
<1> QED
  BY <1>10

\* They are the quotients that the encoders take.
LEMMA SixBitsAre ==
  ASSUME NEW p \in Nat, p < 64, NEW q \in Nat, q < 64, NEW r \in Nat, r < 64, NEW s \in Nat, s < 64, NEW all,
         all = 262144 * p + 4096 * q + 64 * r + s
  PROVE  SixBitsOf(all, p, q, r, s)
<1>1. PICK v \in Nat : v = 4096 * q + 64 * r + s
  OBVIOUS
<1>2. all \div 262144 = p
  <2>1. all = 262144 * p + v /\ v < 262144
    BY <1>1
  <2> QED
    BY <2>1, By262144
<1>3. PICK u2 \in Nat, v2 \in Nat : u2 = 64 * p + q /\ v2 = 64 * r + s
  OBVIOUS
<1>4. all \div 4096 = u2
  <2>1. all = 4096 * u2 + v2 /\ v2 < 4096
    BY <1>3
  <2> QED
    BY <2>1, By4096
<1>5. u2 % 64 = q
  BY <1>3, By64
<1>6. PICK u3 \in Nat : u3 = 4096 * p + 64 * q + r
  OBVIOUS
<1>7. all \div 64 = u3 /\ all % 64 = s
  <2>1. all = 64 * u3 + s
    BY <1>6
  <2> QED
    BY <2>1, By64
<1>8. PICK u4 \in Nat : u4 = 64 * p + q
  OBVIOUS
<1>9. u3 % 64 = r
  <2>1. u3 = 64 * u4 + r
    BY <1>6, <1>8
  <2> QED
    BY <2>1, By64
<1>10. p % 64 = p
  OBVIOUS
<1> QED
  BY <1>2, <1>4, <1>5, <1>7, <1>9, <1>10 DEF SixBitsOf

\* Three bytes in a number.
LEMMA ThreeParts ==
  ASSUME NEW x \in Nat, NEW y \in Nat, NEW z \in Nat, NEW all, y < 256, z < 256, all = 65536 * x + 256 * y + z
  PROVE  all \div 65536 = x /\ (all \div 256) % 256 = y /\ all % 256 = z
<1>1. PICK v \in Nat : v = 256 * y + z
  OBVIOUS
<1>2. all \div 65536 = x
  <2>1. all = 65536 * x + v /\ v < 65536
    BY <1>1
  <2> QED
    BY <2>1, By65536
<1>3. PICK u \in Nat : u = 256 * x + y
  OBVIOUS
<1>4. all \div 256 = u /\ all % 256 = z
  <2>1. all = 256 * u + z
    BY <1>3
  <2> QED
    BY <2>1, By256
<1>5. u % 256 = y
  BY <1>3, By256
<1> QED
  BY <1>2, <1>4, <1>5
IsThree(all, x, y, z) == /\ x \in Nat /\ x < 256 /\ y \in Nat /\ y < 256 /\ z \in Nat /\ z < 256
                         /\ all = 65536 * x + 256 * y + z
AreThree(all, x, y, z) == all \div 65536 = x /\ (all \div 256) % 256 = y /\ all % 256 = z

\* The same, as one fact.
LEMMA ThreeBytesAre ==
  ASSUME NEW all, NEW x, NEW y, NEW z, IsThree(all, x, y, z)
  PROVE  AreThree(all, x, y, z)
BY ThreeParts DEF IsThree, AreThree

\* A byte is a number below 256.
LEMMA ByteIs ==
  ASSUME NEW c \in Byte
  PROVE  c \in Nat /\ c < 256
BY DEF Byte

\* A number below 256 is a byte.
LEMMA ByteIf ==
  ASSUME NEW c \in Nat, c < 256
  PROVE  c \in Byte
BY DEF Byte

\* The letters of one, two or three bytes stand for them.
LEMMA BytesOfLetters ==
  ASSUME NEW b \in Seq(Byte), NEW n \in 1 .. 3, n = Len(b)
  PROVE  Bytes(Letters(b)) = b
<1> DEFINE byte(i) == IF i <= n THEN b[i] ELSE 0
<1>1. PICK x, y, z : x = byte(1) /\ y = byte(2) /\ z = byte(3)
  OBVIOUS
<1>2. x \in Nat /\ x < 256 /\ y \in Nat /\ y < 256 /\ z \in Nat /\ z < 256 /\ (n < 2 => y = 0) /\ (n < 3 => z = 0)
  <2>1. \A i \in 1 .. n : b[i] \in Byte
    BY ElementOfSeq
  <2>2. \A i \in 1 .. n : b[i] \in Nat /\ b[i] < 256
    BY <2>1, ByteIs
  <2>3. \A i \in 1 .. 3 : byte(i) \in Nat /\ byte(i) < 256 /\ (n < i => byte(i) = 0)
    BY <2>2
  <2>4. 1 \in 1 .. 3 /\ 2 \in 1 .. 3 /\ 3 \in 1 .. 3
    OBVIOUS
  <2> HIDE DEF byte
  <2> QED
    BY <1>1, <2>3, <2>4
<1> HIDE DEF byte
<1>3. PICK all \in Nat : all = 65536 * x + 256 * y + z
  BY <1>2
<1>4. PICK p, q, r, s \in Nat : FourOf(x, y, z, p, q, r, s)
  BY <1>2, SixBits
<1>5. /\ p < 64 /\ q < 64 /\ r < 64 /\ s < 64
      /\ all = 262144 * p + 4096 * q + 64 * r + s
      /\ (z = 0 => s = 0) /\ (y = 0 /\ z = 0 => r = 0)
  BY <1>3, <1>4 DEF FourOf
<1>6. /\ p = (all \div 262144) % 64 /\ q = (all \div 4096) % 64 /\ r = (all \div 64) % 64 /\ s = all % 64
      /\ x = all \div 65536 /\ y = (all \div 256) % 256 /\ z = all % 256
  <2>1. SixBitsOf(all, p, q, r, s)
    BY <1>5, SixBitsAre
  <2>2. all \div 65536 = x /\ (all \div 256) % 256 = y /\ all % 256 = z
    <3>1. IsThree(all, x, y, z)
      BY <1>2, <1>3 DEF IsThree
    <3> QED
      BY <3>1, ThreeBytesAre DEF AreThree
  <2> QED
    BY <2>1, <2>2 DEF SixBitsOf
<1>7. PICK c, d, e, f : /\ c = Letter[p] /\ d = Letter[q]
                        /\ e = (IF n >= 2 THEN Letter[r] ELSE EQUALS)
                        /\ f = IF n >= 3 THEN Letter[s] ELSE EQUALS
  OBVIOUS
<1>8. Letters(b) = <<c, d, e, f>>
  <2> DEFINE letter(v, i) == IF i <= n + 1 THEN Letter[v % 64] ELSE EQUALS
  <2>1. Letters(b) = <<letter(all \div 262144, 1), letter(all \div 4096, 2), letter(all \div 64, 3), letter(all, 4)>>
    BY <1>1, <1>3 DEF Letters, byte
  <2>2. letter(all \div 262144, 1) = c /\ letter(all \div 4096, 2) = d /\ letter(all \div 64, 3) = e /\ letter(all, 4) = f
    BY <1>7, <1>6
  <2> HIDE DEF letter
  <2> QED
    BY <2>1, <2>2
<1>9. PICK w : w = <<c, d, e, f>>
  OBVIOUS
<1>10. w[1] = c /\ w[2] = d /\ w[3] = e /\ w[4] = f
  BY <1>9
<1> DEFINE value(i) == IF w[i] = EQUALS THEN 0 ELSE LetterValue[w[i]]
<1>11. value(1) = p /\ value(2) = q /\ value(3) = r /\ value(4) = s
  <2>1. value(1) = p
    BY <1>5, <1>7, <1>10, LetterIsValue
  <2>2. value(2) = q
    BY <1>5, <1>7, <1>10, LetterIsValue
  <2>3. value(3) = r
    BY <1>2, <1>5, <1>7, <1>10, LetterIsValue
  <2>4. value(4) = s
    BY <1>2, <1>5, <1>7, <1>10, LetterIsValue
  <2> QED
    BY <2>1, <2>2, <2>3, <2>4
<1>12. (IF w[3] = EQUALS THEN 1 ELSE IF w[4] = EQUALS THEN 2 ELSE 3) = n
  <2>1. Letter[r] # EQUALS /\ Letter[s] # EQUALS
    BY <1>5, LetterIsValue
  <2> QED
    BY <1>7, <1>10, <2>1
<1> HIDE DEF value
<1>13. Bytes(w) = SubSeq(<<all \div 65536, (all \div 256) % 256, all % 256>>, 1, n)
  <2> DEFINE total == 262144 * value(1) + 4096 * value(2) + 64 * value(3) + value(4)
             count == IF w[3] = EQUALS THEN 1 ELSE IF w[4] = EQUALS THEN 2 ELSE 3
  <2>1. total = all
    BY <1>5, <1>11
  <2>2. Bytes(w) = SubSeq(<<total \div 65536, (total \div 256) % 256, total % 256>>, 1, count)
    BY DEF Bytes, value
  <2>3. count = n
    BY <1>12
  <2> HIDE DEF total, count
  <2> QED
    BY <2>1, <2>2, <2>3
<1>14. Bytes(w) = SubSeq(<<x, y, z>>, 1, n)
  BY <1>13, <1>6
<1>15. SubSeq(<<x, y, z>>, 1, n) = b
  <2>1. PICK t : t = <<x, y, z>>
    OBVIOUS
  <2>2. t \in Seq(Byte) /\ Len(t) = 3 /\ t[1] = x /\ t[2] = y /\ t[3] = z
    BY <1>2, <2>1, ByteIf
  <2>3. PICK g, h \in Int : g = 1 /\ h = n
    OBVIOUS
  <2>4. \A i \in g .. h : t[i] \in Byte
    <3>1. \A i \in g .. h : i \in 1 .. Len(t)
      BY <2>2, <2>3
    <3> QED
      BY <2>2, <3>1, ElementOfSeq
  <2>5. PICK u : u = SubSeq(t, g, h)
    OBVIOUS
  <2>6. u \in Seq(Byte) /\ Len(u) = (IF g <= h THEN h - g + 1 ELSE 0) /\ \A i \in 1 .. h - g + 1 : u[i] = t[g + i - 1]
    BY <2>4, <2>5, SubSeqProperties
  <2>7. Len(u) = n /\ \A i \in 1 .. n : u[i] = t[i]
    <3>1. h - g + 1 = n /\ g <= h /\ \A i \in 1 .. n : g + i - 1 = i
      BY <2>3
    <3> QED
      BY <2>6, <3>1
  <2>8. ASSUME NEW i \in 1 .. n
        PROVE  t[i] = b[i]
    <3>1. i = 1 \/ i = 2 \/ i = 3
      OBVIOUS
    <3> QED
      BY <1>1, <2>2, <3>1 DEF byte
  <2>9. u = b
    BY <2>6, <2>7, <2>8, SeqEqual
  <2> QED
    BY <2>1, <2>3, <2>5, <2>9
<1> QED
  BY <1>8, <1>9, <1>14, <1>15

\* A letter waits for the fourth one,
LEMMA LetterWaits ==
  ASSUME job.kind = "base64", NEW x, NEW y \in Seq(Byte), Len(y) < 3, NEW c, c \notin {CR, LF}
  PROVE  DecodeNext(Decoder(x, y), c) = Decoder(x, Append(y, c))
<1>1. PICK s, v : s = [out |-> x, carry |-> y] /\ v = Append(y, c)
  OBVIOUS
<1>2. s.carry = y /\ s.out = x
  BY <1>1
<1>3. DecodeLetter(s, c) = [s EXCEPT !.carry = v]
  <2>1. DecodeLetter(s, c) = [s EXCEPT !.carry = Append(s.carry, c)]
    BY <1>2 DEF DecodeLetter
  <2>2. s.carry = y /\ v = Append(y, c)
    BY <1>1, <1>2
  <2> QED
    BY <2>1, <2>2
<1>4. \A z : [s EXCEPT !.carry = z] = [out |-> x, carry |-> z]
  BY <1>1
<1> QED
  BY <1>1, <1>3, <1>4 DEF DecodeNext, Decoder

\* which ends four of them.
LEMMA LettersEnd ==
  ASSUME job.kind = "base64", NEW x, NEW y \in Seq(Byte), Len(y) = 3, NEW c, c \notin {CR, LF}, NEW v, v = Append(y, c)
  PROVE  DecodeNext(Decoder(x, y), c) = Decoder(x \o Bytes(v), <<>>)
<1>1. PICK s : s = [out |-> x, carry |-> y]
  OBVIOUS
<1>2. s.carry = y /\ s.out = x
  BY <1>1
<1>3. DecodeLetter(s, c) = [out |-> x \o Bytes(v), carry |-> <<>>]
  <2>1. DecodeLetter(s, c) = [out |-> s.out \o Bytes(Append(s.carry, c)), carry |-> <<>>]
    BY <1>2 DEF DecodeLetter
  <2> QED
    BY <1>2, <2>1
<1> QED
  BY <1>1, <1>3 DEF DecodeNext, Decoder

\* The end of a line is skipped.
LEMMA LineEndSkipped ==
  ASSUME job.kind = "base64", NEW x, NEW y, NEW c, c \in {CR, LF}
  PROVE  DecodeNext(Decoder(x, y), c) = Decoder(x, y)
BY DEF DecodeNext, DecodeLetter

\* Four letters, one after the other.
LEMMA FourLetters ==
  ASSUME NEW w \in Seq(Byte), Len(w) = 4
  PROVE  \E y1, y2, y3 \in Seq(Byte) :
           /\ y1 = Append(<<>>, w[1]) /\ y2 = Append(y1, w[2]) /\ y3 = Append(y2, w[3]) /\ w = Append(y3, w[4])
           /\ Len(y1) = 1 /\ Len(y2) = 2 /\ Len(y3) = 3
<1>1. PICK a, b, c, d \in Byte : a = w[1] /\ b = w[2] /\ c = w[3] /\ d = w[4]
  <2>1. \A i \in 1 .. 4 : w[i] \in Byte
    BY ElementOfSeq
  <2> QED
    BY <2>1
<1>2. PICK y1, y2, y3, y4 : y1 = <<a>> /\ y2 = <<a, b>> /\ y3 = <<a, b, c>> /\ y4 = <<a, b, c, d>>
  OBVIOUS
<1>3. y1 \in Seq(Byte) /\ y2 \in Seq(Byte) /\ y3 \in Seq(Byte) /\ Len(y1) = 1 /\ Len(y2) = 2 /\ Len(y3) = 3
  BY <1>2
<1>4. y4 \in Seq(Byte) /\ Len(y4) = 4 /\ y4[1] = a /\ y4[2] = b /\ y4[3] = c /\ y4[4] = d
  BY <1>2
<1>5. w = y4
  <2>1. \A i \in 1 .. 4 : i = 1 \/ i = 2 \/ i = 3 \/ i = 4
    OBVIOUS
  <2>2. \A i \in 1 .. 4 : w[i] = y4[i]
    BY <1>1, <1>4, <2>1
  <2> QED
    BY <1>4, <2>2, SeqEqual
<1>6. y1 = Append(<<>>, a) /\ y2 = Append(y1, b) /\ y3 = Append(y2, c) /\ y4 = Append(y3, d)
  BY <1>2
<1> QED
  BY <1>1, <1>3, <1>5, <1>6

\* One group of bytes.
LEMMA GroupDecodes ==
  ASSUME job.kind = "base64", NEW u, NEW x, StandsFor(u, x), NEW b \in Seq(Byte), NEW n \in 1 .. 3, n = Len(b)
  PROVE  StandsFor(u \o Letters(b), x \o b)
<1>1. PICK w : w = Letters(b)
  OBVIOUS
<1>2. w \in Seq(Byte) /\ Len(w) = 4 /\ \A i \in 1 .. 4 : w[i] \notin {CR, LF}
  BY <1>1, LettersAre DEF IsPlain
<1>3. PICK y1, y2, y3 \in Seq(Byte) :
           /\ y1 = Append(<<>>, w[1]) /\ y2 = Append(y1, w[2]) /\ y3 = Append(y2, w[3]) /\ w = Append(y3, w[4])
           /\ Len(y1) = 1 /\ Len(y2) = 2 /\ Len(y3) = 3
  BY <1>2, FourLetters
<1>4. PICK e, r0, r1, r2, r3, r4 : /\ e = <<>> /\ r0 = Decoder(x, e) /\ r1 = Decoder(x, y1) /\ r2 = Decoder(x, y2)
                                   /\ r3 = Decoder(x, y3) /\ r4 = Decoder(x \o Bytes(w), e)
  OBVIOUS
<1>5. x \in Seq(Byte) /\ DecodedTo(u, r0)
  BY <1>4 DEF StandsFor
<1>6. e \in Seq(Byte) /\ Len(e) = 0
  BY <1>4, EmptySeq
<1>7. w[1] \notin {CR, LF} /\ w[2] \notin {CR, LF} /\ w[3] \notin {CR, LF} /\ w[4] \notin {CR, LF}
  <2>1. 1 \in 1 .. 4 /\ 2 \in 1 .. 4 /\ 3 \in 1 .. 4 /\ 4 \in 1 .. 4
    OBVIOUS
  <2> QED
    BY <1>2, <2>1
<1>8. PICK c1, c2, c3, c4 : c1 = w[1] /\ c2 = w[2] /\ c3 = w[3] /\ c4 = w[4]
  OBVIOUS
<1>9. DecodeNext(r0, w[1]) = r1
  <2>1. Len(e) < 3 /\ c1 \notin {CR, LF} /\ y1 = Append(e, c1)
    BY <1>3, <1>4, <1>6, <1>7, <1>8
  <2>2. DecodeNext(Decoder(x, e), c1) = Decoder(x, Append(e, c1))
    BY <1>6, <2>1, LetterWaits
  <2> QED
    BY <1>4, <1>8, <2>1, <2>2
<1>10. DecodeNext(r1, w[2]) = r2
  <2>1. Len(y1) < 3 /\ c2 \notin {CR, LF} /\ y2 = Append(y1, c2)
    BY <1>3, <1>7, <1>8
  <2>2. DecodeNext(Decoder(x, y1), c2) = Decoder(x, Append(y1, c2))
    BY <2>1, LetterWaits
  <2> QED
    BY <1>4, <1>8, <2>1, <2>2
<1>11. DecodeNext(r2, w[3]) = r3
  <2>1. Len(y2) < 3 /\ c3 \notin {CR, LF} /\ y3 = Append(y2, c3)
    BY <1>3, <1>7, <1>8
  <2>2. DecodeNext(Decoder(x, y2), c3) = Decoder(x, Append(y2, c3))
    BY <2>1, LetterWaits
  <2> QED
    BY <1>4, <1>8, <2>1, <2>2
<1>12. DecodeNext(r3, w[4]) = r4
  <2>1. Len(y3) = 3 /\ c4 \notin {CR, LF} /\ w = Append(y3, c4)
    BY <1>3, <1>7, <1>8
  <2>2. DecodeNext(Decoder(x, y3), c4) = Decoder(x \o Bytes(w), <<>>)
    BY <2>1, LettersEnd
  <2> QED
    BY <1>4, <1>8, <2>2
<1>13. PICK g : g = [i \in 0 .. 4 |-> IF i = 0 THEN r0 ELSE IF i = 1 THEN r1 ELSE IF i = 2 THEN r2 ELSE IF i = 3 THEN r3 ELSE r4]
  OBVIOUS
<1>14. g[0] = r0 /\ g[1] = r1 /\ g[2] = r2 /\ g[3] = r3 /\ g[4] = r4
  BY <1>13
<1>15. \A i \in 1 .. 4 : g[i] = DecodeNext(g[i - 1], w[i])
  <2>1. \A i \in 1 .. 4 : i = 1 \/ i = 2 \/ i = 3 \/ i = 4
    OBVIOUS
  <2>2. 1 - 1 = 0 /\ 2 - 1 = 1 /\ 3 - 1 = 2 /\ 4 - 1 = 3
    OBVIOUS
  <2> QED
    BY <1>9, <1>10, <1>11, <1>12, <1>14, <2>1, <2>2
<1>16. DecodedTo(u \o w, r4)
  <2>1. PICK m \in Nat : m = 4
    OBVIOUS
  <2>2. DecodedTo(u \o w, g[m])
    BY <1>2, <1>5, <1>14, <1>15, <2>1, DecodesWord
  <2> QED
    BY <1>14, <2>1, <2>2
<1>17. Bytes(w) = b
  BY <1>1, BytesOfLetters
<1>18. x \o b \in Seq(Byte)
  BY <1>5, ConcatProperties
<1> QED
  BY <1>1, <1>4, <1>16, <1>17, <1>18 DEF StandsFor

\* The end of a line.
LEMMA LineEndDecodes ==
  ASSUME job.kind = "base64", NEW u, NEW x, StandsFor(u, x)
  PROVE  StandsFor(u \o CRLF, x)
<1>1. PICK w : w = CRLF
  OBVIOUS
<1>2. w \in Seq(Byte) /\ Len(w) = 2 /\ \A i \in 1 .. 2 : w[i] \in {CR, LF}
  BY <1>1, SoftEnd
<1>3. PICK e, r : e = <<>> /\ r = Decoder(x, e)
  OBVIOUS
<1>4. x \in Seq(Byte) /\ DecodedTo(u, r)
  BY <1>3 DEF StandsFor
<1>5. \A i \in 1 .. 2 : DecodeNext(r, w[i]) = r
  BY <1>2, <1>3, LineEndSkipped
<1>6. PICK g : g = [i \in 0 .. 2 |-> r]
  OBVIOUS
<1>7. g[0] = r /\ g[2] = r /\ \A i \in 1 .. 2 : g[i] = r /\ g[i - 1] = r
  BY <1>6
<1>8. \A i \in 1 .. 2 : g[i] = DecodeNext(g[i - 1], w[i])
  BY <1>5, <1>7
<1>9. DecodedTo(u \o w, r)
  <2>1. PICK m \in Nat : m = 2
    OBVIOUS
  <2>2. DecodedTo(u \o w, g[m])
    BY <1>2, <1>4, <1>7, <1>8, <2>1, DecodesWord
  <2> QED
    BY <1>7, <2>1, <2>2
<1> QED
  BY <1>1, <1>3, <1>4, <1>9 DEF StandsFor

\* What AddGroup adds stands for the bytes.
LEMMA GroupAddedDecodes ==
  ASSUME job.kind = "base64", NEW o \in Seq(Byte), NEW y \in Seq(Byte), NEW col, NEW x, StandsFor(o \o y, x),
         NEW b \in Seq(Byte), NEW n \in 1 .. 3, n = Len(b), NEW s, s = [out |-> y, column |-> col]
  PROVE  Brings(o, AddGroup(s, Letters(b)), x \o b)
<1>1. PICK u, w, f, z : u = o \o y /\ w = Letters(b) /\ f = CRLF /\ z = y \o w
  OBVIOUS
<1>2. s.out = y /\ s.column = col
  OBVIOUS
<1>3. w \in Seq(Byte) /\ f \in Seq(Byte)
  BY <1>1, LettersAre, SoftEnd DEF IsPlain
<1>4. StandsFor(u \o w, x \o b)
  BY <1>1, GroupDecodes
<1>5. z \in Seq(Byte) /\ o \o z = u \o w
  <2>1. o \o (y \o w) = (o \o y) \o w
    BY <1>3, Associative
  <2>2. y \o w \in Seq(Byte)
    BY <1>3, ConcatProperties
  <2> QED
    BY <1>1, <2>1, <2>2
<1>6. PICK t : t = z \o f
  OBVIOUS
<1>7. t \in Seq(Byte) /\ o \o t = (u \o w) \o f
  <2>1. t \in Seq(Byte)
    BY <1>3, <1>5, <1>6, ConcatProperties
  <2>2. o \o (z \o f) = (o \o z) \o f
    BY <1>3, <1>5, Associative
  <2> QED
    BY <1>5, <1>6, <2>1, <2>2
<1>8. StandsFor((u \o w) \o f, x \o b)
  BY <1>1, <1>4, LineEndDecodes
<1>9. PICK q : q = col + 4
  OBVIOUS
<1>10. AddGroup(s, w) = IF EndsLine(q) THEN [out |-> t, column |-> 0] ELSE [out |-> z, column |-> q]
  BY <1>1, <1>2, <1>6, <1>9 DEF AddGroup
<1>11. AddGroup(s, w) \in {[out |-> t, column |-> 0], [out |-> z, column |-> q]}
  BY <1>10
<1> QED
  BY <1>1, <1>4, <1>5, <1>7, <1>8, <1>11 DEF Brings

\* Groups, and the beginnings they end.
LEMMA GroupEnds ==
  ASSUME NEW bytes \in Seq(Byte), NEW n \in Nat, n = Len(bytes), NEW i \in Nat \ {0}, 3 * (i - 1) < n
  PROVE  \E j, k \in Nat : /\ j = 3 * (i - 1) /\ k = (IF 3 * i <= n THEN 3 * i ELSE n) /\ j < k /\ k <= n
                           /\ Group(bytes, i) = SubSeq(bytes, j + 1, k)
                           /\ Len(Group(bytes, i)) = k - j /\ k - j \in 1 .. 3
<1>1. PICK j, k \in Nat : j = 3 * (i - 1) /\ k = IF 3 * i <= n THEN 3 * i ELSE n
  <2>1. 3 * (i - 1) \in Nat /\ (IF 3 * i <= n THEN 3 * i ELSE n) \in Nat
    OBVIOUS
  <2> QED
    BY <2>1
<1>2. j < k /\ k <= n /\ k - j \in 1 .. 3 /\ 3 * i - 2 = j + 1
  BY <1>1
<1>3. Min({3 * i, Len(bytes)}) = k
  <2>1. PICK a \in Nat : a = 3 * i
    OBVIOUS
  <2>2. {a, n} \in SUBSET Nat /\ {a, n} # {}
    BY <2>1
  <2>3. PICK c : c = Min({a, n})
    OBVIOUS
  <2>4. c \in {a, n} /\ c <= a /\ c <= n
    BY <2>1, <2>2, <2>3, MinOfNumbers
  <2>5. c = k
    BY <1>1, <2>1, <2>4
  <2> QED
    BY <2>1, <2>3, <2>5
<1>4. Group(bytes, i) = SubSeq(bytes, j + 1, k)
  BY <1>2, <1>3 DEF Group
<1>5. Len(SubSeq(bytes, j + 1, k)) = k - j
  <2>1. PICK a, b \in Int : a = j + 1 /\ b = k
    OBVIOUS
  <2>2. \A q \in a .. b : bytes[q] \in Byte
    <3>1. a .. b \subseteq 1 .. Len(bytes)
      BY <1>2, <2>1
    <3> QED
      BY <3>1, ElementOfSeq
  <2>3. Len(SubSeq(bytes, a, b)) = IF a <= b THEN b - a + 1 ELSE 0
    BY <2>2, SubSeqProperties
  <2>4. a <= b /\ b - a + 1 = k - j
    BY <1>2, <2>1
  <2> QED
    BY <2>1, <2>3, <2>4
<1> QED
  BY <1>1, <1>2, <1>4, <1>5

\* All groups of a piece.
LEMMA Base64LinesDecode ==
  ASSUME job.kind = "base64", NEW o \in Seq(Byte), NEW x, StandsFor(o, x),
         NEW bytes \in Seq(Byte), worker.column \in Nat
  PROVE  Brings(o, Base64Lines(bytes, worker.column), x \o bytes)
<1>1. PICK n \in Nat : n = Len(bytes)
  BY LenProperties
<1>2. PICK g \in Nat : g = (n + 2) \div 3 /\ 3 * g >= n /\ \A i \in 1 .. g : 3 * (i - 1) < n
  <2>1. PICK a \in Nat : a = n + 2
    OBVIOUS
  <2>2. PICK g \in Nat : g = a \div 3 /\ 3 * g <= a /\ a < 3 * g + 3
    OBVIOUS
  <2>3. 3 * g >= n /\ \A i \in 1 .. g : 3 * (i - 1) < n
    BY <2>1, <2>2
  <2> QED
    BY <2>1, <2>2, <2>3
<1>3. PICK after : GroupByGroup(after, bytes, g) /\ Base64Lines(bytes, worker.column) = after[g]
  BY <1>1, <1>2, Base64Steps
<1>4. after[0] = [out |-> <<>>, column |-> worker.column] /\ \A i \in 1 .. g : after[i] = AddGroup(after[i - 1], Letters(Group(bytes, i)))
  BY <1>3 DEF GroupByGroup
<1>5. x \in Seq(Byte)
  BY DEF StandsFor
<1> DEFINE upto(i) == IF 3 * i <= n THEN 3 * i ELSE n
           S == {i \in 0 .. g : Brings(o, after[i], x \o SubSeq(bytes, 1, upto(i)))}
<1>6. 0 \in S
  <2>1. PICK y, col : y = <<>> /\ col = worker.column
    OBVIOUS
  <2>2. y \in Seq(Byte) /\ o \o y = o
    BY <2>1, EmptySeq, ConcatEmptySeq
  <2>3. x \o SubSeq(bytes, 1, 0) = x
    <3>1. SubSeq(bytes, 1, 0) = <<>>
      BY SubSeqEmpty
    <3> QED
      BY <1>5, <3>1, ConcatEmptySeq
  <2>4. Brings(o, after[0], x \o SubSeq(bytes, 1, 0))
    BY <1>4, <2>1, <2>2, <2>3 DEF Brings
  <2>5. upto(0) = 0
    OBVIOUS
  <2> QED
    BY <2>4, <2>5
<1>7. ASSUME NEW i \in 1 .. g, i - 1 \in S
      PROVE  i \in S
  <2>1. PICK j, k \in Nat : /\ j = 3 * (i - 1) /\ k = (IF 3 * i <= n THEN 3 * i ELSE n) /\ j < k /\ k <= n
                            /\ Group(bytes, i) = SubSeq(bytes, j + 1, k)
                            /\ Len(Group(bytes, i)) = k - j /\ k - j \in 1 .. 3
    <3>1. i \in Nat \ {0} /\ 3 * (i - 1) < n
      BY <1>2
    <3> QED
      BY <1>1, <3>1, GroupEnds
  <2>2. upto(i - 1) = j /\ upto(i) = k
    BY <2>1
  <2>3. PICK q, b, a : q = x \o a /\ a = SubSeq(bytes, 1, j) /\ b = Group(bytes, i)
    OBVIOUS
  <2>4. Brings(o, after[i - 1], q)
    BY <1>7, <2>2, <2>3
  <2>5. PICK y, col : after[i - 1] = [out |-> y, column |-> col] /\ y \in Seq(Byte) /\ StandsFor(o \o y, q)
    BY <2>4 DEF Brings
  <2>6. a \in Seq(Byte) /\ b \in Seq(Byte) /\ a \o b = SubSeq(bytes, 1, k)
    <3>1. j <= k /\ k <= Len(bytes)
      BY <1>1, <2>1
    <3>2. SubSeq(bytes, 1, j) \in Seq(Byte) /\ SubSeq(bytes, j + 1, k) \in Seq(Byte) /\ SubSeq(bytes, 1, j) \o SubSeq(bytes, j + 1, k) = SubSeq(bytes, 1, k)
      BY <3>1, BeginningAndPart
    <3> QED
      BY <2>1, <2>3, <3>2
  <2>7. PICK s : s = [out |-> y, column |-> col]
    OBVIOUS
  <2>8. PICK m \in 1 .. 3 : m = Len(b)
    BY <2>1, <2>3
  <2>9. Brings(o, AddGroup(s, Letters(b)), q \o b)
    BY <2>5, <2>6, <2>7, <2>8, GroupAddedDecodes
  <2>10. after[i] = AddGroup(s, Letters(b))
    BY <1>4, <2>3, <2>5, <2>7
  <2>11. q \o b = x \o SubSeq(bytes, 1, k)
    <3>1. (x \o a) \o b = x \o (a \o b)
      BY <1>5, <2>6, Associative
    <3> QED
      BY <2>3, <2>6, <3>1
  <2>12. Brings(o, after[i], x \o SubSeq(bytes, 1, k))
    BY <2>9, <2>10, <2>11
  <2>13. Brings(o, after[i], x \o SubSeq(bytes, 1, upto(i)))
    <3> HIDE DEF upto
    <3> QED
      BY <2>2, <2>12
  <2> HIDE DEF upto
  <2> QED
    BY <2>13
<1>8. g \in S
  <2> HIDE DEF S
  <2>1. 0 .. g \subseteq S
    BY <1>6, <1>7, NumberInduction
  <2> QED
    BY <2>1
<1>9. SubSeq(bytes, 1, upto(g)) = bytes
  <2>1. upto(g) = n
    BY <1>2
  <2>2. SubSeq(bytes, 1, n) = bytes
    BY <1>1, SubSeqFull
  <2> HIDE DEF upto
  <2> QED
    BY <2>1, <2>2
<1> QED
  BY <1>3, <1>8, <1>9

-----------------------------------------------------------------------------
(* The steps of a round trip. *)

\* Written so far is what decodes to the text read, but for what waits; a decoder is
\* where it would be with all that was written, and this gives the text.
WrittenOf(o, c, k) == \E x : StandsFor(o, x) /\ o \in Seq(Byte) /\ c \in Seq(Byte) /\ x \o c = SubSeq(text, 1, k)
DecodesThere(e, k, o, c) ==
  \E f, l : /\ l = Len(e) /\ l \in Nat /\ k \in 0 .. l /\ Decodes1(f, e, l)
            /\ f[l] = Decoder(text, <<>>) /\ f[k] = Decoder(o, c)
RoundInv ==
  job.kind \in {"base64", "quoted-printable"} =>
    /\ worker.phase = "encode" => WrittenOf(output, worker.carry, at)
    /\ worker.phase = "decode" => DecodesThere(worker.encoded, at, output, worker.carry)
    /\ worker.phase = "done" => output = text

\* A job decodes as it decoded.
LEMMA SameDecoder ==
  ASSUME job' = job, text' = text
  PROVE  /\ \A o, c, k : WrittenOf(o, c, k)' = WrittenOf(o, c, k)
         /\ \A e, k, o, c : DecodesThere(e, k, o, c)' = DecodesThere(e, k, o, c)
<1>1. \A s, c : DecodeNext(s, c)' = DecodeNext(s, c)
  <2>1. \A s, c : DecodeByte(s, c)' = DecodeByte(s, c)
    BY DEF DecodeByte
  <2>2. \A s, c : DecodeLetter(s, c)' = DecodeLetter(s, c)
    BY DEF DecodeLetter
  <2> QED
    BY <2>1, <2>2 DEF DecodeNext
<1>2. \A f, e, n : Decodes1(f, e, n)' = Decodes1(f, e, n)
  BY <1>1 DEF Decodes1
<1>3. \A e, r : DecodedTo(e, r)' = DecodedTo(e, r)
  BY <1>2 DEF DecodedTo
<1>4. \A u, x : StandsFor(u, x)' = StandsFor(u, x)
  BY <1>3 DEF StandsFor
<1>5. \A o, c, k : WrittenOf(o, c, k)' = WrittenOf(o, c, k)
  BY <1>4 DEF WrittenOf
<1>6. \A e, k, o, c : DecodesThere(e, k, o, c)' = DecodesThere(e, k, o, c)
  BY <1>2 DEF DecodesThere
<1> QED
  BY <1>5, <1>6

\* Nothing is written of nothing.
LEMMA RoundInvInit == Init => RoundInv
<1> SUFFICES ASSUME Init, job.kind \in {"base64", "quoted-printable"}
             PROVE  RoundInv
  BY DEF RoundInv
<1>1. at = 0 /\ worker = Fresh /\ output = <<>>
  <2>1. EncoderInit
    BY InitOfKind DEF Encoders
  <2> QED
    BY <2>1 DEF EncoderInit
<1>2. PICK e : e = <<>>
  OBVIOUS
<1>3. e \in Seq(Byte) /\ StandsFor(e, e)
  BY <1>2, EmptySeq, NothingDecoded DEF StandsFor
<1>4. e \o e = e
  BY <1>3, <1>2, ConcatEmptySeq
<1>5. SubSeq(text, 1, 0) = e
  BY <1>2, SubSeqEmpty
<1>6. WrittenOf(e, e, 0)
  BY <1>3, <1>4, <1>5 DEF WrittenOf
<1>7. worker.phase = "encode" /\ worker.carry = e
  <2>1. Fresh = [phase |-> "encode", carry |-> e, column |-> 0, encoded |-> e]
    BY <1>2 DEF Fresh
  <2> QED
    BY <1>1, <2>1
<1> QED
  BY <1>1, <1>2, <1>6, <1>7 DEF RoundInv

\* What is read of the text grows by a piece, written or waiting.
Moves(n, x, c, b, d) ==
  /\ x \in Seq(Byte) /\ c \in Seq(Byte) /\ b \in Seq(Byte) /\ d \in Seq(Byte)
  /\ x \o c = SubSeq(text, 1, at) /\ c \o Piece(n) = b \o d
Moved(n, x, b, d) == (x \o b) \o d = SubSeq(text, 1, at + n)

\* What was written and what waits are the text read.
LEMMA PieceMore ==
  ASSUME text \in Seq(Byte), at \in 0 .. Len(text), NEW n, n \in Sizes, NEW x, NEW c, NEW b, NEW d, Moves(n, x, c, b, d)
  PROVE  Moved(n, x, b, d)
<1>1. /\ x \in Seq(Byte) /\ c \in Seq(Byte) /\ b \in Seq(Byte) /\ d \in Seq(Byte)
      /\ x \o c = SubSeq(text, 1, at) /\ c \o Piece(n) = b \o d
  BY DEF Moves
<1>2. PICK p, k, l : p = Piece(n) /\ k = at /\ l = at + n
  OBVIOUS
<1>3. p \in Seq(Byte) /\ k \in Nat /\ l \in Nat /\ k <= l /\ l <= Len(text)
  <2>1. n \in Nat /\ n > 0 /\ at + n \in 1 .. Len(text) /\ Piece(n) \in Seq(Byte)
    BY NextPiece
  <2>2. Len(text) \in Nat
    BY LenProperties
  <2> QED
    BY <1>2, <2>1, <2>2
<1>4. p = SubSeq(text, k + 1, l)
  BY <1>2 DEF Piece
<1>5. SubSeq(text, 1, k) \o p = SubSeq(text, 1, l)
  BY <1>3, <1>4, BeginningAndPart
<1>6. (x \o c) \o p = x \o (c \o p)
  BY <1>1, <1>3, Associative
<1>7. (x \o b) \o d = x \o (b \o d)
  BY <1>1, Associative
<1> QED
  BY <1>1, <1>2, <1>5, <1>6, <1>7 DEF Moved

\* A piece more was encoded.
LEMMA KeepsWritten ==
  ASSUME EncoderInv, worker.phase = "encode", job.kind \in {"base64", "quoted-printable"},
         NEW n, NEW written, NEW carry, NEW column, Encodes(n, written, carry, column),
         NEW k, k = at + n, WrittenOf(output \o written, carry, k)
  PROVE  RoundInv'
<1>1. EncoderWorker(worker)
  BY DEF EncoderInv
<1>2. PICK w : w = Encoded1(worker, carry, column)
  OBVIOUS
<1>3. at' = k /\ output' = output \o written /\ worker' = w /\ job' = job /\ text' = text
  BY <1>2 DEF Encodes, Encoded1
<1>4. w.phase = "encode" /\ w.carry = carry
  BY <1>1, <1>2, CarriesOn
<1>5. PICK u : u = output \o written
  OBVIOUS
<1>6. WrittenOf(u, carry, k)'
  BY <1>3, <1>5, SameDecoder
<1>7. worker'.phase = "encode" /\ worker'.carry = carry
  BY <1>3, <1>4
<1> QED
  BY <1>3, <1>5, <1>6, <1>7 DEF RoundInv

\* All was encoded: the decoder starts.
LEMMA KeepsAllWritten ==
  ASSUME job.kind \in {"base64", "quoted-printable"}, NEW written, ThenDecode(written), StandsFor(output \o written, text)
  PROVE  RoundInv'
<1>1. PICK e, b : e = output \o written /\ b = <<>>
  OBVIOUS
<1>2. job' = job /\ text' = text /\ worker' = [Fresh EXCEPT !.phase = "decode", !.encoded = e] /\ at' = 0 /\ output' = b
  BY <1>1 DEF ThenDecode
<1>3. worker'.phase = "decode" /\ worker'.encoded = e /\ worker'.carry = b
  <2>1. PICK f : f = Fresh
    OBVIOUS
  <2>2. f = [phase |-> "encode", carry |-> b, column |-> 0, encoded |-> b]
    BY <1>1, <2>1 DEF Fresh
  <2>3. PICK x : x = [f EXCEPT !.phase = "decode"]
    OBVIOUS
  <2>4. x = [phase |-> "decode", carry |-> b, column |-> 0, encoded |-> b]
    BY <2>2, <2>3
  <2>5. PICK y : y = [x EXCEPT !.encoded = e]
    OBVIOUS
  <2>6. y = [phase |-> "decode", carry |-> b, column |-> 0, encoded |-> e]
    BY <2>4, <2>5
  <2>7. worker' = y
    BY <1>2, <2>1, <2>3, <2>5
  <2> QED
    BY <2>6, <2>7
<1>4. PICK f : e \in Seq(Byte) /\ Decodes1(f, e, Len(e)) /\ f[Len(e)] = Decoder(text, <<>>)
  BY <1>1 DEF StandsFor, DecodedTo
<1>5. f[0] = Decoder(b, b)
  BY <1>1, <1>4 DEF Decodes1
<1>6. Len(e) \in Nat /\ 0 \in 0 .. Len(e)
  BY <1>4, LenProperties
<1>7. DecodesThere(e, 0, b, b)
  BY <1>4, <1>5, <1>6 DEF DecodesThere
<1>8. DecodesThere(e, 0, b, b)'
  BY <1>2, <1>7, SameDecoder
<1> QED
  BY <1>2, <1>3, <1>8 DEF RoundInv

\* A piece more is decoded.
LEMMA KeepsDecodes ==
  ASSUME EncoderInv, RoundInv, job.kind \in {"base64", "quoted-printable"}, worker.phase = "decode",
         NEW n \in ToDecode, Decodes(n, DecodedAfter(n).out, DecodedAfter(n).carry)
  PROVE  RoundInv'
<1>1. EncoderWorker(worker) /\ DecodesThere(worker.encoded, at, output, worker.carry)
  BY DEF EncoderInv, RoundInv
<1>2. PICK e, k : e = worker.encoded /\ k = at
  OBVIOUS
<1>3. PICK f, l : /\ l = Len(e) /\ l \in Nat /\ k \in 0 .. l /\ Decodes1(f, e, l)
                  /\ f[l] = Decoder(text, <<>>) /\ f[k] = Decoder(output, worker.carry)
  BY <1>1, <1>2 DEF DecodesThere
<1>4. n \in Nat /\ k + n \in 0 .. l /\ k \in Nat
  <2>1. {l - k, MaxPiece} \in SUBSET Nat /\ {l - k, MaxPiece} # {}
    BY <1>3, MaxPieceAssumption
  <2>2. PICK m : m = Min({l - k, MaxPiece})
    OBVIOUS
  <2>3. m \in Nat /\ m <= l - k
    BY <2>1, <2>2, MinOfNumbers
  <2>4. n \in 1 .. m
    BY <1>2, <1>3, <2>2 DEF ToDecode
  <2> QED
    BY <1>3, <2>3, <2>4
<1>5. PICK s, j : s = DecodedAfter(n) /\ j = k + n
  OBVIOUS
<1>6. s = f[j]
  <2>1. Decodes1(f, worker.encoded, l) /\ k + n <= l
    BY <1>2, <1>3, <1>4
  <2>2. DecodedAfter(n) = f[k + n]
    BY <1>2, <1>3, <1>4, <2>1, DecodedAfterIs
  <2> QED
    BY <1>5, <2>2
<1>7. PICK z, v : z = s.out /\ v = s.carry
  OBVIOUS
<1>8. f[j] = Decoder(z, v)
  <2>1. \A i \in 0 .. l : f[i] = Decoder(f[i].out, f[i].carry)
    BY <1>3, DecodersAll
  <2> QED
    BY <1>4, <1>5, <1>6, <1>7, <2>1
<1>9. PICK w : w = Decoded1(worker, v)
  OBVIOUS
<1>10. at' = j /\ output' = z /\ worker' = w /\ job' = job /\ text' = text
  BY <1>2, <1>5, <1>7, <1>9 DEF Decodes, Decoded1
<1>11. w.phase = "decode" /\ w.encoded = e /\ w.carry = v
  <2>1. PICK p, b, c, d : worker = [phase |-> p, carry |-> b, column |-> c, encoded |-> d]
    BY <1>1 DEF EncoderWorker
  <2>2. w = [phase |-> p, carry |-> v, column |-> c, encoded |-> d]
    BY <1>9, <2>1 DEF Decoded1
  <2>3. p = "decode" /\ d = e
    BY <1>2, <2>1
  <2> QED
    BY <2>2, <2>3
<1>12. DecodesThere(e, j, z, v)
  BY <1>3, <1>4, <1>5, <1>8 DEF DecodesThere
<1>13. DecodesThere(e, j, z, v)'
  BY <1>10, <1>12, SameDecoder
<1>14. worker'.phase = "decode" /\ worker'.encoded = e /\ worker'.carry = v
  BY <1>10, <1>11
<1> QED
  BY <1>10, <1>13, <1>14 DEF RoundInv

\* All was decoded.
LEMMA KeepsDecoded ==
  ASSUME EncoderInv, RoundInv, endDecode
  PROVE  RoundInv'
<1>1. job.kind \in {"base64", "quoted-printable"} /\ worker.phase = "decode" /\ at = Len(worker.encoded) /\ Decoded
  BY DEF endDecode
<1>2. EncoderWorker(worker) /\ DecodesThere(worker.encoded, at, output, worker.carry)
  BY <1>1 DEF EncoderInv, RoundInv
<1>3. PICK e, k, c : e = worker.encoded /\ k = at /\ c = worker.carry
  OBVIOUS
<1>4. PICK f, l : l = Len(e) /\ f[l] = Decoder(text, <<>>) /\ f[k] = Decoder(output, c)
  BY <1>2, <1>3 DEF DecodesThere
<1>5. Decoder(text, <<>>) = Decoder(output, c)
  BY <1>1, <1>3, <1>4
<1>6. text = output
  BY <1>5, DecoderHas
<1>7. output' = output /\ text' = text /\ worker' = [worker EXCEPT !.phase = "done"]
  BY <1>1 DEF Decoded
<1>8. worker'.phase = "done"
  <2>1. PICK w : w = Phase1(worker, "done")
    OBVIOUS
  <2>2. w.phase = "done"
    BY <1>2, <2>1, CarriesOn
  <2> QED
    BY <1>7, <2>1, <2>2 DEF Phase1
<1> QED
  BY <1>6, <1>7, <1>8 DEF RoundInv

\* All but the last byte, and that.
LEMMA FrontAndLast ==
  ASSUME NEW s \in Seq(Byte), NEW n \in Nat, n = Len(s), n > 0, Last(s) = SPACE
  PROVE  Front(s) \in Seq(Byte) /\ Front(s) \o <<SPACE>> = s
<1>1. PICK d, e, t : d = Front(s) /\ e = <<SPACE>> /\ t = d \o e
  OBVIOUS
<1>2. d \in Seq(Byte) /\ Len(d) = n - 1 /\ \A i \in 1 .. n - 1 : d[i] = s[i]
  BY <1>1, FrontIs
<1>3. e \in Seq(Byte) /\ Len(e) = 1 /\ e[1] = SPACE
  BY <1>1, SpaceIs
<1>4. t \in Seq(Byte) /\ Len(t) = n /\ \A i \in 1 .. n : t[i] = IF i <= n - 1 THEN d[i] ELSE e[i - (n - 1)]
  <2>1. t \in Seq(Byte) /\ Len(t) = Len(d) + Len(e) /\ \A i \in 1 .. Len(d) + Len(e) : t[i] = IF i <= Len(d) THEN d[i] ELSE e[i - Len(d)]
    BY <1>1, <1>2, <1>3, ConcatProperties
  <2>2. Len(d) = n - 1 /\ Len(d) + Len(e) = n
    BY <1>2, <1>3
  <2> QED
    BY <2>1, <2>2
<1>5. s[n] = SPACE
  BY DEF Last
<1>6. \A i \in 1 .. n : t[i] = s[i]
  <2> TAKE i \in 1 .. n
  <2>1. CASE i <= n - 1
    BY <1>2, <1>4, <2>1
  <2>2. CASE i = n
    <3>1. ~(i <= n - 1) /\ i - (n - 1) = 1
      BY <2>2
    <3> QED
      BY <1>3, <1>4, <1>5, <2>2, <3>1
  <2> QED
    BY <2>1, <2>2
<1>7. t = s
  BY <1>4, <1>6, SeqEqual
<1> QED
  BY <1>1, <1>2, <1>7

\* A piece in base64: what is written, and what waits.
LEMMA Base64Written == EncoderInv /\ RoundInv /\ encodeBase64 => RoundInv'
<1> SUFFICES ASSUME EncoderInv, RoundInv, encodeBase64
             PROVE  RoundInv'
  OBVIOUS
<1>1. job.kind = "base64" /\ worker.phase = "encode"
  BY DEF encodeBase64, Encoding
<1>2. text \in Seq(Byte) /\ at \in 0 .. Len(text) /\ B64SoFar(output, worker.carry, worker.column, at) /\ WrittenOf(output, worker.carry, at)
  BY <1>1 DEF EncoderInv, RoundInv
<1>3. PICK n, bytes, whole, lines :
        /\ n \in Sizes /\ bytes = worker.carry \o Piece(n) /\ whole = Len(bytes) - (Len(bytes) % 3)
        /\ lines = Base64Lines(SubSeq(bytes, 1, whole), worker.column)
        /\ Encodes(n, lines.out, SubSeq(bytes, whole + 1, Len(bytes)), lines.column)
  BY DEF encodeBase64
<1>4. PICK p, o, c : p = Piece(n) /\ o = output /\ c = worker.carry
  OBVIOUS
<1>5. PICK x : StandsFor(o, x) /\ o \in Seq(Byte) /\ c \in Seq(Byte) /\ x \o c = SubSeq(text, 1, at)
  BY <1>2, <1>4 DEF WrittenOf
<1>6. x \in Seq(Byte)
  BY <1>5 DEF StandsFor
<1>7. n \in Sizes /\ p \in Seq(Byte)
  <2>1. n \in Sizes
    BY <1>3
  <2> QED
    BY <1>2, <1>4, <2>1, NextPiece
<1>8. bytes \in Seq(Byte) /\ bytes = c \o p
  BY <1>3, <1>4, <1>5, <1>7, ConcatProperties
<1>9. PICK l \in Nat : l = Len(bytes)
  BY <1>8, LenProperties
<1>10. whole \in Nat /\ whole <= l
  <2>1. PICK m \in Nat : m = l % 3 /\ m <= l
    OBVIOUS
  <2>2. whole = l - m
    BY <1>3, <1>9, <2>1
  <2> QED
    BY <2>1, <2>2
<1>11. PICK b, d : b = SubSeq(bytes, 1, whole) /\ d = SubSeq(bytes, whole + 1, l)
  OBVIOUS
<1>12. b \in Seq(Byte) /\ d \in Seq(Byte) /\ b \o d = bytes
  <2>1. whole \in Nat /\ whole <= l /\ l <= Len(bytes)
    BY <1>9, <1>10
  <2>2. SubSeq(bytes, 1, whole) \o SubSeq(bytes, whole + 1, l) = SubSeq(bytes, 1, l) /\ b \in Seq(Byte) /\ d \in Seq(Byte)
    BY <1>8, <1>11, <2>1, BeginningAndPart
  <2>3. SubSeq(bytes, 1, l) = bytes
    BY <1>8, <1>9, SubSeqFull
  <2> QED
    BY <1>11, <2>2, <2>3
<1>13. worker.column \in Nat
  BY <1>2 DEF B64SoFar, B64State, Mailable
<1>14. Brings(o, lines, x \o b)
  BY <1>1, <1>3, <1>5, <1>11, <1>12, <1>13, Base64LinesDecode
<1>15. PICK y, col : lines = [out |-> y, column |-> col] /\ y \in Seq(Byte) /\ StandsFor(o \o y, x \o b)
  BY <1>14 DEF Brings
<1>16. lines.out = y /\ lines.column = col
  BY <1>15
<1>17. (x \o b) \o d = SubSeq(text, 1, at + n)
  <2>1. c \o Piece(n) = b \o d
    BY <1>4, <1>8, <1>12
  <2>2. n \in Sizes
    BY <1>7
  <2>3. Moves(n, x, c, b, d)
    BY <1>5, <1>6, <1>12, <2>1 DEF Moves
  <2>4. Moved(n, x, b, d)
    BY <1>2, <2>2, <2>3, PieceMore
  <2> QED
    BY <2>4 DEF Moved
<1>18. o \o y \in Seq(Byte)
  BY <1>5, <1>15, ConcatProperties
<1>19. PICK k : k = at + n
  OBVIOUS
<1>20. WrittenOf(o \o y, d, k)
  BY <1>12, <1>15, <1>17, <1>18, <1>19 DEF WrittenOf
<1>21. Encodes(n, y, d, col)
  BY <1>3, <1>9, <1>11, <1>16
<1> QED
  BY <1>1, <1>4, <1>19, <1>20, <1>21, KeepsWritten

\* What waited is written at the end.
LEMMA Base64WrittenOff == EncoderInv /\ RoundInv /\ endBase64 => RoundInv'
<1> SUFFICES ASSUME EncoderInv, RoundInv, endBase64
             PROVE  RoundInv'
  OBVIOUS
<1>1. job.kind = "base64" /\ worker.phase = "encode"
  BY DEF endBase64, Encoding
<1>2. text \in Seq(Byte) /\ B64SoFar(output, worker.carry, worker.column, at) /\ WrittenOf(output, worker.carry, at)
  BY <1>1 DEF EncoderInv, RoundInv
<1>3. PICK lines, o, c : lines = Base64Lines(worker.carry, worker.column) /\ o = output /\ c = worker.carry
  OBVIOUS
<1>4. ThenDecode(lines.out)
  BY <1>3 DEF endBase64
<1>5. PICK x : StandsFor(o, x) /\ o \in Seq(Byte) /\ c \in Seq(Byte) /\ x \o c = SubSeq(text, 1, at)
  BY <1>2, <1>3 DEF WrittenOf
<1>6. x \o c = text
  <2>1. PICK n : n = at /\ n = Len(text)
    BY <1>4 DEF ThenDecode, AllRead
  <2>2. SubSeq(text, 1, n) = text
    BY <1>2, <2>1, SubSeqFull
  <2> QED
    BY <1>5, <2>1, <2>2
<1>7. worker.column \in Nat
  BY <1>2 DEF B64SoFar, B64State, Mailable
<1>8. Brings(o, lines, x \o c)
  BY <1>1, <1>3, <1>5, <1>7, Base64LinesDecode
<1>9. PICK y, col : lines = [out |-> y, column |-> col] /\ StandsFor(o \o y, text)
  BY <1>6, <1>8 DEF Brings
<1>10. lines.out = y
  BY <1>9
<1> QED
  BY <1>1, <1>3, <1>4, <1>9, <1>10, KeepsAllWritten

\* A piece in quoted-printable: its space at the end may wait.
LEMMA QPWritten == EncoderInv /\ RoundInv /\ encodeQP => RoundInv'
<1> SUFFICES ASSUME EncoderInv, RoundInv, encodeQP
             PROVE  RoundInv'
  OBVIOUS
<1>1. job.kind = "quoted-printable" /\ worker.phase = "encode"
  BY DEF encodeQP, Encoding
<1>2. text \in Seq(Byte) /\ at \in 0 .. Len(text) /\ QPSoFar(output, worker.carry, worker.column, at) /\ WrittenOf(output, worker.carry, at)
  BY <1>1 DEF EncoderInv, RoundInv
<1>3. PICK n, bytes, waits, lines :
           /\ n \in Sizes /\ bytes = worker.carry \o Piece(n) /\ waits \in BOOLEAN /\ (waits <=> Last(bytes) = SPACE)
           /\ lines = QPLines(IF waits THEN Front(bytes) ELSE bytes, SPACE)
           /\ Encodes(n, lines.out, IF waits THEN <<SPACE>> ELSE <<>>, lines.column)
  BY PieceInQP
<1>4. PICK p, o, c : p = Piece(n) /\ o = output /\ c = worker.carry
  OBVIOUS
<1>5. PICK x : StandsFor(o, x) /\ o \in Seq(Byte) /\ c \in Seq(Byte) /\ x \o c = SubSeq(text, 1, at)
  BY <1>2, <1>4 DEF WrittenOf
<1>6. x \in Seq(Byte)
  BY <1>5 DEF StandsFor
<1>7. n \in Sizes /\ p \in Seq(Byte) /\ n \in Nat /\ n > 0 /\ Len(p) = n
  <2>1. n \in Sizes
    BY <1>3
  <2> QED
    BY <1>2, <1>4, <2>1, NextPiece
<1>8. bytes \in Seq(Byte) /\ bytes = c \o p /\ Len(bytes) \in Nat /\ Len(bytes) > 0
  <2>1. bytes \in Seq(Byte) /\ bytes = c \o p /\ Len(bytes) = Len(c) + Len(p)
    BY <1>3, <1>4, <1>5, <1>7, ConcatProperties
  <2>2. Len(c) \in Nat
    BY <1>5, LenProperties
  <2> QED
    BY <1>7, <2>1, <2>2
<1>9. PICK b, d : b = (IF waits THEN Front(bytes) ELSE bytes) /\ d = (IF waits THEN <<SPACE>> ELSE <<>>)
  OBVIOUS
<1>10. b \in Seq(Byte) /\ d \in Seq(Byte) /\ b \o d = bytes
  <2>1. CASE waits
    <3>1. Front(bytes) \in Seq(Byte) /\ Front(bytes) \o <<SPACE>> = bytes
      BY <1>3, <1>8, <2>1, FrontAndLast
    <3> QED
      BY <1>9, <2>1, <3>1, SpaceIs
  <2>2. CASE ~waits
    <3>1. PICK e : e = <<>>
      OBVIOUS
    <3>2. e \in Seq(Byte) /\ bytes \o e = bytes
      BY <1>8, <3>1, EmptySeq, ConcatEmptySeq
    <3> QED
      BY <1>8, <1>9, <2>2, <3>1, <3>2
  <2> QED
    BY <1>3, <2>1, <2>2
<1>11. worker.column \in Nat
  BY <1>2 DEF QPSoFar, QPState, Mailable
<1>12. Brings(o, lines, x \o b)
  <2>1. lines = QPLines(b, SPACE)
    BY <1>3, <1>9
  <2> QED
    BY <1>1, <1>5, <1>10, <1>11, <2>1, LinesDecode
<1>13. PICK y, col : lines = [out |-> y, column |-> col] /\ y \in Seq(Byte) /\ StandsFor(o \o y, x \o b)
  BY <1>12 DEF Brings
<1>14. lines.out = y /\ lines.column = col
  BY <1>13
<1>15. (x \o b) \o d = SubSeq(text, 1, at + n)
  <2>1. c \o Piece(n) = b \o d
    BY <1>4, <1>8, <1>10
  <2>2. n \in Sizes
    BY <1>7
  <2>3. Moves(n, x, c, b, d)
    BY <1>5, <1>6, <1>10, <2>1 DEF Moves
  <2>4. Moved(n, x, b, d)
    BY <1>2, <2>2, <2>3, PieceMore
  <2> QED
    BY <2>4 DEF Moved
<1>16. o \o y \in Seq(Byte)
  BY <1>5, <1>13, ConcatProperties
<1>17. PICK k : k = at + n
  OBVIOUS
<1>18. WrittenOf(o \o y, d, k)
  BY <1>10, <1>13, <1>15, <1>16, <1>17 DEF WrittenOf
<1>19. Encodes(n, y, d, col)
  BY <1>3, <1>9, <1>14
<1> QED
  BY <1>1, <1>4, <1>17, <1>18, <1>19, KeepsWritten

\* The space that waited is written at the end.
LEMMA QPWrittenOff == EncoderInv /\ RoundInv /\ endQP => RoundInv'
<1> SUFFICES ASSUME EncoderInv, RoundInv, endQP
             PROVE  RoundInv'
  OBVIOUS
<1>1. job.kind = "quoted-printable" /\ worker.phase = "encode"
  BY DEF endQP, Encoding
<1>2. text \in Seq(Byte) /\ QPSoFar(output, worker.carry, worker.column, at) /\ WrittenOf(output, worker.carry, at)
  BY <1>1 DEF EncoderInv, RoundInv
<1>3. PICK lines, o, c : lines = QPLines(worker.carry, NoByte) /\ o = output /\ c = worker.carry
  OBVIOUS
<1>4. ThenDecode(lines.out)
  BY <1>3 DEF endQP
<1>5. PICK x : StandsFor(o, x) /\ o \in Seq(Byte) /\ c \in Seq(Byte) /\ x \o c = SubSeq(text, 1, at)
  BY <1>2, <1>3 DEF WrittenOf
<1>6. x \o c = text
  <2>1. PICK n : n = at /\ n = Len(text)
    BY <1>4 DEF ThenDecode, AllRead
  <2>2. SubSeq(text, 1, n) = text
    BY <1>2, <2>1, SubSeqFull
  <2> QED
    BY <1>5, <2>1, <2>2
<1>7. worker.column \in Nat
  BY <1>2 DEF QPSoFar, QPState, Mailable
<1>8. Brings(o, lines, x \o c)
  BY <1>1, <1>3, <1>5, <1>7, LinesDecode
<1>9. PICK y, col : lines = [out |-> y, column |-> col] /\ StandsFor(o \o y, text)
  BY <1>6, <1>8 DEF Brings
<1>10. lines.out = y
  BY <1>9
<1> QED
  BY <1>1, <1>3, <1>4, <1>9, <1>10, KeepsAllWritten

\* Every step keeps it.
LEMMA RoundInvStep == EncoderInv /\ RoundInv /\ [Next]_streamVars => RoundInv'
<1>1. ASSUME EncoderInv, RoundInv, Next, job.kind \in {"base64", "quoted-printable"}
      PROVE  RoundInv'
  <2>1. EncoderNext
    BY <1>1, NextOfKind DEF Encoders
  <2>2. CASE encodeBase64
    BY <1>1, <2>2, Base64Written
  <2>3. CASE endBase64
    BY <1>1, <2>3, Base64WrittenOff
  <2>4. CASE encodeQP
    BY <1>1, <2>4, QPWritten
  <2>5. CASE endQP
    BY <1>1, <2>5, QPWrittenOff
  <2>6. CASE decodeBase64 \/ decodeQP
    <3>1. PICK n \in ToDecode : worker.phase = "decode" /\ Decodes(n, DecodedAfter(n).out, DecodedAfter(n).carry)
      BY <2>6 DEF decodeBase64, decodeQP, Decoding
    <3> QED
      BY <1>1, <3>1, KeepsDecodes
  <2>7. CASE endDecode
    BY <1>1, <2>7, KeepsDecoded
  <2>8. CASE encodeUU \/ endUU \/ decodeUU
    BY <1>1, <2>8 DEF encodeUU, endUU, decodeUU, Encoding, Decoding
  <2> QED
    BY <2>1, <2>2, <2>3, <2>4, <2>5, <2>6, <2>7, <2>8 DEF EncoderNext
<1>2. ASSUME Next, job.kind \notin {"base64", "quoted-printable"}
      PROVE  RoundInv'
  <2>1. job' = job
    BY <1>2, NextOfKind
  <2> QED
    BY <1>2, <2>1 DEF RoundInv
<1>3. ASSUME RoundInv, UNCHANGED streamVars
      PROVE  RoundInv'
  <2>1. job' = job /\ text' = text /\ at' = at /\ worker' = worker /\ output' = output
    BY <1>3 DEF streamVars
  <2>2. PICK o, c, k, e : o = output /\ c = worker.carry /\ k = at /\ e = worker.encoded
    OBVIOUS
  <2>3. WrittenOf(o, c, k)' = WrittenOf(o, c, k) /\ DecodesThere(e, k, o, c)' = DecodesThere(e, k, o, c)
    BY <2>1, SameDecoder
  <2>4. /\ WrittenOf(output, worker.carry, at)' = WrittenOf(output, worker.carry, at)
        /\ DecodesThere(worker.encoded, at, output, worker.carry)' = DecodesThere(worker.encoded, at, output, worker.carry)
    BY <2>1, <2>2, <2>3
  <2> QED
    BY <1>3, <2>1, <2>4 DEF RoundInv
<1> QED
  BY <1>1, <1>2, <1>3

-----------------------------------------------------------------------------
(* Uuencode. *)

\* A character stands for six bits.
LEMMA UUIs ==
  ASSUME NEW v \in Nat
  PROVE  UU(v) \in Byte /\ UU(v) >= 32 /\ UUValue(UU(v)) = v % 64 /\ (v < 64 => UU(v) = v + 32 /\ v % 64 = v)
<1>1. PICK a, r \in Nat : v = 64 * a + r /\ r < 64 /\ v % 64 = r
  <2>1. PICK a, r \in Nat : a = v \div 64 /\ r = v % 64
    OBVIOUS
  <2> QED
    BY <2>1
<1>2. PICK c : c = r + 32
  OBVIOUS
<1>3. UU(v) = c
  BY <1>1, <1>2 DEF UU, SPACE
<1>4. c \in Nat /\ c < 256 /\ c >= 32
  BY <1>1, <1>2
<1>5. UUValue(c) = r
  <2>1. (c - 32) % 64 = r
    <3>1. c - 32 = r /\ r % 64 = r
      BY <1>1, <1>2
    <3> QED
      BY <3>1
  <2> QED
    BY <2>1 DEF UUValue, SPACE
<1>6. v < 64 => r = v
  BY <1>1
<1> QED
  BY <1>1, <1>2, <1>3, <1>4, <1>5, <1>6, ByteIf

\* Three bytes are read from the four characters that stand for them.
UUBytes(p, q, r, s, x, y, z) ==
  x = (4 * p + (q \div 16)) % 256 /\ y = (16 * q + (r \div 4)) % 256 /\ z = (64 * r + s) % 256

\* There are such characters.
LEMMA ThreeUU ==
  ASSUME NEW x \in Nat, x < 256, NEW y \in Nat, y < 256, NEW z \in Nat, z < 256
  PROVE  \E p, q, r, s \in Nat : FourOf(x, y, z, p, q, r, s) /\ UUBytes(p, q, r, s, x, y, z)
<1>1. PICK a, b \in Nat : a < 64 /\ b < 4 /\ x = 4 * a + b
  BY Split4
<1>2. PICK c, d \in Nat : c < 16 /\ d < 16 /\ y = 16 * c + d
  BY Split16
<1>3. PICK e, s \in Nat : e < 4 /\ s < 64 /\ z = 64 * e + s
  BY Split64
<1>4. PICK q, r \in Nat : q = 16 * b + c /\ r = 4 * d + e
  OBVIOUS
<1>5. q < 64 /\ r < 64
  BY <1>1, <1>2, <1>3, <1>4
<1>6. FourOf(x, y, z, a, q, r, s)
  <2>1. 65536 * x + 256 * y + z = 262144 * a + 4096 * q + 64 * r + s
    BY <1>1, <1>2, <1>3, <1>4
  <2>2. (z = 0 => s = 0) /\ (y = 0 /\ z = 0 => r = 0)
    BY <1>2, <1>3, <1>4
  <2> QED
    BY <1>1, <1>3, <1>5, <2>1, <2>2 DEF FourOf
<1>7. q \div 16 = b /\ r \div 4 = d
  <2>1. q \div 16 = b
    BY <1>2, <1>4, By16
  <2>2. r \div 4 = d
    BY <1>3, <1>4, By4
  <2> QED
    BY <2>1, <2>2
<1>8. x = (4 * a + b) % 256
  <2>1. x % 256 = x
    OBVIOUS
  <2> QED
    BY <1>1, <2>1
<1>9. y = (16 * q + d) % 256
  <2>1. 16 * q + d = 256 * b + y
    BY <1>2, <1>4
  <2>2. PICK n : n = 16 * q + d
    OBVIOUS
  <2>3. n % 256 = y
    BY <2>1, <2>2, By256
  <2> QED
    BY <2>2, <2>3
<1>10. z = (64 * r + s) % 256
  <2>1. 64 * r + s = 256 * d + z
    BY <1>3, <1>4
  <2>2. PICK n : n = 64 * r + s
    OBVIOUS
  <2>3. n % 256 = z
    BY <2>1, <2>2, By256
  <2> QED
    BY <2>2, <2>3
<1>11. UUBytes(a, q, r, s, x, y, z)
  BY <1>7, <1>8, <1>9, <1>10 DEF UUBytes
<1> QED
  BY <1>6, <1>11

\* The three bytes of group g, and what the character k stands for.
ByteOrZero(d, i) == IF i <= Len(d) THEN d[i] ELSE 0
Three(d, g) == 65536 * ByteOrZero(d, 3 * g + 1) + 256 * ByteOrZero(d, 3 * g + 2) + ByteOrZero(d, 3 * g + 3)
Weight(k) == CASE k % 4 = 1 -> 262144 [] k % 4 = 2 -> 4096 [] k % 4 = 3 -> 64 [] OTHER -> 1
Quarter(k) == (k - 1) \div 4
SixBitsAt(d, k) == Three(d, Quarter(k)) \div Weight(k)
FourthAt(k, g, i) == g \in Nat /\ i \in Nat /\ i < 4 /\ k = 4 * g + i + 1
FourthIs(k, g, i) == /\ Quarter(k) = g
                     /\ Weight(k) = IF i = 0 THEN 262144 ELSE IF i = 1 THEN 4096 ELSE IF i = 2 THEN 64 ELSE 1

\* The group of a character, and its place in there.
LEMMA FourthOf ==
  ASSUME NEW g \in Nat, NEW i \in Nat, NEW k, FourthAt(k, g, i)
  PROVE  FourthIs(k, g, i)
<1>1. i < 4 /\ k = 4 * g + i + 1
  BY DEF FourthAt
<1>2. PICK h : h = k - 1 /\ h = 4 * g + i
  BY <1>1
<1>3. h \div 4 = g
  BY <1>1, <1>2, By4
<1>4. k % 4 = (IF i = 3 THEN 0 ELSE i + 1)
  <2>1. CASE i = 3
    <3>1. PICK a, b \in Nat : a = g + 1 /\ b = 0
      OBVIOUS
    <3>2. k = 4 * a + b
      BY <1>1, <2>1, <3>1
    <3>3. k % 4 = b
      BY <3>1, <3>2, By4
    <3> QED
      BY <2>1, <3>1, <3>3
  <2>2. CASE i # 3
    <3>1. PICK b \in Nat : b = i + 1
      OBVIOUS
    <3>2. k = 4 * g + b /\ b < 4
      BY <1>1, <2>2, <3>1
    <3>3. k % 4 = b
      BY <3>1, <3>2, By4
    <3> QED
      BY <2>2, <3>1, <3>3
  <2> QED
    BY <2>1, <2>2
<1>5. PICK c : c = k % 4
  OBVIOUS
<1>6. Weight(k) = CASE c = 1 -> 262144 [] c = 2 -> 4096 [] c = 3 -> 64 [] OTHER -> 1
  BY <1>5 DEF Weight
<1>7. Weight(k) = IF i = 0 THEN 262144 ELSE IF i = 1 THEN 4096 ELSE IF i = 2 THEN 64 ELSE 1
  BY <1>1, <1>4, <1>5, <1>6
<1> QED
  BY <1>2, <1>3, <1>7 DEF FourthIs, Quarter
CharacterIs(d, k, v) == SixBitsAt(d, k) \in Nat /\ SixBitsAt(d, k) % 64 = v
GroupRead(d, g) ==
  \E p, q, r, s \in Nat :
    /\ UUBytes(p, q, r, s, d[3 * g + 1], d[3 * g + 2], d[3 * g + 3])
    /\ CharacterIs(d, 4 * g + 1, p) /\ CharacterIs(d, 4 * g + 2, q) /\ CharacterIs(d, 4 * g + 3, r) /\ CharacterIs(d, 4 * g + 4, s)

\* The bytes of a group are read from its characters.
LEMMA SixBitsOfGroup ==
  ASSUME NEW d \in Seq(Byte), NEW m \in Nat, Len(d) = 3 * m, NEW g \in Nat, g < m
  PROVE  GroupRead(d, g)
<1>1. PICK x, y, z : x = d[3 * g + 1] /\ y = d[3 * g + 2] /\ z = d[3 * g + 3]
  OBVIOUS
<1>2. 3 * g + 1 \in 1 .. Len(d) /\ 3 * g + 2 \in 1 .. Len(d) /\ 3 * g + 3 \in 1 .. Len(d)
  OBVIOUS
<1>3. x \in Nat /\ x < 256 /\ y \in Nat /\ y < 256 /\ z \in Nat /\ z < 256
  <2>1. x \in Byte /\ y \in Byte /\ z \in Byte
    BY <1>1, <1>2, ElementOfSeq
  <2> QED
    BY <2>1, ByteIs
<1>4. Three(d, g) = 65536 * x + 256 * y + z
  BY <1>1, <1>2 DEF Three, ByteOrZero
<1>5. PICK all \in Nat : all = Three(d, g) /\ all = 65536 * x + 256 * y + z
  BY <1>3, <1>4
<1>6. Three(d, g) = all
  BY <1>5
<1>7. PICK p, q, r, s \in Nat : FourOf(x, y, z, p, q, r, s) /\ UUBytes(p, q, r, s, x, y, z)
  BY <1>3, ThreeUU
<1>8. SixBitsOf(all, p, q, r, s)
  <2>1. p < 64 /\ q < 64 /\ r < 64 /\ s < 64 /\ all = 262144 * p + 4096 * q + 64 * r + s
    BY <1>5, <1>7 DEF FourOf
  <2> QED
    BY <2>1, SixBitsAre
<1>9. PICK k1, k2, k3, k4 \in Nat : k1 = 4 * g + 1 /\ k2 = 4 * g + 2 /\ k3 = 4 * g + 3 /\ k4 = 4 * g + 4
  OBVIOUS
<1>10. SixBitsAt(d, k1) = all \div 262144
  <2>1. PICK i \in Nat : i = 0
    OBVIOUS
  <2>2. FourthAt(k1, g, i)
    BY <1>9, <2>1 DEF FourthAt
  <2>3. FourthIs(k1, g, i)
    BY <2>2, FourthOf
  <2>4. Quarter(k1) = g /\ Weight(k1) = 262144
    BY <2>1, <2>3 DEF FourthIs
  <2> QED
    BY <1>6, <2>4 DEF SixBitsAt
<1>11. SixBitsAt(d, k2) = all \div 4096
  <2>1. PICK i \in Nat : i = 1
    OBVIOUS
  <2>2. FourthAt(k2, g, i)
    BY <1>9, <2>1 DEF FourthAt
  <2>3. FourthIs(k2, g, i)
    BY <2>2, FourthOf
  <2>4. Quarter(k2) = g /\ Weight(k2) = 4096
    BY <2>1, <2>3 DEF FourthIs
  <2> QED
    BY <1>6, <2>4 DEF SixBitsAt
<1>12. SixBitsAt(d, k3) = all \div 64
  <2>1. PICK i \in Nat : i = 2
    OBVIOUS
  <2>2. FourthAt(k3, g, i)
    BY <1>9, <2>1 DEF FourthAt
  <2>3. FourthIs(k3, g, i)
    BY <2>2, FourthOf
  <2>4. Quarter(k3) = g /\ Weight(k3) = 64
    BY <2>1, <2>3 DEF FourthIs
  <2> QED
    BY <1>6, <2>4 DEF SixBitsAt
<1>13. SixBitsAt(d, k4) = all
  <2>1. PICK i \in Nat : i = 3
    OBVIOUS
  <2>2. FourthAt(k4, g, i)
    BY <1>9, <2>1 DEF FourthAt
  <2>3. FourthIs(k4, g, i)
    BY <2>2, FourthOf
  <2>4. Quarter(k4) = g /\ Weight(k4) = 1
    BY <2>1, <2>3 DEF FourthIs
  <2>5. all \div 1 = all
    OBVIOUS
  <2> QED
    BY <1>6, <2>4, <2>5 DEF SixBitsAt
<1>14. all \div 262144 \in Nat /\ all \div 4096 \in Nat /\ all \div 64 \in Nat
  OBVIOUS
<1>15. PICK n1, n2, n3 \in Nat : n1 = all \div 262144 /\ n2 = all \div 4096 /\ n3 = all \div 64
  BY <1>14
<1>16. n1 % 64 = p /\ n2 % 64 = q /\ n3 % 64 = r /\ all % 64 = s
  BY <1>8, <1>15 DEF SixBitsOf
<1>17. CharacterIs(d, k1, p)
  BY <1>10, <1>15, <1>16 DEF CharacterIs
<1>18. CharacterIs(d, k2, q)
  BY <1>11, <1>15, <1>16 DEF CharacterIs
<1>19. CharacterIs(d, k3, r)
  BY <1>12, <1>15, <1>16 DEF CharacterIs
<1>20. CharacterIs(d, k4, s)
  BY <1>13, <1>16 DEF CharacterIs
<1>21. UUBytes(p, q, r, s, d[3 * g + 1], d[3 * g + 2], d[3 * g + 3])
  BY <1>1, <1>7
<1> QED
  BY <1>9, <1>17, <1>18, <1>19, <1>20, <1>21 DEF GroupRead

\* What a character stands for is a number.
LEMMA SixBitsAtIs ==
  ASSUME NEW d \in Seq(Byte), NEW k \in Nat \ {0}
  PROVE  SixBitsAt(d, k) \in Nat
<1>1. PICK g \in Nat : g = Quarter(k)
  <2>1. PICK h \in Nat : h = k - 1
    OBVIOUS
  <2>2. h \div 4 \in Nat
    OBVIOUS
  <2> QED
    BY <2>1, <2>2 DEF Quarter
<1>2. \A i \in Nat \ {0} : ByteOrZero(d, i) \in Nat
  <2> TAKE i \in Nat \ {0}
  <2>1. CASE i <= Len(d)
    <3>1. i \in 1 .. Len(d)
      BY <2>1, LenProperties
    <3>2. d[i] \in Byte
      BY <3>1, ElementOfSeq
    <3> QED
      BY <2>1, <3>2, ByteIs DEF ByteOrZero
  <2>2. CASE ~(i <= Len(d))
    BY <2>2 DEF ByteOrZero
  <2> QED
    BY <2>1, <2>2
<1>3. PICK all \in Nat : all = Three(d, g)
  <2>1. 3 * g + 1 \in Nat \ {0} /\ 3 * g + 2 \in Nat \ {0} /\ 3 * g + 3 \in Nat \ {0}
    OBVIOUS
  <2>2. PICK x, y, z \in Nat : x = ByteOrZero(d, 3 * g + 1) /\ y = ByteOrZero(d, 3 * g + 2) /\ z = ByteOrZero(d, 3 * g + 3)
    BY <1>2, <2>1
  <2>3. 65536 * x + 256 * y + z \in Nat
    OBVIOUS
  <2> QED
    BY <2>2, <2>3 DEF Three
<1>4. PICK w : w = Weight(k)
  OBVIOUS
<1>5. w \in {262144, 4096, 64, 1}
  <2>1. PICK c : c = k % 4
    OBVIOUS
  <2>2. w = CASE c = 1 -> 262144 [] c = 2 -> 4096 [] c = 3 -> 64 [] OTHER -> 1
    BY <1>4, <2>1 DEF Weight
  <2> QED
    BY <2>2
<1>6. all \div 262144 \in Nat /\ all \div 4096 \in Nat /\ all \div 64 \in Nat /\ all \div 1 \in Nat
  OBVIOUS
<1>7. all \div w \in Nat
  BY <1>5, <1>6
<1> QED
  BY <1>1, <1>3, <1>4, <1>7 DEF SixBitsAt

\* A function on the first numbers is a sequence.
LEMMA FunctionIsList ==
  ASSUME NEW S, NEW n \in Nat, NEW t \in [1 .. n -> S]
  PROVE  t \in Seq(S) /\ Len(t) = n
<1>1. t \in Seq(S)
  OBVIOUS
<1>2. DOMAIN t = 1 .. n
  OBVIOUS
<1>3. Len(t) \in Nat /\ DOMAIN t = 1 .. Len(t)
  BY <1>1, LenProperties
<1> QED
  BY <1>1, <1>2, <1>3

\* A line: its length, the characters of its groups, its end.
UULineOf(u, d, m) ==
  /\ u \in Seq(Byte) /\ Len(u) = 4 * m + 3
  /\ u[1] = UU(3 * m)
  /\ \A k \in 1 .. 4 * m : u[k + 1] = UU(SixBitsAt(d, k))
  /\ u[4 * m + 2] = CR /\ u[4 * m + 3] = LF

\* The lines that the encoder writes.
LEMMA UULineIs ==
  ASSUME NEW d \in Seq(Byte), NEW m \in Nat, Len(d) = 3 * m
  PROVE  UULineOf(UULine(d), d, m)
<1>1. PICK n, l \in Nat : n = 4 * m /\ l = 3 * m
  OBVIOUS
<1>2. (l + 2) \div 3 = m
  <2>1. PICK a \in Nat : a = 3 * m + 2
    OBVIOUS
  <2>2. a \div 3 = m
    BY <2>1
  <2> QED
    BY <1>1, <2>1, <2>2
<1>3. PICK b : b = [k \in 1 .. n |-> UU(SixBitsAt(d, k))]
  OBVIOUS
<1>4. b \in Seq(Byte) /\ Len(b) = n /\ \A k \in 1 .. n : b[k] = UU(SixBitsAt(d, k))
  <2>1. \A k \in 1 .. n : UU(SixBitsAt(d, k)) \in Byte
    <3> TAKE k \in 1 .. n
    <3>1. SixBitsAt(d, k) \in Nat
      BY SixBitsAtIs
    <3> QED
      BY <3>1, UUIs
  <2>2. b \in [1 .. n -> Byte]
    BY <1>3, <2>1
  <2>3. b \in Seq(Byte) /\ Len(b) = n
    BY <2>2, FunctionIsList
  <2> QED
    BY <1>3, <2>3
<1>5. PICK a, e : a = <<UU(l)>> /\ e = CRLF
  OBVIOUS
<1>6. /\ a \in Seq(Byte) /\ Len(a) = 1 /\ a[1] = UU(l)
      /\ e \in Seq(Byte) /\ Len(e) = 2 /\ e[1] = CR /\ e[2] = LF
  <2>1. UU(l) \in Byte
    BY UUIs
  <2>2. a \in Seq(Byte) /\ Len(a) = 1 /\ a[1] = UU(l)
    BY <1>5, <2>1
  <2>3. CR \in Byte /\ LF \in Byte
    BY DEF CR, LF, Byte
  <2>4. e \in Seq(Byte) /\ Len(e) = 2 /\ e[1] = CR /\ e[2] = LF
    BY <1>5, <2>3 DEF CRLF
  <2> QED
    BY <2>2, <2>4
<1>7. UULine(d) = (a \o b) \o e
  <2>1. UULine(d) = <<UU(Len(d))>> \o [k \in 1 .. 4 * ((Len(d) + 2) \div 3) |-> UU(SixBitsAt(d, k))] \o CRLF
    BY DEF UULine, SixBitsAt, Three, ByteOrZero, Quarter, Weight
  <2> QED
    BY <1>1, <1>2, <1>3, <1>5, <2>1
<1>8. PICK s, u : s = a \o b /\ u = s \o e
  OBVIOUS
<1>9. s \in Seq(Byte) /\ Len(s) = n + 1 /\ s[1] = UU(l) /\ \A k \in 1 .. n : s[k + 1] = b[k]
  <2>1. s \in Seq(Byte) /\ Len(s) = n + 1 /\ \A i \in 1 .. n + 1 : s[i] = IF i <= 1 THEN a[i] ELSE b[i - 1]
    <3>1. s \in Seq(Byte) /\ Len(s) = Len(a) + Len(b) /\ \A i \in 1 .. Len(a) + Len(b) : s[i] = IF i <= Len(a) THEN a[i] ELSE b[i - Len(a)]
      BY <1>4, <1>6, <1>8, ConcatProperties
    <3>2. Len(a) = 1 /\ Len(a) + Len(b) = n + 1
      BY <1>4, <1>6
    <3> QED
      BY <3>1, <3>2
  <2>2. s[1] = UU(l)
    BY <1>6, <2>1
  <2>3. \A k \in 1 .. n : k + 1 \in 1 .. n + 1 /\ ~(k + 1 <= 1) /\ (k + 1) - 1 = k
    OBVIOUS
  <2> QED
    BY <2>1, <2>2, <2>3
<1>10. u \in Seq(Byte) /\ Len(u) = n + 3 /\ \A i \in 1 .. n + 3 : u[i] = IF i <= n + 1 THEN s[i] ELSE e[i - (n + 1)]
  <2>1. u \in Seq(Byte) /\ Len(u) = Len(s) + Len(e) /\ \A i \in 1 .. Len(s) + Len(e) : u[i] = IF i <= Len(s) THEN s[i] ELSE e[i - Len(s)]
    BY <1>6, <1>8, <1>9, ConcatProperties
  <2>2. Len(s) = n + 1 /\ Len(s) + Len(e) = n + 3
    BY <1>6, <1>9
  <2> QED
    BY <2>1, <2>2
<1>11. u[1] = UU(l) /\ \A k \in 1 .. n : u[k + 1] = UU(SixBitsAt(d, k))
  <2>1. 1 \in 1 .. n + 3 /\ 1 <= n + 1 /\ \A k \in 1 .. n : k + 1 \in 1 .. n + 3 /\ k + 1 <= n + 1
    OBVIOUS
  <2> QED
    BY <1>4, <1>9, <1>10, <2>1
<1>12. u[n + 2] = CR /\ u[n + 3] = LF
  <2>1. /\ n + 2 \in 1 .. n + 3 /\ ~(n + 2 <= n + 1) /\ (n + 2) - (n + 1) = 1
        /\ n + 3 \in 1 .. n + 3 /\ ~(n + 3 <= n + 1) /\ (n + 3) - (n + 1) = 2
    OBVIOUS
  <2> QED
    BY <1>6, <1>10, <2>1
<1>13. UULine(d) = u
  BY <1>7, <1>8
<1> QED
  BY <1>1, <1>10, <1>11, <1>12, <1>13 DEF UULineOf

\* The data of a line is what the line was made of.
LEMMA UUDataIs ==
  ASSUME NEW d \in Seq(Byte), NEW m \in Nat, Len(d) = 3 * m,
         NEW c \in Seq(Byte), Len(c) = 4 * m, \A k \in 1 .. 4 * m : c[k] = UU(SixBitsAt(d, k))
  PROVE  UUData(3 * m, c) = d
<1> DEFINE value(i) == UUValue(IF i <= Len(c) THEN c[i] ELSE 0)
           byte(k) == LET j == 4 * ((k - 1) \div 3) + ((k - 1) % 3) + 1 IN
             CASE k % 3 = 1 -> (4 * value(j) + (value(j + 1) \div 16)) % 256
               [] k % 3 = 2 -> (16 * value(j) + (value(j + 1) \div 4)) % 256
               [] OTHER -> (64 * value(j) + value(j + 1)) % 256
<1>1. PICK t : t = UUData(3 * m, c)
  OBVIOUS
<1>2. t = [k \in 1 .. 3 * m |-> byte(k)]
  BY <1>1 DEF UUData
<1>3. \A k \in 1 .. 4 * m : value(k) = SixBitsAt(d, k) % 64
  <2> TAKE k \in 1 .. 4 * m
  <2>1. k <= Len(c) /\ c[k] = UU(SixBitsAt(d, k))
    OBVIOUS
  <2>2. k \in Nat \ {0}
    OBVIOUS
  <2>3. PICK v \in Nat : v = SixBitsAt(d, k)
    <3>1. SixBitsAt(d, k) \in Nat
      BY <2>2, SixBitsAtIs
    <3> QED
      BY <3>1
  <2>4. UUValue(UU(v)) = v % 64
    BY UUIs
  <2>5. PICK h : h = UU(v)
    OBVIOUS
  <2>6. c[k] = h
    BY <2>1, <2>3, <2>5
  <2>7. value(k) = UUValue(h)
    BY <2>1, <2>6
  <2>8. UUValue(h) = v % 64
    BY <2>4, <2>5
  <2> QED
    BY <2>3, <2>7, <2>8
<1>4. ASSUME NEW g \in Nat, g < m
      PROVE  byte(3 * g + 1) = d[3 * g + 1] /\ byte(3 * g + 2) = d[3 * g + 2] /\ byte(3 * g + 3) = d[3 * g + 3]
  <2> HIDE DEF value
  <2>1. PICK p, q, r, s \in Nat :
          /\ UUBytes(p, q, r, s, d[3 * g + 1], d[3 * g + 2], d[3 * g + 3])
          /\ CharacterIs(d, 4 * g + 1, p) /\ CharacterIs(d, 4 * g + 2, q) /\ CharacterIs(d, 4 * g + 3, r) /\ CharacterIs(d, 4 * g + 4, s)
    BY <1>4, SixBitsOfGroup DEF GroupRead
  <2>2. value(4 * g + 1) = p /\ value(4 * g + 2) = q /\ value(4 * g + 3) = r /\ value(4 * g + 4) = s
    <3>1. 4 * g + 1 \in 1 .. 4 * m /\ 4 * g + 2 \in 1 .. 4 * m /\ 4 * g + 3 \in 1 .. 4 * m /\ 4 * g + 4 \in 1 .. 4 * m
      BY <1>4
    <3> QED
      BY <1>3, <2>1, <3>1 DEF CharacterIs
  <2>3. PICK k1, k2, k3 : k1 = 3 * g + 1 /\ k2 = 3 * g + 2 /\ k3 = 3 * g + 3
    OBVIOUS
  <2>4. /\ k1 % 3 = 1 /\ k2 % 3 = 2 /\ k3 % 3 = 0
        /\ (k1 - 1) \div 3 = g /\ (k2 - 1) \div 3 = g /\ (k3 - 1) \div 3 = g
        /\ (k1 - 1) % 3 = 0 /\ (k2 - 1) % 3 = 1 /\ (k3 - 1) % 3 = 2
    BY <2>3
  <2>5. byte(k1) = (4 * p + (q \div 16)) % 256
    <3>1. PICK j : j = 4 * ((k1 - 1) \div 3) + ((k1 - 1) % 3) + 1
      OBVIOUS
    <3>2. j = 4 * g + 1 /\ j + 1 = 4 * g + 2
      BY <2>4, <3>1
    <3>3. byte(k1) = (4 * value(j) + (value(j + 1) \div 16)) % 256
      BY <2>4, <3>1
    <3> QED
      BY <2>2, <3>2, <3>3
  <2>6. byte(k2) = (16 * q + (r \div 4)) % 256
    <3>1. PICK j : j = 4 * ((k2 - 1) \div 3) + ((k2 - 1) % 3) + 1
      OBVIOUS
    <3>2. j = 4 * g + 2 /\ j + 1 = 4 * g + 3
      BY <2>4, <3>1
    <3>3. byte(k2) = (16 * value(j) + (value(j + 1) \div 4)) % 256
      BY <2>4, <3>1
    <3> QED
      BY <2>2, <3>2, <3>3
  <2>7. byte(k3) = (64 * r + s) % 256
    <3>1. PICK j : j = 4 * ((k3 - 1) \div 3) + ((k3 - 1) % 3) + 1
      OBVIOUS
    <3>2. j = 4 * g + 3 /\ j + 1 = 4 * g + 4
      BY <2>4, <3>1
    <3>3. ~(k3 % 3 = 1) /\ ~(k3 % 3 = 2)
      BY <2>4
    <3>4. byte(k3) = (64 * value(j) + value(j + 1)) % 256
      BY <3>1, <3>3
    <3> QED
      BY <2>2, <3>2, <3>4
  <2> HIDE DEF byte
  <2> QED
    BY <2>1, <2>3, <2>5, <2>6, <2>7 DEF UUBytes
<1> HIDE DEF byte
<1>5. \A k \in 1 .. 3 * m : t[k] = d[k]
  <2> TAKE k \in 1 .. 3 * m
  <2>1. PICK g, i \in Nat : k = 3 * g + i + 1 /\ i < 3 /\ g < m
    <3>1. PICK h \in Nat : h = k - 1
      OBVIOUS
    <3>2. PICK g, i \in Nat : g = h \div 3 /\ i = h % 3
      OBVIOUS
    <3>3. h = 3 * g + i /\ i < 3
      BY <3>2
    <3>4. k = 3 * g + i + 1
      BY <3>1, <3>3
    <3>5. g < m
      BY <3>3, <3>4
    <3> QED
      BY <3>3, <3>4, <3>5
  <2>2. k = 3 * g + 1 \/ k = 3 * g + 2 \/ k = 3 * g + 3
    BY <2>1
  <2> QED
    BY <1>2, <1>4, <2>1, <2>2
<1>6. t \in Seq(Byte) /\ Len(t) = 3 * m
  <2>1. \A k \in 1 .. 3 * m : d[k] \in Byte
    BY ElementOfSeq
  <2>2. PICK n \in Nat : n = 3 * m
    OBVIOUS
  <2>3. t \in [1 .. n -> Byte]
    BY <1>2, <1>5, <2>1, <2>2
  <2> QED
    BY <2>2, <2>3, FunctionIsList
<1>7. t = d
  BY <1>5, <1>6, SeqEqual
<1> QED
  BY <1>1, <1>7

\* The decoder's turns, one by one, from the first character: each skips a line's end
\* or the prelude, or gives the bytes of a line.
SkipsLineEnd(e, p, k, q, j) == q = p + 1 /\ j = k /\ e[q] \in {CR, LF}
SkipsPrelude(e, p, k, q, j) == p = 0 /\ q = 7 /\ j = k /\ \A i \in 1 .. 7 : e[i] = Begin[i]
LineStands(e, p, k, m) ==
  /\ e[p + 1] = UU(3 * m)
  /\ \A i \in 1 .. 4 * m : e[p + (i + 1)] = UU(SixBitsAt(SubSeq(text, k + 1, k + 3 * m), i))
ReadsLine(e, p, k, q, j) ==
  \E m \in Nat : /\ m > 0 /\ m <= 15 /\ q = p + (4 * m + 1) /\ j = k + 3 * m
                 /\ LineStands(e, p, k, m)
Turn(e, p, k, q, j) ==
  /\ p \in Nat /\ k \in Nat /\ q \in Nat /\ j \in Nat /\ p < q /\ q <= Len(e) /\ j <= Len(text)
  /\ SkipsLineEnd(e, p, k, q, j) \/ SkipsPrelude(e, p, k, q, j) \/ ReadsLine(e, p, k, q, j)
Stops(S, e, n) ==
  /\ <<0, 0>> \in S /\ <<Len(e), n>> \in S
  /\ \A s \in S : s = <<Len(e), n>> \/ \E q, j : <<q, j>> \in S /\ Turn(e, s[1], s[2], q, j)
Traced(e, n) == e \in Seq(Byte) /\ \E S : Stops(S, e, n)

\* A turn is the same when more follows.
LEMMA TurnStays ==
  ASSUME NEW e \in Seq(Byte), NEW w \in Seq(Byte), NEW g, g = e \o w, NEW p, NEW k, NEW q, NEW j, Turn(e, p, k, q, j)
  PROVE  Turn(g, p, k, q, j)
<1>1. PICK l, r \in Nat : l = Len(e) /\ r = Len(w)
  BY LenProperties
<1>2. Len(g) = l + r /\ \A i \in 1 .. l : g[i] = e[i]
  <2>1. Len(e \o w) = Len(e) + Len(w) /\ \A i \in 1 .. Len(e) + Len(w) : (e \o w)[i] = IF i <= Len(e) THEN e[i] ELSE w[i - Len(e)]
    BY ConcatProperties
  <2>2. \A i \in 1 .. l : i \in 1 .. Len(e) + Len(w) /\ i <= Len(e)
    BY <1>1
  <2> QED
    BY <1>1, <2>1, <2>2
<1>3. /\ p \in Nat /\ k \in Nat /\ q \in Nat /\ j \in Nat /\ p < q /\ q <= l /\ j <= Len(text)
      /\ SkipsLineEnd(e, p, k, q, j) \/ SkipsPrelude(e, p, k, q, j) \/ ReadsLine(e, p, k, q, j)
  BY <1>1 DEF Turn
<1>4. p \in Nat /\ k \in Nat /\ q \in Nat /\ j \in Nat /\ p < q /\ q <= Len(g) /\ j <= Len(text)
  BY <1>2, <1>3
<1>5. ASSUME SkipsLineEnd(e, p, k, q, j)
      PROVE  SkipsLineEnd(g, p, k, q, j)
  <2>1. q \in 1 .. l
    BY <1>3
  <2> QED
    BY <1>2, <1>5, <2>1 DEF SkipsLineEnd
<1>6. ASSUME SkipsPrelude(e, p, k, q, j)
      PROVE  SkipsPrelude(g, p, k, q, j)
  <2>1. 1 .. 7 \subseteq 1 .. l
    BY <1>3, <1>6 DEF SkipsPrelude
  <2> QED
    BY <1>2, <1>6, <2>1 DEF SkipsPrelude
<1>7. ASSUME ReadsLine(e, p, k, q, j)
      PROVE  ReadsLine(g, p, k, q, j)
  <2>1. PICK m \in Nat : m > 0 /\ m <= 15 /\ q = p + (4 * m + 1) /\ j = k + 3 * m /\ LineStands(e, p, k, m)
    BY <1>7 DEF ReadsLine
  <2>2. p + 1 \in 1 .. l /\ \A i \in 1 .. 4 * m : p + (i + 1) \in 1 .. l
    BY <1>3, <2>1
  <2>3. LineStands(g, p, k, m)
    BY <1>2, <2>1, <2>2 DEF LineStands
  <2> QED
    BY <2>1, <2>3 DEF ReadsLine
<1> QED
  BY <1>3, <1>4, <1>5, <1>6, <1>7 DEF Turn

\* A turn more.
LEMMA TurnTaken ==
  ASSUME NEW e, NEW n, Traced(e, n), NEW w \in Seq(Byte), NEW g, g = e \o w, NEW j, Turn(g, Len(e), n, Len(g), j)
  PROVE  Traced(g, j)
<1>1. PICK S : e \in Seq(Byte) /\ Stops(S, e, n)
  BY DEF Traced
<1>2. PICK a, b : a = <<Len(e), n>> /\ b = <<Len(g), j>>
  OBVIOUS
<1>3. PICK T : T = S \cup {b}
  OBVIOUS
<1>4. <<0, 0>> \in T /\ b \in T /\ a \in T
  BY <1>1, <1>2, <1>3 DEF Stops
<1>5. ASSUME NEW s \in S
      PROVE  \E q, i : <<q, i>> \in T /\ Turn(g, s[1], s[2], q, i)
  <2>1. CASE s = a
    <3>1. s[1] = Len(e) /\ s[2] = n
      BY <1>2, <2>1
    <3> QED
      BY <1>2, <1>4, <3>1
  <2>2. CASE s # a
    <3>1. PICK q, i : <<q, i>> \in S /\ Turn(e, s[1], s[2], q, i)
      <4>1. \A z \in S : z = a \/ \E q, i : <<q, i>> \in S /\ Turn(e, z[1], z[2], q, i)
        BY <1>1, <1>2 DEF Stops
      <4> QED
        BY <1>5, <2>2, <4>1
    <3>2. Turn(g, s[1], s[2], q, i)
      BY <1>1, <3>1, TurnStays
    <3>3. <<q, i>> \in T
      BY <1>3, <3>1
    <3> QED
      BY <3>2, <3>3
  <2> QED
    BY <2>1, <2>2
<1>6. Stops(T, g, j)
  BY <1>2, <1>3, <1>4, <1>5 DEF Stops
<1>7. g \in Seq(Byte)
  BY <1>1, ConcatProperties
<1> QED
  BY <1>6, <1>7 DEF Traced

\* The end of a line more.
LEMMA LineEndTaken ==
  ASSUME text \in Seq(Byte), NEW e, NEW n \in Nat, n <= Len(text), Traced(e, n), NEW c \in {CR, LF}
  PROVE  Traced(e \o <<c>>, n)
<1>1. PICK w, g : w = <<c>> /\ g = e \o w
  OBVIOUS
<1>2. w \in Seq(Byte) /\ Len(w) = 1 /\ w[1] = c
  <2>1. c \in Byte
    BY DEF CR, LF, Byte
  <2> QED
    BY <1>1, <2>1
<1>3. PICK l \in Nat : e \in Seq(Byte) /\ l = Len(e)
  BY LenProperties DEF Traced
<1>4. Len(g) = l + 1 /\ g[l + 1] = c
  <2>1. Len(e \o w) = Len(e) + Len(w) /\ \A i \in 1 .. Len(e) + Len(w) : (e \o w)[i] = IF i <= Len(e) THEN e[i] ELSE w[i - Len(e)]
    BY <1>2, <1>3, ConcatProperties
  <2>2. l + 1 \in 1 .. Len(e) + Len(w) /\ ~(l + 1 <= Len(e)) /\ (l + 1) - Len(e) = 1
    BY <1>2, <1>3
  <2> QED
    BY <1>1, <1>2, <1>3, <2>1, <2>2
<1>5. SkipsLineEnd(g, l, n, l + 1, n)
  BY <1>4 DEF SkipsLineEnd
<1>6. Turn(g, l, n, l + 1, n)
  BY <1>3, <1>4, <1>5 DEF Turn
<1>7. Turn(g, Len(e), n, Len(g), n)
  BY <1>3, <1>4, <1>6
<1> QED
  BY <1>1, <1>2, <1>7, TurnTaken

\* A line more.
LEMMA LineTaken ==
  ASSUME text \in Seq(Byte), NEW e, NEW k \in Nat, Traced(e, k), NEW m \in Nat, m > 0, m <= 15, k + 3 * m <= Len(text)
  PROVE  Traced(e \o UULine(SubSeq(text, k + 1, k + 3 * m)), k + 3 * m)
<1>1. PICK d, u, j : d = SubSeq(text, k + 1, k + 3 * m) /\ u = UULine(d) /\ j = k + 3 * m
  OBVIOUS
<1>2. d \in Seq(Byte) /\ Len(d) = 3 * m
  <2>1. \A i \in k + 1 .. j : text[i] \in Byte
    <3>1. k + 1 .. j \subseteq 1 .. Len(text)
      BY <1>1
    <3> QED
      BY <3>1, ElementOfSeq
  <2>2. PICK a, b \in Int : a = k + 1 /\ b = k + 3 * m
    OBVIOUS
  <2>3. d \in Seq(Byte) /\ Len(d) = IF a <= b THEN b - a + 1 ELSE 0
    BY <1>1, <2>1, <2>2, SubSeqProperties
  <2> QED
    BY <2>2, <2>3
<1>3. UULineOf(u, d, m)
  BY <1>1, <1>2, UULineIs
<1>4. PICK n \in Nat : n = 4 * m + 1
  OBVIOUS
<1>5. /\ u \in Seq(Byte) /\ Len(u) = n + 2 /\ u[1] = UU(3 * m) /\ u[n + 1] = CR /\ u[n + 2] = LF
      /\ \A i \in 1 .. 4 * m : u[i + 1] = UU(SixBitsAt(d, i))
  <2>1. Len(u) = 4 * m + 3 /\ u[4 * m + 2] = CR /\ u[4 * m + 3] = LF
    BY <1>3 DEF UULineOf
  <2>2. 4 * m + 3 = n + 2 /\ 4 * m + 2 = n + 1
    BY <1>4
  <2> QED
    BY <1>3, <2>1, <2>2 DEF UULineOf
<1>6. PICK v, x, y : v = SubSeq(u, 1, n) /\ x = <<CR>> /\ y = <<LF>>
  OBVIOUS
<1>7. v \in Seq(Byte) /\ Len(v) = n /\ \A i \in 1 .. n : v[i] = u[i]
  <2>1. \A i \in 1 .. n : u[i] \in Byte
    <3>1. 1 .. n \subseteq 1 .. Len(u)
      BY <1>5
    <3> QED
      BY <1>5, <3>1, ElementOfSeq
  <2>2. 1 \in Int /\ n \in Int /\ 1 <= n /\ n - 1 + 1 = n
    BY <1>4
  <2>3. v \in Seq(Byte) /\ Len(v) = (IF 1 <= n THEN n - 1 + 1 ELSE 0) /\ \A i \in 1 .. n - 1 + 1 : v[i] = u[1 + i - 1]
    BY <1>6, <2>1, <2>2, SubSeqProperties
  <2> QED
    BY <2>2, <2>3
<1>8. x \in Seq(Byte) /\ y \in Seq(Byte) /\ Len(x) = 1 /\ Len(y) = 1 /\ x[1] = CR /\ y[1] = LF
  <2>1. CR \in Byte /\ LF \in Byte
    BY DEF CR, LF, Byte
  <2> QED
    BY <1>6, <2>1
<1>9. u = (v \o x) \o y
  <2>1. PICK s, t : s = v \o x /\ t = s \o y
    OBVIOUS
  <2>2. s \in Seq(Byte) /\ Len(s) = n + 1 /\ s[n + 1] = CR /\ \A i \in 1 .. n : s[i] = u[i]
    <3>1. s \in Seq(Byte) /\ Len(s) = Len(v) + Len(x) /\ \A i \in 1 .. Len(v) + Len(x) : s[i] = IF i <= Len(v) THEN v[i] ELSE x[i - Len(v)]
      BY <1>7, <1>8, <2>1, ConcatProperties
    <3>2. Len(v) + Len(x) = n + 1 /\ Len(v) = n
      BY <1>7, <1>8
    <3>3. s[n + 1] = x[1]
      BY <3>1, <3>2
    <3>4. \A i \in 1 .. n : s[i] = v[i]
      BY <3>1, <3>2
    <3> QED
      BY <1>7, <1>8, <3>1, <3>2, <3>3, <3>4
  <2>3. t \in Seq(Byte) /\ Len(t) = n + 2 /\ t[n + 2] = LF /\ \A i \in 1 .. n + 1 : t[i] = s[i]
    <3>1. t \in Seq(Byte) /\ Len(t) = Len(s) + Len(y) /\ \A i \in 1 .. Len(s) + Len(y) : t[i] = IF i <= Len(s) THEN s[i] ELSE y[i - Len(s)]
      <4>1. s \in Seq(Byte) /\ y \in Seq(Byte) /\ t = s \o y
        BY <1>8, <2>1, <2>2
      <4> QED
        BY <4>1, ConcatProperties
    <3>2. Len(s) + Len(y) = n + 2 /\ Len(s) = n + 1
      BY <1>8, <2>2
    <3>3. t[n + 2] = y[1]
      BY <3>1, <3>2
    <3>4. \A i \in 1 .. n + 1 : t[i] = s[i]
      BY <3>1, <3>2
    <3> QED
      BY <1>8, <3>1, <3>2, <3>3, <3>4
  <2>4. \A i \in 1 .. n + 2 : t[i] = u[i]
    <3> TAKE i \in 1 .. n + 2
    <3>1. i \in 1 .. n \/ i = n + 1 \/ i = n + 2
      OBVIOUS
    <3>2. n + 1 \in 1 .. n + 1 /\ 1 .. n \subseteq 1 .. n + 1
      OBVIOUS
    <3> QED
      BY <1>5, <2>2, <2>3, <3>1, <3>2
  <2>5. t = u
    BY <1>5, <2>3, <2>4, SeqEqual
  <2> QED
    BY <2>1, <2>5
<1>10. PICK l, g : e \in Seq(Byte) /\ l = Len(e) /\ l \in Nat /\ g = e \o v
  BY LenProperties DEF Traced
<1>11. g \in Seq(Byte) /\ Len(g) = l + n /\ \A i \in 1 .. n : g[l + i] = u[i]
  <2>1. g \in Seq(Byte) /\ Len(g) = Len(e) + Len(v) /\ \A i \in 1 .. Len(e) + Len(v) : g[i] = IF i <= Len(e) THEN e[i] ELSE v[i - Len(e)]
    BY <1>7, <1>10, ConcatProperties
  <2>2. \A i \in 1 .. n : l + i \in 1 .. Len(e) + Len(v) /\ ~(l + i <= Len(e)) /\ (l + i) - Len(e) = i
    BY <1>7, <1>10
  <2> QED
    BY <1>7, <1>10, <2>1, <2>2
<1>12. LineStands(g, l, k, m)
  <2>1. 1 \in 1 .. n /\ \A i \in 1 .. 4 * m : i + 1 \in 1 .. n
    BY <1>4
  <2>2. g[l + 1] = UU(3 * m)
    BY <1>5, <1>11, <2>1
  <2>3. \A i \in 1 .. 4 * m : g[l + (i + 1)] = UU(SixBitsAt(d, i))
    BY <1>5, <1>11, <2>1
  <2> QED
    BY <1>1, <2>2, <2>3 DEF LineStands
<1>13. ReadsLine(g, l, k, l + n, j)
  BY <1>1, <1>4, <1>12 DEF ReadsLine
<1>14. Turn(g, l, k, l + n, j)
  BY <1>1, <1>4, <1>10, <1>11, <1>13 DEF Turn
<1>15. Traced(g, j)
  <2>1. Turn(g, Len(e), k, Len(g), j)
    BY <1>10, <1>11, <1>14
  <2> QED
    BY <1>7, <1>10, <2>1, TurnTaken
<1>16. j \in Nat /\ j <= Len(text)
  BY <1>1
<1>17. Traced(g \o x, j)
  BY <1>6, <1>15, <1>16, LineEndTaken
<1>18. Traced((g \o x) \o y, j)
  BY <1>6, <1>16, <1>17, LineEndTaken
<1>19. (g \o x) \o y = e \o u
  <2>1. PICK z : z = v \o x /\ z \in Seq(Byte)
    BY <1>7, <1>8, ConcatProperties
  <2>2. g \o x = e \o z
    <3>1. e \in Seq(Byte) /\ v \in Seq(Byte) /\ x \in Seq(Byte)
      BY <1>7, <1>8, <1>10
    <3>2. (e \o v) \o x = e \o (v \o x)
      BY <3>1, Associative
    <3> QED
      BY <1>10, <2>1, <3>2
  <2>3. (e \o z) \o y = e \o (z \o y)
    <3>1. e \in Seq(Byte) /\ z \in Seq(Byte) /\ y \in Seq(Byte)
      BY <1>8, <1>10, <2>1
    <3> QED
      BY <3>1, Associative
  <2>4. PICK s : s = g \o x
    OBVIOUS
  <2>5. s = e \o z /\ u = z \o y
    BY <1>9, <2>1, <2>2, <2>4
  <2>6. s \o y = e \o u
    BY <2>3, <2>5
  <2> QED
    BY <2>4, <2>6
<1> QED
  BY <1>1, <1>18, <1>19

\* The prelude.
LEMMA PreludeTraced == text \in Seq(Byte) => Traced(Begin, 0)
<1> SUFFICES ASSUME text \in Seq(Byte)
             PROVE  Traced(Begin, 0)
  OBVIOUS
<1>1. PICK e, a, b : e = Begin /\ a = <<0, 0>> /\ b = <<7, 0>>
  OBVIOUS
<1>2. e \in Seq(Byte) /\ Len(e) = 7
  BY <1>1 DEF Begin, CRLF, CR, LF, Byte
<1>3. SkipsPrelude(e, 0, 0, 7, 0)
  BY <1>1 DEF SkipsPrelude
<1>4. Len(text) \in Nat
  BY LenProperties
<1>5. Turn(e, 0, 0, 7, 0)
  BY <1>2, <1>3, <1>4 DEF Turn
<1>6. PICK S : S = {a, b}
  OBVIOUS
<1>7. Stops(S, e, 0)
  <2>1. a \in S /\ b \in S /\ Turn(e, a[1], a[2], 7, 0) /\ <<Len(e), 0>> = b
    BY <1>1, <1>2, <1>5, <1>6
  <2>2. \A s \in S : s = b \/ \E q, j : <<q, j>> \in S /\ Turn(e, s[1], s[2], q, j)
    BY <1>1, <1>6, <2>1
  <2> QED
    BY <1>1, <2>1, <2>2 DEF Stops
<1> QED
  BY <1>1, <1>2, <1>7 DEF Traced

-----------------------------------------------------------------------------
(* The steps of a round trip in uuencode. *)

\* While it encodes, the decoder's turns would give the text read; while it decodes,
\* it is at one of them.
UUWritten(o, k) == k <= Len(text) /\ (\E a \in Nat : k = 3 * a) /\ Traced(o, k)
UUThere(e, p, o) ==
  \E f, S, k : /\ f \in Seq(Byte) /\ e = f \o End /\ Stops(S, f, Len(text))
               /\ <<p, k>> \in S /\ o = SubSeq(text, 1, k)
WholeLines == Len(text) % 3 = 0 /\ job.maxLineLength % 3 = 1
UUInv ==
  job.kind = "uuencode" /\ WholeLines =>
    /\ text \in Seq(Byte) /\ job.maxLineLength \in 2 .. 46 /\ EncoderWorker(worker)
    /\ worker.phase = "encode" => UUWritten(output, at)
    /\ worker.phase = "decode" => UUThere(worker.encoded, at, output)
    /\ worker.phase = "done" => output = text

\* The text stays.
LEMMA SameTurns ==
  ASSUME text' = text
  PROVE  /\ \A o, k : UUWritten(o, k)' = UUWritten(o, k)
         /\ \A e, p, o : UUThere(e, p, o)' = UUThere(e, p, o)
<1>1. \A e, p, k, q, j : ReadsLine(e, p, k, q, j)' = ReadsLine(e, p, k, q, j)
  BY DEF ReadsLine, LineStands
<1>2. \A e, p, k, q, j : Turn(e, p, k, q, j)' = Turn(e, p, k, q, j)
  BY <1>1 DEF Turn
<1>3. \A S, e, n : Stops(S, e, n)' = Stops(S, e, n)
  BY <1>2 DEF Stops
<1>4. \A e, n : Traced(e, n)' = Traced(e, n)
  BY <1>3 DEF Traced
<1>5. \A o, k : UUWritten(o, k)' = UUWritten(o, k)
  BY <1>4 DEF UUWritten
<1>6. \A e, p, o : UUThere(e, p, o)' = UUThere(e, p, o)
  BY <1>3 DEF UUThere
<1> QED
  BY <1>5, <1>6

\* The prelude is written first.
LEMMA UUInvInit == Init => UUInv
<1> SUFFICES ASSUME Init, job.kind = "uuencode"
             PROVE  UUInv
  BY DEF UUInv
<1>1. EncoderInit
  BY InitOfKind DEF Encoders
<1>2. at = 0 /\ worker = Fresh /\ output = Begin /\ text \in Binaries /\ job.maxLineLength \in UULineLengths
  BY <1>1 DEF EncoderInit
<1>3. text \in Seq(Byte) /\ job.maxLineLength \in 2 .. 46
  BY <1>2, EncoderAssumption
<1>4. EncoderWorker(worker) /\ worker.phase = "encode"
  BY <1>2 DEF EncoderWorker, Fresh
<1>5. Traced(output, 0)
  BY <1>2, <1>3, PreludeTraced
<1>6. UUWritten(output, at)
  <2>1. 0 <= Len(text) /\ 0 = 3 * 0
    BY <1>3, LenProperties
  <2> QED
    BY <1>2, <1>5, <2>1 DEF UUWritten
<1> QED
  BY <1>3, <1>4, <1>6 DEF UUInv

\* How many bytes a line has.
LEMMA LineOfThrees ==
  ASSUME NEW n \in Nat, n % 3 = 0, NEW limit \in Nat, limit >= 2, limit <= 46, limit % 3 = 1,
         NEW a \in Nat, 3 * a < n
  PROVE  \E m \in Nat : m > 0 /\ m <= 15 /\ 3 * a + 3 * m <= n /\ Min({limit - 1, n - 3 * a}) = 3 * m
<1>1. PICK b \in Nat : n = 3 * b
  OBVIOUS
<1>2. PICK c \in Nat : limit = 3 * c + 1
  OBVIOUS
<1>3. c > 0 /\ c <= 15 /\ b > a
  BY <1>1, <1>2
<1>4. PICK x, y \in Nat : x = limit - 1 /\ y = n - 3 * a /\ x = 3 * c /\ y = 3 * b - 3 * a
  <2>1. PICK x, y : x = limit - 1 /\ y = n - 3 * a
    OBVIOUS
  <2>2. x \in Nat /\ x = 3 * c
    BY <1>2, <1>3, <2>1
  <2>3. y \in Nat /\ y = 3 * b - 3 * a
    BY <1>1, <1>3, <2>1
  <2> QED
    BY <2>1, <2>2, <2>3
<1>5. {x, y} \in SUBSET Nat /\ {x, y} # {}
  OBVIOUS
<1>6. PICK z : z = Min({x, y})
  OBVIOUS
<1>7. z \in {x, y} /\ z <= x /\ z <= y
  BY <1>5, <1>6, MinOfNumbers
<1>8. CASE z = x
  BY <1>3, <1>4, <1>6, <1>7, <1>8, <1>1
<1>9. CASE z = y
  <2>1. PICK m \in Nat : m = b - a
    BY <1>3
  <2>2. z = 3 * m /\ m > 0 /\ m <= 15 /\ 3 * a + 3 * m <= n
    BY <1>1, <1>3, <1>4, <1>7, <1>9, <2>1
  <2> QED
    BY <1>4, <1>6, <2>2
<1> QED
  BY <1>7, <1>8, <1>9

\* A line more was written.
LEMMA UULineWritten == UUInv /\ encodeUU => UUInv'
<1> SUFFICES ASSUME UUInv, encodeUU
             PROVE  UUInv'
  OBVIOUS
<1>1. job.kind = "uuencode" /\ worker.phase = "encode" /\ at # Len(text)
  BY DEF encodeUU, Encoding, AllRead
<1>2. PICK n : n = Min({job.maxLineLength - 1, Len(text) - at}) /\ Encodes(n, UULine(Piece(n)), <<>>, 0)
  BY DEF encodeUU
<1>3. PICK none, zero : none = <<>> /\ zero = 0
  OBVIOUS
<1>4. PICK w : w = Encoded1(worker, none, zero)
  OBVIOUS
<1>5. job' = job /\ text' = text /\ at' = at + n /\ output' = output \o UULine(Piece(n)) /\ worker' = w
  BY <1>2, <1>3, <1>4 DEF Encodes, Encoded1
<1>6. CASE ~WholeLines
  <2>1. ~WholeLines'
    BY <1>5, <1>6 DEF WholeLines
  <2> QED
    BY <2>1 DEF UUInv
<1>7. CASE WholeLines
  <2>1. text \in Seq(Byte) /\ job.maxLineLength \in 2 .. 46 /\ EncoderWorker(worker) /\ UUWritten(output, at)
    BY <1>1, <1>7 DEF UUInv
  <2>2. PICK a \in Nat : at = 3 * a /\ at <= Len(text) /\ Traced(output, at)
    BY <2>1 DEF UUWritten
  <2>3. PICK l \in Nat : l = Len(text) /\ l % 3 = 0
    BY <1>7, <2>1, LenProperties DEF WholeLines
  <2>4. PICK limit \in Nat : limit = job.maxLineLength /\ limit >= 2 /\ limit <= 46 /\ limit % 3 = 1
    <3>1. PICK limit : limit = job.maxLineLength
      OBVIOUS
    <3>2. limit \in 2 .. 46
      BY <2>1, <3>1
    <3>3. limit \in Nat /\ limit >= 2 /\ limit <= 46
      BY <3>2
    <3>4. limit % 3 = 1
      BY <1>7, <3>1 DEF WholeLines
    <3> QED
      BY <3>1, <3>3, <3>4
  <2>5. 3 * a < l
    BY <1>1, <2>2, <2>3
  <2>6. PICK m \in Nat : m > 0 /\ m <= 15 /\ 3 * a + 3 * m <= l /\ n = 3 * m
    <3>1. n = Min({limit - 1, l - 3 * a})
      BY <1>2, <2>2, <2>3, <2>4
    <3>2. PICK m \in Nat : m > 0 /\ m <= 15 /\ 3 * a + 3 * m <= l /\ Min({limit - 1, l - 3 * a}) = 3 * m
      BY <2>3, <2>4, <2>5, LineOfThrees
    <3> QED
      BY <3>1, <3>2
  <2>7. PICK k \in Nat : k = 3 * a
    OBVIOUS
  <2>8. Traced(output \o UULine(SubSeq(text, k + 1, k + 3 * m)), k + 3 * m)
    <3>1. Traced(output, k) /\ k + 3 * m <= Len(text)
      BY <2>2, <2>3, <2>6, <2>7
    <3> QED
      BY <2>1, <2>6, <3>1, LineTaken
  <2>9. output' = output \o UULine(SubSeq(text, k + 1, k + 3 * m)) /\ at' = k + 3 * m
    BY <1>5, <2>2, <2>6, <2>7 DEF Piece
  <2>10. PICK o, j : o = output' /\ j = at'
    OBVIOUS
  <2>11. UUWritten(output', at')
    <3>1. k + 3 * m <= Len(text) /\ k + 3 * m = 3 * (a + m) /\ a + m \in Nat
      BY <2>3, <2>6, <2>7
    <3> QED
      BY <2>8, <2>9, <3>1 DEF UUWritten
  <2>12. UUWritten(o, j)'
    BY <1>5, <2>10, <2>11, SameTurns
  <2>13. w.phase = "encode" /\ EncoderWorker(w)
    BY <1>1, <1>4, <2>1, CarriesOn
  <2> QED
    BY <1>5, <2>1, <2>10, <2>12, <2>13 DEF UUInv, EncoderWorker
<1> QED
  BY <1>6, <1>7

\* All was written: the decoder starts.
LEMMA UUWrittenOff == UUInv /\ endUU => UUInv'
<1> SUFFICES ASSUME UUInv, endUU
             PROVE  UUInv'
  OBVIOUS
<1>1. job.kind = "uuencode" /\ worker.phase = "encode" /\ ThenDecode(End)
  BY DEF endUU, Encoding
<1>2. PICK none, zero, e : none = <<>> /\ zero = 0 /\ e = output \o End
  OBVIOUS
<1>3. /\ job' = job /\ text' = text /\ at' = zero /\ output' = none /\ at = Len(text)
      /\ worker' = [Fresh EXCEPT !.phase = "decode", !.encoded = e]
  BY <1>1, <1>2 DEF ThenDecode, AllRead
<1>4. CASE ~WholeLines
  <2>1. ~WholeLines'
    BY <1>3, <1>4 DEF WholeLines
  <2> QED
    BY <2>1 DEF UUInv
<1>5. CASE WholeLines
  <2>1. text \in Seq(Byte) /\ job.maxLineLength \in 2 .. 46 /\ Traced(output, at)
    BY <1>1, <1>5 DEF UUInv, UUWritten
  <2>2. PICK S : output \in Seq(Byte) /\ Stops(S, output, Len(text))
    BY <1>3, <2>1 DEF Traced
  <2>3. <<0, 0>> \in S
    BY <2>2 DEF Stops
  <2>4. none = SubSeq(text, 1, 0)
    BY <1>2, SubSeqEmpty
  <2>5. UUThere(e, zero, none)
    BY <1>2, <2>2, <2>3, <2>4 DEF UUThere
  <2>6. PICK y : y = worker'
    OBVIOUS
  <2>7. y = [phase |-> "decode", carry |-> none, column |-> zero, encoded |-> e]
    <3>1. PICK f : f = Fresh
      OBVIOUS
    <3>2. f = [phase |-> "encode", carry |-> none, column |-> zero, encoded |-> none]
      BY <1>2, <3>1 DEF Fresh
    <3>3. PICK x : x = [f EXCEPT !.phase = "decode"]
      OBVIOUS
    <3>4. x = [phase |-> "decode", carry |-> none, column |-> zero, encoded |-> none]
      BY <3>2, <3>3
    <3>5. y = [x EXCEPT !.encoded = e]
      BY <1>3, <2>6, <3>1, <3>3
    <3> QED
      BY <3>4, <3>5
  <2>8. y.phase = "decode" /\ y.encoded = e /\ EncoderWorker(y)
    BY <2>7 DEF EncoderWorker
  <2>9. UUThere(e, zero, none)'
    BY <1>3, <2>5, SameTurns
  <2> QED
    BY <1>3, <2>1, <2>6, <2>8, <2>9 DEF UUInv, EncoderWorker
<1> QED
  BY <1>4, <1>5

\* The end of a sequence.
LEMMA EndOf ==
  ASSUME NEW e \in Seq(Byte), NEW p \in Nat, NEW n \in Nat, n = Len(e), p <= n, NEW r, r = SubSeq(e, p + 1, n)
  PROVE  r \in Seq(Byte) /\ Len(r) = n - p /\ \A i \in 1 .. n - p : r[i] = e[p + i]
<1>1. PICK a \in Int : a = p + 1
  OBVIOUS
<1>2. \A i \in a .. n : e[i] \in Byte
  <2>1. a .. n \subseteq 1 .. n
    BY <1>1
  <2> QED
    BY <2>1, ElementOfSeq
<1>3. r = SubSeq(e, a, n)
  BY <1>1
<1>4. r \in Seq(Byte) /\ Len(r) = (IF a <= n THEN n - a + 1 ELSE 0) /\ \A i \in 1 .. n - a + 1 : r[i] = e[a + i - 1]
  BY <1>2, <1>3, SubSeqProperties
<1>5. Len(r) = n - p /\ n - a + 1 = n - p /\ \A i \in 1 .. n - p : a + i - 1 = p + i
  BY <1>1, <1>4
<1> QED
  BY <1>4, <1>5

\* What the decoder has not read.
HasRead(f, e, p, r) == e = f \o End /\ p <= Len(f) /\ r = SubSeq(e, p + 1, Len(e))
IsRest(f, e, p, r) ==
  /\ e \in Seq(Byte) /\ Len(e) = Len(f) + 5 /\ r \in Seq(Byte) /\ Len(r) = Len(e) - p
  /\ r # <<>> /\ Head(r) = r[1] /\ \A i \in 1 .. Len(r) : r[i] = e[p + i]

\* It is the end of what was written.
LEMMA RestIs ==
  ASSUME NEW f \in Seq(Byte), NEW e, NEW p \in Nat, NEW r, HasRead(f, e, p, r)
  PROVE  IsRest(f, e, p, r)
<1>1. e = f \o End /\ p <= Len(f) /\ r = SubSeq(e, p + 1, Len(e))
  BY DEF HasRead
<1>2. PICK w : w = End
  OBVIOUS
<1>3. w \in Seq(Byte) /\ Len(w) = 5
  BY <1>2 DEF End, CRLF, CR, LF, Byte
<1>4. PICK l, n \in Nat : l = Len(f) /\ n = l + 5 /\ p <= l
  BY <1>1, LenProperties
<1>5. e \in Seq(Byte) /\ Len(e) = n
  <2>1. f \o w \in Seq(Byte) /\ Len(f \o w) = Len(f) + Len(w)
    BY <1>3, ConcatProperties
  <2> QED
    BY <1>1, <1>2, <1>3, <1>4, <2>1
<1>6. r \in Seq(Byte) /\ Len(r) = n - p /\ \A i \in 1 .. n - p : r[i] = e[p + i]
  <2>1. n = Len(e) /\ p <= n /\ r = SubSeq(e, p + 1, n)
    BY <1>1, <1>4, <1>5
  <2> QED
    BY <1>5, <2>1, EndOf
<1>7. Len(r) = n - p
  BY <1>6
<1>8. \A i \in 1 .. Len(r) : r[i] = e[p + i]
  BY <1>6
<1>9. r # <<>>
  <2>1. Len(r) # 0
    BY <1>4, <1>7
  <2> QED
    BY <2>1, EmptySeq
<1>10. Head(r) = r[1]
  BY <1>6, <1>9
<1> QED
  BY <1>4, <1>5, <1>6, <1>7, <1>8, <1>9, <1>10 DEF IsRest

\* A text that starts otherwise is no prefix.
LEMMA OtherPrefix ==
  ASSUME NEW s \in Seq(Byte), NEW t \in Seq(Byte), Len(s) > 0, s[1] # t[1]
  PROVE  ~IsPrefix(s, t)
<1> SUFFICES ASSUME IsPrefix(s, t)
             PROVE  FALSE
  OBVIOUS
<1>1. PICK n \in Nat : n = Len(s) /\ n > 0 /\ n <= Len(t)
  BY LenProperties DEF IsPrefix
<1>2. PICK one, a, b : one = 1 /\ a = SubSeq(s, 1, n) /\ b = SubSeq(t, 1, n)
  OBVIOUS
<1>3. one \in Int /\ n \in Int /\ a = SubSeq(s, one, n) /\ b = SubSeq(t, one, n)
  BY <1>2
<1>4. \A i \in one .. n : s[i] \in Byte /\ t[i] \in Byte
  <2>1. one .. n \subseteq 1 .. Len(s) /\ one .. n \subseteq 1 .. Len(t)
    <3>1. Len(t) \in Nat
      BY LenProperties
    <3> QED
      BY <1>1, <1>2, <3>1
  <2> QED
    BY <2>1, ElementOfSeq
<1>5. /\ \A i \in 1 .. (n - one) + 1 : a[i] = s[(one + i) - 1]
      /\ \A i \in 1 .. (n - one) + 1 : b[i] = t[(one + i) - 1]
  BY <1>3, <1>4, SubSeqProperties
<1>6. a[1] = s[1] /\ b[1] = t[1]
  <2>1. 1 \in 1 .. (n - one) + 1 /\ (one + 1) - 1 = 1
    BY <1>1, <1>2
  <2> QED
    BY <1>5, <2>1
<1>7. a = b
  BY <1>1, <1>2 DEF IsPrefix
<1> QED
  BY <1>6, <1>7

\* What the decoder looks for.
LEMMA Marks ==
  /\ Front(Begin) \in Seq(Byte) /\ Len(Front(Begin)) = 6 /\ \A i \in 1 .. 6 : Front(Begin)[i] = Begin[i]
  /\ Begin[1] = 98 /\ Len(Begin) = 7
  /\ Front(End) \in Seq(Byte) /\ Len(Front(End)) = 4 /\ \A i \in 1 .. 4 : Front(End)[i] = End[i]
  /\ End[1] = 101 /\ End \in Seq(Byte) /\ Len(End) = 5
<1>1. PICK b, e : b = Begin /\ e = End
  OBVIOUS
<1>2. b \in Seq(Byte) /\ Len(b) = 7 /\ b[1] = 98 /\ e \in Seq(Byte) /\ Len(e) = 5 /\ e[1] = 101
  BY <1>1 DEF Begin, End, CRLF, CR, LF, Byte
<1>3. PICK six, four, seven, five \in Nat : six = 6 /\ four = 4 /\ seven = 7 /\ five = 5
  OBVIOUS
<1>4. Front(b) \in Seq(Byte) /\ Len(Front(b)) = seven - 1 /\ \A i \in 1 .. seven - 1 : Front(b)[i] = b[i]
  <2>1. b \in Seq(Byte) /\ seven = Len(b) /\ seven > 0
    BY <1>2, <1>3
  <2> QED
    BY <2>1, FrontIs
<1>5. Front(e) \in Seq(Byte) /\ Len(Front(e)) = five - 1 /\ \A i \in 1 .. five - 1 : Front(e)[i] = e[i]
  <2>1. e \in Seq(Byte) /\ five = Len(e) /\ five > 0
    BY <1>2, <1>3
  <2> QED
    BY <2>1, FrontIs
<1>6. seven - 1 = 6 /\ five - 1 = 4
  BY <1>3
<1> QED
  BY <1>1, <1>2, <1>4, <1>5, <1>6

\* A turn of the decoder, by its first character.
LEMMA DecodeUUIs ==
  ASSUME decodeUU, NEW r, r = SubSeq(worker.encoded, at + 1, Len(worker.encoded)), r # <<>>, NEW c, c = Head(r)
  PROVE  /\ c \in {SPACE, TAB, CR, LF} => Decodes(1, output, <<>>)
         /\ c \notin {SPACE, TAB, CR, LF} /\ IsPrefix(Front(Begin), r) => Decodes(Len(Begin), output, <<>>)
         /\ c \notin {SPACE, TAB, CR, LF} /\ ~IsPrefix(Front(Begin), r) /\ IsPrefix(Front(End), r) => Decoded
         /\ c \notin {SPACE, TAB, CR, LF} /\ ~IsPrefix(Front(Begin), r) /\ ~IsPrefix(Front(End), r) =>
              \A length, count :
                length = UUValue(c) /\ count = Min({(4 * length) \div 3, 64}) /\ ~(1 + count > Len(r)) =>
                Decodes(1 + count, output \o UUData(length, SubSeq(r, 2, 1 + count)), <<>>)
<1>1. PICK length, count : length = UUValue(c) /\ count = Min({(4 * length) \div 3, 64})
  OBVIOUS
<1>2. IF c \in {SPACE, TAB, CR, LF} THEN Decodes(1, output, <<>>)
      ELSE IF IsPrefix(Front(Begin), r) THEN Decodes(Len(Begin), output, <<>>)
      ELSE IF IsPrefix(Front(End), r) \/ 1 + count > Len(r) THEN Decoded
      ELSE Decodes(1 + count, output \o UUData(length, SubSeq(r, 2, 1 + count)), <<>>)
  BY <1>1 DEF decodeUU
<1>3. c \in {SPACE, TAB, CR, LF} => Decodes(1, output, <<>>)
  BY <1>2
<1>4. c \notin {SPACE, TAB, CR, LF} /\ IsPrefix(Front(Begin), r) => Decodes(Len(Begin), output, <<>>)
  BY <1>2
<1>5. c \notin {SPACE, TAB, CR, LF} /\ ~IsPrefix(Front(Begin), r) /\ IsPrefix(Front(End), r) => Decoded
  BY <1>2
<1>6. ASSUME c \notin {SPACE, TAB, CR, LF}, ~IsPrefix(Front(Begin), r), ~IsPrefix(Front(End), r),
             NEW l, NEW n, l = UUValue(c), n = Min({(4 * l) \div 3, 64}), ~(1 + n > Len(r))
      PROVE  Decodes(1 + n, output \o UUData(l, SubSeq(r, 2, 1 + n)), <<>>)
  <2>1. l = length
    BY <1>1, <1>6
  <2>2. n = count
    BY <1>1, <1>6, <2>1
  <2>3. Decodes(1 + count, output \o UUData(length, SubSeq(r, 2, 1 + count)), <<>>)
    BY <1>2, <1>6, <2>2
  <2> QED
    BY <2>1, <2>2, <2>3
<1> QED
  BY <1>3, <1>4, <1>5, <1>6

\* It goes on to another place.
LEMMA UUDecodesOn ==
  ASSUME UUInv, job.kind = "uuencode", worker.phase = "decode", NEW n, NEW d, Decodes(n, d, <<>>),
         WholeLines => UUThere(worker.encoded, at + n, d)
  PROVE  UUInv'
<1>1. PICK none, e, j : none = <<>> /\ e = worker.encoded /\ j = at + n
  OBVIOUS
<1>2. PICK w : w = Decoded1(worker, none)
  OBVIOUS
<1>3. job' = job /\ text' = text /\ at' = j /\ output' = d /\ worker' = w
  BY <1>1, <1>2 DEF Decodes, Decoded1
<1>4. CASE ~WholeLines
  <2>1. ~WholeLines'
    BY <1>3, <1>4 DEF WholeLines
  <2> QED
    BY <2>1 DEF UUInv
<1>5. CASE WholeLines
  <2>1. text \in Seq(Byte) /\ job.maxLineLength \in 2 .. 46 /\ EncoderWorker(worker)
    BY <1>5 DEF UUInv
  <2>2. w.phase = "decode" /\ w.encoded = e /\ EncoderWorker(w)
    BY <1>1, <1>2, <2>1, CarriesOn
  <2>3. UUThere(e, j, d)'
    BY <1>1, <1>3, <1>5, SameTurns
  <2> QED
    BY <1>3, <2>1, <2>2, <2>3 DEF UUInv, EncoderWorker
<1> QED
  BY <1>4, <1>5

\* It ends.
LEMMA UUDecodesLast ==
  ASSUME UUInv, job.kind = "uuencode", worker.phase = "decode", Decoded, WholeLines => output = text
  PROVE  UUInv'
<1>1. job' = job /\ text' = text /\ output' = output /\ worker' = [worker EXCEPT !.phase = "done"]
  BY DEF Decoded
<1>2. CASE ~WholeLines
  <2>1. ~WholeLines'
    BY <1>1, <1>2 DEF WholeLines
  <2> QED
    BY <2>1 DEF UUInv
<1>3. CASE WholeLines
  <2>1. text \in Seq(Byte) /\ job.maxLineLength \in 2 .. 46 /\ EncoderWorker(worker)
    BY <1>3 DEF UUInv
  <2>2. PICK w : w = Phase1(worker, "done")
    OBVIOUS
  <2>3. w.phase = "done" /\ EncoderWorker(w)
    BY <2>1, <2>2, CarriesOn
  <2>4. worker' = w
    BY <1>1, <2>2 DEF Phase1
  <2> QED
    BY <1>1, <1>3, <2>1, <2>3, <2>4 DEF UUInv, EncoderWorker
<1> QED
  BY <1>2, <1>3

\* The first character of a line is its length.
LEMMA LineStart ==
  ASSUME NEW m \in Nat, m > 0, m <= 15, NEW c, c = UU(3 * m)
  PROVE  /\ c \notin {SPACE, TAB, CR, LF} /\ c # 98 /\ c # 101
         /\ UUValue(c) = 3 * m /\ Min({(4 * (3 * m)) \div 3, 64}) = 4 * m
<1>1. PICK v \in Nat : v = 3 * m /\ v < 64 /\ v >= 3 /\ v <= 45
  OBVIOUS
<1>2. UU(v) = v + 32 /\ UUValue(UU(v)) = v
  BY <1>1, UUIs
<1>3. c = v + 32 /\ UUValue(c) = v
  BY <1>1, <1>2
<1>4. c \notin {SPACE, TAB, CR, LF} /\ c # 98 /\ c # 101
  BY <1>1, <1>3 DEF SPACE, TAB, CR, LF
<1>5. PICK n \in Nat : n = 4 * m /\ n <= 64
  OBVIOUS
<1>6. (4 * v) \div 3 = n
  <2>1. 4 * v = 3 * n
    BY <1>1, <1>5
  <2>2. PICK w \in Nat : w = 4 * v /\ w = 3 * n
    BY <2>1
  <2>3. w \div 3 = n
    BY <2>2
  <2> QED
    BY <2>2, <2>3
<1>7. Min({n, 64}) = n
  <2>1. PICK z : z = Min({n, 64})
    OBVIOUS
  <2>2. {n, 64} \in SUBSET Nat /\ {n, 64} # {}
    OBVIOUS
  <2>3. z \in {n, 64} /\ z <= n /\ z <= 64
    BY <2>1, <2>2, MinOfNumbers
  <2> QED
    BY <1>5, <2>1, <2>3
<1> QED
  BY <1>1, <1>3, <1>4, <1>5, <1>6, <1>7

\* A part of a sequence.
LEMMA PartRead ==
  ASSUME NEW s \in Seq(Byte), NEW a \in Nat, NEW n \in Nat, a + n <= Len(s), NEW x, x = SubSeq(s, a + 1, a + n)
  PROVE  x \in Seq(Byte) /\ Len(x) = n /\ \A i \in 1 .. n : x[i] = s[a + i]
<1>1. PICK b, c \in Int : b = a + 1 /\ c = a + n
  OBVIOUS
<1>2. \A i \in b .. c : s[i] \in Byte
  <2>1. b .. c \subseteq 1 .. Len(s)
    <3>1. Len(s) \in Nat
      BY LenProperties
    <3> QED
      BY <1>1, <3>1
  <2> QED
    BY <2>1, ElementOfSeq
<1>3. x = SubSeq(s, b, c)
  BY <1>1
<1>4. x \in Seq(Byte) /\ Len(x) = (IF b <= c THEN c - b + 1 ELSE 0) /\ \A i \in 1 .. c - b + 1 : x[i] = s[b + i - 1]
  BY <1>2, <1>3, SubSeqProperties
<1>5. Len(x) = n /\ c - b + 1 = n /\ \A i \in 1 .. n : b + i - 1 = a + i
  BY <1>1, <1>4
<1> QED
  BY <1>4, <1>5

\* A line gives its part of the text.
StartsWithLine(r, d, k, m) ==
  /\ k + 3 * m <= Len(text) /\ d = SubSeq(text, k + 1, k + 3 * m)
  /\ Len(r) >= 4 * m + 1 /\ \A i \in 1 .. 4 * m : r[i + 1] = UU(SixBitsAt(d, i))
GivesLine(r, d, m) == UUData(3 * m, SubSeq(r, 2, 1 + 4 * m)) = d

\* That part is read.
LEMMA LineRead ==
  ASSUME text \in Seq(Byte), NEW k \in Nat, NEW m \in Nat, NEW d, NEW r \in Seq(Byte), StartsWithLine(r, d, k, m)
  PROVE  GivesLine(r, d, m)
<1>1. /\ k + 3 * m <= Len(text) /\ d = SubSeq(text, k + 1, k + 3 * m)
      /\ Len(r) >= 4 * m + 1 /\ \A i \in 1 .. 4 * m : r[i + 1] = UU(SixBitsAt(d, i))
  BY DEF StartsWithLine
<1>2. PICK n \in Nat : n = 4 * m
  OBVIOUS
<1>3. d \in Seq(Byte) /\ Len(d) = 3 * m
  <2>1. PICK a, b \in Int : a = k + 1 /\ b = k + 3 * m
    OBVIOUS
  <2>2. \A i \in a .. b : text[i] \in Byte
    <3>1. a .. b \subseteq 1 .. Len(text)
      <4>1. Len(text) \in Nat
        BY LenProperties
      <4> QED
        BY <1>1, <2>1, <4>1
    <3> QED
      BY <3>1, ElementOfSeq
  <2>3. d \in Seq(Byte) /\ Len(d) = IF a <= b THEN b - a + 1 ELSE 0
    BY <1>1, <2>1, <2>2, SubSeqProperties
  <2> QED
    BY <2>1, <2>3
<1>4. PICK c : c = SubSeq(r, 2, 1 + n)
  OBVIOUS
<1>5. c \in Seq(Byte) /\ Len(c) = n /\ \A i \in 1 .. n : c[i] = r[i + 1]
  <2>1. PICK one \in Nat : one = 1
    OBVIOUS
  <2>2. one + n <= Len(r)
    BY <1>1, <1>2, <2>1
  <2>3. c = SubSeq(r, one + 1, one + n)
    BY <1>4, <2>1
  <2>4. c \in Seq(Byte) /\ Len(c) = n /\ \A i \in 1 .. n : c[i] = r[one + i]
    BY <2>2, <2>3, PartRead
  <2>5. \A i \in 1 .. n : one + i = i + 1
    BY <2>1
  <2> QED
    BY <2>4, <2>5
<1>6. Len(c) = 4 * m /\ \A i \in 1 .. 4 * m : c[i] = UU(SixBitsAt(d, i))
  BY <1>1, <1>2, <1>5
<1>7. UUData(3 * m, c) = d
  BY <1>3, <1>5, <1>6, UUDataIs
<1> QED
  BY <1>2, <1>4, <1>7 DEF GivesLine

\* Each turn of the decoder.
LEMMA UURead == UUInv /\ decodeUU => UUInv'
<1> SUFFICES ASSUME UUInv, decodeUU
             PROVE  UUInv'
  OBVIOUS
<1>1. job.kind = "uuencode" /\ worker.phase = "decode"
  BY DEF decodeUU, Decoding
<1>2. CASE ~WholeLines
  <2>1. job' = job /\ text' = text
    BY DEF decodeUU, Decodes, Decoded
  <2>2. ~WholeLines'
    BY <1>2, <2>1 DEF WholeLines
  <2> QED
    BY <2>2 DEF UUInv
<1>3. CASE WholeLines
  <2>1. text \in Seq(Byte) /\ UUThere(worker.encoded, at, output)
    BY <1>1, <1>3 DEF UUInv
  <2>2. PICK e, p : e = worker.encoded /\ p = at
    OBVIOUS
  <2>3. PICK f, S, k : f \in Seq(Byte) /\ e = f \o End /\ Stops(S, f, Len(text)) /\ <<p, k>> \in S /\ output = SubSeq(text, 1, k)
    BY <2>1, <2>2 DEF UUThere
  <2>4. PICK l, n \in Nat : l = Len(f) /\ n = Len(text)
    BY <2>1, <2>3, LenProperties
  <2>5. <<p, k>> = <<l, n>> \/ \E q, j : <<q, j>> \in S /\ Turn(f, p, k, q, j)
    <3>1. PICK s : s = <<p, k>>
      OBVIOUS
    <3>2. s = <<l, n>> \/ \E q, j : <<q, j>> \in S /\ Turn(f, s[1], s[2], q, j)
      BY <2>3, <2>4, <3>1 DEF Stops
    <3> QED
      BY <3>1, <3>2
  <2>6. PICK r, c : r = SubSeq(e, p + 1, Len(e)) /\ c = Head(r)
    OBVIOUS
  <2>7. ASSUME p \in Nat, p <= l
        PROVE  /\ e \in Seq(Byte) /\ Len(e) = l + 5 /\ r \in Seq(Byte) /\ Len(r) = Len(e) - p
               /\ r # <<>> /\ c = r[1] /\ \A i \in 1 .. Len(r) : r[i] = e[p + i]
    <3>1. HasRead(f, e, p, r) /\ f \in Seq(Byte)
      BY <2>3, <2>4, <2>6, <2>7 DEF HasRead
    <3>2. IsRest(f, e, p, r)
      BY <2>7, <3>1, RestIs
    <3>3. /\ e \in Seq(Byte) /\ Len(e) = Len(f) + 5 /\ r \in Seq(Byte) /\ Len(r) = Len(e) - p
          /\ r # <<>> /\ Head(r) = r[1] /\ \A i \in 1 .. Len(r) : r[i] = e[p + i]
      BY <3>2 DEF IsRest
    <3>4. Len(e) = l + 5 /\ c = r[1]
      BY <2>4, <2>6, <3>3
    <3> QED
      BY <3>3, <3>4
  <2>8. r = SubSeq(worker.encoded, at + 1, Len(worker.encoded))
    BY <2>2, <2>6
  <2>9. ASSUME NEW q, NEW j, <<q, j>> \in S
        PROVE  UUThere(e, q, SubSeq(text, 1, j))
    BY <2>3, <2>9 DEF UUThere
  <2>10. CASE p = l /\ k = n
    <3>1. /\ e \in Seq(Byte) /\ Len(e) = l + 5 /\ r \in Seq(Byte) /\ Len(r) = Len(e) - p
          /\ r # <<>> /\ c = r[1] /\ \A i \in 1 .. Len(r) : r[i] = e[p + i]
      BY <2>4, <2>7, <2>10
    <3>2. Len(r) = 5
      BY <2>4, <2>10, <3>1
    <3>3. \A i \in 1 .. 5 : r[i] = End[i]
      <4>1. PICK w : w = End
        OBVIOUS
      <4>2. w \in Seq(Byte) /\ Len(w) = 5
        BY <4>1, Marks
      <4>3. \A i \in 1 .. Len(f) + Len(w) : (f \o w)[i] = IF i <= Len(f) THEN f[i] ELSE w[i - Len(f)]
        BY <2>3, <4>2, ConcatProperties
      <4>4. \A i \in 1 .. 5 : l + i \in 1 .. Len(f) + Len(w) /\ ~(l + i <= Len(f)) /\ (l + i) - Len(f) = i
        BY <2>4, <4>2
      <4>5. \A i \in 1 .. 5 : e[l + i] = w[i]
        BY <2>3, <4>1, <4>3, <4>4
      <4> QED
        BY <2>10, <3>1, <3>2, <4>1, <4>5
    <3>4. c = 101
      BY <3>1, <3>3, Marks
    <3>5. ~IsPrefix(Front(Begin), r)
      <4>1. PICK b : b = Front(Begin)
        OBVIOUS
      <4>2. b \in Seq(Byte) /\ Len(b) > 0 /\ b[1] = 98
        BY <4>1, Marks
      <4>3. b[1] # r[1]
        BY <3>1, <3>4, <4>2
      <4> QED
        BY <3>1, <4>1, <4>2, <4>3, OtherPrefix
    <3>6. IsPrefix(Front(End), r)
      <4>1. PICK b : b = Front(End)
        OBVIOUS
      <4>2. b \in Seq(Byte) /\ Len(b) = 4 /\ \A i \in 1 .. 4 : b[i] = End[i]
        BY <4>1, Marks
      <4>3. Len(b) <= Len(r) /\ \A i \in 1 .. Len(b) : b[i] = r[i]
        BY <3>2, <3>3, <4>2
      <4> QED
        BY <3>1, <4>1, <4>2, <4>3, PrefixIs
    <3>7. c \notin {SPACE, TAB, CR, LF}
      BY <3>4 DEF SPACE, TAB, CR, LF
    <3>8. Decoded
      BY <2>6, <2>8, <3>1, <3>5, <3>6, <3>7, DecodeUUIs
    <3>9. output = text
      <4>1. SubSeq(text, 1, n) = text
        BY <2>1, <2>4, SubSeqFull
      <4> QED
        BY <2>3, <2>10, <4>1
    <3> QED
      BY <1>1, <3>8, <3>9, UUDecodesLast
  <2>11. ASSUME NEW q, NEW j, <<q, j>> \in S, Turn(f, p, k, q, j)
         PROVE  UUInv'
    <3>1. p \in Nat /\ k \in Nat /\ q \in Nat /\ j \in Nat /\ p < q /\ q <= l /\ j <= n
      BY <2>4, <2>11 DEF Turn
    <3>2. /\ e \in Seq(Byte) /\ Len(e) = l + 5 /\ r \in Seq(Byte) /\ Len(r) = Len(e) - p
          /\ r # <<>> /\ c = r[1] /\ \A i \in 1 .. Len(r) : r[i] = e[p + i]
      BY <2>4, <2>7, <3>1
    <3>3. SkipsLineEnd(e, p, k, q, j) \/ SkipsPrelude(e, p, k, q, j) \/ ReadsLine(e, p, k, q, j)
      <4>1. PICK w : w = End
        OBVIOUS
      <4>2. w \in Seq(Byte) /\ e = f \o w
        BY <2>3, <4>1, Marks
      <4>3. Turn(e, p, k, q, j)
        BY <2>3, <2>11, <4>2, TurnStays
      <4> QED
        BY <4>3 DEF Turn
    <3>4. c = e[p + 1] /\ Len(r) = (l + 5) - p
      <4>1. Len(r) = (l + 5) - p
        BY <3>2
      <4>2. 1 \in 1 .. Len(r)
        BY <2>4, <3>1, <4>1
      <4> QED
        BY <3>2, <4>1, <4>2
    <3>5. CASE SkipsLineEnd(e, p, k, q, j)
      <4>1. q = p + 1 /\ j = k /\ c \in {CR, LF}
        BY <3>4, <3>5 DEF SkipsLineEnd
      <4>2. Decodes(1, output, <<>>)
        BY <2>6, <2>8, <3>2, <4>1, DecodeUUIs
      <4>3. UUThere(worker.encoded, at + 1, output)
        BY <2>2, <2>3, <2>9, <2>11, <4>1
      <4> QED
        BY <1>1, <4>2, <4>3, UUDecodesOn
    <3>6. CASE SkipsPrelude(e, p, k, q, j)
      <4>1. p = 0 /\ q = 7 /\ j = k /\ \A i \in 1 .. 7 : e[i] = Begin[i]
        BY <3>6 DEF SkipsPrelude
      <4>2. c = 98
        BY <3>4, <4>1, Marks
      <4>3. c \notin {SPACE, TAB, CR, LF}
        BY <4>2 DEF SPACE, TAB, CR, LF
      <4>4. IsPrefix(Front(Begin), r)
        <5>1. PICK b : b = Front(Begin)
          OBVIOUS
        <5>2. b \in Seq(Byte) /\ Len(b) = 6 /\ \A i \in 1 .. 6 : b[i] = Begin[i]
          BY <5>1, Marks
        <5>3. Len(r) >= 6 /\ Len(r) \in Nat
          BY <2>4, <3>1, <3>4, <4>1
        <5>4. \A i \in 1 .. 6 : i \in 1 .. Len(r) /\ p + i = i /\ i \in 1 .. 7
          BY <4>1, <5>3
        <5>5. \A i \in 1 .. 6 : b[i] = r[i]
          BY <3>2, <4>1, <5>2, <5>4
        <5> QED
          BY <3>2, <5>1, <5>2, <5>3, <5>5, PrefixIs
      <4>5. Decodes(Len(Begin), output, <<>>)
        BY <2>6, <2>8, <3>2, <4>3, <4>4, DecodeUUIs
      <4>6. UUThere(worker.encoded, at + Len(Begin), output)
        <5>1. at + Len(Begin) = q
          BY <2>2, <4>1, Marks
        <5> QED
          BY <2>2, <2>3, <2>9, <2>11, <4>1, <5>1
      <4> QED
        BY <1>1, <4>5, <4>6, UUDecodesOn
    <3>7. CASE ReadsLine(e, p, k, q, j)
      <4>1. PICK m \in Nat : m > 0 /\ m <= 15 /\ q = p + (4 * m + 1) /\ j = k + 3 * m /\ LineStands(e, p, k, m)
        BY <3>7 DEF ReadsLine
      <4>2. PICK d : d = SubSeq(text, k + 1, k + 3 * m)
        OBVIOUS
      <4>3. c = UU(3 * m)
        BY <3>4, <4>1 DEF LineStands
      <4>4. /\ c \notin {SPACE, TAB, CR, LF} /\ c # 98 /\ c # 101
            /\ UUValue(c) = 3 * m /\ Min({(4 * (3 * m)) \div 3, 64}) = 4 * m
        BY <4>1, <4>3, LineStart
      <4>5. ~IsPrefix(Front(Begin), r) /\ ~IsPrefix(Front(End), r)
        <5>1. PICK a, b : a = Front(Begin) /\ b = Front(End)
          OBVIOUS
        <5>2. a \in Seq(Byte) /\ Len(a) > 0 /\ a[1] = 98
          BY <5>1, Marks
        <5>3. b \in Seq(Byte) /\ Len(b) > 0 /\ b[1] = 101
          BY <5>1, Marks
        <5>4. a[1] # r[1] /\ b[1] # r[1]
          BY <3>2, <4>4, <5>2, <5>3
        <5>5. ~IsPrefix(a, r)
          BY <3>2, <5>2, <5>4, OtherPrefix
        <5>6. ~IsPrefix(b, r)
          BY <3>2, <5>3, <5>4, OtherPrefix
        <5> QED
          BY <5>1, <5>5, <5>6
      <4>6. PICK v, t \in Nat : v = 3 * m /\ t = 4 * m
        OBVIOUS
      <4>7. v = UUValue(c) /\ t = Min({(4 * v) \div 3, 64})
        BY <4>4, <4>6
      <4>8. Len(r) >= 4 * m + 1 /\ ~(1 + t > Len(r))
        <5>1. Len(r) = (l + 5) - p /\ p + (4 * m + 1) <= l
          BY <3>1, <3>4, <4>1
        <5> QED
          BY <2>4, <3>1, <4>6, <5>1
      <4>9. Decodes(1 + t, output \o UUData(v, SubSeq(r, 2, 1 + t)), <<>>)
        BY <2>6, <2>8, <3>2, <4>4, <4>5, <4>7, <4>8, DecodeUUIs
      <4>10. \A i \in 1 .. 4 * m : r[i + 1] = UU(SixBitsAt(d, i))
        <5> TAKE i \in 1 .. 4 * m
        <5>1. i + 1 \in 1 .. Len(r)
          <6>1. Len(r) \in Nat
            BY <3>2, LenProperties
          <6> QED
            BY <4>8, <6>1
        <5>2. r[i + 1] = e[p + (i + 1)]
          BY <3>2, <5>1
        <5>3. e[p + (i + 1)] = UU(SixBitsAt(d, i))
          BY <4>1, <4>2 DEF LineStands
        <5> QED
          BY <5>2, <5>3
      <4>11. k + 3 * m <= Len(text)
        BY <2>4, <3>1, <4>1
      <4>12. UUData(3 * m, SubSeq(r, 2, 1 + 4 * m)) = d
        <5>1. text \in Seq(Byte) /\ k \in Nat /\ r \in Seq(Byte) /\ m \in Nat
          BY <2>1, <3>1, <3>2, <4>1
        <5>2. StartsWithLine(r, d, k, m)
          BY <4>2, <4>8, <4>10, <4>11 DEF StartsWithLine
        <5>3. GivesLine(r, d, m)
          BY <5>1, <5>2, LineRead
        <5> QED
          BY <5>3 DEF GivesLine
      <4>13. output \o d = SubSeq(text, 1, j)
        <5>1. k <= j /\ j <= Len(text) /\ d = SubSeq(text, k + 1, j)
          BY <3>1, <4>1, <4>2, <4>11
        <5>2. SubSeq(text, 1, k) \o SubSeq(text, k + 1, j) = SubSeq(text, 1, j)
          BY <2>1, <3>1, <5>1, BeginningAndPart
        <5> QED
          BY <2>3, <5>1, <5>2
      <4>14. Decodes(1 + t, SubSeq(text, 1, j), <<>>)
        BY <4>6, <4>9, <4>12, <4>13
      <4>15. UUThere(worker.encoded, at + (1 + t), SubSeq(text, 1, j))
        <5>1. at + (1 + t) = q
          BY <2>2, <3>1, <4>1, <4>6
        <5> QED
          BY <2>2, <2>9, <2>11, <5>1
      <4> QED
        BY <1>1, <4>14, <4>15, UUDecodesOn
    <3> QED
      BY <3>3, <3>5, <3>6, <3>7
  <2> QED
    BY <2>5, <2>10, <2>11
<1> QED
  BY <1>2, <1>3

\* Every step keeps it.
LEMMA UUInvStep == UUInv /\ [Next]_streamVars => UUInv'
<1>1. ASSUME UUInv, Next, job.kind = "uuencode"
      PROVE  UUInv'
  <2>1. EncoderNext
    BY <1>1, NextOfKind DEF Encoders
  <2>2. CASE encodeUU
    BY <1>1, <2>2, UULineWritten
  <2>3. CASE endUU
    BY <1>1, <2>3, UUWrittenOff
  <2>4. CASE decodeUU
    BY <1>1, <2>4, UURead
  <2>5. CASE encodeBase64 \/ endBase64 \/ decodeBase64 \/ encodeQP \/ endQP \/ decodeQP \/ endDecode
    BY <1>1, <2>5 DEF encodeBase64, endBase64, decodeBase64, encodeQP, endQP, decodeQP, endDecode, Encoding, Decoding
  <2> QED
    BY <2>1, <2>2, <2>3, <2>4, <2>5 DEF EncoderNext
<1>2. ASSUME Next, job.kind # "uuencode"
      PROVE  UUInv'
  <2>1. job' = job
    BY <1>2, NextOfKind
  <2> QED
    BY <1>2, <2>1 DEF UUInv
<1>3. ASSUME UUInv, UNCHANGED streamVars
      PROVE  UUInv'
  <2>1. job' = job /\ text' = text /\ at' = at /\ worker' = worker /\ output' = output
    BY <1>3 DEF streamVars
  <2>2. WholeLines' = WholeLines
    BY <2>1 DEF WholeLines
  <2>3. PICK o, p, e : o = output /\ p = at /\ e = worker.encoded
    OBVIOUS
  <2>4. UUWritten(o, p)' = UUWritten(o, p) /\ UUThere(e, p, o)' = UUThere(e, p, o)
    BY <2>1, SameTurns
  <2>5. UUWritten(output, at)' = UUWritten(output, at) /\ UUThere(worker.encoded, at, output)' = UUThere(worker.encoded, at, output)
    BY <2>1, <2>3, <2>4
  <2> QED
    BY <1>3, <2>1, <2>2, <2>5 DEF UUInv, EncoderWorker
<1> QED
  BY <1>1, <1>2, <1>3

\* What the invariants are for.
LEMMA RoundTripHolds == RoundInv /\ UUInv => RoundTrip
BY DEF RoundInv, UUInv, WholeLines, RoundTrip

\* Decoding gives the text that was encoded, for texts of any length, in pieces of any
\* size (encode and decode of the three classes).
THEOREM DecodersUndo == Spec => []RoundTrip
<1>1. Init => EncoderInv /\ RoundInv /\ UUInv
  BY EncoderInvInit, RoundInvInit, UUInvInit
<1>2. EncoderInv /\ RoundInv /\ UUInv /\ [Next]_streamVars => (EncoderInv /\ RoundInv /\ UUInv)'
  BY EncoderInvStep, RoundInvStep, UUInvStep
<1> QED
  BY <1>1, <1>2, RoundTripHolds, PTL DEF Spec
=============================================================================
