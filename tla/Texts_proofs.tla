---------------------------- MODULE Texts_proofs ----------------------------
(***************************************************************************)
(* Proofs about the jobs on texts.                                         *)
(***************************************************************************)
EXTENDS Texts, Induction, SequenceTheorems

\* The kinds of jobs.
Encoders == {"base64", "quoted-printable", "uuencode"}

\* A job is begun by the initial condition of its own kind.
LEMMA InitOfKind ==
  ASSUME Init
  PROVE  /\ job.kind \in Filters => FilterInit
         /\ job.kind = "reply" => ReplyInit
         /\ job.kind \in Encoders => EncoderInit
         /\ job.kind = "find" => SearchInit
         /\ job.kind = "body" => BodyInit
         /\ BuildingSet => SetInit
<1>1. FilterInit => job.kind \in Filters
  BY DEF FilterInit
<1>2. ReplyInit => job.kind = "reply"
  BY DEF ReplyInit
<1>3. EncoderInit => job.kind \in Encoders
  BY DEF EncoderInit, Encoders
<1>4. SearchInit => job.kind = "find"
  BY DEF SearchInit
<1>5. BodyInit => job.kind = "body"
  BY DEF BodyInit
<1>6. SetInit => BuildingSet
  BY DEF SetInit, BuildingSet
<1> QED
  BY <1>1, <1>2, <1>3, <1>4, <1>5, <1>6 DEF Init, Filters, Encoders, BuildingSet

\* And goes on with the actions of its kind; no action changes the job or its text.
LEMMA NextOfKind ==
  ASSUME Next
  PROVE  /\ job' = job /\ text' = text
         /\ job.kind \in Filters => FilterNext
         /\ job.kind = "reply" => ReplyNext
         /\ job.kind \in Encoders => EncoderNext
         /\ job.kind = "find" => SearchNext
         /\ job.kind = "body" => BodyNext
         /\ BuildingSet => SetNext
<1>1. FilterNext => job.kind \in Filters /\ job' = job /\ text' = text
  BY DEF FilterNext, writeDotFiltered, readDotFiltered, writeCRLFToLF, writeLFToCRLF, Filtered, Filters
<1>2. ReplyNext => job.kind = "reply" /\ job' = job /\ text' = text
  BY DEF ReplyNext, readLargeResponse, endOfStream, timeOut, Reading
<1>3. EncoderNext => job.kind \in Encoders /\ job' = job /\ text' = text
  <2>1. encodeBase64 \/ endBase64 \/ decodeBase64 => job.kind = "base64" /\ job' = job /\ text' = text
    BY DEF encodeBase64, endBase64, decodeBase64, Encoding, Decoding, Encodes, Decodes, ThenDecode
  <2>2. encodeQP \/ endQP \/ decodeQP => job.kind = "quoted-printable" /\ job' = job /\ text' = text
    BY DEF encodeQP, endQP, decodeQP, Encoding, Decoding, Encodes, Decodes, ThenDecode
  <2>3. encodeUU \/ endUU \/ decodeUU => job.kind = "uuencode" /\ job' = job /\ text' = text
    BY DEF encodeUU, endUU, decodeUU, Encoding, Decoding, Encodes, Decodes, ThenDecode, Decoded
  <2>4. endDecode => job.kind \in {"base64", "quoted-printable"} /\ job' = job /\ text' = text
    BY DEF endDecode, Decoded
  <2> QED
    BY <2>1, <2>2, <2>3, <2>4 DEF EncoderNext, Encoders
<1>4. SearchNext => job.kind = "find" /\ job' = job /\ text' = text
  BY DEF SearchNext, fillBuffer, findToken, rotateBuffer, notFound, SearchingOn, Read
<1>5. BodyNext => job.kind = "body" /\ job' = job /\ text' = text
  BY DEF BodyNext, beginParse, skipJunk, nextPart, endParse
<1>6. SetNext => BuildingSet /\ job' = job /\ text' = text
  BY DEF SetNext, sortList, nextNumber, lastRange
<1> QED
  BY <1>1, <1>2, <1>3, <1>4, <1>5, <1>6 DEF Next, Filters, Encoders, BuildingSet

-----------------------------------------------------------------------------
(* Message sets. *)

\* The numbers of some ranges; the first k of a list; ranges that do not touch.
Covered(ranges) == UNION {ranges[i].first .. ranges[i].last : i \in DOMAIN ranges}
UpTo(s, k) == {s[i] : i \in 1 .. k}
Separate(ranges) == \A i \in 1 .. Len(ranges) - 1 : ranges[i].last + 1 < ranges[i + 1].first
Ranges == Seq([first : Int, last : Int])

\* What may be in a list, and which lists are sorted as numbers.
Numbers == IF job.kind = "UIDs" THEN 0 .. Maximum ELSE Nat
Plain1 == job.kind = "UIDs" /\ NotNumeric \in ToSet(text)

\* The ranges that were ended, and the one that goes on, are the numbers so far.
RangesSoFar(s, k, ranges, start, last) ==
  /\ ranges \in Ranges /\ Separate(ranges)
  /\ Covered(ranges) \cup (start .. last) = UpTo(s, k)
  /\ last = s[k] /\ start \in Int /\ start <= last
  /\ ranges # <<>> => ranges[Len(ranges)].last + 1 < start

SetWorker == worker = [sorted |-> worker.sorted, previous |-> worker.previous,
                       rangeStart |-> worker.rangeStart, outcome |-> worker.outcome]

SetInv ==
  BuildingSet =>
    /\ text \in Seq(Numbers \cup {NotNumeric}) /\ at \in 0 .. Len(text) /\ SetWorker
    /\ job.kind = "numbers" => text \in Seq(Nat)
    /\ worker.outcome \in {"reading", "sorted"} /\ at = 0 =>
         output = <<>> /\ worker.previous = Limit /\ worker.rangeStart = Limit
    /\ worker.outcome = "reading" => at = 0
    /\ worker.outcome = "sorted" =>
         /\ ~Plain1
         /\ worker.sorted \in [1 .. Len(text) -> Numbers] /\ Ascending(worker.sorted)
         /\ UpTo(worker.sorted, Len(text)) = ToSet(text)
         /\ at > 0 => RangesSoFar(worker.sorted, at, output, worker.rangeStart, worker.previous)
    /\ RangesAreTheSet

\* One range more.
LEMMA OneRangeMore ==
  ASSUME NEW ranges \in Ranges, Separate(ranges), NEW start \in Int, NEW last \in Int,
         ranges # <<>> => ranges[Len(ranges)].last + 1 < start
  PROVE  /\ Append(ranges, Range1(start, last)) \in Ranges /\ Separate(Append(ranges, Range1(start, last)))
         /\ Covered(Append(ranges, Range1(start, last))) = Covered(ranges) \cup (start .. last)
         /\ Append(ranges, Range1(start, last)) # <<>>
         /\ Append(ranges, Range1(start, last))[Len(Append(ranges, Range1(start, last)))] = Range1(start, last)
<1> DEFINE R == [first : Int, last : Int]
           e == Range1(start, last)
           more == Append(ranges, e)
<1>1. e \in R /\ e.first = start /\ e.last = last
  BY DEF Range1
<1>2. ranges \in Seq(R)
  BY DEF Ranges
<1> HIDE DEF R, e
<1>3. /\ more \in Seq(R) /\ Len(more) = Len(ranges) + 1
      /\ \A i \in 1 .. Len(ranges) : more[i] = ranges[i]
      /\ more[Len(ranges) + 1] = e
  BY <1>1, <1>2, AppendProperties
<1> HIDE DEF more
<1>4. /\ Len(ranges) \in Nat /\ DOMAIN ranges = 1 .. Len(ranges) /\ DOMAIN more = 1 .. Len(more)
      /\ Len(more) \in Nat
  BY <1>2, <1>3, LenProperties
<1>5. PICK n \in Nat : n = Len(ranges)
  BY <1>4
<1>6. ranges = <<>> => n = 0
  BY <1>2, <1>5, EmptySeq
<1>7. Separate(more)
  <2> SUFFICES ASSUME NEW i \in 1 .. n
               PROVE  more[i].last + 1 < more[i + 1].first
    BY <1>3, <1>5 DEF Separate
  <2>1. CASE i = n
    <3>1. ranges # <<>>
      BY <1>6, <2>1
    <3>2. more[i] = ranges[n] /\ more[i + 1] = e
      BY <1>3, <1>5, <2>1
    <3> QED
      BY <1>1, <1>5, <3>1, <3>2
  <2>2. CASE i # n
    <3>1. i \in 1 .. n - 1 /\ i + 1 \in 1 .. n
      BY <2>2
    <3>2. more[i] = ranges[i] /\ more[i + 1] = ranges[i + 1]
      BY <1>3, <1>5, <3>1
    <3> QED
      BY <1>5, <3>1, <3>2 DEF Separate
  <2> QED
    BY <2>1, <2>2
<1>8. Covered(more) = Covered(ranges) \cup (start .. last)
  <2>1. DOMAIN more = (DOMAIN ranges) \cup {n + 1}
    BY <1>3, <1>4, <1>5
  <2>2. \A i \in DOMAIN ranges : more[i] = ranges[i]
    BY <1>3, <1>4
  <2>3. more[n + 1].first = start /\ more[n + 1].last = last
    BY <1>1, <1>3, <1>5
  <2> QED
    BY <2>1, <2>2, <2>3 DEF Covered
<1>9. more # <<>> /\ more[Len(more)] = e
  <2>1. Len(more) = n + 1
    BY <1>3, <1>5
  <2>2. more # <<>>
    BY <1>3, <2>1, EmptySeq
  <2> QED
    BY <1>3, <1>5, <2>1, <2>2
<1> QED
  BY <1>3, <1>7, <1>8, <1>9 DEF e, more, R, Ranges

\* The numbers that a list has up to its next element.
LEMMA UpToNext ==
  ASSUME NEW s, NEW k \in Nat
  PROVE  UpTo(s, 0) = {} /\ UpTo(s, k + 1) = UpTo(s, k) \cup {s[k + 1]}
<1>1. 1 .. k + 1 = (1 .. k) \cup {k + 1} /\ 1 .. 0 = {}
  OBVIOUS
<1> QED
  BY <1>1 DEF UpTo

\* What sorting makes of a list: its elements, in order.
LEMMA SortedList ==
  ASSUME NEW S, NEW s \in Seq(S), NEW t \in Sorted(s)
  PROVE  /\ t \in [1 .. Len(s) -> S] /\ Ascending(t)
         /\ UpTo(t, Len(s)) = ToSet(s)
<1>1. PICK p \in Bijection(DOMAIN s, DOMAIN s) : t = [i \in DOMAIN s |-> s[p[i]]]
  BY DEF Sorted
<1>2. DOMAIN s = 1 .. Len(s) /\ s \in [1 .. Len(s) -> S]
  BY LenProperties
<1>3. p \in [DOMAIN s -> DOMAIN s] /\ \A w \in DOMAIN s : \E v \in DOMAIN s : p[v] = w
  BY <1>1 DEF Bijection, Surjection
<1>4. t \in [1 .. Len(s) -> S]
  BY <1>1, <1>2, <1>3
<1>5. {t[i] : i \in DOMAIN s} = {s[i] : i \in DOMAIN s}
  BY <1>1, <1>3
<1> QED
  BY <1>2, <1>4, <1>5 DEF Sorted, UpTo, ToSet
\* A power of two is a number: that of the subsets of 1 .. UidBits.
LEMMA MaximumIsInt == 2 ^ UidBits \in Nat /\ Maximum \in Int
<1> DEFINE S == 1 .. UidBits
<1>1. UidBits \in Nat
  BY UidBitsAssumption
<1>2. IsFiniteSet(S) /\ Cardinality(S) = UidBits
  <2>1. Cardinality(S) = IF 1 > UidBits THEN 0 ELSE UidBits - 1 + 1
    BY <1>1, FS_Interval
  <2>2. Cardinality(S) = UidBits
    BY <1>1, <2>1
  <2> QED
    BY <1>1, <2>2, FS_Interval
<1> HIDE DEF S
<1>3. IsFiniteSet(SUBSET S) /\ Cardinality(SUBSET S) = 2 ^ UidBits
  BY <1>2, FS_SUBSET
<1>4. 2 ^ UidBits \in Nat
  BY <1>3, FS_CardinalityType
<1> QED
  BY <1>4 DEF Maximum

\* Before anything is read.
LEMMA SetInvInit == Init => SetInv
<1> SUFFICES ASSUME Init, BuildingSet
             PROVE  SetInv
  BY DEF SetInv
<1>1. SetInit
  BY InitOfKind
<1>2. /\ at = 0 /\ output = <<>>
      /\ worker = [sorted |-> <<>>, previous |-> Limit, rangeStart |-> Limit, outcome |-> "reading"]
      /\ job.kind = "numbers" => text \in NumberLists
      /\ job.kind # "numbers" => job.kind = "UIDs" /\ text \in UidLists
  BY <1>1 DEF SetInit
<1>3. job.kind = "numbers" => text \in Seq(Nat)
  BY <1>2, ListAssumption
<1>4. text \in Seq(Numbers \cup {NotNumeric})
  <2>1. CASE job.kind = "numbers"
    <3>1. Numbers = Nat
      BY <2>1 DEF Numbers
    <3> QED
      BY <1>3, <2>1, <3>1, SeqMonotonic
  <2>2. CASE job.kind # "numbers"
    BY <1>2, <2>2, ListAssumption DEF Numbers
  <2> QED
    BY <2>1, <2>2
<1>5. Len(text) \in Nat
  BY <1>4, LenProperties
<1>6. worker.outcome = "reading" /\ SetWorker
  BY <1>2 DEF SetWorker
<1>7. RangesAreTheSet
  BY <1>6 DEF RangesAreTheSet
<1> QED
  BY <1>2, <1>3, <1>4, <1>5, <1>6, <1>7 DEF SetInv
\* Sorting, or a range for each UID when one is not a number.
LEMMA SetInvSort ==
  ASSUME SetInv, BuildingSet, sortList
  PROVE  SetInv'
<1> DEFINE values == [i \in DOMAIN text |-> IF job.kind = "UIDs" THEN text[i] % 2 ^ UidBits ELSE text[i]]
           E == Numbers \cup {NotNumeric}
           outcome == IF Plain1 THEN "built" ELSE "sorted"
<1>1. /\ text \in Seq(E) /\ at = 0 /\ SetWorker /\ worker.outcome = "reading"
      /\ worker.previous = Limit /\ worker.rangeStart = Limit
      /\ job.kind = "numbers" => text \in Seq(Nat)
  BY DEF SetInv, sortList
<1>2. /\ job' = job /\ text' = text /\ at' = at
      /\ output' = IF Plain1 THEN [i \in DOMAIN text |-> Range1(text[i], text[i])] ELSE <<>>
  BY DEF sortList, Plain1
<1>3. PICK sorted \in Sorted(values) :
        worker' = [worker EXCEPT !.outcome = outcome, !.sorted = sorted]
  BY DEF sortList, Plain1
<1>4. /\ worker'.sorted = sorted /\ worker'.previous = Limit /\ worker'.rangeStart = Limit
      /\ worker'.outcome = outcome /\ SetWorker'
  <2> HIDE DEF outcome
  <2>1. worker' = [sorted |-> sorted, previous |-> worker.previous,
                   rangeStart |-> worker.rangeStart, outcome |-> outcome]
    BY <1>1, <1>3 DEF SetWorker
  <2> QED
    BY <1>1, <2>1 DEF SetWorker
<1>5. BuildingSet' /\ Limit' = Limit /\ Plain1' = Plain1 /\ Numbers' = Numbers
  BY <1>2 DEF BuildingSet, Limit, Plain1, Numbers
<1>6. Len(text) \in Nat /\ DOMAIN text = 1 .. Len(text) /\ text \in [1 .. Len(text) -> E]
  BY <1>1, LenProperties
<1>7. CASE Plain1
  <2>1. worker'.outcome = "built"
    BY <1>4, <1>7
  <2>2. ASSUME NEW i \in DOMAIN text
        PROVE  output'[i].first .. output'[i].last = {text[i]}
    <3>1. output'[i].first = text[i] /\ output'[i].last = text[i]
      BY <1>2, <1>7 DEF Range1
    <3>2. text[i] \in Int
      <4>1. E \subseteq Int
        BY MaximumIsInt DEF Numbers, NotNumeric
      <4> QED
        BY <1>6, <4>1
    <3> QED
      BY <3>1, <3>2
  <2>3. DOMAIN output' = DOMAIN text
    BY <1>2, <1>7
  <2>4. UNION {output'[i].first .. output'[i].last : i \in DOMAIN output'} = ToSet(text)
    BY <2>2, <2>3 DEF ToSet
  <2>5. NotNumeric \in ToSet(text)
    BY <1>7 DEF Plain1
  <2>6. RangesAreTheSet'
    BY <1>2, <2>1, <2>4, <2>5 DEF RangesAreTheSet
  <2> QED
    BY <1>1, <1>2, <1>4, <1>5, <1>6, <2>1, <2>6 DEF SetInv
<1>8. CASE ~Plain1
  <2>1. text \in Seq(Numbers)
    <3>1. CASE job.kind = "UIDs"
      <4>1. \A i \in 1 .. Len(text) : text[i] \in Numbers
        <5>1. \A i \in 1 .. Len(text) : text[i] # NotNumeric
          BY <1>6, <1>8, <3>1 DEF Plain1, ToSet
        <5> QED
          BY <1>6, <5>1
      <4> QED
        BY <1>6, <4>1, SeqDef
    <3>2. CASE job.kind # "UIDs"
      BY <1>1, <3>2 DEF BuildingSet, Numbers
    <3> QED
      BY <3>1, <3>2
  <2>2. values = text
    <3>1. text \in [1 .. Len(text) -> Numbers]
      BY <2>1, LenProperties
    <3>2. ASSUME NEW i \in DOMAIN text, job.kind = "UIDs"
          PROVE  text[i] % 2 ^ UidBits = text[i]
      <4>1. text[i] \in 0 .. Maximum
        BY <1>6, <3>1, <3>2 DEF Numbers
      <4>2. PICK m \in Nat : m = 2 ^ UidBits
        BY MaximumIsInt
      <4>3. text[i] \in 0 .. m - 1
        BY <4>1, <4>2 DEF Maximum
      <4>4. text[i] % m = text[i]
        BY <4>3
      <4> QED
        BY <4>2, <4>4
    <3>3. values = [i \in DOMAIN text |-> text[i]]
      BY <3>2
    <3> QED
      BY <1>6, <3>3
  <2>3. sorted \in [1 .. Len(text) -> Numbers] /\ Ascending(sorted) /\ UpTo(sorted, Len(text)) = ToSet(text)
    BY <1>3, <2>1, <2>2, SortedList
  <2>4. worker'.outcome = "sorted" /\ output' = <<>>
    BY <1>2, <1>4, <1>8
  <2>5. RangesAreTheSet'
    BY <2>4 DEF RangesAreTheSet
  <2> QED
    BY <1>1, <1>2, <1>4, <1>5, <1>6, <1>8, <2>3, <2>4, <2>5 DEF SetInv
<1> QED
  BY <1>7, <1>8

\* The range that goes on is what was read of the list since its start.
LEMMA RangeStarts ==
  ASSUME NEW n \in Nat, NEW k \in 1 .. n, NEW s \in [1 .. n -> Int], NEW ranges, NEW start, NEW last,
         RangesSoFar(s, k, ranges, start, last)
  PROVE  start \in UpTo(s, n) /\ start \in Int /\ last \in Int
<1>1. start \in Int /\ start <= last /\ last = s[k]
  BY DEF RangesSoFar
<1>2. last \in Int
  BY <1>1
<1>3. start \in start .. last
  BY <1>1, <1>2
<1>4. start \in UpTo(s, k)
  BY <1>3 DEF RangesSoFar
<1> QED
  BY <1>1, <1>2, <1>4 DEF UpTo

\* The first number of a list begins the first range.
LEMMA FirstRange ==
  ASSUME NEW s, s[1] \in Int
  PROVE  RangesSoFar(s, 1, <<>>, s[1], s[1])
<1>1. <<>> \in Ranges /\ Len(<<>>) = 0
  BY EmptySeq DEF Ranges
<1>2. Separate(<<>>) /\ Covered(<<>>) = {}
  BY DEF Separate, Covered
<1>3. UpTo(s, 0 + 1) = UpTo(s, 0) \cup {s[0 + 1]} /\ UpTo(s, 0) = {}
  BY UpToNext
<1>4. s[1] .. s[1] = {s[1]} /\ UpTo(s, 1) = {s[1]}
  BY <1>3
<1> QED
  BY <1>1, <1>2, <1>4 DEF RangesSoFar

\* Every other number comes again, extends the range that goes on, or ends it.
LEMMA NextInRange ==
  ASSUME NEW n \in Nat, NEW s \in [1 .. n -> Int], NEW k \in 1 .. n - 1,
         NEW ranges, NEW start, NEW last, RangesSoFar(s, k, ranges, start, last), s[k] <= s[k + 1]
  PROVE  /\ s[k + 1] = last => RangesSoFar(s, k + 1, ranges, start, last)
         /\ s[k + 1] = last + 1 => RangesSoFar(s, k + 1, ranges, start, s[k + 1])
         /\ s[k + 1] # last /\ s[k + 1] # last + 1 =>
              RangesSoFar(s, k + 1, Append(ranges, Range1(start, last)), s[k + 1], s[k + 1])
<1> DEFINE c == s[k + 1]
<1>1. /\ ranges \in Ranges /\ Separate(ranges) /\ Covered(ranges) \cup (start .. last) = UpTo(s, k)
      /\ last = s[k] /\ start \in Int /\ start <= last
      /\ ranges # <<>> => ranges[Len(ranges)].last + 1 < start
  BY DEF RangesSoFar
<1>2. c \in Int /\ last \in Int /\ last <= c
  BY <1>1
<1>3. UpTo(s, k + 1) = UpTo(s, k) \cup {c}
  <2>1. k \in Nat
    OBVIOUS
  <2> QED
    BY <2>1, UpToNext
<1> HIDE DEF c
<1>4. CASE c = last
  <2>1. c \in start .. last
    BY <1>1, <1>2, <1>4
  <2>2. c \in UpTo(s, k)
    BY <1>1, <2>1
  <2>3. UpTo(s, k + 1) = UpTo(s, k)
    BY <1>3, <2>2
  <2>4. RangesSoFar(s, k + 1, ranges, start, last)
    BY <1>1, <1>4, <2>3 DEF RangesSoFar, c
  <2>5. c # last + 1
    BY <1>2, <1>4
  <2> QED
    BY <1>4, <2>4, <2>5 DEF c
<1>5. CASE c = last + 1
  <2>1. start .. c = (start .. last) \cup {c} /\ start <= c
    BY <1>1, <1>2, <1>5
  <2>2. Covered(ranges) \cup (start .. c) = UpTo(s, k + 1)
    BY <1>1, <1>3, <2>1
  <2>3. RangesSoFar(s, k + 1, ranges, start, c)
    BY <1>1, <2>1, <2>2 DEF RangesSoFar, c
  <2>4. c # last
    BY <1>2, <1>5
  <2> QED
    BY <1>5, <2>3, <2>4 DEF c
<1>6. CASE c # last /\ c # last + 1
  <2> DEFINE more == Append(ranges, Range1(start, last))
  <2>a. ranges \in Ranges /\ Separate(ranges) /\ start \in Int /\ last \in Int
    BY <1>1, <1>2
  <2>b. ranges # <<>> => ranges[Len(ranges)].last + 1 < start
    BY <1>1
  <2>1. /\ more \in Ranges /\ Separate(more) /\ Covered(more) = Covered(ranges) \cup (start .. last)
        /\ more[Len(more)] = Range1(start, last)
    BY <2>a, <2>b, OneRangeMore
  <2> HIDE DEF more
  <2>2. more[Len(more)].last + 1 < c
    <3>1. last + 1 < c
      BY <1>2, <1>6
    <3> QED
      BY <2>1, <3>1 DEF Range1
  <2>3. c .. c = {c} /\ c <= c
    BY <1>2
  <2>4. Covered(more) \cup (c .. c) = UpTo(s, k + 1)
    BY <1>1, <1>3, <2>1, <2>3
  <2>5. RangesSoFar(s, k + 1, more, c, c)
    BY <1>2, <2>1, <2>2, <2>3, <2>4 DEF RangesSoFar, c
  <2> QED
    BY <1>6, <2>5 DEF c, more
<1> QED
  BY <1>4, <1>5, <1>6 DEF c

\* A range that cannot be made is the range of a list that has no numbers, or 0.
LEMMA SetInvFails ==
  ASSUME SetInv, BuildingSet, worker.outcome = "sorted", job' = job, text' = text,
         worker.rangeStart < 1, job.kind = "numbers", at > 0 \/ at = Len(text),
         Fails, at' \in 0 .. Len(text)
  PROVE  SetInv'
<1>1. /\ text \in Seq(Numbers \cup {NotNumeric}) /\ at \in 0 .. Len(text) /\ SetWorker
      /\ text \in Seq(Nat)
      /\ at = 0 => worker.rangeStart = Limit
      /\ worker.sorted \in [1 .. Len(text) -> Numbers]
      /\ UpTo(worker.sorted, Len(text)) = ToSet(text)
      /\ at > 0 => RangesSoFar(worker.sorted, at, output, worker.rangeStart, worker.previous)
  BY DEF SetInv
<1>2. Len(text) \in Nat /\ Numbers = Nat
  BY <1>1, LenProperties DEF Numbers
<1>3. text = <<>> \/ 0 \in ToSet(text)
  <2>1. CASE at = 0
    <3>1. Len(text) = 0
      BY <1>1, <2>1
    <3> QED
      BY <1>1, <3>1, EmptySeq
  <2>2. CASE at # 0
    <3>1. PICK n \in Nat : n = Len(text)
      BY <1>2
    <3>2. at \in 1 .. n /\ at > 0
      BY <1>1, <2>2, <3>1
    <3>3. worker.sorted \in [1 .. n -> Nat]
      BY <1>1, <1>2, <3>1
    <3>4. worker.sorted \in [1 .. n -> Int]
      BY <3>3
    <3>5. worker.rangeStart \in UpTo(worker.sorted, n)
      BY <1>1, <3>2, <3>4, RangeStarts
    <3>6. worker.rangeStart \in Nat
      BY <3>3, <3>5 DEF UpTo
    <3>7. worker.rangeStart = 0
      BY <3>6
    <3> QED
      BY <1>1, <3>1, <3>5, <3>7
  <2> QED
    BY <2>1, <2>2
<1>4. worker'.outcome = "invalid" /\ SetWorker'
  <2>1. worker' = [sorted |-> worker.sorted, previous |-> worker.previous,
                   rangeStart |-> worker.rangeStart, outcome |-> "invalid"]
    BY <1>1 DEF SetWorker, Fails
  <2> QED
    BY <2>1 DEF SetWorker
<1>5. BuildingSet' /\ Numbers' = Numbers
  BY DEF BuildingSet, Numbers
<1>6. RangesAreTheSet'
  BY <1>3, <1>4 DEF RangesAreTheSet
<1> QED
  BY <1>1, <1>4, <1>5, <1>6 DEF SetInv

\* What the worker keeps after a step.
Kept(previous, rangeStart, outcome) ==
  /\ worker'.sorted = worker.sorted /\ worker'.previous = previous
  /\ worker'.rangeStart = rangeStart /\ worker'.outcome = outcome /\ SetWorker'

\* The ways to keep it.
LEMMA Keeps ==
  ASSUME SetWorker
  PROVE  /\ worker' = worker => Kept(worker.previous, worker.rangeStart, worker.outcome)
         /\ \A c : worker' = [worker EXCEPT !.previous = c, !.rangeStart = c] => Kept(c, c, worker.outcome)
         /\ \A c : worker' = [worker EXCEPT !.previous = c] => Kept(c, worker.rangeStart, worker.outcome)
         /\ \A o : worker' = [worker EXCEPT !.outcome = o] => Kept(worker.previous, worker.rangeStart, o)
<1> DEFINE w(p, r, o) == [sorted |-> worker.sorted, previous |-> p, rangeStart |-> r, outcome |-> o]
<1>1. worker = w(worker.previous, worker.rangeStart, worker.outcome)
  BY DEF SetWorker
<1>2. ASSUME NEW p, NEW r, NEW o, worker' = w(p, r, o)
      PROVE  Kept(p, r, o)
  BY <1>2 DEF Kept, SetWorker
<1>3. ASSUME NEW c
      PROVE  /\ [worker EXCEPT !.previous = c, !.rangeStart = c] = w(c, c, worker.outcome)
             /\ [worker EXCEPT !.previous = c] = w(c, worker.rangeStart, worker.outcome)
             /\ [worker EXCEPT !.outcome = c] = w(worker.previous, worker.rangeStart, c)
  <2>1. worker = [sorted |-> worker.sorted, previous |-> worker.previous,
                  rangeStart |-> worker.rangeStart, outcome |-> worker.outcome]
    BY DEF SetWorker
  <2>2. [worker EXCEPT !.previous = c, !.rangeStart = c] = w(c, c, worker.outcome)
    <3>1. PICK x : x = worker
      OBVIOUS
    <3>2. x \in [sorted : {x.sorted}, previous : {x.previous}, rangeStart : {x.rangeStart}, outcome : {x.outcome}]
      BY <2>1, <3>1
    <3>3. [x EXCEPT !.previous = c, !.rangeStart = c]
            \in [sorted : {x.sorted}, previous : {c}, rangeStart : {c}, outcome : {x.outcome}]
      BY <3>2
    <3>4. PICK y : y = [x EXCEPT !.previous = c, !.rangeStart = c]
      OBVIOUS
    <3>5. y = [sorted |-> x.sorted, previous |-> c, rangeStart |-> c, outcome |-> x.outcome]
      BY <3>3, <3>4
    <3> QED
      BY <3>1, <3>4, <3>5
  <2>3. [worker EXCEPT !.previous = c] = w(c, worker.rangeStart, worker.outcome)
    BY <2>1
  <2>4. [worker EXCEPT !.outcome = c] = w(worker.previous, worker.rangeStart, c)
    BY <2>1
  <2> QED
    BY <2>2, <2>3, <2>4
<1> HIDE DEF w
<1> QED
  BY <1>1, <1>2, <1>3

\* A number is read.
LEMMA SetInvNext ==
  ASSUME SetInv, BuildingSet, nextNumber
  PROVE  SetInv'
<1>0. PICK n \in Nat : n = Len(text)
  <2>1. text \in Seq(Numbers \cup {NotNumeric})
    BY DEF SetInv
  <2> QED
    BY <2>1, LenProperties
<1>1. PICK s : s = worker.sorted
  OBVIOUS
<1>2. PICK k : k = at
  OBVIOUS
<1>3. /\ text \in Seq(Numbers \cup {NotNumeric}) /\ SetWorker /\ ~Plain1
      /\ job.kind = "numbers" => text \in Seq(Nat)
      /\ k = 0 => output = <<>> /\ worker.previous = Limit /\ worker.rangeStart = Limit
      /\ Ascending(s) /\ UpTo(s, n) = ToSet(text)
      /\ k > 0 => RangesSoFar(s, k, output, worker.rangeStart, worker.previous)
      /\ worker.outcome = "sorted"
  BY <1>0, <1>1, <1>2 DEF SetInv, nextNumber
<1>4. k \in 0 .. n - 1 /\ s \in [1 .. n -> Numbers]
  <2>1. at \in 0 .. Len(text) /\ at < Len(text) /\ worker.sorted \in [1 .. Len(text) -> Numbers]
    BY <1>3 DEF SetInv, nextNumber
  <2> QED
    BY <1>0, <1>1, <1>2, <2>1
<1>5. s \in [1 .. n -> Int]
  <2>1. Numbers \subseteq Int
    BY MaximumIsInt DEF Numbers
  <2> QED
    BY <1>4, <2>1
<1>6. PICK c : c = s[k + 1]
  OBVIOUS
<1>7. /\ at' = k + 1 /\ job' = job /\ text' = text
      /\ IF c = worker.previous THEN UNCHANGED <<worker, output>>
         ELSE IF worker.previous = Limit
           THEN worker' = [worker EXCEPT !.previous = c, !.rangeStart = c] /\ UNCHANGED output
         ELSE IF c = worker.previous + 1
           THEN worker' = [worker EXCEPT !.previous = c] /\ UNCHANGED output
         ELSE EndRange([worker EXCEPT !.previous = c, !.rangeStart = c])
  BY <1>1, <1>2, <1>6 DEF nextNumber
<1>8. k + 1 \in 0 .. n /\ k + 1 > 0 /\ k + 1 # 0 /\ k + 1 \in 1 .. n
  BY <1>4
<1>9. c \in Numbers /\ c \in Int /\ s[1] \in Int
  <2>1. 1 \in 1 .. n
    BY <1>8
  <2> QED
    BY <1>4, <1>5, <1>6, <1>8, <2>1
<1>10. BuildingSet' /\ Limit' = Limit /\ Plain1' = Plain1 /\ Numbers' = Numbers
  BY <1>7 DEF BuildingSet, Limit, Plain1, Numbers
\* It is enough that the ranges are right and that the list stays what it was.
<1>11. ASSUME NEW r, NEW p, Kept(p, r, "sorted"), RangesSoFar(s, k + 1, output', r, p)
       PROVE  SetInv'
  <2>1. worker'.outcome = "sorted" /\ worker'.sorted = s /\ worker'.rangeStart = r /\ worker'.previous = p /\ SetWorker'
    BY <1>1, <1>11 DEF Kept
  <2>2. RangesAreTheSet'
    BY <2>1 DEF RangesAreTheSet
  <2>3. at' = k + 1 /\ at' \in 0 .. Len(text') /\ at' # 0 /\ at' > 0
    BY <1>0, <1>7, <1>8
  <2>4. RangesSoFar(s, at', output', worker'.rangeStart, worker'.previous)
    BY <1>11, <2>1, <2>3
  <2>5. worker'.sorted \in [1 .. Len(text') -> Numbers] /\ UpTo(worker'.sorted, Len(text')) = ToSet(text')
    BY <1>0, <1>3, <1>4, <1>7, <2>1
  <2>6. worker'.sorted = s /\ Ascending(worker'.sorted)
    BY <1>3, <2>1
  <2> QED
    BY <1>3, <1>7, <1>10, <2>1, <2>2, <2>3, <2>4, <2>5, <2>6 DEF SetInv
<1>12. CASE k = 0
  <2>1. c = s[1]
    BY <1>6, <1>12
  <2>2. RangesSoFar(s, 1, <<>>, c, c)
    BY <1>9, <2>1, FirstRange
  <2>3. output' = <<>> /\ Kept(c, c, "sorted")
    <3>1. CASE c = worker.previous
      <4>1. worker' = worker /\ output' = output
        BY <1>7, <3>1
      <4>2. Kept(worker.previous, worker.rangeStart, worker.outcome)
        BY <1>3, <4>1, Keeps
      <4> QED
        BY <1>3, <1>12, <3>1, <4>1, <4>2
    <3>2. CASE c # worker.previous
      <4>1. worker' = [worker EXCEPT !.previous = c, !.rangeStart = c] /\ output' = output
        BY <1>3, <1>7, <1>12, <3>2
      <4>2. Kept(c, c, worker.outcome)
        BY <1>3, <4>1, Keeps
      <4> QED
        BY <1>3, <1>12, <4>1, <4>2
    <3> QED
      BY <3>1, <3>2
  <2>4. RangesSoFar(s, k + 1, output', c, c)
    <3>1. k + 1 = 1
      BY <1>12
    <3> QED
      BY <2>2, <2>3, <3>1
  <2> QED
    BY <1>11, <2>3, <2>4
<1>13. CASE k # 0
  <2> DEFINE p == worker.previous
             r == worker.rangeStart
  <2>1. k \in 1 .. n - 1 /\ k > 0
    BY <1>4, <1>13
  <2>2. RangesSoFar(s, k, output, r, p)
    BY <1>3, <2>1
  <2>3. p = s[k] /\ r \in Int
    BY <2>2 DEF RangesSoFar
  <2>4. s[k] <= s[k + 1] /\ p \in Numbers
    <3>1. k \in DOMAIN s /\ k + 1 \in DOMAIN s /\ k < k + 1
      BY <1>4, <2>1
    <3>2. s[k] <= s[k + 1]
      BY <1>3, <3>1 DEF Ascending
    <3> QED
      BY <1>4, <2>3, <3>1, <3>2
  <2>5. /\ c = p => RangesSoFar(s, k + 1, output, r, p)
        /\ c = p + 1 => RangesSoFar(s, k + 1, output, r, c)
        /\ c # p /\ c # p + 1 => RangesSoFar(s, k + 1, Append(output, Range1(r, p)), c, c)
    BY <1>0, <1>5, <1>6, <2>1, <2>2, <2>4, NextInRange
  <2>6. c # p => p # Limit
    <3>1. CASE job.kind = "numbers"
      <4>1. Limit = -1 /\ Numbers = Nat
        BY <3>1 DEF Limit, Numbers
      <4> QED
        BY <2>4, <4>1
    <3>2. CASE job.kind # "numbers"
      <4>1. Limit = Maximum /\ Numbers = 0 .. Maximum
        BY <3>2 DEF Limit, Numbers, BuildingSet
      <4>2. p <= c /\ c <= Maximum /\ c \in Int /\ p \in Int /\ Maximum \in Int
        BY <1>6, <1>9, <2>3, <2>4, <4>1, MaximumIsInt
      <4> QED
        BY <4>1, <4>2
    <3> QED
      BY <3>1, <3>2
  <2>7. CASE c = p
    <3>1. worker' = worker /\ output' = output
      BY <1>7, <2>7
    <3>2. Kept(p, r, "sorted")
      BY <1>3, <3>1, Keeps
    <3> QED
      BY <1>11, <2>5, <2>7, <3>1, <3>2
  <2>8. CASE c # p /\ c = p + 1
    <3>1. worker' = [worker EXCEPT !.previous = c] /\ output' = output
      BY <1>7, <2>6, <2>8
    <3>2. Kept(c, r, "sorted")
      BY <1>3, <3>1, Keeps
    <3> QED
      BY <1>11, <2>5, <2>8, <3>1, <3>2
  <2>9. CASE c # p /\ c # p + 1
    <3>1. EndRange([worker EXCEPT !.previous = c, !.rangeStart = c])
      BY <1>7, <2>6, <2>9
    <3>2. CASE job.kind = "numbers" /\ r < 1
      <4>1. Fails
        BY <3>1, <3>2 DEF EndRange
      <4>2. at > 0 /\ at' \in 0 .. Len(text)
        BY <1>0, <1>2, <1>7, <1>8, <2>1
      <4> QED
        BY <1>3, <1>7, <3>2, <4>1, <4>2, SetInvFails
    <3>3. CASE ~(job.kind = "numbers" /\ r < 1)
      <4>1. output' = Append(output, Range1(r, p)) /\ worker' = [worker EXCEPT !.previous = c, !.rangeStart = c]
        BY <3>1, <3>3 DEF EndRange
      <4>2. Kept(c, c, "sorted")
        BY <1>3, <4>1, Keeps
      <4> QED
        BY <1>11, <2>5, <2>9, <4>1, <4>2
    <3> QED
      BY <3>2, <3>3
  <2> QED
    BY <2>7, <2>8, <2>9
<1> QED
  BY <1>12, <1>13

\* The last range is ended.
LEMMA SetInvLast ==
  ASSUME SetInv, BuildingSet, lastRange
  PROVE  SetInv'
<1>1. /\ text \in Seq(Numbers \cup {NotNumeric}) /\ at \in 0 .. Len(text) /\ SetWorker /\ ~Plain1
      /\ job.kind = "numbers" => text \in Seq(Nat)
      /\ worker.sorted \in [1 .. Len(text) -> Numbers]
      /\ UpTo(worker.sorted, Len(text)) = ToSet(text)
      /\ at > 0 => RangesSoFar(worker.sorted, at, output, worker.rangeStart, worker.previous)
      /\ at = 0 => worker.rangeStart = Limit
      /\ worker.outcome = "sorted" /\ at = Len(text)
  BY DEF SetInv, lastRange, AllRead
<1>2. job' = job /\ text' = text /\ at' = at /\ EndRange([worker EXCEPT !.outcome = "built"])
  BY DEF lastRange
<1>3. BuildingSet' /\ Limit' = Limit /\ Plain1' = Plain1 /\ Numbers' = Numbers
  BY <1>2 DEF BuildingSet, Limit, Plain1, Numbers
<1>4. CASE job.kind = "numbers" /\ worker.rangeStart < 1
  <2>1. Fails
    BY <1>2, <1>4 DEF EndRange
  <2> QED
    BY <1>1, <1>2, <1>4, <2>1, SetInvFails
<1>5. CASE ~(job.kind = "numbers" /\ worker.rangeStart < 1)
  <2> DEFINE r == worker.rangeStart
             p == worker.previous
  <2>1. worker' = [worker EXCEPT !.outcome = "built"] /\ output' = Append(output, Range1(r, p))
    BY <1>2, <1>5 DEF EndRange
  <2>2. Kept(p, r, "built")
    BY <1>1, <2>1, Keeps
  <2>3. ASSUME text # <<>>
        PROVE  Covered(output') = ToSet(text) /\ Separate(output')
    <3>1. at \in Nat /\ at # 0
      <4>1. Len(text) \in Nat /\ Len(text) # 0
        BY <1>1, <2>3, EmptySeq, LenProperties
      <4> QED
        BY <1>1, <4>1
    <3>2. RangesSoFar(worker.sorted, at, output, r, p)
      BY <1>1, <3>1
    <3>3. p \in Int
      <4>1. PICK n \in Nat : n = Len(text)
        BY <1>1, <3>1
      <4>2. at \in 1 .. n
        BY <1>1, <3>1, <4>1
      <4>3. worker.sorted[at] \in Numbers
        BY <1>1, <4>1, <4>2
      <4>4. Numbers \subseteq Int
        BY MaximumIsInt DEF Numbers
      <4> QED
        BY <3>2, <4>3, <4>4 DEF RangesSoFar
    <3>4. /\ output \in Ranges /\ Separate(output) /\ r \in Int
          /\ output # <<>> => output[Len(output)].last + 1 < r
      BY <3>2 DEF RangesSoFar
    <3>5. Covered(output) \cup (r .. p) = ToSet(text)
      BY <1>1, <3>2 DEF RangesSoFar
    <3>6. Covered(Append(output, Range1(r, p))) = Covered(output) \cup (r .. p)
          /\ Separate(Append(output, Range1(r, p)))
      BY <3>3, <3>4, OneRangeMore
    <3> QED
      BY <2>1, <3>5, <3>6
  <2>4. worker'.outcome = "built" /\ SetWorker'
    BY <2>2 DEF Kept
  <2>5. RangesAreTheSet'
    BY <1>2, <2>3, <2>4 DEF RangesAreTheSet, Covered, Separate
  <2> QED
    BY <1>1, <1>2, <1>3, <2>4, <2>5 DEF SetInv
<1> QED
  BY <1>4, <1>5

\* Every step keeps it.
LEMMA SetInvStep == SetInv /\ [Next]_streamVars => SetInv'
<1>1. ASSUME SetInv, Next
      PROVE  SetInv'
  <2>1. job' = job /\ (BuildingSet => SetNext)
    BY <1>1, NextOfKind
  <2>2. CASE BuildingSet
    BY <1>1, <2>1, <2>2, SetInvSort, SetInvNext, SetInvLast DEF SetNext
  <2>3. CASE ~BuildingSet
    BY <2>1, <2>3 DEF SetInv, BuildingSet
  <2> QED
    BY <2>2, <2>3
<1>2. ASSUME SetInv, UNCHANGED streamVars
      PROVE  SetInv'
  BY <1>2 DEF SetInv, streamVars, BuildingSet, Numbers, SetWorker, Limit, Plain1, RangesAreTheSet
<1> QED
  BY <1>1, <1>2

\* A message set names the numbers of its list and nothing else, in the fewest
\* ranges and in order, whatever the list (messageSet::byNumber, byUID).
THEOREM SetsAreTheirLists == Spec => []RangesAreTheSet
<1>1. SetInv => RangesAreTheSet
  BY DEF SetInv, RangesAreTheSet
<1> QED
  BY <1>1, SetInvInit, SetInvStep, PTL DEF Spec

-----------------------------------------------------------------------------
(* The search for a token. *)

\* The token stands at place i of s, counted from 0.
StandsAt(token, s, i) ==
  i \in 0 .. Len(s) - Len(token) /\ \A j \in 1 .. Len(token) : s[i + j] = token[j]

\* The first v bytes of the buffer are those of the text after a place.
Window(w, v, place) == \A i \in 1 .. Len(w) : i <= v => w[i] = text[place + i]

\* Of the buffer that begins at a place of the text, what is left of the text is
\* right; only a file has something after that, when it is read to its end.
Buffered(w, place) ==
  /\ w \in Seq(Byte) /\ Len(w) <= 2 * HalfBuffer
  /\ at - place <= Len(w) /\ Window(w, at - place, place)
  /\ at - place < Len(w) => job.file /\ at = Len(text)
  /\ Len(w) < 2 * HalfBuffer => at = Len(text)

SearchWorker ==
  worker \in [window : {worker.window}, offset : {worker.offset}, filled : {worker.filled}, isEOF : {worker.isEOF},
              eof : {worker.eof}, result : {worker.result}]

SearchInv ==
  job.kind = "find" =>
    /\ job.token \in Tokens /\ job.start \in Nat /\ job.file \in BOOLEAN
    /\ text \in Seq(Byte) /\ at \in job.start .. Len(text) /\ SearchWorker
    /\ ~worker.filled => worker.result = Searching /\ at = job.start /\ worker.offset = 0
    /\ worker.filled /\ worker.result = Searching =>
         /\ worker.offset \in Nat /\ Buffered(worker.window, job.start + worker.offset)
         /\ \A p \in Positions(job.token, text) : p >= job.start => p >= job.start + worker.offset
    /\ FindsFirst

\* The least number of a set.
LEMMA MinOfNumbers ==
  ASSUME NEW S \in SUBSET Nat, S # {}
  PROVE  Min(S) \in S /\ Min(S) \in Nat /\ \A y \in S : Min(S) <= y
<1>1. \E x \in S : \A y \in S : x <= y
  BY LeastNumber
<1>2. Min(S) \in S /\ \A y \in S : Min(S) <= y
  BY <1>1 DEF Min
<1> QED
  BY <1>2

\* The places of a token.
LEMMA PlacesOfToken ==
  ASSUME NEW token \in Seq(Byte), NEW s \in Seq(Byte)
  PROVE  /\ \A i : i \in Positions(token, s) <=> StandsAt(token, s, i)
         /\ Positions(token, s) \in SUBSET Nat
<1>1. PICK m, n \in Nat : m = Len(token) /\ n = Len(s)
  BY LenProperties
<1>2. \A k \in 1 .. n : s[k] \in Byte
  BY <1>1, ElementOfSeq
<1>3. Positions(token, s) = {i \in 0 .. n - m : SubSeq(s, i + 1, i + m) = token}
  BY <1>1 DEF Positions
<1>4. ASSUME NEW i \in 0 .. n - m
      PROVE  SubSeq(s, i + 1, i + m) = token <=> \A j \in 1 .. m : s[i + j] = token[j]
  <2> DEFINE a == i + 1
             b == i + m
             part == SubSeq(s, a, b)
  <2>1. a \in Int /\ b \in Int /\ b - a + 1 = m /\ \A k \in a .. b : k \in 1 .. n
    BY <1>1
  <2>2. \A k \in a .. b : s[k] \in Byte
    BY <1>2, <2>1
  <2>3. \A j \in 1 .. m : a + j - 1 = i + j
    OBVIOUS
  <2> HIDE DEF a, b
  <2>4. /\ part \in Seq(Byte) /\ Len(part) = (IF a <= b THEN b - a + 1 ELSE 0)
        /\ \A j \in 1 .. b - a + 1 : part[j] = s[a + j - 1]
    BY <2>1, <2>2, SubSeqProperties
  <2>5. Len(part) = m
    <3>1. m \in Nat
      BY <1>1
    <3> QED
      BY <2>1, <2>4, <3>1
  <2>6. \A j \in 1 .. m : part[j] = s[i + j]
    BY <2>1, <2>3, <2>4
  <2> HIDE DEF part
  <2>7. ASSUME \A j \in 1 .. m : s[i + j] = token[j]
        PROVE  part = token
    <3>1. \A j \in 1 .. Len(part) : part[j] = token[j]
      BY <2>5, <2>6, <2>7
    <3>2. part \in Seq(Byte) /\ Len(part) = Len(token)
      BY <1>1, <2>4, <2>5
    <3> QED
      BY <3>1, <3>2, SeqEqual
  <2>8. ASSUME part = token
        PROVE  \A j \in 1 .. m : s[i + j] = token[j]
    BY <2>6, <2>8
  <2> QED
    BY <2>7, <2>8 DEF part, a, b
<1>5. Positions(token, s) \in SUBSET Nat
  BY <1>1, <1>3
<1> QED
  BY <1>1, <1>3, <1>4, <1>5 DEF StandsAt

\* The first place of a token from a position on.
LEMMA FirstPlace ==
  ASSUME NEW token \in Seq(Byte), NEW s \in Seq(Byte), NEW start \in Nat, NEW first, first = firstAt(token, s, start)
  PROVE  /\ first # npos => /\ first \in Nat /\ first >= start /\ StandsAt(token, s, first)
                            /\ \A p \in Nat : StandsAt(token, s, p) /\ p >= start => first <= p
         /\ first = npos => \A p \in Nat : ~(StandsAt(token, s, p) /\ p >= start)
<1> DEFINE places == {i \in Positions(token, s) : i >= start}
<1>1. places \in SUBSET Nat /\ \A i : i \in places <=> StandsAt(token, s, i) /\ i >= start
  BY PlacesOfToken
<1>2. first = IF places = {} THEN npos ELSE Min(places)
  BY DEF firstAt
<1> HIDE DEF places
<1>3. CASE places = {}
  <2>1. first = npos
    BY <1>2, <1>3
  <2>2. \A p : ~(StandsAt(token, s, p) /\ p >= start)
    BY <1>1, <1>3
  <2> QED
    BY <2>1, <2>2
<1>4. CASE places # {}
  <2>1. first \in places /\ first \in Nat /\ \A y \in places : first <= y
    BY <1>1, <1>2, <1>4, MinOfNumbers
  <2>2. first # npos
    BY <2>1 DEF npos
  <2> QED
    BY <1>1, <2>1, <2>2
<1> QED
  BY <1>3, <1>4

\* In what was read of the text the token stands where it does in the buffer.
LEMMA BufferIsText ==
  ASSUME NEW w, NEW place \in Nat, NEW token \in Seq(Byte), NEW i \in Nat,
         Buffered(w, place), text \in Seq(Byte), at \in Nat, at <= Len(text), i + Len(token) <= at - place
  PROVE  StandsAt(token, w, i) <=> StandsAt(token, text, place + i)
<1>1. PICK l, m, n \in Nat : l = Len(w) /\ m = Len(token) /\ n = Len(text)
  BY LenProperties DEF Buffered
<1>2. PICK a \in Nat : a = at
  OBVIOUS
<1>3. i + m <= a - place /\ a - place <= l /\ a <= n
  BY <1>1, <1>2 DEF Buffered
<1>4. i \in 0 .. l - m /\ place + i \in 0 .. n - m
  BY <1>3
<1>5. \A j \in 1 .. m : w[i + j] = text[(place + i) + j]
  <2> TAKE j \in 1 .. m
  <2>1. i + j \in 1 .. l /\ i + j <= a - place /\ place + (i + j) = (place + i) + j
    BY <1>3
  <2>2. w[i + j] = text[place + (i + j)]
    BY <1>1, <1>2, <2>1 DEF Buffered, Window
  <2> QED
    BY <2>1, <2>2
<1> QED
  BY <1>1, <1>4, <1>5 DEF StandsAt

\* The first place of a token, and a place before which it is not.
FirstIn(token, s, m) == StandsAt(token, s, m) /\ \A i \in Nat : StandsAt(token, s, i) => m <= i
NoneBefore(token, start, place) == \A p \in Positions(token, text) : p >= start => p >= place

\* When the token stands in the buffer, its first place there is the one looked
\* for; if the text has none, it is one that runs over the end of a file.
LEMMA FoundIsFirst ==
  ASSUME NEW w, NEW start \in Nat, NEW place \in Nat, NEW token \in Seq(Byte), NEW m \in Nat, NEW first,
         Buffered(w, place), text \in Seq(Byte), at \in Nat, at <= Len(text), start <= place,
         NoneBefore(token, start, place), FirstIn(token, w, m), first = firstAt(token, text, start)
  PROVE  /\ first # npos => place + m = first
         /\ first = npos => job.file /\ (place + m) + Len(token) > Len(text)
<1>1. PICK l, k, n \in Nat : l = Len(w) /\ k = Len(token) /\ n = Len(text)
  BY LenProperties DEF Buffered
<1>2. PICK a \in Nat : a = at
  OBVIOUS
<1>3. m + k <= l /\ a - place <= l /\ a <= n
  BY <1>1, <1>2 DEF Buffered, StandsAt, FirstIn
<1>4. /\ first # npos => first \in Nat /\ StandsAt(token, text, first) /\ first >= place /\ first + k <= n
      /\ first # npos => \A p \in Nat : StandsAt(token, text, p) /\ p >= start => first <= p
      /\ first = npos => \A p \in Nat : ~(StandsAt(token, text, p) /\ p >= start)
  <2>1. CASE first = npos
    BY <2>1, FirstPlace
  <2>2. CASE first # npos
    <3>1. /\ first \in Nat /\ first >= start /\ StandsAt(token, text, first)
          /\ \A p \in Nat : StandsAt(token, text, p) /\ p >= start => first <= p
      BY <2>2, FirstPlace
    <3>2. first \in Positions(token, text)
      BY <3>1, PlacesOfToken
    <3>3. first >= place
      BY <3>1, <3>2 DEF NoneBefore
    <3>4. first + k <= n
      BY <1>1, <3>1 DEF StandsAt
    <3> QED
      BY <2>2, <3>1, <3>3, <3>4
  <2> QED
    BY <2>1, <2>2
<1>5. ASSUME first # npos, first + k <= a
      PROVE  first - place \in Nat /\ m <= first - place
  <2>1. PICK i \in Nat : i = first - place
    BY <1>4, <1>5
  <2>2. place + i = first /\ i + k <= a - place
    BY <1>4, <1>5, <2>1
  <2>3. StandsAt(token, w, i)
    BY <1>1, <1>2, <1>4, <1>5, <2>2, BufferIsText
  <2> QED
    BY <2>1, <2>3 DEF FirstIn
<1>6. CASE m + k <= a - place
  <2>0. StandsAt(token, w, m) /\ m \in Nat
    BY DEF FirstIn
  <2>1. StandsAt(token, text, place + m)
    BY <1>1, <1>2, <1>6, <2>0, BufferIsText
  <2>2. place + m \in Nat /\ place + m >= start
    OBVIOUS
  <2>3. first # npos /\ first <= place + m
    BY <1>4, <2>1, <2>2
  <2>4. first + k <= a
    BY <1>4, <1>6, <2>3
  <2>5. first \in Nat /\ m <= first - place
    BY <1>4, <1>5, <2>3, <2>4
  <2> QED
    BY <2>3, <2>5
<1>7. CASE ~(m + k <= a - place)
  <2>1. a - place < l
    BY <1>3, <1>7
  <2>2. job.file /\ a = n
    BY <1>1, <1>2, <2>1 DEF Buffered
  <2>3. first = npos
    <3>1. SUFFICES ASSUME first # npos
                   PROVE  FALSE
      OBVIOUS
    <3>2. first + k <= a /\ first \in Nat
      BY <1>4, <2>2, <3>1
    <3>3. m <= first - place
      BY <1>5, <3>1, <3>2
    <3> QED
      BY <1>7, <3>2, <3>3
  <2>4. (place + m) + k > n
    BY <1>7, <2>2
  <2> QED
    BY <1>1, <2>2, <2>3, <2>4
<1> QED
  BY <1>6, <1>7

\* When it does not, it does not end in what was read of the text.
LEMMA NoneInBuffer ==
  ASSUME NEW w, NEW place \in Nat, NEW token \in Seq(Byte),
         Buffered(w, place), text \in Seq(Byte), at \in Nat, at <= Len(text),
         Positions(token, w) = {}, NEW p \in Nat, p >= place, StandsAt(token, text, p)
  PROVE  p + Len(token) > at
<1>1. PICK k, n \in Nat : k = Len(token) /\ n = Len(text)
  BY LenProperties
<1>2. PICK i \in Nat : i = p - place
  OBVIOUS
<1>3. ASSUME p + k <= at
      PROVE  FALSE
  <2>1. place + i = p /\ i + k <= at - place
    BY <1>2, <1>3
  <2>2. StandsAt(token, w, i)
    BY <1>1, <2>1, BufferIsText
  <2>3. w \in Seq(Byte)
    BY DEF Buffered
  <2> QED
    BY <2>2, <2>3, PlacesOfToken
<1> QED
  BY <1>1, <1>3

\* What a read gives.
LEMMA WhatIsRead ==
  ASSUME NEW count \in Nat, text \in Seq(Byte), at \in Nat, at <= Len(text), NEW bytes, bytes = Available(count)
  PROVE  /\ bytes \in Seq(Byte) /\ Len(bytes) \in Nat /\ Len(bytes) <= count /\ at + Len(bytes) <= Len(text)
         /\ Len(bytes) < count => at + Len(bytes) = Len(text)
         /\ \A j \in 1 .. Len(bytes) : bytes[j] = text[at + j]
<1>1. PICK n \in Nat : n = Len(text)
  BY LenProperties
<1>2. PICK a \in Nat : a = at
  OBVIOUS
<1>3. PICK e : e = Min({a + count, n})
  OBVIOUS
<1>4. e \in {a + count, n} /\ e <= a + count /\ e <= n
  <2>1. {a + count, n} \in SUBSET Nat /\ {a + count, n} # {}
    OBVIOUS
  <2> QED
    BY <1>3, <2>1, MinOfNumbers
<1>5. e \in Nat /\ a <= e /\ a <= n
  BY <1>1, <1>2, <1>4
<1>6. bytes = SubSeq(text, a + 1, e)
  BY <1>1, <1>2, <1>3 DEF Available
<1>7. \A k \in a + 1 .. e : text[k] \in Byte
  <2> TAKE k \in a + 1 .. e
  <2>1. k \in 1 .. n
    BY <1>4, <1>5
  <2> QED
    BY <1>1, <2>1, ElementOfSeq
<1>8. PICK b \in Nat : b = a + 1
  OBVIOUS
<1>9. /\ bytes \in Seq(Byte) /\ Len(bytes) = (IF b <= e THEN e - b + 1 ELSE 0)
      /\ \A j \in 1 .. e - b + 1 : bytes[j] = text[b + j - 1]
  BY <1>5, <1>6, <1>7, <1>8, SubSeqProperties
<1>10. Len(bytes) = e - a
  BY <1>5, <1>8, <1>9
<1>11. \A j \in 1 .. e - a : bytes[j] = text[a + j]
  <2> TAKE j \in 1 .. e - a
  <2>1. e - b + 1 = e - a /\ b + j - 1 = a + j
    BY <1>5, <1>8
  <2> QED
    BY <1>9, <2>1
<1>12. Len(bytes) \in Nat /\ Len(bytes) <= count /\ a + Len(bytes) <= n /\ (Len(bytes) < count => a + Len(bytes) = n)
  BY <1>4, <1>5, <1>10
<1> QED
  BY <1>1, <1>2, <1>9, <1>10, <1>11, <1>12

\* The second half of the buffer becomes the first, whatever follows what was
\* read into it, and more is read behind it.
LEMMA BufferSlides ==
  ASSUME NEW w, NEW place \in Nat, Buffered(w, place), text \in Seq(Byte), at \in Nat, at <= Len(text),
         w = worker.window, NEW rest \in [1 .. Unread -> Byte], NEW bytes, bytes = Available(HalfBuffer),
         at' = at + Len(bytes), job' = job, text' = text,
         Len(w) < 2 * HalfBuffer => job.file,
         NEW more, more = SecondHalf(rest) \o bytes
  PROVE  Buffered(more, place + HalfBuffer)'
<1> DEFINE second == SecondHalf(rest)
<1>1. PICK h, l, n \in Nat : h = HalfBuffer /\ l = Len(w) /\ n = Len(text) /\ h > 0
  <2>1. Len(w) \in Nat /\ Len(text) \in Nat
    BY LenProperties DEF Buffered
  <2>2. HalfBuffer \in Nat /\ HalfBuffer > 0
    BY SearchAssumption
  <2> QED
    BY <2>1, <2>2
<1>2. PICK a, v \in Int : a = at /\ v = at - place
  OBVIOUS
<1>3. /\ w \in Seq(Byte) /\ l <= 2 * h /\ v <= l /\ (v < l => job.file /\ a = n) /\ (l < 2 * h => a = n)
      /\ \A i \in 1 .. l : i <= v => w[i] = text[place + i]
  BY <1>1, <1>2 DEF Buffered, Window
<1>4. PICK u : u = Unread
  OBVIOUS
<1>5. u = IF l >= h THEN 2 * h - l ELSE h
  <2>1. \A x \in Int : Max({x, 0}) = IF x >= 0 THEN x ELSE 0
    <3> TAKE x \in Int
    <3>1. \E y \in {x, 0} : \A z \in {x, 0} : y >= z
      OBVIOUS
    <3>2. Max({x, 0}) \in {x, 0} /\ \A z \in {x, 0} : Max({x, 0}) >= z
      BY <3>1 DEF Max
    <3> QED
      BY <3>2
  <2>2. Max({l - h, 0}) = IF l - h >= 0 THEN l - h ELSE 0
    BY <2>1
  <2>3. u = h - Max({l - h, 0})
    BY <1>1, <1>4 DEF Unread
  <2> QED
    BY <2>2, <2>3
<1>6. u \in Nat
  BY <1>1, <1>3, <1>5
<1>7. rest \in Seq(Byte) /\ Len(rest) = u
  <2>1. rest \in [1 .. u -> Byte]
    BY <1>4
  <2>2. rest \in Seq(Byte)
    BY <1>6, <2>1, SeqDef
  <2> QED
    BY <1>6, <2>1, <2>2
<1>8. PICK old : old = SubSeq(w, h + 1, l)
  OBVIOUS
<1>9. /\ old \in Seq(Byte) /\ Len(old) = (IF l >= h THEN l - h ELSE 0)
      /\ \A j \in 1 .. l - h : old[j] = w[h + j]
  <2>1. \A k \in h + 1 .. l : w[k] \in Byte
    BY <1>1, <1>3, ElementOfSeq, SMTT(60)
  <2>2. PICK b \in Int : b = h + 1
    OBVIOUS
  <2>3. /\ old \in Seq(Byte) /\ Len(old) = (IF b <= l THEN l - b + 1 ELSE 0)
        /\ \A j \in 1 .. l - b + 1 : old[j] = w[b + j - 1]
    BY <1>8, <2>1, <2>2, SubSeqProperties
  <2>4. l - b + 1 = l - h /\ (b <= l <=> l > h)
    BY <2>2
  <2>5. \A j \in 1 .. l - h : b + j - 1 = h + j
    BY <2>2
  <2>6. Len(old) = (IF l >= h THEN l - h ELSE 0)
    BY <2>3, <2>4
  <2> QED
    BY <2>3, <2>4, <2>5, <2>6
<1>10. second = old \o rest
  BY <1>1, <1>8 DEF SecondHalf
<1> HIDE DEF second
<1>11. /\ second \in Seq(Byte) /\ Len(second) = h
       /\ \A j \in 1 .. h : j <= l - h => second[j] = w[h + j]
  <2>1. /\ second \in Seq(Byte) /\ Len(second) = Len(old) + Len(rest)
        /\ \A i \in 1 .. Len(old) + Len(rest) : second[i] = IF i <= Len(old) THEN old[i] ELSE rest[i - Len(old)]
    BY <1>7, <1>9, <1>10, ConcatProperties
  <2>2. Len(old) + Len(rest) = h
    BY <1>5, <1>7, <1>9
  <2>3. ASSUME NEW j \in 1 .. h, j <= l - h
        PROVE  second[j] = w[h + j]
    <3>1. j <= Len(old) /\ j \in 1 .. l - h
      BY <1>9, <2>3
    <3> QED
      BY <1>9, <2>1, <2>2, <3>1
  <2> QED
    BY <2>1, <2>2, <2>3
<1>0. /\ bytes \in Seq(Byte) /\ Len(bytes) \in Nat /\ Len(bytes) <= h /\ at + Len(bytes) <= Len(text)
      /\ Len(bytes) < h => at + Len(bytes) = Len(text)
      /\ \A j \in 1 .. Len(bytes) : bytes[j] = text[at + j]
  <2>1. bytes = Available(h)
    BY <1>1
  <2> QED
    BY <2>1, WhatIsRead
<1>12. PICK c \in Nat : c = Len(bytes)
  BY <1>0
<1>13. /\ bytes \in Seq(Byte) /\ c <= h /\ a + c <= n /\ (c < h => a + c = n)
       /\ \A j \in 1 .. c : bytes[j] = text[a + j]
  BY <1>0, <1>1, <1>2, <1>12
<1>14. /\ more \in Seq(Byte) /\ Len(more) = h + c
       /\ \A i \in 1 .. h + c : more[i] = IF i <= h THEN second[i] ELSE bytes[i - h]
  <2>1. second \in Seq(Byte) /\ bytes \in Seq(Byte) /\ more = second \o bytes
    BY <1>11, <1>13 DEF second
  <2>2. /\ more \in Seq(Byte) /\ Len(more) = Len(second) + Len(bytes)
        /\ \A i \in 1 .. Len(second) + Len(bytes) :
             more[i] = IF i <= Len(second) THEN second[i] ELSE bytes[i - Len(second)]
    BY <2>1, ConcatProperties
  <2> QED
    BY <1>11, <1>12, <2>2
<1>15. PICK place2 \in Nat : place2 = place + h
  OBVIOUS
<1>16. ASSUME NEW i \in 1 .. h + c, i <= (a + c) - place2
       PROVE  more[i] = text[place2 + i]
  <2>1. CASE i <= h /\ i <= l - h /\ h + i <= v
    <3>1. h + i \in 1 .. l /\ place + (h + i) = place2 + i /\ i \in 1 .. h
      BY <1>15, <2>1
    <3> QED
      BY <1>3, <1>11, <1>14, <2>1, <3>1
  <2>2. CASE i > h /\ v = 2 * h
    <3>1. i - h \in 1 .. c /\ a + (i - h) = place2 + i
      BY <1>2, <1>15, <2>2
    <3>2. bytes[i - h] = text[place2 + i]
      BY <1>13, <3>1
    <3>3. ~(i <= h)
      BY <2>2
    <3> QED
      BY <1>14, <3>2, <3>3
  <2>3. i <= v - h + c
    BY <1>2, <1>15, <1>16
  <2>4. v < 2 * h => c = 0
    <3>1. v < 2 * h => a = n
      BY <1>3
    <3> QED
      BY <1>13, <3>1
  <2>5. v <= l /\ l <= 2 * h
    BY <1>3
  <2>6. (i <= h /\ i <= l - h /\ h + i <= v) \/ (i > h /\ v = 2 * h)
    BY <2>3, <2>4, <2>5
  <2> QED
    BY <2>1, <2>2, <2>6
<1>17. /\ h + c <= 2 * h /\ (a + c) - place2 <= h + c
       /\ (a + c) - place2 < h + c => job.file /\ a + c = n
       /\ h + c < 2 * h => a + c = n
  <2>1. v < 2 * h => a = n /\ c = 0 /\ job.file
    <3>1. v < 2 * h => a = n
      BY <1>3
    <3>2. v < 2 * h => job.file
      BY <1>1, <1>3
    <3> QED
      BY <1>13, <3>1, <3>2
  <2>2. (a + c) - place2 = v - h + c
    BY <1>2, <1>15
  <2>3. v <= 2 * h
    BY <1>3
  <2> QED
    BY <1>13, <2>1, <2>2, <2>3
<1>18. at' = a + c /\ Len(text') = n
  BY <1>1, <1>2, <1>12
<1>19. Buffered(more, place2)'
  BY <1>1, <1>14, <1>16, <1>17, <1>18 DEF Buffered, Window
<1> QED
  BY <1>1, <1>15, <1>19

\* What the worker of a search keeps after a step.
SearchKeeps(w, offset, filled, result) ==
  /\ worker'.window = w /\ worker'.offset = offset /\ worker'.filled = filled /\ worker'.result = result
  /\ SearchWorker'

\* Before the first read.
LEMMA SearchInvInit == Init => SearchInv
<1> SUFFICES ASSUME Init, job.kind = "find"
             PROVE  SearchInv
  BY DEF SearchInv
<1>1. SearchInit
  BY InitOfKind
<1>2. /\ job \in [kind : {"find"}, token : Tokens, start : 0 .. MaxStart, file : BOOLEAN]
      /\ text \in SearchTexts /\ job.start <= Len(text) /\ at = job.start
      /\ worker \in [window : {<<>>}, offset : {0}, filled : {FALSE}, isEOF : {FALSE},
                     eof : IF job.file THEN BOOLEAN ELSE {FALSE}, result : {Searching}]
  BY <1>1 DEF SearchInit
<1>3. job.token \in Tokens /\ job.start \in 0 .. MaxStart /\ job.file \in BOOLEAN
  BY <1>2
<1>4. job.start \in Nat
  BY <1>3, SearchAssumption
<1>5. text \in Seq(Byte)
  BY <1>2, SearchAssumption
<1>6. Len(text) \in Nat
  BY <1>5, LenProperties
<1>7. at \in job.start .. Len(text)
  BY <1>2, <1>4, <1>6
<1>8. worker.result = Searching /\ worker.offset = 0 /\ worker.filled = FALSE
  BY <1>2
<1>9. SearchWorker
  BY <1>2 DEF SearchWorker
<1>10. FindsFirst
  BY <1>8 DEF FindsFirst
<1> QED
  BY <1>2, <1>3, <1>4, <1>5, <1>7, <1>8, <1>9, <1>10 DEF SearchInv

\* What every step of a search may rely on.
LEMMA SearchFacts ==
  ASSUME SearchInv, job.kind = "find"
  PROVE  /\ job.token \in Tokens /\ job.token \in Seq(Byte) /\ Len(job.token) \in 1 .. HalfBuffer
         /\ job.start \in Nat /\ job.file \in BOOLEAN /\ HalfBuffer \in Nat /\ HalfBuffer > 0
         /\ text \in Seq(Byte) /\ Len(text) \in Nat /\ at \in Nat /\ job.start <= at /\ at <= Len(text)
         /\ SearchWorker
<1>1. /\ job.token \in Tokens /\ job.start \in Nat /\ job.file \in BOOLEAN
      /\ text \in Seq(Byte) /\ at \in job.start .. Len(text) /\ SearchWorker
  BY DEF SearchInv
<1>2. job.token \in Seq(Byte) /\ Len(job.token) \in 1 .. HalfBuffer /\ HalfBuffer \in Nat /\ HalfBuffer > 0
  BY <1>1, SearchAssumption
<1>3. Len(text) \in Nat
  BY <1>1, LenProperties
<1>4. at \in Nat /\ job.start <= at /\ at <= Len(text)
  BY <1>1, <1>3
<1> QED
  BY <1>1, <1>2, <1>3, <1>4

\* The search ends with what was promised, and everything else stays.
LEMMA SearchEnds ==
  ASSUME SearchInv, job.kind = "find", NEW w, NEW offset, NEW result, SearchKeeps(w, offset, TRUE, result),
         job' = job, text' = text, at' \in job.start .. Len(text), result # Searching,
         LET first == firstAt(job.token, text, job.start) IN
           IF first # npos THEN result = first
           ELSE result = npos \/ (job.file /\ result + Len(job.token) > Len(text))
  PROVE  SearchInv'
<1>1. worker'.result = result /\ worker'.filled = TRUE /\ SearchWorker'
  BY DEF SearchKeeps
<1>2. FindsFirst'
  BY <1>1 DEF FindsFirst
<1> QED
  BY <1>1, <1>2, SearchFacts DEF SearchInv

\* The search goes on with a buffer that is right.
LEMMA SearchGoesOn ==
  ASSUME SearchInv, job.kind = "find", NEW w, NEW offset \in Nat, SearchKeeps(w, offset, TRUE, Searching),
         job' = job, text' = text, at' \in job.start .. Len(text), Buffered(w, job.start + offset)',
         \A p \in Positions(job.token, text) : p >= job.start => p >= job.start + offset
  PROVE  SearchInv'
<1>1. /\ worker'.result = Searching /\ worker'.filled = TRUE /\ SearchWorker'
      /\ worker'.window = w /\ worker'.offset = offset
  BY DEF SearchKeeps
<1>2. FindsFirst'
  BY <1>1 DEF FindsFirst
<1>3. Buffered(worker.window, job.start + worker.offset)'
  BY <1>1
<1>4. /\ job'.token \in Tokens /\ job'.start \in Nat /\ job'.file \in BOOLEAN
      /\ text' \in Seq(Byte) /\ at' \in job'.start .. Len(text')
      /\ \A p \in Positions(job'.token, text') : p >= job'.start => p >= job'.start + worker'.offset
  BY <1>1, SearchFacts
<1> QED
  BY <1>1, <1>2, <1>3, <1>4 DEF SearchInv

\* The first read.
LEMMA SearchFill ==
  ASSUME SearchInv, job.kind = "find", fillBuffer
  PROVE  SearchInv'
<1>1. /\ job.token \in Seq(Byte) /\ Len(job.token) \in 1 .. HalfBuffer
      /\ job.start \in Nat /\ HalfBuffer \in Nat /\ HalfBuffer > 0
      /\ text \in Seq(Byte) /\ Len(text) \in Nat /\ at \in Nat /\ job.start <= at /\ at <= Len(text)
      /\ SearchWorker
  BY SearchFacts
<1>2. at = job.start /\ worker.offset = 0
  BY DEF SearchInv, fillBuffer
<1>3. PICK bytes : bytes = Available(2 * HalfBuffer)
  OBVIOUS
<1>4. PICK r : r = IF bytes = <<>> THEN npos ELSE Searching
  OBVIOUS
<1>5. /\ job' = job /\ text' = text /\ at' = at + Len(bytes)
      /\ worker' = [worker EXCEPT !.window = bytes, !.filled = TRUE, !.eof = EofAfter(bytes), !.result = r]
  BY <1>3, <1>4 DEF fillBuffer, Read
<1>6. SearchKeeps(bytes, 0, TRUE, r)
  <2>1. worker' \in [window : {bytes}, offset : {worker.offset}, filled : {TRUE}, isEOF : {worker.isEOF},
                     eof : {EofAfter(bytes)}, result : {r}]
    BY <1>1, <1>5 DEF SearchWorker
  <2> QED
    BY <1>2, <2>1 DEF SearchKeeps, SearchWorker
<1>7. /\ bytes \in Seq(Byte) /\ Len(bytes) \in Nat /\ Len(bytes) <= 2 * HalfBuffer /\ at + Len(bytes) <= Len(text)
      /\ Len(bytes) < 2 * HalfBuffer => at + Len(bytes) = Len(text)
      /\ \A j \in 1 .. Len(bytes) : bytes[j] = text[at + j]
  <2>1. 2 * HalfBuffer \in Nat
    BY <1>1
  <2> QED
    BY <1>1, <1>3, <2>1, WhatIsRead
<1>8. at' \in job.start .. Len(text)
  BY <1>1, <1>2, <1>5, <1>7
<1>9. PICK start \in Nat : start = job.start
  BY <1>1
<1>10. CASE bytes = <<>>
  <2>1. Len(text) = start
    <3>1. Len(bytes) = 0
      BY <1>10, EmptySeq
    <3> QED
      BY <1>1, <1>2, <1>7, <1>9, <3>1
  <2>2. ASSUME NEW p \in Nat, p >= start, StandsAt(job.token, text, p)
        PROVE  FALSE
    BY <1>1, <2>1, <2>2 DEF StandsAt
  <2>3. PICK first : first = firstAt(job.token, text, start)
    OBVIOUS
  <2>4. first = npos
    BY <1>1, <2>2, <2>3, FirstPlace
  <2>5. r = npos /\ r # Searching
    BY <1>4, <1>10 DEF npos, Searching
  <2> QED
    BY <1>5, <1>6, <1>8, <1>9, <2>3, <2>4, <2>5, SearchEnds
<1>11. CASE bytes # <<>>
  <2>1. Buffered(bytes, start)'
    <3>1. at' - start = Len(bytes) /\ Len(text') = Len(text) /\ at' = start + Len(bytes)
      BY <1>1, <1>2, <1>5, <1>7, <1>9
    <3>2. \A j \in 1 .. Len(bytes) : bytes[j] = text'[start + j]
      BY <1>2, <1>5, <1>7, <1>9
    <3>3. Len(bytes) < 2 * HalfBuffer => at' = Len(text')
      BY <1>2, <1>5, <1>7
    <3>4. Window(bytes, Len(bytes), start)'
      BY <3>2 DEF Window
    <3> QED
      BY <1>7, <3>1, <3>3, <3>4 DEF Buffered
  <2>2. job.start + 0 = start /\ 0 \in Nat
    BY <1>9
  <2>3. Buffered(bytes, job.start + 0)'
    BY <1>5, <2>1, <2>2
  <2>4. \A p \in Positions(job.token, text) : p >= job.start => p >= job.start + 0
    BY <1>9, <2>2
  <2>5. SearchKeeps(bytes, 0, TRUE, Searching)
    BY <1>4, <1>6, <1>11
  <2> QED
    BY <1>5, <1>8, <2>2, <2>3, <2>4, <2>5, SearchGoesOn
<1> QED
  BY <1>10, <1>11

\* What a search that goes on knows.
LEMMA SearchSoFar ==
  ASSUME SearchInv, SearchingOn
  PROVE  /\ worker.offset \in Nat /\ worker.window \in Seq(Byte) /\ Buffered(worker.window, job.start + worker.offset)
         /\ \A p \in Positions(job.token, text) : p >= job.start => p >= job.start + worker.offset
BY DEF SearchInv, SearchingOn, Buffered

\* The token is in the buffer.
LEMMA SearchFinds ==
  ASSUME SearchInv, job.kind = "find", findToken
  PROVE  SearchInv'
<1>1. /\ job.token \in Seq(Byte) /\ job.start \in Nat
      /\ text \in Seq(Byte) /\ Len(text) \in Nat /\ at \in Nat /\ job.start <= at /\ at <= Len(text)
      /\ SearchWorker
  BY SearchFacts
<1>2. PICK w, place : w = worker.window /\ place = job.start + worker.offset
  OBVIOUS
<1>3. PICK m : m = Min(found)
  OBVIOUS
<1>4. /\ worker.offset \in Nat /\ w \in Seq(Byte) /\ Buffered(w, place)
      /\ \A p \in Positions(job.token, text) : p >= job.start => p >= place
  BY <1>2, SearchSoFar DEF findToken
<1>5. place \in Nat /\ job.start <= place
  BY <1>1, <1>2, <1>4
<1>6. m \in Nat /\ StandsAt(job.token, w, m) /\ \A i \in Nat : StandsAt(job.token, w, i) => m <= i
  <2>1. found = Positions(job.token, w) /\ found # {}
    BY <1>2 DEF found, findToken
  <2>2. found \in SUBSET Nat
    BY <1>1, <1>4, <2>1, PlacesOfToken
  <2>3. m \in found /\ m \in Nat /\ \A y \in found : m <= y
    BY <1>3, <2>1, <2>2, MinOfNumbers
  <2> QED
    BY <1>1, <1>4, <2>1, <2>3, PlacesOfToken
<1>7. PICK first : first = firstAt(job.token, text, job.start)
  OBVIOUS
<1>8. /\ first # npos => place + m = first
      /\ first = npos => job.file /\ (place + m) + Len(job.token) > Len(text)
  <2>1. PICK token, start : token = job.token /\ start = job.start
    OBVIOUS
  <2>2. token \in Seq(Byte) /\ start \in Nat /\ start <= place
    BY <1>1, <1>5, <2>1
  <2>3. NoneBefore(token, start, place) /\ FirstIn(token, w, m)
    BY <1>4, <1>6, <2>1 DEF NoneBefore, FirstIn
  <2>4. first = firstAt(token, text, start)
    BY <1>7, <2>1
  <2>5. Buffered(w, place) /\ text \in Seq(Byte) /\ at \in Nat /\ at <= Len(text) /\ place \in Nat /\ m \in Nat
    BY <1>1, <1>4, <1>5, <1>6
  <2>6. /\ first # npos => place + m = first
        /\ first = npos => job.file /\ (place + m) + Len(token) > Len(text)
    BY <2>2, <2>3, <2>4, <2>5, FoundIsFirst
  <2> QED
    BY <2>1, <2>6
<1>9. PICK result : result = job.start + worker.offset + m
  OBVIOUS
<1>10. result = place + m /\ result # Searching
  BY <1>2, <1>5, <1>6, <1>9 DEF Searching
<1>11. worker' = [worker EXCEPT !.result = result] /\ job' = job /\ text' = text /\ at' = at /\ worker.filled
  BY <1>3, <1>9 DEF findToken, SearchingOn
<1>12. SearchKeeps(w, worker.offset, worker.filled, result)
  <2>1. worker' \in [window : {worker.window}, offset : {worker.offset}, filled : {worker.filled},
                     isEOF : {worker.isEOF}, eof : {worker.eof}, result : {result}]
    BY <1>1, <1>11 DEF SearchWorker
  <2> QED
    BY <1>2, <2>1 DEF SearchKeeps, SearchWorker
<1>13. at' \in job.start .. Len(text)
  BY <1>1, <1>11
<1>14. PICK o, t : o = worker.offset /\ t = worker.filled
  OBVIOUS
<1> QED
  BY <1>7, <1>8, <1>10, <1>11, <1>12, <1>13, <1>14, SearchEnds

\* More is read into the buffer.
LEMMA SearchSlides ==
  ASSUME SearchInv, job.kind = "find", rotateBuffer
  PROVE  SearchInv'
<1>1. /\ job.token \in Seq(Byte) /\ Len(job.token) \in 1 .. HalfBuffer
      /\ job.start \in Nat /\ job.file \in BOOLEAN /\ HalfBuffer \in Nat /\ HalfBuffer > 0
      /\ text \in Seq(Byte) /\ Len(text) \in Nat /\ at \in Nat /\ job.start <= at /\ at <= Len(text)
      /\ SearchWorker
  BY SearchFacts
<1>2. PICK w, place, o : w = worker.window /\ place = job.start + o /\ o = worker.offset
  OBVIOUS
<1>3. PICK bytes : bytes = Available(HalfBuffer)
  OBVIOUS
<1>4. PICK rest \in [1 .. Unread -> UNION {ToSet(t) : t \in Tokens}] :
        worker' = [worker EXCEPT !.window = SecondHalf(rest) \o bytes, !.offset = @ + HalfBuffer,
                                 !.isEOF = @ \/ bytes = <<>>, !.eof = EofAfter(bytes)]
  BY <1>3 DEF rotateBuffer
<1>5. /\ job' = job /\ text' = text /\ at' = at + Len(bytes)
      /\ worker.filled /\ worker.result = Searching /\ ~LastWindow /\ found = {}
  BY <1>3 DEF rotateBuffer, SearchingOn, Read
<1>6. /\ o \in Nat /\ w \in Seq(Byte) /\ Buffered(w, place)
      /\ \A p \in Positions(job.token, text) : p >= job.start => p >= place
  BY <1>2, SearchSoFar DEF rotateBuffer
<1>7. place \in Nat
  BY <1>1, <1>2, <1>6
<1>8. rest \in [1 .. Unread -> Byte]
  <2>1. UNION {ToSet(t) : t \in Tokens} \subseteq Byte
    <3>1. ASSUME NEW t \in Tokens
          PROVE  ToSet(t) \subseteq Byte
      <4>1. t \in Seq(Byte)
        BY SearchAssumption
      <4>2. \A i \in DOMAIN t : t[i] \in Byte
        BY <4>1, LenProperties
      <4> QED
        BY <4>2 DEF ToSet
    <3> QED
      BY <3>1
  <2> QED
    BY <1>4, <2>1
<1>9. PICK more : more = SecondHalf(rest) \o bytes
  OBVIOUS
<1>10. Len(w) < 2 * HalfBuffer => job.file
  <2>1. ASSUME Len(w) < 2 * HalfBuffer, ~job.file
        PROVE  FALSE
    <3>1. at = Len(text)
      BY <1>6, <2>1 DEF Buffered
    <3>2. streamEof
      BY <2>1, <3>1 DEF streamEof, AllRead
    <3>3. LastWindow
      BY <1>2, <2>1, <3>2 DEF LastWindow
    <3> QED
      BY <1>5, <3>3
  <2> QED
    BY <1>1, <2>1
<1>11. Buffered(more, place + HalfBuffer)'
  BY <1>1, <1>2, <1>3, <1>5, <1>6, <1>7, <1>8, <1>9, <1>10, BufferSlides
<1>12. SearchKeeps(more, o + HalfBuffer, TRUE, Searching)
  <2>1. worker' \in [window : {more}, offset : {o + HalfBuffer}, filled : {worker.filled},
                     isEOF : {worker.isEOF \/ bytes = <<>>}, eof : {EofAfter(bytes)}, result : {worker.result}]
    BY <1>1, <1>2, <1>4, <1>9 DEF SearchWorker
  <2>2. worker.filled = TRUE
    <3>1. worker.filled
      BY <1>5
    <3> QED
      BY DEF SearchInv, rotateBuffer, SearchingOn
  <2> QED
    BY <1>5, <2>1, <2>2 DEF SearchKeeps, SearchWorker
<1>13. at' \in job.start .. Len(text)
  <2>1. Len(bytes) \in Nat /\ at + Len(bytes) <= Len(text)
    BY <1>1, <1>3, WhatIsRead
  <2> QED
    BY <1>1, <1>5, <2>1
<1>14. ASSUME NEW p \in Positions(job.token, text), p >= job.start
       PROVE  p >= job.start + (o + HalfBuffer)
  <2>1. p \in Nat /\ p >= place /\ StandsAt(job.token, text, p)
    BY <1>1, <1>6, <1>14, PlacesOfToken
  <2>2. Positions(job.token, w) = {}
    BY <1>2, <1>5 DEF found
  <2>3. PICK k \in Nat : k = Len(job.token)
    BY <1>1
  <2>4. p + k > at
    <3>1. PICK token : token = job.token
      OBVIOUS
    <3> QED
      BY <1>1, <1>6, <1>7, <2>1, <2>2, <2>3, <3>1, NoneInBuffer
  <2>5. p + k <= Len(text)
    BY <1>1, <2>1, <2>3 DEF StandsAt
  <2>6. Len(w) >= 2 * HalfBuffer /\ at - place >= Len(w)
    <3>1. Len(w) \in Nat
      BY <1>6, LenProperties
    <3>2. at # Len(text)
      BY <1>1, <2>1, <2>3, <2>4, <2>5
    <3>3. ~(Len(w) < 2 * HalfBuffer) /\ ~(at - place < Len(w))
      BY <1>6, <3>2 DEF Buffered
    <3> QED
      BY <1>1, <1>7, <3>1, <3>3
  <2>7. p >= place + HalfBuffer
    <3>1. PICK h, l, a \in Nat : h = HalfBuffer /\ l = Len(w) /\ a = at
      BY <1>1, <1>6, LenProperties
    <3>2. k <= h /\ l >= 2 * h /\ a - place >= l /\ p + k > a
      BY <1>1, <2>3, <2>4, <2>6, <3>1
    <3>3. p >= place + h
      BY <1>7, <2>1, <3>2
    <3> QED
      BY <3>1, <3>3
  <2> QED
    BY <1>1, <1>2, <1>6, <2>7
<1>15. place + HalfBuffer = job.start + (o + HalfBuffer) /\ o + HalfBuffer \in Nat
  BY <1>1, <1>2, <1>6, SMTT(60)
<1>16. PICK o2 \in Nat : o2 = o + HalfBuffer
  BY <1>15
<1>17. Buffered(more, job.start + o2)'
  BY <1>5, <1>11, <1>15, <1>16
<1>18. \A p \in Positions(job.token, text) : p >= job.start => p >= job.start + o2
  BY <1>14, <1>16
<1>19. SearchKeeps(more, o2, TRUE, Searching)
  BY <1>12, <1>16
<1> QED
  BY <1>5, <1>13, <1>17, <1>18, <1>19, SearchGoesOn

\* The text ends before the token is found.
LEMMA SearchFails ==
  ASSUME SearchInv, job.kind = "find", notFound
  PROVE  SearchInv'
<1>1. /\ job.token \in Seq(Byte) /\ job.start \in Nat
      /\ text \in Seq(Byte) /\ Len(text) \in Nat /\ at \in Nat /\ job.start <= at /\ at <= Len(text)
      /\ SearchWorker
  BY SearchFacts
<1>2. PICK w, place, o, t : w = worker.window /\ place = job.start + o /\ o = worker.offset /\ t = worker.filled
  OBVIOUS
<1>3. /\ o \in Nat /\ w \in Seq(Byte) /\ Buffered(w, place)
      /\ \A p \in Positions(job.token, text) : p >= job.start => p >= place
  BY <1>2, SearchSoFar DEF notFound
<1>4. place \in Nat
  BY <1>1, <1>2, <1>3
<1>5. /\ worker' = [worker EXCEPT !.result = npos] /\ job' = job /\ text' = text /\ at' = at /\ t
      /\ Positions(job.token, w) = {} /\ Len(w) < 2 * HalfBuffer
  BY <1>2 DEF notFound, SearchingOn, LastWindow, found
<1>6. at = Len(text)
  BY <1>3, <1>5 DEF Buffered
<1>7. PICK first : first = firstAt(job.token, text, job.start)
  OBVIOUS
<1>8. first = npos
  <2>1. SUFFICES ASSUME first # npos
                 PROVE  FALSE
    OBVIOUS
  <2>2. first \in Nat /\ first >= job.start /\ StandsAt(job.token, text, first)
    BY <1>1, <1>7, <2>1, FirstPlace
  <2>3. first >= place
    BY <1>1, <1>3, <2>2, PlacesOfToken
  <2>4. PICK token : token = job.token
    OBVIOUS
  <2>5. first + Len(token) > at
    BY <1>1, <1>3, <1>4, <1>5, <2>2, <2>3, <2>4, NoneInBuffer
  <2>6. PICK k \in Nat : k = Len(token)
    BY <1>1, <2>4, LenProperties
  <2>7. first + k <= Len(text)
    BY <1>1, <2>2, <2>4, <2>6 DEF StandsAt
  <2> QED
    BY <1>1, <1>6, <2>2, <2>5, <2>6, <2>7
<1>9. SearchKeeps(w, o, t, npos)
  <2>1. worker' \in [window : {worker.window}, offset : {worker.offset}, filled : {worker.filled},
                     isEOF : {worker.isEOF}, eof : {worker.eof}, result : {npos}]
    BY <1>1, <1>5 DEF SearchWorker
  <2> QED
    BY <1>2, <2>1 DEF SearchKeeps, SearchWorker
<1>10. at' \in job.start .. Len(text) /\ npos # Searching
  BY <1>1, <1>5 DEF npos, Searching
<1> QED
  BY <1>5, <1>7, <1>8, <1>9, <1>10, SearchEnds

\* Every step keeps it.
LEMMA SearchInvStep == SearchInv /\ [Next]_streamVars => SearchInv'
<1>1. ASSUME SearchInv, Next
      PROVE  SearchInv'
  <2>1. job' = job /\ (job.kind = "find" => SearchNext)
    BY <1>1, NextOfKind
  <2>2. CASE job.kind = "find"
    BY <1>1, <2>1, <2>2, SearchFill, SearchFinds, SearchSlides, SearchFails DEF SearchNext
  <2>3. CASE job.kind # "find"
    BY <2>1, <2>3 DEF SearchInv
  <2> QED
    BY <2>2, <2>3
<1>2. ASSUME SearchInv, UNCHANGED streamVars
      PROVE  SearchInv'
  BY <1>2 DEF SearchInv, streamVars, SearchWorker, Buffered, Window, FindsFirst
<1> QED
  BY <1>1, <1>2

\* A search finds the first place of its token, or says that there is none,
\* whatever the length of the buffer and however far the token lies across its
\* halves (parserInputStreamAdapter::findNext).
THEOREM SearchesFindFirst == Spec => []FindsFirst
<1>1. SearchInv => FindsFirst
  BY DEF SearchInv, FindsFirst
<1> QED
  BY <1>1, SearchInvInit, SearchInvStep, PTL DEF Spec

-----------------------------------------------------------------------------
(* Sequences of sequences, one after the other. *)

\* f[k] is what the first k of n sequences come to.
Joins(f, s, n, A) ==
  f \in [0 .. n -> Seq(A)] /\ f[0] = <<>> /\ \A k \in 1 .. n : f[k] = f[k - 1] \o s[k]

Flattens(g, s, n) == g = [i \in 1 .. n |-> IF i = 1 THEN s[i] ELSE g[i - 1] \o s[i]]

\* FlattenSeq joins them in their order.
LEMMA FlattenJoins ==
  ASSUME NEW A, NEW n \in Nat, NEW s \in [1 .. n -> Seq(A)]
  PROVE  \E f : Joins(f, s, n, A) /\ FlattenSeq(s) = f[n]
<1>1. Len(s) = n
  OBVIOUS
<1>2. CASE n = 0
  <2> DEFINE f == [k \in 0 .. 0 |-> <<>>]
  <2>1. FlattenSeq(s) = <<>>
    BY <1>1, <1>2 DEF FlattenSeq
  <2>2. f \in [0 .. 0 -> Seq(A)] /\ f[0] = <<>>
    OBVIOUS
  <2> HIDE DEF f
  <2> QED
    BY <1>2, <2>1, <2>2 DEF Joins
<1>3. CASE n # 0
  <2> DEFINE g == CHOOSE h : Flattens(h, s, Len(s))
  <2>1. FlattenSeq(s) = g[Len(s)]
    BY <1>1, <1>3 DEF FlattenSeq, Flattens
  <2>2. \E h : Flattens(h, s, n)
    <3> DEFINE step == [k \in 1 .. n |-> [v \in Seq(A) |-> v \o s[k]]]
    <3>1. step \in Steps(n, Seq(A)) /\ <<>> \in Seq(A)
      BY DEF Steps
    <3>2. \A k \in 1 .. n : \A v \in Seq(A) : step[k][v] = v \o s[k]
      OBVIOUS
    <3> HIDE DEF step
    <3>3. PICK f : Iterates(f, n, Seq(A), <<>>, step)
      BY <3>1, Iteration
    <3> DEFINE h == [i \in 1 .. n |-> f[i]]
    <3>4. ASSUME NEW i \in 1 .. n
          PROVE  f[i] = IF i = 1 THEN s[i] ELSE h[i - 1] \o s[i]
      <4>1. i - 1 \in 0 .. n
        OBVIOUS
      <4>2. f[i - 1] \in Seq(A) /\ f[0] = <<>> /\ f[i] = step[i][f[i - 1]]
        BY <3>3, <4>1 DEF Iterates
      <4>3. f[i] = f[i - 1] \o s[i]
        BY <3>2, <4>2
      <4>4. s[i] \in Seq(A)
        OBVIOUS
      <4>5. i = 1 => f[i] = s[i]
        <5>1. <<>> \o s[i] = s[i]
          BY <4>4, ConcatEmptySeq
        <5>2. i = 1 => i - 1 = 0
          OBVIOUS
        <5> HIDE DEF h
        <5> QED
          BY <4>2, <4>3, <5>1, <5>2
      <4>6. i # 1 => i - 1 \in 1 .. n
        OBVIOUS
      <4> QED
        BY <4>3, <4>5, <4>6
    <3>5. h = [i \in 1 .. n |-> IF i = 1 THEN s[i] ELSE h[i - 1] \o s[i]]
      BY <3>4
    <3> HIDE DEF h
    <3> QED
      BY <3>5 DEF Flattens
  <2>3. Flattens(g, s, n)
    BY <1>1, <2>2
  <2> HIDE DEF g
  <2>4. \A i \in 1 .. n : g[i] = IF i = 1 THEN s[i] ELSE g[i - 1] \o s[i]
    BY <2>3 DEF Flattens
  <2> DEFINE f == [k \in 0 .. n |-> IF k = 0 THEN <<>> ELSE g[k]]
             S == {k \in 0 .. n : f[k] \in Seq(A) /\ (k # 0 => f[k] = f[k - 1] \o s[k])}
  <2>5. 0 \in S
    OBVIOUS
  <2>6. ASSUME NEW k \in 1 .. n, k - 1 \in S
        PROVE  k \in S
    <3>1. f[k - 1] \in Seq(A) /\ s[k] \in Seq(A)
      BY <2>6
    <3>2. f[k] = f[k - 1] \o s[k]
      <4>1. CASE k = 1
        <5>1. f[k] = s[k] /\ f[k - 1] = <<>>
          BY <2>4, <4>1
        <5>2. <<>> \o s[k] = s[k]
          BY <3>1, ConcatEmptySeq
        <5> HIDE DEF f
        <5> QED
          BY <5>1, <5>2
      <4>2. CASE k # 1
        <5>1. k - 1 \in 0 .. n /\ k - 1 # 0 /\ k # 0
          BY <4>2
        <5>2. f[k] = g[k] /\ f[k - 1] = g[k - 1]
          BY <5>1
        <5>3. g[k] = g[k - 1] \o s[k]
          BY <2>4, <4>2
        <5> HIDE DEF f
        <5> QED
          BY <5>2, <5>3
      <4> QED
        BY <4>1, <4>2
    <3> HIDE DEF f
    <3>3. f[k - 1] \o s[k] \in Seq(A)
      BY <3>1
    <3>4. f[k] \in Seq(A) /\ k \in 0 .. n
      BY <3>2, <3>3
    <3> QED
      BY <3>2, <3>4
  <2>7. 0 .. n \subseteq S
    <3> HIDE DEF S
    <3> QED
      BY <2>5, <2>6, NumberInduction
  <2>8. f \in [0 .. n -> Seq(A)]
    BY <2>7
  <2>9. f[0] = <<>> /\ f[n] = g[n]
    BY <1>3
  <2>10. ASSUME NEW k \in 1 .. n
         PROVE  f[k] = f[k - 1] \o s[k]
    <3>1. k \in 0 .. n /\ k # 0
      OBVIOUS
    <3>2. k \in S
      BY <2>7, <3>1
    <3> HIDE DEF f
    <3> QED
      BY <3>1, <3>2
  <2> HIDE DEF f, S
  <2>11. Joins(f, s, n, A)
    BY <2>8, <2>9, <2>10 DEF Joins
  <2> QED
    BY <1>1, <2>1, <2>9, <2>11
<1> QED
  BY <1>2, <1>3

\* m sequences and then n others are m + n.
Together(A, a, m, b, n, c) ==
  /\ a \in [1 .. m -> Seq(A)] /\ b \in [1 .. n -> Seq(A)] /\ c \in [1 .. m + n -> Seq(A)]
  /\ \A i \in 1 .. m : c[i] = a[i]
  /\ \A i \in 1 .. n : c[m + i] = b[i]

\* They give what the m give, and then what the n give.
LEMMA FlattenTwo ==
  ASSUME NEW A, NEW m \in Nat, NEW n \in Nat, NEW a, NEW b, NEW c, Together(A, a, m, b, n, c)
  PROVE  /\ FlattenSeq(a) \in Seq(A) /\ FlattenSeq(b) \in Seq(A)
         /\ FlattenSeq(c) = FlattenSeq(a) \o FlattenSeq(b)
<1>1. /\ a \in [1 .. m -> Seq(A)] /\ b \in [1 .. n -> Seq(A)] /\ c \in [1 .. m + n -> Seq(A)]
      /\ \A i \in 1 .. m : c[i] = a[i]
      /\ \A i \in 1 .. n : c[m + i] = b[i]
  BY DEF Together
<1>2. PICK f : Joins(f, a, m, A) /\ FlattenSeq(a) = f[m]
  BY <1>1, FlattenJoins
<1>3. PICK g : Joins(g, b, n, A) /\ FlattenSeq(b) = g[n]
  BY <1>1, FlattenJoins
<1>4. m + n \in Nat
  OBVIOUS
<1>5. PICK h : Joins(h, c, m + n, A) /\ FlattenSeq(c) = h[m + n]
  BY <1>1, <1>4, FlattenJoins
<1> DEFINE S == {k \in 0 .. m : h[k] = f[k]}
           T == {k \in 0 .. n : h[m + k] = f[m] \o g[k]}
<1>6. 0 \in S
  BY <1>2, <1>5 DEF Joins
<1>7. ASSUME NEW k \in 1 .. m, k - 1 \in S
      PROVE  k \in S
  <2>1. k \in 1 .. m + n
    OBVIOUS
  <2>2. h[k] = h[k - 1] \o c[k] /\ f[k] = f[k - 1] \o a[k]
    BY <1>2, <1>5, <2>1 DEF Joins
  <2>3. h[k - 1] = f[k - 1] /\ c[k] = a[k] /\ k \in 0 .. m
    BY <1>1, <1>7
  <2> QED
    BY <2>2, <2>3
<1>8. h[m] = f[m]
  <2>1. 0 .. m \subseteq S
    <3> HIDE DEF S
    <3> QED
      BY <1>6, <1>7, NumberInduction
  <2> QED
    BY <2>1
<1>9. f[m] \in Seq(A) /\ g[0] = <<>>
  BY <1>2, <1>3 DEF Joins
<1>10. 0 \in T
  <2>1. f[m] \o g[0] = f[m] /\ m + 0 = m /\ 0 \in 0 .. n
    BY <1>9, ConcatEmptySeq
  <2> QED
    BY <1>8, <2>1
<1>11. ASSUME NEW k \in 1 .. n, k - 1 \in T
       PROVE  k \in T
  <2>1. m + k \in 1 .. m + n /\ (m + k) - 1 = m + (k - 1)
    OBVIOUS
  <2>2. h[m + k] = h[(m + k) - 1] \o c[m + k] /\ g[k] = g[k - 1] \o b[k]
    BY <1>3, <1>5, <2>1 DEF Joins
  <2>3. h[m + k] = (f[m] \o g[k - 1]) \o b[k]
    BY <1>1, <1>11, <2>1, <2>2
  <2>4. k - 1 \in 0 .. n /\ k \in 0 .. n
    OBVIOUS
  <2>5. g[k - 1] \in Seq(A) /\ b[k] \in Seq(A)
    BY <1>1, <1>3, <2>4 DEF Joins
  <2>6. PICK x, y, z \in Seq(A) : x = f[m] /\ y = g[k - 1] /\ z = b[k]
    BY <1>9, <2>5
  <2>7. (x \o y) \o z = x \o (y \o z)
    BY ConcatAssociative, SMTT(60)
  <2>8. h[m + k] = f[m] \o g[k]
    BY <2>2, <2>3, <2>6, <2>7
  <2> QED
    BY <2>4, <2>8
<1>12. h[m + n] = f[m] \o g[n]
  <2>1. 0 .. n \subseteq T
    <3> HIDE DEF T
    <3> QED
      BY <1>10, <1>11, NumberInduction
  <2>2. n \in 0 .. n
    OBVIOUS
  <2>3. n \in T
    BY <2>1, <2>2
  <2> QED
    BY <2>3
<1>13. g[n] \in Seq(A)
  BY <1>3 DEF Joins
<1> QED
  BY <1>2, <1>3, <1>5, <1>9, <1>12, <1>13

\* One sequence gives itself, and none the empty one.
LEMMA FlattenOne ==
  ASSUME NEW A, NEW x \in Seq(A)
  PROVE  FlattenSeq(<<x>>) = x /\ FlattenSeq(<<>>) = <<>>
<1>1. FlattenSeq(<<>>) = <<>>
  BY DEF FlattenSeq
<1>2. <<x>> \in [1 .. 1 -> Seq(A)]
  OBVIOUS
<1>3. PICK f : Joins(f, <<x>>, 1, A) /\ FlattenSeq(<<x>>) = f[1]
  BY <1>2, FlattenJoins
<1>4. f[1] = f[0] \o x /\ f[0] = <<>>
  BY <1>3 DEF Joins
<1> QED
  BY <1>1, <1>3, <1>4

-----------------------------------------------------------------------------
(* Filters. *)

\* The character read last, and the one before; what the first k characters of
\* the text are written as when they have been read, and no more.
LastAt(i) == IF i \in 1 .. Len(text) THEN text[i] ELSE 0
SoFar(k) == [i \in 1 .. k |-> IF job.kind = "CRLF to LF" /\ i = k /\ text[i] = CR THEN <<>> ELSE Whole(job.kind, text, i)]
Faithful == job.kind = "dot output" => ~SplitAtDots

FilterInv ==
  job.kind \in Filters =>
    /\ text \in Seq(Byte) /\ at \in 0 .. Len(text)
    /\ worker = [previous2 |-> LastAt(at - 1), previous1 |-> LastAt(at), start |-> at = 0]
    /\ Faithful =>
         /\ job.kind = "dot output" /\ at > 0 => ~(text[at] = DOT /\ NewLineAt(text, at + 1))
         /\ output = FlattenSeq(SoFar(at))

\* A character becomes at most two.
LEMMA WholeIsText ==
  ASSUME NEW kind \in Filters, NEW s \in Seq(Byte), NEW i \in 1 .. Len(s)
  PROVE  Whole(kind, s, i) \in Seq(Byte)
<1>1. s[i] \in Byte
  BY ElementOfSeq
<1>2. CR \in Byte /\ LF \in Byte /\ DOT \in Byte
  BY DEF CR, LF, DOT, Byte
<1>3. <<>> \in Seq(Byte) /\ <<s[i]>> \in Seq(Byte) /\ <<DOT, DOT>> \in Seq(Byte) /\ CRLF \in Seq(Byte)
  BY <1>1, <1>2 DEF CRLF
<1> QED
  BY <1>3 DEF Whole, Filters

\* The same m sequences but for the last, which x goes on.
LastGoesOn(a, c, m, x) == m # 0 /\ (\A i \in 1 .. m - 1 : c[i] = a[i]) /\ c[m] = a[m] \o x

\* They give the same, and then x.
LEMMA FlattenLast ==
  ASSUME NEW A, NEW m \in Nat, NEW a \in [1 .. m -> Seq(A)], NEW c \in [1 .. m -> Seq(A)], NEW x \in Seq(A),
         LastGoesOn(a, c, m, x)
  PROVE  FlattenSeq(c) = FlattenSeq(a) \o x
<1> DEFINE front == [i \in 1 .. m - 1 |-> a[i]]
<1>1. m - 1 \in Nat /\ (m - 1) + 1 = m /\ m \in 1 .. m
  BY DEF LastGoesOn
<1>2. front \in [1 .. m - 1 -> Seq(A)] /\ \A i \in 1 .. m - 1 : a[i] = front[i] /\ c[i] = front[i]
  BY <1>1 DEF LastGoesOn
<1>3. PICK y, z \in Seq(A) : y = a[m] /\ z = c[m] /\ z = y \o x
  BY <1>1 DEF LastGoesOn
<1> HIDE DEF front
<1>4. PICK k \in Nat : k = m - 1 /\ k + 1 = m
  BY <1>1
<1>5. FlattenSeq(a) = FlattenSeq(front) \o y /\ FlattenSeq(front) \in Seq(A)
  <2>1. front \in [1 .. k -> Seq(A)] /\ a \in [1 .. k + 1 -> Seq(A)]
    BY <1>2, <1>4
  <2>2. \A i \in 1 .. k : a[i] = front[i]
    BY <1>2, <1>4
  <2>3. PICK b : b = <<y>>
    OBVIOUS
  <2>4. b \in [1 .. 1 -> Seq(A)] /\ b[1] = y
    BY <2>3
  <2>5. ASSUME NEW i \in 1 .. 1
        PROVE  a[k + i] = b[i]
    <3>1. i = 1 /\ k + i = m
      BY <1>4
    <3> QED
      BY <1>3, <2>4, <3>1
  <2>6. Together(A, front, k, b, 1, a)
    BY <2>1, <2>2, <2>4, <2>5 DEF Together
  <2>7. FlattenSeq(a) = FlattenSeq(front) \o FlattenSeq(b) /\ FlattenSeq(front) \in Seq(A)
    BY <1>4, <2>6, FlattenTwo
  <2>8. FlattenSeq(b) = y
    BY <2>3, FlattenOne
  <2> QED
    BY <2>7, <2>8
<1>6. FlattenSeq(c) = FlattenSeq(front) \o z /\ FlattenSeq(front) \in Seq(A)
  <2>1. front \in [1 .. k -> Seq(A)] /\ c \in [1 .. k + 1 -> Seq(A)]
    BY <1>2, <1>4
  <2>2. \A i \in 1 .. k : c[i] = front[i]
    BY <1>2, <1>4
  <2>3. PICK b : b = <<z>>
    OBVIOUS
  <2>4. b \in [1 .. 1 -> Seq(A)] /\ b[1] = z
    BY <2>3
  <2>5. ASSUME NEW i \in 1 .. 1
        PROVE  c[k + i] = b[i]
    <3>1. i = 1 /\ k + i = m
      BY <1>4
    <3> QED
      BY <1>3, <2>4, <3>1
  <2>6. Together(A, front, k, b, 1, c)
    BY <2>1, <2>2, <2>4, <2>5 DEF Together
  <2>7. FlattenSeq(c) = FlattenSeq(front) \o FlattenSeq(b) /\ FlattenSeq(front) \in Seq(A)
    BY <1>4, <2>6, FlattenTwo
  <2>8. FlattenSeq(b) = z
    BY <2>3, FlattenOne
  <2> QED
    BY <2>7, <2>8
<1>7. PICK u \in Seq(A) : u = FlattenSeq(front)
  BY <1>5
<1>8. (u \o y) \o x = u \o (y \o x)
  BY ConcatAssociative, SMTT(60)
<1> QED
  BY <1>3, <1>5, <1>6, <1>7, <1>8

\* Texts whose first k characters were read.
LEMMA SoFarType ==
  ASSUME job.kind \in Filters, text \in Seq(Byte), NEW k \in 0 .. Len(text)
  PROVE  SoFar(k) \in [1 .. k -> Seq(Byte)]
<1>1. PICK l \in Nat : l = Len(text)
  BY LenProperties
<1>2. ASSUME NEW i \in 1 .. k
      PROVE  Whole(job.kind, text, i) \in Seq(Byte)
  <2>1. i \in 1 .. Len(text)
    BY <1>1
  <2> QED
    BY <2>1, WholeIsText
<1>3. <<>> \in Seq(Byte)
  OBVIOUS
<1> QED
  BY <1>2, <1>3 DEF SoFar

\* Initially nothing was read and nothing written.
LEMMA FilterInvInit == Init => FilterInv
<1> SUFFICES ASSUME Init, job.kind \in Filters
             PROVE  FilterInv
  BY DEF FilterInv
<1>1. FilterInit
  BY InitOfKind
<1>2. text \in Seq(Byte) /\ at = 0 /\ output = <<>>
  BY <1>1, FilterTextsAssumption DEF FilterInit
<1>3. worker = [previous2 |-> 0, previous1 |-> 0, start |-> TRUE]
  BY <1>1 DEF FilterInit
<1>4. LastAt(at - 1) = 0 /\ LastAt(at) = 0
  BY <1>2 DEF LastAt
<1>5. at \in 0 .. Len(text) /\ ~ (at > 0)
  BY <1>2, LenProperties
<1>6. SoFar(0) = <<>>
  BY DEF SoFar
<1>7. output = FlattenSeq(SoFar(at))
  BY <1>2, <1>6, FlattenOne
<1> QED
  BY <1>2, <1>3, <1>4, <1>5, <1>7 DEF FilterInv

\* The next piece.
LEMMA NextPiece ==
  ASSUME text \in Seq(Byte), at \in 0 .. Len(text), NEW n \in Sizes
  PROVE  /\ n \in Nat /\ n > 0 /\ at + n \in 1 .. Len(text)
         /\ Piece(n) \in Seq(Byte) /\ Len(Piece(n)) = n /\ DOMAIN Piece(n) = 1 .. n
         /\ \A i \in 1 .. n : Piece(n)[i] = text[at + i] /\ at + i \in 1 .. Len(text)
<1>1. PICK l, a \in Nat : l = Len(text) /\ a = at /\ a <= l
  BY LenProperties
<1>2. {l - a, MaxPiece} \in SUBSET Nat /\ {l - a, MaxPiece} # {}
  BY <1>1, MaxPieceAssumption
<1>3. Min({l - a, MaxPiece}) \in Nat /\ Min({l - a, MaxPiece}) <= l - a
  BY <1>2, MinOfNumbers
<1>4. n \in 1 .. Min({l - a, MaxPiece})
  BY <1>1 DEF Sizes
<1>5. n \in Nat /\ n > 0 /\ a + n <= l
  BY <1>1, <1>3, <1>4
<1>6. \A i \in a + 1 .. a + n : text[i] \in Byte
  <2>1. \A i \in 1 .. Len(text) : text[i] \in Byte
    BY ElementOfSeq
  <2>2. a + 1 .. a + n \subseteq 1 .. Len(text)
    BY <1>1, <1>5
  <2> QED
    BY <2>1, <2>2
<1>7. PICK d : d = SubSeq(text, a + 1, a + n)
  OBVIOUS
<1>8. PICK b, e \in Int : b = a + 1 /\ e = a + n /\ (e - b) + 1 = n /\ b <= e
  BY <1>5
<1>9. /\ d \in Seq(Byte) /\ Len(d) = IF b <= e THEN (e - b) + 1 ELSE 0
      /\ \A i \in 1 .. (e - b) + 1 : d[i] = text[(b + i) - 1]
  <2>1. d = SubSeq(text, b, e) /\ \A i \in b .. e : text[i] \in Byte
    BY <1>6, <1>7, <1>8
  <2> QED
    BY <2>1, SubSeqProperties
<1>10. ASSUME NEW i \in 1 .. n
       PROVE  d[i] = text[a + i] /\ a + i \in 1 .. l
  <2>1. (b + i) - 1 = a + i /\ a + i \in 1 .. l /\ i \in 1 .. (e - b) + 1
    BY <1>5, <1>8
  <2> QED
    BY <1>9, <2>1
<1>11. d = Piece(n) /\ Len(d) = n /\ DOMAIN d = 1 .. n
  <2>1. Len(d) = n
    BY <1>8, <1>9
  <2> QED
    BY <1>1, <1>7, <1>9, <2>1, LenProperties DEF Piece
<1>12. at + n \in 1 .. Len(text)
  BY <1>1, <1>5
<1> QED
  BY <1>1, <1>5, <1>9, <1>10, <1>11, <1>12

\* What late and then the sequences of D add to what was written of the first
\* characters is what is written when n more are read.
Adds(n, late, D) ==
  /\ late \in Seq(Byte) /\ D \in [1 .. n -> Seq(Byte)]
  /\ \A i \in 1 .. n : D[i] = SoFar(at + n)[at + i]
  /\ \/ late = <<>> /\ \A i \in 1 .. at : SoFar(at + n)[i] = SoFar(at)[i]
     \/ LastGoesOn(SoFar(at), [i \in 1 .. at |-> SoFar(at + n)[i]], at, late)

\* Then that is what is written.
LEMMA PieceAdds ==
  ASSUME job.kind \in Filters, text \in Seq(Byte), at \in 0 .. Len(text), NEW n \in Sizes, NEW late, NEW D,
         Adds(n, late, D)
  PROVE  FlattenSeq(SoFar(at + n)) = FlattenSeq(SoFar(at)) \o (late \o FlattenSeq(D))
<1>1. n \in Nat /\ at \in Nat /\ at + n \in 0 .. Len(text)
  BY NextPiece
<1>2. PICK a, b : a = SoFar(at) /\ b = SoFar(at + n)
  OBVIOUS
<1>3. a \in [1 .. at -> Seq(Byte)] /\ b \in [1 .. at + n -> Seq(Byte)]
  BY <1>1, <1>2, SoFarType
<1>4. PICK c : c = [i \in 1 .. at |-> b[i]]
  OBVIOUS
<1>5. c \in [1 .. at -> Seq(Byte)] /\ \A i \in 1 .. at : b[i] = c[i]
  <2>1. 1 .. at \subseteq 1 .. at + n
    BY <1>1
  <2> QED
    BY <1>3, <1>4, <2>1
<1>6. late \in Seq(Byte) /\ D \in [1 .. n -> Seq(Byte)] /\ \A i \in 1 .. n : b[at + i] = D[i]
  BY <1>2 DEF Adds
<1>7. Together(Byte, c, at, D, n, b)
  BY <1>3, <1>5, <1>6 DEF Together
<1>8. FlattenSeq(b) = FlattenSeq(c) \o FlattenSeq(D) /\ FlattenSeq(D) \in Seq(Byte)
  BY <1>1, <1>7, FlattenTwo
<1>9. FlattenSeq(a) \in Seq(Byte)
  <2>1. PICK f : Joins(f, a, at, Byte) /\ FlattenSeq(a) = f[at]
    BY <1>1, <1>3, FlattenJoins
  <2> QED
    BY <1>1, <2>1 DEF Joins
<1>10. FlattenSeq(c) = FlattenSeq(a) \o late
  <2>1. CASE late = <<>> /\ \A i \in 1 .. at : SoFar(at + n)[i] = SoFar(at)[i]
    <3>1. \A i \in 1 .. at : c[i] = a[i]
      BY <1>2, <1>5, <2>1
    <3>2. c = a
      BY <1>3, <1>5, <3>1
    <3> QED
      BY <1>9, <2>1, <3>2, ConcatEmptySeq
  <2>2. CASE LastGoesOn(SoFar(at), [i \in 1 .. at |-> SoFar(at + n)[i]], at, late)
    <3>1. LastGoesOn(a, c, at, late)
      BY <1>2, <1>4, <2>2
    <3>2. late \in Seq(Byte) /\ at \in Nat /\ a \in [1 .. at -> Seq(Byte)] /\ c \in [1 .. at -> Seq(Byte)]
      BY <1>1, <1>3, <1>5, <1>6
    <3> QED
      BY <3>1, <3>2, FlattenLast, ZenonT(60)
  <2> QED
    BY <2>1, <2>2 DEF Adds
<1>11. PICK x, y, z \in Seq(Byte) : x = FlattenSeq(a) /\ y = late /\ z = FlattenSeq(D)
  BY <1>6, <1>8, <1>9
<1>12. (x \o y) \o z = x \o (y \o z)
  BY ConcatAssociative, SMTT(60)
<1> QED
  BY <1>2, <1>8, <1>10, <1>11, <1>12

\* What sequences come to is a sequence.
LEMMA FlattenType ==
  ASSUME NEW A, NEW n \in Nat, NEW s \in [1 .. n -> Seq(A)]
  PROVE  FlattenSeq(s) \in Seq(A)
<1>1. PICK f : Joins(f, s, n, A) /\ FlattenSeq(s) = f[n]
  BY FlattenJoins
<1> QED
  BY <1>1 DEF Joins

\* A step of a filter that adds what it should.
FilterAdds(n, late, D) ==
  /\ Filtered(n, late \o FlattenSeq(D))
  /\ Faithful => Adds(n, late, D)
  /\ Faithful /\ job.kind = "dot output" => ~SplitsDot(n)

\* It keeps the invariant.
LEMMA FilterKeeps ==
  ASSUME FilterInv, job.kind \in Filters, NEW n \in Sizes, NEW late, NEW D, FilterAdds(n, late, D)
  PROVE  FilterInv'
<1>1. /\ text \in Seq(Byte) /\ at \in 0 .. Len(text)
      /\ worker = [previous2 |-> LastAt(at - 1), previous1 |-> LastAt(at), start |-> at = 0]
      /\ Faithful => output = FlattenSeq(SoFar(at))
  BY DEF FilterInv
<1>2. /\ n \in Nat /\ n > 0 /\ at + n \in 1 .. Len(text)
      /\ \A i \in 1 .. n : Piece(n)[i] = text[at + i] /\ at + i \in 1 .. Len(text)
  BY <1>1, NextPiece
<1>3. /\ job' = job /\ text' = text /\ at' = at + n /\ output' = output \o (late \o FlattenSeq(D))
      /\ worker' = [previous2 |-> Before(Piece(n), n), previous1 |-> text[at + n], start |-> FALSE]
  BY DEF FilterAdds, Filtered
<1>4. PICK a, l \in Nat : a = at /\ l = Len(text)
  BY <1>1, LenProperties
<1>5. Before(Piece(n), n) = LastAt(at + n - 1)
  <2>1. CASE n = 1
    <3>1. a + n - 1 = a
      BY <2>1
    <3>2. at + n - 1 = at
      BY <1>4, <3>1
    <3>3. worker.previous1 = LastAt(at)
      BY <1>1
    <3> QED
      BY <2>1, <3>2, <3>3 DEF Before
  <2>2. CASE n # 1
    <3>1. n - 1 \in 1 .. n /\ a + (n - 1) = a + n - 1
      BY <1>2, <2>2
    <3>2. n - 1 \in 1 .. n /\ at + (n - 1) = at + n - 1
      BY <1>4, <3>1
    <3>3. Piece(n)[n - 1] = text[at + (n - 1)] /\ at + (n - 1) \in 1 .. Len(text)
      BY <1>2, <3>2
    <3> QED
      BY <2>2, <3>2, <3>3 DEF Before, LastAt
  <2> QED
    BY <2>1, <2>2
<1>6. text[at + n] = LastAt(at + n) /\ (at + n = 0) = FALSE
  <2>1. at + n \in 1 .. l
    BY <1>2, <1>4
  <2>2. at + n # 0
    BY <2>1
  <2> QED
    BY <1>2, <2>2 DEF LastAt
<1>7. (LastAt(at))' = LastAt(at + n) /\ (LastAt(at - 1))' = LastAt(at + n - 1) /\ (SoFar(at))' = SoFar(at + n)
  <2>1. (LastAt(at))' = LastAt(at + n)
    BY <1>3 DEF LastAt
  <2>2. (LastAt(at - 1))' = LastAt(at + n - 1)
    <3>1. PICK i : i = at + n - 1
      OBVIOUS
    <3>2. at' - 1 = i
      <4>1. at' = at + n
        BY <1>3
      <4>2. n \in Nat
        BY <1>2
      <4>3. (a + n) - 1 = a + (n - 1)
        BY <4>2
      <4> QED
        BY <1>4, <3>1, <4>1, <4>3
    <3>3. (LastAt(at - 1))' = LastAt(i)
      BY <1>3, <3>2 DEF LastAt
    <3> QED
      BY <3>1, <3>3
  <2>3. (SoFar(at))' = SoFar(at + n)
    BY <1>3 DEF SoFar
  <2> QED
    BY <2>1, <2>2, <2>3
<1>8. worker' = [previous2 |-> (LastAt(at - 1))', previous1 |-> (LastAt(at))', start |-> (at' = 0)]
  BY <1>3, <1>5, <1>6, <1>7
<1>9. Faithful => output' = (FlattenSeq(SoFar(at)))'
  BY <1>1, <1>3, <1>7, PieceAdds DEF FilterAdds
<1>10. Faithful /\ job.kind = "dot output" => ~(text[at + n] = DOT /\ NewLineAt(text, at + n + 1))
  BY DEF FilterAdds, SplitsDot
<1>11. (Faithful /\ job.kind = "dot output" => ~(text[at] = DOT /\ NewLineAt(text, at + 1)))'
  BY <1>3, <1>10 DEF Faithful, NewLineAt
<1>12. (Faithful <=> Faithful') /\ (text \in Seq(Byte))' /\ (at \in 0 .. Len(text))'
  <2>1. at + n \in 0 .. l
    BY <1>2, <1>4
  <2> QED
    BY <1>1, <1>3, <1>4, <2>1 DEF Faithful
<1> QED
  BY <1>8, <1>9, <1>11, <1>12 DEF FilterInv

\* The filters, one by one.  Dots are doubled: no piece ends between a dot and a
\* line break, so that nothing is written ahead of a piece.
LEMMA DotsOut == FilterInv /\ writeDotFiltered => FilterInv'
<1> SUFFICES ASSUME FilterInv, writeDotFiltered
             PROVE  FilterInv'
  OBVIOUS
<1>1. job.kind = "dot output" /\ job.kind \in Filters
  BY DEF writeDotFiltered, Filters
<1>2. PICK n \in Sizes : (SplitAtDots \/ ~SplitsDot(n)) /\ Filtered(n, DotStuffed(Piece(n)))
  BY DEF writeDotFiltered
<1>3. PICK data : data = Piece(n)
  OBVIOUS
<1> DEFINE doubled(i) ==
             data[i] = DOT /\ (Before(data, i) = LF \/ (i = 1 /\ worker.start /\ NewLineAt(data, 2)))
           late == IF worker.previous1 = DOT /\ NewLineAt(data, 1) THEN <<DOT, data[1]>> ELSE <<>>
           D == [i \in DOMAIN data |-> IF doubled(i) THEN <<DOT, DOT>> ELSE <<data[i]>>]
<1>4. DotStuffed(Piece(n)) = late \o FlattenSeq(D)
  BY <1>3 DEF DotStuffed
<1>5. ASSUME Faithful
      PROVE  ~SplitsDot(n) /\ Adds(n, late, D)
  <2>1. ~SplitsDot(n)
    BY <1>1, <1>2, <1>5 DEF Faithful
  <2>2. /\ text \in Seq(Byte) /\ at \in 0 .. Len(text)
        /\ at > 0 => ~(text[at] = DOT /\ NewLineAt(text, at + 1))
    BY <1>1, <1>5 DEF FilterInv
  <2>3. worker.previous1 = LastAt(at) /\ (worker.start <=> at = 0)
    <3>1. worker = [previous2 |-> LastAt(at - 1), previous1 |-> LastAt(at), start |-> at = 0]
      BY <1>1 DEF FilterInv
    <3>2. PICK b \in BOOLEAN : b <=> at = 0
      OBVIOUS
    <3>3. worker = [previous2 |-> LastAt(at - 1), previous1 |-> LastAt(at), start |-> b]
      BY <3>1, <3>2
    <3>4. worker.previous1 = LastAt(at) /\ worker.start = b
      BY <3>3
    <3> QED
      BY <3>2, <3>4
  <2>4. PICK a, l \in Nat : a = at /\ l = Len(text) /\ DOMAIN text = 1 .. l
    BY <2>2, LenProperties
  <2>5. /\ n \in Nat /\ n > 0 /\ a + n \in 1 .. l
        /\ DOMAIN data = 1 .. n /\ data \in Seq(Byte)
        /\ \A i \in 1 .. n : data[i] = text[a + i] /\ a + i \in 1 .. l
    BY <1>3, <2>2, <2>4, NextPiece
  <2>6. late = <<>>
    <3>1. SUFFICES ASSUME worker.previous1 = DOT, NewLineAt(data, 1)
                   PROVE  FALSE
      OBVIOUS
    <3>2. a > 0 /\ text[a] = DOT
      BY <2>3, <2>4, <3>1 DEF LastAt, DOT
    <3>3. text[a + 1] \in {CR, LF} /\ a + 1 \in 1 .. l
      BY <2>4, <2>5, <3>1 DEF NewLineAt
    <3> QED
      BY <2>2, <2>4, <3>2, <3>3 DEF NewLineAt
  <2>7. ASSUME NEW i \in 1 .. n
        PROVE  doubled(i) <=> text[a + i] = DOT /\ (((a + i) - 1 \in 1 .. l /\ text[(a + i) - 1] = LF)
                                \/ (a + i = 1 /\ 2 \in 1 .. l /\ text[2] \in {CR, LF}))
    <3>1. data[i] = text[a + i] /\ a + i \in 1 .. l
      BY <2>5
    <3>2. Before(data, i) = LF <=> (a + i) - 1 \in 1 .. l /\ text[(a + i) - 1] = LF
      <4>1. CASE i = 1
        <5>1. (a + i) - 1 = a /\ Before(data, i) = LastAt(a)
          BY <2>3, <2>4, <4>1 DEF Before
        <5> QED
          BY <2>4, <5>1 DEF LastAt, LF
      <4>2. CASE i # 1
        <5>1. n \in Nat
          BY <2>5
        <5>2. i - 1 \in 1 .. n /\ a + (i - 1) = (a + i) - 1
          BY <4>2, <5>1
        <5>3. data[i - 1] = text[(a + i) - 1] /\ (a + i) - 1 \in 1 .. l
          BY <2>5, <5>2
        <5> QED
          BY <4>2, <5>3 DEF Before
      <4> QED
        BY <4>1, <4>2
    <3>3. data[i] = DOT => ((i = 1 /\ worker.start /\ NewLineAt(data, 2))
                              <=> (a + i = 1 /\ 2 \in 1 .. l /\ text[2] \in {CR, LF}))
      <4>1. i \in Nat /\ i >= 1
        OBVIOUS
      <4>2. i = 1 /\ worker.start <=> a + i = 1
        <5>1. i = 1 /\ a = 0 <=> a + i = 1
          BY <4>1
        <5> QED
          BY <2>3, <2>4, <5>1
      <4>3. SUFFICES ASSUME data[i] = DOT, a + i = 1
                     PROVE  NewLineAt(data, 2) <=> 2 \in 1 .. l /\ text[2] \in {CR, LF}
        BY <4>2
      <4>4. a = 0 /\ i = 1
        BY <4>3
      <4>5. CASE n = 1
        <5>1. ~ NewLineAt(data, 2)
          BY <2>5, <4>5 DEF NewLineAt
        <5>2. a + n = a + i /\ a + n + 1 = 2
          BY <4>4, <4>5
        <5>3. text[a + n] = DOT
          BY <3>1, <4>3, <5>2
        <5> QED
          BY <2>1, <2>4, <5>1, <5>2, <5>3 DEF SplitsDot, NewLineAt
      <4>6. CASE n # 1
        <5>1. 2 \in 1 .. n /\ a + 2 = 2
          BY <2>5, <4>4, <4>6
        <5>2. data[2] = text[2] /\ 2 \in 1 .. l
          BY <2>5, <5>1
        <5> QED
          BY <2>5, <5>1, <5>2 DEF NewLineAt
      <4> QED
        BY <4>5, <4>6
    <3> QED
      BY <3>1, <3>2, <3>3
  <2>8. ASSUME NEW i \in 1 .. n
        PROVE  D[i] = SoFar(a + n)[a + i] /\ D[i] \in Seq(Byte)
    <3>1. D[i] = IF doubled(i) THEN <<DOT, DOT>> ELSE <<text[a + i]>>
      BY <2>5
    <3>2. a + i \in 1 .. a + n /\ a + i \in 1 .. l
      BY <2>5
    <3>3. SoFar(a + n)[a + i] = Whole("dot output", text, a + i)
      BY <1>1, <3>2 DEF SoFar
    <3>4. Whole("dot output", text, a + i) = IF doubled(i) THEN <<DOT, DOT>> ELSE <<text[a + i]>>
      BY <2>4, <2>7, <3>2 DEF Whole
    <3>5. Whole("dot output", text, a + i) \in Seq(Byte)
      BY <2>2, <2>4, <3>2, WholeIsText DEF Filters
    <3> QED
      BY <3>1, <3>3, <3>4, <3>5
  <2>9. ASSUME NEW i \in 1 .. a
        PROVE  SoFar(a + n)[i] = SoFar(a)[i]
    <3>1. i \in 1 .. a + n
      BY <2>5
    <3> QED
      BY <1>1, <3>1 DEF SoFar
  <2>10. D \in [1 .. n -> Seq(Byte)]
    BY <2>5, <2>8
  <2>11. late \in Seq(Byte)
    BY <2>6
  <2> HIDE DEF D, late
  <2>12. Adds(n, late, D)
    BY <2>4, <2>6, <2>8, <2>9, <2>10, <2>11 DEF Adds
  <2> QED
    BY <2>1, <2>12
<1> HIDE DEF late, D
<1>6. FilterAdds(n, late, D)
  BY <1>2, <1>4, <1>5 DEF FilterAdds
<1> QED
  BY <1>1, <1>6, FilterKeeps

\* What a filter knows of the text: the characters around each of the piece.
LEMMA FilterFacts ==
  ASSUME FilterInv, job.kind \in Filters, NEW n \in Sizes, NEW a, a = at, NEW l, l = Len(text), NEW data, data = Piece(n)
  PROVE  /\ a \in Nat /\ l \in Nat /\ DOMAIN text = 1 .. l /\ text \in Seq(Byte)
         /\ n \in Nat /\ n > 0 /\ a + n \in 1 .. l
         /\ data \in Seq(Byte) /\ Len(data) = n /\ DOMAIN data = 1 .. n
         /\ \A i \in 1 .. n : data[i] = text[a + i] /\ a + i \in 1 .. l
         /\ worker.previous1 = LastAt(a) /\ worker.previous2 = LastAt(a - 1)
<1>1. text \in Seq(Byte) /\ at \in 0 .. Len(text)
  BY DEF FilterInv
<1>2. a \in Nat /\ l \in Nat /\ DOMAIN text = 1 .. l
  BY <1>1, LenProperties
<1>3. worker.previous1 = LastAt(a) /\ worker.previous2 = LastAt(a - 1)
  <2>1. worker = [previous2 |-> LastAt(at - 1), previous1 |-> LastAt(at), start |-> at = 0]
    BY DEF FilterInv
  <2>2. PICK b : b = (at = 0)
    OBVIOUS
  <2>3. worker = [previous2 |-> LastAt(at - 1), previous1 |-> LastAt(at), start |-> b]
    BY <2>1, <2>2
  <2>4. worker.previous1 = LastAt(at) /\ worker.previous2 = LastAt(at - 1)
    BY <2>3
  <2> QED
    BY <2>4
<1>4. /\ n \in Nat /\ n > 0 /\ a + n \in 1 .. l
      /\ data \in Seq(Byte) /\ Len(data) = n /\ DOMAIN data = 1 .. n
      /\ \A i \in 1 .. n : data[i] = text[a + i] /\ a + i \in 1 .. l
  BY <1>1, NextPiece
<1> QED
  BY <1>1, <1>2, <1>3, <1>4

\* And before each of them.
LEMMA BeforeEach ==
  ASSUME FilterInv, job.kind \in Filters, NEW n \in Sizes, NEW i \in 1 .. n
  PROVE  Before(Piece(n), i) = LastAt((at + i) - 1)
<1>1. PICK a, l, data : a = at /\ l = Len(text) /\ data = Piece(n)
  OBVIOUS
<1>2. /\ a \in Nat /\ n \in Nat
      /\ \A j \in 1 .. n : data[j] = text[a + j] /\ a + j \in 1 .. l
      /\ worker.previous1 = LastAt(a)
  BY <1>1, FilterFacts
<1>3. CASE i = 1
  <2>1. (a + i) - 1 = a
    BY <1>2, <1>3
  <2> QED
    BY <1>1, <1>2, <1>3, <2>1 DEF Before
<1>4. CASE i # 1
  <2>1. i - 1 \in 1 .. n /\ a + (i - 1) = (a + i) - 1
    BY <1>2, <1>4
  <2>2. data[i - 1] = text[(a + i) - 1] /\ (a + i) - 1 \in 1 .. l
    BY <1>2, <2>1
  <2> QED
    BY <1>1, <1>4, <2>2 DEF Before, LastAt
<1> QED
  BY <1>3, <1>4

\* A character is a line break or a dot only where the text has one.
LEMMA LastIs ==
  ASSUME NEW l, l = Len(text), NEW i, NEW c \in {CR, LF, DOT}
  PROVE  LastAt(i) = c <=> i \in 1 .. l /\ text[i] = c
BY DEF LastAt, CR, LF, DOT

\* A step of a filter that has nothing to write of what it read before.
FilterWrites(n, D) ==
  /\ job.kind \in {"dot input", "LF to CRLF"}
  /\ D \in [1 .. n -> Seq(Byte)]
  /\ \A i \in 1 .. n : D[i] = Whole(job.kind, text, at + i)
  /\ Filtered(n, FlattenSeq(D))

\* It keeps the invariant.
LEMMA FilterStep ==
  ASSUME FilterInv, NEW n \in Sizes, NEW D, FilterWrites(n, D)
  PROVE  FilterInv'
<1>1. job.kind \in Filters /\ job.kind # "CRLF to LF" /\ job.kind # "dot output"
  BY DEF Filters, FilterWrites
<1>2. PICK a, l, data : a = at /\ l = Len(text) /\ data = Piece(n)
  OBVIOUS
<1>3. a \in Nat /\ n \in Nat /\ a + n \in 1 .. l
  BY <1>1, <1>2, FilterFacts
<1>4. FlattenSeq(D) = <<>> \o FlattenSeq(D) /\ <<>> \in Seq(Byte)
  <2>1. D \in [1 .. n -> Seq(Byte)]
    BY DEF FilterWrites
  <2>2. FlattenSeq(D) \in Seq(Byte)
    BY <1>3, <2>1, FlattenType
  <2> QED
    BY <2>2, ConcatEmptySeq
<1>5. ASSUME NEW i \in 1 .. n
      PROVE  D[i] = SoFar(a + n)[a + i]
  <2>1. a + i \in 1 .. a + n
    BY <1>3
  <2> QED
    BY <1>1, <1>2, <2>1 DEF SoFar, FilterWrites
<1>6. ASSUME NEW i \in 1 .. a
      PROVE  SoFar(a + n)[i] = SoFar(a)[i]
  <2>1. i \in 1 .. a + n
    BY <1>3
  <2> QED
    BY <1>1, <2>1 DEF SoFar
<1>7. Adds(n, <<>>, D)
  BY <1>2, <1>4, <1>5, <1>6 DEF Adds, FilterWrites
<1>8. FilterAdds(n, <<>>, D)
  BY <1>1, <1>4, <1>7 DEF FilterAdds, FilterWrites
<1> QED
  BY <1>1, <1>8, FilterKeeps

\* Dots after a line break and a dot are dropped.
LEMMA DotsIn == FilterInv /\ readDotFiltered => FilterInv'
<1> SUFFICES ASSUME FilterInv, readDotFiltered
             PROVE  FilterInv'
  OBVIOUS
<1>1. job.kind = "dot input" /\ job.kind \in Filters
  BY DEF readDotFiltered, Filters
<1>2. PICK n \in Sizes : Filtered(n, DotUnstuffed(Piece(n)))
  BY DEF readDotFiltered
<1>3. PICK a, l, data, all : a = at /\ l = Len(text) /\ data = Piece(n) /\ all = <<worker.previous2, worker.previous1>> \o data
  OBVIOUS
<1>4. /\ a \in Nat /\ l \in Nat /\ DOMAIN text = 1 .. l /\ text \in Seq(Byte)
      /\ n \in Nat /\ n > 0 /\ a + n \in 1 .. l
      /\ data \in Seq(Byte) /\ Len(data) = n /\ DOMAIN data = 1 .. n
      /\ \A i \in 1 .. n : data[i] = text[a + i] /\ a + i \in 1 .. l
  BY <1>1, <1>3, FilterFacts
<1>5. worker.previous1 = LastAt(a) /\ worker.previous2 = LastAt(a - 1)
  BY <1>1, <1>3, FilterFacts
<1>6. ASSUME NEW i \in 1 .. n
      PROVE  all[i + 1] = LastAt((a + i) - 1) /\ all[i] = LastAt((a + i) - 2)
  <2>1. PICK two : two = <<worker.previous2, worker.previous1>>
    OBVIOUS
  <2>2. two[1] = LastAt(a - 1) /\ two[2] = LastAt(a) /\ two \in Seq({LastAt(a - 1), LastAt(a)}) /\ Len(two) = 2
    BY <1>5, <2>1
  <2>3. two \in Seq({LastAt(a - 1), LastAt(a)} \cup Byte) /\ data \in Seq({LastAt(a - 1), LastAt(a)} \cup Byte)
    BY <1>4, <2>2, SeqMonotonic
  <2>4. \A k \in 1 .. 2 + n : all[k] = IF k <= 2 THEN two[k] ELSE data[k - 2]
    BY <1>3, <1>4, <2>1, <2>2, <2>3, ConcatProperties
  <2>5. ASSUME NEW j \in 1 .. n
        PROVE  all[j + 2] = LastAt(a + j)
    <3>1. n \in Nat
      BY <1>4
    <3>2. j + 2 \in 1 .. 2 + n /\ ~(j + 2 <= 2) /\ (j + 2) - 2 = j
      BY <3>1
    <3>3. all[j + 2] = text[a + j] /\ a + j \in 1 .. l
      BY <1>4, <2>4, <3>2
    <3> QED
      BY <1>3, <3>3 DEF LastAt
  <2>6. 1 \in 1 .. 2 + n /\ 2 \in 1 .. 2 + n
    BY <1>4
  <2>7. all[1] = LastAt(a - 1) /\ all[2] = LastAt(a)
    BY <2>2, <2>4, <2>6
  <2>8. n \in Nat /\ a \in Nat
    BY <1>4
  <2>9. CASE i = 1
    <3>1. i + 1 = 2 /\ (a + i) - 1 = a /\ (a + i) - 2 = a - 1
      BY <2>8, <2>9
    <3> QED
      BY <2>7, <2>9, <3>1
  <2>10. CASE i = 2
    <3>1. 1 \in 1 .. n /\ i + 1 = 1 + 2 /\ (a + i) - 1 = a + 1 /\ (a + i) - 2 = a
      BY <2>8, <2>10
    <3> QED
      BY <2>5, <2>7, <2>10, <3>1
  <2>11. CASE i > 2
    <3>1. /\ i - 1 \in 1 .. n /\ (i - 1) + 2 = i + 1 /\ a + (i - 1) = (a + i) - 1
          /\ i - 2 \in 1 .. n /\ (i - 2) + 2 = i /\ a + (i - 2) = (a + i) - 2
      BY <2>8, <2>11
    <3> QED
      BY <2>5, <3>1
  <2> QED
    BY <2>8, <2>9, <2>10, <2>11
<1> DEFINE D == [i \in DOMAIN data |-> IF data[i] = DOT /\ all[i + 1] = DOT /\ all[i] = LF THEN <<>> ELSE <<data[i]>>]
<1>7. DotUnstuffed(Piece(n)) = FlattenSeq(D)
  BY <1>3 DEF DotUnstuffed
<1>8. ASSUME NEW i \in 1 .. n
      PROVE  D[i] = Whole("dot input", text, a + i) /\ D[i] \in Seq(Byte)
  <2>1. data[i] = text[a + i] /\ a + i \in 1 .. l
    BY <1>4
  <2>2. all[i + 1] = DOT <=> (a + i) - 1 \in 1 .. l /\ text[(a + i) - 1] = DOT
    BY <1>3, <1>6, LastIs
  <2>3. all[i] = LF <=> (a + i) - 2 \in 1 .. l /\ text[(a + i) - 2] = LF
    BY <1>3, <1>6, LastIs
  <2>4. D[i] = IF data[i] = DOT /\ all[i + 1] = DOT /\ all[i] = LF THEN <<>> ELSE <<data[i]>>
    BY <1>4
  <2>5. Whole("dot input", text, a + i) =
          IF text[a + i] = DOT /\ ((a + i) - 1 \in 1 .. l /\ text[(a + i) - 1] = DOT)
             /\ ((a + i) - 2 \in 1 .. l /\ text[(a + i) - 2] = LF) THEN <<>> ELSE <<text[a + i]>>
    BY <1>4, <2>1 DEF Whole
  <2>6. Whole("dot input", text, a + i) \in Seq(Byte)
    BY <1>3, <1>4, <2>1, WholeIsText DEF Filters
  <2> QED
    BY <2>1, <2>2, <2>3, <2>4, <2>5, <2>6
<1>9. D \in [1 .. n -> Seq(Byte)]
  BY <1>4, <1>8
<1> HIDE DEF D
<1>10. \A i \in 1 .. n : D[i] = Whole(job.kind, text, at + i)
  BY <1>1, <1>3, <1>8
<1>11. FilterWrites(n, D)
  BY <1>1, <1>2, <1>7, <1>9, <1>10 DEF FilterWrites
<1> QED
  BY <1>11, FilterStep

\* Every line break becomes CR LF.
LEMMA LinesOut == FilterInv /\ writeLFToCRLF => FilterInv'
<1> SUFFICES ASSUME FilterInv, writeLFToCRLF
             PROVE  FilterInv'
  OBVIOUS
<1>1. job.kind = "LF to CRLF" /\ job.kind \in Filters
  BY DEF writeLFToCRLF, Filters
<1>2. PICK n \in Sizes : Filtered(n, CRLFOnly(Piece(n)))
  BY DEF writeLFToCRLF
<1>3. PICK a, l, data : a = at /\ l = Len(text) /\ data = Piece(n)
  OBVIOUS
<1>4. /\ a \in Nat /\ l \in Nat /\ DOMAIN text = 1 .. l /\ text \in Seq(Byte)
      /\ n \in Nat /\ n > 0 /\ a + n \in 1 .. l
      /\ data \in Seq(Byte) /\ Len(data) = n /\ DOMAIN data = 1 .. n
      /\ \A i \in 1 .. n : data[i] = text[a + i] /\ a + i \in 1 .. l
  BY <1>1, <1>3, FilterFacts
<1>5. ASSUME NEW i \in 1 .. n
      PROVE  Before(data, i) = LastAt((a + i) - 1)
  <2>1. Before(Piece(n), i) = LastAt((at + i) - 1)
    BY <1>1, BeforeEach
  <2> QED
    BY <1>3, <2>1
<1> DEFINE D == [i \in DOMAIN data |->
                   IF data[i] = LF /\ Before(data, i) = CR THEN <<>>
                   ELSE IF data[i] \in {CR, LF} THEN CRLF ELSE <<data[i]>>]
<1>6. CRLFOnly(Piece(n)) = FlattenSeq(D)
  BY <1>3 DEF CRLFOnly
<1>7. ASSUME NEW i \in 1 .. n
      PROVE  D[i] = Whole("LF to CRLF", text, a + i) /\ D[i] \in Seq(Byte)
  <2>1. data[i] = text[a + i] /\ a + i \in 1 .. l
    BY <1>4
  <2>2. Before(data, i) = CR <=> (a + i) - 1 \in 1 .. l /\ text[(a + i) - 1] = CR
    BY <1>3, <1>5, LastIs
  <2>3. D[i] = IF data[i] = LF /\ Before(data, i) = CR THEN <<>>
               ELSE IF data[i] \in {CR, LF} THEN CRLF ELSE <<data[i]>>
    BY <1>4
  <2>4. Whole("LF to CRLF", text, a + i) =
          IF text[a + i] = CR THEN CRLF ELSE IF text[a + i] # LF THEN <<text[a + i]>>
          ELSE IF (a + i) - 1 \in 1 .. l /\ text[(a + i) - 1] = CR THEN <<>> ELSE CRLF
    BY <1>4, <2>1 DEF Whole
  <2>5. Whole("LF to CRLF", text, a + i) \in Seq(Byte)
    BY <1>3, <1>4, <2>1, WholeIsText DEF Filters
  <2>6. CR # LF
    BY DEF CR, LF
  <2>7. D[i] = Whole("LF to CRLF", text, a + i)
    <3>1. CASE text[a + i] = CR
      BY <2>1, <2>3, <2>4, <2>6, <3>1
    <3>2. CASE text[a + i] = LF
      BY <2>1, <2>2, <2>3, <2>4, <2>6, <3>2
    <3>3. CASE text[a + i] \notin {CR, LF}
      BY <2>1, <2>3, <2>4, <3>3
    <3> QED
      BY <3>1, <3>2, <3>3
  <2> QED
    BY <2>5, <2>7
<1>8. D \in [1 .. n -> Seq(Byte)]
  BY <1>4, <1>7
<1> HIDE DEF D
<1>9. \A i \in 1 .. n : D[i] = Whole(job.kind, text, at + i)
  BY <1>1, <1>3, <1>7
<1>10. FilterWrites(n, D)
  BY <1>1, <1>2, <1>6, <1>8, <1>9 DEF FilterWrites
<1> QED
  BY <1>10, FilterStep

\* CR is dropped before LF, and held back until it is known what follows it.
LEMMA LinesIn == FilterInv /\ writeCRLFToLF => FilterInv'
<1> SUFFICES ASSUME FilterInv, writeCRLFToLF
             PROVE  FilterInv'
  OBVIOUS
<1>1. job.kind = "CRLF to LF" /\ job.kind \in Filters
  BY DEF writeCRLFToLF, Filters
<1>2. PICK n \in Sizes : Filtered(n, LFOnly(Piece(n)))
  BY DEF writeCRLFToLF
<1>3. PICK a, l, data : a = at /\ l = Len(text) /\ data = Piece(n)
  OBVIOUS
<1>4. /\ a \in Nat /\ l \in Nat /\ DOMAIN text = 1 .. l /\ text \in Seq(Byte)
      /\ n \in Nat /\ n > 0 /\ a + n \in 1 .. l
      /\ data \in Seq(Byte) /\ Len(data) = n /\ DOMAIN data = 1 .. n
      /\ \A i \in 1 .. n : data[i] = text[a + i] /\ a + i \in 1 .. l
  BY <1>1, <1>3, FilterFacts
<1>5. worker.previous1 = LastAt(a)
  BY <1>1, <1>3, FilterFacts
<1> DEFINE late == IF worker.previous1 = CR /\ data[1] # LF THEN <<CR>> ELSE <<>>
           D == [i \in DOMAIN data |->
                   IF data[i] = CR /\ (i = Len(data) \/ data[i + 1] = LF) THEN <<>> ELSE <<data[i]>>]
<1>6. LFOnly(Piece(n)) = late \o FlattenSeq(D)
  BY <1>3 DEF LFOnly
<1>7. late \in Seq(Byte)
  <2>1. CR \in Byte
    BY DEF CR, Byte
  <2> QED
    BY <2>1
<1>8. ASSUME NEW i \in 1 .. l
      PROVE  /\ Whole("CRLF to LF", text, i) =
                  IF text[i] = CR /\ i + 1 \in 1 .. l /\ text[i + 1] = LF THEN <<>> ELSE <<text[i]>>
             /\ Whole("CRLF to LF", text, i) \in Seq(Byte)
  <2>1. Whole("CRLF to LF", text, i) \in Seq(Byte)
    BY <1>3, <1>4, WholeIsText DEF Filters
  <2> QED
    BY <1>4, <2>1 DEF Whole
<1>9. ASSUME NEW k \in 0 .. l, NEW i \in 1 .. k
      PROVE  SoFar(k)[i] = IF i = k /\ text[i] = CR THEN <<>> ELSE Whole("CRLF to LF", text, i)
  BY <1>1 DEF SoFar
<1>10. ASSUME NEW i \in 1 .. n
       PROVE  D[i] = SoFar(a + n)[a + i] /\ D[i] \in Seq(Byte)
  <2>1. data[i] = text[a + i] /\ a + i \in 1 .. l
    BY <1>4
  <2>2. D[i] = IF data[i] = CR /\ (i = n \/ data[i + 1] = LF) THEN <<>> ELSE <<data[i]>>
    BY <1>4
  <2>3. n \in Nat /\ a \in Nat
    BY <1>4
  <2>4. a + n \in 0 .. l /\ a + i \in 1 .. a + n /\ (a + i = a + n <=> i = n)
    BY <1>4
  <2>5. SoFar(a + n)[a + i] = IF i = n /\ text[a + i] = CR THEN <<>> ELSE Whole("CRLF to LF", text, a + i)
    BY <1>9, <2>4
  <2>6. CASE i = n
    <3>1. text[a + i] # CR => Whole("CRLF to LF", text, a + i) = <<text[a + i]>>
      <4>1. PICK j \in 1 .. l : j = a + i
        BY <2>1
      <4>2. text[j] # CR => Whole("CRLF to LF", text, j) = <<text[j]>>
        BY <1>8
      <4> QED
        BY <4>1, <4>2
    <3>2. <<>> \in Seq(Byte) /\ Whole("CRLF to LF", text, a + i) \in Seq(Byte)
      <4>1. PICK j \in 1 .. l : j = a + i
        BY <2>1
      <4>2. Whole("CRLF to LF", text, j) \in Seq(Byte)
        BY <1>8
      <4>3. <<>> \in Seq(Byte)
        OBVIOUS
      <4> QED
        BY <4>1, <4>2, <4>3
    <3> HIDE DEF D
    <3> QED
      BY <2>1, <2>2, <2>5, <2>6, <3>1, <3>2
  <2>7. CASE i # n
    <3>1. i + 1 \in 1 .. n /\ a + (i + 1) = (a + i) + 1
      BY <2>3, <2>7
    <3>2. data[i + 1] = text[(a + i) + 1] /\ (a + i) + 1 \in 1 .. l
      BY <1>4, <3>1
    <3>3. Whole("CRLF to LF", text, a + i) = IF text[a + i] = CR /\ text[(a + i) + 1] = LF THEN <<>> ELSE <<text[a + i]>>
      BY <1>8, <2>1, <3>2
    <3>4. Whole("CRLF to LF", text, a + i) \in Seq(Byte)
      BY <1>8, <2>1
    <3> HIDE DEF D
    <3> QED
      BY <2>1, <2>2, <2>5, <2>7, <3>2, <3>3, <3>4
  <2> QED
    BY <2>6, <2>7
<1>11. D \in [1 .. n -> Seq(Byte)]
  BY <1>4, <1>10
<1>12. a \in 0 .. l /\ a + n \in 0 .. l /\ 1 \in 1 .. n
  BY <1>4
<1>13. ASSUME NEW i \in 1 .. a, i # a
       PROVE  SoFar(a + n)[i] = SoFar(a)[i]
  <2>1. i \in 1 .. a + n /\ i # a + n
    BY <1>4
  <2> QED
    BY <1>9, <1>12, <1>13, <2>1
<1>14. data[1] = text[a + 1] /\ a + 1 \in 1 .. l
  BY <1>4, <1>12
<1>15. ASSUME a = 0 \/ text[a] # CR
       PROVE  Adds(n, late, D)
  <2>1. late = <<>>
    BY <1>3, <1>5, <1>15, <1>4, LastIs
  <2>2. ASSUME a # 0
        PROVE  SoFar(a + n)[a] = SoFar(a)[a]
    <3>1. a \in 1 .. a + n /\ a # a + n /\ a \in 1 .. a
      BY <1>4, <2>2
    <3> QED
      BY <1>9, <1>12, <1>15, <2>2, <3>1
  <2>3. \A i \in 1 .. a : SoFar(a + n)[i] = SoFar(a)[i]
    <3> TAKE i \in 1 .. a
    <3>1. a # 0
      OBVIOUS
    <3> QED
      BY <1>13, <2>2, <3>1
  <2> HIDE DEF late, D
  <2> QED
    BY <1>3, <1>7, <1>10, <1>11, <2>1, <2>3 DEF Adds
<1>16. ASSUME a # 0, text[a] = CR
       PROVE  Adds(n, late, D)
  <2>1. a \in 1 .. l /\ a \in 1 .. a + n /\ a # a + n /\ a \in 1 .. a
    BY <1>4, <1>16
  <2>2. worker.previous1 = CR
    BY <1>3, <1>5, <1>16, <2>1, LastIs
  <2>3. SoFar(a)[a] = <<>>
    BY <1>9, <1>12, <1>16, <2>1
  <2>4. SoFar(a + n)[a] = Whole("CRLF to LF", text, a)
    BY <1>9, <1>12, <2>1
  <2>5. Whole("CRLF to LF", text, a) = late
    BY <1>8, <1>14, <1>16, <2>1, <2>2
  <2> HIDE DEF late, D
  <2>6. SoFar(a + n)[a] = SoFar(a)[a] \o late
    BY <1>7, <2>3, <2>4, <2>5, ConcatEmptySeq
  <2> DEFINE c == [i \in 1 .. a |-> SoFar(a + n)[i]]
  <2>7. c[a] = SoFar(a)[a] \o late
    BY <2>1, <2>6
  <2>8. ASSUME NEW i \in 1 .. a - 1
        PROVE  c[i] = SoFar(a)[i]
    <3>1. i \in 1 .. a /\ i # a
      BY <1>4
    <3> QED
      BY <1>13, <3>1
  <2> HIDE DEF c
  <2>9. LastGoesOn(SoFar(a), c, a, late)
    BY <1>16, <2>7, <2>8 DEF LastGoesOn
  <2> QED
    BY <1>3, <1>7, <1>10, <1>11, <2>9 DEF Adds, c
<1> HIDE DEF late, D
<1>17. Adds(n, late, D)
  BY <1>15, <1>16
<1>18. FilterAdds(n, late, D)
  BY <1>1, <1>2, <1>6, <1>17 DEF FilterAdds
<1> QED
  BY <1>1, <1>18, FilterKeeps

\* Every step keeps it.
LEMMA FilterInvStep == FilterInv /\ [Next]_streamVars => FilterInv'
<1>1. ASSUME FilterInv, Next
      PROVE  FilterInv'
  <2>1. job' = job /\ (job.kind \in Filters => FilterNext)
    BY <1>1, NextOfKind
  <2>2. CASE job.kind \in Filters
    BY <1>1, <2>1, <2>2, DotsOut, DotsIn, LinesOut, LinesIn DEF FilterNext
  <2>3. CASE job.kind \notin Filters
    BY <2>1, <2>3 DEF FilterInv
  <2> QED
    BY <2>2, <2>3
<1>2. ASSUME FilterInv, UNCHANGED streamVars
      PROVE  FilterInv'
  BY <1>2 DEF FilterInv, streamVars, LastAt, SoFar, Faithful, NewLineAt
<1> QED
  BY <1>1, <1>2

CutsDot(s, k, n) == s[k] = DOT /\ k + 1 \in 1 .. n /\ s[k + 1] \in {CR, LF}
Begins(t, k, s) == s \in Seq(Byte) /\ t \in Seq(Byte) /\ k = Len(t) /\ \A i \in 1 .. k : t[i] = s[i]

LikeWhole(kind, t, k, s, n, i) ==
  /\ kind = "CRLF to LF" /\ i = k => Whole(kind, t, i) = <<s[i]>>
  /\ i # k \/ (kind # "CRLF to LF" /\ ~(kind = "dot output" /\ CutsDot(s, k, n))) =>
       Whole(kind, t, i) = Whole(kind, s, i)

\* What a filter makes of the i-th of the first k characters does not depend on
\* what follows, unless it is the last of them and a dot, or a CR that is held.
LEMMA WholeOfPrefix ==
  ASSUME NEW kind \in Filters, NEW s, NEW n \in Nat, n = Len(s), NEW t, NEW k \in 1 .. n, Begins(t, k, s), NEW i \in 1 .. k
  PROVE  LikeWhole(kind, t, k, s, n, i)
<1>1. DOMAIN s = 1 .. n /\ DOMAIN t = 1 .. k
  BY LenProperties DEF Begins
<1> DEFINE is(u, j, c) == j \in DOMAIN u /\ u[j] = c
<1>2. t[i] = s[i] /\ i \in 1 .. n /\ i \in 1 .. k
  BY DEF Begins
<1>3. \A c : is(t, i, c) <=> is(s, i, c)
  BY <1>1, <1>2
<1>4. /\ \A c : is(t, i - 1, c) <=> is(s, i - 1, c)
      /\ \A c : is(t, i - 2, c) <=> is(s, i - 2, c)
  <2>1. i - 1 \in 1 .. n <=> i - 1 \in 1 .. k
    OBVIOUS
  <2>2. i - 2 \in 1 .. n <=> i - 2 \in 1 .. k
    OBVIOUS
  <2> QED
    BY <1>1, <2>1, <2>2 DEF Begins
<1>5. i # k => \A c : is(t, i + 1, c) <=> is(s, i + 1, c)
  <2>1. i # k => i + 1 \in 1 .. n /\ i + 1 \in 1 .. k
    OBVIOUS
  <2> QED
    BY <1>1, <2>1 DEF Begins
<1>6. i = k => ~ is(t, i + 1, LF)
  <2>1. i = k => i + 1 \notin 1 .. k
    OBVIOUS
  <2> QED
    BY <1>1, <2>1
<1>7. i = 1 /\ i # k => \A c : is(t, 2, c) <=> is(s, 2, c)
  <2>1. i = 1 => i + 1 = 2
    OBVIOUS
  <2> HIDE DEF is
  <2> QED
    BY <1>5, <2>1
<1>8. i = 1 /\ i = k => ~ is(t, 2, CR) /\ ~ is(t, 2, LF) /\ (is(s, 2, CR) \/ is(s, 2, LF) <=> k + 1 \in 1 .. n /\ s[k + 1] \in {CR, LF})
  <2>1. i = 1 /\ i = k => 2 \notin 1 .. k
    OBVIOUS
  <2>2. i = 1 /\ i = k => k + 1 = 2
    OBVIOUS
  <2> QED
    BY <1>1, <2>1, <2>2
<1>9. CASE kind = "dot output"
  <2>1. Whole(kind, s, i) = IF is(s, i, DOT) /\ (is(s, i - 1, LF) \/ (i = 1 /\ (is(s, 2, CR) \/ is(s, 2, LF)))) THEN <<DOT, DOT>> ELSE <<s[i]>>
    BY <1>9 DEF Whole
  <2>2. Whole(kind, t, i) = IF is(t, i, DOT) /\ (is(t, i - 1, LF) \/ (i = 1 /\ (is(t, 2, CR) \/ is(t, 2, LF)))) THEN <<DOT, DOT>> ELSE <<t[i]>>
    BY <1>9 DEF Whole
  <2> HIDE DEF is
  <2>3. i # k => Whole(kind, t, i) = Whole(kind, s, i)
    BY <1>2, <1>3, <1>4, <1>7, <2>1, <2>2
  <2>4. ASSUME i = k, ~CutsDot(s, k, n)
        PROVE  Whole(kind, t, i) = Whole(kind, s, i)
    <3>1. is(s, i, DOT) => s[k] = DOT
      BY <2>4 DEF is
    <3> QED
      BY <1>2, <1>3, <1>4, <1>8, <2>1, <2>2, <2>4, <3>1 DEF CutsDot
  <2> QED
    BY <1>9, <2>3, <2>4 DEF LikeWhole
<1>10. CASE kind = "dot input"
  <2>1. Whole(kind, s, i) = IF is(s, i, DOT) /\ is(s, i - 1, DOT) /\ is(s, i - 2, LF) THEN <<>> ELSE <<s[i]>>
    BY <1>10 DEF Whole
  <2>2. Whole(kind, t, i) = IF is(t, i, DOT) /\ is(t, i - 1, DOT) /\ is(t, i - 2, LF) THEN <<>> ELSE <<t[i]>>
    BY <1>10 DEF Whole
  <2> HIDE DEF is
  <2> QED
    BY <1>2, <1>3, <1>4, <1>10, <2>1, <2>2 DEF LikeWhole
<1>11. CASE kind = "CRLF to LF"
  <2>1. Whole(kind, s, i) = IF is(s, i, CR) /\ is(s, i + 1, LF) THEN <<>> ELSE <<s[i]>>
    BY <1>11 DEF Whole
  <2>2. Whole(kind, t, i) = IF is(t, i, CR) /\ is(t, i + 1, LF) THEN <<>> ELSE <<t[i]>>
    BY <1>11 DEF Whole
  <2> HIDE DEF is
  <2> QED
    BY <1>2, <1>3, <1>5, <1>6, <1>11, <2>1, <2>2 DEF LikeWhole
<1>12. CASE kind = "LF to CRLF"
  <2>1. Whole(kind, s, i) =
          IF is(s, i, CR) THEN CRLF ELSE IF ~is(s, i, LF) THEN <<s[i]>> ELSE IF is(s, i - 1, CR) THEN <<>> ELSE CRLF
    BY <1>12 DEF Whole
  <2>2. Whole(kind, t, i) =
          IF is(t, i, CR) THEN CRLF ELSE IF ~is(t, i, LF) THEN <<t[i]>> ELSE IF is(t, i - 1, CR) THEN <<>> ELSE CRLF
    BY <1>12 DEF Whole
  <2> HIDE DEF is
  <2> QED
    BY <1>2, <1>3, <1>4, <1>12, <2>1, <2>2 DEF LikeWhole
<1> QED
  BY <1>9, <1>10, <1>11, <1>12 DEF Filters

\* What was written, with a CR held back, is what the whole gives.
LEMMA FilterInvMeans == FilterInv /\ Faithful => FilteredAsWhole
<1> SUFFICES ASSUME FilterInv, Faithful, job.kind \in Filters
             PROVE  output \o HeldCR = WholeFiltered(job.kind, SubSeq(text, 1, at))
  BY DEF FilteredAsWhole
<1>1. /\ text \in Seq(Byte) /\ at \in 0 .. Len(text) /\ output = FlattenSeq(SoFar(at))
      /\ job.kind = "dot output" /\ at > 0 => ~(text[at] = DOT /\ NewLineAt(text, at + 1))
  BY DEF FilterInv
<1>2. worker.previous1 = LastAt(at)
  <2>1. worker = [previous2 |-> LastAt(at - 1), previous1 |-> LastAt(at), start |-> at = 0]
    BY DEF FilterInv
  <2>2. PICK b : b = (at = 0)
    OBVIOUS
  <2>3. worker = [previous2 |-> LastAt(at - 1), previous1 |-> LastAt(at), start |-> b]
    BY <2>1, <2>2
  <2> QED
    BY <2>3
<1>3. PICK kind, t : kind = job.kind /\ t = SubSeq(text, 1, at)
  OBVIOUS
<1>4. PICK k, n \in Nat : k = at /\ n = Len(text) /\ k <= n /\ DOMAIN text = 1 .. n
  <2>1. text \in Seq(Byte) /\ at \in 0 .. Len(text)
    BY <1>1
  <2> QED
    BY <2>1, LenProperties
<1>5. t \in Seq(Byte) /\ Len(t) = k /\ DOMAIN t = 1 .. k /\ \A i \in 1 .. k : t[i] = text[i]
  <2>1. \A i \in 1 .. k : text[i] \in Byte
    <3>1. \A i \in 1 .. Len(text) : text[i] \in Byte
      BY <1>1, ElementOfSeq
    <3> QED
      BY <1>4, <3>1
  <2>2. PICK u : u = SubSeq(text, 1, k)
    OBVIOUS
  <2>3. /\ u \in Seq(Byte) /\ Len(u) = (IF 1 <= k THEN k - 1 + 1 ELSE 0)
        /\ \A i \in 1 .. k - 1 + 1 : u[i] = text[1 + i - 1]
    BY <2>1, <2>2, SubSeqProperties
  <2>4. (IF 1 <= k THEN k - 1 + 1 ELSE 0) = k /\ k - 1 + 1 = k /\ \A i \in 1 .. k : 1 + i - 1 = i
    OBVIOUS
  <2>5. u \in Seq(Byte) /\ Len(u) = k /\ \A i \in 1 .. k : u[i] = text[i]
    BY <2>3, <2>4
  <2>6. u = t
    BY <1>3, <1>4, <2>2
  <2> QED
    BY <2>5, <2>6, LenProperties
<1>6. HeldCR = IF kind = "CRLF to LF" /\ k > 0 /\ text[k] = CR THEN <<CR>> ELSE <<>>
  <2>1. LastAt(k) = CR <=> k > 0 /\ text[k] = CR
    BY <1>4, LastIs
  <2> QED
    BY <1>2, <1>3, <1>4, <2>1 DEF HeldCR
<1>7. PICK a, b : a = SoFar(k) /\ b = [i \in DOMAIN t |-> Whole(kind, t, i)]
  OBVIOUS
<1>8. WholeFiltered(job.kind, SubSeq(text, 1, at)) = FlattenSeq(b) /\ output = FlattenSeq(a)
  BY <1>1, <1>3, <1>4, <1>7 DEF WholeFiltered
<1>9. CASE k = 0
  <2>1. a = <<>> /\ b = <<>>
    BY <1>5, <1>7, <1>9 DEF SoFar
  <2>2. HeldCR = <<>>
    BY <1>6, <1>9
  <2>3. FlattenSeq(<<>>) = <<>>
    BY DEF FlattenSeq
  <2> QED
    BY <1>8, <2>1, <2>2, <2>3
<1>10. CASE k # 0
  <2>1. k \in 1 .. n /\ k \in 1 .. k /\ k \in 0 .. n /\ k > 0
    BY <1>4, <1>10
  <2>2. a \in [1 .. k -> Seq(Byte)] /\ FlattenSeq(a) \in Seq(Byte)
    <3>1. a \in [1 .. k -> Seq(Byte)]
      BY <1>1, <1>4, <1>7, <2>1, SoFarType
    <3> QED
      BY <3>1, FlattenType
  <2>3. \A i \in 1 .. k : Whole(kind, t, i) \in Seq(Byte)
    BY <1>3, <1>5, WholeIsText
  <2>4. b \in [1 .. k -> Seq(Byte)]
    BY <1>5, <1>7, <2>3
  <2>5. HeldCR \in Seq(Byte)
    <3>1. <<CR>> \in Seq(Byte) /\ <<>> \in Seq(Byte)
      BY DEF CR, Byte
    <3>2. HeldCR \in {<<CR>>, <<>>}
      BY <1>6
    <3> QED
      BY <3>1, <3>2
  <2>6. ASSUME NEW i \in 1 .. k
        PROVE  /\ kind = "CRLF to LF" /\ i = k => Whole(kind, t, i) = <<text[i]>>
               /\ kind # "CRLF to LF" \/ i # k => Whole(kind, t, i) = Whole(kind, text, i)
    <3>1. ~(kind = "dot output" /\ CutsDot(text, k, n))
      BY <1>1, <1>3, <1>4, <2>1 DEF NewLineAt, CutsDot
    <3>2. Begins(t, k, text) /\ kind \in Filters
      BY <1>1, <1>3, <1>5 DEF Begins
    <3>3. kind \in Filters /\ k \in 1 .. n /\ n = Len(text) /\ n \in Nat /\ i \in 1 .. k
      BY <1>4, <2>1, <3>2
    <3>4. LikeWhole(kind, t, k, text, n, i)
      BY <3>2, <3>3, WholeOfPrefix
    <3> QED
      BY <3>1, <3>4 DEF LikeWhole
  <2>7. ASSUME NEW i \in 1 .. k
        PROVE  a[i] = IF kind = "CRLF to LF" /\ i = k /\ text[i] = CR THEN <<>> ELSE Whole(kind, text, i)
    BY <1>3, <1>7 DEF SoFar
  <2>8. b[k] = a[k] \o HeldCR
    <3>1. a[k] \in Seq(Byte) /\ b[k] = Whole(kind, t, k)
      BY <1>5, <1>7, <2>1, <2>2
    <3>2. CASE kind # "CRLF to LF"
      <4>1. HeldCR = <<>> /\ a[k] = Whole(kind, text, k)
        BY <1>6, <2>1, <2>7, <3>2
      <4>2. b[k] = a[k]
        BY <2>1, <2>6, <3>1, <3>2, <4>1
      <4> QED
        BY <3>1, <4>1, <4>2, ConcatEmptySeq
    <3>3. CASE kind = "CRLF to LF" /\ text[k] = CR
      <4>1. HeldCR = <<CR>> /\ a[k] = <<>> /\ b[k] = <<CR>>
        BY <1>6, <2>1, <2>6, <2>7, <3>1, <3>3
      <4> QED
        BY <2>5, <4>1, ConcatEmptySeq
    <3>4. CASE kind = "CRLF to LF" /\ text[k] # CR
      <4>1. HeldCR = <<>> /\ a[k] = Whole(kind, text, k) /\ b[k] = <<text[k]>>
        BY <1>6, <2>1, <2>6, <2>7, <3>1, <3>4
      <4>2. Whole(kind, text, k) = <<text[k]>>
        BY <1>4, <3>4, <2>1 DEF Whole
      <4> QED
        BY <3>1, <4>1, <4>2, ConcatEmptySeq
    <3> QED
      BY <3>2, <3>3, <3>4
  <2>9. ASSUME NEW i \in 1 .. k - 1
        PROVE  b[i] = a[i]
    <3>1. i \in 1 .. k /\ i # k
      OBVIOUS
    <3> QED
      BY <1>5, <1>7, <2>6, <2>7, <3>1
  <2>10. LastGoesOn(a, b, k, HeldCR)
    BY <1>10, <2>8, <2>9 DEF LastGoesOn
  <2>11. FlattenSeq(b) = FlattenSeq(a) \o HeldCR
    BY <2>2, <2>4, <2>5, <2>10, FlattenLast, ZenonT(60)
  <2> QED
    BY <1>8, <2>11
<1> QED
  BY <1>9, <1>10

\* When no piece ends between a dot and a line break, every filter has written
\* what it would have made of all the text at once, wherever that was cut; the
\* filters that do not double dots need no such care (filteredStream.cpp).
THEOREM FiltersAreWhole ==
  /\ ~SplitAtDots => (Spec => []FilteredAsWhole)
  /\ Spec => [](job.kind # "dot output" => FilteredAsWhole)
<1>1. ~SplitAtDots => (FilterInv => FilteredAsWhole)
  BY FilterInvMeans DEF Faithful
<1>2. FilterInv => (job.kind # "dot output" => FilteredAsWhole)
  BY FilterInvMeans DEF Faithful
<1>3. Spec => []FilterInv
  BY FilterInvInit, FilterInvStep, PTL DEF Spec
<1>4. ASSUME ~SplitAtDots
      PROVE  Spec => []FilteredAsWhole
  <2>1. FilterInv => FilteredAsWhole
    BY <1>1, <1>4
  <2> QED
    BY <1>3, <2>1, PTL
<1>5. Spec => [](job.kind # "dot output" => FilteredAsWhole)
  BY <1>2, <1>3, PTL
<1> QED
  BY <1>4, <1>5

-----------------------------------------------------------------------------
(* The reply to RETR. *)

\* p is what s has after its first characters, m of them.
IsPiece(p, s, from, m) == p \in Seq(Byte) /\ Len(p) = m /\ \A q \in 1 .. m : p[q] = s[from + q]

\* Two pieces, one after the other, are a piece.
LEMMA PiecesJoin ==
  ASSUME NEW s, NEW from \in Nat, NEW m \in Nat, NEW l \in Nat, NEW a, NEW b,
         IsPiece(a, s, from, m), IsPiece(b, s, from + m, l)
  PROVE  IsPiece(a \o b, s, from, m + l)
<1>1. /\ a \in Seq(Byte) /\ Len(a) = m /\ \A q \in 1 .. m : a[q] = s[from + q]
      /\ b \in Seq(Byte) /\ Len(b) = l /\ \A q \in 1 .. l : b[q] = s[(from + m) + q]
  BY DEF IsPiece
<1>2. PICK c : c = a \o b
  OBVIOUS
<1>3. c \in Seq(Byte) /\ Len(c) = m + l /\ \A q \in 1 .. m + l : c[q] = IF q <= m THEN a[q] ELSE b[q - m]
  <2>1. a \in Seq(Byte) /\ b \in Seq(Byte) /\ Len(a) = m /\ Len(b) = l
    BY <1>1
  <2> QED
    BY <1>2, <2>1, ConcatProperties
<1>4. ASSUME NEW q \in 1 .. m + l
      PROVE  c[q] = s[from + q]
  <2>1. CASE q <= m
    <3>1. q \in 1 .. m
      BY <2>1
    <3> QED
      BY <1>1, <1>3, <2>1, <3>1
  <2>2. CASE ~(q <= m)
    <3>1. q - m \in 1 .. l /\ (from + m) + (q - m) = from + q
      BY <2>2
    <3>2. b[q - m] = s[from + q]
      BY <1>1, <3>1
    <3> QED
      BY <1>3, <2>2, <3>2
  <2> QED
    BY <2>1, <2>2
<1> QED
  BY <1>2, <1>3, <1>4 DEF IsPiece

\* One more character.
LEMMA PieceGrows ==
  ASSUME NEW s, NEW from \in Nat, NEW m \in Nat, NEW a, NEW c \in Byte, IsPiece(a, s, from, m), c = s[from + (m + 1)]
  PROVE  IsPiece(Append(a, c), s, from, m + 1)
<1>1. a \in Seq(Byte) /\ Len(a) = m /\ \A q \in 1 .. m : a[q] = s[from + q]
  BY DEF IsPiece
<1>2. PICK b : b = Append(a, c)
  OBVIOUS
<1>3. b \in Seq(Byte) /\ Len(b) = m + 1 /\ (\A q \in 1 .. m : b[q] = a[q]) /\ b[m + 1] = c
  BY <1>1, <1>2, AppendProperties
<1>4. ASSUME NEW q \in 1 .. m + 1
      PROVE  b[q] = s[from + q]
  <2>1. q \in 1 .. m \/ q = m + 1
    OBVIOUS
  <2> QED
    BY <1>1, <1>3, <2>1
<1> QED
  BY <1>2, <1>3, <1>4 DEF IsPiece

\* Of what was read between j and k, a stop sequence filter has written all but
\* the last characters, which are the beginning of the sequence.
Cut(r, s, j, k, sequence) ==
  /\ r = [found |-> r.found, out |-> r.out]
  /\ r.found \in 0 .. Len(sequence) /\ j + r.found <= k
  /\ IsPiece(r.out, s, j, k - r.found - j)
  /\ \A q \in 1 .. r.found : s[(k - r.found) + q] = sequence[q]

\* One character more.
LEMMA StopCuts ==
  ASSUME NEW s \in Seq(Byte), NEW sequence \in Seq(Byte), sequence # <<>>, NEW j \in Nat, NEW k \in Nat, k < Len(s),
         NEW r, Cut(r, s, j, k, sequence), r.found < Len(sequence)
  PROVE  Cut(Stop(sequence, r, s[k + 1]), s, j, k + 1, sequence)
<1>1. PICK n, l \in Nat : n = Len(s) /\ l = Len(sequence) /\ l > 0
  BY LenProperties, EmptySeq
<1>2. PICK f, out, c : f = r.found /\ out = r.out /\ c = s[k + 1]
  OBVIOUS
<1>3. /\ f \in Nat /\ f < l /\ j + f <= k
      /\ IsPiece(out, s, j, k - f - j) /\ \A q \in 1 .. f : s[(k - f) + q] = sequence[q]
  BY <1>1, <1>2 DEF Cut
<1>4. k + 1 \in 1 .. n /\ c \in Byte
  <2>1. k + 1 \in 1 .. n
    BY <1>1
  <2> QED
    BY <1>1, <1>2, <2>1, ElementOfSeq
<1>5. /\ r.found # Len(sequence) /\ r.out = out /\ r.found = f
      /\ [r EXCEPT !.found = f + 1] = [found |-> f + 1, out |-> out]
  <2>1. r = [found |-> f, out |-> out]
    BY <1>2 DEF Cut
  <2>2. f # l
    BY <1>3
  <2> QED
    BY <1>1, <1>2, <2>1, <2>2
<1> DEFINE skipped == out \o SubSeq(sequence, 1, f)
<1>6. Stop(sequence, r, c) =
        IF sequence[f + 1] = c THEN [found |-> f + 1, out |-> out]
        ELSE IF c = sequence[1] THEN [found |-> 1, out |-> skipped] ELSE [found |-> 0, out |-> Append(skipped, c)]
  BY <1>5 DEF Stop
<1>7. CASE sequence[f + 1] = c
  <2>1. PICK t : t = [found |-> f + 1, out |-> out]
    OBVIOUS
  <2>2. t.found = f + 1 /\ t.out = out /\ t = [found |-> t.found, out |-> t.out]
    BY <2>1
  <2>3. f + 1 \in 0 .. l /\ j + (f + 1) <= k + 1 /\ (k + 1) - (f + 1) - j = k - f - j
    BY <1>3
  <2>4. ASSUME NEW q \in 1 .. f + 1
        PROVE  s[((k + 1) - (f + 1)) + q] = sequence[q]
    <3>1. CASE q = f + 1
      <4>1. ((k + 1) - (f + 1)) + q = k + 1
        BY <1>3, <3>1
      <4> QED
        BY <1>2, <1>7, <3>1, <4>1
    <3>2. CASE q # f + 1
      <4>1. ((k + 1) - (f + 1)) + q = (k - f) + q /\ q \in 1 .. f
        BY <1>3, <3>2
      <4> QED
        BY <1>3, <4>1
    <3> QED
      BY <3>1, <3>2
  <2>5. Cut(t, s, j, k + 1, sequence)
    BY <1>1, <1>3, <2>2, <2>3, <2>4 DEF Cut
  <2> QED
    BY <1>2, <1>6, <1>7, <2>1, <2>5
<1>8. CASE sequence[f + 1] # c
  <2>1. \A q \in 1 .. f : sequence[q] \in Byte
    <3>1. 1 .. f \subseteq 1 .. Len(sequence)
      BY <1>1, <1>3
    <3> QED
      BY <3>1, ElementOfSeq
  <2>2. PICK b : b = SubSeq(sequence, 1, f)
    OBVIOUS
  <2>3. b \in Seq(Byte) /\ Len(b) = f /\ \A q \in 1 .. f : b[q] = sequence[q]
    <3>1. /\ b \in Seq(Byte) /\ Len(b) = (IF 1 <= f THEN f - 1 + 1 ELSE 0)
          /\ \A i \in 1 .. f - 1 + 1 : b[i] = sequence[1 + i - 1]
      BY <1>3, <2>1, <2>2, SubSeqProperties
    <3>2. (IF 1 <= f THEN f - 1 + 1 ELSE 0) = f /\ f - 1 + 1 = f /\ \A i \in 1 .. f : 1 + i - 1 = i
      BY <1>3
    <3> QED
      BY <3>1, <3>2
  <2>4. PICK m \in Nat : m = k - f - j /\ j + m = k - f /\ m + f = k - j
    BY <1>3
  <2>5. IsPiece(b, s, j + m, f)
    BY <1>3, <2>3, <2>4 DEF IsPiece
  <2>6. IsPiece(skipped, s, j, m + f)
    BY <1>3, <2>2, <2>4, <2>5, PiecesJoin
  <2> HIDE DEF skipped
  <2>7. CASE c = sequence[1]
    <3>1. PICK t : t = [found |-> 1, out |-> skipped]
      OBVIOUS
    <3>2. t.found = 1 /\ t.out = skipped /\ t = [found |-> t.found, out |-> t.out]
      BY <3>1
    <3>3. 1 \in 0 .. l /\ j + 1 <= k + 1 /\ (k + 1) - 1 - j = m + f /\ ((k + 1) - 1) + 1 = k + 1
      BY <1>1, <1>3, <2>4
    <3>4. ASSUME NEW q \in 1 .. 1
          PROVE  s[((k + 1) - 1) + q] = sequence[q]
      <4>1. q = 1 /\ ((k + 1) - 1) + q = k + 1
        OBVIOUS
      <4> QED
        BY <1>2, <2>7, <4>1
    <3>5. Cut(t, s, j, k + 1, sequence)
      BY <1>1, <2>6, <3>2, <3>3, <3>4 DEF Cut
    <3> QED
      BY <1>2, <1>6, <1>8, <2>7, <3>1, <3>5
  <2>8. CASE c # sequence[1]
    <3>1. PICK t : t = [found |-> 0, out |-> Append(skipped, c)]
      OBVIOUS
    <3>2. t.found = 0 /\ t.out = Append(skipped, c) /\ t = [found |-> t.found, out |-> t.out]
      BY <3>1
    <3>3. 0 \in 0 .. l /\ j + 0 <= k + 1 /\ (k + 1) - 0 - j = (m + f) + 1 /\ j + ((m + f) + 1) = k + 1 /\ m + f \in Nat
      BY <1>1, <1>3, <2>4
    <3>4. IsPiece(t.out, s, j, (k + 1) - 0 - j)
      BY <1>2, <1>4, <2>6, <3>2, <3>3, PieceGrows
    <3>5. Cut(t, s, j, k + 1, sequence)
      BY <1>1, <3>2, <3>3, <3>4 DEF Cut
    <3> QED
      BY <1>2, <1>6, <1>8, <2>8, <3>1, <3>5
  <2> QED
    BY <2>7, <2>8
<1> QED
  BY <1>7, <1>8
-----------------------------------------------------------------------------
\* The characters of data, one by one.
CharByChar(after, sequence, held, data) ==
  /\ after[0] = [found |-> held, out |-> <<>>]
  /\ \A i \in 1 .. Len(data) : after[i] = Stop(sequence, after[i - 1], data[i])

\* That is how they go through the filter.
LEMMA StoppedSteps ==
  ASSUME NEW sequence \in Seq(Byte), sequence # <<>>, NEW held \in 0 .. Len(sequence), NEW data \in Seq(Byte)
  PROVE  \E after : CharByChar(after, sequence, held, data) /\ Stopped(sequence, held, data) = after[Len(data)]
<1>1. PICK n, l \in Nat : n = Len(data) /\ l = Len(sequence) /\ l > 0
  BY LenProperties, EmptySeq
<1> DEFINE V == [found : 0 .. l, out : Seq(Byte)]
           first == [found |-> held, out |-> <<>>]
           step == [i \in 1 .. n |-> [v \in V |-> Stop(sequence, v, data[i])]]
<1>2. first \in V
  BY <1>1
<1>3. ASSUME NEW v \in V, NEW c \in Byte
      PROVE  Stop(sequence, v, c) \in V
  <2>1. PICK f, out : v = [found |-> f, out |-> out] /\ f \in 0 .. l /\ out \in Seq(Byte)
    OBVIOUS
  <2>2. v.found = f /\ v.out = out /\ [v EXCEPT !.found = f + 1] = [found |-> f + 1, out |-> out]
    BY <2>1
  <2> HIDE DEF V
  <2>3. CASE f = l
    BY <1>1, <2>2, <2>3 DEF Stop
  <2>4. CASE f # l
    <3>1. PICK b : b = SubSeq(sequence, 1, f)
      OBVIOUS
    <3>2. b \in Seq(Byte)
      <4>1. \A q \in 1 .. f : sequence[q] \in Byte
        <5>1. 1 .. f \subseteq 1 .. Len(sequence)
          BY <1>1, <2>1
        <5> QED
          BY <5>1, ElementOfSeq
      <4> QED
        <5>1. 1 \in Int /\ f \in Int
          BY <2>1
        <5> QED
          BY <3>1, <4>1, <5>1, SubSeqProperties
    <3>3. PICK w : w = out \o b
      OBVIOUS
    <3>4. w \in Seq(Byte) /\ Append(w, c) \in Seq(Byte)
      BY <2>1, <3>2, <3>3, ConcatProperties, AppendProperties
    <3>5. Stop(sequence, v, c) =
            IF sequence[f + 1] = c THEN [found |-> f + 1, out |-> out]
            ELSE IF c = sequence[1] THEN [found |-> 1, out |-> w] ELSE [found |-> 0, out |-> Append(w, c)]
      BY <1>1, <2>2, <2>4, <3>1, <3>3 DEF Stop
    <3>6. f + 1 \in 0 .. l /\ 1 \in 0 .. l /\ 0 \in 0 .. l
      BY <1>1, <2>1, <2>4
    <3>7. [found |-> f + 1, out |-> out] \in V /\ [found |-> 1, out |-> w] \in V /\ [found |-> 0, out |-> Append(w, c)] \in V
      BY <2>1, <3>4, <3>6 DEF V
    <3> QED
      BY <3>5, <3>7
  <2> QED
    BY <2>3, <2>4
<1>4. \A i \in 1 .. n : data[i] \in Byte
  BY <1>1, ElementOfSeq
<1>5. step \in Steps(n, V)
  <2> HIDE DEF V
  <2> QED
    BY <1>3, <1>4 DEF Steps
<1>6. \A i \in 1 .. n : \A v \in V : step[i][v] = Stop(sequence, v, data[i])
  OBVIOUS
<1> HIDE DEF V, step
<1>7. PICK f : Iterates(f, n, V, first, step)
  BY <1>2, <1>5, Iteration
<1>8. f \in [0 .. n -> V] /\ f[0] = first /\ \A i \in 1 .. n : f[i] = Stop(sequence, f[i - 1], data[i])
  <2>1. f \in [0 .. n -> V] /\ f[0] = first /\ \A i \in 1 .. n : f[i] = step[i][f[i - 1]]
    BY <1>7 DEF Iterates
  <2>2. \A i \in 1 .. n : i - 1 \in 0 .. n
    OBVIOUS
  <2>3. \A i \in 1 .. n : f[i - 1] \in V
    BY <2>1, <2>2
  <2> HIDE DEF first
  <2> QED
    BY <1>6, <2>1, <2>3
<1> DEFINE rule(h) == h = [i \in 0 .. n |-> IF i = 0 THEN first ELSE Stop(sequence, h[i - 1], data[i])]
           after == CHOOSE h : rule(h)
<1>9. rule(f)
  <2>1. \A i \in 0 .. n : f[i] = IF i = 0 THEN first ELSE Stop(sequence, f[i - 1], data[i])
    <3>1. \A i \in 0 .. n : i = 0 \/ i \in 1 .. n
      OBVIOUS
    <3> HIDE DEF first
    <3> QED
      BY <1>8, <3>1
  <2> HIDE DEF first
  <2> QED
    BY <1>8, <2>1
<1>10. rule(after)
  <2> HIDE DEF rule
  <2> QED
    BY <1>9
<1>11. Stopped(sequence, held, data) = after[Len(data)]
  BY <1>1 DEF Stopped
<1> HIDE DEF after
<1>12. CharByChar(after, sequence, held, data)
  <2>1. \A i \in 0 .. n : after[i] = IF i = 0 THEN first ELSE Stop(sequence, after[i - 1], data[i])
    <3> HIDE DEF first
    <3> QED
      BY <1>10
  <2>2. 0 \in 0 .. n /\ \A i \in 1 .. n : i \in 0 .. n /\ i # 0
    OBVIOUS
  <2>3. after[0] = first /\ \A i \in 1 .. n : after[i] = Stop(sequence, after[i - 1], data[i])
    <3> HIDE DEF first
    <3> QED
      BY <2>1, <2>2
  <2> QED
    BY <1>1, <2>3 DEF CharByChar
<1> QED
  BY <1>11, <1>12

\* Nothing that ends after k characters of s is the sequence.
NotAt(sequence, s, k) ==
  ~(k >= Len(sequence) /\ \A q \in 1 .. Len(sequence) : s[(k - Len(sequence)) + q] = sequence[q])

\* A piece goes through a stop sequence filter.
LEMMA StoppedCuts ==
  ASSUME NEW s \in Seq(Byte), NEW sequence \in Seq(Byte), sequence # <<>>, NEW k \in Nat, NEW n \in Nat, k + n <= Len(s),
         NEW data, IsPiece(data, s, k, n), NEW held \in 0 .. Len(sequence), held <= k,
         \A q \in 1 .. held : s[(k - held) + q] = sequence[q],
         \A i \in k .. (k + n) - 1 : NotAt(sequence, s, i),
         NEW after, CharByChar(after, sequence, held, data)
  PROVE  \A i \in 0 .. n : Cut(after[i], s, k - held, k + i, sequence)
<1>1. PICK j, l \in Nat : j = k - held /\ l = Len(sequence) /\ l > 0
  <2>1. PICK l \in Nat : l = Len(sequence) /\ l > 0
    BY LenProperties, EmptySeq
  <2>2. k - held \in Nat
    BY <2>1
  <2> QED
    BY <2>1, <2>2
<1>2. data \in Seq(Byte) /\ Len(data) = n /\ \A q \in 1 .. n : data[q] = s[k + q]
  BY DEF IsPiece
<1> DEFINE S == {i \in 0 .. n : Cut(after[i], s, j, k + i, sequence)}
<1>3. 0 \in S
  <2>1. PICK r : r = [found |-> held, out |-> <<>>]
    OBVIOUS
  <2>2. r = [found |-> r.found, out |-> r.out] /\ r.found = held /\ r.out = <<>> /\ after[0] = r
    BY <2>1 DEF CharByChar
  <2>3. k + 0 = k /\ j + held <= k /\ k - held - j = 0
    BY <1>1
  <2>4. IsPiece(<<>>, s, j, 0)
    <3>1. <<>> \in Seq(Byte) /\ Len(<<>>) = 0 /\ \A q \in 1 .. 0 : <<>>[q] = s[j + q]
      OBVIOUS
    <3> QED
      BY <3>1 DEF IsPiece
  <2>5. \A q \in 1 .. held : s[(k - held) + q] = sequence[q]
    OBVIOUS
  <2>6. Cut(r, s, j, k, sequence)
    BY <1>1, <2>2, <2>3, <2>4, <2>5 DEF Cut
  <2>7. k + 0 = k /\ 0 \in 0 .. n
    OBVIOUS
  <2>8. Cut(after[0], s, j, k + 0, sequence)
    BY <2>2, <2>6, <2>7
  <2> QED
    BY <2>7, <2>8
<1>4. ASSUME NEW i \in 1 .. n, i - 1 \in S
      PROVE  i \in S
  <2>1. PICK m \in Nat : m = k + (i - 1) /\ m + 1 = k + i /\ m \in k .. (k + n) - 1 /\ m < Len(s)
    BY LenProperties
  <2>2. PICK r : r = after[i - 1]
    OBVIOUS
  <2>3. Cut(r, s, j, m, sequence)
    BY <1>4, <2>1, <2>2
  <2>4. r.found < l
    <3>1. r.found \in 0 .. l /\ j + r.found <= m /\ \A q \in 1 .. r.found : s[(m - r.found) + q] = sequence[q]
      BY <1>1, <2>3 DEF Cut
    <3>2. NotAt(sequence, s, m)
      BY <2>1
    <3>3. r.found # l
      <4>1. ASSUME r.found = l
            PROVE  FALSE
        <5>1. m >= l /\ \A q \in 1 .. l : s[(m - l) + q] = sequence[q]
          BY <1>1, <3>1, <4>1
        <5> QED
          BY <1>1, <3>2, <5>1 DEF NotAt
      <4> QED
        BY <4>1
    <3> QED
      BY <3>1, <3>3
  <2>5. data[i] = s[m + 1]
    BY <1>2, <2>1
  <2>6. after[i] = Stop(sequence, r, s[m + 1])
    <3>1. i \in 1 .. Len(data)
      BY <1>2
    <3> QED
      BY <2>2, <2>5, <3>1 DEF CharByChar
  <2>7. Cut(after[i], s, j, m + 1, sequence)
    BY <1>1, <2>1, <2>3, <2>4, <2>6, StopCuts, SMTT(60)
  <2> QED
    BY <2>1, <2>7
<1>5. 0 .. n \subseteq S
  <2> HIDE DEF S
  <2> QED
    BY <1>3, <1>4, NumberInduction
<1> QED
  BY <1>1, <1>5

-----------------------------------------------------------------------------
(* What the server sends. *)

\* What the first h characters of s are without the doubled dots.
Unstuffed(s, h) == FlattenSeq([i \in 1 .. h |-> Whole("dot input", s, i)])

\* A dot is dropped after a dot after LF.
LEMMA WholeIn ==
  ASSUME NEW s \in Seq(Byte), NEW i \in 1 .. Len(s)
  PROVE  /\ Whole("dot input", s, i) \in Seq(Byte)
         /\ Whole("dot input", s, i) =
              IF s[i] = DOT /\ i > 2 /\ s[i - 1] = DOT /\ s[i - 2] = LF THEN <<>> ELSE <<s[i]>>
<1>1. PICK l \in Nat : l = Len(s) /\ DOMAIN s = 1 .. l
  BY LenProperties
<1>2. Whole("dot input", s, i) =
        IF s[i] = DOT /\ (i - 1 \in 1 .. l /\ s[i - 1] = DOT) /\ (i - 2 \in 1 .. l /\ s[i - 2] = LF) THEN <<>> ELSE <<s[i]>>
  BY <1>1 DEF Whole
<1>3. (i - 1 \in 1 .. l /\ i - 2 \in 1 .. l) <=> i > 2
  BY <1>1
<1>4. "dot input" \in Filters
  BY DEF Filters
<1> QED
  BY <1>2, <1>3, <1>4, WholeIsText

\* Some characters more.
LEMMA UnstuffedGrows ==
  ASSUME NEW s \in Seq(Byte), NEW h \in Nat, NEW m \in Nat, h + m <= Len(s)
  PROVE  /\ Unstuffed(s, h) \in Seq(Byte)
         /\ FlattenSeq([i \in 1 .. m |-> Whole("dot input", s, h + i)]) \in Seq(Byte)
         /\ Unstuffed(s, h + m) = Unstuffed(s, h) \o FlattenSeq([i \in 1 .. m |-> Whole("dot input", s, h + i)])
<1>1. PICK a, b, c : /\ a = [i \in 1 .. h |-> Whole("dot input", s, i)]
                     /\ b = [i \in 1 .. m |-> Whole("dot input", s, h + i)]
                     /\ c = [i \in 1 .. h + m |-> Whole("dot input", s, i)]
  OBVIOUS
<1>2. PICK l \in Nat : l = Len(s) /\ h + m <= l
  BY LenProperties
<1>3. \A i \in 1 .. h : i \in 1 .. h + m
  OBVIOUS
<1>4. \A i \in 1 .. m : h + i \in 1 .. h + m
  OBVIOUS
<1>5. ASSUME NEW i \in 1 .. h + m
      PROVE  Whole("dot input", s, i) \in Seq(Byte)
  <2>1. i \in 1 .. Len(s)
    BY <1>2
  <2> QED
    BY <2>1, WholeIn
<1>6. a \in [1 .. h -> Seq(Byte)]
  BY <1>1, <1>3, <1>5
<1>7. b \in [1 .. m -> Seq(Byte)]
  BY <1>1, <1>4, <1>5
<1>8. c \in [1 .. h + m -> Seq(Byte)]
  BY <1>1, <1>5
<1>9. \A i \in 1 .. h : c[i] = a[i]
  BY <1>1, <1>3
<1>10. \A i \in 1 .. m : c[h + i] = b[i]
  BY <1>1, <1>4
<1>11. Together(Byte, a, h, b, m, c)
  BY <1>6, <1>7, <1>8, <1>9, <1>10 DEF Together
<1>12. FlattenSeq(a) \in Seq(Byte) /\ FlattenSeq(b) \in Seq(Byte) /\ FlattenSeq(c) = FlattenSeq(a) \o FlattenSeq(b)
  BY <1>11, FlattenTwo
<1> QED
  BY <1>1, <1>12 DEF Unstuffed

\* One more.
LEMMA UnstuffedOne ==
  ASSUME NEW s \in Seq(Byte), NEW h \in Nat, h + 1 <= Len(s)
  PROVE  Unstuffed(s, h) \in Seq(Byte) /\ Unstuffed(s, h + 1) = Unstuffed(s, h) \o Whole("dot input", s, h + 1)
<1>1. PICK b : b = [i \in 1 .. 1 |-> Whole("dot input", s, h + i)]
  OBVIOUS
<1>2. Unstuffed(s, h) \in Seq(Byte) /\ Unstuffed(s, h + 1) = Unstuffed(s, h) \o FlattenSeq(b)
  BY <1>1, UnstuffedGrows
<1>3. h + 1 \in 1 .. Len(s)
  BY LenProperties
<1>4. PICK x \in Seq(Byte) : x = Whole("dot input", s, h + 1)
  BY <1>3, WholeIn
<1>5. b = <<x>>
  <2>1. ASSUME NEW i \in 1 .. 1
        PROVE  Whole("dot input", s, h + i) = x
    <3>1. i = 1
      OBVIOUS
    <3> QED
      BY <1>4, <3>1
  <2>2. b = [i \in 1 .. 1 |-> x]
    BY <1>1, <2>1
  <2> QED
    BY <2>2
<1>6. FlattenSeq(b) = x
  BY <1>5, FlattenOne
<1> QED
  BY <1>2, <1>4, <1>6

\* It depends on nothing that comes later.
LEMMA UnstuffedSame ==
  ASSUME NEW s \in Seq(Byte), NEW t \in Seq(Byte), NEW h \in Nat, h <= Len(s), h <= Len(t), \A i \in 1 .. h : s[i] = t[i]
  PROVE  Unstuffed(s, h) = Unstuffed(t, h)
<1>1. ASSUME NEW i \in 1 .. h
      PROVE  Whole("dot input", s, i) = Whole("dot input", t, i)
  <2>1. i \in 1 .. Len(s) /\ i \in 1 .. Len(t)
    BY LenProperties
  <2>2. s[i] = t[i]
    OBVIOUS
  <2>3. i > 2 => i - 1 \in 1 .. h /\ i - 2 \in 1 .. h
    OBVIOUS
  <2>4. i > 2 => s[i - 1] = t[i - 1] /\ s[i - 2] = t[i - 2]
    BY <2>3
  <2> QED
    BY <2>1, <2>2, <2>4, WholeIn
<1>2. [i \in 1 .. h |-> Whole("dot input", s, i)] = [i \in 1 .. h |-> Whole("dot input", t, i)]
  BY <1>1
<1> QED
  BY <1>2 DEF Unstuffed

\* After LF a dot comes with another.
Doubled(u) == \A i \in 1 .. Len(u) - 1 : u[i] = LF /\ u[i + 1] = DOT => i + 2 <= Len(u) /\ u[i + 2] = DOT

\* u is what goes over the wire for the first k characters of s.
Wired(u, k, s) ==
  /\ u \in Seq(Byte) /\ (k = 0 => Len(u) = 0)
  /\ k > 0 => Len(u) > 0 /\ u[Len(u)] = s[k]
  /\ Doubled(u)
  /\ Begins(Unstuffed(u, Len(u)), k, s)

\* One more, and what came before.
IsOneMore(w, u, c) ==
  /\ u \in Seq(Byte) /\ w \in Seq(Byte) /\ c \in Byte
  /\ Len(w) = Len(u) + 1 /\ w[Len(w)] = c /\ \A i \in 1 .. Len(u) : w[i] = u[i]

\* So it is when a character is put at the end.
LEMMA OneMore ==
  ASSUME NEW u \in Seq(Byte), NEW c \in Byte
  PROVE  IsOneMore(u \o <<c>>, u, c)
<1>1. PICK n \in Nat : n = Len(u)
  BY LenProperties
<1>2. PICK d, w : d = <<c>> /\ w = u \o d
  OBVIOUS
<1>3. d \in Seq(Byte) /\ Len(d) = 1 /\ d[1] = c
  BY <1>2
<1>4. w \in Seq(Byte) /\ Len(w) = n + 1 /\ \A i \in 1 .. n + 1 : w[i] = IF i <= n THEN u[i] ELSE d[i - n]
  BY <1>1, <1>2, <1>3, ConcatProperties
<1>5. n + 1 \in 1 .. n + 1 /\ ~(n + 1 <= n) /\ (n + 1) - n = 1
  BY <1>1
<1>6. w[n + 1] = c
  BY <1>3, <1>4, <1>5
<1>7. \A i \in 1 .. n : i \in 1 .. n + 1 /\ i <= n
  BY <1>1
<1> QED
  BY <1>1, <1>2, <1>4, <1>6, <1>7 DEF IsOneMore

\* What begins s goes on as s does.
LEMMA BeginsMore ==
  ASSUME NEW s, NEW k \in Nat, NEW v, Begins(v, k, s), k + 1 <= Len(s)
  PROVE  Begins(v \o <<s[k + 1]>>, k + 1, s)
<1>1. s \in Seq(Byte) /\ v \in Seq(Byte) /\ k = Len(v) /\ \A i \in 1 .. k : v[i] = s[i]
  BY DEF Begins
<1>2. PICK c \in Byte : c = s[k + 1]
  <2>1. k + 1 \in 1 .. Len(s)
    BY <1>1, LenProperties
  <2> QED
    BY <1>1, <2>1, ElementOfSeq
<1>3. PICK w : w = v \o <<c>>
  OBVIOUS
<1>4. w \in Seq(Byte) /\ Len(w) = k + 1 /\ w[k + 1] = c /\ \A i \in 1 .. k : w[i] = v[i]
  BY <1>1, <1>2, <1>3, OneMore DEF IsOneMore
<1>5. ASSUME NEW i \in 1 .. k + 1
      PROVE  w[i] = s[i]
  <2>1. i \in 1 .. k \/ i = k + 1
    OBVIOUS
  <2> QED
    BY <1>1, <1>2, <1>4, <2>1
<1> QED
  BY <1>1, <1>2, <1>3, <1>4, <1>5 DEF Begins

\* A character that goes over the wire once.
LEMMA WiredOnce ==
  ASSUME NEW s \in Seq(Byte), NEW k \in Nat, k + 1 <= Len(s), NEW u, Wired(u, k, s),
         ~(s[k + 1] = DOT /\ k > 0 /\ s[k] = LF)
  PROVE  Wired(u \o <<s[k + 1]>>, k + 1, s)
<1>1. /\ u \in Seq(Byte) /\ (k = 0 => Len(u) = 0) /\ (k > 0 => Len(u) > 0 /\ u[Len(u)] = s[k])
      /\ Doubled(u) /\ Begins(Unstuffed(u, Len(u)), k, s)
  BY DEF Wired
<1>2. PICK c \in Byte : c = s[k + 1]
  <2>1. k + 1 \in 1 .. Len(s)
    BY LenProperties
  <2> QED
    BY <2>1, ElementOfSeq
<1>3. PICK w : w = u \o <<c>>
  OBVIOUS
<1>4. PICK n \in Nat : n = Len(u)
  BY <1>1, LenProperties
<1>5. w \in Seq(Byte) /\ Len(w) = n + 1 /\ w[n + 1] = c /\ \A i \in 1 .. n : w[i] = u[i]
  BY <1>1, <1>2, <1>3, <1>4, OneMore DEF IsOneMore
<1>6. n > 0 /\ u[n] = LF => c # DOT
  BY <1>1, <1>2, <1>4
<1>7. Doubled(w)
  <2>1. SUFFICES ASSUME NEW i \in 1 .. n, w[i] = LF, w[i + 1] = DOT
                 PROVE  i + 2 <= n + 1 /\ w[i + 2] = DOT
    BY <1>4, <1>5 DEF Doubled
  <2>2. CASE i = n
    BY <1>4, <1>5, <1>6, <2>1, <2>2
  <2>3. CASE i # n
    <3>1. i \in 1 .. n - 1 /\ i + 1 \in 1 .. n /\ i \in 1 .. n
      BY <1>4, <2>3
    <3>2. u[i] = LF /\ u[i + 1] = DOT
      BY <1>5, <2>1, <3>1
    <3>3. i + 2 <= n /\ u[i + 2] = DOT
      BY <1>1, <1>4, <3>1, <3>2 DEF Doubled
    <3>4. i + 2 \in 1 .. n /\ i + 2 <= n + 1
      BY <3>1, <3>3
    <3> QED
      BY <1>5, <3>3, <3>4
  <2> QED
    BY <2>2, <2>3
<1>8. Whole("dot input", w, n + 1) = <<c>>
  <2>1. n + 1 \in 1 .. Len(w)
    BY <1>4, <1>5
  <2>2. ~(c = DOT /\ n + 1 > 2 /\ w[(n + 1) - 1] = DOT /\ w[(n + 1) - 2] = LF)
    <3>1. SUFFICES ASSUME n + 1 > 2, w[(n + 1) - 1] = DOT, w[(n + 1) - 2] = LF
                   PROVE  FALSE
      OBVIOUS
    <3>2. PICK i : i = n - 1 /\ i \in 1 .. n - 1 /\ i + 1 = n /\ (n + 1) - 1 = n /\ (n + 1) - 2 = i /\ i + 1 \in 1 .. n /\ i \in 1 .. n
      BY <1>4, <3>1
    <3>3. u[i] = LF /\ u[i + 1] = DOT
      BY <1>5, <3>1, <3>2
    <3>4. i + 2 <= n
      BY <1>1, <1>4, <3>2, <3>3 DEF Doubled
    <3> QED
      BY <1>4, <3>2, <3>4
  <2> QED
    BY <1>5, <2>1, <2>2, WholeIn
<1>9. Unstuffed(w, n + 1) = Unstuffed(u, n) \o <<c>>
  <2>1. Unstuffed(w, n + 1) = Unstuffed(w, n) \o <<c>>
    <3>1. n + 1 <= Len(w)
      BY <1>4, <1>5
    <3> QED
      BY <1>4, <1>5, <1>8, <3>1, UnstuffedOne
  <2>2. Unstuffed(w, n) = Unstuffed(u, n)
    <3>1. n <= Len(w) /\ n <= Len(u)
      BY <1>4, <1>5
    <3> QED
      BY <1>1, <1>4, <1>5, <3>1, UnstuffedSame
  <2> QED
    BY <2>1, <2>2
<1>10. Begins(Unstuffed(w, n + 1), k + 1, s)
  BY <1>1, <1>2, <1>4, <1>9, BeginsMore
<1>11. Len(w) > 0 /\ w[Len(w)] = s[k + 1] /\ k + 1 # 0
  BY <1>2, <1>4, <1>5
<1> QED
  BY <1>2, <1>3, <1>5, <1>7, <1>10, <1>11 DEF Wired

\* What comes after two may as well come after the second.
LEMMA Associative ==
  ASSUME NEW x \in Seq(Byte), NEW y \in Seq(Byte), NEW z \in Seq(Byte)
  PROVE  (x \o y) \o z = x \o (y \o z)
BY ConcatAssociative

\* Two characters, one by one.
LEMMA TwoMore ==
  ASSUME NEW u \in Seq(Byte), NEW c \in Byte, NEW d \in Byte
  PROVE  (u \o <<c>>) \o <<d>> = u \o <<c, d>>
<1>1. PICK x, y, z \in Seq(Byte) : x = u /\ y = <<c>> /\ z = <<d>>
  <2>1. PICK a, b : a = <<c>> /\ b = <<d>>
    OBVIOUS
  <2>2. a \in Seq(Byte) /\ b \in Seq(Byte)
    BY <2>1
  <2> QED
    BY <2>1, <2>2
<1>2. (x \o y) \o z = x \o (y \o z)
  BY Associative
<1>3. y \o z = <<c, d>>
  <2>1. y \in Seq(Byte) /\ z \in Seq(Byte) /\ Len(y) = 1 /\ Len(z) = 1 /\ y[1] = c /\ z[1] = d
    BY <1>1
  <2>2. PICK e, t : e = y \o z /\ t = <<c, d>>
    OBVIOUS
  <2>3. e \in Seq(Byte) /\ Len(e) = 1 + 1 /\ \A i \in 1 .. 1 + 1 : e[i] = IF i <= 1 THEN y[i] ELSE z[i - 1]
    <3>1. /\ y \o z \in Seq(Byte) /\ Len(y \o z) = Len(y) + Len(z)
          /\ \A i \in 1 .. Len(y) + Len(z) : (y \o z)[i] = IF i <= Len(y) THEN y[i] ELSE z[i - Len(y)]
      BY ConcatProperties
    <3> QED
      BY <2>1, <2>2, <3>1
  <2>4. t \in Seq(Byte) /\ Len(t) = 2 /\ t[1] = c /\ t[2] = d
    BY <2>2
  <2>5. e[1] = c /\ e[2] = d
    <3>1. 1 \in 1 .. 1 + 1 /\ 2 \in 1 .. 1 + 1 /\ 1 <= 1 /\ ~(2 <= 1) /\ 2 - 1 = 1
      OBVIOUS
    <3> QED
      BY <2>1, <2>3, <3>1
  <2>6. \A i \in 1 .. 2 : e[i] = t[i]
    <3>1. \A i \in 1 .. 2 : i = 1 \/ i = 2
      OBVIOUS
    <3> QED
      BY <2>4, <2>5, <3>1
  <2>7. Len(e) = Len(t)
    BY <2>3, <2>4
  <2> QED
    BY <2>2, <2>3, <2>4, <2>6, <2>7, SeqEqual
<1> QED
  BY <1>1, <1>2, <1>3

\* A dot after LF goes over it twice.
LEMMA WiredTwice ==
  ASSUME NEW s \in Seq(Byte), NEW k \in Nat, k + 1 <= Len(s), NEW u, Wired(u, k, s),
         s[k + 1] = DOT, k > 0, s[k] = LF
  PROVE  Wired(u \o <<DOT, DOT>>, k + 1, s)
<1>1. u \in Seq(Byte) /\ Len(u) > 0 /\ u[Len(u)] = LF /\ Doubled(u) /\ Begins(Unstuffed(u, Len(u)), k, s)
  BY DEF Wired
<1>2. DOT \in Byte /\ DOT # LF
  BY DEF DOT, LF, Byte
<1>3. PICK n \in Nat : n = Len(u) /\ n > 0
  BY <1>1, LenProperties
<1>4. PICK v : v = u \o <<DOT>>
  OBVIOUS
<1>5. v \in Seq(Byte) /\ Len(v) = n + 1 /\ v[n + 1] = DOT /\ \A i \in 1 .. n : v[i] = u[i]
  BY <1>1, <1>2, <1>3, <1>4, OneMore DEF IsOneMore
<1>6. PICK w : w = v \o <<DOT>>
  OBVIOUS
<1>7. w \in Seq(Byte) /\ Len(w) = (n + 1) + 1 /\ w[(n + 1) + 1] = DOT /\ \A i \in 1 .. n + 1 : w[i] = v[i]
  BY <1>2, <1>5, <1>6, OneMore DEF IsOneMore
<1>8. w = u \o <<DOT, DOT>>
  BY <1>1, <1>2, <1>4, <1>6, TwoMore
<1>9. \A i \in 1 .. n : i \in 1 .. n + 1 /\ w[i] = u[i]
  <2>1. \A i \in 1 .. n : i \in 1 .. n + 1
    BY <1>3
  <2> QED
    BY <1>5, <1>7, <2>1
<1>10. w[n] = LF /\ w[n + 1] = DOT /\ w[n + 2] = DOT /\ Len(w) = n + 2
  <2>1. n \in 1 .. n /\ n + 1 \in 1 .. n + 1 /\ (n + 1) + 1 = n + 2
    BY <1>3
  <2> QED
    BY <1>1, <1>3, <1>5, <1>7, <1>9, <2>1
<1>11. Doubled(w)
  <2>1. SUFFICES ASSUME NEW i \in 1 .. n + 1, w[i] = LF, w[i + 1] = DOT
                 PROVE  i + 2 <= n + 2 /\ w[i + 2] = DOT
    <3>1. Len(w) - 1 = n + 1
      BY <1>3, <1>10
    <3> QED
      BY <1>10, <2>1, <3>1 DEF Doubled
  <2>2. CASE i = n + 1
    BY <1>2, <1>10, <2>1, <2>2
  <2>3. CASE i = n
    BY <1>3, <1>10, <2>3
  <2>4. CASE i < n
    <3>1. i \in 1 .. n - 1 /\ i + 1 \in 1 .. n /\ i \in 1 .. n
      BY <1>3, <2>4
    <3>2. u[i] = LF /\ u[i + 1] = DOT
      BY <1>9, <2>1, <3>1
    <3>3. i + 2 <= n /\ u[i + 2] = DOT
      BY <1>1, <1>3, <3>1, <3>2 DEF Doubled
    <3>4. i + 2 \in 1 .. n /\ i + 2 <= n + 2
      BY <3>1, <3>3
    <3> QED
      BY <1>9, <3>3, <3>4
  <2> QED
    BY <1>3, <2>2, <2>3, <2>4
<1>12. Whole("dot input", w, n + 1) = <<DOT>> /\ Whole("dot input", w, n + 2) = <<>>
  <2>1. n + 1 \in 1 .. Len(w) /\ n + 2 \in 1 .. Len(w)
    BY <1>3, <1>10
  <2>2. (n + 1) - 1 = n /\ (n + 2) - 1 = n + 1 /\ (n + 2) - 2 = n /\ n + 2 > 2
    BY <1>3
  <2>3. w[(n + 1) - 1] # DOT /\ w[(n + 2) - 1] = DOT /\ w[(n + 2) - 2] = LF
    BY <1>2, <1>10, <2>2
  <2> QED
    BY <1>7, <1>10, <2>1, <2>2, <2>3, WholeIn
<1>13. Unstuffed(w, n + 2) = Unstuffed(u, n) \o <<DOT>>
  <2>1. Unstuffed(w, n + 1) \in Seq(Byte) /\ Unstuffed(w, n + 2) = Unstuffed(w, n + 1) \o <<>>
    <3>1. (n + 1) + 1 = n + 2 /\ (n + 1) + 1 <= Len(w) /\ n + 1 \in Nat
      BY <1>3, <1>10
    <3>2. Unstuffed(w, n + 1) \in Seq(Byte) /\ Unstuffed(w, (n + 1) + 1) = Unstuffed(w, n + 1) \o Whole("dot input", w, (n + 1) + 1)
      BY <1>7, <3>1, UnstuffedOne
    <3> QED
      BY <1>12, <3>1, <3>2
  <2>2. Unstuffed(w, n + 1) = Unstuffed(w, n) \o <<DOT>>
    <3>1. n + 1 <= Len(w)
      BY <1>3, <1>10
    <3> QED
      BY <1>3, <1>7, <1>12, <3>1, UnstuffedOne
  <2>3. Unstuffed(w, n) = Unstuffed(u, n)
    <3>1. n <= Len(w) /\ n <= Len(u)
      BY <1>3, <1>10
    <3> QED
      BY <1>1, <1>3, <1>7, <1>9, <3>1, UnstuffedSame
  <2> QED
    BY <2>1, <2>2, <2>3, ConcatEmptySeq
<1>14. Begins(Unstuffed(w, n + 2), k + 1, s)
  BY <1>1, <1>3, <1>13, BeginsMore
<1>15. Len(w) > 0 /\ w[Len(w)] = s[k + 1] /\ k + 1 # 0
  BY <1>3, <1>10
<1> QED
  BY <1>7, <1>8, <1>10, <1>11, <1>14, <1>15 DEF Wired

\* The lines of a message end in CR LF.
LEMMA LinesEnd ==
  ASSUME NEW message \in Messages
  PROVE  /\ Lines(message) \in Seq(Byte)
         /\ \/ Len(Lines(message)) = 0
            \/ /\ Len(Lines(message)) >= 2
               /\ Lines(message)[Len(Lines(message)) - 1] = CR /\ Lines(message)[Len(Lines(message))] = LF
<1>1. CR \in Byte /\ LF \in Byte
  BY DEF CR, LF, Byte
<1>2. message \in Seq(Seq(Byte))
  BY MessagesAssumption
<1>3. PICK n \in Nat : n = Len(message) /\ DOMAIN message = 1 .. n
  BY <1>2, LenProperties
<1> DEFINE D == [i \in DOMAIN message |-> message[i] \o CRLF]
<1>4. CRLF \in Seq(Byte)
  BY <1>1 DEF CRLF
<1>5. ASSUME NEW i \in 1 .. n
      PROVE  message[i] \in Seq(Byte) /\ D[i] = message[i] \o CRLF /\ D[i] \in Seq(Byte)
  <2>1. message[i] \in Seq(Byte)
    BY <1>2, <1>3, ElementOfSeq
  <2>2. message[i] \o CRLF \in Seq(Byte)
    BY <1>4, <2>1, ConcatProperties
  <2> QED
    BY <1>3, <2>1, <2>2
<1>6. D \in [1 .. n -> Seq(Byte)]
  BY <1>3, <1>5
<1>7. Lines(message) = FlattenSeq(D)
  BY DEF Lines
<1> HIDE DEF D
<1>8. PICK f : Joins(f, D, n, Byte) /\ FlattenSeq(D) = f[n]
  BY <1>6, FlattenJoins
<1>9. f \in [0 .. n -> Seq(Byte)] /\ f[0] = <<>> /\ \A i \in 1 .. n : f[i] = f[i - 1] \o D[i]
  BY <1>8 DEF Joins
<1>10. CASE n = 0
  <2>1. Lines(message) = <<>>
    BY <1>7, <1>8, <1>9, <1>10
  <2> QED
    BY <2>1
<1>11. CASE n # 0
  <2>1. n \in 1 .. n /\ n - 1 \in 0 .. n
    BY <1>11
  <2>2. PICK x, y, z \in Seq(Byte) : x = f[n - 1] /\ y = message[n] /\ z = CRLF
    BY <1>4, <1>5, <1>9, <2>1
  <2>3. f[n] = x \o (y \o z)
    BY <1>5, <1>9, <2>1, <2>2
  <2>4. x \o (y \o z) = (x \o y) \o z
    BY ConcatAssociative
  <2>5. PICK v \in Seq(Byte) : v = x \o y
    BY ConcatProperties
  <2>6. v \o CRLF = (v \o <<CR>>) \o <<LF>>
    BY <1>1, TwoMore DEF CRLF
  <2>7. PICK w \in Seq(Byte) : w = v \o <<CR>>
    BY <1>1, OneMore DEF IsOneMore
  <2>8. PICK t \in Seq(Byte) : t = w \o <<LF>>
    BY <1>1, OneMore DEF IsOneMore
  <2>9. PICK k \in Nat : k = Len(v)
    BY LenProperties
  <2>10. Len(w) = k + 1 /\ w[k + 1] = CR
    BY <1>1, <2>7, <2>9, OneMore DEF IsOneMore
  <2>11. Len(t) = (k + 1) + 1 /\ t[(k + 1) + 1] = LF /\ \A i \in 1 .. k + 1 : t[i] = w[i]
    BY <1>1, <2>8, <2>10, OneMore DEF IsOneMore
  <2>12. Len(t) = k + 2 /\ t[k + 2] = LF /\ t[k + 1] = CR
    <3>1. (k + 1) + 1 = k + 2 /\ k + 1 \in 1 .. k + 1
      OBVIOUS
    <3> QED
      BY <2>10, <2>11, <3>1
  <2>13. Lines(message) = t
    BY <1>7, <1>8, <2>2, <2>3, <2>4, <2>5, <2>6, <2>7, <2>8
  <2>14. k + 2 >= 2 /\ (k + 2) - 1 = k + 1
    OBVIOUS
  <2> QED
    BY <2>12, <2>13, <2>14
<1> QED
  BY <1>10, <1>11

\* s is an answer to RETR: what it says first, and the lines.
IsAnswer(s, lines) ==
  /\ s \in Seq(Byte) /\ lines \in Seq(Byte) /\ Len(s) = 3 + Len(lines)
  /\ s[1] = OK /\ s[2] = CR /\ s[3] = LF
  /\ s[Len(s) - 1] = CR /\ s[Len(s)] = LF
  /\ \A i \in 1 .. Len(lines) : s[3 + i] = lines[i]

\* The answer is one.
LEMMA AnswerIs ==
  ASSUME NEW message \in Messages
  PROVE  IsAnswer(Answer(message), Lines(message))
<1>1. PICK lines \in Seq(Byte) : lines = Lines(message)
  BY LinesEnd
<1>2. PICK m \in Nat : m = Len(lines)
  BY LenProperties
<1>3. PICK head : head = <<OK, CR, LF>>
  OBVIOUS
<1>4. head \in Seq(Byte) /\ Len(head) = 3 /\ head[1] = OK /\ head[2] = CR /\ head[3] = LF
  <2>1. OK \in Byte /\ CR \in Byte /\ LF \in Byte
    BY DEF OK, CR, LF, Byte
  <2> QED
    BY <1>3, <2>1
<1>5. PICK s : s = head \o lines
  OBVIOUS
<1>6. s \in Seq(Byte) /\ Len(s) = 3 + m /\ \A i \in 1 .. 3 + m : s[i] = IF i <= 3 THEN head[i] ELSE lines[i - 3]
  <2>1. head \in Seq(Byte)
    BY <1>4
  <2>2. /\ head \o lines \in Seq(Byte) /\ Len(head \o lines) = Len(head) + Len(lines)
        /\ \A i \in 1 .. Len(head) + Len(lines) : (head \o lines)[i] = IF i <= Len(head) THEN head[i] ELSE lines[i - Len(head)]
    BY <2>1, ConcatProperties
  <2> QED
    BY <1>2, <1>4, <1>5, <2>2
<1>7. s[1] = OK /\ s[2] = CR /\ s[3] = LF
  <2>1. 1 \in 1 .. 3 + m /\ 2 \in 1 .. 3 + m /\ 3 \in 1 .. 3 + m
    BY <1>2
  <2> QED
    BY <1>4, <1>6, <2>1
<1>8. ASSUME NEW i \in 1 .. m
      PROVE  s[3 + i] = lines[i]
  <2>1. 3 + i \in 1 .. 3 + m /\ ~(3 + i <= 3) /\ (3 + i) - 3 = i
    BY <1>2
  <2> QED
    BY <1>6, <2>1
<1>9. s[(3 + m) - 1] = CR /\ s[3 + m] = LF
  <2>1. CASE m = 0
    <3>1. (3 + m) - 1 = 2 /\ 3 + m = 3
      BY <2>1
    <3> QED
      BY <1>7, <3>1
  <2>2. CASE m # 0
    <3>1. m >= 2 /\ lines[m - 1] = CR /\ lines[m] = LF
      BY <1>1, <1>2, <2>2, LinesEnd
    <3>2. m \in 1 .. m /\ m - 1 \in 1 .. m /\ 3 + (m - 1) = (3 + m) - 1
      BY <1>2, <3>1
    <3> QED
      BY <1>8, <3>1, <3>2
  <2> QED
    BY <2>1, <2>2
<1>10. Answer(message) = s
  BY <1>1, <1>3, <1>5 DEF Answer
<1> QED
  BY <1>1, <1>2, <1>6, <1>7, <1>8, <1>9, <1>10 DEF IsAnswer

\* f[k] is what goes over the wire of the first k characters of s.
WireOf(f, s) ==
  f \in [0 .. Len(s) -> Seq(Byte)] /\ f[0] = <<>> /\ \A k \in 1 .. Len(s) : f[k] = f[k - 1] \o Whole("dot output", s, k)

\* It is what the server would have sent of the beginnings of s.
LEMMA AllWired ==
  ASSUME NEW s, NEW lines, IsAnswer(s, lines), NEW f, WireOf(f, s)
  PROVE  \A k \in 0 .. Len(s) : Wired(f[k], k, s)
<1>1. PICK n \in Nat : n = Len(s) /\ DOMAIN s = 1 .. n
  BY LenProperties DEF IsAnswer
<1>2. s \in Seq(Byte) /\ s[1] = OK /\ OK # DOT
  BY DEF IsAnswer, OK, DOT
<1>3. f \in [0 .. n -> Seq(Byte)] /\ f[0] = <<>> /\ \A k \in 1 .. n : f[k] = f[k - 1] \o Whole("dot output", s, k)
  BY <1>1 DEF WireOf
<1> DEFINE S == {k \in 0 .. n : Wired(f[k], k, s)}
<1>4. 0 \in S
  <2>1. <<>> \in Seq(Byte) /\ Len(<<>>) = 0
    OBVIOUS
  <2>2. Doubled(<<>>)
    BY DEF Doubled
  <2>3. Unstuffed(<<>>, 0) = <<>>
    <3>1. [i \in 1 .. 0 |-> Whole("dot input", <<>>, i)] = <<>>
      OBVIOUS
    <3>2. FlattenSeq(<<>>) = <<>>
      BY <2>1, FlattenOne
    <3> QED
      BY <3>1, <3>2 DEF Unstuffed
  <2>4. Begins(<<>>, 0, s)
    BY <1>2, <2>1 DEF Begins
  <2>5. Wired(<<>>, 0, s)
    BY <2>1, <2>2, <2>3, <2>4 DEF Wired
  <2>6. f[0] = <<>>
    BY <1>3
  <2>7. Wired(f[0], 0, s) /\ 0 \in 0 .. n
    BY <2>5, <2>6
  <2> QED
    BY <2>7
<1>5. ASSUME NEW k \in 1 .. n, k - 1 \in S
      PROVE  k \in S
  <2>1. PICK h \in Nat : h = k - 1 /\ h + 1 = k /\ h + 1 <= Len(s) /\ (h > 0 => h \in 1 .. n)
    BY <1>1
  <2>2. Wired(f[h], h, s)
    BY <1>5, <2>1
  <2>3. Whole("dot output", s, k) = IF s[k] = DOT /\ h > 0 /\ s[h] = LF THEN <<DOT, DOT>> ELSE <<s[k]>>
    <3>1. h = 0 => k = 1
      BY <2>1
    <3>2. h = 0 => s[k] # DOT
      BY <1>2, <3>1
    <3>3. h > 0 <=> h \in 1 .. n
      BY <2>1
    <3>4. k = 1 => h = 0
      BY <2>1
    <3>5. k \in 1 .. n /\ k - 1 = h /\ (h = 0 <=> ~(h > 0))
      BY <2>1
    <3> QED
      BY <1>1, <3>2, <3>3, <3>4, <3>5 DEF Whole
  <2>4. Wired(f[k], k, s)
    <3>1. f[k] = f[h] \o Whole("dot output", s, k)
      BY <1>3, <2>1
    <3>2. CASE s[k] = DOT /\ h > 0 /\ s[h] = LF
      <4>1. f[k] = f[h] \o <<DOT, DOT>>
        BY <2>3, <3>1, <3>2
      <4> QED
        BY <1>2, <2>1, <2>2, <3>2, <4>1, WiredTwice
    <3>3. CASE ~(s[k] = DOT /\ h > 0 /\ s[h] = LF)
      <4>1. f[k] = f[h] \o <<s[k]>>
        BY <2>3, <3>1, <3>3
      <4> QED
        BY <1>2, <2>1, <2>2, <3>3, <4>1, WiredOnce
    <3> QED
      BY <3>2, <3>3
  <2> QED
    BY <2>4
<1>6. 0 .. n \subseteq S
  <2> HIDE DEF S
  <2> QED
    BY <1>4, <1>5, NumberInduction
<1> QED
  BY <1>1, <1>6

\* t is what the server sends for the answer s: m characters, CR LF, and the
\* end mark.  A dot after LF comes with another or is that of the mark.
Sent(t, m, s) ==
  /\ s \in Seq(Byte) /\ t \in Seq(Byte) /\ m \in Nat /\ Len(t) = m + 5
  /\ t[m + 1] = CR /\ t[m + 2] = LF /\ t[m + 3] = DOT /\ t[m + 4] = CR /\ t[m + 5] = LF
  /\ \A i \in 1 .. m + 3 : t[i] = LF /\ t[i + 1] = DOT => t[i + 2] = DOT \/ i = m + 2
  /\ Begins(Unstuffed(t, m), Len(s) - 2, s)

\* It sends that.
LEMMA WireIs ==
  ASSUME NEW message \in Messages
  PROVE  \E m : Sent(Wire(message, TRUE), m, Answer(message))
<1>1. PICK s, lines : s = Answer(message) /\ lines = Lines(message)
  OBVIOUS
<1>2. IsAnswer(s, lines)
  BY <1>1, AnswerIs
<1>3. s \in Seq(Byte)
  BY <1>2 DEF IsAnswer
<1>4. PICK n \in Nat : n = Len(s) /\ DOMAIN s = 1 .. n /\ n >= 3 /\ s[n - 1] = CR /\ s[n] = LF
  <2>1. PICK k \in Nat : k = Len(lines)
    BY <1>2, LenProperties DEF IsAnswer
  <2>2. Len(s) = 3 + k /\ s[Len(s) - 1] = CR /\ s[Len(s)] = LF
    BY <1>2, <2>1 DEF IsAnswer
  <2>3. PICK n \in Nat : n = 3 + k
    BY <2>1
  <2>4. n = Len(s) /\ n >= 3
    BY <2>1, <2>2, <2>3
  <2> QED
    BY <1>3, <2>2, <2>4, LenProperties
<1>5. PICK D : D = [i \in DOMAIN s |-> Whole("dot output", s, i)]
  OBVIOUS
<1>6. D \in [1 .. n -> Seq(Byte)]
  <2>1. \A i \in 1 .. n : Whole("dot output", s, i) \in Seq(Byte)
    BY <1>3, <1>4, WholeIsText DEF Filters
  <2> QED
    BY <1>4, <1>5, <2>1
<1>7. PICK f : Joins(f, D, n, Byte) /\ FlattenSeq(D) = f[n]
  BY <1>6, FlattenJoins
<1>8. WireOf(f, s)
  BY <1>4, <1>5, <1>7 DEF Joins, WireOf
<1>9. Wired(f[n - 2], n - 2, s) /\ Wired(f[n], n, s)
  <2>1. n - 2 \in 0 .. n /\ n \in 0 .. n
    BY <1>4
  <2> QED
    BY <1>2, <1>4, <1>8, <2>1, AllWired
<1>10. PICK u, w : u = f[n - 2] /\ w = f[n]
  OBVIOUS
<1>11. CR \in Byte /\ LF \in Byte /\ DOT \in Byte /\ CR # DOT /\ LF # DOT
  BY DEF CR, LF, DOT, Byte
<1>12. PICK v : v = u \o <<CR>>
  OBVIOUS
<1>13. w = v \o <<LF>>
  <2>1. n \in 1 .. n /\ n - 1 \in 1 .. n /\ (n - 1) - 1 = n - 2
    BY <1>4
  <2>2. Whole("dot output", s, n) = <<LF>> /\ Whole("dot output", s, n - 1) = <<CR>>
    BY <1>4, <1>11, <2>1 DEF Whole
  <2>3. \A k \in 1 .. n : f[k] = f[k - 1] \o Whole("dot output", s, k)
    BY <1>4, <1>8 DEF WireOf
  <2>4. f[n] = f[n - 1] \o <<LF>> /\ f[n - 1] = f[n - 2] \o <<CR>>
    BY <2>1, <2>2, <2>3
  <2> QED
    BY <1>10, <1>12, <2>4
<1>14. u \in Seq(Byte) /\ Begins(Unstuffed(u, Len(u)), n - 2, s) /\ Doubled(w)
  BY <1>9, <1>10 DEF Wired
<1>15. PICK m \in Nat : m = Len(u)
  BY <1>14, LenProperties
<1>16. v \in Seq(Byte) /\ Len(v) = m + 1 /\ v[m + 1] = CR /\ \A i \in 1 .. m : v[i] = u[i]
  BY <1>11, <1>12, <1>14, <1>15, OneMore DEF IsOneMore
<1>17. w \in Seq(Byte) /\ Len(w) = (m + 1) + 1 /\ w[(m + 1) + 1] = LF /\ \A i \in 1 .. m + 1 : w[i] = v[i]
  BY <1>11, <1>13, <1>16, OneMore DEF IsOneMore
<1>18. Len(w) = m + 2 /\ w[m + 2] = LF /\ w[m + 1] = CR /\ \A i \in 1 .. m : w[i] = u[i]
  <2>1. (m + 1) + 1 = m + 2 /\ m + 1 \in 1 .. m + 1 /\ \A i \in 1 .. m : i \in 1 .. m + 1
    OBVIOUS
  <2> QED
    BY <1>16, <1>17, <2>1
<1>19. PICK e : e = <<DOT, CR, LF>>
  OBVIOUS
<1>20. e \in Seq(Byte) /\ Len(e) = 3 /\ e[1] = DOT /\ e[2] = CR /\ e[3] = LF
  BY <1>11, <1>19
<1>21. PICK t : t = w \o e
  OBVIOUS
<1>22. t \in Seq(Byte) /\ Len(t) = m + 5 /\ \A i \in 1 .. m + 5 : t[i] = IF i <= m + 2 THEN w[i] ELSE e[i - (m + 2)]
  <2>1. w \in Seq(Byte) /\ e \in Seq(Byte)
    BY <1>17, <1>20
  <2>2. /\ w \o e \in Seq(Byte) /\ Len(w \o e) = Len(w) + Len(e)
        /\ \A i \in 1 .. Len(w) + Len(e) : (w \o e)[i] = IF i <= Len(w) THEN w[i] ELSE e[i - Len(w)]
    BY <2>1, ConcatProperties
  <2>3. Len(w) + Len(e) = m + 5
    BY <1>18, <1>20
  <2> QED
    BY <1>18, <1>21, <2>2, <2>3
<1>23. \A i \in 1 .. m + 2 : t[i] = w[i]
  <2>1. \A i \in 1 .. m + 2 : i \in 1 .. m + 5 /\ i <= m + 2
    OBVIOUS
  <2> QED
    BY <1>22, <2>1
<1>24. t[m + 3] = DOT /\ t[m + 4] = CR /\ t[m + 5] = LF
  <2>1. /\ m + 3 \in 1 .. m + 5 /\ ~(m + 3 <= m + 2) /\ (m + 3) - (m + 2) = 1
        /\ m + 4 \in 1 .. m + 5 /\ ~(m + 4 <= m + 2) /\ (m + 4) - (m + 2) = 2
        /\ m + 5 \in 1 .. m + 5 /\ ~(m + 5 <= m + 2) /\ (m + 5) - (m + 2) = 3
    OBVIOUS
  <2> QED
    BY <1>20, <1>22, <2>1
<1>25. t[m + 1] = CR /\ t[m + 2] = LF
  <2>1. m + 1 \in 1 .. m + 2 /\ m + 2 \in 1 .. m + 2
    OBVIOUS
  <2> QED
    BY <1>18, <1>23, <2>1
<1>26. ASSUME NEW i \in 1 .. m + 3, t[i] = LF, t[i + 1] = DOT
       PROVE  t[i + 2] = DOT \/ i = m + 2
  <2>1. i # m + 3
    BY <1>11, <1>24, <1>26
  <2>2. CASE i <= m + 1
    <3>1. i \in 1 .. m + 2 /\ i + 1 \in 1 .. m + 2 /\ i \in 1 .. Len(w) - 1
      BY <1>18, <2>2
    <3>2. w[i] = LF /\ w[i + 1] = DOT
      BY <1>23, <1>26, <3>1
    <3>3. i + 2 <= m + 2 /\ w[i + 2] = DOT
      BY <1>14, <1>18, <3>1, <3>2 DEF Doubled
    <3>4. i + 2 \in 1 .. m + 2
      BY <3>3
    <3> QED
      BY <1>23, <3>3, <3>4
  <2> QED
    BY <2>1, <2>2
<1>27. Unstuffed(t, m) = Unstuffed(u, m)
  <2>1. m <= Len(t) /\ m <= Len(u)
    BY <1>15, <1>22
  <2>2. \A i \in 1 .. m : i \in 1 .. m + 2
    OBVIOUS
  <2>3. \A i \in 1 .. m : t[i] = u[i]
    BY <1>18, <1>23, <2>2
  <2> QED
    BY <1>14, <1>22, <2>1, <2>3, UnstuffedSame
<1>28. t = Wire(message, TRUE)
  BY <1>1, <1>5, <1>7, <1>10, <1>19, <1>21 DEF Wire, WholeFiltered
<1>29. Sent(t, m, s)
  BY <1>3, <1>4, <1>14, <1>15, <1>22, <1>24, <1>25, <1>26, <1>27 DEF Sent
<1> QED
  BY <1>1, <1>28, <1>29

\* The filters have found what they look for only where it was put.
LEMMA SentMarks ==
  ASSUME NEW t, NEW m, NEW s, Sent(t, m, s)
  PROVE  /\ \A k \in 0 .. m + 4 : NotAt(Terminator, t, k)
         /\ \A k \in 0 .. m + 2 : NotAt(BareTerminator, t, k)
<1>1. m \in Nat /\ \A i \in 1 .. m + 3 : t[i] = LF /\ t[i + 1] = DOT => t[i + 2] = DOT \/ i = m + 2
  BY DEF Sent
<1>2. CR # DOT /\ LF # DOT
  BY DEF CR, LF, DOT
<1>3. /\ Len(Terminator) = 5 /\ Terminator[2] = LF /\ Terminator[3] = DOT /\ Terminator[4] = CR
      /\ Len(BareTerminator) = 3 /\ BareTerminator[1] = LF /\ BareTerminator[2] = DOT /\ BareTerminator[3] = LF
  BY DEF Terminator, BareTerminator
<1>4. ASSUME NEW k \in 0 .. m + 4
      PROVE  NotAt(Terminator, t, k)
  <2>1. SUFFICES ASSUME k >= 5, \A q \in 1 .. 5 : t[(k - 5) + q] = Terminator[q]
                 PROVE  FALSE
    BY <1>3 DEF NotAt
  <2>2. 2 \in 1 .. 5 /\ 3 \in 1 .. 5 /\ 4 \in 1 .. 5
    OBVIOUS
  <2>3. t[(k - 5) + 2] = LF /\ t[(k - 5) + 3] = DOT /\ t[(k - 5) + 4] = CR
    BY <1>3, <2>1, <2>2
  <2>4. PICK i : i = k - 3
    OBVIOUS
  <2>5. (k - 5) + 2 = i /\ (k - 5) + 3 = i + 1 /\ (k - 5) + 4 = i + 2 /\ i \in 1 .. m + 3 /\ i # m + 2
    BY <1>1, <2>1, <2>4
  <2>6. t[i] = LF /\ t[i + 1] = DOT /\ t[i + 2] = CR
    BY <2>3, <2>5
  <2> QED
    BY <1>1, <1>2, <2>5, <2>6
<1>5. ASSUME NEW k \in 0 .. m + 2
      PROVE  NotAt(BareTerminator, t, k)
  <2>1. SUFFICES ASSUME k >= 3, \A q \in 1 .. 3 : t[(k - 3) + q] = BareTerminator[q]
                 PROVE  FALSE
    BY <1>3 DEF NotAt
  <2>2. 1 \in 1 .. 3 /\ 2 \in 1 .. 3 /\ 3 \in 1 .. 3
    OBVIOUS
  <2>3. t[(k - 3) + 1] = LF /\ t[(k - 3) + 2] = DOT /\ t[(k - 3) + 3] = LF
    BY <1>3, <2>1, <2>2
  <2>4. PICK i : i = k - 2
    OBVIOUS
  <2>5. (k - 3) + 1 = i /\ (k - 3) + 2 = i + 1 /\ (k - 3) + 3 = i + 2 /\ i \in 1 .. m + 3 /\ i # m + 2
    BY <1>1, <2>1, <2>4
  <2>6. t[i] = LF /\ t[i + 1] = DOT /\ t[i + 2] = LF
    BY <2>3, <2>5
  <2> QED
    BY <1>1, <1>2, <2>5, <2>6
<1> QED
  BY <1>4, <1>5

\* Nor in a refusal.
LEMMA RefusedMarks ==
  ASSUME NEW t, t = <<ERR, CR, LF>>
  PROVE  \A k \in 0 .. 3 : NotAt(Terminator, t, k) /\ NotAt(BareTerminator, t, k)
<1>1. /\ Len(Terminator) = 5 /\ Len(BareTerminator) = 3 /\ BareTerminator[1] = LF
      /\ t[1] = ERR /\ ERR # LF
  BY DEF Terminator, BareTerminator, ERR, LF
<1>2. ASSUME NEW k \in 0 .. 3
      PROVE  NotAt(Terminator, t, k) /\ NotAt(BareTerminator, t, k)
  <2>1. NotAt(Terminator, t, k)
    BY <1>1 DEF NotAt
  <2>2. NotAt(BareTerminator, t, k)
    <3>1. SUFFICES ASSUME k >= 3, \A q \in 1 .. 3 : t[(k - 3) + q] = BareTerminator[q]
                   PROVE  FALSE
      BY <1>1 DEF NotAt
    <3>2. 1 \in 1 .. 3 /\ (k - 3) + 1 = 1
      BY <3>1
    <3> QED
      BY <1>1, <3>1, <3>2
  <2> QED
    BY <2>1, <2>2
<1> QED
  BY <1>2

\* From the end of the message on, the first filter holds back all it reads.
Tracks(f, k, m) == k > m => f = k - m

\* One character more.
LEMMA StopTracks ==
  ASSUME NEW t, NEW m, NEW s, Sent(t, m, s), NEW j \in Nat, NEW k \in Nat, k < m + 5,
         NEW r, Cut(r, t, j, k, Terminator), Tracks(r.found, k, m)
  PROVE  Tracks(Stop(Terminator, r, t[k + 1]).found, k + 1, m)
<1>1. /\ m \in Nat /\ t[m + 1] = CR /\ t[m + 2] = LF /\ t[m + 3] = DOT /\ t[m + 4] = CR /\ t[m + 5] = LF
      /\ \A i \in 1 .. m + 3 : t[i] = LF /\ t[i + 1] = DOT => t[i + 2] = DOT \/ i = m + 2
  BY DEF Sent
<1>2. CR # DOT /\ LF # DOT /\ CR # LF
  BY DEF CR, LF, DOT
<1>3. /\ Len(Terminator) = 5 /\ Terminator[1] = CR /\ Terminator[2] = LF /\ Terminator[3] = DOT
      /\ Terminator[4] = CR /\ Terminator[5] = LF
  BY DEF Terminator
<1>4. PICK f, out, c : f = r.found /\ out = r.out /\ c = t[k + 1]
  OBVIOUS
<1>5. r = [found |-> f, out |-> out] /\ f \in 0 .. 5 /\ f <= k /\ \A q \in 1 .. f : t[(k - f) + q] = Terminator[q]
  <2>1. r.found \in 0 .. 5 /\ j + r.found <= k
    BY <1>3 DEF Cut
  <2> QED
    BY <1>4, <2>1 DEF Cut
<1>6. SUFFICES ASSUME k + 1 > m
               PROVE  Stop(Terminator, r, c).found = (k + 1) - m
  BY <1>4 DEF Tracks
<1>7. f # 5 /\ f # Len(Terminator)
  <2>1. NotAt(Terminator, t, k)
    <3>1. k \in 0 .. m + 4
      BY <1>1
    <3> QED
      BY <3>1, SentMarks
  <2>2. ASSUME f = 5
        PROVE  FALSE
    BY <1>3, <1>5, <2>1, <2>2 DEF NotAt
  <2> QED
    BY <1>3, <2>2
<1>8. /\ Terminator[f + 1] = c => Stop(Terminator, r, c).found = f + 1
      /\ Terminator[f + 1] # c /\ c = Terminator[1] => Stop(Terminator, r, c).found = 1
  <2>1. r.found = f /\ r.out = out /\ [r EXCEPT !.found = f + 1] = [found |-> f + 1, out |-> out]
    BY <1>5
  <2> QED
    BY <1>7, <2>1 DEF Stop
<1>9. CASE k > m
  <2>1. f = k - m
    BY <1>4, <1>9 DEF Tracks
  <2>2. k = m + f /\ f \in 1 .. 4 /\ k + 1 = m + (f + 1) /\ (k + 1) - m = f + 1
    BY <1>1, <1>5, <1>9, <2>1
  <2>3. t[m + (f + 1)] = Terminator[f + 1]
    <3>1. f = 1 \/ f = 2 \/ f = 3 \/ f = 4
      BY <2>2
    <3> QED
      BY <1>1, <1>3, <3>1
  <2> QED
    BY <1>4, <1>8, <2>2, <2>3
<1>10. CASE k = m
  <2>1. c = CR /\ (k + 1) - m = 1
    BY <1>1, <1>4, <1>10
  <2>2. Terminator[f + 1] = c => f = 0
    <3>1. SUFFICES ASSUME Terminator[f + 1] = CR, f # 0
                   PROVE  FALSE
      BY <2>1
    <3>2. f = 3
      <4>1. f \in 1 .. 4
        BY <1>5, <1>7, <3>1
      <4>2. f = 1 \/ f = 2 \/ f = 3 \/ f = 4
        BY <4>1
      <4> QED
        BY <1>2, <1>3, <3>1, <4>2
    <3>3. 2 \in 1 .. f /\ 3 \in 1 .. f
      BY <3>2
    <3>4. t[(k - f) + 2] = LF /\ t[(k - f) + 3] = DOT
      BY <1>3, <1>5, <3>3
    <3>5. PICK i : i = k - 1 /\ (k - f) + 2 = i /\ (k - f) + 3 = i + 1 /\ i + 2 = m + 1 /\ i \in 1 .. m + 3 /\ i # m + 2
      BY <1>1, <1>5, <1>10, <3>2
    <3> QED
      BY <1>1, <1>2, <3>4, <3>5
  <2>3. Terminator[f + 1] = c => Stop(Terminator, r, c).found = 1
    BY <1>8, <2>2
  <2> QED
    BY <1>3, <1>8, <2>1, <2>3
<1> QED
  BY <1>1, <1>6, <1>9, <1>10

-----------------------------------------------------------------------------
(* What is read of it. *)

\* What is held back after k characters of t is the beginning of the sequence.
HeldAt(t, k, f, sequence) ==
  f \in 0 .. Len(sequence) /\ f <= k /\ \A q \in 1 .. f : t[(k - f) + q] = sequence[q]

\* The object has these fields and no others.
WorkerOf(found5, found3, previous2, previous1, temp, codeDone, outcome) ==
  [found5 |-> found5, found3 |-> found3, previous2 |-> previous2, previous1 |-> previous1,
   temp |-> temp, codeDone |-> codeDone, outcome |-> outcome]
ReplyWorker(w) == w = WorkerOf(w.found5, w.found3, w.previous2, w.previous1, w.temp, w.codeDone, w.outcome)

\* What v gave the caller: nothing before the first line is complete, and what
\* comes after it from then on.
Given(temp, codeDone, v, out) ==
  /\ codeDone \in BOOLEAN
  /\ codeDone = TRUE => Len(v) >= 3 /\ IsPiece(out, v, 3, Len(v) - 3)
  /\ codeDone = FALSE => out = <<>> /\ temp = v /\ \A i \in 1 .. Len(v) : v[i] # LF

\* While the reply is read: w has held back, passed on and given out the first
\* k characters of the text.
Reads(w, k, out) ==
  /\ HeldAt(text, k, w.found5, Terminator)
  /\ job.accepted = TRUE => Tracks(w.found5, k, Len(text) - 5)
  /\ HeldAt(text, k - w.found5, w.found3, BareTerminator) /\ w.found3 # 3
  /\ w.previous2 = LastAt(((k - w.found5) - w.found3) - 1) /\ w.previous1 = LastAt((k - w.found5) - w.found3)
  /\ Given(w.temp, w.codeDone, Unstuffed(text, (k - w.found5) - w.found3), out)

\* The caller has the message.
HasMessage(out) == out = SubSeq(Lines(job.message), 1, Len(Lines(job.message)) - 2)

Stands(w, k, out) ==
  \/ w.outcome = "reading" /\ Reads(w, k, out)
  \/ w.outcome = "done" /\ job.accepted = TRUE /\ HasMessage(out)
  \/ w.outcome \in {"timed out", "refused"} /\ job.accepted = FALSE /\ out = <<>>

ReplySent ==
  /\ job \in [kind : {"reply"}, message : Messages, accepted : BOOLEAN]
  /\ job.accepted = TRUE => Sent(text, Len(text) - 5, Answer(job.message))
  /\ job.accepted = FALSE => text = <<ERR, CR, LF>>

ReplyInv ==
  job.kind = "reply" =>
    ReplySent /\ at \in 0 .. Len(text) /\ ReplyWorker(worker) /\ Stands(worker, at, output)

\* Initially.
LEMMA ReplyInvInit == Init => ReplyInv
<1> SUFFICES ASSUME Init, job.kind = "reply"
             PROVE  ReplyInv
  BY DEF ReplyInv
<1>1. ReplyInit
  BY InitOfKind
<1>2. job \in [kind : {"reply"}, message : Messages, accepted : BOOLEAN] /\ text = Wire(job.message, job.accepted)
  BY <1>1 DEF ReplyInit
<1>3. job.message \in Messages /\ job.accepted \in BOOLEAN
  BY <1>2
<1>4. ASSUME job.accepted = TRUE
      PROVE  Sent(text, Len(text) - 5, Answer(job.message))
  <2>1. text = Wire(job.message, TRUE)
    BY <1>2, <1>4
  <2>2. PICK m : Sent(text, m, Answer(job.message))
    BY <1>3, <2>1, WireIs
  <2>3. m \in Nat /\ Len(text) = m + 5
    BY <2>2 DEF Sent
  <2>4. Len(text) - 5 = m
    BY <2>3
  <2> QED
    BY <2>2, <2>4
<1>5. ASSUME job.accepted = FALSE
      PROVE  text = <<ERR, CR, LF>>
  BY <1>2, <1>5 DEF Wire
<1>6. ReplySent
  BY <1>2, <1>4, <1>5 DEF ReplySent
<1>7. text \in Seq(Byte)
  <2>1. CASE job.accepted = TRUE
    BY <1>4, <2>1 DEF Sent
  <2>2. CASE job.accepted = FALSE
    <3>1. ERR \in Byte /\ CR \in Byte /\ LF \in Byte
      BY DEF ERR, CR, LF, Byte
    <3>2. <<ERR, CR, LF>> \in Seq(Byte)
      BY <3>1
    <3> QED
      BY <1>5, <2>2, <3>2
  <2> QED
    BY <1>3, <2>1, <2>2
<1>8. at = 0 /\ output = <<>> /\ worker = WorkerOf(0, 0, 0, 0, <<>>, FALSE, "reading")
  BY <1>1 DEF ReplyInit, WorkerOf
<1>9. PICK w : w = worker
  OBVIOUS
<1>10. /\ w.found5 = 0 /\ w.found3 = 0 /\ w.previous2 = 0 /\ w.previous1 = 0
       /\ w.temp = <<>> /\ w.codeDone = FALSE /\ w.outcome = "reading" /\ ReplyWorker(w)
  BY <1>8, <1>9 DEF WorkerOf, ReplyWorker
<1>11. Reads(w, 0, <<>>)
  <2>1. HeldAt(text, 0, 0, Terminator) /\ HeldAt(text, 0, 0, BareTerminator)
    BY DEF HeldAt, Terminator, BareTerminator
  <2>2. job.accepted = TRUE => Tracks(0, 0, Len(text) - 5)
    <3>1. job.accepted = TRUE => Len(text) - 5 \in Nat
      <4>1. SUFFICES ASSUME job.accepted = TRUE
                     PROVE  Len(text) - 5 \in Nat
        OBVIOUS
      <4> QED
        BY <1>4, <4>1 DEF Sent
    <3> QED
      BY <3>1 DEF Tracks
  <2>3. LastAt(0 - 1) = 0 /\ LastAt(0) = 0
    BY DEF LastAt
  <2>4. Unstuffed(text, 0) = <<>>
    <3>1. [i \in 1 .. 0 |-> Whole("dot input", text, i)] = <<>>
      OBVIOUS
    <3>2. FlattenSeq(<<>>) = <<>>
      <4>1. <<>> \in Seq(Byte)
        OBVIOUS
      <4> QED
        BY <4>1, FlattenOne
    <3> QED
      BY <3>1, <3>2 DEF Unstuffed
  <2>5. Given(<<>>, FALSE, <<>>, <<>>)
    BY DEF Given
  <2> QED
    <3>1. 0 - w.found5 = 0 /\ (0 - w.found5) - w.found3 = 0 /\ ((0 - w.found5) - w.found3) - 1 = 0 - 1 /\ w.found3 # 3
      BY <1>10
    <3>2. HeldAt(text, 0, w.found5, Terminator) /\ HeldAt(text, 0 - w.found5, w.found3, BareTerminator)
      BY <1>10, <2>1, <3>1
    <3>3. job.accepted = TRUE => Tracks(w.found5, 0, Len(text) - 5)
      BY <1>10, <2>2
    <3>4. /\ w.previous2 = LastAt(((0 - w.found5) - w.found3) - 1) /\ w.previous1 = LastAt((0 - w.found5) - w.found3)
      BY <1>10, <2>3, <3>1
    <3>5. Given(w.temp, w.codeDone, Unstuffed(text, (0 - w.found5) - w.found3), <<>>)
      BY <1>10, <2>4, <2>5, <3>1
    <3> QED
      BY <3>1, <3>2, <3>3, <3>4, <3>5 DEF Reads
<1>12. at \in 0 .. Len(text)
  BY <1>7, <1>8, LenProperties
<1> QED
  BY <1>6, <1>8, <1>9, <1>10, <1>11, <1>12 DEF ReplyInv, Stands

\* A piece goes through a stop sequence filter.
LEMMA OneStops ==
  ASSUME NEW s \in Seq(Byte), NEW sequence \in Seq(Byte), sequence # <<>>, NEW k \in Nat, NEW n \in Nat, k + n <= Len(s),
         NEW data, IsPiece(data, s, k, n), NEW held, HeldAt(s, k, held, sequence),
         \A i \in k .. (k + n) - 1 : NotAt(sequence, s, i)
  PROVE  Cut(Stopped(sequence, held, data), s, k - held, k + n, sequence)
<1>1. held \in 0 .. Len(sequence) /\ held <= k /\ \A q \in 1 .. held : s[(k - held) + q] = sequence[q]
  BY DEF HeldAt
<1>2. data \in Seq(Byte) /\ Len(data) = n
  BY DEF IsPiece
<1>3. PICK after : CharByChar(after, sequence, held, data) /\ Stopped(sequence, held, data) = after[n]
  BY <1>1, <1>2, StoppedSteps
<1>4. \A i \in 0 .. n : Cut(after[i], s, k - held, k + i, sequence)
  BY <1>1, <1>3, StoppedCuts
<1>5. n \in 0 .. n
  OBVIOUS
<1> QED
  BY <1>3, <1>4, <1>5

\* The first filter keeps track of the end.
LEMMA OneTracks ==
  ASSUME NEW t, NEW m, NEW s, Sent(t, m, s), NEW k \in Nat, NEW n \in Nat, k + n <= m + 5,
         NEW data, IsPiece(data, t, k, n), NEW held, HeldAt(t, k, held, Terminator), Tracks(held, k, m)
  PROVE  Tracks(Stopped(Terminator, held, data).found, k + n, m)
<1>1. held \in 0 .. Len(Terminator) /\ held <= k /\ \A q \in 1 .. held : t[(k - held) + q] = Terminator[q]
  BY DEF HeldAt
<1>2. data \in Seq(Byte) /\ Len(data) = n /\ \A q \in 1 .. n : data[q] = t[k + q]
  BY DEF IsPiece
<1>3. t \in Seq(Byte) /\ m \in Nat /\ Len(t) = m + 5
  BY DEF Sent
<1>4. Terminator \in Seq(Byte) /\ Terminator # <<>> /\ Len(Terminator) = 5
  BY DEF Terminator, CR, LF, DOT, Byte
<1>5. PICK after : CharByChar(after, Terminator, held, data) /\ Stopped(Terminator, held, data) = after[n]
  BY <1>1, <1>2, <1>4, StoppedSteps
<1>6. \A i \in 0 .. n : Cut(after[i], t, k - held, k + i, Terminator)
  <2>1. \A i \in k .. (k + n) - 1 : NotAt(Terminator, t, i)
    <3>1. \A i \in k .. (k + n) - 1 : i \in 0 .. m + 4
      BY <1>3
    <3> QED
      BY <3>1, SentMarks
  <2>2. k + n <= Len(t)
    BY <1>3
  <2> QED
    BY <1>1, <1>3, <1>4, <1>5, <2>1, <2>2, StoppedCuts
<1>7. PICK j \in Nat : j = k - held
  <2>1. held \in Nat
    BY <1>1, <1>4
  <2> QED
    BY <1>1, <2>1
<1> DEFINE S == {i \in 0 .. n : Tracks(after[i].found, k + i, m)}
<1>8. 0 \in S
  <2>1. after[0].found = held
    BY <1>5 DEF CharByChar
  <2>2. k + 0 = k /\ 0 \in 0 .. n
    OBVIOUS
  <2> QED
    BY <2>1, <2>2
<1>9. ASSUME NEW i \in 1 .. n, i - 1 \in S
      PROVE  i \in S
  <2>1. PICK h, l \in Nat : h = i - 1 /\ h \in 0 .. n /\ l = k + h /\ l + 1 = k + i /\ l < m + 5
    <3>1. PICK h \in Nat : h = i - 1 /\ h \in 0 .. n
      OBVIOUS
    <3>2. PICK l \in Nat : l = k + h
      BY <3>1
    <3>3. l + 1 = k + i /\ l < m + 5
      BY <1>3, <3>1, <3>2
    <3> QED
      BY <3>1, <3>2, <3>3
  <2>2. Tracks(after[h].found, l, m)
    BY <1>9, <2>1
  <2>3. Cut(after[h], t, j, l, Terminator)
    BY <1>6, <1>7, <2>1
  <2>4. after[i] = Stop(Terminator, after[h], t[l + 1])
    <3>1. i \in 1 .. Len(data) /\ data[i] = t[k + i]
      BY <1>2
    <3> QED
      BY <1>5, <2>1, <3>1 DEF CharByChar
  <2>5. Tracks(after[i].found, l + 1, m)
    BY <2>1, <2>2, <2>3, <2>4, StopTracks
  <2> QED
    BY <2>1, <2>5
<1>10. 0 .. n \subseteq S
  <2> HIDE DEF S
  <2> QED
    BY <1>8, <1>9, NumberInduction
<1>11. n \in 0 .. n
  OBVIOUS
<1> QED
  BY <1>5, <1>10, <1>11

\* A piece goes through the filter that takes out dots.
LEMMA PieceUnstuffed ==
  ASSUME text \in Seq(Byte), NEW h \in Nat, NEW m \in Nat, h + m <= Len(text), NEW data, IsPiece(data, text, h, m),
         worker.previous2 = LastAt(h - 1), worker.previous1 = LastAt(h)
  PROVE  /\ DotUnstuffed(data) = FlattenSeq([i \in 1 .. m |-> Whole("dot input", text, h + i)])
         /\ Last2(data)[1] = LastAt((h + m) - 1) /\ Last2(data)[2] = LastAt(h + m)
<1>1. PICK l \in Nat : l = Len(text) /\ h + m <= l
  BY LenProperties
<1>2. data \in Seq(Byte) /\ Len(data) = m /\ DOMAIN data = 1 .. m /\ \A i \in 1 .. m : data[i] = text[h + i]
  BY LenProperties DEF IsPiece
<1>3. PICK two, all, A : /\ two = <<worker.previous2, worker.previous1>> /\ all = two \o data
                         /\ A = {LastAt(h - 1), LastAt(h)} \cup Byte
  OBVIOUS
<1>4. two \in Seq(A) /\ Len(two) = 2 /\ two[1] = LastAt(h - 1) /\ two[2] = LastAt(h)
  BY <1>3
<1>5. data \in Seq(A)
  <2>1. Byte \subseteq A
    BY <1>3
  <2> QED
    BY <1>2, <2>1, SeqMonotonic
<1>6. all \in Seq(A) /\ Len(all) = 2 + m /\ \A k \in 1 .. 2 + m : all[k] = IF k <= 2 THEN two[k] ELSE data[k - 2]
  <2>1. /\ two \o data \in Seq(A) /\ Len(two \o data) = Len(two) + Len(data)
        /\ \A k \in 1 .. Len(two) + Len(data) : (two \o data)[k] = IF k <= Len(two) THEN two[k] ELSE data[k - Len(two)]
    <3>1. two \in Seq(A)
      BY <1>4
    <3> QED
      BY <1>5, <3>1, ConcatProperties
  <2> QED
    BY <1>2, <1>3, <1>4, <2>1
<1>7. ASSUME NEW k \in 1 .. 2 + m
      PROVE  all[k] = LastAt((h + k) - 2)
  <2>1. CASE k = 1
    <3>1. k <= 2 /\ (h + k) - 2 = h - 1
      BY <2>1
    <3> QED
      BY <1>4, <1>6, <2>1, <3>1
  <2>2. CASE k = 2
    <3>1. k <= 2 /\ (h + k) - 2 = h
      BY <2>2
    <3> QED
      BY <1>4, <1>6, <2>2, <3>1
  <2>3. CASE k > 2
    <3>1. ~(k <= 2) /\ k - 2 \in 1 .. m /\ h + (k - 2) = (h + k) - 2 /\ (h + k) - 2 \in 1 .. l
      BY <1>1, <2>3
    <3>2. all[k] = text[(h + k) - 2]
      BY <1>2, <1>6, <3>1
    <3> QED
      BY <1>1, <3>1, <3>2 DEF LastAt
  <2> QED
    BY <2>1, <2>2, <2>3
<1> DEFINE D == [i \in DOMAIN data |-> IF data[i] = DOT /\ all[i + 1] = DOT /\ all[i] = LF THEN <<>> ELSE <<data[i]>>]
           E == [i \in 1 .. m |-> Whole("dot input", text, h + i)]
<1>8. DotUnstuffed(data) = FlattenSeq(D)
  BY <1>3 DEF DotUnstuffed
<1>9. ASSUME NEW i \in 1 .. m
      PROVE  (IF data[i] = DOT /\ all[i + 1] = DOT /\ all[i] = LF THEN <<>> ELSE <<data[i]>>) = Whole("dot input", text, h + i)
  <2>1. data[i] = text[h + i] /\ h + i \in 1 .. l
    BY <1>1, <1>2
  <2>2. /\ i \in 1 .. 2 + m /\ i + 1 \in 1 .. 2 + m
        /\ (h + i) - 2 = (h + i) - 2 /\ (h + (i + 1)) - 2 = (h + i) - 1
    OBVIOUS
  <2>3. all[i] = LastAt((h + i) - 2) /\ all[i + 1] = LastAt((h + i) - 1)
    BY <1>7, <2>2
  <2>4. all[i + 1] = DOT <=> (h + i) - 1 \in 1 .. l /\ text[(h + i) - 1] = DOT
    BY <1>1, <2>3, LastIs
  <2>5. all[i] = LF <=> (h + i) - 2 \in 1 .. l /\ text[(h + i) - 2] = LF
    BY <1>1, <2>3, LastIs
  <2>6. DOMAIN text = 1 .. l
    BY <1>1, LenProperties
  <2>7. Whole("dot input", text, h + i) =
          IF text[h + i] = DOT /\ ((h + i) - 1 \in 1 .. l /\ text[(h + i) - 1] = DOT)
             /\ ((h + i) - 2 \in 1 .. l /\ text[(h + i) - 2] = LF) THEN <<>> ELSE <<text[h + i]>>
    BY <2>1, <2>6 DEF Whole
  <2> QED
    BY <2>1, <2>4, <2>5, <2>7
<1>10. D = E
  BY <1>2, <1>9
<1>11. Last2(data)[1] = LastAt((h + m) - 1) /\ Last2(data)[2] = LastAt(h + m)
  <2>1. Last2(data) = SubSeq(all, m + 1, m + 2)
    BY <1>2, <1>3 DEF Last2
  <2>2. \A k \in m + 1 .. m + 2 : all[k] \in A
    <3>1. m + 1 .. m + 2 \subseteq 1 .. Len(all)
      BY <1>6
    <3> QED
      BY <1>6, <3>1, ElementOfSeq
  <2>3. PICK b : b = SubSeq(all, m + 1, m + 2)
    OBVIOUS
  <2>4. (m + 2) - (m + 1) + 1 = 2 /\ m + 1 \in Int /\ m + 2 \in Int
    OBVIOUS
  <2>5. \A i \in 1 .. (m + 2) - (m + 1) + 1 : b[i] = all[(m + 1) + i - 1]
    BY <2>2, <2>3, <2>4, SubSeqProperties
  <2>6. /\ 1 \in 1 .. (m + 2) - (m + 1) + 1 /\ 2 \in 1 .. (m + 2) - (m + 1) + 1
        /\ (m + 1) + 1 - 1 = m + 1 /\ (m + 1) + 2 - 1 = m + 2
    OBVIOUS
  <2>7. b[1] = all[m + 1] /\ b[2] = all[m + 2]
    BY <2>5, <2>6
  <2>8. /\ m + 1 \in 1 .. 2 + m /\ m + 2 \in 1 .. 2 + m
        /\ (h + (m + 1)) - 2 = (h + m) - 1 /\ (h + (m + 2)) - 2 = h + m
    OBVIOUS
  <2>9. all[m + 1] = LastAt((h + m) - 1) /\ all[m + 2] = LastAt(h + m)
    BY <1>7, <2>8
  <2> QED
    BY <2>1, <2>3, <2>7, <2>9
<1> HIDE DEF D
<1> QED
  BY <1>8, <1>10, <1>11

\* The object keeps what it has of the filters.
SameFilters(v, w) ==
  ReplyWorker(v) /\ v.found5 = w.found5 /\ v.found3 = w.found3 /\ v.previous2 = w.previous2 /\ v.previous1 = w.previous1

\* Or it keeps what it has of the reply.
SameReply(v, w) ==
  ReplyWorker(v) /\ v.temp = w.temp /\ v.codeDone = w.codeDone /\ v.outcome = w.outcome

\* An object with these fields has them.
LEMMA FieldsOf ==
  ASSUME NEW a, NEW b, NEW c, NEW d, NEW e, NEW f, NEW g, NEW w, w = WorkerOf(a, b, c, d, e, f, g)
  PROVE  /\ w.found5 = a /\ w.found3 = b /\ w.previous2 = c /\ w.previous1 = d /\ w.temp = e /\ w.codeDone = f /\ w.outcome = g
         /\ ReplyWorker(w)
<1>1. w.found5 = a /\ w.found3 = b /\ w.previous2 = c /\ w.previous1 = d /\ w.temp = e /\ w.codeDone = f /\ w.outcome = g
  BY DEF WorkerOf
<1> QED
  BY <1>1 DEF ReplyWorker

\* What becomes of it when one of them changes.
LEMMA ChangesOne ==
  ASSUME NEW w, ReplyWorker(w), NEW x
  PROVE  /\ SameFilters([w EXCEPT !.temp = x], w)
         /\ [w EXCEPT !.temp = x].temp = x
         /\ [w EXCEPT !.temp = x].codeDone = w.codeDone /\ [w EXCEPT !.temp = x].outcome = w.outcome
         /\ SameFilters([w EXCEPT !.outcome = x], w)
         /\ [w EXCEPT !.outcome = x].outcome = x
         /\ [w EXCEPT !.outcome = x].codeDone = w.codeDone /\ [w EXCEPT !.outcome = x].temp = w.temp
         /\ SameFilters([w EXCEPT !.codeDone = x], w)
         /\ [w EXCEPT !.codeDone = x].codeDone = x
         /\ [w EXCEPT !.codeDone = x].outcome = w.outcome
<1>1. PICK a, b, c, d, e, f, g : w = WorkerOf(a, b, c, d, e, f, g)
  BY DEF ReplyWorker
<1>2. PICK y : y = [w EXCEPT !.temp = x]
  OBVIOUS
<1>3. y = WorkerOf(a, b, c, d, x, f, g)
  BY <1>1, <1>2 DEF WorkerOf
<1>4. PICK z : z = [w EXCEPT !.outcome = x]
  OBVIOUS
<1>5. z = WorkerOf(a, b, c, d, e, f, x)
  BY <1>1, <1>4 DEF WorkerOf
<1>6. PICK t : t = [w EXCEPT !.codeDone = x]
  OBVIOUS
<1>7. t = WorkerOf(a, b, c, d, e, x, g)
  BY <1>1, <1>6 DEF WorkerOf
<1>8. w.found5 = a /\ w.found3 = b /\ w.previous2 = c /\ w.previous1 = d /\ w.temp = e /\ w.codeDone = f /\ w.outcome = g
  BY <1>1 DEF WorkerOf
<1>9. /\ y.found5 = a /\ y.found3 = b /\ y.previous2 = c /\ y.previous1 = d /\ y.temp = x /\ y.codeDone = f /\ y.outcome = g
      /\ ReplyWorker(y)
  BY <1>3, FieldsOf
<1>10. /\ z.found5 = a /\ z.found3 = b /\ z.previous2 = c /\ z.previous1 = d /\ z.temp = e /\ z.codeDone = f /\ z.outcome = x
       /\ ReplyWorker(z)
  BY <1>5, FieldsOf
<1>11. /\ t.found5 = a /\ t.found3 = b /\ t.previous2 = c /\ t.previous1 = d /\ t.temp = e /\ t.codeDone = x /\ t.outcome = g
       /\ ReplyWorker(t)
  BY <1>7, FieldsOf
<1>12. SameFilters(y, w) /\ SameFilters(z, w) /\ SameFilters(t, w)
  BY <1>8, <1>9, <1>10, <1>11 DEF SameFilters
<1> QED
  BY <1>2, <1>4, <1>6, <1>8, <1>9, <1>10, <1>11, <1>12

\* It says how it ended.
Reported(w, x) == [w EXCEPT !.outcome = x]

\* Nothing else changes.
LEMMA ChangesOutcome ==
  ASSUME NEW w, ReplyWorker(w), NEW x, NEW v, v = Reported(w, x)
  PROVE  SameFilters(v, w) /\ v.outcome = x /\ v.codeDone = w.codeDone /\ v.temp = w.temp
<1>1. PICK u : u = [w EXCEPT !.outcome = x]
  OBVIOUS
<1>2. SameFilters(u, w) /\ u.outcome = x /\ u.codeDone = w.codeDone /\ u.temp = w.temp
  BY <1>1, ChangesOne
<1>3. u = v
  BY <1>1 DEF Reported
<1> QED
  BY <1>2, <1>3

\* When those of the filters change.
Refiltered(w, x, y, z, t) == [w EXCEPT !.found5 = x, !.found3 = y, !.previous2 = z, !.previous1 = t]

\* The others do not.
LEMMA ChangesFilters ==
  ASSUME NEW w, ReplyWorker(w), NEW x, NEW y, NEW z, NEW t, NEW v, v = Refiltered(w, x, y, z, t)
  PROVE  v.found5 = x /\ v.found3 = y /\ v.previous2 = z /\ v.previous1 = t /\ SameReply(v, w)
<1>1. PICK a, b, c, d, e, f, g : w = WorkerOf(a, b, c, d, e, f, g)
  BY DEF ReplyWorker
<1>2. PICK w1 : w1 = [w EXCEPT !.found5 = x]
  OBVIOUS
<1>3. w1 = WorkerOf(x, b, c, d, e, f, g)
  BY <1>1, <1>2 DEF WorkerOf
<1>4. PICK w2 : w2 = [w1 EXCEPT !.found3 = y]
  OBVIOUS
<1>5. w2 = WorkerOf(x, y, c, d, e, f, g)
  BY <1>3, <1>4 DEF WorkerOf
<1>6. PICK w3 : w3 = [w2 EXCEPT !.previous2 = z]
  OBVIOUS
<1>7. w3 = WorkerOf(x, y, z, d, e, f, g)
  BY <1>5, <1>6 DEF WorkerOf
<1>8. PICK u : u = [w3 EXCEPT !.previous1 = t]
  OBVIOUS
<1>9. u = WorkerOf(x, y, z, t, e, f, g)
  BY <1>7, <1>8 DEF WorkerOf
<1>10. w.temp = e /\ w.codeDone = f /\ w.outcome = g
  BY <1>1 DEF WorkerOf
<1>11. v = u
  <2>1. u = [w EXCEPT !.found5 = x, !.found3 = y, !.previous2 = z, !.previous1 = t]
    BY <1>2, <1>4, <1>6, <1>8
  <2> QED
    BY <2>1 DEF Refiltered
<1>12. /\ v.found5 = x /\ v.found3 = y /\ v.previous2 = z /\ v.previous1 = t /\ v.temp = e /\ v.codeDone = f /\ v.outcome = g
       /\ ReplyWorker(v)
  <2>1. v = WorkerOf(x, y, z, t, e, f, g)
    BY <1>9, <1>11
  <2> QED
    BY <2>1, FieldsOf
<1>13. SameReply(v, w)
  BY <1>10, <1>12 DEF SameReply
<1> QED
  BY <1>12, <1>13

\* What is done with data that comes through the filters: u is what was kept
\* back and the data, and its lines end in these places.
Gives(state, x, u, ends) ==
  /\ SameFilters(worker', state)
  /\ state.codeDone = TRUE => output' = output \o x /\ worker' = state
  /\ state.codeDone = FALSE /\ ends = {} =>
       output' = output /\ worker'.temp = u /\ worker'.codeDone = FALSE /\ worker'.outcome = state.outcome
  /\ state.codeDone = FALSE /\ ends # {} /\ Head(u) # OK => output' = output /\ worker'.outcome = "refused"
  /\ state.codeDone = FALSE /\ ends # {} /\ Head(u) = OK =>
       output' = SubSeq(u, Min(ends) + 1, Len(u)) /\ worker'.codeDone = TRUE /\ worker'.outcome = state.outcome

\* That is done.
LEMMA DeliverIs ==
  ASSUME NEW state, ReplyWorker(state), NEW x, Deliver(state, x),
         NEW u, u = state.temp \o x, NEW ends, ends = {i \in DOMAIN u : u[i] = LF}
  PROVE  Gives(state, x, u, ends)
<1>1. /\ state.codeDone => output' = output \o x /\ worker' = state
      /\ ~state.codeDone /\ ends = {} => output' = output /\ worker' = [state EXCEPT !.temp = u]
      /\ ~state.codeDone /\ ends # {} /\ Head(u) # OK => output' = output /\ worker' = [state EXCEPT !.outcome = "refused"]
      /\ ~state.codeDone /\ ends # {} /\ Head(u) = OK =>
              output' = SubSeq(u, Min(ends) + 1, Len(u)) /\ worker' = [state EXCEPT !.temp = <<>>, !.codeDone = TRUE]
  BY DEF Deliver
<1>2. PICK w1 : w1 = [state EXCEPT !.temp = u]
  OBVIOUS
<1>3. SameFilters(w1, state) /\ w1.temp = u /\ w1.codeDone = state.codeDone /\ w1.outcome = state.outcome
  <2>1. PICK y : y = u
    OBVIOUS
  <2>2. w1 = [state EXCEPT !.temp = y]
    BY <1>2, <2>1
  <2>3. SameFilters(w1, state) /\ w1.temp = y /\ w1.codeDone = state.codeDone /\ w1.outcome = state.outcome
    BY <2>2, ChangesOne
  <2> QED
    BY <2>1, <2>3
<1>4. PICK w2 : w2 = [state EXCEPT !.outcome = "refused"]
  OBVIOUS
<1>5. SameFilters(w2, state) /\ w2.outcome = "refused"
  BY <1>4, ChangesOne
<1>6. PICK w3, yes : w3 = [state EXCEPT !.temp = <<>>] /\ yes = TRUE
  OBVIOUS
<1>7. SameFilters(w3, state) /\ w3.outcome = state.outcome
  BY <1>6, ChangesOne
<1>8. PICK w4 : w4 = [w3 EXCEPT !.codeDone = yes]
  OBVIOUS
<1>9. ReplyWorker(w3)
  BY <1>7 DEF SameFilters
<1>10. SameFilters(w4, w3) /\ w4.codeDone = yes /\ w4.outcome = w3.outcome
  BY <1>8, <1>9, ChangesOne
<1>11. SameFilters(w4, state)
  BY <1>7, <1>10 DEF SameFilters
<1>12. w4 = [state EXCEPT !.temp = <<>>, !.codeDone = TRUE]
  BY <1>6, <1>8
<1>13. SameFilters(state, state)
  BY DEF SameFilters
<1>14. CASE state.codeDone
  BY <1>1, <1>13, <1>14 DEF Gives
<1>15. CASE ~state.codeDone /\ ends = {}
  <2>1. output' = output /\ worker' = w1
    BY <1>1, <1>2, <1>15
  <2> QED
    BY <1>3, <1>15, <2>1 DEF Gives
<1>16. CASE ~state.codeDone /\ ends # {} /\ Head(u) # OK
  <2>1. output' = output /\ worker' = w2
    BY <1>1, <1>4, <1>16
  <2> QED
    BY <1>5, <1>16, <2>1 DEF Gives
<1>17. CASE ~state.codeDone /\ ends # {} /\ Head(u) = OK
  <2>1. output' = SubSeq(u, Min(ends) + 1, Len(u)) /\ worker' = w4
    BY <1>1, <1>12, <1>17
  <2>2. w4.codeDone = TRUE /\ w4.outcome = state.outcome
    BY <1>6, <1>7, <1>10
  <2> QED
    BY <1>11, <1>17, <2>1, <2>2 DEF Gives
<1> QED
  BY <1>14, <1>15, <1>16, <1>17

\* p begins with the first line that the server answers.
FirstLine(p) == Len(p) >= 3 /\ p[2] = CR /\ p[3] = LF /\ p[1] \in {OK, ERR}

\* What comes through the filters is given out, or refused if it is a refusal.
LEMMA Delivers ==
  ASSUME NEW state, ReplyWorker(state), NEW v \in Seq(Byte), NEW x \in Seq(Byte), Given(state.temp, state.codeDone, v, output),
         NEW p, FirstLine(p), Begins(v \o x, Len(v \o x), p), Deliver(state, x)
  PROVE  /\ SameFilters(worker', state)
         /\ \/ worker'.outcome = state.outcome /\ Given(worker'.temp, worker'.codeDone, v \o x, output')
            \/ p[1] = ERR /\ worker'.outcome = "refused" /\ output' = <<>>
<1>1. PICK m, n \in Nat : m = Len(v) /\ n = Len(x)
  BY LenProperties
<1>2. PICK u : u = v \o x
  OBVIOUS
<1>3. u \in Seq(Byte) /\ Len(u) = m + n /\ \A i \in 1 .. m + n : u[i] = IF i <= m THEN v[i] ELSE x[i - m]
  BY <1>1, <1>2, ConcatProperties
<1>4. state.codeDone \in BOOLEAN
  BY DEF Given
<1>5. SameFilters(worker', state) /\ (state.codeDone = TRUE => output' = output \o x /\ worker' = state)
  <2>1. PICK w : w = state.temp \o x
    OBVIOUS
  <2>2. PICK E : E = {i \in DOMAIN w : w[i] = LF}
    OBVIOUS
  <2>3. Gives(state, x, w, E)
    BY <2>1, <2>2, DeliverIs
  <2> QED
    BY <2>3 DEF Gives
<1>6. CASE state.codeDone = TRUE
  <2>1. m >= 3 /\ IsPiece(output, v, 3, m - 3)
    BY <1>1, <1>6 DEF Given
  <2>2. output' = output \o x /\ worker' = state
    BY <1>5, <1>6
  <2>3. PICK k \in Nat : k = m - 3 /\ 3 + k = m /\ k + n = (m + n) - 3
    BY <2>1
  <2>4. IsPiece(output, u, 3, k)
    <3>1. output \in Seq(Byte) /\ Len(output) = k /\ \A q \in 1 .. k : output[q] = v[3 + q]
      BY <2>1, <2>3 DEF IsPiece
    <3>2. \A q \in 1 .. k : 3 + q \in 1 .. m + n /\ 3 + q <= m
      BY <2>3
    <3>3. \A q \in 1 .. k : output[q] = u[3 + q]
      BY <1>3, <3>1, <3>2
    <3> QED
      BY <3>1, <3>3 DEF IsPiece
  <2>5. IsPiece(x, u, 3 + k, n)
    <3>1. \A q \in 1 .. n : m + q \in 1 .. m + n /\ ~(m + q <= m) /\ (m + q) - m = q
      OBVIOUS
    <3>2. \A q \in 1 .. n : x[q] = u[m + q]
      BY <1>3, <3>1
    <3> QED
      BY <1>1, <2>3, <3>2 DEF IsPiece
  <2>6. IsPiece(output \o x, u, 3, k + n)
    BY <2>4, <2>5, PiecesJoin
  <2>7. Given(state.temp, TRUE, u, output')
    <3>1. Len(u) >= 3 /\ Len(u) - 3 = k + n
      BY <1>3, <2>1, <2>3
    <3> QED
      BY <2>2, <2>6, <3>1 DEF Given
  <2> QED
    BY <1>2, <1>5, <1>6, <2>2, <2>7
<1>7. CASE state.codeDone = FALSE
  <2>1. output = <<>> /\ state.temp = v /\ \A i \in 1 .. m : v[i] # LF
    BY <1>1, <1>7 DEF Given
  <2> DEFINE ends == {i \in DOMAIN u : u[i] = LF}
  <2>2. /\ ends = {} => output' = output /\ worker'.temp = u /\ worker'.codeDone = FALSE /\ worker'.outcome = state.outcome
        /\ ends # {} /\ Head(u) # OK => output' = output /\ worker'.outcome = "refused"
        /\ ends # {} /\ Head(u) = OK =>
             output' = SubSeq(u, Min(ends) + 1, Len(u)) /\ worker'.codeDone = TRUE /\ worker'.outcome = state.outcome
    <3>1. u = state.temp \o x
      BY <1>2, <2>1
    <3>2. PICK E : E = {i \in DOMAIN u : u[i] = LF}
      OBVIOUS
    <3>3. E = ends
      BY <3>2
    <3> HIDE DEF ends
    <3>4. Gives(state, x, u, E)
      BY <3>1, <3>2, DeliverIs
    <3> QED
      BY <1>7, <3>3, <3>4 DEF Gives
  <2>3. DOMAIN u = 1 .. m + n
    BY <1>3, LenProperties
  <2>4. CASE ends = {}
    <3>1. \A i \in 1 .. Len(u) : u[i] # LF
      BY <1>3, <2>3, <2>4
    <3>2. Given(u, FALSE, u, output')
      BY <2>1, <2>2, <2>4, <3>1 DEF Given
    <3>3. worker'.temp = u /\ worker'.codeDone = FALSE /\ worker'.outcome = state.outcome
      BY <1>7, <2>2, <2>4
    <3> QED
      BY <1>2, <1>5, <3>2, <3>3
  <2>5. CASE ends # {}
    <3>1. \A i \in 1 .. m + n : u[i] = p[i]
      BY <1>2, <1>3 DEF Begins
    <3>2. p[1] # LF /\ p[2] # LF /\ p[3] = LF /\ p[1] \in {OK, ERR}
      BY DEF FirstLine, OK, ERR, CR, LF
    <3>3. PICK i \in 1 .. m + n : u[i] = LF
      BY <2>3, <2>5
    <3>4. i # 1 /\ i # 2
      BY <3>1, <3>2, <3>3
    <3>5. m + n >= 3 /\ 3 \in 1 .. m + n /\ 2 \in 1 .. m + n /\ 1 \in 1 .. m + n
      BY <3>3, <3>4
    <3>6. u[1] = p[1] /\ u[2] = p[2] /\ u[3] = LF
      BY <3>1, <3>2, <3>5
    <3>7. Head(u) = p[1]
      <4>1. u # <<>>
        BY <1>3, <3>5
      <4> QED
        BY <1>3, <3>6, <4>1
    <3>8. CASE p[1] = OK
      <4>1. ends \in SUBSET Nat /\ 3 \in ends /\ \A k \in ends : k >= 3
        <5>1. \A k \in ends : k \in 1 .. m + n /\ u[k] = LF
          BY <2>3
        <5>2. \A k \in ends : k # 1 /\ k # 2
          BY <3>2, <3>6, <5>1
        <5>3. 3 \in ends
          BY <2>3, <3>5, <3>6
        <5> HIDE DEF ends
        <5>4. \A k \in ends : k \in Nat /\ k >= 3
          <6>1. \A k \in 1 .. m + n : k # 1 /\ k # 2 => k >= 3 /\ k \in Nat
            OBVIOUS
          <6> QED
            BY <5>1, <5>2, <6>1
        <5> QED
          BY <5>3, <5>4
      <4>2. Min(ends) = 3
        <5> HIDE DEF ends
        <5>1. Min(ends) \in ends /\ \A k \in ends : Min(ends) <= k
          BY <2>5, <4>1, MinOfNumbers
        <5>2. Min(ends) \in Nat /\ Min(ends) >= 3 /\ Min(ends) <= 3
          BY <4>1, <5>1
        <5> QED
          BY <5>2
      <4>3. output' = SubSeq(u, 4, m + n) /\ worker'.codeDone = TRUE /\ worker'.outcome = state.outcome
        <5>1. Head(u) = OK
          BY <3>7, <3>8
        <5>2. output' = SubSeq(u, Min(ends) + 1, Len(u)) /\ worker'.codeDone = TRUE /\ worker'.outcome = state.outcome
          BY <2>2, <2>5, <5>1
        <5>3. Min(ends) + 1 = 4
          BY <4>2
        <5> HIDE DEF ends
        <5> QED
          BY <1>3, <5>2, <5>3
      <4>4. PICK s : s = SubSeq(u, 4, m + n)
        OBVIOUS
      <4>5. PICK k \in Nat : k = (m + n) - 3 /\ (m + n) - 4 + 1 = k /\ (4 <= m + n <=> k > 0)
        BY <3>5
      <4>6. \A q \in 4 .. m + n : u[q] \in Byte
        <5>1. 4 .. m + n \subseteq 1 .. Len(u)
          BY <1>3
        <5> QED
          BY <1>3, <5>1, ElementOfSeq
      <4>7. s \in Seq(Byte) /\ Len(s) = k /\ \A q \in 1 .. k : s[q] = u[3 + q]
        <5>1. /\ s \in Seq(Byte)
              /\ Len(s) = IF 4 <= m + n THEN (m + n) - 4 + 1 ELSE 0
              /\ \A q \in 1 .. (m + n) - 4 + 1 : s[q] = u[4 + q - 1]
          <6>1. 4 \in Int /\ m + n \in Int
            OBVIOUS
          <6> QED
            BY <4>4, <4>6, <6>1, SubSeqProperties
        <5>2. (IF 4 <= m + n THEN (m + n) - 4 + 1 ELSE 0) = k
          BY <4>5
        <5>3. \A q \in 1 .. k : 4 + q - 1 = 3 + q
          OBVIOUS
        <5> QED
          BY <4>5, <5>1, <5>2, <5>3
      <4>8. Given(worker'.temp, TRUE, u, s)
        <5>1. Len(u) >= 3 /\ Len(u) - 3 = k
          BY <1>3, <3>5, <4>5
        <5> QED
          BY <4>7, <5>1 DEF Given, IsPiece
      <4> QED
        BY <1>2, <1>5, <4>3, <4>4, <4>8
    <3>9. CASE p[1] # OK
      <4>1. p[1] = ERR /\ Head(u) # OK
        BY <3>2, <3>7, <3>9
      <4> QED
        BY <1>5, <2>1, <2>2, <2>5, <4>1
    <3> QED
      BY <3>8, <3>9
  <2> QED
    BY <2>4, <2>5
<1> QED
  BY <1>5, <1>4, <1>6, <1>7

\* The beginning of what begins p does so too.
LEMMA BeginsShorter ==
  ASSUME NEW v \in Seq(Byte), NEW x \in Seq(Byte), NEW w, w = v \o x, NEW k, NEW p, Begins(w, k, p)
  PROVE  Begins(v, Len(v), p) /\ Len(v) <= k
<1>1. PICK m, n \in Nat : m = Len(v) /\ n = Len(x)
  BY LenProperties
<1>2. Len(w) = m + n /\ \A i \in 1 .. m + n : w[i] = IF i <= m THEN v[i] ELSE x[i - m]
  BY <1>1, ConcatProperties
<1>3. p \in Seq(Byte) /\ k = m + n /\ \A i \in 1 .. k : w[i] = p[i]
  BY <1>2 DEF Begins
<1>4. ASSUME NEW i \in 1 .. m
      PROVE  v[i] = p[i]
  <2>1. i \in 1 .. m + n /\ i <= m
    BY <1>1
  <2> QED
    BY <1>2, <1>3, <2>1
<1> QED
  BY <1>1, <1>3, <1>4 DEF Begins

\* Without dots nothing is taken out.
LEMMA NoDots ==
  ASSUME NEW s \in Seq(Byte), \A i \in 1 .. Len(s) : s[i] # DOT
  PROVE  Begins(Unstuffed(s, Len(s)), Len(s), s)
<1>1. PICK n \in Nat : n = Len(s)
  BY LenProperties
<1> DEFINE S == {k \in 0 .. n : Begins(Unstuffed(s, k), k, s)}
<1>2. 0 \in S
  <2>1. [i \in 1 .. 0 |-> Whole("dot input", s, i)] = <<>> /\ <<>> \in Seq(Byte) /\ Len(<<>>) = 0
    OBVIOUS
  <2>2. FlattenSeq(<<>>) = <<>>
    BY <2>1, FlattenOne
  <2>3. Unstuffed(s, 0) = <<>>
    BY <2>1, <2>2 DEF Unstuffed
  <2>4. Begins(<<>>, 0, s)
    BY <2>1 DEF Begins
  <2>5. 0 \in 0 .. n
    OBVIOUS
  <2> QED
    BY <2>3, <2>4, <2>5
<1>3. ASSUME NEW k \in 1 .. n, k - 1 \in S
      PROVE  k \in S
  <2>1. PICK h \in Nat : h = k - 1 /\ h + 1 = k /\ h + 1 <= Len(s) /\ h + 1 \in 1 .. Len(s)
    BY <1>1
  <2>2. Begins(Unstuffed(s, h), h, s)
    BY <1>3, <2>1
  <2>3. Whole("dot input", s, h + 1) = <<s[h + 1]>>
    BY <2>1, WholeIn
  <2>4. Unstuffed(s, h + 1) = Unstuffed(s, h) \o <<s[h + 1]>>
    BY <2>1, <2>3, UnstuffedOne
  <2>5. Begins(Unstuffed(s, h + 1), h + 1, s)
    BY <2>1, <2>2, <2>4, BeginsMore
  <2> QED
    BY <2>1, <2>5
<1>4. 0 .. n \subseteq S
  <2> HIDE DEF S
  <2> QED
    BY <1>2, <1>3, NumberInduction
<1> QED
  BY <1>1, <1>4

\* m characters of the text pass both stop filters, and what comes through the
\* last filter is a beginning of p.
PassesOn(m, p) ==
  /\ text \in Seq(Byte) /\ m \in Nat /\ m <= Len(text) /\ Len(text) <= m + 5 /\ FirstLine(p)
  /\ job.accepted = TRUE => Sent(text, m, p) /\ Len(text) = m + 5 /\ p[1] = OK /\ p = Answer(job.message)
  /\ job.accepted = FALSE => m = 3 /\ Len(text) = 3 /\ Len(p) = 3 /\ p[1] = ERR
  /\ \A k \in 0 .. m + 4 : k <= Len(text) => NotAt(Terminator, text, k)
  /\ \A k \in 0 .. m : NotAt(BareTerminator, text, k)
  /\ \A h \in 0 .. m : Begins(Unstuffed(text, h), Len(Unstuffed(text, h)), p) /\ Len(Unstuffed(text, h)) <= Len(p)

\* What was sent does so.
LEMMA WhatPasses ==
  ASSUME ReplySent
  PROVE  \E m, p : PassesOn(m, p)
<1>1. job.accepted \in BOOLEAN /\ job.message \in Messages
  BY DEF ReplySent
<1>2. CASE job.accepted = TRUE
  <2>1. PICK m, p : m = Len(text) - 5 /\ p = Answer(job.message)
    OBVIOUS
  <2>2. Sent(text, m, p)
    BY <1>2, <2>1 DEF ReplySent
  <2>3. /\ text \in Seq(Byte) /\ m \in Nat /\ Len(text) = m + 5 /\ p \in Seq(Byte)
        /\ Begins(Unstuffed(text, m), Len(p) - 2, p)
    BY <2>2 DEF Sent
  <2>4. FirstLine(p) /\ p[1] = OK
    <3>1. IsAnswer(p, Lines(job.message))
      BY <1>1, <2>1, AnswerIs
    <3>2. PICK k \in Nat : k = Len(Lines(job.message))
      BY <3>1, LenProperties DEF IsAnswer
    <3>3. Len(p) = 3 + k /\ p[1] = OK /\ p[2] = CR /\ p[3] = LF
      BY <3>1, <3>2 DEF IsAnswer
    <3>4. Len(p) >= 3
      BY <3>2, <3>3
    <3> QED
      BY <3>3, <3>4 DEF FirstLine
  <2>5. \A k \in 0 .. m + 4 : NotAt(Terminator, text, k)
    BY <2>2, SentMarks
  <2>6. \A k \in 0 .. m : NotAt(BareTerminator, text, k)
    <3>1. \A k \in 0 .. m : k \in 0 .. m + 2
      BY <2>3
    <3> QED
      BY <2>2, <3>1, SentMarks
  <2>7. ASSUME NEW h \in 0 .. m
        PROVE  Begins(Unstuffed(text, h), Len(Unstuffed(text, h)), p) /\ Len(Unstuffed(text, h)) <= Len(p)
    <3>1. PICK i \in Nat : i = m - h /\ h + i = m /\ h \in Nat /\ h + i <= Len(text)
      BY <2>3
    <3>2. PICK x : x = FlattenSeq([q \in 1 .. i |-> Whole("dot input", text, h + q)])
      OBVIOUS
    <3>3. /\ Unstuffed(text, h) \in Seq(Byte) /\ x \in Seq(Byte)
          /\ Unstuffed(text, m) = Unstuffed(text, h) \o x
      <4>1. h + i = m /\ h \in Nat /\ i \in Nat /\ h + i <= Len(text) /\ text \in Seq(Byte)
        BY <2>3, <3>1
      <4>2. PICK y : y = h + i
        OBVIOUS
      <4>3. Unstuffed(text, h) \in Seq(Byte) /\ x \in Seq(Byte) /\ Unstuffed(text, y) = Unstuffed(text, h) \o x
        BY <3>2, <4>1, <4>2, UnstuffedGrows
      <4>4. y = m
        BY <4>1, <4>2
      <4> QED
        BY <4>3, <4>4
    <3>4. Begins(Unstuffed(text, h), Len(Unstuffed(text, h)), p) /\ Len(Unstuffed(text, h)) <= Len(p) - 2
      BY <2>3, <3>3, BeginsShorter
    <3>5. Len(Unstuffed(text, h)) \in Nat /\ Len(p) \in Nat
      BY <2>3, <3>3, LenProperties
    <3> QED
      BY <3>4, <3>5
  <2>8. m <= Len(text) /\ Len(text) <= m + 5
    BY <2>3
  <2>9. PassesOn(m, p)
    BY <1>2, <2>1, <2>2, <2>3, <2>4, <2>5, <2>6, <2>7, <2>8 DEF PassesOn
  <2> QED
    BY <2>9
<1>3. CASE job.accepted = FALSE
  <2>1. text = <<ERR, CR, LF>>
    BY <1>3 DEF ReplySent
  <2>2. ERR \in Byte /\ CR \in Byte /\ LF \in Byte /\ ERR # DOT /\ CR # DOT /\ LF # DOT
    BY DEF ERR, CR, LF, DOT, Byte
  <2>3. text \in Seq(Byte) /\ Len(text) = 3 /\ text[1] = ERR /\ text[2] = CR /\ text[3] = LF
    BY <2>1, <2>2
  <2>4. FirstLine(text)
    BY <2>3 DEF FirstLine
  <2>5. \A k \in 0 .. 3 : NotAt(Terminator, text, k) /\ NotAt(BareTerminator, text, k)
    BY <2>1, RefusedMarks
  <2>6. \A k \in 0 .. 3 + 4 : k <= Len(text) => NotAt(Terminator, text, k)
    <3>1. \A k \in 0 .. 3 + 4 : k <= 3 => k \in 0 .. 3
      OBVIOUS
    <3> QED
      BY <2>3, <2>5, <3>1
  <2>7. Begins(Unstuffed(text, 3), 3, text)
    <3>1. \A i \in 1 .. 3 : text[i] # DOT
      <4>1. \A i \in 1 .. 3 : i = 1 \/ i = 2 \/ i = 3
        OBVIOUS
      <4> QED
        BY <2>2, <2>3, <4>1
    <3> QED
      BY <2>3, <3>1, NoDots
  <2>8. ASSUME NEW h \in 0 .. 3
        PROVE  Begins(Unstuffed(text, h), Len(Unstuffed(text, h)), text) /\ Len(Unstuffed(text, h)) <= Len(text)
    <3>1. PICK i, m \in Nat : m = 3 /\ i = 3 - h /\ h + i = m /\ h \in Nat /\ h + i <= Len(text)
      BY <2>3
    <3>2. PICK x : x = FlattenSeq([q \in 1 .. i |-> Whole("dot input", text, h + q)])
      OBVIOUS
    <3>3. /\ Unstuffed(text, h) \in Seq(Byte) /\ x \in Seq(Byte)
          /\ Unstuffed(text, m) = Unstuffed(text, h) \o x
      <4>1. h + i = m /\ h \in Nat /\ i \in Nat /\ h + i <= Len(text)
        BY <3>1
      <4> QED
        BY <2>3, <3>2, <4>1, UnstuffedGrows
    <3>4. Begins(Unstuffed(text, m), 3, text)
      BY <2>7, <3>1
    <3> QED
      BY <2>3, <3>3, <3>4, BeginsShorter
  <2>9. 3 \in Nat /\ 3 <= Len(text) /\ Len(text) <= 3 + 5
    BY <2>3
  <2>10. PassesOn(3, text)
    BY <1>3, <2>3, <2>4, <2>5, <2>6, <2>8, <2>9 DEF PassesOn
  <2> QED
    BY <2>10
<1> QED
  BY <1>1, <1>2, <1>3

\* What holds after a step, with the values that the variables then have.
LEMMA StandsAfter ==
  ASSUME ReplySent, job' = job, text' = text, NEW w, w = worker', NEW k, k = at', NEW o, o = output',
         k \in 0 .. Len(text), ReplyWorker(w), Stands(w, k, o)
  PROVE  ReplyInv'
<1>1. ReplySent'
  BY DEF ReplySent
<1>2. ReplyWorker(worker)' /\ (at \in 0 .. Len(text))'
  BY DEF ReplyWorker
<1>3. \A i : LastAt(i)' = LastAt(i)
  BY DEF LastAt
<1>4. Stands(worker, at, output)'
  BY DEF Stands, Reads, LastAt, HasMessage
<1> QED
  BY <1>1, <1>2, <1>4 DEF ReplyInv

\* What is known of an object that reads.
LEMMA ReadsFacts ==
  ASSUME ReplyInv, job.kind = "reply", worker.outcome = "reading"
  PROVE  ReplySent /\ at \in 0 .. Len(text) /\ ReplyWorker(worker) /\ Reads(worker, at, output)
<1>1. ReplySent /\ at \in 0 .. Len(text) /\ ReplyWorker(worker) /\ Stands(worker, at, output)
  BY DEF ReplyInv
<1>2. worker.outcome # "done" /\ worker.outcome \notin {"timed out", "refused"}
  OBVIOUS
<1> QED
  BY <1>1, <1>2 DEF Stands

\* A piece goes through both stop filters.
ComesThrough(m, p, k, n, data, f5, f3, one, two) ==
  /\ PassesOn(m, p) /\ job.accepted \in BOOLEAN /\ k + n <= Len(text) /\ IsPiece(data, text, k, n)
  /\ HeldAt(text, k, f5, Terminator) /\ f5 # 5 /\ (job.accepted = TRUE => Tracks(f5, k, m))
  /\ HeldAt(text, k - f5, f3, BareTerminator) /\ f3 # 3
  /\ one = Stopped(Terminator, f5, data) /\ two = Stopped(BareTerminator, f3, one.out)

\* They hold back the beginnings of their sequences, and the rest goes on.
CameThrough(m, k, n, f5, f3, one, two) ==
  /\ HeldAt(text, k + n, one.found, Terminator) /\ (job.accepted = TRUE => Tracks(one.found, k + n, m))
  /\ HeldAt(text, (k + n) - one.found, two.found, BareTerminator) /\ two.found # 3
  /\ \E h, i \in Nat : /\ h = (k - f5) - f3 /\ h + i = ((k + n) - one.found) - two.found
                        /\ h + i <= m /\ IsPiece(two.out, text, h, i)

\* That is so.
LEMMA PieceThrough ==
  ASSUME NEW m, NEW p, NEW k \in Nat, NEW n \in Nat, NEW data, NEW f5, NEW f3, NEW one, NEW two,
         ComesThrough(m, p, k, n, data, f5, f3, one, two)
  PROVE  CameThrough(m, k, n, f5, f3, one, two)
<1>1. /\ PassesOn(m, p) /\ job.accepted \in BOOLEAN /\ k + n <= Len(text) /\ IsPiece(data, text, k, n)
      /\ HeldAt(text, k, f5, Terminator) /\ f5 # 5 /\ (job.accepted = TRUE => Tracks(f5, k, m))
      /\ HeldAt(text, k - f5, f3, BareTerminator) /\ f3 # 3
      /\ one = Stopped(Terminator, f5, data) /\ two = Stopped(BareTerminator, f3, one.out)
  BY DEF ComesThrough
<1>2. /\ text \in Seq(Byte) /\ m \in Nat /\ m <= Len(text) /\ Len(text) <= m + 5
      /\ job.accepted = TRUE => Sent(text, m, p) /\ Len(text) = m + 5
      /\ job.accepted = FALSE => m = Len(text)
      /\ \A i \in 0 .. m + 4 : i <= Len(text) => NotAt(Terminator, text, i)
      /\ \A i \in 0 .. m : NotAt(BareTerminator, text, i)
  BY <1>1 DEF PassesOn
<1>3. PICK l \in Nat : l = Len(text)
  BY <1>2, LenProperties
<1>4. /\ Len(Terminator) = 5 /\ Len(BareTerminator) = 3
      /\ Terminator \in Seq(Byte) /\ Terminator # <<>> /\ BareTerminator \in Seq(Byte) /\ BareTerminator # <<>>
  BY DEF Terminator, BareTerminator, CR, LF, DOT, Byte
<1>5. f5 \in 0 .. 4 /\ f5 <= k /\ f3 \in 0 .. 2 /\ f3 <= k - f5
  <2>1. f5 \in 0 .. 5 /\ f5 <= k /\ f3 \in 0 .. 3 /\ f3 <= k - f5
    BY <1>1, <1>4 DEF HeldAt
  <2> QED
    BY <1>1, <2>1
<1>6. Cut(one, text, k - f5, k + n, Terminator)
  <2>1. \A i \in k .. (k + n) - 1 : NotAt(Terminator, text, i)
    <3>1. \A i \in k .. (k + n) - 1 : i \in 0 .. m + 4 /\ i <= Len(text)
      BY <1>1, <1>2, <1>3
    <3> QED
      BY <1>2, <3>1
  <2> QED
    BY <1>1, <1>2, <1>4, <2>1, OneStops
<1>7. ASSUME job.accepted = TRUE
      PROVE  Tracks(one.found, k + n, m)
  <2>1. Sent(text, m, p) /\ k + n <= m + 5
    BY <1>1, <1>2, <1>7
  <2>2. Tracks(f5, k, m)
    BY <1>1, <1>7
  <2> QED
    BY <1>1, <2>1, <2>2, OneTracks
<1>8. PICK j, g, i \in Nat : j = k - f5 /\ g = one.found /\ j + i = (k + n) - g /\ i = (k + n) - g - j
  <2>1. one.found \in 0 .. 5 /\ (k - f5) + one.found <= k + n
    BY <1>4, <1>6 DEF Cut
  <2>2. PICK g \in Nat : g = one.found /\ (k - f5) + g <= k + n
    BY <2>1
  <2>3. k - f5 \in Nat
    BY <1>5
  <2>4. PICK j \in Nat : j = k - f5
    BY <2>3
  <2>5. (k + n) - g - j \in Nat /\ j + ((k + n) - g - j) = (k + n) - g
    BY <2>2, <2>4
  <2> QED
    BY <2>2, <2>4, <2>5
<1>9. /\ IsPiece(one.out, text, j, i) /\ HeldAt(text, k + n, g, Terminator)
  <2>1. /\ g \in 0 .. Len(Terminator) /\ j + g <= k + n /\ IsPiece(one.out, text, j, i)
        /\ \A q \in 1 .. g : text[((k + n) - g) + q] = Terminator[q]
    BY <1>6, <1>8 DEF Cut
  <2>2. g <= k + n
    BY <1>8
  <2> QED
    BY <2>1, <2>2 DEF HeldAt
<1>10. j + i <= m
  <2>1. CASE job.accepted = TRUE
    <3>1. k + n > m => g = (k + n) - m
      BY <1>7, <1>8, <2>1 DEF Tracks
    <3>2. m \in Nat
      BY <1>2
    <3>3. (k + n) - g <= m
      <4>1. g \in Nat
        BY <1>8
      <4> QED
        BY <3>1, <3>2, <4>1
    <3>4. j + i = (k + n) - g
      BY <1>8
    <3> QED
      BY <3>3, <3>4
  <2>2. CASE job.accepted = FALSE
    <3>1. m = l /\ k + n <= l
      BY <1>1, <1>2, <1>3, <2>2
    <3>2. k + n <= m
      BY <3>1
    <3>3. j + i = (k + n) - g /\ g \in Nat
      BY <1>8
    <3>4. m \in Nat
      BY <1>2
    <3> QED
      BY <3>2, <3>3, <3>4
  <2> QED
    BY <1>1, <2>1, <2>2
<1>11. Cut(two, text, j - f3, j + i, BareTerminator)
  <2>1. \A q \in j .. (j + i) - 1 : NotAt(BareTerminator, text, q)
    <3>1. \A q \in j .. (j + i) - 1 : q \in 0 .. m
      <4>1. m \in Nat /\ j \in Nat /\ i \in Nat
        BY <1>2, <1>8
      <4> QED
        BY <1>10, <4>1
    <3> QED
      BY <1>2, <3>1
  <2>2. j + i <= Len(text) /\ HeldAt(text, j, f3, BareTerminator)
    BY <1>1, <1>2, <1>3, <1>8, <1>10
  <2> QED
    BY <1>1, <1>2, <1>4, <1>9, <2>1, <2>2, OneStops
<1>12. PICK h, e, q \in Nat : h = j - f3 /\ e = two.found /\ h + q = (j + i) - e /\ q = (j + i) - e - h
  <2>1. two.found \in 0 .. 3 /\ (j - f3) + two.found <= j + i
    BY <1>4, <1>11 DEF Cut
  <2>2. PICK e \in Nat : e = two.found /\ (j - f3) + e <= j + i
    BY <2>1
  <2>3. j - f3 \in Nat
    BY <1>5, <1>8
  <2>4. PICK h \in Nat : h = j - f3
    BY <2>3
  <2>5. (j + i) - e - h \in Nat /\ h + ((j + i) - e - h) = (j + i) - e
    BY <2>2, <2>4
  <2> QED
    BY <2>2, <2>4, <2>5
<1>13. /\ IsPiece(two.out, text, h, q) /\ HeldAt(text, j + i, e, BareTerminator)
       /\ e \in 0 .. 3 /\ \A r \in 1 .. e : text[((j + i) - e) + r] = BareTerminator[r]
  <2>1. /\ e \in 0 .. Len(BareTerminator) /\ h + e <= j + i /\ IsPiece(two.out, text, h, q)
        /\ \A r \in 1 .. e : text[((j + i) - e) + r] = BareTerminator[r]
    BY <1>11, <1>12 DEF Cut
  <2>2. e <= j + i
    BY <1>12
  <2> QED
    BY <1>4, <2>1, <2>2 DEF HeldAt
<1>14. e # 3
  <2>1. NotAt(BareTerminator, text, j + i)
    BY <1>2, <1>10
  <2>2. ASSUME e = 3
        PROVE  FALSE
    <3>1. j + i >= 3
      BY <1>12, <2>2
    <3> QED
      BY <1>4, <1>13, <2>1, <2>2, <3>1 DEF NotAt
  <2> QED
    BY <2>2
<1>15. h = (k - f5) - f3 /\ h + q = ((k + n) - one.found) - two.found /\ h + q <= m
  <2>1. h = (k - f5) - f3
    BY <1>8, <1>12
  <2>2. h + q = ((k + n) - one.found) - two.found
    <3>1. h + q = ((k + n) - g) - e
      BY <1>8, <1>12
    <3> QED
      BY <1>8, <1>12, <3>1
  <2>3. h + q <= m
    <3>1. m \in Nat /\ j \in Nat /\ i \in Nat /\ e \in Nat /\ h + q = (j + i) - e
      BY <1>2, <1>8, <1>12
    <3> QED
      BY <1>10, <3>1
  <2> QED
    BY <2>1, <2>2, <2>3
<1>16. HeldAt(text, k + n, one.found, Terminator) /\ HeldAt(text, (k + n) - one.found, two.found, BareTerminator) /\ two.found # 3
  BY <1>8, <1>9, <1>12, <1>13, <1>14
<1> QED
  BY <1>7, <1>13, <1>15, <1>16 DEF CameThrough

\* One step of reading: a piece of n characters goes through the filters, which
\* leave the object in the state, and x is given out.
ReadsOn(n, one, two, state, x) ==
  /\ one = Stopped(Terminator, worker.found5, Piece(n)) /\ two = Stopped(BareTerminator, worker.found3, one.out)
  /\ state = [worker EXCEPT !.found5 = one.found, !.found3 = two.found,
                !.previous2 = Last2(two.out)[1], !.previous1 = Last2(two.out)[2]]
  /\ x = DotUnstuffed(two.out) /\ Deliver(state, x) /\ at' = at + n

\* readLargeResponse takes such a step.
LEMMA ReadsAPiece ==
  ASSUME readLargeResponse
  PROVE  /\ job.kind = "reply" /\ worker.outcome = "reading" /\ worker.found5 # 5 /\ worker.found3 # 3
         /\ job' = job /\ text' = text
         /\ \E n \in Sizes : \E one, two, state, x : ReadsOn(n, one, two, state, x)
<1>1. Len(Terminator) = 5 /\ Len(BareTerminator) = 3
  BY DEF Terminator, BareTerminator
<1>2. job.kind = "reply" /\ worker.outcome = "reading" /\ worker.found5 # 5 /\ worker.found3 # 3
  BY <1>1 DEF readLargeResponse, Reading, Ended
<1>3. job' = job /\ text' = text
  BY DEF readLargeResponse
<1>4. \E n \in Sizes : \E one, two, state, x : ReadsOn(n, one, two, state, x)
  BY DEF readLargeResponse, ReadsOn
<1> QED
  BY <1>2, <1>3, <1>4

\* What the object then holds back, and what x adds to the h characters that
\* had come through all filters.
ReadThrough(m, n, state, x) ==
  /\ HeldAt(text, at + n, state.found5, Terminator) /\ (job.accepted = TRUE => Tracks(state.found5, at + n, m))
  /\ HeldAt(text, (at + n) - state.found5, state.found3, BareTerminator) /\ state.found3 # 3
  /\ SameReply(state, worker) /\ x \in Seq(Byte)
  /\ \E h, i \in Nat : /\ h = (at - worker.found5) - worker.found3
                        /\ h + i = ((at + n) - state.found5) - state.found3 /\ h + i \in 0 .. m
                        /\ Unstuffed(text, h) \in Seq(Byte) /\ Unstuffed(text, h + i) = Unstuffed(text, h) \o x
                        /\ state.previous2 = LastAt((h + i) - 1) /\ state.previous1 = LastAt(h + i)

\* It holds that back.
LEMMA ReadsThrough ==
  ASSUME ReplySent, ReplyWorker(worker), at \in 0 .. Len(text), Reads(worker, at, output), worker.found5 # 5,
         NEW m, NEW p, PassesOn(m, p), NEW n \in Sizes, NEW one, NEW two, NEW state, NEW x, ReadsOn(n, one, two, state, x)
  PROVE  ReadThrough(m, n, state, x)
<1>1. /\ one = Stopped(Terminator, worker.found5, Piece(n)) /\ two = Stopped(BareTerminator, worker.found3, one.out)
      /\ state = [worker EXCEPT !.found5 = one.found, !.found3 = two.found,
                    !.previous2 = Last2(two.out)[1], !.previous1 = Last2(two.out)[2]]
      /\ x = DotUnstuffed(two.out)
  BY DEF ReadsOn
<1>2. PICK a, b, c, d : a = one.found /\ b = two.found /\ c = Last2(two.out)[1] /\ d = Last2(two.out)[2]
  OBVIOUS
<1>3. state.found5 = a /\ state.found3 = b /\ state.previous2 = c /\ state.previous1 = d /\ SameReply(state, worker)
  <2>1. state = Refiltered(worker, a, b, c, d)
    BY <1>1, <1>2 DEF Refiltered
  <2> QED
    BY <2>1, ChangesFilters
<1>4. PICK k, l \in Nat : k = at /\ l = Len(text) /\ k <= l
  <2>1. text \in Seq(Byte)
    BY DEF PassesOn
  <2> QED
    BY <2>1, LenProperties
<1>5. n \in Nat /\ k + n <= Len(text) /\ IsPiece(Piece(n), text, k, n)
  <2>1. text \in Seq(Byte)
    BY DEF PassesOn
  <2>2. /\ n \in Nat /\ at + n \in 1 .. Len(text) /\ Piece(n) \in Seq(Byte) /\ Len(Piece(n)) = n
        /\ \A i \in 1 .. n : Piece(n)[i] = text[at + i]
    BY <2>1, NextPiece
  <2>3. IsPiece(Piece(n), text, at, n)
    BY <2>2 DEF IsPiece
  <2>4. k + n <= l
    BY <1>4, <2>2
  <2> QED
    BY <1>4, <2>2, <2>3, <2>4
<1>6. PICK f5, f3 : f5 = worker.found5 /\ f3 = worker.found3
  OBVIOUS
<1>7. /\ HeldAt(text, k, f5, Terminator) /\ (job.accepted = TRUE => Tracks(f5, k, m))
      /\ HeldAt(text, k - f5, f3, BareTerminator) /\ f3 # 3
      /\ worker.previous2 = LastAt(((k - f5) - f3) - 1) /\ worker.previous1 = LastAt((k - f5) - f3)
  <2>1. /\ HeldAt(text, k, f5, Terminator) /\ (job.accepted = TRUE => Tracks(f5, k, Len(text) - 5))
        /\ HeldAt(text, k - f5, f3, BareTerminator) /\ f3 # 3
        /\ worker.previous2 = LastAt(((k - f5) - f3) - 1) /\ worker.previous1 = LastAt((k - f5) - f3)
    BY <1>4, <1>6 DEF Reads
  <2>2. job.accepted = TRUE => Len(text) - 5 = m
    <3>1. m \in Nat /\ (job.accepted = TRUE => Len(text) = m + 5)
      BY DEF PassesOn
    <3> QED
      BY <3>1
  <2> QED
    BY <2>1, <2>2
<1>8. ComesThrough(m, p, k, n, Piece(n), f5, f3, one, two)
  <2>1. job.accepted \in BOOLEAN
    BY DEF ReplySent
  <2> QED
    BY <1>1, <1>5, <1>6, <1>7, <2>1 DEF ComesThrough
<1>9. CameThrough(m, k, n, f5, f3, one, two)
  BY <1>5, <1>8, PieceThrough
<1>10. /\ HeldAt(text, k + n, one.found, Terminator) /\ (job.accepted = TRUE => Tracks(one.found, k + n, m))
       /\ HeldAt(text, (k + n) - one.found, two.found, BareTerminator) /\ two.found # 3
       /\ \E h, i \in Nat : /\ h = (k - f5) - f3 /\ h + i = ((k + n) - one.found) - two.found
                            /\ h + i <= m /\ IsPiece(two.out, text, h, i)
  BY <1>9 DEF CameThrough
<1>11. PICK h, i \in Nat : /\ h = (k - f5) - f3 /\ h + i = ((k + n) - one.found) - two.found
                           /\ h + i <= m /\ IsPiece(two.out, text, h, i)
  BY <1>10
<1>12. text \in Seq(Byte) /\ m \in Nat /\ h + i <= Len(text) /\ h + i \in 0 .. m
  <2>1. text \in Seq(Byte) /\ m \in Nat /\ m <= Len(text)
    BY DEF PassesOn
  <2>2. h + i \in 0 .. m
    BY <1>11, <2>1
  <2>3. h + i <= l
    BY <1>4, <1>11, <2>1
  <2> QED
    BY <1>4, <2>1, <2>2, <2>3
<1>13. PICK y : y = two.out
  OBVIOUS
<1>14. /\ x = FlattenSeq([q \in 1 .. i |-> Whole("dot input", text, h + q)])
       /\ c = LastAt((h + i) - 1) /\ d = LastAt(h + i)
  <2>1. IsPiece(y, text, h, i) /\ worker.previous2 = LastAt(h - 1) /\ worker.previous1 = LastAt(h)
    BY <1>7, <1>11, <1>13
  <2>2. /\ DotUnstuffed(y) = FlattenSeq([q \in 1 .. i |-> Whole("dot input", text, h + q)])
        /\ Last2(y)[1] = LastAt((h + i) - 1) /\ Last2(y)[2] = LastAt(h + i)
    BY <1>12, <2>1, PieceUnstuffed, ZenonT(60)
  <2> QED
    BY <1>1, <1>2, <1>13, <2>2
<1>15. /\ Unstuffed(text, h) \in Seq(Byte) /\ x \in Seq(Byte)
       /\ Unstuffed(text, h + i) = Unstuffed(text, h) \o x
  BY <1>12, <1>14, UnstuffedGrows
<1>16. h = (at - worker.found5) - worker.found3 /\ h + i = ((at + n) - state.found5) - state.found3
  BY <1>2, <1>3, <1>4, <1>6, <1>11
<1>17. /\ HeldAt(text, at + n, state.found5, Terminator) /\ (job.accepted = TRUE => Tracks(state.found5, at + n, m))
       /\ HeldAt(text, (at + n) - state.found5, state.found3, BareTerminator) /\ state.found3 # 3
  BY <1>2, <1>3, <1>4, <1>10
<1> QED
  BY <1>3, <1>12, <1>14, <1>15, <1>16, <1>17 DEF ReadThrough

\* A piece is read.
LEMMA ReplyInvReads ==
  ASSUME ReplyInv, readLargeResponse
  PROVE  ReplyInv'
<1>1. /\ job.kind = "reply" /\ worker.outcome = "reading" /\ worker.found5 # 5
      /\ job' = job /\ text' = text
      /\ \E n \in Sizes : \E one, two, state, x : ReadsOn(n, one, two, state, x)
  BY ReadsAPiece
<1>2. ReplySent /\ at \in 0 .. Len(text) /\ ReplyWorker(worker) /\ Reads(worker, at, output)
  BY <1>1, ReadsFacts
<1>3. PICK m, p : PassesOn(m, p)
  BY <1>2, WhatPasses
<1>4. PICK n \in Sizes : \E one, two, state, x : ReadsOn(n, one, two, state, x)
  BY <1>1
<1>5. PICK one, two, state, x : ReadsOn(n, one, two, state, x)
  BY <1>4
<1>6. ReadThrough(m, n, state, x)
  BY <1>1, <1>2, <1>3, <1>5, ReadsThrough
<1>7. /\ HeldAt(text, at + n, state.found5, Terminator) /\ (job.accepted = TRUE => Tracks(state.found5, at + n, m))
      /\ HeldAt(text, (at + n) - state.found5, state.found3, BareTerminator) /\ state.found3 # 3
      /\ SameReply(state, worker) /\ x \in Seq(Byte)
      /\ \E h, i \in Nat : /\ h = (at - worker.found5) - worker.found3
                           /\ h + i = ((at + n) - state.found5) - state.found3 /\ h + i \in 0 .. m
                           /\ Unstuffed(text, h) \in Seq(Byte) /\ Unstuffed(text, h + i) = Unstuffed(text, h) \o x
                           /\ state.previous2 = LastAt((h + i) - 1) /\ state.previous1 = LastAt(h + i)
  BY <1>6 DEF ReadThrough
<1>8. PICK h, i \in Nat : /\ h = (at - worker.found5) - worker.found3
                          /\ h + i = ((at + n) - state.found5) - state.found3 /\ h + i \in 0 .. m
                          /\ Unstuffed(text, h) \in Seq(Byte) /\ Unstuffed(text, h + i) = Unstuffed(text, h) \o x
                          /\ state.previous2 = LastAt((h + i) - 1) /\ state.previous1 = LastAt(h + i)
  BY <1>7
<1>9. Deliver(state, x) /\ at' = at + n
  BY <1>5 DEF ReadsOn
<1>10. /\ text \in Seq(Byte) /\ m \in Nat /\ FirstLine(p)
       /\ job.accepted = TRUE => Len(text) = m + 5 /\ p[1] = OK
       /\ \A j \in 0 .. m : Begins(Unstuffed(text, j), Len(Unstuffed(text, j)), p)
  BY <1>3 DEF PassesOn
<1>11. PICK v, w : v = Unstuffed(text, h) /\ w = v \o x
  OBVIOUS
<1>12. ReplyWorker(state) /\ state.temp = worker.temp /\ state.codeDone = worker.codeDone /\ state.outcome = "reading"
  BY <1>1, <1>7 DEF SameReply
<1>13. Given(state.temp, state.codeDone, v, output)
  BY <1>2, <1>8, <1>11, <1>12 DEF Reads
<1>14. w = Unstuffed(text, h + i) /\ Begins(w, Len(w), p)
  BY <1>8, <1>10, <1>11
<1>15. /\ SameFilters(worker', state)
       /\ \/ worker'.outcome = state.outcome /\ Given(worker'.temp, worker'.codeDone, w, output')
          \/ p[1] = ERR /\ worker'.outcome = "refused" /\ output' = <<>>
  <2>1. v \in Seq(Byte) /\ x \in Seq(Byte) /\ Begins(v \o x, Len(v \o x), p)
    BY <1>7, <1>8, <1>11, <1>14
  <2>2. /\ SameFilters(worker', state)
        /\ \/ worker'.outcome = state.outcome /\ Given(worker'.temp, worker'.codeDone, v \o x, output')
           \/ p[1] = ERR /\ worker'.outcome = "refused" /\ output' = <<>>
    BY <1>9, <1>10, <1>12, <1>13, <2>1, Delivers
  <2> QED
    BY <1>11, <2>2
<1>16. /\ ReplyWorker(worker') /\ worker'.found5 = state.found5 /\ worker'.found3 = state.found3
       /\ worker'.previous2 = state.previous2 /\ worker'.previous1 = state.previous1
  BY <1>15 DEF SameFilters
<1>17. PICK now, k, o : now = worker' /\ k = at' /\ o = output'
  OBVIOUS
<1>18. k \in 0 .. Len(text)
  <2>1. n \in Nat /\ at + n \in 1 .. Len(text)
    BY <1>2, <1>10, NextPiece
  <2> QED
    BY <1>9, <1>17, <2>1
<1>19. Stands(now, k, o)
  <2>1. CASE worker'.outcome = state.outcome /\ Given(worker'.temp, worker'.codeDone, w, output')
    <3>1. now.outcome = "reading" /\ Given(now.temp, now.codeDone, w, o)
      BY <1>12, <1>17, <2>1
    <3>2. job.accepted = TRUE => Len(text) - 5 = m
      BY <1>10
    <3>3. HeldAt(text, k, now.found5, Terminator) /\ (job.accepted = TRUE => Tracks(now.found5, k, Len(text) - 5))
      BY <1>7, <1>9, <1>16, <1>17, <3>2
    <3>4. HeldAt(text, k - now.found5, now.found3, BareTerminator) /\ now.found3 # 3
      BY <1>7, <1>9, <1>16, <1>17
    <3>5. h + i = (k - now.found5) - now.found3
      BY <1>8, <1>9, <1>16, <1>17
    <3>6. now.previous2 = LastAt((h + i) - 1) /\ now.previous1 = LastAt(h + i)
      BY <1>8, <1>16, <1>17
    <3>7. Reads(now, k, o)
      BY <1>14, <3>1, <3>3, <3>4, <3>5, <3>6 DEF Reads
    <3> QED
      BY <3>1, <3>7 DEF Stands
  <2>2. CASE p[1] = ERR /\ worker'.outcome = "refused" /\ output' = <<>>
    <3>1. job.accepted \in BOOLEAN /\ OK # ERR
      BY <1>2 DEF ReplySent, OK, ERR
    <3>2. job.accepted = FALSE
      BY <1>10, <2>2, <3>1
    <3> QED
      BY <1>17, <2>2, <3>2 DEF Stands
  <2> QED
    BY <1>15, <2>1, <2>2
<1>20. ReplyWorker(now)
  BY <1>16, <1>17
<1> QED
  BY <1>1, <1>2, <1>17, <1>18, <1>19, <1>20, StandsAfter

\* What was given out of u, which begins p, when p begins with an answer before
\* these lines.
LEMMA GivenIsPrefix ==
  ASSUME NEW p, NEW lines, IsAnswer(p, lines), NEW u \in Seq(Byte), NEW k \in Nat, k = Len(u), k <= Len(p), Begins(u, k, p),
         NEW temp, NEW done, NEW out, Given(temp, done, u, out)
  PROVE  /\ out \in Seq(Byte) /\ Len(out) = IF k >= 3 THEN k - 3 ELSE 0
         /\ Len(out) <= Len(lines) /\ \A i \in 1 .. Len(out) : out[i] = lines[i]
<1>1. PICK l \in Nat : l = Len(lines) /\ Len(p) = 3 + l /\ k <= 3 + l
  BY LenProperties DEF IsAnswer
<1>2. \A i \in 1 .. k : u[i] = p[i]
  BY DEF Begins
<1>3. p[3] = LF /\ \A i \in 1 .. l : p[3 + i] = lines[i]
  BY <1>1 DEF IsAnswer
<1>4. done \in BOOLEAN
  BY DEF Given
<1>5. CASE done = TRUE
  <2>1. Len(u) >= 3 /\ IsPiece(out, u, 3, Len(u) - 3)
    BY <1>5 DEF Given
  <2>2. PICK n \in Nat : n = k - 3 /\ 3 + n = k /\ n <= l
    BY <1>1, <2>1
  <2>3. out \in Seq(Byte) /\ Len(out) = n /\ \A i \in 1 .. n : out[i] = u[3 + i]
    BY <2>1, <2>2 DEF IsPiece
  <2>4. ASSUME NEW i \in 1 .. n
        PROVE  out[i] = lines[i]
    <3>1. 3 + i \in 1 .. k /\ i \in 1 .. l
      BY <2>2
    <3> QED
      BY <1>2, <1>3, <2>3, <3>1
  <2>5. n = IF k >= 3 THEN k - 3 ELSE 0
    BY <2>2
  <2> QED
    BY <1>1, <2>2, <2>3, <2>4, <2>5
<1>6. CASE done = FALSE
  <2>1. out = <<>> /\ \A i \in 1 .. k : u[i] # LF
    BY <1>6 DEF Given
  <2>2. ~(k >= 3)
    <3>1. SUFFICES ASSUME k >= 3
                   PROVE  FALSE
      OBVIOUS
    <3>2. 3 \in 1 .. k
      BY <3>1
    <3> QED
      BY <1>2, <1>3, <2>1, <3>2
  <2>3. out \in Seq(Byte) /\ Len(out) = 0
    BY <2>1
  <2>4. \A i \in 1 .. 0 : out[i] = lines[i]
    OBVIOUS
  <2> QED
    BY <1>1, <2>2, <2>3, <2>4
<1> QED
  BY <1>4, <1>5, <1>6

\* All of it but the last line end has been given out when u is p but for that.
LEMMA GivenIsAll ==
  ASSUME NEW p, NEW lines, IsAnswer(p, lines), NEW u \in Seq(Byte), Begins(u, Len(p) - 2, p),
         NEW temp, NEW done, NEW out, Given(temp, done, u, out)
  PROVE  out = SubSeq(lines, 1, Len(lines) - 2)
<1>1. PICK l \in Nat : l = Len(lines) /\ Len(p) = 3 + l
  BY LenProperties DEF IsAnswer
<1>2. PICK k \in Nat : k = l + 1 /\ k = Len(u) /\ k <= Len(p) /\ Len(p) - 2 = k
  BY <1>1 DEF Begins
<1>3. /\ out \in Seq(Byte) /\ Len(out) = IF k >= 3 THEN k - 3 ELSE 0
      /\ Len(out) <= Len(lines) /\ \A i \in 1 .. Len(out) : out[i] = lines[i]
  <2>1. Begins(u, k, p)
    BY <1>2
  <2> QED
    BY <1>2, <2>1, GivenIsPrefix
<1>4. lines \in Seq(Byte)
  BY DEF IsAnswer
<1>5. PICK n : n = l - 2 /\ n \in Int /\ n <= l /\ n = Len(lines) - 2 /\ Len(out) = IF n >= 1 THEN n ELSE 0
  BY <1>1, <1>2, <1>3
<1>6. CASE n >= 1
  <2>1. \A i \in 1 .. n : lines[i] \in Byte
    <3>1. \A i \in 1 .. n : i \in 1 .. Len(lines)
      BY <1>1, <1>5
    <3> QED
      BY <1>4, <3>1, ElementOfSeq
  <2>2. PICK one : one = 1 /\ one \in Int
    OBVIOUS
  <2>3. PICK s : s = SubSeq(lines, one, n)
    OBVIOUS
  <2>4. s = SubSeq(lines, one, n) /\ one = 1 /\ one \in Int
    BY <2>2, <2>3
  <2>5. /\ s \in Seq(Byte) /\ Len(s) = IF one <= n THEN (n - one) + 1 ELSE 0
        /\ \A i \in 1 .. (n - one) + 1 : s[i] = lines[(one + i) - 1]
    <3>1. \A i \in one .. n : lines[i] \in Byte
      BY <2>1, <2>4
    <3> QED
      BY <1>5, <2>4, <3>1, SubSeqProperties
  <2>6. Len(s) = n
    BY <1>5, <1>6, <2>4, <2>5
  <2>7. ASSUME NEW i \in 1 .. n
        PROVE  s[i] = lines[i]
    <3>1. i \in 1 .. (n - one) + 1 /\ (one + i) - 1 = i
      BY <1>5, <2>4
    <3> QED
      BY <2>5, <3>1
  <2>8. Len(out) = n /\ \A i \in 1 .. n : out[i] = s[i]
    BY <1>3, <1>5, <1>6, <2>7
  <2>9. out = s
    BY <1>3, <2>5, <2>6, <2>8, SeqEqual
  <2> QED
    BY <1>5, <2>4, <2>9
<1>7. CASE n < 1
  <2>1. SubSeq(lines, 1, n) = <<>>
    BY <1>5, <1>7, SubSeqEmpty
  <2>2. Len(out) = 0
    BY <1>5, <1>7
  <2>3. out = <<>>
    BY <1>3, <2>2, EmptySeq
  <2> QED
    BY <1>5, <2>1, <2>3
<1> QED
  BY <1>5, <1>6, <1>7

\* A refusal gives nothing out.
LEMMA RefusalGivesNothing ==
  ASSUME NEW p, Len(p) = 3, NEW u \in Seq(Byte), Len(u) <= Len(p), NEW temp, NEW done, NEW out, Given(temp, done, u, out)
  PROVE  out = <<>>
<1>1. PICK k \in Nat : k = Len(u) /\ k <= 3
  BY LenProperties
<1>2. done \in BOOLEAN
  BY DEF Given
<1>3. CASE done = TRUE
  <2>1. out \in Seq(Byte) /\ Len(out) = k - 3 /\ k >= 3
    BY <1>1, <1>3 DEF Given, IsPiece
  <2>2. Len(out) = 0
    BY <1>1, <2>1
  <2> QED
    BY <2>1, <2>2, EmptySeq
<1>4. CASE done = FALSE
  BY <1>4 DEF Given
<1> QED
  BY <1>2, <1>3, <1>4

\* What has come through all filters.
LEMMA ThroughSoFar ==
  ASSUME at \in 0 .. Len(text), Reads(worker, at, output), NEW m, NEW p, PassesOn(m, p),
         job.accepted \in BOOLEAN
  PROVE  \E h \in 0 .. m : h = (at - worker.found5) - worker.found3
<1>1. PICK k, l, n \in Nat : k = at /\ l = Len(text) /\ k <= l /\ n = m /\ l <= n + 5
  <2>1. text \in Seq(Byte) /\ m \in Nat /\ Len(text) <= m + 5
    BY DEF PassesOn
  <2> QED
    BY <2>1, LenProperties, SMTT(60)
<1>2. Len(Terminator) = 5 /\ Len(BareTerminator) = 3
  BY DEF Terminator, BareTerminator
<1>3. PICK f5, f3 : f5 = worker.found5 /\ f3 = worker.found3
  OBVIOUS
<1>4. /\ HeldAt(text, k, f5, Terminator) /\ (job.accepted = TRUE => Tracks(f5, k, l - 5))
      /\ HeldAt(text, k - f5, f3, BareTerminator)
  BY <1>1, <1>3 DEF Reads
<1>5. f5 \in 0 .. 5 /\ f5 <= k /\ f3 \in 0 .. 3 /\ f3 <= k - f5
  BY <1>2, <1>4 DEF HeldAt
<1>6. k - f5 <= n
  <2>1. CASE job.accepted = TRUE
    <3>1. l = n + 5
      BY <1>1, <2>1 DEF PassesOn
    <3>2. l - 5 = n
      BY <3>1
    <3>3. k > n => f5 = k - n
      BY <1>4, <2>1, <3>2 DEF Tracks
    <3> QED
      BY <1>5, <3>3
  <2>2. CASE job.accepted = FALSE
    <3>1. l = n
      BY <1>1, <2>2 DEF PassesOn
    <3> QED
      BY <1>1, <1>5, <3>1
  <2> QED
    BY <2>1, <2>2
<1>7. (k - f5) - f3 \in 0 .. n
  BY <1>5, <1>6
<1> QED
  BY <1>1, <1>3, <1>7

\* Whatever has been read of a refusal, nothing of it has been given out; of
\* the answer, the beginning.
LEMMA ReadsGives ==
  ASSUME ReplySent, at \in 0 .. Len(text), Reads(worker, at, output)
  PROVE  /\ job.accepted = FALSE => output = <<>>
         /\ job.accepted = TRUE => /\ output \in Seq(Byte) /\ Len(output) <= Len(Lines(job.message))
                                   /\ \A i \in 1 .. Len(output) : output[i] = Lines(job.message)[i]
<1>1. job.accepted \in BOOLEAN /\ job.message \in Messages
  BY DEF ReplySent
<1>2. PICK m, p : PassesOn(m, p)
  BY WhatPasses
<1>3. PICK h \in 0 .. m : h = (at - worker.found5) - worker.found3
  BY <1>1, <1>2, ThroughSoFar
<1>4. PICK u : u = Unstuffed(text, h)
  OBVIOUS
<1>5. Given(worker.temp, worker.codeDone, u, output)
  BY <1>3, <1>4 DEF Reads
<1>6. u \in Seq(Byte) /\ Begins(u, Len(u), p) /\ Len(u) <= Len(p)
  <2>1. Begins(u, Len(u), p) /\ Len(u) <= Len(p)
    BY <1>2, <1>4 DEF PassesOn
  <2> QED
    BY <2>1 DEF Begins
<1>7. CASE job.accepted = FALSE
  <2>1. Len(p) = 3
    BY <1>2, <1>7 DEF PassesOn
  <2>2. output = <<>>
    BY <1>5, <1>6, <2>1, RefusalGivesNothing
  <2> QED
    BY <1>7, <2>2
<1>8. CASE job.accepted = TRUE
  <2>1. p = Answer(job.message)
    BY <1>2, <1>8 DEF PassesOn
  <2>2. PICK lines : lines = Lines(job.message)
    OBVIOUS
  <2>3. IsAnswer(p, lines)
    BY <1>1, <2>1, <2>2, AnswerIs
  <2>4. PICK k \in Nat : k = Len(u)
    BY <1>6, LenProperties
  <2>5. Begins(u, k, p) /\ k <= Len(p)
    BY <1>6, <2>4
  <2>6. output \in Seq(Byte) /\ Len(output) <= Len(lines) /\ \A i \in 1 .. Len(output) : output[i] = lines[i]
    BY <1>5, <1>6, <2>3, <2>4, <2>5, GivenIsPrefix
  <2> QED
    BY <1>8, <2>2, <2>6
<1> QED
  BY <1>1, <1>7, <1>8

\* At the end of its input the first filter has found its sequence, and what the
\* second one holds back is all that is missing.
LEMMA EndsThere ==
  ASSUME ReplySent, at \in 0 .. Len(text), Reads(worker, at, output), Ended, NEW m, NEW p, PassesOn(m, p)
  PROVE  /\ job.accepted = TRUE
         /\ \E h, i \in Nat : /\ h = (at - worker.found5) - worker.found3 /\ h + i = m
                               /\ IsPiece(HeldBack, text, h, i)
<1>1. /\ Len(Terminator) = 5 /\ Len(BareTerminator) = 3 /\ BareTerminator \in Seq(Byte)
      /\ \A q \in 1 .. 3 : BareTerminator[q] \in Byte
  <2>1. Len(Terminator) = 5 /\ Len(BareTerminator) = 3 /\ BareTerminator \in Seq(Byte)
    BY DEF Terminator, BareTerminator, CR, LF, DOT, Byte
  <2> QED
    BY <2>1, ElementOfSeq
<1>2. PICK k, l, n \in Nat : k = at /\ l = Len(text) /\ k <= l /\ n = m /\ l <= n + 5
  <2>1. text \in Seq(Byte) /\ m \in Nat /\ Len(text) <= m + 5
    BY DEF PassesOn
  <2> QED
    BY <2>1, LenProperties
<1>3. PICK f3 : f3 = worker.found3
  OBVIOUS
<1>4. f3 # 3 /\ worker.found5 = 5
  BY <1>1, <1>3 DEF Reads, Ended
<1>5. HeldAt(text, k, 5, Terminator) /\ HeldAt(text, k - 5, f3, BareTerminator)
  BY <1>2, <1>3, <1>4 DEF Reads
<1>6. k >= 5 /\ \A q \in 1 .. 5 : text[(k - 5) + q] = Terminator[q]
  BY <1>1, <1>2, <1>5 DEF HeldAt
<1>7. ~NotAt(Terminator, text, k)
  BY <1>1, <1>6 DEF NotAt
<1>8. k = n + 5 /\ l = n + 5
  <2>1. k \in 0 .. m + 4 /\ k <= Len(text) => NotAt(Terminator, text, k)
    BY <1>2 DEF PassesOn
  <2>2. ~(k \in 0 .. n + 4)
    BY <1>2, <1>7, <2>1
  <2> QED
    BY <1>2, <2>2
<1>9. job.accepted = TRUE
  <2>1. job.accepted \in BOOLEAN
    BY DEF ReplySent
  <2>2. job.accepted = FALSE => l = n
    BY <1>2 DEF PassesOn
  <2> QED
    BY <1>8, <2>1, <2>2
<1>10. f3 \in 0 .. 2 /\ f3 <= n /\ \A q \in 1 .. f3 : text[(n - f3) + q] = BareTerminator[q]
  <2>1. k - 5 = n
    BY <1>8
  <2>2. f3 \in 0 .. 3 /\ f3 <= n /\ \A q \in 1 .. f3 : text[(n - f3) + q] = BareTerminator[q]
    BY <1>1, <1>5, <2>1 DEF HeldAt
  <2> QED
    BY <1>4, <2>2
<1>11. PICK h \in Nat : h = n - f3 /\ h + f3 = n /\ h = (at - worker.found5) - worker.found3 /\ f3 \in Nat
  <2>1. n - f3 \in Nat /\ (n - f3) + f3 = n /\ n - f3 = (k - 5) - f3 /\ f3 \in Nat
    BY <1>8, <1>10
  <2> QED
    BY <1>2, <1>3, <1>4, <2>1
<1>12. PICK back : back = HeldBack
  OBVIOUS
<1>13. back \in Seq(Byte) /\ Len(back) = f3 /\ \A q \in 1 .. f3 : back[q] = BareTerminator[q]
  <2>1. f3 % 3 = f3
    BY <1>10
  <2>2. back = SubSeq(BareTerminator, 1, f3)
    BY <1>1, <1>3, <1>12, <2>1 DEF HeldBack
  <2>3. PICK one : one = 1 /\ one \in Int
    OBVIOUS
  <2>4. one = 1 /\ one \in Int /\ back = SubSeq(BareTerminator, one, f3)
    BY <2>2, <2>3
  <2>5. \A q \in one .. f3 : BareTerminator[q] \in Byte
    <3>1. \A q \in one .. f3 : q \in 1 .. 3
      BY <1>10, <2>4
    <3> QED
      BY <1>1, <3>1
  <2>6. f3 \in Int
    BY <1>10
  <2>7. /\ back \in Seq(Byte) /\ Len(back) = IF one <= f3 THEN (f3 - one) + 1 ELSE 0
        /\ \A i \in 1 .. (f3 - one) + 1 : back[i] = BareTerminator[(one + i) - 1]
    BY <2>4, <2>5, <2>6, SubSeqProperties
  <2>8. Len(back) = f3
    BY <1>10, <2>4, <2>7
  <2>9. ASSUME NEW q \in 1 .. f3
        PROVE  back[q] = BareTerminator[q]
    <3>1. q \in 1 .. (f3 - one) + 1 /\ (one + q) - 1 = q
      BY <1>10, <2>4
    <3> QED
      BY <2>7, <3>1
  <2> QED
    BY <2>7, <2>8, <2>9
<1>14. IsPiece(HeldBack, text, h, f3)
  BY <1>10, <1>11, <1>12, <1>13 DEF IsPiece
<1> QED
  BY <1>2, <1>9, <1>11, <1>14

\* At the end of the stream what was held back is given out.
LEMMA ReplyInvEnds ==
  ASSUME ReplyInv, endOfStream
  PROVE  ReplyInv'
<1>1. PICK state, x : /\ state = [worker EXCEPT !.outcome = "done"] /\ x = DotUnstuffed(HeldBack)
                      /\ Deliver(state, x) /\ job' = job /\ text' = text /\ at' = at
  BY DEF endOfStream
<1>2. job.kind = "reply" /\ worker.outcome = "reading" /\ Ended
  BY DEF endOfStream, Reading
<1>3. ReplySent /\ at \in 0 .. Len(text) /\ ReplyWorker(worker) /\ Reads(worker, at, output)
  BY <1>2, ReadsFacts
<1>4. PICK m, p : PassesOn(m, p)
  BY <1>3, WhatPasses
<1>5. /\ job.accepted = TRUE
      /\ \E h, i \in Nat : /\ h = (at - worker.found5) - worker.found3 /\ h + i = m
                           /\ IsPiece(HeldBack, text, h, i)
  BY <1>2, <1>3, <1>4, EndsThere
<1>6. PICK h, i \in Nat : /\ h = (at - worker.found5) - worker.found3 /\ h + i = m
                          /\ IsPiece(HeldBack, text, h, i)
  BY <1>5
<1>7. /\ text \in Seq(Byte) /\ m \in Nat /\ m <= Len(text) /\ FirstLine(p) /\ p[1] = OK
      /\ Sent(text, m, p) /\ p = Answer(job.message)
      /\ Begins(Unstuffed(text, m), Len(Unstuffed(text, m)), p)
  <2>1. /\ text \in Seq(Byte) /\ m \in Nat /\ m <= Len(text) /\ FirstLine(p) /\ p[1] = OK
        /\ Sent(text, m, p) /\ p = Answer(job.message)
    BY <1>4, <1>5 DEF PassesOn
  <2>2. m \in 0 .. m
    BY <2>1
  <2>3. Begins(Unstuffed(text, m), Len(Unstuffed(text, m)), p)
    BY <1>4, <2>2 DEF PassesOn
  <2> QED
    BY <2>1, <2>3
<1>8. PICK back, v, u : back = HeldBack /\ v = Unstuffed(text, h) /\ u = Unstuffed(text, m)
  OBVIOUS
<1>9. v \in Seq(Byte) /\ x \in Seq(Byte) /\ u = v \o x
  <2>1. IsPiece(back, text, h, i) /\ worker.previous2 = LastAt(h - 1) /\ worker.previous1 = LastAt(h)
    BY <1>3, <1>6, <1>8 DEF Reads
  <2>2. h + i <= Len(text)
    BY <1>6, <1>7
  <2>3. DotUnstuffed(back) = FlattenSeq([q \in 1 .. i |-> Whole("dot input", text, h + q)])
    BY <1>7, <2>1, <2>2, PieceUnstuffed
  <2>4. x = FlattenSeq([q \in 1 .. i |-> Whole("dot input", text, h + q)])
    BY <1>1, <1>8, <2>3
  <2>5. v \in Seq(Byte) /\ x \in Seq(Byte) /\ Unstuffed(text, h + i) = v \o x
    BY <1>7, <1>8, <2>2, <2>4, UnstuffedGrows
  <2> QED
    BY <1>6, <1>8, <2>5
<1>10. PICK d : d = "done"
  OBVIOUS
<1>11. SameFilters(state, worker) /\ state.outcome = d /\ state.codeDone = worker.codeDone /\ state.temp = worker.temp
  <2>1. state = Reported(worker, d)
    BY <1>1, <1>10 DEF Reported
  <2> QED
    BY <1>3, <2>1, ChangesOutcome
<1>12. Given(state.temp, state.codeDone, v, output)
  BY <1>3, <1>6, <1>8, <1>11 DEF Reads
<1>13. /\ SameFilters(worker', state)
       /\ \/ worker'.outcome = state.outcome /\ Given(worker'.temp, worker'.codeDone, u, output')
          \/ p[1] = ERR /\ worker'.outcome = "refused" /\ output' = <<>>
  <2>1. ReplyWorker(state)
    BY <1>11 DEF SameFilters
  <2>2. Begins(v \o x, Len(v \o x), p)
    BY <1>7, <1>8, <1>9
  <2>3. /\ SameFilters(worker', state)
        /\ \/ worker'.outcome = state.outcome /\ Given(worker'.temp, worker'.codeDone, v \o x, output')
           \/ p[1] = ERR /\ worker'.outcome = "refused" /\ output' = <<>>
    BY <1>1, <1>7, <1>9, <1>12, <2>1, <2>2, Delivers
  <2> QED
    BY <1>9, <2>3
<1>14. worker'.outcome = "done" /\ Given(worker'.temp, worker'.codeDone, u, output')
  <2>1. OK # ERR
    BY DEF OK, ERR
  <2> QED
    BY <1>7, <1>10, <1>11, <1>13, <2>1
<1>15. PICK now, k, o : now = worker' /\ k = at' /\ o = output'
  OBVIOUS
<1>16. HasMessage(o)
  <2>1. job.message \in Messages
    BY <1>3 DEF ReplySent
  <2>2. PICK lines : lines = Lines(job.message)
    OBVIOUS
  <2>3. IsAnswer(p, lines)
    BY <1>7, <2>1, <2>2, AnswerIs
  <2>4. u \in Seq(Byte) /\ Begins(u, Len(p) - 2, p)
    BY <1>7, <1>8 DEF Sent, Begins
  <2>5. o = SubSeq(lines, 1, Len(lines) - 2)
    BY <1>14, <1>15, <2>3, <2>4, GivenIsAll
  <2> QED
    BY <2>2, <2>5 DEF HasMessage
<1>17. ReplyWorker(now) /\ now.outcome = "done"
  BY <1>13, <1>14, <1>15 DEF SameFilters
<1>18. Stands(now, k, o)
  BY <1>5, <1>16, <1>17 DEF Stands
<1>19. k \in 0 .. Len(text)
  BY <1>1, <1>3, <1>15
<1> QED
  BY <1>1, <1>3, <1>15, <1>17, <1>18, <1>19, StandsAfter

\* Only a refusal can time out: of an answer the end is seen.
LEMMA ReplyInvTimesOut ==
  ASSUME ReplyInv, timeOut
  PROVE  ReplyInv'
<1>1. /\ job.kind = "reply" /\ worker.outcome = "reading" /\ at = Len(text) /\ worker.found5 # 5
      /\ job' = job /\ text' = text /\ at' = at /\ output' = output /\ worker' = [worker EXCEPT !.outcome = "timed out"]
  <2>1. Len(Terminator) = 5
    BY DEF Terminator
  <2> QED
    BY <2>1 DEF timeOut, Reading, AllRead, Ended
<1>2. ReplySent /\ at \in 0 .. Len(text) /\ ReplyWorker(worker) /\ Reads(worker, at, output)
  BY <1>1, ReadsFacts
<1>3. PICK m, p : PassesOn(m, p)
  BY <1>2, WhatPasses
<1>4. job.accepted = FALSE
  <2>1. SUFFICES ASSUME job.accepted = TRUE
                 PROVE  FALSE
    BY <1>2 DEF ReplySent
  <2>2. m \in Nat /\ Len(text) = m + 5
    BY <1>3, <2>1 DEF PassesOn
  <2>3. Len(text) - 5 = m /\ m + 5 > m /\ (m + 5) - m = 5
    BY <2>2
  <2>4. Tracks(worker.found5, m + 5, m)
    BY <1>1, <1>2, <2>1, <2>2, <2>3 DEF Reads
  <2>5. worker.found5 = 5
    BY <2>3, <2>4 DEF Tracks
  <2> QED
    BY <1>1, <2>5
<1>5. output = <<>>
  BY <1>2, <1>4, ReadsGives
<1>6. PICK d : d = "timed out"
  OBVIOUS
<1>7. PICK now, k, o : now = worker' /\ k = at' /\ o = output'
  OBVIOUS
<1>8. ReplyWorker(now) /\ now.outcome = d
  <2>1. now = Reported(worker, d)
    BY <1>1, <1>6, <1>7 DEF Reported
  <2>2. SameFilters(now, worker) /\ now.outcome = d
    BY <1>2, <2>1, ChangesOutcome
  <2> QED
    BY <2>2 DEF SameFilters
<1>9. Stands(now, k, o)
  BY <1>1, <1>4, <1>5, <1>6, <1>7, <1>8 DEF Stands
<1>10. k \in 0 .. Len(text)
  BY <1>1, <1>2, <1>7
<1> QED
  BY <1>1, <1>2, <1>7, <1>8, <1>9, <1>10, StandsAfter

\* Every step keeps it.
LEMMA ReplyInvStep == ReplyInv /\ [Next]_streamVars => ReplyInv'
<1>1. ASSUME ReplyInv, Next
      PROVE  ReplyInv'
  <2>1. job' = job /\ (job.kind = "reply" => ReplyNext)
    BY <1>1, NextOfKind
  <2>2. CASE job.kind = "reply"
    BY <1>1, <2>1, <2>2, ReplyInvReads, ReplyInvEnds, ReplyInvTimesOut DEF ReplyNext
  <2>3. CASE job.kind # "reply"
    BY <2>1, <2>3 DEF ReplyInv
  <2> QED
    BY <2>2, <2>3
<1>2. ASSUME ReplyInv, UNCHANGED streamVars
      PROVE  ReplyInv'
  <2>1. job' = job /\ text' = text /\ at' = at /\ worker' = worker /\ output' = output
    BY <1>2 DEF streamVars
  <2>2. CASE job.kind # "reply"
    BY <2>1, <2>2 DEF ReplyInv
  <2>3. CASE job.kind = "reply"
    <3>1. ReplySent /\ at \in 0 .. Len(text) /\ ReplyWorker(worker) /\ Stands(worker, at, output)
      BY <1>2, <2>3 DEF ReplyInv
    <3>2. PICK now, k, o : now = worker /\ k = at /\ o = output
      OBVIOUS
    <3>3. now = worker' /\ k = at' /\ o = output' /\ k \in 0 .. Len(text) /\ ReplyWorker(now) /\ Stands(now, k, o)
      BY <2>1, <3>1, <3>2
    <3> QED
      BY <2>1, <3>1, <3>3, StandsAfter
  <2> QED
    BY <2>2, <2>3
<1> QED
  BY <1>1, <1>2

\* The beginning of a sequence.
LEMMA PrefixIs ==
  ASSUME NEW s \in Seq(Byte), NEW t \in Seq(Byte), Len(s) <= Len(t), \A i \in 1 .. Len(s) : s[i] = t[i]
  PROVE  IsPrefix(s, t)
<1>1. PICK n \in Nat : n = Len(s)
  BY LenProperties
<1>2. PICK one, a, b : one = 1 /\ a = SubSeq(s, 1, n) /\ b = SubSeq(t, 1, n)
  OBVIOUS
<1>3. one \in Int /\ n \in Int /\ a = SubSeq(s, one, n) /\ b = SubSeq(t, one, n)
  BY <1>2
<1>4. \A i \in one .. n : s[i] \in Byte /\ t[i] \in Byte
  <2>1. \A i \in one .. n : i \in 1 .. Len(s) /\ s[i] = t[i]
    BY <1>1, <1>2
  <2> QED
    BY <2>1, ElementOfSeq
<1>5. /\ a \in Seq(Byte) /\ Len(a) = IF one <= n THEN (n - one) + 1 ELSE 0
      /\ \A i \in 1 .. (n - one) + 1 : a[i] = s[(one + i) - 1]
  BY <1>3, <1>4, SubSeqProperties
<1>6. /\ b \in Seq(Byte) /\ Len(b) = IF one <= n THEN (n - one) + 1 ELSE 0
      /\ \A i \in 1 .. (n - one) + 1 : b[i] = t[(one + i) - 1]
  BY <1>3, <1>4, SubSeqProperties
<1>7. Len(a) = n /\ Len(b) = n
  BY <1>2, <1>5, <1>6
<1>8. ASSUME NEW i \in 1 .. n
      PROVE  a[i] = b[i]
  <2>1. i \in 1 .. (n - one) + 1 /\ (one + i) - 1 = i
    BY <1>2
  <2>2. a[i] = s[i] /\ b[i] = t[i]
    BY <1>5, <1>6, <2>1
  <2> QED
    BY <1>1, <2>2
<1>9. a = b
  BY <1>5, <1>6, <1>7, <1>8, SeqEqual
<1> QED
  BY <1>1, <1>2, <1>9 DEF IsPrefix

\* What has been given out begins the lines of the message.
LEMMA ReplyInvMeans == ReplyInv => ContentIsMessage
<1> SUFFICES ASSUME ReplyInv, job.kind = "reply"
             PROVE  ContentIsMessage
  BY DEF ContentIsMessage
<1>1. ReplySent /\ at \in 0 .. Len(text) /\ ReplyWorker(worker) /\ Stands(worker, at, output)
  BY DEF ReplyInv
<1>2. PICK lines \in Seq(Byte) : lines = Lines(job.message)
  <2>1. job.message \in Messages
    BY <1>1 DEF ReplySent
  <2> QED
    BY <2>1, LinesEnd
<1>3. job.accepted \in BOOLEAN
  BY <1>1 DEF ReplySent
<1>4. SUFFICES /\ IsPrefix(output, lines)
               /\ worker.outcome = "done" => job.accepted = TRUE /\ output = SubSeq(lines, 1, Len(lines) - 2)
               /\ job.accepted = TRUE => worker.outcome \in {"reading", "done"}
  BY <1>2, <1>3 DEF ContentIsMessage
<1>5. <<>> \in Seq(Byte) /\ IsPrefix(<<>>, lines)
  <2>1. PICK none : none = <<>>
    OBVIOUS
  <2>2. none \in Seq(Byte) /\ Len(none) = 0 /\ 0 <= Len(lines)
    BY <2>1, EmptySeq, LenProperties
  <2>3. \A i \in 1 .. Len(none) : none[i] = lines[i]
    BY <2>2
  <2>4. IsPrefix(none, lines)
    BY <2>2, <2>3, PrefixIs
  <2> QED
    BY <2>1, <2>2, <2>4
<1>6. CASE worker.outcome = "reading" /\ Reads(worker, at, output)
  <2>1. /\ job.accepted = FALSE => output = <<>>
        /\ job.accepted = TRUE => /\ output \in Seq(Byte) /\ Len(output) <= Len(lines)
                                  /\ \A i \in 1 .. Len(output) : output[i] = lines[i]
    BY <1>1, <1>2, <1>6, ReadsGives
  <2>2. IsPrefix(output, lines)
    <3>1. CASE job.accepted = FALSE
      BY <1>5, <2>1, <3>1
    <3>2. CASE job.accepted = TRUE
      BY <2>1, <3>2, PrefixIs
    <3> QED
      BY <1>3, <3>1, <3>2
  <2> QED
    BY <1>6, <2>2
<1>7. CASE worker.outcome = "done" /\ job.accepted = TRUE /\ HasMessage(output)
  <2>1. output = SubSeq(lines, 1, Len(lines) - 2)
    BY <1>2, <1>7 DEF HasMessage
  <2>2. IsPrefix(output, lines)
    <3>1. PICK n, one : n = Len(lines) - 2 /\ one = 1
      OBVIOUS
    <3>2. PICK l \in Nat : l = Len(lines) /\ n = l - 2 /\ n \in Int
      BY <3>1, LenProperties
    <3>3. \A i \in one .. n : lines[i] \in Byte
      <4>1. \A i \in one .. n : i \in 1 .. Len(lines)
        BY <3>1, <3>2
      <4> QED
        BY <4>1, ElementOfSeq
    <3>4. one \in Int /\ output = SubSeq(lines, one, n)
      BY <2>1, <3>1
    <3>5. /\ output \in Seq(Byte) /\ Len(output) = IF one <= n THEN (n - one) + 1 ELSE 0
          /\ \A i \in 1 .. (n - one) + 1 : output[i] = lines[(one + i) - 1]
      BY <3>2, <3>3, <3>4, SubSeqProperties
    <3>6. PICK k \in Nat : k = Len(output) /\ k <= l /\ (k > 0 => k = n)
      BY <3>1, <3>2, <3>5
    <3>7. ASSUME NEW i \in 1 .. k
          PROVE  output[i] = lines[i]
      <4>1. i \in 1 .. (n - one) + 1 /\ (one + i) - 1 = i
        BY <3>1, <3>2, <3>6
      <4> QED
        BY <3>5, <4>1
    <3> QED
      BY <3>2, <3>5, <3>6, <3>7, PrefixIs
  <2> QED
    BY <1>7, <2>1, <2>2
<1>8. CASE worker.outcome \in {"timed out", "refused"} /\ job.accepted = FALSE /\ output = <<>>
  BY <1>5, <1>8
<1> QED
  BY <1>1, <1>6, <1>7, <1>8 DEF Stands

\* RETR gives the caller the lines of the message, without the last line end,
\* wherever the reply is cut on its way, and never waits for more than was sent;
\* a refusal gives nothing (POP3Response::readLargeResponse and its filters).
THEOREM RepliesAreMessages == Spec => []ContentIsMessage
  BY ReplyInvInit, ReplyInvStep, ReplyInvMeans, PTL DEF Spec

-----------------------------------------------------------------------------
(* What is encoded can be mailed. *)

\* Lines of s are not longer than most, the last one not longer than col.
ShortLines(s, col, most) ==
  /\ \A i, j \in 1 .. Len(s) : OneLine(s, i, j) => j - i + 1 <= most
  /\ \A i \in 1 .. Len(s) : OneLine(s, i, Len(s)) => Len(s) - i + 1 <= col

\* No line begins with a dot; none ends in a space unless it is the last.
CleanLines(s) ==
  \A i \in 1 .. Len(s) :
    /\ s[i] = DOT => i > 1 /\ s[i - 1] # LF
    /\ s[i] = SPACE /\ i < Len(s) => s[i + 1] \notin {CR, LF}

EndsIn(s, C) == s # <<>> /\ s[Len(s)] \in C

\* Two sequences, one after the other.
IsBoth(t, s, n, w, m) ==
  /\ t \in Seq(Byte) /\ Len(t) = n + m
  /\ \A i \in 1 .. n : t[i] = s[i]
  /\ \A i \in 1 .. m : t[n + i] = w[i]

\* One sequence, then the other.
LEMMA BothAre ==
  ASSUME NEW s \in Seq(Byte), NEW w \in Seq(Byte), NEW n \in Nat, NEW m \in Nat, n = Len(s), m = Len(w)
  PROVE  IsBoth(s \o w, s, n, w, m)
<1>1. PICK t : t = s \o w
  OBVIOUS
<1>2. t \in Seq(Byte) /\ Len(t) = n + m /\ \A i \in 1 .. n + m : t[i] = IF i <= n THEN s[i] ELSE w[i - n]
  BY <1>1, ConcatProperties
<1>3. ASSUME NEW i \in 1 .. n
      PROVE  t[i] = s[i]
  <2>1. i \in 1 .. n + m /\ i <= n
    OBVIOUS
  <2> QED
    BY <1>2, <2>1
<1>4. ASSUME NEW i \in 1 .. m
      PROVE  t[n + i] = w[i]
  <2>1. n + i \in 1 .. n + m /\ ~(n + i <= n) /\ (n + i) - n = i
    OBVIOUS
  <2> QED
    BY <1>2, <2>1
<1> QED
  BY <1>1, <1>2, <1>3, <1>4 DEF IsBoth

\* The last line grows.
LEMMA ShortGrows ==
  ASSUME NEW s \in Seq(Byte), NEW w \in Seq(Byte), NEW col \in Nat, NEW most \in Nat, NEW m \in Nat, m = Len(w),
         ShortLines(s, col, most), col + m <= most
  PROVE  ShortLines(s \o w, col + m, most)
<1>1. PICK n \in Nat : n = Len(s)
  BY LenProperties
<1>2. PICK t : t = s \o w
  OBVIOUS
<1>3. Len(t) = n + m /\ \A i \in 1 .. n : t[i] = s[i]
  BY <1>1, <1>2, BothAre DEF IsBoth
<1>4. ASSUME NEW i \in 1 .. n, NEW j \in 1 .. n, OneLine(t, i, j)
      PROVE  OneLine(s, i, j)
  <2>1. \A k \in i .. j : k \in 1 .. n
    OBVIOUS
  <2> QED
    BY <1>3, <1>4, <2>1 DEF OneLine
<1>5. ASSUME NEW i \in 1 .. n, NEW j \in n .. n + m, OneLine(t, i, j)
      PROVE  n - i + 1 <= col
  <2>1. n \in 1 .. n /\ \A k \in i .. n : k \in i .. j
    OBVIOUS
  <2>2. OneLine(t, i, n)
    BY <1>5, <2>1 DEF OneLine
  <2>3. OneLine(s, i, Len(s))
    BY <1>1, <1>4, <2>1, <2>2
  <2> QED
    BY <1>1, <2>3 DEF ShortLines
<1>6. ASSUME NEW i \in 1 .. n + m, NEW j \in 1 .. n + m, OneLine(t, i, j)
      PROVE  j - i + 1 <= most /\ (j = n + m => j - i + 1 <= col + m)
  <2>1. CASE i <= n /\ j <= n /\ j # n + m
    <3>1. i \in 1 .. n /\ j \in 1 .. n
      BY <2>1
    <3>2. OneLine(s, i, j)
      BY <1>4, <1>6, <3>1
    <3>3. j - i + 1 <= most
      BY <1>1, <3>1, <3>2 DEF ShortLines
    <3> QED
      BY <2>1, <3>3
  <2>2. CASE i <= n /\ j >= n
    <3>1. i \in 1 .. n /\ j \in n .. n + m
      BY <2>2
    <3>2. n - i + 1 <= col
      BY <1>5, <1>6, <3>1
    <3> QED
      BY <2>2, <3>1, <3>2
  <2>3. CASE i > n
    BY <2>3
  <2> QED
    BY <2>1, <2>2, <2>3
<1>7. n + m \in 1 .. n + m \/ n + m = 0
  OBVIOUS
<1>8. \A i, j \in 1 .. Len(t) : OneLine(t, i, j) => j - i + 1 <= most
  BY <1>3, <1>6
<1>9. ASSUME NEW i \in 1 .. n + m, OneLine(t, i, n + m)
      PROVE  (n + m) - i + 1 <= col + m
  <2>1. n + m \in 1 .. n + m
    OBVIOUS
  <2> QED
    BY <1>6, <1>9, <2>1
<1> QED
  BY <1>2, <1>3, <1>8, <1>9 DEF ShortLines

\* A line ends.
LEMMA ShortEnds ==
  ASSUME NEW s \in Seq(Byte), NEW w \in Seq(Byte), NEW col \in Nat, NEW most \in Nat, NEW m \in Nat, m = Len(w),
         ShortLines(s, col, most), m > 0, \A i \in 1 .. m : w[i] \in {CR, LF}
  PROVE  ShortLines(s \o w, 0, most)
<1>1. PICK n \in Nat : n = Len(s)
  BY LenProperties
<1>2. PICK t : t = s \o w
  OBVIOUS
<1>3. Len(t) = n + m /\ (\A i \in 1 .. n : t[i] = s[i]) /\ (\A i \in 1 .. m : t[n + i] = w[i])
  BY <1>1, <1>2, BothAre DEF IsBoth
<1>4. ASSUME NEW i \in 1 .. n, NEW j \in 1 .. n, OneLine(t, i, j)
      PROVE  OneLine(s, i, j)
  <2>1. \A k \in i .. j : k \in 1 .. n
    OBVIOUS
  <2> QED
    BY <1>3, <1>4, <2>1 DEF OneLine
<1>5. ASSUME NEW j \in n + 1 .. n + m, NEW i \in 1 .. n + m, i <= j, OneLine(t, i, j)
      PROVE  FALSE
  <2>1. j - n \in 1 .. m /\ n + (j - n) = j /\ j \in i .. j
    BY <1>5
  <2>2. t[j] \in {CR, LF}
    BY <1>3, <2>1
  <2> QED
    BY <1>5, <2>1, <2>2 DEF OneLine
<1>6. ASSUME NEW i \in 1 .. n + m, NEW j \in 1 .. n + m, OneLine(t, i, j)
      PROVE  j - i + 1 <= most /\ j # n + m
  <2>1. CASE j > n
    <3>1. j \in n + 1 .. n + m
      BY <2>1
    <3>2. i > j
      BY <1>5, <1>6, <3>1
    <3>3. j # n + m
      BY <3>2
    <3> QED
      BY <3>2, <3>3
  <2>2. CASE j <= n /\ i <= n
    <3>1. i \in 1 .. n /\ j \in 1 .. n
      BY <2>2
    <3>2. OneLine(s, i, j)
      BY <1>4, <1>6, <3>1
    <3>3. j - i + 1 <= most
      BY <1>1, <3>1, <3>2 DEF ShortLines
    <3> QED
      BY <2>2, <3>3
  <2>3. CASE j <= n /\ i > n
    BY <2>3
  <2> QED
    BY <2>1, <2>2, <2>3
<1>7. \A i, j \in 1 .. Len(t) : OneLine(t, i, j) => j - i + 1 <= most
  BY <1>3, <1>6
<1>8. n + m \in 1 .. n + m
  OBVIOUS
<1>9. \A i \in 1 .. Len(t) : ~OneLine(t, i, Len(t))
  BY <1>3, <1>6, <1>8
<1> QED
  BY <1>2, <1>7, <1>9 DEF ShortLines

\* Lines stay clean.
LEMMA CleanGrows ==
  ASSUME NEW s \in Seq(Byte), NEW w \in Seq(Byte), NEW m \in Nat, m = Len(w), m > 0, CleanLines(s),
         \A i \in 1 .. m : /\ w[i] = DOT => i = 1 /\ s # <<>> /\ ~EndsIn(s, {LF})
                           /\ w[i] = SPACE => i = m,
         w[1] \in {CR, LF} => ~EndsIn(s, {SPACE})
  PROVE  CleanLines(s \o w) /\ s \o w # <<>> /\ \A C : EndsIn(s \o w, C) <=> w[m] \in C
<1>1. PICK n \in Nat : n = Len(s) /\ (s # <<>> => n > 0) /\ (s = <<>> => n = 0)
  BY LenProperties, EmptySeq
<1>2. PICK t : t = s \o w
  OBVIOUS
<1>3. /\ t \in Seq(Byte) /\ Len(t) = n + m
      /\ (\A i \in 1 .. n : t[i] = s[i]) /\ (\A i \in 1 .. m : t[n + i] = w[i])
  BY <1>1, <1>2, BothAre DEF IsBoth
<1>4. ASSUME NEW i \in 1 .. n
      PROVE  /\ t[i] = DOT => i > 1 /\ t[i - 1] # LF
             /\ t[i] = SPACE /\ i < n + m => t[i + 1] \notin {CR, LF}
  <2>1. /\ s[i] = DOT => i > 1 /\ s[i - 1] # LF
        /\ s[i] = SPACE /\ i < n => s[i + 1] \notin {CR, LF}
    BY <1>1 DEF CleanLines
  <2>2. ASSUME t[i] = DOT
        PROVE  i > 1 /\ t[i - 1] # LF
    <3>1. s[i] = DOT /\ i > 1
      BY <1>3, <2>1, <2>2
    <3>2. i - 1 \in 1 .. n
      BY <3>1
    <3> QED
      BY <1>3, <2>1, <3>1, <3>2
  <2>3. ASSUME t[i] = SPACE
        PROVE  t[i + 1] \notin {CR, LF}
    <3>1. s[i] = SPACE
      BY <1>3, <2>3
    <3>2. CASE i < n
      <4>1. i + 1 \in 1 .. n
        BY <3>2
      <4> QED
        BY <1>3, <2>1, <3>1, <3>2, <4>1
    <3>3. CASE ~(i < n)
      <4>1. i = n /\ s # <<>> /\ 1 \in 1 .. m
        BY <1>1, <3>3
      <4>2. w[1] \notin {CR, LF}
        BY <1>1, <3>1, <4>1 DEF EndsIn
      <4> QED
        BY <1>3, <4>1, <4>2
    <3> QED
      BY <3>2, <3>3
  <2> QED
    BY <2>2, <2>3
<1>5. ASSUME NEW q \in 1 .. m
      PROVE  /\ t[n + q] = DOT => n + q > 1 /\ t[n + q - 1] # LF
             /\ t[n + q] = SPACE /\ n + q < n + m => t[n + q + 1] \notin {CR, LF}
  <2>1. t[n + q] = w[q]
    BY <1>3
  <2>2. ASSUME w[q] = DOT
        PROVE  n + q > 1 /\ t[n + q - 1] # LF
    <3>1. q = 1 /\ s # <<>> /\ s[n] # LF
      BY <1>1, <2>2 DEF EndsIn
    <3>2. n \in 1 .. n /\ n + q - 1 = n /\ n + q > 1
      BY <1>1, <3>1
    <3> QED
      BY <1>3, <3>1, <3>2
  <2>3. w[q] = SPACE => ~(n + q < n + m)
    OBVIOUS
  <2> QED
    BY <2>1, <2>2, <2>3
<1>6. \A i \in 1 .. n + m : i \in 1 .. n \/ \E q \in 1 .. m : i = n + q
  <2> TAKE i \in 1 .. n + m
  <2>1. i \in 1 .. n \/ (i - n \in 1 .. m /\ i = n + (i - n))
    OBVIOUS
  <2> QED
    BY <2>1
<1>7. \A i \in 1 .. n + m : /\ t[i] = DOT => i > 1 /\ t[i - 1] # LF
                            /\ t[i] = SPACE /\ i < n + m => t[i + 1] \notin {CR, LF}
  BY <1>4, <1>5, <1>6
<1>8. CleanLines(t)
  BY <1>3, <1>7 DEF CleanLines
<1>9. m \in 1 .. m
  OBVIOUS
<1>10. t # <<>>
  BY <1>3, EmptySeq
<1>11. t[Len(t)] = w[m]
  BY <1>3, <1>9
<1> QED
  BY <1>2, <1>8, <1>10, <1>11 DEF EndsIn

\* A line of what is encoded is not longer than this.
Longest == job.maxLineLength + (IF job.kind = "base64" THEN 0 ELSE 2)

\* What is written can be mailed, and its last line has no more than col characters.
Mailable(u, col) ==
  /\ u \in Seq(Byte) /\ col \in Nat /\ CleanLines(u)
  /\ col # 0 => u # <<>> /\ ~EndsIn(u, {LF})
  /\ KeepsLines => ShortLines(u, col, Longest)

\* The encoder has a limit on lines or none.
HasLimit == job.maxLineLength \in (Nat \ {0}) \cup {NoLimit}

\* What may be written next on a line of col characters.
GoesOn(u, col, w, m) ==
  /\ w \in Seq(Byte) /\ m \in Nat /\ m = Len(w) /\ m > 0 /\ w[m] # LF
  /\ \A i \in 1 .. m : /\ w[i] = DOT => i = 1 /\ col # 0
                       /\ w[i] = SPACE => i = m
  /\ w[1] \in {CR, LF} => ~EndsIn(u, {SPACE})
  /\ KeepsLines => col + m <= Longest

\* No line may be longer than this, which is not less than the limit.
LEMMA LongestIs == HasLimit /\ KeepsLines => Longest \in Nat /\ Longest >= job.maxLineLength
<1> SUFFICES ASSUME HasLimit, KeepsLines
             PROVE  Longest \in Nat /\ Longest >= job.maxLineLength
  OBVIOUS
<1>1. PICK l \in Nat : l = job.maxLineLength
  BY DEF HasLimit, KeepsLines, cutLines
<1> QED
  BY <1>1 DEF Longest

\* What may be written next on a line keeps the text one that can be mailed.
LEMMA LineGrows ==
  ASSUME HasLimit, NEW u, NEW col, Mailable(u, col), NEW w, NEW m, GoesOn(u, col, w, m)
  PROVE  /\ Mailable(u \o w, col + m) /\ Len(u \o w) = Len(u) + m
         /\ EndsIn(u \o w, {SPACE}) <=> w[m] = SPACE
<1>1. /\ u \in Seq(Byte) /\ col \in Nat /\ CleanLines(u)
      /\ col # 0 => u # <<>> /\ ~EndsIn(u, {LF})
  BY DEF Mailable
<1>2. w \in Seq(Byte) /\ m \in Nat /\ m = Len(w) /\ m > 0 /\ w[m] # LF
  BY DEF GoesOn
<1>3. \A i \in 1 .. m : /\ w[i] = DOT => i = 1 /\ u # <<>> /\ ~EndsIn(u, {LF})
                        /\ w[i] = SPACE => i = m
  BY <1>1 DEF GoesOn
<1>4. w[1] \in {CR, LF} => ~EndsIn(u, {SPACE})
  BY DEF GoesOn
<1>5. PICK t : t = u \o w
  OBVIOUS
<1>6. CleanLines(t) /\ t # <<>> /\ \A C : EndsIn(t, C) <=> w[m] \in C
  BY <1>1, <1>2, <1>3, <1>4, <1>5, CleanGrows
<1>7. ~EndsIn(t, {LF}) /\ (EndsIn(t, {SPACE}) <=> w[m] = SPACE)
  BY <1>2, <1>6
<1>8. t \in Seq(Byte) /\ Len(t) = Len(u) + m
  BY <1>1, <1>2, <1>5, ConcatProperties
<1>9. ASSUME KeepsLines
      PROVE  ShortLines(t, col + m, Longest)
  <2>1. ShortLines(u, col, Longest) /\ col + m <= Longest /\ Longest \in Nat
    BY <1>9, LongestIs DEF Mailable, GoesOn
  <2> QED
    BY <1>1, <1>2, <1>5, <2>1, ShortGrows
<1>10. col + m \in Nat
  BY <1>1, <1>2
<1> QED
  BY <1>5, <1>6, <1>7, <1>8, <1>9, <1>10 DEF Mailable

\* So does a line break, when no space is before it.
LEMMA LineBreaks ==
  ASSUME HasLimit, NEW u, NEW col, Mailable(u, col), ~EndsIn(u, {SPACE}),
         NEW w \in Seq(Byte), NEW m \in Nat, m = Len(w), m > 0, \A i \in 1 .. m : w[i] \in {CR, LF}
  PROVE  Mailable(u \o w, 0) /\ Len(u \o w) = Len(u) + m /\ ~EndsIn(u \o w, {SPACE})
<1>1. u \in Seq(Byte) /\ col \in Nat /\ CleanLines(u)
  BY DEF Mailable
<1>2. PICK t : t = u \o w
  OBVIOUS
<1>3. m \in 1 .. m
  OBVIOUS
<1>4. \A i \in 1 .. m : w[i] # DOT /\ w[i] # SPACE
  BY DEF CR, LF, DOT, SPACE
<1>5. CleanLines(t) /\ t # <<>> /\ \A C : EndsIn(t, C) <=> w[m] \in C
  BY <1>1, <1>2, <1>4, CleanGrows
<1>6. ~EndsIn(t, {SPACE})
  BY <1>3, <1>4, <1>5
<1>7. t \in Seq(Byte) /\ Len(t) = Len(u) + m
  BY <1>1, <1>2, ConcatProperties
<1>8. ASSUME KeepsLines
      PROVE  ShortLines(t, 0, Longest)
  <2>1. ShortLines(u, col, Longest) /\ Longest \in Nat
    BY <1>8, LongestIs DEF Mailable
  <2> QED
    BY <1>1, <1>2, <2>1, ShortEnds
<1> QED
  BY <1>2, <1>5, <1>6, <1>7, <1>8 DEF Mailable

\* The limit of an encoder is the one that was set, or a smaller one of its own.
LEMMA LimitIs ==
  ASSUME NEW l \in Nat, l = job.maxLineLength, NEW most \in Nat
  PROVE  LineLimit(most) \in Nat /\ LineLimit(most) \in {l, most} /\ LineLimit(most) <= l /\ LineLimit(most) <= most
<1>1. {l, most} \in SUBSET Nat /\ {l, most} # {}
  OBVIOUS
<1>2. Min({l, most}) \in {l, most} /\ Min({l, most}) \in Nat /\ \A y \in {l, most} : Min({l, most}) <= y
  BY <1>1, MinOfNumbers
<1> QED
  BY <1>2 DEF LineLimit

\* A byte in hexadecimal.
IsHex(h) ==
  /\ h \in Seq(Byte) /\ Len(h) = 3
  /\ \A i \in 1 .. 3 : h[i] \notin {CR, LF, DOT, SPACE}

\* A byte in hexadecimal is = and two digits or letters.
LEMMA HexIs ==
  ASSUME NEW c \in Byte
  PROVE  IsHex(Hex(c))
<1>1. PICK a, b \in Nat : a = c \div 16 /\ b = c % 16 /\ a <= 15 /\ b <= 15
  BY DEF Byte
<1>2. PICK x, y : x = (IF a < 10 THEN 48 + a ELSE 55 + a) /\ y = IF b < 10 THEN 48 + b ELSE 55 + b
  OBVIOUS
<1>3. x \in 48 .. 70 /\ y \in 48 .. 70
  BY <1>1, <1>2
<1>4. PICK h : h = <<EQUALS, x, y>>
  OBVIOUS
<1>5. h = Hex(c)
  BY <1>1, <1>2, <1>4 DEF Hex
<1>6. EQUALS \in Byte /\ x \in Byte /\ y \in Byte
  BY <1>3 DEF Byte, EQUALS
<1>7. h \in Seq(Byte) /\ Len(h) = 3 /\ h[1] = EQUALS /\ h[2] = x /\ h[3] = y
  BY <1>4, <1>6
<1>8. EQUALS \notin {CR, LF, DOT, SPACE} /\ x \notin {CR, LF, DOT, SPACE} /\ y \notin {CR, LF, DOT, SPACE}
  BY <1>3 DEF EQUALS, CR, LF, DOT, SPACE
<1>9. \A i \in 1 .. 3 : i = 1 \/ i = 2 \/ i = 3
  OBVIOUS
<1> QED
  BY <1>5, <1>7, <1>8, <1>9 DEF IsHex

\* Quoted-printable, after k bytes.
QPJob == job.kind = "quoted-printable" /\ HasLimit
QPState(u, col, k) ==
  /\ Mailable(u, col)
  /\ KeepsLines => col <= LineLimit(74) - 2
  /\ ~cutLines => Len(u) <= 3 * k

\* What a byte makes of it: a space at the end is one that the next byte allows.
ByteGoes(o, r, c, next, k) ==
  \E y, col : /\ r = [out |-> y, column |-> col] /\ y \in Seq(Byte) /\ QPState(o \o y, col, k + 1)
              /\ EndsIn(o \o y, {SPACE}) => c = SPACE /\ next \notin {CR, LF, NoByte}

\* The limit leaves room.
LEMMA QPRoom ==
  ASSUME QPJob, KeepsLines, NEW u, NEW col, NEW k, QPState(u, col, k)
  PROVE  \E l, most \in Nat : /\ l = LineLimit(74) /\ most = Longest /\ l >= 5 /\ l + 2 <= most
                              /\ col \in Nat /\ col <= l - 2
<1>1. PICK q \in Nat : q = job.maxLineLength /\ q >= 5
  BY DEF QPJob, HasLimit, KeepsLines, cutLines
<1>2. PICK l \in Nat : l = LineLimit(74) /\ l \in {q, 74} /\ l <= q
  <2>1. 74 \in Nat
    OBVIOUS
  <2> QED
    BY <1>1, <2>1, LimitIs
<1>3. l >= 5
  BY <1>1, <1>2
<1>4. Longest = q + 2
  BY <1>1 DEF Longest, QPJob
<1>5. col \in Nat /\ col <= l - 2
  BY <1>2 DEF QPState, Mailable
<1> QED
  BY <1>2, <1>3, <1>4, <1>5

\* A few characters that need no care.
IsPlain(w, m) == w \in Seq(Byte) /\ m \in Nat /\ m = Len(w) /\ m > 0 /\ \A i \in 1 .. m : w[i] \notin {CR, LF, DOT, SPACE}

\* What has no dots, spaces or line breaks may be written anywhere there is room.
LEMMA PlainGoes ==
  ASSUME NEW u, NEW col, NEW w, NEW m, IsPlain(w, m), KeepsLines => col + m <= Longest
  PROVE  GoesOn(u, col, w, m) /\ w[m] # SPACE
<1>1. w \in Seq(Byte) /\ m \in Nat /\ m = Len(w) /\ m > 0 /\ \A i \in 1 .. m : w[i] \notin {CR, LF, DOT, SPACE}
  BY DEF IsPlain
<1>2. 1 \in 1 .. m /\ m \in 1 .. m
  BY <1>1
<1>3. w[m] # LF /\ w[m] # SPACE /\ w[1] \notin {CR, LF}
  BY <1>1, <1>2
<1>4. \A i \in 1 .. m : w[i] # DOT /\ w[i] # SPACE
  BY <1>1
<1> QED
  BY <1>1, <1>3, <1>4 DEF GoesOn

\* Bytes in hexadecimal are of this kind.
LEMMA HexIsPlain ==
  ASSUME NEW c \in Byte
  PROVE  IsPlain(Hex(c), 3)
<1>1. IsHex(Hex(c))
  BY HexIs
<1>2. 3 \in Nat /\ 3 > 0
  OBVIOUS
<1> QED
  BY <1>1, <1>2 DEF IsHex, IsPlain

\* So is a byte that is none of these.
LEMMA OneIsPlain ==
  ASSUME NEW c \in Byte, c \notin {CR, LF, DOT, SPACE}
  PROVE  IsPlain(<<c>>, 1)
<1>1. PICK w : w = <<c>>
  OBVIOUS
<1>2. w \in Seq(Byte) /\ Len(w) = 1 /\ w[1] = c
  BY <1>1
<1>3. \A i \in 1 .. 1 : i = 1
  OBVIOUS
<1> QED
  BY <1>1, <1>2, <1>3 DEF IsPlain

\* An encoded word has lines of any length.
LEMMA WordGoes ==
  ASSUME QPJob, job.mode = "rfc2047", NEW o \in Seq(Byte), NEW x \in Seq(Byte), NEW col, NEW k \in Nat,
         QPState(o \o x, col, k), NEW c \in Byte, NEW next
  PROVE  ByteGoes(o, AddByte([out |-> x, column |-> col], c, next), c, next, k)
<1> DEFINE hex == ~(c = SPACE \/ c \in Plain)
           w == IF c = SPACE THEN <<95>> ELSE IF c \in Plain THEN <<c>> ELSE Hex(c)
           m == IF hex THEN 3 ELSE 1
<1>1. IsPlain(w, m) /\ m <= 3
  <2>1. CASE c = SPACE
    <3>1. 95 \in Byte /\ 95 \notin {CR, LF, DOT, SPACE}
      BY DEF Byte, CR, LF, DOT, SPACE
    <3>2. IsPlain(<<95>>, 1)
      BY <3>1, OneIsPlain
    <3> QED
      BY <2>1, <3>2
  <2>2. CASE c # SPACE /\ c \in Plain
    <3>1. c \notin {CR, LF, DOT, SPACE}
      BY <2>2 DEF Plain, CR, LF, DOT, SPACE
    <3>2. IsPlain(<<c>>, 1)
      BY <3>1, OneIsPlain
    <3> QED
      BY <2>2, <3>2
  <2>3. CASE c # SPACE /\ c \notin Plain
    <3>1. IsPlain(Hex(c), 3)
      BY HexIsPlain
    <3> QED
      BY <2>3, <3>1
  <2> QED
    BY <2>1, <2>2, <2>3
<1>2. AddByte([out |-> x, column |-> col], c, next) = [out |-> x \o w, column |-> col]
  <2>1. [out |-> x, column |-> col].out = x
    OBVIOUS
  <2> HIDE DEF w
  <2>2. [[out |-> x, column |-> col] EXCEPT !.out = x \o w] = [out |-> x \o w, column |-> col]
    <3>1. PICK y : y = x \o w
      OBVIOUS
    <3>2. [[out |-> x, column |-> col] EXCEPT !.out = y] = [out |-> y, column |-> col]
      OBVIOUS
    <3> QED
      BY <3>1, <3>2
  <2>3. AddByte([out |-> x, column |-> col], c, next) = [[out |-> x, column |-> col] EXCEPT !.out = x \o w]
    BY DEF AddByte, w
  <2> QED
    BY <2>2, <2>3
<1> HIDE DEF w, m
<1>3. ~KeepsLines /\ HasLimit
  BY DEF KeepsLines, QPJob
<1>4. PICK u : u = o \o x
  OBVIOUS
<1>5. w \in Seq(Byte) /\ m \in Nat /\ m > 0
  BY <1>1 DEF IsPlain
<1>6. u \o w = o \o (x \o w) /\ x \o w \in Seq(Byte)
  BY <1>4, <1>5, Associative, ConcatProperties
<1>7. GoesOn(u, col, w, m) /\ w[m] # SPACE
  BY <1>1, <1>3, PlainGoes
<1>8. Mailable(u, col)
  BY <1>4 DEF QPState
<1>9. Mailable(u \o w, col + m) /\ Len(u \o w) = Len(u) + m /\ ~EndsIn(u \o w, {SPACE})
  BY <1>3, <1>7, <1>8, LineGrows
<1>10. col \in Nat /\ u \in Seq(Byte)
  BY <1>8 DEF Mailable
<1>11. Mailable(u \o w, col)
  <2>1. col # 0 => col + m # 0
    BY <1>5, <1>10
  <2> QED
    BY <1>3, <1>9, <1>10, <2>1 DEF Mailable
<1>12. ~cutLines => Len(u \o w) <= 3 * (k + 1)
  <2>1. PICK n \in Nat : n = Len(u)
    BY <1>10, LenProperties
  <2>2. ~cutLines => n <= 3 * k
    BY <1>4, <2>1 DEF QPState
  <2>3. n <= 3 * k => n + m <= 3 * (k + 1)
    BY <1>1, <1>5
  <2> QED
    BY <1>9, <2>1, <2>2, <2>3
<1>13. QPState(u \o w, col, k + 1)
  BY <1>3, <1>11, <1>12 DEF QPState
<1> QED
  BY <1>2, <1>6, <1>9, <1>13 DEF ByteGoes

\* Otherwise a byte is written, in hexadecimal if need be.
Written(u, col, w, col1, c, next, k) ==
  /\ Mailable(u \o w, col1) /\ w \in Seq(Byte) /\ col1 \in Nat
  /\ KeepsLines => col1 <= col + 3
  /\ ~cutLines => Len(u \o w) <= 3 * (k + 1)
  /\ EndsIn(u \o w, {SPACE}) => c = SPACE /\ next \notin {CR, LF, NoByte}

\* A byte as it is, or in hexadecimal where Encoded says so, goes on with the text.
LEMMA ByteWritten ==
  ASSUME QPJob, NEW u, NEW col, NEW k \in Nat, QPState(u, col, k), NEW c \in Byte, NEW next,
         EndsIn(u, {SPACE}) => c \notin {CR, LF},
         NEW hex \in BOOLEAN, hex <=> Encoded(c, next, col),
         NEW w, w = (IF hex THEN Hex(c) ELSE <<c>>),
         NEW col1, col1 = (IF hex THEN col + 3 ELSE IF c = LF THEN 0 ELSE col + 1)
  PROVE  Written(u, col, w, col1, c, next, k)
<1>1. Mailable(u, col) /\ HasLimit /\ col \in Nat /\ u \in Seq(Byte)
  BY DEF QPState, Mailable, QPJob
<1>2. KeepsLines => col + 3 <= Longest /\ col + 1 <= Longest
  <2>1. ASSUME KeepsLines
        PROVE  col + 3 <= Longest /\ col + 1 <= Longest
    <3>1. PICK l, most \in Nat : most = Longest /\ l + 2 <= most /\ col <= l - 2
      BY <2>1, QPRoom
    <3> QED
      BY <1>1, <3>1
  <2> QED
    BY <2>1
<1>3. PICK n \in Nat : n = Len(u)
  BY <1>1, LenProperties
<1>4. ~cutLines => n <= 3 * k
  BY <1>3 DEF QPState
<1>5. n <= 3 * k => n + 3 <= 3 * (k + 1) /\ n + 1 <= 3 * (k + 1)
  OBVIOUS
<1>6. PICK b : b = <<c>>
  OBVIOUS
<1>7. b \in Seq(Byte) /\ Len(b) = 1 /\ b[1] = c
  BY <1>6
<1>8. CASE hex
  <2>1. w = Hex(c) /\ col1 = col + 3 /\ IsPlain(w, 3)
    BY <1>8, HexIsPlain
  <2>2. GoesOn(u, col, w, 3) /\ w[3] # SPACE
    BY <1>2, <2>1, PlainGoes
  <2>3. Mailable(u \o w, col1) /\ Len(u \o w) = n + 3 /\ ~EndsIn(u \o w, {SPACE})
    <3>1. PICK h, m : h = w /\ m = 3
      OBVIOUS
    <3>2. GoesOn(u, col, h, m) /\ h[m] # SPACE
      BY <2>2, <3>1
    <3>3. Mailable(u \o h, col + m) /\ Len(u \o h) = Len(u) + m /\ (EndsIn(u \o h, {SPACE}) <=> h[m] = SPACE)
      BY <1>1, <3>2, LineGrows
    <3> QED
      BY <1>3, <2>1, <3>1, <3>2, <3>3
  <2>4. w \in Seq(Byte) /\ col1 \in Nat /\ col1 <= col + 3
    BY <1>1, <2>1 DEF IsPlain
  <2> QED
    BY <1>4, <1>5, <2>3, <2>4 DEF Written
<1>9. CASE ~hex /\ c = LF
  <2>1. w = b /\ col1 = 0 /\ ~EndsIn(u, {SPACE}) /\ \A i \in 1 .. 1 : b[i] \in {CR, LF}
    <3>1. \A i \in 1 .. 1 : i = 1
      OBVIOUS
    <3> QED
      BY <1>6, <1>7, <1>9, <3>1
  <2>2. Mailable(u \o w, 0) /\ Len(u \o w) = n + 1 /\ ~EndsIn(u \o w, {SPACE})
    <3>1. Len(b) = 1 /\ 1 \in Nat /\ 1 > 0
      BY <1>7
    <3>2. Mailable(u \o b, 0) /\ Len(u \o b) = Len(u) + 1 /\ ~EndsIn(u \o b, {SPACE})
      BY <1>1, <1>7, <2>1, <3>1, LineBreaks
    <3> QED
      BY <1>3, <2>1, <3>2
  <2>3. col1 \in Nat /\ col1 <= col + 3
    BY <1>1, <2>1
  <2> QED
    BY <1>4, <1>5, <1>7, <2>1, <2>2, <2>3 DEF Written
<1>10. CASE ~hex /\ c # LF
  <2>1. w = b /\ col1 = col + 1
    BY <1>6, <1>10
  <2>2. (c = DOT => col # 0) /\ (c = SPACE => next \notin {CR, LF, NoByte})
    BY <1>10 DEF Encoded
  <2>3. GoesOn(u, col, b, 1)
    <3>1. \A i \in 1 .. 1 : i = 1
      OBVIOUS
    <3>2. \A i \in 1 .. 1 : /\ b[i] = DOT => i = 1 /\ col # 0
                            /\ b[i] = SPACE => i = 1
      BY <1>7, <2>2, <3>1
    <3> QED
      BY <1>2, <1>7, <1>10, <3>2 DEF GoesOn
  <2>4. Mailable(u \o b, col + 1) /\ Len(u \o b) = n + 1 /\ (EndsIn(u \o b, {SPACE}) <=> b[1] = SPACE)
    BY <1>1, <1>3, <2>3, LineGrows
  <2>5. col1 \in Nat /\ col1 <= col + 3
    BY <1>1, <2>1
  <2> QED
    BY <1>4, <1>5, <1>7, <2>1, <2>2, <2>4, <2>5 DEF Written
<1> QED
  BY <1>8, <1>9, <1>10

\* The end of a soft line.
LEMMA SoftEnd == IsPlain(<<EQUALS>>, 1) /\ CRLF \in Seq(Byte) /\ Len(CRLF) = 2 /\ \A i \in 1 .. 2 : CRLF[i] \in {CR, LF}
<1>1. EQUALS \in Byte /\ EQUALS \notin {CR, LF, DOT, SPACE}
  BY DEF Byte, EQUALS, CR, LF, DOT, SPACE
<1>2. IsPlain(<<EQUALS>>, 1)
  BY <1>1, OneIsPlain
<1>3. PICK e : e = CRLF
  OBVIOUS
<1>4. e = <<CR, LF>> /\ CR \in Byte /\ LF \in Byte
  BY <1>3 DEF CRLF, Byte, CR, LF
<1>5. e \in Seq(Byte) /\ Len(e) = 2 /\ e[1] = CR /\ e[2] = LF
  BY <1>4
<1>6. \A i \in 1 .. 2 : i = 1 \/ i = 2
  OBVIOUS
<1> QED
  BY <1>2, <1>3, <1>5, <1>6

\* The line is cut.
LEMMA SoftBreak ==
  ASSUME HasLimit, NEW u, NEW col \in Nat, Mailable(u, col), KeepsLines => col + 1 <= Longest
  PROVE  Mailable((u \o <<EQUALS>>) \o CRLF, 0) /\ ~EndsIn((u \o <<EQUALS>>) \o CRLF, {SPACE})
<1>1. PICK e, f : e = <<EQUALS>> /\ f = CRLF
  OBVIOUS
<1>2. IsPlain(e, 1) /\ f \in Seq(Byte) /\ Len(f) = 2 /\ \A i \in 1 .. 2 : f[i] \in {CR, LF}
  BY <1>1, SoftEnd
<1>3. GoesOn(u, col, e, 1) /\ e[1] # SPACE
  BY <1>2, PlainGoes
<1>4. Mailable(u \o e, col + 1) /\ (EndsIn(u \o e, {SPACE}) <=> e[1] = SPACE)
  BY <1>3, LineGrows
<1>5. PICK v, d : v = u \o e /\ d = col + 1
  OBVIOUS
<1>6. Mailable(v, d) /\ ~EndsIn(v, {SPACE})
  BY <1>3, <1>4, <1>5
<1>7. 2 \in Nat /\ 2 > 0
  OBVIOUS
<1>8. Mailable(v \o f, 0) /\ ~EndsIn(v \o f, {SPACE})
  BY <1>2, <1>6, <1>7, LineBreaks
<1> QED
  BY <1>1, <1>5, <1>8

\* Text or binary data: the line may be cut after the byte.
LEMMA TextGoes ==
  ASSUME QPJob, job.mode # "rfc2047", NEW o \in Seq(Byte), NEW x \in Seq(Byte), NEW col, NEW k \in Nat,
         QPState(o \o x, col, k), NEW c \in Byte, NEW next, EndsIn(o \o x, {SPACE}) => c \notin {CR, LF}
  PROVE  ByteGoes(o, AddByte([out |-> x, column |-> col], c, next), c, next, k)
<1>1. PICK u : u = o \o x
  OBVIOUS
<1>2. PICK hex \in BOOLEAN : hex <=> Encoded(c, next, col)
  OBVIOUS
<1>3. PICK w : w = (IF hex THEN Hex(c) ELSE <<c>>)
  OBVIOUS
<1>4. PICK col1 : col1 = (IF hex THEN col + 3 ELSE IF c = LF THEN 0 ELSE col + 1)
  OBVIOUS
<1>5. Written(u, col, w, col1, c, next, k)
  BY <1>1, <1>2, <1>3, <1>4, ByteWritten
<1>6. /\ Mailable(u \o w, col1) /\ w \in Seq(Byte) /\ col1 \in Nat
      /\ KeepsLines => col1 <= col + 3
      /\ ~cutLines => Len(u \o w) <= 3 * (k + 1)
      /\ EndsIn(u \o w, {SPACE}) => c = SPACE /\ next \notin {CR, LF, NoByte}
  BY <1>5 DEF Written
<1>7. PICK y : y = x \o w
  OBVIOUS
<1>8. y \in Seq(Byte) /\ o \o y = u \o w
  BY <1>1, <1>6, <1>7, Associative, ConcatProperties
<1> DEFINE cut == cutLines /\ col1 >= LineLimit(74) - 1 /\ ~(c = DOT /\ col = 0)
<1>9. AddByte([out |-> x, column |-> col], c, next) =
        IF cut THEN [out |-> y \o <<EQUALS>> \o CRLF, column |-> 0] ELSE [out |-> y, column |-> col1]
  <2>1. [out |-> x, column |-> col].out = x /\ [out |-> x, column |-> col].column = col
    OBVIOUS
  <2>2. y = x \o (IF Encoded(c, next, col) THEN Hex(c) ELSE <<c>>)
    BY <1>2, <1>3, <1>7
  <2>3. col1 = IF Encoded(c, next, col) THEN col + 3 ELSE IF c = LF THEN 0 ELSE col + 1
    BY <1>2, <1>4
  <2> QED
    BY <2>1, <2>2, <2>3 DEF AddByte
<1>10. CASE cut
  <2>1. PICK z : z = y \o <<EQUALS>> \o CRLF
    OBVIOUS
  <2>2. KeepsLines => col1 + 1 <= Longest
    <3>1. ASSUME KeepsLines
          PROVE  col1 + 1 <= Longest
      <4>1. QPState(u, col, k)
        BY <1>1
      <4>2. PICK l, most \in Nat : most = Longest /\ l + 2 <= most /\ col \in Nat /\ col <= l - 2
        BY <3>1, <4>1, QPRoom
      <4> QED
        BY <1>6, <3>1, <4>2
    <3> QED
      BY <3>1
  <2>3. PICK v : v = u \o w
    OBVIOUS
  <2>4. Mailable((v \o <<EQUALS>>) \o CRLF, 0) /\ ~EndsIn((v \o <<EQUALS>>) \o CRLF, {SPACE})
    <3>1. HasLimit /\ Mailable(v, col1)
      BY <1>6, <2>3 DEF QPJob
    <3> QED
      BY <1>6, <2>2, <3>1, SoftBreak
  <2>5. o \o z = (v \o <<EQUALS>>) \o CRLF /\ z \in Seq(Byte)
    <3>1. PICK e, f : e = <<EQUALS>> /\ f = CRLF
      OBVIOUS
    <3>2. e \in Seq(Byte) /\ f \in Seq(Byte)
      BY <3>1, SoftEnd DEF IsPlain
    <3>3. v = o \o y /\ z = (y \o e) \o f
      BY <1>8, <2>1, <2>3, <3>1
    <3>4. PICK q : q = y \o e
      OBVIOUS
    <3>5. q \in Seq(Byte) /\ o \o q = v \o e
      BY <1>8, <3>2, <3>3, <3>4, Associative, ConcatProperties
    <3>6. z \in Seq(Byte) /\ o \o z = (o \o q) \o f
      BY <3>2, <3>3, <3>4, <3>5, Associative, ConcatProperties
    <3> QED
      BY <3>1, <3>5, <3>6
  <2>6. QPState(o \o z, 0, k + 1) /\ ~EndsIn(o \o z, {SPACE})
    <3>1. KeepsLines => 0 <= LineLimit(74) - 2
      <4>1. ASSUME KeepsLines
            PROVE  0 <= LineLimit(74) - 2
        <5>1. QPState(u, col, k)
          BY <1>1
        <5>2. PICK l \in Nat : l = LineLimit(74) /\ l >= 5
          BY <4>1, <5>1, QPRoom
        <5> QED
          BY <5>2
      <4> QED
        BY <4>1
    <3> QED
      BY <1>10, <2>4, <2>5, <3>1 DEF QPState
  <2> QED
    BY <1>9, <1>10, <2>1, <2>5, <2>6 DEF ByteGoes
<1>11. CASE ~cut
  <2>1. KeepsLines => col1 <= LineLimit(74) - 2
    <3>1. ASSUME KeepsLines
          PROVE  col1 <= LineLimit(74) - 2
      <4>1. QPState(u, col, k)
        BY <1>1
      <4>2. PICK l \in Nat : l = LineLimit(74) /\ l >= 5 /\ col \in Nat
        BY <3>1, <4>1, QPRoom
      <4>3. ~(col1 >= l - 1) \/ (c = DOT /\ col = 0)
        BY <1>11, <3>1, <4>2 DEF KeepsLines
      <4>4. c = DOT /\ col = 0 => col1 = 3
        <5>1. c = DOT /\ col = 0 => hex
          BY <1>2 DEF Encoded
        <5> QED
          BY <1>4, <5>1
      <4> QED
        BY <1>6, <4>2, <4>3, <4>4
    <3> QED
      BY <3>1
  <2>2. QPState(o \o y, col1, k + 1)
    BY <1>6, <1>8, <2>1 DEF QPState
  <2> QED
    BY <1>6, <1>8, <1>9, <1>11, <2>2 DEF ByteGoes
<1> QED
  BY <1>10, <1>11

\* The bytes, one by one, each with the one after it.
ByteByByte(after, bytes, next) ==
  /\ after[0] = [out |-> <<>>, column |-> worker.column]
  /\ \A i \in 1 .. Len(bytes) :
       after[i] = AddByte(after[i - 1], bytes[i], IF i < Len(bytes) THEN bytes[i + 1] ELSE next)

\* What comes of a byte is of the same kind.
Lines1 == [out : Seq(Byte), column : Nat]

\* A byte added to lines gives lines.
LEMMA AddByteType ==
  ASSUME NEW v \in Lines1, NEW c \in Byte, NEW next
  PROVE  AddByte(v, c, next) \in Lines1
<1>1. PICK x, col : v = [out |-> x, column |-> col] /\ x \in Seq(Byte) /\ col \in Nat
  BY DEF Lines1
<1>2. v.out = x /\ v.column = col
  BY <1>1
<1>3. PICK e, f, h, b, g : e = <<EQUALS>> /\ f = CRLF /\ h = Hex(c) /\ b = <<c>> /\ g = <<95>>
  OBVIOUS
<1>4. e \in Seq(Byte) /\ f \in Seq(Byte) /\ h \in Seq(Byte)
  BY <1>3, SoftEnd, HexIsPlain DEF IsPlain
<1>5. b \in Seq(Byte) /\ g \in Seq(Byte)
  BY <1>3 DEF Byte
<1>6. CASE job.mode = "rfc2047"
  <2>1. PICK w : w = IF c = SPACE THEN g ELSE IF c \in Plain THEN b ELSE h
    OBVIOUS
  <2>2. w \in Seq(Byte)
    BY <1>4, <1>5, <2>1
  <2>3. PICK y : y = x \o w
    OBVIOUS
  <2>4. y \in Seq(Byte)
    BY <1>1, <2>2, <2>3, ConcatProperties
  <2>5. AddByte(v, c, next) = [v EXCEPT !.out = y]
    BY <1>2, <1>3, <1>6, <2>1, <2>3 DEF AddByte
  <2>6. [v EXCEPT !.out = y] = [out |-> y, column |-> col]
    BY <1>1
  <2> QED
    BY <1>1, <2>4, <2>5, <2>6 DEF Lines1
<1>7. CASE job.mode # "rfc2047"
  <2>1. PICK hex \in BOOLEAN : hex <=> Encoded(c, next, col)
    OBVIOUS
  <2>2. PICK w, col1 : w = (IF hex THEN h ELSE b) /\ col1 = (IF hex THEN col + 3 ELSE IF c = LF THEN 0 ELSE col + 1)
    OBVIOUS
  <2>3. w \in Seq(Byte) /\ col1 \in Nat
    BY <1>1, <1>4, <1>5, <2>2
  <2>4. PICK y, z : y = x \o w /\ z = (y \o e) \o f
    OBVIOUS
  <2>5. y \in Seq(Byte) /\ z \in Seq(Byte)
    BY <1>1, <1>4, <2>3, <2>4, ConcatProperties
  <2>6. \/ AddByte(v, c, next) = [out |-> z, column |-> 0]
        \/ AddByte(v, c, next) = [out |-> y, column |-> col1]
    <3>1. y = x \o (IF Encoded(c, next, col) THEN Hex(c) ELSE <<c>>)
      BY <1>3, <2>1, <2>2, <2>4
    <3>2. col1 = IF Encoded(c, next, col) THEN col + 3 ELSE IF c = LF THEN 0 ELSE col + 1
      BY <2>1, <2>2
    <3>3. z = y \o <<EQUALS>> \o CRLF
      BY <1>3, <2>4
    <3> QED
      BY <1>2, <1>7, <3>1, <3>2, <3>3 DEF AddByte
  <2>7. 0 \in Nat
    OBVIOUS
  <2> QED
    BY <2>3, <2>5, <2>6, <2>7 DEF Lines1
<1> QED
  BY <1>6, <1>7

\* That is how they are encoded.
LEMMA QPSteps ==
  ASSUME NEW bytes \in Seq(Byte), NEW next, worker.column \in Nat
  PROVE  \E after : ByteByByte(after, bytes, next) /\ QPLines(bytes, next) = after[Len(bytes)]
<1>1. PICK n \in Nat : n = Len(bytes)
  BY LenProperties
<1> DEFINE V == Lines1
           following(i) == IF i < n THEN bytes[i + 1] ELSE next
           first == [out |-> <<>>, column |-> worker.column]
           step == [i \in 1 .. n |-> [v \in V |-> AddByte(v, bytes[i], following(i))]]
<1>2. first \in V
  BY EmptySeq DEF Lines1
<1>3. \A i \in 1 .. n : bytes[i] \in Byte
  BY <1>1, ElementOfSeq
<1> HIDE DEF V, following, first
<1>4. ASSUME NEW v \in V, NEW i \in 1 .. n
      PROVE  AddByte(v, bytes[i], following(i)) \in V
  <2>1. bytes[i] \in Byte
    BY <1>3
  <2> QED
    BY <2>1, AddByteType DEF V
<1>5. step \in Steps(n, V)
  BY <1>4 DEF Steps
<1>6. \A i \in 1 .. n : \A v \in V : step[i][v] = AddByte(v, bytes[i], following(i))
  OBVIOUS
<1> HIDE DEF step
<1>7. PICK f : Iterates(f, n, V, first, step)
  BY <1>2, <1>5, Iteration
<1>8. f \in [0 .. n -> V] /\ f[0] = first /\ \A i \in 1 .. n : f[i] = AddByte(f[i - 1], bytes[i], following(i))
  <2>1. f \in [0 .. n -> V] /\ f[0] = first /\ \A i \in 1 .. n : f[i] = step[i][f[i - 1]]
    BY <1>7 DEF Iterates
  <2>2. \A i \in 1 .. n : i - 1 \in 0 .. n
    OBVIOUS
  <2>3. \A i \in 1 .. n : f[i - 1] \in V
    BY <2>1, <2>2
  <2> QED
    BY <1>6, <2>1, <2>3
<1> DEFINE rule(h) == h = [i \in 0 .. n |-> IF i = 0 THEN first ELSE AddByte(h[i - 1], bytes[i], following(i))]
           after == CHOOSE h : rule(h)
<1>9. rule(f)
  <2>1. \A i \in 0 .. n : f[i] = IF i = 0 THEN first ELSE AddByte(f[i - 1], bytes[i], following(i))
    <3>1. \A i \in 0 .. n : i = 0 \/ i \in 1 .. n
      OBVIOUS
    <3> QED
      BY <1>8, <3>1
  <2> QED
    BY <1>8, <2>1
<1>10. rule(after)
  <2> HIDE DEF rule
  <2> QED
    BY <1>9
<1>11. QPLines(bytes, next) = after[Len(bytes)]
  BY <1>1 DEF QPLines, following, first
<1> HIDE DEF after
<1>12. ByteByByte(after, bytes, next)
  <2>1. \A i \in 0 .. n : after[i] = IF i = 0 THEN first ELSE AddByte(after[i - 1], bytes[i], following(i))
    BY <1>10
  <2>2. 0 \in 0 .. n /\ \A i \in 1 .. n : i \in 0 .. n /\ i # 0
    OBVIOUS
  <2>3. after[0] = first /\ \A i \in 1 .. n : after[i] = AddByte(after[i - 1], bytes[i], following(i))
    BY <2>1, <2>2
  <2> QED
    BY <1>1, <2>3 DEF ByteByByte, first, following
<1> QED
  BY <1>11, <1>12

\* What is known when some bytes have been encoded after o was written.
QPAfter(o, r, k, bytes, i, next) ==
  \E y, col :
    /\ r = [out |-> y, column |-> col] /\ y \in Seq(Byte) /\ QPState(o \o y, col, k + i)
    /\ EndsIn(o \o y, {SPACE}) =>
         IF i = 0 THEN EndsIn(o, {SPACE})
         ELSE bytes[i] = SPACE /\ (IF i < Len(bytes) THEN bytes[i + 1] ELSE next) \notin {CR, LF, NoByte}

\* So are all bytes of a piece, each with the next in view.
LEMMA QPEncodes ==
  ASSUME QPJob, NEW o \in Seq(Byte), NEW k \in Nat, NEW bytes \in Seq(Byte), NEW next,
         QPState(o, worker.column, k), EndsIn(o, {SPACE}) /\ bytes # <<>> => bytes[1] \notin {CR, LF}
  PROVE  QPAfter(o, QPLines(bytes, next), k, bytes, Len(bytes), next)
<1>1. PICK n \in Nat : n = Len(bytes) /\ (n > 0 => bytes # <<>>)
  BY LenProperties, EmptySeq
<1>2. worker.column \in Nat
  BY DEF QPState, Mailable
<1>3. PICK after : ByteByByte(after, bytes, next) /\ QPLines(bytes, next) = after[Len(bytes)]
  BY <1>2, QPSteps
<1> DEFINE following(i) == IF i < n THEN bytes[i + 1] ELSE next
<1>4. after[0] = [out |-> <<>>, column |-> worker.column]
  BY <1>3 DEF ByteByByte
<1>5. \A i \in 1 .. n : after[i] = AddByte(after[i - 1], bytes[i], following(i))
  BY <1>1, <1>3 DEF ByteByByte
<1> DEFINE S == {i \in 0 .. n : QPAfter(o, after[i], k, bytes, i, next)}
<1>6. 0 \in S
  <2>1. PICK y, col : y = <<>> /\ col = worker.column
    OBVIOUS
  <2>2. y \in Seq(Byte) /\ o \o y = o /\ k + 0 = k
    BY <2>1, EmptySeq, ConcatEmptySeq
  <2>3. after[0] = [out |-> y, column |-> col] /\ QPState(o \o y, col, k + 0)
    BY <1>4, <2>1, <2>2
  <2>4. QPAfter(o, after[0], k, bytes, 0, next)
    BY <2>2, <2>3 DEF QPAfter
  <2> QED
    BY <2>4
<1>7. ASSUME NEW i \in 1 .. n, i - 1 \in S
      PROVE  i \in S
  <2>1. PICK h \in Nat : h = i - 1 /\ i = h + 1 /\ h < n /\ i \in Nat
    OBVIOUS
  <2>2. QPAfter(o, after[h], k, bytes, h, next)
    BY <1>7, <2>1
  <2>3. PICK y, col :
          /\ after[h] = [out |-> y, column |-> col] /\ y \in Seq(Byte) /\ QPState(o \o y, col, k + h)
          /\ EndsIn(o \o y, {SPACE}) =>
               IF h = 0 THEN EndsIn(o, {SPACE})
               ELSE bytes[h] = SPACE /\ (IF h < Len(bytes) THEN bytes[h + 1] ELSE next) \notin {CR, LF, NoByte}
    BY <2>2 DEF QPAfter
  <2>4. PICK c, d, m : c = bytes[i] /\ d = following(i) /\ m = k + h
    OBVIOUS
  <2>5. c \in Byte /\ m \in Nat /\ m + 1 = k + i
    BY <1>1, <2>1, <2>4, ElementOfSeq
  <2>6. EndsIn(o \o y, {SPACE}) => c \notin {CR, LF}
    BY <1>1, <2>1, <2>3, <2>4
  <2>7. after[i] = AddByte([out |-> y, column |-> col], c, d)
    BY <1>5, <2>1, <2>3, <2>4
  <2>8. QPState(o \o y, col, m)
    BY <2>3, <2>4
  <2>9. ByteGoes(o, after[i], c, d, m)
    BY <2>3, <2>5, <2>6, <2>7, <2>8, WordGoes, TextGoes
  <2>10. PICK z, e : /\ after[i] = [out |-> z, column |-> e] /\ z \in Seq(Byte) /\ QPState(o \o z, e, k + i)
                     /\ EndsIn(o \o z, {SPACE}) => c = SPACE /\ d \notin {CR, LF, NoByte}
    BY <2>5, <2>9 DEF ByteGoes
  <2>11. QPAfter(o, after[i], k, bytes, i, next)
    <3>1. i # 0 /\ d = IF i < Len(bytes) THEN bytes[i + 1] ELSE next
      BY <1>1, <2>1, <2>4
    <3> QED
      BY <2>4, <2>10, <3>1 DEF QPAfter
  <2> QED
    BY <2>11
<1>8. n \in S
  <2> HIDE DEF S
  <2>1. 0 .. n \subseteq S
    BY <1>6, <1>7, NumberInduction
  <2> QED
    BY <2>1
<1> QED
  BY <1>1, <1>3, <1>8

\* What a job for the encoder keeps.
EncoderWorker(w) == w = [phase |-> w.phase, carry |-> w.carry, column |-> w.column, encoded |-> w.encoded]

\* What was encoded fits, and can be mailed.
Fits(e) ==
  /\ \E col : Mailable(e, col)
  /\ ~EndsIn(e, {SPACE})
  /\ ~cutLines => Len(e) <= getEncodedSize(Len(text))

\* Between two pieces.
QPSoFar(o, carry, col, k) ==
  /\ carry \in {<<>>, <<SPACE>>} /\ k \in Nat /\ Len(carry) <= k
  /\ QPState(o, col, k - Len(carry))
  /\ EndsIn(o, {SPACE}) => carry = <<SPACE>>

\* A space is a sequence of one character.
LEMMA SpaceIs == <<SPACE>> \in Seq(Byte) /\ Len(<<SPACE>>) = 1 /\ <<SPACE>>[1] = SPACE /\ <<SPACE>> # <<>> /\ Len(<<>>) = 0
<1>1. PICK s : s = <<SPACE>>
  OBVIOUS
<1>2. SPACE \in Byte
  BY DEF SPACE, Byte
<1>3. s \in Seq(Byte) /\ Len(s) = 1 /\ s[1] = SPACE
  BY <1>1, <1>2
<1>4. s # <<>> /\ Len(<<>>) = 0
  BY <1>3, EmptySeq
<1> QED
  BY <1>1, <1>3, <1>4

\* All but the last.
LEMMA FrontIs ==
  ASSUME NEW s \in Seq(Byte), NEW n \in Nat, n = Len(s), n > 0
  PROVE  Front(s) \in Seq(Byte) /\ Len(Front(s)) = n - 1 /\ \A i \in 1 .. n - 1 : Front(s)[i] = s[i]
<1>1. PICK a, b \in Int : a = 1 /\ b = n - 1
  OBVIOUS
<1>2. PICK d : d = SubSeq(s, a, b)
  OBVIOUS
<1>3. \A i \in a .. b : s[i] \in Byte
  <2>1. a .. b \subseteq 1 .. Len(s)
    BY <1>1
  <2> QED
    BY <2>1, ElementOfSeq
<1>4. /\ d \in Seq(Byte) /\ Len(d) = (IF a <= b THEN b - a + 1 ELSE 0)
      /\ \A i \in 1 .. b - a + 1 : d[i] = s[a + i - 1]
  BY <1>2, <1>3, SubSeqProperties
<1>5. Len(d) = n - 1
  BY <1>1, <1>4
<1>6. ASSUME NEW i \in 1 .. n - 1
      PROVE  d[i] = s[i]
  <2>1. i \in 1 .. b - a + 1 /\ a + i - 1 = i
    BY <1>1
  <2> QED
    BY <1>4, <2>1
<1>7. d = Front(s)
  BY <1>1, <1>2 DEF Front
<1> QED
  BY <1>4, <1>5, <1>6, <1>7

\* A piece more is encoded.
LEMMA QPPiece ==
  ASSUME QPJob, NEW k, QPSoFar(output, worker.carry, worker.column, k),
         NEW p \in Seq(Byte), NEW n \in Nat, n = Len(p), n > 0,
         NEW bytes, bytes = worker.carry \o p,
         NEW waits \in BOOLEAN, waits <=> Last(bytes) = SPACE,
         NEW lines, lines = QPLines(IF waits THEN Front(bytes) ELSE bytes, SPACE)
  PROVE  /\ output \o lines.out \in Seq(Byte)
         /\ QPSoFar(output \o lines.out, IF waits THEN <<SPACE>> ELSE <<>>, lines.column, k + n)
<1>1. PICK c, m : c = worker.carry /\ m = Len(c) /\ c \in {<<>>, <<SPACE>>}
  BY DEF QPSoFar
<1>2. c = worker.carry /\ m = Len(c) /\ m \in Nat /\ m <= 1 /\ c \in Seq(Byte) /\ (m = 0 <=> c = <<>>) /\ (m = 1 => c[1] = SPACE)
  <2>1. CASE c = <<>>
    <3>1. c \in Seq(Byte) /\ m = 0
      BY <1>1, <2>1, EmptySeq
    <3> QED
      BY <1>1, <2>1, <3>1
  <2>2. CASE c = <<SPACE>>
    <3>1. c \in Seq(Byte) /\ m = 1 /\ c # <<>> /\ c[1] = SPACE
      BY <1>1, <2>2, SpaceIs
    <3> QED
      BY <1>1, <3>1
  <2> QED
    BY <1>1, <2>1, <2>2
<1>3. PICK o, h, q : o = output /\ h = worker.column /\ q = k - m
  OBVIOUS
<1>4. k \in Nat /\ m <= k /\ QPState(o, h, q) /\ (EndsIn(o, {SPACE}) => m = 1)
  <2>1. k \in Nat /\ m <= k /\ QPState(o, h, q) /\ (EndsIn(o, {SPACE}) => c = <<SPACE>>)
    BY <1>2, <1>3 DEF QPSoFar
  <2>2. c = <<SPACE>> => m = 1
    BY <1>2, SpaceIs
  <2> QED
    BY <2>1, <2>2
<1>5. q \in Nat /\ o \in Seq(Byte)
  BY <1>2, <1>3, <1>4 DEF QPState, Mailable
<1>6. bytes \in Seq(Byte) /\ Len(bytes) = m + n /\ (m = 1 => bytes[1] = SPACE)
  <2>1. bytes \in Seq(Byte) /\ Len(bytes) = m + n /\ \A i \in 1 .. m + n : bytes[i] = IF i <= m THEN c[i] ELSE p[i - m]
    BY <1>2, ConcatProperties
  <2>2. m = 1 => 1 \in 1 .. m + n /\ 1 <= m
    OBVIOUS
  <2> QED
    BY <1>2, <2>1, <2>2
<1>7. PICK l \in Nat : l = m + n /\ l > 0
  BY <1>2
<1>8. PICK data : data = IF waits THEN Front(bytes) ELSE bytes
  OBVIOUS
<1>9. /\ data \in Seq(Byte) /\ Len(data) = (IF waits THEN l - 1 ELSE l)
      /\ \A i \in 1 .. Len(data) : data[i] = bytes[i]
  <2>1. CASE waits
    <3>1. PICK d : d = Front(bytes)
      OBVIOUS
    <3>2. d \in Seq(Byte) /\ Len(d) = l - 1 /\ \A i \in 1 .. l - 1 : d[i] = bytes[i]
      BY <1>6, <1>7, <3>1, FrontIs
    <3> QED
      BY <1>8, <2>1, <3>1, <3>2
  <2>2. CASE ~waits
    BY <1>6, <1>7, <1>8, <2>2
  <2> QED
    BY <2>1, <2>2
<1>10. EndsIn(o, {SPACE}) /\ data # <<>> => data[1] \notin {CR, LF}
  <2>1. ASSUME EndsIn(o, {SPACE}), data # <<>>
        PROVE  data[1] \notin {CR, LF}
    <3>1. Len(data) \in Nat \ {0}
      BY <1>9, <2>1, EmptySeq
    <3>2. data[1] = SPACE
      BY <1>4, <1>6, <1>9, <2>1, <3>1
    <3> QED
      BY <3>2 DEF SPACE, CR, LF
  <2> QED
    BY <2>1
<1>11. QPAfter(o, lines, q, data, Len(data), SPACE)
  BY <1>3, <1>4, <1>5, <1>8, <1>9, <1>10, QPEncodes
<1>12. PICK y, col :
         /\ lines = [out |-> y, column |-> col] /\ y \in Seq(Byte) /\ QPState(o \o y, col, q + Len(data))
         /\ EndsIn(o \o y, {SPACE}) => Len(data) = 0 \/ data[Len(data)] = SPACE
  BY <1>11 DEF QPAfter
<1>13. lines.out = y /\ lines.column = col
  BY <1>12
<1>14. PICK u : u = o \o y
  OBVIOUS
<1>15. u \in Seq(Byte)
  BY <1>5, <1>12, <1>14, ConcatProperties
<1>16. CASE waits
  <2>1. q + Len(data) = (k + n) - 1 /\ k + n \in Nat /\ 1 <= k + n
    <3>1. PICK d : d = Len(data) /\ d = (m + n) - 1
      BY <1>7, <1>9, <1>16
    <3>2. m \in Nat /\ k \in Nat /\ m <= k /\ q = k - m
      BY <1>2, <1>3, <1>4
    <3>3. q + d = (k + n) - 1 /\ k + n \in Nat /\ 1 <= k + n
      BY <3>1, <3>2
    <3> QED
      BY <3>1, <3>3
  <2>2. QPSoFar(u, <<SPACE>>, col, k + n)
    BY <1>12, <1>14, <2>1, SpaceIs DEF QPSoFar
  <2> QED
    BY <1>3, <1>13, <1>14, <1>15, <1>16, <2>2
<1>17. CASE ~waits
  <2>1. q + Len(data) = (k + n) - 0 /\ k + n \in Nat /\ 0 <= k + n
    <3>1. PICK d : d = Len(data) /\ d = m + n
      BY <1>7, <1>9, <1>17
    <3>2. m \in Nat /\ k \in Nat /\ m <= k /\ q = k - m
      BY <1>2, <1>3, <1>4
    <3>3. q + d = (k + n) - 0 /\ k + n \in Nat /\ 0 <= k + n
      BY <3>1, <3>2
    <3> QED
      BY <3>1, <3>3
  <2>2. Len(data) # 0 /\ data[Len(data)] # SPACE
    BY <1>6, <1>7, <1>8, <1>9, <1>17 DEF Last
  <2>3. ~EndsIn(u, {SPACE})
    BY <1>12, <1>14, <2>2
  <2>4. QPSoFar(u, <<>>, col, k + n)
    BY <1>12, <1>14, <2>1, <2>3, SpaceIs DEF QPSoFar
  <2> QED
    BY <1>3, <1>13, <1>14, <1>15, <1>17, <2>4
<1> QED
  BY <1>16, <1>17

\* At the end a space that waited is written in hexadecimal.
LEMMA QPLast ==
  ASSUME QPJob, NEW k, k = Len(text), QPSoFar(output, worker.carry, worker.column, k),
         NEW lines, lines = QPLines(worker.carry, NoByte)
  PROVE  Fits(output \o lines.out)
<1>1. PICK c, m : c = worker.carry /\ m = Len(c) /\ c \in {<<>>, <<SPACE>>}
  BY DEF QPSoFar
<1>2. c \in Seq(Byte) /\ m \in {0, 1} /\ (m = 0 <=> c = <<>>) /\ (m = 1 => c = <<SPACE>> /\ c[1] = SPACE)
  <2>1. CASE c = <<>>
    <3>1. c \in Seq(Byte) /\ m = 0
      BY <1>1, <2>1, EmptySeq
    <3> QED
      BY <2>1, <3>1
  <2>2. CASE c = <<SPACE>>
    <3>1. c \in Seq(Byte) /\ m = 1 /\ c # <<>> /\ c[1] = SPACE
      BY <1>1, <2>2, SpaceIs
    <3> QED
      BY <2>2, <3>1
  <2> QED
    BY <1>1, <2>1, <2>2
<1>3. PICK o, q : o = output /\ q = k - m
  OBVIOUS
<1>4. k \in Nat /\ m <= k /\ QPState(o, worker.column, q) /\ (EndsIn(o, {SPACE}) => c = <<SPACE>>)
  BY <1>1, <1>3 DEF QPSoFar
<1>5. q \in Nat /\ q + m = k /\ o \in Seq(Byte)
  BY <1>2, <1>3, <1>4 DEF QPState, Mailable
<1>6. c # <<>> => c[1] \notin {CR, LF}
  BY <1>2 DEF SPACE, CR, LF
<1>7. QPAfter(o, lines, q, c, Len(c), NoByte)
  BY <1>1, <1>2, <1>4, <1>5, <1>6, QPEncodes
<1>8. PICK y, col :
         /\ lines = [out |-> y, column |-> col] /\ y \in Seq(Byte) /\ QPState(o \o y, col, k)
         /\ EndsIn(o \o y, {SPACE}) =>
              IF m = 0 THEN EndsIn(o, {SPACE}) ELSE (IF m < Len(c) THEN c[m + 1] ELSE NoByte) \notin {CR, LF, NoByte}
  BY <1>1, <1>5, <1>7 DEF QPAfter
<1>9. PICK u : u = o \o y
  OBVIOUS
<1>10. ~EndsIn(u, {SPACE})
  <2>1. ~(m < Len(c))
    BY <1>1, <1>2
  <2>2. c = <<SPACE>> => m # 0
    BY <1>2, SpaceIs
  <2> QED
    BY <1>4, <1>8, <1>9, <2>1, <2>2
<1>11. Mailable(u, col) /\ (~cutLines => Len(u) <= 3 * k)
  BY <1>8, <1>9 DEF QPState
<1>12. ~cutLines => getEncodedSize(k) = 3 * k
  <2>1. ASSUME ~cutLines
        PROVE  getEncodedSize(k) = 3 * k
    <3>1. getEncodedSize(k) = 3 * k + 0
      BY <2>1 DEF getEncodedSize, QPJob
    <3> QED
      BY <1>4, <3>1
  <2> QED
    BY <2>1
<1>13. Fits(u)
  BY <1>10, <1>11, <1>12 DEF Fits
<1> QED
  BY <1>3, <1>8, <1>9, <1>13

-----------------------------------------------------------------------------
\* A letter of the alphabet of base64.
LEMMA LetterIs ==
  ASSUME NEW s \in Int
  PROVE  Letter[s % 64] \in Byte /\ Letter[s % 64] \notin {CR, LF, DOT, SPACE}
<1>1. PICK v \in 0 .. 63 : v = s % 64
  OBVIOUS
<1>2. Letter[v] = IF v < 26 THEN 65 + v ELSE IF v < 52 THEN 71 + v ELSE IF v < 62 THEN v - 4 ELSE IF v = 62 THEN 43 ELSE 47
  BY DEF Letter
<1>3. Letter[v] \in {43, 47} \cup (48 .. 122)
  <2>1. PICK x : x = Letter[v]
    OBVIOUS
  <2>2. x \in {43, 47} \cup (48 .. 122)
    BY <1>2, <2>1
  <2> QED
    BY <2>1, <2>2
<1>4. PICK x : x = Letter[s % 64]
  OBVIOUS
<1>5. x \in {43, 47} \cup (48 .. 122)
  BY <1>1, <1>3, <1>4
<1>6. x \in Byte /\ x \notin {CR, LF, DOT, SPACE}
  BY <1>5 DEF Byte, CR, LF, DOT, SPACE
<1> QED
  BY <1>4, <1>6

\* Four letters are written.
LEMMA LettersAre ==
  ASSUME NEW b \in Seq(Byte)
  PROVE  IsPlain(Letters(b), 4)
<1>1. PICK n \in Nat : n = Len(b)
  BY LenProperties
<1> DEFINE byte(i) == IF i <= n THEN b[i] ELSE 0
           all == 65536 * byte(1) + 256 * byte(2) + byte(3)
           letter(s, i) == IF i <= n + 1 THEN Letter[s % 64] ELSE EQUALS
<1>2. \A i \in 1 .. n : b[i] \in Byte
  BY <1>1, ElementOfSeq
<1>3. byte(1) \in Byte /\ byte(2) \in Byte /\ byte(3) \in Byte
  <2>1. 0 \in Byte
    BY DEF Byte
  <2>2. (1 <= n => 1 \in 1 .. n) /\ (2 <= n => 2 \in 1 .. n) /\ (3 <= n => 3 \in 1 .. n)
    OBVIOUS
  <2> QED
    BY <1>2, <2>1, <2>2
<1> HIDE DEF byte
<1>4. all \in Nat
  <2>1. \A x, y, z \in Byte : 65536 * x + 256 * y + z \in Nat
    BY DEF Byte
  <2> QED
    BY <1>3, <2>1
<1> HIDE DEF all
<1>5. PICK p, q, r \in Nat : p = all \div 262144 /\ q = all \div 4096 /\ r = all \div 64
  BY <1>4
<1> DEFINE Good(c) == c \in Byte /\ c \notin {CR, LF, DOT, SPACE}
<1>6. Good(EQUALS)
  BY DEF EQUALS, Byte, CR, LF, DOT, SPACE
<1>7. ASSUME NEW s \in Nat, NEW i
      PROVE  Good(letter(s, i))
  <2>1. Good(Letter[s % 64])
    BY LetterIs
  <2> HIDE DEF Good
  <2> QED
    BY <1>6, <2>1
<1>8. Letters(b) = <<letter(p, 1), letter(q, 2), letter(r, 3), letter(all, 4)>>
  BY <1>1, <1>5 DEF Letters, all, byte
<1>9. Good(letter(p, 1)) /\ Good(letter(q, 2)) /\ Good(letter(r, 3)) /\ Good(letter(all, 4))
  <2> HIDE DEF Good, letter
  <2> QED
    BY <1>4, <1>5, <1>7
<1> HIDE DEF letter
<1>10. PICK c1, c2, c3, c4 : c1 = letter(p, 1) /\ c2 = letter(q, 2) /\ c3 = letter(r, 3) /\ c4 = letter(all, 4)
  OBVIOUS
<1>11. Good(c1) /\ Good(c2) /\ Good(c3) /\ Good(c4)
  BY <1>9, <1>10
<1>12. PICK w : w = <<c1, c2, c3, c4>>
  OBVIOUS
<1>13. w \in Seq(Byte) /\ Len(w) = 4 /\ w[1] = c1 /\ w[2] = c2 /\ w[3] = c3 /\ w[4] = c4
  BY <1>11, <1>12
<1>14. \A i \in 1 .. 4 : i = 1 \/ i = 2 \/ i = 3 \/ i = 4
  OBVIOUS
<1>15. \A i \in 1 .. 4 : w[i] \notin {CR, LF, DOT, SPACE}
  BY <1>11, <1>13, <1>14
<1>16. w = Letters(b)
  BY <1>8, <1>10, <1>12
<1> QED
  BY <1>13, <1>15, <1>16 DEF IsPlain

\* Base64, after k groups of three bytes.
B64Job == job.kind = "base64" /\ HasLimit
B64State(u, col, k) ==
  /\ Mailable(u, col) /\ ~EndsIn(u, {SPACE})
  /\ KeepsLines => col = 0 \/ col + 6 < LineLimit(76)
  /\ ~cutLines => Len(u) <= 4 * k

\* A group more.
GroupGoes(o, r, k) ==
  \E y, col : r = [out |-> y, column |-> col] /\ y \in Seq(Byte) /\ B64State(o \o y, col, k + 1)

\* Four letters, and a line break where the line is full.
LEMMA GroupAdded ==
  ASSUME B64Job, NEW o \in Seq(Byte), NEW x \in Seq(Byte), NEW col, NEW k \in Nat, B64State(o \o x, col, k),
         NEW w, IsPlain(w, 4)
  PROVE  GroupGoes(o, AddGroup([out |-> x, column |-> col], w), k)
<1>1. PICK u : u = o \o x
  OBVIOUS
<1>2. Mailable(u, col) /\ ~EndsIn(u, {SPACE}) /\ HasLimit /\ col \in Nat /\ u \in Seq(Byte)
  BY <1>1 DEF B64State, Mailable, B64Job
<1>3. w \in Seq(Byte)
  BY DEF IsPlain
<1>4. ASSUME KeepsLines
      PROVE  \E l, q \in Nat : l = LineLimit(76) /\ q = Longest /\ l <= q /\ q >= 5
  <2>1. PICK q \in Nat : q = job.maxLineLength /\ q >= 5
    BY <1>4 DEF B64Job, HasLimit, KeepsLines, cutLines
  <2>2. LineLimit(76) \in Nat /\ LineLimit(76) <= q
    <3>1. 76 \in Nat
      OBVIOUS
    <3> QED
      BY <2>1, <3>1, LimitIs
  <2>3. Longest = q
    BY <2>1 DEF Longest, B64Job
  <2> QED
    BY <2>1, <2>2, <2>3
<1>5. KeepsLines => col + 4 <= Longest
  <2>1. ASSUME KeepsLines
        PROVE  col + 4 <= Longest
    <3>1. PICK l, q \in Nat : l = LineLimit(76) /\ q = Longest /\ l <= q /\ q >= 5
      BY <1>4, <2>1
    <3>2. col = 0 \/ col + 6 < l
      BY <1>1, <2>1, <3>1 DEF B64State
    <3> QED
      BY <1>2, <3>1, <3>2
  <2> QED
    BY <2>1
<1>6. GoesOn(u, col, w, 4) /\ w[4] # SPACE
  BY <1>5, PlainGoes
<1>7. PICK v, col1 : v = u \o w /\ col1 = col + 4
  OBVIOUS
<1>8. Mailable(v, col1) /\ Len(v) = Len(u) + 4 /\ ~EndsIn(v, {SPACE})
  <2>1. PICK m : m = 4
    OBVIOUS
  <2>2. GoesOn(u, col, w, m) /\ w[m] # SPACE
    BY <1>6, <2>1
  <2>3. Mailable(u \o w, col + m) /\ Len(u \o w) = Len(u) + m /\ (EndsIn(u \o w, {SPACE}) <=> w[m] = SPACE)
    BY <1>2, <2>2, LineGrows
  <2> QED
    BY <1>7, <2>1, <2>2, <2>3
<1>9. PICK y : y = x \o w
  OBVIOUS
<1>10. y \in Seq(Byte) /\ o \o y = v
  BY <1>1, <1>3, <1>7, <1>9, Associative, ConcatProperties
<1>11. ~cutLines => Len(v) <= 4 * (k + 1)
  <2>1. PICK n \in Nat : n = Len(u)
    BY <1>2, LenProperties
  <2>2. ~cutLines => n <= 4 * k
    BY <1>1, <2>1 DEF B64State
  <2>3. n <= 4 * k => n + 4 <= 4 * (k + 1)
    OBVIOUS
  <2> QED
    BY <1>8, <2>1, <2>2, <2>3
<1>12. AddGroup([out |-> x, column |-> col], w) =
         IF EndsLine(col1) THEN [out |-> y \o CRLF, column |-> 0] ELSE [out |-> y, column |-> col1]
  BY <1>7, <1>9 DEF AddGroup
<1>13. CASE EndsLine(col1)
  <2>1. PICK f, z : f = CRLF /\ z = y \o f
    OBVIOUS
  <2>2. f \in Seq(Byte) /\ Len(f) = 2 /\ \A i \in 1 .. 2 : f[i] \in {CR, LF}
    BY <2>1, SoftEnd
  <2>3. 2 \in Nat /\ 2 > 0
    OBVIOUS
  <2>4. Mailable(v \o f, 0) /\ ~EndsIn(v \o f, {SPACE})
    BY <1>2, <1>8, <2>2, <2>3, LineBreaks
  <2>5. z \in Seq(Byte) /\ o \o z = v \o f
    BY <1>10, <2>1, <2>2, Associative, ConcatProperties
  <2>6. cutLines
    BY <1>13 DEF EndsLine
  <2>7. B64State(o \o z, 0, k + 1)
    BY <2>4, <2>5, <2>6 DEF B64State
  <2> QED
    BY <1>12, <1>13, <2>1, <2>5, <2>7 DEF GroupGoes
<1>14. CASE ~EndsLine(col1)
  <2>1. KeepsLines => col1 + 6 < LineLimit(76)
    <3>1. ASSUME KeepsLines
          PROVE  col1 + 6 < LineLimit(76)
      <4>1. PICK l \in Nat : l = LineLimit(76)
        BY <1>4, <3>1
      <4>2. ~(col1 + 2 + 4 >= l)
        BY <1>14, <3>1, <4>1 DEF EndsLine, KeepsLines
      <4> QED
        BY <1>2, <1>7, <4>1, <4>2
    <3> QED
      BY <3>1
  <2>2. B64State(o \o y, col1, k + 1)
    BY <1>8, <1>10, <1>11, <2>1 DEF B64State
  <2> QED
    BY <1>10, <1>12, <1>14, <2>2 DEF GroupGoes
<1> QED
  BY <1>13, <1>14

\* The next three bytes, or as many as there are.
Group(bytes, i) == SubSeq(bytes, 3 * i - 2, Min({3 * i, Len(bytes)}))

\* A group is a sequence of bytes.
LEMMA GroupIs ==
  ASSUME NEW bytes \in Seq(Byte), NEW i \in Nat \ {0}
  PROVE  Group(bytes, i) \in Seq(Byte)
<1>1. PICK n, a, b \in Nat : n = Len(bytes) /\ a = 3 * i - 2 /\ b = 3 * i /\ a >= 1
  BY LenProperties
<1>2. {b, n} \in SUBSET Nat /\ {b, n} # {}
  OBVIOUS
<1>3. PICK c : c = Min({b, n})
  OBVIOUS
<1>4. c \in Nat /\ c <= n
  BY <1>2, <1>3, MinOfNumbers
<1>5. \A j \in a .. c : bytes[j] \in Byte
  <2>1. a .. c \subseteq 1 .. Len(bytes)
    BY <1>1, <1>4
  <2> QED
    BY <2>1, ElementOfSeq
<1>6. a \in Int /\ c \in Int
  BY <1>4
<1>7. SubSeq(bytes, a, c) \in Seq(Byte)
  BY <1>5, <1>6, SubSeqProperties
<1> QED
  BY <1>1, <1>3, <1>7 DEF Group

\* The groups, one by one.
GroupByGroup(after, bytes, g) ==
  /\ after[0] = [out |-> <<>>, column |-> worker.column]
  /\ \A i \in 1 .. g : after[i] = AddGroup(after[i - 1], Letters(Group(bytes, i)))

\* Letters added to lines give lines.
LEMMA AddGroupType ==
  ASSUME NEW v \in Lines1, NEW w \in Seq(Byte)
  PROVE  AddGroup(v, w) \in Lines1
<1>1. PICK x, col : v = [out |-> x, column |-> col] /\ x \in Seq(Byte) /\ col \in Nat
  BY DEF Lines1
<1>2. v.out = x /\ v.column = col
  BY <1>1
<1>3. PICK f, y, z : f = CRLF /\ y = x \o w /\ z = y \o f
  OBVIOUS
<1>4. f \in Seq(Byte)
  BY <1>3, SoftEnd
<1>5. y \in Seq(Byte) /\ z \in Seq(Byte)
  BY <1>1, <1>3, <1>4, ConcatProperties
<1>6. AddGroup(v, w) = IF EndsLine(col + 4) THEN [out |-> z, column |-> 0] ELSE [out |-> y, column |-> col + 4]
  BY <1>2, <1>3 DEF AddGroup
<1>7. col + 4 \in Nat /\ 0 \in Nat
  BY <1>1
<1> QED
  BY <1>5, <1>6, <1>7 DEF Lines1

\* Base64Lines adds one group after another.
LEMMA Base64Steps ==
  ASSUME NEW bytes \in Seq(Byte), worker.column \in Nat, NEW g \in Nat, g = (Len(bytes) + 2) \div 3
  PROVE  \E after : GroupByGroup(after, bytes, g) /\ Base64Lines(bytes, worker.column) = after[g]
<1> DEFINE V == Lines1
           group(i) == Letters(Group(bytes, i))
           first == [out |-> <<>>, column |-> worker.column]
           step == [i \in 1 .. g |-> [v \in V |-> AddGroup(v, group(i))]]
<1>1. first \in V
  BY EmptySeq DEF Lines1
<1>2. ASSUME NEW i \in 1 .. g
      PROVE  group(i) \in Seq(Byte)
  <2>1. i \in Nat \ {0}
    OBVIOUS
  <2>2. Group(bytes, i) \in Seq(Byte)
    BY <2>1, GroupIs
  <2> QED
    BY <2>2, LettersAre DEF IsPlain
<1> HIDE DEF V, group, first
<1>3. ASSUME NEW v \in V, NEW i \in 1 .. g
      PROVE  AddGroup(v, group(i)) \in V
  BY <1>2, AddGroupType DEF V
<1>4. step \in Steps(g, V)
  BY <1>3 DEF Steps
<1>5. \A i \in 1 .. g : \A v \in V : step[i][v] = AddGroup(v, group(i))
  OBVIOUS
<1> HIDE DEF step
<1>6. PICK f : Iterates(f, g, V, first, step)
  BY <1>1, <1>4, Iteration
<1>7. f \in [0 .. g -> V] /\ f[0] = first /\ \A i \in 1 .. g : f[i] = AddGroup(f[i - 1], group(i))
  <2>1. f \in [0 .. g -> V] /\ f[0] = first /\ \A i \in 1 .. g : f[i] = step[i][f[i - 1]]
    BY <1>6 DEF Iterates
  <2>2. \A i \in 1 .. g : i - 1 \in 0 .. g
    OBVIOUS
  <2>3. \A i \in 1 .. g : f[i - 1] \in V
    BY <2>1, <2>2
  <2> QED
    BY <1>5, <2>1, <2>3
<1> DEFINE rule(h) == h = [i \in 0 .. g |-> IF i = 0 THEN first ELSE AddGroup(h[i - 1], group(i))]
           after == CHOOSE h : rule(h)
<1>8. rule(f)
  <2>1. \A i \in 0 .. g : f[i] = IF i = 0 THEN first ELSE AddGroup(f[i - 1], group(i))
    <3>1. \A i \in 0 .. g : i = 0 \/ i \in 1 .. g
      OBVIOUS
    <3> QED
      BY <1>7, <3>1
  <2> QED
    BY <1>7, <2>1
<1>9. rule(after)
  <2> HIDE DEF rule
  <2> QED
    BY <1>8
<1>10. Base64Lines(bytes, worker.column) = after[g]
  BY DEF Base64Lines, Group, group, first
<1> HIDE DEF after
<1>11. GroupByGroup(after, bytes, g)
  <2>1. \A i \in 0 .. g : after[i] = IF i = 0 THEN first ELSE AddGroup(after[i - 1], group(i))
    BY <1>9
  <2>2. 0 \in 0 .. g /\ \A i \in 1 .. g : i \in 0 .. g /\ i # 0
    OBVIOUS
  <2>3. after[0] = first /\ \A i \in 1 .. g : after[i] = AddGroup(after[i - 1], group(i))
    BY <2>1, <2>2
  <2> QED
    BY <2>3 DEF GroupByGroup, first, group
<1> QED
  BY <1>10, <1>11

\* What is known when some groups have been encoded after o was written.
B64After(o, r, k) ==
  \E y, col : r = [out |-> y, column |-> col] /\ y \in Seq(Byte) /\ B64State(o \o y, col, k)

\* All groups of a piece go on with the text.
LEMMA Base64Encodes ==
  ASSUME B64Job, NEW o \in Seq(Byte), NEW k \in Nat, NEW bytes \in Seq(Byte), NEW g \in Nat, g = (Len(bytes) + 2) \div 3,
         B64State(o, worker.column, k)
  PROVE  B64After(o, Base64Lines(bytes, worker.column), k + g)
<1>1. worker.column \in Nat
  BY DEF B64State, Mailable
<1>2. PICK after : GroupByGroup(after, bytes, g) /\ Base64Lines(bytes, worker.column) = after[g]
  BY <1>1, Base64Steps
<1>3. after[0] = [out |-> <<>>, column |-> worker.column]
  BY <1>2 DEF GroupByGroup
<1>4. \A i \in 1 .. g : after[i] = AddGroup(after[i - 1], Letters(Group(bytes, i)))
  BY <1>2 DEF GroupByGroup
<1> DEFINE S == {i \in 0 .. g : B64After(o, after[i], k + i)}
<1>5. 0 \in S
  <2>1. PICK y, col : y = <<>> /\ col = worker.column
    OBVIOUS
  <2>2. y \in Seq(Byte) /\ o \o y = o /\ k + 0 = k
    BY <2>1, EmptySeq, ConcatEmptySeq
  <2>3. after[0] = [out |-> y, column |-> col] /\ B64State(o \o y, col, k + 0)
    BY <1>3, <2>1, <2>2
  <2>4. B64After(o, after[0], k + 0)
    BY <2>2, <2>3 DEF B64After
  <2> QED
    BY <2>4
<1>6. ASSUME NEW i \in 1 .. g, i - 1 \in S
      PROVE  i \in S
  <2>1. PICK h, m \in Nat : h = i - 1 /\ m = k + h /\ m + 1 = k + i /\ i \in Nat \ {0}
    OBVIOUS
  <2>2. B64After(o, after[h], m)
    BY <1>6, <2>1
  <2>3. PICK y, col : after[h] = [out |-> y, column |-> col] /\ y \in Seq(Byte) /\ B64State(o \o y, col, m)
    BY <2>2 DEF B64After
  <2>4. PICK w : w = Letters(Group(bytes, i))
    OBVIOUS
  <2>5. IsPlain(w, 4)
    BY <2>1, <2>4, GroupIs, LettersAre
  <2>6. after[i] = AddGroup([out |-> y, column |-> col], w)
    BY <1>4, <2>1, <2>3, <2>4
  <2>7. GroupGoes(o, after[i], m)
    BY <2>3, <2>5, <2>6, GroupAdded
  <2>8. B64After(o, after[i], k + i)
    BY <2>1, <2>7 DEF GroupGoes, B64After
  <2> QED
    BY <2>8
<1>7. g \in S
  <2> HIDE DEF S
  <2>1. 0 .. g \subseteq S
    BY <1>5, <1>6, NumberInduction
  <2> QED
    BY <2>1
<1> QED
  BY <1>2, <1>7

\* Between two pieces.
B64SoFar(o, carry, col, k) ==
  \E g, m \in Nat : carry \in Seq(Byte) /\ m = Len(carry) /\ m <= 2 /\ k = 3 * g + m /\ B64State(o, col, g)

\* A part of a sequence.
LEMMA PartIs ==
  ASSUME NEW s \in Seq(Byte), NEW a \in Nat \ {0}, NEW b \in Nat, b <= Len(s), NEW d \in Nat, d = (b - a) + 1
  PROVE  SubSeq(s, a, b) \in Seq(Byte) /\ Len(SubSeq(s, a, b)) = d
<1>1. a \in Int /\ b \in Int
  OBVIOUS
<1>2. \A i \in a .. b : s[i] \in Byte
  <2>1. a .. b \subseteq 1 .. Len(s)
    <3>1. PICK n \in Nat : n = Len(s)
      BY LenProperties
    <3> QED
      BY <3>1
  <2> QED
    BY <2>1, ElementOfSeq
<1>3. SubSeq(s, a, b) \in Seq(Byte) /\ Len(SubSeq(s, a, b)) = IF a <= b THEN b - a + 1 ELSE 0
  BY <1>1, <1>2, SubSeqProperties
<1> QED
  BY <1>3

\* The bytes before a piece and in it are groups and a rest.
LEMMA GroupsAndRest ==
  ASSUME NEW g \in Nat, NEW m \in Nat, NEW n \in Nat, NEW h \in Nat, NEW e \in Nat, m + n = 3 * h + e, NEW k, k = 3 * g + m
  PROVE  k + n = 3 * (g + h) + e
OBVIOUS

\* A piece more is encoded.
LEMMA Base64Piece ==
  ASSUME B64Job, NEW k, B64SoFar(output, worker.carry, worker.column, k),
         NEW p \in Seq(Byte), NEW n \in Nat, n = Len(p),
         NEW bytes, bytes = worker.carry \o p,
         NEW h \in Nat, NEW e \in Nat, e <= 2, Len(bytes) = 3 * h + e,
         NEW lines, lines = Base64Lines(SubSeq(bytes, 1, 3 * h), worker.column)
  PROVE  /\ output \o lines.out \in Seq(Byte)
         /\ B64SoFar(output \o lines.out, SubSeq(bytes, 3 * h + 1, Len(bytes)), lines.column, k + n)
<1>1. PICK g, m \in Nat : /\ worker.carry \in Seq(Byte) /\ m = Len(worker.carry) /\ m <= 2 /\ k = 3 * g + m
                          /\ B64State(output, worker.column, g)
  BY DEF B64SoFar
<1>2. bytes \in Seq(Byte) /\ Len(bytes) = m + n
  BY <1>1, ConcatProperties
<1>3. PICK l \in Nat : l = m + n /\ l = 3 * h + e
  BY <1>2
<1>4. PICK data : data = SubSeq(bytes, 1, 3 * h)
  OBVIOUS
<1>5. data \in Seq(Byte) /\ Len(data) = 3 * h
  <2>1. 1 \in Nat \ {0} /\ 3 * h \in Nat /\ 3 * h <= Len(bytes) /\ 3 * h = (3 * h - 1) + 1
    BY <1>2, <1>3
  <2> QED
    BY <1>2, <1>4, <2>1, PartIs
<1>6. PICK rest : rest = SubSeq(bytes, 3 * h + 1, Len(bytes))
  OBVIOUS
<1>7. rest \in Seq(Byte) /\ Len(rest) = e
  <2>1. PICK a, b \in Nat : a = 3 * h + 1 /\ b = l /\ a # 0 /\ e = (b - a) + 1
    BY <1>3
  <2>2. b = Len(bytes) /\ b <= Len(bytes) /\ a \in Nat \ {0}
    BY <1>2, <1>3, <2>1
  <2>3. SubSeq(bytes, a, b) \in Seq(Byte) /\ Len(SubSeq(bytes, a, b)) = e
    <3>1. e = (b - a) + 1 /\ b <= Len(bytes) /\ a \in Nat \ {0} /\ bytes \in Seq(Byte)
      BY <1>2, <2>1, <2>2
    <3> QED
      BY <3>1, PartIs, SMTT(60)
  <2> QED
    BY <1>6, <2>1, <2>2, <2>3
<1>8. h = (Len(data) + 2) \div 3
  <2>1. h = (3 * h + 2) \div 3
    OBVIOUS
  <2> QED
    BY <1>5, <2>1
<1>9. output \in Seq(Byte)
  BY <1>1 DEF B64State, Mailable
<1>10. B64After(output, lines, g + h)
  BY <1>1, <1>4, <1>5, <1>8, <1>9, Base64Encodes
<1>11. PICK y, col : lines = [out |-> y, column |-> col] /\ y \in Seq(Byte) /\ B64State(output \o y, col, g + h)
  BY <1>10 DEF B64After
<1>12. lines.out = y /\ lines.column = col
  BY <1>11
<1>13. output \o y \in Seq(Byte)
  BY <1>9, <1>11, ConcatProperties
<1>14. g + h \in Nat /\ k + n = 3 * (g + h) + e
  <2>1. m + n = 3 * h + e
    BY <1>3
  <2>2. k = 3 * g + m
    BY <1>1
  <2> QED
    BY <2>1, <2>2, GroupsAndRest
<1>15. B64SoFar(output \o y, rest, col, k + n)
  BY <1>3, <1>7, <1>11, <1>14 DEF B64SoFar
<1> QED
  BY <1>6, <1>12, <1>13, <1>15

\* At the end, one or two bytes that waited.
LEMMA Base64Last ==
  ASSUME B64Job, NEW k, k = Len(text), B64SoFar(output, worker.carry, worker.column, k),
         NEW lines, lines = Base64Lines(worker.carry, worker.column)
  PROVE  Fits(output \o lines.out)
<1>1. PICK g, m \in Nat : /\ worker.carry \in Seq(Byte) /\ m = Len(worker.carry) /\ m <= 2 /\ k = 3 * g + m
                          /\ B64State(output, worker.column, g)
  BY DEF B64SoFar
<1>2. k \in Nat /\ k >= 3 * g /\ (m = 0 \/ m = 1 \/ m = 2)
  <2>1. k = 3 * g + m /\ m <= 2
    BY <1>1
  <2> QED
    BY <2>1
<1>3. PICK h \in Nat : h = (m + 2) \div 3
  OBVIOUS
<1>4. output \in Seq(Byte)
  BY <1>1 DEF B64State, Mailable
<1>5. B64After(output, lines, g + h)
  BY <1>1, <1>3, <1>4, Base64Encodes
<1>6. PICK y, col : lines = [out |-> y, column |-> col] /\ y \in Seq(Byte) /\ B64State(output \o y, col, g + h)
  BY <1>5 DEF B64After
<1>7. lines.out = y
  BY <1>6
<1>8. PICK u : u = output \o y
  OBVIOUS
<1>9. Mailable(u, col) /\ ~EndsIn(u, {SPACE}) /\ (~cutLines => Len(u) <= 4 * (g + h))
  BY <1>6, <1>8 DEF B64State
<1>10. PICK z \in Nat : z = Len(u)
  BY <1>9, LenProperties DEF Mailable
<1>11. ~cutLines => getEncodedSize(k) = (4 * k) \div 3 + 4
  <2>1. ASSUME ~cutLines
        PROVE  getEncodedSize(k) = (4 * k) \div 3 + 4
    <3>1. getEncodedSize(k) = (4 * k) \div 3 + 0 + 4
      BY <2>1 DEF getEncodedSize, B64Job
    <3>2. (4 * k) \div 3 \in Int
      <4>1. PICK x \in Nat : x = 4 * k
        BY <1>2
      <4>2. x \div 3 \in Int
        OBVIOUS
      <4> QED
        BY <4>1, <4>2
    <3> QED
      BY <3>1, <3>2
  <2> QED
    BY <2>1
<1>12. 4 * (g + h) <= (4 * k) \div 3 + 4
  <2>1. h <= 1 /\ (m = 0 => h = 0)
    BY <1>2, <1>3
  <2>2. PICK x, q \in Nat : x = 4 * k /\ q = 4 * g /\ x >= 3 * q
    BY <1>2
  <2>3. x \div 3 >= q /\ x \div 3 \in Int
    BY <2>2
  <2>4. 4 * (g + h) <= q + 4
    BY <2>1, <2>2
  <2> QED
    BY <2>2, <2>3, <2>4
<1>13. Fits(u)
  <2>1. ~cutLines => Len(u) <= getEncodedSize(Len(text))
    <3>1. ASSUME ~cutLines
          PROVE  Len(u) <= getEncodedSize(k)
      <4>1. z <= 4 * (g + h) /\ getEncodedSize(k) = (4 * k) \div 3 + 4
        BY <1>9, <1>10, <1>11, <3>1
      <4>2. (4 * k) \div 3 \in Int
        <5>1. PICK x \in Nat : x = 4 * k
          BY <1>2
        <5>2. x \div 3 \in Int
          OBVIOUS
        <5> QED
          BY <5>1, <5>2
      <4> QED
        BY <1>10, <1>12, <4>1, <4>2
    <3> QED
      BY <3>1
  <2> QED
    BY <1>9, <2>1 DEF Fits
<1> QED
  BY <1>7, <1>8, <1>13

-----------------------------------------------------------------------------
(* The encoders' steps. *)

\* What is written so far can be mailed, on which column it is, and how much of the
\* text it stands for; a space at its end means that the next byte will be the space
\* that waits. What is decoded is what could be mailed.
EncoderInv ==
  job.kind \in {"base64", "quoted-printable"} =>
    /\ HasLimit /\ EncoderWorker(worker) /\ text \in Seq(Byte)
    /\ worker.phase = "encode" =>
         /\ at \in 0 .. Len(text)
         /\ job.kind = "base64" => B64SoFar(output, worker.carry, worker.column, at)
         /\ job.kind = "quoted-printable" => QPSoFar(output, worker.carry, worker.column, at)
    /\ worker.phase = "decode" => Fits(worker.encoded)

\* Nothing was written.
LEMMA NothingMailed ==
  ASSUME HasLimit
  PROVE  /\ Mailable(<<>>, 0) /\ Len(<<>>) = 0 /\ \A C : ~EndsIn(<<>>, C)
         /\ job.kind = "quoted-printable" => QPState(<<>>, 0, 0)
         /\ job.kind = "base64" => B64State(<<>>, 0, 0)
<1>1. PICK e : e = <<>>
  OBVIOUS
<1>2. e \in Seq(Byte) /\ Len(e) = 0 /\ \A C : ~EndsIn(e, C)
  BY <1>1, EmptySeq DEF EndsIn
<1>3. 1 .. Len(e) = {}
  BY <1>2
<1>4. CleanLines(e)
  BY <1>3 DEF CleanLines
<1>5. \A most : ShortLines(e, 0, most)
  BY <1>3 DEF ShortLines
<1>6. Mailable(e, 0)
  BY <1>2, <1>4, <1>5 DEF Mailable
<1>7. ASSUME job.kind = "quoted-printable"
      PROVE  QPState(e, 0, 0)
  <2>1. KeepsLines => 0 <= LineLimit(74) - 2
    <3>1. ASSUME KeepsLines
          PROVE  0 <= LineLimit(74) - 2
      <4>1. PICK q \in Nat : q = job.maxLineLength /\ q >= 5
        BY <3>1 DEF HasLimit, KeepsLines, cutLines
      <4>2. LineLimit(74) \in Nat /\ LineLimit(74) \in {q, 74}
        <5>1. 74 \in Nat
          OBVIOUS
        <5> QED
          BY <4>1, <5>1, LimitIs
      <4> QED
        BY <4>1, <4>2
    <3> QED
      BY <3>1
  <2> QED
    BY <1>2, <1>6, <2>1 DEF QPState
<1>8. ASSUME job.kind = "base64"
      PROVE  B64State(e, 0, 0)
  BY <1>2, <1>6 DEF B64State
<1> QED
  BY <1>1, <1>2, <1>6, <1>7, <1>8

\* Initially.
LEMMA EncoderInvInit == Init => EncoderInv
<1> SUFFICES ASSUME Init, job.kind \in {"base64", "quoted-printable"}
             PROVE  EncoderInv
  BY DEF EncoderInv
<1>1. EncoderInit
  BY InitOfKind DEF Encoders
<1>2. /\ at = 0 /\ worker = Fresh /\ output = <<>>
      /\ job.maxLineLength \in LineLengths \cup {NoLimit}
      /\ text \in Binaries \cup Printables
  BY <1>1 DEF EncoderInit
<1>3. HasLimit /\ text \in Seq(Byte)
  BY <1>2, EncoderAssumption DEF HasLimit
<1>4. worker.phase = "encode" /\ worker.carry = <<>> /\ worker.column = 0 /\ EncoderWorker(worker)
  BY <1>2 DEF Fresh, EncoderWorker
<1>5. at \in 0 .. Len(text)
  BY <1>2, <1>3, LenProperties
<1>6. PICK e : e = <<>> /\ e \in Seq(Byte) /\ Len(e) = 0
  BY EmptySeq
<1>7. /\ \A C : ~EndsIn(e, C)
      /\ job.kind = "quoted-printable" => QPState(e, 0, 0)
      /\ job.kind = "base64" => B64State(e, 0, 0)
  BY <1>3, <1>6, NothingMailed
<1>8. job.kind = "quoted-printable" => QPSoFar(e, e, 0, 0)
  BY <1>6, <1>7 DEF QPSoFar
<1>9. job.kind = "base64" => B64SoFar(e, e, 0, 0)
  <2>1. 0 \in Nat /\ 0 <= 2 /\ 0 = 3 * 0 + 0
    OBVIOUS
  <2> QED
    BY <1>6, <1>7, <2>1 DEF B64SoFar
<1> QED
  BY <1>2, <1>3, <1>4, <1>5, <1>6, <1>8, <1>9 DEF EncoderInv

\* What is said of a job is still said of it when it goes on.
LEMMA SameJob ==
  ASSUME job' = job, text' = text
  PROVE  /\ HasLimit' = HasLimit
         /\ \A e : Fits(e)' = Fits(e)
         /\ \A o, c, d, k : QPSoFar(o, c, d, k)' = QPSoFar(o, c, d, k)
         /\ \A o, c, d, k : B64SoFar(o, c, d, k)' = B64SoFar(o, c, d, k)
<1>1. HasLimit' = HasLimit /\ cutLines' = cutLines
  BY DEF HasLimit, cutLines
<1>2. KeepsLines' = KeepsLines /\ Longest' = Longest
  BY <1>1 DEF KeepsLines, Longest
<1>3. \A most : LineLimit(most)' = LineLimit(most)
  BY DEF LineLimit
<1>4. \A u, col : Mailable(u, col)' = Mailable(u, col)
  BY <1>2 DEF Mailable
<1>5. \A n : getEncodedSize(n)' = getEncodedSize(n)
  BY <1>1, <1>3 DEF getEncodedSize
<1>6. \A e : Fits(e)' = Fits(e)
  BY <1>1, <1>4, <1>5 DEF Fits
<1>7. \A u, col, k : QPState(u, col, k)' = QPState(u, col, k)
  BY <1>1, <1>2, <1>3, <1>4 DEF QPState
<1>8. \A u, col, k : B64State(u, col, k)' = B64State(u, col, k)
  BY <1>1, <1>2, <1>3, <1>4 DEF B64State
<1>9. \A o, c, d, k : QPSoFar(o, c, d, k)' = QPSoFar(o, c, d, k)
  BY <1>7 DEF QPSoFar
<1>10. \A o, c, d, k : B64SoFar(o, c, d, k)' = B64SoFar(o, c, d, k)
  BY <1>8 DEF B64SoFar
<1> QED
  BY <1>1, <1>6, <1>9, <1>10

\* When the encoder has gone on, the decoder, or the phase.
Encoded1(w, c, d) == [w EXCEPT !.carry = c, !.column = d]
Decoded1(w, c) == [w EXCEPT !.carry = c]
Phase1(w, x) == [w EXCEPT !.phase = x]

\* The rest is kept.
LEMMA CarriesOn ==
  ASSUME NEW w, EncoderWorker(w), NEW c, NEW d
  PROVE  /\ Encoded1(w, c, d).phase = w.phase /\ Encoded1(w, c, d).carry = c /\ Encoded1(w, c, d).column = d
         /\ EncoderWorker(Encoded1(w, c, d))
         /\ Decoded1(w, c).phase = w.phase /\ Decoded1(w, c).encoded = w.encoded /\ EncoderWorker(Decoded1(w, c))
         /\ Phase1(w, c).phase = c /\ EncoderWorker(Phase1(w, c))
<1>1. PICK p, b, e, f : w = [phase |-> p, carry |-> b, column |-> e, encoded |-> f]
  BY DEF EncoderWorker
<1>2. w.phase = p /\ w.encoded = f
  BY <1>1
<1>3. PICK x, y, z : x = Encoded1(w, c, d) /\ y = Decoded1(w, c) /\ z = Phase1(w, c)
  OBVIOUS
<1>4. x = [phase |-> p, carry |-> c, column |-> d, encoded |-> f]
  BY <1>1, <1>3 DEF Encoded1
<1>5. y = [phase |-> p, carry |-> c, column |-> e, encoded |-> f]
  BY <1>1, <1>3 DEF Decoded1
<1>6. z = [phase |-> c, carry |-> b, column |-> e, encoded |-> f]
  BY <1>1, <1>3 DEF Phase1
<1>7. x.phase = p /\ x.carry = c /\ x.column = d /\ EncoderWorker(x)
  BY <1>4 DEF EncoderWorker
<1>8. y.phase = p /\ y.encoded = f /\ EncoderWorker(y)
  BY <1>5 DEF EncoderWorker
<1>9. z.phase = c /\ EncoderWorker(z)
  BY <1>6 DEF EncoderWorker
<1> QED
  BY <1>2, <1>3, <1>7, <1>8, <1>9

\* A piece more was encoded.
LEMMA KeepsEncoding ==
  ASSUME EncoderInv, worker.phase = "encode", job.kind \in {"base64", "quoted-printable"},
         NEW n \in Sizes, NEW written, NEW carry, NEW column, Encodes(n, written, carry, column),
         NEW k, k = at + n,
         job.kind = "base64" => B64SoFar(output \o written, carry, column, k),
         job.kind = "quoted-printable" => QPSoFar(output \o written, carry, column, k)
  PROVE  EncoderInv'
<1>1. HasLimit /\ EncoderWorker(worker) /\ text \in Seq(Byte) /\ at \in 0 .. Len(text)
  BY DEF EncoderInv
<1>2. PICK w : w = Encoded1(worker, carry, column)
  OBVIOUS
<1>3. at' = k /\ output' = output \o written /\ worker' = w /\ job' = job /\ text' = text
  BY <1>2 DEF Encodes, Encoded1
<1>4. w.phase = "encode" /\ w.carry = carry /\ w.column = column /\ EncoderWorker(w)
  BY <1>1, <1>2, CarriesOn
<1>5. k \in 0 .. Len(text)
  <2>1. k \in 1 .. Len(text)
    BY <1>1, NextPiece
  <2> QED
    BY <2>1
<1>6. /\ HasLimit'
      /\ \A o, c, d, i : QPSoFar(o, c, d, i)' = QPSoFar(o, c, d, i)
      /\ \A o, c, d, i : B64SoFar(o, c, d, i)' = B64SoFar(o, c, d, i)
  BY <1>1, <1>3, SameJob
<1>7. PICK u : u = output \o written
  OBVIOUS
<1>8. /\ job.kind = "base64" => B64SoFar(u, carry, column, k)'
      /\ job.kind = "quoted-printable" => QPSoFar(u, carry, column, k)'
  BY <1>6, <1>7
<1>9. worker'.phase = "encode" /\ worker'.carry = carry /\ worker'.column = column /\ EncoderWorker(worker')
  BY <1>3, <1>4
<1> QED
  BY <1>1, <1>3, <1>5, <1>6, <1>7, <1>8, <1>9 DEF EncoderInv, EncoderWorker

\* All was encoded.
LEMMA KeepsEncoded ==
  ASSUME EncoderInv, job.kind \in {"base64", "quoted-printable"}, NEW written, ThenDecode(written), Fits(output \o written)
  PROVE  EncoderInv'
<1>1. HasLimit /\ EncoderWorker(worker) /\ text \in Seq(Byte)
  BY DEF EncoderInv
<1>2. PICK e : e = output \o written
  OBVIOUS
<1>3. job' = job /\ text' = text /\ worker' = [Fresh EXCEPT !.phase = "decode", !.encoded = e]
  BY <1>2 DEF ThenDecode
<1>4. PICK w : w = [phase |-> "decode", carry |-> <<>>, column |-> 0, encoded |-> e]
  OBVIOUS
<1>5. worker' = w
  <2>1. PICK b, f : b = <<>> /\ f = Fresh
    OBVIOUS
  <2>2. f = [phase |-> "encode", carry |-> b, column |-> 0, encoded |-> b]
    BY <2>1 DEF Fresh
  <2>3. PICK x : x = [f EXCEPT !.phase = "decode"]
    OBVIOUS
  <2>4. x = [phase |-> "decode", carry |-> b, column |-> 0, encoded |-> b]
    BY <2>2, <2>3
  <2>5. PICK y : y = [x EXCEPT !.encoded = e]
    OBVIOUS
  <2>6. y = [phase |-> "decode", carry |-> b, column |-> 0, encoded |-> e]
    BY <2>4, <2>5
  <2>7. y = [Fresh EXCEPT !.phase = "decode", !.encoded = e]
    BY <2>1, <2>3, <2>5
  <2> QED
    BY <1>3, <1>4, <2>1, <2>6, <2>7
<1>6. w.phase = "decode" /\ w.encoded = e /\ EncoderWorker(w)
  BY <1>4 DEF EncoderWorker
<1>7. HasLimit' /\ Fits(e)'
  BY <1>1, <1>2, <1>3, SameJob
<1>8. worker'.phase = "decode" /\ worker'.encoded = e /\ EncoderWorker(worker')
  BY <1>5, <1>6
<1>9. Fits(worker.encoded)'
  BY <1>7, <1>8
<1> QED
  BY <1>1, <1>3, <1>7, <1>8, <1>9 DEF EncoderInv, EncoderWorker

\* What was encoded stays what it is while it is decoded.
LEMMA KeepsDecoding ==
  ASSUME EncoderInv, job.kind \in {"base64", "quoted-printable"}, worker.phase = "decode",
         job' = job, text' = text,
         \/ \E c : worker' = [worker EXCEPT !.carry = c]
         \/ worker' = [worker EXCEPT !.phase = "done"]
  PROVE  EncoderInv'
<1>1. HasLimit /\ EncoderWorker(worker) /\ text \in Seq(Byte) /\ Fits(worker.encoded)
  BY DEF EncoderInv
<1>2. HasLimit' /\ \A e : Fits(e)' = Fits(e)
  BY <1>1, SameJob
<1>3. CASE \E c : worker' = [worker EXCEPT !.carry = c]
  <2>1. PICK c : worker' = [worker EXCEPT !.carry = c]
    BY <1>3
  <2>2. PICK w : w = Decoded1(worker, c)
    OBVIOUS
  <2>3. w.phase = "decode" /\ w.encoded = worker.encoded /\ EncoderWorker(w)
    BY <1>1, <2>2, CarriesOn
  <2>4. worker' = w
    BY <2>1, <2>2 DEF Decoded1
  <2>5. worker'.phase = "decode" /\ worker'.encoded = worker.encoded /\ EncoderWorker(worker')
    BY <2>3, <2>4
  <2>6. Fits(worker.encoded)'
    <3>1. PICK e : e = worker.encoded
      OBVIOUS
    <3>2. Fits(e)' /\ worker'.encoded = e
      BY <1>1, <1>2, <2>5, <3>1
    <3> QED
      BY <3>2
  <2> QED
    BY <1>1, <1>2, <2>5, <2>6 DEF EncoderInv, EncoderWorker
<1>4. CASE worker' = [worker EXCEPT !.phase = "done"]
  <2>1. PICK w : w = Phase1(worker, "done")
    OBVIOUS
  <2>2. w.phase = "done" /\ EncoderWorker(w)
    BY <1>1, <2>1, CarriesOn
  <2>3. worker' = w
    BY <1>4, <2>1 DEF Phase1
  <2>4. worker'.phase = "done" /\ EncoderWorker(worker')
    BY <2>2, <2>3
  <2> QED
    BY <1>1, <1>2, <2>4 DEF EncoderInv, EncoderWorker
<1> QED
  BY <1>3, <1>4

\* A piece in base64, whose last one or two bytes may wait.
LEMMA Base64Goes == EncoderInv /\ encodeBase64 => EncoderInv'
<1> SUFFICES ASSUME EncoderInv, encodeBase64
             PROVE  EncoderInv'
  OBVIOUS
<1>1. job.kind = "base64" /\ worker.phase = "encode"
  BY DEF encodeBase64, Encoding
<1>2. HasLimit /\ text \in Seq(Byte) /\ at \in 0 .. Len(text) /\ B64SoFar(output, worker.carry, worker.column, at)
  BY <1>1 DEF EncoderInv
<1>3. PICK n, bytes, whole, lines :
        /\ n \in Sizes /\ bytes = worker.carry \o Piece(n) /\ whole = Len(bytes) - (Len(bytes) % 3)
        /\ lines = Base64Lines(SubSeq(bytes, 1, whole), worker.column)
        /\ Encodes(n, lines.out, SubSeq(bytes, whole + 1, Len(bytes)), lines.column)
  BY DEF encodeBase64
<1>4. PICK p : p = Piece(n)
  OBVIOUS
<1>5. n \in Nat /\ p \in Seq(Byte) /\ Len(p) = n
  <2>1. n \in Sizes
    BY <1>3
  <2> QED
    BY <1>2, <1>4, <2>1, NextPiece
<1>6. bytes \in Seq(Byte)
  BY <1>2, <1>3, <1>4, <1>5, ConcatProperties DEF B64SoFar
<1>7. PICK l \in Nat : l = Len(bytes)
  BY <1>6, LenProperties
<1>8. PICK h, e \in Nat : l = 3 * h + e /\ e <= 2 /\ l - (l % 3) = 3 * h
  <2>1. PICK h, e \in Nat : h = l \div 3 /\ e = l % 3
    OBVIOUS
  <2>2. l = 3 * h + e /\ e <= 2 /\ l - e = 3 * h
    BY <2>1
  <2> QED
    BY <2>1, <2>2
<1>9. whole = 3 * h
  BY <1>3, <1>7, <1>8
<1>10. PICK rest, k : rest = SubSeq(bytes, 3 * h + 1, Len(bytes)) /\ k = at + n
  OBVIOUS
<1>11. Encodes(n, lines.out, rest, lines.column)
  BY <1>3, <1>9, <1>10
<1>12. B64SoFar(output \o lines.out, rest, lines.column, k)
  <2>1. B64Job
    BY <1>1, <1>2 DEF B64Job
  <2>2. bytes = worker.carry \o p /\ Len(bytes) = 3 * h + e /\ lines = Base64Lines(SubSeq(bytes, 1, 3 * h), worker.column)
    BY <1>3, <1>4, <1>7, <1>8, <1>9
  <2>3. PICK j : j = at
    OBVIOUS
  <2>4. B64SoFar(output, worker.carry, worker.column, j)
    BY <1>2, <2>3
  <2>5. B64SoFar(output \o lines.out, SubSeq(bytes, 3 * h + 1, Len(bytes)), lines.column, j + n)
    BY <1>5, <1>8, <2>1, <2>2, <2>4, Base64Piece
  <2> QED
    BY <1>10, <2>3, <2>5
<1>13. PICK written, column : written = lines.out /\ column = lines.column
  OBVIOUS
<1> QED
  <2>1. n \in Sizes
    BY <1>3
  <2>2. Encodes(n, written, rest, column) /\ B64SoFar(output \o written, rest, column, k)
    BY <1>11, <1>12, <1>13
  <2> QED
    BY <1>1, <1>10, <2>1, <2>2, KeepsEncoding

\* What has waited, at the end.
LEMMA Base64Ends == EncoderInv /\ endBase64 => EncoderInv'
<1> SUFFICES ASSUME EncoderInv, endBase64
             PROVE  EncoderInv'
  OBVIOUS
<1>1. job.kind = "base64" /\ worker.phase = "encode"
  BY DEF endBase64, Encoding
<1>2. HasLimit /\ B64SoFar(output, worker.carry, worker.column, at)
  BY <1>1 DEF EncoderInv
<1>3. PICK lines : lines = Base64Lines(worker.carry, worker.column)
  OBVIOUS
<1>4. ThenDecode(lines.out)
  BY <1>3 DEF endBase64
<1>5. PICK k : k = at /\ k = Len(text)
  BY <1>4 DEF ThenDecode, AllRead
<1>6. Fits(output \o lines.out)
  BY <1>1, <1>2, <1>3, <1>5, Base64Last DEF B64Job
<1> QED
  BY <1>1, <1>4, <1>6, KeepsEncoded

\* A piece in quoted-printable, and what of it is written.
LEMMA PieceInQP ==
  ASSUME encodeQP
  PROVE  \E n, bytes, waits, lines :
           /\ n \in Sizes /\ bytes = worker.carry \o Piece(n) /\ waits \in BOOLEAN /\ (waits <=> Last(bytes) = SPACE)
           /\ lines = QPLines(IF waits THEN Front(bytes) ELSE bytes, SPACE)
           /\ Encodes(n, lines.out, IF waits THEN <<SPACE>> ELSE <<>>, lines.column)
<1>1. PICK n : n \in Sizes /\
        LET bytes == worker.carry \o Piece(n)
            waits == Last(bytes) = SPACE
            lines == QPLines(IF waits THEN Front(bytes) ELSE bytes, SPACE)
        IN Encodes(n, lines.out, IF waits THEN <<SPACE>> ELSE <<>>, lines.column)
  BY DEF encodeQP
<1>2. PICK bytes : bytes = worker.carry \o Piece(n)
  OBVIOUS
<1>3. PICK waits \in BOOLEAN : waits <=> Last(bytes) = SPACE
  OBVIOUS
<1>4. PICK lines : lines = QPLines(IF waits THEN Front(bytes) ELSE bytes, SPACE)
  OBVIOUS
<1>5. Encodes(n, lines.out, IF waits THEN <<SPACE>> ELSE <<>>, lines.column)
  <2>1. CASE waits
    <3>1. Last(worker.carry \o Piece(n)) = SPACE /\ lines = QPLines(Front(worker.carry \o Piece(n)), SPACE)
      BY <1>2, <1>3, <1>4, <2>1
    <3>2. Encodes(n, lines.out, <<SPACE>>, lines.column)
      BY <1>1, <3>1
    <3> QED
      BY <2>1, <3>2
  <2>2. CASE ~waits
    <3>1. Last(worker.carry \o Piece(n)) # SPACE /\ lines = QPLines(worker.carry \o Piece(n), SPACE)
      BY <1>2, <1>3, <1>4, <2>2
    <3>2. Encodes(n, lines.out, <<>>, lines.column)
      BY <1>1, <3>1
    <3> QED
      BY <2>2, <3>2
  <2> QED
    BY <2>1, <2>2
<1> QED
  BY <1>1, <1>2, <1>3, <1>4, <1>5

\* A piece in quoted-printable, whose space at the end may wait.
LEMMA QPGoes == EncoderInv /\ encodeQP => EncoderInv'
<1> SUFFICES ASSUME EncoderInv, encodeQP
             PROVE  EncoderInv'
  OBVIOUS
<1>1. job.kind = "quoted-printable" /\ worker.phase = "encode"
  BY DEF encodeQP, Encoding
<1>2. HasLimit /\ text \in Seq(Byte) /\ at \in 0 .. Len(text) /\ QPSoFar(output, worker.carry, worker.column, at)
  BY <1>1 DEF EncoderInv
<1>3. PICK n, bytes, waits, lines :
        /\ n \in Sizes /\ bytes = worker.carry \o Piece(n) /\ waits \in BOOLEAN /\ (waits <=> Last(bytes) = SPACE)
        /\ lines = QPLines(IF waits THEN Front(bytes) ELSE bytes, SPACE)
        /\ Encodes(n, lines.out, IF waits THEN <<SPACE>> ELSE <<>>, lines.column)
  BY PieceInQP
<1>4. PICK p : p = Piece(n)
  OBVIOUS
<1>5. n \in Nat /\ n > 0 /\ p \in Seq(Byte) /\ Len(p) = n
  <2>1. n \in Sizes
    BY <1>3
  <2> QED
    BY <1>2, <1>4, <2>1, NextPiece
<1>6. PICK rest, k, j : rest = (IF waits THEN <<SPACE>> ELSE <<>>) /\ j = at /\ k = j + n
  OBVIOUS
<1>7. QPSoFar(output \o lines.out, rest, lines.column, k)
  <2>1. QPJob
    BY <1>1, <1>2 DEF QPJob
  <2>2. QPSoFar(output, worker.carry, worker.column, j)
    BY <1>2, <1>6
  <2>3. QPSoFar(output \o lines.out, IF waits THEN <<SPACE>> ELSE <<>>, lines.column, j + n)
    BY <1>3, <1>4, <1>5, <2>1, <2>2, QPPiece
  <2> QED
    BY <1>6, <2>3
<1>8. Encodes(n, lines.out, rest, lines.column) /\ k = at + n
  BY <1>3, <1>6
<1>9. PICK written, column : written = lines.out /\ column = lines.column
  OBVIOUS
<1> QED
  <2>1. n \in Sizes
    BY <1>3
  <2>2. Encodes(n, written, rest, column) /\ QPSoFar(output \o written, rest, column, k)
    BY <1>7, <1>8, <1>9
  <2> QED
    BY <1>1, <1>8, <2>1, <2>2, KeepsEncoding

\* A space that has waited, at the end.
LEMMA QPEnds == EncoderInv /\ endQP => EncoderInv'
<1> SUFFICES ASSUME EncoderInv, endQP
             PROVE  EncoderInv'
  OBVIOUS
<1>1. job.kind = "quoted-printable" /\ worker.phase = "encode"
  BY DEF endQP, Encoding
<1>2. HasLimit /\ QPSoFar(output, worker.carry, worker.column, at)
  BY <1>1 DEF EncoderInv
<1>3. PICK lines : lines = QPLines(worker.carry, NoByte)
  OBVIOUS
<1>4. ThenDecode(lines.out)
  BY <1>3 DEF endQP
<1>5. PICK k : k = at /\ k = Len(text)
  BY <1>4 DEF ThenDecode, AllRead
<1>6. Fits(output \o lines.out)
  BY <1>1, <1>2, <1>3, <1>5, QPLast DEF QPJob
<1> QED
  BY <1>1, <1>4, <1>6, KeepsEncoded

\* Every step keeps it.
LEMMA EncoderInvStep == EncoderInv /\ [Next]_streamVars => EncoderInv'
<1>1. ASSUME EncoderInv, Next, job.kind \in {"base64", "quoted-printable"}
      PROVE  EncoderInv'
  <2>1. job' = job /\ text' = text /\ EncoderNext
    BY <1>1, NextOfKind DEF Encoders
  <2>2. CASE encodeBase64
    BY <1>1, <2>2, Base64Goes
  <2>3. CASE endBase64
    BY <1>1, <2>3, Base64Ends
  <2>4. CASE encodeQP
    BY <1>1, <2>4, QPGoes
  <2>5. CASE endQP
    BY <1>1, <2>5, QPEnds
  <2>6. CASE decodeBase64
    <3>1. worker.phase = "decode" /\ \E c : worker' = [worker EXCEPT !.carry = c]
      BY <2>6 DEF decodeBase64, Decoding, Decodes
    <3> QED
      BY <1>1, <2>1, <3>1, KeepsDecoding
  <2>7. CASE decodeQP
    <3>1. worker.phase = "decode" /\ \E c : worker' = [worker EXCEPT !.carry = c]
      BY <2>7 DEF decodeQP, Decoding, Decodes
    <3> QED
      BY <1>1, <2>1, <3>1, KeepsDecoding
  <2>8. CASE endDecode
    <3>1. worker.phase = "decode" /\ worker' = [worker EXCEPT !.phase = "done"]
      BY <2>8 DEF endDecode, Decoded
    <3> QED
      BY <1>1, <2>1, <3>1, KeepsDecoding
  <2>9. CASE encodeUU \/ endUU \/ decodeUU
    BY <1>1, <2>9 DEF encodeUU, endUU, decodeUU, Encoding, Decoding
  <2> QED
    BY <2>1, <2>2, <2>3, <2>4, <2>5, <2>6, <2>7, <2>8, <2>9 DEF EncoderNext
<1>2. ASSUME EncoderInv, Next, job.kind \notin {"base64", "quoted-printable"}
      PROVE  EncoderInv'
  <2>1. job' = job
    BY <1>2, NextOfKind
  <2> QED
    BY <1>2, <2>1 DEF EncoderInv
<1>3. ASSUME EncoderInv, UNCHANGED streamVars
      PROVE  EncoderInv'
  <2>1. job' = job /\ text' = text /\ at' = at /\ worker' = worker /\ output' = output
    BY <1>3 DEF streamVars
  <2>2. /\ HasLimit' = HasLimit /\ \A e : Fits(e)' = Fits(e)
        /\ \A o, c, d, k : QPSoFar(o, c, d, k)' = QPSoFar(o, c, d, k)
        /\ \A o, c, d, k : B64SoFar(o, c, d, k)' = B64SoFar(o, c, d, k)
    BY <2>1, SameJob
  <2>3. PICK o, c, d, k, e : o = output /\ c = worker.carry /\ d = worker.column /\ k = at /\ e = worker.encoded
    OBVIOUS
  <2>4. /\ Fits(worker.encoded)' = Fits(worker.encoded)
        /\ QPSoFar(output, worker.carry, worker.column, at)' = QPSoFar(output, worker.carry, worker.column, at)
        /\ B64SoFar(output, worker.carry, worker.column, at)' = B64SoFar(output, worker.carry, worker.column, at)
    <3>1. Fits(e)' = Fits(e) /\ QPSoFar(o, c, d, k)' = QPSoFar(o, c, d, k) /\ B64SoFar(o, c, d, k)' = B64SoFar(o, c, d, k)
      BY <2>2
    <3> QED
      BY <2>1, <2>3, <3>1
  <2> QED
    BY <1>3, <2>1, <2>2, <2>4 DEF EncoderInv, EncoderWorker
<1> QED
  BY <1>1, <1>2, <1>3

\* And it says that what was encoded fits.
LEMMA EncoderInvMeans == EncoderInv => EncodedFits
<1> SUFFICES ASSUME EncoderInv, job.kind \in {"base64", "quoted-printable"}, worker.phase = "decode"
             PROVE  EncodedFits
  BY DEF EncodedFits
<1>1. PICK s : s = worker.encoded
  OBVIOUS
<1>2. Fits(s)
  BY <1>1 DEF EncoderInv
<1>3. PICK col : Mailable(s, col)
  BY <1>2 DEF Fits
<1>4. s \in Seq(Byte) /\ CleanLines(s)
  BY <1>3 DEF Mailable
<1>5. DOMAIN s = 1 .. Len(s) /\ Len(s) \in Nat
  BY <1>4, LenProperties
<1>6. KeepsLines => \A i, j \in DOMAIN s : OneLine(s, i, j) => j - i + 1 <= job.maxLineLength + (IF job.kind = "base64" THEN 0 ELSE 2)
  BY <1>3, <1>5 DEF Mailable, ShortLines, Longest
<1>7. ASSUME NEW i \in DOMAIN s
      PROVE  /\ s[i] = DOT => i > 1 /\ s[i - 1] # LF
             /\ s[i] = SPACE => i < Len(s) /\ s[i + 1] \notin {CR, LF}
  <2>1. i \in 1 .. Len(s)
    BY <1>5
  <2>2. /\ s[i] = DOT => i > 1 /\ s[i - 1] # LF
        /\ s[i] = SPACE /\ i < Len(s) => s[i + 1] \notin {CR, LF}
    BY <1>4, <2>1 DEF CleanLines
  <2>3. s[i] = SPACE => i < Len(s)
    <3>1. ASSUME s[i] = SPACE, ~(i < Len(s))
          PROVE  FALSE
      <4>1. i = Len(s)
        BY <1>5, <2>1, <3>1
      <4>2. s # <<>>
        BY <1>5, <2>1, EmptySeq
      <4> QED
        BY <1>2, <3>1, <4>1, <4>2 DEF Fits, EndsIn
    <3> QED
      BY <3>1
  <2> QED
    BY <2>2, <2>3
<1>8. ~cutLines => Len(s) <= getEncodedSize(Len(text))
  BY <1>2 DEF Fits
<1> QED
  BY <1>1, <1>6, <1>7, <1>8 DEF EncodedFits

\* What the encoders write can be mailed, however the text was cut into pieces
\* (b64Encoder::encode, qpEncoder::encode, getEncodedSize).
THEOREM EncodersFit == Spec => []EncodedFits
  BY EncoderInvInit, EncoderInvStep, EncoderInvMeans, PTL DEF Spec
=============================================================================
