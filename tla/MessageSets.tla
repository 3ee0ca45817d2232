----------------------------- MODULE MessageSets -----------------------------
(***************************************************************************)
(* messageSet::byNumber and byUID on lists (net/messageSet.cpp): the list  *)
(* is sorted and then cut into ranges of consecutive numbers.              *)
(***************************************************************************)
EXTENDS ByteStreams

CONSTANTS NumberLists, UidLists,
  UidBits  \* the width of vmime_uint32
ASSUME UidBitsAssumption == UidBits \in Nat \ {0}

Maximum == 2 ^ UidBits - 1  \* static_cast <vmime_uint32>(-1)
NotNumeric == -2            \* a UID that is not a number

\* A number may be 0, which is refused, but not negative; UIDs have the width of
\* vmime_uint32.
ASSUME ListAssumption == NumberLists \subseteq Seq(Nat) /\ UidLists \subseteq Seq((0 .. Maximum) \cup {NotNumeric})

Limit == IF job.kind = "numbers" THEN -1 ELSE Maximum  \* -1 is static_cast <size_t>(-1)

SetInit ==
  /\ at = 0 /\ output = <<>>
  /\ \/ job = [kind |-> "numbers"] /\ text \in NumberLists
     \/ job = [kind |-> "UIDs"] /\ text \in UidLists
  /\ worker = [sorted |-> <<>>, previous |-> Limit, rangeStart |-> Limit, outcome |-> "reading"]

BuildingSet == job.kind \in {"numbers", "UIDs"}
Range1(first, last) == [first |-> first, last |-> last]

Ascending(s) == \A i, j \in DOMAIN s : i < j => s[i] <= s[j]

\* What std::sort makes of a list: its elements, as often as they were, in order.
Sorted(s) == {t \in {[i \in DOMAIN s |-> s[p[i]]] : p \in Bijection(DOMAIN s, DOMAIN s)} : Ascending(t)}

\* Numbers are copied and sorted; UIDs are read as numbers of UidBits first,
\* and when one is not numeric each UID of the list gets a range of its own.
sortList ==
  /\ BuildingSet /\ worker.outcome = "reading"
  /\ LET plain == job.kind = "UIDs" /\ NotNumeric \in ToSet(text)
         value(n) == IF job.kind = "UIDs" THEN n % 2 ^ UidBits ELSE n
     IN /\ \E sorted \in Sorted([i \in DOMAIN text |-> value(text[i])]) :
             worker' = [worker EXCEPT !.outcome = IF plain THEN "built" ELSE "sorted", !.sorted = sorted]
        /\ output' = IF plain THEN [i \in DOMAIN text |-> Range1(text[i], text[i])] ELSE <<>>
  /\ UNCHANGED <<job, text, at>>

Fails == worker' = [worker EXCEPT !.outcome = "invalid"] /\ UNCHANGED output

\* The constructor of numberMessageRange throws for a first number below 1.
EndRange(state) ==
  IF job.kind = "numbers" /\ worker.rangeStart < 1 THEN Fails
  ELSE output' = Append(output, Range1(worker.rangeStart, worker.previous)) /\ worker' = state

\* Slip: a number that comes again ends the range.
nextNumber_KeepsDuplicates ==
  /\ BuildingSet /\ worker.outcome = "sorted" /\ at < Len(text)
  /\ LET current == worker.sorted[at + 1] IN
     IF worker.previous = Limit THEN worker' = [worker EXCEPT !.previous = current, !.rangeStart = current] /\ UNCHANGED output
     ELSE IF current = worker.previous + 1 THEN worker' = [worker EXCEPT !.previous = current] /\ UNCHANGED output
     ELSE EndRange([worker EXCEPT !.previous = current, !.rangeStart = current])
  /\ at' = at + 1 /\ UNCHANGED <<job, text>>

nextNumber ==
  /\ BuildingSet /\ worker.outcome = "sorted" /\ at < Len(text)
  /\ LET current == worker.sorted[at + 1] IN
     IF current = worker.previous THEN UNCHANGED <<worker, output>>
     ELSE IF worker.previous = Limit
       THEN worker' = [worker EXCEPT !.previous = current, !.rangeStart = current] /\ UNCHANGED output
     ELSE IF current = worker.previous + 1
       THEN worker' = [worker EXCEPT !.previous = current] /\ UNCHANGED output
     ELSE EndRange([worker EXCEPT !.previous = current, !.rangeStart = current])
  /\ at' = at + 1 /\ UNCHANGED <<job, text>>

lastRange ==
  /\ BuildingSet /\ worker.outcome = "sorted" /\ AllRead
  /\ EndRange([worker EXCEPT !.outcome = "built"])
  /\ UNCHANGED <<job, text, at>>

SetNext == sortList \/ nextNumber \/ lastRange
=============================================================================
