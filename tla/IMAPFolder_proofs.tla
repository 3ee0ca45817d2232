-------------------------- MODULE IMAPFolder_proofs --------------------------
(***************************************************************************)
(* Theorems about IMAPFolder: for any number of messages, of changes by    *)
(* other clients, of commands and of message objects, and whichever        *)
(* commands may time out.                                                  *)
(*                                                                         *)
(* The lines that the folder has read of a response and those still under  *)
(* way are one stream.  Each line is right where it stands: its number is  *)
(* the one its message has in the mailbox as the lines before it describe  *)
(* it.  A message object that is right before a line is right after it, so *)
(* it is right when the whole response has been acted on.                  *)
(***************************************************************************)
EXTENDS IMAPFolder, SequenceTheorems, Induction

-----------------------------------------------------------------------------
(***************************************************************************)
(* Types                                                                   *)
(***************************************************************************)
Views == SUBSET Uids
AnyUid == Uids \cup {NoUid}
Ops ==
  {"NOOP", "COPY", "SEARCH", "EXPUNGE", "STATUS", "LIST", "APPEND", "DATA", "STORE", "UID STORE",
   "FETCH", "UID FETCH"}
Treatments == {"update", "drop", "get", "get and update"}
Requests == [op : Ops, tag : Nat, num : Nat, uid : AnyUid, meant : AnyUid]
Running == [op : {"none"}] \cup [op : Ops, tag : Nat, then : Treatments]
Lines ==
  [kind : {"EXISTS", "STATUS"}, num : Nat, view : Views]
    \cup [kind : {"EXPUNGE"}, num : Nat, uid : Uids, view : Views]
    \cup [kind : {"FETCH"}, num : Nat, uid : Uids, withUid : BOOLEAN, view : Views]
    \cup [kind : {"CONTINUE"}, view : Views]
    \cup [kind : {"DONE"}, tag : Nat, op : Ops, ok : BOOLEAN, view : Views]

MailboxType ==
  /\ mailbox \in Views /\ marked \in SUBSET mailbox /\ nextUid \in 1..(MaxUid + 1)
  /\ \A uid \in mailbox \cup told : uid < nextUid
  /\ told \in Views /\ toldCount \in Nat /\ stage \in {"new", "told", "literal", "performed"}
  /\ requests \in Seq(Requests) /\ wire \in Seq(Lines)

FolderType ==
  /\ connected \in BOOLEAN /\ m_open \in BOOLEAN /\ m_mode \in {"none", "ro", "rw"}
  /\ m_count \in Nat /\ m_messages \in Seq(Objects)
  /\ m_tag \in 0..MaxTag /\ opens \in 0..MaxOpens
  /\ view \in Views /\ missed \in BOOLEAN

\* What getStatus and getFolders have sent is not treated as an update.
CallType ==
  /\ call \in Running /\ response \in Seq(Lines)
  /\ call.op \in {"STATUS", "LIST"} => call.then = "drop"
  /\ IdleNow => response = <<>>
  /\ ~connected => IdleNow /\ requests = <<>> /\ wire = <<>>

TypeInv == MailboxType /\ FolderType /\ CallType

-----------------------------------------------------------------------------
(***************************************************************************)
(* The stream                                                              *)
(***************************************************************************)
Stream == response \o wire

\* The mailbox as the first k lines of s describe it, which was v before.
After(v, s, k) == IF k = 0 THEN v ELSE s[k].view

\* Line is right for a client to whom the mailbox is as in before.
Right(before, line) ==
  /\ line.kind = "EXISTS" =>
       /\ before \subseteq line.view /\ \A u \in before, w \in line.view \ before : u < w
       /\ line.num = Cardinality(line.view)
  /\ line.kind = "EXPUNGE" =>
       /\ line.uid \in before /\ line.num = NumberOf(line.uid, before)
       /\ line.view = before \ {line.uid}
  /\ line.kind = "FETCH" => line.uid \in before /\ line.num = NumberOf(line.uid, before)
  /\ line.kind \notin {"EXISTS", "EXPUNGE"} => line.view = before

Chain(v, s) == \A k \in 1..Len(s) : Right(After(v, s, k - 1), s[k])

\* The message is gone for good, and no line from the k-th on speaks of it.
Departed(uid, k, v, s, box, next) ==
  /\ uid \notin box /\ uid < next
  /\ \A j \in k..Len(s) : uid \notin After(v, s, j)

\* The lines s lead from v to t, with box the mailbox that t is behind.
Whole(v, s, t, box, next) ==
  /\ Chain(v, s) /\ After(v, s, Len(s)) = t
  /\ \A u \in t, w \in box \ t : u < w
  /\ \A k \in 1..Len(s) : s[k].kind = "EXPUNGE" => Departed(s[k].uid, k, v, s, box, next)

StreamInv == connected => Whole(view, Stream, told, mailbox, nextUid)

-----------------------------------------------------------------------------
(***************************************************************************)
(* The message objects                                                     *)
(***************************************************************************)
\* The object is what its message makes it in v.
Naming(object, v) ==
  object.id # NoUid =>
    IF object.expunged THEN object.id \notin v
    ELSE /\ object.id \in v /\ NumberOf(object.id, v) = object.num
         /\ object.uid \in {NoUid, object.id}

\* An expunged message does not come back.
Over(object, k, v, s, box, next) ==
  object.id # NoUid /\ object.expunged => Departed(object.id, k, v, s, box, next)

\* Right now, while the connection is up or not.
ObjectRight(object, up, v, s, box, next) ==
  Naming(object, v) /\ (up => Over(object, 0, v, s, box, next))

ObjectInv ==
  ~missed => \A i \in DOMAIN m_messages :
    ObjectRight(m_messages[i], connected, view, Stream, mailbox, nextUid)

-----------------------------------------------------------------------------
(***************************************************************************)
(* The commands                                                            *)
(***************************************************************************)
\* The request names what was meant.
Apt(request, t) ==
  request.meant # NoUid =>
    /\ request.op \in {"STORE", "UID STORE"}
    /\ request.op = "STORE" =>
         request.meant \in t /\ NumberOf(request.meant, t) = request.num
    /\ request.op = "UID STORE" => request.meant = request.uid

RequestInv ==
  \A i \in DOMAIN requests :
    /\ Apt(requests[i], told)
    /\ i # 1 => requests[i].meant = NoUid

\* Tag 0 is that of the message of an APPEND, which has none.
TagsApart ==
  /\ \A i \in DOMAIN requests : requests[i].tag \in 0..m_tag
  /\ \A i, j \in DOMAIN requests : requests[i].tag = requests[j].tag => i = j \/ requests[i].tag = 0
  /\ \A k \in DOMAIN wire : wire[k].kind = "DONE" =>
       /\ wire[k].tag \in 0..m_tag
       /\ wire[k].tag # 0 => \A i \in DOMAIN requests : requests[i].tag # wire[k].tag

\* What bears the tag of the call is its command, or completes it.
TagOfCall ==
  ~IdleNow =>
    /\ call.tag \in 1..m_tag
    /\ \A i \in DOMAIN requests : requests[i].tag = call.tag => requests[i].op = call.op
    /\ \A k \in DOMAIN wire : wire[k].kind = "DONE" /\ wire[k].tag = call.tag => wire[k].op = call.op

TagInv == TagsApart /\ TagOfCall

-----------------------------------------------------------------------------
(***************************************************************************)
(* The count                                                               *)
(***************************************************************************)
\* A STATUS line is followed by the completion of its command, and before that
\* by no line that ends a response or a part of one; op is the command that the
\* server has performed and not completed.
Ends(line) == line.kind \in {"DONE", "CONTINUE"}
Followed(s, op) ==
  \A k \in 1..Len(s) : s[k].kind = "STATUS" =>
    \/ \E j \in 1..Len(s) :
         /\ k < j /\ s[j].kind = "DONE" /\ s[j].op = "STATUS"
         /\ \A i \in k..(j - 1) : ~Ends(s[i])
    \/ op = "STATUS" /\ \A i \in k..Len(s) : ~Ends(s[i])

Performed == IF ServerAt("performed") THEN Request.op ELSE "none"
StatusInv == Followed(Stream, Performed)

\* No line that has been read and not acted on ends a response.
ResponseInv == \A k \in 1..Len(response) : ~Ends(response[k])

-----------------------------------------------------------------------------
(***************************************************************************)
(* Fields and constructors                                                 *)
(***************************************************************************)
\* The messages of a view are finitely many numbers.
LEMMA ViewIsFinite ==
  ASSUME NEW v \in Views
  PROVE  v \in SUBSET Nat /\ IsFiniteSet(v) /\ Cardinality(v) \in Nat /\ NoUid \notin v
<1>1. MaxUid \in Nat
  BY MailboxAssumption
<1>2. IsFiniteSet(Uids)
  <2>1. 1 \in Int /\ MaxUid \in Int
    BY <1>1
  <2> QED
    BY <2>1, FS_Interval DEF Uids
<1>3. IsFiniteSet(v)
  BY <1>2, FS_Subset DEF Views
<1>4. Cardinality(v) \in Nat
  BY <1>3, FS_CardinalityType
<1>5. v \in SUBSET Nat /\ NoUid \notin v
  BY <1>1 DEF Uids, NoUid, Views
<1> QED
  BY <1>3, <1>4, <1>5

\* A UID is a number, and not that of no message.
LEMMA UidType ==
  /\ Uids \subseteq Nat /\ NoUid \notin Uids /\ NoUid \in AnyUid /\ Uids \subseteq AnyUid
  /\ \A v \in Views : v \subseteq Uids
  BY MailboxAssumption DEF Uids, NoUid, AnyUid, Views

\* The numbers of messages are ranks.
LEMMA NumberIsRank ==
  \A uid, v : NumberOf(uid, v) = Rank(uid, v)
  BY DEF NumberOf, Rank

\* A number is a natural one.
LEMMA NumberType ==
  ASSUME NEW v \in Views, NEW uid
  PROVE  NumberOf(uid, v) \in Nat
<1>1. v \in SUBSET Nat /\ IsFiniteSet(v)
  BY ViewIsFinite
<1> QED
  BY <1>1, BelowIsFinite, NumberIsRank

\* The fields of the lines.
LEMMA LineFields ==
  ASSUME NEW line \in Lines
  PROVE  /\ line.kind \in {"EXISTS", "STATUS", "EXPUNGE", "FETCH", "CONTINUE", "DONE"}
         /\ line.view \in Views
         /\ line.kind \in {"EXISTS", "STATUS", "EXPUNGE", "FETCH"} => line.num \in Nat
         /\ line.kind \in {"EXPUNGE", "FETCH"} => line.uid \in Uids
         /\ line.kind = "FETCH" => line.withUid \in BOOLEAN
         /\ line.kind = "DONE" => line.tag \in Nat /\ line.op \in Ops /\ line.ok \in BOOLEAN
  BY DEF Lines

\* The lines that the server makes.
LEMMA LinesMade ==
  ASSUME told \in Views
  PROVE  /\ \A n \in Nat, v \in Views : Exists(n, v) \in Lines
         /\ \A n \in Nat, uid \in Uids, v \in Views : Expunged(n, uid, v) \in Lines
         /\ \A n \in Nat, uid \in Uids, w \in BOOLEAN : Fetch(n, uid, w) \in Lines
         /\ \A n \in Nat : Status(n) \in Lines
         /\ Continue \in Lines
         /\ \A request \in Requests, ok \in BOOLEAN : Done(request, ok) \in Lines
<1>1. \A n \in Nat, v \in Views : Exists(n, v) \in Lines
  BY DEF Exists, Lines
<1>2. \A n \in Nat, uid \in Uids, v \in Views : Expunged(n, uid, v) \in Lines
  BY DEF Expunged, Lines
<1>3. \A n \in Nat, uid \in Uids, w \in BOOLEAN : Fetch(n, uid, w) \in Lines
  BY DEF Fetch, Lines
<1>4. \A n \in Nat : Status(n) \in Lines
  BY DEF Status, Lines
<1>5. Continue \in Lines
  BY DEF Continue, Lines
<1>6. \A request \in Requests, ok \in BOOLEAN : Done(request, ok) \in Lines
  BY DEF Done, Lines, Requests
<1> QED
  BY <1>1, <1>2, <1>3, <1>4, <1>5, <1>6

\* What a running call consists of.
LEMMA CallFields ==
  /\ Idle \in Running /\ Idle.op = "none" /\ "none" \notin Ops
  /\ \A c \in Running : c # Idle => c.op \in Ops /\ c.tag \in Nat /\ c.then \in Treatments
<1>1. Idle \in Running /\ Idle.op = "none" /\ "none" \notin Ops
  BY DEF Running, Idle, Ops
<1>2. \A c \in [op : {"none"}] : c = Idle
  BY DEF Idle
<1>3. \A c \in [op : Ops, tag : Nat, then : Treatments] :
        c.op \in Ops /\ c.tag \in Nat /\ c.then \in Treatments
  OBVIOUS
<1> QED
  BY <1>1, <1>2, <1>3 DEF Running

\* What a message object consists of.
LEMMA ObjectFields ==
  ASSUME NEW object \in Objects
  PROVE  /\ object.num \in Nat /\ object.uid \in AnyUid /\ object.id \in AnyUid
         /\ object.expunged \in BOOLEAN
  BY DEF Objects, AnyUid

\* A new message object.
LEMMA ObjectMade ==
  ASSUME NEW num \in Nat, NEW uid \in AnyUid, NEW id \in AnyUid
  PROVE  /\ Object(num, uid, id) \in Objects
         /\ Object(num, uid, id).num = num /\ Object(num, uid, id).uid = uid
         /\ Object(num, uid, id).id = id /\ ~Object(num, uid, id).expunged
  BY DEF Object, Objects, AnyUid

-----------------------------------------------------------------------------
(***************************************************************************)
(* The loops over the lines of a response                                  *)
(***************************************************************************)
\* What a line does with a message object.
LEMMA AfterLineType ==
  ASSUME NEW object \in Objects, NEW line \in Lines
  PROVE  /\ afterLine(object, line) \in Objects
         /\ afterLine(object, line).id = object.id
         /\ line.kind \notin {"EXPUNGE", "FETCH"} => afterLine(object, line) = object
<1>1. CASE line.kind = "EXPUNGE"
  <2>1. PICK n \in Nat : n = line.num
    BY <1>1, LineFields
  <2>2. afterLine(object, line) = afterExpunge(object, n)
    BY <1>1, <2>1 DEF afterLine
  <2>3. afterExpunge(object, n) \in Objects /\ afterExpunge(object, n).id = object.id
    <3>1. [object EXCEPT !.expunged = TRUE] \in Objects
          /\ [object EXCEPT !.expunged = TRUE].id = object.id
      BY DEF Objects
    <3>2. PICK m \in Nat : m = object.num
      BY ObjectFields
    <3>3. ASSUME m > n
          PROVE  /\ [object EXCEPT !.num = m - 1] \in Objects
                 /\ [object EXCEPT !.num = m - 1].id = object.id
      <4>1. m - 1 \in Nat
        BY <2>1, <3>2, <3>3
      <4> QED
        BY <4>1 DEF Objects
    <3> QED
      BY <3>1, <3>2, <3>3 DEF afterExpunge
  <2> QED
    BY <1>1, <2>2, <2>3
<1>2. CASE line.kind = "FETCH"
  <2>1. PICK uid \in Uids : uid = line.uid
    BY <1>2, LineFields
  <2>2. afterLine(object, line) \in {object, [object EXCEPT !.uid = uid]}
    BY <1>2, <2>1 DEF afterLine, processFetchResponse
  <2>3. [object EXCEPT !.uid = uid] \in Objects /\ [object EXCEPT !.uid = uid].id = object.id
    BY <2>1 DEF Objects
  <2> QED
    BY <1>2, <2>2, <2>3
<1>3. CASE line.kind \notin {"EXPUNGE", "FETCH"}
  BY <1>3 DEF afterLine
<1> QED
  BY <1>1, <1>2, <1>3

\* The object after each line of the response.
Processed(f, object, lines) ==
  /\ f \in [0..Len(lines) -> Objects] /\ f[0] = object
  /\ \A k \in 1..Len(lines) : f[k] = afterLine(f[k - 1], lines[k])

\* The loop leads from the object as it is to what processUntagged makes of it.
LEMMA Processing ==
  ASSUME response \in Seq(Lines), NEW object \in Objects
  PROVE  \E f : Processed(f, object, response) /\ processUntagged(object) = f[Len(response)]
<1> DEFINE n == Len(response)
           Round(x, i) == afterLine(x, response[i])
           Loop(f) == f = [i \in 0..n |-> IF i = 0 THEN object ELSE afterLine(f[i - 1], response[i])]
           after == CHOOSE f : Loop(f)
<1>1. n \in Nat /\ \A i \in 1..n : response[i] \in Lines
  BY ElementOfSeq
<1>2. \E f : Loop(f) /\ f \in [0..n -> Objects]
  <2> DEFINE step == [k \in 1..n |-> [x \in Objects |-> Round(x, k)]]
  <2>1. step \in Steps(n, Objects)
    <3>1. \A k \in 1..n, x \in Objects : Round(x, k) \in Objects
      BY <1>1, AfterLineType
    <3> HIDE DEF Round
    <3> QED
      BY <3>1 DEF Steps
  <2>2. \A k \in 1..n, x \in Objects : step[k][x] = Round(x, k)
    OBVIOUS
  <2> HIDE DEF step, n, Round
  <2>3. PICK f : Iterates(f, n, Objects, object, step)
    BY <1>1, <2>1, Iteration
  <2>4. \A k \in 1..n : f[k] = Round(f[k - 1], k)
    <3> TAKE k \in 1..n
    <3>1. k - 1 \in 0..n
      BY <1>1
    <3> QED
      BY <3>1, <2>2, <2>3 DEF Iterates
  <2>5. f = [i \in 0..n |-> f[i]] /\ f \in [0..n -> Objects]
    BY <2>3 DEF Iterates
  <2>6. \A i \in 0..n : f[i] = IF i = 0 THEN object ELSE Round(f[i - 1], i)
    BY <1>1, <2>3, <2>4 DEF Iterates
  <2>7. f = [i \in 0..n |-> IF i = 0 THEN object ELSE Round(f[i - 1], i)]
    BY <2>5, <2>6
  <2> QED
    BY <2>5, <2>7 DEF Round
<1>3. Loop(after)
  BY <1>2
<1>4. processUntagged(object) = after[n]
  BY DEF processUntagged
<1> HIDE DEF after
<1>5. \A i \in 0..n : after[i] = IF i = 0 THEN object ELSE Round(after[i - 1], i)
  BY <1>3
<1> DEFINE S == {k \in 0..n : after[k] \in Objects}
<1> HIDE DEF n
<1>6. 0 \in S
  BY <1>1, <1>5
<1>7. ASSUME NEW k \in 1..n, k - 1 \in S
      PROVE  k \in S
  <2>1. after[k] = Round(after[k - 1], k) /\ k \in 0..n
    BY <1>1, <1>5
  <2>2. after[k - 1] \in Objects /\ response[k] \in Lines
    BY <1>1, <1>7
  <2>3. Round(after[k - 1], k) \in Objects
    BY <2>2, AfterLineType
  <2> QED
    BY <2>1, <2>3
<1>8. 0..n \subseteq S
  <2> HIDE DEF S
  <2> QED
    BY <1>1, <1>6, <1>7, NumberInduction
<1>9. after \in [0..n -> Objects]
  <2>1. \E f : after = [i \in 0..n |-> f[i]]
    <3>1. PICK f : f = [i \in 0..n |-> IF i = 0 THEN object ELSE afterLine(after[i - 1], response[i])]
      OBVIOUS
    <3>2. f = after
      BY <1>3, <3>1 DEF n
    <3> QED
      BY <3>1, <3>2
  <2> QED
    BY <1>8, <2>1
<1>10. Processed(after, object, response)
  BY <1>1, <1>5, <1>9 DEF Processed, n
<1> QED
  BY <1>4, <1>10 DEF n

\* The count after each line of the response.
Counted(f, count, kinds, lines) ==
  /\ f \in [0..Len(lines) -> Nat] /\ f[0] = count
  /\ \A k \in 1..Len(lines) : f[k] = IF lines[k].kind \in kinds THEN lines[k].num ELSE f[k - 1]

\* The loop leads from the count as it is to what updateFromResponse makes of it.
LEMMA Counting ==
  ASSUME response \in Seq(Lines), m_count \in Nat, NEW kinds \in SUBSET {"EXISTS", "STATUS"}
  PROVE  \E f : Counted(f, m_count, kinds, response) /\ updateFromResponse(kinds) = f[Len(response)]
<1> DEFINE n == Len(response)
           Round(x, i) == IF response[i].kind \in kinds THEN response[i].num ELSE x
           Loop(f) == f = [i \in 0..n |->
             IF i = 0 THEN m_count
             ELSE IF response[i].kind \in kinds THEN response[i].num ELSE f[i - 1]]
           count == CHOOSE f : Loop(f)
<1>1. n \in Nat /\ \A i \in 1..n : response[i] \in Lines
  BY ElementOfSeq
<1>2. \A k \in 1..n, x \in Nat : Round(x, k) \in Nat
  <2> TAKE k \in 1..n, x \in Nat
  <2>1. response[k].kind \in kinds => response[k].num \in Nat
    BY <1>1, LineFields
  <2> QED
    BY <2>1
<1>3. \E f : Loop(f) /\ f \in [0..n -> Nat]
  <2> DEFINE step == [k \in 1..n |-> [x \in Nat |-> Round(x, k)]]
  <2>1. step \in Steps(n, Nat)
    <3> HIDE DEF Round
    <3> QED
      BY <1>2 DEF Steps
  <2>2. \A k \in 1..n, x \in Nat : step[k][x] = Round(x, k)
    OBVIOUS
  <2> HIDE DEF step, n, Round
  <2>3. PICK f : Iterates(f, n, Nat, m_count, step)
    BY <1>1, <2>1, Iteration
  <2>4. \A k \in 1..n : f[k] = Round(f[k - 1], k)
    <3> TAKE k \in 1..n
    <3>1. k - 1 \in 0..n
      BY <1>1
    <3> QED
      BY <3>1, <2>2, <2>3 DEF Iterates
  <2>5. f = [i \in 0..n |-> f[i]] /\ f \in [0..n -> Nat]
    BY <2>3 DEF Iterates
  <2>6. \A i \in 0..n : f[i] = IF i = 0 THEN m_count ELSE Round(f[i - 1], i)
    BY <1>1, <2>3, <2>4 DEF Iterates
  <2>7. f = [i \in 0..n |-> IF i = 0 THEN m_count ELSE Round(f[i - 1], i)]
    BY <2>5, <2>6
  <2> QED
    BY <2>5, <2>7 DEF Round
<1>4. Loop(count)
  BY <1>3
<1>5. updateFromResponse(kinds) = count[n]
  BY DEF updateFromResponse
<1> HIDE DEF count
<1>6. \A i \in 0..n : count[i] = IF i = 0 THEN m_count ELSE Round(count[i - 1], i)
  BY <1>4
<1> DEFINE S == {k \in 0..n : count[k] \in Nat}
<1> HIDE DEF n, Round
<1>7. 0 \in S
  BY <1>1, <1>6
<1>8. ASSUME NEW k \in 1..n, k - 1 \in S
      PROVE  k \in S
  <2>1. count[k] = Round(count[k - 1], k) /\ k \in 0..n
    BY <1>1, <1>6
  <2>2. count[k - 1] \in Nat
    BY <1>8
  <2> QED
    BY <1>2, <2>1, <2>2
<1>9. 0..n \subseteq S
  <2> HIDE DEF S
  <2> QED
    BY <1>1, <1>7, <1>8, NumberInduction
<1>10. count \in [0..n -> Nat]
  <2>1. \E f : count = [i \in 0..n |-> f[i]]
    <3>1. PICK f : f = [i \in 0..n |->
                     IF i = 0 THEN m_count
                     ELSE IF response[i].kind \in kinds THEN response[i].num ELSE count[i - 1]]
      OBVIOUS
    <3>2. f = count
      BY <1>4, <3>1 DEF n
    <3> QED
      BY <3>1, <3>2
  <2> QED
    BY <1>9, <2>1
<1>11. Counted(count, m_count, kinds, response)
  BY <1>1, <1>6, <1>10 DEF Counted, n, Round
<1> QED
  BY <1>5, <1>11 DEF n

\* The message objects made after each line of the response.
Tells(line) == line.kind = "FETCH" /\ line.withUid
Made(line) == Object(line.num, line.uid, line.uid)
Making(f, lines) ==
  /\ f \in [0..Len(lines) -> Seq(Objects)] /\ f[0] = <<>>
  /\ \A k \in 1..Len(lines) :
       f[k] = IF Tells(lines[k]) THEN Append(f[k - 1], Made(lines[k])) ELSE f[k - 1]

\* An object made for a line has its number, and the UID of its own message.
LEMMA MadeType ==
  ASSUME NEW line \in Lines, Tells(line)
  PROVE  Made(line) \in Objects
<1>1. line.num \in Nat /\ line.uid \in AnyUid
  BY LineFields, UidType DEF Tells
<1> QED
  BY <1>1, ObjectMade DEF Made

\* The loop leads from no object to Fetched.
LEMMA Fetching ==
  ASSUME response \in Seq(Lines)
  PROVE  \E f : Making(f, response) /\ Fetched = f[Len(response)]
<1> DEFINE n == Len(response)
           V == Seq(Objects)
           Round(x, i) == IF Tells(response[i]) THEN Append(x, Made(response[i])) ELSE x
           Loop(f) == f = [i \in 0..n |->
             IF i = 0 THEN <<>>
             ELSE LET line == response[i] IN
                  IF line.kind = "FETCH" /\ line.withUid
                  THEN Append(f[i - 1], Object(line.num, line.uid, line.uid))
                  ELSE f[i - 1]]
           objects == CHOOSE f : Loop(f)
<1>1. n \in Nat /\ \A i \in 1..n : response[i] \in Lines
  BY ElementOfSeq
<1>2. \A k \in 1..n, x \in V : Round(x, k) \in V
  <2> TAKE k \in 1..n, x \in V
  <2>1. Tells(response[k]) => Made(response[k]) \in Objects
    BY <1>1, MadeType
  <2> QED
    BY <2>1
<1>3. <<>> \in V
  OBVIOUS
<1>4. \E f : Loop(f) /\ f \in [0..n -> V]
  <2> DEFINE step == [k \in 1..n |-> [x \in V |-> Round(x, k)]]
  <2>1. step \in Steps(n, V)
    <3> HIDE DEF Round, V
    <3> QED
      BY <1>2 DEF Steps
  <2>2. \A k \in 1..n, x \in V : step[k][x] = Round(x, k)
    OBVIOUS
  <2> HIDE DEF step, n, Round, V
  <2>3. PICK f : Iterates(f, n, V, <<>>, step)
    BY <1>1, <1>3, <2>1, Iteration
  <2>4. \A k \in 1..n : f[k] = Round(f[k - 1], k)
    <3> TAKE k \in 1..n
    <3>1. k - 1 \in 0..n
      BY <1>1
    <3> QED
      BY <3>1, <2>2, <2>3 DEF Iterates
  <2>5. f = [i \in 0..n |-> f[i]] /\ f \in [0..n -> V]
    BY <2>3 DEF Iterates
  <2>6. \A i \in 0..n : f[i] = IF i = 0 THEN <<>> ELSE Round(f[i - 1], i)
    BY <1>1, <2>3, <2>4 DEF Iterates
  <2>7. f = [i \in 0..n |-> IF i = 0 THEN <<>> ELSE Round(f[i - 1], i)]
    BY <2>5, <2>6
  <2> QED
    BY <2>5, <2>7 DEF Round, Tells, Made
<1>5. Loop(objects)
  BY <1>4
<1>6. Fetched = objects[n]
  BY DEF Fetched
<1> HIDE DEF objects
<1>7. \A i \in 0..n : objects[i] = IF i = 0 THEN <<>> ELSE Round(objects[i - 1], i)
  BY <1>5 DEF Tells, Made
<1> DEFINE S == {k \in 0..n : objects[k] \in V}
<1> HIDE DEF n, Round, V
<1>8. 0 \in S
  BY <1>1, <1>3, <1>7
<1>9. ASSUME NEW k \in 1..n, k - 1 \in S
      PROVE  k \in S
  <2>1. objects[k] = Round(objects[k - 1], k) /\ k \in 0..n
    BY <1>1, <1>7
  <2>2. objects[k - 1] \in V
    BY <1>9
  <2> QED
    BY <1>2, <2>1, <2>2
<1>10. 0..n \subseteq S
  <2> HIDE DEF S
  <2> QED
    BY <1>1, <1>8, <1>9, NumberInduction
<1>11. objects \in [0..n -> V]
  <2>1. \E f : objects = [i \in 0..n |-> f[i]]
    <3>1. PICK f : f = [i \in 0..n |->
             IF i = 0 THEN <<>>
             ELSE LET line == response[i] IN
                  IF line.kind = "FETCH" /\ line.withUid
                  THEN Append(objects[i - 1], Object(line.num, line.uid, line.uid))
                  ELSE objects[i - 1]]
      OBVIOUS
    <3>2. f = objects
      BY <1>5, <3>1 DEF n
    <3> QED
      BY <3>1, <3>2
  <2> QED
    BY <1>10, <2>1
<1>12. Making(objects, response)
  <2>1. objects[0] = <<>> /\ \A k \in 1..n : objects[k] = Round(objects[k - 1], k)
    BY <1>1, <1>7
  <2> QED
    BY <1>11, <2>1 DEF Making, n, Round, V
<1> QED
  BY <1>6, <1>12 DEF n

\* Counts are numbers, and objects remain objects.
LEMMA UpdateType ==
  ASSUME response \in Seq(Lines), m_count \in Nat, NEW objects \in Seq(Objects)
  PROVE  /\ \A kinds \in SUBSET {"EXISTS", "STATUS"} : updateFromResponse(kinds) \in Nat
         /\ Fetched \in Seq(Objects)
         /\ [i \in DOMAIN objects |-> processUntagged(objects[i])] \in Seq(Objects)
<1>1. Len(response) \in Nat /\ Len(response) \in 0..Len(response)
  OBVIOUS
<1>2. ASSUME NEW kinds \in SUBSET {"EXISTS", "STATUS"}
      PROVE  updateFromResponse(kinds) \in Nat
  <2>1. PICK f : Counted(f, m_count, kinds, response) /\ updateFromResponse(kinds) = f[Len(response)]
    BY <1>2, Counting
  <2> QED
    BY <1>1, <2>1 DEF Counted
<1>3. Fetched \in Seq(Objects)
  <2>1. PICK f : Making(f, response) /\ Fetched = f[Len(response)]
    BY Fetching
  <2> QED
    BY <1>1, <2>1 DEF Making
<1>4. ASSUME NEW object \in Objects
      PROVE  processUntagged(object) \in Objects
  <2>1. PICK f : Processed(f, object, response) /\ processUntagged(object) = f[Len(response)]
    BY Processing
  <2> QED
    BY <1>1, <2>1 DEF Processed
<1>5. [i \in DOMAIN objects |-> processUntagged(objects[i])] \in Seq(Objects)
  <2>1. DOMAIN objects = 1..Len(objects) /\ Len(objects) \in Nat
    OBVIOUS
  <2>2. \A i \in 1..Len(objects) : objects[i] \in Objects
    BY ElementOfSeq
  <2>3. \A i \in 1..Len(objects) : processUntagged(objects[i]) \in Objects
    BY <1>4, <2>2
  <2> QED
    BY <2>1, <2>3
<1> QED
  BY <1>2, <1>3, <1>5

-----------------------------------------------------------------------------
(***************************************************************************)
(* Type correctness                                                        *)
(***************************************************************************)
\* The types of what the server has.
LEMMA MailboxFields ==
  ASSUME MailboxType
  PROVE  /\ IsFiniteSet(mailbox) /\ IsFiniteSet(told) /\ Cardinality(mailbox) \in Nat
         /\ mailbox \subseteq Nat /\ told \subseteq Nat /\ nextUid \in Nat
         /\ mailbox \subseteq Uids /\ told \subseteq Uids
         /\ requests # <<>> => Request \in Requests /\ Tail(requests) \in Seq(Requests)
         /\ wire # <<>> => Line \in Lines /\ Tail(wire) \in Seq(Lines)
<1>1. IsFiniteSet(mailbox) /\ IsFiniteSet(told) /\ Cardinality(mailbox) \in Nat
      /\ mailbox \subseteq Nat /\ told \subseteq Nat
  BY ViewIsFinite DEF MailboxType
<1>2. mailbox \subseteq Uids /\ told \subseteq Uids
  BY UidType DEF MailboxType
<1>3. nextUid \in Nat
  BY MailboxAssumption DEF MailboxType
<1>4. requests # <<>> => Request \in Requests /\ Tail(requests) \in Seq(Requests)
  BY HeadTailProperties DEF MailboxType, Request
<1>5. wire # <<>> => Line \in Lines /\ Tail(wire) \in Seq(Lines)
  BY HeadTailProperties DEF MailboxType, Line
<1> QED
  BY <1>1, <1>2, <1>3, <1>4, <1>5

\* The server sends a line.
LEMMA SendType ==
  ASSUME MailboxType, NEW line \in Lines, Send(line)
  PROVE  wire' \in Seq(Lines)
  BY AppendProperties DEF MailboxType, Send

\* The requests without some of them.
LEMMA RequestsType ==
  ASSUME MailboxType, requests # <<>>
  PROVE  /\ SubSeq(requests, 3, Len(requests)) \in Seq(Requests)
         /\ <<Request>> \o SubSeq(requests, 3, Len(requests)) \in Seq(Requests)
<1>1. SubSeq(requests, 3, Len(requests)) \in Seq(Requests)
  <2>1. Len(requests) \in Int /\ \A i \in 3..Len(requests) : requests[i] \in Requests
    BY ElementOfSeq DEF MailboxType
  <2> QED
    BY <2>1, SubSeqProperties
<1>2. <<Request>> \in Seq(Requests)
  BY MailboxFields
<1> QED
  BY <1>1, <1>2, ConcatProperties

\* The server answers.
LEMMA ServerMailboxType ==
  ASSUME MailboxType, Server
  PROVE  MailboxType' /\ requests # <<>>
<1>1. Server => requests # <<>>
  BY DEF Server, tellExists, tellExpunged, performStore, performFetch, tellTarget, performExpunge,
         performAppend, takeLiteral, refuseLiteral, performStatus, performOther, complete, refuse,
         ServerAt
<1>2. CASE tellExists
  <2>1. told' = told \cup mailbox /\ told' \in Views
    BY <1>2 DEF tellExists, MailboxType, Views
  <2>2. toldCount' \in Nat /\ toldCount' = Cardinality(told')
    BY <1>2, <2>1, ViewIsFinite DEF tellExists
  <2>3. Exists(toldCount', told') \in Lines
    BY <2>1, <2>2, LinesMade DEF MailboxType
  <2>4. wire' \in Seq(Lines)
    BY <1>2, <2>3, SendType DEF tellExists
  <2> QED
    BY <1>1, <1>2, <2>1, <2>2, <2>4 DEF tellExists, MailboxType, mailVars
<1>3. CASE tellExpunged
  <2>1. PICK uid \in told \ mailbox :
          told' = told \ {uid} /\ Send(Expunged(NumberOf(uid, told), uid, told'))
    BY <1>3 DEF tellExpunged
  <2>2. told' \in Views /\ uid \in Uids /\ NumberOf(uid, told) \in Nat
    BY <2>1, NumberType, MailboxFields DEF MailboxType, Views
  <2>3. Expunged(NumberOf(uid, told), uid, told') \in Lines
    BY <2>2, LinesMade DEF MailboxType
  <2>4. wire' \in Seq(Lines)
    BY <2>1, <2>3, SendType
  <2> QED
    BY <1>1, <1>3, <2>1, <2>2, <2>4 DEF tellExpunged, MailboxType, mailVars
<1>4. CASE performStore
  <2>1. marked' \in SUBSET mailbox
    BY <1>4 DEF performStore, MailboxType
  <2> QED
    BY <1>1, <1>4, <2>1 DEF performStore, MailboxType
<1>5. CASE performFetch \/ performOther
  BY <1>1, <1>5 DEF performFetch, performOther, MailboxType, mailVars
<1>6. CASE tellTarget
  <2>1. wire' \in Seq(Lines)
    <3>1. CASE UNCHANGED wire
      BY <3>1 DEF MailboxType
    <3>2. CASE ~(UNCHANGED wire)
      <4> DEFINE uid == CHOOSE u \in Target : TRUE
      <4>1. Send(Fetch(NumberOf(uid, told), uid, Request.op # "STORE")) /\ Target # {}
        BY <1>6, <3>2 DEF tellTarget
      <4>2. uid \in Target /\ Target \subseteq told
        BY <4>1 DEF Target
      <4> HIDE DEF uid
      <4>3. uid \in Uids /\ NumberOf(uid, told) \in Nat /\ (Request.op # "STORE") \in BOOLEAN
        BY <4>2, MailboxFields, NumberType DEF MailboxType
      <4>4. Fetch(NumberOf(uid, told), uid, Request.op # "STORE") \in Lines
        BY <4>3, LinesMade DEF MailboxType
      <4> QED
        BY <4>1, <4>4, SendType
    <3> QED
      BY <3>1, <3>2
  <2> QED
    BY <1>1, <1>6, <2>1 DEF tellTarget, MailboxType, mailVars
<1>7. CASE performExpunge
  BY <1>1, <1>7 DEF performExpunge, MailboxType, Views
<1>8. CASE performAppend
  <2>1. wire' \in Seq(Lines)
    BY <1>8, LinesMade, SendType DEF performAppend, MailboxType
  <2> QED
    BY <1>1, <1>8, <2>1 DEF performAppend, MailboxType, mailVars
<1>9. CASE takeLiteral
  <2>1. requests' \in Seq(Requests)
    BY <1>1, <1>9, RequestsType DEF takeLiteral
  <2>2. mailbox' \in Views /\ nextUid' \in 1..(MaxUid + 1) /\ marked' \in SUBSET mailbox'
        /\ \A uid \in mailbox' \cup told : uid < nextUid'
    <3>1. nextUid \in 1..MaxUid /\ nextUid' = nextUid + 1 /\ mailbox' = mailbox \cup {nextUid}
      BY <1>9, MailboxAssumption DEF takeLiteral, MailboxType
    <3>2. \A uid \in mailbox \cup told : uid \in Nat /\ uid < nextUid
      BY MailboxFields DEF MailboxType
    <3> QED
      BY <1>9, <3>1, <3>2, MailboxAssumption DEF takeLiteral, MailboxType, Views, Uids
  <2> QED
    BY <1>1, <1>9, <2>1, <2>2 DEF takeLiteral, MailboxType
<1>10. CASE refuseLiteral
  <2>1. requests' \in Seq(Requests)
    BY <1>1, <1>10, RequestsType DEF refuseLiteral
  <2>2. Request \in Requests /\ Send(Done(Request, FALSE))
    BY <1>1, <1>10, MailboxFields DEF refuseLiteral
  <2>3. wire' \in Seq(Lines)
    BY <2>2, LinesMade, SendType DEF MailboxType
  <2> QED
    BY <1>1, <1>10, <2>1, <2>3 DEF refuseLiteral, MailboxType, mailVars
<1>11. CASE performStatus
  <2>1. Status(Cardinality(mailbox)) \in Lines
    BY MailboxFields, LinesMade DEF MailboxType
  <2>2. wire' \in Seq(Lines)
    BY <1>11, <2>1, SendType DEF performStatus
  <2> QED
    BY <1>1, <1>11, <2>2 DEF performStatus, MailboxType, mailVars
<1>12. ASSUME NEW ok \in BOOLEAN, Completed(ok)
       PROVE  MailboxType' /\ requests # <<>>
  <2>1. Request \in Requests /\ Tail(requests) \in Seq(Requests)
    BY <1>1, MailboxFields
  <2>2. Done(Request, ok) \in Lines
    BY <2>1, LinesMade DEF MailboxType
  <2>3. wire' \in Seq(Lines)
    BY <1>12, <2>2, SendType DEF Completed
  <2> QED
    BY <1>1, <1>12, <2>1, <2>3 DEF Completed, MailboxType, mailVars
<1> QED
  BY <1>2, <1>3, <1>4, <1>5, <1>6, <1>7, <1>8, <1>9, <1>10, <1>11, <1>12 DEF Server, complete, refuse

\* Other clients change the mailbox.
LEMMA OtherMailboxType ==
  ASSUME MailboxType, OtherClients
  PROVE  MailboxType' /\ requests # <<>> /\ UNCHANGED sessionVars
<1>1. CASE arrive
  <2>1. nextUid \in 1..MaxUid /\ nextUid' = nextUid + 1 /\ mailbox' = mailbox \cup {nextUid}
    BY <1>1, MailboxAssumption DEF arrive, MailboxType
  <2>2. \A uid \in mailbox \cup told : uid \in Nat /\ uid < nextUid
    BY MailboxFields DEF MailboxType
  <2>3. mailbox' \in Views /\ nextUid' \in 1..(MaxUid + 1) /\ marked \in SUBSET mailbox'
        /\ \A uid \in mailbox' \cup told : uid < nextUid'
    BY <2>1, <2>2, MailboxAssumption DEF MailboxType, Views, Uids
  <2> QED
    BY <1>1, <2>3 DEF arrive, OtherStep, ServerAt, MailboxType, sessionVars
<1>2. CASE vanish
  <2>1. PICK uid \in mailbox : mailbox' = mailbox \ {uid} /\ marked' = marked \ {uid}
    BY <1>2 DEF vanish
  <2> QED
    BY <1>2, <2>1 DEF vanish, OtherStep, ServerAt, MailboxType, sessionVars, Views
<1> QED
  BY <1>1, <1>2 DEF OtherClients

\* Nothing but the session and the mailbox changes.
LEMMA EnvironmentType ==
  ASSUME TypeInv, Environment
  PROVE  TypeInv'
<1>1. MailboxType' /\ requests # <<>>
  BY ServerMailboxType, OtherMailboxType DEF Environment, TypeInv
<1>2. connected
  BY <1>1 DEF TypeInv, CallType
<1>3. FolderType'
  BY DEF Environment, connectionVars, folderVars, history, callVars, TypeInv, FolderType
<1>4. CallType'
  BY <1>2 DEF Environment, connectionVars, callVars, TypeInv, CallType, FolderType, IdleNow
<1> QED
  BY <1>1, <1>3, <1>4 DEF TypeInv

\* A number up to the size of a view names one of its messages, and only that one.
LEMMA NamedType ==
  ASSUME NEW v \in Views
  PROVE  /\ \A num \in 1..Cardinality(v) : Named(num, v) \in v /\ NumberOf(Named(num, v), v) = num
         /\ \A u, w \in v : NumberOf(u, v) = NumberOf(w, v) => u = w
<1>1. v \in SUBSET Nat /\ IsFiniteSet(v)
  BY ViewIsFinite
<1>2. \A num \in 1..Cardinality(v) : \E u \in v : NumberOf(u, v) = num
  BY <1>1, Ranks, NumberIsRank
<1>3. \A u, w \in v : NumberOf(u, v) = NumberOf(w, v) => u = w
  BY <1>1, Ranks, NumberIsRank
<1> QED
  BY <1>2, <1>3 DEF Named

\* What is meant is a message, or nothing.
LEMMA MeantType ==
  ASSUME TypeInv
  PROVE  /\ \A num : Means(num) \in AnyUid /\ MeantBy(num) \in AnyUid
         /\ \A object \in Objects : MeantObject(object) \in AnyUid
<1>1. NoUid \in AnyUid /\ view \subseteq AnyUid
  BY UidType DEF TypeInv, FolderType
<1>2. \A num \in 1..Cardinality(view) : Named(num, view) \in AnyUid
  BY <1>1, NamedType DEF TypeInv, FolderType
<1>3. \A num : Means(num) \in AnyUid
  BY <1>1, <1>2 DEF Means
<1> QED
  BY <1>1, <1>3, ObjectFields DEF MeantBy, MeantObject

\* What is learnt is a view.
LEMMA LearnType ==
  ASSUME TypeInv, Learn
  PROVE  view' \in Views
<1>1. CASE response = <<>>
  BY <1>1 DEF Learn, TypeInv, FolderType
<1>2. CASE response # <<>>
  <2>1. Len(response) \in 1..Len(response) /\ response \in Seq(Lines)
    BY <1>2, EmptySeq DEF TypeInv, CallType
  <2>2. response[Len(response)] \in Lines
    BY <2>1, ElementOfSeq
  <2> QED
    BY <1>2, <2>2, LineFields DEF Learn
<1> QED
  BY <1>1, <1>2

\* A command is sent.
LEMMA SentType ==
  ASSUME TypeInv, NEW op \in Ops, NEW num \in Nat, NEW uid \in AnyUid, NEW meant \in AnyUid,
         NEW then \in Treatments, op \in {"STATUS", "LIST"} => then = "drop",
         sendCommand(op, num, uid, meant, then)
  PROVE  TypeInv'
<1>1. m_tag \in 0..MaxTag /\ m_tag' = m_tag + 1 /\ m_tag < MaxTag /\ MaxTag \in Nat
  BY FolderAssumption DEF sendCommand, TypeInv, FolderType
<1>2. m_tag' \in Nat /\ m_tag' \in 0..MaxTag
  BY <1>1
<1> DEFINE request == [op |-> op, tag |-> m_tag', num |-> num, uid |-> uid, meant |-> meant]
           newCall == [op |-> op, tag |-> m_tag', then |-> then]
<1>3. request \in Requests
  BY <1>2 DEF Requests
<1>4. newCall \in Running /\ newCall.op = op /\ newCall.then = then
  BY <1>2 DEF Running
<1>5. requests' = Append(requests, request) /\ call' = newCall
  BY DEF sendCommand
<1> HIDE DEF request, newCall
<1>6. requests' \in Seq(Requests)
  BY <1>3, <1>5, AppendProperties DEF TypeInv, MailboxType
<1>7. MailboxType'
  BY <1>6 DEF sendCommand, mailVars, TypeInv, MailboxType
<1>8. FolderType'
  BY <1>2 DEF sendCommand, folderVars, history, TypeInv, FolderType
<1>9. CallType'
  <2>1. response' = <<>> /\ connected' /\ <<>> \in Seq(Lines)
    BY EmptySeq DEF sendCommand
  <2> QED
    BY <1>4, <1>5, <2>1 DEF CallType, IdleNow
<1> QED
  BY <1>7, <1>8, <1>9 DEF TypeInv

\* What each of the calls that send a command sends.
SendsOne(op, num, uid, meant, then) ==
  /\ op \in Ops \ {"DATA"} /\ num \in Nat /\ uid \in AnyUid /\ meant \in AnyUid /\ then \in Treatments
  /\ op \in {"STATUS", "LIST"} => then = "drop"
  /\ meant # NoUid =>
       \/ op = "STORE" /\ meant = Means(num)
       \/ \E object \in Range(m_messages) :
            /\ ~object.expunged /\ meant = object.id
            /\ \/ op = "STORE" /\ num = object.num
               \/ op = "UID STORE" /\ uid = object.uid
  /\ meant # NoUid => UpToDate
  /\ op = "UID STORE" => uid # NoUid
  /\ sendCommand(op, num, uid, meant, then)

SendingCalls ==
  \/ \E op \in PlainOps : plainCall(op)
  \/ addMessage
  \/ \E num \in 1..Cardinality(view) : deleteMessages(num) \/ setMessageFlags(num)
  \/ \E i \in DOMAIN m_messages : fetchMessages(m_messages[i]) \/ setFlags(m_messages[i])
  \/ getMessages \/ getAndFetchMessages

\* Every call that sends a command sends one of this kind.
LEMMA CallsSend ==
  ASSUME TypeInv, SendingCalls
  PROVE  \E op, num, uid, meant, then : SendsOne(op, num, uid, meant, then)
<1>1. /\ Cardinality(view) \in Nat /\ view \subseteq Uids /\ m_count \in Nat
      /\ NoUid \in AnyUid /\ Uids \subseteq AnyUid
  BY ViewIsFinite, UidType DEF TypeInv, FolderType
<1>2. ASSUME NEW op \in PlainOps, plainCall(op)
      PROVE  SendsOne(op, 0, NoUid, NoUid, Treatment(op))
  <2>1. op \in {"NOOP", "COPY", "SEARCH", "EXPUNGE", "STATUS", "LIST"}
    BY FolderAssumption
  <2> QED
    BY <1>1, <1>2, <2>1 DEF plainCall, SendsOne, Ops, Treatments, Treatment
<1>3. CASE addMessage
  <2>1. SendsOne("APPEND", 0, NoUid, NoUid, "update")
    BY <1>1, <1>3 DEF addMessage, SendsOne, Ops, Treatments
  <2> QED
    BY <2>1
<1>4. ASSUME NEW num \in 1..Cardinality(view), setMessageFlags(num)
      PROVE  SendsOne("STORE", num, NoUid, MeantBy(num), "update")
  <2>1. num \in Nat
    BY <1>1
  <2>2. MeantBy(num) \in AnyUid
    BY MeantType
  <2>3. MeantBy(num) # NoUid => UpToDate /\ MeantBy(num) = Means(num)
    BY DEF MeantBy
  <2> QED
    BY <1>1, <1>4, <2>1, <2>2, <2>3 DEF setMessageFlags, SendsOne, Ops, Treatments
<1>5. ASSUME NEW i \in DOMAIN m_messages, fetchMessages(m_messages[i]) \/ setFlags(m_messages[i])
      PROVE  \E op, num, uid, meant, then : SendsOne(op, num, uid, meant, then)
  <2> DEFINE object == m_messages[i]
  <2>1. object \in Objects /\ object \in Range(m_messages)
    BY ElementOfSeq, LenProperties DEF TypeInv, FolderType, Range
  <2> HIDE DEF object
  <2>2. object.num \in Nat /\ object.uid \in AnyUid
    BY <2>1, ObjectFields
  <2>3. CASE fetchMessages(object)
    <3>1. SendsOne("FETCH", object.num, NoUid, NoUid, "update")
      BY <1>1, <2>2, <2>3 DEF fetchMessages, SendsOne, Ops, Treatments
    <3> QED
      BY <3>1
  <2>4. MeantObject(object) \in AnyUid
    BY <2>1, MeantType
  <2>5. MeantObject(object) # NoUid =>
          UpToDate /\ ~object.expunged /\ MeantObject(object) = object.id
    BY DEF MeantObject
  <2>6. CASE setFlags(object) /\ object.uid # NoUid
    <3>1. SendsOne("UID STORE", 0, object.uid, MeantObject(object), "update")
      BY <1>1, <2>1, <2>2, <2>4, <2>5, <2>6 DEF setFlags, SendsOne, Ops, Treatments
    <3> QED
      BY <3>1
  <2>7. CASE setFlags(object) /\ object.uid = NoUid
    <3>1. SendsOne("STORE", object.num, NoUid, MeantObject(object), "update")
      BY <1>1, <2>1, <2>2, <2>4, <2>5, <2>7 DEF setFlags, SendsOne, Ops, Treatments
    <3> QED
      BY <3>1
  <2> QED
    BY <1>5, <2>3, <2>6, <2>7 DEF object
<1>6. \A num \in 1..m_count : num \in Nat
  BY <1>1
<1>7. ASSUME NEW treatment \in {"get", "get and update"}, Get(treatment)
      PROVE  \E op, num, uid, meant : SendsOne(op, num, uid, meant, treatment)
  <2>1. ASSUME NEW num \in 1..m_count, sendCommand("FETCH", num, NoUid, NoUid, treatment)
        PROVE  SendsOne("FETCH", num, NoUid, NoUid, treatment)
    <3>1. num \in Nat
      BY <1>6
    <3> QED
      BY <1>1, <2>1, <3>1 DEF SendsOne, Ops, Treatments
  <2>2. ASSUME NEW uid \in view, sendCommand("UID FETCH", 0, uid, NoUid, treatment)
        PROVE  SendsOne("UID FETCH", 0, uid, NoUid, treatment)
    BY <1>1, <2>2 DEF SendsOne, Ops, Treatments
  <2> QED
    BY <1>7, <2>1, <2>2 DEF Get
<1> QED
  BY <1>2, <1>3, <1>4, <1>5, <1>7 DEF SendingCalls, deleteMessages, getMessages, getAndFetchMessages

\* The calls that send no command, and the loss of the connection.
LEMMA OpenType ==
  ASSUME TypeInv, NEW mode \in {"ro", "rw"}, open(mode)
  PROVE  TypeInv'
<1>1. MailboxType'
  <2>1. told' = mailbox /\ toldCount' = Cardinality(mailbox) /\ requests' = <<>> /\ wire' = <<>>
        /\ stage' = "new" /\ UNCHANGED mailVars
    BY DEF open, Selected, NewConnection
  <2> QED
    BY <2>1, MailboxFields, EmptySeq DEF TypeInv, MailboxType, mailVars
<1>2. FolderType'
  <2>1. m_count' \in Nat /\ m_tag' = 0 /\ view' = mailbox /\ m_messages' = m_messages
        /\ missed' = (missed \/ m_messages # <<>>)
    BY MailboxFields DEF open, Selected, NewConnection, TypeInv
  <2>2. opens' \in 0..MaxOpens /\ 0 \in 0..MaxTag
    BY FolderAssumption DEF open, TypeInv, FolderType
  <2>3. mailbox \in Views
    BY DEF TypeInv, MailboxType
  <2> QED
    BY <2>1, <2>2, <2>3 DEF open, TypeInv, FolderType
<1>3. CallType'
  BY DEF open, TypeInv, CallType, IdleNow
<1> QED
  BY <1>1, <1>2, <1>3 DEF TypeInv

\* close keeps the types.
LEMMA CloseType ==
  ASSUME TypeInv, NEW expunging \in BOOLEAN, close(expunging)
  PROVE  TypeInv'
<1>1. MailboxType'
  <2>1. told' = {} /\ toldCount' = 0 /\ requests' = <<>> /\ wire' = <<>> /\ stage' = "new"
        /\ nextUid' = nextUid
    BY DEF close, NewConnection
  <2>2. mailbox' \subseteq mailbox /\ marked' \in SUBSET mailbox'
    BY DEF close, TypeInv, MailboxType
  <2> QED
    BY <2>1, <2>2, EmptySeq DEF TypeInv, MailboxType, Views
<1>2. FolderType'
  <2>1. 0 \in 0..MaxTag /\ {} \in Views /\ <<>> \in Seq(Objects)
    BY FolderAssumption, EmptySeq DEF Views
  <2> QED
    BY <2>1 DEF close, NewConnection, callVars, TypeInv, FolderType
<1>3. CallType'
  BY DEF close, NewConnection, callVars, TypeInv, CallType, IdleNow
<1> QED
  BY <1>1, <1>2, <1>3 DEF TypeInv

\* The count taken over while the folder is closed.
LEMMA CountsWhileClosedType ==
  ASSUME TypeInv, countsWhileClosed
  PROVE  TypeInv'
<1>1. m_count' \in Nat
  BY MailboxFields DEF countsWhileClosed, TypeInv
<1> QED
  BY <1>1 DEF countsWhileClosed, connectionVars, callVars, history, mailboxVars, mailVars,
              sessionVars, TypeInv, MailboxType, FolderType, CallType, IdleNow

\* getMessage makes an object.
LEMMA GetMessageType ==
  ASSUME TypeInv, NEW num \in 1..m_count, getMessage(num)
  PROVE  TypeInv'
<1>1. num \in Nat /\ Means(num) \in AnyUid /\ NoUid \in AnyUid
  BY MeantType, UidType DEF TypeInv, FolderType
<1>2. Object(num, NoUid, Means(num)) \in Objects
  BY <1>1, ObjectMade
<1>3. m_messages' \in Seq(Objects)
  BY <1>2, AppendProperties DEF getMessage, TypeInv, FolderType
<1> QED
  BY <1>3 DEF getMessage, connectionVars, callVars, history, mailboxVars, mailVars,
              sessionVars, TypeInv, MailboxType, FolderType, CallType, IdleNow

\* The loss of the connection keeps the types.
LEMMA ConnectionLostType ==
  ASSUME TypeInv, connectionLost
  PROVE  TypeInv'
<1>1. MailboxType'
  <2>1. told' = {} /\ toldCount' = 0 /\ requests' = <<>> /\ wire' = <<>> /\ stage' = "new"
        /\ UNCHANGED mailVars
    BY DEF connectionLost, NewConnection
  <2> QED
    BY <2>1, EmptySeq DEF TypeInv, MailboxType, Views, mailVars
<1>2. FolderType'
  <2>1. 0 \in 0..MaxTag /\ view' \in Views /\ missed' \in BOOLEAN
    BY FolderAssumption, LearnType DEF connectionLost, Miss, TypeInv, FolderType
  <2> QED
    BY <2>1 DEF connectionLost, NewConnection, folderVars, TypeInv, FolderType
<1>3. CallType'
  BY CallFields, EmptySeq DEF connectionLost, NewConnection, Reset, CallType, IdleNow
<1> QED
  BY <1>1, <1>2, <1>3 DEF TypeInv

\* The call comes to its end, or goes on with another response.
LEMMA ReadingType ==
  ASSUME TypeInv, ~IdleNow
  PROVE  connected /\ call.op \in Ops /\ call.tag \in Nat /\ call.then \in Treatments
  BY CallFields DEF TypeInv, CallType, IdleNow

\* One line is read; the session is as before.
LEMMA NextLineType ==
  ASSUME TypeInv, wire # <<>>, Next1Line
  PROVE  MailboxType'
<1>1. wire' \in Seq(Lines)
  BY MailboxFields DEF Next1Line, TypeInv, Line
<1> QED
  BY <1>1 DEF Next1Line, mailVars, TypeInv, MailboxType

\* Reading and what is done with a response keep the types.
LEMMA ReadsType ==
  ASSUME TypeInv, Reads
  PROVE  TypeInv'
<1>1. Reading /\ ~IdleNow /\ wire # <<>> /\ connected /\ Line \in Lines
  BY ReadingType, MailboxFields
     DEF Reads, readUntagged, parkResponse, continueAppend, refused, done, doneUnscanned,
         doneGetMessages, doneGetAndFetch, OurReply, Reading, TypeInv
<1>2. Learn => view' \in Views
  BY LearnType
<1>3. /\ \A kinds \in SUBSET {"EXISTS", "STATUS"} : updateFromResponse(kinds) \in Nat
      /\ Fetched \in Seq(Objects) /\ m_messages \o Fetched \in Seq(Objects)
      /\ \A objects \in Seq(Objects) :
           [i \in DOMAIN objects |-> processUntagged(objects[i])] \in Seq(Objects)
  <2>1. response \in Seq(Lines) /\ m_count \in Nat /\ m_messages \in Seq(Objects)
    BY DEF TypeInv, CallType, FolderType
  <2>2. Fetched \in Seq(Objects)
    BY <2>1, UpdateType
  <2> QED
    BY <2>1, <2>2, UpdateType, ConcatProperties
<1>4. ASSUME NEW objects \in Seq(Objects), processStatusUpdate(objects)
      PROVE  m_count' \in Nat /\ m_messages' \in Seq(Objects)
  BY <1>3, <1>4 DEF processStatusUpdate
<1>5. CASE readUntagged
  <2>1. response' \in Seq(Lines)
    BY <1>1, <1>5, AppendProperties DEF readUntagged, TypeInv, CallType
  <2>2. MailboxType'
    BY <1>1, <1>5, NextLineType DEF readUntagged
  <2>3. CallType'
    BY <1>1, <1>5, <2>1 DEF readUntagged, connectionVars, TypeInv, CallType, IdleNow
  <2> QED
    BY <1>5, <2>2, <2>3 DEF readUntagged, folderVars, connectionVars, history, TypeInv, FolderType
<1>6. CASE parkResponse
  <2>1. MailboxType'
    BY <1>1, <1>6, NextLineType DEF parkResponse
  <2>2. CallType'
    BY <1>1, <1>6, EmptySeq DEF parkResponse, connectionVars, TypeInv, CallType, IdleNow
  <2>3. FolderType'
    BY <1>2, <1>6 DEF parkResponse, Miss, folderVars, connectionVars, TypeInv, FolderType
  <2> QED
    BY <2>1, <2>2, <2>3 DEF TypeInv
<1>7. CASE continueAppend
  <2>1. Literal \in Requests
    BY UidType DEF Literal, Requests, Ops
  <2>2. wire' \in Seq(Lines) /\ requests' \in Seq(Requests)
    BY <1>1, <1>7, <2>1, MailboxFields, AppendProperties DEF continueAppend, TypeInv, MailboxType
  <2>3. MailboxType'
    BY <1>7, <2>2 DEF continueAppend, mailVars, TypeInv, MailboxType
  <2>4. CallType'
    BY <1>1, <1>7, EmptySeq DEF continueAppend, connectionVars, TypeInv, CallType, IdleNow
  <2>5. m_count' \in Nat /\ m_messages' \in Seq(Objects)
    BY <1>4, <1>7 DEF continueAppend, TypeInv, FolderType
  <2>6. FolderType'
    BY <1>2, <1>7, <2>5 DEF continueAppend, connectionVars, TypeInv, FolderType
  <2> QED
    BY <2>3, <2>4, <2>6 DEF TypeInv
<1>8. ASSUME NEW ok \in BOOLEAN, OurReply(ok), m_count' \in Nat, m_messages' \in Seq(Objects),
             Learn, missed' \in BOOLEAN
      PROVE  TypeInv'
  <2>1. MailboxType'
    BY <1>1, <1>8, NextLineType DEF OurReply
  <2>2. CallType'
    BY <1>1, <1>8, EmptySeq, CallFields DEF OurReply, Reset, connectionVars, CallType, IdleNow
  <2>3. FolderType'
    BY <1>2, <1>8 DEF OurReply, connectionVars, TypeInv, FolderType
  <2> QED
    BY <2>1, <2>2, <2>3 DEF TypeInv
<1>9. Miss => Learn /\ missed' \in BOOLEAN
  BY DEF Miss, TypeInv, FolderType
<1>10. m_count \in Nat /\ m_messages \in Seq(Objects) /\ missed \in BOOLEAN
  BY DEF TypeInv, FolderType
<1>11. CASE refused
  BY <1>8, <1>9, <1>10, <1>11 DEF refused
<1>12. CASE done
  BY <1>4, <1>8, <1>10, <1>12 DEF done
<1>13. CASE doneUnscanned
  <2>1. m_count' \in Nat /\ m_messages' = m_messages /\ Miss /\ OurReply(TRUE)
    BY <1>3, <1>13 DEF doneUnscanned
  <2> QED
    BY <1>8, <1>9, <1>10, <2>1
<1>14. CASE doneGetMessages
  BY <1>3, <1>8, <1>9, <1>10, <1>14 DEF doneGetMessages
<1>15. CASE doneGetAndFetch
  <2>1. m_count' \in Nat /\ m_messages' \in Seq(Objects)
    BY <1>3, <1>4, <1>15 DEF doneGetAndFetch
  <2>2. missed' \in BOOLEAN /\ OurReply(TRUE) /\ Learn
    BY <1>10, <1>15 DEF doneGetAndFetch
  <2> QED
    BY <1>8, <2>1, <2>2
<1> QED
  BY <1>5, <1>6, <1>7, <1>11, <1>12, <1>13, <1>14, <1>15 DEF Reads

\* A time-out keeps the types.
LEMMA TimeOutType ==
  ASSUME TypeInv, timeOut
  PROVE  TypeInv'
<1>1. view' \in Views /\ missed' \in BOOLEAN
  BY LearnType DEF timeOut, Miss, TypeInv, FolderType
<1>2. MailboxType'
  BY DEF timeOut, mailboxVars, mailVars, sessionVars, TypeInv, MailboxType
<1>3. FolderType'
  BY <1>1 DEF timeOut, folderVars, connectionVars, TypeInv, FolderType
<1>4. CallType'
  <2>1. connected' = connected /\ ~IdleNow /\ call' = Idle /\ response' = <<>>
    BY DEF timeOut, Reset, connectionVars
  <2> QED
    BY <2>1, CallFields, EmptySeq DEF TypeInv, CallType, IdleNow
<1> QED
  BY <1>2, <1>3, <1>4 DEF TypeInv

\* Every step is one of these.
LEMMA NextCases ==
  ASSUME Next
  PROVE  \/ \E mode \in {"ro", "rw"} : open(mode)
         \/ countsWhileClosed
         \/ \E expunging \in BOOLEAN : close(expunging)
         \/ SendingCalls
         \/ \E num \in 1..m_count : getMessage(num)
         \/ Reads \/ timeOut \/ connectionLost \/ Environment
  BY DEF Next, Calls, SendingCalls

\* Every step keeps the types.
LEMMA TypeNext ==
  ASSUME TypeInv, [Next]_vars
  PROVE  TypeInv'
<1>1. CASE SendingCalls
  <2>1. PICK op, num, uid, meant, then : SendsOne(op, num, uid, meant, then)
    BY <1>1, CallsSend
  <2>2. /\ op \in Ops /\ num \in Nat /\ uid \in AnyUid /\ meant \in AnyUid /\ then \in Treatments
        /\ op \in {"STATUS", "LIST"} => then = "drop"
        /\ sendCommand(op, num, uid, meant, then)
    BY <2>1 DEF SendsOne
  <2> QED
    BY <2>2, SentType
<1>2. CASE UNCHANGED vars
  BY <1>2 DEF vars, connectionVars, callVars, folderVars, history, mailboxVars, mailVars,
              sessionVars, TypeInv, MailboxType, FolderType, CallType, IdleNow
<1> QED
  BY <1>1, <1>2, NextCases, OpenType, CloseType, CountsWhileClosedType, GetMessageType, ReadsType,
     TimeOutType, ConnectionLostType, EnvironmentType

\* Every state is of the types of TypeInv.
THEOREM IMAPInvariance == Spec => []TypeInv
<1>1. Init => TypeInv
  <2> SUFFICES ASSUME Init
               PROVE  TypeInv
    OBVIOUS
  <2>1. mailbox \in Views /\ nextUid \in 1..(MaxUid + 1) /\ {} \in Views
        /\ \A uid \in mailbox : uid < nextUid
    BY MailboxAssumption DEF Init, MailboxInit, Views, Uids
  <2>2. 0 \in 0..MaxTag /\ 0 \in 0..MaxOpens
    BY FolderAssumption
  <2>3. MailboxType
    BY <2>1, EmptySeq DEF Init, MailboxInit, MailboxType
  <2>4. FolderType
    BY <2>1, <2>2, EmptySeq DEF Init, FolderType
  <2>5. CallType
    BY EmptySeq, CallFields DEF Init, MailboxInit, CallType, IdleNow
  <2> QED
    BY <2>3, <2>4, <2>5 DEF TypeInv
<1> QED
  BY <1>1, TypeNext, PTL DEF Spec

\* The variables have their types.
THEOREM IMAPTypeCorrect == Spec => []TypeOK
<1>1. TypeInv => TypeOK
  BY UidType DEF TypeInv, MailboxType, FolderType, TypeOK, Views
<1> QED
  BY <1>1, IMAPInvariance, PTL

-----------------------------------------------------------------------------
(***************************************************************************)
(* Tags                                                                    *)
(***************************************************************************)
\* r2 is what is left of r; h says where each of its elements was.
Picked(h, r2, r) ==
  /\ h \in [DOMAIN r2 -> DOMAIN r]
  /\ \A i \in DOMAIN r2 : r2[i] = r[h[i]] /\ i <= h[i]
  /\ \A i, j \in DOMAIN r2 : h[i] = h[j] => i = j

\* What is left when the first request is completed.
LEMMA TailIsPicked ==
  ASSUME NEW r \in Seq(Requests), r # <<>>
  PROVE  \E h : Picked(h, Tail(r), r) /\ \A i \in DOMAIN Tail(r) : h[i] # 1
<1> DEFINE r2 == Tail(r)
           h == [i \in DOMAIN r2 |-> i + 1]
<1>1. Len(r2) = Len(r) - 1 /\ Len(r) \in Nat /\ r2 \in Seq(Requests)
      /\ \A i \in 1..Len(r2) : r2[i] = r[i + 1]
  BY HeadTailProperties
<1>2. DOMAIN r2 = 1..(Len(r) - 1) /\ DOMAIN r = 1..Len(r)
  BY <1>1
<1> HIDE DEF r2
<1>3. h \in [DOMAIN r2 -> DOMAIN r]
  BY <1>1, <1>2
<1>4. Picked(h, r2, r) /\ \A i \in DOMAIN r2 : h[i] # 1
  BY <1>1, <1>2, <1>3 DEF Picked
<1> QED
  BY <1>4 DEF r2

\* What is left when an APPEND and its message are refused.
LEMMA RestIsPicked ==
  ASSUME NEW r \in Seq(Requests), Len(r) > 1
  PROVE  \E h : Picked(h, SubSeq(r, 3, Len(r)), r) /\ \A i \in DOMAIN SubSeq(r, 3, Len(r)) : h[i] # 1
<1> DEFINE r2 == SubSeq(r, 3, Len(r))
           h == [i \in DOMAIN r2 |-> i + 2]
<1>1. PICK n \in Nat : n = Len(r)
  OBVIOUS
<1>2. \A i \in 3..n : r[i] \in Requests
  BY <1>1, ElementOfSeq
<1>3. /\ r2 \in Seq(Requests) /\ Len(r2) = (IF 3 <= n THEN n - 3 + 1 ELSE 0)
      /\ \A i \in 1..(n - 3 + 1) : r2[i] = r[3 + i - 1]
  BY <1>1, <1>2, SubSeqProperties
<1> HIDE DEF r2
<1>4. DOMAIN r2 = 1..(n - 2) /\ DOMAIN r = 1..n
  BY <1>1, <1>3
<1>5. \A i \in 1..(n - 2) : r2[i] = r[i + 2]
  <2> TAKE i \in 1..(n - 2)
  <2>1. 3 + i - 1 = i + 2 /\ i \in 1..(n - 3 + 1)
    BY <1>1
  <2> QED
    BY <1>3, <2>1
<1>6. h \in [DOMAIN r2 -> DOMAIN r]
  BY <1>1, <1>4
<1>7. Picked(h, r2, r) /\ \A i \in DOMAIN r2 : h[i] # 1
  BY <1>1, <1>4, <1>5, <1>6 DEF Picked
<1> QED
  BY <1>7 DEF r2

\* What is left when the message of an APPEND is taken.
LEMMA FirstAndRestIsPicked ==
  ASSUME NEW r \in Seq(Requests), Len(r) > 1
  PROVE  \E h : Picked(h, <<Head(r)>> \o SubSeq(r, 3, Len(r)), r)
<1> DEFINE r1 == SubSeq(r, 3, Len(r))
           r2 == <<Head(r)>> \o r1
           h == [i \in DOMAIN r2 |-> IF i = 1 THEN 1 ELSE i + 1]
<1>1. PICK n \in Nat : n = Len(r) /\ n > 1
  OBVIOUS
<1>2. \A i \in 3..n : r[i] \in Requests
  BY <1>1, ElementOfSeq
<1>3. /\ r1 \in Seq(Requests) /\ Len(r1) = (IF 3 <= n THEN n - 3 + 1 ELSE 0)
      /\ \A i \in 1..(n - 3 + 1) : r1[i] = r[3 + i - 1]
  BY <1>1, <1>2, SubSeqProperties
<1> HIDE DEF r1
<1>4. Len(r1) = n - 2
  BY <1>1, <1>3
<1>5. Head(r) = r[1] /\ <<Head(r)>> \in Seq(Requests) /\ Len(<<Head(r)>>) = 1
  BY <1>1, HeadTailProperties
<1>6. /\ r2 \in Seq(Requests) /\ Len(r2) = 1 + (n - 2)
      /\ \A i \in 1..(1 + (n - 2)) : r2[i] = IF i <= 1 THEN <<Head(r)>>[i] ELSE r1[i - 1]
  BY <1>3, <1>4, <1>5, ConcatProperties
<1> HIDE DEF r2
<1>7. DOMAIN r2 = 1..(n - 1) /\ DOMAIN r = 1..n
  BY <1>1, <1>6
<1>8. \A i \in 1..(n - 1) : r2[i] = IF i = 1 THEN r[1] ELSE r[i + 1]
  <2> TAKE i \in 1..(n - 1)
  <2>1. CASE i = 1
    BY <1>1, <1>5, <1>6, <2>1
  <2>2. CASE i # 1
    <3>1. i - 1 \in 1..(n - 3 + 1) /\ 3 + (i - 1) - 1 = i + 1 /\ i \in 1..(1 + (n - 2)) /\ ~(i <= 1)
      BY <1>1, <2>2
    <3>2. r2[i] = r1[i - 1]
      BY <1>6, <3>1
    <3> QED
      BY <1>3, <2>2, <3>1, <3>2
  <2> QED
    BY <2>1, <2>2
<1>9. h \in [DOMAIN r2 -> DOMAIN r]
  BY <1>1, <1>7
<1>10. Picked(h, r2, r)
  <2>1. \A i \in DOMAIN r2 : r2[i] = r[h[i]] /\ i <= h[i]
    BY <1>1, <1>7, <1>8
  <2>2. \A i, j \in DOMAIN r2 : h[i] = h[j] => i = j
    BY <1>1, <1>7
  <2> QED
    BY <1>9, <2>1, <2>2 DEF Picked
<1> QED
  BY <1>10 DEF r1, r2

\* What the server does to the requests and what it says about them: nothing,
\* or it takes the message of an APPEND, or it completes the first of them.
Untouched ==
  /\ requests' = requests
  /\ wire' = wire \/ \E line \in Lines : line.kind # "DONE" /\ wire' = Append(wire, line)
LiteralTaken == wire' = wire /\ \E h : Picked(h, requests', requests)
Answered ==
  \E ok \in BOOLEAN :
    /\ wire' = Append(wire, Done(Request, ok))
    /\ \E h : Picked(h, requests', requests) /\ \A i \in DOMAIN requests' : h[i] # 1

\* Every step of the server is one of these.
LEMMA ServerAnswers ==
  ASSUME TypeInv, Server
  PROVE  requests # <<>> /\ (Untouched \/ LiteralTaken \/ Answered)
<1>1. MailboxType /\ MailboxType' /\ requests # <<>> /\ requests \in Seq(Requests)
  BY ServerMailboxType DEF TypeInv, MailboxType
<1>2. \A line : Send(line) => wire' = Append(wire, line)
  BY DEF Send
<1>3. CASE tellExists
  <2>1. told' \in Views /\ toldCount' \in Nat
    BY <1>1 DEF MailboxType
  <2>2. Exists(toldCount', told') \in Lines /\ Exists(toldCount', told').kind # "DONE"
    BY <1>1, <2>1, LinesMade DEF Exists, MailboxType
  <2> QED
    BY <1>1, <1>2, <1>3, <2>2 DEF tellExists, Untouched
<1>4. CASE tellExpunged
  <2>1. PICK uid \in told \ mailbox :
          told' = told \ {uid} /\ Send(Expunged(NumberOf(uid, told), uid, told'))
    BY <1>4 DEF tellExpunged
  <2>2. uid \in Uids /\ NumberOf(uid, told) \in Nat /\ told' \in Views
    BY <1>1, <2>1, NumberType, MailboxFields DEF MailboxType
  <2>3. Expunged(NumberOf(uid, told), uid, told') \in Lines
        /\ Expunged(NumberOf(uid, told), uid, told').kind # "DONE"
    BY <1>1, <2>2, LinesMade DEF Expunged, MailboxType
  <2> QED
    BY <1>1, <1>2, <1>4, <2>1, <2>3 DEF tellExpunged, Untouched
<1>5. CASE performStore \/ performFetch \/ performExpunge \/ performOther
  BY <1>1, <1>5 DEF performStore, performFetch, performExpunge, performOther, Untouched
<1>6. CASE tellTarget
  <2>1. requests' = requests
    BY <1>6 DEF tellTarget
  <2>2. CASE wire' = wire
    BY <1>1, <2>1, <2>2 DEF Untouched
  <2>3. CASE wire' # wire
    <3> DEFINE uid == CHOOSE u \in Target : TRUE
    <3>1. Send(Fetch(NumberOf(uid, told), uid, Request.op # "STORE")) /\ Target # {}
      BY <1>6, <2>3 DEF tellTarget
    <3>2. uid \in Target /\ Target \subseteq told
      BY <3>1 DEF Target
    <3> HIDE DEF uid
    <3>3. uid \in Uids /\ NumberOf(uid, told) \in Nat /\ (Request.op # "STORE") \in BOOLEAN
      BY <1>1, <3>2, MailboxFields, NumberType DEF MailboxType
    <3>4. Fetch(NumberOf(uid, told), uid, Request.op # "STORE") \in Lines
          /\ Fetch(NumberOf(uid, told), uid, Request.op # "STORE").kind # "DONE"
      BY <1>1, <3>3, LinesMade DEF Fetch, MailboxType
    <3> QED
      BY <1>1, <1>2, <2>1, <3>1, <3>4 DEF Untouched
  <2> QED
    BY <2>2, <2>3
<1>7. CASE performAppend
  <2>1. Continue \in Lines /\ Continue.kind # "DONE"
    BY <1>1, LinesMade DEF Continue, MailboxType
  <2> QED
    BY <1>1, <1>2, <1>7, <2>1 DEF performAppend, Untouched
<1>8. CASE performStatus
  <2>1. Status(Cardinality(mailbox)) \in Lines /\ Status(Cardinality(mailbox)).kind # "DONE"
    BY <1>1, LinesMade, MailboxFields DEF Status, MailboxType
  <2> QED
    BY <1>1, <1>2, <1>8, <2>1 DEF performStatus, Untouched
<1>9. CASE takeLiteral
  BY <1>1, <1>9, FirstAndRestIsPicked DEF takeLiteral, LiteralTaken, Request
<1>10. CASE refuseLiteral
  BY <1>1, <1>2, <1>10, RestIsPicked DEF refuseLiteral, Answered
<1>11. ASSUME NEW ok \in BOOLEAN, Completed(ok)
       PROVE  Answered
  BY <1>1, <1>2, <1>11, TailIsPicked DEF Completed, Answered
<1> QED
  BY <1>1, <1>3, <1>4, <1>5, <1>6, <1>7, <1>8, <1>9, <1>10, <1>11
     DEF Server, complete, refuse

\* The elements of a sequence that has grown, and of one that has lost its first.
LEMMA AppendParts ==
  ASSUME NEW S, NEW s \in Seq(S), NEW e \in S
  PROVE  /\ \A k \in DOMAIN Append(s, e) :
              \/ k \in DOMAIN s /\ Append(s, e)[k] = s[k]
              \/ k = Len(s) + 1 /\ Append(s, e)[k] = e
         /\ \A k \in DOMAIN s : k \in DOMAIN Append(s, e) /\ Append(s, e)[k] = s[k] /\ k # Len(s) + 1
<1>1. /\ Append(s, e) \in Seq(S) /\ Len(Append(s, e)) = Len(s) + 1 /\ Len(s) \in Nat
      /\ \A i \in 1..Len(s) : Append(s, e)[i] = s[i]
      /\ Append(s, e)[Len(s) + 1] = e
  BY AppendProperties, LenProperties
<1>2. DOMAIN Append(s, e) = 1..(Len(s) + 1) /\ DOMAIN s = 1..Len(s)
  BY <1>1, LenProperties
<1> QED
  BY <1>1, <1>2

\* The elements of a sequence without its first.
LEMMA TailParts ==
  ASSUME NEW S, NEW s \in Seq(S), s # <<>>
  PROVE  /\ 1 \in DOMAIN s /\ Head(s) = s[1]
         /\ \A k \in DOMAIN Tail(s) : k + 1 \in DOMAIN s /\ Tail(s)[k] = s[k + 1] /\ k \in Nat \ {0}
<1>1. Tail(s) \in Seq(S) /\ Len(Tail(s)) = Len(s) - 1 /\ Len(s) \in Nat
      /\ \A i \in 1..Len(Tail(s)) : Tail(s)[i] = s[i + 1]
  BY HeadTailProperties, LenProperties
<1>2. DOMAIN Tail(s) = 1..(Len(s) - 1) /\ DOMAIN s = 1..Len(s) /\ Len(s) # 0
  BY <1>1, LenProperties, EmptySeq
<1> QED
  BY <1>1, <1>2

\* The server answers.
LEMMA ServerTags ==
  ASSUME TypeInv, TagInv, Server, m_tag' = m_tag, call' = call
  PROVE  TagInv'
<1>1. /\ requests # <<>> /\ (Untouched \/ LiteralTaken \/ Answered)
      /\ wire \in Seq(Lines) /\ requests \in Seq(Requests)
  BY ServerAnswers DEF TypeInv, MailboxType
<1>2. 1 \in DOMAIN requests /\ Request = requests[1] /\ Request \in Requests
  BY <1>1, TailParts, ElementOfSeq, LenProperties DEF Request
<1>3. IdleNow' = IdleNow
  BY DEF IdleNow
<1>4. CASE Untouched
  <2>1. \A k \in DOMAIN wire' : wire'[k].kind = "DONE" => k \in DOMAIN wire /\ wire'[k] = wire[k]
    <3>1. CASE wire' = wire
      BY <3>1
    <3>2. ASSUME NEW line \in Lines, line.kind # "DONE", wire' = Append(wire, line)
          PROVE  \A k \in DOMAIN wire' : wire'[k].kind = "DONE" =>
                   k \in DOMAIN wire /\ wire'[k] = wire[k]
      BY <1>1, <3>2, AppendParts
    <3> QED
      BY <1>4, <3>1, <3>2 DEF Untouched
  <2>2. requests' = requests
    BY <1>4 DEF Untouched
  <2>3. TagsApart'
    BY <2>1, <2>2 DEF TagInv, TagsApart
  <2>4. TagOfCall'
    BY <1>3, <2>1, <2>2 DEF TagInv, TagOfCall
  <2> QED
    BY <2>3, <2>4 DEF TagInv
<1>5. CASE LiteralTaken
  <2>1. PICK h : Picked(h, requests', requests)
    BY <1>5 DEF LiteralTaken
  <2>2. \A i \in DOMAIN requests' : h[i] \in DOMAIN requests /\ requests'[i] = requests[h[i]]
    BY <2>1 DEF Picked
  <2>3. \A i, j \in DOMAIN requests' : h[i] = h[j] => i = j
    BY <2>1 DEF Picked
  <2>4. wire' = wire
    BY <1>5 DEF LiteralTaken
  <2>5. TagsApart'
    BY <2>2, <2>3, <2>4 DEF TagInv, TagsApart
  <2>6. TagOfCall'
    BY <1>3, <2>2, <2>4 DEF TagInv, TagOfCall
  <2> QED
    BY <2>5, <2>6 DEF TagInv
<1>6. CASE Answered
  <2>1. PICK ok \in BOOLEAN :
          /\ wire' = Append(wire, Done(Request, ok))
          /\ \E h : Picked(h, requests', requests) /\ \A i \in DOMAIN requests' : h[i] # 1
    BY <1>6 DEF Answered
  <2>2. PICK h : Picked(h, requests', requests) /\ \A i \in DOMAIN requests' : h[i] # 1
    BY <2>1
  <2>3. \A i \in DOMAIN requests' :
          h[i] \in DOMAIN requests /\ requests'[i] = requests[h[i]] /\ h[i] # 1
    BY <2>2 DEF Picked
  <2>4. \A i, j \in DOMAIN requests' : h[i] = h[j] => i = j
    BY <2>2 DEF Picked
  <2>5. Done(Request, ok) \in Lines /\ Done(Request, ok).tag = Request.tag
        /\ Done(Request, ok).op = Request.op
    BY <1>2, <2>1, LinesMade DEF Done, TypeInv, MailboxType
  <2>6. \A k \in DOMAIN wire' :
          \/ k \in DOMAIN wire /\ wire'[k] = wire[k]
          \/ wire'[k].tag = requests[1].tag /\ wire'[k].op = requests[1].op
    BY <1>1, <1>2, <2>1, <2>5, AppendParts
  <2>7. TagsApart'
    <3>1. \A i \in DOMAIN requests' : requests'[i].tag \in 0..m_tag'
      BY <2>3 DEF TagInv, TagsApart
    <3>2. \A i, j \in DOMAIN requests' :
            requests'[i].tag = requests'[j].tag => i = j \/ requests'[i].tag = 0
      BY <2>3, <2>4 DEF TagInv, TagsApart
    <3>3. ASSUME NEW k \in DOMAIN wire', wire'[k].kind = "DONE"
          PROVE  /\ wire'[k].tag \in 0..m_tag'
                 /\ wire'[k].tag # 0 => \A i \in DOMAIN requests' : requests'[i].tag # wire'[k].tag
      <4>1. CASE k \in DOMAIN wire /\ wire'[k] = wire[k]
        BY <2>3, <3>3, <4>1 DEF TagInv, TagsApart
      <4>2. CASE wire'[k].tag = requests[1].tag
        <5>1. wire'[k].tag \in 0..m_tag'
          BY <1>2, <4>2 DEF TagInv, TagsApart
        <5>2. ASSUME NEW i \in DOMAIN requests', wire'[k].tag # 0
              PROVE  requests'[i].tag # wire'[k].tag
          BY <1>2, <2>3, <4>2, <5>2 DEF TagInv, TagsApart
        <5> QED
          BY <5>1, <5>2
      <4> QED
        BY <2>6, <4>1, <4>2
    <3> QED
      BY <3>1, <3>2, <3>3 DEF TagsApart
  <2>8. TagOfCall'
    <3> SUFFICES ASSUME ~IdleNow
                 PROVE  /\ call.tag \in 1..m_tag
                        /\ \A i \in DOMAIN requests' :
                             requests'[i].tag = call.tag => requests'[i].op = call.op
                        /\ \A k \in DOMAIN wire' :
                             wire'[k].kind = "DONE" /\ wire'[k].tag = call.tag => wire'[k].op = call.op
      BY <1>3 DEF TagOfCall
    <3> QED
      BY <1>2, <2>3, <2>6 DEF TagInv, TagOfCall
  <2> QED
    BY <2>7, <2>8 DEF TagInv
<1> QED
  BY <1>1, <1>4, <1>5, <1>6

\* A call sends its command under a new tag.
LEMMA SentTags ==
  ASSUME TypeInv, TagInv, NEW op \in Ops, NEW num \in Nat, NEW uid \in AnyUid, NEW meant \in AnyUid,
         NEW then \in Treatments, sendCommand(op, num, uid, meant, then)
  PROVE  TagInv'
<1>1. PICK t \in Nat : t = m_tag
  BY DEF TypeInv, FolderType
<1> DEFINE request == [op |-> op, tag |-> t + 1, num |-> num, uid |-> uid, meant |-> meant]
           newCall == [op |-> op, tag |-> t + 1, then |-> then]
<1>2. request \in Requests /\ request.tag = t + 1 /\ request.op = op
  BY <1>1 DEF Requests
<1>3. newCall.tag = t + 1 /\ newCall.op = op
  OBVIOUS
<1>4. requests' = Append(requests, request) /\ call' = newCall /\ m_tag' = t + 1 /\ wire' = wire
  BY <1>1 DEF sendCommand
<1> HIDE DEF request, newCall
<1>5. \A i \in DOMAIN requests' :
        \/ i \in DOMAIN requests /\ requests'[i] = requests[i] /\ i # Len(requests) + 1
        \/ i = Len(requests) + 1 /\ requests'[i] = request
  BY <1>2, <1>4, AppendParts DEF TypeInv, MailboxType
<1>6. \A i \in DOMAIN requests : requests[i].tag \in 0..t
  BY <1>1 DEF TagInv, TagsApart
<1>7. \A k \in DOMAIN wire : wire[k].kind = "DONE" => wire[k].tag \in 0..t
  BY <1>1 DEF TagInv, TagsApart
<1>8. t + 1 \in 0..(t + 1) /\ t + 1 \in 1..(t + 1) /\ t + 1 \notin 0..t /\ 0..t \subseteq 0..(t + 1)
  BY <1>1
<1>9. TagsApart'
  <2>1. \A i \in DOMAIN requests' : requests'[i].tag \in 0..m_tag'
    BY <1>2, <1>4, <1>5, <1>6, <1>8
  <2>2. \A i, j \in DOMAIN requests' :
          requests'[i].tag = requests'[j].tag => i = j \/ requests'[i].tag = 0
    <3> TAKE i, j \in DOMAIN requests'
    <3>1. CASE requests'[i] = requests[i] /\ i \in DOMAIN requests
               /\ requests'[j] = requests[j] /\ j \in DOMAIN requests
      BY <3>1 DEF TagInv, TagsApart
    <3>2. CASE requests'[i] = requests[i] /\ i \in DOMAIN requests /\ requests'[j] = request
      BY <1>2, <1>6, <1>8, <3>2
    <3>3. CASE requests'[i] = request /\ requests'[j] = requests[j] /\ j \in DOMAIN requests
      BY <1>2, <1>6, <1>8, <3>3
    <3> QED
      BY <1>5, <3>1, <3>2, <3>3
  <2>3. \A k \in DOMAIN wire' : wire'[k].kind = "DONE" =>
          /\ wire'[k].tag \in 0..m_tag'
          /\ wire'[k].tag # 0 => \A i \in DOMAIN requests' : requests'[i].tag # wire'[k].tag
    <3> SUFFICES ASSUME NEW k \in DOMAIN wire, wire[k].kind = "DONE"
                 PROVE  /\ wire[k].tag \in 0..(t + 1)
                        /\ wire[k].tag # 0 => \A i \in DOMAIN requests' : requests'[i].tag # wire[k].tag
      BY <1>4
    <3>1. wire[k].tag \in 0..t
      BY <1>7
    <3>2. wire[k].tag # 0 => \A i \in DOMAIN requests : requests[i].tag # wire[k].tag
      BY DEF TagInv, TagsApart
    <3> QED
      BY <1>2, <1>5, <1>8, <3>1, <3>2
  <2> QED
    BY <2>1, <2>2, <2>3 DEF TagsApart
<1>10. TagOfCall'
  <2>1. call'.tag \in 1..m_tag'
    BY <1>3, <1>4, <1>8
  <2>2. \A i \in DOMAIN requests' : requests'[i].tag = call'.tag => requests'[i].op = call'.op
    BY <1>2, <1>3, <1>4, <1>5, <1>6, <1>8
  <2>3. \A k \in DOMAIN wire' : wire'[k].kind = "DONE" => wire'[k].tag # call'.tag
    BY <1>3, <1>4, <1>7, <1>8
  <2> QED
    BY <2>1, <2>2, <2>3 DEF TagOfCall
<1> QED
  BY <1>9, <1>10 DEF TagInv

\* Lines are read, and the message of an APPEND is sent.
LEMMA ReadTags ==
  ASSUME TypeInv, TagInv, Reads
  PROVE  TagInv'
<1>1. /\ ~IdleNow /\ wire # <<>> /\ wire' = Tail(wire) /\ m_tag' = m_tag
      /\ call' = call \/ call' = Idle
      /\ requests' = requests \/ requests' = Append(requests, Literal)
  BY DEF Reads, readUntagged, parkResponse, continueAppend, refused, done, doneUnscanned,
         doneGetMessages, doneGetAndFetch, OurReply, Reading, Next1Line, Reset, connectionVars
<1>2. wire \in Seq(Lines) /\ requests \in Seq(Requests)
  BY DEF TypeInv, MailboxType
<1>3. \A k \in DOMAIN wire' : k + 1 \in DOMAIN wire /\ wire'[k] = wire[k + 1]
  BY <1>1, <1>2, TailParts
<1>4. Literal \in Requests /\ Literal.tag = 0
  BY UidType DEF Literal, Requests, Ops
<1>5. \A i \in DOMAIN requests' :
        \/ i \in DOMAIN requests /\ requests'[i] = requests[i]
        \/ requests'[i].tag = 0
  BY <1>1, <1>2, <1>4, AppendParts
<1>6. PICK t \in Nat : t = m_tag
  BY DEF TypeInv, FolderType
<1>7. TagsApart'
  <2>1. \A i \in DOMAIN requests' : requests'[i].tag \in 0..m_tag'
    BY <1>1, <1>5, <1>6 DEF TagInv, TagsApart
  <2>2. \A i, j \in DOMAIN requests' :
          requests'[i].tag = requests'[j].tag => i = j \/ requests'[i].tag = 0
    BY <1>5 DEF TagInv, TagsApart
  <2>3. \A k \in DOMAIN wire' : wire'[k].kind = "DONE" =>
          /\ wire'[k].tag \in 0..m_tag'
          /\ wire'[k].tag # 0 => \A i \in DOMAIN requests' : requests'[i].tag # wire'[k].tag
    BY <1>1, <1>3, <1>5 DEF TagInv, TagsApart
  <2> QED
    BY <2>1, <2>2, <2>3 DEF TagsApart
<1>8. TagOfCall'
  <2>1. CASE call' = Idle
    BY <2>1 DEF TagOfCall, IdleNow
  <2>2. CASE call' = call
    <3>1. call.tag \in 1..m_tag /\ call.tag # 0
      BY <1>1, <1>6 DEF TagInv, TagOfCall
    <3> QED
      BY <1>1, <1>3, <1>5, <2>2, <3>1 DEF TagInv, TagOfCall
  <2> QED
    BY <1>1, <2>1, <2>2
<1> QED
  BY <1>7, <1>8 DEF TagInv

\* Every step keeps tags apart.
LEMMA TagNext ==
  ASSUME TypeInv, TagInv, [Next]_vars
  PROVE  TagInv'
<1>1. CASE SendingCalls
  <2>1. PICK op, num, uid, meant, then : SendsOne(op, num, uid, meant, then)
    BY <1>1, CallsSend
  <2>2. /\ op \in Ops /\ num \in Nat /\ uid \in AnyUid /\ meant \in AnyUid /\ then \in Treatments
        /\ sendCommand(op, num, uid, meant, then)
    BY <2>1 DEF SendsOne
  <2> QED
    BY <2>2, SentTags
<1>2. ASSUME requests' = <<>>, wire' = <<>>, IdleNow'
      PROVE  TagInv'
  BY <1>2 DEF TagInv, TagsApart, TagOfCall
<1>3. ASSUME NEW mode \in {"ro", "rw"}, open(mode)
      PROVE  TagInv'
  BY <1>2, <1>3 DEF open, NewConnection, IdleNow
<1>4. ASSUME NEW expunging \in BOOLEAN, close(expunging)
      PROVE  TagInv'
  BY <1>2, <1>4 DEF close, NewConnection, callVars, IdleNow
<1>5. CASE connectionLost
  BY <1>2, <1>5 DEF connectionLost, NewConnection, Reset, IdleNow
<1>6. ASSUME requests' = requests, wire' = wire, m_tag' = m_tag, call' = call \/ call' = Idle
      PROVE  TagInv'
  BY <1>6 DEF TagInv, TagsApart, TagOfCall, IdleNow
<1>7. CASE countsWhileClosed \/ timeOut \/ UNCHANGED vars
  BY <1>6, <1>7 DEF countsWhileClosed, timeOut, vars, Reset, connectionVars, callVars, mailboxVars,
                    sessionVars
<1>8. ASSUME NEW num \in 1..m_count, getMessage(num)
      PROVE  TagInv'
  BY <1>6, <1>8 DEF getMessage, connectionVars, callVars, mailboxVars, sessionVars
<1>9. CASE Environment
  <2>1. m_tag' = m_tag /\ call' = call
    BY <1>9 DEF Environment, connectionVars, callVars
  <2>2. CASE Server
    BY <2>1, <2>2, ServerTags
  <2>3. CASE OtherClients
    <3>1. requests' = requests /\ wire' = wire
      BY <2>3, OtherMailboxType DEF TypeInv, sessionVars
    <3> QED
      BY <1>6, <2>1, <3>1
  <2> QED
    BY <1>9, <2>2, <2>3 DEF Environment
<1> QED
  BY <1>1, <1>3, <1>4, <1>5, <1>7, <1>8, <1>9, NextCases, ReadTags

\* Tags tell commands apart, and the reply to one comes when it is done with.
THEOREM TagInvariance == Spec => []TagInv
<1>1. Init => TagInv
  <2> SUFFICES ASSUME Init
               PROVE  TagInv
    OBVIOUS
  <2>1. requests = <<>> /\ wire = <<>> /\ IdleNow
    BY DEF Init, MailboxInit, IdleNow
  <2> QED
    BY <2>1 DEF TagInv, TagsApart, TagOfCall
<1> QED
  BY <1>1, TagNext, IMAPInvariance, PTL DEF Spec

\* No call returns on the late reply to another.
THEOREM CallsReturnWhenDone == Spec => ReturnsWhenDone
<1>1. TypeInv /\ TagInv /\ [Next]_vars =>
        [~IdleNow /\ call' = Idle /\ wire' # wire /\ connected' =>
           \A i \in DOMAIN requests : requests[i].tag # call.tag]_vars
  <2> SUFFICES ASSUME TypeInv, TagInv, Next, ~IdleNow, call' = Idle, wire' # wire, connected'
               PROVE  \A i \in DOMAIN requests : requests[i].tag # call.tag
    OBVIOUS
  <2>1. ~SendingCalls
    <3> SUFFICES ASSUME SendingCalls
                 PROVE  FALSE
      OBVIOUS
    <3>1. PICK op, num, uid, meant, then : SendsOne(op, num, uid, meant, then)
      BY CallsSend
    <3> QED
      BY <3>1 DEF SendsOne, sendCommand
  <2>2. Reads
    <3>1. ~Environment /\ ~timeOut /\ ~connectionLost
      BY DEF Environment, timeOut, connectionLost, callVars, mailboxVars, sessionVars, IdleNow
    <3>2. /\ ~(\E mode \in {"ro", "rw"} : open(mode)) /\ ~countsWhileClosed
          /\ ~(\E expunging \in BOOLEAN : close(expunging))
          /\ ~(\E num \in 1..m_count : getMessage(num))
      BY DEF open, countsWhileClosed, close, getMessage
    <3> QED
      BY <2>1, <3>1, <3>2, NextCases
  <2>3. \E ok \in BOOLEAN : OurReply(ok)
    BY <2>2 DEF Reads, readUntagged, parkResponse, continueAppend, refused, done, doneUnscanned,
                doneGetMessages, doneGetAndFetch, IdleNow
  <2>4. wire # <<>> /\ Line.kind = "DONE" /\ Line.tag = call.tag
    BY <2>3 DEF OurReply, Reading, isOurs
  <2>5. 1 \in DOMAIN wire /\ Line = wire[1]
    BY <2>4, TailParts DEF TypeInv, MailboxType, Line
  <2>6. call.tag # 0
    <3>1. call.tag \in 1..m_tag /\ m_tag \in Nat
      BY DEF TypeInv, FolderType, TagInv, TagOfCall
    <3> QED
      BY <3>1
  <2> QED
    BY <2>4, <2>5, <2>6 DEF TagInv, TagsApart
<1> QED
  BY <1>1, TagInvariance, IMAPInvariance, PTL DEF Spec, ReturnsWhenDone

-----------------------------------------------------------------------------
(***************************************************************************)
(* Numbers in a view that changes                                          *)
(***************************************************************************)
\* New messages come after the others, which keep their numbers.
LEMMA ArrivalKeepsNumbers ==
  ASSUME NEW v \in Views, NEW w \in Views, v \subseteq w, \A u \in v, x \in w \ v : u < x, NEW uid \in v
  PROVE  uid \in w /\ NumberOf(uid, w) = NumberOf(uid, v)
<1>1. w \subseteq Nat
  BY ViewIsFinite
<1>2. \A x \in w : x <= uid => x \in v
  <2> SUFFICES ASSUME NEW x \in w, x <= uid, x \notin v
               PROVE  FALSE
    OBVIOUS
  <2>1. uid < x /\ uid \in Nat /\ x \in Nat
    BY <1>1
  <2> QED
    BY <2>1
<1>3. {x \in w : x <= uid} = {x \in v : x <= uid}
  BY <1>2
<1> QED
  BY <1>3 DEF NumberOf

\* The numbers of the messages after one that goes are lowered by one.
LEMMA RemovalLowersNumbers ==
  ASSUME NEW v \in Views, NEW gone \in v, NEW uid \in v, uid # gone
  PROVE  /\ v \ {gone} \in Views
         /\ NumberOf(uid, v) > NumberOf(gone, v) => NumberOf(uid, v \ {gone}) = NumberOf(uid, v) - 1
         /\ NumberOf(uid, v) < NumberOf(gone, v) => NumberOf(uid, v \ {gone}) = NumberOf(uid, v)
         /\ NumberOf(uid, v) # NumberOf(gone, v)
<1>1. v \in SUBSET Nat /\ IsFiniteSet(v) /\ v \ {gone} \in Views
  BY ViewIsFinite DEF Views
<1>2. gone \in Nat /\ uid \in Nat
  BY <1>1
<1>3. NumberOf(uid, v) \in Nat /\ NumberOf(gone, v) \in Nat
  BY NumberType
<1>4. /\ uid < gone => NumberOf(uid, v) < NumberOf(gone, v)
      /\ gone < uid => NumberOf(gone, v) < NumberOf(uid, v)
  BY <1>1, Ranks, NumberIsRank
<1> DEFINE B == {x \in v : x <= uid}
           C == {x \in v \ {gone} : x <= uid}
<1>5. CASE gone < uid
  <2>1. C = B \ {gone} /\ gone \in B
    BY <1>2, <1>5
  <2>2. IsFiniteSet(B)
    BY <1>1, BelowIsFinite
  <2> HIDE DEF B, C
  <2>3. Cardinality(C) = Cardinality(B) - 1
    BY <2>1, <2>2, FS_RemoveElement
  <2>4. NumberOf(uid, v \ {gone}) = NumberOf(uid, v) - 1
    BY <2>3 DEF NumberOf, B, C
  <2> QED
    BY <1>1, <1>3, <1>4, <1>5, <2>4
<1>6. CASE uid < gone
  <2>1. C = B
    BY <1>1, <1>2, <1>6
  <2>2. NumberOf(uid, v \ {gone}) = NumberOf(uid, v)
    BY <2>1 DEF NumberOf
  <2> QED
    BY <1>1, <1>3, <1>4, <1>6, <2>2
<1> QED
  BY <1>2, <1>5, <1>6

-----------------------------------------------------------------------------
(***************************************************************************)
(* A message object and one line                                           *)
(***************************************************************************)
\* What the line leaves of the object, field by field.
LEMMA AfterExpungeFields ==
  ASSUME NEW object \in Objects, NEW n \in Nat
  PROVE  LET after == afterExpunge(object, n) IN
         /\ after.id = object.id /\ after.uid = object.uid
         /\ object.num = n => after.expunged /\ after.num = object.num
         /\ object.num > n => after.expunged = object.expunged /\ after.num = object.num - 1
         /\ object.num < n => after.expunged = object.expunged /\ after.num = object.num
<1> DEFINE after == afterExpunge(object, n)
           marked1 == [object EXCEPT !.expunged = TRUE]
           lowered == [object EXCEPT !.num = object.num - 1]
<1>1. PICK m \in Nat : m = object.num
  BY ObjectFields
<1>2. marked1.expunged /\ marked1.id = object.id /\ marked1.uid = object.uid /\ marked1.num = m
  BY <1>1 DEF Objects
<1>3. lowered.expunged = object.expunged /\ lowered.id = object.id /\ lowered.uid = object.uid
      /\ lowered.num = m - 1
  BY <1>1 DEF Objects
<1>4. /\ m = n => after = marked1
      /\ m > n => after = lowered
      /\ m < n => after = object
  BY <1>1 DEF afterExpunge
<1> HIDE DEF after, marked1, lowered
<1>5. /\ after.id = object.id /\ after.uid = object.uid
      /\ m = n => after.expunged /\ after.num = m
      /\ m > n => after.expunged = object.expunged /\ after.num = m - 1
      /\ m < n => after.expunged = object.expunged /\ after.num = m
  <2>1. CASE m = n
    BY <1>2, <1>4, <2>1
  <2>2. CASE m > n
    BY <1>3, <1>4, <2>2
  <2>3. CASE m < n
    BY <1>1, <1>4, <2>3
  <2> QED
    BY <1>1, <2>1, <2>2, <2>3
<1> QED
  BY <1>1, <1>5 DEF after

\* A FETCH line gives a UID to the object of its number, or does nothing.
LEMMA AfterFetchFields ==
  ASSUME NEW object \in Objects, NEW line \in Lines, line.kind = "FETCH"
  PROVE  LET after == afterLine(object, line) IN
         /\ after.id = object.id /\ after.num = object.num /\ after.expunged = object.expunged
         /\ \/ after = object
            \/ object.num = line.num /\ after = [object EXCEPT !.uid = line.uid] /\ after.uid = line.uid
<1>1. PICK uid \in Uids : uid = line.uid
  BY LineFields
<1>2. afterLine(object, line) =
        IF line.withUid /\ object.num = line.num THEN [object EXCEPT !.uid = uid] ELSE object
  BY <1>1 DEF afterLine, processFetchResponse
<1>3. [object EXCEPT !.uid = uid].id = object.id /\ [object EXCEPT !.uid = uid].num = object.num
      /\ [object EXCEPT !.uid = uid].expunged = object.expunged
      /\ [object EXCEPT !.uid = uid].uid = uid
  BY DEF Objects
<1> QED
  BY <1>1, <1>2, <1>3

\* An object that is right before a line is right after it.
LEMMA LineKeepsName ==
  ASSUME NEW object \in Objects, NEW line \in Lines, NEW before \in Views, Right(before, line),
         Naming(object, before),
         object.id # NoUid /\ object.expunged => object.id \notin line.view
  PROVE  Naming(afterLine(object, line), line.view)
<1> DEFINE after == afterLine(object, line)
<1>1. after.id = object.id
  BY AfterLineType
<1> SUFFICES ASSUME object.id # NoUid
             PROVE  IF after.expunged THEN object.id \notin line.view
                    ELSE /\ object.id \in line.view /\ NumberOf(object.id, line.view) = after.num
                         /\ after.uid \in {NoUid, object.id}
  BY <1>1 DEF Naming
<1>2. line.view \in Views /\ object.num \in Nat
  BY LineFields, ObjectFields
<1>3. ~object.expunged => /\ object.id \in before /\ NumberOf(object.id, before) = object.num
                          /\ object.uid \in {NoUid, object.id}
  BY DEF Naming
<1> HIDE DEF after
<1>4. CASE line.kind = "EXISTS"
  <2>1. after = object
    BY <1>4, AfterLineType DEF after
  <2>2. before \subseteq line.view /\ \A u \in before, w \in line.view \ before : u < w
    BY <1>4 DEF Right
  <2>3. ~object.expunged =>
          object.id \in line.view /\ NumberOf(object.id, line.view) = NumberOf(object.id, before)
    BY <1>2, <1>3, <2>2, ArrivalKeepsNumbers
  <2> QED
    BY <1>3, <2>1, <2>3
<1>5. CASE line.kind = "EXPUNGE"
  <2>1. line.uid \in before /\ line.num = NumberOf(line.uid, before)
        /\ line.view = before \ {line.uid}
    BY <1>5 DEF Right
  <2>2. line.num \in Nat /\ after = afterExpunge(object, line.num)
    BY <1>5, LineFields DEF after, afterLine
  <2>3. /\ after.uid = object.uid
        /\ object.num = line.num => after.expunged
        /\ object.num > line.num => after.expunged = object.expunged /\ after.num = object.num - 1
        /\ object.num < line.num => after.expunged = object.expunged /\ after.num = object.num
    BY <2>2, AfterExpungeFields
  <2>4. CASE object.expunged
    <3>1. object.num = line.num \/ object.num > line.num \/ object.num < line.num
      BY <1>2, <2>2
    <3>2. after.expunged
      BY <2>3, <2>4, <3>1
    <3> QED
      BY <2>4, <3>2
  <2>5. CASE ~object.expunged /\ object.id = line.uid
    <3>1. object.num = line.num
      BY <1>3, <2>1, <2>5
    <3> QED
      BY <2>1, <2>3, <2>5, <3>1
  <2>6. CASE ~object.expunged /\ object.id # line.uid
    <3>0. object.id \in before /\ line.uid \in before /\ object.id # line.uid
      BY <1>3, <2>1, <2>6
    <3>1. /\ object.num > line.num => NumberOf(object.id, line.view) = object.num - 1
          /\ object.num < line.num => NumberOf(object.id, line.view) = object.num
          /\ object.num # line.num
      <4>1. object.num = NumberOf(object.id, before) /\ line.num = NumberOf(line.uid, before)
        BY <1>3, <2>1, <2>6
      <4> DEFINE a == NumberOf(object.id, before)
                 b == NumberOf(line.uid, before)
                 c == NumberOf(object.id, line.view)
      <4>2. /\ a > b => c = a - 1
            /\ a < b => c = a
            /\ a # b
        BY <2>1, <3>0, RemovalLowersNumbers
      <4> HIDE DEF a, b, c
      <4>3. a = object.num /\ b = line.num
        BY <4>1 DEF a, b
      <4> QED
        BY <4>2, <4>3 DEF c
    <3>2. object.id \in line.view
      BY <1>3, <2>1, <2>6
    <3>3. object.num > line.num \/ object.num < line.num
      BY <1>2, <2>2, <3>1
    <3> QED
      BY <1>3, <2>3, <2>6, <3>1, <3>2, <3>3
  <2> QED
    BY <2>4, <2>5, <2>6
<1>6. CASE line.kind = "FETCH"
  <2>1. line.uid \in before /\ line.num = NumberOf(line.uid, before) /\ line.view = before
    BY <1>6 DEF Right
  <2>2. /\ after.num = object.num /\ after.expunged = object.expunged
        /\ \/ after = object
           \/ object.num = line.num /\ after.uid = line.uid
    BY <1>6, AfterFetchFields DEF after
  <2>3. ~object.expunged /\ object.num = line.num => line.uid = object.id
    BY <1>3, <2>1, NamedType
  <2> QED
    BY <1>3, <2>1, <2>2, <2>3
<1>7. CASE line.kind \in {"STATUS", "CONTINUE", "DONE"}
  <2>1. after = object /\ line.view = before
    BY <1>7, AfterLineType DEF after, Right
  <2> QED
    BY <1>3, <2>1
<1> QED
  BY <1>4, <1>5, <1>6, <1>7, LineFields

-----------------------------------------------------------------------------
(***************************************************************************)
(* The stream grows, and is read                                           *)
(***************************************************************************)
LEMMA AfterType ==
  ASSUME NEW v \in Views, NEW s \in Seq(Lines), NEW k \in 0..Len(s)
  PROVE  After(v, s, k) \in Views
<1>1. k # 0 => s[k] \in Lines
  <2>1. k # 0 => k \in 1..Len(s)
    OBVIOUS
  <2> QED
    BY <2>1, ElementOfSeq
<1> QED
  BY <1>1, LineFields DEF After

\* The server sends a line that is right where the stream ends.
LEMMA StreamGrows ==
  ASSUME NEW v \in Views, NEW s \in Seq(Lines), NEW t, NEW box, NEW next, Whole(v, s, t, box, next),
         NEW line \in Lines, Right(t, line), \A u \in line.view \ t : u \in box,
         \A u \in line.view, w \in box \ line.view : u < w,
         line.kind = "EXPUNGE" => line.uid \notin box /\ line.uid < next
  PROVE  /\ Whole(v, Append(s, line), line.view, box, next)
         /\ \A uid : Departed(uid, 0, v, s, box, next) =>
                       Departed(uid, 0, v, Append(s, line), box, next)
<1> DEFINE s2 == Append(s, line)
<1>1. PICK n \in Nat : n = Len(s)
  BY LenProperties
<1>2. /\ s2 \in Seq(Lines) /\ Len(s2) = n + 1 /\ s2[n + 1] = line
      /\ \A k \in 1..n : s2[k] = s[k]
  BY <1>1, AppendProperties
<1> HIDE DEF s2
<1>3. \A k \in 0..n : After(v, s2, k) = After(v, s, k)
  BY <1>1, <1>2 DEF After
<1>4. After(v, s2, n + 1) = line.view
  BY <1>1, <1>2 DEF After
<1>5. After(v, s, n) = t
  BY <1>1 DEF Whole
<1>6. \A k \in 0..(n + 1) : k \in 0..n \/ k = n + 1
  BY <1>1
<1>7. Chain(v, s2)
  <2> SUFFICES ASSUME NEW k \in 1..(n + 1)
               PROVE  Right(After(v, s2, k - 1), s2[k])
    BY <1>2 DEF Chain
  <2>1. CASE k = n + 1
    <3>1. After(v, s2, k - 1) = t
      BY <1>1, <1>3, <1>5, <2>1
    <3> QED
      BY <1>2, <2>1, <3>1
  <2>2. CASE k # n + 1
    <3>1. k \in 1..n /\ k - 1 \in 0..n
      BY <1>1, <2>2
    <3>2. Right(After(v, s, k - 1), s[k])
      BY <1>1, <3>1 DEF Whole, Chain
    <3> QED
      BY <1>2, <1>3, <3>1, <3>2
  <2> QED
    BY <2>1, <2>2
<1>8. ASSUME NEW uid, NEW k \in 0..n, Departed(uid, k, v, s, box, next)
      PROVE  Departed(uid, k, v, s2, box, next)
  <2>1. uid \notin box /\ uid < next /\ \A j \in k..n : uid \notin After(v, s, j)
    BY <1>1, <1>8 DEF Departed
  <2>2. uid \notin t
    BY <1>1, <1>5, <2>1
  <2>3. uid \notin line.view
    BY <2>1, <2>2
  <2>4. \A j \in k..(n + 1) : uid \notin After(v, s2, j)
    <3> TAKE j \in k..(n + 1)
    <3>1. j = n + 1 \/ (j \in k..n /\ j \in 0..n)
      BY <1>1
    <3> QED
      BY <1>3, <1>4, <2>1, <2>3, <3>1
  <2> QED
    BY <1>2, <2>1, <2>4 DEF Departed
<1>9. ASSUME NEW k \in 1..(n + 1), s2[k].kind = "EXPUNGE"
      PROVE  Departed(s2[k].uid, k, v, s2, box, next)
  <2>1. CASE k = n + 1
    <3>1. line.kind = "EXPUNGE" /\ s2[k] = line
      BY <1>2, <1>9, <2>1
    <3>2. line.uid \notin line.view
      BY <3>1 DEF Right
    <3>3. \A j \in k..(n + 1) : j = n + 1
      BY <1>1, <2>1
    <3> QED
      BY <1>2, <1>4, <3>1, <3>2, <3>3 DEF Departed
  <2>2. CASE k # n + 1
    <3>1. k \in 1..n /\ k \in 0..n
      BY <1>1, <2>2
    <3>2. s2[k] = s[k] /\ Departed(s[k].uid, k, v, s, box, next)
      BY <1>1, <1>2, <1>9, <3>1 DEF Whole
    <3> QED
      BY <1>8, <3>1, <3>2
  <2> QED
    BY <2>1, <2>2
<1>10. Whole(v, s2, line.view, box, next)
  BY <1>2, <1>4, <1>7, <1>9 DEF Whole
<1> QED
  BY <1>1, <1>8, <1>10 DEF s2

\* Messages arrive in the mailbox and vanish from it.
LEMMA MailboxMoves ==
  ASSUME NEW v \in Views, NEW s \in Seq(Lines), NEW t \in Views, NEW box, NEW next \in Nat,
         Whole(v, s, t, box, next), NEW box2, NEW next2 \in Nat, next <= next2,
         \A w \in box2 : w \in box \/ (w \in Nat /\ next <= w), \A u \in t : u < next
  PROVE  /\ Whole(v, s, t, box2, next2)
         /\ \A uid \in AnyUid : Departed(uid, 0, v, s, box, next) => Departed(uid, 0, v, s, box2, next2)
<1>1. t \subseteq Nat /\ AnyUid \subseteq Nat
  BY ViewIsFinite, UidType DEF AnyUid, NoUid
<1>2. ASSUME NEW uid \in AnyUid, NEW k, Departed(uid, k, v, s, box, next)
      PROVE  Departed(uid, k, v, s, box2, next2)
  <2>1. uid \in Nat /\ uid < next /\ uid \notin box
    BY <1>1, <1>2 DEF Departed
  <2>2. uid < next2 /\ ~(next <= uid)
    BY <2>1
  <2>3. uid \notin box2
    BY <2>1, <2>2
  <2> QED
    BY <1>2, <2>2, <2>3 DEF Departed
<1>3. \A u \in t, w \in box2 \ t : u < w
  <2> TAKE u \in t, w \in box2 \ t
  <2>1. CASE w \in box
    BY <2>1 DEF Whole
  <2>2. CASE w \in Nat /\ next <= w
    BY <1>1, <2>2
  <2> QED
    BY <2>1, <2>2
<1>4. \A k \in 1..Len(s) : s[k].kind = "EXPUNGE" => Departed(s[k].uid, k, v, s, box2, next2)
  <2> SUFFICES ASSUME NEW k \in 1..Len(s), s[k].kind = "EXPUNGE"
               PROVE  Departed(s[k].uid, k, v, s, box2, next2)
    OBVIOUS
  <2>1. s[k] \in Lines
    BY ElementOfSeq
  <2>2. s[k].uid \in AnyUid
    BY <2>1, LineFields, UidType
  <2> QED
    BY <1>2, <2>2 DEF Whole
<1> QED
  BY <1>2, <1>3, <1>4 DEF Whole

\* The lines p have been acted on, and q is left.
LEMMA StreamIsRead ==
  ASSUME NEW v \in Views, NEW p \in Seq(Lines), NEW q \in Seq(Lines), NEW t, NEW box, NEW next,
         Whole(v, p \o q, t, box, next), NEW v2, v2 = After(v, p \o q, Len(p))
  PROVE  /\ Whole(v2, q, t, box, next)
         /\ \A k \in 0..Len(p) : After(v, p \o q, k) = After(v, p, k)
         /\ \A uid : \A k \in 0..Len(p) :
              Departed(uid, k, v, p \o q, box, next) => Departed(uid, 0, v2, q, box, next)
<1> DEFINE s == p \o q
<1>1. PICK m \in Nat, n \in Nat : m = Len(p) /\ n = Len(q)
  BY LenProperties
<1>2. /\ s \in Seq(Lines) /\ Len(s) = m + n
      /\ \A i \in 1..(m + n) : s[i] = IF i <= m THEN p[i] ELSE q[i - m]
  BY <1>1, ConcatProperties
<1> HIDE DEF s
<1>3. \A k \in 1..n : k + m \in 1..(m + n) /\ s[k + m] = q[k] /\ k + m # 0 /\ k # 0
  <2> TAKE k \in 1..n
  <2>1. k + m \in 1..(m + n) /\ ~(k + m <= m) /\ (k + m) - m = k /\ k # 0 /\ k + m # 0
    BY <1>1
  <2> QED
    BY <1>2, <2>1
<1>4. v2 = After(v, s, m)
  BY <1>1 DEF s
<1>5. \A k \in 0..n : After(v2, q, k) = After(v, s, k + m)
  <2> TAKE k \in 0..n
  <2>1. CASE k = 0
    <3>1. k + m = m
      BY <1>1, <2>1
    <3> QED
      BY <1>4, <2>1, <3>1 DEF After
  <2>2. CASE k # 0
    <3>1. k \in 1..n
      BY <2>2
    <3> QED
      BY <1>3, <3>1 DEF After
  <2> QED
    BY <2>1, <2>2
<1>6. \A k \in 0..m : After(v, s, k) = After(v, p, k)
  <2> TAKE k \in 0..m
  <2>1. k # 0 => s[k] = p[k]
    BY <1>1, <1>2
  <2> QED
    BY <2>1 DEF After
<1>7. ASSUME NEW uid, NEW i \in 0..(m + n), NEW k \in 0..n, i <= k + m,
             Departed(uid, i, v, s, box, next)
      PROVE  Departed(uid, k, v2, q, box, next)
  <2>1. uid \notin box /\ uid < next /\ \A j \in i..(m + n) : uid \notin After(v, s, j)
    BY <1>2, <1>7 DEF Departed
  <2>2. \A j \in k..n : uid \notin After(v2, q, j)
    <3> TAKE j \in k..n
    <3>1. j \in 0..n /\ j + m \in i..(m + n)
      BY <1>1, <1>7
    <3> QED
      BY <1>5, <2>1, <3>1
  <2> QED
    BY <1>1, <2>1, <2>2 DEF Departed
<1>8. Chain(v2, q)
  <2> SUFFICES ASSUME NEW k \in 1..n
               PROVE  Right(After(v2, q, k - 1), q[k])
    BY <1>1 DEF Chain
  <2>1. k - 1 \in 0..n /\ (k - 1) + m = (k + m) - 1
    BY <1>1
  <2>2. Right(After(v, s, (k + m) - 1), s[k + m])
    BY <1>2, <1>3 DEF Whole, Chain, s
  <2>3. After(v2, q, k - 1) = After(v, s, (k + m) - 1)
    BY <1>5, <2>1
  <2> QED
    BY <1>3, <2>2, <2>3
<1>9. After(v2, q, n) = t
  <2>1. n \in 0..n /\ n + m = m + n
    BY <1>1
  <2>2. After(v, s, m + n) = t
    BY <1>2 DEF Whole, s
  <2> QED
    BY <1>5, <2>1, <2>2
<1>10. ASSUME NEW k \in 1..n, q[k].kind = "EXPUNGE"
       PROVE  Departed(q[k].uid, k, v2, q, box, next)
  <2>1. k + m \in 1..(m + n) /\ s[k + m] = q[k]
    BY <1>3
  <2>2. Departed(s[k + m].uid, k + m, v, s, box, next)
    BY <1>2, <1>10, <2>1 DEF Whole, s
  <2>3. k + m \in 0..(m + n) /\ k \in 0..n /\ k + m <= k + m
    BY <1>1
  <2> QED
    BY <1>7, <2>1, <2>2, <2>3
<1>11. Whole(v2, q, t, box, next)
  BY <1>1, <1>8, <1>9, <1>10 DEF Whole, s
<1>12. ASSUME NEW uid, NEW k \in 0..m, Departed(uid, k, v, s, box, next)
       PROVE  Departed(uid, 0, v2, q, box, next)
  <2>1. k \in 0..(m + n) /\ 0 \in 0..n /\ k <= 0 + m
    BY <1>1
  <2> QED
    BY <1>7, <1>12, <2>1
<1> QED
  BY <1>1, <1>6, <1>11, <1>12 DEF s

-----------------------------------------------------------------------------
(***************************************************************************)
(* A message object and a whole response                                   *)
(***************************************************************************)
\* The object is right after k lines.
RightAfter(object, k, v, s, box, next) ==
  Naming(object, After(v, s, k)) /\ Over(object, k, v, s, box, next)

\* An object that is right before a line is right after it.
LEMMA LineKeeps ==
  ASSUME NEW v \in Views, NEW s \in Seq(Lines), NEW t, NEW box, NEW next, Whole(v, s, t, box, next),
         NEW k \in 1..Len(s), NEW object \in Objects, RightAfter(object, k - 1, v, s, box, next)
  PROVE  RightAfter(afterLine(object, s[k]), k, v, s, box, next)
<1> DEFINE line == s[k]
           before == After(v, s, k - 1)
           after == afterLine(object, line)
<1>1. PICK n \in Nat : n = Len(s)
  BY LenProperties
<1>2. k \in 0..n /\ k - 1 \in 0..n /\ k # 0 /\ k \in 1..n
  BY <1>1
<1>3. line \in Lines /\ before \in Views
  BY <1>1, <1>2, AfterType, ElementOfSeq
<1>4. Right(before, line)
  BY DEF Whole, Chain
<1>5. After(v, s, k) = line.view
  BY <1>2 DEF After
<1>6. Naming(object, before)
  BY DEF RightAfter
<1>7. object.id # NoUid /\ object.expunged =>
        \A j \in (k - 1)..n : object.id \notin After(v, s, j)
  BY <1>1 DEF RightAfter, Over, Departed
<1>8. object.id # NoUid /\ object.expunged => Departed(object.id, k, v, s, box, next)
  <2>1. \A j \in k..n : j \in (k - 1)..n
    BY <1>1
  <2> QED
    BY <1>1, <2>1 DEF RightAfter, Over, Departed
<1>9. object.id # NoUid /\ object.expunged => object.id \notin line.view
  <2>1. k \in (k - 1)..n
    BY <1>2
  <2> QED
    BY <1>5, <1>7, <2>1
<1>10. line.kind = "EXPUNGE" => Departed(line.uid, k, v, s, box, next)
  BY DEF Whole
<1> HIDE DEF line, before
<1>11. Naming(after, line.view)
  BY <1>3, <1>4, <1>6, <1>9, LineKeepsName
<1>12. after.id = object.id /\ after \in Objects
  BY <1>3, AfterLineType
<1>13. Over(after, k, v, s, box, next)
  <2> SUFFICES ASSUME object.id # NoUid, after.expunged, ~object.expunged
               PROVE  Departed(object.id, k, v, s, box, next)
    BY <1>8, <1>12 DEF Over
  <2>1. object.id \in before /\ object.id \notin line.view
    BY <1>6, <1>11, <1>12 DEF Naming
  <2>2. line.kind = "EXPUNGE" /\ line.view = before \ {line.uid}
    BY <1>3, <1>4, <2>1, LineFields DEF Right
  <2>3. object.id = line.uid
    BY <2>1, <2>2
  <2> QED
    BY <1>10, <2>2, <2>3
<1> QED
  BY <1>5, <1>11, <1>13 DEF RightAfter, line

\* An object that is right after i lines is right after all that the loop
\* has gone through.
LEMMA LinesKeep ==
  ASSUME NEW v \in Views, NEW p \in Seq(Lines), NEW q \in Seq(Lines), NEW t, NEW box, NEW next,
         Whole(v, p \o q, t, box, next), NEW f, NEW object, Processed(f, object, p),
         NEW i \in 0..Len(p), RightAfter(f[i], i, v, p \o q, box, next)
  PROVE  RightAfter(f[Len(p)], Len(p), v, p \o q, box, next)
<1> DEFINE s == p \o q
           S == {k \in 0..Len(p) : i <= k => RightAfter(f[k], k, v, s, box, next)}
<1>1. PICK n \in Nat : n = Len(p)
  BY LenProperties
<1>2. s \in Seq(Lines) /\ \A k \in 1..n : k \in 1..Len(s) /\ s[k] = p[k]
  <2>1. /\ s \in Seq(Lines) /\ Len(s) = n + Len(q) /\ Len(q) \in Nat
        /\ \A k \in 1..(n + Len(q)) : s[k] = IF k <= n THEN p[k] ELSE q[k - n]
    BY <1>1, ConcatProperties, LenProperties
  <2> HIDE DEF s
  <2>2. \A k \in 1..n : k \in 1..(n + Len(q)) /\ k <= n
    BY <1>1, <2>1
  <2> QED
    BY <2>1, <2>2
<1> HIDE DEF s
<1>3. f \in [0..n -> Objects] /\ \A k \in 1..n : f[k] = afterLine(f[k - 1], p[k])
  BY <1>1 DEF Processed
<1>4. ASSUME NEW k \in 1..n, k - 1 \in S
      PROVE  k \in S
  <2> SUFFICES ASSUME i <= k
               PROVE  RightAfter(f[k], k, v, s, box, next)
    BY <1>1
  <2>1. CASE i = k
    BY <2>1 DEF s
  <2>2. CASE i # k
    <3>1. i <= k - 1 /\ k - 1 \in 0..n
      BY <1>1, <2>2
    <3>2. RightAfter(f[k - 1], k - 1, v, s, box, next) /\ f[k - 1] \in Objects
      BY <1>3, <1>4, <3>1
    <3>3. RightAfter(afterLine(f[k - 1], s[k]), k, v, s, box, next)
      BY <1>2, <3>2, LineKeeps DEF s
    <3> QED
      BY <1>2, <1>3, <3>3
  <2> QED
    BY <2>1, <2>2
<1>5. 0 \in S
  <2>1. i <= 0 => i = 0
    BY <1>1
  <2> QED
    BY <1>1, <2>1 DEF s
<1>6. 0..n \subseteq S
  <2> HIDE DEF S
  <2> QED
    BY <1>1, <1>4, <1>5, NumberInduction
<1>7. n \in 0..n /\ i <= n
  BY <1>1
<1> QED
  BY <1>1, <1>6, <1>7 DEF s

\* Messages keep their numbers over lines none of which is an EXPUNGE.
LEMMA NumbersStay ==
  ASSUME NEW v \in Views, NEW s \in Seq(Lines), Chain(v, s), NEW n \in 0..Len(s), NEW i \in 0..n,
         \A k \in (i + 1)..n : s[k].kind # "EXPUNGE", NEW uid \in After(v, s, i)
  PROVE  uid \in After(v, s, n) /\ NumberOf(uid, After(v, s, n)) = NumberOf(uid, After(v, s, i))
<1> DEFINE Same(k) == uid \in After(v, s, k)
                      /\ NumberOf(uid, After(v, s, k)) = NumberOf(uid, After(v, s, i))
           S == {k \in 0..n : i <= k => Same(k)}
<1>1. Len(s) \in Nat /\ n \in Nat /\ i \in Nat
  BY LenProperties
<1>2. 0 \in S
  <2>1. i <= 0 => i = 0
    BY <1>1
  <2> QED
    BY <1>1, <2>1
<1>3. ASSUME NEW k \in 1..n, k - 1 \in S
      PROVE  k \in S
  <2> SUFFICES ASSUME i <= k, i # k
               PROVE  Same(k)
    BY <1>1
  <2>1. i <= k - 1 /\ k - 1 \in 0..Len(s) /\ k \in 0..Len(s) /\ k \in 1..Len(s) /\ k \in (i + 1)..n
    BY <1>1
  <2>2. Same(k - 1)
    BY <1>3, <2>1
  <2>3. PICK before, after, line : before = After(v, s, k - 1) /\ after = After(v, s, k) /\ line = s[k]
    OBVIOUS
  <2>4. before \in Views /\ after \in Views /\ line \in Lines
    BY <2>1, <2>3, AfterType, ElementOfSeq
  <2>5. Right(before, line) /\ line.kind # "EXPUNGE"
    BY <2>1, <2>3 DEF Chain
  <2>6. after = line.view
    BY <2>1, <2>3 DEF After
  <2>7. before \subseteq after /\ \A u \in before, w \in after \ before : u < w
    BY <2>4, <2>5, <2>6, LineFields DEF Right
  <2>8. uid \in before
    BY <2>2, <2>3
  <2>9. uid \in after /\ NumberOf(uid, after) = NumberOf(uid, before)
    BY <2>4, <2>7, <2>8, ArrivalKeepsNumbers
  <2> QED
    BY <2>2, <2>3, <2>9
<1>4. 0..n \subseteq S
  <2> HIDE DEF S
  <2> QED
    BY <1>1, <1>2, <1>3, NumberInduction
<1>5. n \in 0..n /\ i <= n
  BY <1>1
<1> QED
  BY <1>4, <1>5

\* Every object that getMessages makes is made for a line of the response.
LEMMA FetchedFromLines ==
  ASSUME response \in Seq(Lines)
  PROVE  \A i \in DOMAIN Fetched : \E j \in 1..Len(response) :
           Tells(response[j]) /\ Fetched[i] = Made(response[j])
<1>1. PICK f : Making(f, response) /\ Fetched = f[Len(response)]
  BY Fetching
<1>2. PICK n \in Nat : n = Len(response)
  BY LenProperties
<1> DEFINE FromLines(k) == \A i \in DOMAIN f[k] : \E j \in 1..n :
             Tells(response[j]) /\ f[k][i] = Made(response[j])
           S == {k \in 0..n : FromLines(k)}
<1>3. /\ f \in [0..n -> Seq(Objects)] /\ f[0] = <<>>
      /\ \A k \in 1..n :
           f[k] = IF Tells(response[k]) THEN Append(f[k - 1], Made(response[k])) ELSE f[k - 1]
  BY <1>1, <1>2 DEF Making
<1>4. 0 \in S
  BY <1>2, <1>3
<1>5. ASSUME NEW k \in 1..n, k - 1 \in S
      PROVE  k \in S
  <2>1. k - 1 \in 0..n /\ k \in 0..n
    BY <1>2
  <2>2. f[k - 1] \in Seq(Objects) /\ FromLines(k - 1)
    BY <1>3, <1>5, <2>1
  <2>3. CASE Tells(response[k])
    <3>1. response[k] \in Lines
      BY <1>2, ElementOfSeq
    <3>2. Made(response[k]) \in Objects
      BY <2>3, <3>1, MadeType
    <3>3. f[k] = Append(f[k - 1], Made(response[k]))
      BY <1>3, <2>3
    <3>4. \A i \in DOMAIN f[k] :
            \/ i \in DOMAIN f[k - 1] /\ f[k][i] = f[k - 1][i]
            \/ f[k][i] = Made(response[k])
      BY <2>2, <3>2, <3>3, AppendParts
    <3>5. FromLines(k)
      BY <2>2, <2>3, <3>4
    <3> QED
      BY <2>1, <3>5
  <2>4. CASE ~Tells(response[k])
    <3>1. f[k] = f[k - 1]
      BY <1>3, <2>4
    <3> QED
      BY <2>1, <2>2, <3>1
  <2> QED
    BY <2>3, <2>4
<1>6. 0..n \subseteq S
  <2> HIDE DEF S
  <2> QED
    BY <1>2, <1>4, <1>5, NumberInduction
<1>7. n \in 0..n
  BY <1>2
<1> QED
  BY <1>1, <1>2, <1>6, <1>7

\* An object made for a line is right where the line stands.
LEMMA MadeIsRight ==
  ASSUME NEW line \in Lines, Tells(line), NEW before, Right(before, line)
  PROVE  /\ Made(line) \in Objects /\ ~Made(line).expunged
         /\ Made(line).id = line.uid /\ Made(line).uid = line.uid /\ Made(line).num = line.num
         /\ line.uid \in before /\ line.num = NumberOf(line.uid, before)
         /\ Naming(Made(line), before) /\ line.view = before
<1>1. line.kind = "FETCH" /\ line.num \in Nat /\ line.uid \in AnyUid
  BY LineFields, UidType DEF Tells
<1>2. /\ Made(line) \in Objects /\ ~Made(line).expunged
      /\ Made(line).id = line.uid /\ Made(line).uid = line.uid /\ Made(line).num = line.num
  BY <1>1, ObjectMade DEF Made
<1>3. line.uid \in before /\ line.num = NumberOf(line.uid, before) /\ line.view = before
  BY <1>1 DEF Right
<1> QED
  BY <1>2, <1>3 DEF Naming

\* The lines before its own do nothing to a new object, unless one is an EXPUNGE.
LEMMA MadeStays ==
  ASSUME NEW v \in Views, NEW p \in Seq(Lines), NEW q \in Seq(Lines), NEW t, NEW box, NEW next,
         Whole(v, p \o q, t, box, next), NEW j \in 1..Len(p), Tells(p[j]),
         \A i \in 1..(j - 1) : p[i].kind # "EXPUNGE", NEW f, Processed(f, Made(p[j]), p)
  PROVE  RightAfter(f[j], j, v, p \o q, box, next)
<1> DEFINE s == p \o q
           object == Made(p[j])
           here == After(v, s, j)
           S == {k \in 0..j : f[k] = object}
<1>1. PICK n \in Nat, m \in Nat : n = Len(p) /\ m = Len(q)
  BY LenProperties
<1>2. /\ s \in Seq(Lines) /\ Len(s) = n + m
      /\ \A k \in 1..(n + m) : s[k] = IF k <= n THEN p[k] ELSE q[k - n]
  BY <1>1, ConcatProperties
<1> HIDE DEF s
<1>3. \A k \in 1..n : s[k] = p[k]
  BY <1>1, <1>2
<1>4. /\ f \in [0..n -> Objects] /\ f[0] = object
      /\ \A k \in 1..n : f[k] = afterLine(f[k - 1], p[k])
  BY <1>1 DEF Processed
<1>5. j \in 1..n /\ j \in 0..(n + m) /\ j - 1 \in 0..(n + m) /\ j \in 0..j
  BY <1>1
<1>6. \A k \in 1..(n + m) : Right(After(v, s, k - 1), s[k])
  BY <1>2 DEF Whole, Chain, s
<1>7. p[j] \in Lines /\ s[j] = p[j] /\ j \in 1..(n + m)
  BY <1>1, <1>3, <1>5, ElementOfSeq
<1>8. Right(After(v, s, j - 1), p[j])
  BY <1>6, <1>7
<1>9. here = p[j].view
  BY <1>3, <1>5 DEF After
<1>10. here = After(v, s, j - 1)
  BY <1>7, <1>8, <1>9, MadeIsRight
<1>11. /\ object \in Objects /\ ~object.expunged /\ object.id = object.uid
       /\ object.id \in here /\ object.num = NumberOf(object.id, here) /\ Naming(object, here)
  <2> HIDE DEF object, here
  <2>1. Right(here, p[j])
    BY <1>8, <1>10
  <2> QED
    BY <1>7, <2>1, MadeIsRight DEF object
<1>12. here \in Views
  BY <1>2, <1>5, AfterType
<1>13. 0 \in S
  BY <1>4, <1>5
<1>14. ASSUME NEW k \in 1..j, k - 1 \in S
       PROVE  k \in S
  <2> DEFINE line == p[k]
             before == After(v, s, k - 1)
  <2>1. k \in 1..n /\ k \in 1..(n + m) /\ k - 1 \in 0..(n + m) /\ k - 1 \in 0..j /\ j \in 0..(n + m)
    BY <1>1, <1>5
  <2>2. f[k] = afterLine(object, line)
    BY <1>4, <1>14, <2>1
  <2>3. line \in Lines /\ Right(before, line)
    BY <1>1, <1>3, <1>6, <2>1, ElementOfSeq
  <2>4. line.kind # "EXPUNGE"
    <3>1. CASE k = j
      BY <1>5, <3>1 DEF Tells
    <3>2. CASE k # j
      <4>1. k \in 1..(j - 1)
        BY <1>5, <3>2
      <4> QED
        BY <4>1
    <3> QED
      BY <3>1, <3>2
  <2>5. \A uid \in before : uid \in here /\ NumberOf(uid, here) = NumberOf(uid, before)
    <3>1. \A i \in ((k - 1) + 1)..j : s[i].kind # "EXPUNGE"
      <4> TAKE i \in ((k - 1) + 1)..j
      <4>1. i \in 1..n /\ (i = j \/ i \in 1..(j - 1))
        BY <1>5, <2>1
      <4> QED
        BY <1>3, <4>1 DEF Tells
    <3>2. Chain(v, s)
      BY DEF Whole, s
    <3> QED
      BY <1>2, <2>1, <3>1, <3>2, NumbersStay
  <2> HIDE DEF line, before, object, here
  <2>6. CASE line.kind = "FETCH"
    <3>1. \/ afterLine(object, line) = object
          \/ object.num = line.num /\ afterLine(object, line) = [object EXCEPT !.uid = line.uid]
      BY <1>11, <2>3, <2>6, AfterFetchFields
    <3>2. line.uid \in before /\ line.num = NumberOf(line.uid, before)
      BY <2>3, <2>6 DEF Right
    <3>3. object.num = line.num => line.uid = object.id
      <4>1. line.uid \in here /\ NumberOf(line.uid, here) = line.num
        BY <2>5, <3>2
      <4>2. object.id \in here /\ object.num = NumberOf(object.id, here)
        BY <1>11
      <4>3. NumberOf(line.uid, here) = NumberOf(object.id, here) => line.uid = object.id
        BY <1>12, <4>1, <4>2, NamedType
      <4> QED
        BY <4>1, <4>2, <4>3
    <3>4. [object EXCEPT !.uid = object.uid] = object
      BY <1>11 DEF Objects
    <3>5. f[k] = object
      BY <1>11, <2>2, <3>1, <3>3, <3>4
    <3> QED
      BY <3>5
  <2>7. CASE line.kind # "FETCH"
    <3>1. f[k] = object
      BY <1>11, <2>2, <2>3, <2>4, <2>7, AfterLineType
    <3> QED
      BY <3>1
  <2> QED
    BY <2>6, <2>7
<1>15. 0..j \subseteq S
  <2> HIDE DEF S
  <2>1. j \in Nat
    BY <1>5
  <2> QED
    BY <2>1, <1>13, <1>14, NumberInduction
<1>16. f[j] = object
  BY <1>5, <1>15
<1> QED
  BY <1>11, <1>16 DEF RightAfter, Over, s

-----------------------------------------------------------------------------
(***************************************************************************)
(* The stream in each step                                                 *)
(***************************************************************************)
\* The stream goes on being right, and those who are gone stay gone.
StreamStays ==
  /\ connected' => connected /\ Whole(view', Stream', told', mailbox', nextUid')
  /\ connected' => \A uid \in AnyUid :
       Departed(uid, 0, view, Stream, mailbox, nextUid) =>
         Departed(uid, 0, view', Stream', mailbox', nextUid')

\* The stream is a sequence of lines, of which the response takes the next.
LEMMA StreamType ==
  ASSUME TypeInv
  PROVE  /\ Stream \in Seq(Lines) /\ response \in Seq(Lines) /\ wire \in Seq(Lines) /\ view \in Views
         /\ told \in Views /\ nextUid \in Nat
         /\ wire # <<>> => /\ Stream = Append(response, Line) \o Tail(wire)
                           /\ Append(response, Line) \in Seq(Lines) /\ Tail(wire) \in Seq(Lines)
                           /\ Line \in Lines
<1>1. response \in Seq(Lines) /\ wire \in Seq(Lines) /\ view \in Views /\ told \in Views
      /\ nextUid \in Nat
  BY MailboxFields DEF TypeInv, CallType, MailboxType, FolderType
<1>2. Stream \in Seq(Lines)
  BY <1>1, ConcatProperties DEF Stream
<1>3. wire # <<>> => /\ Append(response, Line) \in Seq(Lines) /\ Tail(wire) \in Seq(Lines)
                     /\ Line \in Lines
  BY <1>1, AppendProperties, HeadTailProperties DEF Line
<1>4. ASSUME wire # <<>>
      PROVE  Stream = Append(response, Line) \o Tail(wire)
  <2>1. Append(response, Line) = response \o <<Line>> /\ <<Line>> \in Seq(Lines)
    BY <1>1, <1>3, <1>4, AppendIsConcat
  <2>2. (response \o <<Line>>) \o Tail(wire) = response \o (<<Line>> \o Tail(wire))
    BY <1>1, <1>3, <1>4, <2>1, ConcatAssociative
  <2>3. <<Line>> \o Tail(wire) = wire
    BY <1>1, <1>4 DEF Line
  <2> QED
    BY <2>1, <2>2, <2>3 DEF Stream
<1> QED
  BY <1>1, <1>2, <1>3, <1>4

\* A line that tells of no change is right.
LEMMA StatedLine ==
  ASSUME TypeInv, NEW line \in Lines, line.view = told, line.kind \notin {"EXISTS", "EXPUNGE"},
         line.kind = "FETCH" => line.uid \in told /\ line.num = NumberOf(line.uid, told)
  PROVE  Right(told, line)
  BY DEF Right

\* What the server says and does.
LineSent(line) ==
  /\ mailbox' = mailbox /\ nextUid' = nextUid /\ wire' = Append(wire, line) /\ told' = line.view
  /\ line \in Lines /\ Right(told, line) /\ \A u \in told' \ told : u \in mailbox
  /\ \A u \in told', w \in mailbox \ told' : u < w
  /\ line.kind = "EXPUNGE" => line.uid \notin mailbox /\ line.uid < nextUid
MailboxMoved ==
  /\ wire' = wire /\ told' = told /\ nextUid <= nextUid'
  /\ \A w \in mailbox' : w \in mailbox \/ (w \in Nat /\ nextUid <= w)

\* Every step of the server is one of these.
LEMMA ServerSpeaks ==
  ASSUME TypeInv, StreamInv, Server
  PROVE  connected /\ (MailboxMoved \/ \E line \in Lines : LineSent(line))
<1>1. /\ requests # <<>> /\ connected /\ MailboxType /\ MailboxType'
      /\ told \in Views /\ told' \in Views /\ nextUid \in Nat /\ Request \in Requests
  BY ServerMailboxType, MailboxFields DEF TypeInv, CallType, MailboxType
<1>2. \A u \in told, w \in mailbox \ told : u < w
  BY <1>1 DEF StreamInv, Whole
<1>3. \A line : Send(line) => wire' = Append(wire, line)
  BY DEF Send
<1>4. ASSUME mailbox' = mailbox, nextUid' = nextUid, told' = told, NEW line \in Lines, Send(line),
             line.view = told, line.kind \notin {"EXISTS", "EXPUNGE"},
             line.kind = "FETCH" => line.uid \in told /\ line.num = NumberOf(line.uid, told)
      PROVE  LineSent(line)
  BY <1>2, <1>3, <1>4, StatedLine DEF LineSent
<1>5. CASE tellExists
  <2> DEFINE line == Exists(toldCount', told')
  <2>1. told' = told \cup mailbox /\ toldCount' = Cardinality(told') /\ wire' = Append(wire, line)
        /\ mailbox' = mailbox /\ nextUid' = nextUid
    BY <1>3, <1>5 DEF tellExists, mailVars
  <2>2. line \in Lines /\ line.kind = "EXISTS" /\ line.view = told' /\ line.num = toldCount'
    <3>1. toldCount' \in Nat
      BY <1>1 DEF MailboxType
    <3> QED
      BY <1>1, <3>1, LinesMade DEF Exists, MailboxType
  <2> HIDE DEF line
  <2>3. Right(told, line)
    BY <1>2, <2>1, <2>2 DEF Right
  <2> QED
    BY <1>1, <2>1, <2>2, <2>3 DEF LineSent
<1>6. CASE tellExpunged
  <2>1. PICK uid \in told \ mailbox :
          told' = told \ {uid} /\ Send(Expunged(NumberOf(uid, told), uid, told'))
    BY <1>6 DEF tellExpunged
  <2> DEFINE line == Expunged(NumberOf(uid, told), uid, told')
  <2>2. wire' = Append(wire, line) /\ mailbox' = mailbox /\ nextUid' = nextUid
    BY <1>3, <1>6, <2>1 DEF tellExpunged, mailVars
  <2>3. uid \in Uids /\ NumberOf(uid, told) \in Nat /\ uid < nextUid
    BY <1>1, <2>1, NumberType, MailboxFields DEF MailboxType
  <2>4. line \in Lines /\ line.kind = "EXPUNGE" /\ line.view = told' /\ line.uid = uid
        /\ line.num = NumberOf(uid, told)
    BY <1>1, <2>3, LinesMade DEF Expunged, MailboxType
  <2> HIDE DEF line
  <2>5. Right(told, line)
    BY <2>1, <2>4 DEF Right
  <2> QED
    BY <1>1, <1>2, <2>1, <2>2, <2>3, <2>4, <2>5 DEF LineSent
<1>7. CASE performStore \/ performFetch \/ performOther
  <2>1. wire' = wire /\ told' = told /\ mailbox' = mailbox /\ nextUid' = nextUid
    BY <1>7 DEF performStore, performFetch, performOther, mailVars
  <2> QED
    BY <1>1, <2>1 DEF MailboxMoved
<1>8. CASE performExpunge
  BY <1>1, <1>8 DEF performExpunge, MailboxMoved
<1>9. CASE takeLiteral
  <2>1. nextUid' = nextUid + 1 /\ mailbox' = mailbox \cup {nextUid} /\ wire' = wire /\ told' = told
    BY <1>9 DEF takeLiteral
  <2> QED
    BY <1>1, <2>1 DEF MailboxMoved
<1>10. CASE tellTarget
  <2>1. mailbox' = mailbox /\ nextUid' = nextUid /\ told' = told
    BY <1>10 DEF tellTarget, mailVars
  <2>2. CASE wire' = wire
    BY <1>1, <2>1, <2>2 DEF MailboxMoved
  <2>3. CASE wire' # wire
    <3> DEFINE uid == CHOOSE u \in Target : TRUE
               line == Fetch(NumberOf(uid, told), uid, Request.op # "STORE")
    <3>1. Send(line) /\ Target # {}
      BY <1>10, <2>3 DEF tellTarget
    <3>2. uid \in Target /\ Target \subseteq told
      BY <3>1 DEF Target
    <3> HIDE DEF uid
    <3>3. uid \in Uids /\ NumberOf(uid, told) \in Nat /\ (Request.op # "STORE") \in BOOLEAN
      BY <1>1, <3>2, MailboxFields, NumberType
    <3>4. line \in Lines /\ line.view = told /\ line.kind = "FETCH" /\ line.uid = uid
          /\ line.num = NumberOf(uid, told)
      BY <1>1, <3>3, LinesMade DEF Fetch
    <3> HIDE DEF line
    <3>5. LineSent(line)
      BY <1>4, <2>1, <3>1, <3>2, <3>4
    <3> QED
      BY <1>1, <3>4, <3>5
  <2> QED
    BY <2>2, <2>3
<1>11. CASE performAppend
  <2>1. mailbox' = mailbox /\ nextUid' = nextUid /\ told' = told /\ Send(Continue)
    BY <1>11 DEF performAppend, mailVars
  <2>2. Continue \in Lines /\ Continue.view = told /\ Continue.kind = "CONTINUE"
    BY <1>1, LinesMade DEF Continue
  <2>3. LineSent(Continue)
    BY <1>4, <2>1, <2>2
  <2> QED
    BY <1>1, <2>2, <2>3
<1>12. CASE performStatus
  <2> DEFINE line == Status(Cardinality(mailbox))
  <2>1. mailbox' = mailbox /\ nextUid' = nextUid /\ told' = told /\ Send(line)
    BY <1>12 DEF performStatus, mailVars
  <2>2. line \in Lines /\ line.view = told /\ line.kind = "STATUS"
    BY <1>1, LinesMade, MailboxFields DEF Status
  <2> HIDE DEF line
  <2>3. LineSent(line)
    BY <1>4, <2>1, <2>2
  <2> QED
    BY <1>1, <2>2, <2>3
<1>13. CASE refuseLiteral \/ complete \/ refuse
  <2>1. PICK ok \in BOOLEAN : Send(Done(Request, ok))
    BY <1>13 DEF refuseLiteral, complete, refuse, Completed
  <2>2. mailbox' = mailbox /\ nextUid' = nextUid /\ told' = told
    BY <1>13 DEF refuseLiteral, complete, refuse, Completed, mailVars
  <2>3. Done(Request, ok) \in Lines /\ Done(Request, ok).view = told /\ Done(Request, ok).kind = "DONE"
    BY <1>1, <2>1, LinesMade DEF Done
  <2>4. LineSent(Done(Request, ok))
    BY <1>4, <2>1, <2>2, <2>3
  <2> QED
    BY <1>1, <2>3, <2>4
<1> QED
  BY <1>5, <1>6, <1>7, <1>8, <1>9, <1>10, <1>11, <1>12, <1>13 DEF Server

\* The stream stays right, whatever the server and other clients do.
LEMMA EnvironmentStream ==
  ASSUME TypeInv, StreamInv, Environment
  PROVE  StreamStays /\ view' = view /\ m_messages' = m_messages /\ missed' = missed
<1>1. /\ view' = view /\ response' = response /\ m_messages' = m_messages /\ missed' = missed
      /\ connected' = connected
  BY DEF Environment, history, callVars, folderVars, connectionVars
<1>2. connected /\ (MailboxMoved \/ \E line \in Lines : LineSent(line))
  <2>1. CASE Server
    BY <2>1, ServerSpeaks
  <2>2. CASE OtherClients
    <3>1. requests # <<>> /\ UNCHANGED sessionVars
      BY <2>2, OtherMailboxType DEF TypeInv
    <3>2. connected /\ wire' = wire /\ told' = told
      BY <3>1 DEF TypeInv, CallType, sessionVars
    <3>3. nextUid \in Nat
      BY StreamType
    <3>4. CASE arrive
      <4>1. nextUid' = nextUid + 1 /\ mailbox' = mailbox \cup {nextUid}
        BY <3>4 DEF arrive
      <4> QED
        BY <3>2, <3>3, <4>1 DEF MailboxMoved
    <3>5. CASE vanish
      <4>1. nextUid' = nextUid /\ mailbox' \subseteq mailbox
        BY <3>5 DEF vanish
      <4> QED
        BY <3>2, <3>3, <4>1 DEF MailboxMoved
    <3> QED
      BY <2>2, <3>4, <3>5 DEF OtherClients
  <2> QED
    BY <2>1, <2>2 DEF Environment
<1>3. PICK s \in Seq(Lines), v \in Views, t \in Views, next \in Nat, box \in {mailbox} :
        s = Stream /\ v = view /\ t = told /\ box = mailbox /\ next = nextUid
  BY StreamType
<1>4. Whole(v, s, t, box, next)
  BY <1>2, <1>3 DEF StreamInv
<1>5. CASE MailboxMoved
  <2>1. PICK next2 \in Nat, box2 \in {mailbox'} : box2 = mailbox' /\ next2 = nextUid'
    <3>1. nextUid' \in 1..(MaxUid + 1)
      BY EnvironmentType DEF TypeInv, MailboxType
    <3>2. nextUid' \in Nat
      BY <3>1, MailboxAssumption
    <3> QED
      BY <3>2
  <2>2. next <= next2 /\ \A w \in box2 : w \in box \/ (w \in Nat /\ next <= w)
    BY <1>3, <1>5, <2>1 DEF MailboxMoved
  <2>3. \A u \in t : u < next
    BY <1>3 DEF TypeInv, MailboxType
  <2>4. /\ Whole(v, s, t, box2, next2)
        /\ \A uid \in AnyUid : Departed(uid, 0, v, s, box, next) => Departed(uid, 0, v, s, box2, next2)
    BY <1>4, <2>2, <2>3, MailboxMoves
  <2>5. Stream' = s /\ told' = t /\ view' = v
    BY <1>1, <1>3, <1>5 DEF MailboxMoved, Stream
  <2> QED
    BY <1>1, <1>2, <1>3, <2>1, <2>4, <2>5 DEF StreamStays
<1>6. ASSUME NEW line \in Lines, LineSent(line)
      PROVE  StreamStays
  <2>1. Right(t, line) /\ (\A u \in line.view \ t : u \in box)
        /\ (\A u \in line.view, w \in box \ line.view : u < w)
        /\ (line.kind = "EXPUNGE" => line.uid \notin box /\ line.uid < next)
    BY <1>3, <1>6 DEF LineSent
  <2>2. /\ Whole(v, Append(s, line), line.view, box, next)
        /\ \A uid : Departed(uid, 0, v, s, box, next) => Departed(uid, 0, v, Append(s, line), box, next)
    BY <1>4, <2>1, StreamGrows
  <2>3. Stream' = Append(s, line)
    <3>1. response \in Seq(Lines) /\ wire \in Seq(Lines) /\ <<line>> \in Seq(Lines)
          /\ Stream \in Seq(Lines)
      BY StreamType
    <3>2. wire' = wire \o <<line>>
      BY <1>6, <3>1, AppendIsConcat DEF LineSent
    <3>3. response \o (wire \o <<line>>) = (response \o wire) \o <<line>>
      BY <3>1, ConcatAssociative
    <3>4. Append(Stream, line) = Stream \o <<line>>
      BY <3>1, AppendIsConcat
    <3> QED
      BY <1>1, <1>3, <3>2, <3>3, <3>4 DEF Stream
  <2>4. told' = line.view /\ mailbox' = box /\ nextUid' = next /\ view' = v
    BY <1>1, <1>3, <1>6 DEF LineSent
  <2> QED
    BY <1>1, <1>2, <1>3, <2>2, <2>3, <2>4 DEF StreamStays
<1> QED
  BY <1>1, <1>2, <1>5, <1>6

\* What is learnt is what the lines read so far say.
LEMMA LearnIs ==
  ASSUME TypeInv, Learn
  PROVE  view' = After(view, response, Len(response))
<1>1. response \in Seq(Lines)
  BY StreamType
<1>2. CASE response = <<>>
  <2>1. Len(response) = 0
    BY <1>2
  <2> QED
    BY <1>2, <2>1 DEF Learn, After
<1>3. CASE response # <<>>
  <2>1. Len(response) # 0
    BY <1>1, <1>3, EmptySeq
  <2> QED
    BY <1>3, <2>1 DEF Learn, After
<1> QED
  BY <1>2, <1>3

\* When nothing is missed of a response that is not acted on, it told of nothing.
LEMMA MissIs ==
  ASSUME TypeInv, Miss, ~missed'
  PROVE  ~missed /\ view' = view /\ \A i \in 1..Len(response) : response[i].view = view
<1>1. response \in Seq(Lines) /\ DOMAIN response = 1..Len(response)
  BY StreamType, LenProperties
<1>2. ~missed /\ \A i \in 1..Len(response) : response[i].view = view
  BY <1>1 DEF Miss
<1>3. view' = view
  <2>1. response # <<>> => Len(response) \in 1..Len(response)
    BY <1>1, EmptySeq
  <2> QED
    BY <1>2, <2>1 DEF Miss, Learn
<1> QED
  BY <1>2, <1>3

\* A response is over, and what of it has been read is learnt.
ResponseOver ==
  /\ connected /\ connected' /\ Learn /\ response' = <<>>
  /\ mailbox' = mailbox /\ nextUid' = nextUid /\ told' = told
  /\ \/ wire' = wire
     \/ wire # <<>> /\ Ends(Line) /\ wire' = Tail(wire)

\* What is left of the stream is right after what has been learnt.
LEMMA ResponseOverStream ==
  ASSUME TypeInv, StreamInv, ResponseOver
  PROVE  /\ Whole(view', Stream', told', mailbox', nextUid')
         /\ view' = After(view, Stream, Len(response))
         /\ \A uid : \A k \in 0..Len(response) :
              Departed(uid, k, view, Stream, mailbox, nextUid) =>
                Departed(uid, 0, view', Stream', mailbox', nextUid')
<1>1. PICK s \in Seq(Lines), r \in Seq(Lines), w \in Seq(Lines), v \in Views :
        s = Stream /\ r = response /\ w = wire /\ v = view
  BY StreamType
<1>2. s = r \o w
  BY <1>1 DEF Stream
<1>3. Whole(v, r \o w, told, mailbox, nextUid)
  BY <1>1, <1>2 DEF StreamInv, ResponseOver
<1>4. PICK n \in Nat : n = Len(r)
  BY LenProperties
<1>5. n \in 0..n
  BY <1>4
<1>6. \A k \in 0..n : After(v, s, k) = After(v, r, k)
  BY <1>2, <1>3, <1>4, StreamIsRead
<1>7. view' = After(v, s, n)
  BY <1>1, <1>4, <1>5, <1>6, LearnIs DEF ResponseOver
<1>8. Stream' = wire'
  <2>1. wire' \in Seq(Lines)
    BY StreamType DEF ResponseOver
  <2> QED
    BY <2>1, ConcatEmptySeq DEF ResponseOver, Stream
<1>9. PICK v2 \in {view'} : v2 = view'
  OBVIOUS
<1>10. CASE wire' = wire
  <2>1. /\ Whole(v2, w, told, mailbox, nextUid)
        /\ \A uid : \A k \in 0..n : Departed(uid, k, v, r \o w, mailbox, nextUid) =>
                                Departed(uid, 0, v2, w, mailbox, nextUid)
    <3>1. v2 = After(v, r \o w, Len(r))
      BY <1>2, <1>4, <1>7, <1>9
    <3> QED
      BY <1>3, <1>4, <3>1, StreamIsRead
  <2> QED
    BY <1>1, <1>2, <1>4, <1>7, <1>8, <1>9, <1>10, <2>1 DEF ResponseOver
<1>11. CASE wire # <<>> /\ Ends(Line) /\ wire' = Tail(wire)
  <2> DEFINE line == Line
             p == Append(r, line)
             q == Tail(w)
  <2>1. s = p \o q /\ p \in Seq(Lines) /\ q \in Seq(Lines) /\ line \in Lines
    BY <1>1, <1>11, StreamType
  <2>2. Len(p) = n + 1 /\ p[n + 1] = line
    BY <1>4, <2>1, AppendProperties
  <2>3. line.kind \in {"DONE", "CONTINUE"}
    BY <1>11 DEF Ends
  <2>4. Stream' = q
    BY <1>1, <1>8, <1>11
  <2> HIDE DEF p, q, line
  <2>5. Whole(v, p \o q, told, mailbox, nextUid)
    BY <1>2, <1>3, <2>1
  <2>6. \A k \in 0..Len(p) : After(v, s, k) = After(v, p, k)
    BY <2>1, <2>5, StreamIsRead
  <2>7. After(v, s, n + 1) = line.view
    <3>1. n + 1 \in 0..Len(p) /\ n + 1 # 0
      BY <1>4, <2>2
    <3> QED
      BY <2>2, <2>6, <3>1 DEF After
  <2>8. line.view = v2
    <3>1. PICK m \in Nat : m = Len(q)
      BY <2>1, LenProperties
    <3>2. Len(s) = (n + 1) + m /\ \A i \in 1..((n + 1) + m) : i <= n + 1 => s[i] = p[i]
      BY <2>1, <2>2, <3>1, ConcatProperties
    <3>3. n + 1 \in 1..((n + 1) + m) /\ n + 1 <= n + 1 /\ (n + 1) - 1 = n
      BY <1>4, <3>1
    <3>4. s[n + 1] = line
      BY <2>2, <3>2, <3>3
    <3>5. Right(After(v, s, n), line)
      BY <2>1, <2>5, <3>2, <3>3, <3>4 DEF Whole, Chain
    <3> QED
      BY <1>7, <1>9, <2>3, <3>5 DEF Right
  <2>9. v2 = After(v, p \o q, Len(p))
    BY <2>1, <2>2, <2>7, <2>8
  <2>10. /\ Whole(v2, q, told, mailbox, nextUid)
         /\ \A uid : \A k \in 0..Len(p) : Departed(uid, k, v, p \o q, mailbox, nextUid) =>
                                      Departed(uid, 0, v2, q, mailbox, nextUid)
    BY <2>1, <2>5, <2>9, StreamIsRead
  <2>11. \A k \in 0..n : k \in 0..Len(p)
    BY <1>4, <2>2
  <2> QED
    BY <1>1, <1>4, <1>7, <1>9, <2>1, <2>4, <2>10, <2>11, SMTT(60) DEF ResponseOver
<1> QED
  BY <1>10, <1>11 DEF ResponseOver

\* The stream stays right when a response is over.
LEMMA ResponseOverStays ==
  ASSUME TypeInv, StreamInv, ResponseOver
  PROVE  StreamStays
<1>1. 0 \in 0..Len(response)
  BY StreamType, LenProperties
<1>2. Whole(view', Stream', told', mailbox', nextUid')
  BY ResponseOverStream
<1>3. \A uid : Departed(uid, 0, view, Stream, mailbox, nextUid) =>
               Departed(uid, 0, view', Stream', mailbox', nextUid')
  BY <1>1, ResponseOverStream
<1> QED
  BY <1>2, <1>3 DEF StreamStays, ResponseOver

-----------------------------------------------------------------------------
(***************************************************************************)
(* The message objects in each step                                        *)
(***************************************************************************)
\* An object that is left alone while the view stays as it is.
LEMMA ObjectStays ==
  ASSUME StreamStays, view' = view, NEW object \in Objects,
         ObjectRight(object, connected, view, Stream, mailbox, nextUid)
  PROVE  ObjectRight(object, connected', view', Stream', mailbox', nextUid')
<1>1. object.id \in AnyUid
  BY ObjectFields
<1>2. Naming(object, view')
  BY DEF ObjectRight
<1>3. ASSUME connected', object.id # NoUid, object.expunged
      PROVE  Departed(object.id, 0, view', Stream', mailbox', nextUid')
  <2>1. Departed(object.id, 0, view, Stream, mailbox, nextUid)
    BY <1>3 DEF ObjectRight, Over, StreamStays
  <2> QED
    BY <1>1, <1>3, <2>1 DEF StreamStays
<1> QED
  BY <1>2, <1>3 DEF ObjectRight, Over

\* The objects that there are are objects.
LEMMA ObjectsType ==
  ASSUME TypeInv
  PROVE  /\ m_messages \in Seq(Objects) /\ DOMAIN m_messages = 1..Len(m_messages)
         /\ \A i \in DOMAIN m_messages : m_messages[i] \in Objects
<1>1. m_messages \in Seq(Objects) /\ DOMAIN m_messages = 1..Len(m_messages)
  BY LenProperties DEF TypeInv, FolderType
<1> QED
  BY <1>1, ElementOfSeq

\* The objects that are left alone.
LEMMA ObjectsStay ==
  ASSUME TypeInv, ObjectInv, StreamStays, view' = view, m_messages' = m_messages, missed => missed'
  PROVE  ObjectInv'
  BY ObjectsType, ObjectStays DEF ObjectInv

\* An object that is right after the whole of a response is right from then on.
LEMMA RightWhenOver ==
  ASSUME TypeInv, StreamInv, ResponseOver, NEW object,
         RightAfter(object, Len(response), view, Stream, mailbox, nextUid)
  PROVE  ObjectRight(object, connected', view', Stream', mailbox', nextUid')
<1>1. Len(response) \in 0..Len(response)
  BY StreamType, LenProperties
<1>2. view' = After(view, Stream, Len(response))
  BY ResponseOverStream
<1>3. Naming(object, view')
  BY <1>2 DEF RightAfter
<1>4. Over(object, 0, view', Stream', mailbox', nextUid')
  <2> SUFFICES ASSUME object.id # NoUid, object.expunged
               PROVE  Departed(object.id, 0, view', Stream', mailbox', nextUid')
    BY DEF Over
  <2>1. Departed(object.id, Len(response), view, Stream, mailbox, nextUid)
    BY DEF RightAfter, Over
  <2> QED
    BY <1>1, <2>1, ResponseOverStream
<1> QED
  BY <1>3, <1>4 DEF ObjectRight

\* The object takes part in the response.
LEMMA ObjectIsTold ==
  ASSUME TypeInv, StreamInv, ResponseOver, NEW object \in Objects,
         ObjectRight(object, connected, view, Stream, mailbox, nextUid)
  PROVE  ObjectRight(processUntagged(object), connected', view', Stream', mailbox', nextUid')
<1>1. PICK r \in Seq(Lines), w \in Seq(Lines), v \in Views : r = response /\ w = wire /\ v = view
  BY StreamType
<1>2. PICK f : Processed(f, object, r) /\ processUntagged(object) = f[Len(r)]
  BY <1>1, Processing
<1>3. Whole(v, r \o w, told, mailbox, nextUid)
  BY <1>1 DEF StreamInv, ResponseOver, Stream
<1>4. RightAfter(f[0], 0, v, r \o w, mailbox, nextUid)
  <2>1. f[0] = object
    BY <1>2 DEF Processed
  <2>2. Naming(object, v) /\ Over(object, 0, v, r \o w, mailbox, nextUid)
    BY <1>1 DEF ObjectRight, ResponseOver, Stream
  <2>3. After(v, r \o w, 0) = v
    BY DEF After
  <2> QED
    BY <2>1, <2>2, <2>3 DEF RightAfter
<1>5. 0 \in 0..Len(r)
  BY LenProperties
<1>6. RightAfter(f[Len(r)], Len(r), v, r \o w, mailbox, nextUid)
  BY <1>2, <1>3, <1>4, <1>5, LinesKeep
<1>7. RightAfter(processUntagged(object), Len(response), view, Stream, mailbox, nextUid)
  BY <1>1, <1>2, <1>6 DEF Stream
<1> QED
  BY <1>7, RightWhenOver

\* So does a new object, if no EXPUNGE comes before the line it is made for.
LEMMA MadeIsTold ==
  ASSUME TypeInv, StreamInv, ResponseOver, NEW j \in 1..Len(response), Tells(response[j]),
         \A i \in 1..(j - 1) : response[i].kind # "EXPUNGE"
  PROVE  ObjectRight(processUntagged(Made(response[j])), connected', view', Stream', mailbox', nextUid')
<1>1. PICK r \in Seq(Lines), w \in Seq(Lines), v \in Views : r = response /\ w = wire /\ v = view
  BY StreamType
<1>2. Made(r[j]) \in Objects
  BY <1>1, MadeType, ElementOfSeq
<1>3. PICK f : Processed(f, Made(r[j]), r) /\ processUntagged(Made(r[j])) = f[Len(r)]
  BY <1>1, <1>2, Processing
<1>4. Whole(v, r \o w, told, mailbox, nextUid)
  BY <1>1 DEF StreamInv, ResponseOver, Stream
<1>5. j \in 1..Len(r) /\ Tells(r[j]) /\ \A i \in 1..(j - 1) : r[i].kind # "EXPUNGE"
  BY <1>1
<1>6. RightAfter(f[j], j, v, r \o w, mailbox, nextUid)
  BY <1>3, <1>4, <1>5, MadeStays
<1>7. j \in 0..Len(r)
  BY <1>5, LenProperties
<1>8. RightAfter(f[Len(r)], Len(r), v, r \o w, mailbox, nextUid)
  BY <1>3, <1>4, <1>6, <1>7, LinesKeep
<1>9. RightAfter(processUntagged(Made(response[j])), Len(response), view, Stream, mailbox, nextUid)
  BY <1>1, <1>3, <1>8 DEF Stream
<1> QED
  BY <1>9, RightWhenOver

\* A new object for a line of a response that tells of no change.
LEMMA MadeIsRightNow ==
  ASSUME TypeInv, StreamInv, ResponseOver, view' = view, NEW j \in 1..Len(response),
         Tells(response[j]), \A i \in 1..Len(response) : response[i].view = view
  PROVE  ObjectRight(Made(response[j]), connected', view', Stream', mailbox', nextUid')
<1>1. PICK r \in Seq(Lines), w \in Seq(Lines), v \in Views : r = response /\ w = wire /\ v = view
  BY StreamType
<1>2. PICK n \in Nat, m \in Nat : n = Len(r) /\ m = Len(w)
  BY LenProperties
<1>3. Len(r \o w) = n + m /\ \A i \in 1..(n + m) : i <= n => (r \o w)[i] = r[i]
  BY <1>2, ConcatProperties
<1>4. j \in 1..n /\ j \in 1..(n + m) /\ j <= n /\ (r \o w)[j] = r[j]
  BY <1>1, <1>2, <1>3
<1>5. After(v, r \o w, j - 1) = v
  <2>1. CASE j - 1 = 0
    BY <2>1 DEF After
  <2>2. CASE j - 1 # 0
    <3>1. j - 1 \in 1..n /\ j - 1 \in 1..(n + m) /\ j - 1 <= n
      BY <1>2, <1>4, <2>2
    <3>2. (r \o w)[j - 1] = r[j - 1] /\ r[j - 1].view = v
      BY <1>1, <1>2, <1>3, <3>1
    <3> QED
      BY <2>2, <3>2 DEF After
  <2> QED
    BY <2>1, <2>2
<1>6. Whole(v, r \o w, told, mailbox, nextUid)
  BY <1>1 DEF StreamInv, ResponseOver, Stream
<1>7. Right(v, r[j]) /\ r[j] \in Lines /\ Tells(r[j])
  BY <1>1, <1>2, <1>3, <1>4, <1>5, <1>6, ElementOfSeq DEF Whole, Chain
<1>8. Naming(Made(r[j]), v) /\ ~Made(r[j]).expunged
  BY <1>7, MadeIsRight
<1> QED
  BY <1>1, <1>8 DEF ObjectRight, Over

\* What becomes of the objects at the end of a response.
LEMMA AllAreTold ==
  ASSUME TypeInv, StreamInv, ObjectInv, ResponseOver, processStatusUpdate(m_messages),
         missed => missed'
  PROVE  ObjectInv'
<1> SUFFICES ASSUME ~missed', NEW i \in DOMAIN m_messages'
             PROVE  ObjectRight(m_messages'[i], connected', view', Stream', mailbox', nextUid')
  BY DEF ObjectInv
<1>1. i \in DOMAIN m_messages /\ m_messages'[i] = processUntagged(m_messages[i])
  BY DEF processStatusUpdate
<1>2. ObjectRight(m_messages[i], connected, view, Stream, mailbox, nextUid)
  BY <1>1 DEF ObjectInv
<1> QED
  BY <1>1, <1>2, ObjectsType, ObjectIsTold

\* The new objects of getAndFetchMessages are told with the others.
LEMMA AllAndNewAreTold ==
  ASSUME TypeInv, StreamInv, ObjectInv, ResponseOver, processStatusUpdate(m_messages \o Fetched),
         missed' = (missed \/ \E i, j \in DOMAIN response :
           i < j /\ response[i].kind = "EXPUNGE" /\ response[j].kind = "FETCH")
  PROVE  ObjectInv'
<1> SUFFICES ASSUME ~missed', NEW i \in DOMAIN m_messages'
             PROVE  ObjectRight(m_messages'[i], connected', view', Stream', mailbox', nextUid')
  BY DEF ObjectInv
<1>1. PICK a \in Seq(Objects), b \in Seq(Objects) : a = m_messages /\ b = Fetched
  <2>1. Fetched \in Seq(Objects)
    BY StreamType, ObjectsType, UpdateType DEF TypeInv, FolderType
  <2> QED
    BY <2>1, ObjectsType
<1>2. PICK n \in Nat, m \in Nat : n = Len(a) /\ m = Len(b)
  BY LenProperties
<1>3. /\ a \o b \in Seq(Objects) /\ Len(a \o b) = n + m
      /\ \A k \in 1..(n + m) : (a \o b)[k] = IF k <= n THEN a[k] ELSE b[k - n]
  BY <1>2, ConcatProperties
<1>4. m_messages' = [k \in DOMAIN (a \o b) |-> processUntagged((a \o b)[k])]
  BY <1>1 DEF processStatusUpdate
<1>5. i \in 1..(n + m) /\ m_messages'[i] = processUntagged((a \o b)[i])
  BY <1>3, <1>4, LenProperties
<1>6. CASE i <= n
  <2>1. m_messages'[i] = processUntagged(m_messages[i]) /\ i \in DOMAIN m_messages
    BY <1>1, <1>2, <1>3, <1>5, <1>6, LenProperties
  <2>2. ObjectRight(m_messages[i], connected, view, Stream, mailbox, nextUid)
    BY <2>1 DEF ObjectInv
  <2> QED
    BY <2>1, <2>2, ObjectsType, ObjectIsTold
<1>7. CASE ~(i <= n)
  <2>1. i - n \in 1..m /\ i - n \in DOMAIN Fetched /\ m_messages'[i] = processUntagged(Fetched[i - n])
    BY <1>1, <1>2, <1>3, <1>5, <1>7, LenProperties
  <2>2. PICK j \in 1..Len(response) : Tells(response[j]) /\ Fetched[i - n] = Made(response[j])
    BY <2>1, StreamType, FetchedFromLines
  <2>3. \A k \in 1..(j - 1) : response[k].kind # "EXPUNGE"
    <3> SUFFICES ASSUME NEW k \in 1..(j - 1), response[k].kind = "EXPUNGE"
                 PROVE  FALSE
      OBVIOUS
    <3>1. k \in DOMAIN response /\ j \in DOMAIN response /\ k < j
      BY StreamType, LenProperties
    <3> QED
      BY <2>2, <3>1 DEF Tells
  <2>4. ObjectRight(processUntagged(Made(response[j])), connected', view', Stream', mailbox', nextUid')
    BY <2>2, <2>3, MadeIsTold
  <2> QED
    BY <2>1, <2>2, <2>4
<1> QED
  BY <1>6, <1>7

\* The new objects of getMessages take no part in the response.
LEMMA NewAreMade ==
  ASSUME TypeInv, StreamInv, ObjectInv, ResponseOver, Miss, m_messages' = m_messages \o Fetched
  PROVE  ObjectInv'
<1> SUFFICES ASSUME ~missed', NEW i \in DOMAIN m_messages'
             PROVE  ObjectRight(m_messages'[i], connected', view', Stream', mailbox', nextUid')
  BY DEF ObjectInv
<1>1. ~missed /\ view' = view /\ \A k \in 1..Len(response) : response[k].view = view
  BY MissIs
<1>2. PICK a \in Seq(Objects), b \in Seq(Objects) : a = m_messages /\ b = Fetched
  <2>1. Fetched \in Seq(Objects)
    BY StreamType, ObjectsType, UpdateType DEF TypeInv, FolderType
  <2> QED
    BY <2>1, ObjectsType
<1>3. PICK n \in Nat, m \in Nat : n = Len(a) /\ m = Len(b)
  BY LenProperties
<1>4. /\ a \o b \in Seq(Objects) /\ Len(a \o b) = n + m
      /\ \A k \in 1..(n + m) : (a \o b)[k] = IF k <= n THEN a[k] ELSE b[k - n]
  BY <1>3, ConcatProperties
<1>5. i \in 1..(n + m) /\ m_messages'[i] = (a \o b)[i]
  BY <1>2, <1>4, LenProperties
<1>6. CASE i <= n
  <2>1. m_messages'[i] = m_messages[i] /\ i \in DOMAIN m_messages
    BY <1>2, <1>3, <1>4, <1>5, <1>6, LenProperties
  <2>2. ObjectRight(m_messages[i], connected, view, Stream, mailbox, nextUid)
    BY <1>1, <2>1 DEF ObjectInv
  <2>3. StreamStays
    BY ResponseOverStays
  <2> QED
    BY <1>1, <2>1, <2>2, <2>3, ObjectsType, ObjectStays
<1>7. CASE ~(i <= n)
  <2>1. i - n \in DOMAIN Fetched /\ m_messages'[i] = Fetched[i - n]
    BY <1>2, <1>3, <1>4, <1>5, <1>7, LenProperties
  <2>2. PICK j \in 1..Len(response) : Tells(response[j]) /\ Fetched[i - n] = Made(response[j])
    BY <2>1, StreamType, FetchedFromLines
  <2>3. ObjectRight(Made(response[j]), connected', view', Stream', mailbox', nextUid')
    BY <1>1, <2>2, MadeIsRightNow
  <2> QED
    BY <2>1, <2>2, <2>3
<1> QED
  BY <1>6, <1>7

\* Every read but that of an untagged line is the end of a response.
LEMMA ReadsEndResponse ==
  ASSUME TypeInv, Reads, ~readUntagged
  PROVE  ResponseOver
<1>1. Reading /\ ~IdleNow /\ wire # <<>> /\ connected
  BY ReadingType
     DEF Reads, readUntagged, parkResponse, continueAppend, refused, done, doneUnscanned,
         doneGetMessages, doneGetAndFetch, OurReply, Reading, TypeInv
<1>2. connected' /\ response' = <<>> /\ Learn
  BY <1>1
     DEF Reads, parkResponse, continueAppend, refused, done, doneUnscanned, doneGetMessages,
         doneGetAndFetch, OurReply, Reset, Miss, connectionVars
<1>3. mailbox' = mailbox /\ nextUid' = nextUid /\ told' = told /\ wire' = Tail(wire) /\ Ends(Line)
  BY DEF Reads, parkResponse, continueAppend, refused, done, doneUnscanned, doneGetMessages,
         doneGetAndFetch, OurReply, Next1Line, mailVars, Ends
<1> QED
  BY <1>1, <1>2, <1>3 DEF ResponseOver

\* The inductive invariant for the stream and the objects, which need each other.
StreamNow == StreamInv /\ ObjectInv

\* A step that leaves the objects and the view alone.
LEMMA QuietSteps ==
  ASSUME TypeInv, StreamNow, StreamStays, view' = view, m_messages' = m_messages, missed => missed'
  PROVE  StreamNow'
<1>1. ObjectInv'
  BY ObjectsStay DEF StreamNow
<1>2. StreamInv'
  BY DEF StreamStays, StreamInv
<1> QED
  BY <1>1, <1>2 DEF StreamNow

\* A response that is not acted on.
LEMMA MissedResponse ==
  ASSUME TypeInv, StreamNow, ResponseOver, Miss, m_messages' = m_messages
  PROVE  StreamNow'
<1>1. StreamInv
  BY DEF StreamNow
<1>2. StreamStays
  BY <1>1, ResponseOverStays
<1>3. StreamInv'
  BY <1>2 DEF StreamStays, StreamInv
<1>4. CASE missed'
  BY <1>3, <1>4 DEF StreamNow, ObjectInv
<1>5. CASE ~missed'
  BY <1>2, <1>5, MissIs, QuietSteps
<1> QED
  BY <1>4, <1>5

\* Reading and what is done with a response.
LEMMA ReadsNow ==
  ASSUME TypeInv, StreamNow, Reads
  PROVE  StreamNow'
<1>1. StreamInv /\ ObjectInv
  BY DEF StreamNow
<1>2. CASE readUntagged
  <2>1. /\ wire # <<>> /\ response' = Append(response, Line) /\ wire' = Tail(wire)
        /\ connected' = connected /\ view' = view /\ missed' = missed /\ m_messages' = m_messages
        /\ told' = told /\ mailbox' = mailbox /\ nextUid' = nextUid
    BY <1>2 DEF readUntagged, Reading, Next1Line, connectionVars, history, folderVars, mailVars
  <2>2. Stream' = Stream
    <3>1. Stream = Append(response, Line) \o Tail(wire)
      BY <2>1, StreamType
    <3> QED
      BY <2>1, <3>1 DEF Stream
  <2> QED
    BY <1>1, <2>1, <2>2, QuietSteps DEF StreamStays, StreamInv
<1>3. CASE ~readUntagged
  <2>1. ResponseOver
    BY <1>3, ReadsEndResponse
  <2>2. StreamInv'
    BY <1>1, <2>1, ResponseOverStays DEF StreamStays, StreamInv
  <2>3. CASE parkResponse \/ refused \/ doneUnscanned
    BY <2>1, <2>3, MissedResponse DEF parkResponse, refused, doneUnscanned, folderVars
  <2>4. CASE continueAppend \/ done
    <3>1. processStatusUpdate(m_messages) /\ missed' = missed
      BY <2>4 DEF continueAppend, done
    <3> QED
      BY <1>1, <2>1, <2>2, <3>1, AllAreTold DEF StreamNow
  <2>5. CASE doneGetMessages
    <3>1. Miss /\ m_messages' = m_messages \o Fetched
      BY <2>5 DEF doneGetMessages
    <3> QED
      BY <1>1, <2>1, <2>2, <3>1, NewAreMade DEF StreamNow
  <2>6. CASE doneGetAndFetch
    BY <1>1, <2>1, <2>2, <2>6, AllAndNewAreTold DEF StreamNow, doneGetAndFetch
  <2> QED
    BY <1>3, <2>3, <2>4, <2>5, <2>6 DEF Reads
<1> QED
  BY <1>2, <1>3

\* getMessage makes an object that is right.
LEMMA NewObjectNow ==
  ASSUME TypeInv, StreamNow, NEW num \in 1..m_count, getMessage(num)
  PROVE  StreamNow'
<1>1. PICK v \in Views : v = view
  BY StreamType
<1>2. num \in Nat
  BY DEF TypeInv, FolderType
<1> DEFINE object == Object(num, NoUid, Means(num))
<1>3. /\ object \in Objects /\ object.id = Means(num) /\ object.num = num /\ object.uid = NoUid
      /\ ~object.expunged
  <2>1. Means(num) \in AnyUid /\ NoUid \in AnyUid
    BY MeantType, UidType
  <2> QED
    BY <1>2, <2>1, ObjectMade
<1>4. Means(num) # NoUid => Means(num) \in v /\ NumberOf(Means(num), v) = num
  BY <1>1, NamedType DEF Means
<1>5. Naming(object, v)
  <2> HIDE DEF object
  <2> QED
    BY <1>3, <1>4 DEF Naming
<1>6. Stream' = Stream /\ connected' = connected /\ view' = view /\ missed' = missed /\ told' = told
      /\ mailbox' = mailbox /\ nextUid' = nextUid /\ m_messages' = Append(m_messages, object)
  BY DEF getMessage, connectionVars, callVars, history, mailboxVars, mailVars, sessionVars, Stream
<1> HIDE DEF object
<1>7. StreamInv'
  BY <1>6 DEF StreamNow, StreamInv
<1>8. ASSUME ~missed', NEW i \in DOMAIN m_messages'
      PROVE  ObjectRight(m_messages'[i], connected', view', Stream', mailbox', nextUid')
  <2>1. \/ i \in DOMAIN m_messages /\ m_messages'[i] = m_messages[i]
        \/ m_messages'[i] = object
    BY <1>3, <1>6, <1>8, ObjectsType, AppendParts
  <2>2. CASE i \in DOMAIN m_messages /\ m_messages'[i] = m_messages[i]
    BY <1>6, <1>8, <2>2 DEF StreamNow, ObjectInv
  <2>3. CASE m_messages'[i] = object
    BY <1>1, <1>3, <1>5, <1>6, <2>3 DEF ObjectRight, Over
  <2> QED
    BY <2>1, <2>2, <2>3
<1> QED
  BY <1>7, <1>8 DEF StreamNow, ObjectInv

\* open begins a stream; objects of a session before have missed its response.
LEMMA OpenNow ==
  ASSUME TypeInv, StreamNow, NEW mode \in {"ro", "rw"}, open(mode)
  PROVE  StreamNow'
<1>1. response = <<>> /\ response' = <<>> /\ wire' = <<>>
  BY DEF open, NewConnection, TypeInv, CallType
<1>2. Stream' = <<>> /\ Len(<<>>) = 0
  BY <1>1 DEF Stream
<1>3. view' = mailbox /\ told' = mailbox /\ mailbox' = mailbox
  BY DEF open, Selected, mailVars
<1>4. Whole(view', Stream', told', mailbox', nextUid')
  <2>1. Len(Stream') = 0
    BY <1>2
  <2> QED
    BY <1>3, <2>1 DEF Whole, Chain, After
<1>5. ASSUME ~missed'
      PROVE  m_messages' = <<>>
  BY <1>5 DEF open, Selected
<1>6. DOMAIN <<>> = {}
  OBVIOUS
<1> QED
  BY <1>4, <1>5, <1>6 DEF StreamNow, StreamInv, ObjectInv

\* The stream and the objects in every step.
LEMMA StreamNext ==
  ASSUME TypeInv, StreamNow, [Next]_vars
  PROVE  StreamNow'
<1>1. StreamInv /\ ObjectInv
  BY DEF StreamNow
<1>2. ASSUME UNCHANGED <<connected, view, missed, response, wire, told, mailbox, nextUid, m_messages>>
      PROVE  StreamNow'
  <2>1. Stream' = Stream
    BY <1>2 DEF Stream
  <2>2. StreamStays
    BY <1>1, <1>2, <2>1 DEF StreamStays, StreamInv
  <2> QED
    BY <1>2, <2>2, QuietSteps
<1>3. CASE SendingCalls
  <2>1. PICK op, num, uid, meant, then : SendsOne(op, num, uid, meant, then)
    BY <1>3, CallsSend
  <2>2. /\ IdleNow /\ response' = <<>> /\ wire' = wire /\ told' = told /\ mailbox' = mailbox
        /\ nextUid' = nextUid /\ m_messages' = m_messages /\ connected' = connected
        /\ view' = view /\ missed' = missed
    BY <2>1 DEF SendsOne, sendCommand, folderVars, history, mailVars
  <2>3. response' = response
    BY <2>2 DEF TypeInv, CallType
  <2> QED
    BY <1>2, <2>2, <2>3
<1>4. CASE countsWhileClosed
  BY <1>2, <1>4 DEF countsWhileClosed, connectionVars, callVars, history, mailboxVars, mailVars,
                    sessionVars
<1>5. ASSUME NEW expunging \in BOOLEAN, close(expunging)
      PROVE  StreamNow'
  <2>1. ~connected' /\ m_messages' = <<>> /\ DOMAIN <<>> = {}
    BY <1>5 DEF close
  <2> QED
    BY <2>1 DEF StreamNow, StreamInv, ObjectInv
<1>6. CASE Environment
  BY <1>1, <1>6, EnvironmentStream, QuietSteps
<1>7. CASE timeOut
  <2>1. Miss /\ m_messages' = m_messages
    BY <1>7 DEF timeOut, folderVars
  <2>2. ResponseOver
    <3>1. connected
      BY <1>7, ReadingType DEF timeOut
    <3> QED
      BY <1>7, <3>1 DEF timeOut, Reset, Miss, connectionVars, mailboxVars, mailVars, sessionVars,
                        ResponseOver
  <2> QED
    BY <2>1, <2>2, MissedResponse
<1>8. CASE connectionLost
  <2>1. ~connected' /\ Miss /\ m_messages' = m_messages
    BY <1>8 DEF connectionLost, folderVars
  <2>2. StreamInv'
    BY <2>1 DEF StreamInv
  <2>3. ASSUME ~missed', NEW i \in DOMAIN m_messages'
        PROVE  ObjectRight(m_messages'[i], connected', view', Stream', mailbox', nextUid')
    <3>1. ~missed /\ view' = view
      BY <2>1, <2>3, MissIs
    <3> QED
      BY <1>1, <2>1, <2>3, <3>1 DEF ObjectInv, ObjectRight
  <2> QED
    BY <2>2, <2>3 DEF StreamNow, ObjectInv
<1>9. CASE UNCHANGED vars
  BY <1>2, <1>9 DEF vars, connectionVars, folderVars, callVars, history, mailboxVars, mailVars,
                    sessionVars
<1> QED
  BY <1>3, <1>4, <1>5, <1>6, <1>7, <1>8, <1>9, NextCases, OpenNow, NewObjectNow, ReadsNow

\* Every line is right where it stands, and every message object between lines.
THEOREM StreamInvariance == Spec => []StreamNow
<1>1. Init => StreamNow
  <2> SUFFICES ASSUME Init
               PROVE  StreamNow
    OBVIOUS
  <2>1. ~connected /\ m_messages = <<>> /\ DOMAIN <<>> = {}
    BY DEF Init
  <2> QED
    BY <2>1 DEF StreamNow, StreamInv, ObjectInv
<1> QED
  BY <1>1, StreamNext, IMAPInvariance, PTL DEF Spec

\* Message numbers go on naming the messages that they were given for.
THEOREM NumbersName == Spec => []NumberNamesMessage
<1>1. StreamNow => NumberNamesMessage
  BY DEF StreamNow, ObjectInv, ObjectRight, Naming, NumberNamesMessage
<1> QED
  BY <1>1, StreamInvariance, PTL

\* A message object learns the UID of its own message.
THEOREM UidsName == Spec => []UidNamesMessage
<1>1. StreamNow => UidNamesMessage
  BY DEF StreamNow, ObjectInv, ObjectRight, Naming, UidNamesMessage
<1> QED
  BY <1>1, StreamInvariance, PTL

-----------------------------------------------------------------------------
(***************************************************************************)
(* What a request names                                                    *)
(***************************************************************************)
\* A request that is sent names what is meant, and then it is the only one.
LEMMA SentIsApt ==
  ASSUME TypeInv, StreamNow, NEW op, NEW num, NEW uid, NEW meant, NEW then,
         SendsOne(op, num, uid, meant, then)
  PROVE  \E r \in Requests :
           /\ requests' = Append(requests, r) /\ told' = told
           /\ r.meant # NoUid => requests = <<>> /\ Apt(r, told)
<1>1. PICK v \in Views, count \in Nat : v = view /\ count = Cardinality(v)
  <2>1. PICK v \in Views : v = view
    BY StreamType
  <2> QED
    BY <2>1, ViewIsFinite
<1> DEFINE r == [op |-> op, tag |-> m_tag', num |-> num, uid |-> uid, meant |-> meant]
<1>2. /\ op \in Ops /\ num \in Nat /\ uid \in AnyUid /\ meant \in AnyUid
      /\ sendCommand(op, num, uid, meant, then)
  BY DEF SendsOne
<1>3. requests' = Append(requests, r) /\ told' = told
  BY <1>2 DEF sendCommand
<1>4. m_tag' \in Nat
  BY <1>2 DEF sendCommand, TypeInv, FolderType
<1>5. /\ r \in Requests /\ r.op = op /\ r.num = num /\ r.uid = uid /\ r.meant = meant
  BY <1>2, <1>4 DEF Requests
<1> HIDE DEF r
<1>6. ASSUME meant # NoUid
      PROVE  requests = <<>> /\ Apt(r, told)
  <2>1. ~missed /\ requests = <<>> /\ told = v
    BY <1>1, <1>6 DEF SendsOne, UpToDate
  <2>2. CASE op = "STORE" /\ meant = Means(num)
    <3>1. meant \in v /\ NumberOf(meant, v) = num
      BY <1>1, <1>6, <2>2, NamedType DEF Means
    <3> QED
      BY <1>5, <2>1, <2>2, <3>1 DEF Apt
  <2>3. ASSUME NEW object \in Range(m_messages), ~object.expunged, meant = object.id,
               \/ op = "STORE" /\ num = object.num
               \/ op = "UID STORE" /\ uid = object.uid
        PROVE  Apt(r, told)
    <3>1. \E i \in DOMAIN m_messages : object = m_messages[i]
      BY DEF Range
    <3>2. Naming(object, v)
      BY <1>1, <2>1, <3>1 DEF StreamNow, ObjectInv, ObjectRight
    <3>3. /\ meant \in v /\ NumberOf(meant, v) = object.num
          /\ object.uid \in {NoUid, meant}
      BY <1>6, <2>3, <3>2 DEF Naming
    <3>4. op = "UID STORE" => uid = meant
      BY <2>3, <3>3 DEF SendsOne
    <3> QED
      BY <1>5, <2>1, <2>3, <3>3, <3>4 DEF Apt
  <2> QED
    BY <1>6, <2>1, <2>2, <2>3 DEF SendsOne
<1> QED
  BY <1>3, <1>5, <1>6

\* The first of the requests, and what its kind tolerates.
LEMMA ServerKeepsApt ==
  ASSUME TypeInv, StreamNow, RequestInv, Server
  PROVE  RequestInv'
<1>1. /\ requests \in Seq(Requests) /\ DOMAIN requests = 1..Len(requests) /\ Len(requests) \in Nat
  BY LenProperties DEF TypeInv, MailboxType
<1>2. ASSUME told' = told
      PROVE  RequestInv'
  <2>1. CASE requests' = requests
    BY <1>2, <2>1 DEF RequestInv
  <2>2. ASSUME NEW h, Picked(h, requests', requests)
        PROVE  RequestInv'
    <3>1. ASSUME NEW i \in DOMAIN requests'
          PROVE  /\ Apt(requests'[i], told')
                 /\ i # 1 => requests'[i].meant = NoUid
      <4>1. h[i] \in DOMAIN requests /\ requests'[i] = requests[h[i]] /\ i <= h[i]
        BY <2>2, <3>1 DEF Picked
      <4>2. i # 1 => h[i] # 1
        <5>1. requests' \in Seq(Requests)
          BY ServerMailboxType DEF TypeInv, MailboxType
        <5>2. PICK r2 \in Seq(Requests) : r2 = requests'
          BY <5>1
        <5>3. i \in 1..Len(r2) /\ Len(r2) \in Nat
          BY <3>1, <5>2, LenProperties
        <5> QED
          BY <1>1, <4>1, <5>3
      <4> QED
        BY <1>2, <4>1, <4>2 DEF RequestInv
    <3> QED
      BY <3>1 DEF RequestInv
  <2> QED
    BY <2>1, <2>2, ServerAnswers DEF Untouched, LiteralTaken, Answered
<1>3. ASSUME requests' = requests,
             \A meant \in told : requests # <<>> /\ Request.op = "STORE" =>
               meant \in told' /\ NumberOf(meant, told') = NumberOf(meant, told)
      PROVE  RequestInv'
  <2> SUFFICES ASSUME NEW i \in DOMAIN requests
               PROVE  /\ Apt(requests[i], told')
                      /\ i # 1 => requests[i].meant = NoUid
    BY <1>3 DEF RequestInv
  <2>1. Apt(requests[i], told) /\ (i # 1 => requests[i].meant = NoUid)
    BY DEF RequestInv
  <2>2. CASE i = 1
    <3>1. requests # <<>> /\ Request = requests[1]
      BY <1>1, <2>2, EmptySeq, HeadTailProperties DEF Request
    <3> QED
      BY <1>3, <2>1, <2>2, <3>1 DEF Apt
  <2>3. CASE i # 1
    BY <2>1, <2>3 DEF Apt
  <2> QED
    BY <2>2, <2>3
<1>4. CASE tellExists
  <2>1. PICK v \in Views, w \in Views : v = told /\ w = told'
    <3>1. told \in Views /\ told' \in Views
      BY ServerMailboxType DEF TypeInv, MailboxType
    <3> QED
      BY <3>1
  <2>2. w = v \cup mailbox /\ requests' = requests
    BY <1>4, <2>1 DEF tellExists
  <2>3. \A u \in v, x \in mailbox \ v : u < x
    <3>1. connected
      BY <1>4 DEF tellExists, TypeInv, CallType
    <3> QED
      BY <2>1, <3>1 DEF StreamNow, StreamInv, Whole
  <2>4. v \subseteq w /\ \A u \in v, x \in w \ v : u < x
    BY <2>2, <2>3
  <2>5. \A meant \in v : meant \in w /\ NumberOf(meant, w) = NumberOf(meant, v)
    BY <2>4, ArrivalKeepsNumbers
  <2> QED
    BY <1>3, <2>1, <2>2, <2>5
<1>5. CASE tellExpunged
  <2>1. requests' = requests /\ Request.op # "STORE"
    BY <1>5 DEF tellExpunged, NumberedOps
  <2> QED
    BY <1>3, <2>1
<1>6. tellExists \/ tellExpunged \/ told' = told
  BY DEF Server, performStore, performFetch, tellTarget, performExpunge, performAppend,
         takeLiteral, refuseLiteral, performStatus, performOther, complete, refuse, Completed
<1> QED
  BY <1>2, <1>4, <1>5, <1>6

\* What is sent goes to the end.
LEMMA AptWhenSent ==
  ASSUME TypeInv, RequestInv, NEW r \in Requests, requests' = Append(requests, r), told' = told,
         r.meant # NoUid => requests = <<>> /\ Apt(r, told)
  PROVE  RequestInv'
<1>1. requests \in Seq(Requests) /\ Len(requests) \in Nat
  BY LenProperties DEF TypeInv, MailboxType
<1> SUFFICES ASSUME NEW i \in DOMAIN requests'
             PROVE  /\ Apt(requests'[i], told)
                    /\ i # 1 => requests'[i].meant = NoUid
  BY DEF RequestInv
<1>2. \/ i \in DOMAIN requests /\ requests'[i] = requests[i]
      \/ i = Len(requests) + 1 /\ requests'[i] = r
  BY <1>1, AppendParts
<1>3. CASE i \in DOMAIN requests /\ requests'[i] = requests[i]
  BY <1>3 DEF RequestInv
<1>4. CASE i = Len(requests) + 1 /\ requests'[i] = r
  <2>1. r.meant # NoUid => i = 1
    BY <1>1, <1>4, EmptySeq
  <2>2. Apt(r, told)
    BY DEF Apt
  <2> QED
    BY <1>4, <2>1, <2>2
<1> QED
  BY <1>2, <1>3, <1>4

\* Every step leaves the requests apt.
LEMMA RequestNext ==
  ASSUME TypeInv, StreamNow, RequestInv, [Next]_vars
  PROVE  RequestInv'
<1>1. ASSUME requests' = requests, told' = told
      PROVE  RequestInv'
  BY <1>1 DEF RequestInv
<1>2. ASSUME requests' = <<>>
      PROVE  RequestInv'
  <2>1. DOMAIN <<>> = {}
    OBVIOUS
  <2> QED
    BY <1>2, <2>1 DEF RequestInv
<1>3. CASE SendingCalls
  <2>1. PICK op, num, uid, meant, then : SendsOne(op, num, uid, meant, then)
    BY <1>3, CallsSend
  <2> QED
    BY <2>1, SentIsApt, AptWhenSent
<1>4. ASSUME NEW mode \in {"ro", "rw"}, open(mode)
      PROVE  RequestInv'
  BY <1>2, <1>4 DEF open, NewConnection
<1>5. ASSUME NEW expunging \in BOOLEAN, close(expunging)
      PROVE  RequestInv'
  BY <1>2, <1>5 DEF close, NewConnection
<1>6. CASE connectionLost
  BY <1>2, <1>6 DEF connectionLost, NewConnection
<1>7. ASSUME NEW num \in 1..m_count, getMessage(num)
      PROVE  RequestInv'
  BY <1>1, <1>7 DEF getMessage, mailboxVars, sessionVars
<1>8. CASE countsWhileClosed \/ timeOut \/ UNCHANGED vars
  BY <1>1, <1>8 DEF countsWhileClosed, timeOut, vars, mailboxVars, sessionVars
<1>9. CASE Reads
  <2>1. CASE continueAppend
    <3>1. Literal \in Requests /\ Literal.meant = NoUid
      BY UidType DEF Literal, Requests, Ops
    <3>2. requests' = Append(requests, Literal) /\ told' = told
      BY <2>1 DEF continueAppend
    <3> QED
      BY <3>1, <3>2, AptWhenSent
  <2>2. CASE ~continueAppend
    BY <1>1, <1>9, <2>2
       DEF Reads, readUntagged, parkResponse, refused, done, doneUnscanned, doneGetMessages,
           doneGetAndFetch, OurReply, Next1Line
  <2> QED
    BY <2>1, <2>2
<1>10. CASE Environment
  <2>1. CASE Server
    BY <2>1, ServerKeepsApt
  <2>2. CASE OtherClients
    BY <1>1, <2>2, OtherMailboxType DEF TypeInv, sessionVars
  <2> QED
    BY <1>10, <2>1, <2>2 DEF Environment
<1> QED
  BY <1>3, <1>4, <1>5, <1>6, <1>7, <1>8, <1>9, <1>10, NextCases

\* Until it is carried out, a request names the message that was meant.
THEOREM RequestInvariance == Spec => []RequestInv
<1>1. Init => RequestInv
  <2> SUFFICES ASSUME Init
               PROVE  RequestInv
    OBVIOUS
  <2>1. requests = <<>> /\ DOMAIN <<>> = {}
    BY DEF Init, MailboxInit
  <2> QED
    BY <2>1 DEF RequestInv
<1> QED
  BY <1>1, RequestNext, StreamInvariance, IMAPInvariance, PTL DEF Spec

\* Only STORE marks a message.
LEMMA OnlyStoreMarks ==
  ASSUME Next
  PROVE  marked' \subseteq marked \/ performStore
<1>1. Server => marked' \subseteq marked \/ performStore
  BY DEF Server, tellExists, tellExpunged, performFetch, tellTarget, performExpunge, performAppend,
         takeLiteral, refuseLiteral, performStatus, performOther, complete, refuse, Completed, mailVars
<1>2. OtherClients => marked' \subseteq marked
  BY DEF OtherClients, arrive, vanish
<1>3. SendingCalls => marked' = marked
  BY DEF SendingCalls, plainCall, addMessage, deleteMessages, setMessageFlags, fetchMessages,
         setFlags, getMessages, getAndFetchMessages, Get, sendCommand, mailVars
<1>4. Reads => marked' = marked
  BY DEF Reads, readUntagged, parkResponse, continueAppend, refused, done, doneUnscanned,
         doneGetMessages, doneGetAndFetch, OurReply, Next1Line, mailVars
<1>5. \A expunging \in BOOLEAN : close(expunging) => marked' \subseteq marked
  BY DEF close
<1>6. \A mode : open(mode) => marked' = marked
  BY DEF open, mailVars
<1>7. \A num : getMessage(num) => marked' = marked
  BY DEF getMessage, mailboxVars, mailVars
<1>8. countsWhileClosed \/ timeOut \/ connectionLost => marked' = marked
  BY DEF countsWhileClosed, timeOut, connectionLost, mailboxVars, mailVars
<1>9. Environment => Server \/ OtherClients
  BY DEF Environment
<1> QED
  BY <1>1, <1>2, <1>3, <1>4, <1>5, <1>6, <1>7, <1>8, <1>9, NextCases

\* STORE marks no other message than the one that the caller meant.
THEOREM MarksMeant == Spec => StoreMarksMeant
<1>1. TypeInv /\ RequestInv /\ [Next]_vars =>
        [\A uid \in marked' \ marked : Request.meant # NoUid => uid = Request.meant]_vars
  <2> SUFFICES ASSUME TypeInv, RequestInv, Next, NEW uid \in marked' \ marked, Request.meant # NoUid
               PROVE  uid = Request.meant
    OBVIOUS
  <2>1. performStore
    BY OnlyStoreMarks
  <2>2. uid \in Target /\ requests # <<>>
    BY <2>1 DEF performStore, ServerAt
  <2>3. Apt(Request, told)
    <3>1. 1 \in DOMAIN requests /\ Request = requests[1]
      BY <2>2, TailParts DEF TypeInv, MailboxType, Request
    <3> QED
      BY <3>1 DEF RequestInv
  <2>4. CASE Request.op = "STORE"
    <3>1. PICK v \in Views : v = told
      BY DEF TypeInv, MailboxType
    <3>2. uid \in v /\ NumberOf(uid, v) = Request.num
      BY <2>2, <2>4, <3>1 DEF Target, UidOps
    <3>3. Request.meant \in v /\ NumberOf(Request.meant, v) = Request.num
      BY <2>3, <2>4, <3>1 DEF Apt
    <3> QED
      BY <3>2, <3>3, NamedType
  <2>5. CASE Request.op = "UID STORE"
    BY <2>2, <2>3, <2>5 DEF Target, UidOps, Apt
  <2> QED
    BY <2>3, <2>4, <2>5 DEF Apt
<1> QED
  BY <1>1, RequestInvariance, IMAPInvariance, PTL DEF Spec, StoreMarksMeant

-----------------------------------------------------------------------------
(***************************************************************************)
(* The line of a STATUS response                                           *)
(***************************************************************************)
\* What goes on after a line that ends nothing, or with one that completes.
LEMMA FollowedGrows ==
  ASSUME NEW s \in Seq(Lines), NEW op, Followed(s, op), NEW line \in Lines, NEW op2,
         op = "STATUS" \/ line.kind = "STATUS" =>
           \/ op2 = "STATUS" /\ ~Ends(line)
           \/ line.kind = "DONE" /\ line.op = "STATUS"
  PROVE  Followed(Append(s, line), op2)
<1> DEFINE s2 == Append(s, line)
<1>1. PICK n \in Nat : n = Len(s)
  BY LenProperties
<1>2. Len(s2) = n + 1 /\ s2[n + 1] = line /\ \A i \in 1..n : s2[i] = s[i]
  BY <1>1, AppendProperties
<1> HIDE DEF s2
<1> SUFFICES ASSUME NEW k \in 1..(n + 1), s2[k].kind = "STATUS"
             PROVE  \/ \E j \in 1..(n + 1) :
                         /\ k < j /\ s2[j].kind = "DONE" /\ s2[j].op = "STATUS"
                         /\ \A i \in k..(j - 1) : ~Ends(s2[i])
                    \/ op2 = "STATUS" /\ \A i \in k..(n + 1) : ~Ends(s2[i])
  BY <1>2 DEF Followed, s2
<1>3. CASE k = n + 1
  <2>1. line.kind = "STATUS" /\ ~Ends(line)
    BY <1>2, <1>3 DEF Ends
  <2>2. \A i \in k..(n + 1) : i = n + 1
    BY <1>1, <1>3
  <2> QED
    BY <1>2, <2>1, <2>2
<1>4. CASE k # n + 1
  <2>1. k \in 1..n /\ s[k].kind = "STATUS"
    BY <1>1, <1>2, <1>4
  <2>2. CASE \E j \in 1..n : /\ k < j /\ s[j].kind = "DONE" /\ s[j].op = "STATUS"
                             /\ \A i \in k..(j - 1) : ~Ends(s[i])
    <3>1. PICK j \in 1..n : /\ k < j /\ s[j].kind = "DONE" /\ s[j].op = "STATUS"
                            /\ \A i \in k..(j - 1) : ~Ends(s[i])
      BY <2>2
    <3>2. j \in 1..(n + 1) /\ s2[j] = s[j] /\ \A i \in k..(j - 1) : i \in 1..n
      BY <1>1, <1>2, <2>1
    <3>3. \A i \in k..(j - 1) : ~Ends(s2[i])
      BY <1>2, <3>1, <3>2
    <3> QED
      BY <3>1, <3>2, <3>3
  <2>3. CASE op = "STATUS" /\ \A i \in k..n : ~Ends(s[i])
    <3>1. \A i \in k..n : i \in 1..n
      BY <1>1, <2>1
    <3>2. \A i \in k..n : ~Ends(s2[i])
      BY <1>2, <2>3, <3>1
    <3>3. CASE op2 = "STATUS" /\ ~Ends(line)
      <4>1. \A i \in k..(n + 1) : i \in k..n \/ i = n + 1
        BY <1>1
      <4> QED
        BY <1>2, <3>2, <3>3, <4>1
    <3>4. CASE line.kind = "DONE" /\ line.op = "STATUS"
      <4>1. n + 1 \in 1..(n + 1) /\ k < n + 1 /\ (n + 1) - 1 = n
        BY <1>1, <2>1
      <4> QED
        BY <1>2, <3>2, <3>4, <4>1
    <3> QED
      BY <2>3, <3>3, <3>4
  <2> QED
    BY <1>1, <2>1, <2>2, <2>3 DEF Followed
<1> QED
  BY <1>3, <1>4

\* Lines that have been read do not matter to those that follow.
LEMMA FollowedIsRead ==
  ASSUME NEW p \in Seq(Lines), NEW q \in Seq(Lines), NEW op, Followed(p \o q, op)
  PROVE  Followed(q, op)
<1> DEFINE s == p \o q
<1>1. PICK n \in Nat, m \in Nat : n = Len(p) /\ m = Len(q)
  BY LenProperties
<1>2. Len(s) = n + m /\ \A i \in 1..(n + m) : s[i] = IF i <= n THEN p[i] ELSE q[i - n]
  BY <1>1, ConcatProperties
<1> HIDE DEF s
<1>3. \A i \in 1..m : i + n \in 1..(n + m) /\ ~(i + n <= n) /\ (i + n) - n = i
  BY <1>1
<1>4. \A i \in 1..m : s[i + n] = q[i]
  BY <1>2, <1>3
<1> SUFFICES ASSUME NEW k \in 1..m, q[k].kind = "STATUS"
             PROVE  \/ \E j \in 1..m : /\ k < j /\ q[j].kind = "DONE" /\ q[j].op = "STATUS"
                                       /\ \A i \in k..(j - 1) : ~Ends(q[i])
                    \/ op = "STATUS" /\ \A i \in k..m : ~Ends(q[i])
  BY <1>1 DEF Followed
<1>5. k + n \in 1..(n + m) /\ s[k + n].kind = "STATUS"
  BY <1>3, <1>4
<1>6. CASE \E j \in 1..(n + m) : /\ k + n < j /\ s[j].kind = "DONE" /\ s[j].op = "STATUS"
                                 /\ \A i \in (k + n)..(j - 1) : ~Ends(s[i])
  <2>1. PICK j \in 1..(n + m) : /\ k + n < j /\ s[j].kind = "DONE" /\ s[j].op = "STATUS"
                                /\ \A i \in (k + n)..(j - 1) : ~Ends(s[i])
    BY <1>6
  <2>2. j - n \in 1..m /\ k < j - n /\ (j - n) + n = j
    BY <1>1, <2>1
  <2>3. s[j] = q[j - n]
    BY <1>4, <2>2
  <2>4. ASSUME NEW i \in k..((j - n) - 1)
        PROVE  ~Ends(q[i])
    <3>1. i \in 1..m /\ i + n \in (k + n)..(j - 1)
      BY <1>1, <2>2
    <3> QED
      BY <1>4, <2>1, <3>1
  <2> QED
    BY <2>1, <2>2, <2>3, <2>4
<1>7. CASE op = "STATUS" /\ \A i \in (k + n)..(n + m) : ~Ends(s[i])
  <2>1. ASSUME NEW i \in k..m
        PROVE  ~Ends(q[i])
    <3>1. i \in 1..m /\ i + n \in (k + n)..(n + m)
      BY <1>1
    <3> QED
      BY <1>4, <1>7, <3>1
  <2> QED
    BY <1>7, <2>1
<1> QED
  BY <1>2, <1>5, <1>6, <1>7 DEF Followed, s

\* What the server says of a STATUS command, and when it completes it.
SaysOfStatus(line) ==
  \/ Performed' = "STATUS" /\ ~Ends(line)
  \/ line.kind = "DONE" /\ line.op = "STATUS"

\* Every step of the server is one of these.
LEMMA ServerReports ==
  ASSUME TypeInv, Server
  PROVE  \/ wire' = wire /\ (Performed = "STATUS" => Performed' = "STATUS")
         \/ \E line \in Lines :
              /\ wire' = Append(wire, line)
              /\ Performed = "STATUS" \/ line.kind = "STATUS" => SaysOfStatus(line)
<1>1. /\ requests # <<>> /\ Request \in Requests /\ MailboxType /\ told \in Views /\ told' \in Views
      /\ told \subseteq Uids
  BY ServerMailboxType, MailboxFields DEF TypeInv, MailboxType
<1>2. /\ \A n \in Nat, v \in Views : Exists(n, v) \in Lines
      /\ \A n \in Nat, uid \in Uids, v \in Views : Expunged(n, uid, v) \in Lines
      /\ \A n \in Nat, uid \in Uids, w \in BOOLEAN : Fetch(n, uid, w) \in Lines
      /\ \A n \in Nat : Status(n) \in Lines
      /\ Continue \in Lines
      /\ \A request \in Requests, ok \in BOOLEAN : Done(request, ok) \in Lines
  BY <1>1, LinesMade
<1>3. \A line : Send(line) => wire' = Append(wire, line)
  BY DEF Send
<1>4. ASSUME requests' = requests, stage' = stage
      PROVE  Performed' = Performed
  BY <1>4 DEF Performed, ServerAt, Request
<1>5. stage # "performed" => Performed = "none"
  BY DEF Performed, ServerAt
<1>6. CASE tellExists
  <2>1. toldCount' \in Nat
    BY <1>6, ServerMailboxType DEF TypeInv, MailboxType
  <2>2. PICK line \in Lines : line = Exists(toldCount', told')
    BY <1>1, <1>2, <2>1
  <2>3. wire' = Append(wire, line) /\ line.kind = "EXISTS" /\ Performed' = Performed
    BY <1>3, <1>4, <1>6, <2>2 DEF tellExists, Exists
  <2> QED
    BY <2>3 DEF SaysOfStatus, Ends
<1>7. CASE tellExpunged
  <2>1. PICK uid \in told \ mailbox :
          told' = told \ {uid} /\ Send(Expunged(NumberOf(uid, told), uid, told'))
    BY <1>7 DEF tellExpunged
  <2>2. NumberOf(uid, told) \in Nat /\ uid \in Uids
    BY <1>1, NumberType
  <2>3. PICK line \in Lines : line = Expunged(NumberOf(uid, told), uid, told')
    BY <1>1, <1>2, <2>2
  <2>4. wire' = Append(wire, line) /\ line.kind = "EXPUNGE" /\ Performed' = Performed
    BY <1>3, <1>4, <1>7, <2>1, <2>3 DEF tellExpunged, Expunged
  <2> QED
    BY <2>4 DEF SaysOfStatus, Ends
<1>8. CASE performStore \/ performFetch \/ performExpunge \/ takeLiteral \/ performOther
  <2>1. wire' = wire /\ stage # "performed"
    BY <1>8 DEF performStore, performFetch, performExpunge, takeLiteral, performOther, ServerAt
  <2> QED
    BY <1>5, <2>1
<1>9. CASE tellTarget
  <2>1. Performed = "none"
    BY <1>5, <1>9 DEF tellTarget, ServerAt
  <2>2. CASE Target \cap mailbox = {}
    BY <1>9, <2>1, <2>2 DEF tellTarget
  <2>3. CASE Target \cap mailbox # {}
    <3>1. PICK uid : uid = (CHOOSE u \in Target : TRUE)
      OBVIOUS
    <3>2. uid \in Target
      BY <2>3, <3>1
    <3>3. uid \in told
      BY <3>2 DEF Target
    <3>4. NumberOf(uid, told) \in Nat /\ uid \in Uids
      BY <1>1, <3>3, NumberType
    <3>5. PICK line \in Lines : line = Fetch(NumberOf(uid, told), uid, Request.op # "STORE")
      BY <1>2, <3>4
    <3>6. wire' = Append(wire, line) /\ line.kind = "FETCH"
      BY <1>3, <1>9, <2>3, <3>1, <3>5 DEF tellTarget, Fetch
    <3> QED
      BY <2>1, <3>6
  <2> QED
    BY <2>2, <2>3
<1>10. CASE performAppend
  <2>1. Performed = "none" /\ wire' = Append(wire, Continue) /\ Continue.kind = "CONTINUE"
    BY <1>3, <1>5, <1>10 DEF performAppend, ServerAt, Continue
  <2> QED
    BY <1>2, <2>1
<1>11. CASE performStatus
  <2>1. Cardinality(mailbox) \in Nat
    BY <1>1, MailboxFields
  <2>2. PICK line \in Lines : line = Status(Cardinality(mailbox))
    BY <1>2, <2>1
  <2>3. wire' = Append(wire, line) /\ line.kind = "STATUS"
    BY <1>3, <1>11, <2>2 DEF performStatus, Status
  <2>4. Performed' = "STATUS"
    BY <1>1, <1>11 DEF performStatus, Performed, ServerAt, Request
  <2> QED
    BY <2>3, <2>4 DEF SaysOfStatus, Ends
<1>12. CASE refuseLiteral \/ complete \/ refuse
  <2>1. PICK ok \in BOOLEAN : wire' = Append(wire, Done(Request, ok))
    BY <1>3, <1>12 DEF refuseLiteral, complete, refuse, Completed
  <2>2. PICK line \in Lines : line = Done(Request, ok)
    BY <1>1, <1>2
  <2>3. line.kind = "DONE" /\ line.op = Request.op /\ wire' = Append(wire, line)
    BY <2>1, <2>2 DEF Done
  <2>4. Performed = "STATUS" => Request.op = "STATUS"
    BY DEF Performed
  <2> QED
    BY <2>3, <2>4 DEF SaysOfStatus
<1> QED
  BY <1>6, <1>7, <1>8, <1>9, <1>10, <1>11, <1>12 DEF Server

\* The inductive invariant for the lines of STATUS.
StatusNow == StatusInv /\ ResponseInv

\* The server sends no other completion between a STATUS line and its own.
LEMMA ServerStatus ==
  ASSUME TypeInv, StatusInv, Server, response' = response
  PROVE  StatusInv'
<1>1. PICK s \in Seq(Lines), r \in Seq(Lines), w \in Seq(Lines), op \in {Performed} :
        s = Stream /\ r = response /\ w = wire /\ op = Performed
  BY StreamType
<1>2. Followed(s, op) /\ s = r \o w
  BY <1>1 DEF StatusInv, Stream
<1>3. PICK op2 \in {Performed'} : op2 = Performed'
  OBVIOUS
<1>4. CASE wire' = wire /\ (Performed = "STATUS" => Performed' = "STATUS")
  <2>1. Stream' = s
    BY <1>1, <1>2, <1>4 DEF Stream
  <2>2. Followed(s, op2)
    BY <1>1, <1>2, <1>3, <1>4 DEF Followed
  <2> QED
    BY <1>3, <2>1, <2>2 DEF StatusInv
<1>5. ASSUME NEW line \in Lines, wire' = Append(wire, line),
             Performed = "STATUS" \/ line.kind = "STATUS" => SaysOfStatus(line)
      PROVE  StatusInv'
  <2>1. Stream' = Append(s, line)
    <3>1. Append(w, line) = w \o <<line>> /\ <<line>> \in Seq(Lines)
      BY AppendIsConcat
    <3>2. r \o (w \o <<line>>) = (r \o w) \o <<line>>
      BY <3>1, ConcatAssociative
    <3>3. Append(s, line) = s \o <<line>>
      BY AppendIsConcat
    <3> QED
      BY <1>1, <1>2, <1>5, <3>1, <3>2, <3>3 DEF Stream
  <2>2. op = "STATUS" \/ line.kind = "STATUS" =>
          \/ op2 = "STATUS" /\ ~Ends(line)
          \/ line.kind = "DONE" /\ line.op = "STATUS"
    BY <1>1, <1>3, <1>5 DEF SaysOfStatus
  <2>3. Followed(Append(s, line), op2)
    BY <1>2, <2>2, FollowedGrows
  <2> QED
    BY <1>3, <2>1, <2>3 DEF StatusInv
<1> QED
  BY <1>4, <1>5, ServerReports

\* What has been sent does not change what has been performed.
LEMMA PerformedStays ==
  ASSUME TypeInv, stage' = stage,
         requests' = requests \/ \E r \in Requests : requests' = Append(requests, r)
  PROVE  Performed = "STATUS" => Performed' = "STATUS"
<1> SUFFICES ASSUME Performed = "STATUS"
             PROVE  Performed' = "STATUS"
  OBVIOUS
<1>1. requests # <<>>
  BY DEF Performed, ServerAt
<1>2. requests \in Seq(Requests) /\ Len(requests) \in Nat
  BY LenProperties DEF TypeInv, MailboxType
<1>3. requests' # <<>> /\ Head(requests') = Head(requests)
  <2>1. CASE requests' = requests
    BY <1>1, <2>1
  <2>2. ASSUME NEW r \in Requests, requests' = Append(requests, r)
        PROVE  requests' # <<>> /\ Head(requests') = Head(requests)
    <3>1. 1 \in 1..Len(requests)
      BY <1>1, <1>2, EmptySeq
    <3>2. Len(requests') = Len(requests) + 1 /\ requests'[1] = requests[1]
      BY <1>2, <2>2, <3>1, AppendProperties
    <3> QED
      BY <1>1, <1>2, <2>2, <3>2
  <2> QED
    BY <2>1, <2>2
<1> QED
  BY <1>3 DEF Performed, ServerAt, Request

\* A step that leaves the stream as it is.
LEMMA QuietStatus ==
  ASSUME TypeInv, StatusNow, Stream' = Stream, Performed = "STATUS" => Performed' = "STATUS",
         \A k \in 1..Len(response') : ~Ends(response'[k])
  PROVE  StatusNow'
<1>1. PICK s, op, op2 : s = Stream /\ op = Performed /\ op2 = Performed'
  OBVIOUS
<1>2. Followed(s, op2)
  BY <1>1 DEF StatusNow, StatusInv, Followed
<1> QED
  BY <1>1, <1>2 DEF StatusNow, StatusInv, ResponseInv

\* A response that is over.
LEMMA ReadStatus ==
  ASSUME TypeInv, StatusNow, ResponseOver, Performed = "STATUS" => Performed' = "STATUS"
  PROVE  StatusNow'
<1>1. PICK r \in Seq(Lines), w \in Seq(Lines), op \in {Performed}, op2 \in {Performed'} :
        r = response /\ w = wire /\ op = Performed /\ op2 = Performed'
  BY StreamType
<1>2. Followed(r \o w, op2)
  BY <1>1 DEF StatusNow, StatusInv, Followed, Stream
<1>3. Stream' = wire'
  <2>1. wire' \in Seq(Lines)
    BY StreamType DEF ResponseOver
  <2> QED
    BY <2>1, ConcatEmptySeq DEF ResponseOver, Stream
<1>4. CASE wire' = wire
  <2>1. Followed(w, op2)
    BY <1>2, FollowedIsRead
  <2> QED
    BY <1>1, <1>3, <1>4, <2>1 DEF StatusNow, StatusInv, ResponseInv, ResponseOver
<1>5. CASE wire # <<>> /\ Ends(Line) /\ wire' = Tail(wire)
  <2>1. PICK p \in Seq(Lines), q \in Seq(Lines) : p = Append(response, Line) /\ q = Tail(wire)
    BY <1>5, StreamType
  <2>2. r \o w = p \o q
    BY <1>1, <1>5, <2>1, StreamType DEF Stream
  <2>3. Followed(q, op2)
    BY <1>2, <2>2, FollowedIsRead
  <2> QED
    BY <1>1, <1>3, <1>5, <2>1, <2>3 DEF StatusNow, StatusInv, ResponseInv, ResponseOver
<1> QED
  BY <1>4, <1>5 DEF ResponseOver

\* Every step keeps STATUS lines with their completions.
LEMMA StatusNext ==
  ASSUME TypeInv, StatusNow, [Next]_vars
  PROVE  StatusNow'
<1>1. ASSUME UNCHANGED <<response, wire, requests, stage>>
      PROVE  StatusNow'
  <2>1. Stream' = Stream /\ Performed' = Performed
    BY <1>1 DEF Stream, Performed, ServerAt, Request
  <2> QED
    BY <1>1, <2>1, QuietStatus DEF StatusNow, ResponseInv
<1>2. ASSUME response' = <<>>, wire' = <<>>
      PROVE  StatusNow'
  <2>1. Stream' = <<>> /\ Len(<<>>) = 0
    BY <1>2 DEF Stream
  <2>2. Len(Stream') = 0 /\ Len(response') = 0
    BY <1>2, <2>1
  <2> QED
    BY <2>2 DEF StatusNow, StatusInv, ResponseInv, Followed
<1>3. CASE SendingCalls
  <2>1. PICK op, num, uid, meant, then : SendsOne(op, num, uid, meant, then)
    BY <1>3, CallsSend
  <2>2. \E r \in Requests : requests' = Append(requests, r)
    <3>1. m_tag' \in Nat
      <4>1. m_tag' = m_tag + 1
        BY <2>1 DEF SendsOne, sendCommand
      <4>2. m_tag \in Nat
        BY DEF TypeInv, FolderType
      <4> QED
        BY <4>1, <4>2
    <3> DEFINE r == [op |-> op, tag |-> m_tag', num |-> num, uid |-> uid, meant |-> meant]
    <3>2. r \in Requests
      BY <2>1, <3>1 DEF SendsOne, Requests
    <3> QED
      BY <2>1, <3>2 DEF SendsOne, sendCommand
  <2>3. IdleNow /\ response' = <<>> /\ wire' = wire /\ stage' = stage
    BY <2>1 DEF SendsOne, sendCommand
  <2>4. response' = response /\ Stream' = Stream
    BY <2>3 DEF TypeInv, CallType, Stream
  <2> QED
    BY <2>2, <2>3, <2>4, PerformedStays, QuietStatus DEF StatusNow, ResponseInv
<1>4. ASSUME NEW mode \in {"ro", "rw"}, open(mode)
      PROVE  StatusNow'
  BY <1>2, <1>4 DEF open, NewConnection, TypeInv, CallType
<1>5. ASSUME NEW expunging \in BOOLEAN, close(expunging)
      PROVE  StatusNow'
  BY <1>2, <1>5 DEF close, NewConnection, callVars, TypeInv, CallType
<1>6. CASE connectionLost
  BY <1>2, <1>6 DEF connectionLost, NewConnection, Reset
<1>7. ASSUME NEW num \in 1..m_count, getMessage(num)
      PROVE  StatusNow'
  BY <1>1, <1>7 DEF getMessage, callVars, mailboxVars, sessionVars
<1>8. CASE countsWhileClosed \/ UNCHANGED vars
  BY <1>1, <1>8 DEF countsWhileClosed, vars, callVars, mailboxVars, sessionVars
<1>9. CASE timeOut
  <2>1. ResponseOver
    <3>1. connected
      BY <1>9, ReadingType DEF timeOut
    <3> QED
      BY <1>9, <3>1 DEF timeOut, Reset, Miss, connectionVars, mailboxVars, mailVars, sessionVars,
                        ResponseOver
  <2> QED
    BY <1>9, <2>1, PerformedStays, ReadStatus DEF timeOut, mailboxVars, sessionVars
<1>10. CASE Reads
  <2>1. Performed = "STATUS" => Performed' = "STATUS"
    <3>1. stage' = stage
      BY <1>10 DEF Reads, readUntagged, parkResponse, continueAppend, refused, done, doneUnscanned,
                   doneGetMessages, doneGetAndFetch, OurReply, Next1Line
    <3>2. Literal \in Requests
      BY UidType DEF Literal, Requests, Ops
    <3>3. requests' = requests \/ requests' = Append(requests, Literal)
      BY <1>10 DEF Reads, readUntagged, parkResponse, continueAppend, refused, done, doneUnscanned,
                   doneGetMessages, doneGetAndFetch, OurReply, Next1Line
    <3> QED
      BY <3>1, <3>2, <3>3, PerformedStays
  <2>2. CASE readUntagged
    <3>1. /\ wire # <<>> /\ response' = Append(response, Line) /\ wire' = Tail(wire)
          /\ ~Ends(Line)
      BY <2>2 DEF readUntagged, Reading, Next1Line, Untagged, Ends
    <3>2. Stream' = Stream /\ response \in Seq(Lines) /\ Line \in Lines
      BY <3>1, StreamType DEF Stream
    <3>3. \A k \in 1..Len(response') : ~Ends(response'[k])
      <4>1. PICK n \in Nat : n = Len(response)
        BY <3>2, LenProperties
      <4>2. /\ Len(response') = n + 1 /\ response'[n + 1] = Line
            /\ \A k \in 1..n : response'[k] = response[k]
        BY <3>1, <3>2, <4>1, AppendProperties
      <4>3. \A k \in 1..(n + 1) : k = n + 1 \/ k \in 1..n
        BY <4>1
      <4> QED
        BY <3>1, <4>1, <4>2, <4>3 DEF StatusNow, ResponseInv
    <3> QED
      BY <2>1, <3>2, <3>3, QuietStatus
  <2>3. CASE ~readUntagged
    BY <1>10, <2>1, <2>3, ReadsEndResponse, ReadStatus
  <2> QED
    BY <2>2, <2>3
<1>11. CASE Environment
  <2>1. response' = response
    BY <1>11 DEF Environment, callVars
  <2>2. CASE Server
    BY <2>1, <2>2, ServerStatus DEF StatusNow, ResponseInv
  <2>3. CASE OtherClients
    BY <1>1, <2>1, <2>3, OtherMailboxType DEF TypeInv, sessionVars
  <2> QED
    BY <1>11, <2>2, <2>3 DEF Environment
<1> QED
  BY <1>3, <1>4, <1>5, <1>6, <1>7, <1>8, <1>9, <1>10, <1>11, NextCases

\* A STATUS line does not get into the response to another command.
THEOREM StatusInvariance == Spec => []StatusNow
<1>1. Init => StatusNow
  <2> SUFFICES ASSUME Init
               PROVE  StatusNow
    OBVIOUS
  <2>1. response = <<>> /\ wire = <<>> /\ Stream = <<>>
    BY DEF Init, MailboxInit, Stream
  <2>2. Len(response) = 0 /\ Len(Stream) = 0
    BY <2>1
  <2> QED
    BY <2>2 DEF StatusNow, StatusInv, ResponseInv, Followed
<1> QED
  BY <1>1, StatusNext, IMAPInvariance, PTL DEF Spec

-----------------------------------------------------------------------------
(***************************************************************************)
(* New messages                                                            *)
(***************************************************************************)
\* The numbers of those who are new in a larger view come after the others'.
LEMMA NewOnesAreLast ==
  ASSUME NEW v \in Views, NEW w \in Views,
         \A u \in v : u \in w /\ NumberOf(u, w) = NumberOf(u, v), NEW uid \in w \ v
  PROVE  /\ Cardinality(v) \in Nat /\ Cardinality(w) \in Nat /\ NumberOf(uid, w) \in Nat
         /\ Cardinality(v) < NumberOf(uid, w) /\ NumberOf(uid, w) <= Cardinality(w)
<1>1. PICK a \in Nat, b \in Nat : a = Cardinality(v) /\ b = Cardinality(w)
  BY ViewIsFinite
<1>2. PICK n \in Nat : n = NumberOf(uid, w)
  BY NumberType
<1>3. n <= b /\ 1 <= n
  <2> DEFINE below == {u \in w : u <= uid}
  <2>1. IsFiniteSet(w) /\ w \in SUBSET Nat
    BY ViewIsFinite
  <2>2. below \subseteq w /\ uid \in below
    BY <2>1
  <2> HIDE DEF below
  <2>3. IsFiniteSet(below) /\ Cardinality(below) <= Cardinality(w)
    BY <2>1, <2>2, FS_Subset
  <2>4. Cardinality(below) # 0
    BY <2>2, <2>3, FS_EmptySet
  <2>5. n = Cardinality(below)
    BY <1>2 DEF NumberOf, below
  <2> QED
    BY <1>1, <1>2, <2>3, <2>4, <2>5
<1>4. ASSUME n <= a
      PROVE  FALSE
  <2>1. n \in 1..Cardinality(v)
    BY <1>1, <1>2, <1>3, <1>4
  <2>2. PICK u \in v : NumberOf(u, v) = n
    BY <2>1, NamedType
  <2>3. u \in w /\ NumberOf(u, w) = NumberOf(uid, w)
    BY <1>2, <2>2
  <2>4. u = uid
    BY <2>3, NamedType
  <2> QED
    BY <2>2, <2>4
<1> QED
  BY <1>1, <1>2, <1>3, <1>4

\* Without an EXPUNGE and a STATUS line the count follows the view.
LEMMA CountFollows ==
  ASSUME NEW v \in Views, NEW p \in Seq(Lines), NEW q \in Seq(Lines), Chain(v, p \o q),
         \A k \in 1..Len(p) : p[k].kind \notin {"EXPUNGE", "STATUS"},
         NEW f, Counted(f, Cardinality(v), {"EXISTS", "STATUS"}, p)
  PROVE  /\ f[Len(p)] = Cardinality(After(v, p \o q, Len(p)))
         /\ After(v, p \o q, Len(p)) \in Views
         /\ \A uid \in v : /\ uid \in After(v, p \o q, Len(p))
                           /\ NumberOf(uid, After(v, p \o q, Len(p))) = NumberOf(uid, v)
<1> DEFINE s == p \o q
<1>1. PICK n \in Nat, m \in Nat : n = Len(p) /\ m = Len(q)
  BY LenProperties
<1>2. /\ s \in Seq(Lines) /\ Len(s) = n + m
      /\ \A k \in 1..(n + m) : s[k] = IF k <= n THEN p[k] ELSE q[k - n]
  BY <1>1, ConcatProperties
<1>3. Chain(v, s)
  OBVIOUS
<1> HIDE DEF s
<1>4. \A k \in 1..n : s[k] = p[k] /\ k \in 1..(n + m)
  BY <1>1, <1>2
<1> DEFINE S == {k \in 0..n : f[k] = Cardinality(After(v, s, k))}
<1>5. f[0] = Cardinality(v)
      /\ \A k \in 1..n : f[k] = IF p[k].kind \in {"EXISTS", "STATUS"} THEN p[k].num ELSE f[k - 1]
  BY <1>1 DEF Counted
<1>6. 0 \in S
  BY <1>1, <1>5 DEF After
<1>7. ASSUME NEW k \in 1..n, k - 1 \in S
      PROVE  k \in S
  <2>1. k \in 0..n /\ k # 0 /\ p[k].kind \notin {"EXPUNGE", "STATUS"}
    BY <1>1
  <2>2. Right(After(v, s, k - 1), p[k])
    <3>1. k \in 1..Len(s) /\ s[k] = p[k]
      BY <1>2, <1>4
    <3> QED
      BY <1>3, <3>1 DEF Chain
  <2>3. After(v, s, k) = p[k].view
    BY <1>4, <2>1 DEF After
  <2>4. CASE p[k].kind = "EXISTS"
    BY <1>5, <2>1, <2>2, <2>3, <2>4 DEF Right
  <2>5. CASE p[k].kind # "EXISTS"
    <3>1. f[k] = f[k - 1] /\ After(v, s, k) = After(v, s, k - 1)
      BY <1>5, <2>1, <2>2, <2>3, <2>5 DEF Right
    <3> QED
      BY <1>7, <2>1, <3>1
  <2> QED
    BY <2>4, <2>5
<1>8. 0..n \subseteq S
  <2> HIDE DEF S
  <2> QED
    BY <1>1, <1>6, <1>7, NumberInduction
<1>9. n \in 0..n /\ n \in 0..Len(s) /\ 0 \in 0..n
  BY <1>1, <1>2
<1>10. f[n] = Cardinality(After(v, s, n))
  BY <1>8, <1>9
<1>11. After(v, s, n) \in Views
  BY <1>2, <1>9, AfterType
<1>12. \A uid \in v : uid \in After(v, s, n) /\ NumberOf(uid, After(v, s, n)) = NumberOf(uid, v)
  <2>1. After(v, s, 0) = v
    BY DEF After
  <2>2. \A k \in (0 + 1)..n : s[k].kind # "EXPUNGE"
    BY <1>1, <1>4
  <2> QED
    BY <1>2, <1>3, <1>9, <2>1, <2>2, NumbersStay
<1> QED
  BY <1>1, <1>10, <1>11, <1>12 DEF s

\* What is acted on as an update has no STATUS line.
LEMMA NoStatusLine ==
  ASSUME TypeInv, TagInv, StatusNow, done \/ continueAppend \/ doneGetAndFetch
  PROVE  \A k \in 1..Len(response) : response[k].kind # "STATUS"
<1>1. /\ wire # <<>> /\ Ends(Line) /\ ~IdleNow
      /\ Line.kind = "DONE" => Line.tag = call.tag /\ call.then # "drop"
  BY DEF done, continueAppend, doneGetAndFetch, OurReply, Reading, Ends, isOurs
<1>2. Line.kind = "DONE" => Line.op # "STATUS"
  <2>1. 1 \in DOMAIN wire /\ Line = wire[1]
    BY <1>1, TailParts DEF TypeInv, MailboxType, Line
  <2> QED
    BY <1>1, <2>1 DEF TagInv, TagOfCall, TypeInv, CallType
<1>3. PICK r \in Seq(Lines), p \in Seq(Lines), q \in Seq(Lines), op \in {Performed} :
        r = response /\ p = Append(response, Line) /\ q = Tail(wire) /\ op = Performed
  BY <1>1, StreamType
<1>4. Followed(p \o q, op)
  BY <1>1, <1>3, StreamType DEF StatusNow, StatusInv
<1>5. PICK n \in Nat, m \in Nat : n = Len(r) /\ m = Len(q)
  BY LenProperties
<1>6. Len(p) = n + 1 /\ p[n + 1] = Line /\ \A k \in 1..n : p[k] = r[k]
  <2>1. Line \in Lines
    BY <1>1, StreamType
  <2> QED
    BY <1>3, <1>5, <2>1, AppendProperties
<1> DEFINE s == p \o q
<1>7. Len(s) = (n + 1) + m /\ \A k \in 1..((n + 1) + m) : k <= n + 1 => s[k] = p[k]
  <2>1. /\ Len(p \o q) = Len(p) + Len(q)
        /\ \A k \in 1..(Len(p) + Len(q)) : (p \o q)[k] = IF k <= Len(p) THEN p[k] ELSE q[k - Len(p)]
    BY ConcatProperties
  <2> QED
    BY <1>5, <1>6, <2>1
<1> HIDE DEF s
<1>8. s[n + 1] = Line /\ \A k \in 1..n : s[k] = r[k] /\ ~Ends(r[k])
  <2>1. n + 1 \in 1..((n + 1) + m) /\ n + 1 <= n + 1
    BY <1>5
  <2>2. \A k \in 1..n : k \in 1..((n + 1) + m) /\ k <= n + 1
    BY <1>5
  <2>3. \A k \in 1..n : ~Ends(r[k])
    BY <1>3, <1>5 DEF StatusNow, ResponseInv
  <2>4. s[n + 1] = Line
    BY <1>6, <1>7, <2>1
  <2>5. \A k \in 1..n : s[k] = r[k]
    BY <1>6, <1>7, <2>2
  <2> QED
    BY <2>3, <2>4, <2>5
<1> SUFFICES ASSUME NEW k \in 1..n, r[k].kind = "STATUS"
             PROVE  FALSE
  BY <1>3, <1>5
<1>9. k \in 1..Len(s) /\ s[k].kind = "STATUS" /\ k < n + 1
  BY <1>5, <1>7, <1>8
<1>10. Followed(s, op)
  BY <1>4 DEF s
<1>11. CASE op = "STATUS" /\ \A i \in k..Len(s) : ~Ends(s[i])
  <2>1. n + 1 \in k..((n + 1) + m)
    BY <1>5, <1>9
  <2> QED
    BY <1>1, <1>7, <1>8, <1>11, <2>1
<1>12. ASSUME NEW j \in 1..Len(s), k < j, s[j].kind = "DONE", s[j].op = "STATUS",
              \A i \in k..(j - 1) : ~Ends(s[i])
       PROVE  FALSE
  <2>1. j \in Nat /\ (j \in 1..n \/ j = n + 1 \/ n + 1 <= j - 1)
    <3>1. j \in 1..((n + 1) + m)
      BY <1>7, <1>12
    <3> QED
      BY <1>5, <3>1
  <2>2. CASE j \in 1..n
    BY <1>8, <1>12, <2>2 DEF Ends
  <2>3. CASE j = n + 1
    BY <1>2, <1>8, <1>12, <2>3
  <2>4. CASE n + 1 <= j - 1
    <3>1. n + 1 \in k..(j - 1)
      BY <1>5, <2>1, <2>4
    <3> QED
      BY <1>1, <1>8, <1>12, <3>1
  <2> QED
    BY <2>1, <2>2, <2>3, <2>4
<1> QED
  BY <1>9, <1>10, <1>11, <1>12 DEF Followed

\* A response that is acted on announces those of whom it tells.
THEOREM AnnouncesNew == Spec => NewMessagesAnnounced
<1>1. TypeInv /\ StreamNow /\ TagInv /\ StatusNow /\ [Next]_vars =>
        [/\ done \/ continueAppend \/ doneGetAndFetch
         /\ ~missed /\ m_count = Cardinality(view)
         /\ ~\E i \in DOMAIN response : response[i].kind = "EXPUNGE"
         => \A uid \in view' \ view : NumberOf(uid, view') \in Added(m_count, 0, m_count')]_vars
  <2> SUFFICES ASSUME TypeInv, StreamNow, TagInv, StatusNow,
                      done \/ continueAppend \/ doneGetAndFetch, m_count = Cardinality(view),
                      ~\E i \in DOMAIN response : response[i].kind = "EXPUNGE",
                      NEW uid \in view' \ view
               PROVE  NumberOf(uid, view') \in Added(m_count, 0, m_count')
    OBVIOUS
  <2>1. Reads /\ ~readUntagged
    BY DEF Reads, done, continueAppend, doneGetAndFetch, OurReply, readUntagged, Untagged
  <2>2. ResponseOver
    BY <2>1, ReadsEndResponse
  <2>3. PICK v \in Views, r \in Seq(Lines), w \in Seq(Lines) :
          v = view /\ r = response /\ w = wire
    BY StreamType
  <2>4. Chain(v, r \o w)
    BY <2>2, <2>3 DEF StreamNow, StreamInv, Whole, Stream, ResponseOver
  <2>5. \A k \in 1..Len(r) : r[k].kind \notin {"EXPUNGE", "STATUS"}
    BY <2>3, NoStatusLine, LenProperties
  <2>6. m_count' = updateFromResponse({"EXISTS", "STATUS"})
    BY DEF done, continueAppend, doneGetAndFetch, processStatusUpdate
  <2>7. PICK f : Counted(f, Cardinality(v), {"EXISTS", "STATUS"}, r) /\ m_count' = f[Len(r)]
    BY <2>3, <2>6, Counting DEF TypeInv, FolderType
  <2>8. view' = After(v, r \o w, Len(r))
    BY <2>2, <2>3, ResponseOverStream DEF StreamNow, Stream
  <2>9. PICK x \in {view'} : x = view'
    OBVIOUS
  <2>10. /\ m_count' = Cardinality(x) /\ x \in Views
         /\ \A u \in v : u \in x /\ NumberOf(u, x) = NumberOf(u, v)
    BY <2>4, <2>5, <2>7, <2>8, <2>9, CountFollows
  <2>11. PICK a \in Nat, b \in Nat, n \in Nat :
           /\ a = Cardinality(v) /\ b = Cardinality(x) /\ n = NumberOf(uid, x) /\ a < n /\ n <= b
    BY <2>3, <2>9, <2>10, NewOnesAreLast
  <2>12. m_count = a /\ m_count' = b
    BY <2>3, <2>10, <2>11
  <2>13. Added(a, 0, b) = a..b /\ n \in a..b
    BY <2>11 DEF Added
  <2> QED
    BY <2>9, <2>11, <2>12, <2>13
<1> QED
  BY <1>1, StatusInvariance, TagInvariance, StreamInvariance, IMAPInvariance, PTL
     DEF Spec, NewMessagesAnnounced
=============================================================================
