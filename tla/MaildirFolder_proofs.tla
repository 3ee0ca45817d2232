------------------------ MODULE MaildirFolder_proofs ------------------------
(***************************************************************************)
(* Theorems about MaildirFolder: for any messages, flags and folder        *)
(* objects, any number of scans and any steps of the other processes.      *)
(***************************************************************************)
EXTENDS MaildirFolder, Induction, FiniteSetTheorems

-----------------------------------------------------------------------------
(***************************************************************************)
(* The loops of expunge                                                    *)
(***************************************************************************)
\* A round of that loop lengthens the list by one element at most.
LEMMA RoundLength ==
  ASSUME NEW x, NEW y, NEW k \in Nat \ {0}, y \in Seq(Nat) /\ Len(y) <= k - 1,
         x = Append(y, k) \/ x = y
  PROVE  x \in Seq(Nat) /\ Len(x) <= k
<1>1. CASE x = Append(y, k)
  BY <1>1
<1>2. CASE x = y
  BY <1>2
<1> QED
  BY <1>1, <1>2

\* The loop over the cache meets no more deleted messages than there are.
LEMMA DeletedAmongType ==
  ASSUME NEW infos, NEW n \in Nat
  PROVE  DeletedAmong(infos, n) \in Seq(Nat) /\ Len(DeletedAmong(infos, n)) <= n
<1> DEFINE Round(x, i) == IF infos[i].type = "DELETED" THEN Append(x, i) ELSE x
           Loop(f) == f = [i \in 0..n |->
             IF i = 0 THEN <<>>
             ELSE IF infos[i].type = "DELETED" THEN Append(f[i - 1], i) ELSE f[i - 1]]
           nums == CHOOSE f : Loop(f)
<1>1. \E f : Loop(f)
  <2> DEFINE V == Seq(Nat)
             first == <<>>
             step == [k \in 1..n |-> [x \in V |-> Round(x, k)]]
  <2>1. first \in V /\ step \in Steps(n, V)
    BY DEF Steps
  <2>2. \A k \in 1..n, x \in V : step[k][x] = Round(x, k)
    OBVIOUS
  <2> HIDE DEF step, V, first, Round
  <2>3. PICK f : Iterates(f, n, V, first, step)
    BY <2>1, Iteration
  <2>4. \A k \in 1..n : f[k] = Round(f[k - 1], k)
    <3> TAKE k \in 1..n
    <3>1. k - 1 \in 0..n
      OBVIOUS
    <3> QED
      BY <3>1, <2>2, <2>3 DEF Iterates
  <2>5. f = [i \in 0..n |-> f[i]]
    BY <2>3 DEF Iterates
  <2>6. \A i \in 0..n : f[i] = IF i = 0 THEN first ELSE Round(f[i - 1], i)
    BY <2>3, <2>4 DEF Iterates
  <2>7. f = [i \in 0..n |-> IF i = 0 THEN first ELSE Round(f[i - 1], i)]
    BY <2>5, <2>6
  <2> QED
    BY <2>7 DEF first, Round
<1>2. Loop(nums)
  BY <1>1
<1>3. DeletedAmong(infos, n) = nums[n]
  BY DEF DeletedAmong
<1> HIDE DEF nums
<1>4. \A k \in 0..n : nums[k] = IF k = 0 THEN <<>>
             ELSE IF infos[k].type = "DELETED" THEN Append(nums[k - 1], k) ELSE nums[k - 1]
  BY <1>2
<1> DEFINE S == {k \in 0..n : nums[k] \in Seq(Nat) /\ Len(nums[k]) <= k}
<1>5. 0 \in S
  <2>1. 0 \in 0..n
    OBVIOUS
  <2>2. nums[0] = <<>>
    BY <1>4, <2>1
  <2>3. nums[0] \in Seq(Nat) /\ Len(nums[0]) = 0
    BY <2>2
  <2>4. Len(nums[0]) <= 0
    BY <2>3
  <2> QED
    BY <2>1, <2>3, <2>4
<1>6. ASSUME NEW k \in 1..n, k - 1 \in S
      PROVE  k \in S
  <2>1. k \in 0..n /\ k # 0 /\ k \in Nat
    OBVIOUS
  <2>2. nums[k] = Append(nums[k - 1], k) \/ nums[k] = nums[k - 1]
    BY <1>4, <2>1
  <2>3. nums[k - 1] \in Seq(Nat) /\ Len(nums[k - 1]) <= k - 1
    BY <1>6
  <2>4. nums[k] \in Seq(Nat) /\ Len(nums[k]) <= k
    BY <2>1, <2>2, <2>3, RoundLength
  <2> QED
    BY <2>1, <2>4
<1>7. 0..n \subseteq S
  <2> HIDE DEF S
  <2> QED
    BY <1>5, <1>6, NumberInduction
<1> QED
  BY <1>3, <1>7

\* The number of an object that the loop has passed is one.
LEMMA RenumberingType ==
  ASSUME NEW first \in Nat, NEW nums \in Seq(Nat)
  PROVE  \A k \in 0..Len(nums) : Renumbering(first, nums)[k] \in Nat
<1> DEFINE n == Len(nums)
           Loop(f) == f = [k \in 0..Len(nums) |->
             IF k = 0 THEN first
             ELSE IF f[k - 1] > nums[k] THEN f[k - 1] - 1 ELSE f[k - 1]]
           num == CHOOSE f : Loop(f)
<1>1. n \in Nat /\ \A k \in 1..n : nums[k] \in Nat
  OBVIOUS
<1>2. \A k \in 1..n : \A x \in Nat : (IF x > nums[k] THEN x - 1 ELSE x) \in Nat
  BY <1>1
<1> HIDE DEF n
<1>3. \E f : Loop(f)
  <2> DEFINE step == [k \in 1..n |-> [x \in Nat |-> IF x > nums[k] THEN x - 1 ELSE x]]
  <2>1. step \in Steps(n, Nat)
    BY <1>2 DEF Steps
  <2>2. \A k \in 1..n, x \in Nat : step[k][x] = IF x > nums[k] THEN x - 1 ELSE x
    OBVIOUS
  <2> HIDE DEF step
  <2>3. PICK f : Iterates(f, n, Nat, first, step)
    BY <1>1, <2>1, Iteration
  <2>4. ASSUME NEW k \in 1..n
        PROVE  f[k] = IF f[k - 1] > nums[k] THEN f[k - 1] - 1 ELSE f[k - 1]
    <3>1. k - 1 \in 0..n
      BY <1>1
    <3> QED
      BY <3>1, <2>2, <2>3 DEF Iterates
  <2>5. \A k \in 0..n : f[k] = IF k = 0 THEN first
                                ELSE IF f[k - 1] > nums[k] THEN f[k - 1] - 1 ELSE f[k - 1]
    BY <1>1, <2>3, <2>4 DEF Iterates
  <2>6. f = [k \in 0..n |-> f[k]]
    BY <2>3 DEF Iterates
  <2>7. f = [k \in 0..n |-> IF k = 0 THEN first
                            ELSE IF f[k - 1] > nums[k] THEN f[k - 1] - 1 ELSE f[k - 1]]
    BY <2>5, <2>6
  <2> QED
    BY <2>7 DEF n
<1>4. Loop(num)
  BY <1>3
<1>5. Renumbering(first, nums) = num
  BY DEF Renumbering
<1> HIDE DEF num
<1>6. \A k \in 0..n : num[k] = IF k = 0 THEN first
                                ELSE IF num[k - 1] > nums[k] THEN num[k - 1] - 1 ELSE num[k - 1]
  BY <1>4 DEF n
<1> DEFINE S == {k \in 0..n : num[k] \in Nat}
<1>7. 0 \in S
  BY <1>1, <1>6
<1>8. ASSUME NEW k \in 1..n, k - 1 \in S
      PROVE  k \in S
  BY <1>1, <1>2, <1>6, <1>8, SMTT(60)
<1>9. 0..n \subseteq S
  <2> HIDE DEF S
  <2> QED
    BY <1>1, <1>7, <1>8, NumberInduction
<1> QED
  BY <1>5, <1>9 DEF n

-----------------------------------------------------------------------------
(***************************************************************************)
(* Types                                                                   *)
(***************************************************************************)
FiniteInv == IsFiniteSet(files) /\ (pc # "idle" => IsFiniteSet(scan.cur))

\* What is inductive: numbers are taken from the cache, so that the objects
\* are well-formed as long as the count stays within it, and a listing can be
\* put in order as it is finite.
TypeInv == TypeOK /\ CountWithinCache /\ FiniteInv

\* Names, and what is made of them.
LEMMA NameType ==
  /\ \A id \in Ids, flags \in SUBSET Flags : Name(id, flags) \in Names
  /\ \A id \in Ids : Name(id, NoInfo) \in Names
  /\ \A name \in Names : extractFlags(name) \in SUBSET Flags /\ name.id \in Ids
  /\ \A name \in Names : Moved(name) \in Names /\ Moved(name).id = name.id
<1>0. \A id \in Ids, info \in Infos : Name(id, info) \in Names
  BY DEF Name, Names
<1>1. \A id \in Ids, flags \in SUBSET Flags : Name(id, flags) \in Names
  <2>1. \A flags \in SUBSET Flags : flags \in Infos
    BY DEF Infos
  <2> QED
    BY <1>0, <2>1
<1>2. \A id \in Ids : Name(id, NoInfo) \in Names
  <2>1. NoInfo \in Infos
    BY DEF Infos
  <2> QED
    BY <1>0, <2>1
<1>3. \A name \in Names : extractFlags(name) \in SUBSET Flags /\ name.id \in Ids
  BY DEF Names, extractFlags
<1>4. \A name \in Names : Moved(name) \in Names /\ Moved(name).id = name.id
  <2> TAKE name \in Names
  <2>1. name.id \in Ids /\ {} \in SUBSET Flags
    BY <1>3
  <2> QED
    BY <1>1, <2>1 DEF Moved, Name
<1> QED
  BY <1>1, <1>2, <1>3, <1>4

\* A cached message keeps the name it was found under.
LEMMA CachedAsType ==
  ASSUME NEW path \in Names
  PROVE  CachedAs(path) \in MessageInfos /\ CachedAs(path).path = path
  BY DEF CachedAs, MessageInfos, TypeOf

\* A listing of finitely many files.
LEMMA ListingType ==
  ASSUME files \subseteq Files, IsFiniteSet(files), NEW dir
  PROVE  Listing(dir) \in SUBSET Names /\ IsFiniteSet(Listing(dir))
<1> DEFINE S == {x \in files : x.dir = dir}
           name == [x \in S |-> x.name]
<1>1. Listing(dir) \in SUBSET Names
  BY DEF Listing, Files
<1>2. IsFiniteSet(S)
  BY FS_Subset
<1>3. name \in Surjection(S, Listing(dir))
  BY DEF Surjection, Listing
<1> HIDE DEF S, name
<1> QED
  BY <1>1, <1>2, <1>3, FS_Surjection

\* A rename changes no more than a name, or creates one file.
LEMMA RenamedType ==
  ASSUME files \subseteq Files, IsFiniteSet(files), NEW dir, NEW name, NEW to \in Names
  PROVE  Renamed(dir, name, to) \subseteq Files /\ IsFiniteSet(Renamed(dir, name, to))
<1> DEFINE moved(f) == IF f.dir = dir /\ f.name = name THEN File("cur", to, f.full) ELSE f
           T == {moved(f) : f \in files}
           move == [f \in files |-> moved(f)]
<1>1. File("cur", to, FALSE) \in Files
  BY DEF File, Files, Dirs
<1>2. IsFiniteSet(files \cup {File("cur", to, FALSE)})
  BY FS_AddElement
<1>3. T \subseteq Files
  BY DEF File, Files, Dirs
<1>4. move \in Surjection(files, T)
  BY DEF Surjection
<1>5. IsFiniteSet(T)
  <2> HIDE DEF T, move
  <2> QED
    BY <1>4, FS_Surjection
<1>6. Renamed(dir, name, to) \in {files, files \cup {File("cur", to, FALSE)}, T}
  BY DEF Renamed
<1> HIDE DEF T
<1> QED
  BY <1>1, <1>2, <1>3, <1>5, <1>6

\* The count and the cache of one folder object are replaced.
LEMMA CacheType ==
  ASSUME TypeInv, NEW f \in Folders, NEW count \in Nat, NEW infos \in Seq(MessageInfos),
         count <= Len(infos), Cache(f, count, infos)
  PROVE  /\ m_messageCount' \in [Folders -> Nat]
         /\ m_messageInfos' \in [Folders -> Seq(MessageInfos)]
         /\ CountWithinCache'
  BY DEF TypeInv, TypeOK, CountWithinCache, Cache

\* The same for all of them.
LEMMA ShareType ==
  ASSUME NEW f, NEW count \in Nat, NEW infos \in Seq(MessageInfos),
         count <= Len(infos), Share(f, count, infos)
  PROVE  /\ m_messageCount' \in [Folders -> Nat]
         /\ m_messageInfos' \in [Folders -> Seq(MessageInfos)]
         /\ CountWithinCache'
  BY DEF CountWithinCache, Share

\* The start of a scan, with files in the directory before and after.
LEMMA ScanBeginsType ==
  ASSUME TypeInv, NEW f \in Folders, NEW status \in BOOLEAN, NEW mode \in {"closed", "ro", "rw"},
         ScanBegins(f, status, mode), files' \subseteq Files, IsFiniteSet(files'),
         used' \subseteq Ids, removed' \subseteq used', others' \in Nat
  PROVE  TypeInv'
<1>1. /\ files \subseteq Files /\ IsFiniteSet(files) /\ scans \in Nat /\ 0 \in Nat
      /\ m_messageCount[f] \in Nat /\ m_messageInfos[f] \in Seq(MessageInfos)
  BY DEF TypeInv, TypeOK, FiniteInv
<1>2. 0 <= Len(m_messageInfos[f])
  BY <1>1
<1>3. /\ m_messageCount' \in [Folders -> Nat]
      /\ m_messageInfos' \in [Folders -> Seq(MessageInfos)]
      /\ CountWithinCache'
  BY <1>1, <1>2, CacheType DEF ScanBegins
<1>4. Listing("new") \in SUBSET Names
  BY <1>1, ListingType
<1>5. scan' \in Scans /\ scan'.cur = {} /\ pc' = "cur" /\ scans' = scans + 1
  <2> DEFINE new == Listing("new")
             present == {id \in Ids : Stored(id, files')}
  <2>1. new \in SUBSET Names /\ present \in SUBSET Ids
    BY <1>4
  <2>2. scan' = [folder |-> f, status |-> status, mode |-> mode, oldCount |-> m_messageCount[f],
              new |-> new, cur |-> {}, present |-> present]
    BY DEF ScanBegins
  <2> HIDE DEF new, present
  <2> QED
    BY <1>1, <2>1, <2>2 DEF ScanBegins, Scans
<1>6. IsFiniteSet({})
  BY FS_EmptySet
<1> QED
  BY <1>1, <1>3, <1>5, <1>6 DEF TypeInv, TypeOK, FiniteInv, ScanBegins

\* Steps that touch the files alone, or nothing.
LEMMA FilesType ==
  ASSUME TypeInv, UNCHANGED clientVars, files' \subseteq Files, IsFiniteSet(files'),
         used' \subseteq Ids, removed' \subseteq used', others' \in Nat
  PROVE  TypeInv'
  BY DEF TypeInv, TypeOK, CountWithinCache, FiniteInv, clientVars, folderVars

-----------------------------------------------------------------------------
(***************************************************************************)
(* The actions keep the types                                              *)
(***************************************************************************)
\* A scan that open or getStatus begins.
LEMMA ScanFolderType ==
  ASSUME TypeInv, NEW f \in Folders, NEW status \in BOOLEAN, NEW mode \in {"closed", "ro", "rw"},
         scanFolder(f, status, mode)
  PROVE  TypeInv'
<1>1. /\ files' = files /\ used' = used /\ removed' = removed /\ others' = others
      /\ ScanBegins(f, status, mode)
  BY DEF scanFolder, maildirVars
<1>2. /\ files' \subseteq Files /\ IsFiniteSet(files')
      /\ used' \subseteq Ids /\ removed' \subseteq used' /\ others' \in Nat
  BY <1>1 DEF TypeInv, TypeOK, FiniteInv
<1> QED
  BY <1>1, <1>2, ScanBeginsType

\* What the loop over the listing of cur/ makes of the cache.
Matched(infos, found, known, match) ==
  [i \in DOMAIN infos |->
     IF i \in found THEN [infos[i] EXCEPT !.path = match[i]]
     ELSE IF i \in known THEN [infos[i] EXCEPT !.type = "DELETED"]
     ELSE infos[i]]

\* It is a cache of the same length.
LEMMA MatchedType ==
  ASSUME NEW infos \in Seq(MessageInfos), NEW found, NEW known,
         NEW match, \A i \in found : match[i] \in Names
  PROVE  /\ Matched(infos, found, known, match) \in Seq(MessageInfos)
         /\ DOMAIN Matched(infos, found, known, match) = DOMAIN infos
         /\ \A i \in DOMAIN infos : Matched(infos, found, known, match)[i].path =
              IF i \in found THEN match[i] ELSE infos[i].path
<1> DEFINE new == Matched(infos, found, known, match)
<1>1. \A i \in DOMAIN infos : infos[i] \in MessageInfos
  OBVIOUS
<1>2. DOMAIN new = DOMAIN infos
  BY DEF Matched
<1>3. ASSUME NEW i \in DOMAIN infos
      PROVE  new[i] \in MessageInfos /\ new[i].path = IF i \in found THEN match[i] ELSE infos[i].path
  BY <1>1 DEF MessageInfos, Matched
<1>4. new \in [1..Len(infos) -> MessageInfos]
  <2>1. new = [i \in DOMAIN new |-> new[i]]
    BY DEF Matched
  <2> HIDE DEF new
  <2> QED
    BY <1>2, <1>3, <2>1
<1>5. Len(infos) \in Nat
  OBVIOUS
<1> HIDE DEF new
<1>6. new \in Seq(MessageInfos)
  BY <1>4, <1>5
<1> QED
  BY <1>2, <1>3, <1>6 DEF new

\* The listing of cur/ and the loop that looks up the cached messages in it.
LEMMA MatchMessagesType ==
  ASSUME TypeInv, matchMessages
  PROVE  TypeInv'
<1> DEFINE f == scan.folder
           infos == m_messageInfos[f]
           known == {i \in DOMAIN infos : infos[i].type = "CUR"}
           listed == Listing("cur")
<1>1. /\ scan \in Scans /\ f \in Folders /\ infos \in Seq(MessageInfos)
      /\ files \subseteq Files /\ IsFiniteSet(files)
  BY DEF TypeInv, TypeOK, FiniteInv, Scans, matchMessages
<1>2. listed \in SUBSET Names /\ IsFiniteSet(listed)
  BY <1>1, ListingType
<1>3. PICK found \in SUBSET known : \E match \in [found -> listed] :
        /\ Cache(f, 0,
             [i \in DOMAIN infos |->
                IF i \in found THEN [infos[i] EXCEPT !.path = match[i]]
                ELSE IF i \in known THEN [infos[i] EXCEPT !.type = "DELETED"]
                ELSE infos[i]])
        /\ scan' = [scan EXCEPT !.cur = {name \in listed : \A i \in found : match[i] # name}]
  BY DEF matchMessages
<1>4. PICK match \in [found -> listed] :
        /\ Cache(f, 0,
             [i \in DOMAIN infos |->
                IF i \in found THEN [infos[i] EXCEPT !.path = match[i]]
                ELSE IF i \in known THEN [infos[i] EXCEPT !.type = "DELETED"]
                ELSE infos[i]])
        /\ scan' = [scan EXCEPT !.cur = {name \in listed : \A i \in found : match[i] # name}]
  BY <1>3
<1>5. /\ pc' = "new" /\ m_mode' = m_mode /\ m_messages' = m_messages /\ scans' = scans
      /\ files' = files /\ used' = used /\ removed' = removed /\ others' = others
  BY DEF matchMessages, maildirVars
<1> DEFINE matched == Matched(infos, found, known, match)
           left == {name \in listed : \A i \in found : match[i] # name}
<1>6. Cache(f, 0, matched) /\ scan' = [scan EXCEPT !.cur = left]
  BY <1>4 DEF Matched
<1>7. left \in SUBSET listed
  OBVIOUS
<1> HIDE DEF listed, known, infos
<1>8. matched \in Seq(MessageInfos) /\ 0 <= Len(matched)
  <2>1. \A i \in found : match[i] \in Names
    BY <1>2, <1>4
  <2>2. matched \in Seq(MessageInfos)
    BY <1>1, <2>1, MatchedType
  <2> HIDE DEF matched
  <2> QED
    BY <2>2
<1> HIDE DEF matched, left, f
<1>9. left \in SUBSET Names /\ IsFiniteSet(left)
  BY <1>2, <1>7, FS_Subset
<1>10. /\ m_messageCount' \in [Folders -> Nat]
       /\ m_messageInfos' \in [Folders -> Seq(MessageInfos)]
       /\ CountWithinCache'
  BY <1>1, <1>6, <1>8, CacheType
<1>11. scan' \in Scans /\ scan'.cur = left
  BY <1>1, <1>6, <1>9 DEF Scans
<1> QED
  BY <1>5, <1>9, <1>10, <1>11 DEF TypeInv, TypeOK, FiniteInv

\* A message of new/ is moved to cur/ and cached.
LEMMA MoveNewType ==
  ASSUME TypeInv, moveNew
  PROVE  TypeInv'
<1> DEFINE f == scan.folder
           infos == m_messageInfos[f]
<1>1. /\ scan \in Scans /\ f \in Folders /\ infos \in Seq(MessageInfos)
      /\ files \subseteq Files /\ IsFiniteSet(files) /\ IsFiniteSet(scan.cur)
  BY DEF TypeInv, TypeOK, FiniteInv, Scans, moveNew
<1>2. PICK name \in scan.new :
        /\ files' = Renamed("new", name, Moved(name))
        /\ Cache(f, 0, Append(infos, CachedAs(Moved(name))))
        /\ scan' = [scan EXCEPT !.new = @ \ {name}]
  BY DEF moveNew
<1>3. name \in Names /\ Moved(name) \in Names
  BY <1>1, NameType DEF Scans
<1>4. files' \subseteq Files /\ IsFiniteSet(files')
  BY <1>1, <1>2, <1>3, RenamedType
<1>5. CachedAs(Moved(name)) \in MessageInfos
  BY <1>3, CachedAsType
<1> HIDE DEF infos
<1> DEFINE grown == Append(infos, CachedAs(Moved(name)))
<1>6. grown \in Seq(MessageInfos)
  BY <1>1, <1>5
<1>7. /\ m_messageCount' \in [Folders -> Nat]
      /\ m_messageInfos' \in [Folders -> Seq(MessageInfos)]
      /\ CountWithinCache'
  <2>1. Cache(f, 0, grown)
    BY <1>2
  <2> HIDE DEF grown
  <2>2. 0 <= Len(grown)
    BY <1>6
  <2> QED
    BY <1>1, <1>6, <2>1, <2>2, CacheType
<1>8. scan' \in Scans /\ scan'.cur = scan.cur
  BY <1>1, <1>2 DEF Scans
<1> QED
  BY <1>1, <1>4, <1>7, <1>8 DEF TypeInv, TypeOK, FiniteInv, moveNew

\* A rename that fails ends the scan.
LEMMA MoveFailsType ==
  ASSUME TypeInv, moveFails
  PROVE  TypeInv'
<1>1. /\ scan \in Scans /\ scan.mode \in {"closed", "ro", "rw"} /\ scan.folder \in Folders
      /\ files \subseteq Files /\ IsFiniteSet(files)
  BY DEF TypeInv, TypeOK, FiniteInv, Scans, moveFails
<1>2. PICK name \in scan.new : files' = Renamed("new", name, Moved(name))
  BY DEF moveFails
<1>3. name \in Names /\ Moved(name) \in Names
  BY <1>1, NameType DEF Scans
<1>4. files' \subseteq Files /\ IsFiniteSet(files')
  BY <1>1, <1>2, <1>3, RenamedType
<1>5. m_mode' \in [Folders -> {"closed", "ro", "rw"}]
  BY <1>1 DEF TypeInv, TypeOK, moveFails
<1> QED
  BY <1>4, <1>5 DEF TypeInv, TypeOK, CountWithinCache, FiniteInv, moveFails

\* The names that are left of the listing of cur/ go into the cache.
LEMMA ScanEndsType ==
  ASSUME TypeInv, scanEnds
  PROVE  TypeInv'
<1> DEFINE f == scan.folder
           cache == m_messageInfos[f]
           n == Cardinality(scan.cur)
<1>1. /\ scan \in Scans /\ scan.mode \in {"closed", "ro", "rw"} /\ f \in Folders
      /\ cache \in Seq(MessageInfos) /\ IsFiniteSet(scan.cur) /\ scan.cur \subseteq Names
  BY DEF TypeInv, TypeOK, FiniteInv, Scans, scanEnds
<1>2. n \in Nat
  BY <1>1, FS_CardinalityType
<1>3. PICK order \in Orders(scan.cur) :
        LET infos == cache \o [i \in DOMAIN order |-> CachedAs(order[i])]
        IN  Share(f, Len(infos), infos) \/ Cache(f, Len(infos), infos)
  BY DEF scanEnds
<1>4. order \in [1..n -> scan.cur]
  BY <1>3 DEF Orders
<1> DEFINE found == [i \in DOMAIN order |-> CachedAs(order[i])]
<1>5. found \in Seq(MessageInfos)
  <2>1. \A i \in 1..n : CachedAs(order[i]) \in MessageInfos
    BY <1>1, <1>4, CachedAsType
  <2>2. found \in [1..n -> MessageInfos]
    BY <1>4, <2>1
  <2> QED
    BY <1>2, <2>2
<1> HIDE DEF found, cache
<1>6. cache \o found \in Seq(MessageInfos)
  BY <1>1, <1>5
<1> DEFINE infos == cache \o found
<1>7. infos \in Seq(MessageInfos) /\ Len(infos) \in Nat
  BY <1>6
<1>8. Share(f, Len(infos), infos) \/ Cache(f, Len(infos), infos)
  BY <1>3 DEF found
<1> HIDE DEF infos
<1>9. Len(infos) <= Len(infos)
  BY <1>7
<1>10. /\ m_messageCount' \in [Folders -> Nat]
       /\ m_messageInfos' \in [Folders -> Seq(MessageInfos)]
       /\ CountWithinCache'
  BY <1>1, <1>7, <1>8, <1>9, CacheType, ShareType
<1>11. m_mode' \in [Folders -> {"closed", "ro", "rw"}]
  BY <1>1 DEF TypeInv, TypeOK, scanEnds
<1> QED
  BY <1>10, <1>11 DEF TypeInv, TypeOK, FiniteInv, scanEnds, maildirVars

\* The calls.
LEMMA GetMessageType ==
  ASSUME TypeInv, NEW f \in Folders, NEW num, getMessage(f, num)
  PROVE  TypeInv'
<1> DEFINE object == [num |-> num, expunged |-> FALSE, id |-> m_messageInfos[f][num].path.id]
<1>1. /\ m_messageInfos[f] \in Seq(MessageInfos) /\ m_messages[f] \in Seq(Objects)
      /\ m_messageCount[f] \in Nat /\ m_messageCount[f] <= Len(m_messageInfos[f])
  BY DEF TypeInv, TypeOK, CountWithinCache
<1>2. num \in Nat /\ num \in 1..Len(m_messageInfos[f])
  BY <1>1 DEF getMessage
<1>3. m_messageInfos[f][num] \in MessageInfos
  BY <1>1, <1>2
<1>4. object \in Objects
  BY <1>2, <1>3 DEF Objects, MessageInfos, Names
<1>5. m_messages' = [m_messages EXCEPT ![f] = Append(m_messages[f], object)]
  BY DEF getMessage
<1> HIDE DEF object
<1>6. Append(m_messages[f], object) \in Seq(Objects)
  BY <1>1, <1>4
<1>7. m_messages' \in [Folders -> Seq(Objects)]
  BY <1>5, <1>6 DEF TypeInv, TypeOK
<1> QED
  BY <1>7 DEF TypeInv, TypeOK, CountWithinCache, FiniteInv, getMessage, maildirVars

\* A cache in which one message has another name and type.
LEMMA SetInfoType ==
  ASSUME NEW infos \in Seq(MessageInfos), NEW num \in 1..Len(infos), NEW info \in MessageInfos
  PROVE  /\ [infos EXCEPT ![num] = info] \in Seq(MessageInfos)
         /\ Len([infos EXCEPT ![num] = info]) = Len(infos)
  OBVIOUS

\* A message's flags are changed, in its file name and in the cache.
LEMMA SetMessageFlagsType ==
  ASSUME TypeInv, NEW f \in Folders, NEW num, NEW flags \in SUBSET Flags,
         NEW how \in {"add", "remove", "set"}, setMessageFlags(f, num, flags, how)
  PROVE  TypeInv'
<1> DEFINE infos == m_messageInfos[f]
           info == infos[num]
           path == Name(info.path.id, NewFlags(extractFlags(info.path), flags, how))
<1>1. /\ infos \in Seq(MessageInfos) /\ m_messageCount[f] \in Nat
      /\ m_messageCount[f] <= Len(infos) /\ files \subseteq Files /\ IsFiniteSet(files)
  BY DEF TypeInv, TypeOK, CountWithinCache, FiniteInv
<1>2. num \in 1..Len(infos)
  BY <1>1 DEF setMessageFlags
<1>3. info.path \in Names
  <2>1. infos[num] \in MessageInfos
    BY <1>1, <1>2
  <2> QED
    BY <2>1 DEF MessageInfos
<1>4. path \in Names
  <2>1. extractFlags(info.path) \in SUBSET Flags /\ info.path.id \in Ids
    BY <1>3, NameType
  <2>2. NewFlags(extractFlags(info.path), flags, how) \in SUBSET Flags
    BY <2>1 DEF NewFlags
  <2> QED
    BY <2>1, <2>2, NameType
<1>5. /\ files' = Renamed("cur", info.path, path)
      /\ \/ m_messageInfos' = [m_messageInfos EXCEPT ![f] = [infos EXCEPT ![num] = Flagged(info, path, flags)]]
         \/ m_messageInfos' = m_messageInfos
      /\ UNCHANGED <<pc, scan, m_mode, m_messageCount, m_messages, scans, used, removed, others>>
  BY DEF setMessageFlags
<1> HIDE DEF path, info
<1>6. files' \subseteq Files /\ IsFiniteSet(files')
  BY <1>1, <1>4, <1>5, RenamedType
<1>7. Flagged(info, path, flags) \in MessageInfos
  BY <1>4 DEF Flagged, MessageInfos, TypeOf
<1> DEFINE new == [infos EXCEPT ![num] = Flagged(info, path, flags)]
<1>8. new \in Seq(MessageInfos) /\ Len(new) = Len(infos)
  BY <1>1, <1>2, <1>7, SetInfoType
<1> HIDE DEF new
<1>9. m_messageInfos' \in [Folders -> Seq(MessageInfos)] /\ CountWithinCache'
  <2>1. CASE m_messageInfos' = [m_messageInfos EXCEPT ![f] = new]
    BY <1>1, <1>5, <1>8, <2>1 DEF TypeInv, TypeOK, CountWithinCache
  <2>2. CASE m_messageInfos' = m_messageInfos
    BY <1>5, <2>2 DEF TypeInv, TypeOK, CountWithinCache
  <2> QED
    BY <1>5, <2>1, <2>2 DEF new
<1> QED
  BY <1>5, <1>6, <1>9 DEF TypeInv, TypeOK, FiniteInv

\* A message is added, and every folder object's cache gets it.
LEMMA AddMessageType ==
  ASSUME TypeInv, NEW f \in Folders, NEW id \in Ids, NEW recent \in BOOLEAN,
         NEW flags \in SUBSET Flags, addMessage(f, id, recent, flags)
  PROVE  TypeInv'
<1> DEFINE path == Name(id, IF recent THEN NoInfo ELSE flags)
           infos == m_messageInfos[f]
           info == [path |-> path, type |-> "CUR"]
           file == File(IF recent THEN "new" ELSE "cur", path, TRUE)
<1>1. /\ infos \in Seq(MessageInfos) /\ m_messageCount[f] \in Nat
      /\ m_messageCount[f] <= Len(infos) /\ files \subseteq Files /\ IsFiniteSet(files)
  BY DEF TypeInv, TypeOK, CountWithinCache, FiniteInv
<1>2. path \in Names
  BY NameType
<1> HIDE DEF path
<1>3. info \in MessageInfos
  BY <1>2 DEF MessageInfos
<1>4. file \in Files
  BY <1>2 DEF File, Files, Dirs
<1>5. /\ files' = files \cup {file} /\ used' = used \cup {id}
      /\ Share(f, m_messageCount[f] + 1, Append(infos, info))
      /\ UNCHANGED <<pc, scan, m_mode, m_messages, scans, removed, others>>
  BY DEF addMessage, path
<1> HIDE DEF file, info
<1>6. files' \subseteq Files /\ IsFiniteSet(files')
  BY <1>1, <1>4, <1>5, FS_AddElement
<1>7. /\ Append(infos, info) \in Seq(MessageInfos) /\ m_messageCount[f] + 1 \in Nat
      /\ m_messageCount[f] + 1 <= Len(Append(infos, info))
  BY <1>1, <1>3
<1>8. /\ m_messageCount' \in [Folders -> Nat]
      /\ m_messageInfos' \in [Folders -> Seq(MessageInfos)]
      /\ CountWithinCache'
  BY <1>5, <1>7, ShareType
<1> QED
  BY <1>5, <1>6, <1>8 DEF TypeInv, TypeOK, FiniteInv

\* A message is copied within the maildir.
LEMMA CopyMessagesType ==
  ASSUME TypeInv, NEW f \in Folders, NEW num, copyMessages(f, num)
  PROVE  TypeInv'
<1> DEFINE path == m_messageInfos[f][num].path
<1>1. /\ m_messageInfos[f] \in Seq(MessageInfos) /\ m_messageCount[f] \in Nat
      /\ m_messageCount[f] <= Len(m_messageInfos[f]) /\ files \subseteq Files /\ IsFiniteSet(files)
      /\ used \subseteq Ids /\ removed \subseteq used /\ others \in Nat
  BY DEF TypeInv, TypeOK, CountWithinCache, FiniteInv
<1>2. num \in 1..Len(m_messageInfos[f])
  BY <1>1 DEF copyMessages
<1>3. path \in Names
  <2>1. m_messageInfos[f][num] \in MessageInfos
    BY <1>1, <1>2
  <2> QED
    BY <2>1 DEF MessageInfos
<1>4. others' = others /\ Copied(f, num)
  BY DEF copyMessages
<1>5. /\ files' \subseteq Files /\ IsFiniteSet(files')
      /\ used' \subseteq Ids /\ removed' \subseteq used' /\ others' \in Nat
  <2>1. CASE UNCHANGED <<files, used, removed>>
    BY <1>1, <1>4, <2>1
  <2>2. CASE \E file \in files, id \in Ids \ used :
               /\ files' = files \cup {File("cur", Name(id, extractFlags(path)), file.full)}
               /\ used' = used \cup {id}
               /\ removed' = IF file.full THEN removed ELSE removed \cup {id}
    <3>1. PICK file \in files, id \in Ids \ used :
               /\ files' = files \cup {File("cur", Name(id, extractFlags(path)), file.full)}
               /\ used' = used \cup {id}
               /\ removed' = IF file.full THEN removed ELSE removed \cup {id}
      BY <2>2
    <3> DEFINE copy == File("cur", Name(id, extractFlags(path)), file.full)
    <3>2. Name(id, extractFlags(path)) \in Names
      BY <1>3, NameType
    <3>3. copy \in Files
      BY <1>1, <3>2 DEF File, Files, Dirs
    <3> HIDE DEF copy
    <3>4. files' = files \cup {copy}
      BY <3>1 DEF copy
    <3>5. IsFiniteSet(files')
      BY <1>1, <3>4, FS_AddElement
    <3> QED
      BY <1>1, <1>4, <3>1, <3>3, <3>4, <3>5
  <2> QED
    BY <1>4, <2>1, <2>2 DEF Copied
<1>6. CASE \E g \in Folders \ {f} : ScanBegins(g, TRUE, m_mode[g])
  <2>1. PICK g \in Folders : ScanBegins(g, TRUE, m_mode[g])
    BY <1>6
  <2>2. m_mode[g] \in {"closed", "ro", "rw"} /\ TRUE \in BOOLEAN
    BY DEF TypeInv, TypeOK
  <2>3. \A b \in BOOLEAN : ScanBegins(g, b, m_mode[g]) => TypeInv'
    BY <1>5, <2>2, ScanBeginsType
  <2> QED
    BY <2>1, <2>2, <2>3
<1>7. CASE UNCHANGED clientVars
  BY <1>5, <1>7, FilesType
<1> QED
  BY <1>6, <1>7 DEF copyMessages


\* What is left of a cache when its first n messages have gone.
LEMMA ErasedType ==
  ASSUME NEW infos \in Seq(MessageInfos), NEW n \in Nat, n <= Len(infos)
  PROVE  /\ SubSeq(infos, n + 1, Len(infos)) \in Seq(MessageInfos)
         /\ Len(SubSeq(infos, n + 1, Len(infos))) = Len(infos) - n
  OBVIOUS

\* The removal, from the directory, of the files that are no longer in fs.
LEMMA RecordRemovedType ==
  ASSUME NEW fs, removed \subseteq used, RecordRemoved(fs)
  PROVE  removed' \subseteq used
  BY DEF RecordRemoved

\* What close(true) and expunge have in common.
LEMMA ExpungeFilesType ==
  ASSUME TypeInv, NEW f \in Folders, Expunge(f)
  PROVE  /\ files' \subseteq files /\ IsFiniteSet(files') /\ removed' \subseteq used
         /\ m_messageCount' \in [Folders -> Nat]
         /\ m_messageInfos' \in [Folders -> Seq(MessageInfos)]
         /\ CountWithinCache'
<1> DEFINE nums == DeletedNumbers(f)
           infos == m_messageInfos[f]
           count == m_messageCount[f]
           gone == {File("cur", infos[nums[k]].path, full) : k \in DOMAIN nums, full \in BOOLEAN}
<1>1. /\ infos \in Seq(MessageInfos) /\ count \in Nat /\ count <= Len(infos)
      /\ files \subseteq Files /\ IsFiniteSet(files) /\ removed \subseteq used
  BY DEF TypeInv, TypeOK, CountWithinCache, FiniteInv
<1>2. nums \in Seq(Nat) /\ Len(nums) <= count
  BY <1>1, DeletedAmongType DEF DeletedNumbers
<1>3. /\ files' = files \ gone /\ RecordRemoved(files \ gone)
      /\ Share(f, count - Len(nums), SubSeq(infos, Len(nums) + 1, Len(infos)))
  BY DEF Expunge, Erased
<1> HIDE DEF nums, infos, count, gone
<1>4. files' \subseteq files
  BY <1>3
<1>5. IsFiniteSet(files')
  BY <1>1, <1>4, FS_Subset
<1>6. removed' \subseteq used
  BY <1>1, <1>3, RecordRemovedType
<1> DEFINE n == Len(nums)
           rest == SubSeq(infos, n + 1, Len(infos))
<1>7. n \in Nat /\ n <= count
  BY <1>2
<1>8. Len(infos) \in Nat /\ n <= Len(infos) /\ count - n \in Nat
  BY <1>1, <1>7
<1>9. rest \in Seq(MessageInfos) /\ Len(rest) = Len(infos) - n
  BY <1>1, <1>7, <1>8, ErasedType
<1>10. Share(f, count - n, rest)
  BY <1>3
<1> HIDE DEF n, rest
<1>11. count - n <= Len(rest)
  BY <1>1, <1>7, <1>8, <1>9
<1>12. /\ m_messageCount' \in [Folders -> Nat]
       /\ m_messageInfos' \in [Folders -> Seq(MessageInfos)]
       /\ CountWithinCache'
  BY <1>8, <1>9, <1>10, <1>11, ShareType
<1> QED
  BY <1>4, <1>5, <1>6, <1>12

\* A message object whose number has been brought up to date.
LEMMA RenumberedType ==
  ASSUME NEW object \in Objects, NEW nums \in Seq(Nat)
  PROVE  Renumbered(object, nums) \in Objects
<1> DEFINE num == Renumbering(object.num, nums)
           last == num[Len(nums)]
           hit == object.expunged \/ \E k \in DOMAIN nums : num[k - 1] = nums[k]
<1>1. object.num \in Nat /\ Len(nums) \in 0..Len(nums)
  BY DEF Objects
<1>2. last \in Nat
  BY <1>1, RenumberingType
<1>3. hit \in BOOLEAN
  BY DEF Objects
<1>4. Renumbered(object, nums) = [object EXCEPT !.num = last, !.expunged = hit]
  BY DEF Renumbered
<1> HIDE DEF last, hit
<1> QED
  BY <1>2, <1>3, <1>4 DEF Objects

\* Deleted messages go, and the message objects get new numbers.
LEMMA ExpungeType ==
  ASSUME TypeInv, NEW f \in Folders, expunge(f)
  PROVE  TypeInv'
<1> DEFINE nums == DeletedNumbers(f)
           objects == m_messages[f]
           renumbered == [i \in DOMAIN objects |-> Renumbered(objects[i], nums)]
<1>1. objects \in Seq(Objects) /\ nums \in Seq(Nat)
  BY DeletedAmongType DEF TypeInv, TypeOK, DeletedNumbers
<1>2. Expunge(f) /\ m_messages' = [m_messages EXCEPT ![f] = renumbered] /\ m_mode' = m_mode
  BY DEF expunge
<1> HIDE DEF nums, objects
<1>3. renumbered \in Seq(Objects)
  <2>1. \A i \in 1..Len(objects) : objects[i] \in Objects
    BY <1>1
  <2>2. \A i \in 1..Len(objects) : Renumbered(objects[i], nums) \in Objects
    BY <1>1, <2>1, RenumberedType
  <2>3. renumbered \in [1..Len(objects) -> Objects] /\ Len(objects) \in Nat
    BY <1>1, <2>2
  <2> QED
    BY <2>3
<1> HIDE DEF renumbered
<1>4. m_messages' \in [Folders -> Seq(Objects)]
  BY <1>2, <1>3 DEF TypeInv, TypeOK
<1>5. /\ files' \subseteq files /\ IsFiniteSet(files') /\ removed' \subseteq used
      /\ m_messageCount' \in [Folders -> Nat]
      /\ m_messageInfos' \in [Folders -> Seq(MessageInfos)]
      /\ CountWithinCache'
  BY <1>2, ExpungeFilesType
<1>6. pc' = pc /\ scan' = scan /\ scans' = scans /\ used' = used /\ others' = others
  BY <1>2 DEF Expunge
<1> QED
  BY <1>2, <1>4, <1>5, <1>6 DEF TypeInv, TypeOK, FiniteInv

\* A folder is closed, with an expunge or without.
LEMMA CloseType ==
  ASSUME TypeInv, NEW f \in Folders, NEW expunging \in BOOLEAN, close(f, expunging)
  PROVE  TypeInv'
<1>1. m_mode' \in [Folders -> {"closed", "ro", "rw"}] /\ m_messages' \in [Folders -> Seq(Objects)]
  <2>1. <<>> \in Seq(Objects)
    OBVIOUS
  <2> QED
    BY <2>1 DEF TypeInv, TypeOK, close, Closed
<1>2. CASE Expunge(f)
  <2>1. /\ files' \subseteq files /\ IsFiniteSet(files') /\ removed' \subseteq used
        /\ m_messageCount' \in [Folders -> Nat]
        /\ m_messageInfos' \in [Folders -> Seq(MessageInfos)]
        /\ CountWithinCache'
    BY <1>2, ExpungeFilesType
  <2>2. pc' = pc /\ scan' = scan /\ scans' = scans /\ used' = used /\ others' = others
    BY <1>2 DEF Expunge
  <2> QED
    BY <1>1, <2>1, <2>2 DEF TypeInv, TypeOK, FiniteInv
<1>3. CASE UNCHANGED <<pc, scan, m_messageCount, m_messageInfos, scans, maildirVars>>
  BY <1>1, <1>3 DEF TypeInv, TypeOK, CountWithinCache, FiniteInv, maildirVars
<1> QED
  BY <1>2, <1>3 DEF close

\* A process that starts again has no folder open and nothing cached.
LEMMA RestartType ==
  ASSUME TypeInv, restart
  PROVE  TypeInv'
<1>1. files \subseteq Files /\ IsFiniteSet(files) /\ others \in Nat /\ pc' = "idle"
  BY DEF TypeInv, TypeOK, FiniteInv, restart
<1>2. others' \in Nat
  BY <1>1 DEF restart, OtherStep
<1>3. files' \subseteq Files /\ IsFiniteSet(files')
  <2>1. CASE UNCHANGED files
    BY <1>1, <2>1
  <2>2. CASE \E to \in RenameTargets : files' = files \cup {File("cur", to, FALSE)}
    <3>1. PICK to \in RenameTargets : files' = files \cup {File("cur", to, FALSE)}
      BY <2>2
    <3>2. to \in Names /\ "cur" \in Dirs /\ FALSE \in BOOLEAN
      BY DEF RenameTargets, Dirs
    <3>3. File("cur", to, FALSE) \in Files
      BY <3>2 DEF File, Files
    <3> QED
      BY <1>1, <3>1, <3>3, FS_AddElement
  <2> QED
    BY <2>1, <2>2 DEF restart
<1>4. /\ m_mode' \in [Folders -> {"closed", "ro", "rw"}]
      /\ m_messageCount' \in [Folders -> Nat]
      /\ m_messageInfos' \in [Folders -> Seq(MessageInfos)]
      /\ m_messages' \in [Folders -> Seq(Objects)]
  <2>1. <<>> \in Seq(Objects) /\ <<>> \in Seq(MessageInfos) /\ 0 \in Nat
    OBVIOUS
  <2> QED
    BY <2>1 DEF restart
<1>5. CountWithinCache'
  BY DEF CountWithinCache, restart
<1> QED
  BY <1>1, <1>2, <1>3, <1>4, <1>5 DEF TypeInv, TypeOK, FiniteInv, restart

\* The delivery agent and the other readers.
LEMMA OthersType ==
  ASSUME TypeInv, Others
  PROVE  TypeInv'
<1>1. /\ files \subseteq Files /\ IsFiniteSet(files) /\ others \in Nat
      /\ used \subseteq Ids /\ removed \subseteq used /\ UNCHANGED clientVars
  BY DEF TypeInv, TypeOK, FiniteInv, Others
<1>2. /\ files' \subseteq Files /\ IsFiniteSet(files')
      /\ used' \subseteq Ids /\ removed' \subseteq used' /\ others' \in Nat
  <2>1. CASE \E id \in Ids : deliver(id)
    <3>1. PICK id \in Ids : deliver(id)
      BY <2>1
    <3>2. Name(id, NoInfo) \in Names /\ "new" \in Dirs /\ TRUE \in BOOLEAN
      BY NameType DEF Dirs
    <3>3. File("new", Name(id, NoInfo), TRUE) \in Files
      BY <3>2 DEF File, Files
    <3> QED
      BY <1>1, <3>1, <3>3, FS_AddElement DEF deliver
  <2>2. CASE otherRenames
    <3>1. PICK f \in files, info \in SUBSET Flags :
            files' = (files \ {f}) \cup {File("cur", Name(f.name.id, info), f.full)}
      BY <2>2 DEF otherRenames
    <3>2. f.name \in Names /\ f.full \in BOOLEAN /\ "cur" \in Dirs
      BY <1>1 DEF Files, Dirs
    <3>3. Name(f.name.id, info) \in Names
      BY <3>2, NameType
    <3>4. File("cur", Name(f.name.id, info), f.full) \in Files
      BY <3>2, <3>3 DEF File, Files
    <3>5. IsFiniteSet(files \ {f})
      BY <1>1, FS_Difference
    <3>6. used' = used /\ removed' = removed /\ others' = others + 1
      BY <2>2 DEF otherRenames, OtherStep
    <3>7. IsFiniteSet(files')
      BY <3>1, <3>5, FS_AddElement
    <3>8. files' \subseteq Files
      BY <1>1, <3>1, <3>4
    <3> QED
      BY <1>1, <3>6, <3>7, <3>8
  <2>3. CASE otherRemoves
    <3>1. PICK f \in files : files' = files \ {f} /\ RecordRemoved(files \ {f})
      BY <2>3 DEF otherRemoves
    <3>2. IsFiniteSet(files') /\ files' \subseteq Files
      BY <1>1, <3>1, FS_Difference
    <3>3. removed' \subseteq used
      BY <1>1, <3>1, RecordRemovedType
    <3> QED
      BY <1>1, <2>3, <3>2, <3>3 DEF otherRemoves, OtherStep
  <2> QED
    BY <2>1, <2>2, <2>3 DEF Others
<1> QED
  BY <1>1, <1>2, FilesType

\* One step of any kind.
LEMMA TypeNext == TypeInv /\ [Next]_vars => TypeInv'
<1> SUFFICES ASSUME TypeInv, [Next]_vars
             PROVE  TypeInv'
  OBVIOUS
<1>1. ASSUME NEW f \in Folders, NEW mode \in {"ro", "rw"}, open(f, mode)
      PROVE  TypeInv'
  <2>1. FALSE \in BOOLEAN /\ mode \in {"closed", "ro", "rw"}
    OBVIOUS
  <2>2. \A b \in BOOLEAN : scanFolder(f, b, mode) => TypeInv'
    BY <2>1, ScanFolderType
  <2> QED
    BY <1>1, <2>1, <2>2 DEF open
<1>2. ASSUME NEW f \in Folders, getStatus(f)
      PROVE  TypeInv'
  <2>1. TRUE \in BOOLEAN /\ m_mode[f] \in {"closed", "ro", "rw"}
    BY DEF TypeInv, TypeOK
  <2>2. \A b \in BOOLEAN : scanFolder(f, b, m_mode[f]) => TypeInv'
    BY <2>1, ScanFolderType
  <2> QED
    BY <1>2, <2>1, <2>2 DEF getStatus
<1>3. ASSUME NEW f \in Folders, NEW num, deleteMessages(f, num)
      PROVE  TypeInv'
  <2>1. "add" \in {"add", "remove", "set"} /\ {"T"} \in SUBSET Flags
    BY MaildirAssumption
  <2> QED
    BY <1>3, <2>1, SetMessageFlagsType DEF deleteMessages
<1>4. ASSUME NEW f \in Folders, NEW id \in Ids, addMessage(f, id, TRUE, {})
      PROVE  TypeInv'
  <2>1. TRUE \in BOOLEAN /\ {} \in SUBSET Flags
    OBVIOUS
  <2>2. \A b \in BOOLEAN : addMessage(f, id, b, {}) => TypeInv'
    BY <2>1, AddMessageType
  <2> QED
    BY <1>4, <2>1, <2>2
<1>5. ASSUME NEW f \in Folders, NEW id \in Ids, NEW flags \in SUBSET Flags,
             addMessage(f, id, FALSE, flags)
      PROVE  TypeInv'
  <2>1. FALSE \in BOOLEAN
    OBVIOUS
  <2>2. \A b \in BOOLEAN : addMessage(f, id, b, flags) => TypeInv'
    BY AddMessageType
  <2> QED
    BY <1>5, <2>1, <2>2
<1>6. CASE Call
  BY <1>1, <1>2, <1>3, <1>4, <1>5, <1>6, ExpungeType, CloseType, GetMessageType,
     CopyMessagesType, SetMessageFlagsType DEF Call
<1>7. CASE Scan
  BY <1>7, MatchMessagesType, MoveNewType, MoveFailsType, ScanEndsType DEF Scan
<1>8. CASE UNCHANGED vars
  BY <1>8 DEF TypeInv, TypeOK, CountWithinCache, FiniteInv, vars, clientVars, folderVars, maildirVars
<1> QED
  BY <1>6, <1>7, <1>8, RestartType, OthersType DEF Next

\* The process starts with nothing open and an empty maildir.
LEMMA TypeInit == Init => TypeInv
<1> SUFFICES ASSUME Init
             PROVE  TypeInv
  OBVIOUS
<1>1. IsFiniteSet({}) /\ <<>> \in Seq(Objects) /\ <<>> \in Seq(MessageInfos) /\ 0 \in Nat
  BY FS_EmptySet
<1> QED
  BY <1>1 DEF Init, TypeInv, TypeOK, CountWithinCache, FiniteInv

\* In every reachable state numbers stay within the cache and the listings are
\* finite.
THEOREM MaildirInvariance == Spec => []TypeInv
  BY TypeInit, TypeNext, PTL DEF Spec

\* The variables of the folder objects and of the directory keep their types.
THEOREM MaildirTypeCorrect == Spec => []TypeOK
<1>1. TypeInv => TypeOK
  BY DEF TypeInv
<1> QED
  BY <1>1, MaildirInvariance, PTL

\* Every number that getMessage accepts is the position of a cached message.
THEOREM NumbersAreCached == Spec => []CountWithinCache
<1>1. TypeInv => CountWithinCache
  BY DEF TypeInv
<1> QED
  BY <1>1, MaildirInvariance, PTL

-----------------------------------------------------------------------------
(***************************************************************************)
(* No message is lost                                                      *)
(***************************************************************************)
\* What a step does to the messages: those it has found stay or are recorded
\* as removed, and those it adds are there.
MessagesKept ==
  /\ removed \subseteq removed'
  /\ \A id \in used : Stored(id, files) => Stored(id, files') \/ id \in removed'
  /\ \A id \in used' \ used : Stored(id, files') \/ id \in removed'

\* That is all NoMessageLost needs.
LEMMA KeptIsNotLost == NoMessageLost /\ MessagesKept => NoMessageLost'
  BY DEF NoMessageLost, MessagesKept

\* A rename of posixFile, on whatever name, loses no message.
LEMMA RenamedKeeps ==
  ASSUME NEW dir, NEW name \in Names, NEW to \in Names, to.id = name.id, NEW id,
         Stored(id, files)
  PROVE  Stored(id, Renamed(dir, name, to))
<1> DEFINE moved(f) == IF f.dir = dir /\ f.name = name THEN File("cur", to, f.full) ELSE f
           T == {moved(f) : f \in files}
<1>1. PICK f \in files : f.name.id = id /\ f.full
  BY DEF Stored
<1>2. moved(f).name.id = id /\ moved(f).full
  BY <1>1 DEF File
<1>3. f \in files \cup {File("cur", to, FALSE)} /\ moved(f) \in T
  BY <1>1
<1>4. Renamed(dir, name, to) \in {files, files \cup {File("cur", to, FALSE)}, T}
  BY DEF Renamed
<1> HIDE DEF moved, T
<1> QED
  BY <1>1, <1>2, <1>3, <1>4 DEF Stored

\* More files, the same messages.
LEMMA MoreFilesKeep ==
  ASSUME files \subseteq files', used' = used, removed' = removed
  PROVE  MessagesKept
  BY DEF MessagesKept, Stored

\* A step that is such a rename, and nothing else to the files.
LEMMA RenamedMessagesKept ==
  ASSUME NEW dir, NEW name \in Names, NEW to \in Names, to.id = name.id,
         files' = Renamed(dir, name, to), used' = used, removed' = removed
  PROVE  MessagesKept
<1>1. \A id : Stored(id, files) => Stored(id, files')
  BY RenamedKeeps
<1> QED
  BY <1>1 DEF MessagesKept

\* Removals are recorded.
LEMMA RecordedMessagesKept ==
  ASSUME NEW fs, files' = fs, RecordRemoved(fs), used' = used
  PROVE  MessagesKept
  BY DEF MessagesKept, RecordRemoved

\* A change of flags starts from the cached name, which may be stale.
LEMMA SetMessageFlagsKeeps ==
  ASSUME TypeInv, NEW f \in Folders, NEW num, NEW flags \in SUBSET Flags,
         NEW how \in {"add", "remove", "set"}, setMessageFlags(f, num, flags, how)
  PROVE  MessagesKept
<1> DEFINE name == m_messageInfos[f][num].path
           path == Name(name.id, NewFlags(extractFlags(name), flags, how))
<1>1. name \in Names
  <2>1. /\ m_messageInfos[f] \in Seq(MessageInfos)
        /\ num \in 1..Len(m_messageInfos[f])
    BY DEF TypeInv, TypeOK, CountWithinCache, setMessageFlags
  <2>2. m_messageInfos[f][num] \in MessageInfos
    BY <2>1
  <2> QED
    BY <2>2 DEF MessageInfos
<1>2. path \in Names
  <2>1. extractFlags(name) \in SUBSET Flags /\ name.id \in Ids
    BY <1>1, NameType
  <2>2. NewFlags(extractFlags(name), flags, how) \in SUBSET Flags
    BY <2>1 DEF NewFlags
  <2> QED
    BY <2>1, <2>2, NameType
<1>3. path.id = name.id
  BY DEF Name
<1>4. files' = Renamed("cur", name, path) /\ used' = used /\ removed' = removed
  BY DEF setMessageFlags
<1> HIDE DEF name, path
<1> QED
  BY <1>1, <1>2, <1>3, <1>4, RenamedMessagesKept

\* The message that is added is there.
LEMMA AddMessageKeeps ==
  ASSUME NEW f, NEW id, NEW recent \in BOOLEAN, NEW flags, addMessage(f, id, recent, flags)
  PROVE  MessagesKept
<1> DEFINE path == Name(id, IF recent THEN NoInfo ELSE flags)
           file == File(IF recent THEN "new" ELSE "cur", path, TRUE)
<1>1. file.name.id = id /\ file.full
  BY DEF File, Name
<1>2. files' = files \cup {file} /\ used' = used \cup {id} /\ removed' = removed
  BY DEF addMessage
<1> HIDE DEF file
<1> QED
  BY <1>1, <1>2 DEF MessagesKept, Stored

\* The copy is there, or was a copy of nothing.
LEMMA CopyMessagesKeeps ==
  ASSUME NEW f \in Folders, NEW num, copyMessages(f, num)
  PROVE  MessagesKept
<1> DEFINE path == m_messageInfos[f][num].path
<1>1. CASE UNCHANGED <<files, used, removed>>
  BY <1>1, MoreFilesKeep
<1>2. CASE \E file \in files, id \in Ids \ used :
             /\ files' = files \cup {File("cur", Name(id, extractFlags(path)), file.full)}
             /\ used' = used \cup {id}
             /\ removed' = IF file.full THEN removed ELSE removed \cup {id}
  <2>1. PICK file \in files, id \in Ids \ used :
             /\ files' = files \cup {File("cur", Name(id, extractFlags(path)), file.full)}
             /\ used' = used \cup {id}
             /\ removed' = IF file.full THEN removed ELSE removed \cup {id}
    BY <1>2
  <2> DEFINE copy == File("cur", Name(id, extractFlags(path)), file.full)
  <2>2. copy.name.id = id /\ copy.full = file.full /\ files' = files \cup {copy}
    BY <2>1 DEF File, Name
  <2> HIDE DEF copy
  <2>3. Stored(id, files') \/ id \in removed'
    BY <2>1, <2>2 DEF Stored
  <2>4. \A x : Stored(x, files) => Stored(x, files')
    BY <2>2 DEF Stored
  <2> QED
    BY <2>1, <2>3, <2>4 DEF MessagesKept
<1> QED
  BY <1>1, <1>2 DEF copyMessages, Copied

\* Moving a message out of new/, or failing to, loses none.
LEMMA MoveKeeps ==
  ASSUME TypeInv, moveNew \/ moveFails
  PROVE  MessagesKept
<1>1. scan.new \subseteq Names
  BY DEF TypeInv, TypeOK, Scans, moveNew, moveFails
<1>2. PICK name \in scan.new : files' = Renamed("new", name, Moved(name))
  BY DEF moveNew, moveFails
<1>3. used' = used /\ removed' = removed
  BY DEF moveNew, moveFails
<1> QED
  BY <1>1, <1>2, <1>3, NameType, RenamedMessagesKept

\* The other processes record what they remove.
LEMMA OthersKeep ==
  ASSUME Others
  PROVE  MessagesKept
<1>1. CASE \E id \in Ids : deliver(id)
  <2>1. PICK id \in Ids : deliver(id)
    BY <1>1
  <2> DEFINE file == File("new", Name(id, NoInfo), TRUE)
  <2>2. file.name.id = id /\ file.full
    BY DEF File, Name
  <2>3. files' = files \cup {file} /\ used' = used \cup {id} /\ removed' = removed
    BY <2>1 DEF deliver
  <2> HIDE DEF file
  <2> QED
    BY <2>2, <2>3 DEF MessagesKept, Stored
<1>2. CASE otherRenames
  <2>1. PICK f \in files, info \in SUBSET Flags :
          files' = (files \ {f}) \cup {File("cur", Name(f.name.id, info), f.full)}
    BY <1>2 DEF otherRenames
  <2> DEFINE file == File("cur", Name(f.name.id, info), f.full)
  <2>2. file.name.id = f.name.id /\ file.full = f.full
    BY DEF File, Name
  <2>3. files' = (files \ {f}) \cup {file}
    BY <2>1
  <2> HIDE DEF file
  <2>4. \A id : Stored(id, files) => Stored(id, files')
    BY <2>2, <2>3 DEF Stored
  <2>5. used' = used /\ removed' = removed
    BY <1>2 DEF otherRenames
  <2> QED
    BY <2>4, <2>5 DEF MessagesKept
<1>3. CASE otherRemoves
  <2>1. PICK f \in files : files' = files \ {f} /\ RecordRemoved(files \ {f})
    BY <1>3 DEF otherRemoves
  <2>2. used' = used
    BY <1>3 DEF otherRemoves
  <2> QED
    BY <2>1, <2>2, RecordedMessagesKept
<1> QED
  BY <1>1, <1>2, <1>3 DEF Others

\* expunge records what it removes.
LEMMA ExpungeKeeps ==
  ASSUME NEW f \in Folders, Expunge(f)
  PROVE  MessagesKept
<1>1. PICK fs : files' = fs /\ RecordRemoved(fs) /\ used' = used
  BY DEF Expunge
<1> QED
  BY <1>1, RecordedMessagesKept

\* Every step keeps the messages.
LEMMA StepsKeep == TypeInv /\ [Next]_vars => MessagesKept
<1> SUFFICES ASSUME TypeInv, [Next]_vars
             PROVE  MessagesKept
  OBVIOUS
<1>1. ASSUME UNCHANGED maildirVars
      PROVE  MessagesKept
  BY <1>1, MoreFilesKeep DEF maildirVars
<1>2. ASSUME NEW f, NEW status, NEW mode, scanFolder(f, status, mode)
      PROVE  MessagesKept
  BY <1>1, <1>2 DEF scanFolder
<1>3. ASSUME NEW f \in Folders, NEW num, deleteMessages(f, num)
      PROVE  MessagesKept
  <2>1. "add" \in {"add", "remove", "set"} /\ {"T"} \in SUBSET Flags
    BY MaildirAssumption
  <2> QED
    BY <1>3, <2>1, SetMessageFlagsKeeps DEF deleteMessages
<1>4. ASSUME NEW f, NEW id, NEW flags,
             addMessage(f, id, TRUE, flags) \/ addMessage(f, id, FALSE, flags)
      PROVE  MessagesKept
  <2>1. \A b \in BOOLEAN : addMessage(f, id, b, flags) => MessagesKept
    BY AddMessageKeeps
  <2>2. TRUE \in BOOLEAN /\ FALSE \in BOOLEAN
    OBVIOUS
  <2> QED
    BY <1>4, <2>1, <2>2
<1>5. ASSUME NEW f \in Folders, NEW num, getMessage(f, num)
      PROVE  MessagesKept
  BY <1>1, <1>5 DEF getMessage
<1>6. ASSUME NEW f \in Folders, NEW expunging, close(f, expunging)
      PROVE  MessagesKept
  BY <1>1, <1>6, ExpungeKeeps DEF close
<1>7. ASSUME NEW f \in Folders, expunge(f)
      PROVE  MessagesKept
  BY <1>7, ExpungeKeeps DEF expunge
<1>8. CASE Call
  BY <1>2, <1>3, <1>4, <1>5, <1>6, <1>7, <1>8, SetMessageFlagsKeeps, CopyMessagesKeeps
     DEF Call, open, getStatus
<1>9. CASE Scan
  BY <1>1, <1>9, MoveKeeps DEF Scan, matchMessages, scanEnds
<1>10. CASE restart
  BY <1>10, MoreFilesKeep DEF restart
<1>11. CASE UNCHANGED vars
  BY <1>1, <1>11 DEF vars
<1> QED
  BY <1>8, <1>9, <1>10, <1>11, OthersKeep DEF Next

\* A message put into the maildir is there until it is expunged, whatever the
\* folder objects, the other processes and a crash do in between.
THEOREM NothingIsLost == Spec => []NoMessageLost
<1>1. Init => NoMessageLost
  BY DEF Init, NoMessageLost
<1>2. TypeInv /\ NoMessageLost /\ [Next]_vars => NoMessageLost'
  BY StepsKeep, KeptIsNotLost
<1> QED
  BY <1>1, <1>2, MaildirInvariance, PTL DEF Spec

-----------------------------------------------------------------------------
(***************************************************************************)
(* A scan that comes to its end has found every message                    *)
(***************************************************************************)
\* A message is in one file, whatever empty files there are.
FilesInv ==
  /\ \A f \in files : f.full => f.name.id \in used
  /\ \A f, g \in files : f.full /\ g.full /\ f.name.id = g.name.id => f = g

HasId(names, id) == \E name \in names : name.id = id
InCur(id, fs) == \E f \in fs : f.dir = "cur" /\ f.name.id = id /\ f.full
InCache(infos, id) == \E i \in DOMAIN infos : infos[i].path.id = id

\* Where the messages are that were there when the scan began: what was listed
\* in new/ stays on the list however other readers move it; what was not is in
\* cur/ by then, and on one of the lists or in the cache once that is read.
ScanInv ==
  /\ pc # "idle" => scan.present \subseteq used
  /\ pc = "cur" => \A id \in scan.present :
       Stored(id, files) => HasId(scan.new, id) \/ InCur(id, files)
  /\ pc = "new" => \A id \in scan.present :
       Stored(id, files) =>
         HasId(scan.new, id) \/ HasId(scan.cur, id) \/ InCache(m_messageInfos[scan.folder], id)

\* Fewer files hold the same messages in no more places.
LEMMA FewerFilesInv ==
  ASSUME FilesInv, files' \subseteq files, used' = used
  PROVE  FilesInv'
  BY DEF FilesInv

\* A file is added, with a message of its own or with none.
LEMMA AddedFileInv ==
  ASSUME FilesInv, NEW file, files' = files \cup {file}, used \subseteq used',
         file.full => file.name.id \in used' \ used
  PROVE  FilesInv'
  BY DEF FilesInv

\* A rename neither copies messages nor makes one up.
LEMMA RenamedInv ==
  ASSUME FilesInv, NEW dir, NEW name, NEW to, to.id = name.id,
         files' = Renamed(dir, name, to), used' = used
  PROVE  FilesInv' /\ \A id : Stored(id, files') => Stored(id, files)
<1> DEFINE moved(f) == IF f.dir = dir /\ f.name = name THEN File("cur", to, f.full) ELSE f
           T == {moved(f) : f \in files}
           made == File("cur", to, FALSE)
<1>1. CASE files' = files
  BY <1>1 DEF FilesInv, Stored
<1>2. CASE files' = files \cup {made}
  <2>1. ~made.full
    BY DEF File
  <2> HIDE DEF made
  <2> QED
    BY <1>2, <2>1, AddedFileInv DEF Stored
<1>3. CASE files' = T
  <2>1. \A f : moved(f).full = f.full /\ moved(f).name.id = f.name.id
    BY DEF File
  <2> HIDE DEF moved
  <2>2. \A id : Stored(id, files') => Stored(id, files)
    BY <1>3, <2>1 DEF Stored
  <2>3. \A x \in files' : x.full => x.name.id \in used'
    BY <1>3, <2>1 DEF FilesInv
  <2>4. ASSUME NEW x \in files', NEW y \in files', x.full, y.full, x.name.id = y.name.id
        PROVE  x = y
    <3>1. PICK f \in files : x = moved(f)
      BY <1>3
    <3>2. PICK g \in files : y = moved(g)
      BY <1>3
    <3>3. f.full /\ g.full /\ f.name.id = g.name.id
      BY <2>1, <2>4, <3>1, <3>2
    <3>4. f = g
      BY <3>3 DEF FilesInv
    <3> QED
      BY <3>1, <3>2, <3>4
  <2> QED
    BY <2>2, <2>3, <2>4 DEF FilesInv
<1>4. files' \in {files, files \cup {made}, T}
  BY DEF Renamed
<1> QED
  BY <1>1, <1>2, <1>3, <1>4

\* The renames of a scan neither copy a message nor make one up.
LEMMA MoveInv ==
  ASSUME TypeInv, FilesInv, moveNew \/ moveFails
  PROVE  FilesInv' /\ \A id : Stored(id, files') => Stored(id, files)
<1>1. scan.new \subseteq Names
  BY DEF TypeInv, TypeOK, Scans, moveNew, moveFails
<1>2. PICK name \in scan.new : files' = Renamed("new", name, Moved(name))
  BY DEF moveNew, moveFails
<1>3. used' = used
  BY DEF moveNew, moveFails
<1> QED
  BY <1>1, <1>2, <1>3, NameType, RenamedInv

\* The other processes: what they add is new, what they rename goes to cur/,
\* and what they remove leaves no second copy.
LEMMA OthersInv ==
  ASSUME FilesInv, Others
  PROVE  /\ FilesInv' /\ used \subseteq used'
         /\ \A id \in used : Stored(id, files') => Stored(id, files)
         /\ \A id \in used : InCur(id, files) => InCur(id, files') \/ ~Stored(id, files')
<1>1. CASE \E id \in Ids : deliver(id)
  <2>1. PICK id \in Ids : deliver(id)
    BY <1>1
  <2> DEFINE file == File("new", Name(id, NoInfo), TRUE)
  <2>2. file.name.id = id
    BY DEF File, Name
  <2>3. files' = files \cup {file} /\ used' = used \cup {id} /\ id \notin used
    BY <2>1 DEF deliver
  <2> HIDE DEF file
  <2>4. FilesInv'
    BY <2>2, <2>3, AddedFileInv
  <2> QED
    BY <2>2, <2>3, <2>4 DEF Stored, InCur
<1>2. CASE otherRenames
  <2>1. PICK f \in files, info \in SUBSET Flags :
          files' = (files \ {f}) \cup {File("cur", Name(f.name.id, info), f.full)}
    BY <1>2 DEF otherRenames
  <2> DEFINE file == File("cur", Name(f.name.id, info), f.full)
  <2>2. file.name.id = f.name.id /\ file.full = f.full /\ file.dir = "cur"
    BY DEF File, Name
  <2>3. files' = (files \ {f}) \cup {file} /\ used' = used
    BY <1>2, <2>1 DEF otherRenames
  <2> HIDE DEF file
  <2>4. FilesInv'
    BY <2>2, <2>3 DEF FilesInv
  <2> QED
    BY <2>2, <2>3, <2>4 DEF Stored, InCur
<1>3. CASE otherRemoves
  <2>1. files' \subseteq files /\ used' = used
    BY <1>3 DEF otherRemoves
  <2>2. FilesInv'
    BY <2>1, FewerFilesInv
  <2>3. ASSUME NEW id, InCur(id, files), Stored(id, files')
        PROVE  InCur(id, files')
    BY <2>1, <2>3 DEF FilesInv, InCur, Stored
  <2> QED
    BY <2>1, <2>2, <2>3 DEF Stored
<1> QED
  BY <1>1, <1>2, <1>3 DEF Others

\* A copy has an id of its own and is put into cur/.
LEMMA CopiedInv ==
  ASSUME FilesInv, NEW f, NEW num, Copied(f, num)
  PROVE  FilesInv' /\ \A file \in files' : file.dir = "new" => file \in files
<1> DEFINE path == m_messageInfos[f][num].path
<1>1. CASE UNCHANGED <<files, used, removed>>
  BY <1>1 DEF FilesInv
<1>2. CASE \E file \in files, id \in Ids \ used :
             /\ files' = files \cup {File("cur", Name(id, extractFlags(path)), file.full)}
             /\ used' = used \cup {id}
  <2>1. PICK file \in files, id \in Ids \ used :
             /\ files' = files \cup {File("cur", Name(id, extractFlags(path)), file.full)}
             /\ used' = used \cup {id}
    BY <1>2
  <2> DEFINE copy == File("cur", Name(id, extractFlags(path)), file.full)
  <2>2. copy.name.id = id /\ copy.dir = "cur"
    BY DEF File, Name
  <2>3. files' = files \cup {copy} /\ used' = used \cup {id} /\ id \notin used
    BY <2>1
  <2> HIDE DEF copy
  <2>4. FilesInv'
    BY <2>2, <2>3, AddedFileInv
  <2> QED
    BY <2>2, <2>3, <2>4
<1> QED
  BY <1>1, <1>2 DEF Copied

\* A scan begins with a list of what is in new/; everything else is in cur/.
LEMMA ScanBeginsInv ==
  ASSUME NEW f, NEW status, NEW mode, ScanBegins(f, status, mode),
         FilesInv', files' \subseteq Files, \A file \in files' : file.dir = "new" => file \in files
  PROVE  ScanInv'
<1>1. /\ pc' = "cur" /\ scan'.new = Listing("new")
      /\ scan'.present = {id \in Ids : Stored(id, files')}
  BY DEF ScanBegins
<1>2. scan'.present \subseteq used'
  BY <1>1 DEF FilesInv, Stored
<1>3. ASSUME NEW id, Stored(id, files')
      PROVE  HasId(Listing("new"), id) \/ InCur(id, files')
  <2>1. PICK file \in files' : file.name.id = id /\ file.full
    BY <1>3 DEF Stored
  <2>2. CASE file.dir = "cur"
    BY <2>1, <2>2 DEF InCur
  <2>3. CASE file.dir = "new"
    <3>1. file.name \in Listing("new")
      BY <2>3 DEF Listing
    <3> QED
      BY <2>1, <3>1 DEF HasId
  <2> QED
    BY <2>2, <2>3 DEF Files, Dirs
<1> QED
  BY <1>1, <1>2, <1>3 DEF ScanInv

\* A message in cur/ is listed: it is looked up in the cache or left on the list.
LEMMA MatchMessagesInv ==
  ASSUME TypeInv, FilesInv, ScanInv, matchMessages
  PROVE  ScanInv'
<1> DEFINE f == scan.folder
           infos == m_messageInfos[f]
           known == {i \in DOMAIN infos : infos[i].type = "CUR"}
           listed == Listing("cur")
<1>1. scan \in Scans /\ f \in Folders /\ infos \in Seq(MessageInfos) /\ files \subseteq Files
  BY DEF TypeInv, TypeOK, Scans, matchMessages
<1>2. listed \in SUBSET Names
  BY <1>1, ListingType DEF TypeInv, FiniteInv
<1>3. PICK found \in SUBSET known : \E match \in [found -> listed] :
        /\ Cache(f, 0,
             [i \in DOMAIN infos |->
                IF i \in found THEN [infos[i] EXCEPT !.path = match[i]]
                ELSE IF i \in known THEN [infos[i] EXCEPT !.type = "DELETED"]
                ELSE infos[i]])
        /\ scan' = [scan EXCEPT !.cur = {name \in listed : \A i \in found : match[i] # name}]
  BY DEF matchMessages
<1>4. PICK match \in [found -> listed] :
        /\ Cache(f, 0,
             [i \in DOMAIN infos |->
                IF i \in found THEN [infos[i] EXCEPT !.path = match[i]]
                ELSE IF i \in known THEN [infos[i] EXCEPT !.type = "DELETED"]
                ELSE infos[i]])
        /\ scan' = [scan EXCEPT !.cur = {name \in listed : \A i \in found : match[i] # name}]
  BY <1>3
<1>5. pc = "cur" /\ pc' = "new" /\ files' = files /\ used' = used
  BY DEF matchMessages, maildirVars
<1> DEFINE matched == Matched(infos, found, known, match)
           left == {name \in listed : \A i \in found : match[i] # name}
<1>6. Cache(f, 0, matched) /\ scan' = [scan EXCEPT !.cur = left]
  BY <1>4 DEF Matched
<1>7. found \subseteq DOMAIN infos /\ \A i \in found : match[i] \in Names
  BY <1>2, <1>4
<1>8. /\ DOMAIN matched = DOMAIN infos
      /\ \A i \in DOMAIN infos : matched[i].path = IF i \in found THEN match[i] ELSE infos[i].path
  <2> HIDE DEF known, infos, listed
  <2> QED
    BY <1>1, <1>7, MatchedType
<1> HIDE DEF matched, infos, known
<1>9. ASSUME NEW id, InCur(id, files)
      PROVE  HasId(left, id) \/ InCache(matched, id)
  <2>1. PICK file \in files : file.dir = "cur" /\ file.name.id = id
    BY <1>9 DEF InCur
  <2>2. file.name \in listed
    BY <2>1 DEF Listing
  <2> HIDE DEF listed
  <2>3. CASE \E i \in found : match[i] = file.name
    BY <1>7, <1>8, <2>1, <2>3 DEF InCache
  <2>4. CASE \A i \in found : match[i] # file.name
    BY <2>1, <2>2, <2>4 DEF HasId
  <2> QED
    BY <2>3, <2>4
<1> HIDE DEF left
<1>10. /\ scan'.folder = f /\ scan'.new = scan.new /\ scan'.cur = left
       /\ scan'.present = scan.present
  BY <1>1, <1>6 DEF Scans
<1>11. m_messageInfos'[f] = matched
  BY <1>1, <1>6 DEF Cache, TypeInv, TypeOK
<1> HIDE DEF f
<1> QED
  BY <1>5, <1>9, <1>10, <1>11 DEF ScanInv

\* The message that leaves the list of new/ enters the cache.
LEMMA MoveNewInv ==
  ASSUME TypeInv, FilesInv, ScanInv, moveNew
  PROVE  ScanInv'
<1> DEFINE f == scan.folder
           infos == m_messageInfos[f]
<1>1. scan \in Scans /\ f \in Folders /\ infos \in Seq(MessageInfos)
  BY DEF TypeInv, TypeOK, Scans, moveNew
<1>2. PICK name \in scan.new :
        /\ Cache(f, 0, Append(infos, CachedAs(Moved(name))))
        /\ scan' = [scan EXCEPT !.new = @ \ {name}]
  BY DEF moveNew
<1>3. Moved(name) \in Names /\ Moved(name).id = name.id
  BY <1>1, NameType DEF Scans
<1> DEFINE info == CachedAs(Moved(name))
<1>4. info \in MessageInfos /\ info.path.id = name.id
  BY <1>3, CachedAsType
<1>5. m_messageInfos'[f] = Append(infos, info)
  BY <1>1, <1>2 DEF Cache, TypeInv, TypeOK
<1> HIDE DEF info, infos
<1>6. \A id : InCache(infos, id) \/ id = name.id => InCache(Append(infos, info), id)
  <2>1. /\ DOMAIN Append(infos, info) = 1..(Len(infos) + 1)
        /\ \A i \in 1..Len(infos) : Append(infos, info)[i] = infos[i]
        /\ Append(infos, info)[Len(infos) + 1] = info
        /\ Len(infos) \in Nat /\ DOMAIN infos = 1..Len(infos)
    BY <1>1, <1>4
  <2>2. \A i \in DOMAIN infos : i \in DOMAIN Append(infos, info)
    BY <2>1
  <2>3. Len(infos) + 1 \in DOMAIN Append(infos, info)
    BY <2>1
  <2> QED
    BY <1>4, <2>1, <2>2, <2>3 DEF InCache
<1>7. /\ scan'.folder = f /\ scan'.new = scan.new \ {name} /\ scan'.cur = scan.cur
      /\ scan'.present = scan.present
  BY <1>1, <1>2 DEF Scans
<1>8. \A id : HasId(scan.new, id) => HasId(scan.new \ {name}, id) \/ id = name.id
  BY DEF HasId
<1>9. \A id : Stored(id, files') => Stored(id, files)
  BY MoveInv
<1>10. pc = "new" /\ pc' = "new" /\ used' = used
  BY DEF moveNew
<1> DEFINE grown == Append(infos, info)
<1> HIDE DEF grown
<1>11. scan'.present \subseteq used'
  BY <1>7, <1>10 DEF ScanInv
<1>12. ASSUME NEW id \in scan'.present, Stored(id, files')
       PROVE  HasId(scan'.new, id) \/ HasId(scan'.cur, id) \/ InCache(m_messageInfos'[f], id)
  <2>1. HasId(scan.new, id) \/ HasId(scan.cur, id) \/ InCache(infos, id)
    BY <1>7, <1>9, <1>10, <1>12 DEF ScanInv, infos
  <2> QED
    BY <1>5, <1>6, <1>7, <1>8, <2>1
<1> QED
  BY <1>7, <1>10, <1>11, <1>12 DEF ScanInv

\* The other processes change files, and a scan keeps its lists.
LEMMA OthersScanInv ==
  ASSUME FilesInv, ScanInv, Others
  PROVE  ScanInv'
<1>1. pc' = pc /\ scan' = scan /\ m_messageInfos' = m_messageInfos
  BY DEF Others, clientVars, folderVars
<1>2. CASE pc = "idle"
  BY <1>1, <1>2 DEF ScanInv
<1>3. CASE pc # "idle"
  <2>1. scan.present \subseteq used
    BY <1>3 DEF ScanInv
  <2>2. \A id \in scan.present : Stored(id, files') => Stored(id, files)
    BY <2>1, OthersInv
  <2>3. \A id \in scan.present :
          InCur(id, files) => InCur(id, files') \/ ~Stored(id, files')
    BY <2>1, OthersInv
  <2>4. used \subseteq used'
    BY OthersInv
  <2> QED
    BY <1>1, <2>1, <2>2, <2>3, <2>4 DEF ScanInv
<1> QED
  BY <1>2, <1>3

\* Outside of a scan only the files matter.
LEMMA IdleInv ==
  ASSUME FilesInv', pc' = "idle"
  PROVE  FilesInv' /\ ScanInv'
  BY DEF ScanInv

\* A change of flags is a rename.
LEMMA SetMessageFlagsInv ==
  ASSUME FilesInv, NEW f, NEW num, NEW flags, NEW how, setMessageFlags(f, num, flags, how)
  PROVE  FilesInv' /\ ScanInv'
<1> DEFINE name == m_messageInfos[f][num].path
           path == Name(name.id, NewFlags(extractFlags(name), flags, how))
<1>1. path.id = name.id
  BY DEF Name
<1>2. /\ files' = Renamed("cur", name, path) /\ used' = used
      /\ pc' = "idle"
  BY DEF setMessageFlags, Idle
<1> HIDE DEF name, path
<1> QED
  BY <1>1, <1>2, RenamedInv, IdleInv

\* A message that is added has an id of its own.
LEMMA AddMessageInv ==
  ASSUME FilesInv, NEW f, NEW id, NEW recent, NEW flags, addMessage(f, id, recent, flags)
  PROVE  FilesInv' /\ ScanInv'
<1> DEFINE path == Name(id, IF recent THEN NoInfo ELSE flags)
           file == File(IF recent THEN "new" ELSE "cur", path, TRUE)
<1>1. file.name.id = id
  BY DEF File, Name
<1>2. /\ files' = files \cup {file} /\ used' = used \cup {id} /\ id \notin used
      /\ pc' = "idle"
  BY DEF addMessage, Idle
<1> HIDE DEF file
<1> QED
  BY <1>1, <1>2, AddedFileInv, IdleInv

\* An expunge leaves fewer files.
LEMMA ExpungeInv ==
  ASSUME FilesInv, NEW f, Expunge(f)
  PROVE  FilesInv' /\ ScanInv'
<1>1. files' \subseteq files /\ used' = used /\ pc' = "idle"
  BY DEF Expunge, Idle
<1> QED
  BY <1>1, FewerFilesInv, IdleInv

\* A copy, and the scan of another folder object that follows it.
LEMMA CopyMessagesInv ==
  ASSUME TypeInv, TypeInv', FilesInv, NEW f, NEW num, copyMessages(f, num)
  PROVE  FilesInv' /\ ScanInv'
<1>1. FilesInv' /\ \A file \in files' : file.dir = "new" => file \in files
  BY CopiedInv DEF copyMessages
<1>2. files' \subseteq Files
  BY DEF TypeInv, TypeOK
<1>3. CASE \E g \in Folders : ScanBegins(g, TRUE, m_mode[g])
  BY <1>1, <1>2, <1>3, ScanBeginsInv
<1>4. CASE UNCHANGED clientVars
  BY <1>1, <1>4, IdleInv DEF copyMessages, clientVars, Idle
<1> QED
  BY <1>3, <1>4 DEF copyMessages

\* A scan that begins changes no file.
LEMMA ScanFolderInv ==
  ASSUME TypeInv, FilesInv, NEW f, NEW status, NEW mode, scanFolder(f, status, mode)
  PROVE  FilesInv' /\ ScanInv'
<1>1. files' = files /\ used' = used /\ ScanBegins(f, status, mode)
  BY DEF scanFolder, maildirVars
<1>2. FilesInv' /\ files' \subseteq Files
  BY <1>1 DEF FilesInv, TypeInv, TypeOK
<1> QED
  BY <1>1, <1>2, ScanBeginsInv

\* A crash leaves an empty file at worst.
LEMMA RestartInv ==
  ASSUME FilesInv, restart
  PROVE  FilesInv' /\ ScanInv'
<1>1. used' = used /\ pc' = "idle"
  BY DEF restart
<1>2. CASE UNCHANGED files
  BY <1>1, <1>2, FewerFilesInv, IdleInv
<1>3. CASE \E to \in RenameTargets : files' = files \cup {File("cur", to, FALSE)}
  <2>1. PICK to \in RenameTargets : files' = files \cup {File("cur", to, FALSE)}
    BY <1>3
  <2> DEFINE file == File("cur", to, FALSE)
  <2>2. ~file.full /\ files' = files \cup {file}
    BY <2>1 DEF File
  <2> HIDE DEF file
  <2> QED
    BY <1>1, <2>2, AddedFileInv, IdleInv
<1> QED
  BY <1>2, <1>3 DEF restart

\* One step of any kind.
LEMMA ScanNext ==
  TypeInv /\ TypeInv' /\ FilesInv /\ ScanInv /\ [Next]_vars => FilesInv' /\ ScanInv'
<1> SUFFICES ASSUME TypeInv, TypeInv', FilesInv, ScanInv, [Next]_vars
             PROVE  FilesInv' /\ ScanInv'
  OBVIOUS
<1>1. ASSUME files' = files, used' = used, pc' = "idle"
      PROVE  FilesInv' /\ ScanInv'
  BY <1>1, IdleInv DEF FilesInv
<1>2. ASSUME NEW f, NEW num, getMessage(f, num)
      PROVE  FilesInv' /\ ScanInv'
  BY <1>1, <1>2 DEF getMessage, maildirVars, Idle
<1>3. ASSUME NEW f, NEW expunging, close(f, expunging)
      PROVE  FilesInv' /\ ScanInv'
  BY <1>1, <1>3, ExpungeInv DEF close, maildirVars, Idle
<1>4. CASE Call
  BY <1>2, <1>3, <1>4, ScanFolderInv, ExpungeInv, CopyMessagesInv, SetMessageFlagsInv, AddMessageInv
     DEF Call, open, getStatus, expunge, deleteMessages
<1>5. CASE matchMessages
  BY <1>5, MatchMessagesInv DEF FilesInv, matchMessages, maildirVars
<1>6. CASE moveNew
  BY <1>6, MoveInv, MoveNewInv
<1>7. CASE moveFails
  BY <1>7, MoveInv, IdleInv DEF moveFails
<1>8. CASE scanEnds
  BY <1>1, <1>8 DEF scanEnds, maildirVars
<1>9. CASE Others
  BY <1>9, OthersInv, OthersScanInv
<1>10. CASE UNCHANGED vars
  BY <1>10 DEF FilesInv, ScanInv, Stored, InCur, vars, clientVars, folderVars, maildirVars
<1> QED
  BY <1>4, <1>5, <1>6, <1>7, <1>8, <1>9, <1>10, RestartInv DEF Next, Scan

\* An injective order of a finite set leaves nothing out.
LEMMA OrderCovers ==
  ASSUME NEW S, IsFiniteSet(S), NEW order \in Orders(S), NEW x \in S
  PROVE  \E i \in DOMAIN order : order[i] = x
<1> DEFINE n == Cardinality(S)
<1>1. n \in Nat
  BY FS_CardinalityType
<1>2. order \in Injection(1..n, S)
  BY DEF Orders, Injection, IsInjective
<1>3. IsFiniteSet(1..n) /\ Cardinality(1..n) = n
  <2> HIDE DEF n
  <2>1. 1 \in Int /\ n \in Int
    BY <1>1
  <2>2. Cardinality(1..n) = IF 1 > n THEN 0 ELSE n - 1 + 1
    BY <2>1, FS_Interval
  <2>3. Cardinality(1..n) = n
    BY <1>1, <2>2
  <2> QED
    BY <2>1, <2>3, FS_Interval
<1>4. order \in Surjection(1..n, S)
  BY <1>2, <1>3, FS_Injection
<1>5. DOMAIN order = 1..n
  BY DEF Orders
<1> QED
  BY <1>4, <1>5 DEF Surjection

\* The last step of a scan puts what was listed in cur/ into the cache.
LEMMA ScanEndsComplete ==
  ASSUME TypeInv, ScanInv, scanEnds, NEW id \in scan.present, Stored(id, files)
  PROVE  InCache(m_messageInfos'[scan.folder], id)
<1> DEFINE f == scan.folder
           cache == m_messageInfos[f]
           n == Cardinality(scan.cur)
<1>1. /\ scan \in Scans /\ f \in Folders /\ cache \in Seq(MessageInfos)
      /\ IsFiniteSet(scan.cur) /\ scan.cur \subseteq Names /\ pc = "new" /\ scan.new = {}
      /\ m_messageInfos \in [Folders -> Seq(MessageInfos)]
  BY DEF TypeInv, TypeOK, FiniteInv, Scans, scanEnds
<1>2. n \in Nat
  BY <1>1, FS_CardinalityType
<1>3. PICK order \in Orders(scan.cur) :
        LET infos == cache \o [i \in DOMAIN order |-> CachedAs(order[i])]
        IN  Share(f, Len(infos), infos) \/ Cache(f, Len(infos), infos)
  BY DEF scanEnds
<1>4. order \in [1..n -> scan.cur]
  BY <1>3 DEF Orders
<1> DEFINE found == [i \in DOMAIN order |-> CachedAs(order[i])]
<1>5. /\ found \in Seq(MessageInfos) /\ DOMAIN found = DOMAIN order
      /\ \A i \in DOMAIN order : found[i].path = order[i]
  <2>1. \A i \in 1..n : CachedAs(order[i]) \in MessageInfos /\ CachedAs(order[i]).path = order[i]
    BY <1>1, <1>4, CachedAsType
  <2>2. found \in [1..n -> MessageInfos]
    BY <1>4, <2>1
  <2>3. found \in Seq(MessageInfos)
    <3> HIDE DEF found
    <3> QED
      BY <1>2, <2>2
  <2> QED
    BY <1>4, <2>1, <2>3
<1> DEFINE infos == cache \o found
<1>6. Share(f, Len(infos), infos) \/ Cache(f, Len(infos), infos)
  BY <1>3
<1>7. HasId(scan.cur, id) \/ InCache(cache, id)
  BY <1>1 DEF ScanInv, HasId
<1> HIDE DEF infos, found
<1>8. m_messageInfos'[f] = infos
  <2> HIDE DEF f
  <2>1. CASE Share(f, Len(infos), infos)
    BY <1>1, <2>1 DEF Share
  <2>2. CASE Cache(f, Len(infos), infos)
    BY <1>1, <2>2 DEF Cache
  <2> QED
    BY <1>6, <2>1, <2>2
<1> HIDE DEF cache
<1>9. /\ Len(cache) \in Nat /\ Len(found) \in Nat
      /\ DOMAIN cache = 1..Len(cache) /\ DOMAIN found = 1..Len(found)
      /\ DOMAIN infos = 1..(Len(cache) + Len(found))
      /\ \A i \in 1..Len(cache) : infos[i] = cache[i]
      /\ \A i \in 1..Len(found) : infos[Len(cache) + i] = found[i]
  BY <1>1, <1>5 DEF infos
<1>10. CASE InCache(cache, id)
  <2>1. PICK i \in DOMAIN cache : cache[i].path.id = id
    BY <1>10 DEF InCache
  <2>2. i \in DOMAIN infos /\ infos[i] = cache[i]
    BY <1>9
  <2> QED
    BY <1>8, <2>1, <2>2 DEF InCache
<1>11. CASE HasId(scan.cur, id)
  <2>1. PICK name \in scan.cur : name.id = id
    BY <1>11 DEF HasId
  <2>2. PICK i \in DOMAIN order : order[i] = name
    BY <1>1, <1>3, <2>1, OrderCovers
  <2>3. i \in 1..Len(found) /\ found[i].path.id = id
    BY <1>5, <1>9, <2>1, <2>2
  <2>4. Len(cache) + i \in DOMAIN infos /\ infos[Len(cache) + i] = found[i]
    BY <1>9, <2>3
  <2> QED
    BY <1>8, <2>3, <2>4 DEF InCache
<1> QED
  BY <1>7, <1>10, <1>11

\* No other step ends a scan that has nothing left to rename.
LEMMA ScanCompletes ==
  ASSUME TypeInv, ScanInv, [Next]_vars,
         pc = "new", scan.new = {}, pc' = "idle", others' = others
  PROVE  scanEnds
<1>1. others + 1 # others
  BY DEF TypeInv, TypeOK
<1>2. ~restart
  BY <1>1 DEF restart, OtherStep
<1>3. ~Others
  BY DEF Others, clientVars
<1>4. pc # pc'
  OBVIOUS
<1>5. ~Call
  BY DEF Call, open, getStatus, scanFolder, expunge, close, Expunge, getMessage, deleteMessages,
         copyMessages, setMessageFlags, addMessage, Idle
<1>6. ~matchMessages /\ ~moveNew /\ ~moveFails
  BY DEF matchMessages, moveNew, moveFails
<1> QED
  BY <1>2, <1>3, <1>4, <1>5, <1>6 DEF Next, Scan, vars, clientVars

\* In every reachable state a message is in one file, and a scan has lost sight
\* of none that was there when it began.
THEOREM ScanInvariance == Spec => [](FilesInv /\ ScanInv)
<1>1. Init => FilesInv /\ ScanInv
  BY DEF Init, FilesInv, ScanInv
<1> QED
  BY <1>1, ScanNext, MaildirInvariance, PTL DEF Spec

\* A scan that comes to its end has every message in its cache that was in the
\* maildir all the while, however other readers move and rename messages
\* between its listings and its renames.
THEOREM ScansAreComplete == Spec => ScanIsComplete
<1>1. TypeInv /\ ScanInv /\ [Next]_vars =>
        [pc = "new" /\ scan.new = {} /\ pc' = "idle" /\ others' = others =>
           \A id \in scan.present :
             Stored(id, files) =>
               \E i \in DOMAIN m_messageInfos'[scan.folder] :
                 m_messageInfos'[scan.folder][i].path.id = id]_vars
  <2> SUFFICES ASSUME TypeInv, ScanInv, [Next]_vars,
                      pc = "new", scan.new = {}, pc' = "idle", others' = others,
                      NEW id \in scan.present, Stored(id, files)
               PROVE  InCache(m_messageInfos'[scan.folder], id)
    BY DEF InCache
  <2>1. scanEnds
    BY ScanCompletes
  <2> QED
    BY <2>1, ScanEndsComplete
<1> QED
  BY <1>1, MaildirInvariance, ScanInvariance, PTL DEF Spec, ScanIsComplete

=============================================================================
