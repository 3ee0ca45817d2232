---------------------------- MODULE MaildirFolder ----------------------------
(***************************************************************************)
(* The folder objects that one process has on the same maildir (class      *)
(* maildirFolder): each keeps a cache of the messages it found when it     *)
(* last scanned the directory, and the numbers by which the application    *)
(* names messages are positions in that cache.                             *)
(*                                                                         *)
(* The process is single-threaded: one call at a time.  scanFolder is      *)
(* split where another process can come in between (the two listings, each *)
(* rename); the other calls touch each file once and are single steps.     *)
(***************************************************************************)
EXTENDS Maildir

CONSTANTS
  Folders,                         \* the folder objects
  MaxScans, MaxObjects             \* bounds of a run

ASSUME FolderAssumption == MaxScans \in Nat /\ MaxObjects \in Nat

VARIABLES
  pc,                \* where the running call is: "idle" or in scanFolder
  scan,              \* the locals of that scanFolder
  m_mode,            \* "closed" (m_open is false), "ro" or "rw"
  m_messageCount,
  m_messageInfos,
  m_messages,        \* the message objects handed out, by folder
  scans

folderVars == <<m_mode, m_messageCount, m_messageInfos, m_messages>>
clientVars == <<pc, scan, folderVars, scans>>
vars == <<clientVars, maildirVars>>

\* A cached message: its file name and its type.
MessageInfos == [path : Names, type : {"CUR", "DELETED"}]
TypeOf(flags) == IF "T" \in flags THEN "DELETED" ELSE "CUR"
CachedAs(path) == [path |-> path, type |-> TypeOf(extractFlags(path))]

\* id is history: the message the object was made for.
Objects == [num : Nat, expunged : BOOLEAN, id : Ids]

\* status: called by getStatus and not by open.  present is history: the
\* messages there were when the scan began.
Scans == [folder : Folders, status : BOOLEAN, mode : {"closed", "ro", "rw"}, oldCount : Nat,
          new : SUBSET Names, cur : SUBSET Names, present : SUBSET Ids]

Init ==
  /\ pc = "idle" /\ scan = <<>> /\ scans = 0
  /\ m_mode = [f \in Folders |-> "closed"]
  /\ m_messageCount = [f \in Folders |-> 0]
  /\ m_messageInfos = [f \in Folders |-> <<>>]
  /\ m_messages = [f \in Folders |-> <<>>]
  /\ files = {} /\ used = {} /\ removed = {} /\ others = 0

Idle == pc = "idle"
Writable(f) == m_mode[f] = "rw"
Cache(f, count, infos) ==
  /\ m_messageCount' = [m_messageCount EXCEPT ![f] = count]
  /\ m_messageInfos' = [m_messageInfos EXCEPT ![f] = infos]

\* Slip: the other folders are told the count and not given the cache.
Share_CountOnly(f, count, infos) ==
  /\ m_messageCount' = [g \in Folders |-> count]
  /\ m_messageInfos' = [m_messageInfos EXCEPT ![f] = infos]
\* Every folder object of this path takes over the count and the cache.
Share(f, count, infos) ==
  /\ m_messageCount' = [g \in Folders |-> count]
  /\ m_messageInfos' = [g \in Folders |-> infos]

-----------------------------------------------------------------------------
\* scanFolder up to the listing of new/, called by open and getStatus.
ScanBegins(f, status, mode) ==
  /\ scans < MaxScans
  /\ scans' = scans + 1
  /\ Cache(f, 0, m_messageInfos[f])
  /\ scan' = [folder |-> f, status |-> status, mode |-> mode, oldCount |-> m_messageCount[f],
              new |-> Listing("new"), cur |-> {},
              present |-> {id \in Ids : Stored(id, files')}]
  /\ pc' = "cur"
  /\ UNCHANGED <<m_mode, m_messages>>

scanFolder(f, status, mode) == Idle /\ UNCHANGED maildirVars /\ ScanBegins(f, status, mode)

open(f, mode) == m_mode[f] = "closed" /\ scanFolder(f, FALSE, mode)
getStatus(f) == scanFolder(f, TRUE, m_mode[f])

\* The listing of cur/ and the loop that looks up each message of the last
\* scan in it: match says which file each one is found as.
matchMessages ==
  LET infos  == m_messageInfos[scan.folder]
      known  == {i \in DOMAIN infos : infos[i].type = "CUR"}
      listed == Listing("cur")
      SameId(i, name) == name.id = infos[i].path.id
  IN
  /\ pc = "cur"
  /\ \E found \in SUBSET known : \E match \in [found -> listed] :
       /\ \A i \in found : SameId(i, match[i])
       /\ \A i, j \in found : match[i] = match[j] => i = j
       /\ \A i \in known \ found, name \in listed :
            SameId(i, name) => \E j \in found : j < i /\ match[j] = name
       /\ Cache(scan.folder, 0,
            [i \in DOMAIN infos |->
               IF i \in found THEN [infos[i] EXCEPT !.path = match[i]]
               ELSE IF i \in known THEN [infos[i] EXCEPT !.type = "DELETED"]
               ELSE infos[i]])
       /\ scan' = [scan EXCEPT !.cur = {name \in listed : \A i \in found : match[i] # name}]
  /\ pc' = "new"
  /\ UNCHANGED <<m_mode, m_messages, scans, maildirVars>>

Moved(name) == Name(name.id, {})

moveNew ==
  /\ pc = "new"
  /\ \E name \in scan.new :
       /\ RenameSucceeds("new", name, Moved(name))
       /\ files' = Renamed("new", name, Moved(name))
       /\ Cache(scan.folder, 0, Append(m_messageInfos[scan.folder], CachedAs(Moved(name))))
       /\ scan' = [scan EXCEPT !.new = @ \ {name}]
  /\ UNCHANGED <<pc, m_mode, m_messages, scans, used, removed, others>>

\* Slip: the file is skipped and the scan goes on.
moveFails_GoesOn ==
  /\ pc = "new"
  /\ \E name \in scan.new :
       /\ ~RenameSucceeds("new", name, Moved(name))
       /\ files' = Renamed("new", name, Moved(name))
       /\ scan' = [scan EXCEPT !.new = @ \ {name}]
  /\ UNCHANGED <<pc, folderVars, scans, used, removed, others>>

\* A rename that fails ends the scan; its exception goes no further, and the
\* call goes on with a count of zero.
moveFails ==
  /\ pc = "new"
  /\ \E name \in scan.new :
       /\ ~RenameSucceeds("new", name, Moved(name))
       /\ files' = Renamed("new", name, Moved(name))
  /\ m_mode' = [m_mode EXCEPT ![scan.folder] = scan.mode]
  /\ pc' = "idle" /\ scan' = <<>>
  /\ UNCHANGED <<m_messageCount, m_messageInfos, m_messages, scans, used, removed, others>>

\* readdir returns names in no particular order.
Orders(S) ==
  {s \in [1..Cardinality(S) -> S] : \A i, j \in DOMAIN s : s[i] = s[j] => i = j}

scanEnds ==
  /\ pc = "new"
  /\ scan.new = {}
  /\ \E order \in Orders(scan.cur) :
       LET infos == m_messageInfos[scan.folder] \o [i \in DOMAIN order |-> CachedAs(order[i])]
       IN IF scan.status /\ Len(infos) > scan.oldCount
          THEN Share(scan.folder, Len(infos), infos)
          ELSE Cache(scan.folder, Len(infos), infos)
  /\ m_mode' = [m_mode EXCEPT ![scan.folder] = scan.mode]
  /\ pc' = "idle" /\ scan' = <<>>
  /\ UNCHANGED <<m_messages, scans, maildirVars>>
-----------------------------------------------------------------------------
getMessage(f, num) ==
  /\ Idle
  /\ m_mode[f] # "closed"
  /\ num \in 1..m_messageCount[f]
  /\ Len(m_messages[f]) < MaxObjects
  /\ m_messages' = [m_messages EXCEPT ![f] =
       Append(@, [num |-> num, expunged |-> FALSE, id |-> m_messageInfos[f][num].path.id])]
  /\ UNCHANGED <<pc, scan, m_mode, m_messageCount, m_messageInfos, scans, maildirVars>>

NewFlags(old, flags, how) ==
  CASE how = "add"    -> old \cup flags
    [] how = "remove" -> old \ flags
    [] how = "set"    -> flags

\* The type follows the flags of the call, whatever becomes of the message's.
Flagged(info, path, flags) == [path |-> path, type |-> TypeOf(flags)]

\* One message of the set; a set is the sequence of its messages.  When the
\* rename fails the cache keeps what it had.  The code does not look whether the
\* numbers are within the cache; beyond it nothing is defined.
setMessageFlags(f, num, flags, how) ==
  LET info == m_messageInfos[f][num]
      path == Name(info.path.id, NewFlags(extractFlags(info.path), flags, how))
  IN
  /\ Idle
  /\ Writable(f)
  /\ num \in 1..m_messageCount[f]
  /\ files' = Renamed("cur", info.path, path)
  /\ IF RenameSucceeds("cur", info.path, path)
     THEN m_messageInfos' = [m_messageInfos EXCEPT ![f][num] = Flagged(info, path, flags)]
     ELSE UNCHANGED m_messageInfos
  /\ UNCHANGED <<pc, scan, m_mode, m_messageCount, m_messages, scans, used, removed, others>>

deleteMessages(f, num) == setMessageFlags(f, num, {"T"}, "add")

\* With FLAG_RECENT alone the message goes to new/.  An addMessage that fails
\* leaves nothing behind.
addMessage(f, id, recent, flags) ==
  LET path == Name(id, IF recent THEN NoInfo ELSE flags) IN
  /\ Idle
  /\ Writable(f)
  /\ id \notin used
  /\ files' = files \cup {File(IF recent THEN "new" ELSE "cur", path, TRUE)}
  /\ used' = used \cup {id}
  /\ Share(f, m_messageCount[f] + 1, Append(m_messageInfos[f], [path |-> path, type |-> "CUR"]))
  /\ UNCHANGED <<pc, scan, m_mode, m_messages, scans, removed, others>>

\* A copy within the maildir has the flags of the cached name, and an id of its
\* own; it is put into no cache.  Without the file that the cache names, or when
\* writing fails, nothing is copied.  A copy of an empty file is no message.
Copied(f, num) ==
  LET path == m_messageInfos[f][num].path IN
  \/ \E file \in files, id \in Ids \ used :
       /\ file.dir = "cur" /\ file.name = path
       /\ files' = files \cup {File("cur", Name(id, extractFlags(path)), file.full)}
       /\ used' = used \cup {id}
       /\ removed' = IF file.full THEN removed ELSE removed \cup {id}
  \/ UNCHANGED <<files, used, removed>>

\* To the folder's own path, also from a read-only one; whether or not all was
\* copied, another folder object of the path, if there is one, gets its status.
copyMessages(f, num) ==
  /\ Idle
  /\ m_mode[f] # "closed"
  /\ num \in 1..m_messageCount[f]
  /\ Copied(f, num)
  /\ \/ \E g \in Folders \ {f} : ScanBegins(g, TRUE, m_mode[g])
     \/ Folders = {f} /\ UNCHANGED clientVars
  /\ UNCHANGED others

-----------------------------------------------------------------------------
\* The loop over the first n messages of a cache, which collects those that
\* are marked as deleted.
DeletedAmong(infos, n) ==
  LET nums[i \in 0..n] ==
        IF i = 0 THEN <<>>
        ELSE IF infos[i].type = "DELETED" THEN Append(nums[i - 1], i) ELSE nums[i - 1]
  IN nums[n]

\* Slip: the loop runs over the cache and not over the count.
DeletedNumbers_WholeCache(f) == DeletedAmong(m_messageInfos[f], Len(m_messageInfos[f]))
DeletedNumbers(f) == DeletedAmong(m_messageInfos[f], m_messageCount[f])

\* The number of a message object after k rounds of the loop over nums: it is
\* compared with the old numbers of the deleted messages.
Renumbering(first, nums) ==
  LET num[k \in 0..Len(nums)] ==
        IF k = 0 THEN first
        ELSE IF num[k - 1] > nums[k] THEN num[k - 1] - 1 ELSE num[k - 1]
  IN num

Renumbered(object, nums) ==
  LET num == Renumbering(object.num, nums)
  IN [object EXCEPT !.num = num[Len(nums)],
                    !.expunged = @ \/ \E k \in DOMAIN nums : num[k - 1] = nums[k]]

\* erase(begin() + (i - 1)) for i from nums.size() down to 1: whatever the
\* numbers are, the entries that go are the first ones.
Erased(infos, nums) == SubSeq(infos, Len(nums) + 1, Len(infos))

Expunge(f) ==
  LET nums == DeletedNumbers(f)
      gone == {File("cur", m_messageInfos[f][nums[k]].path, full) : k \in DOMAIN nums, full \in BOOLEAN}
  IN
  /\ Idle
  /\ Writable(f)
  /\ files' = files \ gone
  /\ RecordRemoved(files \ gone)
  /\ Share(f, m_messageCount[f] - Len(nums), Erased(m_messageInfos[f], nums))
  /\ UNCHANGED <<pc, scan, scans, used, others>>

\* Only the objects of this folder are renumbered.
expunge(f) ==
  /\ Expunge(f)
  /\ m_messages' = [m_messages EXCEPT ![f] =
       [i \in DOMAIN @ |-> Renumbered(@[i], DeletedNumbers(f))]]
  /\ UNCHANGED m_mode

\* The folder forgets its message objects.
Closed(f) ==
  /\ m_mode' = [m_mode EXCEPT ![f] = "closed"]
  /\ m_messages' = [m_messages EXCEPT ![f] = <<>>]

\* In read-only mode close(true) throws out of expunge, and closes nothing.
close(f, expunging) ==
  /\ Idle
  /\ m_mode[f] # "closed"
  /\ Closed(f)
  /\ \/ expunging /\ Expunge(f)
     \/ /\ ~expunging
        /\ UNCHANGED <<pc, scan, m_messageCount, m_messageInfos, scans, maildirVars>>

-----------------------------------------------------------------------------
\* The new names that a rename which is under way may have created.
RenameTargets ==
  {to \in Names :
     \/ pc = "new" /\ \E name \in scan.new : to = Moved(name)
     \/ /\ Idle /\ to.info # NoInfo
        /\ \E f \in Folders :
             Writable(f) /\ \E i \in 1..m_messageCount[f] : to.id = m_messageInfos[f][i].path.id}

\* The process dies, at worst between the two halves of a rename, and starts
\* again.
restart ==
  /\ OtherStep
  /\ pc' = "idle" /\ scan' = <<>>
  /\ m_mode' = [f \in Folders |-> "closed"]
  /\ m_messageCount' = [f \in Folders |-> 0]
  /\ m_messageInfos' = [f \in Folders |-> <<>>]
  /\ m_messages' = [f \in Folders |-> <<>>]
  /\ \/ UNCHANGED files
     \/ \E to \in RenameTargets :
          /\ to \notin Listing("cur")
          /\ files' = files \cup {File("cur", to, FALSE)}
  /\ UNCHANGED <<scans, used, removed>>

Call ==
  \E f \in Folders :
    \/ \E mode \in {"ro", "rw"} : open(f, mode)
    \/ getStatus(f) \/ expunge(f)
    \/ \E expunging \in BOOLEAN : close(f, expunging)
    \/ \E num \in 1..Len(m_messageInfos[f]) :
         \/ getMessage(f, num) \/ deleteMessages(f, num) \/ copyMessages(f, num)
         \/ \E flags \in SUBSET Flags, how \in {"add", "remove", "set"} :
              setMessageFlags(f, num, flags, how)
    \/ \E id \in Ids :
         \/ addMessage(f, id, TRUE, {})
         \/ \E flags \in SUBSET Flags : addMessage(f, id, FALSE, flags)

Scan == matchMessages \/ moveNew \/ moveFails \/ scanEnds

Others == ((\E id \in Ids : deliver(id)) \/ otherRenames \/ otherRemoves) /\ UNCHANGED clientVars

Next == Call \/ Scan \/ restart \/ Others

Spec == Init /\ [][Next]_vars

-----------------------------------------------------------------------------
(***************************************************************************)
(* What must hold                                                          *)
(***************************************************************************)
TypeOK ==
  /\ files \subseteq Files /\ used \subseteq Ids /\ removed \subseteq used /\ others \in Nat
  /\ pc \in {"idle", "cur", "new"} /\ scans \in Nat
  /\ pc # "idle" => scan \in Scans
  /\ m_mode \in [Folders -> {"closed", "ro", "rw"}]
  /\ m_messageCount \in [Folders -> Nat]
  /\ m_messageInfos \in [Folders -> Seq(MessageInfos)]
  /\ m_messages \in [Folders -> Seq(Objects)]

\* Every number that getMessage accepts is the position of a cached message,
\* in every folder object of the path: after scans that another process made
\* fail, expunges, and caches taken over from one object by another.
CountWithinCache == \A f \in Folders : m_messageCount[f] <= Len(m_messageInfos[f])

\* A message put into the maildir stays there until it is expunged.  No rename
\* destroys one, however stale the name it starts from is and whatever empty
\* files earlier renames have left behind.
NoMessageLost == \A id \in used : Stored(id, files) \/ id \in removed

\* A scan that comes to its end (not cut off by a crash) has every message in its cache that was in the
\* maildir all the while, though other readers move messages and change their
\* names between its listings and its renames.
ScanIsComplete ==
  [][pc = "new" /\ scan.new = {} /\ pc' = "idle" /\ others' = others =>
       \A id \in scan.present :
         Stored(id, files) =>
           \E i \in DOMAIN m_messageInfos'[scan.folder] :
             m_messageInfos'[scan.folder][i].path.id = id]_vars

\* expunge() removes messages marked as deleted and no other.
ExpungeRemovesDeleted ==
  [][\A f \in files :
       f.full /\ f.name.id \in removed' \ removed => "T" \in f.name.info]_vars

\* The number of a message object that has not been expunged is where the
\* folder keeps that very message, whatever other messages are expunged.
NumberNamesMessage ==
  \A f \in Folders : \A i \in DOMAIN m_messages[f] :
    LET object == m_messages[f][i] IN
    ~object.expunged =>
      /\ object.num \in DOMAIN m_messageInfos[f]
      /\ m_messageInfos[f][object.num].path.id = object.id
==============================================================================
