----------------------------- MODULE POP3Folder -----------------------------
(***************************************************************************)
(* The folder objects of a POP3 store (classes POP3Folder, POP3Message and *)
(* POP3Store).  All objects stand for the one folder there is, INBOX, and  *)
(* share the connection of their store; calls are synchronous, one command *)
(* after the other.                                                        *)
(***************************************************************************)
EXTENDS POP3Maildrop, SequencesExt

CONSTANTS
  Folders,           \* folder objects
  Watched,           \* those that delete messages and hand out message objects
  Garbage,           \* what a count may be that nobody has set
  MaxNum, MaxSessions, MaxCalls, MaxObjects     \* bounds of a run

ASSUME FolderAssumption ==
  Watched \subseteq Folders /\ Garbage \subseteq 0..MaxUid /\ MaxNum \in Nat /\ MaxSessions \in Nat /\ MaxCalls \in Nat /\ MaxObjects \in Nat

VARIABLES
  folders,       \* the state of each folder object
  m_folders,     \* POP3Store::m_folders, by pointer
  call,          \* the running call, or Idle
  calls,
  sessions, inStep, asked, confirmed, strayed     \* history, below

callVars == <<call, calls>>
history == <<sessions, inStep, asked, confirmed, strayed>>
vars == <<maildropVars, folders, m_folders, callVars, history>>

(***************************************************************************)
(* sessions counts the connections made; inStep says that no reply to a    *)
(* call that timed out is on its way.  asked and confirmed are the         *)
(* messages that callers have wanted deleted, and have been told are, and  *)
(* that no folder has since been closed upon without expunging.  strayed   *)
(* is set when a folder opened in an earlier session deletes in this one.   *)
(***************************************************************************)

\* store: m_store is set.  The rest after objects is history: what the folder has
\* is of this session; another folder object was closed since it was opened,
\* without expunging; its store was disconnected.
NoFolder == [live |-> FALSE, store |-> FALSE, open |-> FALSE, count |-> 0, objects |-> <<>>,
             fresh |-> TRUE, overtaken |-> FALSE, left |-> FALSE]
Object(num) == [num |-> num, uid |-> NoUid, deleted |-> FALSE]

Idle == [op |-> "none"]
IdleNow == call = Idle

Init ==
  /\ MaildropInit
  /\ folders = [f \in Folders |-> NoFolder] /\ m_folders = {}
  /\ call = Idle /\ calls = 0
  /\ sessions = 0 /\ inStep = TRUE /\ asked = {} /\ confirmed = {} /\ strayed = FALSE

Live(f) == folders[f].live
Usable(f) == Live(f) /\ folders[f].store /\ up
OpenNow(f) == Usable(f) /\ folders[f].open
Fresh(f) == folders[f].fresh
\* The message that a caller means by a number.
Meant(f, num) == IF Fresh(f) THEN Named(num, listed) ELSE NoUid
Update(f, folder) == folders' = [folders EXCEPT ![f] = folder]

-----------------------------------------------------------------------------
(***************************************************************************)
(* The store                                                               *)
(***************************************************************************)
\* Folder objects that a lost connection left behind are not touched.
connect ==
  /\ IdleNow /\ ~up
  /\ sessions < MaxSessions /\ sessions' = sessions + 1
  /\ NewSession
  /\ UNCHANGED <<inStep, asked, confirmed, strayed>>
  /\ folders' = [f \in Folders |->
                   IF Live(f) THEN [folders[f] EXCEPT !.fresh = FALSE] ELSE NoFolder]
  /\ UNCHANGED <<maildrop, nextUid, others, m_folders, callVars>>

\* The count is not initialised.
getFolder(f) ==
  /\ IdleNow /\ up /\ ~Live(f) /\ f \notin m_folders
  /\ \E garbage \in Garbage :
       Update(f, [NoFolder EXCEPT !.live = TRUE, !.store = TRUE, !.count = garbage])
  /\ m_folders' = m_folders \cup {f}
  /\ UNCHANGED <<maildropVars, callVars, history>>

\* What follows a pointer in m_folders to a folder object that no longer
\* exists is undefined; the model stops there.
Walkable == \A f \in m_folders : Live(f)

\* A command, and the call that waits for its reply.
Command(op, num) == [op |-> op, num |-> num]
Sent(command, newCall) ==
  /\ up
  /\ calls < MaxCalls /\ calls' = calls + 1
  /\ requests' = Append(requests, command)
  /\ call' = newCall
  /\ UNCHANGED <<maildrop, nextUid, others, up, listed, marked, replies>>

\* Slip: the folders keep their store.
onStoreDisconnected_Not(folder) == folder
onStoreDisconnected(folder) == [folder EXCEPT !.store = FALSE]

disconnect ==
  /\ IdleNow /\ up
  /\ Walkable
  /\ folders' = [f \in Folders |->
                   IF f \in m_folders
                   THEN [onStoreDisconnected(folders[f]) EXCEPT !.left = TRUE]
                   ELSE folders[f]]
  /\ m_folders' = {}
  /\ Sent(Command("QUIT", 0), [op |-> "disconnect"])
  /\ UNCHANGED history

\* A connection is over, and with it the history of its session.
Forget == inStep' = TRUE /\ asked' = {} /\ confirmed' = {} /\ strayed' = FALSE

\* The server is gone, or the network: what was sent may still be served.
connectionLost ==
  /\ up
  /\ leave
  /\ call' = Idle
  /\ Forget
  /\ folders' = IF call.op = "destroy" THEN [folders EXCEPT ![call.folder] = NoFolder] ELSE folders
  /\ UNCHANGED <<m_folders, calls, sessions>>

-----------------------------------------------------------------------------
(***************************************************************************)
(* Calls of a folder                                                       *)
(***************************************************************************)
\* An open folder may be opened again; its message objects stay.
open(f) ==
  /\ IdleNow /\ Usable(f)
  /\ Sent(Command("STAT", 0), [op |-> "open", folder |-> f])
  /\ UNCHANGED <<folders, m_folders, history>>

\* Slip: the wrong way round.
sendsRset_WhenExpunging(expunge) == expunge
sendsRset(expunge) == ~expunge

\* m_open becomes false and the message objects are detached; the count stays.
Closed(folder) == [folder EXCEPT !.open = FALSE, !.objects = <<>>]

close(f, expunge) ==
  /\ IdleNow /\ Live(f) /\ folders[f].store /\ folders[f].open
  /\ expunge \/ up
  /\ IF sendsRset(expunge)
     THEN Sent(Command("RSET", 0), [op |-> "close", folder |-> f]) /\ UNCHANGED folders
     ELSE Update(f, Closed(folders[f])) /\ UNCHANGED <<maildropVars, callVars>>
  /\ IF expunge THEN UNCHANGED <<asked, confirmed>> ELSE asked' = {} /\ confirmed' = {}
  /\ UNCHANGED <<m_folders, sessions, inStep, strayed>>

\* The last reference to the folder object goes.  With a store the destructor
\* closes an open folder; unregisterFolder comes after that, and does not come
\* when close throws.
destroy(f) ==
  /\ IdleNow /\ Live(f)
  /\ IF folders[f].store /\ folders[f].open /\ up
     THEN /\ Sent(Command("RSET", 0), [op |-> "destroy", folder |-> f])
          /\ asked' = {} /\ confirmed' = {}
          /\ UNCHANGED <<folders, m_folders, sessions, inStep, strayed>>
     ELSE /\ Update(f, NoFolder)
          /\ m_folders' = IF folders[f].open THEN m_folders ELSE m_folders \ {f}
          /\ UNCHANGED <<maildropVars, callVars, history>>

\* A new message object; nothing is sent.
getMessage(f) ==
  /\ IdleNow /\ OpenNow(f)
  /\ f \in Watched /\ Len(folders[f].objects) < MaxObjects
  /\ \E num \in 1..folders[f].count :
       Update(f, [folders[f] EXCEPT !.objects = Append(@, Object(num))])
  /\ UNCHANGED <<maildropVars, m_folders, callVars, history>>

fetchMessage(f, i) ==
  /\ IdleNow /\ OpenNow(f)
  /\ Sent(Command("UIDL", folders[f].objects[i].num), [op |-> "fetch", folder |-> f, object |-> i])
  /\ UNCHANGED <<folders, m_folders, history>>

\* Slip: the loop ends with the first message.
remaining_None(nums) == <<>>
remaining(nums) == Tail(nums)

\* A set of messages is the list of its numbers.
NumberLists ==
  {nums \in UNION {[1..n -> 1..MaxNum] : n \in 0..MaxNum} :
     \A i, j \in DOMAIN nums : i < j => nums[i] < nums[j]}

\* One DELE after the other.
deleteMessages(f, nums) ==
  /\ IdleNow /\ OpenNow(f)
  /\ f \in Watched /\ nums # <<>>
  /\ Sent(Command("DELE", nums[1]),
          [op |-> "delete", folder |-> f, rest |-> remaining(nums), all |-> ToSet(nums)])
  /\ asked' = asked \cup {Meant(f, n) : n \in ToSet(nums)}
  /\ strayed' = (strayed \/ ~Fresh(f))
  /\ UNCHANGED <<folders, m_folders, sessions, inStep, confirmed>>

\* Does not ask whether the folder is open.
getStatus(f) ==
  /\ IdleNow /\ Usable(f)
  /\ Sent(Command("STAT", 0), [op |-> "status", folder |-> f])
  /\ UNCHANGED <<folders, m_folders, history>>

-----------------------------------------------------------------------------
(***************************************************************************)
(* Replies                                                                 *)
(***************************************************************************)
Answered(op) == call.op = op /\ replies # <<>>
Got == Head(replies)
ReadIt ==
  /\ replies' = Tail(replies)
  /\ UNCHANGED <<maildrop, nextUid, others, up, listed, marked, calls>>
Return == call' = Idle /\ UNCHANGED requests

\* A reply that does not begin with a number makes open throw, with the count
\* at 0; a folder that was open stays so.
doneOpen ==
  /\ Answered("open") /\ ReadIt /\ Return
  /\ \/ ~Got.ok /\ UNCHANGED folders
     \/ /\ Got.ok /\ Got.count = NoCount
        /\ Update(call.folder, [folders[call.folder] EXCEPT !.count = 0])
     \/ /\ Got.ok /\ Got.count # NoCount
        /\ Update(call.folder,
                  [folders[call.folder] EXCEPT
                     !.open = TRUE, !.count = Got.count,
                     !.fresh = @ \/ folders[call.folder].objects = <<>>,
                     !.overtaken = @ /\ folders[call.folder].objects # <<>>])
  /\ UNCHANGED <<m_folders, history>>

\* What the reply to RSET says is not looked at.
doneClose ==
  /\ Answered("close") /\ ReadIt /\ Return
  /\ folders' = [g \in Folders |->
                   IF g = call.folder THEN Closed(folders[g])
                   ELSE [folders[g] EXCEPT !.overtaken = TRUE]]
  /\ UNCHANGED <<m_folders, history>>

doneDestroy ==
  /\ Answered("destroy") /\ ReadIt /\ Return
  /\ folders' = [g \in Folders |->
                   IF g = call.folder THEN NoFolder ELSE [folders[g] EXCEPT !.overtaken = TRUE]]
  /\ m_folders' = m_folders \ {call.folder}
  /\ UNCHANGED history

doneFetch ==
  /\ Answered("fetch") /\ ReadIt /\ Return
  /\ IF Got.ok
     THEN Update(call.folder, [folders[call.folder] EXCEPT !.objects[call.object].uid = Got.uid])
     ELSE UNCHANGED folders
  /\ UNCHANGED <<m_folders, history>>

deleteNext ==
  /\ Answered("delete") /\ Got.ok /\ call.rest # <<>>
  /\ ReadIt
  /\ requests' = Append(requests, Command("DELE", Head(call.rest)))
  /\ call' = [call EXCEPT !.rest = remaining(@)]
  /\ UNCHANGED <<folders, m_folders, history>>

\* Slip: every object from the first of the numbers on is marked.
markDeleted_From(objects, nums) ==
  [i \in DOMAIN objects |->
     [objects[i] EXCEPT !.deleted = @ \/ \E n \in nums : n <= objects[i].num]]
markDeleted(objects, nums) ==
  [i \in DOMAIN objects |-> [objects[i] EXCEPT !.deleted = @ \/ objects[i].num \in nums]]

\* Only now are the message objects marked, those of this folder object only.
doneDelete ==
  /\ Answered("delete") /\ Got.ok /\ call.rest = <<>>
  /\ ReadIt /\ Return
  /\ Update(call.folder, [folders[call.folder] EXCEPT !.objects = markDeleted(@, call.all)])
  /\ confirmed' = IF inStep /\ Fresh(call.folder)
                  THEN confirmed \cup {Meant(call.folder, n) : n \in call.all}
                  ELSE confirmed
  /\ UNCHANGED <<m_folders, sessions, inStep, asked, strayed>>

\* Slip: a refused DELE is sent again.
afterRefusal_Retry == requests' = Append(requests, Command("DELE", Min(call.all))) /\ UNCHANGED call
\* The messages before the refused one stay deleted, without the objects' knowing.
afterRefusal == Return
refusedDelete ==
  /\ Answered("delete") /\ ~Got.ok
  /\ ReadIt /\ afterRefusal
  /\ UNCHANGED <<folders, m_folders, history>>

\* Slip: as with open, where it throws.
countIn_Unchecked(reply) == reply.count
\* A text without a number counts as 0.
countIn(reply) == IF reply.count = NoCount THEN 0 ELSE reply.count

\* Other folder objects of the path are
\* told of a count that has grown, and not of one that has shrunk.
doneStatus ==
  /\ Answered("status") /\ ReadIt /\ Return
  /\ LET count == countIn(Got)
         grown == Got.ok /\ count > folders[call.folder].count
     IN /\ grown => Walkable
        /\ folders' = [g \in Folders |->
                         IF Got.ok /\ (g = call.folder \/ (grown /\ g \in m_folders))
                         THEN [folders[g] EXCEPT !.count = count] ELSE folders[g]]
  /\ UNCHANGED <<m_folders, history>>

\* The reply to QUIT, or whatever comes in its place, ends the connection.
doneDisconnect ==
  /\ call.op = "disconnect" /\ replies # <<>>
  /\ leave
  /\ call' = Idle
  /\ Forget
  /\ UNCHANGED <<folders, m_folders, calls, sessions>>

\* The reply is late: the call fails and the connection stays as it is; the
\* next call will take that reply for its own.  A QUIT that times out is a
\* connection that is lost.
timeOut ==
  /\ ~IdleNow /\ call.op # "disconnect"
  /\ replies = <<>>
  /\ call' = Idle
  /\ inStep /\ inStep' = FALSE     \* bound: once per connection
  /\ folders' = IF call.op = "destroy" THEN [folders EXCEPT ![call.folder] = NoFolder] ELSE folders
  /\ UNCHANGED <<maildropVars, m_folders, calls, sessions, asked, confirmed, strayed>>

-----------------------------------------------------------------------------
FolderCalls(f) ==
  \/ getFolder(f) \/ open(f) \/ getStatus(f) \/ destroy(f) \/ getMessage(f)
  \/ \E expunge \in BOOLEAN : close(f, expunge)
  \/ \E i \in DOMAIN folders[f].objects : fetchMessage(f, i)
  \/ \E nums \in NumberLists : deleteMessages(f, nums)

Replied ==
  \/ doneOpen \/ doneClose \/ doneDestroy \/ doneFetch \/ deleteNext \/ doneDelete
  \/ refusedDelete \/ doneStatus \/ doneDisconnect

Server == (serve \/ refuse) /\ UNCHANGED <<folders, m_folders, callVars, history>>
OtherMail == (arrive \/ vanish) /\ UNCHANGED <<folders, m_folders, callVars, history>>

Next ==
  \/ connect \/ disconnect \/ connectionLost
  \/ \E f \in Folders : FolderCalls(f)
  \/ Replied \/ timeOut \/ Server \/ OtherMail

Spec == Init /\ [][Next]_vars

\* The server serves, and a call reads the reply that has come.
FairSpec == Spec /\ WF_vars(Server) /\ WF_vars(Replied)

-----------------------------------------------------------------------------
(***************************************************************************)
(* What must hold                                                          *)
(***************************************************************************)
TypeOK ==
  /\ maildrop \subseteq Uids /\ nextUid \in 1..MaxUid + 1
  /\ listed \subseteq Uids /\ marked \subseteq listed
  /\ up \in BOOLEAN
  /\ ~up => listed = {} /\ requests = <<>> /\ replies = <<>>
  /\ \A f \in Folders :
       /\ folders[f].count \in 0..MaxUid
       /\ \A i \in DOMAIN folders[f].objects :
            folders[f].objects[i] \in [num : 1..MaxUid, uid : Uids \cup {NoUid}, deleted : BOOLEAN]
  /\ m_folders \subseteq Folders
  /\ calls \in 0..MaxCalls /\ sessions \in 0..MaxSessions

\* A session removes no message but those that callers asked to delete, through
\* whichever folder object, after the last time one was closed without
\* expunging - however many calls failed, timed out or were cut off on the way.
RemovedWasAsked == [][up /\ ~strayed => maildrop \ maildrop' \subseteq asked]_vars

\* What deleteMessages has confirmed is gone once the store has disconnected.
ConfirmedIsGone == [][doneDisconnect /\ inStep => confirmed \cap maildrop' = {}]_vars

\* Message objects of an open folder have the UID of their message or none, and
\* one that shows FLAG_DELETED stands for a message that the server has marked,
\* unless another folder object took the mark back, or a call has timed out.
ObjectsTellTruth ==
  IdleNow /\ up /\ inStep =>
    \A f \in Folders :
      folders[f].open /\ Fresh(f) =>
        \A i \in DOMAIN folders[f].objects :
          LET object == folders[f].objects[i]
              message == Named(object.num, listed)
          IN /\ object.uid \in {NoUid, message}
             /\ object.deleted /\ ~folders[f].overtaken => message \in marked

\* A folder object of a store that was disconnected sends nothing when the
\* store is connected again.
OldFoldersSilent ==
  [][IdleNow /\ "folder" \in DOMAIN call' => ~folders[call'.folder].left]_vars

\* Every call returns, whatever is refused and whenever the connection is lost,
\* unless the behaviour of the program has become undefined.
CallsReturn == ~IdleNow ~> IdleNow \/ ~Walkable
=============================================================================
