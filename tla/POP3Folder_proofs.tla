-------------------------- MODULE POP3Folder_proofs --------------------------
(***************************************************************************)
(* Theorems about POP3Folder: for any size of the maildrop, any number of  *)
(* folder objects, message objects, calls and sessions.                    *)
(***************************************************************************)
EXTENDS POP3Folder, Induction

-----------------------------------------------------------------------------
(***************************************************************************)
(* The server's numbers                                                    *)
(***************************************************************************)
\* What a session has numbered is finite.
LEMMA ViewIsFinite ==
  ASSUME NEW view \in SUBSET Uids
  PROVE  /\ view \in SUBSET Nat /\ IsFiniteSet(view)
         /\ Cardinality(view) \in 0..MaxUid
<1>1. MaxUid \in Nat
  BY MaildropAssumption
<1>2. IsFiniteSet(Uids) /\ Cardinality(Uids) = MaxUid
  <2>1. 1 \in Int /\ MaxUid \in Int
    BY <1>1
  <2>2. Cardinality(1..MaxUid) = IF 1 > MaxUid THEN 0 ELSE MaxUid - 1 + 1
    BY <2>1, FS_Interval
  <2>3. Cardinality(1..MaxUid) = MaxUid
    BY <1>1, <2>2
  <2> QED
    BY <2>1, <2>3, FS_Interval DEF Uids
<1>3. IsFiniteSet(view) /\ Cardinality(view) <= Cardinality(Uids)
  BY <1>2, FS_Subset
<1>4. Cardinality(view) \in Nat
  BY <1>3, FS_CardinalityType
<1>5. view \in SUBSET Nat
  BY <1>1 DEF Uids
<1> QED
  BY <1>1, <1>2, <1>3, <1>4, <1>5

\* A number that the session has given names one of its messages.
LEMMA NamedType ==
  ASSUME NEW num, NEW view \in SUBSET Uids
  PROVE  /\ num \in 1..Cardinality(view) => Named(num, view) \in view
         /\ num \notin 1..Cardinality(view) => Named(num, view) = NoUid
         /\ Named(num, view) # NoUid => Named(num, view) \in view /\ num \in 0..MaxUid
         /\ Named(num, view) \in Uids \cup {NoUid}
<1>1. view \in SUBSET Nat /\ IsFiniteSet(view) /\ Cardinality(view) \in 0..MaxUid
  BY ViewIsFinite
<1>2. \A u : Number(u, view) = Rank(u, view)
  BY DEF Number, Rank
<1>3. num \in 1..Cardinality(view) => Named(num, view) \in view
  <2> HAVE num \in 1..Cardinality(view)
  <2>1. \E u \in view : Number(u, view) = num
    BY <1>1, <1>2, Ranks
  <2> QED
    BY <2>1 DEF Named
<1>4. num \notin 1..Cardinality(view) => Named(num, view) = NoUid
  BY DEF Named
<1>5. num \in 1..Cardinality(view) => num \in 0..MaxUid
  BY <1>1, MaildropAssumption
<1> QED
  BY <1>3, <1>4, <1>5

\* What can be asked for is numbered and not marked.
LEMMA ThereType ==
  ASSUME NEW num, listed \in SUBSET Uids, There(num)
  PROVE  Named(num, listed) \in listed /\ Named(num, listed) \notin marked /\ num \in 0..MaxUid
  BY NamedType DEF There

-----------------------------------------------------------------------------
(***************************************************************************)
(* Types                                                                   *)
(***************************************************************************)
Counts == 0..MaxUid
Objects == [num : 1..MaxUid, uid : Uids \cup {NoUid}, deleted : BOOLEAN]
FolderStates ==
  [live : BOOLEAN, store : BOOLEAN, open : BOOLEAN, count : Counts, objects : Seq(Objects),
   fresh : BOOLEAN, overtaken : BOOLEAN, left : BOOLEAN]
Commands == [op : {"STAT", "UIDL", "DELE", "RSET", "QUIT"}, num : Nat]
Replies ==
  [op : {"STAT", "UIDL", "DELE", "RSET", "QUIT"}, ok : BOOLEAN, count : Counts \cup {NoCount},
   uid : Uids \cup {NoUid}]
Calls ==
  [op : {"none", "disconnect"}]
    \cup [op : {"open", "close", "destroy", "status"}, folder : Folders]
    \cup [op : {"fetch"}, folder : Folders, object : Nat]
    \cup [op : {"delete"}, folder : Folders, rest : Seq(1..MaxNum), all : SUBSET (1..MaxNum)]

MaildropType ==
  /\ maildrop \subseteq Uids /\ nextUid \in 1..(MaxUid + 1)
  /\ up \in BOOLEAN /\ listed \subseteq Uids /\ marked \subseteq listed
  /\ requests \in Seq(Commands) /\ replies \in Seq(Replies)
  /\ ~up => listed = {} /\ requests = <<>> /\ replies = <<>> /\ call = Idle

\* A folder object that is not open has no message objects, and one that its
\* store has left has no store.
FolderType ==
  /\ folders \in [Folders -> FolderStates] /\ m_folders \subseteq Folders
  /\ \A f \in Folders : ~folders[f].open => folders[f].objects = <<>>
  /\ \A f \in Folders : folders[f].left => ~folders[f].store

CallType ==
  /\ call \in Calls
  /\ call.op = "fetch" => call.object \in DOMAIN folders[call.folder].objects

CounterType == calls \in 0..MaxCalls /\ sessions \in 0..MaxSessions

TypeInv == MaildropType /\ FolderType /\ CallType /\ CounterType

\* The fields of the records in turn.
LEMMA CallFields ==
  ASSUME NEW c \in Calls
  PROVE  /\ c.op \in {"none", "disconnect", "open", "close", "destroy", "status", "fetch", "delete"}
         /\ c.op = "none" => c = Idle
         /\ c.op \notin {"none", "disconnect"} => c.folder \in Folders
         /\ c.op = "delete" => c.rest \in Seq(1..MaxNum) /\ c.all \in SUBSET (1..MaxNum)
  BY DEF Calls, Idle

\* No call is running exactly when the call is none.
LEMMA IdleFields ==
  Idle \in Calls /\ Idle.op = "none" /\ \A c \in Calls : c # Idle => c.op # "none"
  BY DEF Calls, Idle

\* What is sent is a command, with its fields.
LEMMA CommandType ==
  ASSUME NEW op \in {"STAT", "UIDL", "DELE", "RSET", "QUIT"}, NEW num \in Nat
  PROVE  Command(op, num) \in Commands /\ Command(op, num).op = op /\ Command(op, num).num = num
  BY DEF Command, Commands

\* A new message object.
LEMMA ObjectType ==
  ASSUME NEW num \in 1..MaxUid
  PROVE  Object(num) \in Objects
  BY DEF Object, Objects

\* A folder object that does not exist: no message objects, and not left.
LEMMA NoFolderType ==
  NoFolder \in FolderStates /\ ~NoFolder.open /\ NoFolder.objects = <<>> /\ ~NoFolder.left
<1>1. 0 \in Counts /\ <<>> \in Seq(Objects)
  BY MaildropAssumption DEF Counts
<1> QED
  BY <1>1 DEF NoFolder, FolderStates

\* The state of one folder object changes.
LEMMA UpdateType ==
  ASSUME FolderType, NEW f \in Folders, NEW folder \in FolderStates, Update(f, folder),
         ~folder.open => folder.objects = <<>>, folder.left => ~folder.store,
         m_folders' \subseteq Folders
  PROVE  /\ FolderType' /\ folders'[f] = folder
         /\ \A g \in Folders : g # f => folders'[g] = folders[g]
  BY DEF FolderType, Update

-----------------------------------------------------------------------------
(***************************************************************************)
(* What the server does keeps the types                                    *)
(***************************************************************************)
LEMMA AnswerType ==
  ASSUME NEW request \in Commands, listed \in SUBSET Uids, marked \subseteq listed
  PROVE  Answer(request) \in Replies /\ Answer(request).op = request.op
<1>0. request.op \in {"STAT", "UIDL", "DELE", "RSET", "QUIT"} /\ NoUid \in Uids \cup {NoUid}
      /\ NoCount \in Counts \cup {NoCount}
  BY DEF Commands
<1> DEFINE num == request.num
           uid == Named(num, listed)
           left == Cardinality(listed \ marked)
<1>2. left \in Counts \cup {NoCount}
  BY ViewIsFinite DEF Counts
<1>3. There(num) => num \in Counts \cup {NoCount} /\ uid \in Uids \cup {NoUid}
  BY ThereType DEF Counts
<1>4. There(num) \in BOOLEAN 
  BY DEF There
<1>5. \/ request.op = "STAT" /\ Answer(request) = Reply("STAT", TRUE, left, NoUid)
      \/ request.op = "UIDL" /\ There(num) /\ Answer(request) = Reply("UIDL", TRUE, num, uid)
      \/ request.op = "UIDL" /\ Answer(request) = Reply("UIDL", FALSE, NoCount, NoUid)
      \/ request.op = "DELE" /\ Answer(request) = Reply("DELE", There(num), NoCount, NoUid)
      \/ Answer(request) = Reply(request.op, TRUE, NoCount, NoUid)
  BY <1>0 DEF Answer
<1> HIDE DEF num, uid, left
<1> DEFINE op == request.op
<1>6. op \in {"STAT", "UIDL", "DELE", "RSET", "QUIT"}
  BY <1>0
<1> HIDE DEF Reply, Replies, op
<1>7. CASE op = "STAT" /\ Answer(request) = Reply("STAT", TRUE, left, NoUid)
  BY <1>0, <1>2, <1>4, <1>6, <1>7 DEF Reply, Replies, op
<1>8. CASE op = "UIDL" /\ There(num) /\ Answer(request) = Reply("UIDL", TRUE, num, uid)
  BY <1>0, <1>3, <1>4, <1>6, <1>8 DEF Reply, Replies, op
<1>9. CASE op = "UIDL" /\ Answer(request) = Reply("UIDL", FALSE, NoCount, NoUid)
  BY <1>0, <1>4, <1>6, <1>9 DEF Reply, Replies, op
<1>10. CASE op = "DELE" /\ Answer(request) = Reply("DELE", There(num), NoCount, NoUid)
  BY <1>0, <1>4, <1>6, <1>10 DEF Reply, Replies, op
<1>11. CASE Answer(request) = Reply(op, TRUE, NoCount, NoUid)
  BY <1>0, <1>4, <1>6, <1>11 DEF Reply, Replies, op
<1> QED
  BY <1>5, <1>7, <1>8, <1>9, <1>10, <1>11 DEF op

\* Only messages of the session are marked.
LEMMA MarkingType ==
  ASSUME NEW marks, marks \subseteq listed, listed \subseteq Uids, NEW request
  PROVE  Marking(marks, request) \subseteq listed
<1>1. Named(request.num, listed) # NoUid => Named(request.num, listed) \in listed
  BY NamedType
<1> QED
  BY <1>1 DEF Marking

\* The server's steps keep the types of the maildrop and of the session.
LEMMA ServeType ==
  ASSUME MaildropType, serve \/ refuse, call' = call
  PROVE  MaildropType'
<1>1. /\ requests # <<>> /\ requests \in Seq(Commands) /\ replies \in Seq(Replies)
      /\ listed \subseteq Uids /\ marked \subseteq listed /\ up
  BY DEF MaildropType, serve, refuse
<1>2. Head(requests) \in Commands /\ Tail(requests) \in Seq(Commands)
  BY <1>1
<1>3. \A request \in Commands : Answer(request) \in Replies
  BY <1>1, AnswerType
<1> DEFINE refusal == Reply("DELE", FALSE, NoCount, NoUid)
<1>4. refusal \in Replies
  BY DEF Reply, Replies
<1>5. CASE serve
  <2>1. /\ replies' = Append(replies, Answer(Head(requests)))
        /\ marked' = Marking(marked, Head(requests))
        /\ maildrop' \subseteq maildrop /\ requests' = Tail(requests)
        /\ nextUid' = nextUid /\ up' = up /\ listed' = listed
    BY <1>5 DEF serve
  <2>2. Answer(Head(requests)) \in Replies
    BY <1>2, <1>3
  <2>3. replies' \in Seq(Replies)
    BY <1>1, <2>1, <2>2
  <2>4. marked' \subseteq listed
    BY <1>1, <2>1, MarkingType
  <2> QED
    BY <1>1, <1>2, <2>1, <2>3, <2>4 DEF MaildropType
<1>6. CASE refuse
  <2>1. /\ requests' = Tail(requests)
        /\ replies' = Append(replies, refusal)
        /\ UNCHANGED <<maildrop, nextUid, up, listed, marked>>
    BY <1>6 DEF refuse
  <2> HIDE DEF refusal
  <2>2. replies' \in Seq(Replies)
    BY <1>1, <1>4, <2>1
  <2> QED
    BY <1>1, <1>2, <2>1, <2>2 DEF MaildropType
<1> QED
  BY <1>5, <1>6

\* Mail comes or goes while there is no session.
LEMMA OtherMailType ==
  ASSUME MaildropType, arrive \/ vanish, call' = call
  PROVE  MaildropType'
<1>1. CASE arrive
  <2>1. nextUid \in 1..(MaxUid + 1) /\ nextUid <= MaxUid /\ MaxUid \in Nat
    BY <1>1, MaildropAssumption DEF MaildropType, arrive
  <2>2. nextUid \in Uids /\ nextUid + 1 \in 1..(MaxUid + 1)
    BY <2>1 DEF Uids
  <2> QED
    BY <1>1, <2>2 DEF MaildropType, arrive
<1>2. CASE vanish
  BY <1>2 DEF MaildropType, vanish
<1> QED
  BY <1>1, <1>2

\* The connection is closed.
LEMMA LeaveType ==
  ASSUME MaildropType, leave, call' = Idle
  PROVE  MaildropType'
<1>1. maildrop' \subseteq maildrop
  BY DEF leave
<1>2. <<>> \in Seq(Commands) /\ <<>> \in Seq(Replies)
  OBVIOUS
<1> QED
  BY <1>1, <1>2 DEF MaildropType, leave

\* A command is sent.
LEMMA SentType ==
  ASSUME MaildropType, NEW op \in {"STAT", "UIDL", "DELE", "RSET", "QUIT"}, NEW num \in Nat,
         NEW newCall, Sent(Command(op, num), newCall), calls \in 0..MaxCalls
  PROVE  MaildropType' /\ calls' \in 0..MaxCalls
<1>1. requests \in Seq(Commands) /\ Command(op, num) \in Commands
  BY CommandType DEF MaildropType
<1> DEFINE command == Command(op, num)
<1>2. /\ requests' = Append(requests, command) /\ up /\ up' = up
      /\ UNCHANGED <<maildrop, nextUid, listed, marked, replies>>
      /\ calls < MaxCalls /\ calls' = calls + 1
  BY DEF Sent
<1> HIDE DEF command
<1>3. requests' \in Seq(Commands)
  BY <1>1, <1>2 DEF command
<1>4. calls' \in 0..MaxCalls
  BY <1>2, FolderAssumption
<1> QED
  BY <1>2, <1>3, <1>4 DEF MaildropType

\* A reply is read.
LEMMA ReadType ==
  ASSUME MaildropType, replies # <<>>, ReadIt, requests' \in Seq(Commands)
  PROVE  MaildropType' /\ calls' = calls /\ Got \in Replies
<1>1. replies \in Seq(Replies)
  BY DEF MaildropType
<1>2. Head(replies) \in Replies /\ Tail(replies) \in Seq(Replies)
  BY <1>1
<1>3. up
  BY DEF MaildropType
<1> QED
  BY <1>2, <1>3 DEF MaildropType, ReadIt, Got

-----------------------------------------------------------------------------
(***************************************************************************)
(* What the folder objects do keeps the types                              *)
(***************************************************************************)
\* A folder object's state after a step of one of its calls.
LEMMA FolderFields ==
  ASSUME FolderType, NEW f \in Folders
  PROVE  /\ folders[f] \in FolderStates /\ folders[f].objects \in Seq(Objects)
         /\ folders[f].count \in Counts
         /\ folders[f].open \in BOOLEAN /\ folders[f].fresh \in BOOLEAN
         /\ folders[f].overtaken \in BOOLEAN
         /\ ~folders[f].open => folders[f].objects = <<>>
         /\ folders[f].left => ~folders[f].store
  BY DEF FolderType, FolderStates

\* Folder objects that were left behind keep all but their freshness.
LEMMA ConnectType ==
  ASSUME TypeInv, connect
  PROVE  TypeInv'
<1> DEFINE new == [f \in Folders |->
                     IF Live(f) THEN [folders[f] EXCEPT !.fresh = FALSE] ELSE NoFolder]
<1>1. \A f \in Folders : /\ new[f] \in FolderStates
                         /\ ~new[f].open => new[f].objects = <<>>
                         /\ new[f].left => ~new[f].store
  <2> TAKE f \in Folders
  <2>1. folders[f] \in FolderStates
    BY DEF TypeInv, FolderType
  <2>2. CASE Live(f)
    <3> DEFINE folder == [folders[f] EXCEPT !.fresh = FALSE]
    <3>1. /\ folder \in FolderStates /\ folder.open = folders[f].open
          /\ folder.objects = folders[f].objects /\ folder.left = folders[f].left
          /\ folder.store = folders[f].store
      BY <2>1 DEF FolderStates
    <3>2. new[f] = folder
      BY <2>2
    <3> HIDE DEF folder, new
    <3> QED
      BY <3>1, <3>2 DEF TypeInv, FolderType
  <2>3. CASE ~Live(f)
    BY <2>3, NoFolderType
  <2> QED
    BY <2>2, <2>3
<1>2. folders' = new /\ m_folders' = m_folders
  BY DEF connect
<1>3. FolderType'
  <2>1. new = [f \in Folders |-> new[f]]
    OBVIOUS
  <2> HIDE DEF new
  <2>2. new \in [Folders -> FolderStates]
    BY <1>1, <2>1
  <2> QED
    BY <1>1, <1>2, <2>2 DEF TypeInv, FolderType
<1>4. call = Idle /\ call' = call /\ calls' = calls /\ sessions < MaxSessions /\ sessions' = sessions + 1
  BY DEF connect, IdleNow, callVars
<1>5. CounterType'
  BY <1>4, FolderAssumption DEF TypeInv, CounterType
<1>6. CallType'
  BY <1>4, IdleFields DEF CallType
<1>7. MaildropType'
  <2>1. <<>> \in Seq(Commands) /\ <<>> \in Seq(Replies)
    OBVIOUS
  <2> QED
    BY <2>1 DEF TypeInv, MaildropType, connect, NewSession
<1> QED
  BY <1>3, <1>5, <1>6, <1>7 DEF TypeInv

\* A new folder object, with whatever its count is.
LEMMA GetFolderType ==
  ASSUME TypeInv, NEW f \in Folders, getFolder(f)
  PROVE  TypeInv'
<1>1. PICK garbage \in Garbage :
        Update(f, [NoFolder EXCEPT !.live = TRUE, !.store = TRUE, !.count = garbage])
  BY DEF getFolder
<1> DEFINE folder == [NoFolder EXCEPT !.live = TRUE, !.store = TRUE, !.count = garbage]
<1>2. garbage \in Counts
  BY FolderAssumption DEF Counts
<1>3. folder \in FolderStates /\ folder.objects = <<>> /\ ~folder.left
  BY <1>2, NoFolderType DEF NoFolder, FolderStates
<1>4. Update(f, folder)
  BY <1>1
<1> HIDE DEF folder
<1>5. m_folders' \subseteq Folders
  BY DEF TypeInv, FolderType, getFolder
<1>6. FolderType'
  BY <1>3, <1>4, <1>5, UpdateType DEF TypeInv
<1>7. MaildropType' /\ CounterType'
  BY DEF TypeInv, MaildropType, CounterType, getFolder, maildropVars, callVars, history
<1>8. CallType'
  BY IdleFields DEF getFolder, callVars, IdleNow, CallType
<1> QED
  BY <1>6, <1>7, <1>8 DEF TypeInv

\* The folder objects are told that the store disconnects.
LEMMA DisconnectType ==
  ASSUME TypeInv, disconnect
  PROVE  TypeInv'
<1> DEFINE new == [f \in Folders |->
                     IF f \in m_folders
                     THEN [onStoreDisconnected(folders[f]) EXCEPT !.left = TRUE] ELSE folders[f]]
<1>1. \A f \in Folders : /\ new[f] \in FolderStates
                         /\ ~new[f].open => new[f].objects = <<>>
                         /\ new[f].left => ~new[f].store
  <2> TAKE f \in Folders
  <2>1. folders[f] \in FolderStates
    BY DEF TypeInv, FolderType
  <2>2. CASE f \in m_folders
    <3> DEFINE folder == [onStoreDisconnected(folders[f]) EXCEPT !.left = TRUE]
    <3>1. /\ folder \in FolderStates /\ folder.open = folders[f].open
          /\ folder.objects = folders[f].objects /\ ~folder.store
      BY <2>1 DEF FolderStates, onStoreDisconnected
    <3>2. new[f] = folder
      BY <2>2
    <3> HIDE DEF folder, new
    <3> QED
      BY <3>1, <3>2 DEF TypeInv, FolderType
  <2>3. CASE f \notin m_folders
    BY <2>1, <2>3 DEF TypeInv, FolderType
  <2> QED
    BY <2>2, <2>3
<1>2. folders' = new /\ m_folders' = {}
  BY DEF disconnect
<1>3. FolderType'
  <2>1. new = [f \in Folders |-> new[f]]
    OBVIOUS
  <2> HIDE DEF new
  <2>2. new \in [Folders -> FolderStates]
    BY <1>1, <2>1
  <2> QED
    BY <1>1, <1>2, <2>2 DEF TypeInv, FolderType
<1>4. MaildropType' /\ calls' \in 0..MaxCalls
  <2>1. Sent(Command("QUIT", 0), [op |-> "disconnect"]) /\ 0 \in Nat
        /\ "QUIT" \in {"STAT", "UIDL", "DELE", "RSET", "QUIT"}
    BY DEF disconnect
  <2> QED
    BY <2>1, SentType DEF TypeInv, CounterType
<1>5. CallType' /\ CounterType'
  <2>1. call' = [op |-> "disconnect"] /\ sessions' = sessions
    BY DEF disconnect, Sent, history
  <2> QED
    BY <1>4, <2>1 DEF TypeInv, CallType, CounterType, Calls
<1> QED
  BY <1>3, <1>4, <1>5 DEF TypeInv

\* A call ends without a reply; the folder object that was being destroyed is
\* gone.
LEMMA AbandonedType ==
  ASSUME TypeInv, MaildropType', call' = Idle, m_folders' = m_folders,
         calls' = calls, sessions' = sessions,
         folders' = IF call.op = "destroy" THEN [folders EXCEPT ![call.folder] = NoFolder] ELSE folders
  PROVE  TypeInv'
<1>1. CallType' /\ CounterType'
  BY IdleFields DEF TypeInv, CallType, CounterType
<1>2. CASE call.op = "destroy"
  <2>1. call.folder \in Folders
    BY <1>2, CallFields DEF TypeInv, CallType
  <2>2. Update(call.folder, NoFolder)
    BY <1>2 DEF Update
  <2>3. FolderType'
    BY <2>1, <2>2, NoFolderType, UpdateType DEF TypeInv, FolderType
  <2> QED
    BY <1>1, <2>3 DEF TypeInv
<1>3. CASE call.op # "destroy"
  BY <1>1, <1>3 DEF TypeInv, FolderType
<1> QED
  BY <1>2, <1>3

\* The session is over, and a call that destroys its folder object has done so.
LEMMA ConnectionLostType ==
  ASSUME TypeInv, connectionLost
  PROVE  TypeInv'
<1>1. leave /\ call' = Idle
  BY DEF connectionLost
<1>2. MaildropType'
  BY <1>1, LeaveType DEF TypeInv
<1> QED
  BY <1>1, <1>2, AbandonedType DEF connectionLost

\* The same, while the session goes on.
LEMMA TimeOutType ==
  ASSUME TypeInv, timeOut
  PROVE  TypeInv'
<1>1. MaildropType'
  BY DEF TypeInv, MaildropType, timeOut, maildropVars
<1> QED
  BY <1>1, AbandonedType DEF timeOut

\* A call of a folder sends its first command.
LEMMA CallSentType ==
  ASSUME TypeInv, NEW op \in {"STAT", "UIDL", "DELE", "RSET", "QUIT"}, NEW num \in Nat,
         NEW newCall \in Calls, Sent(Command(op, num), newCall), UNCHANGED <<folders, m_folders, sessions>>,
         newCall.op = "fetch" => newCall.object \in DOMAIN folders[newCall.folder].objects
  PROVE  TypeInv'
<1>1. MaildropType' /\ calls' \in 0..MaxCalls
  BY SentType DEF TypeInv, CounterType
<1>2. call' = newCall
  BY DEF Sent
<1> QED
  BY <1>1, <1>2 DEF TypeInv, FolderType, CallType, CounterType

\* The calls that send STAT or RSET.
LEMMA SimpleCallType ==
  ASSUME TypeInv, NEW op \in {"STAT", "RSET"},
         NEW what \in {"open", "close", "destroy", "status"}, NEW f \in Folders,
         Sent(Command(op, 0), [op |-> what, folder |-> f]), UNCHANGED <<folders, m_folders, sessions>>
  PROVE  TypeInv'
<1> DEFINE newCall == [op |-> what, folder |-> f]
<1>1. newCall \in Calls /\ newCall.op # "fetch" /\ 0 \in Nat
  BY DEF Calls
<1>2. Sent(Command(op, 0), newCall)
  OBVIOUS
<1> HIDE DEF newCall
<1> QED
  BY <1>1, <1>2, CallSentType

\* A step of one folder object that sends nothing, between calls.
LEMMA OwnStepType ==
  ASSUME TypeInv, IdleNow, NEW f \in Folders, NEW folder \in FolderStates, Update(f, folder),
         ~folder.open => folder.objects = <<>>, folder.left => ~folder.store,
         m_folders' \subseteq Folders, UNCHANGED <<maildropVars, callVars, sessions>>
  PROVE  TypeInv'
<1>1. FolderType'
  BY UpdateType DEF TypeInv
<1>2. CallType'
  BY IdleFields DEF callVars, IdleNow, CallType
<1>3. MaildropType' /\ CounterType'
  BY DEF TypeInv, MaildropType, CounterType, maildropVars, callVars
<1> QED
  BY <1>1, <1>2, <1>3 DEF TypeInv

\* A closed folder object has no message objects.
LEMMA ClosedType ==
  ASSUME NEW folder \in FolderStates
  PROVE  /\ Closed(folder) \in FolderStates
         /\ ~Closed(folder).open /\ Closed(folder).objects = <<>>
         /\ Closed(folder).left = folder.left /\ Closed(folder).store = folder.store
<1>1. <<>> \in Seq(Objects)
  OBVIOUS
<1> QED
  BY <1>1 DEF Closed, FolderStates

\* open and getStatus send STAT.
LEMMA OpenType ==
  ASSUME TypeInv, NEW f \in Folders, open(f) \/ getStatus(f)
  PROVE  TypeInv'
  BY SimpleCallType DEF open, getStatus, history

\* close sends RSET or closes at once.
LEMMA CloseType ==
  ASSUME TypeInv, NEW f \in Folders, NEW expunge \in BOOLEAN, close(f, expunge)
  PROVE  TypeInv'
<1>1. CASE sendsRset(expunge)
  BY <1>1, SimpleCallType DEF close
<1>2. CASE ~sendsRset(expunge)
  <2>1. /\ Closed(folders[f]) \in FolderStates /\ Closed(folders[f]).objects = <<>>
        /\ Closed(folders[f]).left => ~Closed(folders[f]).store
    BY FolderFields, ClosedType DEF TypeInv
  <2>2. Update(f, Closed(folders[f])) /\ UNCHANGED <<maildropVars, callVars, sessions>> /\ IdleNow
    BY <1>2 DEF close
  <2>3. m_folders' \subseteq Folders
    BY DEF close, TypeInv, FolderType
  <2> QED
    BY <2>1, <2>2, <2>3, OwnStepType
<1> QED
  BY <1>1, <1>2

\* destroy sends RSET or destroys at once.
LEMMA DestroyType ==
  ASSUME TypeInv, NEW f \in Folders, destroy(f)
  PROVE  TypeInv'
<1>1. CASE folders[f].store /\ folders[f].open /\ up
  BY <1>1, SimpleCallType DEF destroy
<1>2. CASE ~(folders[f].store /\ folders[f].open /\ up)
  <2>1. Update(f, NoFolder) /\ UNCHANGED <<maildropVars, callVars, sessions>> /\ IdleNow
    BY <1>2 DEF destroy, history
  <2>2. m_folders' \subseteq Folders
    BY <1>2 DEF destroy, TypeInv, FolderType
  <2> QED
    BY <2>1, <2>2, NoFolderType, OwnStepType
<1> QED
  BY <1>1, <1>2

\* A message object is added to an open folder.
LEMMA GetMessageType ==
  ASSUME TypeInv, NEW f \in Folders, getMessage(f)
  PROVE  TypeInv'
<1>1. PICK num \in 1..folders[f].count :
        Update(f, [folders[f] EXCEPT !.objects = Append(@, Object(num))])
  BY DEF getMessage
<1> DEFINE objects == folders[f].objects
           more == Append(objects, Object(num))
           folder == [folders[f] EXCEPT !.objects = more]
<1>2. /\ folders[f] \in FolderStates /\ objects \in Seq(Objects) /\ folders[f].count \in Counts
      /\ folders[f].open /\ folders[f].left => ~folders[f].store
  BY FolderFields DEF TypeInv, getMessage, OpenNow
<1>3. num \in 1..MaxUid
  BY <1>2, MaildropAssumption DEF Counts
<1>4. Update(f, folder)
  BY <1>1
<1>5. more \in Seq(Objects)
  BY <1>2, <1>3, ObjectType
<1> HIDE DEF more
<1>6. /\ folder \in FolderStates /\ folder.open = folders[f].open
      /\ folder.left = folders[f].left /\ folder.store = folders[f].store
  BY <1>2, <1>5 DEF FolderStates
<1> HIDE DEF folder
<1>7. m_folders' \subseteq Folders /\ UNCHANGED <<maildropVars, callVars, sessions>> /\ IdleNow
  BY DEF getMessage, TypeInv, FolderType, history
<1>8. folder.open /\ (folder.left => ~folder.store)
  BY <1>6, FolderFields DEF TypeInv, getMessage, OpenNow
<1> QED
  BY <1>4, <1>6, <1>7, <1>8, OwnStepType

\* The call's message object exists.
LEMMA FetchMessageType ==
  ASSUME TypeInv, NEW f \in Folders, NEW i \in DOMAIN folders[f].objects, fetchMessage(f, i)
  PROVE  TypeInv'
<1> DEFINE newCall == [op |-> "fetch", folder |-> f, object |-> i]
<1>1. folders[f].objects \in Seq(Objects)
  BY FolderFields DEF TypeInv
<1>2. i \in Nat /\ folders[f].objects[i] \in Objects
  BY <1>1
<1>3. folders[f].objects[i].num \in Nat
  BY <1>2, MaildropAssumption DEF Objects
<1>4. newCall \in Calls /\ newCall.folder = f /\ newCall.object = i
  BY <1>2 DEF Calls
<1>5. Sent(Command("UIDL", folders[f].objects[i].num), newCall)
      /\ UNCHANGED <<folders, m_folders, sessions>>
  BY DEF fetchMessage, history
<1> HIDE DEF newCall
<1> QED
  BY <1>3, <1>4, <1>5, CallSentType

\* The list that deleteMessages has been given.
LEMMA ListType ==
  ASSUME NEW nums \in NumberLists
  PROVE  nums \in Seq(1..MaxNum) /\ ToSet(nums) \in SUBSET (1..MaxNum)
<1>1. PICK n \in 0..MaxNum : nums \in [1..n -> 1..MaxNum]
  BY DEF NumberLists
<1>2. n \in Nat
  BY <1>1, FolderAssumption
<1> DEFINE Nums == 1..MaxNum
<1>3. nums \in Seq(Nums)
  <2>1. nums \in [1..n -> Nums]
    BY <1>1
  <2> HIDE DEF Nums
  <2> QED
    BY <1>2, <2>1
<1> QED
  BY <1>1, <1>3 DEF ToSet

\* What the call has still to delete is a list of numbers.
LEMMA DeleteMessagesType ==
  ASSUME TypeInv, NEW f \in Folders, NEW nums \in NumberLists, deleteMessages(f, nums)
  PROVE  TypeInv'
<1> DEFINE newCall == [op |-> "delete", folder |-> f, rest |-> remaining(nums), all |-> ToSet(nums)]
<1>1. nums \in Seq(1..MaxNum) /\ ToSet(nums) \in SUBSET (1..MaxNum) /\ nums # <<>>
  BY ListType DEF deleteMessages
<1>2. nums[1] \in Nat /\ remaining(nums) \in Seq(1..MaxNum)
  <2> DEFINE Nums == 1..MaxNum
  <2>1. nums \in Seq(Nums) /\ nums # <<>> /\ \A n \in Nums : n \in Nat
    BY <1>1, FolderAssumption
  <2> HIDE DEF Nums
  <2>2. nums[1] \in Nums /\ Tail(nums) \in Seq(Nums)
    BY <2>1
  <2> QED
    BY <2>1, <2>2 DEF remaining, Nums
<1>3. newCall \in Calls /\ newCall.op = "delete"
  BY <1>1, <1>2 DEF Calls
<1>4. Sent(Command("DELE", nums[1]), newCall) /\ UNCHANGED <<folders, m_folders, sessions>>
  BY DEF deleteMessages
<1> HIDE DEF newCall
<1> QED
  BY <1>2, <1>3, <1>4, CallSentType

\* A reply ends the call.
LEMMA ReturnType ==
  ASSUME TypeInv, NEW op, Answered(op), ReadIt, Return, sessions' = sessions
  PROVE  MaildropType' /\ CallType' /\ CounterType' /\ Got \in Replies
<1>1. requests' \in Seq(Commands) /\ replies # <<>>
  BY DEF TypeInv, MaildropType, Return, Answered
<1>2. MaildropType' /\ calls' = calls /\ Got \in Replies
  BY <1>1, ReadType DEF TypeInv
<1>3. CallType' /\ CounterType'
  BY <1>2, IdleFields DEF TypeInv, CallType, CounterType, Return
<1> QED
  BY <1>2, <1>3

\* open changes flags and the count.
LEMMA DoneOpenType ==
  ASSUME TypeInv, doneOpen
  PROVE  TypeInv'
<1> DEFINE f == call.folder
           was == folders[f]
           folder == [was EXCEPT
                        !.open = TRUE, !.count = Got.count, !.fresh = @ \/ was.objects = <<>>,
                        !.overtaken = @ /\ was.objects # <<>>]
<1>1. MaildropType' /\ CallType' /\ CounterType' /\ Got \in Replies
  BY ReturnType DEF doneOpen, history
<1>2. f \in Folders
  BY CallFields DEF TypeInv, CallType, doneOpen, Answered
<1>3. /\ was \in FolderStates /\ was.fresh \in BOOLEAN /\ was.overtaken \in BOOLEAN
      /\ was.left => ~was.store
  BY <1>2, FolderFields DEF TypeInv
<1>4. m_folders' \subseteq Folders
  BY DEF doneOpen, TypeInv, FolderType
<1>5. CASE Got.ok /\ Got.count # NoCount
  <2>1. Update(f, folder)
    BY <1>5 DEF doneOpen
  <2>2. Got.count \in Counts
    BY <1>1, <1>5 DEF Replies
  <2>3. (was.fresh \/ was.objects = <<>>) \in BOOLEAN /\ (was.overtaken /\ was.objects # <<>>) \in BOOLEAN
    BY <1>3
  <2> DEFINE fresh == was.fresh \/ was.objects = <<>>
             overtaken == was.overtaken /\ was.objects # <<>>
  <2>4. folder = [was EXCEPT !.open = TRUE, !.count = Got.count, !.fresh = fresh, !.overtaken = overtaken]
    OBVIOUS
  <2> HIDE DEF fresh, overtaken
  <2>5. /\ folder \in FolderStates /\ folder.open
        /\ folder.left = was.left /\ folder.store = was.store
    BY <1>3, <2>2, <2>3, <2>4 DEF FolderStates, fresh, overtaken
  <2> HIDE DEF folder
  <2>6. FolderType'
    BY <1>2, <1>3, <1>4, <2>1, <2>5, UpdateType DEF TypeInv
  <2> QED
    BY <1>1, <2>6 DEF TypeInv
<1>6. CASE ~Got.ok
  BY <1>1, <1>4, <1>6 DEF TypeInv, FolderType, doneOpen
<1>7. CASE Got.ok /\ Got.count = NoCount
  <2> DEFINE empty == [was EXCEPT !.count = 0]
  <2>1. Update(f, empty)
    BY <1>7 DEF doneOpen
  <2>2. empty \in FolderStates
    <3>1. 0 \in Counts
      BY MaildropAssumption DEF Counts
    <3> QED
      BY <1>3, <3>1 DEF FolderStates
  <2>3. empty.open = was.open /\ empty.objects = was.objects /\ empty.left = was.left /\ empty.store = was.store
    BY <1>3 DEF FolderStates
  <2>4. ~was.open => was.objects = <<>>
    BY <1>2, FolderFields DEF TypeInv
  <2> HIDE DEF empty
  <2>5. FolderType'
    BY <1>2, <1>3, <1>4, <2>1, <2>2, <2>3, <2>4, UpdateType DEF TypeInv
  <2> QED
    BY <1>1, <2>5 DEF TypeInv
<1> QED
  BY <1>5, <1>6, <1>7

\* The folder object that has been closed, and the others.
LEMMA AfterClosingType ==
  ASSUME TypeInv, NEW f \in Folders, NEW folder \in FolderStates,
         ~folder.open, folder.objects = <<>>, folder.left => ~folder.store,
         folders' = [g \in Folders |->
                       IF g = f THEN folder ELSE [folders[g] EXCEPT !.overtaken = TRUE]],
         m_folders' \subseteq Folders
  PROVE  FolderType'
<1>1. \A g \in Folders : /\ folders'[g] \in FolderStates
                         /\ ~folders'[g].open => folders'[g].objects = <<>>
                         /\ folders'[g].left => ~folders'[g].store
  <2> TAKE g \in Folders
  <2> DEFINE other == [folders[g] EXCEPT !.overtaken = TRUE]
  <2>1. folders[g] \in FolderStates
    BY DEF TypeInv, FolderType
  <2>2. /\ other \in FolderStates /\ other.open = folders[g].open
        /\ other.objects = folders[g].objects /\ other.left = folders[g].left
        /\ other.store = folders[g].store
    BY <2>1 DEF FolderStates
  <2>3. folders'[g] = IF g = f THEN folder ELSE other
    OBVIOUS
  <2> HIDE DEF other
  <2> QED
    BY <2>2, <2>3 DEF TypeInv, FolderType
<1>2. folders' = [g \in Folders |-> folders'[g]]
  OBVIOUS
<1>3. folders' \in [Folders -> FolderStates]
  BY <1>1, <1>2
<1> QED
  BY <1>1, <1>3 DEF FolderType

\* The folder is closed when the reply to RSET has come.
LEMMA DoneCloseType ==
  ASSUME TypeInv, doneClose
  PROVE  TypeInv'
<1> DEFINE f == call.folder
           folder == Closed(folders[f])
<1>1. MaildropType' /\ CallType' /\ CounterType'
  BY ReturnType DEF doneClose, history
<1>2. f \in Folders
  BY CallFields DEF TypeInv, CallType, doneClose, Answered
<1>3. /\ folder \in FolderStates /\ ~folder.open /\ folder.objects = <<>>
      /\ folder.left => ~folder.store
  BY <1>2, FolderFields, ClosedType DEF TypeInv
<1>4. /\ folders' = [g \in Folders |->
                       IF g = f THEN folder ELSE [folders[g] EXCEPT !.overtaken = TRUE]]
      /\ m_folders' \subseteq Folders
  BY DEF doneClose, TypeInv, FolderType
<1> HIDE DEF folder
<1>5. FolderType'
  BY <1>2, <1>3, <1>4, AfterClosingType
<1> QED
  BY <1>1, <1>5 DEF TypeInv

\* The folder object is gone when the reply to RSET has come.
LEMMA DoneDestroyType ==
  ASSUME TypeInv, doneDestroy
  PROVE  TypeInv'
<1>1. MaildropType' /\ CallType' /\ CounterType'
  BY ReturnType DEF doneDestroy, history
<1>2. call.folder \in Folders
  BY CallFields DEF TypeInv, CallType, doneDestroy, Answered
<1>3. m_folders' \subseteq Folders
  BY DEF doneDestroy, TypeInv, FolderType
<1>4. FolderType'
  BY <1>2, <1>3, NoFolderType, AfterClosingType DEF doneDestroy
<1> QED
  BY <1>1, <1>4 DEF TypeInv

\* One message object learns its UID.
LEMMA ObjectUidType ==
  ASSUME NEW objects \in Seq(Objects), NEW i \in DOMAIN objects, NEW uid \in Uids \cup {NoUid}
  PROVE  /\ [objects EXCEPT ![i] = [objects[i] EXCEPT !.uid = uid]] \in Seq(Objects)
         /\ DOMAIN [objects EXCEPT ![i] = [objects[i] EXCEPT !.uid = uid]] = DOMAIN objects
<1> DEFINE object == [objects[i] EXCEPT !.uid = uid]
<1>1. objects[i] \in Objects
  OBVIOUS
<1>2. object \in Objects
  BY <1>1 DEF Objects
<1> HIDE DEF object
<1>3. /\ [objects EXCEPT ![i] = object] \in Seq(Objects)
      /\ DOMAIN [objects EXCEPT ![i] = object] = DOMAIN objects
  BY <1>2
<1> QED
  BY <1>3 DEF object

\* A folder object gets other message objects.
LEMMA OtherObjectsType ==
  ASSUME TypeInv, NEW f \in Folders, folders[f].open, NEW objects \in Seq(Objects),
         Update(f, [folders[f] EXCEPT !.objects = objects]), m_folders' = m_folders
  PROVE  /\ FolderType' /\ folders'[f] = [folders[f] EXCEPT !.objects = objects]
         /\ \A g \in Folders : g # f => folders'[g] = folders[g]
<1> DEFINE folder == [folders[f] EXCEPT !.objects = objects]
<1>1. folders[f] \in FolderStates /\ (folders[f].left => ~folders[f].store)
  BY FolderFields DEF TypeInv
<1>2. /\ folder \in FolderStates /\ folder.open = folders[f].open
      /\ folder.left = folders[f].left /\ folder.store = folders[f].store
  BY <1>1 DEF FolderStates
<1>3. Update(f, folder)
  OBVIOUS
<1>4. m_folders' \subseteq Folders
  BY DEF TypeInv, FolderType
<1> HIDE DEF folder
<1>5. FolderType' /\ folders'[f] = folder /\ \A g \in Folders : g # f => folders'[g] = folders[g]
  BY <1>1, <1>2, <1>3, <1>4, UpdateType DEF TypeInv
<1> QED
  BY <1>5 DEF folder

\* The message object of a call that fetches.
LEMMA FetchFields ==
  ASSUME TypeInv, call.op = "fetch"
  PROVE  /\ call.folder \in Folders /\ call.object \in DOMAIN folders[call.folder].objects
         /\ folders[call.folder].open /\ folders[call.folder].objects \in Seq(Objects)
<1>1. call.folder \in Folders /\ call.object \in DOMAIN folders[call.folder].objects
  BY CallFields DEF TypeInv, CallType
<1>2. folders[call.folder].objects # <<>>
  BY <1>1
<1> QED
  BY <1>1, <1>2, FolderFields DEF TypeInv

\* The message object gets the UID of the reply.
LEMMA DoneFetchType ==
  ASSUME TypeInv, doneFetch
  PROVE  TypeInv'
<1> DEFINE f == call.folder
           objects == folders[f].objects
           i == call.object
           new == [objects EXCEPT ![i] = [objects[i] EXCEPT !.uid = Got.uid]]
<1>1. MaildropType' /\ CallType' /\ CounterType' /\ Got \in Replies
  BY ReturnType DEF doneFetch, history
<1>2. f \in Folders /\ i \in DOMAIN objects /\ folders[f].open /\ objects \in Seq(Objects)
  BY FetchFields DEF doneFetch, Answered
<1>3. CASE Got.ok
  <2>1. Update(f, [folders[f] EXCEPT !.objects = new])
    BY <1>3 DEF doneFetch
  <2>2. new \in Seq(Objects)
    BY <1>1, <1>2, ObjectUidType DEF Replies
  <2> HIDE DEF new
  <2>3. FolderType'
    BY <1>2, <2>1, <2>2, OtherObjectsType DEF doneFetch
  <2> QED
    BY <1>1, <2>3 DEF TypeInv
<1>4. CASE ~Got.ok
  BY <1>1, <1>4 DEF TypeInv, FolderType, doneFetch
<1> QED
  BY <1>3, <1>4

\* The next DELE, and a shorter list.
LEMMA DeleteNextType ==
  ASSUME TypeInv, deleteNext
  PROVE  TypeInv'
<1>1. /\ call \in Calls /\ call.op = "delete" /\ call.rest \in Seq(1..MaxNum) /\ call.rest # <<>>
      /\ requests \in Seq(Commands) /\ replies # <<>> /\ ReadIt
  BY CallFields DEF TypeInv, MaildropType, CallType, deleteNext, Answered
<1>2. Head(call.rest) \in Nat /\ remaining(call.rest) \in Seq(1..MaxNum)
  <2> DEFINE Nums == 1..MaxNum
  <2>1. call.rest \in Seq(Nums) /\ \A n \in Nums : n \in Nat
    BY <1>1, FolderAssumption
  <2> HIDE DEF Nums
  <2>2. Head(call.rest) \in Nums /\ Tail(call.rest) \in Seq(Nums)
    BY <1>1, <2>1
  <2> QED
    BY <2>1, <2>2 DEF remaining, Nums
<1>3. requests' \in Seq(Commands)
  <2> DEFINE command == Command("DELE", Head(call.rest))
  <2>1. command \in Commands /\ requests' = Append(requests, command)
    BY <1>2, CommandType DEF deleteNext
  <2> HIDE DEF command
  <2> QED
    BY <1>1, <2>1
<1>4. MaildropType' /\ calls' = calls
  BY <1>1, <1>3, ReadType DEF TypeInv
<1>5. CallType'
  <2> DEFINE rest == remaining(call.rest)
  <2>1. call' = [call EXCEPT !.rest = rest]
    BY DEF deleteNext
  <2> HIDE DEF rest
  <2>2. call' \in Calls /\ call'.op = "delete"
    BY <1>1, <1>2, <2>1 DEF Calls, rest
  <2> QED
    BY <2>2 DEF CallType
<1> QED
  BY <1>4, <1>5 DEF TypeInv, FolderType, CounterType, deleteNext, history

\* Message objects are marked as deleted and remain message objects.
LEMMA MarkDeletedType ==
  ASSUME NEW objects \in Seq(Objects), NEW nums
  PROVE  /\ markDeleted(objects, nums) \in Seq(Objects)
         /\ DOMAIN markDeleted(objects, nums) = DOMAIN objects
         /\ \A i \in DOMAIN objects :
              /\ markDeleted(objects, nums)[i].num = objects[i].num
              /\ markDeleted(objects, nums)[i].uid = objects[i].uid
              /\ markDeleted(objects, nums)[i].deleted =
                   (objects[i].deleted \/ objects[i].num \in nums)
<1> DEFINE new == markDeleted(objects, nums)
           hit(i) == objects[i].deleted \/ objects[i].num \in nums
<1>1. \A i \in DOMAIN objects : objects[i] \in Objects
  OBVIOUS
<1>2. \A i \in DOMAIN objects : new[i] = [objects[i] EXCEPT !.deleted = hit(i)]
  BY DEF markDeleted
<1>3. \A i \in DOMAIN objects : hit(i) \in BOOLEAN
  BY <1>1 DEF Objects
<1>4. new = [i \in DOMAIN objects |-> new[i]]
  BY DEF markDeleted
<1> HIDE DEF hit, new
<1>5. ASSUME NEW i \in DOMAIN objects
      PROVE  /\ new[i] \in Objects /\ new[i].num = objects[i].num /\ new[i].uid = objects[i].uid
             /\ new[i].deleted = hit(i)
  BY <1>1, <1>2, <1>3 DEF Objects
<1>6. new \in [1..Len(objects) -> Objects] /\ Len(objects) \in Nat
  BY <1>4, <1>5
<1>7. new \in Seq(Objects) /\ DOMAIN new = DOMAIN objects
  BY <1>6
<1> QED
  BY <1>5, <1>7 DEF hit, new

\* Message objects are marked.
LEMMA DoneDeleteType ==
  ASSUME TypeInv, doneDelete
  PROVE  TypeInv'
<1> DEFINE f == call.folder
           new == markDeleted(folders[f].objects, call.all)
<1>1. MaildropType' /\ CallType' /\ CounterType'
  BY ReturnType DEF doneDelete
<1>2. f \in Folders
  BY CallFields DEF TypeInv, CallType, doneDelete, Answered
<1>3. Update(f, [folders[f] EXCEPT !.objects = new])
  BY DEF doneDelete
<1>4. /\ folders[f].objects \in Seq(Objects) /\ folders[f] \in FolderStates
      /\ folders[f].left => ~folders[f].store
      /\ ~folders[f].open => folders[f].objects = <<>>
  BY <1>2, FolderFields DEF TypeInv
<1>5. new \in Seq(Objects) /\ DOMAIN new = DOMAIN folders[f].objects
  BY <1>4, MarkDeletedType
<1>6. folders[f].objects = <<>> => new = <<>>
  BY <1>5
<1> DEFINE folder == [folders[f] EXCEPT !.objects = new]
<1> HIDE DEF new
<1>7. /\ folder \in FolderStates /\ folder.open = folders[f].open /\ folder.objects = new
      /\ folder.left = folders[f].left /\ folder.store = folders[f].store
  BY <1>4, <1>5 DEF FolderStates
<1>8. m_folders' \subseteq Folders /\ Update(f, folder)
  BY <1>3 DEF doneDelete, TypeInv, FolderType
<1> HIDE DEF folder
<1>9. FolderType'
  BY <1>2, <1>4, <1>6, <1>7, <1>8, UpdateType DEF TypeInv
<1> QED
  BY <1>1, <1>9 DEF TypeInv

\* Nothing but the call changes.
LEMMA RefusedDeleteType ==
  ASSUME TypeInv, refusedDelete
  PROVE  TypeInv'
<1>1. MaildropType' /\ CallType' /\ CounterType'
  BY ReturnType DEF refusedDelete, afterRefusal, history
<1> QED
  BY <1>1 DEF TypeInv, FolderType, refusedDelete

\* The folder object that has asked for its status, and those that are told.
LEMMA DoneStatusType ==
  ASSUME TypeInv, doneStatus
  PROVE  TypeInv'
<1> DEFINE count == countIn(Got)
           counts(g) == Got.ok /\ (g = call.folder
                          \/ (Got.ok /\ count > folders[call.folder].count /\ g \in m_folders))
<1>1. MaildropType' /\ CallType' /\ CounterType' /\ Got \in Replies
  BY ReturnType DEF doneStatus, history
<1>2. count \in Counts
  BY <1>1, MaildropAssumption DEF countIn, Replies, Counts
<1>3. /\ folders' = [g \in Folders |->
                       IF counts(g) THEN [folders[g] EXCEPT !.count = count] ELSE folders[g]]
      /\ m_folders' = m_folders
  BY DEF doneStatus
<1> HIDE DEF counts, count
<1>4. \A g \in Folders : /\ folders'[g] \in FolderStates
                         /\ ~folders'[g].open => folders'[g].objects = <<>>
                         /\ folders'[g].left => ~folders'[g].store
  <2> TAKE g \in Folders
  <2> DEFINE other == [folders[g] EXCEPT !.count = count]
  <2>1. folders[g] \in FolderStates
    BY DEF TypeInv, FolderType
  <2>2. /\ other \in FolderStates /\ other.open = folders[g].open
        /\ other.objects = folders[g].objects /\ other.left = folders[g].left
        /\ other.store = folders[g].store
    BY <1>2, <2>1 DEF FolderStates
  <2>3. folders'[g] = other \/ folders'[g] = folders[g]
    BY <1>3
  <2> HIDE DEF other
  <2> QED
    BY <2>1, <2>2, <2>3 DEF TypeInv, FolderType
<1>5. folders' \in [Folders -> FolderStates]
  <2>1. folders' = [g \in Folders |-> folders'[g]]
    BY <1>3
  <2> QED
    BY <1>4, <2>1
<1> QED
  BY <1>1, <1>3, <1>4, <1>5 DEF TypeInv, FolderType

\* The session is over.
LEMMA DoneDisconnectType ==
  ASSUME TypeInv, doneDisconnect
  PROVE  TypeInv'
<1>1. leave /\ call' = Idle /\ call.op # "destroy"
  BY DEF doneDisconnect
<1>2. MaildropType'
  BY <1>1, LeaveType DEF TypeInv
<1> QED
  BY <1>1, <1>2, AbandonedType DEF doneDisconnect

\* One step of any kind.
LEMMA TypeNext == TypeInv /\ [Next]_vars => TypeInv'
<1> SUFFICES ASSUME TypeInv, [Next]_vars
             PROVE  TypeInv'
  OBVIOUS
<1>1. ASSUME NEW f \in Folders, FolderCalls(f)
      PROVE  TypeInv'
  BY <1>1, GetFolderType, OpenType, DestroyType, GetMessageType, CloseType, FetchMessageType,
     DeleteMessagesType DEF FolderCalls
<1>2. CASE Replied
  BY <1>2, DoneOpenType, DoneCloseType, DoneDestroyType, DoneFetchType, DeleteNextType,
     DoneDeleteType, RefusedDeleteType, DoneStatusType, DoneDisconnectType DEF Replied
<1>3. CASE Server \/ OtherMail
  <2>1. UNCHANGED <<folders, m_folders, callVars, history>>
    BY <1>3 DEF Server, OtherMail
  <2>2. MaildropType'
    BY <1>3, <2>1, ServeType, OtherMailType DEF Server, OtherMail, TypeInv, callVars
  <2> QED
    BY <2>1, <2>2 DEF TypeInv, FolderType, CallType, CounterType, callVars, history
<1>4. CASE UNCHANGED vars
  BY <1>4 DEF TypeInv, MaildropType, FolderType, CallType, CounterType, vars, maildropVars,
              callVars, history
<1> QED
  BY <1>1, <1>2, <1>3, <1>4, ConnectType, DisconnectType, ConnectionLostType, TimeOutType DEF Next

\* The types hold at first.
LEMMA TypeInit == Init => TypeInv
<1> SUFFICES ASSUME Init
             PROVE  TypeInv
  OBVIOUS
<1>1. MaildropType
  <2>1. <<>> \in Seq(Commands) /\ <<>> \in Seq(Replies)
    OBVIOUS
  <2>2. 1..InitialUids \subseteq Uids /\ InitialUids + 1 \in 1..(MaxUid + 1)
    BY MaildropAssumption DEF Uids
  <2> QED
    BY <2>1, <2>2 DEF Init, MaildropInit, MaildropType
<1>2. FolderType
  BY NoFolderType DEF Init, FolderType
<1>3. CallType /\ CounterType
  BY IdleFields, FolderAssumption DEF Init, CallType, CounterType
<1> QED
  BY <1>1, <1>2, <1>3 DEF TypeInv

\* In every reachable state the variables have their types, closed folders have
\* no message objects, and folders that the store has left have no store.
THEOREM POP3Invariance == Spec => []TypeInv
  BY TypeInit, TypeNext, PTL DEF Spec

\* The variables of the store, its folder objects and the session keep their
\* types; no count is above what a maildrop can hold.
THEOREM POP3TypeCorrect == Spec => []TypeOK
<1>1. TypeInv => TypeOK
  <2> SUFFICES ASSUME TypeInv
               PROVE  TypeOK
    OBVIOUS
  <2>1. \A f \in Folders :
          /\ folders[f].count \in 0..MaxUid
          /\ \A i \in DOMAIN folders[f].objects :
               folders[f].objects[i] \in [num : 1..MaxUid, uid : Uids \cup {NoUid}, deleted : BOOLEAN]
    <3> TAKE f \in Folders
    <3>1. folders[f].objects \in Seq(Objects) /\ folders[f].count \in Counts
      BY FolderFields DEF TypeInv
    <3>2. \A i \in DOMAIN folders[f].objects : folders[f].objects[i] \in Objects
      BY <3>1
    <3> QED
      BY <3>1, <3>2 DEF Objects, Counts
  <2> QED
    BY <2>1 DEF TypeInv, MaildropType, FolderType, CounterType, TypeOK
<1> QED
  BY <1>1, POP3Invariance, PTL

-----------------------------------------------------------------------------
(***************************************************************************)
(* Folder objects that their store has left                                *)
(***************************************************************************)
\* A call begins with a command, on a folder object that has a store.
LEMMA CallBegins ==
  ASSUME TypeInv, [Next]_vars, IdleNow
  PROVE  \/ call' = Idle \/ call' = [op |-> "disconnect"]
         \/ /\ "folder" \in DOMAIN call' /\ call'.folder \in Folders
            /\ folders[call'.folder].store
<1>1. call = Idle /\ call.op = "none"
  BY IdleFields DEF IdleNow
<1>2. ~Replied /\ ~timeOut
  BY <1>1 DEF Replied, timeOut, doneOpen, doneClose, doneDestroy, doneFetch, deleteNext, doneDelete,
              refusedDelete, doneStatus, doneDisconnect, Answered, IdleNow
<1>3. ASSUME NEW f \in Folders, FolderCalls(f)
      PROVE  call' = Idle \/ ("folder" \in DOMAIN call' /\ call'.folder = f /\ folders[f].store)
  <2> DEFINE Begun == "folder" \in DOMAIN call' /\ call'.folder = f /\ folders[f].store
                Doing(what) == [op |-> what, folder |-> f]
  <2> SUFFICES call' = Idle \/ Begun
    OBVIOUS
  <2>1. CASE getFolder(f) \/ getMessage(f)
    <3>1. call' = call
      BY <2>1 DEF getFolder, getMessage, callVars
    <3> QED
      BY <1>1, <3>1, Zenon
  <2>2. ASSUME NEW what, call' = Doing(what), folders[f].store
        PROVE  Begun
    BY <2>2
  <2> HIDE DEF Begun
  <2>3. CASE open(f) \/ getStatus(f)
    <3>1. (call' = Doing("open") \/ call' = Doing("status")) /\ folders[f].store
      BY <2>3 DEF open, getStatus, Usable, Sent
    <3> QED
      BY <2>2, <3>1
  <2>6. CASE destroy(f)
    <3>1. CASE folders[f].store /\ folders[f].open /\ up
      <4>1. call' = Doing("destroy")
        BY <2>6, <3>1 DEF destroy, Sent
      <4> QED
        BY <2>2, <3>1, <4>1
    <3>2. CASE ~(folders[f].store /\ folders[f].open /\ up)
      <4>1. call' = call
        BY <2>6, <3>2 DEF destroy, callVars
      <4> QED
        BY <1>1, <4>1, Zenon
    <3> QED
      BY <3>1, <3>2
  <2>7. ASSUME NEW expunge \in BOOLEAN, close(f, expunge)
        PROVE  call' = Idle \/ Begun
    <3>1. CASE sendsRset(expunge)
      <4>1. call' = Doing("close") /\ folders[f].store
        BY <2>7, <3>1 DEF close, Sent
      <4> QED
        BY <2>2, <4>1
    <3>2. CASE ~sendsRset(expunge)
      <4>1. call' = call
        BY <2>7, <3>2 DEF close, callVars
      <4> QED
        BY <1>1, <4>1, Zenon
    <3> QED
      BY <3>1, <3>2
  <2>4. ASSUME NEW i, fetchMessage(f, i)
        PROVE  Begun
    BY <2>4 DEF fetchMessage, Sent, OpenNow, Usable, Begun
  <2>5. ASSUME NEW nums, deleteMessages(f, nums)
        PROVE  Begun
    BY <2>5 DEF deleteMessages, Sent, OpenNow, Usable, Begun
  <2> QED
    BY <1>3, <2>1, <2>3, <2>4, <2>5, <2>6, <2>7 DEF FolderCalls
<1>4. CASE connect \/ connectionLost \/ Server \/ OtherMail \/ UNCHANGED vars
  BY <1>1, <1>4 DEF connect, connectionLost, Server, OtherMail, vars, callVars
<1>5. CASE disconnect
  BY <1>5 DEF disconnect, Sent
<1> QED
  BY <1>2, <1>3, <1>4, <1>5 DEF Next

\* A folder object of a store that was disconnected sends nothing when the
\* store is connected again.
THEOREM LeftFoldersAreSilent == Spec => OldFoldersSilent
<1>1. TypeInv /\ [Next]_vars =>
        [IdleNow /\ "folder" \in DOMAIN call' => ~folders[call'.folder].left]_vars
  <2> SUFFICES ASSUME TypeInv, [Next]_vars, IdleNow, "folder" \in DOMAIN call'
               PROVE  ~folders[call'.folder].left
    OBVIOUS
  <2>1. call' # Idle /\ call' # [op |-> "disconnect"]
    BY DEF Idle
  <2>2. call'.folder \in Folders /\ folders[call'.folder].store
    BY <2>1, CallBegins
  <2> QED
    BY <2>2, FolderFields DEF TypeInv
<1> QED
  BY <1>1, POP3Invariance, PTL DEF Spec, OldFoldersSilent

-----------------------------------------------------------------------------
(***************************************************************************)
(* A session removes what it was asked to delete                           *)
(***************************************************************************)
\* What may be marked: a message that a caller wants deleted, or none.
Allowed(num, view, wanted) == Named(num, view) \in wanted \cup {NoUid}

\* The marks that are made before the i-th request, or by it, are taken back.
TakenBackAfter(i) == \E j \in DOMAIN requests : j > i /\ requests[j].op = "RSET"

\* Nothing follows QUIT.  What has been marked, or will be by a command that is
\* still on its way, was asked for, or else a RSET is on its way behind it; and
\* so was what the running call has still to delete.
AskedInv ==
  /\ \A i \in DOMAIN requests :
       requests[i].op = "QUIT" => i = Len(requests) /\ call.op = "disconnect"
  /\ ~strayed =>
       /\ marked \subseteq asked \/ TakenBackAfter(0)
       /\ \A i \in DOMAIN requests :
            requests[i].op = "DELE" => Allowed(requests[i].num, listed, asked) \/ TakenBackAfter(i)
       /\ call.op = "delete" => \A n \in ToSet(call.rest) : Allowed(n, listed, asked)

\* Without a session nothing is on its way.
LEMMA EmptyAsked ==
  ASSUME requests' = <<>>, marked' = {}, call' = Idle
  PROVE  AskedInv'
<1>1. DOMAIN requests' = {} /\ call'.op # "delete"
  BY IdleFields
<1> QED
  BY <1>1 DEF AskedInv

\* Steps that send and mark nothing.
LEMMA SameAsked ==
  ASSUME AskedInv, UNCHANGED <<requests, marked, listed, asked, strayed>>,
         call' = call \/ (call.op # "disconnect" /\ call' = Idle)
  PROVE  AskedInv'
<1>1. Idle.op # "delete"
  BY IdleFields
<1>2. \A i : TakenBackAfter(i)' = TakenBackAfter(i)
  BY DEF TakenBackAfter
<1> QED
  BY <1>1, <1>2 DEF AskedInv

\* A command is sent, behind those that are on their way.
LEMMA AppendedAsked ==
  ASSUME TypeInv, AskedInv, call.op # "disconnect", NEW command,
         requests' = Append(requests, command), marked' = marked, listed' = listed,
         command.op = "QUIT" => call'.op = "disconnect",
         ~strayed' => ~strayed, asked \subseteq asked' \/ command.op = "RSET",
         command.op = "DELE" /\ ~strayed' => Allowed(command.num, listed, asked'),
         call'.op = "delete" /\ ~strayed' => \A n \in ToSet(call'.rest) : Allowed(n, listed, asked')
  PROVE  AskedInv'
<1> DEFINE n == Len(requests)
<1>1. requests \in Seq(Commands)
  BY DEF TypeInv, MaildropType
<1>2. /\ n \in Nat /\ DOMAIN requests = 1..n /\ DOMAIN requests' = 1..(n + 1) /\ Len(requests') = n + 1
      /\ \A i \in 1..n : requests'[i] = requests[i]
      /\ requests'[n + 1] = command
  BY <1>1
<1> HIDE DEF n
<1>3. \A i \in 1..n : requests[i].op # "QUIT"
  BY <1>2 DEF AskedInv
<1>4. \A i \in 1..(n + 1) : requests'[i].op = "QUIT" => i = n + 1 /\ call'.op = "disconnect"
  BY <1>2, <1>3
<1>5. CASE command.op = "RSET"
  <2>1. \A i \in 0..n : TakenBackAfter(i)'
    <3> TAKE i \in 0..n
    <3>1. n + 1 \in DOMAIN requests' /\ n + 1 > i
      BY <1>2
    <3> QED
      BY <1>2, <1>5, <3>1 DEF TakenBackAfter
  <2>2. \A i \in 1..(n + 1) : requests'[i].op = "DELE" => i \in 0..n
    BY <1>2, <1>5
  <2>3. 0 \in 0..n
    BY <1>2
  <2> QED
    BY <1>2, <1>4, <2>1, <2>2, <2>3 DEF AskedInv
<1>6. CASE asked \subseteq asked'
  <2>1. \A m : Allowed(m, listed, asked) => Allowed(m, listed, asked')
    BY <1>6 DEF Allowed
  <2>2. \A i : TakenBackAfter(i) => TakenBackAfter(i)'
    <3> TAKE i
    <3> HAVE TakenBackAfter(i)
    <3>1. PICK j \in 1..n : j > i /\ requests[j].op = "RSET"
      BY <1>2 DEF TakenBackAfter
    <3>2. j \in DOMAIN requests' /\ requests'[j].op = "RSET"
      BY <1>2, <3>1
    <3> QED
      BY <3>1, <3>2 DEF TakenBackAfter
  <2>3. ASSUME ~strayed'
        PROVE  \A i \in 1..(n + 1) : requests'[i].op = "DELE" =>
                 Allowed(requests'[i].num, listed, asked') \/ TakenBackAfter(i)'
    <3> TAKE i \in 1..(n + 1)
    <3> HAVE requests'[i].op = "DELE"
    <3>1. CASE i \in 1..n
      BY <1>2, <2>1, <2>2, <2>3, <3>1 DEF AskedInv
    <3>2. CASE i = n + 1
      BY <1>2, <2>3, <3>2
    <3> QED
      BY <1>2, <3>1, <3>2
  <2>4. ASSUME ~strayed'
        PROVE  marked' \subseteq asked' \/ TakenBackAfter(0)'
    BY <1>6, <2>2, <2>4 DEF AskedInv
  <2> QED
    BY <1>2, <1>4, <2>3, <2>4 DEF AskedInv
<1> QED
  BY <1>5, <1>6

\* The server carries out a command, or refuses it.
LEMMA ServeAsked ==
  ASSUME TypeInv, AskedInv, serve \/ refuse, UNCHANGED <<call, asked, strayed>>
  PROVE  AskedInv'
<1> DEFINE n == Len(requests)
           first == Head(requests)
<1>1. requests \in Seq(Commands) /\ requests # <<>> /\ requests' = Tail(requests) /\ listed' = listed
  BY DEF TypeInv, MaildropType, serve, refuse
<1>2. /\ n \in Nat /\ n > 0 /\ DOMAIN requests = 1..n /\ first = requests[1]
      /\ DOMAIN requests' = 1..(n - 1) /\ Len(requests') = n - 1
      /\ \A i \in 1..(n - 1) : requests'[i] = requests[i + 1]
  BY <1>1
<1> HIDE DEF n, first
<1>4. ASSUME NEW i \in Nat, TakenBackAfter(i + 1)
      PROVE  TakenBackAfter(i)'
  <2>1. PICK j \in 1..n : j > i + 1 /\ requests[j].op = "RSET"
    BY <1>2, <1>4 DEF TakenBackAfter
  <2>2. j - 1 \in 1..(n - 1) /\ j - 1 > i /\ j - 1 + 1 = j
    BY <1>2, <2>1
  <2>3. requests'[j - 1] = requests[j]
    BY <1>2, <2>2
  <2> QED
    BY <1>2, <2>1, <2>2, <2>3 DEF TakenBackAfter
<1>5. \A i \in 1..(n - 1) : requests'[i].op = "QUIT" => i = n - 1 /\ call'.op = "disconnect"
  <2> TAKE i \in 1..(n - 1)
  <2>1. i + 1 \in 1..n /\ requests'[i] = requests[i + 1]
    BY <1>2
  <2> QED
    BY <1>2, <2>1 DEF AskedInv
<1>6. ASSUME ~strayed
      PROVE  \A i \in 1..(n - 1) : requests'[i].op = "DELE" =>
               Allowed(requests'[i].num, listed, asked) \/ TakenBackAfter(i)'
  <2> TAKE i \in 1..(n - 1)
  <2> HAVE requests'[i].op = "DELE"
  <2>1. i + 1 \in 1..n /\ requests'[i] = requests[i + 1] /\ i \in Nat
    BY <1>2
  <2>2. Allowed(requests[i + 1].num, listed, asked) \/ TakenBackAfter(i + 1)
    BY <1>2, <1>6, <2>1 DEF AskedInv
  <2> QED
    BY <1>4, <2>1, <2>2
<1>7. ASSUME ~strayed
      PROVE  marked' \subseteq asked \/ TakenBackAfter(0)'
  <2>1. TakenBackAfter(1) => TakenBackAfter(0)'
    BY <1>4
  <2>2. CASE first.op = "RSET" /\ marked' = {}
    BY <2>2
  <2>3. CASE first.op # "RSET"
    <3>1. TakenBackAfter(0) => TakenBackAfter(1)
      <4> HAVE TakenBackAfter(0)
      <4>1. PICK j \in 1..n : requests[j].op = "RSET"
        BY <1>2 DEF TakenBackAfter
      <4>2. j > 1
        BY <1>2, <2>3, <4>1
      <4> QED
        BY <1>2, <4>1, <4>2 DEF TakenBackAfter
    <3>2. marked \subseteq asked \/ TakenBackAfter(1)
      BY <1>7, <3>1 DEF AskedInv
    <3>3. first.op = "DELE" => Allowed(first.num, listed, asked) \/ TakenBackAfter(1)
      BY <1>2, <1>7 DEF AskedInv
    <3>4. \/ marked' = marked
          \/ /\ first.op = "DELE" /\ Named(first.num, listed) # NoUid
             /\ marked' = marked \cup {Named(first.num, listed)}
      BY <2>3 DEF serve, refuse, Marking, first
    <3> QED
      BY <2>1, <3>2, <3>3, <3>4 DEF Allowed
  <2> QED
    BY <2>2, <2>3 DEF serve, refuse, Marking, first
<1> QED
  BY <1>1, <1>2, <1>5, <1>6, <1>7 DEF AskedInv


\* A RSET that is on its way and is not the k-th request comes later.
LEMMA TakenBackLater ==
  ASSUME TypeInv, NEW k \in DOMAIN requests, TakenBackAfter(k - 1), requests[k].op # "RSET"
  PROVE  TakenBackAfter(k)
<1>1. requests \in Seq(Commands) /\ k \in Nat
  BY DEF TypeInv, MaildropType
<1>2. PICK j \in DOMAIN requests : j > k - 1 /\ requests[j].op = "RSET"
  BY DEF TakenBackAfter
<1>3. j \in Nat /\ j # k
  BY <1>1, <1>2
<1>4. j > k
  BY <1>1, <1>2, <1>3
<1> QED
  BY <1>2, <1>4 DEF TakenBackAfter

\* What is marked when all that is on its way has been carried out was asked for.
LEMMA LeaveMarks ==
  ASSUME TypeInv, AskedInv, ~strayed
  PROVE  MarksAfter(Len(requests)) \subseteq asked
<1> DEFINE n == Len(requests)
           Loop(f) == f = [i \in 0..n |->
             IF i = 0 THEN marked ELSE Marking(f[i - 1], requests[i])]
           marks == CHOOSE f : Loop(f)
<1>1. requests \in Seq(Commands) /\ n \in Nat /\ DOMAIN requests = 1..n
      /\ listed \subseteq Uids /\ marked \subseteq listed
  BY DEF TypeInv, MaildropType
<1>2. \E f : Loop(f)
  <2> DEFINE V == SUBSET listed
             step == [k \in 1..n |-> [x \in V |-> Marking(x, requests[k])]]
  <2>1. marked \in V /\ step \in Steps(n, V)
    <3>1. \A k \in 1..n, x \in V : Marking(x, requests[k]) \in V
      BY <1>1, MarkingType
    <3> QED
      BY <1>1, <3>1 DEF Steps
  <2>2. \A k \in 1..n, x \in V : step[k][x] = Marking(x, requests[k])
    OBVIOUS
  <2> HIDE DEF step, V
  <2>3. PICK f : Iterates(f, n, V, marked, step)
    BY <1>1, <2>1, Iteration
  <2>4. \A k \in 1..n : f[k] = Marking(f[k - 1], requests[k])
    <3> TAKE k \in 1..n
    <3>1. k - 1 \in 0..n
      BY <1>1
    <3> QED
      BY <3>1, <2>2, <2>3 DEF Iterates
  <2>5. f = [i \in 0..n |-> f[i]]
    BY <2>3 DEF Iterates
  <2>6. \A i \in 0..n : f[i] = IF i = 0 THEN marked ELSE Marking(f[i - 1], requests[i])
    BY <1>1, <2>3, <2>4 DEF Iterates
  <2> HIDE DEF n
  <2>7. f = [i \in 0..n |-> IF i = 0 THEN marked ELSE Marking(f[i - 1], requests[i])]
    BY <2>5, <2>6
  <2> QED
    BY <2>7
<1>3. Loop(marks)
  BY <1>2
<1>4. MarksAfter(n) = marks[n]
  BY DEF MarksAfter
<1> HIDE DEF marks
<1>5. \A k \in 0..n : marks[k] = IF k = 0 THEN marked ELSE Marking(marks[k - 1], requests[k])
  BY <1>3
<1> HIDE DEF n
<1> DEFINE S == {k \in 0..n : marks[k] \subseteq asked \/ TakenBackAfter(k)}
<1>6. 0 \in S
  <2>1. 0 \in 0..n /\ marks[0] = marked
    BY <1>1, <1>5
  <2> QED
    BY <2>1 DEF AskedInv
<1>7. ASSUME NEW k \in 1..n, k - 1 \in S
      PROVE  k \in S
  <2> DEFINE request == requests[k]
             message == Named(request.num, listed)
  <2>1. k \in DOMAIN requests /\ k \in 0..n /\ marks[k] = Marking(marks[k - 1], request)
    <3>1. k \in 0..n /\ k # 0
      BY <1>1
    <3> QED
      BY <1>1, <1>5, <3>1
  <2>2. marks[k - 1] \subseteq asked \/ TakenBackAfter(k - 1)
    BY <1>7
  <2>3. request.op = "DELE" => message \in asked \cup {NoUid} \/ TakenBackAfter(k)
    BY <2>1 DEF AskedInv, Allowed
  <2>4. CASE request.op = "RSET"
    BY <2>1, <2>4 DEF Marking
  <2>5. CASE request.op # "RSET"
    <3>1. marks[k - 1] \subseteq asked \/ TakenBackAfter(k)
      BY <2>1, <2>2, <2>5, TakenBackLater
    <3>2. \/ marks[k] = marks[k - 1]
          \/ request.op = "DELE" /\ message # NoUid /\ marks[k] = marks[k - 1] \cup {message}
      BY <2>1, <2>5 DEF Marking
    <3> QED
      BY <2>1, <2>3, <3>1, <3>2
  <2> QED
    BY <2>4, <2>5
<1>8. 0..n \subseteq S
  <2> HIDE DEF S
  <2> QED
    BY <1>1, <1>6, <1>7, NumberInduction
<1>9. marks[n] \subseteq asked \/ TakenBackAfter(n)
  BY <1>1, <1>8
<1>10. ~TakenBackAfter(n)
  BY <1>1 DEF TakenBackAfter
<1> QED
  BY <1>4, <1>9, <1>10 DEF n

\* The numbers that a list still has after its first are among those it had.
LEMMA RestOfList ==
  ASSUME NEW nums \in Seq(1..MaxNum), nums # <<>>
  PROVE  /\ Head(nums) \in ToSet(nums) /\ nums[1] = Head(nums)
         /\ remaining(nums) \in Seq(1..MaxNum) /\ ToSet(remaining(nums)) \subseteq ToSet(nums)
<1> DEFINE Nums == 1..MaxNum
           rest == Tail(nums)
<1>1. nums \in Seq(Nums)
  OBVIOUS
<1> HIDE DEF Nums
<1>2. /\ rest \in Seq(Nums) /\ 1 \in DOMAIN nums /\ nums[1] = Head(nums)
      /\ \A i \in DOMAIN rest : i + 1 \in DOMAIN nums /\ rest[i] = nums[i + 1]
  BY <1>1
<1> HIDE DEF rest
<1>3. ToSet(rest) \subseteq ToSet(nums)
  BY <1>2 DEF ToSet
<1>4. Head(nums) \in ToSet(nums)
  BY <1>2 DEF ToSet
<1> QED
  BY <1>2, <1>3, <1>4 DEF remaining, rest, Nums

\* A call on a folder sends its first command.
LEMMA CallAsked ==
  ASSUME TypeInv, AskedInv, IdleNow, NEW op \in {"STAT", "UIDL", "RSET"}, NEW num, NEW newCall,
         newCall.op \in {"open", "close", "destroy", "status", "fetch"},
         Sent(Command(op, num), newCall), strayed' = strayed, asked' = asked \/ op = "RSET"
  PROVE  AskedInv'
<1> DEFINE command == Command(op, num)
<1>1. command.op = op
  BY DEF Command
<1>2. /\ call.op = "none" /\ call' = newCall
      /\ requests' = Append(requests, command) /\ marked' = marked /\ listed' = listed
  BY IdleFields DEF IdleNow, Sent
<1> HIDE DEF command
<1> QED
  BY <1>1, <1>2, AppendedAsked

\* The first command of any call on a folder keeps AskedInv.
LEMMA FolderCallsAsked ==
  ASSUME TypeInv, AskedInv, NEW f \in Folders, FolderCalls(f)
  PROVE  AskedInv'
<1> DEFINE Doing(what) == [op |-> what, folder |-> f]
<1>1. \A what : Doing(what).op = what
  OBVIOUS
<1> HIDE DEF Doing
<1>2. CASE getFolder(f) \/ getMessage(f)
  <2>1. UNCHANGED <<requests, marked, listed, asked, strayed, call>>
    BY <1>2 DEF getFolder, getMessage, maildropVars, callVars, history
  <2> QED
    BY <2>1, SameAsked
<1>3. ASSUME NEW op \in {"STAT", "RSET"}, NEW what \in {"open", "close", "destroy", "status"},
             IdleNow, Sent(Command(op, 0), Doing(what)),
             strayed' = strayed, asked' = asked \/ op = "RSET"
      PROVE  AskedInv'
  BY <1>1, <1>3, CallAsked
<1>4. CASE open(f) \/ getStatus(f)
  <2>1. /\ IdleNow /\ UNCHANGED <<asked, strayed>>
        /\ Sent(Command("STAT", 0), Doing("open")) \/ Sent(Command("STAT", 0), Doing("status"))
    BY <1>4 DEF open, getStatus, history, Doing
  <2> QED
    BY <1>3, <2>1
<1>5. ASSUME NEW expunge \in BOOLEAN, close(f, expunge)
      PROVE  AskedInv'
  <2>1. CASE sendsRset(expunge)
    <3>1. IdleNow /\ strayed' = strayed /\ Sent(Command("RSET", 0), Doing("close"))
      BY <1>5, <2>1 DEF close, Doing
    <3> QED
      BY <1>3, <3>1
  <2>2. CASE ~sendsRset(expunge)
    <3>1. UNCHANGED <<requests, marked, listed, asked, strayed, call>>
      BY <1>5, <2>2 DEF close, sendsRset, maildropVars, callVars
    <3> QED
      BY <3>1, SameAsked
  <2> QED
    BY <2>1, <2>2
<1>6. CASE destroy(f)
  <2>1. CASE folders[f].store /\ folders[f].open /\ up
    <3>1. IdleNow /\ strayed' = strayed /\ Sent(Command("RSET", 0), Doing("destroy"))
      BY <1>6, <2>1 DEF destroy, Doing
    <3> QED
      BY <1>3, <3>1
  <2>2. CASE ~(folders[f].store /\ folders[f].open /\ up)
    <3>1. UNCHANGED <<requests, marked, listed, asked, strayed, call>>
      BY <1>6, <2>2 DEF destroy, maildropVars, callVars, history
    <3> QED
      BY <3>1, SameAsked
  <2> QED
    BY <2>1, <2>2
<1>7. ASSUME NEW i, fetchMessage(f, i)
      PROVE  AskedInv'
  <2> DEFINE newCall == [op |-> "fetch", folder |-> f, object |-> i]
             num == folders[f].objects[i].num
  <2>1. newCall.op = "fetch"
    OBVIOUS
  <2>2. IdleNow /\ Sent(Command("UIDL", num), newCall) /\ UNCHANGED <<asked, strayed>>
    BY <1>7 DEF fetchMessage, history
  <2> HIDE DEF newCall, num
  <2> QED
    BY <2>1, <2>2, CallAsked
<1>8. ASSUME NEW nums \in NumberLists, deleteMessages(f, nums)
      PROVE  AskedInv'
  <2> DEFINE newCall == [op |-> "delete", folder |-> f, rest |-> remaining(nums), all |-> ToSet(nums)]
             command == Command("DELE", nums[1])
  <2>1. newCall.op = "delete" /\ newCall.rest = remaining(nums)
        /\ command.op = "DELE" /\ command.num = nums[1]
    BY DEF Command
  <2>2. /\ call.op = "none" /\ requests' = Append(requests, command) /\ call' = newCall
        /\ marked' = marked /\ listed' = listed
        /\ asked' = asked \cup {Meant(f, n) : n \in ToSet(nums)}
        /\ strayed' = (strayed \/ ~Fresh(f))
        /\ nums # <<>>
    BY <1>8, IdleFields DEF deleteMessages, IdleNow, Sent
  <2> HIDE DEF newCall, command
  <2>3. nums[1] \in ToSet(nums) /\ ToSet(remaining(nums)) \subseteq ToSet(nums)
    BY <2>2, ListType, RestOfList
  <2>4. ~strayed' => \A n \in ToSet(nums) : Allowed(n, listed, asked')
    BY <2>2 DEF Allowed, Meant
  <2>5. asked \subseteq asked'
    BY <2>2
  <2> QED
    BY <2>1, <2>2, <2>3, <2>4, <2>5, AppendedAsked
<1> QED
  BY <1>2, <1>4, <1>5, <1>6, <1>7, <1>8 DEF FolderCalls

\* So does what a call does with a reply.
LEMMA RepliedAsked ==
  ASSUME TypeInv, AskedInv, Replied
  PROVE  AskedInv'
<1>1. CASE doneOpen \/ doneClose \/ doneDestroy \/ doneFetch \/ doneDelete \/ refusedDelete \/ doneStatus
  <2>1. /\ call.op # "disconnect" /\ call' = Idle
        /\ UNCHANGED <<requests, marked, listed, asked, strayed>>
    BY <1>1 DEF doneOpen, doneClose, doneDestroy, doneFetch, doneDelete, refusedDelete, doneStatus,
                Answered, ReadIt, Return, afterRefusal, history
  <2> QED
    BY <2>1, SameAsked
<1>2. CASE deleteNext
  <2> DEFINE command == Command("DELE", Head(call.rest))
  <2>1. command.op = "DELE" /\ command.num = Head(call.rest)
    BY DEF Command
  <2>2. /\ call.op = "delete" /\ call.rest # <<>> /\ requests' = Append(requests, command)
        /\ call' = [call EXCEPT !.rest = remaining(@)]
        /\ UNCHANGED <<marked, listed, asked, strayed>>
    BY <1>2 DEF deleteNext, Answered, ReadIt, history
  <2> HIDE DEF command
  <2>3. call \in Calls /\ call.rest \in Seq(1..MaxNum)
    BY <2>2, CallFields DEF TypeInv, CallType
  <2>4. call'.op = "delete" /\ call'.rest = remaining(call.rest)
    BY <2>2, <2>3 DEF Calls
  <2>5. Head(call.rest) \in ToSet(call.rest) /\ ToSet(remaining(call.rest)) \subseteq ToSet(call.rest)
    BY <2>2, <2>3, RestOfList
  <2>6. ~strayed => \A n \in ToSet(call.rest) : Allowed(n, listed, asked)
    BY <2>2 DEF AskedInv
  <2> QED
    BY <2>1, <2>2, <2>4, <2>5, <2>6, AppendedAsked
<1>3. CASE doneDisconnect
  BY <1>3, EmptyAsked DEF doneDisconnect, leave
<1> QED
  BY <1>1, <1>2, <1>3 DEF Replied

\* So does every step.
LEMMA AskedNext ==
  ASSUME TypeInv, AskedInv, [Next]_vars
  PROVE  AskedInv'
<1>1. CASE connect
  BY <1>1, EmptyAsked DEF connect, NewSession, callVars, IdleNow
<1>2. CASE disconnect
  <2> DEFINE command == Command("QUIT", 0)
             newCall == [op |-> "disconnect"]
  <2>1. command.op = "QUIT" /\ newCall.op = "disconnect"
    BY DEF Command
  <2>2. /\ call.op = "none" /\ requests' = Append(requests, command) /\ call' = newCall
        /\ UNCHANGED <<marked, listed, asked, strayed>>
    BY <1>2, IdleFields DEF disconnect, IdleNow, Sent, history
  <2> HIDE DEF command, newCall
  <2> QED
    BY <2>1, <2>2, AppendedAsked
<1>3. CASE connectionLost
  BY <1>3, EmptyAsked DEF connectionLost, leave
<1>4. CASE \E f \in Folders : FolderCalls(f)
  BY <1>4, FolderCallsAsked
<1>5. CASE Replied
  BY <1>5, RepliedAsked
<1>6. CASE timeOut
  <2>1. call.op # "disconnect" /\ call' = Idle /\ UNCHANGED <<requests, marked, listed, asked, strayed>>
    BY <1>6 DEF timeOut, maildropVars
  <2> QED
    BY <2>1, SameAsked
<1>7. CASE Server
  BY <1>7, ServeAsked DEF Server, callVars, history
<1>8. CASE OtherMail \/ UNCHANGED vars
  <2>1. UNCHANGED <<requests, marked, listed, asked, strayed, call>>
    BY <1>8 DEF OtherMail, arrive, vanish, vars, maildropVars, callVars, history
  <2> QED
    BY <2>1, SameAsked
<1> QED
  BY <1>1, <1>2, <1>3, <1>4, <1>5, <1>6, <1>7, <1>8 DEF Next

\* What is marked, or on its way to be, was asked for, or is taken back behind it.
THEOREM AskedInvariance == Spec => []AskedInv
<1>1. Init => AskedInv
  <2>1. Init => requests = <<>> /\ marked = {} /\ call.op = "none"
    BY IdleFields DEF Init, MaildropInit
  <2>2. DOMAIN <<>> = {}
    OBVIOUS
  <2> QED
    BY <2>1, <2>2 DEF AskedInv
<1>2. TypeInv /\ AskedInv /\ [Next]_vars => AskedInv'
  BY AskedNext
<1> QED
  BY <1>1, <1>2, POP3Invariance, PTL DEF Spec

\* A step that removes messages while there is a session.
LEMMA RemovalAsked ==
  ASSUME TypeInv, AskedInv, [Next]_vars, up, ~strayed
  PROVE  maildrop \ maildrop' \subseteq asked
<1>1. CASE connectionLost \/ doneDisconnect
  <2>1. maildrop' = maildrop \/ maildrop' = maildrop \ MarksAfter(Len(requests))
    BY <1>1 DEF connectionLost, doneDisconnect, leave
  <2> QED
    BY <2>1, LeaveMarks
<1>2. CASE Server
  <2>1. CASE maildrop' # maildrop
    <3>1. requests # <<>> /\ Head(requests).op = "QUIT" /\ maildrop' = maildrop \ marked
      BY <1>2, <2>1 DEF Server, serve, refuse
    <3>2. requests \in Seq(Commands)
      BY DEF TypeInv, MaildropType
    <3>3. 1 \in DOMAIN requests /\ requests[1].op = "QUIT"
      BY <3>1, <3>2
    <3>4. Len(requests) = 1
      BY <3>3 DEF AskedInv
    <3>5. ~TakenBackAfter(0)
      <4>1. \A j \in DOMAIN requests : j = 1
        BY <3>2, <3>4
      <4> QED
        BY <3>3, <4>1 DEF TakenBackAfter
    <3> QED
      BY <3>1, <3>5 DEF AskedInv
  <2> QED
    BY <2>1
<1>3. CASE timeOut \/ OtherMail \/ connect \/ disconnect \/ UNCHANGED vars
  <2>1. maildrop' = maildrop
    BY <1>3 DEF timeOut, OtherMail, arrive, vanish, OtherStep, connect, disconnect, Sent, vars, maildropVars
  <2> QED
    BY <2>1
<1>4. ASSUME NEW f \in Folders, FolderCalls(f)
      PROVE  maildrop' = maildrop
  BY <1>4 DEF FolderCalls, getFolder, open, getStatus, destroy, getMessage, close, fetchMessage,
              deleteMessages, Sent, maildropVars
<1>5. CASE doneOpen \/ doneClose \/ doneDestroy \/ doneFetch \/ deleteNext \/ doneDelete
           \/ refusedDelete \/ doneStatus
  <2>1. maildrop' = maildrop
    BY <1>5 DEF doneOpen, doneClose, doneDestroy, doneFetch, deleteNext, doneDelete, refusedDelete,
                doneStatus, ReadIt
  <2> QED
    BY <2>1
<1> QED
  BY <1>1, <1>2, <1>3, <1>4, <1>5 DEF Next, Replied

\* A session removes no message but those that callers asked to delete since a
\* folder was last closed without expunging, whatever failed on the way.
THEOREM OnlyAskedIsRemoved == Spec => RemovedWasAsked
<1>1. TypeInv /\ AskedInv /\ [Next]_vars => [up /\ ~strayed => maildrop \ maildrop' \subseteq asked]_vars
  BY RemovalAsked
<1> QED
  BY <1>1, POP3Invariance, AskedInvariance, PTL DEF Spec, RemovedWasAsked

-----------------------------------------------------------------------------
(***************************************************************************)
(* What folder objects show while calls and replies are in step            *)
(***************************************************************************)
\* The command whose reply a call waits for.
AwaitedOp(what) ==
  CASE what \in {"open", "status"} -> "STAT"
    [] what \in {"close", "destroy"} -> "RSET"
    [] what = "fetch" -> "UIDL"
    [] what = "delete" -> "DELE"
    [] OTHER -> "QUIT"

\* No call, no command and no reply; one command, which is the call's; or one
\* reply, which is to it.
Quiet == IdleNow /\ requests = <<>> /\ replies = <<>>
Asking ==
  /\ ~IdleNow /\ replies = <<>>
  /\ Len(requests) = 1 /\ requests[1].op = AwaitedOp(call.op)
Replying == ~IdleNow /\ requests = <<>> /\ Len(replies) = 1
Exchange == Quiet \/ Asking \/ Replying

\* Marks are being taken back.
Closing == call.op \in {"close", "destroy"}

\* The UID that is asked for is that of the message object's number.
FetchInv ==
  call.op = "fetch" =>
    LET num == folders[call.folder].objects[call.object].num
    IN /\ Asking => requests[1].num = num
       /\ Replying /\ replies[1].ok => replies[1].uid = Named(num, listed)

\* What the call was to delete is still to be asked for, or being asked for, or
\* marked, unless the server has refused.
DeleteInv ==
  call.op = "delete" =>
    \A num \in call.all :
      \/ num \in ToSet(call.rest)
      \/ Asking /\ requests[1].num = num
      \/ Replying /\ ~replies[1].ok
      \/ Named(num, listed) \in marked

\* What is confirmed is marked, and gone when QUIT has been carried out.
ConfirmedInv ==
  /\ confirmed \subseteq marked
  /\ Closing => confirmed = {}
  /\ call.op = "disconnect" /\ requests = <<>> => maildrop \cap marked = {}

\* A message object of the session, and a folder object.
Truth(object, view, marks, doubtful) ==
  /\ object.uid \in {NoUid, Named(object.num, view)}
  /\ object.deleted /\ ~doubtful => Named(object.num, view) \in marks
FolderTruth(folder, view, marks, closing) ==
  folder.open /\ folder.fresh =>
    \A i \in DOMAIN folder.objects : Truth(folder.objects[i], view, marks, folder.overtaken \/ closing)
TruthInv == \A f \in Folders : FolderTruth(folders[f], listed, marked, Closing)

StepInv == Exchange /\ FetchInv /\ DeleteInv /\ ConfirmedInv /\ TruthInv

InStepInv ==
  /\ ~up => confirmed = {}
  /\ up /\ inStep => StepInv

\* Which call sends a command.
LEMMA AwaitedCall ==
  ASSUME NEW c \in Calls, c.op # "none"
  PROVE  /\ AwaitedOp(c.op) = "RSET" => c.op \in {"close", "destroy"}
         /\ AwaitedOp(c.op) = "DELE" => c.op = "delete"
         /\ AwaitedOp(c.op) = "QUIT" => c.op = "disconnect"
         /\ c.op = "fetch" => AwaitedOp(c.op) = "UIDL"
         /\ c.op = "delete" => AwaitedOp(c.op) = "DELE"
  BY CallFields DEF AwaitedOp

\* A call begins.
LEMMA SentAsks ==
  ASSUME Quiet, NEW command, NEW newCall, Sent(command, newCall),
         newCall.op # "none", command.op = AwaitedOp(newCall.op)
  PROVE  /\ Asking' /\ Exchange' /\ ~Replying' /\ requests' # <<>> /\ requests'[1] = command
         /\ call' = newCall /\ marked' = marked /\ listed' = listed /\ maildrop' = maildrop
<1>1. requests' = Append(<<>>, command) /\ replies' = <<>> /\ call' = newCall
      /\ marked' = marked /\ listed' = listed /\ maildrop' = maildrop
  BY DEF Sent, Quiet
<1>2. Len(requests') = 1 /\ requests'[1] = command /\ requests' # <<>>
  BY <1>1
<1>3. newCall # Idle
  BY IdleFields
<1> QED
  BY <1>1, <1>2, <1>3 DEF Asking, Exchange, Replying, IdleNow

\* A call reads the reply that has come.
LEMMA ReadsReply ==
  ASSUME TypeInv, Exchange, replies # <<>>
  PROVE  Replying /\ ~Asking /\ requests = <<>> /\ Got = replies[1] /\ Tail(replies) = <<>>
<1>1. Replying /\ ~Asking /\ requests = <<>> /\ Len(replies) = 1
  BY DEF Exchange, Quiet, Asking, Replying
<1>2. replies \in Seq(Replies)
  BY DEF TypeInv, MaildropType
<1>3. Head(replies) = replies[1] /\ Tail(replies) \in Seq(Replies) /\ Len(Tail(replies)) = 0
  BY <1>1, <1>2
<1>4. \A s \in Seq(Replies) : Len(s) = 0 => s = <<>>
  OBVIOUS
<1> QED
  BY <1>1, <1>3, <1>4 DEF Got

\* A call that has read its reply leaves nothing behind it.
LEMMA ReturnQuiet ==
  ASSUME TypeInv, Exchange, replies # <<>>, ReadIt, Return
  PROVE  /\ Exchange' /\ call' = Idle /\ marked' = marked /\ listed' = listed
  BY ReadsReply DEF ReadIt, Return, Exchange, Quiet, IdleNow

\* No call waits.
LEMMA IdleSteps ==
  ASSUME call' = Idle
  PROVE  FetchInv' /\ DeleteInv' /\ ~Closing' /\ (confirmed' \subseteq marked' => ConfirmedInv')
  BY IdleFields DEF FetchInv, DeleteInv, Closing, ConfirmedInv

\* A folder object that shows what it showed, or less.
Kept(new, old) ==
  \/ new.objects = <<>> \/ ~new.fresh
  \/ /\ new.open = old.open /\ new.fresh = old.fresh /\ new.objects = old.objects
     /\ new.overtaken = old.overtaken

\* What folder objects showed stays true while the marks stay, or are in doubt.
LEMMA TruthKept ==
  ASSUME TruthInv, \A f \in Folders : Kept(folders'[f], folders[f]),
         listed' = listed, marked \subseteq marked' \/ Closing', Closing => Closing'
  PROVE  TruthInv'
<1> SUFFICES ASSUME NEW f \in Folders, folders'[f].open, folders'[f].fresh,
                    NEW i \in DOMAIN folders'[f].objects
             PROVE  Truth(folders'[f].objects[i], listed, marked', folders'[f].overtaken \/ Closing')
  BY DEF TruthInv, FolderTruth
<1>1. folders'[f].objects # <<>>
  OBVIOUS
<1>2. folders[f].open /\ folders[f].fresh /\ folders'[f].objects = folders[f].objects
      /\ folders'[f].overtaken = folders[f].overtaken
  BY <1>1 DEF Kept
<1>3. Truth(folders[f].objects[i], listed, marked, folders[f].overtaken \/ Closing)
  BY <1>2 DEF TruthInv, FolderTruth
<1> QED
  BY <1>2, <1>3 DEF Truth

\* A call that is not to fetch or delete begins, and takes no marks back.
LEMMA SentStep ==
  ASSUME TypeInv, StepInv, IdleNow, NEW op, NEW num, NEW newCall, Sent(Command(op, num), newCall),
         newCall.op \notin {"none", "fetch", "delete"}, op = AwaitedOp(newCall.op),
         newCall.op \in {"close", "destroy"} => confirmed' = {}, confirmed' \subseteq confirmed,
         \A f \in Folders : Kept(folders'[f], folders[f])
  PROVE  StepInv'
<1> DEFINE command == Command(op, num)
<1>1. Quiet /\ ~Closing
  BY IdleFields DEF StepInv, Exchange, Asking, Replying, Closing, IdleNow
<1>2. command.op = op
  BY DEF Command
<1> HIDE DEF command
<1>3. /\ Exchange' /\ requests' # <<>> /\ call' = newCall
      /\ marked' = marked /\ listed' = listed
  BY <1>1, <1>2, SentAsks DEF command
<1>4. FetchInv' /\ DeleteInv'
  BY <1>3 DEF FetchInv, DeleteInv
<1>5. ConfirmedInv'
  BY <1>3 DEF StepInv, ConfirmedInv, Closing
<1>6. TruthInv'
  BY <1>1, <1>3, TruthKept DEF StepInv
<1> QED
  BY <1>3, <1>4, <1>5, <1>6 DEF StepInv

\* fetchMessage asks for the number of its message object.
LEMMA FetchBegins ==
  ASSUME TypeInv, StepInv, NEW f \in Folders, NEW i \in DOMAIN folders[f].objects, fetchMessage(f, i)
  PROVE  StepInv'
<1> DEFINE newCall == [op |-> "fetch", folder |-> f, object |-> i]
           num == folders[f].objects[i].num
           command == Command("UIDL", num)
<1>1. newCall.op = "fetch" /\ newCall.folder = f /\ newCall.object = i
      /\ command.op = "UIDL" /\ command.num = num
  BY DEF Command
<1>2. IdleNow /\ Sent(command, newCall) /\ UNCHANGED <<folders, history>>
  BY DEF fetchMessage
<1>3. Quiet /\ ~Closing
  BY <1>2, IdleFields DEF StepInv, Exchange, Asking, Replying, Closing, IdleNow
<1> HIDE DEF command, newCall
<1>4. "UIDL" = AwaitedOp("fetch")
  BY DEF AwaitedOp
<1>5. /\ Exchange' /\ ~Replying' /\ requests' # <<>> /\ requests'[1] = command /\ call' = newCall
      /\ marked' = marked /\ listed' = listed
  BY <1>1, <1>2, <1>3, <1>4, SentAsks
<1>6. FetchInv'
  <2>1. folders'[f].objects[i].num = num
    BY <1>2
  <2> HIDE DEF num
  <2> QED
    BY <1>1, <1>5, <2>1 DEF FetchInv
<1>7. DeleteInv' /\ ~Closing'
  BY <1>1, <1>5 DEF DeleteInv, Closing
<1>8. ConfirmedInv'
  BY <1>1, <1>2, <1>5 DEF StepInv, ConfirmedInv, Closing, history
<1>9. TruthInv'
  BY <1>2, <1>3, <1>5, TruthKept DEF StepInv, Kept
<1> QED
  BY <1>5, <1>6, <1>7, <1>8, <1>9 DEF StepInv

\* The numbers of a list are its first and those that remain.
LEMMA FirstOrRest ==
  ASSUME NEW nums \in Seq(1..MaxNum), nums # <<>>, NEW num \in ToSet(nums)
  PROVE  num = Head(nums) \/ num \in ToSet(remaining(nums))
<1> DEFINE Nums == 1..MaxNum
           rest == Tail(nums)
<1>1. nums \in Seq(Nums)
  OBVIOUS
<1> HIDE DEF Nums
<1>2. PICK i \in DOMAIN nums : nums[i] = num
  BY DEF ToSet
<1>3. /\ Len(nums) \in Nat /\ DOMAIN nums = 1..Len(nums) /\ Head(nums) = nums[1]
      /\ DOMAIN rest = 1..(Len(nums) - 1)
      /\ \A j \in DOMAIN rest : rest[j] = nums[j + 1]
  BY <1>1
<1> HIDE DEF rest
<1>4. CASE i # 1
  <2>1. i - 1 \in DOMAIN rest /\ i - 1 + 1 = i
    BY <1>2, <1>3, <1>4
  <2>2. rest[i - 1] = num
    BY <1>2, <1>3, <2>1
  <2> QED
    BY <2>1, <2>2 DEF ToSet, remaining, rest
<1> QED
  BY <1>2, <1>3, <1>4

\* deleteMessages asks for the first number, the others remain.
LEMMA DeleteBegins ==
  ASSUME TypeInv, StepInv, NEW f \in Folders, NEW nums \in NumberLists, deleteMessages(f, nums)
  PROVE  StepInv'
<1> DEFINE newCall == [op |-> "delete", folder |-> f, rest |-> remaining(nums), all |-> ToSet(nums)]
           command == Command("DELE", nums[1])
<1>1. newCall.op = "delete" /\ newCall.rest = remaining(nums) /\ newCall.all = ToSet(nums)
      /\ command.op = "DELE" /\ command.num = nums[1]
  BY DEF Command
<1>2. IdleNow /\ Sent(command, newCall) /\ UNCHANGED <<folders, confirmed>> /\ nums # <<>>
  BY DEF deleteMessages
<1>3. Quiet /\ ~Closing
  BY <1>2, IdleFields DEF StepInv, Exchange, Asking, Replying, Closing, IdleNow
<1> HIDE DEF command, newCall
<1>4. "DELE" = AwaitedOp("delete")
  BY DEF AwaitedOp
<1>5. /\ Exchange' /\ Asking' /\ requests' # <<>> /\ requests'[1] = command /\ call' = newCall
      /\ marked' = marked /\ listed' = listed
  BY <1>1, <1>2, <1>3, <1>4, SentAsks
<1>6. \A num \in ToSet(nums) : num = nums[1] \/ num \in ToSet(remaining(nums))
  BY <1>2, ListType, FirstOrRest, RestOfList
<1>7. DeleteInv'
  BY <1>1, <1>5, <1>6 DEF DeleteInv
<1>8. FetchInv' /\ ~Closing'
  BY <1>1, <1>5 DEF FetchInv, Closing
<1>9. ConfirmedInv'
  BY <1>1, <1>2, <1>5 DEF StepInv, ConfirmedInv, Closing
<1>10. TruthInv'
  BY <1>2, <1>3, <1>5, TruthKept DEF StepInv, Kept
<1> QED
  BY <1>5, <1>7, <1>8, <1>9, <1>10 DEF StepInv

\* Steps of the client between calls.
LEMMA QuietStep ==
  ASSUME TypeInv, StepInv, IdleNow, UNCHANGED <<maildropVars, call>>, confirmed' \subseteq confirmed,
         TruthInv'
  PROVE  StepInv'
<1>1. Exchange'
  <2>1. Quiet
    BY DEF StepInv, Exchange, Asking, Replying
  <2> QED
    BY <2>1 DEF Exchange, Quiet, IdleNow, maildropVars
<1>2. call' = Idle
  BY DEF IdleNow
<1> QED
  BY <1>1, <1>2, IdleSteps DEF StepInv, ConfirmedInv, maildropVars

\* The state of one folder object changes.
LEMMA UpdateKept ==
  ASSUME TypeInv, NEW f \in Folders, NEW folder, Update(f, folder), Kept(folder, folders[f])
  PROVE  \A g \in Folders : Kept(folders'[g], folders[g])
<1>1. folders'[f] = folder /\ \A g \in Folders : g # f => folders'[g] = folders[g]
  BY DEF TypeInv, FolderType, Update
<1> QED
  BY <1>1 DEF Kept

\* A new message object shows nothing.
LEMMA NewObjectTold ==
  ASSUME TypeInv, StepInv, NEW f \in Folders, getMessage(f)
  PROVE  TruthInv'
<1>1. PICK num \in 1..folders[f].count :
        Update(f, [folders[f] EXCEPT !.objects = Append(@, Object(num))])
  BY DEF getMessage
<1> DEFINE objects == folders[f].objects
           new == Append(objects, Object(num))
           n == Len(objects)
           folder == [folders[f] EXCEPT !.objects = new]
<1>2. objects \in Seq(Objects) /\ folders[f] \in FolderStates
  BY FolderFields DEF TypeInv
<1>3. /\ n \in Nat /\ DOMAIN objects = 1..n /\ DOMAIN new = 1..(n + 1)
      /\ \A i \in 1..n : new[i] = objects[i]
      /\ new[n + 1] = Object(num)
  BY <1>2
<1>4. Update(f, folder)
  BY <1>1
<1> HIDE DEF new, n
<1>5. folder.objects = new /\ folder.open = folders[f].open /\ folder.fresh = folders[f].fresh
      /\ folder.overtaken = folders[f].overtaken
  BY <1>2 DEF FolderStates
<1> HIDE DEF folder
<1>6. folders'[f] = folder /\ \A g \in Folders : g # f => folders'[g] = folders[g]
  BY <1>4 DEF TypeInv, FolderType, Update
<1>7. call' = call /\ listed' = listed /\ marked' = marked
  BY DEF getMessage, maildropVars, callVars
<1>8. \A view, marks, doubtful : Truth(Object(num), view, marks, doubtful)
  BY DEF Truth, Object
<1>9. FolderTruth(folder, listed, marked, Closing)
  <2> SUFFICES ASSUME folders[f].open, folders[f].fresh, NEW i \in 1..(n + 1)
               PROVE  Truth(new[i], listed, marked, folders[f].overtaken \/ Closing)
    BY <1>3, <1>5 DEF FolderTruth
  <2>1. CASE i \in 1..n
    BY <1>3, <2>1 DEF StepInv, TruthInv, FolderTruth
  <2>2. CASE i = n + 1
    BY <1>3, <1>8, <2>2
  <2> QED
    BY <1>3, <2>1, <2>2
<1>10. \A g \in Folders : FolderTruth(folders'[g], listed, marked, Closing)
  BY <1>6, <1>9 DEF StepInv, TruthInv
<1>11. Closing' = Closing
  BY <1>7 DEF Closing
<1> QED
  BY <1>7, <1>10, <1>11 DEF TruthInv

\* The calls on a folder keep StepInv.
LEMMA FolderCallsStep ==
  ASSUME TypeInv, StepInv, NEW f \in Folders, FolderCalls(f)
  PROVE  StepInv'
<1> DEFINE Doing(what) == [op |-> what, folder |-> f]
<1>1. \A what : Doing(what).op = what
  OBVIOUS
<1>2. /\ AwaitedOp("open") = "STAT" /\ AwaitedOp("status") = "STAT"
      /\ AwaitedOp("close") = "RSET" /\ AwaitedOp("destroy") = "RSET"
  BY DEF AwaitedOp
<1> HIDE DEF Doing
<1>3. folders' = folders => \A g \in Folders : Kept(folders'[g], folders[g])
  BY DEF Kept
<1>4. CASE open(f) \/ getStatus(f)
  <2>1. /\ IdleNow /\ folders' = folders /\ confirmed' = confirmed
        /\ Sent(Command("STAT", 0), Doing("open")) \/ Sent(Command("STAT", 0), Doing("status"))
    BY <1>4 DEF open, getStatus, history, Doing
  <2> QED
    BY <1>1, <1>2, <1>3, <2>1, SentStep
<1>5. ASSUME NEW expunge \in BOOLEAN, close(f, expunge)
      PROVE  StepInv'
  <2>1. CASE sendsRset(expunge)
    <3>1. /\ IdleNow /\ folders' = folders /\ Sent(Command("RSET", 0), Doing("close"))
          /\ confirmed' = {}
      BY <1>5, <2>1 DEF close, Doing, sendsRset
    <3> QED
      BY <1>1, <1>2, <1>3, <3>1, SentStep
  <2>2. CASE ~sendsRset(expunge)
    <3>1. /\ IdleNow /\ Update(f, Closed(folders[f]))
          /\ UNCHANGED <<maildropVars, call, confirmed>>
      BY <1>5, <2>2 DEF close, callVars, sendsRset
    <3>2. folders[f] \in FolderStates
      BY FolderFields DEF TypeInv
    <3>3. \A g \in Folders : Kept(folders'[g], folders[g])
      BY <3>1, <3>2, ClosedType, UpdateKept DEF Kept
    <3>4. TruthInv'
      BY <3>1, <3>3, TruthKept DEF StepInv, maildropVars, Closing
    <3> QED
      BY <3>1, <3>4, QuietStep
  <2> QED
    BY <2>1, <2>2
<1>6. CASE destroy(f)
  <2>1. CASE folders[f].store /\ folders[f].open /\ up
    <3>1. /\ IdleNow /\ folders' = folders /\ Sent(Command("RSET", 0), Doing("destroy"))
          /\ confirmed' = {}
      BY <1>6, <2>1 DEF destroy, Doing
    <3> QED
      BY <1>1, <1>2, <1>3, <3>1, SentStep
  <2>2. CASE ~(folders[f].store /\ folders[f].open /\ up)
    <3>1. IdleNow /\ Update(f, NoFolder) /\ UNCHANGED <<maildropVars, call, confirmed>>
      BY <1>6, <2>2 DEF destroy, callVars, history
    <3>2. \A g \in Folders : Kept(folders'[g], folders[g])
      BY <3>1, NoFolderType, UpdateKept DEF Kept
    <3>3. TruthInv'
      BY <3>1, <3>2, TruthKept DEF StepInv, maildropVars, Closing
    <3> QED
      BY <3>1, <3>3, QuietStep
  <2> QED
    BY <2>1, <2>2
<1>7. CASE getFolder(f)
  <2>1. PICK garbage \in Garbage :
          Update(f, [NoFolder EXCEPT !.live = TRUE, !.store = TRUE, !.count = garbage])
    BY <1>7 DEF getFolder
  <2> DEFINE folder == [NoFolder EXCEPT !.live = TRUE, !.store = TRUE, !.count = garbage]
  <2>2. folder.objects = <<>>
    BY DEF NoFolder
  <2> HIDE DEF folder
  <2>3. Kept(folder, folders[f])
    BY <2>2 DEF Kept
  <2>4. \A g \in Folders : Kept(folders'[g], folders[g])
    BY <2>1, <2>3, UpdateKept DEF folder
  <2>5. IdleNow /\ UNCHANGED <<maildropVars, call, confirmed>>
    BY <1>7 DEF getFolder, callVars, history
  <2>6. TruthInv'
    BY <2>4, <2>5, TruthKept DEF StepInv, maildropVars, Closing
  <2> QED
    BY <2>5, <2>6, QuietStep
<1>8. CASE getMessage(f)
  <2>1. IdleNow /\ UNCHANGED <<maildropVars, call, confirmed>>
    BY <1>8 DEF getMessage, callVars, history
  <2> QED
    BY <1>8, <2>1, NewObjectTold, QuietStep
<1>9. ASSUME NEW i \in DOMAIN folders[f].objects, fetchMessage(f, i)
      PROVE  StepInv'
  BY <1>9, FetchBegins
<1>10. ASSUME NEW nums \in NumberLists, deleteMessages(f, nums)
       PROVE  StepInv'
  BY <1>10, DeleteBegins
<1> QED
  BY <1>4, <1>5, <1>6, <1>7, <1>8, <1>9, <1>10 DEF FolderCalls

\* A call returns, and the folder objects show what they showed, or less.
LEMMA ReturnStep ==
  ASSUME TypeInv, StepInv, NEW op, Answered(op), ReadIt, Return, confirmed' \subseteq marked, TruthInv'
  PROVE  StepInv'
<1>1. Exchange' /\ call' = Idle /\ marked' = marked
  BY ReturnQuiet DEF StepInv, Answered
<1> QED
  BY <1>1, IdleSteps DEF StepInv

\* A call other than close returns, and nothing more is shown.
LEMMA ReturnTruth ==
  ASSUME TypeInv, StepInv, NEW op, Answered(op), op \notin {"close", "destroy"}, ReadIt, Return,
         \A g \in Folders : Kept(folders'[g], folders[g])
  PROVE  TruthInv'
  BY TruthKept DEF StepInv, Answered, ReadIt, Closing

\* The message objects of a folder that is opened again stay as they are.
LEMMA DoneOpenStep ==
  ASSUME TypeInv, StepInv, doneOpen
  PROVE  StepInv'
<1> DEFINE f == call.folder
           was == folders[f]
           folder == [was EXCEPT
                        !.open = TRUE, !.count = Got.count, !.fresh = @ \/ was.objects = <<>>,
                        !.overtaken = @ /\ was.objects # <<>>]
<1>1. Answered("open") /\ ReadIt /\ Return /\ confirmed' = confirmed
  BY DEF doneOpen, history
<1>2. f \in Folders
  BY <1>1, CallFields DEF TypeInv, CallType, Answered
<1>3. was \in FolderStates /\ (~was.open => was.objects = <<>>)
  BY <1>2, FolderFields DEF TypeInv
<1>4. \A g \in Folders : Kept(folders'[g], folders[g])
  <2> DEFINE empty == [was EXCEPT !.count = 0]
  <2>1. folders' = folders \/ Update(f, folder) \/ Update(f, empty)
    BY DEF doneOpen
  <2>2. Kept(folder, was)
    <3>1. /\ folder.open = TRUE /\ folder.fresh = (was.fresh \/ was.objects = <<>>)
          /\ folder.objects = was.objects /\ folder.overtaken = (was.overtaken /\ was.objects # <<>>)
          /\ was.open \in BOOLEAN /\ was.fresh \in BOOLEAN /\ was.overtaken \in BOOLEAN
      BY <1>3 DEF FolderStates
    <3> HIDE DEF folder, was
    <3> QED
      BY <1>3, <3>1 DEF Kept
  <2>3. Kept(empty, was)
    <3>1. /\ empty.open = was.open /\ empty.fresh = was.fresh
          /\ empty.objects = was.objects /\ empty.overtaken = was.overtaken
          /\ was.open \in BOOLEAN /\ was.fresh \in BOOLEAN /\ was.overtaken \in BOOLEAN
      BY <1>3 DEF FolderStates
    <3> HIDE DEF empty, was
    <3> QED
      BY <1>3, <3>1 DEF Kept
  <2> HIDE DEF folder, empty
  <2> QED
    BY <1>2, <2>1, <2>2, <2>3, UpdateKept DEF Kept
<1>5. TruthInv'
  BY <1>1, <1>4, ReturnTruth
<1> QED
  BY <1>1, <1>5, ReturnStep DEF StepInv, ConfirmedInv

\* The marks are taken back: this folder object shows nothing any more, and
\* what the others show is in doubt.
LEMMA AfterClosingTruth ==
  ASSUME TypeInv, StepInv, NEW f \in Folders, NEW folder, folder.objects = <<>>, listed' = listed,
         folders' = [g \in Folders |->
                       IF g = f THEN folder ELSE [folders[g] EXCEPT !.overtaken = TRUE]]
  PROVE  TruthInv'
<1> SUFFICES ASSUME NEW g \in Folders, folders'[g].open, folders'[g].fresh,
                    NEW i \in DOMAIN folders'[g].objects
             PROVE  Truth(folders'[g].objects[i], listed, marked', folders'[g].overtaken \/ Closing')
  BY DEF TruthInv, FolderTruth
<1>1. folders'[f].objects = <<>>
  OBVIOUS
<1>2. g # f /\ folders'[g] = [folders[g] EXCEPT !.overtaken = TRUE]
  BY <1>1
<1>3. folders[g] \in FolderStates
  BY FolderFields DEF TypeInv
<1>4. /\ folders'[g].open = folders[g].open /\ folders'[g].fresh = folders[g].fresh
      /\ folders'[g].objects = folders[g].objects /\ folders'[g].overtaken
  BY <1>2, <1>3 DEF FolderStates
<1>5. Truth(folders[g].objects[i], listed, marked, folders[g].overtaken \/ Closing)
  BY <1>4 DEF StepInv, TruthInv, FolderTruth
<1> QED
  BY <1>4, <1>5 DEF Truth

\* After RSET, what the other folder objects show is in doubt.
LEMMA DoneCloseStep ==
  ASSUME TypeInv, StepInv, doneClose \/ doneDestroy
  PROVE  StepInv'
<1>1. CASE doneClose
  <2>1. Answered("close") /\ ReadIt /\ Return /\ confirmed' = confirmed
    BY <1>1 DEF doneClose, history
  <2>2. call.folder \in Folders
    BY <2>1, CallFields DEF TypeInv, CallType, Answered
  <2>3. folders[call.folder] \in FolderStates
    BY <2>2, FolderFields DEF TypeInv
  <2> DEFINE folder == Closed(folders[call.folder])
  <2>4. folder.objects = <<>>
    BY <2>3, ClosedType
  <2>5. folders' = [g \in Folders |->
                   IF g = call.folder THEN folder ELSE [folders[g] EXCEPT !.overtaken = TRUE]]
    BY <1>1 DEF doneClose
  <2> HIDE DEF folder
  <2>6. TruthInv'
    BY <2>1, <2>2, <2>4, <2>5, AfterClosingTruth DEF ReadIt
  <2> QED
    BY <2>1, <2>6, ReturnStep DEF StepInv, ConfirmedInv
<1>2. CASE doneDestroy
  <2>1. Answered("destroy") /\ ReadIt /\ Return /\ confirmed' = confirmed
    BY <1>2 DEF doneDestroy, history
  <2>2. call.folder \in Folders
    BY <2>1, CallFields DEF TypeInv, CallType, Answered
  <2>3. TruthInv'
    BY <1>2, <2>1, <2>2, NoFolderType, AfterClosingTruth DEF doneDestroy, ReadIt
  <2> QED
    BY <2>1, <2>3, ReturnStep DEF StepInv, ConfirmedInv
<1> QED
  BY <1>1, <1>2

\* The message objects of one folder object change.
LEMMA ObjectsTold ==
  ASSUME TypeInv, StepInv, NEW f \in Folders, NEW new,
         Update(f, [folders[f] EXCEPT !.objects = new]), DOMAIN new = DOMAIN folders[f].objects,
         listed' = listed, marked' = marked, ~Closing, ~Closing',
         \A i \in DOMAIN new : \A doubtful \in BOOLEAN :
           folders[f].fresh /\ Truth(folders[f].objects[i], listed, marked, doubtful) =>
             Truth(new[i], listed, marked, doubtful)
  PROVE  TruthInv'
<1> DEFINE folder == [folders[f] EXCEPT !.objects = new]
<1>1. folders[f] \in FolderStates /\ folders[f].overtaken \in BOOLEAN
  BY FolderFields DEF TypeInv
<1>2. folder.objects = new /\ folder.open = folders[f].open /\ folder.fresh = folders[f].fresh
      /\ folder.overtaken = folders[f].overtaken
  BY <1>1 DEF FolderStates
<1> HIDE DEF folder
<1>3. folders'[f] = folder /\ \A g \in Folders : g # f => folders'[g] = folders[g]
  BY DEF TypeInv, FolderType, Update, folder
<1>4. \A g \in Folders : FolderTruth(folders[g], listed, marked, FALSE)
  BY DEF StepInv, TruthInv, FolderTruth, Truth
<1>5. FolderTruth(folder, listed, marked, FALSE)
  <2> SUFFICES ASSUME folders[f].open, folders[f].fresh, NEW i \in DOMAIN new
               PROVE  Truth(new[i], listed, marked, folders[f].overtaken \/ FALSE)
    BY <1>2 DEF FolderTruth
  <2>1. Truth(folders[f].objects[i], listed, marked, folders[f].overtaken \/ FALSE)
    BY <1>4 DEF FolderTruth
  <2>2. (folders[f].overtaken \/ FALSE) = folders[f].overtaken
    BY <1>1
  <2> QED
    BY <1>1, <2>1, <2>2
<1>6. \A g \in Folders : FolderTruth(folders'[g], listed, marked, FALSE)
  BY <1>3, <1>4, <1>5
<1> QED
  BY <1>6 DEF TruthInv, FolderTruth, Truth

\* The UID that has come is that of the message object's number.
LEMMA DoneFetchStep ==
  ASSUME TypeInv, StepInv, doneFetch
  PROVE  StepInv'
<1> DEFINE f == call.folder
           objects == folders[f].objects
           i == call.object
           uid == Got.uid
           new == [objects EXCEPT ![i] = [objects[i] EXCEPT !.uid = uid]]
           folder == [folders[f] EXCEPT !.objects = new]
<1>1. Answered("fetch") /\ ReadIt /\ Return /\ confirmed' = confirmed
  BY DEF doneFetch, history
<1>2. f \in Folders /\ i \in DOMAIN objects /\ objects \in Seq(Objects) /\ folders[f] \in FolderStates
  BY <1>1, FetchFields, FolderFields DEF TypeInv, Answered
<1>3. objects[i] \in Objects
  BY <1>2
<1>4. CASE ~Got.ok
  <2>1. folders' = folders
    BY <1>4 DEF doneFetch
  <2>2. TruthInv'
    BY <1>1, <2>1, ReturnTruth DEF Kept
  <2> QED
    BY <1>1, <2>2, ReturnStep DEF StepInv, ConfirmedInv
<1>5. CASE Got.ok
  <2>1. uid = Named(objects[i].num, listed)
    <3>1. Replying /\ Got = replies[1]
      BY <1>1, ReadsReply DEF StepInv, Answered
    <3> QED
      BY <1>1, <1>5, <3>1 DEF StepInv, FetchInv, Answered
  <2>2. Update(f, folder)
    BY <1>5 DEF doneFetch
  <2>3. DOMAIN new = DOMAIN objects /\ new[i] = [objects[i] EXCEPT !.uid = uid]
        /\ \A k \in DOMAIN objects : k # i => new[k] = objects[k]
    BY <1>2
  <2>4. new[i].uid = uid /\ new[i].num = objects[i].num /\ new[i].deleted = objects[i].deleted
    BY <1>3, <2>3 DEF Objects
  <2> HIDE DEF new
  <2>5. \A k \in DOMAIN new : \A doubtful \in BOOLEAN :
          Truth(objects[k], listed, marked, doubtful) => Truth(new[k], listed, marked, doubtful)
    <3> TAKE k \in DOMAIN new, doubtful \in BOOLEAN
    <3> QED
      BY <2>1, <2>3, <2>4 DEF Truth
  <2>6. ~Closing /\ ~Closing' /\ listed' = listed /\ marked' = marked
    BY <1>1, IdleSteps DEF Closing, Answered, ReadIt, Return
  <2>7. TruthInv'
    BY <1>2, <2>2, <2>3, <2>5, <2>6, ObjectsTold
  <2> QED
    BY <1>1, <2>7, ReturnStep DEF StepInv, ConfirmedInv
<1> QED
  BY <1>4, <1>5

\* The reply was to the DELE before, whose message is marked.
LEMMA DeleteNextStep ==
  ASSUME TypeInv, StepInv, deleteNext
  PROVE  StepInv'
<1> DEFINE command == Command("DELE", Head(call.rest))
<1>1. command.op = "DELE" /\ command.num = Head(call.rest)
  BY DEF Command
<1> HIDE DEF command
<1>2. /\ call.op = "delete" /\ replies # <<>> /\ Got.ok /\ call.rest # <<>>
      /\ requests' = Append(requests, command) /\ replies' = Tail(replies)
      /\ call' = [call EXCEPT !.rest = remaining(@)]
      /\ UNCHANGED <<folders, marked, listed, maildrop, confirmed>>
  BY DEF deleteNext, Answered, ReadIt, history, command
<1>3. call \in Calls /\ call.rest \in Seq(1..MaxNum)
  BY <1>2, CallFields DEF TypeInv, CallType
<1>4. call'.op = "delete" /\ call'.rest = remaining(call.rest) /\ call'.all = call.all
  BY <1>2, <1>3 DEF Calls
<1>5. Replying /\ ~Asking /\ requests = <<>> /\ Got = replies[1] /\ replies' = <<>>
  BY <1>2, ReadsReply DEF StepInv
<1>6. Len(requests') = 1 /\ requests'[1] = command /\ requests' # <<>>
  BY <1>2, <1>5
<1>7. Asking'
  <2>1. ~IdleNow'
    BY <1>4, IdleFields DEF IdleNow
  <2> QED
    BY <1>1, <1>4, <1>5, <1>6, <2>1 DEF Asking, AwaitedOp
<1>8. DeleteInv'
  <2> SUFFICES ASSUME NEW num \in call.all
               PROVE  \/ num \in ToSet(remaining(call.rest)) \/ command.num = num
                      \/ Named(num, listed) \in marked
    BY <1>2, <1>4, <1>6, <1>7 DEF DeleteInv
  <2>1. num \in ToSet(call.rest) \/ Named(num, listed) \in marked
    BY <1>2, <1>5 DEF StepInv, DeleteInv
  <2> QED
    BY <1>1, <1>2, <1>3, <2>1, FirstOrRest
<1>9. FetchInv' /\ ~Closing /\ ~Closing'
  BY <1>2, <1>4 DEF FetchInv, Closing
<1>10. ConfirmedInv'
  BY <1>2, <1>4, <1>9 DEF StepInv, ConfirmedInv
<1>11. TruthInv'
  BY <1>2, <1>9, TruthKept DEF StepInv, Kept
<1> QED
  BY <1>7, <1>8, <1>9, <1>10, <1>11 DEF StepInv, Exchange

\* All messages of the call are marked: its message objects may say so.
LEMMA DoneDeleteStep ==
  ASSUME TypeInv, StepInv, inStep, doneDelete
  PROVE  StepInv'
<1> DEFINE f == call.folder
           objects == folders[f].objects
           new == markDeleted(objects, call.all)
<1>1. /\ Answered("delete") /\ ReadIt /\ Return /\ Got.ok /\ call.rest = <<>>
      /\ Update(f, [folders[f] EXCEPT !.objects = new])
      /\ confirmed' = IF inStep /\ Fresh(f)
                      THEN confirmed \cup {Meant(f, n) : n \in call.all} ELSE confirmed
  BY DEF doneDelete
<1>2. f \in Folders
  BY <1>1, CallFields DEF TypeInv, CallType, Answered
<1>3. objects \in Seq(Objects)
  BY <1>2, FolderFields DEF TypeInv
<1>4. DOMAIN new = DOMAIN objects
      /\ \A i \in DOMAIN objects :
           /\ new[i].num = objects[i].num /\ new[i].uid = objects[i].uid
           /\ new[i].deleted => objects[i].deleted \/ objects[i].num \in call.all
  <2>1. PICK nums : nums = call.all
    OBVIOUS
  <2>2. new = markDeleted(objects, nums)
    BY <2>1
  <2> HIDE DEF new, objects
  <2>3. /\ DOMAIN new = DOMAIN objects
        /\ \A i \in DOMAIN objects :
             /\ new[i].num = objects[i].num /\ new[i].uid = objects[i].uid
             /\ new[i].deleted = (objects[i].deleted \/ objects[i].num \in nums)
    BY <1>3, <2>2, MarkDeletedType
  <2> QED
    BY <2>1, <2>3
<1>5. \A num \in call.all : Named(num, listed) \in marked
  <2>1. Replying /\ ~Asking /\ Got = replies[1]
    BY <1>1, ReadsReply DEF StepInv, Answered
  <2>2. call.rest = <<>> => ToSet(call.rest) = {}
    BY DEF ToSet
  <2> QED
    BY <1>1, <2>1, <2>2 DEF StepInv, DeleteInv, Answered
<1> HIDE DEF new
<1>6. \A i \in DOMAIN new : \A doubtful \in BOOLEAN :
        Truth(objects[i], listed, marked, doubtful) => Truth(new[i], listed, marked, doubtful)
  <2> TAKE i \in DOMAIN new, doubtful \in BOOLEAN
  <2> QED
    BY <1>4, <1>5 DEF Truth
<1>7. ~Closing /\ ~Closing' /\ listed' = listed /\ marked' = marked
  BY <1>1, IdleSteps DEF Closing, Answered, ReadIt, Return
<1>8. TruthInv'
  BY <1>1, <1>2, <1>4, <1>6, <1>7, ObjectsTold
<1>9. confirmed' \subseteq marked
  <2>1. Fresh(f) => \A n \in call.all : Meant(f, n) \in marked
    BY <1>5 DEF Meant
  <2>2. confirmed \subseteq marked
    BY DEF StepInv, ConfirmedInv
  <2> QED
    BY <1>1, <2>1, <2>2
<1> QED
  BY <1>1, <1>8, <1>9, ReturnStep

\* No message object says that it is deleted.
LEMMA RefusedDeleteStep ==
  ASSUME TypeInv, StepInv, refusedDelete
  PROVE  StepInv'
<1>1. Answered("delete") /\ ReadIt /\ Return /\ confirmed' = confirmed /\ folders' = folders
  BY DEF refusedDelete, afterRefusal, history
<1>2. TruthInv'
  BY <1>1, ReturnTruth DEF Kept
<1> QED
  BY <1>1, <1>2, ReturnStep DEF StepInv, ConfirmedInv

\* Only counts change.
LEMMA DoneStatusStep ==
  ASSUME TypeInv, StepInv, doneStatus
  PROVE  StepInv'
<1>1. Answered("status") /\ ReadIt /\ Return /\ confirmed' = confirmed
  BY DEF doneStatus, history
<1> DEFINE count == countIn(Got)
           told(g) == [folders[g] EXCEPT !.count = count]
<1>2. \A g \in Folders : folders'[g] = told(g) \/ folders'[g] = folders[g]
  BY DEF doneStatus
<1>3. \A g \in Folders : folders[g] \in FolderStates
  BY FolderFields DEF TypeInv
<1>4. \A g \in Folders : /\ told(g).open = folders[g].open /\ told(g).fresh = folders[g].fresh
                         /\ told(g).objects = folders[g].objects
                         /\ told(g).overtaken = folders[g].overtaken
  BY <1>3 DEF FolderStates
<1> HIDE DEF told
<1>5. TruthInv'
  BY <1>1, <1>2, <1>4, ReturnTruth DEF Kept
<1> QED
  BY <1>1, <1>5, ReturnStep DEF StepInv, ConfirmedInv

\* What calls do with replies keeps StepInv.
LEMMA RepliedStep ==
  ASSUME TypeInv, StepInv, inStep, Replied, ~doneDisconnect
  PROVE  StepInv'
  BY DoneOpenStep, DoneCloseStep, DoneFetchStep, DeleteNextStep, DoneDeleteStep, RefusedDeleteStep,
     DoneStatusStep DEF Replied

\* What the reply of the server says, and what is marked when it comes.
LEMMA Served ==
  ASSUME TypeInv, Asking, serve \/ refuse
  PROVE  /\ Len(replies') = 1 /\ requests' = <<>>
         /\ requests[1].op = "UIDL" /\ replies'[1].ok =>
              replies'[1].uid = Named(requests[1].num, listed)
         /\ requests[1].op = "DELE" /\ replies'[1].ok => Named(requests[1].num, listed) \in marked'
         /\ requests[1].op # "RSET" => marked \subseteq marked'
         /\ requests[1].op = "QUIT" => maildrop' \cap marked' = {}
<1> DEFINE request == requests[1]
           message == Named(request.num, listed)
<1>1. requests \in Seq(Commands) /\ Len(requests) = 1 /\ replies = <<>>
  BY DEF TypeInv, MaildropType, Asking
<1>2. Head(requests) = request /\ Tail(requests) = <<>>
  <2>1. Head(requests) = request /\ Tail(requests) \in Seq(Commands) /\ Len(Tail(requests)) = 0
    BY <1>1
  <2>2. \A s \in Seq(Commands) : Len(s) = 0 => s = <<>>
    OBVIOUS
  <2> QED
    BY <2>1, <2>2
<1>3. \A reply : Len(Append(<<>>, reply)) = 1 /\ Append(<<>>, reply)[1] = reply
  OBVIOUS
<1> HIDE DEF request
<1>4. CASE serve
  <2>1. /\ requests' = <<>> /\ replies' = Append(<<>>, Answer(request))
        /\ marked' = Marking(marked, request)
        /\ maildrop' = IF request.op = "QUIT" THEN maildrop \ marked ELSE maildrop
    BY <1>1, <1>2, <1>4 DEF serve
  <2>2. Len(replies') = 1 /\ replies'[1] = Answer(request)
    BY <1>3, <2>1
  <2>3. CASE request.op = "UIDL"
    <3>1. replies'[1].ok => replies'[1].uid = message
      <4>1. CASE There(request.num)
        <5>1. Answer(request) = Reply("UIDL", TRUE, request.num, message)
          BY <2>3, <4>1 DEF Answer
        <5> QED
          BY <2>2, <5>1 DEF Reply
      <4>2. CASE ~There(request.num)
        <5>1. Answer(request) = Reply("UIDL", FALSE, NoCount, NoUid)
          BY <2>3, <4>2 DEF Answer
        <5> QED
          BY <2>2, <5>1 DEF Reply
      <4> QED
        BY <4>1, <4>2
    <3> QED
      BY <2>1, <2>2, <2>3, <3>1 DEF Marking, request
  <2>4. CASE request.op = "DELE"
    <3>1. Answer(request) = Reply("DELE", There(request.num), NoCount, NoUid)
      BY <2>4 DEF Answer
    <3>2. replies'[1].ok = There(request.num)
      BY <2>2, <3>1 DEF Reply
    <3>3. There(request.num) => message # NoUid
      BY DEF There
    <3>4. marked' = IF message # NoUid THEN marked \cup {message} ELSE marked
      BY <2>1, <2>4 DEF Marking
    <3> QED
      BY <2>1, <2>2, <2>4, <3>2, <3>3, <3>4 DEF request
  <2>5. CASE request.op \notin {"UIDL", "DELE"}
    <3>1. request.op = "RSET" \/ marked' = marked
      BY <2>1, <2>5 DEF Marking
    <3> QED
      BY <2>1, <2>2, <2>5, <3>1 DEF request
  <2> QED
    BY <2>3, <2>4, <2>5
<1>5. CASE refuse
  <2>1. /\ requests' = <<>> /\ replies' = Append(<<>>, Reply("DELE", FALSE, NoCount, NoUid))
        /\ marked' = marked /\ request.op = "DELE"
    BY <1>1, <1>2, <1>5 DEF refuse
  <2>2. Len(replies') = 1 /\ replies'[1] = Reply("DELE", FALSE, NoCount, NoUid)
    BY <1>3, <2>1
  <2>3. ~replies'[1].ok
    BY <2>2 DEF Reply
  <2> QED
    BY <2>1, <2>2, <2>3 DEF request
<1> QED
  BY <1>4, <1>5

\* The server answers the one command there is.
LEMMA ServerStep ==
  ASSUME TypeInv, StepInv, Server
  PROVE  StepInv'
<1>1. /\ requests # <<>> /\ listed' = listed /\ (serve \/ refuse)
      /\ UNCHANGED <<folders, call, confirmed>>
  BY DEF Server, serve, refuse, callVars, history
<1>2. Asking /\ ~Replying
  BY <1>1 DEF StepInv, Exchange, Quiet, Asking, Replying
<1>3. call \in Calls /\ call.op # "none" /\ requests[1].op = AwaitedOp(call.op)
  BY <1>2, IdleFields DEF TypeInv, CallType, Asking, IdleNow
<1>4. /\ Len(replies') = 1 /\ requests' = <<>>
      /\ requests[1].op = "UIDL" /\ replies'[1].ok =>
           replies'[1].uid = Named(requests[1].num, listed)
      /\ requests[1].op = "DELE" /\ replies'[1].ok => Named(requests[1].num, listed) \in marked'
      /\ requests[1].op # "RSET" => marked \subseteq marked'
      /\ requests[1].op = "QUIT" => maildrop' \cap marked' = {}
  BY <1>1, <1>2, Served
<1>5. Replying' /\ ~Asking'
  BY <1>1, <1>2, <1>4 DEF Asking, Replying, IdleNow
<1>6. requests[1].op = "RSET" => Closing
  BY <1>3, AwaitedCall DEF Closing
<1>7. FetchInv'
  BY <1>1, <1>2, <1>3, <1>4, <1>5, AwaitedCall DEF StepInv, FetchInv
<1>8. DeleteInv'
  <2> SUFFICES ASSUME call.op = "delete", NEW num \in call.all, num \notin ToSet(call.rest),
                      replies'[1].ok
               PROVE  Named(num, listed) \in marked'
    BY <1>1, <1>5 DEF DeleteInv
  <2>1. requests[1].op = "DELE"
    BY <1>3, AwaitedCall
  <2>2. requests[1].num = num \/ Named(num, listed) \in marked
    BY <1>2 DEF StepInv, DeleteInv
  <2> QED
    BY <1>4, <2>1, <2>2
<1>9. ConfirmedInv'
  <2>1. call.op = "disconnect" => requests[1].op = "QUIT"
    BY <1>3 DEF AwaitedOp
  <2> QED
    BY <1>1, <1>4, <1>6, <2>1 DEF StepInv, ConfirmedInv, Closing
<1>10. TruthInv'
  BY <1>1, <1>4, <1>6, TruthKept DEF StepInv, Kept, Closing
<1> QED
  BY <1>5, <1>7, <1>8, <1>9, <1>10 DEF StepInv, Exchange

\* Message objects from before are of another session.
LEMMA ConnectStep ==
  ASSUME TypeInv, connect, confirmed = {}
  PROVE  StepInv'
<1>1. call' = Idle /\ requests' = <<>> /\ replies' = <<>> /\ confirmed' = {}
  BY DEF connect, NewSession, callVars, IdleNow
<1>2. \A f \in Folders : ~folders'[f].fresh \/ folders'[f].objects = <<>>
  <2> TAKE f \in Folders
  <2>1. folders[f] \in FolderStates
    BY FolderFields DEF TypeInv
  <2>2. CASE Live(f)
    <3>1. folders'[f] = [folders[f] EXCEPT !.fresh = FALSE]
      BY <2>2 DEF connect
    <3> QED
      BY <2>1, <3>1 DEF FolderStates
  <2>3. CASE ~Live(f)
    <3>1. folders'[f] = NoFolder
      BY <2>3 DEF connect
    <3> QED
      BY <3>1, NoFolderType
  <2> QED
    BY <2>2, <2>3
<1>3. TruthInv'
  <2>1. DOMAIN <<>> = {}
    OBVIOUS
  <2> QED
    BY <1>2, <2>1 DEF TruthInv, FolderTruth
<1>4. Exchange'
  BY <1>1 DEF Exchange, Quiet, IdleNow
<1> QED
  BY <1>1, <1>3, <1>4, IdleSteps DEF StepInv

\* QUIT is sent, and the folder objects lose their store.
LEMMA DisconnectStep ==
  ASSUME TypeInv, StepInv, disconnect
  PROVE  StepInv'
<1> DEFINE newCall == [op |-> "disconnect"]
           gone(f) == [onStoreDisconnected(folders[f]) EXCEPT !.left = TRUE]
<1>1. newCall.op = "disconnect" /\ "QUIT" = AwaitedOp("disconnect")
  BY DEF AwaitedOp
<1>2. IdleNow /\ Sent(Command("QUIT", 0), newCall) /\ confirmed' = confirmed
  BY DEF disconnect, history
<1>3. \A f \in Folders : folders'[f] = gone(f) \/ folders'[f] = folders[f]
  BY DEF disconnect
<1>4. \A f \in Folders : folders[f] \in FolderStates
  BY FolderFields DEF TypeInv
<1>5. \A f \in Folders : /\ gone(f).open = folders[f].open /\ gone(f).fresh = folders[f].fresh
                         /\ gone(f).objects = folders[f].objects
                         /\ gone(f).overtaken = folders[f].overtaken
  BY <1>4 DEF FolderStates, onStoreDisconnected
<1> HIDE DEF gone, newCall
<1>6. \A f \in Folders : Kept(folders'[f], folders[f])
  BY <1>3, <1>5 DEF Kept
<1> QED
  BY <1>1, <1>2, <1>6, SentStep

\* Every step keeps InStepInv.
LEMMA StepNext ==
  ASSUME TypeInv, InStepInv, [Next]_vars
  PROVE  InStepInv'
<1>1. CASE connect
  <2>1. ~up /\ confirmed = {} /\ up'
    BY <1>1 DEF connect, NewSession, InStepInv
  <2> QED
    BY <1>1, <2>1, ConnectStep DEF InStepInv
<1>2. CASE connectionLost \/ doneDisconnect
  BY <1>2 DEF connectionLost, doneDisconnect, leave, Forget, InStepInv
<1>3. CASE timeOut
  <2>1. up /\ up' = up /\ ~inStep'
    BY <1>3 DEF timeOut, maildropVars, TypeInv, MaildropType, IdleNow
  <2> QED
    BY <2>1 DEF InStepInv
<1>4. CASE OtherMail
  BY <1>4 DEF OtherMail, arrive, vanish, OtherStep, history, InStepInv
<1>5. ASSUME up' = up, inStep' = inStep, ~up => confirmed' = confirmed, up /\ inStep /\ StepInv => StepInv'
      PROVE  InStepInv'
  BY <1>5 DEF InStepInv
<1>6. CASE disconnect
  BY <1>6, <1>5, DisconnectStep DEF disconnect, Sent, history
<1>7. ASSUME NEW f \in Folders, FolderCalls(f)
      PROVE  InStepInv'
  <2>1. up' = up /\ inStep' = inStep
    BY <1>7 DEF FolderCalls, getFolder, open, getStatus, destroy, getMessage, close, fetchMessage,
                deleteMessages, Sent, maildropVars, history
  <2>2. ~up => confirmed' = confirmed
    BY <1>7 DEF FolderCalls, getFolder, open, getStatus, destroy, getMessage, close, fetchMessage,
                deleteMessages, Sent, history, sendsRset
  <2> QED
    BY <1>5, <1>7, <2>1, <2>2, FolderCallsStep
<1>8. CASE Replied /\ ~doneDisconnect
  <2>1. up' = up /\ inStep' = inStep /\ replies # <<>>
    BY <1>8 DEF Replied, doneOpen, doneClose, doneDestroy, doneFetch, deleteNext, doneDelete,
                refusedDelete, doneStatus, ReadIt, history, Answered
  <2>2. up
    BY <2>1 DEF TypeInv, MaildropType
  <2> QED
    BY <1>5, <1>8, <2>1, <2>2, RepliedStep
<1>9. CASE Server
  BY <1>9, <1>5, ServerStep DEF Server, serve, refuse, history
<1>10. CASE UNCHANGED vars
  <2>1. InStepInv' = InStepInv
    BY <1>10 DEF vars, maildropVars, callVars, history, InStepInv, StepInv, Exchange, Quiet, Asking,
                 Replying, IdleNow, FetchInv, DeleteInv, ConfirmedInv, TruthInv, Closing
  <2> QED
    BY <2>1
<1> QED
  BY <1>1, <1>2, <1>3, <1>4, <1>6, <1>7, <1>8, <1>9, <1>10 DEF Next, Replied

\* While no reply is late, each reply is read by the call that waits for it.
THEOREM StepInvariance == Spec => []InStepInv
<1>1. Init => InStepInv
  BY DEF Init, MaildropInit, InStepInv
<1>2. TypeInv /\ InStepInv /\ [Next]_vars => InStepInv'
  BY StepNext
<1> QED
  BY <1>1, <1>2, POP3Invariance, PTL DEF Spec

\* What deleteMessages has confirmed is gone once the store has disconnected.
THEOREM ConfirmedDeletionsHappen == Spec => ConfirmedIsGone
<1>1. TypeInv /\ InStepInv /\ [Next]_vars =>
        [doneDisconnect /\ inStep => confirmed \cap maildrop' = {}]_vars
  <2> SUFFICES ASSUME TypeInv, InStepInv, doneDisconnect, inStep
               PROVE  confirmed \cap maildrop' = {}
    OBVIOUS
  <2>1. replies # <<>> /\ call.op = "disconnect" /\ maildrop' \subseteq maildrop
    BY DEF doneDisconnect, leave
  <2>2. StepInv
    BY <2>1 DEF TypeInv, MaildropType, InStepInv
  <2>3. requests = <<>>
    BY <2>1, <2>2, ReadsReply DEF StepInv
  <2> QED
    BY <2>1, <2>2, <2>3 DEF StepInv, ConfirmedInv
<1> QED
  BY <1>1, POP3Invariance, StepInvariance, PTL DEF Spec, ConfirmedIsGone

\* Message objects have the UID of their message or none, and one that shows
\* FLAG_DELETED stands for a message that the server has marked.
THEOREM MessageObjectsTellTruth == Spec => []ObjectsTellTruth
<1>1. TypeInv /\ InStepInv => ObjectsTellTruth
  <2> SUFFICES ASSUME InStepInv, IdleNow, up, inStep, NEW f \in Folders,
                      folders[f].open, Fresh(f), NEW i \in DOMAIN folders[f].objects
               PROVE  Truth(folders[f].objects[i], listed, marked, folders[f].overtaken)
    BY DEF ObjectsTellTruth, Truth
  <2>1. ~Closing
    BY IdleFields DEF Closing, IdleNow
  <2>2. FolderTruth(folders[f], listed, marked, Closing)
    BY DEF InStepInv, StepInv, TruthInv
  <2> QED
    BY <2>1, <2>2 DEF FolderTruth, Fresh, Truth
<1> QED
  BY <1>1, POP3Invariance, StepInvariance, PTL
=============================================================================
