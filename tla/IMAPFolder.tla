----------------------------- MODULE IMAPFolder -----------------------------
(***************************************************************************)
(* An IMAP folder object on a connection of its own (classes IMAPFolder,   *)
(* IMAPMessage, IMAPConnection::sendCommand and IMAPParser::readResponse). *)
(* The folder numbers messages as the server does and keeps the numbers of *)
(* the message objects it has handed out, and the message count, up to     *)
(* date from whatever the server says in its responses.                    *)
(*                                                                         *)
(* Calls are synchronous: each sends one command and reads lines until the *)
(* one that bears its tag, or until it times out.                          *)
(***************************************************************************)
EXTENDS IMAPMailbox

CONSTANTS
  PlainOps,                        \* commands without an argument
  TimeoutOps,                      \* commands whose reply may be late
  MaxOpens, MaxTag, MaxObjects     \* bounds of a run

\* noop, copyMessages, the searches, expunge; getStatus, getFolders.
ASSUME FolderAssumption ==
  /\ PlainOps \subseteq {"NOOP", "COPY", "SEARCH", "EXPUNGE", "STATUS", "LIST"}
  /\ MaxOpens \in Nat /\ MaxTag \in Nat /\ MaxObjects \in Nat

VARIABLES
  connected,          \* the folder's own connection is up
  m_open, m_mode,
  m_count,            \* m_status->getMessageCount()
  m_messages,         \* the message objects registered with the folder
  m_tag,
  call,               \* the running call, or Idle
  response,           \* the lines read so far of the response
  opens,
  view, missed        \* history, below

folderVars == <<m_open, m_mode, m_count, m_messages>>
connectionVars == <<connected, m_tag>>
callVars == <<call, response, opens>>
history == <<view, missed>>
vars == <<connectionVars, folderVars, callVars, history, mailboxVars>>

(***************************************************************************)
(* view is what the responses read so far say the mailbox is; missed is    *)
(* set when the folder does not act on all of a response that says more.   *)
(***************************************************************************)

Idle == [op |-> "none"]
IdleNow == call = Idle

\* id is history: the message that the object was made for.
Objects == [num : Nat, uid : Uids \cup {NoUid}, expunged : BOOLEAN, id : Uids \cup {NoUid}]
Object(num, uid, id) == [num |-> num, uid |-> uid, expunged |-> FALSE, id |-> id]

Init ==
  /\ MailboxInit
  /\ connected = FALSE /\ m_tag = 0
  /\ m_open = FALSE /\ m_mode = "none" /\ m_count = 0 /\ m_messages = <<>>
  /\ call = Idle /\ response = <<>> /\ opens = 0
  /\ view = {} /\ missed = FALSE

-----------------------------------------------------------------------------
(***************************************************************************)
(* processStatusUpdate                                                     *)
(***************************************************************************)
\* Slip: the comparison is the wrong way round.
afterExpunge_WrongWay(object, num) ==
  IF object.num = num THEN [object EXCEPT !.expunged = TRUE]
  ELSE IF object.num < num THEN [object EXCEPT !.num = @ - 1]
  ELSE object
\* Slip: a number above the expunged one stays as it is.
afterExpunge_Kept(object, num) == [object EXCEPT !.expunged = @ \/ object.num = num]
afterExpunge(object, num) ==
  IF object.num = num THEN [object EXCEPT !.expunged = TRUE]
  ELSE IF object.num > num THEN [object EXCEPT !.num = @ - 1]
  ELSE object

\* Slip: the UID goes to every object.
processFetchResponse_AnyObject(object, line) ==
  IF line.withUid THEN [object EXCEPT !.uid = line.uid] ELSE object
\* Expunged objects keep their number and are told as well.
processFetchResponse(object, line) ==
  IF line.withUid /\ object.num = line.num THEN [object EXCEPT !.uid = line.uid] ELSE object

\* What the loop over the lines of a response does with one message object.
afterLine(object, line) ==
  CASE line.kind = "EXPUNGE" -> afterExpunge(object, line.num)
    [] line.kind = "FETCH"   -> processFetchResponse(object, line)
    [] OTHER -> object

processUntagged(object) ==
  LET after[n \in 0..Len(response)] ==
        IF n = 0 THEN object ELSE afterLine(after[n - 1], response[n])
  IN after[Len(response)]

\* The count, when the folder looks at lines of these kinds.
updateFromResponse(kinds) ==
  LET count[n \in 0..Len(response)] ==
        IF n = 0 THEN m_count
        ELSE IF response[n].kind \in kinds THEN response[n].num ELSE count[n - 1]
  IN count[Len(response)]

processStatusUpdate(objects) ==
  /\ m_count' = updateFromResponse({"EXISTS", "STATUS"})
  /\ m_messages' = [i \in DOMAIN objects |-> processUntagged(objects[i])]

\* Slip: messages are announced when there are more than one new.
Added_MoreThanOne(oldCount, expunged, count) ==
  IF oldCount >= expunged /\ count > oldCount - expunged + 1
  THEN (oldCount - expunged)..count ELSE {}

\* The numbers of the ADDED event.  The subtraction is one of size_t: below
\* zero it is larger than any count.
Added(oldCount, expunged, count) ==
  IF oldCount >= expunged /\ count > oldCount - expunged
  THEN (oldCount - expunged)..count ELSE {}

\* History, when the response is over.
Learn == view' = IF response = <<>> THEN view ELSE response[Len(response)].view
Miss == Learn /\ missed' = (missed \/ \E i \in DOMAIN response : response[i].view # view)

-----------------------------------------------------------------------------
(***************************************************************************)
(* open and close                                                          *)
(***************************************************************************)
Reset == call' = Idle /\ response' = <<>>

NewConnection ==
  /\ m_tag' = 0
  /\ requests' = <<>> /\ stage' = "new" /\ wire' = <<>>

\* The response to SELECT; the message objects are those of the session
\* before, if it was lost and not closed.
Selected ==
  /\ told' = mailbox /\ toldCount' = Cardinality(mailbox)
  /\ m_count' = toldCount'
  /\ view' = mailbox
  /\ missed' = (missed \/ m_messages # <<>>)

open(mode) ==
  /\ IdleNow /\ ~connected
  /\ opens < MaxOpens /\ opens' = opens + 1
  /\ Selected
  /\ NewConnection
  /\ connected' = TRUE /\ m_open' = TRUE /\ m_mode' = mode
  /\ UNCHANGED <<m_messages, call, response, mailVars>>

\* The count is taken over before the access mode is looked at
\* (failIfModeIsNotAvailable); getStatus of a folder that is not open takes it
\* over the connection of the store.
countsWhileClosed ==
  /\ IdleNow /\ ~connected
  /\ opens < MaxOpens /\ m_count # Cardinality(mailbox)
  /\ m_count' = Cardinality(mailbox)
  /\ UNCHANGED <<m_open, m_mode, m_messages, connectionVars, callVars, history, mailboxVars>>

\* The reply to CLOSE is not waited for: whether the server has carried it out
\* nobody knows.
close(expunging) ==
  /\ IdleNow /\ connected /\ m_open
  /\ expunging => m_mode # "ro"
  /\ connected' = FALSE
  /\ m_open' = FALSE /\ m_mode' = "none" /\ m_count' = 0 /\ m_messages' = <<>>
  /\ NewConnection /\ told' = {} /\ toldCount' = 0
  /\ view' = {} /\ missed' = FALSE
  /\ \/ expunging /\ mailbox' = mailbox \ marked /\ marked' = {}
     \/ UNCHANGED <<mailbox, marked>>
  /\ UNCHANGED <<callVars, nextUid, others>>

\* The server closes the connection: a call that is reading throws, and the
\* folder remains open, but for close(), which now refuses.
connectionLost ==
  /\ connected /\ wire = <<>>
  /\ connected' = FALSE
  /\ NewConnection /\ told' = {} /\ toldCount' = 0
  /\ Miss /\ Reset
  /\ UNCHANGED <<folderVars, opens, mailVars>>

-----------------------------------------------------------------------------
(***************************************************************************)
(* Calls that send a command.  meant is history: the message the caller    *)
(* means, when the folder has missed nothing and no command that timed out *)
(* is still with the server.                                               *)
(***************************************************************************)
Means(num) == IF ~missed /\ num \in 1..Cardinality(view) THEN Named(num, view) ELSE NoUid
UpToDate == ~missed /\ requests = <<>> /\ told = view
MeantBy(num) == IF UpToDate THEN Means(num) ELSE NoUid
MeantObject(object) == IF UpToDate /\ ~object.expunged THEN object.id ELSE NoUid

\* then says what becomes of the response.
sendCommand(op, num, uid, meant, then) ==
  /\ IdleNow /\ connected
  /\ m_tag < MaxTag /\ m_tag' = m_tag + 1
  /\ requests' = Append(requests, [op |-> op, tag |-> m_tag', num |-> num, uid |-> uid, meant |-> meant])
  /\ call' = [op |-> op, tag |-> m_tag', then |-> then]
  /\ response' = <<>>
  /\ UNCHANGED <<connected, folderVars, opens, history, mailVars, told, toldCount, stage, wire>>

Treatment(op) == IF op \in {"STATUS", "LIST"} THEN "drop" ELSE "update"

plainCall(op) ==
  /\ m_open
  /\ op = "EXPUNGE" => m_mode # "ro"
  /\ sendCommand(op, 0, NoUid, NoUid, Treatment(op))

addMessage == m_open /\ m_mode # "ro" /\ sendCommand("APPEND", 0, NoUid, NoUid, "update")

\* setMessageFlags of the folder does not ask whether it is open or writable;
\* deleteMessages does.
setMessageFlags(num) == sendCommand("STORE", num, NoUid, MeantBy(num), "update")
deleteMessages(num) == m_open /\ m_mode # "ro" /\ setMessageFlags(num)

\* IMAPMessage::setFlags.
setFlags(object) ==
  IF object.uid # NoUid
  THEN sendCommand("UID STORE", 0, object.uid, MeantObject(object), "update")
  ELSE sendCommand("STORE", object.num, NoUid, MeantObject(object), "update")

\* That the new data goes to the object first and through processStatusUpdate
\* then comes to the same.
fetchMessages(object) == m_open /\ sendCommand("FETCH", object.num, NoUid, NoUid, "update")

\* getMessages and getAndFetchMessages take a set of numbers or of UIDs.
Get(then) ==
  /\ m_open /\ Len(m_messages) < MaxObjects
  /\ \/ \E num \in 1..m_count : sendCommand("FETCH", num, NoUid, NoUid, then)
     \/ \E uid \in view : sendCommand("UID FETCH", 0, uid, NoUid, then)
getMessages == Get("get")
getAndFetchMessages == Get("get and update")

\* A new object for a number; nothing is sent.
getMessage(num) ==
  /\ IdleNow /\ m_open
  /\ num \in 1..m_count
  /\ Len(m_messages) < MaxObjects
  /\ m_messages' = Append(m_messages, Object(num, NoUid, Means(num)))
  /\ UNCHANGED <<connectionVars, m_open, m_mode, m_count, callVars, history, mailboxVars>>

-----------------------------------------------------------------------------
(***************************************************************************)
(* readResponse and what each call does with the response                  *)
(***************************************************************************)
Reading == ~IdleNow /\ wire # <<>>
Line == Head(wire)
Next1Line == wire' = Tail(wire) /\ UNCHANGED <<told, toldCount, requests, stage, mailVars>>
Untagged(line) == line.kind \notin {"DONE", "CONTINUE"}

readUntagged ==
  /\ Reading /\ Untagged(Line)
  /\ Next1Line
  /\ response' = Append(response, Line)
  /\ UNCHANGED <<call, opens, folderVars, connectionVars, history>>

\* Slip: whatever completes a command completes this one.
isOurs_AnyTag(line) == TRUE
isOurs(line) == line.tag = call.tag

\* A reply to another command is put aside with the lines before it, and the
\* loop goes on.  It would be looked at if its tag came again, which is after
\* 51998 more commands.
parkResponse ==
  /\ Reading /\ Line.kind = "DONE" /\ ~isOurs(Line)
  /\ Next1Line
  /\ response' = <<>>
  /\ Miss
  /\ UNCHANGED <<call, opens, folderVars, connectionVars>>

\* "+" is taken whoever it is for; to any other call it is an error.
continueAppend ==
  /\ Reading /\ Line.kind = "CONTINUE" /\ call.op = "APPEND"
  /\ wire' = Tail(wire)
  /\ requests' = Append(requests, Literal)
  /\ processStatusUpdate(m_messages) /\ Learn
  /\ response' = <<>>
  /\ UNCHANGED <<call, opens, m_open, m_mode, connectionVars, missed, told, toldCount, stage,
                 mailVars>>

OurReply(ok) ==
  /\ Reading /\ Line.kind = "DONE" /\ isOurs(Line) /\ Line.ok = ok
  /\ Next1Line
  /\ Reset
  /\ UNCHANGED <<opens, connectionVars, m_open, m_mode>>

\* A refusal throws, and the lines before it go with the response.
refused ==
  /\ OurReply(FALSE)
  /\ Miss
  /\ UNCHANGED <<m_count, m_messages>>

done ==
  /\ OurReply(TRUE)
  /\ call.then = "update"
  /\ processStatusUpdate(m_messages) /\ Learn
  /\ UNCHANGED missed

\* getStatus takes the count from the STATUS line and looks at nothing else;
\* getFolders looks at LIST lines.
doneUnscanned ==
  /\ OurReply(TRUE)
  /\ call.then = "drop"
  /\ m_count' = updateFromResponse({"STATUS"})
  /\ Miss
  /\ UNCHANGED m_messages

\* New objects for the FETCH lines that give a UID, with the numbers that
\* these lines bear.
Fetched ==
  LET objects[n \in 0..Len(response)] ==
        IF n = 0 THEN <<>>
        ELSE LET line == response[n] IN
             IF line.kind = "FETCH" /\ line.withUid
             THEN Append(objects[n - 1], Object(line.num, line.uid, line.uid))
             ELSE objects[n - 1]
  IN objects[Len(response)]

doneGetMessages ==
  /\ OurReply(TRUE)
  /\ call.then = "get"
  /\ m_messages' = m_messages \o Fetched
  /\ Miss
  /\ UNCHANGED m_count

\* The new objects are told of every EXPUNGE line of the response, of those
\* too that came before their number was.
doneGetAndFetch ==
  /\ OurReply(TRUE)
  /\ call.then = "get and update"
  /\ processStatusUpdate(m_messages \o Fetched) /\ Learn
  /\ missed' = (missed \/ \E i, j \in DOMAIN response :
                  i < j /\ response[i].kind = "EXPUNGE" /\ response[j].kind = "FETCH")

timeOut ==
  /\ ~IdleNow /\ call.op \in TimeoutOps
  /\ Reset
  /\ Miss
  /\ UNCHANGED <<opens, folderVars, connectionVars, mailboxVars>>

-----------------------------------------------------------------------------
\* "+" to a call that did not ask for it cannot happen while addMessage does
\* not time out (TimeoutOps).
Calls ==
  \/ \E mode \in {"ro", "rw"} : open(mode)
  \/ countsWhileClosed
  \/ \E expunging \in BOOLEAN : close(expunging)
  \/ \E op \in PlainOps : plainCall(op)
  \/ addMessage
  \/ \E num \in 1..Cardinality(view) : deleteMessages(num) \/ setMessageFlags(num)
  \/ \E i \in DOMAIN m_messages : fetchMessages(m_messages[i]) \/ setFlags(m_messages[i])
  \/ getMessages \/ getAndFetchMessages
  \/ \E num \in 1..m_count : getMessage(num)

Reads ==
  \/ readUntagged \/ parkResponse \/ continueAppend \/ refused \/ done \/ doneUnscanned
  \/ doneGetMessages \/ doneGetAndFetch

\* A call reads what there is to read before anything else happens: reading
\* changes nothing that the server looks at.
Environment ==
  /\ IdleNow \/ wire = <<>>
  /\ Server \/ OtherClients
  /\ UNCHANGED <<connectionVars, folderVars, callVars, history>>

Next == Calls \/ Reads \/ timeOut \/ connectionLost \/ Environment

Spec == Init /\ [][Next]_vars

-----------------------------------------------------------------------------
(***************************************************************************)
(* What must hold                                                          *)
(***************************************************************************)
TypeOK ==
  /\ mailbox \subseteq Uids /\ marked \subseteq mailbox /\ nextUid \in 1..MaxUid + 1
  /\ told \subseteq Uids /\ toldCount \in Nat /\ stage \in {"new", "told", "literal", "performed"}
  /\ connected \in BOOLEAN /\ m_open \in BOOLEAN /\ m_mode \in {"none", "ro", "rw"}
  /\ m_count \in Nat /\ m_messages \in Seq(Objects)
  /\ m_tag \in 0..MaxTag /\ opens \in 0..MaxOpens
  /\ view \subseteq Uids /\ missed \in BOOLEAN

\* Between calls the number of a message object that is not expunged is the
\* rank of its message in the mailbox as the server has described it, and an
\* object is marked expunged only for a message that is gone: through expunges
\* of our own and of others, reported in any response and in any order, as
\* long as the folder has acted on every response.
NumberNamesMessage ==
  IdleNow /\ ~missed =>
    \A i \in DOMAIN m_messages :
      LET object == m_messages[i] IN
      object.id # NoUid =>
        IF object.expunged THEN object.id \notin view
        ELSE object.id \in view /\ NumberOf(object.id, view) = object.num

\* The UID that a live message object has learnt is that of its own message.
UidNamesMessage ==
  ~missed =>
    \A i \in DOMAIN m_messages :
      LET object == m_messages[i] IN
      object.id # NoUid /\ ~object.expunged => object.uid \in {NoUid, object.id}

\* STORE marks the message that the caller meant: between sending a number and
\* the server's counting to it no message before it goes away.
StoreMarksMeant ==
  [][\A uid \in marked' \ marked : Request.meant # NoUid => uid = Request.meant]_vars

\* A call that has not failed for want of a reply returns when the server has
\* done with its command, and not on the late reply to a call that timed out.
ReturnsWhenDone ==
  [][~IdleNow /\ call' = Idle /\ wire' # wire /\ connected' =>
       \A i \in DOMAIN requests : requests[i].tag # call.tag]_vars

\* When a response tells of new messages, the ADDED event has their numbers
\* among those it gives to the listeners of the folder, if the count was right
\* before and the response has no EXPUNGE, which does not lower it: after one a
\* message that arrives is not announced (processStatusUpdate).
NewMessagesAnnounced ==
  [][/\ done \/ continueAppend \/ doneGetAndFetch
     /\ ~missed /\ m_count = Cardinality(view)
     /\ ~\E i \in DOMAIN response : response[i].kind = "EXPUNGE"
     => \A uid \in view' \ view : NumberOf(uid, view') \in Added(m_count, 0, m_count')]_vars
=============================================================================
