---------------------------- MODULE IMAPMailbox ----------------------------
(***************************************************************************)
(* The other end of an IMAP folder: a mailbox on a server, the changes     *)
(* that other clients make to it, and the session of our folder with it    *)
(* (RFC 3501).  The server answers commands in the order they come; before *)
(* it completes one it may tell the client about changes of the mailbox,   *)
(* which until then keeps the message numbers it had.                      *)
(*                                                                         *)
(* UIDs ascend in the order of arrival, so a mailbox is a set of UIDs and  *)
(* the number of a message is its rank in the set the client was told.     *)
(***************************************************************************)
EXTENDS Integers, Sequences, FiniteSets

CONSTANTS MaxUid, InitialUids, MaxWire, MaxOthers   \* bounds of a run

ASSUME MailboxAssumption ==
  /\ InitialUids \in Nat /\ MaxUid \in Nat /\ InitialUids <= MaxUid
  /\ MaxWire \in Nat /\ MaxOthers \in Nat

VARIABLES
  mailbox,        \* the UIDs of the messages there are
  marked,         \* those with the flag \Deleted
  nextUid,
  others,         \* changes made by other clients
  told,           \* the messages the session has been told of and not told gone
  toldCount,      \* the number in the last EXISTS response
  requests,       \* commands sent and not completed
  stage,          \* how far the first of them is: "new", "told", "literal", "performed"
  wire            \* lines the server has sent and the client has not read

mailVars == <<mailbox, marked, nextUid, others>>
sessionVars == <<told, toldCount, requests, stage, wire>>
mailboxVars == <<mailVars, sessionVars>>

Uids == 1..MaxUid
NoUid == 0

NumberOf(uid, view) == Cardinality({u \in view : u <= uid})
Named(num, view) == CHOOSE u \in view : NumberOf(u, view) = num

\* Responses.  uid is what the server means, withUid whether it says so; view
\* and op are history: the messages that the client knows of once it has read the
\* line, and the command that it completes.
Exists(n, view) == [kind |-> "EXISTS", num |-> n, view |-> view]
Expunged(n, uid, view) == [kind |-> "EXPUNGE", num |-> n, uid |-> uid, view |-> view]
Fetch(n, uid, withUid) ==
  [kind |-> "FETCH", num |-> n, uid |-> uid, withUid |-> withUid, view |-> told]
Status(n) == [kind |-> "STATUS", num |-> n, view |-> told]
Continue == [kind |-> "CONTINUE", view |-> told]
Done(request, ok) ==
  [kind |-> "DONE", tag |-> request.tag, op |-> request.op, ok |-> ok, view |-> told]

Send(line) == Len(wire) < MaxWire /\ wire' = Append(wire, line)
Request == Head(requests)
ServerAt(s) == requests # <<>> /\ stage = s

\* During these commands the server keeps expunged messages to itself.
NumberedOps == {"STORE", "FETCH", "SEARCH"}
UidOps == {"UID STORE", "UID FETCH"}

\* The message of an APPEND, which follows it as a request of its own.
Literal == [op |-> "DATA", tag |-> 0, num |-> 0, uid |-> NoUid, meant |-> NoUid]

MailboxInit ==
  /\ mailbox = 1..InitialUids /\ marked = {} /\ nextUid = InitialUids + 1 /\ others = 0
  /\ told = {} /\ toldCount = 0 /\ requests = <<>> /\ stage = "new" /\ wire = <<>>

NoSession ==
  /\ told' = {} /\ toldCount' = 0 /\ requests' = <<>> /\ stage' = "new" /\ wire' = <<>>

-----------------------------------------------------------------------------
tellExists ==
  /\ requests # <<>>
  /\ mailbox \ told # {} \/ toldCount # Cardinality(told)
  /\ told' = told \cup mailbox
  /\ toldCount' = Cardinality(told')
  /\ Send(Exists(toldCount', told'))
  /\ UNCHANGED <<mailVars, requests, stage>>

tellExpunged ==
  /\ requests # <<>>
  /\ Request.op \notin NumberedOps
  /\ \E uid \in told \ mailbox :
       /\ told' = told \ {uid}
       /\ Send(Expunged(NumberOf(uid, told), uid, told'))
  /\ UNCHANGED <<mailVars, toldCount, requests, stage>>

\* The message that STORE or FETCH names: a number counts in told.
Target ==
  IF Request.op \in UidOps
  THEN {Request.uid} \cap told
  ELSE {u \in told : NumberOf(u, told) = Request.num}

performStore ==
  /\ ServerAt("new") /\ Request.op \in {"STORE", "UID STORE"}
  /\ marked' = marked \cup (Target \cap mailbox)
  /\ stage' = "told"
  /\ UNCHANGED <<mailbox, nextUid, others, told, toldCount, requests, wire>>

performFetch ==
  /\ ServerAt("new") /\ Request.op \in {"FETCH", "UID FETCH"}
  /\ stage' = "told"
  /\ UNCHANGED <<mailVars, told, toldCount, requests, wire>>

\* The response to either: one FETCH line per message that is still there.
tellTarget ==
  /\ ServerAt("told")
  /\ IF Target \cap mailbox = {} THEN UNCHANGED wire
     ELSE LET uid == CHOOSE u \in Target : TRUE
          IN Send(Fetch(NumberOf(uid, told), uid, Request.op # "STORE"))
  /\ stage' = "performed"
  /\ UNCHANGED <<mailVars, told, toldCount, requests>>

performExpunge ==
  /\ ServerAt("new") /\ Request.op = "EXPUNGE"
  /\ mailbox' = mailbox \ marked /\ marked' = {}
  /\ stage' = "performed"
  /\ UNCHANGED <<nextUid, others, told, toldCount, requests, wire>>

performAppend ==
  /\ ServerAt("new") /\ Request.op = "APPEND"
  /\ Send(Continue)
  /\ stage' = "literal"
  /\ UNCHANGED <<mailVars, told, toldCount, requests>>

takeLiteral ==
  /\ ServerAt("literal")
  /\ Len(requests) > 1
  /\ nextUid <= MaxUid
  /\ mailbox' = mailbox \cup {nextUid} /\ nextUid' = nextUid + 1
  /\ requests' = <<Request>> \o SubSeq(requests, 3, Len(requests))
  /\ stage' = "performed"
  /\ UNCHANGED <<marked, others, told, toldCount, wire>>

refuseLiteral ==
  /\ ServerAt("literal")
  /\ Len(requests) > 1
  /\ Send(Done(Request, FALSE))
  /\ requests' = SubSeq(requests, 3, Len(requests)) /\ stage' = "new"
  /\ UNCHANGED <<mailVars, told, toldCount>>

performStatus ==
  /\ ServerAt("new") /\ Request.op = "STATUS"
  /\ Send(Status(Cardinality(mailbox)))
  /\ stage' = "performed"
  /\ UNCHANGED <<mailVars, told, toldCount, requests>>

performOther ==
  /\ ServerAt("new") /\ Request.op \in {"NOOP", "LIST", "COPY", "SEARCH"}
  /\ stage' = "performed"
  /\ UNCHANGED <<mailVars, told, toldCount, requests, wire>>

Completed(ok) ==
  /\ Send(Done(Request, ok))
  /\ requests' = Tail(requests) /\ stage' = "new"
  /\ UNCHANGED <<mailVars, told, toldCount>>

\* EXPUNGE is not complete before each message it removed has been told.
complete ==
  /\ ServerAt("performed")
  /\ Request.op = "EXPUNGE" => told \subseteq mailbox
  /\ Completed(TRUE)

refuse == ServerAt("new") /\ Completed(FALSE)

Server ==
  \/ tellExists \/ tellExpunged
  \/ performStore \/ performFetch \/ tellTarget \/ performExpunge \/ performAppend
  \/ takeLiteral \/ refuseLiteral \/ performStatus \/ performOther \/ complete \/ refuse

-----------------------------------------------------------------------------
\* Other clients.  What they do while no command is with the server shows only
\* when the next one is; they act when the server turns to a command.
OtherStep == ServerAt("new") /\ others < MaxOthers /\ others' = others + 1

arrive ==
  /\ OtherStep
  /\ nextUid <= MaxUid
  /\ mailbox' = mailbox \cup {nextUid} /\ nextUid' = nextUid + 1
  /\ UNCHANGED <<marked, sessionVars>>

vanish ==
  /\ OtherStep
  /\ \E uid \in mailbox : mailbox' = mailbox \ {uid} /\ marked' = marked \ {uid}
  /\ UNCHANGED <<nextUid, sessionVars>>

OtherClients == arrive \/ vanish
=============================================================================
