---------------------------- MODULE POP3Maildrop ----------------------------
(***************************************************************************)
(* The other end of a POP3 store: a maildrop and the server's session with *)
(* one connection (RFC 1939).  A session numbers the messages that are     *)
(* there when it begins, and keeps these numbers; DELE marks, RSET takes   *)
(* all marks back, and only QUIT removes what is marked.  Replies bear no  *)
(* tag: the client knows which command one answers by counting.            *)
(***************************************************************************)
EXTENDS Integers, Sequences, FiniteSets

CONSTANTS MaxUid, InitialUids, MaxOthers     \* bounds of a run

ASSUME MaildropAssumption ==
  InitialUids \in Nat /\ MaxUid \in Nat /\ InitialUids <= MaxUid /\ MaxOthers \in Nat

VARIABLES
  maildrop,     \* the messages there are, by UIDL; later ones have higher UIDs
  nextUid,
  others,       \* changes made by others
  up,           \* there is a session
  listed,       \* the messages the session has numbered
  marked,       \* those of them that DELE has marked
  requests,     \* commands sent and not yet carried out
  replies       \* replies sent and not yet read

maildropVars == <<maildrop, nextUid, others, up, listed, marked, requests, replies>>

Uids == 1..MaxUid
NoUid == 0
NoCount == 0 - 1

Number(uid, view) == Cardinality({u \in view : u <= uid})
Named(num, view) ==
  IF num \in 1..Cardinality(view) THEN CHOOSE u \in view : Number(u, view) = num ELSE NoUid

MaildropInit ==
  /\ maildrop = 1..InitialUids /\ nextUid = InitialUids + 1 /\ others = 0
  /\ up = FALSE /\ listed = {} /\ marked = {} /\ requests = <<>> /\ replies = <<>>

NoSession ==
  /\ up' = FALSE /\ listed' = {} /\ marked' = {} /\ requests' = <<>> /\ replies' = <<>>

NewSession ==
  /\ up' = TRUE /\ listed' = maildrop /\ marked' = {} /\ requests' = <<>> /\ replies' = <<>>

\* count is the number that the text of the reply begins with, if it does.
Reply(op, ok, count, uid) == [op |-> op, ok |-> ok, count |-> count, uid |-> uid]

\* A message that can be asked for: one that is numbered and not marked.
There(num) == LET uid == Named(num, listed) IN uid # NoUid /\ uid \notin marked

Answer(request) ==
  CASE request.op = "STAT" -> Reply("STAT", TRUE, Cardinality(listed \ marked), NoUid)
    [] request.op = "UIDL" ->
         IF There(request.num) THEN Reply("UIDL", TRUE, request.num, Named(request.num, listed))
         ELSE Reply("UIDL", FALSE, NoCount, NoUid)
    [] request.op = "DELE" -> Reply("DELE", There(request.num), NoCount, NoUid)
    [] OTHER -> Reply(request.op, TRUE, NoCount, NoUid)

Marking(marks, request) ==
  CASE request.op = "DELE" /\ Named(request.num, listed) # NoUid ->
         marks \cup {Named(request.num, listed)}
    [] request.op = "RSET" -> {}
    [] OTHER -> marks

\* What is marked when the first n of the requests have been carried out.
MarksAfter(n) ==
  LET marks[i \in 0..n] == IF i = 0 THEN marked ELSE Marking(marks[i - 1], requests[i])
  IN marks[n]

\* QUIT removes the marked messages.
serve ==
  /\ up /\ requests # <<>>
  /\ LET request == Head(requests) IN
       /\ replies' = Append(replies, Answer(request))
       /\ marked' = Marking(marked, request)
       /\ maildrop' = IF request.op = "QUIT" THEN maildrop \ marked ELSE maildrop
  /\ requests' = Tail(requests)
  /\ UNCHANGED <<nextUid, others, up, listed>>

\* The server may refuse a DELE for reasons of its own.
refuse ==
  /\ up /\ requests # <<>> /\ Head(requests).op = "DELE"
  /\ requests' = Tail(requests)
  /\ replies' = Append(replies, Reply("DELE", FALSE, NoCount, NoUid))
  /\ UNCHANGED <<maildrop, nextUid, others, up, listed, marked>>

\* The client closes its end.  The server may still find what was sent before.
leave ==
  /\ up' = FALSE /\ listed' = {} /\ marked' = {} /\ requests' = <<>> /\ replies' = <<>>
  /\ UNCHANGED <<nextUid, others>>
  /\ \/ UNCHANGED maildrop
     \/ /\ \E i \in DOMAIN requests : requests[i].op = "QUIT"
        /\ maildrop' = maildrop \ MarksAfter(Len(requests))

\* Mail comes, and other clients of the account have their sessions, while
\* ours has none: a session locks the maildrop.
OtherStep == ~up /\ others < MaxOthers /\ others' = others + 1

arrive ==
  /\ OtherStep
  /\ nextUid <= MaxUid
  /\ maildrop' = maildrop \cup {nextUid} /\ nextUid' = nextUid + 1
  /\ UNCHANGED <<up, listed, marked, requests, replies>>

vanish ==
  /\ OtherStep
  /\ \E uid \in maildrop : maildrop' = maildrop \ {uid}
  /\ UNCHANGED <<nextUid, up, listed, marked, requests, replies>>
=============================================================================
