---------------------------- MODULE SMTPTransport ----------------------------
(***************************************************************************)
(* Submission of messages over one SMTP connection at a time: the envelope *)
(* dialogue of SMTPTransport::sendEnvelope with the command queue of       *)
(* SMTPCommandSet, the message data of SMTPTransport::send in its two      *)
(* forms (DATA, and BDAT chunks through SMTPChunkingOutputStreamAdapter),  *)
(* noop(), connect() and disconnect().  connect() is one step here; its    *)
(* own dialogue leaves nothing behind but the set of extensions.           *)
(*                                                                         *)
(* The program is single-threaded and blocks on each reply, so its state   *)
(* is where it blocks (pc); the server of SMTPServer runs concurrently.    *)
(***************************************************************************)
EXTENDS SMTPServer

CONSTANTS
  ServerExtensions,   \* the extension sets EHLO may announce
  PipeliningOption,   \* transport.smtp.options.pipelining
  ChunkingOption,     \* transport.smtp.options.chunking
  GivesUp,            \* a time-out handler is installed and cancels operations
  SourceMayFail,      \* reading the message to send may throw
  MaxSends, MaxRecipients, MaxBlocks, MaxConnections, MaxNoops   \* bounds of a run

ASSUME ParametersAssumption ==
  /\ ServerExtensions \subseteq SUBSET {"PIPELINING", "CHUNKING"}
  /\ PipeliningOption \in BOOLEAN /\ ChunkingOption \in BOOLEAN
  /\ GivesUp \in BOOLEAN /\ SourceMayFail \in BOOLEAN
  /\ MaxSends \in Nat /\ MaxRecipients \in Nat \ {0}
  /\ MaxBlocks \in Nat /\ MaxConnections \in Nat /\ MaxNoops \in Nat

VARIABLES
  pc,            \* "none", "idle", or what the running operation waits to do
  extensions,    \* m_extensions of the connection
  m_needReset,
  m_commands, m_started, m_lastCommandSent,   \* the SMTPCommandSet
  block,         \* blocks of the message written so far
  unread,        \* replies to message data still to be read
  invalidReply,
  connections, noops,   \* connect() and noop() calls so far
  sends          \* history: every send() with its message and its outcome

commandSet == <<m_commands, m_started, m_lastCommandSent>>
dataVars   == <<block, unread, invalidReply>>
session    == <<extensions, m_needReset, connections, noops>>
clientVars == <<pc, session, commandSet, dataVars, sends>>
vars       == <<clientVars, serverVars>>

cur == Len(sends)
Outcomes == {"pending", "sent", "failed"}
\* quiet: no reply was owed and no message text expected when the send began.
Submissions ==
  [to : Nat \ {0}, blocks : Nat, chunked : BOOLEAN, quiet : BOOLEAN, outcome : Outcomes]

None == Command("NOOP", 0, 0)

Init ==
  /\ pc = "none" /\ extensions = {} /\ m_needReset = FALSE /\ connections = 0 /\ noops = 0
  /\ m_commands = <<>> /\ m_started = FALSE /\ m_lastCommandSent = None
  /\ block = 0 /\ unread = 0 /\ invalidReply = FALSE
  /\ sends = <<>>
  /\ alive = FALSE /\ srv = NoTransaction /\ c2s = <<>> /\ s2c = <<>>
  /\ delivered = {}

-----------------------------------------------------------------------------
\* posixSocket::isConnected peeks for the end of the stream.  Bytes still to be
\* read, or the error that a reset leaves, hide it; replies that are already in
\* m_responseBuffer do not.  So only a live connection surely counts as
\* connected, and a call may get past its test on any connection there is.
isConnected == pc # "none" /\ alive

Quiet == c2s = <<>> /\ s2c = <<>> /\ srv.mode = "command"

\* What is written after the peer has closed goes nowhere.
Write(commands) == c2s' = IF alive THEN c2s \o commands ELSE c2s

ReadReply(verbs) ==
  /\ pc \in verbs
  /\ s2c # <<>>
  /\ s2c' = Tail(s2c)
Code == Head(s2c).code

End(outcome) == sends' = [sends EXCEPT ![cur].outcome = outcome]
\* An exception leaves send() and keeps the connection.
Throw == pc' = "idle" /\ End("failed")
\* SMTPTransport::disconnect: QUIT is written and its reply not awaited.  On a
\* connection the peer has closed it throws instead, with the same effect.
Hangup ==
  /\ pc' = "none"
  /\ alive' = FALSE /\ c2s' = <<>> /\ s2c' = <<>>
  /\ UNCHANGED <<srv, delivered>>

connect ==
  /\ ~isConnected
  /\ pc \in {"none", "idle"}
  /\ connections < MaxConnections
  /\ connections' = connections + 1
  /\ extensions' \in ServerExtensions
  /\ pc' = "idle"
  /\ alive' = TRUE /\ srv' = NoTransaction /\ c2s' = <<>> /\ s2c' = <<>>
  /\ UNCHANGED <<m_needReset, noops, commandSet, dataVars, sends, delivered>>

disconnect ==
  /\ pc = "idle"
  /\ Hangup
  /\ UNCHANGED <<session, commandSet, dataVars, sends>>

-----------------------------------------------------------------------------
\* Slip: the option that disables pipelining is not read.
hasPipelining_IgnoresOption == "PIPELINING" \in extensions
hasPipelining == "PIPELINING" \in extensions /\ PipeliningOption
hasChunking   == "CHUNKING" \in extensions /\ ChunkingOption

Recipients(tx, n) == [i \in 1..n |-> Command("RCPT", tx, i)]
\* Slip: RSET is never queued.
Envelope_NoReset(tx, n, sendDATACommand) ==
  <<Command("MAIL", tx, 0)>> \o Recipients(tx, n)
    \o (IF sendDATACommand THEN <<Command("DATA", tx, 0)>> ELSE <<>>)
Envelope(tx, n, sendDATACommand) ==
  (IF m_needReset THEN <<Command("RSET", tx, 0)>> ELSE <<>>)
    \o <<Command("MAIL", tx, 0)>> \o Recipients(tx, n)
    \o (IF sendDATACommand THEN <<Command("DATA", tx, 0)>> ELSE <<>>)

\* sendEnvelope up to its first write, from either send(): the overload that
\* takes a stream always uses DATA.
sendEnvelope(n, blocks, chunked) ==
  /\ pc = "idle"
  /\ cur < MaxSends
  /\ chunked => hasChunking
  /\ m_commands' = Envelope(cur + 1, n, ~chunked)
  /\ m_started' = FALSE
  /\ m_needReset' = TRUE
  /\ sends' = Append(sends, [to |-> n, blocks |-> blocks, chunked |-> chunked,
                             quiet |-> Quiet, outcome |-> "pending"])
  /\ pc' = "write"
  /\ UNCHANGED <<extensions, connections, noops, m_lastCommandSent, dataVars, serverVars>>

\* SMTPCommandSet::writeToSocket: all at once, or one command per call.
writeToSocket ==
  /\ pc = "write"
  /\ Write(IF ~hasPipelining THEN <<Head(m_commands)>>
           ELSE IF m_started THEN <<>> ELSE m_commands)
  /\ m_lastCommandSent' = Head(m_commands)
  /\ m_commands' = Tail(m_commands)
  /\ m_started' = TRUE
  /\ pc' = "reply"
  /\ UNCHANGED <<session, dataVars, sends, alive, srv, s2c, delivered>>

\* Slip: any positive reply to DATA will do.
Accepts_AnyPositive(verb) ==
  CASE verb = "RSET" -> {250, 200}
    [] verb = "MAIL" -> {250}
    [] verb = "RCPT" -> {250, 251}
    [] verb = "DATA" -> {250, 354}

Accepts(verb) ==
  CASE verb = "RSET" -> {250, 200}
    [] verb = "MAIL" -> {250}
    [] verb = "RCPT" -> {250, 251}
    [] verb = "DATA" -> {354}

replyAccepted ==
  /\ ReadReply({"reply"})
  /\ Code \in Accepts(m_lastCommandSent.verb)
  /\ \/ m_commands # <<>> /\ pc' = "write" /\ UNCHANGED dataVars
     \/ m_commands = <<>> /\ pc' = "data" /\ block' = 0 /\ unread' = 0 /\ invalidReply' = FALSE
  /\ UNCHANGED <<session, commandSet, sends, alive, srv, c2s, delivered>>

\* Only a refused RSET costs the connection.
replyRefused ==
  /\ ReadReply({"reply"})
  /\ Code \notin Accepts(m_lastCommandSent.verb)
  /\ m_lastCommandSent.verb # "RSET"
  /\ Throw
  /\ UNCHANGED <<session, commandSet, dataVars, alive, srv, c2s, delivered>>

resetRefused ==
  /\ pc = "reply" /\ s2c # <<>>
  /\ Code \notin Accepts(m_lastCommandSent.verb)
  /\ m_lastCommandSent.verb = "RSET"
  /\ Hangup
  /\ End("failed")
  /\ UNCHANGED <<session, commandSet, dataVars>>

-----------------------------------------------------------------------------
message == sends[cur]
awaitsEachChunk == message.chunked /\ "PIPELINING" \notin extensions

\* Slip: the chunk counter is counted down.
writeBlock_CountsDown ==
  /\ pc = "data"
  /\ block < message.blocks
  /\ block' = block + 1
  /\ Write(<<Command(IF message.chunked THEN "BDAT" ELSE "TEXT", cur, block + 1)>>)
  /\ IF awaitsEachChunk THEN pc' = "chunk" ELSE pc' = "data"
  /\ unread' = IF message.chunked THEN unread - 1 ELSE unread
  /\ UNCHANGED <<session, commandSet, invalidReply, sends, alive, srv, s2c, delivered>>

\* A block of text, or sendChunk of a full buffer.
writeBlock ==
  /\ pc = "data"
  /\ block < message.blocks
  /\ block' = block + 1
  /\ Write(<<Command(IF message.chunked THEN "BDAT" ELSE "TEXT", cur, block + 1)>>)
  /\ IF awaitsEachChunk THEN pc' = "chunk" ELSE pc' = "data"
  /\ unread' = IF message.chunked THEN unread + 1 ELSE unread
  /\ UNCHANGED <<session, commandSet, invalidReply, sends, alive, srv, s2c, delivered>>

\* Slip: sendChunk returns early when there is nothing left, last chunk or not.
writeEnd_NothingToSend ==
  /\ pc = "data"
  /\ block = message.blocks
  /\ Write(IF message.chunked THEN <<>> ELSE <<Command("EOM", cur, block + 1)>>)
  /\ unread' = unread + 1
  /\ pc' = "end"
  /\ UNCHANGED <<session, commandSet, block, invalidReply, sends, alive, srv, s2c, delivered>>

\* The end-of-data mark, or the chunk flush() marks LAST.
writeEnd ==
  /\ pc = "data"
  /\ block = message.blocks
  /\ Write(<<Command(IF message.chunked THEN "LAST" ELSE "EOM", cur, block + 1)>>)
  /\ unread' = unread + 1
  /\ pc' = "end"
  /\ UNCHANGED <<session, commandSet, block, invalidReply, sends, alive, srv, s2c, delivered>>

chunkAccepted ==
  /\ ReadReply({"chunk"})
  /\ Code = 250
  /\ unread' = 0
  /\ pc' = "data"
  /\ UNCHANGED <<session, commandSet, block, invalidReply, sends, alive, srv, c2s, delivered>>

\* Slip: only the reply to the last chunk decides.
chunkAnswered_LastDecides ==
  /\ ReadReply({"end"})
  /\ unread > 1
  /\ unread' = unread - 1
  /\ UNCHANGED <<pc, session, commandSet, block, invalidReply, sends, alive, srv, c2s, delivered>>

\* More replies to come: chunks sent without waiting are answered at the end.
chunkAnswered ==
  /\ ReadReply({"end"})
  /\ unread > 1
  /\ unread' = unread - 1
  /\ invalidReply' = (invalidReply \/ Code # 250)
  /\ UNCHANGED <<pc, session, commandSet, block, sends, alive, srv, c2s, delivered>>

\* Slip: the last reply is read and not looked at.
messageAccepted_AnyReply ==
  /\ ReadReply({"end"})
  /\ unread = 1 /\ ~invalidReply
  /\ pc' = "idle" /\ unread' = 0
  /\ End("sent")
  /\ UNCHANGED <<session, commandSet, block, invalidReply, alive, srv, c2s, delivered>>

messageAccepted ==
  /\ ReadReply({"end"})
  /\ unread = 1 /\ ~invalidReply
  /\ Code = 250
  /\ pc' = "idle" /\ unread' = 0
  /\ End("sent")
  /\ UNCHANGED <<session, commandSet, block, invalidReply, alive, srv, c2s, delivered>>

\* Slip: 354 is expected of the end of data, as it is of DATA.
messageRefused_Expects354 ==
  /\ ReadReply({"end"})
  /\ ~message.chunked
  /\ Code # 354
  /\ Throw
  /\ UNCHANGED <<session, commandSet, dataVars, alive, srv, c2s, delivered>>

\* The final reply to DATA is an exception only.
messageRefused ==
  /\ ReadReply({"end"})
  /\ ~message.chunked
  /\ Code # 250
  /\ Throw
  /\ UNCHANGED <<session, commandSet, dataVars, alive, srv, c2s, delivered>>

\* A refused chunk, once its turn to be judged has come, costs the connection.
chunkRefused ==
  /\ pc \in {"chunk", "end"} /\ s2c # <<>>
  /\ message.chunked /\ unread = 1
  /\ invalidReply \/ Code # 250
  /\ Hangup
  /\ End("failed")
  /\ UNCHANGED <<session, commandSet, dataVars>>

-----------------------------------------------------------------------------
noop ==
  /\ pc = "idle"
  /\ noops < MaxNoops
  /\ noops' = noops + 1
  /\ Write(<<None>>)
  /\ pc' = "noop"
  /\ UNCHANGED <<extensions, m_needReset, connections, commandSet, dataVars, sends,
                 alive, srv, s2c, delivered>>

\* noop() throws or not: either way the connection stays.
noopAnswered ==
  /\ ReadReply({"noop"})
  /\ pc' = "idle"
  /\ UNCHANGED <<session, commandSet, dataVars, sends, alive, srv, c2s, delivered>>

-----------------------------------------------------------------------------
Fail == IF pc = "noop" THEN pc' = "idle" /\ UNCHANGED sends ELSE Throw

\* readResponseLine and waitForData: the handler cancels the wait.  Bytes of a
\* line that was still incomplete are dropped: its rest will be read as a reply.
timedOut ==
  /\ GivesUp
  /\ pc \notin {"none", "idle"}
  /\ Fail
  /\ \/ UNCHANGED s2c
     \/ s2c # <<>> /\ s2c' = [s2c EXCEPT ![1].code = Refusal]
  /\ UNCHANGED <<session, commandSet, dataVars, alive, srv, c2s, delivered>>

\* Slip: a read of zero bytes counts as no data yet.
socketFails_ReadsOn ==
  /\ ~alive
  /\ pc \in {"write", "data"}
  /\ s2c' = <<>>
  /\ Fail
  /\ UNCHANGED <<session, commandSet, dataVars, alive, srv, c2s, delivered>>

\* receiveRaw and sendRaw throw on a closed connection.  Once a write has failed
\* every later one does, before any reply that is left can be read.
socketFails ==
  /\ ~alive
  /\ \/ pc \in {"reply", "chunk", "end", "noop"} /\ s2c = <<>>
     \/ pc \in {"write", "data"}
  /\ s2c' = <<>>
  /\ Fail
  /\ UNCHANGED <<session, commandSet, dataVars, alive, srv, c2s, delivered>>

\* The input stream or the generator of the message throws.
sourceFails ==
  /\ SourceMayFail
  /\ pc = "data"
  /\ Throw
  /\ UNCHANGED <<session, commandSet, dataVars, serverVars>>

-----------------------------------------------------------------------------
\* What send() does once called; the application's calls are in Next only.
Client ==
  \/ writeToSocket \/ replyAccepted \/ replyRefused \/ resetRefused
  \/ writeBlock \/ writeEnd \/ chunkAccepted \/ chunkAnswered
  \/ messageAccepted \/ messageRefused \/ chunkRefused
  \/ noopAnswered \/ socketFails

Server == (Serve \/ ServerCloses) /\ UNCHANGED clientVars

Next ==
  \/ connect \/ disconnect \/ noop
  \/ \E n \in 1..MaxRecipients, blocks \in 0..MaxBlocks, chunked \in BOOLEAN :
       sendEnvelope(n, blocks, chunked)
  \/ Client \/ timedOut \/ sourceFails
  \/ Server

Spec == Init /\ [][Next]_vars

\* The client thread runs and a server that stays up answers what it reads;
\* nothing obliges it to close, the application to call, or a source to fail.
Fairness == WF_vars(Client) /\ WF_vars(Serve /\ UNCHANGED clientVars)
FairSpec == Spec /\ Fairness
-----------------------------------------------------------------------------
(***************************************************************************)
(* What must hold                                                          *)
(***************************************************************************)
TypeOK ==
  /\ pc \in {"none", "idle", "write", "reply", "data", "chunk", "end", "noop"}
  /\ extensions \in SUBSET {"PIPELINING", "CHUNKING"}
  /\ m_needReset \in BOOLEAN /\ m_started \in BOOLEAN /\ invalidReply \in BOOLEAN
  /\ m_commands \in Seq(Commands) /\ m_lastCommandSent \in Commands
  /\ block \in Nat /\ unread \in Nat /\ connections \in Nat /\ noops \in Nat
  /\ sends \in Seq(Submissions)
  /\ alive \in BOOLEAN /\ srv \in Transactions
  /\ c2s \in Seq(Commands) /\ s2c \in Seq(Replies)
  /\ delivered \in SUBSET [text : Seq(Commands), rcpts : SUBSET (Nat \X Nat)]

\* The message a send() was called with, as the server would deliver it.
Body(t) ==
  LET m == sends[t] IN
  [i \in 1..m.blocks |-> Command(IF m.chunked THEN "BDAT" ELSE "TEXT", t, i)]
    \o (IF m.chunked THEN <<Command("LAST", t, m.blocks + 1)>> ELSE <<>>)
Message(t) == [text |-> Body(t), rcpts |-> {<<t, i>> : i \in 1..sends[t].to}]

\* Message text reaches the server only while it expects message text: no line
\* of a message is ever taken for an SMTP command, whatever was refused, timed
\* out or left unread before (send() writes data after a 354 only).
MessageTextOnlyInDataMode ==
  c2s # <<>> /\ Head(c2s).verb \in {"TEXT", "EOM"} => srv.mode = "data"

waiting == pc \in {"reply", "chunk", "end", "noop"}
Expected ==
  CASE pc = "reply" -> m_lastCommandSent
    [] pc = "chunk" -> Command("BDAT", cur, block)
    [] pc = "end"   ->
         IF ~message.chunked THEN Command("EOM", cur, block + 1)
         ELSE IF unread = 1 THEN Command("LAST", cur, block + 1)
         ELSE Command("BDAT", cur, block + 2 - unread)
    [] OTHER -> None

\* The reply read as the reply to a command is the server's reply to that
\* command, also on a connection where earlier sends were refused.
ReplyAnswersCommand == waiting /\ s2c # <<>> => Head(s2c).to = Expected

\* The client never waits for a reply the server does not owe it: while it
\* waits on a live connection a reply, or a command to answer, is in flight.
NoMutualWait ==
  waiting /\ alive /\ s2c = <<>> =>
    IF srv.mode = "data" THEN \E i \in DOMAIN c2s : c2s[i].verb = "EOM" ELSE c2s # <<>>

\* RSET does its work: no MAIL is sent into a transaction left open by an
\* earlier send (m_needReset).
MailOpensTransaction ==
  c2s # <<>> /\ Head(c2s).verb = "MAIL" /\ srv.mode = "command" => srv.mail = 0

\* A send() that returns has handed its message, whole and unaltered, to the
\* server, for exactly its recipients, if it began with nothing owed on the
\* connection.  Of others nothing can be said, not even when every command
\* waits for its reply: late replies to calls that timed out can make up a
\* whole dialogue, the 354 and the last 250 included.
SentIsDelivered ==
  \A t \in DOMAIN sends :
    sends[t].outcome = "sent" /\ sends[t].quiet => Message(t) \in delivered

\* A send() that throws because of a reply has not been delivered: the
\* application may send the message again without duplicating it.
RefusedIsNotDelivered ==
  [][\A t \in DOMAIN sends :
       /\ sends[t].outcome = "pending" /\ sends'[t].outcome = "failed"
       /\ alive /\ s2c # <<>>
       => Message(t) \notin delivered']_vars

\* Without pipelining the transport is a mail submission service: every report
\* is true, nothing is delivered altered or to other recipients.
Submission == INSTANCE MailSubmission WITH
  outcome   <- [t \in DOMAIN sends |-> sends[t].outcome],
  takenOver <- {t \in DOMAIN sends : Message(t) \in delivered},
  stray     <- delivered \ {Message(t) : t \in DOMAIN sends}
ImplementsSubmission == Submission!Spec

\* Every send() and noop() comes to an end if the server keeps answering.
EveryCallReturns == pc \notin {"none", "idle"} ~> pc \in {"none", "idle"}
=============================================================================
