------------------------ MODULE SMTPTransport_proofs ------------------------
(***************************************************************************)
(* Theorems about SMTPTransport, for every server, every option and every  *)
(* value of the bounds.                                                    *)
(***************************************************************************)
EXTENDS SMTPTransport, SequenceTheorems, TLAPS

Active == {"write", "reply", "data", "chunk", "end"}

\* A running send() is the last one recorded.
Running ==
  /\ pc \in Active => cur \in 1..Len(sends)
  /\ pc = "write" => m_commands # <<>>

Messages == [text : Seq(Commands), rcpts : SUBSET (Nat \X Nat)]

\* The variables the server shares with the client.
StreamType ==
  /\ alive \in BOOLEAN /\ srv \in Transactions
  /\ c2s \in Seq(Commands) /\ s2c \in Seq(Replies)
  /\ delivered \in SUBSET Messages

SessionType ==
  /\ extensions \in SUBSET {"PIPELINING", "CHUNKING"} /\ m_needReset \in BOOLEAN
  /\ connections \in Nat /\ noops \in Nat
CommandSetType ==
  /\ m_commands \in Seq(Commands) /\ m_started \in BOOLEAN /\ m_lastCommandSent \in Commands
DataType == block \in Nat /\ unread \in Nat /\ invalidReply \in BOOLEAN
PcType == pc \in {"none", "idle", "write", "reply", "data", "chunk", "end", "noop"}

ClientType ==
  PcType /\ SessionType /\ CommandSetType /\ DataType /\ sends \in Seq(Submissions)

TypeInv == ClientType /\ StreamType /\ Running

\* The typing of every part gives the type invariant that the runs check.
LEMMA TypeInvImpliesTypeOK == TypeInv => TypeOK
  BY DEF TypeInv, ClientType, PcType, SessionType, CommandSetType, DataType, StreamType,
         Messages, TypeOK

\* The queues that are emptied are queues of anything.
LEMMA EmptySequence == ASSUME NEW S PROVE <<>> \in Seq(S)
  OBVIOUS

\* A command is put together from its parts.
LEMMA CommandType ==
  ASSUME NEW verb \in Verbs, NEW tx \in Nat, NEW arg \in Nat
  PROVE  Command(verb, tx, arg) \in Commands
  BY DEF Command, Commands

\* What sendEnvelope queues is a sequence of commands.
LEMMA EnvelopeType ==
  ASSUME NEW tx \in Nat, NEW n \in Nat, NEW d \in BOOLEAN, m_needReset \in BOOLEAN
  PROVE  Envelope(tx, n, d) \in Seq(Commands) /\ Envelope(tx, n, d) # <<>>
<1>1. Recipients(tx, n) \in Seq(Commands)
  <2>1. \A i \in 1..n : Command("RCPT", tx, i) \in Commands
    BY CommandType DEF Verbs
  <2> QED
    BY <2>1 DEF Recipients
<1>2. /\ Command("RSET", tx, 0) \in Commands
      /\ Command("MAIL", tx, 0) \in Commands
      /\ Command("DATA", tx, 0) \in Commands
  BY CommandType DEF Verbs
<1> DEFINE reset == IF m_needReset THEN <<Command("RSET", tx, 0)>> ELSE <<>>
           mail  == <<Command("MAIL", tx, 0)>>
           data  == IF d THEN <<Command("DATA", tx, 0)>> ELSE <<>>
<1>3. reset \in Seq(Commands) /\ mail \in Seq(Commands) /\ data \in Seq(Commands)
  BY <1>2, EmptySequence
<1>4. Len(mail) = 1
  OBVIOUS
<1>5. Envelope(tx, n, d) = reset \o mail \o Recipients(tx, n) \o data
  BY DEF Envelope
<1> HIDE DEF reset, mail, data
<1> DEFINE opening == reset \o mail
           rcpts   == Recipients(tx, n)
           allRcpts == opening \o rcpts
<1>6. opening \in Seq(Commands) /\ Len(opening) = Len(reset) + Len(mail)
  BY <1>3, ConcatProperties, Zenon
<1>7. rcpts \in Seq(Commands) /\ Len(rcpts) \in Nat /\ Len(reset) \in Nat /\ Len(data) \in Nat
  BY <1>1, <1>3
<1> HIDE DEF opening, rcpts
<1>8. allRcpts \in Seq(Commands) /\ Len(allRcpts) = Len(opening) + Len(rcpts)
  BY <1>6, <1>7, ConcatProperties, Zenon
<1>9. Envelope(tx, n, d) = allRcpts \o data
  BY <1>5 DEF opening, rcpts
<1> HIDE DEF allRcpts
<1>10. /\ Envelope(tx, n, d) \in Seq(Commands)
       /\ Len(Envelope(tx, n, d)) = Len(allRcpts) + Len(data)
  BY <1>3, <1>8, <1>9, ConcatProperties, Zenon
<1>11. Len(Envelope(tx, n, d)) # 0
  BY <1>4, <1>6, <1>7, <1>8, <1>10
<1>12. Len(<<>>) = 0
  OBVIOUS
<1> QED
  BY <1>10, <1>11, <1>12, Zenon

\* A command code that is accepted is a code.
LEMMA PositiveType == ASSUME NEW verb PROVE Positive(verb) \cap ReplyCodes \subseteq Codes
  BY DEF Codes

\* The initial state is typed.
LEMMA TypeInit == Init => TypeInv
<1> SUFFICES ASSUME Init PROVE TypeInv
  OBVIOUS
<1>1. None \in Commands
  BY CommandType DEF None, Verbs
<1>2. NoTransaction \in Transactions
  BY DEF NoTransaction, Transactions
<1>3. Len(sends) = 0 /\ sends \in Seq(Submissions) /\ m_commands \in Seq(Commands)
  BY DEF Init
<1>4. StreamType
  BY <1>2, EmptySequence DEF Init, StreamType
<1>5. ClientType
  BY <1>1, <1>3 DEF Init, ClientType, PcType, SessionType, CommandSetType, DataType
<1> QED
  BY <1>4, <1>5 DEF Init, TypeInv, Running, Active

\* What the server does keeps the two streams typed.
LEMMA ServeType == StreamType /\ Serve => StreamType'
<1> SUFFICES ASSUME StreamType, Serve PROVE StreamType'
  OBVIOUS
<1> USE DEF StreamType
<1>1. Request \in Commands /\ Tail(c2s) \in Seq(Commands)
  <2>1. c2s # <<>>
    BY DEF Serve, ServeReset, ServeMail, ServeRcpt, ServeData, ServeText, ServeEndOfData,
           ServeChunk, ServeLastChunk, DiscardChunk, ServeNoop, Refuse, Receives
  <2> QED
    BY <2>1 DEF Request
<1>2. Request.tx \in Nat /\ Request.arg \in Nat
  BY <1>1 DEF Commands
<1>3. ASSUME NEW code \in Codes, Answer(code)
      PROVE  c2s' \in Seq(Commands) /\ s2c' \in Seq(Replies)
  <2>1. [code |-> code, to |-> Request] \in Replies
    BY <1>1, <1>3 DEF Replies
  <2> QED
    BY <1>1, <1>3, <2>1 DEF Answer
<1>4. ASSUME NEW verb, Accept(verb)
      PROVE  c2s' \in Seq(Commands) /\ s2c' \in Seq(Replies)
  BY <1>3, <1>4, PositiveType DEF Accept
<1>5. Refusal \in Codes
  BY DEF Codes
<1>6. ASSUME NEW text \in Seq(Commands), Deliver(text)
      PROVE  delivered' \in SUBSET Messages
  BY <1>6 DEF Deliver, Messages, Transactions
<1>7. srv.text \in Seq(Commands) /\ Append(srv.text, Request) \in Seq(Commands)
  BY <1>1 DEF Transactions
<1>8. NoTransaction \in Transactions
  BY DEF NoTransaction, Transactions
<1>9. CASE ServeReset
  BY <1>9, <1>4, <1>8 DEF ServeReset
<1>10. CASE ServeMail
  <2>1. srv' \in Transactions
    BY <1>10, <1>2, <1>8 DEF ServeMail, Transactions, NoTransaction
  <2> QED
    BY <1>10, <1>4, <2>1 DEF ServeMail
<1>11. CASE ServeRcpt
  <2>1. srv' \in Transactions
    BY <1>11, <1>2 DEF ServeRcpt, Transactions
  <2> QED
    BY <1>11, <1>4, <2>1 DEF ServeRcpt
<1>12. CASE ServeData
  <2>1. srv' \in Transactions
    BY <1>12 DEF ServeData, Transactions
  <2> QED
    BY <1>12, <1>4, <2>1 DEF ServeData
<1>13. CASE ServeText
  <2>1. srv' \in Transactions
    BY <1>13, <1>7 DEF ServeText, Transactions
  <2> QED
    BY <1>13, <1>1, <2>1 DEF ServeText
<1>14. CASE ServeEndOfData
  <2>1. delivered' \in SUBSET Messages
    BY <1>14, <1>6, <1>7 DEF ServeEndOfData
  <2>2. c2s' \in Seq(Commands) /\ s2c' \in Seq(Replies)
    BY <1>14, <1>3, <1>4, <1>5 DEF ServeEndOfData
  <2> QED
    BY <1>14, <1>8, <2>1, <2>2 DEF ServeEndOfData
<1>15. CASE ServeChunk
  <2>1. srv' \in Transactions
    BY <1>15, <1>7 DEF ServeChunk, Transactions
  <2> QED
    BY <1>15, <1>4, <2>1 DEF ServeChunk
<1>16. CASE ServeLastChunk
  <2>1. delivered' \in SUBSET Messages
    BY <1>16, <1>6, <1>7 DEF ServeLastChunk
  <2> QED
    BY <1>16, <1>4, <1>8, <2>1 DEF ServeLastChunk
<1>d. CASE DiscardChunk
  BY <1>d, <1>4, <1>8 DEF DiscardChunk
<1>17. CASE ServeNoop
  BY <1>17, <1>4 DEF ServeNoop
<1>18. CASE Refuse
  <2>1. srv.mail \in Nat
    BY DEF Transactions
  <2>2. [NoTransaction EXCEPT !.mail = srv.mail] \in Transactions
    BY <2>1, <1>8 DEF Transactions, NoTransaction
  <2> QED
    BY <1>18, <1>3, <1>5, <2>2 DEF Refuse
<1> QED
  BY <1>9, <1>10, <1>11, <1>12, <1>13, <1>14, <1>15, <1>16, <1>d, <1>17, <1>18 DEF Serve

\* What an action leaves alone keeps its type.
LEMMA UnchangedType ==
  ASSUME ClientType
  PROVE  /\ UNCHANGED session => SessionType'
         /\ UNCHANGED commandSet => CommandSetType'
         /\ UNCHANGED dataVars => DataType'
  BY DEF ClientType, SessionType, CommandSetType, DataType, session, commandSet, dataVars

\* What is written is a sequence of commands.
LEMMA WriteType ==
  ASSUME StreamType, NEW commands \in Seq(Commands), Write(commands)
  PROVE  c2s' \in Seq(Commands)
  BY DEF StreamType, Write

\* The end of a call notes an outcome for the current submission.
LEMMA EndType ==
  ASSUME TypeInv, pc \in Active, NEW outcome \in Outcomes, End(outcome)
  PROVE  sends' \in Seq(Submissions) /\ Len(sends') = Len(sends)
<1>1. cur \in 1..Len(sends)
  BY DEF TypeInv, Running
<1>2. sends \in Seq(Submissions)
  BY DEF TypeInv, ClientType
<1>3. sends[cur] \in Submissions
  BY <1>1, <1>2
<1>4. [sends[cur] EXCEPT !.outcome = outcome] \in Submissions
  BY <1>3 DEF Submissions
<1> QED
  BY <1>1, <1>2, <1>4 DEF End

\* Dropping the connection leaves nothing on the wire.
LEMMA HangupType == StreamType /\ Hangup => StreamType' /\ pc' = "none"
<1> SUFFICES ASSUME StreamType, Hangup PROVE StreamType' /\ pc' = "none"
  OBVIOUS
<1>1. c2s' \in Seq(Commands) /\ s2c' \in Seq(Replies)
  BY EmptySequence DEF Hangup
<1> QED
  BY <1>1 DEF StreamType, Hangup

\* The next reply is one, and replies are left.
LEMMA ReadType == StreamType /\ s2c # <<>> => Tail(s2c) \in Seq(Replies) /\ Head(s2c) \in Replies
  BY DEF StreamType

\* What is left of the replies when the server closes.
LEMMA KeptReplies ==
  ASSUME s2c \in Seq(Replies), NEW n \in 0..Len(s2c)
  PROVE  /\ SubSeq(s2c, 1, n) \in Seq(Replies)
         /\ Len(SubSeq(s2c, 1, n)) = n
         /\ \A i \in 1..n : SubSeq(s2c, 1, n)[i] = s2c[i]
  OBVIOUS

\* Every step keeps the types.
LEMMA TypeNext == TypeInv /\ [Next]_vars => TypeInv'
<1> SUFFICES ASSUME TypeInv, [Next]_vars PROVE TypeInv'
  OBVIOUS
<1>0. ClientType /\ StreamType /\ Running
  BY DEF TypeInv
<1>u. /\ UNCHANGED session => SessionType'
      /\ UNCHANGED commandSet => CommandSetType'
      /\ UNCHANGED dataVars => DataType'
      /\ UNCHANGED sends => (sends \in Seq(Submissions))'
  BY <1>0, UnchangedType DEF ClientType
<1>1. CASE connect
  <2>1. NoTransaction \in Transactions
    BY DEF NoTransaction, Transactions
  <2>2. StreamType'
    BY <1>0, <1>1, <2>1, EmptySequence DEF connect, StreamType
  <2>3. SessionType' /\ PcType' /\ pc' = "idle"
    BY <1>0, <1>1, ParametersAssumption DEF connect, ClientType, SessionType, PcType
  <2> QED
    BY <1>u, <1>1, <2>2, <2>3 DEF connect, TypeInv, ClientType, Running, Active
<1>2. CASE disconnect
  <2>1. StreamType' /\ pc' = "none"
    BY <1>0, <1>2, HangupType DEF disconnect
  <2> QED
    BY <1>u, <1>2, <2>1 DEF disconnect, TypeInv, ClientType, PcType, Running, Active
<1>3. CASE noop
  <2>1. <<None>> \in Seq(Commands)
    BY CommandType DEF None, Verbs
  <2>2. StreamType'
    BY <1>0, <1>3, <2>1, WriteType DEF noop, StreamType
  <2>3. SessionType' /\ PcType' /\ pc' = "noop"
    BY <1>0, <1>3 DEF noop, ClientType, SessionType, PcType
  <2> QED
    BY <1>u, <1>3, <2>2, <2>3 DEF noop, TypeInv, ClientType, Running, Active
<1>4. ASSUME NEW n \in 1..MaxRecipients, NEW blocks \in 0..MaxBlocks, NEW chunked \in BOOLEAN,
             sendEnvelope(n, blocks, chunked)
      PROVE  TypeInv'
  <2>1. n \in Nat /\ n # 0 /\ blocks \in Nat /\ cur + 1 \in Nat
    BY <1>0, ParametersAssumption DEF cur, ClientType
  <2>2. /\ Envelope(cur + 1, n, ~chunked) \in Seq(Commands)
        /\ Envelope(cur + 1, n, ~chunked) # <<>>
    BY <1>0, <2>1, EnvelopeType DEF ClientType, SessionType
  <2>3. Quiet \in BOOLEAN
    BY DEF Quiet
  <2>4. [to |-> n, blocks |-> blocks, chunked |-> chunked,
         quiet |-> Quiet, outcome |-> "pending"] \in Submissions
    BY <2>1, <2>3 DEF Submissions, Outcomes
  <2>5. sends' \in Seq(Submissions) /\ Len(sends') = Len(sends) + 1
    BY <1>0, <1>4, <2>4 DEF sendEnvelope, ClientType
  <2>6. StreamType'
    BY <1>0, <1>4 DEF sendEnvelope, StreamType, serverVars
  <2>7. SessionType' /\ CommandSetType' /\ PcType'
    BY <1>0, <1>4, <2>2
       DEF sendEnvelope, ClientType, SessionType, CommandSetType, PcType
  <2>8. Len(sends') \in 1..Len(sends')
    BY <1>0, <2>5 DEF ClientType
  <2>9. m_commands' # <<>> /\ UNCHANGED dataVars
    BY <1>4, <2>2 DEF sendEnvelope
  <2> QED
    BY <1>u, <2>5, <2>6, <2>7, <2>8, <2>9 DEF TypeInv, ClientType, Running, cur
<1>5. CASE writeToSocket
  <2>1. m_commands # <<>> /\ pc \in Active
    BY <1>0, <1>5 DEF writeToSocket, Active, Running
  <2>2. Head(m_commands) \in Commands /\ Tail(m_commands) \in Seq(Commands)
    BY <1>0, <2>1 DEF ClientType, CommandSetType
  <2>3. <<Head(m_commands)>> \in Seq(Commands)
    BY <2>2
  <2>4. c2s' \in Seq(Commands)
    BY <1>0, <1>5, <2>3, WriteType, EmptySequence
       DEF writeToSocket, ClientType, CommandSetType
  <2>5. StreamType'
    BY <1>0, <1>5, <2>4 DEF writeToSocket, StreamType
  <2>6. CommandSetType' /\ PcType' /\ pc' = "reply"
    BY <1>5, <2>2 DEF writeToSocket, CommandSetType, PcType
  <2> QED
    BY <1>u, <1>0, <1>5, <2>1, <2>5, <2>6
       DEF writeToSocket, TypeInv, ClientType, Running, Active, cur
<1>6. CASE replyAccepted
  <2>0. DataType'
    <3>1. CASE m_commands # <<>>
      <4>1. UNCHANGED dataVars
        BY <1>6, <3>1 DEF replyAccepted
      <4> QED
        BY <1>u, <4>1
    <3>2. CASE m_commands = <<>>
      <4>1. block' = 0 /\ unread' = 0 /\ invalidReply' = FALSE
        BY <1>6, <3>2 DEF replyAccepted
      <4> QED
        BY <4>1 DEF DataType
    <3> QED
      BY <3>1, <3>2
  <2>1. StreamType' /\ PcType' /\ DataType'
    BY <1>0, <1>6, <2>0, ReadType DEF replyAccepted, ReadReply, StreamType, PcType
  <2>2. pc \in Active /\ (pc' = "write" => m_commands # <<>>)
    BY <1>6 DEF replyAccepted, ReadReply, Active
  <2> QED
    BY <1>u, <1>0, <1>6, <2>1, <2>2
       DEF replyAccepted, TypeInv, ClientType, Running, commandSet, cur
<1>7. CASE chunkAccepted
  <2>1. StreamType' /\ PcType' /\ DataType'
    BY <1>0, <1>7, ReadType
       DEF chunkAccepted, ReadReply, StreamType, PcType, ClientType, DataType
  <2>2. pc \in Active /\ pc' = "data"
    BY <1>7 DEF chunkAccepted, ReadReply, Active
  <2> QED
    BY <1>u, <1>0, <1>7, <2>1, <2>2 DEF chunkAccepted, TypeInv, ClientType, Running, cur
<1>8. CASE chunkAnswered
  <2>1. unread - 1 \in Nat
    BY <1>0, <1>8 DEF chunkAnswered, ClientType, DataType
  <2>2. (invalidReply \/ Code # 250) \in BOOLEAN
    OBVIOUS
  <2>3. invalidReply' \in BOOLEAN
    BY <1>8, <2>2 DEF chunkAnswered
  <2>4. StreamType' /\ PcType' /\ DataType'
    BY <1>0, <1>8, <2>1, <2>3, ReadType
       DEF chunkAnswered, ReadReply, StreamType, PcType, ClientType, DataType
  <2>5. pc \in Active /\ pc' = "end"
    BY <1>8 DEF chunkAnswered, ReadReply, Active
  <2> QED
    BY <1>u, <1>0, <1>8, <2>4, <2>5 DEF chunkAnswered, TypeInv, ClientType, Running, cur
<1>9. CASE noopAnswered
  <2>1. StreamType' /\ PcType' /\ pc' = "idle"
    BY <1>0, <1>9, ReadType DEF noopAnswered, ReadReply, StreamType, PcType
  <2> QED
    BY <1>u, <1>9, <2>1 DEF noopAnswered, TypeInv, ClientType, Running, Active
<1>10. ASSUME replyRefused \/ messageRefused \/ messageAccepted PROVE TypeInv'
  <2>1. pc \in Active
    BY <1>10 DEF replyRefused, messageRefused, messageAccepted, ReadReply, Active
  <2>2. StreamType'
    BY <1>0, <1>10, ReadType
       DEF replyRefused, messageRefused, messageAccepted, ReadReply, StreamType
  <2>3. pc' = "idle" /\ sends' \in Seq(Submissions)
    BY <1>10, <2>1, EndType DEF replyRefused, messageRefused, messageAccepted, Throw, Outcomes
  <2>4. UNCHANGED <<session, commandSet>>
    BY <1>10 DEF replyRefused, messageRefused, messageAccepted
  <2>5. DataType'
    BY <1>u, <1>0, <1>10
       DEF replyRefused, messageRefused, messageAccepted, ClientType, DataType
  <2> QED
    BY <1>u, <2>2, <2>3, <2>4, <2>5 DEF TypeInv, ClientType, PcType, Running, Active
<1>11. ASSUME resetRefused \/ chunkRefused PROVE TypeInv'
  <2>1. pc \in Active
    BY <1>11 DEF resetRefused, chunkRefused, Active
  <2>2. StreamType' /\ pc' = "none"
    BY <1>0, <1>11, HangupType DEF resetRefused, chunkRefused
  <2>3. sends' \in Seq(Submissions)
    BY <1>11, <2>1, EndType DEF resetRefused, chunkRefused, Outcomes
  <2>4. UNCHANGED <<session, commandSet, dataVars>>
    BY <1>11 DEF resetRefused, chunkRefused
  <2> QED
    BY <1>u, <2>2, <2>3, <2>4 DEF TypeInv, ClientType, PcType, Running, Active
<1>12. ASSUME writeBlock \/ writeEnd PROVE TypeInv'
  <2>1. pc \in Active /\ cur \in Nat /\ block \in Nat /\ unread \in Nat
    BY <1>0, <1>12 DEF writeBlock, writeEnd, Active, cur, ClientType, DataType
  <2>2. \A verb \in {"BDAT", "TEXT", "LAST", "EOM"} :
           <<Command(verb, cur, block + 1)>> \in Seq(Commands)
    BY <2>1, CommandType DEF Verbs
  <2>3. c2s' \in Seq(Commands)
    BY <1>0, <1>12, <2>2, WriteType DEF writeBlock, writeEnd
  <2>4. StreamType'
    BY <1>0, <1>12, <2>3 DEF writeBlock, writeEnd, StreamType
  <2>5. DataType'
    BY <1>0, <1>12, <2>1 DEF writeBlock, writeEnd, ClientType, DataType
  <2>6. UNCHANGED <<session, commandSet, sends>>
    BY <1>12 DEF writeBlock, writeEnd
  <2>7. PcType' /\ pc' # "write"
    BY <1>12 DEF writeBlock, writeEnd, PcType
  <2> QED
    BY <1>u, <1>0, <2>1, <2>4, <2>5, <2>6, <2>7 DEF TypeInv, ClientType, Running, cur
<1>13. ASSUME timedOut \/ socketFails \/ sourceFails PROVE TypeInv'
  <2>1. pc = "noop" \/ pc \in Active
    BY <1>0, <1>13 DEF timedOut, socketFails, sourceFails, ClientType, PcType, Active
  <2>2. Fail
    BY <1>13 DEF timedOut, socketFails, sourceFails, Fail
  <2>3. pc' = "idle" /\ sends' \in Seq(Submissions)
    BY <1>0, <2>1, <2>2, EndType DEF Fail, Throw, ClientType, Outcomes, Active
  <2>4. s2c # <<>> => [s2c EXCEPT ![1].code = Refusal] \in Seq(Replies)
    <3> SUFFICES ASSUME s2c # <<>> PROVE [s2c EXCEPT ![1].code = Refusal] \in Seq(Replies)
      OBVIOUS
    <3>1. s2c \in Seq(Replies) /\ 1 \in 1..Len(s2c) /\ s2c[1] \in Replies
      BY <1>0 DEF StreamType
    <3>2. [s2c[1] EXCEPT !.code = Refusal] \in Replies
      BY <3>1 DEF Replies, Codes
    <3> QED
      BY <3>1, <3>2
  <2>5. s2c' \in Seq(Replies)
    BY <1>0, <1>13, <2>4, EmptySequence
       DEF timedOut, socketFails, sourceFails, StreamType, serverVars
  <2>6. StreamType'
    BY <1>0, <1>13, <2>5 DEF timedOut, socketFails, sourceFails, StreamType, serverVars
  <2>7. UNCHANGED <<session, commandSet, dataVars>>
    BY <1>13 DEF timedOut, socketFails, sourceFails
  <2> QED
    BY <1>u, <2>3, <2>6, <2>7 DEF TypeInv, ClientType, PcType, Running, Active
<1>14. CASE Server
  <2>1. StreamType'
    <3>1. CASE Serve
      BY <1>0, <3>1, ServeType
    <3>2. CASE ServerCloses
      BY <1>0, <3>2, EmptySequence, KeptReplies DEF ServerCloses, StreamType
    <3> QED
      BY <1>14, <3>1, <3>2 DEF Server
  <2> QED
    BY <1>u, <1>0, <1>14, <2>1
       DEF Server, clientVars, commandSet, TypeInv, ClientType, PcType, Running, cur
<1>15. CASE UNCHANGED vars
  <2>1. StreamType'
    BY <1>0, <1>15 DEF vars, serverVars, StreamType
  <2> QED
    BY <1>u, <1>0, <1>15, <2>1
       DEF vars, clientVars, commandSet, TypeInv, ClientType, PcType, Running, cur
<1> QED
  BY <1>1, <1>2, <1>3, <1>4, <1>5, <1>6, <1>7, <1>8, <1>9, <1>10, <1>11, <1>12, <1>13, <1>14,
     <1>15 DEF Next, Client

\* Every variable keeps its type, and a running send() is the last recorded.
THEOREM TypeCorrect == Spec => []TypeOK
<1>1. Spec => []TypeInv
  BY TypeInit, TypeNext, PTL DEF Spec
<1> QED
  BY <1>1, TypeInvImpliesTypeOK, PTL

-----------------------------------------------------------------------------
(***************************************************************************)
(* Message text reaches the server in data mode only.  The property speaks *)
(* of the head of the stream; what makes it inductive is that a 354 is a   *)
(* permission held once: it is in flight, or the client is writing text by *)
(* it, or the text and its end mark are in flight, and as long as one of   *)
(* these holds the server has not left data mode.                          *)
(***************************************************************************)
IsText(c) == c.verb \in {"TEXT", "EOM"}
WritesText == pc = "data" /\ ~message.chunked

\* Text in flight is expected, and none follows an end mark.
TextInv ==
  /\ \A i \in 1..Len(c2s) : IsText(c2s[i]) => srv.mode = "data"
  /\ \A i, j \in 1..Len(c2s) : i < j /\ c2s[i].verb = "EOM" => ~IsText(c2s[j])

\* A 354 in flight is the only one and nobody has used it.
GoAheadInv ==
  \A i \in 1..Len(s2c) : s2c[i].code = 354 =>
    /\ srv.mode = "data"
    /\ \A j \in 1..Len(c2s) : ~IsText(c2s[j])
    /\ ~WritesText
    /\ \A j \in 1..Len(s2c) : j # i => s2c[j].code # 354

WritingInv ==
  WritesText => srv.mode = "data" /\ \A i \in 1..Len(c2s) : c2s[i].verb # "EOM"

\* No text in the command queue, and DATA is the last command of an envelope
\* whose message is sent as text.
QueueInv ==
  /\ \A i \in 1..Len(m_commands) : ~IsText(m_commands[i])
  /\ pc \in {"write", "reply"} /\ ~message.chunked =>
       IF m_commands = <<>> THEN m_lastCommandSent.verb = "DATA"
       ELSE m_commands[Len(m_commands)].verb = "DATA"
  /\ pc = "chunk" => message.chunked

StreamInv == TextInv /\ GoAheadInv /\ WritingInv
DataInv == TypeInv /\ StreamInv /\ QueueInv

\* Only an accepted DATA is answered with 354.
LEMMA AnswersApartFromData ==
  ASSUME NEW verb, verb # "DATA", NEW code \in Positive(verb) \cap ReplyCodes
  PROVE  code # 354
  BY DEF Positive

\* What a step of the server does to the two directions of the stream.
LEMMA ServerStep ==
  ASSUME StreamType, Serve
  PROVE  /\ c2s # <<>> /\ c2s' = Tail(c2s)
         /\ \/ /\ srv.mode = "command" /\ srv'.mode = "command"
               /\ \E r \in Replies : r.code # 354 /\ s2c' = Append(s2c, r)
            \/ /\ srv.mode = "command" /\ srv'.mode = "data"
               /\ \E r \in Replies : s2c' = Append(s2c, r)
            \/ /\ srv.mode = "data" /\ srv'.mode = "data"
               /\ Head(c2s).verb # "EOM" /\ s2c' = s2c
            \/ /\ srv.mode = "data" /\ srv'.mode = "command" /\ Head(c2s).verb = "EOM"
               /\ \E r \in Replies : r.code # 354 /\ s2c' = Append(s2c, r)
<1>1. c2s # <<>> /\ c2s' = Tail(c2s)
  BY DEF Serve, ServeReset, ServeMail, ServeRcpt, ServeData, ServeText, ServeEndOfData,
         ServeChunk, ServeLastChunk, DiscardChunk, ServeNoop, Refuse, Receives, Accept, Answer
<1>2. Request \in Commands
  BY <1>1 DEF Request, StreamType
<1>3. ASSUME NEW code \in Codes, Answer(code)
      PROVE  \E r \in Replies : r.code = code /\ s2c' = Append(s2c, r)
  <2>1. [code |-> code, to |-> Request] \in Replies
    BY <1>2 DEF Replies
  <2> QED
    BY <1>3, <2>1 DEF Answer
<1>4. ASSUME NEW verb, verb # "DATA", Accept(verb)
      PROVE  \E r \in Replies : r.code # 354 /\ s2c' = Append(s2c, r)
  BY <1>3, <1>4, PositiveType, AnswersApartFromData DEF Accept
<1>5. ASSUME Answer(Refusal) PROVE \E r \in Replies : r.code # 354 /\ s2c' = Append(s2c, r)
  BY <1>3, <1>5, CodesAssumption DEF Codes
<1>6. srv \in [mode : {"command", "data"}, mail : Nat, rcpts : SUBSET (Nat \X Nat),
               text : Seq(Commands)]
  BY DEF StreamType, Transactions
<1>7. CASE ServeReset
  BY <1>1, <1>4, <1>7 DEF ServeReset, Receives, NoTransaction
<1>8. CASE ServeMail
  BY <1>1, <1>4, <1>8 DEF ServeMail, Receives, NoTransaction
<1>9. CASE ServeRcpt
  BY <1>1, <1>4, <1>6, <1>9 DEF ServeRcpt, Receives
<1>10. CASE ServeData
  <2>1. \E r \in Replies : s2c' = Append(s2c, r)
    BY <1>3, <1>10, PositiveType DEF ServeData, Accept
  <2> QED
    BY <1>1, <1>6, <1>10, <2>1 DEF ServeData, Receives
<1>11. CASE ServeText
  BY <1>1, <1>6, <1>11 DEF ServeText, Receives, Request
<1>12. CASE ServeEndOfData
  BY <1>1, <1>4, <1>5, <1>12 DEF ServeEndOfData, Receives, NoTransaction, Request
<1>13. CASE ServeChunk
  BY <1>1, <1>4, <1>6, <1>13 DEF ServeChunk, Receives
<1>14. CASE ServeLastChunk
  BY <1>1, <1>4, <1>14 DEF ServeLastChunk, Receives, NoTransaction
<1>d. CASE DiscardChunk
  <2>1. Request.verb # "DATA"
    BY <1>d DEF DiscardChunk, Receives
  <2>2. \E r \in Replies : r.code # 354 /\ s2c' = Append(s2c, r)
    BY <1>4, <1>d, <2>1 DEF DiscardChunk
  <2> QED
    BY <1>1, <1>d, <2>2 DEF DiscardChunk, Receives, NoTransaction
<1>15. CASE ServeNoop
  BY <1>1, <1>4, <1>15 DEF ServeNoop, Receives
<1>16. CASE Refuse
  BY <1>1, <1>5, <1>16 DEF Refuse, Receives, NoTransaction
<1> QED
  BY <1>7, <1>8, <1>9, <1>10, <1>11, <1>12, <1>13, <1>14, <1>d, <1>15, <1>16 DEF Serve

\* What the server does keeps the streams in order.
LEMMA DataServe ==
  ASSUME StreamType, StreamInv, Serve, UNCHANGED clientVars
  PROVE  StreamInv'
<1>1. WritesText' = WritesText
  BY DEF WritesText, message, cur, clientVars
<1>2. c2s # <<>> /\ c2s' = Tail(c2s) /\ c2s \in Seq(Commands) /\ s2c \in Seq(Replies)
  BY ServerStep DEF StreamType
<1>3. /\ Len(c2s') = Len(c2s) - 1 /\ Head(c2s) = c2s[1] /\ Len(c2s) \in Nat \ {0}
      /\ \A i \in 1..Len(c2s') : i + 1 \in 1..Len(c2s) /\ c2s'[i] = c2s[i + 1]
  BY <1>2
<1>4. /\ \A i, j \in 1..Len(c2s) : i < j /\ c2s[i].verb = "EOM" => ~IsText(c2s[j])
      /\ \A i \in 1..Len(c2s) : IsText(c2s[i]) => srv.mode = "data"
  BY DEF StreamInv, TextInv
<1>5. \A i, j \in 1..Len(c2s') : i < j /\ c2s'[i].verb = "EOM" => ~IsText(c2s'[j])
  <2> SUFFICES ASSUME NEW i \in 1..Len(c2s'), NEW j \in 1..Len(c2s'), i < j,
                      c2s'[i].verb = "EOM"
               PROVE  ~IsText(c2s'[j])
    OBVIOUS
  <2> QED
    BY <1>3, <1>4
<1>6. ASSUME NEW r, s2c' = Append(s2c, r)
      PROVE  /\ Len(s2c') = Len(s2c) + 1 /\ s2c'[Len(s2c) + 1] = r
             /\ \A i \in 1..Len(s2c) : s2c'[i] = s2c[i]
  BY <1>2, <1>6
<1>7. CASE /\ srv.mode = "command" /\ srv'.mode = "command"
           /\ \E r \in Replies : r.code # 354 /\ s2c' = Append(s2c, r)
  <2>1. PICK r \in Replies : r.code # 354 /\ s2c' = Append(s2c, r)
    BY <1>7
  <2>2. \A i \in 1..Len(s2c) : s2c[i].code # 354
    BY <1>7 DEF StreamInv, GoAheadInv
  <2>3. \A i \in 1..Len(s2c') : s2c'[i].code # 354
    BY <1>2, <1>6, <2>1, <2>2
  <2>4. ~WritesText
    BY <1>7 DEF StreamInv, WritingInv
  <2>5. \A i \in 1..Len(c2s') : ~IsText(c2s'[i])
    BY <1>3, <1>4, <1>7
  <2> QED
    BY <1>1, <1>5, <2>3, <2>4, <2>5 DEF StreamInv, TextInv, GoAheadInv, WritingInv
<1>8. CASE /\ srv.mode = "command" /\ srv'.mode = "data"
           /\ \E r \in Replies : s2c' = Append(s2c, r)
  <2>1. PICK r \in Replies : s2c' = Append(s2c, r)
    BY <1>8
  <2>2. \A i \in 1..Len(s2c) : s2c[i].code # 354
    BY <1>8 DEF StreamInv, GoAheadInv
  <2>3. \A i \in 1..Len(s2c') : s2c'[i].code = 354 => i = Len(s2c')
    BY <1>2, <1>6, <2>1, <2>2
  <2>4. ~WritesText
    BY <1>8 DEF StreamInv, WritingInv
  <2>5. \A i \in 1..Len(c2s') : ~IsText(c2s'[i])
    BY <1>3, <1>4, <1>8
  <2>6. GoAheadInv'
    BY <1>1, <1>8, <2>3, <2>4, <2>5 DEF GoAheadInv
  <2> QED
    BY <1>1, <1>5, <1>8, <2>4, <2>5, <2>6 DEF StreamInv, TextInv, WritingInv
<1>9. CASE /\ srv.mode = "data" /\ srv'.mode = "data"
           /\ Head(c2s).verb # "EOM" /\ s2c' = s2c
  <2>1. GoAheadInv'
    BY <1>1, <1>3, <1>9, SMTT(60) DEF StreamInv, GoAheadInv
  <2>2. WritingInv'
    BY <1>1, <1>3, <1>9 DEF StreamInv, WritingInv
  <2> QED
    BY <1>5, <1>9, <2>1, <2>2 DEF StreamInv, TextInv
<1>10. CASE /\ srv.mode = "data" /\ srv'.mode = "command" /\ Head(c2s).verb = "EOM"
            /\ \E r \in Replies : r.code # 354 /\ s2c' = Append(s2c, r)
  <2>1. PICK r \in Replies : r.code # 354 /\ s2c' = Append(s2c, r)
    BY <1>10
  <2>2. 1 \in 1..Len(c2s) /\ c2s[1].verb = "EOM" /\ IsText(c2s[1])
    BY <1>3, <1>10 DEF IsText
  <2>3. \A i \in 1..Len(s2c) : s2c[i].code # 354
    BY <2>2 DEF StreamInv, GoAheadInv
  <2>4. \A i \in 1..Len(s2c') : s2c'[i].code # 354
    BY <1>2, <1>6, <2>1, <2>3
  <2>5. ~WritesText
    BY <2>2 DEF StreamInv, WritingInv
  <2>6. \A i \in 1..Len(c2s') : ~IsText(c2s'[i])
    <3> SUFFICES ASSUME NEW i \in 1..Len(c2s') PROVE ~IsText(c2s'[i])
      OBVIOUS
    <3>1. i + 1 \in 1..Len(c2s) /\ 1 < i + 1
      BY <1>3
    <3> QED
      BY <1>3, <1>4, <2>2, <3>1
  <2> QED
    BY <1>1, <1>5, <2>4, <2>5, <2>6 DEF StreamInv, TextInv, GoAheadInv, WritingInv
<1> QED
  BY ServerStep, <1>7, <1>8, <1>9, <1>10

NoText(q) == \A i \in 1..Len(q) : ~IsText(q[i])

\* Commands after commands have no text among them.
LEMMA NoTextConcat ==
  ASSUME NEW q \in Seq(Commands), NEW r \in Seq(Commands), NoText(q), NoText(r)
  PROVE  NoText(q \o r)
<1> SUFFICES ASSUME NEW i \in 1..Len(q \o r) PROVE ~IsText((q \o r)[i])
  BY DEF NoText
<1>1. CASE i \in 1..Len(q)
  BY <1>1 DEF NoText
<1>2. CASE i \notin 1..Len(q)
  <2>1. i - Len(q) \in 1..Len(r) /\ (q \o r)[i] = r[i - Len(q)]
    BY <1>2
  <2> QED
    BY <2>1 DEF NoText
<1> QED
  BY <1>1, <1>2

\* What is appended is last.
LEMMA LastOfConcat ==
  ASSUME NEW q \in Seq(Commands), NEW r \in Seq(Commands), Len(r) = 1
  PROVE  (q \o r)[Len(q \o r)] = r[1]
<1>1. /\ Len(q \o r) = Len(q) + Len(r)
      /\ \A i \in 1..Len(q) + Len(r) :
           (q \o r)[i] = IF i <= Len(q) THEN q[i] ELSE r[i - Len(q)]
  BY ConcatProperties, Zenon
<1>2. Len(q) \in Nat
  OBVIOUS
<1> DEFINE n == Len(q)
<1>3. n + 1 \in 1..n + 1 /\ ~(n + 1 <= n) /\ (n + 1) - n = 1
  BY <1>2
<1>4. (q \o r)[n + 1] = r[(n + 1) - n]
  BY <1>1, <1>3
<1> QED
  BY <1>1, <1>3, <1>4

\* An envelope has no message text, and ends with the DATA it was asked for.
LEMMA EnvelopeContents ==
  ASSUME NEW tx \in Nat, NEW n \in Nat, NEW d \in BOOLEAN, m_needReset \in BOOLEAN
  PROVE  LET q == Envelope(tx, n, d) IN
         NoText(q) /\ (d => q[Len(q)].verb = "DATA")
<1> DEFINE reset == IF m_needReset THEN <<Command("RSET", tx, 0)>> ELSE <<>>
           mail  == <<Command("MAIL", tx, 0)>>
           data  == IF d THEN <<Command("DATA", tx, 0)>> ELSE <<>>
           first == reset \o mail \o Recipients(tx, n)
<1>1. Recipients(tx, n) \in Seq(Commands) /\ NoText(Recipients(tx, n))
  <2>1. \A i \in 1..n : Command("RCPT", tx, i) \in Commands
    BY CommandType DEF Verbs
  <2>2. Recipients(tx, n) \in Seq(Commands)
    BY <2>1 DEF Recipients
  <2>3. Len(Recipients(tx, n)) = n
    BY DEF Recipients
  <2> QED
    BY <2>2, <2>3 DEF Recipients, NoText, IsText, Command
<1>2. /\ Command("RSET", tx, 0) \in Commands
      /\ Command("MAIL", tx, 0) \in Commands
      /\ Command("DATA", tx, 0) \in Commands
  BY CommandType DEF Verbs
<1>3. reset \in Seq(Commands) /\ mail \in Seq(Commands) /\ data \in Seq(Commands)
  BY <1>2, EmptySequence
<1>4. NoText(reset) /\ NoText(mail) /\ NoText(data)
  BY DEF NoText, IsText, Command
<1>5. d => Len(data) = 1 /\ data[1].verb = "DATA"
  BY DEF Command
<1>6. Envelope(tx, n, d) = first \o data
  BY DEF Envelope
<1> HIDE DEF reset, mail, data
<1>7. reset \o mail \in Seq(Commands) /\ NoText(reset \o mail)
  BY <1>3, <1>4, NoTextConcat
<1>8. first \in Seq(Commands) /\ NoText(first)
  <2> DEFINE opening == reset \o mail
  <2>1. opening \in Seq(Commands) /\ NoText(opening) /\ first = opening \o Recipients(tx, n)
    BY <1>7
  <2> HIDE DEF opening
  <2>2. opening \o Recipients(tx, n) \in Seq(Commands)
    BY <1>1, <2>1
  <2>3. NoText(opening \o Recipients(tx, n))
    BY <1>1, <2>1, NoTextConcat
  <2> QED
    BY <2>1, <2>2, <2>3
<1> HIDE DEF first
<1>9. NoText(first \o data)
  BY <1>3, <1>4, <1>8, NoTextConcat
<1>10. d => (first \o data)[Len(first \o data)] = data[1]
  BY <1>3, <1>5, <1>8, LastOfConcat
<1> QED
  BY <1>5, <1>6, <1>9, <1>10

\* Writing anything but text disturbs nothing.
LEMMA WritePlain ==
  ASSUME StreamType, StreamInv, NEW q \in Seq(Commands), NoText(q), Write(q),
         UNCHANGED <<srv, s2c>>, WritesText' => WritesText
  PROVE  StreamInv'
<1>1. CASE c2s' = c2s
  BY <1>1 DEF StreamInv, TextInv, GoAheadInv, WritingInv
<1>2. CASE c2s' = c2s \o q
  <2>1. c2s \in Seq(Commands)
    BY DEF StreamType
  <2>2. /\ Len(c2s') = Len(c2s) + Len(q)
        /\ \A i \in 1..Len(c2s') : \/ i \in 1..Len(c2s) /\ c2s'[i] = c2s[i]
                                   \/ i - Len(c2s) \in 1..Len(q) /\ c2s'[i] = q[i - Len(c2s)]
    BY <1>2, <2>1
  <2>3. \A i \in 1..Len(c2s') : \/ i \in 1..Len(c2s) /\ c2s'[i] = c2s[i]
                              \/ ~IsText(c2s'[i])
    BY <2>2 DEF NoText
  <2>4. TextInv'
    <3>1. \A i \in 1..Len(c2s') : IsText(c2s'[i]) => srv'.mode = "data"
      BY <2>3 DEF StreamInv, TextInv
    <3>2. \A i, j \in 1..Len(c2s') : i < j /\ c2s'[i].verb = "EOM" => ~IsText(c2s'[j])
      BY <2>3 DEF StreamInv, TextInv, IsText
    <3> QED
      BY <3>1, <3>2 DEF TextInv
  <2>5. GoAheadInv'
    BY <2>3 DEF StreamInv, GoAheadInv
  <2>6. WritingInv'
    BY <2>3 DEF StreamInv, WritingInv, IsText
  <2> QED
    BY <2>4, <2>5, <2>6 DEF StreamInv
<1> QED
  BY <1>1, <1>2 DEF Write

\* Neither does reading a reply, as long as it is not a permission.
LEMMA ReadPlain ==
  ASSUME StreamType, StreamInv, s2c # <<>>, s2c' = Tail(s2c), UNCHANGED <<srv, c2s>>,
         WritesText' => WritesText
  PROVE  StreamInv'
<1>1. /\ s2c \in Seq(Replies) /\ Len(s2c') = Len(s2c) - 1
      /\ \A i \in 1..Len(s2c') : i + 1 \in 1..Len(s2c) /\ s2c'[i] = s2c[i + 1]
  BY DEF StreamType
<1>2. TextInv' /\ WritingInv'
  BY DEF StreamInv, TextInv, WritingInv
<1>3. GoAheadInv'
  <2> SUFFICES ASSUME NEW i \in 1..Len(s2c'), s2c'[i].code = 354
               PROVE  /\ srv'.mode = "data"
                      /\ \A j \in 1..Len(c2s') : ~IsText(c2s'[j])
                      /\ ~WritesText'
                      /\ \A j \in 1..Len(s2c') : j # i => s2c'[j].code # 354
    BY DEF GoAheadInv
  <2>1. i + 1 \in 1..Len(s2c) /\ s2c[i + 1].code = 354
    BY <1>1
  <2>2. \A j \in 1..Len(s2c') : j # i => s2c[j + 1].code # 354
    BY <1>1, <2>1 DEF StreamInv, GoAheadInv
  <2> QED
    BY <1>1, <2>1, <2>2 DEF StreamInv, GoAheadInv
<1> QED
  BY <1>2, <1>3 DEF StreamInv

\* With nothing under way the streams are in order.
LEMMA NothingInFlight ==
  ASSUME c2s = <<>>, s2c = <<>>, ~WritesText PROVE StreamInv
<1>1. Len(c2s) = 0 /\ Len(s2c) = 0
  OBVIOUS
<1> QED
  BY <1>1 DEF StreamInv, TextInv, GoAheadInv, WritingInv

\* Every step keeps the streams and the queue in order.
LEMMA DataNext == DataInv /\ [Next]_vars => DataInv'
<1> SUFFICES ASSUME DataInv, [Next]_vars PROVE DataInv'
  OBVIOUS
<1>0. /\ TypeInv /\ ClientType /\ StreamType /\ Running /\ StreamInv /\ QueueInv
      /\ TypeInv'
  BY TypeNext DEF DataInv, TypeInv
<1>1. CASE connect
  <2>1. StreamInv'
    BY <1>1, NothingInFlight DEF connect, StreamInv, TextInv, GoAheadInv, WritingInv, WritesText
  <2>2. QueueInv'
    BY <1>0, <1>1 DEF connect, QueueInv, commandSet
  <2> QED
    BY <1>0, <2>1, <2>2 DEF DataInv
<1>2. CASE disconnect
  <2>1. StreamInv'
    BY <1>2, NothingInFlight
       DEF disconnect, Hangup, StreamInv, TextInv, GoAheadInv, WritingInv, WritesText
  <2>2. QueueInv'
    BY <1>0, <1>2 DEF disconnect, Hangup, QueueInv, commandSet
  <2> QED
    BY <1>0, <2>1, <2>2 DEF DataInv
<1>3. CASE noop
  <2>1. <<None>> \in Seq(Commands) /\ NoText(<<None>>)
    BY CommandType DEF None, Verbs, NoText, IsText, Command
  <2>2. StreamInv'
    BY <1>0, <1>3, <2>1, WritePlain DEF noop, WritesText
  <2>3. QueueInv'
    BY <1>0, <1>3 DEF noop, QueueInv, commandSet
  <2> QED
    BY <1>0, <2>2, <2>3 DEF DataInv
<1>4. ASSUME NEW n \in 1..MaxRecipients, NEW blocks \in 0..MaxBlocks, NEW chunked \in BOOLEAN,
             sendEnvelope(n, blocks, chunked)
      PROVE  DataInv'
  <2>1. StreamInv'
    BY <1>0, <1>4 DEF sendEnvelope, serverVars, StreamInv, TextInv, GoAheadInv, WritingInv,
                      WritesText
  <2>2. n \in Nat /\ cur \in Nat /\ cur + 1 \in Nat /\ m_needReset \in BOOLEAN
    BY <1>0, ParametersAssumption DEF cur, ClientType, SessionType
  <2>3. /\ m_commands' = Envelope(cur + 1, n, ~chunked)
        /\ m_commands' \in Seq(Commands) /\ m_commands' # <<>>
        /\ NoText(m_commands')
        /\ ~chunked => m_commands'[Len(m_commands')].verb = "DATA"
    BY <1>4, <2>2, EnvelopeType, EnvelopeContents DEF sendEnvelope
  <2>4. message'.chunked = chunked
    BY <1>0, <1>4, <2>2 DEF sendEnvelope, message, cur, ClientType
  <2>5. QueueInv'
    BY <1>4, <2>3, <2>4 DEF sendEnvelope, QueueInv, NoText
  <2> QED
    BY <1>0, <2>1, <2>5 DEF DataInv
<1>5. CASE writeToSocket
  <2>1. /\ m_commands # <<>> /\ m_commands \in Seq(Commands) /\ NoText(m_commands)
        /\ Len(m_commands) \in Nat \ {0} /\ Head(m_commands) = m_commands[1]
        /\ Head(m_commands) \in Commands
    BY <1>0, <1>5 DEF writeToSocket, Running, ClientType, CommandSetType, QueueInv, NoText
  <2>2. /\ Len(m_commands') = Len(m_commands) - 1
        /\ \A i \in 1..Len(m_commands') : m_commands'[i] = m_commands[i + 1]
    BY <1>5, <2>1 DEF writeToSocket
  <2>3. <<Head(m_commands)>> \in Seq(Commands) /\ NoText(<<Head(m_commands)>>)
    BY <2>1 DEF NoText
  <2>4. <<>> \in Seq(Commands) /\ NoText(<<>>)
    BY EmptySequence DEF NoText
  <2>5. StreamInv'
    BY <1>0, <1>5, <2>1, <2>3, <2>4, WritePlain DEF writeToSocket, WritesText
  <2>6. message' = message
    BY <1>5 DEF writeToSocket, message, cur
  <2>7. QueueInv'
    <3>1. \A i \in 1..Len(m_commands') : ~IsText(m_commands'[i])
      BY <2>1, <2>2 DEF NoText
    <3>2. ASSUME ~message.chunked
          PROVE  IF m_commands' = <<>> THEN m_lastCommandSent'.verb = "DATA"
                 ELSE m_commands'[Len(m_commands')].verb = "DATA"
      <4>1. m_commands[Len(m_commands)].verb = "DATA"
        BY <1>0, <1>5, <2>1, <3>2 DEF writeToSocket, QueueInv
      <4>2. CASE m_commands' = <<>>
        <5>1. Len(m_commands) = 1
          BY <2>1, <2>2, <4>2
        <5> QED
          BY <1>5, <2>1, <4>1, <4>2, <5>1 DEF writeToSocket
      <4>3. CASE m_commands' # <<>>
        <5>1. m_commands' \in Seq(Commands)
          BY <1>5, <2>1 DEF writeToSocket
        <5>2. Len(m_commands') \in 1..Len(m_commands')
          BY <4>3, <5>1
        <5> QED
          BY <2>1, <2>2, <4>1, <4>3, <5>2
      <4> QED
        BY <4>2, <4>3
    <3> QED
      BY <1>5, <2>6, <3>1, <3>2 DEF writeToSocket, QueueInv
  <2> QED
    BY <1>0, <2>5, <2>7 DEF DataInv
<1>6. CASE replyAccepted
  <2>1. s2c # <<>> /\ s2c' = Tail(s2c) /\ s2c \in Seq(Replies) /\ pc = "reply"
        /\ UNCHANGED <<sends, m_commands, m_lastCommandSent, srv, c2s>>
    BY <1>0, <1>6 DEF replyAccepted, ReadReply, StreamType, commandSet
  <2>2. message' = message
    BY <2>1 DEF message, cur
  <2>3. QueueInv'
    BY <1>0, <1>6, <2>1, <2>2 DEF replyAccepted, QueueInv
  <2>4. CASE ~WritesText'
    BY <1>0, <2>1, <2>3, <2>4, ReadPlain DEF DataInv
  <2>5. CASE WritesText'
    <3>1. m_commands = <<>> /\ ~message.chunked /\ m_lastCommandSent.verb = "DATA"
      BY <1>0, <1>6, <2>1, <2>2, <2>5 DEF replyAccepted, WritesText, QueueInv
    <3>2. 1 \in 1..Len(s2c) /\ s2c[1].code = 354
      BY <1>6, <2>1, <3>1 DEF replyAccepted, Accepts, Code
    <3>3. /\ srv.mode = "data"
          /\ \A j \in 1..Len(c2s) : ~IsText(c2s[j])
          /\ \A j \in 1..Len(s2c) : j # 1 => s2c[j].code # 354
      BY <1>0, <3>2 DEF StreamInv, GoAheadInv
    <3>4. \A j \in 1..Len(s2c') : j + 1 \in 1..Len(s2c) /\ j + 1 # 1 /\ s2c'[j] = s2c[j + 1]
      BY <2>1
    <3>5. \A j \in 1..Len(s2c') : s2c'[j].code # 354
      BY <3>3, <3>4
    <3>6. GoAheadInv'
      BY <3>5 DEF GoAheadInv
    <3>7. TextInv' /\ WritingInv'
      BY <1>0, <2>1, <3>3 DEF StreamInv, TextInv, WritingInv, IsText
    <3> QED
      BY <1>0, <2>3, <3>6, <3>7 DEF DataInv, StreamInv
  <2> QED
    BY <2>4, <2>5
<1>7. ASSUME chunkAccepted \/ chunkAnswered \/ noopAnswered PROVE DataInv'
  <2>1. s2c # <<>> /\ s2c' = Tail(s2c) /\ UNCHANGED <<sends, commandSet, srv, c2s>>
    BY <1>7 DEF chunkAccepted, chunkAnswered, noopAnswered, ReadReply
  <2>2. message' = message
    BY <2>1 DEF message, cur
  <2>3. ~WritesText' /\ pc' \notin {"write", "reply", "chunk"}
    BY <1>0, <1>7, <2>2
       DEF chunkAccepted, chunkAnswered, noopAnswered, ReadReply, QueueInv, WritesText
  <2>4. StreamInv'
    BY <1>0, <2>1, <2>3, ReadPlain
  <2>5. QueueInv'
    BY <1>0, <2>1, <2>3 DEF QueueInv, commandSet
  <2> QED
    BY <1>0, <2>4, <2>5 DEF DataInv
<1>8. ASSUME replyRefused \/ messageRefused \/ messageAccepted PROVE DataInv'
  <2>1. s2c # <<>> /\ s2c' = Tail(s2c) /\ UNCHANGED <<commandSet, srv, c2s>> /\ pc' = "idle"
    BY <1>8 DEF replyRefused, messageRefused, messageAccepted, ReadReply, Throw
  <2>2. StreamInv'
    BY <1>0, <2>1, ReadPlain DEF WritesText
  <2>3. QueueInv'
    BY <1>0, <2>1 DEF QueueInv, commandSet
  <2> QED
    BY <1>0, <2>2, <2>3 DEF DataInv
<1>9. ASSUME resetRefused \/ chunkRefused PROVE DataInv'
  <2>1. StreamInv'
    BY <1>9 DEF resetRefused, chunkRefused, Hangup, StreamInv, TextInv, GoAheadInv, WritingInv,
                WritesText
  <2>2. QueueInv'
    BY <1>0, <1>9 DEF resetRefused, chunkRefused, Hangup, QueueInv, commandSet
  <2> QED
    BY <1>0, <2>1, <2>2 DEF DataInv
<1>10. ASSUME writeBlock \/ writeEnd PROVE DataInv'
  <2>1. pc = "data" /\ UNCHANGED <<sends, commandSet, srv, s2c>>
    BY <1>10 DEF writeBlock, writeEnd
  <2>2. message' = message
    BY <2>1 DEF message, cur
  <2>3. QueueInv'
    BY <1>0, <1>10, <2>1, <2>2 DEF writeBlock, writeEnd, awaitsEachChunk, QueueInv, commandSet
  <2>4. cur \in Nat /\ block + 1 \in Nat
    BY <1>0 DEF cur, ClientType, DataType
  <2>5. CASE message.chunked
    <3>1. \A verb \in {"BDAT", "LAST"} : /\ <<Command(verb, cur, block + 1)>> \in Seq(Commands)
                                         /\ NoText(<<Command(verb, cur, block + 1)>>)
      BY <2>4, CommandType DEF Verbs, NoText, IsText, Command
    <3>2. ~WritesText'
      BY <2>2, <2>5 DEF WritesText
    <3>3. StreamInv'
      BY <1>0, <1>10, <2>1, <2>5, <3>1, <3>2, WritePlain DEF writeBlock, writeEnd
    <3> QED
      BY <1>0, <2>3, <3>3 DEF DataInv
  <2>6. CASE ~message.chunked
    <3>1. WritesText
      BY <2>1, <2>6 DEF WritesText
    <3>2. /\ srv.mode = "data"
          /\ \A i \in 1..Len(c2s) : c2s[i].verb # "EOM"
          /\ \A i \in 1..Len(s2c) : s2c[i].code # 354
      BY <1>0, <3>1 DEF StreamInv, WritingInv, GoAheadInv
    <3>3. GoAheadInv'
      BY <2>1, <3>2 DEF GoAheadInv
    <3>4. PICK c \in Commands : /\ Write(<<c>>)
                                /\ c.verb = "EOM" => writeEnd
      <4>1. CASE writeBlock
        <5>1. Command("TEXT", cur, block + 1) \in Commands
          BY <2>4, CommandType DEF Verbs
        <5> QED
          BY <2>6, <4>1, <5>1 DEF writeBlock, Command
      <4>2. CASE writeEnd
        <5>1. Command("EOM", cur, block + 1) \in Commands
          BY <2>4, CommandType DEF Verbs
        <5> QED
          BY <2>6, <4>2, <5>1 DEF writeEnd, Command
      <4> QED
        BY <1>10, <4>1, <4>2
    <3>5. writeEnd => ~WritesText'
      BY DEF writeEnd, WritesText
    <3>6. CASE c2s' = c2s
      <4>1. TextInv' /\ WritingInv'
        BY <1>0, <2>1, <3>2, <3>6 DEF StreamInv, TextInv, WritingInv
      <4> QED
        BY <1>0, <2>3, <3>3, <4>1 DEF DataInv, StreamInv
    <3>7. CASE c2s' = c2s \o <<c>>
      <4>1. /\ Len(c2s) \in Nat /\ Len(c2s') = Len(c2s) + 1
            /\ \A i \in 1..Len(c2s) : c2s'[i] = c2s[i]
            /\ c2s'[Len(c2s) + 1] = c
        <5>1. c2s \in Seq(Commands)
          BY <1>0 DEF StreamType
        <5> QED
          BY <3>7, <5>1
      <4>2. \A i \in 1..Len(c2s') : c2s'[i].verb = "EOM" => i = Len(c2s') /\ writeEnd
        BY <3>2, <3>4, <4>1
      <4>3. TextInv'
        BY <2>1, <3>2, <4>1, <4>2 DEF TextInv
      <4>4. WritingInv'
        BY <2>1, <3>2, <3>5, <4>2 DEF WritingInv
      <4> QED
        BY <1>0, <2>3, <3>3, <4>3, <4>4 DEF DataInv, StreamInv
    <3> QED
      BY <3>4, <3>6, <3>7 DEF Write
  <2> QED
    BY <2>5, <2>6
<1>11. ASSUME timedOut \/ socketFails \/ sourceFails PROVE DataInv'
  <2>1. pc' = "idle" /\ UNCHANGED <<commandSet, srv, c2s>>
    BY <1>11 DEF timedOut, socketFails, sourceFails, Fail, Throw, serverVars
  <2>2. s2c \in Seq(Replies) /\ Refusal # 354
    BY <1>0, CodesAssumption DEF StreamType
  <2>3. /\ Len(s2c') <= Len(s2c) /\ Len(s2c') \in Nat
        /\ \A i \in 1..Len(s2c') : s2c'[i].code = 354 => s2c[i].code = 354
    <3>1. CASE s2c' = s2c
      BY <2>2, <3>1
    <3>2. CASE s2c' = <<>>
      BY <2>2, <3>2
    <3>3. CASE s2c # <<>> /\ s2c' = [s2c EXCEPT ![1].code = Refusal]
      <4>1. Len(s2c') = Len(s2c) /\ \A i \in 1..Len(s2c) : i # 1 => s2c'[i] = s2c[i]
        BY <2>2, <3>3
      <4>2. 1 \in 1..Len(s2c) /\ s2c[1] \in Replies
        BY <2>2, <3>3
      <4>3. s2c'[1].code = Refusal
        BY <2>2, <3>3, <4>2 DEF Replies
      <4> QED
        BY <2>2, <4>1, <4>3
    <3> QED
      BY <1>11, <3>1, <3>2, <3>3 DEF timedOut, socketFails, sourceFails, serverVars
  <2>4. StreamInv'
    BY <1>0, <2>1, <2>3 DEF StreamInv, TextInv, GoAheadInv, WritingInv, WritesText
  <2>5. QueueInv'
    BY <1>0, <2>1 DEF QueueInv, commandSet
  <2> QED
    BY <1>0, <2>4, <2>5 DEF DataInv
<1>12. CASE Server
  <2>1. UNCHANGED <<pc, sends, commandSet>>
    BY <1>12 DEF Server, clientVars
  <2>2. QueueInv'
    BY <1>0, <2>1 DEF QueueInv, commandSet, message, cur
  <2>3. CASE Serve
    BY <1>0, <1>12, <2>2, <2>3, DataServe DEF Server, DataInv
  <2>4. CASE ServerCloses
    <3>1. PICK n \in 0..Len(s2c) : s2c' = SubSeq(s2c, 1, n)
      BY <2>4 DEF ServerCloses
    <3>2. Len(s2c') \in 0..Len(s2c) /\ \A i \in 1..Len(s2c') : s2c'[i] = s2c[i]
      BY <1>0, <3>1, KeptReplies DEF StreamType
    <3>3. s2c \in Seq(Replies)
      BY <1>0 DEF StreamType
    <3>4. StreamInv'
      BY <1>0, <2>1, <2>4, <3>2, <3>3
         DEF ServerCloses, StreamInv, TextInv, GoAheadInv, WritingInv, WritesText, message, cur
    <3> QED
      BY <1>0, <2>2, <3>4 DEF DataInv
  <2> QED
    BY <1>12, <2>3, <2>4 DEF Server
<1>13. CASE UNCHANGED vars
  BY <1>0, <1>13 DEF vars, clientVars, serverVars, commandSet, DataInv, StreamInv, QueueInv,
     TextInv, GoAheadInv, WritingInv, WritesText, message, cur
<1> QED
  BY <1>1, <1>2, <1>3, <1>4, <1>5, <1>6, <1>7, <1>8, <1>9, <1>10, <1>11, <1>12, <1>13
     DEF Next, Client

\* No line of a message is ever read by the server as an SMTP command, and no
\* end mark without the data mode it ends: whatever the server refuses, however
\* replies are delayed, lost to a time-out or left unread, pipelined or not.
THEOREM MessageTextIsNeverACommand == Spec => []MessageTextOnlyInDataMode
<1>1. Init => DataInv
  <2> SUFFICES ASSUME Init PROVE DataInv
    OBVIOUS
  <2>1. StreamInv
    BY NothingInFlight DEF Init, WritesText
  <2>2. Len(m_commands) = 0 /\ pc = "none"
    BY DEF Init
  <2>3. QueueInv
    BY <2>2 DEF QueueInv
  <2> QED
    BY <2>1, <2>3, TypeInit DEF DataInv
<1>2. DataInv => MessageTextOnlyInDataMode
  <2> SUFFICES ASSUME DataInv, c2s # <<>>, IsText(Head(c2s)) PROVE srv.mode = "data"
    BY DEF MessageTextOnlyInDataMode, IsText
  <2>1. 1 \in 1..Len(c2s) /\ Head(c2s) = c2s[1]
    BY DEF DataInv, TypeInv, StreamType
  <2> QED
    BY <2>1 DEF DataInv, StreamInv, TextInv
<1> QED
  BY <1>1, <1>2, DataNext, PTL DEF Spec

-----------------------------------------------------------------------------
(* A send() that began on a quiet connection and returns has delivered its
   message.  What a send() writes is a script that its message determines:
   item 0 is RSET, item 1 MAIL, then the recipients, DATA if the message is
   sent as text, the blocks of the message and the item that ends it.  The
   argument counts: r is the item whose reply the client reads next, w the
   item it writes next, w - Len(c2s) the item the server serves next, and the
   script says what each of them is. *)

\* The item of the first block of the message, and the item that ends it.
TextStart(m) == m.to + 2 + (IF m.chunked THEN 0 ELSE 1)
Final(m) == TextStart(m) + m.blocks

VerbOf(m, k) ==
  IF k = 0 THEN "RSET" ELSE IF k = 1 THEN "MAIL"
  ELSE IF k <= m.to + 1 THEN "RCPT" ELSE IF k < TextStart(m) THEN "DATA"
  ELSE IF k < Final(m) THEN (IF m.chunked THEN "BDAT" ELSE "TEXT")
  ELSE (IF m.chunked THEN "LAST" ELSE "EOM")
ArgOf(m, k) ==
  IF k < 2 THEN 0 ELSE IF k <= m.to + 1 THEN k - 1
  ELSE IF k < TextStart(m) THEN 0 ELSE k - TextStart(m) + 1
Item(t, m, k) == Command(VerbOf(m, k), t, ArgOf(m, k))

\* q is the script from item k on; the replies q answer it from item k on.
Writes(q, t, m, k) == \A i \in 1..Len(q) : q[i] = Item(t, m, k + i - 1)
Answers(q, t, m, k) == \A i \in 1..Len(q) : q[i].to = Item(t, m, k + i - 1)

\* The transaction of a server that has accepted every item before item k.
TextAt(t, m, k) ==
  [i \in 1..(IF k < TextStart(m) THEN 0 ELSE k - TextStart(m)) |-> Item(t, m, TextStart(m) + i - 1)]
RcptsAt(t, m, k) == {<<t, i>> : i \in {j \in 1..m.to : j + 1 < k}}
TransactionAt(t, m, k) ==
  [mode |-> IF ~m.chunked /\ k >= TextStart(m) THEN "data" ELSE "command",
   mail |-> t, rcpts |-> RcptsAt(t, m, k), text |-> TextAt(t, m, k)]

\* Nothing the server has said so far refuses an item of this send.
Accepted(m, r) ==
  /\ r >= TextStart(m) => ~invalidReply
  /\ \A i \in 1..Len(s2c) : s2c[i].code # Refusal

\* What the client's progress can be.
Shape(m, r, w) ==
  /\ r \in Nat /\ w \in Nat /\ r <= w /\ w <= Final(m) + 1
  /\ w > TextStart(m) => r >= TextStart(m)
  /\ ~m.chunked /\ w > TextStart(m) => r = IF w = Final(m) + 1 THEN Final(m) ELSE w
  /\ ~m.chunked /\ r >= TextStart(m) => ~invalidReply

\* Replies and commands in flight are the script's, in its order.  Text is not
\* answered until it ends.
Wire(t, m, r, w) ==
  /\ Answers(s2c, t, m, r) /\ Writes(c2s, t, m, w - Len(c2s))
  /\ ~alive => c2s = <<>> /\ r + Len(s2c) <= w
  /\ alive => \/ r + Len(s2c) = w - Len(c2s)
              \/ /\ s2c = <<>> /\ ~m.chunked
                 /\ TextStart(m) <= w - Len(c2s) /\ w - Len(c2s) <= r

\* As long as nothing was refused the server's transaction is the one the items
\* it has served make up; after a refused chunk it has no recipients.
Transaction(t, m, r, v) ==
  /\ srv.mode = "data" => /\ ~m.chunked /\ TextStart(m) <= v /\ v <= Final(m)
                          /\ s2c # <<>> => s2c[Len(s2c)].code = 354
  /\ Accepted(m, r) /\ 2 <= v /\ v <= Final(m) => srv = TransactionAt(t, m, v)
  /\ Accepted(m, r) /\ v = 1 => srv.mail = 0
  /\ m.chunked /\ r >= TextStart(m) /\ ~Accepted(m, r) => srv.rcpts = {}

\* The message m of send t as the server delivers it.
SentText(t, m) ==
  TextAt(t, m, Final(m)) \o (IF m.chunked THEN <<Item(t, m, Final(m))>> ELSE <<>>)
SentMessage(t, m) == [text |-> SentText(t, m), rcpts |-> RcptsAt(t, m, Final(m))]

\* A favourable reply to the last item means that the message is delivered.
Delivery(t, m, r) ==
  r <= Final(m) /\ r + Len(s2c) = Final(m) + 1 /\ Accepted(m, r)
    => SentMessage(t, m) \in delivered

Dialogue(t, m, r, w) ==
  /\ Shape(m, r, w) /\ Wire(t, m, r, w)
  /\ alive => Transaction(t, m, r, w - Len(c2s))
  /\ Delivery(t, m, r)

-----------------------------------------------------------------------------
\* Numbers of a script.
LEMMA ScriptNumbers ==
  ASSUME NEW m \in Submissions
  PROVE  /\ m.to \in Nat /\ m.to >= 1
         /\ m.blocks \in Nat /\ m.chunked \in BOOLEAN /\ m.quiet \in BOOLEAN
         /\ TextStart(m) \in Nat /\ Final(m) \in Nat
         /\ m.chunked => TextStart(m) = m.to + 2
         /\ ~m.chunked => TextStart(m) = m.to + 3
         /\ Final(m) = TextStart(m) + m.blocks
  BY DEF Submissions, TextStart, Final

\* Which item has which verb.
LEMMA ItemVerbs ==
  ASSUME NEW m \in Submissions, NEW t \in Nat, NEW k \in Nat, k <= Final(m)
  PROVE  /\ Item(t, m, k) \in Commands
         /\ Item(t, m, k).tx = t
         /\ Item(t, m, k).verb # "NOOP"
         /\ Item(t, m, k).verb = "RSET" <=> k = 0
         /\ Item(t, m, k).verb = "MAIL" <=> k = 1
         /\ Item(t, m, k).verb = "RCPT" <=> 2 <= k /\ k <= m.to + 1
         /\ Item(t, m, k).verb = "RCPT" => Item(t, m, k).arg = k - 1
         /\ Item(t, m, k).verb = "DATA" <=> ~m.chunked /\ k = m.to + 2
         /\ Item(t, m, k).verb = "TEXT" <=> ~m.chunked /\ TextStart(m) <= k /\ k < Final(m)
         /\ Item(t, m, k).verb = "BDAT" <=> m.chunked /\ TextStart(m) <= k /\ k < Final(m)
         /\ Item(t, m, k).verb = "EOM" <=> ~m.chunked /\ k = Final(m)
         /\ Item(t, m, k).verb = "LAST" <=> m.chunked /\ k = Final(m)
<1>1. /\ m.to \in Nat /\ m.blocks \in Nat /\ m.chunked \in BOOLEAN
      /\ TextStart(m) \in Nat /\ Final(m) \in Nat
      /\ m.chunked => TextStart(m) = m.to + 2
      /\ ~m.chunked => TextStart(m) = m.to + 3
      /\ Final(m) = TextStart(m) + m.blocks
  BY ScriptNumbers
<1>2. VerbOf(m, k) \in Verbs \ {"NOOP"}
  BY DEF VerbOf, Verbs
<1>3. ArgOf(m, k) \in Nat
  BY <1>1 DEF ArgOf
<1>4. /\ Item(t, m, k).verb = VerbOf(m, k) /\ Item(t, m, k).tx = t
      /\ Item(t, m, k).arg = ArgOf(m, k) /\ Item(t, m, k) \in Commands
  BY <1>2, <1>3, CommandType DEF Item, Command
<1>5. VerbOf(m, k) = "RCPT" => ArgOf(m, k) = k - 1
  BY <1>1 DEF VerbOf, ArgOf
<1> QED
  BY <1>1, <1>2, <1>4, <1>5 DEF VerbOf

\* The text of a message grows by a block.
LEMMA TextGrows ==
  ASSUME NEW m \in Submissions, NEW t \in Nat, NEW k \in Nat, TextStart(m) <= k
  PROVE  Append(TextAt(t, m, k), Item(t, m, k)) = TextAt(t, m, k + 1)
<1>1. TextStart(m) \in Nat
  BY ScriptNumbers
<1> DEFINE n == k - TextStart(m)
<1>2. n \in Nat /\ TextAt(t, m, k) = [i \in 1..n |-> Item(t, m, TextStart(m) + i - 1)]
  BY <1>1 DEF TextAt
<1>3. TextAt(t, m, k + 1) = [i \in 1..n + 1 |-> Item(t, m, TextStart(m) + i - 1)]
  BY <1>1 DEF TextAt
<1>4. TextStart(m) + (n + 1) - 1 = k
  BY <1>1
<1> HIDE DEF n
<1> QED
  BY <1>2, <1>3, <1>4

\* Reading takes the first reply, serving the first command.
LEMMA ScriptTail ==
  ASSUME NEW t, NEW m, NEW k \in Nat, NEW q, NEW S, q \in Seq(S), q # <<>>
  PROVE  /\ Len(Tail(q)) = Len(q) - 1 /\ Len(q) \in Nat /\ Len(q) > 0
         /\ Writes(q, t, m, k) => Writes(Tail(q), t, m, k + 1) /\ Head(q) = Item(t, m, k)
         /\ Answers(q, t, m, k) => Answers(Tail(q), t, m, k + 1) /\ Head(q).to = Item(t, m, k)
<1>1. /\ Len(Tail(q)) = Len(q) - 1 /\ Len(q) \in Nat /\ Len(q) > 0 /\ Head(q) = q[1]
      /\ \A i \in 1..Len(q) - 1 : i + 1 \in 1..Len(q) /\ Tail(q)[i] = q[i + 1]
  OBVIOUS
<1>2. \A i \in 1..Len(q) - 1 : k + (i + 1) - 1 = (k + 1) + i - 1
  BY <1>1
<1>3. 1 \in 1..Len(q) /\ k + 1 - 1 = k
  BY <1>1
<1> QED
  BY <1>1, <1>2, <1>3 DEF Writes, Answers

\* Writing more of the script.
LEMMA ScriptConcat ==
  ASSUME NEW t, NEW m, NEW k \in Nat, NEW q \in Seq(Commands), NEW r \in Seq(Commands),
         Writes(q, t, m, k), Writes(r, t, m, k + Len(q))
  PROVE  Writes(q \o r, t, m, k) /\ Len(q \o r) = Len(q) + Len(r)
<1>1. /\ Len(q \o r) = Len(q) + Len(r) /\ Len(q) \in Nat /\ Len(r) \in Nat
      /\ \A i \in 1..Len(q) + Len(r) :
           (q \o r)[i] = IF i <= Len(q) THEN q[i] ELSE r[i - Len(q)]
  BY ConcatProperties
<1>2. ASSUME NEW i \in 1..Len(q) + Len(r) PROVE (q \o r)[i] = Item(t, m, k + i - 1)
  <2>1. CASE i <= Len(q)
    BY <1>1, <2>1 DEF Writes
  <2>2. CASE ~(i <= Len(q))
    <3>1. i - Len(q) \in 1..Len(r) /\ (k + Len(q)) + (i - Len(q)) - 1 = k + i - 1
      BY <1>1, <2>2
    <3> QED
      BY <1>1, <2>2, <3>1 DEF Writes
  <2> QED
    BY <2>1, <2>2
<1> QED
  BY <1>1, <1>2 DEF Writes

-----------------------------------------------------------------------------
\* What the server serves next, and why it does not take a command for text or
\* text for a command.
LEMMA NextServed ==
  ASSUME NEW m \in Submissions, NEW t \in Nat, NEW r, NEW w, StreamType, alive,
         Dialogue(t, m, r, w), c2s # <<>>
  PROVE  LET v == w - Len(c2s) IN
         /\ r \in Nat /\ w \in Nat /\ v \in Nat /\ v < w /\ w <= Final(m) + 1 /\ v <= Final(m)
         /\ Len(c2s) \in Nat /\ Len(s2c) \in Nat
         /\ Request = Item(t, m, v) /\ Writes(Tail(c2s), t, m, v + 1)
         /\ Len(Tail(c2s)) = Len(c2s) - 1
         /\ srv.mode = "command" => r + Len(s2c) = v
         /\ srv.mode = "data" =>
              /\ s2c = <<>> /\ v <= r /\ ~m.chunked /\ TextStart(m) <= v /\ Accepted(m, r)
              /\ srv = TransactionAt(t, m, v)
              /\ r = IF w = Final(m) + 1 THEN Final(m) ELSE w
<1>0. PICK v : v = w - Len(c2s)
  OBVIOUS
<1>1. /\ m.to \in Nat /\ m.blocks \in Nat /\ m.chunked \in BOOLEAN
      /\ TextStart(m) \in Nat /\ Final(m) \in Nat /\ Final(m) = TextStart(m) + m.blocks
      /\ TextStart(m) >= 2
  BY ScriptNumbers
<1>2. /\ r \in Nat /\ w \in Nat /\ r <= w /\ w <= Final(m) + 1
      /\ ~m.chunked /\ w > TextStart(m) => r = IF w = Final(m) + 1 THEN Final(m) ELSE w
      /\ ~m.chunked /\ r >= TextStart(m) => ~invalidReply
  BY DEF Dialogue, Shape
<1>3. /\ Answers(s2c, t, m, r) /\ Writes(c2s, t, m, v)
      /\ \/ r + Len(s2c) = v
         \/ s2c = <<>> /\ ~m.chunked /\ TextStart(m) <= v /\ v <= r
  BY <1>0 DEF Dialogue, Wire
<1>4. Len(c2s) \in Nat /\ Len(s2c) \in Nat /\ Len(c2s) > 0 /\ (s2c = <<>> => Len(s2c) = 0)
      /\ (Len(s2c) = 0 => s2c = <<>>)
  BY DEF StreamType
<1>5. v \in Nat /\ v < w /\ v <= Final(m) /\ v + Len(c2s) = w
  <2>1. v \in Int /\ v < w /\ v <= Final(m) /\ v + Len(c2s) = w
    BY <1>0, <1>1, <1>2, <1>4, SMTT(60)
  <2>2. v >= 0
    BY <1>1, <1>2, <1>3, <1>4, <2>1
  <2> QED
    BY <2>1, <2>2
<1>6. c2s \in Seq(Commands) /\ srv.mode \in {"command", "data"}
  BY DEF StreamType, Transactions
<1>7. Request = Item(t, m, v) /\ Writes(Tail(c2s), t, m, v + 1) /\ Len(Tail(c2s)) = Len(c2s) - 1
  BY <1>3, <1>5, <1>6, ScriptTail DEF Request
<1>8. /\ srv.mode = "data" => ~m.chunked /\ TextStart(m) <= v /\ v <= Final(m)
      /\ Accepted(m, r) /\ 2 <= v /\ v <= Final(m) => srv = TransactionAt(t, m, v)
  BY <1>0 DEF Dialogue, Transaction
<1>9. s2c = <<>> /\ ~m.chunked /\ r >= TextStart(m) => Accepted(m, r)
  BY <1>2, <1>4 DEF Accepted
<1>10. ASSUME srv.mode = "command" PROVE r + Len(s2c) = v
  <2> SUFFICES ASSUME s2c = <<>> /\ ~m.chunked /\ TextStart(m) <= v /\ v <= r
               PROVE  FALSE
    BY <1>3
  <2>1. srv = TransactionAt(t, m, v)
    BY <1>1, <1>2, <1>5, <1>8, <1>9
  <2> QED
    BY <1>10, <2>1 DEF TransactionAt
<1>11. ASSUME srv.mode = "data"
       PROVE  /\ s2c = <<>> /\ v <= r /\ ~m.chunked /\ TextStart(m) <= v /\ Accepted(m, r)
              /\ srv = TransactionAt(t, m, v)
              /\ r = IF w = Final(m) + 1 THEN Final(m) ELSE w
  <2>1. ~m.chunked /\ TextStart(m) <= v
    BY <1>8, <1>11
  <2>2. r = IF w = Final(m) + 1 THEN Final(m) ELSE w
    BY <1>1, <1>2, <1>5, <2>1
  <2>3. v <= r /\ r >= TextStart(m)
    BY <1>1, <1>2, <1>5, <2>1, <2>2
  <2>4. s2c = <<>>
    BY <1>1, <1>2, <1>3, <1>4, <1>5, <2>2, <2>3
  <2> QED
    BY <1>1, <1>2, <1>5, <1>8, <1>9, <2>1, <2>2, <2>3, <2>4
<1> QED
  BY <1>0, <1>2, <1>4, <1>5, <1>7, <1>10, <1>11

\* In data mode the server collects the text of this message and delivers it.
LEMMA DialogueText ==
  ASSUME NEW m \in Submissions, NEW t \in Nat, NEW r, NEW w, StreamType,
         Dialogue(t, m, r, w), ServeText, UNCHANGED invalidReply
  PROVE  Dialogue(t, m, r, w)'
<1>1. /\ alive /\ c2s # <<>> /\ srv.mode = "data" /\ Request.verb # "EOM"
      /\ srv' = [srv EXCEPT !.text = Append(@, Request)]
      /\ c2s' = Tail(c2s) /\ UNCHANGED <<alive, s2c, delivered>>
  BY DEF ServeText, Receives
<1>0. PICK v : v = w - Len(c2s)
  OBVIOUS
<1>2. /\ r \in Nat /\ w \in Nat /\ v \in Nat /\ v < w /\ w <= Final(m) + 1 /\ v <= Final(m)
      /\ Len(c2s) \in Nat /\ Len(s2c) \in Nat
      /\ Request = Item(t, m, v) /\ Writes(c2s', t, m, v + 1)
      /\ Len(c2s') = Len(c2s) - 1
      /\ s2c = <<>> /\ v <= r /\ ~m.chunked /\ TextStart(m) <= v /\ Accepted(m, r)
      /\ srv = TransactionAt(t, m, v)
      /\ r = IF w = Final(m) + 1 THEN Final(m) ELSE w
  BY <1>0, <1>1, NextServed
<1>3. w - Len(c2s') = v + 1
  BY <1>0, <1>2
<1>4. /\ m.to \in Nat /\ m.blocks \in Nat /\ m.chunked \in BOOLEAN
      /\ TextStart(m) \in Nat /\ Final(m) \in Nat /\ TextStart(m) = m.to + 3
  BY <1>2, ScriptNumbers
<1>5. v < Final(m)
  BY <1>1, <1>2, <1>4, ItemVerbs
<1>6. Shape(m, r, w)' /\ Accepted(m, r)'
  BY <1>1 , <1>2 DEF Dialogue, Shape, Accepted
<1>7. Wire(t, m, r, w)'
  <2>1. v + 1 <= r /\ TextStart(m) <= v + 1
    BY <1>2, <1>4, <1>5
  <2> QED
    BY <1>1, <1>2, <1>3, <2>1 DEF Dialogue, Wire
<1>8. srv' = TransactionAt(t, m, v + 1)
  <2>1. Append(TextAt(t, m, v), Item(t, m, v)) = TextAt(t, m, v + 1)
    BY <1>2, TextGrows
  <2>2. RcptsAt(t, m, v) = RcptsAt(t, m, v + 1)
    BY <1>2, <1>4, SMTT(60) DEF RcptsAt
  <2>3. TextStart(m) <= v + 1
    BY <1>2, <1>4
  <2> QED
    BY <1>1, <1>2, <1>4, <2>1, <2>2, <2>3 DEF TransactionAt
<1>9. Transaction(t, m, r, v + 1)'
  <2>1. TextStart(m) <= v + 1 /\ v + 1 <= Final(m) /\ v + 1 # 1
    BY <1>2, <1>4, <1>5, SMTT(60)
  <2>2. s2c' = <<>> /\ ~m.chunked
    BY <1>1, <1>2
  <2> QED
    BY <1>6, <1>8, <2>1, <2>2 DEF Transaction
<1>10. Delivery(t, m, r)'
  BY <1>1, <1>2 DEF Dialogue, Delivery, Accepted
<1> QED
  BY <1>3, <1>6, <1>7, <1>9, <1>10 DEF Dialogue

\* The end of data ends the transaction, delivered or refused.
LEMMA DialogueEndOfData ==
  ASSUME NEW m \in Submissions, NEW t \in Nat, NEW r, NEW w, StreamType,
         Dialogue(t, m, r, w), ServeEndOfData, UNCHANGED invalidReply
  PROVE  Dialogue(t, m, r, w)'
<1>1. /\ alive /\ c2s # <<>> /\ srv.mode = "data" /\ Request.verb = "EOM"
      /\ srv' = NoTransaction /\ alive' = alive
      /\ \/ Accept("EOM") /\ Deliver(srv.text)
         \/ Answer(Refusal) /\ UNCHANGED delivered
  BY DEF ServeEndOfData, Receives
<1>0. PICK v : v = w - Len(c2s)
  OBVIOUS
<1>2. /\ r \in Nat /\ w \in Nat /\ v \in Nat /\ v < w /\ w <= Final(m) + 1 /\ v <= Final(m)
      /\ Len(c2s) \in Nat /\ Len(s2c) \in Nat
      /\ Request = Item(t, m, v) /\ Writes(Tail(c2s), t, m, v + 1)
      /\ Len(Tail(c2s)) = Len(c2s) - 1
      /\ s2c = <<>> /\ v <= r /\ ~m.chunked /\ TextStart(m) <= v /\ Accepted(m, r)
      /\ srv = TransactionAt(t, m, v)
      /\ r = IF w = Final(m) + 1 THEN Final(m) ELSE w
  BY <1>0, <1>1, NextServed
<1>3. w - Len(Tail(c2s)) = v + 1 /\ Len(Tail(c2s)) \in Nat
  BY <1>0, <1>1, <1>2 DEF StreamType
<1>4. /\ m.to \in Nat /\ m.blocks \in Nat /\ m.chunked \in BOOLEAN
      /\ TextStart(m) \in Nat /\ Final(m) \in Nat /\ TextStart(m) = m.to + 3
  BY <1>2, ScriptNumbers
<1>5. v = Final(m) /\ w = Final(m) + 1 /\ r = Final(m)
  BY <1>1, <1>2, <1>4, ItemVerbs
<1>6. PICK code : Answer(code) /\ (code # Refusal => Deliver(srv.text))
  BY <1>1 DEF Accept
<1>7. /\ c2s' = Tail(c2s) /\ s2c' = <<[code |-> code, to |-> Item(t, m, Final(m))]>>
      /\ Len(s2c') = 1 /\ s2c'[1].to = Item(t, m, Final(m)) /\ s2c'[1].code = code
  BY <1>2, <1>5, <1>6 DEF Answer
<1>8. Shape(m, r, w)'
  BY <1>1, <1>2 DEF Dialogue, Shape
<1>9. Wire(t, m, r, w)'
  BY <1>1, <1>2, <1>3, <1>4, <1>5, <1>7 DEF Wire, Answers
<1>10. Transaction(t, m, r, v + 1)'
  BY <1>1, <1>2, <1>4, <1>5 DEF Transaction, NoTransaction
<1>11. Delivery(t, m, r)'
  <2> SUFFICES ASSUME Accepted(m, r)' PROVE SentMessage(t, m) \in delivered'
    BY DEF Delivery
  <2>1. code # Refusal
    BY <1>7 DEF Accepted
  <2>2. srv.text = TextAt(t, m, Final(m)) /\ srv.rcpts = RcptsAt(t, m, Final(m))
    BY <1>2, <1>5 DEF TransactionAt
  <2>3. SentText(t, m) = TextAt(t, m, Final(m))
    <3>1. TextAt(t, m, Final(m)) \in Seq(Commands)
      <4>1. \A i \in 1..(Final(m) - TextStart(m)) :
               TextStart(m) + i - 1 \in Nat /\ TextStart(m) + i - 1 <= Final(m)
        BY <1>4
      <4>2. \A i \in 1..(Final(m) - TextStart(m)) : Item(t, m, TextStart(m) + i - 1) \in Commands
        BY <4>1, ItemVerbs
      <4>3. Final(m) - TextStart(m) \in Nat /\ ~(Final(m) < TextStart(m))
        BY <1>2, <1>4, <1>5
      <4> QED
        BY <4>2, <4>3 DEF TextAt
    <3> QED
      BY <1>2, <3>1 DEF SentText
  <2> QED
    BY <1>6, <2>1, <2>2, <2>3 DEF Deliver, SentMessage
<1> QED
  BY <1>3, <1>7, <1>8, <1>9, <1>10, <1>11 DEF Dialogue

\* The server answers item v of the script, in command mode.
Answering(t, m, r, w, v, code) ==
  /\ StreamType /\ alive /\ srv.mode = "command" /\ c2s # <<>>
  /\ Dialogue(t, m, r, w) /\ v = w - Len(c2s)
  /\ Answer(code) /\ UNCHANGED <<alive, invalidReply>>

\* An answer keeps the two directions of the stream on the script.
LEMMA AnswerWire ==
  ASSUME NEW m \in Submissions, NEW t \in Nat, NEW r, NEW w, NEW v, NEW code,
         Answering(t, m, r, w, v, code)
  PROVE  /\ Shape(m, r, w)' /\ Wire(t, m, r, w)'
         /\ w - Len(c2s') = v + 1 /\ v \in Nat /\ v <= Final(m) /\ r \in Nat /\ r <= v
         /\ Request = Item(t, m, v)
         /\ r + Len(s2c') = v + 1
         /\ s2c' # <<>> /\ s2c'[Len(s2c')].code = code
         /\ Accepted(m, r)' <=> Accepted(m, r) /\ code # Refusal
<1>0. /\ StreamType /\ alive /\ srv.mode = "command" /\ c2s # <<>>
      /\ Dialogue(t, m, r, w) /\ v = w - Len(c2s)
      /\ Answer(code) /\ UNCHANGED <<alive, invalidReply>>
  BY DEF Answering
<1>1. /\ r \in Nat /\ w \in Nat /\ v \in Nat /\ v < w /\ w <= Final(m) + 1 /\ v <= Final(m)
      /\ Len(c2s) \in Nat /\ Len(s2c) \in Nat
      /\ Request = Item(t, m, v) /\ Writes(Tail(c2s), t, m, v + 1)
      /\ Len(Tail(c2s)) = Len(c2s) - 1
      /\ r + Len(s2c) = v
  BY <1>0, NextServed
<1>2. /\ c2s' = Tail(c2s) /\ s2c' = Append(s2c, [code |-> code, to |-> Item(t, m, v)])
  BY <1>0, <1>1 DEF Answer
<1>3. /\ Len(s2c') = Len(s2c) + 1
      /\ s2c'[Len(s2c) + 1].to = Item(t, m, v) /\ s2c'[Len(s2c) + 1].code = code
      /\ \A i \in 1..Len(s2c) : s2c'[i] = s2c[i]
  <2>1. s2c \in Seq(Replies)
    BY <1>0 DEF StreamType
  <2> QED
    BY <1>2, <2>1
<1>4. w - Len(c2s') = v + 1 /\ r + Len(s2c') = v + 1 /\ s2c' # <<>>
  <2>1. w - Len(c2s') = v + 1
    BY <1>0, <1>1, <1>2
  <2>2. r + Len(s2c') = v + 1 /\ Len(s2c') # 0
    BY <1>1, <1>3
  <2>3. Len(<<>>) = 0
    OBVIOUS
  <2> QED
    BY <2>1, <2>2, <2>3
<1>5. Shape(m, r, w)'
  BY <1>0 DEF Dialogue, Shape
<1>6. Answers(s2c', t, m, r)
  <2> SUFFICES ASSUME NEW i \in 1..Len(s2c') PROVE s2c'[i].to = Item(t, m, r + i - 1)
    BY DEF Answers
  <2>1. CASE i \in 1..Len(s2c)
    BY <1>0, <1>3, <2>1 DEF Dialogue, Wire, Answers
  <2>2. CASE i = Len(s2c) + 1
    <3>1. r + i - 1 = v
      BY <1>1, <2>2
    <3> QED
      BY <1>3, <2>2, <3>1
  <2> QED
    BY <1>1, <1>3, <2>1, <2>2
<1>7. Wire(t, m, r, w)'
  BY <1>0, <1>1, <1>2, <1>4, <1>6 DEF Wire
<1>8. Accepted(m, r)' <=> Accepted(m, r) /\ code # Refusal
  <2>1. \A i \in 1..Len(s2c') : i \in 1..Len(s2c) \/ i = Len(s2c) + 1
    BY <1>1, <1>3
  <2>2. Len(s2c) + 1 \in 1..Len(s2c') /\ \A i \in 1..Len(s2c) : i \in 1..Len(s2c')
    BY <1>1, <1>3
  <2>3. (\A i \in 1..Len(s2c') : s2c'[i].code # Refusal)
          <=> code # Refusal /\ \A i \in 1..Len(s2c) : s2c[i].code # Refusal
    BY <1>3, <2>1, <2>2
  <2> QED
    BY <1>0, <2>3 DEF Accepted
<1> QED
  BY <1>0, <1>1, <1>3, <1>4, <1>5, <1>7, <1>8

\* Every command but DATA leaves the server in command mode; a refusal after
\* the first block leaves the transaction without recipients.
LEMMA AnswerKeepsDialogue ==
  ASSUME NEW m \in Submissions, NEW t \in Nat, NEW r, NEW w, NEW v, NEW code,
         Answering(t, m, r, w, v, code),
         srv'.mode = "data" => ~m.chunked /\ v + 1 = TextStart(m) /\ code = 354,
         Accepted(m, r) /\ code # Refusal /\ 1 <= v /\ v < Final(m)
           => srv' = TransactionAt(t, m, v + 1),
         v = 0 /\ code # Refusal => srv'.mail = 0,
         m.chunked /\ TextStart(m) <= v /\ ~(Accepted(m, r) /\ code # Refusal)
           => srv'.rcpts = {},
         v = Final(m) /\ Accepted(m, r) /\ code # Refusal
           => SentMessage(t, m) \in delivered'
  PROVE  Dialogue(t, m, r, w)'
<1>1. /\ Shape(m, r, w)' /\ Wire(t, m, r, w)'
      /\ w - Len(c2s') = v + 1 /\ v \in Nat /\ v <= Final(m) /\ r \in Nat /\ r <= v
      /\ r + Len(s2c') = v + 1
      /\ s2c' # <<>> /\ s2c'[Len(s2c')].code = code
      /\ Accepted(m, r)' <=> Accepted(m, r) /\ code # Refusal
  BY AnswerWire
<1>2. TextStart(m) \in Nat /\ Final(m) \in Nat /\ TextStart(m) <= Final(m)
  BY ScriptNumbers
<1>3. /\ v + 1 = TextStart(m) => TextStart(m) <= v + 1 /\ v + 1 <= Final(m)
      /\ 2 <= v + 1 /\ v + 1 <= Final(m) => 1 <= v /\ v < Final(m)
      /\ v + 1 = 1 => v = 0
      /\ r >= TextStart(m) => TextStart(m) <= v
      /\ r + Len(s2c') = Final(m) + 1 => v = Final(m)
  BY <1>1, <1>2
<1>4. Transaction(t, m, r, v + 1)'
  BY <1>1, <1>3 DEF Transaction
<1>5. Delivery(t, m, r)'
  BY <1>1, <1>3 DEF Delivery
<1> QED
  BY <1>1, <1>4, <1>5 DEF Dialogue

\* What the commands make of the server's transaction.
Tx(mode, mail, rcpts, text) == [mode |-> mode, mail |-> mail, rcpts |-> rcpts, text |-> text]
MailFrom(tx) == [NoTransaction EXCEPT !.mail = tx]
AddRcpt(transaction, rcpt) == [transaction EXCEPT !.rcpts = @ \cup {rcpt}]
GoAhead(transaction) == [transaction EXCEPT !.mode = "data"]
AddText(transaction, c) == [transaction EXCEPT !.text = Append(@, c)]

\* What one command changes of a transaction.
LEMMA FieldUpdate ==
  /\ \A x : MailFrom(x) = Tx("command", x, {}, <<>>)
  /\ \A a, b, c, d : GoAhead(Tx(a, b, c, d)) = Tx("data", b, c, d)
  /\ \A a, b, c, d, x : AddRcpt(Tx(a, b, c, d), x) = Tx(a, b, c \cup {x}, d)
  /\ \A a, b, c, d, x, e : e = Append(d, x) => AddText(Tx(a, b, c, d), x) = Tx(a, b, c, e)
<1>1. ASSUME NEW x
      PROVE  MailFrom(x) = Tx("command", x, {}, <<>>)
  <2> DEFINE f == MailFrom(x)
             g == Tx("command", x, {}, <<>>)
  <2>1. /\ f = [i \in {"mode", "mail", "rcpts", "text"} |-> f[i]]
        /\ g = [i \in {"mode", "mail", "rcpts", "text"} |-> g[i]]
    BY DEF Tx, AddRcpt, AddText, GoAhead, MailFrom, NoTransaction
  <2>2. \A i \in {"mode", "mail", "rcpts", "text"} : f[i] = g[i]
    <3>1. f["mode"] = "command" /\ g["mode"] = "command"
      BY DEF Tx, MailFrom, NoTransaction
    <3>2. f["mail"] = x /\ g["mail"] = x
      BY DEF Tx, MailFrom, NoTransaction
    <3>3. f["rcpts"] = {} /\ g["rcpts"] = {}
      BY DEF Tx, MailFrom, NoTransaction
    <3>4. f["text"] = <<>> /\ g["text"] = <<>>
      BY DEF Tx, MailFrom, NoTransaction
    <3> HIDE DEF f, g
    <3> QED
      BY <3>1, <3>2, <3>3, <3>4
  <2> HIDE DEF f, g
  <2>3. f = g
    BY <2>1, <2>2
  <2> QED
    BY <2>3 DEF f, g
<1>2. ASSUME NEW a, NEW b, NEW c, NEW d
      PROVE  GoAhead(Tx(a, b, c, d)) = Tx("data", b, c, d)
  <2> DEFINE f == GoAhead(Tx(a, b, c, d))
             g == Tx("data", b, c, d)
  <2>1. /\ f = [i \in {"mode", "mail", "rcpts", "text"} |-> f[i]]
        /\ g = [i \in {"mode", "mail", "rcpts", "text"} |-> g[i]]
    BY DEF Tx, AddRcpt, AddText, GoAhead, MailFrom, NoTransaction
  <2>2. \A i \in {"mode", "mail", "rcpts", "text"} : f[i] = g[i]
    BY DEF Tx, AddRcpt, AddText, GoAhead, MailFrom, NoTransaction
  <2> HIDE DEF f, g
  <2>3. f = g
    BY <2>1, <2>2
  <2> QED
    BY <2>3 DEF f, g
<1>3. ASSUME NEW a, NEW b, NEW c, NEW d, NEW x
      PROVE  AddRcpt(Tx(a, b, c, d), x) = Tx(a, b, c \cup {x}, d)
  <2> DEFINE f == AddRcpt(Tx(a, b, c, d), x)
             g == Tx(a, b, c \cup {x}, d)
  <2>1. /\ f = [i \in {"mode", "mail", "rcpts", "text"} |-> f[i]]
        /\ g = [i \in {"mode", "mail", "rcpts", "text"} |-> g[i]]
    BY DEF Tx, AddRcpt, AddText, GoAhead, MailFrom, NoTransaction
  <2>2. \A i \in {"mode", "mail", "rcpts", "text"} : f[i] = g[i]
    BY DEF Tx, AddRcpt, AddText, GoAhead, MailFrom, NoTransaction
  <2> HIDE DEF f, g
  <2>3. f = g
    BY <2>1, <2>2
  <2> QED
    BY <2>3 DEF f, g
<1>4. ASSUME NEW a, NEW b, NEW c, NEW d, NEW x, NEW e, e = Append(d, x)
      PROVE  AddText(Tx(a, b, c, d), x) = Tx(a, b, c, e)
  <2> DEFINE f == AddText(Tx(a, b, c, d), x)
             g == Tx(a, b, c, Append(d, x))
  <2>1. /\ f = [i \in {"mode", "mail", "rcpts", "text"} |-> f[i]]
        /\ g = [i \in {"mode", "mail", "rcpts", "text"} |-> g[i]]
    BY DEF Tx, AddRcpt, AddText, GoAhead, MailFrom, NoTransaction
  <2>2. \A i \in {"mode", "mail", "rcpts", "text"} : f[i] = g[i]
    BY DEF Tx, AddRcpt, AddText, GoAhead, MailFrom, NoTransaction
  <2> HIDE DEF f, g
  <2>3. f = g
    BY <2>1, <2>2
  <2> QED
    BY <1>4, <2>3 DEF f, g
<1> QED
  BY <1>1, <1>2, <1>3, <1>4

\* The transaction grows with each item the server accepts.
LEMMA TransactionGrows ==
  ASSUME NEW m \in Submissions, NEW t \in Nat, NEW v \in Nat, v < Final(m)
  PROVE  /\ v = 1 => TransactionAt(t, m, v + 1) = MailFrom(t)
         /\ 2 <= v /\ v <= m.to + 1
              => TransactionAt(t, m, v + 1) = AddRcpt(TransactionAt(t, m, v), <<t, v - 1>>)
         /\ ~m.chunked /\ v = m.to + 2
              => TransactionAt(t, m, v + 1) = GoAhead(TransactionAt(t, m, v))
         /\ TextStart(m) <= v
              => TransactionAt(t, m, v + 1) = AddText(TransactionAt(t, m, v), Item(t, m, v))
<1>1. /\ m.to \in Nat /\ m.blocks \in Nat /\ m.chunked \in BOOLEAN
      /\ TextStart(m) \in Nat /\ Final(m) \in Nat
      /\ m.chunked => TextStart(m) = m.to + 2
      /\ ~m.chunked => TextStart(m) = m.to + 3
      /\ Final(m) = TextStart(m) + m.blocks
  BY ScriptNumbers
<1>t. \A k : TransactionAt(t, m, k)
               = Tx(IF ~m.chunked /\ k >= TextStart(m) THEN "data" ELSE "command", t,
                    RcptsAt(t, m, k), TextAt(t, m, k))
  BY DEF TransactionAt, Tx
<1>2. ASSUME v < TextStart(m) PROVE TextAt(t, m, v) = <<>>
  BY <1>2 DEF TextAt
<1>3. TextAt(t, m, TextStart(m)) = <<>>
  <2>1. TextStart(m) - TextStart(m) = 0 /\ ~(TextStart(m) < TextStart(m))
    BY <1>1
  <2> QED
    BY <2>1 DEF TextAt
<1>4. ASSUME v + 1 <= TextStart(m) PROVE TextAt(t, m, v + 1) = <<>>
  <2>1. CASE v + 1 = TextStart(m)
    BY <1>3, <2>1
  <2>2. CASE v + 1 < TextStart(m)
    BY <2>2 DEF TextAt
  <2> QED
    BY <1>1, <1>4, <2>1, <2>2
<1>5. ASSUME v = 1 PROVE TransactionAt(t, m, v + 1) = MailFrom(t)
  <2>1. TextAt(t, m, v + 1) = <<>> /\ RcptsAt(t, m, v + 1) = {}
    BY <1>1, <1>4, <1>5 DEF RcptsAt
  <2>2. ~(~m.chunked /\ v + 1 >= TextStart(m))
    BY <1>1, <1>5
  <2> QED
    BY <1>t, <2>1, <2>2, FieldUpdate
<1>6. ASSUME 2 <= v, v <= m.to + 1
      PROVE  TransactionAt(t, m, v + 1) = AddRcpt(TransactionAt(t, m, v), <<t, v - 1>>)
  <2>1. TextAt(t, m, v + 1) = <<>> /\ TextAt(t, m, v) = <<>>
    BY <1>1, <1>2, <1>4, <1>6
  <2>2. RcptsAt(t, m, v + 1) = RcptsAt(t, m, v) \cup {<<t, v - 1>>}
    <3>1. {j \in 1..m.to : j + 1 < v + 1} = {j \in 1..m.to : j + 1 < v} \cup {v - 1}
      BY <1>1, <1>6
    <3> QED
      BY <3>1 DEF RcptsAt
  <2>3. ~(~m.chunked /\ v + 1 >= TextStart(m)) /\ ~(~m.chunked /\ v >= TextStart(m))
    BY <1>1, <1>6
  <2> QED
    BY <1>t, <2>1, <2>2, <2>3, FieldUpdate
<1>7. ASSUME ~m.chunked, v = m.to + 2
      PROVE  TransactionAt(t, m, v + 1) = GoAhead(TransactionAt(t, m, v))
  <2>1. TextAt(t, m, v + 1) = <<>> /\ TextAt(t, m, v) = <<>>
    BY <1>1, <1>2, <1>4, <1>7
  <2>2. RcptsAt(t, m, v + 1) = RcptsAt(t, m, v)
    BY <1>1, <1>7 DEF RcptsAt
  <2>3. /\ TransactionAt(t, m, v) = Tx("command", t, RcptsAt(t, m, v), TextAt(t, m, v))
        /\ TransactionAt(t, m, v + 1) = Tx("data", t, RcptsAt(t, m, v + 1), TextAt(t, m, v + 1))
    BY <1>t, <1>1, <1>7
  <2> QED
    BY <2>1, <2>2, <2>3, FieldUpdate
<1>8. ASSUME TextStart(m) <= v
      PROVE  TransactionAt(t, m, v + 1) = AddText(TransactionAt(t, m, v), Item(t, m, v))
  <2>1. Append(TextAt(t, m, v), Item(t, m, v)) = TextAt(t, m, v + 1)
    BY <1>8, TextGrows
  <2>2. RcptsAt(t, m, v + 1) = RcptsAt(t, m, v)
    BY <1>1, <1>8 DEF RcptsAt
  <2>3. v + 1 >= TextStart(m) /\ v >= TextStart(m)
    BY <1>1, <1>8
  <2>5. PICK mode : mode = IF m.chunked THEN "command" ELSE "data"
    OBVIOUS
  <2>4. /\ TransactionAt(t, m, v) = Tx(mode, t, RcptsAt(t, m, v), TextAt(t, m, v))
        /\ TransactionAt(t, m, v + 1) = Tx(mode, t, RcptsAt(t, m, v + 1), TextAt(t, m, v + 1))
    BY <1>t, <1>1, <2>3, <2>5
  <2>6. AddText(TransactionAt(t, m, v), Item(t, m, v))
          = Tx(mode, t, RcptsAt(t, m, v), TextAt(t, m, v + 1))
    BY <2>1, <2>4, FieldUpdate
  <2> QED
    BY <2>2, <2>4, <2>6
<1> QED
  BY <1>5, <1>6, <1>7, <1>8

\* A server with the whole message of a send delivers that message.
LEMMA WholeMessage ==
  ASSUME NEW m \in Submissions, NEW t \in Nat
  PROVE  /\ m.chunked => SentText(t, m) = Append(TextAt(t, m, Final(m)), Item(t, m, Final(m)))
         /\ ~m.chunked => SentText(t, m) = TextAt(t, m, Final(m))
         /\ TextAt(t, m, Final(m)) \in Seq(Commands)
<1>1. /\ m.blocks \in Nat /\ TextStart(m) \in Nat /\ Final(m) \in Nat
      /\ Final(m) = TextStart(m) + m.blocks
  BY ScriptNumbers
<1>2. TextAt(t, m, Final(m)) \in Seq(Commands)
  <2>1. \A i \in 1..m.blocks : TextStart(m) + i - 1 \in Nat /\ TextStart(m) + i - 1 <= Final(m)
    BY <1>1
  <2>2. \A i \in 1..m.blocks : Item(t, m, TextStart(m) + i - 1) \in Commands
    BY <2>1, ItemVerbs
  <2>3. Final(m) - TextStart(m) = m.blocks /\ ~(Final(m) < TextStart(m))
    BY <1>1
  <2>4. TextAt(t, m, Final(m)) = [i \in 1..m.blocks |-> Item(t, m, TextStart(m) + i - 1)]
    BY <2>3 DEF TextAt
  <2> QED
    BY <1>1, <2>2, <2>4
<1>3. Item(t, m, Final(m)) \in Commands
  BY <1>1, ItemVerbs
<1>4. TextAt(t, m, Final(m)) \o <<Item(t, m, Final(m))>>
        = Append(TextAt(t, m, Final(m)), Item(t, m, Final(m)))
  BY <1>2, <1>3
<1>5. TextAt(t, m, Final(m)) \o <<>> = TextAt(t, m, Final(m))
  BY <1>2
<1> QED
  BY <1>2, <1>4, <1>5 DEF SentText

\* Every step of the server keeps to the script.
LEMMA DialogueServe ==
  ASSUME NEW m \in Submissions, NEW t \in Nat, NEW r, NEW w, StreamType,
         Dialogue(t, m, r, w), Serve, UNCHANGED invalidReply
  PROVE  Dialogue(t, m, r, w)'
<1>0. PICK v : v = w - Len(c2s)
  OBVIOUS
<1>1. CASE ServeText
  BY <1>1, DialogueText
<1>2. CASE ServeEndOfData
  BY <1>2, DialogueEndOfData
<1> SUFFICES ASSUME ~ServeText, ~ServeEndOfData PROVE Dialogue(t, m, r, w)'
  BY <1>1, <1>2
<1>3. /\ alive /\ c2s # <<>> /\ srv.mode = "command" /\ alive' = alive
      /\ \E code \in Codes : Answer(code)
  <2>1. \A verb : Accept(verb) => \E code \in Codes : Answer(code)
    BY PositiveType DEF Accept
  <2> QED
    BY <2>1 DEF Serve, ServeReset, ServeMail, ServeRcpt, ServeData, ServeChunk, ServeLastChunk,
           DiscardChunk, ServeNoop, Refuse, Receives, Codes
<1>s. srv \in [mode : {"command", "data"}, mail : Nat, rcpts : SUBSET (Nat \X Nat),
               text : Seq(Commands)]
  BY DEF StreamType, Transactions
<1>4. /\ r \in Nat /\ v \in Nat /\ v < w /\ v <= Final(m) /\ Request = Item(t, m, v)
      /\ w \in Nat /\ w <= Final(m) + 1 /\ r <= v
  BY <1>0, <1>3, NextServed
<1>5. /\ m.to \in Nat /\ m.to >= 1 /\ m.blocks \in Nat /\ m.chunked \in BOOLEAN
      /\ TextStart(m) \in Nat /\ Final(m) \in Nat
      /\ m.chunked => TextStart(m) = m.to + 2
      /\ ~m.chunked => TextStart(m) = m.to + 3
      /\ Final(m) = TextStart(m) + m.blocks
  BY ScriptNumbers
<1>6. ASSUME NEW code, Answer(code) PROVE Answering(t, m, r, w, v, code)
  BY <1>0, <1>3, <1>6 DEF Answering
<1>7. /\ Accepted(m, r) /\ 2 <= v => srv = TransactionAt(t, m, v)
      /\ m.chunked /\ TextStart(m) <= v /\ ~Accepted(m, r) => srv.rcpts = {}
  <2>1. m.chunked /\ TextStart(m) <= v => r >= TextStart(m)
    BY <1>4, <1>5 DEF Dialogue, Shape
  <2> QED
    BY <1>0, <1>3, <1>4, <2>1 DEF Dialogue, Transaction
<1>8. ASSUME NEW verb, Accept(verb)
      PROVE  \E code : Answering(t, m, r, w, v, code) /\ code # Refusal /\ code \in Positive(verb)
  BY <1>6, <1>8, CodesAssumption DEF Accept
<1>9. /\ Request.verb = "RSET" <=> v = 0
      /\ Request.verb = "MAIL" <=> v = 1
      /\ Request.verb = "RCPT" <=> 2 <= v /\ v <= m.to + 1
      /\ Request.verb = "RCPT" => Request.arg = v - 1
      /\ Request.verb = "DATA" <=> ~m.chunked /\ v = m.to + 2
      /\ Request.verb = "BDAT" <=> m.chunked /\ TextStart(m) <= v /\ v < Final(m)
      /\ Request.verb = "LAST" <=> m.chunked /\ v = Final(m)
      /\ Request.tx = t /\ Request.verb # "NOOP"
  BY <1>4, ItemVerbs
<1>10. CASE ServeReset
  <2>1. PICK code : Answering(t, m, r, w, v, code)
    BY <1>8, <1>10 DEF ServeReset
  <2>2. v = 0 /\ srv' = NoTransaction
    BY <1>9, <1>10 DEF ServeReset, Receives
  <2>3. srv'.mode = "command" /\ srv'.mail = 0 /\ ~(1 <= v) /\ ~(TextStart(m) <= v) /\ v # Final(m)
    BY <1>5, <2>2 DEF NoTransaction
  <2> QED
    BY <2>1, <2>3, AnswerKeepsDialogue
<1>11. CASE ServeMail
  <2>1. PICK code : Answering(t, m, r, w, v, code)
    BY <1>8, <1>11 DEF ServeMail
  <2>2. v = 1 /\ srv' = MailFrom(t)
    BY <1>9, <1>11 DEF ServeMail, Receives, MailFrom
  <2>3. srv'.mode = "command" /\ v # 0 /\ ~(TextStart(m) <= v) /\ v # Final(m) /\ v < Final(m)
    BY <1>5, <2>2 DEF NoTransaction, MailFrom
  <2>4. srv' = TransactionAt(t, m, v + 1)
    BY <1>4, <2>2, <2>3, TransactionGrows
  <2> QED
    BY <2>1, <2>3, <2>4, AnswerKeepsDialogue
<1>12. CASE ServeRcpt
  <2>1. PICK code : Answering(t, m, r, w, v, code)
    BY <1>8, <1>12 DEF ServeRcpt
  <2>2. /\ 2 <= v /\ v <= m.to + 1
        /\ srv' = AddRcpt(srv, <<t, v - 1>>)
    BY <1>9, <1>12 DEF ServeRcpt, Receives, AddRcpt
  <2>3. v # 0 /\ ~(TextStart(m) <= v) /\ v # Final(m) /\ v < Final(m)
    BY <1>4, <1>5, <2>2
  <2>4. Accepted(m, r) => srv' = TransactionAt(t, m, v + 1)
    <3>1. TransactionAt(t, m, v + 1) = AddRcpt(TransactionAt(t, m, v), <<t, v - 1>>)
      BY <1>4, <2>2, <2>3, TransactionGrows
    <3>2. Accepted(m, r) => srv = TransactionAt(t, m, v)
      BY <1>7, <2>2
    <3> QED
      BY <2>2, <3>1, <3>2
  <2>5. srv'.mode = "command"
    BY <1>s, <1>3, <2>2 DEF AddRcpt, AddText
  <2> QED
    BY <2>1, <2>3, <2>4, <2>5, AnswerKeepsDialogue
<1>13. CASE ServeData
  <2>1. PICK code : Answering(t, m, r, w, v, code) /\ code \in Positive("DATA")
    BY <1>8, <1>13 DEF ServeData
  <2>2. ~m.chunked /\ v = m.to + 2 /\ code = 354 /\ srv' = GoAhead(srv)
    BY <1>9, <1>13, <2>1 DEF ServeData, Receives, Positive, GoAhead
  <2>3. v # 0 /\ v + 1 = TextStart(m) /\ v # Final(m) /\ v < Final(m) /\ 2 <= v
    BY <1>4, <1>5, <2>2
  <2>4. Accepted(m, r) => srv' = TransactionAt(t, m, v + 1)
    <3>1. TransactionAt(t, m, v + 1) = GoAhead(TransactionAt(t, m, v))
      BY <1>4, <2>2, <2>3, TransactionGrows
    <3>2. Accepted(m, r) => srv = TransactionAt(t, m, v)
      BY <1>7, <2>3
    <3> QED
      BY <2>2, <3>1, <3>2
  <2> QED
    BY <2>1, <2>2, <2>3, <2>4, AnswerKeepsDialogue
<1>14. CASE ServeChunk
  <2>1. PICK code : Answering(t, m, r, w, v, code) /\ code # Refusal
    BY <1>8, <1>14 DEF ServeChunk
  <2>2. /\ m.chunked /\ TextStart(m) <= v /\ v < Final(m) /\ srv.rcpts # {}
        /\ srv' = AddText(srv, Item(t, m, v))
    BY <1>4, <1>9, <1>14 DEF ServeChunk, Receives, AddText
  <2>3. v # 0 /\ v # Final(m) /\ 2 <= v /\ Accepted(m, r)
    BY <1>4, <1>5, <1>7, <2>2
  <2>4. srv' = TransactionAt(t, m, v + 1)
    <3>1. TransactionAt(t, m, v + 1) = AddText(TransactionAt(t, m, v), Item(t, m, v))
      BY <1>4, <2>2, TransactionGrows
    <3>2. srv = TransactionAt(t, m, v)
      BY <1>7, <2>3
    <3> QED
      BY <2>2, <3>1, <3>2
  <2>5. srv'.mode = "command"
    BY <1>s, <1>3, <2>2 DEF AddRcpt, AddText
  <2> QED
    BY <2>1, <2>2, <2>3, <2>4, <2>5, AnswerKeepsDialogue
<1>15. CASE ServeLastChunk
  <2>1. PICK code : Answering(t, m, r, w, v, code) /\ code # Refusal
    BY <1>8, <1>15 DEF ServeLastChunk
  <2>2. /\ m.chunked /\ v = Final(m) /\ srv.rcpts # {} /\ srv' = NoTransaction
        /\ Deliver(Append(srv.text, Item(t, m, v)))
    BY <1>4, <1>9, <1>15 DEF ServeLastChunk, Receives
  <2>3. srv'.mode = "command" /\ v # 0 /\ ~(v < Final(m)) /\ 2 <= v /\ TextStart(m) <= v
    BY <1>5, <2>2 DEF NoTransaction
  <2>4. Accepted(m, r)
    BY <1>7, <2>2, <2>3
  <2>5. SentMessage(t, m) \in delivered'
    <3>1. srv.text = TextAt(t, m, v) /\ srv.rcpts = RcptsAt(t, m, v)
      BY <1>7, <2>3, <2>4 DEF TransactionAt
    <3> QED
      BY <2>2, <3>1, WholeMessage DEF Deliver, SentMessage
  <2> QED
    BY <2>1, <2>3, <2>4, <2>5, AnswerKeepsDialogue
<1>d. CASE DiscardChunk
  <2>1. PICK code : Answering(t, m, r, w, v, code)
    BY <1>8, <1>d DEF DiscardChunk
  <2>2. m.chunked /\ TextStart(m) <= v /\ srv.rcpts = {} /\ srv'.rcpts = {} /\ srv'.mode = "command"
    BY <1>3, <1>4, <1>5, <1>9, <1>d DEF DiscardChunk, Receives, NoTransaction
  <2>3. 2 <= v /\ v # 0
    BY <1>4, <1>5, <2>2
  <2>4. ~Accepted(m, r)
    <3>1. 1 \in 1 .. m.to /\ 1 + 1 < v
      BY <1>4, <1>5, <2>2
    <3>2. RcptsAt(t, m, v) # {}
      BY <3>1 DEF RcptsAt
    <3> QED
      BY <1>7, <2>2, <2>3, <3>2 DEF TransactionAt
  <2> QED
    BY <2>1, <2>2, <2>3, <2>4, AnswerKeepsDialogue
<1>16. CASE ServeNoop
  BY <1>9, <1>16 DEF ServeNoop, Receives
<1>17. CASE Refuse
  <2>1. Answering(t, m, r, w, v, Refusal)
    BY <1>6, <1>17 DEF Refuse
  <2>2. srv' = IF Request.verb \in {"BDAT", "LAST"}
               THEN [NoTransaction EXCEPT !.mail = srv.mail] ELSE srv
    BY <1>17 DEF Refuse
  <2>3. srv'.mode = "command"
    BY <1>3, <2>2 DEF NoTransaction
  <2>4. m.chunked /\ TextStart(m) <= v => srv'.rcpts = {}
    <3>1. m.chunked /\ TextStart(m) <= v => Request.verb \in {"BDAT", "LAST"}
      BY <1>4, <1>5, <1>9
    <3> QED
      BY <2>2, <3>1 DEF NoTransaction
  <2> QED
    BY <2>1, <2>3, <2>4, AnswerKeepsDialogue
<1> QED
  BY <1>10, <1>11, <1>12, <1>13, <1>14, <1>15, <1>d, <1>16, <1>17 DEF Serve

-----------------------------------------------------------------------------
\* What the server drops when it closes was not yet relied upon.
LEMMA DialogueCloses ==
  ASSUME NEW m \in Submissions, NEW t \in Nat, NEW r, NEW w, StreamType,
         Dialogue(t, m, r, w), ServerCloses, UNCHANGED invalidReply
  PROVE  Dialogue(t, m, r, w)'
<1>1. /\ alive /\ alive' = FALSE /\ c2s' = <<>> /\ UNCHANGED <<srv, delivered>>
      /\ \E n \in 0..Len(s2c) : s2c' = SubSeq(s2c, 1, n)
  BY DEF ServerCloses
<1>2. /\ Len(s2c') \in Nat /\ Len(s2c') <= Len(s2c) /\ Len(s2c) \in Nat /\ Len(c2s) \in Nat
      /\ \A i \in 1..Len(s2c') : i \in 1..Len(s2c) /\ s2c'[i] = s2c[i]
      /\ Len(c2s') = 0
  BY <1>1, KeptReplies DEF StreamType
<1>3. /\ Final(m) \in Nat /\ r \in Nat /\ w \in Nat /\ r <= w /\ w <= Final(m) + 1
  BY ScriptNumbers DEF Dialogue, Shape
<1>4. r + Len(s2c) <= w
  <2>1. s2c = <<>> => Len(s2c) = 0
    OBVIOUS
  <2> QED
    BY <1>1, <1>2, <1>3, <2>1 DEF Dialogue, Wire
<1>5. Shape(m, r, w)' /\ Wire(t, m, r, w)'
  BY <1>1, <1>2, <1>3, <1>4 DEF Dialogue, Shape, Wire, Answers, Writes
<1>6. Delivery(t, m, r)'
  <2> SUFFICES ASSUME r <= Final(m), r + Len(s2c') = Final(m) + 1, Accepted(m, r)'
               PROVE  SentMessage(t, m) \in delivered
    BY <1>1 DEF Delivery
  <2>1. Len(s2c') = Len(s2c)
    BY <1>2, <1>3, <1>4
  <2>2. Accepted(m, r)
    BY <1>2, <2>1 DEF Accepted
  <2> QED
    BY <2>1, <2>2 DEF Dialogue, Delivery
<1> QED
  BY <1>1, <1>5, <1>6 DEF Dialogue

\* Writing the next items of the script.
LEMMA DialogueWrite ==
  ASSUME NEW m \in Submissions, NEW t \in Nat, NEW r, NEW w, NEW q \in Seq(Commands), StreamType,
         Dialogue(t, m, r, w), Write(q), Writes(q, t, m, w),
         UNCHANGED <<alive, srv, s2c, delivered, invalidReply>>,
         Shape(m, r, w + Len(q))
  PROVE  Dialogue(t, m, r, w + Len(q))'
<1>1. /\ r \in Nat /\ w \in Nat /\ Len(c2s) \in Nat /\ Len(q) \in Nat /\ c2s \in Seq(Commands)
      /\ Len(s2c) \in Nat
  BY DEF Dialogue, Shape, StreamType
<1>2. Shape(m, r, w + Len(q))'
  BY DEF Shape
<1>3. Accepted(m, r)' <=> Accepted(m, r)
  BY DEF Accepted
<1>4. Delivery(t, m, r)'
  BY <1>3 DEF Dialogue, Delivery
<1>5. CASE ~alive
  <2>1. c2s' = <<>> /\ Len(c2s') = 0 /\ r + Len(s2c) <= w
    BY <1>5 DEF Write, Dialogue, Wire
  <2>2. Wire(t, m, r, w + Len(q))'
    BY <1>1, <1>5, <2>1 DEF Wire, Dialogue, Writes
  <2> QED
    BY <1>2, <1>4, <1>5, <2>2 DEF Dialogue
<1>6. CASE alive
  <2>0. PICK v : v = w - Len(c2s)
    OBVIOUS
  <2>1. v \in Nat
    <3>1. \/ r + Len(s2c) = v
          \/ TextStart(m) <= v
      BY <1>6, <2>0 DEF Dialogue, Wire
    <3> QED
      BY <1>1, <2>0, <3>1, ScriptNumbers
  <2>2. Writes(c2s \o q, t, m, v) /\ Len(c2s \o q) = Len(c2s) + Len(q)
    <3>1. v + Len(c2s) = w /\ Writes(c2s, t, m, v)
      BY <1>1, <2>0 DEF Dialogue, Wire
    <3> QED
      BY <1>1, <2>1, <3>1, ScriptConcat
  <2>3. c2s' = c2s \o q /\ (w + Len(q)) - Len(c2s') = v
    BY <1>1, <1>6, <2>0, <2>2 DEF Write
  <2>4. Wire(t, m, r, w + Len(q))'
    BY <1>6, <2>0, <2>2, <2>3 DEF Dialogue, Wire
  <2>5. Transaction(t, m, r, v)'
    BY <1>3, <1>6, <2>0 DEF Dialogue, Transaction
  <2> QED
    BY <1>2, <1>4, <2>3, <2>4, <2>5 DEF Dialogue
<1> QED
  BY <1>5, <1>6 DEF StreamType

\* Writing a block of text, which will not be answered.
LEMMA DialogueWriteText ==
  ASSUME NEW m \in Submissions, NEW t \in Nat, NEW w, StreamType,
         Dialogue(t, m, w, w), ~m.chunked, TextStart(m) <= w, w < Final(m),
         Write(<<Item(t, m, w)>>),
         UNCHANGED <<alive, srv, s2c, delivered, invalidReply>>
  PROVE  Dialogue(t, m, w + 1, w + 1)'
<1>1. /\ w \in Nat /\ Len(c2s) \in Nat /\ c2s \in Seq(Commands) /\ Len(s2c) \in Nat
      /\ (Len(s2c) = 0 => s2c = <<>>) /\ (s2c = <<>> => Len(s2c) = 0)
      /\ m.chunked \in BOOLEAN /\ TextStart(m) \in Nat /\ Final(m) \in Nat
  BY ScriptNumbers DEF Dialogue, Shape, StreamType
<1>2. Shape(m, w + 1, w + 1)'
  BY <1>1 DEF Dialogue, Shape
<1>3. Accepted(m, w + 1)' <=> Accepted(m, w)
  BY <1>1 DEF Accepted
<1>4. \/ alive /\ (w + Len(s2c) = w - Len(c2s) \/ s2c = <<>>)
      \/ ~alive /\ w + Len(s2c) <= w
  BY DEF Dialogue, Wire
<1>5. s2c = <<>> /\ s2c' = <<>> /\ Len(s2c') = 0
  BY <1>1, <1>4
<1>6. Delivery(t, m, w + 1)'
  BY <1>1, <1>5 DEF Delivery
<1>7. CASE ~alive
  <2>1. c2s' = <<>> /\ Len(c2s') = 0
    BY <1>7 DEF Write, Dialogue, Wire
  <2>2. Wire(t, m, w + 1, w + 1)'
    BY <1>1, <1>5, <1>7, <2>1 DEF Wire, Answers, Writes
  <2> QED
    BY <1>2, <1>6, <1>7, <2>2 DEF Dialogue
<1>8. CASE alive
  <2>0. PICK v : v = w - Len(c2s)
    OBVIOUS
  <2>1. v \in Nat /\ TextStart(m) <= v /\ v <= w
    BY <1>1, <1>5, <1>8, <2>0 DEF Dialogue, Wire
  <2>2. Item(t, m, w) \in Commands /\ <<Item(t, m, w)>> \in Seq(Commands)
        /\ Len(<<Item(t, m, w)>>) = 1
    BY <1>1, ItemVerbs
  <2>3. Writes(c2s \o <<Item(t, m, w)>>, t, m, v) /\ Len(c2s \o <<Item(t, m, w)>>) = Len(c2s) + 1
    <3>1. v + Len(c2s) = w /\ Writes(c2s, t, m, v)
      BY <1>1, <2>0 DEF Dialogue, Wire
    <3>2. Writes(<<Item(t, m, w)>>, t, m, v + Len(c2s))
      BY <1>1, <3>1 DEF Writes
    <3>3. QED
      <4>1. PICK q \in Seq(Commands) : q = <<Item(t, m, w)>>
        BY <2>2
      <4>2. Writes(q, t, m, v + Len(c2s)) /\ Len(q) = 1
        BY <2>2, <3>2, <4>1
      <4>3. Writes(c2s \o q, t, m, v) /\ Len(c2s \o q) = Len(c2s) + Len(q)
        <5>1. q \in Seq(Commands) /\ c2s \in Seq(Commands) /\ v \in Nat /\ Writes(c2s, t, m, v)
          BY <1>1, <2>1, <3>1, <4>1
        <5> QED
          BY <4>2, <5>1, ScriptConcat
      <4> QED
        BY <4>1, <4>2, <4>3
  <2>4. c2s' = c2s \o <<Item(t, m, w)>> /\ (w + 1) - Len(c2s') = v
    BY <1>1, <1>8, <2>0, <2>3 DEF Write
  <2>5. Wire(t, m, w + 1, w + 1)'
    <3>1. Answers(s2c', t, m, w + 1)
      BY <1>5 DEF Answers
    <3>2. Writes(c2s', t, m, (w + 1) - Len(c2s'))
      BY <2>3, <2>4
    <3>3. TextStart(m) <= (w + 1) - Len(c2s') /\ (w + 1) - Len(c2s') <= w + 1
      BY <1>1, <2>1, <2>4
    <3> QED
      BY <1>5, <1>8, <3>1, <3>2, <3>3 DEF Wire
  <2>6. Transaction(t, m, w + 1, v)'
    BY <1>1, <1>3, <1>5, <1>8, <2>0 DEF Dialogue, Transaction
  <2> QED
    BY <1>2, <1>6, <2>4, <2>5, <2>6 DEF Dialogue
<1> QED
  BY <1>7, <1>8 DEF StreamType

\* Reading the next reply.
LEMMA DialogueRead ==
  ASSUME NEW m \in Submissions, NEW t \in Nat, NEW r, NEW w, StreamType,
         Dialogue(t, m, r, w), s2c # <<>>, s2c' = Tail(s2c),
         UNCHANGED <<alive, srv, c2s, delivered>>,
         Shape(m, r + 1, w)', Accepted(m, r + 1)' <=> Accepted(m, r),
         r + 1 = TextStart(m) => Accepted(m, r + 1)'
  PROVE  Dialogue(t, m, r + 1, w)'
<1>1. /\ r \in Nat /\ w \in Nat /\ Len(c2s) \in Nat /\ s2c \in Seq(Replies)
      /\ TextStart(m) \in Nat /\ Final(m) \in Nat
  BY ScriptNumbers DEF Dialogue, Shape, StreamType
<1>2. /\ Len(s2c') = Len(s2c) - 1 /\ Len(s2c) \in Nat /\ Len(s2c) > 0
      /\ Answers(s2c', t, m, r + 1)
      /\ s2c' # <<>> => s2c'[Len(s2c')] = s2c[Len(s2c)]
  <2>1. /\ Len(s2c') = Len(s2c) - 1 /\ Len(s2c) \in Nat /\ Len(s2c) > 0
        /\ Answers(s2c', t, m, r + 1)
    BY <1>1, ScriptTail DEF Dialogue, Wire
  <2>2. s2c' # <<>> => s2c'[Len(s2c')] = s2c[Len(s2c)]
    BY <1>1
  <2> QED
    BY <2>1, <2>2
<1>3. r + Len(s2c) = (r + 1) + Len(s2c')
  BY <1>1, <1>2
<1>4. Wire(t, m, r + 1, w)'
  BY <1>1, <1>2, <1>3 DEF Dialogue, Wire
<1>5. Delivery(t, m, r + 1)'
  <2> SUFFICES ASSUME r + 1 <= Final(m), (r + 1) + Len(s2c') = Final(m) + 1, Accepted(m, r + 1)'
               PROVE  SentMessage(t, m) \in delivered
    BY DEF Delivery
  <2>1. r <= Final(m) /\ r + Len(s2c) = Final(m) + 1 /\ Accepted(m, r)
    BY <1>1, <1>3
  <2> QED
    BY <2>1 DEF Dialogue, Delivery
<1>6. ASSUME alive PROVE Transaction(t, m, r + 1, w - Len(c2s))'
  <2>0. PICK v : v = w - Len(c2s)
    OBVIOUS
  <2>1. r + 1 >= TextStart(m) /\ ~Accepted(m, r + 1)' => r >= TextStart(m)
    BY <1>1
  <2>2. Transaction(t, m, r, v)
    BY <1>6, <2>0 DEF Dialogue
  <2>3. Transaction(t, m, r + 1, v)'
    BY <1>2, <2>1, <2>2 DEF Transaction
  <2> QED
    BY <2>0, <2>3
<1> QED
  BY <1>4, <1>5, <1>6 DEF Dialogue

\* The beginning of a send on a quiet connection.
LEMMA DialogueStart ==
  ASSUME NEW m \in Submissions, NEW t \in Nat, NEW w \in {0, 1},
         c2s = <<>>, s2c = <<>>, srv.mode = "command", alive /\ w = 1 => srv.mail = 0
  PROVE  Dialogue(t, m, w, w)
<1>1. /\ TextStart(m) \in Nat /\ Final(m) \in Nat /\ 2 <= TextStart(m)
      /\ TextStart(m) <= Final(m) /\ w \in Nat
  BY ScriptNumbers
<1>2. Len(c2s) = 0 /\ Len(s2c) = 0 /\ w - 0 = w /\ w + 0 = w
  BY <1>1
<1>3. /\ ~(w >= TextStart(m)) /\ ~(w > TextStart(m)) /\ ~(2 <= w)
      /\ w # Final(m) + 1 /\ w <= Final(m) + 1
  BY <1>1
<1>4. Shape(m, w, w)
  BY <1>1, <1>3 DEF Shape
<1>5. Wire(t, m, w, w)
  BY <1>1, <1>2 DEF Wire, Answers, Writes
<1>6. alive => Transaction(t, m, w, w)
  BY <1>3 DEF Transaction
<1>7. Delivery(t, m, w)
  BY <1>2, <1>3 DEF Delivery
<1> QED
  BY <1>2, <1>4, <1>5, <1>6, <1>7 DEF Dialogue

-----------------------------------------------------------------------------
(***************************************************************************)
(* The client's place in the script.                                       *)
(***************************************************************************)
\* The item written next, and the item whose reply is read next.
Written(m) ==
  IF pc \in {"write", "reply"}
  THEN IF hasPipelining /\ m_started THEN TextStart(m) ELSE TextStart(m) - Len(m_commands)
  ELSE IF pc = "end" THEN Final(m) + 1 ELSE TextStart(m) + block
Answered(m) ==
  IF pc = "write" THEN TextStart(m) - Len(m_commands)
  ELSE IF pc = "reply" THEN TextStart(m) - Len(m_commands) - 1
  ELSE Written(m) - unread

\* What the command set still holds is the rest of the envelope.
Queue(t, m) ==
  pc \in {"write", "reply"} =>
    /\ Len(m_commands) <= TextStart(m)
    /\ Writes(m_commands, t, m, TextStart(m) - Len(m_commands))
    /\ pc = "reply" =>
         /\ Len(m_commands) < TextStart(m) /\ m_started
         /\ m_lastCommandSent = Item(t, m, TextStart(m) - Len(m_commands) - 1)

\* Replies to message data: one to each chunk, one to text and its end mark.
Progress(m) ==
  /\ pc \in {"data", "chunk"} => block <= m.blocks /\ unread <= block
  /\ pc = "chunk" => unread = 1 /\ m.chunked
  /\ pc = "end" => block = m.blocks /\ unread >= 1 /\ unread <= block + 1
  /\ pc = "end" /\ ~m.chunked => unread = 1
  /\ pc = "data" /\ ~m.chunked => unread = 0
  /\ pc = "data" /\ m.chunked /\ "PIPELINING" \notin extensions => unread = 0

SendState(t, m, r, w) ==
  /\ t = cur /\ m = message /\ r = Answered(m) /\ w = Written(m)
  /\ Queue(t, m) /\ Progress(m) /\ Dialogue(t, m, r, w)

SendInv ==
  pc \in Active /\ message.quiet => \E t, m, r, w : SendState(t, m, r, w)

\* Before the first send nothing but NOOP was ever written.
FreshInv ==
  ~m_needReset =>
    pc \notin Active /\ srv.mail = 0 /\ \A i \in 1..Len(c2s) : c2s[i].verb = "NOOP"

\* A reply is a refusal or what the command it answers calls for.
CodesInv ==
  \A i \in 1..Len(s2c) : s2c[i].code \in Positive(s2c[i].to.verb) \cup {Refusal}

-----------------------------------------------------------------------------
\* A running send() has its record.
LEMMA RunningSend ==
  ASSUME TypeInv, pc \in Active
  PROVE  cur \in Nat /\ cur \in DOMAIN sends /\ message \in Submissions
<1>1. cur \in 1..Len(sends) /\ sends \in Seq(Submissions)
  BY DEF TypeInv, Running, ClientType
<1> QED
  BY <1>1 DEF cur, message

\* A step that leaves the server's side and the verdicts alone.
LEMMA DialogueStutter ==
  ASSUME NEW m, NEW t, NEW r, NEW w, Dialogue(t, m, r, w),
         UNCHANGED <<serverVars, invalidReply>>
  PROVE  Dialogue(t, m, r, w)'
  BY DEF serverVars, Dialogue, Shape, Wire, Transaction, Delivery, Accepted

\* Two parts of the script, one after the other.
LEMMA ScriptParts ==
  ASSUME NEW t, NEW m, NEW k \in Nat, NEW j \in Nat,
         NEW q \in Seq(Commands), NEW r \in Seq(Commands),
         Writes(q, t, m, k), k + Len(q) = j, Writes(r, t, m, j)
  PROVE  Writes(q \o r, t, m, k) /\ Len(q \o r) = Len(q) + Len(r) /\ q \o r \in Seq(Commands)
<1>1. Writes(r, t, m, k + Len(q))
  OBVIOUS
<1>2. q \o r \in Seq(Commands)
  BY ConcatProperties
<1> QED
  BY <1>1, <1>2, ScriptConcat

\* The envelope is the script up to the message.
LEMMA EnvelopeScript ==
  ASSUME NEW m \in Submissions, NEW t \in Nat, m_needReset \in BOOLEAN
  PROVE  LET q == Envelope(t, m.to, ~m.chunked) IN
         /\ TextStart(m) - Len(q) = IF m_needReset THEN 0 ELSE 1
         /\ Writes(q, t, m, TextStart(m) - Len(q))
         /\ Len(q) \in Nat /\ Len(q) <= TextStart(m) /\ q \in Seq(Commands)
<1> DEFINE reset == IF m_needReset THEN <<Command("RSET", t, 0)>> ELSE <<>>
           mail  == <<Command("MAIL", t, 0)>>
           data  == IF ~m.chunked THEN <<Command("DATA", t, 0)>> ELSE <<>>
           rcpts == Recipients(t, m.to)
<1>0. PICK k \in {0, 1} : k = IF m_needReset THEN 0 ELSE 1
  OBVIOUS
<1>1. /\ m.to \in Nat /\ m.blocks \in Nat /\ m.chunked \in BOOLEAN
      /\ TextStart(m) \in Nat /\ Final(m) \in Nat
      /\ m.chunked => TextStart(m) = m.to + 2
      /\ ~m.chunked => TextStart(m) = m.to + 3
      /\ Final(m) = TextStart(m) + m.blocks
  BY ScriptNumbers
<1>2. /\ Command("RSET", t, 0) \in Commands
      /\ Command("MAIL", t, 0) \in Commands
      /\ Command("DATA", t, 0) \in Commands
      /\ \A i \in 1..m.to : Command("RCPT", t, i) \in Commands
  BY <1>1, CommandType DEF Verbs
<1>3. /\ Item(t, m, 0) = Command("RSET", t, 0) /\ Item(t, m, 1) = Command("MAIL", t, 0)
      /\ ~m.chunked => Item(t, m, m.to + 2) = Command("DATA", t, 0)
      /\ \A i \in 1..m.to : Item(t, m, 2 + i - 1) = Command("RCPT", t, i)
  <2>1. VerbOf(m, 0) = "RSET" /\ ArgOf(m, 0) = 0 /\ VerbOf(m, 1) = "MAIL" /\ ArgOf(m, 1) = 0
    BY DEF VerbOf, ArgOf
  <2>2. ~m.chunked => VerbOf(m, m.to + 2) = "DATA" /\ ArgOf(m, m.to + 2) = 0
    BY <1>1 DEF VerbOf, ArgOf
  <2>3. ASSUME NEW i \in 1..m.to PROVE VerbOf(m, 2 + i - 1) = "RCPT" /\ ArgOf(m, 2 + i - 1) = i
    <3>1. /\ 2 + i - 1 # 0 /\ 2 + i - 1 # 1 /\ 2 + i - 1 <= m.to + 1 /\ ~(2 + i - 1 < 2)
          /\ (2 + i - 1) - 1 = i
      BY <1>1
    <3> QED
      BY <3>1 DEF VerbOf, ArgOf
  <2> QED
    BY <2>1, <2>2, <2>3 DEF Item
<1>4. /\ reset \in Seq(Commands) /\ Len(reset) = 1 - k /\ Writes(reset, t, m, k)
  BY <1>0, <1>2, <1>3, EmptySequence DEF Writes
<1>5. /\ mail \in Seq(Commands) /\ Len(mail) = 1 /\ Writes(mail, t, m, 1)
  BY <1>2, <1>3 DEF Writes
<1>6. /\ rcpts \in Seq(Commands) /\ Len(rcpts) = m.to /\ Writes(rcpts, t, m, 2)
  <2>1. rcpts = [i \in 1..m.to |-> Command("RCPT", t, i)]
    BY DEF Recipients
  <2>2. rcpts \in Seq(Commands) /\ Len(rcpts) = m.to
    BY <1>1, <1>2, <2>1
  <2> QED
    BY <1>1, <1>3, <2>1, <2>2 DEF Writes
<1>7. /\ data \in Seq(Commands) /\ Len(data) = TextStart(m) - (m.to + 2)
      /\ Writes(data, t, m, m.to + 2)
  <2>1. CASE m.chunked
    <3>1. data = <<>>
      BY <2>1
    <3>2. Writes(<<>>, t, m, m.to + 2) /\ Len(<<>>) = 0
      BY DEF Writes
    <3>3. <<>> \in Seq(Commands)
      OBVIOUS
    <3> QED
      BY <1>1, <2>1, <3>1, <3>2, <3>3
  <2>2. CASE ~m.chunked
    <3>1. data = <<Command("DATA", t, 0)>>
      BY <2>2
    <3>2. data \in Seq(Commands) /\ Len(data) = 1
      BY <1>2, <3>1
    <3>3. Writes(data, t, m, m.to + 2)
      BY <1>1, <1>3, <2>2, <3>1 DEF Writes
    <3> QED
      BY <1>1, <2>2, <3>2, <3>3
  <2> QED
    BY <1>1, <2>1, <2>2
<1>8. Envelope(t, m.to, ~m.chunked) = reset \o mail \o rcpts \o data
  BY DEF Envelope
<1> HIDE DEF reset, mail, data, rcpts
<1>9. PICK a \in Seq(Commands), b \in Seq(Commands), c \in Seq(Commands), d \in Seq(Commands) :
        a = reset /\ b = mail /\ c = rcpts /\ d = data
  BY <1>4, <1>5, <1>6, <1>7
<1>10. /\ Writes(a, t, m, k) /\ Writes(b, t, m, 1) /\ Writes(c, t, m, 2)
       /\ Writes(d, t, m, m.to + 2)
       /\ Len(a) = 1 - k /\ Len(b) = 1 /\ Len(c) = m.to /\ Len(d) = TextStart(m) - (m.to + 2)
  BY <1>4, <1>5, <1>6, <1>7, <1>9
<1>t. /\ a \in Seq(Commands) /\ b \in Seq(Commands) /\ c \in Seq(Commands)
      /\ d \in Seq(Commands)
  BY <1>9
<1>11. a \o b \in Seq(Commands)
  BY <1>t, ConcatProperties
<1> DEFINE ab == a \o b
<1> HIDE DEF ab
<1>12. Writes(ab, t, m, k) /\ Len(ab) = 2 - k
  <2>0. 1 \in Nat
    OBVIOUS
  <2>1. k \in Nat /\ k + Len(a) = 1
    BY <1>0, <1>10
  <2>2. Writes(a \o b, t, m, k) /\ Len(a \o b) = Len(a) + Len(b)
    <3>1. a \in Seq(Commands) /\ b \in Seq(Commands) /\ Writes(a, t, m, k) /\ Writes(b, t, m, 1)
      BY <1>t, <1>10
    <3> QED
      BY <2>0, <2>1, <3>1, ScriptParts, SMT
  <2> QED
    BY <1>0, <1>10, <2>2 DEF ab
<1>13. ab \o c \in Seq(Commands)
  BY <1>t, <1>11 DEF ab, ConcatProperties
<1> DEFINE abc == ab \o c
<1> HIDE DEF abc
<1>14. Writes(abc, t, m, k) /\ Len(abc) = 2 - k + m.to
  <2>0. ab \in Seq(Commands)
    BY <1>11 DEF ab
  <2>1. k \in Nat /\ 2 \in Nat /\ k + Len(ab) = 2
    BY <1>0, <1>12
  <2>2. Writes(ab \o c, t, m, k) /\ Len(ab \o c) = Len(ab) + Len(c)
    <3>1. c \in Seq(Commands) /\ Writes(ab, t, m, k) /\ Writes(c, t, m, 2)
      BY <1>t, <1>10, <1>12
    <3> QED
      BY <2>0, <2>1, <3>1, ScriptParts, SMT
  <2> QED
    BY <1>1, <1>0, <1>10, <1>12, <2>2 DEF abc
<1>15. abc \o d \in Seq(Commands)
  BY <1>t, <1>13 DEF abc, ConcatProperties
<1> DEFINE abcd == abc \o d
<1> HIDE DEF abcd
<1>16. Writes(abcd, t, m, k) /\ Len(abcd) = TextStart(m) - k
  <2>0. abc \in Seq(Commands)
    BY <1>13 DEF abc
  <2>1. k \in Nat /\ m.to + 2 \in Nat /\ k + Len(abc) = m.to + 2
    <3>1. PICK n \in Nat : n = m.to
      BY <1>1
    <3>2. Len(abc) = 2 - k + n
      BY <1>14, <3>1, Zenon
    <3>3. n + 2 \in Nat /\ k + Len(abc) = n + 2 /\ k \in Nat
      BY <1>0, <3>2
    <3> QED
      BY <3>1, <3>3
  <2>2. Writes(abc \o d, t, m, k) /\ Len(abc \o d) = Len(abc) + Len(d)
    <3>1. d \in Seq(Commands)
      BY <1>t
    <3>2. Writes(abc, t, m, k)
      BY <1>14, Zenon
    <3>3. Writes(d, t, m, m.to + 2)
      BY <1>10, Zenon
    <3> QED
      BY <2>0, <2>1, <3>1, <3>2, <3>3, ScriptParts, SMT
  <2> QED
    BY <1>1, <1>0, <1>10, <1>14, <2>2, SMTT(60) DEF abcd
<1>17. Envelope(t, m.to, ~m.chunked) = abcd
  BY <1>8, <1>9 DEF ab, abc, abcd
<1>18. TextStart(m) - Len(abcd) = k /\ Len(abcd) \in Nat /\ Len(abcd) <= TextStart(m)
  BY <1>0, <1>1, <1>16
<1>19. abcd \in Seq(Commands)
  BY <1>15 DEF abcd
<1> QED
  BY <1>0, <1>16, <1>17, <1>18, <1>19

\* A send() that begins on a quiet connection begins its script.
LEMMA SendStarts ==
  ASSUME TypeInv, FreshInv, NEW n \in 1..MaxRecipients, NEW blocks \in 0..MaxBlocks,
         NEW chunked \in BOOLEAN, sendEnvelope(n, blocks, chunked), Quiet
  PROVE  \E t, m, r, w : SendState(t, m, r, w)'
<1>1. /\ pc' = "write" /\ m_started' = FALSE
      /\ m_commands' = Envelope(cur + 1, n, ~chunked)
      /\ sends' = Append(sends, [to |-> n, blocks |-> blocks, chunked |-> chunked,
                                 quiet |-> Quiet, outcome |-> "pending"])
      /\ UNCHANGED <<serverVars, invalidReply>>
  BY DEF sendEnvelope, dataVars
<1>2. /\ sends \in Seq(Submissions) /\ cur \in Nat /\ m_needReset \in BOOLEAN
      /\ n \in Nat \ {0} /\ blocks \in Nat /\ Quiet \in BOOLEAN
  BY ParametersAssumption DEF TypeInv, ClientType, SessionType, cur, Quiet
<1>3. PICK m \in Submissions :
        m = [to |-> n, blocks |-> blocks, chunked |-> chunked, quiet |-> Quiet,
             outcome |-> "pending"]
  BY <1>2 DEF Submissions, Outcomes
<1>4. m.to = n /\ m.chunked = chunked /\ sends' = Append(sends, m)
  BY <1>1, <1>3
<1>5. PICK t \in Nat : t = cur + 1
  BY <1>2
<1>6. cur' = t /\ message' = m
  BY <1>2, <1>3, <1>4, <1>5 DEF cur, message
<1>7. /\ TextStart(m) - Len(m_commands') = IF m_needReset THEN 0 ELSE 1
      /\ Writes(m_commands', t, m, TextStart(m) - Len(m_commands'))
      /\ Len(m_commands') <= TextStart(m)
  <2>1. m_commands' = Envelope(t, m.to, ~m.chunked)
    BY <1>1, <1>4, <1>5
  <2> QED
    BY <1>2, <1>3, <1>5, <2>1, EnvelopeScript
<1>8. PICK w \in {0, 1} : w = TextStart(m) - Len(m_commands')
  BY <1>7
<1>9. w = 1 => srv.mail = 0
  BY <1>2, <1>7, <1>8 DEF FreshInv
<1>10. Dialogue(t, m, w, w)'
  <2>1. Dialogue(t, m, w, w)
    BY <1>3, <1>5, <1>8, <1>9, DialogueStart DEF Quiet
  <2> QED
    BY <1>1, <2>1, DialogueStutter
<1>11. Written(m)' = w /\ Answered(m)' = w
  BY <1>1, <1>8 DEF Written, Answered
<1>12. Queue(t, m)' /\ Progress(m)'
  BY <1>1, <1>7 DEF Queue, Progress
<1>13. SendState(t, m, w, w)'
  BY <1>6, <1>10, <1>11, <1>12 DEF SendState
<1> QED
  BY <1>13

\* The numbers that a step of the client changes.
LEMMA Numbers ==
  ASSUME TypeInv, pc \in Active, NEW t, NEW m, NEW r, NEW w, SendState(t, m, r, w)
  PROVE  /\ m \in Submissions /\ t \in Nat /\ StreamType
         /\ m.blocks \in Nat /\ m.chunked \in BOOLEAN
         /\ TextStart(m) \in Nat /\ Final(m) = TextStart(m) + m.blocks /\ TextStart(m) >= 2
         /\ r \in Nat /\ w \in Nat /\ r <= w /\ w <= Final(m) + 1
         /\ block \in Nat /\ unread \in Nat /\ m_commands \in Seq(Commands)
         /\ Len(m_commands) \in Nat /\ Len(s2c) \in Nat
         /\ r + Len(s2c) <= w
<1>1. /\ m \in Submissions /\ t \in Nat /\ StreamType
  BY RunningSend DEF SendState, TypeInv
<1>2. /\ m.blocks \in Nat /\ m.chunked \in BOOLEAN
      /\ TextStart(m) \in Nat /\ Final(m) = TextStart(m) + m.blocks /\ TextStart(m) >= 2
  BY <1>1, ScriptNumbers
<1>3. /\ r \in Nat /\ w \in Nat /\ r <= w /\ w <= Final(m) + 1
  BY DEF SendState, Dialogue, Shape
<1>4. block \in Nat /\ unread \in Nat /\ m_commands \in Seq(Commands) /\ Len(m_commands) \in Nat
  BY DEF TypeInv, ClientType, DataType, CommandSetType
<1>5. /\ Len(s2c) \in Nat /\ Len(c2s) \in Nat
      /\ s2c = <<>> => Len(s2c) = 0
  BY <1>1 DEF StreamType
<1>6. r + Len(s2c) <= w
  BY <1>3, <1>5, <1>1 DEF SendState, Dialogue, Wire, StreamType
<1> QED
  BY <1>1, <1>2, <1>3, <1>4, <1>5, <1>6

\* The command set writes the envelope, all at once or one command at a time.
LEMMA SendWrites ==
  ASSUME TypeInv, NEW t, NEW m, NEW r, NEW w, SendState(t, m, r, w), writeToSocket
  PROVE  \E t1, m1, r1, w1 : SendState(t1, m1, r1, w1)'
<1>1. /\ pc = "write" /\ pc' = "reply" /\ m_started' = TRUE
      /\ m_lastCommandSent' = Head(m_commands) /\ m_commands' = Tail(m_commands)
      /\ Write(IF ~hasPipelining THEN <<Head(m_commands)>>
               ELSE IF m_started THEN <<>> ELSE m_commands)
      /\ UNCHANGED <<sends, extensions, invalidReply, alive, srv, s2c, delivered>>
  BY DEF writeToSocket, session, dataVars
<1>2. pc \in Active /\ m_commands # <<>>
  BY <1>1 DEF Active, TypeInv, Running
<1>3. /\ m \in Submissions /\ t \in Nat /\ StreamType
      /\ m.blocks \in Nat /\ m.chunked \in BOOLEAN
      /\ TextStart(m) \in Nat /\ Final(m) = TextStart(m) + m.blocks /\ TextStart(m) >= 2
      /\ r \in Nat /\ w \in Nat /\ m_commands \in Seq(Commands) /\ Len(m_commands) \in Nat
  BY <1>2, Numbers
<1>4. PICK len \in Nat : len = Len(m_commands)
  BY <1>3
<1>5. /\ len <= TextStart(m) /\ Writes(m_commands, t, m, TextStart(m) - len)
      /\ r = TextStart(m) - len
      /\ w = IF hasPipelining /\ m_started THEN TextStart(m) ELSE TextStart(m) - len
      /\ Dialogue(t, m, r, w)
  BY <1>1, <1>4 DEF SendState, Queue, Answered, Written
<1>6. /\ len > 0 /\ Len(m_commands') = len - 1
      /\ Writes(m_commands', t, m, r + 1) /\ Head(m_commands) = Item(t, m, r)
  BY <1>1, <1>2, <1>3, <1>4, <1>5, ScriptTail
<1>7. cur' = t /\ message' = m /\ hasPipelining' = hasPipelining
  BY <1>1 DEF SendState, cur, message, hasPipelining
<1>8. /\ Answered(m)' = r
      /\ Written(m)' = IF hasPipelining THEN TextStart(m) ELSE r + 1
  <2>1. TextStart(m) - Len(m_commands') - 1 = r /\ TextStart(m) - Len(m_commands') = r + 1
    BY <1>3, <1>4, <1>5, <1>6
  <2> QED
    BY <1>1, <1>7, <2>1 DEF Answered, Written
<1>9. Queue(t, m)' /\ Progress(m)'
  <2>1. /\ Len(m_commands') <= TextStart(m) /\ Len(m_commands') < TextStart(m)
        /\ TextStart(m) - Len(m_commands') = r + 1 /\ TextStart(m) - Len(m_commands') - 1 = r
    BY <1>3, <1>4, <1>5, <1>6, SMTT(60)
  <2> QED
    BY <1>1, <1>6, <2>1, SMTT(60) DEF Queue, Progress
<1>10. ASSUME NEW q \in Seq(Commands), Write(q), Writes(q, t, m, w), w + Len(q) <= TextStart(m),
              w + Len(q) = Written(m)'
       PROVE  SendState(t, m, r, w + Len(q))'
  <2>1. Shape(m, r, w + Len(q))
    <3>1. r < TextStart(m) /\ r <= w
      BY <1>3, <1>4, <1>5, <1>6
    <3>2. Len(q) \in Nat
      BY <1>10
    <3>3. r <= w + Len(q) /\ ~(w + Len(q) > TextStart(m)) /\ w + Len(q) <= Final(m) + 1
      BY <1>3, <1>10, <3>1, <3>2
    <3> QED
      BY <1>3, <3>1, <3>2, <3>3 DEF Shape
  <2>2. Dialogue(t, m, r, w + Len(q))'
    BY <1>1, <1>3, <1>5, <1>10, <2>1, DialogueWrite
  <2> QED
    BY <1>7, <1>8, <1>9, <1>10, <2>2 DEF SendState
<1>11. CASE ~hasPipelining
  <2>0. Head(m_commands) \in Commands /\ <<Head(m_commands)>> \in Seq(Commands)
    BY <1>2, <1>3
  <2>1. PICK q \in Seq(Commands) : q = <<Head(m_commands)>>
    BY <2>0
  <2>2. q \in Seq(Commands) /\ Len(q) = 1 /\ Writes(q, t, m, w) /\ Write(q)
    BY <1>1, <1>3, <1>5, <1>6, <1>11, <2>1 DEF Writes
  <2>3. w + Len(q) <= TextStart(m) /\ w + Len(q) = Written(m)'
    BY <1>3, <1>5, <1>6, <1>8, <1>11, <2>2
  <2> QED
    BY <1>10, <2>2, <2>3
<1>12. CASE hasPipelining /\ ~m_started
  <2>1. Write(m_commands) /\ Writes(m_commands, t, m, w)
    BY <1>1, <1>5, <1>12
  <2>2. w + Len(m_commands) <= TextStart(m) /\ w + Len(m_commands) = Written(m)'
    BY <1>3, <1>4, <1>5, <1>6, <1>8, <1>12
  <2> QED
    BY <1>3, <1>10, <2>1, <2>2
<1>13. CASE hasPipelining /\ m_started
  <2>1. PICK q \in Seq(Commands) : q = <<>>
    BY EmptySequence
  <2>2. q \in Seq(Commands) /\ Len(q) = 0 /\ Writes(q, t, m, w) /\ Write(q)
    BY <1>1, <1>13, <2>1 DEF Writes
  <2>3. w + Len(q) <= TextStart(m) /\ w + Len(q) = Written(m)'
    BY <1>3, <1>5, <1>8, <1>13, <2>2
  <2> QED
    BY <1>10, <2>2, <2>3
<1> QED
  BY <1>11, <1>12, <1>13

\* Accepting a reply of the envelope means that it is no refusal.
LEMMA AcceptsNoRefusal ==
  ASSUME NEW m \in Submissions, NEW t \in Nat, NEW k \in Nat, k < TextStart(m)
  PROVE  Refusal \notin Accepts(Item(t, m, k).verb)
<1>1. /\ m.chunked \in BOOLEAN /\ TextStart(m) \in Nat /\ Final(m) \in Nat
      /\ TextStart(m) <= Final(m)
  BY ScriptNumbers
<1>2. Item(t, m, k).verb \in {"RSET", "MAIL", "RCPT", "DATA"}
  <2>1. VerbOf(m, k) \in {"RSET", "MAIL", "RCPT", "DATA"}
    BY DEF VerbOf
  <2> QED
    BY <2>1 DEF Item, Command
<1> QED
  BY <1>2, CodesAssumption DEF Accepts

\* What is left of the replies when the first of them has been read.
LEMMA AcceptedTail ==
  ASSUME s2c \in Seq(Replies), s2c # <<>>, s2c' = Tail(s2c)
  PROVE  (\A i \in 1..Len(s2c) : s2c[i].code # Refusal)
           <=> Code # Refusal /\ \A i \in 1..Len(s2c') : s2c'[i].code # Refusal
<1>1. /\ Len(s2c') = Len(s2c) - 1 /\ Len(s2c) \in Nat /\ Len(s2c) > 0 /\ Code = s2c[1].code
      /\ \A i \in 1..Len(s2c') : s2c'[i] = s2c[i + 1]
  BY DEF Code
<1>2. ASSUME Code # Refusal, \A i \in 1..Len(s2c') : s2c'[i].code # Refusal,
             NEW i \in 1..Len(s2c)
      PROVE  s2c[i].code # Refusal
  <2>1. CASE i = 1
    BY <1>1, <1>2, <2>1
  <2>2. CASE i # 1
    <3>1. i - 1 \in 1..Len(s2c') /\ (i - 1) + 1 = i
      BY <1>1, <2>2
    <3> QED
      BY <1>1, <1>2, <3>1
  <2> QED
    BY <2>1, <2>2
<1>3. ASSUME \A i \in 1..Len(s2c) : s2c[i].code # Refusal
      PROVE  Code # Refusal /\ \A i \in 1..Len(s2c') : s2c'[i].code # Refusal
  <2>1. 1 \in 1..Len(s2c) /\ \A i \in 1..Len(s2c') : i + 1 \in 1..Len(s2c)
    BY <1>1
  <2> QED
    BY <1>1, <1>3, <2>1
<1> QED
  BY <1>2, <1>3

\* An accepted reply moves on in the envelope, or on to the message.
LEMMA SendReads ==
  ASSUME TypeInv, NEW t, NEW m, NEW r, NEW w, SendState(t, m, r, w), replyAccepted
  PROVE  \E t1, m1, r1, w1 : SendState(t1, m1, r1, w1)'
<1>1. /\ pc = "reply" /\ s2c # <<>> /\ s2c' = Tail(s2c)
      /\ Code \in Accepts(m_lastCommandSent.verb)
      /\ UNCHANGED <<sends, extensions, m_commands, m_started, m_lastCommandSent,
                     alive, srv, c2s, delivered>>
  BY DEF replyAccepted, ReadReply, session, commandSet
<1>2. pc \in Active
  BY <1>1 DEF Active
<1>3. /\ m \in Submissions /\ t \in Nat /\ StreamType
      /\ m.blocks \in Nat /\ m.chunked \in BOOLEAN
      /\ TextStart(m) \in Nat /\ Final(m) = TextStart(m) + m.blocks /\ TextStart(m) >= 2
      /\ r \in Nat /\ w \in Nat /\ m_commands \in Seq(Commands) /\ Len(m_commands) \in Nat
      /\ w <= Final(m) + 1 /\ r + Len(s2c) <= w
  BY <1>2, Numbers
<1>4. PICK len \in Nat : len = Len(m_commands)
  BY <1>3
<1>5. /\ len < TextStart(m) /\ Writes(m_commands, t, m, TextStart(m) - len)
      /\ m_started /\ m_lastCommandSent = Item(t, m, r)
      /\ r = TextStart(m) - len - 1
      /\ w = IF hasPipelining THEN TextStart(m) ELSE TextStart(m) - len
      /\ Dialogue(t, m, r, w)
  BY <1>1, <1>4 DEF SendState, Queue, Answered, Written
<1>6. cur' = t /\ message' = m /\ hasPipelining' = hasPipelining
  BY <1>1 DEF SendState, cur, message, hasPipelining
<1>7. Code # Refusal
  BY <1>1, <1>3, <1>4, <1>5, AcceptsNoRefusal
<1>8. s2c \in Seq(Replies)
  BY <1>3 DEF StreamType
<1>9. (\A i \in 1..Len(s2c) : s2c[i].code # Refusal)
        <=> (\A i \in 1..Len(s2c') : s2c'[i].code # Refusal)
  BY <1>1, <1>7, <1>8, AcceptedTail
<1>10. r + 1 = TextStart(m) - len /\ r < TextStart(m) /\ w <= TextStart(m)
  BY <1>3, <1>4, <1>5, SMTT(60)
<1>11. CASE m_commands # <<>>
  <2>1. pc' = "write" /\ UNCHANGED <<block, unread, invalidReply>>
    BY <1>1, <1>11 DEF replyAccepted, dataVars
  <2>2. len > 0 /\ r + 1 < TextStart(m)
    BY <1>3, <1>4, <1>10, <1>11
  <2>3. Accepted(m, r + 1)' <=> Accepted(m, r)
    BY <1>3, <1>9, <1>10, <2>2, SMTT(60) DEF Accepted
  <2>4. Shape(m, r + 1, w)'
    <3>1. Len(s2c) > 0
      BY <1>1, <1>8
    <3>2. Len(s2c) \in Nat
      BY <1>8
    <3>3. r + 1 \in Nat /\ r + 1 <= w /\ ~(w > TextStart(m))
      BY <1>3, <1>10, <3>1, <3>2
    <3> QED
      BY <1>3, <2>2, <3>3 DEF Shape
  <2>5. Dialogue(t, m, r + 1, w)'
    BY <1>1, <1>3, <1>5, <2>2, <2>3, <2>4, DialogueRead, SMTT(60)
  <2>6. Answered(m)' = r + 1 /\ Written(m)' = w
    BY <1>1, <1>4, <1>5, <1>6, <1>10, <2>1 DEF Answered, Written
  <2>7. Queue(t, m)' /\ Progress(m)'
    BY <1>1, <1>3, <1>4, <1>5, <2>1 DEF Queue, Progress
  <2> QED
    BY <1>6, <2>5, <2>6, <2>7 DEF SendState
<1>12. CASE m_commands = <<>>
  <2>1. pc' = "data" /\ block' = 0 /\ unread' = 0 /\ invalidReply' = FALSE
    BY <1>1, <1>12 DEF replyAccepted
  <2>2. len = 0 /\ r + 1 = TextStart(m) /\ w = TextStart(m)
    BY <1>3, <1>4, <1>5, <1>12
  <2>3. Len(s2c') = 0
    <3>1. Len(s2c) > 0 /\ Len(s2c) \in Nat /\ Len(s2c') = Len(s2c) - 1
      BY <1>1, <1>8
    <3> QED
      BY <1>3, <2>2, <3>1
  <2>4. Accepted(m, r + 1)' /\ Accepted(m, r)
    <3>1. \A i \in 1..Len(s2c') : s2c'[i].code # Refusal
      BY <2>3
    <3> QED
      BY <1>3, <1>9, <1>10, <2>1, <3>1 DEF Accepted
  <2>5. Shape(m, r + 1, w)'
    BY <1>3, <2>1, <2>2 DEF Shape
  <2>6. Dialogue(t, m, r + 1, w)'
    BY <1>1, <1>3, <1>5, <2>4, <2>5, DialogueRead
  <2>7. Answered(m)' = r + 1 /\ Written(m)' = w
    BY <1>3, <2>1, <2>2 DEF Answered, Written
  <2>8. Queue(t, m)' /\ Progress(m)'
    BY <1>3, <2>1 DEF Queue, Progress
  <2> QED
    BY <1>6, <2>6, <2>7, <2>8 DEF SendState
<1> QED
  BY <1>11, <1>12

\* The items of the message.
LEMMA MessageItems ==
  ASSUME NEW m \in Submissions, NEW t \in Nat, NEW b \in Nat, b <= m.blocks
  PROVE  LET k == TextStart(m) + b IN
         /\ b < m.blocks =>
              Item(t, m, k) = Command(IF m.chunked THEN "BDAT" ELSE "TEXT", t, b + 1)
         /\ b = m.blocks =>
              Item(t, m, k) = Command(IF m.chunked THEN "LAST" ELSE "EOM", t, b + 1)
         /\ Item(t, m, k) \in Commands /\ Writes(<<Item(t, m, k)>>, t, m, k)
         /\ <<Item(t, m, k)>> \in Seq(Commands) /\ Len(<<Item(t, m, k)>>) = 1
<1>1. /\ m.to \in Nat /\ m.blocks \in Nat /\ m.chunked \in BOOLEAN
      /\ TextStart(m) \in Nat /\ Final(m) \in Nat
      /\ m.chunked => TextStart(m) = m.to + 2
      /\ ~m.chunked => TextStart(m) = m.to + 3
      /\ Final(m) = TextStart(m) + m.blocks
  BY ScriptNumbers
<1>2. PICK k \in Nat : k = TextStart(m) + b
  BY <1>1
<1>3. /\ ~(k = 0) /\ ~(k = 1) /\ ~(k < 2) /\ ~(k <= m.to + 1) /\ ~(k < TextStart(m))
      /\ k - TextStart(m) + 1 = b + 1 /\ k <= Final(m)
      /\ k < Final(m) <=> b < m.blocks
  BY <1>1, <1>2
<1>4. ArgOf(m, k) = b + 1
  BY <1>3 DEF ArgOf
<1>5. /\ b < m.blocks => VerbOf(m, k) = IF m.chunked THEN "BDAT" ELSE "TEXT"
      /\ ~(b < m.blocks) => VerbOf(m, k) = IF m.chunked THEN "LAST" ELSE "EOM"
  BY <1>3 DEF VerbOf
<1>6. /\ b < m.blocks => Item(t, m, k) = Command(IF m.chunked THEN "BDAT" ELSE "TEXT", t, b + 1)
      /\ b = m.blocks => Item(t, m, k) = Command(IF m.chunked THEN "LAST" ELSE "EOM", t, b + 1)
  BY <1>1, <1>4, <1>5 DEF Item
<1>7. Item(t, m, k) \in Commands
  BY <1>3, ItemVerbs
<1>8. Writes(<<Item(t, m, k)>>, t, m, k)
  BY <1>2 DEF Writes
<1>9. <<Item(t, m, k)>> \in Seq(Commands) /\ Len(<<Item(t, m, k)>>) = 1
  BY <1>7
<1> QED
  BY <1>2, <1>6, <1>7, <1>8, <1>9

\* A block of the message is the next item of the script.
LEMMA SendWritesBlock ==
  ASSUME TypeInv, NEW t, NEW m, NEW r, NEW w, SendState(t, m, r, w), writeBlock
  PROVE  \E t1, m1, r1, w1 : SendState(t1, m1, r1, w1)'
<1>0. t = cur /\ m = message
  BY DEF SendState
<1>1. /\ pc = "data" /\ block < m.blocks /\ block' = block + 1
      /\ Write(<<Command(IF m.chunked THEN "BDAT" ELSE "TEXT", t, block + 1)>>)
      /\ pc' = IF m.chunked /\ "PIPELINING" \notin extensions THEN "chunk" ELSE "data"
      /\ unread' = IF m.chunked THEN unread + 1 ELSE unread
      /\ UNCHANGED <<sends, extensions, invalidReply, alive, srv, s2c, delivered>>
  BY <1>0 DEF writeBlock, awaitsEachChunk, session
<1>2. pc \in Active
  BY <1>1 DEF Active
<1>3. /\ m \in Submissions /\ t \in Nat /\ StreamType
      /\ m.blocks \in Nat /\ m.chunked \in BOOLEAN
      /\ TextStart(m) \in Nat /\ Final(m) = TextStart(m) + m.blocks /\ TextStart(m) >= 2
      /\ r \in Nat /\ w \in Nat /\ block \in Nat /\ unread \in Nat
  BY <1>2, Numbers
<1>4. /\ w = TextStart(m) + block /\ r = w - unread /\ unread <= block
      /\ ~m.chunked => unread = 0
      /\ m.chunked /\ "PIPELINING" \notin extensions => unread = 0
      /\ Dialogue(t, m, r, w)
  BY <1>1 DEF SendState, Answered, Written, Progress
<1>5. cur' = t /\ message' = m
  BY <1>0, <1>1 DEF cur, message
<1>6. /\ Item(t, m, w) = Command(IF m.chunked THEN "BDAT" ELSE "TEXT", t, block + 1)
      /\ Writes(<<Item(t, m, w)>>, t, m, w)
      /\ <<Item(t, m, w)>> \in Seq(Commands) /\ Len(<<Item(t, m, w)>>) = 1
  BY <1>1, <1>3, <1>4, MessageItems
<1>7. Write(<<Item(t, m, w)>>)
  BY <1>1, <1>6
<1>8. Written(m)' = w + 1 /\ Answered(m)' = IF m.chunked THEN r ELSE r + 1
  BY <1>1, <1>3, <1>4 DEF Written, Answered
<1>9. Queue(t, m)' /\ Progress(m)'
  BY <1>1, <1>3, <1>4 DEF Queue, Progress
<1>10. CASE m.chunked
  <2>1. Shape(m, r, w + 1)
    <3>1. r >= TextStart(m) /\ r <= w + 1 /\ w + 1 <= Final(m) + 1
      BY <1>1, <1>3, <1>4
    <3> QED
      BY <1>3, <1>10, <3>1 DEF Shape
  <2>2. PICK q \in Seq(Commands) : q = <<Item(t, m, w)>>
    BY <1>6
  <2>3. q \in Seq(Commands) /\ Len(q) = 1 /\ Writes(q, t, m, w) /\ Write(q)
    BY <1>6, <1>7, <2>2
  <2>4. Dialogue(t, m, r, w + Len(q))'
    BY <1>1, <1>3, <1>4, <2>1, <2>3, DialogueWrite
  <2>5. Dialogue(t, m, r, w + 1)'
    BY <2>3, <2>4
  <2> QED
    BY <1>5, <1>8, <1>9, <1>10, <2>5 DEF SendState
<1>11. CASE ~m.chunked
  <2>1. r = w /\ TextStart(m) <= w /\ w < Final(m)
    BY <1>1, <1>3, <1>4, <1>11
  <2>2. Dialogue(t, m, w + 1, w + 1)'
    BY <1>1, <1>3, <1>4, <1>7, <1>11, <2>1, DialogueWriteText
  <2> QED
    BY <1>5, <1>8, <1>9, <1>11, <2>1, <2>2 DEF SendState
<1> QED
  BY <1>10, <1>11

\* So is what ends the message.
LEMMA SendWritesEnd ==
  ASSUME TypeInv, NEW t, NEW m, NEW r, NEW w, SendState(t, m, r, w), writeEnd
  PROVE  \E t1, m1, r1, w1 : SendState(t1, m1, r1, w1)'
<1>0. t = cur /\ m = message
  BY DEF SendState
<1>1. /\ pc = "data" /\ block = m.blocks /\ block' = block
      /\ Write(<<Command(IF m.chunked THEN "LAST" ELSE "EOM", t, block + 1)>>)
      /\ pc' = "end" /\ unread' = unread + 1
      /\ UNCHANGED <<sends, extensions, invalidReply, alive, srv, s2c, delivered>>
  BY <1>0 DEF writeEnd, session
<1>2. pc \in Active
  BY <1>1 DEF Active
<1>3. /\ m \in Submissions /\ t \in Nat /\ StreamType
      /\ m.blocks \in Nat /\ m.chunked \in BOOLEAN
      /\ TextStart(m) \in Nat /\ Final(m) = TextStart(m) + m.blocks /\ TextStart(m) >= 2
      /\ r \in Nat /\ w \in Nat /\ block \in Nat /\ unread \in Nat
  BY <1>2, Numbers
<1>4. /\ w = Final(m) /\ r = w - unread /\ unread <= block /\ w = TextStart(m) + block
      /\ ~m.chunked => unread = 0
      /\ Dialogue(t, m, r, w)
  BY <1>1, <1>3 DEF SendState, Answered, Written, Progress
<1>5. cur' = t /\ message' = m
  BY <1>0, <1>1 DEF cur, message
<1>6. /\ Item(t, m, w) = Command(IF m.chunked THEN "LAST" ELSE "EOM", t, block + 1)
      /\ Writes(<<Item(t, m, w)>>, t, m, w)
      /\ <<Item(t, m, w)>> \in Seq(Commands) /\ Len(<<Item(t, m, w)>>) = 1
  <2>1. block <= m.blocks /\ block = m.blocks /\ w = TextStart(m) + block /\ block \in Nat
    BY <1>1, <1>3, <1>4
  <2>2. LET k == TextStart(m) + block IN
        /\ Item(t, m, k) = Command(IF m.chunked THEN "LAST" ELSE "EOM", t, block + 1)
        /\ Writes(<<Item(t, m, k)>>, t, m, k)
        /\ <<Item(t, m, k)>> \in Seq(Commands) /\ Len(<<Item(t, m, k)>>) = 1
    BY <1>3, <2>1, MessageItems
  <2> QED
    BY <2>1, <2>2
<1>7. Write(<<Item(t, m, w)>>)
  BY <1>1, <1>6
<1>8. Written(m)' = w + 1 /\ Answered(m)' = r
  BY <1>1, <1>3, <1>4 DEF Written, Answered
<1>9. Queue(t, m)' /\ Progress(m)'
  BY <1>1, <1>3, <1>4 DEF Queue, Progress
<1>10. Shape(m, r, w + 1)
  <2>1. /\ r >= TextStart(m) /\ r <= w + 1 /\ w + 1 = Final(m) + 1
        /\ ~m.chunked => r = Final(m)
    BY <1>1, <1>3, <1>4
  <2>2. ~m.chunked => ~invalidReply
    BY <1>4, <2>1 DEF Dialogue, Shape
  <2> QED
    BY <1>3, <2>1, <2>2 DEF Shape
<1>11. PICK q \in Seq(Commands) : q = <<Item(t, m, w)>>
  BY <1>6
<1>12. q \in Seq(Commands) /\ Len(q) = 1 /\ Writes(q, t, m, w) /\ Write(q)
  BY <1>6, <1>7, <1>11
<1>13. Dialogue(t, m, r, w + Len(q))'
  BY <1>1, <1>3, <1>4, <1>10, <1>12, DialogueWrite
<1>14. Dialogue(t, m, r, w + 1)'
  BY <1>12, <1>13
<1> QED
  BY <1>5, <1>8, <1>9, <1>14 DEF SendState

\* A reply to message data is 250 or a refusal.
LEMMA MessageCode ==
  ASSUME TypeInv, CodesInv, pc \in Active, NEW t, NEW m, NEW r, NEW w, SendState(t, m, r, w),
         s2c # <<>>, TextStart(m) <= r, r <= Final(m)
  PROVE  Code = 250 <=> Code # Refusal
<1>1. /\ m \in Submissions /\ t \in Nat /\ StreamType /\ r \in Nat /\ w \in Nat
      /\ m.chunked \in BOOLEAN /\ TextStart(m) \in Nat /\ TextStart(m) >= 2
      /\ Dialogue(t, m, r, w)
  BY Numbers DEF SendState
<1>2. s2c \in Seq(Replies) /\ Head(s2c) = s2c[1] /\ 1 \in 1..Len(s2c)
  BY <1>1 DEF StreamType
<1>3. Head(s2c).to = Item(t, m, r)
  BY <1>1, <1>2, ScriptTail DEF Dialogue, Wire
<1>4. Item(t, m, r).verb \in {"BDAT", "TEXT", "LAST", "EOM"}
  <2>1. VerbOf(m, r) \in {"BDAT", "TEXT", "LAST", "EOM"}
    <3>1. /\ ~(r = 0) /\ ~(r = 1) /\ ~(r < TextStart(m)) /\ ~(r <= m.to + 1)
      BY <1>1, ScriptNumbers
    <3> QED
      BY <3>1 DEF VerbOf
  <2> QED
    BY <2>1 DEF Item, Command
<1>5. Code \in Positive(Item(t, m, r).verb) \cup {Refusal}
  BY <1>2, <1>3 DEF Code, CodesInv
<1> QED
  BY <1>4, <1>5, CodesAssumption DEF Positive

\* The replies to the chunks.
LEMMA SendReadsChunk ==
  ASSUME TypeInv, CodesInv, NEW t, NEW m, NEW r, NEW w, SendState(t, m, r, w),
         chunkAccepted \/ chunkAnswered
  PROVE  \E t1, m1, r1, w1 : SendState(t1, m1, r1, w1)'
<1>0. t = cur /\ m = message
  BY DEF SendState
<1>1. /\ s2c # <<>> /\ s2c' = Tail(s2c)
      /\ UNCHANGED <<sends, extensions, block, alive, srv, c2s, delivered>>
      /\ \/ /\ pc = "chunk" /\ pc' = "data" /\ Code = 250 /\ unread' = 0
            /\ invalidReply' = invalidReply
         \/ /\ pc = "end" /\ pc' = "end" /\ unread > 1 /\ unread' = unread - 1
            /\ invalidReply' = (invalidReply \/ Code # 250)
  BY DEF chunkAccepted, chunkAnswered, ReadReply, session
<1>2. pc \in Active
  BY <1>1 DEF Active
<1>3. /\ m \in Submissions /\ t \in Nat /\ StreamType
      /\ m.blocks \in Nat /\ m.chunked \in BOOLEAN
      /\ TextStart(m) \in Nat /\ Final(m) = TextStart(m) + m.blocks /\ TextStart(m) >= 2
      /\ r \in Nat /\ w \in Nat /\ block \in Nat /\ unread \in Nat
      /\ w <= Final(m) + 1 /\ r + Len(s2c) <= w
  BY <1>2, Numbers
<1>4. /\ r = w - unread /\ m.chunked /\ Dialogue(t, m, r, w)
      /\ pc = "chunk" => unread = 1 /\ w = TextStart(m) + block /\ block <= m.blocks
                         /\ unread <= block
      /\ pc = "end" => w = Final(m) + 1 /\ block = m.blocks /\ unread <= block + 1
  BY <1>1 DEF SendState, Answered, Written, Progress
<1>5. cur' = t /\ message' = m
  BY <1>0, <1>1 DEF cur, message
<1>6. TextStart(m) <= r /\ r < Final(m) /\ r + 1 <= w
  BY <1>1, <1>3, <1>4, SMTT(60)
<1>7. Written(m)' = w /\ Answered(m)' = r + 1
  BY <1>1, <1>3, <1>4 DEF Written, Answered
<1>8. Queue(t, m)' /\ Progress(m)'
  BY <1>1, <1>3, <1>4, SMTT(60) DEF Queue, Progress
<1>9. Shape(m, r + 1, w)'
  BY <1>3, <1>4, <1>6 DEF Shape
<1>10. Code = 250 <=> Code # Refusal
  BY <1>1, <1>2, <1>3, <1>6, MessageCode
<1>11. (\A i \in 1..Len(s2c) : s2c[i].code # Refusal)
         <=> Code # Refusal /\ \A i \in 1..Len(s2c') : s2c'[i].code # Refusal
  BY <1>1, <1>3, AcceptedTail DEF StreamType
<1>12. Accepted(m, r + 1)' <=> Accepted(m, r)
  <2>1. r >= TextStart(m) /\ r + 1 >= TextStart(m)
    BY <1>3, <1>6
  <2>2. invalidReply \in BOOLEAN
    BY DEF TypeInv, ClientType, DataType
  <2>3. CASE pc = "chunk"
    <3>1. Code # Refusal /\ invalidReply' = invalidReply
      BY <1>1, <1>10, <2>3
    <3> QED
      BY <1>11, <2>1, <3>1 DEF Accepted
  <2>4. CASE pc = "end"
    <3>1. invalidReply' = (invalidReply \/ Code # 250)
      BY <1>1, <2>4
    <3>2. CASE Code = 250
      <4>1. Code # Refusal
        BY <1>10, <3>2
      <4>2. invalidReply' = invalidReply
        BY <2>2, <3>1, <3>2
      <4> QED
        BY <1>11, <2>1, <4>1, <4>2 DEF Accepted
    <3>3. CASE Code # 250
      <4>1. ~(Code # Refusal)
        BY <1>10, <3>3
      <4>2. invalidReply' = TRUE
        BY <3>1, <3>3
      <4> QED
        BY <1>11, <2>1, <4>1, <4>2 DEF Accepted
    <3> QED
      BY <3>2, <3>3
  <2> QED
    BY <1>1, <2>3, <2>4
<1>13. r + 1 # TextStart(m)
  BY <1>3, <1>6
<1>14. Dialogue(t, m, r + 1, w)'
  BY <1>1, <1>3, <1>4, <1>9, <1>12, <1>13, DialogueRead, SMTT(60)
<1> QED
  BY <1>5, <1>7, <1>8, <1>14 DEF SendState

-----------------------------------------------------------------------------
(***************************************************************************)
(* The invariants, step by step.                                           *)
(***************************************************************************)
\* The server answers with a refusal or with what the command calls for.
LEMMA CodesServe ==
  ASSUME StreamType, CodesInv, Serve
  PROVE  CodesInv'
<1>1. s2c \in Seq(Replies) /\ Len(s2c) \in Nat
  BY DEF StreamType
<1>2. ASSUME NEW code, code \in Positive(Request.verb) \cup {Refusal}, Answer(code)
      PROVE  CodesInv'
  <2>1. PICK a : a = [code |-> code, to |-> Request]
    OBVIOUS
  <2>2. a.code = code /\ a.to = Request
    BY <2>1
  <2>3. s2c' = Append(s2c, a)
    BY <1>2, <2>1 DEF Answer
  <2>4. /\ Len(s2c') = Len(s2c) + 1 /\ s2c'[Len(s2c) + 1] = a
        /\ \A i \in 1..Len(s2c) : s2c'[i] = s2c[i]
    BY <1>1, <2>3
  <2> QED
    BY <1>1, <1>2, <2>2, <2>4 DEF CodesInv
<1>3. ASSUME NEW verb, verb = Request.verb, Accept(verb) PROVE CodesInv'
  BY <1>2, <1>3 DEF Accept
<1>4. CASE ServeText
  BY <1>4 DEF ServeText, CodesInv
<1>5. CASE ServeEndOfData
  <2>1. Request.verb = "EOM" /\ (Accept("EOM") \/ Answer(Refusal))
    BY <1>5 DEF ServeEndOfData, Receives
  <2> QED
    BY <1>2, <1>3, <2>1
<1>6. CASE Refuse
  BY <1>2, <1>6 DEF Refuse
<1>7. ASSUME ServeReset \/ ServeMail \/ ServeRcpt \/ ServeData \/ ServeChunk
               \/ ServeLastChunk \/ DiscardChunk \/ ServeNoop
      PROVE  Accept(Request.verb)
  BY <1>7 DEF ServeReset, ServeMail, ServeRcpt, ServeData, ServeChunk, ServeLastChunk, DiscardChunk,
              ServeNoop, Receives
<1> QED
  BY <1>3, <1>4, <1>5, <1>6, <1>7 DEF Serve

\* Reading, losing and refusing keep it: a reply cut short is read as a refusal.
LEMMA CodesNext ==
  ASSUME TypeInv, CodesInv, [Next]_vars
  PROVE  CodesInv'
<1>1. s2c \in Seq(Replies) /\ Len(s2c) \in Nat /\ StreamType
  BY DEF TypeInv, StreamType
<1>2. ASSUME s2c' = s2c PROVE CodesInv'
  BY <1>2 DEF CodesInv
<1>3. ASSUME s2c' = <<>> PROVE CodesInv'
  BY <1>3 DEF CodesInv
<1>4. ASSUME s2c # <<>>, s2c' = Tail(s2c) PROVE CodesInv'
  BY <1>1, <1>4 DEF CodesInv
<1>5. CASE Server
  <2>1. CASE Serve
    BY <1>1, <2>1, CodesServe
  <2>2. CASE ServerCloses
    BY <1>1, <2>2, KeptReplies DEF ServerCloses, CodesInv
  <2> QED
    BY <1>5, <2>1, <2>2 DEF Server
<1>6. CASE timedOut
  <2>1. CASE s2c # <<>> /\ s2c' = [s2c EXCEPT ![1].code = Refusal]
    <3>1. /\ Len(s2c') = Len(s2c) /\ s2c'[1] = [s2c[1] EXCEPT !.code = Refusal]
          /\ s2c[1] \in Replies
          /\ \A i \in 2..Len(s2c) : s2c'[i] = s2c[i]
      BY <1>1, <2>1
    <3>2. s2c'[1].code = Refusal
      BY <3>1 DEF Replies
    <3>3. ASSUME NEW i \in 1..Len(s2c') PROVE s2c'[i].code = Refusal \/ s2c'[i] = s2c[i]
      <4>1. i = 1 \/ i \in 2..Len(s2c)
        BY <1>1, <3>1
      <4> QED
        BY <3>1, <3>2, <4>1
    <3> QED
      BY <3>1, <3>3 DEF CodesInv
  <2> QED
    BY <1>2, <1>6, <2>1 DEF timedOut
<1>7. CASE connect \/ disconnect \/ resetRefused \/ chunkRefused \/ socketFails
  BY <1>3, <1>7 DEF connect, disconnect, resetRefused, chunkRefused, socketFails, Hangup
<1>8. CASE replyAccepted \/ replyRefused \/ chunkAccepted \/ chunkAnswered
           \/ messageAccepted \/ messageRefused \/ noopAnswered
  BY <1>4, <1>8 DEF replyAccepted, replyRefused, chunkAccepted, chunkAnswered,
                    messageAccepted, messageRefused, noopAnswered, ReadReply
<1>9. CASE noop \/ writeToSocket \/ writeBlock \/ writeEnd \/ sourceFails
           \/ \E n \in 1..MaxRecipients, blocks \in 0..MaxBlocks, chunked \in BOOLEAN :
                sendEnvelope(n, blocks, chunked)
  BY <1>2, <1>9 DEF noop, writeToSocket, writeBlock, writeEnd, sourceFails, sendEnvelope,
                    serverVars
<1>10. CASE UNCHANGED vars
  BY <1>2, <1>10 DEF vars, serverVars
<1> QED
  BY <1>5, <1>6, <1>7, <1>8, <1>9, <1>10 DEF Next, Client

\* What NOOPs alone do to the server.
LEMMA FreshServe ==
  ASSUME StreamType, Serve, srv.mail = 0, \A i \in 1..Len(c2s) : c2s[i].verb = "NOOP"
  PROVE  srv'.mail = 0 /\ \A i \in 1..Len(c2s') : c2s'[i].verb = "NOOP"
<1>1. c2s # <<>> /\ c2s' = Tail(c2s) /\ c2s \in Seq(Commands) /\ srv \in Transactions
  BY ServerStep DEF StreamType
<1>2. /\ Request.verb = "NOOP" /\ Len(c2s') = Len(c2s) - 1 /\ Len(c2s) \in Nat
      /\ \A i \in 1..Len(c2s') : i + 1 \in 1..Len(c2s) /\ c2s'[i] = c2s[i + 1]
  BY <1>1 DEF Request
<1>3. ServeText \/ ServeNoop \/ Refuse
  BY <1>2 DEF Serve, ServeReset, ServeMail, ServeRcpt, ServeData, ServeEndOfData, ServeChunk,
              ServeLastChunk, DiscardChunk, Receives
<1>4. srv'.mail = 0
  <2>1. CASE ServeText
    BY <1>1, <2>1 DEF ServeText, Transactions
  <2>2. CASE ServeNoop \/ Refuse
    BY <1>2, <2>2 DEF ServeNoop, Refuse
  <2> QED
    BY <1>3, <2>1, <2>2
<1> QED
  BY <1>2, <1>4

\* m_needReset is set by the first send() and never cleared.
LEMMA FreshNext ==
  ASSUME TypeInv, FreshInv, [Next]_vars
  PROVE  FreshInv'
<1> SUFFICES ASSUME ~m_needReset'
             PROVE  pc' \notin Active /\ srv'.mail = 0
                    /\ \A i \in 1..Len(c2s') : c2s'[i].verb = "NOOP"
  BY DEF FreshInv
<1>1. ~(\E n \in 1..MaxRecipients, blocks \in 0..MaxBlocks, chunked \in BOOLEAN :
          sendEnvelope(n, blocks, chunked))
  BY DEF sendEnvelope
<1>2. m_needReset' = m_needReset
  BY <1>1 DEF Next, Client, connect, disconnect, noop, writeToSocket, replyAccepted, replyRefused,
     resetRefused, writeBlock, writeEnd, chunkAccepted, chunkAnswered, messageAccepted,
     messageRefused, chunkRefused, noopAnswered, socketFails, timedOut, sourceFails, Server,
     clientVars, session, vars
<1>3. pc \notin Active /\ srv.mail = 0 /\ \A i \in 1..Len(c2s) : c2s[i].verb = "NOOP"
  BY <1>2 DEF FreshInv
<1>4. /\ ~writeToSocket /\ ~replyAccepted /\ ~replyRefused /\ ~resetRefused /\ ~writeBlock
      /\ ~writeEnd /\ ~chunkAccepted /\ ~chunkAnswered /\ ~messageAccepted /\ ~messageRefused
      /\ ~chunkRefused /\ ~sourceFails
  BY <1>3 DEF Active, writeToSocket, replyAccepted, replyRefused, resetRefused, writeBlock,
     writeEnd, chunkAccepted, chunkAnswered, messageAccepted, messageRefused, chunkRefused,
     sourceFails, ReadReply
<1>5. StreamType /\ c2s \in Seq(Commands)
  BY DEF TypeInv, StreamType
<1>6. CASE connect \/ disconnect
  <2>1. pc' \in {"idle", "none"} /\ c2s' = <<>> /\ srv' \in {srv, NoTransaction}
    BY <1>6 DEF connect, disconnect, Hangup
  <2> QED
    BY <1>3, <2>1 DEF Active, NoTransaction
<1>7. CASE noop
  <2>1. pc' = "noop" /\ srv' = srv /\ (c2s' = c2s \/ c2s' = Append(c2s, None))
    <3>1. pc' = "noop" /\ srv' = srv /\ (c2s' = c2s \/ c2s' = c2s \o <<None>>)
      BY <1>7 DEF noop, Write
    <3>2. None \in Commands
      BY CommandType DEF None, Verbs
    <3> QED
      BY <1>5, <3>1, <3>2
  <2>2. None.verb = "NOOP"
    BY DEF None, Command
  <2>3. CASE c2s' = Append(c2s, None)
    <3>1. /\ Len(c2s') = Len(c2s) + 1 /\ Len(c2s) \in Nat /\ c2s'[Len(c2s) + 1] = None
          /\ \A i \in 1..Len(c2s) : c2s'[i] = c2s[i]
      BY <1>5, <2>3
    <3> QED
      BY <1>3, <2>1, <2>2, <3>1 DEF Active
  <2> QED
    BY <1>3, <2>1, <2>3 DEF Active
<1>8. CASE noopAnswered \/ socketFails \/ timedOut
  BY <1>3, <1>8 DEF noopAnswered, socketFails, timedOut, Fail, Throw, Active
<1>9. CASE Server
  <2>1. pc' = pc
    BY <1>9 DEF Server, clientVars
  <2>2. CASE Serve
    BY <1>3, <1>5, <2>1, <2>2, FreshServe
  <2>3. CASE ServerCloses
    BY <1>3, <2>1, <2>3 DEF ServerCloses
  <2> QED
    BY <1>9, <2>2, <2>3 DEF Server
<1>10. CASE UNCHANGED vars
  BY <1>3, <1>10 DEF vars, clientVars, serverVars
<1> QED
  BY <1>1, <1>4, <1>6, <1>7, <1>8, <1>9, <1>10 DEF Next, Client

\* The invariant of a running send() follows it from step to step.
LEMMA SendNext ==
  ASSUME TypeInv, FreshInv, CodesInv, SendInv, [Next]_vars
  PROVE  SendInv'
<1> SUFFICES ASSUME pc' \in Active, message'.quiet
             PROVE  \E t, m, r, w : SendState(t, m, r, w)'
  BY DEF SendInv
<1>1. CASE \E n \in 1..MaxRecipients, blocks \in 0..MaxBlocks, chunked \in BOOLEAN :
             sendEnvelope(n, blocks, chunked)
  <2>1. PICK n \in 1..MaxRecipients, blocks \in 0..MaxBlocks, chunked \in BOOLEAN :
          sendEnvelope(n, blocks, chunked)
    BY <1>1
  <2>2. Quiet
    <3>1. PICK m : m = [to |-> n, blocks |-> blocks, chunked |-> chunked,
                        quiet |-> Quiet, outcome |-> "pending"]
      OBVIOUS
    <3>2. m.quiet = Quiet
      BY <3>1
    <3>3. sends' = Append(sends, m)
      BY <2>1, <3>1 DEF sendEnvelope
    <3>4. message' = m
      BY <3>3 DEF TypeInv, ClientType, message, cur
    <3> QED
      BY <3>2, <3>4
  <2> QED
    BY <2>1, <2>2, SendStarts
<1>2. ASSUME pc \in Active, sends' = sends
      PROVE  \E t, m, r, w : SendState(t, m, r, w)
  <2>1. message' = message
    BY <1>2 DEF message, cur
  <2> QED
    BY <1>2, <2>1 DEF SendInv
<1>3. CASE writeToSocket
  BY <1>2, <1>3, SendWrites DEF writeToSocket, Active
<1>4. CASE replyAccepted
  BY <1>2, <1>4, SendReads DEF replyAccepted, ReadReply, Active
<1>5. CASE writeBlock
  BY <1>2, <1>5, SendWritesBlock DEF writeBlock, Active
<1>6. CASE writeEnd
  BY <1>2, <1>6, SendWritesEnd DEF writeEnd, Active
<1>7. CASE chunkAccepted \/ chunkAnswered
  <2>1. pc \in Active /\ sends' = sends
    BY <1>7 DEF chunkAccepted, chunkAnswered, ReadReply, Active
  <2> QED
    BY <1>2, <1>7, <2>1, SendReadsChunk
<1>8. ASSUME UNCHANGED clientVars, (Serve \/ ServerCloses) \/ UNCHANGED serverVars
      PROVE  \E t, m, r, w : SendState(t, m, r, w)'
  <2>1. /\ UNCHANGED <<pc, sends, extensions, m_commands, m_started, m_lastCommandSent, block,
                       unread, invalidReply>>
        /\ UNCHANGED clientVars
    BY <1>8 DEF clientVars, session, commandSet, dataVars
  <2>2. pc \in Active
    BY <2>1
  <2>3. PICK t, m, r, w : SendState(t, m, r, w)
    BY <1>2, <2>1, <2>2
  <2>4. m \in Submissions /\ t \in Nat /\ StreamType /\ Dialogue(t, m, r, w)
    BY <2>2, <2>3, Numbers DEF SendState
  <2>5. Dialogue(t, m, r, w)'
    <3>1. CASE Serve
      BY <2>1, <2>4, <3>1, DialogueServe
    <3>2. CASE ServerCloses
      BY <2>1, <2>4, <3>2, DialogueCloses
    <3>3. CASE UNCHANGED serverVars
      BY <2>1, <2>4, <3>3, DialogueStutter
    <3> QED
      BY <1>8, <3>1, <3>2, <3>3
  <2>6. Queue(t, m)' /\ Progress(m)'
    BY <2>1, <2>3 DEF SendState, Queue, Progress
  <2>7. cur' = t /\ message' = m /\ Answered(m)' = r /\ Written(m)' = w
    BY <2>1, <2>3 DEF SendState, cur, message, Answered, Written, hasPipelining
  <2> QED
    BY <2>5, <2>6, <2>7 DEF SendState
<1>9. CASE Server
  BY <1>8, <1>9 DEF Server
<1>10. CASE UNCHANGED vars
  BY <1>8, <1>10 DEF vars
<1>11. CASE connect \/ disconnect \/ noop \/ replyRefused \/ resetRefused \/ messageAccepted
            \/ messageRefused \/ chunkRefused \/ noopAnswered \/ socketFails \/ timedOut
            \/ sourceFails
  <2>1. pc' \in {"none", "idle", "noop"}
    BY <1>11 DEF connect, disconnect, noop, replyRefused, resetRefused, messageAccepted,
         messageRefused, chunkRefused, noopAnswered, socketFails, timedOut, sourceFails,
         Throw, Hangup, Fail
  <2> QED
    BY <2>1 DEF Active
<1> QED
  BY <1>1, <1>3, <1>4, <1>5, <1>6, <1>7, <1>9, <1>10, <1>11 DEF Next, Client

-----------------------------------------------------------------------------
(***************************************************************************)
(* What send() reports.                                                    *)
(***************************************************************************)
\* What is delivered of a whole script is the message.
LEMMA MessageOfScript ==
  ASSUME TypeInv, cur \in DOMAIN sends
  PROVE  Message(cur) = SentMessage(cur, message)
<1>1. PICK t \in Nat, m \in Submissions : t = cur /\ m = sends[t] /\ m = message
  BY DEF TypeInv, ClientType, cur, message
<1>2. /\ m.to \in Nat /\ m.blocks \in Nat /\ m.chunked \in BOOLEAN /\ TextStart(m) \in Nat
      /\ Final(m) = TextStart(m) + m.blocks /\ TextStart(m) >= m.to + 2
  BY ScriptNumbers
<1>3. TextAt(t, m, Final(m))
        = [i \in 1..m.blocks |-> Command(IF m.chunked THEN "BDAT" ELSE "TEXT", t, i)]
  <2>1. TextAt(t, m, Final(m)) = [i \in 1..m.blocks |-> Item(t, m, TextStart(m) + i - 1)]
    BY <1>2 DEF TextAt
  <2>2. ASSUME NEW i \in 1..m.blocks
        PROVE  Item(t, m, TextStart(m) + i - 1)
                 = Command(IF m.chunked THEN "BDAT" ELSE "TEXT", t, i)
    <3>1. PICK b \in Nat : b = i - 1
      BY <1>2
    <3>2. b < m.blocks /\ b <= m.blocks /\ b + 1 = i /\ TextStart(m) + i - 1 = TextStart(m) + b
      BY <1>2, <3>1
    <3>3. Item(t, m, TextStart(m) + b) = Command(IF m.chunked THEN "BDAT" ELSE "TEXT", t, b + 1)
      BY <3>2, MessageItems
    <3> QED
      BY <3>2, <3>3
  <2> QED
    BY <2>1, <2>2
<1>4. m.chunked => Item(t, m, Final(m)) = Command("LAST", t, m.blocks + 1)
  <2>1. PICK b \in Nat : b = m.blocks
    BY <1>2
  <2>2. b = m.blocks /\ b <= m.blocks /\ Final(m) = TextStart(m) + b
    BY <1>2, <2>1
  <2>3. Item(t, m, TextStart(m) + b) = Command(IF m.chunked THEN "LAST" ELSE "EOM", t, b + 1)
    BY <2>2, MessageItems
  <2> QED
    BY <2>2, <2>3
<1>5. Body(t) = SentText(t, m)
  BY <1>1, <1>2, <1>3, <1>4 DEF Body, SentText
<1>6. RcptsAt(t, m, Final(m)) = {<<t, i>> : i \in 1..m.to}
  <2>1. {j \in 1..m.to : j + 1 < Final(m)} = 1..m.to
    BY <1>2
  <2> QED
    BY <2>1 DEF RcptsAt
<1> QED
  BY <1>1, <1>5, <1>6 DEF Message, SentMessage

\* The last favourable reply is the reply to the end of the message.
LEMMA AcceptedIsDelivered ==
  ASSUME TypeInv, SendInv, messageAccepted, message.quiet
  PROVE  Message(cur) \in delivered
<1>1. pc = "end" /\ s2c # <<>> /\ unread = 1 /\ ~invalidReply /\ Code = 250 /\ pc \in Active
  BY DEF messageAccepted, ReadReply, Active
<1>2. PICK t, m, r, w : SendState(t, m, r, w)
  BY <1>1 DEF SendInv
<1>3. /\ t = cur /\ m = message /\ r + Len(s2c) <= w /\ Len(s2c) \in Nat /\ StreamType
      /\ Final(m) \in Nat /\ Dialogue(t, m, r, w)
  BY <1>1, <1>2, Numbers DEF SendState
<1>4. w = Final(m) + 1 /\ r = Final(m)
  BY <1>1, <1>2, <1>3 DEF SendState, Written, Answered
<1>5. Len(s2c) = 1 /\ Code = s2c[1].code
  <2>1. Len(s2c) > 0 /\ Code = s2c[1].code
    BY <1>1, <1>3 DEF StreamType, Code
  <2>2. PICK n \in Nat, f \in Nat : n = Len(s2c) /\ f = Final(m)
    BY <1>3
  <2>3. f + n <= f + 1 /\ n > 0
    BY <1>3, <1>4, <2>1, <2>2
  <2> QED
    BY <2>1, <2>2, <2>3
<1>6. Accepted(m, r)
  <2>1. \A i \in 1..Len(s2c) : i = 1
    BY <1>5
  <2> QED
    BY <1>1, <1>5, <2>1, CodesAssumption DEF Accepted
<1>7. SentMessage(t, m) \in delivered
  BY <1>3, <1>4, <1>5, <1>6 DEF Dialogue, Delivery
<1> QED
  BY <1>1, <1>3, <1>7, MessageOfScript, RunningSend

\* What the server has taken over it keeps.
LEMMA DeliveredGrows ==
  ASSUME [Next]_vars
  PROVE  delivered \subseteq delivered'
<1>1. CASE Server
  BY <1>1 DEF Server, Serve, ServeReset, ServeMail, ServeRcpt, ServeData, ServeText,
     ServeEndOfData, ServeChunk, ServeLastChunk, DiscardChunk, ServeNoop, Refuse, ServerCloses,
     Deliver
<1>2. CASE UNCHANGED delivered
  BY <1>2
<1>3. CASE ~Server
  <2>1. UNCHANGED delivered
    BY <1>3 DEF Next, Client, connect, disconnect, noop, writeToSocket, replyAccepted,
     replyRefused, resetRefused, writeBlock, writeEnd, chunkAccepted, chunkAnswered,
     messageAccepted, messageRefused, chunkRefused, noopAnswered, socketFails, timedOut,
     sourceFails, sendEnvelope, serverVars, vars, Hangup
  <2> QED
    BY <2>1
<1> QED
  BY <1>1, <1>3

\* A message keeps what it is while the record of its send() changes.
LEMMA MessageKept ==
  ASSUME NEW t, sends'[t].to = sends[t].to, sends'[t].blocks = sends[t].blocks,
         sends'[t].chunked = sends[t].chunked
  PROVE  Message(t)' = Message(t)
  BY DEF Message, Body

\* An outcome is recorded once.
LEMMA Outcome ==
  ASSUME TypeInv, pc \in Active, NEW outcome \in Outcomes, End(outcome)
  PROVE  /\ DOMAIN sends' = DOMAIN sends
         /\ sends'[cur].outcome = outcome
         /\ \A t \in DOMAIN sends : t # cur => sends'[t] = sends[t]
         /\ \A t \in DOMAIN sends : sends'[t].to = sends[t].to /\ sends'[t].quiet = sends[t].quiet
         /\ \A t \in DOMAIN sends :
              sends'[t].blocks = sends[t].blocks /\ sends'[t].chunked = sends[t].chunked
<1>1. cur \in DOMAIN sends /\ sends \in Seq(Submissions) /\ message \in Submissions
      /\ DOMAIN sends = 1..Len(sends)
  BY RunningSend DEF TypeInv, ClientType
<1>2. /\ DOMAIN sends' = DOMAIN sends
      /\ sends'[cur] = [message EXCEPT !.outcome = outcome]
      /\ \A t \in DOMAIN sends : t # cur => sends'[t] = sends[t]
  BY <1>1 DEF End, message
<1>3. PICK m \in Submissions : m = message
  BY <1>1
<1>4. PICK n : n = [m EXCEPT !.outcome = outcome]
  OBVIOUS
<1>5. /\ n.outcome = outcome /\ n.to = m.to /\ n.quiet = m.quiet /\ n.blocks = m.blocks
      /\ n.chunked = m.chunked
  BY <1>3, <1>4 DEF Submissions
<1>6. sends'[cur] = n /\ sends[cur] = m
  BY <1>2, <1>3, <1>4 DEF message
<1> QED
  BY <1>2, <1>5, <1>6

\* Only the last reply makes a send() sent.
LEMMA SentNext ==
  ASSUME TypeInv, SendInv, SentIsDelivered, [Next]_vars
  PROVE  SentIsDelivered'
<1> SUFFICES ASSUME NEW t \in DOMAIN sends', sends'[t].outcome = "sent", sends'[t].quiet
             PROVE  Message(t)' \in delivered'
  BY DEF SentIsDelivered
<1>0. sends \in Seq(Submissions) /\ DOMAIN sends = 1..Len(sends) /\ Len(sends) \in Nat
  BY DEF TypeInv, ClientType
<1>1. ASSUME t \in DOMAIN sends, sends[t].outcome = "sent", sends[t].quiet,
             Message(t)' = Message(t)
      PROVE  Message(t)' \in delivered'
  BY <1>1, DeliveredGrows DEF SentIsDelivered
<1>2. CASE sends' = sends
  <2>1. Message(t)' = Message(t)
    BY <1>2, MessageKept
  <2> QED
    BY <1>1, <1>2, <2>1
<1>3. CASE \E n \in 1..MaxRecipients, blocks \in 0..MaxBlocks, chunked \in BOOLEAN :
             sendEnvelope(n, blocks, chunked)
  <2>1. PICK m : sends' = Append(sends, m) /\ m.outcome = "pending"
    BY <1>3 DEF sendEnvelope
  <2>2. t \in DOMAIN sends /\ sends'[t] = sends[t]
    <3>1. t \in 1..Len(sends) + 1 /\ sends'[Len(sends) + 1] = m
      BY <1>0, <2>1
    <3>2. t # Len(sends) + 1
      BY <2>1, <3>1
    <3>3. t \in 1..Len(sends)
      BY <1>0, <3>1, <3>2
    <3> QED
      BY <1>0, <2>1, <3>3
  <2>3. Message(t)' = Message(t)
    BY <2>2, MessageKept
  <2> QED
    BY <1>1, <2>2, <2>3
<1>4. CASE pc \in Active /\ End("failed")
  <2>1. t \in DOMAIN sends /\ t # cur /\ sends'[t] = sends[t]
    BY <1>4, Outcome DEF Outcomes
  <2>2. Message(t)' = Message(t)
    BY <2>1, MessageKept
  <2> QED
    BY <1>1, <2>1, <2>2
<1>5. CASE messageAccepted
  <2>1. pc \in Active /\ End("sent") /\ delivered' = delivered
    BY <1>5 DEF messageAccepted, ReadReply, Active
  <2>2. /\ t \in DOMAIN sends /\ sends'[t].to = sends[t].to /\ sends'[t].quiet = sends[t].quiet
        /\ sends'[t].blocks = sends[t].blocks /\ sends'[t].chunked = sends[t].chunked
        /\ t # cur => sends'[t] = sends[t]
    BY <2>1, Outcome DEF Outcomes
  <2>3. Message(t)' = Message(t)
    BY <2>2, MessageKept
  <2>4. CASE t = cur
    BY <1>5, <2>1, <2>2, <2>3, <2>4, AcceptedIsDelivered DEF message
  <2>5. CASE t # cur
    BY <1>1, <2>2, <2>3, <2>5
  <2> QED
    BY <2>4, <2>5
<1>6. CASE replyRefused \/ resetRefused \/ messageRefused \/ chunkRefused \/ sourceFails
  BY <1>4, <1>6 DEF replyRefused, resetRefused, messageRefused, chunkRefused, sourceFails,
     Throw, ReadReply, Active
<1>7. CASE socketFails \/ timedOut
  <2>1. sends' = sends \/ End("failed")
    BY <1>7 DEF socketFails, timedOut, Fail, Throw
  <2>2. sends' = sends \/ pc \in Active
    BY <1>7 DEF TypeInv, ClientType, PcType, socketFails, timedOut, Fail, Active
  <2> QED
    BY <1>2, <1>4, <2>1, <2>2
<1>8. CASE connect \/ disconnect \/ noop \/ writeToSocket \/ replyAccepted \/ writeBlock
           \/ writeEnd \/ chunkAccepted \/ chunkAnswered \/ noopAnswered \/ Server
           \/ UNCHANGED vars
  <2>1. sends' = sends
    BY <1>8 DEF connect, disconnect, noop, writeToSocket, replyAccepted, writeBlock, writeEnd,
       chunkAccepted, chunkAnswered, noopAnswered, Server, clientVars, vars
  <2> QED
    BY <1>2, <2>1
<1> QED
  BY <1>3, <1>5, <1>6, <1>7, <1>8 DEF Next, Client

\* A send() that returns has handed its message to the server, whole and for
\* exactly its recipients, if nothing was owed on the connection when it began:
\* whatever the server accepts, refuses or drops, with or without pipelining and
\* chunking, also when the last replies come after others timed out.
THEOREM QuietSendsAreDelivered == Spec => []SentIsDelivered
<1> DEFINE Inv == TypeInv /\ FreshInv /\ CodesInv /\ SendInv /\ SentIsDelivered
<1>1. Init => Inv
  <2> SUFFICES ASSUME Init PROVE Inv
    OBVIOUS
  <2>1. TypeInv
    BY TypeInit
  <2>2. Len(c2s) = 0 /\ Len(s2c) = 0 /\ Len(sends) = 0 /\ DOMAIN sends = {}
    BY DEF Init
  <2>3. pc \notin Active /\ srv.mail = 0
    BY DEF Init, Active, NoTransaction
  <2> QED
    BY <2>1, <2>2, <2>3 DEF FreshInv, CodesInv, SendInv, SentIsDelivered
<1>2. Inv /\ [Next]_vars => Inv'
  BY TypeNext, FreshNext, CodesNext, SendNext, SentNext
<1>3. Inv => SentIsDelivered
  OBVIOUS
<1> HIDE DEF Inv
<1> QED
  BY <1>1, <1>2, <1>3, PTL DEF Spec

------------------------------------------------------------------------------
(***************************************************************************)
(* The transport in step with the server: every command waits for its      *)
(* reply, no wait is cancelled, and the source of a message does not fail  *)
(* in the middle of it.  Then each reply is read as what it is, nobody     *)
(* waits in vain, and the transport is a mail submission service, for      *)
(* every server and every value of the bounds.                             *)
(***************************************************************************)

Lockstep == ~PipeliningOption /\ ~GivesUp /\ ~SourceMayFail

\* Between two calls nothing is owed and no text is expected.
IdleInv ==
  pc \in {"none", "idle"} => c2s = <<>> /\ s2c = <<>> /\ (alive => srv.mode = "command")

\* A noop() owes one reply.
NoopInv ==
  pc = "noop" =>
    /\ ~alive => c2s = <<>>
    /\ alive => srv.mode = "command" /\ Len(c2s) + Len(s2c) = 1
    /\ Len(c2s) + Len(s2c) <= 1
    /\ \A i \in 1..Len(c2s) : c2s[i] = None
    /\ \A i \in 1..Len(s2c) : s2c[i].to = None

\* A send() that did not begin on a quiet connection has a dead one.
DeadInv == pc \in Active /\ ~message.quiet => ~alive /\ c2s = <<>> /\ s2c = <<>>

QuietInv == IdleInv /\ NoopInv /\ DeadInv
BaseInv == TypeInv /\ FreshInv /\ CodesInv /\ SendInv
LockInv == BaseInv /\ QuietInv

-----------------------------------------------------------------------------
\* The invariants of the script hold at first.
LEMMA BaseInit == Init => BaseInv
<1> SUFFICES ASSUME Init PROVE BaseInv
  OBVIOUS
<1>1. TypeInv
  BY TypeInit
<1>2. Len(c2s) = 0 /\ Len(s2c) = 0 /\ pc \notin Active /\ srv.mail = 0
  BY DEF Init, Active, NoTransaction
<1> QED
  BY <1>1, <1>2 DEF BaseInv, FreshInv, CodesInv, SendInv

\* Every step keeps them.
LEMMA BaseNext == BaseInv /\ [Next]_vars => BaseInv'
  BY TypeNext, FreshNext, CodesNext, SendNext DEF BaseInv

\* How far apart what was written and what was answered are.
LEMMA InStep ==
  ASSUME Lockstep, TypeInv, pc \in Active, NEW t, NEW m, NEW r, NEW w, SendState(t, m, r, w)
  PROVE  /\ m \in Submissions /\ t \in Nat /\ t = cur /\ m = message /\ StreamType
         /\ TextStart(m) \in Nat /\ TextStart(m) >= 2 /\ m.blocks \in Nat /\ m.chunked \in BOOLEAN
         /\ Final(m) = TextStart(m) + m.blocks
         /\ r \in Nat /\ w \in Nat /\ r + Len(s2c) <= w /\ Len(s2c) \in Nat /\ Len(c2s) \in Nat
         /\ Dialogue(t, m, r, w)
         /\ pc = "write" => w = r /\ r <= TextStart(m)
         /\ pc = "reply" => w = r + 1 /\ w <= TextStart(m) /\ m_lastCommandSent = Item(t, m, r)
         /\ pc \in {"data", "chunk"} => w >= TextStart(m) /\ w <= Final(m) /\ w = r + unread
         /\ pc = "end" => w = Final(m) + 1 /\ w = r + unread /\ unread >= 1
         /\ pc = "chunk" => unread = 1 /\ m.chunked
         /\ pc = "end" /\ ~m.chunked => unread = 1
<1>1. /\ m \in Submissions /\ t \in Nat /\ StreamType
      /\ m.blocks \in Nat /\ m.chunked \in BOOLEAN
      /\ TextStart(m) \in Nat /\ Final(m) = TextStart(m) + m.blocks /\ TextStart(m) >= 2
      /\ r \in Nat /\ w \in Nat /\ block \in Nat /\ unread \in Nat
      /\ Len(m_commands) \in Nat /\ Len(s2c) \in Nat /\ r + Len(s2c) <= w
  BY Numbers
<1>2. Len(c2s) \in Nat
  BY <1>1 DEF StreamType
<1>3. ~hasPipelining
  BY DEF Lockstep, hasPipelining
<1>4. PICK len \in Nat : len = Len(m_commands)
  BY <1>1
<1>5. /\ t = cur /\ m = message /\ r = Answered(m) /\ w = Written(m)
      /\ Queue(t, m) /\ Progress(m) /\ Dialogue(t, m, r, w)
  BY DEF SendState
<1>6. /\ pc = "write" => w = r /\ r <= TextStart(m)
      /\ pc = "reply" => w = r + 1 /\ w <= TextStart(m) /\ m_lastCommandSent = Item(t, m, r)
  <2>1. CASE pc = "write"
    <3>1. w = TextStart(m) - len /\ r = TextStart(m) - len
      BY <1>3, <1>4, <1>5, <2>1 DEF Answered, Written
    <3> QED
      BY <1>1, <1>4, <2>1, <3>1
  <2>2. CASE pc = "reply"
    <3>1. /\ w = TextStart(m) - len /\ r = TextStart(m) - len - 1
          /\ m_lastCommandSent = Item(t, m, r)
      BY <1>3, <1>4, <1>5, <2>2 DEF Answered, Written, Queue
    <3> QED
      BY <1>1, <1>4, <2>2, <3>1, SMTT(60)
  <2> QED
    BY <2>1, <2>2
<1>7. /\ pc \in {"data", "chunk"} => w = TextStart(m) + block /\ r = w - unread /\ block <= m.blocks
      /\ pc = "end" => w = Final(m) + 1 /\ r = w - unread /\ unread >= 1
      /\ pc = "chunk" => unread = 1 /\ m.chunked
      /\ pc = "end" /\ ~m.chunked => unread = 1
  BY <1>1, <1>5 DEF Answered, Written, Progress
<1>8. /\ pc \in {"data", "chunk"} => w >= TextStart(m) /\ w <= Final(m) /\ w = r + unread
      /\ pc = "end" => w = r + unread
  BY <1>1, <1>7
<1> QED
  BY <1>1, <1>2, <1>5, <1>6, <1>7, <1>8

\* Reading the only one leaves none.
LEMMA OnlyOne == ASSUME NEW S, NEW q \in Seq(S), Len(q) = 1 PROVE Tail(q) = <<>>
<1>1. q # <<>>
  OBVIOUS
<1>2. Tail(q) \in Seq(S) /\ Len(Tail(q)) = Len(q) - 1
  BY <1>1
<1>3. PICK u \in Seq(S) : u = Tail(q)
  BY <1>2
<1>4. Len(u) = 0
  BY <1>2, <1>3
<1>5. u = <<>>
  BY <1>4
<1> QED
  BY <1>3, <1>5

\* The reply that ends a call is the last thing in flight.
LEMMA LastReply ==
  ASSUME Lockstep, TypeInv, SendInv, message.quiet, s2c # <<>>,
         pc = "reply" \/ (pc = "end" /\ unread = 1)
  PROVE  /\ Tail(s2c) = <<>> /\ c2s = <<>> /\ Len(s2c) = 1
         /\ alive /\ srv.mode = "data"
              => pc = "reply" /\ Code = 354 /\ m_lastCommandSent.verb = "DATA"
<1>1. pc \in Active
  BY DEF Active
<1>2. PICK t, m, r, w : SendState(t, m, r, w)
  BY <1>1 DEF SendInv
<1>3. /\ m \in Submissions /\ t \in Nat /\ StreamType
      /\ TextStart(m) \in Nat /\ TextStart(m) >= 2 /\ m.chunked \in BOOLEAN
      /\ m.blocks \in Nat /\ Final(m) = TextStart(m) + m.blocks
      /\ r \in Nat /\ w \in Nat /\ r + Len(s2c) <= w /\ Len(s2c) \in Nat /\ Len(c2s) \in Nat
      /\ Dialogue(t, m, r, w) /\ w = r + 1
      /\ pc = "reply" => w <= TextStart(m) /\ m_lastCommandSent = Item(t, m, r)
      /\ pc = "end" => w = Final(m) + 1
  <2>1. unread = 1 => r + unread = r + 1
    OBVIOUS
  <2> QED
    BY <1>1, <1>2, <2>1, InStep
<1>4. s2c \in Seq(Replies) /\ Len(s2c) > 0 /\ Code = s2c[1].code
  BY <1>3 DEF StreamType, Code
<1>5. Len(s2c) = 1 /\ Tail(s2c) = <<>>
  <2>1. PICK n \in Nat : n = Len(s2c)
    BY <1>3
  <2>2. n > 0 /\ r + n <= r + 1
    BY <1>3, <1>4, <2>1
  <2>3. n = 1
    BY <1>3, <2>2
  <2> QED
    BY <1>4, <2>1, <2>3, OnlyOne
<1>6. c2s = <<>> /\ Len(c2s) = 0
  <2>1. CASE ~alive
    BY <2>1, <1>3 DEF Dialogue, Wire
  <2>2. CASE alive
    <3>1. r + Len(s2c) = w - Len(c2s)
      BY <1>3, <2>2 DEF Dialogue, Wire
    <3>2. Len(c2s) = 0
      BY <1>3, <1>5, <3>1
    <3> QED
      BY <1>3, <3>2 DEF StreamType
  <2> QED
    BY <1>3, <2>1, <2>2 DEF StreamType
<1>7. ASSUME alive, srv.mode = "data"
      PROVE  pc = "reply" /\ Code = 354 /\ m_lastCommandSent.verb = "DATA"
  <2>1. w - Len(c2s) = w
    BY <1>3, <1>6
  <2>2. ~m.chunked /\ TextStart(m) <= w /\ w <= Final(m) /\ s2c[Len(s2c)].code = 354
    BY <1>3, <1>7, <2>1 DEF Dialogue, Transaction
  <2>3. pc = "reply" /\ r = TextStart(m) - 1
    BY <1>3, <2>2
  <2>4. Item(t, m, r).verb = "DATA"
    <3>1. TextStart(m) = m.to + 3 /\ m.to \in Nat /\ r <= Final(m)
      BY <1>3, <2>2, <2>3, ScriptNumbers, SMTT(60)
    <3>2. ~m.chunked /\ r = m.to + 2
      BY <1>3, <2>2, <2>3, <3>1
    <3> QED
      BY <1>3, <3>1, <3>2, ItemVerbs, SMTT(60)
  <2> QED
    BY <1>3, <1>4, <1>5, <2>2, <2>3, <2>4
<1> QED
  BY <1>5, <1>6, <1>7

\* Every call ends with nothing owed: the invariant of the quiet connection.
LEMMA QuietNext ==
  ASSUME Lockstep, LockInv, [Next]_vars
  PROVE  QuietInv'
<1>0. /\ TypeInv /\ SendInv /\ IdleInv /\ NoopInv /\ DeadInv /\ StreamType
      /\ c2s \in Seq(Commands) /\ s2c \in Seq(Replies) /\ Len(c2s) \in Nat /\ Len(s2c) \in Nat
  BY DEF LockInv, BaseInv, QuietInv, TypeInv, StreamType
<1>a. ASSUME pc' \in {"none", "idle"}, c2s' = <<>>, s2c' = <<>>, alive' => srv'.mode = "command"
      PROVE  QuietInv'
  BY <1>a DEF QuietInv, IdleInv, NoopInv, DeadInv, Active
<1>b. ASSUME pc' \in Active, message' = message,
             ~message.quiet => ~alive' /\ c2s' = <<>> /\ s2c' = <<>>
      PROVE  QuietInv'
  BY <1>b DEF QuietInv, IdleInv, NoopInv, DeadInv, Active
<1>c. ASSUME UNCHANGED <<pc, sends, serverVars>> PROVE QuietInv'
  BY <1>0, <1>c DEF QuietInv, IdleInv, NoopInv, DeadInv, serverVars, message, cur
<1>1. CASE connect
  BY <1>a, <1>1 DEF connect, NoTransaction
<1>2. CASE disconnect \/ resetRefused \/ chunkRefused
  BY <1>a, <1>2 DEF disconnect, resetRefused, chunkRefused, Hangup
<1>3. CASE noop
  <2>1. /\ pc' = "noop" /\ c2s' = (IF alive THEN <<None>> ELSE <<>>) /\ s2c' = <<>>
        /\ alive' = alive /\ srv' = srv /\ (alive => srv.mode = "command")
    <3>1. pc = "idle" /\ c2s = <<>> /\ <<>> \o <<None>> = <<None>>
      BY <1>0, <1>3 DEF noop, IdleInv
    <3> QED
      BY <1>0, <1>3, <3>1 DEF noop, Write, IdleInv
  <2>2. Len(<<None>>) = 1 /\ Len(<<>>) = 0 /\ \A i \in 1..1 : <<None>>[i] = None
    OBVIOUS
  <2>3. CASE alive
    <3>1. c2s' = <<None>> /\ Len(c2s') = 1 /\ Len(s2c') = 0 /\ \A i \in 1..1 : c2s'[i] = None
      BY <2>1, <2>2, <2>3
    <3> QED
      BY <2>1, <2>3, <3>1 DEF QuietInv, IdleInv, NoopInv, DeadInv, Active
  <2>4. CASE ~alive
    <3>1. c2s' = <<>> /\ Len(c2s') = 0 /\ Len(s2c') = 0
      BY <2>1, <2>2, <2>4
    <3> QED
      BY <2>1, <2>4, <3>1 DEF QuietInv, IdleInv, NoopInv, DeadInv, Active
  <2> QED
    BY <2>3, <2>4
<1>4. CASE \E n \in 1..MaxRecipients, blocks \in 0..MaxBlocks, chunked \in BOOLEAN :
             sendEnvelope(n, blocks, chunked)
  <2>1. PICK n \in 1..MaxRecipients, blocks \in 0..MaxBlocks, chunked \in BOOLEAN :
          sendEnvelope(n, blocks, chunked)
    BY <1>4
  <2>2. PICK m : m = [to |-> n, blocks |-> blocks, chunked |-> chunked,
                      quiet |-> Quiet, outcome |-> "pending"]
    OBVIOUS
  <2>3. m.quiet = Quiet
    BY <2>2
  <2>4. sends' = Append(sends, m)
    BY <2>1, <2>2 DEF sendEnvelope
  <2>5. message' = m
    BY <1>0, <2>4 DEF TypeInv, ClientType, message, cur
  <2>6. pc = "idle" /\ pc' = "write" /\ UNCHANGED <<alive, c2s, s2c>>
    BY <2>1 DEF sendEnvelope, serverVars
  <2>7. ~Quiet => ~alive /\ c2s = <<>> /\ s2c = <<>>
    <3>1. srv.mode \in {"command", "data"}
      BY <1>0 DEF StreamType, Transactions
    <3> QED
      BY <1>0, <2>6, <3>1 DEF IdleInv, Quiet
  <2> QED
    BY <2>3, <2>5, <2>6, <2>7 DEF QuietInv, IdleInv, NoopInv, DeadInv, Active
<1>5. CASE writeToSocket \/ writeBlock \/ writeEnd
  <2>1. /\ pc \in Active /\ pc' \in Active /\ sends' = sends
        /\ alive' = alive /\ s2c' = s2c /\ (~alive => c2s' = c2s)
    BY <1>5 DEF writeToSocket, writeBlock, writeEnd, Active, Write
  <2>2. message' = message
    BY <2>1 DEF message, cur
  <2> QED
    BY <1>0, <1>b, <2>1, <2>2 DEF DeadInv
<1>6. CASE replyAccepted \/ chunkAccepted \/ chunkAnswered
  <2>1. pc \in Active /\ pc' \in Active /\ sends' = sends /\ s2c # <<>>
    BY <1>6 DEF replyAccepted, chunkAccepted, chunkAnswered, ReadReply, Active
  <2>2. message' = message
    BY <2>1 DEF message, cur
  <2> QED
    BY <1>0, <1>b, <2>1, <2>2 DEF DeadInv
<1>7. CASE replyRefused \/ messageAccepted \/ messageRefused
  <2>1. /\ pc \in Active /\ pc' = "idle" /\ s2c # <<>> /\ s2c' = Tail(s2c)
        /\ UNCHANGED <<alive, srv, c2s>>
    BY <1>7 DEF replyRefused, messageAccepted, messageRefused, ReadReply, Throw, Active
  <2>2. message.quiet
    BY <1>0, <2>1 DEF DeadInv
  <2>3. pc = "reply" \/ (pc = "end" /\ unread = 1)
    <3>1. CASE messageRefused
      <4>1. pc = "end" /\ ~message.chunked
        BY <3>1 DEF messageRefused, ReadReply
      <4>2. PICK t, m, r, w : SendState(t, m, r, w)
        BY <1>0, <2>1, <2>2 DEF SendInv
      <4> QED
        BY <4>1, <4>2 DEF SendState, Progress
    <3> QED
      BY <1>7, <3>1 DEF replyRefused, messageAccepted, ReadReply
  <2>4. /\ Tail(s2c) = <<>> /\ c2s = <<>>
        /\ alive /\ srv.mode = "data"
             => pc = "reply" /\ Code = 354 /\ m_lastCommandSent.verb = "DATA"
    BY <1>0, <2>1, <2>2, <2>3, LastReply
  <2>5. ~(alive /\ srv.mode = "data")
    <3>1. CASE replyRefused
      BY <2>4, <3>1 DEF replyRefused, Accepts
    <3>2. CASE messageAccepted \/ messageRefused
      BY <2>4, <3>2 DEF messageAccepted, messageRefused, ReadReply
    <3> QED
      BY <1>7, <3>1, <3>2
  <2>6. srv.mode \in {"command", "data"}
    BY <1>0 DEF StreamType, Transactions
  <2> QED
    BY <1>a, <2>1, <2>4, <2>5, <2>6
<1>8. CASE noopAnswered
  <2>1. /\ pc = "noop" /\ pc' = "idle" /\ s2c # <<>> /\ s2c' = Tail(s2c)
        /\ UNCHANGED <<alive, srv, c2s>>
    BY <1>8 DEF noopAnswered, ReadReply
  <2>2. Len(s2c) = 1 /\ Len(c2s) = 0
    <3>1. Len(s2c) > 0 /\ Len(c2s) + Len(s2c) <= 1
      BY <1>0, <2>1 DEF NoopInv
    <3>2. PICK a \in Nat, b \in Nat : a = Len(s2c) /\ b = Len(c2s)
      BY <1>0
    <3> QED
      BY <3>1, <3>2
  <2>3. s2c' = <<>> /\ c2s' = <<>>
    BY <1>0, <2>1, <2>2, OnlyOne
  <2> QED
    BY <1>0, <1>a, <2>1, <2>3 DEF NoopInv
<1>9. CASE socketFails
  <2>1. ~alive /\ pc' = "idle" /\ s2c' = <<>> /\ UNCHANGED <<alive, c2s>>
    BY <1>9 DEF socketFails, Fail, Throw
  <2>2. pc = "noop" \/ pc \in Active
    BY <1>9 DEF socketFails, Active
  <2>3. c2s = <<>>
    <3>1. CASE pc \in Active /\ message.quiet
      <4>1. PICK t, m, r, w : SendState(t, m, r, w)
        BY <1>0, <3>1 DEF SendInv
      <4> QED
        BY <2>1, <4>1 DEF SendState, Dialogue, Wire
    <3>2. CASE pc \in Active /\ ~message.quiet
      BY <1>0, <3>2 DEF DeadInv
    <3> QED
      BY <1>0, <2>1, <2>2, <3>1, <3>2 DEF NoopInv
  <2> QED
    BY <1>a, <2>1, <2>3
<1>10. ~timedOut /\ ~sourceFails
  BY DEF Lockstep, timedOut, sourceFails
<1>11. CASE Server
  <2>1. pc' = pc /\ message' = message
    BY <1>11 DEF Server, clientVars, message, cur
  <2>2. CASE Serve
    <3>1. c2s # <<>> /\ alive /\ c2s' = Tail(c2s)
      BY <1>0, <2>2, ServerStep DEF Serve, ServeReset, ServeMail, ServeRcpt, ServeData,
         ServeText, ServeEndOfData, ServeChunk, ServeLastChunk, DiscardChunk, ServeNoop,
         Refuse, Receives
    <3>2. CASE pc \in Active
      BY <1>0, <1>b, <2>1, <3>1, <3>2 DEF DeadInv
    <3>3. CASE pc = "noop"
      <4>1. Len(c2s) = 1 /\ Len(s2c) = 0 /\ srv.mode = "command" /\ c2s[1] = None
        <5>1. Len(c2s) > 0 /\ Len(c2s) + Len(s2c) = 1 /\ srv.mode = "command"
          BY <1>0, <3>1, <3>3 DEF NoopInv
        <5>2. PICK a \in Nat, b \in Nat : a = Len(s2c) /\ b = Len(c2s)
          BY <1>0
        <5>3. b = 1 /\ a = 0
          BY <5>1, <5>2
        <5> QED
          BY <1>0, <3>3, <5>1, <5>2, <5>3 DEF NoopInv
      <4>2. s2c = <<>> /\ Tail(c2s) = <<>> /\ Request = None
        <5>1. s2c = <<>>
          BY <1>0, <4>1
        <5>2. Tail(c2s) = <<>>
          BY <1>0, <4>1, OnlyOne
        <5> QED
          BY <1>0, <3>1, <4>1, <5>1, <5>2 DEF Request
      <4>3. Request.verb = "NOOP"
        BY <4>2 DEF None, Command
      <4>4. (ServeNoop \/ Refuse) /\ srv'.mode = "command"
        <5>1. ServeNoop \/ Refuse
          BY <2>2, <4>1, <4>3 DEF Serve, ServeReset, ServeMail, ServeRcpt, ServeData, ServeText,
             ServeEndOfData, ServeChunk, ServeLastChunk, DiscardChunk, Receives
        <5> QED
          BY <4>1, <4>3, <5>1 DEF ServeNoop, Refuse
      <4>5. PICK a : s2c' = Append(<<>>, a) /\ a.to = None
        <5>1. PICK code : Answer(code)
          BY <4>4 DEF ServeNoop, Refuse, Accept
        <5> QED
          BY <4>2, <5>1 DEF Answer
      <4>6. s2c' = <<a>> /\ Len(s2c') = 1 /\ \A i \in 1..1 : s2c'[i] = a
        BY <4>5
      <4>7. c2s' = <<>> /\ Len(c2s') = 0
        BY <3>1, <4>2
      <4> QED
        BY <2>1, <3>3, <4>4, <4>5, <4>6, <4>7 DEF QuietInv, IdleInv, NoopInv, DeadInv, Active
    <3>4. CASE pc \in {"none", "idle"}
      BY <1>0, <3>1, <3>4 DEF IdleInv
    <3> QED
      BY <1>0, <3>2, <3>3, <3>4 DEF TypeInv, ClientType, PcType, Active
  <2>3. CASE ServerCloses
    <3>1. PICK n \in 0..Len(s2c) : s2c' = SubSeq(s2c, 1, n)
      BY <2>3 DEF ServerCloses
    <3>2. Len(s2c') = n /\ \A i \in 1..n : s2c'[i] = s2c[i]
      BY <1>0, <3>1, KeptReplies
    <3>3. ~alive' /\ alive /\ c2s' = <<>> /\ Len(c2s') = 0
      BY <2>3 DEF ServerCloses
    <3>4. s2c = <<>> => s2c' = <<>>
      BY <1>0, <3>1
    <3>5. CASE pc \in Active
      BY <1>0, <1>b, <2>1, <3>3, <3>4, <3>5 DEF DeadInv
    <3>6. CASE pc = "noop"
      <4>1. n <= Len(s2c) /\ Len(s2c) <= 1
        <5>1. Len(c2s) + Len(s2c) <= 1
          BY <1>0, <3>6 DEF NoopInv
        <5> QED
          BY <1>0, <5>1
      <4>2. n <= 1 /\ \A i \in 1..n : i \in 1..Len(s2c)
        BY <1>0, <4>1
      <4>3. \A i \in 1..Len(s2c') : s2c'[i].to = None
        BY <1>0, <3>2, <3>6, <4>2 DEF NoopInv
      <4> QED
        BY <2>1, <3>2, <3>3, <3>6, <4>2, <4>3 DEF QuietInv, IdleInv, NoopInv, DeadInv, Active
    <3>7. CASE pc \in {"none", "idle"}
      BY <1>0, <1>a, <2>1, <3>3, <3>4, <3>7 DEF IdleInv
    <3> QED
      BY <1>0, <3>5, <3>6, <3>7 DEF TypeInv, ClientType, PcType, Active
  <2> QED
    BY <1>11, <2>2, <2>3 DEF Server
<1>12. CASE UNCHANGED vars
  BY <1>c, <1>12 DEF vars, clientVars
<1> QED
  BY <1>1, <1>2, <1>3, <1>4, <1>5, <1>6, <1>7, <1>8, <1>9, <1>10, <1>11, <1>12 DEF Next, Client

\* In step, the invariant holds throughout.
LEMMA InStepAlways == ASSUME Lockstep PROVE Spec => []LockInv
<1>1. Init => LockInv
  BY BaseInit DEF LockInv, QuietInv, IdleInv, NoopInv, DeadInv, Init, Active
<1>2. LockInv /\ [Next]_vars => LockInv'
  BY BaseNext, QuietNext DEF LockInv
<1> QED
  BY <1>1, <1>2, PTL DEF Spec

-----------------------------------------------------------------------------
(***************************************************************************)
(* Replies, waiting and MAIL.                                              *)
(***************************************************************************)
\* What a running send() waits for is the next unanswered item of its script.
LEMMA ExpectedItem ==
  ASSUME Lockstep, TypeInv, pc \in {"reply", "chunk", "end"},
         NEW t, NEW m, NEW r, NEW w, SendState(t, m, r, w)
  PROVE  Expected = Item(t, m, r)
<1>0. pc \in Active
  BY DEF Active
<1>1. /\ m \in Submissions /\ t \in Nat /\ t = cur /\ m = message
      /\ TextStart(m) \in Nat /\ m.blocks \in Nat /\ m.chunked \in BOOLEAN
      /\ Final(m) = TextStart(m) + m.blocks /\ r \in Nat /\ w \in Nat
      /\ pc = "reply" => m_lastCommandSent = Item(t, m, r)
      /\ pc = "chunk" => unread = 1 /\ m.chunked /\ w = r + unread
      /\ pc = "end" => w = Final(m) + 1 /\ w = r + unread /\ unread >= 1
      /\ pc = "end" /\ ~m.chunked => unread = 1
  BY <1>0, InStep
<1>2. /\ pc = "chunk" => w = TextStart(m) + block /\ block <= m.blocks /\ unread <= block
      /\ pc = "end" => block = m.blocks /\ unread <= block + 1
  BY DEF SendState, Written, Progress
<1>3. block \in Nat /\ unread \in Nat
  BY DEF TypeInv, ClientType, DataType
<1>4. ASSUME NEW b \in Nat, b <= m.blocks, r = TextStart(m) + b
      PROVE  /\ b < m.blocks =>
                  Item(t, m, r) = Command(IF m.chunked THEN "BDAT" ELSE "TEXT", t, b + 1)
             /\ b = m.blocks =>
                  Item(t, m, r) = Command(IF m.chunked THEN "LAST" ELSE "EOM", t, b + 1)
  <2>1. LET k == TextStart(m) + b IN
        /\ b < m.blocks => Item(t, m, k) = Command(IF m.chunked THEN "BDAT" ELSE "TEXT", t, b + 1)
        /\ b = m.blocks => Item(t, m, k) = Command(IF m.chunked THEN "LAST" ELSE "EOM", t, b + 1)
    <3>1. m \in Submissions /\ t \in Nat /\ b \in Nat /\ b <= m.blocks
      BY <1>1, <1>4
    <3> QED
      BY <3>1, MessageItems
  <2> QED
    BY <1>4, <2>1
<1>5. CASE pc = "reply"
  BY <1>1, <1>5 DEF Expected
<1>6. CASE pc = "chunk"
  <2>1. PICK b \in Nat : b = block - 1
    BY <1>1, <1>2, <1>3, <1>6
  <2>2. b < m.blocks /\ b <= m.blocks /\ r = TextStart(m) + b /\ b + 1 = block
    BY <1>1, <1>2, <1>3, <1>6, <2>1
  <2>3. Item(t, m, r) = Command("BDAT", t, b + 1)
    BY <1>1, <1>4, <1>6, <2>2
  <2> QED
    BY <1>1, <1>6, <2>2, <2>3 DEF Expected
<1>7. CASE pc = "end"
  <2>1. PICK b \in Nat : b = block + 1 - unread
    BY <1>1, <1>2, <1>3, <1>7
  <2>2. /\ b <= m.blocks /\ r = TextStart(m) + b /\ b + 1 = block + 2 - unread
        /\ unread = 1 => b = m.blocks /\ b + 1 = block + 1
        /\ unread # 1 => b < m.blocks
    BY <1>1, <1>2, <1>3, <1>7, <2>1
  <2>3. CASE unread = 1
    <3>1. Item(t, m, r) = Command(IF m.chunked THEN "LAST" ELSE "EOM", t, b + 1)
      BY <1>4, <2>2, <2>3
    <3> QED
      BY <1>1, <1>7, <2>2, <2>3, <3>1 DEF Expected
  <2>4. CASE unread # 1
    <3>1. Item(t, m, r) = Command("BDAT", t, b + 1) /\ m.chunked
      BY <1>1, <1>4, <1>7, <2>2, <2>4
    <3> QED
      BY <1>1, <1>7, <2>2, <2>4, <3>1 DEF Expected
  <2> QED
    BY <2>3, <2>4
<1> QED
  BY <1>5, <1>6, <1>7

\* A reply in flight answers what the client waits for.
LEMMA RepliesInStep == ASSUME Lockstep, LockInv PROVE ReplyAnswersCommand
<1> SUFFICES ASSUME waiting, s2c # <<>> PROVE Head(s2c).to = Expected
  BY DEF ReplyAnswersCommand
<1>0. /\ TypeInv /\ SendInv /\ NoopInv /\ DeadInv /\ s2c \in Seq(Replies)
  BY DEF LockInv, BaseInv, QuietInv, TypeInv, StreamType
<1>1. Head(s2c) = s2c[1] /\ 1 \in 1..Len(s2c)
  BY <1>0
<1>2. CASE pc = "noop"
  BY <1>0, <1>1, <1>2 DEF NoopInv, Expected
<1>3. CASE pc \in {"reply", "chunk", "end"}
  <2>1. pc \in Active /\ message.quiet
    BY <1>0, <1>3 DEF Active, DeadInv
  <2>2. PICK t, m, r, w : SendState(t, m, r, w)
    BY <1>0, <2>1 DEF SendInv
  <2>3. Expected = Item(t, m, r)
    BY <1>0, <1>3, <2>2, ExpectedItem
  <2>4. Answers(s2c, t, m, r) /\ r \in Nat
    BY <2>2 DEF SendState, Dialogue, Wire, Shape
  <2> QED
    BY <1>0, <2>3, <2>4, ScriptTail
<1> QED
  BY <1>2, <1>3 DEF waiting

\* While the client waits there is something that will be answered.
LEMMA NobodyWaits == ASSUME Lockstep, LockInv PROVE NoMutualWait
<1> SUFFICES ASSUME waiting, alive, s2c = <<>>
             PROVE  IF srv.mode = "data" THEN \E i \in DOMAIN c2s : c2s[i].verb = "EOM"
                    ELSE c2s # <<>>
  BY DEF NoMutualWait
<1>0. /\ TypeInv /\ SendInv /\ NoopInv /\ DeadInv /\ s2c \in Seq(Replies)
      /\ c2s \in Seq(Commands) /\ Len(s2c) = 0 /\ Len(c2s) \in Nat
  BY DEF LockInv, BaseInv, QuietInv, TypeInv, StreamType
<1>1. CASE pc = "noop"
  <2>1. srv.mode = "command" /\ Len(c2s) + Len(s2c) = 1
    BY <1>0, <1>1 DEF NoopInv
  <2>2. Len(c2s) = 1
    BY <1>0, <2>1
  <2>3. c2s # <<>>
    BY <1>0, <2>2, SMTT(60)
  <2> QED
    BY <2>1, <2>3
<1>2. CASE pc \in {"reply", "chunk", "end"}
  <2>1. pc \in Active /\ message.quiet
    BY <1>0, <1>2 DEF Active, DeadInv
  <2>2. PICK t, m, r, w : SendState(t, m, r, w)
    BY <1>0, <2>1 DEF SendInv
  <2>3. /\ m \in Submissions /\ t \in Nat /\ TextStart(m) \in Nat /\ TextStart(m) >= 2
        /\ m.blocks \in Nat /\ m.chunked \in BOOLEAN /\ Final(m) = TextStart(m) + m.blocks
        /\ r \in Nat /\ w \in Nat /\ Dialogue(t, m, r, w)
        /\ pc = "reply" => w = r + 1 /\ w <= TextStart(m)
        /\ pc = "chunk" => w = r + 1 /\ m.chunked
        /\ pc = "end" => w = Final(m) + 1 /\ r < w
    <3>1. /\ unread = 1 => r + unread = r + 1
          /\ r \in Nat /\ unread \in Nat /\ unread >= 1 => r < r + unread
      BY DEF TypeInv
    <3>2. unread \in Nat
      BY <1>0 DEF TypeInv, ClientType, DataType
    <3> QED
      BY <1>0, <2>1, <2>2, <3>1, <3>2, InStep
  <2>4. PICK v : v = w - Len(c2s)
    OBVIOUS
  <2>5. r < w /\ v <= r /\ v + Len(c2s) = w /\ v \in Int
    <3>1. \/ r + Len(s2c) = v
          \/ v <= r
      BY <2>3, <2>4 DEF Dialogue, Wire
    <3> QED
      BY <1>0, <1>2, <2>3, <2>4, <3>1
  <2>6. Len(c2s) > 0 /\ c2s # <<>>
    <3>1. Len(c2s) > 0
      BY <1>0, <2>3, <2>5
    <3> QED
      BY <1>0, <3>1
  <2>7. ASSUME srv.mode = "data" PROVE \E i \in DOMAIN c2s : c2s[i].verb = "EOM"
    <3>1. ~m.chunked /\ TextStart(m) <= v
      BY <2>3, <2>4, <2>7 DEF Dialogue, Transaction
    <3>2. pc = "end" /\ w = Final(m) + 1
      BY <1>2, <2>3, <2>5, <3>1
    <3>3. PICK n \in Nat : n = Len(c2s)
      BY <1>0
    <3>4. v + n - 1 = Final(m) /\ n \in 1..Len(c2s)
      BY <2>3, <2>5, <2>6, <3>2, <3>3, SMTT(60)
    <3>5. c2s[n] = Item(t, m, Final(m))
      BY <2>3, <2>4, <3>4 DEF Dialogue, Wire, Writes
    <3>6. Item(t, m, Final(m)).verb = "EOM"
      BY <2>3, <3>1, ItemVerbs
    <3> QED
      BY <1>0, <3>4, <3>5, <3>6
  <2> QED
    BY <2>6, <2>7
<1> QED
  BY <1>1, <1>2 DEF waiting

\* RSET, or the end of the last transaction, comes before every MAIL.
LEMMA MailIsFirst == ASSUME Lockstep, LockInv PROVE MailOpensTransaction
<1> SUFFICES ASSUME c2s # <<>>, Head(c2s).verb = "MAIL" PROVE srv.mail = 0
  BY DEF MailOpensTransaction
<1>0. /\ TypeInv /\ SendInv /\ IdleInv /\ NoopInv /\ DeadInv /\ s2c \in Seq(Replies)
      /\ c2s \in Seq(Commands) /\ Len(s2c) \in Nat /\ Len(c2s) \in Nat /\ StreamType
  BY DEF LockInv, BaseInv, QuietInv, TypeInv, StreamType
<1>1. Head(c2s) = c2s[1] /\ 1 \in 1..Len(c2s) /\ Len(c2s) > 0
  BY <1>0
<1>2. pc # "noop"
  BY <1>0, <1>1 DEF NoopInv, None, Command
<1>3. pc \in Active /\ message.quiet
  BY <1>0, <1>2 DEF TypeInv, ClientType, PcType, Active, IdleInv, DeadInv
<1>4. PICK t, m, r, w : SendState(t, m, r, w)
  BY <1>0, <1>3 DEF SendInv
<1>5. /\ m \in Submissions /\ t \in Nat /\ TextStart(m) \in Nat /\ TextStart(m) >= 2
      /\ m.blocks \in Nat /\ Final(m) = TextStart(m) + m.blocks
      /\ r \in Nat /\ w \in Nat /\ Dialogue(t, m, r, w)
      /\ pc \in {"write", "reply"} => w <= r + 1 /\ w <= TextStart(m)
  BY <1>0, <1>3, <1>4, InStep
<1>6. PICK v : v = w - Len(c2s)
  OBVIOUS
<1>7. alive
  BY <1>5, <1>0 DEF Dialogue, Wire
<1>8. v \in Nat /\ v <= Final(m) /\ v < w /\ Request = Item(t, m, v)
  BY <1>0, <1>5, <1>6, <1>7, NextServed
<1>9. v = 1
  BY <1>5, <1>8, ItemVerbs DEF Request
<1>10. r + Len(s2c) = 1
  BY <1>5, <1>6, <1>7, <1>9 DEF Dialogue, Wire
<1>11. w <= TextStart(m)
  BY <1>0, <1>5, <1>10 DEF Dialogue, Shape
<1>12. r <= 1 /\ r < TextStart(m) /\ Len(s2c) = 1 - r
  BY <1>0, <1>5, <1>10
<1>13. Accepted(m, r)
  <2>1. pc \in {"write", "reply"} => Len(s2c) = 0
    BY <1>0, <1>5, <1>8, <1>9, <1>12
  <2>2. ~(r >= TextStart(m))
    BY <1>5, <1>12
  <2>3. pc \in {"write", "reply"}
    <3>1. unread \in Nat /\ block \in Nat
      BY <1>0 DEF TypeInv, ClientType, DataType
    <3>2. pc \in {"data", "chunk"} => w = TextStart(m) + block /\ r = w - unread /\ unread <= block
      BY <1>4 DEF SendState, Written, Answered, Progress
    <3>3. pc = "end" => w = Final(m) + 1
      BY <1>4 DEF SendState, Written
    <3>4. ~(pc \in {"data", "chunk"})
      BY <1>5, <1>11, <1>12, <3>1, <3>2
    <3>5. pc # "end"
      BY <1>5, <1>11, <3>3
    <3> QED
      BY <1>3, <3>4, <3>5 DEF Active
  <2> QED
    BY <2>1, <2>2, <2>3 DEF Accepted
<1>14. srv.mail = 0
  BY <1>5, <1>6, <1>7, <1>9, <1>13 DEF Dialogue, Transaction
<1> QED
  BY <1>14

-----------------------------------------------------------------------------
(***************************************************************************)
(* What is delivered, and when.                                            *)
(***************************************************************************)
\* The send() that has not ended is the one that runs.
RecordInv ==
  \A t \in DOMAIN sends :
    sends[t].to >= 1 /\ (sends[t].outcome = "pending" <=> t = cur /\ pc \in Active)

\* Only submitted messages are delivered.
StrayInv == delivered \subseteq {Message(t) : t \in DOMAIN sends}

NotRefused == ~invalidReply /\ \A i \in 1..Len(s2c) : s2c[i].code # Refusal

\* The message of a running send() is delivered when its last item is served,
\* with a favourable reply on its way, and there is nothing more to serve then.
OnceInv ==
  pc \in Active /\ Message(cur) \in delivered =>
    message.quiet /\ pc = "end" /\ NotRefused /\ (alive => c2s = <<>>)

SubmissionInv == LockInv /\ RecordInv /\ StrayInv /\ OnceInv

\* Recipients tell the messages of two sends apart.
LEMMA MessagesDiffer ==
  ASSUME TypeInv, RecordInv, NEW t \in DOMAIN sends, NEW u \in DOMAIN sends,
         Message(t) = Message(u)
  PROVE  t = u
<1>1. sends[t].to \in Nat /\ sends[t].to >= 1
  <2>1. sends[t] \in Submissions
    BY DEF TypeInv, ClientType
  <2> QED
    BY <2>1 DEF Submissions, RecordInv
<1>2. /\ Message(t).rcpts = {<<t, i>> : i \in 1..sends[t].to}
      /\ Message(u).rcpts = {<<u, i>> : i \in 1..sends[u].to}
  BY DEF Message
<1>3. <<t, 1>> \in Message(t).rcpts
  BY <1>1, <1>2
<1>4. <<t, 1>> \in {<<u, i>> : i \in 1..sends[u].to}
  BY <1>2, <1>3
<1> QED
  BY <1>4

\* A send() has at least one recipient, and its record says when it ended.
LEMMA RecordNext ==
  ASSUME TypeInv, RecordInv, [Next]_vars
  PROVE  RecordInv'
<1>0. sends \in Seq(Submissions) /\ DOMAIN sends = 1..Len(sends) /\ Len(sends) \in Nat
      /\ cur = Len(sends)
  BY DEF TypeInv, ClientType, cur
<1>1. CASE sends' = sends /\ (pc' \in Active <=> pc \in Active)
  BY <1>1 DEF RecordInv, cur
<1>2. CASE \E n \in 1..MaxRecipients, blocks \in 0..MaxBlocks, chunked \in BOOLEAN :
             sendEnvelope(n, blocks, chunked)
  <2>1. PICK m : sends' = Append(sends, m) /\ m.to >= 1 /\ m.outcome = "pending"
    <3>1. PICK n \in 1..MaxRecipients, blocks \in 0..MaxBlocks, chunked \in BOOLEAN :
            sendEnvelope(n, blocks, chunked)
      BY <1>2
    <3>2. PICK m : m = [to |-> n, blocks |-> blocks, chunked |-> chunked,
                        quiet |-> Quiet, outcome |-> "pending"]
      OBVIOUS
    <3>3. m.to = n /\ m.outcome = "pending" /\ sends' = Append(sends, m)
      BY <3>1, <3>2 DEF sendEnvelope
    <3>4. m.to >= 1
      BY <3>3, ParametersAssumption
    <3> QED
      BY <3>3, <3>4
  <2>2. pc \notin Active /\ pc' \in Active
    BY <1>2 DEF sendEnvelope, Active
  <2>3. /\ DOMAIN sends' = 1..Len(sends) + 1 /\ cur' = Len(sends) + 1
        /\ sends'[Len(sends) + 1] = m /\ \A t \in 1..Len(sends) : sends'[t] = sends[t]
    BY <1>0, <2>1 DEF cur
  <2>4. ASSUME NEW t \in DOMAIN sends'
        PROVE  sends'[t].to >= 1 /\ (sends'[t].outcome = "pending" <=> t = cur' /\ pc' \in Active)
    <3>1. CASE t = Len(sends) + 1
      BY <2>1, <2>2, <2>3, <3>1, ParametersAssumption
    <3>2. CASE t \in 1..Len(sends)
      <4>1. t # cur' /\ sends'[t] = sends[t]
        BY <1>0, <2>3, <3>2
      <4> QED
        BY <1>0, <2>2, <3>2, <4>1 DEF RecordInv
    <3> QED
      BY <1>0, <2>3, <2>4, <3>1, <3>2
  <2> QED
    BY <2>4 DEF RecordInv
<1>3. ASSUME NEW outcome \in {"sent", "failed"}, pc \in Active, pc' \notin Active, End(outcome)
      PROVE  RecordInv'
  <2>1. /\ DOMAIN sends' = DOMAIN sends /\ sends'[cur].outcome = outcome
        /\ \A t \in DOMAIN sends : t # cur => sends'[t] = sends[t]
        /\ \A t \in DOMAIN sends : sends'[t].to = sends[t].to
    BY <1>3, Outcome DEF Outcomes
  <2> QED
    BY <1>3, <2>1 DEF RecordInv
<1>4. CASE replyRefused \/ resetRefused \/ messageAccepted \/ messageRefused \/ chunkRefused
           \/ sourceFails
  <2>1. pc \in Active /\ pc' \notin Active
    BY <1>4 DEF replyRefused, resetRefused, messageAccepted, messageRefused, chunkRefused,
       sourceFails, ReadReply, Throw, Hangup, Active
  <2>2. End("failed") \/ End("sent")
    BY <1>4 DEF replyRefused, resetRefused, messageAccepted, messageRefused, chunkRefused,
       sourceFails, Throw
  <2> QED
    BY <1>3, <2>1, <2>2
<1>5. CASE socketFails \/ timedOut
  <2>1. CASE pc = "noop"
    <3>1. sends' = sends /\ pc' = "idle"
      BY <1>5, <2>1 DEF socketFails, timedOut, Fail
    <3> QED
      BY <1>1, <2>1, <3>1 DEF Active
  <2>2. CASE pc # "noop"
    <3>1. pc \in Active /\ pc' \notin Active /\ End("failed")
      BY <1>5, <2>2 DEF TypeInv, ClientType, PcType, socketFails, timedOut, Fail, Throw, Active
    <3> QED
      BY <1>3, <3>1
  <2> QED
    BY <2>1, <2>2
<1>6. CASE connect \/ disconnect \/ noop \/ writeToSocket \/ replyAccepted \/ writeBlock
           \/ writeEnd \/ chunkAccepted \/ chunkAnswered \/ noopAnswered \/ Server
           \/ UNCHANGED vars
  <2>1. sends' = sends /\ (pc' \in Active <=> pc \in Active)
    BY <1>6 DEF connect, disconnect, noop, writeToSocket, replyAccepted, writeBlock, writeEnd,
       chunkAccepted, chunkAnswered, noopAnswered, Server, clientVars, vars, ReadReply, Hangup,
       Active
  <2> QED
    BY <1>1, <2>1
<1> QED
  BY <1>2, <1>4, <1>5, <1>6 DEF Next, Client

\* The only step that delivers anything serves the end of the running message.
LEMMA ServeDelivers ==
  ASSUME Lockstep, LockInv, Serve, UNCHANGED clientVars
  PROVE  \/ delivered' = delivered
         \/ /\ pc = "end" /\ message.quiet /\ c2s # <<>> /\ c2s' = <<>> /\ NotRefused'
            /\ delivered' = delivered \cup {Message(cur)}
<1>0. /\ TypeInv /\ SendInv /\ IdleInv /\ NoopInv /\ DeadInv /\ StreamType
      /\ c2s \in Seq(Commands) /\ s2c \in Seq(Replies) /\ Len(c2s) \in Nat /\ Len(s2c) \in Nat
      /\ invalidReply' = invalidReply
  BY DEF LockInv, BaseInv, QuietInv, TypeInv, StreamType, clientVars, dataVars
<1> DEFINE EndsText  == ServeEndOfData /\ Request.verb = "EOM" /\ srv.mode = "data"
           EndsChunk == ServeLastChunk /\ Request.verb = "LAST" /\ srv.mode = "command"
<1>1. SUFFICES ASSUME EndsText \/ EndsChunk
               PROVE  \/ delivered' = delivered
                      \/ /\ pc = "end" /\ message.quiet /\ c2s # <<>> /\ c2s' = <<>> /\ NotRefused'
                         /\ delivered' = delivered \cup {Message(cur)}
  <2>1. CASE ServeEndOfData \/ ServeLastChunk
    BY <2>1 DEF ServeEndOfData, ServeLastChunk, Receives
  <2>2. CASE ServeReset \/ ServeMail \/ ServeRcpt \/ ServeData \/ ServeText \/ ServeChunk
             \/ DiscardChunk \/ ServeNoop \/ Refuse
    BY <2>2 DEF ServeReset, ServeMail, ServeRcpt, ServeData, ServeText, ServeChunk,
                DiscardChunk, ServeNoop, Refuse
  <2> QED
    BY <2>1, <2>2 DEF Serve
<1>2. c2s # <<>> /\ alive /\ Request = c2s[1] /\ 1 \in 1..Len(c2s)
  <2>1. c2s # <<>> /\ alive
    BY <1>1 DEF ServeEndOfData, ServeLastChunk, Receives
  <2> QED
    BY <1>0, <2>1 DEF Request
<1>3. pc \in Active /\ message.quiet
  <2>1. pc # "noop"
    BY <1>0, <1>1, <1>2 DEF NoopInv, None, Command
  <2> QED
    BY <1>0, <1>2, <2>1 DEF TypeInv, ClientType, PcType, Active, IdleInv, DeadInv
<1>4. PICK t, m, r, w : SendState(t, m, r, w)
  BY <1>0, <1>3 DEF SendInv
<1>5. /\ m \in Submissions /\ t \in Nat /\ t = cur /\ m = message
      /\ TextStart(m) \in Nat /\ TextStart(m) >= 2 /\ m.blocks \in Nat /\ m.chunked \in BOOLEAN
      /\ Final(m) = TextStart(m) + m.blocks
      /\ r \in Nat /\ w \in Nat /\ Dialogue(t, m, r, w)
  BY <1>0, <1>3, <1>4, InStep
<1>6. /\ pc \in {"write", "reply"} => w <= TextStart(m)
      /\ pc \in {"data", "chunk"} => w <= Final(m)
  <2>1. /\ pc = "write" => w = r /\ r <= TextStart(m)
        /\ pc = "reply" => w <= TextStart(m)
        /\ pc \in {"data", "chunk"} => w <= Final(m)
    BY <1>0, <1>3, <1>4, InStep
  <2> QED
    BY <2>1
<1>7. PICK v : v = w - Len(c2s)
  OBVIOUS
<1>8. /\ v \in Nat /\ v < w /\ w <= Final(m) + 1 /\ v <= Final(m)
      /\ Request = Item(t, m, v) /\ Len(Tail(c2s)) = Len(c2s) - 1
      /\ srv.mode = "data" => s2c = <<>> /\ Accepted(m, r) /\ srv = TransactionAt(t, m, v)
  BY <1>0, <1>2, <1>5, <1>7, NextServed, SMTT(60)
<1>9. v = Final(m) /\ (Request.verb = "EOM" => ~m.chunked) /\ (Request.verb = "LAST" => m.chunked)
  BY <1>1, <1>5, <1>8, ItemVerbs
<1>10. w = Final(m) + 1 /\ r >= TextStart(m)
  BY <1>5, <1>8, <1>9 DEF Dialogue, Shape
<1>11. pc = "end"
  BY <1>3, <1>5, <1>6, <1>10 DEF Active
<1>12. Tail(c2s) = <<>>
  <2>1. PICK n \in Nat : n = Len(c2s)
    BY <1>0
  <2>2. PICK f \in Nat : f = Final(m)
    BY <1>8, <1>9
  <2>3. (f + 1) - n = f
    BY <1>7, <1>9, <1>10, <2>1, <2>2
  <2>4. n = 1
    BY <2>3
  <2> QED
    BY <1>0, <2>1, <2>4, OnlyOne
<1>13. Message(cur) = SentMessage(t, m)
  BY <1>0, <1>3, <1>5, MessageOfScript, RunningSend
<1>14. SentText(t, m) = IF m.chunked THEN Append(TextAt(t, m, Final(m)), Item(t, m, Final(m)))
                        ELSE TextAt(t, m, Final(m))
  BY <1>5, WholeMessage
<1>15. ASSUME Accepted(m, r), NEW verb, verb \in {"EOM", "LAST"}, Accept(verb)
       PROVE  c2s' = <<>> /\ NotRefused'
  <2>1. PICK code \in Positive(verb) \cap ReplyCodes : Answer(code)
    BY <1>15 DEF Accept
  <2>2. code = 250 /\ code # Refusal
    BY <1>15, <2>1, CodesAssumption DEF Positive
  <2>3. PICK a : a = [code |-> code, to |-> Request]
    OBVIOUS
  <2>4. a.code = code /\ s2c' = Append(s2c, a) /\ c2s' = Tail(c2s)
    BY <2>1, <2>3 DEF Answer
  <2>5. /\ Len(s2c') = Len(s2c) + 1 /\ s2c'[Len(s2c) + 1] = a
        /\ \A i \in 1..Len(s2c) : s2c'[i] = s2c[i]
    BY <1>0, <2>4
  <2>6. ~invalidReply /\ \A i \in 1..Len(s2c) : s2c[i].code # Refusal
    BY <1>10, <1>15 DEF Accepted
  <2>7. \A i \in 1..Len(s2c') : s2c'[i].code # Refusal
    <3>1. ASSUME NEW i \in 1..Len(s2c') PROVE i = Len(s2c) + 1 \/ i \in 1..Len(s2c)
      BY <1>0, <2>5
    <3> QED
      BY <2>2, <2>4, <2>5, <2>6, <3>1
  <2> QED
    BY <1>0, <1>12, <2>4, <2>6, <2>7 DEF NotRefused
<1>16. CASE EndsText
  <2>1. CASE delivered' = delivered
    BY <2>1
  <2>2. CASE Accept("EOM") /\ Deliver(srv.text)
    <3>1. c2s' = <<>> /\ NotRefused'
      BY <1>8, <1>15, <1>16, <2>2
    <3>2. srv.text = SentText(t, m) /\ srv.rcpts = RcptsAt(t, m, Final(m))
      BY <1>8, <1>9, <1>14, <1>16 DEF TransactionAt
    <3>3. delivered' = delivered \cup {Message(cur)}
      BY <1>13, <2>2, <3>2 DEF Deliver, SentMessage
    <3> QED
      BY <1>2, <1>3, <1>11, <3>1, <3>3
  <2> QED
    BY <1>16, <2>1, <2>2 DEF ServeEndOfData
<1>17. CASE EndsChunk
  <2>1. /\ srv.rcpts # {} /\ Accept("LAST") /\ Deliver(Append(srv.text, Request))
    BY <1>17 DEF ServeLastChunk
  <2>2. Accepted(m, r) /\ srv = TransactionAt(t, m, v)
    <3>1. Accepted(m, r)
      BY <1>2, <1>5, <1>7, <1>9, <1>10, <1>17, <2>1 DEF Dialogue, Transaction
    <3>2. 2 <= v /\ v <= Final(m)
      BY <1>5, <1>9
    <3> QED
      BY <1>2, <1>5, <1>7, <3>1, <3>2 DEF Dialogue, Transaction
  <2>3. c2s' = <<>> /\ NotRefused'
    BY <1>15, <2>1, <2>2
  <2>4. srv.text = TextAt(t, m, Final(m)) /\ srv.rcpts = RcptsAt(t, m, Final(m))
    BY <1>9, <2>2 DEF TransactionAt
  <2>5. Append(srv.text, Request) = SentText(t, m)
    BY <1>8, <1>9, <1>14, <1>17, <2>4
  <2>6. delivered' = delivered \cup {Message(cur)}
    BY <1>13, <2>1, <2>4, <2>5 DEF Deliver, SentMessage
  <2> QED
    BY <1>2, <1>3, <1>11, <2>3, <2>6
<1> QED
  BY <1>1, <1>16, <1>17

\* At first nothing has been sent.
LEMMA SubmissionInit == Init => SubmissionInv
<1> SUFFICES ASSUME Init PROVE SubmissionInv
  OBVIOUS
<1>1. LockInv
  BY BaseInit DEF LockInv, QuietInv, IdleInv, NoopInv, DeadInv, Init, Active
<1>2. DOMAIN sends = {} /\ pc = "none" /\ delivered = {}
  BY DEF Init
<1> QED
  BY <1>1, <1>2 DEF SubmissionInv, RecordInv, StrayInv, OnceInv, Active

\* Only the server delivers.
LEMMA OnlyServerDelivers ==
  ASSUME [Next]_vars, ~Server
  PROVE  delivered' = delivered
  BY DEF Next, Client, connect, disconnect, noop, writeToSocket, replyAccepted,
     replyRefused, resetRefused, writeBlock, writeEnd, chunkAccepted, chunkAnswered,
     messageAccepted, messageRefused, chunkRefused, noopAnswered, socketFails, timedOut,
     sourceFails, sendEnvelope, serverVars, vars, Hangup

\* Once its message is delivered, a running send() reads 250.
LEMMA DeliveredCode ==
  ASSUME Lockstep, SubmissionInv, pc \in Active, Message(cur) \in delivered, s2c # <<>>
  PROVE  pc = "end" /\ message.quiet /\ ~invalidReply /\ Code = 250
<1>0. TypeInv /\ SendInv /\ CodesInv /\ OnceInv /\ s2c \in Seq(Replies)
  BY DEF SubmissionInv, LockInv, BaseInv, TypeInv, StreamType
<1>1. pc = "end" /\ message.quiet /\ NotRefused
  BY <1>0 DEF OnceInv
<1>2. Code # Refusal
  <2>1. Code = s2c[1].code /\ 1 \in 1..Len(s2c)
    BY <1>0 DEF Code
  <2> QED
    BY <1>1, <2>1 DEF NotRefused
<1>3. PICK t, m, r, w : SendState(t, m, r, w)
  BY <1>0, <1>1 DEF SendInv
<1>4. /\ TextStart(m) \in Nat /\ m.blocks \in Nat /\ Final(m) = TextStart(m) + m.blocks
      /\ r \in Nat /\ w \in Nat /\ unread \in Nat
  BY <1>0, <1>3, Numbers
<1>5. /\ w = Final(m) + 1 /\ r = w - unread /\ unread >= 1 /\ unread <= m.blocks + 1
  BY <1>1, <1>3 DEF SendState, Written, Answered, Progress
<1>6. TextStart(m) <= r /\ r <= Final(m)
  BY <1>4, <1>5
<1>7. Code = 250 <=> Code # Refusal
  BY <1>0, <1>3, <1>6, MessageCode
<1> QED
  BY <1>1, <1>2, <1>7 DEF NotRefused

\* Messages are delivered once, at the end of their send().
LEMMA DeliveredNext ==
  ASSUME Lockstep, SubmissionInv, [Next]_vars
  PROVE  StrayInv' /\ OnceInv'
<1>0. /\ TypeInv /\ LockInv /\ RecordInv /\ StrayInv /\ OnceInv /\ StreamType
      /\ s2c \in Seq(Replies) /\ sends \in Seq(Submissions) /\ DOMAIN sends = 1..Len(sends)
      /\ Len(sends) \in Nat /\ cur = Len(sends)
  BY DEF SubmissionInv, LockInv, BaseInv, TypeInv, ClientType, StreamType, cur
<1>s. ASSUME DOMAIN sends \subseteq DOMAIN sends', delivered' = delivered,
             \A t \in DOMAIN sends : /\ sends'[t].to = sends[t].to
                                     /\ sends'[t].blocks = sends[t].blocks
                                     /\ sends'[t].chunked = sends[t].chunked
      PROVE  StrayInv' /\ \A t \in DOMAIN sends : Message(t)' = Message(t)
  <2>1. ASSUME NEW t \in DOMAIN sends PROVE Message(t)' = Message(t)
    BY <1>s, <2>1, MessageKept
  <2>2. ASSUME NEW d \in delivered' PROVE \E t \in DOMAIN sends' : d = Message(t)'
    <3>1. PICK t \in DOMAIN sends : d = Message(t)
      BY <1>0, <1>s, <2>2 DEF StrayInv
    <3> QED
      BY <1>s, <2>1, <3>1
  <2> QED
    BY <2>1, <2>2 DEF StrayInv
<1>1. CASE \E n \in 1..MaxRecipients, blocks \in 0..MaxBlocks, chunked \in BOOLEAN :
             sendEnvelope(n, blocks, chunked)
  <2>1. PICK m : sends' = Append(sends, m)
    BY <1>1 DEF sendEnvelope
  <2>2. /\ DOMAIN sends' = 1..Len(sends) + 1 /\ cur' = Len(sends) + 1
        /\ \A t \in 1..Len(sends) : sends'[t] = sends[t]
    BY <1>0, <2>1 DEF cur
  <2>3. delivered' = delivered
    BY <1>1 DEF sendEnvelope, serverVars
  <2>4. StrayInv' /\ \A t \in DOMAIN sends : Message(t)' = Message(t)
    BY <1>0, <1>s, <2>2, <2>3
  <2>5. PICK u : u = Len(sends) + 1
    OBVIOUS
  <2>6. Message(u)' \notin delivered'
    <3> SUFFICES ASSUME Message(u)' \in delivered PROVE FALSE
      BY <2>3
    <3>1. PICK t \in DOMAIN sends : Message(u)' = Message(t)
      BY <1>0 DEF StrayInv
    <3>2. sends'[u].to >= 1 /\ sends'[u].to \in Nat
      <4>1. TypeInv' /\ RecordInv' /\ u \in DOMAIN sends'
        BY <1>0, <2>2, <2>5, TypeNext, RecordNext
      <4>2. sends'[u] \in Submissions
        BY <4>1 DEF TypeInv, ClientType
      <4> QED
        BY <4>1, <4>2 DEF RecordInv, Submissions
    <3>3. Message(u)'.rcpts = {<<u, i>> : i \in 1..sends'[u].to}
      BY DEF Message
    <3>4. Message(t).rcpts = {<<t, i>> : i \in 1..sends[t].to}
      BY DEF Message
    <3>5. <<u, 1>> \in Message(t).rcpts
      BY <3>1, <3>2, <3>3
    <3>6. u = t
      BY <3>4, <3>5
    <3> QED
      BY <1>0, <2>5, <3>6
  <2>7. OnceInv'
    BY <2>2, <2>5, <2>6 DEF OnceInv
  <2> QED
    BY <2>4, <2>7
<1>2. ASSUME pc \in Active, pc' \notin Active, delivered' = delivered, NEW o \in Outcomes, End(o)
      PROVE  StrayInv' /\ OnceInv'
  <2>1. /\ DOMAIN sends' = DOMAIN sends
        /\ \A t \in DOMAIN sends : /\ sends'[t].to = sends[t].to
                                   /\ sends'[t].blocks = sends[t].blocks
                                   /\ sends'[t].chunked = sends[t].chunked
    BY <1>0, <1>2, Outcome
  <2> QED
    BY <1>2, <1>s, <2>1 DEF OnceInv
<1>3. ASSUME sends' = sends, delivered' = delivered, pc' \notin Active
      PROVE  StrayInv' /\ OnceInv'
  BY <1>3, <1>s DEF OnceInv
<1>4. ASSUME sends' = sends, delivered' = delivered, Message(cur) \notin delivered
      PROVE  StrayInv' /\ OnceInv'
  <2>1. cur' = cur /\ Message(cur)' = Message(cur)
    BY <1>4, MessageKept DEF cur
  <2> QED
    BY <1>4, <1>s, <2>1 DEF OnceInv
<1>5. CASE replyRefused \/ resetRefused \/ messageAccepted \/ messageRefused \/ chunkRefused
  <2>1. pc \in Active /\ pc' \notin Active /\ (End("failed") \/ End("sent"))
    BY <1>5 DEF replyRefused, resetRefused, messageAccepted, messageRefused, chunkRefused,
       ReadReply, Throw, Hangup, Active
  <2>2. delivered' = delivered
    BY <1>5 DEF replyRefused, resetRefused, messageAccepted, messageRefused, chunkRefused, Hangup
  <2> QED
    BY <1>2, <2>1, <2>2 DEF Outcomes
<1>6. CASE socketFails
  <2>1. delivered' = delivered
    BY <1>6 DEF socketFails
  <2>2. CASE pc = "noop"
    <3>1. sends' = sends /\ pc' = "idle"
      BY <1>6, <2>2 DEF socketFails, Fail
    <3> QED
      BY <1>3, <2>1, <3>1 DEF Active
  <2>3. CASE pc # "noop"
    <3>1. pc \in Active /\ pc' \notin Active /\ End("failed")
      BY <1>6, <2>3 DEF socketFails, Fail, Throw, Active
    <3> QED
      BY <1>2, <2>1, <3>1 DEF Outcomes
  <2> QED
    BY <2>2, <2>3
<1>7. CASE connect \/ disconnect \/ noop \/ noopAnswered
  BY <1>3, <1>7 DEF connect, disconnect, noop, noopAnswered, Hangup, Active
<1>8. CASE writeToSocket \/ replyAccepted \/ writeBlock \/ writeEnd \/ chunkAccepted
  <2>1. pc \in Active /\ pc # "end" /\ sends' = sends /\ delivered' = delivered
    BY <1>8 DEF writeToSocket, replyAccepted, writeBlock, writeEnd, chunkAccepted, ReadReply,
       Active
  <2> QED
    BY <1>0, <1>4, <2>1 DEF OnceInv
<1>9. CASE chunkAnswered
  <2>1. /\ pc = "end" /\ pc' = "end" /\ sends' = sends /\ delivered' = delivered /\ s2c # <<>>
        /\ s2c' = Tail(s2c) /\ invalidReply' = (invalidReply \/ Code # 250)
        /\ UNCHANGED <<alive, c2s>>
    BY <1>9 DEF chunkAnswered, ReadReply
  <2>2. CASE Message(cur) \in delivered
    <3>1. message.quiet /\ ~invalidReply /\ Code = 250 /\ NotRefused /\ (alive => c2s = <<>>)
      BY <1>0, <2>1, <2>2, DeliveredCode DEF OnceInv, Active
    <3>2. \A i \in 1..Len(s2c') : s2c'[i].code # Refusal
      <4>1. /\ Len(s2c') = Len(s2c) - 1 /\ Len(s2c) \in Nat
            /\ \A i \in 1..Len(s2c') : i + 1 \in 1..Len(s2c) /\ s2c'[i] = s2c[i + 1]
        BY <1>0, <2>1
      <4> QED
        BY <3>1, <4>1 DEF NotRefused
    <3>3. NotRefused'
      BY <2>1, <3>1, <3>2 DEF NotRefused
    <3>4. message' = message
      BY <2>1 DEF message, cur
    <3> QED
      BY <1>s, <2>1, <3>1, <3>3, <3>4 DEF OnceInv
  <2> QED
    BY <1>4, <2>1, <2>2
<1>10. CASE Server
  <2>1. /\ UNCHANGED clientVars /\ sends' = sends /\ pc' = pc /\ invalidReply' = invalidReply
        /\ message' = message /\ cur' = cur
    BY <1>10 DEF Server, clientVars, dataVars, message, cur
  <2>2. CASE Serve /\ delivered' = delivered
    <3>1. alive /\ c2s # <<>>
      BY <2>2 DEF Serve, ServeReset, ServeMail, ServeRcpt, ServeData,
         ServeText, ServeEndOfData, ServeChunk, ServeLastChunk, DiscardChunk, ServeNoop,
         Refuse, Receives
    <3> QED
      BY <1>0, <1>3, <1>4, <2>1, <2>2, <3>1 DEF OnceInv
  <2>3. CASE Serve /\ delivered' # delivered
    <3>1. /\ pc = "end" /\ message.quiet /\ c2s' = <<>> /\ NotRefused'
          /\ delivered' = delivered \cup {Message(cur)}
      BY <1>0, <2>1, <2>3, ServeDelivers
    <3>2. OnceInv'
      BY <2>1, <3>1 DEF OnceInv
    <3>3. cur \in DOMAIN sends
      BY <1>0, <3>1, RunningSend DEF Active
    <3>4. \A t \in DOMAIN sends : Message(t)' = Message(t)
      BY <2>1, MessageKept
    <3>5. ASSUME NEW d \in delivered' PROVE \E t \in DOMAIN sends' : d = Message(t)'
      <4>1. PICK t \in DOMAIN sends : d = Message(t)
        BY <1>0, <3>1, <3>3, <3>5 DEF StrayInv
      <4> QED
        BY <2>1, <3>4, <4>1
    <3> QED
      BY <3>2, <3>5 DEF StrayInv
  <2>4. CASE ServerCloses
    <3>1. delivered' = delivered /\ ~alive'
      BY <2>4 DEF ServerCloses
    <3>2. CASE pc \in Active /\ Message(cur) \in delivered
      <4>1. NotRefused'
        BY <1>0, <2>1, <2>4, <3>2, KeptReplies DEF ServerCloses, OnceInv, NotRefused
      <4> QED
        BY <1>0, <1>s, <2>1, <3>1, <3>2, <4>1 DEF OnceInv
    <3> QED
      BY <1>3, <1>4, <2>1, <3>1, <3>2
  <2> QED
    BY <1>10, <2>2, <2>3, <2>4 DEF Server
<1>11. CASE UNCHANGED vars
  <2>1. /\ sends' = sends /\ pc' = pc /\ invalidReply' = invalidReply /\ delivered' = delivered
        /\ UNCHANGED <<alive, c2s, s2c>>
    BY <1>11 DEF vars, clientVars, dataVars, serverVars
  <2>2. CASE pc \in Active /\ Message(cur) \in delivered
    <3>1. NotRefused' /\ message' = message
      BY <1>0, <2>1, <2>2 DEF OnceInv, NotRefused, message, cur
    <3> QED
      BY <1>0, <1>s, <2>1, <2>2, <3>1 DEF OnceInv
  <2> QED
    BY <1>3, <1>4, <2>1, <2>2
<1>12. ~timedOut /\ ~sourceFails
  BY DEF Lockstep, timedOut, sourceFails
<1> QED
  BY <1>1, <1>5, <1>6, <1>7, <1>8, <1>9, <1>10, <1>11, <1>12 DEF Next, Client

\* Records and deliveries keep agreeing.
LEMMA SubmissionNext == ASSUME Lockstep, SubmissionInv, [Next]_vars PROVE SubmissionInv'
<1>1. LockInv' /\ RecordInv'
  BY BaseNext, QuietNext, RecordNext DEF SubmissionInv, LockInv, BaseInv
<1> QED
  BY <1>1, DeliveredNext DEF SubmissionInv

-----------------------------------------------------------------------------
(***************************************************************************)
(* The theorems.                                                           *)
(***************************************************************************)
\* The reply read as the reply to a command is the server's reply to that very
\* command, after any number of refused sends and of NOOPs, on any connection.
THEOREM EveryReplyAnswersItsCommand == ASSUME Lockstep PROVE Spec => []ReplyAnswersCommand
<1>1. LockInv => ReplyAnswersCommand
  BY RepliesInStep
<1> QED
  BY <1>1, InStepAlways, PTL

\* Client and server never wait for each other: as long as the client waits on
\* a live connection a reply, or something that will be answered, is in flight.
THEOREM NobodyWaitsInVain == ASSUME Lockstep PROVE Spec => []NoMutualWait
<1>1. LockInv => NoMutualWait
  BY NobodyWaits
<1> QED
  BY <1>1, InStepAlways, PTL

\* RSET, which m_needReset queues, reaches the server before the next MAIL: a
\* transaction that an earlier send left open is closed by then.
THEOREM MailOpensEveryTransaction == ASSUME Lockstep PROVE Spec => []MailOpensTransaction
<1>1. LockInv => MailOpensTransaction
  BY MailIsFirst
<1> QED
  BY <1>1, InStepAlways, PTL

\* They agree throughout.
LEMMA SubmissionAlways == ASSUME Lockstep PROVE Spec => []SubmissionInv
  BY SubmissionInit, SubmissionNext, PTL DEF Spec

\* A set cannot tell a second delivery from the first, so MailSubmission alone
\* does not exclude it.  This does: when a message has been delivered the server
\* has nothing more of its send() to serve.
ServedOnce ==
  \A t \in DOMAIN sends :
    Message(t) \in delivered /\ alive => \A i \in DOMAIN c2s : c2s[i].tx # t

\* No message is delivered twice: what is on its way to the server is of the
\* send() that runs, and OnceInv says that its last item is the end of it.
THEOREM NothingIsDeliveredTwice == ASSUME Lockstep PROVE Spec => []ServedOnce
<1>1. ASSUME SubmissionInv PROVE ServedOnce
  <2> SUFFICES ASSUME NEW t \in DOMAIN sends, Message(t) \in delivered, alive,
                      NEW i \in DOMAIN c2s
               PROVE  c2s[i].tx # t
    BY DEF ServedOnce
  <2>0. /\ TypeInv /\ SendInv /\ IdleInv /\ NoopInv /\ DeadInv /\ OnceInv
        /\ c2s \in Seq(Commands) /\ Len(c2s) \in Nat /\ StreamType /\ sends \in Seq(Submissions)
    BY <1>1 DEF SubmissionInv, LockInv, BaseInv, QuietInv, TypeInv, StreamType, ClientType
  <2>1. i \in 1..Len(c2s) /\ c2s # <<>> /\ t \in 1..Len(sends)
    BY <2>0
  <2>2. CASE pc = "noop"
    <3>1. c2s[i].tx = 0
      BY <2>0, <2>1, <2>2 DEF NoopInv, None, Command
    <3> QED
      BY <2>0, <2>1, <3>1
  <2>3. CASE pc # "noop"
    <3>1. pc \in Active /\ message.quiet
      BY <2>0, <2>1, <2>3 DEF TypeInv, ClientType, PcType, Active, IdleInv, DeadInv
    <3>2. t # cur
      BY <2>1, <3>1, <2>0 DEF OnceInv
    <3>3. PICK s, m, r, w : SendState(s, m, r, w)
      BY <2>0, <3>1 DEF SendInv
    <3>4. /\ s = cur /\ m \in Submissions /\ s \in Nat
          /\ r \in Nat /\ w \in Nat /\ Dialogue(s, m, r, w)
      BY <2>0, <3>1, <3>3, InStep
    <3>5. Final(m) \in Nat
      BY <3>4, ScriptNumbers
    <3>6. PICK k : k = w - Len(c2s) + i - 1
      OBVIOUS
    <3>7. PICK len \in Nat : len = Len(c2s)
      BY <2>0
    <3>8. c2s[i] = Item(s, m, k)
      BY <2>1, <3>4, <3>6, <3>7 DEF Dialogue, Wire, Writes
    <3>9. k \in Nat /\ k <= Final(m)
      <4>1. w <= Final(m) + 1
        BY <3>4 DEF Dialogue, Shape
      <4>2. r + Len(s2c) <= w /\ Len(s2c) \in Nat
        BY <2>0, <3>1, <3>3, InStep
      <4>3. len <= w
        <5>1. PICK n \in Nat : n = Len(s2c)
          BY <4>2
        <5>2. r + n = w - len \/ (TextStart(m) <= w - len /\ TextStart(m) \in Nat)
          BY <2>0, <3>4, <3>7, <5>1, ScriptNumbers DEF Dialogue, Wire
        <5> QED
          BY <3>4, <3>7, <5>1, <5>2
      <4>4. i \in 1..len
        BY <2>1, <3>7
      <4>5. PICK last \in Nat : last = Final(m)
        BY <3>5
      <4>6. k = w - len + i - 1 /\ w \in Nat /\ w <= last + 1
        BY <3>4, <3>6, <3>7, <4>1, <4>5
      <4>7. k \in Nat /\ k <= last
        BY <3>7, <4>3, <4>4, <4>5, <4>6
      <4> QED
        BY <4>5, <4>7
    <3>10. c2s[i].tx = s
      <4>1. Item(s, m, k).tx = s
        BY <3>4, <3>9, ItemVerbs
      <4> QED
        BY <3>8, <4>1
    <3> QED
      BY <3>2, <3>4, <3>10
  <2> QED
    BY <2>2, <2>3
<1> QED
  BY <1>1, SubmissionAlways, PTL

\* What a step that ends a send() has to do with delivery.
LEMMA RefusedStep ==
  ASSUME Lockstep, SubmissionInv, [Next]_vars, NEW t \in DOMAIN sends,
         sends[t].outcome = "pending", sends'[t].outcome = "failed", alive, s2c # <<>>
  PROVE  Message(t) \notin delivered'
<1>0. /\ TypeInv /\ RecordInv /\ OnceInv /\ sends \in Seq(Submissions)
      /\ DOMAIN sends = 1..Len(sends) /\ Len(sends) \in Nat
  BY DEF SubmissionInv, LockInv, BaseInv, TypeInv, ClientType
<1>1. t = cur /\ pc \in Active
  BY <1>0 DEF RecordInv
<1>2. sends' # sends
  OBVIOUS
<1>3. delivered' = delivered
  BY <1>2, OnlyServerDelivers DEF Server, clientVars
<1> SUFFICES ASSUME Message(cur) \in delivered PROVE FALSE
  BY <1>1, <1>3
<1>4. pc = "end" /\ ~invalidReply /\ Code = 250
  BY <1>1, DeliveredCode
<1>5. ~(\E n \in 1..MaxRecipients, blocks \in 0..MaxBlocks, chunked \in BOOLEAN :
          sendEnvelope(n, blocks, chunked))
  BY <1>4 DEF sendEnvelope
<1>6. ~messageAccepted
  <2> SUFFICES ASSUME messageAccepted PROVE FALSE
    OBVIOUS
  <2>1. sends'[cur].outcome = "sent"
    BY <1>0, <1>1, Outcome DEF messageAccepted, Outcomes
  <2> QED
    BY <1>1, <2>1
<1>7. ~(messageRefused \/ chunkRefused)
  BY <1>4 DEF messageRefused, chunkRefused
<1>8. ~(writeToSocket \/ replyAccepted \/ replyRefused \/ resetRefused \/ writeBlock \/ writeEnd
        \/ chunkAccepted \/ noopAnswered \/ connect \/ disconnect \/ noop)
  BY <1>4 DEF writeToSocket, replyAccepted, replyRefused, resetRefused, writeBlock, writeEnd,
     chunkAccepted, noopAnswered, connect, disconnect, noop, ReadReply
<1>9. ~(chunkAnswered \/ Server \/ UNCHANGED vars)
  BY <1>2 DEF chunkAnswered, Server, clientVars, vars
<1>10. ~socketFails /\ ~timedOut /\ ~sourceFails
  BY DEF Lockstep, socketFails, timedOut, sourceFails
<1> QED
  BY <1>5, <1>6, <1>7, <1>8, <1>9, <1>10 DEF Next, Client

\* A send() that throws because of a reply has not been delivered, so that the
\* application may send the message again without duplicating it.
THEOREM RefusedMayBeSentAgain == ASSUME Lockstep PROVE Spec => RefusedIsNotDelivered
<1>1. SubmissionInv /\ [Next]_vars =>
        [\A t \in DOMAIN sends :
           /\ sends[t].outcome = "pending" /\ sends'[t].outcome = "failed"
           /\ alive /\ s2c # <<>>
           => Message(t) \notin delivered']_vars
  BY RefusedStep
<1> QED
  BY <1>1, SubmissionAlways, PTL DEF Spec, RefusedIsNotDelivered

-----------------------------------------------------------------------------
(***************************************************************************)
(* The transport implements MailSubmission: a send() is a submission, the  *)
(* server takes the message over when it serves its last item, and what    *)
(* send() returns or throws is the report.                                 *)
(***************************************************************************)
outcomes == [t \in DOMAIN sends |-> sends[t].outcome]
taken    == {t \in DOMAIN sends : Message(t) \in delivered}

\* The map leaves out everything but the records and what was delivered.
LEMMA Abstraction ==
  /\ Submission!vars = <<outcomes, taken, delivered \ {Message(t) : t \in DOMAIN sends}>>
  /\ Submission!Init <=> outcomes = <<>> /\ taken = {}
                         /\ delivered \ {Message(t) : t \in DOMAIN sends} = {}
  BY DEF Submission!vars, Submission!Init, outcomes, taken

\* Steps of the abstract specification in terms of the map, nothing being stray.
LEMMA AbstractSteps ==
  ASSUME delivered \ {Message(t) : t \in DOMAIN sends} = {},
         (delivered \ {Message(t) : t \in DOMAIN sends})' = {}
  PROVE  /\ outcomes' = outcomes /\ taken' = taken => UNCHANGED Submission!vars
         /\ /\ \A t \in DOMAIN outcomes : outcomes[t] # "pending"
            /\ outcomes' = Append(outcomes, "pending") /\ taken' = taken
            => Submission!Next
         /\ \A t \in DOMAIN outcomes :
              /\ outcomes[t] # "sent" /\ t \notin taken
              /\ taken' = taken \cup {t} /\ outcomes' = outcomes
              => Submission!Next
         /\ \A t \in DOMAIN outcomes, result \in {"sent", "failed"} :
              /\ outcomes[t] = "pending" /\ (result = "sent" => t \in taken)
              /\ outcomes' = [outcomes EXCEPT ![t] = result] /\ taken' = taken
              => Submission!Next
<1>1. outcomes' = outcomes /\ taken' = taken => UNCHANGED Submission!vars
  BY DEF Submission!vars, outcomes, taken
<1>2. ASSUME \A t \in DOMAIN outcomes : outcomes[t] # "pending",
             outcomes' = Append(outcomes, "pending"), taken' = taken
      PROVE  Submission!Next
  <2>1. Submission!Submit
    BY <1>2 DEF Submission!Submit, outcomes, taken
  <2> QED
    BY <2>1 DEF Submission!Next
<1>3. ASSUME NEW t \in DOMAIN outcomes, outcomes[t] # "sent", t \notin taken,
             taken' = taken \cup {t}, outcomes' = outcomes
      PROVE  Submission!Next
  <2>1. Submission!TakeOver(t)
    BY <1>3 DEF Submission!TakeOver, outcomes, taken
  <2> QED
    BY <1>3, <2>1 DEF Submission!Next, outcomes
<1>4. ASSUME NEW t \in DOMAIN outcomes, NEW result \in {"sent", "failed"},
             outcomes[t] = "pending", result = "sent" => t \in taken,
             outcomes' = [outcomes EXCEPT ![t] = result], taken' = taken
      PROVE  Submission!Next
  <2>1. Submission!Report(t, result)
    BY <1>4 DEF Submission!Report, outcomes, taken
  <2> QED
    BY <1>4, <2>1 DEF Submission!Next, outcomes
<1> QED
  BY <1>1, <1>2, <1>3, <1>4

\* Every step of the transport is a step of the submission service, or none.
LEMMA SubmissionStep ==
  ASSUME Lockstep, SubmissionInv, [Next]_vars
  PROVE  [Submission!Next]_(Submission!vars)
<1>0. /\ TypeInv /\ SendInv /\ LockInv /\ RecordInv /\ StrayInv /\ OnceInv
      /\ sends \in Seq(Submissions) /\ DeadInv /\ SubmissionInv'
      /\ DOMAIN sends = 1..Len(sends) /\ Len(sends) \in Nat /\ cur = Len(sends)
  BY SubmissionNext DEF SubmissionInv, LockInv, BaseInv, QuietInv, TypeInv, ClientType, cur
<1>1. /\ delivered \ {Message(t) : t \in DOMAIN sends} = {}
      /\ (delivered \ {Message(t) : t \in DOMAIN sends})' = {}
  BY <1>0 DEF StrayInv, SubmissionInv
<1>2. DOMAIN outcomes = DOMAIN sends /\ \A t \in DOMAIN sends : outcomes[t] = sends[t].outcome
  BY DEF outcomes
<1>3. ASSUME sends' = sends, delivered' = delivered PROVE UNCHANGED Submission!vars
  <2>1. \A t \in DOMAIN sends : Message(t)' = Message(t)
    BY <1>3, MessageKept
  <2>2. outcomes' = outcomes /\ taken' = taken
    BY <1>3, <2>1 DEF outcomes, taken
  <2> QED
    BY <1>1, <2>2, AbstractSteps
<1>4. CASE \E n \in 1..MaxRecipients, blocks \in 0..MaxBlocks, chunked \in BOOLEAN :
             sendEnvelope(n, blocks, chunked)
  <2>1. PICK m : sends' = Append(sends, m) /\ m.outcome = "pending"
    BY <1>4 DEF sendEnvelope
  <2>2. pc \notin Active /\ delivered' = delivered /\ pc' \in Active
    BY <1>4 DEF sendEnvelope, serverVars, Active
  <2>3. /\ DOMAIN sends' = 1..Len(sends) + 1 /\ cur' = Len(sends) + 1
        /\ sends'[Len(sends) + 1] = m
        /\ \A t \in 1..Len(sends) : sends'[t] = sends[t]
    BY <1>0, <2>1 DEF cur
  <2>4. \A t \in DOMAIN outcomes : outcomes[t] # "pending"
    BY <1>0, <1>2, <2>2 DEF RecordInv
  <2>5. outcomes' = Append(outcomes, "pending")
    <3>1. PICK f : f = outcomes
      OBVIOUS
    <3>2. PICK n \in Nat : n = Len(sends)
      BY <1>0
    <3>3. f = [t \in 1..n |-> sends[t].outcome]
      BY <1>0, <3>1, <3>2 DEF outcomes
    <3>4. outcomes' = [t \in 1..n + 1 |-> sends'[t].outcome]
      BY <2>3, <3>2 DEF outcomes
    <3>5. f \in Seq(Outcomes) /\ Len(f) = n
      <4>1. \A t \in 1..n : sends[t].outcome \in Outcomes
        <5>1. \A t \in 1..n : sends[t] \in Submissions
          BY <1>0, <3>2
        <5> QED
          BY <5>1 DEF Submissions
      <4> QED
        BY <3>3, <4>1
    <3>6. Append(f, "pending") = [t \in 1..n + 1 |-> IF t = n + 1 THEN "pending" ELSE f[t]]
      <4>0. "pending" \in Outcomes
        BY DEF Outcomes
      <4>t. Append(f, "pending") \in Seq(Outcomes)
        BY <3>5, <4>0, AppendProperties
      <4>1. PICK g \in Seq(Outcomes) : g = Append(f, "pending")
        BY <4>t
      <4>2. Len(g) = n + 1 /\ g[n + 1] = "pending" /\ \A t \in 1..n : g[t] = f[t]
        BY <3>5, <4>1
      <4>3. g = [t \in 1..n + 1 |-> g[t]]
        BY <4>2
      <4>4. \A t \in 1..n + 1 : g[t] = IF t = n + 1 THEN "pending" ELSE f[t]
        BY <3>2, <4>2
      <4> QED
        BY <4>1, <4>3, <4>4
    <3>7. ASSUME NEW t \in 1..n + 1
          PROVE  sends'[t].outcome = IF t = n + 1 THEN "pending" ELSE f[t]
      <4>1. t = n + 1 \/ t \in 1..n
        BY <3>2
      <4> QED
        BY <2>1, <2>3, <3>2, <3>3, <4>1
    <3> QED
      BY <3>1, <3>4, <3>6, <3>7
  <2>6. taken' = taken
    <3>1. \A t \in DOMAIN sends : Message(t)' = Message(t)
      BY <1>0, <2>3, MessageKept
    <3>2. PICK u : u = cur'
      OBVIOUS
    <3>3. Message(u)' \notin delivered'
      <4>1. OnceInv' /\ pc' # "end"
        BY <1>0, <1>4 DEF SubmissionInv, sendEnvelope
      <4> QED
        BY <2>2, <3>2, <4>1 DEF OnceInv
    <3>4. ASSUME NEW t
          PROVE  t \in taken' <=> t \in taken
      <4>1. t \in DOMAIN sends' <=> t \in DOMAIN sends \/ t = u
        BY <1>0, <2>3, <3>2
      <4>2. u \notin DOMAIN sends
        BY <1>0, <2>3, <3>2
      <4> QED
        BY <2>2, <3>1, <3>3, <4>1, <4>2 DEF taken
    <3> QED
      BY <3>4
  <2> QED
    BY <1>1, <2>4, <2>5, <2>6, AbstractSteps
<1>5. ASSUME pc \in Active, NEW o \in {"sent", "failed"}, End(o), delivered' = delivered,
             o = "sent" => Message(cur) \in delivered
      PROVE  Submission!Next
  <2>1. /\ DOMAIN sends' = DOMAIN sends /\ sends'[cur].outcome = o
        /\ \A t \in DOMAIN sends : t # cur => sends'[t] = sends[t]
        /\ \A t \in DOMAIN sends : /\ sends'[t].to = sends[t].to
                                   /\ sends'[t].blocks = sends[t].blocks
                                   /\ sends'[t].chunked = sends[t].chunked
    BY <1>0, <1>5, Outcome DEF Outcomes
  <2>2. cur \in DOMAIN sends /\ sends[cur].outcome = "pending"
    BY <1>0, <1>5, RunningSend DEF RecordInv
  <2>3. \A t \in DOMAIN sends : Message(t)' = Message(t)
    BY <2>1, MessageKept
  <2>4. taken' = taken
    BY <1>5, <2>1, <2>3 DEF taken
  <2>5. outcomes' = [outcomes EXCEPT ![cur] = o]
    <3>1. outcomes' = [t \in DOMAIN sends |-> sends'[t].outcome]
      BY <2>1 DEF outcomes
    <3>2. [outcomes EXCEPT ![cur] = o]
            = [t \in DOMAIN sends |-> IF t = cur THEN o ELSE sends[t].outcome]
      BY DEF outcomes
    <3>3. \A t \in DOMAIN sends :
            sends'[t].outcome = IF t = cur THEN o ELSE sends[t].outcome
      BY <2>1
    <3> QED
      BY <3>1, <3>2, <3>3
  <2>6. cur \in DOMAIN outcomes /\ outcomes[cur] = "pending" /\ (o = "sent" => cur \in taken)
    BY <1>2, <1>5, <2>2 DEF taken
  <2> QED
    BY <1>1, <1>5, <2>4, <2>5, <2>6, AbstractSteps
<1>6. CASE messageAccepted
  <2>1. pc \in Active /\ End("sent") /\ delivered' = delivered /\ s2c # <<>>
    BY <1>6 DEF messageAccepted, ReadReply, Active
  <2>2. message.quiet
    BY <1>0, <2>1 DEF DeadInv
  <2>3. Message(cur) \in delivered
    BY <1>0, <1>6, <2>2, AcceptedIsDelivered
  <2> QED
    BY <1>5, <2>1, <2>3
<1>7. CASE replyRefused \/ resetRefused \/ messageRefused \/ chunkRefused
  <2>1. pc \in Active /\ End("failed") /\ delivered' = delivered
    BY <1>7 DEF replyRefused, resetRefused, messageRefused, chunkRefused, ReadReply, Throw,
       Hangup, Active
  <2> QED
    BY <1>5, <2>1
<1>8. CASE socketFails
  <2>1. delivered' = delivered
    BY <1>8 DEF socketFails
  <2>2. CASE pc = "noop"
    <3>1. sends' = sends
      BY <1>8, <2>2 DEF socketFails, Fail
    <3> QED
      BY <1>3, <2>1, <3>1
  <2>3. CASE pc # "noop"
    <3>1. pc \in Active /\ End("failed")
      BY <1>8, <2>3 DEF socketFails, Fail, Throw, Active
    <3> QED
      BY <1>5, <2>1, <3>1
  <2> QED
    BY <2>2, <2>3
<1>9. CASE Server
  <2>1. sends' = sends /\ cur' = cur /\ UNCHANGED clientVars
    BY <1>9 DEF Server, clientVars, cur
  <2>2. CASE delivered' = delivered
    BY <1>3, <2>1, <2>2
  <2>3. CASE delivered' # delivered
    <3>1. Serve
      BY <1>9, <2>3 DEF Server, ServerCloses
    <3>2. /\ pc = "end" /\ c2s # <<>> /\ delivered' = delivered \cup {Message(cur)}
      BY <1>0, <2>1, <2>3, <3>1, ServeDelivers
    <3>3. pc \in Active /\ alive
      BY <3>1, <3>2 DEF Active, Serve, ServeReset, ServeMail, ServeRcpt, ServeData,
         ServeText, ServeEndOfData, ServeChunk, ServeLastChunk, DiscardChunk, ServeNoop,
         Refuse, Receives
    <3>4. Message(cur) \notin delivered
      BY <1>0, <3>2, <3>3 DEF OnceInv
    <3>5. cur \in DOMAIN sends /\ sends[cur].outcome = "pending"
      BY <1>0, <3>3, RunningSend DEF RecordInv
    <3>6. \A t \in DOMAIN sends : Message(t)' = Message(t)
      BY <2>1, MessageKept
    <3>7. \A t \in DOMAIN sends : Message(t) = Message(cur) => t = cur
      BY <1>0, <3>5, MessagesDiffer
    <3>8. taken' = taken \cup {cur} /\ outcomes' = outcomes /\ cur \notin taken
      BY <2>1, <3>2, <3>4, <3>5, <3>6, <3>7 DEF taken, outcomes
    <3>9. cur \in DOMAIN outcomes /\ outcomes[cur] # "sent"
      BY <1>2, <3>5
    <3> QED
      BY <1>1, <3>8, <3>9, AbstractSteps
  <2> QED
    BY <2>2, <2>3
<1>10. CASE connect \/ disconnect \/ noop \/ writeToSocket \/ replyAccepted \/ writeBlock
            \/ writeEnd \/ chunkAccepted \/ chunkAnswered \/ noopAnswered \/ UNCHANGED vars
  <2>1. sends' = sends
    BY <1>10 DEF connect, disconnect, noop, writeToSocket, replyAccepted, writeBlock, writeEnd,
       chunkAccepted, chunkAnswered, noopAnswered, clientVars, vars
  <2>2. delivered' = delivered
    BY <1>10 DEF connect, disconnect, noop, writeToSocket, replyAccepted, writeBlock, writeEnd,
       chunkAccepted, chunkAnswered, noopAnswered, serverVars, vars, Hangup
  <2> QED
    BY <1>3, <2>1, <2>2
<1>11. ~timedOut /\ ~sourceFails
  BY DEF Lockstep, timedOut, sourceFails
<1> QED
  BY <1>4, <1>6, <1>7, <1>8, <1>9, <1>10, <1>11 DEF Next, Client

\* In step with the server, and with a source that does not fail, the transport
\* is a mail submission service: every report is true, and no message is taken
\* over twice, altered or for other recipients.
THEOREM TransportIsSubmission == ASSUME Lockstep PROVE Spec => ImplementsSubmission
<1>1. Init => Submission!Init
  <2> SUFFICES ASSUME Init PROVE Submission!Init
    OBVIOUS
  <2>1. DOMAIN sends = {} /\ delivered = {}
    BY DEF Init
  <2>2. outcomes = <<>> /\ taken = {}
    BY <2>1 DEF outcomes, taken
  <2> QED
    BY <2>1, <2>2, Abstraction
<1>2. SubmissionInv /\ [Next]_vars => [Submission!Next]_(Submission!vars)
  BY SubmissionStep
<1> QED
  BY <1>1, <1>2, SubmissionAlways, PTL DEF Spec, ImplementsSubmission, Submission!Spec
=============================================================================
