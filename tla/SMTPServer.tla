----------------------------- MODULE SMTPServer -----------------------------
(***************************************************************************)
(* The environment of an SMTP client connection: the two directions of one *)
(* TCP stream and the server at its far end.  Neither is in the            *)
(* repository; both are modelled from what SMTPTransport, SMTPCommandSet   *)
(* and SMTPChunkingOutputStreamAdapter write and from the reply codes they *)
(* test.  The server takes the commands in the order they were written and *)
(* answers each of them once, except that between a 354 and the end-of-    *)
(* data mark everything it receives is message text and is not answered.   *)
(* It may refuse any command and may close the connection at any moment.   *)
(***************************************************************************)
EXTENDS Naturals, Sequences

CONSTANTS
  ReplyCodes,   \* the positive reply codes this server uses
  Refusal       \* one code standing for every 4xx and 5xx code

ASSUME CodesAssumption ==
  /\ ReplyCodes \subseteq {200, 250, 251, 354}
  /\ Refusal \in Nat \ {0, 200, 250, 251, 354}

VARIABLES
  alive,        \* the server has not closed the connection
  srv,          \* the server's transaction on this connection
  c2s, s2c,     \* bytes in flight: commands one way, replies the other
  delivered     \* messages the server has taken responsibility for

serverVars == <<alive, srv, c2s, s2c, delivered>>

(***************************************************************************)
(* A command carries the number of the send() that wrote it and an         *)
(* argument: the recipient of a RCPT, the block of a TEXT, BDAT or LAST.   *)
(* "TEXT" is a block of message data, "EOM" the final CRLF.CRLF, "BDAT" a  *)
(* chunk and "LAST" the chunk marked LAST; the size in a BDAT delimits its *)
(* bytes, so command and data are one item.                                *)
(***************************************************************************)
Verbs == {"RSET", "MAIL", "RCPT", "DATA", "TEXT", "EOM", "BDAT", "LAST", "NOOP"}
Commands == [verb : Verbs, tx : Nat, arg : Nat]
Command(verb, tx, arg) == [verb |-> verb, tx |-> tx, arg |-> arg]

Codes == ReplyCodes \cup {Refusal}
\* A reply remembers which command it answers: the server knows, the client
\* has to infer it from the order of the stream.
Replies == [code : Codes, to : Commands]

Transactions ==
  [mode : {"command", "data"}, mail : Nat, rcpts : SUBSET (Nat \X Nat), text : Seq(Commands)]
NoTransaction == [mode |-> "command", mail |-> 0, rcpts |-> {}, text |-> <<>>]

Positive(verb) ==
  CASE verb = "RSET" -> {200, 250}    \* "some servers reply 200"
    [] verb = "RCPT" -> {250, 251}
    [] verb = "DATA" -> {354}
    [] OTHER         -> {250}

Request == Head(c2s)
Answer(code) == /\ c2s' = Tail(c2s)
                /\ s2c' = Append(s2c, [code |-> code, to |-> Request])
Accept(verb) == \E code \in Positive(verb) \cap ReplyCodes : Answer(code)

Receives(verbs, mode) ==
  /\ alive
  /\ c2s # <<>>
  /\ Request.verb \in verbs
  /\ srv.mode = mode

-----------------------------------------------------------------------------
ServeReset ==
  /\ Receives({"RSET"}, "command")
  /\ Accept("RSET")
  /\ srv' = NoTransaction
  /\ UNCHANGED <<alive, delivered>>

\* A second MAIL inside a transaction is a bad sequence of commands.
ServeMail ==
  /\ Receives({"MAIL"}, "command")
  /\ srv.mail = 0
  /\ Accept("MAIL")
  /\ srv' = [NoTransaction EXCEPT !.mail = Request.tx]
  /\ UNCHANGED <<alive, delivered>>

ServeRcpt ==
  /\ Receives({"RCPT"}, "command")
  /\ srv.mail # 0
  /\ Accept("RCPT")
  /\ srv' = [srv EXCEPT !.rcpts = @ \cup {<<Request.tx, Request.arg>>}]
  /\ UNCHANGED <<alive, delivered>>

ServeData ==
  /\ Receives({"DATA"}, "command")
  /\ srv.rcpts # {}
  /\ Accept("DATA")
  /\ srv' = [srv EXCEPT !.mode = "data"]
  /\ UNCHANGED <<alive, delivered>>

\* Anything but the end-of-data mark, commands included, is message text now.
ServeText ==
  /\ Receives(Verbs \ {"EOM"}, "data")
  /\ srv' = [srv EXCEPT !.text = Append(@, Request)]
  /\ c2s' = Tail(c2s)
  /\ UNCHANGED <<alive, s2c, delivered>>

Deliver(text) == delivered' = delivered \cup {[text |-> text, rcpts |-> srv.rcpts]}

ServeEndOfData ==
  /\ Receives({"EOM"}, "data")
  /\ srv' = NoTransaction
  /\ \/ Accept("EOM") /\ Deliver(srv.text)
     \/ Answer(Refusal) /\ UNCHANGED delivered
  /\ UNCHANGED alive

ServeChunk ==
  /\ Receives({"BDAT"}, "command")
  /\ srv.rcpts # {}
  /\ Accept("BDAT")
  /\ srv' = [srv EXCEPT !.text = Append(@, Request)]
  /\ UNCHANGED <<alive, delivered>>

ServeLastChunk ==
  /\ Receives({"LAST"}, "command")
  /\ srv.rcpts # {}
  /\ Accept("LAST")
  /\ Deliver(Append(srv.text, Request))
  /\ srv' = NoTransaction
  /\ UNCHANGED alive

\* Without recipients, as after a refused chunk, chunks may still be taken and
\* thrown away, the last one included.
DiscardChunk ==
  /\ Receives({"BDAT", "LAST"}, "command")
  /\ srv.rcpts = {}
  /\ Accept(Request.verb)
  /\ srv' = IF Request.verb = "LAST" THEN NoTransaction ELSE srv
  /\ UNCHANGED <<alive, delivered>>

ServeNoop ==
  /\ Receives({"NOOP"}, "command")
  /\ Accept("NOOP")
  /\ UNCHANGED <<alive, srv, delivered>>

\* Any command may be refused, and one that is out of sequence always is.  A
\* refused chunk ends the transaction's chance to be delivered.
Refuse ==
  /\ Receives(Verbs, "command")
  /\ Answer(Refusal)
  /\ srv' = IF Request.verb \in {"BDAT", "LAST"}
            THEN [NoTransaction EXCEPT !.mail = srv.mail] ELSE srv
  /\ UNCHANGED <<alive, delivered>>

\* The far end goes away: what it has not read is lost, and so may be the last
\* of the replies that the client has not read.
ServerCloses ==
  /\ alive
  /\ alive' = FALSE
  /\ c2s' = <<>>
  /\ \E n \in 0..Len(s2c) : s2c' = SubSeq(s2c, 1, n)
  /\ UNCHANGED <<srv, delivered>>

Serve ==
  \/ ServeReset \/ ServeMail \/ ServeRcpt \/ ServeData \/ ServeText \/ ServeEndOfData
  \/ ServeChunk \/ ServeLastChunk \/ DiscardChunk \/ ServeNoop \/ Refuse
=============================================================================
