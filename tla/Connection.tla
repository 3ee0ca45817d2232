----------------------------- MODULE Connection -----------------------------
(***************************************************************************)
(* What the connection objects of the three protocols share while they     *)
(* connect: a socket that is in clear text or inside TLS, capabilities     *)
(* learned from the server, and the SASL exchange, which SMTPConnection,   *)
(* POP3Connection and IMAPConnection each spell out in authenticateSASL.   *)
(* The client waits for each reply before it sends again.                  *)
(***************************************************************************)
EXTENDS Naturals

CONSTANTS
  Builtin,         \* SASL mechanisms of the gsasl library
  Immediate,       \* mechanisms with an initial response (XOAUTH2)
  Unknown,         \* mechanisms that only the server has
  MaxChallenges    \* bound: challenges of the server in one exchange

ASSUME ConnectionAssumption == MaxChallenges \in Nat

VARIABLES
  protocol, options,   \* chosen once
  client,              \* the connection object and the thread in connect()
  logged               \* the server has accepted a login

connectionVars == <<protocol, options, client, logged>>

Mechanisms == Builtin \cup Immediate \cup Unknown
Layers == {"clear", "tls"}

\* capabilities: what is cached, over which layer it was heard, and whether
\* from a server that had accepted the login.
NoCapabilities == [fetched |-> FALSE, mechs |-> {}, layer |-> "none", loggedIn |-> FALSE]
NoExchange == [mech |-> "none", answered |-> 0, challenged |-> 0, cancelled |-> FALSE]

\* at is the command whose reply is awaited.  reader is the layer that the
\* IMAP parser's own socket pointer is in.  offered is the layer over which
\* mechList was announced; sent the layers that credentials went over.
Unconnected ==
  [at |-> "idle", socket |-> "none", reader |-> "none", secured |-> FALSE,
   authenticated |-> FALSE, extended |-> FALSE, capabilities |-> NoCapabilities,
   greeting |-> "plain", startedTLS |-> FALSE, mechList |-> {}, offered |-> "none",
   exchange |-> NoExchange, sent |-> {}]

Await(c, command) == [c EXCEPT !.at = command]
Throw(c) == Await(c, "failed")
SendCredentials(c, command) == [Await(c, command) EXCEPT !.sent = @ \cup {c.socket}]
LoggedIn(c) == [Await(c, "connected") EXCEPT !.authenticated = TRUE]

internalDisconnect(c) ==
  [c EXCEPT !.socket = "none", !.reader = "none", !.secured = FALSE, !.authenticated = FALSE]
Abandon(c) == Throw(internalDisconnect(c))

\* The server announces mechanisms over the layer that the client is in.
Heard(c, mechs, loggedIn) ==
  [c EXCEPT !.capabilities = [fetched |-> TRUE, mechs |-> mechs, layer |-> c.socket, loggedIn |-> loggedIn]]

\* Slip: only the flag is reset.
invalidateCapabilities_KeepsList(c) == [c EXCEPT !.capabilities.fetched = FALSE]
invalidateCapabilities(c) == [c EXCEPT !.capabilities = NoCapabilities]

Socket(layer) == [Unconnected EXCEPT !.at = "greeting", !.socket = layer, !.reader = layer, !.secured = layer = "tls"]
OpenSocket == Socket(IF options.dedicated THEN "tls" ELSE "clear")

wantsTLS(c) == options.tls /\ ~options.dedicated /\ ~c.startedTLS

-----------------------------------------------------------------------------
(***************************************************************************)
(* SASL                                                                    *)
(***************************************************************************)
known(mechs) == mechs \cap (Builtin \cup Immediate)

\* Without a mechanism that gsasl can suggest, none is tried.  An application
\* may keep to XOAUTH2; the authenticator may not be one for SASL at all.
acceptable(mechs) ==
  IF ~options.saslAuthenticator \/ known(mechs) \cap Builtin = {} THEN {{}}
  ELSE {known(mechs), known(mechs) \cap Immediate}

\* The mechanisms are tried in any order; at "SASL" is the head of the loop.
ListMechanisms(c, list) ==
  [Await(c, "SASL") EXCEPT !.mechList = list, !.offered = c.capabilities.layer]

hasInitialResponse(mech) == mech \in Immediate

\* Slip: the loop stays at the first mechanism.
without_Same(list, mech) == list
without(list, mech) == list \ {mech}

withExchange(c, exchange) == [c EXCEPT !.exchange = exchange]
withList(c, list) == [c EXCEPT !.mechList = list]

tryMechanism(c, mech) ==
  withExchange(
    withList(IF hasInitialResponse(mech) THEN SendCredentials(c, "AUTH") ELSE Await(c, "AUTH"),
             without(c.mechList, mech)),
    [NoExchange EXCEPT !.mech = mech])

\* XOAUTH2 answers whatever it is asked, the mechanisms of gsasl once.
mayAnswer(exchange) == exchange.mech \in Immediate \/ exchange.answered = 0

answered(c) ==
  withExchange(SendCredentials(c, "AUTH"),
               [c.exchange EXCEPT !.answered = @ + 1, !.challenged = @ + 1])
\* sasl_exception: "*" is sent, and the reply to it awaited.
cancelled(c) == withExchange(c, [c.exchange EXCEPT !.cancelled = TRUE, !.challenged = @ + 1])

\* The server challenges a bounded number of times, and not after a "*".
ServerChallenges == ~client.exchange.cancelled /\ client.exchange.challenged < MaxChallenges
ServerAccepts ==
  /\ ~client.exchange.cancelled
  /\ client.exchange.answered > 0 \/ hasInitialResponse(client.exchange.mech)

-----------------------------------------------------------------------------
At(p, command) == protocol = p /\ client.at = command
Step(c) == client' = c /\ UNCHANGED <<protocol, options, logged>>
Login(c) == client' = c /\ logged' = TRUE /\ UNCHANGED <<protocol, options>>
\* No reply: a time-out, a broken connection, a reply that cannot be parsed.
NoReply(p, commands) == protocol = p /\ client.at \in commands
=============================================================================
