----------------------------- MODULE Connections -----------------------------
(***************************************************************************)
(* One connection of any of the three protocols, under any options, and    *)
(* the properties that connect() has whatever the server does.             *)
(***************************************************************************)
EXTENDS Connection

SMTP == INSTANCE SMTPConnection
POP3 == INSTANCE POP3Connection
IMAP == INSTANCE IMAPConnection

\* Options that a protocol does not have are off.
Options(p) ==
  {o \in [tls : BOOLEAN, required : BOOLEAN, dedicated : BOOLEAN, needAuth : BOOLEAN, sasl : BOOLEAN,
          saslAuthenticator : BOOLEAN, fallback : BOOLEAN, apop : BOOLEAN, apopFallback : BOOLEAN] :
     /\ p # "smtp" => o.needAuth
     /\ p = "smtp" => ~o.fallback
     /\ p # "pop3" => ~o.apop
     /\ ~o.apop => ~o.apopFallback
     /\ ~o.sasl => ~o.saslAuthenticator /\ ~o.fallback}

Init ==
  /\ protocol \in {"smtp", "pop3", "imap"} /\ options \in Options(protocol)
  /\ client = Unconnected /\ logged = FALSE

Next == SMTP!SMTPNext \/ POP3!POP3Next \/ IMAP!IMAPNext

Spec == Init /\ [][Next]_connectionVars
\* Replies come, or time out, and connect() goes on with them.
FairSpec == Spec /\ WF_connectionVars(Next)

-----------------------------------------------------------------------------
Commands == {"EHLO", "HELO", "STARTTLS", "STLS", "CAPA", "CAPABILITY", "AUTH", "APOP", "NOOP", "USER", "PASS", "LOGIN", "LIST"}
Waiting == Commands \cup {"greeting", "handshake"}
Usable == client.socket # "none" /\ client.authenticated

\* The object is what it should be, and the cache of capabilities is empty
\* when it says that nothing was fetched.
TypeOK ==
  /\ client.at \in Waiting \cup {"idle", "SASL", "connected", "failed", "over"}
  /\ {client.socket, client.reader, client.offered, client.capabilities.layer} \subseteq Layers \cup {"none"}
  /\ {client.secured, client.authenticated, client.extended, client.startedTLS, logged} \subseteq BOOLEAN
  /\ client.sent \subseteq Layers /\ client.mechList \subseteq Mechanisms
  /\ client.exchange.mech \in Mechanisms \cup {"none"}
  /\ ~client.capabilities.fetched => client.capabilities = NoCapabilities

\* When TLS is required, or the port is one for TLS, credentials go out in no
\* other way, and a connection that is usable says truly that it is secured
\* (connect, startTLS, internalDisconnect of the three classes).
RequiredMeansSecured ==
  /\ options.dedicated \/ (options.tls /\ options.required) =>
       client.sent \subseteq {"tls"} /\ (Usable => client.secured)
  /\ client.secured <=> client.socket = "tls"

\* isConnected() is only true of a connection that connect() has returned
\* from, with a login that the server accepted unless none is asked for; and
\* connect() only returns from such a connection.
UsableIsLoggedIn ==
  /\ Usable => client.at \in {"connected", "CAPABILITY"} /\ (logged \/ ~options.needAuth)
  /\ client.at = "connected" => Usable

\* The mechanisms that are tried were announced over the layer they are used
\* on: none is left from before STARTTLS (helo, invalidateCapabilities).
MechanismsOfThisLayer ==
  client.at = "AUTH" \/ (client.at = "SASL" /\ client.mechList # {}) => client.offered = client.socket

\* A reply is read from the layer that its command went out on: the IMAP
\* parser is given the new socket when TLS has started.
RepliesReadWhereSent == client.at \in Commands => client.reader = client.socket

\* The capabilities that IMAPConnection has cached once connected are those
\* of after the login, except after a login by an initial response that was
\* accepted without a challenge (authenticate, authenticateSASL).
CapabilitiesAfterLogin ==
  protocol = "imap" /\ client.at = "connected" /\ client.capabilities.fetched =>
    \/ client.capabilities.loggedIn
    \/ client.exchange.mech \in Immediate /\ client.exchange.answered = 0

\* connect() returns or throws, whatever the server answers, if it answers a
\* bounded number of times with a challenge and refuses what was cancelled.
ConnectEnds == client.at = "greeting" ~> client.at \in {"connected", "failed"}
=============================================================================
