--------------------------- MODULE IMAPConnection ---------------------------
(***************************************************************************)
(* IMAPConnection::connect and what it calls, one action per reply.  The   *)
(* parser reads from a socket pointer of its own.  m_state is modelled as  *)
(* far as isConnected tells it apart: authenticated is STATE_AUTHENTICATED.*)
(***************************************************************************)
EXTENDS Connection

initHierarchySeparator(c) == Await(c, "LIST")

\* Capabilities that were cached are not asked for again.
authenticateSASL(c) ==
  IF c.capabilities.fetched
  THEN {ListMechanisms(c, list) : list \in acceptable(c.capabilities.mechs)}
  ELSE {Await(c, "CAPABILITY")}

login(c) == SendCredentials(c, "LOGIN")
exhausted(c) == IF options.fallback THEN login(c) ELSE Abandon(c)

authenticate(c) ==
  IF c.greeting = "preauth" THEN {initHierarchySeparator(c)}
  ELSE IF ~options.sasl THEN {login(c)}
  ELSE IF ~options.saslAuthenticator THEN {exhausted(c)}
  ELSE authenticateSASL(c)

afterGreeting(c) ==
  IF wantsTLS(c) THEN {[Await(c, "STARTTLS") EXCEPT !.startedTLS = TRUE]} ELSE authenticate(c)

\* Slip: the parser keeps the socket it had.
setSocket_NotParser(c, layer) == [c EXCEPT !.socket = layer]
setSocket(c, layer) == [c EXCEPT !.socket = layer, !.reader = layer]

\* Slip: the list from before the handshake is kept.
secured_KeepsCapabilities(c) == [setSocket(c, "tls") EXCEPT !.secured = TRUE]
secured(c) == invalidateCapabilities([setSocket(c, "tls") EXCEPT !.secured = TRUE])
refusedTLS(c) == IF options.required THEN {Throw(c)} ELSE authenticate(c)

preauthenticated(c) == [c EXCEPT !.greeting = "preauth"]

connect == At("imap", "idle") /\ Step(OpenSocket)

\* The greeting may carry capabilities, and may say that the client is known.
greeted ==
  \/ At("imap", "greeting") /\ Step(Abandon(client))
  \/ At("imap", "greeting") /\ \E c \in afterGreeting(client) : Step(c)
  \/ At("imap", "greeting") /\ \E mechs \in SUBSET Mechanisms :
       \E c \in afterGreeting(Heard(client, mechs, FALSE)) : Step(c)
  \/ At("imap", "greeting") /\ \E c \in afterGreeting(preauthenticated(client)) : Login(c)
  \/ At("imap", "greeting") /\ \E mechs \in SUBSET Mechanisms :
       \E c \in afterGreeting(Heard(preauthenticated(client), mechs, TRUE)) : Login(c)

startTLS ==
  \/ At("imap", "STARTTLS") /\ Step(Await(client, "handshake"))
  \/ At("imap", "STARTTLS") /\ \E c \in refusedTLS(client) : Step(c)
  \/ At("imap", "handshake") /\ \E c \in authenticate(secured(client)) : Step(c)
  \/ At("imap", "handshake") /\ Step(Abandon(client))

\* A refused CAPABILITY leaves the list empty and to be fetched again.
listed(c) == {ListMechanisms(c, list) : list \in acceptable(c.capabilities.mechs)}
fetchCapabilities ==
  /\ At("imap", "CAPABILITY")
  /\ \/ ~client.authenticated /\ \E mechs \in SUBSET Mechanisms :
          \E c \in listed(Heard(client, mechs, FALSE)) : Step(c)
     \/ ~client.authenticated /\ \E c \in listed(client) : Step(c)
     \/ client.authenticated /\ \E mechs \in SUBSET Mechanisms :
          Step(Await(Heard(client, mechs, TRUE), "connected"))
     \/ client.authenticated /\ Step(Await(client, "connected"))

exchange ==
  \/ At("imap", "SASL") /\ \E mech \in client.mechList : Step(tryMechanism(client, mech))
  \/ At("imap", "SASL") /\ client.mechList = {} /\ Step(exhausted(client))
  \/ At("imap", "AUTH") /\ ServerChallenges /\ mayAnswer(client.exchange)
       /\ Step(invalidateCapabilities(answered(client)))
  \/ At("imap", "AUTH") /\ ServerChallenges /\ ~hasInitialResponse(client.exchange.mech) /\ Step(cancelled(client))
  \/ At("imap", "AUTH") /\ ServerAccepts /\ Login(initHierarchySeparator(client))
  \/ At("imap", "AUTH") /\ Step(Await(client, "SASL"))

\* Slip: what was cached before the login is still believed.
loggedIn_KeepsCapabilities(c) == initHierarchySeparator(c)
loggedIn(c) == initHierarchySeparator(invalidateCapabilities(c))

\* The reply to LOGIN may carry the new capabilities.
loginReply ==
  \/ At("imap", "LOGIN") /\ Login(loggedIn(client))
  \/ At("imap", "LOGIN") /\ \E mechs \in SUBSET Mechanisms :
       Login(initHierarchySeparator(Heard(client, mechs, TRUE)))
  \/ At("imap", "LOGIN") /\ Step(Abandon(client))

hierarchySeparator == At("imap", "LIST") /\ \E c \in {LoggedIn(client), Abandon(client)} : Step(c)

\* Failures within startTLS and authenticateSASL disconnect; the fetch for a
\* caller of hasCapability leaves the connection as it is.
readResponse ==
  \/ NoReply("imap", {"STARTTLS", "AUTH"}) /\ Step(Abandon(client))
  \/ NoReply("imap", {"greeting", "LOGIN", "LIST"}) /\ Step(Throw(client))
  \/ NoReply("imap", {"CAPABILITY"}) /\ Step(IF client.authenticated THEN Await(client, "connected") ELSE Abandon(client))

\* A connected client asks for what the server can do.
hasCapability == At("imap", "connected") /\ ~client.capabilities.fetched /\ Step(Await(client, "CAPABILITY"))

disconnect == At("imap", "connected") /\ Step(Await(internalDisconnect(client), "over"))

IMAPNext ==
  \/ connect \/ greeted \/ startTLS \/ fetchCapabilities \/ exchange \/ loginReply
  \/ hierarchySeparator \/ readResponse \/ hasCapability \/ disconnect
=============================================================================
