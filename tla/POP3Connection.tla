--------------------------- MODULE POP3Connection ---------------------------
(***************************************************************************)
(* POP3Connection::connect and what it calls, one action per reply.        *)
(***************************************************************************)
EXTENDS Connection

\* Basic authentication, and APOP before it.
basic(c) == Await(c, "USER")
apop(c) ==
  IF ~options.apop THEN basic(c)
  ELSE IF c.greeting = "id" THEN SendCredentials(c, "APOP")
  ELSE IF options.apopFallback THEN basic(c) ELSE Abandon(c)

\* authentication_error from authenticateSASL.
exhausted(c) == IF options.fallback THEN apop(c) ELSE Abandon(c)

\* Nothing has asked for capabilities before.
authenticate(c) ==
  IF ~options.sasl THEN apop(c)
  ELSE IF ~options.saslAuthenticator THEN exhausted(c)
  ELSE Await(c, "CAPA")

afterGreeting(c) ==
  IF wantsTLS(c) THEN [Await(c, "STLS") EXCEPT !.startedTLS = TRUE] ELSE authenticate(c)

secured(c) ==
  authenticate(invalidateCapabilities([c EXCEPT !.socket = "tls", !.reader = "tls", !.secured = TRUE]))
refusedTLS(c) == IF options.required THEN Throw(c) ELSE authenticate(c)

connect == At("pop3", "idle") /\ Step(OpenSocket)
greeted ==
  /\ At("pop3", "greeting")
  /\ \/ \E id \in {"plain", "id"} : Step(afterGreeting([client EXCEPT !.greeting = id]))
     \/ Step(Abandon(client))
startTLS ==
  \/ At("pop3", "STLS") /\ \E c \in {Await(client, "handshake"), refusedTLS(client)} : Step(c)
  \/ At("pop3", "handshake") /\ \E c \in {secured(client), Abandon(client)} : Step(c)

\* A refused CAPA counts as an empty list.
fetchCapabilities ==
  /\ At("pop3", "CAPA")
  /\ \E mechs \in SUBSET Mechanisms : \E list \in acceptable(mechs) :
       Step(ListMechanisms(Heard(client, mechs, FALSE), list))

authenticateSASL ==
  \/ At("pop3", "SASL") /\ \E mech \in client.mechList : Step(tryMechanism(client, mech))
  \/ At("pop3", "SASL") /\ client.mechList = {} /\ Step(exhausted(client))
  \/ At("pop3", "AUTH") /\ ServerChallenges /\ mayAnswer(client.exchange) /\ Step(answered(client))
  \/ At("pop3", "AUTH") /\ ServerChallenges /\ ~hasInitialResponse(client.exchange.mech) /\ Step(cancelled(client))
  \/ At("pop3", "AUTH") /\ ServerAccepts /\ Login(LoggedIn(client))
  \/ At("pop3", "AUTH") /\ Step(Await(client, "SASL"))

\* After a refused APOP, NOOP finds out whether the server has hung up; what
\* it answers does not matter.
apopReply ==
  \/ At("pop3", "APOP") /\ Login(LoggedIn(client))
  \/ At("pop3", "APOP") /\ Step(IF options.apopFallback THEN Await(client, "NOOP") ELSE Abandon(client))
  \/ At("pop3", "NOOP") /\ Step(basic(client))

basicReply ==
  \/ At("pop3", "USER") /\ \E c \in {SendCredentials(client, "PASS"), Abandon(client)} : Step(c)
  \/ At("pop3", "PASS") /\ Login(LoggedIn(client))
  \/ At("pop3", "PASS") /\ Step(Abandon(client))

\* NOOP distinguishes a broken connection from a time-out.
readResponse ==
  \/ NoReply("pop3", {"STLS", "CAPA", "AUTH", "NOOP"}) /\ Step(Abandon(client))
  \/ NoReply("pop3", {"greeting", "APOP", "NOOP", "USER", "PASS"}) /\ Step(Throw(client))

disconnect == At("pop3", "connected") /\ Step(Await(internalDisconnect(client), "over"))

POP3Next ==
  \/ connect \/ greeted \/ startTLS \/ fetchCapabilities \/ authenticateSASL
  \/ apopReply \/ basicReply \/ readResponse \/ disconnect
=============================================================================
