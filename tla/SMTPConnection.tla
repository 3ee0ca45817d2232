--------------------------- MODULE SMTPConnection ---------------------------
(***************************************************************************)
(* SMTPConnection::connect and what it calls, one action per reply.        *)
(***************************************************************************)
EXTENDS Connection

helo(c) == Await(c, "EHLO")

\* HELO says nothing of extensions.
basicSMTP(c) == [Heard(c, {}, FALSE) EXCEPT !.extended = FALSE]
extendedSMTP(c, mechs) == [Heard(c, mechs, FALSE) EXCEPT !.extended = TRUE]

\* What may come after the last reply to EHLO or HELO.
authenticate(c) ==
  IF ~options.needAuth THEN {LoggedIn(c)}
  ELSE IF ~c.extended THEN {Abandon(c)}
  ELSE IF ~options.sasl THEN {Throw(c)}
  ELSE {ListMechanisms(c, list) : list \in acceptable(c.capabilities.mechs)}

afterHelo(c) ==
  IF wantsTLS(c) THEN {[Await(c, "STARTTLS") EXCEPT !.startedTLS = TRUE]} ELSE authenticate(c)

secured(c) == helo([c EXCEPT !.socket = "tls", !.reader = "tls", !.secured = TRUE])

\* Slip: a refusal is never fatal.
refusedTLS_Ignored(c) == helo(c)
refusedTLS(c) == IF options.required THEN Throw(c) ELSE helo(c)

connect == At("smtp", "idle") /\ Step(OpenSocket)
greeted == At("smtp", "greeting") /\ \E c \in {helo(client), Abandon(client)} : Step(c)
heloReply ==
  \/ At("smtp", "EHLO") /\ \E mechs \in SUBSET Mechanisms :
       \E c \in afterHelo(extendedSMTP(client, mechs)) : Step(c)
  \/ At("smtp", "EHLO") /\ Step(Await(client, "HELO"))
  \/ At("smtp", "HELO") /\ \E c \in afterHelo(basicSMTP(client)) : Step(c)
  \/ At("smtp", "HELO") /\ Step(Abandon(client))
startTLS ==
  \/ At("smtp", "STARTTLS") /\ \E c \in {Await(client, "handshake"), refusedTLS(client)} : Step(c)
  \/ At("smtp", "handshake") /\ \E c \in {secured(client), Abandon(client)} : Step(c)

\* Slip: a list that is exhausted is not an error.
exhausted_Returns(c) == LoggedIn(c)
exhausted(c) == Abandon(c)

authenticateSASL ==
  \/ At("smtp", "SASL") /\ \E mech \in client.mechList : Step(tryMechanism(client, mech))
  \/ At("smtp", "SASL") /\ client.mechList = {} /\ Step(exhausted(client))
  \/ At("smtp", "AUTH") /\ ServerChallenges /\ mayAnswer(client.exchange) /\ Step(answered(client))
  \/ At("smtp", "AUTH") /\ ServerChallenges /\ ~hasInitialResponse(client.exchange.mech) /\ Step(cancelled(client))
  \/ At("smtp", "AUTH") /\ ServerAccepts /\ Login(LoggedIn(client))
  \/ At("smtp", "AUTH") /\ Step(Await(client, "SASL"))

\* Only startTLS and authenticate disconnect before they throw.
readResponse ==
  \/ NoReply("smtp", {"STARTTLS", "AUTH"}) /\ Step(Abandon(client))
  \/ NoReply("smtp", {"greeting", "EHLO", "HELO"}) /\ Step(Throw(client))

disconnect == At("smtp", "connected") /\ Step(Await(internalDisconnect(client), "over"))

SMTPNext == connect \/ greeted \/ heloReply \/ startTLS \/ authenticateSASL \/ readResponse \/ disconnect
=============================================================================
