------------------------- MODULE Connections_proofs -------------------------
(***************************************************************************)
(* Theorems about Connections: the safety properties of connect(), for any *)
(* mechanisms and any number of challenges.                                *)
(***************************************************************************)
EXTENDS Connections, TLAPS

(***************************************************************************)
(* The inductive invariant, of a connection object c after a login or not. *)
(* It is a predicate on c and not on the variable client, so that it can   *)
(* be followed through the calls of which an action consists.              *)
(***************************************************************************)
AnyLayer == Layers \cup {"none"}
Places == Waiting \cup {"idle", "SASL", "connected", "failed", "over"}
Exchanges == [mech : Mechanisms \cup {"none"}, answered : Nat, challenged : Nat, cancelled : BOOLEAN]
Capabilities == [fetched : BOOLEAN, mechs : SUBSET Mechanisms, layer : AnyLayer, loggedIn : BOOLEAN]
Clients ==
  [at : Places, socket : AnyLayer, reader : AnyLayer, secured : BOOLEAN, authenticated : BOOLEAN,
   extended : BOOLEAN, capabilities : Capabilities, greeting : {"plain", "id", "preauth"},
   startedTLS : BOOLEAN, mechList : SUBSET Mechanisms, offered : AnyLayer,
   exchange : Exchanges, sent : SUBSET Layers]
Settings ==
  [tls : BOOLEAN, required : BOOLEAN, dedicated : BOOLEAN, needAuth : BOOLEAN, sasl : BOOLEAN,
   saslAuthenticator : BOOLEAN, fallback : BOOLEAN, apop : BOOLEAN, apopFallback : BOOLEAN]

\* Where credentials may be sent from, or have been.
LoggingIn == {"SASL", "CAPA", "CAPABILITY", "AUTH", "APOP", "NOOP", "USER", "PASS", "LOGIN", "LIST", "connected"}
Talking == Waiting \cup {"SASL", "connected"}
TLSOnly == options.dedicated \/ (options.tls /\ options.required)

ClientInv(c) == c \in Clients /\ (~c.capabilities.fetched => c.capabilities = NoCapabilities)

\* A dialogue has a socket, the same for both directions.
SocketInv(c) ==
  /\ c.at \in Talking => c.socket # "none"
  /\ c.at \in {"idle", "over"} => c.socket = "none"
  /\ c.reader = c.socket
  /\ c.secured <=> c.socket = "tls"

\* Where TLS is a must, it is there before the login begins.  SMTP says EHLO
\* again when it has been refused, or has started.
TLSInv(c) ==
  TLSOnly =>
    /\ c.sent \subseteq {"tls"}
    /\ c.at \in LoggingIn => c.socket = "tls"
    /\ c.at \in Talking /\ options.dedicated => c.socket = "tls"
    /\ c.at \in {"greeting", "EHLO", "HELO"} /\ c.startedTLS => c.socket = "tls"

LoginInv(c, l) ==
  /\ c.authenticated => c.at \in {"connected", "CAPABILITY"}
  /\ c.at = "connected" => c.authenticated
  /\ c.authenticated => l \/ ~options.needAuth
  /\ c.at = "LIST" \/ c.greeting = "preauth" => l

\* What is cached was heard over the socket there is; with IMAP it is used
\* again, with the others as soon as it has been heard.
MechanismInv(c) ==
  /\ c.at = "AUTH" \/ (c.at = "SASL" /\ c.mechList # {}) => c.offered = c.socket
  /\ protocol = "imap" /\ c.at \in Talking /\ c.capabilities.fetched =>
       c.capabilities.layer = c.socket

\* The capabilities of before the login are forgotten by an answer, and by the
\* acceptance of LOGIN; a greeting PREAUTH has those of after it.
CapabilityInv(c) ==
  protocol = "imap" =>
    /\ c.greeting = "preauth" =>
         c.at \in {"STARTTLS", "handshake", "LIST", "connected", "CAPABILITY", "failed", "over"}
    /\ c.greeting = "preauth" /\ c.at = "CAPABILITY" => c.authenticated
    /\ c.greeting = "preauth" /\ c.capabilities.fetched => c.capabilities.loggedIn
    /\ c.at = "AUTH" /\ c.exchange.answered > 0 => ~c.capabilities.fetched
    /\ c.at \in {"greeting", "CAPABILITY"} => ~c.capabilities.fetched
    /\ c.at \in {"LIST", "connected"} /\ c.capabilities.fetched =>
         \/ c.capabilities.loggedIn
         \/ c.exchange.mech \in Immediate /\ c.exchange.answered = 0

Sound(c, l) ==
  ClientInv(c) /\ SocketInv(c) /\ TLSInv(c) /\ LoginInv(c, l) /\ MechanismInv(c) /\ CapabilityInv(c)

IInv ==
  /\ protocol \in {"smtp", "pop3", "imap"} /\ options \in Settings /\ logged \in BOOLEAN
  /\ Sound(client, logged)

-----------------------------------------------------------------------------
(***************************************************************************)
(* What the shared operators leave alone                                   *)
(***************************************************************************)
SameSocket(d, c) == d.socket = c.socket /\ d.reader = c.reader /\ d.secured = c.secured
SameOpening(d, c) == d.extended = c.extended /\ d.greeting = c.greeting /\ d.startedTLS = c.startedTLS
SameMechanisms(d, c) == d.mechList = c.mechList /\ d.offered = c.offered
Same(d, c) == SameOpening(d, c) /\ SameMechanisms(d, c)

\* Await changes where the client is and nothing else.
LEMMA AwaitFields ==
  ASSUME NEW c \in Clients, NEW a \in Places
  PROVE  /\ Await(c, a) \in Clients /\ Await(c, a).at = a
         /\ Same(Await(c, a), c) /\ SameSocket(Await(c, a), c)
         /\ Await(c, a).authenticated = c.authenticated /\ Await(c, a).sent = c.sent
         /\ Await(c, a).capabilities = c.capabilities /\ Await(c, a).exchange = c.exchange
  BY DEF Await, Clients, Same, SameSocket, SameOpening, SameMechanisms

\* An exception after internalDisconnect closes the socket and forgets the login.
LEMMA AbandonFields ==
  ASSUME NEW c \in Clients
  PROVE  /\ Abandon(c) \in Clients /\ Abandon(c).at = "failed" /\ Same(Abandon(c), c)
         /\ Abandon(c).socket = "none" /\ Abandon(c).reader = "none" /\ ~Abandon(c).secured
         /\ ~Abandon(c).authenticated /\ Abandon(c).sent = c.sent
         /\ Abandon(c).capabilities = c.capabilities /\ Abandon(c).exchange = c.exchange
  BY DEF Abandon, Throw, internalDisconnect, Await, Clients, AnyLayer, Places,
         Same, SameOpening, SameMechanisms

\* connect() returns authenticated.
LEMMA LoggedInFields ==
  ASSUME NEW c \in Clients
  PROVE  /\ LoggedIn(c) \in Clients /\ LoggedIn(c).at = "connected"
         /\ Same(LoggedIn(c), c) /\ SameSocket(LoggedIn(c), c)
         /\ LoggedIn(c).authenticated /\ LoggedIn(c).sent = c.sent
         /\ LoggedIn(c).capabilities = c.capabilities /\ LoggedIn(c).exchange = c.exchange
  BY DEF LoggedIn, Await, Clients, Places, Same, SameSocket, SameOpening, SameMechanisms

\* Sending credentials records the layer that they go over.
LEMMA CredentialsFields ==
  ASSUME NEW c \in Clients, NEW a \in Places, c.socket # "none"
  PROVE  LET d == SendCredentials(c, a) IN
         /\ d \in Clients /\ d.at = a /\ Same(d, c) /\ SameSocket(d, c)
         /\ d.authenticated = c.authenticated /\ d.sent = c.sent \cup {c.socket}
         /\ d.capabilities = c.capabilities /\ d.exchange = c.exchange
  BY DEF SendCredentials, Await, Clients, AnyLayer, Same, SameSocket, SameOpening, SameMechanisms

\* A list of capabilities is tagged with the socket it came from.
LEMMA HeardFields ==
  ASSUME NEW c \in Clients, NEW mechs \in SUBSET Mechanisms, NEW l \in BOOLEAN
  PROVE  LET d == Heard(c, mechs, l) IN
         /\ d \in Clients /\ d.at = c.at /\ Same(d, c) /\ SameSocket(d, c)
         /\ d.authenticated = c.authenticated /\ d.sent = c.sent /\ d.exchange = c.exchange
         /\ d.capabilities.fetched /\ d.capabilities.mechs = mechs
         /\ d.capabilities.layer = c.socket /\ d.capabilities.loggedIn = l
  BY DEF Heard, Clients, Capabilities, Same, SameSocket, SameOpening, SameMechanisms

\* invalidateCapabilities leaves nothing of the cache.
LEMMA ForgottenFields ==
  ASSUME NEW c \in Clients
  PROVE  LET d == invalidateCapabilities(c) IN
         /\ d \in Clients /\ d.at = c.at /\ Same(d, c) /\ SameSocket(d, c)
         /\ d.authenticated = c.authenticated /\ d.sent = c.sent /\ d.exchange = c.exchange
         /\ ~d.capabilities.fetched /\ d.capabilities = NoCapabilities
  BY DEF invalidateCapabilities, NoCapabilities, Clients, Capabilities, AnyLayer,
         Same, SameSocket, SameOpening, SameMechanisms

\* The list of mechanisms is as old as the capabilities.
LEMMA ListFields ==
  ASSUME NEW c \in Clients, NEW list \in SUBSET Mechanisms
  PROVE  LET d == ListMechanisms(c, list) IN
         /\ d \in Clients /\ d.at = "SASL" /\ SameOpening(d, c) /\ SameSocket(d, c)
         /\ d.mechList = list /\ d.offered = c.capabilities.layer
         /\ d.authenticated = c.authenticated /\ d.sent = c.sent
         /\ d.capabilities = c.capabilities /\ d.exchange = c.exchange
  BY DEF ListMechanisms, Await, Clients, Capabilities, Places, SameSocket, SameOpening

\* withExchange changes the exchange and nothing else.
LEMMA ExchangeFields ==
  ASSUME NEW c \in Clients, NEW exchange \in Exchanges
  PROVE  LET d == withExchange(c, exchange) IN
         /\ d \in Clients /\ d.at = c.at /\ Same(d, c) /\ SameSocket(d, c)
         /\ d.authenticated = c.authenticated /\ d.sent = c.sent
         /\ d.capabilities = c.capabilities /\ d.exchange = exchange
  BY DEF withExchange, Clients, Same, SameSocket, SameOpening, SameMechanisms

\* withList changes the list of mechanisms and nothing else.
LEMMA LeftFields ==
  ASSUME NEW c \in Clients, NEW list \in SUBSET Mechanisms
  PROVE  LET d == withList(c, list) IN
         /\ d \in Clients /\ d.at = c.at /\ SameOpening(d, c) /\ SameSocket(d, c)
         /\ d.offered = c.offered /\ d.authenticated = c.authenticated /\ d.sent = c.sent
         /\ d.capabilities = c.capabilities
  BY DEF withList, Clients, Same, SameSocket, SameOpening

\* Trying a mechanism starts an exchange, and sends only an initial response.
LEMMA TriedFields ==
  ASSUME NEW c \in Clients, NEW mech \in c.mechList, c.socket # "none"
  PROVE  LET d == tryMechanism(c, mech) IN
         /\ d \in Clients /\ d.at = "AUTH" /\ SameOpening(d, c) /\ SameSocket(d, c)
         /\ d.offered = c.offered /\ d.authenticated = c.authenticated
         /\ d.sent \subseteq c.sent \cup {c.socket}
         /\ d.capabilities = c.capabilities /\ d.exchange.answered = 0
<1> DEFINE e == IF hasInitialResponse(mech) THEN SendCredentials(c, "AUTH") ELSE Await(c, "AUTH")
           exchange == [NoExchange EXCEPT !.mech = mech]
           list == without(c.mechList, mech)
<1>1. /\ e \in Clients /\ e.at = "AUTH" /\ Same(e, c) /\ SameSocket(e, c)
      /\ e.authenticated = c.authenticated
      /\ e.sent \subseteq c.sent \cup {c.socket} /\ e.capabilities = c.capabilities
  BY AwaitFields, CredentialsFields DEF Places, Waiting, Commands
<1>2. tryMechanism(c, mech) = withExchange(withList(e, list), exchange)
  BY DEF tryMechanism
<1>3. exchange \in Exchanges /\ exchange.answered = 0
  BY DEF Clients, NoExchange, Exchanges
<1>4. list \in SUBSET Mechanisms
  BY DEF Clients, without
<1> HIDE DEF e, exchange, list
<1> QED
  BY <1>1, <1>2, <1>3, <1>4, ExchangeFields, LeftFields
     DEF Same, SameOpening, SameSocket, SameMechanisms

\* The fields of an exchange that a challenge changes.
Answering(e, answers, challenges) == [e EXCEPT !.answered = answers, !.challenged = challenges]
Cancelling(e, cancels, challenges) == [e EXCEPT !.cancelled = cancels, !.challenged = challenges]

\* An exchange stays one when its fields are set.
LEMMA ChallengeFields ==
  ASSUME NEW e \in Exchanges, NEW answers \in Nat, NEW cancels \in BOOLEAN, NEW challenges \in Nat
  PROVE  /\ Answering(e, answers, challenges) \in Exchanges
         /\ Answering(e, answers, challenges).answered = answers
         /\ Cancelling(e, cancels, challenges) \in Exchanges
         /\ Cancelling(e, cancels, challenges).answered = e.answered
  BY DEF Answering, Cancelling, Exchanges

\* An answer sends credentials and counts.
LEMMA AnsweredFields ==
  ASSUME NEW c \in Clients, c.socket # "none"
  PROVE  LET d == answered(c) IN
         /\ d \in Clients /\ d.at = "AUTH" /\ Same(d, c) /\ SameSocket(d, c)
         /\ d.authenticated = c.authenticated /\ d.sent = c.sent \cup {c.socket}
         /\ d.capabilities = c.capabilities /\ d.exchange.answered > 0
<1> DEFINE exchange == [c.exchange EXCEPT !.answered = @ + 1, !.challenged = @ + 1]
<1>1. answered(c) = withExchange(SendCredentials(c, "AUTH"), exchange)
  BY DEF answered
<1>2. exchange \in Exchanges /\ exchange.answered > 0
  <2>1. c.exchange \in Exchanges
    BY DEF Clients
  <2>2. /\ c.exchange.answered + 1 \in Nat /\ c.exchange.challenged + 1 \in Nat
        /\ c.exchange.answered + 1 > 0
    BY <2>1 DEF Exchanges
  <2>3. exchange = Answering(c.exchange, c.exchange.answered + 1, c.exchange.challenged + 1)
    BY DEF Answering
  <2> QED
    <3> HIDE DEF exchange
    <3> QED
      BY <2>1, <2>2, <2>3, ChallengeFields
<1> HIDE DEF exchange
<1> QED
  BY <1>1, <1>2, CredentialsFields, ExchangeFields
     DEF Same, SameMechanisms, SameOpening, SameSocket, Places, Waiting, Commands

\* A cancellation sends none.
LEMMA CancelledFields ==
  ASSUME NEW c \in Clients
  PROVE  LET d == cancelled(c) IN
         /\ d \in Clients /\ d.at = c.at /\ Same(d, c) /\ SameSocket(d, c)
         /\ d.authenticated = c.authenticated /\ d.sent = c.sent
         /\ d.capabilities = c.capabilities /\ d.exchange.answered = c.exchange.answered
<1> DEFINE exchange == [c.exchange EXCEPT !.cancelled = TRUE, !.challenged = @ + 1]
<1>1. exchange \in Exchanges /\ exchange.answered = c.exchange.answered
  <2>1. c.exchange \in Exchanges
    BY DEF Clients
  <2>2. c.exchange.challenged + 1 \in Nat
    BY <2>1 DEF Exchanges
  <2>3. exchange = Cancelling(c.exchange, TRUE, c.exchange.challenged + 1)
    BY DEF Cancelling
  <2> QED
    <3> HIDE DEF exchange
    <3> QED
      BY <2>1, <2>2, <2>3, ChallengeFields
<1> HIDE DEF exchange
<1> QED
  BY <1>1, ExchangeFields DEF cancelled, exchange

\* A list that may be tried is one of known mechanisms that were announced.
LEMMA AcceptableType ==
  ASSUME NEW mechs \in SUBSET Mechanisms, NEW list \in acceptable(mechs)
  PROVE  list \in SUBSET Mechanisms /\ (list # {} => mechs # {})
  BY DEF acceptable, known, Mechanisms

-----------------------------------------------------------------------------
(***************************************************************************)
(* Steps that the protocols share                                          *)
(***************************************************************************)
\* What is sound after a step is so in the next state.
LEMMA StepInv ==
  ASSUME IInv, NEW d, Sound(d, logged), Step(d)
  PROVE  IInv'
<1>1. client' = d /\ logged' = logged /\ protocol' = protocol /\ options' = options
  BY DEF Step
<1> QED
  BY <1>1 DEF IInv, Sound, ClientInv, SocketInv, TLSInv, TLSOnly, LoginInv, MechanismInv, CapabilityInv

\* The same where the server accepts the login.
LEMMA LoginStepInv ==
  ASSUME IInv, NEW d, Sound(d, TRUE), Login(d)
  PROVE  IInv'
<1>1. client' = d /\ logged' = TRUE /\ protocol' = protocol /\ options' = options
  BY DEF Login
<1> QED
  BY <1>1 DEF IInv, Sound, ClientInv, SocketInv, TLSInv, TLSOnly, LoginInv, MechanismInv, CapabilityInv

\* Disconnecting and throwing is sound anywhere.
LEMMA AbandonSound ==
  ASSUME NEW c, NEW l, Sound(c, l)
  PROVE  Sound(Abandon(c), l)
  BY AbandonFields
     DEF Sound, ClientInv, SocketInv, TLSInv, LoginInv, MechanismInv, CapabilityInv,
         Same, SameOpening, SameMechanisms, Talking, Waiting, Commands, LoggingIn

\* Throwing with the socket left open is sound before the login.
LEMMA ThrowSound ==
  ASSUME NEW c, NEW l, Sound(c, l), ~c.authenticated
  PROVE  Sound(Throw(c), l)
<1>1. "failed" \in Places
  BY DEF Places
<1> QED
  BY <1>1, AwaitFields
     DEF Throw, Sound, ClientInv, SocketInv, TLSInv, LoginInv, MechanismInv, CapabilityInv,
         Same, SameSocket, SameOpening, SameMechanisms, Talking, Waiting, Commands, LoggingIn

\* disconnect of a connected client.
LEMMA OverSound ==
  ASSUME NEW c, NEW l, Sound(c, l)
  PROVE  Sound(Await(internalDisconnect(c), "over"), l)
<1>1. /\ internalDisconnect(c) \in Clients /\ Same(internalDisconnect(c), c)
      /\ internalDisconnect(c).socket = "none" /\ internalDisconnect(c).reader = "none"
      /\ ~internalDisconnect(c).secured /\ ~internalDisconnect(c).authenticated
      /\ internalDisconnect(c).sent = c.sent
      /\ internalDisconnect(c).capabilities = c.capabilities
  BY DEF Sound, ClientInv, internalDisconnect, Clients, AnyLayer, Same, SameOpening, SameMechanisms
<1>2. "over" \in Places
  BY DEF Places
<1> QED
  BY <1>1, <1>2, AwaitFields
     DEF Sound, ClientInv, SocketInv, TLSInv, LoginInv, MechanismInv, CapabilityInv,
         Same, SameSocket, SameOpening, SameMechanisms, Talking, Waiting, Commands, LoggingIn

-----------------------------------------------------------------------------
(***************************************************************************)
(* A client that is about to log in, wherever it comes from: over TLS if   *)
(* that is a must, with capabilities of this socket or none.               *)
(***************************************************************************)
Ready(c, l) ==
  /\ ClientInv(c)
  /\ c.socket # "none" /\ c.reader = c.socket /\ (c.secured <=> c.socket = "tls")
  /\ TLSOnly => c.sent \subseteq {"tls"} /\ c.socket = "tls"
  /\ ~c.authenticated
  /\ c.greeting = "preauth" => l
  /\ protocol = "imap" /\ c.capabilities.fetched => c.capabilities.layer = c.socket
  /\ protocol = "imap" /\ c.greeting = "preauth" /\ c.capabilities.fetched => c.capabilities.loggedIn

\* A client in the middle of the login is ready for the next way to log in.
LEMMA ReadyLoggingIn ==
  ASSUME NEW c, NEW l, Sound(c, l), c.at \in LoggingIn, ~c.authenticated
  PROVE  Ready(c, l)
  BY DEF Ready, Sound, ClientInv, SocketInv, TLSInv, LoginInv, MechanismInv, CapabilityInv,
         LoggingIn, Talking, Waiting, Commands

\* Without STARTTLS to be tried, or after its refusal was accepted.
LEMMA ReadyBefore ==
  ASSUME NEW c, NEW l, options \in Settings, Sound(c, l),
         \/ c.at \in {"greeting", "EHLO", "HELO"} /\ ~wantsTLS(c)
         \/ c.at \in {"STARTTLS", "STLS"} /\ ~options.required
  PROVE  Ready(c, l)
  BY DEF Ready, wantsTLS, TLSOnly, Settings, Sound, ClientInv, Clients, SocketInv, TLSInv, LoginInv, MechanismInv,
         CapabilityInv, Talking, Waiting, Commands

\* It may send credentials.
LEMMA ReadySend ==
  ASSUME NEW c, NEW l, Ready(c, l), NEW a \in {"APOP", "PASS", "LOGIN"},
         protocol = "imap" => c.greeting # "preauth"
  PROVE  Sound(SendCredentials(c, a), l)
<1>1. a \in Places
  BY DEF Places, Waiting, Commands
<1> QED
  BY <1>1, CredentialsFields
     DEF Ready, Sound, ClientInv, SocketInv, TLSInv, LoginInv, MechanismInv, CapabilityInv,
         Same, SameSocket, SameOpening, SameMechanisms

\* It may send a command that shows none.
LEMMA ReadyAwait ==
  ASSUME NEW c, NEW l, Ready(c, l), NEW a \in {"USER", "CAPA", "CAPABILITY", "LIST", "NOOP"},
         protocol = "imap" =>
           \/ c.greeting # "preauth" /\ ~c.capabilities.fetched /\ a # "LIST"
           \/ c.greeting = "preauth" /\ a = "LIST",
         a = "LIST" => l
  PROVE  Sound(Await(c, a), l)
<1>1. a \in Places
  BY DEF Places, Waiting, Commands
<1> QED
  BY <1>1, AwaitFields
     DEF Ready, Sound, ClientInv, SocketInv, TLSInv, LoginInv, MechanismInv, CapabilityInv,
         Same, SameSocket, SameOpening, SameMechanisms

\* It may set up the list of mechanisms.
LEMMA ReadyList ==
  ASSUME NEW c, NEW l, Ready(c, l), protocol = "imap" => c.greeting # "preauth",
         c.capabilities.fetched => c.capabilities.layer = c.socket,
         NEW list \in acceptable(c.capabilities.mechs)
  PROVE  Sound(ListMechanisms(c, list), l)
<1>1. c.capabilities.mechs \in SUBSET Mechanisms /\ c \in Clients
  BY DEF Ready, ClientInv, Clients, Capabilities
<1>2. list \in SUBSET Mechanisms /\ (list # {} => c.capabilities.fetched)
  BY <1>1, AcceptableType DEF Ready, ClientInv, NoCapabilities
<1> QED
  BY <1>1, <1>2, ListFields
     DEF Ready, Sound, ClientInv, SocketInv, TLSInv, LoginInv, MechanismInv, CapabilityInv,
         SameSocket, SameOpening

\* It may be connected, when the server has accepted it or need not.
LEMMA ReadyLoggedIn ==
  ASSUME NEW c, NEW l, Ready(c, l), l \/ ~options.needAuth,
         protocol = "imap" => Sound(c, l) /\ c.at = "LIST"
  PROVE  Sound(LoggedIn(c), l)
  BY LoggedInFields
     DEF Ready, Sound, ClientInv, SocketInv, TLSInv, LoginInv, MechanismInv, CapabilityInv,
         Same, SameSocket, SameOpening, SameMechanisms

\* The SASL exchange.
LEMMA TrySound ==
  ASSUME NEW c, NEW l, Sound(c, l), c.at = "SASL", NEW mech \in c.mechList
  PROVE  Sound(tryMechanism(c, mech), l)
<1>1. c \in Clients /\ c.socket # "none" /\ c.mechList # {}
  BY DEF Sound, ClientInv, SocketInv, Talking
<1> QED
  BY <1>1, TriedFields
     DEF Sound, ClientInv, SocketInv, TLSInv, LoginInv, MechanismInv, CapabilityInv,
         SameSocket, SameOpening, LoggingIn, Talking, Waiting, Commands

\* Answering a challenge is sound; IMAP forgets the capabilities with it.
LEMMA AnswerSound ==
  ASSUME NEW c, NEW l, Sound(c, l), c.at = "AUTH"
  PROVE  /\ protocol # "imap" => Sound(answered(c), l)
         /\ Sound(invalidateCapabilities(answered(c)), l)
<1>1. c \in Clients /\ c.socket # "none"
  BY DEF Sound, ClientInv, SocketInv, Talking, Waiting, Commands
<1>2. protocol # "imap" => Sound(answered(c), l)
  BY <1>1, AnsweredFields
     DEF Sound, ClientInv, SocketInv, TLSInv, LoginInv, MechanismInv, CapabilityInv,
         Same, SameMechanisms, SameSocket, SameOpening, LoggingIn, Talking, Waiting, Commands
<1>3. Sound(invalidateCapabilities(answered(c)), l)
  BY <1>1, AnsweredFields, ForgottenFields
     DEF Sound, ClientInv, SocketInv, TLSInv, LoginInv, MechanismInv, CapabilityInv,
         Same, SameMechanisms, SameSocket, SameOpening, LoggingIn, Talking, Waiting, Commands
<1> QED
  BY <1>2, <1>3

\* So is cancelling,
LEMMA CancelSound ==
  ASSUME NEW c, NEW l, Sound(c, l), c.at = "AUTH"
  PROVE  Sound(cancelled(c), l)
  BY CancelledFields
     DEF Sound, ClientInv, SocketInv, TLSInv, LoginInv, MechanismInv, CapabilityInv,
         Same, SameMechanisms, SameSocket, SameOpening

\* and so is going on to the next mechanism after a refusal.
LEMMA NextSound ==
  ASSUME NEW c, NEW l, Sound(c, l), c.at = "AUTH"
  PROVE  Sound(Await(c, "SASL"), l)
<1>1. "SASL" \in Places
  BY DEF Places
<1> QED
  BY <1>1, AwaitFields
     DEF Sound, ClientInv, SocketInv, TLSInv, LoginInv, MechanismInv, CapabilityInv,
         Same, SameMechanisms, SameSocket, SameOpening, LoggingIn, Talking, Waiting, Commands

-----------------------------------------------------------------------------
(***************************************************************************)
(* Before the login: the greeting, STARTTLS and the handshake              *)
(***************************************************************************)
Greets(c, kind) == [c EXCEPT !.greeting = kind]
Extends(c, extends) == [c EXCEPT !.extended = extends]
Asks(c, command) == [Await(c, command) EXCEPT !.startedTLS = TRUE]
OverTLS(c) == [c EXCEPT !.socket = "tls", !.reader = "tls", !.secured = TRUE]

\* The greeting changes no other field.
LEMMA GreetsFields ==
  ASSUME NEW c \in Clients, NEW kind \in {"plain", "id", "preauth"}
  PROVE  LET d == Greets(c, kind) IN
         /\ d \in Clients /\ d.at = c.at /\ d.greeting = kind
         /\ d.startedTLS = c.startedTLS /\ SameMechanisms(d, c) /\ SameSocket(d, c)
         /\ d.authenticated = c.authenticated /\ d.sent = c.sent
         /\ d.capabilities = c.capabilities /\ d.exchange = c.exchange
  BY DEF Greets, Clients, SameMechanisms, SameSocket

\* Neither does the flag for extended SMTP.
LEMMA ExtendsFields ==
  ASSUME NEW c \in Clients, NEW extends \in BOOLEAN
  PROVE  LET d == Extends(c, extends) IN
         /\ d \in Clients /\ d.at = c.at /\ d.greeting = c.greeting
         /\ d.startedTLS = c.startedTLS /\ SameMechanisms(d, c) /\ SameSocket(d, c)
         /\ d.authenticated = c.authenticated /\ d.sent = c.sent
         /\ d.capabilities = c.capabilities /\ d.exchange = c.exchange
  BY DEF Extends, Clients, SameMechanisms, SameSocket

\* Asking for TLS records that it was asked for.
LEMMA AsksFields ==
  ASSUME NEW c \in Clients, NEW a \in Places
  PROVE  LET d == Asks(c, a) IN
         /\ d \in Clients /\ d.at = a /\ d.greeting = c.greeting
         /\ d.startedTLS /\ SameMechanisms(d, c) /\ SameSocket(d, c)
         /\ d.authenticated = c.authenticated /\ d.sent = c.sent
         /\ d.capabilities = c.capabilities /\ d.exchange = c.exchange
  BY DEF Asks, Await, Clients, SameMechanisms, SameSocket

\* The handshake replaces the socket of both directions.
LEMMA OverTLSFields ==
  ASSUME NEW c \in Clients
  PROVE  LET d == OverTLS(c) IN
         /\ d \in Clients /\ d.at = c.at /\ Same(d, c)
         /\ d.socket = "tls" /\ d.reader = "tls" /\ d.secured
         /\ d.authenticated = c.authenticated /\ d.sent = c.sent
         /\ d.capabilities = c.capabilities /\ d.exchange = c.exchange
  BY DEF OverTLS, Clients, AnyLayer, Layers, Same, SameOpening, SameMechanisms

\* A new connection, in clear text or on a port for TLS.
LEMMA OpenSocketSound ==
  ASSUME options \in Settings, NEW l
  PROVE  Sound(OpenSocket, l)
<1> DEFINE layer == IF options.dedicated THEN "tls" ELSE "clear"
<1>1. NoCapabilities \in Capabilities /\ NoExchange \in Exchanges /\ ~NoCapabilities.fetched
  BY DEF NoCapabilities, NoExchange, Capabilities, Exchanges, AnyLayer
<1>2. layer \in Layers /\ (options.dedicated => layer = "tls")
  BY DEF Layers
<1> HIDE DEF layer
<1>3. /\ Socket(layer) \in Clients /\ Socket(layer).at = "greeting"
      /\ Socket(layer).socket = layer /\ Socket(layer).reader = layer
      /\ Socket(layer).secured = (layer = "tls") /\ ~Socket(layer).authenticated
      /\ Socket(layer).capabilities = NoCapabilities /\ Socket(layer).greeting = "plain"
      /\ ~Socket(layer).startedTLS /\ Socket(layer).sent = {}
  BY <1>1, <1>2 DEF Socket, Unconnected, Clients, Places, Waiting, AnyLayer
<1>4. OpenSocket = Socket(layer)
  BY DEF OpenSocket, layer
<1> QED
  BY <1>1, <1>2, <1>3, <1>4
     DEF Sound, ClientInv, SocketInv, TLSInv, LoginInv, MechanismInv, CapabilityInv, Layers, LoggingIn

\* A client that has been greeted and does not yet know how to go on.
Opening(c, l) ==
  /\ ClientInv(c) /\ SocketInv(c) /\ TLSInv(c)
  /\ c.at \in {"greeting", "EHLO", "HELO"} /\ ~c.authenticated
  /\ c.greeting = "preauth" => l
  /\ protocol = "imap" /\ c.capabilities.fetched => c.capabilities.layer = c.socket
  /\ protocol = "imap" /\ c.greeting = "preauth" /\ c.capabilities.fetched => c.capabilities.loggedIn

\* Before the login, a sound client is one of these.
LEMMA OpeningSound ==
  ASSUME NEW c, NEW l, Sound(c, l), c.at \in {"greeting", "EHLO", "HELO"}
  PROVE  /\ Opening(c, l) /\ (protocol = "imap" => c.greeting # "preauth")
         /\ protocol = "imap" /\ c.at = "greeting" => ~c.capabilities.fetched
  BY DEF Opening, Sound, LoginInv, MechanismInv, CapabilityInv, Talking, Waiting, Commands

\* It stays one when it hears of capabilities,
LEMMA OpeningHeard ==
  ASSUME NEW c, NEW l, Opening(c, l), NEW mechs \in SUBSET Mechanisms, NEW b \in BOOLEAN,
         protocol = "imap" /\ c.greeting = "preauth" => b
  PROVE  Opening(Heard(c, mechs, b), l)
  BY HeardFields
     DEF Opening, ClientInv, SocketInv, TLSInv, Same, SameOpening, SameSocket

\* when it learns whether the server speaks extended SMTP,
LEMMA OpeningExtends ==
  ASSUME NEW c, NEW l, Opening(c, l), NEW extends \in BOOLEAN
  PROVE  Opening(Extends(c, extends), l)
  BY ExtendsFields DEF Opening, ClientInv, SocketInv, TLSInv, SameSocket

\* and when it is greeted.
LEMMA OpeningGreets ==
  ASSUME NEW c, NEW l, NEW m, Opening(c, l), NEW kind \in {"plain", "id", "preauth"}, l => m,
         kind = "preauth" => m /\ (c.capabilities.fetched => c.capabilities.loggedIn)
  PROVE  Opening(Greets(c, kind), m)
  BY GreetsFields DEF Opening, ClientInv, SocketInv, TLSInv, SameSocket

\* It may ask for TLS.
LEMMA AsksSound ==
  ASSUME NEW c, NEW l, Opening(c, l), wantsTLS(c), options \in Settings, NEW a \in {"STARTTLS", "STLS"},
         protocol = "imap" => a = "STARTTLS"
  PROVE  Sound(Asks(c, a), l)
<1>1. a \in Places
  BY DEF Places, Waiting, Commands
<1> QED
  BY <1>1, AsksFields
     DEF Opening, Sound, ClientInv, SocketInv, TLSInv, LoginInv, MechanismInv, CapabilityInv,
         SameMechanisms, SameSocket, wantsTLS, Settings, LoggingIn, Talking, Waiting, Commands

\* SMTP: EHLO after the greeting, after a refusal and after the handshake;
\* HELO after EHLO.
LEMMA HeloSound ==
  ASSUME NEW c, NEW l, Sound(c, l), protocol # "imap", NEW a \in {"EHLO", "HELO"},
         \/ c.at \in {"greeting", "EHLO"}
         \/ c.at = "STARTTLS" /\ ~options.required
  PROVE  Sound(Await(c, a), l)
<1>1. a \in Places
  BY DEF Places, Waiting, Commands
<1> QED
  BY <1>1, AwaitFields
     DEF Sound, ClientInv, SocketInv, TLSInv, LoginInv, MechanismInv, CapabilityInv, TLSOnly,
         Same, SameOpening, SameMechanisms, SameSocket, LoggingIn, Talking, Waiting, Commands

\* The handshake begins.
LEMMA HandshakeSound ==
  ASSUME NEW c, NEW l, Sound(c, l), c.at \in {"STARTTLS", "STLS"}
  PROVE  Sound(Await(c, "handshake"), l)
<1>1. "handshake" \in Places
  BY DEF Places, Waiting
<1> QED
  BY <1>1, AwaitFields
     DEF Sound, ClientInv, SocketInv, TLSInv, LoginInv, MechanismInv, CapabilityInv,
         Same, SameOpening, SameMechanisms, SameSocket, LoggingIn, Talking, Waiting, Commands

\* After the handshake SMTP greets again, the others log in with an empty cache.
LEMMA SecuredSound ==
  ASSUME NEW c, NEW l, Sound(c, l), c.at = "handshake"
  PROVE  /\ protocol # "imap" => Sound(Await(OverTLS(c), "EHLO"), l)
         /\ Ready(invalidateCapabilities(OverTLS(c)), l)
<1>1. "EHLO" \in Places /\ c \in Clients
  BY DEF Places, Waiting, Commands, Sound, ClientInv
<1>2. protocol # "imap" => Sound(Await(OverTLS(c), "EHLO"), l)
  BY <1>1, OverTLSFields, AwaitFields
     DEF Sound, ClientInv, SocketInv, TLSInv, LoginInv, MechanismInv, CapabilityInv,
         Same, SameOpening, SameMechanisms, SameSocket, LoggingIn, Talking, Waiting, Commands
<1>3. Ready(invalidateCapabilities(OverTLS(c)), l)
  BY <1>1, OverTLSFields, ForgottenFields
     DEF Ready, Sound, ClientInv, SocketInv, TLSInv, LoginInv, Same, SameOpening, SameMechanisms, SameSocket
<1> QED
  BY <1>2, <1>3

\* A client that is ready to log in may also give up.
LEMMA ReadyGivesUp ==
  ASSUME NEW c, NEW l, Ready(c, l)
  PROVE  Sound(Throw(c), l) /\ Sound(Abandon(c), l)
<1>1. "failed" \in Places
  BY DEF Places
<1>2. Sound(Throw(c), l)
  BY <1>1, AwaitFields
     DEF Throw, Ready, Sound, ClientInv, SocketInv, TLSInv, LoginInv, MechanismInv, CapabilityInv,
         Same, SameSocket, SameOpening, SameMechanisms, Talking, Waiting, Commands, LoggingIn
<1>3. Sound(Abandon(c), l)
  BY AbandonFields
     DEF Ready, Sound, ClientInv, SocketInv, TLSInv, LoginInv, MechanismInv, CapabilityInv,
         Same, SameOpening, SameMechanisms, Talking, Waiting, Commands, LoggingIn
<1> QED
  BY <1>2, <1>3

\* It is ready when it is greeted and TLS is not to be asked for.
LEMMA ReadyOpening ==
  ASSUME NEW c, NEW l, Opening(c, l), ~wantsTLS(c), options \in Settings
  PROVE  Ready(c, l)
  BY DEF Ready, Opening, wantsTLS, TLSOnly, Settings, ClientInv, Clients, SocketInv, TLSInv,
         Talking, Waiting, Commands

\* It stays ready when the server accepts it.
LEMMA ReadyLogin ==
  ASSUME NEW c, NEW l, Ready(c, l)
  PROVE  Ready(c, TRUE)
  BY DEF Ready

\* It stays ready when it hears of capabilities of before the login.
LEMMA ReadyHeard ==
  ASSUME NEW c, NEW l, Ready(c, l), protocol = "imap" => c.greeting # "preauth",
         NEW mechs \in SUBSET Mechanisms
  PROVE  LET d == Heard(c, mechs, FALSE) IN
         /\ Ready(d, l) /\ d.greeting = c.greeting
         /\ d.capabilities.mechs = mechs /\ d.capabilities.layer = d.socket
<1>1. c \in Clients /\ FALSE \in BOOLEAN
  BY DEF Ready, ClientInv
<1>2. \A b \in BOOLEAN : LET d == Heard(c, mechs, b) IN
         /\ Ready(d, l) /\ d.greeting = c.greeting
         /\ d.capabilities.mechs = mechs /\ d.capabilities.layer = d.socket
  BY <1>1, HeardFields DEF Ready, ClientInv, Same, SameOpening, SameSocket
<1> QED
  BY <1>1, <1>2

\* IMAP: around the login and the capabilities.
\* After capabilities of a server that has accepted the login.
LEMMA HeardSound ==
  ASSUME NEW c, NEW l, Sound(c, l), protocol = "imap", NEW d \in Clients,
         Same(d, c), SameSocket(d, c), d.at = c.at, d.authenticated = c.authenticated, d.sent = c.sent,
         d.capabilities.fetched, d.capabilities.layer = c.socket, d.capabilities.loggedIn
  PROVE  /\ c.at = "LOGIN" => Sound(Await(d, "LIST"), TRUE)
         /\ c.at = "CAPABILITY" /\ c.authenticated => Sound(Await(d, "connected"), l)
<1>1. "LIST" \in Places /\ "connected" \in Places
  BY DEF Places, Waiting, Commands
<1>2. ASSUME c.at = "LOGIN"
      PROVE  Sound(Await(d, "LIST"), TRUE)
  BY <1>1, <1>2, AwaitFields
     DEF Sound, ClientInv, SocketInv, TLSInv, LoginInv, MechanismInv, CapabilityInv,
         Same, SameOpening, SameMechanisms, SameSocket, LoggingIn, Talking, Waiting, Commands
<1>3. ASSUME c.at = "CAPABILITY", c.authenticated
      PROVE  Sound(Await(d, "connected"), l)
  <2> DEFINE e == Await(d, "connected")
  <2>1. /\ e \in Clients /\ e.at = "connected" /\ Same(e, c) /\ SameSocket(e, c)
        /\ e.authenticated = c.authenticated /\ e.sent = c.sent /\ e.capabilities = d.capabilities
    BY <1>1, AwaitFields DEF Same, SameOpening, SameMechanisms, SameSocket
  <2> HIDE DEF e
  <2>2. SocketInv(e) /\ LoginInv(e, l)
    BY <1>3, <2>1 DEF Sound, SocketInv, LoginInv, Same, SameOpening, SameSocket, Talking, Waiting, Commands
  <2>3. ClientInv(e) /\ TLSInv(e)
    BY <1>3, <2>1 DEF Sound, ClientInv, TLSInv, Same, SameOpening, SameSocket, LoggingIn, Talking, Waiting, Commands
  <2>4. MechanismInv(e) /\ CapabilityInv(e)
    BY <1>3, <2>1 DEF MechanismInv, CapabilityInv, SameSocket
  <2> QED
    BY <2>2, <2>3, <2>4 DEF Sound, e
<1> QED
  BY <1>2, <1>3

\* Capabilities that come with the acceptance of a login.
LEMMA HeardLoggedIn ==
  ASSUME NEW c \in Clients, NEW mechs \in SUBSET Mechanisms
  PROVE  LET d == Heard(c, mechs, TRUE) IN
         /\ d \in Clients /\ d.at = c.at /\ Same(d, c) /\ SameSocket(d, c)
         /\ d.authenticated = c.authenticated /\ d.sent = c.sent
         /\ d.capabilities.fetched /\ d.capabilities.layer = c.socket /\ d.capabilities.loggedIn
<1>1. TRUE \in BOOLEAN
  OBVIOUS
<1>2. \A l \in BOOLEAN : LET d == Heard(c, mechs, l) IN
         /\ d \in Clients /\ d.at = c.at /\ Same(d, c) /\ SameSocket(d, c)
         /\ d.authenticated = c.authenticated /\ d.sent = c.sent
         /\ d.capabilities.fetched /\ d.capabilities.layer = c.socket /\ d.capabilities.loggedIn = l
  BY HeardFields
<1> QED
  BY <1>1, <1>2

\* The acceptance of a mechanism, answered or with an initial response.
LEMMA AcceptedSound ==
  ASSUME NEW c, NEW l, Sound(c, l), c.at = "AUTH", protocol = "imap",
         c.exchange.answered > 0 \/ c.exchange.mech \in Immediate
  PROVE  Sound(Await(c, "LIST"), TRUE)
<1>1. "LIST" \in Places
  BY DEF Places, Waiting, Commands
<1>2. c.exchange.answered \in Nat
  BY DEF Sound, ClientInv, Clients, Exchanges
<1> QED
  BY <1>1, <1>2, AwaitFields
     DEF Sound, ClientInv, SocketInv, TLSInv, LoginInv, MechanismInv, CapabilityInv,
         Same, SameOpening, SameMechanisms, SameSocket, LoggingIn, Talking, Waiting, Commands

\* The acceptance of LOGIN, without and with new capabilities.
LEMMA LoginRepliedSound ==
  ASSUME NEW c, NEW l, Sound(c, l), c.at = "LOGIN", protocol = "imap",
         NEW mechs \in SUBSET Mechanisms
  PROVE  /\ Sound(Await(invalidateCapabilities(c), "LIST"), TRUE)
         /\ Sound(Await(Heard(c, mechs, TRUE), "LIST"), TRUE)
<1>1. "LIST" \in Places /\ c \in Clients
  BY DEF Places, Waiting, Commands, Sound, ClientInv
<1>2. Sound(Await(invalidateCapabilities(c), "LIST"), TRUE)
  BY <1>1, AwaitFields, ForgottenFields
     DEF Sound, ClientInv, SocketInv, TLSInv, LoginInv, MechanismInv, CapabilityInv,
         Same, SameOpening, SameMechanisms, SameSocket, LoggingIn, Talking, Waiting, Commands
<1>3. Sound(Await(Heard(c, mechs, TRUE), "LIST"), TRUE)
  BY <1>1, HeardLoggedIn, HeardSound DEF Sound
<1> QED
  BY <1>2, <1>3

\* A connected client asks for the capabilities again, and is answered or not.
LEMMA AskedAgainSound ==
  ASSUME NEW c, NEW l, Sound(c, l), protocol = "imap", c.authenticated,
         NEW mechs \in SUBSET Mechanisms
  PROVE  /\ c.at = "connected" /\ ~c.capabilities.fetched => Sound(Await(c, "CAPABILITY"), l)
         /\ c.at = "CAPABILITY" => Sound(Await(c, "connected"), l)
         /\ c.at = "CAPABILITY" => Sound(Await(Heard(c, mechs, TRUE), "connected"), l)
<1>1. "CAPABILITY" \in Places /\ "connected" \in Places /\ c \in Clients
  BY DEF Places, Waiting, Commands, Sound, ClientInv
<1>2. ASSUME c.at = "connected", ~c.capabilities.fetched
      PROVE  Sound(Await(c, "CAPABILITY"), l)
  BY <1>1, <1>2, AwaitFields
     DEF Sound, ClientInv, SocketInv, TLSInv, LoginInv, MechanismInv, CapabilityInv,
         Same, SameOpening, SameMechanisms, SameSocket, LoggingIn, Talking, Waiting, Commands
<1>3. ASSUME c.at = "CAPABILITY"
      PROVE  Sound(Await(c, "connected"), l)
  BY <1>1, <1>3, AwaitFields
     DEF Sound, ClientInv, SocketInv, TLSInv, LoginInv, MechanismInv, CapabilityInv,
         Same, SameOpening, SameMechanisms, SameSocket, LoggingIn, Talking, Waiting, Commands
<1>4. ASSUME c.at = "CAPABILITY"
      PROVE  Sound(Await(Heard(c, mechs, TRUE), "connected"), l)
  BY <1>1, <1>4, HeardLoggedIn, HeardSound DEF Sound
<1> QED
  BY <1>2, <1>3, <1>4

-----------------------------------------------------------------------------
(***************************************************************************)
(* The three instances speak of the shared operators under names of their  *)
(* own, which mean the same.                                               *)
(***************************************************************************)
LEMMA SMTPShared ==
  /\ \A c, a : SMTP!Await(c, a) = Await(c, a)
  /\ \A c, a : SMTP!SendCredentials(c, a) = SendCredentials(c, a)
  /\ \A c : SMTP!internalDisconnect(c) = internalDisconnect(c)
  /\ \A c : SMTP!Throw(c) = Throw(c)
  /\ \A c : SMTP!Abandon(c) = Abandon(c)
  /\ \A c : SMTP!LoggedIn(c) = LoggedIn(c)
  /\ \A c, m, l : SMTP!Heard(c, m, l) = Heard(c, m, l)
  /\ \A c : SMTP!invalidateCapabilities(c) = invalidateCapabilities(c)
  /\ \A c : SMTP!wantsTLS(c) = wantsTLS(c)
  /\ \A m : SMTP!acceptable(m) = acceptable(m)
  /\ \A c, m : SMTP!ListMechanisms(c, m) = ListMechanisms(c, m)
  /\ \A c, m : SMTP!tryMechanism(c, m) = tryMechanism(c, m)
  /\ \A c : SMTP!answered(c) = answered(c)
  /\ \A c : SMTP!cancelled(c) = cancelled(c)
  /\ \A m : SMTP!hasInitialResponse(m) = hasInitialResponse(m)
  /\ SMTP!OpenSocket = OpenSocket /\ SMTP!Mechanisms = Mechanisms
  BY DEF SMTP!Await, SMTP!SendCredentials, SMTP!internalDisconnect,
         SMTP!Throw, SMTP!Abandon, SMTP!LoggedIn, SMTP!Heard,
         SMTP!invalidateCapabilities, SMTP!wantsTLS, SMTP!acceptable,
         SMTP!ListMechanisms, SMTP!tryMechanism, SMTP!answered,
         SMTP!cancelled, SMTP!hasInitialResponse, SMTP!OpenSocket,
         SMTP!Mechanisms, SMTP!Socket, SMTP!Unconnected,
         SMTP!NoCapabilities, SMTP!NoExchange, SMTP!without, SMTP!withList,
         SMTP!withExchange, SMTP!known, Await, SendCredentials,
         internalDisconnect, Throw, Abandon, LoggedIn, Heard,
         invalidateCapabilities, wantsTLS, acceptable, ListMechanisms,
         tryMechanism, answered, cancelled, hasInitialResponse, OpenSocket,
         Mechanisms, Socket, Unconnected, NoCapabilities, NoExchange,
         without, withList, withExchange, known

\* The same for POP3.
LEMMA POP3Shared ==
  /\ \A c, a : POP3!Await(c, a) = Await(c, a)
  /\ \A c, a : POP3!SendCredentials(c, a) = SendCredentials(c, a)
  /\ \A c : POP3!internalDisconnect(c) = internalDisconnect(c)
  /\ \A c : POP3!Throw(c) = Throw(c)
  /\ \A c : POP3!Abandon(c) = Abandon(c)
  /\ \A c : POP3!LoggedIn(c) = LoggedIn(c)
  /\ \A c, m, l : POP3!Heard(c, m, l) = Heard(c, m, l)
  /\ \A c : POP3!invalidateCapabilities(c) = invalidateCapabilities(c)
  /\ \A c : POP3!wantsTLS(c) = wantsTLS(c)
  /\ \A m : POP3!acceptable(m) = acceptable(m)
  /\ \A c, m : POP3!ListMechanisms(c, m) = ListMechanisms(c, m)
  /\ \A c, m : POP3!tryMechanism(c, m) = tryMechanism(c, m)
  /\ \A c : POP3!answered(c) = answered(c)
  /\ \A c : POP3!cancelled(c) = cancelled(c)
  /\ \A m : POP3!hasInitialResponse(m) = hasInitialResponse(m)
  /\ POP3!OpenSocket = OpenSocket /\ POP3!Mechanisms = Mechanisms
  BY DEF POP3!Await, POP3!SendCredentials, POP3!internalDisconnect,
         POP3!Throw, POP3!Abandon, POP3!LoggedIn, POP3!Heard,
         POP3!invalidateCapabilities, POP3!wantsTLS, POP3!acceptable,
         POP3!ListMechanisms, POP3!tryMechanism, POP3!answered,
         POP3!cancelled, POP3!hasInitialResponse, POP3!OpenSocket,
         POP3!Mechanisms, POP3!Socket, POP3!Unconnected,
         POP3!NoCapabilities, POP3!NoExchange, POP3!without, POP3!withList,
         POP3!withExchange, POP3!known, Await, SendCredentials,
         internalDisconnect, Throw, Abandon, LoggedIn, Heard,
         invalidateCapabilities, wantsTLS, acceptable, ListMechanisms,
         tryMechanism, answered, cancelled, hasInitialResponse, OpenSocket,
         Mechanisms, Socket, Unconnected, NoCapabilities, NoExchange,
         without, withList, withExchange, known

\* The same for IMAP.
LEMMA IMAPShared ==
  /\ \A c, a : IMAP!Await(c, a) = Await(c, a)
  /\ \A c, a : IMAP!SendCredentials(c, a) = SendCredentials(c, a)
  /\ \A c : IMAP!internalDisconnect(c) = internalDisconnect(c)
  /\ \A c : IMAP!Throw(c) = Throw(c)
  /\ \A c : IMAP!Abandon(c) = Abandon(c)
  /\ \A c : IMAP!LoggedIn(c) = LoggedIn(c)
  /\ \A c, m, l : IMAP!Heard(c, m, l) = Heard(c, m, l)
  /\ \A c : IMAP!invalidateCapabilities(c) = invalidateCapabilities(c)
  /\ \A c : IMAP!wantsTLS(c) = wantsTLS(c)
  /\ \A m : IMAP!acceptable(m) = acceptable(m)
  /\ \A c, m : IMAP!ListMechanisms(c, m) = ListMechanisms(c, m)
  /\ \A c, m : IMAP!tryMechanism(c, m) = tryMechanism(c, m)
  /\ \A c : IMAP!answered(c) = answered(c)
  /\ \A c : IMAP!cancelled(c) = cancelled(c)
  /\ \A m : IMAP!hasInitialResponse(m) = hasInitialResponse(m)
  /\ IMAP!OpenSocket = OpenSocket /\ IMAP!Mechanisms = Mechanisms
  BY DEF IMAP!Await, IMAP!SendCredentials, IMAP!internalDisconnect,
         IMAP!Throw, IMAP!Abandon, IMAP!LoggedIn, IMAP!Heard,
         IMAP!invalidateCapabilities, IMAP!wantsTLS, IMAP!acceptable,
         IMAP!ListMechanisms, IMAP!tryMechanism, IMAP!answered,
         IMAP!cancelled, IMAP!hasInitialResponse, IMAP!OpenSocket,
         IMAP!Mechanisms, IMAP!Socket, IMAP!Unconnected,
         IMAP!NoCapabilities, IMAP!NoExchange, IMAP!without, IMAP!withList,
         IMAP!withExchange, IMAP!known, Await, SendCredentials,
         internalDisconnect, Throw, Abandon, LoggedIn, Heard,
         invalidateCapabilities, wantsTLS, acceptable, ListMechanisms,
         tryMechanism, answered, cancelled, hasInitialResponse, OpenSocket,
         Mechanisms, Socket, Unconnected, NoCapabilities, NoExchange,
         without, withList, withExchange, known

-----------------------------------------------------------------------------
(***************************************************************************)
(* SMTP                                                                    *)
(***************************************************************************)
\* What comes after the last reply to EHLO or HELO.
LEMMA SMTPAfterHelo ==
  ASSUME options \in Settings, protocol = "smtp", NEW o, NEW l, Opening(o, l),
         o.capabilities.fetched, o.capabilities.layer = o.socket, NEW c \in SMTP!afterHelo(o)
  PROVE  Sound(c, l)
<1>1. CASE wantsTLS(o)
  <2>1. c = Asks(o, "STARTTLS")
    BY <1>1, SMTPShared DEF SMTP!afterHelo, Asks
  <2> QED
    BY <1>1, <2>1, AsksSound
<1>2. CASE ~wantsTLS(o)
  <2>1. Ready(o, l)
    BY <1>2, ReadyOpening
  <2>2. c \in SMTP!authenticate(o)
    BY <1>2, SMTPShared DEF SMTP!afterHelo
  <2>3. \/ ~options.needAuth /\ c = LoggedIn(o)
        \/ c = Abandon(o)
        \/ c = Throw(o)
        \/ \E list \in acceptable(o.capabilities.mechs) : c = ListMechanisms(o, list)
    BY <2>2, SMTPShared DEF SMTP!authenticate
  <2> QED
    BY <2>1, <2>3, ReadyLoggedIn, ReadyGivesUp, ReadyList
<1> QED
  BY <1>1, <1>2

\* Every action of SMTPConnection keeps the invariant.
LEMMA SMTPStep ==
  ASSUME IInv, SMTP!SMTPNext
  PROVE  IInv'
<1> USE DEF SMTP!At, SMTP!Step, SMTP!Login, Step, Login
<1>1. /\ Sound(client, logged) /\ client \in Clients /\ options \in Settings
      /\ logged \in BOOLEAN
  BY DEF IInv, Sound, ClientInv
<1>2. CASE SMTP!connect
  <2>1. Step(OpenSocket)
    BY <1>2, SMTPShared DEF SMTP!connect
  <2> QED
    BY <1>1, <2>1, OpenSocketSound, StepInv
<1>3. CASE SMTP!greeted
  <2>1. PICK c \in {Await(client, "EHLO"), Abandon(client)} : Step(c)
    BY <1>3, SMTPShared DEF SMTP!greeted, SMTP!helo
  <2>2. client.at = "greeting" /\ protocol = "smtp"
    BY <1>3 DEF SMTP!greeted
  <2>3. Sound(c, logged)
    BY <1>1, <2>1, <2>2, HeloSound, AbandonSound
  <2> QED
    BY <2>1, <2>3, StepInv
<1>4. CASE SMTP!heloReply
  <2>1. client.at \in {"EHLO", "HELO"} /\ protocol = "smtp"
    BY <1>4 DEF SMTP!heloReply
  <2>2. Opening(client, logged)
    BY <1>1, <2>1, OpeningSound
  <2>3. ASSUME NEW mechs \in SUBSET Mechanisms, NEW extends \in BOOLEAN
        PROVE  LET o == Extends(Heard(client, mechs, FALSE), extends) IN
               Opening(o, logged) /\ o.capabilities.fetched /\ o.capabilities.layer = o.socket
    <3>1. Opening(Heard(client, mechs, FALSE), logged)
      BY <2>1, <2>2, OpeningHeard
    <3>2. /\ Heard(client, mechs, FALSE) \in Clients
          /\ Heard(client, mechs, FALSE).capabilities.fetched
          /\ Heard(client, mechs, FALSE).capabilities.layer = Heard(client, mechs, FALSE).socket
      <4>1. FALSE \in BOOLEAN
        OBVIOUS
      <4>2. \A b \in BOOLEAN : LET d == Heard(client, mechs, b) IN
              d \in Clients /\ d.capabilities.fetched /\ d.capabilities.layer = d.socket
        BY <1>1, HeardFields DEF SameSocket
      <4> QED
        BY <4>1, <4>2
    <3> QED
      BY <3>1, <3>2, OpeningExtends, ExtendsFields DEF SameSocket
  <2>4. CASE \E mechs \in SUBSET Mechanisms :
               \E c \in SMTP!afterHelo(Extends(Heard(client, mechs, FALSE), TRUE)) : Step(c)
    BY <1>1, <2>1, <2>3, <2>4, SMTPAfterHelo, StepInv
  <2>5. CASE \E c \in SMTP!afterHelo(Extends(Heard(client, {}, FALSE), FALSE)) : Step(c)
    BY <1>1, <2>1, <2>3, <2>5, SMTPAfterHelo, StepInv
  <2>6. CASE client.at = "EHLO" /\ Step(Await(client, "HELO"))
    BY <1>1, <2>1, <2>6, HeloSound, StepInv
  <2>7. CASE Step(Abandon(client))
    BY <1>1, <2>7, AbandonSound, StepInv
  <2> QED
    BY <1>4, <2>4, <2>5, <2>6, <2>7, SMTPShared
       DEF SMTP!heloReply, SMTP!extendedSMTP, SMTP!basicSMTP, Extends
<1>5. CASE SMTP!startTLS
  <2>1. protocol = "smtp"
    BY <1>5 DEF SMTP!startTLS
  <2>2. CASE client.at = "STARTTLS" /\ \E c \in {Await(client, "handshake"), SMTP!refusedTLS(client)} : Step(c)
    <3>1. ~client.authenticated
      BY <1>1, <2>2 DEF Sound, LoginInv
    <3>2. \/ Step(Await(client, "handshake"))
          \/ Step(Throw(client))
          \/ ~options.required /\ Step(Await(client, "EHLO"))
      BY <2>2, SMTPShared DEF SMTP!refusedTLS, SMTP!helo
    <3> QED
      BY <1>1, <2>1, <2>2, <3>1, <3>2, HandshakeSound, ThrowSound, HeloSound, StepInv
  <2>3. CASE client.at = "handshake" /\ \E c \in {SMTP!secured(client), Abandon(client)} : Step(c)
    <3>1. Step(Await(OverTLS(client), "EHLO")) \/ Step(Abandon(client))
      BY <2>3, SMTPShared DEF SMTP!secured, SMTP!helo, OverTLS
    <3> QED
      BY <1>1, <2>1, <2>3, <3>1, SecuredSound, AbandonSound, StepInv
  <2> QED
    BY <1>5, <2>2, <2>3, SMTPShared DEF SMTP!startTLS
<1>6. CASE SMTP!authenticateSASL
  <2>1. protocol = "smtp" /\ client.at \in {"SASL", "AUTH"}
    BY <1>6 DEF SMTP!authenticateSASL
  <2>2. CASE client.at = "SASL" /\ \E mech \in client.mechList : Step(tryMechanism(client, mech))
    BY <1>1, <2>2, TrySound, StepInv
  <2>3. CASE client.at = "AUTH" /\ Step(answered(client))
    BY <1>1, <2>1, <2>3, AnswerSound, StepInv
  <2>4. CASE client.at = "AUTH" /\ Step(cancelled(client))
    BY <1>1, <2>4, CancelSound, StepInv
  <2>5. CASE client.at = "AUTH" /\ Login(LoggedIn(client))
    <3>1. client.at \in LoggingIn /\ ~client.authenticated
      BY <1>1, <2>5 DEF LoggingIn, Sound, LoginInv
    <3>2. Ready(client, TRUE)
      BY <1>1, <3>1, ReadyLoggingIn, ReadyLogin
    <3> QED
      BY <2>1, <2>5, <3>2, ReadyLoggedIn, LoginStepInv
  <2>6. CASE client.at = "AUTH" /\ Step(Await(client, "SASL"))
    BY <1>1, <2>6, NextSound, StepInv
  <2>7. CASE Step(Abandon(client))
    BY <1>1, <2>7, AbandonSound, StepInv
  <2> QED
    BY <1>6, <2>2, <2>3, <2>4, <2>5, <2>6, <2>7, SMTPShared DEF SMTP!authenticateSASL, SMTP!exhausted
<1>7. CASE SMTP!readResponse
  <2>1. CASE Step(Abandon(client))
    BY <1>1, <2>1, AbandonSound, StepInv
  <2>2. CASE client.at \in {"greeting", "EHLO", "HELO"} /\ Step(Throw(client))
    BY <1>1, <2>2, ThrowSound, StepInv DEF Sound, LoginInv
  <2> QED
    BY <1>7, <2>1, <2>2, SMTPShared DEF SMTP!readResponse, SMTP!NoReply
<1>8. CASE SMTP!disconnect
  <2>1. Step(Await(internalDisconnect(client), "over"))
    BY <1>8, SMTPShared DEF SMTP!disconnect
  <2> QED
    BY <1>1, <2>1, OverSound, StepInv
<1> QED
  BY <1>2, <1>3, <1>4, <1>5, <1>6, <1>7, <1>8 DEF SMTP!SMTPNext

-----------------------------------------------------------------------------
(***************************************************************************)
(* POP3                                                                    *)
(***************************************************************************)
\* The login of a client that is ready for it, with and without SASL.
LEMMA POP3Authenticates ==
  ASSUME protocol = "pop3", NEW c, NEW l, Ready(c, l)
  PROVE  /\ Sound(POP3!basic(c), l) /\ Sound(POP3!apop(c), l)
         /\ Sound(POP3!exhausted(c), l) /\ Sound(POP3!authenticate(c), l)
<1>1. POP3!basic(c) = Await(c, "USER")
  BY POP3Shared DEF POP3!basic
<1>2. Sound(POP3!basic(c), l)
  BY <1>1, ReadyAwait
<1>3. Sound(POP3!apop(c), l)
  <2>1. POP3!apop(c) \in {POP3!basic(c), SendCredentials(c, "APOP"), Abandon(c)}
    BY POP3Shared DEF POP3!apop
  <2>2. Sound(SendCredentials(c, "APOP"), l) /\ Sound(Abandon(c), l)
    BY ReadySend, ReadyGivesUp
  <2> QED
    BY <1>2, <2>1, <2>2
<1>4. Sound(POP3!exhausted(c), l)
  BY <1>3, ReadyGivesUp, POP3Shared DEF POP3!exhausted
<1>5. Sound(POP3!authenticate(c), l)
  <2>1. POP3!authenticate(c) \in {POP3!apop(c), POP3!exhausted(c), Await(c, "CAPA")}
    BY POP3Shared DEF POP3!authenticate
  <2>2. Sound(Await(c, "CAPA"), l)
    BY ReadyAwait
  <2> QED
    BY <1>3, <1>4, <2>1, <2>2
<1> QED
  BY <1>2, <1>3, <1>4, <1>5

\* Every action of POP3Connection keeps the invariant.
LEMMA POP3Step ==
  ASSUME IInv, POP3!POP3Next
  PROVE  IInv'
<1> USE DEF POP3!At, POP3!Step, POP3!Login, Step, Login
<1>1. /\ Sound(client, logged) /\ client \in Clients /\ options \in Settings
      /\ logged \in BOOLEAN
  BY DEF IInv, Sound, ClientInv
<1>2. CASE POP3!connect
  <2>1. Step(OpenSocket)
    BY <1>2, POP3Shared DEF POP3!connect
  <2> QED
    BY <1>1, <2>1, OpenSocketSound, StepInv
<1>3. CASE POP3!greeted
  <2>1. client.at = "greeting" /\ protocol = "pop3"
    BY <1>3 DEF POP3!greeted
  <2>2. CASE Step(Abandon(client))
    BY <1>1, <2>2, AbandonSound, StepInv
  <2>3. CASE \E id \in {"plain", "id"} : Step(POP3!afterGreeting(Greets(client, id)))
    <3>1. PICK id \in {"plain", "id"} : Step(POP3!afterGreeting(Greets(client, id)))
      BY <2>3
    <3>2. Opening(Greets(client, id), logged)
      BY <1>1, <2>1, OpeningSound, OpeningGreets
    <3>3. CASE wantsTLS(Greets(client, id))
      <4>1. POP3!afterGreeting(Greets(client, id)) = Asks(Greets(client, id), "STLS")
        BY <3>3, POP3Shared DEF POP3!afterGreeting, Asks
      <4>2. Sound(Asks(Greets(client, id), "STLS"), logged)
        BY <1>1, <2>1, <3>2, <3>3, AsksSound
      <4> QED
        BY <3>1, <4>1, <4>2, StepInv
    <3>4. CASE ~wantsTLS(Greets(client, id))
      <4>1. POP3!afterGreeting(Greets(client, id)) = POP3!authenticate(Greets(client, id))
        BY <3>4, POP3Shared DEF POP3!afterGreeting
      <4>2. Ready(Greets(client, id), logged)
        BY <1>1, <3>2, <3>4, ReadyOpening
      <4> QED
        BY <2>1, <3>1, <4>1, <4>2, POP3Authenticates, StepInv
    <3> QED
      BY <3>3, <3>4
  <2> QED
    BY <1>3, <2>2, <2>3, POP3Shared DEF POP3!greeted, Greets
<1>4. CASE POP3!startTLS
  <2>1. protocol = "pop3"
    BY <1>4 DEF POP3!startTLS
  <2>2. CASE client.at = "STLS" /\ \E c \in {Await(client, "handshake"), POP3!refusedTLS(client)} : Step(c)
    <3>1. ~client.authenticated
      BY <1>1, <2>2 DEF Sound, LoginInv
    <3>2. \/ Step(Await(client, "handshake"))
          \/ Step(Throw(client))
          \/ ~options.required /\ Step(POP3!authenticate(client))
      BY <2>2, POP3Shared DEF POP3!refusedTLS
    <3>3. ~options.required => Ready(client, logged)
      BY <1>1, <2>2, ReadyBefore
    <3> QED
      BY <1>1, <2>1, <2>2, <3>1, <3>2, <3>3, HandshakeSound, ThrowSound, POP3Authenticates, StepInv
  <2>3. CASE client.at = "handshake" /\ \E c \in {POP3!secured(client), Abandon(client)} : Step(c)
    <3>1. \/ Step(POP3!authenticate(invalidateCapabilities(OverTLS(client))))
          \/ Step(Abandon(client))
      BY <2>3, POP3Shared DEF POP3!secured, OverTLS
    <3> QED
      BY <1>1, <2>1, <2>3, <3>1, SecuredSound, POP3Authenticates, AbandonSound, StepInv
  <2> QED
    BY <1>4, <2>2, <2>3, POP3Shared DEF POP3!startTLS
<1>5. CASE POP3!fetchCapabilities
  <2>1. client.at = "CAPA" /\ protocol = "pop3"
    BY <1>5 DEF POP3!fetchCapabilities
  <2>2. PICK mechs \in SUBSET Mechanisms : \E list \in acceptable(mechs) :
               Step(ListMechanisms(Heard(client, mechs, FALSE), list))
    BY <1>5, POP3Shared DEF POP3!fetchCapabilities
  <2>3. Ready(client, logged)
    BY <1>1, <2>1, ReadyLoggingIn DEF LoggingIn, Sound, LoginInv
  <2>4. /\ Ready(Heard(client, mechs, FALSE), logged)
        /\ Heard(client, mechs, FALSE).capabilities.mechs = mechs
        /\ Heard(client, mechs, FALSE).capabilities.layer = Heard(client, mechs, FALSE).socket
    BY <2>1, <2>3, ReadyHeard
  <2> QED
    BY <2>1, <2>2, <2>4, ReadyList, StepInv
<1>6. CASE POP3!authenticateSASL
  <2>1. protocol = "pop3" /\ client.at \in {"SASL", "AUTH"}
    BY <1>6 DEF POP3!authenticateSASL
  <2>2. Ready(client, logged)
    BY <1>1, <2>1, ReadyLoggingIn DEF LoggingIn, Sound, LoginInv
  <2>3. CASE client.at = "SASL" /\ \E mech \in client.mechList : Step(tryMechanism(client, mech))
    BY <1>1, <2>3, TrySound, StepInv
  <2>4. CASE client.at = "AUTH" /\ Step(answered(client))
    BY <1>1, <2>1, <2>4, AnswerSound, StepInv
  <2>5. CASE client.at = "AUTH" /\ Step(cancelled(client))
    BY <1>1, <2>5, CancelSound, StepInv
  <2>6. CASE client.at = "AUTH" /\ Login(LoggedIn(client))
    BY <2>1, <2>2, <2>6, ReadyLogin, ReadyLoggedIn, LoginStepInv
  <2>7. CASE client.at = "AUTH" /\ Step(Await(client, "SASL"))
    BY <1>1, <2>7, NextSound, StepInv
  <2>8. CASE Step(POP3!exhausted(client))
    BY <2>1, <2>2, <2>8, POP3Authenticates, StepInv
  <2> QED
    BY <1>6, <2>3, <2>4, <2>5, <2>6, <2>7, <2>8, POP3Shared DEF POP3!authenticateSASL
<1>7. CASE POP3!apopReply
  <2>1. protocol = "pop3" /\ client.at \in {"APOP", "NOOP"}
    BY <1>7 DEF POP3!apopReply
  <2>2. Ready(client, logged)
    BY <1>1, <2>1, ReadyLoggingIn DEF LoggingIn, Sound, LoginInv
  <2>3. CASE Login(LoggedIn(client))
    BY <2>1, <2>2, <2>3, ReadyLogin, ReadyLoggedIn, LoginStepInv
  <2>4. CASE Step(Await(client, "NOOP")) \/ Step(Abandon(client))
    BY <1>1, <2>1, <2>2, <2>4, ReadyAwait, AbandonSound, StepInv
  <2>5. CASE Step(POP3!basic(client))
    BY <2>1, <2>2, <2>5, POP3Authenticates, StepInv
  <2> QED
    BY <1>7, <2>3, <2>4, <2>5, POP3Shared DEF POP3!apopReply
<1>8. CASE POP3!basicReply
  <2>1. protocol = "pop3" /\ client.at \in {"USER", "PASS"}
    BY <1>8 DEF POP3!basicReply
  <2>2. Ready(client, logged)
    BY <1>1, <2>1, ReadyLoggingIn DEF LoggingIn, Sound, LoginInv
  <2>3. CASE Login(LoggedIn(client))
    BY <2>1, <2>2, <2>3, ReadyLogin, ReadyLoggedIn, LoginStepInv
  <2>4. CASE Step(SendCredentials(client, "PASS")) \/ Step(Abandon(client))
    BY <1>1, <2>1, <2>2, <2>4, ReadySend, AbandonSound, StepInv
  <2> QED
    BY <1>8, <2>3, <2>4, POP3Shared DEF POP3!basicReply
<1>9. CASE POP3!readResponse
  <2>1. CASE Step(Abandon(client))
    BY <1>1, <2>1, AbandonSound, StepInv
  <2>2. CASE client.at \in {"greeting", "APOP", "NOOP", "USER", "PASS"} /\ Step(Throw(client))
    BY <1>1, <2>2, ThrowSound, StepInv DEF Sound, LoginInv
  <2> QED
    BY <1>9, <2>1, <2>2, POP3Shared DEF POP3!readResponse, POP3!NoReply
<1>10. CASE POP3!disconnect
  <2>1. Step(Await(internalDisconnect(client), "over"))
    BY <1>10, POP3Shared DEF POP3!disconnect
  <2> QED
    BY <1>1, <2>1, OverSound, StepInv
<1> QED
  BY <1>2, <1>3, <1>4, <1>5, <1>6, <1>7, <1>8, <1>9, <1>10 DEF POP3!POP3Next

-----------------------------------------------------------------------------
(***************************************************************************)
(* IMAP                                                                    *)
(***************************************************************************)
LEMMA IMAPExhausted ==
  ASSUME protocol = "imap", NEW c, NEW l, Ready(c, l), c.greeting # "preauth"
  PROVE  Sound(IMAP!login(c), l) /\ Sound(IMAP!exhausted(c), l)
<1>1. Sound(IMAP!login(c), l)
  BY ReadySend, IMAPShared DEF IMAP!login
<1> QED
  BY <1>1, ReadyGivesUp, IMAPShared DEF IMAP!exhausted

\* The login of a client that is ready for it, with and without SASL.
LEMMA IMAPAuthenticates ==
  ASSUME protocol = "imap", NEW o, NEW l, Ready(o, l), NEW c \in IMAP!authenticate(o)
  PROVE  Sound(c, l)
<1>1. CASE o.greeting = "preauth"
  <2>1. c = Await(o, "LIST") /\ l
    BY <1>1, IMAPShared DEF IMAP!authenticate, IMAP!initHierarchySeparator, Ready
  <2> QED
    BY <1>1, <2>1, ReadyAwait
<1>2. CASE o.greeting # "preauth"
  <2>1. CASE c \in {IMAP!login(o), IMAP!exhausted(o)}
    BY <1>2, <2>1, IMAPExhausted
  <2>2. CASE o.capabilities.fetched /\ \E list \in acceptable(o.capabilities.mechs) : c = ListMechanisms(o, list)
    BY <1>2, <2>2, ReadyList DEF Ready
  <2>3. CASE ~o.capabilities.fetched /\ c = Await(o, "CAPABILITY")
    BY <1>2, <2>3, ReadyAwait
  <2> QED
    BY <1>2, <2>1, <2>2, <2>3, IMAPShared DEF IMAP!authenticate, IMAP!authenticateSASL
<1> QED
  BY <1>1, <1>2

\* What comes after the greeting: STARTTLS or the login.
LEMMA IMAPAfterGreeting ==
  ASSUME options \in Settings, protocol = "imap", NEW o, NEW l, Opening(o, l), NEW c \in IMAP!afterGreeting(o)
  PROVE  Sound(c, l)
<1>1. CASE wantsTLS(o)
  <2>1. c = Asks(o, "STARTTLS")
    BY <1>1, IMAPShared DEF IMAP!afterGreeting, Asks
  <2> QED
    BY <1>1, <2>1, AsksSound
<1>2. CASE ~wantsTLS(o)
  <2>1. Ready(o, l) /\ c \in IMAP!authenticate(o)
    BY <1>2, ReadyOpening, IMAPShared DEF IMAP!afterGreeting
  <2> QED
    BY <2>1, IMAPAuthenticates
<1> QED
  BY <1>1, <1>2

\* The greeting, with and without capabilities, OK and PREAUTH.
LEMMA IMAPGreeted ==
  ASSUME IInv, IMAP!greeted
  PROVE  IInv'
<1> USE DEF IMAP!At, IMAP!Step, IMAP!Login, Step, Login
<1>1. /\ Sound(client, logged) /\ client \in Clients /\ options \in Settings
      /\ logged \in BOOLEAN
  BY DEF IInv, Sound, ClientInv
<1>2. client.at = "greeting" /\ protocol = "imap"
  BY DEF IMAP!greeted
<1>3. Opening(client, logged) /\ client.greeting # "preauth" /\ ~client.capabilities.fetched
  BY <1>1, <1>2, OpeningSound
<1>4. Opening(Greets(client, "preauth"), TRUE)
  BY <1>3, OpeningGreets
<1>5. ASSUME NEW mechs \in SUBSET Mechanisms
      PROVE  /\ Opening(Heard(client, mechs, FALSE), logged)
             /\ Opening(Heard(Greets(client, "preauth"), mechs, TRUE), TRUE)
  <2>1. TRUE \in BOOLEAN /\ FALSE \in BOOLEAN
    OBVIOUS
  <2>2. \A b \in BOOLEAN : Opening(Heard(client, mechs, b), logged)
    BY <1>3, OpeningHeard
  <2>3. \A b \in BOOLEAN : b => Opening(Heard(Greets(client, "preauth"), mechs, b), TRUE)
    BY <1>4, OpeningHeard
  <2> QED
    BY <2>1, <2>2, <2>3
<1>6. CASE Step(Abandon(client))
  BY <1>1, <1>6, AbandonSound, StepInv
<1>7. CASE \E c \in IMAP!afterGreeting(client) : Step(c)
  BY <1>1, <1>2, <1>3, <1>7, IMAPAfterGreeting, StepInv
<1>8. CASE \E mechs \in SUBSET Mechanisms :
             \E c \in IMAP!afterGreeting(Heard(client, mechs, FALSE)) : Step(c)
  BY <1>1, <1>2, <1>5, <1>8, IMAPAfterGreeting, StepInv
<1>9. CASE \E c \in IMAP!afterGreeting(Greets(client, "preauth")) : Login(c)
  BY <1>1, <1>2, <1>4, <1>9, IMAPAfterGreeting, LoginStepInv
<1>10. CASE \E mechs \in SUBSET Mechanisms :
              \E c \in IMAP!afterGreeting(Heard(Greets(client, "preauth"), mechs, TRUE)) : Login(c)
  BY <1>1, <1>2, <1>5, <1>10, IMAPAfterGreeting, LoginStepInv
<1> QED
  BY <1>6, <1>7, <1>8, <1>9, <1>10, IMAPShared DEF IMAP!greeted, IMAP!preauthenticated, Greets

\* Every action of IMAPConnection keeps the invariant.
LEMMA IMAPStep ==
  ASSUME IInv, IMAP!IMAPNext
  PROVE  IInv'
<1> USE DEF IMAP!At, IMAP!Step, IMAP!Login, Step, Login
<1>1. /\ Sound(client, logged) /\ client \in Clients /\ options \in Settings
      /\ logged \in BOOLEAN
  BY DEF IInv, Sound, ClientInv
<1>2. CASE IMAP!connect
  <2>1. Step(OpenSocket)
    BY <1>2, IMAPShared DEF IMAP!connect
  <2> QED
    BY <1>1, <2>1, OpenSocketSound, StepInv
<1>3. CASE IMAP!greeted
  BY <1>3, IMAPGreeted
<1>4. CASE IMAP!startTLS
  <2>1. protocol = "imap"
    BY <1>4 DEF IMAP!startTLS
  <2>2. CASE client.at = "STARTTLS" /\ Step(Await(client, "handshake"))
    BY <1>1, <2>2, HandshakeSound, StepInv
  <2>3. CASE client.at = "STARTTLS" /\ \E c \in IMAP!refusedTLS(client) : Step(c)
    <3>1. ~client.authenticated
      BY <1>1, <2>3 DEF Sound, LoginInv
    <3>2. \/ Step(Throw(client))
          \/ ~options.required /\ \E c \in IMAP!authenticate(client) : Step(c)
      BY <2>3, IMAPShared DEF IMAP!refusedTLS
    <3>3. ~options.required => Ready(client, logged)
      BY <1>1, <2>3, ReadyBefore
    <3> QED
      BY <1>1, <2>1, <3>1, <3>2, <3>3, ThrowSound, IMAPAuthenticates, StepInv
  <2>4. CASE client.at = "handshake" /\ \E c \in IMAP!authenticate(IMAP!secured(client)) : Step(c)
    <3>1. IMAP!secured(client) = invalidateCapabilities(OverTLS(client))
      BY IMAPShared DEF IMAP!secured, IMAP!setSocket, OverTLS
    <3>2. Ready(IMAP!secured(client), logged)
      BY <1>1, <2>4, <3>1, SecuredSound
    <3> QED
      BY <2>1, <2>4, <3>2, IMAPAuthenticates, StepInv
  <2>5. CASE Step(Abandon(client))
    BY <1>1, <2>5, AbandonSound, StepInv
  <2> QED
    BY <1>4, <2>2, <2>3, <2>4, <2>5, IMAPShared DEF IMAP!startTLS
<1>5. CASE IMAP!fetchCapabilities
  <2>1. client.at = "CAPABILITY" /\ protocol = "imap"
    BY <1>5 DEF IMAP!fetchCapabilities
  <2>2. ~client.authenticated => Ready(client, logged) /\ client.greeting # "preauth"
    BY <1>1, <2>1, ReadyLoggingIn DEF LoggingIn, Sound, CapabilityInv
  <2>3. CASE ~client.authenticated /\ \E mechs \in SUBSET Mechanisms :
               \E c \in IMAP!listed(Heard(client, mechs, FALSE)) : Step(c)
    <3>1. PICK mechs \in SUBSET Mechanisms :
                 \E c \in IMAP!listed(Heard(client, mechs, FALSE)) : Step(c)
      BY <2>3
    <3>2. LET d == Heard(client, mechs, FALSE) IN
          Ready(d, logged) /\ d.greeting # "preauth" /\ d.capabilities.layer = d.socket
      BY <2>2, <2>3, ReadyHeard
    <3>3. PICK list \in acceptable(Heard(client, mechs, FALSE).capabilities.mechs) :
                 Step(ListMechanisms(Heard(client, mechs, FALSE), list))
      BY <3>1, IMAPShared DEF IMAP!listed
    <3> QED
      BY <3>2, <3>3, ReadyList, StepInv
  <2>4. CASE ~client.authenticated /\ \E c \in IMAP!listed(client) : Step(c)
    <3>1. PICK list \in acceptable(client.capabilities.mechs) : Step(ListMechanisms(client, list))
      BY <2>4, IMAPShared DEF IMAP!listed
    <3>2. client.capabilities.fetched => client.capabilities.layer = client.socket
      BY <2>1, <2>2, <2>4 DEF Ready
    <3> QED
      BY <2>2, <2>4, <3>1, <3>2, ReadyList, StepInv
  <2>5. CASE client.authenticated /\ \E mechs \in SUBSET Mechanisms :
               Step(Await(Heard(client, mechs, TRUE), "connected"))
    BY <1>1, <2>1, <2>5, AskedAgainSound, StepInv
  <2>6. CASE client.authenticated /\ Step(Await(client, "connected"))
    <3>1. {} \in SUBSET Mechanisms
      OBVIOUS
    <3> QED
      BY <1>1, <2>1, <2>6, <3>1, AskedAgainSound, StepInv
  <2> QED
    BY <1>5, <2>3, <2>4, <2>5, <2>6, IMAPShared DEF IMAP!fetchCapabilities
<1>6. CASE IMAP!exchange
  <2>1. protocol = "imap" /\ client.at \in {"SASL", "AUTH"}
    BY <1>6 DEF IMAP!exchange
  <2>2. Ready(client, logged) /\ client.greeting # "preauth"
    BY <1>1, <2>1, ReadyLoggingIn DEF LoggingIn, Sound, LoginInv, CapabilityInv
  <2>3. CASE client.at = "SASL" /\ \E mech \in client.mechList : Step(tryMechanism(client, mech))
    BY <1>1, <2>3, TrySound, StepInv
  <2>4. CASE client.at = "AUTH" /\ Step(invalidateCapabilities(answered(client)))
    BY <1>1, <2>4, AnswerSound, StepInv
  <2>5. CASE client.at = "AUTH" /\ Step(cancelled(client))
    BY <1>1, <2>5, CancelSound, StepInv
  <2>6. CASE client.at = "AUTH" /\ IMAP!ServerAccepts /\ Login(Await(client, "LIST"))
    <3>1. client.exchange.answered > 0 \/ client.exchange.mech \in Immediate
      BY <2>6, IMAPShared DEF IMAP!ServerAccepts, hasInitialResponse
    <3> QED
      BY <1>1, <2>1, <2>6, <3>1, AcceptedSound, LoginStepInv
  <2>7. CASE client.at = "AUTH" /\ Step(Await(client, "SASL"))
    BY <1>1, <2>7, NextSound, StepInv
  <2>8. CASE Step(IMAP!exhausted(client))
    BY <2>1, <2>2, <2>8, IMAPExhausted, StepInv
  <2> QED
    BY <1>6, <2>3, <2>4, <2>5, <2>6, <2>7, <2>8, IMAPShared DEF IMAP!exchange, IMAP!initHierarchySeparator
<1>7. CASE IMAP!loginReply
  <2>1. client.at = "LOGIN" /\ protocol = "imap"
    BY <1>7 DEF IMAP!loginReply
  <2>2. CASE Login(Await(invalidateCapabilities(client), "LIST"))
    <3>1. {} \in SUBSET Mechanisms
      OBVIOUS
    <3> QED
      BY <1>1, <2>1, <2>2, <3>1, LoginRepliedSound, LoginStepInv
  <2>3. CASE \E mechs \in SUBSET Mechanisms : Login(Await(Heard(client, mechs, TRUE), "LIST"))
    BY <1>1, <2>1, <2>3, LoginRepliedSound, LoginStepInv
  <2>4. CASE Step(Abandon(client))
    BY <1>1, <2>4, AbandonSound, StepInv
  <2> QED
    BY <1>7, <2>2, <2>3, <2>4, IMAPShared DEF IMAP!loginReply, IMAP!loggedIn, IMAP!initHierarchySeparator
<1>8. CASE IMAP!hierarchySeparator
  <2>1. client.at = "LIST" /\ protocol = "imap"
    BY <1>8 DEF IMAP!hierarchySeparator
  <2>2. Step(LoggedIn(client)) \/ Step(Abandon(client))
    BY <1>8, IMAPShared DEF IMAP!hierarchySeparator
  <2>3. Ready(client, logged) /\ logged
    BY <1>1, <2>1, ReadyLoggingIn DEF LoggingIn, Sound, LoginInv
  <2> QED
    BY <1>1, <2>1, <2>2, <2>3, ReadyLoggedIn, AbandonSound, StepInv
<1>9. CASE IMAP!readResponse
  <2>1. protocol = "imap"
    BY <1>9 DEF IMAP!readResponse, IMAP!NoReply
  <2>2. CASE Step(Abandon(client))
    BY <1>1, <2>2, AbandonSound, StepInv
  <2>3. CASE client.at \in {"greeting", "LOGIN", "LIST"} /\ Step(Throw(client))
    BY <1>1, <2>3, ThrowSound, StepInv DEF Sound, LoginInv
  <2>4. CASE client.at = "CAPABILITY" /\ client.authenticated /\ Step(Await(client, "connected"))
    <3>1. {} \in SUBSET Mechanisms
      OBVIOUS
    <3> QED
      BY <1>1, <2>1, <2>4, <3>1, AskedAgainSound, StepInv
  <2> QED
    BY <1>9, <2>2, <2>3, <2>4, IMAPShared DEF IMAP!readResponse, IMAP!NoReply
<1>10. CASE IMAP!hasCapability
  <2>1. /\ protocol = "imap" /\ client.at = "connected" /\ ~client.capabilities.fetched
        /\ Step(Await(client, "CAPABILITY"))
    BY <1>10, IMAPShared DEF IMAP!hasCapability
  <2>2. client.authenticated /\ {} \in SUBSET Mechanisms
    BY <1>1, <2>1 DEF Sound, LoginInv
  <2> QED
    BY <1>1, <2>1, <2>2, AskedAgainSound, StepInv
<1>11. CASE IMAP!disconnect
  <2>1. Step(Await(internalDisconnect(client), "over"))
    BY <1>11, IMAPShared DEF IMAP!disconnect
  <2> QED
    BY <1>1, <2>1, OverSound, StepInv
<1> QED
  BY <1>2, <1>3, <1>4, <1>5, <1>6, <1>7, <1>8, <1>9, <1>10, <1>11 DEF IMAP!IMAPNext

-----------------------------------------------------------------------------
(***************************************************************************)
(* The theorems                                                            *)
(***************************************************************************)
LEMMA InitInv == Init => IInv
<1> SUFFICES ASSUME Init PROVE IInv
  OBVIOUS
<1>1. NoCapabilities \in Capabilities /\ NoExchange \in Exchanges /\ ~NoCapabilities.fetched
  BY DEF NoCapabilities, NoExchange, Capabilities, Exchanges, AnyLayer
<1>2. /\ Unconnected \in Clients /\ Unconnected.at = "idle" /\ ~Unconnected.authenticated
      /\ Unconnected.socket = "none" /\ Unconnected.reader = "none" /\ ~Unconnected.secured
      /\ Unconnected.capabilities = NoCapabilities /\ Unconnected.greeting = "plain"
      /\ Unconnected.sent = {}
  BY <1>1 DEF Unconnected, Clients, Places, AnyLayer
<1>3. Sound(Unconnected, FALSE)
  BY <1>1, <1>2
     DEF Sound, ClientInv, SocketInv, TLSInv, LoginInv, MechanismInv, CapabilityInv,
         Talking, Waiting, Commands, LoggingIn
<1>4. options \in Settings
  BY DEF Init, Options, Settings
<1> QED
  BY <1>3, <1>4 DEF Init, IInv

\* Nothing changes in a stuttering step.
LEMMA StutterInv ==
  ASSUME IInv, UNCHANGED connectionVars
  PROVE  IInv'
<1>1. Sound(client, logged) /\ Step(client)
  BY DEF IInv, Step, connectionVars
<1> QED
  BY <1>1, StepInv

\* The inductive invariant holds of every behaviour.
THEOREM Invariance == Spec => []IInv
<1>1. IInv /\ [Next]_connectionVars => IInv'
  BY SMTPStep, POP3Step, IMAPStep, StutterInv DEF Next
<1> QED
  BY <1>1, InitInv, PTL DEF Spec

\* Every variable keeps its type, whatever the server answers, and a cache of
\* capabilities that says it is empty is (invalidateCapabilities).
THEOREM ConnectionsTypeCorrect == Spec => []TypeOK
<1>1. IInv => TypeOK
  BY DEF IInv, Sound, ClientInv, Clients, Capabilities, Exchanges, Places, AnyLayer, TypeOK
<1> QED
  BY <1>1, Invariance, PTL

\* Where TLS is required, or the port is one for it, no credentials ever go
\* out in clear text, with any mechanisms, any number of challenges and any
\* way back to basic authentication (startTLS, authenticate, authenticateSASL).
THEOREM CredentialsNeedTLS == Spec => []RequiredMeansSecured
<1>1. IInv => RequiredMeansSecured
  BY DEF IInv, Sound, ClientInv, Clients, SocketInv, TLSInv, TLSOnly, LoginInv, LoggingIn,
         RequiredMeansSecured, Usable
<1> QED
  BY <1>1, Invariance, PTL

\* isConnected() is true of no connection that has not logged in where it
\* must, and connect() returns from no other (connect, internalDisconnect).
THEOREM ConnectedHasLoggedIn == Spec => []UsableIsLoggedIn
<1>1. IInv => UsableIsLoggedIn
  BY DEF IInv, Sound, SocketInv, LoginInv, Talking, UsableIsLoggedIn, Usable
<1> QED
  BY <1>1, Invariance, PTL

\* No mechanism is tried that was announced before TLS started (helo of SMTP,
\* invalidateCapabilities of POP3 and IMAP).
THEOREM MechanismsAreFresh == Spec => []MechanismsOfThisLayer
<1>1. IInv => MechanismsOfThisLayer
  BY DEF IInv, Sound, MechanismInv, MechanismsOfThisLayer
<1> QED
  BY <1>1, Invariance, PTL

\* Every reply is read from the layer its command was sent on (setSocket of
\* the IMAP parser).
THEOREM OneSocket == Spec => []RepliesReadWhereSent
<1>1. IInv => RepliesReadWhereSent
  BY DEF IInv, Sound, SocketInv, RepliesReadWhereSent
<1> QED
  BY <1>1, Invariance, PTL

\* A connected IMAP client believes capabilities of before the login only
\* after an initial response that was accepted without a challenge.
THEOREM CapabilitiesAreOfAfterLogin == Spec => []CapabilitiesAfterLogin
<1>1. IInv => CapabilitiesAfterLogin
  BY DEF IInv, Sound, CapabilityInv, CapabilitiesAfterLogin
<1> QED
  BY <1>1, Invariance, PTL
=============================================================================
