--------------------------- MODULE MCSMTPTransport ---------------------------
(* Instances of SMTPTransport for TLC. *)
EXTENDS SMTPTransport

\* Enough codes to tell a RCPT from a MAIL and a DATA from the rest.
MCReplyCodes == {250, 354}

NoExtensions   == {{}}
AllExtensions  == SUBSET {"PIPELINING", "CHUNKING"}
OnlyPipelining == {{"PIPELINING"}}
==============================================================================
