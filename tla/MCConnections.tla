---- MODULE MCConnections ----
(***************************************************************************)
(* A mechanism of each kind: one of gsasl, one with an initial response,   *)
(* and one that the client has never heard of.                             *)
(***************************************************************************)
EXTENDS Connections

MCBuiltin == {"PLAIN"}
MCImmediate == {"XOAUTH2"}
MCUnknown == {"OTHER"}
====
