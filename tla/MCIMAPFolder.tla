---------------------------- MODULE MCIMAPFolder ----------------------------
(* Instances of IMAPFolder for TLC. *)
EXTENDS IMAPFolder

SomeOps == {"NOOP", "EXPUNGE", "STATUS"}
TimingOut == {"NOOP", "UID STORE", "UID FETCH"}
=============================================================================
