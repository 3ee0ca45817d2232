---------------------------- MODULE MCPOP3Folder ----------------------------
(* Instances of POP3Folder for TLC. *)
EXTENDS POP3Folder

CONSTANTS f1, f2

OneFolder == {f1}
LargeGarbage == {MaxUid}
TwoFolders == {f1, f2}
=============================================================================
