--------------------------- MODULE MCMaildirFolder ---------------------------
(* Instances of MaildirFolder for TLC. *)
EXTENDS MaildirFolder, TLC

CONSTANTS m1, m2, f1, f2

OneId == {m1}
TwoIds == {m1, m2}
OneFolder == {f1}
OneFlag == {"T"}
TwoFlags == {"S", "T"}
TwoFolders == {f1, f2}
Symmetry == Permutations(Ids) \cup Permutations(Folders)
==============================================================================
