------------------------------- MODULE Maildir -------------------------------
(***************************************************************************)
(* One maildir directory on a file system: the files of new/ and cur/, the *)
(* three operations of posixFile that maildirFolder uses on them, and the  *)
(* other processes that share the directory (a delivery agent and another  *)
(* mail reader), which are not in the repository.                          *)
(*                                                                         *)
(* A file is named by the unique part of its name and its info part, and   *)
(* holds a message or nothing.  tmp/ is left out: a file in it is read by  *)
(* nobody and renamed into place or removed by the call that created it.   *)
(***************************************************************************)
EXTENDS Naturals, Sequences, FiniteSets

CONSTANTS
  Ids,         \* the unique parts of file names; each names one message
  Flags,       \* message flags: "T" is FLAG_DELETED, the others are alike
  MaxOthers    \* bound of a run: steps of the other processes, and crashes

ASSUME MaildirAssumption == "T" \in Flags /\ MaxOthers \in Nat

VARIABLES
  files,       \* the files of new/ and cur/
  used,        \* ids whose message has been put into the maildir
  removed,     \* history: ids whose message has been removed from it
  others       \* steps taken by the other processes

maildirVars == <<files, used, removed, others>>

NoInfo == {"no info"}    \* a name without ":2," and flags
Infos == (SUBSET Flags) \cup {NoInfo}
Names == [id : Ids, info : Infos]
Name(id, info) == [id |-> id, info |-> info]
extractFlags(name) == name.info \cap Flags

Dirs == {"new", "cur"}
Files == [dir : Dirs, name : Names, full : BOOLEAN]
File(dir, name, full) == [dir |-> dir, name |-> name, full |-> full]

Listing(dir) == {f.name : f \in {x \in files : x.dir = dir}}
\* The message of an id is in the maildir.
Stored(id, fs) == \E f \in fs : f.name.id = id /\ f.full

-----------------------------------------------------------------------------
\* Slip: rename(2) alone, which replaces what has the new name.
Renamed_Replaces(dir, name, to) ==
  IF name \notin Listing(dir) THEN files
  ELSE {IF f.dir = dir /\ f.name = name THEN File("cur", to, f.full) ELSE f :
          f \in {x \in files : x.dir # "cur" \/ x.name # to \/ to = name}}

\* posixFile::rename creates the new name, exclusively, before it renames.
\* Without the file it was to rename it leaves that new, empty file behind.
Renamed(dir, name, to) ==
  IF to \in Listing("cur") THEN files
  ELSE IF name \notin Listing(dir) THEN files \cup {File("cur", to, FALSE)}
  ELSE {IF f.dir = dir /\ f.name = name THEN File("cur", to, f.full) ELSE f : f \in files}
RenameSucceeds(dir, name, to) == to \notin Listing("cur") /\ name \in Listing(dir)

\* What has been lost for good, going from the files to fs.
RecordRemoved(fs) == removed' = removed \cup {id \in used : Stored(id, files) /\ ~Stored(id, fs)}

-----------------------------------------------------------------------------
\* The other processes.
OtherStep == others < MaxOthers /\ others' = others + 1

deliver(id) ==
  /\ id \notin used
  /\ files' = files \cup {File("new", Name(id, NoInfo), TRUE)}
  /\ used' = used \cup {id}
  /\ UNCHANGED <<removed, others>>

\* Another reader takes a message from new/, or changes its flags.
otherRenames ==
  /\ OtherStep
  /\ \E f \in files, info \in SUBSET Flags :
       /\ info # f.name.info \/ f.dir = "new"
       /\ Name(f.name.id, info) \notin Listing("cur")
       /\ files' = (files \ {f}) \cup {File("cur", Name(f.name.id, info), f.full)}
  /\ UNCHANGED <<used, removed>>

\* Another reader expunges a message.
otherRemoves ==
  /\ OtherStep
  /\ \E f \in files :
       /\ f.dir = "cur" /\ "T" \in f.name.info
       /\ files' = files \ {f}
       /\ RecordRemoved(files \ {f})
  /\ UNCHANGED used
==============================================================================
