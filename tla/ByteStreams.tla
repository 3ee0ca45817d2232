----------------------------- MODULE ByteStreams -----------------------------
(***************************************************************************)
(* What the modules on texts share.  A job reads a text, a sequence of     *)
(* bytes, as its stream delivers it: in pieces of any size, each of them   *)
(* handed over before the next is known.  Bytes are their ASCII codes.     *)
(***************************************************************************)
EXTENDS Integers, Sequences, SequencesExt

CONSTANT MaxPiece  \* the longest piece
ASSUME MaxPieceAssumption == MaxPiece \in Nat \ {0}

VARIABLES
  job,     \* what is done, with its parameters
  text,    \* the whole input
  at,      \* how much of it has been read
  worker,  \* what the object that does the job keeps between two calls
  output   \* what it has written

streamVars == <<job, text, at, worker, output>>

Byte == 0 .. 255
TAB == 9
LF == 10
CR == 13
SPACE == 32
DASH == 45
DOT == 46
EQUALS == 61
CRLF == <<CR, LF>>

\* The sizes that the next piece can have, and the piece.
Sizes == 1 .. Min({Len(text) - at, MaxPiece})
Piece(n) == SubSeq(text, at + 1, at + n)
AllRead == at = Len(text)
=============================================================================
