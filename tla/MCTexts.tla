------------------------------ MODULE MCTexts ------------------------------
(***************************************************************************)
(* Texts for TLC: all those over a few bytes, up to a length at which      *)
(* every replacement can be cut in every way.                              *)
(***************************************************************************)
EXTENDS Texts

X == 120
B == 98
MCFilterTexts == SeqOf({CR, LF, DOT, X}, 5)
MCMessages == SeqOf(SeqOf({DOT, X}, 2), 2)
MCBinaries == SeqOf({0, 171}, 6) \cup {<<255, 254, 253, 0, 1, 2, 128, 127, 64>>}
MCPrintables == SeqOf({DOT, SPACE, CR, LF, EQUALS, X}, 4) \cup SeqOf({TAB, 95, 200, X}, 3)
MCLineLengths == {5, 11}
MCUULineLengths == {4, 6, 7, 46}
MCSearchTexts == SeqOf({X, B}, 7)
MCTokens == SeqOf({X, B}, 2) \ {<<>>}
MCNumberLists == SeqOf(0 .. 4, 4)
MCUidLists == SeqOf({1, 2, 3, 6, 7, NotNumeric}, 3)
MCPartContents == {<<>>, <<X>>, <<B>>, CRLF, <<DASH, DASH, B, X>>, <<DASH, DASH, B, SPACE, X>>, <<X, DASH, DASH, B>> \o CRLF,
                   <<X>> \o CRLF \o <<DASH, DASH, B, X>> \o CRLF}
MCBoundaries == {<<B>>, <<B, DASH, B>>}
MCPrologs == {<<>>, <<B>>, <<X, SPACE, B>>}
MCPaddings == {<<>>, <<SPACE, TAB>>}
=============================================================================
