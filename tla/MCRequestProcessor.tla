------------------------- MODULE MCRequestProcessor -------------------------
(***************************************************************************)
(* A small instance of RequestProcessor.  A beat has two bytes, so lengths *)
(* 1..2, 3..4, 5..6 and 7..8 take one to four beats.                       *)
(***************************************************************************)
EXTENDS RequestProcessor

CONSTANTS s1, s2

MCWordBytes == 2

PostLine == <<80, 79, 83, 84, 32, 47, 32>>      \* "POST / "
MCOneLine  == {PostLine}

MCSessions == {s1, s2}

\* Closed, headline only, and four beats of which the last is half full.
MCLengths  == {0, 2, 7}
=============================================================================
