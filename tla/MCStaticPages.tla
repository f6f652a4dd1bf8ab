--------------------------- MODULE MCStaticPages ----------------------------
(***************************************************************************)
(* Small instances of StaticPages: a beat or word has two bytes; headers   *)
(* and body have three each, two words the second of which is half full.   *)
(***************************************************************************)
EXTENDS StaticPages

CONSTANTS s1, s2

MCWordBytes == 2
PostLine    == <<80, 79, 83, 84, 32, 47, 32>>      \* "POST / "
DeleteLine  == <<68, 69, 76, 69, 84, 69, 32>>      \* "DELETE "
MCLines     == {PostLine, DeleteLine}

MCSessions   == {s1, s2}

\* Requests with headers and a body of two beats.
MCWithBody == {8}
=============================================================================
