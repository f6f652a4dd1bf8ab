--------------------------- MODULE MCHealthCheck ----------------------------
(***************************************************************************)
(* Small instances of HealthCheck: a beat has two bytes, the headers of a  *)
(* response three (two words, as 93 bytes are of 64) and the body one.     *)
(***************************************************************************)
EXTENDS HealthCheck

CONSTANTS s1, s2

MCWordBytes == 2
PostLine    == <<80, 79, 83, 84, 32, 47, 32>>      \* "POST / "
MCLines     == {PostLine}

MCSessions    == {s1, s2}
MCOneSession  == {s1}

\* Requests with headers and a body of one beat; with headers and no body.
MCWithBody    == {0, 6}
MCWithoutBody == {4}
=============================================================================
