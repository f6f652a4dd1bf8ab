------------------------- MODULE MCResponseProcessor ------------------------
(***************************************************************************)
(* Small instances of ResponseProcessor.  A word has two bytes: sizes 1, 2 *)
(* and 3 take one word, partly or wholly filled, and two.  A length has 16 *)
(* values, or 8, where two parts of 3 bytes announce a length that wraps.  *)
(***************************************************************************)
EXTENDS ResponseProcessor

CONSTANTS s1, s2

MCSessions    == {s1, s2}
MCStatusCodes == {"OK_200", "NOT_FOUND_404"}
MCSizes       == {1, 2, 3}

MCResponse(s, c, h, b) ==
  [sessionID |-> s, status_code |-> c, headers_size |-> h, body_size |-> b]

\* One word and one; two and two, 8 bytes with the CR LF.
MCResponses == {MCResponse(s1, "OK_200", 2, 1), MCResponse(s2, "NOT_FOUND_404", 3, 3)}
=============================================================================
