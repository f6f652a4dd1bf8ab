---------------------------- MODULE MethodParser ----------------------------
(***************************************************************************)
(* The combinational method decoder of hw/hls/method_parser.cc: it matches *)
(* the first bytes of the request line against a table of seven names.     *)
(* A line is represented by its first METHOD_DEPTH bytes, the only ones    *)
(* the decoder looks at.                                                   *)
(***************************************************************************)
EXTENDS Naturals

METHOD_COUNT == 7
METHOD_DEPTH == 7

Byte == 0 .. 255

\* One row per method, in ASCII, padded with zero to METHOD_DEPTH.
matrix == <<
  << 67,  79,  78,  78,  69,  67,  84>>,   \* CONNECT
  << 68,  69,  76,  69,  84,  69,   0>>,   \* DELETE
  << 71,  69,  84,   0,   0,   0,   0>>,   \* GET
  << 72,  69,  65,  68,   0,   0,   0>>,   \* HEAD
  << 79,  80,  84,  73,  79,  78,  83>>,   \* OPTIONS
  << 80,  79,  83,  84,   0,   0,   0>>,   \* POST
  << 80,  85,  84,   0,   0,   0,   0>> >> \* PUT

\* HttpMethod, in the order of the enumeration; err is the value 0.
HttpMethods == {"err", "CONNECT", "DELETE", "GET", "HEAD", "OPTIONS", "POST", "PUT"}
HttpMethod(value) ==
  <<"err", "CONNECT", "DELETE", "GET", "HEAD", "OPTIONS", "POST", "PUT">>[value + 1]

\* result[i] of the decoder: every non-zero byte of the row equals the line's.
RowMatches(i, line) ==
  \A j \in 1 .. METHOD_DEPTH : matrix[i][j] # 0 => line[j] = matrix[i][j]

\* The highest matching row wins, 0 (err) when none does.
method_parser(line) ==
  LET matching == {i \in 1 .. METHOD_COUNT : RowMatches(i, line)}
      value    == CHOOSE v \in {0} \cup matching : \A i \in matching : i <= v
  IN  HttpMethod(value)
=============================================================================
