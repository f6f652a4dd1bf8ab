---------------------------- MODULE ResponseData -----------------------------
(***************************************************************************)
(* The values that travel on the response path (hw/hls/http_lib.h and      *)
(* hw/hls/tcp_utils.h): what the application offers and what goes to the   *)
(* aligner.  The application is external; of it, the path relies on this:  *)
(* for each response it writes, on three streams it serves independently,  *)
(* the response itself, then the headers and the body in as many words as  *)
(* their sizes take (at least one each), last set on the final one.        *)
(***************************************************************************)
EXTENDS Naturals, Sequences

CONSTANTS
  WordBytes,          \* bytes in a word           (64 in the code)
  LengthValues,       \* values of an ap_uint<16>  (65536 in the code)
  Sessions,           \* TCP session identifiers
  StatusCodes,        \* HttpStatus
  Sizes               \* sizes of headers and bodies, in bytes

ASSUME ResponseDataAssumption ==
  /\ WordBytes \in Nat \ {0}
  /\ LengthValues \in Nat \ {0}
  /\ Sizes \subseteq Nat \ {0}

Response == [sessionID : Sessions, status_code : StatusCodes,
             headers_size : Sizes, body_size : Sizes]

\* A word of the part (headers or body) of a response: which one it is, the
\* bytes it keeps, last.
Parts == {"headers", "crlf", "body"}
Word  == [rsp : Nat, part : Parts, pos : Nat, bytes : Nat, last : BOOLEAN]

WordCount(size) == (size + WordBytes - 1) \div WordBytes

\* The k-th word of a part of the n-th response, size bytes in all.
WordOf(n, part, k, size) ==
  [rsp |-> n, part |-> part, pos |-> k,
   bytes |-> IF k < WordCount(size) THEN WordBytes ELSE size - (k - 1) * WordBytes,
   last |-> k = WordCount(size)]

\* The CR LF between headers and body, the same for every response.
Crlf == [rsp |-> 0, part |-> "crlf", pos |-> 1, bytes |-> 2, last |-> FALSE]

\* A word that is not the last of its packet.
Middle(word) == [word EXCEPT !.last = FALSE]

\* The sum of line 57 of response_processor.cc, cut to 16 bits.
Announced(r) == (r.body_size + r.headers_size + 2) % LengthValues

TxRequest  == [sessionID : Sessions, length : Nat]
TxAnswer   == [sessionID : Sessions, error : 0 .. 3]     \* error: an ap_uint<2>

\* The line status_code_parser makes of a status code: the constant prefix and
\* the row of the table.
StatusLine(code) == [prefix |-> "HTTP/1.1", row |-> code]
=============================================================================
