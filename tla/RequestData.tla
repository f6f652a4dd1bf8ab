---------------------------- MODULE RequestData ------------------------------
(***************************************************************************)
(* The values that travel on the request path: what the TCP stack delivers *)
(* (notifications, transfers, beats) and what the application receives     *)
(* (requests, header and payload beats).  hw/hls/http_lib.h and            *)
(* hw/hls/tcp_utils.h declare them.                                        *)
(***************************************************************************)
EXTENDS MethodParser, Sequences

CONSTANTS
  WordBytes,          \* bytes in one beat of tcp_rx_data (64 in the code)
  Sessions,           \* TCP session identifiers
  Lengths,            \* lengths a notification may announce (0: closed)
  Lines               \* request lines, by their first METHOD_DEPTH bytes

ASSUME WordBytesAssumption == WordBytes \in Nat \ {0}
ASSUME LengthsAssumption   == Lengths \subseteq Nat
ASSUME LinesAssumption     == Lines \subseteq [1 .. METHOD_DEPTH -> Byte]

\* A beat carries the pos-th word of the req-th transfer of the TCP stack;
\* text is what the method decoder would read at the start of the word.
Blank == [j \in 1 .. METHOD_DEPTH |-> 0]
Texts == Lines \cup {Blank}
Data  == [req : Nat, pos : Nat, text : Texts]
Beat  == [data : Data, last : BOOLEAN]

Notification == [sessionID : Sessions, length : Lengths]
ReadRequest  == [sessionID : Sessions, length : Lengths \ {0}]
Transfer     == [sessionID : Sessions, length : Lengths \ {0}, line : Lines]
HeadlineIn   == [line : Data, sessionID : Sessions, hasHeaders : BOOLEAN, hasBody : BOOLEAN]
HeadlineOut  == [method : HttpMethods, sessionID : Sessions, hasHeaders : BOOLEAN, hasBody : BOOLEAN]
Request      == [meta : [method : HttpMethods, sessionID : Sessions],
                 method : HttpMethods, hasHeaders : BOOLEAN, hasBody : BOOLEAN]

\* Beats the TCP stack needs to deliver a transfer of this many bytes.
BeatCount(length) == (length + WordBytes - 1) \div WordBytes

\* The k-th beat of the n-th transfer m.
BeatOf(m, n, k) ==
  [data |-> [req |-> n, pos |-> k, text |-> IF k = 1 THEN m.line ELSE Blank],
   last |-> k = BeatCount(m.length)]

\* The flags state_machine derives from the length of a notification.
\* Mutant: the headers are announced one beat too early.
AnnouncesHeadersEarly(length) == length >= WordBytes
AnnouncesHeaders(length) == length >= 2 * WordBytes
AnnouncesBody(length)    == length >= 3 * WordBytes

\* The request the application is owed for the transfer m.
RequestFor(m) ==
  [meta       |-> [method |-> method_parser(m.line), sessionID |-> m.sessionID],
   method     |-> method_parser(m.line),
   hasHeaders |-> AnnouncesHeaders(m.length),
   hasBody    |-> AnnouncesBody(m.length)]
=============================================================================
