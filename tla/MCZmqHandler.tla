---------------------------- MODULE MCZmqHandler ----------------------------
(***************************************************************************)
(* Small instances of ZmqHandler: a request has no body or one that does   *)
(* not fit the buffer of the worker, which may or may not survive it.      *)
(***************************************************************************)
EXTENDS ZmqHandler

CONSTANTS p1, p2, r1, r2, r3

MCProcs       == {p1, p2}
MCOneProc     == {p1}
MCRequests    == {r1, r2, r3}
MCSizes       == {0, 2}
MCFits        == {1}
MCSocketTypes == {"REQ", "PUSH"}
MCRequestOnly == {"REQ"}
=============================================================================
