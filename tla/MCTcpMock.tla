----------------------------- MODULE MCTcpMock ------------------------------
(***************************************************************************)
(* A small instance of TcpMock: words of five bytes, of which a response   *)
(* takes 5 | 1 | 2 | 1, as it takes 64 | 29 | 2 | 16 in the code, and the  *)
(* mock announces four, as it announces 50 of 64.                          *)
(***************************************************************************)
EXTENDS TcpMock

MCWordBytes == 5
MCSessions  == {100}
MCLengths   == {4}
MCLines     == {MOCK_HEADLINE}
=============================================================================
