------------------------- MODULE MCResponseAligner --------------------------
(***************************************************************************)
(* The instances of ResponseAligner are given by its configurations alone: *)
(* with words of four lanes a packet can leave lanes empty, fill its word  *)
(* exactly, or overflow it, from the half (the one offset that shiftDown   *)
(* handles as meant) or from another lane.                                 *)
(***************************************************************************)
EXTENDS ResponseAligner
=============================================================================
