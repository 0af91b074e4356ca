----------------------------- MODULE MCTcpRelay -----------------------------
(***************************************************************************)
(* Instances of TcpRelay: the second frame of each direction has no frame   *)
(* length.                                                                  *)
(***************************************************************************)
EXTENDS TcpRelay

Second == {2}
=============================================================================
