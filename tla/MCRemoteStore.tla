--------------------------- MODULE MCRemoteStore ---------------------------
(***************************************************************************)
(* RemoteStore for TLC: two people and a pipeline of two.                  *)
(***************************************************************************)
EXTENDS RemoteStore, TLC
CONSTANTS ann, bob
=============================================================================
