-------------------------- MODULE MCAsyncMapReduce --------------------------
(* AsyncMapReduce on a payload of fixed length, for TLC. *)
EXTENDS AsyncMapReduce
=============================================================================
