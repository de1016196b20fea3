---------------------------- MODULE MCS3Readers ----------------------------
(* A small instance of S3Readers: the put inputs of MCS3Objects. *)
EXTENDS MCS3Objects, S3Readers
=============================================================================
