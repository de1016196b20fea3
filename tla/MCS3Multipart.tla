--------------------------- MODULE MCS3Multipart ---------------------------
(* A small instance of S3Multipart: every bucket and configuration. *)
EXTENDS S3Multipart, TLC

AllModes == [versioned: BOOLEAN, checksums: BOOLEAN, verify: BOOLEAN]
Callers == Permutations(Uploaders)
=============================================================================
