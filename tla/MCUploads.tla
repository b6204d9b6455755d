------------------------------ MODULE MCUploads ------------------------------
(* Small instances of Uploads for TLC. *)
EXTENDS Uploads

CONSTANTS u1, u2, nobody
=============================================================================
