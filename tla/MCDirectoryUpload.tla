------------------------- MODULE MCDirectoryUpload -------------------------
(* A small instance of DirectoryUpload for TLC. *)
EXTENDS DirectoryUpload
=============================================================================
