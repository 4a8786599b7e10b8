--------------------------- MODULE MCArchivePush ---------------------------
(* Model-checking instance of ArchivePush.                                  *)
EXTENDS ArchivePush
=============================================================================
