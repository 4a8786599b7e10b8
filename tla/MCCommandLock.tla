--------------------------- MODULE MCCommandLock ---------------------------
(* Model-checking instance of CommandLock.                                  *)
EXTENDS CommandLock

=============================================================================
