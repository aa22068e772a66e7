--------------------------- MODULE MCLoggingQuiet ---------------------------
(* Model checking of the controller at rest and of its inductive invariant. *)
EXTENDS LoggingQuietProofs

=============================================================================
