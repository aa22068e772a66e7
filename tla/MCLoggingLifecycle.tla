------------------------- MODULE MCLoggingLifecycle -------------------------
(* Model checking of LoggingLifecycle and of its inductive invariant. *)
EXTENDS LoggingFinalizerProofs, TLC

\* No part is special: sound for the runs that check safety.
PartsSymmetry == Permutations(Parts)

=============================================================================
