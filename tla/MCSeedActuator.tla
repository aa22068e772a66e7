--------------------------- MODULE MCSeedActuator ---------------------------
(* Model checking of SeedActuator, and of the invariant that is proved of it. *)
EXTENDS SeedActuatorProofs

\* No ConfigMap, and one with a filter of each kind.
MCContents == {<<>>, <<"unmatched", "plain", "matched">>}

=============================================================================
