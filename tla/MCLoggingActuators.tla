-------------------------- MODULE MCLoggingActuators --------------------------
(* Model checking of LoggingActuators. *)
EXTENDS LoggingActuators

\* Events and nodes vary independently; HVPA goes with the events.
MCInputs == {[events |-> e, nodes |-> n, hvpa |-> e] : e \in BOOLEAN, n \in BOOLEAN}

===============================================================================
