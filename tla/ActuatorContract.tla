--------------------------- MODULE ActuatorContract ---------------------------
(***************************************************************************)
(* What the lifecycle controller relies on when it calls an actuator: a    *)
(* call touches only what it is asked to deploy or to drop, and when it    *)
(* reports success, everything wanted is deployed from this very call and  *)
(* of the dropped parts nothing is left, whatever earlier calls that       *)
(* failed have left behind.                                                *)
(***************************************************************************)
EXTENDS Naturals

CONSTANT Parts

VARIABLES
    job,       \* what the running call wants and drops
    n,         \* number of the call
    applied,   \* oldest call an object of the part is from, 0 when one is missing
    left,      \* parts of which any object exists
    ok         \* did the last call report success?

vars == <<job, n, applied, left, ok>>

NoJob == [wanted |-> {}, dropped |-> {}, running |-> FALSE]
Jobs == [wanted : SUBSET Parts, dropped : SUBSET Parts, running : {TRUE}]

Init ==
    /\ job = NoJob
    /\ n = 0
    /\ applied = [p \in Parts |-> 0]
    /\ left = {}
    /\ ok = TRUE

Begin ==
    /\ job = NoJob
    /\ n' = n + 1
    /\ job' \in Jobs
    /\ UNCHANGED <<applied, left, ok>>

\* A part that is neither wanted nor dropped is left alone.  One that is wanted may
\* lose objects on the way: those that are deployed anew.
Work ==
    /\ job # NoJob
    /\ applied' \in [Parts -> 0 .. n]
    /\ \A p \in Parts \ (job.wanted \cup job.dropped) : applied'[p] = applied[p]
    /\ \A p \in Parts : applied'[p] > applied[p] => p \in job.wanted
    /\ left' \subseteq left \cup job.wanted
    /\ left \subseteq left' \cup job.wanted \cup job.dropped
    /\ UNCHANGED n

Success ==
    /\ Work
    /\ job' = NoJob /\ ok' = TRUE
    /\ \A p \in job.wanted : applied'[p] = n
    /\ left' \cap job.dropped = {}

Proceed == Work /\ UNCHANGED <<job, ok>>

\* The caller must call again.
Failure == Work /\ job' = NoJob /\ ok' = FALSE

Next == Begin \/ Proceed \/ Success \/ Failure

Spec == Init /\ [][Next]_vars

=============================================================================
