---------------------------- MODULE LoggingPromise ----------------------------
(***************************************************************************)
(* What the lifecycle controller promises about one Logging resource and   *)
(* the logging stack deployed for it, whatever the order of requests,      *)
(* events and failures: the stack is deployed only while the resource is   *)
(* held (by the finalizer), and the resource is released only when nothing *)
(* of the stack is left.                                                   *)
(***************************************************************************)
CONSTANT Parts

VARIABLES held, deployed

Init == held = FALSE /\ deployed = {}

Hold == ~held /\ held' = TRUE /\ UNCHANGED deployed

Release == held /\ deployed = {} /\ held' = FALSE /\ UNCHANGED deployed

Deploy(p) == held /\ deployed' = deployed \cup {p} /\ UNCHANGED held

Undeploy(p) == held /\ deployed' = deployed \ {p} /\ UNCHANGED held

Next == Hold \/ Release \/ \E p \in Parts : Deploy(p) \/ Undeploy(p)

Spec == Init /\ [][Next]_<<held, deployed>>

=============================================================================
