------------------------ MODULE ActuatorContractProofs ------------------------
(***************************************************************************)
(* The calls of the actuators implement ActuatorContract: what their plans *)
(* write and delete are the objects of the parts that the job names.       *)
(***************************************************************************)
EXTENDS LoggingActuatorsProofs

----------------------------------------------------------------------------
(* The mapping. *)

LEMMA PartNames ==
  DOMAIN Parts = {"eventLogger", "rbacProxy", "loki", "access", "secrets", "promtail",
                  "fluentBit"}
  BY DEF Parts

LEMMA PartObjects ==
  \A p \in DOMAIN Parts :
     Parts[p] # {} /\ Parts[p] \subseteq Objects /\ "webhook-config" \notin Parts[p]
<1>1. PICK in \in Inputs : TRUE
  BY ActuatorAssumption
<1>2. Deletes("shoot", "Delete", in) \cup Deletes("seed", "Delete", in) \subseteq Objects
  BY PlanObjects DEF Types, Operations
<1>3. Parts.eventLogger \cup Parts.rbacProxy \cup Parts.secrets \cup Parts.loki
      \cup Parts.access \cup Parts.promtail \cup Parts.fluentBit \subseteq Objects
  BY <1>2 DEF Deletes
<1>4. QED
  BY <1>3 DEF Parts

LEMMA Least ==
  ASSUME NEW S \in SUBSET Nat, S # {}
  PROVE  \E n \in S : \A m \in S : n <= m
<1>1. PICK n \in S : \A m \in S : <<m, n>> \notin OpToRel(<, Nat)
  BY NatLessThanWellFounded, WFMin
<1>2. \A m \in S : ~(m < n)
  BY <1>1 DEF OpToRel
<1>3. QED
  BY <1>2

\* What applied shows of a part: the age of its oldest object.
OldestIs ==
    \A p \in DOMAIN Parts :
       /\ \E o \in Parts[p] : Oldest(Parts[p]) = Alive(o)
       /\ \A o \in Parts[p] : Oldest(Parts[p]) <= Alive(o)

Ages == \A o \in Objects : Alive(o) \in Nat /\ (o # "webhook-config" => Alive(o) <= calls)

LEMMA AgesAre == TypeOK /\ Existing => Ages
<1> SUFFICES ASSUME TypeOK, Existing, NEW o \in Objects
             PROVE  Alive(o) \in Nat /\ (o # "webhook-config" => Alive(o) <= calls)
  BY DEF Ages
<1>1. have[o] \in Nat /\ calls \in Nat
  BY ActuatorAssumption DEF TypeOK
<1>2. have[o] # 0 /\ o # "webhook-config" => have[o] <= calls
  BY DEF Existing
<1>3. QED
  BY <1>1, <1>2 DEF Alive

LEMMA OldestOfParts == Ages => OldestIs
<1> SUFFICES ASSUME Ages, NEW p \in DOMAIN Parts
             PROVE  /\ \E o \in Parts[p] : Oldest(Parts[p]) = Alive(o)
                    /\ \A o \in Parts[p] : Oldest(Parts[p]) <= Alive(o)
  BY DEF OldestIs
<1> DEFINE S == {Alive(o) : o \in Parts[p]}
<1>1. S \in SUBSET Nat /\ S # {}
  BY PartObjects DEF Ages
<1>2. \E n \in S : \A o \in Parts[p] : n <= Alive(o)
  <2>1. PICK n \in S : \A m \in S : n <= m
    <3> HIDE DEF S
    <3>1. QED
      BY <1>1, Least
  <2>2. QED
    BY <2>1
<1>3. Oldest(Parts[p]) \in S /\ \A o \in Parts[p] : Oldest(Parts[p]) <= Alive(o)
  BY <1>2 DEF Oldest
<1>4. QED
  BY <1>3

\* What the running call writes and deletes, by parts.
LEMMA JobParts ==
  ASSUME type \in Types, call.operation \in Operations, Running
  PROVE  LET W == Writes(type, call.operation, call.in)
             D == Deletes(type, call.operation, call.in)
         IN  \A p \in DOMAIN Parts :
                /\ p \in Wanted => Parts[p] \subseteq W
                /\ p \notin Wanted => Parts[p] \cap W = {}
                /\ p \in Dropped => Parts[p] \subseteq D
                /\ p \notin Dropped => Parts[p] \cap D = {}
<1>1. CASE call.operation = "Delete"
  <2> DEFINE D == Deletes(type, call.operation, call.in)
             misnamed == " allow-to-loki"
  <2>1. \A p \in DOMAIN Parts : misnamed \notin Parts[p]
    <3>1. misnamed \notin Parts.eventLogger \cup Parts.rbacProxy \cup Parts.loki
                          \cup Parts.access \cup Parts.secrets \cup Parts.promtail
                          \cup Parts.fluentBit
      BY DEF Parts
    <3> HIDE DEF misnamed
    <3>2. QED
      BY <3>1 DEF Parts
  <2> HIDE DEF misnamed
  <2>2. \A p, q \in DOMAIN Parts : q # p => Parts[p] \cap Parts[q] = {}
    BY DEF Parts
  <2>3. CASE type = "seed"
    <3>1. D = Parts["loki"] \cup Parts["fluentBit"] \cup {misnamed}
      BY <1>1, <2>3 DEF Deletes, Parts, misnamed
    <3>2. /\ Writes(type, call.operation, call.in) = {}
          /\ Wanted = {} /\ Dropped = {"loki", "fluentBit"}
      BY <1>1, <2>3 DEF Writes, Wanted, Dropped
    <3> HIDE DEF D
    <3>3. \A p \in DOMAIN Parts : p \notin {"loki", "fluentBit"} => Parts[p] \cap D = {}
      BY <2>1, <2>2, <3>1, PartNames
    <3>4. QED
      BY <3>1, <3>2, <3>3, PartNames DEF D
  <2>4. CASE type = "shoot"
    <3>1. D = Parts["eventLogger"] \cup Parts["rbacProxy"] \cup Parts["secrets"]
              \cup Parts["loki"] \cup Parts["access"] \cup Parts["promtail"] \cup {misnamed}
      BY <1>1, <2>4 DEF Deletes, Parts, misnamed
    <3>2. /\ Writes(type, call.operation, call.in) = {}
          /\ Wanted = {} /\ Dropped = DOMAIN Parts \ {"fluentBit"}
      BY <1>1, <2>4, PartNames DEF Writes, Wanted, Dropped, NodeLogging
    <3> HIDE DEF D
    <3>3. Parts["fluentBit"] \cap D = {}
      BY <2>1, <2>2, <3>1, PartNames
    <3>4. \A p \in DOMAIN Parts \ {"fluentBit"} : Parts[p] \subseteq D
      BY <3>1, PartNames
    <3>5. QED
      BY <3>2, <3>3, <3>4 DEF D
  <2>5. QED
    BY <2>3, <2>4 DEF Types
<1>2. CASE call.operation = "Reconcile" /\ type = "seed"
  BY <1>2 DEF Writes, Deletes, Wanted, Dropped, Parts, SeedChartRest
<1>3. CASE call.operation = "Reconcile" /\ type = "shoot"
  BY <1>3 DEF Writes, Deletes, Wanted, Dropped, Parts, NodeLogging, NodeObjects, ShootChartRest
<1>4. QED
  BY <1>1, <1>2, <1>3 DEF Types, Operations

JobIs ==
    /\ Wanted \subseteq DOMAIN Parts /\ Dropped \subseteq DOMAIN Parts
    /\ ~Running => /\ Wanted = {} /\ Dropped = {}
                   /\ [wanted |-> Wanted, dropped |-> Dropped, running |-> Running]
                      = Contract!NoJob

LEMMA JobsAre == JobIs
<1>1. Wanted \subseteq DOMAIN Parts /\ Dropped \subseteq DOMAIN Parts
  BY PartNames DEF Wanted, Dropped, NodeLogging
<1>2. ASSUME ~Running PROVE Wanted = {} /\ Dropped = {} /\ Running = FALSE
  BY <1>2, IdleIs DEF Wanted, Dropped, Running
<1>3. QED
  BY <1>1, <1>2 DEF JobIs, Contract!NoJob

----------------------------------------------------------------------------
(* Steps of the calls. *)

\* A request ages only what the call writes, and touches nothing else but what it deletes.
LEMMA TouchedAlive ==
  ASSUME TypeOK, Existing, Running, InCall, Touch, UNCHANGED calls
  PROVE  LET W == Writes(type, call.operation, call.in)
             D == Deletes(type, call.operation, call.in)
         IN  \A o \in Objects :
                /\ o \notin W => AliveAfter(o) \in {0, Alive(o)}
                /\ o \notin W \cup D => AliveAfter(o) = Alive(o)
<1> DEFINE W == Writes(type, call.operation, call.in)
           D == Deletes(type, call.operation, call.in)
<1> SUFFICES ASSUME NEW o \in Objects, o \notin W
             PROVE  AliveAfter(o) \in {0, Alive(o)} /\ (o \notin D => AliveAfter(o) = Alive(o))
  OBVIOUS
<1>1. CASE o # request.obj
  BY <1>1, Touched
<1>2. CASE o = request.obj
  <2>1. request.verb \notin {"apply", "manifest"} /\ (o \notin D => request.verb # "delete")
        /\ request.verb # "resize"
    BY <1>2, RunningPlan DEF InCall, request
  <2>2. have'[o] \in {0, have[o]} /\ dying \subseteq dying'
    BY <2>1, Touched
  <2>3. AliveAfter(o) \in {0, Alive(o)}
    BY <2>2 DEF Alive, AliveAfter
  <2>4. request.verb # "delete" => UNCHANGED <<have, dying>>
    BY <2>1 DEF Touch
  <2>5. QED
    BY <2>1, <2>3, <2>4 DEF Alive, AliveAfter
<1>3. QED
  BY <1>1, <1>2

\* A call that succeeds has executed its whole plan.
LEMMA Finished ==
  ASSUME TypeOK, Existing, Running, InCall, Touch, UNCHANGED calls, PromptGRM,
         Done, pc >= Len(plan)
  PROVE  /\ \A o \in Writes(type, call.operation, call.in) : AliveAfter(o) = calls
         /\ \A o \in Deletes(type, call.operation, call.in) : AliveAfter(o) = 0
<1>1. /\ pc \in 1 .. Len(plan) /\ pc \in Nat /\ Len(plan) \in Nat
      /\ Sequence(plan) /\ Ordered(plan)
      /\ Named(plan, {"apply", "manifest"}) = Writes(type, call.operation, call.in)
      /\ Named(plan, {"delete"}) = Deletes(type, call.operation, call.in)
  BY RunningPlan DEF InCall, TypeOK
<1>2. pc = Len(plan) /\ 1 .. Len(plan) = 1 .. pc
  BY <1>1
<1>3. ~errors
  <2>1. request.verb # "manifest"
    BY <1>1, <1>2 DEF Ordered, request
  <2>2. QED
    BY <2>1 DEF InCall, Done
<1>4. ASSUME NEW o \in Writes(type, call.operation, call.in)
      PROVE  AliveAfter(o) = calls
  <2>1. PICK i \in 1 .. pc : plan[i].verb \in {"apply", "manifest"} /\ plan[i].obj = o
    BY <1>1, <1>2, NamedIs
  <2>2. QED
    BY <1>3, <2>1, AppliedAfter
<1>5. ASSUME NEW o \in Deletes(type, call.operation, call.in)
      PROVE  AliveAfter(o) = 0
  <2>1. PICK i \in 1 .. pc : plan[i].verb = "delete" /\ plan[i].obj = o
    BY <1>1, <1>2, NamedIs
  <2>2. QED
    BY <2>1, DeletedAfter
<1>6. QED
  BY <1>4, <1>5

Age == [p \in DOMAIN Parts |-> Oldest(Parts[p])]
Left == {p \in DOMAIN Parts : \E o \in Parts[p] : Alive(o) # 0}

\* What a step does to the parts, given what it does to their objects.
LEMMA PartStep ==
  ASSUME OldestIs, OldestIs', Ages, Ages', NEW p \in DOMAIN Parts
  PROVE  /\ (\A o \in Parts[p] : AliveAfter(o) \in {0, Alive(o)})
            => /\ Age'[p] <= Age[p]
               /\ p \in Left' => p \in Left
         /\ (\A o \in Parts[p] : AliveAfter(o) = Alive(o))
            => /\ Age'[p] = Age[p]
               /\ p \in Left' <=> p \in Left
         /\ (\A o \in Parts[p] : AliveAfter(o) = calls') => Age'[p] = calls'
         /\ (\A o \in Parts[p] : AliveAfter(o) = 0) => p \notin Left'
         /\ Age'[p] \in 0 .. calls'
<1>1. /\ Age[p] = Oldest(Parts[p]) /\ Age'[p] = Oldest(Parts[p])'
      /\ p \in Left <=> \E o \in Parts[p] : Alive(o) # 0
      /\ p \in Left' <=> \E o \in Parts[p] : AliveAfter(o) # 0
  BY DEF Age, Left, Alive, AliveAfter
<1>2. PICK a \in Parts[p] : Age[p] = Alive(a)
  BY <1>1 DEF OldestIs
<1>3. PICK b \in Parts[p] : Age'[p] = AliveAfter(b)
  BY <1>1 DEF OldestIs, Alive, AliveAfter
<1>4. /\ \A o \in Parts[p] : Age[p] <= Alive(o)
      /\ \A o \in Parts[p] : Age'[p] <= AliveAfter(o)
  BY <1>1 DEF OldestIs, Alive, AliveAfter
<1>5. \A o \in Parts[p] : /\ Alive(o) \in Nat
                          /\ AliveAfter(o) \in Nat /\ AliveAfter(o) <= calls'
  BY PartObjects DEF Ages, Alive, AliveAfter
<1>6. QED
  BY <1>1, <1>2, <1>3, <1>4, <1>5

LEMMA MappingIsTyped == AInv => Ages /\ OldestIs
  BY AgesAre, OldestOfParts DEF AInv

\* A request is work on the job.
LEMMA CallWorks ==
  ASSUME AInv, AInv', CallStep, OldestIs, OldestIs', Ages, Ages'
  PROVE  Contract!Work
<1>1. /\ TypeOK /\ Existing /\ Running /\ InCall /\ Touch /\ UNCHANGED calls
      /\ type \in Types /\ call.operation \in Operations
  BY DEF AInv, CallStep, InCall, TypeOK
<1> DEFINE W == Writes(type, call.operation, call.in)
           D == Deletes(type, call.operation, call.in)
<1>2. \A p \in DOMAIN Parts : /\ p \notin Wanted => Parts[p] \cap W = {}
                              /\ p \notin Dropped => Parts[p] \cap D = {}
  BY <1>1, JobParts
<1>3. \A o \in Objects : /\ o \notin W => AliveAfter(o) \in {0, Alive(o)}
                         /\ o \notin W \cup D => AliveAfter(o) = Alive(o)
  BY <1>1, TouchedAlive
<1> HIDE DEF W, D
<1>4. ASSUME NEW p \in DOMAIN Parts
      PROVE  /\ Age'[p] \in 0 .. calls
             /\ p \notin Wanted => Age'[p] <= Age[p] /\ (p \in Left' => p \in Left)
             /\ p \notin Wanted \cup Dropped
                => Age'[p] = Age[p] /\ (p \in Left' <=> p \in Left)
  <2>1. ASSUME NEW o \in Parts[p]
        PROVE  /\ p \notin Wanted => AliveAfter(o) \in {0, Alive(o)}
               /\ p \notin Wanted \cup Dropped => AliveAfter(o) = Alive(o)
    <3>1. o \in Objects
      BY PartObjects
    <3>2. (p \notin Wanted => o \notin W) /\ (p \notin Dropped => o \notin D)
      BY <1>2
    <3>3. QED
      BY <1>3, <3>1, <3>2
  <2>2. /\ p \notin Wanted => \A o \in Parts[p] : AliveAfter(o) \in {0, Alive(o)}
        /\ p \notin Wanted \cup Dropped => \A o \in Parts[p] : AliveAfter(o) = Alive(o)
    BY <2>1
  <2>3. QED
    BY <1>1, <2>1, <2>2, PartStep
<1>5. \A p \in DOMAIN Parts : Age[p] \in Nat /\ Age'[p] \in Nat
  <2>1. \A p \in DOMAIN Parts : Age[p] \in Nat
    BY PartObjects DEF OldestIs, Ages, Age
  <2>2. \A p \in DOMAIN Parts : Age'[p] \in Nat
    BY <1>4
  <2>3. QED
    BY <2>1, <2>2
<1>6. Age' \in [DOMAIN Parts -> 0 .. calls]
  BY <1>4 DEF Age
<1>7. \A p \in DOMAIN Parts : Age'[p] > Age[p] => p \in Wanted
  BY <1>4, <1>5
<1>8. Left' \subseteq Left \cup Wanted /\ Left \subseteq Left' \cup Wanted \cup Dropped
  BY <1>4 DEF Left
<1>9. QED
  BY <1>1, <1>4, <1>6, <1>7, <1>8
  DEF Contract!Work, Contract!NoJob, Age, Left

\* Calls as the contract sees them.
LEMMA CallMaps ==
  ASSUME AInv, AInv', PromptGRM, CallStep, OldestIs, OldestIs', Ages, Ages'
  PROVE  Contract!Next
<1>1. /\ TypeOK /\ Existing /\ Running /\ InCall /\ Touch /\ UNCHANGED <<type, calls>>
      /\ type \in Types /\ call.operation \in Operations
  BY DEF AInv, CallStep, InCall, TypeOK
<1>2. Contract!Work
  BY CallWorks
<1>3. CASE Goes /\ UNCHANGED last
  BY <1>2, <1>3 DEF Contract!Next, Contract!Proceed, Goes, Wanted, Dropped, Running
<1>4. ASSUME End(TRUE) \/ End(FALSE)
      PROVE  [wanted |-> Wanted, dropped |-> Dropped, running |-> Running]' = Contract!NoJob
  <2>1. ~Running'
    BY <1>4 DEF End, Running
  <2>2. JobIs'
    BY JobsAre, PTL
  <2>3. QED
    BY <2>1, <2>2 DEF JobIs, Contract!NoJob
<1>5. CASE End(FALSE)
  BY <1>2, <1>4, <1>5 DEF Contract!Next, Contract!Failure, End
<1>6. CASE End(TRUE)
  <2>1. Done /\ pc >= Len(plan)
    BY <1>6 DEF CallStep, End, Running
  <2>2. \A p \in Wanted : Age'[p] = calls
    BY <1>1, <2>1, Finished, JobParts, JobsAre, PartStep DEF JobIs
  <2>3. Left' \cap Dropped = {}
    BY <1>1, <2>1, Finished, JobParts, JobsAre, PartStep DEF JobIs
  <2>4. QED
    BY <1>2, <1>4, <1>6, <2>2, <2>3 DEF Contract!Next, Contract!Success, End, Age, Left
<1>7. QED
  BY <1>1, <1>3, <1>5, <1>6, CallStepGoes

LEMMA StartMaps ==
  ASSUME AInv, NEW operation \in Operations, NEW in \in Inputs, Start(operation, in)
  PROVE  Contract!Next
<1>1. /\ ~Running /\ calls' = calls + 1
      /\ UNCHANGED <<type, have, dying, last>>
      /\ call' = [operation |-> operation, in |-> in]
  BY DEF Start
<1>2. Running'
  BY <1>1, IdleIs DEF Running, Operations
<1>3. JobIs /\ JobIs'
  BY JobsAre, PTL
<1>4. [wanted |-> Wanted, dropped |-> Dropped, running |-> Running]' \in Contract!Jobs
  BY <1>2, <1>3 DEF JobIs, Contract!Jobs
<1>5. UNCHANGED <<Age, Left>>
  BY <1>1 DEF Age, Left, Oldest, Alive
<1>6. QED
  BY <1>1, <1>3, <1>4, <1>5
  DEF JobIs, Age, Left, Contract!Next, Contract!Begin

\* The resource manager works beside the contract.
LEMMA GRMMaps ==
  ASSUME AInv, OldestIs, OldestIs', Ages, Ages',
         NEW mr \in ManagedResources, Sync(mr) \/ Finalize(mr)
  PROVE  UNCHANGED Contract!vars
<1>1. UNCHANGED <<type, call, calls, last>>
  BY DEF Sync, Finalize, caller
<1>2. \A o \in Objects : AliveAfter(o) = Alive(o)
  BY GRMAlive DEF AInv
<1>3. \A p \in DOMAIN Parts : Age'[p] = Age[p] /\ (p \in Left' <=> p \in Left)
  BY <1>2, PartObjects, PartStep
<1>4. Age' = Age /\ Left' = Left
  BY <1>3 DEF Age, Left
<1>5. UNCHANGED <<Wanted, Dropped, Running>>
  BY <1>1 DEF Wanted, Dropped, Running
<1>6. QED
  BY <1>1, <1>4, <1>5 DEF Contract!vars, Age, Left

LEMMA StutterMaps == UNCHANGED vars => UNCHANGED Contract!vars
<1> SUFFICES ASSUME UNCHANGED vars PROVE UNCHANGED Contract!vars
  OBVIOUS
<1>1. UNCHANGED <<Age, Left>>
  BY DEF vars, Age, Left, Oldest, Alive
<1>2. UNCHANGED <<Wanted, Dropped, Running>>
  BY DEF vars, Wanted, Dropped, Running
<1>3. QED
  BY <1>1, <1>2 DEF vars, Contract!vars, Age, Left

LEMMA NextMaps ==
  ASSUME PromptGRM
  PROVE  AInv /\ AInv' /\ [Next]_vars => [Contract!Next]_(Contract!vars)
<1> SUFFICES ASSUME AInv, AInv', [Next]_vars PROVE [Contract!Next]_(Contract!vars)
  OBVIOUS
<1>1. Ages /\ OldestIs
  BY MappingIsTyped
<1>2. Ages' /\ OldestIs'
  BY MappingIsTyped, PTL
<1>3. ASSUME NEW operation \in Operations, NEW in \in Inputs, Start(operation, in)
      PROVE  Contract!Next
  BY <1>3, StartMaps
<1>4. ASSUME Step \/ CallFails \/ ManifestFails
      PROVE  Contract!Next
  BY <1>1, <1>2, <1>4, StepIsCallStep, CallMaps DEF AInv
<1>5. ASSUME GRM
      PROVE  UNCHANGED Contract!vars
  BY <1>1, <1>2, <1>5, GRMMaps DEF GRM
<1>6. QED
  BY <1>3, <1>4, <1>5, StutterMaps DEF Next

LEMMA InitMaps == Init => Contract!Init
<1> SUFFICES ASSUME Init PROVE Contract!Init
  OBVIOUS
<1>1. \A p \in DOMAIN Parts : \A o \in Parts[p] : Alive(o) = 0
  BY PartObjects DEF Init, Alive
<1>2. ~Running /\ JobIs
  BY JobsAre DEF Init, Running
<1>3. OldestIs
  BY InitInvariant, MappingIsTyped
<1>4. \A p \in DOMAIN Parts : Oldest(Parts[p]) = 0
  BY <1>1, <1>3 DEF OldestIs
<1>5. Left = {} /\ Age = [p \in DOMAIN Parts |-> 0]
  BY <1>1, <1>4 DEF Left, Age
<1>6. QED
  BY <1>2, <1>5 DEF Init, JobIs, Contract!Init, Left, Age

\* When the resource manager has finalized what a removal deleted before the next
\* deployment, the calls implement ActuatorContract, for any inputs, and however many
\* calls failed, at whatever request, in between: a call that succeeds has deployed from
\* scratch all that it wants, has left nothing of what it drops, and no call disturbs
\* another part.
THEOREM CallsKeepTheContract ==
  ASSUME PromptGRM
  PROVE  Spec => KeepsContract
<1>1. Init => Contract!Init
  BY InitMaps
<1>2. AInv /\ AInv' /\ [Next]_vars => [Contract!Next]_(Contract!vars)
  BY NextMaps
<1>3. Spec => Contract!Spec
  BY <1>1, <1>2, Invariant, PTL DEF Spec, Contract!Spec
<1>4. QED
  BY <1>3 DEF KeepsContract
===============
