-------------------------- MODULE NodeLoggingProofs --------------------------
(***************************************************************************)
(* Proofs about NodeLogging, for any number of shoots, changes and crashes.*)
(* Revisions only grow on their way from the inputs to the OSC, which      *)
(* orders what an OSC can hold; and once a call has patched the OSC, some  *)
(* write is always on its way until the OSC holds the current revision.    *)
(***************************************************************************)
EXTENDS NodeLogging, TLAPS

\* From the inputs by way of the call and the secret to promtail-config.
Ascends(s) ==
    /\ use[s] <= rev[s] /\ secret[s] <= rev[s] /\ cm[s] <= secret[s]
    /\ pc[s] = "secret" => secret[s] <= use[s]
    /\ mr[s] = "absent" => cm[s] = 0

\* From promtail-config to the OSC: the units are read after the files.
Orderly(files, units, s) == files <= units /\ units <= cm[s]

Admitted(s) ==
    /\ Orderly(osc[s].files, osc[s].units, s)
    /\ write[s].phase = "units" => write[s].files <= cm[s] /\ write[s].units <= cm[s]
    /\ write[s].phase # "units" => Orderly(write[s].files, write[s].units, s)

Order == \A s \in Shoots : rev[s] \in 1 .. changes + 1 /\ Ascends(s) /\ Admitted(s)

OInv == TypeOK /\ Order

----------------------------------------------------------------------------
(* The types. *)

LEMMA InitType == Init => TypeOK
<1>1. SUFFICES ASSUME Init PROVE TypeOK
  OBVIOUS
<1>2. 0 \in Revs /\ 1 \in Revs /\ 0 \in 0 .. MaxChanges /\ 0 \in 0 .. MaxCrashes
  BY NodeLoggingAssumption DEF Revs, MaxRev
<1>3. QED
  BY <1>1, <1>2 DEF Init, TypeOK, OSC, Write, NoWrite

LEMMA NextType == OInv /\ [Next]_vars => TypeOK'
<1>1. SUFFICES ASSUME OInv, [Next]_vars PROVE TypeOK'
  OBVIOUS
<1>2. 0 \in Revs
  BY NodeLoggingAssumption DEF Revs, MaxRev
<1>3. ASSUME NEW s \in Shoots, NewInputs(s) PROVE TypeOK'
  <2>1. changes' \in 0 .. MaxChanges
    BY <1>1, <1>3, NodeLoggingAssumption DEF OInv, TypeOK, NewInputs, Requested
  <2>2. rev[s] + 1 \in Revs
    BY <1>1, <1>3, NodeLoggingAssumption DEF OInv, TypeOK, Order, NewInputs, Requested, Revs, MaxRev
  <2>3. QED
    BY <1>1, <1>3, <2>1, <2>2 DEF OInv, TypeOK, NewInputs, Requested, config, manager
<1>4. ASSUME NEW s \in Shoots, SwitchPurpose(s) PROVE TypeOK'
  <2>1. changes' \in 0 .. MaxChanges
    BY <1>1, <1>4, NodeLoggingAssumption DEF OInv, TypeOK, SwitchPurpose, Requested
  <2>2. QED
    BY <1>1, <1>4, <2>1 DEF OInv, TypeOK, SwitchPurpose, Requested, config, manager
<1>5. ASSUME NEW s \in Shoots, GardenletWrites(s) PROVE TypeOK'
  BY <1>1, <1>2, <1>5 DEF OInv, TypeOK, Write, GardenletWrites, owner, config, manager
<1>6. ASSUME NEW s \in Shoots, EnsureAdditionalFiles(s) PROVE TypeOK'
  BY <1>1, <1>6 DEF OInv, TypeOK, Write, EnsureAdditionalFiles, Ensured, owner, config, manager
<1>7. ASSUME NEW s \in Shoots, EnsureAdditionalUnits(s) PROVE TypeOK'
  BY <1>1, <1>7 DEF OInv, TypeOK, Write, EnsureAdditionalUnits, Ensured, owner, config, manager
<1>8. ASSUME NEW s \in Shoots, Store(s) PROVE TypeOK'
  BY <1>1, <1>2, <1>8 DEF OInv, TypeOK, OSC, Write, Store, NoWrite, owner, config, manager
<1>9. ASSUME NEW s \in Shoots, Start(s) PROVE TypeOK'
  BY <1>1, <1>2, <1>9 DEF OInv, TypeOK, Start, owner, config, manager
<1>10. ASSUME NEW s \in Shoots, DeleteWebhookConfiguration(s) PROVE TypeOK'
  BY <1>1, <1>10 DEF OInv, TypeOK, DeleteWebhookConfiguration, Goto, owner, config
<1>11. ASSUME NEW s \in Shoots, WriteSecret(s) PROVE TypeOK'
  BY <1>1, <1>11 DEF OInv, TypeOK, WriteSecret, Goto, owner, manager
<1>12. ASSUME NEW s \in Shoots, WriteManagedResource(s) PROVE TypeOK'
  BY <1>1, <1>12 DEF OInv, TypeOK, WriteManagedResource, Goto, owner, manager
<1>13. ASSUME NEW s \in Shoots, WaitUntilHealthy(s) PROVE TypeOK'
  BY <1>1, <1>13 DEF OInv, TypeOK, WaitUntilHealthy, Goto, owner, config, manager
<1>14. ASSUME NEW s \in Shoots, PatchOSC(s) PROVE TypeOK'
  <2>1. write' \in [Shoots -> Write]
    <3>1. osc[s].files \in Revs /\ osc[s].units \in Revs /\ write \in [Shoots -> Write]
      BY <1>1 DEF OInv, TypeOK, OSC
    <3>2. [phase |-> IF webhook THEN "files" ELSE "store", by |-> "actuator",
           files |-> osc[s].files, units |-> osc[s].units] \in Write
      BY <3>1 DEF Write
    <3>3. QED
      BY <1>14, <3>1, <3>2 DEF PatchOSC
  <2>2. /\ pc' \in [Shoots -> {"idle", "secret", "mr", "wait", "patch", "patching", "off"}]
        /\ use' \in [Shoots -> Revs]
    BY <1>1, <1>2, <1>14 DEF OInv, TypeOK, PatchOSC
  <2>3. QED
    BY <1>1, <1>14, <2>1, <2>2 DEF OInv, TypeOK, PatchOSC, owner, config, manager
<1>15. ASSUME NEW s \in Shoots, ApplyManagedResource(s) PROVE TypeOK'
  BY <1>1, <1>15 DEF OInv, TypeOK, ApplyManagedResource, owner, manager
<1>16. CASE Crash
  <2>1. crashes' \in 0 .. MaxCrashes
    BY <1>1, <1>16, NodeLoggingAssumption DEF OInv, TypeOK, Crash
  <2>2. write' \in [Shoots -> Write]
    BY <1>1, <1>2, <1>16 DEF OInv, TypeOK, Write, Crash, NoWrite
  <2>3. due' \in [Shoots -> BOOLEAN] /\ oscDue' \in [Shoots -> BOOLEAN]
    BY <1>16, Zenon DEF Crash
  <2>4. QED
    BY <1>1, <1>2, <1>16, <2>1, <2>2, <2>3 DEF OInv, TypeOK, Crash, owner, config
<1>17. CASE Restart
  BY <1>1, <1>17 DEF OInv, TypeOK, Restart, owner, config
<1>18. CASE UNCHANGED vars
  BY <1>1, <1>18 DEF OInv, TypeOK, vars, owner, config, manager
<1>19. QED
  BY <1>1, <1>3, <1>4, <1>5, <1>6, <1>7, <1>8, <1>9, <1>10, <1>11, <1>12, <1>13, <1>14,
     <1>15, <1>16, <1>17, <1>18
  DEF Next, Admission, Actuator

----------------------------------------------------------------------------
(* The order of the revisions. *)

LEMMA Numbers ==
  ASSUME TypeOK, NEW s \in Shoots
  PROVE  /\ rev[s] \in Nat /\ use[s] \in Nat /\ secret[s] \in Nat /\ cm[s] \in Nat
         /\ osc[s].files \in Nat /\ osc[s].units \in Nat
         /\ write[s].files \in Nat /\ write[s].units \in Nat /\ changes \in Nat
  BY NodeLoggingAssumption DEF TypeOK, OSC, Write, Revs, MaxRev

LEMMA InitOrder == Init => Order
<1>1. SUFFICES ASSUME Init, NEW t \in Shoots
               PROVE  rev[t] \in 1 .. changes + 1 /\ Ascends(t) /\ Admitted(t)
  BY DEF Order
<1>2. rev[t] = 1 /\ changes = 0
  BY <1>1 DEF Init
<1>3. Ascends(t)
  BY <1>1 DEF Init, Ascends
<1>4. Admitted(t)
  BY <1>1 DEF Init, Admitted, Orderly, NoWrite
<1>5. QED
  BY <1>2, <1>3, <1>4

LEMMA NextOrder == OInv /\ [Next]_vars => Order'
<1>1. SUFFICES ASSUME OInv, [Next]_vars, NEW t \in Shoots
               PROVE  (rev[t] \in 1 .. changes + 1 /\ Ascends(t) /\ Admitted(t))'
  BY DEF Order
<1> DEFINE Goal == rev[t] \in 1 .. changes + 1 /\ Ascends(t) /\ Admitted(t)
<1>2. TypeOK /\ Goal
  BY <1>1 DEF OInv, Order
<1>3. /\ rev[t] \in Nat /\ use[t] \in Nat /\ secret[t] \in Nat /\ cm[t] \in Nat
      /\ osc[t].files \in Nat /\ osc[t].units \in Nat
      /\ write[t].files \in Nat /\ write[t].units \in Nat /\ changes \in Nat
  BY <1>2, Numbers
<1>4. ASSUME NEW s \in Shoots, NewInputs(s) PROVE Goal'
  <2>1. CASE t = s
    BY <1>2, <1>3, <1>4, <2>1
    DEF TypeOK, OSC, Write, Ascends, Admitted, Orderly, NewInputs, Requested, config, manager
  <2>2. CASE t # s
    BY <1>2, <1>3, <1>4, <2>2
    DEF TypeOK, Ascends, Admitted, Orderly, NewInputs, Requested, config, manager
  <2>3. QED BY <2>1, <2>2
<1>5. ASSUME NEW s \in Shoots, SwitchPurpose(s) PROVE Goal'
  <2>1. CASE t = s
    BY <1>2, <1>3, <1>5, <2>1
    DEF TypeOK, OSC, Write, Ascends, Admitted, Orderly, SwitchPurpose, Requested, config, manager
  <2>2. CASE t # s
    BY <1>2, <1>3, <1>5, <2>2
    DEF TypeOK, Ascends, Admitted, Orderly, SwitchPurpose, Requested, config, manager
  <2>3. QED BY <2>1, <2>2
<1>6. ASSUME NEW s \in Shoots, GardenletWrites(s) PROVE Goal'
  <2>1. CASE t = s
    BY <1>2, <1>3, <1>6, <2>1
    DEF TypeOK, OSC, Write, Ascends, Admitted, Orderly, GardenletWrites, owner, config, manager
  <2>2. CASE t # s
    BY <1>2, <1>3, <1>6, <2>2
    DEF TypeOK, Ascends, Admitted, Orderly, GardenletWrites, owner, config, manager
  <2>3. QED BY <2>1, <2>2
<1>7. ASSUME NEW s \in Shoots, EnsureAdditionalFiles(s) PROVE Goal'
  <2>1. CASE t = s
    BY <1>2, <1>3, <1>7, <2>1
    DEF TypeOK, OSC, Write, Ascends, Admitted, Orderly, EnsureAdditionalFiles, Ensured, owner, config, manager
  <2>2. CASE t # s
    BY <1>2, <1>3, <1>7, <2>2
    DEF TypeOK, Ascends, Admitted, Orderly, EnsureAdditionalFiles, Ensured, owner, config, manager
  <2>3. QED BY <2>1, <2>2
<1>8. ASSUME NEW s \in Shoots, EnsureAdditionalUnits(s) PROVE Goal'
  <2>1. CASE t = s
    BY <1>2, <1>3, <1>8, <2>1
    DEF TypeOK, OSC, Write, Ascends, Admitted, Orderly, EnsureAdditionalUnits, Ensured, owner, config, manager
  <2>2. CASE t # s
    BY <1>2, <1>3, <1>8, <2>2
    DEF TypeOK, Ascends, Admitted, Orderly, EnsureAdditionalUnits, Ensured, owner, config, manager
  <2>3. QED BY <2>1, <2>2
<1>9. ASSUME NEW s \in Shoots, Store(s) PROVE Goal'
  <2>1. CASE t = s
    BY <1>2, <1>3, <1>9, <2>1
    DEF TypeOK, OSC, Write, Ascends, Admitted, Orderly, Store, NoWrite, owner, config, manager
  <2>2. CASE t # s
    BY <1>2, <1>3, <1>9, <2>2
    DEF TypeOK, Ascends, Admitted, Orderly, Store, NoWrite, owner, config, manager
  <2>3. QED BY <2>1, <2>2
<1>10. ASSUME NEW s \in Shoots, Start(s) PROVE Goal'
  <2>1. CASE t = s
    BY <1>2, <1>3, <1>10, <2>1
    DEF TypeOK, OSC, Write, Ascends, Admitted, Orderly, Start, owner, config, manager
  <2>2. CASE t # s
    BY <1>2, <1>3, <1>10, <2>2
    DEF TypeOK, Ascends, Admitted, Orderly, Start, owner, config, manager
  <2>3. QED BY <2>1, <2>2
<1>11. ASSUME NEW s \in Shoots, DeleteWebhookConfiguration(s) PROVE Goal'
  <2>1. CASE t = s
    BY <1>2, <1>3, <1>11, <2>1
    DEF TypeOK, OSC, Write, Ascends, Admitted, Orderly, DeleteWebhookConfiguration, Goto, owner, config
  <2>2. CASE t # s
    BY <1>2, <1>3, <1>11, <2>2
    DEF TypeOK, Ascends, Admitted, Orderly, DeleteWebhookConfiguration, Goto, owner, config
  <2>3. QED BY <2>1, <2>2
<1>12. ASSUME NEW s \in Shoots, WriteSecret(s) PROVE Goal'
  <2>1. CASE t = s
    BY <1>2, <1>3, <1>12, <2>1
    DEF TypeOK, OSC, Write, Ascends, Admitted, Orderly, WriteSecret, Goto, owner, manager
  <2>2. CASE t # s
    BY <1>2, <1>3, <1>12, <2>2
    DEF TypeOK, Ascends, Admitted, Orderly, WriteSecret, Goto, owner, manager
  <2>3. QED BY <2>1, <2>2
<1>13. ASSUME NEW s \in Shoots, WriteManagedResource(s) PROVE Goal'
  <2>1. CASE t = s
    BY <1>2, <1>3, <1>13, <2>1
    DEF TypeOK, OSC, Write, Ascends, Admitted, Orderly, WriteManagedResource, Goto, owner, manager
  <2>2. CASE t # s
    BY <1>2, <1>3, <1>13, <2>2
    DEF TypeOK, Ascends, Admitted, Orderly, WriteManagedResource, Goto, owner, manager
  <2>3. QED BY <2>1, <2>2
<1>14. ASSUME NEW s \in Shoots, WaitUntilHealthy(s) PROVE Goal'
  <2>1. CASE t = s
    BY <1>2, <1>3, <1>14, <2>1
    DEF TypeOK, OSC, Write, Ascends, Admitted, Orderly, WaitUntilHealthy, Goto, owner, config, manager
  <2>2. CASE t # s
    BY <1>2, <1>3, <1>14, <2>2
    DEF TypeOK, Ascends, Admitted, Orderly, WaitUntilHealthy, Goto, owner, config, manager
  <2>3. QED BY <2>1, <2>2
<1>15. ASSUME NEW s \in Shoots, PatchOSC(s) PROVE Goal'
  <2>1. CASE t = s
    BY <1>2, <1>3, <1>15, <2>1
    DEF TypeOK, OSC, Write, Ascends, Admitted, Orderly, PatchOSC, owner, config, manager
  <2>2. CASE t # s
    BY <1>2, <1>3, <1>15, <2>2
    DEF TypeOK, Ascends, Admitted, Orderly, PatchOSC, owner, config, manager
  <2>3. QED BY <2>1, <2>2
<1>16. ASSUME NEW s \in Shoots, ApplyManagedResource(s) PROVE Goal'
  <2>1. CASE t = s
    BY <1>2, <1>3, <1>16, <2>1
    DEF TypeOK, OSC, Write, Ascends, Admitted, Orderly, ApplyManagedResource, owner, manager
  <2>2. CASE t # s
    BY <1>2, <1>3, <1>16, <2>2
    DEF TypeOK, Ascends, Admitted, Orderly, ApplyManagedResource, owner, manager
  <2>3. QED BY <2>1, <2>2
<1>17. CASE Crash
  BY <1>2, <1>3, <1>17 DEF TypeOK, Ascends, Admitted, Orderly, Crash, NoWrite, owner, config
<1>18. CASE Restart
  BY <1>2, <1>3, <1>18 DEF TypeOK, Ascends, Admitted, Orderly, Restart, owner, config
<1>19. CASE UNCHANGED vars
  BY <1>2, <1>19 DEF Ascends, Admitted, Orderly, vars, owner, config, manager
<1>20. QED
  BY <1>1, <1>4, <1>5, <1>6, <1>7, <1>8, <1>9, <1>10, <1>11, <1>12, <1>13, <1>14, <1>15, <1>16, <1>17, <1>18, <1>19
  DEF Next, Admission, Actuator

LEMMA OrderInvariance == Spec => []OInv
  BY InitType, NextType, InitOrder, NextOrder, PTL DEF Spec, OInv

(***************************************************************************)
(* Every variable keeps its type, for any shoots and bounds.               *)
(***************************************************************************)
THEOREM TypeCorrect == Spec => []TypeOK
  BY OrderInvariance, PTL DEF OInv

(***************************************************************************)
(* An OSC never holds files of promtail that are newer than its units.     *)
(***************************************************************************)
THEOREM FilesFollowUnits == Spec => []FilesNotNewer
<1>1. OInv => FilesNotNewer
  BY DEF OInv, Order, Admitted, Orderly, FilesNotNewer
<1>2. QED
  BY <1>1, OrderInvariance, PTL

(***************************************************************************)
(* A shoot without a ManagedResource of its own has no trace of promtail.  *)
(***************************************************************************)
THEOREM OwnConfiguration == Spec => []OnlyOwnConfiguration
<1>1. OInv => OnlyOwnConfiguration
  BY Numbers DEF OInv, Order, Ascends, Admitted, Orderly, OnlyOwnConfiguration
<1>2. QED
  BY <1>1, OrderInvariance, PTL

----------------------------------------------------------------------------
(* The arrival of the current revision, while the webhook is registered.   *)

\* What a call deploys is current as long as no new one is requested.
CallCurrent(s) ==
    /\ ~due[s] /\ pc[s] \in {"secret", "mr", "wait", "patch", "patching"} => use[s] = rev[s]
    /\ pc[s] \in {"mr", "wait", "patch", "patching"} => secret[s] = use[s]
    /\ pc[s] \in {"patch", "patching"} => mr[s] = "applied" /\ cm[s] = secret[s]

\* An OSC that is not stored yet will be; no write in admission belongs to nobody.
WriteOwned(s) ==
    /\ ~osc[s].exists /\ ~oscDue[s] => write[s].by = "gardenlet"
    /\ write[s].phase \in {"files", "units"} => write[s].by = "gardenlet" \/ pc[s] = "patching"

\* The OSC holds the current revision, or a write which brings it is on its way.
Covered(s) ==
    \/ oscDue[s]
    \/ write[s].phase = "none" /\ Installed(s)
    \/ write[s].phase = "files"
    \/ write[s].phase = "units" /\ write[s].files = rev[s]
    \/ write[s].phase = "store" /\ write[s].files = rev[s] /\ write[s].units = rev[s]

\* From the patch of the OSC until the next request.
Patched(s) == ~due[s] /\ (pc[s] = "patching" \/ (pc[s] = "idle" /\ enabled[s]))

Delivered(s) ==
    Patched(s) => mr[s] = "applied" /\ secret[s] = rev[s] /\ cm[s] = rev[s] /\ Covered(s)

Arrives(s) == CallCurrent(s) /\ WriteOwned(s) /\ Delivered(s)

Undisturbed == ~removed /\ PromptGRM /\ FreshCache

AInv == Undisturbed => webhook /\ \A s \in Shoots : Arrives(s)

LEMMA InitArrival == Init => AInv
  BY DEF Init, AInv, Arrives, CallCurrent, WriteOwned, Delivered, Patched, NoWrite

\* Only one action removes the webhook configuration, and it is remembered.
LEMMA StillRegistered ==
  ASSUME [Next]_vars, ~removed'
  PROVE  ~removed /\ (webhook => webhook')
<1>1. ASSUME NEW s \in Shoots, NewInputs(s) \/ SwitchPurpose(s) \/ GardenletWrites(s)
      PROVE  ~removed /\ (webhook => webhook')
  BY <1>1 DEF NewInputs, SwitchPurpose, Requested, GardenletWrites, manager
<1>2. ASSUME NEW s \in Shoots, Admission(s)
      PROVE  ~removed /\ (webhook => webhook')
  BY <1>2 DEF Admission, EnsureAdditionalFiles, EnsureAdditionalUnits, Store, manager
<1>3. ASSUME NEW s \in Shoots, Actuator(s)
      PROVE  ~removed /\ (webhook => webhook')
  <2>1. CASE DeleteWebhookConfiguration(s)
    BY <2>1 DEF DeleteWebhookConfiguration
  <2>2. CASE PatchOSC(s)
    BY <2>2 DEF PatchOSC, manager
  <2>3. CASE Start(s) \/ WriteSecret(s) \/ WriteManagedResource(s) \/ WaitUntilHealthy(s)
    BY <2>3 DEF Start, WriteSecret, WriteManagedResource, WaitUntilHealthy, manager
  <2>4. QED BY <1>3, <2>1, <2>2, <2>3 DEF Actuator
<1>4. ASSUME NEW s \in Shoots, ApplyManagedResource(s)
      PROVE  ~removed /\ (webhook => webhook')
  BY <1>4 DEF ApplyManagedResource, manager
<1>5. CASE Crash \/ Restart
  <2>1. CASE Crash
    BY <2>1 DEF Crash
  <2>2. CASE Restart
    BY <2>2, Zenon DEF Restart
  <2>3. QED BY <1>5, <2>1, <2>2
<1>6. CASE UNCHANGED vars
  BY <1>6 DEF vars, manager
<1>7. QED
  BY <1>1, <1>2, <1>3, <1>4, <1>5, <1>6 DEF Next

LEMMA NextArrival == OInv /\ AInv /\ [Next]_vars => AInv'
<1> SUFFICES ASSUME OInv, AInv, [Next]_vars, Undisturbed'
             PROVE  (webhook /\ \A s \in Shoots : Arrives(s))'
  BY DEF AInv
<1>0. Undisturbed /\ webhook /\ webhook'
  BY StillRegistered DEF AInv, Undisturbed
<1>1. SUFFICES ASSUME NEW t \in Shoots PROVE Arrives(t)'
  BY <1>0
<1>2. webhook /\ Arrives(t) /\ PromptGRM /\ FreshCache
  BY <1>0 DEF AInv, Undisturbed
<1>3. TypeOK /\ rev[t] # 0
  BY DEF OInv, Order
<1>4. ASSUME NEW s \in Shoots, NewInputs(s) PROVE Arrives(t)'
  <2>1. CASE t = s
    BY <1>2, <1>3, <1>4, <2>1
    DEF TypeOK, OSC, Write, Arrives, CallCurrent, WriteOwned, Delivered, Patched, Covered, Installed, NewInputs, Requested, config, manager
  <2>2. CASE t # s
    BY <1>2, <1>3, <1>4, <2>2
    DEF TypeOK, Arrives, CallCurrent, WriteOwned, Delivered, Patched, Covered, Installed, NewInputs, Requested, config, manager
  <2>3. QED BY <2>1, <2>2
<1>5. ASSUME NEW s \in Shoots, SwitchPurpose(s) PROVE Arrives(t)'
  <2>1. CASE t = s
    BY <1>2, <1>3, <1>5, <2>1
    DEF TypeOK, OSC, Write, Arrives, CallCurrent, WriteOwned, Delivered, Patched, Covered, Installed, SwitchPurpose, Requested, config, manager
  <2>2. CASE t # s
    BY <1>2, <1>3, <1>5, <2>2
    DEF TypeOK, Arrives, CallCurrent, WriteOwned, Delivered, Patched, Covered, Installed, SwitchPurpose, Requested, config, manager
  <2>3. QED BY <2>1, <2>2
<1>6. ASSUME NEW s \in Shoots, GardenletWrites(s) PROVE Arrives(t)'
  <2>1. CASE t = s
    BY <1>2, <1>3, <1>6, <2>1
    DEF TypeOK, OSC, Write, Arrives, CallCurrent, WriteOwned, Delivered, Patched, Covered, Installed, GardenletWrites, owner, config, manager
  <2>2. CASE t # s
    BY <1>2, <1>3, <1>6, <2>2
    DEF TypeOK, Arrives, CallCurrent, WriteOwned, Delivered, Patched, Covered, Installed, GardenletWrites, owner, config, manager
  <2>3. QED BY <2>1, <2>2
<1>7. ASSUME NEW s \in Shoots, EnsureAdditionalFiles(s) PROVE Arrives(t)'
  <2>1. CASE t = s
    BY <1>2, <1>3, <1>7, <2>1
    DEF TypeOK, OSC, Write, Arrives, CallCurrent, WriteOwned, Delivered, Patched, Covered, Installed, EnsureAdditionalFiles, Ensured, owner, config, manager
  <2>2. CASE t # s
    BY <1>2, <1>3, <1>7, <2>2
    DEF TypeOK, Arrives, CallCurrent, WriteOwned, Delivered, Patched, Covered, Installed, EnsureAdditionalFiles, Ensured, owner, config, manager
  <2>3. QED BY <2>1, <2>2
<1>8. ASSUME NEW s \in Shoots, EnsureAdditionalUnits(s) PROVE Arrives(t)'
  <2>1. CASE t = s
    BY <1>2, <1>3, <1>8, <2>1
    DEF TypeOK, OSC, Write, Arrives, CallCurrent, WriteOwned, Delivered, Patched, Covered, Installed, EnsureAdditionalUnits, Ensured, owner, config, manager
  <2>2. CASE t # s
    BY <1>2, <1>3, <1>8, <2>2
    DEF TypeOK, Arrives, CallCurrent, WriteOwned, Delivered, Patched, Covered, Installed, EnsureAdditionalUnits, Ensured, owner, config, manager
  <2>3. QED BY <2>1, <2>2
<1>9. ASSUME NEW s \in Shoots, Store(s) PROVE Arrives(t)'
  <2>1. CASE t = s
    BY <1>2, <1>3, <1>9, <2>1
    DEF TypeOK, OSC, Write, Arrives, CallCurrent, WriteOwned, Delivered, Patched, Covered, Installed, Store, NoWrite, owner, config, manager
  <2>2. CASE t # s
    BY <1>2, <1>3, <1>9, <2>2
    DEF TypeOK, Arrives, CallCurrent, WriteOwned, Delivered, Patched, Covered, Installed, Store, NoWrite, owner, config, manager
  <2>3. QED BY <2>1, <2>2
<1>10. ASSUME NEW s \in Shoots, Start(s) PROVE Arrives(t)'
  <2>1. CASE t = s
    BY <1>2, <1>3, <1>10, <2>1
    DEF TypeOK, OSC, Write, Arrives, CallCurrent, WriteOwned, Delivered, Patched, Covered, Installed, Start, owner, config, manager
  <2>2. CASE t # s
    BY <1>2, <1>3, <1>10, <2>2
    DEF TypeOK, Arrives, CallCurrent, WriteOwned, Delivered, Patched, Covered, Installed, Start, owner, config, manager
  <2>3. QED BY <2>1, <2>2
<1>11. ASSUME NEW s \in Shoots, DeleteWebhookConfiguration(s) PROVE Arrives(t)'
  BY <1>11 DEF DeleteWebhookConfiguration, Undisturbed
<1>12. ASSUME NEW s \in Shoots, WriteSecret(s) PROVE Arrives(t)'
  <2>1. CASE t = s
    BY <1>2, <1>3, <1>12, <2>1
    DEF TypeOK, OSC, Write, Arrives, CallCurrent, WriteOwned, Delivered, Patched, Covered, Installed, WriteSecret, Goto, owner, manager
  <2>2. CASE t # s
    BY <1>2, <1>3, <1>12, <2>2
    DEF TypeOK, Arrives, CallCurrent, WriteOwned, Delivered, Patched, Covered, Installed, WriteSecret, Goto, owner, manager
  <2>3. QED BY <2>1, <2>2
<1>13. ASSUME NEW s \in Shoots, WriteManagedResource(s) PROVE Arrives(t)'
  <2>1. CASE t = s
    BY <1>2, <1>3, <1>13, <2>1
    DEF TypeOK, OSC, Write, Arrives, CallCurrent, WriteOwned, Delivered, Patched, Covered, Installed, WriteManagedResource, Goto, owner, manager
  <2>2. CASE t # s
    BY <1>2, <1>3, <1>13, <2>2
    DEF TypeOK, Arrives, CallCurrent, WriteOwned, Delivered, Patched, Covered, Installed, WriteManagedResource, Goto, owner, manager
  <2>3. QED BY <2>1, <2>2
<1>14. ASSUME NEW s \in Shoots, WaitUntilHealthy(s) PROVE Arrives(t)'
  <2>1. CASE t = s
    BY <1>2, <1>3, <1>14, <2>1
    DEF TypeOK, OSC, Write, Arrives, CallCurrent, WriteOwned, Delivered, Patched, Covered, Installed, WaitUntilHealthy, Healthy, Goto, owner, config, manager
  <2>2. CASE t # s
    BY <1>2, <1>3, <1>14, <2>2
    DEF TypeOK, Arrives, CallCurrent, WriteOwned, Delivered, Patched, Covered, Installed, WaitUntilHealthy, Healthy, Goto, owner, config, manager
  <2>3. QED BY <2>1, <2>2
<1>15. ASSUME NEW s \in Shoots, PatchOSC(s) PROVE Arrives(t)'
  <2>1. CASE t = s
    BY <1>2, <1>3, <1>15, <2>1
    DEF TypeOK, OSC, Write, Arrives, CallCurrent, WriteOwned, Delivered, Patched, Covered, Installed, PatchOSC, NoWrite, owner, config, manager
  <2>2. CASE t # s
    BY <1>2, <1>3, <1>15, <2>2
    DEF TypeOK, Arrives, CallCurrent, WriteOwned, Delivered, Patched, Covered, Installed, PatchOSC, NoWrite, owner, config, manager
  <2>3. QED BY <2>1, <2>2
<1>16. ASSUME NEW s \in Shoots, ApplyManagedResource(s) PROVE Arrives(t)'
  <2>1. CASE t = s
    BY <1>2, <1>3, <1>16, <2>1
    DEF TypeOK, OSC, Write, Arrives, CallCurrent, WriteOwned, Delivered, Patched, Covered, Installed, ApplyManagedResource, owner, manager
  <2>2. CASE t # s
    BY <1>2, <1>3, <1>16, <2>2
    DEF TypeOK, Arrives, CallCurrent, WriteOwned, Delivered, Patched, Covered, Installed, ApplyManagedResource, owner, manager
  <2>3. QED BY <2>1, <2>2
<1>17. CASE Crash
  BY <1>2, <1>3, <1>17 DEF TypeOK, OSC, Write, Arrives, CallCurrent, WriteOwned, Delivered, Patched, Covered, Installed, Crash, NoWrite, owner, config
<1>18. CASE Restart
  BY <1>2, <1>3, <1>18 DEF TypeOK, OSC, Write, Arrives, CallCurrent, WriteOwned, Delivered, Patched, Covered, Installed, Restart, owner, config
<1>19. CASE UNCHANGED vars
  BY <1>2, <1>19 DEF Arrives, CallCurrent, WriteOwned, Delivered, Patched, Covered, Installed, vars, owner, config, manager
<1>20. QED
  BY <1>1, <1>2, <1>4, <1>5, <1>6, <1>7, <1>8, <1>9, <1>10, <1>11, <1>12, <1>13, <1>14, <1>15, <1>16, <1>17, <1>18, <1>19
  DEF Next, Admission, Actuator

LEMMA ArrivalInvariance == Spec => []AInv
  BY InitType, InitOrder, InitArrival, NextArrival, OrderInvariance, PTL DEF Spec

(***************************************************************************)
(* When nothing is left to do, every shoot with node logging has the files *)
(* and units of its current inputs, for any number of shoots, changes and  *)
(* crashes, while the webhook is registered, when the resource manager is  *)
(* prompt and the cache of OSCs fresh (both are needed: node_logging_stale *)
(* shows it for the first).                                                *)
(***************************************************************************)
THEOREM Installation ==
  ASSUME PromptGRM, FreshCache
  PROVE  Spec => []InstalledWhileRegistered
<1>1. AInv => InstalledWhileRegistered
  <2>1. SUFFICES ASSUME AInv, ~removed, NEW s \in Shoots, Settled(s), enabled[s]
                 PROVE  Installed(s)
    BY DEF InstalledWhileRegistered
  <2>2. Delivered(s)
    BY <2>1 DEF AInv, Undisturbed, Arrives
  <2>3. QED
    BY <2>1, <2>2 DEF Delivered, Patched, Covered, Settled, NoWrite
<1>2. QED
  BY <1>1, ArrivalInvariance, PTL

=============================================================================
