------------------------ MODULE RollingUpdateProofs ------------------------
(***************************************************************************)
(* Theorems about RollingUpdate, for any number of updates and of faults.  *)
(***************************************************************************)
EXTENDS RollingUpdate, TLAPS

\* The names are pairwise distinct, and a canary is never routed.
LEMMA NamesDistinct ==
    ASSUME NEW t \in Updates, NEW u \in Updates
    PROVE  /\ Prod \in Names /\ Canary(t) \in Names /\ Old(t) \in Names
           /\ Prod \in Routed /\ Old(t) \in Routed /\ Canary(t) \notin Routed
           /\ Prod # Old(t)
           /\ Old(t) = Old(u) => t = u
BY DEF Prod, Canary, Old, Names, Routed

\* A statement on the row changes nothing but the row and the observers.
LEMMA RowTyped ==
    ASSUME TypeOK, NEW after \in RowType, NEW ok \in BOOLEAN, RowUpdate(after, ok)
    PROVE  /\ row' \in RowType
           /\ faults' \in 0..MaxFaults
           /\ blamed' \subseteq Names \cup {Registry}
BY StateAssumption DEF RowUpdate, Answer, TypeOK

LEMMA StatusTyped ==
    ASSUME TypeOK, NEW s \in Statuses, NEW ok \in BOOLEAN, UpdateStatus(s, ok)
    PROVE  /\ row' \in RowType
           /\ faults' \in 0..MaxFaults
           /\ blamed' \subseteq Names \cup {Registry}
<1> [row EXCEPT !.status = s] \in RowType
  BY DEF TypeOK, RowType
<1> QED BY RowTyped DEF UpdateStatus

LEMMA RunningTyped ==
    ASSUME TypeOK, NEW v \in Makers, NEW ok \in BOOLEAN, UpdateRunning(v, ok)
    PROVE  /\ row' \in RowType
           /\ faults' \in 0..MaxFaults
           /\ blamed' \subseteq Names \cup {Registry}
<1> [status |-> "running", container |-> v] \in RowType
  BY DEF RowType, Statuses
<1> QED BY RowTyped DEF UpdateRunning

\* Every Docker call of the model does something well formed.
LEMMA CallsTyped ==
    ASSUME TypeOK, NEW n \in Names, NEW m \in Names, NEW v \in Makers,
           NEW ok \in BOOLEAN,
           \/ DockerCreate(n, v, ok) \/ DockerStart(n, ok) \/ DockerStop(n, ok)
           \/ DockerRemove(n, ok) \/ DockerForceRemove(n, ok)
           \/ DockerRename(n, m, ok)
    PROVE  /\ cont' \in [Names -> Container]
           /\ faults' \in 0..MaxFaults
           /\ blamed' \subseteq Names \cup {Registry}
<1>0. NoContainer \in Container
  BY DEF NoContainer, Container, Makers, Versions
<1>1. CASE DockerCreate(n, v, ok)
  <2> [cont EXCEPT ![n] = [by |-> v, img |-> tag, st |-> "created"]]
        \in [Names -> Container]
    BY DEF TypeOK, Container
  <2> QED BY <1>1, StateAssumption DEF DockerCreate, Docker, Answer, TypeOK
<1>2. CASE DockerStart(n, ok)
  <2> [cont EXCEPT ![n].st = "running"] \in [Names -> Container]
    BY DEF TypeOK, Container
  <2> QED BY <1>2, StateAssumption DEF DockerStart, Docker, Answer, TypeOK
<1>3. CASE DockerStop(n, ok)
  <2> [cont EXCEPT ![n].st = IF @ = "running" THEN "exited" ELSE @]
        \in [Names -> Container]
    BY DEF TypeOK, Container
  <2> QED BY <1>3, StateAssumption DEF DockerStop, Docker, Answer, TypeOK
<1>4. CASE DockerRemove(n, ok)
  <2> [cont EXCEPT ![n] = NoContainer] \in [Names -> Container]
    BY <1>0 DEF TypeOK
  <2> QED BY <1>4, StateAssumption DEF DockerRemove, Docker, Answer, TypeOK
<1>5. CASE DockerForceRemove(n, ok)
  <2> [cont EXCEPT ![n] = NoContainer] \in [Names -> Container]
    BY <1>0 DEF TypeOK
  <2> QED BY <1>5, StateAssumption DEF DockerForceRemove, Docker, Answer, TypeOK
<1>6. CASE DockerRename(n, m, ok)
  <2> [cont EXCEPT ![m] = cont[n], ![n] = NoContainer] \in [Names -> Container]
    BY <1>0 DEF TypeOK
  <2> QED BY <1>6, StateAssumption DEF DockerRename, Docker, Answer, TypeOK
<1> QED BY <1>1, <1>2, <1>3, <1>4, <1>5, <1>6

-----------------------------------------------------------------------------

\* What TypeOK says of the update's own variables.
TaskTypeOK ==
    /\ pc \in [Updates -> Steps \cup Finished]
    /\ attempts \in [Updates -> 1..MaxAttempts]
    /\ outcome \in [Updates -> Outcomes]

LEMMA InitTyped == Init => TypeOK
<1> SUFFICES ASSUME Init PROVE TypeOK
  OBVIOUS
<1>1. cont \in [Names -> Container]
  BY DEF Init, InitialStates, Container, NoContainer, Makers, Versions
<1>2. row \in RowType /\ expectUp \in BOOLEAN
  BY DEF Init, InitialStates, RowType, Statuses, Makers, Versions
<1> QED
  BY <1>1, <1>2, StateAssumption
  DEF Init, TypeOK, Versions, Steps, Finished, MaxAttempts, Outcomes

\* Each step of an update keeps the types.
LEMMA TaskStepTyped ==
    ASSUME TypeOK, NEW t \in Updates, Begin(t) \/ TaskStep(t)
    PROVE  TypeOK'
<1> t \in Makers
  BY DEF Makers, Versions
<1> USE DEF Goto, Decide, Branch, DockerStep, RowStep, CleanupStep
<1>1. CASE Begin(t)
  <2>1. PICK ok \in BOOLEAN : UpdateStatus("building", ok)
    BY <1>1 DEF Begin
  <2>2. "building" \in Statuses
    BY DEF Statuses
  <2>3. TaskTypeOK'
    BY <1>1 DEF Begin, TypeOK, TaskTypeOK, Steps, Finished, Outcomes
  <2> QED BY <1>1, <2>1, <2>2, <2>3, StatusTyped DEF Begin, TypeOK, TaskTypeOK
<1>2. CASE Build(t)
  BY <1>2 DEF Build, TypeOK, Versions, Steps, Outcomes
<1>3. CASE CreateCanary(t)
  <2>1. PICK ok \in BOOLEAN : DockerCreate(Canary(t), t, ok)
    BY <1>3 DEF CreateCanary
  <2>2. TaskTypeOK'
    BY <1>3 DEF CreateCanary, TypeOK, TaskTypeOK, Steps, Outcomes
  <2> QED BY <1>3, <2>1, <2>2, CallsTyped, NamesDistinct
          DEF CreateCanary, TypeOK, TaskTypeOK
<1>4. CASE StartCanary(t)
  <2>1. PICK ok \in BOOLEAN : DockerStart(Canary(t), ok)
    BY <1>4 DEF StartCanary
  <2>2. TaskTypeOK'
    BY <1>4 DEF StartCanary, TypeOK, TaskTypeOK, Steps, Outcomes
  <2> QED BY <1>4, <2>1, <2>2, CallsTyped, NamesDistinct
          DEF StartCanary, TypeOK, TaskTypeOK
<1>5. CASE ProbeCanary(t)
  BY <1>5 DEF ProbeCanary, TypeOK, Steps, Outcomes
<1>6. CASE MoveOld(t)
  <2>1. TaskTypeOK'
    BY <1>6 DEF MoveOld, TypeOK, TaskTypeOK, Steps, Outcomes
  <2>2. UNCHANGED <<row, tag, passed, expectUp>>
    BY <1>6 DEF MoveOld
  <2>3. CASE \E ok \in BOOLEAN : DockerRename(Prod, Old(t), ok)
    BY <2>1, <2>2, <2>3, CallsTyped, NamesDistinct DEF TypeOK, TaskTypeOK
  <2>4. CASE UNCHANGED <<cont, faults, blamed>>
    BY <2>1, <2>2, <2>4 DEF TypeOK, TaskTypeOK
  <2> QED BY <1>6, <2>3, <2>4 DEF MoveOld
<1>7. CASE CreateNew(t)
  <2>1. PICK ok \in BOOLEAN : DockerCreate(Prod, t, ok)
    BY <1>7 DEF CreateNew
  <2>2. TaskTypeOK'
    BY <1>7 DEF CreateNew, TypeOK, TaskTypeOK, Steps, Outcomes
  <2> QED BY <1>7, <2>1, <2>2, CallsTyped, NamesDistinct
          DEF CreateNew, TypeOK, TaskTypeOK
<1>8. CASE StartNew(t)
  <2>1. PICK ok \in BOOLEAN : DockerStart(Prod, ok)
    BY <1>8 DEF StartNew
  <2>2. TaskTypeOK'
    BY <1>8 DEF StartNew, TypeOK, TaskTypeOK, Steps, Outcomes
  <2> QED BY <1>8, <2>1, <2>2, CallsTyped, NamesDistinct
          DEF StartNew, TypeOK, TaskTypeOK
<1>9. CASE ProbeNew(t)
  BY <1>9 DEF ProbeNew, TypeOK, Steps, Outcomes, sharedVars
<1>10. CASE Register(t)
  <2>1. PICK ok \in BOOLEAN : UpdateRunning(t, ok)
    BY <1>10 DEF Register, Registered, NotRegistered
  <2>2. pc[t] = "register" /\ attempts[t] \in 1..MaxAttempts
    BY <1>10 DEF Register, TypeOK
  <2>3. CASE Registered(t)
    <3>1. TaskTypeOK'
      BY <2>3 DEF Registered, TypeOK, TaskTypeOK, Steps, Outcomes
    <3>2. expectUp' \in BOOLEAN
      BY <2>3 DEF Registered, TypeOK
    <3> QED BY <1>10, <2>1, <3>1, <3>2, RunningTyped DEF Register, TypeOK, TaskTypeOK
  <2>4. CASE NotRegistered(t)
    <3>1. TaskTypeOK'
      BY <2>2, <2>4
      DEF NotRegistered, TypeOK, TaskTypeOK, Steps, Outcomes, MaxAttempts
    <3>2. UNCHANGED expectUp
      BY <2>4 DEF NotRegistered
    <3> QED BY <1>10, <2>1, <3>1, <3>2, RunningTyped DEF Register, TypeOK, TaskTypeOK
  <2> QED BY <1>10, <2>3, <2>4 DEF Register
<1>11. CASE StopOld(t)
  <2>1. PICK ok \in BOOLEAN : DockerStop(Old(t), ok)
    BY <1>11 DEF StopOld
  <2>2. TaskTypeOK'
    BY <1>11 DEF StopOld, TypeOK, TaskTypeOK, Steps, Outcomes
  <2> QED BY <1>11, <2>1, <2>2, CallsTyped, NamesDistinct
          DEF StopOld, TypeOK, TaskTypeOK
<1>12. CASE RemoveOld(t)
  <2>1. PICK ok \in BOOLEAN : DockerRemove(Old(t), ok)
    BY <1>12 DEF RemoveOld
  <2>2. TaskTypeOK'
    BY <1>12 DEF RemoveOld, TypeOK, TaskTypeOK, Steps, Outcomes
  <2> QED BY <1>12, <2>1, <2>2, CallsTyped, NamesDistinct
          DEF RemoveOld, TypeOK, TaskTypeOK
<1>13. CASE RemoveNew(t)
  <2>1. PICK ok \in BOOLEAN : DockerForceRemove(Prod, ok)
    BY <1>13 DEF RemoveNew
  <2>2. TaskTypeOK'
    BY <1>13 DEF RemoveNew, TypeOK, TaskTypeOK, Steps, Outcomes
  <2> QED BY <1>13, <2>1, <2>2, CallsTyped, NamesDistinct
          DEF RemoveNew, TypeOK, TaskTypeOK
<1>14. CASE RestoreOld(t)
  <2>1. PICK ok \in BOOLEAN : DockerRename(Old(t), Prod, ok)
    BY <1>14 DEF RestoreOld
  <2>2. TaskTypeOK'
    BY <1>14 DEF RestoreOld, TypeOK, TaskTypeOK, Steps, Outcomes
  <2> QED BY <1>14, <2>1, <2>2, CallsTyped, NamesDistinct
          DEF RestoreOld, TypeOK, TaskTypeOK
<1>15. CASE StopCanary(t)
  <2>1. PICK ok \in BOOLEAN : DockerStop(Canary(t), ok)
    BY <1>15 DEF StopCanary
  <2>2. TaskTypeOK'
    BY <1>15 DEF StopCanary, TypeOK, TaskTypeOK, Steps, Outcomes
  <2> QED BY <1>15, <2>1, <2>2, CallsTyped, NamesDistinct
          DEF StopCanary, TypeOK, TaskTypeOK
<1>16. CASE RemoveCanary(t)
  <2>1. PICK ok \in BOOLEAN : DockerRemove(Canary(t), ok)
    BY <1>16 DEF RemoveCanary
  <2>2. TaskTypeOK'
    BY <1>16 DEF RemoveCanary, TypeOK, TaskTypeOK, Steps, Outcomes
  <2> QED BY <1>16, <2>1, <2>2, CallsTyped, NamesDistinct
          DEF RemoveCanary, TypeOK, TaskTypeOK
<1>17. CASE Report(t)
  <2>1. TaskTypeOK'
    BY <1>17 DEF Report, TypeOK, TaskTypeOK, Steps, Finished
  <2>2. {"running", "failed"} \subseteq Statuses
    BY DEF Statuses
  <2>3. CASE UNCHANGED <<row, faults, blamed>>
    BY <1>17, <2>1, <2>3 DEF Report, TypeOK, TaskTypeOK
  <2>4. CASE \E s \in {"running", "failed"}, ok \in BOOLEAN : UpdateStatus(s, ok)
    BY <1>17, <2>1, <2>2, <2>4, StatusTyped DEF Report, TypeOK, TaskTypeOK
  <2> QED BY <1>17, <2>3, <2>4 DEF Report
<1> QED
  BY <1>1, <1>2, <1>3, <1>4, <1>5, <1>6, <1>7, <1>8, <1>9, <1>10, <1>11,
     <1>12, <1>13, <1>14, <1>15, <1>16, <1>17
  DEF TaskStep

\* TypeOK is an invariant of the rolling update.
THEOREM TypeCorrect == Spec => []TypeOK
<1>1. TypeOK /\ [Next]_vars => TypeOK'
  <2> SUFFICES ASSUME TypeOK, [Next]_vars PROVE TypeOK'
    OBVIOUS
  <2>1. CASE \E t \in Updates : Begin(t) \/ TaskStep(t)
    BY <2>1, TaskStepTyped
  <2>2. CASE \E n \in Names : ContainerExits(n)
    BY <2>2 DEF ContainerExits, TypeOK, Container, updateVars
  <2>3. CASE ServerCrash
    BY <2>3 DEF ServerCrash, TypeOK, Finished, sharedVars
  <2>4. CASE UNCHANGED vars
    BY <2>4 DEF vars, sharedVars, updateVars, TypeOK
  <2> QED BY <2>1, <2>2, <2>3, <2>4 DEF Next
<1> QED BY <1>1, InitTyped, PTL DEF Spec

-----------------------------------------------------------------------------
(* The service invariant                                                    *)

\* A call on one name leaves the containers of the other names alone.
LEMMA CallsFrame ==
    ASSUME TypeOK, NEW n \in Names, NEW v \in Makers, NEW ok \in BOOLEAN,
           \/ DockerCreate(n, v, ok) \/ DockerStart(n, ok) \/ DockerStop(n, ok)
           \/ DockerRemove(n, ok) \/ DockerForceRemove(n, ok)
    PROVE  \A m \in Names \ {n} : cont'[m] = cont[m]
BY DEF DockerCreate, DockerStart, DockerStop, DockerRemove,
       DockerForceRemove, Docker, TypeOK

\* No call on a canary touches a container that gets traffic.
LEMMA CanaryFrame ==
    ASSUME TypeOK, NEW t \in Updates, NEW ok \in BOOLEAN,
           \/ DockerCreate(Canary(t), t, ok) \/ DockerStart(Canary(t), ok)
           \/ DockerStop(Canary(t), ok) \/ DockerRemove(Canary(t), ok)
    PROVE  \A m \in Routed : cont'[m] = cont[m]
<1>1. t \in Makers /\ Canary(t) \in Names
  BY NamesDistinct DEF Makers, Versions
<1>2. \A m \in Routed : m \in Names \ {Canary(t)}
  BY NamesDistinct DEF Routed, Names
<1> QED BY <1>1, <1>2, CallsFrame

\* The same for a call on the container that was moved aside.
LEMMA OldFrame ==
    ASSUME TypeOK, NEW t \in Updates, NEW ok \in BOOLEAN,
           DockerStop(Old(t), ok) \/ DockerRemove(Old(t), ok)
    PROVE  /\ \A m \in Routed \ {Old(t)} : cont'[m] = cont[m]
           /\ cont'[Old(t)].by \in {cont[Old(t)].by, Base}
<1>1. t \in Makers /\ Old(t) \in Names
  BY NamesDistinct DEF Makers, Versions
<1>2. \A m \in Routed \ {Old(t)} : m \in Names \ {Old(t)}
  BY DEF Routed, Names
<1>3. cont'[Old(t)].by \in {cont[Old(t)].by, Base}
  BY <1>1 DEF DockerStop, DockerRemove, Docker, NoContainer, TypeOK, Container
<1> QED BY <1>1, <1>2, <1>3, CallsFrame

\* A step of update t that leaves every routed container and both observers
\* alone and does not enter one of the critical stages keeps the invariant.
LEMMA QuietStep ==
    ASSUME TypeOK, ServiceInv, NEW t \in Updates, InFlight(t),
           \A m \in Routed : cont'[m] = cont[m],
           UNCHANGED <<passed, expectUp>>,
           NEW l \in (Steps \cup Finished)
                       \ (Replacing \cup {"stop_old", "remove_old", "idle"}),
           l \in {"build", "create_canary", "start_canary", "probe_canary", "move_old"}
             => pc[t] \in {"build", "create_canary", "start_canary", "probe_canary"},
           pc' = [pc EXCEPT ![t] = l]
    PROVE  ServiceInv'
<1>1. \A n \in Routed : Live(n)' <=> Live(n)
  BY DEF Live
<1>2. Prod \in Routed /\ \A u \in Updates : Old(u) \in Routed
  BY DEF Routed
<1>3. \A u \in Updates : pc'[u] = IF u = t THEN l ELSE pc[u]
  BY DEF TypeOK
<1>4. ServiceKept'
  BY <1>1 DEF ServiceInv, ServiceKept, Serving
<1>5. OneInFlight'
  BY <1>3 DEF ServiceInv, OneInFlight, InFlight
<1>6. OwnIsProd'
  BY <1>2, <1>3 DEF ServiceInv, OwnIsProd, InFlight, Finished, Replacing
<1>7. SpareServes'
  BY <1>1, <1>3 DEF ServiceInv, SpareServes, Replacing
<1>8. NewServes'
  BY <1>1, <1>2, <1>3 DEF ServiceInv, NewServes, Replacing
<1> QED BY <1>4, <1>5, <1>6, <1>7, <1>8 DEF ServiceInv

\* The steps before the old container is moved, and the last ones.
LEMMA QuietSteps ==
    ASSUME TypeOK, ServiceInv, NEW t \in Updates,
           \/ Build(t) \/ CreateCanary(t) \/ StartCanary(t) \/ ProbeCanary(t)
           \/ StopCanary(t) \/ RemoveCanary(t) \/ Report(t)
    PROVE  ServiceInv'
<1> USE DEF Goto, Branch, DockerStep, RowStep, CleanupStep, Steps, Finished, Replacing,
            InFlight
<1>1. CASE Build(t)
  BY <1>1, QuietStep DEF Build, sharedVars
<1>2. CASE CreateCanary(t)
  <2>1. \A m \in Routed : cont'[m] = cont[m]
    BY <1>2, CanaryFrame DEF CreateCanary
  <2> QED BY <1>2, <2>1, QuietStep DEF CreateCanary
<1>3. CASE StartCanary(t)
  <2>1. \A m \in Routed : cont'[m] = cont[m]
    BY <1>3, CanaryFrame DEF StartCanary
  <2> QED BY <1>3, <2>1, QuietStep DEF StartCanary
<1>4. CASE ProbeCanary(t)
  BY <1>4, QuietStep DEF ProbeCanary
<1>5. CASE StopCanary(t)
  <2>1. \A m \in Routed : cont'[m] = cont[m]
    BY <1>5, CanaryFrame DEF StopCanary
  <2> QED BY <1>5, <2>1, QuietStep DEF StopCanary
<1>6. CASE RemoveCanary(t)
  <2>1. \A m \in Routed : cont'[m] = cont[m]
    BY <1>6, CanaryFrame DEF RemoveCanary
  <2> QED BY <1>6, <2>1, QuietStep DEF RemoveCanary
<1>7. CASE Report(t)
  BY <1>7, QuietStep DEF Report
<1> QED BY <1>1, <1>2, <1>3, <1>4, <1>5, <1>6, <1>7

\* An update starts only when no other one is in flight.
LEMMA BeginKeeps ==
    ASSUME TypeOK, ServiceInv, Concurrent = FALSE, NEW t \in Updates, Begin(t)
    PROVE  ServiceInv'
<1> USE DEF Begin, Goto, Branch, RowStep
<1>1. UNCHANGED <<cont, passed, expectUp>> /\ pc[t] = "idle"
  OBVIOUS
<1>2. PICK l \in {"build", "report", "done"} : pc' = [pc EXCEPT ![t] = l]
  OBVIOUS
<1>3. \A u \in Updates : pc'[u] = IF u = t THEN l ELSE pc[u]
  BY <1>2 DEF TypeOK
<1>4. \A u \in Updates : ~InFlight(u)
  OBVIOUS
<1>5. OneInFlight'
  BY <1>3, <1>4 DEF OneInFlight, InFlight, Finished
<1>6. \A n : Live(n)' <=> Live(n)
  BY <1>1 DEF Live
<1>7. ServiceKept' /\ OwnIsProd' /\ SpareServes' /\ NewServes'
  BY <1>1, <1>3, <1>6
  DEF ServiceInv, ServiceKept, Serving, OwnIsProd, SpareServes, NewServes, Replacing
<1> QED BY <1>5, <1>7 DEF ServiceInv

\* Moving the old container aside takes nothing from the service.
LEMMA MoveOldKeeps ==
    ASSUME TypeOK, ServiceInv, NEW t \in Updates, MoveOld(t)
    PROVE  ServiceInv'
<1> USE DEF Goto, DockerStep, Branch, Decide
<1>1. pc[t] = "move_old" /\ UNCHANGED <<passed, expectUp>>
  BY DEF MoveOld
<1>2. CASE cont' = cont /\ pc' = [pc EXCEPT ![t] = "stop_canary"]
  BY <1>1, <1>2, QuietStep DEF InFlight, Finished, Steps, Replacing
<1>3. CASE /\ cont[Old(t)].st = "none"
           /\ cont' = [cont EXCEPT ![Old(t)] = cont[Prod], ![Prod] = NoContainer]
           /\ pc' \in {[pc EXCEPT ![t] = "create_new"], [pc EXCEPT ![t] = "stop_canary"]}
  <2>1. PICK l \in {"create_new", "stop_canary"} : pc' = [pc EXCEPT ![t] = l]
    BY <1>3
  <2>2. \A u \in Updates : pc'[u] = IF u = t THEN l ELSE pc[u]
    BY <2>1 DEF TypeOK
  <2>3. /\ cont'[Prod] = NoContainer /\ cont'[Old(t)] = cont[Prod]
        /\ \A m \in Routed \ {Prod, Old(t)} : cont'[m] = cont[m]
    BY <1>3, NamesDistinct DEF TypeOK, Routed, Names
  <2>4. expectUp => \E n \in Routed \ {Prod} : Live(n)'
    <3> SUFFICES ASSUME expectUp PROVE \E n \in Routed \ {Prod} : Live(n)'
      OBVIOUS
    <3>1. PICK n \in Routed : Live(n)
      BY DEF ServiceInv, ServiceKept, Serving
    <3>2. CASE n = Prod
      BY <3>1, <3>2, <2>3, <1>1, NamesDistinct DEF Live
    <3>3. CASE n # Prod
      <4>1. n # Old(t)
        BY <3>1, <1>3 DEF Live
      <4> QED BY <3>1, <3>3, <4>1, <2>3, <1>1 DEF Live
    <3> QED BY <3>2, <3>3
  <2>5. \A u \in Updates : u # t => pc[u] \in Finished
    BY <1>1 DEF ServiceInv, OneInFlight, InFlight, Finished
  <2>6. ServiceKept'
    BY <2>4, <1>1 DEF ServiceKept, Serving
  <2>7. OneInFlight'
    BY <2>2, <2>5, <1>1 DEF OneInFlight, InFlight, Finished
  <2>8. OwnIsProd'
    <3> SUFFICES ASSUME NEW u \in Updates
                 PROVE  /\ pc'[u] \notin {"done", "lost"}
                           => \A w \in Updates : cont'[Old(w)].by # u
                        /\ cont'[Prod].by # u
      BY DEF OwnIsProd
    <3>1. cont'[Prod].by # u
      BY <2>3, StateAssumption DEF NoContainer
    <3>2. ASSUME pc'[u] \notin {"done", "lost"}, NEW w \in Updates
          PROVE  cont'[Old(w)].by # u
      <4>1. pc[u] \notin {"done", "lost"} /\ pc[u] \in {"idle", "move_old"}
        BY <3>2, <2>2, <2>5, <1>1 DEF Finished
      <4>2. cont[Prod].by # u /\ cont[Old(w)].by # u
        BY <4>1 DEF ServiceInv, OwnIsProd
      <4> QED BY <4>2, <2>3, NamesDistinct DEF Routed
    <3> QED BY <3>1, <3>2
  <2>9. SpareServes' /\ NewServes'
    BY <2>2, <2>4, <2>5, <1>1 DEF SpareServes, NewServes, Replacing, Finished
  <2> QED BY <2>6, <2>7, <2>8, <2>9 DEF ServiceInv
<1> QED
  BY <1>2, <1>3 DEF MoveOld, DockerRename, Docker

\* What happens under the production name during the replacement leaves the
\* spare container alone.
LEMMA NewKeeps ==
    ASSUME TypeOK, ServiceInv, NEW t \in Updates,
           CreateNew(t) \/ StartNew(t) \/ RemoveNew(t)
    PROVE  ServiceInv'
<1> USE DEF Goto, Branch, DockerStep, Decide, CleanupStep
<1>1. pc[t] \in {"create_new", "start_new", "remove_new"}
  BY DEF CreateNew, StartNew, RemoveNew
<1>2. UNCHANGED <<passed, expectUp>>
  BY DEF CreateNew, StartNew, RemoveNew
<1>3. PICK l \in {"start_new", "probe_new", "remove_new", "restore_old"} :
        pc' = [pc EXCEPT ![t] = l]
  BY DEF CreateNew, StartNew, RemoveNew
<1>4. \A u \in Updates : pc'[u] = IF u = t THEN l ELSE pc[u]
  BY <1>3 DEF TypeOK
<1>5. \A m \in Routed \ {Prod} : cont'[m] = cont[m]
  <2>1. t \in Makers /\ Prod \in Names /\ Routed \subseteq Names
    BY DEF Makers, Versions, Names, Routed
  <2>2. PICK ok \in BOOLEAN : \/ DockerCreate(Prod, t, ok) \/ DockerStart(Prod, ok)
                              \/ DockerForceRemove(Prod, ok)
    BY DEF CreateNew, StartNew, RemoveNew
  <2> QED BY <2>1, <2>2, CallsFrame
<1>6. cont'[Prod].by \in {cont[Prod].by, t, Base}
  <2>1. CASE CreateNew(t)
    BY <2>1, NamesDistinct DEF CreateNew, DockerCreate, Docker, TypeOK
  <2>2. CASE StartNew(t)
    BY <2>2, NamesDistinct DEF StartNew, DockerStart, Docker, TypeOK, Container
  <2>3. CASE RemoveNew(t)
    BY <2>3, NamesDistinct
    DEF RemoveNew, DockerForceRemove, Docker, TypeOK, NoContainer
  <2> QED BY <2>1, <2>2, <2>3
<1>7. expectUp => \E n \in Routed \ {Prod} : Live(n)'
  <2> SUFFICES ASSUME expectUp PROVE \E n \in Routed \ {Prod} : Live(n)'
    OBVIOUS
  <2>1. PICK n \in Routed \ {Prod} : Live(n)
    BY <1>1 DEF ServiceInv, SpareServes, Replacing
  <2> QED BY <2>1, <1>2, <1>5 DEF Live
<1>8. \A u \in Updates : u # t => pc[u] \in Finished
  BY <1>1 DEF ServiceInv, OneInFlight, InFlight, Finished
<1>9. ServiceKept'
  BY <1>2, <1>7 DEF ServiceKept, Serving
<1>10. OneInFlight'
  BY <1>1, <1>4, <1>8 DEF OneInFlight, InFlight, Finished
<1>11. OwnIsProd'
  <2> SUFFICES ASSUME NEW u \in Updates
               PROVE  /\ pc'[u] \notin {"done", "lost"}
                         => \A w \in Updates : cont'[Old(w)].by # u
                      /\ pc'[u] \in {"idle", "build", "create_canary", "start_canary",
                                     "probe_canary", "move_old", "create_new"}
                         => cont'[Prod].by # u
    BY DEF OwnIsProd
  <2>1. \A w \in Updates : cont'[Old(w)] = cont[Old(w)]
    BY <1>5, NamesDistinct
  <2>2. CASE u = t
    BY <2>1, <2>2, <1>1, <1>4 DEF ServiceInv, OwnIsProd
  <2>3. CASE u # t
    <3>1. pc'[u] = pc[u] /\ pc[u] \in Finished
      BY <2>3, <1>4, <1>8
    <3>2. cont[Prod].by # u => cont'[Prod].by # u
      BY <2>3, <1>6, StateAssumption
    <3> QED BY <3>1, <3>2, <2>1 DEF ServiceInv, OwnIsProd, Finished
  <2> QED BY <2>2, <2>3
<1>12. SpareServes' /\ NewServes'
  BY <1>2, <1>4, <1>7, <1>8 DEF SpareServes, NewServes, Replacing, Finished
<1> QED BY <1>9, <1>10, <1>11, <1>12 DEF ServiceInv

\* A healthy answer comes from the container under the production name.
LEMMA ProbeNewKeeps ==
    ASSUME TypeOK, ServiceInv, NEW t \in Updates, ProbeNew(t)
    PROVE  ServiceInv'
<1> USE DEF Goto, Branch, Decide, sharedVars
<1>1. pc[t] = "probe_new" /\ UNCHANGED <<cont, expectUp>>
  BY DEF ProbeNew
<1>2. PICK healthy \in BOOLEAN :
        /\ healthy => \E n \in Routed : IsOwn(t, n)
        /\ pc' = [pc EXCEPT ![t] = IF healthy THEN "register" ELSE "remove_new"]
        /\ passed' = IF healthy THEN passed \cup {t} ELSE passed
  BY DEF ProbeNew
<1>3. \A u \in Updates : pc'[u] = IF u # t THEN pc[u]
                                  ELSE IF healthy THEN "register" ELSE "remove_new"
  BY <1>2 DEF TypeOK
<1>4. healthy => Live(Prod)'
  <2>1. \A n \in Routed : IsOwn(t, n) => n = Prod
    BY <1>1 DEF ServiceInv, OwnIsProd, Routed, IsOwn
  <2> QED BY <2>1, <1>1, <1>2 DEF Live, IsOwn
<1>5. \A n : Live(n) => Live(n)'
  BY <1>1, <1>2 DEF Live
<1>6. \A u \in Updates : u # t => pc[u] \in Finished
  BY <1>1 DEF ServiceInv, OneInFlight, InFlight, Finished
<1>7. ServiceKept' /\ SpareServes'
  BY <1>1, <1>3, <1>5, <1>6
  DEF ServiceInv, ServiceKept, Serving, SpareServes, Replacing, Finished
<1>8. OneInFlight' /\ OwnIsProd'
  BY <1>1, <1>3, <1>6 DEF ServiceInv, OneInFlight, OwnIsProd, InFlight, Finished
<1>9. NewServes'
  BY <1>2, <1>3, <1>4, <1>6 DEF NewServes, Finished
<1> QED BY <1>7, <1>8, <1>9 DEF ServiceInv

\* Registering commits to a container that serves.
LEMMA RegisterKeeps ==
    ASSUME TypeOK, ServiceInv, NEW t \in Updates, Register(t)
    PROVE  ServiceInv'
<1> USE DEF Goto, Branch, Decide, Registered, NotRegistered
<1>1. pc[t] = "register" /\ UNCHANGED <<cont, passed>>
  BY DEF Register
<1>2. PICK l \in {"register", "stop_old", "remove_new"} :
        /\ pc' = [pc EXCEPT ![t] = l]
        /\ IF l = "stop_old" THEN expectUp' = (expectUp \/ IsOwn(t, Prod))
                             ELSE expectUp' = expectUp
  BY DEF Register
<1>3. \A u \in Updates : pc'[u] = IF u = t THEN l ELSE pc[u]
  BY <1>2 DEF TypeOK
<1>4. \A n : Live(n)' <=> Live(n)
  BY <1>1 DEF Live
<1>5. t \in passed /\ (expectUp => Live(Prod))
  BY <1>1 DEF ServiceInv, NewServes
<1>6. IsOwn(t, Prod) => Live(Prod)
  BY <1>5 DEF IsOwn, Live
<1>7. \A u \in Updates : u # t => pc[u] \in Finished
  BY <1>1 DEF ServiceInv, OneInFlight, InFlight, Finished
<1>8. Prod \in Routed
  BY DEF Routed
<1>9. ServiceKept'
  BY <1>2, <1>4, <1>5, <1>6, <1>8 DEF ServiceInv, ServiceKept, Serving
<1>10. OneInFlight' /\ OwnIsProd'
  BY <1>1, <1>3, <1>7 DEF ServiceInv, OneInFlight, OwnIsProd, InFlight, Finished
<1>11. SpareServes'
  BY <1>1, <1>2, <1>3, <1>4, <1>7 DEF ServiceInv, SpareServes, Replacing, Finished
<1>12. NewServes'
  BY <1>1, <1>2, <1>3, <1>4, <1>5, <1>6, <1>7 DEF NewServes, Finished
<1> QED BY <1>9, <1>10, <1>11, <1>12 DEF ServiceInv

\* The previous container is stopped and removed while the new one serves.
LEMMA RetireOldKeeps ==
    ASSUME TypeOK, ServiceInv, NEW t \in Updates, StopOld(t) \/ RemoveOld(t)
    PROVE  ServiceInv'
<1> USE DEF Goto, DockerStep, CleanupStep
<1>1. pc[t] \in {"stop_old", "remove_old"} /\ UNCHANGED <<passed, expectUp>>
  BY DEF StopOld, RemoveOld
<1>2. PICK l \in {"remove_old", "stop_canary"} : pc' = [pc EXCEPT ![t] = l]
  BY DEF StopOld, RemoveOld
<1>3. \A u \in Updates : pc'[u] = IF u = t THEN l ELSE pc[u]
  BY <1>2 DEF TypeOK
<1>4. /\ \A m \in Routed \ {Old(t)} : cont'[m] = cont[m]
      /\ cont'[Old(t)].by \in {cont[Old(t)].by, Base}
  BY OldFrame DEF StopOld, RemoveOld
<1>5. Prod \in Routed \ {Old(t)} /\ cont'[Prod] = cont[Prod]
  BY <1>4, NamesDistinct
<1>6. expectUp => Live(Prod)'
  BY <1>1, <1>5 DEF ServiceInv, NewServes, Live
<1>7. \A u \in Updates : u # t => pc[u] \in Finished
  BY <1>1 DEF ServiceInv, OneInFlight, InFlight, Finished
<1>8. ServiceKept'
  BY <1>1, <1>5, <1>6 DEF ServiceKept, Serving
<1>9. OneInFlight'
  BY <1>1, <1>3, <1>7 DEF OneInFlight, InFlight, Finished
<1>10. OwnIsProd'
  <2>1. \A w, u \in Updates : cont[Old(w)].by # u => cont'[Old(w)].by # u
    BY <1>4, NamesDistinct, StateAssumption DEF Routed
  <2> QED BY <2>1, <1>1, <1>3, <1>5, <1>7 DEF ServiceInv, OwnIsProd, Finished
<1>11. SpareServes' /\ NewServes'
  BY <1>1, <1>3, <1>6, <1>7 DEF SpareServes, NewServes, Replacing, Finished
<1> QED BY <1>8, <1>9, <1>10, <1>11 DEF ServiceInv

\* The rollback's rename moves a container and stops none.
LEMMA RestoreOldKeeps ==
    ASSUME TypeOK, ServiceInv, NEW t \in Updates, RestoreOld(t)
    PROVE  ServiceInv'
<1> USE DEF Goto, DockerStep, Branch, Decide
<1>1. /\ pc[t] = "restore_old" /\ pc' = [pc EXCEPT ![t] = "stop_canary"]
      /\ UNCHANGED <<passed, expectUp>>
  BY DEF RestoreOld
<1>2. CASE cont' = cont
  BY <1>1, <1>2, QuietStep DEF InFlight, Finished, Steps, Replacing
<1>3. CASE /\ cont[Prod].st = "none"
           /\ cont' = [cont EXCEPT ![Prod] = cont[Old(t)], ![Old(t)] = NoContainer]
  <2>1. \A u \in Updates : pc'[u] = IF u = t THEN "stop_canary" ELSE pc[u]
    BY <1>1 DEF TypeOK
  <2>2. /\ cont'[Prod] = cont[Old(t)] /\ cont'[Old(t)] = NoContainer
        /\ \A m \in Routed \ {Prod, Old(t)} : cont'[m] = cont[m]
    BY <1>3, NamesDistinct DEF TypeOK, Routed, Names
  <2>3. \A u \in Updates : u # t => pc[u] \in Finished
    BY <1>1 DEF ServiceInv, OneInFlight, InFlight, Finished
  <2>4. ServiceKept'
    <3> SUFFICES ASSUME expectUp PROVE \E n \in Routed : Live(n)'
      BY <1>1 DEF ServiceKept, Serving
    <3>1. PICK n \in Routed : Live(n)
      BY DEF ServiceInv, ServiceKept, Serving
    <3>2. n # Prod
      BY <3>1, <1>3 DEF Live
    <3>3. CASE n = Old(t)
      BY <3>1, <3>3, <2>2, <1>1, NamesDistinct DEF Live
    <3>4. CASE n # Old(t)
      BY <3>1, <3>2, <3>4, <2>2, <1>1 DEF Live
    <3> QED BY <3>3, <3>4
  <2>5. OneInFlight'
    BY <1>1, <2>1, <2>3 DEF OneInFlight, InFlight, Finished
  <2>6. OwnIsProd'
    <3> SUFFICES ASSUME NEW u \in Updates, pc'[u] \notin {"done", "lost"}
                 PROVE  /\ \A w \in Updates : cont'[Old(w)].by # u
                        /\ u # t => cont'[Prod].by # u
      BY <2>1 DEF OwnIsProd
    <3>1. \A w \in Updates : cont[Old(w)].by # u
      BY <1>1, <2>1 DEF ServiceInv, OwnIsProd
    <3> QED BY <3>1, <2>2, NamesDistinct, StateAssumption DEF NoContainer, Routed
  <2>7. SpareServes' /\ NewServes'
    BY <2>1, <2>3 DEF SpareServes, NewServes, Replacing, Finished
  <2> QED BY <2>4, <2>5, <2>6, <2>7 DEF ServiceInv
<1> QED
  BY <1>2, <1>3 DEF RestoreOld, DockerRename, Docker

\* Containers that exit and a server that dies: the former withdraw the
\* promise when it was theirs, the latter leaves the containers alone.
LEMMA EnvironmentKeeps ==
    ASSUME TypeOK, ServiceInv,
           (\E n \in Names : ContainerExits(n)) \/ ServerCrash
    PROVE  ServiceInv'
<1>1. CASE \E n \in Names : ContainerExits(n)
  <2>1. PICK n \in Names : ContainerExits(n)
    BY <1>1
  <2>2. UNCHANGED <<pc, passed>> /\ expectUp' = (expectUp /\ n \notin Routed)
    BY <2>1 DEF ContainerExits, updateVars
  <2>3. /\ \A m \in Names : cont'[m].by = cont[m].by
        /\ \A m \in Names \ {n} : cont'[m] = cont[m]
    BY <2>1 DEF ContainerExits, TypeOK, Container
  <2>4. Routed \subseteq Names /\ Prod \in Routed /\ \A u \in Updates : Old(u) \in Names
    BY DEF Routed, Names
  <2>5. expectUp' => expectUp /\ \A m \in Routed : Live(m)' <=> Live(m)
    BY <2>2, <2>3, <2>4 DEF Live
  <2>6. ServiceKept' /\ SpareServes' /\ NewServes'
    BY <2>2, <2>4, <2>5
    DEF ServiceInv, ServiceKept, Serving, SpareServes, NewServes
  <2>7. OneInFlight' /\ OwnIsProd'
    BY <2>2, <2>3, <2>4 DEF ServiceInv, OneInFlight, OwnIsProd, InFlight
  <2> QED BY <2>6, <2>7 DEF ServiceInv
<1>2. CASE ServerCrash
  <2>1. UNCHANGED <<cont, passed, expectUp>>
    BY <1>2 DEF ServerCrash, sharedVars
  <2>2. \A u \in Updates : pc'[u] = IF InFlight(u) THEN "lost" ELSE pc[u]
    BY <1>2 DEF ServerCrash
  <2>3. \A n : Live(n)' <=> Live(n)
    BY <2>1 DEF Live
  <2>4. ServiceKept' /\ SpareServes' /\ NewServes'
    BY <2>1, <2>2, <2>3
    DEF ServiceInv, ServiceKept, Serving, SpareServes, NewServes, Replacing
  <2>5. OneInFlight' /\ OwnIsProd'
    BY <2>1, <2>2 DEF ServiceInv, OneInFlight, OwnIsProd, InFlight, Finished
  <2> QED BY <2>4, <2>5 DEF ServiceInv
<1> QED BY <1>1, <1>2

LEMMA InitServes == Init => ServiceInv
<1> SUFFICES ASSUME Init PROVE ServiceInv
  OBVIOUS
<1>1. \A n \in Names : cont[n].by = Base
  BY DEF Init, InitialStates, NoContainer
<1>2. Prod \in Names /\ Prod \in Routed /\ \A u \in Updates : Old(u) \in Names
  BY DEF Names, Routed
<1>3. \A t \in Updates : pc[t] = "idle"
  BY DEF Init
<1>4. expectUp => Live(Prod)
  BY <1>1, <1>2 DEF Init, InitialStates, NoContainer, Live
<1>5. OwnIsProd
  BY <1>1, <1>2, StateAssumption DEF OwnIsProd
<1> QED
  BY <1>2, <1>3, <1>4, <1>5
  DEF ServiceInv, ServiceKept, Serving, OneInFlight, InFlight, Finished,
      SpareServes, NewServes, Replacing

LEMMA ServiceInvariant ==
    ASSUME Concurrent = FALSE
    PROVE  Spec => []ServiceInv
<1>1. TypeOK /\ ServiceInv /\ [Next]_vars => ServiceInv'
  <2> SUFFICES ASSUME TypeOK, ServiceInv, [Next]_vars PROVE ServiceInv'
    OBVIOUS
  <2>1. ASSUME NEW t \in Updates, Begin(t) \/ TaskStep(t) PROVE ServiceInv'
    BY <2>1, BeginKeeps, QuietSteps, MoveOldKeeps, NewKeeps, ProbeNewKeeps,
       RegisterKeeps, RetireOldKeeps, RestoreOldKeeps DEF TaskStep
  <2>2. CASE UNCHANGED vars
    BY <2>2
    DEF vars, updateVars, sharedVars, ServiceInv, ServiceKept, Serving, Live,
        OneInFlight, InFlight, OwnIsProd, SpareServes, NewServes
  <2> QED BY <2>1, <2>2, EnvironmentKeeps DEF Next
<1> QED BY <1>1, InitServes, TypeCorrect, PTL DEF Spec

\* When the updates of a process run one after the other, none of them ever
\* takes the service down: not for any number of updates and of failed calls,
\* and not if the API server dies in the middle.
THEOREM ServiceIsKept ==
    ASSUME Concurrent = FALSE
    PROVE  Spec => []ServiceKept
<1>1. ServiceInv => ServiceKept
  BY DEF ServiceInv
<1> QED BY <1>1, ServiceInvariant, PTL

=============================================================================
