--------------------------- MODULE HandoverProofs ---------------------------
(***************************************************************************)
(* RollingUpdate implements Handover: the initial states of the update are *)
(* initial states of the handover, and each of its steps is a step of the  *)
(* handover or changes nothing that the handover sees.  And what an update *)
(* leaves behind when it is done.  As in RollingUpdateProofs, for any      *)
(* number of updates that come one after the other, and of faults.         *)
(***************************************************************************)
EXTENDS RollingUpdateProofs

\* The invariant that the steps are taken under.
Inv == TypeOK /\ ServiceInv /\ HandoverInv

\* What is to be shown of each step.
HandsOn == HandoverInv' /\ [H!Next]_(H!vars)

\* Update t goes to the step l, and is going to report o.
Moves(t, l, o) ==
    /\ \A u \in Updates : pc'[u] = IF u = t THEN l ELSE pc[u]
    /\ \A u \in Updates : outcome'[u] = IF u = t THEN o ELSE outcome[u]

\* Where the update stood before proving itself, and where it can go on to.
MayMove(t, l, o) ==
    /\ l \in BeforeProof => pc[t] \in BeforeProof
    /\ o = outcome[t] \/ outcome[t] # "ok"
    /\ Fits(l, o)
    /\ o = "ok" /\ l \notin Finished => row.container = t

-----------------------------------------------------------------------------

\* A call to Docker that fails says nothing about the registry.
LEMMA DockerDoubtsNothing ==
    ASSUME TypeOK, NEW n \in Names, NEW m \in Names, NEW v \in Makers, NEW ok \in BOOLEAN,
           \/ DockerCreate(n, v, ok) \/ DockerStart(n, ok) \/ DockerStop(n, ok)
           \/ DockerRemove(n, ok) \/ DockerForceRemove(n, ok) \/ DockerRename(n, m, ok)
    PROVE  Doubtful' = Doubtful
<1>1. n # Registry
  BY DEF Names, Registry, Prod, Canary, Old
<1>2. blamed' \in {blamed, blamed \cup {n}}
  BY DEF DockerCreate, DockerStart, DockerStop, DockerRemove, DockerForceRemove,
         DockerRename, Docker, Answer
<1> QED BY <1>1, <1>2 DEF Doubtful

\* What a write of the status leaves behind.
LEMMA StatusWritten ==
    ASSUME TypeOK, HandoverInv, NEW s \in Statuses \ {"gone"}, NEW ok \in BOOLEAN,
           UpdateStatus(s, ok)
    PROVE  /\ row'.container = row.container /\ row'.status # "gone"
           /\ ok => Doubtful' = Doubtful
           /\ ~ok => Doubtful' = TRUE
<1>1. row \in RowType /\ row.status # "gone"
  BY DEF TypeOK, HandoverInv, RowFits
<1>2. row' \in {row, [row EXCEPT !.status = s]}
  BY <1>1 DEF UpdateStatus, RowUpdate
<1>3. blamed' = IF ok THEN blamed ELSE blamed \cup {Registry}
  BY DEF UpdateStatus, RowUpdate, Answer
<1>4. row'.container = row.container /\ row'.status # "gone"
  BY <1>1, <1>2 DEF RowType
<1>5. (ok => Doubtful' = Doubtful) /\ (~ok => Doubtful' = TRUE)
  BY <1>3 DEF Doubtful
<1> QED BY <1>4, <1>5

\* The same containers with traffic and the same proofs: the same service.
LEMMA SameService ==
    ASSUME \A n \in Routed : cont'[n] = cont[n], passed' = passed
    PROVE  /\ ServingVersions' = ServingVersions
           /\ \A n \in Routed : Live(n)' <=> Live(n)
<1>1. \A n \in Routed : Live(n)' <=> Live(n)
  BY DEF Live
<1>2. \A v \in Versions : v \in ServingVersions' <=> v \in ServingVersions
  BY <1>1 DEF ServingVersions
<1> QED BY <1>1, <1>2 DEF ServingVersions

\* A version that serves is one of the versions.
LEMMA LiveServes ==
    ASSUME TypeOK, NEW n \in Routed, Live(n)
    PROVE  cont[n].by \in ServingVersions
BY DEF TypeOK, Live, ServingVersions, Versions

\* An update that is in flight and stays so is busy.
LEMMA StaysBusy ==
    ASSUME TypeOK, NEW t \in Updates, NEW l \in Steps, NEW o, InFlight(t), Moves(t, l, o)
    PROVE  Phases' = Phases /\ Phases[t] = "busy"
<1>1. \A u \in Updates : Phase(u)' = Phase(u)
  <2> SUFFICES ASSUME NEW u \in Updates PROVE Phase(u)' = Phase(u)
    OBVIOUS
  <2>1. CASE u = t
    BY <2>1 DEF Moves, Phase, InFlight, Finished, Steps
  <2>2. CASE u # t
    BY <2>2 DEF Moves, Phase
  <2> QED BY <2>1, <2>2
<1>2. Phase(t) = "busy"
  BY DEF Phase, InFlight, Finished
<1> QED BY <1>1, <1>2 DEF Phases

\* A step that leaves the registered version alone keeps what links the steps, the
\* reports and the row.
LEMMA MovesFit ==
    ASSUME Inv, NEW t \in Updates, NEW l, NEW o, Moves(t, l, o), MayMove(t, l, o),
           passed' = passed, row'.container = row.container, row'.status # "gone",
           Doubtful => Doubtful'
    PROVE  ProvenInTime' /\ OutcomeFits' /\ RowFits'
<1>1. ProvenInTime'
  BY DEF Inv, HandoverInv, ProvenInTime, Moves, MayMove
<1>2. OutcomeFits'
  BY DEF Inv, HandoverInv, OutcomeFits, Moves, MayMove
<1>3. RowFits'
  <2> SUFFICES ASSUME NEW u \in Updates
               PROVE  /\ outcome'[u] = "ok" /\ pc'[u] \notin Finished => row.container = u
                      /\ row.container = u => outcome'[u] = "ok" \/ Doubtful'
    BY DEF RowFits, InFlight
  <2>1. /\ outcome[u] = "ok" /\ pc[u] \notin Finished => row.container = u
        /\ row.container = u => outcome[u] = "ok" \/ Doubtful
    BY DEF Inv, HandoverInv, RowFits, InFlight
  <2>2. CASE u = t
    BY <2>1, <2>2 DEF Moves, MayMove
  <2>3. CASE u # t
    BY <2>1, <2>3 DEF Moves
  <2> QED BY <2>2, <2>3
<1> QED BY <1>1, <1>2, <1>3

\* A step that the handover does not see.
LEMMA Unseen ==
    ASSUME Inv, NEW t \in Updates, NEW l \in Steps, NEW o, InFlight(t),
           Moves(t, l, o), MayMove(t, l, o),
           ServingVersions' = ServingVersions, UNCHANGED <<passed, expectUp, row>>,
           Doubtful' = Doubtful, ProdIsOwn', SpareIsRegistered'
    PROVE  HandsOn
<1>1. Phases' = Phases
  BY StaysBusy DEF Inv
<1>2. UNCHANGED H!vars
  BY <1>1 DEF H!vars
<1>3. RegisteredServes'
  BY DEF Inv, HandoverInv, RegisteredServes
<1>4. ProvenInTime' /\ OutcomeFits' /\ RowFits'
  <2>1. row'.status # "gone"
    BY DEF Inv, HandoverInv, RowFits
  <2> QED BY <2>1, MovesFit
<1> QED BY <1>2, <1>3, <1>4 DEF HandsOn, HandoverInv

\* One that touches no container with traffic either, away from the replacement.
LEMMA QuietHandsOn ==
    ASSUME Inv, NEW t \in Updates, NEW l \in Steps \ (Replacing \cup OwnsProd), NEW o,
           InFlight(t), Moves(t, l, o), MayMove(t, l, o),
           \A n \in Routed : cont'[n] = cont[n], UNCHANGED <<passed, expectUp, row>>,
           Doubtful' = Doubtful
    PROVE  HandsOn
<1>1. /\ ServingVersions' = ServingVersions
      /\ \A n \in Routed : Live(n)' <=> Live(n)
  BY SameService
<1>2. ProdIsOwn'
  BY NamesDistinct DEF Inv, HandoverInv, ProdIsOwn, Moves, Replacing, OwnsProd
<1>3. SpareIsRegistered'
  BY <1>1 DEF Inv, HandoverInv, SpareIsRegistered, Moves, Replacing, OwnsProd
<1> QED BY <1>1, <1>2, <1>3, Unseen


-----------------------------------------------------------------------------
(* One lemma for each kind of step                                          *)

\* Whatever a task does, it does to itself.
LEMMA BranchMoves ==
    ASSUME TypeOK, NEW t \in Updates, NEW ok \in BOOLEAN, NEW onward, NEW elsewhere,
           NEW o, Branch(t, ok, onward, elsewhere, o)
    PROVE  Moves(t, IF ok THEN onward ELSE elsewhere, IF ok THEN outcome[t] ELSE o)
BY DEF Branch, Goto, Decide, Moves, TypeOK

\* Building, the canary's steps and the tidying up are not seen.
LEMMA CanaryHandsOn ==
    ASSUME Inv, NEW t \in Updates,
           Build(t) \/ CreateCanary(t) \/ StartCanary(t) \/ ProbeCanary(t)
    PROVE  HandsOn
<1> USE DEF DockerStep
<1>1. /\ pc[t] \in {"build", "create_canary", "start_canary", "probe_canary"}
      /\ InFlight(t) /\ outcome[t] = "none"
  BY DEF Build, CreateCanary, StartCanary, ProbeCanary, InFlight, Finished,
         Inv, HandoverInv, OutcomeFits, Fits, BeforeProof
<1>2. PICK ok \in BOOLEAN,
           onward \in {"create_canary", "start_canary", "probe_canary", "move_old"},
           elsewhere \in {"report", "stop_canary"}, o \in {"failed", "rolled_back"} :
             Branch(t, ok, onward, elsewhere, o)
  BY DEF Build, CreateCanary, StartCanary, ProbeCanary
<1> DEFINE l == IF ok THEN onward ELSE elsewhere
           p == IF ok THEN outcome[t] ELSE o
<1>3. Moves(t, l, p)
  BY <1>2, BranchMoves DEF Inv
<1>4. l \in Steps \ (Replacing \cup OwnsProd)
  BY DEF Steps, Replacing, OwnsProd
<1>5. MayMove(t, l, p)
  BY <1>1 DEF MayMove, Fits, BeforeProof, H!Verdicts, Undone
<1>6. (\A n \in Routed : cont'[n] = cont[n]) /\ UNCHANGED <<passed, expectUp, row>>
  <2>1. UNCHANGED <<passed, expectUp, row>>
    BY DEF Build, CreateCanary, StartCanary, ProbeCanary
  <2>2. CASE cont' = cont
    BY <2>1, <2>2
  <2>3. CASE CreateCanary(t) \/ StartCanary(t)
    BY <2>1, <2>3, CanaryFrame DEF CreateCanary, StartCanary, Inv
  <2> QED BY <2>2, <2>3 DEF Build, ProbeCanary
<1>7. Doubtful' = Doubtful
  <2>1. CASE Build(t) \/ ProbeCanary(t)
    BY <2>1 DEF Build, ProbeCanary, Doubtful
  <2>2. CASE CreateCanary(t) \/ StartCanary(t)
    <3>1. t \in Makers /\ Canary(t) \in Names
      BY NamesDistinct DEF Makers, Versions
    <3> QED BY <2>2, <3>1, DockerDoubtsNothing DEF CreateCanary, StartCanary, Inv
  <2> QED BY <2>1, <2>2
<1> HIDE DEF l, p
<1> QED BY <1>1, <1>3, <1>4, <1>5, <1>6, <1>7, QuietHandsOn

LEMMA TidyHandsOn ==
    ASSUME Inv, NEW t \in Updates, StopCanary(t) \/ RemoveCanary(t)
    PROVE  HandsOn
<1> USE DEF DockerStep, CleanupStep
<1>1. /\ pc[t] \in {"stop_canary", "remove_canary"} /\ InFlight(t)
      /\ outcome[t] \in H!Verdicts
  BY DEF StopCanary, RemoveCanary, InFlight, Finished, Inv, HandoverInv, OutcomeFits, Fits
<1>2. PICK l \in {"remove_canary", "report"} : Goto(t, l) /\ UNCHANGED outcome
  BY DEF StopCanary, RemoveCanary
<1>3. Moves(t, l, outcome[t])
  BY <1>2 DEF Moves, Goto, Inv, TypeOK
<1>4. l \in Steps \ (Replacing \cup OwnsProd)
  BY DEF Steps, Replacing, OwnsProd
<1>5. MayMove(t, l, outcome[t])
  BY <1>1 DEF MayMove, Fits, BeforeProof, Inv, HandoverInv, RowFits
<1>6. (\A n \in Routed : cont'[n] = cont[n]) /\ UNCHANGED <<passed, expectUp, row>>
  BY CanaryFrame DEF StopCanary, RemoveCanary, Inv
<1>7. Doubtful' = Doubtful
  <2>1. t \in Makers /\ Canary(t) \in Names
    BY NamesDistinct DEF Makers, Versions
  <2> QED BY <2>1, DockerDoubtsNothing DEF StopCanary, RemoveCanary, Inv
<1> QED BY <1>1, <1>3, <1>4, <1>5, <1>6, <1>7, QuietHandsOn


\* Moving the old container aside moves the service with it.
LEMMA MoveOldHandsOn ==
    ASSUME Inv, NEW t \in Updates, MoveOld(t)
    PROVE  HandsOn
<1> USE DEF DockerStep
<1>1. pc[t] = "move_old" /\ InFlight(t) /\ outcome[t] = "none"
  BY DEF MoveOld, InFlight, Finished, Inv, HandoverInv, OutcomeFits, Fits, BeforeProof
<1>2. UNCHANGED <<passed, expectUp, row>>
  BY DEF MoveOld
<1>3. Doubtful' = Doubtful
  <2>1. CASE \E ok \in BOOLEAN : DockerRename(Prod, Old(t), ok)
    <3>1. t \in Makers /\ Prod \in Names /\ Old(t) \in Names
      BY NamesDistinct DEF Makers, Versions
    <3> QED BY <2>1, <3>1, DockerDoubtsNothing DEF Inv
  <2>2. CASE UNCHANGED blamed
    BY <2>2 DEF Doubtful
  <2> QED BY <2>1, <2>2 DEF MoveOld
<1>4. PICK ok \in BOOLEAN :
        /\ Branch(t, ok, "create_new", "stop_canary", "failed")
        /\ \/ cont' = cont /\ ~ok
           \/ /\ cont[Old(t)].st = "none"
              /\ cont' = [cont EXCEPT ![Old(t)] = cont[Prod], ![Prod] = NoContainer]
  <2>1. CASE \E ok \in BOOLEAN :
               /\ DockerRename(Prod, Old(t), ok)
               /\ Branch(t, ok, "create_new", "stop_canary", "failed")
    <3>1. PICK ok \in BOOLEAN :
               /\ DockerRename(Prod, Old(t), ok)
               /\ Branch(t, ok, "create_new", "stop_canary", "failed")
      BY <2>1
    <3> QED BY <3>1 DEF DockerRename, Docker
  <2>2. CASE /\ Goto(t, "stop_canary") /\ Decide(t, "failed")
             /\ UNCHANGED <<cont, faults, blamed>>
    BY <2>2 DEF Branch
  <2> QED BY <2>1, <2>2 DEF MoveOld
<1> DEFINE l == IF ok THEN "create_new" ELSE "stop_canary"
           p == IF ok THEN outcome[t] ELSE "failed"
<1>5. Moves(t, l, p)
  BY <1>4, BranchMoves DEF Inv
<1>6. l \in Steps /\ MayMove(t, l, p)
  BY <1>1 DEF Steps, MayMove, Fits, BeforeProof, H!Verdicts, Undone
<1>7. \A u \in Updates : u # t => pc[u] \in Finished
  BY <1>1 DEF Inv, ServiceInv, OneInFlight, InFlight
<1>8. CASE cont' = cont /\ ~ok
  <2>1. ServingVersions' = ServingVersions
    BY <1>2, <1>8, SameService
  <2>2. ProdIsOwn' /\ SpareIsRegistered'
    BY <1>5, <1>7, <1>8 DEF ProdIsOwn, SpareIsRegistered, Moves, OwnsProd, Replacing, Finished
  <2> QED BY <1>1, <1>2, <1>3, <1>5, <1>6, <2>1, <2>2, Unseen
<1>9. CASE /\ cont[Old(t)].st = "none"
           /\ cont' = [cont EXCEPT ![Old(t)] = cont[Prod], ![Prod] = NoContainer]
  <2>1. /\ cont'[Prod].st = "none" /\ cont'[Old(t)] = cont[Prod]
        /\ \A m \in Routed \ {Prod, Old(t)} : cont'[m] = cont[m]
    BY <1>9, NamesDistinct DEF Inv, TypeOK, Routed, Names, NoContainer
  <2>2. \A n \in Routed : Live(n)' => \E m \in Routed : Live(m) /\ cont[m].by = cont'[n].by
    <3> SUFFICES ASSUME NEW n \in Routed, Live(n)'
                 PROVE  \E m \in Routed : Live(m) /\ cont[m].by = cont'[n].by
      OBVIOUS
    <3>1. n # Prod
      BY <2>1 DEF Live
    <3>2. CASE n = Old(t)
      BY <2>1, <3>2, <1>2, NamesDistinct DEF Live
    <3>3. CASE n # Old(t)
      BY <2>1, <3>1, <3>3, <1>2 DEF Live
    <3> QED BY <3>2, <3>3
  <2>3. \A n \in Routed : Live(n)
          => \E m \in Routed \ {Prod} : Live(m)' /\ cont'[m].by = cont[n].by
    <3> SUFFICES ASSUME NEW n \in Routed, Live(n)
                 PROVE  \E m \in Routed \ {Prod} : Live(m)' /\ cont'[m].by = cont[n].by
      OBVIOUS
    <3>1. n # Old(t)
      BY <1>9 DEF Live
    <3>2. CASE n = Prod
      BY <2>1, <3>2, <1>2, NamesDistinct DEF Live
    <3>3. CASE n # Prod
      BY <2>1, <3>1, <3>3, <1>2 DEF Live
    <3> QED BY <3>2, <3>3
  <2>4. ServingVersions' = ServingVersions
    BY <2>2, <2>3 DEF ServingVersions
  <2>5. ProdIsOwn'
    BY <1>1, <1>5, <1>7 DEF ProdIsOwn, Moves, OwnsProd, Finished
  <2>6. SpareIsRegistered'
    <3> SUFFICES ASSUME expectUp, ~Doubtful
                 PROVE  \E m \in Routed \ {Prod} : Live(m)' /\ cont'[m].by = row.container
      BY <1>2, <1>3 DEF SpareIsRegistered
    <3>1. PICK n \in Routed : Live(n) /\ cont[n].by = row.container
      BY DEF Inv, HandoverInv, RegisteredServes, ServingVersions
    <3> QED BY <2>3, <3>1
  <2> QED BY <1>1, <1>2, <1>3, <1>5, <1>6, <2>4, <2>5, <2>6, Unseen
<1> QED BY <1>4, <1>8, <1>9

\* A container that is created or started before its probe serves no version yet.
LEMMA NewHandsOn ==
    ASSUME Inv, NEW t \in Updates, CreateNew(t) \/ StartNew(t)
    PROVE  HandsOn
<1> USE DEF DockerStep
<1>1. /\ pc[t] \in {"create_new", "start_new"} /\ InFlight(t) /\ outcome[t] = "none"
      /\ t \notin passed
  BY DEF CreateNew, StartNew, InFlight, Finished,
         Inv, HandoverInv, OutcomeFits, Fits, BeforeProof, ProvenInTime
<1>2. UNCHANGED <<passed, expectUp, row>>
  BY DEF CreateNew, StartNew
<1>3. PICK ok \in BOOLEAN, onward \in {"start_new", "probe_new"} :
        /\ Branch(t, ok, onward, "remove_new", "failed")
        /\ DockerCreate(Prod, t, ok) \/ (DockerStart(Prod, ok) /\ pc[t] = "start_new")
  BY DEF CreateNew, StartNew
<1>4. t \in Makers /\ Prod \in Names /\ Routed \subseteq Names
  BY DEF Makers, Versions, Names, Routed
<1>5. Doubtful' = Doubtful
  BY <1>3, <1>4, DockerDoubtsNothing DEF Inv
<1> DEFINE l == IF ok THEN onward ELSE "remove_new"
           p == IF ok THEN outcome[t] ELSE "failed"
<1>6. Moves(t, l, p)
  BY <1>3, BranchMoves DEF Inv
<1>7. l \in Steps /\ MayMove(t, l, p)
  BY <1>1 DEF Steps, MayMove, Fits, BeforeProof, H!Verdicts, Undone
<1>8. \A m \in Routed \ {Prod} : cont'[m] = cont[m]
  BY <1>3, <1>4, CallsFrame DEF Inv
<1>9. /\ cont' = cont \/ (~Live(Prod) /\ ~Live(Prod)')
      /\ ok => cont'[Prod].by = t
  <2>1. CASE DockerCreate(Prod, t, ok)
    BY <2>1, <1>4 DEF DockerCreate, Docker, Live, Inv, TypeOK
  <2>2. CASE DockerStart(Prod, ok) /\ pc[t] = "start_new"
    <3>1. cont[Prod].by = t
      BY <2>2 DEF Inv, HandoverInv, ProdIsOwn, OwnsProd
    <3>2. cont'[Prod].by = t
      BY <3>1, <2>2, <1>4 DEF DockerStart, Docker, Inv, TypeOK, Container
    <3>3. t # Base /\ t \notin passed'
      BY <1>1, <1>2, StateAssumption
    <3> QED BY <3>1, <3>2, <3>3, <1>1 DEF Live
  <2> QED BY <1>3, <2>1, <2>2
<1>10. \A n \in Routed : /\ Live(n)' <=> Live(n)
                         /\ Live(n) => cont'[n].by = cont[n].by
  BY <1>2, <1>8, <1>9 DEF Live
<1>11. ServingVersions' = ServingVersions
  BY <1>10 DEF ServingVersions
<1>12. \A u \in Updates : u # t => pc[u] \in Finished
  BY <1>1 DEF Inv, ServiceInv, OneInFlight, InFlight
<1>13. ProdIsOwn'
  BY <1>6, <1>9, <1>12 DEF ProdIsOwn, Moves, OwnsProd, Finished
<1>14. SpareIsRegistered'
  <2> SUFFICES ASSUME expectUp, ~Doubtful
               PROVE  \E n \in Routed \ {Prod} : Live(n)' /\ cont'[n].by = row.container
    BY <1>2, <1>5 DEF SpareIsRegistered
  <2>1. PICK n \in Routed \ {Prod} : Live(n) /\ cont[n].by = row.container
    BY <1>1 DEF Inv, HandoverInv, SpareIsRegistered, Replacing
  <2> QED BY <2>1, <1>10
<1> HIDE DEF l, p
<1> QED BY <1>1, <1>2, <1>5, <1>6, <1>7, <1>11, <1>13, <1>14, Unseen

\* A healthy answer proves the version; an unhealthy one starts the rollback.
LEMMA ProbeHandsOn ==
    ASSUME Inv, NEW t \in Updates, ProbeNew(t)
    PROVE  HandsOn
<1>1. /\ pc[t] = "probe_new" /\ InFlight(t) /\ outcome[t] = "none"
      /\ t \notin passed
  BY DEF ProbeNew, InFlight, Finished,
         Inv, HandoverInv, OutcomeFits, Fits, BeforeProof, ProvenInTime
<1>2. UNCHANGED <<cont, row, blamed, expectUp>>
  BY DEF ProbeNew, sharedVars
<1>3. PICK healthy \in BOOLEAN :
        /\ healthy => \E n \in Routed : IsOwn(t, n)
        /\ Branch(t, healthy, "register", "remove_new", "rolled_back")
        /\ passed' = IF healthy THEN passed \cup {t} ELSE passed
  BY DEF ProbeNew
<1> DEFINE l == IF healthy THEN "register" ELSE "remove_new"
           p == IF healthy THEN outcome[t] ELSE "rolled_back"
<1>4. Moves(t, l, p)
  BY <1>3, BranchMoves DEF Inv
<1>5. l \in Steps /\ MayMove(t, l, p)
  BY <1>1 DEF Steps, MayMove, Fits, BeforeProof, H!Verdicts, Undone
<1>6. Doubtful' = Doubtful
  BY <1>2 DEF Doubtful
<1>7. ProdIsOwn'
  BY <1>1, <1>2, <1>4 DEF Inv, HandoverInv, ProdIsOwn, Moves, OwnsProd
<1>8. \A n : Live(n) => Live(n)'
  BY <1>2, <1>3 DEF Live
<1>9. SpareIsRegistered'
  <2> SUFFICES ASSUME NEW u \in Updates, pc'[u] \in Replacing, expectUp, ~Doubtful
               PROVE  \E n \in Routed \ {Prod} : Live(n)' /\ cont[n].by = row.container
    BY <1>2, <1>6 DEF SpareIsRegistered
  <2>1. pc[u] \in Replacing
    BY <1>1, <1>4 DEF Moves, Replacing
  <2> QED BY <2>1, <1>8 DEF Inv, HandoverInv, SpareIsRegistered
<1>10. CASE ~healthy
  <2>1. passed' = passed
    BY <1>3, <1>10
  <2>2. ServingVersions' = ServingVersions
    BY <2>1, <1>2, SameService
  <2> HIDE DEF l, p
  <2> QED BY <2>1, <2>2, <1>1, <1>2, <1>4, <1>5, <1>6, <1>7, <1>9, Unseen
<1>11. CASE healthy
  <2>1. passed' = passed \cup {t}
    BY <1>3, <1>11
  <2>2. PICK m \in Routed : IsOwn(t, m)
    BY <1>3, <1>11
  <2>3. \A v \in Versions : v \in ServingVersions' <=> v \in ServingVersions \/ v = t
    <3>1. Live(m)' /\ cont'[m].by = t
      BY <2>1, <2>2, <1>2 DEF IsOwn, Live
    <3>2. \A n \in Routed : Live(n)' => Live(n) \/ cont[n].by = t
      BY <2>1, <1>2 DEF Live
    <3> QED BY <3>1, <3>2, <1>2, <1>8 DEF ServingVersions
  <2>4. ServingVersions' = ServingVersions \cup {t}
    BY <2>3 DEF ServingVersions, Versions
  <2>5. Phases' = Phases /\ Phases[t] = "busy"
    BY <1>1, <1>4, <1>5, StaysBusy DEF Inv
  <2>6. H!Prove(t)
    BY <2>1, <2>4, <2>5, <1>2, <1>6 DEF H!Prove
  <2>7. RegisteredServes'
    BY <2>4, <1>2, <1>6 DEF Inv, HandoverInv, RegisteredServes
  <2>8. ProvenInTime'
    BY <2>1, <1>4, <1>11
    DEF Inv, HandoverInv, ProvenInTime, Moves, BeforeProof
  <2>9. OutcomeFits' /\ RowFits'
    BY <1>1, <1>2, <1>4, <1>5, <1>6, <1>11
    DEF Inv, HandoverInv, OutcomeFits, RowFits, Moves, MayMove, InFlight, Finished
  <2> QED BY <2>6, <2>7, <2>8, <2>9, <1>7, <1>9 DEF HandsOn, HandoverInv, H!Next
<1> QED BY <1>10, <1>11


\* Registering adopts the version, or leaves a doubt whether it is adopted.
LEMMA RegisterHandsOn ==
    ASSUME Inv, NEW t \in Updates, Register(t)
    PROVE  HandsOn
<1>1. /\ pc[t] = "register" /\ InFlight(t) /\ outcome[t] = "none"
      /\ t \in passed /\ cont[Prod].by = t /\ Prod \in Routed
      /\ expectUp => Live(Prod)
  BY DEF Register, InFlight, Finished, Inv, HandoverInv, OutcomeFits, Fits,
         ServiceInv, NewServes, ProdIsOwn, OwnsProd, Routed
<1>2. UNCHANGED <<cont, passed>>
  BY DEF Register
<1>3. row.status # "gone"
  BY DEF Inv, HandoverInv, RowFits
<1>4. Live(Prod) => t \in ServingVersions
  BY <1>1, LiveServes DEF Inv
<1>5. /\ ServingVersions' = ServingVersions
      /\ \A n \in Routed : Live(n)' <=> Live(n)
  BY <1>2, SameService
<1>6. PICK l \in {"register", "stop_old", "remove_new"}, o \in {"none", "ok", "unregistered"} :
        /\ Goto(t, l) /\ (outcome' = [outcome EXCEPT ![t] = o])
        /\ l = "register" => o = "none"
        /\ l = "stop_old" <=> o = "ok"
        /\ l = "remove_new" => o = "unregistered"
        /\ l = "stop_old" => Registered(t)
        /\ l # "stop_old" => NotRegistered(t)
  <2>1. CASE Registered(t)
    BY <2>1 DEF Registered, Decide
  <2>2. CASE NotRegistered(t) /\ attempts[t] < MaxAttempts
    <3>1. outcome' = [outcome EXCEPT ![t] = "none"] /\ Goto(t, "register")
      BY <2>2, <1>1 DEF NotRegistered, Branch, Inv, TypeOK
    <3> QED BY <2>2, <3>1
  <2>3. CASE NotRegistered(t) /\ ~(attempts[t] < MaxAttempts)
    BY <2>3 DEF NotRegistered, Branch, Decide
  <2> QED BY <2>1, <2>2, <2>3 DEF Register
<1>7. Moves(t, l, o)
  BY <1>6 DEF Moves, Goto, Inv, TypeOK
<1>8. Phases' = Phases /\ Phases[t] = "busy"
  <2>1. l \in Steps
    BY DEF Steps
  <2> QED BY <2>1, <1>1, <1>7, StaysBusy DEF Inv
<1>9. \A u \in Updates : u # t => pc[u] \in Finished
  BY <1>1 DEF Inv, ServiceInv, OneInFlight, InFlight
<1>10. ProvenInTime' /\ OutcomeFits' /\ ProdIsOwn'
  BY <1>1, <1>2, <1>6, <1>7
  DEF Inv, HandoverInv, ProvenInTime, OutcomeFits, ProdIsOwn, Moves, Fits,
      BeforeProof, OwnsProd, Undone
<1>11. CASE l = "stop_old"
  <2>1. Registered(t)
    BY <1>6, <1>11
  <2>2. row' = [status |-> "running", container |-> t] /\ blamed' = blamed
    BY <2>1, <1>3 DEF Registered, UpdateRunning, RowUpdate, Answer
  <2>3. row'.container = t /\ row'.status # "gone" /\ Doubtful' = Doubtful
    BY <2>2 DEF Doubtful
  <2>4. expectUp' = (expectUp \/ IsOwn(t, Prod))
    BY <2>1 DEF Registered
  <2>5. IsOwn(t, Prod) => t \in ServingVersions
    BY <1>1, <1>4 DEF IsOwn, Live
  <2>6. expectUp' \in {expectUp, expectUp \/ t \in ServingVersions}
    BY <2>4, <2>5 DEF Inv, TypeOK
  <2>7. expectUp' => t \in ServingVersions
    BY <2>4, <2>5, <1>1, <1>4
  <2>8. H!Adopt(t)
    BY <2>3, <2>6, <1>1, <1>2, <1>4, <1>5, <1>8 DEF H!Adopt
  <2>9. RegisteredServes' /\ SpareIsRegistered'
    BY <2>3, <2>7, <1>5, <1>7, <1>9, <1>11
    DEF RegisteredServes, SpareIsRegistered, Moves, Replacing, Finished
  <2>10. RowFits'
    BY <2>3, <1>6, <1>7, <1>9, <1>11
    DEF Inv, HandoverInv, RowFits, Moves, InFlight, Finished
  <2> QED BY <2>8, <2>9, <2>10, <1>10 DEF HandsOn, HandoverInv, H!Next
<1>12. CASE l # "stop_old"
  <2>1. NotRegistered(t)
    BY <1>6, <1>12
  <2>2. row' \in {row, [status |-> "running", container |-> t]} /\ Registry \in blamed'
    BY <2>1, <1>3 DEF NotRegistered, UpdateRunning, RowUpdate, Answer
  <2>3. /\ row'.container \in {row.container, t} /\ row'.status # "gone"
        /\ Doubtful' = TRUE
    BY <2>2, <1>3 DEF Doubtful
  <2>4. expectUp' = expectUp
    BY <2>1 DEF NotRegistered
  <2>5. H!Doubt(t)
    BY <2>3, <2>4, <1>1, <1>2, <1>5, <1>8 DEF H!Doubt
  <2>6. RegisteredServes' /\ SpareIsRegistered'
    BY <2>3 DEF RegisteredServes, SpareIsRegistered
  <2>7. RowFits'
    BY <2>3, <1>6, <1>7, <1>9, <1>12
    DEF Inv, HandoverInv, RowFits, Moves, InFlight, Finished
  <2> QED BY <2>5, <2>6, <2>7, <1>10 DEF HandsOn, HandoverInv, H!Next
<1> QED BY <1>11, <1>12

\* The old container is retired while the new one, the registered one, serves.
LEMMA RetireOldHandsOn ==
    ASSUME Inv, NEW t \in Updates, StopOld(t) \/ RemoveOld(t)
    PROVE  HandsOn
<1> USE DEF DockerStep, CleanupStep
<1>1. /\ pc[t] \in {"stop_old", "remove_old"} /\ InFlight(t) /\ outcome[t] = "ok"
      /\ cont[Prod].by = t /\ (expectUp => Live(Prod)) /\ row.container = t
      /\ row.status # "gone"
  BY DEF StopOld, RemoveOld, InFlight, Finished, Inv, HandoverInv, OutcomeFits, Fits,
         ServiceInv, NewServes, ProdIsOwn, OwnsProd, RowFits
<1>2. UNCHANGED <<passed, expectUp, row>>
  BY DEF StopOld, RemoveOld
<1>3. PICK l \in {"remove_old", "stop_canary"} : Goto(t, l) /\ UNCHANGED outcome
  BY DEF StopOld, RemoveOld
<1>4. Moves(t, l, outcome[t])
  BY <1>3 DEF Moves, Goto, Inv, TypeOK
<1>5. l \in Steps /\ MayMove(t, l, outcome[t])
  BY <1>1 DEF Steps, MayMove, Fits, BeforeProof, Undone, H!Verdicts
<1>6. t \in Makers /\ Old(t) \in Names /\ Prod \in Routed /\ Prod # Old(t)
  BY NamesDistinct DEF Makers, Versions
<1>7. Doubtful' = Doubtful
  BY <1>6, DockerDoubtsNothing DEF StopOld, RemoveOld, Inv
<1>8. \A m \in Routed \ {Old(t)} : cont'[m] = cont[m]
  BY OldFrame DEF StopOld, RemoveOld, Inv
<1>9. Live(Old(t))' => cont'[Old(t)] = cont[Old(t)]
  BY <1>6 DEF StopOld, RemoveOld, DockerStop, DockerRemove, Docker, NoContainer, Live,
              Inv, TypeOK, Container
<1>10. \A n \in Routed : Live(n)' => Live(n) /\ cont'[n].by = cont[n].by
  BY <1>2, <1>8, <1>9 DEF Live
<1>11. ServingVersions' \subseteq ServingVersions
  BY <1>10 DEF ServingVersions
<1>12. expectUp => t \in ServingVersions'
  <2>1. expectUp => Live(Prod)' /\ cont'[Prod].by = t
    BY <1>1, <1>2, <1>6, <1>8 DEF Live
  <2> QED BY <2>1, <1>6 DEF ServingVersions, Versions
<1>13. Phases' = Phases /\ Phases[t] = "busy"
  BY <1>1, <1>4, <1>5, StaysBusy DEF Inv
<1>14. H!Retire(t)
  BY <1>1, <1>2, <1>7, <1>11, <1>12, <1>13 DEF H!Retire
<1>15. RegisteredServes'
  BY <1>1, <1>2, <1>12 DEF RegisteredServes
<1>16. \A u \in Updates : u # t => pc[u] \in Finished
  BY <1>1 DEF Inv, ServiceInv, OneInFlight, InFlight
<1>17. ProdIsOwn' /\ SpareIsRegistered'
  BY <1>1, <1>4, <1>6, <1>8, <1>16
  DEF ProdIsOwn, SpareIsRegistered, Moves, OwnsProd, Replacing, Finished
<1>18. ProvenInTime' /\ OutcomeFits' /\ RowFits'
  BY <1>1, <1>2, <1>4, <1>5, <1>7, MovesFit
<1> QED BY <1>14, <1>15, <1>17, <1>18 DEF HandsOn, HandoverInv, H!Next

\* The new one is retired while the spare, the registered one, serves.
LEMMA RemoveNewHandsOn ==
    ASSUME Inv, NEW t \in Updates, RemoveNew(t)
    PROVE  HandsOn
<1> USE DEF DockerStep, CleanupStep
<1>1. /\ pc[t] = "remove_new" /\ InFlight(t) /\ outcome[t] \in Undone
      /\ row.status # "gone"
  BY DEF RemoveNew, InFlight, Finished, Inv, HandoverInv, OutcomeFits, Fits, RowFits
<1>2. UNCHANGED <<passed, expectUp, row>> /\ Goto(t, "restore_old") /\ UNCHANGED outcome
  BY DEF RemoveNew
<1>3. Moves(t, "restore_old", outcome[t])
  BY <1>2 DEF Moves, Goto, Inv, TypeOK
<1>4. "restore_old" \in Steps /\ MayMove(t, "restore_old", outcome[t])
  BY <1>1 DEF Steps, MayMove, Fits, BeforeProof, Undone
<1>5. t \in Makers /\ Prod \in Names /\ Routed \subseteq Names
  BY DEF Makers, Versions, Names, Routed
<1>6. Doubtful' = Doubtful
  BY <1>5, DockerDoubtsNothing DEF RemoveNew, Inv
<1>7. \A m \in Routed \ {Prod} : cont'[m] = cont[m]
  BY <1>5, CallsFrame DEF RemoveNew, Inv
<1>8. Live(Prod)' => cont'[Prod] = cont[Prod]
  BY <1>5 DEF RemoveNew, DockerForceRemove, Docker, NoContainer, Live, Inv, TypeOK
<1>9. \A n \in Routed : Live(n)' => Live(n) /\ cont'[n].by = cont[n].by
  BY <1>2, <1>7, <1>8 DEF Live
<1>10. ServingVersions' \subseteq ServingVersions
  BY <1>9 DEF ServingVersions
<1>11. \A n \in Routed \ {Prod} : Live(n) => cont[n].by \in ServingVersions'
  <2> SUFFICES ASSUME NEW n \in Routed \ {Prod}, Live(n) PROVE cont[n].by \in ServingVersions'
    OBVIOUS
  <2>1. cont[n].by \in Versions
    BY LiveServes DEF ServingVersions, Inv
  <2> QED BY <2>1, <1>2, <1>7 DEF ServingVersions, Live
<1>12. expectUp => ServingVersions' # {}
  BY <1>1, <1>11 DEF Inv, ServiceInv, SpareServes, Replacing
<1>13. expectUp /\ ~Doubtful => row.container \in ServingVersions'
  BY <1>1, <1>11 DEF Inv, HandoverInv, SpareIsRegistered, Replacing
<1>14. Phases' = Phases /\ Phases[t] = "busy"
  BY <1>1, <1>3, <1>4, StaysBusy DEF Inv
<1>15. H!Retire(t)
  BY <1>2, <1>6, <1>10, <1>12, <1>13, <1>14 DEF H!Retire
<1>16. RegisteredServes'
  BY <1>2, <1>6, <1>13 DEF RegisteredServes
<1>17. \A u \in Updates : u # t => pc[u] \in Finished
  BY <1>1 DEF Inv, ServiceInv, OneInFlight, InFlight
<1>18. ProdIsOwn' /\ SpareIsRegistered'
  BY <1>3, <1>17 DEF ProdIsOwn, SpareIsRegistered, Moves, OwnsProd, Replacing, Finished
<1>19. ProvenInTime' /\ OutcomeFits' /\ RowFits'
  BY <1>1, <1>2, <1>3, <1>4, <1>6, MovesFit
<1> QED BY <1>15, <1>16, <1>18, <1>19 DEF HandsOn, HandoverInv, H!Next

\* The rollback's rename moves the service back.
LEMMA RestoreOldHandsOn ==
    ASSUME Inv, NEW t \in Updates, RestoreOld(t)
    PROVE  HandsOn
<1> USE DEF DockerStep
<1>1. pc[t] = "restore_old" /\ InFlight(t) /\ outcome[t] \in Undone
  BY DEF RestoreOld, InFlight, Finished, Inv, HandoverInv, OutcomeFits, Fits
<1>2. UNCHANGED <<passed, expectUp, row>> /\ Goto(t, "stop_canary")
  BY DEF RestoreOld
<1>3. PICK o \in {"failed", "rolled_back"} : outcome' = [outcome EXCEPT ![t] = o]
  <2>1. CASE outcome[t] = "unregistered"
    BY <2>1 DEF RestoreOld, Decide
  <2>2. CASE outcome[t] # "unregistered"
    <3>1. outcome' = [outcome EXCEPT ![t] = outcome[t]]
      BY <2>2 DEF RestoreOld, Inv, TypeOK
    <3> QED BY <3>1, <2>2, <1>1 DEF Undone
  <2> QED BY <2>1, <2>2
<1>4. Moves(t, "stop_canary", o)
  BY <1>2, <1>3 DEF Moves, Goto, Inv, TypeOK
<1>5. "stop_canary" \in Steps /\ MayMove(t, "stop_canary", o)
  BY <1>1 DEF Steps, MayMove, Fits, BeforeProof, Undone, H!Verdicts
<1>6. Doubtful' = Doubtful
  <2>1. t \in Makers /\ Prod \in Names /\ Old(t) \in Names
    BY NamesDistinct DEF Makers, Versions
  <2> QED BY <2>1, DockerDoubtsNothing DEF RestoreOld, Inv
<1>7. \A u \in Updates : u # t => pc[u] \in Finished
  BY <1>1 DEF Inv, ServiceInv, OneInFlight, InFlight
<1>8. ProdIsOwn' /\ SpareIsRegistered'
  BY <1>4, <1>7 DEF ProdIsOwn, SpareIsRegistered, Moves, OwnsProd, Replacing, Finished
<1>9. ServingVersions' = ServingVersions
  <2>1. CASE cont' = cont
    BY <2>1, <1>2, SameService
  <2>2. CASE /\ cont[Prod].st = "none"
             /\ cont' = [cont EXCEPT ![Prod] = cont[Old(t)], ![Old(t)] = NoContainer]
    <3>1. /\ cont'[Prod] = cont[Old(t)] /\ cont'[Old(t)].st = "none"
          /\ \A m \in Routed \ {Prod, Old(t)} : cont'[m] = cont[m]
      BY <2>2, NamesDistinct DEF Inv, TypeOK, Routed, Names, NoContainer
    <3>2. \A n \in Routed : Live(n)' => \E m \in Routed : Live(m) /\ cont[m].by = cont'[n].by
      <4> SUFFICES ASSUME NEW n \in Routed, Live(n)'
                   PROVE  \E m \in Routed : Live(m) /\ cont[m].by = cont'[n].by
        OBVIOUS
      <4>1. n # Old(t)
        BY <3>1 DEF Live
      <4>2. CASE n = Prod
        BY <3>1, <4>2, <1>2, NamesDistinct DEF Live
      <4>3. CASE n # Prod
        BY <3>1, <4>1, <4>3, <1>2 DEF Live
      <4> QED BY <4>2, <4>3
    <3>3. \A n \in Routed : Live(n) => \E m \in Routed : Live(m)' /\ cont'[m].by = cont[n].by
      <4> SUFFICES ASSUME NEW n \in Routed, Live(n)
                   PROVE  \E m \in Routed : Live(m)' /\ cont'[m].by = cont[n].by
        OBVIOUS
      <4>1. n # Prod
        BY <2>2 DEF Live
      <4>2. CASE n = Old(t)
        BY <3>1, <4>2, <1>2, NamesDistinct DEF Live
      <4>3. CASE n # Old(t)
        BY <3>1, <4>1, <4>3, <1>2 DEF Live
      <4> QED BY <4>2, <4>3
    <3> QED BY <3>2, <3>3 DEF ServingVersions
  <2> QED BY <2>1, <2>2 DEF RestoreOld, DockerRename, Docker
<1> QED BY <1>1, <1>2, <1>4, <1>5, <1>6, <1>8, <1>9, Unseen


\* What the update reports is true.
LEMMA ReportHandsOn ==
    ASSUME Inv, NEW t \in Updates, Report(t)
    PROVE  HandsOn
<1> USE DEF RowStep
<1>1. /\ pc[t] = "report" /\ InFlight(t) /\ outcome[t] \in H!Verdicts
      /\ outcome[t] = "ok" => row.container = t
      /\ row.container = t => outcome[t] = "ok" \/ Doubtful
      /\ row.status # "gone"
  BY DEF Report, InFlight, Finished, Inv, HandoverInv, OutcomeFits, Fits, RowFits
<1>2. UNCHANGED <<cont, passed, expectUp, outcome>> /\ Goto(t, "done")
  BY DEF Report
<1>3. /\ row'.container = row.container /\ row'.status # "gone"
      /\ Doubtful' = Doubtful \/ Doubtful' = TRUE
  <2>1. CASE UNCHANGED <<row, faults, blamed>>
    BY <2>1, <1>1 DEF Doubtful
  <2>2. ASSUME NEW s \in {"running", "failed"}, NEW ok \in BOOLEAN, UpdateStatus(s, ok)
        PROVE  /\ row'.container = row.container /\ row'.status # "gone"
               /\ Doubtful' = Doubtful \/ Doubtful' = TRUE
    BY <2>2, StatusWritten DEF Inv, Statuses
  <2> QED BY <2>1, <2>2 DEF Report
<1>4. Moves(t, "done", outcome[t])
  BY <1>2 DEF Moves, Goto, Inv, TypeOK
<1>5. MayMove(t, "done", outcome[t])
  BY DEF MayMove, Fits, BeforeProof, Finished, Undone
<1>6. /\ ServingVersions' = ServingVersions
      /\ \A n \in Routed : Live(n)' <=> Live(n)
  BY <1>2, SameService
<1>7. Phases' = [Phases EXCEPT ![t] = outcome[t]] /\ Phases[t] = "busy"
  <2>1. Phase(t)' = outcome[t] /\ Phase(t) = "busy"
    BY <1>1, <1>4 DEF Phase, Moves, H!Verdicts
  <2>2. \A u \in Updates : u # t => Phase(u)' = Phase(u)
    BY <1>4 DEF Phase, Moves
  <2> QED BY <2>1, <2>2 DEF Phases
<1>8. H!Conclude(t)
  BY <1>1, <1>2, <1>3, <1>6, <1>7 DEF H!Conclude, H!Enter
<1>9. RegisteredServes'
  BY <1>2, <1>3, <1>6 DEF Inv, HandoverInv, RegisteredServes
<1>10. ProdIsOwn' /\ SpareIsRegistered'
  BY <1>2, <1>3, <1>4, <1>6
  DEF Inv, HandoverInv, ProdIsOwn, SpareIsRegistered, Moves, OwnsProd, Replacing
<1>11. ProvenInTime' /\ OutcomeFits' /\ RowFits'
  BY <1>2, <1>3, <1>4, <1>5, MovesFit
<1> QED BY <1>8, <1>9, <1>10, <1>11 DEF HandsOn, HandoverInv, H!Next

\* An update is taken up, or refused, when no other one is under way.
LEMMA BeginHandsOn ==
    ASSUME Inv, Concurrent = FALSE, NEW t \in Updates, Begin(t)
    PROVE  HandsOn
<1> USE DEF RowStep
<1>1. /\ pc[t] = "idle" /\ outcome[t] = "none"
      /\ \A u \in Updates : ~InFlight(u)
  BY DEF Begin, Inv, HandoverInv, OutcomeFits, Fits, BeforeProof
<1>2. UNCHANGED <<cont, passed, expectUp>>
  BY DEF Begin
<1>3. PICK l \in {"build", "report", "done"}, o \in {"none", "failed"}, ok \in BOOLEAN :
        /\ UpdateStatus("building", ok)
        /\ Goto(t, l) /\ (outcome' = [outcome EXCEPT ![t] = o])
        /\ l = "report" <=> o = "failed"
        /\ l = "done" <=> ~ok
  <2>1. outcome = [outcome EXCEPT ![t] = "none"]
    BY <1>1 DEF Inv, TypeOK
  <2>2. CASE UpdateStatus("building", TRUE) /\ Branch(t, TRUE, "build", "report", "failed")
    BY <2>1, <2>2 DEF Branch
  <2>3. CASE UpdateStatus("building", TRUE) /\ Branch(t, FALSE, "build", "report", "failed")
    BY <2>3 DEF Branch, Decide
  <2>4. CASE UpdateStatus("building", FALSE) /\ Goto(t, "done") /\ UNCHANGED outcome
    BY <2>1, <2>4
  <2> QED BY <2>2, <2>3, <2>4 DEF Begin
<1>4. Moves(t, l, o)
  BY <1>3 DEF Moves, Goto, Inv, TypeOK
<1>5. MayMove(t, l, o)
  BY <1>1, <1>3 DEF MayMove, Fits, BeforeProof, Undone, H!Verdicts
<1>6. /\ row'.container = row.container /\ row'.status # "gone"
      /\ ok => Doubtful' = Doubtful
      /\ ~ok => Doubtful' = TRUE
  BY <1>3, StatusWritten DEF Inv, Statuses
<1>7. /\ ServingVersions' = ServingVersions
      /\ \A n \in Routed : Live(n)' <=> Live(n)
  BY <1>2, SameService
<1>8. \A u \in Updates : Phase(u) # "busy"
  BY <1>1 DEF Phase, InFlight, Finished, Inv, TypeOK, Outcomes
<1>9. /\ Phases[t] = "idle"
      /\ Phases' = [Phases EXCEPT ![t] = IF l = "done" THEN "failed" ELSE "busy"]
  <2>1. Phase(t) = "idle" /\ Phase(t)' = IF l = "done" THEN "failed" ELSE "busy"
    BY <1>1, <1>3, <1>4 DEF Phase, Moves
  <2>2. \A u \in Updates : u # t => Phase(u)' = Phase(u)
    BY <1>4 DEF Phase, Moves
  <2> QED BY <2>1, <2>2 DEF Phases
<1>10. H!Take(t)
  BY <1>2, <1>3, <1>6, <1>7, <1>8, <1>9 DEF H!Take, H!Enter, Phases
<1>11. RegisteredServes'
  BY <1>2, <1>3, <1>6, <1>7 DEF Inv, HandoverInv, RegisteredServes
<1>12. ProdIsOwn' /\ SpareIsRegistered'
  BY <1>1, <1>4 DEF ProdIsOwn, SpareIsRegistered, Moves, OwnsProd, Replacing, InFlight, Finished
<1>13. ProvenInTime' /\ OutcomeFits' /\ RowFits'
  BY <1>2, <1>4, <1>5, <1>6, MovesFit
<1> QED BY <1>10, <1>11, <1>12, <1>13 DEF HandsOn, HandoverInv, H!Next

\* A container that exits, and a server that dies.
LEMMA ExitHandsOn ==
    ASSUME Inv, NEW n \in Names, ContainerExits(n)
    PROVE  HandsOn
<1>1. /\ UNCHANGED <<row, blamed, pc, outcome, passed>>
      /\ expectUp' = (expectUp /\ n \notin Routed)
      /\ cont' = [cont EXCEPT ![n].st = "exited"]
  BY DEF ContainerExits, updateVars
<1>2. Routed \subseteq Names /\ Prod \in Names
  BY DEF Routed, Names
<1>3. /\ \A m \in Names : cont'[m].by = cont[m].by
      /\ \A m \in Names : Live(m)' => Live(m)
      /\ n \notin Routed => \A m \in Routed : cont'[m] = cont[m]
  BY <1>1, <1>2 DEF Inv, TypeOK, Container, Live
<1>4. Doubtful' = Doubtful /\ Phases' = Phases
  BY <1>1 DEF Doubtful, Phases, Phase
<1>5. ProvenInTime' /\ OutcomeFits' /\ RowFits' /\ ProdIsOwn'
  BY <1>1, <1>2, <1>3, <1>4
  DEF Inv, HandoverInv, ProvenInTime, OutcomeFits, RowFits, ProdIsOwn, InFlight
<1>6. CASE n \in Routed
  <2>1. ServingVersions' \subseteq ServingVersions
    BY <1>2, <1>3 DEF ServingVersions
  <2>2. expectUp' = FALSE
    BY <1>1, <1>6
  <2>3. H!Exit
    BY <1>1, <1>4, <2>1, <2>2 DEF H!Exit
  <2>4. RegisteredServes' /\ SpareIsRegistered'
    BY <2>2 DEF RegisteredServes, SpareIsRegistered
  <2> QED BY <1>5, <2>3, <2>4 DEF HandsOn, HandoverInv, H!Next
<1>7. CASE n \notin Routed
  <2>1. /\ ServingVersions' = ServingVersions
        /\ \A m \in Routed : Live(m)' <=> Live(m)
    BY <1>1, <1>3, <1>7, SameService
  <2>2. expectUp' = expectUp
    BY <1>1, <1>7 DEF Inv, TypeOK
  <2>3. UNCHANGED H!vars
    BY <1>1, <1>4, <2>1, <2>2 DEF H!vars
  <2>4. RegisteredServes' /\ SpareIsRegistered'
    BY <1>1, <1>3, <1>4, <1>7, <2>1, <2>2
    DEF Inv, HandoverInv, RegisteredServes, SpareIsRegistered
  <2> QED BY <1>5, <2>3, <2>4 DEF HandsOn, HandoverInv
<1> QED BY <1>6, <1>7

LEMMA DieHandsOn ==
    ASSUME Inv, ServerCrash
    PROVE  HandsOn
<1>1. /\ UNCHANGED <<cont, row, blamed, passed, expectUp, outcome>>
      /\ \A u \in Updates : pc'[u] = IF InFlight(u) THEN "lost" ELSE pc[u]
  BY DEF ServerCrash, sharedVars
<1>2. /\ ServingVersions' = ServingVersions
      /\ \A n \in Routed : Live(n)' <=> Live(n)
  BY <1>1, SameService
<1>3. Doubtful' = Doubtful
  BY <1>1 DEF Doubtful
<1>4. \A u \in Updates : Phase(u)' = IF Phase(u) = "busy" THEN "lost" ELSE Phase(u)
  <2> SUFFICES ASSUME NEW u \in Updates
               PROVE  Phase(u)' = IF Phase(u) = "busy" THEN "lost" ELSE Phase(u)
    OBVIOUS
  <2>1. CASE InFlight(u)
    BY <2>1, <1>1 DEF Phase, InFlight, Finished
  <2>2. CASE ~InFlight(u)
    <3>1. Phase(u)' = Phase(u)
      BY <2>2, <1>1 DEF Phase
    <3>2. Phase(u) # "busy"
      BY <2>2 DEF Phase, InFlight, Finished, Inv, TypeOK, Outcomes
    <3> QED BY <3>1, <3>2
  <2> QED BY <2>1, <2>2
<1>5. H!Die
  BY <1>1, <1>2, <1>3, <1>4 DEF H!Die, Phases
<1>6. RegisteredServes' /\ ProdIsOwn' /\ SpareIsRegistered'
  BY <1>1, <1>2, <1>3
  DEF Inv, HandoverInv, RegisteredServes, ProdIsOwn, SpareIsRegistered, OwnsProd, Replacing
<1>7. ProvenInTime' /\ OutcomeFits' /\ RowFits'
  BY <1>1, <1>3
  DEF Inv, HandoverInv, ProvenInTime, OutcomeFits, Fits, BeforeProof, RowFits, InFlight,
      Finished
<1> QED BY <1>5, <1>6, <1>7 DEF HandsOn, HandoverInv, H!Next

LEMMA StepHandsOn ==
    ASSUME Inv, Concurrent = FALSE, [Next]_vars
    PROVE  HandsOn
<1>1. ASSUME NEW t \in Updates, Begin(t) \/ TaskStep(t) PROVE HandsOn
  BY <1>1, BeginHandsOn, CanaryHandsOn, TidyHandsOn, MoveOldHandsOn, NewHandsOn,
     ProbeHandsOn, RegisterHandsOn, RetireOldHandsOn, RemoveNewHandsOn,
     RestoreOldHandsOn, ReportHandsOn DEF TaskStep
<1>2. CASE UNCHANGED vars
  BY <1>2
  DEF vars, updateVars, sharedVars, Inv, HandsOn, HandoverInv, RegisteredServes, ProdIsOwn,
      SpareIsRegistered, ProvenInTime, OutcomeFits, RowFits, InFlight, Live, Doubtful,
      ServingVersions, H!vars, Phases, Phase
<1> QED BY <1>1, <1>2, ExitHandsOn, DieHandsOn DEF Next

\* The states in which an update finds a process.
LEMMA InitHandsOn == Init => HandoverInv /\ H!Init
<1> SUFFICES ASSUME Init PROVE HandoverInv /\ H!Init
  OBVIOUS
<1>0. PICK s \in InitialStates :
        /\ cont = [n \in Names |-> IF n = Prod THEN [NoContainer EXCEPT !.st = s[1]]
                                   ELSE NoContainer]
        /\ row = [status |-> s[2], container |-> s[3]]
        /\ expectUp = (s[1] = "running")
  BY DEF Init
<1>1. /\ \A n \in Names : cont[n].by = Base
      /\ Prod \in Routed /\ Prod \in Names /\ Routed \subseteq Names
      /\ cont[Prod].st = s[1]
  <2>1. Prod \in Routed /\ Prod \in Names /\ Routed \subseteq Names
    BY DEF Names, Routed
  <2> QED BY <1>0, <2>1 DEF NoContainer
<1>2. \A t \in Updates : pc[t] = "idle" /\ outcome[t] = "none"
  BY DEF Init
<1>3. /\ row.container \in {Base, "unset"} /\ row.status # "gone"
      /\ expectUp \in BOOLEAN
      /\ expectUp => row.container = Base /\ cont[Prod].st = "running"
  <2>1. row.container = s[3] /\ row.status = s[2]
    BY <1>0
  <2>2. s[3] \in {Base, "unset"} /\ s[2] # "gone" /\ (s[1] = "running" => s[3] = Base)
    BY DEF InitialStates
  <2>3. expectUp \in BOOLEAN
    BY InitTyped DEF TypeOK
  <2> QED BY <1>0, <1>1, <2>1, <2>2, <2>3
<1>4. passed = {} /\ Doubtful = FALSE
  BY DEF Init, Doubtful
<1>5. ServingVersions \subseteq {Base}
  BY <1>1, <1>4 DEF ServingVersions
<1>6. expectUp => ServingVersions = {Base}
  BY <1>1, <1>3, <1>5 DEF ServingVersions, Live, Versions
<1>7. Phases = [t \in Updates |-> "idle"]
  BY <1>2 DEF Phases, Phase
<1>8. H!Init
  BY <1>3, <1>4, <1>5, <1>6, <1>7 DEF H!Init
<1>9. RegisteredServes /\ ProdIsOwn /\ SpareIsRegistered
  BY <1>2, <1>3, <1>6
  DEF RegisteredServes, ProdIsOwn, SpareIsRegistered, OwnsProd, Replacing
<1>10. ProvenInTime /\ OutcomeFits
  BY <1>2, <1>4 DEF ProvenInTime, OutcomeFits, Fits, BeforeProof, Undone, H!Verdicts
<1>11. RowFits
  BY <1>2, <1>3, StateAssumption DEF RowFits
<1> QED BY <1>8, <1>9, <1>10, <1>11 DEF HandoverInv

-----------------------------------------------------------------------------

LEMMA HandoverInvariant ==
    ASSUME Concurrent = FALSE
    PROVE  Spec => []Inv
<1>1. Inv /\ TypeOK' /\ ServiceInv' /\ [Next]_vars => Inv'
  BY StepHandsOn DEF Inv, HandsOn
<1>2. Init => Inv
  BY InitTyped, InitServes, InitHandsOn DEF Inv
<1> QED BY <1>1, <1>2, TypeCorrect, ServiceInvariant, PTL DEF Spec

\* The invariant that the refinement rests on holds of every behaviour in which the
\* updates of a process run one after the other.
THEOREM HandoverInvAlways ==
    ASSUME Concurrent = FALSE
    PROVE  Spec => []HandoverInv
<1>1. Inv => HandoverInv
  BY DEF Inv
<1> QED BY <1>1, HandoverInvariant, PTL

\* When the updates of a process run one after the other, the version that the
\* registry names serves at every moment, unless a container exited by itself or a
\* write to the registry failed: for any number of updates and of failed Docker
\* calls, and wherever the API server dies.
THEOREM RegisteredServesAlways ==
    ASSUME Concurrent = FALSE
    PROVE  Spec => []RegisteredServes
<1>1. Inv => RegisteredServes
  BY DEF Inv, HandoverInv
<1> QED BY <1>1, HandoverInvariant, PTL

\* The rolling update implements the handover.
THEOREM ImplementsHandover ==
    ASSUME Concurrent = FALSE
    PROVE  Spec => HandsOver
<1>1. Init => H!Init
  BY InitHandsOn
<1>2. Inv /\ [Next]_vars => [H!Next]_(H!vars)
  BY StepHandsOn DEF HandsOn
<1> QED BY <1>1, <1>2, HandoverInvariant, PTL DEF Spec, HandsOver, H!Spec

-----------------------------------------------------------------------------
(***************************************************************************)
(* Outcomes: what an update of a process leaves behind, which containers,  *)
(* what row, and which image under its tag.                                *)
(***************************************************************************)

\* Containers run the image of who made them, for the tag is the update's own as long
\* as it creates containers, ...
Creating  == {"create_canary", "start_canary", "probe_canary", "move_old", "create_new"}
ImagesOwn == \A n \in Names : cont[n].img = cont[n].by
TagOwn    == \A t \in Updates : pc[t] \in Creating => tag = t

\* ... and the registered one has passed its probe.
PassedOnly == row.container \in passed \cup {Base, "unset"}

ImageInv == ImagesOwn /\ TagOwn /\ PassedOnly

\* Where the canary of an update at some step can be left: nowhere, unless a call on it
\* failed.
CanaryAt(t, step) ==
    /\ step \in {"idle", "build", "create_canary"} => cont[Canary(t)].st = "none"
    /\ step = "start_canary" => cont[Canary(t)].st # "none"
    /\ step = "remove_canary" => cont[Canary(t)].st # "running" \/ Canary(t) \in blamed
    /\ step \in {"report", "done"} => cont[Canary(t)].st = "none" \/ Canary(t) \in blamed

\* And the container that it moved aside: under no name but the production one, unless
\* a call on either failed.
Untouched == {"idle", "build", "create_canary", "start_canary", "probe_canary", "move_old"}
PutRight  == {"stop_canary", "remove_canary", "report", "done"}
OldAt(t, step) ==
    /\ step \in Untouched => cont[Old(t)].st = "none"
    /\ step = "remove_old" => cont[Old(t)].st # "running" \/ Old(t) \in blamed
    /\ step = "restore_old" => cont[Prod].st = "none" \/ Prod \in blamed
    /\ step \in PutRight => cont[Old(t)].st = "none" \/ {Prod, Old(t)} \cap blamed # {}

TidyAt(t, step) == CanaryAt(t, step) /\ OldAt(t, step)
TidyInv == \A t \in Updates : TidyAt(t, pc[t])

-----------------------------------------------------------------------------
(* The calls                                                                *)

\* No two names are the same.
LEMMA NamesApart ==
    ASSUME NEW t \in Updates, NEW u \in Updates
    PROVE  /\ {Prod, Canary(t), Old(t)} \subseteq Names
           /\ Prod # Canary(t) /\ Prod # Old(t) /\ Canary(t) # Old(u)
           /\ Canary(t) = Canary(u) => t = u
           /\ Old(t) = Old(u) => t = u
BY DEF Prod, Canary, Old, Names

\* What a call on one name does to the container of that name, or whom it blames.
LEMMA CreateEffect ==
    ASSUME TypeOK, NEW n \in Names, NEW v \in Makers, NEW ok \in BOOLEAN, DockerCreate(n, v, ok)
    PROVE  /\ \A m \in Names \ {n} : cont'[m] = cont[m]
           /\ blamed \subseteq blamed'
           /\ cont'[n] \in {cont[n], [by |-> v, img |-> tag, st |-> "created"]}
           /\ ok => cont'[n].st = "created"
           /\ cont[n].st = "none" /\ ~ok => n \in blamed'
BY DEF DockerCreate, Docker, Answer, TypeOK

LEMMA StartEffect ==
    ASSUME TypeOK, NEW n \in Names, NEW ok \in BOOLEAN, DockerStart(n, ok)
    PROVE  /\ \A m \in Names \ {n} : cont'[m] = cont[m]
           /\ blamed \subseteq blamed'
           /\ cont'[n].by = cont[n].by /\ cont'[n].img = cont[n].img
           /\ cont[n].st # "none" /\ ~ok => n \in blamed'
BY DEF DockerStart, Docker, Answer, TypeOK, Container

LEMMA StopEffect ==
    ASSUME TypeOK, NEW n \in Names, NEW ok \in BOOLEAN, DockerStop(n, ok)
    PROVE  /\ \A m \in Names \ {n} : cont'[m] = cont[m]
           /\ blamed \subseteq blamed'
           /\ cont'[n].by = cont[n].by /\ cont'[n].img = cont[n].img
           /\ cont[n].st = "none" => cont'[n].st = "none"
           /\ cont'[n].st # "running" \/ n \in blamed'
BY DEF DockerStop, Docker, Answer, TypeOK, Container

LEMMA RemoveEffect ==
    ASSUME TypeOK, NEW n \in Names, NEW ok \in BOOLEAN, DockerRemove(n, ok)
    PROVE  /\ \A m \in Names \ {n} : cont'[m] = cont[m]
           /\ blamed \subseteq blamed'
           /\ cont'[n] \in {cont[n], NoContainer}
           /\ cont[n].st # "running" => cont'[n].st = "none" \/ n \in blamed'
<1>1. cont[n].st \in {"none", "created", "running", "exited"}
  BY DEF TypeOK, Container
<1> QED BY <1>1 DEF DockerRemove, Docker, Answer, TypeOK, NoContainer

LEMMA ForceRemoveEffect ==
    ASSUME TypeOK, NEW n \in Names, NEW ok \in BOOLEAN, DockerForceRemove(n, ok)
    PROVE  /\ \A m \in Names \ {n} : cont'[m] = cont[m]
           /\ blamed \subseteq blamed'
           /\ cont'[n] \in {cont[n], NoContainer}
           /\ cont'[n].st = "none" \/ n \in blamed'
BY DEF DockerForceRemove, Docker, Answer, TypeOK, NoContainer

LEMMA RenameEffect ==
    ASSUME TypeOK, NEW n \in Names, NEW m \in Names, n # m, NEW ok \in BOOLEAN,
           DockerRename(n, m, ok)
    PROVE  /\ \A l \in Names \ {n, m} : cont'[l] = cont[l]
           /\ blamed \subseteq blamed'
           /\ \/ cont'[n] = cont[n] /\ cont'[m] = cont[m] /\ ~ok
              \/ cont'[n] = NoContainer /\ cont'[m] = cont[n]
           /\ cont[n].st # "none" /\ cont[m].st = "none" /\ ~ok => n \in blamed'
           /\ cont[n].st = "none" \/ cont[m].st # "none" => cont' = cont
BY DEF DockerRename, Docker, Answer, TypeOK

\* A statement on the row blames nobody less.
LEMMA RowBlames ==
    ASSUME NEW after, NEW ok \in BOOLEAN, RowUpdate(after, ok)
    PROVE  blamed \subseteq blamed'
BY DEF RowUpdate, Answer

-----------------------------------------------------------------------------
(* Images                                                                   *)

\* Containers are created from the image of the update that creates them.
LEMMA StepImages ==
    ASSUME TypeOK, ImageInv, NEW t \in Updates, Begin(t) \/ TaskStep(t)
    PROVE  ImagesOwn'
<1> USE NamesApart DEF DockerStep, RowStep, CleanupStep
<1>0. ImagesOwn /\ t \in Makers /\ NoContainer.img = NoContainer.by
  BY DEF ImageInv, Makers, Versions, NoContainer
<1>1. CASE Begin(t) \/ Build(t) \/ ProbeCanary(t) \/ ProbeNew(t) \/ Register(t) \/ Report(t)
  <2>1. UNCHANGED cont
    BY <1>1 DEF Begin, Build, ProbeCanary, ProbeNew, Register, Report, sharedVars
  <2> QED BY <1>0, <2>1 DEF ImagesOwn
<1>2. CASE CreateCanary(t) \/ CreateNew(t)
  <2>1. PICK n \in {Canary(t), Prod}, ok \in BOOLEAN : DockerCreate(n, t, ok)
    BY <1>2 DEF CreateCanary, CreateNew
  <2>2. tag = t
    BY <1>2 DEF CreateCanary, CreateNew, ImageInv, TagOwn, Creating
  <2> QED BY <1>0, <2>1, <2>2, CreateEffect DEF ImagesOwn
<1>3. CASE StartCanary(t) \/ StartNew(t)
  <2>1. PICK n \in {Canary(t), Prod}, ok \in BOOLEAN : DockerStart(n, ok)
    BY <1>3 DEF StartCanary, StartNew
  <2> QED BY <1>0, <2>1, StartEffect DEF ImagesOwn
<1>4. CASE StopCanary(t) \/ StopOld(t)
  <2>1. PICK n \in {Canary(t), Old(t)}, ok \in BOOLEAN : DockerStop(n, ok)
    BY <1>4 DEF StopCanary, StopOld
  <2> QED BY <1>0, <2>1, StopEffect DEF ImagesOwn
<1>5. CASE RemoveCanary(t) \/ RemoveOld(t)
  <2>1. PICK n \in {Canary(t), Old(t)}, ok \in BOOLEAN : DockerRemove(n, ok)
    BY <1>5 DEF RemoveCanary, RemoveOld
  <2> QED BY <1>0, <2>1, RemoveEffect DEF ImagesOwn
<1>6. CASE RemoveNew(t)
  <2>1. PICK ok \in BOOLEAN : DockerForceRemove(Prod, ok)
    BY <1>6 DEF RemoveNew
  <2> QED BY <1>0, <2>1, ForceRemoveEffect DEF ImagesOwn
<1>7. CASE MoveOld(t)
  <2>1. CASE UNCHANGED cont
    BY <1>0, <2>1 DEF ImagesOwn
  <2>2. CASE \E ok \in BOOLEAN : DockerRename(Prod, Old(t), ok)
    <3>1. PICK ok \in BOOLEAN : DockerRename(Prod, Old(t), ok)
      BY <2>2
    <3> QED BY <1>0, <3>1, RenameEffect DEF ImagesOwn
  <2> QED BY <1>7, <2>1, <2>2 DEF MoveOld
<1>8. CASE RestoreOld(t)
  <2>1. PICK ok \in BOOLEAN : DockerRename(Old(t), Prod, ok)
    BY <1>8 DEF RestoreOld
  <2> QED BY <1>0, <2>1, RenameEffect DEF ImagesOwn
<1> QED BY <1>1, <1>2, <1>3, <1>4, <1>5, <1>6, <1>7, <1>8 DEF TaskStep

\* Only Build moves the tag, and it moves it to the one update that is in flight.
LEMMA StepTag ==
    ASSUME TypeOK, ServiceInv, ImageInv, NEW t \in Updates, Begin(t) \/ TaskStep(t)
    PROVE  TagOwn'
<1> USE DEF Goto, Branch, Decide, DockerStep, RowStep, CleanupStep, Creating
<1>0. TagOwn /\ pc \in [Updates -> Steps \cup Finished]
  BY DEF ImageInv, TypeOK
<1>1. CASE Build(t)
  <2>1. \A u \in Updates : u # t => pc[u] \in Finished
    BY <1>1 DEF Build, ServiceInv, OneInFlight, InFlight, Finished
  <2>2. /\ \A u \in Updates : u # t => pc'[u] = pc[u]
        /\ pc'[t] \in Creating => tag' = t
    BY <1>0, <1>1 DEF Build
  <2> QED BY <2>1, <2>2 DEF TagOwn, Finished
<1>2. CASE ~Build(t)
  <2>1. tag' = tag
    BY <1>2
    DEF TaskStep, Begin, CreateCanary, StartCanary, ProbeCanary, MoveOld, CreateNew,
        StartNew, ProbeNew, Register, StopOld, RemoveOld, RemoveNew, RestoreOld, StopCanary,
        RemoveCanary, Report, sharedVars
  <2>2. \A u \in Updates : pc'[u] \in Creating => pc[u] \in Creating
    <3>1. CASE Begin(t) \/ CreateCanary(t) \/ StartCanary(t) \/ ProbeCanary(t) \/ MoveOld(t)
      BY <1>0, <3>1 DEF Begin, CreateCanary, StartCanary, ProbeCanary, MoveOld
    <3>2. CASE CreateNew(t) \/ StartNew(t) \/ ProbeNew(t) \/ Register(t)
      BY <1>0, <3>2 DEF CreateNew, StartNew, ProbeNew, Register, Registered, NotRegistered
    <3>3. CASE \/ StopOld(t) \/ RemoveOld(t) \/ RemoveNew(t) \/ RestoreOld(t)
               \/ StopCanary(t) \/ RemoveCanary(t) \/ Report(t)
      BY <1>0, <3>3
      DEF StopOld, RemoveOld, RemoveNew, RestoreOld, StopCanary, RemoveCanary, Report
    <3> QED BY <1>2, <3>1, <3>2, <3>3 DEF TaskStep
  <2> QED BY <1>0, <2>1, <2>2 DEF TagOwn
<1> QED BY <1>1, <1>2

\* A statement on the row, and a version that is registered.
LEMMA RowKeepsContainer ==
    ASSUME TypeOK, NEW s \in Statuses, NEW ok \in BOOLEAN, UpdateStatus(s, ok)
    PROVE  row'.container = row.container
BY DEF UpdateStatus, RowUpdate, TypeOK, RowType

LEMMA StepPassed ==
    ASSUME TypeOK, ServiceInv, ImageInv, NEW t \in Updates, Begin(t) \/ TaskStep(t)
    PROVE  PassedOnly'
<1> USE DEF DockerStep, RowStep, CleanupStep
<1>0. /\ row.container \in passed \cup {Base, "unset"}
      /\ {"building", "running", "failed"} \subseteq Statuses
  BY DEF ImageInv, PassedOnly, Statuses
<1>1. CASE Begin(t) \/ Report(t)
  <2>1. passed' = passed
    BY <1>1 DEF Begin, Report
  <2>2. row'.container = row.container
    BY <1>0, <1>1, RowKeepsContainer DEF Begin, Report
  <2> QED BY <1>0, <2>1, <2>2 DEF PassedOnly
<1>2. CASE Register(t)
  <2>1. t \in passed /\ passed' = passed
    BY <1>2 DEF Register, ServiceInv, NewServes
  <2>2. PICK ok \in BOOLEAN : UpdateRunning(t, ok)
    BY <1>2 DEF Register, Registered, NotRegistered
  <2>3. row'.container \in {row.container, t}
    BY <2>2 DEF UpdateRunning, RowUpdate
  <2> QED BY <1>0, <2>1, <2>3 DEF PassedOnly
<1>3. CASE ~(Begin(t) \/ Report(t) \/ Register(t))
  <2>1. row' = row /\ passed \subseteq passed'
    BY <1>3
    DEF TaskStep, Build, CreateCanary, StartCanary, ProbeCanary, MoveOld, CreateNew,
        StartNew, ProbeNew, StopOld, RemoveOld, RemoveNew, RestoreOld, StopCanary,
        RemoveCanary, sharedVars
  <2> QED BY <1>0, <2>1 DEF PassedOnly
<1> QED BY <1>1, <1>2, <1>3

LEMMA ImageStep ==
    ASSUME TypeOK, ServiceInv, ImageInv, [Next]_vars
    PROVE  ImageInv'
<1>1. CASE \E t \in Updates : Begin(t) \/ TaskStep(t)
  BY <1>1, StepImages, StepTag, StepPassed DEF ImageInv
<1>2. CASE \E n \in Names : ContainerExits(n)
  <2>1. PICK n \in Names : ContainerExits(n)
    BY <1>2
  <2>2. \A m \in Names : cont'[m].by = cont[m].by /\ cont'[m].img = cont[m].img
    BY <2>1 DEF ContainerExits, TypeOK, Container
  <2> QED BY <2>1, <2>2
          DEF ContainerExits, updateVars, ImageInv, ImagesOwn, TagOwn, PassedOnly
<1>3. CASE ServerCrash
  BY <1>3 DEF ServerCrash, sharedVars, ImageInv, ImagesOwn, TagOwn, PassedOnly, Creating
<1>4. CASE UNCHANGED vars
  BY <1>4 DEF vars, sharedVars, updateVars, ImageInv, ImagesOwn, TagOwn, PassedOnly
<1> QED BY <1>1, <1>2, <1>3, <1>4 DEF Next

LEMMA InitImages == Init => ImageInv
BY DEF Init, InitialStates, NoContainer, ImageInv, ImagesOwn, TagOwn, PassedOnly, Creating

\* What the row names has passed its probe in production, and runs the image that its
\* own update built, although every update moves the one tag.
THEOREM RegisteredPassedAlways ==
    ASSUME Concurrent = FALSE
    PROVE  Spec => []RegisteredPassed
<1>1. TypeOK /\ ServiceInv /\ ImageInv /\ [Next]_vars => ImageInv'
  BY ImageStep
<1>2. ImageInv => RegisteredPassed
  BY NamesDistinct DEF ImageInv, ImagesOwn, PassedOnly, RegisteredPassed, Routed, Names
<1> QED BY <1>1, <1>2, InitImages, TypeCorrect, ServiceInvariant, PTL DEF Spec

-----------------------------------------------------------------------------
(* Leftovers                                                                *)

\* Update t goes on to the step l.
GoesTo(t, l) == pc' = [pc EXCEPT ![t] = l]

\* An update's own names are nobody else's.
LEMMA TidyFrame ==
    ASSUME TypeOK, TidyInv, NEW t \in Updates, NEW l, GoesTo(t, l),
           \A u \in Updates : u # t => pc[u] \in Finished,
           blamed \subseteq blamed',
           \A n \in Names \ {Prod, Canary(t), Old(t)} : cont'[n] = cont[n],
           TidyAt(t, l)'
    PROVE  TidyInv'
<1> SUFFICES ASSUME NEW u \in Updates PROVE TidyAt(u, pc[u])'
  BY DEF TidyInv
<1>1. CASE u = t
  BY <1>1 DEF TypeOK, GoesTo
<1>2. CASE u # t
  <2>1. pc'[u] = pc[u] /\ pc[u] \in Finished
    BY <1>2 DEF TypeOK, GoesTo
  <2>2. cont'[Canary(u)] = cont[Canary(u)] /\ cont'[Old(u)] = cont[Old(u)]
    BY <1>2, NamesApart
  <2>3. TidyAt(u, pc[u])
    BY DEF TidyInv
  <2> QED BY <2>1, <2>2, <2>3
          DEF TidyAt, CanaryAt, OldAt, Untouched, PutRight, Finished
<1> QED BY <1>1, <1>2

\* Steps that call nothing.
LEMMA TidyCallless ==
    ASSUME TypeOK, ServiceInv, TidyInv, Concurrent = FALSE, NEW t \in Updates,
           \/ Begin(t) \/ Build(t) \/ ProbeCanary(t) \/ ProbeNew(t) \/ Register(t) \/ Report(t)
    PROVE  TidyInv'
<1> USE DEF Goto, Branch, Decide, DockerStep, RowStep
<1>1. UNCHANGED cont /\ blamed \subseteq blamed'
  BY RowBlames
  DEF Begin, Build, ProbeCanary, ProbeNew, Register, Registered, NotRegistered, Report,
      UpdateStatus, UpdateRunning, sharedVars
<1>2. \A u \in Updates : u # t => pc[u] \in Finished
  BY DEF Begin, Build, ProbeCanary, ProbeNew, Register, Report, ServiceInv, OneInFlight,
         InFlight, Finished
<1>3. TidyAt(t, pc[t])
  BY DEF TidyInv
<1>4. \E l : GoesTo(t, l) /\ TidyAt(t, l)'
  <2> USE <1>1, <1>3 DEF TidyAt, CanaryAt, OldAt, Untouched, PutRight
  <2>1. CASE Begin(t)
    <3>1. PICK l \in {"build", "report", "done"} : GoesTo(t, l)
      BY <2>1 DEF Begin, GoesTo
    <3> QED BY <2>1, <3>1 DEF Begin
  <2>2. CASE Build(t)
    <3>1. PICK l \in {"create_canary", "report"} : GoesTo(t, l)
      BY <2>2 DEF Build, GoesTo
    <3> QED BY <2>2, <3>1 DEF Build
  <2>3. CASE ProbeCanary(t)
    <3>1. PICK l \in {"move_old", "stop_canary"} : GoesTo(t, l)
      BY <2>3 DEF ProbeCanary, GoesTo
    <3> QED BY <2>3, <3>1 DEF ProbeCanary
  <2>4. CASE ProbeNew(t) \/ Register(t)
    <3>1. PICK l \in {"register", "remove_new", "stop_old"} : GoesTo(t, l)
      BY <2>4 DEF ProbeNew, Register, Registered, NotRegistered, GoesTo
    <3> QED BY <3>1
  <2>5. CASE Report(t)
    BY <2>5 DEF Report, GoesTo
  <2> QED BY <2>1, <2>2, <2>3, <2>4, <2>5
<1> QED BY <1>1, <1>2, <1>4, TidyFrame

\* The calls on the canary.
LEMMA TidyCanary ==
    ASSUME TypeOK, ServiceInv, TidyInv, NEW t \in Updates,
           CreateCanary(t) \/ StartCanary(t) \/ StopCanary(t) \/ RemoveCanary(t)
    PROVE  TidyInv'
<1> USE NamesApart DEF Goto, Branch, Decide, DockerStep, CleanupStep
<1>1. TidyAt(t, pc[t]) /\ t \in Makers
  BY DEF TidyInv, Makers, Versions
<1>2. \A u \in Updates : u # t => pc[u] \in Finished
  BY DEF CreateCanary, StartCanary, StopCanary, RemoveCanary, ServiceInv, OneInFlight,
         InFlight, Finished
<1>3. \A n \in Names \ {Canary(t)} : cont'[n] = cont[n]
  BY <1>1, CreateEffect, StartEffect, StopEffect, RemoveEffect
  DEF CreateCanary, StartCanary, StopCanary, RemoveCanary
<1>4. blamed \subseteq blamed'
  BY <1>1, CreateEffect, StartEffect, StopEffect, RemoveEffect
  DEF CreateCanary, StartCanary, StopCanary, RemoveCanary
<1>5. ASSUME NEW l, l \in Untouched => pc[t] \in Untouched,
             l \in PutRight => pc[t] \in PutRight \cup Untouched,
             l \notin {"remove_old", "restore_old"}, GoesTo(t, l), CanaryAt(t, l)'
      PROVE  TidyInv'
  <2>1. OldAt(t, l)'
    BY <1>1, <1>3, <1>4, <1>5 DEF TidyAt, OldAt
  <2> QED BY <1>2, <1>3, <1>4, <1>5, <2>1, TidyFrame DEF TidyAt
<1>6. CASE CreateCanary(t)
  <2>1. PICK ok \in BOOLEAN : /\ DockerCreate(Canary(t), t, ok)
                              /\ GoesTo(t, IF ok THEN "start_canary" ELSE "report")
    BY <1>6 DEF CreateCanary, GoesTo
  <2>2. pc[t] = "create_canary"
    BY <1>6 DEF CreateCanary
  <2>3. CASE ok
    <3>1. CanaryAt(t, "start_canary")'
      BY <1>1, <2>1, <2>2, <2>3, CreateEffect DEF TidyAt, CanaryAt
    <3> QED BY <1>5, <2>1, <2>2, <2>3, <3>1 DEF Untouched, PutRight
  <2>4. CASE ~ok
    <3>1. CanaryAt(t, "report")'
      BY <1>1, <2>1, <2>2, <2>4, CreateEffect DEF TidyAt, CanaryAt
    <3> QED BY <1>5, <2>1, <2>2, <2>4, <3>1 DEF Untouched, PutRight
  <2> QED BY <2>3, <2>4
<1>7. CASE StartCanary(t)
  <2>1. PICK ok \in BOOLEAN : /\ DockerStart(Canary(t), ok)
                              /\ GoesTo(t, IF ok THEN "probe_canary" ELSE "report")
    BY <1>7 DEF StartCanary, GoesTo
  <2>2. pc[t] = "start_canary"
    BY <1>7 DEF StartCanary
  <2>3. CASE ok
    <3>1. CanaryAt(t, "probe_canary")'
      BY <1>1, <2>1, <2>2, <2>3, StartEffect DEF TidyAt, CanaryAt
    <3> QED BY <1>5, <2>1, <2>2, <2>3, <3>1 DEF Untouched, PutRight
  <2>4. CASE ~ok
    <3>1. CanaryAt(t, "report")'
      BY <1>1, <2>1, <2>2, <2>4, StartEffect DEF TidyAt, CanaryAt
    <3> QED BY <1>5, <2>1, <2>2, <2>4, <3>1 DEF Untouched, PutRight
  <2> QED BY <2>3, <2>4
<1>8. CASE StopCanary(t)
  <2>1. PICK ok \in BOOLEAN : DockerStop(Canary(t), ok)
    BY <1>8 DEF StopCanary
  <2>2. pc[t] = "stop_canary" /\ GoesTo(t, "remove_canary")
    BY <1>8 DEF StopCanary, GoesTo
  <2>3. CanaryAt(t, "remove_canary")'
    BY <1>1, <2>1, <2>2, StopEffect DEF TidyAt, CanaryAt
  <2> QED BY <1>5, <2>2, <2>3 DEF Untouched, PutRight
<1>9. CASE RemoveCanary(t)
  <2>1. PICK ok \in BOOLEAN : DockerRemove(Canary(t), ok)
    BY <1>9 DEF RemoveCanary
  <2>2. pc[t] = "remove_canary" /\ GoesTo(t, "report")
    BY <1>9 DEF RemoveCanary, GoesTo
  <2>3. CanaryAt(t, "report")'
    BY <1>1, <2>1, <2>2, RemoveEffect DEF TidyAt, CanaryAt
  <2> QED BY <1>5, <2>2, <2>3 DEF Untouched, PutRight
<1> QED BY <1>6, <1>7, <1>8, <1>9

\* The calls on the production name and on the one moved aside.
LEMMA TidyOld ==
    ASSUME TypeOK, ServiceInv, TidyInv, NEW t \in Updates,
           \/ MoveOld(t) \/ CreateNew(t) \/ StartNew(t) \/ StopOld(t) \/ RemoveOld(t)
           \/ RemoveNew(t) \/ RestoreOld(t)
    PROVE  TidyInv'
<1> USE NamesApart DEF Goto, Branch, Decide, DockerStep, CleanupStep
<1>1. TidyAt(t, pc[t]) /\ t \in Makers
  BY DEF TidyInv, Makers, Versions
<1>2. \A u \in Updates : u # t => pc[u] \in Finished
  BY DEF MoveOld, CreateNew, StartNew, StopOld, RemoveOld, RemoveNew, RestoreOld, ServiceInv,
         OneInFlight, InFlight, Finished
<1>3. ASSUME NEW l, GoesTo(t, l), OldAt(t, l)', blamed \subseteq blamed',
             \A n \in Names \ {Prod, Old(t)} : cont'[n] = cont[n],
             l \notin {"idle", "build", "create_canary", "start_canary",
                       "remove_canary", "report", "done"}
      PROVE  TidyInv'
  <2>1. CanaryAt(t, l)'
    BY <1>3 DEF CanaryAt
  <2> QED BY <1>2, <1>3, <2>1, TidyFrame DEF TidyAt
<1>4. CASE MoveOld(t)
  <2>1. cont[Old(t)].st = "none"
    BY <1>1, <1>4 DEF MoveOld, TidyAt, OldAt, Untouched
  <2>2. CASE UNCHANGED <<cont, blamed>> /\ GoesTo(t, "stop_canary")
    <3>1. OldAt(t, "stop_canary")'
      BY <2>1, <2>2 DEF OldAt, Untouched
    <3> QED BY <1>3, <2>2, <3>1
  <2>3. CASE \E ok \in BOOLEAN : /\ DockerRename(Prod, Old(t), ok)
                               /\ GoesTo(t, IF ok THEN "create_new" ELSE "stop_canary")
    <3>1. PICK ok \in BOOLEAN : /\ DockerRename(Prod, Old(t), ok)
                                /\ GoesTo(t, IF ok THEN "create_new" ELSE "stop_canary")
      BY <2>3
    <3>2. blamed \subseteq blamed' /\ \A n \in Names \ {Prod, Old(t)} : cont'[n] = cont[n]
      BY <3>1, RenameEffect
    <3>3. ~ok => cont'[Old(t)].st = "none" \/ Prod \in blamed'
      BY <2>1, <3>1, RenameEffect
    <3>4. OldAt(t, IF ok THEN "create_new" ELSE "stop_canary")'
      BY <3>3 DEF OldAt, Untouched, PutRight
    <3> QED BY <1>3, <3>1, <3>2, <3>4
  <2> QED BY <1>4, <2>2, <2>3 DEF MoveOld, GoesTo
<1>5. CASE CreateNew(t)
  <2>1. PICK ok \in BOOLEAN : /\ DockerCreate(Prod, t, ok)
                              /\ GoesTo(t, IF ok THEN "start_new" ELSE "remove_new")
    BY <1>5 DEF CreateNew, GoesTo
  <2>2. OldAt(t, "start_new")' /\ OldAt(t, "remove_new")'
    BY DEF OldAt, Untouched, PutRight
  <2>3. blamed \subseteq blamed' /\ \A n \in Names \ {Prod, Old(t)} : cont'[n] = cont[n]
    BY <1>1, <2>1, CreateEffect
  <2> QED BY <1>3, <2>1, <2>2, <2>3
<1>6. CASE StartNew(t)
  <2>1. PICK ok \in BOOLEAN : /\ DockerStart(Prod, ok)
                              /\ GoesTo(t, IF ok THEN "probe_new" ELSE "remove_new")
    BY <1>6 DEF StartNew, GoesTo
  <2>2. OldAt(t, "probe_new")' /\ OldAt(t, "remove_new")'
    BY DEF OldAt, Untouched, PutRight
  <2>3. blamed \subseteq blamed' /\ \A n \in Names \ {Prod, Old(t)} : cont'[n] = cont[n]
    BY <1>1, <2>1, StartEffect
  <2> QED BY <1>3, <2>1, <2>2, <2>3
<1>7. CASE StopOld(t)
  <2>1. PICK ok \in BOOLEAN : DockerStop(Old(t), ok)
    BY <1>7 DEF StopOld
  <2>2. pc[t] = "stop_old" /\ GoesTo(t, "remove_old")
    BY <1>7 DEF StopOld, GoesTo
  <2>3. OldAt(t, "remove_old")'
    BY <1>1, <2>1, <2>2, StopEffect DEF TidyAt, OldAt, Untouched, PutRight
  <2>4. blamed \subseteq blamed' /\ \A n \in Names \ {Prod, Old(t)} : cont'[n] = cont[n]
    BY <2>1, StopEffect
  <2> QED BY <1>3, <2>2, <2>3, <2>4
<1>8. CASE RemoveOld(t)
  <2>1. PICK ok \in BOOLEAN : DockerRemove(Old(t), ok)
    BY <1>8 DEF RemoveOld
  <2>2. pc[t] = "remove_old" /\ GoesTo(t, "stop_canary")
    BY <1>8 DEF RemoveOld, GoesTo
  <2>3. OldAt(t, "stop_canary")'
    BY <1>1, <2>1, <2>2, RemoveEffect DEF TidyAt, OldAt, Untouched, PutRight
  <2>4. blamed \subseteq blamed' /\ \A n \in Names \ {Prod, Old(t)} : cont'[n] = cont[n]
    BY <2>1, RemoveEffect
  <2> QED BY <1>3, <2>2, <2>3, <2>4
<1>9. CASE RemoveNew(t)
  <2>1. PICK ok \in BOOLEAN : DockerForceRemove(Prod, ok)
    BY <1>9 DEF RemoveNew
  <2>2. pc[t] = "remove_new" /\ GoesTo(t, "restore_old")
    BY <1>9 DEF RemoveNew, GoesTo
  <2>3. OldAt(t, "restore_old")'
    BY <1>1, <2>1, <2>2, ForceRemoveEffect DEF TidyAt, OldAt, Untouched, PutRight
  <2>4. blamed \subseteq blamed' /\ \A n \in Names \ {Prod, Old(t)} : cont'[n] = cont[n]
    BY <2>1, ForceRemoveEffect
  <2> QED BY <1>3, <2>2, <2>3, <2>4
<1>10. CASE RestoreOld(t)
  <2>1. PICK ok \in BOOLEAN : DockerRename(Old(t), Prod, ok)
    BY <1>10 DEF RestoreOld
  <2>2. pc[t] = "restore_old" /\ GoesTo(t, "stop_canary")
    BY <1>10 DEF RestoreOld, GoesTo
  <2>3. cont[Prod].st = "none" \/ Prod \in blamed
    BY <1>1, <2>2 DEF TidyAt, OldAt
  <2>4. blamed \subseteq blamed' /\ \A n \in Names \ {Prod, Old(t)} : cont'[n] = cont[n]
    BY <2>1, RenameEffect
  <2>5. cont'[Old(t)].st = "none" \/ {Prod, Old(t)} \cap blamed' # {}
    <3>1. CASE Prod \in blamed
      BY <2>4, <3>1
    <3>2. CASE cont[Prod].st = "none"
      BY <2>1, <3>2, RenameEffect DEF NoContainer
    <3> QED BY <2>3, <3>1, <3>2
  <2>6. OldAt(t, "stop_canary")'
    BY <2>5 DEF OldAt, Untouched
  <2> QED BY <1>3, <2>2, <2>4, <2>6
<1> QED BY <1>4, <1>5, <1>6, <1>7, <1>8, <1>9, <1>10

LEMMA TidyStep ==
    ASSUME TypeOK, ServiceInv, TidyInv, Concurrent = FALSE, [Next]_vars
    PROVE  TidyInv'
<1>1. CASE \E t \in Updates : Begin(t) \/ TaskStep(t)
  BY <1>1, TidyCallless, TidyCanary, TidyOld DEF TaskStep
<1>2. CASE \E n \in Names : ContainerExits(n)
  <2>1. PICK n \in Names : ContainerExits(n)
    BY <1>2
  <2>2. \A m \in Names : \/ cont'[m].st = cont[m].st
                         \/ cont[m].st = "running" /\ cont'[m].st = "exited"
    BY <2>1 DEF ContainerExits, TypeOK, Container
  <2>3. UNCHANGED <<pc, blamed>>
    BY <2>1 DEF ContainerExits, updateVars
  <2> SUFFICES ASSUME NEW t \in Updates PROVE TidyAt(t, pc[t])'
    BY DEF TidyInv
  <2>4. TidyAt(t, pc[t])
    BY DEF TidyInv
  <2> QED BY <2>2, <2>3, <2>4, NamesApart DEF TidyAt, CanaryAt, OldAt
<1>3. CASE ServerCrash
  <2> SUFFICES ASSUME NEW t \in Updates PROVE TidyAt(t, pc[t])'
    BY DEF TidyInv
  <2>1. TidyAt(t, pc[t]) /\ pc'[t] \in {pc[t], "lost"}
    BY <1>3 DEF TidyInv, ServerCrash
  <2> QED BY <1>3, <2>1
          DEF ServerCrash, sharedVars, TidyAt, CanaryAt, OldAt, Untouched, PutRight
<1>4. CASE UNCHANGED vars
  BY <1>4 DEF vars, sharedVars, updateVars, TidyInv, TidyAt, CanaryAt, OldAt
<1> QED BY <1>1, <1>2, <1>3, <1>4 DEF Next

LEMMA InitTidy == Init => TidyInv
<1> SUFFICES ASSUME Init, NEW t \in Updates PROVE TidyAt(t, pc[t])
  BY DEF TidyInv
<1>1. pc[t] = "idle" /\ cont[Canary(t)] = NoContainer /\ cont[Old(t)] = NoContainer
  BY NamesApart DEF Init
<1> QED BY <1>1 DEF TidyAt, CanaryAt, OldAt, Untouched, PutRight, NoContainer

LEMMA TidyAlways ==
    ASSUME Concurrent = FALSE
    PROVE  Spec => []TidyInv
<1>1. TypeOK /\ ServiceInv /\ TidyInv /\ [Next]_vars => TidyInv'
  BY TidyStep
<1> QED BY <1>1, InitTidy, TypeCorrect, ServiceInvariant, PTL DEF Spec

\* An update that has come to its end left no canary and no container moved aside,
\* unless a call on one of their names failed.
THEOREM NothingLeftOver ==
    ASSUME Concurrent = FALSE
    PROVE  Spec => []NoLeftovers
<1>1. TidyInv => NoLeftovers
  BY DEF TidyInv, TidyAt, CanaryAt, OldAt, PutRight, NoLeftovers
<1> QED BY <1>1, TidyAlways, PTL

\* Between updates the version that the row names is the one under the production name:
\* it serves somewhere, and every other name has been put right.
THEOREM RowDescribesProduction ==
    ASSUME Concurrent = FALSE
    PROVE  Spec => []RowDescribesProd
<1>1. Inv /\ TidyInv => RowDescribesProd
  <2> SUFFICES ASSUME Inv, TidyInv, expectUp, {Prod, Registry} \cap blamed = {},
                      \A t \in Updates : pc[t] \in {"idle", "done"} /\ Old(t) \notin blamed
               PROVE  cont[Prod].st = "running" /\ cont[Prod].by = row.container
    BY DEF RowDescribesProd
  <2>1. row.container \in ServingVersions
    BY DEF Inv, HandoverInv, RegisteredServes, Doubtful
  <2>2. PICK n \in Routed : Live(n) /\ cont[n].by = row.container
    BY <2>1 DEF ServingVersions
  <2>3. \A t \in Updates : cont[Old(t)].st = "none"
    BY DEF TidyInv, TidyAt, OldAt, Untouched, PutRight
  <2>4. n = Prod
    BY <2>2, <2>3 DEF Routed, Live
  <2> QED BY <2>2, <2>4 DEF Live
<1> QED BY <1>1, HandoverInvariant, TidyAlways, PTL

=============================================================================
