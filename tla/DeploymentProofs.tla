-------------------------- MODULE DeploymentProofs --------------------------
(***************************************************************************)
(* Theorems about Deployment, for any finite set of processes, any number  *)
(* of requests and any number of failed calls.                             *)
(***************************************************************************)
EXTENDS Deployment, FiniteSetTheorems, TLAPS

States == InHandler \cup InBackground \cup Ended

\* TypeOK in two parts: what the requests know, and what they share.
TaskTypeOK ==
    /\ kind \in [Requests -> {"none", "deploy", "update"}]
    /\ pc \in [Requests -> States]
    /\ manifest \in [Requests -> SUBSET Procs]
    /\ todo \in [Requests -> SUBSET Procs]
    /\ ids \in [Requests -> [Procs -> Makers]]
    /\ current \in [Requests -> Procs \cup {"none"}]
    /\ result \in [Requests -> {"none", "ok", "failed", "rolled_back"}]
    /\ cli \in [Requests -> {"none", "waiting", "running", "failed"}]

DataTypeOK ==
    /\ app \in BOOLEAN
    /\ rows \in [Procs -> Row]
    /\ cont \in [Procs -> Container]
    /\ faults \in 0..MaxFaults

LEMMA TypeParts == TypeOK <=> TaskTypeOK /\ DataTypeOK
BY DEF TypeOK, TaskTypeOK, DataTypeOK, States

LEMMA TypePartsNext == TypeOK' <=> TaskTypeOK' /\ DataTypeOK'
BY DEF TypeOK, TaskTypeOK, DataTypeOK, States

-----------------------------------------------------------------------------
(* Types                                                                    *)

LEMMA CallTyped ==
    ASSUME DataTypeOK, NEW ok, Call(ok)
    PROVE  faults' \in 0..MaxFaults
BY DeploymentAssumption DEF DataTypeOK, Call

LEMMA WriteTyped ==
    ASSUME DataTypeOK, NEW after \in [Procs -> Row], NEW ok, Write(after, ok)
    PROVE  /\ rows' \in [Procs -> Row] /\ rows' \in {rows, after}
           /\ faults' \in 0..MaxFaults
BY CallTyped DEF DataTypeOK, Write

LEMMA StopTyped ==
    ASSUME DataTypeOK, NEW p \in Procs, Stop(p)
    PROVE  /\ cont' \in [Procs -> Container]
           /\ faults' \in 0..MaxFaults
<1>1. [cont EXCEPT ![p] = NoContainer] \in [Procs -> Container]
  BY DEF DataTypeOK, NoContainer, Container, Makers
<1> QED BY <1>1, CallTyped DEF Stop, DataTypeOK

LEMMA RowsTyped ==
    ASSUME DataTypeOK, TaskTypeOK, NEW t \in Requests, NEW p \in Procs
    PROVE  /\ \A s \in Statuses : SetStatus(t, p, s) \in [Procs -> Row]
           /\ SetRunning(t, p) \in [Procs -> Row]
           /\ ById(t, p, NoRow) \in [Procs -> Row]
<1>1. ASSUME NEW r \in Row PROVE ById(t, p, r) \in [Procs -> Row]
  BY <1>1 DEF DataTypeOK, ById
<1>2. rows[p] \in Row
  BY DEF DataTypeOK
<1>3. \A s \in Statuses : [rows[p] EXCEPT !.status = s] \in Row
  BY <1>2 DEF Row
<1>4. [rows[p] EXCEPT !.status = "running", !.container = t] \in Row
  BY <1>2 DEF Row, Makers, Statuses
<1>5. NoRow \in Row
  BY DEF Row, NoRow, Makers, Statuses
<1> QED BY <1>1, <1>3, <1>4, <1>5 DEF SetStatus, SetRunning

LEMMA LoopTyped ==
    ASSUME TaskTypeOK, NEW t \in Requests, NEW to \in States, NEW S \in SUBSET Procs,
           Loop(t, to, S)
    PROVE  /\ pc' \in [Requests -> States]
           /\ todo' \in [Requests -> SUBSET Procs]
BY DEF TaskTypeOK, Loop, Goto

LEMMA VisitedTyped ==
    ASSUME TaskTypeOK, NEW t \in Requests, NEW p, NEW loop \in States, NEW after \in States,
           Visited(t, p, loop, after, {})
    PROVE  /\ pc' \in [Requests -> States]
           /\ todo' \in [Requests -> SUBSET Procs]
<1>1. todo[t] \ {p} \in SUBSET Procs
  BY DEF TaskTypeOK
<1> QED BY <1>1, LoopTyped DEF Visited

LEMMA InitTyped == Init => TypeOK
<1> SUFFICES ASSUME Init PROVE TypeOK
  OBVIOUS
<1>1. rows \in [Procs -> Row] /\ cont \in [Procs -> Container]
  BY DEF Init, Row, NoRow, Container, NoContainer, Makers, Statuses
<1> QED BY <1>1, DeploymentAssumption DEF Init, TypeOK, Ended, Makers

\* Requests that arrive.
LEMMA ArriveTyped ==
    ASSUME TypeOK, NEW t \in Requests, Deploy(t) \/ Update(t)
    PROVE  TypeOK'
<1>1. PICK k \in {"deploy", "update"}, m \in SUBSET Procs : Arrive(t, k, m)
  BY DEF Deploy, Update
<1>2. TaskTypeOK /\ DataTypeOK
  BY TypeParts
<1>3. DataTypeOK'
  BY <1>1, <1>2 DEF Arrive, dataVars, DataTypeOK
<1>4. /\ kind' \in [Requests -> {"none", "deploy", "update"}]
      /\ manifest' \in [Requests -> SUBSET Procs]
      /\ UNCHANGED <<current, result, cli>>
  BY <1>1, <1>2 DEF Arrive, Kept, TaskTypeOK
<1>5. ids' \in [Requests -> [Procs -> Makers]]
  <2> DEFINE mine    == [p \in Procs |-> rows[p].id]
             nothing == [p \in Procs |-> "none"]
  <2>1. mine \in [Procs -> Makers]
    BY <1>2 DEF DataTypeOK, Row
  <2>2. nothing \in [Procs -> Makers]
    BY DEF Makers
  <2>3. ids' = [Kept(ids, nothing) EXCEPT ![t] = mine]
    BY <1>1 DEF Arrive
  <2> HIDE DEF mine, nothing
  <2>4. Kept(ids, nothing) \in [Requests -> [Procs -> Makers]]
    BY <1>2, <2>2 DEF Kept, TaskTypeOK
  <2> QED BY <2>1, <2>3, <2>4
<1>6. PICK l \in States, S \in SUBSET Procs : Loop(t, l, S)
  <2>1. CASE Deploy(t)
    BY <2>1 DEF Deploy, States, InHandler
  <2>2. CASE Update(t)
    BY <2>2 DEF Update, States, InHandler
  <2> QED BY <2>1, <2>2
<1> QED BY <1>2, <1>3, <1>4, <1>5, <1>6, LoopTyped, TypePartsNext DEF TaskTypeOK

LEMMA CreateRowTyped ==
    ASSUME TypeOK, NEW t \in Requests, NEW p \in Procs, NEW loop \in States,
           CreateRow(t, p, loop)
    PROVE  TypeOK'
<1>1. TaskTypeOK /\ DataTypeOK
  BY TypeParts
<1> DEFINE new == [id |-> t, status |-> "building", container |-> "none"]
<1>2. [rows EXCEPT ![p] = new] \in [Procs -> Row]
  BY <1>1 DEF DataTypeOK, Row, Makers, Statuses
<1>3. {"attach", "done"} \subseteq States /\ {} \in SUBSET Procs
  BY DEF States, InHandler, Ended
<1>4. /\ rows' \in [Procs -> Row] /\ faults' \in 0..MaxFaults
      /\ pc' \in [Requests -> States] /\ todo' \in [Requests -> SUBSET Procs]
  <2>1. CASE rows[p].id = "none"
    <3>1. PICK ok \in BOOLEAN :
            /\ Write([rows EXCEPT ![p] = new], ok)
            /\ IF ok THEN Visited(t, p, loop, "attach", {}) ELSE Loop(t, "done", {})
      BY <2>1 DEF CreateRow
    <3> QED BY <3>1, <1>1, <1>2, <1>3, WriteTyped, VisitedTyped, LoopTyped
  <2>2. CASE rows[p].id # "none"
    BY <2>2, <1>1, <1>3, LoopTyped DEF CreateRow, DataTypeOK
  <2> QED BY <2>1, <2>2
<1>5. ids' \in [Requests -> [Procs -> Makers]]
  <2>1. ids' = [ids EXCEPT ![t] = [ids[t] EXCEPT ![p] = t]]
    BY DEF CreateRow
  <2>2. [ids[t] EXCEPT ![p] = t] \in [Procs -> Makers]
    BY <1>1 DEF TaskTypeOK, Makers
  <2> QED BY <1>1, <2>1, <2>2 DEF TaskTypeOK
<1> QED BY <1>1, <1>4, <1>5, TypePartsNext DEF CreateRow, TaskTypeOK, DataTypeOK

LEMMA HandlerTyped ==
    ASSUME TypeOK, NEW t \in Requests, HandlerStep(t)
    PROVE  TypeOK'
<1>1. TaskTypeOK /\ DataTypeOK
  BY TypeParts
<1>2. /\ {"stop_existing", "delete_rows", "save", "create_rows", "define_rows", "attach",
          "pick", "done"} \subseteq States
      /\ {} \in SUBSET Procs /\ todo[t] \in SUBSET Procs /\ manifest[t] \in SUBSET Procs
  BY <1>1 DEF States, InHandler, InBackground, Ended, TaskTypeOK
<1>3. CASE StopExisting(t)
  <2>1. PICK p \in todo[t] : Stop(p) /\ Visited(t, p, "stop_existing", "delete_rows", {})
    BY <1>3 DEF StopExisting
  <2> QED BY <1>1, <1>2, <1>3, <2>1, StopTyped, VisitedTyped, TypePartsNext
          DEF StopExisting, TaskTypeOK, DataTypeOK
<1>4. CASE DeleteRows(t)
  <2>1. [p \in Procs |-> NoRow] \in [Procs -> Row]
    BY DEF NoRow, Row, Makers, Statuses
  <2>2. PICK ok \in BOOLEAN : /\ Write([p \in Procs |-> NoRow], ok)
                              /\ Loop(t, IF ok THEN "save" ELSE "done", {})
    BY <1>4 DEF DeleteRows
  <2>3. (IF ok THEN "save" ELSE "done") \in States
    BY <1>2
  <2>4. rows' \in [Procs -> Row] /\ faults' \in 0..MaxFaults
    BY <1>1, <2>1, <2>2, WriteTyped
  <2>5. pc' \in [Requests -> States] /\ todo' \in [Requests -> SUBSET Procs]
    BY <1>1, <1>2, <2>2, <2>3, LoopTyped
  <2> QED BY <1>1, <1>4, <2>4, <2>5, TypePartsNext DEF DeleteRows, TaskTypeOK, DataTypeOK
<1>5. CASE Save(t)
  <2>1. PICK ok \in BOOLEAN :
          /\ Call(ok) /\ app' \in (IF ok THEN {} ELSE {app}) \cup {TRUE}
          /\ IF ok THEN Loop(t, "create_rows", manifest[t]) ELSE Loop(t, "done", {})
    BY <1>5 DEF Save
  <2> QED BY <1>1, <1>2, <1>5, <2>1, CallTyped, LoopTyped, TypePartsNext
          DEF Save, TaskTypeOK, DataTypeOK
<1>6. CASE CreateRows(t)
  BY <1>2, <1>6, CreateRowTyped DEF CreateRows
<1>7. CASE DefineRows(t)
  <2>1. PICK p \in todo[t] :
         IF ids[t][p] = "none"
           THEN CreateRow(t, p, "define_rows")
           ELSE /\ \E ok \in BOOLEAN :
                     /\ Write(SetStatus(t, p, "building"), ok)
                     /\ IF ok THEN Visited(t, p, "define_rows", "attach", {})
                              ELSE Loop(t, "done", {})
                /\ UNCHANGED <<app, cont, kind, manifest, ids, current, result, cli>>
    BY <1>7 DEF DefineRows
  <2>2. p \in Procs
    BY <1>2
  <2>3. SetStatus(t, p, "building") \in [Procs -> Row]
    BY <1>1, <2>2, RowsTyped DEF Statuses
  <2>4. CASE ids[t][p] = "none"
    BY <1>2, <2>1, <2>2, <2>4, CreateRowTyped
  <2>5. CASE ids[t][p] # "none"
    BY <1>1, <1>2, <2>1, <2>3, <2>5, WriteTyped, VisitedTyped, LoopTyped, TypePartsNext
       DEF TaskTypeOK, DataTypeOK
  <2> QED BY <2>4, <2>5
<1>8. CASE Attach(t)
  <2>1. UNCHANGED <<app, cont, kind, manifest, ids, current, result>>
    BY <1>8 DEF Attach
  <2>2. CASE /\ Loop(t, "pick", manifest[t])
             /\ cli' = [cli EXCEPT ![t] = "waiting"]
             /\ UNCHANGED <<rows, faults>>
    BY <1>1, <1>2, <2>1, <2>2, LoopTyped, TypePartsNext DEF TaskTypeOK, DataTypeOK
  <2>3. CASE /\ Loop(t, "done", {})
             /\ \E missed \in SUBSET manifest[t] :
                  /\ faults' = faults + Cardinality(missed)
                  /\ faults' <= MaxFaults
                  /\ rows' = [p \in Procs |-> IF p \in manifest[t] \ missed
                                                THEN SetStatus(t, p, "failed")[p]
                                                ELSE rows[p]]
             /\ UNCHANGED cli
    <3>1. PICK missed \in SUBSET manifest[t] :
                  /\ faults' = faults + Cardinality(missed)
                  /\ faults' <= MaxFaults
                  /\ rows' = [p \in Procs |-> IF p \in manifest[t] \ missed
                                                THEN SetStatus(t, p, "failed")[p]
                                                ELSE rows[p]]
      BY <2>3
    <3>2. IsFiniteSet(missed)
      BY <1>2, DeploymentAssumption, FS_Subset
    <3>3. Cardinality(missed) \in Nat
      BY <3>2, FS_CardinalityType
    <3>4. faults' \in 0..MaxFaults
      BY <1>1, <3>1, <3>3, DeploymentAssumption DEF DataTypeOK
    <3>5. \A p \in Procs : SetStatus(t, p, "failed") \in [Procs -> Row]
      BY <1>1, RowsTyped DEF Statuses
    <3>6. \A p \in Procs : SetStatus(t, p, "failed")[p] \in Row /\ rows[p] \in Row
      BY <1>1, <3>5 DEF DataTypeOK
    <3>7. rows' \in [Procs -> Row]
      BY <3>1, <3>6
    <3> QED BY <1>1, <1>2, <2>1, <2>3, <3>4, <3>7, LoopTyped, TypePartsNext
            DEF TaskTypeOK, DataTypeOK
  <2> QED BY <1>8, <2>2, <2>3 DEF Attach
<1> QED BY <1>3, <1>4, <1>5, <1>6, <1>7, <1>8 DEF HandlerStep

LEMMA FailTyped ==
    ASSUME TypeOK, NEW t \in Requests, current[t] \in Procs, Fail(t)
    PROVE  /\ rows' \in [Procs -> Row] /\ faults' \in 0..MaxFaults
           /\ pc' \in [Requests -> States] /\ todo' \in [Requests -> SUBSET Procs]
           /\ result' \in [Requests -> {"none", "ok", "failed", "rolled_back"}]
<1>1. TaskTypeOK /\ DataTypeOK
  BY TypeParts
<1>2. SetStatus(t, current[t], "failed") \in [Procs -> Row]
  BY <1>1, RowsTyped DEF Statuses
<1> QED BY <1>1, <1>2, WriteTyped DEF Fail, Break, Goto, TaskTypeOK, States, Ended

LEMMA AdvanceTyped ==
    ASSUME TypeOK, NEW t \in Requests, Advance(t)
    PROVE  /\ pc' \in [Requests -> States] /\ todo' \in [Requests -> SUBSET Procs]
           /\ result' \in [Requests -> {"none", "ok", "failed", "rolled_back"}]
<1>1. TaskTypeOK
  BY TypeParts
<1>2. Listed(t) \ manifest[t] \in SUBSET Procs
  BY DEF Listed
<1>3. {"remove", "pick"} \subseteq States
  BY DEF States, InBackground
<1> QED BY <1>1, <1>2, <1>3, LoopTyped DEF Advance, Goto, TaskTypeOK

LEMMA MadeTyped ==
    ASSUME TypeOK, NEW t \in Requests, NEW st \in {"created", "running"}
    PROVE  Made(t, st) \in [Procs -> Container]
<1>1. [by |-> t, st |-> st] \in Container
  BY DEF Container, Makers
<1> QED BY <1>1 DEF TypeOK, Made

\* The steps of a task that works on a process do so on one.
LEMMA TaskTyped ==
    ASSUME TypeOK, NEW t \in Requests, TaskStep(t),
           pc[t] \in {"build", "stop_worker", "start", "register", "delete_row"}
             => current[t] \in Procs
    PROVE  TypeOK'
<1>1. TaskTypeOK /\ DataTypeOK
  BY TypeParts
<1>2. /\ {"pick", "build", "stop_worker", "start", "register", "remove", "delete_row",
          "done"} \subseteq States
      /\ {} \in SUBSET Procs /\ todo[t] \in SUBSET Procs
      /\ (todo[t] \ {current[t]}) \in SUBSET Procs
  BY <1>1 DEF States, InBackground, Ended, TaskTypeOK
<1>3. CASE Pick(t)
  <2>1. PICK p \in todo[t] : /\ current' = [current EXCEPT ![t] = p]
                             /\ Loop(t, "build", todo[t] \ {p})
    BY <1>3 DEF Pick
  <2>2. p \in Procs /\ (todo[t] \ {p}) \in SUBSET Procs
    BY <1>2
  <2> QED BY <1>1, <1>2, <1>3, <2>1, <2>2, LoopTyped, TypePartsNext
          DEF Pick, Background, TaskTypeOK, DataTypeOK
<1>4. CASE Build(t)
  <2>1. pc[t] = "build" /\ UNCHANGED <<cont, current, app, kind, manifest, ids, cli>>
    BY <1>4 DEF Build, Background
  <2>2. CASE Fail(t)
    BY <1>1, <2>1, <2>2, FailTyped, TypePartsNext DEF TaskTypeOK, DataTypeOK
  <2>3. CASE /\ Goto(t, IF Existed(t) /\ current[t] \notin Web THEN "stop_worker" ELSE "start")
             /\ UNCHANGED <<rows, faults, todo, result>>
    BY <1>1, <1>2, <2>1, <2>3, TypePartsNext DEF Goto, TaskTypeOK, DataTypeOK
  <2> QED BY <1>4, <2>2, <2>3 DEF Build
<1>5. CASE StopWorker(t)
  BY <1>1, <1>2, <1>5, StopTyped, TypePartsNext
     DEF StopWorker, Goto, Background, TaskTypeOK, DataTypeOK
<1>6. CASE Roll(t)
  <2>1. pc[t] = "start" /\ UNCHANGED <<current, app, kind, manifest, ids, cli>>
    BY <1>6 DEF Roll, Background
  <2>2. /\ Made(t, "running") \in [Procs -> Container]
        /\ Made(t, "created") \in [Procs -> Container]
    BY MadeTyped
  <2>3. /\ SetRunning(t, current[t]) \in [Procs -> Row]
        /\ SetStatus(t, current[t], "running") \in [Procs -> Row]
    BY <1>1, <2>1, RowsTyped DEF Statuses
  <2>4. CASE /\ cont' = Made(t, "running")
             /\ rows' = SetRunning(t, current[t])
             /\ Advance(t)
             /\ UNCHANGED faults
    BY <1>1, <2>1, <2>2, <2>3, <2>4, AdvanceTyped, TypePartsNext DEF TaskTypeOK, DataTypeOK
  <2>5. CASE /\ \E ok \in BOOLEAN : Write(SetStatus(t, current[t], "running"), ok)
             /\ Break(t, "rolled_back")
             /\ UNCHANGED cont
    <3>1. rows' \in [Procs -> Row] /\ faults' \in 0..MaxFaults
      BY <1>1, <2>3, <2>5, WriteTyped
    <3> QED BY <1>1, <1>2, <2>1, <2>5, <3>1, TypePartsNext
            DEF Break, Goto, TaskTypeOK, DataTypeOK
  <2>6. CASE /\ cont' \in {cont, Made(t, "created"), Made(t, "running"),
                             [cont EXCEPT ![current[t]] = NoContainer]}
             /\ Fail(t)
    <3>1. [cont EXCEPT ![current[t]] = NoContainer] \in [Procs -> Container]
      BY <1>1 DEF DataTypeOK, NoContainer, Container, Makers
    <3>2. cont' \in [Procs -> Container]
      BY <1>1, <2>2, <2>6, <3>1 DEF DataTypeOK
    <3> QED BY <1>1, <2>1, <2>6, <3>2, FailTyped, TypePartsNext DEF TaskTypeOK, DataTypeOK
  <2> QED BY <1>6, <2>4, <2>5, <2>6 DEF Roll
<1>7. CASE Start(t)
  <2>1. pc[t] = "start" /\ UNCHANGED <<current, app, kind, manifest, ids, cli>>
    BY <1>7 DEF Start, Background
  <2>2. cont' \in [Procs -> Container]
    BY <1>1, <1>7, MadeTyped DEF Start, DataTypeOK
  <2>3. CASE Goto(t, "register") /\ UNCHANGED <<rows, faults, todo, result>>
    BY <1>1, <1>2, <2>1, <2>2, <2>3, TypePartsNext DEF Goto, TaskTypeOK, DataTypeOK
  <2>4. CASE Fail(t)
    BY <1>1, <2>1, <2>2, <2>4, FailTyped, TypePartsNext DEF TaskTypeOK, DataTypeOK
  <2> QED BY <1>7, <2>3, <2>4 DEF Start
<1>8. CASE Register(t)
  <2>1. pc[t] = "register" /\ UNCHANGED <<current, app, kind, manifest, ids, cli, cont>>
    BY <1>8 DEF Register, Background
  <2>2. rows' \in [Procs -> Row] /\ faults' \in 0..MaxFaults
    BY <1>1, <1>8, <2>1, RowsTyped, WriteTyped DEF Register
  <2> QED BY <1>1, <1>8, <2>1, <2>2, AdvanceTyped, TypePartsNext
          DEF Register, TaskTypeOK, DataTypeOK
<1>9. CASE Remove(t)
  <2>1. UNCHANGED <<rows, result, app, kind, manifest, ids, cli>>
    BY <1>9 DEF Remove, Background
  <2>2. CASE Loop(t, "done", {}) /\ UNCHANGED <<cont, faults, current>>
    BY <1>1, <1>2, <2>1, <2>2, LoopTyped, TypePartsNext DEF TaskTypeOK, DataTypeOK
  <2>3. CASE /\ \E p \in todo[t] : Stop(p) /\ current' = [current EXCEPT ![t] = p]
             /\ Goto(t, "delete_row") /\ UNCHANGED todo
    BY <1>1, <1>2, <2>1, <2>3, StopTyped, TypePartsNext DEF Goto, TaskTypeOK, DataTypeOK
  <2> QED BY <1>9, <2>2, <2>3 DEF Remove
<1>10. CASE DeleteRow(t)
  <2>1. rows' \in [Procs -> Row] /\ faults' \in 0..MaxFaults
    BY <1>1, <1>10, RowsTyped, WriteTyped DEF DeleteRow
  <2> QED BY <1>1, <1>2, <1>10, <2>1, LoopTyped, TypePartsNext
          DEF DeleteRow, Background, TaskTypeOK, DataTypeOK
<1> QED BY <1>3, <1>4, <1>5, <1>6, <1>7, <1>8, <1>9, <1>10 DEF TaskStep

LEMMA OthersTyped ==
    ASSUME TypeOK, NEW t \in Requests, Panic(t) \/ Poll(t) \/ ServerCrash \/ UNCHANGED vars
    PROVE  TypeOK'
<1>1. TaskTypeOK /\ DataTypeOK
  BY TypeParts
<1>2. CASE Panic(t)
  <2>1. \A p \in Procs : /\ NoRow \in Row
                         /\ [rows[p] EXCEPT !.status = "failed"] \in Row
    <3>1. \A p \in Procs : rows[p] \in Row
      BY <1>1 DEF DataTypeOK
    <3> QED BY <3>1 DEF NoRow, Row, Makers, Statuses
  <2>2. rows' \in [Procs -> Row]
    BY <1>2, <2>1 DEF Panic
  <2>3. "done" \in States /\ {} \in SUBSET Procs
    BY DEF States, Ended
  <2> QED BY <1>1, <1>2, <2>2, <2>3, LoopTyped, TypePartsNext
          DEF Panic, Background, TaskTypeOK, DataTypeOK
<1>3. CASE Poll(t)
  BY <1>1, <1>3, TypePartsNext DEF Poll, dataVars, taskVars, TaskTypeOK, DataTypeOK
<1>4. CASE ServerCrash
  BY <1>1, <1>4, TypePartsNext DEF ServerCrash, dataVars, TaskTypeOK, DataTypeOK, States, Ended
<1>5. CASE UNCHANGED vars
  BY <1>1, <1>5, TypePartsNext DEF vars, dataVars, taskVars, TaskTypeOK, DataTypeOK
<1> QED BY <1>2, <1>3, <1>4, <1>5

\* The process a task works on is one.
CurrentInv == \A t \in Requests :
    pc[t] \in {"build", "stop_worker", "start", "register", "delete_row"}
      => current[t] \in Procs

LEMMA CurrentStep ==
    ASSUME TypeOK, CurrentInv, [Next]_vars
    PROVE  CurrentInv'
<1> SUFFICES ASSUME NEW t \in Requests,
                    pc'[t] \in {"build", "stop_worker", "start", "register", "delete_row"}
             PROVE  current'[t] \in Procs
  BY DEF CurrentInv
<1>1. TaskTypeOK
  BY TypeParts
<1>2. CASE pc'[t] = pc[t] /\ current'[t] = current[t]
  BY <1>2 DEF CurrentInv
<1>3. ASSUME NEW u \in Requests, pc' = [pc EXCEPT ![u] = pc'[u]], current' = current,
             pc[u] \in {"build", "stop_worker", "start", "register", "delete_row"}
               \/ pc'[u] \notin {"build", "stop_worker", "start", "register", "delete_row"}
      PROVE  current'[t] \in Procs
  BY <1>1, <1>3 DEF CurrentInv, TaskTypeOK
<1>4. ASSUME NEW u \in Requests, NEW l, NEW S, Loop(u, l, S), UNCHANGED current,
             l \notin {"build", "stop_worker", "start", "register", "delete_row"}
      PROVE  current'[t] \in Procs
  BY <1>1, <1>3, <1>4 DEF Loop, Goto, TaskTypeOK
<1>5. ASSUME NEW u \in Requests, NEW p \in Procs, NEW l,
             pc' = [pc EXCEPT ![u] = l], current' = [current EXCEPT ![u] = p]
      PROVE  current'[t] \in Procs
  <2>1. CASE t = u
    BY <1>1, <1>5, <2>1 DEF TaskTypeOK
  <2>2. CASE t # u
    BY <1>1, <1>2, <1>5, <2>2 DEF TaskTypeOK
  <2> QED BY <2>1, <2>2
<1>6. ASSUME NEW u \in Requests, Deploy(u) \/ Update(u)
      PROVE  current'[t] \in Procs
  <2>1. UNCHANGED current
    BY <1>6 DEF Deploy, Update, Arrive
  <2>2. PICK l \in {"save", "delete_rows", "stop_existing", "define_rows"} : \E S : Loop(u, l, S)
    <3>1. CASE Deploy(u)
      BY <3>1 DEF Deploy
    <3>2. CASE Update(u)
      BY <3>2 DEF Update
    <3> QED BY <1>6, <3>1, <3>2
  <2> QED BY <1>4, <2>1, <2>2
<1>7. ASSUME NEW u \in Requests, HandlerStep(u)
      PROVE  current'[t] \in Procs
  <2>1. UNCHANGED current
    BY <1>7 DEF HandlerStep, StopExisting, DeleteRows, Save, CreateRows, CreateRow, DefineRows,
                Attach
  <2>2. PICK l \in InHandler \cup {"pick", "done"} : \E S : Loop(u, l, S)
    <3>1. ASSUME NEW p, NEW loop \in InHandler, NEW after \in InHandler,
                 Visited(u, p, loop, after, {})
          PROVE  \E l \in InHandler \cup {"pick", "done"} : \E S : Loop(u, l, S)
      BY <3>1 DEF Visited
    <3>2. ASSUME NEW p, NEW loop \in InHandler, CreateRow(u, p, loop)
          PROVE  \E l \in InHandler \cup {"pick", "done"} : \E S : Loop(u, l, S)
      BY <3>1, <3>2 DEF CreateRow, InHandler
    <3>3. CASE StopExisting(u)
      BY <3>1, <3>3 DEF StopExisting, InHandler
    <3>4. CASE DeleteRows(u)
      BY <3>4 DEF DeleteRows, InHandler
    <3>5. CASE Save(u)
      BY <3>5 DEF Save, InHandler
    <3>6. CASE CreateRows(u)
      BY <3>2, <3>6 DEF CreateRows, InHandler
    <3>7. CASE DefineRows(u)
      BY <3>1, <3>2, <3>7 DEF DefineRows, InHandler
    <3>8. CASE Attach(u)
      BY <3>8 DEF Attach
    <3> QED BY <1>7, <3>3, <3>4, <3>5, <3>6, <3>7, <3>8 DEF HandlerStep
  <2> QED BY <1>4, <2>1, <2>2 DEF InHandler
<1>8. ASSUME NEW u \in Requests, TaskStep(u)
      PROVE  current'[t] \in Procs
  <2>1. CASE Pick(u)
    BY <1>1, <1>5, <2>1 DEF Pick, Loop, Goto, TaskTypeOK
  <2>2. CASE Remove(u)
    <3>1. CASE Loop(u, "done", {}) /\ UNCHANGED <<cont, faults, current>>
      BY <1>4, <3>1
    <3>2. CASE /\ \E p \in todo[u] : Stop(p) /\ current' = [current EXCEPT ![u] = p]
               /\ Goto(u, "delete_row") /\ UNCHANGED todo
      BY <1>1, <1>5, <3>2 DEF Goto, TaskTypeOK
    <3> QED BY <2>2, <3>1, <3>2 DEF Remove
  <2>3. CASE Build(u) \/ StopWorker(u) \/ Roll(u) \/ Start(u) \/ Register(u) \/ DeleteRow(u)
    <3>1. UNCHANGED current
      BY <2>3 DEF Build, StopWorker, Roll, Start, Register, DeleteRow
    <3>2. pc[u] \in {"build", "stop_worker", "start", "register", "delete_row"}
      BY <2>3 DEF Build, StopWorker, Roll, Start, Register, DeleteRow
    <3>3. \E l : pc' = [pc EXCEPT ![u] = l]
      BY <2>3 DEF Build, StopWorker, Roll, Start, Register, DeleteRow, Fail, Break, Advance,
                  Loop, Goto
    <3> QED BY <1>1, <1>3, <3>1, <3>2, <3>3 DEF TaskTypeOK
  <2> QED BY <1>8, <2>1, <2>2, <2>3 DEF TaskStep
<1>9. ASSUME NEW u \in Requests, Panic(u)
      PROVE  current'[t] \in Procs
  BY <1>4, <1>9 DEF Panic
<1>10. ASSUME NEW u \in Requests, Poll(u)
       PROVE  current'[t] \in Procs
  BY <1>2, <1>10 DEF Poll, taskVars
<1>11. CASE ServerCrash
  BY <1>1, <1>2, <1>11 DEF ServerCrash, TaskTypeOK
<1>12. CASE UNCHANGED vars
  BY <1>2, <1>12 DEF vars, taskVars
<1> QED BY <1>6, <1>7, <1>8, <1>9, <1>10, <1>11, <1>12 DEF Next

LEMMA TypeStep == TypeOK /\ CurrentInv /\ [Next]_vars => TypeOK' /\ CurrentInv'
<1> SUFFICES ASSUME TypeOK, CurrentInv, [Next]_vars PROVE TypeOK'
  BY CurrentStep
<1>1. ASSUME NEW t \in Requests, Deploy(t) \/ Update(t) PROVE TypeOK'
  BY <1>1, ArriveTyped
<1>2. ASSUME NEW t \in Requests, HandlerStep(t) PROVE TypeOK'
  BY <1>2, HandlerTyped
<1>3. ASSUME NEW t \in Requests, TaskStep(t) PROVE TypeOK'
  BY <1>3, TaskTyped DEF CurrentInv
<1>4. ASSUME NEW t \in Requests, Panic(t) \/ Poll(t) PROVE TypeOK'
  BY <1>4, OthersTyped
<1>5. CASE ServerCrash
  BY <1>5, OthersTyped DEF ServerCrash
<1>6. CASE UNCHANGED vars
  BY <1>6 DEF vars, dataVars, taskVars, TypeOK
<1> QED BY <1>1, <1>2, <1>3, <1>4, <1>5, <1>6 DEF Next

\* Every variable keeps its type, however many requests are worked on at once.
THEOREM DeploymentTyped == Spec => []TypeOK
<1>1. Init => TypeOK /\ CurrentInv
  <2>1. Init => CurrentInv
    BY DEF Init, CurrentInv
  <2> QED BY <2>1, InitTyped
<1> QED BY <1>1, TypeStep, PTL DEF Spec

-----------------------------------------------------------------------------
(* One request at a time                                                    *)

OneInFlight == \A t, u \in Requests : InFlight(t) /\ InFlight(u) => t = u

Working  == {"build", "stop_worker", "start", "register"}
Looping  == Working \cup {"pick"}
Cleaning == {"remove", "delete_row"}

\* What the loops have still to visit.
LoopInv(t) ==
    /\ pc[t] \in Looping \cup {"create_rows", "define_rows"} => todo[t] \subseteq manifest[t]
    /\ pc[t] \in {"create_rows", "define_rows", "pick"} => todo[t] # {}
    /\ InFlight(t) => manifest[t] # {}
    /\ pc[t] \in Working => current[t] \in manifest[t] \ todo[t]
    /\ pc[t] \in Cleaning => todo[t] \cap manifest[t] = {}
    /\ pc[t] = "delete_row" => current[t] \notin manifest[t]

\* The processes that the task is through with run in a container of its own.
Runs(t, p) == cont[p] = [by |-> t, st |-> "running"]
RunInv(t) ==
    /\ pc[t] \in Looping => \A p \in (manifest[t] \ todo[t]) :
         Runs(t, p) \/ (pc[t] \in Working \ {"register"} /\ p = current[t])
    /\ pc[t] \in Cleaning => \A p \in manifest[t] : Runs(t, p)

\* The ones that it is not through with are marked.
Marked(p) == rows[p].status = "building"
MarkInv(t) ==
    /\ pc[t] = "define_rows" => \A p \in Procs : ids[t][p] = rows[p].id
    /\ pc[t] \in {"create_rows", "define_rows"} => \A p \in (manifest[t] \ todo[t]) : Marked(p)
    /\ pc[t] = "attach" => \A p \in manifest[t] : Marked(p)
    /\ pc[t] \in Looping => \A p \in todo[t] : Marked(p)
    /\ pc[t] \in Working => Marked(current[t])

\* The CLI polls from the answer on.
CliInv(t) ==
    /\ pc[t] \in InHandler \cup {"idle"} => cli[t] = "none"
    /\ pc[t] \in Looping => cli[t] = "waiting"

OwnInv(t) == LoopInv(t) /\ RunInv(t) /\ MarkInv(t) /\ CliInv(t)

AloneInv ==
    /\ TypeOK /\ CurrentInv
    /\ OneInFlight
    /\ \A t \in Requests : OwnInv(t)

\* A step of the one request in flight leaves the others as they are.
LEMMA Alone ==
    ASSUME TaskTypeOK, OneInFlight, NEW t \in Requests, InFlight(t),
           NEW l \in States, pc' = [pc EXCEPT ![t] = l],
           \A u \in Requests \ {t} : cli'[u] = cli[u],
           \A u \in Requests : OwnInv(u), OwnInv(t)'
    PROVE  OneInFlight' /\ \A u \in Requests : OwnInv(u)'
<1>1. ASSUME NEW u \in Requests, u # t
      PROVE  pc'[u] = pc[u] /\ pc[u] \in Ended
  BY <1>1 DEF TaskTypeOK, OneInFlight, InFlight
<1>2. OneInFlight'
  BY <1>1 DEF OneInFlight, InFlight
<1>3. ASSUME NEW u \in Requests, u # t
      PROVE  OwnInv(u)'
  <2>1. /\ pc'[u] \notin Looping \cup Cleaning \cup InHandler
        /\ pc'[u] \in Ended
    BY <1>1, <1>3 DEF Ended, Looping, Working, Cleaning, InHandler
  <2>2. cli'[u] = cli[u] /\ pc'[u] = pc[u] /\ CliInv(u)
    BY <1>1, <1>3 DEF OwnInv
  <2>3. LoopInv(u)'
    BY <2>1 DEF LoopInv, InFlight, Looping, Working, Cleaning, InHandler
  <2>4. RunInv(u)' /\ MarkInv(u)'
    BY <2>1 DEF RunInv, MarkInv, Looping, InHandler
  <2>5. CliInv(u)'
    BY <2>1, <2>2 DEF CliInv
  <2> QED BY <2>3, <2>4, <2>5 DEF OwnInv
<1> QED BY <1>2, <1>3

\* Where a step takes the request.
LEMMA LoopSets ==
    ASSUME TaskTypeOK, NEW t \in Requests, NEW l, NEW S, Loop(t, l, S)
    PROVE  pc' = [pc EXCEPT ![t] = l] /\ pc'[t] = l /\ todo'[t] = S
BY DEF TaskTypeOK, Loop, Goto

LEMMA GotoSets ==
    ASSUME TaskTypeOK, NEW t \in Requests, NEW l, Goto(t, l)
    PROVE  pc' = [pc EXCEPT ![t] = l] /\ pc'[t] = l
BY DEF TaskTypeOK, Goto

\* A request that ends has nothing left to say; nor does one whose loop over the
\* existing processes begins.
LEMMA EndedOwn ==
    ASSUME NEW t \in Requests, pc'[t] = "done"
    PROVE  OwnInv(t)'
BY DEF OwnInv, LoopInv, RunInv, MarkInv, CliInv, InFlight, Ended, Looping, Working, Cleaning,
       InHandler

LEMMA EarlyOwn ==
    ASSUME NEW t \in Requests, pc'[t] \in {"stop_existing", "delete_rows", "save"},
           manifest'[t] # {}, cli'[t] = "none"
    PROVE  OwnInv(t)'
BY DEF OwnInv, LoopInv, RunInv, MarkInv, CliInv, Looping, Working, Cleaning, InHandler

\* The row of a process is the only one a write by id changes.
LEMMA OtherRows ==
    ASSUME DataTypeOK, NEW t \in Requests, NEW p \in Procs, NEW q \in Procs, q # p
    PROVE  /\ \A s : SetStatus(t, p, s)[q] = rows[q]
           /\ SetRunning(t, p)[q] = rows[q]
           /\ ById(t, p, NoRow)[q] = rows[q]
BY DEF DataTypeOK, SetStatus, SetRunning, ById

LEMMA RowMarked ==
    ASSUME DataTypeOK, NEW t \in Requests, NEW p \in Procs,
           rows[p].id = ids[t][p], ids[t][p] # "none"
    PROVE  /\ SetStatus(t, p, "building")[p].status = "building"
           /\ SetStatus(t, p, "building")[p].id = rows[p].id
<1>1. rows[p] \in Row
  BY DEF DataTypeOK
<1> DEFINE r == [rows[p] EXCEPT !.status = "building"]
<1>2. r.status = "building" /\ r.id = rows[p].id
  BY <1>1 DEF Row
<1>3. SetStatus(t, p, "building") = [rows EXCEPT ![p] = r]
  BY DEF SetStatus, ById
<1> HIDE DEF r
<1> QED BY <1>2, <1>3 DEF DataTypeOK

-----------------------------------------------------------------------------
(* The handlers                                                             *)

LEMMA ArriveOwn ==
    ASSUME AloneInv, ~Concurrent, NEW t \in Requests, Deploy(t) \/ Update(t)
    PROVE  OneInFlight' /\ \A u \in Requests : OwnInv(u)'
<1>1. TaskTypeOK /\ DataTypeOK
  BY TypeParts DEF AloneInv
<1>2. pc[t] = "idle" /\ \A u \in Requests : pc[u] \in Ended
  BY DEF Deploy, Update, Free, InFlight
<1>3. PICK k \in {"deploy", "update"}, m \in (SUBSET Procs) \ {{}} : Arrive(t, k, m)
  BY DEF Deploy, Update
<1>4. manifest'[t] = m /\ (cli' = cli) /\ UNCHANGED rows
      /\ \A p \in Procs : ids'[t][p] = rows[p].id
  BY <1>1, <1>3 DEF Arrive, Kept, dataVars
<1>5. PICK l \in {"save", "delete_rows", "stop_existing", "define_rows"},
           S \in SUBSET Procs :
         Loop(t, l, S) /\ (l = "define_rows" => S = manifest'[t])
  <2>1. CASE Deploy(t)
    BY <2>1 DEF Deploy
  <2>2. CASE Update(t)
    <3>1. PICK n \in (SUBSET Procs) \ {{}} : Arrive(t, "update", n) /\ Loop(t, "define_rows", n)
      BY <2>2 DEF Update
    <3>2. manifest'[t] = n
      BY <1>1, <3>1 DEF Arrive, Kept
    <3> QED BY <3>1, <3>2
  <2> QED BY <2>1, <2>2
<1>6. pc' = [pc EXCEPT ![t] = l] /\ pc'[t] = l /\ todo'[t] = S
  BY <1>1, <1>5, LoopSets
<1>7. \A u \in Requests : u # t => pc'[u] = pc[u] /\ cli'[u] = cli[u]
  BY <1>1, <1>4, <1>6 DEF TaskTypeOK
<1>8. OneInFlight'
  BY <1>2, <1>7 DEF OneInFlight, InFlight
<1>9. cli'[t] = "none"
  BY <1>2, <1>4 DEF AloneInv, OwnInv, CliInv
<1>10. OwnInv(t)'
  <2>1. CASE l # "define_rows"
    BY <1>3, <1>4, <1>5, <1>6, <1>9, <2>1, EarlyOwn
  <2>2. CASE l = "define_rows"
    <3>1. LoopInv(t)' /\ RunInv(t)' /\ CliInv(t)'
      BY <1>3, <1>4, <1>5, <1>6, <1>9, <2>2
         DEF LoopInv, RunInv, CliInv, Looping, Working, Cleaning, InHandler
    <3>2. MarkInv(t)'
      BY <1>4, <1>5, <1>6, <2>2 DEF MarkInv, Looping, Working
    <3> QED BY <3>1, <3>2 DEF OwnInv
  <2> QED BY <2>1, <2>2
<1>11. ASSUME NEW u \in Requests, u # t PROVE OwnInv(u)'
  <2>1. pc'[u] = pc[u] /\ pc[u] \in Ended /\ cli'[u] = cli[u] /\ CliInv(u)
    BY <1>2, <1>7, <1>11 DEF AloneInv, OwnInv
  <2> QED BY <2>1 DEF OwnInv, LoopInv, RunInv, MarkInv, CliInv, InFlight, Ended, Looping,
                      Working, Cleaning, InHandler
<1> QED BY <1>8, <1>10, <1>11

\* One more row is there and marked, and the loop goes on.
LEMMA RowReady ==
    ASSUME AloneInv, NEW t \in Requests, NEW p \in todo[t],
           NEW loop \in {"create_rows", "define_rows"}, pc[t] = loop,
           Visited(t, p, loop, "attach", {}),
           UNCHANGED <<manifest, cli>>,
           rows'[p].status = "building",
           \A q \in Procs \ {p} : rows'[q] = rows[q],
           \A q \in Procs \ {p} : ids'[t][q] = ids[t][q],
           loop = "define_rows" => ids'[t][p] = rows'[p].id
    PROVE  OwnInv(t)' /\ \E l \in States : pc' = [pc EXCEPT ![t] = l]
<1>1. TaskTypeOK /\ DataTypeOK /\ OwnInv(t)
  BY TypeParts DEF AloneInv
<1>2. /\ todo[t] \subseteq manifest[t] /\ manifest[t] \subseteq Procs /\ cli[t] = "none"
      /\ manifest[t] # {}
      /\ \A q \in (manifest[t] \ todo[t]) : Marked(q)
  BY <1>1 DEF OwnInv, LoopInv, MarkInv, CliInv, TaskTypeOK, InHandler, InFlight, Ended
<1>3. \A q \in (manifest[t] \ (todo[t] \ {p})) : Marked(q)'
  BY <1>2 DEF Marked
<1>4. loop = "define_rows" => \A q \in Procs : ids'[t][q] = rows'[q].id
  BY <1>1 DEF OwnInv, MarkInv
<1>5. CASE todo[t] = {p}
  <2>1. pc' = [pc EXCEPT ![t] = "attach"] /\ pc'[t] = "attach"
    BY <1>1, <1>5, LoopSets DEF Visited
  <2>2. LoopInv(t)' /\ RunInv(t)' /\ CliInv(t)'
    BY <1>2, <2>1 DEF LoopInv, RunInv, CliInv, Looping, Working, Cleaning, InHandler
  <2>3. MarkInv(t)'
    BY <1>3, <1>5, <2>1 DEF MarkInv, Looping, Working
  <2> QED BY <2>1, <2>2, <2>3 DEF OwnInv, States, InHandler
<1>6. CASE todo[t] # {p}
  <2>1. /\ pc' = [pc EXCEPT ![t] = loop] /\ pc'[t] = loop
        /\ todo'[t] = todo[t] \ {p} /\ todo'[t] # {}
    BY <1>1, <1>6, LoopSets DEF Visited
  <2>2. LoopInv(t)' /\ RunInv(t)' /\ CliInv(t)'
    BY <1>2, <2>1 DEF LoopInv, RunInv, CliInv, Looping, Working, Cleaning, InHandler
  <2>3. MarkInv(t)'
    BY <1>3, <1>4, <2>1 DEF MarkInv, Looping, Working
  <2> QED BY <2>1, <2>2, <2>3 DEF OwnInv, States, InHandler
<1> QED BY <1>5, <1>6

LEMMA DoneOwn ==
    ASSUME AloneInv, NEW t \in Requests, NEW S, Loop(t, "done", S) \/ Goto(t, "done")
    PROVE  OwnInv(t)' /\ \E l \in States : pc' = [pc EXCEPT ![t] = l]
<1>1. pc' = [pc EXCEPT ![t] = "done"] /\ pc'[t] = "done"
  BY TypeParts, GotoSets DEF AloneInv, Loop
<1> QED BY <1>1, EndedOwn DEF States, Ended

LEMMA CreateRowOwn ==
    ASSUME AloneInv, NEW t \in Requests, NEW p \in todo[t],
           NEW loop \in {"create_rows", "define_rows"}, pc[t] = loop,
           CreateRow(t, p, loop)
    PROVE  OwnInv(t)' /\ \E l \in States : pc' = [pc EXCEPT ![t] = l]
<1>1. TaskTypeOK /\ DataTypeOK
  BY TypeParts DEF AloneInv
<1>2. /\ p \in Procs /\ UNCHANGED <<manifest, cli>>
      /\ ids'[t][p] = t /\ \A q \in Procs \ {p} : ids'[t][q] = ids[t][q]
  BY <1>1 DEF CreateRow, TaskTypeOK
<1> DEFINE new == [id |-> t, status |-> "building", container |-> "none"]
<1>3. CASE rows[p].id # "none"
  BY <1>3, DoneOwn DEF CreateRow
<1>4. CASE rows[p].id = "none"
  <2>1. PICK ok \in BOOLEAN :
          /\ Write([rows EXCEPT ![p] = new], ok)
          /\ IF ok THEN Visited(t, p, loop, "attach", {}) ELSE Loop(t, "done", {})
    BY <1>4 DEF CreateRow
  <2>2. CASE ok
    <3>1. rows' = [rows EXCEPT ![p] = new]
      BY <2>1, <2>2 DEF Write
    <3>2. rows'[p] = new /\ \A q \in Procs \ {p} : rows'[q] = rows[q]
      BY <1>1, <1>2, <3>1 DEF DataTypeOK
    <3>3. rows'[p].status = "building" /\ rows'[p].id = t
      BY <3>2
    <3> QED BY <1>2, <2>1, <2>2, <3>2, <3>3, RowReady
  <2>3. CASE ~ok
    BY <2>1, <2>3, DoneOwn
  <2> QED BY <2>2, <2>3
<1> QED BY <1>3, <1>4

LEMMA DefineRowOwn ==
    ASSUME AloneInv, NEW t \in Requests, NEW p \in todo[t], pc[t] = "define_rows",
           ids[t][p] # "none", NEW ok \in BOOLEAN,
           Write(SetStatus(t, p, "building"), ok),
           IF ok THEN Visited(t, p, "define_rows", "attach", {}) ELSE Loop(t, "done", {}),
           UNCHANGED <<manifest, ids, cli>>
    PROVE  OwnInv(t)' /\ \E l \in States : pc' = [pc EXCEPT ![t] = l]
<1>1. TaskTypeOK /\ DataTypeOK
  BY TypeParts DEF AloneInv
<1>2. p \in Procs /\ rows[p].id = ids[t][p]
  BY <1>1 DEF TaskTypeOK, AloneInv, OwnInv, MarkInv
<1>3. CASE ok
  <2>1. rows' = SetStatus(t, p, "building")
    BY <1>3 DEF Write
  <2>2. /\ rows'[p].status = "building" /\ rows'[p].id = ids[t][p]
        /\ \A q \in Procs \ {p} : rows'[q] = rows[q]
    BY <1>1, <1>2, <2>1, OtherRows, RowMarked
  <2> QED BY <1>3, <2>2, RowReady
<1>4. CASE ~ok
  BY <1>4, DoneOwn
<1> QED BY <1>3, <1>4

LEMMA AttachOwn ==
    ASSUME AloneInv, NEW t \in Requests, Attach(t)
    PROVE  OwnInv(t)' /\ \E l \in States : pc' = [pc EXCEPT ![t] = l]
<1>1. TaskTypeOK /\ OwnInv(t)
  BY TypeParts DEF AloneInv
<1>2. /\ manifest'[t] = manifest[t] /\ manifest[t] # {}
      /\ \A p \in manifest[t] : Marked(p)
  BY <1>1 DEF Attach, OwnInv, LoopInv, MarkInv, InFlight, Ended
<1>3. CASE /\ Loop(t, "pick", manifest[t])
           /\ cli' = [cli EXCEPT ![t] = "waiting"]
           /\ UNCHANGED <<rows, faults>>
  <2>1. /\ pc' = [pc EXCEPT ![t] = "pick"] /\ pc'[t] = "pick" /\ todo'[t] = manifest[t]
        /\ cli'[t] = "waiting"
    BY <1>1, <1>3, LoopSets DEF TaskTypeOK
  <2>2. LoopInv(t)' /\ RunInv(t)' /\ CliInv(t)'
    BY <1>2, <2>1 DEF LoopInv, RunInv, CliInv, Looping, Working, Cleaning, InHandler
  <2>3. MarkInv(t)'
    BY <1>2, <1>3, <2>1 DEF MarkInv, Marked, Looping, Working
  <2> QED BY <2>1, <2>2, <2>3 DEF OwnInv, States, InBackground
<1>4. CASE Loop(t, "done", {})
  BY <1>4, DoneOwn
<1> QED BY <1>3, <1>4 DEF Attach

LEMMA HandlerOwn ==
    ASSUME AloneInv, NEW t \in Requests, HandlerStep(t)
    PROVE  OwnInv(t)' /\ \E l \in States : pc' = [pc EXCEPT ![t] = l]
<1>1. TaskTypeOK /\ OwnInv(t)
  BY TypeParts DEF AloneInv
<1>2. /\ pc[t] \in InHandler /\ cli[t] = "none" /\ manifest[t] # {}
      /\ UNCHANGED manifest
  BY <1>1 DEF HandlerStep, StopExisting, DeleteRows, Save, CreateRows, CreateRow, DefineRows,
              Attach, OwnInv, CliInv, LoopInv, InHandler, InFlight, Ended
<1>3. ASSUME NEW l \in {"stop_existing", "delete_rows", "save"}, NEW S, Loop(t, l, S),
             UNCHANGED cli
      PROVE  OwnInv(t)' /\ \E k \in States : pc' = [pc EXCEPT ![t] = k]
  <2>1. pc' = [pc EXCEPT ![t] = l] /\ pc'[t] = l
    BY <1>1, <1>3, LoopSets
  <2> QED BY <1>2, <1>3, <2>1, EarlyOwn DEF States, InHandler
<1>4. CASE StopExisting(t)
  BY <1>3, <1>4 DEF StopExisting, Visited
<1>5. CASE DeleteRows(t)
  <2>1. PICK ok \in BOOLEAN : Loop(t, IF ok THEN "save" ELSE "done", {})
    BY <1>5 DEF DeleteRows
  <2>2. UNCHANGED cli
    BY <1>5 DEF DeleteRows
  <2> QED BY <1>3, <2>1, <2>2, DoneOwn
<1>6. CASE Save(t)
  <2>1. CASE Loop(t, "done", {})
    BY <2>1, DoneOwn
  <2>2. CASE Loop(t, "create_rows", manifest[t])
    <3>1. /\ pc' = [pc EXCEPT ![t] = "create_rows"] /\ pc'[t] = "create_rows"
          /\ todo'[t] = manifest[t] /\ manifest'[t] = manifest[t] /\ cli'[t] = "none"
      BY <1>1, <1>2, <1>6, <2>2, LoopSets DEF Save
    <3>2. LoopInv(t)' /\ RunInv(t)' /\ CliInv(t)'
      BY <1>2, <3>1 DEF LoopInv, RunInv, CliInv, Looping, Working, Cleaning, InHandler
    <3>3. MarkInv(t)'
      BY <3>1 DEF MarkInv, Looping, Working
    <3> QED BY <3>1, <3>2, <3>3 DEF OwnInv, States, InHandler
  <2> QED BY <1>6, <2>1, <2>2 DEF Save
<1>7. CASE CreateRows(t)
  BY <1>7, CreateRowOwn DEF CreateRows
<1>8. CASE DefineRows(t)
  BY <1>8, CreateRowOwn, DefineRowOwn DEF DefineRows
<1>9. CASE Attach(t)
  BY <1>9, AttachOwn
<1> QED BY <1>4, <1>5, <1>6, <1>7, <1>8, <1>9 DEF HandlerStep

LEMMA HandlerAlone ==
    ASSUME AloneInv, NEW t \in Requests, HandlerStep(t)
    PROVE  OneInFlight' /\ \A u \in Requests : OwnInv(u)'
<1>1. TaskTypeOK /\ OneInFlight /\ \A u \in Requests : OwnInv(u)
  BY TypeParts DEF AloneInv
<1>2. InFlight(t)
  BY DEF HandlerStep, StopExisting, DeleteRows, Save, CreateRows, DefineRows, Attach, InFlight,
         Ended
<1>3. \A u \in Requests \ {t} : cli'[u] = cli[u]
  BY <1>1 DEF HandlerStep, StopExisting, DeleteRows, Save, CreateRows, CreateRow, DefineRows,
              Attach, TaskTypeOK
<1> QED BY <1>1, <1>2, <1>3, HandlerOwn, Alone

-----------------------------------------------------------------------------
(* The background task                                                      *)

LEMMA FailOwn ==
    ASSUME AloneInv, NEW t \in Requests, NEW r, Fail(t) \/ Break(t, r)
    PROVE  OwnInv(t)' /\ \E l \in States : pc' = [pc EXCEPT ![t] = l]
BY DoneOwn DEF Fail, Break

\* The task is through with one more process, and the others are as they were.
LEMMA AdvanceOwn ==
    ASSUME AloneInv, NEW t \in Requests, pc[t] \in Working, Advance(t),
           UNCHANGED <<manifest, cli>>,
           \A p \in (manifest[t] \ todo[t]) : Runs(t, p)',
           \A p \in todo[t] : Marked(p)'
    PROVE  OwnInv(t)' /\ \E l \in States : pc' = [pc EXCEPT ![t] = l]
<1>1. TaskTypeOK /\ OwnInv(t)
  BY TypeParts DEF AloneInv
<1>2. todo[t] \subseteq manifest[t] /\ manifest[t] # {} /\ cli[t] = "waiting"
  BY <1>1 DEF OwnInv, LoopInv, CliInv, InFlight, Ended, Working, Looping
<1>3. CASE todo[t] = {}
  <2>1. /\ pc' = [pc EXCEPT ![t] = "remove"] /\ pc'[t] = "remove"
        /\ todo'[t] = Listed(t) \ manifest[t]
    BY <1>1, <1>3, LoopSets DEF Advance
  <2>2. LoopInv(t)' /\ CliInv(t)' /\ MarkInv(t)'
    BY <1>2, <2>1 DEF LoopInv, CliInv, MarkInv, Looping, Working, Cleaning, InHandler
  <2>3. RunInv(t)'
    BY <1>3, <2>1 DEF RunInv, Looping, Working
  <2> QED BY <2>1, <2>2, <2>3 DEF OwnInv, States, InBackground
<1>4. CASE todo[t] # {}
  <2>1. pc' = [pc EXCEPT ![t] = "pick"] /\ pc'[t] = "pick" /\ todo'[t] = todo[t]
    BY <1>1, <1>4, GotoSets DEF Advance
  <2>2. LoopInv(t)' /\ CliInv(t)' /\ MarkInv(t)'
    BY <1>2, <1>4, <2>1 DEF LoopInv, CliInv, MarkInv, Looping, Working, Cleaning, InHandler
  <2>3. RunInv(t)'
    BY <2>1 DEF RunInv, Looping, Working, Cleaning
  <2> QED BY <2>1, <2>2, <2>3 DEF OwnInv, States, InBackground
<1> QED BY <1>3, <1>4

\* A step within the work on a process, which leaves what it must.
LEMMA WorkOn ==
    ASSUME AloneInv, NEW t \in Requests, pc[t] \in Working, NEW l \in Working, Goto(t, l),
           UNCHANGED <<manifest, todo, current, cli, rows>>,
           \A p \in (manifest[t] \ todo[t]) : p # current[t] => Runs(t, p)',
           l = "register" => Runs(t, current[t])'
    PROVE  OwnInv(t)' /\ \E k \in States : pc' = [pc EXCEPT ![t] = k]
<1>1. TaskTypeOK /\ OwnInv(t)
  BY TypeParts DEF AloneInv
<1>2. pc' = [pc EXCEPT ![t] = l] /\ pc'[t] = l
  BY <1>1, GotoSets
<1>3. LoopInv(t)' /\ CliInv(t)'
  BY <1>1, <1>2 DEF OwnInv, LoopInv, CliInv, InFlight, Ended, Looping, Working, Cleaning,
                    InHandler
<1>4. RunInv(t)'
  BY <1>1, <1>2 DEF OwnInv, RunInv, Runs, Looping, Working, Cleaning
<1>5. MarkInv(t)'
  BY <1>1, <1>2 DEF OwnInv, MarkInv, Marked, Looping, Working
<1> QED BY <1>2, <1>3, <1>4, <1>5 DEF OwnInv, States, InBackground, Working

LEMMA PickOwn ==
    ASSUME AloneInv, NEW t \in Requests, Pick(t)
    PROVE  OwnInv(t)' /\ \E l \in States : pc' = [pc EXCEPT ![t] = l]
<1>1. TaskTypeOK /\ OwnInv(t) /\ pc[t] = "pick"
  BY TypeParts DEF AloneInv, Pick
<1>2. UNCHANGED <<manifest, cli, rows, cont>>
  BY DEF Pick, Background
<1>3. PICK p \in todo[t] : /\ current' = [current EXCEPT ![t] = p]
                           /\ Loop(t, "build", todo[t] \ {p})
  BY DEF Pick
<1>4. /\ pc' = [pc EXCEPT ![t] = "build"] /\ pc'[t] = "build" /\ current'[t] = p
      /\ todo'[t] = todo[t] \ {p}
  BY <1>1, <1>3, LoopSets DEF TaskTypeOK
<1>5. LoopInv(t)' /\ CliInv(t)'
  BY <1>1, <1>2, <1>4 DEF OwnInv, LoopInv, CliInv, InFlight, Ended, Looping, Working, Cleaning,
                          InHandler
<1>6. RunInv(t)'
  BY <1>1, <1>2, <1>4 DEF OwnInv, RunInv, Runs, Looping, Working, Cleaning
<1>7. MarkInv(t)'
  BY <1>1, <1>2, <1>4 DEF OwnInv, MarkInv, Marked, Looping, Working
<1> QED BY <1>4, <1>5, <1>6, <1>7 DEF OwnInv, States, InBackground

\* Where the work on a process starts from.
LEMMA AtWork ==
    ASSUME AloneInv, NEW t \in Requests, pc[t] \in Working
    PROVE  /\ current[t] \in Procs /\ current[t] \in manifest[t] /\ current[t] \notin todo[t]
           /\ todo[t] \subseteq Procs /\ manifest[t] \subseteq Procs
           /\ \A p \in (manifest[t] \ todo[t]) : p # current[t] => Runs(t, p)
           /\ pc[t] = "register" => Runs(t, current[t])
           /\ \A p \in todo[t] : Marked(p)
BY TypeParts DEF AloneInv, TaskTypeOK, OwnInv, LoopInv, RunInv, MarkInv, Looping, Working

LEMMA BuildOwn ==
    ASSUME AloneInv, NEW t \in Requests, Build(t)
    PROVE  OwnInv(t)' /\ \E l \in States : pc' = [pc EXCEPT ![t] = l]
<1>1. pc[t] \in Working /\ UNCHANGED <<cont, current, manifest, cli>>
  BY DEF Build, Background, Working
<1>2. CASE Fail(t)
  BY <1>2, FailOwn
<1>3. CASE /\ Goto(t, IF Existed(t) /\ current[t] \notin Web THEN "stop_worker" ELSE "start")
           /\ UNCHANGED <<rows, faults, todo, result>>
  <2>1. PICK l \in {"stop_worker", "start"} : Goto(t, l)
    BY <1>3
  <2>2. l \in Working /\ l # "register"
    BY <2>1 DEF Working
  <2>3. \A p \in (manifest[t] \ todo[t]) : p # current[t] => Runs(t, p)'
    BY <1>1, AtWork DEF Runs
  <2> QED BY <1>1, <1>3, <2>1, <2>2, <2>3, WorkOn
<1> QED BY <1>2, <1>3 DEF Build

LEMMA StopWorkerOwn ==
    ASSUME AloneInv, NEW t \in Requests, StopWorker(t)
    PROVE  OwnInv(t)' /\ \E l \in States : pc' = [pc EXCEPT ![t] = l]
<1>1. /\ pc[t] \in Working /\ Stop(current[t]) /\ Goto(t, "start")
      /\ UNCHANGED <<rows, todo, current, manifest, cli>>
  BY DEF StopWorker, Background, Working
<1>2. DataTypeOK
  BY TypeParts DEF AloneInv
<1>3. \A p \in Procs : p # current[t] => cont'[p] = cont[p]
  BY <1>1, <1>2 DEF Stop, DataTypeOK
<1>4. \A p \in (manifest[t] \ todo[t]) : p # current[t] => Runs(t, p)'
  BY <1>1, <1>3, AtWork DEF Runs
<1> QED BY <1>1, <1>4, WorkOn DEF Working

LEMMA MadeRuns ==
    ASSUME DataTypeOK, NEW t \in Requests, current[t] \in Procs, NEW st
    PROVE  /\ Made(t, st)[current[t]] = [by |-> t, st |-> st]
           /\ \A p \in Procs : p # current[t] => Made(t, st)[p] = cont[p]
BY DEF DataTypeOK, Made

LEMMA RollOwn ==
    ASSUME AloneInv, NEW t \in Requests, Roll(t)
    PROVE  OwnInv(t)' /\ \E l \in States : pc' = [pc EXCEPT ![t] = l]
<1>1. DataTypeOK
  BY TypeParts DEF AloneInv
<1>2. pc[t] \in Working /\ UNCHANGED <<current, manifest, cli>>
  BY DEF Roll, Background, Working
<1>3. CASE /\ cont' = Made(t, "running")
           /\ rows' = SetRunning(t, current[t])
           /\ Advance(t)
  <2>1. \A p \in (manifest[t] \ todo[t]) : Runs(t, p)'
    BY <1>1, <1>2, <1>3, AtWork, MadeRuns DEF Runs
  <2>2. \A p \in todo[t] : Marked(p)'
    BY <1>1, <1>2, <1>3, AtWork, OtherRows DEF Marked
  <2> QED BY <1>2, <1>3, <2>1, <2>2, AdvanceOwn
<1>4. CASE Break(t, "rolled_back") \/ Fail(t)
  BY <1>4, FailOwn
<1> QED BY <1>3, <1>4 DEF Roll

LEMMA StartOwn ==
    ASSUME AloneInv, NEW t \in Requests, Start(t)
    PROVE  OwnInv(t)' /\ \E l \in States : pc' = [pc EXCEPT ![t] = l]
<1>1. DataTypeOK
  BY TypeParts DEF AloneInv
<1>2. pc[t] \in Working /\ UNCHANGED <<current, manifest, cli>>
  BY DEF Start, Background, Working
<1>3. CASE /\ cont' = Made(t, "running")
           /\ Goto(t, "register")
           /\ UNCHANGED <<rows, faults, todo, result>>
  <2>1. /\ \A p \in (manifest[t] \ todo[t]) : p # current[t] => Runs(t, p)'
        /\ Runs(t, current[t])'
    BY <1>1, <1>2, <1>3, AtWork, MadeRuns DEF Runs
  <2> QED BY <1>2, <1>3, <2>1, WorkOn DEF Working
<1>4. CASE Fail(t)
  BY <1>4, FailOwn
<1> QED BY <1>3, <1>4 DEF Start

LEMMA RegisterOwn ==
    ASSUME AloneInv, NEW t \in Requests, Register(t)
    PROVE  OwnInv(t)' /\ \E l \in States : pc' = [pc EXCEPT ![t] = l]
<1>1. DataTypeOK
  BY TypeParts DEF AloneInv
<1>2. /\ pc[t] = "register" /\ Advance(t)
      /\ UNCHANGED <<cont, current, manifest, cli>>
  BY DEF Register, Background
<1>3. current[t] \in Procs /\ \A p \in (manifest[t] \ todo[t]) : Runs(t, p)'
  BY <1>2, AtWork DEF Runs, Working
<1>4. \A p \in todo[t] : rows'[p] = rows[p]
  <2>1. rows' \in {rows, SetRunning(t, current[t])}
    BY DEF Register, Write
  <2>2. \A p \in todo[t] : p \in Procs /\ p # current[t]
    BY <1>2, AtWork DEF Working
  <2> QED BY <1>1, <1>3, <2>1, <2>2, OtherRows
<1>5. \A p \in todo[t] : Marked(p)'
  BY <1>2, <1>4, AtWork DEF Marked, Working
<1> QED BY <1>2, <1>3, <1>5, AdvanceOwn DEF Working

LEMMA RemoveOwn ==
    ASSUME AloneInv, NEW t \in Requests, Remove(t) \/ DeleteRow(t)
    PROVE  OwnInv(t)' /\ \E l \in States : pc' = [pc EXCEPT ![t] = l]
<1>1. TaskTypeOK /\ DataTypeOK /\ OwnInv(t)
  BY TypeParts DEF AloneInv
<1>2. pc[t] \in Cleaning /\ UNCHANGED <<manifest, cli>>
  BY DEF Remove, DeleteRow, Background, Cleaning
<1>3. /\ manifest[t] # {} /\ manifest[t] \subseteq Procs
      /\ todo[t] \cap manifest[t] = {} /\ todo[t] \subseteq Procs
      /\ \A p \in manifest[t] : Runs(t, p)
  BY <1>1, <1>2 DEF TaskTypeOK, OwnInv, LoopInv, RunInv, InFlight, Ended, Cleaning
<1>4. CASE Loop(t, "done", {})
  BY <1>4, DoneOwn
<1>5. ASSUME NEW p \in todo[t], Stop(p), current' = [current EXCEPT ![t] = p],
             Goto(t, "delete_row"), UNCHANGED todo
      PROVE  OwnInv(t)' /\ \E l \in States : pc' = [pc EXCEPT ![t] = l]
  <2>1. pc' = [pc EXCEPT ![t] = "delete_row"] /\ pc'[t] = "delete_row" /\ current'[t] = p
    BY <1>1, <1>5, GotoSets DEF TaskTypeOK
  <2>2. \A q \in Procs : q # p => cont'[q] = cont[q]
    BY <1>1, <1>5 DEF Stop, DataTypeOK
  <2>3. \A q \in manifest[t] : Runs(t, q)'
    BY <1>3, <2>2 DEF Runs
  <2>4. LoopInv(t)' /\ CliInv(t)' /\ MarkInv(t)'
    BY <1>2, <1>3, <1>5, <2>1
       DEF LoopInv, CliInv, MarkInv, Looping, Working, Cleaning, InHandler
  <2>5. RunInv(t)'
    BY <1>2, <2>1, <2>3 DEF RunInv, Looping, Working
  <2> QED BY <2>1, <2>4, <2>5 DEF OwnInv, States, InBackground
<1>6. ASSUME Loop(t, "remove", todo[t] \ {current[t]}), UNCHANGED cont
      PROVE  OwnInv(t)' /\ \E l \in States : pc' = [pc EXCEPT ![t] = l]
  <2>1. /\ pc' = [pc EXCEPT ![t] = "remove"] /\ pc'[t] = "remove"
        /\ todo'[t] = todo[t] \ {current[t]}
    BY <1>1, <1>6, LoopSets
  <2>2. LoopInv(t)' /\ CliInv(t)' /\ MarkInv(t)'
    BY <1>2, <1>3, <2>1 DEF LoopInv, CliInv, MarkInv, Looping, Working, Cleaning, InHandler
  <2>3. RunInv(t)'
    BY <1>2, <1>3, <1>6, <2>1 DEF RunInv, Runs, Looping, Working
  <2> QED BY <2>1, <2>2, <2>3 DEF OwnInv, States, InBackground
<1> QED BY <1>4, <1>5, <1>6 DEF Remove, DeleteRow

LEMMA TaskAlone ==
    ASSUME AloneInv, NEW t \in Requests, TaskStep(t) \/ Panic(t)
    PROVE  OneInFlight' /\ \A u \in Requests : OwnInv(u)'
<1>1. TaskTypeOK /\ OneInFlight /\ \A u \in Requests : OwnInv(u)
  BY TypeParts DEF AloneInv
<1>2. InFlight(t)
  BY DEF TaskStep, Pick, Build, StopWorker, Roll, Start, Register, Remove, DeleteRow, Panic,
         InBackground, InFlight, Ended
<1>3. UNCHANGED cli
  BY DEF TaskStep, Pick, Build, StopWorker, Roll, Start, Register, Remove, DeleteRow, Panic,
         Background
<1>4. OwnInv(t)' /\ \E l \in States : pc' = [pc EXCEPT ![t] = l]
  <2>1. CASE Panic(t)
    BY <2>1, DoneOwn DEF Panic
  <2>2. CASE TaskStep(t)
    BY <2>2, PickOwn, BuildOwn, StopWorkerOwn, RollOwn, StartOwn, RegisterOwn, RemoveOwn
       DEF TaskStep
  <2> QED BY <2>1, <2>2
<1> QED BY <1>1, <1>2, <1>3, <1>4, Alone

-----------------------------------------------------------------------------
(* The CLI, the server and the theorems                                     *)

\* Whatever the CLI reads while a process is marked, it waits on.
LEMMA PollAlone ==
    ASSUME AloneInv, NEW t \in Requests, Poll(t)
    PROVE  OneInFlight' /\ \A u \in Requests : OwnInv(u)'
<1>1. TaskTypeOK
  BY TypeParts DEF AloneInv
<1>2. /\ UNCHANGED <<pc, manifest, todo, ids, current, rows, cont>>
      /\ cli[t] = "waiting" /\ ~Has("building")
      /\ \A u \in Requests : u # t => cli'[u] = cli[u]
  BY <1>1 DEF Poll, dataVars, taskVars, TaskTypeOK, DerivedStatus
<1>3. OneInFlight'
  BY <1>2 DEF AloneInv, OneInFlight, InFlight
<1>4. ASSUME NEW u \in Requests
      PROVE  OwnInv(u)'
  <2>1. OwnInv(u)
    BY DEF AloneInv
  <2>2. LoopInv(u)' /\ RunInv(u)' /\ MarkInv(u)'
    BY <1>2, <2>1 DEF OwnInv, LoopInv, RunInv, MarkInv, Runs, Marked, InFlight
  <2>3. CASE u # t
    BY <1>2, <2>1, <2>2, <2>3 DEF OwnInv, CliInv
  <2>4. CASE u = t
    <3>1. pc[t] \notin InHandler \cup {"idle"}
      BY <1>2, <2>1, <2>4 DEF OwnInv, CliInv
    <3>2. \A p \in Procs : ~Marked(p)
      BY <1>2 DEF Has, Marked
    <3>3. pc[t] \notin Working
      BY <3>2, AtWork, <2>1, <2>4 DEF OwnInv, MarkInv
    <3>4. pc[t] # "pick"
      BY <1>1, <3>2, <2>1, <2>4 DEF OwnInv, MarkInv, LoopInv, Looping, TaskTypeOK
    <3>5. CliInv(t)'
      BY <1>2, <3>1, <3>3, <3>4 DEF CliInv, Looping
    <3> QED BY <2>2, <2>4, <3>5 DEF OwnInv
  <2> QED BY <2>3, <2>4
<1> QED BY <1>3, <1>4

LEMMA CrashAlone ==
    ASSUME AloneInv, ServerCrash
    PROVE  OneInFlight' /\ \A u \in Requests : OwnInv(u)'
<1>1. UNCHANGED <<manifest, cli>>
  BY DEF ServerCrash
<1>2. ASSUME NEW u \in Requests
      PROVE  pc'[u] \in Ended /\ (pc'[u] = "idle" => pc[u] = "idle")
  BY DEF ServerCrash, InFlight, Ended
<1>3. OneInFlight'
  BY <1>2 DEF OneInFlight, InFlight
<1>4. ASSUME NEW u \in Requests
      PROVE  OwnInv(u)'
  <2>1. /\ pc'[u] \notin Looping \cup Cleaning \cup InHandler
        /\ cli'[u] = cli[u] /\ CliInv(u)
    BY <1>1, <1>2 DEF AloneInv, OwnInv, Ended, Looping, Working, Cleaning, InHandler
  <2>2. LoopInv(u)' /\ RunInv(u)' /\ MarkInv(u)'
    BY <1>2, <2>1 DEF LoopInv, RunInv, MarkInv, InFlight, Looping, Working, Cleaning, InHandler
  <2>3. CliInv(u)'
    BY <1>2, <2>1 DEF CliInv
  <2> QED BY <2>2, <2>3 DEF OwnInv
<1> QED BY <1>3, <1>4

LEMMA AloneInit == Init => AloneInv
<1> SUFFICES ASSUME Init PROVE AloneInv
  OBVIOUS
<1>1. \A t \in Requests : pc[t] = "idle" /\ cli[t] = "none"
  BY DEF Init
<1>2. TypeOK /\ CurrentInv /\ OneInFlight
  BY <1>1, InitTyped DEF CurrentInv, OneInFlight, InFlight, Ended
<1>3. \A t \in Requests : OwnInv(t)
  BY <1>1 DEF OwnInv, LoopInv, RunInv, MarkInv, CliInv, InFlight, Ended, Looping, Working,
              Cleaning, InHandler
<1> QED BY <1>2, <1>3 DEF AloneInv

LEMMA AloneStep == ~Concurrent /\ AloneInv /\ [Next]_vars => AloneInv'
<1> SUFFICES ASSUME ~Concurrent, AloneInv, [Next]_vars
             PROVE  OneInFlight' /\ \A u \in Requests : OwnInv(u)'
  BY TypeStep DEF AloneInv
<1>1. ASSUME NEW t \in Requests, Deploy(t) \/ Update(t)
      PROVE  OneInFlight' /\ \A u \in Requests : OwnInv(u)'
  BY <1>1, ArriveOwn
<1>2. ASSUME NEW t \in Requests, HandlerStep(t)
      PROVE  OneInFlight' /\ \A u \in Requests : OwnInv(u)'
  BY <1>2, HandlerAlone
<1>3. ASSUME NEW t \in Requests, TaskStep(t) \/ Panic(t)
      PROVE  OneInFlight' /\ \A u \in Requests : OwnInv(u)'
  BY <1>3, TaskAlone
<1>4. ASSUME NEW t \in Requests, Poll(t)
      PROVE  OneInFlight' /\ \A u \in Requests : OwnInv(u)'
  BY <1>4, PollAlone
<1>5. CASE ServerCrash
  BY <1>5, CrashAlone
<1>6. CASE UNCHANGED vars
  <2>1. UNCHANGED <<pc, manifest, todo, ids, current, rows, cont, cli>>
    BY <1>6 DEF vars, dataVars, taskVars
  <2> QED BY <2>1 DEF AloneInv, OneInFlight, OwnInv, LoopInv, RunInv, MarkInv, CliInv, Runs,
                      Marked, InFlight
<1> QED BY <1>1, <1>2, <1>3, <1>4, <1>5, <1>6 DEF Next

\* While no request comes before the last one has ended, the processes that left
\* the manifest are stopped and deleted only when all that are in it run in a
\* container of this request, whichever calls fail and wherever the server dies.
THEOREM RemovedOnlyOnSuccessAlways == ~Concurrent => (Spec => []RemovedOnlyOnSuccess)
<1> SUFFICES ASSUME ~Concurrent PROVE Spec => []RemovedOnlyOnSuccess
  OBVIOUS
<1>1. AloneInv /\ [Next]_vars => AloneInv'
  BY AloneStep
<1>2. AloneInv => RemovedOnlyOnSuccess
  BY DEF AloneInv, OwnInv, RunInv, Runs, RemovedOnlyOnSuccess, Cleaning
<1> QED BY <1>1, <1>2, AloneInit, PTL DEF Spec

\* And no CLI takes the status of the version before for an answer about its own.
THEOREM NoEarlyAnswerAlways == ~Concurrent => (Spec => []NoEarlyAnswer)
<1> SUFFICES ASSUME ~Concurrent PROVE Spec => []NoEarlyAnswer
  OBVIOUS
<1>1. AloneInv /\ [Next]_vars => AloneInv'
  BY AloneStep
<1>2. AloneInv => NoEarlyAnswer
  BY DEF AloneInv, OwnInv, CliInv, NoEarlyAnswer, Looping, Working
<1> QED BY <1>1, <1>2, AloneInit, PTL DEF Spec

-----------------------------------------------------------------------------
(***************************************************************************)
(* Rest: what a deployment or an update leaves behind when no call fails   *)
(* and no server dies, rows that describe the containers.                  *)
(***************************************************************************)

Fine == faults = 0 /\ \A t \in Requests : ~Lost(t)

Excused(p) == \E u \in Requests : result[u] = "rolled_back" /\ current[u] = p

\* A row tells the truth, or is about to go.
Truthful(p) ==
    \/ rows[p].status # "running"
    \/ cont[p] = [by |-> rows[p].container, st |-> "running"]
    \/ Excused(p)
Stale(t, p) == \/ pc[t] \in {"stop_existing", "delete_rows"}
               \/ pc[t] = "delete_row" /\ current[t] = p

Settled(p) ==
    /\ cont[p].st # "none" => rows[p].id # "none"
    /\ Truthful(p) \/ \E t \in Requests : Stale(t, p)

RowInv  == \A p \in Procs : rows[p].id = "none" => rows[p].status = "absent"
FineInv == Fine => \A p \in Procs : Settled(p)

\* No row goes while its container is there.
StopInv(t) == Fine =>
    /\ pc[t] = "stop_existing" => \A p \in Procs : cont[p].st # "none" => p \in todo[t]
    /\ pc[t] = "delete_rows" => \A p \in Procs : cont[p].st = "none"
    /\ pc[t] = "delete_row" => cont[current[t]].st = "none"

\* What the request knows of the rows.
IdsInv(t) ==
    /\ result[t] = "rolled_back" => pc[t] \in {"done", "lost"}
    /\ pc[t] \in {"stop_existing", "delete_rows", "save", "create_rows"} => kind[t] = "deploy"
    /\ pc[t] = "delete_row" => kind[t] = "update" /\ current[t] \in todo[t]
    /\ kind[t] = "update" /\ pc[t] \in {"attach"} \cup Looping =>
         \A p \in Procs : ids[t][p] = rows[p].id
    /\ kind[t] = "update" /\ pc[t] \in Cleaning =>
         \A p \in todo[t] : ids[t][p] = rows[p].id /\ ids[t][p] # "none"

OwnRest(t) == StopInv(t) /\ IdsInv(t)

RestInv == AloneInv /\ RowInv /\ FineInv /\ \A t \in Requests : OwnRest(t)

-----------------------------------------------------------------------------
(* What a step of the request in flight leaves alone                        *)

Framed(t) ==
    /\ Fine' => Fine
    /\ \A q \in Procs : Excused(q) => Excused(q)'

LEMMA Moves ==
    ASSUME RestInv, NEW t \in Requests, InFlight(t),
           NEW l, pc' = [pc EXCEPT ![t] = l],
           \A u \in Requests \ {t} : result'[u] = result[u] /\ current'[u] = current[u],
           faults' = 0 => faults = 0
    PROVE  /\ Framed(t)
           /\ \A u \in Requests \ {t} : OwnRest(u)'
           /\ \A u \in Requests, q \in Procs : Stale(u, q) => u = t
<1>1. /\ TaskTypeOK /\ OneInFlight
      /\ \A u \in Requests : u # t => pc'[u] = pc[u] /\ pc[u] \in Ended
  BY TypeParts DEF RestInv, AloneInv, OneInFlight, InFlight, TaskTypeOK
<1>2. Fine' => Fine
  BY <1>1 DEF Fine, Lost, InFlight, Ended
<1>3. result[t] # "rolled_back"
  BY DEF RestInv, OwnRest, IdsInv, InFlight, Ended
<1>4. \A q \in Procs : Excused(q) => Excused(q)'
  BY <1>3 DEF Excused
<1>5. ASSUME NEW u \in Requests \ {t}
      PROVE  OwnRest(u)'
  <2>1. pc'[u] = pc[u] /\ pc[u] \in Ended /\ result'[u] = result[u] /\ IdsInv(u)
    BY <1>1 DEF RestInv, OwnRest
  <2> QED BY <2>1 DEF OwnRest, StopInv, IdsInv, Ended, Looping, Working, Cleaning
<1>6. \A u \in Requests, q \in Procs : Stale(u, q) => u = t
  BY <1>1 DEF Stale, Ended
<1> QED BY <1>2, <1>4, <1>5, <1>6 DEF Framed

\* A process whose container is untouched and whose row, if it is, no longer says
\* "running".
Quiet(q) ==
    /\ cont'[q] = cont[q] /\ rows'[q].id = rows[q].id
    /\ rows'[q] = rows[q] \/ rows'[q].status # "running"

LEMMA QuietFine ==
    ASSUME FineInv, NEW t \in Requests, Framed(t),
           \A u \in Requests, q \in Procs : ~Stale(u, q),
           \A q \in Procs : Fine' => Quiet(q) \/ Settled(q)'
    PROVE  FineInv'
<1> SUFFICES ASSUME Fine', NEW q \in Procs PROVE Settled(q)'
  BY DEF FineInv
<1>1. Settled(q) /\ (Excused(q) => Excused(q)') /\ Truthful(q)
  BY DEF FineInv, Framed, Settled
<1>2. CASE Quiet(q)
  <2>1. cont'[q].st # "none" => rows'[q].id # "none"
    BY <1>1, <1>2 DEF Settled, Quiet
  <2>2. Truthful(q)'
    <3>1. CASE rows'[q] = rows[q]
      BY <1>1, <1>2, <3>1 DEF Truthful, Quiet
    <3>2. CASE rows'[q].status # "running"
      BY <3>2 DEF Truthful
    <3> QED BY <1>2, <3>1, <3>2 DEF Quiet
  <2> QED BY <2>1, <2>2 DEF Settled
<1> QED BY <1>2

\* In a run without failures, a call does what it says.
LEMMA CallFine ==
    ASSUME DataTypeOK, NEW ok \in BOOLEAN, Call(ok), faults' = 0
    PROVE  ok /\ faults = 0
BY DeploymentAssumption DEF DataTypeOK, Call

LEMMA WriteFine ==
    ASSUME DataTypeOK, NEW after, NEW ok \in BOOLEAN, Write(after, ok), faults' = 0
    PROVE  ok /\ faults = 0 /\ rows' = after
BY CallFine DEF Write

LEMMA StopFine ==
    ASSUME DataTypeOK, NEW p, Stop(p), faults' = 0
    PROVE  faults = 0 /\ cont' = [cont EXCEPT ![p] = NoContainer]
<1>1. PICK ok \in BOOLEAN :
        /\ Call(ok)
        /\ cont' \in (IF ok THEN {} ELSE {cont}) \cup {[cont EXCEPT ![p] = NoContainer]}
  BY DEF Stop
<1>2. ok /\ faults = 0
  BY <1>1, CallFine
<1> QED BY <1>1, <1>2

\* Statements by id leave the ids as they are, and find no row that is not there.
LEMMA SetStatusFacts ==
    ASSUME DataTypeOK, NEW t \in Requests, NEW p \in Procs, NEW s
    PROVE  /\ \A q \in Procs : SetStatus(t, p, s)[q].id = rows[q].id
           /\ \A q \in Procs :
                \/ SetStatus(t, p, s)[q] = rows[q]
                \/ /\ q = p /\ rows[q].id # "none"
                   /\ SetStatus(t, p, s)[q].status = s
           /\ ids[t][p] = rows[p].id /\ ids[t][p] # "none" => SetStatus(t, p, s)[p].status = s
<1> DEFINE r == [rows[p] EXCEPT !.status = s]
<1>1. rows[p] \in Row
  BY DEF DataTypeOK
<1>2. r.id = rows[p].id /\ r.status = s
  BY <1>1 DEF Row
<1>3. SetStatus(t, p, s) = IF rows[p].id = ids[t][p] /\ ids[t][p] # "none"
                             THEN [rows EXCEPT ![p] = r] ELSE rows
  BY DEF SetStatus, ById
<1> HIDE DEF r
<1>4. CASE rows[p].id = ids[t][p] /\ ids[t][p] # "none"
  <2>1. SetStatus(t, p, s) = [rows EXCEPT ![p] = r]
    BY <1>3, <1>4
  <2>2. SetStatus(t, p, s)[p] = r /\ \A q \in Procs : q # p => SetStatus(t, p, s)[q] = rows[q]
    BY <2>1 DEF DataTypeOK
  <2>3. SetStatus(t, p, s)[p].id = rows[p].id
    BY <1>2, <2>2
  <2> QED BY <1>2, <1>4, <2>2, <2>3
<1>5. CASE ~(rows[p].id = ids[t][p] /\ ids[t][p] # "none")
  <2>1. SetStatus(t, p, s) = rows
    BY <1>3, <1>5
  <2> QED BY <1>5, <2>1
<1> QED BY <1>4, <1>5

LEMMA SetRunningFacts ==
    ASSUME DataTypeOK, NEW t \in Requests, NEW p \in Procs
    PROVE  /\ \A q \in Procs : SetRunning(t, p)[q].id = rows[q].id
           /\ \A q \in Procs :
                \/ SetRunning(t, p)[q] = rows[q]
                \/ /\ q = p /\ rows[q].id # "none"
                   /\ SetRunning(t, p)[q].container = t
<1> DEFINE r == [rows[p] EXCEPT !.status = "running", !.container = t]
<1>1. rows[p] \in Row
  BY DEF DataTypeOK
<1>2. r.id = rows[p].id /\ r.container = t
  BY <1>1 DEF Row
<1>3. SetRunning(t, p) = IF rows[p].id = ids[t][p] /\ ids[t][p] # "none"
                           THEN [rows EXCEPT ![p] = r] ELSE rows
  BY DEF SetRunning, ById
<1> HIDE DEF r
<1>4. CASE rows[p].id = ids[t][p] /\ ids[t][p] # "none"
  <2>1. SetRunning(t, p) = [rows EXCEPT ![p] = r]
    BY <1>3, <1>4
  <2>2. SetRunning(t, p)[p] = r /\ \A q \in Procs : q # p => SetRunning(t, p)[q] = rows[q]
    BY <2>1 DEF DataTypeOK
  <2>3. SetRunning(t, p)[p].id = rows[p].id
    BY <1>2, <2>2
  <2> QED BY <1>2, <1>4, <2>2, <2>3
<1>5. CASE ~(rows[p].id = ids[t][p] /\ ids[t][p] # "none")
  <2>1. SetRunning(t, p) = rows
    BY <1>3, <1>5
  <2> QED BY <1>5, <2>1
<1> QED BY <1>4, <1>5

LEMMA DeleteFacts ==
    ASSUME DataTypeOK, NEW t \in Requests, NEW p \in Procs
    PROVE  /\ ById(t, p, NoRow)[p] \in {rows[p], NoRow}
           /\ ids[t][p] = rows[p].id /\ ids[t][p] # "none" => ById(t, p, NoRow)[p] = NoRow
BY DEF DataTypeOK, ById

-----------------------------------------------------------------------------
(* The handlers                                                             *)

\* What every step below starts from.
LEMMA RestParts ==
    ASSUME RestInv, NEW t \in Requests
    PROVE  /\ AloneInv /\ TaskTypeOK /\ DataTypeOK /\ CurrentInv
           /\ RowInv /\ FineInv /\ OwnInv(t) /\ StopInv(t) /\ IdsInv(t)
BY TypeParts DEF RestInv, AloneInv, OwnRest

LEMMA ArriveRest ==
    ASSUME RestInv, ~Concurrent, NEW t \in Requests, Deploy(t) \/ Update(t)
    PROVE  RowInv' /\ FineInv' /\ \A u \in Requests : OwnRest(u)'
<1>1. TaskTypeOK /\ DataTypeOK /\ RowInv /\ FineInv
  BY RestParts
<1>2. pc[t] = "idle" /\ \A u \in Requests : pc[u] \in Ended
  BY DEF Deploy, Update, Free, InFlight
<1>3. PICK k \in {"deploy", "update"}, m \in (SUBSET Procs) \ {{}} :
         /\ Arrive(t, k, m)
         /\ k = "deploy" <=> Deploy(t)
  <2>1. pc[t] = "idle"
    BY <1>2
  <2>2. CASE Deploy(t)
    BY <2>2 DEF Deploy
  <2>3. CASE ~Deploy(t)
    BY <2>3 DEF Update
  <2> QED BY <2>2, <2>3
<1>4. /\ UNCHANGED <<rows, cont, faults, result, current>> /\ kind'[t] = k
      /\ \A p \in Procs : ids'[t][p] = rows[p].id
  BY <1>1, <1>3 DEF Arrive, Kept, dataVars, TaskTypeOK
<1> DEFINE existing == {p \in Procs : rows[p].id # "none"}
<1>5. PICK l \in {"save", "delete_rows", "stop_existing", "define_rows"},
           S \in SUBSET Procs :
         /\ Loop(t, l, S)
         /\ l = "define_rows" => k = "update"
         /\ l # "define_rows" => k = "deploy" /\ S = existing
         /\ l = "delete_rows" => existing = {}
  <2>1. CASE Deploy(t)
    <3>1. k = "deploy"
      BY <1>3, <2>1
    <3> DEFINE where == CASE ~app                 -> "save"
                          [] app /\ existing = {} -> "delete_rows"
                          [] app /\ existing # {} -> "stop_existing"
    <3>2. Loop(t, where, existing)
      BY <2>1 DEF Deploy
    <3>3. /\ where \in {"save", "delete_rows", "stop_existing"}
          /\ where = "delete_rows" => existing = {}
      BY <1>1 DEF DataTypeOK
    <3>4. existing \in SUBSET Procs
      OBVIOUS
    <3> HIDE DEF where, existing
    <3> QED BY <3>1, <3>2, <3>3, <3>4
  <2>2. CASE ~Deploy(t)
    <3>1. k = "update"
      BY <1>3, <2>2
    <3> QED BY <2>2, <3>1 DEF Update
  <2> QED BY <2>1, <2>2
<1>6. pc' = [pc EXCEPT ![t] = l] /\ pc'[t] = l /\ todo'[t] = S
  BY <1>1, <1>5, LoopSets
<1>7. \A u \in Requests : u # t => pc'[u] = pc[u]
  BY <1>1, <1>6 DEF TaskTypeOK
<1>8. Fine' => Fine
  BY <1>2, <1>4, <1>7 DEF Fine, Lost
<1>9. \A p \in Procs : /\ Truthful(p)' <=> Truthful(p)
                       /\ \A u \in Requests : ~Stale(u, p)
  BY <1>2, <1>4 DEF Truthful, Excused, Stale, Ended
<1>10. RowInv' /\ FineInv'
  BY <1>1, <1>4, <1>8, <1>9 DEF RowInv, FineInv, Settled
<1>11. ASSUME Fine' PROVE \A p \in Procs : cont[p].st # "none" => p \in existing
  BY <1>1, <1>8, <1>11 DEF FineInv, Settled
<1>12. result[t] # "rolled_back"
  BY <1>2, RestParts DEF IdsInv
<1>13. StopInv(t)'
  BY <1>4, <1>5, <1>6, <1>11 DEF StopInv
<1>14. IdsInv(t)'
  BY <1>4, <1>5, <1>6, <1>12 DEF IdsInv, Looping, Working, Cleaning
<1>15. ASSUME NEW u \in Requests, u # t PROVE OwnRest(u)'
  <2>1. pc'[u] = pc[u] /\ pc[u] \in Ended /\ result'[u] = result[u] /\ IdsInv(u)
    BY <1>2, <1>4, <1>7, <1>15, RestParts
  <2> QED BY <2>1 DEF OwnRest, StopInv, IdsInv, Ended, Looping, Working, Cleaning
<1> QED BY <1>10, <1>13, <1>14, <1>15 DEF OwnRest

\* The steps of the handlers and of the tasks begin alike.
LEMMA HandlerMoves ==
    ASSUME RestInv, NEW t \in Requests, HandlerStep(t)
    PROVE  /\ Framed(t)
           /\ \A u \in Requests \ {t} : OwnRest(u)'
           /\ \A u \in Requests, q \in Procs : Stale(u, q) => u = t
           /\ result[t] # "rolled_back" /\ UNCHANGED <<kind, manifest, result, current>>
<1>1. TaskTypeOK /\ DataTypeOK /\ IdsInv(t) /\ AloneInv
  BY RestParts
<1>2. InFlight(t)
  BY DEF HandlerStep, StopExisting, DeleteRows, Save, CreateRows, DefineRows, Attach, InFlight,
         Ended
<1>3. UNCHANGED <<kind, manifest, result, current>>
  BY DEF HandlerStep, StopExisting, DeleteRows, Save, CreateRows, CreateRow, DefineRows, Attach
<1>4. faults' = 0 => faults = 0
  <2>1. ASSUME NEW p, Stop(p) PROVE faults' = 0 => faults = 0
    BY <1>1, <2>1, StopFine
  <2>2. ASSUME NEW after, NEW ok \in BOOLEAN, Write(after, ok) PROVE faults' = 0 => faults = 0
    BY <1>1, <2>2, WriteFine
  <2>3. ASSUME NEW p, NEW loop, CreateRow(t, p, loop) PROVE faults' = 0 => faults = 0
    BY <2>2, <2>3 DEF CreateRow
  <2>4. CASE StopExisting(t)
    BY <2>1, <2>4 DEF StopExisting
  <2>5. CASE DeleteRows(t)
    BY <2>2, <2>5 DEF DeleteRows
  <2>6. CASE Save(t)
    BY <1>1, <2>6, CallFine DEF Save
  <2>7. CASE CreateRows(t)
    BY <2>3, <2>7 DEF CreateRows
  <2>8. CASE DefineRows(t)
    BY <2>2, <2>3, <2>8 DEF DefineRows
  <2>9. CASE Attach(t)
    <3>1. CASE UNCHANGED faults
      BY <3>1
    <3>2. ASSUME NEW missed \in SUBSET manifest[t], faults' = faults + Cardinality(missed)
          PROVE  faults' = 0 => faults = 0
      <4>1. Cardinality(missed) \in Nat
        BY <1>1, DeploymentAssumption, FS_Subset, FS_CardinalityType DEF TaskTypeOK
      <4> QED BY <1>1, <3>2, <4>1, DeploymentAssumption DEF DataTypeOK
    <3> QED BY <2>9, <3>1, <3>2 DEF Attach
  <2> QED BY <2>4, <2>5, <2>6, <2>7, <2>8, <2>9 DEF HandlerStep
<1>5. PICK l \in States : pc' = [pc EXCEPT ![t] = l]
  BY <1>1, HandlerOwn
<1>6. result[t] # "rolled_back"
  BY <1>1, <1>2 DEF IdsInv, InFlight, Ended
<1> QED BY <1>2, <1>3, <1>4, <1>5, <1>6, Moves

LEMMA StopExistingRest ==
    ASSUME RestInv, NEW t \in Requests, StopExisting(t)
    PROVE  RowInv' /\ FineInv' /\ OwnRest(t)'
<1>1. TaskTypeOK /\ DataTypeOK /\ RowInv /\ FineInv /\ StopInv(t) /\ IdsInv(t)
  BY RestParts
<1>2. Framed(t) /\ result'[t] # "rolled_back" /\ kind'[t] = kind[t]
  BY HandlerMoves DEF HandlerStep
<1>3. PICK p \in todo[t] : Stop(p) /\ Visited(t, p, "stop_existing", "delete_rows", {})
  BY DEF StopExisting
<1>4. pc[t] = "stop_existing" /\ kind[t] = "deploy" /\ UNCHANGED rows
  BY <1>1 DEF StopExisting, IdsInv
<1>5. \/ pc'[t] = "delete_rows" /\ todo[t] = {p}
      \/ pc'[t] = "stop_existing" /\ todo'[t] = todo[t] \ {p}
  BY <1>1, <1>3, LoopSets DEF Visited
<1>6. RowInv'
  BY <1>1, <1>4 DEF RowInv
<1>7. ASSUME Fine'
      PROVE  \A q \in Procs : /\ cont'[q].st # "none" => cont[q].st # "none" /\ q # p
                              /\ cont[q].st # "none" => rows[q].id # "none"
                              /\ cont[q].st # "none" => q \in todo[t]
  <2>1. cont' = [cont EXCEPT ![p] = NoContainer]
    BY <1>1, <1>3, <1>7, StopFine DEF Fine
  <2>2. Fine
    BY <1>2, <1>7 DEF Framed
  <2> QED BY <1>1, <1>4, <2>1, <2>2 DEF DataTypeOK, FineInv, Settled, StopInv, NoContainer
<1>8. FineInv'
  BY <1>4, <1>5, <1>7 DEF FineInv, Settled, Stale
<1>9. StopInv(t)'
  BY <1>5, <1>7 DEF StopInv
<1>10. IdsInv(t)'
  BY <1>2, <1>4, <1>5 DEF IdsInv, Looping, Working, Cleaning
<1> QED BY <1>6, <1>8, <1>9, <1>10 DEF OwnRest

LEMMA DeleteRowsRest ==
    ASSUME RestInv, NEW t \in Requests, DeleteRows(t)
    PROVE  RowInv' /\ FineInv' /\ OwnRest(t)'
<1>1. TaskTypeOK /\ DataTypeOK /\ RowInv /\ FineInv /\ StopInv(t) /\ IdsInv(t)
  BY RestParts
<1>2. Framed(t) /\ result'[t] # "rolled_back" /\ kind'[t] = kind[t]
  BY HandlerMoves DEF HandlerStep
<1> DEFINE empty == [p \in Procs |-> NoRow]
<1>3. PICK ok \in BOOLEAN : Write(empty, ok) /\ Loop(t, IF ok THEN "save" ELSE "done", {})
  BY DEF DeleteRows
<1>4. pc[t] = "delete_rows" /\ kind[t] = "deploy" /\ UNCHANGED cont
  BY <1>1 DEF DeleteRows, IdsInv
<1>5. pc'[t] \in {"save", "done"}
  BY <1>1, <1>3, LoopSets
<1>6. RowInv'
  <2>1. rows' \in {rows, empty}
    BY <1>3 DEF Write
  <2> QED BY <1>1, <2>1 DEF RowInv, NoRow
<1>7. FineInv'
  <2> SUFFICES ASSUME Fine', NEW q \in Procs PROVE Settled(q)'
    BY DEF FineInv
  <2>1. rows' = empty
    BY <1>1, <1>3, WriteFine DEF Fine
  <2>2. cont'[q].st = "none" /\ rows'[q].status # "running"
    BY <1>1, <1>2, <1>4, <2>1 DEF Framed, StopInv, NoRow
  <2> QED BY <2>2 DEF Settled, Truthful
<1>8. OwnRest(t)'
  BY <1>2, <1>4, <1>5 DEF OwnRest, StopInv, IdsInv, Looping, Working, Cleaning
<1> QED BY <1>6, <1>7, <1>8

LEMMA RowsKept ==
    ASSUME RowInv,
           \A q \in Procs : rows'[q] = rows[q] \/ rows'[q].id # "none"
    PROVE  RowInv'
BY DEF RowInv

\* A write of a status by id, other than "running", is quiet.
LEMMA StatusQuiet ==
    ASSUME DataTypeOK, RowInv, NEW t \in Requests, NEW p \in Procs, NEW s \in {"building", "failed"},
           NEW ok \in BOOLEAN, Write(SetStatus(t, p, s), ok), UNCHANGED cont
    PROVE  /\ \A q \in Procs : Quiet(q)
           /\ \A q \in Procs : rows'[q].id = rows[q].id
           /\ RowInv'
<1>1. rows' \in {rows, SetStatus(t, p, s)}
  BY DEF Write
<1>2. \A q \in Procs : /\ rows'[q].id = rows[q].id
                       /\ rows'[q] = rows[q]
                            \/ (rows[q].id # "none" /\ rows'[q].status = s)
  BY <1>1, SetStatusFacts
<1>3. \A q \in Procs : Quiet(q)
  BY <1>2 DEF Quiet
<1> QED BY <1>2, <1>3, RowsKept

LEMMA SaveRest ==
    ASSUME RestInv, NEW t \in Requests, Save(t)
    PROVE  RowInv' /\ FineInv' /\ OwnRest(t)'
<1>1. TaskTypeOK /\ RowInv /\ FineInv /\ IdsInv(t)
  BY RestParts
<1>2. /\ Framed(t) /\ result'[t] # "rolled_back" /\ kind'[t] = kind[t]
      /\ \A u \in Requests, q \in Procs : Stale(u, q) => u = t
  BY HandlerMoves DEF HandlerStep
<1>3. pc[t] = "save" /\ kind[t] = "deploy" /\ UNCHANGED <<rows, cont>>
  BY <1>1 DEF Save, IdsInv
<1>4. pc'[t] \in {"create_rows", "done"}
  BY <1>1, LoopSets DEF Save
<1>5. \A u \in Requests, q \in Procs : ~Stale(u, q)
  BY <1>2, <1>3 DEF Stale
<1>6. RowInv' /\ FineInv'
  BY <1>1, <1>2, <1>3, <1>5, QuietFine DEF Quiet, RowInv
<1>7. OwnRest(t)'
  BY <1>2, <1>3, <1>4 DEF OwnRest, StopInv, IdsInv, Looping, Working, Cleaning
<1> QED BY <1>6, <1>7

LEMMA CreateRowRest ==
    ASSUME RestInv, NEW t \in Requests, HandlerStep(t), NEW p \in todo[t],
           NEW loop \in {"create_rows", "define_rows"}, pc[t] = loop, CreateRow(t, p, loop)
    PROVE  RowInv' /\ FineInv' /\ OwnRest(t)'
<1>1. TaskTypeOK /\ DataTypeOK /\ RowInv /\ FineInv /\ IdsInv(t) /\ OwnInv(t)
  BY RestParts
<1>2. /\ Framed(t) /\ result'[t] # "rolled_back" /\ kind'[t] = kind[t]
      /\ \A u \in Requests, q \in Procs : Stale(u, q) => u = t
  BY HandlerMoves
<1> DEFINE new == [id |-> t, status |-> "building", container |-> "none"]
<1>3. /\ p \in Procs /\ UNCHANGED cont
      /\ ids'[t][p] = t /\ \A q \in Procs : q # p => ids'[t][q] = ids[t][q]
  BY <1>1 DEF CreateRow, TaskTypeOK
<1>4. rows' = rows \/ rows' = [rows EXCEPT ![p] = new]
  BY DEF CreateRow, Write
<1>5. \A q \in Procs : \/ rows'[q] = rows[q]
                       \/ q = p /\ rows'[q].id = t /\ rows'[q].status = "building"
  BY <1>1, <1>3, <1>4 DEF DataTypeOK
<1>6. RowInv'
  BY <1>1, <1>5, RowsKept, DeploymentAssumption
<1>7. \A u \in Requests, q \in Procs : ~Stale(u, q)
  BY <1>2 DEF Stale
<1>8. \A q \in Procs : Quiet(q) \/ Settled(q)'
  BY <1>3, <1>5, DeploymentAssumption DEF Quiet, Settled, Truthful
<1>9. FineInv'
  BY <1>1, <1>2, <1>7, <1>8, QuietFine
<1>10. \/ pc'[t] = "done"
       \/ /\ pc'[t] \in {loop, "attach"} /\ rows'[p].id = t
          /\ \A q \in Procs : q # p => rows'[q] = rows[q]
  <2>1. CASE rows[p].id # "none"
    BY <1>1, <2>1, LoopSets DEF CreateRow
  <2>2. CASE rows[p].id = "none"
    <3>1. PICK ok \in BOOLEAN :
            /\ Write([rows EXCEPT ![p] = new], ok)
            /\ IF ok THEN Visited(t, p, loop, "attach", {}) ELSE Loop(t, "done", {})
      BY <2>2 DEF CreateRow
    <3>2. CASE ~ok
      BY <1>1, <3>1, <3>2, LoopSets
    <3>3. CASE ok
      <4>1. rows' = [rows EXCEPT ![p] = new]
        BY <3>1, <3>3 DEF Write
      <4>2. pc'[t] \in {loop, "attach"}
        BY <1>1, <3>1, <3>3, LoopSets DEF Visited
      <4> QED BY <1>1, <1>3, <4>1, <4>2 DEF DataTypeOK
    <3> QED BY <3>2, <3>3
  <2> QED BY <2>1, <2>2
<1>11. StopInv(t)'
  BY <1>10 DEF StopInv
<1>12. IdsInv(t)'
  <2>1. pc'[t] = "attach" /\ kind[t] = "update" => \A q \in Procs : ids'[t][q] = rows'[q].id
    <3>1. kind[t] = "update" => loop = "define_rows"
      BY <1>1 DEF IdsInv
    <3> QED BY <1>1, <1>3, <1>10, <3>1 DEF OwnInv, MarkInv
  <2> QED BY <1>1, <1>2, <1>10, <2>1 DEF IdsInv, Looping, Working, Cleaning
<1> QED BY <1>6, <1>9, <1>11, <1>12 DEF OwnRest

LEMMA DefineRowsRest ==
    ASSUME RestInv, NEW t \in Requests, DefineRows(t)
    PROVE  RowInv' /\ FineInv' /\ OwnRest(t)'
<1>1. TaskTypeOK /\ DataTypeOK /\ RowInv /\ FineInv /\ IdsInv(t) /\ OwnInv(t)
  BY RestParts
<1>2. /\ Framed(t) /\ result'[t] # "rolled_back" /\ kind'[t] = kind[t]
      /\ \A u \in Requests, q \in Procs : Stale(u, q) => u = t
  BY HandlerMoves DEF HandlerStep
<1>3. pc[t] = "define_rows" /\ HandlerStep(t) /\ todo[t] \subseteq Procs
  BY <1>1 DEF DefineRows, HandlerStep, TaskTypeOK
<1>4. CASE \E p \in todo[t] : CreateRow(t, p, "define_rows")
  BY <1>3, <1>4, CreateRowRest
<1>5. CASE \E p \in todo[t], ok \in BOOLEAN :
             /\ Write(SetStatus(t, p, "building"), ok)
             /\ IF ok THEN Visited(t, p, "define_rows", "attach", {}) ELSE Loop(t, "done", {})
             /\ UNCHANGED <<app, cont, kind, manifest, ids, current, result, cli>>
  <2>1. PICK p \in todo[t], ok \in BOOLEAN :
             /\ Write(SetStatus(t, p, "building"), ok)
             /\ IF ok THEN Visited(t, p, "define_rows", "attach", {}) ELSE Loop(t, "done", {})
             /\ UNCHANGED <<cont, ids>>
    BY <1>5
  <2>2. /\ \A q \in Procs : Quiet(q)
        /\ \A q \in Procs : rows'[q].id = rows[q].id
        /\ RowInv'
    BY <1>1, <1>3, <2>1, StatusQuiet
  <2>3. \A u \in Requests, q \in Procs : ~Stale(u, q)
    BY <1>2, <1>3 DEF Stale
  <2>4. FineInv'
    BY <1>1, <1>2, <2>2, <2>3, QuietFine
  <2>5. pc'[t] \in {"define_rows", "attach", "done"}
    BY <1>1, <2>1, LoopSets DEF Visited
  <2>6. OwnRest(t)'
    BY <1>1, <1>2, <1>3, <2>1, <2>2, <2>5
       DEF OwnRest, StopInv, IdsInv, OwnInv, MarkInv, Looping, Working, Cleaning
  <2> QED BY <2>2, <2>4, <2>6
<1> QED BY <1>4, <1>5 DEF DefineRows

LEMMA AttachRest ==
    ASSUME RestInv, NEW t \in Requests, Attach(t)
    PROVE  RowInv' /\ FineInv' /\ OwnRest(t)'
<1>1. TaskTypeOK /\ DataTypeOK /\ RowInv /\ FineInv /\ IdsInv(t)
  BY RestParts
<1>2. /\ Framed(t) /\ result'[t] # "rolled_back" /\ kind'[t] = kind[t]
      /\ \A u \in Requests, q \in Procs : Stale(u, q) => u = t
  BY HandlerMoves DEF HandlerStep
<1>3. pc[t] = "attach" /\ UNCHANGED <<cont, ids>>
  BY DEF Attach
<1>4. \A q \in Procs : /\ rows'[q].id = rows[q].id
                       /\ \/ rows'[q] = rows[q]
                          \/ rows[q].id # "none" /\ rows'[q].status = "failed"
  <2>1. CASE UNCHANGED rows
    BY <2>1
  <2>2. ASSUME NEW missed,
               rows' = [p \in Procs |-> IF p \in manifest[t] \ missed
                                          THEN SetStatus(t, p, "failed")[p]
                                          ELSE rows[p]]
        PROVE  \A q \in Procs : /\ rows'[q].id = rows[q].id
                       /\ \/ rows'[q] = rows[q]
                          \/ rows[q].id # "none" /\ rows'[q].status = "failed"
    BY <1>1, <2>2, SetStatusFacts
  <2> QED BY <2>1, <2>2 DEF Attach
<1>5. RowInv' /\ \A q \in Procs : Quiet(q)
  BY <1>1, <1>3, <1>4, RowsKept DEF Quiet
<1>6. \A u \in Requests, q \in Procs : ~Stale(u, q)
  BY <1>2, <1>3 DEF Stale
<1>7. FineInv'
  BY <1>1, <1>2, <1>5, <1>6, QuietFine
<1>8. pc'[t] \in {"pick", "done"}
  BY <1>1, LoopSets DEF Attach
<1>9. OwnRest(t)'
  BY <1>1, <1>2, <1>3, <1>4, <1>8 DEF OwnRest, StopInv, IdsInv, Looping, Working, Cleaning
<1> QED BY <1>5, <1>7, <1>9

LEMMA HandlerRest ==
    ASSUME RestInv, NEW t \in Requests, HandlerStep(t)
    PROVE  RowInv' /\ FineInv' /\ \A u \in Requests : OwnRest(u)'
<1>1. RowInv' /\ FineInv' /\ OwnRest(t)'
  <2>1. CASE CreateRows(t)
    BY <2>1, CreateRowRest DEF CreateRows
  <2> QED BY <2>1, StopExistingRest, DeleteRowsRest, SaveRest, DefineRowsRest, AttachRest
          DEF HandlerStep
<1> QED BY <1>1, HandlerMoves

-----------------------------------------------------------------------------
(* The background task                                                      *)

LEMMA TaskMoves ==
    ASSUME RestInv, NEW t \in Requests, TaskStep(t) \/ Panic(t)
    PROVE  /\ Framed(t)
           /\ \A u \in Requests \ {t} : OwnRest(u)'
           /\ \A u \in Requests, q \in Procs : Stale(u, q) => u = t
           /\ result[t] # "rolled_back" /\ UNCHANGED <<kind, manifest, ids>>
<1>1. TaskTypeOK /\ DataTypeOK /\ IdsInv(t) /\ AloneInv
  BY RestParts
<1>2. InFlight(t)
  BY DEF TaskStep, Pick, Build, StopWorker, Roll, Start, Register, Remove, DeleteRow, Panic,
         InBackground, InFlight, Ended
<1>3. UNCHANGED <<kind, manifest, ids>>
  BY DEF TaskStep, Pick, Build, StopWorker, Roll, Start, Register, Remove, DeleteRow, Panic,
         Background
<1>4. \A u \in Requests \ {t} : result'[u] = result[u] /\ current'[u] = current[u]
  BY <1>1 DEF TaskStep, Pick, Build, StopWorker, Roll, Start, Register, Remove, DeleteRow,
              Panic, Fail, Break, Advance, TaskTypeOK
<1>5. faults' = 0 => faults = 0
  <2>1. ASSUME NEW p, Stop(p) PROVE faults' = 0 => faults = 0
    BY <1>1, <2>1, StopFine
  <2>2. ASSUME NEW after, NEW ok \in BOOLEAN, Write(after, ok) PROVE faults' = 0 => faults = 0
    BY <1>1, <2>2, WriteFine
  <2>3. CASE Panic(t) \/ Pick(t)
    BY <2>3 DEF Panic, Pick
  <2>4. CASE Build(t) \/ Start(t)
    BY <2>2, <2>4 DEF Build, Start, Fail
  <2>5. CASE StopWorker(t) \/ Remove(t)
    BY <2>1, <2>5 DEF StopWorker, Remove
  <2>6. CASE Roll(t)
    BY <2>2, <2>6 DEF Roll, Fail
  <2>7. CASE Register(t) \/ DeleteRow(t)
    BY <2>2, <2>7 DEF Register, DeleteRow
  <2> QED BY <2>3, <2>4, <2>5, <2>6, <2>7 DEF TaskStep
<1>6. PICK l \in States : pc' = [pc EXCEPT ![t] = l]
  <2>1. CASE Panic(t)
    BY <1>1, <2>1, DoneOwn DEF Panic
  <2>2. CASE TaskStep(t)
    BY <1>1, <2>2, PickOwn, BuildOwn, StopWorkerOwn, RollOwn, StartOwn, RegisterOwn, RemoveOwn
       DEF TaskStep
  <2> QED BY <2>1, <2>2
<1>7. result[t] # "rolled_back"
  BY <1>1, <1>2 DEF IdsInv, InFlight, Ended
<1> QED BY <1>2, <1>3, <1>4, <1>5, <1>6, <1>7, Moves

\* While the processes are worked on, the rows keep their ids; the list of those to
\* remove begins with rows that are there.
LEMMA LoopRest ==
    ASSUME RestInv, NEW t \in Requests, pc[t] \in Looping, UNCHANGED <<kind, ids>>,
           \A q \in Procs : rows'[q].id = rows[q].id,
           result'[t] = "rolled_back" => pc'[t] = "done",
           \/ pc'[t] \in Looping \cup {"done"}
           \/ pc'[t] = "remove" /\ todo'[t] = Listed(t) \ manifest[t]
    PROVE  OwnRest(t)'
<1>1. IdsInv(t)
  BY RestParts
<1>2. kind[t] = "update" => \A q \in Procs : ids'[t][q] = rows'[q].id
  BY <1>1 DEF IdsInv
<1>3. pc'[t] = "remove" => \A q \in todo'[t] : q \in Procs /\ ids'[t][q] # "none"
  BY DEF Listed, Looping, Working
<1>4. StopInv(t)'
  BY DEF StopInv, Looping, Working
<1>5. IdsInv(t)'
  BY <1>2, <1>3 DEF IdsInv, Looping, Working, Cleaning
<1> QED BY <1>4, <1>5 DEF OwnRest

\* Where the steps of the loop start from: the process at work is marked.
LEMMA WorkParts ==
    ASSUME RestInv, NEW t \in Requests, pc[t] \in Looping
    PROVE  /\ TaskTypeOK /\ DataTypeOK /\ RowInv /\ FineInv
           /\ \A u \in Requests, q \in Procs : Stale(u, q) => u # t
           /\ pc[t] \in Working => /\ current[t] \in Procs
                                   /\ rows[current[t]].status = "building"
                                   /\ rows[current[t]].id # "none"
<1>1. TaskTypeOK /\ DataTypeOK /\ RowInv /\ FineInv /\ OwnInv(t) /\ AloneInv
  BY RestParts
<1>2. \A u \in Requests, q \in Procs : Stale(u, q) => u # t
  BY DEF Stale, Looping, Working
<1>3. pc[t] \in Working => /\ current[t] \in Procs
                           /\ rows[current[t]].status = "building"
  BY <1>1, AtWork DEF OwnInv, MarkInv, Marked
<1> QED BY <1>1, <1>2, <1>3 DEF RowInv

\* A process that failed is marked so, whatever became of its container.
LEMMA FailRest ==
    ASSUME RestInv, NEW t \in Requests, TaskStep(t), pc[t] \in Working, Fail(t),
           \A q \in Procs : q # current[t] => cont'[q] = cont[q]
    PROVE  RowInv' /\ FineInv' /\ OwnRest(t)'
<1>1. /\ TaskTypeOK /\ DataTypeOK /\ RowInv /\ FineInv
      /\ current[t] \in Procs /\ rows[current[t]].status = "building"
      /\ rows[current[t]].id # "none"
      /\ \A u \in Requests, q \in Procs : ~Stale(u, q)
  BY WorkParts, TaskMoves DEF Looping
<1>2. rows' \in {rows, SetStatus(t, current[t], "failed")}
  BY DEF Fail, Write
<1>3. \A q \in Procs :
        /\ rows'[q].id = rows[q].id
        /\ \/ rows'[q] = rows[q]
           \/ q = current[t] /\ rows'[q].status = "failed"
  BY <1>1, <1>2, SetStatusFacts
<1>4. RowInv'
  BY <1>1, <1>3, RowsKept
<1>5. \A q \in Procs : Quiet(q) \/ Settled(q)'
  <2> SUFFICES ASSUME NEW q \in Procs PROVE Quiet(q) \/ Settled(q)'
    OBVIOUS
  <2>1. CASE q # current[t]
    BY <1>3, <2>1 DEF Quiet
  <2>2. CASE q = current[t]
    BY <1>1, <1>3, <2>2 DEF Settled, Truthful
  <2> QED BY <2>1, <2>2
<1>6. FineInv'
  BY <1>1, <1>5, TaskMoves, QuietFine
<1>7. pc'[t] = "done"
  BY <1>1, GotoSets DEF Fail, Break
<1>8. OwnRest(t)'
  BY <1>3, <1>7, TaskMoves, LoopRest DEF Looping
<1> QED BY <1>4, <1>6, <1>8

LEMMA AdvanceTo ==
    ASSUME TaskTypeOK, NEW t \in Requests, Advance(t)
    PROVE  /\ \/ pc'[t] = "pick"
              \/ pc'[t] = "remove" /\ todo'[t] = Listed(t) \ manifest[t]
           /\ result'[t] \in {result[t], "ok"}
BY LoopSets, GotoSets DEF Advance, TaskTypeOK

LEMMA PickRest ==
    ASSUME RestInv, NEW t \in Requests, Pick(t) \/ (Build(t) /\ ~Fail(t))
    PROVE  RowInv' /\ FineInv' /\ OwnRest(t)'
<1>1. TaskStep(t) /\ pc[t] \in Looping /\ UNCHANGED <<rows, cont, result>>
  BY DEF TaskStep, Pick, Build, Looping, Working
<1>2. /\ TaskTypeOK /\ RowInv /\ FineInv
      /\ \A u \in Requests, q \in Procs : ~Stale(u, q)
  BY <1>1, WorkParts, TaskMoves
<1>3. RowInv' /\ FineInv'
  BY <1>1, <1>2, TaskMoves, QuietFine, RowsKept DEF Quiet
<1>4. pc'[t] \in Looping
  BY <1>2, LoopSets, GotoSets DEF Pick, Build, Looping, Working
<1>5. OwnRest(t)'
  BY <1>1, <1>4, TaskMoves, LoopRest
<1> QED BY <1>3, <1>5

LEMMA StopWorkerRest ==
    ASSUME RestInv, NEW t \in Requests, StopWorker(t)
    PROVE  RowInv' /\ FineInv' /\ OwnRest(t)'
<1>1. /\ TaskStep(t) /\ pc[t] \in Looping /\ pc[t] \in Working /\ UNCHANGED <<rows, result>>
      /\ Stop(current[t]) /\ Goto(t, "start")
  BY DEF TaskStep, StopWorker, Looping, Working
<1>2. /\ TaskTypeOK /\ DataTypeOK /\ RowInv /\ FineInv
      /\ current[t] \in Procs /\ rows[current[t]].status = "building"
      /\ rows[current[t]].id # "none"
      /\ \A u \in Requests, q \in Procs : ~Stale(u, q)
  BY <1>1, WorkParts, TaskMoves
<1>3. \A q \in Procs : q # current[t] => cont'[q] = cont[q]
  BY <1>1, <1>2 DEF Stop, DataTypeOK
<1>4. \A q \in Procs : Quiet(q) \/ Settled(q)'
  BY <1>1, <1>2, <1>3 DEF Quiet, Settled, Truthful
<1>5. RowInv' /\ FineInv'
  BY <1>1, <1>2, <1>4, TaskMoves, QuietFine, RowsKept
<1>6. pc'[t] \in Looping
  BY <1>1, <1>2, GotoSets DEF Looping, Working
<1>7. OwnRest(t)'
  BY <1>1, <1>6, TaskMoves, LoopRest
<1> QED BY <1>5, <1>7

\* The new container runs, and its row names it.
LEMMA RunningRest ==
    ASSUME RestInv, NEW t \in Requests, TaskStep(t), pc[t] \in Working, Advance(t),
           rows' \in {rows, SetRunning(t, current[t])},
           \A q \in Procs : q # current[t] => cont'[q] = cont[q],
           cont'[current[t]] = [by |-> t, st |-> "running"]
    PROVE  RowInv' /\ FineInv' /\ OwnRest(t)'
<1>1. /\ TaskTypeOK /\ DataTypeOK /\ RowInv /\ FineInv
      /\ current[t] \in Procs /\ rows[current[t]].status = "building"
      /\ rows[current[t]].id # "none"
      /\ \A u \in Requests, q \in Procs : ~Stale(u, q)
  BY WorkParts, TaskMoves DEF Looping
<1>2. \A q \in Procs :
        /\ rows'[q].id = rows[q].id
        /\ \/ rows'[q] = rows[q]
           \/ q = current[t] /\ rows'[q].container = t
  BY <1>1, SetRunningFacts
<1>3. RowInv'
  BY <1>1, <1>2, RowsKept
<1>4. \A q \in Procs : Quiet(q) \/ Settled(q)'
  <2> SUFFICES ASSUME NEW q \in Procs PROVE Quiet(q) \/ Settled(q)'
    OBVIOUS
  <2>1. CASE q # current[t]
    BY <1>2, <2>1 DEF Quiet
  <2>2. CASE q = current[t]
    BY <1>1, <1>2, <2>2 DEF Settled, Truthful
  <2> QED BY <2>1, <2>2
<1>5. FineInv'
  BY <1>1, <1>4, TaskMoves, QuietFine
<1>6. OwnRest(t)'
  BY <1>1, <1>2, AdvanceTo, TaskMoves, LoopRest DEF Looping
<1> QED BY <1>3, <1>5, <1>6

LEMMA RollRest ==
    ASSUME RestInv, NEW t \in Requests, Roll(t)
    PROVE  RowInv' /\ FineInv' /\ OwnRest(t)'
<1>1. TaskStep(t) /\ pc[t] \in Working /\ pc[t] \in Looping /\ UNCHANGED current
  BY DEF TaskStep, Roll, Looping, Working
<1>2. /\ TaskTypeOK /\ DataTypeOK /\ RowInv /\ FineInv
      /\ current[t] \in Procs /\ rows[current[t]].status = "building"
      /\ rows[current[t]].id # "none"
      /\ \A u \in Requests, q \in Procs : ~Stale(u, q)
  BY <1>1, WorkParts, TaskMoves
<1>3. CASE /\ cont' = Made(t, "running")
           /\ rows' = SetRunning(t, current[t])
           /\ Advance(t)
  <2>1. /\ cont'[current[t]] = [by |-> t, st |-> "running"]
        /\ \A q \in Procs : q # current[t] => cont'[q] = cont[q]
    BY <1>2, <1>3 DEF Made, DataTypeOK
  <2> QED BY <1>1, <1>3, <2>1, RunningRest
<1>4. CASE /\ \E ok \in BOOLEAN : Write(SetStatus(t, current[t], "running"), ok)
           /\ Break(t, "rolled_back")
           /\ UNCHANGED cont
  <2>1. rows' \in {rows, SetStatus(t, current[t], "running")}
    BY <1>4 DEF Write
  <2>2. \A q \in Procs :
          rows'[q].id = rows[q].id /\ (rows'[q] = rows[q] \/ q = current[t])
    BY <1>2, <2>1, SetStatusFacts
  <2>3. RowInv'
    BY <1>2, <2>2, RowsKept
  <2>4. result'[t] = "rolled_back" /\ pc'[t] = "done"
    BY <1>2, <1>4, GotoSets DEF Break, TaskTypeOK
  <2>5. Excused(current[t])'
    BY <1>1, <2>4 DEF Excused
  <2>6. \A q \in Procs : Quiet(q) \/ Settled(q)'
    <3> SUFFICES ASSUME NEW q \in Procs PROVE Quiet(q) \/ Settled(q)'
      OBVIOUS
    <3>1. CASE rows'[q] = rows[q]
      BY <1>4, <3>1 DEF Quiet
    <3>2. CASE q = current[t]
      <4>1. rows'[q].id # "none"
        BY <1>2, <2>2, <3>2
      <4>2. Excused(q)'
        BY <1>1, <2>5, <3>2 DEF Excused
      <4> QED BY <4>1, <4>2 DEF Settled, Truthful
    <3> QED BY <2>2, <3>1, <3>2
  <2>7. FineInv'
    BY <1>1, <1>2, <2>6, TaskMoves, QuietFine
  <2>8. OwnRest(t)'
    BY <1>1, <2>2, <2>4, TaskMoves, LoopRest
  <2> QED BY <2>3, <2>7, <2>8
<1>5. CASE /\ cont' \in {cont, Made(t, "created"), Made(t, "running"),
                           [cont EXCEPT ![current[t]] = NoContainer]}
           /\ Fail(t)
  <2>1. \A q \in Procs : q # current[t] => cont'[q] = cont[q]
    BY <1>2, <1>5 DEF Made, DataTypeOK
  <2> QED BY <1>1, <1>5, <2>1, FailRest
<1> QED BY <1>3, <1>4, <1>5 DEF Roll

LEMMA StartRest ==
    ASSUME RestInv, NEW t \in Requests, Start(t)
    PROVE  RowInv' /\ FineInv' /\ OwnRest(t)'
<1>1. TaskStep(t) /\ pc[t] \in Working /\ pc[t] \in Looping
  BY DEF TaskStep, Start, Looping, Working
<1>2. /\ TaskTypeOK /\ DataTypeOK /\ RowInv /\ FineInv
      /\ current[t] \in Procs /\ rows[current[t]].status = "building"
      /\ rows[current[t]].id # "none"
      /\ \A u \in Requests, q \in Procs : ~Stale(u, q)
  BY <1>1, WorkParts, TaskMoves
<1>3. \A q \in Procs : q # current[t] => cont'[q] = cont[q]
  BY <1>2 DEF Start, Made, DataTypeOK
<1>4. CASE Fail(t)
  BY <1>1, <1>3, <1>4, FailRest
<1>5. CASE Goto(t, "register") /\ UNCHANGED <<rows, faults, todo, result>>
  <2>1. \A q \in Procs : Quiet(q) \/ Settled(q)'
    <3> SUFFICES ASSUME NEW q \in Procs PROVE Quiet(q) \/ Settled(q)'
      OBVIOUS
    <3>1. CASE q # current[t]
      BY <1>3, <1>5, <3>1 DEF Quiet
    <3>2. CASE q = current[t]
      BY <1>2, <1>5, <3>2 DEF Settled, Truthful
    <3> QED BY <3>1, <3>2
  <2>2. RowInv' /\ FineInv'
    BY <1>1, <1>2, <1>5, <2>1, TaskMoves, QuietFine, RowsKept
  <2>3. pc'[t] \in Looping
    BY <1>2, <1>5, GotoSets DEF Looping, Working
  <2>4. OwnRest(t)'
    BY <1>1, <1>5, <2>3, TaskMoves, LoopRest
  <2> QED BY <2>2, <2>4
<1> QED BY <1>4, <1>5 DEF Start

LEMMA RegisterRest ==
    ASSUME RestInv, NEW t \in Requests, Register(t)
    PROVE  RowInv' /\ FineInv' /\ OwnRest(t)'
<1>1. /\ TaskStep(t) /\ pc[t] = "register" /\ pc[t] \in Working /\ Advance(t)
      /\ UNCHANGED cont
  BY DEF TaskStep, Register, Working
<1>2. rows' \in {rows, SetRunning(t, current[t])}
  BY DEF Register, Write
<1>3. cont[current[t]] = [by |-> t, st |-> "running"]
  BY <1>1, AtWork DEF RestInv, Runs
<1> QED BY <1>1, <1>2, <1>3, RunningRest

\* A container that goes takes its row's word with it, until the row goes too.
LEMMA RemoveRest ==
    ASSUME RestInv, NEW t \in Requests, Remove(t)
    PROVE  RowInv' /\ FineInv' /\ OwnRest(t)'
<1>1. TaskTypeOK /\ DataTypeOK /\ RowInv /\ FineInv /\ IdsInv(t)
  BY RestParts
<1>2. TaskStep(t) /\ pc[t] = "remove" /\ UNCHANGED <<rows, result>>
  BY DEF TaskStep, Remove
<1>3. /\ Framed(t) /\ result'[t] # "rolled_back" /\ UNCHANGED <<kind, ids>>
      /\ \A u \in Requests, q \in Procs : ~Stale(u, q)
  BY <1>2, TaskMoves DEF Stale
<1>4. RowInv'
  BY <1>1, <1>2 DEF RowInv
<1>5. CASE Loop(t, "done", {}) /\ UNCHANGED <<cont, faults, current>>
  <2>1. pc'[t] = "done"
    BY <1>1, <1>5, LoopSets
  <2>2. FineInv'
    BY <1>1, <1>2, <1>3, <1>5, QuietFine DEF Quiet
  <2>3. OwnRest(t)'
    BY <2>1 DEF OwnRest, StopInv, IdsInv, Looping, Working, Cleaning
  <2> QED BY <1>4, <2>2, <2>3
<1>6. ASSUME kind[t] = "update", NEW p \in todo[t], Stop(p),
             current' = [current EXCEPT ![t] = p], Goto(t, "delete_row"), UNCHANGED todo
      PROVE  RowInv' /\ FineInv' /\ OwnRest(t)'
  <2>1. pc'[t] = "delete_row" /\ current'[t] = p
    BY <1>1, <1>6, GotoSets DEF TaskTypeOK
  <2>2. /\ p \in Procs
        /\ \A q \in Procs : q # p => cont'[q] = cont[q]
        /\ cont'[p] \in {cont[p], NoContainer}
        /\ Fine' => cont'[p] = NoContainer
    BY <1>1, <1>6, StopFine DEF Stop, DataTypeOK, TaskTypeOK, Fine
  <2>3. \A q \in Procs : Fine' => Quiet(q) \/ Settled(q)'
    <3> SUFFICES ASSUME NEW q \in Procs, Fine' PROVE Quiet(q) \/ Settled(q)'
      OBVIOUS
    <3>1. CASE q # p
      BY <1>2, <2>2, <3>1 DEF Quiet
    <3>2. CASE q = p
      BY <2>1, <2>2, <3>2 DEF Settled, Stale, NoContainer
    <3> QED BY <3>1, <3>2
  <2>4. FineInv'
    BY <1>1, <1>3, <2>3, QuietFine
  <2>5. StopInv(t)'
    BY <2>1, <2>2 DEF StopInv, NoContainer
  <2>6. IdsInv(t)'
    BY <1>1, <1>2, <1>3, <1>6, <2>1 DEF IdsInv, Looping, Working, Cleaning
  <2> QED BY <1>4, <2>4, <2>5, <2>6 DEF OwnRest
<1> QED BY <1>5, <1>6 DEF Remove

LEMMA DeleteRowRest ==
    ASSUME RestInv, NEW t \in Requests, DeleteRow(t)
    PROVE  RowInv' /\ FineInv' /\ OwnRest(t)'
<1>1. TaskTypeOK /\ DataTypeOK /\ RowInv /\ FineInv /\ IdsInv(t) /\ StopInv(t)
  BY RestParts
<1>2. TaskStep(t) /\ pc[t] = "delete_row" /\ UNCHANGED <<cont, current, result>>
  BY DEF TaskStep, DeleteRow
<1>3. /\ Framed(t) /\ result'[t] # "rolled_back" /\ UNCHANGED <<kind, ids>>
      /\ \A u \in Requests, q \in Procs : Stale(u, q) => u = t /\ q = current[t]
  BY <1>2, TaskMoves DEF Stale
<1>4. /\ kind[t] = "update" /\ current[t] \in todo[t] /\ current[t] \in Procs
      /\ ids[t][current[t]] = rows[current[t]].id /\ ids[t][current[t]] # "none"
  BY <1>1, <1>2 DEF IdsInv, Cleaning, TaskTypeOK
<1>5. PICK ok \in BOOLEAN : Write(ById(t, current[t], NoRow), ok)
  BY DEF DeleteRow
<1>6. /\ \A q \in Procs : q # current[t] => rows'[q] = rows[q]
      /\ rows'[current[t]] \in {rows[current[t]], NoRow}
      /\ Fine' => rows'[current[t]] = NoRow
  <2>1. rows' \in {rows, ById(t, current[t], NoRow)}
    BY <1>5 DEF Write
  <2>2. Fine' => rows' = ById(t, current[t], NoRow)
    BY <1>1, <1>5, WriteFine DEF Fine
  <2> QED BY <1>1, <1>4, <2>1, <2>2, OtherRows, DeleteFacts
<1>7. RowInv'
  BY <1>1, <1>6 DEF RowInv, NoRow
<1>8. FineInv'
  <2> SUFFICES ASSUME Fine', NEW q \in Procs PROVE Settled(q)'
    BY DEF FineInv
  <2>1. Fine /\ Settled(q) /\ (Excused(q) => Excused(q)')
    BY <1>1, <1>3 DEF Framed, FineInv
  <2>2. CASE q = current[t]
    <3>1. cont'[q].st = "none" /\ rows'[q].status # "running"
      BY <1>1, <1>2, <1>6, <2>1, <2>2 DEF StopInv, NoRow
    <3> QED BY <3>1 DEF Settled, Truthful
  <2>3. CASE q # current[t]
    <3>1. Truthful(q) /\ rows'[q] = rows[q] /\ cont'[q] = cont[q]
      BY <1>2, <1>3, <1>6, <2>1, <2>3 DEF Settled
    <3> QED BY <2>1, <3>1 DEF Settled, Truthful
  <2> QED BY <2>2, <2>3
<1>9. pc'[t] = "remove" /\ todo'[t] = todo[t] \ {current[t]}
  BY <1>1, LoopSets DEF DeleteRow
<1>10. \A q \in todo'[t] : /\ ids'[t][q] = ids[t][q] /\ rows'[q] = rows[q]
                           /\ ids[t][q] = rows[q].id /\ ids[t][q] # "none"
  BY <1>1, <1>2, <1>3, <1>4, <1>6, <1>9 DEF IdsInv, Cleaning, TaskTypeOK
<1>11. OwnRest(t)'
  BY <1>3, <1>9, <1>10 DEF OwnRest, StopInv, IdsInv, Looping, Working, Cleaning
<1> QED BY <1>7, <1>8, <1>11

LEMMA PanicRest ==
    ASSUME RestInv, NEW t \in Requests, Panic(t)
    PROVE  RowInv' /\ FineInv' /\ OwnRest(t)'
<1>1. TaskTypeOK /\ DataTypeOK /\ RowInv /\ FineInv
  BY RestParts
<1>2. UNCHANGED cont /\ pc'[t] = "done" /\ result'[t] = "failed"
  BY <1>1, LoopSets DEF Panic, TaskTypeOK
<1>3. \A q \in Procs : /\ rows'[q].id = rows[q].id /\ rows'[q].status # "running"
                       /\ rows'[q] = NoRow \/ rows'[q].id # "none"
  <2>1. ASSUME NEW q \in Procs
        PROVE  /\ [rows[q] EXCEPT !.status = "failed"].id = rows[q].id
               /\ [rows[q] EXCEPT !.status = "failed"].status = "failed"
    <3>1. rows[q] \in Row
      BY <1>1 DEF DataTypeOK
    <3> QED BY <3>1 DEF Row
  <2> QED BY <2>1 DEF Panic, NoRow
<1>4. RowInv'
  BY <1>3 DEF RowInv, NoRow
<1>5. FineInv'
  <2> SUFFICES ASSUME Fine', NEW q \in Procs PROVE Settled(q)'
    BY DEF FineInv
  <2>1. Settled(q)
    BY <1>1, TaskMoves DEF Framed, FineInv
  <2> QED BY <1>2, <1>3, <2>1 DEF Settled, Truthful
<1>6. OwnRest(t)'
  BY <1>2 DEF OwnRest, StopInv, IdsInv, Looping, Working, Cleaning
<1> QED BY <1>4, <1>5, <1>6

LEMMA TaskRest ==
    ASSUME RestInv, NEW t \in Requests, TaskStep(t) \/ Panic(t)
    PROVE  RowInv' /\ FineInv' /\ \A u \in Requests : OwnRest(u)'
<1>1. RowInv' /\ FineInv' /\ OwnRest(t)'
  <2>1. CASE Build(t) /\ Fail(t)
    BY <2>1, FailRest DEF Build, TaskStep, Working
  <2> QED BY <2>1, PickRest, StopWorkerRest, RollRest, StartRest, RegisterRest, RemoveRest,
             DeleteRowRest, PanicRest DEF TaskStep
<1> QED BY <1>1, TaskMoves

-----------------------------------------------------------------------------
(* The theorem                                                              *)

LEMMA RestInit == Init => RestInv
<1> SUFFICES ASSUME Init PROVE RestInv
  OBVIOUS
<1>1. /\ \A t \in Requests : pc[t] = "idle" /\ result[t] = "none"
      /\ AloneInv
  BY AloneInit DEF Init
<1>2. PICK deployed \in SUBSET Procs :
         /\ rows = [p \in Procs |-> IF p \notin deployed THEN NoRow
                      ELSE [id |-> Base, status |-> "running", container |-> Base]]
         /\ cont = [p \in Procs |-> IF p \notin deployed THEN NoContainer
                      ELSE [by |-> Base, st |-> "running"]]
  BY DEF Init
<1>3. RowInv /\ FineInv
  BY <1>2, DeploymentAssumption
     DEF RowInv, FineInv, Settled, Truthful, NoRow, NoContainer
<1>4. \A t \in Requests : OwnRest(t)
  BY <1>1 DEF OwnRest, StopInv, IdsInv, Looping, Working, Cleaning
<1> QED BY <1>1, <1>3, <1>4 DEF RestInv

LEMMA RestStep == ~Concurrent /\ RestInv /\ [Next]_vars => RestInv'
<1> SUFFICES ASSUME ~Concurrent, RestInv, [Next]_vars
             PROVE  RowInv' /\ FineInv' /\ \A u \in Requests : OwnRest(u)'
  BY AloneStep DEF RestInv
<1>1. ASSUME NEW t \in Requests, Deploy(t) \/ Update(t)
      PROVE  RowInv' /\ FineInv' /\ \A u \in Requests : OwnRest(u)'
  BY <1>1, ArriveRest
<1>2. ASSUME NEW t \in Requests, HandlerStep(t)
      PROVE  RowInv' /\ FineInv' /\ \A u \in Requests : OwnRest(u)'
  BY <1>2, HandlerRest
<1>3. ASSUME NEW t \in Requests, TaskStep(t) \/ Panic(t)
      PROVE  RowInv' /\ FineInv' /\ \A u \in Requests : OwnRest(u)'
  BY <1>3, TaskRest
<1>4. ASSUME UNCHANGED <<dataVars, taskVars>>
      PROVE  RowInv' /\ FineInv' /\ \A u \in Requests : OwnRest(u)'
  <2>1. UNCHANGED <<rows, cont, faults, kind, pc, todo, ids, current, result>>
    BY <1>4 DEF dataVars, taskVars
  <2> QED BY <2>1 DEF RestInv, RowInv, FineInv, OwnRest, StopInv, IdsInv, Settled, Truthful,
                      Excused, Stale, Fine, Lost
<1>5. CASE ServerCrash
  <2>1. PICK t \in Requests : InFlight(t)
    BY <1>5 DEF ServerCrash
  <2>2. pc'[t] = "lost" /\ UNCHANGED <<rows, result>>
    BY <1>5, <2>1 DEF ServerCrash, dataVars
  <2>3. ~Fine'
    BY <2>2 DEF Fine, Lost
  <2>4. \A u \in Requests :
          pc'[u] \in Ended /\ (pc[u] \in {"done", "lost"} => pc'[u] \in {"done", "lost"})
    BY <1>5 DEF ServerCrash, InFlight, Ended
  <2>5. \A u \in Requests : IdsInv(u)'
    BY <2>2, <2>4, RestParts DEF IdsInv, Ended, Looping, Working, Cleaning
  <2>6. RowInv'
    BY <2>2 DEF RestInv, RowInv
  <2> QED BY <2>3, <2>5, <2>6 DEF FineInv, OwnRest, StopInv
<1> QED BY <1>1, <1>2, <1>3, <1>4, <1>5 DEF Next, Poll, vars

\* However many processes and requests there are, as long as one request ends
\* before the next one comes: once all is over, and no call failed and no server
\* died, every container has a row, and a row that says "running" names the
\* container that runs, unless the process was rolled back.
THEOREM RowsDescribeContainersAlways == ~Concurrent => (Spec => []RowsDescribeContainers)
<1> SUFFICES ASSUME ~Concurrent PROVE Spec => []RowsDescribeContainers
  OBVIOUS
<1>1. RestInv /\ [Next]_vars => RestInv'
  BY RestStep
<1>2. RestInv => RowsDescribeContainers
  <2> SUFFICES ASSUME RestInv, AtRest, faults = 0, \A t \in Requests : ~Lost(t),
                      NEW p \in Procs
               PROVE  /\ cont[p].st # "none" => rows[p].id # "none"
                      /\ Truthful(p)
    BY DEF RowsDescribeContainers, Truthful, Excused
  <2>1. Settled(p)
    BY DEF RestInv, FineInv, Fine
  <2>2. \A t \in Requests : ~Stale(t, p)
    BY DEF AtRest, InFlight, Ended, Stale
  <2> QED BY <2>1, <2>2 DEF Settled
<1> QED BY <1>1, <1>2, RestInit, PTL DEF Spec

=============================================================================
