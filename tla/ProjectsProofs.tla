---------------------------- MODULE ProjectsProofs ----------------------------
(***************************************************************************)
(* Theorems about Projects, for any number of requests, of projects and of *)
(* faults: the types, and the five properties, each with the part of the   *)
(* inductive invariant that it rests on.                                   *)
(***************************************************************************)
EXTENDS Projects, TLAPS

States == UploadSteps \cup DeleteSteps \cup ServiceSteps \cup S3Steps \cup EnvSteps \cup Ended
Kinds  == {"none", "create", "delete", "upload", "service", "s3", "env"}
Row    == [by : Makers, status : {"none", "building", "running", "failed"}, container : Makers]

\* Who a row can belong to, and the ids that anything can refer to.
Owners == Requests \cup {Base}
Known  == used \cup {Default}

\* TypeOK in parts: the rows, the containers and networks, and the requests.
RowsTyped ==
    /\ Default \in alive /\ alive \subseteq Known /\ used \subseteq Ids
    /\ \A i, j \in Others : i = j
    /\ apps \subseteq alive
    /\ \A i \in All : proc[i] # NoRow => i \in apps
    /\ proc \in [All -> Row]
    /\ service \in [All -> Makers] /\ \A i \in All \ alive : service[i] = "none"
DockerTyped ==
    /\ cont \in [All -> Makers]
    /\ scont \in [All -> SUBSET Makers]
    /\ traefik \cup garage \subseteq nets /\ nets \subseteq All
EnvTyped ==
    /\ shared \in [All -> SUBSET Requests] /\ \A i \in All \ alive : shared[i] = {}
    /\ given \in [All -> SUBSET Requests]
    /\ read \in [Requests -> SUBSET Requests] /\ replaced \in [Requests -> SUBSET Requests]
AsksTyped ==
    /\ kind \in [Requests -> Kinds]
    /\ named \in [Requests -> {"default", "other"}]
    /\ id \in [Requests -> All \cup {"none"}]
    /\ pc \in [Requests -> States]
    /\ faults \in 0..MaxFaults

LEMMA TypeParts ==
    /\ TypeOK => RowsTyped /\ DockerTyped /\ EnvTyped /\ AsksTyped
    /\ RowsTyped' /\ DockerTyped' /\ EnvTyped' /\ AsksTyped' => TypeOK'
    /\ RowsTyped /\ DockerTyped /\ EnvTyped /\ AsksTyped => TypeOK
BY DEF TypeOK, RowsTyped, DockerTyped, EnvTyped, AsksTyped, States, Kinds, Row, Known

(* What is always known.                                                     *)

\* Of a request: it is at a step of what it asks for, and works on a known project.
AskFits(r) ==
    /\ id[r] \in Known \cup {"none"}
    /\ pc[r] = "idle" => kind[r] = "none" /\ id[r] = "none"
    /\ pc[r] \in UploadSteps => kind[r] = "upload"
    /\ pc[r] \in DeleteSteps => kind[r] = "delete"
    /\ pc[r] \in ServiceSteps => kind[r] = "service"
    /\ pc[r] \in S3Steps => kind[r] = "s3"
    /\ pc[r] \in EnvSteps => kind[r] = "env"
    /\ InFlight(r) => \/ named[r] = "default" /\ id[r] = Default /\ kind[r] = "upload"
                      \/ named[r] = "other" /\ id[r] \in Ids

\* Of the row of a process: it is an upload's, or was there before.
Owned(by, i) == /\ by \in Owners
                /\ by \in Requests => kind[by] = "upload" /\ id[by] = i
RowFits(i) ==
    proc[i] # NoRow =>
        /\ Owned(proc[i].by, i)
        /\ proc[i].by \in Requests => proc[i].container \in {"none", proc[i].by, "watcher"}
        /\ proc[i].status # "none"
        /\ proc[i].status = "running" => proc[i].container # "none"

\* Of what the watcher has seen.
SeenFits ==
    seen # NotSeen =>
        /\ seen \in [project : Known, by : Owners]
        /\ Owned(seen.by, seen.project)

\* Of a transaction that holds its project: there is one at a time, and no service yet.
Holding == {"service_network", "start_service", "commit"}
Holds(r, i) == pc[r] \in Holding /\ id[r] = i
LockFits(i) ==
    \A r \in Requests : Holds(r, i) =>
        /\ i \in alive /\ service[i] = "none"
        /\ \A s \in Requests : Holds(s, i) => s = r

\* Of an id that no project has had.
Fresh(i) == cont[i] = "none" /\ scont[i] = {} /\ i \notin nets

KnownInv ==
    /\ TypeOK /\ SeenFits
    /\ \A r \in Requests : AskFits(r)
    /\ \A i \in All : RowFits(i) /\ LockFits(i)
    /\ \A i \in All \ Known : Fresh(i)

-----------------------------------------------------------------------------
(* The steps of a request that is in flight                                 *)

DeletionStep(r) ==
    \/ List(r) \/ StopApp(r) \/ Services(r) \/ StopService(r) \/ Disconnect(r)
    \/ RemoveNetwork(r) \/ DeleteRow(r)
UploadStep(r) ==
    \/ StopOld(r) \/ DeleteRows(r) \/ Save(r) \/ CreateRow(r) \/ ReadEnv(r)
    \/ Network(r) \/ Start(r) \/ Register(r)
ServiceStep(r) == Insert(r) \/ ServiceNetwork(r) \/ StartService(r) \/ Commit(r)
S3Step(r)      == InsertS3(r) \/ ConnectGarage(r)
EnvStep(r)     == GetEnv(r) \/ PutEnv(r) \/ CommitEnv(r)
Work(r) == DeletionStep(r) \/ UploadStep(r) \/ ServiceStep(r) \/ S3Step(r) \/ EnvStep(r)

BeginAny(r) == BeginDelete(r) \/ BeginUpload(r) \/ BeginService(r) \/ BeginS3(r) \/ BeginEnv(r)

LEMMA StepKinds == \A r \in Requests : Step(r) <=> Create(r) \/ BeginAny(r) \/ Work(r)
BY DEF Step, BeginAny, Work, DeletionStep, UploadStep, ServiceStep, S3Step, EnvStep

\* A request goes from one of its steps to another, or ends.
Goes(r, steps) == /\ pc[r] \in steps
                  /\ \E to \in steps \cup {"ok", "failed", "refused"} : Goto(r, to)

Judged == /\ hurt \subseteq hurt' /\ leaked \subseteq leaked' /\ disturbed \subseteq disturbed'
          /\ \/ faults' = faults
             \/ faults < MaxFaults /\ faults' = faults + 1

LEMMA DeletionMoves ==
    ASSUME NEW r \in Requests, DeletionStep(r)
    PROVE  /\ Goes(r, DeleteSteps) /\ Judged /\ UNCHANGED <<seen, mixed, contended, before>>
           /\ UNCHANGED <<askVars, id, used, given, read, replaced>>
<1> USE DEF Turn, At, Goto, FailsAt, Fault, NoFault, rowVars, envVars, Goes, Judged
<1>1. CASE List(r) \/ Services(r) \/ DeleteRow(r)
  BY <1>1 DEF List, Services, DeleteRow, DeleteSteps
<1>2. CASE StopApp(r) \/ StopService(r) \/ Disconnect(r) \/ RemoveNetwork(r)
  BY <1>2 DEF StopApp, StopService, Disconnect, RemoveNetwork, OnlyDocker, DeleteSteps
<1> QED BY <1>1, <1>2 DEF DeletionStep

LEMMA UploadMoves ==
    ASSUME NEW r \in Requests, UploadStep(r)
    PROVE  /\ Goes(r, UploadSteps) /\ Judged /\ UNCHANGED <<seen, mixed, contended, before>>
           /\ UNCHANGED <<askVars, id, used, alive, service, scont, shared, replaced>>
<1> USE DEF Turn, At, Goto, FailsAt, Fault, NoFault, rowVars, dockerVars, envVars, Goes, Judged,
            UploadSteps, OnlyRows, OnlyDocker
<1>1. CASE StopOld(r) \/ Network(r)
  BY <1>1 DEF StopOld, Network
<1>2. CASE DeleteRows(r) \/ Save(r) \/ Register(r)
  BY <1>2 DEF DeleteRows, Save, Register
<1>3. CASE CreateRow(r)
  BY <1>3 DEF CreateRow, DeleteDefault
<1>4. CASE ReadEnv(r)
  BY <1>4 DEF ReadEnv
<1>5. CASE Start(r)
  BY <1>5 DEF Start
<1> QED BY <1>1, <1>2, <1>3, <1>4, <1>5 DEF UploadStep

LEMMA ServiceMoves ==
    ASSUME NEW r \in Requests, ServiceStep(r)
    PROVE  /\ Goes(r, ServiceSteps) /\ Judged /\ UNCHANGED <<seen, mixed, contended, before>>
           /\ UNCHANGED <<askVars, id, used, alive, apps, proc, cont, envVars>>
<1> USE DEF Turn, At, Goto, FailsAt, Fault, NoFault, rowVars, dockerVars, Goes, Judged,
            ServiceSteps, OnlyRows, OnlyDocker
<1>1. CASE Insert(r) \/ ServiceNetwork(r)
  BY <1>1 DEF Insert, ServiceNetwork
<1>2. CASE StartService(r)
  BY <1>2 DEF StartService
<1>3. CASE Commit(r)
  BY <1>3 DEF Commit
<1> QED BY <1>1, <1>2, <1>3 DEF ServiceStep

LEMMA S3Moves ==
    ASSUME NEW r \in Requests, S3Step(r)
    PROVE  /\ Goes(r, S3Steps) /\ Judged /\ UNCHANGED <<seen, mixed, contended, before>>
           /\ UNCHANGED <<askVars, id, rowVars, cont, scont, envVars>>
BY DEF Turn, At, Goto, NoFault, rowVars, dockerVars, Goes, Judged, S3Steps, OnlyDocker, S3Step,
       InsertS3, ConnectGarage

LEMMA EnvMoves ==
    ASSUME NEW r \in Requests, EnvStep(r)
    PROVE  /\ Goes(r, EnvSteps) /\ Judged /\ UNCHANGED <<seen, mixed, contended, before>>
           /\ UNCHANGED <<askVars, rowVars, dockerVars, given>>
<1> USE DEF Turn, At, Goto, FailsAt, Fault, NoFault, Goes, Judged, EnvSteps
<1>1. CASE GetEnv(r)
  BY <1>1 DEF GetEnv
<1>2. CASE PutEnv(r)
  BY <1>2 DEF PutEnv
<1>3. CASE CommitEnv(r)
  BY <1>3 DEF CommitEnv
<1> QED BY <1>1, <1>2, <1>3 DEF EnvStep

\* What every step of a request in flight leaves alone.
Onward(r) ==
    /\ InFlight(r) /\ Judged /\ UNCHANGED <<seen, mixed, contended, before, askVars, used>>
    /\ \E to \in States : Goto(r, to)

LEMMA WorkMoves ==
    ASSUME NEW r \in Requests, Work(r)
    PROVE  Onward(r)
<1>1. ASSUME NEW steps, Goes(r, steps), steps \cap Ended = {},
             steps \cup {"ok", "failed", "refused"} \subseteq States
      PROVE  InFlight(r) /\ \E to \in States : Goto(r, to)
  BY <1>1 DEF Goes, InFlight
<1>2. /\ DeleteSteps \cap Ended = {} /\ UploadSteps \cap Ended = {}
      /\ ServiceSteps \cap Ended = {} /\ S3Steps \cap Ended = {} /\ EnvSteps \cap Ended = {}
  BY DEF DeleteSteps, UploadSteps, ServiceSteps, S3Steps, EnvSteps, Ended
<1>3. /\ DeleteSteps \subseteq States /\ UploadSteps \subseteq States
      /\ ServiceSteps \subseteq States /\ S3Steps \subseteq States /\ EnvSteps \subseteq States
      /\ {"ok", "failed", "refused"} \subseteq States
  BY DEF States, Ended
<1>4. \/ Goes(r, DeleteSteps) \/ Goes(r, UploadSteps) \/ Goes(r, ServiceSteps)
      \/ Goes(r, S3Steps) \/ Goes(r, EnvSteps)
  BY DeletionMoves, UploadMoves, ServiceMoves, S3Moves, EnvMoves DEF Work
<1>5. InFlight(r) /\ \E to \in States : Goto(r, to)
  BY <1>1, <1>2, <1>3, <1>4
<1>6. Judged /\ UNCHANGED <<seen, mixed, contended, before, askVars, used>>
  BY DeletionMoves, UploadMoves, ServiceMoves, S3Moves, EnvMoves DEF Work, rowVars
<1> QED BY <1>5, <1>6 DEF Onward

-----------------------------------------------------------------------------
(* Types                                                                    *)

\* A request in flight works on a known project, the one that its kind is for.
LEMMA AtWork ==
    ASSUME KnownInv, NEW r \in Requests, InFlight(r)
    PROVE  /\ id[r] \in Known /\ id[r] \in All
           /\ \/ named[r] = "default" /\ id[r] = Default /\ kind[r] = "upload"
              \/ named[r] = "other" /\ id[r] \in Ids
BY ProjectsAssumption DEF KnownInv, AskFits, All, TypeOK, Known

LEMMA AsksStayTyped ==
    ASSUME AsksTyped, NEW r \in Requests, Onward(r), id' \in [Requests -> All \cup {"none"}]
    PROVE  AsksTyped'
<1>1. faults' \in 0..MaxFaults
  BY ProjectsAssumption DEF AsksTyped, Onward, Judged
<1>2. pc' \in [Requests -> States]
  BY DEF AsksTyped, Onward, Goto
<1> QED BY <1>1, <1>2 DEF AsksTyped, Onward, askVars

LEMMA MakersTyped ==
    /\ NoRow \in Row /\ "none" \in Makers /\ "watcher" \in Makers
    /\ Requests \subseteq Makers /\ Owners \subseteq Makers
BY DEF NoRow, Row, Makers, Owners

\* Of what the steps of a class change, ...
LEMMA DeletionTyped ==
    ASSUME KnownInv, NEW r \in Requests, DeletionStep(r)
    PROVE  TypeOK'
<1>1. RowsTyped /\ DockerTyped /\ EnvTyped /\ AsksTyped /\ id[r] \in All
  <2>1. InFlight(r)
    BY WorkMoves DEF Work, Onward
  <2> QED BY <2>1, TypeParts, AtWork DEF KnownInv
<1>2. AsksTyped'
  BY <1>1, DeletionMoves, WorkMoves, AsksStayTyped DEF Work, AsksTyped
<1>3. CASE UNCHANGED <<rowVars, shared>>
  <2>1. DockerTyped'
    BY <1>1, <1>3, DeletionMoves, MakersTyped
    DEF DeletionStep, List, StopApp, Services, StopService, Disconnect, RemoveNetwork,
        DeleteRow, InUse, FailsAt, OnlyRows, DockerTyped, dockerVars
  <2> QED BY <1>1, <1>2, <1>3, <2>1, DeletionMoves, TypeParts
          DEF RowsTyped, EnvTyped, rowVars, Others, Known
<1>4. CASE DeleteRow(r) /\ ~UNCHANGED <<rowVars, shared>>
  <2>1. /\ alive' = alive \ Others /\ apps' = apps \ Others /\ used' = used
        /\ proc' = [i \in All |-> IF i \in Others THEN NoRow ELSE proc[i]]
        /\ service' = [i \in All |-> IF i \in Others THEN "none" ELSE service[i]]
        /\ shared' = [i \in All |-> IF i \in Others THEN {} ELSE shared[i]]
        /\ UNCHANGED dockerVars
    BY <1>4 DEF DeleteRow, FailsAt, OnlyRows
  <2>2. RowsTyped'
    BY <1>1, <2>1, MakersTyped DEF RowsTyped, Others, Known
  <2>3. EnvTyped'
    BY <1>1, <2>1, DeletionMoves DEF EnvTyped, Others
  <2> QED BY <1>1, <1>2, <2>1, <2>2, <2>3, TypeParts DEF DockerTyped, dockerVars
<1> QED BY <1>3, <1>4
        DEF DeletionStep, List, StopApp, Services, StopService, Disconnect, RemoveNetwork,
            FailsAt, OnlyDocker, At, envVars

\* An UPDATE of the row that by has.
LEMMA ByIdRow ==
    ASSUME RowsTyped, NEW i \in All, NEW by \in Owners, NEW row \in Row
    PROVE  /\ ById(i, by, row) \in [All -> Row]
           /\ \A j \in All : ById(i, by, row)[j] # NoRow => j \in apps
           /\ \A j \in All \ {i} : ById(i, by, row)[j] = proc[j]
           /\ proc[i].by # by => ById(i, by, row) = proc
           /\ proc[i].by = by => proc[i] # NoRow /\ ById(i, by, row)[i] = row
<1>1. by # "none"
  BY ProjectsAssumption DEF Owners
<1>2. proc[i].by = by => proc[i] # NoRow
  BY <1>1 DEF NoRow
<1> QED BY <1>1, <1>2 DEF RowsTyped, ById

\* The rows that uploads write.
LEMMA FailedRow ==
    ASSUME NEW row \in Row
    PROVE  /\ [row EXCEPT !.status = "failed"]
                = [by |-> row.by, status |-> "failed", container |-> row.container]
           /\ [row EXCEPT !.status = "failed"] \in Row
BY DEF Row

LEMMA NewRow ==
    ASSUME NEW r \in Requests
    PROVE  /\ [by |-> r, status |-> "building", container |-> "none"] \in Row
           /\ [by |-> r, status |-> "running", container |-> r] \in Row
BY MakersTyped DEF Row

LEMMA UploadTyped ==
    ASSUME KnownInv, NEW r \in Requests, UploadStep(r)
    PROVE  TypeOK'
<1>1. RowsTyped /\ DockerTyped /\ EnvTyped /\ AsksTyped /\ id[r] \in All
  BY WorkMoves, TypeParts, AtWork DEF Work, Onward, KnownInv
<1>2. AsksTyped'
  BY <1>1, UploadMoves, WorkMoves, AsksStayTyped DEF Work, AsksTyped
<1>3. r \in Owners
  BY DEF Owners
<1>4. /\ alive' = alive /\ used' = used /\ service' = service /\ shared' = shared
      /\ replaced' = replaced /\ scont' = scont
  BY UploadMoves
<1>5. DockerTyped'
  BY <1>1, <1>4, MakersTyped
  DEF UploadStep, StopOld, Stopped, DeleteRows, Save, CreateRow, DeleteDefault, ReadEnv, Network, Start, Register,
      EnsureNetwork, EnsureTraefik, FailsAt, OnlyRows, DockerTyped, dockerVars
<1>6. EnvTyped'
  <2>1. CASE ReadEnv(r) \/ Start(r)
    BY <1>1, <1>4, <2>1 DEF ReadEnv, Start, Merged, EnvTyped
  <2>2. CASE UNCHANGED envVars
    BY <1>1, <1>4, <2>2 DEF EnvTyped, envVars
  <2> QED BY <2>1, <2>2 DEF UploadStep, StopOld, DeleteRows, Save, CreateRow, Network, Register, At
<1>7. RowsTyped'
  <2>0. SUFFICES /\ apps' \subseteq alive /\ proc' \in [All -> Row]
                 /\ \A i \in All : proc'[i] # NoRow => i \in apps'
    BY <1>1, <1>4 DEF RowsTyped, Others, Known
  <2>1. CASE StopOld(r) \/ Network(r) \/ UNCHANGED rowVars
    BY <1>1, <2>1 DEF StopOld, Network, FailsAt, OnlyDocker, RowsTyped, rowVars
  <2>2. CASE DeleteRows(r)
    BY <1>1, <2>2, MakersTyped DEF DeleteRows, FailsAt, RowsTyped, rowVars
  <2>3. CASE Save(r)
    BY <1>1, <2>3 DEF Save, FailsAt, RowsTyped, rowVars
  <2>4. CASE CreateRow(r) /\ DeleteDefault(r)
    BY <1>1, <2>4, MakersTyped DEF DeleteDefault, RowsTyped
  <2>5. CASE CreateRow(r) /\ ~DeleteDefault(r)
    <3>1. /\ id[r] \in apps /\ apps' = apps
          /\ proc' = [proc EXCEPT ![id[r]] = [by |-> r, status |-> "building", container |-> "none"]]
      BY <2>5 DEF CreateRow
    <3>2. [by |-> r, status |-> "building", container |-> "none"] \in Row
      BY <1>1, NewRow
    <3> QED BY <1>1, <3>1, <3>2 DEF RowsTyped
  <2>6. CASE ReadEnv(r) \/ Start(r) \/ Register(r)
    <3>1. apps' = apps
      BY <2>6 DEF ReadEnv, Start, Register
    <3>2. \/ proc' = proc
          \/ proc' = ById(id[r], r, [proc[id[r]] EXCEPT !.status = "failed"])
          \/ proc' = ById(id[r], r, [by |-> r, status |-> "running", container |-> r])
      BY <2>6 DEF ReadEnv, Start, Register
    <3>3. /\ [proc[id[r]] EXCEPT !.status = "failed"] \in Row
          /\ [by |-> r, status |-> "running", container |-> r] \in Row
      BY <1>1, FailedRow, NewRow DEF RowsTyped
    <3>4. \A row \in Row : /\ ById(id[r], r, row) \in [All -> Row]
                           /\ \A j \in All : ById(id[r], r, row)[j] # NoRow => j \in apps
      BY <1>1, <1>3, ByIdRow
    <3>5. CASE proc' = proc
      BY <1>1, <3>1, <3>5 DEF RowsTyped
    <3> QED BY <1>1, <3>1, <3>2, <3>3, <3>4, <3>5 DEF RowsTyped
  <2> QED BY <2>1, <2>2, <2>3, <2>4, <2>5, <2>6 DEF UploadStep
<1> QED BY <1>2, <1>5, <1>6, <1>7, TypeParts

LEMMA ServiceTyped ==
    ASSUME KnownInv, NEW r \in Requests, ServiceStep(r)
    PROVE  TypeOK'
<1>1. RowsTyped /\ DockerTyped /\ EnvTyped /\ AsksTyped /\ id[r] \in All
  BY WorkMoves, TypeParts, AtWork DEF Work, Onward, KnownInv
<1>2. AsksTyped'
  BY <1>1, ServiceMoves, WorkMoves, AsksStayTyped DEF Work, AsksTyped
<1>3. DockerTyped'
  <2>1. CASE StartService(r)
    BY <1>1, <2>1, ServiceMoves, MakersTyped DEF StartService, DockerTyped
  <2>2. CASE Insert(r) \/ ServiceNetwork(r) \/ Commit(r)
    BY <1>1, <2>2 DEF Insert, ServiceNetwork, Commit, EnsureNetwork, OnlyRows, DockerTyped, dockerVars
  <2> QED BY <2>1, <2>2 DEF ServiceStep
<1>4. RowsTyped'
  <2>1. CASE Commit(r)
    <3>1. id[r] \in alive
      BY <1>1, <2>1 DEF KnownInv, LockFits, Holds, Holding, Commit, At, Turn
    <3> QED BY <1>1, <2>1, <3>1, ServiceMoves, MakersTyped DEF Commit, RowsTyped, Others, Known
  <2>2. CASE UNCHANGED rowVars
    BY <1>1, <2>2 DEF RowsTyped, rowVars, Others, Known
  <2> QED BY <2>1, <2>2
          DEF ServiceStep, Insert, ServiceNetwork, StartService, OnlyDocker
<1> QED BY <1>1, <1>2, <1>3, <1>4, ServiceMoves, TypeParts DEF EnvTyped, envVars

LEMMA S3Typed ==
    ASSUME KnownInv, NEW r \in Requests, S3Step(r)
    PROVE  TypeOK'
<1>1. RowsTyped /\ DockerTyped /\ EnvTyped /\ AsksTyped /\ id[r] \in All
  BY WorkMoves, TypeParts, AtWork DEF Work, Onward, KnownInv
<1>2. AsksTyped'
  BY <1>1, S3Moves, WorkMoves, AsksStayTyped DEF Work, AsksTyped
<1>3. DockerTyped'
  BY <1>1, S3Moves
  DEF S3Step, InsertS3, ConnectGarage, EnsureNetwork, DockerTyped, dockerVars
<1> QED BY <1>1, <1>2, <1>3, S3Moves, TypeParts
        DEF RowsTyped, EnvTyped, rowVars, envVars, Others, Known

LEMMA EnvsTyped ==
    ASSUME KnownInv, NEW r \in Requests, EnvStep(r)
    PROVE  TypeOK'
<1>1. RowsTyped /\ DockerTyped /\ EnvTyped /\ AsksTyped /\ id[r] \in All
  BY WorkMoves, TypeParts, AtWork DEF Work, Onward, KnownInv
<1>2. Others \subseteq All
  BY <1>1 DEF RowsTyped, Others, Known, All
<1>3. id' \in [Requests -> All \cup {"none"}]
  BY <1>1, <1>2 DEF EnvStep, GetEnv, PutEnv, CommitEnv, Turn, AsksTyped
<1>4. AsksTyped'
  BY <1>1, <1>3, WorkMoves, AsksStayTyped DEF Work
<1>5. EnvTyped'
  <2>1. CASE GetEnv(r)
    BY <1>1, <2>1, EnvMoves DEF GetEnv, EnvTyped, rowVars
  <2>2. CASE PutEnv(r)
    BY <1>1, <1>2, <2>2, EnvMoves DEF PutEnv, EnvTyped, rowVars
  <2>3. CASE CommitEnv(r)
    BY <1>1, <2>3, EnvMoves DEF CommitEnv, EnvTyped, rowVars
  <2> QED BY <2>1, <2>2, <2>3 DEF EnvStep
<1> QED BY <1>1, <1>4, <1>5, EnvMoves, TypeParts
        DEF RowsTyped, DockerTyped, rowVars, dockerVars, Others, Known

\* ... and of a request that begins, a new project, the watcher and the server.
LEMMA BeginMoves ==
    ASSUME NEW r \in Requests, BeginAny(r)
    PROVE  \E k \in {"delete", "upload", "service", "s3", "env"}, which \in {"default", "other"} :
              /\ which = "default" => k = "upload"
              /\ k = "s3" => Others \subseteq apps
              /\ Begin(r, k, which)
BY DEF BeginAny, BeginDelete, BeginUpload, BeginService, BeginS3, BeginEnv

\* What a request finds: the default project, or the other one of now, if there is one.
Found(which) == IF which = "default" THEN {Default} ELSE Others

LEMMA BeginFinds ==
    ASSUME KnownInv, NEW r \in Requests, NEW k \in {"delete", "upload", "service", "s3", "env"},
           NEW which \in {"default", "other"}, Begin(r, k, which)
    PROVE  \/ /\ Found(which) = {} /\ which = "other" /\ pc' = [pc EXCEPT ![r] = "refused"] /\ id' = id
           \/ \E i \in Found(which) :
                 /\ Found(which) = {i} /\ i \in alive /\ i \in All
                 /\ IF which = "default" THEN i = Default ELSE i \in Ids
                 /\ id' = [id EXCEPT ![r] = i]
                 /\ pc' = [pc EXCEPT ![r] = First[k]]
<1>1. \A i, j \in Found(which) : i = j
  BY DEF Found, KnownInv, TypeOK
<1>2. Found(which) \subseteq alive /\ alive \subseteq All /\ (which = "default" => Default \in Found(which))
      /\ (which = "other" => Found(which) \subseteq Ids)
  BY DEF Found, KnownInv, TypeOK, Others, All
<1>3. CASE Found(which) = {}
  BY <1>2, <1>3 DEF Begin, Found, Goto
<1>4. CASE Found(which) # {}
  <2>1. PICK i \in Found(which) : i = CHOOSE x \in Found(which) : TRUE
    BY <1>4
  <2>2. Found(which) = {i}
    BY <1>1
  <2>3. id' = [id EXCEPT ![r] = i] /\ pc' = [pc EXCEPT ![r] = First[k]]
    BY <1>4, <2>1 DEF Begin, Found, Goto
  <2> QED BY <1>2, <2>2, <2>3 DEF Found
<1> QED BY <1>3, <1>4

LEMMA FirstSteps ==
    \A k \in {"delete", "upload", "service", "s3", "env"} :
        /\ First[k] \in {"list", "stop_old", "insert", "insert_s3", "get_env"} /\ First[k] \in States
        /\ k = "delete" => First[k] = "list"
        /\ k = "upload" => First[k] = "stop_old"
        /\ k = "service" => First[k] = "insert"
        /\ k = "s3" => First[k] = "insert_s3"
        /\ k = "env" => First[k] = "get_env"
BY DEF First, States, UploadSteps, DeleteSteps, ServiceSteps, S3Steps, EnvSteps

LEMMA BeginTyped ==
    ASSUME KnownInv, NEW r \in Requests, BeginAny(r)
    PROVE  TypeOK'
<1>1. RowsTyped /\ DockerTyped /\ EnvTyped /\ AsksTyped
  BY TypeParts DEF KnownInv
<1>2. PICK k \in {"delete", "upload", "service", "s3", "env"}, which \in {"default", "other"} :
           Begin(r, k, which)
  BY BeginMoves
<1>3. /\ kind' = [kind EXCEPT ![r] = k] /\ named' = [named EXCEPT ![r] = which]
      /\ UNCHANGED <<rowVars, dockerVars, envVars, seen, faults>>
  BY <1>2 DEF Begin
<1>4. id' \in [Requests -> All \cup {"none"}] /\ pc' \in [Requests -> States]
  BY <1>1, <1>2, BeginFinds, FirstSteps DEF AsksTyped, States, Ended
<1>5. AsksTyped'
  BY <1>1, <1>3, <1>4 DEF AsksTyped, Kinds
<1> QED BY <1>1, <1>3, <1>5, TypeParts
        DEF RowsTyped, DockerTyped, EnvTyped, rowVars, dockerVars, envVars, Others, Known

LEMMA CreateTyped ==
    ASSUME KnownInv, NEW r \in Requests, Create(r)
    PROVE  TypeOK'
<1>1. RowsTyped /\ DockerTyped /\ EnvTyped /\ AsksTyped
  BY TypeParts DEF KnownInv
<1>2. AsksTyped'
  BY <1>1 DEF Create, AsksTyped, Goto, Kinds, States, Ended
<1>3. DockerTyped'
  BY <1>1 DEF Create, DockerTyped, dockerVars
<1>4. RowsTyped' /\ EnvTyped'
  <2>1. CASE Others # {}
    BY <1>1, <2>1 DEF Create, RowsTyped, EnvTyped, rowVars, envVars, Others, Known
  <2>2. CASE Others = {}
    <3>1. PICK i \in Ids \ used : /\ alive' = alive \cup {i} /\ used' = used \cup {i}
                                  /\ UNCHANGED <<apps, proc, service, envVars>>
      BY <2>2 DEF Create
    <3>2. Others' = {i}
      BY <2>2, <3>1, ProjectsAssumption DEF Others
    <3> QED BY <1>1, <3>1, <3>2 DEF RowsTyped, EnvTyped, Known, envVars
  <2> QED BY <2>1, <2>2
<1> QED BY <1>2, <1>3, <1>4, TypeParts

\* What the watcher writes.
LEMMA RecreateWrites ==
    ASSUME KnownInv, Recreate
    PROVE  \E i \in Known \cap All, by \in Owners :
              /\ seen = [project |-> i, by |-> by] /\ Owned(by, i) /\ seen' = NotSeen
              /\ nets' = nets \cup {i} /\ traefik' = traefik \cup {i}
              /\ \/ /\ cont[i] = "none"
                    /\ cont' = [cont EXCEPT ![i] = "watcher"]
                    /\ given' = [given EXCEPT ![i] = shared[i]]
                    /\ proc' = ById(i, by, [by |-> by, status |-> "running", container |-> "watcher"])
                 \/ /\ cont[i] # "none"
                    /\ UNCHANGED <<cont, given>>
                    /\ proc' = ById(i, by, [proc[i] EXCEPT !.status = "failed"])
              /\ disturbed' = disturbed \cup Working(i)
              /\ mixed' = mixed \cup (IF Working(i) = {} /\ proc[i].by = by THEN {} ELSE {i})
<1>1. seen # NotSeen /\ seen \in [project : Known, by : Owners] /\ Owned(seen.by, seen.project)
  BY DEF KnownInv, SeenFits, Recreate
<1>2. seen.project \in Known \cap All /\ seen.by \in Owners
      /\ seen = [project |-> seen.project, by |-> seen.by]
  BY <1>1 DEF KnownInv, TypeOK, Known, All
<1> QED BY <1>1, <1>2 DEF Recreate, EnsureNetwork, EnsureTraefik, Merged

LEMMA WatchTyped ==
    ASSUME KnownInv, Recreate \/ (\E i \in All : Notice(i)) \/ Crash
    PROVE  TypeOK'
<1>1. RowsTyped /\ DockerTyped /\ EnvTyped /\ AsksTyped
  BY TypeParts DEF KnownInv
<1>2. CASE Recreate
  <2>1. UNCHANGED <<alive, used, apps, service, scont, garage, shared, read, replaced, askVars,
                    id, pc, faults, hurt, leaked, contended, before>>
    BY <1>2 DEF Recreate
  <2>2. PICK i \in Known \cap All, by \in Owners :
              /\ nets' = nets \cup {i} /\ traefik' = traefik \cup {i}
              /\ \/ /\ cont' = [cont EXCEPT ![i] = "watcher"]
                    /\ given' = [given EXCEPT ![i] = shared[i]]
                    /\ proc' = ById(i, by, [by |-> by, status |-> "running", container |-> "watcher"])
                 \/ /\ UNCHANGED <<cont, given>>
                    /\ proc' = ById(i, by, [proc[i] EXCEPT !.status = "failed"])
    BY <1>2, RecreateWrites
  <2>3. [by |-> by, status |-> "running", container |-> "watcher"] \in Row
    BY MakersTyped DEF Row
  <2>4. [proc[i] EXCEPT !.status = "failed"] \in Row
    BY <1>1, FailedRow DEF RowsTyped
  <2>5. /\ proc' \in [All -> Row]
        /\ \A j \in All : proc'[j] # NoRow => j \in apps
    <3>1. \A row \in Row : /\ ById(i, by, row) \in [All -> Row]
                           /\ \A j \in All : ById(i, by, row)[j] # NoRow => j \in apps
      BY <1>1, ByIdRow
    <3> QED BY <2>2, <2>3, <2>4, <3>1
  <2>6. RowsTyped'
    BY <1>1, <2>1, <2>5 DEF RowsTyped, Others, Known
  <2>7. DockerTyped'
    BY <1>1, <2>1, <2>2, MakersTyped DEF DockerTyped
  <2>8. EnvTyped'
    BY <1>1, <2>1, <2>2 DEF EnvTyped
  <2> QED BY <1>1, <2>1, <2>6, <2>7, <2>8, TypeParts DEF AsksTyped, askVars
<1>3. CASE \E i \in All : Notice(i)
  BY <1>1, <1>3, TypeParts
  DEF Notice, RowsTyped, DockerTyped, EnvTyped, AsksTyped, rowVars, dockerVars, envVars, askVars,
      Others, Known
<1>4. CASE Crash
  <2>1. AsksTyped'
    BY <1>1, <1>4, ProjectsAssumption DEF Crash, AsksTyped, askVars, States, Ended
  <2> QED BY <1>1, <1>4, <2>1, TypeParts
          DEF Crash, RowsTyped, DockerTyped, EnvTyped, rowVars, dockerVars, envVars, Others, Known
<1> QED BY <1>2, <1>3, <1>4

LEMMA WorkTyped ==
    ASSUME KnownInv, NEW r \in Requests, Work(r)
    PROVE  TypeOK'
BY DeletionTyped, UploadTyped, ServiceTyped, S3Typed, EnvsTyped DEF Work

-----------------------------------------------------------------------------
(* A step changes one project                                               *)

\* Nothing of project j changes but, perhaps, what its requests do next.
SameRows(j) ==
    /\ proc'[j] = proc[j] /\ service'[j] = service[j] /\ shared'[j] = shared[j]
    /\ j \in apps' <=> j \in apps
    /\ j \in alive' <=> j \in alive
SameDocker(j) ==
    /\ cont'[j] = cont[j] /\ scont'[j] = scont[j] /\ given'[j] = given[j]
    /\ j \in nets' <=> j \in nets
    /\ j \in traefik' <=> j \in traefik
    /\ j \in garage' <=> j \in garage
Same(j) == SameRows(j) /\ SameDocker(j)

\* A deletion that ends, and an upload whose row cannot be inserted: the steps that change
\* the rows of projects that they do not work on.

LEMMA DeletionLocal ==
    ASSUME KnownInv, NEW r \in Requests, DeletionStep(r), NEW j \in All
    PROVE  /\ SameRows(j) \/ DeleteRow(r)
           /\ j # id[r] => SameDocker(j)
<1>1. RowsTyped /\ DockerTyped /\ EnvTyped /\ id[r] \in All
  BY WorkMoves, TypeParts, AtWork DEF Work, Onward, KnownInv
<1>2. CASE List(r) \/ Services(r) \/ DeleteRow(r)
  BY <1>1, <1>2, DeletionMoves
  DEF List, Services, DeleteRow, FailsAt, OnlyRows, SameRows, SameDocker, rowVars, dockerVars, At, envVars
<1>3. CASE StopApp(r) \/ StopService(r) \/ Disconnect(r) \/ RemoveNetwork(r)
  BY <1>1, <1>3, DeletionMoves
  DEF StopApp, StopService, Disconnect, RemoveNetwork, OnlyDocker, SameRows, SameDocker, rowVars, At,
      envVars, DockerTyped
<1> QED BY <1>2, <1>3 DEF DeletionStep

LEMMA UploadLocal ==
    ASSUME KnownInv, NEW r \in Requests, UploadStep(r), NEW j \in All, j # id[r]
    PROVE  SameDocker(j) /\ (SameRows(j) \/ (j = Default /\ CreateRow(r) /\ DeleteDefault(r)))
<1>1. RowsTyped /\ DockerTyped /\ EnvTyped /\ id[r] \in All
  BY WorkMoves, TypeParts, AtWork DEF Work, Onward, KnownInv
<1>5. service' = service /\ shared' = shared /\ alive' = alive
  BY UploadMoves
<1>2. CASE StopOld(r) \/ Network(r)
  <2>1. SameRows(j)
    BY <1>2, UploadMoves DEF StopOld, Network, OnlyDocker, FailsAt, SameRows, rowVars
  <2>2. SameDocker(j)
    BY <1>1, <1>2 DEF StopOld, Stopped, Network, EnsureNetwork, EnsureTraefik, FailsAt, SameDocker,
                      dockerVars, At, envVars, DockerTyped
  <2> QED BY <2>1, <2>2
<1>3. CASE DeleteRows(r) \/ Save(r) \/ CreateRow(r)
  <2>1. SameDocker(j)
    BY <1>3 DEF DeleteRows, Save, CreateRow, OnlyRows, FailsAt, dockerVars, At, envVars, SameDocker
  <2>2. CASE DeleteRows(r) \/ Save(r)
    BY <1>1, <1>5, <2>1, <2>2 DEF DeleteRows, Save, FailsAt, SameRows, rowVars, RowsTyped
  <2>3. CASE CreateRow(r) /\ ~DeleteDefault(r)
    BY <1>1, <1>5, <2>1, <2>3 DEF CreateRow, SameRows, RowsTyped
  <2>4. CASE CreateRow(r) /\ DeleteDefault(r)
    BY <1>1, <1>5, <2>1, <2>4 DEF DeleteDefault, SameRows, RowsTyped
  <2> QED BY <1>3, <2>1, <2>2, <2>3, <2>4
<1>4. CASE ReadEnv(r) \/ Start(r) \/ Register(r)
  <2>1. proc'[j] = proc[j]
    BY <1>1, <1>4 DEF ReadEnv, Start, Register, ById, RowsTyped
  <2>2. SameDocker(j)
    BY <1>1, <1>4 DEF ReadEnv, Start, Register, OnlyRows, At, envVars, dockerVars, SameDocker,
                      DockerTyped, EnvTyped
  <2>3. apps' = apps
    BY <1>4 DEF ReadEnv, Start, Register
  <2> QED BY <2>1, <2>2, <2>3, UploadMoves DEF SameRows
<1> QED BY <1>2, <1>3, <1>4 DEF UploadStep

LEMMA ServiceLocal ==
    ASSUME KnownInv, NEW r \in Requests, ServiceStep(r), NEW j \in All, j # id[r]
    PROVE  Same(j)
<1>1. RowsTyped /\ DockerTyped
  BY TypeParts DEF KnownInv
<1> QED BY <1>1, ServiceMoves
        DEF ServiceStep, Insert, ServiceNetwork, StartService, Commit, EnsureNetwork, OnlyRows, OnlyDocker,
            rowVars, dockerVars, envVars, RowsTyped, DockerTyped, Same, SameRows, SameDocker

LEMMA S3Local ==
    ASSUME NEW r \in Requests, S3Step(r), NEW j \in All
    PROVE  SameRows(j) /\ (j # id[r] => SameDocker(j))
BY S3Moves DEF S3Step, InsertS3, ConnectGarage, EnsureNetwork, rowVars, dockerVars, envVars,
               SameRows, SameDocker

LEMMA EnvLocal ==
    ASSUME KnownInv, NEW r \in Requests, EnvStep(r), NEW j \in All
    PROVE  /\ SameDocker(j) /\ proc' = proc /\ service' = service /\ apps' = apps /\ alive' = alive
           /\ j # id[r] => SameRows(j)
BY EnvMoves, TypeParts
DEF EnvStep, GetEnv, PutEnv, CommitEnv, SameRows, SameDocker, rowVars, dockerVars, KnownInv, EnvTyped

\* A step of a request changes its own project, with two exceptions.
LEMMA WorkLocal ==
    ASSUME KnownInv, NEW r \in Requests, Work(r), NEW j \in All, j # id[r]
    PROVE  /\ SameDocker(j)
           /\ SameRows(j) \/ DeleteRow(r) \/ (j = Default /\ CreateRow(r) /\ DeleteDefault(r))
BY DeletionLocal, UploadLocal, ServiceLocal, S3Local, EnvLocal DEF Work, Same

-----------------------------------------------------------------------------
(* What is always known                                                     *)

\* An owner remains one: nobody asks twice.
LEMMA OwnedStays ==
    ASSUME KnownInv, NEW by, NEW i, Owned(by, i),
           \/ \E r \in Requests : Create(r) \/ BeginAny(r) \/ Work(r)
           \/ UNCHANGED <<kind, id>>
    PROVE  Owned(by, i)'
<1>1. \A r \in Requests : pc[r] = "idle" => kind[r] = "none"
  BY DEF KnownInv, AskFits
<1>2. AsksTyped
  BY TypeParts DEF KnownInv
<1>3. SUFFICES ASSUME by \in Requests PROVE kind'[by] = "upload" /\ id'[by] = i
  BY DEF Owned
<1>4. kind[by] = "upload" /\ id[by] = i
  BY <1>3 DEF Owned
<1>5. CASE \E r \in Requests : Create(r)
  BY <1>1, <1>2, <1>3, <1>4, <1>5 DEF Create, AsksTyped
<1>6. CASE \E r \in Requests : BeginAny(r)
  <2>1. PICK r \in Requests, k \in {"delete", "upload", "service", "s3", "env"},
             which \in {"default", "other"} : Begin(r, k, which)
    BY <1>6, BeginMoves
  <2>2. pc[r] = "idle" /\ kind' = [kind EXCEPT ![r] = k] /\ \E x : id' \in {id, [id EXCEPT ![r] = x]}
    BY <2>1, BeginFinds DEF Begin
  <2> QED BY <1>1, <1>2, <1>3, <1>4, <2>2 DEF AsksTyped
<1>7. CASE \E r \in Requests : Work(r)
  <2>1. PICK r \in Requests : Work(r)
    BY <1>7
  <2>2. kind' = kind
    BY <2>1, WorkMoves DEF Onward, askVars
  <2>3. CASE PutEnv(r)
    <3>1. kind[r] = "env"
      BY <2>3 DEF KnownInv, AskFits, PutEnv, EnvSteps
    <3> QED BY <1>2, <1>3, <1>4, <2>2, <2>3, <3>1 DEF PutEnv, AsksTyped
  <2>4. CASE ~PutEnv(r)
    <3>1. id' = id
      BY <2>1, <2>4, DeletionMoves, UploadMoves, ServiceMoves, S3Moves
      DEF Work, EnvStep, GetEnv, CommitEnv, Turn
    <3> QED BY <1>3, <1>4, <2>2, <3>1
  <2> QED BY <2>3, <2>4
<1>8. CASE UNCHANGED <<kind, id>>
  BY <1>3, <1>4, <1>8
<1> QED BY <1>5, <1>6, <1>7, <1>8

\* A row stays, loses its process, or is written by its own upload or the watcher.
Written(i) ==
    \/ proc'[i] = proc[i] \/ proc'[i] = NoRow
    \/ \E r \in Requests :
          /\ Owned(r, i)
          /\ \/ proc'[i] = [by |-> r, status |-> "building", container |-> "none"]
             \/ proc'[i] = [by |-> r, status |-> "running", container |-> r]
    \/ proc[i] # NoRow /\ proc'[i] = [proc[i] EXCEPT !.status = "failed"]
    \/ \E by \in Owners :
          /\ Owned(by, i)
          /\ proc'[i] = [by |-> by, status |-> "running", container |-> "watcher"]

LEMMA RowStaysFit ==
    ASSUME KnownInv, NEW i \in All, Written(i), TypeOK',
           \A by : Owned(by, i) => Owned(by, i)'
    PROVE  RowFits(i)'
<1>1. RowFits(i) /\ proc[i] \in Row
  BY DEF KnownInv, TypeOK, Row
<1>2. CASE proc'[i] = proc[i] \/ proc'[i] = NoRow
  BY <1>1, <1>2 DEF RowFits
<1>3. CASE proc[i] # NoRow /\ proc'[i] = [proc[i] EXCEPT !.status = "failed"]
  <2>1. proc'[i] = [by |-> proc[i].by, status |-> "failed", container |-> proc[i].container]
    BY <1>1, <1>3, FailedRow
  <2>2. /\ proc'[i].by = proc[i].by /\ proc'[i].status = "failed"
        /\ proc'[i].container = proc[i].container
    BY <2>1
  <2> QED BY <1>1, <1>3, <2>2 DEF RowFits
<1>4. ASSUME NEW r \in Requests, Owned(r, i),
             \/ proc'[i] = [by |-> r, status |-> "building", container |-> "none"]
             \/ proc'[i] = [by |-> r, status |-> "running", container |-> r]
      PROVE  RowFits(i)'
  <2>1. Owned(r, i)' /\ r # "none"
    BY <1>4, ProjectsAssumption
  <2>2. /\ proc'[i].by = r /\ proc'[i].status # "none" /\ proc'[i].container \in {"none", r}
        /\ proc'[i].status = "running" => proc'[i].container # "none"
    BY <1>4, <2>1
  <2> QED BY <2>1, <2>2 DEF RowFits
<1>5. ASSUME NEW by \in Owners, Owned(by, i),
             proc'[i] = [by |-> by, status |-> "running", container |-> "watcher"]
      PROVE  RowFits(i)'
  BY <1>5 DEF RowFits
<1> QED BY <1>2, <1>3, <1>4, <1>5 DEF Written

LEMMA UploadWrites ==
    ASSUME KnownInv, NEW r \in Requests, UploadStep(r), NEW i \in All
    PROVE  Written(i)
<1>1. RowsTyped /\ id[r] \in All /\ r \in Owners
  BY WorkMoves, TypeParts, AtWork DEF Work, Onward, KnownInv, Owners
<1>2. Owned(r, id[r])
  BY <1>1, UploadMoves DEF KnownInv, AskFits, Goes, Owned
<1>3. CASE StopOld(r) \/ Network(r)
  BY <1>3 DEF StopOld, Network, OnlyDocker, FailsAt, rowVars, Written
<1>4. CASE DeleteRows(r) \/ Save(r) \/ (CreateRow(r) /\ DeleteDefault(r))
  BY <1>1, <1>4 DEF DeleteRows, Save, DeleteDefault, FailsAt, rowVars, Written, RowsTyped
<1>5. CASE CreateRow(r) /\ ~DeleteDefault(r)
  BY <1>1, <1>2, <1>5 DEF CreateRow, Written, RowsTyped
<1>6. CASE ReadEnv(r) \/ Start(r) \/ Register(r)
  <2>1. \/ proc' = proc
        \/ proc' = ById(id[r], r, [proc[id[r]] EXCEPT !.status = "failed"])
        \/ proc' = ById(id[r], r, [by |-> r, status |-> "running", container |-> r])
    BY <1>6 DEF ReadEnv, Start, Register
  <2>2. /\ [proc[id[r]] EXCEPT !.status = "failed"] \in Row
        /\ [by |-> r, status |-> "running", container |-> r] \in Row
    BY <1>1, FailedRow, NewRow DEF RowsTyped
  <2>3. \A row \in Row :
           LET new == ById(id[r], r, row) IN
           /\ i # id[r] => new[i] = proc[i]
           /\ new[id[r]] = proc[id[r]] \/ (proc[id[r]] # NoRow /\ new[id[r]] = row)
    BY <1>1, ByIdRow DEF ById
  <2> QED BY <1>2, <2>1, <2>2, <2>3 DEF Written
<1> QED BY <1>3, <1>4, <1>5, <1>6 DEF UploadStep

LEMMA WorkWrites ==
    ASSUME KnownInv, NEW r \in Requests, Work(r), NEW i \in All
    PROVE  Written(i)
<1>1. CASE UploadStep(r)
  BY <1>1, UploadWrites
<1>2. CASE DeletionStep(r)
  <2>1. CASE DeleteRow(r)
    BY <2>1 DEF DeleteRow, FailsAt, rowVars, Written
  <2> QED BY <1>2, <2>1, DeletionLocal DEF SameRows, Written
<1>3. CASE ServiceStep(r) \/ S3Step(r) \/ EnvStep(r)
  BY <1>3, ServiceMoves, S3Moves, EnvMoves DEF rowVars, Written
<1> QED BY <1>1, <1>2, <1>3 DEF Work

\* A step of a request in flight leaves every request at a step of its own.
LEMMA WorkAsks ==
    ASSUME KnownInv, NEW r \in Requests, Work(r), NEW s \in Requests
    PROVE  AskFits(s)'
<1>0. AsksTyped /\ RowsTyped /\ AskFits(s)
  BY TypeParts DEF KnownInv
<1>1. /\ kind' = kind /\ named' = named /\ used' = used
      /\ \E to \in States : pc' = [pc EXCEPT ![r] = to]
  BY WorkMoves DEF Onward, askVars, Goto
<1>2. id' = id \/ (PutEnv(r) /\ \E i \in Others : id' = [id EXCEPT ![r] = i])
  BY DeletionMoves, UploadMoves, ServiceMoves, S3Moves
  DEF Work, EnvStep, GetEnv, PutEnv, CommitEnv, Turn
<1>3. CASE s # r
  <2>1. pc'[s] = pc[s] /\ id'[s] = id[s]
    BY <1>0, <1>1, <1>2, <1>3 DEF AsksTyped
  <2> QED BY <1>0, <1>1, <2>1 DEF AskFits, InFlight, Known
<1>4. CASE s = r
  <2>0. InFlight(r) /\ named[r] \in {"default", "other"}
    BY <1>0, WorkMoves DEF Onward, AsksTyped
  <2>1. id'[r] \in Known' \cup {"none"} /\ (id'[r] = id[r] \/ (kind[r] = "env" /\ id'[r] \in Ids))
    <3>1. CASE id' = id
      BY <1>0, <1>1, <1>4, <3>1 DEF AskFits, Known
    <3>2. CASE PutEnv(r) /\ \E i \in Others : id' = [id EXCEPT ![r] = i]
      BY <1>0, <1>1, <1>4, <3>2 DEF PutEnv, AskFits, EnvSteps, AsksTyped, RowsTyped, Others, Known
    <3> QED BY <1>2, <3>1, <3>2
  <2>2. PICK steps \in {DeleteSteps, UploadSteps, ServiceSteps, S3Steps, EnvSteps} :
           /\ pc[r] \in steps
           /\ \E to \in steps \cup {"ok", "failed", "refused"} : Goto(r, to)
    BY DeletionMoves, UploadMoves, ServiceMoves, S3Moves, EnvMoves DEF Work, Goes
  <2>3. pc'[r] \in steps \cup {"ok", "failed", "refused"}
    BY <1>0, <2>2 DEF Goto, AsksTyped
  <2>4. /\ pc'[r] # "idle"
        /\ pc'[r] \in UploadSteps => pc[r] \in UploadSteps
        /\ pc'[r] \in DeleteSteps => pc[r] \in DeleteSteps
        /\ pc'[r] \in ServiceSteps => pc[r] \in ServiceSteps
        /\ pc'[r] \in S3Steps => pc[r] \in S3Steps
        /\ pc'[r] \in EnvSteps => pc[r] \in EnvSteps
    BY <2>2, <2>3 DEF DeleteSteps, UploadSteps, ServiceSteps, S3Steps, EnvSteps
  <2>5. \/ named[r] = "default" /\ id'[r] = Default /\ kind[r] = "upload"
        \/ named[r] = "other" /\ id'[r] \in Ids
    BY <1>0, <1>4, <2>0, <2>1 DEF AskFits
  <2> QED BY <1>0, <1>1, <1>4, <2>1, <2>4, <2>5 DEF AskFits
<1> QED BY <1>3, <1>4

\* Who holds a project after a step, held it before, or found it free.
LEMMA WorkLocks ==
    ASSUME KnownInv, NEW r \in Requests, Work(r), NEW i \in All
    PROVE  LockFits(i)'
<1>0. AsksTyped /\ RowsTyped /\ LockFits(i) /\ InFlight(r)
  BY TypeParts, WorkMoves DEF KnownInv, Onward
<1>1. /\ \E to \in States : pc' = [pc EXCEPT ![r] = to]
      /\ id' = id \/ (pc'[r] = "commit_env" /\ \E x : id' = [id EXCEPT ![r] = x])
               \/ (pc'[r] = "refused" /\ id' = id)
  <2>1. \E to \in States : pc' = [pc EXCEPT ![r] = to]
    BY WorkMoves DEF Onward, Goto
  <2>2. id' = id \/ PutEnv(r)
    BY DeletionMoves, UploadMoves, ServiceMoves, S3Moves DEF Work, EnvStep, GetEnv, CommitEnv, Turn
  <2> QED BY <1>0, <2>1, <2>2 DEF PutEnv, Goto, AsksTyped
<1>2. \A s \in Requests \ {r} : Holds(s, i)' => Holds(s, i)
  BY <1>0, <1>1 DEF Holds, AsksTyped
<1>3. CASE ServiceStep(r)
  <2>1. id' = id /\ alive' = alive
    BY <1>3, ServiceMoves
  <2>2. CASE Insert(r)
    <3>1. service' = service
      BY <2>2 DEF Insert, rowVars
    <3>2. Holds(r, i)' => /\ i \in alive /\ service[i] = "none"
                          /\ \A s \in Requests : ~Holds(s, i)
      BY <1>0, <1>1, <2>1, <2>2 DEF Insert, Holds, Holding, Locked, Goto, AsksTyped
    <3> QED BY <1>0, <1>2, <2>1, <3>1, <3>2 DEF LockFits
  <2>3. CASE ServiceNetwork(r) \/ StartService(r)
    <3>1. service' = service
      BY <2>3 DEF ServiceNetwork, StartService, OnlyDocker, rowVars
    <3>2. Holds(r, i)' => Holds(r, i)
      BY <1>0, <1>1, <2>1, <2>3
      DEF ServiceNetwork, StartService, At, Turn, Holds, Holding, Goto, AsksTyped
    <3> QED BY <1>0, <1>2, <2>1, <3>1, <3>2 DEF LockFits
  <2>4. CASE Commit(r)
    <3>1. ~Holds(r, i)' /\ (id[r] = i => Holds(r, i)) /\ (id[r] # i => service'[i] = service[i])
      BY <1>0, <1>1, <2>1, <2>4 DEF Commit, At, Turn, Holds, Holding, Goto, AsksTyped, RowsTyped
    <3> QED BY <1>0, <1>2, <2>1, <3>1 DEF LockFits
  <2> QED BY <1>3, <2>2, <2>3, <2>4 DEF ServiceStep
<1>4. CASE ~ServiceStep(r)
  <2>1. ~Holds(r, i)'
    <3>1. pc'[r] \in DeleteSteps \cup UploadSteps \cup S3Steps \cup EnvSteps \cup {"ok", "failed", "refused"}
      BY <1>0, <1>4, DeletionMoves, UploadMoves, S3Moves, EnvMoves DEF Work, Goes, Goto, AsksTyped
    <3> QED BY <3>1 DEF Holds, Holding, DeleteSteps, UploadSteps, S3Steps, EnvSteps
  <2>2. CASE DeleteRow(r)
    <3>1. \/ alive' = alive /\ service' = service
          \/ i \in Others /\ \A s \in Requests : ~Holds(s, i)
          \/ i \notin Others /\ service'[i] = service[i] /\ (i \in alive => i \in alive')
      BY <2>2 DEF DeleteRow, Locked, Holds, Holding, FailsAt, rowVars
    <3> QED BY <1>0, <1>2, <2>1, <3>1 DEF LockFits
  <2>3. CASE ~DeleteRow(r)
    <3>1. service'[i] = service[i] /\ (i \in alive => i \in alive')
      BY <1>4, <2>3, DeletionLocal, UploadMoves, S3Local, EnvLocal DEF Work, SameRows
    <3> QED BY <1>0, <1>2, <2>1, <3>1 DEF LockFits
  <2> QED BY <2>2, <2>3
<1> QED BY <1>3, <1>4

LEMMA WorkKnown ==
    ASSUME KnownInv, NEW r \in Requests, Work(r)
    PROVE  KnownInv'
<1>1. TypeOK'
  BY WorkTyped
<1>2. \A by, i : Owned(by, i) => Owned(by, i)'
  BY OwnedStays
<1>3. \A i \in All : RowFits(i)'
  BY <1>1, <1>2, WorkWrites, RowStaysFit
<1>4. SeenFits'
  <2>1. seen' = seen /\ Known' = Known
    BY WorkMoves DEF Onward, Known
  <2> QED BY <1>2, <2>1 DEF KnownInv, SeenFits
<1>5. \A i \in All \ Known' : Fresh(i)'
  <2>1. Known' = Known /\ id[r] \in Known
    BY WorkMoves, AtWork DEF Onward, Known
  <2> QED BY <2>1, WorkLocal DEF KnownInv, Fresh, SameDocker
<1> QED BY <1>1, <1>3, <1>4, <1>5, WorkAsks, WorkLocks DEF KnownInv

LEMMA BeginKnown ==
    ASSUME KnownInv, NEW r \in Requests, BeginAny(r)
    PROVE  KnownInv'
<1>0. TypeOK' /\ RowsTyped /\ AsksTyped
  BY BeginTyped, TypeParts DEF KnownInv
<1>1. PICK k \in {"delete", "upload", "service", "s3", "env"}, which \in {"default", "other"} :
          (which = "default" => k = "upload") /\ Begin(r, k, which)
  BY BeginMoves
<1>2. /\ pc[r] = "idle" /\ kind' = [kind EXCEPT ![r] = k] /\ named' = [named EXCEPT ![r] = which]
      /\ UNCHANGED <<rowVars, dockerVars, envVars, seen, faults>>
  BY <1>1 DEF Begin
<1>3. \/ pc' = [pc EXCEPT ![r] = "refused"] /\ id' = id
      \/ \E i \in Found(which) :
            /\ i \in alive /\ (IF which = "default" THEN i = Default ELSE i \in Ids)
            /\ id' = [id EXCEPT ![r] = i] /\ pc' = [pc EXCEPT ![r] = First[k]]
  BY <1>1, BeginFinds
<1>4. UNCHANGED <<alive, used, apps, proc, service, cont, scont, nets, traefik, garage>>
  BY <1>2 DEF rowVars, dockerVars
<1>5. \A s \in Requests : AskFits(s)'
  <2>1. ASSUME NEW s \in Requests, s # r PROVE AskFits(s)'
    <3>1. pc'[s] = pc[s] /\ id'[s] = id[s] /\ kind'[s] = kind[s] /\ named'[s] = named[s]
      BY <1>0, <1>2, <1>3, <2>1 DEF AsksTyped
    <3> QED BY <1>4, <3>1 DEF KnownInv, AskFits, InFlight, Known
  <2>2. AskFits(r)'
    <3>1. kind'[r] = k /\ named'[r] = which /\ AskFits(r)
      BY <1>0, <1>2 DEF AsksTyped, KnownInv
    <3>2. CASE pc' = [pc EXCEPT ![r] = "refused"] /\ id' = id
      <4>1. pc'[r] = "refused" /\ id'[r] = id[r]
        BY <1>0, <3>2 DEF AsksTyped
      <4> QED BY <1>4, <3>1, <4>1 DEF AskFits, InFlight, Ended, Known, UploadSteps, DeleteSteps,
                                      ServiceSteps, S3Steps, EnvSteps
    <3>3. CASE \E i \in Found(which) :
                  /\ i \in alive /\ (IF which = "default" THEN i = Default ELSE i \in Ids)
                  /\ id' = [id EXCEPT ![r] = i] /\ pc' = [pc EXCEPT ![r] = First[k]]
      <4>1. PICK i \in alive : /\ IF which = "default" THEN i = Default ELSE i \in Ids
                               /\ id'[r] = i /\ pc'[r] = First[k]
        BY <1>0, <3>3 DEF AsksTyped
      <4>2. i \in Known'
        BY <1>0, <1>4 DEF RowsTyped, Known
      <4> QED BY <1>1, <3>1, <4>1, <4>2, FirstSteps DEF AskFits, UploadSteps, DeleteSteps,
                                      ServiceSteps, S3Steps, EnvSteps
    <3> QED BY <1>3, <3>2, <3>3
  <2> QED BY <2>1, <2>2
<1>6. \A by, i : Owned(by, i) => Owned(by, i)'
  BY OwnedStays
<1>7. \A i \in All : RowFits(i)'
  BY <1>0, <1>4, <1>6, RowStaysFit DEF Written
<1>8. \A i \in All : LockFits(i)'
  <2>1. \A s \in Requests, i \in All : Holds(s, i)' => Holds(s, i)
    <3>1. First[k] \notin Holding
      BY FirstSteps DEF Holding
    <3> QED BY <1>0, <1>3, <3>1 DEF Holds, Holding, AsksTyped
  <2> QED BY <1>4, <2>1 DEF KnownInv, LockFits
<1>9. SeenFits' /\ \A i \in All \ Known' : Fresh(i)'
  BY <1>2, <1>4, <1>6 DEF KnownInv, SeenFits, Fresh, Known
<1> QED BY <1>0, <1>5, <1>7, <1>8, <1>9 DEF KnownInv

LEMMA CreateKnown ==
    ASSUME KnownInv, NEW r \in Requests, Create(r)
    PROVE  KnownInv'
<1>0. TypeOK' /\ RowsTyped /\ AsksTyped
  BY CreateTyped, TypeParts DEF KnownInv
<1>1. /\ pc[r] = "idle" /\ kind' = [kind EXCEPT ![r] = "create"] /\ named' = [named EXCEPT ![r] = "other"]
      /\ UNCHANGED <<apps, proc, service, cont, scont, nets, traefik, garage, id, seen>>
      /\ \E to \in {"ok", "refused"} : pc' = [pc EXCEPT ![r] = to]
      /\ alive \subseteq alive' /\ Known \subseteq Known'
  BY DEF Create, rowVars, dockerVars, Goto, Known
<1>2. \A s \in Requests : AskFits(s)'
  <2>1. ASSUME NEW s \in Requests, s # r PROVE AskFits(s)'
    <3>1. pc'[s] = pc[s] /\ id'[s] = id[s] /\ kind'[s] = kind[s] /\ named'[s] = named[s]
      BY <1>0, <1>1, <2>1 DEF AsksTyped
    <3> QED BY <1>1, <3>1 DEF KnownInv, AskFits, InFlight
  <2>2. pc'[r] \in {"ok", "refused"} /\ id'[r] \in Known' \cup {"none"}
    BY <1>0, <1>1 DEF AsksTyped, KnownInv, AskFits
  <2>3. AskFits(r)'
    BY <2>2 DEF AskFits, InFlight, Ended, UploadSteps, DeleteSteps, ServiceSteps, S3Steps, EnvSteps
  <2> QED BY <2>1, <2>3
<1>3. \A by, i : Owned(by, i) => Owned(by, i)'
  BY OwnedStays
<1>4. \A i \in All : RowFits(i)'
  BY <1>0, <1>1, <1>3, RowStaysFit DEF Written
<1>5. \A i \in All : LockFits(i)'
  <2>1. \A s \in Requests, i \in All : Holds(s, i)' => Holds(s, i)
    BY <1>0, <1>1 DEF Holds, Holding, AsksTyped
  <2> QED BY <1>1, <2>1 DEF KnownInv, LockFits
<1>6. SeenFits' /\ \A i \in All \ Known' : Fresh(i)'
  BY <1>1, <1>3 DEF KnownInv, SeenFits, Fresh
<1> QED BY <1>0, <1>2, <1>4, <1>5, <1>6 DEF KnownInv

LEMMA RecreateKnown ==
    ASSUME KnownInv, Recreate
    PROVE  KnownInv'
<1>0. TypeOK' /\ RowsTyped
  BY WatchTyped, TypeParts DEF KnownInv
<1>1. UNCHANGED <<alive, used, apps, service, scont, kind, named, id, pc>>
  BY DEF Recreate, askVars
<1>2. PICK i \in Known \cap All, by \in Owners :
          /\ Owned(by, i) /\ seen' = NotSeen /\ nets' = nets \cup {i}
          /\ \/ /\ cont' = [cont EXCEPT ![i] = "watcher"]
                /\ proc' = ById(i, by, [by |-> by, status |-> "running", container |-> "watcher"])
             \/ /\ UNCHANGED cont
                /\ proc' = ById(i, by, [proc[i] EXCEPT !.status = "failed"])
  BY RecreateWrites
<1>3. \A p, j : Owned(p, j) => Owned(p, j)'
  BY <1>1 DEF Owned
<1>4. ASSUME NEW j \in All PROVE RowFits(j)'
  <2>1. /\ [by |-> by, status |-> "running", container |-> "watcher"] \in Row
        /\ [proc[i] EXCEPT !.status = "failed"] \in Row
    BY <1>0, MakersTyped, FailedRow DEF RowsTyped, Row
  <2>2. \A row \in Row :
           LET new == ById(i, by, row) IN
           /\ j # i => new[j] = proc[j]
           /\ new[i] = proc[i] \/ (proc[i] # NoRow /\ new[i] = row)
    BY <1>0, ByIdRow DEF ById
  <2>3. Written(j)
    BY <1>2, <2>1, <2>2 DEF Written
  <2> QED BY <1>0, <1>3, <2>3, RowStaysFit
<1>5. SeenFits'
  BY <1>2 DEF SeenFits
<1>6. \A j \in All \ Known' : Fresh(j)'
  BY <1>1, <1>2 DEF KnownInv, Fresh, Known, TypeOK
<1>7. \A s \in Requests : AskFits(s)'
  BY <1>1 DEF KnownInv, AskFits, InFlight, Known
<1>8. \A j \in All : LockFits(j)'
  BY <1>1 DEF KnownInv, LockFits, Holds
<1> QED BY <1>0, <1>4, <1>5, <1>6, <1>7, <1>8 DEF KnownInv

LEMMA RestKnown ==
    ASSUME KnownInv, (\E i \in All : Notice(i)) \/ Crash \/ UNCHANGED vars
    PROVE  KnownInv'
<1>0. TypeOK'
  <2>1. CASE UNCHANGED vars
    BY <2>1 DEF KnownInv, TypeOK, vars, rowVars, dockerVars, envVars, askVars, Others
  <2> QED BY <2>1, WatchTyped
<1>1. /\ UNCHANGED <<alive, used, apps, proc, service, cont, scont, nets, kind, named, id>>
      /\ UNCHANGED pc \/ (pc' = [s \in Requests |-> IF InFlight(s) THEN "lost" ELSE pc[s]])
  BY DEF Notice, Crash, vars, rowVars, dockerVars, askVars
<1>2. \A s \in Requests : pc'[s] = pc[s] \/ pc'[s] = "lost"
  BY <1>1
<1>3. SeenFits'
  <2>1. CASE \E i \in All : Notice(i)
    <3>1. PICK i \in All : Notice(i)
      BY <2>1
    <3>2. RowFits(i) /\ proc[i] # NoRow /\ i \in apps /\ i \in Known
      <4>1. proc[i] # NoRow
        BY <3>1 DEF Notice, NoRow
      <4> QED BY <4>1 DEF KnownInv, TypeOK, Known
    <3>3. Owned(proc[i].by, i)
      BY <3>2 DEF RowFits
    <3> QED BY <1>1, <3>1, <3>2, <3>3 DEF Notice, SeenFits, Owned, Known
  <2>2. CASE seen' = seen \/ seen' = NotSeen
    BY <1>1, <2>2 DEF KnownInv, SeenFits, Owned, Known
  <2> QED BY <2>1, <2>2 DEF Crash, vars
<1>4. \A s \in Requests : AskFits(s)'
  BY <1>1, <1>2 DEF KnownInv, AskFits, InFlight, Ended, Known, UploadSteps, DeleteSteps, ServiceSteps,
                    S3Steps, EnvSteps
<1>5. \A i \in All : RowFits(i)' /\ LockFits(i)'
  BY <1>1, <1>2 DEF KnownInv, RowFits, Owned, LockFits, Holds, Holding
<1>6. \A i \in All \ Known' : Fresh(i)'
  BY <1>1 DEF KnownInv, Fresh, Known
<1> QED BY <1>0, <1>3, <1>4, <1>5, <1>6 DEF KnownInv

LEMMA KnownInit == Init => KnownInv
<1> SUFFICES ASSUME Init PROVE KnownInv
  OBVIOUS
<1>1. PICK first \in {{}} \cup {{i} : i \in Ids} : \E deployed \in SUBSET ({Default} \cup first) :
        /\ alive = {Default} \cup first
        /\ used = first
        /\ apps = deployed
        /\ proc = [i \in All |-> IF i \in deployed
                     THEN [by |-> Base, status |-> "running", container |-> Base] ELSE NoRow]
        /\ cont = [i \in All |-> IF i \in deployed THEN Base ELSE "none"]
        /\ service = [i \in All |-> "none"]
        /\ scont = [i \in All |-> {}]
        /\ nets = deployed
        /\ traefik = deployed
        /\ garage = {}
        /\ shared = [i \in All |-> {}] /\ given = [i \in All |-> {}]
        /\ read = [r \in Requests |-> {}] /\ replaced = [r \in Requests |-> {}]
        /\ kind = [r \in Requests |-> "none"]
        /\ named = [r \in Requests |-> "default"]
        /\ id = [r \in Requests |-> "none"]
        /\ pc = [r \in Requests |-> "idle"]
        /\ seen = NotSeen
        /\ faults = 0
  BY DEF Init
<1>11. PICK deployed \in SUBSET ({Default} \cup first) :
        /\ alive = {Default} \cup first
        /\ used = first
        /\ apps = deployed
        /\ proc = [i \in All |-> IF i \in deployed
                     THEN [by |-> Base, status |-> "running", container |-> Base] ELSE NoRow]
        /\ cont = [i \in All |-> IF i \in deployed THEN Base ELSE "none"]
        /\ service = [i \in All |-> "none"]
        /\ scont = [i \in All |-> {}]
        /\ nets = deployed
        /\ traefik = deployed
        /\ garage = {}
        /\ shared = [i \in All |-> {}] /\ given = [i \in All |-> {}]
        /\ read = [r \in Requests |-> {}] /\ replaced = [r \in Requests |-> {}]
        /\ kind = [r \in Requests |-> "none"]
        /\ named = [r \in Requests |-> "default"]
        /\ id = [r \in Requests |-> "none"]
        /\ pc = [r \in Requests |-> "idle"]
        /\ seen = NotSeen
        /\ faults = 0
  BY <1>1
<1>2. first \subseteq Ids /\ (\A i, j \in first : i = j) /\ deployed \subseteq All
  BY <1>11 DEF All
<1>3. [by |-> Base, status |-> "running", container |-> Base] \in Row
  BY MakersTyped DEF Row, Owners
<1>4. RowsTyped
  BY <1>11, <1>2, <1>3, MakersTyped DEF RowsTyped, Others, Known
<1>5. DockerTyped
  BY <1>11, <1>2, MakersTyped DEF DockerTyped, Owners
<1>6. EnvTyped
  BY <1>11 DEF EnvTyped
<1>7. AsksTyped
  BY <1>11, ProjectsAssumption DEF AsksTyped, Kinds, States, Ended
<1>8. \A i \in All : RowFits(i) /\ LockFits(i)
  BY <1>11, ProjectsAssumption DEF RowFits, LockFits, Holds, Holding, Owned, Owners
<1>9. \A r \in Requests : AskFits(r)
  BY <1>11 DEF AskFits, InFlight, Ended, UploadSteps, DeleteSteps, ServiceSteps, S3Steps, EnvSteps
<1>10. \A i \in All \ Known : Fresh(i)
  BY <1>11 DEF Fresh, Known
<1> QED BY <1>11, <1>4, <1>5, <1>6, <1>7, <1>8, <1>9, <1>10, TypeParts DEF KnownInv, SeenFits

LEMMA KnownNext == KnownInv /\ [Next]_vars => KnownInv'
BY WorkKnown, BeginKnown, CreateKnown, RecreateKnown, RestKnown, StepKinds DEF Next

\* Every variable keeps its type, whatever the requests, the watcher and the server do.
THEOREM ProjectsTypeCorrect == Spec => []TypeOK
<1>1. KnownInv => TypeOK
  BY DEF KnownInv
<1> QED BY <1>1, KnownInit, KnownNext, PTL DEF Spec

-----------------------------------------------------------------------------
(* Which requests meet                                                      *)

\* Two requests in flight for the same name: a deletion mixes the projects of both, two
\* uploads may leave something half done, two settings contend, and a request that is
\* not disturbed is alone of its kind.
Meet(r, s) == r # s /\ InFlight(r) /\ InFlight(s) /\ named[r] = named[s]
Company(r, s) ==
    Meet(r, s) =>
        /\ kind[r] = "delete" => id[r] \in mixed /\ id[s] \in mixed
        /\ kind[r] = "upload" /\ kind[s] = "upload" /\ id[r] = id[s] => id[r] \in hurt /\ id[r] \in leaked
        /\ kind[r] = "env" /\ kind[s] = "env" /\ id[r] = id[s] => id[r] \in contended \cup mixed
        /\ r \notin disturbed => kind[r] # "delete" /\ kind[s] # "delete" /\ kind[s] # kind[r]

\* A request in flight for a project that is gone is one that a deletion met; one for the
\* other project of now is for that one.
Placed(r) ==
    InFlight(r) =>
        /\ r \notin disturbed => id[r] \in alive
        /\ id[r] \notin alive => id[r] \in mixed
        /\ kind[r] \in {"delete", "env"} => \A i \in Others \ mixed : id[r] = i

CompanyInv ==
    /\ KnownInv
    /\ before \in [Requests -> SUBSET Requests]
    /\ \A r, s \in Requests : Company(r, s)
    /\ \A r \in Requests : Placed(r)

LEMMA WorkCompany ==
    ASSUME CompanyInv, NEW q \in Requests, Work(q)
    PROVE  CompanyInv'
<1>0. KnownInv /\ KnownInv' /\ AsksTyped
  BY WorkKnown, TypeParts DEF CompanyInv, KnownInv
<1>1. /\ UNCHANGED <<kind, named, mixed, contended, before>>
      /\ hurt \subseteq hurt' /\ leaked \subseteq leaked' /\ disturbed \subseteq disturbed'
      /\ InFlight(q) /\ \E to \in States : pc' = [pc EXCEPT ![q] = to]
  BY WorkMoves DEF Onward, Judged, askVars, Goto
<1>2. \A r \in Requests : InFlight(r)' => InFlight(r)
  BY <1>0, <1>1 DEF InFlight, AsksTyped
<1>3. Others' \subseteq Others
  BY DeletionMoves, UploadMoves, ServiceMoves, S3Moves, EnvMoves
  DEF Work, DeletionStep, List, StopApp, Services, StopService, Disconnect, RemoveNetwork, DeleteRow,
      OnlyDocker, FailsAt, rowVars, Others
<1>4. CASE PutEnv(q) /\ \E i \in Others : id' = [id EXCEPT ![q] = i]
  <2>1. PICK i \in Others : id' = [id EXCEPT ![q] = i]
    BY <1>4
  <2>2. kind[q] = "env" /\ named[q] = "other" /\ UNCHANGED <<alive, disturbed, hurt, leaked>>
    BY <1>0, <1>1, <1>4, EnvMoves DEF PutEnv, KnownInv, AskFits, EnvSteps, rowVars, NoFault
  <2>3. id'[q] = i /\ \A r \in Requests \ {q} : id'[r] = id[r]
    BY <1>0, <2>1 DEF AsksTyped
  <2>4. i \notin mixed => id[q] = i
    BY <1>1, <2>2 DEF CompanyInv, Placed
  <2>5. \A x, y \in Others : x = y
    BY <1>0 DEF KnownInv, TypeOK
  <2>6. ASSUME NEW r \in Requests PROVE Placed(r)'
    <3>1. CASE r # q
      BY <1>1, <1>2, <2>2, <2>3, <3>1 DEF CompanyInv, Placed, Others
    <3>2. CASE r = q
      BY <2>1, <2>2, <2>3, <2>5, <3>2 DEF Placed, Others
    <3> QED BY <3>1, <3>2
  <2>7. ASSUME NEW r \in Requests, NEW s \in Requests, Meet(r, s)' PROVE Company(r, s)'
    <3>0. Meet(r, s) /\ Meet(s, r) /\ Company(r, s) /\ Company(s, r)
      BY <1>1, <1>2, <2>7 DEF Meet, CompanyInv
    <3>1. CASE r # q /\ s # q
      BY <1>1, <2>2, <2>3, <3>0, <3>1 DEF Company
    <3>2. CASE r = q
      <4>1. kind[s] = "delete" => id[s] \in mixed
        BY <3>0 DEF Company
      <4>2. kind[s] = "env" /\ id[s] = i => i \in contended \cup mixed
        BY <2>2, <2>4, <3>0, <3>2 DEF Company
      <4>3. s # q
        BY <3>0, <3>2 DEF Meet
      <4> QED BY <1>1, <2>2, <2>3, <3>0, <3>2, <4>1, <4>2, <4>3 DEF Company
    <3>3. CASE s = q /\ r # q
      <4>1. kind[r] = "delete" => id[r] \in mixed /\ i \in mixed
        <5>1. kind[r] = "delete" => id[r] \in mixed /\ \A x \in Others \ mixed : id[r] = x
          BY <3>0 DEF Company, CompanyInv, Placed, Meet
        <5> QED BY <5>1
      <4>2. kind[r] = "env" /\ id[r] = i => i \in contended \cup mixed
        BY <2>2, <2>4, <3>0, <3>3 DEF Company
      <4> QED BY <1>1, <2>2, <2>3, <3>0, <3>3, <4>1, <4>2 DEF Company
    <3> QED BY <3>1, <3>2, <3>3
  <2> QED BY <1>0, <1>1, <2>6, <2>7 DEF CompanyInv, Company
<1>5. CASE id' = id
  <2>1. ASSUME NEW r \in Requests PROVE Placed(r)'
    <3>1. CASE DeleteRow(q)
      <4>0. SUFFICES ASSUME InFlight(r)' PROVE Placed(r)'
        BY DEF Placed
      <4>1. r # q
        BY <1>0, <3>1, <4>0 DEF DeleteRow, FailsAt, InFlight, Ended, Goto, AsksTyped
      <4>2. kind[q] = "delete" /\ named[q] = "other" /\ InFlight(q)
        <5>1. kind[q] = "delete" /\ InFlight(q)
          BY <1>0, <1>1, <3>1 DEF DeleteRow, Turn, KnownInv, AskFits, DeleteSteps
        <5> QED BY <1>0, <5>1 DEF KnownInv, AskFits
      <4>3. alive \ Others \subseteq alive'
        BY <3>1 DEF DeleteRow, FailsAt, rowVars
      <4>4. CASE id[r] \in Others
        <5>1. named[r] = "other"
          BY <1>0, <1>2, <4>0, <4>4 DEF KnownInv, AskFits, Others
        <5>2. id[r] \in mixed /\ r \in disturbed
          BY <1>2, <4>0, <4>1, <4>2, <5>1 DEF CompanyInv, Company, Meet
        <5> QED BY <1>1, <1>2, <1>3, <1>5, <4>0, <5>2 DEF CompanyInv, Placed
      <4>5. CASE id[r] \notin Others
        BY <1>1, <1>2, <1>3, <1>5, <4>0, <4>3, <4>5 DEF CompanyInv, Placed
      <4> QED BY <4>4, <4>5
    <3>2. CASE ~DeleteRow(q)
      <4>1. alive' = alive
        BY <3>2, DeletionMoves, UploadMoves, ServiceMoves, S3Moves, EnvMoves
        DEF Work, DeletionStep, List, StopApp, Services, StopService, Disconnect, RemoveNetwork,
            OnlyDocker, FailsAt, rowVars
      <4> QED BY <1>1, <1>2, <1>5, <4>1 DEF CompanyInv, Placed, Others
    <3> QED BY <3>1, <3>2
  <2>2. ASSUME NEW r \in Requests, NEW s \in Requests PROVE Company(r, s)'
    BY <1>1, <1>2, <1>5 DEF CompanyInv, Company, Meet
  <2> QED BY <1>0, <1>1, <2>1, <2>2 DEF CompanyInv
<1> QED BY <1>4, <1>5, DeletionMoves, UploadMoves, ServiceMoves, S3Moves
        DEF Work, EnvStep, GetEnv, PutEnv, CommitEnv, Turn

\* What a request meets when it begins.
LEMMA BeginJudges ==
    ASSUME KnownInv, NEW r \in Requests, NEW k \in {"delete", "upload", "service", "s3", "env"},
           NEW which \in {"default", "other"}, Begin(r, k, which), Found(which) # {}
    PROVE  \A s \in Requests : InFlight(s) /\ named[s] = which =>
              /\ k = "delete" \/ kind[s] = "delete" =>
                    id[s] \in mixed' /\ Found(which) \subseteq mixed' /\ r \in disturbed' /\ s \in disturbed'
              /\ kind[s] = k => /\ r \in disturbed' /\ s \in disturbed'
                                /\ k # "env" => Found(which) \subseteq hurt' /\ Found(which) \subseteq leaked'
                                /\ k = "env" => Found(which) \subseteq contended'
<1> SUFFICES ASSUME NEW s \in Requests, InFlight(s), named[s] = which
    PROVE  /\ k = "delete" \/ kind[s] = "delete" =>
                    id[s] \in mixed' /\ Found(which) \subseteq mixed' /\ r \in disturbed' /\ s \in disturbed'
           /\ kind[s] = k => /\ r \in disturbed' /\ s \in disturbed'
                             /\ k # "env" => Found(which) \subseteq hurt' /\ Found(which) \subseteq leaked'
                             /\ k = "env" => Found(which) \subseteq contended'
  OBVIOUS
<1>1. Judge(r, k, which, Found(which))
  BY DEF Begin, Found
<1> DEFINE met == {x \in Requests : InFlight(x) /\ named[x] = which}
           deletions == {x \in met : k = "delete" \/ kind[x] = "delete"}
           twins == {x \in met : kind[x] = k}
           found == Found(which)
<1>2. /\ deletions # {} => mixed' = mixed \cup found \cup {id[x] : x \in deletions}
      /\ k # "env" /\ twins # {} => hurt' = hurt \cup found /\ leaked' = leaked \cup found
      /\ k = "env" /\ twins # {} => contended' = contended \cup found
      /\ deletions \cup twins # {} => deletions \cup twins \cup {r} \subseteq disturbed'
  BY <1>1 DEF Judge
<1>3. (k = "delete" \/ kind[s] = "delete" => s \in deletions) /\ (kind[s] = k => s \in twins)
  OBVIOUS
<1> HIDE DEF met, deletions, twins
<1> QED BY <1>2, <1>3

LEMMA BeginCompany ==
    ASSUME CompanyInv, NEW q \in Requests, BeginAny(q)
    PROVE  CompanyInv'
<1>0. KnownInv /\ KnownInv' /\ AsksTyped
  BY BeginKnown, TypeParts DEF CompanyInv, KnownInv
<1>1. PICK k \in {"delete", "upload", "service", "s3", "env"}, which \in {"default", "other"} :
          (which = "default" => k = "upload") /\ Begin(q, k, which)
  BY BeginMoves
<1>2. /\ pc[q] = "idle" /\ kind' = [kind EXCEPT ![q] = k] /\ named' = [named EXCEPT ![q] = which]
      /\ alive' = alive
      /\ before' = IF k = "upload" THEN [before EXCEPT ![q] = UNION {shared[i] : i \in Found(which)}]
                                   ELSE before
  BY <1>1 DEF Begin, rowVars, Found
<1>3. \/ pc' = [pc EXCEPT ![q] = "refused"] /\ id' = id
      \/ \E i \in Found(which) : /\ Found(which) = {i} /\ i \in alive
                                 /\ id' = [id EXCEPT ![q] = i] /\ pc' = [pc EXCEPT ![q] = First[k]]
  BY <1>0, <1>1, BeginFinds
<1>4. \A s \in Requests \ {q} : pc'[s] = pc[s] /\ id'[s] = id[s] /\ kind'[s] = kind[s] /\ named'[s] = named[s]
  BY <1>0, <1>2, <1>3 DEF AsksTyped
<1>5. /\ mixed \subseteq mixed' /\ hurt \subseteq hurt' /\ leaked \subseteq leaked'
      /\ contended \subseteq contended' /\ disturbed \subseteq disturbed'
  BY <1>1 DEF Begin, Judge
<1>6. kind'[q] = k /\ named'[q] = which
  BY <1>0, <1>2 DEF AsksTyped
<1>7. before' \in [Requests -> SUBSET Requests]
  <2>1. UNION {shared[i] : i \in Found(which)} \subseteq Requests
    BY <1>0 DEF Found, KnownInv, TypeOK, Others, All
  <2> QED BY <1>2, <2>1 DEF CompanyInv
<1>8. ASSUME NEW r \in Requests, NEW s \in Requests, r # q, s # q PROVE Company(r, s)'
  BY <1>4, <1>5, <1>8 DEF CompanyInv, Company, Meet, InFlight
<1>9. ASSUME NEW r \in Requests, r # q PROVE Placed(r)'
  BY <1>2, <1>4, <1>5, <1>9 DEF CompanyInv, Placed, InFlight, Others
<1>10. CASE ~InFlight(q)'
  BY <1>0, <1>7, <1>8, <1>9, <1>10 DEF CompanyInv, Company, Meet, Placed
<1>11. CASE InFlight(q)'
  <2>1. PICK i \in Found(which) : /\ Found(which) = {i} /\ i \in alive
                                  /\ id' = [id EXCEPT ![q] = i] /\ pc' = [pc EXCEPT ![q] = First[k]]
    BY <1>0, <1>3, <1>11 DEF InFlight, Ended, AsksTyped
  <2>2. id'[q] = i
    BY <1>0, <2>1 DEF AsksTyped
  <2>3. Placed(q)'
    <3>1. k \in {"delete", "env"} => \A x \in Others : x = i
      BY <1>1, <2>1 DEF Found
    <3> QED BY <1>2, <1>6, <2>1, <2>2, <3>1 DEF Placed, Others
  <2>4. ASSUME NEW s \in Requests, s # q, Meet(q, s)' PROVE Company(q, s)' /\ Company(s, q)'
    <3>1. InFlight(s) /\ named[s] = which
      BY <1>4, <1>6, <2>4 DEF Meet, InFlight
    <3>2. /\ k = "delete" \/ kind[s] = "delete" =>
                id[s] \in mixed' /\ i \in mixed' /\ q \in disturbed' /\ s \in disturbed'
          /\ kind[s] = k => /\ q \in disturbed' /\ s \in disturbed'
                            /\ k # "env" => i \in hurt' /\ i \in leaked'
                            /\ k = "env" => i \in contended'
      BY <1>0, <1>1, <2>1, <3>1, BeginJudges
    <3> QED BY <1>4, <1>6, <2>2, <2>4, <3>2 DEF Company
  <2> QED BY <1>0, <1>7, <1>8, <1>9, <2>3, <2>4 DEF CompanyInv, Company, Meet
<1> QED BY <1>10, <1>11

LEMMA CreateCompany ==
    ASSUME CompanyInv, NEW q \in Requests, Create(q)
    PROVE  CompanyInv'
<1>0. KnownInv /\ KnownInv' /\ AsksTyped
  BY CreateKnown, TypeParts DEF CompanyInv, KnownInv
<1>1. /\ kind' = [kind EXCEPT ![q] = "create"] /\ named' = [named EXCEPT ![q] = "other"]
      /\ UNCHANGED <<id, hurt, leaked, contended, before, disturbed>>
      /\ \E to \in {"ok", "refused"} : pc' = [pc EXCEPT ![q] = to]
      /\ alive \subseteq alive' /\ mixed \subseteq mixed'
  BY DEF Create, rowVars, Goto
<1>2. ~InFlight(q)' /\ \A s \in Requests \ {q} :
                          pc'[s] = pc[s] /\ id'[s] = id[s] /\ kind'[s] = kind[s] /\ named'[s] = named[s]
  BY <1>0, <1>1 DEF AsksTyped, InFlight, Ended
<1>3. ASSUME NEW r \in Requests, NEW s \in Requests PROVE Company(r, s)'
  BY <1>1, <1>2 DEF CompanyInv, Company, Meet, InFlight
<1>4. \/ Others' = Others
      \/ /\ \E r \in Requests : InFlight(r) /\ kind[r] \in {"delete", "env"}
         /\ Others' \subseteq mixed'
      \/ ~\E r \in Requests : InFlight(r) /\ kind[r] \in {"delete", "env"}
  BY DEF Create, Others, rowVars
<1>5. ASSUME NEW r \in Requests PROVE Placed(r)'
  BY <1>1, <1>2, <1>4 DEF CompanyInv, Placed, InFlight
<1> QED BY <1>0, <1>1, <1>3, <1>5 DEF CompanyInv

LEMMA RestCompany ==
    ASSUME CompanyInv, Recreate \/ (\E i \in All : Notice(i)) \/ Crash \/ UNCHANGED vars
    PROVE  CompanyInv'
<1>1. KnownInv'
  BY RecreateKnown, RestKnown DEF CompanyInv
<1>2. /\ UNCHANGED <<kind, named, id, alive, hurt, leaked, contended, before>> \/ Crash
      /\ UNCHANGED <<kind, named, id, alive, mixed, contended, before, disturbed>> \/ ~Crash
  BY DEF Recreate, Notice, Crash, vars, rowVars, askVars, judgeVars
<1>3. CASE Crash
  <2>1. \A r \in Requests : ~InFlight(r)'
    BY <1>3 DEF Crash, InFlight, Ended
  <2> QED BY <1>1, <1>2, <1>3, <2>1 DEF CompanyInv, Company, Meet, Placed
<1>4. CASE ~Crash
  <2>1. pc' = pc /\ mixed \subseteq mixed' /\ disturbed \subseteq disturbed'
    BY <1>4 DEF Recreate, Notice, vars, judgeVars
  <2> QED BY <1>1, <1>2, <1>4, <2>1 DEF CompanyInv, Company, Meet, Placed, InFlight, Others
<1> QED BY <1>3, <1>4

LEMMA CompanyInit == Init => CompanyInv
<1> SUFFICES ASSUME Init PROVE CompanyInv
  OBVIOUS
<1>1. /\ pc = [r \in Requests |-> "idle"] /\ before = [r \in Requests |-> {}]
  BY DEF Init
<1>2. \A r \in Requests : ~InFlight(r)
  BY <1>1 DEF InFlight, Ended
<1> QED BY <1>1, <1>2, KnownInit DEF CompanyInv, Company, Meet, Placed

LEMMA CompanyNext == CompanyInv /\ [Next]_vars => CompanyInv'
BY WorkCompany, BeginCompany, CreateCompany, RestCompany, StepKinds DEF Next

-----------------------------------------------------------------------------
(* The environment variables                                                *)

\* What requests know of the variables of project i: one that sets a variable has read
\* all that there are, and an upload those that were set when it began.
AskedOf(i) ==
    \A r \in Requests : id[r] = i =>
        /\ kind[r] = "env" /\ pc[r] = "ok" => r \in shared[i]
        /\ pc[r] \in {"put_env", "commit_env"} => read[r] = shared[i] \cup {r}
        /\ pc[r] = "commit_env" => replaced[r] = shared[i]
        /\ kind[r] = "upload" => before[r] \subseteq shared[i]
        /\ pc[r] \in {"ensure_network", "start"} => before[r] \subseteq read[r]
SetIn(i) ==
    \A r \in shared[i] : kind[r] = "env" /\ id[r] = i /\ pc[r] \in {"ok", "failed"}
\* A container has what was set before the upload that made it, or, when the watcher made
\* and registered it, before the upload whose row it serves.
GivenTo(i) ==
    /\ cont[i] \in Requests => Owned(cont[i], i) /\ before[cont[i]] \subseteq given[i]
    /\ cont[i] = "watcher" /\ proc[i].container = "watcher" /\ proc[i].by \in Requests =>
          before[proc[i].by] \subseteq given[i]

Kept(i)    == AskedOf(i) /\ SetIn(i) /\ GivenTo(i)
VarsInv    == /\ CompanyInv
              /\ \A i \in alive \ (mixed \cup contended) : Kept(i)

\* Of a project that r does not work on, or of which it only reads.
LEMMA KeptElsewhere ==
    ASSUME VarsInv, NEW i \in All, Kept(i), NEW r \in Requests,
           UNCHANGED <<kind, before>>, pc[r] # "ok", pc[r] # "failed",
           \A s \in Requests \ {r} : id'[s] = id[s] /\ pc'[s] = pc[s] /\ read'[s] = read[s]
                                        /\ replaced'[s] = replaced[s],
           id[r] # i, id'[r] # i,
           shared'[i] = shared[i], given'[i] = given[i], cont'[i] = cont[i],
           proc'[i] = proc[i] \/ proc'[i] = NoRow
    PROVE  Kept(i)'
<1>1. AskedOf(i)'
  BY DEF Kept, AskedOf
<1>2. SetIn(i)'
  <2>1. shared[i] \subseteq Requests \ {r}
    BY DEF Kept, SetIn, VarsInv, CompanyInv, KnownInv, TypeOK
  <2> QED BY <2>1 DEF Kept, SetIn
<1>3. GivenTo(i)'
  <2>1. \A s \in Requests : Owned(s, i) => Owned(s, i)'
    BY DEF Owned
  <2>2. NoRow.container = "none" /\ "none" # "watcher"
    BY DEF NoRow
  <2> QED BY <2>1, <2>2 DEF Kept, GivenTo
<1> QED BY <1>1, <1>2, <1>3 DEF Kept

\* A step of a request that works in i, and does not set a variable.
LEMMA KeptAtHome ==
    ASSUME VarsInv, NEW i \in All, Kept(i), NEW r \in Requests,
           UNCHANGED <<kind, before, id>>, kind[r] # "env", id[r] = i,
           \A s \in Requests \ {r} : pc'[s] = pc[s] /\ read'[s] = read[s]
                                        /\ replaced'[s] = replaced[s],
           pc'[r] \notin {"put_env", "commit_env"},
           pc'[r] \in {"ensure_network", "start"} => before[r] \subseteq read'[r],
           shared'[i] = shared[i], GivenTo(i)'
    PROVE  Kept(i)'
<1>1. AskedOf(i)'
  BY DEF Kept, AskedOf
<1>2. SetIn(i)'
  <2>1. shared[i] \subseteq Requests \ {r}
    BY DEF Kept, SetIn, VarsInv, CompanyInv, KnownInv, TypeOK
  <2> QED BY <2>1 DEF Kept, SetIn
<1> QED BY <1>1, <1>2 DEF Kept

\* What a container was given stays true of it while it is not replaced.
LEMMA GivenStays ==
    ASSUME VarsInv, NEW i \in All, GivenTo(i), UNCHANGED before,
           \A by : Owned(by, i) => Owned(by, i)',
           cont'[i] \in {cont[i], "none"}, given'[i] = given[i],
           \/ proc'[i] = proc[i]
           \/ proc'[i].container # "watcher"
           \/ proc'[i].by = proc[i].by /\ proc'[i].container = proc[i].container
    PROVE  GivenTo(i)'
<1>1. "none" \notin Requests /\ "none" # "watcher"
  BY ProjectsAssumption
<1> QED BY <1>1 DEF GivenTo

LEMMA DeletionKept ==
    ASSUME VarsInv, NEW r \in Requests, DeletionStep(r), NEW i \in alive \ (mixed \cup contended),
           i \in alive'
    PROVE  Kept(i)'
<1>0. KnownInv /\ AsksTyped /\ InFlight(r) /\ i \in All /\ Kept(i)
  BY WorkMoves, TypeParts DEF Work, Onward, VarsInv, CompanyInv, KnownInv, TypeOK, All
<1>1. UNCHANGED <<kind, before, id, given, read, replaced>> /\ Goes(r, DeleteSteps)
  BY DeletionMoves DEF askVars
<1>2. kind[r] = "delete"
  BY <1>0, <1>1 DEF Goes, KnownInv, AskFits
<1>3. shared'[i] = shared[i] /\ proc'[i] = proc[i]
  <2>1. CASE DeleteRow(r)
    BY <1>0, <2>1 DEF DeleteRow, FailsAt, rowVars
  <2> QED BY <1>0, <2>1, DeletionLocal DEF SameRows
<1>4. cont'[i] \in {cont[i], "none"}
  BY <1>0 DEF DeletionStep, List, StopApp, Services, StopService, Disconnect, RemoveNetwork, DeleteRow,
      FailsAt, OnlyRows, dockerVars, KnownInv, TypeOK
<1>5. /\ \A s \in Requests \ {r} : pc'[s] = pc[s]
      /\ pc'[r] \in DeleteSteps \cup {"ok", "failed", "refused"}
  BY <1>0, <1>1 DEF Goes, Goto, AsksTyped
<1>6. pc'[r] \notin {"put_env", "commit_env", "ensure_network", "start"} /\ pc[r] \notin {"ok", "failed"}
  BY <1>0, <1>5 DEF DeleteSteps, InFlight, Ended
<1>7. GivenTo(i)'
  BY <1>0, <1>1, <1>3, <1>4, GivenStays, OwnedStays DEF Kept
<1>8. CASE id[r] = i
  BY <1>0, <1>1, <1>2, <1>3, <1>5, <1>6, <1>7, <1>8, KeptAtHome
<1>9. CASE id[r] # i
  <2>1. cont'[i] = cont[i]
    BY <1>0, <1>9, DeletionLocal DEF SameDocker
  <2> QED BY <1>0, <1>1, <1>3, <1>5, <1>6, <1>9, <2>1, KeptElsewhere
<1> QED BY <1>8, <1>9

\* What an upload does to the row and the container of its own project.
LEMMA UploadGives ==
    ASSUME VarsInv, NEW r \in Requests, UploadStep(r), NEW i \in All, id[r] = i, Kept(i), i \in alive
    PROVE  /\ GivenTo(i)'
           /\ pc'[r] \in {"ensure_network", "start"} => before[r] \subseteq read'[r]
<1>0. KnownInv /\ AsksTyped /\ RowsTyped /\ DockerTyped /\ EnvTyped
  BY TypeParts DEF VarsInv, CompanyInv, KnownInv
<1>1. UNCHANGED <<kind, id, before, shared>>
  BY UploadMoves DEF askVars
<1>2. kind[r] = "upload" /\ before[r] \subseteq shared[i]
  BY <1>0, UploadMoves DEF Goes, KnownInv, AskFits, Kept, AskedOf
<1>3. \A by : Owned(by, i) => Owned(by, i)'
  BY <1>1 DEF Owned
<1>4. \A row \in Row : LET new == ById(i, r, row) IN new[i] = proc[i] \/ (proc[i].by = r /\ new[i] = row)
  BY <1>0 DEF RowsTyped, ById
<1>5. "watcher" \notin Requests /\ NoRow.container # "watcher"
  BY ProjectsAssumption DEF NoRow
<1>6. proc[i] \in Row /\ [proc[i] EXCEPT !.status = "failed"] \in Row
      /\ [proc[i] EXCEPT !.status = "failed"]
           = [by |-> proc[i].by, status |-> "failed", container |-> proc[i].container]
  BY <1>0, FailedRow DEF RowsTyped
<1>7. CASE StopOld(r) \/ Network(r)
  <2>1. proc' = proc /\ given' = given /\ read' = read /\ cont'[i] \in {cont[i], "none"}
    BY <1>0, <1>7 DEF StopOld, Stopped, Network, OnlyDocker, FailsAt, rowVars, dockerVars, At, envVars,
                      DockerTyped
  <2>2. pc'[r] \in {"ensure_network", "start"} => pc[r] = "ensure_network"
    BY <1>0, <1>7 DEF StopOld, Network, At, Turn, FailsAt, Goto, AsksTyped
  <2> QED BY <1>1, <1>3, <2>1, <2>2, GivenStays DEF Kept, AskedOf
<1>8. CASE DeleteRows(r) \/ Save(r) \/ CreateRow(r)
  <2>1. given' = given /\ cont' = cont /\ (proc'[i] = proc[i] \/ proc'[i].container # "watcher")
    <3>1. given' = given /\ cont' = cont
      BY <1>8 DEF DeleteRows, Save, CreateRow, OnlyRows, FailsAt, dockerVars, At, envVars
    <3>2. \/ proc'[i] = proc[i] \/ proc'[i] = NoRow
          \/ proc'[i] = [by |-> r, status |-> "building", container |-> "none"]
      <4>1. CASE DeleteRows(r) \/ Save(r) \/ DeleteDefault(r)
        BY <1>0, <4>1 DEF DeleteRows, Save, DeleteDefault, FailsAt, rowVars, RowsTyped
      <4>2. CASE CreateRow(r) /\ ~DeleteDefault(r)
        BY <1>0, <4>2 DEF CreateRow, RowsTyped
      <4> QED BY <1>8, <4>1, <4>2
    <3> QED BY <1>5, <3>1, <3>2
  <2>2. pc'[r] \notin {"ensure_network", "start"}
    BY <1>0, <1>8 DEF DeleteRows, Save, CreateRow, DeleteDefault, FailsAt, Goto, AsksTyped
  <2> QED BY <1>1, <1>3, <2>1, <2>2, GivenStays DEF Kept
<1>9. CASE ReadEnv(r)
  <2>1. given' = given /\ cont' = cont
        /\ (proc' = proc \/ proc' = ById(i, r, [proc[i] EXCEPT !.status = "failed"]))
    BY <1>9 DEF ReadEnv, OnlyRows, dockerVars
  <2>2. proc'[i] = proc[i] \/ (proc'[i].by = proc[i].by /\ proc'[i].container = proc[i].container)
    BY <1>4, <1>6, <2>1
  <2>3. pc'[r] = "failed" \/ read'[r] = shared[i]
    BY <1>0, <1>9 DEF ReadEnv, Merged, Goto, AsksTyped, EnvTyped
  <2> QED BY <1>1, <1>2, <1>3, <2>1, <2>2, <2>3, GivenStays DEF Kept
<1>10. CASE Start(r)
  <2>0. pc[r] = "start" /\ before[r] \subseteq read[r]
    BY <1>10 DEF Start, Turn, Kept, AskedOf
  <2>1. pc'[r] \notin {"ensure_network", "start"}
    BY <1>0, <1>10 DEF Start, Goto, AsksTyped
  <2>2. CASE UNCHANGED <<cont, given>>
    <3>1. proc' = proc \/ proc' = ById(i, r, [proc[i] EXCEPT !.status = "failed"])
      BY <1>10 DEF Start
    <3>2. proc'[i] = proc[i] \/ (proc'[i].by = proc[i].by /\ proc'[i].container = proc[i].container)
      BY <1>4, <1>6, <3>1
    <3> QED BY <1>1, <1>3, <2>1, <2>2, <3>2, GivenStays DEF Kept
  <2>3. CASE ~UNCHANGED <<cont, given>>
    <3>1. cont'[i] = r /\ given'[i] = read[r]
      BY <1>0, <1>10, <2>3 DEF Start, DockerTyped, EnvTyped
    <3>2. Owned(r, i)'
      BY <1>1, <1>2 DEF Owned, Owners
    <3> QED BY <1>1, <1>5, <2>0, <2>1, <3>1, <3>2 DEF GivenTo
  <2> QED BY <2>2, <2>3
<1>11. CASE Register(r)
  <2>1. given' = given /\ cont' = cont
        /\ (proc' = proc \/ proc' = ById(i, r, [by |-> r, status |-> "running", container |-> r]))
    BY <1>11 DEF Register, OnlyRows, dockerVars, At, envVars
  <2>2. proc'[i] = proc[i] \/ proc'[i].container # "watcher"
    <3>1. [by |-> r, status |-> "running", container |-> r] \in Row
      BY NewRow
    <3>2. proc'[i] = proc[i] \/ proc'[i] = [by |-> r, status |-> "running", container |-> r]
      BY <1>4, <2>1, <3>1
    <3> QED BY <1>5, <3>2
  <2>3. pc'[r] \notin {"ensure_network", "start"}
    BY <1>0, <1>11 DEF Register, Goto, AsksTyped
  <2> QED BY <1>1, <1>3, <2>1, <2>2, <2>3, GivenStays DEF Kept
<1> QED BY <1>7, <1>8, <1>9, <1>10, <1>11 DEF UploadStep

LEMMA UploadKept ==
    ASSUME VarsInv, NEW r \in Requests, UploadStep(r), NEW i \in alive \ (mixed \cup contended)
    PROVE  Kept(i)'
<1>0. KnownInv /\ AsksTyped /\ EnvTyped /\ InFlight(r) /\ i \in All /\ Kept(i)
  BY WorkMoves, TypeParts DEF Work, Onward, VarsInv, CompanyInv, KnownInv, TypeOK, All
<1>1. UNCHANGED <<kind, before, id, shared, replaced>> /\ Goes(r, UploadSteps)
  BY UploadMoves DEF askVars
<1>2. kind[r] = "upload"
  BY <1>0, <1>1 DEF Goes, KnownInv, AskFits
<1>3. \A s \in Requests \ {r} : pc'[s] = pc[s] /\ read'[s] = read[s] /\ replaced'[s] = replaced[s]
  <2>1. \A s \in Requests \ {r} : read'[s] = read[s]
    BY <1>0 DEF UploadStep, StopOld, DeleteRows, Save, CreateRow, ReadEnv, Network, Start, Register,
                At, envVars, EnvTyped
  <2> QED BY <1>0, <1>1, <2>1 DEF Goes, Goto, AsksTyped
<1>4. pc'[r] \in UploadSteps \cup {"ok", "failed", "refused"} /\ pc[r] \notin {"ok", "failed"}
  BY <1>0, <1>1 DEF Goes, Goto, AsksTyped, InFlight, Ended
<1>5. CASE id[r] = i
  <2>1. GivenTo(i)' /\ (pc'[r] \in {"ensure_network", "start"} => before[r] \subseteq read'[r])
    BY <1>0, <1>5, UploadGives
  <2>2. pc'[r] \notin {"put_env", "commit_env"}
    BY <1>4 DEF UploadSteps
  <2> QED BY <1>0, <1>1, <1>2, <1>3, <1>5, <2>1, <2>2, KeptAtHome
<1>6. CASE id[r] # i
  <2>1. SameDocker(i) /\ (proc'[i] = proc[i] \/ proc'[i] = NoRow)
    <3>1. CASE CreateRow(r) /\ DeleteDefault(r)
      BY <1>0, <1>6, <3>1, UploadLocal DEF DeleteDefault, SameRows, KnownInv, TypeOK
    <3> QED BY <1>0, <1>6, <3>1, UploadLocal DEF SameRows
  <2> QED BY <1>0, <1>1, <1>3, <1>4, <1>6, <2>1, KeptElsewhere DEF SameDocker
<1> QED BY <1>5, <1>6

LEMMA OthersKept ==
    ASSUME VarsInv, NEW r \in Requests, ServiceStep(r) \/ S3Step(r),
           NEW i \in alive \ (mixed \cup contended)
    PROVE  Kept(i)'
<1>0. KnownInv /\ AsksTyped /\ InFlight(r) /\ i \in All /\ Kept(i)
  BY WorkMoves, TypeParts DEF Work, Onward, VarsInv, CompanyInv, KnownInv, TypeOK, All
<1>1. UNCHANGED <<kind, before, id, shared, given, read, replaced, proc, cont>>
  BY ServiceMoves, S3Moves DEF askVars, envVars, rowVars
<1>2. kind[r] # "env" /\ pc[r] \notin {"ok", "failed"}
  BY <1>0, ServiceMoves, S3Moves DEF Goes, KnownInv, AskFits, InFlight, Ended
<1>3. /\ \A s \in Requests \ {r} : pc'[s] = pc[s]
      /\ pc'[r] \in ServiceSteps \cup S3Steps \cup {"ok", "failed", "refused"}
  BY <1>0, ServiceMoves, S3Moves DEF Goes, Goto, AsksTyped
<1>4. pc'[r] \notin {"put_env", "commit_env", "ensure_network", "start"}
  BY <1>3 DEF ServiceSteps, S3Steps
<1>5. GivenTo(i)'
  BY <1>0, <1>1 DEF Kept, GivenTo, Owned
<1> QED BY <1>0, <1>1, <1>2, <1>3, <1>4, <1>5, KeptAtHome, KeptElsewhere

LEMMA EnvKept ==
    ASSUME VarsInv, NEW r \in Requests, EnvStep(r), NEW i \in alive \ (mixed \cup contended)
    PROVE  Kept(i)'
<1>0. KnownInv /\ AsksTyped /\ EnvTyped /\ InFlight(r) /\ i \in All /\ Kept(i)
  BY WorkMoves, TypeParts DEF Work, Onward, VarsInv, CompanyInv, KnownInv, TypeOK, All
<1>1. UNCHANGED <<kind, before, given, proc, cont, mixed>> /\ Goes(r, EnvSteps)
  BY EnvMoves DEF askVars, rowVars, dockerVars
<1>2. kind[r] = "env" /\ named[r] = "other" /\ pc[r] \notin {"ok", "failed", "idle"}
  <2>1. kind[r] = "env"
    BY <1>0, <1>1 DEF Goes, KnownInv, AskFits
  <2> QED BY <1>0, <2>1 DEF InFlight, Ended, KnownInv, AskFits
<1>3. \A s \in Requests \ {r} : /\ pc'[s] = pc[s] /\ read'[s] = read[s] /\ replaced'[s] = replaced[s]
                                /\ id'[s] = id[s]
  BY <1>0 DEF EnvStep, GetEnv, PutEnv, CommitEnv, Turn, Goto, AsksTyped, EnvTyped
<1>4. GivenTo(i)'
  <2>1. \A by : Owned(by, i) => Owned(by, i)'
    BY <1>0, OwnedStays DEF Work
  <2> QED BY <1>0, <1>1, <2>1, GivenStays DEF Kept
<1>5. r \notin shared[i]
  BY <1>0, <1>2 DEF Kept, SetIn
<1>6. CASE id[r] # i
  <2>1. shared'[i] = shared[i]
    BY <1>0, <1>6, EnvLocal DEF SameRows
  <2>2. id'[r] # i
    <3>1. CASE PutEnv(r)
      <4>1. kind[r] \in {"delete", "env"} => \A x \in Others \ mixed : id[r] = x
        BY <1>0 DEF VarsInv, CompanyInv, Placed
      <4> QED BY <1>0, <1>2, <1>6, <3>1, <4>1 DEF PutEnv, AsksTyped
    <3> QED BY <1>6, <3>1 DEF EnvStep, GetEnv, CommitEnv, Turn
  <2> QED BY <1>0, <1>1, <1>2, <1>3, <1>6, <2>1, <2>2, KeptElsewhere
<1>7. ASSUME shared' = shared, pc'[r] \in {"put_env", "commit_env", "failed", "refused"},
             id'[r] = i => /\ pc'[r] \in {"put_env", "commit_env"} => read'[r] = shared[i] \cup {r}
                           /\ pc'[r] = "commit_env" => replaced'[r] = shared[i]
      PROVE  Kept(i)'
  <2>1. AskedOf(i)'
    BY <1>0, <1>1, <1>2, <1>3, <1>7 DEF Kept, AskedOf
  <2>2. SetIn(i)'
    BY <1>0, <1>1, <1>3, <1>5, <1>7 DEF Kept, SetIn, EnvTyped
  <2> QED BY <1>4, <2>1, <2>2 DEF Kept
<1>8. CASE id[r] = i
  <2>1. CASE GetEnv(r)
    <3>1. shared' = shared /\ id' = id /\ pc'[r] = "put_env" /\ read'[r] = shared[i] \cup {r}
      BY <1>0, <1>8, <2>1 DEF GetEnv, Turn, Goto, AsksTyped, EnvTyped
    <3> QED BY <1>7, <3>1
  <2>2. CASE PutEnv(r)
    <3>1. pc[r] = "put_env" /\ read[r] = shared[i] \cup {r} /\ read' = read /\ shared' = shared
      BY <1>0, <1>8, <2>2 DEF PutEnv, Kept, AskedOf
    <3>2. \/ pc'[r] = "refused" /\ id' = id
          \/ pc'[r] = "commit_env" /\ replaced'[r] = shared[id'[r]]
      BY <1>0, <2>2 DEF PutEnv, Goto, AsksTyped, EnvTyped
    <3> QED BY <1>8, <1>7, <3>1, <3>2
  <2>3. CASE CommitEnv(r)
    <3>1. /\ pc[r] = "commit_env" /\ read[r] = shared[i] \cup {r} /\ shared[i] \ replaced[r] = {}
          /\ id' = id
      BY <1>0, <1>8, <2>3 DEF CommitEnv, Turn, Kept, AskedOf
    <3>2. \A s \in Requests \ {r} : id[s] = i => pc[s] \notin {"put_env", "commit_env"}
      <4>1. SUFFICES ASSUME NEW s \in Requests \ {r}, id[s] = i, pc[s] \in {"put_env", "commit_env"}
                     PROVE  FALSE
        OBVIOUS
      <4>2. kind[s] = "env" /\ InFlight(s)
        BY <1>0, <4>1 DEF KnownInv, AskFits, EnvSteps, InFlight, Ended
      <4>3. named[s] = "other"
        BY <1>0, <4>2 DEF KnownInv, AskFits
      <4> QED BY <1>0, <1>2, <1>8, <4>1, <4>2, <4>3 DEF VarsInv, CompanyInv, Company, Meet
    <3>3. CASE shared' = shared
      <4>1. pc'[r] = "failed"
        <5>1. pc'[r] = "failed" \/ shared'[i] = (shared[i] \ replaced[r]) \cup read[r]
          BY <1>0, <1>8, <2>3 DEF CommitEnv, Goto, AsksTyped, EnvTyped
        <5> QED BY <1>5, <3>1, <3>3, <5>1
      <4> QED BY <1>7, <3>3, <4>1 DEF EnvSteps
    <3>4. CASE shared' # shared
      <4>1. shared'[i] = shared[i] \cup {r} /\ pc'[r] \in {"ok", "failed"}
        BY <1>0, <1>8, <2>3, <3>1, <3>4 DEF CommitEnv, Goto, AsksTyped, EnvTyped
      <4>2. AskedOf(i)'
        BY <1>0, <1>1, <1>2, <1>3, <1>8, <3>1, <3>2, <4>1 DEF Kept, AskedOf, CommitEnv
      <4>3. SetIn(i)'
        BY <1>0, <1>1, <1>2, <1>3, <1>5, <1>8, <3>1, <4>1 DEF Kept, SetIn, EnvTyped
      <4> QED BY <1>4, <4>2, <4>3 DEF Kept
    <3> QED BY <3>3, <3>4
  <2> QED BY <2>1, <2>2, <2>3 DEF EnvStep
<1> QED BY <1>6, <1>8

LEMMA BeginKept ==
    ASSUME VarsInv, NEW q \in Requests, BeginAny(q), NEW i \in alive \ (mixed \cup contended)
    PROVE  Kept(i)'
<1>0. KnownInv /\ AsksTyped /\ EnvTyped /\ i \in All /\ Kept(i)
      /\ before \in [Requests -> SUBSET Requests]
  BY TypeParts DEF VarsInv, CompanyInv, KnownInv, TypeOK, All
<1>1. PICK k \in {"delete", "upload", "service", "s3", "env"}, which \in {"default", "other"} :
          Begin(q, k, which)
  BY BeginMoves
<1>2. /\ pc[q] = "idle" /\ kind' = [kind EXCEPT ![q] = k]
      /\ UNCHANGED <<shared, given, read, replaced, proc, cont>>
      /\ before' = IF k = "upload" THEN [before EXCEPT ![q] = UNION {shared[x] : x \in Found(which)}]
                                   ELSE before
  BY <1>1 DEF Begin, rowVars, dockerVars, envVars, Found
<1>3. \/ pc'[q] = "refused" /\ id'[q] = id[q]
      \/ pc'[q] = First[k] /\ Found(which) = {id'[q]}
  BY <1>0, <1>1, BeginFinds DEF AsksTyped
<1>4. \A s \in Requests \ {q} : pc'[s] = pc[s] /\ id'[s] = id[s] /\ kind'[s] = kind[s] /\ before'[s] = before[s]
  BY <1>0, <1>1, <1>2, BeginFinds DEF AsksTyped
<1>5. kind[q] = "none" /\ id[q] = "none" /\ kind'[q] = k /\ i # "none"
  BY <1>0, <1>2, ProjectsAssumption DEF AsksTyped, KnownInv, AskFits, All
<1>6. \A by : Owned(by, i) => Owned(by, i)' /\ by # q
  BY <1>0, <1>5, OwnedStays DEF Owned
<1>7. GivenTo(i)'
  <2>1. proc[i].by \in Requests => Owned(proc[i].by, i)
    <3>1. NoRow.by \notin Requests
      BY ProjectsAssumption DEF NoRow
    <3> QED BY <1>0, <3>1 DEF KnownInv, RowFits
  <2>2. /\ cont[i] \in Requests => cont[i] # q
        /\ proc[i].by \in Requests => proc[i].by # q
    BY <1>0, <1>6, <2>1 DEF Kept, GivenTo
  <2> QED BY <1>0, <1>2, <1>4, <1>6, <2>2 DEF Kept, GivenTo
<1>8. AskedOf(i)'
  <2>1. ASSUME id'[q] = i
        PROVE  /\ pc'[q] \notin {"ok", "put_env", "commit_env", "ensure_network", "start"}
               /\ kind'[q] = "upload" => before'[q] \subseteq shared[i]
    <3>1. pc'[q] = First[k] /\ Found(which) = {i}
      BY <1>3, <1>5, <2>1
    <3>2. UNION {shared[x] : x \in Found(which)} = shared[i]
      BY <3>1
    <3> QED BY <1>0, <1>2, <1>5, <3>1, <3>2, FirstSteps
  <2> QED BY <1>0, <1>2, <1>4, <2>1 DEF Kept, AskedOf
<1>9. SetIn(i)'
  <2>1. shared[i] \subseteq Requests \ {q}
    BY <1>0, <1>5 DEF Kept, SetIn, EnvTyped
  <2> QED BY <1>0, <1>2, <1>4, <2>1 DEF Kept, SetIn
<1> QED BY <1>7, <1>8, <1>9 DEF Kept

\* A project that is new has nothing set, and nothing running.
LEMMA CreateKept ==
    ASSUME VarsInv, NEW q \in Requests, Create(q), NEW i \in alive' \ (mixed' \cup contended')
    PROVE  Kept(i)'
<1>0. KnownInv /\ AsksTyped /\ EnvTyped
  BY TypeParts DEF VarsInv, CompanyInv, KnownInv
<1>1. /\ pc[q] = "idle" /\ kind' = [kind EXCEPT ![q] = "create"]
      /\ UNCHANGED <<shared, given, read, replaced, proc, cont, id, before, contended>>
      /\ mixed \subseteq mixed' /\ \E to \in {"ok", "refused"} : pc' = [pc EXCEPT ![q] = to]
      /\ i \in alive \/ (i \in Ids \ used /\ i \notin alive)
  BY <1>0 DEF Create, rowVars, dockerVars, envVars, Goto, KnownInv, TypeOK
<1>2. kind[q] = "none" /\ id[q] = "none" /\ kind'[q] = "create" /\ i # "none"
  BY <1>0, <1>1, ProjectsAssumption DEF AsksTyped, KnownInv, AskFits, TypeOK, All
<1>3. \A s \in Requests \ {q} : pc'[s] = pc[s] /\ kind'[s] = kind[s]
  BY <1>0, <1>1 DEF AsksTyped
<1>4. \A by : Owned(by, i) => Owned(by, i)'
  BY <1>0, OwnedStays
<1>5. CASE i \in alive
  <2>1. i \in All /\ Kept(i)
    BY <1>1, <1>5 DEF VarsInv, CompanyInv, KnownInv, TypeOK, All
  <2>2. AskedOf(i)'
    BY <1>1, <1>2, <1>3, <2>1 DEF Kept, AskedOf
  <2>3. SetIn(i)'
    <3>1. shared[i] \subseteq Requests \ {q}
      BY <1>0, <1>2, <2>1 DEF Kept, SetIn, EnvTyped
    <3> QED BY <1>1, <1>3, <2>1, <3>1 DEF Kept, SetIn
  <2>4. GivenTo(i)'
    BY <1>1, <1>4, <2>1 DEF Kept, GivenTo
  <2> QED BY <2>2, <2>3, <2>4 DEF Kept
<1>6. CASE i \in Ids \ used /\ i \notin alive
  <2>1. i \in All \ Known /\ i \in All \ alive
    BY <1>6, ProjectsAssumption DEF All, Known
  <2>2. shared[i] = {} /\ cont[i] = "none"
    BY <1>0, <2>1 DEF EnvTyped, KnownInv, Fresh
  <2>3. \A r \in Requests : id[r] # i
    BY <1>0, <1>2, <2>1 DEF KnownInv, AskFits
  <2>4. "none" \notin Requests /\ "none" # "watcher"
    BY ProjectsAssumption
  <2> QED BY <1>1, <2>2, <2>3, <2>4 DEF Kept, AskedOf, SetIn, GivenTo
<1> QED BY <1>1, <1>5, <1>6

LEMMA RecreateKept ==
    ASSUME VarsInv, Recreate, NEW j \in alive' \ (mixed' \cup contended')
    PROVE  Kept(j)'
<1>0. KnownInv /\ RowsTyped /\ DockerTyped /\ EnvTyped
  BY TypeParts DEF VarsInv, CompanyInv, KnownInv
<1>1. UNCHANGED <<alive, shared, read, replaced, kind, id, pc, contended, before>>
      /\ mixed \subseteq mixed'
  BY DEF Recreate, askVars
<1>2. j \in All /\ j \in alive \ (mixed \cup contended) /\ Kept(j)
  BY <1>0, <1>1 DEF VarsInv, KnownInv, TypeOK, All
<1>3. PICK i \in Known \cap All, by \in Owners :
          \/ /\ cont' = [cont EXCEPT ![i] = "watcher"]
             /\ given' = [given EXCEPT ![i] = shared[i]]
             /\ proc' = ById(i, by, [by |-> by, status |-> "running", container |-> "watcher"])
          \/ /\ UNCHANGED <<cont, given>>
             /\ proc' = ById(i, by, [proc[i] EXCEPT !.status = "failed"])
  BY <1>0, RecreateWrites
<1>4. \A p : Owned(p, j) => Owned(p, j)'
  BY <1>1 DEF Owned
<1>5. AskedOf(j)' /\ SetIn(j)'
  BY <1>1, <1>2 DEF Kept, AskedOf, SetIn
<1>6. \A row \in Row : LET new == ById(i, by, row) IN
           /\ j # i => new[j] = proc[j]
           /\ new[i] = proc[i] \/ (proc[i].by = by /\ new[i] = row)
  BY <1>0, <1>2 DEF RowsTyped, ById
<1>7. /\ proc[i] \in Row /\ [proc[i] EXCEPT !.status = "failed"] \in Row
      /\ [proc[i] EXCEPT !.status = "failed"]
           = [by |-> proc[i].by, status |-> "failed", container |-> proc[i].container]
      /\ [by |-> by, status |-> "running", container |-> "watcher"] \in Row
  BY <1>0, FailedRow, MakersTyped DEF RowsTyped, Row
<1>8. proc'[j] = proc[j] \/ proc'[j].by = proc[j].by
  BY <1>3, <1>6, <1>7
<1>9. CASE UNCHANGED <<cont, given>> /\ proc' = ById(i, by, [proc[i] EXCEPT !.status = "failed"])
  <2>1. proc'[j] = proc[j] \/ (proc'[j].by = proc[j].by /\ proc'[j].container = proc[j].container)
    BY <1>6, <1>7, <1>9
  <2>2. GivenTo(j)'
    BY <1>1, <1>2, <1>4, <1>9, <2>1, GivenStays DEF Kept
  <2> QED BY <1>5, <2>2 DEF Kept
<1>10. CASE /\ cont' = [cont EXCEPT ![i] = "watcher"]
            /\ given' = [given EXCEPT ![i] = shared[i]]
            /\ proc' = ById(i, by, [by |-> by, status |-> "running", container |-> "watcher"])
  <2>1. CASE j # i
    <3>1. cont'[j] = cont[j] /\ given'[j] = given[j] /\ proc'[j] = proc[j]
      BY <1>0, <1>2, <1>6, <1>7, <1>10, <2>1 DEF DockerTyped, EnvTyped
    <3>2. GivenTo(j)'
      BY <1>1, <1>2, <1>4, <3>1, GivenStays DEF Kept
    <3> QED BY <1>5, <3>2 DEF Kept
  <2>2. CASE j = i
    <3>1. cont'[j] = "watcher" /\ given'[j] = shared[j]
      BY <1>0, <1>2, <1>10, <2>2 DEF DockerTyped, EnvTyped
    <3>2. proc[j].by \in Requests => before[proc[j].by] \subseteq shared[j]
      <4>1. NoRow.by \notin Requests
        BY ProjectsAssumption DEF NoRow
      <4>2. proc[j].by \in Requests => Owned(proc[j].by, j)
        BY <1>0, <1>2, <4>1 DEF KnownInv, RowFits
      <4> QED BY <1>2, <4>2 DEF Owned, Kept, AskedOf
    <3>3. "watcher" \notin Requests
      BY ProjectsAssumption
    <3>4. proc'[j].by = proc[j].by
      BY <1>8
    <3>5. GivenTo(j)'
      BY <1>1, <3>1, <3>2, <3>3, <3>4 DEF GivenTo
    <3> QED BY <1>5, <3>5 DEF Kept
  <2> QED BY <2>1, <2>2
<1> QED BY <1>3, <1>9, <1>10

LEMMA RestKept ==
    ASSUME VarsInv, (\E i \in All : Notice(i)) \/ Crash \/ UNCHANGED vars,
           NEW j \in alive' \ (mixed' \cup contended')
    PROVE  Kept(j)'
<1>1. /\ UNCHANGED <<alive, shared, given, read, replaced, kind, id, contended, before, proc, cont>>
      /\ mixed \subseteq mixed'
      /\ UNCHANGED pc \/ (pc' = [s \in Requests |-> IF InFlight(s) THEN "lost" ELSE pc[s]])
  BY DEF Notice, Crash, vars, rowVars, dockerVars, envVars, askVars, judgeVars
<1>2. j \in alive \ (mixed \cup contended) /\ Kept(j)
      /\ shared[j] \subseteq Requests
  BY <1>1 DEF VarsInv, CompanyInv, KnownInv, TypeOK, All
<1>3. \A s \in Requests : pc'[s] = pc[s] \/ (pc'[s] = "lost" /\ pc[s] \notin {"ok", "failed"})
  BY <1>1 DEF InFlight, Ended
<1>4. AskedOf(j)'
  BY <1>1, <1>2, <1>3 DEF Kept, AskedOf
<1>5. SetIn(j)'
  BY <1>1, <1>2, <1>3 DEF Kept, SetIn
<1>6. GivenTo(j)'
  BY <1>1, <1>2 DEF Kept, GivenTo, Owned
<1> QED BY <1>4, <1>5, <1>6 DEF Kept

LEMMA VarsInit == Init => VarsInv
<1> SUFFICES ASSUME Init PROVE VarsInv
  OBVIOUS
<1>1. CompanyInv /\ alive \subseteq All
  BY CompanyInit DEF CompanyInv, KnownInv, TypeOK, All
<1>2. /\ shared = [i \in All |-> {}] /\ id = [r \in Requests |-> "none"]
      /\ \A i \in All : cont[i] \in {Base, "none"}
      /\ Base \notin Requests /\ Base # "watcher" /\ "none" \notin Requests /\ "none" \notin All
  BY ProjectsAssumption DEF Init, All
<1> QED BY <1>1, <1>2 DEF VarsInv, Kept, AskedOf, SetIn, GivenTo

LEMMA VarsNext == VarsInv /\ [Next]_vars => VarsInv'
<1> SUFFICES ASSUME VarsInv, [Next]_vars, NEW i \in alive' \ (mixed' \cup contended')
             PROVE  Kept(i)'
  BY CompanyNext DEF VarsInv
<1>1. CASE \E r \in Requests : Work(r)
  <2>1. PICK r \in Requests : Work(r)
    BY <1>1
  <2>2. UNCHANGED <<mixed, contended>>
    BY <2>1, WorkMoves DEF Onward
  <2>3. alive' \subseteq alive
    BY <2>1, DeletionMoves, UploadMoves, ServiceMoves, S3Moves, EnvMoves
    DEF Work, DeletionStep, List, StopApp, Services, StopService, Disconnect, RemoveNetwork, DeleteRow,
        OnlyDocker, FailsAt, rowVars
  <2> QED BY <2>1, <2>2, <2>3, DeletionKept, UploadKept, OthersKept, EnvKept DEF Work
<1>2. CASE \E r \in Requests : BeginAny(r)
  <2>1. PICK r \in Requests, k \in {"delete", "upload", "service", "s3", "env"},
             which \in {"default", "other"} : Begin(r, k, which) /\ BeginAny(r)
    BY <1>2, BeginMoves
  <2>2. alive' = alive /\ mixed \subseteq mixed' /\ contended \subseteq contended'
    BY <2>1 DEF Begin, Judge, rowVars
  <2> QED BY <2>1, <2>2, BeginKept
<1>3. CASE \E r \in Requests : Create(r)
  BY <1>3, CreateKept
<1>4. CASE Recreate \/ (\E j \in All : Notice(j)) \/ Crash \/ UNCHANGED vars
  BY <1>4, RecreateKept, RestKept
<1> QED BY <1>1, <1>2, <1>3, <1>4, StepKinds DEF Next

\* A variable that was set stays, and none appears that nobody set, unless two were set at
\* once, or while the project was deleted: `project env set' reads all and writes all.
THEOREM VariablesStay == Spec => []VariablesKept
<1>1. VarsInv => VariablesKept
  <2> SUFFICES ASSUME VarsInv, NEW i \in alive \ (mixed \cup contended)
               PROVE  /\ {r \in Requests : kind[r] = "env" /\ id[r] = i /\ pc[r] \in {"ok"}} \subseteq shared[i]
                      /\ shared[i] \subseteq {r \in Requests : kind[r] = "env" /\ id[r] = i
                                                                /\ pc[r] \in {"ok", "failed"}}
    BY DEF VariablesKept
  <2>1. Kept(i) /\ shared[i] \subseteq Requests
    BY DEF VarsInv, CompanyInv, KnownInv, TypeOK, All
  <2> QED BY <2>1 DEF Kept, AskedOf, SetIn
<1> QED BY <1>1, VarsInit, VarsNext, PTL DEF Spec

\* The container that an upload started, or that the watcher started in its stead, has
\* the variables that were set before the upload began.
THEOREM VariablesArrive == Spec => []VariablesReachContainers
<1>1. VarsInv => VariablesReachContainers
  <2> SUFFICES ASSUME VarsInv, NEW i \in alive \ (mixed \cup contended), proc[i].by \in Requests,
                      cont[i] \in {proc[i].by, proc[i].container} \ {"none"}
               PROVE  before[proc[i].by] \subseteq given[i]
    BY DEF VariablesReachContainers
  <2>1. Kept(i) /\ RowFits(i)
    BY DEF VarsInv, CompanyInv, KnownInv, TypeOK, All
  <2>2. proc[i] # NoRow
    BY ProjectsAssumption DEF NoRow
  <2>3. proc[i].container \in {"none", proc[i].by, "watcher"}
    BY <2>1, <2>2 DEF RowFits
  <2>4. cont[i] = proc[i].by \/ (cont[i] = "watcher" /\ proc[i].container = "watcher")
    BY <2>3
  <2> QED BY <2>1, <2>4 DEF Kept, GivenTo
<1> QED BY <1>1, VarsInit, VarsNext, PTL DEF Spec

-----------------------------------------------------------------------------
(* The accounts of a project                                                *)

\* Requests for the same project have named it the same way.
LEMMA SameName ==
    ASSUME KnownInv, NEW r \in Requests, NEW s \in Requests, InFlight(r), InFlight(s), id[r] = id[s]
    PROVE  named[r] = named[s]
BY ProjectsAssumption DEF KnownInv, AskFits

\* Who is at work in project i, besides.
Quiet(i)     == \A r \in Requests : InFlight(r) /\ id[r] = i => kind[r] \notin {"upload", "delete"}
Undeleted(i) == \A r \in Requests : InFlight(r) /\ id[r] = i => kind[r] # "delete"

\* The row of the process tells of the container; the rows of services, and the
\* transactions that are about to commit one, tell of theirs.
Tells(i)  == cont[i] = proc[i].container /\ proc[i].status \in {"none", "running"}
Served(i) == ({service[i]} \ {"none"}) \cup {r \in Requests : pc[r] = "commit" /\ id[r] = i}
Building(r) == [by |-> r, status |-> "building", container |-> "none"]

\* What an upload has done so far.
UploadAt(r) ==
    LET i == id[r] IN
    /\ pc[r] = "stop_old" => Tells(i)
    /\ pc[r] \in {"delete_rows", "save", "create_row", "read_env", "ensure_network", "start"} =>
          cont[i] = "none"
    /\ pc[r] \in {"save", "create_row"} => proc[i] = NoRow
    /\ pc[r] \in {"create_row", "read_env", "ensure_network", "start", "register"} => i \in apps
    /\ pc[r] \in {"read_env", "ensure_network", "start", "register"} => proc[i] = Building(r)
    /\ pc[r] = "register" => cont[i] = r
    /\ pc[r] = "start" => i \in nets

Account(i) ==
    /\ seen # NotSeen => seen.project # i
    /\ Quiet(i) => Tells(i)
    /\ Undeleted(i) => scont[i] = Served(i)
    /\ \A r \in Requests : id[r] = i => UploadAt(r)

Sound == alive \ (mixed \cup hurt \cup leaked)
AccountsInv == CompanyInv /\ \A i \in Sound : Account(i)

\* In a sound project an upload or a deletion is the only one.
LEMMA OneMaker ==
    ASSUME CompanyInv, NEW i \in Sound, NEW r \in Requests, InFlight(r), id[r] = i,
           NEW s \in Requests \ {r}, InFlight(s), id[s] = i
    PROVE  /\ kind[r] # "delete" /\ kind[s] # "delete"
           /\ kind[r] = "upload" => kind[s] # "upload"
<1>1. Meet(r, s) /\ Meet(s, r)
  BY SameName DEF Meet, CompanyInv
<1> QED BY <1>1 DEF CompanyInv, Company, Sound

LEMMA AccountStays ==
    ASSUME NEW i, Account(i),
           proc'[i] = proc[i], cont'[i] = cont[i], i \in nets => i \in nets', i \in apps => i \in apps',
           seen' = seen,
           \A r \in Requests : id'[r] = i /\ pc'[r] \in UploadSteps => id[r] = i /\ pc'[r] = pc[r],
           Quiet(i)' => Quiet(i),
           Undeleted(i)' => Undeleted(i) /\ (scont[i] = Served(i) => scont'[i] = Served(i)')
    PROVE  Account(i)'
<1>1. Quiet(i)' => Tells(i)'
  BY DEF Account, Tells
<1>2. ASSUME NEW r \in Requests, id'[r] = i PROVE UploadAt(r)'
  <2>1. CASE pc'[r] \in UploadSteps
    <3>1. id[r] = i /\ pc'[r] = pc[r] /\ UploadAt(r)
      BY <1>2, <2>1 DEF Account
    <3> QED BY <1>2, <3>1 DEF UploadAt, Tells, Building
  <2>2. CASE pc'[r] \notin UploadSteps
    BY <2>2 DEF UploadAt, UploadSteps
  <2> QED BY <2>1, <2>2
<1> QED BY <1>1, <1>2 DEF Account

\* Work of a request elsewhere.
LEMMA AccountElsewhere ==
    ASSUME AccountsInv, NEW q \in Requests, Work(q), NEW i \in Sound, id[q] # i,
           i \in Sound'
    PROVE  Account(i)'
<1>0. KnownInv /\ AsksTyped /\ RowsTyped /\ InFlight(q) /\ i \in All /\ i \in alive' /\ i \notin hurt'
  BY WorkMoves, TypeParts DEF Onward, AccountsInv, CompanyInv, KnownInv, TypeOK, All, Sound
<1>1. /\ UNCHANGED <<kind, seen>> /\ \A s \in Requests \ {q} : pc'[s] = pc[s]
  BY <1>0, WorkMoves DEF Onward, askVars, Goto, AsksTyped
<1>2. \/ id' = id
      \/ /\ \A s \in Requests \ {q} : id'[s] = id[s]
         /\ pc'[q] \in {"commit_env", "refused"} /\ kind[q] = "env" /\ pc[q] = "put_env"
  <2>1. CASE PutEnv(q)
    BY <1>0, <2>1 DEF PutEnv, Goto, AsksTyped, KnownInv, AskFits, EnvSteps
  <2> QED BY <2>1, DeletionMoves, UploadMoves, ServiceMoves, S3Moves
          DEF Work, EnvStep, GetEnv, CommitEnv, Turn
<1>3. SameRows(i)
  <2>1. CASE DeleteRow(q)
    BY <1>0, <2>1 DEF DeleteRow, FailsAt, rowVars, SameRows, RowsTyped
  <2>2. CASE CreateRow(q) /\ DeleteDefault(q)
    <3>1. i # Default
      BY <1>0, <2>2 DEF CreateRow, At, Turn, DeleteDefault, Goto, AsksTyped
    <3> QED BY <1>0, <2>1, <3>1, WorkLocal
  <2> QED BY <1>0, <2>1, <2>2, WorkLocal
<1>4. SameDocker(i)
  BY <1>0, WorkLocal
<1>5. \A r \in Requests : id'[r] = i /\ pc'[r] \in UploadSteps => id[r] = i /\ pc'[r] = pc[r]
  BY <1>1, <1>2 DEF UploadSteps
<1>6. (Quiet(i)' => Quiet(i)) /\ (Undeleted(i)' => Undeleted(i))
  BY <1>1, <1>2 DEF Quiet, Undeleted, InFlight
<1>7. scont'[i] = scont[i] /\ Served(i)' = Served(i)
  BY <1>1, <1>2, <1>3, <1>4 DEF Served, SameRows, SameDocker
<1> QED BY <1>1, <1>3, <1>4, <1>5, <1>6, <1>7, AccountStays DEF AccountsInv, SameRows, SameDocker

\* A deletion in its own project: it stays there, or the project is no longer sound.
LEMMA AccountDeletion ==
    ASSUME AccountsInv, NEW q \in Requests, DeletionStep(q), NEW i \in Sound, id[q] = i, i \in Sound'
    PROVE  Account(i)'
<1>0. /\ KnownInv /\ AsksTyped /\ RowsTyped /\ InFlight(q) /\ Account(i)
      /\ i \in alive /\ i \in alive' /\ i \notin hurt' /\ i \notin mixed
  BY WorkMoves, TypeParts DEF Work, Onward, AccountsInv, CompanyInv, KnownInv, Sound
<1>1. UNCHANGED <<kind, id, seen>> /\ kind[q] = "delete" /\ \A s \in Requests \ {q} : pc'[s] = pc[s]
  BY <1>0, DeletionMoves DEF askVars, Goes, Goto, KnownInv, AskFits, AsksTyped
<1>2. i \in Others /\ named[q] = "other"
  BY <1>0, <1>1, ProjectsAssumption DEF KnownInv, AskFits, Others
<1>3. InFlight(q)'
  <2>1. CASE DeleteRow(q)
    <3>1. ~(\E s \in Requests : pc[s] = "commit_env" /\ id[s] \in Others)
      <4>1. SUFFICES ASSUME NEW s \in Requests, pc[s] = "commit_env", id[s] \in Others PROVE FALSE
        OBVIOUS
      <4>2. id[s] = i /\ s # q /\ InFlight(s)
        BY <1>0, <1>1, <1>2, <2>1, <4>1 DEF KnownInv, TypeOK, InFlight, Ended, DeleteRow, Turn
      <4> QED BY <1>0, <1>1, <4>2, OneMaker DEF AccountsInv
    <3> QED BY <1>0, <1>2, <2>1, <3>1 DEF DeleteRow, FailsAt, Fault
  <2>2. CASE ~DeleteRow(q)
    <3>1. pc'[q] \in DeleteSteps
      BY <1>0, <2>2 DEF DeletionStep, List, StopApp, Services, StopService, Disconnect, RemoveNetwork, FailsAt,
                   Fault, Goto, AsksTyped, DeleteSteps
    <3> QED BY <3>1 DEF DeleteSteps, InFlight, Ended
  <2> QED BY <2>1, <2>2
<1>4. ~Quiet(i)' /\ ~Undeleted(i)'
  BY <1>1, <1>3 DEF Quiet, Undeleted
<1>5. ASSUME NEW r \in Requests, id'[r] = i, pc'[r] \in UploadSteps PROVE FALSE
  <2>1. r # q
    BY <1>0, <1>5, DeletionMoves DEF Goes, Goto, AsksTyped, UploadSteps, DeleteSteps
  <2>2. InFlight(r) /\ id[r] = i
    BY <1>1, <1>5, <2>1 DEF InFlight, Ended, UploadSteps
  <2> QED BY <1>0, <1>1, <2>1, <2>2, OneMaker DEF AccountsInv
<1>6. \A r \in Requests : id'[r] = i => UploadAt(r)'
  BY <1>5 DEF UploadAt, UploadSteps
<1> QED BY <1>0, <1>1, <1>4, <1>6 DEF Account

\* The steps of an upload in its own project, one by one.
LEMMA AccountUpload ==
    ASSUME AccountsInv, NEW q \in Requests, UploadStep(q), NEW i \in Sound, id[q] = i, i \in Sound'
    PROVE  Account(i)'
<1>0. /\ KnownInv /\ AsksTyped /\ RowsTyped /\ DockerTyped /\ InFlight(q) /\ Account(i) /\ UploadAt(q)
      /\ i \in All /\ i \in alive /\ i \notin hurt' /\ i \notin leaked'
  BY WorkMoves, TypeParts DEF Work, Onward, AccountsInv, CompanyInv, KnownInv, Sound, Account, TypeOK, All
<1>1. UNCHANGED <<kind, id, seen, service, scont, alive>> /\ Goes(q, UploadSteps)
  BY UploadMoves DEF askVars
<1>2. kind[q] = "upload" /\ \A s \in Requests \ {q} : pc'[s] = pc[s]
  BY <1>0, <1>1 DEF Goes, Goto, KnownInv, AskFits, AsksTyped
<1>3. \A s \in Requests \ {q} : InFlight(s) /\ id[s] = i => kind[s] \notin {"upload", "delete"}
  BY <1>0, <1>2, OneMaker DEF AccountsInv
<1>4. pc[q] # "commit" /\ pc'[q] # "commit"
  BY <1>0, <1>1 DEF Goes, Goto, AsksTyped, UploadSteps
<1>5. scont'[i] = Served(i)'
  <2>1. Undeleted(i)
    BY <1>2, <1>3 DEF Undeleted
  <2> QED BY <1>0, <1>1, <1>2, <1>4, <2>1 DEF Account, Served
<1>6. ASSUME NEW r \in Requests \ {q}, id[r] = i PROVE UploadAt(r)'
  <2>1. pc[r] \notin UploadSteps
    <3>1. pc[r] \in UploadSteps => InFlight(r) /\ kind[r] = "upload"
      BY <1>0 DEF KnownInv, AskFits, InFlight, Ended, UploadSteps
    <3> QED BY <1>3, <1>6, <3>1
  <2> QED BY <1>2, <2>1 DEF UploadAt, UploadSteps
<1>7. SUFFICES UploadAt(q)' /\ (pc'[q] \notin UploadSteps => Tells(i)')
  <2>1. Quiet(i)' => pc'[q] \notin UploadSteps
    BY <1>0, <1>1, <1>2 DEF Quiet, InFlight, Ended, UploadSteps
  <2> QED BY <1>0, <1>1, <1>5, <1>6, <1>7, <2>1 DEF Account
<1>8. \A to : Goto(q, to) => pc'[q] = to
  BY <1>0 DEF Goto, AsksTyped
<1>9. ~Fault(q, TRUE) /\ ~Fault(q, FALSE) /\ ~FailsAt(q) /\ ~(hurt' = hurt \cup {i, Default})
  BY <1>0 DEF Fault, FailsAt
<1>10. CASE StopOld(q)
  <2>1. proc' = proc /\ apps' = apps /\ pc[q] = "stop_old" /\ cont' = Stopped(i)
    BY <1>0, <1>9, <1>10 DEF StopOld, OnlyDocker, rowVars, At, Turn
  <2>2. cont'[i] = "none"
    BY <1>0, <2>1 DEF Stopped, UploadAt, Tells, DockerTyped, NoRow
  <2>3. pc'[q] \in {"delete_rows", "save"} /\ (pc'[q] = "save" => i \notin apps)
    BY <1>0, <1>8, <1>9, <1>10 DEF StopOld
  <2>4. i \notin apps => proc[i] = NoRow
    BY <1>0 DEF RowsTyped
  <2> QED BY <1>1, <2>1, <2>2, <2>3, <2>4, <1>0 DEF UploadAt, UploadSteps
<1>11. CASE DeleteRows(q)
  <2>1. proc'[i] = NoRow /\ cont' = cont /\ pc[q] = "delete_rows" /\ pc'[q] = "save"
    BY <1>0, <1>8, <1>9, <1>11 DEF DeleteRows, OnlyRows, dockerVars, At, Turn, RowsTyped
  <2> QED BY <1>0, <1>1, <2>1 DEF UploadAt, UploadSteps
<1>12. CASE Save(q)
  <2>1. proc' = proc /\ cont' = cont /\ pc[q] = "save" /\ pc'[q] = "create_row" /\ i \in apps'
    BY <1>0, <1>8, <1>9, <1>12 DEF Save, OnlyRows, dockerVars, At, Turn
  <2> QED BY <1>0, <1>1, <2>1 DEF UploadAt, UploadSteps
<1>13. CASE CreateRow(q)
  <2>1. proc'[i] = Building(q) /\ cont' = cont /\ pc[q] = "create_row" /\ pc'[q] = "read_env" /\ i \in apps'
    BY <1>0, <1>8, <1>9, <1>13 DEF CreateRow, OnlyRows, dockerVars, At, Turn, RowsTyped, Building
  <2> QED BY <1>0, <1>1, <2>1 DEF UploadAt, UploadSteps, Building
<1>14. CASE ReadEnv(q)
  <2>1. proc' = proc /\ cont' = cont /\ apps' = apps /\ pc[q] = "read_env" /\ pc'[q] = "ensure_network"
    BY <1>0, <1>8, <1>9, <1>14 DEF ReadEnv, OnlyRows, dockerVars, Turn
  <2> QED BY <1>0, <1>1, <2>1 DEF UploadAt, UploadSteps, Building
<1>15. CASE Network(q)
  <2>1. /\ proc' = proc /\ cont' = cont /\ apps' = apps /\ pc[q] = "ensure_network" /\ pc'[q] = "start"
        /\ i \in nets'
    BY <1>0, <1>8, <1>15 DEF Network, OnlyDocker, rowVars, At, Turn, EnsureNetwork
  <2> QED BY <1>0, <1>1, <2>1 DEF UploadAt, UploadSteps, Building
<1>16. CASE Start(q)
  <2>0. pc[q] = "start" /\ cont[i] = "none" /\ i \in nets
    BY <1>0, <1>16 DEF Start, Turn, UploadAt
  <2>1. proc' = proc /\ cont'[i] = q /\ apps' = apps /\ pc'[q] = "register"
    BY <1>0, <1>8, <1>9, <1>16, <2>0 DEF Start, DockerTyped
  <2> QED BY <1>0, <1>1, <2>0, <2>1 DEF UploadAt, UploadSteps, Building
<1>17. CASE Register(q)
  <2>0. pc[q] = "register" /\ cont[i] = q /\ proc[i].by = q
    BY <1>0, <1>17 DEF Register, At, Turn, UploadAt, Building
  <2>1. /\ proc' = ById(i, q, [by |-> q, status |-> "running", container |-> q])
        /\ cont' = cont /\ pc'[q] = "ok"
    BY <1>0, <1>8, <1>9, <1>17 DEF Register, OnlyRows, dockerVars
  <2>2. proc'[i] = [by |-> q, status |-> "running", container |-> q]
    BY <1>0, <2>0, <2>1 DEF ById, RowsTyped
  <2>3. Tells(i)'
    BY <2>0, <2>1, <2>2 DEF Tells
  <2> QED BY <2>1, <2>3 DEF UploadAt
<1> QED BY <1>10, <1>11, <1>12, <1>13, <1>14, <1>15, <1>16, <1>17 DEF UploadStep

LEMMA AccountOthers ==
    ASSUME AccountsInv, NEW q \in Requests, ServiceStep(q) \/ S3Step(q) \/ EnvStep(q),
           NEW i \in Sound, id[q] = i, i \in Sound'
    PROVE  Account(i)'
<1>0. /\ KnownInv /\ AsksTyped /\ RowsTyped /\ DockerTyped /\ InFlight(q) /\ Account(i)
      /\ i \in All /\ i \in alive /\ i \notin hurt' /\ i \notin leaked'
  BY WorkMoves, TypeParts DEF Work, Onward, AccountsInv, CompanyInv, KnownInv, Sound, TypeOK, All
<1>1. /\ UNCHANGED <<kind, seen, proc, cont, apps>> /\ \A s \in Requests \ {q} : pc'[s] = pc[s] /\ id'[s] = id[s]
      /\ kind[q] \in {"service", "s3", "env"}
      /\ pc'[q] \notin UploadSteps
  <2>1. UNCHANGED <<kind, seen, proc, cont, apps>>
    BY ServiceMoves, S3Moves, EnvMoves DEF askVars, rowVars, dockerVars
  <2>2. \A s \in Requests \ {q} : id'[s] = id[s]
    BY <1>0, ServiceMoves, S3Moves DEF EnvStep, GetEnv, PutEnv, CommitEnv, Turn, AsksTyped
  <2>3. \A s \in Requests \ {q} : pc'[s] = pc[s]
    BY <1>0, ServiceMoves, S3Moves, EnvMoves DEF Goes, Goto, AsksTyped
  <2>4. kind[q] \in {"service", "s3", "env"}
    BY <1>0, ServiceMoves, S3Moves, EnvMoves DEF Goes, KnownInv, AskFits
  <2>5. pc'[q] \in ServiceSteps \cup S3Steps \cup EnvSteps \cup {"ok", "failed", "refused"}
    BY <1>0, ServiceMoves, S3Moves, EnvMoves DEF Goes, Goto, AsksTyped
  <2>6. pc'[q] \notin UploadSteps
    BY <2>5 DEF UploadSteps, ServiceSteps, S3Steps, EnvSteps
  <2> QED BY <2>1, <2>2, <2>3, <2>4, <2>6
<1>2. /\ \A r \in Requests : id'[r] = i /\ pc'[r] \in UploadSteps => id[r] = i /\ pc'[r] = pc[r]
      /\ Quiet(i)' => Quiet(i)
      /\ Undeleted(i)' => Undeleted(i)
  BY <1>1 DEF Quiet, Undeleted, InFlight
<1>3. i \in nets => i \in nets'
  BY DEF ServiceStep, Insert, ServiceNetwork, StartService, Commit, S3Step, InsertS3, ConnectGarage,
         EnvStep, GetEnv, PutEnv, CommitEnv, EnsureNetwork, OnlyRows, dockerVars
<1>4. SUFFICES scont[i] = Served(i) => scont'[i] = Served(i)'
  BY <1>0, <1>1, <1>2, <1>3, AccountStays
<1>5. \A to : Goto(q, to) => pc'[q] = to
  BY <1>0 DEF Goto, AsksTyped
<1>6. CASE /\ service' = service /\ scont' = scont /\ pc[q] # "commit" /\ pc'[q] # "commit"
  BY <1>1, <1>6 DEF Served
<1>7. CASE S3Step(q) \/ EnvStep(q)
  <2>1. service' = service /\ scont' = scont
    BY <1>7, S3Moves, EnvMoves DEF rowVars, dockerVars
  <2>2. pc[q] # "commit" /\ pc'[q] # "commit"
    BY <1>0, <1>7, S3Moves, EnvMoves DEF Goes, Goto, AsksTyped, S3Steps, EnvSteps
  <2> QED BY <1>6, <2>1, <2>2
<1>8. CASE Insert(q) \/ ServiceNetwork(q)
  BY <1>5, <1>6, <1>8 DEF Insert, ServiceNetwork, At, Turn, OnlyDocker, rowVars, dockerVars
<1>9. CASE StartService(q)
  <2>1. service' = service /\ pc[q] = "start_service" /\ id' = id
    BY <1>9 DEF StartService, At, Turn, OnlyDocker, rowVars
  <2>2. CASE pc'[q] = "commit" /\ scont'[i] = scont[i] \cup {q}
    <3>1. Served(i)' = Served(i) \cup {q}
      BY <1>0, <1>1, <2>1, <2>2 DEF Served
    <3> QED BY <2>2, <3>1
  <2>3. CASE pc'[q] # "commit" /\ scont' = scont
    BY <1>6, <2>1, <2>3
  <2> QED BY <1>0, <1>5, <1>9, <2>2, <2>3 DEF StartService, Fault, DockerTyped
<1>10. CASE Commit(q)
  <2>1. pc[q] = "commit" /\ id' = id /\ scont' = scont /\ service'[i] = q /\ pc'[q] = "ok"
    BY <1>0, <1>5, <1>10 DEF Commit, At, Turn, OnlyRows, dockerVars, Fault, RowsTyped
  <2>2. service[i] = "none" /\ q # "none"
    BY <1>0, <2>1, ProjectsAssumption DEF KnownInv, LockFits, Holds, Holding
  <2>3. Served(i)' = {q} \cup {r \in Requests \ {q} : pc[r] = "commit" /\ id[r] = i}
    BY <1>1, <2>1, <2>2 DEF Served
  <2>4. Served(i) = {q} \cup {r \in Requests \ {q} : pc[r] = "commit" /\ id[r] = i}
    BY <1>0, <2>1, <2>2 DEF Served
  <2> QED BY <2>1, <2>3, <2>4
<1> QED BY <1>7, <1>8, <1>9, <1>10 DEF ServiceStep

LEMMA BeginAccount ==
    ASSUME AccountsInv, NEW q \in Requests, BeginAny(q), NEW i \in Sound'
    PROVE  Account(i)'
<1>0. KnownInv /\ AsksTyped
  BY TypeParts DEF AccountsInv, CompanyInv, KnownInv
<1>1. PICK k \in {"delete", "upload", "service", "s3", "env"}, which \in {"default", "other"} :
          Begin(q, k, which)
  BY BeginMoves
<1>2. /\ pc[q] = "idle" /\ kind' = [kind EXCEPT ![q] = k]
      /\ UNCHANGED <<alive, apps, proc, service, cont, scont, nets, seen>>
      /\ mixed \subseteq mixed' /\ hurt \subseteq hurt' /\ leaked \subseteq leaked'
  BY <1>1 DEF Begin, Judge, rowVars, dockerVars
<1>3. \/ pc'[q] = "refused" /\ id'[q] = id[q]
      \/ pc'[q] = First[k] /\ Found(which) = {id'[q]}
  BY <1>0, <1>1, BeginFinds DEF AsksTyped
<1>4. /\ \A s \in Requests \ {q} : pc'[s] = pc[s] /\ id'[s] = id[s] /\ kind'[s] = kind[s]
      /\ kind'[q] = k
  BY <1>0, <1>1, <1>2, BeginFinds DEF AsksTyped
<1>5. i \in Sound /\ Account(i)
  BY <1>2 DEF Sound, AccountsInv
<1>6. ~InFlight(q) /\ pc'[q] # "commit"
  BY <1>2, <1>3, FirstSteps DEF InFlight, Ended
<1>7. (Quiet(i)' => Quiet(i)) /\ (Undeleted(i)' => Undeleted(i))
  BY <1>4, <1>6 DEF Quiet, Undeleted, InFlight
<1>8. Served(i)' = Served(i)
  BY <1>2, <1>4, <1>6 DEF Served
<1>9. ASSUME NEW r \in Requests, id'[r] = i PROVE UploadAt(r)'
  <2>1. CASE r # q
    BY <1>2, <1>4, <1>5, <1>9, <2>1 DEF Account, UploadAt, Tells, Building
  <2>2. CASE r = q /\ pc'[q] = "stop_old"
    <3>1. Found(which) = {i} /\ k = "upload"
      BY <1>3, <1>9, <2>2, FirstSteps
    <3>2. Quiet(i)
      <4>1. SUFFICES ASSUME NEW s \in Requests, InFlight(s), id[s] = i, kind[s] \in {"upload", "delete"}
                     PROVE  FALSE
        BY DEF Quiet
      <4>2. named[s] = which
        <5>1. IF which = "default" THEN i = Default ELSE i \in Ids
          BY <3>1 DEF Found, Others, AccountsInv, CompanyInv, KnownInv, TypeOK
        <5> QED BY <1>0, <4>1, <5>1, ProjectsAssumption DEF KnownInv, AskFits
      <4>3. i \in mixed' \/ i \in hurt'
        BY <1>0, <1>1, <3>1, <4>1, <4>2, BeginJudges
      <4> QED BY <4>3 DEF Sound
    <3>3. Tells(i)'
      BY <1>2, <1>5, <3>2 DEF Account, Tells
    <3> QED BY <1>9, <2>2, <3>3 DEF UploadAt
  <2>3. CASE r = q /\ pc'[q] # "stop_old"
    <3>1. pc'[q] \notin UploadSteps
      BY <1>3, <2>3, FirstSteps DEF UploadSteps
    <3> QED BY <2>3, <3>1 DEF UploadAt, UploadSteps
  <2> QED BY <2>1, <2>2, <2>3
<1> QED BY <1>2, <1>5, <1>7, <1>8, <1>9 DEF Account, Tells

LEMMA CreateAccount ==
    ASSUME AccountsInv, NEW q \in Requests, Create(q), NEW i \in Sound'
    PROVE  Account(i)'
<1>0. KnownInv /\ AsksTyped /\ RowsTyped
  BY TypeParts DEF AccountsInv, CompanyInv, KnownInv
<1>1. /\ pc[q] = "idle" /\ kind' = [kind EXCEPT ![q] = "create"]
      /\ UNCHANGED <<apps, proc, service, cont, scont, nets, id, seen, hurt, leaked>>
      /\ mixed \subseteq mixed' /\ \E to \in {"ok", "refused"} : pc' = [pc EXCEPT ![q] = to]
      /\ i \in alive \/ (i \in Ids \ used /\ i \notin alive)
  BY <1>0 DEF Create, rowVars, dockerVars, Goto, KnownInv, TypeOK, Sound
<1>2. /\ pc'[q] \in {"ok", "refused"} /\ ~InFlight(q) /\ id[q] = "none" /\ i # "none"
      /\ \A s \in Requests \ {q} : pc'[s] = pc[s] /\ kind'[s] = kind[s]
  BY <1>0, <1>1, ProjectsAssumption DEF AsksTyped, KnownInv, AskFits, InFlight, Ended, TypeOK, All
<1>3. CASE i \in alive
  <2>1. i \in Sound /\ Account(i)
    BY <1>1, <1>3 DEF Sound, AccountsInv
  <2>2. /\ \A r \in Requests : id'[r] = i /\ pc'[r] \in UploadSteps => id[r] = i /\ pc'[r] = pc[r]
        /\ Quiet(i)' => Quiet(i)
        /\ Undeleted(i)' => Undeleted(i)
        /\ Served(i)' = Served(i)
    BY <1>1, <1>2 DEF Quiet, Undeleted, Served, InFlight
  <2> QED BY <1>1, <2>1, <2>2, AccountStays
<1>4. CASE i \in Ids \ used /\ i \notin alive
  <2>1. i \in All \ Known /\ i \in All \ alive
    BY <1>4, ProjectsAssumption DEF All, Known
  <2>2. proc[i] = NoRow /\ cont[i] = "none" /\ scont[i] = {} /\ service[i] = "none"
    BY <1>0, <2>1 DEF RowsTyped, KnownInv, Fresh
  <2>3. \A r \in Requests : id[r] # i
    BY <1>0, <1>2, <2>1 DEF KnownInv, AskFits
  <2>4. Tells(i)'
    BY <1>1, <2>2 DEF Tells, NoRow
  <2>5. Served(i)' = {}
    BY <1>1, <2>2, <2>3 DEF Served
  <2>6. seen # NotSeen => seen.project # i
    BY <1>0, <2>1 DEF KnownInv, SeenFits
  <2> QED BY <1>1, <2>2, <2>3, <2>4, <2>5, <2>6 DEF Account
<1> QED BY <1>1, <1>3, <1>4

LEMMA WatchAccount ==
    ASSUME AccountsInv, Recreate \/ (\E j \in All : Notice(j)) \/ Crash \/ UNCHANGED vars,
           NEW i \in Sound'
    PROVE  Account(i)'
<1>0. KnownInv /\ AsksTyped /\ RowsTyped /\ DockerTyped
  BY TypeParts DEF AccountsInv, CompanyInv, KnownInv
<1>1. /\ UNCHANGED <<alive, apps, service, scont, kind, id>>
      /\ mixed \subseteq mixed' /\ hurt \subseteq hurt' /\ leaked \subseteq leaked'
  BY DEF Recreate, Notice, Crash, vars, rowVars, dockerVars, askVars, judgeVars
<1>2. i \in Sound /\ Account(i) /\ i \in All /\ RowFits(i)
  BY <1>0, <1>1 DEF Sound, AccountsInv, KnownInv, TypeOK, All
<1>3. CASE Recreate
  <2>1. PICK j \in Known \cap All, by \in Owners :
            /\ seen = [project |-> j, by |-> by] /\ seen' = NotSeen /\ nets' = nets \cup {j}
            /\ \/ /\ cont' = [cont EXCEPT ![j] = "watcher"]
                  /\ proc' = ById(j, by, [by |-> by, status |-> "running", container |-> "watcher"])
               \/ /\ UNCHANGED cont
                  /\ proc' = ById(j, by, [proc[j] EXCEPT !.status = "failed"])
    BY <1>0, <1>3, RecreateWrites
  <2>2. j # i
    <3>1. seen # NotSeen
      BY <1>3 DEF Recreate
    <3> QED BY <1>2, <2>1, <3>1 DEF Account
  <2>3. proc'[i] = proc[i] /\ cont'[i] = cont[i] /\ pc' = pc
    BY <1>0, <1>2, <1>3, <2>1, <2>2 DEF Recreate, ById, RowsTyped, DockerTyped
  <2>4. seen' = NotSeen /\ (i \in nets => i \in nets')
    BY <2>1
  <2> QED BY <1>1, <1>2, <2>3, <2>4
          DEF Account, Quiet, Undeleted, InFlight, Tells, Served, UploadAt, Building
<1>4. CASE \E j \in All : Notice(j)
  <2>1. PICK j \in All : Notice(j)
    BY <1>4
  <2>2. UNCHANGED <<proc, cont, nets, pc>> /\ seen' = [project |-> j, by |-> proc[j].by]
    BY <2>1 DEF Notice, rowVars, dockerVars
  <2>3. j # i
    <3>1. SUFFICES ASSUME j = i PROVE FALSE
      OBVIOUS
    <3>2. Working(i) = {}
      BY <2>1, <3>1 DEF Notice, Sound
    <3>3. Tells(i)
      BY <1>2, <3>2 DEF Account, Quiet, Working
    <3> QED BY <1>2, <2>1, <3>1, <3>3 DEF Notice, Tells, RowFits, NoRow
  <2>4. seen' # NotSeen => seen'.project # i
    BY <2>2, <2>3
  <2> QED BY <1>1, <1>2, <2>2, <2>4
          DEF Account, Quiet, Undeleted, InFlight, Tells, Served, UploadAt, Building
<1>5. CASE Crash
  <2>1. /\ UNCHANGED <<proc, cont, nets>> /\ seen' = NotSeen
        /\ pc' = [r \in Requests |-> IF InFlight(r) THEN "lost" ELSE pc[r]]
        /\ \A r \in Requests : InFlight(r) => id[r] \in hurt'
    BY <1>5 DEF Crash, rowVars, dockerVars
  <2>2. \A r \in Requests : id[r] = i => ~InFlight(r) /\ pc'[r] = pc[r]
    BY <2>1 DEF Sound
  <2>3. Quiet(i) /\ Undeleted(i) /\ Served(i)' = Served(i)
    BY <1>1, <2>2 DEF Quiet, Undeleted, Served
  <2> QED BY <1>1, <1>2, <2>1, <2>2, <2>3 DEF Account, Tells, UploadAt, Building
<1>6. CASE UNCHANGED vars
  <2>1. UNCHANGED <<proc, cont, nets, pc, seen>>
    BY <1>6 DEF vars, rowVars, dockerVars
  <2> QED BY <1>1, <1>2, <2>1
          DEF Account, Quiet, Undeleted, InFlight, Tells, Served, UploadAt, Building
<1> QED BY <1>3, <1>4, <1>5, <1>6

LEMMA AccountsInit == Init => AccountsInv
<1> SUFFICES ASSUME Init PROVE AccountsInv
  OBVIOUS
<1>1. CompanyInv /\ alive \subseteq All
  BY CompanyInit DEF CompanyInv, KnownInv, TypeOK, All
<1>2. /\ service = [i \in All |-> "none"] /\ scont = [i \in All |-> {}] /\ seen = NotSeen
      /\ pc = [r \in Requests |-> "idle"]
      /\ \A i \in All : Tells(i)
  BY DEF Init, Tells, NoRow
<1>3. ASSUME NEW i \in All PROVE Account(i)
  <2>1. Served(i) = {}
    BY <1>2, <1>3 DEF Served
  <2> QED BY <1>2, <1>3, <2>1 DEF Account, UploadAt
<1> QED BY <1>1, <1>3 DEF AccountsInv, Sound

LEMMA AccountsNext == AccountsInv /\ [Next]_vars => AccountsInv'
<1> SUFFICES ASSUME AccountsInv, [Next]_vars, NEW i \in Sound' PROVE Account(i)'
  BY CompanyNext DEF AccountsInv
<1>1. CASE \E r \in Requests : Work(r)
  <2>1. PICK r \in Requests : Work(r)
    BY <1>1
  <2>2. mixed' = mixed /\ hurt \subseteq hurt' /\ leaked \subseteq leaked'
    BY <2>1, WorkMoves DEF Onward, Judged
  <2>3. alive' \subseteq alive
    BY <2>1, DeletionMoves, UploadMoves, ServiceMoves, S3Moves, EnvMoves
    DEF Work, DeletionStep, List, StopApp, Services, StopService, Disconnect, RemoveNetwork, DeleteRow,
        OnlyDocker, FailsAt, rowVars
  <2>4. i \in Sound
    BY <2>2, <2>3 DEF Sound
  <2> QED BY <2>1, <2>4, AccountElsewhere, AccountDeletion, AccountUpload, AccountOthers DEF Work
<1>2. CASE \E r \in Requests : BeginAny(r) \/ Create(r)
  BY <1>2, BeginAccount, CreateAccount
<1>3. CASE Recreate \/ (\E j \in All : Notice(j)) \/ Crash \/ UNCHANGED vars
  BY <1>3, WatchAccount
<1> QED BY <1>1, <1>2, <1>3, StepKinds DEF Next

\* At rest the rows of a project tell exactly what containers there are, unless a deletion
\* met another request, or a fault or two uploads at once may have left something.
THEOREM ProjectsAccounted == Spec => []Accounted
<1>1. AccountsInv => Accounted
  <2> SUFFICES ASSUME AccountsInv, \A r \in Requests : ~InFlight(r), NEW i \in Sound
               PROVE  /\ cont[i] = proc[i].container
                      /\ proc[i].status \in {"none", "running"}
                      /\ scont[i] = {service[i]} \ {"none"}
    BY DEF Accounted, Sound
  <2>1. Quiet(i) /\ Undeleted(i)
    BY DEF Quiet, Undeleted
  <2>2. \A r \in Requests : pc[r] # "commit"
    BY DEF InFlight, Ended
  <2>3. Served(i) = {service[i]} \ {"none"}
    BY <2>2 DEF Served
  <2> QED BY <2>1, <2>3 DEF AccountsInv, Account, Tells
<1> QED BY <1>1, AccountsInit, AccountsNext, PTL DEF Spec

-----------------------------------------------------------------------------
(* Requests that nothing disturbs                                           *)

\* What such a request relies on, at each of its steps.
Smooth(r) ==
    LET i == id[r] IN
    /\ pc[r] # "failed"
    /\ pc[r] = "stop_old" /\ proc[i] = NoRow => cont[i] = "none"
    /\ pc[r] \in {"delete_rows", "save", "create_row", "read_env", "ensure_network", "start"} =>
          cont[i] = "none"
    /\ pc[r] \in {"start", "start_service"} => i \in nets
    /\ pc[r] \in S3Steps => i \in apps
    /\ pc[r] = "commit_env" => shared[i] = replaced[r]

SmoothInv == AccountsInv /\ \A r \in Requests \ disturbed : Smooth(r)

\* An undisturbed request is alone with requests of other kinds, none of them a deletion.
LEMMA GoodCompany ==
    ASSUME CompanyInv, NEW r \in Requests \ disturbed, NEW q \in Requests \ {r},
           InFlight(r), InFlight(q), named[q] = named[r]
    PROVE  kind[r] # "delete" /\ kind[q] # "delete" /\ kind[q] # kind[r]
BY DEF CompanyInv, Company, Meet

\* They leave alone what it relies on.
LEMMA QuietWork ==
    ASSUME CompanyInv, NEW q \in Requests, Work(q), NEW r \in Requests \ {q}, r \notin disturbed',
           InFlight(r)
    PROVE  LET i == id[r] IN
           /\ kind[r] = "upload" => proc'[i] = proc[i] /\ cont'[i] = cont[i]
           /\ i \in nets => i \in nets'
           /\ kind[r] = "s3" => (i \in apps => i \in apps')
           /\ kind[r] = "env" => shared'[i] = shared[i]
<1> DEFINE i == id[r]
<1>0. /\ KnownInv /\ AsksTyped /\ InFlight(q) /\ r \notin disturbed /\ i \in All /\ id[q] \in All
  BY WorkMoves, TypeParts, AtWork DEF Onward, Judged, CompanyInv, KnownInv
<1>1. i # Default => named[r] = "other"
  BY <1>0 DEF KnownInv, AskFits
<1>2. ~(i = Default /\ CreateRow(q) /\ DeleteDefault(q))
  BY <1>0 DEF DeleteDefault
<1>3. CASE i # id[q]
  <2>1. SameDocker(i)
    BY <1>0, <1>3, WorkLocal
  <2>2. CASE ~DeleteRow(q)
    <3>1. SameRows(i)
      BY <1>0, <1>2, <1>3, <2>2, WorkLocal
    <3> QED BY <2>1, <3>1 DEF SameRows, SameDocker
  <2>3. CASE DeleteRow(q)
    <3>1. kind[q] = "delete" /\ named[q] = "other"
      BY <1>0, <2>3 DEF DeleteRow, Turn, KnownInv, AskFits, DeleteSteps
    <3>2. i = Default
      BY <1>0, <1>1, <3>1, GoodCompany
    <3>3. proc'[i] = proc[i] /\ shared'[i] = shared[i] /\ (i \in apps => i \in apps')
      <4>1. \/ UNCHANGED <<proc, shared, apps>>
            \/ /\ apps' = apps \ Others
               /\ proc' = [j \in All |-> IF j \in Others THEN NoRow ELSE proc[j]]
               /\ shared' = [j \in All |-> IF j \in Others THEN {} ELSE shared[j]]
        BY <2>3 DEF DeleteRow, FailsAt, rowVars
      <4>2. i \notin Others
        BY <3>2 DEF Others
      <4> QED BY <1>0, <4>1, <4>2
    <3> QED BY <2>1, <3>3 DEF SameDocker
  <2> QED BY <2>2, <2>3
<1>4. CASE i = id[q]
  <2>1. named[q] = named[r]
    BY <1>0, <1>4, SameName
  <2>2. kind[q] # "delete" /\ kind[q] # kind[r]
    BY <1>0, <2>1, GoodCompany
  <2>3. ~DeletionStep(q)
    BY <1>0, <2>2, DeletionMoves DEF Goes, KnownInv, AskFits
  <2>4. CASE UploadStep(q)
    <3>1. kind[r] # "upload" /\ shared' = shared
      BY <1>0, <2>2, <2>4, UploadMoves DEF Goes, KnownInv, AskFits
    <3>2. i \in nets => i \in nets'
      BY <2>4 DEF UploadStep, StopOld, DeleteRows, Save, CreateRow, ReadEnv, Network, Start, Register,
              EnsureNetwork, FailsAt, OnlyRows, dockerVars
    <3>3. i # Default
      BY <1>0, <3>1, ProjectsAssumption DEF KnownInv, AskFits
    <3>4. i \in apps => i \in apps'
      BY <2>4, <3>3 DEF UploadStep, StopOld, DeleteRows, Save, CreateRow, DeleteDefault, ReadEnv, Network,
              Start, Register, FailsAt, OnlyDocker, rowVars
    <3> QED BY <3>1, <3>2, <3>4
  <2>5. CASE ServiceStep(q) \/ S3Step(q)
    <3>1. UNCHANGED <<proc, cont, apps, shared>>
      BY <2>5, ServiceMoves, S3Moves DEF rowVars, envVars
    <3>2. i \in nets => i \in nets'
      BY <2>5 DEF ServiceStep, Insert, ServiceNetwork, StartService, Commit, S3Step, InsertS3,
              ConnectGarage, EnsureNetwork, OnlyRows, dockerVars
    <3> QED BY <3>1, <3>2
  <2>6. CASE EnvStep(q)
    <3>1. UNCHANGED <<proc, cont, apps, nets>> /\ kind[q] = "env"
      BY <1>0, <2>6, EnvMoves DEF rowVars, dockerVars, Goes, KnownInv, AskFits
    <3> QED BY <2>2, <3>1
  <2> QED BY <2>3, <2>4, <2>5, <2>6 DEF Work
<1> QED BY <1>3, <1>4

LEMMA SmoothForOthers ==
    ASSUME SmoothInv, NEW q \in Requests, Work(q), NEW r \in Requests \ {q}, r \notin disturbed'
    PROVE  Smooth(r)'
<1>0. /\ CompanyInv /\ KnownInv /\ AsksTyped /\ r \notin disturbed /\ Smooth(r)
  BY WorkMoves, TypeParts DEF Onward, Judged, SmoothInv, AccountsInv, CompanyInv, KnownInv
<1>1. pc'[r] = pc[r] /\ id'[r] = id[r] /\ replaced'[r] = replaced[r]
  <2>1. pc'[r] = pc[r]
    BY <1>0, WorkMoves DEF Onward, Goto, AsksTyped
  <2>2. CASE EnvStep(q)
    BY <1>0, <2>1, <2>2 DEF EnvStep, GetEnv, PutEnv, CommitEnv, Turn, AsksTyped, KnownInv, TypeOK
  <2>3. CASE ~EnvStep(q)
    <3>1. id' = id /\ replaced' = replaced
      BY <2>3, DeletionMoves, UploadMoves, ServiceMoves, S3Moves DEF Work, envVars
    <3> QED BY <2>1, <3>1
  <2> QED BY <2>1, <2>2, <2>3
<1>2. CASE ~InFlight(r)
  BY <1>0, <1>1, <1>2 DEF Smooth, InFlight, Ended, S3Steps
<1>3. CASE InFlight(r)
  <2>1. /\ pc[r] \in UploadSteps => kind[r] = "upload"
        /\ pc[r] \in S3Steps => kind[r] = "s3"
        /\ pc[r] \in EnvSteps => kind[r] = "env"
    BY <1>0 DEF KnownInv, AskFits
  <2>2. /\ pc[r] \in {"stop_old", "delete_rows", "save", "create_row", "read_env", "ensure_network", "start"} =>
              proc'[id[r]] = proc[id[r]] /\ cont'[id[r]] = cont[id[r]]
        /\ id[r] \in nets => id[r] \in nets'
        /\ pc[r] \in S3Steps => (id[r] \in apps => id[r] \in apps')
        /\ pc[r] = "commit_env" => shared'[id[r]] = shared[id[r]]
    BY <1>0, <1>3, <2>1, QuietWork DEF UploadSteps, EnvSteps
  <2> QED BY <1>0, <1>1, <2>2 DEF Smooth
<1> QED BY <1>2, <1>3

\* Of the request's own steps, by kind.
LEMMA SmoothUpload ==
    ASSUME SmoothInv, NEW r \in Requests, UploadStep(r), r \notin disturbed'
    PROVE  Smooth(r)'
<1>0. /\ CompanyInv /\ KnownInv /\ AsksTyped /\ DockerTyped /\ InFlight(r) /\ r \notin disturbed /\ Smooth(r)
      /\ id[r] \in All /\ id[r] \in alive
  BY WorkMoves, TypeParts, AtWork
  DEF Work, Onward, Judged, SmoothInv, AccountsInv, CompanyInv, KnownInv, Placed
<1>1. id' = id /\ alive' = alive
  BY UploadMoves
<1>2. \A to : Goto(r, to) => pc'[r] = to
  BY <1>0 DEF Goto, AsksTyped
<1>3. ~Fault(r, TRUE) /\ ~Fault(r, FALSE) /\ ~FailsAt(r) /\ ~DeleteDefault(r)
  BY DEF Fault, FailsAt, DeleteDefault
<1>4. CASE StopOld(r)
  <2>1. pc[r] = "stop_old" /\ cont' = Stopped(id[r]) /\ pc'[r] \in {"delete_rows", "save"}
    BY <1>2, <1>3, <1>4 DEF StopOld, At, Turn
  <2>2. cont'[id[r]] = "none"
    BY <1>0, <2>1 DEF Stopped, Smooth, DockerTyped
  <2> QED BY <1>1, <2>1, <2>2 DEF Smooth, S3Steps
<1>5. CASE DeleteRows(r) \/ Save(r) \/ CreateRow(r) \/ ReadEnv(r)
  <2>1. /\ pc[r] \in {"delete_rows", "save", "create_row", "read_env"} /\ cont' = cont
        /\ pc'[r] \in {"save", "create_row", "read_env", "ensure_network"}
    BY <1>0, <1>2, <1>3, <1>5 DEF DeleteRows, Save, CreateRow, ReadEnv, At, Turn, OnlyRows, dockerVars
  <2> QED BY <1>0, <1>1, <2>1 DEF Smooth, S3Steps
<1>6. CASE Network(r)
  <2>1. pc[r] = "ensure_network" /\ cont' = cont /\ pc'[r] = "start" /\ id[r] \in nets'
    BY <1>2, <1>6 DEF Network, At, Turn, EnsureNetwork
  <2> QED BY <1>0, <1>1, <2>1 DEF Smooth, S3Steps
<1>7. CASE Start(r) \/ Register(r)
  <2>1. pc'[r] \in {"register", "ok"}
    BY <1>0, <1>2, <1>3, <1>7 DEF Start, Register, Turn, Smooth
  <2> QED BY <2>1 DEF Smooth, S3Steps
<1> QED BY <1>4, <1>5, <1>6, <1>7 DEF UploadStep

LEMMA SmoothRest ==
    ASSUME SmoothInv, NEW r \in Requests, DeletionStep(r) \/ ServiceStep(r) \/ S3Step(r) \/ EnvStep(r),
           r \notin disturbed'
    PROVE  Smooth(r)'
<1>0. /\ CompanyInv /\ KnownInv /\ AsksTyped /\ EnvTyped /\ InFlight(r) /\ r \notin disturbed /\ Smooth(r)
      /\ id[r] \in All /\ id[r] \in alive
  BY WorkMoves, TypeParts, AtWork
  DEF Work, Onward, Judged, SmoothInv, AccountsInv, CompanyInv, KnownInv, Placed
<1>1. \A to : Goto(r, to) => pc'[r] = to
  BY <1>0 DEF Goto, AsksTyped
<1>2. ~Fault(r, TRUE) /\ ~Fault(r, FALSE) /\ ~FailsAt(r)
  BY DEF Fault, FailsAt
<1>3. CASE DeletionStep(r)
  <2>1. pc'[r] # "failed"
    <3>1. CASE DeleteRow(r)
      <4>1. kind[r] = "delete" /\ named[r] = "other"
        BY <1>0, <3>1 DEF DeleteRow, Turn, KnownInv, AskFits, DeleteSteps
      <4>2. ASSUME NEW s \in Requests, pc[s] = "commit_env" PROVE FALSE
        <5>1. kind[s] = "env" /\ InFlight(s)
          BY <1>0, <4>2 DEF KnownInv, AskFits, EnvSteps, InFlight, Ended
        <5>2. named[s] = "other" /\ s # r
          BY <1>0, <4>1, <5>1 DEF KnownInv, AskFits
        <5> QED BY <1>0, <4>1, <5>1, <5>2, GoodCompany
      <4> QED BY <1>1, <1>2, <3>1, <4>2 DEF DeleteRow
    <3> QED BY <1>1, <1>2, <1>3, <3>1
            DEF DeletionStep, List, StopApp, Services, StopService, Disconnect, RemoveNetwork
  <2>2. pc'[r] \in DeleteSteps \cup {"ok", "refused", "failed"}
    BY <1>1, <1>3, DeletionMoves DEF Goes
  <2>3. pc'[r] \notin UploadSteps \cup S3Steps \cup {"start_service", "commit_env"}
    BY <2>2 DEF DeleteSteps, UploadSteps, S3Steps
  <2> QED BY <2>1, <2>3 DEF Smooth, UploadSteps
<1>4. CASE ServiceStep(r)
  <2>1. id' = id
    BY <1>4, ServiceMoves
  <2>2. /\ pc'[r] \in {"service_network", "start_service", "commit", "ok"}
        /\ pc'[r] = "start_service" => id[r] \in nets'
    BY <1>0, <1>1, <1>2, <1>4
    DEF ServiceStep, Insert, ServiceNetwork, StartService, Commit, At, Turn, EnsureNetwork, Smooth
  <2> QED BY <2>1, <2>2 DEF Smooth, S3Steps
<1>5. CASE S3Step(r)
  <2>1. id' = id /\ apps' = apps
    BY <1>5, S3Moves DEF rowVars
  <2>2. pc[r] \in S3Steps /\ pc'[r] \in {"connect_garage", "ok"}
    BY <1>0, <1>1, <1>5 DEF S3Step, InsertS3, ConnectGarage, At, Turn, Smooth, S3Steps
  <2> QED BY <1>0, <2>1, <2>2 DEF Smooth
<1>6. CASE EnvStep(r)
  <2>1. CASE GetEnv(r) \/ PutEnv(r)
    <3>1. /\ pc'[r] \in {"put_env", "commit_env", "refused"}
          /\ pc'[r] = "commit_env" => shared'[id'[r]] = replaced'[r]
      BY <1>0, <1>1, <2>1 DEF GetEnv, PutEnv, AsksTyped, EnvTyped
    <3> QED BY <3>1 DEF Smooth, S3Steps
  <2>2. CASE CommitEnv(r)
    <3>1. pc'[r] = "ok"
      BY <1>0, <1>1, <1>2, <2>2 DEF CommitEnv, Turn, Smooth
    <3> QED BY <3>1 DEF Smooth, S3Steps
  <2> QED BY <1>6, <2>1, <2>2 DEF EnvStep
<1> QED BY <1>3, <1>4, <1>5, <1>6

LEMMA SmoothBegin ==
    ASSUME SmoothInv, NEW q \in Requests, BeginAny(q), NEW r \in Requests, r \notin disturbed'
    PROVE  Smooth(r)'
<1>0. KnownInv /\ CompanyInv /\ AsksTyped
  BY TypeParts DEF SmoothInv, AccountsInv, CompanyInv, KnownInv
<1>1. PICK k \in {"delete", "upload", "service", "s3", "env"}, which \in {"default", "other"} :
          (k = "s3" => Others \subseteq apps) /\ (which = "default" => k = "upload") /\ Begin(q, k, which)
  BY BeginMoves
<1>2. /\ pc[q] = "idle" /\ UNCHANGED <<alive, apps, proc, cont, nets, shared, replaced>>
      /\ disturbed \subseteq disturbed'
      /\ Found(which) \cap (mixed \cup hurt \cup leaked) # {} => q \in disturbed'
  BY <1>1 DEF Begin, Judge, rowVars, dockerVars, envVars, Found
<1>3. \/ pc'[q] = "refused" /\ id'[q] = id[q]
      \/ pc'[q] = First[k] /\ Found(which) = {id'[q]} /\ id'[q] \in alive
  BY <1>0, <1>1, BeginFinds DEF AsksTyped
<1>4. \A s \in Requests \ {q} : pc'[s] = pc[s] /\ id'[s] = id[s]
  BY <1>0, <1>1, BeginFinds DEF AsksTyped
<1>5. CASE r # q
  BY <1>2, <1>4, <1>5 DEF SmoothInv, Smooth
<1>6. CASE r = q
  <2>1. CASE pc'[q] = "refused"
    BY <1>6, <2>1 DEF Smooth, S3Steps
  <2>2. CASE pc'[q] = First[k] /\ Found(which) = {id'[q]} /\ id'[q] \in alive
    <3> DEFINE i == id'[q]
    <3>1. i \in Sound
      BY <1>2, <1>6, <2>2 DEF Sound
    <3>2. k = "s3" => i \in apps'
      BY <1>1, <1>2, <2>2 DEF Found
    <3>3. k = "upload" => Tells(i)
      <4>1. SUFFICES ASSUME k = "upload", NEW s \in Requests, InFlight(s), id[s] = i,
                            kind[s] \in {"upload", "delete"}
                     PROVE  FALSE
        BY <3>1 DEF SmoothInv, AccountsInv, Account, Quiet
      <4>2. named[s] = which
        <5>1. IF which = "default" THEN i = Default ELSE i \in Ids
          BY <2>2 DEF Found, Others, CompanyInv, KnownInv, TypeOK, SmoothInv, AccountsInv
        <5> QED BY <1>0, <4>1, <5>1, ProjectsAssumption DEF KnownInv, AskFits
      <4> QED BY <1>0, <1>1, <1>6, <2>2, <4>1, <4>2, BeginJudges
    <3>4. k = "upload" => (proc[i] = NoRow => cont[i] = "none")
      BY <3>3 DEF Tells, NoRow
    <3> QED BY <1>2, <1>6, <2>2, <3>2, <3>4, FirstSteps DEF Smooth, S3Steps
  <2> QED BY <1>3, <2>1, <2>2
<1> QED BY <1>5, <1>6

LEMMA SmoothElse ==
    ASSUME SmoothInv,
           (\E q \in Requests : Create(q)) \/ Recreate \/ (\E i \in All : Notice(i)) \/ Crash
             \/ UNCHANGED vars,
           NEW r \in Requests, r \notin disturbed'
    PROVE  Smooth(r)'
<1>0. KnownInv /\ CompanyInv /\ AsksTyped /\ DockerTyped /\ RowsTyped
  BY TypeParts DEF SmoothInv, AccountsInv, CompanyInv, KnownInv
<1>1. disturbed \subseteq disturbed' /\ UNCHANGED <<id, shared, replaced, apps>>
  BY DEF Create, Recreate, Notice, Crash, vars, rowVars, envVars, askVars, judgeVars
<1>2. Smooth(r)
  BY <1>1 DEF SmoothInv
<1>3. CASE \E q \in Requests : Create(q)
  <2>1. UNCHANGED <<proc, cont, nets>> /\ (pc'[r] = pc[r] \/ pc'[r] \in {"ok", "refused"})
    BY <1>0, <1>3 DEF Create, rowVars, dockerVars, Goto, AsksTyped
  <2> QED BY <1>1, <1>2, <2>1 DEF Smooth, S3Steps
<1>4. CASE Recreate
  <2>1. pc' = pc
    BY <1>4 DEF Recreate
  <2>2. CASE ~InFlight(r)
    BY <1>1, <1>2, <2>1, <2>2 DEF Smooth, InFlight, Ended, S3Steps
  <2>3. CASE InFlight(r)
    <3>1. PICK i \in Known \cap All, by \in Owners :
              /\ nets' = nets \cup {i}
              /\ \/ /\ cont' = [cont EXCEPT ![i] = "watcher"]
                    /\ proc' = ById(i, by, [by |-> by, status |-> "running", container |-> "watcher"])
                 \/ /\ UNCHANGED cont
                    /\ proc' = ById(i, by, [proc[i] EXCEPT !.status = "failed"])
              /\ disturbed' = disturbed \cup Working(i)
      BY <1>0, <1>4, RecreateWrites
    <3>2. id[r] # i
      BY <2>3, <3>1 DEF Working
    <3>3. id[r] \in All
      BY <1>0, <2>3, AtWork
    <3>4. cont'[id[r]] = cont[id[r]] /\ proc'[id[r]] = proc[id[r]]
      BY <1>0, <3>1, <3>2, <3>3 DEF ById, DockerTyped, RowsTyped
    <3>5. id[r] \in nets => id[r] \in nets'
      BY <3>1
    <3> QED BY <1>1, <1>2, <2>1, <3>4, <3>5 DEF Smooth
  <2> QED BY <2>2, <2>3
<1>5. CASE (\E i \in All : Notice(i)) \/ Crash \/ UNCHANGED vars
  <2>1. UNCHANGED <<proc, cont, nets>> /\ (pc'[r] = pc[r] \/ pc'[r] = "lost")
    BY <1>5 DEF Notice, Crash, vars, rowVars, dockerVars
  <2> QED BY <1>1, <1>2, <2>1 DEF Smooth, S3Steps
<1> QED BY <1>3, <1>4, <1>5

LEMMA SmoothInit == Init => SmoothInv
<1> SUFFICES ASSUME Init PROVE SmoothInv
  OBVIOUS
<1>1. pc = [r \in Requests |-> "idle"]
  BY DEF Init
<1> QED BY <1>1, AccountsInit DEF SmoothInv, Smooth, S3Steps

LEMMA SmoothNext == SmoothInv /\ [Next]_vars => SmoothInv'
<1> SUFFICES ASSUME SmoothInv, [Next]_vars, NEW r \in Requests, r \notin disturbed' PROVE Smooth(r)'
  BY AccountsNext DEF SmoothInv
<1>1. CASE \E q \in Requests : Work(q)
  BY <1>1, SmoothForOthers, SmoothUpload, SmoothRest DEF Work
<1>2. CASE \E q \in Requests : BeginAny(q)
  BY <1>2, SmoothBegin
<1>3. CASE (\E q \in Requests : Create(q)) \/ Recreate \/ (\E i \in All : Notice(i)) \/ Crash
             \/ UNCHANGED vars
  BY <1>3, SmoothElse
<1> QED BY <1>1, <1>2, <1>3, StepKinds DEF Next

\* A request that no fault, no deletion, no other of its kind and no watcher disturbs
\* does not fail, whatever else goes on in its project and in others.
THEOREM UndisturbedDone == Spec => []UndisturbedSucceeds
<1>1. SmoothInv => UndisturbedSucceeds
  BY DEF SmoothInv, Smooth, UndisturbedSucceeds
<1> QED BY <1>1, SmoothInit, SmoothNext, PTL DEF Spec

-----------------------------------------------------------------------------
(* What a deletion leaves                                                   *)

\* How far a deletion has come, and what an upload relies on, in a project that is clean.
Committers(i) == {r \in Requests : pc[r] = "commit" /\ id[r] = i}
CleanAt(r) ==
    LET i == id[r] IN
    /\ pc[r] \in {"delete_rows", "save", "create_row", "read_env", "ensure_network", "start"} =>
          cont[i] = "none"
    /\ pc[r] \in {"read_env", "ensure_network", "start", "register"} => proc[i].by = r
    /\ pc[r] \in {"services", "stop_service", "disconnect", "remove_network", "delete_row"} =>
          cont[i] = "none"
    /\ pc[r] \in {"disconnect", "remove_network", "delete_row"} => scont[i] = {}
    /\ pc[r] \in {"remove_network", "delete_row"} => i \notin traefik
    /\ pc[r] = "delete_row" /\ i \in nets => i \in garage

\* Every container has a row, or a transaction that will make one.
HasRows(i) ==
    /\ proc[i] = NoRow => cont[i] = "none"
    /\ scont[i] \subseteq ({service[i]} \ {"none"}) \cup Committers(i)
Gone(i) == cont[i] = "none" /\ scont[i] = {} /\ (i \in nets => i \in garage)

Tidy(i) == IF i \in alive THEN HasRows(i) /\ \A r \in Requests : id[r] = i => CleanAt(r) ELSE Gone(i)

Clean == Ids \ (mixed \cup leaked)
TidyInv == CompanyInv /\ \A i \in Clean : Tidy(i)

\* In a clean project a deletion is alone, and an upload is the only one.
LEMMA CleanMaker ==
    ASSUME CompanyInv, NEW i \in Clean, NEW r \in Requests, InFlight(r), id[r] = i,
           NEW s \in Requests \ {r}, InFlight(s), id[s] = i
    PROVE  /\ kind[r] # "delete" /\ kind[s] # "delete"
           /\ kind[r] = "upload" => kind[s] # "upload"
<1>1. Meet(r, s) /\ Meet(s, r)
  BY SameName DEF Meet, CompanyInv
<1> QED BY <1>1 DEF CompanyInv, Company, Clean

\* A request works only on a clean project that is there.
LEMMA CleanThere ==
    ASSUME CompanyInv, NEW i \in Clean, NEW r \in Requests, InFlight(r), id[r] = i
    PROVE  i \in alive /\ named[r] = "other" /\ i \in Others
BY ProjectsAssumption DEF CompanyInv, Placed, Clean, KnownInv, AskFits, Others

LEMMA TidyStays ==
    ASSUME NEW i \in Ids, Tidy(i),
           proc'[i] = proc[i], cont'[i] = cont[i], scont'[i] = scont[i], service'[i] = service[i],
           i \in alive' <=> i \in alive, i \in nets' <=> i \in nets, i \in traefik' <=> i \in traefik,
           i \in garage' <=> i \in garage,
           \A r \in Requests : id'[r] = i /\ pc'[r] \in UploadSteps \cup DeleteSteps =>
              (id[r] = i /\ pc'[r] = pc[r]) \/ pc'[r] \in {"stop_old", "list", "stop_app"},
           Committers(i)' = Committers(i)
    PROVE  Tidy(i)'
<1>1. CASE i \in alive
  <2>1. HasRows(i)'
    BY <1>1 DEF Tidy, HasRows
  <2>2. ASSUME NEW r \in Requests, id'[r] = i PROVE CleanAt(r)'
    <3>1. CASE pc'[r] \in UploadSteps \cup DeleteSteps /\ pc'[r] \notin {"stop_old", "list", "stop_app"}
      <4>1. id[r] = i /\ pc'[r] = pc[r] /\ CleanAt(r)
        BY <1>1, <2>2, <3>1 DEF Tidy
      <4> QED BY <2>2, <4>1 DEF CleanAt
    <3>2. CASE ~(pc'[r] \in UploadSteps \cup DeleteSteps) \/ pc'[r] \in {"stop_old", "list", "stop_app"}
      BY <3>2 DEF CleanAt, UploadSteps, DeleteSteps
    <3> QED BY <3>1, <3>2
  <2> QED BY <1>1, <2>1, <2>2 DEF Tidy
<1>2. CASE i \notin alive
  BY <1>2 DEF Tidy, Gone
<1> QED BY <1>1, <1>2

LEMMA TidyElsewhere ==
    ASSUME TidyInv, NEW q \in Requests, Work(q), NEW i \in Clean, id[q] # i
    PROVE  Tidy(i)'
<1>0. KnownInv /\ AsksTyped /\ RowsTyped /\ InFlight(q) /\ i \in All /\ i # Default
  BY WorkMoves, TypeParts, ProjectsAssumption DEF Onward, TidyInv, CompanyInv, KnownInv, Clean, All
<1>1. \A s \in Requests \ {q} : pc'[s] = pc[s]
  BY <1>0, WorkMoves DEF Onward, Goto, AsksTyped
<1>2. \/ id' = id
      \/ /\ \A s \in Requests \ {q} : id'[s] = id[s]
         /\ pc'[q] \in {"commit_env", "refused"} /\ pc[q] = "put_env"
  <2>1. CASE PutEnv(q)
    BY <1>0, <2>1 DEF PutEnv, Goto, AsksTyped
  <2> QED BY <2>1, DeletionMoves, UploadMoves, ServiceMoves, S3Moves
          DEF Work, EnvStep, GetEnv, CommitEnv, Turn
<1>3. SameRows(i)
  <2>1. CASE DeleteRow(q)
    <3>1. kind[q] = "delete"
      BY <1>0, <2>1 DEF DeleteRow, Turn, KnownInv, AskFits, DeleteSteps
    <3>2. i \notin Others
      BY <1>0, <3>1 DEF TidyInv, CompanyInv, Placed, Clean
    <3> QED BY <1>0, <2>1, <3>2 DEF DeleteRow, FailsAt, rowVars, SameRows, RowsTyped
  <2> QED BY <1>0, <2>1, WorkLocal
<1>4. SameDocker(i)
  BY <1>0, WorkLocal
<1>5. \A r \in Requests : id'[r] = i /\ pc'[r] \in UploadSteps \cup DeleteSteps => id[r] = i /\ pc'[r] = pc[r]
  BY <1>1, <1>2 DEF UploadSteps, DeleteSteps
<1>6. Committers(i)' = Committers(i)
  BY <1>1, <1>2 DEF Committers
<1> QED BY <1>3, <1>4, <1>5, <1>6, TidyStays DEF TidyInv, SameRows, SameDocker, Clean

\* What the other requests in the project make of a step, a deletion or an upload.
LEMMA OthersAside ==
    ASSUME TidyInv, NEW q \in Requests, Work(q), NEW i \in Clean, id[q] = i,
           kind[q] \in {"delete", "upload"}
    PROVE  /\ i \in alive /\ i \in All /\ i \in Others /\ HasRows(i) /\ CleanAt(q)
           /\ \A r \in Requests \ {q} : id'[r] = i => CleanAt(r)'
           /\ Committers(i)' = Committers(i)
           /\ kind[q] = "delete" => Committers(i) = {}
<1>0. KnownInv /\ AsksTyped /\ InFlight(q) /\ CompanyInv
  BY WorkMoves, TypeParts DEF Onward, TidyInv, CompanyInv, KnownInv
<1>1. i \in alive /\ i \in Others /\ i \in All
  BY <1>0, CleanThere DEF Clean, All
<1>2. UploadStep(q) \/ DeletionStep(q)
  BY <1>0, ServiceMoves, S3Moves, EnvMoves DEF Work, Goes, KnownInv, AskFits
<1>3. id' = id /\ \A s \in Requests \ {q} : pc'[s] = pc[s]
  BY <1>0, <1>2, UploadMoves, DeletionMoves DEF Goes, Goto, AsksTyped
<1>4. pc[q] # "commit" /\ pc'[q] # "commit"
  BY <1>0, <1>2, UploadMoves, DeletionMoves DEF Goes, Goto, AsksTyped, UploadSteps, DeleteSteps
<1>5. ASSUME NEW r \in Requests \ {q}, id[r] = i PROVE pc[r] \notin UploadSteps \cup DeleteSteps
  <2>1. pc[r] \in UploadSteps \cup DeleteSteps => InFlight(r) /\ kind[r] \in {"upload", "delete"}
    BY <1>0 DEF KnownInv, AskFits, InFlight, Ended, UploadSteps, DeleteSteps
  <2> QED BY <1>0, <1>5, <2>1, CleanMaker
<1>6. \A r \in Requests \ {q} : id'[r] = i => CleanAt(r)'
  BY <1>3, <1>5 DEF CleanAt, UploadSteps, DeleteSteps
<1>7. Committers(i)' = Committers(i)
  BY <1>3, <1>4 DEF Committers
<1>8. kind[q] = "delete" => Committers(i) = {}
  BY <1>0, <1>4, CleanMaker DEF Committers, InFlight, Ended
<1> QED BY <1>1, <1>6, <1>7, <1>8 DEF TidyInv, Tidy

LEMMA TidyDeletion ==
    ASSUME TidyInv, NEW q \in Requests, DeletionStep(q), NEW i \in Clean, id[q] = i, i \in Clean'
    PROVE  Tidy(i)'
<1>0. KnownInv /\ AsksTyped /\ RowsTyped /\ DockerTyped /\ InFlight(q) /\ CompanyInv
  BY WorkMoves, TypeParts DEF Work, Onward, TidyInv, CompanyInv, KnownInv
<1>1. kind[q] = "delete" /\ id' = id
  BY <1>0, DeletionMoves DEF Goes, KnownInv, AskFits
<1>2. /\ i \in alive /\ i \in All /\ i \in Others /\ HasRows(i) /\ CleanAt(q)
      /\ \A r \in Requests \ {q} : id'[r] = i => CleanAt(r)'
      /\ Committers(i)' = {} /\ Committers(i) = {}
  BY <1>1, OthersAside DEF Work
<1>3. SUFFICES IF i \in alive' THEN HasRows(i)' /\ CleanAt(q)' ELSE Gone(i)'
  BY <1>1, <1>2 DEF Tidy
<1>4. \A to : Goto(q, to) => pc'[q] = to
  BY <1>0 DEF Goto, AsksTyped
<1>5. ~Fault(q, TRUE)
  BY DEF Fault, Clean
<1>6. ASSUME UNCHANGED <<proc, cont, service, scont, alive>>,
             pc'[q] \in {"stop_app", "failed", "ok", "refused"}
      PROVE  IF i \in alive' THEN HasRows(i)' /\ CleanAt(q)' ELSE Gone(i)'
  BY <1>2, <1>6 DEF HasRows, CleanAt
<1>7. CASE List(q)
  <2>1. UNCHANGED <<proc, cont, service, scont, alive>>
    BY <1>7 DEF List, FailsAt, rowVars, dockerVars
  <2>2. \/ pc'[q] \in {"stop_app", "failed"}
        \/ pc'[q] = "services" /\ proc[i] = NoRow
    BY <1>4, <1>7 DEF List, FailsAt
  <2>3. CASE pc'[q] = "services" /\ proc[i] = NoRow
    BY <1>1, <1>2, <2>1, <2>3 DEF HasRows, CleanAt
  <2> QED BY <1>6, <2>1, <2>2, <2>3
<1>8. CASE StopApp(q)
  <2>1. UNCHANGED <<proc, service, scont, alive>> /\ cont'[i] = "none" /\ pc'[q] = "services"
    BY <1>0, <1>2, <1>4, <1>5, <1>8 DEF StopApp, OnlyDocker, rowVars, DockerTyped
  <2> QED BY <1>1, <1>2, <2>1 DEF HasRows, CleanAt
<1>9. CASE Services(q)
  <2>1. UNCHANGED <<proc, cont, service, scont, alive>> /\ pc[q] = "services"
    BY <1>9 DEF Services, FailsAt, rowVars, dockerVars, At, Turn
  <2>2. \/ pc'[q] = "failed" \/ pc'[q] = "stop_service"
        \/ pc'[q] = "disconnect" /\ service[i] = "none"
    BY <1>4, <1>9 DEF Services, FailsAt
  <2>3. cont[i] = "none" /\ (service[i] = "none" => scont[i] = {})
    BY <1>2, <2>1 DEF CleanAt, HasRows
  <2>4. CASE pc'[q] = "stop_service" \/ (pc'[q] = "disconnect" /\ service[i] = "none")
    BY <1>1, <1>2, <2>1, <2>3, <2>4 DEF HasRows, CleanAt
  <2> QED BY <1>6, <2>1, <2>2, <2>4
<1>10. CASE StopService(q)
  <2>1. /\ UNCHANGED <<proc, service, cont, alive>> /\ scont'[i] = scont[i] \ {service[i]}
        /\ pc[q] = "stop_service" /\ pc'[q] = "disconnect"
    BY <1>0, <1>2, <1>4, <1>5, <1>10 DEF StopService, OnlyDocker, rowVars, DockerTyped, At, Turn
  <2>2. scont'[i] = {}
    BY <1>2, <2>1 DEF HasRows
  <2> QED BY <1>1, <1>2, <2>1, <2>2 DEF HasRows, CleanAt
<1>11. CASE Disconnect(q)
  <2>1. /\ UNCHANGED <<proc, service, cont, scont, alive>> /\ i \notin traefik'
        /\ pc[q] = "disconnect" /\ pc'[q] = "remove_network"
    BY <1>4, <1>5, <1>11 DEF Disconnect, OnlyDocker, rowVars, At, Turn
  <2> QED BY <1>1, <1>2, <2>1 DEF HasRows, CleanAt
<1>12. CASE RemoveNetwork(q)
  <2>1. /\ UNCHANGED <<proc, service, cont, scont, alive, traefik, garage>>
        /\ pc[q] = "remove_network" /\ pc'[q] = "delete_row"
        /\ nets' = IF InUse(i) THEN nets ELSE nets \ {i}
    BY <1>4, <1>5, <1>12 DEF RemoveNetwork, OnlyDocker, rowVars, At, Turn
  <2>2. InUse(i) => i \in garage
    BY <1>2, <2>1 DEF CleanAt, InUse
  <2>3. i \in nets' => i \in garage'
    BY <2>1, <2>2
  <2> QED BY <1>1, <1>2, <2>1, <2>3 DEF HasRows, CleanAt
<1>13. CASE DeleteRow(q)
  <2>1. pc[q] = "delete_row" /\ UNCHANGED dockerVars /\ pc'[q] \in {"ok", "refused", "failed"}
    BY <1>4, <1>13 DEF DeleteRow, FailsAt, OnlyRows, Turn
  <2>2. UNCHANGED <<cont, scont, nets, garage>>
    BY <2>1 DEF dockerVars
  <2>3. CASE i \notin alive'
    BY <1>2, <2>1, <2>2, <2>3 DEF CleanAt, Gone
  <2>4. CASE i \in alive'
    <3>1. UNCHANGED rowVars
      BY <1>2, <1>13, <2>4 DEF DeleteRow, FailsAt
    <3> QED BY <1>6, <2>1, <2>2, <3>1 DEF rowVars
  <2> QED BY <2>3, <2>4
<1> QED BY <1>7, <1>8, <1>9, <1>10, <1>11, <1>12, <1>13 DEF DeletionStep

LEMMA TidyUpload ==
    ASSUME TidyInv, NEW q \in Requests, UploadStep(q), NEW i \in Clean, id[q] = i, i \in Clean'
    PROVE  Tidy(i)'
<1>0. KnownInv /\ AsksTyped /\ RowsTyped /\ DockerTyped /\ InFlight(q) /\ CompanyInv
  BY WorkMoves, TypeParts DEF Work, Onward, TidyInv, CompanyInv, KnownInv
<1>1. kind[q] = "upload" /\ UNCHANGED <<id, alive, service, scont>>
  BY <1>0, UploadMoves DEF Goes, KnownInv, AskFits
<1>2. /\ i \in alive /\ i \in All /\ i # Default /\ HasRows(i) /\ CleanAt(q)
      /\ \A r \in Requests \ {q} : id'[r] = i => CleanAt(r)'
      /\ Committers(i)' = Committers(i)
  BY <1>1, OthersAside DEF Work, Others
<1>3. SUFFICES (proc'[i] = NoRow => cont'[i] = "none") /\ CleanAt(q)'
  BY <1>1, <1>2 DEF Tidy, HasRows
<1>4. \A to : Goto(q, to) => pc'[q] = to
  BY <1>0 DEF Goto, AsksTyped
<1>5. ~Fault(q, TRUE) /\ NoRow.by # q
  BY ProjectsAssumption DEF Fault, Clean, NoRow
<1>6. CASE StopOld(q)
  <2>1. \/ /\ proc' = proc /\ cont' = Stopped(i) /\ pc'[q] \in {"delete_rows", "save"}
        \/ proc' = proc /\ cont' = cont /\ pc'[q] = "failed"
    BY <1>1, <1>4, <1>5, <1>6 DEF StopOld, FailsAt, OnlyDocker, rowVars, dockerVars
  <2>2. CASE /\ proc' = proc /\ cont' = Stopped(i) /\ pc'[q] \in {"delete_rows", "save"}
    <3>1. cont'[i] = "none"
      BY <1>0, <1>2, <2>2 DEF Stopped, HasRows, DockerTyped
    <3> QED BY <1>1, <2>2, <3>1 DEF CleanAt
  <2>3. CASE proc' = proc /\ cont' = cont /\ pc'[q] = "failed"
    BY <1>2, <2>3 DEF HasRows, CleanAt
  <2> QED BY <2>1, <2>2, <2>3
<1>7. CASE DeleteRows(q) \/ Save(q) \/ CreateRow(q)
  <2>1. cont' = cont /\ pc[q] \in {"delete_rows", "save", "create_row"}
    BY <1>7 DEF DeleteRows, Save, CreateRow, FailsAt, OnlyRows, dockerVars, At, Turn
  <2>2. cont'[i] = "none"
    BY <1>2, <2>1 DEF CleanAt
  <2>3. /\ pc'[q] \in {"save", "create_row", "read_env", "failed"}
        /\ pc'[q] = "read_env" => proc'[i].by = q
    <3>1. CASE DeleteRows(q) \/ Save(q)
      BY <1>4, <3>1 DEF DeleteRows, Save, FailsAt
    <3>2. CASE CreateRow(q)
      BY <1>0, <1>2, <1>4, <3>2 DEF CreateRow, DeleteDefault, RowsTyped
    <3> QED BY <1>7, <3>1, <3>2
  <2> QED BY <1>1, <2>2, <2>3 DEF CleanAt
<1>8. CASE ReadEnv(q) \/ Start(q) \/ Register(q)
  <2>0. /\ pc[q] \in {"read_env", "start", "register"}
        /\ pc[q] = "read_env" => cont' = cont
    BY <1>8 DEF ReadEnv, Start, Register, At, Turn, OnlyRows, dockerVars
  <2>1. proc[i].by = q
    BY <1>2, <2>0 DEF CleanAt
  <2>2. \/ proc' = proc
        \/ proc' = ById(i, q, [proc[i] EXCEPT !.status = "failed"])
        \/ proc' = ById(i, q, [by |-> q, status |-> "running", container |-> q])
    BY <1>8 DEF ReadEnv, Start, Register
  <2>3. [proc[i] EXCEPT !.status = "failed"].by = q
    BY <1>0, <1>2, <2>1, FailedRow DEF RowsTyped
  <2>4. proc'[i].by = q
    <3>1. \A row : ById(i, q, row)[i] = row
      BY <1>0, <1>2, <2>1 DEF ById, RowsTyped
    <3>2. \/ proc'[i] = proc[i]
          \/ proc'[i] = [proc[i] EXCEPT !.status = "failed"]
          \/ proc'[i] = [by |-> q, status |-> "running", container |-> q]
      BY <2>2, <3>1
    <3>3. CASE proc'[i] = proc[i]
      BY <2>1, <3>3
    <3>4. CASE proc'[i] = [proc[i] EXCEPT !.status = "failed"]
      BY <2>3, <3>4
    <3>5. CASE proc'[i] = [by |-> q, status |-> "running", container |-> q]
      BY <3>5
    <3> QED BY <3>2, <3>3, <3>4, <3>5
  <2>5. /\ pc'[q] \in {"ensure_network", "register", "ok", "failed"}
        /\ pc'[q] = "ensure_network" => cont'[i] = "none"
    BY <1>2, <1>4, <1>8, <2>0 DEF ReadEnv, Start, Register, CleanAt, Turn
  <2> QED BY <1>1, <1>5, <2>4, <2>5 DEF CleanAt
<1>9. CASE Network(q)
  <2>1. proc' = proc /\ cont' = cont /\ pc[q] = "ensure_network" /\ pc'[q] = "start"
    BY <1>4, <1>9 DEF Network, OnlyDocker, rowVars, At, Turn
  <2> QED BY <1>1, <1>2, <2>1 DEF HasRows, CleanAt
<1> QED BY <1>6, <1>7, <1>8, <1>9 DEF UploadStep

LEMMA TidyService ==
    ASSUME TidyInv, NEW q \in Requests, ServiceStep(q), NEW i \in Clean, id[q] = i, i \in Clean'
    PROVE  Tidy(i)'
<1>0. KnownInv /\ AsksTyped /\ RowsTyped /\ DockerTyped /\ InFlight(q) /\ CompanyInv
  BY WorkMoves, TypeParts DEF Work, Onward, TidyInv, CompanyInv, KnownInv
<1>1. /\ kind[q] = "service" /\ UNCHANGED <<id, alive, proc, cont>>
      /\ \A s \in Requests \ {q} : pc'[s] = pc[s]
  BY <1>0, ServiceMoves DEF Goes, Goto, KnownInv, AskFits, AsksTyped
<1>2. /\ i \in alive /\ i \in All /\ HasRows(i) /\ \A r \in Requests : id[r] = i => CleanAt(r)
  BY <1>0, CleanThere DEF TidyInv, Tidy, Clean, All
<1>3. pc'[q] \notin UploadSteps \cup DeleteSteps
  BY <1>0, ServiceMoves DEF Goes, Goto, AsksTyped, ServiceSteps, UploadSteps, DeleteSteps
<1>4. ASSUME NEW r \in Requests, id[r] = i PROVE CleanAt(r)'
  <2>1. CASE r = q
    BY <1>3, <2>1 DEF CleanAt, UploadSteps, DeleteSteps
  <2>2. CASE r # q
    <3>1. pc[r] \notin DeleteSteps
      <4>1. pc[r] \in DeleteSteps => InFlight(r) /\ kind[r] = "delete"
        BY <1>0 DEF KnownInv, AskFits, InFlight, Ended, DeleteSteps
      <4> QED BY <1>0, <1>4, <2>2, <4>1, CleanMaker
    <3>2. CleanAt(r) /\ pc'[r] = pc[r]
      BY <1>1, <1>2, <1>4, <2>2
    <3> QED BY <1>1, <3>1, <3>2 DEF CleanAt, DeleteSteps
  <2> QED BY <2>1, <2>2
<1>5. SUFFICES scont'[i] \subseteq ({service'[i]} \ {"none"}) \cup Committers(i)'
  BY <1>1, <1>2, <1>4 DEF Tidy, HasRows
<1>6. \A to : Goto(q, to) => pc'[q] = to
  BY <1>0 DEF Goto, AsksTyped
<1>7. ~Fault(q, TRUE)
  BY DEF Fault, Clean
<1>8. CASE Insert(q) \/ ServiceNetwork(q)
  <2>1. scont' = scont /\ service' = service /\ pc[q] # "commit"
    BY <1>8 DEF Insert, ServiceNetwork, OnlyDocker, rowVars, dockerVars, At, Turn
  <2>2. Committers(i) \subseteq Committers(i)'
    BY <1>1, <2>1 DEF Committers
  <2> QED BY <1>2, <2>1, <2>2 DEF HasRows
<1>9. CASE StartService(q)
  <2>1. service' = service /\ pc[q] # "commit"
    BY <1>9 DEF StartService, OnlyDocker, rowVars, At, Turn
  <2>2. Committers(i) \subseteq Committers(i)'
    BY <1>1, <2>1 DEF Committers
  <2>3. \/ scont' = scont
        \/ scont'[i] = scont[i] \cup {q} /\ pc'[q] = "commit"
    BY <1>0, <1>2, <1>6, <1>7, <1>9 DEF StartService, DockerTyped
  <2>4. pc'[q] = "commit" => q \in Committers(i)'
    BY <1>1 DEF Committers
  <2> QED BY <1>2, <2>1, <2>2, <2>3, <2>4 DEF HasRows
<1>10. CASE Commit(q)
  <2>1. pc[q] = "commit" /\ scont' = scont /\ service'[i] = q
    BY <1>0, <1>2, <1>7, <1>10 DEF Commit, OnlyRows, dockerVars, At, Turn, RowsTyped
  <2>2. service[i] = "none" /\ q # "none"
    BY <1>0, <1>2, <2>1, ProjectsAssumption DEF KnownInv, LockFits, Holds, Holding
  <2>3. Committers(i) \subseteq Committers(i)' \cup {q}
    BY <1>1 DEF Committers
  <2> QED BY <1>2, <2>1, <2>2, <2>3 DEF HasRows
<1> QED BY <1>8, <1>9, <1>10 DEF ServiceStep

LEMMA TidyRest ==
    ASSUME TidyInv, NEW q \in Requests, S3Step(q) \/ EnvStep(q), NEW i \in Clean, id[q] = i
    PROVE  Tidy(i)'
<1>0. KnownInv /\ AsksTyped /\ InFlight(q) /\ CompanyInv
  BY WorkMoves, TypeParts DEF Work, Onward, TidyInv, CompanyInv, KnownInv
<1>1. /\ UNCHANGED <<alive, proc, service, cont, scont, traefik>>
      /\ \A s \in Requests \ {q} : pc'[s] = pc[s] /\ id'[s] = id[s]
      /\ pc'[q] \notin UploadSteps \cup DeleteSteps \cup {"commit"} /\ pc[q] # "commit"
  <2>1. UNCHANGED <<alive, proc, service, cont, scont, traefik>>
    BY S3Moves, EnvMoves DEF rowVars, dockerVars, S3Step, InsertS3, ConnectGarage
  <2>2. \A s \in Requests \ {q} : id'[s] = id[s]
    BY <1>0, S3Moves DEF EnvStep, GetEnv, PutEnv, CommitEnv, Turn, AsksTyped
  <2>3. \A s \in Requests \ {q} : pc'[s] = pc[s]
    BY <1>0, S3Moves, EnvMoves DEF Goes, Goto, AsksTyped
  <2>4. pc'[q] \in S3Steps \cup EnvSteps \cup {"ok", "failed", "refused"} /\ pc[q] \in S3Steps \cup EnvSteps
    BY <1>0, S3Moves, EnvMoves DEF Goes, Goto, AsksTyped
  <2>5. pc'[q] \notin UploadSteps \cup DeleteSteps \cup {"commit"} /\ pc[q] # "commit"
    BY <2>4 DEF UploadSteps, DeleteSteps, S3Steps, EnvSteps
  <2> QED BY <2>1, <2>2, <2>3, <2>5
<1>2. /\ i \in alive /\ HasRows(i) /\ \A r \in Requests : id[r] = i => CleanAt(r)
  BY <1>0, CleanThere DEF TidyInv, Tidy
<1>3. HasRows(i)'
  <2>1. Committers(i)' = Committers(i)
    BY <1>1 DEF Committers
  <2> QED BY <1>1, <1>2, <2>1 DEF HasRows
<1>4. ASSUME NEW r \in Requests, id'[r] = i PROVE CleanAt(r)'
  <2>1. CASE r = q
    BY <1>1, <2>1 DEF CleanAt, UploadSteps, DeleteSteps
  <2>2. CASE r # q
    <3>1. pc[r] \notin DeleteSteps
      <4>1. pc[r] \in DeleteSteps => InFlight(r) /\ kind[r] = "delete"
        BY <1>0 DEF KnownInv, AskFits, InFlight, Ended, DeleteSteps
      <4> QED BY <1>0, <1>1, <1>4, <2>2, <4>1, CleanMaker
    <3>2. CleanAt(r) /\ pc'[r] = pc[r] /\ id'[r] = id[r]
      BY <1>1, <1>2, <1>4, <2>2
    <3> QED BY <1>1, <3>1, <3>2 DEF CleanAt, DeleteSteps
  <2> QED BY <2>1, <2>2
<1> QED BY <1>1, <1>2, <1>3, <1>4 DEF Tidy

LEMMA TidyBegin ==
    ASSUME TidyInv, NEW q \in Requests, BeginAny(q), NEW i \in Clean
    PROVE  Tidy(i)'
<1>0. KnownInv /\ AsksTyped
  BY TypeParts DEF TidyInv, CompanyInv, KnownInv
<1>1. PICK k \in {"delete", "upload", "service", "s3", "env"}, which \in {"default", "other"} :
          Begin(q, k, which)
  BY BeginMoves
<1>2. pc[q] = "idle" /\ UNCHANGED <<alive, proc, service, cont, scont, nets, traefik, garage>>
  BY <1>1 DEF Begin, rowVars, dockerVars
<1>3. pc'[q] \in {"refused", First[k]} /\ \A s \in Requests \ {q} : pc'[s] = pc[s] /\ id'[s] = id[s]
  BY <1>0, <1>1, BeginFinds DEF AsksTyped
<1>4. pc'[q] \in {"refused", "list", "stop_old", "insert", "insert_s3", "get_env"}
  BY <1>3, FirstSteps
<1>5. Committers(i)' = Committers(i)
  BY <1>2, <1>3, <1>4 DEF Committers
<1>6. \A r \in Requests : id'[r] = i /\ pc'[r] \in UploadSteps \cup DeleteSteps =>
          (id[r] = i /\ pc'[r] = pc[r]) \/ pc'[r] \in {"stop_old", "list"}
  BY <1>3, <1>4 DEF UploadSteps, DeleteSteps
<1> QED BY <1>2, <1>5, <1>6, TidyStays DEF TidyInv, Clean

LEMMA TidyCreate ==
    ASSUME TidyInv, NEW q \in Requests, Create(q), NEW i \in Clean
    PROVE  Tidy(i)'
<1>0. KnownInv /\ AsksTyped /\ RowsTyped
  BY TypeParts DEF TidyInv, CompanyInv, KnownInv
<1>1. /\ pc[q] = "idle" /\ UNCHANGED <<proc, service, cont, scont, nets, traefik, garage, id>>
      /\ \E to \in {"ok", "refused"} : pc' = [pc EXCEPT ![q] = to]
      /\ (i \in alive' <=> i \in alive) \/ (i \in Ids \ used /\ i \notin alive)
  BY <1>0 DEF Create, rowVars, dockerVars, Goto, KnownInv, TypeOK
<1>2. pc'[q] \in {"ok", "refused"} /\ \A s \in Requests \ {q} : pc'[s] = pc[s]
  BY <1>0, <1>1 DEF AsksTyped
<1>3. Committers(i)' = Committers(i)
  BY <1>1, <1>2 DEF Committers
<1>4. CASE i \in alive' <=> i \in alive
  <2>1. \A r \in Requests : id'[r] = i /\ pc'[r] \in UploadSteps \cup DeleteSteps =>
            id[r] = i /\ pc'[r] = pc[r]
    BY <1>1, <1>2 DEF UploadSteps, DeleteSteps
  <2> QED BY <1>1, <1>3, <1>4, <2>1, TidyStays DEF TidyInv, Clean
<1>5. CASE i \in Ids \ used /\ i \notin alive
  <2>1. i \in All \ Known /\ i \in All \ alive
    BY <1>5, ProjectsAssumption DEF All, Known
  <2>2. cont[i] = "none" /\ scont[i] = {} /\ i \notin nets
    BY <1>0, <2>1 DEF KnownInv, Fresh
  <2>3. \A r \in Requests : id[r] # i
    <3>1. i # "none"
      BY <2>1, ProjectsAssumption DEF All
    <3> QED BY <1>0, <2>1, <3>1 DEF KnownInv, AskFits
  <2> QED BY <1>1, <2>2, <2>3 DEF Tidy, HasRows, Gone
<1> QED BY <1>1, <1>4, <1>5

LEMMA TidyWatch ==
    ASSUME TidyInv, Recreate \/ (\E j \in All : Notice(j)) \/ Crash \/ UNCHANGED vars,
           NEW i \in Clean, i \in Clean'
    PROVE  Tidy(i)'
<1>0. KnownInv /\ AsksTyped /\ RowsTyped /\ DockerTyped /\ i \in All /\ Tidy(i)
  BY TypeParts DEF TidyInv, CompanyInv, KnownInv, Clean, All
<1>1. UNCHANGED <<alive, service, scont, id, garage>>
  BY DEF Recreate, Notice, Crash, vars, rowVars, dockerVars, askVars
<1>2. CASE Recreate
  <2>1. PICK j \in Known \cap All, by \in Owners :
            /\ nets' = nets \cup {j} /\ traefik' = traefik \cup {j}
            /\ \/ /\ cont' = [cont EXCEPT ![j] = "watcher"]
                  /\ proc' = ById(j, by, [by |-> by, status |-> "running", container |-> "watcher"])
               \/ /\ UNCHANGED cont
                  /\ proc' = ById(j, by, [proc[j] EXCEPT !.status = "failed"])
            /\ mixed' = mixed \cup (IF Working(j) = {} /\ proc[j].by = by THEN {} ELSE {j})
    BY <1>0, <1>2, RecreateWrites
  <2>2. pc' = pc
    BY <1>2 DEF Recreate
  <2>3. CASE i # j
    <3>1. cont'[i] = cont[i] /\ proc'[i] = proc[i]
      BY <1>0, <2>1, <2>3 DEF ById, DockerTyped, RowsTyped
    <3>2. (i \in nets' <=> i \in nets) /\ (i \in traefik' <=> i \in traefik)
      BY <2>1, <2>3
    <3>3. Committers(i)' = Committers(i)
      BY <1>1, <2>2 DEF Committers
    <3> QED BY <1>0, <1>1, <2>2, <3>1, <3>2, <3>3, TidyStays DEF Clean
  <2>4. CASE i = j
    <3>1. Working(i) = {} /\ proc[i].by = by
      BY <2>1, <2>4 DEF Clean
    <3>2. by # "none" /\ proc[i] # NoRow /\ i \in alive
      <4>1. by # "none"
        BY ProjectsAssumption DEF Owners
      <4> QED BY <1>0, <3>1, <4>1 DEF NoRow, RowsTyped
    <3>3. proc'[i] # NoRow
      <4>1. \A row : ById(i, by, row)[i] = row
        BY <1>0, <3>1 DEF ById, RowsTyped
      <4>2. [proc[i] EXCEPT !.status = "failed"].by = by
        BY <1>0, <3>1, FailedRow DEF RowsTyped
      <4>3. proc'[i] = proc[i] \/ proc'[i].by = by
        <5>1. \/ proc'[i] = [by |-> by, status |-> "running", container |-> "watcher"]
              \/ proc'[i] = [proc[i] EXCEPT !.status = "failed"]
          BY <2>1, <2>4, <4>1
        <5>2. CASE proc'[i] = [by |-> by, status |-> "running", container |-> "watcher"]
          BY <5>2
        <5>3. CASE proc'[i] = [proc[i] EXCEPT !.status = "failed"]
          BY <4>2, <5>3
        <5> QED BY <5>1, <5>2, <5>3
      <4> QED BY <3>1, <3>2, <4>3 DEF NoRow
    <3>4. \A r \in Requests : id[r] = i => pc[r] \in Ended
      BY <3>1 DEF Working, InFlight
    <3>5. \A r \in Requests : id'[r] = i => CleanAt(r)'
      BY <1>1, <2>2, <3>4 DEF CleanAt, Ended
    <3>6. HasRows(i)'
      <4>1. HasRows(i) /\ Committers(i)' = Committers(i)
        BY <1>0, <1>1, <2>2, <3>2 DEF Tidy, Committers
      <4> QED BY <1>1, <3>3, <4>1 DEF HasRows
    <3> QED BY <1>1, <3>2, <3>5, <3>6 DEF Tidy
  <2> QED BY <2>3, <2>4
<1>3. CASE (\E j \in All : Notice(j)) \/ UNCHANGED vars
  <2>1. UNCHANGED <<proc, cont, nets, traefik, pc>>
    BY <1>3 DEF Notice, vars, rowVars, dockerVars
  <2>2. Committers(i)' = Committers(i)
    BY <1>1, <2>1 DEF Committers
  <2> QED BY <1>0, <1>1, <2>1, <2>2, TidyStays DEF Clean
<1>4. CASE Crash
  <2>1. /\ UNCHANGED <<proc, cont, nets, traefik>>
        /\ pc' = [r \in Requests |-> IF InFlight(r) THEN "lost" ELSE pc[r]]
        /\ \A r \in Requests : InFlight(r) /\ pc[r] = "commit" => id[r] \in leaked'
    BY <1>4 DEF Crash, rowVars, dockerVars
  <2>2. Committers(i) = {} /\ Committers(i)' = {}
    BY <2>1 DEF Committers, InFlight, Ended, Clean
  <2>3. \A r \in Requests : id'[r] = i /\ pc'[r] \in UploadSteps \cup DeleteSteps =>
            id[r] = i /\ pc'[r] = pc[r]
    BY <1>1, <2>1 DEF UploadSteps, DeleteSteps
  <2> QED BY <1>0, <1>1, <2>1, <2>2, <2>3, TidyStays DEF Clean
<1> QED BY <1>2, <1>3, <1>4

LEMMA TidyInit == Init => TidyInv
<1> SUFFICES ASSUME Init PROVE TidyInv
  OBVIOUS
<1>1. CompanyInv
  BY CompanyInit
<1>2. /\ scont = [i \in All |-> {}] /\ pc = [r \in Requests |-> "idle"]
      /\ \A i \in All : (proc[i] = NoRow => cont[i] = "none")
      /\ \A i \in All \ alive : cont[i] = "none" /\ i \notin nets
  <2>1. Base # "none"
    BY ProjectsAssumption
  <2> QED BY <2>1 DEF Init, NoRow
<1>3. ASSUME NEW i \in Clean PROVE Tidy(i)
  BY <1>2, <1>3 DEF Tidy, HasRows, Gone, CleanAt, Clean, All
<1> QED BY <1>1, <1>3 DEF TidyInv

LEMMA TidyNext == TidyInv /\ [Next]_vars => TidyInv'
<1> SUFFICES ASSUME TidyInv, [Next]_vars, NEW i \in Clean' PROVE Tidy(i)'
  BY CompanyNext DEF TidyInv
<1>1. i \in Clean
  <2>1. mixed \subseteq mixed' /\ leaked \subseteq leaked'
    <3>1. ASSUME NEW r \in Requests, Work(r) PROVE mixed \subseteq mixed' /\ leaked \subseteq leaked'
      BY <3>1, WorkMoves DEF Onward, Judged
    <3>2. ASSUME NEW r \in Requests, BeginAny(r) PROVE mixed \subseteq mixed' /\ leaked \subseteq leaked'
      BY <3>2 DEF BeginAny, BeginDelete, BeginUpload, BeginService, BeginS3, BeginEnv, Begin, Judge
    <3>3. ASSUME NEW r \in Requests, Create(r) PROVE mixed \subseteq mixed' /\ leaked \subseteq leaked'
      BY <3>3 DEF Create
    <3>4. Recreate \/ (\E j \in All : Notice(j)) \/ Crash \/ UNCHANGED vars =>
              mixed \subseteq mixed' /\ leaked \subseteq leaked'
      BY DEF Recreate, Notice, Crash, vars, judgeVars
    <3> QED BY <3>1, <3>2, <3>3, <3>4, StepKinds DEF Next
  <2> QED BY <2>1 DEF Clean
<1>2. CASE \E r \in Requests : Work(r)
  BY <1>1, <1>2, TidyElsewhere, TidyDeletion, TidyUpload, TidyService, TidyRest DEF Work
<1>3. CASE \E r \in Requests : BeginAny(r) \/ Create(r)
  BY <1>1, <1>3, TidyBegin, TidyCreate
<1>4. CASE Recreate \/ (\E j \in All : Notice(j)) \/ Crash \/ UNCHANGED vars
  BY <1>1, <1>4, TidyWatch
<1> QED BY <1>2, <1>3, <1>4, StepKinds DEF Next

\* A project that is gone has left no container, and no network that Garage is not on,
\* unless its deletion met another request or the watcher, or something was left that no
\* row tells of.
THEOREM DeletionsTidy == Spec => []GoneLeavesNothing
<1>1. TidyInv => GoneLeavesNothing
  <2> SUFFICES ASSUME TidyInv, NEW i \in All \ (alive \cup mixed \cup leaked)
               PROVE  Gone(i)
    BY DEF GoneLeavesNothing, Gone
  <2>1. i \in Clean
    BY DEF TidyInv, CompanyInv, KnownInv, TypeOK, Clean, All
  <2> QED BY <2>1 DEF TidyInv, Tidy
<1> QED BY <1>1, TidyInit, TidyNext, PTL DEF Spec

=============================================================================
