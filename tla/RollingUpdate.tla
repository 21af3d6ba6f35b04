--------------------------- MODULE RollingUpdate ---------------------------
(***************************************************************************)
(* The rolling update of one web process (Scheduler::rolling_update_process*)
(* and the part of the update handler and of its background task around    *)
(* it).  An update builds a new image, proves it healthy in a canary       *)
(* container, moves the production container aside, starts the new version *)
(* under the production name, proves it healthy there, registers it, and   *)
(* only then stops the previous one.  Every call may fail, the containers  *)
(* may exit, and the API server may die between any two calls.             *)
(***************************************************************************)
EXTENDS ProcessState

CONSTANT Concurrent     \* may a second update of the process start meanwhile?

ASSUME RollingAssumption == Concurrent \in BOOLEAN

VARIABLES
    pc,         \* pc[t]: what update t does next
    attempts,   \* attempts[t]: registry writes already tried (1..3)
    outcome,    \* outcome[t]: what the update is going to report
    passed,     \* observer: updates whose production container was healthy
    expectUp    \* observer: known up, and no routed container exited since

updateVars == <<pc, attempts, outcome>>
vars == <<sharedVars, updateVars, passed, expectUp>>

MaxAttempts == 3

Finished == {"idle", "done", "lost"}
Steps == {"build", "create_canary", "start_canary", "probe_canary",
          "move_old", "create_new", "start_new", "probe_new", "register",
          "stop_old", "remove_old", "remove_new", "restore_old",
          "stop_canary", "remove_canary", "report"}
Outcomes == {"none", "ok", "rolled_back", "failed", "unregistered"}

InFlight(t) == pc[t] \notin Finished

TypeOK ==
    /\ cont \in [Names -> Container]
    /\ row \in RowType
    /\ tag \in Versions
    /\ faults \in 0..MaxFaults
    /\ blamed \subseteq Names \cup {Registry}
    /\ pc \in [Updates -> Steps \cup Finished]
    /\ attempts \in [Updates -> 1..MaxAttempts]
    /\ outcome \in [Updates -> Outcomes]
    /\ passed \subseteq Updates
    /\ expectUp \in BOOLEAN

-----------------------------------------------------------------------------

\* An update finds the process running, crashed and not yet noticed, stopped by
\* its user (the container is removed), or failed: never created, or created but
\* not started.  Each with what the row says of its container.
InitialStates ==
    {<<"running", "running", Base>>, <<"exited", "running", Base>>,
     <<"exited", "crashed", Base>>, <<"none", "stopped", Base>>,
     <<"none", "failed", "unset">>, <<"created", "failed", "unset">>}

Init ==
    /\ \E s \in InitialStates :
         /\ cont = [n \in Names |-> IF n = Prod THEN [NoContainer EXCEPT !.st = s[1]]
                                ELSE NoContainer]
         /\ row = [status |-> s[2], container |-> s[3]]
         /\ expectUp = (s[1] = "running")
    /\ tag = Base
    /\ faults = 0
    /\ blamed = {}
    /\ pc = [t \in Updates |-> "idle"]
    /\ attempts = [t \in Updates |-> 1]
    /\ outcome = [t \in Updates |-> "none"]
    /\ passed = {}

-----------------------------------------------------------------------------
(* Steps of an update                                                       *)

Goto(t, to) == pc' = [pc EXCEPT ![t] = to]

Decide(t, o) == outcome' = [outcome EXCEPT ![t] = o]

\* On success the update goes on; otherwise its outcome is o and it goes elsewhere.
Branch(t, ok, onward, elsewhere, o) ==
    /\ Goto(t, IF ok THEN onward ELSE elsewhere)
    /\ IF ok THEN UNCHANGED outcome ELSE Decide(t, o)

DockerStep == UNCHANGED <<row, tag, attempts, passed, expectUp>>
RowStep    == UNCHANGED <<cont, tag, passed, expectUp>>

\* The handler finds the row and marks it "building", or gives up; it attaches
\* the manifest's resources and spawns the task, or marks the row "failed".
Begin(t) ==
    /\ pc[t] = "idle"
    /\ row.status # "gone"
    /\ Concurrent \/ \A u \in Updates : ~InFlight(u)
    /\ \/ /\ UpdateStatus("building", TRUE)
          /\ \E attached \in BOOLEAN : Branch(t, attached, "build", "report", "failed")
       \/ /\ UpdateStatus("building", FALSE)
          /\ Goto(t, "done") /\ UNCHANGED outcome
    /\ RowStep /\ UNCHANGED attempts

\* Env vars, pack build, pull, port: any of them may fail; a successful build
\* moves the tag even when a later one fails.
Build(t) ==
    /\ pc[t] = "build"
    /\ \E built, ok \in BOOLEAN :
         /\ ok => built
         /\ tag' = IF built THEN t ELSE tag
         /\ Branch(t, ok, "create_canary", "report", "failed")
    /\ UNCHANGED <<cont, row, faults, blamed, attempts, passed, expectUp>>

\* A failure here returns at once: nothing is cleaned up.
CreateCanary(t) ==
    /\ pc[t] = "create_canary"
    /\ \E ok \in BOOLEAN :
         /\ DockerCreate(Canary(t), t, ok)
         /\ Branch(t, ok, "start_canary", "report", "failed")
    /\ DockerStep

StartCanary(t) ==
    /\ pc[t] = "start_canary"
    /\ \E ok \in BOOLEAN :
         /\ DockerStart(Canary(t), ok)
         /\ Branch(t, ok, "probe_canary", "report", "failed")
    /\ DockerStep

\* Mutant of ProbeCanary: an unhealthy canary is left where it is.
ProbeCanaryLeaking(t) ==
    /\ pc[t] = "probe_canary"
    /\ \E healthy \in BOOLEAN :
         /\ healthy => cont[Canary(t)].st = "running"
         /\ Branch(t, healthy, "move_old", "report", "rolled_back")
    /\ DockerStep /\ UNCHANGED <<cont, faults, blamed>>

\* Only a running container can answer /health; a running one may not.
ProbeCanary(t) ==
    /\ pc[t] = "probe_canary"
    /\ \E healthy \in BOOLEAN :
         /\ healthy => cont[Canary(t)].st = "running"
         /\ Branch(t, healthy, "move_old", "stop_canary", "rolled_back")
    /\ DockerStep /\ UNCHANGED <<cont, faults, blamed>>

\* A free port, without which nothing is renamed, then the rename of the
\* production container.
MoveOld(t) ==
    /\ pc[t] = "move_old"
    /\ \/ \E ok \in BOOLEAN :
            /\ DockerRename(Prod, Old(t), ok)
            /\ Branch(t, ok, "create_new", "stop_canary", "failed")
       \/ /\ Goto(t, "stop_canary") /\ Decide(t, "failed")
          /\ UNCHANGED <<cont, faults, blamed>>
    /\ DockerStep

CreateNew(t) ==
    /\ pc[t] = "create_new"
    /\ \E ok \in BOOLEAN :
         /\ DockerCreate(Prod, t, ok)
         /\ Branch(t, ok, "start_new", "remove_new", "failed")
    /\ DockerStep

\* Mutant of StartNew: the canary's health stands for the production container's.
StartNewUnprobed(t) ==
    /\ pc[t] = "start_new"
    /\ \E ok \in BOOLEAN :
         /\ DockerStart(Prod, ok)
         /\ Branch(t, ok, "register", "remove_new", "failed")
    /\ DockerStep

StartNew(t) ==
    /\ pc[t] = "start_new"
    /\ \E ok \in BOOLEAN :
         /\ DockerStart(Prod, ok)
         /\ Branch(t, ok, "probe_new", "remove_new", "failed")
    /\ DockerStep

\* The probe goes to the new container's host port, whatever its name is now.
IsOwn(t, n) == cont[n].by = t /\ cont[n].st = "running"

\* Mutant of ProbeNew: a probe that times out is taken for a slow start.
ProbeNewLenient(t) ==
    /\ pc[t] = "probe_new"
    /\ Goto(t, "register")
    /\ \E healthy \in BOOLEAN :
         /\ healthy => \E n \in Routed : IsOwn(t, n)
         /\ passed' = IF healthy THEN passed \cup {t} ELSE passed
    /\ UNCHANGED <<sharedVars, attempts, outcome, expectUp>>

ProbeNew(t) ==
    /\ pc[t] = "probe_new"
    /\ \E healthy \in BOOLEAN :
         /\ healthy => \E n \in Routed : IsOwn(t, n)
         /\ passed' = IF healthy THEN passed \cup {t} ELSE passed
         /\ Branch(t, healthy, "register", "remove_new", "rolled_back")
    /\ UNCHANGED <<sharedVars, attempts, expectUp>>

\* Mutant of Registered: only the status is written, not the container.
RegisteredStatusOnly(t) ==
    /\ UpdateStatus("running", TRUE)
    /\ Goto(t, "stop_old") /\ Decide(t, "ok")
    /\ expectUp' = (expectUp \/ IsOwn(t, Prod))
    /\ UNCHANGED attempts

Registered(t) ==
    /\ UpdateRunning(t, TRUE)
    /\ Goto(t, "stop_old") /\ Decide(t, "ok")
    /\ expectUp' = (expectUp \/ IsOwn(t, Prod))
    /\ UNCHANGED attempts

\* Mutant of NotRegistered: one attempt too many.
NotRegisteredMiscounted(t) ==
    /\ UpdateRunning(t, FALSE)
    /\ Branch(t, attempts[t] <= MaxAttempts, "register", "remove_new", "unregistered")
    /\ attempts' = [attempts EXCEPT ![t] = @ + 1]
    /\ UNCHANGED expectUp

NotRegistered(t) ==
    /\ UpdateRunning(t, FALSE)
    /\ Branch(t, attempts[t] < MaxAttempts, "register", "remove_new", "unregistered")
    /\ attempts' = [attempts EXCEPT ![t] = IF @ < MaxAttempts THEN @ + 1 ELSE @]
    /\ UNCHANGED expectUp

Register(t) ==
    /\ pc[t] = "register"
    /\ Registered(t) \/ NotRegistered(t)
    /\ UNCHANGED <<cont, tag, passed>>

\* The calls below are cleanup: what they answer is ignored.
CleanupStep(t, to) == Goto(t, to) /\ DockerStep /\ UNCHANGED outcome

StopOld(t) ==
    /\ pc[t] = "stop_old"
    /\ \E ok \in BOOLEAN : DockerStop(Old(t), ok)
    /\ CleanupStep(t, "remove_old")

RemoveOld(t) ==
    /\ pc[t] = "remove_old"
    /\ \E ok \in BOOLEAN : DockerRemove(Old(t), ok)
    /\ CleanupStep(t, "stop_canary")

StopCanary(t) ==
    /\ pc[t] = "stop_canary"
    /\ \E ok \in BOOLEAN : DockerStop(Canary(t), ok)
    /\ CleanupStep(t, "remove_canary")

RemoveCanary(t) ==
    /\ pc[t] = "remove_canary"
    /\ \E ok \in BOOLEAN : DockerRemove(Canary(t), ok)
    /\ CleanupStep(t, "report")

\* Mutant of RemoveNew: the rollback removes the container moved aside.
RemoveNewMistaken(t) ==
    /\ pc[t] = "remove_new"
    /\ \E ok \in BOOLEAN : DockerForceRemove(Old(t), ok)
    /\ CleanupStep(t, "restore_old")

RemoveNew(t) ==
    /\ pc[t] = "remove_new"
    /\ \E ok \in BOOLEAN : DockerForceRemove(Prod, ok)
    /\ CleanupStep(t, "restore_old")

\* Only the rollback after the registry failed looks at the answer.
RestoreOld(t) ==
    /\ pc[t] = "restore_old"
    /\ \E ok \in BOOLEAN :
         /\ DockerRename(Old(t), Prod, ok)
         /\ IF outcome[t] = "unregistered"
              THEN Decide(t, IF ok THEN "rolled_back" ELSE "failed")
              ELSE UNCHANGED outcome
    /\ Goto(t, "stop_canary")
    /\ DockerStep

\* Mutant of Report: a rollback writes no status.
ReportErrorsOnly(t) ==
    /\ pc[t] = "report"
    /\ Goto(t, "done")
    /\ \/ /\ outcome[t] \in {"ok", "rolled_back"}
          /\ UNCHANGED <<row, faults, blamed>>
       \/ /\ outcome[t] = "failed"
          /\ \E ok \in BOOLEAN : UpdateStatus("failed", ok)
    /\ RowStep /\ UNCHANGED <<attempts, outcome>>

\* A rollback declares the process running; the task marks it failed on any
\* other error; a success was registered already.
Report(t) ==
    /\ pc[t] = "report"
    /\ Goto(t, "done")
    /\ \/ /\ outcome[t] = "ok"
          /\ UNCHANGED <<row, faults, blamed>>
       \/ /\ outcome[t] = "rolled_back"
          /\ \E ok \in BOOLEAN : UpdateStatus("running", ok)
       \/ /\ outcome[t] = "failed"
          /\ \E ok \in BOOLEAN : UpdateStatus("failed", ok)
    /\ RowStep /\ UNCHANGED <<attempts, outcome>>

TaskStep(t) ==
    \/ Build(t) \/ CreateCanary(t) \/ StartCanary(t) \/ ProbeCanary(t)
    \/ MoveOld(t) \/ CreateNew(t) \/ StartNew(t) \/ ProbeNew(t) \/ Register(t)
    \/ StopOld(t) \/ RemoveOld(t) \/ RemoveNew(t) \/ RestoreOld(t)
    \/ StopCanary(t) \/ RemoveCanary(t) \/ Report(t)

-----------------------------------------------------------------------------
(* Environment                                                              *)

ContainerExits(n) ==
    /\ cont[n].st = "running"
    /\ cont' = [cont EXCEPT ![n].st = "exited"]
    /\ expectUp' = (expectUp /\ n \notin Routed)
    /\ UNCHANGED <<row, tag, faults, blamed, updateVars, passed>>

\* The tasks live in the API server's memory, and nothing resumes them.
ServerCrash ==
    /\ \E t \in Updates : InFlight(t)
    /\ pc' = [t \in Updates |-> IF InFlight(t) THEN "lost" ELSE pc[t]]
    /\ UNCHANGED <<sharedVars, attempts, outcome, passed, expectUp>>

Next ==
    \/ \E t \in Updates : Begin(t) \/ TaskStep(t)
    \/ \E n \in Names : ContainerExits(n)
    \/ ServerCrash

Spec == Init /\ [][Next]_vars

-----------------------------------------------------------------------------
(* Properties                                                               *)

Live(n) == cont[n].st = "running" /\ cont[n].by \in passed \cup {Base}
Serving == \E n \in Routed : Live(n)

\* The point of a rolling update: as long as no routed container exits by
\* itself, some container that answered its health probe (or ran before) is
\* running at every moment of every update, whichever calls fail and wherever
\* the API server dies (rolling.rs: the old container is renamed, not
\* stopped, until the new one is healthy and registered).
ServiceKept == expectUp => Serving

\* Why it is kept, when the updates of a process run one after the other:
\* nobody else works on the containers, ...
OneInFlight == \A t, u \in Updates : InFlight(t) /\ InFlight(u) => t = u

\* ... an update's own container is under the production name and no other,
OwnIsProd ==
    \A t \in Updates :
        /\ pc[t] \notin {"done", "lost"} => \A u \in Updates : cont[Old(u)].by # t
        /\ pc[t] \in {"idle", "build", "create_canary", "start_canary",
                      "probe_canary", "move_old", "create_new"}
           => cont[Prod].by # t

\* ... while that container can still be removed another one serves,
Replacing == {"create_new", "start_new", "probe_new", "register", "remove_new"}
SpareServes ==
    \A t \in Updates : pc[t] \in Replacing /\ expectUp
        => \E n \in Routed \ {Prod} : Live(n)

\* ... and the old one is stopped only when the new one serves.
NewServes ==
    \A t \in Updates :
        /\ pc[t] = "register" => t \in passed
        /\ pc[t] \in {"register", "stop_old", "remove_old"} /\ expectUp => Live(Prod)

ServiceInv ==
    ServiceKept /\ OneInFlight /\ OwnIsProd /\ SpareServes /\ NewServes

\* A canary or a moved-aside container that survives its update is one on
\* which a call failed, or whose restoring rename did (the ignored results of
\* the cleanup calls in rolling.rs).
NoLeftovers ==
    \A t \in Updates : pc[t] = "done" =>
        /\ cont[Canary(t)].st # "none" => Canary(t) \in blamed
        /\ cont[Old(t)].st # "none" => {Prod, Old(t)} \cap blamed # {}

\* Between updates the row describes the container under the production name,
\* whatever the updates reported, unless a container exited, the server died, or
\* a call on the production name, a moved-aside one or the registry failed
\* (rolling.rs: a rollback leaves the old row, a success writes the new one).
RowDescribesProd ==
    (/\ expectUp
     /\ \A t \in Updates : pc[t] \in {"idle", "done"} /\ Old(t) \notin blamed
     /\ {Prod, Registry} \cap blamed = {})
    => /\ cont[Prod].st = "running"
       /\ cont[Prod].by = row.container

\* A version is registered only after its production container answered its
\* health probe, never on the strength of the canary's, and the registered
\* container runs the image that its update built: the image tag is mutable, and
\* every build of the process moves it (apps.rs: "{app}-{process}").
RegisteredPassed ==
    /\ row.container \in passed \cup {Base, "unset"}
    /\ \A n \in Routed :
         cont[n].st # "none" /\ cont[n].by = row.container
         => cont[n].img = row.container

\* Every update leaves "building" behind, unless a registry call failed or the
\* server died: the watcher and the CLI both ignore a row that stays there.
BuildingEnds ==
    (row.status = "building")
    ~> \/ row.status # "building"
       \/ Registry \in blamed
       \/ \E t \in Updates : pc[t] = "lost"

\* What both RolledBack messages say, when they are sent, of a process that was
\* serving and whose containers never exited by themselves: "old process
\* container left running" (rolling.rs).
RolledBackLeavesOldRunning ==
    \A t \in Updates :
        (pc[t] = "report" /\ outcome[t] = "rolled_back" /\ blamed = {} /\ expectUp)
        => Serving

-----------------------------------------------------------------------------
(* The abstract specification that the update implements                    *)

\* A version serves while a container of it that proved healthy gets traffic.
ServingVersions == {v \in Versions : \E n \in Routed : Live(n) /\ cont[n].by = v}

\* An update whose first write failed is refused.
Phase(t) == CASE pc[t] = "idle" -> "idle"
              [] pc[t] = "lost" -> "lost"
              [] pc[t] = "done" -> IF outcome[t] = "none" THEN "failed" ELSE outcome[t]
              [] OTHER -> "busy"
Phases == [t \in Updates |-> Phase(t)]
Doubtful == Registry \in blamed

H == INSTANCE Handover WITH
        Unset <- "unset", serving <- ServingVersions, proven <- passed,
        current <- row.container, expected <- expectUp,
        doubt <- Doubtful, phase <- Phases

\* Every step of an update, with all that can fail in it, hands the service over
\* as Handover says: what serves is never retired before something else that is
\* healthy serves, the registered version serves at every moment, and what an
\* update reports of the registry is true (scheduler/rolling.rs as a whole).
HandsOver == H!Spec

\* As long as no routed container exits by itself and no write to the registry
\* fails, the version that the row names gets traffic, at every moment of every
\* update and wherever the API server dies, although the row is written by one
\* call and the containers are replaced by ten others (rolling.rs).
RegisteredServes == expectUp /\ ~Doubtful => row.container \in ServingVersions

\* Why it does.  From its creation until the old one is gone, the container under
\* the production name is the update's own,
OwnsProd == {"start_new", "probe_new", "register", "stop_old", "remove_old"}
ProdIsOwn == \A t \in Updates : pc[t] \in OwnsProd => cont[Prod].by = t

\* ... while it can still be removed the registered version serves elsewhere,
SpareIsRegistered ==
    \A t \in Updates : pc[t] \in Replacing /\ expectUp /\ ~Doubtful
        => \E n \in Routed \ {Prod} : Live(n) /\ cont[n].by = row.container

\* ... an update's version is proven when it is registered, and not before,
BeforeProof == {"idle", "build", "create_canary", "start_canary", "probe_canary",
                "move_old", "create_new", "start_new", "probe_new"}
ProvenInTime == \A t \in Updates : pc[t] \in BeforeProof => t \notin passed

\* ... what an update is going to report fits the step it is at,
Undone == {"failed", "rolled_back", "unregistered"}
Fits(step, report) ==
    /\ step \in BeforeProof \cup {"register"} => report = "none"
    /\ step \in {"remove_new", "restore_old"} => report \in Undone
    /\ step \in {"stop_old", "remove_old"} => report = "ok"
    /\ step \in {"stop_canary", "remove_canary", "report"} => report \in H!Verdicts
OutcomeFits == \A t \in Updates : Fits(pc[t], outcome[t])

\* ... and it fits the row, which nobody deletes.
RowFits ==
    /\ row.status # "gone"
    /\ \A t \in Updates :
         /\ outcome[t] = "ok" /\ InFlight(t) => row.container = t
         /\ row.container = t => outcome[t] = "ok" \/ Doubtful

HandoverInv ==
    /\ RegisteredServes /\ ProdIsOwn /\ SpareIsRegistered
    /\ ProvenInTime /\ OutcomeFits /\ RowFits

=============================================================================
