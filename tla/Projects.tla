----------------------------- MODULE Projects -----------------------------
(***************************************************************************)
(* Projects: their creation and deletion (handlers/projects.rs,            *)
(* registry/projects.rs), while uploads, new resources and the watcher     *)
(* work inside them.  A project is a row, to which applications and        *)
(* services refer (ON DELETE CASCADE), and a Docker network that whoever   *)
(* starts a container makes when it is missing.  A request reads the       *)
(* project at its beginning (ProjectScope) and works with its id from then *)
(* on; a deletion ends by name.  There is the default project, and one     *)
(* more name, which a new project can take when the old one is gone.  Each *)
(* project has at most one application, of one process, and one service.   *)
(* A project also has environment variables, which `project env set' of    *)
(* the CLI reads and writes back as a whole (cli/src/commands/projects.rs),*)
(* and which a container is given when it starts (registry/env.rs); each   *)
(* is called here after the request that sets it.                          *)
(***************************************************************************)
EXTENDS Naturals

CONSTANTS
    Requests,       \* the requests
    Base,           \* what was there before any of them
    Ids,            \* the ids that projects can get, besides
    Default,        \* ... the one of the default project
    MaxFaults       \* bound on failed calls and crashes

ASSUME ProjectsAssumption ==
    /\ Default \notin Ids /\ "none" \notin Ids \cup {Default}
    /\ Base \notin Requests
    /\ {"none", "watcher"} \cap (Requests \cup {Base}) = {}
    /\ MaxFaults \in Nat

All == Ids \cup {Default}

VARIABLES
    alive,      \* the ids of the rows of projects
    used,       \* the ids given out so far
    apps,       \* the projects with an application row
    proc,       \* proc[i]: the row of the application's process
    cont,       \* cont[i]: who made the container with that process's name
    service,    \* service[i]: who made the row of the project's service
    scont,      \* scont[i]: who made the service containers that there are for i
    nets,       \* the projects whose network exists
    traefik,    \* the networks that Traefik is connected to
    garage,     \* the networks that Garage is connected to
    shared,     \* shared[i]: the project's environment variables
    given,      \* given[i]: those that the container was started with
    read,       \* read[r]: the variables that request r has read
    replaced,   \* replaced[r]: those that its open transaction has deleted
    kind,       \* kind[r]: what request r asks for
    named,      \* named[r]: does it name the default project, or the other?
    id,         \* id[r]: the id that it has read
    pc,         \* pc[r]: what it does next
    seen,       \* the row of a missing process that the watcher works on, and its project
    faults,     \* number of faults so far
    mixed,      \* projects on which a deletion met another request or the watcher
    hurt,       \* projects that a fault, or two of a kind at once, may have left half done
    leaked,     \* ... that they may have left something in that no row tells of
    contended,  \* projects whose variables two requests set at once
    before,     \* before[r]: the variables that were set when an upload began
    disturbed   \* requests that a fault, or another request, may have stopped

rowVars    == <<alive, used, apps, proc, service>>
dockerVars == <<cont, scont, nets, traefik, garage>>
askVars    == <<kind, named>>
envVars    == <<shared, given, read, replaced>>
judgeVars  == <<mixed, hurt, leaked, contended, before, disturbed>>
vars == <<rowVars, dockerVars, envVars, askVars, id, pc, seen, faults, judgeVars>>

Makers == Requests \cup {Base, "watcher", "none"}
NoRow  == [by |-> "none", status |-> "none", container |-> "none"]
NotSeen == [project |-> "none", by |-> "none"]

UploadSteps == {"stop_old", "delete_rows", "save", "create_row", "read_env",
                "ensure_network", "start", "register"}
DeleteSteps == {"list", "stop_app", "services", "stop_service", "disconnect",
                "remove_network", "delete_row"}
ServiceSteps == {"insert", "service_network", "start_service", "commit"}
S3Steps      == {"insert_s3", "connect_garage"}
EnvSteps     == {"get_env", "put_env", "commit_env"}
Ended        == {"idle", "ok", "failed", "refused", "lost"}

InFlight(r) == pc[r] \notin Ended

\* The other project of now, if there is one.
Others == alive \ {Default}

TypeOK ==
    /\ Default \in alive /\ alive \subseteq used \cup {Default} /\ used \subseteq Ids
    /\ \A i, j \in Others : i = j
    /\ apps \subseteq alive
    /\ \A i \in All : proc[i] # NoRow => i \in apps
    /\ proc \in [All -> [by : Makers, status : {"none", "building", "running", "failed"},
                         container : Makers]]
    /\ cont \in [All -> Makers]
    /\ service \in [All -> Makers] /\ \A i \in All \ alive : service[i] = "none"
    /\ scont \in [All -> SUBSET Makers]
    /\ traefik \cup garage \subseteq nets /\ nets \subseteq All
    /\ shared \in [All -> SUBSET Requests] /\ \A i \in All \ alive : shared[i] = {}
    /\ given \in [All -> SUBSET Requests]
    /\ read \in [Requests -> SUBSET Requests] /\ replaced \in [Requests -> SUBSET Requests]
    /\ kind \in [Requests -> {"none", "create", "delete", "upload", "service", "s3", "env"}]
    /\ named \in [Requests -> {"default", "other"}]
    /\ id \in [Requests -> All \cup {"none"}]
    /\ pc \in [Requests -> UploadSteps \cup DeleteSteps \cup ServiceSteps \cup S3Steps
                                \cup EnvSteps \cup Ended]
    /\ faults \in 0..MaxFaults

-----------------------------------------------------------------------------

\* At first the default project is there, and perhaps the other one, either with or
\* without its application, which runs.
Init ==
    \E first \in {{}} \cup {{i} : i \in Ids} : \E deployed \in SUBSET ({Default} \cup first) :
        /\ alive = {Default} \cup first
        /\ used = first
        /\ apps = deployed
        /\ proc = [i \in All |-> IF i \in deployed
                     THEN [by |-> Base, status |-> "running", container |-> Base] ELSE NoRow]
        /\ cont = [i \in All |-> IF i \in deployed THEN Base ELSE "none"]
        /\ service = [i \in All |-> "none"]
        /\ scont = [i \in All |-> {}]
        /\ nets = deployed
        /\ traefik = deployed
        /\ garage = {}
        /\ shared = [i \in All |-> {}] /\ given = [i \in All |-> {}]
        /\ read = [r \in Requests |-> {}] /\ replaced = [r \in Requests |-> {}]
        /\ kind = [r \in Requests |-> "none"]
        /\ named = [r \in Requests |-> "default"]
        /\ id = [r \in Requests |-> "none"]
        /\ pc = [r \in Requests |-> "idle"]
        /\ seen = NotSeen
        /\ faults = 0
        /\ mixed = {} /\ hurt = {} /\ leaked = {}
        /\ contended = {} /\ before = [r \in Requests |-> {}] /\ disturbed = {}

-----------------------------------------------------------------------------
(* What the steps are made of                                               *)

Turn(r, here) == pc[r] = here /\ UNCHANGED <<askVars, id, seen, mixed, contended, before>>
At(r, here)   == Turn(r, here) /\ UNCHANGED envVars
Goto(r, to)   == pc' = [pc EXCEPT ![r] = to]

NoFault == UNCHANGED <<faults, hurt, leaked, disturbed>>

\* A call fails: r may end without success, and project id[r] be half done.
Fault(r, leaks) ==
    /\ faults < MaxFaults /\ faults' = faults + 1
    /\ hurt' = hurt \cup {id[r]}
    /\ leaked' = leaked \cup (IF leaks THEN {id[r]} ELSE {})
    /\ disturbed' = disturbed \cup {r}

\* What has been done remains done, and the request ends.
FailsAt(r) == Fault(r, FALSE) /\ Goto(r, "failed") /\ UNCHANGED <<rowVars, dockerVars>>

OnlyRows   == UNCHANGED dockerVars
OnlyDocker == UNCHANGED rowVars

\* ensure_network, and, as on localhost, ensure_traefik_on_network for what Traefik serves.
EnsureNetwork(i)   == nets' = nets \cup {i}
EnsureTraefik(i)   == traefik' = traefik \cup {i}

\* A transaction that has inserted a service holds a lock on the row of its project.
Locked(i) == \E r \in Requests : pc[r] \in {"service_network", "start_service", "commit"}
                                   /\ id[r] = i

-----------------------------------------------------------------------------
(* A request begins: ProjectScope, or the handler itself, reads the project *)

First == [create |-> "idle", delete |-> "list", upload |-> "stop_old",
          service |-> "insert", s3 |-> "insert_s3", env |-> "get_env"]

\* What the request meets on the project that it names: a deletion and anything else, or
\* two of a kind.
Judge(r, k, which, found) ==
    LET met == {s \in Requests : InFlight(s) /\ named[s] = which}
        deletions == {s \in met : k = "delete" \/ kind[s] = "delete"}
        twins == {s \in met : kind[s] = k}
        clash(S) == IF S = {} THEN {} ELSE found
        twice == IF k = "env" THEN {} ELSE clash(twins)
    IN
    /\ mixed' = mixed \cup clash(deletions) \cup {id[s] : s \in deletions}
    /\ hurt' = hurt \cup twice
    /\ leaked' = leaked \cup twice
    /\ contended' = contended \cup (IF k = "env" THEN clash(twins) ELSE {})
    /\ disturbed' = disturbed \cup deletions \cup twins
         \cup (IF deletions \cup twins # {} \/ found \cap (mixed \cup hurt \cup leaked) # {}
                 THEN {r} ELSE {})

Begin(r, k, which) ==
    LET found == IF which = "default" THEN {Default} ELSE Others IN
    /\ pc[r] = "idle"
    /\ kind' = [kind EXCEPT ![r] = k]
    /\ named' = [named EXCEPT ![r] = which]
    /\ Judge(r, k, which, found)
    /\ IF found = {}
         THEN Goto(r, "refused") /\ UNCHANGED id
         ELSE Goto(r, First[k]) /\ id' = [id EXCEPT ![r] = CHOOSE i \in found : TRUE]
    /\ before' = IF k = "upload" THEN [before EXCEPT ![r] = UNION {shared[i] : i \in found}]
                                 ELSE before
    /\ UNCHANGED <<rowVars, dockerVars, envVars, seen, faults>>

\* The default project cannot be deleted.
BeginDelete(r)  == Begin(r, "delete", "other")
BeginUpload(r)  == \E which \in {"default", "other"} : Begin(r, "upload", which)
BeginService(r) == Begin(r, "service", "other")
BeginS3(r)      == Begin(r, "s3", "other") /\ Others \subseteq apps
BeginEnv(r)     == Begin(r, "env", "other")

\* create_project: the name is free or the answer is 409.
Create(r) ==
    /\ pc[r] = "idle"
    /\ kind' = [kind EXCEPT ![r] = "create"]
    /\ named' = [named EXCEPT ![r] = "other"]
    /\ IF Others # {}
         THEN Goto(r, "refused") /\ UNCHANGED <<rowVars, mixed>>
         ELSE \E i \in Ids \ used :
                /\ Goto(r, "ok")
                /\ alive' = alive \cup {i}
                /\ used' = used \cup {i}
                /\ mixed' = mixed \cup (IF \E s \in Requests : /\ InFlight(s)
                                                               /\ kind[s] \in {"delete", "env"}
                                          THEN {i} ELSE {})
                /\ UNCHANGED <<apps, proc, service>>
    /\ UNCHANGED <<dockerVars, envVars, id, seen, faults, hurt, leaked, contended, before,
                   disturbed>>

-----------------------------------------------------------------------------
(* The deletion of a project                                                *)

\* list_in_project and list_processes
List(r) ==
    /\ At(r, "list")
    /\ \/ /\ Goto(r, IF proc[id[r]] # NoRow THEN "stop_app" ELSE "services")
          /\ NoFault /\ UNCHANGED <<rowVars, dockerVars>>
       \/ FailsAt(r)

\* Scheduler::stop and stop_service: an error is printed or ignored.
StopApp(r) ==
    /\ At(r, "stop_app")
    /\ Goto(r, "services")
    /\ \/ cont' = [cont EXCEPT ![id[r]] = "none"] /\ NoFault
       \/ Fault(r, TRUE) /\ UNCHANGED cont
    /\ OnlyDocker /\ UNCHANGED <<scont, nets, traefik, garage>>

\* Mutant of Services: the services of the project are not looked at.
ServicesSkipped(r) ==
    /\ At(r, "services")
    /\ Goto(r, "disconnect")
    /\ NoFault /\ UNCHANGED <<rowVars, dockerVars>>

\* Only the services that are committed are seen.
Services(r) ==
    /\ At(r, "services")
    /\ \/ /\ Goto(r, IF service[id[r]] # "none" THEN "stop_service" ELSE "disconnect")
          /\ NoFault /\ UNCHANGED <<rowVars, dockerVars>>
       \/ FailsAt(r)

StopService(r) ==
    /\ At(r, "stop_service")
    /\ Goto(r, "disconnect")
    /\ \/ scont' = [scont EXCEPT ![id[r]] = @ \ {service[id[r]]}] /\ NoFault
       \/ Fault(r, TRUE) /\ UNCHANGED scont
    /\ OnlyDocker /\ UNCHANGED <<cont, nets, traefik, garage>>

Disconnect(r) ==
    /\ At(r, "disconnect")
    /\ Goto(r, "remove_network")
    /\ \/ traefik' = traefik \ {id[r]} /\ NoFault
       \/ Fault(r, TRUE) /\ UNCHANGED traefik
    /\ OnlyDocker /\ UNCHANGED <<cont, scont, nets, garage>>

\* Docker keeps a network that something is connected to.
InUse(i) == cont[i] # "none" \/ scont[i] # {} \/ i \in traefik \cup garage

RemoveNetwork(r) ==
    /\ At(r, "remove_network")
    /\ Goto(r, "delete_row")
    /\ \/ nets' = (IF InUse(id[r]) THEN nets ELSE nets \ {id[r]}) /\ NoFault
       \/ Fault(r, TRUE) /\ UNCHANGED nets
    /\ OnlyDocker /\ UNCHANGED <<cont, scont, traefik, garage>>

\* DELETE ... WHERE name: whatever project has that name by now, and all its rows.
DeleteRow(r) ==
    LET gone == Others
        open == {s \in Requests : pc[s] = "commit_env" /\ id[s] \in gone /\ replaced[s] # {}}
    IN
    /\ Turn(r, "delete_row")
    /\ ~\E i \in gone : Locked(i)
    /\ \/ /\ Goto(r, IF gone = {} THEN "refused" ELSE "ok")
          /\ alive' = alive \ gone
          /\ apps' = apps \ gone
          /\ proc' = [i \in All |-> IF i \in gone THEN NoRow ELSE proc[i]]
          /\ service' = [i \in All |-> IF i \in gone THEN "none" ELSE service[i]]
          /\ shared' = [i \in All |-> IF i \in gone THEN {} ELSE shared[i]]
          /\ NoFault /\ OnlyRows /\ UNCHANGED used
       \/ FailsAt(r) /\ UNCHANGED shared
       \/ /\ open # {}                     \* each waits for the other: one is aborted
          /\ Goto(r, "failed")
          /\ NoFault /\ UNCHANGED <<rowVars, dockerVars, shared>>
    /\ UNCHANGED <<given, read, replaced>>

-----------------------------------------------------------------------------
(* An upload into a project: handle_upload and its task                     *)

\* Mutant of Stopped: the rows are replaced, the containers stay.
StoppedNot(i) == cont

\* The containers of the processes that have rows are stopped.
Stopped(i) == IF proc[i] # NoRow THEN [cont EXCEPT ![i] = "none"] ELSE cont

StopOld(r) ==
    /\ At(r, "stop_old")
    /\ \/ /\ Goto(r, IF id[r] \in apps THEN "delete_rows" ELSE "save")
          /\ cont' = Stopped(id[r])
          /\ NoFault
          /\ OnlyDocker /\ UNCHANGED <<scont, nets, traefik, garage>>
       \/ FailsAt(r)
       \/ /\ Goto(r, "delete_rows")
          /\ proc[id[r]] # NoRow
          /\ Fault(r, TRUE)
          /\ UNCHANGED <<rowVars, dockerVars>>

DeleteRows(r) ==
    /\ At(r, "delete_rows")
    /\ \/ /\ Goto(r, "save")
          /\ proc' = [proc EXCEPT ![id[r]] = NoRow]
          /\ NoFault /\ OnlyRows /\ UNCHANGED <<alive, used, apps, service>>
       \/ FailsAt(r)

\* save_in_project: the project has to exist still.
Save(r) ==
    /\ At(r, "save")
    /\ \/ /\ IF id[r] \in alive
               THEN Goto(r, "create_row") /\ apps' = apps \cup {id[r]}
               ELSE Goto(r, "failed") /\ UNCHANGED apps
          /\ NoFault /\ OnlyRows /\ UNCHANGED <<alive, used, proc, service>>
       \/ FailsAt(r)

\* Registry::delete knows applications of the default project only.
DeleteDefault(r) ==
    /\ Goto(r, "failed")
    /\ apps' = apps \ {Default}
    /\ proc' = [proc EXCEPT ![Default] = NoRow]
    /\ disturbed' = disturbed \cup {r} \cup {s \in Requests : InFlight(s) /\ id[s] = Default}

\* Mutant of CreateRow: the clean-up of a failed insertion follows every one.
CreateRowAndClean(r) ==
    /\ At(r, "create_row")
    /\ id[r] \in apps /\ proc[id[r]] = NoRow
    /\ Goto(r, "read_env")
    /\ apps' = apps \ {Default}
    /\ proc' = [proc EXCEPT ![id[r]] = [by |-> r, status |-> "building", container |-> "none"],
                            ![Default] = NoRow]
    /\ NoFault /\ OnlyRows /\ UNCHANGED <<alive, used, service>>

\* create_process: the application has to exist still, without such a process; a name
\* that is too long for its column fails, too.
CreateRow(r) ==
    /\ At(r, "create_row")
    /\ \/ /\ id[r] \in apps /\ proc[id[r]] = NoRow
          /\ Goto(r, "read_env")
          /\ proc' = [proc EXCEPT ![id[r]] =
                         [by |-> r, status |-> "building", container |-> "none"]]
          /\ NoFault /\ UNCHANGED apps
       \/ /\ DeleteDefault(r)
          /\ hurt' = hurt \cup {id[r], Default}
          /\ IF id[r] \in apps /\ proc[id[r]] = NoRow
               THEN faults < MaxFaults /\ faults' = faults + 1 ELSE UNCHANGED faults
          /\ UNCHANGED leaked
    /\ OnlyRows /\ UNCHANGED <<alive, used, service>>

\* Mutant of ById: the row of today is written, not the one that is known.
ByName(i, by, row) == [proc EXCEPT ![i] = row]

\* UPDATE ... WHERE id
ById(i, by, row) == IF proc[i].by = by THEN [proc EXCEPT ![i] = row] ELSE proc

\* Mutant of Merged: the variables of the default project.
MergedDefault(i) == shared[Default]

\* merged_process_env_vars, for a row of which none were set by hand
Merged(i) == shared[i]

\* The task reads the variables, and builds the image before it uses them.
ReadEnv(r) ==
    /\ Turn(r, "read_env")
    /\ \/ /\ Goto(r, "ensure_network")
          /\ read' = [read EXCEPT ![r] = Merged(id[r])]
          /\ NoFault /\ UNCHANGED proc
       \/ /\ Fault(r, FALSE)
          /\ Goto(r, "failed")
          /\ proc' = ById(id[r], r, [proc[id[r]] EXCEPT !.status = "failed"])
          /\ UNCHANGED read
    /\ OnlyRows /\ UNCHANGED <<alive, used, apps, service, shared, given, replaced>>

Network(r) ==
    /\ At(r, "ensure_network")
    /\ Goto(r, "start")
    /\ EnsureNetwork(id[r]) /\ EnsureTraefik(id[r])
    /\ NoFault /\ OnlyDocker /\ UNCHANGED <<cont, scont, garage>>

\* create_and_start: the name has to be free, the network to be there still; a container
\* that does not start stays.
Start(r) ==
    /\ Turn(r, "start")
    /\ \/ /\ cont[id[r]] = "none" /\ id[r] \in nets
          /\ cont' = [cont EXCEPT ![id[r]] = r]
          /\ given' = [given EXCEPT ![id[r]] = read[r]]
          /\ \/ Goto(r, "register") /\ NoFault /\ UNCHANGED proc
             \/ /\ Fault(r, FALSE)
                /\ Goto(r, "failed")
                /\ proc' = ById(id[r], r, [proc[id[r]] EXCEPT !.status = "failed"])
       \/ /\ cont[id[r]] # "none" \/ id[r] \notin nets
          /\ Goto(r, "failed")
          /\ proc' = ById(id[r], r, [proc[id[r]] EXCEPT !.status = "failed"])
          /\ NoFault /\ UNCHANGED <<cont, given>>
    /\ UNCHANGED <<alive, used, apps, service, scont, nets, traefik, garage, shared, read,
                   replaced>>

\* update_process_running: its error is ignored.
Register(r) ==
    /\ At(r, "register")
    /\ Goto(r, "ok")
    /\ \/ /\ proc' = ById(id[r], r, [by |-> r, status |-> "running", container |-> r])
          /\ NoFault
       \/ Fault(r, FALSE) /\ UNCHANGED proc
    /\ OnlyRows /\ UNCHANGED <<alive, used, apps, service>>

-----------------------------------------------------------------------------
(* A new resource: one with a container of its own, and one of Garage       *)

\* The transaction inserts the row, which is seen when it commits; a second one of the
\* same name waits for it.
Insert(r) ==
    /\ At(r, "insert")
    /\ ~Locked(id[r])
    /\ Goto(r, IF id[r] \in alive /\ service[id[r]] = "none" THEN "service_network" ELSE "failed")
    /\ disturbed' = disturbed \cup (IF service[id[r]] # "none" THEN {r} ELSE {})
    /\ UNCHANGED <<rowVars, dockerVars, faults, hurt, leaked>>

ServiceNetwork(r) ==
    /\ At(r, "service_network")
    /\ Goto(r, "start_service")
    /\ EnsureNetwork(id[r])
    /\ NoFault /\ OnlyDocker /\ UNCHANGED <<cont, scont, traefik, garage>>

StartService(r) ==
    /\ At(r, "start_service")
    /\ \/ /\ id[r] \in nets
          /\ scont' = [scont EXCEPT ![id[r]] = @ \cup {r}]
          /\ \/ Goto(r, "commit") /\ NoFault
             \/ Goto(r, "failed") /\ Fault(r, TRUE)
       \/ /\ id[r] \notin nets
          /\ Goto(r, "failed")
          /\ NoFault /\ UNCHANGED scont
    /\ OnlyDocker /\ UNCHANGED <<cont, nets, traefik, garage>>

Commit(r) ==
    /\ At(r, "commit")
    /\ \/ /\ Goto(r, "ok")
          /\ service' = [service EXCEPT ![id[r]] = r]
          /\ NoFault
       \/ Goto(r, "failed") /\ Fault(r, TRUE) /\ UNCHANGED service
    /\ OnlyRows /\ UNCHANGED <<alive, used, apps, proc>>

\* The row of an S3 resource is one that has no container; Garage joins the network of
\* the application that it is attached to, if that is still there.
InsertS3(r) ==
    /\ At(r, "insert_s3")
    /\ Goto(r, IF id[r] \in apps THEN "connect_garage" ELSE "failed")
    /\ NoFault /\ UNCHANGED <<rowVars, dockerVars>>

ConnectGarage(r) ==
    /\ At(r, "connect_garage")
    /\ Goto(r, "ok")
    /\ IF id[r] \in apps THEN EnsureNetwork(id[r]) /\ garage' = garage \cup {id[r]}
                          ELSE UNCHANGED <<nets, garage>>
    /\ NoFault /\ OnlyDocker /\ UNCHANGED <<cont, scont, traefik>>

-----------------------------------------------------------------------------
(* A new environment variable of the project                                *)

\* Mutant of GetEnv: the variable is written back alone.
GetEnvNothing(r) ==
    /\ Turn(r, "get_env")
    /\ Goto(r, "put_env")
    /\ read' = [read EXCEPT ![r] = {r}]
    /\ NoFault /\ UNCHANGED <<rowVars, dockerVars, shared, given, replaced>>

\* `project env set': one request reads the variables, ...
GetEnv(r) ==
    /\ Turn(r, "get_env")
    /\ Goto(r, "put_env")
    /\ read' = [read EXCEPT ![r] = shared[id[r]] \cup {r}]
    /\ NoFault /\ UNCHANGED <<rowVars, dockerVars, shared, given, replaced>>

\* ... another one puts them back with the new one, into the project that has the name
\* by then: its transaction deletes those that there are, ...
PutEnv(r) ==
    /\ pc[r] = "put_env"
    /\ IF Others = {}
         THEN Goto(r, "refused") /\ UNCHANGED <<id, replaced>>
         ELSE \E i \in Others : /\ Goto(r, "commit_env")
                                /\ id' = [id EXCEPT ![r] = i]
                                /\ replaced' = [replaced EXCEPT ![r] = shared[i]]
    /\ NoFault
    /\ UNCHANGED <<rowVars, dockerVars, shared, given, read, askVars, seen, mixed, contended,
                   before>>

\* ... and inserts what it was sent, unless the project is gone or another transaction
\* has inserted one of them meanwhile.
CommitEnv(r) ==
    LET i == id[r]
        rest == shared[i] \ replaced[r]
    IN
    /\ Turn(r, "commit_env")
    /\ \/ /\ i \in alive /\ rest \cap read[r] = {}
          /\ shared' = [shared EXCEPT ![i] = rest \cup read[r]]
          /\ \/ Goto(r, "ok") /\ NoFault
             \/ Goto(r, "failed") /\ Fault(r, FALSE)
       \/ /\ Goto(r, "failed")
          /\ IF i \in alive /\ rest \cap read[r] = {} THEN Fault(r, FALSE) ELSE NoFault
          /\ UNCHANGED shared
    /\ UNCHANGED <<rowVars, dockerVars, given, read, replaced>>

-----------------------------------------------------------------------------
(* The watcher and the server                                               *)

Working(i) == {r \in Requests : InFlight(r) /\ id[r] = i}

\* It finds the process of i missing, and half a second later its row still active ...
Notice(i) ==
    /\ seen = NotSeen
    /\ proc[i].status = "running" /\ cont[i] = "none"
    /\ seen' = [project |-> i, by |-> proc[i].by]
    /\ disturbed' = disturbed \cup Working(i)
    /\ mixed' = mixed \cup (IF Working(i) = {} THEN {} ELSE {i})
    /\ UNCHANGED <<rowVars, dockerVars, envVars, askVars, id, pc, faults, hurt, leaked,
                   contended, before>>

\* ... and starts it again, whatever has become of the row.
Recreate ==
    LET i == seen.project IN
    /\ seen # NotSeen
    /\ seen' = NotSeen
    /\ EnsureNetwork(i) /\ EnsureTraefik(i)
    /\ IF cont[i] = "none"
         THEN /\ cont' = [cont EXCEPT ![i] = "watcher"]
              /\ given' = [given EXCEPT ![i] = Merged(i)]
              /\ proc' = ById(i, seen.by, [by |-> seen.by, status |-> "running",
                                           container |-> "watcher"])
         ELSE /\ proc' = ById(i, seen.by, [proc[i] EXCEPT !.status = "failed"])
              /\ UNCHANGED <<cont, given>>
    /\ disturbed' = disturbed \cup Working(i)
    /\ mixed' = mixed \cup (IF Working(i) = {} /\ proc[i].by = seen.by THEN {} ELSE {i})
    /\ UNCHANGED <<alive, used, apps, service, scont, garage, shared, read, replaced, askVars,
                   id, pc, faults, hurt, leaked, contended, before>>

\* What runs in memory is gone; a transaction is rolled back, its container stays.
Crash ==
    LET dying == {r \in Requests : InFlight(r)} IN
    /\ dying # {}
    /\ faults < MaxFaults /\ faults' = faults + 1
    /\ pc' = [r \in Requests |-> IF r \in dying THEN "lost" ELSE pc[r]]
    /\ seen' = NotSeen
    /\ hurt' = hurt \cup {id[r] : r \in dying}
    /\ leaked' = leaked \cup {id[r] : r \in {s \in dying : pc[s] = "commit"}}
    /\ UNCHANGED <<rowVars, dockerVars, envVars, askVars, id, mixed, contended, before, disturbed>>

Step(r) ==
    \/ Create(r) \/ BeginDelete(r) \/ BeginUpload(r) \/ BeginService(r) \/ BeginS3(r)
    \/ BeginEnv(r) \/ GetEnv(r) \/ PutEnv(r) \/ CommitEnv(r)
    \/ List(r) \/ StopApp(r) \/ Services(r) \/ StopService(r) \/ Disconnect(r)
    \/ RemoveNetwork(r) \/ DeleteRow(r)
    \/ StopOld(r) \/ DeleteRows(r) \/ Save(r) \/ CreateRow(r) \/ ReadEnv(r)
    \/ Network(r) \/ Start(r) \/ Register(r)
    \/ Insert(r) \/ ServiceNetwork(r) \/ StartService(r) \/ Commit(r)
    \/ InsertS3(r) \/ ConnectGarage(r)

Next ==
    \/ \E r \in Requests : Step(r)
    \/ \E i \in All : Notice(i)
    \/ Recreate
    \/ Crash

Spec == Init /\ [][Next]_vars

-----------------------------------------------------------------------------
(* Properties                                                               *)

\* A project that is gone has left no container behind, and no network unless Garage is
\* on it, which a deletion does not disconnect.  So it is as long as no deletion of the
\* project met another request for it or the watcher, and no fault, and no two uploads at once, left
\* something that no row tells of; a deletion that failed or died on its way is made good by the next.
GoneLeavesNothing ==
    \A i \in All \ (alive \cup mixed \cup leaked) :
        /\ cont[i] = "none" /\ scont[i] = {}
        /\ i \in nets => i \in garage

\* At rest the rows of every project, the default one included, tell exactly what
\* containers there are, whatever was done in other projects, with one exception: a row
\* of another project that cannot be inserted takes the default project's application of
\* that name with it (Registry::delete at handlers/apps.rs:196), and leaves its container.
Accounted ==
    (\A r \in Requests : ~InFlight(r)) /\ seen = NotSeen =>
        \A i \in alive \ (mixed \cup hurt \cup leaked) :
            /\ cont[i] = proc[i].container
            /\ proc[i].status \in {"none", "running"}
            /\ scont[i] = {service[i]} \ {"none"}

\* A variable of a project that was set is there, and none that nobody set, as long as no
\* two were set at once: all of them are read, sent back and replaced, in two requests.
VariablesKept ==
    \A i \in alive \ (mixed \cup contended) :
        LET setters(ends) == {r \in Requests : kind[r] = "env" /\ id[r] = i /\ pc[r] \in ends} IN
        /\ setters({"ok"}) \subseteq shared[i]
        /\ shared[i] \subseteq setters({"ok", "failed"})

\* The container of an application, whether the upload of its row started it or the
\* watcher did and registered it, was given the variables of its own project that were set
\* before the upload began.
VariablesReachContainers ==
    \A i \in alive \ (mixed \cup contended) :
        proc[i].by \in Requests /\ cont[i] \in {proc[i].by, proc[i].container} \ {"none"}
            => before[proc[i].by] \subseteq given[i]

\* A request that no fault, no other request for its project and no watcher disturbed is
\* done when it ends, unless its project did not exist or its name was taken.
UndisturbedSucceeds ==
    \A r \in Requests \ disturbed : pc[r] # "failed"

=============================================================================
