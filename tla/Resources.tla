----------------------------- MODULE Resources -----------------------------
(***************************************************************************)
(* The managed services of handlers/resources.rs that have a container     *)
(* each (all but S3): requests and deployments that work on the resource   *)
(* of ONE display name in one project.  The resource may be deleted and    *)
(* made again; each time it has another id, which is the container's name. *)
(***************************************************************************)
EXTENDS Naturals

CONSTANTS
    Clients,    \* each sends any number of requests, one after the other
    Ids,        \* the ids of services, each drawn once
    NoId,       \* no service
    Apps,       \* the applications of the project
    MaxFaults   \* bound on the number of faults and crashes

ASSUME ResourcesAssumption == NoId \notin Ids /\ MaxFaults \in Nat

VARIABLES
    row,        \* the row in services that has the display name, with its attachments
    cont,       \* cont[i]: the container of service i
    env,        \* env[a]: the service that the connection variables of a's processes name
    drawn,      \* the ids that have been used
    op,         \* op[c]: what client c asked for
    pc,         \* pc[c]: what its handler, or its CLI, does next
    id,         \* id[c]: the service it works on
    apps,       \* apps[c]: the applications it is to attach
    faults,     \* number of faults and crashes so far
    blamed,     \* observer: the services on which a call was hit by a fault, and whose
    crossed     \* observer: the services on which a start and a stop overlapped

handlerVars == <<op, pc, id, apps>>
vars == <<row, cont, env, drawn, handlerVars, faults, blamed, crossed>>

\* container_id is set with "running" and cleared with "stopped".
NoRow == [id |-> NoId, status |-> "stopped", links |-> {}]
Row == [id : Ids \cup {NoId}, status : {"stopped", "running"}, links : SUBSET Apps]

Ops == {"create", "start", "stop", "delete", "attach", "deploy"}

\* The steps, by what becomes of the service.
StartSteps == {"insert", "lookup", "save", "create_container", "start_container",
               "commit", "mark_running"}
StopSteps  == {"stop_container", "remove_container", "mark_stopped", "delete_row"}
LinkSteps  == {"link", "patch"}
Phase(step) == CASE step \in StartSteps -> "start"
                 [] step \in StopSteps  -> "stop"
                 [] OTHER                -> "link"

TypeOK ==
    /\ row \in Row
    /\ cont \in [Ids -> {"none", "created", "running", "exited"}]
    /\ env \in [Apps -> Ids \cup {NoId}]
    /\ drawn \in SUBSET Ids
    /\ op \in [Clients -> Ops \cup {"none"}]
    /\ pc \in [Clients -> StartSteps \cup StopSteps \cup LinkSteps \cup {"idle"}]
    /\ id \in [Clients -> Ids \cup {NoId}]
    /\ apps \in [Clients -> SUBSET Apps]
    /\ faults \in 0..MaxFaults
    /\ blamed \in SUBSET ((Ids \cup {NoId}) \X {"start", "stop", "link"})
    /\ crossed \in SUBSET (Ids \cup {NoId})

Init ==
    /\ row = NoRow
    /\ cont = [i \in Ids |-> "none"]
    /\ env = [a \in Apps |-> NoId]
    /\ drawn = {}
    /\ op = [c \in Clients |-> "none"]
    /\ pc = [c \in Clients |-> "idle"]
    /\ id = [c \in Clients |-> NoId]
    /\ apps = [c \in Clients |-> {}]
    /\ faults = 0
    /\ blamed = {} /\ crossed = {}

-----------------------------------------------------------------------------
(* Calls                                                                    *)

\* can: the call would be carried out; ok: what the handler is told.  A call that
\* could be carried out and reports an error is a fault.
Answer(c, can, ok) ==
    /\ ok => can
    /\ IF can /\ ~ok
         THEN /\ faults < MaxFaults
              /\ faults' = faults + 1
              /\ blamed' = blamed \cup {<<id[c], Phase(pc[c])>>}
         ELSE UNCHANGED <<faults, blamed>>

Docker(c, can, st, ok) ==
    /\ Answer(c, can, ok)
    /\ \/ can /\ cont' = [cont EXCEPT ![id[c]] = st]
       \/ ~ok /\ UNCHANGED cont

\* One statement, or one transaction, that sets the row and the apps' variables.
Sql(c, can, r, e, ok) ==
    /\ Answer(c, can, ok)
    /\ \/ can /\ row' = r /\ env' = e
       \/ ~ok /\ UNCHANGED <<row, env>>

\* UPDATE ... WHERE id: no error when the row is gone.
SetStatus(c, s) == IF row.id = id[c] THEN [row EXCEPT !.status = s] ELSE row

\* inject_service_env_into_app, for the processes that the applications have now.
Injected(c, S) == [a \in Apps |-> IF a \in S THEN id[c] ELSE env[a]]

\* The handler goes on, or is over: an error ends it where it stands.
Goto(c, to) == pc' = [pc EXCEPT ![c] = to] /\ UNCHANGED <<op, id, apps>>
Finish(c) ==
    /\ op' = [op EXCEPT ![c] = "none"]
    /\ pc' = [pc EXCEPT ![c] = "idle"]
    /\ id' = [id EXCEPT ![c] = NoId]
    /\ apps' = [apps EXCEPT ![c] = {}]
Then(c, ok, to) == IF ok /\ to # "idle" THEN Goto(c, to) ELSE Finish(c)

\* A handler takes up service i.
Take(c, step, i) ==
    /\ id' = [id EXCEPT ![c] = i]
    /\ pc' = [pc EXCEPT ![c] = step]
    /\ crossed' = IF \E d \in Clients \ {c} :
                         id[d] = i /\ {Phase(step), Phase(pc[d])} = {"start", "stop"}
                    THEN crossed \cup {i} ELSE crossed

\* A row that another transaction has inserted and not committed: who inserts the
\* same display name waits for that transaction to end.
InTransaction(c) ==
    op[c] = "create" /\ pc[c] \in {"create_container", "start_container", "commit"}
Uncommitted == \E c \in Clients : InTransaction(c)

-----------------------------------------------------------------------------
(* Requests                                                                 *)

Arrive(c, o, i, step, S) ==
    /\ pc[c] = "idle"
    /\ op' = [op EXCEPT ![c] = o]
    /\ apps' = [apps EXCEPT ![c] = S]
    /\ Take(c, step, i)
    /\ UNCHANGED <<row, cont, faults, blamed>>

\* POST /resource
Create(c) ==
    /\ \E i \in Ids \ drawn, S \in SUBSET Apps :
         Arrive(c, "create", i, "insert", S) /\ drawn' = drawn \cup {i}
    /\ UNCHANGED env

\* start and stop read the status, and refuse what is done already; delete only
\* has a container to stop if the status says so.
Start(c) ==
    /\ row.id # NoId /\ row.status # "running"
    /\ Arrive(c, "start", row.id, "create_container", {})
    /\ UNCHANGED <<env, drawn>>

Stop(c) ==
    /\ row.id # NoId /\ row.status # "stopped"
    /\ Arrive(c, "stop", row.id, "stop_container", {})
    /\ UNCHANGED <<env, drawn>>

Delete(c) ==
    /\ row.id # NoId
    /\ Arrive(c, "delete", row.id,
              IF row.status = "running" THEN "stop_container" ELSE "delete_row", {})
    /\ UNCHANGED <<env, drawn>>

\* The CLI reads the attachments and will write them back with one more.
Attach(c) ==
    /\ row.id # NoId
    /\ \E a \in Apps : Arrive(c, "attach", row.id, "patch", row.links \cup {a})
    /\ UNCHANGED <<env, drawn>>

\* An upload (the rows of a's processes are replaced, and their variables go with
\* them) or an update; its manifest may name the resource or not.
Deploy(c) ==
    /\ \E a \in Apps :
         /\ env' \in {env, [env EXCEPT ![a] = NoId]}
         /\ \/ Arrive(c, "deploy", NoId, "lookup", {a})
            \/ pc[c] = "idle" /\ UNCHANGED <<row, cont, handlerVars, faults, blamed, crossed>>
    /\ UNCHANGED drawn

-----------------------------------------------------------------------------
(* The handlers                                                             *)

\* create: its transaction stays open while the container is started.
Insert(c) ==
    /\ pc[c] = "insert"
    /\ ~Uncommitted
    /\ \E ok \in BOOLEAN :
         /\ Answer(c, row.id = NoId, ok)
         /\ Then(c, ok, "create_container")
    /\ UNCHANGED <<row, cont, env, drawn, crossed>>

\* Mutant of CreateContainer: what stands in the way is removed.
CreateContainerTidily(c) ==
    /\ pc[c] = "create_container"
    /\ \/ \E ok \in BOOLEAN :
            /\ Docker(c, cont[id[c]] = "none", "created", ok)
            /\ Then(c, ok, "start_container")
       \/ /\ Docker(c, cont[id[c]] # "none", "none", TRUE)
          /\ Finish(c)
    /\ UNCHANGED <<row, env, drawn, crossed>>

\* Scheduler::start_service; the name must be free.
CreateContainer(c) ==
    /\ pc[c] = "create_container"
    /\ \E ok \in BOOLEAN :
         /\ Docker(c, cont[id[c]] = "none", "created", ok)
         /\ Then(c, ok, "start_container")
    /\ UNCHANGED <<row, env, drawn, crossed>>

StartContainer(c) ==
    /\ pc[c] = "start_container"
    /\ \E ok \in BOOLEAN :
         /\ Docker(c, cont[id[c]] # "none", "running", ok)
         /\ Then(c, ok, IF op[c] = "create" THEN "commit" ELSE "mark_running")
    /\ UNCHANGED <<row, env, drawn, crossed>>

\* The CLI sends the attachments with the request, if it was given a connection
\* profile, and in any case in a second request.
Commit(c) ==
    /\ pc[c] = "commit"
    /\ \E ok \in BOOLEAN, sent \in {{}, apps[c]} :
         /\ Sql(c, TRUE, [id |-> id[c], status |-> "running", links |-> sent],
                Injected(c, sent), ok)
         /\ Then(c, ok, IF apps[c] = {} THEN "idle" ELSE "patch")
    /\ UNCHANGED <<cont, drawn, crossed>>

MarkRunning(c) ==
    /\ pc[c] = "mark_running"
    /\ \E ok \in BOOLEAN :
         /\ Sql(c, TRUE, SetStatus(c, "running"), env, ok)
         /\ Then(c, ok, IF op[c] = "deploy" THEN "link" ELSE "idle")
    /\ UNCHANGED <<cont, drawn, crossed>>

\* Scheduler::stop_service; an error of either call ends the request.
StopContainer(c) ==
    /\ pc[c] = "stop_container"
    /\ \E ok \in BOOLEAN :
         /\ Docker(c, cont[id[c]] # "none",
                   IF cont[id[c]] = "running" THEN "exited" ELSE cont[id[c]], ok)
         /\ Then(c, ok, "remove_container")
    /\ UNCHANGED <<row, env, drawn, crossed>>

\* Mutant of RemoveContainer: what Docker answers is only printed.
RemoveContainerAnyway(c) ==
    /\ pc[c] = "remove_container"
    /\ \E ok \in BOOLEAN : Docker(c, cont[id[c]] \in {"created", "exited"}, "none", ok)
    /\ Goto(c, IF op[c] = "stop" THEN "mark_stopped" ELSE "delete_row")
    /\ UNCHANGED <<row, env, drawn, crossed>>

RemoveContainer(c) ==
    /\ pc[c] = "remove_container"
    /\ \E ok \in BOOLEAN :
         /\ Docker(c, cont[id[c]] \in {"created", "exited"}, "none", ok)
         /\ Then(c, ok, IF op[c] = "stop" THEN "mark_stopped" ELSE "delete_row")
    /\ UNCHANGED <<row, env, drawn, crossed>>

\* Mutant of MarkStopped: Docker's word for it.
MarkExited(c) ==
    /\ pc[c] = "mark_stopped"
    /\ \E ok \in BOOLEAN : Sql(c, TRUE, SetStatus(c, "exited"), env, ok)
    /\ Finish(c)
    /\ UNCHANGED <<cont, drawn, crossed>>

MarkStopped(c) ==
    /\ pc[c] = "mark_stopped"
    /\ \E ok \in BOOLEAN : Sql(c, TRUE, SetStatus(c, "stopped"), env, ok)
    /\ Finish(c)
    /\ UNCHANGED <<cont, drawn, crossed>>

\* The attachments go with the row; the variables in the applications stay.
DeleteRow(c) ==
    /\ pc[c] = "delete_row"
    /\ \E ok \in BOOLEAN : Sql(c, TRUE, IF row.id = id[c] THEN NoRow ELSE row, env, ok)
    /\ Finish(c)
    /\ UNCHANGED <<cont, drawn, crossed>>

\* PATCH /resource/{id}: the attachments are replaced; a service that is stopped
\* has no container_id, and nothing is injected.
Patch(c) ==
    /\ pc[c] = "patch"
    /\ \E ok \in BOOLEAN :
         Sql(c, row.id = id[c], [row EXCEPT !.links = apps[c]],
             IF row.status = "running" THEN Injected(c, apps[c]) ELSE env, ok)
    /\ Finish(c)
    /\ UNCHANGED <<cont, drawn, crossed>>

-----------------------------------------------------------------------------
(* ensure_manifest_resource_attached                                        *)

Lookup(c) ==
    /\ pc[c] = "lookup"
    /\ \/ /\ row.id # NoId
          /\ Take(c, IF row.status = "running" THEN "link" ELSE "create_container", row.id)
          /\ UNCHANGED drawn
       \/ /\ row.id = NoId
          /\ \E i \in Ids \ drawn : Take(c, "save", i) /\ drawn' = drawn \cup {i}
    /\ UNCHANGED <<row, cont, env, op, apps, faults, blamed>>

\* Here the row is committed before the container is started.
Save(c) ==
    /\ pc[c] = "save"
    /\ ~Uncommitted
    /\ \E ok \in BOOLEAN :
         /\ Sql(c, row.id = NoId, [NoRow EXCEPT !.id = id[c]], env, ok)
         /\ Then(c, ok, "create_container")
    /\ UNCHANGED <<cont, drawn, crossed>>

\* The attachment refers to the row, which must exist.
Link(c) ==
    /\ pc[c] = "link"
    /\ \E ok \in BOOLEAN :
         Sql(c, row.id = id[c], [row EXCEPT !.links = @ \cup apps[c]],
             Injected(c, apps[c]), ok)
    /\ Finish(c)
    /\ UNCHANGED <<cont, drawn, crossed>>

-----------------------------------------------------------------------------

\* Nothing restarts the container of a service: it has no restart policy, and the
\* watcher looks at applications only.
ContainerExits ==
    /\ \E i \in Ids : cont[i] = "running" /\ cont' = [cont EXCEPT ![i] = "exited"]
    /\ UNCHANGED <<row, env, drawn, handlerVars, faults, blamed, crossed>>

\* An open transaction is rolled back.
ServerCrash ==
    /\ \E c \in Clients : pc[c] # "idle"
    /\ faults < MaxFaults
    /\ faults' = faults + 1
    /\ blamed' = blamed \cup {<<id[c], Phase(pc[c])>> :
                                c \in {d \in Clients : pc[d] # "idle"}}
    /\ op' = [c \in Clients |-> "none"]
    /\ pc' = [c \in Clients |-> "idle"]
    /\ id' = [c \in Clients |-> NoId]
    /\ apps' = [c \in Clients |-> {}]
    /\ UNCHANGED <<row, cont, env, drawn, crossed>>

HandlerStep(c) ==
    \/ Insert(c) \/ CreateContainer(c) \/ StartContainer(c) \/ Commit(c) \/ MarkRunning(c)
    \/ StopContainer(c) \/ RemoveContainer(c) \/ MarkStopped(c) \/ DeleteRow(c) \/ Patch(c)
    \/ Lookup(c) \/ Save(c) \/ Link(c)

Next ==
    \/ \E c \in Clients : \/ Create(c) \/ Start(c) \/ Stop(c) \/ Delete(c) \/ Attach(c)
                          \/ Deploy(c) \/ HandlerStep(c)
    \/ ContainerExits
    \/ ServerCrash

Spec == Init /\ [][Next]_vars

-----------------------------------------------------------------------------
(* Properties                                                               *)

\* Someone is at work on service i.
Busy(i) == \E c \in Clients : id[c] = i

\* A service whose row says "running" has a container, for stop and delete give up
\* without one and start refuses to make one.  Only a stop or a delete that failed
\* half-way, or that overlapped with a start, can leave such a service; failed
\* starts, overlapping deployments and requests of the same direction cannot.
RunningHasContainer ==
    row.status = "running" /\ <<row.id, "stop">> \notin blamed /\ row.id \notin crossed
    => \/ cont[row.id] # "none"
       \/ \E c \in Clients : id[c] = row.id /\ pc[c] \in {"mark_stopped", "delete_row"}

\* A container whose service is not "running", or has no row, is found by nobody
\* again: delete leaves it, and start and the next deployment fail on its name.
\* Only a start that failed half-way, or that overlapped with a stop or a delete,
\* can leave one; a stop that failed cannot.
ContainerHasRunningRow ==
    \A i \in Ids :
        cont[i] # "none" /\ ~Busy(i) /\ <<i, "start">> \notin blamed /\ i \notin crossed
        => row.id = i /\ row.status = "running"

\* What usage.md says of attachments: an application that is attached to a running
\* service has its variables.
LinkedIsInjected ==
    (row.status = "running" /\ \A c \in Clients : pc[c] = "idle")
    => \A a \in row.links : env[a] = row.id

-----------------------------------------------------------------------------
(* The inductive form of the two properties of containers                   *)

\* What a handler does next fits what it was asked.
HandlersFit ==
    \A c \in Clients :
        /\ id[c] = NoId <=> pc[c] \in {"idle", "lookup"}
        /\ pc[c] \in {"insert", "commit"} => op[c] = "create"
        /\ pc[c] \in {"lookup", "save"} => op[c] = "deploy"
        /\ pc[c] = "mark_running" => op[c] # "create"

\* Only a service that there is runs.
RunningExists == row.status = "running" => row.id # NoId

\* One transaction at most holds the display name, and nobody else has it.
OneTransaction ==
    \A c \in Clients : InTransaction(c) =>
        row.id = NoId /\ \A d \in Clients : InTransaction(d) => d = c

\* Starts and stops of the same service that are both at work have crossed.
Apart ==
    \A c, d \in Clients :
        id[c] = id[d] /\ id[c] # NoId /\ id[c] \notin crossed
        => ~(pc[c] \in StartSteps /\ pc[d] \in StopSteps)

\* Who starts a service that has a row keeps that row, and, once it has made the
\* container, has it.
RowKept ==
    \A c \in Clients :
        /\ pc[c] \in {"create_container", "start_container", "mark_running"}
        /\ op[c] # "create" /\ id[c] \notin crossed
        => row.id = id[c]
Owns(c) == pc[c] \in {"start_container", "commit", "mark_running"}
Made == \A c \in Clients : Owns(c) /\ id[c] \notin crossed => cont[id[c]] # "none"

\* A container has a running row, or someone who is going to write it.
Found ==
    \A i \in Ids : cont[i] # "none" /\ <<i, "start">> \notin blamed /\ i \notin crossed
        => \/ row.id = i /\ row.status = "running"
           \/ \E c \in Clients : id[c] = i /\ Owns(c)

\* Who is going to write that a service is stopped, or deleted, left no container.
Emptied ==
    \A c \in Clients :
        /\ pc[c] \in {"mark_stopped", "delete_row"}
        /\ <<id[c], "start">> \notin blamed /\ id[c] \notin crossed
        => cont[id[c]] = "none"

ResourceInv == /\ HandlersFit /\ RunningExists /\ OneTransaction /\ Apart /\ RowKept
               /\ Made /\ Found /\ Emptied /\ RunningHasContainer

=============================================================================
