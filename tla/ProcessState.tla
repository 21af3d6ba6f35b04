--------------------------- MODULE ProcessState ---------------------------
(***************************************************************************)
(* The state that every actor of PaasTech shares about ONE process of an   *)
(* application: the Docker containers that carry its names, its row in     *)
(* application_processes and the image tag its builds write.  The calls    *)
(* that read and write this state are the operators below; the actors are  *)
(* RollingUpdate, and, composed with it, the watcher and the handlers.     *)
(*                                                                         *)
(* A call to Docker or to PostgreSQL succeeds, or is refused because of    *)
(* the state it finds, or is hit by a FAULT: it reports an error, and may  *)
(* have taken effect all the same (the answer was lost).                   *)
(***************************************************************************)
EXTENDS Naturals

CONSTANTS
    Updates,    \* the update requests; each builds its own version
    Base,       \* the version that ran before any of them
    MaxFaults   \* bound on the number of faults in a behaviour

ASSUME StateAssumption == /\ Base \notin Updates
                          /\ {"watcher", "restart", "unset"} \cap Updates = {}
                          /\ MaxFaults \in Nat

VARIABLES
    cont,       \* cont[n]: the container that has the name n
    row,        \* the process's row in the registry
    tag,        \* the version the image tag "{app}-{process}" points to
    faults,     \* number of faults so far
    blamed      \* observer: the names on which a call was hit by a fault

sharedVars == <<cont, row, tag, faults, blamed>>

-----------------------------------------------------------------------------
(* Names, versions and statuses                                             *)

Versions == Updates \cup {Base}

\* Who can have created a container: an update, the deployment before them
\* (Base), the watcher, or the handler of a restart request.
Makers == Versions \cup {"watcher", "restart"}

\* The production name, and the two names an update adds.  The code suffixes
\* them with the time in seconds, here with the update.
Prod      == <<"prod", Base>>
Canary(t) == <<"canary", t>>
Old(t)    == <<"old", t>>

Names == {Prod} \cup {Canary(t) : t \in Updates} \cup {Old(t) : t \in Updates}

\* The names whose containers carry Traefik labels: a canary has none.
Routed == {Prod} \cup {Old(t) : t \in Updates}

\* The registry stands for itself among the names that can be blamed.
Registry == <<"registry", Base>>

\* by: whose container it is (its identity, kept by a rename); img: the version
\* its image tag pointed to when it was created.  "none": nothing has the name.
Container == [by : Makers, img : Versions,
              st : {"none", "created", "running", "exited"}]
NoContainer == [by |-> Base, img |-> Base, st |-> "none"]

\* "gone" once the row is deleted: an UPDATE then matches nothing and succeeds.
Statuses == {"building", "running", "stopped", "failed", "crashed", "gone"}

\* image_id, container_id and host_port are written together, and only by
\* update_process_running: the container they describe, "unset" while NULL.
\* image_id itself is the tag, always the same.
RowType == [status : Statuses, container : Makers \cup {"unset"}]

-----------------------------------------------------------------------------
(* Calls.  can: Docker or PostgreSQL would carry the call out; ok: what the  *)
(* caller is told.                                                          *)

Answer(n, can, ok) ==
    /\ ok => can
    /\ IF can /\ ~ok
         THEN /\ faults < MaxFaults
              /\ faults' = faults + 1
              /\ blamed' = blamed \cup {n}
         ELSE UNCHANGED <<faults, blamed>>

Docker(n, can, after, ok) ==
    /\ Answer(n, can, ok)
    /\ cont' \in (IF ok THEN {} ELSE {cont}) \cup (IF can THEN {after} ELSE {})

DockerCreate(n, m, ok) ==
    Docker(n, cont[n].st = "none",
           [cont EXCEPT ![n] = [by |-> m, img |-> tag, st |-> "created"]], ok)

DockerStart(n, ok) ==
    Docker(n, cont[n].st # "none", [cont EXCEPT ![n].st = "running"], ok)

\* Stopping what does not run is no error (304); a created one stays created.
DockerStop(n, ok) ==
    Docker(n, cont[n].st # "none",
           [cont EXCEPT ![n].st = IF @ = "running" THEN "exited" ELSE @], ok)

\* Without "force", Docker refuses to remove a running container.
DockerRemove(n, ok) ==
    Docker(n, cont[n].st \in {"created", "exited"},
           [cont EXCEPT ![n] = NoContainer], ok)

DockerForceRemove(n, ok) ==
    Docker(n, cont[n].st # "none", [cont EXCEPT ![n] = NoContainer], ok)

DockerRename(n, m, ok) ==
    Docker(n, cont[n].st # "none" /\ cont[m].st = "none",
           [cont EXCEPT ![m] = cont[n], ![n] = NoContainer], ok)

RowUpdate(after, ok) ==
    /\ Answer(Registry, TRUE, ok)
    /\ row' \in (IF ok THEN {} ELSE {row})
                    \cup {IF row.status = "gone" THEN row ELSE after}

\* Registry::update_process_status and update_process_definition
UpdateStatus(s, ok) == RowUpdate([row EXCEPT !.status = s], ok)

\* Registry::update_process_running
UpdateRunning(m, ok) == RowUpdate([status |-> "running", container |-> m], ok)

=============================================================================
