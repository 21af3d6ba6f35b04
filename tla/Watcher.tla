------------------------------ MODULE Watcher ------------------------------
(***************************************************************************)
(* The watch loop of the scheduler, as it meets one process: every five    *)
(* seconds it lists the rows that should run, inspects their containers,   *)
(* restarts one that exited and recreates one that is missing.  It works   *)
(* from the row it listed and writes statuses by id, whatever the row has  *)
(* become since.                                                           *)
(***************************************************************************)
EXTENDS ProcessState

VARIABLE wpc    \* what the watcher does next

WatchSteps ==
    {"sleep", "inspect", "mark_exited", "restart", "restarting",
     "await_restart", "mark_restarted", "recheck", "mark_imageless", "mark_missing", "create",
     "start", "await_start", "mark_recreated", "give_up"}

WatchTypeOK == wpc \in WatchSteps

WatchInit == wpc = "sleep"

Watched == row.status \in {"running", "crashed"}

DockerOnly == UNCHANGED <<row, tag>>
RowOnly    == UNCHANGED <<cont, tag>>

\* list_active_processes: a failed query ends the pass.
List ==
    /\ wpc = "sleep"
    /\ Watched
    /\ wpc' = "inspect"
    /\ UNCHANGED sharedVars

\* Mutant of Inspect: only a missing container is acted upon.
InspectMissingOnly ==
    /\ wpc = "inspect"
    /\ wpc' = IF cont[Prod].st = "none" THEN "recheck" ELSE "sleep"
    /\ UNCHANGED sharedVars

\* An error of inspect_container reads as "unknown", like a missing container;
\* neither a running nor a created container is anything to act on.
Inspect ==
    /\ wpc = "inspect"
    /\ wpc' = CASE cont[Prod].st = "exited" -> "mark_exited"
                 [] cont[Prod].st = "none"   -> "recheck"
                 [] OTHER                    -> "sleep"
    /\ UNCHANGED sharedVars

InspectFails ==
    /\ wpc = "inspect"
    /\ wpc' = "recheck"
    /\ Answer(Prod, TRUE, FALSE)
    /\ UNCHANGED <<cont, row, tag>>

(* restart_exited_process: the row is not read again.                       *)

MarkExited ==
    /\ wpc = "mark_exited"
    /\ wpc' = "restart"
    /\ \E ok \in BOOLEAN : UpdateStatus("crashed", ok)
    /\ RowOnly

\* What has the name by now is restarted: Docker stops it first if it runs.
Restart ==
    /\ \/ /\ wpc = "restart" /\ cont[Prod].st = "running"
          /\ \E ok \in BOOLEAN :
               /\ DockerStop(Prod, ok)
               /\ wpc' = IF ok THEN "restarting" ELSE "give_up"
       \/ /\ \/ wpc = "restart" /\ cont[Prod].st # "running"
             \/ wpc = "restarting"
          /\ \E ok \in BOOLEAN :
               /\ DockerStart(Prod, ok)
               /\ wpc' = IF ok THEN "await_restart" ELSE "give_up"
    /\ DockerOnly

\* wait_until_running polls for ten seconds.
Await(reached) ==
    /\ wpc' = IF cont[Prod].st = "running" THEN reached ELSE "give_up"
    /\ UNCHANGED sharedVars

AwaitRestart ==
    /\ wpc = "await_restart"
    /\ Await("mark_restarted")

MarkRestarted ==
    /\ wpc = "mark_restarted"
    /\ wpc' = "sleep"
    /\ \E ok \in BOOLEAN : UpdateStatus("running", ok)
    /\ RowOnly

(* recreate_missing_process: half a second later the row is read again, once. *)

Recheck ==
    /\ wpc = "recheck"
    /\ wpc' = CASE ~Watched               -> "sleep"
                 [] Watched /\ row.container = "unset" -> "mark_imageless"
                 [] Watched /\ row.container # "unset" -> "mark_missing"
    /\ UNCHANGED sharedVars

\* Without an image the row is left "crashed", and every pass comes back to it.
MarkMissing ==
    /\ wpc \in {"mark_missing", "mark_imageless"}
    /\ wpc' = IF wpc = "mark_missing" THEN "create" ELSE "sleep"
    /\ \E ok \in BOOLEAN : UpdateStatus("crashed", ok)
    /\ RowOnly

\* The row cannot be read again, or later its env vars: the pass gives it up.
ReadFails ==
    /\ wpc \in {"recheck", "create"}
    /\ wpc' = "sleep"
    /\ Answer(Registry, TRUE, FALSE)
    /\ UNCHANGED <<cont, row, tag>>

\* Mutant of Create: what has the production name is removed first.
CreateReplacing ==
    /\ wpc = "create"
    /\ wpc' = "start"
    /\ cont' = [cont EXCEPT ![Prod] = [by |-> "watcher", img |-> tag, st |-> "created"]]
    /\ UNCHANGED <<row, tag, faults, blamed>>

\* start_process: the image is the tag, whatever it points to by now.
Create ==
    /\ wpc = "create"
    /\ \E ok \in BOOLEAN :
         /\ DockerCreate(Prod, "watcher", ok)
         /\ wpc' = IF ok THEN "start" ELSE "give_up"
    /\ DockerOnly

Start ==
    /\ wpc = "start"
    /\ \E ok \in BOOLEAN :
         /\ DockerStart(Prod, ok)
         /\ wpc' = IF ok THEN "await_start" ELSE "give_up"
    /\ DockerOnly

AwaitStart ==
    /\ wpc = "await_start"
    /\ Await("mark_recreated")

MarkRecreated ==
    /\ wpc = "mark_recreated"
    /\ wpc' = "sleep"
    /\ \E ok \in BOOLEAN : UpdateRunning("watcher", ok)
    /\ RowOnly

\* Every failure of a restart or a recreation ends here; the row is watched no
\* more.
GiveUp ==
    /\ wpc = "give_up"
    /\ wpc' = "sleep"
    /\ \E ok \in BOOLEAN : UpdateStatus("failed", ok)
    /\ RowOnly

WatchStep ==
    \/ List \/ Inspect \/ InspectFails
    \/ MarkExited \/ Restart \/ AwaitRestart \/ MarkRestarted
    \/ Recheck \/ ReadFails \/ MarkMissing \/ Create \/ Start \/ AwaitStart \/ MarkRecreated
    \/ GiveUp

=============================================================================
