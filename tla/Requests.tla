----------------------------- MODULE Requests -----------------------------
(***************************************************************************)
(* The handlers of handlers/apps.rs that act on a deployed process without *)
(* building anything: stop, restart and delete.  Each is a sequence of     *)
(* calls to Docker and to PostgreSQL with nothing to keep another handler, *)
(* a background task or the watcher from acting between two of them.       *)
(***************************************************************************)
EXTENDS ProcessState

CONSTANT Clients    \* each sends any number of requests, one after the other

VARIABLES
    op,     \* op[r]: what client r asked for
    rpc     \* rpc[r]: what the handler of its request does next

requestVars == <<op, rpc>>

Ops == {"stop", "restart", "delete"}
NoOp == "none"
RequestSteps == {"delete_row", "stop_container", "remove_container",
                 "mark_stopped", "create", "start", "register", "mark_failed",
                 "idle"}

Handling(r) == rpc[r] # "idle"

RequestTypeOK ==
    /\ op \in [Clients -> Ops \cup {NoOp}]
    /\ rpc \in [Clients -> RequestSteps]

RequestInit ==
    /\ op = [r \in Clients |-> NoOp]
    /\ rpc = [r \in Clients |-> "idle"]

\* The handler's next step, or its end.
Proceed(r, to) ==
    /\ rpc' = [rpc EXCEPT ![r] = to]
    /\ IF to = "idle" THEN op' = [op EXCEPT ![r] = NoOp] ELSE UNCHANGED op

OnDocker == UNCHANGED <<row, tag>>
OnRow    == UNCHANGED <<cont, tag>>

\* get_in_project finds the row, or the answer is 404; restart refuses a process
\* that never had an image.
Arrive(r) ==
    /\ rpc[r] = "idle"
    /\ row.status # "gone"
    /\ \E o \in Ops :
         /\ o = "restart" => row.container # "unset"
         /\ op' = [op EXCEPT ![r] = o]
         /\ rpc' = [rpc EXCEPT ![r] = IF o = "delete" THEN "delete_row"
                                                      ELSE "stop_container"]
    /\ UNCHANGED sharedVars

\* delete: one transaction removes the application, its processes and its
\* attachments; the containers are stopped after the commit.
DeleteRow(r) ==
    /\ rpc[r] = "delete_row"
    /\ \E ok \in BOOLEAN :
         /\ UpdateStatus("gone", ok)
         /\ Proceed(r, IF ok THEN "stop_container" ELSE "idle")
    /\ OnRow

\* Mutant of StopContainer: a stop request does not remove the container.
StopContainerOnly(r) ==
    /\ rpc[r] = "stop_container"
    /\ Proceed(r, IF op[r] = "stop" THEN "mark_stopped" ELSE "remove_container")
    /\ \E ok \in BOOLEAN : DockerStop(Prod, ok)
    /\ OnDocker

\* Scheduler::stop: both calls are made, and what they answer is only printed.
StopContainer(r) ==
    /\ rpc[r] = "stop_container"
    /\ Proceed(r, "remove_container")
    /\ \E ok \in BOOLEAN : DockerStop(Prod, ok)
    /\ OnDocker

RemoveContainer(r) ==
    /\ rpc[r] = "remove_container"
    /\ Proceed(r, CASE op[r] = "stop"    -> "mark_stopped"
                    [] op[r] = "restart" -> "create"
                    [] op[r] = "delete"  -> "idle")
    /\ \E ok \in BOOLEAN : DockerRemove(Prod, ok)
    /\ OnDocker

MarkStopped(r) ==
    /\ rpc[r] = "mark_stopped"
    /\ Proceed(r, "idle")
    /\ \E ok \in BOOLEAN : UpdateStatus("stopped", ok)
    /\ OnRow

\* restart gives up here when the env vars cannot be read: the container is gone
\* by then, and the row says what it said before.
EnvUnread(r) ==
    /\ rpc[r] = "create"
    /\ Proceed(r, "idle")
    /\ Answer(Registry, TRUE, FALSE)
    /\ UNCHANGED <<cont, row, tag>>

CreateContainer(r) ==
    /\ rpc[r] = "create"
    /\ \E ok \in BOOLEAN :
         /\ DockerCreate(Prod, "restart", ok)
         /\ Proceed(r, IF ok THEN "start" ELSE "mark_failed")
    /\ OnDocker

StartContainer(r) ==
    /\ rpc[r] = "start"
    /\ \E ok \in BOOLEAN :
         /\ DockerStart(Prod, ok)
         /\ Proceed(r, IF ok THEN "register" ELSE "mark_failed")
    /\ OnDocker

RegisterContainer(r) ==
    /\ rpc[r] = "register"
    /\ Proceed(r, "idle")
    /\ \E ok \in BOOLEAN : UpdateRunning("restart", ok)
    /\ OnRow

\* Mutant of MarkFailed: a status that no reader of the row knows.
MarkError(r) ==
    /\ rpc[r] = "mark_failed"
    /\ Proceed(r, "idle")
    /\ \E ok \in BOOLEAN : UpdateStatus("error", ok)
    /\ OnRow

MarkFailed(r) ==
    /\ rpc[r] = "mark_failed"
    /\ Proceed(r, "idle")
    /\ \E ok \in BOOLEAN : UpdateStatus("failed", ok)
    /\ OnRow

HandlerStep(r) ==
    \/ DeleteRow(r) \/ StopContainer(r) \/ RemoveContainer(r) \/ MarkStopped(r)
    \/ EnvUnread(r) \/ CreateContainer(r) \/ StartContainer(r)
    \/ RegisterContainer(r) \/ MarkFailed(r)

=============================================================================
