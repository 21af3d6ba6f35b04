----------------------------- MODULE Deployment -----------------------------
(***************************************************************************)
(* Deployments and updates of one application with several processes       *)
(* (handle_upload and update in handlers/apps.rs), their background tasks, *)
(* and the CLI that polls the application's status until it has an answer. *)
(* The handlers prepare one row per process of the manifest and spawn a    *)
(* task that builds and starts the processes one after the other, up to    *)
(* the first that fails.  What RollingUpdate does to one process in a      *)
(* dozen steps is one step here.                                           *)
(***************************************************************************)
EXTENDS Naturals, FiniteSets

CONSTANTS
    Procs,          \* the names of processes that manifests use
    Web,            \* the ones of type "web"; the others are workers
    Requests,       \* the requests; each names the rows and containers it makes
    Base,           \* what was there before any of them
    MaxFaults,      \* bound on the failed calls to the registry and of Scheduler::stop
    Concurrent      \* may a request come while another one is worked on?

ASSUME DeploymentAssumption ==
    /\ IsFiniteSet(Procs) /\ Web \subseteq Procs
    /\ Base \notin Requests /\ "none" \notin Requests \cup {Base}
    /\ MaxFaults \in Nat
    /\ Concurrent \in BOOLEAN

VARIABLES
    app,        \* does the application have a row?
    rows,       \* rows[p]: the application's row for process p
    cont,       \* cont[p]: the container with the name of process p
    faults,     \* number of calls that failed
    kind,       \* kind[t]: what request t asks for
    pc,         \* pc[t]: what its handler or its background task does next
    manifest,   \* manifest[t]: the processes that its archive declares
    todo,       \* todo[t]: the ones the current loop has still to visit
    ids,        \* ids[t][p]: the row that t listed or created for p
    current,    \* current[t]: the process the background task works on
    result,     \* result[t]: how the background task ended
    cli         \* cli[t]: what the CLI that sent t knows

dataVars == <<app, rows, cont, faults>>
taskVars == <<kind, pc, manifest, todo, ids, current, result>>
vars == <<dataVars, taskVars, cli>>

Makers == Requests \cup {Base, "none"}

\* id: the request that inserted the row; container: the one whose container_id it
\* holds ("none": NULL).  An absent row has id "none".
Statuses == {"absent", "building", "running", "failed"}
Row == [id : Makers, status : Statuses, container : Makers]
NoRow == [id |-> "none", status |-> "absent", container |-> "none"]

Container == [by : Makers, st : {"none", "created", "running"}]
NoContainer == [by |-> "none", st |-> "none"]

InHandler    == {"stop_existing", "delete_rows", "save", "create_rows", "define_rows",
                 "attach"}
InBackground == {"pick", "build", "stop_worker", "start", "register", "remove",
                 "delete_row"}
Ended        == {"idle", "done", "lost"}

InFlight(t) == pc[t] \notin Ended

TypeOK ==
    /\ app \in BOOLEAN
    /\ rows \in [Procs -> Row]
    /\ cont \in [Procs -> Container]
    /\ faults \in 0..MaxFaults
    /\ kind \in [Requests -> {"none", "deploy", "update"}]
    /\ pc \in [Requests -> InHandler \cup InBackground \cup Ended]
    /\ manifest \in [Requests -> SUBSET Procs]
    /\ todo \in [Requests -> SUBSET Procs]
    /\ ids \in [Requests -> [Procs -> Makers]]
    /\ current \in [Requests -> Procs \cup {"none"}]
    /\ result \in [Requests -> {"none", "ok", "failed", "rolled_back"}]
    /\ cli \in [Requests -> {"none", "waiting", "running", "failed"}]

\* derived_status, which every reader of the application computes from its rows
Has(s) == \E p \in Procs : rows[p].status = s
DerivedStatus == CASE Has("building") -> "building"
                   [] Has("failed") /\ ~Has("building") -> "failed"
                   [] Has("running") /\ ~Has("building") /\ ~Has("failed") -> "running"
                   [] OTHER -> "stopped"

-----------------------------------------------------------------------------

Init ==
    /\ app \in BOOLEAN
    /\ \E deployed \in SUBSET Procs :
         /\ deployed # {} => app
         /\ rows = [p \in Procs |-> IF p \notin deployed THEN NoRow
                      ELSE [id |-> Base, status |-> "running", container |-> Base]]
         /\ cont = [p \in Procs |-> IF p \notin deployed THEN NoContainer
                      ELSE [by |-> Base, st |-> "running"]]
    /\ faults = 0
    /\ kind = [t \in Requests |-> "none"]
    /\ pc = [t \in Requests |-> "idle"]
    /\ manifest = [t \in Requests |-> {}]
    /\ todo = [t \in Requests |-> {}]
    /\ ids = [t \in Requests |-> [p \in Procs |-> "none"]]
    /\ current = [t \in Requests |-> "none"]
    /\ result = [t \in Requests |-> "none"]
    /\ cli = [t \in Requests |-> "none"]

-----------------------------------------------------------------------------
(* What the steps are made of                                               *)

Goto(t, to) == pc' = [pc EXCEPT ![t] = to]

\* The next loop starts over the processes of S.
Loop(t, to, S) == Goto(t, to) /\ todo' = [todo EXCEPT ![t] = S]

\* One process of the loop is done; after the last one the task goes elsewhere.
Visited(t, p, loop, after, S) ==
    IF todo[t] = {p} THEN Loop(t, after, S) ELSE Loop(t, loop, todo[t] \ {p})

\* A call that reports an error may have taken effect all the same.
Call(ok) == IF ok THEN UNCHANGED faults ELSE faults < MaxFaults /\ faults' = faults + 1
Write(after, ok) ==
    /\ Call(ok)
    /\ rows' \in (IF ok THEN {} ELSE {rows}) \cup {after}

\* Scheduler::stop: what Docker answers is only printed.
Stop(p) == \E ok \in BOOLEAN :
    /\ Call(ok)
    /\ cont' \in (IF ok THEN {} ELSE {cont}) \cup {[cont EXCEPT ![p] = NoContainer]}

\* UPDATE ... WHERE id: it meets the row only while that row is the one t knows.
ById(t, p, r) == IF rows[p].id = ids[t][p] /\ ids[t][p] # "none"
                   THEN [rows EXCEPT ![p] = r] ELSE rows
SetStatus(t, p, s)  == ById(t, p, [rows[p] EXCEPT !.status = s])
SetRunning(t, p)    == ById(t, p, [rows[p] EXCEPT !.status = "running", !.container = t])

Listed(t) == {p \in Procs : ids[t][p] # "none"}

-----------------------------------------------------------------------------
(* The handlers.  An error ends the request where it stands.                *)

\* A request that has ended needs what it knew no more.
Kept(f, nothing) == [u \in Requests |-> IF InFlight(u) THEN f[u] ELSE nothing]

Arrive(t, k, m) ==
    /\ kind' = [Kept(kind, "none") EXCEPT ![t] = k]
    /\ manifest' = [Kept(manifest, {}) EXCEPT ![t] = m]
    /\ ids' = [Kept(ids, [p \in Procs |-> "none"])
                 EXCEPT ![t] = [p \in Procs |-> rows[p].id]]
    /\ UNCHANGED <<dataVars, current, result, cli>>

Free(t) ==
    /\ pc[t] = "idle"
    /\ Concurrent \/ \A u \in Requests : ~InFlight(u)

\* handle_upload lists the processes of the application, if it exists.
Deploy(t) ==
    /\ Free(t)
    /\ \E m \in (SUBSET Procs) \ {{}} : Arrive(t, "deploy", m)
    /\ LET existing == {p \in Procs : rows[p].id # "none"} IN
         Loop(t, CASE ~app                      -> "save"
                   [] app /\ existing = {}      -> "delete_rows"
                   [] app /\ existing # {}      -> "stop_existing", existing)

\* Mutant of StopExisting: only the processes of the new manifest are stopped.
StopExistingDeclared(t) ==
    /\ pc[t] = "stop_existing"
    /\ \E p \in todo[t] :
         /\ IF p \in manifest[t] THEN Stop(p) ELSE UNCHANGED <<cont, faults>>
         /\ Visited(t, p, "stop_existing", "delete_rows", {})
    /\ UNCHANGED <<app, rows, kind, manifest, ids, current, result, cli>>

StopExisting(t) ==
    /\ pc[t] = "stop_existing"
    /\ \E p \in todo[t] : Stop(p) /\ Visited(t, p, "stop_existing", "delete_rows", {})
    /\ UNCHANGED <<app, rows, kind, manifest, ids, current, result, cli>>

DeleteRows(t) ==
    /\ pc[t] = "delete_rows"
    /\ \E ok \in BOOLEAN :
         /\ Write([p \in Procs |-> NoRow], ok)
         /\ Loop(t, IF ok THEN "save" ELSE "done", {})
    /\ UNCHANGED <<app, cont, kind, manifest, ids, current, result, cli>>

\* The application's own row: inserted, or its base domain overwritten.
Save(t) ==
    /\ pc[t] = "save"
    /\ \E ok \in BOOLEAN :
         /\ Call(ok)
         /\ app' \in (IF ok THEN {} ELSE {app}) \cup {TRUE}
         /\ IF ok THEN Loop(t, "create_rows", manifest[t]) ELSE Loop(t, "done", {})
    /\ UNCHANGED <<rows, cont, kind, manifest, ids, current, result, cli>>

\* UNIQUE(application_id, name) refuses a second row for a process.
CreateRow(t, p, loop) ==
    /\ \/ /\ rows[p].id = "none"
          /\ \E ok \in BOOLEAN :
               /\ Write([rows EXCEPT ![p] = [id |-> t, status |-> "building",
                                             container |-> "none"]], ok)
               /\ IF ok THEN Visited(t, p, loop, "attach", {}) ELSE Loop(t, "done", {})
       \/ /\ rows[p].id # "none"
          /\ UNCHANGED <<rows, faults>> /\ Loop(t, "done", {})
    /\ ids' = [ids EXCEPT ![t][p] = t]
    /\ UNCHANGED <<app, cont, kind, manifest, current, result, cli>>

CreateRows(t) ==
    /\ pc[t] = "create_rows"
    /\ \E p \in todo[t] : CreateRow(t, p, "create_rows")

\* update: 404 for an application that does not exist.
Update(t) ==
    /\ Free(t)
    /\ app
    /\ \E m \in (SUBSET Procs) \ {{}} : Arrive(t, "update", m) /\ Loop(t, "define_rows", m)

\* Mutant of DefineRows: the status of a row that exists is left as it is.
DefineRowsQuietly(t) ==
    /\ pc[t] = "define_rows"
    /\ \E p \in todo[t] :
         IF ids[t][p] = "none"
           THEN CreateRow(t, p, "define_rows")
           ELSE /\ Visited(t, p, "define_rows", "attach", {})
                /\ UNCHANGED <<dataVars, ids, kind, manifest, current, result, cli>>

\* Mutant of DefineRows: the rows are marked with status::UPDATING.
DefineRowsUpdating(t) ==
    /\ pc[t] = "define_rows"
    /\ \E p \in todo[t] :
         IF ids[t][p] = "none"
           THEN CreateRow(t, p, "define_rows")
           ELSE /\ Write(SetStatus(t, p, "updating"), TRUE)
                /\ Visited(t, p, "define_rows", "attach", {})
                /\ UNCHANGED <<app, cont, kind, manifest, ids, current, result, cli>>

\* The rows that exist are marked "building" by id, the others inserted.
DefineRows(t) ==
    /\ pc[t] = "define_rows"
    /\ \E p \in todo[t] :
         IF ids[t][p] = "none"
           THEN CreateRow(t, p, "define_rows")
           ELSE /\ \E ok \in BOOLEAN :
                     /\ Write(SetStatus(t, p, "building"), ok)
                     /\ IF ok THEN Visited(t, p, "define_rows", "attach", {})
                              ELSE Loop(t, "done", {})
                /\ UNCHANGED <<app, cont, kind, manifest, ids, current, result, cli>>

\* The resources of the manifest; then the task is spawned, the answer is 202, and
\* the CLI starts to poll.  A resource that fails marks the rows "failed", each in
\* a statement of its own whose failure is only printed.
Attach(t) ==
    /\ pc[t] = "attach"
    /\ \/ /\ Loop(t, "pick", manifest[t])
          /\ cli' = [cli EXCEPT ![t] = "waiting"]
          /\ UNCHANGED <<rows, faults>>
       \/ /\ Loop(t, "done", {})
          /\ \E missed \in SUBSET manifest[t] :
               /\ faults' = faults + Cardinality(missed)
               /\ faults' <= MaxFaults
               /\ rows' = [p \in Procs |-> IF p \in manifest[t] \ missed
                                             THEN SetStatus(t, p, "failed")[p]
                                             ELSE rows[p]]
          /\ UNCHANGED cli
    /\ UNCHANGED <<app, cont, kind, manifest, ids, current, result>>

-----------------------------------------------------------------------------
(* The background task                                                      *)

Background == UNCHANGED <<app, kind, manifest, ids, cli>>

\* The next process, in the manifest's order, which can be any.
Pick(t) ==
    /\ pc[t] = "pick"
    /\ \E p \in todo[t] :
         /\ current' = [current EXCEPT ![t] = p]
         /\ Loop(t, "build", todo[t] \ {p})
    /\ UNCHANGED <<rows, cont, faults, result>> /\ Background

\* The loop goes on, or is over.
Advance(t) == IF todo[t] = {}
                THEN /\ Loop(t, "remove", Listed(t) \ manifest[t])
                     /\ result' = [result EXCEPT ![t] = "ok"]
                ELSE Goto(t, "pick") /\ UNCHANGED <<todo, result>>

\* Mutant of Break: a rollback does not count as a failure.
BreakUnlessRolledBack(t, r) ==
    /\ IF r = "rolled_back" THEN Loop(t, "remove", Listed(t) \ manifest[t])
                            ELSE Goto(t, "done") /\ UNCHANGED todo
    /\ result' = [result EXCEPT ![t] = r]

\* "break": the processes still to do keep the status that the handler gave them.
Break(t, r) ==
    /\ Goto(t, "done") /\ UNCHANGED todo
    /\ result' = [result EXCEPT ![t] = r]

\* Mutant of Fail: the row is not told.
FailSilently(t) ==
    /\ UNCHANGED <<rows, faults>>
    /\ Break(t, "failed")

\* What the task writes of a failed process; whether it is written is not checked.
Fail(t) ==
    /\ \E ok \in BOOLEAN : Write(SetStatus(t, current[t], "failed"), ok)
    /\ Break(t, "failed")

\* In an update, the processes that were there before.
Existed(t) == kind[t] = "update" /\ ids[t][current[t]] # t

\* Env vars and pack build.
Build(t) ==
    /\ pc[t] = "build"
    /\ \/ Fail(t)
       \/ /\ Goto(t, IF Existed(t) /\ current[t] \notin Web THEN "stop_worker" ELSE "start")
          /\ UNCHANGED <<rows, faults, todo, result>>
    /\ UNCHANGED <<cont, current>> /\ Background

StopWorker(t) ==
    /\ pc[t] = "stop_worker"
    /\ Stop(current[t])
    /\ Goto(t, "start")
    /\ UNCHANGED <<rows, todo, current, result>> /\ Background

\* rolling_update_process writes the status "running" itself: the new version
\* serves, or what was there before is kept; or the process failed, and the
\* container is the old one, the new one, or none.
Made(t, st) == [cont EXCEPT ![current[t]] = [by |-> t, st |-> st]]

Roll(t) ==
    /\ pc[t] = "start" /\ Existed(t) /\ current[t] \in Web
    /\ \/ /\ cont[current[t]].st # "none"
          /\ cont' = Made(t, "running")
          /\ rows' = SetRunning(t, current[t])
          /\ Advance(t)
          /\ UNCHANGED faults
       \/ /\ \E ok \in BOOLEAN : Write(SetStatus(t, current[t], "running"), ok)
          /\ Break(t, "rolled_back")
          /\ UNCHANGED cont
       \/ /\ cont' \in {cont, Made(t, "created"), Made(t, "running"),
                          [cont EXCEPT ![current[t]] = NoContainer]}
          /\ Fail(t)
    /\ UNCHANGED current /\ Background

\* start_process: the name must be free, and the container may not start.
Start(t) ==
    /\ pc[t] = "start" /\ ~(Existed(t) /\ current[t] \in Web)
    /\ \/ /\ cont[current[t]].st = "none"
          /\ cont' = Made(t, "running")
          /\ Goto(t, "register")
          /\ UNCHANGED <<rows, faults, todo, result>>
       \/ /\ \/ cont' = cont
             \/ cont[current[t]].st = "none" /\ cont' = Made(t, "created")
          /\ Fail(t)
    /\ UNCHANGED current /\ Background

\* Whether the row was updated is not checked.
Register(t) ==
    /\ pc[t] = "register"
    /\ \E ok \in BOOLEAN : Write(SetRunning(t, current[t]), ok)
    /\ Advance(t)
    /\ UNCHANGED <<cont, current>> /\ Background

\* After a success, and only then, the processes that left an update's manifest
\* go.  (A deployment deleted all rows beforehand.)
Remove(t) ==
    /\ pc[t] = "remove"
    /\ \/ /\ kind[t] = "deploy" \/ todo[t] = {}
          /\ Loop(t, "done", {})
          /\ UNCHANGED <<cont, faults, current>>
       \/ /\ kind[t] = "update"
          /\ \E p \in todo[t] : Stop(p) /\ current' = [current EXCEPT ![t] = p]
          /\ Goto(t, "delete_row") /\ UNCHANGED todo
    /\ UNCHANGED <<rows, result>> /\ Background

DeleteRow(t) ==
    /\ pc[t] = "delete_row"
    /\ \E ok \in BOOLEAN : Write(ById(t, current[t], NoRow), ok)
    /\ Loop(t, "remove", todo[t] \ {current[t]})
    /\ UNCHANGED <<cont, current, result>> /\ Background

\* A second task waits for the first: should it panic, all rows are "failed".
Panic(t) ==
    /\ pc[t] \in InBackground
    /\ rows' = [p \in Procs |-> IF rows[p].id = "none" THEN NoRow
                                ELSE [rows[p] EXCEPT !.status = "failed"]]
    /\ Loop(t, "done", {})
    /\ result' = [result EXCEPT ![t] = "failed"]
    /\ UNCHANGED <<cont, faults, current>> /\ Background

HandlerStep(t) == StopExisting(t) \/ DeleteRows(t) \/ Save(t) \/ CreateRows(t)
                    \/ DefineRows(t) \/ Attach(t)

TaskStep(t) == Pick(t) \/ Build(t) \/ StopWorker(t) \/ Roll(t) \/ Start(t) \/ Register(t)
                 \/ Remove(t) \/ DeleteRow(t)

-----------------------------------------------------------------------------
(* The CLI and the server                                                   *)

\* wait_until_running: any answer but these two means another round.
Poll(t) ==
    /\ cli[t] = "waiting"
    /\ DerivedStatus \in {"running", "failed"}
    /\ cli' = [cli EXCEPT ![t] = DerivedStatus]
    /\ UNCHANGED <<dataVars, taskVars>>

\* Nothing resumes the tasks of a server that died.
ServerCrash ==
    /\ \E t \in Requests : InFlight(t)
    /\ pc' = [t \in Requests |-> IF InFlight(t) THEN "lost" ELSE pc[t]]
    /\ UNCHANGED <<dataVars, kind, manifest, todo, ids, current, result, cli>>

Next ==
    \/ \E t \in Requests : \/ Deploy(t) \/ Update(t) \/ HandlerStep(t)
                           \/ TaskStep(t) \/ Panic(t) \/ Poll(t)
    \/ ServerCrash

\* Handlers and tasks are polled by the runtime, and the CLI polls in a loop.
Fairness == \A t \in Requests :
    WF_vars(HandlerStep(t)) /\ WF_vars(TaskStep(t)) /\ WF_vars(Poll(t))

Spec == Init /\ [][Next]_vars
FairSpec == Spec /\ Fairness

-----------------------------------------------------------------------------
(* Properties                                                               *)

AtRest == \A t \in Requests : ~InFlight(t)
Lost(t) == pc[t] = "lost"

\* Once everything is over, and no call failed and no server died, every
\* container has a row, and a row that says "running" names the container that
\* runs, unless the last update of the process was rolled back: there may have
\* been nothing to go back to.
RowsDescribeContainers ==
    (AtRest /\ faults = 0 /\ \A t \in Requests : ~Lost(t))
    => \A p \in Procs :
         /\ cont[p].st # "none" => rows[p].id # "none"
         /\ \/ rows[p].status # "running"
            \/ cont[p] = [by |-> rows[p].container, st |-> "running"]
            \/ \E t \in Requests : result[t] = "rolled_back" /\ current[t] = p

\* Processes that left the manifest are stopped and deleted only when every
\* process of the new manifest runs in a container of this very request,
\* whichever calls fail (apps.rs: if !failed && !rolled_back).
RemovedOnlyOnSuccess ==
    \A t \in Requests : pc[t] \in {"remove", "delete_row"} =>
        \A p \in manifest[t] : cont[p] = [by |-> t, st |-> "running"]

\* The CLI never takes the status of the previous version for an answer: the
\* handler marks the rows before it answers, so whatever the CLI reads before the
\* task has come to its end is "building".
NoEarlyAnswer ==
    \A t \in Requests : cli[t] \in {"running", "failed"} =>
        pc[t] \notin {"pick", "build", "stop_worker", "start", "register"}

\* The CLI gets an answer, unless a task stopped before its last process, a
\* call failed or the server died.
Answered == \A t \in Requests :
    (cli[t] = "waiting")
    ~> \/ cli[t] # "waiting"
       \/ faults > 0
       \/ \E u \in Requests : Lost(u) \/ (todo[u] # {} /\ result[u] # "none")

\* What the CLI promises: it says so when the build or the deployment failed.
AlwaysAnswered == \A t \in Requests :
    (cli[t] = "waiting")
    ~> (cli[t] # "waiting" \/ faults > 0 \/ \E u \in Requests : Lost(u))

=============================================================================
