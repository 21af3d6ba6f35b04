# PaasTech: TLA+ models and proofs

PaasTech is a small platform-as-a-service: a CLI uploads an archive, an actix
server builds an image per process with `pack`, starts containers with Docker,
keeps its registry in PostgreSQL and lets Traefik route to what runs.  The code
is sequential to read, and every function of it is a sequence of awaited calls to
Docker and PostgreSQL, with nothing that keeps two of those sequences apart: no
lock, no lease, no state machine in the database.  What goes wrong goes wrong
between two calls.  The models here make each such call a step.

## The system

| Part | State | Operations | Talks to |
|---|---|---|---|
| HTTP handlers, `src/handlers/apps.rs` | none of their own | upload, update, stop, restart, delete, status | registry, scheduler; spawn background tasks |
| Background tasks, `tokio::spawn` in `apps.rs` | in memory only: manifest, rows, position in the loop | build and start each process, roll an existing web process | registry, scheduler |
| Scheduler, `src/scheduler/` | none; Docker holds the containers, found by NAME | start, stop, restart, inspect, rolling update | Docker |
| Watcher, `src/scheduler/watcher.rs` | position in its pass | every 5 s: restart what exited, recreate what is missing | registry, Docker |
| Registry, `src/registry/`, `database/init.sql` | `projects`, `applications`, `application_processes`, env vars | single statements, by id | PostgreSQL |
| Resources, `src/handlers/resources.rs` | `services`, `application_services`, their containers | create, update, start, stop, delete, attach | registry, Docker, Garage |
| Garage, `src/garage.rs` | one shared S3 container, `s3_instance`, `s3_buckets` | ensure running, create and delete buckets and keys | Docker, Garage's admin API |
| Projects, `src/handlers/projects.rs` | `projects`, a Docker network each | create, delete, env | registry, Docker |
| Manifest and build, `src/engine.rs` | the archives and folders in `/tmp/uploads` | save, extract, parse, validate, expand replicas, run `pack` | file system, Docker's images |
| CLI, `cli/src/` | none | sends requests; after a deployment polls the status | the server |

Two places hold the truth about a process, and nothing ties them together: its
row (`status`, `container_id`) and the containers with its name
`paastech-<project>-<app>-<process>`, to which an update adds
`...-canary-<seconds>` and `...-old-<seconds>`.  A handler, a background task and
the watcher all write both.

What is hard in it, and where (the list with one line per hazard is under
`hazards` in `PROJECT.json`):

* a rolling update passes the production name from one container to the next in
  fifteen calls, any of which may fail, and may have been carried out all the
  same; the server may die between any two of them and nothing resumes the update
  (`rolling.rs`, `apps.rs:529`);
* two updates of one process, an update and a delete, an update and the watcher
  work on the same names (`rolling.rs:294`, `watcher.rs:144`);
* the watcher acts on what it inspected, not on what is there when it acts
  (`watcher.rs:141`); stop and remove are two calls (`scheduler/mod.rs:263`);
* rows that stay `building` are looked at by nobody, and make the CLI wait for
  ever (`apps.rs:259`, `main.rs:117`);
* a deployment over an existing application is four statements and as many Docker
  calls, without a transaction (`apps.rs:134-203`);
* a service's container is started, and stopped, before its row says so, and a
  handler believes the status it read at first (`resources.rs:1208`, `:1281`); a
  create does it inside a transaction that a crash rolls back (`resources.rs:711`);
* the one Garage is looked for and then started, without a lock, and keeps its
  data in the container that the next start removes (`garage.rs:34`);
* what is built and started is handed over by names that others can use too: the
  archive's (`engine.rs:108`), the image tag's (`apps.rs:231`), the container's;
* a project is deleted call by call while others work in it, which have read its id,
  and its deletion ends by name (`handlers/projects.rs:95`, `:145`); its environment
  variables are read, and all written back, in two requests
  (`cli/src/commands/projects.rs:175`).

What makes each part correct:

* rolling update: the service is never interrupted; only a version that was
  healthy in production is registered; a rollback leaves the old version and the
  old row; nothing is left behind;
* watcher: a process that should run is brought back or declared failed; one that
  should not run is left alone;
* stop, restart, delete: afterwards the row and the containers say the same;
* deployment: rows and containers agree; processes go only when the new manifest
  runs; who waits for an answer gets one, and the right one;
* resources: a service that is said to run has a container, and a container has a
  row by which it can be found; who is attached has the variables;
* Garage: what `s3_instance` says is what runs; every resource has its bucket, and
  every bucket its resource; the next request recovers from a failed one;
* uploads: a container runs the code of the request that started it; what the
  manifest's checks accept can be deployed; no folder stays behind;
* projects: nothing of a deleted one stays; the rows of one that exists tell what
  runs in it; what is done in one project does not reach another; a variable that was
  set stays set and reaches the containers.

## Modules

`ProcessState` is what all the actors share about ONE process: the containers by
name (`cont`), the row (`row`) and the version that the mutable image tag points
to (`tag`).  The calls are operators on it.  A call succeeds, or is refused by what
it finds (a name that is taken, an unforced remove of a running container), or is
hit by a FAULT: the caller is told of an error, and the effect may or may not have
taken place.  `blamed` remembers on which names faults fell, so that properties
can say exactly which failures excuse what.

`RollingUpdate` (on `ProcessState`) is `Scheduler::rolling_update_process` with
the parts of the update handler and task around it.  `pc[t]` is the call that
update `t` makes next; each action is one call with its success, its error branch
and the cleanup that the branch leads to.  `outcome[t]` is what the function is
going to return: `ok`, `rolled_back`, `failed`, and `unregistered` while the
rollback after a failed registration has not renamed the old container back yet.
`ContainerExits` and `ServerCrash` are the environment.  Three observers, read by no
step, serve the properties: `passed` (updates whose production container answered
its health probe), `expectUp` and `blamed`.

`Watcher` (on `ProcessState`) is one pass of the watch loop as it meets the
process; `wpc` is its next call.  `Requests` (on `ProcessState`) is the handlers of
stop, restart and delete, with `rpc[r]` for the request of client `r`.
`ProcessControl` composes the three on one process, interleaved call by call, and
lets the server crash and come back: updates are lost, handlers' clients get an
error, and the watcher starts over.

`Deployment` is a level higher: an application with several processes,
`handle_upload` and `update` row by row, the background task process by process,
the CLI that polls `derived_status`.  What `RollingUpdate` does in a dozen steps is
the one step `Roll` here, with its three outcomes.  `ids[t][p]` keeps the row that
a request listed or inserted, because the task later writes by id.

`Resources` is about the services with a container each, on ONE display name in one
project.  The service may be deleted and made again under the same name; each time
it has a fresh id, which is also the container's name.  `row` is the row of that
display name with its attachments, `cont[i]` the container of id `i`, `env[a]` the
service that the variables of application `a` name.  A client sends one request at a
time, and `pc[c]` is the next call of its handler, in the code's order:
`create_container`, `start_container` and `commit` (create) or `mark_running`
(start, and `ensure_manifest_resource_attached` of a deployment); `stop_container`,
`remove_container` and `mark_stopped` (stop) or `delete_row` (delete); `patch` and
`link` for the attachments.  The transaction of a create is open from `insert` to
`commit`: its row is not visible, but another insert of the name waits for it
(`Uncommitted`).  `blamed` holds the services on which a call failed, with the phase
(`start`, `stop`) of the handler; `crossed` those on which a start and a stop or a
delete were in progress at once.  Both are read by no step.

`Garage` is `ensure_running`, `start_garage_container` and what comes before and
after them when an S3 resource is made or deleted.  An instance is named after the
request that made it, which stands for its token and its port; `config` is the
token in the file that the container mounts and reads when it starts.  With
`Concurrent = FALSE` requests come one after the other.

`Resources` and `Garage` stand alone: `Deployment` calls the first before its answer,
for each resource of the manifest (`Deploy` in `Resources` is that call).

`Handover` is what the update of a process promises, without containers, names or
calls: a set of versions that serve, the version that the registry names, and updates
that are taken up, prove their version, adopt it, retire others and conclude with one
of the three reports.  What serves is never retired before something proven serves,
nor is the registered version; an update concludes with `ok` only when it is the
registered one, and not with `ok` only when it is not, unless the registry failed
(`doubt`).  `RollingUpdate` implements it under the mapping at its end (`H`):
`ServingVersions` are the versions of the routed containers that are `Live`,
`Phases` folds some fifteen program points into `idle`, `busy`, the reports and
`lost`, and `Doubtful` says that a registry call was hit by a fault.

`Uploads` goes through all of it once more for the DATA: whose files an archive, a
folder, an image tag and a container hold.  `archive[f]` and `folder[f]` are sets of
requests, because two that write one file may mix; `image[t]` and `cont[n]` likewise.
A name is a sequence of words, and hyphens that join words are not told from hyphens
in them: `TagOf` and `NameOf` do what `format!("{}-{}")` does.  `pc[r]` follows a request
from `write` (`save_multipart_file` after `File::create`, which `Receive` does)
through `extract`, `load` and `prepare` (the rows) in the handler to `build`,
`tag`, `start` and `finish` in the task; an `orphan` is a build that outlives the
server.  `Lose` and `Recreate` are a container that vanishes and the watcher.  The
observers say what may excuse a request: `met` (another one on the way with its archive or
application, or with a tag among those that it uploads, has loaded or has found; or a
folder left behind), `hit` (a fault, or a name that was taken before: `Blocked`), `left`
(folders that a failed extraction or a crash left), `settled` (succeeded, and nobody
came since).  A request that finds a folder of its archive's name may load the manifest of
another one from it, and then makes tags that nobody could tell from what it uploads:
whom that concerns, `Touch` says.

`Projects` is the rows and networks of the default project and of one more, which may
be deleted and made again under its name with another id, and in each project at most
one application and one service.  `id[r]` is the project that the request read first
(`ProjectScope`) and works with from then on.  The deletion is `list`, `stop_app`,
`services`, `stop_service`, `disconnect`, `remove_network`, `delete_row`; an upload
`stop_old`, `delete_rows`, `save`, `create_row`, `read_env`, `ensure_network`, `start`,
`register`; a service `insert`, `service_network`, `start_service`, `commit`, in a
transaction that holds a lock on the project's row; an S3 resource `insert_s3`,
`connect_garage`; a new variable `get_env`, `put_env`, `commit_env`.  Docker keeps a
network that is in use, which the deletion does not look at.  `shared[i]` are the
variables of project `i`, each named by the request that set it, and `given[i]` those
that its container got.  Observers again say what may excuse what: `mixed` (a deletion
met another request or the watcher in this project), `hurt` and `leaked` (a fault, or
two uploads or services at once, may have left it half done, or left what no row
tells of), `contended` (two variables at once), `disturbed` (for a request).

`RollingUpdateProofs`, `HandoverProofs` and `ControlProofs`, each on the one before,
`DeploymentProofs`, `ResourcesProofs`, `GarageProofs`, `ProjectsProofs` and
`UploadsProofs` have the theorems.  The `MC...` modules instantiate, and `MCUploads` lists
what may be uploaded.

## What each run checks

| Run | Configuration | Shows |
|---|---|---|
| `rolling` | two updates one after the other, 3 faults, unbounded exits and crashes; 874,308 states | the properties of the rolling update below, and the refinement of `Handover` |
| `rolling_concurrent` | two updates at once, no fault | counterexample: one rollback removes what the other restored |
| `watched` | an update, the watcher, one client; 2 exits, 1 fault, 1 crash | `ServiceKept`, `AgreementAtRest`, `Heals`, `BuildingEnds` |
| `control_delete` | an update, the watcher, one client, nothing fails | counterexample: deleted, yet a container is left |
| `deployment` | two processes, two requests one after the other, 1 fault, crashes | the four properties of deployments, and that the CLI gets its answer |
| `deployment_polling` | one request, no fault | counterexample: the CLI polls for ever |
| `resources` | two clients with any number of requests, two ids, 1 fault or crash | `RunningHasContainer`, `ContainerHasRunningRow`, the inductive invariant |
| `resources_linked` | one client, nothing fails | counterexample: attached, without variables |
| `garage` | three resources one after the other, 3 faults or crashes | the four properties of Garage |
| `garage_shared` | two first resources at once, nothing fails | counterexample: a resource without its bucket |
| `uploads` | two requests at a time out of seven uploads, over nothing or what one of them deployed before; 2 faults, crashes or lost containers | `RunsItsCode`, `SettledRunsItsCode`, `SucceedsIffValid`, `FoldersRemoved` |
| `projects` | three requests of any kind in two projects, and the watcher; 1 fault or crash; 959,393 states | `GoneLeavesNothing`, `Accounted`, `VariablesKept`, `VariablesReachContainers`, `UndisturbedSucceeds` |

The properties that hold:

* `ServiceKept`: as long as no routed container exits by itself, a container that
  was healthy (or ran before) is running in every state of every update.  It holds
  under any failure of any call and a crash at any point, because the old
  container is renamed and kept until the new one is healthy AND registered.
  `ServiceInv` is its inductive form.
* `RegisteredServes`: the same for what the registry says: the version that the row
  names gets traffic at every moment, as long as no write to the registry fails.
* `HandsOver`: every behaviour of the update, with its failures, is one of `Handover`;
  `HandoverInv` is the invariant that the proof of it needs.
* `RegisteredPassed`: what is registered passed its own probe in production, and
  runs the image of its own update.
* `NoLeftovers`: canaries and old containers that survive an update are exactly
  those on which a call failed.
* `RowDescribesProd`: between updates the row names the running container, unless
  a call on that name or the registry failed.
* `AgreementAtRest`: sequences of non-overlapping updates, requests and watcher
  passes keep the row and the containers together, with one exception that it names:
  the watcher recreates a container, which exits before the pass can register it, so
  the row says `failed` of the container before; an update that is rolled back then
  says `running` (`rolling.rs:137`), and a later pass restarts what the row does not
  name.  It takes two updates and an exit, more than `watched` has; the attempt to
  prove the property for any number of them found it.
* `Heals`: the watcher brings a process back or gives it up.  Two excuses are
  the code's: a row that never got an image is left `crashed` for ever, and a
  container that was created but not started (a failed call or a crash in between)
  is neither exited nor missing, so the watcher does nothing.
* `BuildingEnds`, `Answered`: every row leaves `building`, and the CLI is
  answered, except where the code lets go of it: a registry call that failed, a
  task that died or stopped before its last process.
* `RowsDescribeContainers`, `RemovedOnlyOnSuccess`, `NoEarlyAnswer`: see the
  comments in `Deployment`.
* `RunningHasContainer`: a service whose row says `running` has a container, or the
  handler that removed it is about to write so.  Without one the service would be
  stuck: start answers 409, stop and delete 500.  The property says what it takes to
  get there: a stop or a delete that failed half-way, or one that overlapped with a
  start.  Two deployments that both start the service, a create against a
  deployment, failed starts, two stops cannot: the names of containers and the
  unique display name keep them apart.
* `ContainerHasRunningRow`: a container that nobody works on belongs to a service
  whose row says `running`.  Otherwise nothing finds it again: start fails on its
  name, delete does not look for it.  It takes a start that failed half-way (the
  commit of a create counts), or an overlap, to get there; a failed stop does not.
* `InstanceDescribesGarage`, `AloneSucceeds`: whatever the requests before left
  behind (a container without a row, not started, without a layout, exited), a row
  of `s3_instance` is true of the Garage that is there, and a request that nothing
  disturbs succeeds.  This rests on the stop before the remove, and on the rows being
  deleted before the container is replaced.
* `BucketsServed`, `NoForgottenBucket`: resources have buckets and buckets have
  resources, until Garage is down, or taken for down by a failed inspect, once: the
  next request makes a new and empty one.

* `RunsItsCode`: a container runs the files of the request that started it, unless
  that request met one with its archive name or its tag, or found a folder left
  behind; then it can run another one's files, or a mixture.
* `SettledRunsItsCode`: after a success the rows, the tags and the containers are those
  of the manifest, and stay so, also through recreations by the watcher, until another
  request for the application or one of its tags arrives.
* `SucceedsIffValid`: what the manifest's checks accept can be built, started and
  registered; what they refuse stops nothing.  Repeated names, also those that
  replicas make, are what a check is needed for.
* `FoldersRemoved`: each of the handlers' many ways out removes the folder, but for a
  failed extraction.  (The archives themselves are never removed.)
* `GoneLeavesNothing`: a deletion that met nobody leaves no container and no network,
  except that of a project that Garage was connected to, also when one before it
  died half-way.
* `Accounted`: at rest the rows of a project that no fault and no deletion touched
  tell what runs in it, whatever was done in others.  What may touch it from
  another project is named there: a row that cannot be inserted makes
  `Registry::delete` remove the DEFAULT project's application of that name.
* `VariablesKept`: a variable that was set stays set, and none comes from nowhere, as
  long as no two are set at once.
* `VariablesReachContainers`: what was set before an upload is in the container that
  the upload, or later the watcher, starts.
* `UndisturbedSucceeds`: a request fails for a reason: a fault, another request for
  its project, the watcher.

The counterexamples are what the code does, and are listed under `findings`:

1. `rolling_concurrent`.  Nothing prevents two updates of a process; removing by
   name then removes someone else's container.
2. `control_delete`.  Containers created after the handler of delete passed
   outlive the application, for an UPDATE that matches no row is no error.
3. `deployment_polling`.  The loop breaks, later rows stay `building`,
   `derived_status` says `building`.
4. `resources_linked`.  The rows of the processes are replaced by an upload, and the
   connection variables with them.
5. `garage_shared`.  Two requests find no instance; the second one's
   `start_garage_container` removes the container of the first, bucket and all.

More that the models have, and that the premises of the properties above leave
out.  Updating a stopped process whose canary is unhealthy sets the row to `running`
(`rolling.rs:137`).  The watcher that inspects between the stop and the unforced
remove of a stop request finds `exited` and restarts, after which the remove is
refused and the row set to `stopped` (`scheduler/mod.rs:263`).  An update that is rolled
back leaves its image under the tag, and a later recreation by the watcher runs it.
Two uploads of one application at once can leave a container without a row; the watcher
can recreate a container that an upload or a deletion has just stopped.  A deletion
that ends when another project has the name deletes that one's row, and an upload that
goes on after the deletion of its project makes its network and container again.  Of
two variables set at once one is lost, or one of the two requests is refused.

### Bounds

* Updates and requests: two, so that one meets whatever the one before left
  behind (leaked canaries, a lost update's containers, an old row).  One update
  suffices against the watcher and a client, where the number of actors matters.
* `OneByOne` in `watched`: the client asks either before the update, or when all that
  happened did so one after the other and without a failure (`Calm`), which is where
  `AgreementAtRest` speaks; the other interleavings of an update and a client's request
  are in `control_delete`.
* Faults: three in `rolling` (enough to fail all three registry writes of an
  update, or a forward call and both calls of its rollback), one in the composed
  runs and in `projects` (with two, 2,068,761 states, nothing else is found), two in
  `uploads`, so that one request fails on what another left; none where the point is
  that nothing fails.
* Exits and crashes are unbounded in `RollingUpdate`; two and one in
  `ProcessControl`, so that a container exits again after it was brought back.
* Processes: a web process and a worker; a manifest is any non-empty subset, so
  that processes are added, kept and removed.
* Resources: two clients, for the hazards are between two handlers, and two ids, so
  that a service is made again while the container, a handler or the variables of
  the one before it are still there.  The proofs have no such bound.
* Garage: three requests, so that one meets what two before it left; three faults.
* Uploads: two archive names, two projects, applications `a` and `a-b`, processes
  `web` and `b-web`: the shortest names that coincide when they are joined, and a
  manifest with replicas, one with twins, an empty one and none.  Two requests at a time
  and one before them.  A third can load, from a folder that one left, a manifest that
  touches what the other is at work on; the proofs, which have no bound on the requests,
  are what deals with that.
* Projects: three requests, so that a project can be deleted and made again, or two
  can meet, while a third works in it; two ids for the one name; one application with
  one process and one service, which the deletion's loops would repeat.
* `MaxAttempts = 3` is the code's own.

Symmetry is used in `resources`, `garage`, `uploads` and `projects`, which check
invariants only: clients, ids, applications and requests are compared with nothing but
each other.

### Fairness

`ControlFairness` and `Deployment!Fairness` are weak fairness of the server's own
work: an awaited call returns and the tokio runtime polls the task again; the
watch loop and the CLI's polling loop never end.  Weak is enough, because a step
that a task can take stays enabled until the task takes it.  Requests, exits,
faults and crashes have no fairness.  `RollingUpdate` alone is checked for safety
only, and so are `Resources`, `Garage`, `Uploads` and `Projects`, in which no property
needs progress.
`CHECK_DEADLOCK FALSE` is set everywhere: a system without requests, or
whose requests have all been served, is at rest.

## What is proved

The theorems are checked by the TLA+ proof system.  In `RollingUpdateProofs`, for
every set of `Updates`, every `Base`, every `MaxFaults`, from `StateAssumption`:

* `TypeCorrect`: `Spec => []TypeOK`, also for `Concurrent = TRUE`.  `CallsTyped`,
  `StatusTyped` and `RunningTyped` are about the calls, the rest is one step per
  action.
* `ServiceInvariant`, `ServiceIsKept`: if `Concurrent = FALSE`, `Spec => []ServiceInv`,
  and so `Spec => []ServiceKept`.

`ServiceKept` alone is not inductive.  The rollback removes whatever has the
production name, so one has to know that another container serves then; the old
container is stopped, so one has to know that the new one serves then.
`ServiceInv` adds that at most one update is in flight (`OneInFlight`), that an
update's own container is nowhere but under the production name (`OwnIsProd`),
that while that container can still be removed another routed one serves
(`SpareServes`), and that once it is registered it serves (`NewServes`).  Most
actions touch only a canary, the row or the tag: `QuietStep` deals with them at
once.  `MoveOldKeeps`, `NewKeeps`, `ProbeNewKeeps`, `RegisterKeeps`,
`RetireOldKeeps`, `RestoreOldKeeps` and `EnvironmentKeeps` are the others.  The
assumption `Concurrent = FALSE` is needed: `rolling_concurrent` is the
counterexample without it.

In `HandoverProofs`, under the same assumptions and `Concurrent = FALSE`:

* `HandoverInvAlways`, `RegisteredServesAlways`: `Spec => []HandoverInv`, and so
  `Spec => []RegisteredServes`.
* `ImplementsHandover`: `Spec => H!Spec`, which the run `rolling` checks as `HandsOver`.

The invariant of the refinement is `TypeOK /\ ServiceInv /\ HandoverInv`.  The last has
what `ServiceInv` does not know, namely WHOSE container serves: the update's own has
the production name from its creation on (`ProdIsOwn`); while that one can be removed
the registered version serves under another name (`SpareIsRegistered`); a version is
proven from its probe on, and not before (`ProvenInTime`); and the report that is going
to be made fits the step (`OutcomeFits`) and the row (`RowFits`).  Each call is one lemma
that shows `HandoverInv'` and `[H!Next]_(H!vars)` at once (`HandsOn`): calls on canaries,
failed ones and builds change nothing that the handover sees (`SameService`,
`StaysBusy`); the probe of the production container is `Prove`, a write of the registry
`Adopt` or `Doubt`, the calls that remove or rename `Retire`, `Report` is `Conclude`, an
exit `Exit` and a crash `Die`.

In the second part of `HandoverProofs`, again for `Concurrent = FALSE`:

* `RegisteredPassedAlways`: `Spec => []RegisteredPassed`.  `ImageInv` adds that every
  container has the image of its maker, because the tag is the update's own from its
  build to its last creation of a container (`TagOwn`), for which one has to know that
  no other update is in flight.
* `NothingLeftOver`: `Spec => []NoLeftovers`.  `TidyInv` follows the canary and the
  container moved aside through the steps of the update: each cleanup call achieves
  what the next one needs, or is blamed (`CreateEffect`, ..., `RenameEffect` say what a
  call does or whom it blames).
* `RowDescribesProduction`: `Spec => []RowDescribesProd`, from the two invariants
  together: the registered version serves under some name, and between updates no
  name but the production one is left.

In `DeploymentProofs`, for every finite set `Procs`, every `Web`, every set of
`Requests` and every `MaxFaults`, from `DeploymentAssumption`:

* `DeploymentTyped`: `Spec => []TypeOK`, also for `Concurrent = TRUE`.  `CurrentInv`
  says that a task which works on a process has one.
* `RemovedOnlyOnSuccessAlways`, `NoEarlyAnswerAlways`: if `Concurrent = FALSE`,
  `Spec => []RemovedOnlyOnSuccess` and `Spec => []NoEarlyAnswer`.

`AloneInv` is the invariant.  `LoopInv` says what a loop has still to visit; `RunInv`
that the processes which the task is through with run in containers of its own, from
which the first property follows at the loop's end; `MarkInv` that those it is not
through with are marked `building`, for which the ids an update listed must still be
those of the rows while it marks them; `CliInv` that the CLI waits until the loop is
over, since each poll meets a marked row.  `Alone` reduces every step to the request
in flight, and there is one lemma per step (`CreateRowOwn`, ..., `RemoveOwn`).

In the second part of `DeploymentProofs`, again for `Concurrent = FALSE`:

* `RowsDescribeContainersAlways`: `Spec => []RowsDescribeContainers`.  `FineInv` says
  of every process, as long as nothing failed, that its container has a row, and that
  the row tells the truth or is about to go (`Stale`); `StopInv` that no row goes while
  its container is there; `IdsInv` that the ids the update listed find the rows that
  it removes.  A step that touches no container and writes no `running` is `Quiet`.

In `ResourcesProofs`, for every set of `Clients`, `Ids` and `Apps` and every
`MaxFaults`, from `ResourcesAssumption`:

* `ResourcesTypeCorrect`, `ResourceInvariant`: `Spec => []TypeOK` and
  `Spec => []ResourceInv`.
* `RunningServiceHasContainer`: `Spec => []RunningHasContainer`.
* `ContainersAreAccounted`: `Spec => []ContainerHasRunningRow`.

Neither property is inductive.  To know that a MARK of a status is true when it is
written one has to know that nobody undid the call before it: `Made` and `Emptied`
say that who is about to write `running` has a container, and who is about to write
`stopped`, or to delete the row, left none.  What keeps them true is `Apart`: a start
and a stop that are both at work on a service have `crossed`.  `RowKept` says that
who starts a service still has its row, `OneTransaction` that a create's commit
meets no other row of that name, `Found` that a container has a running row or a
starter; `Found` gives `ContainerHasRunningRow`.  `ResourceInv` is their conjunction,
which the run `resources` checks as well.  There is one lemma for each step of a
handler (`CreateContainerInv`, ..., `LinkInv`), each with one step for each part;
`TakeInv` deals with every request at once, since all it does is to take up a
service; `CrashInv` and `NobodyInv` are the rest.

In `ControlProofs`, for every finite or infinite set of `Updates` and of `Clients` and
every bound on faults, exits and crashes, from `ControlAssumption`:

* `ControlTypeCorrect`: `ControlSpec => []ControlTypeOK`.  With it comes `ReqFits`, that
  a handler at work knows what it was asked for.
* `AgreesAtRest`: `ControlSpec => []AgreementAtRest`.

The invariant, `ControlInv`, says on the premise of the property (`Quiet`: no two actors
overlapped, nothing failed, no crash) that at most one actor is at work, and what is there
at each of its steps: `UpdateAt`, `WatchAt`, `RequestAt`; and `Rested`, the property
itself, when nobody is.  There is one lemma for a step of each that is alone
(`LoneCanaryStep`, ..., `LoneWatch`, `LoneHandler`), on what the calls do that nothing hits
(`UnhitCreate`, ...).  `OneActor` is why it suffices: the steps mark as `overlapped` the
moment at which a second one is at work, which is about the number of them (`Few`, so
that it can be counted).

In `GarageProofs`, for every set of `Requests` and every `MaxFaults`, from
`GarageAssumption`:

* `GarageTypeCorrect`: `Spec => []TypeOK`, also for `Concurrent = TRUE`.
* `DescriptionCorrect`, `RecoveryCorrect`, `BucketsAccounted`, `ResourcesServed`: if
  `Concurrent = FALSE`, `Spec => []P` for `InstanceDescribesGarage`, `AloneSucceeds`,
  `NoForgottenBucket` and `BucketsServed`.  `garage_shared` is the counterexample to the
  last one without that.

`GarageInv` follows the request in flight (`Alone`).  `Fits` says what is there at each of
its steps whatever failed: no row of `s3_instance` while a new instance is made, which is
why a row is always true.  `Smooth` says what is there if nothing failed since it came, so
that its next call can be carried out; in particular that the stop went before the
remove.  `Served` says that a resource made without a failure has its bucket.  One lemma
for each call (`SelectInv`, ..., `DeleteRowInv`), for which `Answered` says whom a failed
call disturbs.

In `ProjectsProofs`, for every set of `Requests` and `Ids` and every `MaxFaults`, from
`ProjectsAssumption`, with requests, deletions, the watcher and crashes interleaved:

* `ProjectsTypeCorrect`: `Spec => []TypeOK`.
* `VariablesStay`, `VariablesArrive`, `ProjectsAccounted`, `UndisturbedDone`,
  `DeletionsTidy`: `Spec => []P` for `VariablesKept`, `VariablesReachContainers`,
  `Accounted`, `UndisturbedSucceeds` and `GoneLeavesNothing`.

All five rest on two invariants.  `KnownInv` has what the rows and the memory of a request
refer to: an id that was never used has nothing (`Fresh`), a row is of an upload of its
project (`RowFits`), and only one transaction holds a project (`LockFits`).  `CompanyInv`
has what the observers know: when two requests for a project are in flight (`Meet`) and one
is a deletion, the project is `mixed`, and so on (`Company`), and only a deletion takes a
project from under a request (`Placed`).  On these, each property has an invariant that
follows the steps of a request in a project which the property does not excuse: `VarsInv`
(what was read and is about to be written back is all there is, and containers got what
was set before), `AccountsInv` (what the rows tell is true, or about to be made true by the
one upload), `SmoothInv` (what the next call finds), `TidyInv` (what a deletion has removed
by now, and that every container has a row, or a transaction that will make one, by which
a deletion finds it).  A step of a request leaves every other project alone
(`WorkLocal`), which is half of each proof: `KeptElsewhere`, `AccountStays`, `TidyElsewhere`.

In `UploadsProofs`, for every set of `Requests`, of `Inputs` and of `Words` and every
`MaxFaults`, from `UploadsAssumption`, with requests, the watcher, lost containers and
crashes interleaved:

* `UploadsTypeCorrect`, `FoldersGo`: `Spec => []TypeOK` and `Spec => []FoldersRemoved`.
* `ItsCodeRuns`, `SettledKeepsItsCode`, `ValidSucceed`: `Spec => []P` for `RunsItsCode`,
  `SettledRunsItsCode` and `SucceedsIffValid`.

`KnownInv` has the types, and that every file, manifest and container is of a request that
came (`ArchiveFits`, `FolderFits`, `TaskFits`).  `LeftInv` says that a folder is one that a
request on the way will remove, or is `left`.  The other three need to know what a
request has to itself.  `ApartInv`: two requests in flight, one of which nobody met, have
no file, application or tag in common (`Apart`, `Away`), not even when one of them loads
a manifest that is not its own.  `OwnInv`: what an unmet request has written, extracted,
loaded, built and tagged is its own at each step (`Own`), which gives `RunsItsCode`.
`LoopInv` says which rows and images its loop has made (`Looped`), `SettledInv` that they
stay when it is through (`Settled`): a later request may only touch what is not
its own, and what the watcher recreates has a tag that nobody moved.  `SmoothInv` says of
one that nothing has hit that no other row or task has the name of one of its
processes (`NamesFree`) and that the calls to come find what they need (`CanPrepare`,
`CanLoop`); so it fails only where `Valid` refuses.  Each step was split in what it does to
the request itself (`WorkOwnFile`, `WorkOwnTag`, ...) and what it leaves alone for
the others (`RowsAlone`, `ContainersAlone`, `OthersAlone`).  What `FlattenSeq` returns, which
the names of replicas rest on, is a fact about a recursive function; `FlattenSeqIn` proves
it from the least number for which it would be wrong (`Least`).

Only model-checked: all liveness (`Heals`, `BuildingEnds`, `Answered`), which the prover
does not handle.  Of the runs that expect a violation there
is nothing to prove.

## What the models leave out

* Data: labels, ports, hosts; environment variables but those of a project.  That a
  port or an env var cannot be had is a failing step.  The seconds in the names of
  canaries are the
  update's identity; two updates in the same second are not modelled.
* Several applications and projects: what they share is in `Uploads` (names, tags,
  files) and `Projects` (rows, networks); `Deployment` is about one application in a
  project other than the default one.
* `Uploads`: all processes are web processes, since workers have the same names, tags
  and files; what a rolling update does is one step; a truncated upload is an archive
  that does not extract; the checks of one entry's fields are its flag `sound`.
* `Projects`: an update, which keeps to the rows and containers that exist; stop,
  restart and delete of an application, start and stop of a service; Traefik's own
  network when the server is not on localhost.
* Environment variables of a single process (`handlers/apps.rs`, `update_env`) and of a
  resource: they are replaced as those of a project are.  That an upload loses the
  connection variables is in `Resources`.
* Workers are stopped before their replacement starts; only web processes roll.
* A restart requested from Docker stops a container that runs before it starts it:
  two steps in `Watcher`.  Every other call to Docker is one step.
* `Heals` and the others are about one process; the watcher's pass over the
  other processes only delays it.
* `Resources`: connection profiles, the environment and the version of a service, its
  new display name, the network that is joined after the commit (it can only fail),
  an inspect after the start that fails and leaves `container_id` empty, the
  deletion of an application that is attached.  S3 resources are attached as the
  others are, and only their buckets are modelled.
* `Garage`: keys live and die with their buckets; a token and a port are one.
* The image catalogue, which is tables and requests to Docker Hub, routing and logging,
  the handlers that only read, and the CLI but for its polling and its
  read-modify-writes: they keep no state.

## Plan

Done: the rolling update, the watcher, the requests and their composition;
`Deployment`; `Resources` and `Garage`; `Handover` and its refinement; `Uploads`;
`Projects` with the environment variables; the proofs of the safety properties of all of
them.  Left, in this order:

1. `Deployment!Roll` shown to be what `Handover` allows, process by process.
2. The attachments of two applications against each other, and of S3 resources.
3. Environment variables of a process, against an upload that replaces its row.
