------------------------------- MODULE Garage -------------------------------
(***************************************************************************)
(* S3 resources: each has a bucket of its own in ONE Garage container that *)
(* the server starts on demand (garage.rs and start_garage_container), and *)
(* whose admin port and token it keeps in the table s3_instance.  The      *)
(* container has no volume: what it stores goes with it.                   *)
(***************************************************************************)
EXTENDS Naturals

CONSTANTS
    Requests,   \* requests to create an S3 resource; each names what it makes:
                \* the resource, its bucket, an admin token and port
    Nobody,
    MaxFaults,  \* bound on the number of faults and crashes
    Concurrent  \* may a request come while another one is served?

ASSUME GarageAssumption == /\ Nobody \notin Requests
                           /\ MaxFaults \in Nat
                           /\ Concurrent \in BOOLEAN

VARIABLES
    garage,     \* the container with the name CONTAINER_NAME
    config,     \* the token in the file garage.toml, which the container mounts
    instances,  \* the tokens (and ports) in the rows of s3_instance
    rows,       \* the S3 resources that have rows in services and s3_buckets
    pc,         \* pc[r]: what the handler that creates, later deletes, r does next
    using,      \* using[r]: the instance it talks to
    outcome,    \* outcome[r]: what the client that asked for r was told
    faults,     \* number of faults and crashes so far
    disturbed,  \* observer: requests during which a call failed, Garage exited, the
                \* server crashed or another request was served
    replaced    \* observer: was Garage ever down, or taken for down?

vars == <<garage, config, instances, rows, pc, using, outcome, faults, disturbed, replaced>>

\* by: who created the container and published its port; token: what the file said
\* when it started; layout: has a cluster layout been applied?
Container == [st : {"none", "created", "running", "exited"},
              by : Requests \cup {Nobody}, token : Requests \cup {Nobody},
              layout : BOOLEAN, buckets : SUBSET Requests]
NoContainer == [st |-> "none", by |-> Nobody, token |-> Nobody,
                layout |-> FALSE, buckets |-> {}]

Steps == {"select", "inspect", "forget", "stop_stale", "remove_stale", "configure",
          "create", "start", "wait_until_ready", "initialize_layout", "record",
          "create_bucket", "create_key", "save", "delete_bucket", "delete_row"}

TypeOK ==
    /\ garage \in Container
    /\ config \in Requests \cup {Nobody}
    /\ instances \in SUBSET Requests
    /\ rows \in SUBSET Requests
    /\ pc \in [Requests -> Steps \cup {"idle", "ended"}]
    /\ using \in [Requests -> Requests \cup {Nobody}]
    /\ outcome \in [Requests -> {"none", "ok", "error"}]
    /\ faults \in 0..MaxFaults
    /\ disturbed \in SUBSET Requests
    /\ replaced \in BOOLEAN

Init ==
    /\ garage = NoContainer
    /\ config = Nobody
    /\ instances = {} /\ rows = {}
    /\ pc = [r \in Requests |-> "idle"]
    /\ using = [r \in Requests |-> Nobody]
    /\ outcome = [r \in Requests |-> "none"]
    /\ faults = 0
    /\ disturbed = {} /\ replaced = FALSE

InFlight == {r \in Requests : pc[r] \in Steps}

-----------------------------------------------------------------------------
(* Calls                                                                    *)

\* can: the call would be carried out; ok: what the handler is told.  A call that
\* could be carried out and reports an error is a fault.
Answer(r, can, ok) ==
    /\ ok => can
    /\ IF can /\ ~ok
         THEN faults < MaxFaults /\ faults' = faults + 1 /\ disturbed' = disturbed \cup {r}
         ELSE UNCHANGED <<faults, disturbed>>

\* A call that is to change Garage, or what it stores.
OnGarage(r, can, after, ok) ==
    /\ Answer(r, can, ok)
    /\ \/ can /\ garage' = after
       \/ ~ok /\ UNCHANGED garage

Goto(r, to) == pc' = [pc EXCEPT ![r] = to] /\ UNCHANGED outcome

\* An error ends the request.
Then(r, ok, to) ==
    IF ok THEN Goto(r, to)
          ELSE pc' = [pc EXCEPT ![r] = "ended"] /\ outcome' = [outcome EXCEPT ![r] = "error"]

\* Garage answers on the port, and to the token, of instance t.
Reaches(t) == garage.st = "running" /\ garage.by = t /\ garage.token = t

-----------------------------------------------------------------------------
(* ensure_running and start_garage_container                                *)

\* A request is taken up.
Begin(r, step) ==
    /\ Concurrent \/ InFlight = {}
    /\ pc' = [pc EXCEPT ![r] = step]
    /\ disturbed' = IF InFlight = {} THEN disturbed ELSE disturbed \cup InFlight \cup {r}

Create(r) ==
    /\ pc[r] = "idle"
    /\ Begin(r, "select")
    /\ UNCHANGED <<garage, config, instances, rows, using, outcome, faults, replaced>>

\* Mutant of Select: the request does not look for an instance.
SelectNothing(r) ==
    /\ pc[r] = "select"
    /\ using' = [using EXCEPT ![r] = r]
    /\ Goto(r, "stop_stale")
    /\ UNCHANGED <<garage, config, instances, rows, faults, disturbed, replaced>>

\* SELECT ... LIMIT 1; without a row the request makes an instance of its own.
Select(r) ==
    /\ pc[r] = "select"
    /\ \E ok \in BOOLEAN :
         /\ Answer(r, TRUE, ok)
         /\ \/ \E t \in instances : using' = [using EXCEPT ![r] = t] /\ Then(r, ok, "inspect")
            \/ /\ instances = {}
               /\ using' = [using EXCEPT ![r] = r] /\ Then(r, ok, "stop_stale")
    /\ UNCHANGED <<garage, config, instances, rows, replaced>>

\* An inspect that fails says "unknown", which is not "running" either.
Inspect(r) ==
    /\ pc[r] = "inspect"
    /\ \E ok \in BOOLEAN :
         /\ Answer(r, garage.st = "running", ok)
         /\ Goto(r, IF ok THEN "create_bucket" ELSE "forget")
         /\ using' = IF ok THEN using ELSE [using EXCEPT ![r] = r]
         /\ replaced' = (replaced \/ ~ok)
    /\ UNCHANGED <<garage, config, instances, rows>>

\* Mutant of Forget: the rows of s3_instance are kept.
ForgetNothing(r) ==
    /\ pc[r] = "forget"
    /\ Goto(r, "stop_stale")
    /\ UNCHANGED <<garage, config, instances, rows, using, faults, disturbed, replaced>>

Forget(r) ==
    /\ pc[r] = "forget"
    /\ \E ok \in BOOLEAN :
         /\ Answer(r, TRUE, ok)
         /\ instances' \in (IF ok THEN {} ELSE {instances}) \cup {{}}
         /\ Then(r, ok, "stop_stale")
    /\ UNCHANGED <<garage, config, rows, using, replaced>>

\* Mutant of StopStale: a running container is not stopped first.
StopNothing(r) ==
    /\ pc[r] = "stop_stale"
    /\ Goto(r, "remove_stale")
    /\ UNCHANGED <<garage, config, instances, rows, using, faults, disturbed, replaced>>

\* What Docker answers to these two is ignored; it does not remove a container that
\* runs.
StopStale(r) ==
    /\ pc[r] = "stop_stale"
    /\ \E ok \in BOOLEAN :
         OnGarage(r, garage.st # "none",
                  [garage EXCEPT !.st = IF @ = "running" THEN "exited" ELSE @], ok)
    /\ Goto(r, "remove_stale")
    /\ UNCHANGED <<config, instances, rows, using, replaced>>

RemoveStale(r) ==
    /\ pc[r] = "remove_stale"
    /\ \E ok \in BOOLEAN : OnGarage(r, garage.st \in {"created", "exited"}, NoContainer, ok)
    /\ Goto(r, "configure")
    /\ UNCHANGED <<config, instances, rows, using, replaced>>

\* The file is written, and the image pulled.
Configure(r) ==
    /\ pc[r] = "configure"
    /\ \E ok \in BOOLEAN :
         /\ Answer(r, TRUE, ok)
         /\ config' \in (IF ok THEN {} ELSE {config}) \cup {r}
         /\ Then(r, ok, "create")
    /\ UNCHANGED <<garage, instances, rows, using, replaced>>

CreateContainer(r) ==
    /\ pc[r] = "create"
    /\ \E ok \in BOOLEAN :
         /\ OnGarage(r, garage.st = "none",
                     [NoContainer EXCEPT !.st = "created", !.by = r], ok)
         /\ Then(r, ok, "start")
    /\ UNCHANGED <<config, instances, rows, using, replaced>>

\* Starting what runs is no error, and changes nothing.
StartContainer(r) ==
    /\ pc[r] = "start"
    /\ \E ok \in BOOLEAN :
         /\ OnGarage(r, garage.st # "none",
                     IF garage.st = "running" THEN garage
                     ELSE [garage EXCEPT !.st = "running", !.token = config], ok)
         /\ Then(r, ok, "wait_until_ready")
    /\ UNCHANGED <<config, instances, rows, using, replaced>>

WaitUntilReady(r) ==
    /\ pc[r] = "wait_until_ready"
    /\ \E ok \in BOOLEAN :
         Answer(r, Reaches(r), ok) /\ Then(r, ok, "initialize_layout")
    /\ UNCHANGED <<garage, config, instances, rows, using, replaced>>

\* Version 1 of the layout can be applied once.
InitializeLayout(r) ==
    /\ pc[r] = "initialize_layout"
    /\ \E ok \in BOOLEAN :
         /\ OnGarage(r, Reaches(r) /\ ~garage.layout, [garage EXCEPT !.layout = TRUE], ok)
         /\ Then(r, ok, "record")
    /\ UNCHANGED <<config, instances, rows, using, replaced>>

Record(r) ==
    /\ pc[r] = "record"
    /\ \E ok \in BOOLEAN :
         /\ Answer(r, TRUE, ok)
         /\ instances' \in (IF ok THEN {} ELSE {instances}) \cup {instances \cup {r}}
         /\ Then(r, ok, "create_bucket")
    /\ UNCHANGED <<garage, config, rows, using, replaced>>

-----------------------------------------------------------------------------
(* The bucket and the resource                                              *)

CreateBucket(r) ==
    /\ pc[r] = "create_bucket"
    /\ \E ok \in BOOLEAN :
         /\ OnGarage(r, Reaches(using[r]) /\ garage.layout,
                     [garage EXCEPT !.buckets = @ \cup {r}], ok)
         /\ Then(r, ok, "create_key")
    /\ UNCHANGED <<config, instances, rows, using, replaced>>

\* CreateKey and AllowBucketKey
CreateKey(r) ==
    /\ pc[r] = "create_key"
    /\ \E ok \in BOOLEAN :
         Answer(r, Reaches(using[r]), ok) /\ Then(r, ok, "save")
    /\ UNCHANGED <<garage, config, instances, rows, using, replaced>>

\* Mutant of Save: an answer of its own for a display name that is taken.
SaveUnless(r) ==
    /\ pc[r] = "save"
    /\ \E ok \in BOOLEAN :
         /\ Answer(r, TRUE, ok)
         /\ rows' = IF ok THEN rows \cup {r} ELSE rows
         /\ pc' = [pc EXCEPT ![r] = "ended"]
         /\ outcome' = [outcome EXCEPT ![r] = IF ok THEN "ok" ELSE "conflict"]
    /\ UNCHANGED <<garage, config, instances, using, replaced>>

\* One transaction.  It also fails when the display name is taken.
Save(r) ==
    /\ pc[r] = "save"
    /\ \E ok \in BOOLEAN :
         /\ Answer(r, TRUE, ok)
         /\ rows' \in (IF ok THEN {} ELSE {rows}) \cup {rows \cup {r}}
         /\ pc' = [pc EXCEPT ![r] = "ended"]
         /\ outcome' = [outcome EXCEPT ![r] = IF ok THEN "ok" ELSE "error"]
    /\ UNCHANGED <<garage, config, instances, using, replaced>>

\* Mutant of Delete: the row is deleted, and with it what is known of the bucket.
DeleteRowFirst(r) ==
    /\ r \in rows /\ r \notin InFlight
    /\ Begin(r, "delete_row")
    /\ UNCHANGED <<garage, config, instances, rows, using, outcome, faults, replaced>>

\* DELETE /resource/{id}; when there is no instance the bucket is not looked for.
Delete(r) ==
    /\ r \in rows /\ r \notin InFlight
    /\ \/ \E t \in instances : /\ using' = [using EXCEPT ![r] = t]
                               /\ Begin(r, "delete_bucket")
       \/ /\ instances = {} /\ Begin(r, "delete_row")
          /\ UNCHANGED using
    /\ UNCHANGED <<garage, config, instances, rows, outcome, faults, replaced>>

\* What Garage answers is ignored; it keeps a bucket that is not empty.
DeleteBucket(r) ==
    /\ pc[r] = "delete_bucket"
    /\ \/ \E ok \in BOOLEAN : OnGarage(r, Reaches(using[r]),
                                       [garage EXCEPT !.buckets = @ \ {r}], ok)
       \/ disturbed' = disturbed \cup {r} /\ UNCHANGED <<garage, faults>>
    /\ Goto(r, "delete_row")
    /\ UNCHANGED <<config, instances, rows, using, replaced>>

DeleteRow(r) ==
    /\ pc[r] = "delete_row"
    /\ \E ok \in BOOLEAN :
         /\ Answer(r, TRUE, ok)
         /\ rows' \in (IF ok THEN {} ELSE {rows}) \cup {rows \ {r}}
    /\ Goto(r, "ended")
    /\ UNCHANGED <<garage, config, instances, using, replaced>>

-----------------------------------------------------------------------------

\* No restart policy, and nobody watches it.
GarageExits ==
    /\ garage.st = "running"
    /\ garage' = [garage EXCEPT !.st = "exited"]
    /\ disturbed' = disturbed \cup InFlight
    /\ replaced' = TRUE
    /\ UNCHANGED <<config, instances, rows, pc, using, outcome, faults>>

ServerCrash ==
    /\ InFlight # {}
    /\ faults < MaxFaults
    /\ faults' = faults + 1
    /\ pc' = [r \in Requests |-> IF r \in InFlight THEN "ended" ELSE pc[r]]
    /\ disturbed' = disturbed \cup InFlight
    /\ UNCHANGED <<garage, config, instances, rows, using, outcome, replaced>>

HandlerStep(r) ==
    \/ Select(r) \/ Inspect(r) \/ Forget(r) \/ StopStale(r) \/ RemoveStale(r)
    \/ Configure(r) \/ CreateContainer(r) \/ StartContainer(r) \/ WaitUntilReady(r)
    \/ InitializeLayout(r) \/ Record(r) \/ CreateBucket(r) \/ CreateKey(r) \/ Save(r)
    \/ DeleteBucket(r) \/ DeleteRow(r)

Next ==
    \/ \E r \in Requests : Create(r) \/ Delete(r) \/ HandlerStep(r)
    \/ GarageExits
    \/ ServerCrash

Spec == Init /\ [][Next]_vars

-----------------------------------------------------------------------------
(* Properties                                                               *)

\* A row of s3_instance describes the container that is there: its port, its token,
\* a Garage whose layout is applied.  Every later request trusts the row.
InstanceDescribesGarage ==
    \A t \in instances : /\ garage.st \in {"running", "exited"}
                         /\ garage.by = t /\ garage.token = t /\ garage.layout

\* A request that is served alone, and during which nothing fails, succeeds, whatever
\* the requests before it left behind: a container without a row, one that was
\* never started, one that runs without a layout, one that exited.
AloneSucceeds == \A r \in Requests : outcome[r] = "error" => r \in disturbed

\* A bucket without a row is one whose request failed or met a failure.
NoForgottenBucket ==
    ~replaced => garage.buckets \subseteq rows \cup InFlight \cup disturbed

\* The bucket of a resource is in the Garage that runs, unless Garage was down, or
\* taken for down, at some time (the next request then made a new and empty one), or
\* a request for this resource failed half-way or met another request.
BucketsServed ==
    ~replaced => \A r \in rows \ (InFlight \cup disturbed) :
                    garage.st = "running" /\ r \in garage.buckets

\* What README.md says: one shared Garage, and in it one bucket for each resource.
OneBucketEach ==
    (~replaced /\ faults = 0) => \A r \in rows \ InFlight : r \in garage.buckets

=============================================================================
