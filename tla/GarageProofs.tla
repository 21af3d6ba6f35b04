---------------------------- MODULE GarageProofs ----------------------------
(***************************************************************************)
(* What Garage.tla promises, for any set of requests and any number of     *)
(* faults.  Its types need no hypothesis.  The four invariants need        *)
(* ~Concurrent, a request served at a time: with two at once they are      *)
(* false, the second request removes the container of the first            *)
(* (MCGarageShared.cfg).                                                   *)
(*                                                                         *)
(* The argument follows the request in flight.  Fits says what is there at *)
(* each of its steps whatever failed; Smooth says what is there in         *)
(* addition when nothing failed since it came, so that a call that is made *)
(* can be carried out; Served says that a resource made without a failure  *)
(* keeps a Garage that has its bucket and a row that describes it.         *)
(***************************************************************************)
EXTENDS Garage, TLAPS

(***************************************************************************)
(* Types                                                                   *)
(***************************************************************************)
LEMMA NoContainerTyped == NoContainer \in Container
BY DEF NoContainer, Container

LEMMA AnswerTyped ==
    ASSUME TypeOK, NEW r \in Requests, NEW can, NEW ok, Answer(r, can, ok)
    PROVE  faults' \in 0..MaxFaults /\ disturbed' \in SUBSET Requests
BY GarageAssumption DEF TypeOK, Answer

LEMMA OnGarageTyped ==
    ASSUME TypeOK, NEW r \in Requests, NEW can, NEW after \in Container, NEW ok,
           OnGarage(r, can, after, ok)
    PROVE  /\ garage' \in Container
           /\ faults' \in 0..MaxFaults /\ disturbed' \in SUBSET Requests
BY AnswerTyped DEF TypeOK, OnGarage

LEMMA GotoTyped ==
    ASSUME TypeOK, NEW r \in Requests, NEW to \in Steps \cup {"ended"}, Goto(r, to)
    PROVE  /\ pc' \in [Requests -> Steps \cup {"idle", "ended"}]
           /\ outcome' \in [Requests -> {"none", "ok", "error"}]
BY DEF TypeOK, Goto

LEMMA ThenTyped ==
    ASSUME TypeOK, NEW r \in Requests, NEW ok, NEW to \in Steps, Then(r, ok, to)
    PROVE  /\ pc' \in [Requests -> Steps \cup {"idle", "ended"}]
           /\ outcome' \in [Requests -> {"none", "ok", "error"}]
BY GotoTyped DEF TypeOK, Then

LEMMA BeginTyped ==
    ASSUME TypeOK, NEW r \in Requests, NEW to \in Steps, Begin(r, to)
    PROVE  /\ pc' \in [Requests -> Steps \cup {"idle", "ended"}]
           /\ disturbed' \in SUBSET Requests
BY DEF TypeOK, Begin, InFlight

\* What the calls make of the container.
LEMMA ContainersTyped ==
    ASSUME TypeOK, NEW r \in Requests
    PROVE  /\ [garage EXCEPT !.st = IF @ = "running" THEN "exited" ELSE @] \in Container
           /\ [NoContainer EXCEPT !.st = "created", !.by = r] \in Container
           /\ [garage EXCEPT !.st = "running", !.token = config] \in Container
           /\ [garage EXCEPT !.layout = TRUE] \in Container
           /\ [garage EXCEPT !.buckets = @ \cup {r}] \in Container
           /\ [garage EXCEPT !.buckets = @ \ {r}] \in Container
BY DEF TypeOK, Container, NoContainer

LEMMA ExitedTyped == TypeOK => [garage EXCEPT !.st = "exited"] \in Container
BY DEF TypeOK, Container

LEMMA StepsTyped ==
    {"select", "inspect", "forget", "stop_stale", "remove_stale", "configure",
     "create", "start", "wait_until_ready", "initialize_layout", "record",
     "create_bucket", "create_key", "save", "delete_bucket", "delete_row"} \subseteq Steps
BY DEF Steps

LEMMA InstallTyped ==
    ASSUME TypeOK, NEW r \in Requests,
           \/ Select(r) \/ Inspect(r) \/ Forget(r) \/ StopStale(r) \/ RemoveStale(r)
           \/ Configure(r) \/ CreateContainer(r) \/ StartContainer(r)
    PROVE  TypeOK'
<1> USE StepsTyped
<1>1. CASE Select(r)
  <2>1. PICK ok \in BOOLEAN :
          /\ Answer(r, TRUE, ok)
          /\ \E t \in Requests, to \in Steps : using' = [using EXCEPT ![r] = t] /\ Then(r, ok, to)
    BY <1>1 DEF Select, TypeOK
  <2>2. using' \in [Requests -> Requests \cup {Nobody}]
    BY <2>1 DEF TypeOK
  <2> QED BY <1>1, <2>1, <2>2, AnswerTyped, ThenTyped DEF Select, TypeOK
<1>2. CASE Inspect(r)
  BY <1>2, AnswerTyped, GotoTyped DEF Inspect, TypeOK
<1>3. CASE Forget(r)
  BY <1>3, AnswerTyped, ThenTyped DEF Forget, TypeOK
<1>4. CASE StopStale(r)
  BY <1>4, OnGarageTyped, ContainersTyped, GotoTyped DEF StopStale, TypeOK
<1>5. CASE RemoveStale(r)
  BY <1>5, OnGarageTyped, NoContainerTyped, GotoTyped DEF RemoveStale, TypeOK
<1>6. CASE Configure(r)
  BY <1>6, AnswerTyped, ThenTyped DEF Configure, TypeOK
<1>7. CASE CreateContainer(r)
  BY <1>7, OnGarageTyped, ContainersTyped, ThenTyped DEF CreateContainer, TypeOK
<1>8. CASE StartContainer(r)
  <2>1. (IF garage.st = "running" THEN garage
         ELSE [garage EXCEPT !.st = "running", !.token = config]) \in Container
    BY ContainersTyped DEF TypeOK
  <2> QED BY <1>8, <2>1, OnGarageTyped, ThenTyped DEF StartContainer, TypeOK
<1> QED BY <1>1, <1>2, <1>3, <1>4, <1>5, <1>6, <1>7, <1>8

LEMMA ServeTyped ==
    ASSUME TypeOK, NEW r \in Requests,
           \/ WaitUntilReady(r) \/ InitializeLayout(r) \/ Record(r) \/ CreateBucket(r)
           \/ CreateKey(r) \/ Save(r) \/ DeleteBucket(r) \/ DeleteRow(r)
    PROVE  TypeOK'
<1> USE StepsTyped
<1>1. CASE WaitUntilReady(r)
  BY <1>1, AnswerTyped, ThenTyped DEF WaitUntilReady, TypeOK
<1>2. CASE InitializeLayout(r)
  BY <1>2, OnGarageTyped, ContainersTyped, ThenTyped DEF InitializeLayout, TypeOK
<1>3. CASE Record(r)
  BY <1>3, AnswerTyped, ThenTyped DEF Record, TypeOK
<1>4. CASE CreateBucket(r)
  BY <1>4, OnGarageTyped, ContainersTyped, ThenTyped DEF CreateBucket, TypeOK
<1>5. CASE CreateKey(r)
  BY <1>5, AnswerTyped, ThenTyped DEF CreateKey, TypeOK
<1>6. CASE Save(r)
  BY <1>6, AnswerTyped DEF Save, TypeOK
<1>7. CASE DeleteBucket(r)
  BY <1>7, OnGarageTyped, ContainersTyped, GotoTyped DEF DeleteBucket, TypeOK
<1>8. CASE DeleteRow(r)
  BY <1>8, AnswerTyped, GotoTyped DEF DeleteRow, TypeOK
<1> QED BY <1>1, <1>2, <1>3, <1>4, <1>5, <1>6, <1>7, <1>8

LEMMA TypeNext == TypeOK /\ [Next]_vars => TypeOK'
<1> SUFFICES ASSUME TypeOK, [Next]_vars PROVE TypeOK'
  OBVIOUS
<1>1. CASE \E r \in Requests : Create(r)
  BY <1>1, BeginTyped, StepsTyped DEF Create, TypeOK
<1>2. CASE \E r \in Requests : Delete(r)
  BY <1>2, BeginTyped, StepsTyped DEF Delete, TypeOK
<1>3. CASE \E r \in Requests : HandlerStep(r)
  BY <1>3, InstallTyped, ServeTyped DEF HandlerStep
<1>4. CASE GarageExits
  BY <1>4, ExitedTyped DEF GarageExits, InFlight, TypeOK
<1>5. CASE ServerCrash
  BY <1>5, GarageAssumption DEF ServerCrash, InFlight, TypeOK
<1>6. CASE UNCHANGED vars
  BY <1>6 DEF vars, TypeOK
<1> QED BY <1>1, <1>2, <1>3, <1>4, <1>5, <1>6 DEF Next

\* Every state the handlers, the container and the crashes reach is well typed.
THEOREM GarageTypeCorrect == Spec => []TypeOK
<1>1. Init => TypeOK
  <2> SUFFICES ASSUME Init PROVE TypeOK
    OBVIOUS
  <2>1. 0 \in 0..MaxFaults
    BY GarageAssumption
  <2> QED BY <2>1, NoContainerTyped DEF Init, TypeOK
<1> QED BY <1>1, TypeNext, PTL DEF Spec

-----------------------------------------------------------------------------
(***************************************************************************)
(* The inductive invariant                                                 *)
(***************************************************************************)
\* One request is served at a time.
Alone == \A r, s \in InFlight : r = s

\* The steps that make a new instance, and those of them after its container started.
Install == {"stop_stale", "remove_stale", "configure", "create", "start",
            "wait_until_ready", "initialize_layout", "record"}
Started == {"wait_until_ready", "initialize_layout", "record"}

\* The container a request creates.
Fresh(r) == [NoContainer EXCEPT !.st = "created", !.by = r]

\* What is there at each step of the request in flight, whatever failed before.
Fits(r) ==
    /\ pc[r] \in Install => instances = {} /\ using[r] = r
    /\ pc[r] = "forget" => using[r] = r /\ replaced
    /\ pc[r] \in {"create", "start"} => config = r
    /\ pc[r] = "start" => garage = Fresh(r)
    /\ pc[r] \in Started => /\ garage.st \in {"running", "exited"}
                            /\ garage.by = r /\ garage.token = r
    /\ pc[r] \in {"wait_until_ready", "initialize_layout"} => ~garage.layout
    /\ pc[r] = "record" => garage.layout
    /\ pc[r] \in {"inspect", "create_bucket", "create_key", "save", "delete_bucket"} =>
          using[r] \in instances

\* What is there in addition when nothing failed since the request came.
Smooth(r) ==
    /\ pc[r] = "remove_stale" => garage.st # "running"
    /\ pc[r] \in {"configure", "create"} => garage.st = "none"
    /\ pc[r] \in Started \cup {"create_bucket", "create_key", "save"} =>
          garage.st = "running"
    /\ pc[r] \in {"create_key", "save"} => r \in garage.buckets
    /\ ~replaced => /\ pc[r] = "delete_bucket" => garage.st = "running"
                    /\ pc[r] = "delete_row" => r \notin garage.buckets

AllFit == \A r \in InFlight : Fits(r)
AllSmooth == \A r \in InFlight \ disturbed : Smooth(r)

\* A resource made without a failure has its bucket, in a Garage a row describes.
Served == ~replaced => \A s \in rows \ (InFlight \cup disturbed) :
            garage.st = "running" /\ s \in garage.buckets /\ instances # {}

GarageInv == /\ Alone /\ AllFit /\ AllSmooth /\ Served
             /\ InstanceDescribesGarage /\ AloneSucceeds /\ NoForgottenBucket

(***************************************************************************)
(* One step of the request in flight                                       *)
(***************************************************************************)
LEMMA Moves ==
    ASSUME TypeOK, Alone, NEW r \in Requests, pc[r] \in Steps,
           NEW p, pc' = [pc EXCEPT ![r] = p]
    PROVE  /\ InFlight = {r} /\ pc'[r] = p
           /\ InFlight' = IF p \in Steps THEN {r} ELSE {}
           /\ Alone'
BY DEF TypeOK, Alone, InFlight

LEMMA Goes ==
    ASSUME TypeOK, Alone, NEW r \in Requests, pc[r] \in Steps,
           NEW p \in Steps, Goto(r, p)
    PROVE  /\ InFlight = {r} /\ InFlight' = {r} /\ pc'[r] = p /\ Alone'
           /\ outcome' = outcome
BY Moves DEF Goto

LEMMA Continues ==
    ASSUME TypeOK, Alone, NEW r \in Requests, pc[r] \in Steps,
           NEW p \in Steps, NEW ok \in BOOLEAN, Then(r, ok, p)
    PROVE  /\ InFlight = {r} /\ Alone'
           /\ ok => InFlight' = {r} /\ pc'[r] = p /\ outcome' = outcome
           /\ ~ok => /\ InFlight' = {}
                     /\ \A s \in Requests \ {r} : outcome'[s] = outcome[s]
<1> "ended" \notin Steps
  BY DEF Steps
<1> QED BY Moves, Goes DEF Then, TypeOK

\* A call that could be carried out and fails disturbs the request; none else does.
LEMMA Answered ==
    ASSUME TypeOK, NEW r \in Requests, NEW can \in BOOLEAN, NEW ok \in BOOLEAN,
           Answer(r, can, ok)
    PROVE  /\ ok => can
           /\ disturbed \subseteq disturbed' /\ disturbed' \subseteq disturbed \cup {r}
           /\ r \notin disturbed' => ok = can
BY DEF Answer

LEMMA SelectInv ==
    ASSUME TypeOK, GarageInv, NEW r \in Requests, Select(r)
    PROVE  GarageInv'
<1> USE StepsTyped
<1>1. PICK ok \in BOOLEAN :
        /\ Answer(r, TRUE, ok)
        /\ \/ \E t \in instances : using' = [using EXCEPT ![r] = t] /\ Then(r, ok, "inspect")
           \/ /\ instances = {}
              /\ using' = [using EXCEPT ![r] = r] /\ Then(r, ok, "stop_stale")
  BY DEF Select
<1>2. /\ disturbed \subseteq disturbed' /\ disturbed' \subseteq disturbed \cup {r}
      /\ r \notin disturbed' => ok
  BY <1>1, Answered
<1>3. /\ InFlight = {r} /\ Alone'
      /\ ok => /\ InFlight' = {r} /\ outcome' = outcome
               /\ \/ pc'[r] = "inspect" /\ using'[r] \in instances
                  \/ pc'[r] = "stop_stale" /\ instances = {} /\ using'[r] = r
      /\ ~ok => /\ InFlight' = {}
                /\ \A s \in Requests \ {r} : outcome'[s] = outcome[s]
  BY <1>1, Continues DEF Select, GarageInv, TypeOK
<1>4. UNCHANGED <<garage, config, instances, rows, replaced>>
  BY DEF Select
<1> USE <1>2, <1>3, <1>4 DEF GarageInv
<1>5. AllFit'
  BY DEF AllFit, Fits, Install, Started
<1>6. AllSmooth'
  BY DEF AllSmooth, Smooth, Started
<1>7. Served'
  BY DEF Served
<1>8. InstanceDescribesGarage'
  BY DEF InstanceDescribesGarage
<1>9. AloneSucceeds'
  BY DEF AloneSucceeds
<1>10. NoForgottenBucket'
  BY DEF NoForgottenBucket
<1> QED BY <1>5, <1>6, <1>7, <1>8, <1>9, <1>10

LEMMA InspectInv ==
    ASSUME TypeOK, GarageInv, NEW r \in Requests, Inspect(r)
    PROVE  GarageInv'
<1> USE StepsTyped
<1>1. PICK ok \in BOOLEAN :
        /\ Answer(r, garage.st = "running", ok)
        /\ Goto(r, IF ok THEN "create_bucket" ELSE "forget")
        /\ using' = IF ok THEN using ELSE [using EXCEPT ![r] = r]
        /\ replaced' = (replaced \/ ~ok)
  BY DEF Inspect
<1>2. /\ disturbed \subseteq disturbed' /\ disturbed' \subseteq disturbed \cup {r}
      /\ ok => (garage.st = "running")
      /\ r \notin disturbed' => ok = (garage.st = "running")
  BY <1>1, Answered
<1>3. /\ pc[r] = "inspect" /\ InFlight = {r} /\ Alone' /\ InFlight' = {r}
      /\ pc'[r] = (IF ok THEN "create_bucket" ELSE "forget") /\ outcome' = outcome
  BY <1>1, Goes DEF Inspect, GarageInv
<1>4. /\ UNCHANGED <<garage, config, instances, rows>>
      /\ ok => using' = using /\ replaced' = replaced
      /\ ~ok => using'[r] = r /\ replaced'
  BY <1>1 DEF Inspect, TypeOK
<1> USE <1>2, <1>3, <1>4 DEF GarageInv
<1>5. AllFit'
  BY DEF AllFit, Fits, Install, Started
<1>6. AllSmooth'
  BY DEF AllSmooth, Smooth, Started
<1>7. Served'
  BY DEF Served
<1>8. InstanceDescribesGarage'
  BY DEF InstanceDescribesGarage
<1>9. AloneSucceeds'
  BY DEF AloneSucceeds
<1>10. NoForgottenBucket'
  BY DEF NoForgottenBucket
<1> QED BY <1>5, <1>6, <1>7, <1>8, <1>9, <1>10

LEMMA ForgetInv ==
    ASSUME TypeOK, GarageInv, NEW r \in Requests, Forget(r)
    PROVE  GarageInv'
<1> USE StepsTyped
<1>1. PICK ok \in BOOLEAN :
        /\ Answer(r, TRUE, ok) /\ Then(r, ok, "stop_stale")
        /\ instances' \in (IF ok THEN {} ELSE {instances}) \cup {{}}
  BY DEF Forget
<1>2. /\ disturbed \subseteq disturbed' /\ disturbed' \subseteq disturbed \cup {r}
      /\ r \notin disturbed' => ok
  BY <1>1, Answered
<1>3. /\ pc[r] = "forget" /\ InFlight = {r} /\ Alone'
      /\ ok => InFlight' = {r} /\ pc'[r] = "stop_stale" /\ outcome' = outcome
      /\ ~ok => /\ InFlight' = {}
                /\ \A s \in Requests \ {r} : outcome'[s] = outcome[s]
  BY <1>1, Continues DEF Forget, GarageInv
<1>4. /\ UNCHANGED <<garage, config, rows, using, replaced>>
      /\ instances' \in {instances, {}} /\ (ok => instances' = {})
  BY <1>1 DEF Forget
<1> USE <1>2, <1>3, <1>4 DEF GarageInv
<1>5. AllFit'
  BY DEF AllFit, Fits, Install, Started
<1>6. AllSmooth'
  BY DEF AllSmooth, Smooth, Started
<1>7. Served'
  BY DEF Served, AllFit, Fits
<1>8. InstanceDescribesGarage'
  BY DEF InstanceDescribesGarage
<1>9. AloneSucceeds'
  BY DEF AloneSucceeds
<1>10. NoForgottenBucket'
  BY DEF NoForgottenBucket, AllFit, Fits
<1> QED BY <1>5, <1>6, <1>7, <1>8, <1>9, <1>10

LEMMA StopStaleInv ==
    ASSUME TypeOK, GarageInv, NEW r \in Requests, StopStale(r)
    PROVE  GarageInv'
<1> USE StepsTyped
<1> DEFINE stopped == [garage EXCEPT !.st = IF @ = "running" THEN "exited" ELSE @]
<1>1. PICK ok \in BOOLEAN :
        OnGarage(r, garage.st # "none", stopped, ok)
  BY DEF StopStale
<1>2. /\ disturbed \subseteq disturbed' /\ disturbed' \subseteq disturbed \cup {r}
      /\ ok => (garage.st # "none") /\ garage' = stopped
      /\ garage' = garage \/ ((garage.st # "none") /\ garage' = stopped)
      /\ r \notin disturbed' => ok = (garage.st # "none")
  BY <1>1 DEF OnGarage, Answer
<1>3. /\ pc[r] = "stop_stale" /\ InFlight = {r} /\ Alone' /\ InFlight' = {r}
      /\ pc'[r] = "remove_stale" /\ outcome' = outcome
  BY <1>1, Goes DEF StopStale, GarageInv
<1>4. /\ UNCHANGED <<config, instances, rows, using, replaced>>
      /\ stopped.st # "running" /\ stopped.buckets = garage.buckets
  BY <1>1 DEF StopStale, TypeOK, Container
<1> HIDE DEF stopped
<1> USE <1>2, <1>3, <1>4 DEF GarageInv
<1>5. AllFit'
  BY DEF AllFit, Fits, Install, Started
<1>6. AllSmooth'
  BY DEF AllSmooth, Smooth, Started
<1>7. Served'
  BY DEF Served, AllFit, Fits, Install
<1>8. InstanceDescribesGarage'
  BY DEF InstanceDescribesGarage, AllFit, Fits, Install
<1>9. AloneSucceeds'
  BY DEF AloneSucceeds
<1>10. NoForgottenBucket'
  BY DEF NoForgottenBucket
<1> QED BY <1>5, <1>6, <1>7, <1>8, <1>9, <1>10

LEMMA RemoveStaleInv ==
    ASSUME TypeOK, GarageInv, NEW r \in Requests, RemoveStale(r)
    PROVE  GarageInv'
<1> USE StepsTyped
<1>1. PICK ok \in BOOLEAN :
        OnGarage(r, garage.st \in {"created", "exited"}, NoContainer, ok)
  BY DEF RemoveStale
<1>2. /\ disturbed \subseteq disturbed' /\ disturbed' \subseteq disturbed \cup {r}
      /\ ok => (garage.st \in {"created", "exited"}) /\ garage' = NoContainer
      /\ garage' = garage \/ ((garage.st \in {"created", "exited"}) /\ garage' = NoContainer)
      /\ r \notin disturbed' => ok = (garage.st \in {"created", "exited"})
  BY <1>1 DEF OnGarage, Answer
<1>3. /\ pc[r] = "remove_stale" /\ InFlight = {r} /\ Alone' /\ InFlight' = {r}
      /\ pc'[r] = "configure" /\ outcome' = outcome
  BY <1>1, Goes DEF RemoveStale, GarageInv
<1>4. /\ UNCHANGED <<config, instances, rows, using, replaced>>
      /\ NoContainer.st = "none" /\ NoContainer.buckets = {}
      /\ garage.st \in {"none", "created", "running", "exited"}
  BY <1>1 DEF RemoveStale, TypeOK, Container, NoContainer
<1> USE <1>2, <1>3, <1>4 DEF GarageInv
<1>5. AllFit'
  BY DEF AllFit, Fits, Install, Started
<1>6. AllSmooth'
  BY DEF AllSmooth, Smooth, Started
<1>7. Served'
  BY DEF Served, AllFit, Fits, Install
<1>8. InstanceDescribesGarage'
  BY DEF InstanceDescribesGarage, AllFit, Fits, Install
<1>9. AloneSucceeds'
  BY DEF AloneSucceeds
<1>10. NoForgottenBucket'
  BY DEF NoForgottenBucket
<1> QED BY <1>5, <1>6, <1>7, <1>8, <1>9, <1>10

LEMMA ConfigureInv ==
    ASSUME TypeOK, GarageInv, NEW r \in Requests, Configure(r)
    PROVE  GarageInv'
<1> USE StepsTyped
<1>1. PICK ok \in BOOLEAN :
        /\ Answer(r, TRUE, ok) /\ Then(r, ok, "create")
        /\ config' \in (IF ok THEN {} ELSE {config}) \cup {r}
  BY DEF Configure
<1>2. /\ disturbed \subseteq disturbed' /\ disturbed' \subseteq disturbed \cup {r}
      /\ r \notin disturbed' => ok
  BY <1>1, Answered
<1>3. /\ pc[r] = "configure" /\ InFlight = {r} /\ Alone'
      /\ ok => InFlight' = {r} /\ pc'[r] = "create" /\ outcome' = outcome
      /\ ~ok => /\ InFlight' = {}
                /\ \A s \in Requests \ {r} : outcome'[s] = outcome[s]
  BY <1>1, Continues DEF Configure, GarageInv
<1>4. /\ UNCHANGED <<garage, instances, rows, using, replaced>>
      /\ ok => config' = r
  BY <1>1 DEF Configure
<1> USE <1>2, <1>3, <1>4 DEF GarageInv
<1>5. AllFit'
  BY DEF AllFit, Fits, Install, Started
<1>6. AllSmooth'
  BY DEF AllSmooth, Smooth, Started
<1>7. Served'
  BY DEF Served
<1>8. InstanceDescribesGarage'
  BY DEF InstanceDescribesGarage
<1>9. AloneSucceeds'
  BY DEF AloneSucceeds
<1>10. NoForgottenBucket'
  BY DEF NoForgottenBucket
<1> QED BY <1>5, <1>6, <1>7, <1>8, <1>9, <1>10

LEMMA CreateContainerInv ==
    ASSUME TypeOK, GarageInv, NEW r \in Requests, CreateContainer(r)
    PROVE  GarageInv'
<1> USE StepsTyped
<1>1. PICK ok \in BOOLEAN :
        OnGarage(r, garage.st = "none", Fresh(r), ok) /\ Then(r, ok, "start")
  BY DEF Fresh, CreateContainer
<1>2. /\ disturbed \subseteq disturbed' /\ disturbed' \subseteq disturbed \cup {r}
      /\ ok => (garage.st = "none") /\ garage' = Fresh(r)
      /\ garage' = garage \/ ((garage.st = "none") /\ garage' = Fresh(r))
      /\ r \notin disturbed' => ok = (garage.st = "none")
  BY <1>1 DEF OnGarage, Answer
<1>3. /\ pc[r] = "create" /\ InFlight = {r} /\ Alone'
      /\ ok => InFlight' = {r} /\ pc'[r] = "start" /\ outcome' = outcome
      /\ ~ok => /\ InFlight' = {}
                /\ \A s \in Requests \ {r} : outcome'[s] = outcome[s]
  BY <1>1, Continues DEF CreateContainer, GarageInv
<1>4. /\ UNCHANGED <<config, instances, rows, using, replaced>>
      /\ Fresh(r).st = "created" /\ Fresh(r).buckets = {}
  BY <1>1 DEF CreateContainer, Fresh, NoContainer
<1> USE <1>2, <1>3, <1>4 DEF GarageInv
<1>5. AllFit'
  BY DEF AllFit, Fits, Install, Started
<1>6. AllSmooth'
  BY DEF AllSmooth, Smooth, Started
<1>7. Served'
  BY DEF Served, AllFit, Fits, Install, AllSmooth, Smooth
<1>8. InstanceDescribesGarage'
  BY DEF InstanceDescribesGarage, AllFit, Fits, Install
<1>9. AloneSucceeds'
  BY DEF AloneSucceeds, AllSmooth, Smooth
<1>10. NoForgottenBucket'
  BY DEF NoForgottenBucket, AllSmooth, Smooth
<1> QED BY <1>5, <1>6, <1>7, <1>8, <1>9, <1>10

LEMMA StartContainerInv ==
    ASSUME TypeOK, GarageInv, NEW r \in Requests, StartContainer(r)
    PROVE  GarageInv'
<1> USE StepsTyped
<1> DEFINE started == [garage EXCEPT !.st = "running", !.token = config]
<1>0. garage = Fresh(r) /\ garage.st = "created" /\ config = r
  BY DEF StartContainer, GarageInv, AllFit, Fits, InFlight, Fresh, NoContainer
<1>1. PICK ok \in BOOLEAN :
        OnGarage(r, garage.st # "none", started, ok) /\ Then(r, ok, "wait_until_ready")
  BY <1>0 DEF StartContainer
<1>2. /\ disturbed \subseteq disturbed' /\ disturbed' \subseteq disturbed \cup {r}
      /\ ok => (garage.st # "none") /\ garage' = started
      /\ garage' = garage \/ ((garage.st # "none") /\ garage' = started)
      /\ r \notin disturbed' => ok = (garage.st # "none")
  BY <1>1 DEF OnGarage, Answer
<1>3. /\ pc[r] = "start" /\ InFlight = {r} /\ Alone'
      /\ ok => InFlight' = {r} /\ pc'[r] = "wait_until_ready" /\ outcome' = outcome
      /\ ~ok => /\ InFlight' = {}
                /\ \A s \in Requests \ {r} : outcome'[s] = outcome[s]
  BY <1>1, Continues DEF StartContainer, GarageInv
<1>4. /\ UNCHANGED <<config, instances, rows, using, replaced>>
      /\ started.st = "running" /\ started.by = r /\ started.token = r
      /\ started.layout = FALSE /\ started.buckets = {}
  BY <1>0, <1>1 DEF StartContainer, Fresh, NoContainer
<1> HIDE DEF started
<1> USE <1>0
<1> USE <1>2, <1>3, <1>4 DEF GarageInv
<1>5. AllFit'
  BY DEF AllFit, Fits, Install, Started
<1>6. AllSmooth'
  BY DEF AllSmooth, Smooth, Started
<1>7. Served'
  BY DEF Served, AllFit, Fits, Install
<1>8. InstanceDescribesGarage'
  BY DEF InstanceDescribesGarage, AllFit, Fits, Install
<1>9. AloneSucceeds'
  BY DEF AloneSucceeds, AllSmooth, Smooth
<1>10. NoForgottenBucket'
  BY DEF NoForgottenBucket, AllSmooth, Smooth
<1> QED BY <1>5, <1>6, <1>7, <1>8, <1>9, <1>10

LEMMA WaitUntilReadyInv ==
    ASSUME TypeOK, GarageInv, NEW r \in Requests, WaitUntilReady(r)
    PROVE  GarageInv'
<1> USE StepsTyped
<1>0. Reaches(r) \in BOOLEAN
  BY DEF Reaches
<1>1. PICK ok \in BOOLEAN :
        Answer(r, Reaches(r), ok) /\ Then(r, ok, "initialize_layout")
  BY DEF WaitUntilReady
<1>2. /\ disturbed \subseteq disturbed' /\ disturbed' \subseteq disturbed \cup {r}
      /\ ok => (Reaches(r))
      /\ r \notin disturbed' => ok = (Reaches(r))
  BY <1>1, <1>0, Answered
<1>3. /\ pc[r] = "wait_until_ready" /\ InFlight = {r} /\ Alone'
      /\ ok => InFlight' = {r} /\ pc'[r] = "initialize_layout" /\ outcome' = outcome
      /\ ~ok => /\ InFlight' = {}
                /\ \A s \in Requests \ {r} : outcome'[s] = outcome[s]
  BY <1>1, Continues DEF WaitUntilReady, GarageInv
<1>4. /\ UNCHANGED <<garage, config, instances, rows, using, replaced>>
      /\ garage.by = r /\ garage.token = r /\ ~garage.layout
      /\ r \notin disturbed => garage.st = "running"
  BY <1>1, <1>3
     DEF WaitUntilReady, AllSmooth, Smooth, Started, AllFit, Fits, Install, GarageInv
<1> USE <1>2, <1>3, <1>4 DEF GarageInv
<1>5. AllFit'
  BY DEF AllFit, Fits, Install, Started, Reaches
<1>6. AllSmooth'
  BY DEF AllSmooth, Smooth, Started
<1>7. Served'
  BY DEF Served, Reaches
<1>8. InstanceDescribesGarage'
  BY DEF InstanceDescribesGarage
<1>9. AloneSucceeds'
  BY DEF AloneSucceeds, Reaches
<1>10. NoForgottenBucket'
  BY DEF NoForgottenBucket, Reaches
<1> QED BY <1>5, <1>6, <1>7, <1>8, <1>9, <1>10

LEMMA InitializeLayoutInv ==
    ASSUME TypeOK, GarageInv, NEW r \in Requests, InitializeLayout(r)
    PROVE  GarageInv'
<1> USE StepsTyped
<1> DEFINE applied == [garage EXCEPT !.layout = TRUE]
<1>1. PICK ok \in BOOLEAN :
        OnGarage(r, Reaches(r) /\ ~garage.layout, applied, ok) /\ Then(r, ok, "record")
  BY DEF InitializeLayout
<1>2. /\ disturbed \subseteq disturbed' /\ disturbed' \subseteq disturbed \cup {r}
      /\ ok => (Reaches(r) /\ ~garage.layout) /\ garage' = applied
      /\ garage' \in {garage, applied}
      /\ r \notin disturbed' => ok = (Reaches(r) /\ ~garage.layout)
  BY <1>1 DEF OnGarage, Answer, Reaches
<1>3. /\ pc[r] = "initialize_layout" /\ InFlight = {r} /\ Alone'
      /\ ok => InFlight' = {r} /\ pc'[r] = "record" /\ outcome' = outcome
      /\ ~ok => /\ InFlight' = {}
                /\ \A s \in Requests \ {r} : outcome'[s] = outcome[s]
  BY <1>1, Continues DEF InitializeLayout, GarageInv
<1>4. /\ UNCHANGED <<config, instances, rows, using, replaced>>
      /\ applied.st = garage.st /\ applied.by = garage.by /\ applied.token = garage.token
      /\ applied.layout /\ applied.buckets = garage.buckets
      /\ garage.by = r /\ garage.token = r /\ ~garage.layout /\ instances = {}
      /\ garage.st \in {"running", "exited"}
      /\ r \notin disturbed => garage.st = "running"
  BY <1>1, <1>3
     DEF InitializeLayout, TypeOK, Container, AllSmooth, Smooth, Started, AllFit, Fits,
         Install, GarageInv
<1> HIDE DEF applied
<1> USE <1>2, <1>3, <1>4 DEF GarageInv
<1>5. AllFit'
  BY DEF AllFit, Fits, Install, Started
<1>6. AllSmooth'
  BY DEF AllSmooth, Smooth, Started
<1>7. Served'
  BY DEF Served, Reaches
<1>8. InstanceDescribesGarage'
  BY DEF InstanceDescribesGarage
<1>9. AloneSucceeds'
  BY DEF AloneSucceeds, Reaches
<1>10. NoForgottenBucket'
  BY DEF NoForgottenBucket, Reaches
<1> QED BY <1>5, <1>6, <1>7, <1>8, <1>9, <1>10

LEMMA RecordInv ==
    ASSUME TypeOK, GarageInv, NEW r \in Requests, Record(r)
    PROVE  GarageInv'
<1> USE StepsTyped
<1>1. PICK ok \in BOOLEAN :
        /\ Answer(r, TRUE, ok) /\ Then(r, ok, "create_bucket")
        /\ instances' \in (IF ok THEN {} ELSE {instances}) \cup {instances \cup {r}}
  BY DEF Record
<1>2. /\ disturbed \subseteq disturbed' /\ disturbed' \subseteq disturbed \cup {r}
      /\ r \notin disturbed' => ok
  BY <1>1, Answered
<1>3. /\ pc[r] = "record" /\ InFlight = {r} /\ Alone'
      /\ ok => InFlight' = {r} /\ pc'[r] = "create_bucket" /\ outcome' = outcome
      /\ ~ok => /\ InFlight' = {}
                /\ \A s \in Requests \ {r} : outcome'[s] = outcome[s]
  BY <1>1, Continues DEF Record, GarageInv
<1>4. /\ UNCHANGED <<garage, config, rows, using, replaced>>
      /\ instances = {} /\ using[r] = r
      /\ instances' \in {{}, {r}} /\ (ok => instances' = {r})
  BY <1>1, <1>3 DEF Record, AllFit, Fits, Install, Started, GarageInv
<1> USE <1>2, <1>3, <1>4 DEF GarageInv
<1>5. AllFit'
  BY DEF AllFit, Fits, Install, Started
<1>6. AllSmooth'
  BY DEF AllSmooth, Smooth, Started
<1>7. Served'
  BY DEF Served
<1>8. InstanceDescribesGarage'
  BY DEF InstanceDescribesGarage, AllFit, Fits, Install, Started
<1>9. AloneSucceeds'
  BY DEF AloneSucceeds
<1>10. NoForgottenBucket'
  BY DEF NoForgottenBucket
<1> QED BY <1>5, <1>6, <1>7, <1>8, <1>9, <1>10

LEMMA CreateBucketInv ==
    ASSUME TypeOK, GarageInv, NEW r \in Requests, CreateBucket(r)
    PROVE  GarageInv'
<1> USE StepsTyped
<1> DEFINE filled == [garage EXCEPT !.buckets = @ \cup {r}]
<1>1. PICK ok \in BOOLEAN :
        OnGarage(r, Reaches(using[r]) /\ garage.layout, filled, ok) /\ Then(r, ok, "create_key")
  BY DEF CreateBucket
<1>2. /\ disturbed \subseteq disturbed' /\ disturbed' \subseteq disturbed \cup {r}
      /\ ok => (Reaches(using[r]) /\ garage.layout) /\ garage' = filled
      /\ garage' \in {garage, filled}
      /\ r \notin disturbed' => ok = (Reaches(using[r]) /\ garage.layout)
  BY <1>1 DEF OnGarage, Answer, Reaches
<1>3. /\ pc[r] = "create_bucket" /\ InFlight = {r} /\ Alone'
      /\ ok => InFlight' = {r} /\ pc'[r] = "create_key" /\ outcome' = outcome
      /\ ~ok => /\ InFlight' = {}
                /\ \A s \in Requests \ {r} : outcome'[s] = outcome[s]
  BY <1>1, Continues DEF CreateBucket, GarageInv
<1>4. /\ UNCHANGED <<config, instances, rows, using, replaced>>
      /\ filled.st = garage.st /\ filled.by = garage.by /\ filled.token = garage.token
      /\ filled.layout = garage.layout /\ filled.buckets = garage.buckets \cup {r}
      /\ r \notin disturbed => Reaches(using[r]) /\ garage.layout
  BY <1>1, <1>3
     DEF CreateBucket, TypeOK, Container, AllSmooth, Smooth, Started, AllFit, Fits,
         Install, GarageInv, InstanceDescribesGarage, Reaches
<1> HIDE DEF filled
<1> USE <1>2, <1>3, <1>4 DEF GarageInv
<1>5. AllFit'
  BY DEF AllFit, Fits, Install, Started
<1>6. AllSmooth'
  BY DEF AllSmooth, Smooth, Started, Reaches
<1>7. Served'
  BY DEF Served
<1>8. InstanceDescribesGarage'
  BY DEF InstanceDescribesGarage
<1>9. AloneSucceeds'
  BY DEF AloneSucceeds
<1>10. NoForgottenBucket'
  BY DEF NoForgottenBucket
<1> QED BY <1>5, <1>6, <1>7, <1>8, <1>9, <1>10

LEMMA CreateKeyInv ==
    ASSUME TypeOK, GarageInv, NEW r \in Requests, CreateKey(r)
    PROVE  GarageInv'
<1> USE StepsTyped
<1>0. Reaches(using[r]) \in BOOLEAN
  BY DEF Reaches
<1>1. PICK ok \in BOOLEAN :
        Answer(r, Reaches(using[r]), ok) /\ Then(r, ok, "save")
  BY DEF CreateKey
<1>2. /\ disturbed \subseteq disturbed' /\ disturbed' \subseteq disturbed \cup {r}
      /\ ok => (Reaches(using[r]))
      /\ r \notin disturbed' => ok = (Reaches(using[r]))
  BY <1>1, <1>0, Answered
<1>3. /\ pc[r] = "create_key" /\ InFlight = {r} /\ Alone'
      /\ ok => InFlight' = {r} /\ pc'[r] = "save" /\ outcome' = outcome
      /\ ~ok => /\ InFlight' = {}
                /\ \A s \in Requests \ {r} : outcome'[s] = outcome[s]
  BY <1>1, Continues DEF CreateKey, GarageInv
<1>4. /\ UNCHANGED <<garage, config, instances, rows, using, replaced>>
      /\ r \notin disturbed => Reaches(using[r])
  BY <1>1, <1>3
     DEF CreateKey, AllSmooth, Smooth, Started, AllFit, Fits, Install, GarageInv,
         InstanceDescribesGarage, Reaches
<1> USE <1>2, <1>3, <1>4 DEF GarageInv
<1>5. AllFit'
  BY DEF AllFit, Fits, Install, Started
<1>6. AllSmooth'
  BY DEF AllSmooth, Smooth, Started
<1>7. Served'
  BY DEF Served
<1>8. InstanceDescribesGarage'
  BY DEF InstanceDescribesGarage
<1>9. AloneSucceeds'
  BY DEF AloneSucceeds
<1>10. NoForgottenBucket'
  BY DEF NoForgottenBucket
<1> QED BY <1>5, <1>6, <1>7, <1>8, <1>9, <1>10

LEMMA SaveInv ==
    ASSUME TypeOK, GarageInv, NEW r \in Requests, Save(r)
    PROVE  GarageInv'
<1> USE StepsTyped
<1>1. PICK ok \in BOOLEAN :
        /\ Answer(r, TRUE, ok)
        /\ rows' \in (IF ok THEN {} ELSE {rows}) \cup {rows \cup {r}}
        /\ outcome' = [outcome EXCEPT ![r] = IF ok THEN "ok" ELSE "error"]
  BY DEF Save
<1>2. /\ disturbed \subseteq disturbed' /\ disturbed' \subseteq disturbed \cup {r}
      /\ r \notin disturbed' => ok
  BY <1>1, Answered
<1>3. /\ pc[r] = "save" /\ InFlight = {r} /\ Alone' /\ InFlight' = {}
      /\ \A s \in Requests \ {r} : outcome'[s] = outcome[s]
      /\ ok => outcome'[r] # "error"
  <2> "ended" \notin Steps
    BY DEF Steps
  <2> QED BY <1>1, Moves DEF Save, GarageInv, TypeOK
<1>4. /\ UNCHANGED <<garage, config, instances, using, replaced>>
      /\ rows' \in {rows, rows \cup {r}} /\ (ok => rows' = rows \cup {r})
      /\ using[r] \in instances
      /\ r \notin disturbed => garage.st = "running" /\ r \in garage.buckets
  BY <1>1, <1>3
     DEF Save, AllSmooth, Smooth, Started, AllFit, Fits, Install, GarageInv,
         InstanceDescribesGarage, Reaches
<1> USE <1>2, <1>3, <1>4 DEF GarageInv
<1>5. AllFit'
  BY DEF AllFit, Fits, Install, Started
<1>6. AllSmooth'
  BY DEF AllSmooth, Smooth, Started
<1>7. Served'
  BY DEF Served
<1>8. InstanceDescribesGarage'
  BY DEF InstanceDescribesGarage
<1>9. AloneSucceeds'
  BY DEF AloneSucceeds
<1>10. NoForgottenBucket'
  BY DEF NoForgottenBucket
<1> QED BY <1>5, <1>6, <1>7, <1>8, <1>9, <1>10

LEMMA DeleteBucketInv ==
    ASSUME TypeOK, GarageInv, NEW r \in Requests, DeleteBucket(r)
    PROVE  GarageInv'
<1> USE StepsTyped
<1> DEFINE emptied == [garage EXCEPT !.buckets = @ \ {r}]
<1>1. \/ \E ok \in BOOLEAN : OnGarage(r, Reaches(using[r]), emptied, ok)
      \/ disturbed' = disturbed \cup {r} /\ UNCHANGED <<garage, faults>>
  BY DEF DeleteBucket
<1>2. /\ disturbed \subseteq disturbed' /\ disturbed' \subseteq disturbed \cup {r}
      /\ garage' \in {garage, emptied}
      /\ r \notin disturbed' => (Reaches(using[r]) => garage' = emptied)
  BY <1>1 DEF OnGarage, Answer, Reaches
<1>3. /\ pc[r] = "delete_bucket" /\ InFlight = {r} /\ Alone' /\ InFlight' = {r}
      /\ pc'[r] = "delete_row" /\ outcome' = outcome
  BY <1>1, Goes DEF DeleteBucket, GarageInv
<1>4. /\ UNCHANGED <<config, instances, rows, using, replaced>>
      /\ emptied.st = garage.st /\ emptied.by = garage.by /\ emptied.token = garage.token
      /\ emptied.layout = garage.layout /\ emptied.buckets = garage.buckets \ {r}
      /\ r \notin disturbed /\ ~replaced => Reaches(using[r])
  BY <1>1, <1>3
     DEF DeleteBucket, TypeOK, Container, AllSmooth, Smooth, Started, AllFit, Fits,
         Install, GarageInv, InstanceDescribesGarage, Reaches
<1> HIDE DEF emptied
<1> USE <1>2, <1>3, <1>4 DEF GarageInv
<1>5. AllFit'
  BY DEF AllFit, Fits, Install, Started
<1>6. AllSmooth'
  BY DEF AllSmooth, Smooth, Started
<1>7. Served'
  BY DEF Served
<1>8. InstanceDescribesGarage'
  BY DEF InstanceDescribesGarage
<1>9. AloneSucceeds'
  BY DEF AloneSucceeds
<1>10. NoForgottenBucket'
  BY DEF NoForgottenBucket
<1> QED BY <1>5, <1>6, <1>7, <1>8, <1>9, <1>10

LEMMA DeleteRowInv ==
    ASSUME TypeOK, GarageInv, NEW r \in Requests, DeleteRow(r)
    PROVE  GarageInv'
<1> USE StepsTyped
<1>1. PICK ok \in BOOLEAN :
        /\ Answer(r, TRUE, ok)
        /\ rows' \in (IF ok THEN {} ELSE {rows}) \cup {rows \ {r}}
  BY DEF DeleteRow
<1>2. /\ disturbed \subseteq disturbed' /\ disturbed' \subseteq disturbed \cup {r}
      /\ r \notin disturbed' => ok
  BY <1>1, Answered
<1>3. /\ pc[r] = "delete_row" /\ InFlight = {r} /\ Alone' /\ InFlight' = {}
      /\ outcome' = outcome
  <2> "ended" \notin Steps
    BY DEF Steps
  <2> QED BY <1>1, Moves DEF DeleteRow, GarageInv, TypeOK, Goto
<1>4. /\ UNCHANGED <<garage, config, instances, using, replaced>>
      /\ rows' \in {rows, rows \ {r}} /\ (ok => rows' = rows \ {r})
      /\ r \notin disturbed /\ ~replaced => r \notin garage.buckets
  BY <1>1, <1>3
     DEF DeleteRow, AllSmooth, Smooth, Started, AllFit, Fits, Install, GarageInv,
         InstanceDescribesGarage, Reaches
<1> USE <1>2, <1>3, <1>4 DEF GarageInv
<1>5. AllFit'
  BY DEF AllFit, Fits, Install, Started
<1>6. AllSmooth'
  BY DEF AllSmooth, Smooth, Started
<1>7. Served'
  BY DEF Served
<1>8. InstanceDescribesGarage'
  BY DEF InstanceDescribesGarage
<1>9. AloneSucceeds'
  BY DEF AloneSucceeds
<1>10. NoForgottenBucket'
  BY DEF NoForgottenBucket
<1> QED BY <1>5, <1>6, <1>7, <1>8, <1>9, <1>10

(***************************************************************************)
(* A request comes; Garage exits; the server crashes                       *)
(***************************************************************************)
LEMMA Comes ==
    ASSUME TypeOK, ~Concurrent, NEW r \in Requests, NEW p \in Steps, Begin(r, p)
    PROVE  InFlight = {} /\ InFlight' = {r} /\ pc'[r] = p /\ Alone' /\ disturbed' = disturbed
BY DEF TypeOK, Begin, InFlight, Alone

LEMMA CreateInv ==
    ASSUME TypeOK, GarageInv, ~Concurrent, NEW r \in Requests, Create(r)
    PROVE  GarageInv'
<1>1. /\ InFlight = {} /\ InFlight' = {r} /\ pc'[r] = "select" /\ Alone'
      /\ UNCHANGED <<garage, config, instances, rows, using, outcome, disturbed, replaced>>
  BY Comes, StepsTyped DEF Create
<1> QED BY <1>1 DEF GarageInv, AllFit, Fits, Install, Started, AllSmooth, Smooth, Served,
                    InstanceDescribesGarage, AloneSucceeds, NoForgottenBucket

\* The request that deletes a resource finds its Garage as Served says.
LEMMA DeleteInv ==
    ASSUME TypeOK, GarageInv, ~Concurrent, NEW r \in Requests, Delete(r)
    PROVE  GarageInv'
<1>1. /\ InFlight = {} /\ InFlight' = {r} /\ Alone'
      /\ UNCHANGED <<garage, config, instances, rows, outcome, disturbed, replaced>>
      /\ \/ pc'[r] = "delete_bucket" /\ using'[r] \in instances
         \/ pc'[r] = "delete_row" /\ instances = {}
      /\ r \in rows
  BY Comes, StepsTyped DEF Delete, TypeOK
<1> USE <1>1 DEF GarageInv
<1>2. AllFit'
  BY DEF AllFit, Fits, Install, Started
<1>3. AllSmooth'
  BY DEF AllSmooth, Smooth, Started, Served
<1> QED BY <1>2, <1>3 DEF Served, InstanceDescribesGarage, AloneSucceeds, NoForgottenBucket

LEMMA ExitsInv ==
    ASSUME TypeOK, GarageInv, GarageExits
    PROVE  GarageInv'
<1>1. /\ InFlight' = InFlight /\ disturbed' = disturbed \cup InFlight /\ replaced'
      /\ garage.st = "running" /\ garage'.st = "exited" /\ garage'.by = garage.by
      /\ garage'.token = garage.token /\ garage'.layout = garage.layout
      /\ UNCHANGED <<config, instances, rows, pc, using, outcome>>
  BY DEF GarageExits, InFlight, TypeOK, Container
<1>2. \A r \in InFlight : pc[r] # "start"
  BY <1>1 DEF GarageInv, AllFit, Fits, Fresh, NoContainer
<1> USE <1>1 DEF GarageInv
<1>3. AllFit'
  BY <1>2 DEF AllFit, Fits, Install, Started
<1>4. Alone' /\ AllSmooth'
  BY DEF AllSmooth, Alone
<1> QED BY <1>3, <1>4 DEF Served, InstanceDescribesGarage, AloneSucceeds, NoForgottenBucket

LEMMA CrashInv ==
    ASSUME TypeOK, GarageInv, ServerCrash
    PROVE  GarageInv'
<1>1. /\ InFlight' = {} /\ disturbed' = disturbed \cup InFlight
      /\ UNCHANGED <<garage, config, instances, rows, using, outcome, replaced>>
  <2> "ended" \notin Steps
    BY DEF Steps
  <2> QED BY DEF ServerCrash, InFlight
<1> QED BY <1>1 DEF GarageInv, Alone, AllFit, AllSmooth, Served,
                    InstanceDescribesGarage, AloneSucceeds, NoForgottenBucket

LEMMA GarageInit == Init => GarageInv
<1> SUFFICES ASSUME Init PROVE GarageInv
  OBVIOUS
<1>1. InFlight = {}
  BY DEF Init, InFlight, Steps
<1>2. garage.buckets = {}
  BY DEF Init, NoContainer
<1> QED BY <1>1, <1>2 DEF Init, GarageInv, Alone, AllFit, AllSmooth, Served,
                    InstanceDescribesGarage, AloneSucceeds, NoForgottenBucket

LEMMA GarageNext == ~Concurrent /\ TypeOK /\ GarageInv /\ [Next]_vars => GarageInv'
<1> SUFFICES ASSUME ~Concurrent, TypeOK, GarageInv, [Next]_vars PROVE GarageInv'
  OBVIOUS
<1>1. CASE \E r \in Requests : Create(r) \/ Delete(r)
  BY <1>1, CreateInv, DeleteInv
<1>2. ASSUME NEW r \in Requests, HandlerStep(r) PROVE GarageInv'
  BY <1>2, SelectInv, InspectInv, ForgetInv, StopStaleInv, RemoveStaleInv, ConfigureInv,
     CreateContainerInv, StartContainerInv, WaitUntilReadyInv, InitializeLayoutInv,
     RecordInv, CreateBucketInv, CreateKeyInv, SaveInv, DeleteBucketInv, DeleteRowInv
     DEF HandlerStep
<1>3. CASE GarageExits
  BY <1>3, ExitsInv
<1>4. CASE ServerCrash
  BY <1>4, CrashInv
<1>5. CASE UNCHANGED vars
  BY <1>5 DEF vars, GarageInv, Alone, AllFit, Fits, AllSmooth, Smooth, Served, InFlight,
              InstanceDescribesGarage, AloneSucceeds, NoForgottenBucket
<1> QED BY <1>1, <1>2, <1>3, <1>4, <1>5 DEF Next

-----------------------------------------------------------------------------
(* Theorems                                                                 *)

\* Requests served one at a time keep the invariant, whatever fails between them.
THEOREM GarageInvariant == ~Concurrent => (Spec => []GarageInv)
<1> SUFFICES ASSUME ~Concurrent PROVE Spec => []GarageInv
  OBVIOUS
<1> QED BY GarageInit, GarageNext, GarageTypeCorrect, PTL DEF Spec

\* A row of s3_instance describes the container that is there, so that a later
\* request may trust it: SELECT ... LIMIT 1 in ensure_running.
THEOREM DescriptionCorrect == ~Concurrent => (Spec => []InstanceDescribesGarage)
<1> SUFFICES ASSUME ~Concurrent PROVE Spec => []InstanceDescribesGarage
  OBVIOUS
<1>1. GarageInv => InstanceDescribesGarage
  BY DEF GarageInv
<1> QED BY <1>1, GarageInvariant, PTL

\* Whatever the requests before it left behind, a request during which nothing fails
\* succeeds: stop_stale, remove_stale and the rest of ensure_running clear the way.
THEOREM RecoveryCorrect == ~Concurrent => (Spec => []AloneSucceeds)
<1> SUFFICES ASSUME ~Concurrent PROVE Spec => []AloneSucceeds
  OBVIOUS
<1>1. GarageInv => AloneSucceeds
  BY DEF GarageInv
<1> QED BY <1>1, GarageInvariant, PTL

\* Only a failure leaves a bucket without a resource.
THEOREM BucketsAccounted == ~Concurrent => (Spec => []NoForgottenBucket)
<1> SUFFICES ASSUME ~Concurrent PROVE Spec => []NoForgottenBucket
  OBVIOUS
<1>1. GarageInv => NoForgottenBucket
  BY DEF GarageInv
<1> QED BY <1>1, GarageInvariant, PTL

\* As long as Garage was neither down nor taken for down, the bucket of a resource
\* made without a failure is there.
THEOREM ResourcesServed == ~Concurrent => (Spec => []BucketsServed)
<1> SUFFICES ASSUME ~Concurrent PROVE Spec => []BucketsServed
  OBVIOUS
<1>1. GarageInv => BucketsServed
  BY DEF GarageInv, Served, BucketsServed
<1> QED BY <1>1, GarageInvariant, PTL

=============================================================================
