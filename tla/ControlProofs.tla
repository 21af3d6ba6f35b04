---------------------------- MODULE ControlProofs ----------------------------
(***************************************************************************)
(* The composition of the updates, the watcher and the handlers on one     *)
(* process: its types, and the agreement of the row with the containers    *)
(* when the actors came one after the other, for any number of updates, of *)
(* clients and of containers that exit.                                    *)
(***************************************************************************)
EXTENDS ProcessControl, HandoverProofs, FiniteSetTheorems

(***************************************************************************)
(* The watcher and the handlers make the same calls as an update.          *)
(***************************************************************************)
LEMMA WatcherCalls ==
    /\ W!Prod = Prod
    /\ \A n, ok : /\ W!DockerStart(n, ok) <=> DockerStart(n, ok)
                  /\ W!DockerStop(n, ok) <=> DockerStop(n, ok)
                  /\ \A m : W!DockerCreate(n, m, ok) <=> DockerCreate(n, m, ok)
    /\ \A s, ok : W!UpdateStatus(s, ok) <=> UpdateStatus(s, ok)
    /\ \A m, ok : W!UpdateRunning(m, ok) <=> UpdateRunning(m, ok)
    /\ \A n, can, ok : W!Answer(n, can, ok) <=> Answer(n, can, ok)
BY DEF W!Prod, Prod, W!DockerStart, DockerStart, W!DockerStop, DockerStop,
       W!DockerCreate, DockerCreate, W!UpdateStatus, UpdateStatus, W!UpdateRunning,
       UpdateRunning, W!RowUpdate, RowUpdate, W!Docker, Docker, W!Answer, Answer,
       W!Registry, Registry

LEMMA HandlerCalls ==
    /\ R!Prod = Prod
    /\ \A n, ok : /\ R!DockerStart(n, ok) <=> DockerStart(n, ok)
                  /\ R!DockerStop(n, ok) <=> DockerStop(n, ok)
                  /\ R!DockerRemove(n, ok) <=> DockerRemove(n, ok)
                  /\ \A m : R!DockerCreate(n, m, ok) <=> DockerCreate(n, m, ok)
    /\ \A s, ok : R!UpdateStatus(s, ok) <=> UpdateStatus(s, ok)
    /\ \A m, ok : R!UpdateRunning(m, ok) <=> UpdateRunning(m, ok)
    /\ \A n, can, ok : R!Answer(n, can, ok) <=> Answer(n, can, ok)
BY DEF R!Prod, Prod, R!DockerStart, DockerStart, R!DockerStop, DockerStop,
       R!DockerCreate, DockerCreate, R!UpdateStatus, UpdateStatus, R!UpdateRunning,
       UpdateRunning, R!RowUpdate, RowUpdate, R!Docker, Docker, R!Answer, Answer,
       R!Registry, Registry, R!DockerRemove, DockerRemove, R!NoContainer, NoContainer

(***************************************************************************)
(* Types                                                                   *)
(***************************************************************************)
\* A handler at work knows what it was asked for.
ReqFits == \A r \in Clients : R!Handling(r) => op[r] \in R!Ops

SharedTypeOK ==
    /\ cont \in [Names -> Container] /\ row \in RowType /\ tag \in Versions
    /\ faults \in 0..MaxFaults /\ blamed \subseteq Names \cup {Registry}

LEMMA NamedTyped ==
    /\ Prod \in Names /\ {"watcher", "restart"} \subseteq Makers
    /\ {"building", "running", "stopped", "failed", "crashed", "gone"} \subseteq Statuses
BY DEF Names, Makers, Statuses

\* A call that reports a fault changes nothing else.
LEMMA AnswerTyped ==
    ASSUME TypeOK, NEW n \in Names \cup {Registry}, NEW can, NEW ok, Answer(n, can, ok)
    PROVE  faults' \in 0..MaxFaults /\ blamed' \subseteq Names \cup {Registry}
BY StateAssumption DEF TypeOK, Answer

LEMMA WatchTyped ==
    ASSUME TypeOK, W!WatchTypeOK, W!WatchStep
    PROVE  SharedTypeOK' /\ W!WatchTypeOK'
<1> USE WatcherCalls, NamedTyped DEF W!WatchTypeOK, W!WatchSteps, SharedTypeOK
<1>0. SharedTypeOK
  BY DEF TypeOK
<1>1. CASE W!List \/ W!Inspect \/ W!AwaitRestart \/ W!Recheck \/ W!AwaitStart
  <2>1. UNCHANGED sharedVars
    BY <1>1 DEF W!List, W!Inspect, W!AwaitRestart, W!Recheck, W!AwaitStart, W!Await,
                W!sharedVars, sharedVars
  <2>2. wpc' \in W!WatchSteps
    <3>1. CASE W!List \/ W!AwaitRestart \/ W!AwaitStart
      BY <3>1 DEF W!List, W!AwaitRestart, W!AwaitStart, W!Await
    <3>2. CASE W!Inspect
      BY <3>2 DEF W!Inspect
    <3>3. CASE W!Recheck
      BY <3>3 DEF W!Recheck
    <3> QED BY <1>1, <3>1, <3>2, <3>3
  <2> QED BY <1>0, <2>1, <2>2 DEF sharedVars
<1>2. CASE W!InspectFails
  BY <1>0, <1>2, AnswerTyped DEF W!InspectFails
<1>3. CASE W!ReadFails
  BY <1>0, <1>3, AnswerTyped DEF W!ReadFails, W!Registry, Registry
<1>4. CASE W!MarkExited \/ W!MarkRestarted \/ W!MarkMissing \/ W!GiveUp
  <2>1. PICK s \in Statuses, ok \in BOOLEAN : UpdateStatus(s, ok)
    BY <1>4 DEF W!MarkExited, W!MarkRestarted, W!MarkMissing, W!GiveUp
  <2>2. UNCHANGED <<cont, tag>> /\ wpc' \in W!WatchSteps
    BY <1>4 DEF W!MarkExited, W!MarkRestarted, W!MarkMissing, W!GiveUp, W!RowOnly
  <2> QED BY <1>0, <2>1, <2>2, StatusTyped
<1>5. CASE W!MarkRecreated
  <2>1. PICK ok \in BOOLEAN : UpdateRunning("watcher", ok)
    BY <1>5 DEF W!MarkRecreated
  <2> QED BY <1>0, <1>5, <2>1, RunningTyped DEF W!MarkRecreated, W!RowOnly
<1>6. CASE W!Restart \/ W!Create \/ W!Start
  <2>1. PICK ok \in BOOLEAN : \/ DockerStop(Prod, ok) \/ DockerStart(Prod, ok)
                              \/ DockerCreate(Prod, "watcher", ok)
    BY <1>6 DEF W!Restart, W!Create, W!Start
  <2>2. UNCHANGED <<row, tag>> /\ wpc' \in W!WatchSteps
    BY <1>6 DEF W!Restart, W!Create, W!Start, W!DockerOnly
  <2> QED BY <1>0, <2>1, <2>2, CallsTyped
<1> QED BY <1>1, <1>2, <1>3, <1>4, <1>5, <1>6 DEF W!WatchStep

\* What a handler does next, and whether it knows what it was asked for.
LEMMA ProceedTyped ==
    ASSUME R!RequestTypeOK, ReqFits, NEW r \in Clients, NEW to \in R!RequestSteps,
           rpc[r] # "idle", R!Proceed(r, to)
    PROVE  R!RequestTypeOK' /\ ReqFits'
BY DEF R!RequestTypeOK, R!Proceed, ReqFits, R!Handling, R!NoOp

LEMMA HandlerTyped ==
    ASSUME TypeOK, R!RequestTypeOK, ReqFits, NEW r \in Clients, R!HandlerStep(r)
    PROVE  SharedTypeOK' /\ R!RequestTypeOK' /\ ReqFits'
<1> USE HandlerCalls, NamedTyped DEF SharedTypeOK
<1>0. SharedTypeOK
  BY DEF TypeOK
<1>1. \E to \in R!RequestSteps : rpc[r] # "idle" /\ R!Proceed(r, to)
  <2> USE DEF R!RequestSteps
  <2>1. CASE R!RemoveContainer(r)
    <3>1. op[r] \in {"stop", "restart", "delete"} /\ rpc[r] = "remove_container"
      BY <2>1 DEF R!RemoveContainer, ReqFits, R!Handling, R!Ops
    <3> QED BY <2>1, <3>1 DEF R!RemoveContainer
  <2>2. CASE R!DeleteRow(r) \/ R!StopContainer(r) \/ R!MarkStopped(r) \/ R!EnvUnread(r)
    BY <2>2 DEF R!DeleteRow, R!StopContainer, R!MarkStopped, R!EnvUnread
  <2>3. CASE \/ R!CreateContainer(r) \/ R!StartContainer(r) \/ R!RegisterContainer(r)
             \/ R!MarkFailed(r)
    BY <2>3 DEF R!CreateContainer, R!StartContainer, R!RegisterContainer, R!MarkFailed
  <2> QED BY <2>1, <2>2, <2>3 DEF R!HandlerStep
<1>2. SharedTypeOK'
  <2>1. CASE R!DeleteRow(r) \/ R!MarkStopped(r) \/ R!MarkFailed(r)
    <3>1. PICK s \in Statuses, ok \in BOOLEAN : UpdateStatus(s, ok)
      BY <2>1 DEF R!DeleteRow, R!MarkStopped, R!MarkFailed
    <3>2. UNCHANGED <<cont, tag>>
      BY <2>1 DEF R!DeleteRow, R!MarkStopped, R!MarkFailed, R!OnRow
    <3> QED BY <1>0, <3>1, <3>2, StatusTyped
  <2>2. CASE R!RegisterContainer(r)
    <3>1. PICK ok \in BOOLEAN : UpdateRunning("restart", ok)
      BY <2>2 DEF R!RegisterContainer
    <3> QED BY <1>0, <2>2, <3>1, RunningTyped DEF R!RegisterContainer, R!OnRow
  <2>3. CASE R!EnvUnread(r)
    BY <1>0, <2>3, AnswerTyped DEF R!EnvUnread, R!Registry, Registry
  <2>4. CASE \/ R!StopContainer(r) \/ R!RemoveContainer(r) \/ R!CreateContainer(r)
             \/ R!StartContainer(r)
    <3>1. PICK ok \in BOOLEAN : \/ DockerStop(Prod, ok) \/ DockerStart(Prod, ok)
                                \/ DockerRemove(Prod, ok)
                                \/ DockerCreate(Prod, "restart", ok)
      BY <2>4 DEF R!StopContainer, R!RemoveContainer, R!CreateContainer, R!StartContainer
    <3>2. UNCHANGED <<row, tag>>
      BY <2>4 DEF R!StopContainer, R!RemoveContainer, R!CreateContainer, R!StartContainer,
                  R!OnDocker
    <3> QED BY <1>0, <3>1, <3>2, CallsTyped
  <2> QED BY <2>1, <2>2, <2>3, <2>4 DEF R!HandlerStep
<1> QED BY <1>1, <1>2, ProceedTyped

LEMMA ArriveTyped ==
    ASSUME R!RequestTypeOK, ReqFits, NEW r \in Clients, R!Arrive(r)
    PROVE  R!RequestTypeOK' /\ ReqFits'
BY DEF R!RequestTypeOK, R!RequestSteps, R!Ops, R!Arrive, ReqFits, R!Handling

LEMMA ControlTypeInit == ControlInit => ControlTypeOK /\ ReqFits
<1> SUFFICES ASSUME ControlInit PROVE ControlTypeOK /\ ReqFits
  OBVIOUS
<1>1. TypeOK
  BY InitTyped DEF ControlInit
<1>2. 0 \in 0..MaxExits /\ 0 \in 0..MaxCrashes
  BY ControlAssumption
<1>3. W!WatchTypeOK /\ R!RequestTypeOK /\ ReqFits
  BY DEF ControlInit, W!WatchInit, W!WatchTypeOK, W!WatchSteps, R!RequestInit,
         R!RequestTypeOK, R!RequestSteps, R!NoOp, ReqFits, R!Handling
<1> QED BY <1>1, <1>2, <1>3 DEF ControlInit, ControlTypeOK

LEMMA ControlTypeNext ==
    ControlTypeOK /\ ReqFits /\ [ControlNext]_controlVars => (ControlTypeOK /\ ReqFits)'
<1> SUFFICES ASSUME ControlTypeOK, ReqFits, [ControlNext]_controlVars
             PROVE  (ControlTypeOK /\ ReqFits)'
  OBVIOUS
<1>0. /\ TypeOK /\ W!WatchTypeOK /\ R!RequestTypeOK
      /\ exits \in 0..MaxExits /\ crashes \in 0..MaxCrashes
      /\ asked \in BOOLEAN /\ overlapped \in BOOLEAN
  BY DEF ControlTypeOK
<1> USE DEF Observe
<1>1. CASE \E t \in Updates : Submit(t) \/ Run(t)
  <2>1. TypeOK'
    BY <1>0, <1>1, TaskStepTyped DEF Submit, Run
  <2>2. UNCHANGED <<wpc, op, rpc, exits, crashes, asked>> /\ overlapped' \in BOOLEAN
    BY <1>0, <1>1 DEF Submit, Run, UpdateFrame
  <2> QED BY <1>0, <2>1, <2>2
          DEF ControlTypeOK, W!WatchTypeOK, R!RequestTypeOK, ReqFits, R!Handling
<1>2. CASE Watch
  <2>1. SharedTypeOK' /\ W!WatchTypeOK'
    BY <1>0, <1>2, WatchTyped DEF Watch
  <2>2. /\ UNCHANGED <<updateVars, passed, op, rpc, exits, crashes, asked>>
        /\ overlapped' \in BOOLEAN /\ expectUp' \in BOOLEAN
    BY <1>0, <1>2 DEF Watch, WatchFrame, WatchObserve, TypeOK
  <2> QED BY <1>0, <2>1, <2>2
          DEF ControlTypeOK, SharedTypeOK, TypeOK, updateVars, R!RequestTypeOK, ReqFits,
              R!Handling
<1>3. CASE \E r \in Clients : Serve(r)
  <2>1. SharedTypeOK' /\ R!RequestTypeOK' /\ ReqFits'
    BY <1>0, <1>3, HandlerTyped DEF Serve
  <2>2. /\ UNCHANGED <<updateVars, passed, wpc, exits, crashes, asked, expectUp>>
        /\ overlapped' \in BOOLEAN
    BY <1>0, <1>3 DEF Serve, RequestFrame
  <2> QED BY <1>0, <2>1, <2>2
          DEF ControlTypeOK, SharedTypeOK, TypeOK, updateVars, W!WatchTypeOK
<1>4. CASE \E r \in Clients : Ask(r)
  <2>1. R!RequestTypeOK' /\ ReqFits' /\ UNCHANGED sharedVars
    BY <1>0, <1>4, ArriveTyped DEF Ask, R!Arrive, R!sharedVars, sharedVars
  <2>2. /\ UNCHANGED <<updateVars, passed, wpc, exits, crashes>>
        /\ overlapped' \in BOOLEAN /\ expectUp' \in BOOLEAN /\ asked' \in BOOLEAN
    BY <1>0, <1>4, ControlAssumption DEF Ask, RequestFrame
  <2> QED BY <1>0, <2>1, <2>2
          DEF ControlTypeOK, TypeOK, updateVars, sharedVars, W!WatchTypeOK
<1>5. CASE \E n \in Names : Exit(n)
  <2>1. /\ TypeOK' /\ exits' \in 0..MaxExits
        /\ UNCHANGED <<wpc, op, rpc, crashes, asked, overlapped>>
    BY <1>0, <1>5, ControlAssumption
    DEF Exit, ContainerExits, TypeOK, Container, updateVars
  <2> QED BY <1>0, <2>1
          DEF ControlTypeOK, W!WatchTypeOK, R!RequestTypeOK, ReqFits, R!Handling
<1>6. CASE Crash
  <2>1. /\ crashes' \in 0..MaxCrashes
        /\ UNCHANGED <<sharedVars, attempts, outcome, passed, expectUp, exits, asked,
                       overlapped>>
    BY <1>0, <1>6, ControlAssumption DEF Crash
  <2>2. pc' \in [Updates -> Steps \cup Finished]
    BY <1>0, <1>6 DEF Crash, TypeOK, Finished
  <2>3. W!WatchTypeOK' /\ R!RequestTypeOK' /\ ReqFits'
    BY <1>6 DEF Crash, W!WatchTypeOK, W!WatchSteps, R!RequestTypeOK, R!RequestSteps,
                ReqFits, R!Handling
  <2> QED BY <1>0, <2>1, <2>2, <2>3 DEF ControlTypeOK, TypeOK, sharedVars
<1>7. CASE UNCHANGED controlVars
  BY <1>0, <1>7
  DEF controlVars, vars, sharedVars, updateVars, ControlTypeOK, TypeOK, W!WatchTypeOK,
      R!RequestTypeOK, ReqFits, R!Handling
<1> QED BY <1>1, <1>2, <1>3, <1>4, <1>5, <1>6, <1>7 DEF ControlNext

LEMMA ControlTyped == ControlSpec => [](ControlTypeOK /\ ReqFits)
BY ControlTypeInit, ControlTypeNext, PTL DEF ControlSpec

\* The updates, the watcher and the handlers together leave every variable well typed,
\* the steps of the watcher and of the handlers among them.
THEOREM ControlTypeCorrect == ControlSpec => []ControlTypeOK
BY ControlTyped, PTL

-----------------------------------------------------------------------------
(***************************************************************************)
(* Agreement at rest.  As long as no two actors overlapped, nothing failed *)
(* and the server never died, at most one actor is at work, and what it    *)
(* finds at each of its steps follows from how it came there; when it ends *)
(* it leaves the row and the containers in agreement.                      *)
(***************************************************************************)
Quiet == ~overlapped /\ faults = 0 /\ crashes = 0

\* The row describes the container that has the name n, if that ever ran.
Matches(n) == cont[n].st \in {"running", "exited"} =>
    \/ cont[n].by = row.container
    \/ cont[n].by = "watcher" /\ exits > 0

OnlyAt(S) == \A n \in Names \ S : cont[n].st = "none"

\* What is left when nobody is at work, ...
Rested == /\ row.status # "building"
          /\ row.status \in {"gone", "stopped"} => cont[Prod].st = "none"
          /\ Matches(Prod) /\ OnlyAt({Prod})

\* ... what there is at a step of update t, ...
BesideOld == {"build", "create_canary", "start_canary", "probe_canary", "move_old",
              "stop_canary", "remove_canary", "report"}
MovedOld  == {"create_new", "start_new", "probe_new", "register", "remove_new",
              "restore_old"}
UpdateAt(t, step) ==
    /\ row.status \in {"building", "running"}
    /\ outcome[t] = "ok" => row.status = "running"
    /\ OnlyAt({Prod, Canary(t), Old(t)})
    /\ step \in {"build", "create_canary", "report"} => cont[Canary(t)].st = "none"
    /\ step = "remove_canary" => cont[Canary(t)].st # "running"
    /\ step \in BesideOld => cont[Old(t)].st = "none" /\ Matches(Prod)
    /\ step \in MovedOld => cont[Old(t)].st # "none" /\ Matches(Old(t))
    /\ step \in {"create_new", "restore_old"} => cont[Prod].st = "none"
    /\ step = "start_new" => cont[Prod].st = "created"
    /\ step \in {"start_new", "probe_new", "register", "stop_old", "remove_old"} =>
          cont[Prod].by = t
    /\ step \in {"stop_old", "remove_old"} => row.container = t
    /\ step = "remove_old" => cont[Old(t)].st # "running"

\* ... of the watcher, ...
WatchAt(step) ==
    /\ row.status \in {"running", "crashed"}
    /\ OnlyAt({Prod})
    /\ step \in {"inspect", "mark_exited", "restart", "await_restart", "mark_restarted",
                 "give_up"} => Matches(Prod)
    /\ step \in {"mark_exited", "restart"} => cont[Prod].st = "exited"
    /\ step \in {"recheck", "mark_imageless", "mark_missing", "create"} =>
          cont[Prod].st = "none"
    /\ step = "start" => cont[Prod].st = "created"
    /\ step = "await_start" => /\ cont[Prod].st \in {"running", "exited"}
                               /\ cont[Prod].st = "exited" => exits > 0
    /\ step \in {"start", "await_start", "mark_recreated"} => cont[Prod].by = "watcher"
    /\ step # "restarting"

\* ... and of the handler of a request.
RequestAt(r, step) ==
    /\ row.status # "building"
    /\ row.status = "gone" <=> op[r] = "delete" /\ step # "delete_row"
    /\ OnlyAt({Prod})
    /\ step \in {"delete_row", "stop_container", "remove_container"} => Matches(Prod)
    /\ step = "remove_container" => cont[Prod].st # "running"
    /\ step \in {"mark_stopped", "create"} => cont[Prod].st = "none"
    /\ step = "start" => cont[Prod].st = "created"
    /\ step \in {"start", "register"} => cont[Prod].by = "restart"
    /\ step # "mark_failed"
    /\ step = "delete_row" => op[r] = "delete"
    /\ step = "mark_stopped" => op[r] = "stop"
    /\ step \in {"create", "start", "register"} => op[r] = "restart"

Few == IsFiniteSet(Busy)
QuietInv ==
    Quiet =>
        /\ \A a, b \in Busy : a = b
        /\ Busy = {} => Rested
        /\ \A t \in Updates : pc[t] = "idle" => outcome[t] = "none"
        /\ \A t \in Updates : InFlight(t) => UpdateAt(t, pc[t])
        /\ wpc # "sleep" => WatchAt(wpc)
        /\ \A r \in Clients : R!Handling(r) => RequestAt(r, rpc[r])

-----------------------------------------------------------------------------
(* Calls that nothing hits                                                  *)

Unhit == faults = 0 /\ faults' = 0

LEMMA UnhitCreate ==
    ASSUME Unhit, TypeOK, NEW n \in Names, NEW v \in Makers, NEW ok \in BOOLEAN,
           DockerCreate(n, v, ok)
    PROVE  /\ \A m \in Names \ {n} : cont'[m] = cont[m]
           /\ cont[n].st = "none" =>
                ok /\ cont'[n].st = "created" /\ cont'[n].by = v
           /\ cont[n].st # "none" => ~ok /\ cont'[n] = cont[n]
BY DEF DockerCreate, Docker, Answer, TypeOK, Unhit

LEMMA UnhitStart ==
    ASSUME Unhit, TypeOK, NEW n \in Names, NEW ok \in BOOLEAN, DockerStart(n, ok)
    PROVE  /\ \A m \in Names \ {n} : cont'[m] = cont[m]
           /\ cont'[n].by = cont[n].by
           /\ cont[n].st # "none" => ok /\ cont'[n].st = "running"
           /\ cont[n].st = "none" => ~ok /\ cont'[n] = cont[n]
BY DEF DockerStart, Docker, Answer, TypeOK, Container, Unhit

LEMMA UnhitStop ==
    ASSUME Unhit, TypeOK, NEW n \in Names, NEW ok \in BOOLEAN, DockerStop(n, ok)
    PROVE  /\ \A m \in Names \ {n} : cont'[m] = cont[m]
           /\ cont'[n].by = cont[n].by
           /\ cont[n].st = "running" => cont'[n].st = "exited"
           /\ cont[n].st # "running" => cont'[n].st = cont[n].st
BY DEF DockerStop, Docker, Answer, TypeOK, Container, Unhit

LEMMA UnhitRemove ==
    ASSUME Unhit, TypeOK, NEW n \in Names, NEW ok \in BOOLEAN, DockerRemove(n, ok)
    PROVE  /\ \A m \in Names \ {n} : cont'[m] = cont[m]
           /\ cont[n].st # "running" => cont'[n].st = "none"
<1>1. cont[n].st \in {"none", "created", "running", "exited"}
  BY DEF TypeOK, Container
<1> QED BY <1>1 DEF DockerRemove, Docker, Answer, TypeOK, NoContainer, Unhit

LEMMA UnhitForceRemove ==
    ASSUME Unhit, TypeOK, NEW n \in Names, NEW ok \in BOOLEAN, DockerForceRemove(n, ok)
    PROVE  /\ \A m \in Names \ {n} : cont'[m] = cont[m]
           /\ cont'[n].st = "none"
BY DEF DockerForceRemove, Docker, Answer, TypeOK, NoContainer, Unhit

LEMMA UnhitRename ==
    ASSUME Unhit, TypeOK, NEW n \in Names, NEW m \in Names, n # m, NEW ok \in BOOLEAN,
           DockerRename(n, m, ok)
    PROVE  /\ \A l \in Names \ {n, m} : cont'[l] = cont[l]
           /\ cont[n].st # "none" /\ cont[m].st = "none" =>
                ok /\ cont'[n].st = "none" /\ cont'[m] = cont[n]
           /\ cont[n].st = "none" \/ cont[m].st # "none" => ~ok /\ cont' = cont
BY DEF DockerRename, Docker, Answer, TypeOK, NoContainer, Unhit

LEMMA UnhitStatus ==
    ASSUME Unhit, TypeOK, NEW s, NEW ok \in BOOLEAN, UpdateStatus(s, ok)
    PROVE  /\ ok /\ row'.container = row.container
           /\ row'.status = IF row.status = "gone" THEN "gone" ELSE s
BY DEF Unhit, UpdateStatus, RowUpdate, Answer, TypeOK, RowType

LEMMA UnhitRunning ==
    ASSUME Unhit, TypeOK, NEW m, NEW ok \in BOOLEAN, UpdateRunning(m, ok)
    PROVE  /\ ok
           /\ row.status # "gone" => row'.status = "running" /\ row'.container = m
           /\ row.status = "gone" => row' = row
BY DEF Unhit, UpdateRunning, RowUpdate, Answer, TypeOK, RowType


-----------------------------------------------------------------------------
(* The steps of an update that is alone                                     *)

\* Update t comes to this step, or to its end.
Comes(t, step) ==
    /\ pc' = [pc EXCEPT ![t] = step]
    /\ IF step \in Finished THEN Rested' ELSE UpdateAt(t, step)'

\* The names of an update that is alone are all there is.
LEMMA OwnNames ==
    ASSUME NEW t \in Updates
    PROVE  /\ Prod \in Names /\ Canary(t) \in Names /\ Old(t) \in Names
           /\ Prod # Canary(t) /\ Prod # Old(t) /\ Canary(t) # Old(t)
BY NamesApart

LEMMA LoneBegin ==
    ASSUME TypeOK, Unhit, NEW t \in Updates, Rested, outcome[t] = "none",
           Begin(t), exits' = exits
    PROVE  \E step : Comes(t, step)
<1>1. PICK ok \in BOOLEAN : /\ UpdateStatus("building", ok)
                            /\ IF ok THEN \E attached \in BOOLEAN :
                                   Branch(t, attached, "build", "report", "failed")
                                 ELSE Goto(t, "done") /\ UNCHANGED outcome
  BY DEF Begin
<1>2. /\ row.status # "gone" /\ cont' = cont
      /\ ok /\ row'.status = "building" /\ row'.container = row.container
  BY <1>1, UnhitStatus DEF Begin, RowStep
<1>3. PICK attached \in BOOLEAN : Branch(t, attached, "build", "report", "failed")
  BY <1>1, <1>2
<1>4. outcome'[t] # "ok"
  BY <1>3 DEF Branch, Decide, TypeOK
<1>5. UpdateAt(t, "build")' /\ UpdateAt(t, "report")'
  BY <1>2, <1>4, OwnNames
  DEF UpdateAt, Rested, OnlyAt, Matches, BesideOld, MovedOld
<1> QED BY <1>3, <1>5 DEF Branch, Goto, Comes, Finished

\* The steps around the canary leave the rest alone.
CanaryStep(t) ==
    \/ Build(t) \/ CreateCanary(t) \/ StartCanary(t) \/ ProbeCanary(t)
    \/ StopCanary(t) \/ RemoveCanary(t)

LEMMA CanaryStepFrame ==
    ASSUME TypeOK, Unhit, NEW t \in Updates, CanaryStep(t)
    PROVE  /\ row' = row /\ outcome'[t] \in {outcome[t], "failed", "rolled_back"}
           /\ \A n \in Names \ {Canary(t)} : cont'[n] = cont[n]
<1> USE OwnNames DEF TypeOK, Branch, Decide
<1>1. CASE Build(t) \/ ProbeCanary(t)
  BY <1>1 DEF Build, ProbeCanary, DockerStep
<1>2. CASE CreateCanary(t)
  <2>1. t \in Makers
    BY DEF Makers, Versions
  <2> QED BY <1>2, <2>1, UnhitCreate DEF CreateCanary, DockerStep
<1>3. CASE StartCanary(t)
  BY <1>3, UnhitStart DEF StartCanary, DockerStep
<1>4. CASE StopCanary(t)
  BY <1>4, UnhitStop DEF StopCanary, DockerStep, CleanupStep
<1>5. CASE RemoveCanary(t)
  BY <1>5, UnhitRemove DEF RemoveCanary, DockerStep, CleanupStep
<1> QED BY <1>1, <1>2, <1>3, <1>4, <1>5 DEF CanaryStep

LEMMA LoneCanaryStep ==
    ASSUME TypeOK, Unhit, NEW t \in Updates, UpdateAt(t, pc[t]), CanaryStep(t),
           exits' = exits
    PROVE  \E step : Comes(t, step)
<1> DEFINE Onto(step) == /\ step \in BesideOld /\ pc' = [pc EXCEPT ![t] = step]
                         /\ step \in {"build", "create_canary", "report"} =>
                              cont'[Canary(t)].st = "none"
                         /\ step = "remove_canary" => cont'[Canary(t)].st # "running"
<1> USE OwnNames DEF BesideOld
<1>1. pc[t] \in BesideOld
  BY DEF CanaryStep, Build, CreateCanary, StartCanary, ProbeCanary, StopCanary, RemoveCanary
<1>2. \E step : Onto(step)
  <2>1. CASE Build(t)
    <3>1. cont' = cont /\ cont[Canary(t)].st = "none"
      BY <2>1 DEF Build, UpdateAt
    <3>2. PICK ok \in BOOLEAN : Branch(t, ok, "create_canary", "report", "failed")
      BY <2>1 DEF Build
    <3>3. Onto("create_canary") \/ Onto("report")
      BY <3>1, <3>2 DEF Branch, Goto
    <3> QED BY <3>3
  <2>2. CASE CreateCanary(t)
    <3>1. PICK ok \in BOOLEAN : /\ DockerCreate(Canary(t), t, ok)
                                /\ Branch(t, ok, "start_canary", "report", "failed")
      BY <2>2 DEF CreateCanary
    <3>2. cont[Canary(t)].st = "none" /\ t \in Makers
      BY <2>2 DEF CreateCanary, UpdateAt, Makers, Versions
    <3>3. Onto("start_canary")
      BY <3>1, <3>2, UnhitCreate DEF Branch, Goto
    <3> QED BY <3>3
  <2>3. CASE StartCanary(t)
    <3>1. PICK ok \in BOOLEAN : /\ DockerStart(Canary(t), ok)
                                /\ Branch(t, ok, "probe_canary", "report", "failed")
      BY <2>3 DEF StartCanary
    <3>2. ok \/ cont'[Canary(t)].st = "none"
      BY <3>1, UnhitStart
    <3>3. Onto("probe_canary") \/ Onto("report")
      BY <3>1, <3>2 DEF Branch, Goto
    <3> QED BY <3>3
  <2>4. CASE ProbeCanary(t)
    <3>1. Onto("move_old") \/ Onto("stop_canary")
      BY <2>4 DEF ProbeCanary, Branch, Goto
    <3> QED BY <3>1
  <2>5. CASE StopCanary(t)
    <3>1. Onto("remove_canary")
      BY <2>5, UnhitStop DEF StopCanary, CleanupStep, Goto
    <3> QED BY <3>1
  <2>6. CASE RemoveCanary(t)
    <3>1. cont[Canary(t)].st # "running"
      BY <2>6 DEF RemoveCanary, UpdateAt
    <3>2. Onto("report")
      BY <2>6, <3>1, UnhitRemove DEF RemoveCanary, CleanupStep, Goto
    <3> QED BY <3>2
  <2> QED BY <2>1, <2>2, <2>3, <2>4, <2>5, <2>6 DEF CanaryStep
<1>3. PICK step : Onto(step)
  BY <1>2
<1>4. /\ row' = row /\ outcome'[t] \in {outcome[t], "failed", "rolled_back"}
      /\ \A n \in Names \ {Canary(t)} : cont'[n] = cont[n]
  BY CanaryStepFrame
<1>5. UpdateAt(t, step)'
  BY <1>1, <1>3, <1>4 DEF UpdateAt, OnlyAt, Matches, MovedOld
<1> QED BY <1>3, <1>5 DEF Comes, Finished

\* Of the other steps, those that write the row or decide the outcome apart.
LEMMA LoneMoveOld ==
    ASSUME TypeOK, Unhit, NEW t \in Updates, UpdateAt(t, pc[t]), MoveOld(t),
           exits' = exits
    PROVE  \E step : Comes(t, step)
<1> USE OwnNames DEF BesideOld, MovedOld
<1>1. /\ pc[t] = "move_old" /\ row' = row
      /\ outcome'[t] \in {outcome[t], "failed"}
  BY DEF MoveOld, DockerStep, Branch, Decide, TypeOK
<1>2. CASE /\ Goto(t, "stop_canary") /\ UNCHANGED <<cont, faults, blamed>>
  <2>1. UpdateAt(t, "stop_canary")'
    BY <1>1, <1>2 DEF UpdateAt, OnlyAt, Matches
  <2> QED BY <1>2, <2>1 DEF Goto, Comes, Finished
<1>3. CASE \E ok \in BOOLEAN : /\ DockerRename(Prod, Old(t), ok)
                               /\ Branch(t, ok, "create_new", "stop_canary", "failed")
  <2>1. PICK ok \in BOOLEAN : /\ DockerRename(Prod, Old(t), ok)
                              /\ Branch(t, ok, "create_new", "stop_canary", "failed")
    BY <1>3
  <2>2. cont[Old(t)].st = "none" /\ Matches(Prod)
    BY <1>1 DEF UpdateAt
  <2>3. CASE cont[Prod].st = "none"
    <3>1. cont' = cont /\ ~ok
      BY <2>1, <2>3, UnhitRename
    <3>2. UpdateAt(t, "stop_canary")'
      BY <1>1, <3>1 DEF UpdateAt, OnlyAt, Matches
    <3> QED BY <2>1, <3>1, <3>2 DEF Branch, Goto, Comes, Finished
  <2>4. CASE cont[Prod].st # "none"
    <3>1. /\ ok /\ cont'[Prod].st = "none" /\ cont'[Old(t)] = cont[Prod]
          /\ \A n \in Names \ {Prod, Old(t)} : cont'[n] = cont[n]
      BY <2>1, <2>2, <2>4, UnhitRename
    <3>2. UpdateAt(t, "create_new")'
      BY <1>1, <2>2, <2>4, <3>1 DEF UpdateAt, OnlyAt, Matches
    <3> QED BY <2>1, <3>1, <3>2 DEF Branch, Goto, Comes, Finished
  <2> QED BY <2>3, <2>4
<1> QED BY <1>2, <1>3 DEF MoveOld

LEMMA LoneNew ==
    ASSUME TypeOK, Unhit, NEW t \in Updates, UpdateAt(t, pc[t]),
           CreateNew(t) \/ StartNew(t) \/ ProbeNew(t) \/ RemoveNew(t), exits' = exits
    PROVE  \E step : Comes(t, step)
<1> USE OwnNames DEF BesideOld, MovedOld
<1>1. /\ row' = row /\ outcome'[t] \in {outcome[t], "failed", "rolled_back"}
  BY DEF CreateNew, StartNew, ProbeNew, RemoveNew, CleanupStep, DockerStep, Branch,
         Decide, TypeOK, sharedVars
<1>2. CASE CreateNew(t)
  <2>1. PICK ok \in BOOLEAN : /\ DockerCreate(Prod, t, ok)
                              /\ Branch(t, ok, "start_new", "remove_new", "failed")
    BY <1>2 DEF CreateNew
  <2>2. pc[t] = "create_new" /\ cont[Prod].st = "none" /\ t \in Makers
    BY <1>2 DEF CreateNew, UpdateAt, Makers, Versions
  <2>3. /\ ok /\ cont'[Prod].st = "created" /\ cont'[Prod].by = t
        /\ \A n \in Names \ {Prod} : cont'[n] = cont[n]
    BY <2>1, <2>2, UnhitCreate
  <2>4. UpdateAt(t, "start_new")'
    BY <1>1, <2>2, <2>3 DEF UpdateAt, OnlyAt, Matches
  <2> QED BY <2>1, <2>3, <2>4 DEF Branch, Goto, Comes, Finished
<1>3. CASE StartNew(t)
  <2>1. PICK ok \in BOOLEAN : /\ DockerStart(Prod, ok)
                              /\ Branch(t, ok, "probe_new", "remove_new", "failed")
    BY <1>3 DEF StartNew
  <2>2. pc[t] = "start_new" /\ cont[Prod].st = "created"
    BY <1>3 DEF StartNew, UpdateAt
  <2>3. /\ ok /\ cont'[Prod].by = cont[Prod].by
        /\ \A n \in Names \ {Prod} : cont'[n] = cont[n]
    BY <2>1, <2>2, UnhitStart
  <2>4. UpdateAt(t, "probe_new")'
    BY <1>1, <2>2, <2>3 DEF UpdateAt, OnlyAt, Matches
  <2> QED BY <2>1, <2>3, <2>4 DEF Branch, Goto, Comes, Finished
<1>4. CASE ProbeNew(t)
  <2>1. pc[t] = "probe_new" /\ cont' = cont
    BY <1>4 DEF ProbeNew, sharedVars
  <2>2. PICK ok \in BOOLEAN : Branch(t, ok, "register", "remove_new", "rolled_back")
    BY <1>4 DEF ProbeNew
  <2>3. UpdateAt(t, "register")' /\ UpdateAt(t, "remove_new")'
    BY <1>1, <2>1 DEF UpdateAt, OnlyAt, Matches
  <2> QED BY <2>2, <2>3 DEF Branch, Goto, Comes, Finished
<1>5. CASE RemoveNew(t)
  <2>1. pc[t] = "remove_new" /\ pc' = [pc EXCEPT ![t] = "restore_old"]
    BY <1>5 DEF RemoveNew, CleanupStep, Goto
  <2>2. /\ cont'[Prod].st = "none"
        /\ \A n \in Names \ {Prod} : cont'[n] = cont[n]
    BY <1>5, UnhitForceRemove DEF RemoveNew
  <2>3. UpdateAt(t, "restore_old")'
    BY <1>1, <2>1, <2>2 DEF UpdateAt, OnlyAt, Matches
  <2> QED BY <2>1, <2>3 DEF Comes, Finished
<1> QED BY <1>2, <1>3, <1>4, <1>5

LEMMA LoneOld ==
    ASSUME TypeOK, Unhit, NEW t \in Updates, UpdateAt(t, pc[t]),
           StopOld(t) \/ RemoveOld(t) \/ RestoreOld(t), exits' = exits
    PROVE  \E step : Comes(t, step)
<1> USE OwnNames DEF BesideOld, MovedOld
<1>1. row' = row
  BY DEF StopOld, RemoveOld, RestoreOld, CleanupStep, DockerStep
<1>2. CASE StopOld(t)
  <2>1. /\ pc[t] = "stop_old" /\ pc' = [pc EXCEPT ![t] = "remove_old"]
        /\ outcome' = outcome
    BY <1>2 DEF StopOld, CleanupStep, Goto
  <2>2. /\ cont'[Old(t)].st # "running"
        /\ \A n \in Names \ {Old(t)} : cont'[n] = cont[n]
    BY <1>2, UnhitStop DEF StopOld
  <2>3. UpdateAt(t, "remove_old")'
    BY <1>1, <2>1, <2>2 DEF UpdateAt, OnlyAt, Matches
  <2> QED BY <2>1, <2>3 DEF Comes, Finished
<1>3. CASE RemoveOld(t)
  <2>1. /\ pc[t] = "remove_old" /\ pc' = [pc EXCEPT ![t] = "stop_canary"]
        /\ outcome' = outcome
    BY <1>3 DEF RemoveOld, CleanupStep, Goto
  <2>2. cont[Old(t)].st # "running"
    BY <2>1 DEF UpdateAt
  <2>3. /\ cont'[Old(t)].st = "none"
        /\ \A n \in Names \ {Old(t)} : cont'[n] = cont[n]
    BY <1>3, <2>2, UnhitRemove DEF RemoveOld
  <2>4. UpdateAt(t, "stop_canary")'
    BY <1>1, <2>1, <2>3 DEF UpdateAt, OnlyAt, Matches
  <2> QED BY <2>1, <2>4 DEF Comes, Finished
<1>4. CASE RestoreOld(t)
  <2>1. PICK ok \in BOOLEAN : DockerRename(Old(t), Prod, ok)
    BY <1>4 DEF RestoreOld
  <2>2. /\ pc[t] = "restore_old" /\ pc' = [pc EXCEPT ![t] = "stop_canary"]
        /\ outcome'[t] \in {outcome[t], "rolled_back", "failed"}
    BY <1>4 DEF RestoreOld, Decide, TypeOK, Goto
  <2>3. cont[Prod].st = "none" /\ cont[Old(t)].st # "none" /\ Matches(Old(t))
    BY <2>2 DEF UpdateAt
  <2>4. /\ cont'[Old(t)].st = "none" /\ cont'[Prod] = cont[Old(t)]
        /\ \A n \in Names \ {Prod, Old(t)} : cont'[n] = cont[n]
    BY <2>1, <2>3, UnhitRename
  <2>5. UpdateAt(t, "stop_canary")'
    BY <1>1, <2>2, <2>3, <2>4 DEF UpdateAt, OnlyAt, Matches
  <2> QED BY <2>2, <2>5 DEF Comes, Finished
<1> QED BY <1>2, <1>3, <1>4

LEMMA LoneRow ==
    ASSUME TypeOK, Unhit, NEW t \in Updates, UpdateAt(t, pc[t]),
           Register(t) \/ Report(t), exits' = exits
    PROVE  \E step : Comes(t, step)
<1> USE OwnNames DEF BesideOld, MovedOld
<1>0. row.status # "gone" /\ cont' = cont
  BY DEF UpdateAt, Register, Report, RowStep
<1>1. CASE Register(t)
  <2>1. ~NotRegistered(t)
    BY UnhitRunning DEF NotRegistered
  <2>2. pc[t] = "register" /\ Registered(t)
    BY <1>1, <2>1 DEF Register
  <2>3. row'.status = "running" /\ row'.container = t
    BY <1>0, <2>2, UnhitRunning DEF Registered
  <2>4. UpdateAt(t, "stop_old")'
    BY <1>0, <2>2, <2>3 DEF UpdateAt, OnlyAt, Matches
  <2> QED BY <2>2, <2>4 DEF Registered, Goto, Comes, Finished
<1>2. CASE Report(t)
  <2>1. pc[t] = "report" /\ pc' = [pc EXCEPT ![t] = "done"]
    BY <1>2 DEF Report, Goto
  <2>2. row'.status \in {"running", "failed"} /\ row'.container = row.container
    <3>1. CASE outcome[t] = "ok"
      BY <1>2, <3>1 DEF Report, UpdateAt
    <3>2. CASE outcome[t] # "ok"
      BY <1>0, <1>2, <3>2, UnhitStatus DEF Report
    <3> QED BY <3>1, <3>2
  <2>3. Rested'
    BY <1>0, <2>1, <2>2 DEF UpdateAt, Rested, OnlyAt, Matches
  <2> QED BY <2>1, <2>3 DEF Comes, Finished
<1> QED BY <1>1, <1>2

LEMMA LoneTask ==
    ASSUME TypeOK, Unhit, NEW t \in Updates, UpdateAt(t, pc[t]), TaskStep(t),
           exits' = exits
    PROVE  \E step : Comes(t, step)
BY LoneCanaryStep, LoneMoveOld, LoneNew, LoneOld, LoneRow DEF TaskStep, CanaryStep

-----------------------------------------------------------------------------
(* The steps of the watcher and of a handler that is alone                  *)

\* Where nothing is hit, no step is a failed call.
LEMMA UnhitAnswer ==
    ASSUME TypeOK, Unhit, NEW n, Answer(n, TRUE, FALSE)
    PROVE  FALSE
BY DEF Answer, Unhit

WatchComes(step) ==
    wpc' = step /\ IF step = "sleep" THEN Rested' ELSE WatchAt(step)'

LEMMA LoneList ==
    ASSUME Rested, W!List, exits' = exits
    PROVE  \E step : WatchComes(step)
<1>1. WatchComes("inspect")
  BY DEF W!List, W!Watched, W!sharedVars, WatchComes, Rested, WatchAt, OnlyAt, Matches
<1> QED BY <1>1

\* The watcher's reads: nothing changes but what it does next.
LEMMA LoneRead ==
    ASSUME TypeOK, WatchAt(wpc),
           W!Inspect \/ W!AwaitRestart \/ W!Recheck \/ W!AwaitStart, exits' = exits
    PROVE  \E step : WatchComes(step)
<1> USE WatcherCalls DEF Rested, WatchAt, OnlyAt, Matches, WatchComes
<1>0. /\ UNCHANGED <<cont, row>>
      /\ cont[Prod].st \in {"none", "created", "running", "exited"}
  BY NamedTyped DEF W!Inspect, W!AwaitRestart, W!Recheck, W!AwaitStart, W!Await, W!sharedVars,
     TypeOK, Container
<1>1. CASE W!Inspect
  <2>1. WatchComes("mark_exited") \/ WatchComes("recheck") \/ WatchComes("sleep")
    BY <1>0, <1>1 DEF W!Inspect
  <2> QED BY <2>1
<1>2. CASE W!AwaitRestart
  <2>1. WatchComes("mark_restarted") \/ WatchComes("give_up")
    BY <1>0, <1>2 DEF W!AwaitRestart, W!Await
  <2> QED BY <2>1
<1>3. CASE W!Recheck
  <2>1. WatchComes("mark_imageless") \/ WatchComes("mark_missing")
    BY <1>0, <1>3 DEF W!Recheck, W!Watched
  <2> QED BY <2>1
<1>4. CASE W!AwaitStart
  <2>1. WatchComes("mark_recreated") \/ WatchComes("give_up")
    BY <1>0, <1>4 DEF W!AwaitStart, W!Await
  <2> QED BY <2>1
<1> QED BY <1>1, <1>2, <1>3, <1>4

LEMMA LoneMark ==
    ASSUME TypeOK, Unhit, WatchAt(wpc), exits' = exits,
           W!MarkExited \/ W!MarkRestarted \/ W!MarkMissing \/ W!MarkRecreated \/ W!GiveUp
    PROVE  \E step : WatchComes(step)
<1> USE WatcherCalls DEF Rested, WatchAt, OnlyAt, Matches, WatchComes
<1>0. cont' = cont
  BY DEF W!MarkExited, W!MarkRestarted, W!MarkMissing, W!MarkRecreated, W!GiveUp, W!RowOnly
<1>1. CASE W!MarkExited
  <2>1. WatchComes("restart")
    BY <1>0, <1>1, UnhitStatus DEF W!MarkExited
  <2> QED BY <2>1
<1>2. CASE W!MarkRestarted
  <2>1. WatchComes("sleep")
    BY <1>0, <1>2, UnhitStatus DEF W!MarkRestarted
  <2> QED BY <2>1
<1>3. CASE W!MarkMissing
  <2>1. WatchComes("create") \/ WatchComes("sleep")
    BY <1>0, <1>3, UnhitStatus DEF W!MarkMissing
  <2> QED BY <2>1
<1>4. CASE W!MarkRecreated
  <2>1. WatchComes("sleep")
    BY <1>0, <1>4, UnhitRunning DEF W!MarkRecreated
  <2> QED BY <2>1
<1>5. CASE W!GiveUp
  <2>1. WatchComes("sleep")
    BY <1>0, <1>5, UnhitStatus DEF W!GiveUp
  <2> QED BY <2>1
<1> QED BY <1>1, <1>2, <1>3, <1>4, <1>5

LEMMA LoneCall ==
    ASSUME TypeOK, Unhit, WatchAt(wpc), exits' = exits, W!Restart \/ W!Create \/ W!Start
    PROVE  \E step : WatchComes(step)
<1> USE WatcherCalls, NamedTyped DEF Rested, WatchAt, OnlyAt, Matches, WatchComes
<1>0. row' = row
  BY DEF W!Restart, W!Create, W!Start, W!DockerOnly
<1>1. CASE W!Restart
  <2>1. /\ wpc = "restart" /\ cont[Prod].st = "exited"
        /\ \E ok \in BOOLEAN : /\ DockerStart(Prod, ok)
                               /\ wpc' = IF ok THEN "await_restart" ELSE "give_up"
    BY <1>1 DEF W!Restart
  <2>2. WatchComes("await_restart")
    BY <1>0, <2>1, UnhitStart
  <2> QED BY <2>2
<1>2. CASE W!Create
  <2>1. WatchComes("start")
    BY <1>0, <1>2, UnhitCreate DEF W!Create
  <2> QED BY <2>1
<1>3. CASE W!Start
  <2>1. WatchComes("await_start")
    BY <1>0, <1>3, UnhitStart DEF W!Start
  <2> QED BY <2>1
<1> QED BY <1>1, <1>2, <1>3

LEMMA LoneWatch ==
    ASSUME TypeOK, Unhit, wpc = "sleep" => Rested, wpc # "sleep" => WatchAt(wpc),
           W!WatchStep, exits' = exits
    PROVE  \E step : WatchComes(step)
<1>1. ~W!InspectFails /\ ~W!ReadFails
  BY UnhitAnswer, WatcherCalls DEF W!InspectFails, W!ReadFails
<1>2. CASE W!List
  BY <1>2, LoneList DEF W!List
<1>3. CASE W!Inspect \/ W!AwaitRestart \/ W!Recheck \/ W!AwaitStart
  <2>1. wpc # "sleep"
    BY <1>3 DEF W!Inspect, W!AwaitRestart, W!Recheck, W!AwaitStart
  <2> QED BY <1>3, <2>1, LoneRead
<1>4. CASE \/ W!MarkExited \/ W!MarkRestarted \/ W!MarkMissing \/ W!MarkRecreated
           \/ W!GiveUp
  <2>1. wpc # "sleep"
    BY <1>4 DEF W!MarkExited, W!MarkRestarted, W!MarkMissing, W!MarkRecreated, W!GiveUp
  <2> QED BY <1>4, <2>1, LoneMark
<1>5. CASE W!Restart \/ W!Create \/ W!Start
  <2>1. wpc # "sleep"
    BY <1>5 DEF W!Restart, W!Create, W!Start
  <2> QED BY <1>5, <2>1, LoneCall
<1> QED BY <1>1, <1>2, <1>3, <1>4, <1>5 DEF W!WatchStep

\* The handler of r comes to this step, or to its end.
RequestComes(r, step) ==
    /\ rpc' = [rpc EXCEPT ![r] = step]
    /\ IF step = "idle" THEN Rested' ELSE RequestAt(r, step)'

LEMMA LoneArrive ==
    ASSUME R!RequestTypeOK, Rested, NEW r \in Clients, R!Arrive(r), exits' = exits
    PROVE  \E step : RequestComes(r, step)
<1>1. RequestComes(r, "delete_row") \/ RequestComes(r, "stop_container")
  BY DEF R!Arrive, R!RequestTypeOK, R!Ops, R!sharedVars, RequestComes, Rested,
         RequestAt, OnlyAt, Matches
<1> QED BY <1>1

LEMMA LoneHandler ==
    ASSUME TypeOK, R!RequestTypeOK, Unhit, NEW r \in Clients, op[r] \in R!Ops,
           RequestAt(r, rpc[r]), R!HandlerStep(r), exits' = exits
    PROVE  \E step : RequestComes(r, step)
<1> USE HandlerCalls, NamedTyped
    DEF Rested, RequestAt, OnlyAt, Matches, RequestComes, R!Proceed, R!Ops
<1>1. ~R!EnvUnread(r) /\ ~R!MarkFailed(r)
  BY UnhitAnswer DEF R!EnvUnread, R!MarkFailed
<1>2. CASE R!DeleteRow(r)
  <2>1. RequestComes(r, "stop_container")
    BY <1>2, UnhitStatus DEF R!DeleteRow, R!OnRow
  <2> QED BY <2>1
<1>3. CASE R!StopContainer(r)
  <2>1. RequestComes(r, "remove_container")
    BY <1>3, UnhitStop DEF R!StopContainer, R!OnDocker
  <2> QED BY <2>1
<1>4. CASE R!RemoveContainer(r)
  <2>1. /\ row' = row /\ cont'[Prod].st = "none"
        /\ \A n \in Names \ {Prod} : cont'[n] = cont[n]
    BY <1>4, UnhitRemove DEF R!RemoveContainer, R!OnDocker
  <2>2. \/ op[r] = "stop" /\ R!Proceed(r, "mark_stopped")
        \/ op[r] = "restart" /\ R!Proceed(r, "create")
        \/ op[r] = "delete" /\ R!Proceed(r, "idle")
    BY <1>4 DEF R!RemoveContainer
  <2>3. \/ RequestComes(r, "mark_stopped") \/ RequestComes(r, "create")
        \/ RequestComes(r, "idle")
    BY <1>4, <2>1, <2>2 DEF R!RemoveContainer
  <2> QED BY <2>3
<1>5. CASE R!MarkStopped(r)
  <2>1. RequestComes(r, "idle")
    BY <1>5, UnhitStatus DEF R!MarkStopped, R!OnRow
  <2> QED BY <2>1
<1>6. CASE R!CreateContainer(r)
  <2>1. PICK ok \in BOOLEAN : /\ DockerCreate(Prod, "restart", ok)
                              /\ R!Proceed(r, IF ok THEN "start" ELSE "mark_failed")
    BY <1>6 DEF R!CreateContainer
  <2>2. rpc[r] = "create" /\ cont[Prod].st = "none"
    BY <1>6 DEF R!CreateContainer
  <2>3. /\ ok /\ cont'[Prod].st = "created" /\ cont'[Prod].by = "restart"
        /\ \A n \in Names \ {Prod} : cont'[n] = cont[n]
    BY <2>1, <2>2, UnhitCreate
  <2>4. RequestComes(r, "start")
    BY <1>6, <2>1, <2>2, <2>3 DEF R!CreateContainer, R!OnDocker
  <2> QED BY <2>4
<1>7. CASE R!StartContainer(r)
  <2>1. RequestComes(r, "register")
    BY <1>7, UnhitStart DEF R!StartContainer, R!OnDocker
  <2> QED BY <2>1
<1>8. CASE R!RegisterContainer(r)
  <2>1. RequestComes(r, "idle")
    BY <1>8, UnhitRunning DEF R!RegisterContainer, R!OnRow
  <2> QED BY <2>1
<1> QED BY <1>1, <1>2, <1>3, <1>4, <1>5, <1>6, <1>7, <1>8 DEF R!HandlerStep

-----------------------------------------------------------------------------
(* One actor at a time                                                      *)

\* Who is at work, by the kind of actor.
BusyFits ==
    /\ \A t \in Updates : t \in Busy <=> InFlight(t)
    /\ \A r \in Clients : r \in Busy <=> R!Handling(r)
    /\ "watcher" \in Busy <=> wpc # "sleep"
    /\ Busy \subseteq Updates \cup Clients \cup {"watcher"}

LEMMA BusyIs == BusyFits /\ BusyFits'
<1>1. Clients \cap Updates = {} /\ "watcher" \notin Clients /\ "watcher" \notin Updates
  BY ControlAssumption, StateAssumption
<1> QED BY <1>1 DEF BusyFits, Busy

\* A step of x, who was or is at work afterwards, leaves the others as they are: when
\* it is found that no two overlapped, x is alone before and after.
LEMMA OneActor ==
    ASSUME Few, NEW x, Busy' \subseteq Busy \cup {x}, Busy \ {x} \subseteq Busy', Observe
    PROVE  /\ Few'
           /\ ~overlapped' =>
                /\ ~overlapped /\ \A a, b \in Busy' : a = b
                /\ (\A a, b \in Busy : a = b) /\ (x \in Busy \/ x \in Busy') =>
                       Busy \subseteq {x} /\ Busy' \subseteq {x}
<1>1. Few'
  BY FS_AddElement, FS_Subset DEF Few
<1>2. ASSUME ~overlapped', NEW a \in Busy', NEW b \in Busy', a # b
      PROVE  FALSE
  <2>1. Cardinality({a}) = 1 /\ IsFiniteSet({a})
    BY FS_Singleton
  <2>2. Cardinality({a} \cup {b}) = 2
    BY <1>2, <2>1, FS_AddElement
  <2>3. Cardinality({a} \cup {b}) <= Cardinality(Busy') /\ Cardinality(Busy') \in Nat
    <3>1. IsFiniteSet(Busy') /\ {a} \cup {b} \in SUBSET Busy'
      BY <1>1, <1>2 DEF Few
    <3>2. Cardinality({a} \cup {b}) <= Cardinality(Busy')
      BY ONLY <3>1, FS_Subset
    <3>3. Cardinality(Busy') \in Nat
      BY ONLY <3>1, FS_CardinalityType
    <3> QED BY <3>2, <3>3
  <2>4. ~(Cardinality(Busy') > 1)
    BY <1>2, Zenon DEF Observe
  <2> QED BY <2>2, <2>3, <2>4
<1>3. ~overlapped' => ~overlapped
  BY DEF Observe
<1> QED BY <1>1, <1>2, <1>3

\* Nobody takes a fault back.
LEMMA FaultsStay ==
    ASSUME TypeOK, faults' = 0,
           \/ \E t \in Updates : Begin(t) \/ TaskStep(t)
           \/ W!WatchStep
           \/ \E r \in Clients : R!Arrive(r) \/ R!HandlerStep(r)
    PROVE  Unhit
<1> SUFFICES faults = 0
  BY DEF Unhit
<1> USE DEF TypeOK, Answer, Docker, RowUpdate
<1>1. CASE \E t \in Updates : \/ Build(t) \/ CreateCanary(t) \/ StartCanary(t)
                              \/ ProbeCanary(t) \/ StopCanary(t) \/ RemoveCanary(t)
  BY <1>1 DEF Build, CreateCanary, StartCanary, ProbeCanary, StopCanary, RemoveCanary,
              DockerCreate, DockerStart, DockerStop, DockerRemove
<1>2. CASE \E t \in Updates : \/ MoveOld(t) \/ CreateNew(t) \/ StartNew(t) \/ ProbeNew(t)
                              \/ StopOld(t) \/ RemoveOld(t) \/ RemoveNew(t) \/ RestoreOld(t)
  BY <1>2 DEF MoveOld, CreateNew, StartNew, ProbeNew, StopOld, RemoveOld, RemoveNew,
              RestoreOld, DockerRename, DockerCreate, DockerStart, DockerStop, DockerRemove,
              DockerForceRemove, sharedVars
<1>3. CASE \E t \in Updates : Begin(t) \/ Register(t) \/ Report(t)
  BY <1>3 DEF Begin, Register, Registered, NotRegistered, Report, UpdateStatus, UpdateRunning
<1>4. CASE W!WatchStep
  <2> USE DEF W!Answer, W!Docker, W!RowUpdate
  <2>1. CASE W!List \/ W!Inspect \/ W!AwaitRestart \/ W!Recheck \/ W!AwaitStart
    BY <2>1 DEF W!List, W!Inspect, W!AwaitRestart, W!Recheck, W!AwaitStart, W!Await,
                W!sharedVars
  <2>2. CASE W!InspectFails \/ W!ReadFails
    BY <2>2 DEF W!InspectFails, W!ReadFails
  <2>3. CASE W!MarkExited \/ W!MarkRestarted \/ W!MarkMissing \/ W!MarkRecreated \/ W!GiveUp
    BY <2>3 DEF W!MarkExited, W!MarkRestarted, W!MarkMissing, W!MarkRecreated, W!GiveUp,
                W!UpdateStatus, W!UpdateRunning
  <2>4. CASE W!Restart \/ W!Create \/ W!Start
    BY <2>4 DEF W!Restart, W!Create, W!Start, W!DockerStop, W!DockerStart,
                W!DockerCreate
  <2> QED BY <1>4, <2>1, <2>2, <2>3, <2>4 DEF W!WatchStep
<1>5. CASE \E r \in Clients : R!Arrive(r) \/ R!HandlerStep(r)
  <2> USE DEF R!Answer, R!Docker, R!RowUpdate
  <2>1. PICK r \in Clients : R!Arrive(r) \/ R!HandlerStep(r)
    BY <1>5
  <2>2. CASE R!Arrive(r) \/ R!EnvUnread(r)
    BY <2>2 DEF R!Arrive, R!sharedVars, R!EnvUnread
  <2>3. CASE R!DeleteRow(r) \/ R!MarkStopped(r) \/ R!RegisterContainer(r) \/ R!MarkFailed(r)
    BY <2>3 DEF R!DeleteRow, R!MarkStopped, R!RegisterContainer, R!MarkFailed,
                R!UpdateStatus, R!UpdateRunning
  <2>4. CASE \/ R!StopContainer(r) \/ R!RemoveContainer(r) \/ R!CreateContainer(r)
             \/ R!StartContainer(r)
    BY <2>4 DEF R!StopContainer, R!RemoveContainer, R!CreateContainer, R!StartContainer,
                R!DockerStop, R!DockerRemove, R!DockerCreate, R!DockerStart
  <2> QED BY <2>1, <2>2, <2>3, <2>4 DEF R!HandlerStep
<1> QED BY <1>1, <1>2, <1>3, <1>4, <1>5 DEF TaskStep

\* An update is at work until it is finished, and leaves the others to theirs.
LEMMA UpdateBusy ==
    ASSUME TypeOK, NEW t \in Updates, Begin(t) \/ TaskStep(t), UNCHANGED <<wpc, rpc>>
    PROVE  /\ Busy' \subseteq Busy \cup {t} /\ Busy \ {t} \subseteq Busy'
           /\ \A u \in Updates \ {t} : pc'[u] = pc[u] /\ outcome'[u] = outcome[u]
           /\ pc'[t] # "idle"
<1>1. /\ \A u \in Updates \ {t} : pc'[u] = pc[u] /\ outcome'[u] = outcome[u]
      /\ pc'[t] # "idle"
  <2>1. CASE Begin(t) \/ Build(t) \/ CreateCanary(t) \/ StartCanary(t) \/ ProbeCanary(t)
    BY <2>1 DEF Begin, Build, CreateCanary, StartCanary, ProbeCanary, Branch, Goto, Decide,
                TypeOK
  <2>2. CASE \/ MoveOld(t) \/ CreateNew(t) \/ StartNew(t) \/ ProbeNew(t) \/ Register(t)
             \/ RestoreOld(t) \/ Report(t)
    BY <2>2 DEF MoveOld, CreateNew, StartNew, ProbeNew, Register, Registered, NotRegistered,
                RestoreOld, Report, Branch, Goto, Decide, TypeOK
  <2>3. CASE \/ StopOld(t) \/ RemoveOld(t) \/ RemoveNew(t) \/ StopCanary(t)
             \/ RemoveCanary(t)
    BY <2>3 DEF StopOld, RemoveOld, RemoveNew, StopCanary, RemoveCanary, CleanupStep, Goto,
                TypeOK
  <2> QED BY <2>1, <2>2, <2>3 DEF TaskStep
<1>2. \A u \in Updates \ {t} : InFlight(u)' <=> InFlight(u)
  BY <1>1 DEF InFlight
<1> QED BY <1>1, <1>2, BusyIs DEF BusyFits, R!Handling

LEMMA UpdateQuiet ==
    ASSUME TypeOK, QuietInv, Few, NEW t \in Updates, Begin(t) \/ TaskStep(t), UpdateFrame
    PROVE  Few' /\ QuietInv'
<1>1. /\ Busy' \subseteq Busy \cup {t} /\ Busy \ {t} \subseteq Busy'
      /\ \A u \in Updates \ {t} : pc'[u] = pc[u] /\ outcome'[u] = outcome[u]
      /\ pc'[t] # "idle"
      /\ exits' = exits /\ crashes' = crashes /\ Observe
  BY UpdateBusy DEF UpdateFrame
<1>2. Few'
  BY <1>1, OneActor
<1> SUFFICES ASSUME Quiet' PROVE QuietInv'
  BY <1>2 DEF QuietInv
<1>3. Unhit
  BY FaultsStay DEF Quiet
<1>4. Quiet
  BY <1>1, <1>3, OneActor DEF Quiet, Unhit
<1>5. (t \in Busy \/ t \in Busy') /\ \E step : Comes(t, step)
  <2>1. CASE TaskStep(t)
    <3>1. InFlight(t)
      BY <2>1 DEF InFlight, Finished, TaskStep, Build, CreateCanary, StartCanary, ProbeCanary,
                  MoveOld, CreateNew, StartNew, ProbeNew, Register, StopOld, RemoveOld,
                  RemoveNew, RestoreOld, StopCanary, RemoveCanary, Report
    <3>2. t \in Busy /\ UpdateAt(t, pc[t])
      BY <1>4, <3>1, BusyIs DEF QuietInv, BusyFits
    <3> QED BY <1>1, <1>3, <2>1, <3>2, LoneTask
  <2>2. CASE Begin(t)
    <3>1. pc[t] = "idle" /\ \E step : step \notin Finished /\ pc' = [pc EXCEPT ![t] = step]
      <4>1. PICK ok \in BOOLEAN : UpdateStatus("building", ok) /\
                (~ok \/ \E attached \in BOOLEAN :
                            Branch(t, attached, "build", "report", "failed"))
        BY <2>2 DEF Begin
      <4>2. ok
        BY <1>3, <4>1, UnhitStatus
      <4> QED BY <2>2, <4>1, <4>2 DEF Begin, Branch, Goto, Finished
    <3>2. t \in Busy' /\ t \notin Busy
      BY <3>1, BusyIs DEF BusyFits, InFlight, TypeOK, Finished
    <3>3. Busy \subseteq {t}
      BY <1>1, <1>4, <3>2, OneActor DEF Quiet, QuietInv
    <3>4. Rested /\ outcome[t] = "none"
      BY <1>4, <3>1, <3>2, <3>3 DEF QuietInv
    <3> QED BY <1>1, <1>3, <2>2, <3>2, <3>4, LoneBegin
  <2> QED BY <2>1, <2>2
<1>6. PICK step : Comes(t, step)
  BY <1>5
<1>7. Busy' \subseteq {t}
  BY <1>1, <1>4, <1>5, OneActor DEF Quiet, QuietInv
<1>8. /\ pc'[t] = step /\ (InFlight(t)' <=> step \notin Finished)
      /\ step \in Finished => Rested'
      /\ step \notin Finished => UpdateAt(t, step)'
  BY <1>6 DEF Comes, TypeOK, InFlight
<1>9. /\ wpc' = "sleep" /\ \A r \in Clients : ~R!Handling(r)'
      /\ \A u \in Updates : InFlight(u)' => u = t
      /\ Busy' = {} => ~InFlight(t)'
  BY <1>7, BusyIs, ControlAssumption, StateAssumption DEF BusyFits
<1>10. \A u \in Updates : pc'[u] = "idle" => outcome'[u] = "none"
  BY <1>1, <1>4 DEF QuietInv
<1>11. \A u \in Updates : InFlight(u)' => UpdateAt(u, pc[u])'
  <2>1. InFlight(t)' => UpdateAt(t, pc[t])'
    BY <1>8 DEF UpdateAt
  <2> QED BY <2>1, <1>9
<1> QED BY <1>7, <1>8, <1>9, <1>10, <1>11 DEF QuietInv

LEMMA WatchQuiet ==
    ASSUME TypeOK, QuietInv, Few, Watch
    PROVE  Few' /\ QuietInv'
<1>1. /\ W!WatchStep /\ exits' = exits /\ crashes' = crashes /\ Observe
      /\ pc' = pc /\ outcome' = outcome /\ rpc' = rpc
  BY DEF Watch, WatchFrame, updateVars
<1>2. Busy' \subseteq Busy \cup {"watcher"} /\ Busy \ {"watcher"} \subseteq Busy'
  BY <1>1, BusyIs DEF BusyFits, InFlight, R!Handling
<1>3. Few'
  BY <1>1, <1>2, OneActor
<1> SUFFICES ASSUME Quiet' PROVE QuietInv'
  BY <1>3 DEF QuietInv
<1>4. Unhit
  BY <1>1, FaultsStay DEF Quiet
<1>5. Quiet
  BY <1>1, <1>2, <1>4, OneActor DEF Quiet, Unhit
<1>6. "watcher" \in Busy \/ "watcher" \in Busy'
  <2>1. wpc # "sleep" \/ wpc' # "sleep"
    BY <1>1 DEF W!WatchStep, W!List, W!Inspect, W!InspectFails, W!MarkExited, W!Restart,
       W!AwaitRestart, W!MarkRestarted, W!Recheck, W!ReadFails, W!MarkMissing, W!Create,
       W!Start, W!AwaitStart, W!MarkRecreated, W!GiveUp
  <2> QED BY <2>1, BusyIs DEF BusyFits
<1>7. Busy \subseteq {"watcher"} /\ Busy' \subseteq {"watcher"}
  BY <1>1, <1>2, <1>5, <1>6, OneActor DEF Quiet, QuietInv
<1>8. PICK step : WatchComes(step)
  <2>1. wpc = "sleep" => Rested
    BY <1>5, <1>7, BusyIs DEF QuietInv, BusyFits
  <2>2. wpc # "sleep" => WatchAt(wpc)
    BY <1>5 DEF QuietInv
  <2> QED BY <1>1, <1>4, <2>1, <2>2, LoneWatch
<1>9. /\ wpc' = "sleep" => Rested'
      /\ wpc' # "sleep" => WatchAt(wpc)'
  <2>1. wpc' = step
    BY <1>8 DEF WatchComes
  <2> QED BY <1>8, <2>1 DEF WatchComes, WatchAt
<1>10. /\ \A r \in Clients : ~R!Handling(r)'
       /\ \A t \in Updates : ~InFlight(t)'
       /\ Busy' = {} => wpc' = "sleep"
  BY <1>7, BusyIs, ControlAssumption, StateAssumption DEF BusyFits
<1>11. \A t \in Updates : pc'[t] = "idle" => outcome'[t] = "none"
  BY <1>1, <1>5 DEF QuietInv
<1> QED BY <1>7, <1>9, <1>10, <1>11 DEF QuietInv

LEMMA RequestQuiet ==
    ASSUME TypeOK, R!RequestTypeOK, ReqFits, QuietInv, Few, NEW r \in Clients,
           R!Arrive(r) \/ R!HandlerStep(r), RequestFrame
    PROVE  Few' /\ QuietInv'
<1>1. /\ exits' = exits /\ crashes' = crashes /\ Observe
      /\ pc' = pc /\ outcome' = outcome /\ wpc' = wpc
  BY DEF RequestFrame, updateVars
<1>2. \A s \in Clients \ {r} : rpc'[s] = rpc[s]
  BY DEF R!Arrive, R!HandlerStep, R!DeleteRow, R!StopContainer, R!RemoveContainer,
         R!MarkStopped, R!EnvUnread, R!CreateContainer, R!StartContainer,
         R!RegisterContainer, R!MarkFailed, R!Proceed, R!RequestTypeOK
<1>3. Busy' \subseteq Busy \cup {r} /\ Busy \ {r} \subseteq Busy'
  BY <1>1, <1>2, BusyIs DEF BusyFits, InFlight, R!Handling
<1>4. Few'
  BY <1>1, <1>3, OneActor
<1> SUFFICES ASSUME Quiet' PROVE QuietInv'
  BY <1>4 DEF QuietInv
<1>5. Unhit
  BY <1>1, FaultsStay DEF Quiet
<1>6. Quiet
  BY <1>1, <1>3, <1>5, OneActor DEF Quiet, Unhit
<1>7. r \in Busy \/ r \in Busy'
  <2>1. R!Handling(r) \/ R!Handling(r)'
    BY DEF R!Arrive, R!HandlerStep, R!DeleteRow, R!StopContainer, R!RemoveContainer,
           R!MarkStopped, R!EnvUnread, R!CreateContainer, R!StartContainer,
           R!RegisterContainer, R!MarkFailed, R!Handling, R!RequestTypeOK
  <2> QED BY <2>1, BusyIs DEF BusyFits
<1>8. Busy \subseteq {r} /\ Busy' \subseteq {r}
  BY <1>1, <1>3, <1>6, <1>7, OneActor DEF Quiet, QuietInv
<1>9. PICK step : RequestComes(r, step)
  <2>1. CASE R!Arrive(r)
    <3>1. ~R!Handling(r)
      BY <2>1 DEF R!Arrive, R!Handling
    <3>2. Rested
      BY <1>6, <1>8, <3>1, BusyIs DEF QuietInv, BusyFits
    <3> QED BY <1>1, <2>1, <3>2, LoneArrive
  <2>2. CASE R!HandlerStep(r)
    <3>1. R!Handling(r)
      BY <2>2 DEF R!HandlerStep, R!DeleteRow, R!StopContainer, R!RemoveContainer,
         R!MarkStopped, R!EnvUnread, R!CreateContainer, R!StartContainer,
         R!RegisterContainer, R!MarkFailed, R!Handling
    <3> QED BY <1>1, <1>5, <1>6, <2>2, <3>1, LoneHandler DEF QuietInv, ReqFits
  <2> QED BY <2>1, <2>2
<1>10. /\ R!Handling(r)' <=> step # "idle"
       /\ step = "idle" => Rested'
       /\ R!Handling(r)' => RequestAt(r, rpc[r])'
  <2>1. rpc'[r] = step
    BY <1>9 DEF RequestComes, R!RequestTypeOK
  <2> QED BY <1>9, <2>1 DEF RequestComes, RequestAt, R!Handling
<1>11. /\ wpc' = "sleep"
       /\ \A s \in Clients : R!Handling(s)' => s = r
       /\ \A t \in Updates : ~InFlight(t)'
       /\ Busy' = {} => ~R!Handling(r)'
  BY <1>8, BusyIs, ControlAssumption, StateAssumption DEF BusyFits
<1>12. \A t \in Updates : pc'[t] = "idle" => outcome'[t] = "none"
  BY <1>1, <1>6 DEF QuietInv
<1> QED BY <1>8, <1>10, <1>11, <1>12 DEF QuietInv

\* A container that exits by itself disturbs nobody's knowledge: what ran at a step
\* may as well have exited.
LEMMA ExitQuiet ==
    ASSUME ControlTypeOK, QuietInv, Few, NEW n \in Names, Exit(n)
    PROVE  Few' /\ QuietInv'
<1>1. /\ exits \in Nat /\ exits' = exits + 1 /\ cont \in [Names -> Container]
      /\ Prod \in Names /\ \A t \in Updates : Canary(t) \in Names /\ Old(t) \in Names
      /\ cont[n].st = "running" /\ cont' = [cont EXCEPT ![n].st = "exited"]
      /\ row' = row /\ pc' = pc /\ outcome' = outcome /\ wpc' = wpc /\ op' = op /\ rpc' = rpc
      /\ faults' = faults /\ crashes' = crashes /\ overlapped' = overlapped
  BY ControlAssumption
  DEF Exit, ContainerExits, updateVars, ControlTypeOK, TypeOK, Names
<1>2. \A m \in Names : /\ cont'[m].by = cont[m].by
                       /\ \/ cont'[m].st = cont[m].st
                          \/ cont[m].st = "running" /\ cont'[m].st = "exited"
  BY <1>1 DEF Container
<1>3. exits' > 0
  BY <1>1
<1>4. \A m \in Names : Matches(m) => Matches(m)'
  BY <1>1, <1>2, <1>3 DEF Matches
<1>5. \A S : OnlyAt(S) => OnlyAt(S)'
  BY <1>2 DEF OnlyAt
<1>6. Rested => Rested'
  BY <1>1, <1>2, <1>4, <1>5 DEF Rested
<1>7. \A t \in Updates : UpdateAt(t, pc[t]) => UpdateAt(t, pc[t])'
  <2> SUFFICES ASSUME NEW t \in Updates, UpdateAt(t, pc[t]) PROVE UpdateAt(t, pc[t])'
    OBVIOUS
  <2>1. Matches(Prod) => Matches(Prod)'
    BY <1>1, <1>4
  <2>2. Matches(Old(t)) => Matches(Old(t))'
    BY <1>1, <1>4
  <2>3. OnlyAt({Prod, Canary(t), Old(t)})'
    BY <1>5 DEF UpdateAt
  <2> QED BY <1>1, <1>2, <2>1, <2>2, <2>3 DEF UpdateAt
<1>8. WatchAt(wpc) => WatchAt(wpc)'
  BY <1>1, <1>2, <1>3, <1>4, <1>5 DEF WatchAt
<1>9. \A r \in Clients : RequestAt(r, rpc[r]) => RequestAt(r, rpc[r])'
  BY <1>1, <1>2, <1>4, <1>5 DEF RequestAt
<1>10. Busy' = Busy
  BY <1>1 DEF Busy, InFlight, R!Handling
<1>11. Quiet' <=> Quiet
  BY <1>1 DEF Quiet
<1> QED BY <1>1, <1>6, <1>7, <1>8, <1>9, <1>10, <1>11
        DEF QuietInv, Few, InFlight, R!Handling

-----------------------------------------------------------------------------

ControlInv == ControlTypeOK /\ ReqFits /\ Few /\ QuietInv

LEMMA QuietInit == ControlInit => Few /\ QuietInv
<1> SUFFICES ASSUME ControlInit PROVE Few /\ QuietInv
  OBVIOUS
<1>1. /\ \A t \in Updates : pc[t] = "idle" /\ outcome[t] = "none"
      /\ \A r \in Clients : rpc[r] = "idle"
      /\ wpc = "sleep"
  BY DEF ControlInit, Init, W!WatchInit, R!RequestInit
<1>2. Busy = {}
  BY <1>1, BusyIs DEF BusyFits, InFlight, Finished, R!Handling
<1>3. Rested
  BY NamedTyped
  DEF ControlInit, Init, InitialStates, Rested, Matches, OnlyAt, NoContainer
<1> QED BY <1>1, <1>2, <1>3, FS_EmptySet
        DEF Few, QuietInv, InFlight, Finished, R!Handling

LEMMA QuietNext ==
    ASSUME ControlInv, [ControlNext]_controlVars
    PROVE  Few' /\ QuietInv'
<1>0. TypeOK /\ R!RequestTypeOK
  BY DEF ControlInv, ControlTypeOK
<1> USE DEF ControlInv
<1>1. CASE \E t \in Updates : Submit(t) \/ Run(t)
  BY <1>0, <1>1, UpdateQuiet DEF Submit, Run
<1>2. CASE Watch
  BY <1>0, <1>2, WatchQuiet
<1>3. CASE \E r \in Clients : Ask(r) \/ Serve(r)
  BY <1>0, <1>3, RequestQuiet DEF Ask, Serve
<1>4. CASE \E n \in Names : Exit(n)
  BY <1>4, ExitQuiet
<1>5. CASE Crash
  <2>1. crashes' = crashes + 1 /\ crashes \in Nat
    BY <1>5, ControlAssumption DEF Crash, ControlTypeOK
  <2>2. ~Quiet'
    BY <2>1 DEF Quiet
  <2>3. Busy' = {}
    BY <1>0, <1>5, BusyIs DEF Crash, BusyFits, InFlight, Finished, R!Handling
  <2> QED BY <2>2, <2>3, FS_EmptySet DEF Few, QuietInv
<1>6. CASE UNCHANGED controlVars
  BY <1>6 DEF controlVars, vars, sharedVars, updateVars, Few, Busy, InFlight, R!Handling,
     QuietInv, Quiet, Rested, Matches, OnlyAt, UpdateAt, WatchAt, RequestAt
<1> QED BY <1>1, <1>2, <1>3, <1>4, <1>5, <1>6 DEF ControlNext

\* When updates, requests and passes of the watcher came one after the other and nothing
\* failed, the row and the containers agree whenever nobody is at work, however many of
\* them there were and whichever containers exited by themselves in between.
THEOREM AgreesAtRest == ControlSpec => []AgreementAtRest
<1>1. ControlInit => ControlInv
  BY ControlTypeInit, QuietInit DEF ControlInv
<1>2. ControlInv /\ [ControlNext]_controlVars => ControlInv'
  BY ControlTypeNext, QuietNext DEF ControlInv
<1>3. ControlInv => AgreementAtRest
  BY DEF ControlInv, QuietInv, Quiet, Rested, Matches, OnlyAt, AgreementAtRest, AtRest
<1> QED BY <1>1, <1>2, <1>3, PTL DEF ControlSpec

=============================================================================
