-------------------------- MODULE ResourcesProofs --------------------------
(***************************************************************************)
(* Theorems about Resources, for any number of clients, ids and faults.    *)
(***************************************************************************)
EXTENDS Resources, TLAPS

Steps == StartSteps \cup StopSteps \cup LinkSteps \cup {"idle"}
Blames == (Ids \cup {NoId}) \X {"start", "stop", "link"}

\* Every step belongs to a phase.
LEMMA PhaseTyped == \A s : Phase(s) \in {"start", "stop", "link"}
BY DEF Phase

\* A call that fails is counted and blamed, and nothing else.
LEMMA AnswerTyped ==
    ASSUME TypeOK, NEW c \in Clients, NEW can, NEW ok \in BOOLEAN, Answer(c, can, ok)
    PROVE  faults' \in 0..MaxFaults /\ blamed' \in SUBSET Blames
<1> <<id[c], Phase(pc[c])>> \in Blames
  BY PhaseTyped DEF Blames, TypeOK
<1> QED BY ResourcesAssumption DEF Answer, TypeOK, Blames

\* A handler goes to a step, or is over.
LEMMA ThenTyped ==
    ASSUME TypeOK, NEW c \in Clients, NEW ok \in BOOLEAN, NEW s \in Steps,
           Then(c, ok, s) \/ Goto(c, s) \/ Finish(c)
    PROVE  /\ op' \in [Clients -> Ops \cup {"none"}]
           /\ pc' \in [Clients -> Steps]
           /\ id' \in [Clients -> Ids \cup {NoId}]
           /\ apps' \in [Clients -> SUBSET Apps]
BY DEF Then, Goto, Finish, TypeOK, Steps

LEMMA TakeTyped ==
    ASSUME TypeOK, NEW c \in Clients, NEW s \in Steps, NEW i \in Ids \cup {NoId},
           Take(c, s, i)
    PROVE  /\ pc' \in [Clients -> Steps]
           /\ id' \in [Clients -> Ids \cup {NoId}]
           /\ crossed' \in SUBSET (Ids \cup {NoId})
BY DEF Take, TypeOK, Steps

LEMMA DockerTyped ==
    ASSUME TypeOK, NEW c \in Clients, NEW can, NEW ok \in BOOLEAN,
           NEW st \in {"none", "created", "running", "exited"}, Docker(c, can, st, ok)
    PROVE  /\ cont' \in [Ids -> {"none", "created", "running", "exited"}]
           /\ faults' \in 0..MaxFaults /\ blamed' \in SUBSET Blames
<1> faults' \in 0..MaxFaults /\ blamed' \in SUBSET Blames
  BY AnswerTyped DEF Docker
<1> QED BY DEF Docker, TypeOK

LEMMA SqlTyped ==
    ASSUME TypeOK, NEW c \in Clients, NEW can, NEW ok \in BOOLEAN,
           NEW r \in Row, NEW e \in [Apps -> Ids \cup {NoId}], Sql(c, can, r, e, ok)
    PROVE  /\ row' \in Row /\ env' \in [Apps -> Ids \cup {NoId}]
           /\ faults' \in 0..MaxFaults /\ blamed' \in SUBSET Blames
<1> faults' \in 0..MaxFaults /\ blamed' \in SUBSET Blames
  BY AnswerTyped DEF Sql
<1> QED BY DEF Sql, TypeOK

\* What the statements write is well formed.
LEMMA WrittenTyped ==
    ASSUME TypeOK, NEW c \in Clients
    PROVE  /\ NoRow \in Row
           /\ \A s \in {"stopped", "running"} : SetStatus(c, s) \in Row
           /\ \A S \in SUBSET Apps : /\ [row EXCEPT !.links = S] \in Row
                                     /\ Injected(c, S) \in [Apps -> Ids \cup {NoId}]
BY DEF TypeOK, Row, NoRow, SetStatus, Injected

LEMMA InitTyped == Init => TypeOK
BY ResourcesAssumption DEF Init, TypeOK, NoRow, Row, Ops

-----------------------------------------------------------------------------

LEMMA NextTyped == TypeOK /\ [Next]_vars => TypeOK'
<1> SUFFICES ASSUME TypeOK, [Next]_vars PROVE TypeOK'
  OBVIOUS
<1> USE DEF Arrive
<1>1. ASSUME NEW c \in Clients, Create(c) \/ Attach(c) PROVE TypeOK'
  <2>1. /\ "insert" \in Steps /\ "patch" \in Steps
        /\ "create" \in Ops /\ "attach" \in Ops
    BY DEF Steps, StartSteps, LinkSteps, Ops
  <2> QED BY <1>1, <2>1, TakeTyped DEF Create, Attach, TypeOK, Row, Steps
<1>2. ASSUME NEW c \in Clients, Start(c) \/ Stop(c) \/ Delete(c) PROVE TypeOK'
  <2>1. /\ {"create_container", "stop_container", "delete_row"} \subseteq Steps
        /\ {"start", "stop", "delete"} \subseteq Ops
    BY DEF Steps, StartSteps, StopSteps, Ops
  <2> QED BY <1>2, <2>1, TakeTyped DEF Start, Stop, Delete, TypeOK, Row, Steps
<1>3. ASSUME NEW c \in Clients, Deploy(c) PROVE TypeOK'
  <2>1. "lookup" \in Steps /\ "deploy" \in Ops
    BY DEF Steps, StartSteps, Ops
  <2>2. env' \in [Apps -> Ids \cup {NoId}] /\ drawn' = drawn
    BY <1>3 DEF Deploy, TypeOK
  <2>3. PICK a \in Apps :
          \/ Arrive(c, "deploy", NoId, "lookup", {a})
          \/ UNCHANGED <<row, cont, handlerVars, faults, blamed, crossed>>
    BY <1>3 DEF Deploy
  <2>4. CASE Arrive(c, "deploy", NoId, "lookup", {a})
    BY <2>1, <2>2, <2>4, TakeTyped DEF TypeOK, Steps
  <2>5. CASE UNCHANGED <<row, cont, handlerVars, faults, blamed, crossed>>
    BY <2>2, <2>5 DEF handlerVars, TypeOK
  <2> QED BY <2>3, <2>4, <2>5
<1>4. ASSUME NEW c \in Clients, Insert(c) PROVE TypeOK'
  <2>1. "create_container" \in Steps
    BY DEF Steps, StartSteps
  <2> QED BY <1>4, <2>1, AnswerTyped, ThenTyped DEF Insert, TypeOK, Steps, Blames
<1>5. ASSUME NEW c \in Clients,
             CreateContainer(c) \/ StartContainer(c) \/ StopContainer(c) \/ RemoveContainer(c)
      PROVE  TypeOK'
  <2>1. {"start_container", "commit", "mark_running", "remove_container",
         "mark_stopped", "delete_row"} \subseteq Steps
    BY DEF Steps, StartSteps, StopSteps
  <2>2. id[c] \in Ids => cont[id[c]] \in {"none", "created", "running", "exited"}
    BY DEF TypeOK
  <2>3. PICK can \in BOOLEAN, ok \in BOOLEAN, s \in Steps,
             st \in {"none", "created", "running", "exited"} \cup {cont[id[c]]} :
          Docker(c, can, st, ok) /\ Then(c, ok, s)
    <3>1. CASE CreateContainer(c)
      BY <2>1, <3>1 DEF CreateContainer
    <3>2. CASE StartContainer(c)
      BY <2>1, <3>2 DEF StartContainer
    <3>3. CASE StopContainer(c)
      BY <2>1, <3>3 DEF StopContainer
    <3>4. CASE RemoveContainer(c)
      <4>1. /\ (IF op[c] = "stop" THEN "mark_stopped" ELSE "delete_row") \in Steps
            /\ "none" \in {"none", "created", "running", "exited"}
        BY <2>1
      <4>2. (cont[id[c]] \in {"created", "exited"}) \in BOOLEAN
        OBVIOUS
      <4> QED BY <4>1, <4>2, <3>4 DEF RemoveContainer
    <3> QED BY <1>5, <3>1, <3>2, <3>3, <3>4
  <2>4. /\ cont' \in [Ids -> {"none", "created", "running", "exited"}]
        /\ faults' \in 0..MaxFaults /\ blamed' \in SUBSET Blames
    <3>1. CASE id[c] \in Ids
      BY <2>2, <2>3, <3>1, DockerTyped
    <3>2. CASE id[c] \notin Ids
      <4> [cont EXCEPT ![id[c]] = st] = cont
        BY <3>2 DEF TypeOK
      <4> QED BY <2>3, AnswerTyped DEF Docker, TypeOK
    <3> QED BY <3>1, <3>2
  <2>5. UNCHANGED <<row, env, drawn, crossed>>
    BY <1>5 DEF CreateContainer, StartContainer, StopContainer, RemoveContainer
  <2> QED BY <2>3, <2>4, <2>5, ThenTyped DEF TypeOK, Steps, Blames
<1>6. ASSUME NEW c \in Clients, Commit(c) PROVE TypeOK'
  <2>1. PICK ok \in BOOLEAN, sent \in SUBSET Apps, s \in Steps :
          /\ Sql(c, TRUE, [id |-> id[c], status |-> "running", links |-> sent],
                 Injected(c, sent), ok)
          /\ Then(c, ok, s)
    BY <1>6 DEF Commit, TypeOK, Steps, LinkSteps
  <2>2. [id |-> id[c], status |-> "running", links |-> sent] \in Row
    BY DEF Row, TypeOK
  <2>3. UNCHANGED <<cont, drawn, crossed>>
    BY <1>6 DEF Commit
  <2>4. /\ row' \in Row /\ env' \in [Apps -> Ids \cup {NoId}]
        /\ faults' \in 0..MaxFaults /\ blamed' \in SUBSET Blames
    BY <2>1, <2>2, WrittenTyped, SqlTyped
  <2> QED BY <2>1, <2>3, <2>4, ThenTyped DEF TypeOK, Steps, Blames
<1>7. ASSUME NEW c \in Clients,
             MarkRunning(c) \/ MarkStopped(c) \/ DeleteRow(c) \/ Patch(c) \/ Link(c)
      PROVE  TypeOK'
  <2>1. "idle" \in Steps /\ "link" \in Steps
    BY DEF Steps, LinkSteps
  <2>2. PICK ok \in BOOLEAN, can \in BOOLEAN, r \in Row,
             e \in [Apps -> Ids \cup {NoId}], s \in Steps :
          Sql(c, can, r, e, ok) /\ (Then(c, ok, s) \/ Finish(c))
    <3> USE WrittenTyped
    <3>1. row \in Row /\ env \in [Apps -> Ids \cup {NoId}] /\ apps[c] \in SUBSET Apps
      BY DEF TypeOK
    <3>2. row.links \cup apps[c] \in SUBSET Apps
      BY <3>1 DEF Row
    <3>3. CASE MarkRunning(c) \/ MarkStopped(c) \/ DeleteRow(c)
      BY <2>1, <3>1, <3>3 DEF MarkRunning, MarkStopped, DeleteRow
    <3>4. CASE Patch(c) \/ Link(c)
      BY <2>1, <3>1, <3>2, <3>4 DEF Patch, Link
    <3> QED BY <1>7, <3>3, <3>4
  <2>3. UNCHANGED <<cont, drawn, crossed>>
    BY <1>7 DEF MarkRunning, MarkStopped, DeleteRow, Patch, Link
  <2>4. /\ row' \in Row /\ env' \in [Apps -> Ids \cup {NoId}]
        /\ faults' \in 0..MaxFaults /\ blamed' \in SUBSET Blames
    BY <2>2, SqlTyped
  <2> QED BY <2>1, <2>2, <2>3, <2>4, ThenTyped DEF TypeOK, Steps, Blames
<1>8. ASSUME NEW c \in Clients, Lookup(c) PROVE TypeOK'
  <2>1. {"link", "create_container", "save"} \subseteq Steps
    BY DEF Steps, LinkSteps, StartSteps
  <2> QED BY <1>8, <2>1, TakeTyped DEF Lookup, TypeOK, Row, Steps
<1>9. ASSUME NEW c \in Clients, Save(c) PROVE TypeOK'
  <2>1. "create_container" \in Steps
    BY DEF Steps, StartSteps
  <2>2. [NoRow EXCEPT !.id = id[c]] \in Row /\ env \in [Apps -> Ids \cup {NoId}]
    BY DEF NoRow, Row, TypeOK
  <2>3. PICK ok \in BOOLEAN :
          /\ Sql(c, row.id = NoId, [NoRow EXCEPT !.id = id[c]], env, ok)
          /\ Then(c, ok, "create_container")
    BY <1>9 DEF Save
  <2>4. UNCHANGED <<cont, drawn, crossed>>
    BY <1>9 DEF Save
  <2>5. /\ row' \in Row /\ env' \in [Apps -> Ids \cup {NoId}]
        /\ faults' \in 0..MaxFaults /\ blamed' \in SUBSET Blames
    BY <2>2, <2>3, SqlTyped
  <2> QED BY <2>1, <2>3, <2>4, <2>5, ThenTyped DEF TypeOK, Steps, Blames
<1>10. CASE ContainerExits
  BY <1>10 DEF ContainerExits, handlerVars, TypeOK
<1>11. CASE ServerCrash
  <2>1. \A c \in Clients : <<id[c], Phase(pc[c])>> \in Blames
    BY PhaseTyped DEF Blames, TypeOK
  <2> QED BY <1>11, <2>1, ResourcesAssumption DEF ServerCrash, TypeOK, Blames
<1>12. CASE UNCHANGED vars
  BY <1>12 DEF vars, handlerVars, TypeOK
<1> QED
  BY <1>1, <1>2, <1>3, <1>4, <1>5, <1>6, <1>7, <1>8, <1>9, <1>10, <1>11, <1>12
  DEF Next, HandlerStep

\* Every behaviour of the managed services is type-correct, whatever fails.
THEOREM ResourcesTypeCorrect == Spec => []TypeOK
BY InitTyped, NextTyped, PTL DEF Spec

-----------------------------------------------------------------------------
(* The invariant of the containers.  What a step does to the handlers:      *)

\* Only c moves.
OthersStay(c) ==
    \A d \in Clients \ {c} : op'[d] = op[d] /\ pc'[d] = pc[d] /\ id'[d] = id[d]
Continues(c, s) == pc'[c] = s /\ id'[c] = id[c] /\ op'[c] = op[c]
Ends(c) == pc'[c] = "idle" /\ id'[c] = NoId /\ op'[c] = "none"

LEMMA PhaseOf ==
    /\ \A s \in StartSteps : Phase(s) = "start"
    /\ \A s \in StopSteps : Phase(s) = "stop"
    /\ \A s \in LinkSteps \cup {"idle"} : Phase(s) = "link"
<1>1. /\ \A s \in StopSteps : s \notin StartSteps
      /\ \A s \in LinkSteps \cup {"idle"} : s \notin StartSteps /\ s \notin StopSteps
  BY DEF StartSteps, StopSteps, LinkSteps
<1> QED BY <1>1 DEF Phase

LEMMA ThenMoves ==
    ASSUME TypeOK, NEW c \in Clients, NEW ok \in BOOLEAN, NEW s, Then(c, ok, s)
    PROVE  /\ OthersStay(c)
           /\ \/ Continues(c, s) /\ ok /\ s # "idle"
              \/ Ends(c) /\ (~ok \/ s = "idle")
BY DEF Then, Goto, Finish, OthersStay, Continues, Ends, TypeOK

LEMMA FinishMoves ==
    ASSUME TypeOK, NEW c \in Clients, Finish(c)
    PROVE  OthersStay(c) /\ Ends(c)
BY DEF Finish, OthersStay, Ends, TypeOK

\* Nobody is cleared.
Blaming == \A i \in Ids, p \in {"start", "stop", "link"} :
             <<i, p>> \in blamed => <<i, p>> \in blamed'

\* Whoever is past its lookup works on a service.
LEMMA AtWork ==
    ASSUME TypeOK, HandlersFit
    PROVE  \A d \in Clients : pc[d] \notin {"idle", "lookup"} => id[d] \in Ids /\ id[d] # NoId
BY ResourcesAssumption DEF TypeOK, HandlersFit

\* A step that leaves the containers alone keeps Emptied, unless c is now the one who
\* is going to write.
LEMMA EmptiedStays ==
    ASSUME TypeOK, HandlersFit, Emptied, Blaming, UNCHANGED <<cont, crossed>>,
           NEW c \in Clients, OthersStay(c), pc'[c] \notin {"mark_stopped", "delete_row"}
    PROVE  Emptied'
<1> SUFFICES ASSUME NEW d \in Clients, pc'[d] \in {"mark_stopped", "delete_row"},
                    <<id'[d], "start">> \notin blamed', id'[d] \notin crossed
             PROVE  cont[id'[d]] = "none"
  BY DEF Emptied
<1>1. pc'[d] = pc[d] /\ id'[d] = id[d] /\ id[d] \in Ids
  BY AtWork DEF OthersStay
<1>2. <<id[d], "start">> \notin blamed
  BY <1>1 DEF Blaming
<1> QED BY <1>1, <1>2 DEF Emptied

\* A container is made by someone who has, or will write, a row.
LEMMA CreateContainerInv ==
    ASSUME TypeOK, ResourceInv, NEW c \in Clients, CreateContainer(c)
    PROVE  ResourceInv'
<1>1. PICK ok \in BOOLEAN : /\ Docker(c, cont[id[c]] = "none", "created", ok)
                            /\ Then(c, ok, "start_container")
  BY DEF CreateContainer
<1>2. /\ pc[c] = "create_container" /\ Phase(pc[c]) = "start"
      /\ UNCHANGED <<row, crossed>>
      /\ id[c] \in Ids /\ id[c] # NoId
  BY PhaseOf, AtWork DEF CreateContainer, StartSteps, StopSteps, ResourceInv
<1>3. /\ OthersStay(c)
      /\ IF ok THEN Continues(c, "start_container") ELSE Ends(c)
  BY <1>1, ThenMoves DEF Continues, Ends
<1>4. /\ \A j \in Ids \ {id[c]} : cont'[j] = cont[j]
      /\ Blaming
      /\ ok => cont[id[c]] = "none" /\ cont'[id[c]] = "created"
      /\ cont[id[c]] = "none" /\ ~ok => <<id[c], "start">> \in blamed'
      /\ cont[id[c]] # "none" => cont'[id[c]] = cont[id[c]]
  BY <1>1, <1>2 DEF Docker, Answer, Blaming, TypeOK
<1> USE <1>2, <1>3, <1>4 DEF ResourceInv, OthersStay, Continues, Ends
<1>5. HandlersFit'
  BY DEF HandlersFit
<1>6. RunningExists'
  BY DEF RunningExists
<1>7. OneTransaction'
  BY DEF OneTransaction, InTransaction
<1>8. Apart'
  BY DEF Apart, StartSteps, StopSteps
<1>9. RowKept'
  BY DEF RowKept
<1>10. Made'
  BY AtWork DEF Made, Owns
<1>11. Found'
  <2> SUFFICES ASSUME NEW i \in Ids, cont'[i] # "none", <<i, "start">> \notin blamed',
                      i \notin crossed'
               PROVE  \/ row'.id = i /\ row'.status = "running"
                      \/ \E d \in Clients : id'[d] = i /\ Owns(d)'
    BY DEF Found
  <2>1. <<i, "start">> \notin blamed
    BY DEF Blaming
  <2> QED BY <2>1 DEF Found, Owns, Made
<1>12. Emptied'
  <2> SUFFICES ASSUME NEW d \in Clients, pc'[d] \in {"mark_stopped", "delete_row"},
                      <<id'[d], "start">> \notin blamed', id'[d] \notin crossed'
               PROVE  cont'[id'[d]] = "none"
    BY DEF Emptied
  <2>1. d # c /\ pc'[d] = pc[d] /\ id'[d] = id[d] /\ id[d] \in Ids
    BY AtWork
  <2>2. <<id[d], "start">> \notin blamed
    BY <2>1 DEF Blaming
  <2>3. id[d] # id[c]
    BY <2>1 DEF Apart, StartSteps, StopSteps
  <2> QED BY <2>1, <2>2, <2>3 DEF Emptied
<1>13. RunningHasContainer'
  <2> SUFFICES ASSUME row'.status = "running", <<row'.id, "stop">> \notin blamed',
                      row'.id \notin crossed'
               PROVE  \/ cont'[row'.id] # "none"
                      \/ \E d \in Clients : /\ id'[d] = row'.id
                                           /\ pc'[d] \in {"mark_stopped", "delete_row"}
    BY DEF RunningHasContainer
  <2>1. row.id \in Ids /\ <<row.id, "stop">> \notin blamed
    BY DEF RunningExists, Row, TypeOK, Blaming
  <2> QED BY <2>1 DEF RunningHasContainer
<1> QED BY <1>5, <1>6, <1>7, <1>8, <1>9, <1>10, <1>11, <1>12, <1>13

\* Who starts a container has it, and a failure is blamed.
LEMMA StartContainerInv ==
    ASSUME TypeOK, ResourceInv, NEW c \in Clients, StartContainer(c)
    PROVE  ResourceInv'
<1>1. PICK ok \in BOOLEAN : /\ Docker(c, cont[id[c]] # "none", "running", ok)
                            /\ Then(c, ok, IF op[c] = "create" THEN "commit" ELSE "mark_running")
  BY DEF StartContainer
<1>2. /\ pc[c] = "start_container" /\ Phase(pc[c]) = "start"
      /\ UNCHANGED <<row, crossed>>
      /\ id[c] \in Ids /\ id[c] # NoId
  BY PhaseOf, AtWork DEF StartContainer, StartSteps, StopSteps, ResourceInv
<1>3. /\ OthersStay(c)
      /\ \/ ok /\ op[c] = "create" /\ Continues(c, "commit")
         \/ ok /\ op[c] # "create" /\ Continues(c, "mark_running")
         \/ ~ok /\ Ends(c)
  BY <1>1, ThenMoves DEF Continues, Ends
<1>4. /\ \A j \in Ids \ {id[c]} : cont'[j] = cont[j]
      /\ Blaming
      /\ cont[id[c]] = "none" <=> cont'[id[c]] = "none"
      /\ cont[id[c]] # "none" /\ ~ok => <<id[c], "start">> \in blamed'
  BY <1>1, <1>2 DEF Docker, Answer, Blaming, TypeOK
<1> USE <1>2, <1>3, <1>4 DEF ResourceInv, OthersStay, Continues, Ends
<1>5. HandlersFit'
  BY DEF HandlersFit
<1>6. RunningExists'
  BY DEF RunningExists
<1>7. OneTransaction'
  BY DEF OneTransaction, InTransaction
<1>8. Apart'
  BY DEF Apart, StartSteps, StopSteps
<1>9. RowKept'
  BY DEF RowKept
<1>10. Made'
  BY AtWork DEF Made, Owns
<1>11. Found'
  <2> SUFFICES ASSUME NEW i \in Ids, cont'[i] # "none", <<i, "start">> \notin blamed',
                      i \notin crossed'
               PROVE  \/ row'.id = i /\ row'.status = "running"
                      \/ \E d \in Clients : id'[d] = i /\ Owns(d)'
    BY DEF Found
  <2>1. <<i, "start">> \notin blamed
    BY DEF Blaming
  <2> QED BY <2>1 DEF Found, Owns, Made
<1>12. Emptied'
  <2> SUFFICES ASSUME NEW d \in Clients, pc'[d] \in {"mark_stopped", "delete_row"},
                      <<id'[d], "start">> \notin blamed', id'[d] \notin crossed'
               PROVE  cont'[id'[d]] = "none"
    BY DEF Emptied
  <2>1. d # c /\ pc'[d] = pc[d] /\ id'[d] = id[d] /\ id[d] \in Ids
    BY AtWork
  <2>2. <<id[d], "start">> \notin blamed
    BY <2>1 DEF Blaming
  <2>3. id[d] # id[c]
    BY <2>1 DEF Apart, StartSteps, StopSteps
  <2> QED BY <2>1, <2>2, <2>3 DEF Emptied
<1>13. RunningHasContainer'
  <2> SUFFICES ASSUME row'.status = "running", <<row'.id, "stop">> \notin blamed',
                      row'.id \notin crossed'
               PROVE  \/ cont'[row'.id] # "none"
                      \/ \E d \in Clients : /\ id'[d] = row'.id
                                           /\ pc'[d] \in {"mark_stopped", "delete_row"}
    BY DEF RunningHasContainer
  <2>1. row.id \in Ids /\ <<row.id, "stop">> \notin blamed
    BY DEF RunningExists, Row, TypeOK, Blaming
  <2> QED BY <2>1 DEF RunningHasContainer
<1> QED BY <1>5, <1>6, <1>7, <1>8, <1>9, <1>10, <1>11, <1>12, <1>13

\* Stopping leaves the container there.
LEMMA StopContainerInv ==
    ASSUME TypeOK, ResourceInv, NEW c \in Clients, StopContainer(c)
    PROVE  ResourceInv'
<1>1. PICK ok \in BOOLEAN : /\ Docker(c, cont[id[c]] # "none", IF cont[id[c]] = "running" THEN "exited" ELSE cont[id[c]], ok)
                            /\ Then(c, ok, "remove_container")
  BY DEF StopContainer
<1>2. /\ pc[c] = "stop_container" /\ Phase(pc[c]) = "stop"
      /\ UNCHANGED <<row, crossed>>
      /\ id[c] \in Ids /\ id[c] # NoId
  BY PhaseOf, AtWork DEF StopContainer, StartSteps, StopSteps, ResourceInv
<1>3. /\ OthersStay(c)
      /\ IF ok THEN Continues(c, "remove_container") ELSE Ends(c)
  BY <1>1, ThenMoves DEF Continues, Ends
<1>4. /\ \A j \in Ids \ {id[c]} : cont'[j] = cont[j]
      /\ Blaming
      /\ cont[id[c]] = "none" <=> cont'[id[c]] = "none"
  BY <1>1, <1>2 DEF Docker, Answer, Blaming, TypeOK
<1> USE <1>2, <1>3, <1>4 DEF ResourceInv, OthersStay, Continues, Ends
<1>5. HandlersFit'
  BY DEF HandlersFit
<1>6. RunningExists'
  BY DEF RunningExists
<1>7. OneTransaction'
  BY DEF OneTransaction, InTransaction
<1>8. Apart'
  BY DEF Apart, StartSteps, StopSteps
<1>9. RowKept'
  BY DEF RowKept
<1>10. Made'
  BY AtWork DEF Made, Owns
<1>11. Found'
  <2> SUFFICES ASSUME NEW i \in Ids, cont'[i] # "none", <<i, "start">> \notin blamed',
                      i \notin crossed'
               PROVE  \/ row'.id = i /\ row'.status = "running"
                      \/ \E d \in Clients : id'[d] = i /\ Owns(d)'
    BY DEF Found
  <2>1. <<i, "start">> \notin blamed
    BY DEF Blaming
  <2> QED BY <2>1 DEF Found, Owns, Made
<1>12. Emptied'
  <2> SUFFICES ASSUME NEW d \in Clients, pc'[d] \in {"mark_stopped", "delete_row"},
                      <<id'[d], "start">> \notin blamed', id'[d] \notin crossed'
               PROVE  cont'[id'[d]] = "none"
    BY DEF Emptied
  <2>1. d # c /\ pc'[d] = pc[d] /\ id'[d] = id[d] /\ id[d] \in Ids
    BY AtWork
  <2>2. <<id[d], "start">> \notin blamed
    BY <2>1 DEF Blaming
  <2> QED BY <2>1, <2>2 DEF Emptied
<1>13. RunningHasContainer'
  <2> SUFFICES ASSUME row'.status = "running", <<row'.id, "stop">> \notin blamed',
                      row'.id \notin crossed'
               PROVE  \/ cont'[row'.id] # "none"
                      \/ \E d \in Clients : /\ id'[d] = row'.id
                                           /\ pc'[d] \in {"mark_stopped", "delete_row"}
    BY DEF RunningHasContainer
  <2>1. row.id \in Ids /\ <<row.id, "stop">> \notin blamed
    BY DEF RunningExists, Row, TypeOK, Blaming
  <2> QED BY <2>1 DEF RunningHasContainer
<1> QED BY <1>5, <1>6, <1>7, <1>8, <1>9, <1>10, <1>11, <1>12, <1>13

\* Who removes a container goes on to write so, or is blamed.
LEMMA RemoveContainerInv ==
    ASSUME TypeOK, ResourceInv, NEW c \in Clients, RemoveContainer(c)
    PROVE  ResourceInv'
<1>1. PICK ok \in BOOLEAN : /\ Docker(c, cont[id[c]] \in {"created", "exited"}, "none", ok)
                            /\ Then(c, ok, IF op[c] = "stop" THEN "mark_stopped" ELSE "delete_row")
  BY DEF RemoveContainer
<1>2. /\ pc[c] = "remove_container" /\ Phase(pc[c]) = "stop"
      /\ UNCHANGED <<row, crossed>>
      /\ id[c] \in Ids /\ id[c] # NoId
  BY PhaseOf, AtWork DEF RemoveContainer, StartSteps, StopSteps, ResourceInv
<1>3. /\ OthersStay(c)
      /\ \/ ok /\ (Continues(c, "mark_stopped") \/ Continues(c, "delete_row"))
         \/ ~ok /\ Ends(c)
  BY <1>1, ThenMoves DEF Continues, Ends
<1>4. /\ \A j \in Ids \ {id[c]} : cont'[j] = cont[j]
      /\ Blaming
      /\ cont'[id[c]] = "none" \/ cont'[id[c]] = cont[id[c]]
      /\ ok => cont'[id[c]] = "none"
      /\ cont'[id[c]] # cont[id[c]] /\ ~ok => <<id[c], "stop">> \in blamed'
  BY <1>1, <1>2 DEF Docker, Answer, Blaming, TypeOK
<1> USE <1>2, <1>3, <1>4 DEF ResourceInv, OthersStay, Continues, Ends
<1>5. HandlersFit'
  BY DEF HandlersFit
<1>6. RunningExists'
  BY DEF RunningExists
<1>7. OneTransaction'
  BY DEF OneTransaction, InTransaction
<1>8. Apart'
  BY DEF Apart, StartSteps, StopSteps
<1>9. RowKept'
  BY DEF RowKept
<1>10. Made'
  <2> SUFFICES ASSUME NEW d \in Clients, Owns(d)', id'[d] \notin crossed'
               PROVE  cont'[id'[d]] # "none"
    BY DEF Made
  <2>1. /\ d # c /\ pc'[d] = pc[d] /\ id'[d] = id[d] /\ id[d] \in Ids /\ Owns(d)
    BY AtWork DEF Owns
  <2>2. id[d] # id[c]
    BY <2>1 DEF Apart, Owns, StartSteps, StopSteps
  <2> QED BY <2>1, <2>2 DEF Made
<1>11. Found'
  <2> SUFFICES ASSUME NEW i \in Ids, cont'[i] # "none", <<i, "start">> \notin blamed',
                      i \notin crossed'
               PROVE  \/ row'.id = i /\ row'.status = "running"
                      \/ \E d \in Clients : id'[d] = i /\ Owns(d)'
    BY DEF Found
  <2>1. <<i, "start">> \notin blamed
    BY DEF Blaming
  <2> QED BY <2>1 DEF Found, Owns, Made
<1>12. Emptied'
  <2> SUFFICES ASSUME NEW d \in Clients, pc'[d] \in {"mark_stopped", "delete_row"},
                      <<id'[d], "start">> \notin blamed', id'[d] \notin crossed'
               PROVE  cont'[id'[d]] = "none"
    BY DEF Emptied
  <2>1. CASE d = c
    BY <2>1
  <2>2. CASE d # c
    <3>1. pc'[d] = pc[d] /\ id'[d] = id[d] /\ id[d] \in Ids
      BY <2>2, AtWork
    <3>2. <<id[d], "start">> \notin blamed
      BY <3>1 DEF Blaming
    <3> QED BY <3>1, <3>2 DEF Emptied
  <2> QED BY <2>1, <2>2
<1>13. RunningHasContainer'
  <2> SUFFICES ASSUME row'.status = "running", <<row'.id, "stop">> \notin blamed',
                      row'.id \notin crossed'
               PROVE  \/ cont'[row'.id] # "none"
                      \/ \E d \in Clients : /\ id'[d] = row'.id
                                           /\ pc'[d] \in {"mark_stopped", "delete_row"}
    BY DEF RunningHasContainer
  <2>1. row.id \in Ids /\ <<row.id, "stop">> \notin blamed
    BY DEF RunningExists, Row, TypeOK, Blaming
  <2> QED BY <2>1 DEF RunningHasContainer
<1> QED BY <1>5, <1>6, <1>7, <1>8, <1>9, <1>10, <1>11, <1>12, <1>13

\* The transaction of a create ends with a running service.
LEMMA CommitInv ==
    ASSUME TypeOK, ResourceInv, NEW c \in Clients, Commit(c)
    PROVE  ResourceInv'
<1>1. PICK ok \in BOOLEAN, sent \in SUBSET Apps :
          /\ Sql(c, TRUE, [id |-> id[c], status |-> "running", links |-> sent],
                 Injected(c, sent), ok)
          /\ Then(c, ok, IF apps[c] = {} THEN "idle" ELSE "patch")
  BY DEF Commit, TypeOK
<1>2. /\ pc[c] = "commit" /\ Phase(pc[c]) = "start"
      /\ UNCHANGED <<cont, crossed>>
      /\ id[c] \in Ids /\ id[c] # NoId
      /\ op[c] = "create" /\ row.id = NoId /\ row.status # "running"
  BY PhaseOf, AtWork
     DEF Commit, StartSteps, StopSteps, LinkSteps, ResourceInv, HandlersFit, RunningExists,
         OneTransaction, InTransaction
<1>3. /\ OthersStay(c)
      /\ Continues(c, "patch") \/ Ends(c)
  BY <1>1, ThenMoves DEF Continues, Ends
<1>4. /\ Blaming
      /\ row' # row => row'.id = id[c] /\ row'.status = "running"
      /\ IF ok THEN row'.id = id[c] /\ row'.status = "running"
               ELSE <<id[c], "start">> \in blamed'
  BY <1>1, <1>2 DEF Sql, Answer, Blaming, TypeOK, Row
<1> USE <1>2, <1>3, <1>4 DEF ResourceInv, OthersStay, Continues, Ends
<1>5. HandlersFit'
  BY DEF HandlersFit
<1>6. RunningExists'
  BY DEF RunningExists
<1>7. OneTransaction'
  BY DEF OneTransaction, InTransaction
<1>8. Apart'
  BY DEF Apart, StartSteps, StopSteps
<1>9. RowKept'
  BY AtWork DEF RowKept
<1>10. Made'
  BY AtWork DEF Made, Owns
<1>11. Found'
  <2> SUFFICES ASSUME NEW i \in Ids, cont'[i] # "none", <<i, "start">> \notin blamed',
                      i \notin crossed'
               PROVE  \/ row'.id = i /\ row'.status = "running"
                      \/ \E d \in Clients : id'[d] = i /\ Owns(d)'
    BY DEF Found
  <2>1. <<i, "start">> \notin blamed
    BY DEF Blaming
  <2> QED BY <2>1 DEF Found, Owns, Made
<1>12. Emptied'
  BY EmptiedStays DEF Ends, Continues
<1>13. RunningHasContainer'
  <2> SUFFICES ASSUME row'.status = "running", <<row'.id, "stop">> \notin blamed',
                      row'.id \notin crossed'
               PROVE  \/ cont'[row'.id] # "none"
                      \/ \E d \in Clients : /\ id'[d] = row'.id
                                           /\ pc'[d] \in {"mark_stopped", "delete_row"}
    BY DEF RunningHasContainer
  <2>1. row'.id = id[c] /\ id[c] \notin crossed
    OBVIOUS
  <2> QED BY <2>1 DEF Made, Owns
<1> QED BY <1>5, <1>6, <1>7, <1>8, <1>9, <1>10, <1>11, <1>12, <1>13

\* A start that is registered has its container.
LEMMA MarkRunningInv ==
    ASSUME TypeOK, ResourceInv, NEW c \in Clients, MarkRunning(c)
    PROVE  ResourceInv'
<1>1. PICK ok \in BOOLEAN :
          /\ Sql(c, TRUE, SetStatus(c, "running"), env, ok)
          /\ Then(c, ok, IF op[c] = "deploy" THEN "link" ELSE "idle")
  BY DEF MarkRunning
<1>2. /\ pc[c] = "mark_running" /\ Phase(pc[c]) = "start"
      /\ UNCHANGED <<cont, crossed>>
      /\ id[c] \in Ids /\ id[c] # NoId
      /\ op[c] # "create"
  BY PhaseOf, AtWork
     DEF MarkRunning, StartSteps, StopSteps, LinkSteps, ResourceInv, HandlersFit, RunningExists,
         OneTransaction, InTransaction
<1>3. /\ OthersStay(c)
      /\ Continues(c, "link") \/ Ends(c)
  BY <1>1, ThenMoves DEF Continues, Ends
<1>4. /\ Blaming
      /\ row'.id = row.id
      /\ row'.status # row.status => row.id = id[c] /\ row'.status = "running"
      /\ ~ok => <<id[c], "start">> \in blamed'
      /\ ok /\ row.id = id[c] => row'.status = "running"
  BY <1>1, <1>2 DEF Sql, Answer, Blaming, TypeOK, Row, SetStatus
<1> USE <1>2, <1>3, <1>4 DEF ResourceInv, OthersStay, Continues, Ends
<1>5. HandlersFit'
  BY DEF HandlersFit
<1>6. RunningExists'
  BY DEF RunningExists
<1>7. OneTransaction'
  BY DEF OneTransaction, InTransaction
<1>8. Apart'
  BY DEF Apart, StartSteps, StopSteps
<1>9. RowKept'
  BY DEF RowKept
<1>10. Made'
  BY AtWork DEF Made, Owns
<1>11. Found'
  <2> SUFFICES ASSUME NEW i \in Ids, cont'[i] # "none", <<i, "start">> \notin blamed',
                      i \notin crossed'
               PROVE  \/ row'.id = i /\ row'.status = "running"
                      \/ \E d \in Clients : id'[d] = i /\ Owns(d)'
    BY DEF Found
  <2>1. <<i, "start">> \notin blamed
    BY DEF Blaming
  <2>2. CASE row.id = i /\ row.status = "running"
    BY <2>2
  <2>3. ASSUME NEW d \in Clients, id[d] = i, Owns(d)
        PROVE  \/ row'.id = i /\ row'.status = "running"
               \/ \E e \in Clients : id'[e] = i /\ Owns(e)'
    BY <2>3 DEF Owns, RowKept
  <2> QED BY <2>1, <2>2, <2>3 DEF Found
<1>12. Emptied'
  BY EmptiedStays DEF Ends, Continues
<1>13. RunningHasContainer'
  <2> SUFFICES ASSUME row'.status = "running", <<row'.id, "stop">> \notin blamed',
                      row'.id \notin crossed'
               PROVE  \/ cont'[row'.id] # "none"
                      \/ \E d \in Clients : /\ id'[d] = row'.id
                                           /\ pc'[d] \in {"mark_stopped", "delete_row"}
    BY DEF RunningHasContainer
  <2>1. CASE row.status = "running"
    <3>1. row.id \in Ids /\ <<row.id, "stop">> \notin blamed
      BY <2>1 DEF RunningExists, Row, TypeOK, Blaming
    <3> QED BY <2>1, <3>1 DEF RunningHasContainer
  <2>2. CASE row.status # "running"
    BY <2>2 DEF Made, Owns
  <2> QED BY <2>1, <2>2
<1> QED BY <1>5, <1>6, <1>7, <1>8, <1>9, <1>10, <1>11, <1>12, <1>13

\* Who writes that a service is stopped has removed its container.
LEMMA MarkStoppedInv ==
    ASSUME TypeOK, ResourceInv, NEW c \in Clients, MarkStopped(c)
    PROVE  ResourceInv'
<1>1. PICK ok \in BOOLEAN :
          Sql(c, TRUE, SetStatus(c, "stopped"), env, ok) /\ Finish(c)
  BY DEF MarkStopped
<1>2. /\ pc[c] = "mark_stopped" /\ Phase(pc[c]) = "stop"
      /\ UNCHANGED <<cont, crossed>>
      /\ id[c] \in Ids /\ id[c] # NoId
  BY PhaseOf, AtWork
     DEF MarkStopped, StartSteps, StopSteps, LinkSteps, ResourceInv, HandlersFit, RunningExists,
         OneTransaction, InTransaction
<1>3. /\ OthersStay(c)
      /\ Ends(c)
  BY <1>1, FinishMoves DEF Continues, Ends
<1>4. /\ Blaming
      /\ row'.id = row.id
      /\ row'.status # row.status => row.id = id[c] /\ row'.status = "stopped"
      /\ ~ok => <<id[c], "stop">> \in blamed'
      /\ ok /\ row.id = id[c] => row'.status = "stopped"
  BY <1>1, <1>2 DEF Sql, Answer, Blaming, TypeOK, Row, SetStatus
<1> USE <1>2, <1>3, <1>4 DEF ResourceInv, OthersStay, Continues, Ends
<1>5. HandlersFit'
  BY DEF HandlersFit
<1>6. RunningExists'
  BY DEF RunningExists
<1>7. OneTransaction'
  BY DEF OneTransaction, InTransaction
<1>8. Apart'
  BY DEF Apart, StartSteps, StopSteps
<1>9. RowKept'
  BY DEF RowKept
<1>10. Made'
  BY AtWork DEF Made, Owns
<1>11. Found'
  <2> SUFFICES ASSUME NEW i \in Ids, cont'[i] # "none", <<i, "start">> \notin blamed',
                      i \notin crossed'
               PROVE  \/ row'.id = i /\ row'.status = "running"
                      \/ \E d \in Clients : id'[d] = i /\ Owns(d)'
    BY DEF Found
  <2>1. <<i, "start">> \notin blamed
    BY DEF Blaming
  <2>2. CASE row.id = i /\ row.status = "running"
    BY <2>1, <2>2 DEF Emptied
  <2>3. CASE \E d \in Clients : id[d] = i /\ Owns(d)
    BY <2>3 DEF Owns
  <2> QED BY <2>1, <2>2, <2>3 DEF Found
<1>12. Emptied'
  BY EmptiedStays DEF Ends, Continues
<1>13. RunningHasContainer'
  <2> SUFFICES ASSUME row'.status = "running", <<row'.id, "stop">> \notin blamed',
                      row'.id \notin crossed'
               PROVE  \/ cont'[row'.id] # "none"
                      \/ \E d \in Clients : /\ id'[d] = row'.id
                                           /\ pc'[d] \in {"mark_stopped", "delete_row"}
    BY DEF RunningHasContainer
  <2>1. row.id \in Ids /\ <<row.id, "stop">> \notin blamed
    BY DEF RunningExists, Row, TypeOK, Blaming
  <2> QED BY <2>1 DEF RunningHasContainer
<1> QED BY <1>5, <1>6, <1>7, <1>8, <1>9, <1>10, <1>11, <1>12, <1>13

\* Who deletes a row left no container, and nobody starts one.
LEMMA DeleteRowInv ==
    ASSUME TypeOK, ResourceInv, NEW c \in Clients, DeleteRow(c)
    PROVE  ResourceInv'
<1>1. PICK ok \in BOOLEAN :
          Sql(c, TRUE, IF row.id = id[c] THEN NoRow ELSE row, env, ok) /\ Finish(c)
  BY DEF DeleteRow
<1>2. /\ pc[c] = "delete_row" /\ Phase(pc[c]) = "stop"
      /\ UNCHANGED <<cont, crossed>>
      /\ id[c] \in Ids /\ id[c] # NoId
  BY PhaseOf, AtWork
     DEF DeleteRow, StartSteps, StopSteps, LinkSteps, ResourceInv, HandlersFit, RunningExists,
         OneTransaction, InTransaction
<1>3. /\ OthersStay(c)
      /\ Ends(c)
  BY <1>1, FinishMoves DEF Continues, Ends
<1>4. /\ Blaming
      /\ \/ row' = row
         \/ row.id = id[c] /\ row'.id = NoId /\ row'.status = "stopped"
      /\ ~ok => <<id[c], "stop">> \in blamed'
      /\ ok /\ row.id = id[c] => row'.status = "stopped"
  BY <1>1, <1>2 DEF Sql, Answer, Blaming, TypeOK, Row, NoRow
<1> USE <1>2, <1>3, <1>4 DEF ResourceInv, OthersStay, Continues, Ends
<1>5. HandlersFit'
  BY DEF HandlersFit
<1>6. RunningExists'
  BY DEF RunningExists
<1>7. OneTransaction'
  BY DEF OneTransaction, InTransaction
<1>8. Apart'
  BY DEF Apart, StartSteps, StopSteps
<1>9. RowKept'
  <2> SUFFICES ASSUME NEW d \in Clients, op'[d] # "create", id'[d] \notin crossed',
                      pc'[d] \in {"create_container", "start_container", "mark_running"}
               PROVE  row'.id = id'[d]
    BY DEF RowKept
  <2>1. d # c /\ pc'[d] = pc[d] /\ id'[d] = id[d] /\ op'[d] = op[d] /\ id[d] # NoId
    BY AtWork
  <2>2. id[d] # id[c]
    BY <2>1 DEF Apart, StartSteps, StopSteps
  <2> QED BY <2>1, <2>2 DEF RowKept
<1>10. Made'
  BY AtWork DEF Made, Owns
<1>11. Found'
  <2> SUFFICES ASSUME NEW i \in Ids, cont'[i] # "none", <<i, "start">> \notin blamed',
                      i \notin crossed'
               PROVE  \/ row'.id = i /\ row'.status = "running"
                      \/ \E d \in Clients : id'[d] = i /\ Owns(d)'
    BY DEF Found
  <2>1. <<i, "start">> \notin blamed
    BY DEF Blaming
  <2>2. CASE row.id = i /\ row.status = "running"
    BY <2>1, <2>2 DEF Emptied
  <2>3. CASE \E d \in Clients : id[d] = i /\ Owns(d)
    BY <2>3 DEF Owns
  <2> QED BY <2>1, <2>2, <2>3 DEF Found
<1>12. Emptied'
  BY EmptiedStays DEF Ends, Continues
<1>13. RunningHasContainer'
  <2> SUFFICES ASSUME row'.status = "running", <<row'.id, "stop">> \notin blamed',
                      row'.id \notin crossed'
               PROVE  \/ cont'[row'.id] # "none"
                      \/ \E d \in Clients : /\ id'[d] = row'.id
                                           /\ pc'[d] \in {"mark_stopped", "delete_row"}
    BY DEF RunningHasContainer
  <2>1. row.id \in Ids /\ <<row.id, "stop">> \notin blamed
    BY DEF RunningExists, Row, TypeOK, Blaming
  <2> QED BY <2>1 DEF RunningHasContainer
<1> QED BY <1>5, <1>6, <1>7, <1>8, <1>9, <1>10, <1>11, <1>12, <1>13

\* A deployment writes its row only when there is none.
LEMMA SaveInv ==
    ASSUME TypeOK, ResourceInv, NEW c \in Clients, Save(c)
    PROVE  ResourceInv'
<1>1. PICK ok \in BOOLEAN :
          /\ Sql(c, row.id = NoId, [NoRow EXCEPT !.id = id[c]], env, ok)
          /\ Then(c, ok, "create_container")
  BY DEF Save
<1>2. /\ pc[c] = "save" /\ Phase(pc[c]) = "start"
      /\ UNCHANGED <<cont, crossed>>
      /\ id[c] \in Ids /\ id[c] # NoId
      /\ op[c] = "deploy" /\ ~Uncommitted
  BY PhaseOf, AtWork
     DEF Save, StartSteps, StopSteps, LinkSteps, ResourceInv, HandlersFit, RunningExists,
         OneTransaction, InTransaction
<1>3. /\ OthersStay(c)
      /\ IF ok THEN Continues(c, "create_container") ELSE Ends(c)
  BY <1>1, ThenMoves DEF Continues, Ends
<1>4. /\ Blaming
      /\ \/ row' = row
         \/ row.id = NoId /\ row'.id = id[c] /\ row'.status = "stopped"
      /\ ok => row'.id = id[c]
  BY <1>1, <1>2 DEF Sql, Answer, Blaming, TypeOK, Row, NoRow
<1> USE <1>2, <1>3, <1>4 DEF ResourceInv, OthersStay, Continues, Ends
<1>5. HandlersFit'
  BY DEF HandlersFit
<1>6. RunningExists'
  BY DEF RunningExists
<1>7. OneTransaction'
  BY DEF OneTransaction, InTransaction, Uncommitted
<1>8. Apart'
  BY DEF Apart, StartSteps, StopSteps
<1>9. RowKept'
  BY AtWork DEF RowKept
<1>10. Made'
  BY AtWork DEF Made, Owns
<1>11. Found'
  <2> SUFFICES ASSUME NEW i \in Ids, cont'[i] # "none", <<i, "start">> \notin blamed',
                      i \notin crossed'
               PROVE  \/ row'.id = i /\ row'.status = "running"
                      \/ \E d \in Clients : id'[d] = i /\ Owns(d)'
    BY DEF Found
  <2>1. <<i, "start">> \notin blamed
    BY DEF Blaming
  <2>2. CASE row.id = i /\ row.status = "running"
    BY <2>2, ResourcesAssumption
  <2>3. CASE \E d \in Clients : id[d] = i /\ Owns(d)
    BY <2>3 DEF Owns
  <2> QED BY <2>1, <2>2, <2>3 DEF Found
<1>12. Emptied'
  BY EmptiedStays DEF Ends, Continues
<1>13. RunningHasContainer'
  <2> SUFFICES ASSUME row'.status = "running", <<row'.id, "stop">> \notin blamed',
                      row'.id \notin crossed'
               PROVE  \/ cont'[row'.id] # "none"
                      \/ \E d \in Clients : /\ id'[d] = row'.id
                                           /\ pc'[d] \in {"mark_stopped", "delete_row"}
    BY DEF RunningHasContainer
  <2>1. row.id \in Ids /\ <<row.id, "stop">> \notin blamed
    BY DEF RunningExists, Row, TypeOK, Blaming
  <2> QED BY <2>1 DEF RunningHasContainer
<1> QED BY <1>5, <1>6, <1>7, <1>8, <1>9, <1>10, <1>11, <1>12, <1>13

\* Attachments touch neither the status nor the container.
LEMMA LinkInv ==
    ASSUME TypeOK, ResourceInv, NEW c \in Clients, Patch(c) \/ Link(c)
    PROVE  ResourceInv'
<1>1. PICK ok \in BOOLEAN, can \in BOOLEAN :
          \E S, e : Sql(c, can, [row EXCEPT !.links = S], e, ok)
  <2>1. (row.id = id[c]) \in BOOLEAN
    OBVIOUS
  <2>2. CASE Patch(c)
    BY <2>1, <2>2 DEF Patch
  <2>3. CASE Link(c)
    BY <2>1, <2>3 DEF Link
  <2> QED BY <2>2, <2>3
<1>2. pc[c] \in LinkSteps /\ UNCHANGED <<cont, crossed>> /\ id[c] # NoId
  BY AtWork DEF Patch, Link, LinkSteps, ResourceInv
<1>3. OthersStay(c) /\ Ends(c)
  BY FinishMoves DEF Patch, Link
<1>4. Blaming /\ row'.id = row.id /\ row'.status = row.status
  BY <1>1 DEF Sql, Answer, Blaming, TypeOK, Row
<1> USE <1>2, <1>3, <1>4 DEF ResourceInv, OthersStay, Continues, Ends
<1>5. HandlersFit'
  BY DEF HandlersFit
<1>6. RunningExists'
  BY DEF RunningExists
<1>7. OneTransaction'
  BY DEF OneTransaction, InTransaction
<1>8. Apart'
  BY DEF Apart, StartSteps, StopSteps
<1>9. RowKept'
  BY DEF RowKept
<1>10. Made'
  BY AtWork DEF Made, Owns
<1>11. Found'
  <2> SUFFICES ASSUME NEW i \in Ids, cont'[i] # "none", <<i, "start">> \notin blamed',
                      i \notin crossed'
               PROVE  \/ row'.id = i /\ row'.status = "running"
                      \/ \E d \in Clients : id'[d] = i /\ Owns(d)'
    BY DEF Found
  <2>1. <<i, "start">> \notin blamed
    BY DEF Blaming
  <2> QED BY <2>1 DEF Found, Owns, LinkSteps
<1>12. Emptied'
  BY EmptiedStays DEF Ends, Continues
<1>13. RunningHasContainer'
  <2> SUFFICES ASSUME row'.status = "running", <<row'.id, "stop">> \notin blamed',
                      row'.id \notin crossed'
               PROVE  \/ cont'[row'.id] # "none"
                      \/ \E d \in Clients : /\ id'[d] = row'.id
                                           /\ pc'[d] \in {"mark_stopped", "delete_row"}
    BY DEF RunningHasContainer
  <2>1. row.id \in Ids /\ <<row.id, "stop">> \notin blamed
    BY DEF RunningExists, Row, TypeOK, Blaming
  <2> QED BY <2>1 DEF RunningHasContainer, LinkSteps
<1> QED BY <1>5, <1>6, <1>7, <1>8, <1>9, <1>10, <1>11, <1>12, <1>13

\* An insert that succeeds finds no row, and no transaction that is open.
LEMMA InsertInv ==
    ASSUME TypeOK, ResourceInv, NEW c \in Clients, Insert(c)
    PROVE  ResourceInv'
<1>1. PICK ok \in BOOLEAN : /\ Answer(c, row.id = NoId, ok)
                            /\ Then(c, ok, "create_container")
  BY DEF Insert
<1>2. /\ pc[c] = "insert" /\ op[c] = "create" /\ ~Uncommitted
      /\ UNCHANGED <<row, cont, crossed>>
      /\ id[c] \in Ids /\ id[c] # NoId
  BY AtWork DEF Insert, ResourceInv, HandlersFit
<1>3. /\ OthersStay(c)
      /\ IF ok THEN Continues(c, "create_container") ELSE Ends(c)
  BY <1>1, ThenMoves DEF Continues, Ends
<1>4. Blaming /\ (ok => row.id = NoId)
  BY <1>1 DEF Answer, Blaming
<1> USE <1>2, <1>3, <1>4 DEF ResourceInv, OthersStay, Continues, Ends
<1>5. HandlersFit'
  BY DEF HandlersFit
<1>6. RunningExists'
  BY DEF RunningExists
<1>7. OneTransaction'
  BY DEF OneTransaction, InTransaction, Uncommitted
<1>8. Apart'
  BY DEF Apart, StartSteps, StopSteps
<1>9. RowKept'
  BY DEF RowKept
<1>10. Made'
  BY AtWork DEF Made, Owns
<1>11. Found'
  <2> SUFFICES ASSUME NEW i \in Ids, cont'[i] # "none", <<i, "start">> \notin blamed',
                      i \notin crossed'
               PROVE  \/ row'.id = i /\ row'.status = "running"
                      \/ \E d \in Clients : id'[d] = i /\ Owns(d)'
    BY DEF Found
  <2>1. <<i, "start">> \notin blamed
    BY DEF Blaming
  <2> QED BY <2>1 DEF Found, Owns, Made
<1>12. Emptied'
  BY EmptiedStays DEF Ends, Continues
<1>13. RunningHasContainer'
  <2> SUFFICES ASSUME row'.status = "running", <<row'.id, "stop">> \notin blamed',
                      row'.id \notin crossed'
               PROVE  \/ cont'[row'.id] # "none"
                      \/ \E d \in Clients : /\ id'[d] = row'.id
                                           /\ pc'[d] \in {"mark_stopped", "delete_row"}
    BY DEF RunningHasContainer
  <2>1. row.id \in Ids /\ <<row.id, "stop">> \notin blamed
    BY DEF RunningExists, Row, TypeOK, Blaming
  <2> QED BY <2>1 DEF RunningHasContainer
<1> QED BY <1>5, <1>6, <1>7, <1>8, <1>9, <1>10, <1>11, <1>12, <1>13

\* A handler takes up service i, and does step s first.  A delete goes straight to
\* the row only if it does not say "running".
LEMMA TakeInv ==
    ASSUME TypeOK, ResourceInv, NEW c \in Clients, NEW o, NEW s \in Steps,
           NEW i \in Ids \cup {NoId}, pc[c] \in {"idle", "lookup"},
           UNCHANGED <<row, cont, blamed>>, Take(c, s, i), op' = [op EXCEPT ![c] = o],
           i = NoId <=> s = "lookup",
           s \in {"insert", "lookup", "save", "create_container", "stop_container",
                  "delete_row", "link", "patch"},
           s = "insert" => o = "create",
           s \in {"lookup", "save"} => o = "deploy",
           s = "create_container" => o # "create" /\ i = row.id,
           s = "delete_row" => i = row.id /\ row.status # "running"
    PROVE  ResourceInv'
<1>1. /\ OthersStay(c)
      /\ pc'[c] = s /\ id'[c] = i /\ op'[c] = o
  BY DEF Take, OthersStay, TypeOK
<1>2. crossed \subseteq crossed'
  BY DEF Take
<1>3. ASSUME NEW d \in Clients \ {c}, id[d] = i,
             \/ s \in StartSteps /\ pc[d] \in StopSteps
             \/ s \in StopSteps /\ pc[d] \in StartSteps
      PROVE  i \in crossed'
  <2>1. {Phase(s), Phase(pc[d])} = {"start", "stop"}
    BY <1>3, PhaseOf
  <2> QED BY <1>3, <2>1 DEF Take
<1> USE <1>1, <1>2 DEF ResourceInv, OthersStay
<1>5. HandlersFit'
  BY DEF HandlersFit
<1>6. RunningExists'
  BY DEF RunningExists
<1>7. OneTransaction'
  BY DEF OneTransaction, InTransaction
<1>8. Apart'
  <2> SUFFICES ASSUME NEW d \in Clients, NEW e \in Clients, id'[d] = id'[e],
                      id'[d] # NoId, id'[d] \notin crossed',
                      pc'[d] \in StartSteps, pc'[e] \in StopSteps
               PROVE  FALSE
    BY DEF Apart
  <2>1. CASE d = c /\ e # c
    BY <2>1, <1>3
  <2>2. CASE d # c /\ e = c
    BY <2>2, <1>3
  <2>3. CASE d # c /\ e # c
    BY <2>3 DEF Apart
  <2>4. CASE d = c /\ e = c
    BY <2>4 DEF StartSteps, StopSteps
  <2> QED BY <2>1, <2>2, <2>3, <2>4
<1>9. RowKept'
  BY DEF RowKept
<1>10. Made'
  BY DEF Made, Owns
<1>11. Found'
  BY DEF Found, Owns
<1>12. Emptied'
  <2> SUFFICES ASSUME NEW d \in Clients, pc'[d] \in {"mark_stopped", "delete_row"},
                      <<id'[d], "start">> \notin blamed, id'[d] \notin crossed'
               PROVE  cont[id'[d]] = "none"
    BY DEF Emptied
  <2>1. CASE d # c
    BY <2>1 DEF Emptied
  <2>2. CASE d = c
    <3>1. s = "delete_row" /\ i \in Ids /\ row.status # "running"
      BY <2>2
    <3>2. ASSUME NEW e \in Clients, id[e] = i, Owns(e)
          PROVE  FALSE
      <4>1. e # c /\ pc[e] \in StartSteps /\ s \in StopSteps
        BY <3>1, <3>2 DEF Owns, StartSteps, StopSteps
      <4> QED BY <2>2, <3>2, <4>1, <1>3
    <3> QED BY <2>2, <3>1, <3>2 DEF Found
  <2> QED BY <2>1, <2>2
<1>13. RunningHasContainer'
  <2> SUFFICES ASSUME row.status = "running", <<row.id, "stop">> \notin blamed,
                      row.id \notin crossed
               PROVE  \/ cont[row.id] # "none"
                      \/ \E d \in Clients : /\ id'[d] = row.id
                                           /\ pc'[d] \in {"mark_stopped", "delete_row"}
    BY DEF RunningHasContainer
  <2> QED BY DEF RunningHasContainer
<1> QED BY <1>5, <1>6, <1>7, <1>8, <1>9, <1>10, <1>11, <1>12, <1>13

\* Every request, and a deployment's lookup, takes up a service.
LEMMA RequestInv ==
    ASSUME TypeOK, ResourceInv, NEW c \in Clients,
           \/ Create(c) \/ Start(c) \/ Stop(c) \/ Delete(c) \/ Attach(c) \/ Lookup(c)
           \/ \E a \in Apps : Arrive(c, "deploy", NoId, "lookup", {a})
    PROVE  ResourceInv'
<1> USE ResourcesAssumption DEF Arrive
<1>1. {"insert", "lookup", "save", "create_container", "stop_container", "delete_row",
       "link", "patch"} \subseteq Steps
  BY DEF Steps, StartSteps, StopSteps, LinkSteps
<1>2. row.id \in Ids \cup {NoId} /\ row.status \in {"stopped", "running"}
  BY DEF TypeOK, Row
<1>3. CASE Create(c)
  BY <1>1, <1>3, TakeInv DEF Create
<1>4. CASE Start(c)
  BY <1>1, <1>2, <1>4, TakeInv DEF Start
<1>5. CASE Stop(c)
  BY <1>1, <1>2, <1>5, TakeInv DEF Stop
<1>6. CASE Delete(c)
  BY <1>1, <1>2, <1>6, TakeInv DEF Delete
<1>7. CASE Attach(c)
  BY <1>1, <1>2, <1>7, TakeInv DEF Attach
<1>8. CASE Lookup(c)
  <2>1. op' = [op EXCEPT ![c] = "deploy"]
    BY <1>8 DEF Lookup, ResourceInv, HandlersFit, TypeOK
  <2>2. CASE /\ row.id # NoId
             /\ Take(c, IF row.status = "running" THEN "link" ELSE "create_container",
                     row.id)
    BY <1>1, <1>2, <1>8, <2>1, <2>2, TakeInv DEF Lookup
  <2>3. CASE \E i \in Ids : Take(c, "save", i)
    BY <1>1, <1>8, <2>1, <2>3, TakeInv DEF Lookup
  <2> QED BY <1>8, <2>2, <2>3 DEF Lookup
<1>9. CASE \E a \in Apps : Arrive(c, "deploy", NoId, "lookup", {a})
  BY <1>1, <1>9, TakeInv
<1> QED BY <1>3, <1>4, <1>5, <1>6, <1>7, <1>8, <1>9

\* Steps that no handler takes: at most the container exits.
LEMMA NobodyInv ==
    ASSUME TypeOK, ResourceInv, UNCHANGED <<row, op, pc, id, blamed, crossed>>,
           \A i \in Ids : cont'[i] = "none" <=> cont[i] = "none"
    PROVE  ResourceInv'
<1> USE DEF ResourceInv
<1>1. HandlersFit' /\ RunningExists' /\ OneTransaction' /\ Apart' /\ RowKept'
  BY DEF HandlersFit, RunningExists, OneTransaction, InTransaction, Apart, RowKept
<1>2. Made'
  BY AtWork DEF Made, Owns
<1>3. Found'
  BY DEF Found, Owns
<1>4. Emptied'
  BY AtWork DEF Emptied
<1>5. RunningHasContainer'
  <2>1. row.status = "running" => row.id \in Ids
    BY DEF RunningExists, TypeOK, Row
  <2> QED BY <2>1 DEF RunningHasContainer
<1> QED BY <1>1, <1>2, <1>3, <1>4, <1>5

\* A crash is blamed on everything that was in progress.
LEMMA CrashInv == ASSUME TypeOK, ResourceInv, ServerCrash PROVE ResourceInv'
<1>1. /\ \A d \in Clients : op'[d] = "none" /\ pc'[d] = "idle" /\ id'[d] = NoId
      /\ UNCHANGED <<row, cont, crossed>>
  BY DEF ServerCrash
<1>2. /\ Blaming
      /\ \A d \in Clients : pc[d] # "idle" => <<id[d], Phase(pc[d])>> \in blamed'
  BY DEF ServerCrash, Blaming
<1> USE <1>1 DEF ResourceInv
<1>3. HandlersFit' /\ RunningExists' /\ OneTransaction' /\ Apart' /\ RowKept'
  BY DEF HandlersFit, RunningExists, OneTransaction, InTransaction, Apart, RowKept,
         StartSteps, StopSteps
<1>4. Made' /\ Emptied'
  BY DEF Made, Owns, Emptied
<1>5. Found'
  <2> SUFFICES ASSUME NEW i \in Ids, cont[i] # "none", <<i, "start">> \notin blamed',
                      i \notin crossed
               PROVE  row.id = i /\ row.status = "running"
    BY DEF Found
  <2>1. <<i, "start">> \notin blamed
    BY <1>2 DEF Blaming
  <2>2. ASSUME NEW d \in Clients, id[d] = i, Owns(d)
        PROVE  FALSE
    <3>1. Phase(pc[d]) = "start" /\ pc[d] # "idle"
      BY <2>2, PhaseOf DEF Owns, StartSteps
    <3> QED BY <1>2, <2>2, <3>1
  <2> QED BY <2>1, <2>2 DEF Found
<1>6. RunningHasContainer'
  <2> SUFFICES ASSUME row.status = "running", <<row.id, "stop">> \notin blamed',
                      row.id \notin crossed
               PROVE  cont[row.id] # "none"
    BY DEF RunningHasContainer
  <2>1. <<row.id, "stop">> \notin blamed
    BY <1>2 DEF RunningExists, TypeOK, Row, Blaming
  <2>2. ASSUME NEW d \in Clients, id[d] = row.id, pc[d] \in {"mark_stopped", "delete_row"}
        PROVE  FALSE
    <3>1. Phase(pc[d]) = "stop" /\ pc[d] # "idle"
      BY <2>2, PhaseOf DEF StopSteps
    <3> QED BY <1>2, <2>2, <3>1
  <2> QED BY <2>1, <2>2 DEF RunningHasContainer
<1> QED BY <1>3, <1>4, <1>5, <1>6

LEMMA InitInv == Init => ResourceInv
<1> SUFFICES ASSUME Init PROVE ResourceInv
  OBVIOUS
<1> USE DEF Init, NoRow
<1>1. HandlersFit /\ RunningExists /\ OneTransaction /\ Apart /\ RowKept
  BY DEF HandlersFit, RunningExists, OneTransaction, InTransaction, Apart, RowKept,
         StartSteps, StopSteps
<1>2. Made /\ Found /\ Emptied /\ RunningHasContainer
  BY DEF Made, Owns, Found, Emptied, RunningHasContainer
<1> QED BY <1>1, <1>2 DEF ResourceInv

LEMMA NextInv == TypeOK /\ ResourceInv /\ [Next]_vars => ResourceInv'
<1> SUFFICES ASSUME TypeOK, ResourceInv, [Next]_vars PROVE ResourceInv'
  OBVIOUS
<1>1. ASSUME NEW c \in Clients, HandlerStep(c) PROVE ResourceInv'
  BY <1>1, InsertInv, CreateContainerInv, StartContainerInv, CommitInv, MarkRunningInv,
     StopContainerInv, RemoveContainerInv, MarkStoppedInv, DeleteRowInv, LinkInv,
     RequestInv, SaveInv DEF HandlerStep
<1>2. ASSUME NEW c \in Clients,
             Create(c) \/ Start(c) \/ Stop(c) \/ Delete(c) \/ Attach(c)
      PROVE  ResourceInv'
  BY <1>2, RequestInv
<1>3. ASSUME NEW c \in Clients, Deploy(c) PROVE ResourceInv'
  <2>1. CASE \E a \in Apps : Arrive(c, "deploy", NoId, "lookup", {a})
    BY <2>1, RequestInv
  <2>2. CASE UNCHANGED <<row, cont, handlerVars, faults, blamed, crossed>>
    BY <2>2, NobodyInv DEF handlerVars
  <2> QED BY <1>3, <2>1, <2>2 DEF Deploy
<1>4. CASE ContainerExits
  <2>1. \A i \in Ids : cont'[i] = "none" <=> cont[i] = "none"
    BY <1>4 DEF ContainerExits, TypeOK
  <2> QED BY <1>4, <2>1, NobodyInv DEF ContainerExits, handlerVars
<1>5. CASE ServerCrash
  BY <1>5, CrashInv
<1>6. CASE UNCHANGED vars
  BY <1>6, NobodyInv DEF vars, handlerVars
<1> QED BY <1>1, <1>2, <1>3, <1>4, <1>5, <1>6 DEF Next

\* What holds between a service's row, its containers and the handlers at work on it,
\* at every step of create_resource, start_resource, stop_resource, delete_resource and
\* of a deployment that links it: the two theorems after this one rest on it.
THEOREM ResourceInvariant == Spec => []ResourceInv
BY InitTyped, NextTyped, InitInv, NextInv, PTL DEF Spec

\* Whatever the requests, deployments, faults and crashes, and however they interleave:
\* a service whose row says "running" has a container, unless a stop or a delete of it
\* failed or overlapped with a start.
THEOREM RunningServiceHasContainer == Spec => []RunningHasContainer
<1>1. ResourceInv => RunningHasContainer
  BY DEF ResourceInv
<1> QED BY <1>1, ResourceInvariant, PTL

\* Likewise, a container that nobody works on belongs to a service whose row says
\* "running", unless a start of it failed or overlapped with a stop or a delete.
THEOREM ContainersAreAccounted == Spec => []ContainerHasRunningRow
<1>1. ResourceInv => ContainerHasRunningRow
  BY DEF ResourceInv, Found, ContainerHasRunningRow, Busy
<1> QED BY <1>1, ResourceInvariant, PTL

=============================================================================
