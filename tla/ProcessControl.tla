-------------------------- MODULE ProcessControl --------------------------
(***************************************************************************)
(* One process of an application with everything that acts on it: the      *)
(* rolling updates, the watcher and the handlers of stop, restart and      *)
(* delete, interleaved call by call on the same containers and the same    *)
(* row, and an API server that may die and come back.                      *)
(***************************************************************************)
EXTENDS RollingUpdate, FiniteSets

CONSTANTS
    Clients,        \* the senders of stop, restart and delete requests
    OneByOne,       \* bound: updates meet clients' requests only while all is Calm
    MaxExits,       \* bound on the containers that exit by themselves
    MaxCrashes      \* bound on the crashes of the API server

ASSUME ControlAssumption ==
    /\ Clients \cap (Updates \cup {"watcher"}) = {}
    /\ OneByOne \in BOOLEAN /\ MaxExits \in Nat /\ MaxCrashes \in Nat

VARIABLES
    wpc, op, rpc,       \* what the watcher and the handlers do
    exits, crashes,     \* how often containers exited and the server died
    asked,              \* for OneByOne: has a client's request been accepted?
    overlapped          \* observer: were two actors ever busy at the same time?

W == INSTANCE Watcher
R == INSTANCE Requests

controlVars == <<vars, wpc, op, rpc, exits, crashes, asked, overlapped>>

ControlTypeOK ==
    /\ TypeOK /\ W!WatchTypeOK /\ R!RequestTypeOK
    /\ exits \in 0..MaxExits /\ crashes \in 0..MaxCrashes
    /\ {asked, overlapped} \subseteq BOOLEAN

ControlInit ==
    /\ Init /\ W!WatchInit /\ R!RequestInit
    /\ exits = 0 /\ crashes = 0 /\ asked = FALSE /\ overlapped = FALSE

Busy == {t \in Updates : InFlight(t)} \cup {r \in Clients : R!Handling(r)}
            \cup (IF wpc = "sleep" THEN {} ELSE {"watcher"})

Observe == overlapped' = (overlapped \/ Cardinality(Busy') > 1)

-----------------------------------------------------------------------------

\* Whatever happened so far happened one after the other, and nothing went wrong.
Calm == Busy = {} /\ ~overlapped /\ faults = 0 /\ exits = 0 /\ crashes = 0

\* What the parts leave alone of each other.
UpdateFrame  == UNCHANGED <<wpc, op, rpc, exits, crashes, asked>> /\ Observe
WatchFrame   == UNCHANGED <<updateVars, passed, op, rpc, exits, crashes, asked>> /\ Observe
RequestFrame == UNCHANGED <<updateVars, passed, wpc, exits, crashes>> /\ Observe

\* A restart by the watcher stops a container that runs: nothing is expected of
\* the process then, until an update registers a container that runs.
WatchObserve ==
    expectUp' = (expectUp /\ ~(wpc = "restart" /\ cont[Prod].st = "running"))

Submit(t) == (OneByOne => ~asked \/ Calm) /\ Begin(t) /\ UpdateFrame
Run(t)    == TaskStep(t) /\ UpdateFrame
Watch     == W!WatchStep /\ WatchFrame /\ WatchObserve
Serve(r)  == R!HandlerStep(r) /\ RequestFrame /\ UNCHANGED <<expectUp, asked>>

\* Its user stops, restarts or deletes the process: nothing is expected of it.
Ask(r) ==
    /\ OneByOne => Calm \/ \A t \in Updates : pc[t] = "idle"
    /\ R!Arrive(r) /\ RequestFrame
    /\ expectUp' = FALSE
    /\ asked' = OneByOne

Exit(n) ==
    /\ exits < MaxExits
    /\ ContainerExits(n)
    /\ exits' = exits + 1
    /\ UNCHANGED <<wpc, op, rpc, crashes, asked, overlapped>>

\* Tasks, handlers and the watcher's pass die with the server; the watcher
\* starts over with the server.
Crash ==
    /\ crashes < MaxCrashes
    /\ crashes' = crashes + 1
    /\ pc' = [t \in Updates |-> IF InFlight(t) THEN "lost" ELSE pc[t]]
    /\ rpc' = [r \in Clients |-> "idle"]
    /\ op' = [r \in Clients |-> R!NoOp]
    /\ wpc' = "sleep"
    /\ UNCHANGED <<sharedVars, attempts, outcome, passed, expectUp, exits,
                   asked, overlapped>>

ControlNext ==
    \/ \E t \in Updates : Submit(t) \/ Run(t)
    \/ Watch
    \/ \E r \in Clients : Ask(r) \/ Serve(r)
    \/ \E n \in Names : Exit(n)
    \/ Crash

\* The server's own work goes on while it runs; requests, exits and crashes
\* need not happen.
ControlFairness ==
    /\ \A t \in Updates : WF_controlVars(Run(t))
    /\ \A r \in Clients : WF_controlVars(Serve(r))
    /\ WF_controlVars(Watch)

ControlSpec == ControlInit /\ [][ControlNext]_controlVars
FairControlSpec == ControlSpec /\ ControlFairness

-----------------------------------------------------------------------------
(* Properties                                                               *)

AtRest == Busy = {}

\* When no two actors ever overlapped, nothing failed and the server never died,
\* every sequence of updates, requests and watcher passes leaves the row and the
\* containers in agreement: deleted means that nothing is left, stopped that no
\* production container is, "building" never stays, neither does a canary or a
\* moved-aside container, and what runs is what the row names.  One container of
\* the watcher's can run without being named: it recreated a missing one, which
\* exited before the pass could register it, so that the row says "failed" of the
\* container before; an update that rolls back declares it "running", and the next
\* pass restarts what has the name.
AgreementAtRest ==
    (AtRest /\ ~overlapped /\ faults = 0 /\ crashes = 0)
    => /\ row.status # "building"
       /\ row.status \in {"gone", "stopped"} => cont[Prod].st = "none"
       /\ cont[Prod].st = "running" =>
             \/ cont[Prod].by = row.container
             \/ cont[Prod].by = "watcher" /\ exits > 0
       /\ \A n \in Names \ {Prod} : cont[n].st = "none"

\* A deleted application leaves no container behind, whatever was going on when
\* the request came (apps.rs: 204, "Application deleted").
DeletedLeavesNothing ==
    (AtRest /\ row.status = "gone" /\ faults = 0 /\ crashes = 0)
    => \A n \in Names : cont[n].st = "none"

\* The watcher brings back a process that should run, or declares it failed.
\* It does neither for a row that never got an image, nor for a container that
\* was created but never started, which takes a failed call or a crash.
Heals ==
    (W!Watched /\ cont[Prod].st # "running")
    ~> \/ cont[Prod].st = "running"
       \/ ~W!Watched
       \/ row.container = "unset"
       \/ cont[Prod].st = "created" /\ (faults > 0 \/ crashes > 0)

=============================================================================
