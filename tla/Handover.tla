------------------------------ MODULE Handover ------------------------------
(***************************************************************************)
(* What a rolling update promises, without its containers: the service of  *)
(* a process is handed from one version to the next.  A version serves     *)
(* while a container of it that proved healthy gets traffic, and one of    *)
(* them is registered as THE version of the process.  RollingUpdate        *)
(* implements this specification.                                          *)
(***************************************************************************)
CONSTANTS
    Updates,    \* the updates; each is named like the version it brings
    Base,       \* the version before them
    Unset       \* there never was a version

VARIABLES
    serving,    \* the versions that serve
    proven,     \* the versions of updates that ever did
    current,    \* the registered version
    expected,   \* is the process known to be up, and did nothing exit since?
    doubt,      \* did a write to the registry fail, which may be done or not?
    phase       \* phase[t]: how far update t has come

vars == <<serving, proven, current, expected, doubt, phase>>

Verdicts == {"ok", "rolled_back", "failed"}

Init ==
    /\ serving \subseteq {Base} /\ proven = {}
    /\ current \in {Base, Unset}
    /\ expected \in BOOLEAN
    /\ expected => serving = {Base} /\ current = Base
    /\ doubt = FALSE
    /\ phase = [t \in Updates |-> "idle"]

Enter(t, to) == phase' = [phase EXCEPT ![t] = to]

\* An update is taken up, or refused; the one before it has come to its end.
Take(t) ==
    /\ phase[t] = "idle"
    /\ \A u \in Updates : phase[u] # "busy"
    /\ \/ Enter(t, "busy") /\ UNCHANGED doubt
       \/ Enter(t, "failed") /\ doubt' = TRUE
    /\ UNCHANGED <<serving, proven, current, expected>>

\* The new version answers its health probe, and serves from now on.
Prove(t) ==
    /\ phase[t] = "busy"
    /\ serving' = serving \cup {t} /\ proven' = proven \cup {t}
    /\ UNCHANGED <<current, expected, doubt, phase>>

\* It becomes the version of the process.  What serves then is expected to last.
Adopt(t) ==
    /\ phase[t] = "busy" /\ t \in proven
    /\ current' = t
    /\ expected' \in {expected, expected \/ t \in serving}
    /\ expected => t \in serving
    /\ UNCHANGED <<serving, proven, doubt, phase>>

\* The registry fails; the registration may have been made.
Doubt(t) ==
    /\ phase[t] = "busy"
    /\ doubt' = TRUE
    /\ current' \in {current} \cup (proven \cap {t})
    /\ UNCHANGED <<serving, proven, expected, phase>>

\* Versions are retired, the old one after a success or the new one in a rollback,
\* but never the last one that serves, nor the registered one.
Retire(t) ==
    /\ phase[t] = "busy"
    /\ serving' \in SUBSET serving
    /\ expected => serving' # {} /\ (doubt \/ current \in serving')
    /\ UNCHANGED <<proven, current, expected, doubt, phase>>

\* The update says how it ended, and what it says is true of the registry.
Conclude(t) ==
    /\ phase[t] = "busy"
    /\ \E v \in Verdicts :
         /\ Enter(t, v)
         /\ v = "ok" => current = t
         /\ v # "ok" /\ ~doubt => current # t
    /\ doubt' \in {doubt, TRUE}
    /\ UNCHANGED <<serving, proven, current, expected>>

\* A container exits by itself; or the server dies, and its updates with it.
Exit ==
    /\ serving' \in SUBSET serving
    /\ expected' = FALSE
    /\ UNCHANGED <<proven, current, doubt, phase>>

Die ==
    /\ phase' = [t \in Updates |-> IF phase[t] = "busy" THEN "lost" ELSE phase[t]]
    /\ UNCHANGED <<serving, proven, current, expected, doubt>>

Next ==
    \/ \E t \in Updates : \/ Take(t) \/ Prove(t) \/ Adopt(t) \/ Doubt(t)
                          \/ Retire(t) \/ Conclude(t)
    \/ Exit \/ Die

Spec == Init /\ [][Next]_vars

=============================================================================
