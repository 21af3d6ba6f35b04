------------------------------ MODULE Uploads ------------------------------
(***************************************************************************)
(* What runs in a container, from the archive that a request uploads       *)
(* (engine.rs, and handle_upload and update in handlers/apps.rs): the      *)
(* archive is saved under the name its client gave it, extracted next to   *)
(* it, its manifest loaded, an image built for each process, and the       *)
(* containers started.  Requests that give their archives one name share   *)
(* the file and the folder; an image tag has no project in it; and a name  *)
(* whose words are joined by hyphens can be read in several ways.  The     *)
(* watcher recreates a missing container from whatever its tag is by then. *)
(* All processes here are of type "web"; what the registry's errors do to  *)
(* the rows is in Deployment, the steps of a rolling update in             *)
(* RollingUpdate.                                                          *)
(***************************************************************************)
EXTENDS Naturals, FiniteSets, Sequences, SequencesExt

CONSTANTS
    Requests,       \* the requests; each stands for the files it uploads, too
    Base,           \* the request that deployed what is there at first
    Inputs,         \* what requests may ask for: records of Input
    Words,          \* the words that names are made of
    Numerals,       \* Numerals[n]: the word that the number n is written as
    MaxFaults       \* bound on failed steps, crashes and lost containers

Source == Requests \cup {Base}

\* A name is the sequence of its words; hyphens join them.
\* manifest.present: is there a paastech.toml?  sound: validate_process_definition
\* accepts the entry in the extracted archive.
Bare == [present |-> FALSE, processes |-> <<>>, resources |-> <<>>]

ASSUME UploadsAssumption ==
    /\ Base \notin Requests /\ {"none", "watcher"} \cap Source = {}
    /\ MaxFaults \in Nat
    /\ "web" \in Words
    /\ \A i \in Inputs :
          /\ i.kind \in {"deploy", "update"} /\ i.file # "none" /\ i.app \in Seq(Words)
          /\ i.manifest.processes \in Seq([name : Seq(Words), replicas : Nat, sound : BOOLEAN])
          /\ \A e \in ToSet(i.manifest.processes) : \A n \in 1..e.replicas : Numerals[n] \in Words
          /\ i.manifest.present \/ i.manifest = Bare

VARIABLES
    input,      \* input[r]: what request r asks for
    pc,         \* pc[r]: what its handler or its background task does next
    defs,       \* defs[r]: the names of the processes that it loaded, in order
    todo,       \* todo[r]: those still to build and start
    old,        \* old[r]: the names of the processes whose rows an update found
    context,    \* context[r]: whose files the running build has read
    archive,    \* archive[f]: whose bytes /tmp/uploads/f holds
    folder,     \* folder[f]: whose files its "-extract" folder holds; whose manifest
    image,      \* image[t]: whose files the image with tag t is built from
    cont,       \* cont[n]: who started the container named n, from whose files
    rows,       \* the rows of application_processes
    faults,     \* number of faults so far
    met,        \* requests that another one, or what it left, may have touched
    hit,        \* requests that a fault, or what was there before, may have stopped
    left,       \* archives whose folder a failed extraction or a crash left behind
    settled     \* requests that succeeded, undisturbed and the last for what they made

taskVars == <<input, pc, defs, todo, old, context>>
vars == <<taskVars, archive, folder, image, cont, rows, faults, met, hit, left, settled>>

-----------------------------------------------------------------------------
(* Manifests and names                                                      *)

\* Mutant of Expand: one replica too many.
ExpandTooMany(e) ==
    IF e.replicas = 1 THEN <<e.name>>
                      ELSE [n \in 1..(e.replicas + 1) |-> e.name \o <<Numerals[n]>>]

\* Replicas are processes of their own, numbered unless there is only one.
Expand(e) ==
    IF e.replicas = 1 THEN <<e.name>>
                      ELSE [n \in 1..e.replicas |-> e.name \o <<Numerals[n]>>]

\* A manifest with no processes, or none at all, stands for one process "web".
Definitions(m) ==
    IF m.processes = <<>> THEN << <<"web">> >>
    ELSE FlattenSeq([j \in DOMAIN m.processes |-> Expand(m.processes[j])])

\* Mutant of Valid: two processes may have one name.
ValidTwins(m) ==
    /\ \A j \in DOMAIN m.processes : m.processes[j].replicas # 0 /\ m.processes[j].sound
    /\ IsInjective(m.resources)

Valid(m) ==
    /\ \A j \in DOMAIN m.processes : m.processes[j].replicas # 0 /\ m.processes[j].sound
    /\ IsInjective(Definitions(m))
    /\ IsInjective(m.resources)

Key(i, p)  == [project |-> i.project, app |-> i.app, process |-> p]
KeysOf(i)  == {Key(i, p) : p \in ToSet(Definitions(i.manifest))}
SameApp(i, k) == i.project = k.project /\ i.app = k.app

\* The image tag has the names of the application and the process, not the project.
TagOf(k)   == k.app \o k.process
NameOf(k)  == <<k.project>> \o TagOf(k)

Files   == {i.file : i \in Inputs}
Keys    == {Key(i, p) : i \in Inputs,
                        p \in UNION {ToSet(Definitions(i.manifest)) : i \in Inputs}}
Tags    == {TagOf(k) : k \in Keys}
Names   == {NameOf(k) : k \in Keys}

NoContainer == [by |-> "none", code |-> {}]
NoFolder    == [code |-> {}, toml |-> "none"]

InHandler == {"write", "extract", "load", "prepare"}
InTask    == {"build", "tag", "start", "finish"}

Active(r)   == pc[r] \in InHandler \cup InTask
InFlight(r) == Active(r) \/ pc[r] = "orphan"

TypeOK ==
    /\ \A r \in Requests : /\ pc[r] # "idle" => input[r] \in Inputs
                           /\ context[r] \subseteq Source
                           /\ pc[r] \in {"build", "tag", "start", "orphan"} => todo[r] # <<>>
                           /\ old[r] \subseteq {k.process : k \in Keys}
    /\ pc \in [Requests -> InHandler \cup InTask \cup
                              {"idle", "ok", "failed", "lost", "orphan"}]
    /\ archive \in [Files -> SUBSET Source]
    /\ folder \in [Files -> [code : SUBSET Source, toml : Source \cup {"none"}]]
    /\ image \in [Tags -> SUBSET Source]
    /\ cont \in [Names -> [by : Source \cup {"watcher", "none"}, code : SUBSET Source]]
    /\ \A w \in rows : w.key \in Keys /\ w.status \in {"building", "running", "failed"}
    /\ faults \in 0..MaxFaults
    /\ left \subseteq Files

-----------------------------------------------------------------------------

Nothing == [project |-> "none", app |-> <<>>, kind |-> "none", file |-> "none",
            manifest |-> Bare]

\* At first nothing is there, or what one deployment made.
Init ==
    /\ \E b \in {Nothing} \cup {i \in Inputs : i.kind = "deploy" /\ Valid(i.manifest)} :
         LET made == IF b = Nothing THEN {} ELSE KeysOf(b) IN
         /\ input = [r \in Source |-> IF r = Base THEN b ELSE Nothing]
         /\ rows = {[key |-> k, status |-> "running"] : k \in made}
         /\ image = [t \in Tags |-> IF \E k \in made : TagOf(k) = t THEN {Base} ELSE {}]
         /\ cont = [n \in Names |-> IF \E k \in made : NameOf(k) = n
                                      THEN [by |-> Base, code |-> {Base}] ELSE NoContainer]
         /\ archive = [f \in Files |-> IF f = b.file THEN {Base} ELSE {}]
         /\ settled = IF b = Nothing THEN {} ELSE {Base}
    /\ pc = [r \in Requests |-> "idle"]
    /\ defs = [r \in Requests |-> <<>>]
    /\ todo = [r \in Requests |-> <<>>]
    /\ old = [r \in Requests |-> {}]
    /\ context = [r \in Requests |-> {}]
    /\ folder = [f \in Files |-> NoFolder]
    /\ faults = 0
    /\ met = {}
    /\ hit = {}
    /\ left = {}

-----------------------------------------------------------------------------
(* What the steps are made of                                               *)

Goto(r, to) == pc' = [pc EXCEPT ![r] = to]

\* A fault that may stop the requests of R.
Fault(R) == faults < MaxFaults /\ faults' = faults + 1 /\ hit' = hit \cup R
NoFault  == UNCHANGED <<faults, hit>>

FileOf(r)  == input[r].file
RowsOf(r)  == {w \in rows : SameApp(input[r], w.key)}
Current(r) == Key(input[r], Head(todo[r]))

SetStatus(K, s) == {w \in rows : w.key \notin K} \cup {[key |-> k, status |-> s] : k \in K}

RemoveFolder(r) ==
    /\ folder' = [folder EXCEPT ![FileOf(r)] = NoFolder]
    /\ left' = left \ {FileOf(r)}

KeepFolder == UNCHANGED <<folder, left>>

\* The request ends without success, and its folder is removed.
Fail(r) == Goto(r, "failed") /\ RemoveFolder(r)

Observers == UNCHANGED <<met, settled>>

-----------------------------------------------------------------------------
(* The handlers, up to the task they spawn                                  *)

\* Do some keys in K and in L make one tag, and so perhaps one container?
ShareTag(K, L) == \E k \in K, l \in L : TagOf(k) = TagOf(l)

\* What s works on: its own manifest, the one that it loaded, and what it found.
Defined(s) == {Key(input[s], p) : p \in ToSet(defs[s])}
Found(s)   == {Key(input[s], p) : p \in old[s]}

\* Does a request for i make rows of the application of s, or a tag that s works on?
Clash(i, s) == \/ SameApp(i, input[s])
               \/ ShareTag(KeysOf(i), KeysOf(input[s]) \cup Defined(s) \cup Found(s))

\* Can a request for i not be carried out for what is there?
Blocked(i) == \E k \in KeysOf(i) :
    \/ \E w \in rows : w.key # k /\ NameOf(w.key) = NameOf(k)
    \/ cont[NameOf(k)] # NoContainer /\ \A w \in rows : w.key # k
    \/ cont[NameOf(k)] = NoContainer /\ i.kind = "update" /\ \E w \in rows : w.key = k

Arrive(r, i) ==
    LET others == {s \in Requests : InFlight(s) /\ (i.file = input[s].file \/ Clash(i, s))} IN
    /\ pc[r] = "idle"
    /\ i.kind = "update" => \E w \in rows : SameApp(i, w.key)
    /\ Goto(r, "write")
    /\ input' = [input EXCEPT ![r] = i]
    /\ met' = met \cup others
                \cup (IF others # {} \/ folder[i.file] # NoFolder THEN {r} ELSE {})
    /\ hit' = hit \cup (IF Blocked(i) THEN {r} ELSE {})
    /\ settled' = {s \in settled : ~SameApp(i, input[s])
                                       /\ ~ShareTag(KeysOf(i), KeysOf(input[s]))}
    /\ UNCHANGED <<defs, todo, old, context, folder, image, cont, rows, faults, left>>

\* Mutant of Receive: what the file held before is not cut off.
ReceiveUncut(r) == \E i \in Inputs : Arrive(r, i) /\ UNCHANGED archive

\* save_multipart_file: File::create empties the file, whoever writes it.
Receive(r) == \E i \in Inputs :
    /\ Arrive(r, i)
    /\ archive' = [archive EXCEPT ![i.file] = {}]

\* The bytes overwrite those of another request, or mix with them.  A client that
\* goes away in the middle ends the loop over the chunks like a finished one.
WriteArchive(r) ==
    /\ pc[r] = "write"
    /\ Goto(r, "extract")
    /\ \/ /\ archive' \in {[archive EXCEPT ![FileOf(r)] = {r}],
                           [archive EXCEPT ![FileOf(r)] = @ \cup {r}]}
          /\ NoFault
       \/ Fault({r}) /\ UNCHANGED archive
    /\ KeepFolder /\ Observers
    /\ UNCHANGED <<input, defs, todo, old, context, image, cont, rows>>

\* extract_zip writes over the folder as it is; of two manifests either may stay.
Unpacked(r, W) ==
    LET present == {s \in W : input[s].manifest.present} IN
    {[folder EXCEPT ![FileOf(r)] = [code |-> @.code \cup W, toml |-> t]] :
        t \in IF present = {} THEN {folder[FileOf(r)].toml} ELSE present}

Extract(r) ==
    /\ pc[r] = "extract"
    /\ \/ \E W \in (SUBSET archive[FileOf(r)]) \ {{}} :
             /\ Goto(r, "load")
             /\ folder' \in Unpacked(r, W)
             /\ NoFault
             /\ UNCHANGED left
       \/ \E W \in SUBSET archive[FileOf(r)] :
             /\ Goto(r, "failed")
             /\ folder' \in (IF W = {} THEN {folder} ELSE Unpacked(r, W))
             /\ left' = left \cup {FileOf(r)}
             /\ IF Cardinality(archive[FileOf(r)]) = 1 THEN Fault({r}) ELSE NoFault
    /\ Observers
    /\ UNCHANGED <<input, defs, todo, old, context, archive, image, cont, rows>>

\* load_process_definitions and load_resource_definitions: the manifest is whatever the
\* folder holds by now; without the folder the build context does not exist.
Loaded(r) ==
    LET t == folder[FileOf(r)].toml IN IF t = "none" THEN Bare ELSE input[t].manifest

\* A manifest that is not the request's own can make the tags of others after all.
Touch(r, m) ==
    LET made == {Key(input[r], p) : p \in ToSet(Definitions(m))}
        touched(s) == ShareTag(made, KeysOf(input[s]))
    IN  /\ met' = met \cup {s \in Requests \ {r} : InFlight(s) /\ touched(s)}
        /\ settled' = {s \in settled : ~touched(s)}

\* Mutant of Load: a refused manifest leaves its folder.
LoadLeaves(r) ==
    /\ pc[r] = "load"
    /\ LET m == Loaded(r) IN
       IF folder[FileOf(r)] # NoFolder /\ Valid(m)
         THEN Goto(r, "prepare") /\ defs' = [defs EXCEPT ![r] = Definitions(m)] /\ Touch(r, m)
         ELSE Goto(r, "failed") /\ UNCHANGED defs /\ Observers
    /\ NoFault /\ KeepFolder
    /\ UNCHANGED <<input, todo, old, context, archive, image, cont, rows>>

Load(r) ==
    /\ pc[r] = "load"
    /\ LET m == Loaded(r) IN
       IF folder[FileOf(r)] # NoFolder /\ Valid(m)
         THEN /\ Goto(r, "prepare") /\ KeepFolder
              /\ defs' = [defs EXCEPT ![r] = Definitions(m)]
              /\ Touch(r, m)
         ELSE Fail(r) /\ UNCHANGED defs /\ Observers
    /\ NoFault
    /\ UNCHANGED <<input, todo, old, context, archive, image, cont, rows>>

\* A deployment stops and forgets what the application has; an update keeps it.
Prepare(r) ==
    LET deploy  == input[r].kind = "deploy"
        listed  == {w.key : w \in RowsOf(r)}
        stopped == {NameOf(k) : k \in listed}
    IN
    /\ pc[r] = "prepare"
    /\ cont' = IF deploy THEN [n \in Names |-> IF n \in stopped THEN NoContainer ELSE cont[n]]
                         ELSE cont
    /\ \/ /\ Goto(r, "build")
          /\ rows' = (IF deploy THEN rows \ RowsOf(r) ELSE {w \in rows : w.key \notin Defined(r)})
                       \cup {[key |-> k, status |-> "building"] : k \in Defined(r)}
          /\ todo' = [todo EXCEPT ![r] = defs[r]]
          /\ old' = [old EXCEPT ![r] = IF deploy THEN {} ELSE {k.process : k \in listed}]
          /\ NoFault /\ KeepFolder
       \/ /\ Fault({r})
          /\ Fail(r)
          /\ rows' = IF deploy THEN rows \ RowsOf(r) ELSE SetStatus(listed \cap Defined(r), "building")
          /\ UNCHANGED <<todo, old>>
    /\ Observers
    /\ UNCHANGED <<input, defs, context, archive, image>>

-----------------------------------------------------------------------------
(* The background task                                                      *)

\* The loop breaks: the row of the current process is marked, the folder removed.
Broken(r, status) == Fail(r) /\ rows' = SetStatus({Current(r)} \cap {w.key : w \in rows}, status)

\* pack reads the folder as it is by now; a missing one, or bad code, fails the build.
Build(r) ==
    /\ pc[r] = "build"
    /\ \/ /\ folder[FileOf(r)] # NoFolder
          /\ Goto(r, "tag")
          /\ context' = [context EXCEPT ![r] = folder[FileOf(r)].code]
          /\ NoFault /\ KeepFolder
          /\ UNCHANGED rows
       \/ /\ IF folder[FileOf(r)] = NoFolder THEN NoFault ELSE Fault({r})
          /\ Broken(r, "failed")
          /\ UNCHANGED context
    /\ Observers
    /\ UNCHANGED <<input, defs, todo, old, archive, image, cont>>

\* ... and tags the image when it is done, although the server may be gone.
Tag(r) ==
    /\ pc[r] \in {"tag", "orphan"}
    /\ Goto(r, IF pc[r] = "tag" THEN "start" ELSE "lost")
    /\ image' = [image EXCEPT ![TagOf(Current(r))] = context[r]]
    /\ context' = [context EXCEPT ![r] = {}]
    /\ NoFault /\ KeepFolder /\ Observers
    /\ UNCHANGED <<input, defs, todo, old, archive, cont, rows>>

\* start_process needs the name to be free, rolling_update_process needs a container
\* that has it; the image is the one the tag names at this moment.
CanStart(r) ==
    (cont[NameOf(Current(r))] # NoContainer) <=> (Head(todo[r]) \in old[r])

\* Mutant of LastOne: the loop over the processes goes round once more.
LastOneMissed(r) == Len(todo[r]) = 0

LastOne(r) == Len(todo[r]) = 1

Start(r) ==
    LET n == NameOf(Current(r)) IN
    /\ pc[r] = "start"
    /\ \/ /\ CanStart(r)
          /\ cont' = [cont EXCEPT ![n] = [by |-> r, code |-> image[TagOf(Current(r))]]]
          /\ rows' = SetStatus({Current(r)} \cap {w.key : w \in rows}, "running")
          /\ todo' = [todo EXCEPT ![r] = Tail(@)]
          /\ Goto(r, IF LastOne(r) THEN "finish" ELSE "build")
          /\ NoFault /\ KeepFolder
       \/ /\ IF CanStart(r) THEN Fault({r}) ELSE NoFault
          /\ \E status \in {"failed"} \cup
                 (IF CanStart(r) /\ Head(todo[r]) \in old[r] THEN {"running"} ELSE {}) :
               Broken(r, status)            \* "running": it was rolled back
          /\ UNCHANGED <<cont, todo>>
    /\ Observers
    /\ UNCHANGED <<input, defs, old, context, archive, image>>

Succeed(r) ==
    /\ pc[r] = "finish"
    /\ Goto(r, "ok")
    /\ RemoveFolder(r)
    /\ settled' = IF r \in met THEN settled ELSE settled \cup {r}
    /\ NoFault
    /\ UNCHANGED <<input, defs, todo, old, context, archive, image, met>>

\* Mutant of Finish: the rows of the processes that are no more stay.
FinishKeepsRows(r) ==
    /\ Succeed(r)
    /\ LET gone == {NameOf(Key(input[r], p)) : p \in old[r] \ ToSet(defs[r])} IN
       cont' = [n \in Names |-> IF n \in gone THEN NoContainer ELSE cont[n]]
    /\ UNCHANGED rows

\* The processes that an update's manifest does not have any more are removed.
Finish(r) ==
    LET gone == {Key(input[r], p) : p \in old[r] \ ToSet(defs[r])} IN
    /\ Succeed(r)
    /\ cont' = [n \in Names |-> IF \E k \in gone : NameOf(k) = n THEN NoContainer ELSE cont[n]]
    /\ rows' = {w \in rows : w.key \notin gone}

-----------------------------------------------------------------------------
(* The watcher, Docker and the server                                       *)

\* A container goes missing; requests that are on their way may stumble over it.
Lose(n) ==
    /\ cont[n] # NoContainer
    /\ cont' = [cont EXCEPT ![n] = NoContainer]
    /\ Fault({r \in Requests : Active(r)})
    /\ KeepFolder /\ Observers
    /\ UNCHANGED <<taskVars, archive, image, rows>>

\* recreate_missing_process
Recreate(w) ==
    /\ w.status = "running"
    /\ cont[NameOf(w.key)] = NoContainer
    /\ cont' = [cont EXCEPT ![NameOf(w.key)] =
                   [by |-> "watcher", code |-> image[TagOf(w.key)]]]
    /\ NoFault /\ KeepFolder /\ Observers
    /\ UNCHANGED <<taskVars, archive, image, rows>>

\* The tasks die with the server; a build that runs may go on by itself.
Crash ==
    LET dying == {r \in Requests : Active(r)} IN
    /\ dying # {}
    /\ Fault(dying)
    /\ pc' = [r \in Requests |-> IF r \notin dying THEN pc[r]
                                  ELSE IF pc[r] = "tag" THEN "orphan" ELSE "lost"]
    /\ left' = left \cup {FileOf(r) : r \in dying}
    /\ Observers
    /\ UNCHANGED <<input, defs, todo, old, context, archive, folder, image, cont, rows>>

Step(r) ==
    \/ Receive(r) \/ WriteArchive(r) \/ Extract(r) \/ Load(r) \/ Prepare(r)
    \/ Build(r) \/ Tag(r) \/ Start(r) \/ Finish(r)

Next ==
    \/ \E r \in Requests : Step(r)
    \/ \E n \in Names : Lose(n)
    \/ \E w \in rows : Recreate(w)
    \/ Crash

Spec == Init /\ [][Next]_vars

-----------------------------------------------------------------------------
(* Properties                                                               *)

\* A container runs the code of the request that started it and of nobody else, unless
\* that request met one with the same archive name or image tag on its way, or a folder
\* that was left behind: save_multipart_file, extract_zip, the build and start_process
\* hand the code over by names alone.
RunsItsCode ==
    \A n \in Names : cont[n].by \in Source \ met => cont[n].code \in {{cont[n].by}}

\* Once a request has succeeded, and as long as no other comes for its application or
\* for a tag that it uses, every process of its manifest, and no other, has a running
\* row, whose tag is its image, and the container runs its code, also when the watcher
\* had to recreate it.
SettledRunsItsCode ==
    \A r \in settled :
        /\ {w \in rows : SameApp(input[r], w.key)} =
             {[key |-> k, status |-> "running"] : k \in KeysOf(input[r])}
        /\ \A k \in KeysOf(input[r]) : /\ image[TagOf(k)] = {r}
                                       /\ cont[NameOf(k)].code \in {{}, {r}}

\* A request that nobody met and no fault hit succeeds exactly when its manifest is one
\* that load_process_definitions and load_resource_definitions accept: what they refuse
\* ends before anything is stopped, what they accept never fails later for its names.
SucceedsIffValid ==
    \A r \in Requests \ (met \cup hit) :
        pc[r] \in {"ok", "failed"} => (pc[r] = "ok" <=> Valid(input[r].manifest))

\* When no request is on its way, no "-extract" folder is there but those that a failed
\* extraction or a crash left: every other way out of the handlers removes it.
FoldersRemoved ==
    (\A r \in Requests : ~Active(r)) => \A f \in Files : folder[f] # NoFolder => f \in left

=============================================================================
