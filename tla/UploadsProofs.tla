---------------------------- MODULE UploadsProofs ----------------------------
(***************************************************************************)
(* Theorems about Uploads, for any number of requests, any inputs and any  *)
(* number of faults.                                                       *)
(***************************************************************************)
EXTENDS Uploads, WellFoundedInduction, FiniteSetTheorems, TLAPS

(***************************************************************************)
(* Sequences                                                               *)
(***************************************************************************)
\* What induction is for below: every set of numbers has a least element.
Below == {pair \in Nat \X Nat : pair[1] < pair[2]}
LEMMA Least ==
    ASSUME NEW S \in SUBSET Nat, S # {}
    PROVE  \E x \in S : \A y \in S : x <= y
<1>1. IsWellFoundedOn(Below, Nat)
  BY NatLessThanWellFounded DEF OpToRel, Below
<1>2. PICK x \in S : \A y \in S : ~(<<y, x>> \in Below)
  BY <1>1, WFMin
<1>3. \A y \in S : ~(y < x)
  BY <1>2 DEF Below
<1> QED BY <1>2, <1>3

\* The function that FlattenSeq defines, up to n.
FlatTo(s, n, f) == f = [i \in 1..n |-> IF i = 1 THEN s[i] ELSE f[i-1] \o s[i]]

LEMMA FlatExists ==
    ASSUME NEW s, NEW n \in Nat
    PROVE  \E f : FlatTo(s, n, f)
<1> DEFINE bad == {m \in Nat : ~\E f : FlatTo(s, m, f)}
<1>1. SUFFICES bad = {}
  OBVIOUS
<1>2. SUFFICES ASSUME NEW x \in bad, \A y \in bad : x <= y PROVE FALSE
  BY Least
<1>3. CASE x = 0
  <2>1. FlatTo(s, 0, [i \in 1..0 |-> s[i]])
    BY DEF FlatTo
  <2> QED BY <1>3, <2>1
<1>4. CASE x # 0
  <2>1. PICK f : FlatTo(s, x - 1, f)
    BY <1>2, <1>4
  <2> DEFINE g == [i \in 1..x |-> IF i = 1 THEN s[i] ELSE f[i-1] \o s[i]]
  <2>2. x \in Nat /\ x - 1 \in Nat
    BY <1>4
  <2>3. \A i \in 1..(x-1) : g[i] = f[i]
    <3>1. \A i \in 1..(x-1) : f[i] = IF i = 1 THEN s[i] ELSE f[i-1] \o s[i]
      BY <2>1, <2>2 DEF FlatTo
    <3>2. \A i \in 1..(x-1) : i \in 1..x
      BY <2>2
    <3> QED BY <3>1, <3>2
  <2>4. \A i \in 1..x : i # 1 => g[i-1] = f[i-1]
    <3>1. \A i \in 1..x : i # 1 => i - 1 \in 1..(x-1)
      BY <2>2
    <3> HIDE DEF g
    <3> QED BY <2>3, <3>1
  <2>5. g = [i \in 1..x |-> IF i = 1 THEN s[i] ELSE g[i-1] \o s[i]]
    BY <2>4
  <2> QED BY <2>5 DEF FlatTo
<1> QED BY <1>3, <1>4

\* What holds of the pieces, and is kept by joining, holds of the whole.
LEMMA FlattenSeqIn ==
    ASSUME NEW S, \A p, q \in S : p \o q \in S, NEW s \in Seq(S), s # <<>>
    PROVE  FlattenSeq(s) \in S
<1>1. Len(s) \in Nat \ {0}
  OBVIOUS
<1> DEFINE f == CHOOSE h : FlatTo(s, Len(s), h)
<1>2. FlatTo(s, Len(s), f)
  BY <1>1, FlatExists
<1>3. FlattenSeq(s) = f[Len(s)]
  BY <1>1 DEF FlattenSeq, FlatTo
<1> HIDE DEF f
<1> DEFINE bad == {i \in 1..Len(s) : f[i] \notin S}
<1>4. bad = {}
  <2>1. bad \in SUBSET Nat
    BY <1>1
  <2>2. SUFFICES ASSUME NEW x \in bad, \A y \in bad : x <= y PROVE FALSE
    BY <2>1, Least
  <2>3. CASE x = 1
    BY <1>1, <1>2, <2>3 DEF FlatTo
  <2>4. CASE x # 1
    <3>1. x - 1 \in 1..Len(s) /\ x - 1 \notin bad
      BY <1>1, <2>2, <2>4
    <3>2. f[x-1] \in S /\ s[x] \in S
      BY <3>1
    <3>3. f[x] = f[x-1] \o s[x]
      BY <1>1, <1>2, <2>4 DEF FlatTo
    <3> QED BY <3>2, <3>3
  <2> QED BY <2>3, <2>4
<1> QED BY <1>1, <1>3, <1>4

LEMMA JoinSome ==
    ASSUME NEW T, NEW p \in Seq(T) \ {<<>>}, NEW q \in Seq(T) \ {<<>>}
    PROVE  p \o q \in Seq(T) \ {<<>>}
<1>1. Len(p \o q) = Len(p) + Len(q) /\ Len(p) \in Nat \ {0} /\ Len(q) \in Nat
  OBVIOUS
<1> QED BY <1>1

\* Words joined to the same words are told apart.
LEMMA JoinCancels ==
    ASSUME NEW T, NEW p \in Seq(T), NEW q \in Seq(T), NEW s \in Seq(T), p \o q = p \o s
    PROVE  q = s
<1>1. Len(q) = Len(s)
  <2>1. Len(p \o q) = Len(p) + Len(q) /\ Len(p \o s) = Len(p) + Len(s)
    OBVIOUS
  <2> QED BY <2>1
<1>2. \A j \in 1..Len(q) : q[j] = s[j]
  <2> TAKE j \in 1..Len(q)
  <2>1. (p \o q)[Len(p) + j] = q[j] /\ (p \o s)[Len(p) + j] = s[j]
    BY <1>1
  <2> QED BY <2>1
<1> QED BY <1>1, <1>2

LEMMA HeadTail ==
    ASSUME NEW T, NEW s \in Seq(T), s # <<>>
    PROVE  /\ Head(s) \in T /\ Tail(s) \in Seq(T) /\ Len(s) \in Nat \ {0}
           /\ ToSet(s) = {Head(s)} \cup ToSet(Tail(s))
           /\ Len(s) = 1 <=> Tail(s) = <<>>
           /\ IsInjective(s) => IsInjective(Tail(s)) /\ Head(s) \notin ToSet(Tail(s))
<1>1. /\ Head(s) = s[1] /\ Len(s) \in Nat \ {0} /\ Len(Tail(s)) = Len(s) - 1
      /\ \A j \in 1..(Len(s) - 1) : Tail(s)[j] = s[j + 1]
      /\ DOMAIN s = 1..Len(s) /\ DOMAIN Tail(s) = 1..(Len(s) - 1)
  OBVIOUS
<1>2. Head(s) \in T /\ Tail(s) \in Seq(T)
  OBVIOUS
<1>3. ToSet(s) = {Head(s)} \cup ToSet(Tail(s))
  <2>1. \A j \in DOMAIN s : s[j] \in {Head(s)} \cup ToSet(Tail(s))
    <3> TAKE j \in DOMAIN s
    <3>1. CASE j # 1
      <4>1. j - 1 \in DOMAIN Tail(s) /\ Tail(s)[j - 1] = s[j]
        BY <1>1, <3>1
      <4> QED BY <4>1 DEF ToSet
    <3>2. CASE j = 1
      BY <1>1, <3>2
    <3> QED BY <3>1, <3>2
  <2>2. \A j \in DOMAIN Tail(s) : Tail(s)[j] \in ToSet(s)
    <3> TAKE j \in DOMAIN Tail(s)
    <3>1. j + 1 \in DOMAIN s /\ Tail(s)[j] = s[j + 1]
      BY <1>1
    <3> QED BY <3>1 DEF ToSet
  <2>3. Head(s) \in ToSet(s)
    BY <1>1 DEF ToSet
  <2> QED BY <2>1, <2>2, <2>3 DEF ToSet
<1>4. Len(s) = 1 <=> Tail(s) = <<>>
  <2>1. \A q \in Seq(T) : Len(q) = 0 <=> q = <<>>
    OBVIOUS
  <2>2. Len(Tail(s)) = 0 <=> Len(s) = 1
    BY <1>1
  <2> QED BY <1>2, <2>1, <2>2
<1>5. ASSUME IsInjective(s) PROVE IsInjective(Tail(s)) /\ Head(s) \notin ToSet(Tail(s))
  <2>1. ASSUME NEW j \in DOMAIN Tail(s), NEW l \in DOMAIN Tail(s), Tail(s)[j] = Tail(s)[l]
        PROVE  j = l
    <3>1. j + 1 \in DOMAIN s /\ l + 1 \in DOMAIN s /\ s[j + 1] = s[l + 1]
      BY <1>1, <2>1
    <3>2. j + 1 = l + 1
      BY <1>5, <3>1 DEF IsInjective
    <3> QED BY <1>1, <3>2
  <2>2. ASSUME NEW j \in DOMAIN Tail(s) PROVE Tail(s)[j] # Head(s)
    <3>1. j + 1 \in DOMAIN s /\ 1 \in DOMAIN s /\ j + 1 # 1 /\ Tail(s)[j] = s[j + 1]
      BY <1>1
    <3> QED BY <1>1, <1>5, <3>1 DEF IsInjective
  <2> QED BY <2>1, <2>2 DEF IsInjective, ToSet
<1> QED BY <1>1, <1>2, <1>3, <1>4, <1>5

LEMMA ToSetIn ==
    ASSUME NEW T, NEW s \in Seq(T) PROVE ToSet(s) \subseteq T
BY DEF ToSet

-----------------------------------------------------------------------------
(* Names and manifests                                                      *)

Procs == UNION {ToSet(Definitions(i.manifest)) : i \in Inputs}
Phrases == Seq(Words)

LEMMA IsSeq ==
    ASSUME NEW T, NEW n \in Nat, NEW s \in [1..n -> T]
    PROVE  s \in Seq(T) /\ Len(s) = n
OBVIOUS

LEMMA SeqElem ==
    ASSUME NEW T, NEW s \in Seq(T), NEW j \in DOMAIN s
    PROVE  s[j] \in T
OBVIOUS

LEMMA ExpandTyped ==
    ASSUME NEW i \in Inputs, NEW j \in DOMAIN i.manifest.processes
    PROVE  LET e == i.manifest.processes[j] IN
           /\ Expand(e) \in Seq(Phrases)
           /\ e.replicas # 0 => Expand(e) # <<>>
<1> DEFINE e == i.manifest.processes[j]
<1>1. /\ e.name \in Phrases /\ e.replicas \in Nat
      /\ \A n \in 1..e.replicas : Numerals[n] \in Words
  <2>1. e \in ToSet(i.manifest.processes) /\ e \in [name : Phrases, replicas : Nat, sound : BOOLEAN]
    <3>1. i.manifest.processes \in Seq([name : Phrases, replicas : Nat, sound : BOOLEAN])
      BY UploadsAssumption DEF Phrases
    <3>2. i.manifest.processes[j] \in [name : Phrases, replicas : Nat, sound : BOOLEAN]
      BY <3>1, SeqElem
    <3> QED BY <3>2 DEF ToSet
  <2> HIDE DEF e
  <2>2. \A n \in 1..e.replicas : Numerals[n] \in Words
    BY <2>1, UploadsAssumption
  <2> QED BY <2>1, <2>2
<1> HIDE DEF e
<1>2. CASE e.replicas = 1
  <2>1. Expand(e) = <<e.name>>
    BY <1>2 DEF Expand
  <2>2. <<e.name>> \in Seq(Phrases) /\ <<e.name>> # <<>>
    BY <1>1
  <2> QED BY <2>1, <2>2 DEF e
<1>3. CASE e.replicas # 1
  <2>1. Expand(e) = [n \in 1..e.replicas |-> e.name \o <<Numerals[n]>>]
    BY <1>3 DEF Expand
  <2>2. \A n \in 1..e.replicas : e.name \o <<Numerals[n]>> \in Phrases
    BY <1>1 DEF Phrases
  <2>3. Expand(e) \in Seq(Phrases) /\ Len(Expand(e)) = e.replicas
    <3>1. Expand(e) \in [1..e.replicas -> Phrases]
      BY <2>1, <2>2
    <3> QED BY <1>1, <3>1, IsSeq
  <2>4. e.replicas # 0 => Expand(e) # <<>>
    BY <2>3
  <2> QED BY <2>3, <2>4 DEF e
<1> QED BY <1>2, <1>3 DEF e

\* A manifest stands for a sequence of names, and for some when it is accepted.
LEMMA DefinitionsTyped ==
    /\ \A i \in Inputs : Definitions(i.manifest) \in Seq(Phrases)
    /\ \A i \in Inputs : Valid(i.manifest) => Definitions(i.manifest) # <<>>
    /\ Definitions(Bare) = << <<"web">> >> /\ Definitions(Bare) # <<>>
<1>1. Definitions(Bare) = << <<"web">> >> /\ << <<"web">> >> # <<>> /\ << <<"web">> >> \in Seq(Phrases)
  <2>1. Definitions(Bare) = << <<"web">> >>
    BY DEF Definitions, Bare
  <2>2. <<"web">> \in Phrases
    BY UploadsAssumption DEF Phrases
  <2>3. << <<"web">> >> \in Seq(Phrases) /\ << <<"web">> >> # <<>>
    BY <2>2
  <2> QED BY <2>1, <2>3
<1>2. ASSUME NEW i \in Inputs
      PROVE  /\ Definitions(i.manifest) \in Seq(Phrases)
             /\ Valid(i.manifest) => Definitions(i.manifest) # <<>>
  <2> DEFINE ps == i.manifest.processes
             s  == [j \in DOMAIN ps |-> Expand(ps[j])]
  <2>1. CASE ps = <<>>
    BY <1>1, <2>1 DEF Definitions
  <2>2. CASE ps # <<>>
    <3>1. Definitions(i.manifest) = FlattenSeq(s)
      BY <2>2 DEF Definitions
    <3>2. DOMAIN ps = 1..Len(ps) /\ Len(ps) \in Nat \ {0}
      BY <2>2, UploadsAssumption
    <3>3. \A j \in DOMAIN ps : s[j] \in Seq(Phrases)
      BY ExpandTyped
    <3>4. s \in Seq(Seq(Phrases)) /\ Len(s) = Len(ps)
      <4>1. s \in [1..Len(ps) -> Seq(Phrases)]
        BY <3>2, <3>3
      <4> HIDE DEF s
      <4> QED BY <3>2, <4>1, IsSeq
    <3>5. s # <<>>
      BY <3>2, <3>4
    <3>6. FlattenSeq(s) \in Seq(Phrases)
      <4>1. \A p, q \in Seq(Phrases) : p \o q \in Seq(Phrases)
        OBVIOUS
      <4> HIDE DEF s
      <4> QED BY <3>4, <3>5, <4>1, FlattenSeqIn
    <3>7. ASSUME Valid(i.manifest) PROVE FlattenSeq(s) # <<>>
      <4>1. \A j \in DOMAIN ps : s[j] \in Seq(Phrases) \ {<<>>}
        BY <3>3, <3>7, ExpandTyped DEF Valid
      <4>2. s \in Seq(Seq(Phrases) \ {<<>>})
        <5>1. s \in [1..Len(ps) -> Seq(Phrases) \ {<<>>}]
          BY <3>2, <4>1
        <5> HIDE DEF s
        <5> QED BY <3>2, <5>1, IsSeq
      <4>3. \A p, q \in Seq(Phrases) \ {<<>>} : p \o q \in Seq(Phrases) \ {<<>>}
        BY JoinSome
      <4> HIDE DEF s
      <4> QED BY <3>5, <4>2, <4>3, FlattenSeqIn
    <3> QED BY <3>1, <3>6, <3>7
  <2> QED BY <2>1, <2>2
<1> QED BY <1>1, <1>2

LEMMA ProcsTyped ==
    /\ Procs \subseteq Phrases
    /\ \A i \in Inputs : ToSet(Definitions(i.manifest)) \subseteq Procs
                         /\ Definitions(i.manifest) \in Seq(Procs)
<1>1. Procs \subseteq Phrases
  BY DefinitionsTyped, ToSetIn DEF Procs
<1>2. ASSUME NEW i \in Inputs PROVE /\ ToSet(Definitions(i.manifest)) \subseteq Procs
                                    /\ Definitions(i.manifest) \in Seq(Procs)
  <2> DEFINE d == Definitions(i.manifest)
  <2>1. ToSet(d) \subseteq Procs
    BY DEF Procs
  <2>2. d \in Seq(Phrases)
    BY DefinitionsTyped
  <2>3. \A j \in 1..Len(d) : d[j] \in Procs
    BY <2>1, <2>2 DEF ToSet
  <2> HIDE DEF d
  <2>4. d \in Seq(Procs)
    BY <2>2, <2>3
  <2> QED BY <2>1, <2>4 DEF d
<1> QED BY <1>1, <1>2

\* Of a key, its tag and its name.
LEMMA KeyFacts ==
    ASSUME NEW i \in Inputs
    PROVE  /\ \A p \in Procs : Key(i, p) \in Keys
           /\ KeysOf(i) \subseteq Keys
           /\ \A p : SameApp(i, Key(i, p)) /\ Key(i, p).process = p
           /\ \A p, q : Key(i, p) = Key(i, q) => p = q
<1>1. \A p \in Procs : Key(i, p) \in Keys
  BY DEF Keys, Procs
<1>2. KeysOf(i) \subseteq Keys
  BY <1>1, ProcsTyped DEF KeysOf
<1>3. /\ \A p : SameApp(i, Key(i, p)) /\ Key(i, p).process = p
      /\ \A p, q : Key(i, p) = Key(i, q) => p = q
  BY DEF Key, SameApp
<1> QED BY <1>1, <1>2, <1>3

LEMMA NamesTyped ==
    ASSUME NEW k \in Keys
    PROVE  /\ TagOf(k) \in Tags /\ TagOf(k) \in Phrases /\ NameOf(k) \in Names
           /\ \E i \in Inputs : SameApp(i, k) /\ k = Key(i, k.process)
           /\ k.process \in Procs
<1>1. PICK i \in Inputs, p \in Procs : k = Key(i, p)
  BY DEF Keys, Procs
<1>2. k.app \in Phrases /\ k.process \in Phrases /\ k.process = p
  BY <1>1, ProcsTyped, UploadsAssumption DEF Key, Phrases
<1>3. TagOf(k) \in Phrases
  BY <1>2 DEF TagOf, Phrases
<1> QED BY <1>1, <1>2, <1>3, KeyFacts DEF Tags, Names

\* Two containers of one name have one tag; in one application they are one process's.
LEMMA SameName ==
    ASSUME NEW k \in Keys, NEW l \in Keys, NameOf(k) = NameOf(l)
    PROVE  /\ TagOf(k) = TagOf(l)
           /\ k.project = l.project /\ k.app = l.app => k = l
<1>1. TagOf(k) \in Phrases /\ TagOf(l) \in Phrases
  BY NamesTyped
<1>2. k.project = l.project
  <2>1. NameOf(k)[1] = k.project /\ NameOf(l)[1] = l.project
    BY <1>1 DEF NameOf, Phrases
  <2> QED BY <2>1
<1>3. TagOf(k) = TagOf(l)
  <2> DEFINE T == Words \cup {k.project}
  <2>1. <<k.project>> \in Seq(T) /\ TagOf(k) \in Seq(T) /\ TagOf(l) \in Seq(T)
    BY <1>1 DEF Phrases
  <2>2. <<k.project>> \o TagOf(k) = <<k.project>> \o TagOf(l)
    BY <1>2 DEF NameOf
  <2> HIDE DEF T
  <2> QED BY <2>1, <2>2, JoinCancels
<1>4. ASSUME k.app = l.app PROVE k = l
  <2>1. k.app \in Seq(Words) /\ k.process \in Seq(Words) /\ l.process \in Seq(Words)
    BY NamesTyped, ProcsTyped, UploadsAssumption DEF Phrases, SameApp
  <2>2. k.process = l.process
    BY <1>3, <1>4, <2>1, JoinCancels DEF TagOf
  <2> QED BY <1>2, <1>4, <2>2, NamesTyped DEF Key, SameApp
<1> QED BY <1>2, <1>3, <1>4

-----------------------------------------------------------------------------
(* Types, and what a request knows                                          *)

States    == InHandler \cup InTask \cup {"idle", "ok", "failed", "lost", "orphan"}
Folder    == [code : SUBSET Source, toml : Source \cup {"none"}]
Container == [by : Source \cup {"watcher", "none"}, code : SUBSET Source]
Row       == [key : Keys, status : {"building", "running", "failed"}]

TasksTyped ==
    /\ input \in [Source -> Inputs \cup {Nothing}]
    /\ pc \in [Requests -> States]
    /\ defs \in [Requests -> Seq(Procs)] /\ todo \in [Requests -> Seq(Procs)]
    /\ old \in [Requests -> SUBSET Procs] /\ context \in [Requests -> SUBSET Source]
DataTyped ==
    /\ archive \in [Files -> SUBSET Source]
    /\ folder \in [Files -> Folder]
    /\ image \in [Tags -> SUBSET Source]
    /\ cont \in [Names -> Container]
    /\ rows \subseteq Row
    /\ faults \in 0..MaxFaults
    /\ left \subseteq Files

\* A request that works on something has come and has not finished it.
InLoop == {"build", "tag", "start", "finish"}
TaskFits(r) ==
    /\ pc[r] = "idle" => defs[r] = <<>> /\ old[r] = {}
    /\ pc[r] # "idle" => input[r] \in Inputs
    /\ pc[r] = "prepare" => defs[r] # <<>>
    /\ pc[r] \in InLoop \cup {"orphan"} => ToSet(todo[r]) \subseteq ToSet(defs[r])
    /\ pc[r] \in {"build", "tag", "start", "orphan"} => todo[r] # <<>>
    /\ pc[r] = "finish" => todo[r] = <<>>

\* The bytes in an archive or a folder are of a request that has come; a folder has a
\* manifest unless none of those whose files it holds has one.
Came(s) == s \in Source /\ input[s] \in Inputs /\ (s \in Requests => pc[s] # "idle")
ArchiveFits(f) == \A s \in archive[f] : Came(s)
FolderFits(f) ==
    /\ \A s \in folder[f].code : Came(s)
    /\ folder[f] # NoFolder => folder[f].code # {}
    /\ folder[f].toml = "none" => \A s \in folder[f].code : ~input[s].manifest.present
    /\ folder[f].toml # "none" => Came(folder[f].toml)

KnownInv == /\ TasksTyped /\ DataTyped
            /\ \A r \in Requests : TaskFits(r)
            /\ \A f \in Files : ArchiveFits(f) /\ FolderFits(f)

LEMMA KnownTyped == KnownInv => TypeOK
<1> SUFFICES ASSUME KnownInv PROVE TypeOK
  OBVIOUS
<1> USE DEF KnownInv, TasksTyped, DataTyped
<1>1. ASSUME NEW r \in Requests
      PROVE  /\ pc[r] # "idle" => input[r] \in Inputs
             /\ context[r] \subseteq Source
             /\ pc[r] \in {"build", "tag", "start", "orphan"} => todo[r] # <<>>
             /\ old[r] \subseteq {k.process : k \in Keys}
  <2>1. old[r] \subseteq Procs
    OBVIOUS
  <2>2. \A p \in Procs : \E k \in Keys : k.process = p
    BY KeyFacts DEF Procs
  <2> QED BY <2>1, <2>2 DEF TaskFits
<1>2. \A w \in rows : w.key \in Keys /\ w.status \in {"building", "running", "failed"}
  BY DEF Row
<1> QED BY <1>1, <1>2 DEF TypeOK, States, Folder, Container

-----------------------------------------------------------------------------
(* What every step of a request has in common                               *)

Work(r) == \/ WriteArchive(r) \/ Extract(r) \/ Load(r) \/ Prepare(r)
           \/ Build(r) \/ Tag(r) \/ Start(r) \/ Finish(r)

LEMMA StepKinds == \A r \in Requests : Step(r) <=> Receive(r) \/ Work(r)
BY DEF Step, Work

\* Only the request that works moves, and only it knows more than before.
Moves(r, from, tos) ==
    /\ pc[r] \in from
    /\ \E to \in tos : Goto(r, to)
    /\ input' = input

Judged == /\ hit \subseteq hit'
          /\ \/ faults' = faults
             \/ faults < MaxFaults /\ faults' = faults + 1

LEMMA WorkMoves ==
    ASSUME NEW r \in Requests, Work(r)
    PROVE  /\ Moves(r, InHandler \cup InTask \cup {"orphan"}, States \ {"idle", "write", "orphan"})
           /\ Judged
           /\ \/ defs' = defs
              \/ Load(r) /\ \E d : defs' = [defs EXCEPT ![r] = d]
           /\ \/ old' = old
              \/ Prepare(r) /\ \E o : old' = [old EXCEPT ![r] = o]
           /\ \/ todo' = todo
              \/ \E t : todo' = [todo EXCEPT ![r] = t]
           /\ \/ context' = context
              \/ \E c : context' = [context EXCEPT ![r] = c]
<1> USE DEF Moves, Judged, Fault, NoFault, Goto, Fail, Broken, InHandler, InTask, States
<1>1. CASE WriteArchive(r)
  BY <1>1 DEF WriteArchive
<1>2. CASE Extract(r)
  BY <1>2 DEF Extract
<1>3. CASE Load(r)
  BY <1>3 DEF Load
<1>4. CASE Prepare(r)
  BY <1>4 DEF Prepare
<1>5. CASE Build(r)
  BY <1>5 DEF Build
<1>6. CASE Tag(r)
  <2>1. input' = input /\ defs' = defs /\ todo' = todo /\ old' = old /\ Judged
        /\ context' = [context EXCEPT ![r] = {}]
    BY <1>6 DEF Tag
  <2>2. CASE pc[r] = "tag"
    <3>1. Goto(r, "start")
      BY <1>6, <2>2 DEF Tag
    <3> QED BY <2>1, <2>2, <3>1
  <2>3. CASE pc[r] = "orphan"
    <3>1. Goto(r, "lost")
      BY <1>6, <2>3 DEF Tag
    <3> QED BY <2>1, <2>3, <3>1
  <2> QED BY <1>6, <2>2, <2>3 DEF Tag
<1>7. CASE Start(r)
  BY <1>7 DEF Start
<1>8. CASE Finish(r)
  BY <1>8 DEF Finish, Succeed
<1> QED BY <1>1, <1>2, <1>3, <1>4, <1>5, <1>6, <1>7, <1>8 DEF Work

\* The others keep what they know.
LEMMA OthersKeep ==
    ASSUME TasksTyped, NEW r \in Requests, Work(r), NEW s \in Requests \ {r}
    PROVE  pc'[s] = pc[s] /\ input'[s] = input[s] /\ defs'[s] = defs[s] /\ old'[s] = old[s]
           /\ todo'[s] = todo[s] /\ context'[s] = context[s]
BY WorkMoves DEF Moves, Goto, TasksTyped

LEMMA CameStays ==
    ASSUME TasksTyped, NEW r \in Requests, Work(r)
    PROVE  \A s : Came(s) => Came(s)' /\ input'[s] = input[s]
BY WorkMoves DEF Moves, Goto, TasksTyped, Came

LEMMA FolderStays ==
    ASSUME NEW f, FolderFits(f), folder'[f] \in {folder[f], NoFolder},
           \A s : Came(s) => Came(s)' /\ input'[s] = input[s]
    PROVE  FolderFits(f)'
<1>1. CASE folder'[f] = folder[f]
  BY <1>1 DEF FolderFits
<1>2. CASE folder'[f] = NoFolder
  BY <1>2 DEF FolderFits, NoFolder
<1> QED BY <1>1, <1>2

\* A step that leaves the archives, and the folders but for those it removes.
LEMMA KnownWork ==
    ASSUME KnownInv, NEW r \in Requests, Work(r), TasksTyped', DataTyped', TaskFits(r)',
           archive' = archive,
           \A f \in Files : folder'[f] \in {folder[f], NoFolder}
    PROVE  KnownInv'
<1>1. \A s : Came(s) => Came(s)' /\ input'[s] = input[s]
  BY CameStays DEF KnownInv
<1>2. ASSUME NEW s \in Requests \ {r} PROVE TaskFits(s)'
  BY <1>2, OthersKeep DEF TaskFits, KnownInv
<1>3. \A f \in Files : ArchiveFits(f)' /\ FolderFits(f)'
  BY <1>1, FolderStays DEF KnownInv, ArchiveFits
<1> QED BY <1>2, <1>3 DEF KnownInv

LEMMA FileOfTyped ==
    ASSUME KnownInv, NEW r \in Requests, pc[r] # "idle"
    PROVE  FileOf(r) \in Files /\ input[r] \in Inputs
BY DEF KnownInv, TaskFits, FileOf, Files

LEMMA JudgedTyped == Judged /\ DataTyped => faults' \in 0..MaxFaults
BY UploadsAssumption DEF Judged, DataTyped

LEMMA NothingTyped == NoFolder \in Folder /\ NoContainer \in Container
BY DEF NoFolder, Folder, NoContainer, Container

LEMMA RemoveFolderTyped ==
    ASSUME KnownInv, NEW r \in Requests, pc[r] # "idle", RemoveFolder(r) \/ KeepFolder
    PROVE  /\ folder' \in [Files -> Folder] /\ left' \subseteq Files
           /\ \A f \in Files : folder'[f] \in {folder[f], NoFolder}
BY NothingTyped DEF RemoveFolder, KeepFolder, KnownInv, DataTyped

LEMMA SetStatusTyped ==
    ASSUME DataTyped, NEW K \in SUBSET Keys, NEW s \in {"building", "running", "failed"}
    PROVE  SetStatus(K, s) \subseteq Row
BY DEF SetStatus, DataTyped, Row

-----------------------------------------------------------------------------
(* KnownInv, step by step                                                   *)

LEMMA TasksTypedStays ==
    ASSUME TasksTyped, NEW r \in Requests, Work(r), defs'[r] \in Seq(Procs), todo'[r] \in Seq(Procs),
           old'[r] \subseteq Procs, context'[r] \subseteq Source
    PROVE  TasksTyped'
<1>1. pc' \in [Requests -> States] /\ input' = input
  BY WorkMoves DEF Moves, Goto, TasksTyped
<1>2. defs' \in [Requests -> Seq(Procs)]
  BY WorkMoves DEF TasksTyped
<1>3. todo' \in [Requests -> Seq(Procs)]
  BY WorkMoves DEF TasksTyped
<1>4. old' \in [Requests -> SUBSET Procs]
  BY WorkMoves DEF TasksTyped
<1>5. context' \in [Requests -> SUBSET Source]
  <2>1. context' = context \/ \E c : context' = [context EXCEPT ![r] = c]
    BY WorkMoves
  <2> QED BY <2>1 DEF TasksTyped
<1> QED BY <1>1, <1>2, <1>3, <1>4, <1>5 DEF TasksTyped

LEMMA WriteKnown ==
    ASSUME KnownInv, NEW r \in Requests, WriteArchive(r)
    PROVE  KnownInv'
<1> DEFINE g == FileOf(r)
<1>0. Work(r) /\ pc[r] = "write" /\ g \in Files /\ input[r] \in Inputs
  BY FileOfTyped DEF Work, WriteArchive
<1>1. /\ UNCHANGED <<input, defs, todo, old, context, image, cont, rows, folder, left>>
      /\ pc' = [pc EXCEPT ![r] = "extract"]
  BY DEF WriteArchive, KeepFolder, Goto
<1>2. archive' \in {archive, [archive EXCEPT ![g] = {r}], [archive EXCEPT ![g] = @ \cup {r}]}
  BY DEF WriteArchive
<1> HIDE DEF g
<1>3. TasksTyped'
  BY <1>0, <1>1, TasksTypedStays DEF KnownInv, TasksTyped
<1>4. archive' \in [Files -> SUBSET Source]
  BY <1>0, <1>2 DEF KnownInv, DataTyped, Source
<1>5. DataTyped'
  BY <1>0, <1>1, <1>4, WorkMoves, JudgedTyped DEF KnownInv, DataTyped
<1>6. \A s \in Requests : TaskFits(s)'
  BY <1>0, <1>1 DEF KnownInv, TasksTyped, TaskFits, InLoop
<1>7. \A s : Came(s) => Came(s)' /\ input'[s] = input[s]
  BY <1>0, CameStays DEF KnownInv
<1>8. Came(r)'
  BY <1>0, <1>1 DEF Came, Source, KnownInv, TasksTyped
<1>9. \A f \in Files : ArchiveFits(f)'
  BY <1>0, <1>2, <1>7, <1>8 DEF KnownInv, ArchiveFits, DataTyped
<1>10. \A f \in Files : FolderFits(f)'
  BY <1>1, <1>7, FolderStays DEF KnownInv
<1> QED BY <1>3, <1>5, <1>6, <1>9, <1>10 DEF KnownInv

\* What extract_zip leaves in the folder.
LEMMA UnpackedFits ==
    ASSUME KnownInv, NEW r \in Requests, pc[r] # "idle", NEW W \in SUBSET archive[FileOf(r)], W # {},
           NEW h \in Unpacked(r, W), NEW f \in Files
    PROVE  /\ h \in [Files -> Folder] /\ h[FileOf(r)] # NoFolder
           /\ f # FileOf(r) => h[f] = folder[f]
           /\ \A s \in h[f].code : Came(s)
           /\ h[f] # NoFolder => h[f].code # {}
           /\ h[f].toml = "none" => \A s \in h[f].code : ~input[s].manifest.present
           /\ h[f].toml # "none" => Came(h[f].toml)
<1> DEFINE g == FileOf(r)
           present == {s \in W : input[s].manifest.present}
<1>1. g \in Files /\ \A s \in W : Came(s) /\ s \in Source
  BY FileOfTyped DEF KnownInv, ArchiveFits, Came
<1>2. PICK t : /\ t \in IF present = {} THEN {folder[g].toml} ELSE present
               /\ h = [folder EXCEPT ![g] = [code |-> @.code \cup W, toml |-> t]]
  BY DEF Unpacked
<1>3. folder \in [Files -> Folder] /\ FolderFits(f) /\ FolderFits(g)
  BY <1>1 DEF KnownInv, DataTyped
<1>4. h[g] = [code |-> folder[g].code \cup W, toml |-> t] /\ (f # g => h[f] = folder[f])
  BY <1>1, <1>2, <1>3
<1>5. t \in Source \cup {"none"} /\ (t # "none" => Came(t))
      /\ (t = "none" => \A s \in W : ~input[s].manifest.present)
  <2>1. CASE present = {}
    BY <1>1, <1>2, <1>3, <2>1 DEF FolderFits, Folder
  <2>2. CASE present # {}
    BY <1>1, <1>2, <2>2, UploadsAssumption DEF Source
  <2> QED BY <2>1, <2>2
<1>6. t = "none" => folder[g].toml = "none"
  BY <1>1, <1>2, UploadsAssumption
<1> HIDE DEF g, present
<1>7. h \in [Files -> Folder]
  BY <1>1, <1>2, <1>3, <1>5 DEF Folder
<1>8. h[g] # NoFolder /\ h[g].code # {}
  BY <1>4 DEF NoFolder
<1>9. CASE f = g
  BY <1>1, <1>3, <1>4, <1>5, <1>6, <1>7, <1>8, <1>9 DEF FolderFits, g
<1>10. CASE f # g
  BY <1>3, <1>4, <1>7, <1>8, <1>10 DEF FolderFits, g
<1> QED BY <1>9, <1>10

LEMMA ExtractKnown ==
    ASSUME KnownInv, NEW r \in Requests, Extract(r)
    PROVE  KnownInv'
<1>0. Work(r) /\ pc[r] = "extract" /\ FileOf(r) \in Files /\ input[r] \in Inputs
  BY FileOfTyped DEF Work, Extract
<1>1. /\ UNCHANGED <<input, defs, todo, old, context, archive, image, cont, rows>>
      /\ \E to \in {"load", "failed"} : pc' = [pc EXCEPT ![r] = to]
      /\ left' \in {left, left \cup {FileOf(r)}}
  BY DEF Extract, Goto
<1>2. \/ folder' = folder
      \/ \E W \in SUBSET archive[FileOf(r)] : W # {} /\ folder' \in Unpacked(r, W)
  BY DEF Extract
<1>3. TasksTyped'
  BY <1>0, <1>1, TasksTypedStays DEF KnownInv, TasksTyped
<1>4. \A s : Came(s) => Came(s)' /\ input'[s] = input[s]
  BY <1>0, CameStays DEF KnownInv
<1>5. folder' \in [Files -> Folder] /\ \A f \in Files : FolderFits(f)'
  <2>1. CASE folder' = folder
    BY <1>4, <2>1, FolderStays DEF KnownInv, DataTyped
  <2>2. ASSUME NEW W \in SUBSET archive[FileOf(r)], W # {}, folder' \in Unpacked(r, W)
        PROVE  \A f \in Files : FolderFits(f)'
    <3> TAKE f \in Files
    <3>1. /\ folder' \in [Files -> Folder]
          /\ \A s \in folder'[f].code : Came(s)
          /\ folder'[f] # NoFolder => folder'[f].code # {}
          /\ folder'[f].toml = "none" => \A s \in folder'[f].code : ~input[s].manifest.present
          /\ folder'[f].toml # "none" => Came(folder'[f].toml)
      BY <1>0, <2>2, UnpackedFits
    <3> QED BY <1>4, <3>1 DEF FolderFits
  <2>3. ASSUME NEW W \in SUBSET archive[FileOf(r)], W # {}, folder' \in Unpacked(r, W)
        PROVE  folder' \in [Files -> Folder]
    <3>1. \A f \in Files : folder' \in [Files -> Folder]
      BY <1>0, <2>3, UnpackedFits
    <3> QED BY <1>0, <3>1
  <2> QED BY <1>2, <2>1, <2>2, <2>3
<1>6. DataTyped'
  BY <1>0, <1>1, <1>5, WorkMoves, JudgedTyped DEF KnownInv, DataTyped
<1>7. \A s \in Requests : TaskFits(s)'
  BY <1>0, <1>1 DEF KnownInv, TasksTyped, TaskFits, InLoop
<1>8. \A f \in Files : ArchiveFits(f)'
  BY <1>1, <1>4 DEF KnownInv, ArchiveFits
<1> QED BY <1>3, <1>5, <1>6, <1>7, <1>8 DEF KnownInv

\* The manifest that the folder holds.
LEMMA LoadedTyped ==
    ASSUME KnownInv, NEW r \in Requests, pc[r] # "idle"
    PROVE  /\ Definitions(Loaded(r)) \in Seq(Procs) \/ ~Valid(Loaded(r)) \/ folder[FileOf(r)] = NoFolder
           /\ Valid(Loaded(r)) => Definitions(Loaded(r)) # <<>>
<1> DEFINE t == folder[FileOf(r)].toml
<1>1. FolderFits(FileOf(r)) /\ input[r] \in Inputs
  BY FileOfTyped DEF KnownInv
<1>2. CASE t # "none"
  <2>1. Loaded(r) = input[t].manifest /\ input[t] \in Inputs
    BY <1>1, <1>2 DEF Loaded, FolderFits, Came
  <2> QED BY <2>1, DefinitionsTyped, ProcsTyped
<1>3. CASE t = "none"
  <2>1. Loaded(r) = Bare
    BY <1>3 DEF Loaded
  <2>2. ASSUME folder[FileOf(r)] # NoFolder PROVE Definitions(Bare) \in Seq(Procs)
    <3>1. PICK s : s \in folder[FileOf(r)].code /\ input[s] \in Inputs /\ ~input[s].manifest.present
      BY <1>1, <1>3, <2>2 DEF FolderFits, Came
    <3>2. input[s].manifest = Bare
      BY <3>1, UploadsAssumption
    <3> QED BY <3>1, <3>2, ProcsTyped
  <2> QED BY <2>1, <2>2, DefinitionsTyped
<1> QED BY <1>2, <1>3

LEMMA LoadKnown ==
    ASSUME KnownInv, NEW r \in Requests, Load(r)
    PROVE  KnownInv'
<1>0. Work(r) /\ pc[r] = "load" /\ FileOf(r) \in Files /\ input[r] \in Inputs
  BY FileOfTyped DEF Work, Load
<1>1. /\ UNCHANGED <<input, todo, old, context, archive, image, cont, rows>>
      /\ RemoveFolder(r) \/ KeepFolder
  BY DEF Load, Fail
<1>2. folder' \in [Files -> Folder] /\ left' \subseteq Files
      /\ \A f \in Files : folder'[f] \in {folder[f], NoFolder}
  BY <1>0, <1>1, RemoveFolderTyped
<1>3. \/ /\ pc' = [pc EXCEPT ![r] = "prepare"] /\ defs' = [defs EXCEPT ![r] = Definitions(Loaded(r))]
         /\ folder[FileOf(r)] # NoFolder /\ Valid(Loaded(r))
      \/ pc' = [pc EXCEPT ![r] = "failed"] /\ defs' = defs
  BY DEF Load, Fail, Goto
<1>4. defs'[r] \in Seq(Procs) /\ (pc'[r] = "prepare" => defs'[r] # <<>>)
  BY <1>0, <1>3, LoadedTyped DEF KnownInv, TasksTyped
<1>5. TasksTyped'
  BY <1>0, <1>1, <1>4, TasksTypedStays DEF KnownInv, TasksTyped
<1>6. DataTyped'
  BY <1>0, <1>1, <1>2, WorkMoves, JudgedTyped DEF KnownInv, DataTyped
<1>7. pc'[r] \in {"prepare", "failed"}
  BY <1>3 DEF KnownInv, TasksTyped
<1>8. TaskFits(r)'
  BY <1>0, <1>1, <1>4, <1>7 DEF TaskFits, InLoop
<1> QED BY <1>0, <1>1, <1>2, <1>5, <1>6, <1>8, KnownWork

\* What a request works on.
LEMMA DefinedTyped ==
    ASSUME KnownInv, NEW r \in Requests, pc[r] # "idle"
    PROVE  /\ Defined(r) \subseteq Keys /\ Found(r) \subseteq Keys
           /\ \A k \in Defined(r) \cup Found(r) : SameApp(input[r], k)
           /\ todo[r] # <<>> => Key(input[r], Head(todo[r])) \in Keys /\ Head(todo[r]) \in ToSet(todo[r])
           /\ todo[r] # <<>> /\ pc[r] \in InLoop \cup {"orphan"} => Current(r) \in Defined(r)
<1>1. input[r] \in Inputs /\ ToSet(defs[r]) \subseteq Procs /\ old[r] \subseteq Procs
      /\ todo[r] \in Seq(Procs)
  BY ToSetIn DEF KnownInv, TasksTyped, TaskFits
<1>2. Defined(r) \subseteq Keys /\ Found(r) \subseteq Keys
  BY <1>1, KeyFacts DEF Defined, Found
<1>3. \A k \in Defined(r) \cup Found(r) : SameApp(input[r], k)
  BY <1>1, KeyFacts DEF Defined, Found
<1>4. todo[r] # <<>> => Head(todo[r]) \in Procs /\ Head(todo[r]) \in ToSet(todo[r])
  BY <1>1, HeadTail
<1>5. todo[r] # <<>> => Key(input[r], Head(todo[r])) \in Keys
  BY <1>1, <1>4, KeyFacts
<1>6. todo[r] # <<>> /\ pc[r] \in InLoop \cup {"orphan"} => Current(r) \in Defined(r)
  BY <1>4 DEF KnownInv, TaskFits, Current, Defined
<1> QED BY <1>2, <1>3, <1>4, <1>5, <1>6

LEMMA PrepareKnown ==
    ASSUME KnownInv, NEW r \in Requests, Prepare(r)
    PROVE  KnownInv'
<1> DEFINE listed == {w.key : w \in RowsOf(r)}
<1>0. Work(r) /\ pc[r] = "prepare" /\ FileOf(r) \in Files /\ input[r] \in Inputs
  BY FileOfTyped DEF Work, Prepare
<1>1. /\ UNCHANGED <<input, defs, context, archive, image>>
      /\ RemoveFolder(r) \/ KeepFolder
  BY DEF Prepare, Fail
<1>2. folder' \in [Files -> Folder] /\ left' \subseteq Files
      /\ \A f \in Files : folder'[f] \in {folder[f], NoFolder}
  BY <1>0, <1>1, RemoveFolderTyped
<1>3. Defined(r) \subseteq Keys /\ rows \subseteq Row /\ RowsOf(r) \subseteq rows
  BY <1>0, DefinedTyped DEF KnownInv, DataTyped, RowsOf
<1>4. rows' \subseteq Row
  <2>1. \/ rows' = (rows \ RowsOf(r)) \cup {[key |-> k, status |-> "building"] : k \in Defined(r)}
        \/ rows' = {w \in rows : w.key \notin Defined(r)}
                      \cup {[key |-> k, status |-> "building"] : k \in Defined(r)}
        \/ rows' = rows \ RowsOf(r)
        \/ rows' = SetStatus(listed \cap Defined(r), "building")
    BY DEF Prepare
  <2>2. SetStatus(listed \cap Defined(r), "building") \subseteq Row
    <3> HIDE DEF listed
    <3>1. listed \cap Defined(r) \in SUBSET Keys
      BY <1>3
    <3> QED BY <3>1, SetStatusTyped DEF KnownInv
  <2>3. \A k \in Defined(r) : [key |-> k, status |-> "building"] \in Row
    BY <1>3 DEF Row
  <2> QED BY <1>3, <2>1, <2>2, <2>3
<1>5. cont' \in [Names -> Container]
  BY NothingTyped DEF Prepare, KnownInv, DataTyped
<1>6. \/ /\ pc' = [pc EXCEPT ![r] = "build"] /\ todo' = [todo EXCEPT ![r] = defs[r]]
         /\ old' \in {[old EXCEPT ![r] = {}], [old EXCEPT ![r] = {k.process : k \in listed}]}
      \/ pc' = [pc EXCEPT ![r] = "failed"] /\ todo' = todo /\ old' = old
  BY DEF Prepare, Fail, Goto
<1>7. {k.process : k \in listed} \subseteq Procs
  BY <1>3, NamesTyped DEF Row
<1> HIDE DEF listed
<1>8. old'[r] \subseteq Procs
  BY <1>6, <1>7 DEF KnownInv, TasksTyped
<1>9. todo'[r] \in {defs[r], todo[r]} /\ (pc'[r] = "build" => todo'[r] = defs[r])
  BY <1>6 DEF KnownInv, TasksTyped
<1>10. TasksTyped'
  BY <1>0, <1>1, <1>8, <1>9, TasksTypedStays DEF KnownInv, TasksTyped
<1>11. DataTyped'
  BY <1>0, <1>1, <1>2, <1>4, <1>5, WorkMoves, JudgedTyped DEF KnownInv, DataTyped
<1>12. pc'[r] \in {"build", "failed"}
  BY <1>6 DEF KnownInv, TasksTyped
<1>13. TaskFits(r)'
  BY <1>0, <1>1, <1>9, <1>12 DEF TaskFits, InLoop, KnownInv
<1> QED BY <1>0, <1>1, <1>2, <1>10, <1>11, <1>13, KnownWork

\* The rows after a step of the loop.
LEMMA BrokenTyped ==
    ASSUME KnownInv, NEW r \in Requests, pc[r] # "idle", NEW s \in {"building", "running", "failed"},
           rows' = SetStatus({Current(r)} \cap {w.key : w \in rows}, s)
    PROVE  rows' \subseteq Row
<1> DEFINE K == {Current(r)} \cap {w.key : w \in rows}
<1>1. K \in SUBSET Keys
  BY DEF KnownInv, DataTyped, Row
<1> HIDE DEF K
<1> QED BY <1>1, SetStatusTyped DEF KnownInv, K

LEMMA BuildKnown ==
    ASSUME KnownInv, NEW r \in Requests, Build(r)
    PROVE  KnownInv'
<1>0. Work(r) /\ pc[r] = "build" /\ FileOf(r) \in Files /\ input[r] \in Inputs
  BY FileOfTyped DEF Work, Build
<1>1. /\ UNCHANGED <<input, defs, todo, old, archive, image, cont>>
      /\ RemoveFolder(r) \/ KeepFolder
  BY DEF Build, Broken, Fail
<1>2. folder' \in [Files -> Folder] /\ left' \subseteq Files
      /\ \A f \in Files : folder'[f] \in {folder[f], NoFolder}
  BY <1>0, <1>1, RemoveFolderTyped
<1>3. \/ pc' = [pc EXCEPT ![r] = "tag"] /\ context' = [context EXCEPT ![r] = folder[FileOf(r)].code]
         /\ rows' = rows
      \/ pc' = [pc EXCEPT ![r] = "failed"] /\ context' = context
         /\ rows' = SetStatus({Current(r)} \cap {w.key : w \in rows}, "failed")
  BY DEF Build, Broken, Fail, Goto
<1>4. rows' \subseteq Row
  BY <1>0, <1>3, BrokenTyped DEF KnownInv, DataTyped
<1>5. context'[r] \subseteq Source
  <2>1. folder[FileOf(r)].code \subseteq Source
    BY <1>0 DEF KnownInv, DataTyped, Folder
  <2> QED BY <1>3, <2>1 DEF KnownInv, TasksTyped
<1>6. TasksTyped'
  BY <1>0, <1>1, <1>5, TasksTypedStays DEF KnownInv, TasksTyped
<1>7. DataTyped'
  BY <1>0, <1>1, <1>2, <1>4, WorkMoves, JudgedTyped DEF KnownInv, DataTyped
<1>8. pc'[r] \in {"tag", "failed"}
  BY <1>3 DEF KnownInv, TasksTyped
<1>9. TaskFits(r)'
  BY <1>0, <1>1, <1>8 DEF TaskFits, InLoop, KnownInv
<1> QED BY <1>0, <1>1, <1>2, <1>6, <1>7, <1>9, KnownWork

LEMMA TagKnown ==
    ASSUME KnownInv, NEW r \in Requests, Tag(r)
    PROVE  KnownInv'
<1>0. Work(r) /\ pc[r] \in {"tag", "orphan"} /\ FileOf(r) \in Files /\ input[r] \in Inputs
  BY FileOfTyped DEF Work, Tag
<1>1. /\ UNCHANGED <<input, defs, todo, old, archive, cont, rows, folder, left>>
      /\ image' = [image EXCEPT ![TagOf(Current(r))] = context[r]]
      /\ context' = [context EXCEPT ![r] = {}]
  BY DEF Tag, KeepFolder
<1>2. image' \in [Tags -> SUBSET Source]
  BY <1>1 DEF KnownInv, TasksTyped, DataTyped
<1>3. TasksTyped'
  <2>1. context'[r] \subseteq Source
    BY <1>1 DEF KnownInv, TasksTyped
  <2> QED BY <1>0, <1>1, <2>1, TasksTypedStays DEF KnownInv, TasksTyped
<1>4. DataTyped'
  BY <1>0, <1>1, <1>2, WorkMoves, JudgedTyped DEF KnownInv, DataTyped
<1>5. pc'[r] = "lost" \/ (pc[r] = "tag" /\ pc'[r] = "start")
  <2>1. CASE pc[r] = "tag"
    BY <2>1 DEF Tag, Goto, KnownInv, TasksTyped
  <2>2. CASE pc[r] = "orphan"
    BY <2>2 DEF Tag, Goto, KnownInv, TasksTyped
  <2> QED BY <1>0, <2>1, <2>2
<1>6. TaskFits(r)'
  BY <1>0, <1>1, <1>5 DEF TaskFits, InLoop, KnownInv
<1>7. \A f \in Files : folder'[f] \in {folder[f], NoFolder}
  BY <1>1
<1> QED BY <1>0, <1>1, <1>3, <1>4, <1>6, <1>7, KnownWork

LEMMA StartKnown ==
    ASSUME KnownInv, NEW r \in Requests, Start(r)
    PROVE  KnownInv'
<1> DEFINE n == NameOf(Current(r))
<1>0. Work(r) /\ pc[r] = "start" /\ FileOf(r) \in Files /\ input[r] \in Inputs
  BY FileOfTyped DEF Work, Start
<1>1. /\ UNCHANGED <<input, defs, old, context, archive, image>>
      /\ RemoveFolder(r) \/ KeepFolder
  BY DEF Start, Broken, Fail
<1>2. folder' \in [Files -> Folder] /\ left' \subseteq Files
      /\ \A f \in Files : folder'[f] \in {folder[f], NoFolder}
  BY <1>0, <1>1, RemoveFolderTyped
<1>3. todo[r] # <<>> /\ todo[r] \in Seq(Procs) /\ ToSet(todo[r]) \subseteq ToSet(defs[r])
  BY <1>0 DEF KnownInv, TaskFits, TasksTyped, InLoop
<1>4. Current(r) \in Keys /\ TagOf(Current(r)) \in Tags /\ n \in Names
  BY <1>0, <1>3, DefinedTyped, NamesTyped DEF Current
<1> HIDE DEF n
<1>5. \/ /\ cont' = [cont EXCEPT ![n] = [by |-> r, code |-> image[TagOf(Current(r))]]]
         /\ todo' = [todo EXCEPT ![r] = Tail(@)]
         /\ pc' = [pc EXCEPT ![r] = IF LastOne(r) THEN "finish" ELSE "build"]
      \/ cont' = cont /\ todo' = todo /\ pc' = [pc EXCEPT ![r] = "failed"]
  BY DEF Start, Broken, Fail, Goto, n
<1>6. \E s \in {"building", "running", "failed"} :
          rows' = SetStatus({Current(r)} \cap {w.key : w \in rows}, s)
  BY DEF Start, Broken
<1>7. rows' \subseteq Row
  BY <1>0, <1>6, BrokenTyped
<1>8. cont' \in [Names -> Container]
  <2>1. [by |-> r, code |-> image[TagOf(Current(r))]] \in Container
    BY <1>4 DEF Container, Source, KnownInv, DataTyped
  <2> QED BY <1>4, <1>5, <2>1 DEF KnownInv, DataTyped
<1>9. Tail(todo[r]) \in Seq(Procs) /\ ToSet(Tail(todo[r])) \subseteq ToSet(todo[r])
      /\ (Len(todo[r]) = 1 <=> Tail(todo[r]) = <<>>)
  BY <1>3, HeadTail
<1>10. \/ todo'[r] = Tail(todo[r]) /\ LastOne(r) /\ pc'[r] = "finish"
       \/ todo'[r] = Tail(todo[r]) /\ ~LastOne(r) /\ pc'[r] = "build"
       \/ todo'[r] = todo[r] /\ pc'[r] = "failed"
  <2> USE DEF KnownInv, TasksTyped
  <2>1. CASE pc' = [pc EXCEPT ![r] = "failed"] /\ todo' = todo
    BY <2>1
  <2>2. CASE todo' = [todo EXCEPT ![r] = Tail(@)]
             /\ pc' = [pc EXCEPT ![r] = IF LastOne(r) THEN "finish" ELSE "build"]
    <3>1. todo'[r] = Tail(todo[r])
      BY <2>2
    <3>2. CASE LastOne(r)
      BY <2>2, <3>1, <3>2
    <3>3. CASE ~LastOne(r)
      BY <2>2, <3>1, <3>3
    <3> QED BY <3>2, <3>3
  <2> QED BY <1>5, <2>1, <2>2
<1>11. TasksTyped'
  BY <1>0, <1>1, <1>3, <1>9, <1>10, TasksTypedStays DEF KnownInv, TasksTyped
<1>12. DataTyped'
  BY <1>0, <1>1, <1>2, <1>7, <1>8, WorkMoves, JudgedTyped DEF KnownInv, DataTyped
<1>13. TaskFits(r)'
  <2>1. defs'[r] = defs[r] /\ input'[r] = input[r]
    BY <1>1
  <2>2. CASE todo'[r] = Tail(todo[r]) /\ LastOne(r) /\ pc'[r] = "finish"
    BY <1>0, <1>3, <1>9, <2>1, <2>2 DEF TaskFits, InLoop, LastOne
  <2>3. CASE todo'[r] = Tail(todo[r]) /\ ~LastOne(r) /\ pc'[r] = "build"
    BY <1>0, <1>3, <1>9, <2>1, <2>3 DEF TaskFits, InLoop, LastOne
  <2>4. CASE pc'[r] = "failed"
    BY <1>0, <2>1, <2>4 DEF TaskFits, InLoop
  <2> QED BY <1>10, <2>2, <2>3, <2>4
<1> QED BY <1>0, <1>1, <1>2, <1>11, <1>12, <1>13, KnownWork

LEMMA FinishKnown ==
    ASSUME KnownInv, NEW r \in Requests, Finish(r)
    PROVE  KnownInv'
<1>0. Work(r) /\ pc[r] = "finish" /\ FileOf(r) \in Files /\ input[r] \in Inputs
  BY FileOfTyped DEF Work, Finish, Succeed
<1>1. /\ UNCHANGED <<input, defs, todo, old, context, archive, image>>
      /\ RemoveFolder(r) /\ pc' = [pc EXCEPT ![r] = "ok"]
  BY DEF Finish, Succeed, Goto
<1>2. folder' \in [Files -> Folder] /\ left' \subseteq Files
      /\ \A f \in Files : folder'[f] \in {folder[f], NoFolder}
  BY <1>0, <1>1, RemoveFolderTyped
<1>3. rows' \subseteq Row /\ cont' \in [Names -> Container]
  BY NothingTyped DEF Finish, KnownInv, DataTyped
<1>4. TasksTyped'
  BY <1>0, <1>1, TasksTypedStays DEF KnownInv, TasksTyped
<1>5. DataTyped'
  BY <1>0, <1>1, <1>2, <1>3, WorkMoves, JudgedTyped DEF KnownInv, DataTyped
<1>6. TaskFits(r)'
  <2>1. pc'[r] = "ok"
    BY <1>1 DEF KnownInv, TasksTyped
  <2> QED BY <1>0, <1>1, <2>1 DEF TaskFits, InLoop
<1> QED BY <1>0, <1>1, <1>2, <1>4, <1>5, <1>6, KnownWork

LEMMA InitKnown ==
    ASSUME Init
    PROVE  KnownInv
<1> DEFINE made(b) == IF b = Nothing THEN {} ELSE KeysOf(b)
<1>1. PICK b \in {Nothing} \cup {i \in Inputs : i.kind = "deploy" /\ Valid(i.manifest)} :
         /\ input = [r \in Source |-> IF r = Base THEN b ELSE Nothing]
         /\ rows = {[key |-> k, status |-> "running"] : k \in made(b)}
         /\ image = [t \in Tags |-> IF \E k \in made(b) : TagOf(k) = t THEN {Base} ELSE {}]
         /\ cont = [n \in Names |-> IF \E k \in made(b) : NameOf(k) = n
                                      THEN [by |-> Base, code |-> {Base}] ELSE NoContainer]
         /\ archive = [f \in Files |-> IF f = b.file THEN {Base} ELSE {}]
  BY DEF Init
<1>2. /\ pc = [r \in Requests |-> "idle"]
      /\ defs = [r \in Requests |-> <<>>]
      /\ todo = [r \in Requests |-> <<>>]
      /\ old = [r \in Requests |-> {}]
      /\ context = [r \in Requests |-> {}]
      /\ folder = [f \in Files |-> NoFolder]
      /\ faults = 0 /\ left = {}
  BY DEF Init
<1>3. made(b) \subseteq Keys
  BY KeyFacts
<1>4. b \in Inputs \/ b = Nothing
  OBVIOUS
<1> HIDE DEF made
<1>5. TasksTyped
  <2>1. <<>> \in Seq(Procs)
    OBVIOUS
  <2>2. input \in [Source -> Inputs \cup {Nothing}]
    BY <1>1, <1>4
  <2> QED BY <1>2, <2>1, <2>2 DEF TasksTyped, States
<1>6. DataTyped
  <2>1. rows \subseteq Row
    BY <1>1, <1>3 DEF Row
  <2>2. image \in [Tags -> SUBSET Source] /\ archive \in [Files -> SUBSET Source]
    BY <1>1 DEF Source
  <2>3. cont \in [Names -> Container]
    <3>1. [by |-> Base, code |-> {Base}] \in Container
      BY DEF Container, Source
    <3> QED BY <1>1, <3>1, NothingTyped
  <2> QED BY <1>2, <2>1, <2>2, <2>3, NothingTyped, UploadsAssumption DEF DataTyped
<1>7. \A r \in Requests : TaskFits(r)
  BY <1>2 DEF TaskFits, InLoop
<1>8. \A f \in Files : ArchiveFits(f)
  <2> TAKE f \in Files
  <2>1. CASE f = b.file
    <3>1. b # Nothing
      BY <2>1, UploadsAssumption DEF Files, Nothing
    <3>2. input[Base] \in Inputs /\ Base \in Source /\ Base \notin Requests
      BY <1>1, <1>4, <3>1, UploadsAssumption DEF Source
    <3>3. archive[f] = {Base}
      BY <1>1, <2>1
    <3> QED BY <3>2, <3>3 DEF ArchiveFits, Came
  <2>2. CASE f # b.file
    BY <1>1, <2>2 DEF ArchiveFits
  <2> QED BY <2>1, <2>2
<1>9. \A f \in Files : FolderFits(f)
  BY <1>2 DEF FolderFits, NoFolder
<1> QED BY <1>5, <1>6, <1>7, <1>8, <1>9 DEF KnownInv

LEMMA ReceiveKnown ==
    ASSUME KnownInv, NEW r \in Requests, Receive(r)
    PROVE  KnownInv'
<1>1. PICK i \in Inputs : Arrive(r, i) /\ archive' = [archive EXCEPT ![i.file] = {}]
  BY DEF Receive
<1>2. /\ pc[r] = "idle" /\ i.file \in Files
      /\ UNCHANGED <<defs, todo, old, context, folder, image, cont, rows, faults, left>>
      /\ pc' = [pc EXCEPT ![r] = "write"]
      /\ input' = [input EXCEPT ![r] = i]
  BY <1>1 DEF Arrive, Goto, Files
<1>3. TasksTyped'
  BY <1>2 DEF KnownInv, TasksTyped, States, InHandler, Source
<1>4. DataTyped'
  BY <1>1, <1>2 DEF KnownInv, DataTyped
<1>5. \A s \in Requests : TaskFits(s)'
  BY <1>2 DEF KnownInv, TasksTyped, TaskFits, InLoop, Source
<1>6. \A s : Came(s) => Came(s)' /\ input'[s] = input[s]
  BY <1>2 DEF Came, KnownInv, TasksTyped
<1>7. \A f \in Files : ArchiveFits(f)'
  BY <1>1, <1>2, <1>6 DEF KnownInv, ArchiveFits, DataTyped
<1>8. \A f \in Files : FolderFits(f)'
  BY <1>2, <1>6, FolderStays DEF KnownInv
<1> QED BY <1>3, <1>4, <1>5, <1>7, <1>8 DEF KnownInv

\* A step of the watcher, or a container that goes missing.
LEMMA ContainersKnown ==
    ASSUME KnownInv, UNCHANGED <<taskVars, archive, folder, image, rows, left>>,
           cont' \in [Names -> Container], faults' \in 0..MaxFaults
    PROVE  KnownInv'
BY DEF KnownInv, TasksTyped, DataTyped, TaskFits, ArchiveFits, FolderFits, Came, taskVars

LEMMA LoseKnown ==
    ASSUME KnownInv, NEW n \in Names, Lose(n)
    PROVE  KnownInv'
<1>1. cont' \in [Names -> Container] /\ faults' \in 0..MaxFaults
  BY NothingTyped, UploadsAssumption DEF Lose, Fault, KnownInv, DataTyped
<1> QED BY <1>1, ContainersKnown DEF Lose, KeepFolder

LEMMA RecreateKnown ==
    ASSUME KnownInv, NEW w \in rows, Recreate(w)
    PROVE  KnownInv'
<1>1. cont' \in [Names -> Container] /\ faults' \in 0..MaxFaults
  <2>1. TagOf(w.key) \in Tags /\ NameOf(w.key) \in Names
    BY NamesTyped DEF KnownInv, DataTyped, Row
  <2>2. [by |-> "watcher", code |-> image[TagOf(w.key)]] \in Container
    BY <2>1 DEF Container, KnownInv, DataTyped
  <2> QED BY <2>1, <2>2 DEF Recreate, NoFault, KnownInv, DataTyped
<1> QED BY <1>1, ContainersKnown DEF Recreate, KeepFolder

\* What a crash makes of a request.
LEMMA CrashMoves ==
    ASSUME Crash, TasksTyped, NEW r \in Requests
    PROVE  /\ ~Active(r) => pc'[r] = pc[r]
           /\ pc[r] = "tag" => pc'[r] = "orphan"
           /\ Active(r) /\ pc[r] # "tag" => pc'[r] = "lost"
           /\ pc' \in [Requests -> States]
           /\ hit' = hit \cup {s \in Requests : Active(s)}
           /\ UNCHANGED <<input, defs, todo, old, context, archive, folder, image, cont, rows>>
           /\ UNCHANGED <<met, settled>>
<1>1. /\ pc' = [s \in Requests |-> IF s \notin {q \in Requests : Active(q)} THEN pc[s]
                                   ELSE IF pc[s] = "tag" THEN "orphan" ELSE "lost"]
      /\ hit' = hit \cup {s \in Requests : Active(s)}
  BY DEF Crash, Fault
<1>2. UNCHANGED <<input, defs, todo, old, context, archive, folder, image, cont, rows>>
      /\ UNCHANGED <<met, settled>>
  BY DEF Crash, Observers
<1>3. Active(r) => pc'[r] = IF pc[r] = "tag" THEN "orphan" ELSE "lost"
  BY <1>1
<1>4. ~Active(r) => pc'[r] = pc[r]
  BY <1>1
<1>5. pc[r] = "tag" => Active(r)
  BY DEF Active, InTask
<1>6. pc' \in [Requests -> States]
  <2>1. \A s \in Requests : pc'[s] \in {pc[s], "orphan", "lost"}
    BY <1>1
  <2> QED BY <1>1, <2>1 DEF TasksTyped, States
<1> QED BY <1>1, <1>2, <1>3, <1>4, <1>5, <1>6

LEMMA CrashKnown ==
    ASSUME KnownInv, Crash
    PROVE  KnownInv'
<1>1. TasksTyped
  BY DEF KnownInv
<1>2. pc' \in [Requests -> States] /\ UNCHANGED <<input, defs, todo, old, context, archive, folder, image, cont, rows>>
  <2>1. PICK r \in Requests : TRUE
    BY DEF Crash
  <2> QED BY <1>1, <2>1, CrashMoves
<1>3. TasksTyped'
  BY <1>1, <1>2 DEF TasksTyped
<1>4. faults' \in 0..MaxFaults
  BY UploadsAssumption DEF Crash, Fault, KnownInv, DataTyped
<1>5. left' \subseteq Files
  <2>1. \A r \in Requests : Active(r) => FileOf(r) \in Files
    BY FileOfTyped DEF Active, InHandler, InTask
  <2> QED BY <2>1 DEF Crash, KnownInv, DataTyped
<1>6. DataTyped'
  BY <1>2, <1>4, <1>5 DEF KnownInv, DataTyped
<1>7. ASSUME NEW s \in Requests PROVE TaskFits(s)'
  <2>1. defs'[s] = defs[s] /\ todo'[s] = todo[s] /\ old'[s] = old[s] /\ input'[s] = input[s]
    BY <1>2
  <2>2. \/ pc'[s] = pc[s]
        \/ pc'[s] = "lost" /\ pc[s] # "idle"
        \/ pc'[s] = "orphan" /\ pc[s] = "tag"
    <3>1. Active(s) => pc[s] # "idle"
      BY DEF Active, InHandler, InTask
    <3> QED BY <1>1, <3>1, CrashMoves
  <2>3. TaskFits(s)
    BY DEF KnownInv
  <2>4. CASE pc'[s] = pc[s]
    BY <2>1, <2>3, <2>4 DEF TaskFits
  <2>5. CASE pc'[s] = "lost" /\ pc[s] # "idle"
    BY <2>1, <2>3, <2>5 DEF TaskFits, InLoop
  <2>6. CASE pc'[s] = "orphan" /\ pc[s] = "tag"
    BY <2>1, <2>3, <2>6 DEF TaskFits, InLoop
  <2> QED BY <2>2, <2>4, <2>5, <2>6
<1>8. \A s : Came(s) => Came(s)' /\ input'[s] = input[s]
  BY <1>1, <1>2, CrashMoves DEF Came, Active, InHandler, InTask
<1>9. \A f \in Files : ArchiveFits(f)' /\ FolderFits(f)'
  BY <1>2, <1>8, FolderStays DEF KnownInv, ArchiveFits
<1> QED BY <1>3, <1>6, <1>7, <1>9 DEF KnownInv

LEMMA KnownNext ==
    ASSUME KnownInv, [Next]_vars
    PROVE  KnownInv'
<1>1. ASSUME NEW r \in Requests, Step(r) PROVE KnownInv'
  BY <1>1, ReceiveKnown, WriteKnown, ExtractKnown, LoadKnown, PrepareKnown, BuildKnown, TagKnown,
     StartKnown, FinishKnown DEF Step
<1>2. CASE UNCHANGED vars
  BY <1>2 DEF vars, taskVars, KnownInv, TasksTyped, DataTyped, TaskFits, ArchiveFits, FolderFits, Came
<1> QED BY <1>1, <1>2, LoseKnown, RecreateKnown, CrashKnown DEF Next

\* What the handlers and the tasks keep has the types of TypeOK, and nothing that a request
\* builds from is there before it came.
THEOREM UploadsTypeCorrect == Spec => []TypeOK
<1>1. Init => KnownInv
  BY InitKnown
<1>2. KnownInv /\ [Next]_vars => KnownInv'
  BY KnownNext
<1>3. KnownInv => TypeOK
  BY KnownTyped
<1> QED BY <1>1, <1>2, <1>3, PTL DEF Spec

-----------------------------------------------------------------------------
(* The folders                                                              *)

\* A folder that is there is that of a request which removes it, or was left behind.
Unpacks == {"load", "prepare", "build", "tag", "start", "finish"}
LeftInv == \A f \in Files : folder[f] # NoFolder =>
               f \in left \/ \E r \in Requests : pc[r] \in Unpacks /\ FileOf(r) = f

\* What a request's step does to its folder, and to no other.
LEMMA WorkFolders ==
    ASSUME KnownInv, NEW r \in Requests, Work(r)
    PROVE  /\ \A f \in Files \ {FileOf(r)} : folder'[f] = folder[f] /\ (f \in left <=> f \in left')
           /\ \/ KeepFolder /\ (pc[r] \in Unpacks => pc'[r] \in Unpacks)
              \/ RemoveFolder(r)
              \/ FileOf(r) \in left' /\ Extract(r)
              \/ left' = left /\ pc'[r] = "load" /\ Extract(r)
<1> USE DEF KnownInv, TasksTyped, DataTyped, RemoveFolder, KeepFolder
<1>1. CASE WriteArchive(r)
  BY <1>1 DEF WriteArchive, Unpacks
<1>2. CASE Extract(r)
  <2>1. \A f \in Files \ {FileOf(r)} : folder'[f] = folder[f]
    <3>1. CASE folder' = folder
      BY <3>1
    <3>2. ASSUME NEW W \in SUBSET archive[FileOf(r)], W # {}, folder' \in Unpacked(r, W)
          PROVE  \A f \in Files \ {FileOf(r)} : folder'[f] = folder[f]
      <4> HIDE DEF KnownInv, TasksTyped, DataTyped
      <4>1. pc[r] # "idle"
        BY <1>2 DEF Extract
      <4> QED BY <3>2, <4>1, UnpackedFits
    <3> QED BY <1>2, <3>1, <3>2 DEF Extract
  <2>2. \/ left' = left /\ pc' = [pc EXCEPT ![r] = "load"]
        \/ left' = left \cup {FileOf(r)}
    BY <1>2 DEF Extract, Goto
  <2> QED BY <1>2, <2>1, <2>2
<1>3. CASE Load(r)
  BY <1>3 DEF Load, Fail, Goto, Unpacks
<1>4. CASE Prepare(r)
  BY <1>4 DEF Prepare, Fail, Goto, Unpacks
<1>5. CASE Build(r)
  BY <1>5 DEF Build, Broken, Fail, Goto, Unpacks
<1>6. CASE Tag(r)
  <2>1. KeepFolder /\ pc[r] \in {"tag", "orphan"}
    BY <1>6 DEF Tag
  <2>2. pc[r] = "tag" => pc' = [pc EXCEPT ![r] = "start"]
    BY <1>6 DEF Tag, Goto
  <2> QED BY <2>1, <2>2 DEF Unpacks
<1>7. CASE Start(r)
  <2>1. CASE RemoveFolder(r)
    BY <2>1
  <2>2. CASE KeepFolder /\ \E to \in {"finish", "build"} : pc' = [pc EXCEPT ![r] = to]
    BY <2>2 DEF Unpacks
  <2> QED BY <1>7, <2>1, <2>2 DEF Start, Broken, Fail, Goto
<1>8. CASE Finish(r)
  BY <1>8 DEF Finish, Succeed
<1> QED BY <1>1, <1>2, <1>3, <1>4, <1>5, <1>6, <1>7, <1>8 DEF Work

LEMMA LeftNext ==
    ASSUME KnownInv, LeftInv, [Next]_vars
    PROVE  LeftInv'
<1>1. ASSUME NEW r \in Requests, Receive(r) PROVE LeftInv'
  <2>1. /\ UNCHANGED <<folder, left>> /\ pc[r] = "idle"
        /\ \A s \in Requests \ {r} : pc'[s] = pc[s] /\ input'[s] = input[s]
    BY <1>1 DEF Receive, Arrive, Goto, KnownInv, TasksTyped
  <2>2. \A s \in Requests : pc[s] \in Unpacks => pc'[s] \in Unpacks /\ input'[s] = input[s]
    BY <2>1 DEF Unpacks
  <2> QED BY <2>1, <2>2 DEF LeftInv, FileOf
<1>2. ASSUME NEW r \in Requests, Work(r) PROVE LeftInv'
  <2>1. \A s \in Requests \ {r} : pc'[s] = pc[s] /\ input'[s] = input[s]
    BY <1>2, OthersKeep DEF KnownInv
  <2>2. input'[r] = input[r] /\ pc[r] # "idle"
    BY <1>2, WorkMoves DEF Moves, InHandler, InTask
  <2>3. FileOf(r) \in Files
    BY <2>2, FileOfTyped
  <2> SUFFICES ASSUME NEW f \in Files, folder'[f] # NoFolder
               PROVE  f \in left' \/ \E s \in Requests : pc'[s] \in Unpacks /\ FileOf(s)' = f
    BY DEF LeftInv
  <2>4. \A s \in Requests : FileOf(s)' = FileOf(s)
    BY <2>1, <2>2 DEF FileOf
  <2>5. CASE f # FileOf(r)
    BY <1>2, <2>1, <2>4, <2>5, WorkFolders DEF LeftInv
  <2>6. CASE f = FileOf(r)
    <3>1. CASE KeepFolder /\ (pc[r] \in Unpacks => pc'[r] \in Unpacks)
      BY <2>1, <2>4, <3>1 DEF LeftInv, KeepFolder
    <3>2. CASE RemoveFolder(r)
      BY <2>3, <2>6, <3>2 DEF RemoveFolder, KnownInv, DataTyped
    <3>3. CASE FileOf(r) \in left'
      BY <2>6, <3>3
    <3>4. CASE pc'[r] = "load"
      BY <2>4, <2>6, <3>4 DEF Unpacks
    <3> QED BY <1>2, <3>1, <3>2, <3>3, <3>4, WorkFolders
  <2> QED BY <2>5, <2>6
<1>3. CASE Crash
  <2>1. TasksTyped
    BY DEF KnownInv
  <2>2. \A r \in Requests : pc[r] \in Unpacks => FileOf(r) \in left'
    BY <1>3 DEF Crash, Active, Unpacks, InHandler, InTask
  <2>3. folder' = folder /\ left \subseteq left'
    BY <1>3 DEF Crash
  <2> QED BY <2>2, <2>3 DEF LeftInv
<1>4. CASE UNCHANGED <<taskVars, folder, left>>
  BY <1>4 DEF LeftInv, taskVars, FileOf
<1>5. \A n \in Names : Lose(n) => UNCHANGED <<taskVars, folder, left>>
  BY DEF Lose, KeepFolder
<1>6. \A w \in rows : Recreate(w) => UNCHANGED <<taskVars, folder, left>>
  BY DEF Recreate, KeepFolder
<1>7. UNCHANGED vars => UNCHANGED <<taskVars, folder, left>>
  BY DEF vars
<1> QED BY <1>1, <1>2, <1>3, <1>4, <1>5, <1>6, <1>7, StepKinds DEF Next

\* Whatever way the requests go, an "-extract" folder that is still there when nobody is on
\* the way is one that a failed extraction or a crash left behind.
THEOREM FoldersGo == Spec => []FoldersRemoved
<1>1. Init => KnownInv /\ LeftInv
  BY InitKnown DEF Init, LeftInv
<1>2. KnownInv /\ LeftInv /\ [Next]_vars => (KnownInv /\ LeftInv)'
  BY KnownNext, LeftNext
<1>3. LeftInv => FoldersRemoved
  BY DEF LeftInv, FoldersRemoved, Active, InHandler, InTask, Unpacks
<1> QED BY <1>1, <1>2, <1>3, PTL DEF Spec

-----------------------------------------------------------------------------
(* A request that nobody met                                                *)

\* Nothing that s works on is made by r, too.
Away(r, s) == /\ ~SameApp(input[r], input[s])
              /\ ~ShareTag(KeysOf(input[r]), KeysOf(input[s]) \cup Defined(s))

Apart(r) == \A s \in Requests \ {r} : InFlight(r) /\ InFlight(s) => FileOf(r) # FileOf(s) /\ Away(r, s)

\* What it has written, extracted, loaded, built and tagged is its own.
Own(r) ==
    LET f == FileOf(r)
        m == input[r].manifest
    IN  /\ pc[r] = "write" => archive[f] = {}
        /\ pc[r] = "extract" => archive[f] \subseteq {r} /\ (r \notin hit => archive[f] = {r})
        /\ pc[r] \in {"write", "extract"} => folder[f] = NoFolder
        /\ pc[r] \in Unpacks => folder[f] = [code |-> {r}, toml |-> IF m.present THEN r ELSE "none"]
        /\ pc[r] \in (Unpacks \ {"load"}) \cup {"orphan", "ok"} => Valid(m) /\ defs[r] = Definitions(m)
        /\ pc[r] \in {"tag", "orphan"} => context[r] = {r}
        /\ pc[r] = "start" => image[TagOf(Current(r))] = {r}

ObserversTyped == met \subseteq Requests /\ hit \subseteq Requests /\ settled \subseteq Source
ApartInv == ObserversTyped /\ \A r \in Requests \ met : Apart(r)
OwnInv   == RunsItsCode /\ \A r \in Requests \ met : Own(r)

LEMMA ShareTagSym == \A K, L : ShareTag(K, L) <=> ShareTag(L, K)
BY DEF ShareTag

LEMMA SameAppSym == \A i, k : SameApp(i, k) <=> SameApp(k, i)
BY DEF SameApp

\* Who met another stays so; what Touch adds is what the loaded manifest makes.
LEMMA WorkObserved ==
    ASSUME NEW r \in Requests, Work(r)
    PROVE  \/ met' = met /\ defs' = defs /\ (settled' = settled \/ Finish(r))
           \/ /\ Load(r) /\ defs' = [defs EXCEPT ![r] = Definitions(Loaded(r))]
              /\ Touch(r, Loaded(r))
BY DEF Work, WriteArchive, Extract, Load, Prepare, Build, Tag, Start, Finish, Succeed, Observers

LEMMA WorkFlies ==
    ASSUME TasksTyped, NEW r \in Requests, Work(r)
    PROVE  InFlight(r) /\ \A s \in Requests : (InFlight(s)' => InFlight(s)) /\ input'[s] = input[s]
                                              /\ FileOf(s)' = FileOf(s)
<1>1. InFlight(r) /\ input' = input
  BY WorkMoves DEF Moves, InFlight, Active
<1>2. \A s \in Requests : InFlight(s)' => InFlight(s)
  BY <1>1, WorkMoves DEF Moves, Goto, InFlight, Active, TasksTyped
<1> QED BY <1>1, <1>2 DEF FileOf

LEMMA ApartWork ==
    ASSUME KnownInv, ApartInv, NEW r \in Requests, Work(r)
    PROVE  \A q \in Requests \ met' : Apart(q)'
<1> SUFFICES ASSUME NEW q \in Requests, q \notin met', NEW s \in Requests \ {q},
                    InFlight(q)', InFlight(s)'
             PROVE  FileOf(q)' # FileOf(s)' /\ Away(q, s)'
  BY DEF Apart
<1>1. TasksTyped
  BY DEF KnownInv
<1>2. InFlight(q) /\ InFlight(s) /\ input' = input /\ FileOf(q)' = FileOf(q) /\ FileOf(s)' = FileOf(s)
  BY <1>1, WorkFlies, WorkMoves DEF Moves
<1>3. q \notin met
  BY WorkObserved DEF Touch
<1>4. FileOf(q) # FileOf(s) /\ Away(q, s)
  BY <1>2, <1>3 DEF ApartInv, Apart
<1>5. CASE defs'[s] = defs[s]
  BY <1>2, <1>4, <1>5 DEF Away, Defined
<1>6. CASE defs'[s] # defs[s]
  <2>1. s = r /\ defs'[s] = Definitions(Loaded(r)) /\ Touch(r, Loaded(r))
    BY <1>1, <1>6, WorkObserved DEF TasksTyped
  <2>2. ~ShareTag({Key(input[s], p) : p \in ToSet(Definitions(Loaded(r)))}, KeysOf(input[q]))
    BY <1>2, <2>1 DEF Touch
  <2>3. ~ShareTag(KeysOf(input[q]), Defined(s)')
    BY <1>2, <2>1, <2>2, ShareTagSym DEF Defined
  <2>4. ~ShareTag(KeysOf(input[q]), KeysOf(input[s]))
    BY <1>4 DEF Away, ShareTag
  <2> QED BY <1>2, <1>4, <2>3, <2>4 DEF Away, ShareTag
<1> QED BY <1>5, <1>6

LEMMA ApartReceive ==
    ASSUME KnownInv, ApartInv, NEW r \in Requests, Receive(r)
    PROVE  \A q \in Requests \ met' : Apart(q)'
<1>1. PICK i \in Inputs : Arrive(r, i)
  BY DEF Receive
<1> DEFINE others == {s \in Requests : InFlight(s) /\ (i.file = input[s].file \/ Clash(i, s))}
<1>2. /\ pc[r] = "idle" /\ defs' = defs /\ old' = old
      /\ \A s \in Requests \ {r} : pc'[s] = pc[s] /\ input'[s] = input[s]
      /\ input'[r] = i
      /\ met \cup others \subseteq met' /\ (r \notin met' => others = {})
  BY <1>1 DEF Arrive, Goto, KnownInv, TasksTyped, Source
<1>3. Defined(r)' = {} /\ ToSet(defs[r]) = {}
  BY <1>2 DEF Defined, KnownInv, TaskFits, ToSet
<1>4. \A s \in Requests \ {r} : /\ InFlight(s)' => InFlight(s)
                                /\ FileOf(s)' = FileOf(s) /\ Defined(s)' = Defined(s)
  BY <1>2 DEF InFlight, Active, FileOf, Defined
<1> SUFFICES ASSUME NEW q \in Requests, q \notin met', NEW s \in Requests \ {q},
                    InFlight(q)', InFlight(s)'
             PROVE  FileOf(q)' # FileOf(s)' /\ Away(q, s)'
  BY DEF Apart
<1>5. CASE q # r /\ s # r
  BY <1>2, <1>4, <1>5 DEF ApartInv, Apart, Away
<1>6. CASE q = r
  <2>1. s \notin others /\ InFlight(s)
    BY <1>2, <1>4, <1>6
  <2>2. i.file # input[s].file /\ ~Clash(i, s)
    BY <2>1
  <2>3. ~SameApp(i, input[s]) /\ ~ShareTag(KeysOf(i), KeysOf(input[s]) \cup Defined(s))
    BY <2>2 DEF Clash, ShareTag
  <2> QED BY <1>2, <1>4, <1>6, <2>2, <2>3 DEF Away, FileOf
<1>7. CASE s = r
  <2>1. q \notin others /\ InFlight(q)
    BY <1>2, <1>4, <1>7
  <2>2. i.file # input[q].file /\ ~Clash(i, q)
    BY <2>1
  <2>3. ~SameApp(input[q], i) /\ ~ShareTag(KeysOf(input[q]), KeysOf(i))
    BY <2>2, ShareTagSym, SameAppSym DEF Clash, ShareTag
  <2>4. ~ShareTag(KeysOf(input[q]), KeysOf(i) \cup {})
    BY <2>3
  <2> QED BY <1>2, <1>3, <1>7, <2>2, <2>3, <2>4 DEF Away, FileOf
<1> QED BY <1>5, <1>6, <1>7

LEMMA ApartNext ==
    ASSUME KnownInv, ApartInv, [Next]_vars
    PROVE  ApartInv'
<1>1. ASSUME NEW r \in Requests, Receive(r) PROVE ApartInv'
  <2>1. ObserversTyped'
    BY <1>1 DEF Receive, Arrive, ApartInv, ObserversTyped
  <2> QED BY <1>1, <2>1, ApartReceive DEF ApartInv
<1>2. ASSUME NEW r \in Requests, Work(r) PROVE ApartInv'
  <2>1. met' \subseteq Requests /\ settled' \subseteq Source
    BY <1>2, WorkObserved DEF ApartInv, ObserversTyped, Touch, Finish, Succeed, Source
  <2>2. hit' \subseteq Requests
    <3>1. hit' \in {hit, hit \cup {r}}
      BY <1>2 DEF Work, WriteArchive, Extract, Load, Prepare, Build, Tag, Start, Finish, Succeed, Fault, NoFault
    <3> QED BY <3>1 DEF ApartInv, ObserversTyped
  <2> QED BY <1>2, <2>1, <2>2, ApartWork DEF ApartInv, ObserversTyped
<1>3. CASE Crash
  <2>1. TasksTyped
    BY DEF KnownInv
  <2>2. \A s \in Requests : InFlight(s)' => InFlight(s)
    <3> TAKE s \in Requests
    <3>1. CASE Active(s)
      BY <3>1 DEF InFlight
    <3>2. CASE ~Active(s)
      <4>1. pc'[s] = pc[s]
        BY <1>3, <2>1, <3>2, CrashMoves
      <4> QED BY <4>1 DEF InFlight, Active
    <3> QED BY <3>1, <3>2
  <2>3. UNCHANGED <<input, defs, met, settled>> /\ hit' = hit \cup {s \in Requests : Active(s)}
    BY <1>3 DEF Crash, Fault, Observers
  <2> QED BY <2>2, <2>3 DEF ApartInv, Apart, Away, Defined, FileOf, ObserversTyped
<1>4. CASE UNCHANGED <<taskVars, met, settled>> /\ hit' \subseteq Requests
  BY <1>4 DEF ApartInv, Apart, Away, Defined, FileOf, ObserversTyped, taskVars, InFlight, Active
<1>5. \A n \in Names : Lose(n) => UNCHANGED <<taskVars, met, settled>> /\ hit' \subseteq Requests
  BY DEF Lose, Observers, Fault, ApartInv, ObserversTyped
<1>6. \A w \in rows : Recreate(w) => UNCHANGED <<taskVars, met, settled>> /\ hit' \subseteq Requests
  BY DEF Recreate, Observers, NoFault, ApartInv, ObserversTyped
<1>7. UNCHANGED vars => UNCHANGED <<taskVars, met, settled>> /\ hit' \subseteq Requests
  BY DEF vars, ApartInv, ObserversTyped
<1> QED BY <1>1, <1>2, <1>3, <1>4, <1>5, <1>6, <1>7, StepKinds DEF Next

\* What a request's step does to the archives, the images and the containers of others.
LEMMA WorkOwnFile ==
    ASSUME KnownInv, NEW r \in Requests, Work(r), NEW f \in Files \ {FileOf(r)}
    PROVE  archive'[f] = archive[f] /\ folder'[f] = folder[f]
<1>1. folder'[f] = folder[f]
  BY WorkFolders
<1>2. archive' = archive \/ \E A : archive' = [archive EXCEPT ![FileOf(r)] = A]
  BY DEF Work, WriteArchive, Extract, Load, Prepare, Build, Tag, Start, Finish, Succeed
<1> QED BY <1>1, <1>2 DEF KnownInv, DataTyped

LEMMA WorkOwnTag ==
    ASSUME KnownInv, NEW r \in Requests, Work(r), NEW t \in Tags, \A k \in Defined(r) : TagOf(k) # t
    PROVE  image'[t] = image[t]
<1>1. CASE Tag(r)
  <2>1. pc[r] \in {"tag", "orphan"} /\ image' = [image EXCEPT ![TagOf(Current(r))] = context[r]]
    BY <1>1 DEF Tag
  <2>2. Current(r) \in Defined(r)
    BY <2>1, DefinedTyped DEF KnownInv, TaskFits, InLoop
  <2> QED BY <2>1, <2>2 DEF KnownInv, DataTyped
<1>2. CASE ~Tag(r)
  BY <1>2 DEF Work, WriteArchive, Extract, Load, Prepare, Build, Start, Finish, Succeed
<1> QED BY <1>1, <1>2

\* Of a request that works by its own manifest, the process it works on.
LEMMA OwnCurrent ==
    ASSUME KnownInv, NEW q \in Requests, pc[q] \in {"tag", "orphan", "start"}, Own(q)
    PROVE  Current(q) \in KeysOf(input[q]) /\ Defined(q) = KeysOf(input[q])
           /\ TagOf(Current(q)) \in Tags
<1>1. defs[q] = Definitions(input[q].manifest)
  BY DEF Own, Unpacks
<1>2. Defined(q) = KeysOf(input[q])
  BY <1>1 DEF Defined, KeysOf
<1>3. todo[q] # <<>>
  BY DEF KnownInv, TaskFits
<1>4. Current(q) \in Defined(q) /\ Current(q) \in Keys
  BY <1>3, DefinedTyped DEF InLoop, Current
<1> QED BY <1>2, <1>4, NamesTyped

LEMMA OwnOther ==
    ASSUME KnownInv, NEW r \in Requests, Work(r), NEW q \in Requests \ {r}, Own(q),
           InFlight(q) => FileOf(q) # FileOf(r) /\ Away(q, r)
    PROVE  Own(q)'
<1>1. /\ pc'[q] = pc[q] /\ input'[q] = input[q] /\ defs'[q] = defs[q] /\ todo'[q] = todo[q]
      /\ context'[q] = context[q] /\ FileOf(q)' = FileOf(q)
  BY OthersKeep DEF KnownInv, FileOf
<1>2. q \notin hit' => q \notin hit
  BY WorkMoves DEF Judged
<1>3. CASE InFlight(q)
  <2>1. FileOf(q) \in Files
    BY <1>3, FileOfTyped DEF InFlight, Active, InHandler, InTask
  <2>2. archive'[FileOf(q)] = archive[FileOf(q)] /\ folder'[FileOf(q)] = folder[FileOf(q)]
    BY <1>3, <2>1, WorkOwnFile
  <2>3. ASSUME pc[q] = "start" PROVE image'[TagOf(Current(q))'] = image[TagOf(Current(q))]
    <3>1. TagOf(Current(q))' = TagOf(Current(q))
      BY <1>1 DEF TagOf, Current, Key
    <3>2. Current(q) \in KeysOf(input[q]) /\ TagOf(Current(q)) \in Tags
      BY <2>3, OwnCurrent
    <3>3. \A k \in Defined(r) : TagOf(k) # TagOf(Current(q))
      BY <1>3, <3>2 DEF Away, ShareTag
    <3> QED BY <3>1, <3>2, <3>3, WorkOwnTag
  <2> QED BY <1>1, <1>2, <2>2, <2>3 DEF Own
<1>4. CASE ~InFlight(q)
  <2>1. pc[q] \notin Unpacks \cup {"write", "extract", "orphan"}
    BY <1>4 DEF InFlight, Active, InHandler, InTask, Unpacks
  <2> QED BY <1>1, <2>1 DEF Own, Unpacks
<1> QED BY <1>3, <1>4

LEMMA OwnFolder ==
    ASSUME NEW r, pc[r] \in Unpacks, Own(r)
    PROVE  folder[FileOf(r)] # NoFolder
<1>1. PICK t : folder[FileOf(r)] = [code |-> {r}, toml |-> t]
  BY DEF Own
<1>2. folder[FileOf(r)].code = {r} /\ NoFolder.code = {}
  BY <1>1 DEF NoFolder
<1> QED BY <1>2

\* The manifest that it loads is the one it uploaded.
LEMMA OwnLoaded ==
    ASSUME KnownInv, NEW r \in Requests, pc[r] = "load", Own(r)
    PROVE  Loaded(r) = input[r].manifest /\ folder[FileOf(r)] # NoFolder
<1> DEFINE m == input[r].manifest
<1>1. input[r] \in Inputs /\ r # "none"
  BY FileOfTyped, UploadsAssumption DEF Source
<1>2. folder[FileOf(r)] = [code |-> {r}, toml |-> IF m.present THEN r ELSE "none"]
  BY DEF Own, Unpacks
<1>3. folder[FileOf(r)] # NoFolder
  BY OwnFolder DEF Unpacks
<1>4. CASE m.present
  BY <1>1, <1>2, <1>3, <1>4 DEF Loaded
<1>5. CASE ~m.present
  <2>1. folder[FileOf(r)].toml = "none"
    BY <1>2, <1>5
  <2>2. m = Bare
    BY <1>1, <1>5, UploadsAssumption
  <2> QED BY <1>3, <2>1, <2>2 DEF Loaded
<1> QED BY <1>4, <1>5

LEMMA OwnSelf ==
    ASSUME KnownInv, NEW r \in Requests, Work(r), Own(r)
    PROVE  Own(r)'
<1> DEFINE f == FileOf(r)
           m == input[r].manifest
           it == [code |-> {r}, toml |-> IF m.present THEN r ELSE "none"]
<1>0. f \in Files /\ input[r] \in Inputs /\ r # "none" /\ r \in Source /\ Base # r
  <2>1. pc[r] # "idle"
    BY WorkMoves DEF Moves, InHandler, InTask
  <2> QED BY <2>1, FileOfTyped, UploadsAssumption DEF Source
<1>1. input' = input /\ f' = f /\ (r \notin hit' => r \notin hit)
  BY WorkMoves DEF Moves, Judged, FileOf
<1>2. (pc'[r] \in {"failed", "lost"}) => Own(r)'
  BY DEF Own, Unpacks
<1> USE DEF KnownInv, TasksTyped, DataTyped
<1> HIDE DEF f, m, it
<1>3. CASE WriteArchive(r)
  <2>1. pc[r] = "write" /\ pc'[r] = "extract" /\ folder'[f] = folder[f] /\ archive[f] = {} /\ folder[f] = NoFolder
    BY <1>3 DEF WriteArchive, Goto, KeepFolder, Own, f
  <2>2. \/ archive' \in {[archive EXCEPT ![f] = {r}], [archive EXCEPT ![f] = @ \cup {r}]}
        \/ r \in hit' /\ archive' = archive
    BY <1>3 DEF WriteArchive, Fault, f
  <2>3. archive'[f] \subseteq {r} /\ (r \notin hit' => archive'[f] = {r})
    BY <1>0, <2>1, <2>2
  <2> QED BY <1>1, <2>1, <2>3 DEF Own, Unpacks, f
<1>4. CASE Extract(r)
  <2>1. pc[r] = "extract" /\ archive[f] \subseteq {r} /\ folder[f] = NoFolder
    BY <1>4 DEF Extract, Own, f
  <2>2. CASE pc' = [pc EXCEPT ![r] = "failed"]
    BY <1>2, <2>2
  <2>3. ASSUME NEW W \in (SUBSET archive[f]) \ {{}}, pc' = [pc EXCEPT ![r] = "load"],
               folder' \in Unpacked(r, W)
        PROVE  Own(r)'
    <3>1. W = {r} /\ pc'[r] = "load"
      BY <2>1, <2>3
    <3> DEFINE present == {s \in W : input[s].manifest.present}
    <3>2. PICK t : /\ t \in IF present = {} THEN {folder[f].toml} ELSE present
                   /\ folder' = [folder EXCEPT ![f] = [code |-> @.code \cup W, toml |-> t]]
      BY <2>3 DEF Unpacked, f
    <3>3. t = IF m.present THEN r ELSE "none"
      <4>1. CASE m.present
        <5>1. present = {r}
          BY <3>1, <4>1 DEF m
        <5> QED BY <3>2, <4>1, <5>1
      <4>2. CASE ~m.present
        <5>1. present = {}
          BY <3>1, <4>2 DEF m
        <5> QED BY <2>1, <3>2, <4>2, <5>1 DEF NoFolder
      <4> QED BY <4>1, <4>2
    <3>4. folder'[f] = it
      BY <1>0, <2>1, <3>1, <3>2, <3>3 DEF NoFolder, it
    <3> QED BY <1>1, <3>1, <3>4 DEF Own, Unpacks, f, it, m
  <2> QED BY <1>4, <2>2, <2>3 DEF Extract, Goto, f
<1>5. CASE Load(r)
  <2>1. pc[r] = "load" /\ folder[f] = it
    BY <1>5 DEF Load, Own, Unpacks, f, it, m
  <2>2. Loaded(r) = m
    BY <1>5, OwnLoaded DEF Load, m
  <2>3. CASE pc' = [pc EXCEPT ![r] = "failed"]
    BY <1>2, <2>3
  <2>4. CASE /\ pc' = [pc EXCEPT ![r] = "prepare"] /\ Valid(m) /\ folder' = folder
             /\ defs' = [defs EXCEPT ![r] = Definitions(m)]
    <3>1. pc'[r] = "prepare" /\ folder'[f] = it /\ defs'[r] = Definitions(m)
      BY <2>1, <2>4
    <3> QED BY <1>1, <2>4, <3>1 DEF Own, Unpacks, f, it, m
  <2> QED BY <1>5, <2>2, <2>3, <2>4 DEF Load, Goto, Fail, KeepFolder
<1>6. CASE Prepare(r)
  <2>1. /\ pc[r] = "prepare" /\ folder[f] = it /\ defs' = defs
        /\ Valid(m) /\ defs[r] = Definitions(m)
    BY <1>6 DEF Prepare, Own, Unpacks, f, it, m
  <2>2. CASE pc' = [pc EXCEPT ![r] = "failed"]
    BY <1>2, <2>2
  <2>3. CASE pc' = [pc EXCEPT ![r] = "build"] /\ folder' = folder
    BY <1>1, <2>1, <2>3 DEF Own, Unpacks, f, it, m
  <2> QED BY <1>6, <2>2, <2>3 DEF Prepare, Goto, Fail, KeepFolder
<1>7. CASE Build(r)
  <2>1. /\ pc[r] = "build" /\ folder[f] = it /\ defs' = defs
        /\ Valid(m) /\ defs[r] = Definitions(m)
    BY <1>7 DEF Build, Own, Unpacks, f, it, m
  <2>2. CASE pc' = [pc EXCEPT ![r] = "failed"]
    BY <1>2, <2>2
  <2>3. CASE pc' = [pc EXCEPT ![r] = "tag"] /\ folder' = folder
             /\ context' = [context EXCEPT ![r] = folder[f].code]
    <3>1. pc'[r] = "tag" /\ context'[r] = {r} /\ folder'[f] = it
      BY <2>1, <2>3 DEF it
    <3> QED BY <1>1, <2>1, <3>1 DEF Own, Unpacks, f, it, m
  <2> QED BY <1>7, <2>2, <2>3 DEF Build, Broken, Goto, Fail, KeepFolder, f
<1>8. CASE Tag(r)
  <2>1. /\ pc[r] \in {"tag", "orphan"} /\ UNCHANGED <<defs, todo, folder>> /\ context[r] = {r}
        /\ Valid(m) /\ defs[r] = Definitions(m)
        /\ image' = [image EXCEPT ![TagOf(Current(r))] = context[r]]
    BY <1>8 DEF Tag, Own, Unpacks, f, it, m, KeepFolder
  <2>2. CASE pc[r] = "orphan"
    <3>1. pc' = [pc EXCEPT ![r] = "lost"]
      BY <1>8, <2>2 DEF Tag, Goto
    <3> QED BY <1>2, <3>1
  <2>3. CASE pc[r] = "tag"
    <3>1. pc'[r] = "start"
      BY <1>8, <2>3 DEF Tag, Goto
    <3>2. folder[f] = it
      BY <2>3 DEF Own, Unpacks, f, it, m
    <3>3. TagOf(Current(r)) \in Tags
      BY <2>3, OwnCurrent
    <3>4. TagOf(Current(r))' = TagOf(Current(r))
      BY <1>1, <2>1 DEF TagOf, Current, Key
    <3>5. image'[TagOf(Current(r))'] = {r}
      BY <2>1, <3>3, <3>4
    <3> QED BY <1>1, <2>1, <3>1, <3>2, <3>5 DEF Own, Unpacks, f, it, m
  <2> QED BY <2>1, <2>2, <2>3
<1>9. CASE Start(r)
  <2>1. /\ pc[r] = "start" /\ folder[f] = it /\ defs' = defs
        /\ Valid(m) /\ defs[r] = Definitions(m)
    BY <1>9 DEF Start, Own, Unpacks, f, it, m
  <2>2. CASE pc' = [pc EXCEPT ![r] = "failed"]
    BY <1>2, <2>2
  <2>3. ASSUME NEW to \in {"finish", "build"}, pc' = [pc EXCEPT ![r] = to], folder' = folder
        PROVE  Own(r)'
    BY <1>1, <2>1, <2>3 DEF Own, Unpacks, f, it, m
  <2> QED BY <1>9, <2>2, <2>3 DEF Start, Broken, Goto, Fail, KeepFolder
<1>10. CASE Finish(r)
  <2>1. pc'[r] = "ok" /\ defs' = defs /\ Valid(m) /\ defs[r] = Definitions(m)
    BY <1>10 DEF Finish, Succeed, Goto, Own, Unpacks, m
  <2> QED BY <1>1, <2>1 DEF Own, Unpacks, f, m
<1> QED BY <1>3, <1>4, <1>5, <1>6, <1>7, <1>8, <1>9, <1>10 DEF Work

LEMMA OwnWork ==
    ASSUME KnownInv, ApartInv, OwnInv, NEW r \in Requests, Work(r)
    PROVE  OwnInv'
<1>1. TasksTyped
  BY DEF KnownInv
<1>2. met \subseteq met'
  BY WorkObserved DEF Touch
<1>3. ASSUME NEW q \in Requests, q \notin met' PROVE Own(q)'
  <2>1. q \notin met /\ Own(q) /\ Apart(q)
    BY <1>2, <1>3 DEF OwnInv, ApartInv
  <2>2. CASE q = r
    BY <2>1, <2>2, OwnSelf
  <2>3. CASE q # r
    BY <1>1, <2>1, <2>3, WorkFlies, OwnOther DEF Apart
  <2> QED BY <2>2, <2>3
<1>4. RunsItsCode'
  <2> SUFFICES ASSUME NEW n \in Names, cont'[n].by \in Source \ met' PROVE cont'[n].code = {cont'[n].by}
    BY DEF RunsItsCode
  <2>1. CASE cont'[n] = cont[n]
    BY <1>2, <2>1 DEF OwnInv, RunsItsCode
  <2>2. CASE cont'[n] = NoContainer
    BY <2>2, UploadsAssumption DEF NoContainer
  <2>3. ASSUME Start(r), cont' = [cont EXCEPT ![NameOf(Current(r))] = [by |-> r, code |-> image[TagOf(Current(r))]]],
               cont'[n] # cont[n]
        PROVE  cont'[n].code = {cont'[n].by}
    <3>1. cont'[n] = [by |-> r, code |-> image[TagOf(Current(r))]]
      BY <2>3 DEF KnownInv, DataTyped
    <3>2. r \notin met /\ pc[r] = "start"
      BY <1>2, <2>3, <3>1 DEF Start
    <3>3. image[TagOf(Current(r))] = {r}
      BY <3>2 DEF OwnInv, Own
    <3> QED BY <3>1, <3>3
  <2>4. \/ cont'[n] \in {cont[n], NoContainer}
        \/ Start(r) /\ cont' = [cont EXCEPT ![NameOf(Current(r))] = [by |-> r, code |-> image[TagOf(Current(r))]]]
    BY DEF Work, WriteArchive, Extract, Load, Prepare, Build, Tag, Start, Finish, Succeed
  <2> QED BY <2>1, <2>2, <2>3, <2>4
<1> QED BY <1>3, <1>4 DEF OwnInv

LEMMA OwnReceive ==
    ASSUME KnownInv, ApartInv, OwnInv, NEW r \in Requests, Receive(r)
    PROVE  OwnInv'
<1>1. PICK i \in Inputs : Arrive(r, i) /\ archive' = [archive EXCEPT ![i.file] = {}]
  BY DEF Receive
<1> DEFINE others == {s \in Requests : InFlight(s) /\ (i.file = input[s].file \/ Clash(i, s))}
<1>2. /\ pc[r] = "idle" /\ i.file \in Files
      /\ UNCHANGED <<defs, todo, old, context, folder, image, cont, rows>>
      /\ \A s \in Requests \ {r} : pc'[s] = pc[s] /\ input'[s] = input[s]
      /\ input'[r] = i /\ pc'[r] = "write"
      /\ hit \subseteq hit'
      /\ met \cup others \subseteq met' /\ (folder[i.file] # NoFolder => r \in met')
  BY <1>1 DEF Arrive, Goto, KnownInv, TasksTyped, Source, Files
<1>3. ASSUME NEW q \in Requests, q \notin met' PROVE Own(q)'
  <2>1. CASE q = r
    <3>1. FileOf(q)' = i.file /\ archive'[i.file] = {} /\ folder'[i.file] = NoFolder
      BY <1>1, <1>2, <1>3, <2>1 DEF FileOf, KnownInv, DataTyped
    <3> QED BY <1>2, <2>1, <3>1 DEF Own, Unpacks
  <2>2. CASE q # r
    <3>1. q \notin met /\ Own(q) /\ q \notin others
      BY <1>2, <1>3 DEF OwnInv
    <3>2. UNCHANGED <<pc[q], input[q], defs[q], todo[q], context[q]>> /\ UNCHANGED <<folder, image>>
      BY <1>2, <2>2
    <3>3. FileOf(q)' = FileOf(q) /\ TagOf(Current(q))' = TagOf(Current(q))
      BY <3>2 DEF FileOf, TagOf, Current, Key
    <3>4. CASE InFlight(q)
      <4>1. FileOf(q) \in Files /\ FileOf(q) # i.file
        BY <3>1, <3>4, FileOfTyped DEF FileOf, InFlight, Active, InHandler, InTask
      <4>2. archive'[FileOf(q)] = archive[FileOf(q)]
        BY <1>1, <4>1 DEF KnownInv, DataTyped
      <4> QED BY <1>2, <3>1, <3>2, <3>3, <4>2 DEF Own
    <3>5. CASE ~InFlight(q)
      <4>1. pc[q] \notin Unpacks \cup {"write", "extract", "orphan"}
        BY <3>5 DEF InFlight, Active, InHandler, InTask, Unpacks
      <4> QED BY <3>1, <3>2, <3>3, <4>1 DEF Own, Unpacks
    <3> QED BY <3>4, <3>5
  <2> QED BY <2>1, <2>2
<1>4. RunsItsCode'
  BY <1>2 DEF OwnInv, RunsItsCode
<1> QED BY <1>3, <1>4 DEF OwnInv

LEMMA OwnCrash ==
    ASSUME KnownInv, OwnInv, Crash
    PROVE  OwnInv'
<1>1. TasksTyped
  BY DEF KnownInv
<1>2. /\ UNCHANGED <<input, defs, todo, old, context, archive, folder, image, cont, rows>>
      /\ UNCHANGED <<met, settled>>
      /\ hit' = hit \cup {s \in Requests : Active(s)}
  BY DEF Crash, Fault, Observers
<1>3. ASSUME NEW q \in Requests, q \notin met' PROVE Own(q)'
  <2>1. FileOf(q)' = FileOf(q) /\ TagOf(Current(q))' = TagOf(Current(q)) /\ Own(q)
    BY <1>2, <1>3 DEF FileOf, TagOf, Current, Key, OwnInv
  <2>2. CASE ~Active(q)
    <3>1. pc'[q] = pc[q]
      BY <1>1, <2>2, CrashMoves
    <3> QED BY <1>2, <2>1, <3>1 DEF Own
  <2>3. CASE pc[q] = "tag"
    <3>1. pc'[q] = "orphan"
      BY <1>1, <2>3, CrashMoves
    <3> QED BY <1>2, <2>1, <2>3, <3>1 DEF Own, Unpacks
  <2>4. CASE Active(q) /\ pc[q] # "tag"
    <3>1. pc'[q] = "lost"
      BY <1>1, <2>4, CrashMoves
    <3> QED BY <3>1 DEF Own, Unpacks
  <2> QED BY <2>2, <2>3, <2>4
<1> QED BY <1>2, <1>3 DEF OwnInv, RunsItsCode

LEMMA OwnNext ==
    ASSUME KnownInv, ApartInv, OwnInv, [Next]_vars
    PROVE  OwnInv'
<1>1. ASSUME UNCHANGED <<taskVars, archive, folder, image, met>>, hit \subseteq hit' PROVE \A q \in Requests \ met' : Own(q)'
  BY <1>1 DEF OwnInv, Own, taskVars, FileOf, TagOf, Current, Key
<1>2. ASSUME NEW n \in Names, Lose(n) PROVE OwnInv'
  <2>1. UNCHANGED <<taskVars, archive, folder, image, met>> /\ hit \subseteq hit'
    BY <1>2 DEF Lose, KeepFolder, Observers, Fault
  <2>2. RunsItsCode'
    <3>1. \A l \in Names : cont'[l] = cont[l] \/ cont'[l].by = "none"
      BY <1>2 DEF Lose, KnownInv, DataTyped, NoContainer
    <3> QED BY <2>1, <3>1, UploadsAssumption DEF OwnInv, RunsItsCode
  <2> QED BY <1>1, <2>1, <2>2 DEF OwnInv
<1>3. ASSUME NEW w \in rows, Recreate(w) PROVE OwnInv'
  <2>1. UNCHANGED <<taskVars, archive, folder, image, met>> /\ hit \subseteq hit'
    BY <1>3 DEF Recreate, KeepFolder, Observers, NoFault
  <2>2. RunsItsCode'
    <3>1. \A l \in Names : cont'[l] = cont[l] \/ cont'[l].by = "watcher"
      BY <1>3 DEF Recreate, KnownInv, DataTyped
    <3> QED BY <2>1, <3>1, UploadsAssumption DEF OwnInv, RunsItsCode
  <2> QED BY <1>1, <2>1, <2>2 DEF OwnInv
<1>4. CASE UNCHANGED vars
  <2>1. UNCHANGED <<taskVars, archive, folder, image, met>> /\ hit \subseteq hit' /\ cont' = cont
    BY <1>4 DEF vars
  <2> QED BY <1>1, <2>1 DEF OwnInv, RunsItsCode
<1> QED BY <1>2, <1>3, <1>4, OwnWork, OwnReceive, OwnCrash, StepKinds DEF Next

LEMMA OwnInit ==
    ASSUME Init PROVE ApartInv /\ OwnInv
<1>1. \A r \in Requests : pc[r] = "idle"
  BY DEF Init
<1>2. ObserversTyped /\ met = {}
  BY DEF Init, ObserversTyped, Source
<1>3. \A r \in Requests : Apart(r) /\ Own(r)
  BY <1>1 DEF Apart, InFlight, Active, InHandler, InTask, Own, Unpacks
<1>4. RunsItsCode
  <2>1. \A n \in Names : cont[n] \in {[by |-> Base, code |-> {Base}], NoContainer}
    BY DEF Init
  <2> QED BY <2>1, UploadsAssumption DEF RunsItsCode, NoContainer
<1> QED BY <1>2, <1>3, <1>4 DEF ApartInv, OwnInv

\* The archive, the folder, the image and the container hand the code on by names that
\* anybody may use; a request that nobody met is nevertheless the only one whose code its
\* containers run.
THEOREM ItsCodeRuns == Spec => []RunsItsCode
<1> DEFINE inv == KnownInv /\ ApartInv /\ OwnInv
<1>1. Init => inv
  BY InitKnown, OwnInit
<1>2. inv /\ [Next]_vars => inv'
  BY KnownNext, ApartNext, OwnNext
<1>3. inv => RunsItsCode
  BY DEF OwnInv
<1> QED BY <1>1, <1>2, <1>3, PTL DEF Spec

-----------------------------------------------------------------------------
(* What the steps of a request leave alone                                  *)

LEMMA SetStatusRows ==
    ASSUME NEW K, NEW s, NEW w
    PROVE  /\ w.key \notin K => (w \in SetStatus(K, s) <=> w \in rows)
           /\ w \in SetStatus(K, s) /\ w.key \in K => w = [key |-> w.key, status |-> s]
           /\ w.key \in K /\ w = [key |-> w.key, status |-> s] => w \in SetStatus(K, s)
BY DEF SetStatus

\* Rows of other applications.
LEMMA RowsAlone ==
    ASSUME KnownInv, NEW r \in Requests, Work(r), NEW w, ~SameApp(input[r], w.key)
    PROVE  w \in rows' <=> w \in rows
<1>0. pc[r] # "idle"
  BY WorkMoves DEF Moves, InHandler, InTask
<1>1. \A k \in Defined(r) \cup Found(r) : SameApp(input[r], k)
  BY <1>0, DefinedTyped
<1>2. ASSUME NEW K, \A k \in K : SameApp(input[r], k), NEW s, rows' = SetStatus(K, s)
      PROVE  w \in rows' <=> w \in rows
  BY <1>2, SetStatusRows
<1>3. SameApp(input[r], Current(r))
  BY DEF Current, Key, SameApp
<1>4. CASE Prepare(r)
  <2> DEFINE listed == {u.key : u \in RowsOf(r)}
  <2>1. \/ rows' = (rows \ RowsOf(r)) \cup {[key |-> k, status |-> "building"] : k \in Defined(r)}
        \/ rows' = {u \in rows : u.key \notin Defined(r)}
                      \cup {[key |-> k, status |-> "building"] : k \in Defined(r)}
        \/ rows' = rows \ RowsOf(r)
        \/ rows' = SetStatus(listed \cap Defined(r), "building")
    BY <1>4 DEF Prepare
  <2>2. w \notin RowsOf(r)
    BY DEF RowsOf
  <2>3. \A k \in Defined(r) : w # [key |-> k, status |-> "building"]
    BY <1>1
  <2>4. w.key \notin Defined(r)
    BY <1>1
  <2>5. CASE rows' = SetStatus(listed \cap Defined(r), "building")
    <3>1. \A k \in listed \cap Defined(r) : SameApp(input[r], k)
      BY <1>1
    <3> HIDE DEF listed
    <3> QED BY <1>2, <2>5, <3>1
  <2> QED BY <2>1, <2>2, <2>3, <2>4, <2>5
<1>5. CASE Finish(r)
  <2>1. rows' = {u \in rows : u.key \notin {Key(input[r], p) : p \in old[r] \ ToSet(defs[r])}}
    BY <1>5 DEF Finish
  <2>2. \A p : w.key # Key(input[r], p)
    BY DEF Key, SameApp
  <2> QED BY <2>1, <2>2
<1>6. CASE \E s : rows' = SetStatus({Current(r)} \cap {u.key : u \in rows}, s)
  <2>1. \A k \in {Current(r)} \cap {u.key : u \in rows} : SameApp(input[r], k)
    BY <1>3
  <2> QED BY <1>2, <1>6, <2>1
<1>7. CASE rows' = rows
  BY <1>7
<1> QED BY <1>4, <1>5, <1>6, <1>7 DEF Work, WriteArchive, Extract, Load, Build, Broken, Tag, Start

\* Containers that have no name of it.
Gone(r) == {w.key : w \in RowsOf(r)} \cup Found(r)

LEMMA ContainersAlone ==
    ASSUME KnownInv, NEW r \in Requests, Work(r), NEW n \in Names
    PROVE  \/ cont'[n] = cont[n]
           \/ /\ cont'[n] = NoContainer
              /\ \E l \in Gone(r) : NameOf(l) = n
           \/ Start(r) /\ CanStart(r) /\ n = NameOf(Current(r))
<1> USE DEF KnownInv, DataTyped
<1>1. CASE Prepare(r)
  <2> DEFINE stopped == {NameOf(k) : k \in {w.key : w \in RowsOf(r)}}
  <2>1. \/ cont' = cont
        \/ cont' = [m \in Names |-> IF m \in stopped THEN NoContainer ELSE cont[m]]
    BY <1>1 DEF Prepare
  <2>2. n \in stopped => \E l \in Gone(r) : NameOf(l) = n
    BY DEF Gone
  <2> QED BY <2>1, <2>2
<1>2. CASE Start(r)
  <2>1. \/ cont' = cont
        \/ /\ CanStart(r)
           /\ \E c : cont' = [cont EXCEPT ![NameOf(Current(r))] = c]
    BY <1>2 DEF Start
  <2> QED BY <1>2, <2>1
<1>3. CASE Finish(r)
  BY <1>3 DEF Finish, Gone, Found
<1>4. CASE cont' = cont
  BY <1>4
<1> QED BY <1>1, <1>2, <1>3, <1>4 DEF Work, WriteArchive, Extract, Load, Build, Tag

\* What a request for something else leaves alone.
LEMMA OthersAlone ==
    ASSUME KnownInv, NEW r \in Requests, Work(r), NEW i \in Inputs,
           ~SameApp(i, input[r]), ~ShareTag(KeysOf(i), Defined(r))
    PROVE  /\ \A w : SameApp(i, w.key) => (w \in rows' <=> w \in rows)
           /\ \A k \in KeysOf(i) :
                 /\ image'[TagOf(k)] = image[TagOf(k)]
                 /\ \/ cont'[NameOf(k)] = cont[NameOf(k)]
                    \/ /\ cont'[NameOf(k)] = NoContainer
                       /\ \E l \in Gone(r) : NameOf(l) = NameOf(k)
<1>0. pc[r] # "idle"
  BY WorkMoves DEF Moves, InHandler, InTask
<1>1. ASSUME NEW w, SameApp(i, w.key) PROVE w \in rows' <=> w \in rows
  <2>1. ~SameApp(input[r], w.key)
    BY <1>1 DEF SameApp
  <2> QED BY <2>1, RowsAlone
<1>2. ASSUME NEW k \in KeysOf(i)
      PROVE  /\ image'[TagOf(k)] = image[TagOf(k)]
             /\ \/ cont'[NameOf(k)] = cont[NameOf(k)]
                \/ /\ cont'[NameOf(k)] = NoContainer
                   /\ \E l \in Gone(r) : NameOf(l) = NameOf(k)
  <2>1. k \in Keys /\ TagOf(k) \in Tags /\ NameOf(k) \in Names
    BY KeyFacts, NamesTyped
  <2>2. \A l \in Defined(r) : TagOf(l) # TagOf(k)
    BY DEF ShareTag
  <2>3. image'[TagOf(k)] = image[TagOf(k)]
    BY <2>1, <2>2, WorkOwnTag
  <2>4. ~(Start(r) /\ CanStart(r) /\ NameOf(k) = NameOf(Current(r)))
    <3> SUFFICES ASSUME Start(r), NameOf(k) = NameOf(Current(r)) PROVE FALSE
      OBVIOUS
    <3>1. todo[r] # <<>> /\ pc[r] = "start"
      BY DEF KnownInv, TaskFits, Start
    <3>2. Current(r) \in Defined(r) /\ Current(r) \in Keys
      BY <1>0, <3>1, DefinedTyped DEF InLoop
    <3>3. TagOf(k) = TagOf(Current(r))
      BY <2>1, <3>2, SameName
    <3> QED BY <2>2, <3>2, <3>3
  <2> QED BY <2>1, <2>3, <2>4, ContainersAlone
<1> QED BY <1>1, <1>2

\* What is recreated under a name is what its tag names.
LEMMA RecreateTag ==
    ASSUME KnownInv, NEW w \in rows, Recreate(w), NEW k \in Keys
    PROVE  \/ cont'[NameOf(k)] = cont[NameOf(k)]
           \/ /\ cont'[NameOf(k)] = [by |-> "watcher", code |-> image[TagOf(k)]]
              /\ NameOf(w.key) = NameOf(k) /\ cont[NameOf(k)] = NoContainer
<1>1. NameOf(k) \in Names /\ w.key \in Keys
  BY NamesTyped DEF KnownInv, DataTyped, Row
<1>2. cont' = [cont EXCEPT ![NameOf(w.key)] = [by |-> "watcher", code |-> image[TagOf(w.key)]]]
      /\ cont[NameOf(w.key)] = NoContainer
  BY DEF Recreate
<1>3. CASE NameOf(w.key) = NameOf(k)
  <2>1. TagOf(w.key) = TagOf(k)
    BY <1>1, <1>3, SameName
  <2> QED BY <1>1, <1>2, <1>3, <2>1 DEF KnownInv, DataTyped
<1>4. CASE NameOf(w.key) # NameOf(k)
  BY <1>1, <1>2, <1>4 DEF KnownInv, DataTyped
<1> QED BY <1>3, <1>4

-----------------------------------------------------------------------------
(* A request in its loop, and after it                                      *)

\* The processes that its task has started.
Made(r) == {Key(input[r], p) : p \in ToSet(defs[r]) \ ToSet(todo[r])}

Runs(k, r) == image[TagOf(k)] = {r} /\ cont[NameOf(k)].code \in {{}, {r}}

LoopRows(r) ==
    /\ \A k \in Defined(r) : \E w \in rows : w.key = k
    /\ \A w \in rows : SameApp(input[r], w.key) =>
          /\ w.key \in Defined(r) \cup Found(r)
          /\ w.key \in Made(r) => w.status = "running"
          /\ w.key \in Defined(r) \ Made(r) => w.status = "building"

Looped(r) == pc[r] \in InLoop => /\ IsInjective(todo[r])
                                 /\ LoopRows(r)
                                 /\ \A k \in Made(r) : Runs(k, r)

Settled(r) ==
    /\ Came(r)
    /\ r \in Requests => pc[r] = "ok"
    /\ \A s \in Requests : InFlight(s) => Away(r, s)
    /\ \A w : SameApp(input[r], w.key) =>
          (w \in rows <=> \E k \in KeysOf(input[r]) : w = [key |-> k, status |-> "running"])
    /\ \A k \in KeysOf(input[r]) : Runs(k, r)

LoopInv    == \A r \in Requests \ met : Looped(r)
SettledInv == \A r \in settled : Settled(r)

\* In its loop an undisturbed request works on the processes of its own manifest.
LEMMA OwnLoop ==
    ASSUME KnownInv, NEW r \in Requests, pc[r] \in InLoop, Own(r)
    PROVE  /\ Defined(r) = KeysOf(input[r]) /\ input[r] \in Inputs
           /\ Made(r) \subseteq Defined(r) /\ Defined(r) \subseteq Keys
           /\ Valid(input[r].manifest)
<1>1. defs[r] = Definitions(input[r].manifest) /\ Valid(input[r].manifest)
  BY DEF Own, Unpacks, InLoop
<1>2. Defined(r) = KeysOf(input[r])
  BY <1>1 DEF Defined, KeysOf
<1>3. input[r] \in Inputs
  BY FileOfTyped DEF InLoop
<1>4. Made(r) \subseteq Defined(r) /\ Defined(r) \subseteq Keys
  BY <1>2, <1>3, KeyFacts DEF Made, Defined
<1> QED BY <1>1, <1>2, <1>3, <1>4

\* Others do not disturb what runs.
LEMMA RunsStays ==
    ASSUME KnownInv, NEW s \in Requests, Work(s), NEW i \in Inputs, NEW r,
           ~SameApp(i, input[s]), ~ShareTag(KeysOf(i), Defined(s)), NEW k \in KeysOf(i), Runs(k, r)
    PROVE  Runs(k, r)'
<1>1. /\ image'[TagOf(k)] = image[TagOf(k)]
      /\ cont'[NameOf(k)] \in {cont[NameOf(k)], NoContainer}
  BY OthersAlone
<1> QED BY <1>1 DEF Runs, NoContainer

LEMMA RecreateRuns ==
    ASSUME KnownInv, NEW w \in rows, Recreate(w), NEW k \in Keys, NEW r, Runs(k, r)
    PROVE  Runs(k, r)'
<1>1. image' = image
  BY DEF Recreate
<1>2. CASE cont'[NameOf(k)] = cont[NameOf(k)]
  BY <1>1, <1>2 DEF Runs
<1>3. CASE cont'[NameOf(k)] = [by |-> "watcher", code |-> image[TagOf(k)]]
  BY <1>1, <1>3 DEF Runs
<1> QED BY <1>2, <1>3, RecreateTag

LEMMA LoseRuns ==
    ASSUME KnownInv, NEW n \in Names, Lose(n), NEW k \in Keys, NEW r, Runs(k, r)
    PROVE  Runs(k, r)'
<1>1. image' = image /\ cont' = [cont EXCEPT ![n] = NoContainer]
  BY DEF Lose
<1>2. cont'[NameOf(k)] \in {cont[NameOf(k)], NoContainer}
  BY <1>1, NamesTyped DEF KnownInv, DataTyped
<1> QED BY <1>1, <1>2 DEF Runs, NoContainer

LEMMA LoopedOther ==
    ASSUME KnownInv, NEW s \in Requests, Work(s), NEW r \in Requests \ {s}, Looped(r), Own(r), Apart(r)
    PROVE  Looped(r)'
<1>1. /\ pc'[r] = pc[r] /\ input'[r] = input[r] /\ defs'[r] = defs[r] /\ todo'[r] = todo[r]
      /\ old'[r] = old[r]
  BY OthersKeep DEF KnownInv
<1> SUFFICES ASSUME pc[r] \in InLoop PROVE Looped(r)'
  BY <1>1 DEF Looped
<1>2. Defined(r)' = Defined(r) /\ Found(r)' = Found(r) /\ Made(r)' = Made(r)
  BY <1>1 DEF Defined, Found, Made
<1>3. InFlight(s) /\ InFlight(r)
  BY WorkFlies DEF KnownInv, InFlight, Active, InTask, InLoop
<1>4. ~SameApp(input[r], input[s]) /\ ~ShareTag(KeysOf(input[r]), Defined(s))
  BY <1>3 DEF Apart, Away, ShareTag
<1>5. Defined(r) = KeysOf(input[r]) /\ input[r] \in Inputs /\ Made(r) \subseteq Defined(r) /\ Defined(r) \subseteq Keys
  BY OwnLoop
<1>6. \A w : SameApp(input[r], w.key) => (w \in rows' <=> w \in rows)
  BY <1>4, <1>5, OthersAlone
<1>7. LoopRows(r)'
  <2>1. \A k \in Defined(r) : SameApp(input[r], k)
    BY DefinedTyped DEF InLoop
  <2>2. LoopRows(r)
    BY DEF Looped
  <2> QED BY <1>1, <1>2, <1>6, <2>1, <2>2 DEF LoopRows
<1>8. \A k \in Made(r) : Runs(k, r)'
  BY <1>4, <1>5, RunsStays DEF Looped
<1> QED BY <1>1, <1>2, <1>7, <1>8 DEF Looped

LEMMA MarkRows ==
    ASSUME NEW K, NEW s, rows' = SetStatus(K, s), \A k \in K : \E w \in rows : w.key = k
    PROVE  /\ \A w \in rows : \E u \in rows' : u.key = w.key
           /\ \A u \in rows' : /\ \E w \in rows : w.key = u.key
                               /\ u.key \in K => u.status = s
                               /\ u.key \notin K => u \in rows
<1>1. ASSUME NEW w \in rows PROVE \E u \in rows' : u.key = w.key
  <2>1. CASE w.key \in K
    <3>1. [key |-> w.key, status |-> s] \in rows'
      BY <2>1 DEF SetStatus
    <3> QED BY <3>1
  <2>2. CASE w.key \notin K
    BY <2>2 DEF SetStatus
  <2> QED BY <2>1, <2>2
<1>2. ASSUME NEW u \in rows' PROVE /\ \E w \in rows : w.key = u.key
                                   /\ u.key \in K => u.status = s
                                   /\ u.key \notin K => u \in rows
  <2>1. CASE \E k \in K : u = [key |-> k, status |-> s]
    BY <2>1
  <2>2. CASE u \in rows /\ u.key \notin K
    BY <2>2
  <2> QED BY <2>1, <2>2 DEF SetStatus
<1> QED BY <1>1, <1>2

LEMMA LoopedPrepare ==
    ASSUME KnownInv, NEW r \in Requests, Prepare(r), Own(r)
    PROVE  Looped(r)'
<1>0. pc[r] = "prepare" /\ input' = input /\ defs' = defs /\ input[r] \in Inputs
  BY FileOfTyped DEF Prepare
<1>1. CASE pc'[r] \notin InLoop
  BY <1>1 DEF Looped
<1>2. CASE pc'[r] \in InLoop
  <2> DEFINE deploy == input[r].kind = "deploy"
             listed == {w.key : w \in RowsOf(r)}
  <2>1. /\ rows' = (IF deploy THEN rows \ RowsOf(r) ELSE {w \in rows : w.key \notin Defined(r)})
                       \cup {[key |-> k, status |-> "building"] : k \in Defined(r)}
        /\ todo' = [todo EXCEPT ![r] = defs[r]]
        /\ old' = [old EXCEPT ![r] = IF deploy THEN {} ELSE {k.process : k \in listed}]
    <3>1. ~Fail(r)
      BY <1>2 DEF Fail, Goto, InLoop, KnownInv, TasksTyped
    <3> QED BY <3>1 DEF Prepare
  <2>2. todo'[r] = defs[r] /\ old'[r] = (IF deploy THEN {} ELSE {k.process : k \in listed})
    BY <2>1 DEF KnownInv, TasksTyped
  <2>3. IsInjective(todo'[r])
    BY <1>0, <2>2 DEF Own, Unpacks, Valid
  <2>4. Made(r)' = {} /\ Defined(r)' = Defined(r)
    BY <1>0, <2>2 DEF Made, Defined
  <2>5. ASSUME NEW k \in Defined(r) PROVE \E w \in rows' : w.key = k
    <3>1. [key |-> k, status |-> "building"] \in rows'
      BY <2>1
    <3> QED BY <3>1
  <2>6. ASSUME NEW w \in rows', SameApp(input[r], w.key)
        PROVE  /\ w.key \in Defined(r) \cup Found(r)'
               /\ w.key \in Defined(r) => w.status = "building"
    <3>1. CASE \E k \in Defined(r) : w = [key |-> k, status |-> "building"]
      BY <3>1
    <3>2. CASE w \in rows
      <4>1. w \in RowsOf(r)
        BY <2>6, <3>2 DEF RowsOf
      <4>2. CASE \E k \in Defined(r) : w = [key |-> k, status |-> "building"]
        BY <4>2
      <4>3. CASE ~deploy /\ w.key \notin Defined(r)
        <5>1. w.key.process \in old'[r]
          BY <2>2, <4>1, <4>3
        <5>2. w.key \in Keys
          BY <3>2 DEF KnownInv, DataTyped, Row
        <5>3. w.key = Key(input[r], w.key.process)
          BY <2>6, <5>2, NamesTyped DEF Key, SameApp
        <5> QED BY <1>0, <4>3, <5>1, <5>3 DEF Found
      <4> QED BY <2>1, <4>1, <4>2, <4>3
    <3> HIDE DEF deploy
    <3>3. w \in rows \/ \E k \in Defined(r) : w = [key |-> k, status |-> "building"]
      <4>1. RowsOf(r) \subseteq rows
        BY DEF RowsOf
      <4> QED BY <2>1
    <3> QED BY <3>1, <3>2, <3>3
  <2>7. LoopRows(r)'
    BY <1>0, <2>4, <2>5, <2>6 DEF LoopRows
  <2> QED BY <2>3, <2>4, <2>7 DEF Looped
<1> QED BY <1>1, <1>2

LEMMA LoopedTag ==
    ASSUME KnownInv, NEW r \in Requests, Tag(r), Own(r), Looped(r)
    PROVE  Looped(r)'
<1>1. CASE pc[r] = "orphan"
  <2>1. pc'[r] = "lost"
    BY <1>1 DEF Tag, Goto, KnownInv, TasksTyped
  <2> QED BY <2>1 DEF Looped, InLoop
<1>2. CASE pc[r] = "tag"
  <2>1. /\ UNCHANGED <<input, defs, todo, old, cont, rows>> /\ context[r] = {r}
        /\ image' = [image EXCEPT ![TagOf(Current(r))] = {r}]
    BY <1>2 DEF Tag, Own
  <2>2. Defined(r)' = Defined(r) /\ Found(r)' = Found(r) /\ Made(r)' = Made(r)
    BY <2>1 DEF Defined, Found, Made
  <2>3. pc[r] \in InLoop
    BY <1>2 DEF InLoop
  <2>4. ASSUME NEW k \in Made(r) PROVE Runs(k, r)'
    <3>1. TagOf(k) \in Tags /\ Runs(k, r)
      BY <2>3, OwnLoop, NamesTyped DEF Looped
    <3>2. image'[TagOf(k)] = {r}
      BY <2>1, <3>1 DEF Runs, KnownInv, DataTyped
    <3> QED BY <2>1, <3>1, <3>2 DEF Runs
  <2> QED BY <2>1, <2>2, <2>3, <2>4 DEF Looped, LoopRows
<1> QED BY <1>1, <1>2 DEF Tag

LEMMA LoopedStart ==
    ASSUME KnownInv, NEW r \in Requests, Start(r), Own(r), Looped(r)
    PROVE  Looped(r)'
<1>1. CASE pc'[r] \notin InLoop
  BY <1>1 DEF Looped
<1>2. CASE pc'[r] \in InLoop
  <2> DEFINE n == NameOf(Current(r))
             K == {Current(r)} \cap {w.key : w \in rows}
  <2>1. /\ cont' = [cont EXCEPT ![n] = [by |-> r, code |-> image[TagOf(Current(r))]]]
        /\ rows' = SetStatus(K, "running")
        /\ todo' = [todo EXCEPT ![r] = Tail(@)]
        /\ UNCHANGED <<input, defs, old, image>> /\ pc[r] = "start"
    <3>1. ~Fail(r)
      BY <1>2 DEF Fail, Goto, InLoop, KnownInv, TasksTyped
    <3> QED BY <3>1 DEF Start, Broken
  <2>2. /\ pc[r] \in InLoop /\ todo[r] # <<>> /\ todo[r] \in Seq(Procs)
        /\ ToSet(todo[r]) \subseteq ToSet(defs[r]) /\ ToSet(defs[r]) \subseteq Procs
        /\ todo'[r] = Tail(todo[r])
    BY <2>1, ToSetIn DEF InLoop, KnownInv, TasksTyped, TaskFits
  <2>3. /\ ToSet(todo[r]) = {Head(todo[r])} \cup ToSet(Tail(todo[r]))
        /\ IsInjective(Tail(todo[r])) /\ Head(todo[r]) \notin ToSet(Tail(todo[r]))
    BY <2>2, HeadTail DEF Looped
  <2>4. LoopRows(r) /\ \A k \in Made(r) : Runs(k, r)
    BY <2>2 DEF Looped
  <2>5. Defined(r) \subseteq Keys /\ Made(r) \subseteq Defined(r) /\ Current(r) \in Defined(r)
        /\ input[r] \in Inputs
    <3>1. Defined(r) \subseteq Keys /\ Made(r) \subseteq Defined(r) /\ input[r] \in Inputs
      BY <2>2, OwnLoop
    <3>2. Current(r) \in Defined(r)
      BY <2>1, <2>2, DefinedTyped
    <3> QED BY <3>1, <3>2
  <2>6. Defined(r)' = Defined(r) /\ Found(r)' = Found(r)
    BY <2>1 DEF Defined, Found
  <2>7. Made(r)' = Made(r) \cup {Current(r)}
    BY <2>1, <2>2, <2>3 DEF Made, Current
  <2>8. K = {Current(r)} /\ \A k \in K : \E w \in rows : w.key = k
    BY <2>4, <2>5 DEF LoopRows
  <2> HIDE DEF K
  <2>9. /\ \A w \in rows : \E u \in rows' : u.key = w.key
        /\ \A u \in rows' : /\ \E w \in rows : w.key = u.key
                            /\ u.key \in K => u.status = "running"
                            /\ u.key \notin K => u \in rows
    BY <2>1, <2>8, MarkRows
  <2>10. \A k \in Defined(r) : \E u \in rows' : u.key = k
    BY <2>4, <2>9 DEF LoopRows
  <2>11. ASSUME NEW u \in rows', SameApp(input[r], u.key)
         PROVE  /\ u.key \in Defined(r) \cup Found(r)
                /\ u.key \in Made(r)' => u.status = "running"
                /\ u.key \in Defined(r) \ Made(r)' => u.status = "building"
    <3>1. CASE u.key = Current(r)
      BY <2>5, <2>7, <2>8, <2>9, <3>1
    <3>2. CASE u.key # Current(r)
      <4>1. u \in rows
        BY <2>8, <2>9, <3>2
      <4> QED BY <2>4, <2>7, <2>11, <3>2, <4>1 DEF LoopRows
    <3> QED BY <3>1, <3>2
  <2>12. LoopRows(r)'
    BY <2>1, <2>6, <2>10, <2>11 DEF LoopRows
  <2>13. ASSUME NEW k \in Made(r)' PROVE Runs(k, r)'
    <3>1. image[TagOf(Current(r))] = {r}
      BY <2>1 DEF Own
    <3>2. NameOf(k) \in Names /\ k \in Keys /\ Current(r) \in Keys
      BY <2>5, <2>7, NamesTyped
    <3>3. CASE NameOf(k) = n
      <4>1. TagOf(k) = TagOf(Current(r))
        BY <3>2, <3>3, SameName
      <4>2. cont'[NameOf(k)] = [by |-> r, code |-> image[TagOf(Current(r))]]
        BY <2>1, <3>2, <3>3 DEF KnownInv, DataTyped
      <4> QED BY <2>1, <3>1, <4>1, <4>2 DEF Runs
    <3>4. CASE NameOf(k) # n
      <4>1. k \in Made(r)
        BY <2>7, <3>4
      <4>2. cont'[NameOf(k)] = cont[NameOf(k)]
        BY <2>1, <3>2, <3>4 DEF KnownInv, DataTyped
      <4> QED BY <2>1, <2>4, <4>1, <4>2 DEF Runs
    <3> QED BY <3>3, <3>4
  <2> QED BY <2>2, <2>3, <2>12, <2>13 DEF Looped
<1> QED BY <1>1, <1>2

LEMMA LoopedSelf ==
    ASSUME KnownInv, NEW r \in Requests, Work(r), Own(r), Looped(r)
    PROVE  Looped(r)'
<1>1. CASE WriteArchive(r) \/ Extract(r) \/ Load(r) \/ Finish(r)
  <2>1. pc'[r] \notin InLoop
    BY <1>1 DEF WriteArchive, Extract, Load, Finish, Succeed, Fail, Goto, InLoop, KnownInv, TasksTyped
  <2> QED BY <2>1 DEF Looped
<1>2. CASE Build(r)
  <2>1. CASE pc'[r] \notin InLoop
    BY <2>1 DEF Looped
  <2>2. CASE pc'[r] \in InLoop
    <3>1. rows' = rows
      <4>1. ~Fail(r)
        BY <2>2 DEF Fail, Goto, InLoop, KnownInv, TasksTyped
      <4> QED BY <1>2, <4>1 DEF Build, Broken
    <3>2. UNCHANGED <<input, defs, todo, old, image, cont>> /\ pc[r] \in InLoop
      BY <1>2 DEF Build, InLoop
    <3> QED BY <3>1, <3>2 DEF Looped, LoopRows, Defined, Found, Made, Runs
  <2> QED BY <2>1, <2>2
<1> QED BY <1>1, <1>2, LoopedPrepare, LoopedTag, LoopedStart DEF Work

LEMMA LoopNext ==
    ASSUME KnownInv, ApartInv, OwnInv, LoopInv, [Next]_vars
    PROVE  LoopInv'
<1>1. ASSUME NEW r \in Requests, Receive(r), NEW q \in Requests \ met' PROVE Looped(q)'
  <2>1. /\ pc'[r] = "write" /\ met \subseteq met' /\ UNCHANGED <<defs, todo, old, image, cont, rows>>
        /\ \A s \in Requests \ {r} : pc'[s] = pc[s] /\ input'[s] = input[s]
    BY <1>1 DEF Receive, Arrive, Goto, KnownInv, TasksTyped
  <2>2. CASE q = r
    BY <2>1, <2>2 DEF Looped, InLoop
  <2>3. CASE q # r
    <3>1. Looped(q)
      BY <1>1, <2>1 DEF LoopInv
    <3> QED BY <2>1, <2>3, <3>1 DEF Looped, LoopRows, Defined, Found, Made, Runs
  <2> QED BY <2>2, <2>3
<1>2. ASSUME NEW r \in Requests, Work(r), NEW q \in Requests \ met' PROVE Looped(q)'
  <2>1. q \notin met
    BY <1>2, WorkObserved DEF Touch
  <2>2. Looped(q) /\ Own(q) /\ Apart(q)
    BY <2>1 DEF LoopInv, OwnInv, ApartInv
  <2> QED BY <1>2, <2>2, LoopedSelf, LoopedOther
<1>3. ASSUME Crash, NEW q \in Requests \ met' PROVE Looped(q)'
  <2>1. pc'[q] \notin InLoop
    <3>1. CASE Active(q)
      BY <1>3, <3>1, CrashMoves DEF InLoop, KnownInv
    <3>2. CASE ~Active(q)
      <4>1. pc'[q] = pc[q]
        BY <1>3, <3>2, CrashMoves DEF KnownInv
      <4> QED BY <3>2, <4>1 DEF Active, InTask, InLoop
    <3> QED BY <3>1, <3>2
  <2> QED BY <2>1 DEF Looped
<1>4. ASSUME UNCHANGED <<taskVars, met, rows>>, NEW q \in Requests \ met',
             \A k \in Keys : Runs(k, q) => Runs(k, q)'
      PROVE  Looped(q)'
  <2>1. pc'[q] = pc[q] /\ UNCHANGED <<input, defs, todo, old, met, rows>>
    BY <1>4 DEF taskVars
  <2>2. Defined(q)' = Defined(q) /\ Found(q)' = Found(q) /\ Made(q)' = Made(q)
    BY <2>1 DEF Defined, Found, Made
  <2>3. Looped(q) /\ Own(q)
    BY <1>4 DEF LoopInv, OwnInv
  <2>4. pc[q] \in InLoop => Made(q) \subseteq Keys
    BY <2>3, OwnLoop
  <2> QED BY <1>4, <2>1, <2>2, <2>3, <2>4 DEF Looped, LoopRows
<1>5. ASSUME NEW n \in Names, Lose(n), NEW q \in Requests \ met' PROVE Looped(q)'
  <2>1. UNCHANGED <<taskVars, met, rows>>
    BY <1>5 DEF Lose, Observers
  <2> QED BY <1>4, <1>5, <2>1, LoseRuns
<1>6. ASSUME NEW w \in rows, Recreate(w), NEW q \in Requests \ met' PROVE Looped(q)'
  <2>1. UNCHANGED <<taskVars, met, rows>>
    BY <1>6 DEF Recreate, Observers
  <2> QED BY <1>4, <1>6, <2>1, RecreateRuns
<1>7. ASSUME UNCHANGED vars, NEW q \in Requests \ met' PROVE Looped(q)'
  <2>1. UNCHANGED <<taskVars, met, rows>> /\ \A k \in Keys : Runs(k, q) => Runs(k, q)'
    BY <1>7 DEF vars, Runs
  <2> QED BY <1>4, <1>7, <2>1
<1> QED BY <1>1, <1>2, <1>3, <1>5, <1>6, <1>7, StepKinds DEF Next, LoopInv

-----------------------------------------------------------------------------
(* A request that has succeeded                                             *)

\* What a finished request leaves.
LEMMA FinishSettles ==
    ASSUME KnownInv, NEW r \in Requests, Finish(r), Own(r), Apart(r), Looped(r)
    PROVE  Settled(r)'
<1> DEFINE gone == {Key(input[r], p) : p \in old[r] \ ToSet(defs[r])}
<1>1. /\ pc[r] = "finish" /\ pc' = [pc EXCEPT ![r] = "ok"] /\ UNCHANGED <<input, defs, todo, old, image>>
      /\ cont' = [n \in Names |-> IF \E k \in gone : NameOf(k) = n THEN NoContainer ELSE cont[n]]
      /\ rows' = {w \in rows : w.key \notin gone}
  BY DEF Finish, Succeed, Goto
<1>2. Defined(r) = KeysOf(input[r]) /\ input[r] \in Inputs /\ Defined(r) \subseteq Keys
      /\ pc[r] \in InLoop
  BY <1>1, OwnLoop DEF InLoop
<1>3. Made(r) = Defined(r)
  BY <1>1 DEF Made, Defined, KnownInv, TaskFits, ToSet
<1>4. LoopRows(r) /\ \A k \in Defined(r) : Runs(k, r)
  BY <1>2, <1>3 DEF Looped
<1>5. gone \cap Defined(r) = {} /\ (Found(r) \ gone) \subseteq Defined(r)
  BY <1>2, KeyFacts DEF Found, Defined
<1> HIDE DEF gone
<1>6. Came(r)' /\ pc'[r] = "ok"
  BY <1>1, <1>2 DEF Came, Source, KnownInv, TasksTyped
<1>7. ASSUME NEW s \in Requests, InFlight(s)' PROVE Away(r, s)'
  <2>1. s # r
    BY <1>6, <1>7 DEF InFlight, Active, InHandler, InTask
  <2>2. InFlight(s) /\ InFlight(r)
    BY <1>1, <1>7, <2>1 DEF InFlight, Active, InTask, KnownInv, TasksTyped
  <2>3. Away(r, s)
    BY <2>1, <2>2 DEF Apart
  <2> QED BY <1>1, <2>3 DEF Away, Defined
<1>8. ASSUME NEW w, SameApp(input[r], w.key)
      PROVE  w \in rows' <=> \E k \in KeysOf(input[r]) : w = [key |-> k, status |-> "running"]
  <2>1. ASSUME w \in rows' PROVE \E k \in KeysOf(input[r]) : w = [key |-> k, status |-> "running"]
    <3>1. w \in rows /\ w.key \notin gone
      BY <1>1, <2>1
    <3>2. w.key \in Defined(r)
      BY <1>4, <1>5, <1>8, <3>1 DEF LoopRows
    <3>3. w.status = "running"
      BY <1>3, <1>4, <1>8, <3>1, <3>2 DEF LoopRows
    <3>4. w = [key |-> w.key, status |-> w.status]
      BY <3>1 DEF KnownInv, DataTyped, Row
    <3> QED BY <1>2, <3>2, <3>3, <3>4
  <2>2. ASSUME NEW k \in KeysOf(input[r]), w = [key |-> k, status |-> "running"] PROVE w \in rows'
    <3>1. PICK u \in rows : u.key = k
      BY <1>2, <1>4 DEF LoopRows
    <3>2. u.status = "running"
      BY <1>2, <1>3, <1>4, <1>8, <2>2, <3>1 DEF LoopRows
    <3>3. u = [key |-> u.key, status |-> u.status]
      BY <3>1 DEF KnownInv, DataTyped, Row
    <3>4. w \in rows /\ w.key \notin gone
      BY <1>2, <1>5, <2>2, <3>1, <3>2, <3>3
    <3> QED BY <1>1, <3>4
  <2> QED BY <2>1, <2>2
<1>9. ASSUME NEW k \in KeysOf(input[r]) PROVE Runs(k, r)'
  <2>1. Runs(k, r) /\ NameOf(k) \in Names
    BY <1>2, <1>4, NamesTyped
  <2>2. cont'[NameOf(k)] \in {cont[NameOf(k)], NoContainer}
    BY <1>1, <2>1
  <2> QED BY <1>1, <2>1, <2>2 DEF Runs, NoContainer
<1> QED BY <1>1, <1>6, <1>7, <1>8, <1>9 DEF Settled

LEMMA SettledWork ==
    ASSUME KnownInv, SettledInv, NEW s \in Requests, Work(s), NEW r \in settled \cap settled'
    PROVE  Settled(r)'
<1>1. Settled(r) /\ input' = input /\ input[r] \in Inputs
  BY WorkMoves DEF SettledInv, Moves, Settled, Came
<1>2. r # s /\ InFlight(s)
  <2>1. InFlight(s)
    BY WorkFlies DEF KnownInv
  <2> QED BY <1>1, <2>1 DEF Settled, InFlight, Active, InHandler, InTask
<1>3. ~SameApp(input[r], input[s]) /\ ~ShareTag(KeysOf(input[r]), Defined(s))
  BY <1>1, <1>2 DEF Settled, Away, ShareTag
<1>4. \A w : SameApp(input[r], w.key) => (w \in rows' <=> w \in rows)
  BY <1>1, <1>3, OthersAlone
<1>5. \A k \in KeysOf(input[r]) : Runs(k, r)'
  BY <1>1, <1>3, RunsStays DEF Settled
<1>6. ASSUME NEW q \in Requests, InFlight(q)' PROVE Away(r, q)'
  <2>1. Away(r, q)
    BY <1>1, <1>6, WorkFlies DEF Settled, KnownInv
  <2>2. CASE defs'[q] = defs[q]
    BY <1>1, <2>1, <2>2 DEF Away, Defined
  <2>3. CASE defs'[q] # defs[q]
    <3>1. q = s /\ defs'[q] = Definitions(Loaded(s)) /\ Touch(s, Loaded(s))
      BY <2>3, WorkObserved DEF KnownInv, TasksTyped
    <3>2. ~ShareTag({Key(input[q], p) : p \in ToSet(Definitions(Loaded(s)))}, KeysOf(input[r]))
      BY <3>1 DEF Touch
    <3>3. ~ShareTag(KeysOf(input[r]), Defined(q)')
      BY <1>1, <3>1, <3>2, ShareTagSym DEF Defined
    <3> QED BY <1>1, <2>1, <3>3 DEF Away, ShareTag
  <2> QED BY <2>2, <2>3
<1>7. Came(r)' /\ (r \in Requests => pc'[r] = "ok")
  <2>1. Came(r)'
    BY <1>1, CameStays DEF KnownInv, Settled
  <2>2. r \in Requests => pc'[r] = pc[r]
    BY <1>2, OthersKeep DEF KnownInv
  <2> QED BY <1>1, <2>1, <2>2 DEF Settled
<1>8. \A w : SameApp(input[r], w.key) =>
          (w \in rows' <=> \E k \in KeysOf(input[r]) : w = [key |-> k, status |-> "running"])
  BY <1>1, <1>4 DEF Settled
<1> QED BY <1>1, <1>5, <1>6, <1>7, <1>8 DEF Settled

LEMMA SettledReceive ==
    ASSUME KnownInv, SettledInv, NEW s \in Requests, Receive(s), NEW r \in settled'
    PROVE  Settled(r)'
<1>1. PICK i \in Inputs : Arrive(s, i)
  BY DEF Receive
<1>2. /\ pc[s] = "idle" /\ UNCHANGED <<defs, image, cont, rows>>
      /\ input' = [input EXCEPT ![s] = i] /\ input'[s] = i
      /\ pc' = [pc EXCEPT ![s] = "write"]
      /\ r \in settled /\ ~SameApp(i, input[r]) /\ ~ShareTag(KeysOf(i), KeysOf(input[r]))
  BY <1>1 DEF Arrive, Goto, KnownInv, TasksTyped, Source
<1>3. Settled(r) /\ r # s /\ r \in Source /\ input'[r] = input[r]
  BY <1>2 DEF SettledInv, Settled, Came, KnownInv, TasksTyped
<1>4. Came(r)' /\ (r \in Requests => pc'[r] = "ok")
  BY <1>2, <1>3 DEF Settled, Came
<1>5. ASSUME NEW q \in Requests, InFlight(q)' PROVE Away(r, q)'
  <2>1. CASE q = s
    <3>1. Defined(q)' = {}
      BY <1>2, <2>1 DEF Defined, KnownInv, TaskFits, ToSet
    <3>2. ~SameApp(input[r], i) /\ ~ShareTag(KeysOf(input[r]), KeysOf(i))
      BY <1>2, ShareTagSym, SameAppSym
    <3>3. ~ShareTag(KeysOf(input[r]), KeysOf(i) \cup {})
      BY <3>2
    <3> QED BY <1>2, <1>3, <2>1, <3>1, <3>2, <3>3 DEF Away
  <2>2. CASE q # s
    <3>1. pc'[q] = pc[q] /\ input'[q] = input[q] /\ defs'[q] = defs[q]
      BY <1>2, <2>2
    <3>2. Away(r, q)
      BY <1>3, <1>5, <3>1 DEF Settled, InFlight, Active
    <3> QED BY <1>3, <3>1, <3>2 DEF Away, Defined
  <2> QED BY <2>1, <2>2
<1> QED BY <1>2, <1>3, <1>4, <1>5 DEF Settled, Runs

LEMMA SettledNext ==
    ASSUME KnownInv, ApartInv, OwnInv, LoopInv, SettledInv, [Next]_vars
    PROVE  SettledInv'
<1>1. ASSUME NEW s \in Requests, Work(s), NEW r \in settled' PROVE Settled(r)'
  <2>1. CASE r \in settled
    BY <1>1, <2>1, SettledWork
  <2>2. CASE r \notin settled
    <3>1. Finish(s) /\ r = s /\ s \notin met
      BY <1>1, <2>2, WorkObserved DEF Touch, Finish, Succeed
    <3>2. Own(s) /\ Apart(s) /\ Looped(s)
      BY <3>1 DEF OwnInv, ApartInv, LoopInv
    <3> QED BY <3>1, <3>2, FinishSettles
  <2> QED BY <2>1, <2>2
<1>2. ASSUME Crash, NEW r \in settled' PROVE Settled(r)'
  <2>1. r \in settled /\ UNCHANGED <<input, defs, image, cont, rows>> /\ Settled(r)
    BY <1>2 DEF Crash, Observers, SettledInv
  <2>2. r \in Requests => pc'[r] = "ok"
    <3>1. r \in Requests => ~Active(r) /\ pc[r] = "ok"
      BY <2>1 DEF Settled, Active, InHandler, InTask
    <3> QED BY <1>2, <3>1, CrashMoves DEF KnownInv
  <2>3. Came(r)'
    BY <2>1, <2>2 DEF Settled, Came
  <2>4. ASSUME NEW q \in Requests, InFlight(q)' PROVE InFlight(q)
    <3>1. CASE Active(q)
      BY <3>1 DEF InFlight
    <3>2. CASE ~Active(q)
      <4>1. pc'[q] = pc[q]
        BY <1>2, <3>2, CrashMoves DEF KnownInv
      <4> QED BY <2>4, <4>1 DEF InFlight, Active
    <3> QED BY <3>1, <3>2
  <2> QED BY <2>1, <2>2, <2>3, <2>4 DEF Settled, Away, Defined, Runs
<1>3. ASSUME UNCHANGED <<taskVars, rows, settled>>, NEW r \in settled',
             \A k \in Keys : Runs(k, r) => Runs(k, r)'
      PROVE  Settled(r)'
  <2>1. r \in settled /\ UNCHANGED <<pc, input, defs, rows>> /\ Settled(r)
    BY <1>3 DEF taskVars, SettledInv
  <2>2. KeysOf(input[r]) \subseteq Keys
    BY <2>1, KeyFacts DEF Settled, Came
  <2> QED BY <1>3, <2>1, <2>2 DEF Settled, Came, Away, Defined, InFlight, Active
<1>4. ASSUME NEW n \in Names, Lose(n), NEW r \in settled' PROVE Settled(r)'
  <2>1. UNCHANGED <<taskVars, rows, settled>>
    BY <1>4 DEF Lose, Observers
  <2> QED BY <1>3, <1>4, <2>1, LoseRuns
<1>5. ASSUME NEW w \in rows, Recreate(w), NEW r \in settled' PROVE Settled(r)'
  <2>1. UNCHANGED <<taskVars, rows, settled>>
    BY <1>5 DEF Recreate, Observers
  <2> QED BY <1>3, <1>5, <2>1, RecreateRuns
<1>6. ASSUME UNCHANGED vars, NEW r \in settled' PROVE Settled(r)'
  <2>1. UNCHANGED <<taskVars, rows, settled>> /\ \A k \in Keys : Runs(k, r) => Runs(k, r)'
    BY <1>6 DEF vars, Runs
  <2> QED BY <1>3, <1>6, <2>1
<1> QED BY <1>1, <1>2, <1>4, <1>5, <1>6, SettledReceive, StepKinds DEF Next, SettledInv

LEMMA SettledInit ==
    ASSUME Init PROVE LoopInv /\ SettledInv
<1>1. KnownInv /\ \A r \in Requests : pc[r] = "idle"
  BY InitKnown DEF Init
<1>2. LoopInv
  BY <1>1 DEF LoopInv, Looped, InLoop
<1>3. PICK b \in {Nothing} \cup {i \in Inputs : i.kind = "deploy" /\ Valid(i.manifest)} :
         LET made == IF b = Nothing THEN {} ELSE KeysOf(b) IN
         /\ input = [r \in Source |-> IF r = Base THEN b ELSE Nothing]
         /\ rows = {[key |-> k, status |-> "running"] : k \in made}
         /\ image = [t \in Tags |-> IF \E k \in made : TagOf(k) = t THEN {Base} ELSE {}]
         /\ cont = [n \in Names |-> IF \E k \in made : NameOf(k) = n
                                      THEN [by |-> Base, code |-> {Base}] ELSE NoContainer]
         /\ settled = IF b = Nothing THEN {} ELSE {Base}
  BY DEF Init
<1>4. ASSUME b # Nothing PROVE Settled(Base)
  <2>1. /\ b \in Inputs /\ input[Base] = b /\ Base \notin Requests /\ Base \in Source
        /\ rows = {[key |-> k, status |-> "running"] : k \in KeysOf(b)}
    BY <1>3, <1>4, UploadsAssumption DEF Source
  <2>2. \A k \in KeysOf(b) : TagOf(k) \in Tags /\ NameOf(k) \in Names
    BY <2>1, KeyFacts, NamesTyped
  <2>3. \A k \in KeysOf(b) : image[TagOf(k)] = {Base} /\ cont[NameOf(k)] = [by |-> Base, code |-> {Base}]
    BY <1>3, <1>4, <2>2
  <2>4. \A k \in KeysOf(b) : Runs(k, Base)
    BY <2>3 DEF Runs
  <2>5. \A s \in Requests : ~InFlight(s)
    BY <1>1 DEF InFlight, Active, InHandler, InTask
  <2>6. \A w : w \in rows <=> \E k \in KeysOf(b) : w = [key |-> k, status |-> "running"]
    BY <2>1
  <2> QED BY <2>1, <2>4, <2>5, <2>6 DEF Settled, Came
<1>5. SettledInv
  BY <1>3, <1>4 DEF SettledInv
<1> QED BY <1>2, <1>5

\* Once a request has succeeded undisturbed, its rows, its images and what its containers
\* run stay what it made them, whatever faults there are, whatever the watcher recreates and
\* whoever comes for something else.
THEOREM SettledKeepsItsCode == Spec => []SettledRunsItsCode
<1> DEFINE inv == KnownInv /\ ApartInv /\ OwnInv /\ LoopInv /\ SettledInv
<1>1. Init => inv
  BY InitKnown, OwnInit, SettledInit
<1>2. inv /\ [Next]_vars => inv'
  BY KnownNext, ApartNext, OwnNext, LoopNext, SettledNext
<1>3. inv => SettledRunsItsCode
  <2> SUFFICES ASSUME inv, NEW r \in settled
      PROVE /\ {w \in rows : SameApp(input[r], w.key)} =
                 {[key |-> k, status |-> "running"] : k \in KeysOf(input[r])}
            /\ \A k \in KeysOf(input[r]) : /\ image[TagOf(k)] = {r}
                                           /\ cont[NameOf(k)].code \in {{}, {r}}
    BY DEF SettledRunsItsCode
  <2>1. Settled(r)
    BY DEF SettledInv
  <2>2. \A k \in KeysOf(input[r]) : SameApp(input[r], k)
    BY <2>1, KeyFacts DEF Settled, Came, KeysOf
  <2>3. \A k \in KeysOf(input[r]) : Runs(k, r)
    BY <2>1 DEF Settled
  <2>4. {w \in rows : SameApp(input[r], w.key)} =
                 {[key |-> k, status |-> "running"] : k \in KeysOf(input[r])}
    BY <2>1, <2>2 DEF Settled
  <2> QED BY <2>3, <2>4 DEF Runs
<1> QED BY <1>1, <1>2, <1>3, PTL DEF Spec

-----------------------------------------------------------------------------
(* A request that nothing stands in the way of                              *)

\* No row and no finished task has the name of one of its processes; what has one is what
\* its rows say.
NamesFree(r) ==
    /\ \A k \in KeysOf(input[r]), w \in rows : w.key # k => NameOf(w.key) # NameOf(k)
    /\ \A k \in KeysOf(input[r]), s \in Requests \ {r} :
          InFlight(s) => \A l \in Found(s) : NameOf(l) # NameOf(k)

CanPrepare(r) == \A k \in KeysOf(input[r]) :
    /\ cont[NameOf(k)] # NoContainer => \E w \in rows : w.key = k
    /\ input[r].kind = "update" /\ (\E w \in rows : w.key = k) => cont[NameOf(k)] # NoContainer

CanLoop(r) == \A p \in ToSet(todo[r]) :
    cont[NameOf(Key(input[r], p))] # NoContainer <=> p \in old[r]

Smooth(r) ==
    /\ pc[r] = "failed" => ~Valid(input[r].manifest)
    /\ Active(r) => NamesFree(r)
    /\ pc[r] \in InHandler => CanPrepare(r)
    /\ pc[r] \in InLoop => CanLoop(r)

SmoothInv == \A r \in Requests \ (met \cup hit) : Smooth(r)

\* Two processes of one request have two names.
LEMMA OwnNames ==
    ASSUME NEW i \in Inputs, NEW k \in KeysOf(i), NEW l \in KeysOf(i), NameOf(k) = NameOf(l)
    PROVE  k = l
<1>1. k \in Keys /\ l \in Keys /\ SameApp(i, k) /\ SameApp(i, l)
  BY KeyFacts DEF KeysOf
<1> QED BY <1>1, SameName DEF SameApp

\* A step adds rows only for what its request has loaded.
LEMMA KeysGrow ==
    ASSUME KnownInv, NEW r \in Requests, Work(r), NEW u \in rows'
    PROVE  (\E w \in rows : w.key = u.key) \/ (u.key \in Defined(r) /\ Prepare(r))
<1>1. ASSUME NEW K, NEW s, rows' = SetStatus(K, s), K \subseteq {w.key : w \in rows}
      PROVE  \E w \in rows : w.key = u.key
  BY <1>1, MarkRows
<1>2. CASE Prepare(r)
  <2> DEFINE listed == {w.key : w \in RowsOf(r)}
  <2>1. \/ rows' = (rows \ RowsOf(r)) \cup {[key |-> k, status |-> "building"] : k \in Defined(r)}
        \/ rows' = {w \in rows : w.key \notin Defined(r)}
                      \cup {[key |-> k, status |-> "building"] : k \in Defined(r)}
        \/ rows' = rows \ RowsOf(r)
        \/ rows' = SetStatus(listed \cap Defined(r), "building")
    BY <1>2 DEF Prepare
  <2>2. CASE rows' = SetStatus(listed \cap Defined(r), "building")
    <3>1. listed \cap Defined(r) \subseteq {w.key : w \in rows}
      BY DEF RowsOf
    <3> HIDE DEF listed
    <3> QED BY <1>1, <2>2, <3>1
  <2>3. CASE u \in rows
    BY <2>3
  <2>4. CASE \E k \in Defined(r) : u = [key |-> k, status |-> "building"]
    BY <1>2, <2>4
  <2> QED BY <2>1, <2>2, <2>3, <2>4
<1>3. CASE rows' \subseteq rows
  BY <1>3
<1>4. CASE \E s : rows' = SetStatus({Current(r)} \cap {w.key : w \in rows}, s)
  <2>1. {Current(r)} \cap {w.key : w \in rows} \subseteq {w.key : w \in rows}
    OBVIOUS
  <2> QED BY <1>1, <1>4, <2>1
<1> QED BY <1>2, <1>3, <1>4
    DEF Work, WriteArchive, Extract, Load, Build, Broken, Tag, Start, Finish

LEMMA NamesFreeOther ==
    ASSUME KnownInv, NEW s \in Requests, Work(s), NEW r \in Requests \ {s}, Active(r), Apart(r),
           NamesFree(r)
    PROVE  NamesFree(r)' /\ \A k \in KeysOf(input[r]) : cont'[NameOf(k)] = cont[NameOf(k)]
<1>1. InFlight(s) /\ InFlight(r) /\ input' = input /\ input[r] \in Inputs /\ pc[s] # "idle"
  BY WorkFlies, WorkMoves, FileOfTyped DEF KnownInv, InFlight, Moves, Active, InHandler, InTask
<1>2. ~SameApp(input[r], input[s]) /\ ~ShareTag(KeysOf(input[r]), Defined(s))
  BY <1>1 DEF Apart, Away, ShareTag
<1>3. KeysOf(input[r]) \subseteq Keys /\ Defined(s) \subseteq Keys
      /\ \A k \in KeysOf(input[r]) : SameApp(input[r], k)
  BY <1>1, KeyFacts, DefinedTyped DEF KeysOf
<1>4. \A k \in KeysOf(input[r]), w \in rows : SameApp(input[s], w.key) => NameOf(w.key) # NameOf(k)
  <2>1. \A k \in KeysOf(input[r]), w \in rows : SameApp(input[s], w.key) => w.key # k
    BY <1>2, <1>3 DEF SameApp
  <2> QED BY <2>1 DEF NamesFree
<1>5. ASSUME NEW k \in KeysOf(input[r]), NEW u \in rows', u.key # k PROVE NameOf(u.key) # NameOf(k)
  <2>1. CASE \E w \in rows : w.key = u.key
    BY <1>5, <2>1 DEF NamesFree
  <2>2. CASE u.key \in Defined(s)
    BY <1>2, <1>3, <2>2, SameName DEF ShareTag
  <2> QED BY <2>1, <2>2, KeysGrow
<1>6. ASSUME NEW k \in KeysOf(input[r]), NEW q \in Requests \ {r}, InFlight(q)', NEW l \in Found(q)'
      PROVE  NameOf(l) # NameOf(k)
  <2>1. InFlight(q)
    BY <1>6, WorkFlies DEF KnownInv
  <2>2. CASE old'[q] = old[q]
    BY <1>1, <1>6, <2>1, <2>2 DEF Found, NamesFree
  <2>3. CASE old'[q] # old[q]
    <3>1. q = s /\ Prepare(s)
      <4>1. old' = old \/ (Prepare(s) /\ \E o : old' = [old EXCEPT ![s] = o])
        BY WorkMoves
      <4> QED BY <2>3, <4>1 DEF KnownInv, TasksTyped
    <3>2. old'[s] \in {{}, {w.key.process : w \in RowsOf(s)}}
      <4> DEFINE listed == {w.key : w \in RowsOf(s)}
      <4>1. old' = old \/ old' = [old EXCEPT ![s] = {}]
               \/ old' = [old EXCEPT ![s] = {j.process : j \in listed}]
        BY <3>1 DEF Prepare
      <4>2. {j.process : j \in listed} = {w.key.process : w \in RowsOf(s)}
        OBVIOUS
      <4> HIDE DEF listed
      <4> QED BY <2>3, <3>1, <4>1, <4>2 DEF KnownInv, TasksTyped
    <3>3. PICK w \in RowsOf(s) : l = Key(input[s], w.key.process)
      BY <1>1, <1>6, <3>1, <3>2 DEF Found
    <3>4. w \in rows /\ SameApp(input[s], w.key) /\ w.key \in Keys
      BY <3>3 DEF RowsOf, KnownInv, DataTyped, Row
    <3>5. l = w.key
      BY <3>3, <3>4, NamesTyped DEF Key, SameApp
    <3> QED BY <1>4, <3>4, <3>5
  <2> QED BY <2>2, <2>3
<1>7. ASSUME NEW k \in KeysOf(input[r]) PROVE cont'[NameOf(k)] = cont[NameOf(k)]
  <2>1. ASSUME NEW l \in Gone(s) PROVE NameOf(l) # NameOf(k)
    <3>1. CASE l \in Found(s)
      BY <1>1, <3>1 DEF NamesFree
    <3>2. CASE l \in {w.key : w \in RowsOf(s)}
      BY <1>4, <3>2 DEF RowsOf
    <3> QED BY <3>1, <3>2 DEF Gone
  <2> QED BY <1>1, <1>2, <2>1, OthersAlone
<1> QED BY <1>1, <1>5, <1>6, <1>7 DEF NamesFree

LEMMA LoopKeys ==
    ASSUME KnownInv, NEW r \in Requests, pc[r] \in InLoop, Own(r)
    PROVE  \A p \in ToSet(todo[r]) : p \in ToSet(defs[r]) /\ Key(input[r], p) \in KeysOf(input[r])
<1>1. Defined(r) = KeysOf(input[r])
  BY OwnLoop
<1>2. ToSet(todo[r]) \subseteq ToSet(defs[r])
  BY DEF KnownInv, TaskFits
<1> QED BY <1>1, <1>2 DEF Defined

LEMMA SmoothOther ==
    ASSUME KnownInv, NEW s \in Requests, Work(s), NEW r \in Requests \ {s}, Apart(r), Own(r), Looped(r),
           Smooth(r)
    PROVE  Smooth(r)'
<1>1. /\ pc'[r] = pc[r] /\ input'[r] = input[r] /\ todo'[r] = todo[r] /\ old'[r] = old[r]
  BY OthersKeep DEF KnownInv
<1>2. CASE ~Active(r)
  BY <1>1, <1>2 DEF Smooth, Active, InTask, InLoop
<1>3. CASE Active(r)
  <2>1. NamesFree(r)' /\ \A k \in KeysOf(input[r]) : cont'[NameOf(k)] = cont[NameOf(k)]
    BY <1>3, NamesFreeOther DEF Smooth
  <2>2. input[r] \in Inputs /\ InFlight(s) /\ InFlight(r)
    BY <1>3, WorkFlies, FileOfTyped DEF KnownInv, Active, InHandler, InTask, InFlight
  <2>3. ~SameApp(input[r], input[s]) /\ ~ShareTag(KeysOf(input[r]), Defined(s))
    BY <2>2 DEF Apart, Away, ShareTag
  <2>4. ASSUME NEW k \in KeysOf(input[r]) PROVE (\E w \in rows' : w.key = k) <=> (\E w \in rows : w.key = k)
    <3>1. SameApp(input[r], k)
      BY <2>2, KeyFacts DEF KeysOf
    <3>2. \A w : SameApp(input[r], w.key) => (w \in rows' <=> w \in rows)
      BY <2>2, <2>3, OthersAlone
    <3> QED BY <3>1, <3>2
  <2>5. CanPrepare(r) => CanPrepare(r)'
    BY <1>1, <2>1, <2>4 DEF CanPrepare
  <2>6. ASSUME pc[r] \in InLoop, CanLoop(r) PROVE CanLoop(r)'
    <3>1. \A p \in ToSet(todo[r]) : Key(input[r], p) \in KeysOf(input[r])
      BY <2>6, LoopKeys
    <3> QED BY <1>1, <2>1, <2>6, <3>1 DEF CanLoop
  <2> QED BY <1>1, <2>1, <2>5, <2>6 DEF Smooth, Active
<1> QED BY <1>2, <1>3

\* No step of its own fails an undisturbed request that has a valid manifest.
LEMMA SmoothFails ==
    ASSUME KnownInv, NEW r \in Requests, Work(r), Own(r), Smooth(r), r \notin hit', pc'[r] = "failed"
    PROVE  ~Valid(input[r].manifest)
<1>1. r \notin hit /\ \A R : Fault(R) => r \notin R
  BY WorkMoves DEF Judged, Fault
<1> USE DEF KnownInv, TasksTyped
<1>2. CASE WriteArchive(r)
  BY <1>2 DEF WriteArchive, Goto
<1>3. CASE Extract(r)
  <2>1. pc[r] = "extract" /\ archive[FileOf(r)] = {r}
    BY <1>1, <1>3 DEF Extract, Own
  <2>2. Cardinality(archive[FileOf(r)]) = 1
    BY <2>1, FS_Singleton
  <2>3. ~Goto(r, "load")
    BY DEF Goto
  <2> QED BY <1>1, <1>3, <2>2, <2>3 DEF Extract
<1>4. CASE Load(r)
  <2>1. Loaded(r) = input[r].manifest /\ folder[FileOf(r)] # NoFolder
    BY <1>4, OwnLoaded DEF Load
  <2>2. ~Goto(r, "prepare")
    BY DEF Goto
  <2> QED BY <1>4, <2>1, <2>2 DEF Load
<1>5. CASE Prepare(r)
  BY <1>1, <1>5 DEF Prepare, Goto
<1>6. CASE Build(r)
  <2>1. folder[FileOf(r)] # NoFolder
    BY <1>6, OwnFolder DEF Build, Unpacks
  <2>2. ~Goto(r, "tag")
    BY DEF Goto
  <2> QED BY <1>1, <1>6, <2>1, <2>2 DEF Build
<1>7. CASE Tag(r)
  <2>1. CASE pc[r] = "tag"
    BY <1>7, <2>1 DEF Tag, Goto
  <2>2. CASE pc[r] = "orphan"
    BY <1>7, <2>2 DEF Tag, Goto
  <2> QED BY <1>7, <2>1, <2>2 DEF Tag
<1>8. CASE Start(r)
  <2>1. pc[r] = "start" /\ todo[r] # <<>> /\ todo[r] \in Seq(Procs)
    BY <1>8 DEF Start, TaskFits
  <2>2. Head(todo[r]) \in ToSet(todo[r])
    BY <2>1, HeadTail
  <2>3. CanStart(r)
    BY <2>1, <2>2 DEF Smooth, InLoop, CanLoop, CanStart, Current
  <2>4. ~Goto(r, "finish") /\ ~Goto(r, "build")
    BY DEF Goto
  <2>5. ~Goto(r, IF LastOne(r) THEN "finish" ELSE "build")
    <3>1. CASE LastOne(r)
      BY <2>4, <3>1
    <3>2. CASE ~LastOne(r)
      BY <2>4, <3>2
    <3> QED BY <3>1, <3>2
  <2> QED BY <1>1, <1>8, <2>3, <2>5 DEF Start
<1>9. CASE Finish(r)
  BY <1>9 DEF Finish, Succeed, Goto
<1> QED BY <1>2, <1>3, <1>4, <1>5, <1>6, <1>7, <1>8, <1>9 DEF Work

LEMMA SmoothPrepare ==
    ASSUME KnownInv, NEW r \in Requests, Prepare(r), Own(r), Smooth(r), pc'[r] # "failed"
    PROVE  pc'[r] = "build" /\ CanLoop(r)'
<1> DEFINE deploy == input[r].kind = "deploy"
           listed == {w.key : w \in RowsOf(r)}
<1>1. pc[r] = "prepare" /\ input' = input /\ input[r] \in Inputs /\ CanPrepare(r)
  BY FileOfTyped DEF Prepare, Smooth, InHandler
<1>2. /\ pc' = [pc EXCEPT ![r] = "build"]
      /\ cont' = IF deploy THEN [n \in Names |-> IF n \in {NameOf(k) : k \in listed} THEN NoContainer ELSE cont[n]]
                           ELSE cont
      /\ todo' = [todo EXCEPT ![r] = defs[r]]
      /\ old' = [old EXCEPT ![r] = IF deploy THEN {} ELSE {k.process : k \in listed}]
  <2>1. ~Fail(r)
    BY DEF Fail, Goto, KnownInv, TasksTyped
  <2> QED BY <2>1 DEF Prepare, Goto
<1>3. pc'[r] = "build" /\ todo'[r] = defs[r] /\ old'[r] = (IF deploy THEN {} ELSE {k.process : k \in listed})
  BY <1>2 DEF KnownInv, TasksTyped
<1>4. \A p \in ToSet(defs[r]) : Key(input[r], p) \in KeysOf(input[r])
  BY <1>1 DEF Own, Unpacks, KeysOf
<1>5. ASSUME NEW p \in ToSet(defs[r])
      PROVE  cont'[NameOf(Key(input[r], p))] # NoContainer <=> p \in old'[r]
  <2> DEFINE k == Key(input[r], p)
  <2>1. k \in KeysOf(input[r]) /\ k \in Keys /\ NameOf(k) \in Names /\ SameApp(input[r], k) /\ k.process = p
    BY <1>1, <1>4, KeyFacts, NamesTyped
  <2>2. /\ cont[NameOf(k)] # NoContainer => k \in listed
        /\ input[r].kind = "update" /\ k \in listed => cont[NameOf(k)] # NoContainer
    BY <1>1, <2>1 DEF CanPrepare, RowsOf
  <2>3. CASE deploy
    BY <1>2, <1>3, <2>1, <2>2, <2>3
  <2>4. CASE ~deploy
    <3>1. input[r].kind = "update"
      BY <1>1, <2>4, UploadsAssumption
    <3>2. ASSUME NEW l \in listed, l.process = p PROVE l = k
      <4>1. SameApp(input[r], l) /\ l \in Keys
        BY DEF RowsOf, KnownInv, DataTyped, Row
      <4> QED BY <3>2, <4>1, NamesTyped DEF Key, SameApp
    <3>3. p \in old'[r] <=> k \in listed
      BY <1>3, <2>1, <2>4, <3>2
    <3> HIDE DEF k, listed
    <3> QED BY <1>2, <2>2, <2>4, <3>1, <3>3 DEF k
  <2> QED BY <2>3, <2>4
<1> QED BY <1>1, <1>3, <1>5 DEF CanLoop

LEMMA SmoothStart ==
    ASSUME KnownInv, NEW r \in Requests, Start(r), Own(r), Smooth(r), Looped(r), pc'[r] # "failed"
    PROVE  pc'[r] \in InLoop /\ CanLoop(r)'
<1> DEFINE n == NameOf(Current(r))
<1>1. ~Fail(r)
  BY DEF Fail, Goto, KnownInv, TasksTyped
<1>2. /\ \E c : cont' = [cont EXCEPT ![n] = c]
      /\ todo' = [todo EXCEPT ![r] = Tail(@)]
      /\ Goto(r, IF LastOne(r) THEN "finish" ELSE "build")
      /\ UNCHANGED <<input, old>> /\ pc[r] = "start"
  BY <1>1 DEF Start, Broken
<1>3. pc'[r] \in InLoop
  <2>1. CASE LastOne(r)
    BY <1>2, <2>1 DEF Goto, InLoop, KnownInv, TasksTyped
  <2>2. CASE ~LastOne(r)
    BY <1>2, <2>2 DEF Goto, InLoop, KnownInv, TasksTyped
  <2> QED BY <2>1, <2>2
<1>4. /\ todo[r] # <<>> /\ todo[r] \in Seq(Procs) /\ pc[r] \in InLoop
      /\ todo'[r] = Tail(todo[r]) /\ input[r] \in Inputs
  BY <1>2, FileOfTyped DEF InLoop, KnownInv, TasksTyped, TaskFits
<1>5. /\ ToSet(todo[r]) = {Head(todo[r])} \cup ToSet(Tail(todo[r]))
      /\ Head(todo[r]) \notin ToSet(Tail(todo[r]))
  BY <1>4, HeadTail DEF Looped
<1>6. ASSUME NEW p \in ToSet(Tail(todo[r]))
      PROVE  cont'[NameOf(Key(input[r], p))] = cont[NameOf(Key(input[r], p))]
  <2>1. Key(input[r], p) \in KeysOf(input[r]) /\ Current(r) \in KeysOf(input[r])
    BY <1>4, <1>5, LoopKeys DEF Current
  <2>2. Key(input[r], p) # Current(r)
    BY <1>4, <1>5, KeyFacts DEF Current
  <2>3. NameOf(Key(input[r], p)) # n /\ NameOf(Key(input[r], p)) \in Names
    BY <1>4, <2>1, <2>2, OwnNames, KeyFacts, NamesTyped
  <2> QED BY <1>2, <2>3 DEF KnownInv, DataTyped
<1>7. CanLoop(r)
  BY <1>4 DEF Smooth
<1> QED BY <1>2, <1>3, <1>4, <1>5, <1>6, <1>7 DEF CanLoop

LEMMA SmoothSelf ==
    ASSUME KnownInv, NEW r \in Requests, Work(r), Own(r), Looped(r), Smooth(r), r \notin hit'
    PROVE  Smooth(r)'
<1>1. input' = input /\ (pc'[r] = "failed" => ~Valid(input'[r].manifest))
  BY WorkMoves, SmoothFails DEF Moves
<1>2. CASE ~Active(r)'
  BY <1>1, <1>2 DEF Smooth, Active, InTask, InLoop
<1>3. CASE Active(r)'
  <2>1. pc'[r] # "failed" /\ Active(r) /\ input[r] \in Inputs
    <3>1. pc[r] # "orphan"
      BY <1>3 DEF Work, WriteArchive, Extract, Load, Prepare, Build, Tag, Start, Finish, Succeed, Goto,
                  Active, InHandler, InTask, KnownInv, TasksTyped
    <3>2. InFlight(r)
      BY WorkFlies DEF KnownInv
    <3> QED BY <1>3, <3>1, <3>2, FileOfTyped DEF InFlight, Active, InHandler, InTask
  <2>2. NamesFree(r)'
    <3>1. \A u \in rows' : (\E w \in rows : w.key = u.key) \/ u.key \in KeysOf(input[r])
      <4>1. Prepare(r) => Defined(r) = KeysOf(input[r])
        BY DEF Prepare, Own, Unpacks, Defined, KeysOf
      <4> QED BY <4>1, KeysGrow
    <3>2. NamesFree(r)
      BY <2>1 DEF Smooth
    <3>3. \A k, l \in KeysOf(input[r]) : k # l => NameOf(k) # NameOf(l)
      BY <2>1, OwnNames
    <3>4. \A s \in Requests \ {r} : (InFlight(s)' => InFlight(s)) /\ Found(s)' = Found(s)
      BY <1>1, WorkFlies, OthersKeep DEF KnownInv, Found
    <3> QED BY <1>1, <3>1, <3>2, <3>3, <3>4 DEF NamesFree
  <2>3. CASE WriteArchive(r) \/ Extract(r) \/ Load(r)
    <3>1. UNCHANGED <<cont, rows>> /\ pc[r] \in InHandler /\ pc'[r] \notin InLoop
      BY <2>1, <2>3 DEF WriteArchive, Extract, Load, Fail, Goto, InHandler, InLoop, KnownInv, TasksTyped
    <3>2. CanPrepare(r)'
      BY <1>1, <3>1 DEF Smooth, CanPrepare
    <3> QED BY <1>1, <2>2, <3>1, <3>2 DEF Smooth
  <2>4. CASE Prepare(r)
    BY <1>1, <2>1, <2>2, <2>4, SmoothPrepare DEF Smooth, InHandler
  <2>5. CASE Build(r) \/ Tag(r)
    <3>1. UNCHANGED <<input, todo, old, cont>> /\ pc[r] \in InLoop
      BY <2>1, <2>5 DEF Build, Tag, InLoop, Active, InTask, InHandler
    <3>2. pc'[r] \notin InHandler
      BY <2>1, <2>5, WorkMoves DEF Build, Broken, Fail, Tag, Goto, InHandler, KnownInv, TasksTyped
    <3> QED BY <1>1, <2>2, <3>1, <3>2 DEF Smooth, CanLoop
  <2>6. CASE Start(r)
    BY <1>1, <2>1, <2>2, <2>6, SmoothStart DEF Smooth, InLoop, InHandler
  <2>7. CASE Finish(r)
    BY <1>3, <2>7 DEF Finish, Succeed, Goto, Active, InHandler, InTask, KnownInv, TasksTyped
  <2> QED BY <2>3, <2>4, <2>5, <2>6, <2>7 DEF Work
<1> QED BY <1>2, <1>3

LEMMA SmoothReceive ==
    ASSUME KnownInv, SmoothInv, NEW s \in Requests, Receive(s), NEW r \in Requests, r \notin met' \cup hit'
    PROVE  Smooth(r)'
<1>1. PICK i \in Inputs : Arrive(s, i)
  BY DEF Receive
<1> DEFINE others == {q \in Requests : InFlight(q) /\ (i.file = input[q].file \/ Clash(i, q))}
<1>2. /\ pc[s] = "idle" /\ UNCHANGED <<defs, todo, old, cont, rows>>
      /\ \A q \in Requests \ {s} : pc'[q] = pc[q] /\ input'[q] = input[q]
      /\ input'[s] = i /\ pc'[s] = "write"
      /\ met \subseteq met' /\ hit \subseteq hit'
      /\ s \notin met' => others = {}
      /\ s \notin hit' => ~Blocked(i)
  BY <1>1 DEF Arrive, Goto, KnownInv, TasksTyped, Source
<1>3. \A q \in Requests \ {s} : InFlight(q)' => InFlight(q)
  BY <1>2 DEF InFlight, Active
<1>4. CASE r = s
  <2>1. others = {} /\ ~Blocked(i)
    BY <1>2, <1>4
  <2>2. \A k \in KeysOf(i), w \in rows : w.key # k => NameOf(w.key) # NameOf(k)
    BY <2>1 DEF Blocked
  <2>3. ASSUME NEW k \in KeysOf(i), NEW q \in Requests \ {s}, InFlight(q), NEW l \in Found(q)
        PROVE  NameOf(l) # NameOf(k)
    <3>1. ~Clash(i, q)
      BY <2>1, <2>3
    <3>2. TagOf(k) # TagOf(l)
      BY <2>3, <3>1 DEF Clash, ShareTag
    <3>3. k \in Keys /\ l \in Keys
      <4>1. pc[q] # "idle"
        BY <2>3 DEF InFlight, Active, InHandler, InTask
      <4> QED BY <2>3, <4>1, KeyFacts, DefinedTyped
    <3> QED BY <3>2, <3>3, SameName
  <2>4. \A q \in Requests : Found(q)' = {Key(input'[q], p) : p \in old[q]}
    BY <1>2 DEF Found
  <2>5. \A q \in Requests \ {s} : Found(q)' = Found(q)
    BY <1>2 DEF Found
  <2>6. NamesFree(s)'
    BY <1>2, <1>3, <2>2, <2>3, <2>5 DEF NamesFree
  <2>7. CanPrepare(s)'
    BY <1>2, <2>1 DEF CanPrepare, Blocked
  <2> QED BY <1>2, <1>4, <2>6, <2>7 DEF Smooth, InLoop
<1>5. CASE r # s
  <2>1. Smooth(r) /\ pc'[r] = pc[r] /\ input'[r] = input[r]
    BY <1>2, <1>5 DEF SmoothInv
  <2>2. NamesFree(r) => NamesFree(r)'
    <3>1. Found(s)' = {}
      BY <1>2 DEF Found, KnownInv, TaskFits
    <3>2. \A q \in Requests \ {s} : Found(q)' = Found(q)
      BY <1>2 DEF Found
    <3>3. \A q \in Requests \ {r} : InFlight(q)' => (InFlight(q) /\ Found(q)' = Found(q)) \/ Found(q)' = {}
      BY <1>3, <3>1, <3>2
    <3> QED BY <1>2, <2>1, <3>3 DEF NamesFree
  <2>3. (CanPrepare(r) => CanPrepare(r)') /\ (CanLoop(r) => CanLoop(r)')
    BY <1>2, <2>1 DEF CanPrepare, CanLoop
  <2> QED BY <2>1, <2>2, <2>3 DEF Smooth, Active
<1> QED BY <1>4, <1>5

LEMMA SmoothRecreate ==
    ASSUME KnownInv, NEW w \in rows, Recreate(w), NEW r \in Requests, Smooth(r), Own(r), Looped(r)
    PROVE  Smooth(r)'
<1>1. /\ UNCHANGED <<input, pc, defs, todo, old, rows>> /\ w.status = "running"
      /\ w.key \in Keys /\ NameOf(w.key) \in Names
      /\ \A n \in Names \ {NameOf(w.key)} : cont'[n] = cont[n]
      /\ cont'[NameOf(w.key)].by = "watcher" /\ cont'[NameOf(w.key)] # NoContainer
  <2>1. cont' = [cont EXCEPT ![NameOf(w.key)] = [by |-> "watcher", code |-> image[TagOf(w.key)]]]
    BY DEF Recreate
  <2>2. w.key \in Keys /\ NameOf(w.key) \in Names
    BY NamesTyped DEF KnownInv, DataTyped, Row
  <2>3. cont'[NameOf(w.key)] = [by |-> "watcher", code |-> image[TagOf(w.key)]]
    BY <2>1, <2>2 DEF KnownInv, DataTyped
  <2>4. cont'[NameOf(w.key)].by = "watcher" /\ NoContainer.by = "none"
    BY <2>3 DEF NoContainer
  <2> QED BY <2>1, <2>2, <2>4 DEF Recreate, taskVars, KnownInv, DataTyped
<1>2. Found(r)' = Found(r) /\ \A s \in Requests : Found(s)' = Found(s) /\ InFlight(s)' = InFlight(s)
  BY <1>1 DEF Found, InFlight, Active
<1>3. NamesFree(r) => NamesFree(r)'
  BY <1>1, <1>2 DEF NamesFree
<1>4. ASSUME Active(r), NEW k \in KeysOf(input[r])
      PROVE  cont'[NameOf(k)] = cont[NameOf(k)] \/ (k = w.key /\ cont'[NameOf(k)] # NoContainer)
  <2>1. k \in Keys /\ NameOf(k) \in Names
    BY <1>4, FileOfTyped, KeyFacts, NamesTyped DEF Active, InHandler, InTask
  <2>2. w.key # k => NameOf(w.key) # NameOf(k)
    BY <1>4 DEF Smooth, NamesFree
  <2> QED BY <1>1, <2>1, <2>2
<1>5. ASSUME pc[r] \in InHandler PROVE CanPrepare(r)'
  <2>1. CanPrepare(r) /\ Active(r)
    BY <1>5 DEF Smooth, Active
  <2> QED BY <1>1, <1>4, <2>1 DEF CanPrepare
<1>6. ASSUME pc[r] \in InLoop PROVE CanLoop(r)'
  <2>1. CanLoop(r) /\ Active(r) /\ LoopRows(r)
    BY <1>6 DEF Smooth, Active, InTask, InLoop, Looped
  <2>2. ASSUME NEW p \in ToSet(todo[r]) PROVE Key(input[r], p) # w.key
    <3>1. Key(input[r], p) \in Defined(r)
      BY <1>6, LoopKeys, OwnLoop
    <3>2. Key(input[r], p) \notin Made(r)
      BY <1>6, OwnLoop, KeyFacts DEF Made
    <3>3. w.key = Key(input[r], p) => w.status = "building"
      BY <2>1, <3>1, <3>2 DEF LoopRows, SameApp, Key
    <3> QED BY <1>1, <3>3
  <2>3. \A p \in ToSet(todo[r]) : cont'[NameOf(Key(input[r], p))] = cont[NameOf(Key(input[r], p))]
    BY <1>4, <1>6, <2>1, <2>2, LoopKeys
  <2> QED BY <1>1, <2>1, <2>3 DEF CanLoop
<1> QED BY <1>1, <1>3, <1>5, <1>6 DEF Smooth, Active

LEMMA SmoothNext ==
    ASSUME KnownInv, ApartInv, OwnInv, LoopInv, SmoothInv, [Next]_vars
    PROVE  SmoothInv'
<1>1. ASSUME NEW r \in Requests, r \notin met, r \notin hit PROVE Smooth(r) /\ Own(r) /\ Apart(r) /\ Looped(r)
  BY <1>1 DEF SmoothInv, OwnInv, ApartInv, LoopInv
<1>2. ASSUME NEW s \in Requests, Work(s), NEW r \in Requests, r \notin met' \cup hit' PROVE Smooth(r)'
  <2>1. r \notin met /\ r \notin hit
    BY <1>2, WorkObserved, WorkMoves DEF Touch, Judged
  <2> QED BY <1>1, <1>2, <2>1, SmoothSelf, SmoothOther
<1>3. ASSUME NEW r \in Requests, r \notin met' \cup hit', ~Active(r), r \notin met, r \notin hit,
             pc'[r] = pc[r], input'[r] = input[r]
      PROVE  Smooth(r)'
  BY <1>1, <1>3 DEF Smooth, Active, InTask, InLoop
<1>4. ASSUME Crash, NEW r \in Requests, r \notin met' \cup hit' PROVE Smooth(r)'
  <2>1. ~Active(r) /\ r \notin met /\ r \notin hit /\ pc'[r] = pc[r] /\ input'[r] = input[r]
    BY <1>4, CrashMoves DEF KnownInv
  <2> QED BY <1>3, <1>4, <2>1
<1>5. ASSUME NEW n \in Names, Lose(n), NEW r \in Requests, r \notin met' \cup hit' PROVE Smooth(r)'
  <2>1. ~Active(r) /\ r \notin met /\ r \notin hit /\ pc'[r] = pc[r] /\ input'[r] = input[r]
    BY <1>5 DEF Lose, Fault, Observers, taskVars
  <2> QED BY <1>3, <1>5, <2>1
<1>6. ASSUME NEW w \in rows, Recreate(w), NEW r \in Requests, r \notin met' \cup hit' PROVE Smooth(r)'
  <2>1. r \notin met /\ r \notin hit
    BY <1>6 DEF Recreate, NoFault, Observers
  <2> QED BY <1>1, <1>6, <2>1, SmoothRecreate
<1>7. ASSUME UNCHANGED vars, NEW r \in Requests, r \notin met' \cup hit' PROVE Smooth(r)'
  <2>1. r \notin met /\ r \notin hit /\ UNCHANGED <<pc, input, defs, todo, old, cont, rows>>
    BY <1>7 DEF vars, taskVars
  <2>2. \A s \in Requests : Found(s)' = Found(s) /\ (InFlight(s)' <=> InFlight(s)) /\ (Active(s)' <=> Active(s))
    BY <2>1 DEF Found, InFlight, Active
  <2>3. Smooth(r)
    BY <1>1, <2>1
  <2> QED BY <2>1, <2>2, <2>3 DEF Smooth, NamesFree, CanPrepare, CanLoop
<1>8. ASSUME NEW s \in Requests, Receive(s), NEW r \in Requests, r \notin met' \cup hit' PROVE Smooth(r)'
  BY <1>8, SmoothReceive
<1> QED BY <1>2, <1>4, <1>5, <1>6, <1>7, <1>8, StepKinds DEF Next, SmoothInv

\* What the handlers refuse has stopped nothing, what they accept does not fail later for its
\* names or for its manifest: a request that nobody met, no fault hit and nothing stood in
\* the way of succeeds exactly when its manifest is valid.
THEOREM ValidSucceed == Spec => []SucceedsIffValid
<1> DEFINE inv == KnownInv /\ ApartInv /\ OwnInv /\ LoopInv /\ SmoothInv
<1>1. Init => inv
  <2>1. Init => SmoothInv
    BY DEF Init, SmoothInv, Smooth, Active, InHandler, InTask, InLoop
  <2> QED BY <2>1, InitKnown, OwnInit, SettledInit
<1>2. inv /\ [Next]_vars => inv'
  BY KnownNext, ApartNext, OwnNext, LoopNext, SmoothNext
<1>3. inv => SucceedsIffValid
  BY DEF OwnInv, SmoothInv, Own, Smooth, SucceedsIffValid
<1> QED BY <1>1, <1>2, <1>3, PTL DEF Spec

=============================================================================
