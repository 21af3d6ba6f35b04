----------------------------- MODULE MCUploads -----------------------------
(* Two archive names, two projects, applications "a" and "a-b", whose        *)
(* processes "b-web" and "web" make the same tag and container names.        *)
EXTENDS Uploads, TLC

Symmetry == Permutations(Requests)

Process(name, replicas, sound) == [name |-> name, replicas |-> replicas, sound |-> sound]
Manifest(ps, rs) == [present |-> TRUE, processes |-> ps, resources |-> rs]

Web    == <<"web">>
Nested == <<"b", "web">>

MCNumerals == <<"1", "2", "3">>
MCWords    == {"web", "a", "b"} \cup {MCNumerals[n] : n \in DOMAIN MCNumerals}

In(project, app, kind, file, m) ==
    [project |-> project, app |-> app, kind |-> kind, file |-> file, manifest |-> m]

Twice == Manifest(<<Process(Web, 2, TRUE)>>, <<"db">>)
Twin  == Manifest(<<Process(Web, 1, TRUE), Process(Web, 1, TRUE)>>, <<>>)

MCInputs ==
    { In("p", <<"a">>, "deploy", "x", Manifest(<<Process(Web, 1, TRUE)>>, <<>>)),
      In("p", <<"a">>, "update", "y", Twice),
      In("p", <<"a">>, "update", "y", Bare),
      In("p", <<"a">>, "update", "x", Twin),
      In("p", <<"a">>, "deploy", "y", Manifest(<<Process(Nested, 1, TRUE)>>, <<>>)),
      In("p", <<"a", "b">>, "deploy", "x", Manifest(<<>>, <<>>)),
      In("q", <<"a">>, "deploy", "y", Manifest(<<Process(Web, 1, TRUE)>>, <<>>)) }

=============================================================================
