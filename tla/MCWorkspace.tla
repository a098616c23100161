---------------------------- MODULE MCWorkspace ----------------------------
(* Two uploads of archives and sources, and calls that meet each limit. *)
EXTENDS Workspace, TLC

MCRoot == <<"work", "job">>
Raw(name, size, holds) == File(MCRoot \o <<"raw", name>>, size, holds)
MCUploads ==
    {{Raw("a.zip", 3, "sources"), Raw("b.tar", 3, "slip"), Raw("main.go", 5, "code")},
     {Raw("a.zip", 3, "many"), Raw("b.tar", 3, "bundle"), Raw("main.go", 3, "code"), Raw("logo.png", 1, "code")},
     {Raw("b.tar", 1, "big"), Raw("main.go", 1, "long")}}

MCName(parts) == [absolute |-> FALSE, parts |-> parts]
E(parts, type, size, holds) ==
    [name |-> MCName(parts), type |-> type, size |-> size, holds |-> holds, to |-> <<"etc">>]
MCArchives ==
    ("sources" :> [format |-> "zip",
                   entries |-> <<E(<<"src">>, "dir", 0, "none"), E(<<"src", "x.go">>, "file", 1, "code"),
                                 E(<<"src", "..", "src", "x.go">>, "link", 2, "target")>>]) @@
    ("bundle" :> [format |-> "tar",
                  entries |-> <<E(<<"lib">>, "link", 0, "none"), E(<<"lib", "y.go">>, "file", 2, "long"),
                                E(<<"report.md">>, "file", 1, "code")>>]) @@
    ("slip" :> [format |-> "tar",
                entries |-> <<E(<<"x.go">>, "file", 1, "code"), E(<<"..", "main.go">>, "file", 1, "code")>>]) @@
    ("many" :> [format |-> "zip",
                entries |-> <<E(<<"x.go">>, "file", 0, "code"), E(<<"y.go">>, "file", 0, "code"),
                              E(<<"z.go">>, "file", 0, "code")>>]) @@
    ("big" :> [format |-> "tar",
               entries |-> <<E(<<"x.go">>, "file", 2, "code"), E(<<"y.go">>, "file", 9, "code")>>])

MCFormatOf == ("a.zip" :> "zip") @@ ("b.tar" :> "tar") @@ ("main.go" :> "none") @@ ("logo.png" :> "none")
MCLines == ("code" :> <<"hit", "miss", "hit">>) @@ ("long" :> <<"hit", "long", "hit">>)
MCGlobs == ("*.go" :> [all |-> FALSE, base |-> {"main.go", "x.go", "y.go"}, part |-> {"main.go", "x.go", "y.go"}])
           @@ ("raw/**" :> [all |-> TRUE, base |-> {}, part |-> {"raw"}])

Extract(path, dest) == [tool |-> "extract_archive", path |-> MCName(path), dest |-> MCName(dest)]
Read(path, max, offset) == [tool |-> "read_file", path |-> MCName(path), max |-> max, offset |-> offset]
MCCalls ==
    {Extract(<<"raw", a>>, d) : a \in {"a.zip", "b.tar"}, d \in {<<"raw", "extracted">>, <<"sast">>, <<".">>, <<"..", "job2">>}}
    \cup {Read(<<"raw", "main.go">>, m, o) : m \in {0, 1, 9}, o \in {-1, 0, 2, 7}}
    \cup {Read(<<"raw", "a.zip">>, 0, 0), Read(<<"raw">>, 0, 0)}
    \cup {[tool |-> "list_files", glob |-> g, max |-> m] : g \in {"", "*.go", "raw/**"}, m \in {0, 1, 9}}
    \cup {[tool |-> "search_code", glob |-> g, max |-> m] : g \in {"", "*.go"}, m \in {0, 2, 9}}
    \cup {[tool |-> "get_knowledge", topic |-> t] : t \in {<<"sql">>, <<"threat-model">>, <<"pgwscan", "sqli">>, <<"ldap">>}}
    \cup {[tool |-> "write_artifact", name |-> n, content |-> c] :
             n \in allowedArtifacts \cup {"notes.md"}, c \in {"valid", "blank", "later"}}
    \cup {[tool |-> "validate_openapi", parts |-> <<"openapi.yaml">>]}

MCSkillFiles == ("quickscan" :> <<"sqli">>) @@ ("deepscan" :> <<"threat-model">>) @@ ("pgwscan" :> <<"sqli">>)
MCRequests == {{"pgwscan", "deepscan"}}
MCDeepRequest == {{"deepscan"}}
MCNormalize == (<<"sql">> :> <<"sqli">>) @@ (<<"threat-model">> :> <<"threat_model">>)
               @@ (<<"pgwscan", "sqli">> :> <<"pgwscan_sqli">>) @@ (<<"ldap">> :> <<"ldap">>)
MCBinaryNames == {"logo.png"}
MCSkippedDirs == {"vendor"}
=============================================================================
