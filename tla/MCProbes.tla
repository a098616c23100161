----------------------------- MODULE MCProbes ------------------------------
(* A document with three operations and four URLs, scanned with each plugin. *)
EXTENDS Probes, TLC

MCCanonical ==
    ("Authorization" :> "Authorization") @@ ("authorization" :> "Authorization") @@
    ("Cookie" :> "Cookie") @@ ("Origin" :> "Origin") @@ ("origin" :> "Origin") @@ ("Content-Type" :> "Content-Type") @@
    ("X-Tag" :> "X-Tag") @@ ("x-tag" :> "X-Tag")

Seg(n) == [hole |-> FALSE, name |-> n]
Hole(n) == [hole |-> TRUE, name |-> n]
URL(h, p, q) == [host |-> h, path |-> p, query |-> q]

id == Param("id", "path", FALSE)
MCDoc ==
    [servers |-> <<URL("docs", <<>>, <<>>)>>,
     paths |->
        (<<Seg("items"), Hole("id")>> :>
            [params |-> <<id>>,
             ops |-> "GET" :> [params |-> <<id, Param("id", "query", FALSE), Param("next", "query", TRUE), Param("sid", "cookie", FALSE),
                                            Param("X-Tag", "header", FALSE)>>,
                               secured |-> TRUE, content |-> <<>>]]) @@
        (<<Seg("items")>> :>
            [params |-> <<>>,
             ops |-> ("POST" :> [params |-> <<Param("q", "query", FALSE)>>, secured |-> FALSE,
                                 content |-> ("json" :> [fields |-> <<"name", "Role">>, example |-> TRUE])]) @@
                     ("PUT" :> [params |-> <<>>, secured |-> FALSE,
                                content |-> ("xml" :> [fields |-> <<>>, example |-> TRUE]) @@
                                            ("other" :> [fields |-> <<>>, example |-> TRUE])])])]
MCDocument == [readable |-> TRUE, format |-> "openapi3", doc |-> MCDoc]
MCDocuments == ("api" :> MCDocument) @@ ("broken" :> [MCDocument EXCEPT !.format = "none"])

Args == [url |-> NoURL, source |-> {}, base |-> NoURL, method |-> "", example |-> FALSE, fields |-> <<>>,
         points |-> <<>>, headers |-> {}, params |-> {}]
Point(l, n) == [prefix |-> l, rest |-> n, whole |-> l \o ":" \o n]
Bare(n) == [prefix |-> "", rest |-> n, whole |-> n]

ofDocument == [Args EXCEPT !.source = {"api"}]
MCArgs ==
    {Args, ofDocument, [Args EXCEPT !.source = {"broken"}],
     [ofDocument EXCEPT !.base = URL("own", <<Seg("v2")>>, <<>>), !.headers = Header("authorization", "own") \cup Header("origin", "own")],
     [ofDocument EXCEPT !.headers = Header("Cookie", "own") \cup Header("Content-Type", "own")],
     [ofDocument EXCEPT !.points = <<Bare("id"), Point("header", "x-tag"), Point("header", "Cookie"), Bare("q")>>],
     [Args EXCEPT !.url = URL("", <<Seg("find"), Hole("id")>>, <<"q", "next">>), !.params = {Entry("query", "q", "own")}],
     [Args EXCEPT !.url = URL("own", <<Seg("find")>>, <<>>), !.fields = <<"name">>, !.method = "POST",
                  !.points = <<Point("cookie", "sid"), Point("path", "id"), Point("body", "name")>>],
     [Args EXCEPT !.url = URL("", <<Seg("find")>>, <<"q">>), !.example = TRUE, !.headers = Header("X-Tag", "own") \cup Header("Authorization", "own")]}

MCPlugins == builtins \cup {"unknown"}
MCCalls == [tool : {"scan_api"}, plugin : MCPlugins, args : MCArgs]
           \cup [tool : {"http_request"}, plugin : {"none"}, args : {a \in MCArgs : a.source = {}}]

MCBase == URL("api", <<Seg("v1")>>, <<>>)
MCDefaults == [headers |-> Header("Authorization", "default"), points |-> <<>>]
\* Three of the six fields: one with a value of its own, and two that share
\* theirs, one within the other.
MCPrivileged == <<[field |-> "role", sentinel |-> "zz_admin_zz"], [field |-> "isAdmin", sentinel |-> "true"],
                  [field |-> "admin", sentinel |-> "true"]>>
MCLower == [w \in {"name", "role", "zz_admin_zz", "admin", "true"} |-> w]
           @@ ("Role" :> "role") @@ ("isAdmin" :> "isadmin")
MCWithin == [w \in DOMAIN MCLower |-> {MCLower[w]} \cup IF w \in {"zz_admin_zz", "isAdmin"} THEN {"admin"} ELSE {}]
MCUrlLike == {"next"}
MCRedirectLike == {"next"}
MCIdLike == {"id"}
MCCredentials == {"Authorization", "Cookie"}

Auth == Param("Authorization", "header", FALSE)
Key0 == Param("q", "query", FALSE)
Weak == {id, Param("next", "query", FALSE), Param("q", "query", FALSE), Param("sid", "cookie", FALSE),
         Param("X-Tag", "header", FALSE), Param("name", "body", FALSE)}
Service(weak, flaw, forms, page, guard) ==
    [weak : weak, flaw : flaw, forms : forms, page : page, guard : guard]
Guards == {{}, {Auth}, {Key0}}

MCServices == [p \in MCPlugins \cup {"none"} |->
    CASE p \in {"cmdi", "path_traversal", "ssti"} ->
            Service(Weak, {{}, {2}}, {{"echo"}}, {{}}, {{}, {Auth}}) \cup Service({id}, {{}}, {{}}, {{"signature"}}, {{}})
      [] p = "ssrf" -> Service(Weak, {{}, {2}}, {{}, {"echo"}, {"piece"}}, {{}}, {{}})
      [] p = "xss" -> Service(Weak, {{}, {2}}, {{}, {"escaped"}}, {{}, {"html"}}, {{}})
      [] p = "open_redirect" -> Service(Weak, {{}, {2}}, {{}, {"carried"}, {"script"}}, {{}}, {{}})
      [] p = "sqli" -> Service(Weak, {{}, {2}, {3}, {5}}, {{"echo"}}, {{}}, {{}})
      [] p = "idor" -> Service({id}, {{}, {1}, {1, 2}}, {{}}, {{}, {"location"}}, {{}, {Auth}})
      [] p = "auth" -> Service({id}, {{}}, {{}}, {{}, {"location"}}, Guards \cup {{Param("Cookie", "header", FALSE)}, {Auth, Key0}})
      [] p = "cors" -> Service({Param("Origin", "header", FALSE)}, {{}, {1}}, {{}},
                               {{}, {"anyorigin"}, {"anyorigin", "credentials"}}, {{}, {Auth}})
      [] p = "sensitive_data" -> Service({id}, {{}}, {{}}, {{}, {"secret"}}, Guards)
      [] p = "mass_assignment" -> Service({id}, SUBSET (1..3), {{}, {"echo"}}, {{}, {"true"}, {"admin"}}, {{}})
      [] p = "xxe" -> Service({XmlBody}, {{}, {1}, {2}}, {{"echo"}}, {{}}, {{}})
      [] OTHER -> Service({id}, {{}}, {{}}, {{}}, {{}})]
=============================================================================
