---------------------------- MODULE ApiRequests ----------------------------
(***************************************************************************)
(* What AgentDAST scans and what it sends: the endpoints of an OpenAPI     *)
(* document or of one URL (internal/parser, core/urlscan.go), the places   *)
(* payloads go to, the configuration of a tool call (internal/toolexec)    *)
(* and the requests of the executor (core/executor.go).                    *)
(*                                                                         *)
(* A URL is a host and a sequence of segments; a segment is a name, or the *)
(* name of a path parameter in braces.  Headers, parameters and fields are *)
(* sets of entries with a location, a name and a value; of a value only    *)
(* who put it there matters.  A Go map that is ranged over has no order,   *)
(* so what depends on that order is a set of possible results.             *)
(***************************************************************************)
EXTENDS Naturals, Sequences, SequencesExt

CONSTANTS
    Canonical,  \* http.Header: the canonical spelling of each spelling of a name
    Documents   \* what is at the places a specification is read from

Locations == {"path", "query", "header", "cookie", "body"}

\* "own" is a value the caller of the tool chose, "default" one of the
\* executor's headers, "benign" a value of a probe, "type" a content type.
Values == {"placeholder", "example", "payload", "own", "default", "benign",
           "json", "xml", "other", "cookies"}

Segments == [hole : BOOLEAN, name : STRING]
URLs == [host : STRING, path : Seq(Segments), query : Seq(STRING)]
Params == [name : STRING, in : Locations, example : BOOLEAN]
Points == [prefix : STRING, rest : STRING, whole : STRING]

\* What the libraries deliver of a document that can be read and is one.
ASSUME DocumentsAssumption ==
    \A s \in DOMAIN Documents :
        LET doc == Documents[s].doc
        IN  Documents[s].readable /\ Documents[s].format \in {"swagger2", "openapi3"} =>
            /\ doc.servers \in Seq(URLs)
            /\ \A p \in DOMAIN doc.paths :
                  /\ p \in Seq(Segments) /\ doc.paths[p].params \in Seq(Params)
                  /\ \A o \in DOMAIN doc.paths[p].ops :
                        LET op == doc.paths[p].ops[o]
                        IN  /\ op.params \in Seq(Params)
                            /\ \A t \in DOMAIN op.content :
                                  t \in {"json", "xml", "other"} /\ op.content[t].fields \in Seq(STRING)

\* The header that the executor writes the cookies to.
ASSUME CanonicalAssumption == Canonical["Cookie"] = "Cookie"

Entry(in, name, value) == [in |-> in, name |-> name, value |-> value]
SamePlace(p, q) == p.name = q.name /\ p.in = q.in

\* The entries of a map over the entries of another, by key.
Overlay(under, over) == over \cup {u \in under : \A o \in over : ~SamePlace(u, o)}

NoBody == [type |-> "none", fields |-> <<>>, example |-> FALSE]
NoURL == [host |-> "", path |-> <<>>, query |-> <<>>]

-----------------------------------------------------------------------------
(* The document *)

\* An example of the specification is used as the value; a type gives one of
\* three placeholders, which are one value here.
Param(name, in, example) == [name |-> name, in |-> in, example |-> example]

\* JSON first, then XML; otherwise any other type, without its example.
convertBody(content) ==
    LET Info(t) == [type |-> t, fields |-> content[t].fields, example |-> content[t].example]
    IN  IF DOMAIN content = {} THEN {NoBody}
        ELSE IF "json" \in DOMAIN content THEN {Info("json")}
        ELSE IF "xml" \in DOMAIN content THEN {Info("xml")}
        ELSE {[Info(t) EXCEPT !.example = FALSE] : t \in DOMAIN content}

bodyParams(body) == [i \in DOMAIN body.fields |-> Param(body.fields[i], "body", FALSE)]

\* The parameters of the path come first and are not replaced by those of the
\* operation; only the operation's own security requirement counts.
extractSpec(doc) ==
    UNION {UNION {{[path |-> p,
                    method |-> o,
                    params |-> doc.paths[p].params \o doc.paths[p].ops[o].params \o bodyParams(b),
                    body |-> b,
                    secured |-> doc.paths[p].ops[o].secured] : b \in convertBody(doc.paths[p].ops[o].content)} :
                  o \in DOMAIN doc.paths[p].ops} :
           p \in DOMAIN doc.paths}

firstServerURL(doc) == IF doc.servers = <<>> THEN NoURL ELSE doc.servers[1]

\* readSource fails, the document is neither a Swagger 2.0 nor an OpenAPI 3
\* document, or it is converted to one; no endpoint is then an error.
LoadSpec(source) ==
    IF source.readable /\ source.format \in {"swagger2", "openapi3"}
    THEN {[ok |-> TRUE, endpoints |-> extractSpec(source.doc), base |-> firstServerURL(source.doc)]}
    ELSE {[ok |-> FALSE, endpoints |-> {}, base |-> NoURL]}

-----------------------------------------------------------------------------
(* One URL *)

\* An absolute URL is its own base; a path needs a base, whose path it keeps.
BuildEndpointFromURL(url, method, base, example, fields) ==
    LET absolute == url.host # ""
        ep == [path |-> IF absolute THEN url.path ELSE base.path \o url.path,
               method |-> IF method = "" THEN "GET" ELSE method,
               params |-> [i \in DOMAIN url.query |-> Param(url.query[i], "query", TRUE)]
                          \o [i \in DOMAIN fields |-> Param(fields[i], "body", FALSE)],
               body |-> IF example \/ fields # <<>>
                        THEN [type |-> "json", fields |-> fields, example |-> example]
                        ELSE NoBody,
               secured |-> FALSE]
    IN  IF ~absolute /\ base = NoURL
        THEN {[ok |-> FALSE, endpoints |-> {}, base |-> NoURL]}
        ELSE {[ok |-> TRUE,
               endpoints |-> {ep},
               base |-> [NoURL EXCEPT !.host = IF absolute THEN url.host ELSE base.host]]}

\* A target URL goes before a document; the configured base goes before the
\* document's own.
resolveTargets(cfg) ==
    IF cfg.url # NoURL
    THEN BuildEndpointFromURL(cfg.url, cfg.method, cfg.base, cfg.example, cfg.fields)
    ELSE {[r EXCEPT !.base = IF cfg.base # NoURL THEN cfg.base ELSE @] :
             r \in UNION {LoadSpec(Documents[s]) : s \in cfg.source}}

-----------------------------------------------------------------------------
(* Insert points *)

\* "loc:name" when the prefix is a location, otherwise the whole text is the
\* name, also when it has a colon in it.
ParseInsertPoint(pt) ==
    IF pt.prefix \in Locations
    THEN [loc |-> {pt.prefix}, name |-> pt.rest]
    ELSE [loc |-> Locations, name |-> pt.whole]

\* Those of some parameters that are wanted, in their order.
Where(params, wanted) ==
    FlattenSeq([i \in DOMAIN params |-> IF params[i] \in wanted THEN <<params[i]>> ELSE <<>>])
Declared(params, pt) == Where(params, {p \in ToSet(params) : p.name = pt.name /\ p.in \in pt.loc})

Mut_ResolveInsertPoints(params, points) ==  \* an undeclared point is dropped
    FlattenSeq([i \in DOMAIN points |-> Declared(params, ParseInsertPoint(points[i]))])

ResolveInsertPoints(params, points) ==
    IF points = <<>> THEN params
    ELSE FlattenSeq([i \in DOMAIN points |->
            LET pt == ParseInsertPoint(points[i])
            IN  IF Declared(params, pt) # <<>> THEN Declared(params, pt)
                ELSE <<Param(pt.name, IF pt.loc = Locations THEN "query" ELSE CHOOSE l \in pt.loc : TRUE, FALSE)>>])

-----------------------------------------------------------------------------
(* The configuration of a call *)

\* Executor.Scan: one of the two targets is required.
ScanAccepts(args) == args.url # NoURL \/ args.source # {}

ToConfig(args, fallbackBase) ==
    [args EXCEPT !.base = IF @ = NoURL THEN fallbackBase ELSE @]

\* Keys are compared as they are spelled.
Mut_applyDefaults(cfg, defaults) ==  \* the defaults go over the caller's headers
    [cfg EXCEPT !.headers = Overlay(@, defaults.headers),
                !.points = IF @ = <<>> THEN defaults.points ELSE @]

applyDefaults(cfg, defaults) ==
    [cfg EXCEPT !.headers = Overlay(defaults.headers, @),
                !.points = IF @ = <<>> THEN defaults.points ELSE @]

-----------------------------------------------------------------------------
(* Requests *)

\* http.Header.Set of the maps in turn: a later map replaces what an earlier
\* one set; two spellings of one name in one map replace each other in any order.
HeaderSets(maps) ==
    LET SameName(e, f) == Canonical[e.name] = Canonical[f.name]
        last == UNION {{e \in maps[i] : \A k \in DOMAIN maps : k > i => \A f \in maps[k] : ~SameName(e, f)} :
                       i \in DOMAIN maps}
        set == {Entry("header", Canonical[e.name], e.value) : e \in last}
    IN  {h \in SUBSET set : \A e \in set : \E f \in h : {g \in h : SamePlace(e, g)} = {f}}

Placeholder(p) == IF p.example THEN "example" ELSE "placeholder"

\* What buildRequest puts where: every declared parameter, with the payload
\* where it is the targeted one, and a targeted one that is not declared.  The
\* last value for a place stays, in the path the first one, which leaves no
\* brace to replace.  at holds the targeted parameter, or nothing.
Mut_Placements(params, at) ==  \* the location of the insert point is not looked at
    {Entry(p.in, p.name, "payload") : p \in {q \in at : \A i \in DOMAIN params : q.name # params[i].name}}
    \cup {Entry(params[i].in, params[i].name,
                IF \E p \in at : p.name = params[i].name THEN "payload" ELSE Placeholder(params[i])) :
          i \in DOMAIN params}

Placements(params, at) ==
    LET Stays(i) == \A k \in DOMAIN params :
            SamePlace(params[i], params[k]) => IF params[i].in = "path" THEN i <= k ELSE k <= i
        declared == {Entry(params[i].in, params[i].name, Placeholder(params[i])) : i \in {k \in DOMAIN params : Stays(k)}}
    IN  Overlay(declared, {Entry(p.in, p.name, "payload") : p \in at})

Holes(path) == {path[i].name : i \in {k \in DOMAIN path : path[k].hole}}
In(entries, locations) == {e \in entries : e.in \in locations}

\* The custom parameters go over the query and the custom headers over all
\* headers, a Cookie header that was built included.
Assemble(ep, base, entries, maps, cfg) ==
    {[to |-> [host |-> base.host, path |-> base.path \o ep.path],
      has |-> h \cup Overlay(In(entries, {"query"}), cfg.params) \cup In(entries, {"body"})
              \cup {e \in In(entries, {"path"}) : e.name \in Holes(ep.path)}
              \cup (IF Entry("header", "Cookie", "cookies") \in h THEN In(entries, {"cookie"}) ELSE {})] :
     h \in HeaderSets(maps)}

Header(name, value) == {Entry("header", name, value)}

\* The fields of the body go as JSON, or else the example of the specification
\* when the method is not GET.
buildRequest(ep, base, at, cfg) ==
    LET entries == Placements(ep.params, at)
        type == IF In(entries, {"body"}) # {} THEN Header("Content-Type", "json")
                ELSE IF ep.body.type # "none" /\ ep.method # "GET" /\ ep.body.example
                THEN Header("Content-Type", ep.body.type)
                ELSE {}
        cookie == IF In(entries, {"cookie"}) = {} THEN {} ELSE Header("Cookie", "cookies")
    IN  Assemble(ep, base, entries, <<type, In(entries, {"header"}), cookie, cfg.headers>>, cfg)

\* Placeholders in the path and the query only.
SendRawBody(ep, base, type, body, cfg) ==
    Assemble(ep, base, In(Placements(ep.params, {}), {"path", "query"}) \cup body,
             <<Header("Content-Type", type), cfg.headers>>, cfg)

\* http_request: the caller's own method, URL, headers and body.
HTTPRequest(args, base, defaults) ==
    IF args.url = NoURL \/ (args.url.host = "" /\ base = NoURL)
    THEN {}
    ELSE {[to |-> IF args.url.host # "" THEN [host |-> args.url.host, path |-> args.url.path]
                  ELSE [host |-> base.host, path |-> base.path \o args.url.path],
           has |-> h \cup {Entry("query", args.url.query[i], "own") : i \in DOMAIN args.url.query}] :
          h \in HeaderSets(<<defaults.headers, args.headers>>)}

\* Whether a request has a value at the place of a parameter.
Key(p) == IF p.in = "header" THEN Canonical[p.name] ELSE p.name
Has(req, p, value) == Entry(p.in, Key(p), value) \in req.has
=============================================================================
