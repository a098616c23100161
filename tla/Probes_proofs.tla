--------------------------- MODULE Probes_proofs ---------------------------
(***************************************************************************)
(* Proofs about Probes: what a request holds (Requests), what a test keeps *)
(* of its answers, and what its findings are worth.                        *)
(***************************************************************************)
EXTENDS Probes, Induction

-----------------------------------------------------------------------------
(* The headers of a request *)

SameName(e, f) == Canonical[e.name] = Canonical[f.name]
Written(e) == Entry("header", Canonical[e.name], e.value)

\* The headers that no later map replaces.
Lasting(maps) ==
    UNION {{e \in maps[i] : \A k \in DOMAIN maps : k > i => \A f \in maps[k] : ~SameName(e, f)} : i \in DOMAIN maps}

\* What is written was in one of the maps, and something is written for each
\* header that lasts.
LEMMA SetHeaders ==
    ASSUME NEW maps, NEW h \in HeaderSets(maps)
    PROVE  /\ \A g \in h : \E e \in Lasting(maps) : g = Written(e)
           /\ \A e \in Lasting(maps) : \E f \in Lasting(maps) : SameName(e, f) /\ Written(f) \in h
<1> DEFINE set == {Written(e) : e \in Lasting(maps)}
<1>1. h \in {x \in SUBSET set : \A e \in set : \E f \in x : {g \in x : SamePlace(e, g)} = {f}}
  BY DEF HeaderSets, Lasting, Written, SameName
<1>2. ASSUME NEW e \in Lasting(maps) PROVE \E f \in Lasting(maps) : SameName(e, f) /\ Written(f) \in h
  <2>1. Written(e) \in set OBVIOUS
  <2>2. PICK g \in h : {x \in h : SamePlace(Written(e), x)} = {g} BY <1>1, <2>1
  <2>3. SamePlace(Written(e), g) BY <2>2
  <2>4. PICK f \in Lasting(maps) : g = Written(f) BY <1>1
  <2> QED BY <2>3, <2>4 DEF SamePlace, Written, Entry, SameName
<1> QED BY <1>1, <1>2

\* Which headers last of the four maps of buildRequest.
LEMMA LastOfFour ==
    ASSUME NEW a, NEW b, NEW c, NEW d, NEW e
    PROVE  e \in Lasting(<<a, b, c, d>>) <=>
              \/ e \in d
              \/ e \in c /\ \A f \in d : ~SameName(e, f)
              \/ e \in b /\ \A f \in c \cup d : ~SameName(e, f)
              \/ e \in a /\ \A f \in b \cup c \cup d : ~SameName(e, f)
<1> DEFINE maps == <<a, b, c, d>>
           Stays(i) == \A k \in DOMAIN maps : k > i => \A f \in maps[k] : ~SameName(e, f)
<1>1. DOMAIN maps = 1..4 /\ maps[1] = a /\ maps[2] = b /\ maps[3] = c /\ maps[4] = d OBVIOUS
<1>2. e \in Lasting(maps) <=> \E i \in DOMAIN maps : e \in maps[i] /\ Stays(i) BY DEF Lasting
<1>3. Stays(4) /\ (Stays(3) <=> \A f \in d : ~SameName(e, f))
  BY <1>1
<1>4. Stays(2) <=> \A f \in c \cup d : ~SameName(e, f)
  BY <1>1
<1>5. Stays(1) <=> \A f \in b \cup c \cup d : ~SameName(e, f)
  BY <1>1
<1> HIDE DEF Stays, maps
<1>6. DOMAIN maps = {1, 2, 3, 4} BY <1>1
<1> QED BY <1>1, <1>2, <1>3, <1>4, <1>5, <1>6 DEF maps

\* Which headers last of the two maps of the other requests.
LEMMA LastOfTwo ==
    ASSUME NEW a, NEW d, NEW e
    PROVE  e \in Lasting(<<a, d>>) <=> e \in d \/ (e \in a /\ \A f \in d : ~SameName(e, f))
<1> DEFINE maps == <<a, d>>
           Stays(i) == \A k \in DOMAIN maps : k > i => \A f \in maps[k] : ~SameName(e, f)
<1>1. DOMAIN maps = 1..2 /\ maps[1] = a /\ maps[2] = d OBVIOUS
<1>2. e \in Lasting(maps) <=> \E i \in DOMAIN maps : e \in maps[i] /\ Stays(i) BY DEF Lasting
<1>3. Stays(2) /\ (Stays(1) <=> \A f \in d : ~SameName(e, f)) BY <1>1
<1> HIDE DEF Stays, maps
<1>4. DOMAIN maps = {1, 2} BY <1>1
<1> QED BY <1>1, <1>2, <1>3, <1>4 DEF maps

-----------------------------------------------------------------------------
(* What a request holds *)

\* A payload stays where it is put, and nothing else is put but placeholders.
LEMMA Placed ==
    ASSUME NEW params, NEW at0
    PROVE  /\ \A e \in Placements(params, at0) :
                 \/ \E p \in at0 : e = Entry(p.in, p.name, "payload")
                 \/ /\ \E i \in DOMAIN params : e = Entry(params[i].in, params[i].name, Placeholder(params[i]))
                    /\ \A p \in at0 : ~SamePlace(e, p)
           /\ \A p \in at0 : Entry(p.in, p.name, "payload") \in Placements(params, at0)
<1> DEFINE Stays(i) == \A k \in DOMAIN params :
              SamePlace(params[i], params[k]) => IF params[i].in = "path" THEN i <= k ELSE k <= i
           declared == {Entry(params[i].in, params[i].name, Placeholder(params[i])) : i \in {k \in DOMAIN params : Stays(k)}}
           over == {Entry(p.in, p.name, "payload") : p \in at0}
<1>1. Placements(params, at0) = Overlay(declared, over) BY DEF Placements
<1>2. \A e \in declared : \E i \in DOMAIN params : e = Entry(params[i].in, params[i].name, Placeholder(params[i]))
  OBVIOUS
<1>3. \A e \in over : \E p \in at0 : e = Entry(p.in, p.name, "payload") OBVIOUS
<1>4. \A p \in at0 : Entry(p.in, p.name, "payload") \in over OBVIOUS
<1>5. ASSUME NEW e, \A o \in over : ~SamePlace(e, o) PROVE \A p \in at0 : ~SamePlace(e, p)
  BY <1>4, <1>5 DEF SamePlace, Entry
<1> HIDE DEF declared, over
<1> QED BY <1>1, <1>2, <1>3, <1>4, <1>5 DEF Overlay

\* The custom parameters of a configuration, as the requests meet them.
Queries(params) == \A e \in params : e.in = "query" /\ e.value = "own"

\* A request r that is assembled of entries, of the headers that last of some
\* maps, and of the custom parameters.
Holds(r, ep, base, entries, maps, cfg) ==
    /\ r.to.path = base.path \o ep.path
    /\ \A e \in r.has :
          \/ e \in entries /\ e.in \in {"query", "body", "path", "cookie"}
          \/ e \in cfg.params
          \/ \E m \in Lasting(maps) : e = Written(m)
    /\ cfg.params \subseteq r.has
    /\ \A e \in entries :
          \/ e.in = "body"
          \/ e.in = "path" /\ e.name \in Holes(ep.path)
          \/ e.in = "query" /\ \A o \in cfg.params : o.name # e.name
          => e \in r.has
    /\ \A m \in Lasting(maps) : \E f \in Lasting(maps) : SameName(m, f) /\ Written(f) \in r.has
    /\ \A m \in Lasting(maps) :
          Canonical[m.name] = "Cookie" /\ (\A f \in Lasting(maps) : SameName(m, f) => f.value = "cookies")
          => \A e \in entries : e.in = "cookie" => e \in r.has

\* A request that is put together holds what Holds says of it.
LEMMA Assembled ==
    ASSUME NEW ep, NEW base, NEW entries, NEW maps, NEW cfg, NEW r \in Assemble(ep, base, entries, maps, cfg),
           Queries(cfg.params)
    PROVE  Holds(r, ep, base, entries, maps, cfg)
<1> DEFINE Body(h) == h \cup Overlay(In(entries, {"query"}), cfg.params) \cup In(entries, {"body"})
              \cup {e \in In(entries, {"path"}) : e.name \in Holes(ep.path)}
              \cup (IF Entry("header", "Cookie", "cookies") \in h THEN In(entries, {"cookie"}) ELSE {})
<1>1. PICK h \in HeaderSets(maps) :
        r = [to |-> [host |-> base.host, path |-> base.path \o ep.path], has |-> Body(h)]
  BY DEF Assemble
<1>2. r.to.path = base.path \o ep.path /\ r.has = Body(h) BY <1>1
<1>3. \A e \in Body(h) : \/ e \in h
                         \/ e \in entries /\ e.in \in {"query", "body", "path", "cookie"}
                         \/ e \in cfg.params
  BY DEF Overlay, In
<1>4. cfg.params \subseteq Body(h) BY DEF Overlay
<1>5. ASSUME NEW e \in entries,
             \/ e.in = "body"
             \/ e.in = "path" /\ e.name \in Holes(ep.path)
             \/ e.in = "query" /\ \A o \in cfg.params : o.name # e.name
      PROVE  e \in Body(h)
  BY <1>5 DEF Overlay, In, SamePlace
<1>6. h \subseteq Body(h) OBVIOUS
<1>7. ASSUME Entry("header", "Cookie", "cookies") \in h, NEW e \in entries, e.in = "cookie" PROVE e \in Body(h)
  BY <1>7 DEF In
<1> HIDE DEF Body
<1>8. \A m \in Lasting(maps) : \E f \in Lasting(maps) : SameName(m, f) /\ Written(f) \in h BY SetHeaders
<1>9. ASSUME NEW m \in Lasting(maps), Canonical[m.name] = "Cookie",
             \A f \in Lasting(maps) : SameName(m, f) => f.value = "cookies"
      PROVE  \A e \in entries : e.in = "cookie" => e \in Body(h)
  <2>1. PICK f \in Lasting(maps) : SameName(m, f) /\ Written(f) \in h BY <1>8
  <2>2. Written(f) = Entry("header", "Cookie", "cookies") BY <1>9, <2>1 DEF Written, SameName
  <2> QED BY <1>7, <2>1, <2>2
<1>10. \A g \in h : \E e \in Lasting(maps) : g = Written(e) BY SetHeaders
<1>11. \A e \in r.has : \/ e \in entries /\ e.in \in {"query", "body", "path", "cookie"}
                        \/ e \in cfg.params
                        \/ \E m \in Lasting(maps) : e = Written(m)
  BY <1>2, <1>3, <1>10
<1>12. \A m \in Lasting(maps) : \E f \in Lasting(maps) : SameName(m, f) /\ Written(f) \in r.has BY <1>2, <1>6, <1>8
<1>13. \A e \in entries :
          \/ e.in = "body"
          \/ e.in = "path" /\ e.name \in Holes(ep.path)
          \/ e.in = "query" /\ \A o \in cfg.params : o.name # e.name
          => e \in r.has
  BY <1>2, <1>5
<1> QED BY <1>2, <1>4, <1>9, <1>11, <1>12, <1>13 DEF Holds

\* The custom headers, as the requests meet them: those of the caller, the
\* defaults and the Origin of cors.
Customs(headers) == \A h \in headers : h.in = "header" /\ h.value \in {"own", "default", "payload"}
Bodies == {"none", "json", "xml", "other"}
Typed(e) == e.in \in Locations /\ e.value \in Values

\* The entries and the maps of a request that is built from the parameters.
TypeHeader(ep, entries) ==
    IF In(entries, {"body"}) # {} THEN Header("Content-Type", "json")
    ELSE IF ep.body.type # "none" /\ ep.method # "GET" /\ ep.body.example
    THEN Header("Content-Type", ep.body.type)
    ELSE {}
CookieHeader(entries) == IF In(entries, {"cookie"}) = {} THEN {} ELSE Header("Cookie", "cookies")
BuiltMaps(ep, entries, cfg) ==
    <<TypeHeader(ep, entries), In(entries, {"header"}), CookieHeader(entries), cfg.headers>>

\* buildRequest with the maps of its headers named.
LEMMA BuiltOf ==
    ASSUME NEW ep, NEW base, NEW at0, NEW cfg
    PROVE  buildRequest(ep, base, at0, cfg) =
              LET entries == Placements(ep.params, at0)
              IN  Assemble(ep, base, entries, BuiltMaps(ep, entries, cfg), cfg)
BY DEF buildRequest, BuiltMaps, TypeHeader, CookieHeader

\* Whatever a header that lasts is, it is one of these.
LEMMA BuiltLasting ==
    ASSUME NEW ep, ep.body.type \in Bodies, NEW entries, NEW cfg, Customs(cfg.headers),
           NEW m \in Lasting(BuiltMaps(ep, entries, cfg))
    PROVE  \/ m \in cfg.headers
           \/ m.value = "cookies" /\ In(entries, {"cookie"}) # {}
           \/ m \in entries /\ m.in = "header"
           \/ m.value \in {"json", "xml", "other"}
<1>1. \A e \in TypeHeader(ep, entries) : e.value \in {"json", "xml", "other"}
  <2>1. \A t : \A e \in Header("Content-Type", t) : e.value = t BY DEF Header, Entry
  <2> QED BY <2>1 DEF TypeHeader, Bodies
<1>2. \A e \in CookieHeader(entries) : e.value = "cookies" /\ In(entries, {"cookie"}) # {}
  BY DEF CookieHeader, Header, Entry
<1>3. \A e \in In(entries, {"header"}) : e \in entries /\ e.in = "header" BY DEF In
<1>4. \/ m \in cfg.headers \/ m \in CookieHeader(entries) \/ m \in In(entries, {"header"})
      \/ m \in TypeHeader(ep, entries)
  BY LastOfFour DEF BuiltMaps
<1> QED BY <1>1, <1>2, <1>3, <1>4

\* What a request holds: values of the program, payloads where they were put,
\* and what the caller configured.
Carries(r, ep, base, probes, cfg) ==
    /\ r.to.path = base.path \o ep.path
    /\ \A e \in r.has : Typed(e)
    /\ \A e \in r.has : e.value = "payload" =>
          \/ \E p \in probes : e.in = p.in /\ e.name = Key(p)
          \/ \E h \in cfg.headers : h.value = "payload" /\ e = Written(h)
    /\ \A e \in r.has : e.value \in {"own", "default"} =>
          e \in cfg.params \/ \E h \in cfg.headers : e = Written(h)
    /\ \A h \in cfg.headers : \E f \in cfg.headers : SameName(h, f) /\ Written(f) \in r.has
    /\ cfg.params \subseteq r.has

\* What a request of buildRequest carries.
LEMMA Built ==
    ASSUME NEW ep, ep.params \in Seq(Params), ep.body.type \in Bodies, NEW base,
           NEW at0, \A p \in at0 : p.in \in Locations,
           NEW cfg, Queries(cfg.params), Customs(cfg.headers),
           NEW r \in buildRequest(ep, base, at0, cfg)
    PROVE  Carries(r, ep, base, at0, cfg)
<1> DEFINE entries == Placements(ep.params, at0)
           maps == BuiltMaps(ep, entries, cfg)
<1>1. r \in Assemble(ep, base, entries, maps, cfg) BY BuiltOf
<1>2. \A e \in entries : /\ e.in \in Locations /\ e.value \in {"placeholder", "example", "payload"}
                         /\ e.value = "payload" => \E p \in at0 : e.in = p.in /\ e.name = p.name
  <2>1. \A i \in DOMAIN ep.params : ep.params[i] \in Params BY ElementOfSeq
  <2>2. \A i \in DOMAIN ep.params :
           ep.params[i].in \in Locations /\ Placeholder(ep.params[i]) \in {"placeholder", "example"}
    BY <2>1 DEF Params, Placeholder
  <2>3. ASSUME NEW e \in entries
        PROVE  /\ e.in \in Locations /\ e.value \in {"placeholder", "example", "payload"}
               /\ e.value = "payload" => \E p \in at0 : e.in = p.in /\ e.name = p.name
    <3>1. CASE \E p \in at0 : e = Entry(p.in, p.name, "payload") BY <3>1 DEF Entry
    <3>2. CASE \E i \in DOMAIN ep.params :
                  e = Entry(ep.params[i].in, ep.params[i].name, Placeholder(ep.params[i]))
      BY <2>2, <3>2 DEF Entry
    <3> QED BY <3>1, <3>2, Placed
  <2> QED BY <2>3
<1> HIDE DEF entries
<1>3. \A m \in Lasting(maps) : \/ m \in cfg.headers
                               \/ m.value = "cookies"
                               \/ m \in entries /\ m.in = "header"
                               \/ m.value \in {"json", "xml", "other"}
  BY BuiltLasting
<1>4. \A h \in cfg.headers : h \in Lasting(maps) BY LastOfFour DEF BuiltMaps
<1>5. ASSUME NEW m \in Lasting(maps), NEW h \in cfg.headers, SameName(h, m) PROVE m \in cfg.headers
  <2>1. SameName(m, h) BY <1>5 DEF SameName
  <2> QED BY <2>1, LastOfFour DEF BuiltMaps
<1> HIDE DEF maps
<1>6. /\ r.to.path = base.path \o ep.path
      /\ \A e \in r.has : \/ e \in entries /\ e.in \in {"query", "body", "path", "cookie"}
                          \/ e \in cfg.params
                          \/ \E m \in Lasting(maps) : e = Written(m)
      /\ cfg.params \subseteq r.has
      /\ \A m \in Lasting(maps) : \E f \in Lasting(maps) : SameName(m, f) /\ Written(f) \in r.has
  <2>1. Holds(r, ep, base, entries, maps, cfg) BY <1>1, Assembled
  <2> QED BY <2>1 DEF Holds
<1>7. \A m : Written(m).in = "header" /\ Written(m).value = m.value /\ Written(m).name = Canonical[m.name]
  BY DEF Written, Entry
<1>8. ASSUME NEW e \in r.has PROVE Typed(e)
  <2>1. CASE e \in entries BY <1>2, <2>1 DEF Typed, Values
  <2>2. CASE e \in cfg.params BY <2>2 DEF Queries, Typed, Locations, Values
  <2>3. ASSUME NEW m \in Lasting(maps), e = Written(m) PROVE Typed(e)
    <3>1. m.value \in Values BY <1>2, <1>3 DEF Customs, Values
    <3> QED BY <1>7, <2>3, <3>1 DEF Typed, Locations
  <2> QED BY <1>6, <2>1, <2>2, <2>3
<1>9. ASSUME NEW e \in r.has, e.value = "payload"
      PROVE  \/ \E p \in at0 : e.in = p.in /\ e.name = Key(p)
             \/ \E h \in cfg.headers : h.value = "payload" /\ e = Written(h)
  <2>1. CASE e \in entries /\ e.in \in {"query", "body", "path", "cookie"} BY <1>2, <1>9, <2>1 DEF Key
  <2>2. CASE e \in cfg.params BY <1>9, <2>2 DEF Queries
  <2>3. ASSUME NEW m \in Lasting(maps), e = Written(m), m \notin cfg.headers
        PROVE  \E p \in at0 : e.in = p.in /\ e.name = Key(p)
    <3>1. m.value = "payload" BY <1>7, <1>9, <2>3
    <3>2. m \in entries /\ m.in = "header" BY <1>3, <2>3, <3>1
    <3>3. PICK p \in at0 : m.in = p.in /\ m.name = p.name BY <1>2, <3>1, <3>2
    <3> QED BY <1>7, <2>3, <3>2, <3>3 DEF Key
  <2>4. ASSUME NEW m \in cfg.headers, e = Written(m)
        PROVE  \E h \in cfg.headers : h.value = "payload" /\ e = Written(h)
    BY <1>7, <1>9, <2>4
  <2> QED BY <1>6, <2>1, <2>2, <2>3, <2>4
<1>10. ASSUME NEW e \in r.has, e.value \in {"own", "default"}
       PROVE  e \in cfg.params \/ \E h \in cfg.headers : e = Written(h)
  BY <1>2, <1>3, <1>6, <1>7, <1>10
<1>11. \A h \in cfg.headers : \E f \in cfg.headers : SameName(h, f) /\ Written(f) \in r.has
  BY <1>4, <1>5, <1>6
<1> QED BY <1>6, <1>8, <1>9, <1>10, <1>11 DEF Carries

\* The same of a request whose body is given.
LEMMA Raw ==
    ASSUME NEW ep, ep.params \in Seq(Params), NEW base, NEW type \in {"json", "xml"},
           NEW body, \A e \in body : e.in = "body" /\ e.value \in {"benign", "payload"},
           NEW cfg, Queries(cfg.params), Customs(cfg.headers),
           NEW r \in SendRawBody(ep, base, type, body, cfg)
    PROVE  Carries(r, ep, base, {e \in body : e.value = "payload"}, cfg) /\ body \subseteq r.has
<1> DEFINE entries == In(Placements(ep.params, {}), {"path", "query"}) \cup body
           probes == {e \in body : e.value = "payload"}
           maps == <<Header("Content-Type", type), cfg.headers>>
<1>1. Holds(r, ep, base, entries, maps, cfg) BY Assembled DEF SendRawBody
<1>2. \A e \in entries : \/ e.in \in {"path", "query"} /\ e.value \in {"placeholder", "example"}
                         \/ e \in body
  <2>1. \A i \in DOMAIN ep.params : Placeholder(ep.params[i]) \in {"placeholder", "example"} BY DEF Placeholder
  <2>2. ASSUME NEW e \in Placements(ep.params, {}) PROVE e.value \in {"placeholder", "example"}
    <3>1. PICK i \in DOMAIN ep.params : e = Entry(ep.params[i].in, ep.params[i].name, Placeholder(ep.params[i]))
      BY Placed
    <3> QED BY <2>1, <3>1 DEF Entry
  <2> QED BY <2>2 DEF In
<1>3. body \subseteq entries OBVIOUS
<1>4. \A m \in Lasting(maps) : m \in cfg.headers \/ m.value = type
  <2>1. \A m \in Header("Content-Type", type) : m.value = type BY DEF Header, Entry
  <2> QED BY <2>1, LastOfTwo
<1>5. \A h \in cfg.headers : h \in Lasting(maps) BY LastOfTwo
<1>6. ASSUME NEW m \in Lasting(maps), NEW h \in cfg.headers, SameName(h, m) PROVE m \in cfg.headers
  <2>1. SameName(m, h) BY <1>6 DEF SameName
  <2> QED BY <2>1, LastOfTwo
<1> HIDE DEF entries, maps
<1>7. \A m : Written(m).in = "header" /\ Written(m).value = m.value /\ Written(m).name = Canonical[m.name]
  BY DEF Written, Entry
<1>8. \A e \in r.has : e \in entries \/ e \in cfg.params \/ \E m \in Lasting(maps) : e = Written(m)
  BY <1>1 DEF Holds
<1>9. ASSUME NEW e \in r.has PROVE Typed(e)
  <2>1. CASE e \in entries BY <1>2, <2>1 DEF Typed, Values, Locations
  <2>2. CASE e \in cfg.params BY <2>2 DEF Queries, Typed, Locations, Values
  <2>3. ASSUME NEW m \in Lasting(maps), e = Written(m) PROVE Typed(e)
    <3>1. m.value \in Values BY <1>4 DEF Customs, Values
    <3> QED BY <1>7, <2>3, <3>1 DEF Typed, Locations
  <2> QED BY <1>8, <2>1, <2>2, <2>3
<1>10. ASSUME NEW e \in r.has, e.value = "payload"
       PROVE  \/ \E p \in probes : e.in = p.in /\ e.name = Key(p)
              \/ \E h \in cfg.headers : h.value = "payload" /\ e = Written(h)
  <2>1. CASE e \in entries
    <3>1. e \in probes BY <1>2, <1>10, <2>1
    <3>2. e.name = Key(e) BY <3>1 DEF Key
    <3> QED BY <3>1, <3>2
  <2>2. CASE e \in cfg.params BY <1>10, <2>2 DEF Queries
  <2>3. ASSUME NEW m \in Lasting(maps), e = Written(m)
        PROVE  \E h \in cfg.headers : h.value = "payload" /\ e = Written(h)
    BY <1>4, <1>7, <1>10, <2>3
  <2> QED BY <1>8, <2>1, <2>2, <2>3
<1>11. ASSUME NEW e \in r.has, e.value \in {"own", "default"}
       PROVE  e \in cfg.params \/ \E h \in cfg.headers : e = Written(h)
  BY <1>2, <1>4, <1>7, <1>8, <1>11
<1>12. \A h \in cfg.headers : \E f \in cfg.headers : SameName(h, f) /\ Written(f) \in r.has
  BY <1>1, <1>5, <1>6 DEF Holds
<1>13. body \subseteq r.has BY <1>1, <1>3 DEF Holds
<1>14. r.to.path = base.path \o ep.path /\ cfg.params \subseteq r.has BY <1>1 DEF Holds
<1> QED BY <1>9, <1>10, <1>11, <1>12, <1>13, <1>14 DEF Carries

\* What keeps a payload from its place, for any endpoint and configuration.
Covered(ep, cfg, p) ==
    CASE p.in = "query" -> \E e \in cfg.params : e.name = p.name
      [] p.in = "header" ->
            \/ \E h \in cfg.headers : Canonical[h.name] = Canonical[p.name]
            \/ \E i \in DOMAIN ep.params :
                  LET d == ep.params[i]
                  IN  \/ d.in = "header" /\ d.name # p.name /\ Canonical[d.name] = Canonical[p.name]
                      \/ d.in = "cookie" /\ Canonical[p.name] = "Cookie"
      [] p.in = "cookie" -> \E h \in cfg.headers : Canonical[h.name] = "Cookie"
      [] p.in = "path" -> p.name \notin Holes(ep.path)
      [] OTHER -> FALSE

\* Overridden, with the endpoint and the configuration as arguments.
LEMMA CoveredIs == ASSUME NEW p PROVE Overridden(p) <=> Covered(test.ep, test.cfg, p)
BY DEF Overridden, Covered

\* Otherwise the payload is at its place.
LEMMA Hits ==
    ASSUME NEW ep, NEW base, NEW cfg, Queries(cfg.params), Customs(cfg.headers),
           NEW p, p.in \in Locations, ~Covered(ep, cfg, p),
           NEW r \in buildRequest(ep, base, {p}, cfg)
    PROVE  Has(r, p, "payload")
<1> DEFINE entries == Placements(ep.params, {p})
           maps == BuiltMaps(ep, entries, cfg)
           own == Entry(p.in, p.name, "payload")
<1>1. Holds(r, ep, base, entries, maps, cfg) BY BuiltOf, Assembled
<1>2. own \in entries /\ own.in = p.in /\ own.name = p.name /\ own.value = "payload" BY Placed DEF Entry
<1>3. ASSUME NEW e \in entries, e # own
      PROVE  /\ \E i \in DOMAIN ep.params : e.in = ep.params[i].in /\ e.name = ep.params[i].name
             /\ ~SamePlace(e, p)
  <2>1. /\ \E i \in DOMAIN ep.params : e = Entry(ep.params[i].in, ep.params[i].name, Placeholder(ep.params[i]))
        /\ ~SamePlace(e, p)
    BY <1>3, Placed
  <2> QED BY <2>1 DEF Entry
<1> HIDE DEF entries
<1>4. CASE p.in \in {"query", "path", "body"}
  <2>1. \/ own.in = "body"
        \/ own.in = "path" /\ own.name \in Holes(ep.path)
        \/ own.in = "query" /\ \A o \in cfg.params : o.name # own.name
    BY <1>2, <1>4 DEF Covered
  <2>2. own \in r.has BY <1>1, <1>2, <2>1 DEF Holds
  <2> QED BY <1>4, <2>2 DEF Has, Key
<1>5. CASE p.in = "cookie"
  <2> DEFINE m == Entry("header", "Cookie", "cookies")
  <2>1. own \in In(entries, {"cookie"}) BY <1>2, <1>5 DEF In
  <2>2. CookieHeader(entries) = {m} BY <2>1 DEF CookieHeader, Header
  <2>3. Canonical[m.name] = "Cookie" /\ m.value = "cookies" BY CanonicalAssumption DEF Entry
  <2> HIDE DEF m
  <2>4. \A h \in cfg.headers : Canonical[h.name] # "Cookie" BY <1>5 DEF Covered
  <2>5. \A h \in cfg.headers : ~SameName(m, h) BY <2>3, <2>4 DEF SameName
  <2>6. m \in Lasting(maps) BY <2>2, <2>5, LastOfFour DEF BuiltMaps
  <2>7. ASSUME NEW f \in Lasting(maps), SameName(m, f) PROVE f.value = "cookies"
    <3>1. f \notin cfg.headers BY <2>5, <2>7
    <3>2. SameName(f, m) BY <2>7 DEF SameName
    <3>3. f \in CookieHeader(entries) BY <2>2, <3>1, <3>2, LastOfFour DEF BuiltMaps
    <3> QED BY <2>2, <2>3, <3>3
  <2>8. \A e \in entries : e.in = "cookie" => e \in r.has BY <1>1, <2>3, <2>6, <2>7 DEF Holds
  <2>9. own \in r.has BY <1>2, <1>5, <2>8
  <2> QED BY <1>5, <2>9 DEF Has, Key
<1>6. CASE p.in = "header"
  <2>1. own \in In(entries, {"header"}) BY <1>2, <1>6 DEF In
  <2>2. \A h \in cfg.headers : ~SameName(own, h) BY <1>2, <1>6 DEF SameName, Covered
  <2>3. \A h \in CookieHeader(entries) : ~SameName(own, h)
    <3>1. SUFFICES ASSUME NEW h \in CookieHeader(entries) PROVE ~SameName(own, h) OBVIOUS
    <3>2. PICK e \in entries : e.in = "cookie" BY DEF CookieHeader, In
    <3>3. e # own BY <1>2, <1>6, <3>2
    <3>4. \E i \in DOMAIN ep.params : ep.params[i].in = "cookie" BY <1>3, <3>2, <3>3
    <3>5. Canonical[p.name] # "Cookie" BY <1>6, <3>4 DEF Covered
    <3>6. h.name = "Cookie" BY DEF CookieHeader, Header, Entry
    <3> QED BY <1>2, <3>5, <3>6, CanonicalAssumption DEF SameName
  <2>4. own \in Lasting(maps) BY <2>1, <2>2, <2>3, LastOfFour DEF BuiltMaps
  <2>5. PICK f \in Lasting(maps) : SameName(own, f) /\ Written(f) \in r.has BY <1>1, <2>4 DEF Holds
  <2>6. SameName(f, own) /\ f \notin cfg.headers /\ f \notin CookieHeader(entries)
    BY <2>2, <2>3, <2>5 DEF SameName
  <2>7. f \in In(entries, {"header"}) BY <2>1, <2>6, LastOfFour DEF BuiltMaps
  <2>8. f \in entries /\ f.in = "header" BY <2>7 DEF In
  <2>9. f = own
    <3>1. SUFFICES ASSUME f # own PROVE FALSE OBVIOUS
    <3>2. PICK i \in DOMAIN ep.params : f.in = ep.params[i].in /\ f.name = ep.params[i].name BY <1>3, <2>8, <3>1
    <3>3. f.name # p.name BY <1>3, <1>6, <2>8, <3>1 DEF SamePlace
    <3> QED BY <1>2, <1>6, <2>6, <2>8, <3>2, <3>3 DEF Covered, SameName
  <2> QED BY <1>2, <1>6, <2>5, <2>9 DEF Has, Key, Written
<1> QED BY <1>4, <1>5, <1>6 DEF Locations
-----------------------------------------------------------------------------
(* The configuration and the targets of a call *)

Configured(args) == applyDefaults(ToConfig(args, Base), Defaults)

\* What the defaults leave of a call's arguments.
LEMMA Configuration ==
    ASSUME NEW args \in Arguments
    PROVE  LET cfg == Configured(args)
           IN  /\ cfg.headers = Overlay(Defaults.headers, args.headers) /\ cfg.params = args.params
               /\ cfg.url = args.url /\ cfg.source = args.source /\ cfg.fields = args.fields
               /\ cfg.base \in URLs /\ cfg.points \in Seq(Points)
<1>1. ToConfig(args, Base) = [args EXCEPT !.base = IF args.base = NoURL THEN Base ELSE args.base] BY DEF ToConfig
<1> DEFINE to == ToConfig(args, Base)
<1>2. /\ to \in Arguments /\ to.headers = args.headers /\ to.params = args.params
      /\ to.url = args.url /\ to.source = args.source /\ to.fields = args.fields
  BY <1>1, ExecutorAssumption DEF Arguments
<1> HIDE DEF to
<1>3. Configured(args) = [to EXCEPT !.headers = Overlay(Defaults.headers, to.headers),
                                    !.points = IF to.points = <<>> THEN Defaults.points ELSE to.points]
  BY DEF Configured, applyDefaults, to
<1> DEFINE cfg == Configured(args)
           h == Overlay(Defaults.headers, to.headers)
           d == Defaults.points
<1>4. d \in Seq(Points) BY ExecutorAssumption
<1>5. cfg = [to EXCEPT !.headers = h, !.points = IF to.points = <<>> THEN d ELSE to.points] BY <1>3
<1> HIDE DEF cfg, h, d
<1>6. /\ cfg.headers = h /\ cfg.params = to.params /\ cfg.url = to.url /\ cfg.source = to.source
      /\ cfg.fields = to.fields /\ cfg.base = to.base
      /\ cfg.points = IF to.points = <<>> THEN d ELSE to.points
  BY <1>2, <1>5 DEF Arguments
<1>7. to.base \in URLs /\ to.points \in Seq(Points) BY <1>2 DEF Arguments
<1> QED BY <1>2, <1>4, <1>6, <1>7 DEF cfg, h

\* The headers of a configuration are the caller's and defaults for other names.
LEMMA Headers ==
    ASSUME NEW args \in Arguments
    PROVE  /\ Customs(Configured(args).headers) /\ Queries(Configured(args).params)
           /\ args.headers \subseteq Configured(args).headers
           /\ \A h \in Configured(args).headers :
                 /\ h.value \in {"own", "default"}
                 /\ h \in args.headers \/ (h \in Defaults.headers /\ \A g \in args.headers : g.name # h.name)
           /\ \A h \in args.headers : h.in = "header" /\ h.value = "own"
<1>1. Configured(args).headers = Overlay(Defaults.headers, args.headers) /\ Configured(args).params = args.params
  BY Configuration
<1>2. \A h \in args.headers : h.in = "header" /\ h.value = "own" BY DEF Arguments
<1>3. \A h \in Defaults.headers : h.in = "header" /\ h.value = "default" BY ExecutorAssumption
<1>4. \A h \in Configured(args).headers : \/ h \in args.headers
                                          \/ h \in Defaults.headers /\ \A g \in args.headers : g.name # h.name
  BY <1>1, <1>2, <1>3 DEF Overlay, SamePlace
<1>5. args.headers \subseteq Configured(args).headers BY <1>1 DEF Overlay
<1>6. Queries(Configured(args).params) BY <1>1 DEF Arguments, Queries
<1>7. \A h \in Configured(args).headers : h.in = "header" /\ h.value \in {"own", "default"} BY <1>2, <1>3, <1>4
<1> QED BY <1>2, <1>4, <1>5, <1>6, <1>7 DEF Customs

EndpointOK(ep) == ep.params \in Seq(Params) /\ ep.path \in Seq(Segments) /\ ep.body.type \in Bodies

\* Param makes parameters.
LEMMA ParamIn == ASSUME NEW n \in STRING, NEW l \in Locations, NEW x \in BOOLEAN PROVE Param(n, l, x) \in Params
BY DEF Param, Params

\* A function on 1..n is a sequence.
LEMMA Listed == ASSUME NEW S, NEW n \in Nat, NEW f \in [1..n -> S] PROVE f \in Seq(S)
BY SeqDef

\* Every endpoint of a document is one.
LEMMA SpecEndpoints ==
    ASSUME NEW s \in DOMAIN Documents, Documents[s].readable, Documents[s].format \in {"swagger2", "openapi3"},
           NEW ep \in extractSpec(Documents[s].doc)
    PROVE  EndpointOK(ep)
<1> DEFINE doc == Documents[s].doc
<1>1. \A p \in DOMAIN doc.paths :
         /\ p \in Seq(Segments) /\ doc.paths[p].params \in Seq(Params)
         /\ \A o \in DOMAIN doc.paths[p].ops :
               /\ doc.paths[p].ops[o].params \in Seq(Params)
               /\ \A t \in DOMAIN doc.paths[p].ops[o].content :
                     t \in {"json", "xml", "other"} /\ doc.paths[p].ops[o].content[t].fields \in Seq(STRING)
  BY DocumentsAssumption
<1> HIDE DEF doc
<1> DEFINE Endpoint(p, o, b) ==
              [path |-> p, method |-> o,
               params |-> doc.paths[p].params \o doc.paths[p].ops[o].params \o bodyParams(b),
               body |-> b, secured |-> doc.paths[p].ops[o].secured]
<1>2. \E p \in DOMAIN doc.paths : \E o \in DOMAIN doc.paths[p].ops :
         \E b \in convertBody(doc.paths[p].ops[o].content) : ep = Endpoint(p, o, b)
  <2>1. ep \in UNION {UNION {{Endpoint(p, o, b) : b \in convertBody(doc.paths[p].ops[o].content)} :
                             o \in DOMAIN doc.paths[p].ops} : p \in DOMAIN doc.paths}
    BY DEF extractSpec, doc
  <2> HIDE DEF Endpoint
  <2> QED BY <2>1
<1>3. PICK p \in DOMAIN doc.paths : \E o \in DOMAIN doc.paths[p].ops :
         \E b \in convertBody(doc.paths[p].ops[o].content) : ep = Endpoint(p, o, b)
  BY <1>2
<1>4. PICK o \in DOMAIN doc.paths[p].ops :
         \E b \in convertBody(doc.paths[p].ops[o].content) : ep = Endpoint(p, o, b)
  BY <1>3
<1>5. PICK b \in convertBody(doc.paths[p].ops[o].content) : ep = Endpoint(p, o, b) BY <1>4
<1> DEFINE content == doc.paths[p].ops[o].content
<1>6. \A t \in DOMAIN content : t \in {"json", "xml", "other"} /\ content[t].fields \in Seq(STRING) BY <1>1
<1> HIDE DEF content
<1>7. b.type \in Bodies /\ b.fields \in Seq(STRING)
  <2> DEFINE Info(t) == [type |-> t, fields |-> content[t].fields, example |-> content[t].example]
  <2>1. b \in convertBody(content) BY DEF content
  <2>2. \/ b = NoBody \/ \E t \in DOMAIN content : b = Info(t) \/ b = [Info(t) EXCEPT !.example = FALSE]
    BY <2>1 DEF convertBody
  <2>3. <<>> \in Seq(STRING) OBVIOUS
  <2>4. CASE b = NoBody BY <2>3, <2>4 DEF NoBody, Bodies
  <2>5. ASSUME NEW t \in DOMAIN content, b = Info(t) \/ b = [Info(t) EXCEPT !.example = FALSE]
        PROVE  b.type \in Bodies /\ b.fields \in Seq(STRING)
    <3>1. b.type = t /\ b.fields = content[t].fields BY <2>5
    <3> QED BY <1>6, <3>1 DEF Bodies
  <2> QED BY <2>2, <2>4, <2>5
<1>8. bodyParams(b) \in Seq(Params)
  <2>1. \A i \in 1..Len(b.fields) : Param(b.fields[i], "body", FALSE) \in Params
    BY <1>7, ElementOfSeq, ParamIn DEF Locations
  <2>2. DOMAIN b.fields = 1..Len(b.fields) /\ Len(b.fields) \in Nat BY <1>7
  <2>3. bodyParams(b) = [i \in 1..Len(b.fields) |-> Param(b.fields[i], "body", FALSE)] BY <2>2 DEF bodyParams
  <2>4. bodyParams(b) \in [1..Len(b.fields) -> Params] BY <2>1, <2>3
  <2> QED BY <2>2, <2>4, Listed
<1>9. doc.paths[p].params \o doc.paths[p].ops[o].params \o bodyParams(b) \in Seq(Params) BY <1>1, <1>8
<1>10. p \in Seq(Segments) BY <1>1
<1>11. ep.params \in Seq(Params) /\ ep.path = p /\ ep.body = b BY <1>5, <1>9
<1> QED BY <1>7, <1>10, <1>11 DEF EndpointOK

Behind(url, base, own, ep) == url.host = "" => own.path \o ep.path = base.path \o url.path

\* So is the endpoint of a URL; a URL without a host is put behind the path of
\* the base, which is dropped from the base then.
LEMMA UrlEndpoint ==
    ASSUME NEW url \in URLs, NEW method, NEW base \in URLs, NEW example, NEW fields \in Seq(STRING),
           NEW r \in BuildEndpointFromURL(url, method, base, example, fields), NEW ep \in r.endpoints
    PROVE  EndpointOK(ep) /\ Behind(url, base, r.base, ep)
<1> DEFINE absolute == url.host # ""
           queries == [i \in DOMAIN url.query |-> Param(url.query[i], "query", TRUE)]
           bodies == [i \in DOMAIN fields |-> Param(fields[i], "body", FALSE)]
           body == IF example \/ fields # <<>> THEN [type |-> "json", fields |-> fields, example |-> example] ELSE NoBody
           path == IF absolute THEN url.path ELSE base.path \o url.path
           host == IF absolute THEN url.host ELSE base.host
<1>1. /\ r.base.path = <<>>
      /\ ep.path = path /\ ep.params = queries \o bodies /\ ep.body = body
  <2> DEFINE one == [path |-> path, method |-> IF method = "" THEN "GET" ELSE method,
                     params |-> queries \o bodies, body |-> body, secured |-> FALSE]
             some == [ok |-> TRUE, endpoints |-> {one}, base |-> [NoURL EXCEPT !.host = host]]
             none == [ok |-> FALSE, endpoints |-> {}, base |-> NoURL]
  <2>1. BuildEndpointFromURL(url, method, base, example, fields) =
           IF ~absolute /\ base = NoURL THEN {none} ELSE {some}
    BY DEF BuildEndpointFromURL
  <2>2. none.endpoints = {} OBVIOUS
  <2>3. r # none BY <2>2
  <2>4. r = some BY <2>1, <2>3
  <2>5. [NoURL EXCEPT !.host = host].path = <<>> BY DEF NoURL
  <2>6. ep = one BY <2>4
  <2> QED BY <2>4, <2>5, <2>6
<1>2. body.type \in Bodies BY DEF NoBody, Bodies
<1>3. queries \in Seq(Params)
  <2>1. Len(url.query) \in Nat /\ DOMAIN url.query = 1..Len(url.query) BY DEF URLs
  <2>2. \A i \in DOMAIN url.query : Param(url.query[i], "query", TRUE) \in Params
    BY <2>1, ElementOfSeq, ParamIn DEF URLs, Locations
  <2>3. queries \in [1..Len(url.query) -> Params] BY <2>1, <2>2
  <2> QED BY <2>1, <2>3, Listed
<1>4. bodies \in Seq(Params)
  <2>1. Len(fields) \in Nat /\ DOMAIN fields = 1..Len(fields) OBVIOUS
  <2>2. \A i \in DOMAIN fields : Param(fields[i], "body", FALSE) \in Params
    BY <2>1, ElementOfSeq, ParamIn DEF Locations
  <2>3. bodies \in [1..Len(fields) -> Params] BY <2>1, <2>2
  <2> QED BY <2>1, <2>3, Listed
<1> HIDE DEF queries, bodies, body
<1>5. queries \o bodies \in Seq(Params) BY <1>3, <1>4
<1>6. base.path \in Seq(Segments) /\ url.path \in Seq(Segments) BY DEF URLs
<1>7. path \in Seq(Segments)
  <2>1. base.path \o url.path \in Seq(Segments) BY <1>6
  <2> QED BY <1>6, <2>1
<1>8. <<>> \o path = path
  <2> HIDE DEF path
  <2> QED BY <1>7, ConcatEmptySeq
<1> QED BY <1>1, <1>2, <1>5, <1>7, <1>8 DEF EndpointOK, Behind

\* A URL without a host stays behind the path of the base that is configured.
Aimed(cfg, base, ep) == cfg.url # NoURL => Behind(cfg.url, cfg.base, base, ep)

\* The targets of a configuration.
LEMMA Resolved ==
    ASSUME NEW args \in Arguments, NEW r \in resolveTargets(Configured(args)), NEW ep \in r.endpoints
    PROVE  EndpointOK(ep) /\ Aimed(Configured(args), r.base, ep)
<1> DEFINE cfg == Configured(args)
<1>1. /\ cfg.url \in URLs /\ cfg.base \in URLs /\ cfg.fields \in Seq(STRING) /\ cfg.source \subseteq DOMAIN Documents
  BY Configuration DEF Arguments
<1> HIDE DEF cfg
<1>2. CASE cfg.url # NoURL
  <2>1. r \in BuildEndpointFromURL(cfg.url, cfg.method, cfg.base, cfg.example, cfg.fields)
    BY <1>2 DEF resolveTargets, cfg
  <2>2. EndpointOK(ep) /\ Behind(cfg.url, cfg.base, r.base, ep)
    BY <1>1, <2>1, UrlEndpoint
  <2> QED BY <2>2 DEF Aimed, cfg
<1>3. CASE cfg.url = NoURL
  <2> DEFINE Based(t) == [t EXCEPT !.base = IF cfg.base # NoURL THEN cfg.base ELSE @]
  <2>1. PICK s \in cfg.source : \E t \in LoadSpec(Documents[s]) : r = Based(t)
    <3>1. r \in {Based(t) : t \in UNION {LoadSpec(Documents[s]) : s \in cfg.source}}
      BY <1>3 DEF resolveTargets, cfg
    <3> HIDE DEF Based
    <3> QED BY <3>1
  <2>0. PICK t \in LoadSpec(Documents[s]) : r = Based(t) BY <2>1
  <2>2. s \in DOMAIN Documents BY <1>1
  <2>3. r.endpoints = t.endpoints BY <2>0 DEF LoadSpec
  <2>4. CASE Documents[s].readable /\ Documents[s].format \in {"swagger2", "openapi3"}
    <3>1. t.endpoints = extractSpec(Documents[s].doc) BY <2>0, <2>4 DEF LoadSpec
    <3>2. EndpointOK(ep) BY <2>2, <2>3, <2>4, <3>1, SpecEndpoints
    <3> QED BY <1>3, <3>2 DEF Aimed, cfg
  <2>5. CASE ~(Documents[s].readable /\ Documents[s].format \in {"swagger2", "openapi3"})
    BY <2>0, <2>3, <2>5 DEF LoadSpec
  <2> QED BY <2>4, <2>5
<1> QED BY <1>2, <1>3

-----------------------------------------------------------------------------
(* The rounds of a test *)

\* Where picks the wanted elements of a sequence.
LEMMA Picked ==
    ASSUME NEW S, NEW params \in Seq(S), NEW wanted
    PROVE  Where(params, wanted) \in Seq(S) /\ ToSet(Where(params, wanted)) = ToSet(params) \cap wanted
<1> DEFINE n == Len(params)
           parts == [i \in 1..n |-> IF params[i] \in wanted THEN <<params[i]>> ELSE <<>>]
<1>1. n \in Nat /\ DOMAIN params = 1..n /\ \A i \in 1..n : params[i] \in S BY ElementOfSeq
<1>2. Where(params, wanted) = FlattenSeq(parts) BY <1>1 DEF Where
<1>3. \A i \in 1..n : (IF params[i] \in wanted THEN <<params[i]>> ELSE <<>>) \in Seq(S)
  <2>1. <<>> \in Seq(S) OBVIOUS
  <2>2. \A i \in 1..n : <<params[i]>> \in Seq(S) BY <1>1
  <2> QED BY <2>1, <2>2
<1>4. parts \in [1..n -> Seq(S)] BY <1>3
<1>5. parts \in Seq(Seq(S)) BY <1>1, <1>4, Listed
<1>6. Len(parts) = n BY <1>1, <1>4, <1>5, LenProperties
<1>7. \A i \in 1..n : Range(parts[i]) = IF params[i] \in wanted THEN {params[i]} ELSE {}
  <2>1. \A x : Range(<<x>>) = {x} BY DEF Range
  <2>2. Range(<<>>) = {} BY DEF Range
  <2>3. \A i \in 1..n : parts[i] = IF params[i] \in wanted THEN <<params[i]>> ELSE <<>> OBVIOUS
  <2> HIDE DEF parts
  <2> QED BY <2>1, <2>2, <2>3
<1>8. FlattenSeq(parts) \in Seq(S) /\ Range(FlattenSeq(parts)) = UNION {Range(parts[i]) : i \in 1..n}
  BY <1>5, <1>6, Flattened
<1>9. UNION {Range(parts[i]) : i \in 1..n} = {params[i] : i \in 1..n} \cap wanted
  <2> HIDE DEF parts
  <2> QED BY <1>7
<1>10. ToSet(params) = {params[i] : i \in 1..n} BY <1>1 DEF ToSet
<1>11. \A s : ToSet(s) = Range(s) BY DEF ToSet, Range
<1> QED BY <1>2, <1>8, <1>9, <1>10, <1>11

\* The insert points stand for declared parameters or for one that is not.
Guessed(pt) == Param(pt.name, IF pt.loc = Locations THEN "query" ELSE CHOOSE l \in pt.loc : TRUE, FALSE)
Meant(params, pt) == IF Declared(params, pt) # <<>> THEN Declared(params, pt) ELSE <<Guessed(pt)>>

\* What an insert point is parsed to.
LEMMA PointIs ==
    ASSUME NEW x \in Points
    PROVE  LET pt == ParseInsertPoint(x)
           IN  pt.name \in STRING /\ pt.loc \subseteq Locations /\ pt.loc # {}
BY DEF ParseInsertPoint, Points, Locations

\* What an insert point stands for are parameters.
LEMMA MeantParams ==
    ASSUME NEW params \in Seq(Params), NEW x \in Points
    PROVE  Meant(params, ParseInsertPoint(x)) \in Seq(Params)
<1> DEFINE pt == ParseInsertPoint(x)
<1>1. pt.name \in STRING /\ pt.loc \subseteq Locations /\ pt.loc # {} BY PointIs
<1> HIDE DEF pt
<1>2. Declared(params, pt) \in Seq(Params) BY Picked DEF Declared
<1>3. (CHOOSE l \in pt.loc : TRUE) \in Locations BY <1>1
<1>4. Guessed(pt) \in Params BY <1>1, <1>3, ParamIn DEF Guessed, Locations
<1>5. <<Guessed(pt)>> \in Seq(Params) BY <1>4
<1> QED BY <1>2, <1>5 DEF Meant, pt

\* ResolveInsertPoints gives the declared parameters, or what the points stand for.
LEMMA PointsParams ==
    ASSUME NEW params \in Seq(Params), NEW points \in Seq(Points)
    PROVE  /\ ResolveInsertPoints(params, points) \in Seq(Params)
           /\ ToSet(ResolveInsertPoints(params, points)) =
                 IF points = <<>> THEN ToSet(params)
                 ELSE UNION {ToSet(Meant(params, ParseInsertPoint(points[i]))) : i \in DOMAIN points}
<1>1. CASE points = <<>> BY <1>1 DEF ResolveInsertPoints
<1>2. CASE points # <<>>
  <2> DEFINE n == Len(points)
             parts == [i \in 1..n |-> Meant(params, ParseInsertPoint(points[i]))]
  <2>1. n \in Nat /\ DOMAIN points = 1..n /\ \A i \in 1..n : points[i] \in Points BY ElementOfSeq
  <2>2. ResolveInsertPoints(params, points) = FlattenSeq(parts)
    BY <1>2, <2>1 DEF ResolveInsertPoints, Meant, Guessed
  <2>3. \A i \in 1..n : Meant(params, ParseInsertPoint(points[i])) \in Seq(Params) BY <2>1, MeantParams
  <2>4. parts \in [1..n -> Seq(Params)] BY <2>3
  <2>5. parts \in Seq(Seq(Params)) BY <2>1, <2>4, Listed
  <2>6. Len(parts) = n BY <2>1, <2>4, <2>5, LenProperties
  <2>7. /\ FlattenSeq(parts) \in Seq(Params)
        /\ Range(FlattenSeq(parts)) = UNION {Range(parts[i]) : i \in 1..n}
    BY <2>5, <2>6, Flattened
  <2>8. \A s : ToSet(s) = Range(s) BY DEF ToSet, Range
  <2>9. UNION {Range(parts[i]) : i \in 1..n} = UNION {ToSet(Meant(params, ParseInsertPoint(points[i]))) : i \in 1..n}
    BY <2>8
  <2> QED BY <1>2, <2>1, <2>2, <2>7, <2>8, <2>9
<1> QED BY <1>1, <1>2

Subjects == Params \cup {Whole, XmlBody}

\* Every round is at a location.
LEMMA SubjectIn == ASSUME NEW p \in Subjects PROVE p.in \in Locations
BY DEF Subjects, Params, Whole, XmlBody, Param, Locations

\* The rounds of a plugin are the resolved parameters it applies to, or one place for the endpoint.
LEMMA RoundsParams ==
    ASSUME NEW plugin, NEW ep, EndpointOK(ep), NEW points \in Seq(Points)
    PROVE  /\ Rounds(plugin, ep, points) \in Seq(Subjects)
           /\ Rounds(plugin, ep, points) # <<>> => Concerns(plugin, ep)
           /\ plugin = "xxe" => \A p \in ToSet(Rounds(plugin, ep, points)) : p = XmlBody
           /\ plugin \in Injecting /\ Concerns(plugin, ep) =>
                 ToSet(Rounds(plugin, ep, points)) = {p \in ToSet(ResolveInsertPoints(ep.params, points)) : Applies(plugin, p)}
<1> DEFINE params == ResolveInsertPoints(ep.params, points)
           wanted == {p \in ToSet(params) : Applies(plugin, p)}
<1>1. params \in Seq(Params) BY PointsParams DEF EndpointOK
<1>2. Where(params, wanted) \in Seq(Params) /\ ToSet(Where(params, wanted)) = ToSet(params) \cap wanted
  <2> HIDE DEF wanted, params
  <2> QED BY <1>1, Picked
<1>3. Params \subseteq Subjects BY DEF Subjects
<1>4. Where(params, wanted) \in Seq(Subjects) BY <1>2, <1>3, SeqMonotonic
<1>5. <<>> \in Seq(Subjects) /\ ToSet(<<>>) = {} BY DEF ToSet
<1>6. <<Whole>> \in Seq(Subjects) /\ <<XmlBody>> \in Seq(Subjects)
  <2>1. Whole \in Subjects /\ XmlBody \in Subjects BY DEF Subjects
  <2> QED BY <2>1
<1>7. ToSet(<<XmlBody>>) = {XmlBody} BY DEF ToSet
<1>8. Rounds(plugin, ep, points) =
         IF ~Concerns(plugin, ep) THEN <<>>
         ELSE IF plugin \in Injecting THEN Where(params, wanted)
         ELSE IF plugin = "xxe" THEN <<XmlBody>> ELSE <<Whole>>
  BY DEF Rounds
<1>9. "xxe" \notin Injecting BY DEF Injecting
<1>10. ToSet(params) \cap wanted = wanted OBVIOUS
<1> HIDE DEF params, wanted
<1> QED BY <1>2, <1>4, <1>5, <1>6, <1>7, <1>8, <1>9, <1>10 DEF params, wanted
-----------------------------------------------------------------------------
(* Answers *)

\* Marks a service can show, and answers it can give.
Known == Shown \cup {"echo", "location", "origin", "signature"} \cup UNION {Spelled(i) : i \in DOMAIN Privileged}
Answers == [error : BOOLEAN, status : {"ok", "redirect", "denied"}, marks : SUBSET Known, size : Nat, slow : BOOLEAN]

\* A page shows no mark but the ones known.
LEMMA MarksKnown == ASSUME NEW req, NEW k PROVE Marks(req, k) \subseteq Known
<1>1. Effect \in {"echo", "location", "origin", "signature"} BY DEF Effect
<1>2. Bound(req) \subseteq UNION {Spelled(i) : i \in DOMAIN Privileged} BY DEF Bound
<1> QED BY <1>1, <1>2 DEF Marks, Known, Shown

\* The replies, and the two that stand for a failure and a refusal, are answers.
LEMMA ReplyIs ==
    ASSUME NEW req, NEW k \in Nat, NEW truth
    PROVE  /\ Reply(req, k, truth) \in Answers /\ Refused \in Answers /\ Failed \in Answers
           /\ Failed.error /\ ~Refused.error /\ ~Reply(req, k, truth).error
           /\ Refused.marks = {} /\ Refused.status = "denied" /\ Refused.size = 9 /\ ~Refused.slow
<1>1. Refused \in Answers /\ Failed \in Answers
  <2>1. Refused \in Answers BY DEF Refused, Answers
  <2>2. Failed = [Refused EXCEPT !.error = TRUE] BY DEF Failed
  <2> QED BY <2>1, <2>2 DEF Answers
<1>2. Failed.error /\ ~Refused.error /\ Refused.marks = {} /\ Refused.status = "denied" /\ Refused.size = 9 /\ ~Refused.slow
  BY DEF Failed, Refused
<1> DEFINE status == IF Marks(req, k) \cap {"location", "carried"} # {} THEN "redirect" ELSE "ok"
           size == IF call.plugin = "idor" THEN k ELSE IF ~truth /\ Effective(req, Condition) THEN 2 ELSE 3
           slow == k > Condition /\ Effective(req, k)
           full == [error |-> FALSE, status |-> status, marks |-> Marks(req, k), size |-> size, slow |-> slow]
<1>3. Reply(req, k, truth) = IF ~Admits(req) \/ (call.plugin = "idor" /\ ~Effective(req, k)) THEN Refused ELSE full
  BY DEF Reply
<1>4. status \in {"ok", "redirect", "denied"} /\ size \in Nat OBVIOUS
<1>5. slow \in BOOLEAN BY Zenon
<1>6. Marks(req, k) \in SUBSET Known BY MarksKnown
<1> HIDE DEF status, size, slow
<1>7. full \in Answers /\ ~full.error BY <1>4, <1>5, <1>6 DEF Answers
<1> QED BY <1>1, <1>2, <1>3, <1>7

\* An exchange is the service's answer to a request of the plugin, or, while
\* there are faults left, something else; a cancelled context lets none through.
Came(x, p, k, truth) ==
    /\ x.req \in Requests(call.plugin, p) /\ x.answer \in Answers
    /\ \/ ~interrupted /\ x.answer = Reply(x.req, k, truth)
       \/ interrupted /\ x.answer = Failed
       \/ /\ ~interrupted /\ faults # 0 /\ x.answer # Reply(x.req, k, truth)
          /\ x.answer \in Disturbed(Reply(x.req, k, truth))

\* What an exchange can be.
LEMMA Exchanged ==
    ASSUME NEW p, NEW k \in Nat, NEW truth, NEW x \in Exchanges(p, k, truth)
    PROVE  Came(x, p, k, truth)
<1> DEFINE Answered(r) == IF interrupted THEN {Failed} ELSE {Reply(r, k, truth)} \cup Disturbed(Reply(r, k, truth))
<1>1. \E r \in Requests(call.plugin, p) : \E a \in Answered(r) : x = [req |-> r, answer |-> a]
  BY DEF Exchanges
<1>2. PICK r \in Requests(call.plugin, p) : \E a \in Answered(r) : x = [req |-> r, answer |-> a] BY <1>1
<1>3. PICK a \in Answered(r) : x = [req |-> r, answer |-> a] BY <1>2
<1>4. x.req = r /\ x.answer = a BY <1>3
<1>5. faults = 0 => Disturbed(Reply(r, k, truth)) = {} BY DEF Disturbed
<1>6. Reply(r, k, truth) \in Answers /\ Refused \in Answers /\ Failed \in Answers BY ReplyIs
<1>7. Disturbed(Reply(r, k, truth)) \subseteq Answers
  <2> DEFINE b == Reply(r, k, truth)
             slow == [b EXCEPT !.slow = TRUE]
             cut == [b EXCEPT !.marks = b.marks \cap InHeaders, !.size = 0]
  <2>1. b \in Answers BY <1>6
  <2> HIDE DEF b
  <2>2. slow \in Answers BY <2>1 DEF Answers
  <2>3. b.marks \cap InHeaders \in SUBSET Known BY <2>1 DEF Answers
  <2>4. cut \in Answers BY <2>1, <2>3 DEF Answers
  <2>5. Disturbed(b) \subseteq {Failed, Refused, slow, cut} BY DEF Disturbed
  <2> QED BY <1>6, <2>2, <2>4, <2>5 DEF b
<1>8. a \in Answers BY <1>6, <1>7
<1> QED BY <1>2, <1>3, <1>4, <1>5, <1>8 DEF Came
-----------------------------------------------------------------------------
(* The course of a test *)

Active == {"payload", "baseline", "true", "false", "time", "confirm"}
Spots == [stage : Places, i : Nat, j : 1..NumPayloads]

\* What a test is about follows from the call.
Tested ==
    /\ test.cfg = Configured(call.args)
    /\ EndpointOK(test.ep) /\ Aimed(test.cfg, test.base, test.ep)
    /\ test.rounds = Rounds(call.plugin, test.ep, test.cfg.points)

Shape ==
    /\ call \in Calls /\ service \in Services[call.plugin]
    /\ at \in Spots /\ (at.stage = "called" => at.i = 1 /\ at.j = 1)
    /\ at.stage \in Active => Scanning /\ at.i \in 1..Len(test.rounds)
    /\ at.stage \in Active \ {"payload"} => call.plugin = "sqli"
    /\ ~Scanning => test = NoTest /\ found = {} /\ kept = <<>>
    /\ Scanning => Tested /\ (call.plugin \in builtins)

\* Where a request of a test may lead.
Onward ==
    /\ at' \in Spots
    /\ \/ at'.stage = "over"
       \/ at'.stage = "payload" /\ at'.i = at.i + 1 /\ at'.i <= Len(test.rounds) /\ at'.j = 1
       \/ at'.i = at.i /\ at'.stage = at.stage /\ at'.j = at.j + 1
       \/ /\ at'.i = at.i /\ call.plugin = "sqli"
          /\ \/ at.stage = "payload" /\ at'.stage = "baseline"
             \/ at.stage = "baseline" /\ at'.stage = "true"
             \/ at.stage = "true" /\ at'.stage = "false"
             \/ at.stage = "false" /\ at'.stage = "time"
             \/ at.stage = "time" /\ at'.stage = "confirm" /\ at'.j = at.j
             \/ at.stage = "confirm" /\ at'.stage = "time" /\ at'.j = at.j + 1

\* The arguments and the rounds of a scan are typed.
LEMMA Tuned == ASSUME Shape, Scanning PROVE call.args \in Arguments /\ test.rounds \in Seq(Subjects)
<1>1. call.args \in Arguments BY CallsAssumption DEF Shape
<1>2. EndpointOK(test.ep) /\ test.cfg.points \in Seq(Points) BY <1>1, Configuration DEF Shape, Tested
<1>3. Rounds(call.plugin, test.ep, test.cfg.points) \in Seq(Subjects) BY <1>2, RoundsParams
<1> QED BY <1>1, <1>3 DEF Shape, Tested

\* A test has finitely many rounds, also before it starts.
LEMMA Rounded == Shape => Len(test.rounds) \in Nat
<1> SUFFICES ASSUME Shape PROVE Len(test.rounds) \in Nat OBVIOUS
<1>1. CASE Scanning BY <1>1, Tuned
<1>2. CASE ~Scanning
  <2>1. test.rounds = <<>> BY <1>2 DEF Shape, NoTest
  <2> QED BY <2>1
<1> QED BY <1>1, <1>2

\* A change of stage leaves the round and the payload.
LEMMA Staged ==
    ASSUME Shape, NEW s \in Places, Stage(s)
    PROVE  at' \in Spots /\ at'.stage = s /\ at'.i = at.i /\ at'.j = at.j
<1>1. at \in [stage : Places, i : Nat, j : 1..NumPayloads] BY DEF Shape, Spots
<1>2. at' = [at EXCEPT !.stage = s] BY DEF Stage
<1> QED BY <1>1, <1>2 DEF Spots

\* NextRound goes to the first payload of the next round, or ends the test.
LEMMA RoundMoves ==
    ASSUME Shape, NextRound
    PROVE  /\ Onward /\ at'.i = at.i + 1 /\ at'.j = 1
           /\ at.i < Len(test.rounds) => at'.stage = "payload"
           /\ ~(at.i < Len(test.rounds)) => at'.stage = "over"
<1>1. at.i \in Nat /\ 1 \in 1..NumPayloads BY ProbesAssumption DEF Shape, Spots
<1>2. Len(test.rounds) \in Nat BY Rounded
<1>3. at' = [stage |-> IF at.i < Len(test.rounds) THEN "payload" ELSE "over", i |-> at.i + 1, j |-> 1] BY DEF NextRound
<1>4. (IF at.i < Len(test.rounds) THEN "payload" ELSE "over") \in Places BY DEF Places
<1>5. at' \in Spots BY <1>1, <1>3, <1>4 DEF Spots
<1>6. at'.i = at.i + 1 /\ at'.j = 1 /\ at'.stage = IF at.i < Len(test.rounds) THEN "payload" ELSE "over" BY <1>3
<1> QED BY <1>1, <1>2, <1>5, <1>6 DEF Onward

\* The next payload of the round.
LEMMA Advanced ==
    ASSUME Shape, at.j < Steps, at' = [at EXCEPT !.j = at.j + 1]
    PROVE  Onward /\ at'.stage = at.stage /\ at'.i = at.i /\ at'.j = at.j + 1 /\ at'.j <= Steps
<1>1. at \in [stage : Places, i : Nat, j : 1..NumPayloads] BY DEF Shape, Spots
<1>2. Steps \in 1..NumPayloads BY ProbesAssumption DEF Steps
<1>3. at.j + 1 \in 1..NumPayloads /\ at.j + 1 <= Steps BY <1>1, <1>2, ProbesAssumption
<1>4. at' \in Spots BY <1>1, <1>3 DEF Spots
<1>5. at'.stage = at.stage /\ at'.i = at.i /\ at'.j = at.j + 1 BY <1>1
<1> QED BY <1>3, <1>4, <1>5 DEF Onward

\* NextPayload goes to the next payload, or leaves the round after the last.
LEMMA PayloadMoves ==
    ASSUME Shape, NextPayload
    PROVE  /\ Onward
           /\ \/ at.j < Steps /\ at'.stage = at.stage /\ at'.i = at.i /\ at'.j = at.j + 1 /\ at'.j <= Steps
              \/ ~(at.j < Steps) /\ NextRound
<1>1. CASE at.j < Steps
  <2>1. at' = [at EXCEPT !.j = at.j + 1] BY <1>1 DEF NextPayload
  <2> QED BY <1>1, <2>1, Advanced
<1>2. CASE ~(at.j < Steps)
  <2>1. NextRound BY <1>2 DEF NextPayload
  <2> QED BY <1>2, <2>1, RoundMoves
<1> QED BY <1>1, <1>2

\* A step of a test goes onward and leaves the call, the service and the test alone.
LEMMA Moves ==
    ASSUME Shape, Test
    PROVE  at.stage \in Active /\ Onward /\ UNCHANGED <<call, service, test, interrupted>>
<1>0. /\ at.i \in Nat /\ at.stage \in Places
      /\ {"baseline", "true", "false", "time", "confirm", "over"} \subseteq Places
  BY DEF Shape, Spots, Places
<1>1. CASE Stop
  <2>1. Stage("over") /\ at.stage = "payload" /\ UNCHANGED <<call, service, test, interrupted>> BY <1>1 DEF Stop
  <2> QED BY <1>0, <2>1, Staged DEF Onward, Active
<1>2. CASE Probe
  <2>1. at.stage = "payload" BY <1>2 DEF Probe, Goes
  <2>2. UNCHANGED <<call, service, test, interrupted>> BY <1>2 DEF Probe, Sent
  <2>3. NextRound \/ NextPayload BY <1>2 DEF Probe
  <2> QED BY <2>1, <2>2, <2>3, RoundMoves, PayloadMoves DEF Active
<1>3. CASE ProbeFields
  <2>1. at.stage = "payload" BY <1>3 DEF ProbeFields, Goes
  <2>2. UNCHANGED <<call, service, test, interrupted>> BY <1>3 DEF ProbeFields, Sent
  <2>3. NextRound BY <1>3 DEF ProbeFields
  <2> QED BY <2>1, <2>2, <2>3, RoundMoves DEF Active
<1>4. CASE ProbeIdentifier
  <2>1. at.stage = "payload" BY <1>4 DEF ProbeIdentifier, Goes
  <2>2. UNCHANGED <<call, service, test, interrupted>> BY <1>4 DEF ProbeIdentifier, Sent
  <2>3. NextPayload BY <1>4 DEF ProbeIdentifier
  <2> QED BY <2>1, <2>2, <2>3, PayloadMoves DEF Active
<1>5. CASE ProbeErrors
  <2>1. at.stage = "payload" /\ call.plugin = "sqli" BY <1>5 DEF ProbeErrors, Goes
  <2>2. UNCHANGED <<call, service, test, interrupted>> BY <1>5 DEF ProbeErrors, Sent
  <2>3. NextRound \/ (at.j < Steps /\ at' = [at EXCEPT !.j = at.j + 1]) \/ Stage("baseline")
    BY <1>5 DEF ProbeErrors
  <2>4. CASE NextRound BY <2>1, <2>2, <2>4, RoundMoves DEF Active
  <2>5. CASE at.j < Steps /\ at' = [at EXCEPT !.j = at.j + 1] BY <2>1, <2>2, <2>5, Advanced DEF Active
  <2>6. CASE Stage("baseline") BY <1>0, <2>1, <2>2, <2>6, Staged DEF Active, Onward
  <2> QED BY <2>3, <2>4, <2>5, <2>6
<1>6. CASE ProbeBaseline
  <2>1. at.stage = "baseline" /\ call.plugin = "sqli" BY <1>6 DEF ProbeBaseline, Goes
  <2>2. UNCHANGED <<call, service, test, interrupted>> BY <1>6 DEF ProbeBaseline, Sent
  <2>3. NextRound \/ Stage("true") BY <1>6 DEF ProbeBaseline
  <2>4. CASE NextRound BY <2>1, <2>2, <2>4, RoundMoves DEF Active
  <2>5. CASE Stage("true") BY <1>0, <2>1, <2>2, <2>5, Staged DEF Active, Onward
  <2> QED BY <2>3, <2>4, <2>5
<1>7. CASE ProbeTrue
  <2>1. at.stage = "true" /\ call.plugin = "sqli" BY <1>7 DEF ProbeTrue, Goes
  <2>2. UNCHANGED <<call, service, test, interrupted>> BY <1>7 DEF ProbeTrue, Sent
  <2>3. Stage("false") BY <1>7 DEF ProbeTrue
  <2> QED BY <1>0, <2>1, <2>2, <2>3, Staged DEF Active, Onward
<1>8. CASE ProbeFalse
  <2>1. at.stage = "false" /\ call.plugin = "sqli" BY <1>8 DEF ProbeFalse, Goes
  <2>2. UNCHANGED <<call, service, test, interrupted>> BY <1>8 DEF ProbeFalse, Sent
  <2>3. NextRound \/ at' = [at EXCEPT !.stage = "time", !.j = 1] BY <1>8 DEF ProbeFalse
  <2>4. CASE NextRound BY <2>1, <2>2, <2>4, RoundMoves DEF Active
  <2>5. CASE at' = [at EXCEPT !.stage = "time", !.j = 1]
    <3>1. at \in [stage : Places, i : Nat, j : 1..NumPayloads] BY DEF Shape, Spots
    <3>2. 1 \in 1..NumPayloads BY ProbesAssumption
    <3>3. at' \in Spots BY <1>0, <2>5, <3>1, <3>2 DEF Spots
    <3>4. at'.stage = "time" /\ at'.i = at.i BY <2>5, <3>1
    <3> QED BY <2>1, <2>2, <3>3, <3>4 DEF Active, Onward
  <2> QED BY <2>3, <2>4, <2>5
<1>9. CASE ProbeDelay
  <2>1. at.stage = "time" /\ call.plugin = "sqli" BY <1>9 DEF ProbeDelay, Goes
  <2>2. UNCHANGED <<call, service, test, interrupted>> BY <1>9 DEF ProbeDelay, Sent
  <2>3. NextPayload \/ Stage("confirm") BY <1>9 DEF ProbeDelay
  <2>4. CASE NextPayload BY <2>1, <2>2, <2>4, PayloadMoves DEF Active
  <2>5. CASE Stage("confirm") BY <1>0, <2>1, <2>2, <2>5, Staged DEF Active, Onward
  <2> QED BY <2>3, <2>4, <2>5
<1>10. CASE ConfirmDelay
  <2>1. at.stage = "confirm" /\ call.plugin = "sqli" BY <1>10 DEF ConfirmDelay, Goes
  <2>2. UNCHANGED <<call, service, test, interrupted>> BY <1>10 DEF ConfirmDelay, Sent
  <2>3. NextRound \/ (at.j < Steps /\ at' = [at EXCEPT !.stage = "time", !.j = at.j + 1]) BY <1>10 DEF ConfirmDelay
  <2>4. CASE NextRound BY <2>1, <2>2, <2>4, RoundMoves DEF Active
  <2>5. CASE at.j < Steps /\ at' = [at EXCEPT !.stage = "time", !.j = at.j + 1]
    <3>1. at \in [stage : Places, i : Nat, j : 1..NumPayloads] BY DEF Shape, Spots
    <3>2. Steps \in 1..NumPayloads BY ProbesAssumption DEF Steps
    <3>3. at.j + 1 \in 1..NumPayloads BY <2>5, <3>1, <3>2, ProbesAssumption
    <3>4. at' \in Spots BY <1>0, <2>5, <3>1, <3>3 DEF Spots
    <3>5. at'.stage = "time" /\ at'.i = at.i /\ at'.j = at.j + 1 BY <2>5, <3>1
    <3> QED BY <2>1, <2>2, <3>4, <3>5 DEF Active, Onward
  <2> QED BY <2>3, <2>4, <2>5
<1> QED BY <1>1, <1>2, <1>3, <1>4, <1>5, <1>6, <1>7, <1>8, <1>9, <1>10 DEF Test

\* A scan starts with the first round, or is over or has failed at once.
LEMMA Started ==
    ASSUME Shape, StartScan
    PROVE  /\ at'.stage \in {"payload", "over", "failed"} /\ at' \in Spots /\ at'.i = 1 /\ at'.j = 1
           /\ at'.stage = "failed" => test' = test
           /\ at'.stage # "failed" => Tested' /\ call.plugin \in builtins
           /\ at'.stage = "payload" => 1 <= Len(test'.rounds)
           /\ at'.stage = "over" => test'.rounds = <<>>
           /\ call.tool = "scan_api" /\ at.stage = "called"
           /\ UNCHANGED <<call, service, kept, found, wire, faults, interrupted>>
<1> DEFINE cfg == Configured(call.args)
<1>0. at.stage = "called" /\ at.i = 1 /\ at.j = 1 /\ call.args \in Arguments
  BY CallsAssumption DEF StartScan, Shape
<1>1. call.tool = "scan_api" /\ UNCHANGED <<call, service, kept, found, wire, faults, interrupted>> BY DEF StartScan
<1>2. \/ Stage("failed") /\ UNCHANGED test
      \/ /\ call.plugin \in builtins
         /\ \E r \in resolveTargets(cfg) : \E ep \in r.endpoints :
               LET rounds == Rounds(call.plugin, ep, cfg.points)
               IN  /\ test' = [ep |-> ep, base |-> r.base, cfg |-> cfg, rounds |-> rounds]
                   /\ Stage(IF rounds = <<>> THEN "over" ELSE "payload")
  BY DEF StartScan, Configured
<1>3. {"over", "payload", "failed"} \subseteq Places BY DEF Places
<1>4. CASE Stage("failed") /\ UNCHANGED test
  <2>1. at' \in Spots /\ at'.stage = "failed" /\ at'.i = at.i /\ at'.j = at.j BY <1>3, <1>4, Staged
  <2> QED BY <1>0, <1>1, <1>4, <2>1
<1>5. ASSUME call.plugin \in builtins, NEW r \in resolveTargets(cfg), NEW ep \in r.endpoints,
             LET rounds == Rounds(call.plugin, ep, cfg.points)
             IN  /\ test' = [ep |-> ep, base |-> r.base, cfg |-> cfg, rounds |-> rounds]
                 /\ Stage(IF rounds = <<>> THEN "over" ELSE "payload")
      PROVE  /\ at'.stage \in {"payload", "over"} /\ at' \in Spots /\ at'.i = 1 /\ at'.j = 1
             /\ Tested'
             /\ at'.stage = "payload" => 1 <= Len(test'.rounds)
             /\ at'.stage = "over" => test'.rounds = <<>>
  <2> DEFINE rounds == Rounds(call.plugin, ep, cfg.points)
  <2>1. test' = [ep |-> ep, base |-> r.base, cfg |-> cfg, rounds |-> rounds]
        /\ Stage(IF rounds = <<>> THEN "over" ELSE "payload")
    BY <1>5
  <2>2. EndpointOK(ep) /\ Aimed(cfg, r.base, ep) BY <1>0, Resolved
  <2>3. cfg.points \in Seq(Points) BY <1>0, Configuration
  <2>4. rounds \in Seq(Subjects) BY <2>2, <2>3, RoundsParams
  <2> HIDE DEF rounds, cfg
  <2>5. rounds # <<>> => 1 <= Len(rounds) BY <2>4
  <2>6. (IF rounds = <<>> THEN "over" ELSE "payload") \in Places BY <1>3
  <2> DEFINE s == IF rounds = <<>> THEN "over" ELSE "payload"
  <2>7. at' \in Spots /\ at'.stage = s /\ at'.i = at.i /\ at'.j = at.j BY <2>1, <2>6, Staged
  <2>8. test'.ep = ep /\ test'.base = r.base /\ test'.cfg = cfg /\ test'.rounds = rounds BY <2>1
  <2>9. call'.args = call.args /\ call'.plugin = call.plugin BY <1>1
  <2>10. cfg = Configured(call'.args) /\ rounds = Rounds(call'.plugin, ep, cfg.points) BY <2>9 DEF cfg, rounds
  <2>11. Tested' BY <2>2, <2>8, <2>10 DEF Tested
  <2> QED BY <1>0, <2>5, <2>7, <2>8, <2>11
<1> QED BY <1>0, <1>1, <1>2, <1>4, <1>5

\* A request of the model's own is the whole of its call.
LEMMA OwnSent ==
    ASSUME Shape, SendOwn
    PROVE  /\ at.stage = "called" /\ call.tool = "http_request"
           /\ at' \in Spots /\ at'.stage \in {"over", "failed"}
           /\ UNCHANGED <<call, service, test, kept, found, faults, interrupted>>
           /\ \/ UNCHANGED wire
              \/ \E r \in HTTPRequest(call.args, Base, Defaults) : wire' = [sent |-> {r}, param |-> Whole]
<1>1. /\ at.stage = "called" /\ call.tool = "http_request"
      /\ UNCHANGED <<call, service, test, kept, found, faults, interrupted>>
  BY DEF SendOwn
<1>2. \/ Stage("failed") /\ UNCHANGED wire
      \/ Stage("over") /\ \E r \in HTTPRequest(call.args, Base, Defaults) : wire' = [sent |-> {r}, param |-> Whole]
  BY DEF SendOwn
<1>3. {"over", "failed"} \subseteq Places BY DEF Places
<1> QED BY <1>1, <1>2, <1>3, Staged

\* Shape holds at first ...
LEMMA InitShape == ASSUME Init PROVE Shape
<1>1. /\ call \in Calls /\ service \in Services[call.plugin] /\ test = NoTest
      /\ at = [stage |-> "called", i |-> 1, j |-> 1] /\ kept = <<>> /\ found = {}
  BY DEF Init
<1>2. "called" \in Places /\ 1 \in Nat /\ 1 \in 1..NumPayloads BY ProbesAssumption DEF Places
<1>3. at \in Spots BY <1>1, <1>2 DEF Spots
<1>4. at.stage = "called" /\ at.i = 1 /\ at.j = 1 BY <1>1
<1> QED BY <1>1, <1>3, <1>4 DEF Shape, Active, Scanning

\* ... and is kept by every step.
LEMMA StepShape == ASSUME Shape, [Next]_vars PROVE Shape'
<1>1. CASE Test
  <2>1. at.stage \in Active /\ Onward /\ UNCHANGED <<call, service, test, interrupted>> BY <1>1, Moves
  <2>2. Scanning /\ at.i \in 1..Len(test.rounds) /\ Len(test.rounds) \in Nat BY <2>1, Rounded DEF Shape
  <2>3. at'.stage \in Active \cup {"over"} BY <2>1 DEF Onward, Active
  <2>4. at'.stage \in Active => at'.i \in 1..Len(test.rounds) BY <2>1, <2>2 DEF Onward, Active
  <2>5. at'.stage \in Active \ {"payload"} => call.plugin = "sqli" BY <2>1 DEF Onward, Active, Shape
  <2>6. Scanning' BY <2>1, <2>2, <2>3 DEF Scanning, Active
  <2>7. Tested' BY <2>1, <2>2 DEF Shape, Tested
  <2>8. at'.stage # "called" BY <2>3 DEF Active
  <2>9. at' \in Spots BY <2>1 DEF Onward
  <2>10. call' = call /\ service' = service /\ test' = test BY <2>1
  <2> QED BY <2>2, <2>4, <2>5, <2>6, <2>7, <2>8, <2>9, <2>10 DEF Shape
<1>2. CASE StartScan
  <2>1. /\ at'.stage \in {"payload", "over", "failed"} /\ at' \in Spots /\ at'.i = 1
        /\ at'.stage = "failed" => test' = test
        /\ at'.stage # "failed" => Tested' /\ call.plugin \in builtins
        /\ at'.stage = "payload" => 1 <= Len(test'.rounds)
        /\ call.tool = "scan_api" /\ at.stage = "called"
        /\ call' = call /\ service' = service /\ kept' = kept /\ found' = found
    BY <1>2, Started
  <2>2. test = NoTest /\ found = {} /\ kept = <<>> BY <2>1 DEF Shape, Scanning
  <2>3. Scanning' <=> at'.stage # "failed" BY <2>1 DEF Scanning
  <2>4. at'.stage = "payload" => at'.i \in 1..Len(test'.rounds)
    <3>1. at'.stage = "payload" => test'.rounds \in Seq(Subjects)
      <4>1. SUFFICES ASSUME at'.stage = "payload" PROVE test'.rounds \in Seq(Subjects) OBVIOUS
      <4>2. call'.args \in Arguments BY <2>1, CallsAssumption DEF Shape
      <4>3. Tested' BY <2>1, <4>1
      <4>4. EndpointOK(test'.ep) /\ test'.cfg.points \in Seq(Points) BY <4>2, <4>3, Configuration DEF Tested
      <4>5. Rounds(call'.plugin, test'.ep, test'.cfg.points) \in Seq(Subjects) BY <4>4, RoundsParams
      <4> QED BY <4>3, <4>5 DEF Tested
    <3> QED BY <2>1, <3>1
  <2>5. at'.stage \in Active => at'.stage = "payload" BY <2>1 DEF Active
  <2> QED BY <2>1, <2>2, <2>3, <2>4, <2>5 DEF Shape
<1>3. CASE SendOwn
  <2>1. /\ at.stage = "called" /\ call.tool = "http_request"
        /\ at' \in Spots /\ at'.stage \in {"over", "failed"}
        /\ call' = call /\ service' = service /\ test' = test /\ kept' = kept /\ found' = found
    BY <1>3, OwnSent
  <2>2. ~Scanning /\ ~Scanning' BY <2>1 DEF Scanning
  <2>3. at'.stage \notin Active BY <2>1 DEF Active
  <2> QED BY <2>1, <2>2, <2>3 DEF Shape
<1>4. CASE Interrupt \/ UNCHANGED vars
  <2>1. UNCHANGED <<call, service, test, at, kept, found>> BY <1>4 DEF Interrupt, vars
  <2>2. (Scanning' <=> Scanning) /\ (Tested' <=> Tested) BY <2>1 DEF Scanning, Tested
  <2> QED BY <2>1, <2>2 DEF Shape
<1> QED BY <1>1, <1>2, <1>3, <1>4 DEF Next

\* The rank by parts, which the steps compare.
First(stage, i, n) == IF stage \in {"over", "failed"} THEN n + 2 ELSE IF stage = "called" THEN 0 ELSE i
Second(stage) ==
    CASE stage = "baseline" -> 1 [] stage = "true" -> 2 [] stage = "false" -> 3
      [] stage \in {"time", "confirm"} -> 4 [] OTHER -> 0
Third(stage, j) ==
    IF stage \in {"over", "failed"} THEN 0 ELSE 2 * j + (IF stage = "confirm" THEN 1 ELSE 0)

\* Rank by its three parts.
LEMMA RankIs ==
    /\ Rank[1] = First(at.stage, at.i, Len(test.rounds))
    /\ Rank[2] = Second(at.stage)
    /\ Rank[3] = Third(at.stage, at.j)
<1>1. CASE at.stage \in {"over", "failed"}
  <2>1. Rank = <<Len(test.rounds) + 2, 0, 0>> BY <1>1 DEF Rank
  <2> QED BY <1>1, <2>1 DEF First, Second, Third
<1>2. CASE at.stage \notin {"over", "failed"}
  <2> DEFINE a == IF at.stage = "called" THEN 0 ELSE at.i
             b == CASE at.stage = "baseline" -> 1 [] at.stage = "true" -> 2 [] at.stage = "false" -> 3
                    [] at.stage \in {"time", "confirm"} -> 4 [] OTHER -> 0
             c == 2 * at.j + IF at.stage = "confirm" THEN 1 ELSE 0
  <2>1. Rank = <<a, b, c>> BY <1>2 DEF Rank
  <2>2. a = First(at.stage, at.i, Len(test.rounds)) BY <1>2 DEF First
  <2>3. b = Second(at.stage) BY DEF Second
  <2>4. c = Third(at.stage, at.j) BY <1>2 DEF Third
  <2> HIDE DEF a, b, c
  <2>5. Rank[1] = a /\ Rank[2] = b /\ Rank[3] = c BY <2>1
  <2> QED BY <2>2, <2>3, <2>4, <2>5
<1> QED BY <1>1, <1>2

RisesAt(n) == Rank[n] < Rank'[n] /\ \A m \in 1..(n - 1) : Rank[m] = Rank'[m]

\* Every step that moves goes up in rank.
LEMMA StepRank ==
    ASSUME Shape, Shape', [Next]_vars, at' # at
    PROVE  \E n \in 1..3 : RisesAt(n)
<1> DEFINE n == Len(test.rounds)
           n1 == Len(test'.rounds)
<1>0. n \in Nat /\ n1 \in Nat /\ at \in Spots /\ at' \in Spots
  <2>1. n \in Nat /\ at \in Spots BY Rounded DEF Shape
  <2>2. (Shape => Len(test.rounds) \in Nat)' BY Rounded, PTL
  <2> QED BY <2>1, <2>2 DEF Shape
<1>1. Rank[1] = First(at.stage, at.i, n) /\ Rank[2] = Second(at.stage) /\ Rank[3] = Third(at.stage, at.j)
  BY RankIs
<1>2. /\ Rank'[1] = First(at'.stage, at'.i, n1) /\ Rank'[2] = Second(at'.stage)
      /\ Rank'[3] = Third(at'.stage, at'.j)
  <2>1. (/\ Rank[1] = First(at.stage, at.i, Len(test.rounds)) /\ Rank[2] = Second(at.stage)
         /\ Rank[3] = Third(at.stage, at.j))'
    BY RankIs, PTL
  <2> QED BY <2>1
<1> HIDE DEF n, n1
<1>3. at.i \in Nat /\ at'.i \in Nat /\ at.j \in Nat /\ at'.j \in Nat
  BY <1>0, ProbesAssumption DEF Spots
<1>4. ASSUME Rank[1] < Rank'[1] PROVE \E k \in 1..3 : RisesAt(k) BY <1>4 DEF RisesAt
<1>5. ASSUME Rank[1] = Rank'[1], Rank[2] < Rank'[2] PROVE \E k \in 1..3 : RisesAt(k)
  <2>1. \A m \in 1..(2 - 1) : m = 1 OBVIOUS
  <2>2. RisesAt(2) BY <1>5, <2>1 DEF RisesAt
  <2> QED BY <2>2
<1>6. ASSUME Rank[1] = Rank'[1], Rank[2] = Rank'[2], Rank[3] < Rank'[3] PROVE \E k \in 1..3 : RisesAt(k)
  <2>1. \A m \in 1..(3 - 1) : m = 1 \/ m = 2 OBVIOUS
  <2>2. RisesAt(3) BY <1>6, <2>1 DEF RisesAt
  <2> QED BY <2>2
<1>7. CASE Test
  <2>1. at.stage \in Active /\ Onward /\ n1 = n BY <1>7, Moves DEF n, n1
  <2>2. at.i \in 1..n BY <2>1 DEF Shape, n
  <2>3. Rank[1] = at.i BY <1>1, <2>1 DEF First, Active
  <2>4. CASE at'.stage = "over"
    <3>1. Rank'[1] = n + 2 BY <1>2, <2>1, <2>4 DEF First
    <3> QED BY <1>0, <1>4, <2>2, <2>3, <3>1
  <2>5. CASE at'.stage = "payload" /\ at'.i = at.i + 1
    <3>1. Rank'[1] = at.i + 1 BY <1>2, <2>5 DEF First
    <3> QED BY <1>3, <1>4, <2>3, <3>1
  <2>6. CASE at'.i = at.i /\ at'.stage = at.stage /\ at'.j = at.j + 1
    <3>1. Rank'[1] = Rank[1] /\ Rank'[2] = Rank[2] BY <1>1, <1>2, <2>1, <2>6
    <3>2. Rank[3] < Rank'[3] BY <1>1, <1>2, <1>3, <2>1, <2>6 DEF Third, Active
    <3> QED BY <1>6, <3>1, <3>2
  <2>7. CASE at'.i = at.i /\ at.stage = "time" /\ at'.stage = "confirm" /\ at'.j = at.j
    <3>1. Rank'[1] = Rank[1] /\ Rank'[2] = Rank[2] BY <1>1, <1>2, <2>1, <2>7 DEF First, Second
    <3>2. Rank[3] < Rank'[3] BY <1>1, <1>2, <1>3, <2>7 DEF Third
    <3> QED BY <1>6, <3>1, <3>2
  <2>8. CASE at'.i = at.i /\ at.stage = "confirm" /\ at'.stage = "time" /\ at'.j = at.j + 1
    <3>1. Rank'[1] = Rank[1] /\ Rank'[2] = Rank[2] BY <1>1, <1>2, <2>1, <2>8 DEF First, Second
    <3>2. Rank[3] < Rank'[3] BY <1>1, <1>2, <1>3, <2>8 DEF Third
    <3> QED BY <1>6, <3>1, <3>2
  <2>9. CASE /\ at'.i = at.i
             /\ \/ at.stage = "payload" /\ at'.stage = "baseline"
                \/ at.stage = "baseline" /\ at'.stage = "true"
                \/ at.stage = "true" /\ at'.stage = "false"
                \/ at.stage = "false" /\ at'.stage = "time"
    <3>1. Rank'[1] = Rank[1] BY <1>2, <2>3, <2>9 DEF First
    <3>2. Rank[2] < Rank'[2] BY <1>1, <1>2, <2>9 DEF Second
    <3> QED BY <1>5, <3>1, <3>2
  <2> QED BY <2>1, <2>4, <2>5, <2>6, <2>7, <2>8, <2>9 DEF Onward
<1>8. CASE StartScan
  <2>1. at.stage = "called" /\ at'.stage \in {"payload", "over", "failed"} /\ at'.i = 1 BY <1>8, Started
  <2>2. Rank[1] = 0 BY <1>1, <2>1 DEF First
  <2>3. Rank'[1] > 0 BY <1>0, <1>2, <2>1 DEF First
  <2> QED BY <1>0, <1>4, <2>2, <2>3
<1>9. CASE SendOwn
  <2>1. at.stage = "called" /\ at'.stage \in {"over", "failed"} BY <1>9, OwnSent
  <2>2. Rank[1] = 0 BY <1>1, <2>1 DEF First
  <2>3. Rank'[1] > 0 BY <1>0, <1>2, <2>1 DEF First
  <2> QED BY <1>0, <1>4, <2>2, <2>3
<1>10. CASE Interrupt \/ UNCHANGED vars BY <1>10 DEF Interrupt, vars
<1> QED BY <1>7, <1>8, <1>9, <1>10 DEF Next

\* The course of a test is as Shape says, and it goes forward with every
\* request: the property the run checks, for every service and every list.
THEOREM AdvanceCorrect == Spec => TestAdvances
<1>1. Shape /\ Shape' /\ [Next]_vars => [\E n \in 1..3 : (Rank[n] < Rank'[n] /\ \A m \in 1..(n - 1) : Rank[m] = Rank'[m])]_at
  BY StepRank DEF RisesAt
<1>2. Init => Shape BY InitShape
<1>3. Shape /\ [Next]_vars => Shape' BY StepShape
<1> QED BY <1>1, <1>2, <1>3, PTL DEF Spec, TestAdvances
-----------------------------------------------------------------------------
(* The requests of a test *)

\* A configuration with other headers.
LEMMA Reheaded ==
    ASSUME NEW args \in Arguments, NEW hs
    PROVE  LET cfg == [Configured(args) EXCEPT !.headers = hs]
           IN  cfg.headers = hs /\ cfg.params = Configured(args).params
<1> DEFINE to == ToConfig(args, Base)
<1>1. to = [args EXCEPT !.base = IF args.base = NoURL THEN Base ELSE args.base] BY DEF ToConfig
<1>2. DOMAIN args = {"url", "source", "base", "method", "example", "fields", "points", "headers", "params"}
  BY DEF Arguments
<1>3. DOMAIN to = DOMAIN args BY <1>1
<1> HIDE DEF to
<1>4. Configured(args) = [to EXCEPT !.headers = Overlay(Defaults.headers, to.headers),
                                    !.points = IF to.points = <<>> THEN Defaults.points ELSE to.points]
  BY DEF Configured, applyDefaults, to
<1>5. DOMAIN Configured(args) = DOMAIN to BY <1>4
<1> QED BY <1>2, <1>3, <1>5

\* What a request of the plugin holds.
Payloads(r, p) ==
    \A e \in r.has : e.value = "payload" =>
        CASE call.plugin \in Injecting \cup {"xxe"} -> e.in = p.in /\ e.name = Key(p)
          [] call.plugin = "mass_assignment" -> \E i \in Undeclared(test.ep) : e.in = "body" /\ e.name = Privileged[i].field
          [] call.plugin = "cors" -> e.in = "header" /\ e.name = Canonical["Origin"]
          [] OTHER -> FALSE

Custom(r) ==
    /\ \A h \in call.args.headers :
          \/ Has(r, h, h.value)
          \/ \E d \in Defaults.headers : d.name # h.name /\ Canonical[d.name] = Canonical[h.name]
          \/ call.plugin = "auth" /\ Canonical[h.name] \in Credentials
          \/ call.plugin = "cors" /\ Canonical[h.name] = Canonical["Origin"]
    /\ \A e \in r.has : e.value \in {"own", "default"} =>
          \/ e \in test.cfg.params
          \/ \E h \in test.cfg.headers :
                e = Written(h) /\ (call.plugin = "auth" => Canonical[h.name] \notin Credentials)
    /\ test.cfg.params \subseteq r.has
    /\ \A h \in test.cfg.headers :
          \/ \E f \in test.cfg.headers : SameName(h, f) /\ Written(f) \in r.has
          \/ call.plugin = "auth" /\ Canonical[h.name] \in Credentials
          \/ call.plugin = "cors" /\ Canonical[h.name] = Canonical["Origin"]

Asked(r, p) ==
    /\ r.to.path = test.base.path \o test.ep.path
    /\ \A e \in r.has : Typed(e)
    /\ Payloads(r, p) /\ Custom(r)
    /\ call.plugin \in Injecting => Has(r, p, "payload") \/ Overridden(p)

\* Most plugins send the configuration as it is.
Plain(r, probes) ==
    /\ Custom(r)
    /\ r.to.path = test.base.path \o test.ep.path
    /\ \A e \in r.has : Typed(e)
    /\ \A e \in r.has : e.value = "payload" => \E p \in probes : e.in = p.in /\ e.name = Key(p)

\* The headers and parameters of the user go out as the configuration has them, but for auth.
LEMMA CustomAsIs ==
    ASSUME Shape, Scanning, call.plugin # "auth", NEW r, NEW probes, Carries(r, test.ep, test.base, probes, test.cfg)
    PROVE  Plain(r, probes)
<1> DEFINE args == call.args
           cfg == Configured(args)
<1>1. args \in Arguments /\ test.cfg = cfg BY Tuned DEF Shape, Tested
<1>2. /\ args.headers \subseteq cfg.headers
      /\ \A h \in cfg.headers :
            /\ h.value \in {"own", "default"}
            /\ h \in args.headers \/ (h \in Defaults.headers /\ \A g \in args.headers : g.name # h.name)
      /\ \A h \in args.headers : h.in = "header" /\ h.value = "own"
  BY <1>1, Headers
<1> HIDE DEF args, cfg
<1>3. /\ r.to.path = test.base.path \o test.ep.path
      /\ \A e \in r.has : Typed(e)
      /\ \A e \in r.has : e.value = "payload" =>
            \/ \E p \in probes : e.in = p.in /\ e.name = Key(p)
            \/ \E h \in cfg.headers : h.value = "payload" /\ e = Written(h)
      /\ \A e \in r.has : e.value \in {"own", "default"} =>
            e \in cfg.params \/ \E h \in cfg.headers : e = Written(h)
      /\ \A h \in cfg.headers : \E f \in cfg.headers : SameName(h, f) /\ Written(f) \in r.has
      /\ cfg.params \subseteq r.has
  BY <1>1 DEF Carries
<1>4. ASSUME NEW h \in args.headers
      PROVE  \/ Has(r, h, h.value)
             \/ \E d \in Defaults.headers : d.name # h.name /\ Canonical[d.name] = Canonical[h.name]
  <2>1. PICK f \in cfg.headers : SameName(h, f) /\ Written(f) \in r.has BY <1>2, <1>3
  <2>2. CASE f \in args.headers
    <3>1. f.value = h.value BY <1>2, <2>2
    <3>2. Written(f) = Entry(h.in, Key(h), h.value) BY <1>2, <2>1, <3>1 DEF Written, SameName, Key
    <3> QED BY <2>1, <3>2 DEF Has
  <2>3. CASE f \notin args.headers BY <1>2, <2>1, <2>3 DEF SameName
  <2> QED BY <2>2, <2>3
<1>5. \A e \in r.has : e.value = "payload" => \E p \in probes : e.in = p.in /\ e.name = Key(p) BY <1>2, <1>3
<1> QED BY <1>1, <1>3, <1>4, <1>5 DEF Plain, Custom, args

\* auth leaves the credentials out.
LEMMA AskedAuth ==
    ASSUME Shape, Scanning, call.plugin = "auth", NEW p, NEW r \in Requests(call.plugin, p)
    PROVE  Asked(r, p)
<1> DEFINE args == call.args
           full == Configured(args)
           hs == withoutAuthHeaders(full.headers)
           cfg == [full EXCEPT !.headers = hs]
<1>1. args \in Arguments /\ test.cfg = full /\ EndpointOK(test.ep) BY Tuned DEF Shape, Tested
<1>2. /\ args.headers \subseteq full.headers
      /\ Customs(full.headers) /\ Queries(full.params)
      /\ \A h \in full.headers :
            /\ h.value \in {"own", "default"}
            /\ h \in args.headers \/ (h \in Defaults.headers /\ \A g \in args.headers : g.name # h.name)
      /\ \A h \in args.headers : h.in = "header" /\ h.value = "own"
  BY <1>1, Headers
<1>3. cfg.headers = hs /\ cfg.params = full.params BY <1>1, Reheaded
<1>4. \A h : h \in hs <=> h \in full.headers /\ Canonical[h.name] \notin Credentials BY DEF withoutAuthHeaders
<1>5. r \in buildRequest(test.ep, test.base, {}, cfg)
  BY <1>1 DEF Requests, Injecting
<1> HIDE DEF args, full, hs, cfg
<1>6. Queries(cfg.params) /\ Customs(cfg.headers) BY <1>2, <1>3, <1>4 DEF Customs
<1>7. Carries(r, test.ep, test.base, {}, cfg)
  <2>1. \A q \in {} : q.in \in Locations OBVIOUS
  <2> QED BY <1>1, <1>5, <1>6, <2>1, Built DEF EndpointOK
<1>8. /\ r.to.path = test.base.path \o test.ep.path
      /\ \A e \in r.has : Typed(e)
      /\ \A e \in r.has : e.value = "payload" => \E h \in hs : h.value = "payload" /\ e = Written(h)
      /\ \A e \in r.has : e.value \in {"own", "default"} =>
            e \in full.params \/ \E h \in hs : e = Written(h)
      /\ \A h \in hs : \E f \in hs : SameName(h, f) /\ Written(f) \in r.has
      /\ full.params \subseteq r.has
  BY <1>3, <1>7 DEF Carries
<1>9. Payloads(r, p) BY <1>2, <1>4, <1>8 DEF Payloads
<1>10. ASSUME NEW h \in args.headers
       PROVE  \/ Has(r, h, h.value)
              \/ \E d \in Defaults.headers : d.name # h.name /\ Canonical[d.name] = Canonical[h.name]
              \/ Canonical[h.name] \in Credentials
  <2>1. SUFFICES ASSUME Canonical[h.name] \notin Credentials
                 PROVE  \/ Has(r, h, h.value)
                        \/ \E d \in Defaults.headers : d.name # h.name /\ Canonical[d.name] = Canonical[h.name]
    OBVIOUS
  <2>2. PICK f \in hs : SameName(h, f) /\ Written(f) \in r.has BY <1>2, <1>4, <1>8, <2>1
  <2>3. CASE f \in args.headers
    <3>1. f.value = h.value BY <1>2, <2>3
    <3>2. Written(f) = Entry(h.in, Key(h), h.value) BY <1>2, <2>2, <3>1 DEF Written, SameName, Key
    <3> QED BY <2>2, <3>2 DEF Has
  <2>4. CASE f \notin args.headers BY <1>2, <1>4, <2>2, <2>4 DEF SameName
  <2> QED BY <2>3, <2>4
<1>11. \A e \in r.has : e.value \in {"own", "default"} =>
          e \in full.params \/ \E h \in full.headers : e = Written(h) /\ Canonical[h.name] \notin Credentials
  BY <1>4, <1>8
<1>12. \A h \in full.headers :
          \/ \E f \in full.headers : SameName(h, f) /\ Written(f) \in r.has
          \/ Canonical[h.name] \in Credentials
  BY <1>4, <1>8
<1>13. Custom(r) BY <1>1, <1>8, <1>10, <1>11, <1>12 DEF Custom, args
<1>14. call.plugin \notin Injecting BY DEF Injecting
<1> QED BY <1>8, <1>9, <1>13, <1>14 DEF Asked

\* cors puts an Origin over the headers of the configuration.
LEMMA AskedCors ==
    ASSUME Shape, Scanning, call.plugin = "cors", NEW p, NEW r \in Requests(call.plugin, p)
    PROVE  /\ Asked(r, p)
           /\ (\A h \in test.cfg.headers : Canonical[h.name] = Canonical["Origin"] => h.name = "Origin")
                 => Entry("header", Canonical["Origin"], "payload") \in r.has
<1> DEFINE args == call.args
           full == Configured(args)
           origin == Entry("header", "Origin", "payload")
           hs == Overlay(full.headers, {origin})
           cfg == [full EXCEPT !.headers = hs]
<1>1. args \in Arguments /\ test.cfg = full /\ EndpointOK(test.ep) BY Tuned DEF Shape, Tested
<1>2. /\ args.headers \subseteq full.headers
      /\ Customs(full.headers) /\ Queries(full.params)
      /\ \A h \in full.headers :
            /\ h.value \in {"own", "default"}
            /\ h \in args.headers \/ (h \in Defaults.headers /\ \A g \in args.headers : g.name # h.name)
      /\ \A h \in args.headers : h.in = "header" /\ h.value = "own"
  BY <1>1, Headers
<1>3. cfg.headers = hs /\ cfg.params = full.params BY <1>1, Reheaded
<1>4. origin.in = "header" /\ origin.name = "Origin" /\ origin.value = "payload" BY DEF Entry
<1>5. r \in buildRequest(test.ep, test.base, {}, cfg)
  BY <1>1 DEF Requests, Injecting, Header
<1> HIDE DEF origin
<1>6. /\ \A h \in hs : h = origin \/ (h \in full.headers /\ ~SamePlace(h, origin))
      /\ \A h \in full.headers : h.name # "Origin" => h \in hs
      /\ origin \in hs
  BY <1>4 DEF Overlay, SamePlace
<1> HIDE DEF args, full, hs, cfg
<1>7. Queries(cfg.params) /\ Customs(cfg.headers) BY <1>2, <1>3, <1>4, <1>6 DEF Customs
<1>8. Carries(r, test.ep, test.base, {}, cfg)
  <2>1. \A q \in {} : q.in \in Locations OBVIOUS
  <2> QED BY <1>1, <1>5, <1>7, <2>1, Built DEF EndpointOK
<1>9. /\ r.to.path = test.base.path \o test.ep.path
      /\ \A e \in r.has : Typed(e)
      /\ \A e \in r.has : e.value = "payload" => \E h \in hs : h.value = "payload" /\ e = Written(h)
      /\ \A e \in r.has : e.value \in {"own", "default"} =>
            e \in full.params \/ \E h \in hs : e = Written(h)
      /\ \A h \in hs : \E f \in hs : SameName(h, f) /\ Written(f) \in r.has
      /\ full.params \subseteq r.has
  BY <1>3, <1>8 DEF Carries
<1>10. \A h : Written(h).in = "header" /\ Written(h).name = Canonical[h.name] /\ Written(h).value = h.value
  BY DEF Written, Entry
<1>11. Payloads(r, p)
  <2>1. \A e \in r.has : e.value = "payload" => e.in = "header" /\ e.name = Canonical["Origin"]
    BY <1>2, <1>4, <1>6, <1>9, <1>10
  <2>2. "cors" \notin Injecting \cup {"xxe"} BY DEF Injecting
  <2> QED BY <2>1, <2>2 DEF Payloads
<1>12. ASSUME NEW h \in full.headers, Canonical[h.name] # Canonical["Origin"]
       PROVE  \E f \in full.headers : SameName(h, f) /\ Written(f) \in r.has
  <2>1. h \in hs BY <1>6, <1>12
  <2>2. PICK f \in hs : SameName(h, f) /\ Written(f) \in r.has BY <1>9, <2>1
  <2>3. f # origin BY <1>4, <1>12, <2>2 DEF SameName
  <2> QED BY <1>6, <2>2, <2>3
<1>13. ASSUME NEW h \in args.headers
       PROVE  \/ Has(r, h, h.value)
              \/ \E d \in Defaults.headers : d.name # h.name /\ Canonical[d.name] = Canonical[h.name]
              \/ Canonical[h.name] = Canonical["Origin"]
  <2>1. SUFFICES ASSUME Canonical[h.name] # Canonical["Origin"]
                 PROVE  \/ Has(r, h, h.value)
                        \/ \E d \in Defaults.headers : d.name # h.name /\ Canonical[d.name] = Canonical[h.name]
    OBVIOUS
  <2>2. PICK f \in full.headers : SameName(h, f) /\ Written(f) \in r.has BY <1>2, <1>12, <2>1
  <2>3. CASE f \in args.headers
    <3>1. f.value = h.value BY <1>2, <2>3
    <3>2. Written(f) = Entry(h.in, Key(h), h.value) BY <1>2, <2>2, <3>1 DEF Written, SameName, Key
    <3> QED BY <2>2, <3>2 DEF Has
  <2>4. CASE f \notin args.headers BY <1>2, <2>2, <2>4 DEF SameName
  <2> QED BY <2>3, <2>4
<1>14. \A e \in r.has : e.value \in {"own", "default"} => e \in full.params \/ \E h \in full.headers : e = Written(h)
  BY <1>4, <1>6, <1>9, <1>10
<1>15. Custom(r) BY <1>1, <1>9, <1>12, <1>13, <1>14 DEF Custom, args
<1>16. call.plugin \notin Injecting BY DEF Injecting
<1>17. ASSUME \A h \in full.headers : Canonical[h.name] = Canonical["Origin"] => h.name = "Origin"
       PROVE  Entry("header", Canonical["Origin"], "payload") \in r.has
  <2>1. PICK f \in hs : SameName(origin, f) /\ Written(f) \in r.has BY <1>6, <1>9
  <2>2. f = origin
    <3>1. SUFFICES ASSUME f \in full.headers, ~SamePlace(f, origin) PROVE FALSE BY <1>6
    <3>2. f.name = "Origin" BY <1>4, <1>17, <2>1, <3>1 DEF SameName
    <3>3. f.in = "header" BY <1>2, <3>1 DEF Customs
    <3> QED BY <1>4, <3>1, <3>2, <3>3 DEF SamePlace
  <2>3. Written(origin) = Entry("header", Canonical["Origin"], "payload") BY <1>4 DEF Written
  <2> QED BY <2>1, <2>2, <2>3
<1> QED BY <1>1, <1>9, <1>11, <1>15, <1>16, <1>17 DEF Asked

\* The same of the plugins that inject,
LEMMA AskedInjecting ==
    ASSUME Shape, Scanning, call.plugin \in Injecting, NEW p \in ToSet(test.rounds), NEW r \in Requests(call.plugin, p)
    PROVE  Asked(r, p)
<1>1. test.cfg = Configured(call.args) /\ EndpointOK(test.ep) BY DEF Shape, Tested
<1>2. Customs(test.cfg.headers) /\ Queries(test.cfg.params) BY <1>1, Tuned, Headers
<1>3. p \in Subjects BY Tuned DEF ToSet
<1>4. p.in \in Locations BY <1>3, SubjectIn
<1>5. r \in buildRequest(test.ep, test.base, {p}, test.cfg) BY DEF Requests, Injecting
<1>6. \A q \in {p} : q.in \in Locations BY <1>4
<1>7. Carries(r, test.ep, test.base, {p}, test.cfg) BY <1>1, <1>2, <1>5, <1>6, Built DEF EndpointOK
<1>8. call.plugin # "auth" BY DEF Injecting
<1>9. Plain(r, {p}) BY <1>7, <1>8, CustomAsIs
<1>10. \A e \in r.has : e.value = "payload" => e.in = p.in /\ e.name = Key(p)
  <2>1. \A e \in r.has : e.value = "payload" => \E q \in {p} : e.in = q.in /\ e.name = Key(q) BY <1>9 DEF Plain
  <2> QED BY <2>1
<1>11. Payloads(r, p) BY <1>10 DEF Payloads, Injecting
<1>12. Has(r, p, "payload") \/ Overridden(p)
  <2>1. SUFFICES ASSUME ~Overridden(p) PROVE Has(r, p, "payload") OBVIOUS
  <2>2. ~Covered(test.ep, test.cfg, p) BY <2>1, CoveredIs
  <2> QED BY <1>2, <1>4, <1>5, <2>2, Hits
<1> QED BY <1>9, <1>11, <1>12 DEF Asked, Plain

\* of mass_assignment, whose body goes out as it was made,
LEMMA AskedMass ==
    ASSUME Shape, Scanning, call.plugin = "mass_assignment", NEW p, NEW r \in Requests(call.plugin, p)
    PROVE  Asked(r, p) /\ MassBody(test.ep) \subseteq r.has
<1> DEFINE body == MassBody(test.ep)
           probes == {e \in body : e.value = "payload"}
<1>1. test.cfg = Configured(call.args) /\ EndpointOK(test.ep) BY DEF Shape, Tested
<1>2. Customs(test.cfg.headers) /\ Queries(test.cfg.params) BY <1>1, Tuned, Headers
<1>3. call.plugin \notin Injecting \cup {"xxe", "auth", "cors"} BY DEF Injecting
<1>4. r \in SendRawBody(test.ep, test.base, "json", body, test.cfg) BY <1>3 DEF Requests
<1>5. \A e \in body : /\ e.in = "body" /\ e.value \in {"benign", "payload"}
                      /\ e.value = "payload" => \E i \in Undeclared(test.ep) : e.name = Privileged[i].field
  BY DEF MassBody, Entry
<1>6. test.ep.params \in Seq(Params) BY <1>1 DEF EndpointOK
<1> HIDE DEF body
<1>7. Carries(r, test.ep, test.base, probes, test.cfg) /\ body \subseteq r.has
  <2>1. \A e \in body : e.in = "body" /\ e.value \in {"benign", "payload"} BY <1>5
  <2> QED BY <1>2, <1>4, <1>6, <2>1, Raw
<1>8. Plain(r, probes) BY <1>3, <1>7, CustomAsIs
<1>9. \A e \in r.has : e.value = "payload" => \E i \in Undeclared(test.ep) : e.in = "body" /\ e.name = Privileged[i].field
  <2>1. \A e \in r.has : e.value = "payload" => \E q \in probes : e.in = q.in /\ e.name = Key(q) BY <1>8 DEF Plain
  <2> QED BY <1>5, <2>1 DEF Key
<1>10. Payloads(r, p) BY <1>3, <1>9 DEF Payloads
<1> QED BY <1>3, <1>7, <1>8, <1>10 DEF Asked, Plain, body

\* of xxe,
LEMMA AskedXml ==
    ASSUME Shape, Scanning, call.plugin = "xxe", NEW p \in ToSet(test.rounds), NEW r \in Requests(call.plugin, p)
    PROVE  Asked(r, p)
<1> DEFINE e0 == Entry("body", "xml", "payload")
           probes == {e \in {e0} : e.value = "payload"}
<1>1. test.cfg = Configured(call.args) /\ EndpointOK(test.ep) BY DEF Shape, Tested
<1>2. Customs(test.cfg.headers) /\ Queries(test.cfg.params) BY <1>1, Tuned, Headers
<1>3. call.plugin \notin Injecting \cup {"auth", "cors", "mass_assignment"} BY DEF Injecting
<1>4. r \in SendRawBody(test.ep, test.base, "xml", {e0}, test.cfg) BY <1>3 DEF Requests
<1>5. e0.in = "body" /\ e0.name = "xml" /\ e0.value = "payload" BY DEF Entry
<1>6. test.ep.params \in Seq(Params) BY <1>1 DEF EndpointOK
<1> HIDE DEF e0
<1>7. Carries(r, test.ep, test.base, probes, test.cfg)
  <2>1. \A e \in {e0} : e.in = "body" /\ e.value \in {"benign", "payload"} BY <1>5
  <2> QED BY <1>2, <1>4, <1>6, <2>1, Raw
<1>8. Plain(r, probes) BY <1>3, <1>7, CustomAsIs
<1>9. \A e \in r.has : e.value = "payload" => e.in = "body" /\ e.name = "xml"
  <2>1. \A e \in r.has : e.value = "payload" => \E q \in probes : e.in = q.in /\ e.name = Key(q) BY <1>8 DEF Plain
  <2> QED BY <1>5, <2>1 DEF Key
<1>10. p = XmlBody
  <2>1. test.cfg.points \in Seq(Points) BY <1>1, Tuned, Configuration
  <2>2. \A q \in ToSet(Rounds(call.plugin, test.ep, test.cfg.points)) : q = XmlBody BY <1>1, <2>1, RoundsParams
  <2> QED BY <2>2 DEF Shape, Tested
<1>11. p.in = "body" /\ Key(p) = "xml" BY <1>10 DEF XmlBody, Param, Key
<1>12. Payloads(r, p) BY <1>9, <1>11 DEF Payloads
<1> QED BY <1>3, <1>8, <1>12 DEF Asked, Plain

\* and of the plugins that send the plain request.
LEMMA AskedOther ==
    ASSUME Shape, Scanning, call.plugin \notin Injecting \cup {"auth", "cors", "mass_assignment", "xxe"},
           NEW p, NEW r \in Requests(call.plugin, p)
    PROVE  Asked(r, p)
<1>1. test.cfg = Configured(call.args) /\ EndpointOK(test.ep) BY DEF Shape, Tested
<1>2. Customs(test.cfg.headers) /\ Queries(test.cfg.params) BY <1>1, Tuned, Headers
<1>3. r \in buildRequest(test.ep, test.base, {}, test.cfg) BY DEF Requests
<1>4. \A q \in {} : q.in \in Locations OBVIOUS
<1>5. Carries(r, test.ep, test.base, {}, test.cfg) BY <1>1, <1>2, <1>3, <1>4, Built DEF EndpointOK
<1>6. Plain(r, {}) BY <1>5, CustomAsIs
<1>7. \A e \in r.has : e.value # "payload" BY <1>6 DEF Plain
<1>8. Payloads(r, p) BY <1>7 DEF Payloads
<1> QED BY <1>6, <1>8 DEF Asked, Plain

\* What the requests of a test hold, plugin by plugin.
LEMMA AllAsked ==
    ASSUME Shape, Scanning, NEW p \in ToSet(test.rounds), NEW r \in Requests(call.plugin, p)
    PROVE  Asked(r, p)
BY AskedAuth, AskedCors, AskedInjecting, AskedMass, AskedXml, AskedOther
-----------------------------------------------------------------------------
(* What is on the wire *)

\* A plugin that does not inject has one round, for the endpoint as a whole.
LEMMA OneRound ==
    ASSUME NEW plugin, plugin \notin Injecting \cup {"xxe"}, NEW ep, NEW points
    PROVE  \A p \in ToSet(Rounds(plugin, ep, points)) : p = Whole
<1>1. Rounds(plugin, ep, points) \in {<<>>, <<Whole>>} BY DEF Rounds
<1>2. ToSet(<<>>) = {} /\ ToSet(<<Whole>>) = {Whole} BY DEF ToSet
<1> QED BY <1>1, <1>2

\* The place of an active test is one of its rounds.
LEMMA HereIs ==
    ASSUME Shape, at.stage \in Active
    PROVE  /\ Scanning /\ Here \in ToSet(test.rounds) /\ Here \in Subjects
           /\ call.plugin \notin Injecting \cup {"xxe"} => Here = Whole
<1>1. Scanning /\ Tested /\ at.i \in 1..Len(test.rounds) BY DEF Shape
<1>2. test.rounds \in Seq(Subjects) BY <1>1, Tuned
<1>3. at.i \in DOMAIN test.rounds /\ Here \in Subjects BY <1>1, <1>2, ElementOfSeq DEF Here
<1>4. Here \in ToSet(test.rounds) BY <1>3 DEF ToSet, Here
<1>5. call.plugin \notin Injecting \cup {"xxe"} => Here = Whole BY <1>1, <1>4, OneRound DEF Tested
<1> QED BY <1>1, <1>3, <1>4, <1>5

\* What an exchange leaves.
After(x, p, k, truth) ==
    /\ Came(x, p, k, truth)
    /\ wire' = [sent |-> {x.req}, param |-> p]
    /\ faults' = IF interrupted \/ x.answer = Reply(x.req, k, truth) THEN faults ELSE faults - 1

\* Sent, with what the exchange was.
LEMMA Leaves ==
    ASSUME NEW p, NEW k \in Nat, NEW truth, NEW x \in Exchanges(p, k, truth), Sent(x, p, k, truth)
    PROVE  After(x, p, k, truth)
BY Exchanged DEF After, Sent

\* An exchange uses up one fault at most, and one only if the answer is not the service's own.
LEMMA FewerFaults ==
    ASSUME NEW p, NEW k, NEW truth, NEW x, After(x, p, k, truth), faults \in 0..MaxFaults
    PROVE  /\ faults' \in 0..MaxFaults /\ faults' <= faults
           /\ ~interrupted /\ faults' = faults => x.answer = Reply(x.req, k, truth)
           /\ x.answer # Reply(x.req, k, truth) => interrupted \/ faults' + 1 = faults
BY ProbesAssumption DEF After, Came

\* The service's own answer, unless the call is cancelled.
Own(x, k, truth) == ~interrupted => x.answer = Reply(x.req, k, truth)

\* When no fault is used up afterwards, none was before, and the answer is the service's own.
LEMMA StillAll ==
    ASSUME NEW p, NEW k, NEW truth, NEW x, After(x, p, k, truth), faults \in 0..MaxFaults, faults' = MaxFaults
    PROVE  faults = MaxFaults /\ Own(x, k, truth)
<1>1. /\ faults' \in 0..MaxFaults /\ faults' <= faults
      /\ ~interrupted /\ faults' = faults => x.answer = Reply(x.req, k, truth)
  BY FewerFaults
<1>2. faults = MaxFaults BY <1>1, ProbesAssumption
<1> QED BY <1>1, <1>2 DEF Own

\* A step of a test sends one request at the place it is at, or none.
LEMMA Sends ==
    ASSUME Shape, Test
    PROVE  \/ UNCHANGED <<wire, faults, kept, found>>
           \/ \E k \in Nat : \E truth \in BOOLEAN : \E x \in Exchanges(Here, k, truth) : After(x, Here, k, truth)
<1> DEFINE Some == \E k \in Nat : \E truth \in BOOLEAN : \E x \in Exchanges(Here, k, truth) : After(x, Here, k, truth)
<1>1. ASSUME NEW k \in Nat, NEW truth \in BOOLEAN, NEW x \in Exchanges(Here, k, truth), Sent(x, Here, k, truth)
      PROVE  Some
  BY <1>1, Leaves
<1>2. at.j \in Nat /\ 0 \in Nat /\ 1 \in Nat /\ Condition \in Nat /\ Delay(at.j) \in Nat
  BY ProbesAssumption DEF Shape, Spots, Condition, Delay
<1> SUFFICES UNCHANGED <<wire, faults, kept, found>> \/ Some OBVIOUS
<1> HIDE DEF Some
<1>3. CASE Stop BY <1>3 DEF Stop
<1>4. CASE Probe BY <1>1, <1>2, <1>4 DEF Probe
<1>5. CASE ProbeFields
  <2>1. at.stage \in Active /\ call.plugin = "mass_assignment" BY <1>5 DEF ProbeFields, Goes, Active
  <2>2. Here = Whole BY <2>1, HereIs DEF Injecting
  <2>3. \E x \in Exchanges(Whole, 1, TRUE) : Sent(x, Whole, 1, TRUE) BY <1>5 DEF ProbeFields
  <2> QED BY <1>1, <1>2, <2>2, <2>3
<1>6. CASE ProbeIdentifier BY <1>1, <1>2, <1>6 DEF ProbeIdentifier
<1>7. CASE ProbeErrors BY <1>1, <1>2, <1>7 DEF ProbeErrors
<1>8. CASE ProbeBaseline BY <1>1, <1>2, <1>8 DEF ProbeBaseline
<1>9. CASE ProbeTrue BY <1>1, <1>2, <1>9 DEF ProbeTrue
<1>10. CASE ProbeFalse BY <1>1, <1>2, <1>10 DEF ProbeFalse
<1>11. CASE ProbeDelay BY <1>1, <1>2, <1>11 DEF ProbeDelay
<1>12. CASE ConfirmDelay BY <1>1, <1>2, <1>12 DEF ConfirmDelay
<1> QED BY <1>3, <1>4, <1>5, <1>6, <1>7, <1>8, <1>9, <1>10, <1>11, <1>12 DEF Test

\* What was sent is a request of the plugin at one of its parameters, or of
\* the model's own.
Wire ==
    /\ at.stage = "called" => wire.sent = {}
    /\ \A r \in wire.sent :
          \/ Scanning /\ wire.param \in ToSet(test.rounds) /\ r \in Requests(call.plugin, wire.param)
          \/ ~Scanning /\ call.tool = "http_request" /\ r \in HTTPRequest(call.args, Base, Defaults)
    /\ faults \in 0..MaxFaults

\* Wire holds at first ...
LEMMA InitWire == Init => Wire
BY ProbesAssumption DEF Init, Wire

\* ... and is kept by every step.
LEMMA StepWire == ASSUME Shape, Wire, [Next]_vars PROVE Wire'
<1>1. CASE Test
  <2>1. at.stage \in Active /\ call' = call /\ test' = test /\ at'.stage # "called" /\ at'.stage # "failed"
    <3>1. at.stage \in Active /\ Onward /\ UNCHANGED <<call, service, test, interrupted>> BY <1>1, Moves
    <3> QED BY <3>1 DEF Onward, Active
  <2>2. Scanning /\ Here \in ToSet(test.rounds) BY <2>1, HereIs
  <2>3. Scanning' BY <2>1, <2>2 DEF Scanning
  <2>4. \A p : Requests(call.plugin, p)' = Requests(call.plugin, p) BY <2>1 DEF Requests
  <2>5. CASE UNCHANGED <<wire, faults, kept, found>> BY <2>1, <2>2, <2>3, <2>4, <2>5 DEF Wire
  <2>6. ASSUME NEW k \in Nat, NEW truth \in BOOLEAN, NEW x \in Exchanges(Here, k, truth), After(x, Here, k, truth)
        PROVE  Wire'
    <3>1. wire'.sent = {x.req} /\ wire'.param = Here /\ x.req \in Requests(call.plugin, Here)
      BY <2>6 DEF After, Came
    <3>2. faults' \in 0..MaxFaults BY <2>6, FewerFaults DEF Wire
    <3>3. x.req \in Requests(call.plugin, Here) /\ call'.plugin = call.plugin BY <2>1, <3>1
    <3>4. \A r \in wire'.sent : wire'.param \in ToSet(test'.rounds) /\ r \in Requests(call.plugin, wire.param)'
      BY <2>1, <2>2, <3>1, <3>3 DEF Requests
    <3> QED BY <2>1, <2>3, <3>2, <3>4 DEF Wire
  <2> QED BY <1>1, <2>5, <2>6, Sends
<1>2. CASE StartScan
  <2>1. at.stage = "called" /\ at'.stage # "called" /\ wire' = wire /\ faults' = faults BY <1>2, Started
  <2> QED BY <2>1 DEF Wire
<1>3. CASE SendOwn
  <2>1. /\ at.stage = "called" /\ at'.stage # "called" /\ call.tool = "http_request" /\ call' = call /\ faults' = faults
        /\ \/ UNCHANGED wire
           \/ \E r \in HTTPRequest(call.args, Base, Defaults) : wire' = [sent |-> {r}, param |-> Whole]
    BY <1>3, OwnSent
  <2>2. CASE UNCHANGED wire BY <2>1, <2>2 DEF Wire
  <2>3. ASSUME NEW r \in HTTPRequest(call.args, Base, Defaults), wire' = [sent |-> {r}, param |-> Whole]
        PROVE  Wire'
    <3>1. wire'.sent = {r} /\ ~Scanning' BY <2>1, <2>3 DEF Scanning
    <3> QED BY <2>1, <3>1 DEF Wire
  <2> QED BY <2>1, <2>2, <2>3
<1>4. CASE Interrupt \/ UNCHANGED vars
  <2>1. UNCHANGED <<call, service, test, at, wire, faults>> BY <1>4 DEF Interrupt, vars
  <2>2. \A p : Requests(call.plugin, p)' = Requests(call.plugin, p) BY <2>1 DEF Requests
  <2>3. Scanning' <=> Scanning BY <2>1 DEF Scanning
  <2> QED BY <2>1, <2>2, <2>3 DEF Wire
<1> QED BY <1>1, <1>2, <1>3, <1>4 DEF Next

\* A request of the model's own has what the caller gave.
LEMMA OwnHeaders ==
    ASSUME NEW args \in Arguments, NEW r \in HTTPRequest(args, Base, Defaults)
    PROVE  /\ \A e \in r.has : Typed(e)
           /\ \A h \in args.headers : Has(r, h, h.value)
<1> DEFINE maps == <<Defaults.headers, args.headers>>
           queries == {Entry("query", args.url.query[i], "own") : i \in DOMAIN args.url.query}
<1>1. PICK h \in HeaderSets(maps) : r.has = h \cup queries
  <2> DEFINE to == IF args.url.host # "" THEN [host |-> args.url.host, path |-> args.url.path]
                   ELSE [host |-> Base.host, path |-> Base.path \o args.url.path]
  <2>1. HTTPRequest(args, Base, Defaults) \subseteq {[to |-> to, has |-> h \cup queries] : h \in HeaderSets(maps)}
    BY DEF HTTPRequest
  <2> HIDE DEF to, queries, maps
  <2> QED BY <2>1
<1>2. \A e \in args.headers : e.in = "header" /\ e.value = "own" BY DEF Arguments
<1>3. \A e \in Defaults.headers : e.in = "header" /\ e.value = "default" BY ExecutorAssumption
<1>4. \A e \in Lasting(maps) : e.value \in {"own", "default"}
  <2>1. \A e \in Lasting(maps) : e \in args.headers \/ e \in Defaults.headers BY LastOfTwo
  <2> HIDE DEF maps
  <2> QED BY <1>2, <1>3, <2>1
<1>5. \A e \in args.headers : e \in Lasting(maps) BY LastOfTwo
<1>6. ASSUME NEW f \in Lasting(maps), NEW e \in args.headers, SameName(e, f) PROVE f \in args.headers
  <2>1. SameName(f, e) BY <1>6 DEF SameName
  <2> QED BY <2>1, LastOfTwo
<1> HIDE DEF maps
<1>7. /\ \A g \in h : \E e \in Lasting(maps) : g = Written(e)
      /\ \A e \in Lasting(maps) : \E f \in Lasting(maps) : SameName(e, f) /\ Written(f) \in h
  BY SetHeaders
<1>8. \A e : Written(e).in = "header" /\ Written(e).value = e.value BY DEF Written, Entry
<1>9. \A e \in h : Typed(e) BY <1>4, <1>7, <1>8 DEF Typed, Locations, Values
<1>10. \A e \in queries : Typed(e) BY DEF Typed, Entry, Locations, Values
<1>11. ASSUME NEW e \in args.headers PROVE Has(r, e, e.value)
  <2>1. PICK f \in Lasting(maps) : SameName(e, f) /\ Written(f) \in h BY <1>5, <1>7
  <2>2. f.value = e.value BY <1>2, <1>6, <2>1
  <2>3. Written(f) = Entry(e.in, Key(e), e.value) BY <1>2, <2>1, <2>2 DEF Written, SameName, Key
  <2> QED BY <1>1, <2>1, <2>3 DEF Has
<1> QED BY <1>1, <1>9, <1>10, <1>11

\* What the last request holds, of a scan and of the model's own.
LEMMA WireHolds ==
    ASSUME Shape, Wire, NEW r \in wire.sent
    PROVE  /\ \A e \in r.has : Typed(e)
           /\ Scanning => wire.param \in ToSet(test.rounds) /\ Asked(r, wire.param)
           /\ ~Scanning => call.tool = "http_request" /\ \A h \in call.args.headers : Has(r, h, h.value)
<1>1. CASE Scanning
  <2>1. wire.param \in ToSet(test.rounds) /\ r \in Requests(call.plugin, wire.param) BY <1>1 DEF Wire
  <2>2. Asked(r, wire.param) BY <1>1, <2>1, AllAsked
  <2>3. \A e \in r.has : Typed(e) BY <2>2 DEF Asked
  <2> QED BY <1>1, <2>1, <2>2, <2>3
<1>2. CASE ~Scanning
  <2>1. call.tool = "http_request" /\ r \in HTTPRequest(call.args, Base, Defaults) BY <1>2 DEF Wire
  <2>2. call.args \in Arguments BY CallsAssumption DEF Shape
  <2>3. (\A e \in r.has : Typed(e)) /\ \A h \in call.args.headers : Has(r, h, h.value)
    BY <2>1, <2>2, OwnHeaders
  <2> QED BY <1>2, <2>1, <2>3
<1> QED BY <1>1, <1>2

\* What the caller configured goes over what the program adds, but for the
\* headers that a plugin leaves out or sets: the property the run checks.
THEOREM HeadersCorrect == Spec => []CallerHeadersWin
<1>1. ASSUME Shape, Wire PROVE CallerHeadersWin
  <2>1. SUFFICES ASSUME NEW r \in wire.sent, NEW h \in call.args.headers
                 PROVE  \/ Has(r, h, h.value)
                        \/ /\ call.tool = "scan_api"
                           /\ \E d \in Defaults.headers : d.name # h.name /\ Canonical[d.name] = Canonical[h.name]
                        \/ call.plugin = "auth" /\ Canonical[h.name] \in Credentials
                        \/ call.plugin = "cors" /\ Canonical[h.name] = Canonical["Origin"]
    BY DEF CallerHeadersWin
  <2>2. CASE Scanning
    <3>1. Custom(r) BY <1>1, <2>2, WireHolds DEF Asked
    <3>2. call.tool = "scan_api" BY <2>2 DEF Scanning
    <3> QED BY <3>1, <3>2 DEF Custom
  <2>3. CASE ~Scanning BY <1>1, <2>3, WireHolds
  <2> QED BY <2>2, <2>3
<1>2. Init => Shape /\ Wire BY InitShape, InitWire
<1>3. Shape /\ Wire /\ [Next]_vars => Shape' /\ Wire' BY StepShape, StepWire
<1> QED BY <1>1, <1>2, <1>3, PTL DEF Spec

\* A payload is where the finding says, and nowhere else, under the base URL
\* of the call: the property the run checks.
THEOREM PlaceCorrect == Spec => []PayloadHitsItsPlace
<1>1. ASSUME Shape, Wire PROVE PayloadHitsItsPlace
  <2>1. ASSUME NEW r \in wire.sent, Scanning, call.plugin \in Injecting
        PROVE  /\ Has(r, wire.param, "payload") \/ Overridden(wire.param)
               /\ \A e \in r.has : e.value = "payload" => e.in = wire.param.in /\ e.name = Key(wire.param)
    <3>1. Asked(r, wire.param) BY <1>1, <2>1, WireHolds
    <3> QED BY <2>1, <3>1 DEF Asked, Payloads, Injecting
  <2>2. ASSUME NEW r \in wire.sent, Scanning
        PROVE  r.to.path = IF test.cfg.url # NoURL /\ test.cfg.url.host = ""
                           THEN test.cfg.base.path \o test.cfg.url.path
                           ELSE test.base.path \o test.ep.path
    <3>1. r.to.path = test.base.path \o test.ep.path BY <1>1, <2>2, WireHolds DEF Asked
    <3>2. Aimed(test.cfg, test.base, test.ep) BY <1>1, <2>2 DEF Shape, Tested
    <3>3. CASE test.cfg.url # NoURL /\ test.cfg.url.host = ""
      <4>1. test.base.path \o test.ep.path = test.cfg.base.path \o test.cfg.url.path
        BY <3>2, <3>3 DEF Aimed, Behind
      <4> QED BY <3>1, <3>3, <4>1
    <3>4. CASE ~(test.cfg.url # NoURL /\ test.cfg.url.host = "") BY <3>1, <3>4
    <3> QED BY <3>3, <3>4
  <2> QED BY <2>1, <2>2 DEF PayloadHitsItsPlace
<1>2. Init => Shape /\ Wire BY InitShape, InitWire
<1>3. Shape /\ Wire /\ [Next]_vars => Shape' /\ Wire' BY StepShape, StepWire
<1> QED BY <1>1, <1>2, <1>3, PTL DEF Spec
-----------------------------------------------------------------------------
(* The answers a plugin keeps *)

\* A plugin of one request is at its first payload.
Single == at.stage \in Active /\ call.plugin \in Once => at.j = 1

\* A plugin of one request stays at its first payload.
LEMMA StepSingle == ASSUME Shape, Single, [Next]_vars PROVE Single'
<1>1. CASE Test
  <2>1. SUFFICES ASSUME call.plugin \in Once, at'.stage \in Active PROVE at'.j = 1
    <3>1. call' = call BY <1>1, Moves
    <3> QED BY <3>1 DEF Single
  <2>2. at.stage \in Active BY <1>1, Moves
  <2>3. at.j = 1 /\ Steps = 1 BY <2>1, <2>2 DEF Single, Steps
  <2>4. call.plugin \notin {"sqli", "idor"} BY <2>1 DEF Once
  <2>5. \/ Stop \/ Probe \/ ProbeFields
    BY <1>1, <2>4 DEF Test, ProbeIdentifier, ProbeErrors, ProbeBaseline, ProbeTrue, ProbeFalse, ProbeDelay, ConfirmDelay, Goes
  <2>6. CASE Stop
    <3>1. at'.stage = "over" BY <2>6, Staged DEF Stop, Places
    <3> QED BY <2>1, <3>1 DEF Active
  <2>7. CASE Probe \/ ProbeFields
    <3>1. NextRound \/ NextPayload BY <2>7 DEF Probe, ProbeFields
    <3>2. NextRound BY <2>3, <3>1 DEF NextPayload
    <3> QED BY <3>2, RoundMoves
  <2> QED BY <2>5, <2>6, <2>7
<1>2. CASE StartScan
  <2>1. at'.j = 1 BY <1>2, Started
  <2> QED BY <2>1 DEF Single
<1>3. CASE SendOwn
  <2>1. at'.stage \in {"over", "failed"} BY <1>3, OwnSent
  <2> QED BY <2>1 DEF Single, Active
<1>4. CASE Interrupt \/ UNCHANGED vars
  <2>1. UNCHANGED <<call, at>> BY <1>4 DEF Interrupt, vars
  <2> QED BY <2>1 DEF Single
<1> QED BY <1>1, <1>2, <1>3, <1>4 DEF Next

\* Only idor keeps answers from one payload to the next, and sqli those of the
\* baseline and of the true condition until it has that of the false one.
Held == CASE at.stage = "true" -> 1 [] at.stage = "false" -> 2 [] OTHER -> 0

Kept ==
    /\ kept \in Seq(Answers)
    /\ call.plugin # "idor" => Len(kept) = Held
    /\ call.plugin = "idor" => Len(kept) <= NumPayloads
    /\ call.plugin = "idor" /\ at.stage \in Active => Len(kept) < at.j

\* Kept holds at first ...
LEMMA InitKept == Init => Kept
<1>1. <<>> \in Seq(Answers) /\ Len(<<>>) = 0 OBVIOUS
<1>2. Init => kept = <<>> /\ at.stage = "called" /\ at.j = 1 BY DEF Init
<1> QED BY <1>1, <1>2, ProbesAssumption DEF Kept, Held, Active

\* One more answer is kept.
LEMMA OneMore ==
    ASSUME NEW s \in Seq(Answers), NEW a \in Answers
    PROVE  Append(s, a) \in Seq(Answers) /\ Len(Append(s, a)) = Len(s) + 1 /\ <<a>> \in Seq(Answers) /\ Len(<<a>>) = 1
OBVIOUS

\* The requests that a plugin other than idor and sqli makes keep nothing.
LEMMA KeptEmpty ==
    ASSUME Kept, call.plugin # "idor", at.stage \notin {"true", "false"}
    PROVE  kept = <<>>
<1>1. kept \in Seq(Answers) /\ Len(kept) = 0 BY DEF Kept, Held
<1> QED BY <1>1

\* Nothing kept is right at any stage that compares nothing.
LEMMA NothingKept ==
    ASSUME call.plugin # "idor", call' = call, kept' = <<>>, at'.stage \notin {"true", "false"}
    PROVE  Kept'
<1>1. <<>> \in Seq(Answers') /\ Len(<<>>) = 0 OBVIOUS
<1> QED BY <1>1 DEF Kept, Held

\* A step of a test keeps Kept ...
LEMMA TestKept == ASSUME Shape, Kept, Test PROVE Kept'
<1>0. /\ at.stage \in Active /\ Onward /\ call' = call /\ service' = service /\ at.j \in 1..NumPayloads
      /\ at'.j \in 1..NumPayloads
  BY Moves DEF Onward, Spots, Shape
<1>1. Answers' = Answers BY <1>0 DEF Answers, Known, Shown
<1>2. \A k \in Nat : \A truth \in BOOLEAN : \A x \in Exchanges(Here, k, truth) : x.answer \in Answers
  BY Exchanged DEF Came
<1>3. 0 \in Nat /\ at.j \in Nat /\ Condition \in Nat BY <1>0, ProbesAssumption DEF Condition
<1>4. CASE Stop
  <2>1. kept' = kept /\ at.stage = "payload" /\ at'.stage = "over" BY <1>4, Staged DEF Stop, Places
  <2> QED BY <1>0, <1>1, <2>1 DEF Kept, Held, Active
<1>5. CASE Probe \/ ProbeFields \/ ProbeErrors \/ ProbeDelay \/ ConfirmDelay
  <2>1. call.plugin # "idor" /\ at.stage \in {"payload", "time", "confirm"} /\ kept' = kept
    BY <1>5 DEF Probe, ProbeFields, ProbeErrors, ProbeDelay, ConfirmDelay, Goes
  <2>2. at'.stage \notin {"true", "false"} BY <1>0, <2>1 DEF Onward
  <2>3. kept = <<>> BY <2>1, KeptEmpty
  <2> QED BY <1>0, <2>1, <2>2, <2>3, NothingKept
<1>6. CASE ProbeIdentifier
  <2>1. call.plugin = "idor" /\ at.stage = "payload" BY <1>6 DEF ProbeIdentifier, Goes
  <2>2. PICK x \in Exchanges(Here, at.j, TRUE) :
           kept' = IF at.j = Steps THEN <<>>
                   ELSE IF ~x.answer.error /\ x.answer.status = "ok" /\ x.answer.size > 0 THEN Append(kept, x.answer) ELSE kept
    BY <1>6 DEF ProbeIdentifier
  <2>3. x.answer \in Answers BY <1>2, <1>3, <2>2
  <2>4. kept \in Seq(Answers) /\ Len(kept) < at.j BY <1>0, <2>1 DEF Kept
  <2>5. NextPayload BY <1>6 DEF ProbeIdentifier
  <2>6. CASE at.j = Steps
    <3>1. kept' = <<>> BY <2>2, <2>6
    <3>2. <<>> \in Seq(Answers) /\ Len(<<>>) = 0 OBVIOUS
    <3> QED BY <1>0, <1>1, <2>1, <3>1, <3>2, ProbesAssumption DEF Kept
  <2>7. CASE at.j # Steps
    <3>1. kept' \in Seq(Answers) /\ Len(kept') <= Len(kept) + 1
      <4>1. Len(kept) \in Nat BY <2>4
      <4>2. kept' = Append(kept, x.answer) \/ kept' = kept BY <2>2, <2>7
      <4> QED BY <2>3, <2>4, <4>1, <4>2, OneMore
    <3>2. at.j < Steps BY <1>0, <2>1, <2>7, ProbesAssumption DEF Steps, Once
    <3>3. at'.j = at.j + 1 BY <2>5, <3>2, PayloadMoves
    <3>4. Len(kept) \in Nat /\ Len(kept') \in Nat BY <2>4, <3>1
    <3>5. Len(kept') < at'.j /\ Len(kept') <= NumPayloads BY <1>0, <1>3, ProbesAssumption, <2>4, <3>1, <3>3, <3>4
    <3> QED BY <1>0, <1>1, <2>1, <3>1, <3>5 DEF Kept
  <2> QED BY <2>6, <2>7
<1>7. CASE ProbeBaseline
  <2>1. call.plugin = "sqli" /\ at.stage = "baseline" BY <1>7 DEF ProbeBaseline, Goes
  <2>2. PICK x \in Exchanges(Here, 0, TRUE) :
           IF x.answer.error THEN NextRound /\ UNCHANGED kept ELSE Stage("true") /\ kept' = <<x.answer>>
    BY <1>7 DEF ProbeBaseline
  <2>3. CASE x.answer.error
    <3>1. kept' = <<>> BY <2>1, <2>2, <2>3, KeptEmpty
    <3>2. at'.stage \notin {"true", "false"} BY <2>2, <2>3, RoundMoves
    <3> QED BY <1>0, <2>1, <3>1, <3>2, NothingKept
  <2>4. CASE ~x.answer.error
    <3>1. kept' = <<x.answer>> /\ at'.stage = "true" BY <2>2, <2>4, Staged DEF Places
    <3>2. x.answer \in Answers BY <1>2, <1>3
    <3>3. kept' \in Seq(Answers) /\ Len(kept') = 1 BY <3>1, <3>2
    <3> QED BY <1>0, <1>1, <2>1, <3>1, <3>3 DEF Kept, Held
  <2> QED BY <2>3, <2>4
<1>8. CASE ProbeTrue
  <2>1. call.plugin = "sqli" /\ at.stage = "true" /\ Stage("false") BY <1>8 DEF ProbeTrue, Goes
  <2>2. PICK x \in Exchanges(Here, Condition, TRUE) : kept' = Append(kept, x.answer) BY <1>8 DEF ProbeTrue
  <2>3. x.answer \in Answers BY <1>2, <1>3
  <2>4. kept \in Seq(Answers) /\ Len(kept) = 1 BY <2>1 DEF Kept, Held
  <2>5. kept' \in Seq(Answers) /\ Len(kept') = 2 BY <2>2, <2>3, <2>4
  <2>6. at'.stage = "false" BY <2>1, Staged DEF Places
  <2> QED BY <1>0, <1>1, <2>1, <2>5, <2>6 DEF Kept, Held
<1>9. CASE ProbeFalse
  <2>1. call.plugin = "sqli" /\ at.stage = "false" /\ kept' = <<>> BY <1>9 DEF ProbeFalse, Goes
  <2>2. at'.stage \notin {"true", "false"}
    <3>1. NextRound \/ at' = [at EXCEPT !.stage = "time", !.j = 1] BY <1>9 DEF ProbeFalse
    <3>2. CASE NextRound BY <3>2, RoundMoves
    <3>3. CASE at' = [at EXCEPT !.stage = "time", !.j = 1]
      <4>1. at \in [stage : Places, i : Nat, j : 1..NumPayloads] BY DEF Shape, Spots
      <4>2. at'.stage = "time" BY <3>3, <4>1
      <4> QED BY <4>2
    <3> QED BY <3>1, <3>2, <3>3
  <2> QED BY <1>0, <2>1, <2>2, NothingKept
<1> QED BY <1>4, <1>5, <1>6, <1>7, <1>8, <1>9 DEF Test

\* ... and so does every other.
LEMMA StepKept == ASSUME Shape, Kept, [Next]_vars PROVE Kept'
<1>1. CASE Test BY <1>1, TestKept
<1>2. CASE StartScan
  <2>1. at'.stage \notin {"true", "false"} /\ at'.j = 1 /\ kept' = kept /\ call' = call /\ ~Scanning
    BY <1>2, Started DEF Scanning
  <2>2. kept = <<>> BY <2>1 DEF Shape
  <2>3. <<>> \in Seq(Answers') /\ Len(<<>>) = 0 OBVIOUS
  <2> QED BY <2>1, <2>2, <2>3, ProbesAssumption DEF Kept, Held
<1>3. CASE SendOwn
  <2>1. at'.stage \in {"over", "failed"} /\ kept' = kept /\ call' = call /\ ~Scanning BY <1>3, OwnSent DEF Scanning
  <2>2. kept = <<>> BY <2>1 DEF Shape
  <2>3. <<>> \in Seq(Answers') /\ Len(<<>>) = 0 OBVIOUS
  <2> QED BY <2>1, <2>2, <2>3, ProbesAssumption DEF Kept, Held, Active
<1>4. CASE Interrupt \/ UNCHANGED vars
  <2>1. UNCHANGED <<call, service, at, kept>> BY <1>4 DEF Interrupt, vars
  <2>2. Answers' = Answers BY <2>1 DEF Answers, Known, Shown
  <2> QED BY <2>1, <2>2 DEF Kept, Held
<1> QED BY <1>1, <1>2, <1>3, <1>4 DEF Next
-----------------------------------------------------------------------------
(* The findings *)

Sort(f) == f.param.in \in Locations /\ f.k \in 0..(2 * NumPayloads + 1) \cup DOMAIN Privileged
Sorted == \A f \in found : Sort(f)

\* A finding at the place of the test is of the right sort.
LEMMA NewFinding ==
    ASSUME Shape, at.stage \in Active, NEW k \in 0..(2 * NumPayloads + 1), Sorted, UNCHANGED found \/ Finding(k)
    PROVE  Sorted'
<1>1. Here.in \in Locations BY HereIs, SubjectIn
<1>2. Sort([param |-> Here, k |-> k]) BY <1>1 DEF Sort
<1>3. CASE UNCHANGED found BY <1>3 DEF Sorted
<1>4. CASE Finding(k) BY <1>2, <1>4 DEF Sorted, Finding
<1> QED BY <1>3, <1>4

\* Findings stay of the right sort.
LEMMA StepSorted == ASSUME Shape, Sorted, [Next]_vars PROVE Sorted'
<1>1. CASE Test
  <2>1. at.stage \in Active BY <1>1, Moves
  <2>2. /\ at.j \in 0..(2 * NumPayloads + 1) /\ 0 \in 0..(2 * NumPayloads + 1)
        /\ Condition \in 0..(2 * NumPayloads + 1) /\ Delay(at.j) \in 0..(2 * NumPayloads + 1)
    BY ProbesAssumption DEF Shape, Spots, Condition, Delay
  <2>3. CASE ProbeFields
    <3>1. \A f \in found' : \E i \in DOMAIN Privileged : f = [param |-> Param(Privileged[i].field, "body", FALSE), k |-> i]
      BY <2>3 DEF ProbeFields, Undeclared
    <3>2. ASSUME NEW f \in found' PROVE Sort(f)
      <4>1. PICK i \in DOMAIN Privileged : f = [param |-> Param(Privileged[i].field, "body", FALSE), k |-> i] BY <3>1
      <4>2. f.param.in = "body" /\ f.k = i BY <4>1 DEF Param
      <4> QED BY <4>2 DEF Sort, Locations
    <3> QED BY <3>2 DEF Sorted
  <2>4. CASE Stop BY <2>4 DEF Stop, Sorted
  <2>5. CASE Probe \/ ProbeErrors
    <3>1. UNCHANGED found \/ Finding(at.j) BY <2>5 DEF Probe, ProbeErrors
    <3> QED BY <2>1, <2>2, <3>1, NewFinding
  <2>6. CASE ProbeIdentifier
    <3>1. UNCHANGED found \/ Finding(0) BY <2>6 DEF ProbeIdentifier
    <3> QED BY <2>1, <2>2, <3>1, NewFinding
  <2>7. CASE ProbeBaseline \/ ProbeTrue \/ ProbeDelay BY <2>7 DEF ProbeBaseline, ProbeTrue, ProbeDelay, Sorted
  <2>8. CASE ProbeFalse
    <3>1. UNCHANGED found \/ Finding(Condition) BY <2>8 DEF ProbeFalse
    <3> QED BY <2>1, <2>2, <3>1, NewFinding
  <2>9. CASE ConfirmDelay
    <3>1. UNCHANGED found \/ Finding(Delay(at.j)) BY <2>9 DEF ConfirmDelay
    <3> QED BY <2>1, <2>2, <3>1, NewFinding
  <2> QED BY <1>1, <2>3, <2>4, <2>5, <2>6, <2>7, <2>8, <2>9 DEF Test
<1>2. CASE StartScan BY <1>2, Started DEF Sorted
<1>3. CASE SendOwn BY <1>3, OwnSent DEF Sorted
<1>4. CASE Interrupt \/ UNCHANGED vars BY <1>4 DEF Interrupt, vars, Sorted
<1> QED BY <1>1, <1>2, <1>3, <1>4 DEF Next

\* The type invariant that the run checks: where a test can be, what it can
\* have found and sent, and how much it can keep.
THEOREM TypeCorrect == Spec => []TypeOK
<1>1. Init => Shape /\ Wire /\ Kept /\ Sorted BY InitShape, InitWire, InitKept DEF Init, Sorted
<1>2. Shape /\ Wire /\ Kept /\ Sorted /\ [Next]_vars => Shape' /\ Wire' /\ Kept' /\ Sorted'
  BY StepShape, StepWire, StepKept, StepSorted
<1>3. ASSUME Shape, Wire, Kept, Sorted PROVE TypeOK
  <2>1. at.stage \in Places /\ at.j \in 1..NumPayloads BY <1>3 DEF Shape, Spots
  <2>2. ~Over => at.stage = "called" \/ at.i \in DOMAIN test.rounds
    <3>1. SUFFICES ASSUME at.stage \in Active PROVE at.i \in DOMAIN test.rounds BY <2>1 DEF Over, Active, Places
    <3>2. Scanning /\ at.i \in 1..Len(test.rounds) BY <1>3, <3>1 DEF Shape
    <3>3. test.rounds \in Seq(Subjects) BY <1>3, <3>2, Tuned
    <3> QED BY <3>2, <3>3
  <2>3. \A f \in found : f.param.in \in Locations /\ f.k \in 0..(2 * NumPayloads + 1) \cup DOMAIN Privileged
    BY <1>3 DEF Sorted, Sort
  <2>4. \A r \in wire.sent : \A e \in r.has : e.in \in Locations /\ e.value \in Values
    <3>1. \A r \in wire.sent : \A e \in r.has : Typed(e) BY <1>3, WireHolds
    <3> QED BY <3>1 DEF Typed
  <2>5. Len(kept) <= NumPayloads + 2
    <3>1. Len(kept) \in Nat BY <1>3 DEF Kept
    <3>2. Held <= 2 /\ Held \in Nat BY DEF Held
    <3> QED BY <1>3, <3>1, <3>2, ProbesAssumption DEF Kept
  <2> QED BY <1>3, <2>1, <2>2, <2>3, <2>4, <2>5 DEF TypeOK, Wire
<1> QED BY <1>1, <1>2, <1>3, PTL DEF Spec
-----------------------------------------------------------------------------
(* What the answers tell *)

\* What the service answers to a request it lets in and, for idor, to an
\* identifier it knows.
Let(req, k) == Admits(req) /\ (call.plugin = "idor" => Effective(req, k))

\* A reply is that of a request let in, or a refusal.
LEMMA ReplyTells ==
    ASSUME NEW req, NEW k, NEW truth
    PROVE  LET a == Reply(req, k, truth)
           IN  /\ Let(req, k) =>
                     /\ ~a.error /\ a.marks = Marks(req, k)
                     /\ a.status = IF Marks(req, k) \cap {"location", "carried"} # {} THEN "redirect" ELSE "ok"
                     /\ a.size = IF call.plugin = "idor" THEN k
                                 ELSE IF ~truth /\ Effective(req, Condition) THEN 2 ELSE 3
                     /\ a.slow <=> k > Condition /\ Effective(req, k)
               /\ ~Let(req, k) =>
                     a = Refused /\ ~a.error /\ a.marks = {} /\ a.status = "denied" /\ a.size = 9 /\ ~a.slow
<1> DEFINE status == IF Marks(req, k) \cap {"location", "carried"} # {} THEN "redirect" ELSE "ok"
           size == IF call.plugin = "idor" THEN k ELSE IF ~truth /\ Effective(req, Condition) THEN 2 ELSE 3
           slow == k > Condition /\ Effective(req, k)
           full == [error |-> FALSE, status |-> status, marks |-> Marks(req, k), size |-> size, slow |-> slow]
<1>1. Reply(req, k, truth) = IF ~Let(req, k) THEN Refused ELSE full BY DEF Reply, Let
<1>2. /\ ~full.error /\ full.marks = Marks(req, k) /\ full.status = status /\ full.size = size
      /\ full.slow = slow
  OBVIOUS
<1>3. ~Refused.error /\ Refused.marks = {} /\ Refused.status = "denied" /\ Refused.size = 9 /\ ~Refused.slow
  BY DEF Refused
<1> HIDE DEF full
<1>4. CASE Let(req, k)
  <2>1. Reply(req, k, truth) = full BY <1>1, <1>4
  <2> QED BY <1>2, <1>4, <2>1, Zenon
<1>5. CASE ~Let(req, k)
  <2>1. Reply(req, k, truth) = Refused BY <1>1, <1>5
  <2> QED BY <1>3, <1>5, <2>1
<1> QED BY <1>4, <1>5

\* What the reply to a request that is let in tells.
LEMMA LetReply ==
    ASSUME NEW req, NEW k, NEW truth, Let(req, k)
    PROVE  /\ ~Reply(req, k, truth).error
           /\ Reply(req, k, truth).marks = Marks(req, k)
           /\ Reply(req, k, truth).status = IF Marks(req, k) \cap {"location", "carried"} # {} THEN "redirect" ELSE "ok"
           /\ call.plugin = "idor" => Reply(req, k, truth).size = k
<1> DEFINE a == Reply(req, k, truth)
<1>1. /\ ~a.error /\ a.marks = Marks(req, k)
      /\ a.status = IF Marks(req, k) \cap {"location", "carried"} # {} THEN "redirect" ELSE "ok"
  BY ReplyTells
<1>2. call.plugin = "idor" => a.size = k BY ReplyTells
<1> QED BY <1>1, <1>2

\* What the reply to one that is not tells.
LEMMA RefusedReply ==
    ASSUME NEW req, NEW k, NEW truth, ~Let(req, k)
    PROVE  Reply(req, k, truth).status = "denied"
BY ReplyTells

\* Whatever comes back, it shows no more than the service's own answer.
LEMMA AnswerTells ==
    ASSUME NEW p, NEW k \in Nat, NEW truth, NEW x, Came(x, p, k, truth)
    PROVE  /\ x.answer.marks \subseteq Marks(x.req, k)
           /\ x.answer.status # "denied" => Let(x.req, k)
           /\ interrupted => x.answer.error
           /\ faults = 0 /\ ~interrupted => x.answer = Reply(x.req, k, truth)
<1> DEFINE b == Reply(x.req, k, truth)
<1>1. b \in Answers /\ b.marks \subseteq Marks(x.req, k) /\ (b.status # "denied" => Let(x.req, k))
  BY ReplyIs, ReplyTells
<1>2. /\ Refused.marks = {} /\ Failed.marks = {} /\ Refused.status = "denied" /\ Failed.status = "denied"
      /\ Failed.error
  BY DEF Failed, Refused
<1> HIDE DEF b
<1> DEFINE slow == [b EXCEPT !.slow = TRUE]
           cut == [b EXCEPT !.marks = b.marks \cap InHeaders, !.size = 0]
<1>3. slow.marks = b.marks /\ slow.status = b.status BY <1>1 DEF Answers
<1>4. cut.marks \subseteq b.marks /\ cut.status = b.status BY <1>1 DEF Answers
<1>5. Disturbed(b) \subseteq {Failed, Refused, slow, cut} /\ (faults = 0 => Disturbed(b) = {}) BY DEF Disturbed
<1> HIDE DEF slow, cut
<1>6. x.answer \in {b, Failed, Refused, slow, cut} BY <1>5 DEF Came, b
<1>7. interrupted => x.answer = Failed BY DEF Came
<1>8. faults = 0 /\ ~interrupted => x.answer = b BY <1>5 DEF Came, b
<1> QED BY <1>1, <1>2, <1>3, <1>4, <1>6, <1>7, <1>8 DEF b

\* Marks come of the page, of the echo of a payload, or of a weakness.
LEMMA MarkOf ==
    ASSUME NEW req, NEW k, NEW m \in Marks(req, k)
    PROVE  \/ m \in service.page
           \/ Echoed(req) /\ m \in service.forms
           \/ m = Effect /\ Effective(req, k) /\ k <= NumPayloads
           \/ call.plugin = "mass_assignment" /\ m \in Bound(req)
BY DEF Marks

\* A weakness shows at the place of the finding only.
LEMMA Struck ==
    ASSUME NEW p, NEW k, NEW req, Payloads(req, p), Effective(req, k), call.plugin \in Injecting \cup {"xxe"}
    PROVE  SameSpot(p, service.weak) /\ k \in service.flaw
<1> DEFINE w == service.weak
           e == Entry(w.in, Key(w), "payload")
<1>1. e \in req.has /\ k \in service.flaw BY DEF Effective, Has
<1>2. e.in = w.in /\ e.name = Key(w) /\ e.value = "payload" BY DEF Entry
<1> HIDE DEF e
<1>3. \A d \in req.has : d.value = "payload" => d.in = p.in /\ d.name = Key(p) BY DEF Payloads, Injecting
<1> QED BY <1>1, <1>2, <1>3 DEF SameSpot

\* A mark in an answer at the place of the test is shown to anybody, or is the weakness there.
LEMMA Shows ==
    ASSUME Shape, at.stage \in Active, NEW k \in Nat, NEW truth, NEW x, Came(x, Here, k, truth),
           call.plugin # "mass_assignment", NEW m \in x.answer.marks
    PROVE  /\ m \in Shown \/ (m = Effect /\ Effective(x.req, k) /\ k \in service.flaw)
           /\ m \in Shown /\ m \notin service.page => Echoed(x.req) \/ m = Effect
           /\ call.plugin \in Injecting \cup {"xxe"} =>
                 m \in Shown \/ (m = Effect /\ SameSpot(Here, service.weak) /\ k \in service.flaw)
<1>1. Asked(x.req, Here) BY HereIs, AllAsked DEF Came
<1>2. m \in Marks(x.req, k) BY AnswerTells
<1>3. \/ m \in service.page
      \/ Echoed(x.req) /\ m \in service.forms
      \/ m = Effect /\ Effective(x.req, k) /\ k <= NumPayloads
  BY <1>2, MarkOf
<1>4. Effective(x.req, k) => k \in service.flaw BY DEF Effective
<1>5. ASSUME Effective(x.req, k), call.plugin \in Injecting \cup {"xxe"} PROVE SameSpot(Here, service.weak)
  BY <1>1, <1>5, Struck DEF Asked
<1> QED BY <1>3, <1>4, <1>5 DEF Shown

\* A finding that is right, or one of the cases in which the plugin is deceived.
Sound(p, k) == Flawed(p, k) \/ Deceived(k)

\* A signature in the answer is sound ...
LEMMA SignatureSound ==
    ASSUME Shape, at.stage \in Active, NEW k \in Nat, NEW truth, NEW x, Came(x, Here, k, truth),
           call.plugin \in {"cmdi", "path_traversal", "ssti", "xxe", "ssrf", "sqli"}, "signature" \in x.answer.marks
    PROVE  Sound(Here, k)
<1>1. "signature" \in Shown \/ (SameSpot(Here, service.weak) /\ k \in service.flaw) BY Shows DEF Injecting
<1>2. Effect = "signature" BY DEF Effect
<1>3. call.plugin \notin (Once \ {"cors"}) \cup {"idor"} BY DEF Once
<1>4. "signature" \in Shown => Deceived(k) BY <1>2, <1>3 DEF Deceived
<1>5. SameSpot(Here, service.weak) /\ k \in service.flaw => Flawed(Here, k) BY DEF Flawed
<1> QED BY <1>1, <1>4, <1>5 DEF Sound

\* ... so is what ssrf looks for,
LEMMA SsrfSound ==
    ASSUME Shape, at.stage \in Active, NEW k \in Nat, NEW truth, NEW x, Came(x, Here, k, truth),
           call.plugin = "ssrf", ssrf(x.answer, k)
    PROVE  Sound(Here, k)
<1>1. "signature" \in x.answer.marks \/ (k = 2 /\ "piece" \in x.answer.marks) BY DEF ssrf, matchSignal, StripPayload
<1>2. CASE "signature" \in x.answer.marks BY <1>2, SignatureSound
<1>3. CASE k = 2 /\ "piece" \in x.answer.marks
  <2>1. Effect # "piece" BY DEF Effect
  <2>2. "piece" \in Shown
    <3>1. call.plugin # "mass_assignment" /\ "piece" \in x.answer.marks BY <1>3
    <3> QED BY <2>1, <3>1, Shows
  <2> QED BY <1>3, <2>2 DEF Sound, Deceived
<1> QED BY <1>1, <1>2, <1>3

\* xss,
LEMMA XssSound ==
    ASSUME Shape, at.stage \in Active, NEW k \in Nat, NEW truth, NEW x, Came(x, Here, k, truth),
           call.plugin = "xss", xss(x.answer)
    PROVE  Sound(Here, k)
<1>1. "echo" \in Shown \/ (SameSpot(Here, service.weak) /\ k \in service.flaw) BY Shows DEF Injecting, xss
<1>2. Effect = "echo" BY DEF Effect
<1>3. call.plugin \notin (Once \ {"cors"}) \cup {"idor"} BY DEF Once
<1>4. "echo" \in Shown => Deceived(k) BY <1>2, <1>3 DEF Deceived
<1>5. SameSpot(Here, service.weak) /\ k \in service.flaw => Flawed(Here, k) BY DEF Flawed
<1> QED BY <1>1, <1>4, <1>5 DEF Sound

\* open_redirect,
LEMMA RedirectSound ==
    ASSUME Shape, at.stage \in Active, NEW k \in Nat, NEW truth, NEW x, Came(x, Here, k, truth),
           call.plugin = "open_redirect", open_redirect(x.answer)
    PROVE  Sound(Here, k)
<1>1. PICK m \in {"script", "location", "carried"} : m \in x.answer.marks BY DEF open_redirect, pointsTo
<1>2. m \in Shown \/ (m = Effect /\ SameSpot(Here, service.weak) /\ k \in service.flaw) BY <1>1, Shows DEF Injecting
<1>3. Effect = "location" BY DEF Effect
<1>4. call.plugin \notin (Once \ {"cors"}) \cup {"idor"} BY DEF Once
<1>5. m \in Shown => Deceived(k) BY <1>3, <1>4 DEF Deceived
<1>6. SameSpot(Here, service.weak) /\ k \in service.flaw => Flawed(Here, k) BY DEF Flawed
<1> QED BY <1>2, <1>5, <1>6 DEF Sound

\* A guard that lets a request of auth in knows other credentials than those
\* that were left out.
LEMMA AuthSound ==
    ASSUME Shape, at.stage \in Active, NEW k \in Nat, NEW truth, NEW x, Came(x, Here, k, truth),
           call.plugin = "auth", auth(x.answer)
    PROVE  Sound(Here, k)
<1>1. Scanning /\ Asked(x.req, Here) BY HereIs, AllAsked DEF Came
<1>2. Admits(x.req)
  <2>1. x.answer.status # "denied" BY DEF auth
  <2> QED BY <2>1, AnswerTells DEF Let
<1>3. CASE service.guard = {} BY <1>3 DEF Sound, Flawed
<1>4. ASSUME NEW g \in service.guard, Has(x.req, g, "own") \/ Has(x.req, g, "default")
      PROVE  g.in # "header" \/ Canonical[g.name] \notin Credentials
  <2>1. SUFFICES ASSUME g.in = "header" PROVE Canonical[g.name] \notin Credentials OBVIOUS
  <2>2. PICK v \in {"own", "default"} : Has(x.req, g, v) BY <1>4
  <2> DEFINE e == Entry("header", Canonical[g.name], v)
  <2>3. e \in x.req.has /\ e.in = "header" /\ e.name = Canonical[g.name] /\ e.value \in {"own", "default"}
    BY <2>1, <2>2 DEF Has, Key, Entry
  <2> HIDE DEF e
  <2>4. \/ e \in test.cfg.params
        \/ \E h \in test.cfg.headers : e = Written(h) /\ Canonical[h.name] \notin Credentials
    BY <1>1, <2>3 DEF Asked, Custom
  <2>5. e \notin test.cfg.params
    <3>1. Queries(test.cfg.params) BY <1>1, Tuned, Headers DEF Shape, Tested
    <3> QED BY <2>3, <3>1 DEF Queries
  <2> QED BY <2>3, <2>4, <2>5 DEF Written, Entry
<1>5. CASE service.guard # {} BY <1>2, <1>4, <1>5 DEF Admits, Sound, Deceived
<1> QED BY <1>3, <1>5

\* cors
LEMMA CorsSound ==
    ASSUME Shape, Single, at.stage \in Active, NEW truth, NEW x, Came(x, Here, at.j, truth),
           call.plugin = "cors", cors(x.answer)
    PROVE  Sound(Here, at.j)
<1>1. at.j = 1 BY DEF Single, Once
<1>2. Effect = "origin" BY DEF Effect
<1>3. call.plugin \notin (Once \ {"cors"}) \cup {"idor"} BY DEF Once
<1>4. \A m \in x.answer.marks : m \in Shown \/ (m = Effect /\ 1 \in service.flaw) BY <1>1, Shows
<1>5. CASE "origin" \in x.answer.marks
  <2>1. "origin" \in Shown => Deceived(at.j) BY <1>2, <1>3 DEF Deceived
  <2>2. 1 \in service.flaw => Flawed(Here, at.j) BY DEF Flawed
  <2> QED BY <1>4, <1>5, <2>1, <2>2 DEF Sound
<1>6. CASE {"anyorigin", "credentials"} \subseteq x.answer.marks
  <2>1. {"anyorigin", "credentials"} \subseteq Shown BY <1>2, <1>4, <1>6
  <2> QED BY <2>1 DEF Sound, Flawed, Shown
<1> QED BY <1>5, <1>6 DEF cors

\* and sensitive_data.
LEMMA SecretSound ==
    ASSUME Shape, at.stage \in Active, NEW k \in Nat, NEW truth, NEW x, Came(x, Here, k, truth),
           call.plugin = "sensitive_data", sensitive_data(x.answer)
    PROVE  Sound(Here, k)
<1>1. Asked(x.req, Here) BY HereIs, AllAsked DEF Came
<1>2. ~Echoed(x.req)
  <2>1. \A e \in x.req.has : e.value # "payload" BY <1>1 DEF Asked, Payloads, Injecting
  <2> QED BY <2>1 DEF Echoed
<1>3. Effect = "signature" BY DEF Effect
<1>4. "secret" \in service.page BY <1>2, <1>3, Shows DEF sensitive_data
<1> QED BY <1>4 DEF Sound, Flawed

\* A hit of a plugin that looks at one answer is sound.
LEMMA ProbeSound ==
    ASSUME Shape, Single, at.stage \in Active, NEW truth, NEW x, Came(x, Here, at.j, truth),
           call.plugin \in builtins \ {"sqli", "idor", "mass_assignment"}, Hit(x.answer, at.j)
    PROVE  Sound(Here, at.j)
<1>1. at.j \in Nat BY DEF Shape, Spots
<1>2. CASE call.plugin = "cmdi"
  <2>1. "signature" \in x.answer.marks BY <1>2 DEF Hit, cmdi, matchSignal, StripPayload
  <2> QED BY <1>1, <1>2, <2>1, SignatureSound
<1>3. CASE call.plugin = "path_traversal"
  <2>1. "signature" \in x.answer.marks BY <1>3 DEF Hit, path_traversal, matchSignal, StripPayload
  <2> QED BY <1>1, <1>3, <2>1, SignatureSound
<1>4. CASE call.plugin = "ssti"
  <2>1. "signature" \in x.answer.marks BY <1>4 DEF Hit, ssti, matchSignal, StripPayload
  <2> QED BY <1>1, <1>4, <2>1, SignatureSound
<1>5. CASE call.plugin = "xxe"
  <2>1. "signature" \in x.answer.marks BY <1>5 DEF Hit, xxe, matchSignal, StripPayload
  <2> QED BY <1>1, <1>5, <2>1, SignatureSound
<1>6. CASE call.plugin = "ssrf"
  <2>1. ssrf(x.answer, at.j) BY <1>6 DEF Hit
  <2> QED BY <1>1, <1>6, <2>1, SsrfSound
<1>7. CASE call.plugin = "xss"
  <2>1. xss(x.answer) BY <1>7 DEF Hit
  <2> QED BY <1>1, <1>7, <2>1, XssSound
<1>8. CASE call.plugin = "open_redirect"
  <2>1. open_redirect(x.answer) BY <1>8 DEF Hit
  <2> QED BY <1>1, <1>8, <2>1, RedirectSound
<1>9. CASE call.plugin = "auth"
  <2>1. auth(x.answer) BY <1>9 DEF Hit
  <2> QED BY <1>1, <1>9, <2>1, AuthSound
<1>10. CASE call.plugin = "cors"
  <2>1. cors(x.answer) BY <1>10 DEF Hit
  <2> QED BY <1>10, <2>1, CorsSound
<1>11. CASE call.plugin = "sensitive_data"
  <2>1. sensitive_data(x.answer) BY <1>11 DEF Hit
  <2> QED BY <1>1, <1>11, <2>1, SecretSound
<1> QED BY <1>2, <1>3, <1>4, <1>5, <1>6, <1>7, <1>8, <1>9, <1>10, <1>11 DEF builtins, Injecting, Once

\* What an answer holds of a word of mass_assignment is shown to anybody, is
\* sent back, or is of a field that the service binds and the document does not
\* declare.
LEMMA WordOf ==
    ASSUME Shape, Scanning, call.plugin = "mass_assignment", NEW p, NEW truth, NEW x, Came(x, p, 1, truth),
           NEW m \in x.answer.marks, m # "signature"
    PROVE  m \in Shown \/ \E i \in service.flaw \cap Undeclared(test.ep) : m \in Spelled(i)
<1>1. m \in Marks(x.req, 1) BY AnswerTells
<1>2. Effect = "signature" BY DEF Effect
<1>3. m \in Shown \/ m \in Bound(x.req) BY <1>1, <1>2, MarkOf DEF Shown
<1>4. CASE m \in Bound(x.req)
  <2>1. PICK i \in service.flaw \cap DOMAIN Privileged :
           Has(x.req, Param(Privileged[i].field, "body", FALSE), "payload") /\ m \in Spelled(i)
    BY <1>4 DEF Bound
  <2> DEFINE e == Entry("body", Privileged[i].field, "payload")
  <2>2. e \in x.req.has BY <2>1 DEF Has, Key, Param
  <2>3. e.value = "payload" /\ e.name = Privileged[i].field BY DEF Entry
  <2> HIDE DEF e
  <2>4. x.req \in Requests(call.plugin, p) BY DEF Came
  <2>5. Payloads(x.req, p) BY <2>4, AskedMass DEF Asked
  <2>6. call.plugin \notin Injecting \cup {"xxe"} BY DEF Injecting
  <2>7. PICK k \in Undeclared(test.ep) : e.name = Privileged[k].field BY <2>2, <2>3, <2>5, <2>6 DEF Payloads
  <2>8. i \in Undeclared(test.ep) BY <2>1, <2>3, <2>7 DEF Undeclared
  <2> QED BY <2>1, <2>8
<1> QED BY <1>3, <1>4

\* A privileged field of which both words are in the answer is sound.
LEMMA MassSound ==
    ASSUME Shape, Scanning, NEW p, NEW truth, NEW x, Came(x, p, 1, truth),
           call.plugin = "mass_assignment", NEW u \in Undeclared(test.ep),
           Words(u) \subseteq x.answer.marks \cup SentBack(x.answer.marks)
    PROVE  Sound(Param(Privileged[u].field, "body", FALSE), u)
<1>1. u \in DOMAIN Privileged BY DEF Undeclared
<1>2. SUFFICES ASSUME u \notin service.flaw, NEW m \in Words(u) PROVE m \in Elsewhere(u)
  BY DEF Sound, Flawed, Deceived
<1>3. CASE m \in x.answer.marks
  <2>1. m # "signature" BY <1>1, PrivilegedAssumption
  <2>2. m \in Shown \/ \E i \in service.flaw \cap Undeclared(test.ep) : m \in Spelled(i)
    BY <1>3, <2>1, WordOf
  <2> QED BY <1>2, <2>2 DEF Elsewhere
<1>4. CASE m \in SentBack(x.answer.marks)
  <2>1. "echo" \in x.answer.marks /\ "echo" # "signature" BY <1>4 DEF SentBack
  <2>2. "echo" \in Shown \/ \E i \in service.flaw \cap Undeclared(test.ep) : "echo" \in Spelled(i)
    BY <2>1, WordOf
  <2>3. "echo" \in Shown BY <2>2, PrivilegedAssumption DEF Undeclared
  <2>4. SentBack(x.answer.marks) = SentBack(Shown) BY <2>1, <2>3 DEF SentBack
  <2> QED BY <1>4, <2>4 DEF Elsewhere
<1> QED BY <1>2, <1>3, <1>4

\* A finding stays as good as it was: the service and the test do not change, and
\* faults only become fewer.
LEMMA Lasts ==
    ASSUME call' = call, service' = service, test' = test,
           faults \in 0..MaxFaults, faults' \in 0..MaxFaults, faults' <= faults,
           NEW p, NEW k, Sound(p, k)
    PROVE  Sound(p, k)'
<1>1. Flawed(p, k)' <=> Flawed(p, k) BY DEF Flawed, SameSpot
<1>2. ASSUME Deceived(k) PROVE Deceived(k)'
  <2>1. faults < MaxFaults => faults' < MaxFaults BY ProbesAssumption
  <2>2. faults + 2 <= MaxFaults => faults' + 2 <= MaxFaults
    <3>1. \A a, b, m \in Int : b <= a /\ a + 2 <= m => b + 2 <= m OBVIOUS
    <3>2. faults \in Int /\ faults' \in Int /\ MaxFaults \in Int BY ProbesAssumption
    <3> QED BY <3>1, <3>2
  <2>3. Shown' = Shown BY DEF Shown
  <2>4. Elsewhere(k)' = Elsewhere(k) BY DEF Elsewhere, Shown, SentBack, Undeclared
  <2> QED BY <1>2, <2>1, <2>2, <2>3, <2>4 DEF Deceived, Effect
<1> QED BY <1>1, <1>2 DEF Sound

\* A finding that is new is the one of this step.
LEMMA Adds ==
    ASSUME NEW k, Finding(k), NEW f \in found'
    PROVE  f \in found \/ (f.param = Here /\ f.k = k)
BY DEF Finding

\* idor: an identifier that is let in and known is a flaw, and its answer has
\* a length of its own.
LEMMA IdSize ==
    ASSUME NEW p, NEW k \in Nat, NEW truth, NEW x, Came(x, p, k, truth),
           call.plugin = "idor", x.answer.status = "ok", x.answer.size > 0
    PROVE  x.answer.size = k /\ k \in service.flaw
<1> DEFINE b == Reply(x.req, k, truth)
           slow == [b EXCEPT !.slow = TRUE]
           cut == [b EXCEPT !.marks = b.marks \cap InHeaders, !.size = 0]
<1>1. Let(x.req, k) BY AnswerTells
<1>2. b \in Answers /\ b.size = k BY <1>1, ReplyIs, LetReply
<1>3. Refused.status = "denied" /\ Failed.status = "denied" BY DEF Failed, Refused
<1>4. Disturbed(b) \subseteq {Failed, Refused, slow, cut} BY DEF Disturbed
<1> HIDE DEF b
<1>5. slow.size = b.size /\ cut.size = 0 BY <1>2 DEF Answers
<1> HIDE DEF slow, cut
<1>6. x.answer \in {b, Failed, Refused, slow, cut} BY <1>4 DEF Came, b
<1>7. x.answer.size = k BY <1>2, <1>3, <1>5, <1>6
<1>8. k \in service.flaw BY <1>1 DEF Let, Effective
<1> QED BY <1>7, <1>8

\* A set with two different elements has two.
LEMMA TwoOf ==
    ASSUME NEW S, IsFiniteSet(S), NEW a \in S, NEW b \in S, a # b
    PROVE  Cardinality(S) >= 2
<1>1. IsFiniteSet({a}) /\ Cardinality({a}) = 1 BY FS_Singleton
<1>2. IsFiniteSet({a} \cup {b}) /\ Cardinality({a} \cup {b}) = 2
  <2>1. b \notin {a} OBVIOUS
  <2> QED BY <1>1, <2>1, FS_AddElement
<1>3. {a} \cup {b} \subseteq S OBVIOUS
<1>4. Cardinality({a} \cup {b}) <= Cardinality(S)
  <2>1. {a} \cup {b} \in SUBSET S BY <1>3
  <2> QED BY <2>1, FS_Subset
<1> QED BY <1>2, <1>4, FS_CardinalityType

Ids == call.plugin = "idor" => \A n \in 1..Len(kept) : kept[n].size \in service.flaw

\* The answers of idor after one more.
More(x) == IF ~x.answer.error /\ x.answer.status = "ok" /\ x.answer.size > 0 THEN Append(kept, x.answer) ELSE kept

\* With an answer more, idor still has kept identifiers that are known.
LEMMA MoreIds ==
    ASSUME Shape, Kept, Ids, call.plugin = "idor",
           NEW x \in Exchanges(Here, at.j, TRUE), After(x, Here, at.j, TRUE)
    PROVE  /\ More(x) \in Seq(Answers)
           /\ \A n \in 1..Len(More(x)) : More(x)[n].size \in service.flaw
<1>1. at.j \in Nat BY DEF Shape, Spots
<1>4. Came(x, Here, at.j, TRUE) BY DEF After
<1>5. kept \in Seq(Answers) /\ x.answer \in Answers /\ \A n \in 1..Len(kept) : kept[n].size \in service.flaw
  <2>1. x.answer \in Answers BY <1>4 DEF Came
  <2>2. kept \in Seq(Answers) BY DEF Kept
  <2>3. \A n \in 1..Len(kept) : kept[n].size \in service.flaw BY DEF Ids
  <2> QED BY <2>1, <2>2, <2>3
<1>6. CASE More(x) = kept BY <1>5, <1>6
<1>7. CASE x.answer.status = "ok" /\ x.answer.size > 0 /\ More(x) = Append(kept, x.answer)
  <2>1. x.answer.size \in service.flaw
    <3>1. x.answer.size = at.j /\ at.j \in service.flaw BY <1>1, <1>4, <1>7, IdSize
    <3> QED BY <3>1
  <2>2. Append(kept, x.answer) \in Seq(Answers) /\ Len(Append(kept, x.answer)) = Len(kept) + 1 /\ Len(kept) \in Nat
    BY <1>5
  <2>3. \A n \in 1..Len(kept) : Append(kept, x.answer)[n] = kept[n] BY <1>5
  <2>4. Append(kept, x.answer)[Len(kept) + 1] = x.answer BY <1>5
  <2>5. \A n \in 1..(Len(kept) + 1) : n \in 1..Len(kept) \/ n = Len(kept) + 1 BY <2>2
  <2>6. \A n \in 1..(Len(kept) + 1) : Append(kept, x.answer)[n].size \in service.flaw
    BY <1>5, <2>1, <2>3, <2>4, <2>5
  <2> QED BY <1>7, <2>2, <2>6
<1> QED BY <1>6, <1>7 DEF More

\* ProbeIdentifier, with what it has kept named.
LEMMA IdentifierSteps ==
    ASSUME Shape, Wire, Kept, Ids, ProbeIdentifier
    PROVE  \E x \in Exchanges(Here, at.j, TRUE) :
              /\ After(x, Here, at.j, TRUE)
              /\ kept' = IF at.j = Steps THEN <<>> ELSE More(x)
              /\ IF at.j = Steps /\ Len(More(x)) >= 2 /\ More(x)[1].size # Last(More(x)).size
                 THEN Finding(0) ELSE UNCHANGED found
<1>1. at.j \in Nat BY DEF Shape, Spots
<1>2. PICK x \in Exchanges(Here, at.j, TRUE) :
         /\ Sent(x, Here, at.j, TRUE)
         /\ kept' = IF at.j = Steps THEN <<>> ELSE More(x)
         /\ IF at.j = Steps /\ Len(More(x)) >= 2 /\ More(x)[1].size # Last(More(x)).size
            THEN Finding(0) ELSE UNCHANGED found
  BY DEF ProbeIdentifier, More
<1>3. After(x, Here, at.j, TRUE) BY <1>1, <1>2, Leaves
<1> QED BY <1>2, <1>3

\* What idor reports is sound: two lengths are two identifiers.
LEMMA IdorSound ==
    ASSUME Shape, Wire, Kept, Ids, ProbeIdentifier
    PROVE  \A f \in found' : f \in found \/ Sound(f.param, f.k)'
<1>1. at.stage \in Active /\ call.plugin = "idor" /\ ~interrupted BY DEF ProbeIdentifier, Goes, Active
<1>2. call' = call /\ service' = service BY Moves DEF Test
<1>3. PICK x \in Exchanges(Here, at.j, TRUE) :
         /\ After(x, Here, at.j, TRUE)
         /\ IF at.j = Steps /\ Len(More(x)) >= 2 /\ More(x)[1].size # Last(More(x)).size
            THEN Finding(0) ELSE UNCHANGED found
  BY IdentifierSteps
<1>4. SUFFICES ASSUME Len(More(x)) >= 2, More(x)[1].size # Last(More(x)).size, Finding(0), NEW f \in found', f.k = 0
               PROVE  Sound(f.param, f.k)'
  BY <1>3, Adds
<1> DEFINE all == More(x)
<1>5. all \in Seq(Answers) /\ \A n \in 1..Len(all) : all[n].size \in service.flaw BY <1>1, <1>3, MoreIds
<1> HIDE DEF all
<1>6. Len(all) \in Nat /\ Len(all) >= 2 /\ Last(all) = all[Len(all)] BY <1>4, <1>5 DEF all, Last
<1>7. 1 \in 1..Len(all) /\ Len(all) \in 1..Len(all) BY <1>6
<1>8. all[1].size \in service.flaw /\ Last(all).size \in service.flaw BY <1>5, <1>6, <1>7
<1>9. IsFiniteSet(service.flaw)
  <2>1. service.flaw \subseteq 1..NumPayloads BY <1>1, ServicesAssumption DEF Shape, Injecting
  <2>2. IsFiniteSet(1..NumPayloads) BY FS_Interval, ProbesAssumption
  <2> QED BY <2>1, <2>2, FS_Subset
<1>10. Cardinality(service.flaw) >= 2 BY <1>4, <1>8, <1>9, TwoOf DEF all
<1> QED BY <1>1, <1>2, <1>4, <1>10 DEF Sound, Flawed

\* The guard lets in the requests of a configuration or none of them.
LEMMA LetInIs ==
    ASSUME Shape, Scanning, NEW r, Custom(r), call.plugin \notin {"auth", "cors"}
    PROVE  Admits(r) <=> LetIn
<1>1. Queries(test.cfg.params) /\ Customs(test.cfg.headers) BY Tuned, Headers DEF Shape, Tested
<1>2. \A h \in test.cfg.headers : h.value \in {"own", "default"} BY Tuned, Headers DEF Shape, Tested
<1>3. \A e \in test.cfg.params : e = Entry("query", e.name, "own")
  <2>1. test.cfg.params = call.args.params BY Tuned, Configuration DEF Shape, Tested
  <2>2. call.args.params \subseteq [in : {"query"}, name : STRING, value : {"own"}] BY Tuned DEF Arguments
  <2> QED BY <2>1, <2>2 DEF Entry
<1>4. ASSUME NEW g, NEW v \in {"own", "default"}, Has(r, g, v)
      PROVE  \/ g.in = "header" /\ \E h \in test.cfg.headers : Canonical[h.name] = Canonical[g.name]
             \/ g.in = "query" /\ \E e \in test.cfg.params : e.name = g.name
  <2> DEFINE e == Entry(g.in, Key(g), v)
  <2>1. e \in r.has /\ e.in = g.in /\ e.name = Key(g) /\ e.value = v BY <1>4 DEF Has, Entry
  <2> HIDE DEF e
  <2>2. e \in test.cfg.params \/ \E h \in test.cfg.headers : e = Written(h) BY <2>1 DEF Custom
  <2>3. CASE e \in test.cfg.params BY <1>1, <2>1, <2>3 DEF Queries, Key
  <2>4. ASSUME NEW h \in test.cfg.headers, e = Written(h)
        PROVE  g.in = "header" /\ Canonical[h.name] = Canonical[g.name]
    <3>1. e.in = "header" /\ e.name = Canonical[h.name] BY <2>4 DEF Written, Entry
    <3> QED BY <2>1, <3>1 DEF Key
  <2> QED BY <2>2, <2>3, <2>4
<1>5. ASSUME NEW g, g.in = "header", NEW h \in test.cfg.headers, Canonical[h.name] = Canonical[g.name]
      PROVE  Has(r, g, "own") \/ Has(r, g, "default")
  <2>1. PICK f \in test.cfg.headers : SameName(h, f) /\ Written(f) \in r.has BY <1>5 DEF Custom
  <2>2. Written(f) = Entry(g.in, Key(g), f.value) BY <1>5, <2>1 DEF Written, SameName, Key
  <2> QED BY <1>2, <2>1, <2>2 DEF Has
<1>6. ASSUME NEW g, g.in = "query", NEW e \in test.cfg.params, e.name = g.name
      PROVE  Has(r, g, "own")
  <2>1. e \in r.has BY DEF Custom
  <2>2. e = Entry(g.in, Key(g), "own") BY <1>3, <1>6 DEF Key
  <2> QED BY <2>1, <2>2 DEF Has
<1> QED BY <1>4, <1>5, <1>6 DEF Admits, LetIn

\* sqli: the lengths of the pages it compares.
PageSize == IF LetIn THEN 3 ELSE 9
Pages == call.plugin = "sqli" /\ faults = MaxFaults =>
            \A n \in 1..Len(kept) : kept[n].error \/ kept[n].size = PageSize

\* A request of a scan is let in by the user's credentials.
LEMMA AdmitsIs ==
    ASSUME Shape, at.stage \in Active, call.plugin \notin {"auth", "cors"}, NEW k, NEW truth, NEW x, Came(x, Here, k, truth)
    PROVE  Admits(x.req) <=> LetIn
<1>1. Scanning /\ Asked(x.req, Here) BY HereIs, AllAsked DEF Came
<1> QED BY <1>1, LetInIs DEF Asked

\* The page of a true condition, or of none.
LEMMA TrueSize ==
    ASSUME NEW req, NEW k, call.plugin # "idor"
    PROVE  Reply(req, k, TRUE).size = IF Let(req, k) THEN 3 ELSE 9
<1>1. CASE Let(req, k)
  <2>1. Reply(req, k, TRUE).size = IF call.plugin = "idor" THEN k
                                   ELSE IF ~TRUE /\ Effective(req, Condition) THEN 2 ELSE 3
    BY <1>1, ReplyTells
  <2> QED BY <1>1, <2>1
<1>2. CASE ~Let(req, k)
  <2>1. Reply(req, k, TRUE).size = 9 BY <1>2, ReplyTells
  <2> QED BY <1>2, <2>1
<1> QED BY <1>1, <1>2

\* The answer to a request with a true condition has the length of the page.
LEMMA PageIs ==
    ASSUME Shape, at.stage \in Active, call.plugin = "sqli", NEW k \in Nat, NEW x, Came(x, Here, k, TRUE), Own(x, k, TRUE)
    PROVE  x.answer.error \/ x.answer.size = PageSize
<1>1. Admits(x.req) <=> LetIn
  <2>1. call.plugin \notin {"auth", "cors"} OBVIOUS
  <2> QED BY <2>1, AdmitsIs
<1>2. CASE interrupted BY <1>2, AnswerTells
<1>3. CASE ~interrupted
  <2>1. x.answer = Reply(x.req, k, TRUE) BY <1>3 DEF Own
  <2>2. CASE LetIn
    <3>1. Let(x.req, k) BY <1>1, <2>2 DEF Let
    <3>2. Reply(x.req, k, TRUE).size = 3 BY <3>1, TrueSize
    <3> QED BY <2>1, <2>2, <3>2 DEF PageSize
  <2>3. CASE ~LetIn
    <3>1. ~Let(x.req, k) BY <1>1, <2>3 DEF Let
    <3>2. Reply(x.req, k, TRUE).size = 9 BY <3>1, TrueSize
    <3> QED BY <2>1, <2>3, <3>2 DEF PageSize
  <2> QED BY <2>2, <2>3
<1> QED BY <1>2, <1>3

\* What sqli concludes from a condition is sound.
LEMMA ConditionSound ==
    ASSUME Shape, Wire, Kept, Pages, ProbeFalse
    PROVE  \A f \in found' : f \in found \/ Sound(f.param, f.k)'
<1>1. at.stage \in Active /\ call.plugin = "sqli" /\ at.stage = "false" BY DEF ProbeFalse, Goes, Active
<1>2. call' = call /\ service' = service /\ test' = test BY Moves DEF Test
<1>3. Condition \in Nat BY ProbesAssumption DEF Condition
<1>4. PICK x \in Exchanges(Here, Condition, FALSE) :
         /\ Sent(x, Here, Condition, FALSE)
         /\ IF Diverges(kept[1], kept[2], x.answer) THEN Finding(Condition) /\ NextRound
            ELSE /\ IF kept[1].slow THEN NextRound ELSE at' = [at EXCEPT !.stage = "time", !.j = 1]
                 /\ UNCHANGED found
  BY DEF ProbeFalse
<1>5. After(x, Here, Condition, FALSE) BY <1>3, <1>4, Leaves
<1>6. SUFFICES ASSUME Diverges(kept[1], kept[2], x.answer), NEW f \in found', f.param = Here, f.k = Condition
               PROVE  Sound(f.param, f.k)'
  BY <1>4, Adds
<1>7. faults \in 0..MaxFaults BY DEF Wire
<1>8. faults' \in 0..MaxFaults BY <1>5, <1>7, FewerFaults
<1>9. CASE faults' # MaxFaults
  <2>1. faults' < MaxFaults BY <1>8, <1>9, ProbesAssumption
  <2> QED BY <1>1, <1>2, <1>6, <2>1 DEF Sound, Deceived, Condition
<1>10. CASE faults' = MaxFaults
  <2>1. faults = MaxFaults /\ Own(x, Condition, FALSE) BY <1>5, <1>7, <1>10, StillAll
  <2>2. Len(kept) = 2 BY <1>1 DEF Kept, Held
  <2>3. ~kept[2].error /\ ~x.answer.error /\ x.answer.size # kept[2].size BY <1>6 DEF Diverges
  <2>4. 2 \in 1..Len(kept) BY <2>2
  <2>5. kept[2].size = PageSize BY <1>1, <2>1, <2>3, <2>4 DEF Pages
  <2>6. Came(x, Here, Condition, FALSE) BY <1>5 DEF After
  <2>7. ~interrupted BY <1>3, <2>3, <2>6, AnswerTells
  <2>8. x.answer = Reply(x.req, Condition, FALSE) BY <2>1, <2>7 DEF Own
  <2>9. Admits(x.req) <=> LetIn BY <1>1, <2>6, AdmitsIs
  <2>10. LetIn
    <3>1. SUFFICES ASSUME ~LetIn PROVE FALSE OBVIOUS
    <3>2. ~Let(x.req, Condition) BY <2>9, <3>1 DEF Let
    <3>3. Reply(x.req, Condition, FALSE).size = 9 BY <3>2, ReplyTells
    <3> QED BY <2>3, <2>5, <2>8, <3>1, <3>3 DEF PageSize
  <2>11. Effective(x.req, Condition)
    <3>1. SUFFICES ASSUME ~Effective(x.req, Condition) PROVE FALSE OBVIOUS
    <3>2. Let(x.req, Condition) BY <1>1, <2>9, <2>10 DEF Let
    <3>3. Reply(x.req, Condition, FALSE).size = 3 BY <1>1, <3>1, <3>2, ReplyTells
    <3> QED BY <2>3, <2>5, <2>8, <2>10, <3>3 DEF PageSize
  <2>12. Asked(x.req, Here) BY <1>1, <2>6, HereIs, AllAsked DEF Came
  <2>13. SameSpot(Here, service.weak) /\ Condition \in service.flaw BY <1>1, <2>11, <2>12, Struck DEF Asked, Injecting
  <2>14. Flawed(Here, Condition) BY <1>1, <2>13 DEF Flawed
  <2>15. Sound(f.param, f.k) BY <1>6, <2>14 DEF Sound
  <2>16. faults' <= faults BY <1>5, <1>7, FewerFaults
  <2> QED BY <1>2, <1>7, <1>8, <2>15, <2>16, Lasts
<1> QED BY <1>9, <1>10

\* sqli: a delay is confirmed when it was seen once, and that was the service's
\* or a fault.
Late == at.stage = "confirm" => faults < MaxFaults \/ (SameSpot(Here, service.weak) /\ Delay(at.j) \in service.flaw)

\* The numbers of the conditions and delays of sqli come after those of its meta-characters.
LEMMA DelayIs ==
    ASSUME Shape
    PROVE  /\ Condition \in Nat /\ Condition # 0 /\ Delay(at.j) \in Nat /\ at.j \in Nat
           /\ Delay(at.j) > Condition /\ Delay(at.j) # Condition
BY ProbesAssumption DEF Shape, Spots, Condition, Delay

\* An answer that is late is a fault, or the weakness is there.
LEMMA LateIs ==
    ASSUME Shape, at.stage \in Active, call.plugin = "sqli", NEW k \in Nat, NEW x, After(x, Here, k, TRUE),
           ~x.answer.error, x.answer.slow, faults \in 0..MaxFaults
    PROVE  faults' + 1 = faults \/ (SameSpot(Here, service.weak) /\ k \in service.flaw)
<1>1. Came(x, Here, k, TRUE) BY DEF After
<1>2. ~interrupted BY <1>1, AnswerTells
<1>3. CASE x.answer # Reply(x.req, k, TRUE) BY <1>2, <1>3, FewerFaults
<1>4. CASE x.answer = Reply(x.req, k, TRUE)
  <2>1. Effective(x.req, k)
    <3>1. Reply(x.req, k, TRUE).slow BY <1>4
    <3>2. ~Let(x.req, k) => ~Reply(x.req, k, TRUE).slow BY ReplyTells
    <3>3. Let(x.req, k) => (Reply(x.req, k, TRUE).slow <=> k > Condition /\ Effective(x.req, k)) BY ReplyTells
    <3> QED BY <3>1, <3>2, <3>3
  <2>2. Asked(x.req, Here) BY <1>1, HereIs, AllAsked DEF Came
  <2>3. SameSpot(Here, service.weak) /\ k \in service.flaw BY <2>1, <2>2, Struck DEF Asked, Injecting
  <2> QED BY <2>3
<1> QED BY <1>3, <1>4

\* What sqli concludes from two late answers is sound.
LEMMA ConfirmSound ==
    ASSUME Shape, Wire, Late, ConfirmDelay
    PROVE  \A f \in found' : f \in found \/ Sound(f.param, f.k)'
<1>1. at.stage \in Active /\ call.plugin = "sqli" /\ at.stage = "confirm" BY DEF ConfirmDelay, Goes, Active
<1>2. call' = call /\ service' = service /\ test' = test BY Moves DEF Test
<1>3. PICK k \in Nat : k = Delay(at.j) /\ k > Condition BY DelayIs
<1>4. PICK x \in Exchanges(Here, k, TRUE) :
         /\ Sent(x, Here, k, TRUE)
         /\ (~x.answer.error /\ x.answer.slow) \/ UNCHANGED found
         /\ Finding(k) \/ UNCHANGED found
  BY <1>3 DEF ConfirmDelay
<1>5. (SameSpot(Here, service.weak) /\ k \in service.flaw) \/ faults < MaxFaults BY <1>1, <1>3 DEF Late
<1>6. After(x, Here, k, TRUE) BY <1>3, <1>4, Leaves
<1>7. SUFFICES ASSUME ~x.answer.error, x.answer.slow, NEW f \in found', f.param = Here, f.k = k
               PROVE  Sound(f.param, f.k)'
  BY <1>4, Adds
<1>8. faults \in 0..MaxFaults BY DEF Wire
<1>9. faults' \in 0..MaxFaults /\ faults' <= faults BY <1>6, <1>8, FewerFaults
<1>10. faults' + 1 = faults \/ (SameSpot(Here, service.weak) /\ k \in service.flaw)
  BY <1>1, <1>3, <1>6, <1>7, <1>8, LateIs
<1>11. CASE SameSpot(Here, service.weak) /\ k \in service.flaw
  <2>1. Flawed(Here, k) BY <1>1, <1>11 DEF Flawed
  <2>2. Sound(f.param, f.k) BY <1>7, <2>1 DEF Sound
  <2> QED BY <1>2, <1>8, <1>9, <2>2, Lasts
<1>12. CASE faults' + 1 = faults /\ faults < MaxFaults
  <2>1. faults' + 2 <= MaxFaults
    <3>1. \A a, b, m \in Int : b + 1 = a /\ a < m => b + 2 <= m OBVIOUS
    <3>2. faults \in Int /\ faults' \in Int /\ MaxFaults \in Int BY <1>8, <1>9, ProbesAssumption
    <3> QED BY <1>12, <3>1, <3>2
  <2>2. call'.plugin = "sqli" BY <1>1, <1>2
  <2>3. Deceived(k)' BY <1>3, <2>1, <2>2 DEF Deceived
  <2> QED BY <1>7, <2>3 DEF Sound
<1> QED BY <1>5, <1>10, <1>11, <1>12

\* Ids is kept by a step of a test, ...
LEMMA TestIds == ASSUME Shape, Wire, Kept, Ids, Test PROVE Ids'
<1>1. call' = call /\ service' = service /\ at.stage \in Active BY Moves
<1>2. SUFFICES ASSUME call.plugin = "idor"
               PROVE  \A n \in 1..Len(kept') : kept'[n].size \in service.flaw
  BY <1>1 DEF Ids
<1>3. Stop \/ ProbeIdentifier
  <2>1. call.plugin \notin builtins \ {"sqli", "idor", "mass_assignment"} BY <1>2
  <2>2. ~Goes({"sqli"}, at.stage) BY <1>2 DEF Goes
  <2> QED BY <1>2, <2>1 DEF Test, Probe, ProbeFields, ProbeErrors, ProbeBaseline, ProbeTrue, ProbeFalse, ProbeDelay,
        ConfirmDelay, Goes
<1>4. CASE Stop
  <2>1. kept' = kept BY <1>4 DEF Stop
  <2> QED BY <1>2, <2>1 DEF Ids
<1>5. CASE ProbeIdentifier
  <2>2. PICK x \in Exchanges(Here, at.j, TRUE) :
           After(x, Here, at.j, TRUE) /\ kept' = IF at.j = Steps THEN <<>> ELSE More(x)
    BY <1>5, IdentifierSteps
  <2>3. \A n \in 1..Len(More(x)) : More(x)[n].size \in service.flaw BY <1>1, <1>2, <2>2, MoreIds
  <2>4. CASE at.j = Steps BY <2>2, <2>4
  <2>5. CASE at.j # Steps BY <2>2, <2>3, <2>5
  <2> QED BY <2>4, <2>5
<1> QED BY <1>3, <1>4, <1>5

\* One more page of sqli.
LEMMA OnePage ==
    ASSUME Shape, Wire, Pages, at.stage \in Active, call.plugin = "sqli", faults' = MaxFaults, kept \in Seq(Answers),
           NEW k \in Nat, NEW x, After(x, Here, k, TRUE), x.answer \in Answers
    PROVE  /\ \A n \in 1..Len(Append(kept, x.answer)) :
                 Append(kept, x.answer)[n].error \/ Append(kept, x.answer)[n].size = PageSize
           /\ x.answer.error \/ x.answer.size = PageSize
<1>1. faults \in 0..MaxFaults BY DEF Wire
<1>2. faults = MaxFaults /\ Own(x, k, TRUE) BY <1>1, StillAll
<1>3. x.answer.error \/ x.answer.size = PageSize BY <1>2, PageIs DEF After
<1>4. \A n \in 1..Len(kept) : kept[n].error \/ kept[n].size = PageSize BY <1>2 DEF Pages
<1>5. Len(Append(kept, x.answer)) = Len(kept) + 1 /\ Len(kept) \in Nat OBVIOUS
<1>6. \A n \in 1..Len(kept) : Append(kept, x.answer)[n] = kept[n] OBVIOUS
<1>7. Append(kept, x.answer)[Len(kept) + 1] = x.answer OBVIOUS
<1>8. \A n \in 1..(Len(kept) + 1) : n \in 1..Len(kept) \/ n = Len(kept) + 1 BY <1>5
<1> QED BY <1>3, <1>4, <1>5, <1>6, <1>7, <1>8

\* ... and so is Pages ...
LEMMA TestPages == ASSUME Shape, Wire, Kept, Pages, Test PROVE Pages'
<1>1. /\ call' = call /\ service' = service /\ test' = test /\ at.stage \in Active /\ at.j \in Nat
      /\ 0 \in Nat /\ Condition \in Nat
  BY Moves, DelayIs
<1>2. PageSize' = PageSize BY <1>1 DEF PageSize, LetIn
<1>3. SUFFICES ASSUME call.plugin = "sqli", faults' = MaxFaults, kept' # <<>>
               PROVE  \A n \in 1..Len(kept') : kept'[n].error \/ kept'[n].size = PageSize
  BY <1>1, <1>2 DEF Pages
<1>4. kept \in Seq(Answers) BY DEF Kept
<1>5. CASE ProbeBaseline
  <2>1. PICK x \in Exchanges(Here, 0, TRUE) :
           Sent(x, Here, 0, TRUE) /\ (kept' = kept \/ kept' = <<x.answer>>)
    BY <1>5 DEF ProbeBaseline
  <2>2. kept = <<>> BY <1>3, <1>5, KeptEmpty DEF ProbeBaseline, Goes
  <2>3. After(x, Here, 0, TRUE) /\ x.answer \in Answers BY <1>1, <2>1, Leaves DEF After, Came
  <2>4. x.answer.error \/ x.answer.size = PageSize BY <1>1, <1>3, <1>4, <2>3, OnePage
  <2>5. kept' = <<x.answer>> BY <1>3, <2>1, <2>2
  <2>6. Len(kept') = 1 /\ kept'[1] = x.answer BY <2>5
  <2> QED BY <2>4, <2>6
<1>6. CASE ProbeTrue
  <2>1. PICK x \in Exchanges(Here, Condition, TRUE) :
           Sent(x, Here, Condition, TRUE) /\ kept' = Append(kept, x.answer)
    BY <1>6 DEF ProbeTrue
  <2>2. After(x, Here, Condition, TRUE) /\ x.answer \in Answers BY <1>1, <2>1, Leaves DEF After, Came
  <2> QED BY <1>1, <1>3, <1>4, <2>1, <2>2, OnePage
<1>7. CASE ~(ProbeBaseline \/ ProbeTrue)
  <2>1. Stop \/ Probe \/ ProbeFields \/ ProbeErrors \/ ProbeFalse \/ ProbeDelay \/ ConfirmDelay
    BY <1>3, <1>7 DEF Test, ProbeIdentifier, Goes
  <2>2. kept' = kept /\ at.stage \in {"payload", "time", "confirm"}
    BY <1>3, <2>1 DEF Stop, Probe, ProbeFields, ProbeErrors, ProbeFalse, ProbeDelay, ConfirmDelay, Goes
  <2>3. kept = <<>> BY <1>3, <2>2, KeptEmpty
  <2> QED BY <1>3, <2>2, <2>3
<1> QED BY <1>5, <1>6, <1>7

\* ... and Late.
LEMMA TestLate == ASSUME Shape, Wire, Late, Test PROVE Late'
<1>1. /\ call' = call /\ service' = service /\ test' = test /\ at.stage \in Active /\ Onward
      /\ Delay(at.j) \in Nat /\ Delay(at.j) > Condition
  BY Moves, DelayIs
<1>2. SUFFICES ASSUME at'.stage = "confirm"
               PROVE  faults' < MaxFaults \/ (SameSpot(Here, service.weak) /\ Delay(at.j) \in service.flaw)'
  BY DEF Late
<1>3. at.stage \in {"time", "confirm"} BY <1>1, <1>2 DEF Onward
<1>4. CASE at.stage = "confirm"
  <2>1. ConfirmDelay BY <1>1, <1>4 DEF Test, Stop, Probe, ProbeFields, ProbeIdentifier, ProbeErrors, ProbeBaseline,
           ProbeTrue, ProbeFalse, ProbeDelay, Goes
  <2>2. NextRound \/ at' = [at EXCEPT !.stage = "time", !.j = at.j + 1] BY <2>1 DEF ConfirmDelay
  <2>3. at \in [stage : Places, i : Nat, j : 1..NumPayloads] BY DEF Shape, Spots
  <2>4. at' = [at EXCEPT !.stage = "time", !.j = at.j + 1] => at'.stage = "time" BY <2>3
  <2> QED BY <1>2, <2>2, <2>4, RoundMoves
<1>5. CASE at.stage = "time"
  <2>1. ProbeDelay BY <1>1, <1>5 DEF Test, Stop, Probe, ProbeFields, ProbeIdentifier, ProbeErrors, ProbeBaseline,
           ProbeTrue, ProbeFalse, ConfirmDelay, Goes
  <2>2. call.plugin = "sqli" BY <2>1 DEF ProbeDelay, Goes
  <2>3. PICK x \in Exchanges(Here, Delay(at.j), TRUE) :
           /\ Sent(x, Here, Delay(at.j), TRUE)
           /\ IF ~x.answer.error /\ x.answer.slow THEN Stage("confirm") ELSE NextPayload
    BY <2>1 DEF ProbeDelay
  <2>4. After(x, Here, Delay(at.j), TRUE) BY <1>1, <2>3, Leaves
  <2>5. ~NextPayload
    <3>1. SUFFICES ASSUME NextPayload PROVE FALSE OBVIOUS
    <3>2. at'.stage = at.stage \/ NextRound BY <3>1, PayloadMoves
    <3> QED BY <1>2, <1>5, <3>2, RoundMoves
  <2>6. ~x.answer.error /\ x.answer.slow /\ Stage("confirm") BY <2>3, <2>5
  <2>7. faults \in 0..MaxFaults BY DEF Wire
  <2>8. faults' + 1 = faults \/ (SameSpot(Here, service.weak) /\ Delay(at.j) \in service.flaw)
    BY <1>1, <2>2, <2>4, <2>6, <2>7, LateIs
  <2>9. CASE faults' + 1 = faults
    <3>1. faults' \in 0..MaxFaults BY <2>4, <2>7, FewerFaults
    <3>2. \A a, b, m \in Int : b + 1 = a /\ a <= m => b < m OBVIOUS
    <3>3. faults \in Int /\ faults' \in Int /\ MaxFaults \in Int /\ faults <= MaxFaults BY <2>7, <3>1, ProbesAssumption
    <3> QED BY <2>9, <3>2, <3>3
  <2>10. CASE SameSpot(Here, service.weak) /\ Delay(at.j) \in service.flaw
    <3>1. at'.i = at.i /\ at'.j = at.j BY <2>6, Staged DEF Places
    <3>2. test'.rounds[at'.i] = test.rounds[at.i] /\ Delay(at.j)' = Delay(at.j) /\ service'.weak = service.weak
      BY <1>1, <3>1 DEF Delay
    <3>3. Here' = Here BY <3>2 DEF Here
    <3> QED BY <1>1, <2>10, <3>2, <3>3 DEF SameSpot
  <2> QED BY <2>8, <2>9, <2>10
<1> QED BY <1>3, <1>4, <1>5

\* What the answers tell and how many requests went wrong on the way.
Weighed == Ids /\ Pages /\ Late

\* What is known of the kept answers stays true.
LEMMA StepWeighed == ASSUME Shape, Wire, Kept, Weighed, [Next]_vars PROVE Weighed'
<1>1. CASE Test BY <1>1, TestIds, TestPages, TestLate DEF Weighed
<1>2. CASE StartScan \/ SendOwn
  <2>1. at'.stage \in {"payload", "over", "failed"} /\ kept' = kept /\ at.stage = "called"
    BY <1>2, Started, OwnSent
  <2>2. kept = <<>> BY <2>1 DEF Shape, Scanning
  <2>3. Len(kept') = 0 BY <2>1, <2>2
  <2> QED BY <2>1, <2>3 DEF Weighed, Ids, Pages, Late
<1>3. CASE Interrupt \/ UNCHANGED vars
  <2>1. UNCHANGED <<call, service, test, at, kept, faults>> BY <1>3 DEF Interrupt, vars
  <2>2. PageSize' = PageSize BY <2>1 DEF PageSize, LetIn
  <2>3. Here' = Here /\ Delay(at.j)' = Delay(at.j) BY <2>1 DEF Here, Delay
  <2>4. Ids' BY <2>1 DEF Weighed, Ids
  <2>5. Pages' BY <2>1, <2>2 DEF Weighed, Pages
  <2>6. Late' BY <2>1, <2>3 DEF Weighed, Late, SameSpot
  <2> QED BY <2>4, <2>5, <2>6 DEF Weighed
<1> QED BY <1>1, <1>2, <1>3 DEF Next

\* The findings of one request.
LEMMA ProbesSound ==
    ASSUME Shape, Wire, Single, Probe \/ ProbeErrors
    PROVE  \A f \in found' : f \in found \/ Sound(f.param, f.k)'
<1>1. /\ at.stage \in Active /\ call' = call /\ service' = service /\ test' = test /\ at.j \in Nat /\ faults \in 0..MaxFaults
  BY Moves, DelayIs DEF Test, Wire
<1>2. PICK k \in Nat : k = at.j BY <1>1
<1>3. PICK x \in Exchanges(Here, k, TRUE) :
         /\ Sent(x, Here, k, TRUE)
         /\ Finding(k) \/ UNCHANGED found
         /\ \/ UNCHANGED found
            \/ call.plugin \in builtins \ {"sqli", "idor", "mass_assignment"} /\ Hit(x.answer, k)
            \/ call.plugin = "sqli" /\ matchSignal(x.answer.marks, {"signature"})
  BY <1>2 DEF Probe, ProbeErrors, Goes
<1>4. After(x, Here, k, TRUE) BY <1>3, Leaves
<1>5. faults' \in 0..MaxFaults /\ faults' <= faults BY <1>1, <1>4, FewerFaults
<1>6. Came(x, Here, k, TRUE) BY <1>4 DEF After
<1>7. found' # found => Sound(Here, k)
  <2>1. SUFFICES ASSUME found' # found PROVE Sound(Here, k) OBVIOUS
  <2>2. CASE call.plugin \in builtins \ {"sqli", "idor", "mass_assignment"} /\ Hit(x.answer, k)
    BY <1>1, <1>2, <1>6, <2>2, ProbeSound
  <2>3. CASE call.plugin = "sqli" /\ matchSignal(x.answer.marks, {"signature"})
    <3>1. "signature" \in x.answer.marks BY <2>3 DEF matchSignal, StripPayload
    <3> QED BY <1>1, <1>6, <2>3, <3>1, SignatureSound
  <2> QED BY <1>3, <2>1, <2>2, <2>3
<1>8. ASSUME NEW f \in found', f \notin found PROVE Sound(f.param, f.k)'
  <2>1. found' # found /\ f.param = Here /\ f.k = k BY <1>3, <1>8, Adds
  <2>2. Sound(f.param, f.k) BY <1>7, <2>1
  <2> QED BY <1>1, <1>5, <2>2, Lasts
<1> QED BY <1>8

\* What mass_assignment reports is sound.
LEMMA FieldsSound ==
    ASSUME Shape, Wire, ProbeFields
    PROVE  \A f \in found' : Sound(f.param, f.k)'
<1>1. /\ UNCHANGED <<call, service, test>> /\ at.stage \in Active
      /\ call.plugin = "mass_assignment" /\ faults \in 0..MaxFaults
  BY Moves DEF Test, Wire, ProbeFields, Goes
<1>2. PICK x \in Exchanges(Whole, 1, TRUE) :
         /\ Sent(x, Whole, 1, TRUE)
         /\ found' = {[param |-> Param(Privileged[i].field, "body", FALSE), k |-> i] :
                         i \in {u \in Undeclared(test.ep) : Words(u) \subseteq x.answer.marks \cup SentBack(x.answer.marks)}}
  BY DEF ProbeFields
<1>3. After(x, Whole, 1, TRUE) BY <1>2, Leaves
<1>4. faults' \in 0..MaxFaults /\ faults' <= faults BY <1>1, <1>3, FewerFaults
<1>5. ASSUME NEW f \in found' PROVE Sound(f.param, f.k)'
  <2>1. PICK u \in Undeclared(test.ep) :
           /\ Words(u) \subseteq x.answer.marks \cup SentBack(x.answer.marks)
           /\ f = [param |-> Param(Privileged[u].field, "body", FALSE), k |-> u]
    BY <1>2
  <2>2. Came(x, Whole, 1, TRUE) BY <1>3 DEF After
  <2>3. Sound(Param(Privileged[u].field, "body", FALSE), u)
    <3>1. Scanning BY <1>1, HereIs
    <3> QED BY <1>1, <2>1, <2>2, <3>1, MassSound
  <2>4. f.param = Param(Privileged[u].field, "body", FALSE) /\ f.k = u BY <2>1
  <2>5. Sound(f.param, f.k) BY <2>3, <2>4
  <2> QED BY <1>1, <1>4, <2>5, Lasts
<1> QED BY <1>5

\* Whatever a step of a test reports is sound ...
LEMMA TestAlarm ==
    ASSUME Shape, Wire, Single, Kept, Weighed, Test
    PROVE  \A f \in found' : f \in found \/ Sound(f.param, f.k)'
<1>1. CASE Probe \/ ProbeErrors BY <1>1, ProbesSound
<1>2. CASE ProbeFields BY <1>2, FieldsSound
<1>3. CASE ProbeIdentifier BY <1>3, IdorSound DEF Weighed
<1>4. CASE ProbeFalse BY <1>4, ConditionSound DEF Weighed
<1>5. CASE ConfirmDelay BY <1>5, ConfirmSound DEF Weighed
<1>6. CASE Stop \/ ProbeBaseline \/ ProbeTrue \/ ProbeDelay BY <1>6 DEF Stop, ProbeBaseline, ProbeTrue, ProbeDelay
<1> QED BY <1>1, <1>2, <1>3, <1>4, <1>5, <1>6 DEF Test

\* ... so that all findings are, at any time.
LEMMA StepAlarm ==
    ASSUME Shape, Wire, Single, Kept, Weighed, NoFalseAlarm, [Next]_vars
    PROVE  NoFalseAlarm'
<1>1. SUFFICES ASSUME NEW f \in found' PROVE Sound(f.param, f.k)' BY DEF NoFalseAlarm, Sound
<1>2. f \in found => Sound(f.param, f.k) BY DEF NoFalseAlarm, Sound
<1>3. CASE Test
  <2>1. f \in found \/ Sound(f.param, f.k)' BY <1>1, <1>3, TestAlarm
  <2>2. UNCHANGED <<call, service, test>> /\ faults \in 0..MaxFaults BY <1>3, Moves DEF Wire
  <2>3. faults' \in 0..MaxFaults /\ faults' <= faults
    <3>1. CASE UNCHANGED <<wire, faults, kept, found>> BY <2>2, <3>1
    <3>2. ASSUME NEW k \in Nat, NEW truth \in BOOLEAN, NEW x \in Exchanges(Here, k, truth), After(x, Here, k, truth)
          PROVE  faults' \in 0..MaxFaults /\ faults' <= faults
      BY <2>2, <3>2, FewerFaults
    <3> QED BY <1>3, <3>1, <3>2, Sends
  <2> QED BY <1>2, <2>1, <2>2, <2>3, Lasts
<1>4. CASE StartScan \/ SendOwn
  <2>1. found' = found /\ at.stage = "called" BY <1>4, Started, OwnSent
  <2> QED BY <1>1, <2>1 DEF Shape, Scanning
<1>5. CASE Interrupt \/ UNCHANGED vars
  <2>1. UNCHANGED <<call, service, test, found, faults>> BY <1>5 DEF Interrupt, vars
  <2>2. Sound(f.param, f.k) BY <1>1, <1>2, <2>1
  <2>3. faults \in 0..MaxFaults /\ faults' <= faults BY <2>1 DEF Wire
  <2> QED BY <2>1, <2>2, <2>3, Lasts
<1> QED BY <1>3, <1>4, <1>5 DEF Next

\* A finding is a weakness that the service has at that place, or one of the
\* named ways to be deceived: the property the run checks.
THEOREM AlarmCorrect == Spec => []NoFalseAlarm
<1> DEFINE Inv == Shape /\ Wire /\ Single /\ Kept /\ Weighed /\ NoFalseAlarm
<1>1. Init => Inv
  <2>1. SUFFICES ASSUME Init PROVE Inv OBVIOUS
  <2>2. Shape /\ Wire /\ Kept BY <2>1, InitShape, InitWire, InitKept
  <2>3. found = {} /\ kept = <<>> /\ at.stage = "called" BY <2>1 DEF Init
  <2>4. Len(kept) = 0 BY <2>3
  <2> QED BY <2>2, <2>3, <2>4 DEF Single, Active, Weighed, Ids, Pages, Late, NoFalseAlarm
<1>2. Inv /\ [Next]_vars => Inv'
  BY StepShape, StepWire, StepSingle, StepKept, StepWeighed, StepAlarm
<1> QED BY <1>1, <1>2, PTL DEF Spec
-----------------------------------------------------------------------------
(* What an undisturbed test finds *)

\* The plugins of one request.
Caught ==
    /\ call.plugin = "mass_assignment" /\ LetIn
       => \A i \in service.flaw \cap Undeclared(test.ep) : \E f \in found : f.k = i
    /\ call.plugin = "auth" /\ service.guard = {} /\ service.page \cap {"location", "carried"} = {}
       => found # {}
    /\ call.plugin = "sensitive_data" /\ LetIn /\ "secret" \in service.page => found # {}
    /\ call.plugin = "cors" /\ LetIn /\ 1 \in service.flaw
       /\ ~(\E h \in test.cfg.headers : h.name # "Origin" /\ Canonical[h.name] = Canonical["Origin"])
       => found # {}

\* No guard asks for what cors replaces.
LEMMA CorsLets ==
    ASSUME Shape, Scanning, call.plugin = "cors", NEW r, Custom(r), LetIn
    PROVE  Admits(r)
<1>1. service \in Services[call.plugin] /\ call \in Calls BY DEF Shape
<1>2. \A g \in service.guard : g.in = "header" => Canonical[g.name] # Canonical["Origin"]
  BY <1>1, ServicesAssumption
<1>3. \A h \in test.cfg.headers : h.value \in {"own", "default"} BY Tuned, Headers DEF Shape, Tested
<1>4. \A e \in test.cfg.params : e = Entry("query", e.name, "own")
  <2>1. test.cfg.params = call.args.params BY Tuned, Configuration DEF Shape, Tested
  <2>2. call.args.params \subseteq [in : {"query"}, name : STRING, value : {"own"}] BY Tuned DEF Arguments
  <2> QED BY <2>1, <2>2 DEF Entry
<1>5. CASE service.guard = {} BY <1>5 DEF Admits
<1>6. ASSUME NEW g \in service.guard, g.in = "header",
             NEW h \in test.cfg.headers, Canonical[h.name] = Canonical[g.name]
      PROVE  Has(r, g, "own") \/ Has(r, g, "default")
  <2>1. Canonical[h.name] # Canonical["Origin"] BY <1>2, <1>6
  <2>2. PICK f \in test.cfg.headers : SameName(h, f) /\ Written(f) \in r.has BY <2>1 DEF Custom
  <2>3. Written(f) = Entry(g.in, Key(g), f.value) BY <1>6, <2>2 DEF Written, SameName, Key
  <2> QED BY <1>3, <2>2, <2>3 DEF Has
<1>7. ASSUME NEW g \in service.guard, g.in = "query", NEW e \in test.cfg.params, e.name = g.name
      PROVE  Has(r, g, "own")
  <2>1. e \in r.has BY DEF Custom
  <2>2. e = Entry(g.in, Key(g), "own") BY <1>4, <1>7 DEF Key
  <2> QED BY <2>1, <2>2 DEF Has
<1> QED BY <1>5, <1>6, <1>7 DEF Admits, LetIn

\* The one request of a plugin that is let in, and what its answer is.
LEMMA OnceHit ==
    ASSUME Shape, Single, at.stage \in Active, call.plugin \in Once, NEW r \in Requests(call.plugin, Here), Admits(r)
    PROVE  LET a == Reply(r, 1, TRUE)
           IN  /\ ~a.error /\ a.marks = Marks(r, 1)
               /\ call.plugin = "auth" /\ service.page \cap {"location", "carried"} = {} => auth(a)
               /\ call.plugin = "sensitive_data" /\ "secret" \in service.page => sensitive_data(a)
               /\ call.plugin = "cors" /\ 1 \in service.flaw
                  /\ ~(\E h \in test.cfg.headers : h.name # "Origin" /\ Canonical[h.name] = Canonical["Origin"])
                  => cors(a)
<1> DEFINE a == Reply(r, 1, TRUE)
<1>1. Let(r, 1) BY DEF Let, Once
<1>2. /\ ~a.error /\ a.marks = Marks(r, 1)
      /\ Marks(r, 1) \cap {"location", "carried"} = {} => a.status = "ok"
  <2>1. ~a.error BY <1>1, LetReply
  <2>2. a.marks = Marks(r, 1) BY <1>1, LetReply
  <2>3. a.status = IF Marks(r, 1) \cap {"location", "carried"} # {} THEN "redirect" ELSE "ok"
    BY <1>1, LetReply
  <2> HIDE DEF a
  <2> QED BY <2>1, <2>2, <2>3
<1> HIDE DEF a
<1>3. Scanning /\ Here \in ToSet(test.rounds) BY HereIs
<1>4. Asked(r, Here) BY <1>3, AllAsked
<1>5. ASSUME call.plugin = "auth", service.page \cap {"location", "carried"} = {} PROVE auth(a)
  <2>1. ~Echoed(r)
    <3>1. \A e \in r.has : e.value # "payload" BY <1>4, <1>5 DEF Asked, Payloads, Injecting
    <3> QED BY <3>1 DEF Echoed
  <2>2. Effect = "signature" BY <1>5 DEF Effect
  <2>3. Marks(r, 1) \subseteq service.page \cup {"signature"} BY <1>5, <2>1, <2>2 DEF Marks
  <2>4. Marks(r, 1) \cap {"location", "carried"} = {} BY <1>5, <2>3
  <2> QED BY <1>2, <2>4 DEF auth
<1>6. ASSUME call.plugin = "sensitive_data", "secret" \in service.page PROVE sensitive_data(a)
  BY <1>2, <1>6 DEF sensitive_data, Marks
<1>7. ASSUME call.plugin = "cors", 1 \in service.flaw,
             ~(\E h \in test.cfg.headers : h.name # "Origin" /\ Canonical[h.name] = Canonical["Origin"])
      PROVE  cors(a)
  <2>1. Entry("header", Canonical["Origin"], "payload") \in r.has BY <1>3, <1>7, AskedCors
  <2>2. service.weak.in = "header" /\ Canonical[service.weak.name] = Canonical["Origin"]
    BY <1>7, ServicesAssumption DEF Shape
  <2>3. Has(r, service.weak, "payload") BY <2>1, <2>2 DEF Has, Key
  <2>4. Effective(r, 1) BY <1>7, <2>3 DEF Effective, Parsed
  <2>5. Effect = "origin" /\ 1 <= NumPayloads BY <1>7, ProbesAssumption DEF Effect
  <2>6. "origin" \in Marks(r, 1) BY <2>4, <2>5 DEF Marks
  <2> QED BY <1>2, <2>6 DEF cors
<1> QED BY <1>2, <1>5, <1>6, <1>7 DEF a

\* The one answer of a plugin when nothing is disturbed.
LEMMA OwnAnswer ==
    ASSUME Shape, Wire, at.stage \in Active, ~interrupted, faults' = MaxFaults, NEW p, NEW k \in Nat, NEW truth,
           NEW x \in Exchanges(p, k, truth), Sent(x, p, k, truth)
    PROVE  x.req \in Requests(call.plugin, p) /\ x.answer = Reply(x.req, k, truth)
<1>1. After(x, p, k, truth) /\ faults \in 0..MaxFaults BY Leaves DEF Wire
<1>2. Own(x, k, truth) BY <1>1, StillAll
<1> QED BY <1>1, <1>2 DEF Own, After, Came

\* A plugin of one request has caught what it looks for.
LEMMA TestCaught ==
    ASSUME Shape, Wire, Single, Test, ~interrupted, faults' = MaxFaults
    PROVE  Caught'
<1>1. at.stage \in Active /\ call' = call /\ service' = service /\ test' = test BY Moves
<1>2. LetIn' = LetIn BY <1>1 DEF LetIn
<1>3. CASE call.plugin \notin Once BY <1>1, <1>3 DEF Caught, Once
<1>4. CASE call.plugin \in Once
  <2>1. call.plugin \notin Injecting \cup {"xxe"} /\ at.j = 1 /\ Here = Whole
    <3>1. call.plugin \notin Injecting \cup {"xxe"} BY <1>4 DEF Once, Injecting
    <3> QED BY <1>1, <1>4, <3>1, HereIs DEF Single
  <2>2. Probe \/ ProbeFields
    BY <1>4, <2>1 DEF Test, Stop, ProbeIdentifier, ProbeErrors, ProbeBaseline, ProbeTrue, ProbeFalse, ProbeDelay,
       ConfirmDelay, Goes, Injecting
  <2>3. Scanning /\ Here \in ToSet(test.rounds) BY <1>1, HereIs
  <2>4. ASSUME NEW r \in Requests(call.plugin, Here), call.plugin \in {"mass_assignment", "sensitive_data"}, LetIn
        PROVE  Admits(r)
    <3>1. call.plugin \notin {"auth", "cors"} BY <2>4
    <3>2. Custom(r) BY <2>3, AllAsked DEF Asked
    <3> QED BY <2>3, <2>4, <3>1, <3>2, LetInIs
  <2>5. ASSUME NEW x \in Exchanges(Here, 1, TRUE), Sent(x, Here, 1, TRUE)
        PROVE  x.req \in Requests(call.plugin, Here) /\ x.answer = Reply(x.req, 1, TRUE)
    <3>1. PICK k \in Nat : k = 1 OBVIOUS
    <3>2. x \in Exchanges(Here, k, TRUE) /\ Sent(x, Here, k, TRUE) BY <2>5, <3>1
    <3>3. x.req \in Requests(call.plugin, Here) /\ x.answer = Reply(x.req, k, TRUE) BY <1>1, <3>2, OwnAnswer
    <3> QED BY <3>1, <3>3
  <2>6. CASE ProbeFields
    <3>1. call.plugin = "mass_assignment" BY <2>6 DEF ProbeFields, Goes
    <3>2. SUFFICES ASSUME LetIn, NEW i \in service.flaw \cap Undeclared(test.ep) PROVE \E f \in found' : f.k = i
      BY <1>1, <1>2, <3>1 DEF Caught
    <3>3. PICK x \in Exchanges(Whole, 1, TRUE) :
             /\ Sent(x, Whole, 1, TRUE)
             /\ found' = {[param |-> Param(Privileged[u].field, "body", FALSE), k |-> u] :
                             u \in {v \in Undeclared(test.ep) : Words(v) \subseteq x.answer.marks \cup SentBack(x.answer.marks)}}
      BY <2>6 DEF ProbeFields
    <3>4. x.req \in Requests(call.plugin, Here) /\ x.answer = Reply(x.req, 1, TRUE)
      BY <2>1, <2>5, <3>3
    <3>5. x.answer.marks = Marks(x.req, 1)
      <4>1. Let(x.req, 1) BY <2>4, <3>1, <3>2, <3>4 DEF Let
      <4>2. Reply(x.req, 1, TRUE).marks = Marks(x.req, 1) BY <4>1, LetReply
      <4> QED BY <3>4, <4>2
    <3>6. Spelled(i) \subseteq Bound(x.req)
      <4>1. MassBody(test.ep) \subseteq x.req.has BY <2>3, <3>1, <3>4, AskedMass
      <4>2. Entry("body", Privileged[i].field, "payload") \in MassBody(test.ep) BY DEF MassBody
      <4>3. Has(x.req, Param(Privileged[i].field, "body", FALSE), "payload") BY <4>1, <4>2 DEF Has, Key, Param
      <4>4. i \in service.flaw \cap DOMAIN Privileged BY DEF Undeclared
      <4> QED BY <4>3, <4>4 DEF Bound
    <3>7. Words(i) \subseteq x.answer.marks
      <4>1. Words(i) \subseteq Spelled(i) BY PrivilegedAssumption DEF Undeclared
      <4> QED BY <3>1, <3>5, <3>6, <4>1 DEF Marks
    <3> DEFINE f == [param |-> Param(Privileged[i].field, "body", FALSE), k |-> i]
    <3>8. f \in found' BY <3>3, <3>7
    <3>9. f.k = i OBVIOUS
    <3> QED BY <3>8, <3>9
  <2>7. CASE Probe
    <3>1. call.plugin \in {"auth", "cors", "sensitive_data"} BY <1>4, <2>7 DEF Probe, Goes, Once
    <3>2. PICK x \in Exchanges(Here, 1, TRUE) :
             Sent(x, Here, 1, TRUE) /\ (~x.answer.error /\ Hit(x.answer, 1) => Finding(1))
      BY <2>1, <2>7 DEF Probe
    <3>3. x.req \in Requests(call.plugin, Here) /\ x.answer = Reply(x.req, 1, TRUE) BY <2>5, <3>2
    <3>4. Custom(x.req) BY <2>3, <3>3, AllAsked DEF Asked
    <3>5. Finding(1) => found' # {} BY DEF Finding
    <3>6. CASE call.plugin = "auth"
      <4>1. SUFFICES ASSUME service.guard = {}, service.page \cap {"location", "carried"} = {} PROVE found' # {}
        BY <1>1, <3>6 DEF Caught
      <4>2. Admits(x.req) BY <4>1 DEF Admits
      <4>3. ~x.answer.error /\ auth(x.answer) BY <1>1, <1>4, <3>3, <3>6, <4>1, <4>2, OnceHit
      <4> QED BY <3>2, <3>5, <3>6, <4>3 DEF Hit
    <3>7. CASE call.plugin = "sensitive_data"
      <4>1. SUFFICES ASSUME LetIn, "secret" \in service.page PROVE found' # {}
        BY <1>1, <1>2, <3>7 DEF Caught
      <4>2. Admits(x.req) BY <2>4, <3>3, <3>7, <4>1
      <4>3. ~x.answer.error /\ sensitive_data(x.answer) BY <1>1, <1>4, <3>3, <3>7, <4>1, <4>2, OnceHit
      <4> QED BY <3>2, <3>5, <3>7, <4>3 DEF Hit
    <3>8. CASE call.plugin = "cors"
      <4>1. SUFFICES ASSUME LetIn, 1 \in service.flaw,
                            ~(\E h \in test.cfg.headers : h.name # "Origin" /\ Canonical[h.name] = Canonical["Origin"])
                     PROVE  found' # {}
        BY <1>1, <1>2, <3>8 DEF Caught
      <4>2. Admits(x.req) BY <2>3, <3>4, <3>8, <4>1, CorsLets
      <4>3. ~x.answer.error /\ cors(x.answer) BY <1>1, <1>4, <3>3, <3>8, <4>1, <4>2, OnceHit
      <4> QED BY <3>2, <3>5, <3>8, <4>3 DEF Hit
    <3> QED BY <3>1, <3>6, <3>7, <3>8
  <2> QED BY <2>2, <2>6, <2>7
<1> QED BY <1>3, <1>4

\* A weakness at a parameter of the test, and whether it has been reported.
Told == \E f \in found : SameSpot(f.param, service.weak)
Seen == LetIn /\ call.plugin \in Injecting /\ Telling # {} /\ ~Overridden(service.weak)
OnSpot == at.stage \in Active /\ SamePlace(Here, service.weak)

\* The payload that is next, as sqli counts them.
Current ==
    CASE at.stage = "payload" -> at.j
      [] at.stage \in {"baseline", "true", "false"} -> Condition
      [] OTHER -> Delay(at.j)

Status0 == IF Shown \cap {"location", "carried"} # {} THEN "redirect" ELSE "ok"
Usual(a) == ~a.error /\ a.size = 3 /\ ~a.slow /\ a.status = Status0

\* The answers of idor to the identifiers below j.
Catalog(s, j) ==
    /\ \A k \in service.flaw : k < j => \E n \in 1..Len(s) : s[n].size = k
    /\ \A n \in 1..Len(s) : s[n].size < j
    /\ \A m, n \in 1..Len(s) : m < n => s[m].size < s[n].size

\* What has not been reported of this parameter is still to come.
Hunting ==
    /\ call.plugin # "idor" => \A k \in service.flaw : k >= Current
    /\ at.stage \in {"true", "false"} => \A n \in 1..Len(kept) : Usual(kept[n])
    /\ call.plugin = "idor" => Catalog(kept, at.j)

\* The payloads that tell are payloads the plugin tries.
LEMMA FlawIs ==
    ASSUME Shape, call.plugin \in Injecting
    PROVE  \A k \in service.flaw : /\ k \in Nat /\ k >= 1
                                   /\ call.plugin # "sqli" => k <= NumPayloads
                                   /\ call.plugin = "sqli" => k <= 2 * NumPayloads + 1
<1>1. call \in Calls /\ service \in Services[call.plugin] BY DEF Shape
<1>2. CASE call.plugin = "sqli"
  <2>1. service.flaw \subseteq 1..(2 * NumPayloads + 1) BY <1>1, <1>2, ServicesAssumption
  <2> QED BY <1>2, <2>1
<1>3. CASE call.plugin # "sqli"
  <2>1. service.flaw \subseteq 1..NumPayloads BY <1>1, <1>3, ServicesAssumption
  <2> QED BY <1>3, <2>1
<1> QED BY <1>2, <1>3

\* A weakness that tells has a payload that shows it.
LEMMA Flawful == ASSUME Seen PROVE service.flaw # {}
<1>1. CASE call.plugin = "idor"
  <2>1. Cardinality(service.flaw) >= 2 BY <1>1 DEF Seen, Telling
  <2> QED BY <2>1, FS_EmptySet
<1>2. CASE call.plugin # "idor" BY <1>2 DEF Seen, Telling
<1> QED BY <1>1, <1>2

\* At its place every payload reaches the weakness.
LEMMA Spotted ==
    ASSUME Shape, Wire, Seen, OnSpot, ~interrupted, faults' = MaxFaults, NEW k \in Nat, NEW truth,
           NEW x \in Exchanges(Here, k, truth), Sent(x, Here, k, truth)
    PROVE  /\ x.req \in Requests(call.plugin, Here) /\ x.answer = Reply(x.req, k, truth)
           /\ Admits(x.req) /\ Echoed(x.req)
           /\ \A m : Effective(x.req, m) <=> m \in service.flaw
<1> DEFINE w == service.weak
<1>1. at.stage \in Active /\ SamePlace(Here, w) /\ call.plugin \in Injecting /\ LetIn /\ ~Overridden(w)
  BY DEF OnSpot, Seen
<1>2. x.req \in Requests(call.plugin, Here) /\ x.answer = Reply(x.req, k, truth) BY <1>1, OwnAnswer
<1>3. Scanning /\ Here \in ToSet(test.rounds) BY <1>1, HereIs
<1>4. Asked(x.req, Here) BY <1>2, <1>3, AllAsked
<1> HIDE DEF w
<1>5. Here.in = w.in /\ Here.name = w.name /\ Key(Here) = Key(w) BY <1>1 DEF SamePlace, Key
<1>6. Overridden(Here) <=> Overridden(w) BY <1>5 DEF Overridden
<1>7. Has(x.req, Here, "payload") BY <1>1, <1>4, <1>6 DEF Asked
<1>8. Has(x.req, w, "payload") BY <1>5, <1>7 DEF Has
<1>9. Echoed(x.req)
  <2> DEFINE e == Entry(w.in, Key(w), "payload")
  <2>1. e \in x.req.has /\ e.value = "payload" BY <1>8 DEF Has, Entry
  <2> QED BY <2>1 DEF Echoed
<1>10. call.plugin \notin {"auth", "cors", "xxe"} BY <1>1 DEF Injecting
<1>11. Admits(x.req) BY <1>1, <1>3, <1>4, <1>10, LetInIs DEF Asked
<1>12. \A m : Effective(x.req, m) <=> m \in service.flaw BY <1>8, <1>10 DEF Effective, Parsed, w
<1> QED BY <1>2, <1>9, <1>11, <1>12

\* The service's own answer to payload k there.
Plainly(a, k) ==
    /\ ~a.error
    /\ a.marks = Shown \cup (IF k \in service.flaw /\ k <= NumPayloads THEN {Effect} ELSE {})
    /\ a.status = IF a.marks \cap {"location", "carried"} # {} THEN "redirect" ELSE "ok"
    /\ a.slow <=> k > Condition /\ k \in service.flaw

\* The answer at the place of the weakness, when nothing disturbs it.
LEMMA SpottedReply ==
    ASSUME Shape, Wire, Seen, OnSpot, call.plugin # "idor", ~interrupted, faults' = MaxFaults, NEW k \in Nat, NEW truth,
           NEW x \in Exchanges(Here, k, truth), Sent(x, Here, k, truth)
    PROVE  /\ Plainly(x.answer, k)
           /\ x.answer.size = IF ~truth /\ Condition \in service.flaw THEN 2 ELSE 3
<1> DEFINE a == Reply(x.req, k, truth)
<1>1. /\ x.answer = a /\ Admits(x.req) /\ Echoed(x.req)
      /\ \A m : Effective(x.req, m) <=> m \in service.flaw
  BY Spotted
<1>2. Let(x.req, k) BY <1>1 DEF Let
<1>3. /\ ~a.error /\ a.marks = Marks(x.req, k)
      /\ a.status = IF Marks(x.req, k) \cap {"location", "carried"} # {} THEN "redirect" ELSE "ok"
  BY <1>2, LetReply
<1>4. a.size = IF ~truth /\ Effective(x.req, Condition) THEN 2 ELSE 3 BY <1>2, ReplyTells
<1>5. a.slow <=> k > Condition /\ Effective(x.req, k) BY <1>2, ReplyTells
<1> HIDE DEF a
<1>6. Marks(x.req, k) = Shown \cup (IF k \in service.flaw /\ k <= NumPayloads THEN {Effect} ELSE {})
  <2>1. call.plugin # "mass_assignment" BY DEF Seen, Injecting
  <2> QED BY <1>1, <2>1 DEF Marks, Shown
<1>7. Plainly(a, k) BY <1>1, <1>3, <1>5, <1>6 DEF Plainly
<1> QED BY <1>1, <1>4, <1>7

\* It is a hit when the payload is one that shows the weakness.
LEMMA Telltale ==
    ASSUME Seen, call.plugin \in {"cmdi", "path_traversal", "ssrf", "ssti", "xss", "open_redirect"},
           NEW k, k \in service.flaw, k <= NumPayloads, NEW a, Plainly(a, k)
    PROVE  Hit(a, k)
<1>1. Effect \in a.marks /\ Shown \subseteq a.marks /\ a.marks \subseteq Shown \cup {Effect} BY DEF Plainly
<1>2. a.marks \cap {"location", "carried"} # {} => a.status = "redirect" BY DEF Plainly
<1>3. CASE call.plugin \in {"cmdi", "path_traversal", "ssrf", "ssti"}
  <2>1. Effect = "signature" BY <1>3 DEF Effect
  <2>2. "signature" \in StripPayload(a.marks) BY <1>1, <2>1 DEF StripPayload
  <2> QED BY <1>3, <2>2 DEF Hit, cmdi, path_traversal, ssrf, ssti, matchSignal
<1>4. CASE call.plugin = "xss"
  <2>1. Effect = "echo" BY <1>4 DEF Effect
  <2>2. "html" \in service.page /\ "escaped" \notin service.page \cup service.forms BY <1>4 DEF Seen, Telling
  <2> QED BY <1>1, <1>4, <2>1, <2>2 DEF Hit, xss, Shown
<1>5. CASE call.plugin = "open_redirect"
  <2>1. Effect = "location" BY <1>5 DEF Effect
  <2> QED BY <1>1, <1>2, <1>5, <2>1 DEF Hit, open_redirect, pointsTo
<1> QED BY <1>3, <1>4, <1>5

\* A step of the search reports the weakness and leaves the parameter, or goes
\* on at the parameter.
Hunts ==
    \/ Told' /\ at'.i # at.i
    \/ at'.i = at.i /\ at'.stage \in Active /\ Hunting'

\* A finding at the place of the weakness reports it.
LEMMA Reported ==
    ASSUME Shape, OnSpot, service' = service, NEW k, Finding(k), NextRound
    PROVE  Hunts
<1> DEFINE f == [param |-> Here, k |-> k]
<1>1. f \in found' /\ f.param = Here BY DEF Finding
<1>2. SameSpot(Here, service.weak) BY DEF OnSpot, SamePlace, SameSpot, Key
<1> HIDE DEF f
<1>3. SameSpot(f.param, service.weak) BY <1>1, <1>2
<1>4. Told' BY <1>1, <1>3 DEF Told, SameSpot
<1>5. at'.i = at.i + 1 /\ at.i \in Nat BY RoundMoves DEF Shape, Spots
<1> QED BY <1>4, <1>5 DEF Hunts

\* The search goes on when no payload that tells is behind.
LEMMA GoesOn ==
    ASSUME call' = call, service' = service, call.plugin # "idor", at'.i = at.i, at'.stage \in Active \ {"true", "false"},
           \A k \in service.flaw : k >= Current'
    PROVE  Hunts
BY DEF Hunts, Hunting

\* The steps of the plugins at the place of the weakness: one look at an answer,
LEMMA ProbeHunts ==
    ASSUME Shape, Wire, Seen, OnSpot, Hunting, Probe, ~interrupted, faults' = MaxFaults
    PROVE  Hunts
<1>1. /\ call.plugin \in Injecting \ {"sqli", "idor"} /\ at.stage = "payload"
      /\ call.plugin \in {"cmdi", "path_traversal", "ssrf", "ssti", "xss", "open_redirect"}
  BY DEF Seen, Probe, Goes, Injecting
<1>2. call' = call /\ service' = service BY Moves DEF Test
<1>3. PICK k \in Nat : k = at.j BY DelayIs
<1>4. k \in 1..NumPayloads /\ Steps = NumPayloads BY <1>1, <1>3 DEF Shape, Spots, Steps, Injecting, Once
<1>5. PICK x \in Exchanges(Here, k, TRUE) :
         /\ Sent(x, Here, k, TRUE)
         /\ IF ~x.answer.error /\ Hit(x.answer, k) THEN Finding(k) /\ NextRound ELSE NextPayload
  BY <1>3 DEF Probe
<1>6. Plainly(x.answer, k) BY <1>1, <1>5, SpottedReply
<1>7. CASE ~x.answer.error /\ Hit(x.answer, k) BY <1>2, <1>5, <1>7, Reported
<1>8. CASE ~(~x.answer.error /\ Hit(x.answer, k))
  <2>1. ~x.answer.error BY <1>6 DEF Plainly
  <2>2. k \notin service.flaw
    <3>1. k <= NumPayloads BY <1>4
    <3> QED BY <1>1, <1>6, <1>8, <2>1, <3>1, Telltale
  <2>3. \A m \in service.flaw : m \in Nat /\ m >= k /\ m # k /\ m <= NumPayloads
    BY <1>1, <1>3, <2>2, FlawIs DEF Hunting, Current
  <2>4. \A m \in service.flaw : k < NumPayloads /\ m >= k + 1
    <3>1. \A m, n \in Int : m >= k /\ m # k /\ m <= n => k < n /\ m >= k + 1 OBVIOUS
    <3>2. NumPayloads \in Int BY ProbesAssumption
    <3> QED BY <2>3, <3>1, <3>2
  <2>5. service.flaw # {} BY Flawful
  <2>6. at'.stage = "payload" /\ at'.i = at.i /\ at'.j = k + 1
    BY <1>1, <1>3, <1>4, <1>5, <1>8, <2>4, <2>5, PayloadMoves
  <2>7. Current' = k + 1 BY <2>6 DEF Current
  <2> QED BY <1>1, <1>2, <2>4, <2>6, <2>7, GoesOn DEF Active
<1> QED BY <1>7, <1>8

\* the meta-characters of sqli,
LEMMA ErrorsHunt ==
    ASSUME Shape, Wire, Seen, OnSpot, Hunting, ProbeErrors, ~interrupted, faults' = MaxFaults
    PROVE  Hunts
<1>1. call.plugin = "sqli" /\ at.stage = "payload" /\ call.plugin # "idor" BY DEF ProbeErrors, Goes
<1>2. call' = call /\ service' = service BY Moves DEF Test
<1>3. PICK k \in Nat : k = at.j BY DelayIs
<1>4. k \in 1..NumPayloads /\ Steps = NumPayloads /\ NumPayloads \in Nat
  BY <1>1, <1>3, ProbesAssumption DEF Shape, Spots, Steps, Once
<1>5. PICK x \in Exchanges(Here, k, TRUE) :
         /\ Sent(x, Here, k, TRUE)
         /\ IF ~x.answer.error /\ matchSignal(x.answer.marks, {"signature"})
            THEN Finding(k) /\ NextRound
            ELSE IF k < Steps THEN at' = [at EXCEPT !.j = k + 1] ELSE Stage("baseline")
  BY <1>3 DEF ProbeErrors
<1>6. Plainly(x.answer, k) BY <1>1, <1>5, SpottedReply
<1>7. CASE ~x.answer.error /\ matchSignal(x.answer.marks, {"signature"}) BY <1>2, <1>5, <1>7, Reported
<1>8. CASE ~(~x.answer.error /\ matchSignal(x.answer.marks, {"signature"}))
  <2>1. k \notin service.flaw
    <3>1. Effect = "signature" BY <1>1 DEF Effect
    <3>2. "signature" \notin x.answer.marks BY <1>6, <1>8 DEF Plainly, matchSignal, StripPayload
    <3> QED BY <1>4, <1>6, <3>1, <3>2 DEF Plainly
  <2>2. \A m \in service.flaw : m \in Nat /\ m >= k /\ m # k BY <1>1, <1>3, <2>1, FlawIs DEF Hunting, Current, Seen
  <2>3. \A m \in service.flaw : m >= k + 1 BY <2>2
  <2>4. CASE k < Steps
    <3>1. at' = [at EXCEPT !.j = at.j + 1] /\ at.j < Steps BY <1>3, <1>5, <1>8, <2>4
    <3>2. at'.stage = "payload" /\ at'.i = at.i /\ at'.j = k + 1 BY <1>1, <1>3, <3>1, Advanced
    <3>3. Current' = k + 1 BY <3>2 DEF Current
    <3> QED BY <1>1, <1>2, <2>3, <3>2, <3>3, GoesOn DEF Active
  <2>5. CASE ~(k < Steps)
    <3>1. Stage("baseline") BY <1>5, <1>8, <2>5
    <3>2. at'.stage = "baseline" /\ at'.i = at.i BY <3>1, Staged DEF Places
    <3>3. k = NumPayloads BY <1>4, <2>5
    <3>4. Current' = k + 1 BY <3>2, <3>3 DEF Current, Condition
    <3> QED BY <1>1, <1>2, <2>3, <3>2, <3>4, GoesOn DEF Active
  <2> QED BY <2>4, <2>5
<1> QED BY <1>7, <1>8

\* A payload that shows nothing gets the usual answer.
LEMMA UsualIs ==
    ASSUME Shape, call.plugin = "sqli", call.plugin \in Injecting, NEW k, k = 0 \/ k = Condition, NEW a, Plainly(a, k), a.size = 3
    PROVE  Usual(a)
<1>1. NumPayloads \in Nat /\ Condition = NumPayloads + 1 BY ProbesAssumption DEF Condition
<1>2. ~(k \in service.flaw /\ k <= NumPayloads) /\ ~(k > Condition) BY <1>1, FlawIs
<1>3. a.marks = Shown BY <1>2 DEF Plainly
<1> QED BY <1>2, <1>3 DEF Plainly, Usual, Status0

\* A condition is the next payload, and one more answer is kept.
LEMMA KeepsOn ==
    ASSUME call' = call, service' = service, call.plugin = "sqli", at.stage \in {"baseline", "true"},
           at'.stage \in {"true", "false"}, at'.i = at.i, Hunting, \A n \in 1..Len(kept') : Usual(kept'[n])
    PROVE  Hunts
<1>1. Current' = Current BY DEF Current, Condition
<1>2. \A k \in service.flaw : k >= Current BY DEF Hunting
<1>3. (\A n \in 1..Len(kept) : Usual(kept[n]))' BY DEF Usual, Status0, Shown
<1> QED BY <1>1, <1>2, <1>3 DEF Hunts, Hunting, Active

\* its baseline,
LEMMA BaselineHunts ==
    ASSUME Shape, Wire, Kept, Seen, OnSpot, Hunting, ProbeBaseline, ~interrupted, faults' = MaxFaults
    PROVE  Hunts
<1>1. call.plugin = "sqli" /\ at.stage = "baseline" /\ call.plugin # "idor" /\ call.plugin \in Injecting
  BY DEF ProbeBaseline, Goes, Seen
<1>2. call' = call /\ service' = service BY Moves DEF Test
<1>3. PICK k \in Nat : k = 0 OBVIOUS
<1>4. PICK x \in Exchanges(Here, k, TRUE) :
         /\ Sent(x, Here, k, TRUE)
         /\ ~x.answer.error => Stage("true") /\ kept' = <<x.answer>>
  BY <1>3 DEF ProbeBaseline
<1>5. Plainly(x.answer, k) /\ x.answer.size = 3 BY <1>1, <1>4, SpottedReply
<1>6. Stage("true") /\ kept' = <<x.answer>> BY <1>4, <1>5 DEF Plainly
<1>7. Usual(x.answer) BY <1>1, <1>3, <1>5, UsualIs
<1>8. Len(kept') = 1 /\ kept'[1] = x.answer BY <1>6
<1>9. at'.stage = "true" /\ at'.i = at.i BY <1>6, Staged DEF Places
<1>10. \A n \in 1..Len(kept') : Usual(kept'[n]) BY <1>7, <1>8
<1> QED BY <1>1, <1>2, <1>9, <1>10, KeepsOn

\* its true condition,
LEMMA TrueHunts ==
    ASSUME Shape, Wire, Kept, Seen, OnSpot, Hunting, ProbeTrue, ~interrupted, faults' = MaxFaults
    PROVE  Hunts
<1>1. call.plugin = "sqli" /\ at.stage = "true" /\ call.plugin # "idor" /\ call.plugin \in Injecting
  BY DEF ProbeTrue, Goes, Seen
<1>2. call' = call /\ service' = service BY Moves DEF Test
<1>3. PICK k \in Nat : k = Condition BY DelayIs
<1>4. PICK x \in Exchanges(Here, k, TRUE) : Sent(x, Here, k, TRUE) /\ kept' = Append(kept, x.answer)
  BY <1>3 DEF ProbeTrue
<1>5. Plainly(x.answer, k) /\ x.answer.size = 3 BY <1>1, <1>4, SpottedReply
<1>6. Usual(x.answer) BY <1>1, <1>3, <1>5, UsualIs
<1>7. kept \in Seq(Answers) /\ Len(kept) = 1 BY <1>1 DEF Kept, Held
<1>8. Usual(kept[1]) BY <1>1, <1>7 DEF Hunting
<1>9. Len(kept') = 2 /\ kept'[1] = kept[1] /\ kept'[2] = x.answer BY <1>4, <1>7
<1>10. at'.stage = "false" /\ at'.i = at.i
  <2>1. Stage("false") BY DEF ProbeTrue
  <2> QED BY <2>1, Staged DEF Places
<1>11. \A n \in 1..Len(kept') : Usual(kept'[n])
  <2>1. \A n \in 1..Len(kept') : n = 1 \/ n = 2 BY <1>9
  <2> QED BY <1>6, <1>8, <1>9, <2>1
<1> QED BY <1>1, <1>2, <1>10, <1>11, KeepsOn

\* its false condition, at which a page that is usual before is not usual now,
LEMMA FalseHunts ==
    ASSUME Shape, Wire, Kept, Seen, OnSpot, Hunting, ProbeFalse, ~interrupted, faults' = MaxFaults
    PROVE  Hunts
<1>1. call.plugin = "sqli" /\ at.stage = "false" /\ call.plugin # "idor" /\ call.plugin \in Injecting
  BY DEF ProbeFalse, Goes, Seen
<1>2. call' = call /\ service' = service BY Moves DEF Test
<1>3. PICK k \in Nat : k = Condition BY DelayIs
<1>4. PICK x \in Exchanges(Here, k, FALSE) :
         /\ Sent(x, Here, k, FALSE)
         /\ IF Diverges(kept[1], kept[2], x.answer) THEN Finding(k) /\ NextRound
            ELSE ~kept[1].slow => at' = [at EXCEPT !.stage = "time", !.j = 1]
  BY <1>3 DEF ProbeFalse
<1>5. Plainly(x.answer, k) /\ x.answer.size = IF Condition \in service.flaw THEN 2 ELSE 3 BY <1>1, <1>4, SpottedReply
<1>6. Usual(kept[1]) /\ Usual(kept[2])
  <2>1. Len(kept) = 2 BY <1>1 DEF Kept, Held
  <2>2. 1 \in 1..Len(kept) /\ 2 \in 1..Len(kept) BY <2>1
  <2> QED BY <1>1, <2>2 DEF Hunting
<1>7. CASE Diverges(kept[1], kept[2], x.answer) BY <1>2, <1>4, <1>7, Reported
<1>8. CASE ~Diverges(kept[1], kept[2], x.answer)
  <2>1. Condition \notin service.flaw
    <3>1. SUFFICES ASSUME Condition \in service.flaw PROVE FALSE OBVIOUS
    <3>2. x.answer.size = 2 /\ ~x.answer.error BY <1>5, <3>1 DEF Plainly
    <3> QED BY <1>6, <1>8, <3>2 DEF Usual, Diverges
  <2>2. at' = [at EXCEPT !.stage = "time", !.j = 1] BY <1>4, <1>6, <1>8 DEF Usual
  <2>3. at \in [stage : Places, i : Nat, j : 1..NumPayloads] BY DEF Shape, Spots
  <2>4. at'.stage = "time" /\ at'.i = at.i /\ at'.j = 1 BY <2>2, <2>3
  <2>5. Current' = Condition + 1 BY <2>4, ProbesAssumption DEF Current, Delay, Condition
  <2>6. \A m \in service.flaw : m \in Nat /\ m >= Condition /\ m # Condition BY <1>1, <2>1, FlawIs DEF Hunting, Current
  <2>7. \A m \in service.flaw : m >= Condition + 1 BY <1>3, <2>6
  <2> QED BY <1>1, <1>2, <2>4, <2>5, <2>7, GoesOn DEF Active
<1> QED BY <1>7, <1>8

\* What a delay leaves of the weaknesses when the answer was in time.
LEMMA InTime ==
    ASSUME Shape, Seen, Hunting, call.plugin = "sqli", at.stage \in {"time", "confirm"}, Delay(at.j) \notin service.flaw
    PROVE  at.j < NumPayloads /\ \A m \in service.flaw : m >= Delay(at.j + 1)
<1>1. call.plugin \in Injecting /\ call.plugin # "idor" BY DEF Seen
<1>2. \A m \in service.flaw : m \in Nat /\ m >= Delay(at.j) /\ m # Delay(at.j) /\ m <= 2 * NumPayloads + 1
  BY <1>1, FlawIs DEF Hunting, Current
<1>3. /\ at.j \in Nat /\ NumPayloads \in Nat /\ at.j <= NumPayloads
      /\ Delay(at.j) = NumPayloads + 1 + at.j /\ Delay(at.j + 1) = NumPayloads + 1 + (at.j + 1)
  BY ProbesAssumption DEF Delay, Shape, Spots
<1>4. \A m \in service.flaw : m >= Delay(at.j + 1) BY <1>2, <1>3
<1>5. PICK m \in service.flaw : TRUE BY Flawful
<1>6. at.j < NumPayloads BY <1>2, <1>3, <1>5
<1> QED BY <1>4, <1>6

\* its delays
LEMMA DelayHunts ==
    ASSUME Shape, Wire, Seen, OnSpot, Hunting, ProbeDelay, ~interrupted, faults' = MaxFaults
    PROVE  Hunts
<1>1. call.plugin = "sqli" /\ at.stage = "time" /\ call.plugin # "idor" BY DEF ProbeDelay, Goes
<1>2. call' = call /\ service' = service BY Moves DEF Test
<1>3. PICK k \in Nat : k = Delay(at.j) /\ k > Condition BY DelayIs
<1>4. PICK x \in Exchanges(Here, k, TRUE) :
         /\ Sent(x, Here, k, TRUE)
         /\ IF ~x.answer.error /\ x.answer.slow THEN Stage("confirm") ELSE NextPayload
  BY <1>3 DEF ProbeDelay
<1>5. Plainly(x.answer, k) BY <1>1, <1>4, SpottedReply
<1>6. ~x.answer.error /\ (x.answer.slow <=> k \in service.flaw) BY <1>3, <1>5 DEF Plainly
<1>7. CASE x.answer.slow
  <2>1. at'.stage = "confirm" /\ at'.i = at.i /\ at'.j = at.j BY <1>4, <1>6, <1>7, Staged DEF Places
  <2>2. Current' = Delay(at.j) BY <2>1 DEF Current, Delay
  <2>3. \A m \in service.flaw : m >= Delay(at.j) BY <1>1 DEF Hunting, Current
  <2> QED BY <1>1, <1>2, <2>1, <2>2, <2>3, GoesOn DEF Active
<1>8. CASE ~x.answer.slow
  <2>1. at.j < NumPayloads /\ \A m \in service.flaw : m >= Delay(at.j + 1) BY <1>1, <1>3, <1>6, <1>8, InTime
  <2>2. Steps = NumPayloads BY <1>1 DEF Steps, Once
  <2>3. at'.stage = "time" /\ at'.i = at.i /\ at'.j = at.j + 1 BY <1>1, <1>4, <1>8, <2>1, <2>2, PayloadMoves
  <2>4. Current' = Delay(at.j + 1) BY <2>3 DEF Current, Delay
  <2> QED BY <1>1, <1>2, <2>1, <2>3, <2>4, GoesOn DEF Active
<1> QED BY <1>7, <1>8

\* and their second look,
LEMMA ConfirmHunts ==
    ASSUME Shape, Wire, Seen, OnSpot, Hunting, ConfirmDelay, ~interrupted, faults' = MaxFaults
    PROVE  Hunts
<1>1. call.plugin = "sqli" /\ at.stage = "confirm" /\ call.plugin # "idor" BY DEF ConfirmDelay, Goes
<1>2. call' = call /\ service' = service BY Moves DEF Test
<1>3. PICK k \in Nat : k = Delay(at.j) /\ k > Condition BY DelayIs
<1>4. PICK x \in Exchanges(Here, k, TRUE) :
         /\ Sent(x, Here, k, TRUE)
         /\ IF ~x.answer.error /\ x.answer.slow THEN Finding(k) /\ NextRound
            ELSE at.j < Steps => at' = [at EXCEPT !.stage = "time", !.j = at.j + 1]
  BY <1>3 DEF ConfirmDelay
<1>5. Plainly(x.answer, k) BY <1>1, <1>4, SpottedReply
<1>6. ~x.answer.error /\ (x.answer.slow <=> k \in service.flaw) BY <1>3, <1>5 DEF Plainly
<1>7. CASE x.answer.slow BY <1>2, <1>4, <1>6, <1>7, Reported
<1>8. CASE ~x.answer.slow
  <2>1. at.j < NumPayloads /\ \A m \in service.flaw : m >= Delay(at.j + 1) BY <1>1, <1>3, <1>6, <1>8, InTime
  <2>2. Steps = NumPayloads BY <1>1 DEF Steps, Once
  <2>3. at' = [at EXCEPT !.stage = "time", !.j = at.j + 1] BY <1>4, <1>8, <2>1, <2>2
  <2>4. at \in [stage : Places, i : Nat, j : 1..NumPayloads] BY DEF Shape, Spots
  <2>5. at'.stage = "time" /\ at'.i = at.i /\ at'.j = at.j + 1 BY <2>3, <2>4
  <2>6. Current' = Delay(at.j + 1) BY <2>5 DEF Current, Delay
  <2> QED BY <1>1, <1>2, <2>1, <2>5, <2>6, GoesOn DEF Active
<1> QED BY <1>7, <1>8

\* A set of two or more has two different elements.
LEMMA TwoIn ==
    ASSUME NEW S, IsFiniteSet(S), Cardinality(S) >= 2
    PROVE  \E a, b \in S : a # b
<1>1. S # {} BY FS_EmptySet
<1>2. PICK a \in S : TRUE BY <1>1
<1>3. S # {a}
  <2>1. Cardinality({a}) = 1 BY FS_Singleton
  <2> QED BY <2>1
<1> QED BY <1>2, <1>3

\* Lengths of answers are numbers.
LEMMA SizeIs == ASSUME NEW s \in Seq(Answers), NEW n \in 1..Len(s) PROVE s[n].size \in Nat
<1>1. s[n] \in Answers BY ElementOfSeq
<1> QED BY <1>1 DEF Answers

\* An identifier that is not known leaves the catalog as it is.
LEMMA CatalogPasses ==
    ASSUME NEW s \in Seq(Answers), NEW j \in Nat, service.flaw \subseteq Nat, Catalog(s, j), j \notin service.flaw
    PROVE  Catalog(s, j + 1)
<1>1. \A k \in service.flaw : k < j + 1 => k < j OBVIOUS
<1>2. \A n \in 1..Len(s) : s[n].size \in Nat BY SizeIs
<1> QED BY <1>1, <1>2 DEF Catalog

\* One that is known adds its answer.
LEMMA CatalogGrows ==
    ASSUME NEW s \in Seq(Answers), NEW j \in Nat, service.flaw \subseteq Nat, Catalog(s, j), NEW a \in Answers, a.size = j
    PROVE  Catalog(Append(s, a), j + 1)
<1> DEFINE t == Append(s, a)
<1>1. Len(s) \in Nat /\ Len(t) = Len(s) + 1 /\ t[Len(s) + 1] = a OBVIOUS
<1>2. \A n \in 1..Len(s) : t[n] = s[n] OBVIOUS
<1>3. \A n \in 1..Len(t) : (n \in 1..Len(s) /\ t[n] = s[n]) \/ (n = Len(s) + 1 /\ t[n] = a) BY <1>1, <1>2
<1>4. \A n \in 1..Len(s) : s[n].size \in Nat /\ s[n].size < j BY SizeIs DEF Catalog
<1> HIDE DEF t
<1>5. ASSUME NEW k \in service.flaw, k < j + 1 PROVE \E n \in 1..Len(t) : t[n].size = k
  <2>1. CASE k < j
    <3>1. PICK n \in 1..Len(s) : s[n].size = k BY <2>1 DEF Catalog
    <3>2. n \in 1..Len(t) /\ t[n] = s[n] BY <1>1, <1>2
    <3> QED BY <3>1, <3>2
  <2>2. CASE k = j
    <3>1. Len(s) + 1 \in 1..Len(t) /\ t[Len(s) + 1].size = k BY <1>1, <2>2
    <3> QED BY <3>1
  <2> QED BY <1>5, <2>1, <2>2
<1>6. \A n \in 1..Len(t) : t[n].size < j + 1 BY <1>3, <1>4
<1>7. ASSUME NEW m \in 1..Len(t), NEW n \in 1..Len(t), m < n PROVE t[m].size < t[n].size
  <2>1. m \in 1..Len(s) /\ t[m] = s[m] BY <1>1, <1>3, <1>7
  <2>2. CASE n \in 1..Len(s) /\ t[n] = s[n] BY <1>7, <2>1, <2>2 DEF Catalog
  <2>3. CASE t[n] = a BY <1>4, <2>1, <2>3
  <2> QED BY <1>3, <2>2, <2>3
<1> QED BY <1>5, <1>6, <1>7 DEF Catalog, t

\* idor: a known identifier is answered, another refused.
LEMMA IdReply ==
    ASSUME Shape, Wire, Seen, OnSpot, call.plugin = "idor", ~interrupted, faults' = MaxFaults, NEW k \in Nat, k # 0, NEW truth,
           NEW x \in Exchanges(Here, k, truth), Sent(x, Here, k, truth)
    PROVE  /\ k \in service.flaw => More(x) = Append(kept, x.answer) /\ x.answer.size = k
           /\ k \notin service.flaw => More(x) = kept
<1>1. /\ x.answer = Reply(x.req, k, truth) /\ Admits(x.req)
      /\ \A m : Effective(x.req, m) <=> m \in service.flaw
  BY Spotted
<1>2. CASE k \in service.flaw
  <2>1. Let(x.req, k) BY <1>1, <1>2 DEF Let
  <2> DEFINE a == Reply(x.req, k, truth)
  <2>2. /\ ~a.error
        /\ a.status = IF Marks(x.req, k) \cap {"location", "carried"} # {} THEN "redirect" ELSE "ok"
        /\ a.size = k
    <3>1. ~a.error BY <2>1, LetReply
    <3>2. a.status = IF Marks(x.req, k) \cap {"location", "carried"} # {} THEN "redirect" ELSE "ok"
      BY <2>1, LetReply
    <3>3. call.plugin = "idor" => a.size = k BY <2>1, LetReply
    <3> HIDE DEF a
    <3> QED BY <3>1, <3>2, <3>3
  <2>3. Marks(x.req, k) \subseteq Shown \cup {"signature"} BY DEF Marks, Shown, Effect
  <2>4. Shown \cap {"location", "carried"} = {} BY DEF Seen, Telling
  <2>5. Marks(x.req, k) \cap {"location", "carried"} = {} BY <2>3, <2>4
  <2> HIDE DEF a
  <2>6. a.status = "ok" /\ a.size > 0 BY <2>2, <2>5
  <2>7. x.answer = a BY <1>1 DEF a
  <2> QED BY <1>2, <2>2, <2>6, <2>7 DEF More
<1>3. CASE k \notin service.flaw
  <2>1. ~Let(x.req, k) BY <1>1, <1>3 DEF Let
  <2>2. Reply(x.req, k, truth).status = "denied" BY <2>1, RefusedReply
  <2>3. x.answer.status = "denied" BY <1>1, <2>2
  <2> QED BY <1>3, <2>3 DEF More
<1> QED BY <1>2, <1>3

\* and the identifiers of idor, of which the first and the last known differ in length.
LEMMA IdentifierHunts ==
    ASSUME Shape, Wire, Kept, Seen, OnSpot, Hunting, ProbeIdentifier, ~interrupted, faults' = MaxFaults
    PROVE  Hunts
<1>1. call.plugin = "idor" /\ at.stage = "payload" /\ call.plugin \in Injecting BY DEF ProbeIdentifier, Goes, Seen
<1>2. call' = call /\ service' = service BY Moves DEF Test
<1>3. PICK k \in Nat : k = at.j BY DelayIs
<1>4. k \in 1..NumPayloads /\ Steps = NumPayloads /\ NumPayloads \in Nat /\ k # 0
  BY <1>1, <1>3, ProbesAssumption DEF Shape, Spots, Steps, Once
<1>5. PICK x \in Exchanges(Here, k, TRUE) :
         /\ Sent(x, Here, k, TRUE)
         /\ kept' = IF k = Steps THEN <<>> ELSE More(x)
         /\ k = Steps /\ Len(More(x)) >= 2 /\ More(x)[1].size # Last(More(x)).size => Finding(0)
  BY <1>3 DEF ProbeIdentifier, More
<1>6. x.answer \in Answers BY <1>5, Leaves DEF After, Came
<1>7. kept \in Seq(Answers) /\ Catalog(kept, k) BY <1>1, <1>3 DEF Kept, Hunting
<1>8. service.flaw \subseteq Nat BY <1>1, FlawIs
<1>9. More(x) \in Seq(Answers) /\ Catalog(More(x), k + 1)
  <2>1. CASE k \in service.flaw
    <3>1. More(x) = Append(kept, x.answer) /\ x.answer.size = k BY <1>1, <1>4, <1>5, <2>1, IdReply
    <3> QED BY <1>6, <1>7, <1>8, <3>1, CatalogGrows
  <2>2. CASE k \notin service.flaw
    <3>1. More(x) = kept BY <1>1, <1>4, <1>5, <2>2, IdReply
    <3> QED BY <1>7, <1>8, <2>2, <3>1, CatalogPasses
  <2> QED BY <2>1, <2>2
<1>10. NextPayload BY DEF ProbeIdentifier
<1>11. CASE k # Steps
  <2>1. at.j < Steps BY <1>3, <1>4, <1>11
  <2>2. at'.stage = "payload" /\ at'.i = at.i /\ at'.j = k + 1 BY <1>1, <1>3, <1>10, <2>1, PayloadMoves
  <2>3. kept' = More(x) BY <1>5, <1>11
  <2>4. Catalog(kept', at'.j) BY <1>9, <2>2, <2>3
  <2>5. Catalog(kept, at.j)' BY <1>2, <2>4 DEF Catalog
  <2> QED BY <1>1, <1>2, <2>2, <2>5 DEF Hunts, Hunting, Active
<1>12. CASE k = Steps
  <2> DEFINE all == More(x)
  <2>1. all \in Seq(Answers) /\ Catalog(all, k + 1) BY <1>9
  <2> HIDE DEF all
  <2>2. PICK a, b \in service.flaw : a # b
    <3>1. Cardinality(service.flaw) >= 2 BY <1>1 DEF Seen, Telling
    <3>2. service.flaw \subseteq 1..NumPayloads BY <1>1, ServicesAssumption DEF Shape
    <3>3. IsFiniteSet(1..NumPayloads) BY FS_Interval, ProbesAssumption
    <3>4. IsFiniteSet(service.flaw)
      <4>1. service.flaw \in SUBSET (1..NumPayloads) BY <3>2
      <4> QED BY <3>3, <4>1, FS_Subset
    <3> QED BY <3>1, <3>4, TwoIn
  <2>3. a \in Nat /\ b \in Nat /\ a < k + 1 /\ b < k + 1
    <3>1. a \in Nat /\ b \in Nat /\ a <= NumPayloads /\ b <= NumPayloads BY <1>1, <2>2, FlawIs
    <3> QED BY <1>4, <1>12, <3>1
  <2>4. PICK m \in 1..Len(all) : all[m].size = a BY <2>1, <2>2, <2>3 DEF Catalog
  <2>5. PICK n \in 1..Len(all) : all[n].size = b BY <2>1, <2>2, <2>3 DEF Catalog
  <2>6. m # n /\ Len(all) \in Nat BY <2>1, <2>2, <2>4, <2>5
  <2>7. Len(all) >= 2 /\ 1 \in 1..Len(all) /\ Len(all) \in 1..Len(all) /\ 1 < Len(all) BY <2>6
  <2>8. all[1].size < all[Len(all)].size BY <2>1, <2>7 DEF Catalog
  <2>9. all[1].size \in Nat /\ all[Len(all)].size \in Nat
    <3>1. all[1] \in Answers /\ all[Len(all)] \in Answers BY <2>1, <2>7, ElementOfSeq
    <3> QED BY <3>1 DEF Answers
  <2>10. all[1].size # Last(all).size BY <2>8, <2>9 DEF Last
  <2>11. Finding(0) BY <1>5, <1>12, <2>7, <2>10 DEF all
  <2>12. NextRound BY <1>3, <1>10, <1>12, <1>4, PayloadMoves
  <2> QED BY <1>2, <2>11, <2>12, Reported
<1> QED BY <1>11, <1>12

\* Every step of an undisturbed test at the place of the weakness is one of these.
LEMMA TestHunts ==
    ASSUME Shape, Wire, Kept, Seen, OnSpot, Hunting, Test, ~interrupted, faults' = MaxFaults
    PROVE  Hunts
<1>1. ~Stop BY DEF Stop
<1>2. ~ProbeFields BY DEF ProbeFields, Goes, Seen, Injecting
<1> QED BY <1>1, <1>2, ProbeHunts, ErrorsHunt, BaselineHunts, TrueHunts, FalseHunts, DelayHunts, ConfirmHunts, IdentifierHunts
   DEF Test

\* At the first payload of a parameter everything is still to come.
Opening == call.plugin \in Injecting /\ at.stage = "payload" /\ at.j = 1

\* At the first payload nothing that tells is behind.
LEMMA Fresh == Shape /\ Kept /\ Opening => Hunting
<1> SUFFICES ASSUME Shape, Kept, Opening PROVE Hunting OBVIOUS
<1>1. call.plugin \in Injecting /\ at.stage = "payload" /\ at.j = 1 BY DEF Opening
<1>2. \A k \in service.flaw : k \in Nat /\ k >= 1 BY <1>1, FlawIs
<1>3. CASE call.plugin = "idor"
  <2>1. kept \in Seq(Answers) /\ Len(kept) < 1 BY <1>1, <1>3 DEF Kept, Active
  <2>2. Len(kept) = 0 /\ 1..Len(kept) = {} BY <2>1
  <2>3. \A k \in service.flaw : ~(k < 1) BY <1>2
  <2>4. Catalog(kept, 1) BY <2>2, <2>3 DEF Catalog
  <2> QED BY <1>1, <1>3, <2>4 DEF Hunting
<1>4. CASE call.plugin # "idor" BY <1>1, <1>2, <1>4 DEF Hunting, Current
<1> QED BY <1>3, <1>4

\* A test that is not cancelled is over after its last parameter, and then only.
LEMMA LastRound ==
    ASSUME Shape, Test, ~interrupted, at'.stage \notin Active
    PROVE  at.i = Len(test.rounds)
<1>1. ~Stop BY DEF Stop
<1>2. at.stage \in Active /\ at.i \in 1..Len(test.rounds) /\ Len(test.rounds) \in Nat BY Moves, Rounded DEF Shape
<1>3. NextRound => at.i = Len(test.rounds)
  <2>1. NextRound /\ at.i < Len(test.rounds) => at'.stage = "payload" BY RoundMoves
  <2> QED BY <1>2, <2>1 DEF Active
<1>4. at.stage = "payload" /\ NextPayload => NextRound
  <2>1. SUFFICES ASSUME at.stage = "payload", NextPayload PROVE NextRound OBVIOUS
  <2>2. at'.stage = at.stage \/ NextRound BY <2>1, PayloadMoves
  <2> QED BY <2>1, <2>2 DEF Active
<1>5. at.stage = "time" /\ NextPayload => NextRound
  <2>1. SUFFICES ASSUME at.stage = "time", NextPayload PROVE NextRound OBVIOUS
  <2>2. at'.stage = at.stage \/ NextRound BY <2>1, PayloadMoves
  <2> QED BY <2>1, <2>2 DEF Active
<1>6. ~Stage("baseline") /\ ~Stage("true") /\ ~Stage("false") /\ ~Stage("confirm") BY Staged DEF Active, Places
<1>7. at \in [stage : Places, i : Nat, j : 1..NumPayloads] BY DEF Shape, Spots
<1>8. /\ at' # [at EXCEPT !.stage = "time", !.j = 1]
      /\ at' # [at EXCEPT !.stage = "time", !.j = at.j + 1]
      /\ at' # [at EXCEPT !.j = at.j + 1]
  BY <1>2, <1>7 DEF Active
<1>9. CASE Probe BY <1>3, <1>4, <1>9 DEF Probe, Goes
<1>10. CASE ProbeFields BY <1>3, <1>10 DEF ProbeFields
<1>11. CASE ProbeIdentifier BY <1>3, <1>4, <1>11 DEF ProbeIdentifier, Goes
<1>12. CASE ProbeErrors BY <1>3, <1>6, <1>8, <1>12 DEF ProbeErrors
<1>13. CASE ProbeBaseline BY <1>3, <1>6, <1>13 DEF ProbeBaseline
<1>14. CASE ProbeTrue BY <1>6, <1>14 DEF ProbeTrue
<1>15. CASE ProbeFalse BY <1>3, <1>8, <1>15 DEF ProbeFalse
<1>16. CASE ProbeDelay BY <1>3, <1>5, <1>6, <1>16 DEF ProbeDelay, Goes
<1>17. CASE ConfirmDelay BY <1>3, <1>8, <1>17 DEF ConfirmDelay
<1> QED BY <1>1, <1>9, <1>10, <1>11, <1>12, <1>13, <1>14, <1>15, <1>16, <1>17 DEF Test

\* Nothing that a plugin of parameters reports is taken back.
LEMMA FoundStays == ASSUME Test, call.plugin \in Injecting PROVE found \subseteq found'
<1>1. ~ProbeFields BY DEF ProbeFields, Goes, Injecting
<1>2. \A k : Finding(k) => found \subseteq found' BY DEF Finding
<1>3. UNCHANGED found => found \subseteq found' OBVIOUS
<1>4. UNCHANGED found \/ \E k : Finding(k)
  BY <1>1 DEF Test, Stop, Probe, ProbeIdentifier, ProbeErrors, ProbeBaseline, ProbeTrue, ProbeFalse, ProbeDelay, ConfirmDelay
<1> QED BY <1>2, <1>3, <1>4

\* While nothing is disturbed, a parameter with the weakness that is behind has
\* been reported, and at the one that is looked at the search is on.
Undisturbed == Scanning /\ ~interrupted /\ faults = MaxFaults
Passed ==
    \A i \in 1..Len(test.rounds) :
        (i < at.i \/ at.stage = "over") /\ SamePlace(test.rounds[i], service.weak) => Told
Searched == Undisturbed /\ Seen => Passed /\ (OnSpot => Hunting)
Finished == Undisturbed /\ at.stage = "over" /\ Concerns(call.plugin, test.ep) => Caught

\* Who is let in, and what tells, do not change in the course of a test.
LEMMA SameTest ==
    ASSUME call' = call, service' = service, test' = test
    PROVE  (Seen' <=> Seen) /\ (LetIn' <=> LetIn)
BY DEF Seen, LetIn, Telling, Overridden, Shown

\* A test that is undisturbed after a step was so before.
LEMMA StillUndisturbed ==
    ASSUME Shape, Wire, Test, Undisturbed'
    PROVE  Undisturbed /\ faults' = MaxFaults
<1>1. /\ at.stage \in Active /\ interrupted' = interrupted
      /\ faults \in 0..MaxFaults
  BY Moves DEF Wire
<1>2. Scanning /\ ~interrupted /\ faults' = MaxFaults BY <1>1 DEF Undisturbed, Shape
<1>3. faults = MaxFaults
  <2>1. CASE UNCHANGED <<wire, faults, kept, found>> BY <1>2, <2>1
  <2>2. ASSUME NEW k \in Nat, NEW truth \in BOOLEAN, NEW x \in Exchanges(Here, k, truth), After(x, Here, k, truth)
        PROVE  faults = MaxFaults
    BY <1>1, <1>2, <2>2, StillAll
  <2> QED BY <2>1, <2>2, Sends
<1> QED BY <1>2, <1>3 DEF Undisturbed

\* A step of a test keeps Searched ...
LEMMA TestSearched == ASSUME Shape, Wire, Kept, Searched, Test PROVE Searched'
<1>1. SUFFICES ASSUME Undisturbed', Seen' PROVE Passed' /\ (OnSpot' => Hunting') BY DEF Searched
<1>2. at.stage \in Active /\ Onward /\ call' = call /\ service' = service /\ test' = test BY Moves
<1>3. Undisturbed /\ faults' = MaxFaults /\ ~interrupted BY <1>1, StillUndisturbed DEF Undisturbed
<1>4. Seen /\ Passed /\ (OnSpot => Hunting) BY <1>1, <1>2, <1>3, SameTest DEF Searched
<1>5. call.plugin \in Injecting BY <1>4 DEF Seen
<1>6. Told => Told' BY <1>2, <1>5, FoundStays DEF Told, SameSpot, Key
<1>7. OnSpot => Hunts BY <1>3, <1>4, TestHunts
<1>8. at.i \in 1..Len(test.rounds) /\ Len(test.rounds) \in Nat /\ at.stage # "over" BY <1>2, Rounded DEF Shape, Active
<1>9. SamePlace(test.rounds[at.i], service.weak) => OnSpot BY <1>2 DEF OnSpot, Here
<1>10. Passed'
  <2>1. SUFFICES ASSUME NEW i \in 1..Len(test.rounds), i < at'.i \/ at'.stage = "over",
                        SamePlace(test.rounds[i], service.weak)
                 PROVE  Told'
    BY <1>2 DEF Passed
  <2>2. CASE i < at.i BY <1>4, <1>6, <2>1, <2>2 DEF Passed
  <2>3. CASE i = at.i
    <3>1. Hunts BY <1>7, <1>9, <2>1, <2>3
    <3>2. ~(at'.i = at.i /\ at'.stage \in Active) BY <1>8, <2>1, <2>3 DEF Active
    <3> QED BY <3>1, <3>2 DEF Hunts
  <2>4. CASE i > at.i
    <3>1. at'.stage # "over" BY <1>3, <1>8, <2>4, LastRound DEF Active
    <3>2. at'.i = at.i \/ at'.i = at.i + 1 BY <1>2, <3>1 DEF Onward
    <3> QED BY <1>8, <2>1, <2>4, <3>1, <3>2
  <2> QED BY <1>8, <2>2, <2>3, <2>4
<1>11. OnSpot' => Hunting'
  <2>1. SUFFICES ASSUME OnSpot' PROVE Hunting' OBVIOUS
  <2>2. at'.stage \in Active BY <2>1 DEF OnSpot
  <2>3. CASE at'.i = at.i
    <3>1. OnSpot BY <1>2, <2>1, <2>3 DEF OnSpot, Here
    <3> QED BY <1>7, <2>3, <3>1 DEF Hunts
  <2>4. CASE at'.i # at.i
    <3>1. Opening' BY <1>2, <1>5, <2>2, <2>4 DEF Onward, Opening, Active
    <3>2. Shape' /\ Kept' BY StepShape, TestKept DEF Next
    <3> QED BY <3>1, <3>2, Fresh, PTL
  <2> QED BY <2>3, <2>4
<1> QED BY <1>10, <1>11

\* ... and so does every other.
LEMMA StepSearched == ASSUME Shape, Wire, Kept, Searched, [Next]_vars PROVE Searched'
<1>1. CASE Test BY <1>1, TestSearched
<1>2. CASE StartScan
  <2>1. SUFFICES ASSUME Seen', Scanning' PROVE Passed' /\ (OnSpot' => Hunting') BY DEF Searched, Undisturbed
  <2>2. /\ at'.stage \in {"payload", "over", "failed"} /\ at'.i = 1 /\ at'.j = 1
        /\ at'.stage = "over" => test'.rounds = <<>>
        /\ call' = call
    BY <1>2, Started
  <2>3. Passed'
    <3>1. ~(\E i \in 1..Len(test'.rounds) : i < at'.i) BY <2>2
    <3>2. at'.stage = "over" => 1..Len(test'.rounds) = {} BY <2>2
    <3> QED BY <3>1, <3>2 DEF Passed
  <2>4. OnSpot' => Hunting'
    <3>1. SUFFICES ASSUME OnSpot' PROVE Hunting' OBVIOUS
    <3>2. at'.stage = "payload" BY <2>2, <3>1 DEF OnSpot, Active
    <3>3. Opening' BY <2>1, <2>2, <3>2 DEF Opening, Seen
    <3>4. Shape' /\ Kept' BY StepShape, StepKept
    <3> QED BY <3>3, <3>4, Fresh, PTL
  <2> QED BY <2>3, <2>4
<1>3. CASE SendOwn
  <2>1. ~Scanning' BY <1>3, OwnSent DEF Scanning
  <2> QED BY <2>1 DEF Searched, Undisturbed
<1>4. CASE Interrupt
  <2>1. interrupted' BY <1>4 DEF Interrupt
  <2> QED BY <2>1 DEF Searched, Undisturbed
<1>5. CASE UNCHANGED vars
  <2>1. UNCHANGED <<call, service, test, at, kept, found, faults, interrupted>> BY <1>5 DEF vars
  <2>2. (Seen' <=> Seen) /\ (Undisturbed' <=> Undisturbed) BY <2>1, SameTest DEF Undisturbed, Scanning
  <2>3. (Told' <=> Told) /\ (OnSpot' <=> OnSpot) BY <2>1 DEF Told, OnSpot, Here, SameSpot, Key
  <2>4. Passed' <=> Passed BY <2>1, <2>3 DEF Passed
  <2>5. Hunting' <=> Hunting
    <3>1. Current' = Current BY <2>1 DEF Current
    <3>2. \A a : Usual(a)' <=> Usual(a) BY <2>1 DEF Usual, Status0, Shown
    <3>3. Catalog(kept, at.j)' <=> Catalog(kept, at.j) BY <2>1 DEF Catalog
    <3> QED BY <2>1, <3>1, <3>2, <3>3 DEF Hunting
  <2> QED BY <2>2, <2>3, <2>4, <2>5 DEF Searched
<1> QED BY <1>1, <1>2, <1>3, <1>4, <1>5 DEF Next

\* A test that is over has caught what a single request shows.
LEMMA StepFinished == ASSUME Shape, Wire, Single, Finished, [Next]_vars PROVE Finished'
<1>1. CASE Test
  <2>1. SUFFICES ASSUME Undisturbed' PROVE Caught' BY DEF Finished
  <2>2. ~interrupted /\ faults' = MaxFaults BY <1>1, <2>1, StillUndisturbed DEF Undisturbed
  <2> QED BY <1>1, <2>2, TestCaught
<1>2. CASE StartScan
  <2>1. SUFFICES ASSUME at'.stage = "over", Concerns(call.plugin, test.ep)' PROVE Caught' BY DEF Finished
  <2>2. call' = call /\ Tested' /\ test'.rounds = <<>> BY <1>2, <2>1, Started
  <2>3. Rounds(call.plugin, test'.ep, test'.cfg.points) = <<>> BY <2>2 DEF Tested
  <2>4. call.plugin \in Once => FALSE
    <3>1. SUFFICES ASSUME call.plugin \in Once PROVE FALSE OBVIOUS
    <3>2. call.plugin \notin Injecting /\ call.plugin # "xxe" BY <3>1 DEF Once, Injecting
    <3>3. Concerns(call.plugin, test'.ep) BY <2>1, <2>2
    <3>4. Rounds(call.plugin, test'.ep, test'.cfg.points) = <<Whole>> BY <3>2, <3>3 DEF Rounds
    <3> QED BY <2>3, <3>4
  <2> QED BY <2>2, <2>4 DEF Caught, Once
<1>3. CASE SendOwn
  <2>1. ~Scanning' BY <1>3, OwnSent DEF Scanning
  <2> QED BY <2>1 DEF Finished, Undisturbed
<1>4. CASE Interrupt
  <2>1. interrupted' BY <1>4 DEF Interrupt
  <2> QED BY <2>1 DEF Finished, Undisturbed
<1>5. CASE UNCHANGED vars
  <2>1. UNCHANGED <<call, service, test, at, found, faults, interrupted>> BY <1>5 DEF vars
  <2>2. (Undisturbed' <=> Undisturbed) /\ (LetIn' <=> LetIn) BY <2>1, SameTest DEF Undisturbed, Scanning
  <2>3. Concerns(call.plugin, test.ep)' <=> Concerns(call.plugin, test.ep) BY <2>1 DEF Concerns
  <2>4. Undeclared(test.ep)' = Undeclared(test.ep) BY <2>1 DEF Undeclared
  <2>5. Caught' <=> Caught BY <2>1, <2>2, <2>4 DEF Caught
  <2> QED BY <2>1, <2>2, <2>3, <2>5 DEF Finished
<1> QED BY <1>1, <1>2, <1>3, <1>4, <1>5 DEF Next

\* A parameter that is in the scope is one that the test goes through.
LEMMA Reaches ==
    ASSUME Shape, Scanning, call.plugin \in Injecting, Concerns(call.plugin, test.ep),
           InScope(service.weak), Applies(call.plugin, service.weak)
    PROVE  \E i \in 1..Len(test.rounds) : SamePlace(test.rounds[i], service.weak)
<1> DEFINE w == service.weak
           declared == test.ep.params
           points == test.cfg.points
           params == ResolveInsertPoints(declared, points)
<1>1. declared \in Seq(Params) /\ EndpointOK(test.ep) BY DEF Shape, Tested, EndpointOK
<1>2. points \in Seq(Points) BY Tuned, Configuration DEF Shape, Tested
<1>3. ToSet(test.rounds) = {p \in ToSet(params) : Applies(call.plugin, p)}
  BY <1>1, <1>2, RoundsParams DEF Shape, Tested
<1>4. ToSet(params) = IF points = <<>> THEN ToSet(declared)
                      ELSE UNION {ToSet(Meant(declared, ParseInsertPoint(points[i]))) : i \in DOMAIN points}
  BY <1>1, <1>2, PointsParams
<1> HIDE DEF params, w
<1>5. \E p \in ToSet(params) : SamePlace(p, w)
  <2>1. CASE points = <<>>
    <3>1. PICK i \in DOMAIN declared : SamePlace(w, declared[i]) BY <2>1 DEF InScope, w
    <3>2. declared[i] \in ToSet(declared) BY <3>1 DEF ToSet
    <3>3. SamePlace(declared[i], w) BY <3>1 DEF SamePlace
    <3> QED BY <1>4, <2>1, <3>2, <3>3
  <2>2. CASE points # <<>>
    <3>1. PICK i \in DOMAIN points :
             LET pt == ParseInsertPoint(points[i])
             IN  /\ pt.name = w.name /\ w.in \in pt.loc
                 /\ (\E d \in DOMAIN declared : SamePlace(w, declared[d])) \/ pt.loc = {w.in}
      BY <2>2 DEF InScope, w
    <3> DEFINE pt == ParseInsertPoint(points[i])
    <3>2. /\ pt.name = w.name /\ w.in \in pt.loc
          /\ (\E d \in DOMAIN declared : SamePlace(w, declared[d])) \/ pt.loc = {w.in}
      BY <3>1
    <3>3. ToSet(Meant(declared, pt)) \subseteq ToSet(params) BY <1>4, <2>2, <3>1
    <3>4. pt.loc \subseteq Locations
      <4>1. points[i] \in Points BY <1>2, <3>1, ElementOfSeq
      <4> QED BY <4>1, PointIs
    <3> HIDE DEF pt
    <3>5. ToSet(Declared(declared, pt)) =
             ToSet(declared) \cap {p \in ToSet(declared) : p.name = pt.name /\ p.in \in pt.loc}
      BY <1>1, Picked DEF Declared
    <3>6. Declared(declared, pt) \in Seq(Params) BY <1>1, Picked DEF Declared
    <3>7. \A x : ToSet(<<x>>) = {x} BY DEF ToSet
    <3>8. ToSet(<<>>) = {} BY DEF ToSet
    <3>9. CASE \E d \in DOMAIN declared : SamePlace(w, declared[d])
      <4>1. PICK d \in DOMAIN declared : SamePlace(w, declared[d]) BY <3>9
      <4>2. declared[d] \in ToSet(declared) BY <4>1 DEF ToSet
      <4>3. declared[d].name = pt.name /\ declared[d].in \in pt.loc /\ SamePlace(declared[d], w)
        BY <3>2, <4>1 DEF SamePlace
      <4>4. declared[d] \in ToSet(Declared(declared, pt)) BY <3>5, <4>2, <4>3
      <4>5. Declared(declared, pt) # <<>> BY <3>8, <4>4
      <4> QED BY <3>3, <4>3, <4>4, <4>5 DEF Meant
    <3>10. CASE pt.loc = {w.in} /\ Declared(declared, pt) # <<>>
      <4>1. Len(Declared(declared, pt)) >= 1 BY <3>6, <3>10
      <4>2. 1 \in DOMAIN Declared(declared, pt) BY <3>6, <4>1
      <4>3. PICK q : q \in ToSet(Declared(declared, pt)) BY <4>2 DEF ToSet
      <4>4. q.name = pt.name /\ q.in \in pt.loc BY <3>5, <4>3
      <4>5. SamePlace(q, w) BY <3>2, <3>10, <4>4 DEF SamePlace
      <4> QED BY <3>3, <3>10, <4>3, <4>5 DEF Meant
    <3>11. CASE pt.loc = {w.in} /\ Declared(declared, pt) = <<>>
      <4>1. pt.loc # Locations BY <3>11 DEF Locations
      <4>2. (CHOOSE l \in pt.loc : TRUE) = w.in BY <3>11
      <4>3. Guessed(pt).name = pt.name /\ Guessed(pt).in = w.in BY <4>1, <4>2 DEF Guessed, Param
      <4>4. SamePlace(Guessed(pt), w) BY <3>2, <4>3 DEF SamePlace
      <4>5. ToSet(Meant(declared, pt)) = {Guessed(pt)} BY <3>7, <3>11 DEF Meant
      <4> QED BY <3>3, <4>4, <4>5
    <3> QED BY <3>2, <3>9, <3>10, <3>11
  <2> QED BY <2>1, <2>2
<1>6. PICK p \in ToSet(params) : SamePlace(p, w) BY <1>5
<1>7. Applies(call.plugin, p)
  BY <1>6 DEF Applies, SamePlace, looksLikeURLParam, looksLikeRedirectParam, looksLikeID, w
<1>8. p \in ToSet(test.rounds) BY <1>3, <1>6, <1>7
<1>9. PICK i \in DOMAIN test.rounds : test.rounds[i] = p BY <1>8 DEF ToSet
<1>10. DOMAIN test.rounds = 1..Len(test.rounds) BY Tuned
<1> QED BY <1>6, <1>9, <1>10 DEF w

\* What an undisturbed test was to find it has found: the property the run
\* checks.
THEOREM MissCorrect == Spec => []NoMiss
<1> DEFINE Inv == Shape /\ Wire /\ Single /\ Kept /\ Searched /\ Finished
<1>1. Init => Inv
  <2>1. SUFFICES ASSUME Init PROVE Inv OBVIOUS
  <2>2. Shape /\ Wire /\ Kept BY <2>1, InitShape, InitWire, InitKept
  <2>3. at.stage = "called" BY <2>1 DEF Init
  <2> QED BY <2>2, <2>3 DEF Single, Active, Searched, Finished, Undisturbed, Scanning
<1>2. Inv /\ [Next]_vars => Inv'
  BY StepShape, StepWire, StepSingle, StepKept, StepSearched, StepFinished
<1>3. Inv => NoMiss
  <2>1. SUFFICES ASSUME Inv, at.stage = "over", Undisturbed, Concerns(call.plugin, test.ep)
                 PROVE  /\ Caught
                        /\ LetIn /\ call.plugin \in Injecting /\ Telling # {} /\ InScope(service.weak)
                           /\ Applies(call.plugin, service.weak) /\ ~Overridden(service.weak)
                           => Told
    BY DEF NoMiss, Caught, Told, Undisturbed
  <2>2. Caught BY <2>1 DEF Finished
  <2>3. ASSUME LetIn, call.plugin \in Injecting, Telling # {}, InScope(service.weak),
               Applies(call.plugin, service.weak), ~Overridden(service.weak)
        PROVE  Told
    <3>1. Seen /\ Scanning BY <2>1, <2>3 DEF Seen, Undisturbed
    <3>2. \E i \in 1..Len(test.rounds) : SamePlace(test.rounds[i], service.weak) BY <2>1, <2>3, <3>1, Reaches
    <3> QED BY <2>1, <3>1, <3>2 DEF Searched, Passed
  <2> QED BY <2>2, <2>3
<1> QED BY <1>1, <1>2, <1>3, PTL DEF Spec
=============================================================================
