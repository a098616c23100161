------------------------------- MODULE Probes -------------------------------
(***************************************************************************)
(* One tool call of AgentDAST's model: a scan of one plugin on one         *)
(* endpoint, request by request (internal/plugins over internal/core), or  *)
(* a request of the model's own (toolexec.HTTPRequest).  Scanner is the    *)
(* loop above the test; here the test is open and Scanner's choice of an   *)
(* outcome is what the plugin concludes from the answers.                  *)
(*                                                                         *)
(* The service under test is outside.  It is drawn with its weaknesses, so *)
(* that what the plugin reports can be compared with what is true.  A body *)
(* is the set of the marks that the plugins look for in it; lengths that   *)
(* differ do so by more than every threshold.                              *)
(***************************************************************************)
EXTENDS ApiRequests, FiniteSets

CONSTANTS
    Calls,         \* the tool calls
    Services,      \* the services under test, by plugin
    Base,          \* Executor.BaseURL
    Defaults,      \* Executor.DefaultHeaders and DefaultInsertPoints
    UrlLike, RedirectLike, IdLike,  \* names that hold one of the plugins' hints
    Credentials,   \* canonical names withoutAuthHeaders knows
    Privileged,    \* the fields mass_assignment tries with their values, a sequence
    Lower,         \* strings.ToLower of a name or value
    Within,        \* the names and values that strings.Contains finds in a name or value
    NumPayloads,   \* bound: payloads of a list
    MaxFaults      \* bound: requests that fail, are slow or are cut short

ASSUME ProbesAssumption == NumPayloads \in Nat \ {0} /\ MaxFaults \in Nat

\* The arguments of a call, each left out or given (toolexec.ScanArgs).
Arguments ==
    [url : URLs, source : SUBSET DOMAIN Documents, base : URLs, method : STRING, example : BOOLEAN,
     fields : Seq(STRING), points : Seq(Points),
     headers : SUBSET [in : {"header"}, name : STRING, value : {"own"}],
     params : SUBSET [in : {"query"}, name : STRING, value : {"own"}]]

ASSUME CallsAssumption ==
    \A c \in Calls : c.args \in Arguments /\ c.tool \in {"scan_api", "http_request"}

ASSUME ExecutorAssumption ==
    /\ Base \in URLs
    /\ Defaults \in [headers : SUBSET [in : {"header"}, name : STRING, value : {"default"}], points : Seq(Points)]

VARIABLES
    call,        \* the call and its plugin
    service,     \* what is true of the service
    test,        \* the ScanContext: endpoint, base URL, configuration, Params
    at,          \* the plugin's place: stage, parameter, payload
    kept,        \* the answers the plugin keeps of this parameter
    found,       \* the findings
    wire,        \* the last request: what was sent, at which parameter
    faults,      \* requests that may still go wrong
    interrupted  \* the context is cancelled

vars == <<call, service, test, at, kept, found, wire, faults, interrupted>>

-----------------------------------------------------------------------------
(* The plugins *)

Injecting == {"cmdi", "path_traversal", "ssrf", "ssti", "xss", "open_redirect", "sqli", "idor"}
Once == {"auth", "cors", "sensitive_data", "mass_assignment"}  \* one request
builtins == Injecting \cup Once \cup {"xxe"}

\* mass_assignment: the privileged fields that the document does not declare,
\* and the two words that it looks for of each.
Undeclared(ep) ==
    {i \in DOMAIN Privileged : \A f \in ToSet(ep.body.fields) : Lower[f] # Lower[Privileged[i].field]}
Words(i) == {Lower[Privileged[i].field], Lower[Privileged[i].sentinel]}

looksLikeURLParam(p) == p.name \in UrlLike
looksLikeRedirectParam(p) == p.name \in RedirectLike
looksLikeID(p) == p.in = "path" /\ p.name \in IdLike

\* The parameters a plugin goes through.
Applies(plugin, p) ==
    CASE plugin = "ssrf" -> looksLikeURLParam(p)
      [] plugin = "open_redirect" -> looksLikeRedirectParam(p)
      [] plugin = "idor" -> looksLikeID(p)
      [] OTHER -> TRUE

\* What a plugin that does not inject looks at the endpoint for.
Concerns(plugin, ep) ==
    CASE plugin \in {"auth", "idor"} -> ep.secured
      [] plugin = "xxe" -> ep.body.type = "xml"
      [] plugin = "mass_assignment" -> ep.body.type = "json" /\ Undeclared(ep) # {}
      [] OTHER -> TRUE

Whole == Param("endpoint", "body", FALSE)
XmlBody == Param("xml", "body", FALSE)

\* The rounds of a test: its parameters, or one for the endpoint as a whole.
Rounds(plugin, ep, points) ==
    IF ~Concerns(plugin, ep) THEN <<>>
    ELSE IF plugin \in Injecting
    THEN LET params == ResolveInsertPoints(ep.params, points)
         IN  Where(params, {p \in ToSet(params) : Applies(plugin, p)})
    ELSE IF plugin = "xxe" THEN <<XmlBody>> ELSE <<Whole>>

\* sqli numbers its conditions and delays after its meta-characters.
Condition == NumPayloads + 1
Delay(j) == NumPayloads + 1 + j
Mut_Steps == IF call.plugin \in Once THEN 1 ELSE NumPayloads + 1  \* one too many
Steps == IF call.plugin \in Once THEN 1 ELSE NumPayloads

Mut_StripPayload(marks) == marks  \* the payload stays in the answer
StripPayload(marks) == marks \ {"echo"}
matchSignal(marks, signatures) == StripPayload(marks) \cap signatures # {}

\* What the plugins conclude from one answer.  The second payload of ssrf holds
\* one of the signatures of ssrf, which no other payload does; the product of
\* ssti is a signature, too.
cmdi(a) == matchSignal(a.marks, {"signature"})
path_traversal(a) == matchSignal(a.marks, {"signature"})
ssti(a) == matchSignal(a.marks, {"signature"})
xxe(a) == matchSignal(a.marks, {"signature"})
ssrf(a, k) == matchSignal(a.marks, {"signature"} \cup IF k = 2 THEN {"echo", "piece"} ELSE {})
xss(a) == {"echo", "html"} \subseteq a.marks /\ "escaped" \notin a.marks
pointsTo(a) == a.marks \cap {"location", "carried"} # {}
open_redirect(a) == "script" \in a.marks \/ (a.status = "redirect" /\ pointsTo(a))
auth(a) == a.status = "ok"
cors(a) == "origin" \in a.marks \/ {"anyorigin", "credentials"} \subseteq a.marks
sensitive_data(a) == "secret" \in a.marks

Hit(a, k) ==
    CASE call.plugin = "cmdi" -> cmdi(a)
      [] call.plugin = "path_traversal" -> path_traversal(a)
      [] call.plugin = "ssti" -> ssti(a)
      [] call.plugin = "xxe" -> xxe(a)
      [] call.plugin = "ssrf" -> ssrf(a, k)
      [] call.plugin = "xss" -> xss(a)
      [] call.plugin = "open_redirect" -> open_redirect(a)
      [] call.plugin = "auth" -> auth(a)
      [] call.plugin = "cors" -> cors(a)
      [] call.plugin = "sensitive_data" -> sensitive_data(a)

withoutAuthHeaders(headers) ==
    {h \in headers : Canonical[h.name] \notin Credentials}

\* The declared fields, and the privileged ones not declared.
MassBody(ep) ==
    {Entry("body", f, "benign") : f \in ToSet(ep.body.fields)}
    \cup {Entry("body", Privileged[i].field, "payload") : i \in Undeclared(ep)}

\* The request of a plugin at parameter p.
Requests(plugin, p) ==
    LET ep == test.ep
        cfg == test.cfg
    IN  CASE plugin \in Injecting -> buildRequest(ep, test.base, {p}, cfg)
          [] plugin = "auth" -> buildRequest(ep, test.base, {}, [cfg EXCEPT !.headers = withoutAuthHeaders(@)])
          [] plugin = "cors" -> buildRequest(ep, test.base, {}, [cfg EXCEPT !.headers = Overlay(@, Header("Origin", "payload"))])
          [] plugin = "mass_assignment" -> SendRawBody(ep, test.base, "json", MassBody(ep), cfg)
          [] plugin = "xxe" -> SendRawBody(ep, test.base, "xml", {Entry("body", "xml", "payload")}, cfg)
          [] OTHER -> buildRequest(ep, test.base, {}, cfg)

-----------------------------------------------------------------------------
(* The service under test, and the network *)

Admits(req) ==
    service.guard = {} \/ \E g \in service.guard : Has(req, g, "own") \/ Has(req, g, "default")

\* A weakness is one that a payload of the plugin's list shows; that of cors is
\* at the Origin, which is nobody's credential; those of mass_assignment are
\* the fields the service binds.
ASSUME ServicesAssumption ==
    \A c \in Calls : \A s \in Services[c.plugin] :
        /\ c.plugin \in Injecting \ {"sqli"} => s.flaw \subseteq 1..NumPayloads
        /\ c.plugin = "sqli" => s.flaw \subseteq 1..(2 * NumPayloads + 1)
        /\ c.plugin = "cors" =>
              /\ s.weak.in = "header" /\ Canonical[s.weak.name] = Canonical["Origin"]
              /\ \A g \in s.guard : g.in = "header" => Canonical[g.name] # Canonical["Origin"]

\* What the plugin can find in a body that holds a field with its value: of
\* isAdmin with true, the name admin as well, and the true of every other.
Spelled(i) == Within[Privileged[i].field] \cup Within[Privileged[i].sentinel]

ASSUME PrivilegedAssumption ==
    /\ Privileged \in Seq([field : STRING, sentinel : STRING])
    /\ \A i \in DOMAIN Privileged :
          Words(i) \subseteq Spelled(i) /\ Spelled(i) \cap {"echo", "signature"} = {}

Parsed(req) == call.plugin = "xxe" => Has(req, Param("Content-Type", "header", FALSE), "xml")
Effective(req, k) == Has(req, service.weak, "payload") /\ k \in service.flaw /\ Parsed(req)
Echoed(req) == \E e \in req.has : e.value = "payload"

Effect == CASE call.plugin = "xss" -> "echo"
            [] call.plugin = "open_redirect" -> "location"
            [] call.plugin = "cors" -> "origin"
            [] OTHER -> "signature"

\* A field that is bound is shown with its value.
Bound(req) ==
    UNION {Spelled(i) : i \in {x \in service.flaw \cap DOMAIN Privileged :
                                  Has(req, Param(Privileged[x].field, "body", FALSE), "payload")}}

Marks(req, k) ==
    service.page
    \cup (IF Effective(req, k) /\ k <= NumPayloads THEN {Effect} ELSE {})
    \cup (IF Echoed(req) THEN service.forms ELSE {})
    \cup (IF call.plugin = "mass_assignment" THEN Bound(req) ELSE {})

Refused == [error |-> FALSE, status |-> "denied", marks |-> {}, size |-> 9, slow |-> FALSE]
Failed == [Refused EXCEPT !.error = TRUE]

\* An object of its own length for each identifier that is known; the page of
\* sqli is shorter when its condition is false.
Reply(req, k, truth) ==
    IF ~Admits(req) \/ (call.plugin = "idor" /\ ~Effective(req, k)) THEN Refused
    ELSE [error |-> FALSE,
          status |-> IF Marks(req, k) \cap {"location", "carried"} # {} THEN "redirect" ELSE "ok",
          marks |-> Marks(req, k),
          size |-> IF call.plugin = "idor" THEN k
                   ELSE IF ~truth /\ Effective(req, Condition) THEN 2 ELSE 3,
          slow |-> k > Condition /\ Effective(req, k)]

\* A request fails, is refused by a limit, is answered late or its body is cut
\* short, which the dropped error of io.ReadAll hides; headers are there then.
InHeaders == {"location", "carried", "origin", "anyorigin", "credentials", "html"}
Disturbed(a) ==
    IF faults = 0 THEN {}
    ELSE {Failed, Refused, [a EXCEPT !.slow = TRUE], [a EXCEPT !.marks = @ \cap InHeaders, !.size = 0]}

\* The exchanges that payload k at parameter p can come to.
Exchanges(p, k, truth) ==
    UNION {{[req |-> r, answer |-> a] :
            a \in IF interrupted THEN {Failed} ELSE {Reply(r, k, truth)} \cup Disturbed(Reply(r, k, truth))} :
           r \in Requests(call.plugin, p)}

Sent(x, p, k, truth) ==
    /\ wire' = [sent |-> {x.req}, param |-> p]
    /\ faults' = IF interrupted \/ x.answer = Reply(x.req, k, truth) THEN faults ELSE faults - 1
    /\ UNCHANGED <<call, service, test, interrupted>>

-----------------------------------------------------------------------------
Stage(s) == at' = [at EXCEPT !.stage = s]
Here == test.rounds[at.i]
Finding(k) == found' = found \cup {[param |-> Here, k |-> k]}

Mut_NextRound == at' = [at EXCEPT !.j = 1]  \* stays at the parameter
NextRound == at' = [stage |-> IF at.i < Len(test.rounds) THEN "payload" ELSE "over", i |-> at.i + 1, j |-> 1]
NextPayload == IF at.j < Steps THEN at' = [at EXCEPT !.j = @ + 1] ELSE NextRound

\* Executor.Scan to Scanner.Run: the plugin and the target are resolved, an
\* endpoint is taken up.
NoTest == [ep |-> <<>>, base |-> NoURL, cfg |-> <<>>, rounds |-> <<>>]

StartScan ==
    /\ at.stage = "called" /\ call.tool = "scan_api"
    /\ IF ~ScanAccepts(call.args) \/ call.plugin \notin builtins
       THEN Stage("failed") /\ UNCHANGED test
       ELSE LET cfg == applyDefaults(ToConfig(call.args, Base), Defaults)
            IN  \E r \in resolveTargets(cfg) :
                   \/ ~r.ok /\ Stage("failed") /\ UNCHANGED test
                   \/ r.ok /\ \E ep \in r.endpoints :
                         LET rounds == Rounds(call.plugin, ep, cfg.points)
                         IN  /\ test' = [ep |-> ep, base |-> r.base, cfg |-> cfg, rounds |-> rounds]
                             /\ Stage(IF rounds = <<>> THEN "over" ELSE "payload")
    /\ UNCHANGED <<call, service, kept, found, wire, faults, interrupted>>

SendOwn ==
    /\ at.stage = "called" /\ call.tool = "http_request"
    /\ LET requests == HTTPRequest(call.args, Base, Defaults)
       IN  \/ requests = {} /\ Stage("failed") /\ UNCHANGED wire
           \/ \E r \in requests : Stage("over") /\ wire' = [sent |-> {r}, param |-> Whole]
    /\ UNCHANGED <<call, service, test, kept, found, faults, interrupted>>

\* The context is looked at before each request; sqli does so once a parameter.
Stop ==
    /\ at.stage = "payload" /\ interrupted
    /\ call.plugin = "sqli" => at.j = 1
    /\ Stage("over")
    /\ UNCHANGED <<call, service, test, kept, found, wire, faults, interrupted>>

Goes(plugins, stage) ==
    /\ at.stage = stage /\ call.plugin \in plugins
    /\ interrupted => plugins = {"sqli"} /\ (stage = "payload" => at.j > 1)

\* Inject, match, and on to the next parameter when there is a finding; an
\* answer that is an error is passed over.
Probe ==
    /\ Goes(builtins \ {"sqli", "idor", "mass_assignment"}, "payload")
    /\ \E x \in Exchanges(Here, at.j, TRUE) :
          /\ Sent(x, Here, at.j, TRUE)
          /\ IF ~x.answer.error /\ Hit(x.answer, at.j)
             THEN Finding(at.j) /\ NextRound
             ELSE NextPayload /\ UNCHANGED found
    /\ UNCHANGED kept

\* The body of a request that comes back holds every field that was sent.
SentBack(marks) ==
    IF "echo" \in marks
    THEN UNION ({Spelled(i) : i \in Undeclared(test.ep)} \cup {Within[f] : f \in ToSet(test.ep.body.fields)})
    ELSE {}

\* A field is reported when its name and its value are both somewhere in the
\* answer: two searches, which need not meet the same place.
ProbeFields ==
    /\ Goes({"mass_assignment"}, "payload")
    /\ \E x \in Exchanges(Whole, 1, TRUE) :
          /\ Sent(x, Whole, 1, TRUE)
          /\ found' = {[param |-> Param(Privileged[i].field, "body", FALSE), k |-> i] :
                          i \in {u \in Undeclared(test.ep) :
                                    Words(u) \subseteq x.answer.marks \cup SentBack(x.answer.marks)}}
    /\ NextRound
    /\ UNCHANGED kept

\* The identifiers one after the other; two answers of different length in the
\* end, the first and the last, are a candidate.
ProbeIdentifier ==
    /\ Goes({"idor"}, "payload")
    /\ \E x \in Exchanges(Here, at.j, TRUE) :
          LET ok == ~x.answer.error /\ x.answer.status = "ok" /\ x.answer.size > 0
              all == IF ok THEN Append(kept, x.answer) ELSE kept
              last == at.j = Steps
          IN  /\ Sent(x, Here, at.j, TRUE)
              /\ kept' = IF last THEN <<>> ELSE all
              /\ IF last /\ Len(all) >= 2 /\ all[1].size # Last(all).size
                 THEN Finding(0) ELSE UNCHANGED found
    /\ NextPayload

\* sqli: meta-characters, then a baseline, a true and a false condition, then
\* delays, each of which has to be seen twice.
ProbeErrors ==
    /\ Goes({"sqli"}, "payload")
    /\ \E x \in Exchanges(Here, at.j, TRUE) :
          /\ Sent(x, Here, at.j, TRUE)
          /\ IF ~x.answer.error /\ matchSignal(x.answer.marks, {"signature"})
             THEN Finding(at.j) /\ NextRound
             ELSE (IF at.j < Steps THEN at' = [at EXCEPT !.j = @ + 1] ELSE Stage("baseline")) /\ UNCHANGED found
    /\ UNCHANGED kept

ProbeBaseline ==
    /\ Goes({"sqli"}, "baseline")
    /\ \E x \in Exchanges(Here, 0, TRUE) :
          /\ Sent(x, Here, 0, TRUE)
          /\ IF x.answer.error THEN NextRound /\ UNCHANGED kept ELSE Stage("true") /\ kept' = <<x.answer>>
    /\ UNCHANGED found

ProbeTrue ==
    /\ Goes({"sqli"}, "true")
    /\ \E x \in Exchanges(Here, Condition, TRUE) : Sent(x, Here, Condition, TRUE) /\ kept' = Append(kept, x.answer)
    /\ Stage("false")
    /\ UNCHANGED found

Diverges(baseline, yes, no) ==
    /\ ~yes.error /\ ~no.error
    /\ yes.status = baseline.status
    /\ yes.size = baseline.size /\ no.size # yes.size

ProbeFalse ==
    /\ Goes({"sqli"}, "false")
    /\ \E x \in Exchanges(Here, Condition, FALSE) :
          /\ Sent(x, Here, Condition, FALSE)
          /\ IF Diverges(kept[1], kept[2], x.answer) THEN Finding(Condition) /\ NextRound
             ELSE /\ IF kept[1].slow THEN NextRound ELSE at' = [at EXCEPT !.stage = "time", !.j = 1]
                  /\ UNCHANGED found
    /\ kept' = <<>>

ProbeDelay ==
    /\ Goes({"sqli"}, "time")
    /\ \E x \in Exchanges(Here, Delay(at.j), TRUE) :
          /\ Sent(x, Here, Delay(at.j), TRUE)
          /\ IF ~x.answer.error /\ x.answer.slow THEN Stage("confirm") ELSE NextPayload
    /\ UNCHANGED <<found, kept>>

ConfirmDelay ==
    /\ Goes({"sqli"}, "confirm")
    /\ \E x \in Exchanges(Here, Delay(at.j), TRUE) :
          /\ Sent(x, Here, Delay(at.j), TRUE)
          /\ IF ~x.answer.error /\ x.answer.slow
             THEN Finding(Delay(at.j)) /\ NextRound
             ELSE /\ IF at.j < Steps THEN at' = [at EXCEPT !.stage = "time", !.j = @ + 1] ELSE NextRound
                  /\ UNCHANGED found
    /\ UNCHANGED kept

Interrupt ==
    /\ ~interrupted
    /\ interrupted' = TRUE
    /\ UNCHANGED <<call, service, test, at, kept, found, wire, faults>>

Init ==
    /\ call \in Calls
    /\ service \in Services[call.plugin]
    /\ test = NoTest
    /\ at = [stage |-> "called", i |-> 1, j |-> 1]
    /\ kept = <<>>
    /\ found = {}
    /\ wire = [sent |-> {}, param |-> Whole]
    /\ faults = MaxFaults
    /\ interrupted = FALSE

Test == Stop \/ Probe \/ ProbeFields \/ ProbeIdentifier \/ ProbeErrors \/ ProbeBaseline
        \/ ProbeTrue \/ ProbeFalse \/ ProbeDelay \/ ConfirmDelay
Over == at.stage \in {"over", "failed"}

Next == StartScan \/ SendOwn \/ Test \/ Interrupt

Spec == Init /\ [][Next]_vars

-----------------------------------------------------------------------------
(* Properties *)

Places == {"called", "payload", "baseline", "true", "false", "time", "confirm", "over", "failed"}

TypeOK ==
    /\ at.stage \in Places /\ at.j \in 1..NumPayloads
    /\ ~Over => at.stage = "called" \/ at.i \in DOMAIN test.rounds
    /\ \A f \in found : f.param.in \in Locations /\ f.k \in 0..(2 * NumPayloads + 1) \cup DOMAIN Privileged
    /\ \A r \in wire.sent : \A e \in r.has : e.in \in Locations /\ e.value \in Values
    /\ Len(kept) <= NumPayloads + 2 /\ faults \in 0..MaxFaults

Scanning == call.tool = "scan_api" /\ at.stage \notin {"called", "failed"}

\* Places at which the configuration of the user, or another spelling of the
\* same header in the specification, goes over what a plugin puts there.
Overridden(p) ==
    LET cfg == test.cfg
    IN  CASE p.in = "query" -> \E e \in cfg.params : e.name = p.name
          [] p.in = "header" ->
                \/ \E h \in cfg.headers : Canonical[h.name] = Canonical[p.name]
                \/ \E i \in DOMAIN test.ep.params :
                      LET d == test.ep.params[i]
                      IN  \/ d.in = "header" /\ d.name # p.name /\ Canonical[d.name] = Canonical[p.name]
                          \/ d.in = "cookie" /\ Canonical[p.name] = "Cookie"
          [] p.in = "cookie" -> \E h \in cfg.headers : Canonical[h.name] = "Cookie"
          [] p.in = "path" -> p.name \notin Holes(test.ep.path)
          [] OTHER -> FALSE

\* A payload goes to the place of the parameter that the finding would name and
\* to no other place, and the request goes to the endpoint under the base URL
\* of the call (buildRequest, BuildEndpointFromURL).
PayloadHitsItsPlace ==
    \A r \in wire.sent :
        Scanning /\ call.plugin \in Injecting =>
            /\ Has(r, wire.param, "payload") \/ Overridden(wire.param)
            /\ \A e \in r.has : e.value = "payload" => e.in = wire.param.in /\ e.name = Key(wire.param)
            /\ r.to.path = IF test.cfg.url # NoURL /\ test.cfg.url.host = ""
                           THEN test.cfg.base.path \o test.cfg.url.path
                           ELSE test.base.path \o test.ep.path

\* A header that the caller gives goes out as the caller gave it, except the
\* ones that auth leaves out and the Origin of cors; a default header of
\* another spelling may win in a scan, never in a request of the caller's own.
CallerHeadersWin ==
    \A r \in wire.sent : \A h \in call.args.headers :
        \/ Has(r, h, h.value)
        \/ /\ call.tool = "scan_api"
           /\ \E d \in Defaults.headers : d.name # h.name /\ Canonical[d.name] = Canonical[h.name]
        \/ call.plugin = "auth" /\ Canonical[h.name] \in Credentials
        \/ call.plugin = "cors" /\ Canonical[h.name] = Canonical["Origin"]

SameSpot(p, q) == p.in = q.in /\ Key(p) = Key(q)

\* What is wrong with the service at p, by the plugin that is to tell.
Flawed(p, k) ==
    CASE call.plugin = "auth" -> service.guard = {}
      [] call.plugin = "sensitive_data" -> "secret" \in service.page
      [] call.plugin = "cors" -> 1 \in service.flaw \/ {"anyorigin", "credentials"} \subseteq service.page \cup service.forms
      [] call.plugin = "idor" -> Cardinality(service.flaw) >= 2
      [] call.plugin = "mass_assignment" -> k \in service.flaw
      [] OTHER -> SameSpot(p, service.weak) /\ k \in service.flaw

\* Where the words of a privileged field come from when the service does not
\* bind it: the page, what is sent back, or another field that it binds.
Shown == service.page \cup service.forms
Elsewhere(k) ==
    Shown \cup SentBack(Shown)
    \cup UNION {Spelled(i) : i \in (service.flaw \cap Undeclared(test.ep)) \ {k}}

\* Where an answer that proves nothing is taken for a proof: what the plugin
\* looks for is on the page anyway or comes with any payload, a request without
\* the known credentials is let in by others, and answers that are compared, or
\* two in a row that are late, tell of the network.
Deceived(k) ==
    \/ call.plugin \notin (Once \ {"cors"}) \cup {"idor"} /\ Effect \in Shown
    \/ call.plugin = "mass_assignment" /\ Words(k) \subseteq Elsewhere(k)
    \/ call.plugin = "open_redirect" /\ {"carried", "script"} \cap Shown # {}
    \/ call.plugin = "ssrf" /\ k = 2 /\ "piece" \in Shown
    \/ call.plugin = "auth" /\ \E g \in service.guard : g.in # "header" \/ Canonical[g.name] \notin Credentials
    \/ call.plugin = "sqli" /\ k = Condition /\ faults < MaxFaults
    \/ call.plugin = "sqli" /\ k > Condition /\ faults + 2 <= MaxFaults

\* A finding names a weakness the service has: neither a payload that comes back
\* as it was sent nor one answer that is late, cut or refused is enough, but in
\* the cases Deceived names (matchSignal, testParam).
NoFalseAlarm == \A f \in found : Flawed(f.param, f.k) \/ Deceived(f.k)

\* The user's credentials let every request of the plugin in.
LetIn ==
    service.guard = {} \/ \E g \in service.guard :
        \/ g.in = "header" /\ \E h \in test.cfg.headers : Canonical[h.name] = Canonical[g.name]
        \/ g.in = "query" /\ \E e \in test.cfg.params : e.name = g.name

InScope(p) ==
    IF test.cfg.points = <<>>
    THEN \E i \in DOMAIN test.ep.params : SamePlace(p, test.ep.params[i])
    ELSE \E i \in DOMAIN test.cfg.points :
            LET pt == ParseInsertPoint(test.cfg.points[i])
            IN  /\ pt.name = p.name /\ p.in \in pt.loc
                /\ (\E d \in DOMAIN test.ep.params : SamePlace(p, test.ep.params[d])) \/ pt.loc = {p.in}

\* The payloads that show the weakness of the service through this endpoint.
Telling ==
    CASE call.plugin = "sqli" -> service.flaw
      [] call.plugin = "xss" -> IF "html" \in service.page /\ "escaped" \notin service.page \cup service.forms
                                THEN service.flaw ELSE {}
      [] call.plugin = "idor" -> IF Cardinality(service.flaw) >= 2 /\ Shown \cap {"location", "carried"} = {}
                                 THEN {0} ELSE {}
      [] OTHER -> service.flaw

\* A test that was neither disturbed nor cancelled has reported the weakness
\* when the plugin applies to the endpoint and the parameter is in its scope
\* (the loops of Test, ResolveInsertPoints).
NoMiss ==
    at.stage = "over" /\ Scanning /\ ~interrupted /\ faults = MaxFaults /\ Concerns(call.plugin, test.ep)
        => /\ LetIn /\ call.plugin \in Injecting /\ Telling # {} /\ InScope(service.weak)
              /\ Applies(call.plugin, service.weak) /\ ~Overridden(service.weak)
              => \E f \in found : SameSpot(f.param, service.weak)
           /\ call.plugin = "mass_assignment" /\ LetIn
              => \A i \in service.flaw \cap Undeclared(test.ep) : \E f \in found : f.k = i
           /\ call.plugin = "auth" /\ service.guard = {} /\ service.page \cap {"location", "carried"} = {}
              => found # {}
           /\ call.plugin = "sensitive_data" /\ LetIn /\ "secret" \in service.page => found # {}
           /\ call.plugin = "cors" /\ LetIn /\ 1 \in service.flaw
              /\ ~(\E h \in test.cfg.headers : h.name # "Origin" /\ Canonical[h.name] = Canonical["Origin"])
              => found # {}

\* A test goes forward with every request: to a later parameter, a later
\* technique or a later payload, so that it ends whatever the service answers
\* and whenever it is cancelled (the loops of Test and testParam).
Rank == IF at.stage \in {"over", "failed"} THEN <<Len(test.rounds) + 2, 0, 0>>
        ELSE <<IF at.stage = "called" THEN 0 ELSE at.i,
               CASE at.stage = "baseline" -> 1 [] at.stage = "true" -> 2 [] at.stage = "false" -> 3
                 [] at.stage \in {"time", "confirm"} -> 4 [] OTHER -> 0,
               2 * at.j + IF at.stage = "confirm" THEN 1 ELSE 0>>
TestAdvances ==
    [][\E n \in 1..3 : (Rank[n] < Rank'[n] /\ \A m \in 1..(n - 1) : Rank[m] = Rank'[m])]_at
=============================================================================
