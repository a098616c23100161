# AgentSDAST in TLA+

AgentSDAST audits the security of APIs with four services that share a MySQL
database and a MinIO bucket: the **Manager** (Node) takes uploads and drives a
scan through its stages, **AgentSAST** (Go) reads the source code and writes an
OpenAPI document and a report, **AgentDAST** (Go) audits the running API against
that document, **AgentReport** (Node) turns the two reports into HTML and PDF.

This directory holds specifications of the parts of that system whose
correctness depends on the order of steps or on the meeting of several inputs,
the TLC configurations that check them on small instances, and proofs, checked
by TLAPS, of what holds on every instance.

Contents: 1 the system, 2 the modules and the code, 3 the runs, 4 fairness,
5 what the runs found, 6 the proofs, 7 what is not modelled, 8 the plan.

## 1. The system

### Components

| Component | State it keeps | Operations | Hard behaviour |
|---|---|---|---|
| Manager, pipeline (`Manager/lib/agents/orchestrator.js`, `client.js`, `routes/scans.js`) | `ScanRecord` (status, three job ids, `dast_triggered`, `report_triggered`), a row per stage in `sast`, `dast`, `report` | run, refresh of a status, cancel, rerun of the report, a background tick every 5 s | one Node process, but every `await` lets another handler in; answers are written over rows that have changed since; starts whose answer is lost; restarts |
| Manager, queue (same files) | `ScanRecord.status` as lock and as queue, ordered by `created_at` | run, enqueue, claim, dequeue, cancel | the status that locks the queue is also computed from rows |
| AgentSAST jobs (`internal/service/job`, `internal/handler`) | `sast` rows, the map id -> cancel function, a work directory per job, the objects `<project>/sast/*` | run, cancel | a handler's read, signal and write against a goroutine's writes; UPDATEs whose error is ignored |
| AgentSAST model loop (`internal/ai`) | turn, two nudges, three artifacts on disk | a model turn, tool calls, conclusion, backstop | the loop can end in any state of the artifacts |
| AgentDAST service (`internal/server`) | `dast` rows, the semaphore `sem`, the map `cancels`, `<project>/dast/report.md` and `logs/<id>.json` | scan, cancel | a bounded pool of goroutines, two requests for one id, a cancel in three steps, a restart |
| DAST scanner (`internal/core`) | findings, a semaphore, a wait group, the executor's request counter | run over endpoints x plugins | fan-out, panics of plugins, cancellation in the middle of the loop |
| DAST model loop (`internal/ai`, `internal/toolexec`) | messages, findings, the gate | a turn, tool calls, report, consolidation | a report that is not what was confirmed |
| DAST plugins, requests, parser (`internal/plugins`, `core/executor.go`, `internal/parser`) | of a test: its parameters, the answers it compares, what it found | a scan of a plugin on an endpoint, a request of the model | payloads, headers and parameters that overwrite each other; answers that fail, are late or are cut; a payload that comes back; a document that declares a thing twice or not at all |
| AgentSAST tools (`internal/ai/{toolexec,sandbox,skills}.go`) | the job's directory, the reference documents | unpack, list, read, search, look up, write an artifact, validate | archives that escape, collide or fail half-way; limits that are reached exactly; answers that are cut; names stored in one form and looked up in another |
| AgentReport (`server.js`, `lib`) | `report` rows, the set `jobs`, `<project>/report/*` | report | the answer precedes the work; PDFs may fail one by one; a restart in the middle |
| Manager, intake (`routes/upload.js`, `services/scan.js`, `integrations/dataplane.js`) | uploaded parts, `<project>/raw` | create, chunk, finalize | retries, two finalize requests |
| Manager, skills (`routes/skills.js`, `storage/skills.js`, `storage/syncSkills.js`) | the skill files, local and in the bucket | edit, sync | a copy that stops half-way |
| Other parts (DAST output and MCP; Manager's models, LLM checks, path and address checks, dashboard, front end) | none that outlives a call | - | boundaries of strings and numbers |

`PROJECT.json` has the complete list with the files of each part.

### How they interact

    browser -> Manager --POST /run--> AgentSAST --> sast row, <project>/sast/*
                  |  refresh: GET status of each agent, write it into the row
                  |--POST /scan-> AgentDAST --> dast row, <project>/dast/*
                  `--POST /run--> AgentReport -> report row, <project>/report/*

Nothing is passed between the agents directly. A stage finds its input in the
bucket, under keys that depend on the project alone. A status is in three
places: in the agent's memory, in the agent's row (the agents and the Manager
both write it) and in the `ScanRecord`, which the Manager computes from the
three rows. No service undoes what it left behind when it restarts.

### What makes them correct

* Pipeline: a stage starts only on delivered input; `done` means delivered; one
  audit of the target per start; a claim is never lost; a report that was made
  is noticed.
* Queue: a scan in the queue can be started and is started; the end of a scan
  makes room; one scan is in progress at a time (it is not: section 5).
* SAST jobs: nothing invalid is uploaded; the loop always leaves its artifacts;
  every end is recorded.
* DAST audit: what the scans confirm is in the report, once, whatever the model
  writes; nothing runs on when the audit is over; an audit ends.
* DAST tests: a payload is where the finding says; the caller's headers go out; a
  finding is a weakness; a weakness in reach is found; a test ends.
* SAST tools: nothing is written outside; an extraction keeps its limits and is
  complete when it says so; what is cut says so; what is listed can be fetched (it
  cannot: section 5).
* DAST service: the limit holds on every path; a cancel interrupts the right
  goroutine; a finished row stays; `done` means there is a report.

## 2. The modules and the code

`PROJECT.json` maps each definition to its lines. In all modules a call on the
database, the bucket, another service or a lock-guarded map is one action, and
what a goroutine or a handler does between two such calls belongs to one of
them. Progress numbers, phases, messages and log lines are left out.

| Module | Models | State and actions |
|---|---|---|
| `DastServer` | `AgentDAST/internal/server/{server,store}.go` | `rows`, `reports`, `logs`: table and bucket; `slots`, `parked`: the channel `sem`, with Go's first-come queue of blocked senders; `cancels`, `cancelled`: the map and the contexts. `HandleScan`, `EnsureScan`, `CreateScan` are the request; `Acquire` ... `Release` the goroutine of `runScan` with its deferred calls; `CancelScan`, `LookupCancel`, `Interrupt` the three steps of a cancel; `Crash` a restart. |
| `BoundedPool` | the promise of that semaphore | tasks arrive, wait in order, run at most `Limit` at a time, leave. `DastServer` is shown to implement it, with `running <- Holders` and `waiting <- parked`, and `Scanner`, with `running <- Running` and the blocked loop as the only one that waits. |
| `Scanner` | `AgentDAST/internal/core/scanner.go`, `executor.go` | `loop`: `scanEndpoints`, the pairs of endpoint and plugin numbered in its order; `test`: its goroutines; `slots`, `pending`: the channel and the wait group; `found`, `findings`: the list that a test returns and the shared one; `count`: the request counter; `result`: what `Run` returns. The deferred calls are the steps `Release` and `Leave`; a panic is a `Return` without a finding. |
| `DastAudit` | `AgentDAST/internal/ai/orchestrator.go`, `internal/toolexec` | extends `Scanner`: `audit`: the turn, the calls left of an answer, the gate; `scans`: the field of `AuditResult`. Each scan is a run of `Scanner`; the findings of the report, `FinalReport`, are `consolidate(scans)`, a recursive function over the findings in the order of the scans. |
| `ApiRequests` | `AgentDAST/internal/parser`, `core/urlscan.go`, `core/executor.go`, the argument handling of `toolexec` | operators only: from a document or a URL to endpoints (`extractSpec`, `resolveTargets`), from a tool call to a configuration (`ToConfig`, `applyDefaults`), from these to the parameters of a test (`ResolveInsertPoints`) and the requests that may go out (`buildRequest`, `SendRawBody`). Where the code ranges over a map, an operator gives the set of results. |
| `Probes` | `AgentDAST/internal/plugins`, `HTTPRequest` of `toolexec` | extends `ApiRequests`: `test`: the `ScanContext`; `at`: stage, parameter and payload of the plugin; `kept`: the answers it compares; `found`: its findings; `wire`: the last request. One action per request. `service`: the service under test, drawn from what it is weak at and how it answers. |
| `Workspace` | `AgentSAST/internal/ai/{toolexec,sandbox,skills}.go`, `dispatch` of its `orchestrator.go` | `disk`: the nodes below the job's root; `job`: the extraction under way; `store`: the references loaded; `reply`: what the model was told. An extraction is one action per entry, any other tool one action. |
| `SastServer` | `AgentSAST/internal/service/job`, `internal/ai/orchestrator.go`, `handler/route_cancle.go` | `row`, `bucket`: table and bucket; `tracked`, `interrupted`: `manager.cancels` and the contexts; `loop`, `files`: the locals of `Orchestrator.Run` and what is at the path of each artifact: nothing, an empty file, something that is no file to write to, or contents. `Create`, `Track`, `Begin`, `Download`, `ResolveModel`; the turns `NoAnswer`, `ToolCalls`, `Conclude`, `Interrupted`, `TurnCap`; `Verify`, the two uploads, `Fail`, `RecordEnd`, `Remove`. |
| `ScanPipeline` | `Manager/lib/agents/orchestrator.js`, `client.js`, `routes/scans.js` and, as far as the Manager can see them, the agents | `record`, `row`: the tables; `task`: the handlers and ticks, each with the copies it took before an `await` (`seen`, `remote`, ...); `agent`, `artifacts`: what each agent is doing and has delivered, the two pages of AgentReport one after the other. One action per statement between two awaits. |
| `ScanQueue` | the same files, for several scans | `status`, `started`: the records; `work`: what the three rows of a scan amount to; `task`: handlers and ticks; `crossed`: the scans that were started while another request for them was under way; `requests`: their number. |

`ScanPipeline` is the composition of the Manager with its three agents at the
granularity of rows; `ScanQueue` is what several of those pipelines do to each
other; `DastServer` and `SastServer` open up two of the agents, `DastAudit` with
`Scanner` what is one step of `DastServer`, and `Probes` what is one test of `Scanner`
(the steps of a goroutine between its start and its `Return`); `Workspace` has the tools
that a turn of `SastServer` calls. `MC*` modules
instantiate a module for TLC, `*_proofs` modules prove theorems about it; `Induction`
holds the facts about numbers, finite sets, sums and sequences that they share.
A definition called `Mut_X` is a variant of `X` with a plausible mistake; it is
used by nothing in the specification, and the property it is listed with in
`PROJECT.json` fails when it takes the place of `X`.

Choices of granularity:

* `ScanPipeline` has at most one row per table for its scan, so a job id is the same as
  the row it leads to. Statuses are the classes of `normalizeStatus`. A second start of
  the scan, which section 5 describes, would add second rows; a scan is followed up to
  there (`Unstarted`). Of what AgentReport uploads the two pages are artifacts, since
  the Manager looks for no other; `stats.json`, `report.json` and the PDFs are left out.
* `ScanQueue` reads the three rows of a scan in one step (`See`); reading them one after
  the other is in `ScanPipeline`. It has no restart of the Manager. Two requests may be
  for one scan, and cross.
* `SastServer`: the stub document that the backstop writes is taken to be valid, as its
  text is fixed. The backstop's write of an artifact may fail, without a word, and so
  may the making of its directory. The jobs are those of one project, because jobs share
  nothing else. A turn is one step: its tool calls leave each artifact as it is, write
  it, overwrite it with an empty file, or put a directory where there is none; no tool
  removes a file.
* `DastServer`: a whole audit is one step that succeeds, fails or is interrupted.
* `Scanner`, `DastAudit`: a test returns any list, up to `MaxFindings`, of what there is
  to find at its endpoint. Findings have their test (plugin, method, endpoint), the name
  and the place of the parameter, and a severity, which is its rank; they are merged by
  test and name, as the code does it, without the place. A scan of the model is a first
  part of the tests of the whole API, which ones makes no difference to what is shared.
  The three locks enclose single statements. A plugin may end at any time, which covers
  one that sees the context done.
* `Probes`: of a value only who put it there is kept, of a body only the marks that the
  plugins look for, of payloads only what tells them apart. The signature of the k-th
  payload is the mark k. The names and values of `mass_assignment` are words, of which
  one may be found within another (`Lower`, `Within`): two searches in the lower-cased
  body, one for each, decide on a field. Lengths and delays are equal or differ by more
  than every threshold. A fault is a request that fails, an answer that is late, or one
  that is cut, whose error the code drops (`executor.go:292`).
* `Workspace`: a path is a sequence of names, a file is its size and the name of its
  content. The order of the walk over the directory is left open, which covers every
  order. Any entry of an archive may turn out to be unreadable. Names are lower case.
* History variables (`overlapped`, `crossed`, `restarted`, `proved`, the counters in
  `used`) are read only by properties and bounds.

Bounds on counters are constants, in guards: `MaxCrashes`, `MaxLostWrites`,
`MaxBadDisks` (backstops that fail to write), `MaxRestarts`, `MaxRuns`, `MaxBusy`
(handlers and ticks at once), `MaxRequests` (in `ScanQueue` requests of any kind, in
`Scanner` those counted in one run), `MaxFindings`, `MaxFaults`, `MaxCalls`,
`NumPayloads`, and `MaxEvents`, which counts cancels, reruns, failures, lost answers and
restarts together. `MaxTurns` is the configured limit of the code.

## 3. The runs

| Run | Instance | What it shows |
|---|---|---|
| `dast_server_safety` | 3 requests, 1 cancel, 2 ids, 2 projects, 1 slot, 1 crash, 1 lost UPDATE; symmetric | the semaphore counts its holders, a slot goes to a goroutine that waits for it, a cancel reaches its scan and no other, `done` has a report, a finished row stays, and the service is a `BoundedPool`. Three requests for one slot make a queue of two; two ids and two projects make mismatched requests, and three requests over two ids make two for one id. |
| `dast_server_liveness` | 3 requests, 1 cancel, 1 id, a configured limit of 0 | the limit is raised to one, every goroutine that was started gets its slot and ends, and every accepted scan shows an end in its row |
| `dast_server_cancel` | 1 request, 1 cancel | violated: see finding 1 |
| `pipeline_safety` | 2 tasks, 1 start, 1 event | stages start in order and on delivered input, one audit per start, no claim is lost, and `done` means that the artifacts of SAST and DAST and the first page of the report are there, and the second unless AgentReport is at it or broke off. Two tasks are what the races here need: one that decides on a copy, and one that changes what was copied. |
| `pipeline_liveness` | 1 task, 1 start, 2 events | a report in the bucket does not leave its row open, even when AgentReport restarts while it works. One task at a time is enough: what could keep the row open is a restart and a rerun, two events. |
| `queue_pass` | 2 scans, 2 handlers and 1 tick, at most 2 of them at once, 3 requests of any kind | a queued scan has no jobs unless two requests for it crossed, the queue drains unless some did, each end is noticed. Two scans, one of which waits, are the smallest queue; three requests are two for one scan, which cross, and one that makes room or looks; every operation occurs while a tick or another handler is between any two of its steps. |
| `queue_active` | 2 scans, 1 handler, 1 tick, 2 requests | violated: finding 2 |
| `sast_pass` | 1 job, 2 cancels, 4 turns, 1 lost UPDATE, 1 failed backstop, 1 restart | the job always comes to an end that its row shows, the loop leaves its artifacts except where a write failed, something else is in the way or the base URL is blank, and nothing invalid is uploaded. Four turns are enough for tools, both nudges and a conclusion, and for the cap to come before them. Jobs share the bucket alone; the theorems are for any number of them. |
| `audit_pass` | 2 tests, 1 at a time, 3 findings, lists of at most 2, 2 turns of 1 call, 1 cancel | a scan returns every finding once and with no test under way, the report of an audit has one entry for each name that a test confirmed, with the highest severity of it, and no other, nothing runs on when the audit is over, the semaphore is a bounded pool, and every audit ends. Two tests at a limit of one make the loop block and a finding overtake another; the first test finds one name at two places, with two severities, and the second the same name: one scan or two make the consolidation raise an entry or keep it, and keep the tests apart |
| `probes_pass` | 13 plugins and an unknown one; a document with three operations and a URL, in nine calls; services that are weak or not, echo, escape, guard or leak, by plugin; 2 payloads, 1 fault, a cancel | each payload is where the finding says and nowhere else, the caller's headers win, a finding is a weakness, what is in scope and undisturbed is found, a test only goes forward. Two payloads are the first and a later one; one fault hits any one of the requests that are compared; the document has a name in two places, one that is declared twice, headers in two spellings and bodies of each kind; of three privileged fields one is declared in another spelling, two share their value and one name is part of another, over pages that hold the words or not |
| `workspace_pass` | 3 uploads, 5 archives, limits of 2 files and 3 bytes, 3 calls | writes stay inside, an extraction keeps its limits and is complete when it says so, answers that are cut say so. Three calls are two extractions and a look at what they left, or an extraction over an artifact; each limit is met exactly, exceeded by one and not reached. |
| `workspace_knowledge` | 1 call of a deep scan | violated: finding 3 |

`CHECK_DEADLOCK FALSE` is said where the system really may stop: a DAST service
whose requests are all answered, a SAST job that has ended, an audit or a test that is
over, and a workspace whose calls are used up. The Manager
never stops, since its ticks go on, so its runs check for deadlock.

## 4. Fairness

Only steps that the code itself takes are fair; no request has to come, nothing
has to fail, no process has to restart.

* `DastServer`, `SastServer`: weak fairness per goroutine and per cancel request.
  The Go scheduler runs every runnable goroutine, and a channel serves blocked
  senders in order (which the model has as `parked`, so weak fairness is
  enough). It assumes that the calls a goroutine makes return. For the database and
  the bucket the drivers see to it. **The model client has no timeout of its
  own**, so that a model which never answers keeps a job for ever is excluded by
  assumption; a cancel would end it.
* `DastAudit`: weak fairness for the audit, the loop and each goroutine of a test. That
  a plugin comes to an end is justified by the timeout of its HTTP client
  (`executor.go:84`) and the finite lists of payloads; that the model answers is the
  assumption above. A channel with one sender needs no more than that.
* `ScanPipeline`, `ScanQueue`: weak fairness per task and for a tick. The timer of
  `startBackgroundSync` fires every 5 s as long as the Manager runs, a call of an
  agent is ended by `AGENT_REQUEST_TIMEOUT_MS` (30 s), and the database answers.
* `ScanQueue` also assumes that agents come to an end with their jobs, which is what
  `JobSettles` and `EveryScanSettles` show of two of them. After a restart of an
  agent it is not so, and then a scan in progress blocks the queue for good.
* `Probes`, `Workspace`: none. That a test ends is stated as a step property
  (`TestAdvances`): each request takes it forward in a finite order, whatever the
  answer.

## 5. What the runs found

1. `dast_server_cancel`: a progress note of the goroutine overwrites a cancel, and the
   interrupted goroutine then leaves the row in `process`
   (`server.go:352` says that it is routed to `cancel`).
2. `queue_active`: a refresh between a claim and the first row puts the scan back to
   `new`; the next scan is claimed while it runs.
3. `workspace_knowledge`: `get` of `skills.go` turns the hyphens and slashes of a topic into
   underscores, `LoadSkills` keeps them. Every hyphenated reference of a deep or gateway
   scan, and each one that two modes share, is listed and cannot be fetched.

`PROJECT.json` quotes the text that each of them contradicts.

Observations without a run of their own, met while modelling:

* Pipeline: an audit that ends before the Manager has written down the answer to its
  start goes back to `new` or `progress` (`orchestrator.js:233`, `:740`). After a failed
  start of SAST the scan is `new` again and offered, and every start of it is refused
  because its ids are set (`:53`, `:434`). A Manager that restarts after the claim of a
  scan and before its rows (`:502`) leaves a scan in progress that nothing ends but a
  cancel.
* Pipeline, the report: the row is reconciled as soon as the bucket has one of the two
  pages (`reportArtifacts.js:78`). When AgentReport restarts between its uploads, or is
  slow, the scan says `done` with the first page only, and the rest, the PDFs among it,
  may never come. This is why `DoneIsDelivered` promises the second page only when
  AgentReport is neither at work nor broken.
* Pipeline, a second start: a request that passed its checks before another one claimed
  the scan can claim it again when a refresh has put its status back to `new` (finding
  2). It adds second rows (`orchestrator.js:508`) and opens the claim of DAST, so that
  there may be a second audit. `DastRequestedOnce` speaks of one start.
* Queue: two requests for one scan can cross: one has seen it `new`, the other starts
  it, a refresh puts the status back to `new`, and the first one queues it
  (`orchestrator.js:468`, `:481`). Every start of it is then refused, and as only the
  oldest scan of the queue is tried (`:569`), it blocks those behind it for good.
  `QueuedNotStarted` and `QueueDrains` name this case (`crossed`) and hold in all
  others.
* DAST service: the function that a cancel has looked up may be that of an earlier run
  of the id, which has ended (`server.go:328`); the run of that moment is then not
  interrupted. `CancelsReachTheirScan` says that it is never one of another scan.
* SAST jobs: a cancel and the goroutine write their ends over each other (`job.go:155`,
  `route_cancle.go:24`). Two jobs, or two audits, of one project write the same keys.
* SAST jobs: `finalizeBackstop` "guarantees the three artifacts exist"
  (`ai/orchestrator.go:160`), but ignores the errors of its writes (`:170`), cannot
  write where an extraction has put a directory, and gives an empty `base_url.txt` for a
  blank URL. `OutputGuaranteed` names these cases. An artifact that an extraction has
  emptied is written again; a report that stays empty passes the job's check
  (`job.go:132`), which asks only whether the file exists.
* DAST audit: findings are merged by plugin, method, endpoint and name
  (`ai/orchestrator.go:410`). Of one name found in the path and in the query, or of two
  kinds of data in one answer, the report has one entry, that of the highest severity:
  that the other was confirmed as well is lost. `ConfirmedAreReported` says what is
  kept.
* DAST audit: the gate asks once (`ai/orchestrator.go:146`); an answer without choices
  is an error of the audit, unlike a model that cannot be reached (`:137`).
* DAST tests, the cases that `Deceived` of `Probes` names: `mass_assignment` looks for a
  name and a value anywhere in the lower-cased body (`mass_assignment.go:90`), so that
  an echo, a page, or another field that was bound (`isAdmin` with `true` holds the
  words of `admin`) is taken for the proof that its comment (`:10`) speaks of; the
  second payload of `ssrf` contains a signature; `open_redirect` looks for its host
  anywhere in the answer; the comparison of pages in `sqli` rests on single answers, its
  delays on two; `auth` knows credentials only in some headers. What `NoMiss` leaves
  out: `auth` and `idor` take a redirect for a refusal, and an `Origin` of the user in
  another spelling may go out in place of that of `cors`.
* DAST requests: custom parameters and headers overwrite payloads, and a `Cookie` header
  of the user the cookies (`executor.go:246`); of two spellings of a header one wins at
  random (`toolexec.go:190`); an insert point of the path that is not in the template
  goes nowhere; parameters of the path and of the operation are both kept, and a
  security requirement of the whole document is not seen (`extractor.go:36`).
* SAST tools: a glob that ends in `**` matches everything (`toolexec.go:291`); an
  archive that fills the limit exactly is refused when an empty file follows (`:211`);
  the limits are those of one call (`:115`); a negative offset makes the note on
  truncation appear for a whole file (`:348`), a search that finds exactly its maximum
  has it too (`:414`), and lines behind one that is too long are not searched, without a
  note (`:405`). An extraction into `sast` replaces artifacts, and a directory in an
  artifact's place makes writing it fail.

## 6. The proofs

All theorems hold for every value of the constants that the named assumptions of the
modules allow; TLC evaluates each of them on the instances above. They say:

* the bounds are natural numbers, `None` is outside the sets, the requests of
  `DastServer` and the tasks of `ScanPipeline` are finitely many, a finding belongs to a
  test (`FindingAssumption`), there is at least one scan in `ScanQueue` and one turn in
  `SastServer` and `DastAudit`;
* `Workspace`: limits, defaults and caps are positive, as the constants of the code are;
  an archive is a finite list of named entries, an upload a finite set of files below
  the root none of which is below another, and the numbers a model asks for may be
  negative;
* `ApiRequests`, `Probes`: documents, calls and defaults have the fields their Go types
  have (`DocumentsAssumption`, `CallsAssumption`, `ExecutorAssumption`), and only those
  of a document that can be read; `Cookie` is its own canonical spelling; the payloads a
  service is weak to are some that the plugin has (`ServicesAssumption`; for `cors`,
  which has one payload, in `Origin`, the service is weak there and asks for no `Origin`
  itself); a search in a field and its value finds at least these two words, and none of
  the marks that other plugins look for (`PrivilegedAssumption`).

All invariants and action properties that the runs check are proved. The proofs are
checked by `tlapm` from nothing but the library.

**`DastServer_proofs`.** `TypeCorrect`; `SlotsCorrect` and `PoolImplemented` rest on the
agreement of the semaphore, the queue and the places of the goroutines: a slot that is
released while somebody waits is handed over, so the count alone is not inductive
without "nobody waits while there is room" and "the queue holds exactly the parked
goroutines, each once". The cardinality facts are lemmas about adding, removing and
exchanging one holder. `ReportCorrect` needs two facts of the places: a goroutine has a
row with its own project as long as it lives, and one that is about to write `done` has
its report in the bucket. `FinishedCorrect` and `CancelsCorrect` rest on the history
variable: as long as no two requests for an id were live at once, at most one goroutine
of the id is at a place where it writes or is registered. That a function which a cancel
holds is one of its scan (`GrabbedStep`) needs no more than that the map is right when
it is looked up, and that a goroutine keeps its job.

**`ScanQueue_proofs`.** `QueueCorrect` states `QueuedNotStarted` for any number of
scans, tasks and requests. The inductive invariant says what the tasks between two steps
may still do: only one that saw its scan `new` is going to queue it, no computed status
is `queued` (`QueuedFromNew`), and when a scan has been started although a task that saw
it `new` is still under way, that is known as a crossing (`SeenNew`).

**`SastServer_proofs`.** `OutputCorrect` (finalizeBackstop's promise) and `GateCorrect`
(the upload gate) rest on what the files of a job are at each place of its goroutine,
for any number of jobs that upload to the same keys. Whatever the turns did to the
artifacts, the backstop leaves one missing only where it was blocked, its write failed
or there was nothing to write (`BackstopFills`), and no step comes between it and the
gate. `DeliveryCorrect` and `EndCorrect` rest on the end a goroutine is about to record.

**`ScanPipeline_proofs`**, for any number of handlers and ticks at once, starts,
failures, cancels and restarts. A handler decides on copies, so the invariant `Base`
says of each copy what stays true of it however late it is used: a row that was there is
there (`Grows`), and what an agent, a row or an answer once said to be done is in the
bucket (`Sound`, `RowsSound`). It speaks of one task, row or agent at a time, and a task
that does nothing keeps its part because rows and artifacts only grow (`SoundStays`);
what is left is one lemma per statement of the Manager. From it follow `DoneCorrect`,
since `aggregateStatus` says `done` only of rows that say so (`AggregateSound`) and the
first page of the report comes before the second (`PagesSound`), and `OrderCorrect`,
since a task gets past the gate of a stage only with the artifacts of the one before.
`ClaimCorrect`: a claim that is not served has the task that will serve it. Only the
statements of a start touch that; every other step is shown to be beside the point by
one lemma (`AsideStep`). `RequestCorrect` is a count: the requests sent, the tasks on
their way to one, the claim while it is open and the start while it is still to come are
together at most one (`StartsAreFew`). Without the tasks the count is not inductive: two
that are both past the claim would each send.

**`DastAudit_proofs`.** What the audit can do to the scanner is put into one formula
(`ScanNext`), so that the invariant of the scanner is proved without the audit. It has
five parts. The semaphore counts the tests that hold an element and the wait group those
that have not left; both counts are cardinalities of sets that a step changes by one
test. The loop admits tests in order, which says that the test it is about to start is
not among them. The list has the findings of each test that is past adding, in one block
as the test returned them, and no others (`Whole`). What `Run` returned is what the list
and the counter say now. From "`Wait` passes at zero" follows "no test is under way",
and with it `ResultCorrect`; `QuietCorrect` adds that a scan is under way exactly while
the audit waits for one, and `PoolImplemented` that a blocked loop means a full channel.
`ReportCorrect` is about `consolidate`: after each finding the list has one entry for
each key, test and name, that was seen, with the highest severity seen of it
(`MergeTells`, `ConsolidateTells`), by induction over the findings. The rest of it
(`Kept`) says where a finding is until the audit ends: in a scan that was taken, or with
the scan that is under way.

**`Workspace_proofs`.** `WritesCorrect`: a step changes nothing but directories and what
lies below the place it may write to. It needs that no link is ever on the disk, since a
path that is inside by its names is inside only then. `ExtractionCorrect`: of the
entries before the current one, those that are files have been counted, and each is on
the disk unless a later one of them took its path; when the last entry is behind, that
is what success promises. Both hold for every archive and after any earlier calls, with
paths whose normalisation is left open. `BoundCorrect` needs that the files which the
extraction has added are no more, and no larger, than what it has counted (`Counted`),
which is not an equality: an entry may replace an earlier one, and both were counted.
The sum of the sizes is a fold in the model; `BytesSums` shows that it adds each file
once, in any order. A file that breaks the byte limit is cut one byte behind it, which
is the one byte in `ExtractionIsBounded`. `TypeCorrect` needs what `Clean` leaves of any
path (`CleanPath`). `CutCorrect` is about single answers: what the list, the search and
the file reader return is what there is up to the limit, and the note is there when
there is more.

**`Probes_proofs`**, for any documents, calls, services and number of payloads. It has
five parts.

* *What a request is.* `Assembled` and `Built` follow `buildRequest` through its order
  of overwriting for any order of its maps: whose value is at a place is the last one
  written there. With `PlaceCorrect` the payload is at the parameter of the finding and
  at no other, unless something the caller chose overwrote it, and with `HeadersCorrect`
  the caller's headers go out (`Wire`: each request on the wire is one that the plugin
  builds at a parameter of the test). `Reaches` shows that the insert points give each
  parameter in scope a round.
* *Where a test goes* (`Shape`, `Onward`). Every request goes up in the rank (parameter,
  stage, payload) in a lexicographic order of three (`StepRank`): `AdvanceCorrect`.
* *What the answers tell.* A reply is a function of the request and what is true of the
  service, unless a fault was spent on it. So a signature, a delay, a field or a page
  that is different tells of a weakness, or of a case in `Deceived`. The blind tests
  compare answers that were kept, so the invariant keeps what each may be used for:
  every answer of `idor`, disturbed or not, names an identifier that is known (`Ids`), a
  word that `mass_assignment` finds is there for a reason (`WordOf`), the pages of
  `sqli` have the length of a true or of no condition (`Pages`), and a test that
  confirms a delay has seen a first one that the service or a fault caused (`Late`).
  Together: `AlarmCorrect`.
* *What a test finds.* As long as nothing disturbs it, each parameter behind it that is
  weak has been reported (`Passed`), and at the one it is looking at no payload it has
  tried was effective (`Hunting`); for `idor`, the answers kept are exactly those of the
  identifiers tried (`Catalog`). At the end nothing is left: `MissCorrect`. The plugins
  with a single request are `Finished`.
* *Types* (`TypeCorrect`), which need that a finding's number is a payload of its
  plugin.

**`Induction`.** The library's rules for induction take an operator as a parameter,
which the provers cannot instantiate. The module states them of sets instead: a set of
numbers that is not empty has a least one, by the well-foundedness of the subsets of
finite sets that the library proves (`LeastNumber`), hence `Numbers`, `FiniteParts` for
finite sets, `Recursion` for functions that are defined by recursion, the sums of finite
sets and what `FlattenSeq` has. This is how the proofs know what a recursive function or
a fold of the library computes on every input.

Only model-checked: `EveryScanSettles`, `ReportSettles`, `QueueDrains`,
`EndsAreNoticed`, `JobSettles`, `AuditEnds`. They are stated with `~>` and need
fairness, whose proofs need `ENABLED`, which is out of the prover's reach. The three
runs that end in a violation have no theorem.

## 7. Not modelled

* Formatting, prompts, HTML and PDF text; the wording of findings.
* The decoding of JSON, YAML and archives, regular expressions, and `net/http`, as far
  as the modules do not say what they deliver.
* The content of a model's answers: a turn may answer anything.
* Authentication, dashboards, the browser page, scripts for deployment.
* mysql2's pool: `claimAgentJobIds` uses a connection after it has released it and
  releases it twice. What that does is decided in a library that is not here; the claim
  is taken as the atomic UPDATE that it is meant to be.
* What a scan does after a second start (section 5), and its `stats.json`, `report.json`
  and PDFs.
* A `;` in the payload of a cookie, which would end its value, and a `Host` header,
  which `net/http` takes from elsewhere.
* Parts that are planned, below.

## 8. The plan

In this order, the most important behaviour first. Done: `DastServer` with
`BoundedPool`, `ScanPipeline`, `ScanQueue`, `SastServer`, `Scanner`, `DastAudit`, `Probes` with
`ApiRequests`, `Workspace`, and the proofs of section 6.

1. `ReportJob` (`AgentReport/server.js`, `lib`): single writes of the job, the PDFs, two
   requests for one id; shown to implement the report agent of `ScanPipeline`.
2. `Intake` (`upload.js`, `services/scan.js`, `dataplane.js`) and the skills copy.
3. Abstract specifications: one of a job's life (open, one end, recorded) that
   `SastServer` and `DastServer` implement up to their findings, and one of the
   stages that `ScanPipeline` implements; the invariants of section 6 are what
   their step simulations need.
