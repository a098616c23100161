---------------------------- MODULE ScanPipeline ----------------------------
(***************************************************************************)
(* One scan in the Manager (Manager/lib/agents/orchestrator.js): its       *)
(* ScanRecord, its rows in the tables sast, dast and report, and the       *)
(* request handlers and background ticks that move it through SAST -> DAST *)
(* -> Report.  The Manager is one Node process, but every await lets       *)
(* another handler run: a handler is a task, and each of its statements    *)
(* between two awaits is one action.  The agents write the same rows; they *)
(* are reduced here to what they do to the rows and to the bucket.         *)
(*                                                                         *)
(* A scan has at most one row per table, so a job id is identified with    *)
(* the row it leads to; what is kept of the three id columns is whether    *)
(* they are set.  A status is its class under normalizeStatus ("process"   *)
(* is "progress", "failed" is "fail").  Other scans and the queue are in   *)
(* ScanQueue.                                                              *)
(***************************************************************************)
EXTENDS Naturals, FiniteSets

CONSTANTS
    Tasks,        \* handlers and ticks that can be in progress at once
    MaxRuns,      \* bound: POST /run requests
    MaxEvents     \* bound: cancels, reruns of the report, jobs that fail, jobs that
                  \* are refused or whose start goes unanswered, and restarts of
                  \* the Manager or of an agent, together

ASSUME BoundsAssumption ==
    /\ IsFiniteSet(Tasks)
    /\ MaxRuns \in Nat
    /\ MaxEvents \in Nat

Stages == {"sast", "dast", "report"}
Terminal == {"done", "fail", "cancel"}
RowStatuses == {"absent", "new", "progress"} \cup Terminal
ScanStatuses == {"new", "queued", "progress"} \cup Terminal

\* What AgentReport puts into the bucket, in this order.  Its stats.json, report.json
\* and PDFs come later and are left out: no handler here looks for them, and a PDF
\* that could not be made does not change how the job ends.
Pages == {"highlevel", "detail"}
Objects == {"sast", "dast"} \cup Pages

\* An agent's job: asked for, at work, its artifacts uploaded, over, or ended by a
\* failure or a restart.  AgentReport's is where its last upload has brought it.
Busy == {"accepted", "working", "saved", "rendering"} \cup Pages
AgentStates == Busy \cup {"idle", "over", "broken"}

VARIABLES
    record,     \* the ScanRecord: status, ids set, the two claims
    row,        \* the status of the scan's row in each table
    agent,      \* what each agent does about the scan
    artifacts,  \* what is in the bucket: for SAST and DAST the stage, for the
                \* report each page
    task,       \* the handlers
    sent,       \* POST /run requests sent to AgentDAST
    used,       \* how often each bounded event has happened
    restarted   \* history: a process has restarted

vars == <<record, row, agent, artifacts, task, sent, used, restarted>>

Record == [status : ScanStatuses, sastid : BOOLEAN, jobids : BOOLEAN,
           dast_triggered : BOOLEAN, report_triggered : BOOLEAN]

\* Where a task is.  "load" and "ids" are syncScanJobIds, after which the task
\* goes on at its field then.
Places == {"idle", "claim", "enqueue", "jobs", "send_sast", "adopt", "answer", "load", "ids",
           "check", "ask", "write", "read", "artifacts", "reconciled", "settle",
           "dast_gate", "dast_check", "dast_claim", "dast_mark", "send_dast",
           "report_gate", "report_check", "report_failed", "report_reset",
           "report_untrigger", "report_claim", "report_mark", "send_report",
           "cancel", "cancel_record", "rerun_gate", "rerun_row", "rerun_record"}

Task == [pc : Places, then : Places, stage : Stages, remote : RowStatuses,
         seen : [Stages -> RowStatuses], prev : ScanStatuses,
         sastid : BOOLEAN, jobids : BOOLEAN]

NothingSeen == [s \in Stages |-> "absent"]

Idle == [pc |-> "idle", then |-> "idle", stage |-> "sast", remote |-> "absent",
         seen |-> NothingSeen, prev |-> "new",
         sastid |-> FALSE, jobids |-> FALSE]

Init ==
    /\ record = [status |-> "new", sastid |-> FALSE, jobids |-> FALSE,
                 dast_triggered |-> FALSE, report_triggered |-> FALSE]
    /\ row = [s \in Stages |-> "absent"]
    /\ agent = [s \in Stages |-> "idle"]
    /\ artifacts = {}
    /\ task = [t \in Tasks |-> Idle]
    /\ sent = 0
    /\ used = [runs |-> 0, events |-> 0]
    /\ restarted = FALSE

-----------------------------------------------------------------------------
(* Steps of a task *)

\* A task that goes to syncScanJobIds and on to the place p.
Sync(p) == [Idle EXCEPT !.pc = "load", !.then = p]

\* A task that has left its handler.
Return(t) == task' = [task EXCEPT ![t] = Idle]

Goto(t, p) == task' = [task EXCEPT ![t].pc = p]

At(t, p) == task[t].pc = p

\* One of the bounded events.
Event == used.events < MaxEvents /\ used' = [used EXCEPT !.events = @ + 1]

\* updateJobRow: writes the status whatever the row says, and nothing when
\* there is no row.
UpdateJobRow(s, status) ==
    row' = IF row[s] = "absent" THEN row ELSE [row EXCEPT ![s] = status]

\* aggregateScanStatus, from the rows as a refresh has seen them.
Mut_Aggregate(seen) ==
    IF seen["sast"] = "done" /\ seen["dast"] = "done" THEN "done" ELSE "progress"
Aggregate(seen) ==
    LET has(v) == \E s \in Stages : seen[s] = v
    IN  CASE has("fail") -> "fail"
          [] ~has("fail") /\ has("cancel") -> "cancel"
          [] \A s \in Stages : seen[s] = "done" -> "done"
          [] /\ ~has("fail") /\ ~has("cancel")
             /\ \/ has("progress")
                \/ seen["sast"] = "done" /\ seen["dast"] = "new"
                \/ seen["sast"] = "done" /\ seen["dast"] = "done" /\ seen["report"] = "new"
                \/ seen["sast"] = "new" -> "progress"
          [] OTHER -> "new"

\* The rows refreshScanRecordStatus makes up for stages that have none yet.
WithWaiting(seen) ==
    LET d == IF seen["dast"] = "absent" /\ seen["sast"] = "done" THEN "new" ELSE seen["dast"]
        r == IF seen["report"] = "absent" /\ d = "done" THEN "new" ELSE seen["report"]
    IN  [seen EXCEPT !["dast"] = d, !["report"] = r]

-----------------------------------------------------------------------------
(* POST /run: startScanPipeline *)

\* The checks of the route and of startScanPipeline before the claim.
RunScan(t) ==
    /\ At(t, "idle")
    /\ used.runs < MaxRuns
    /\ record.status \in {"new", "queued"}
    /\ ~record.sastid
    /\ used' = [used EXCEPT !.runs = @ + 1]
    /\ task' = [task EXCEPT ![t].pc = "claim", ![t].prev = record.status]
    /\ UNCHANGED <<record, row, agent, artifacts, sent, restarted>>

\* Bound: the scan is started once.  A second start (a refresh has put the status
\* back to new, and a request was past its checks before) would INSERT second rows
\* beside the first; a scan is followed up to there.
Unstarted == row["dast"] = "absent" /\ \A t \in Tasks : ~At(t, "jobs")

\* The first transaction, when no other scan is active (ScanQueue has the other
\* case): the scan is claimed unless its status has changed since the checks.
Claim(t) ==
    /\ At(t, "claim")
    /\ \/ /\ record.status \in {"new", "queued"}
          /\ Unstarted
          /\ record' = [record EXCEPT !.status = "progress"]
          /\ task' = [task EXCEPT ![t] = [Idle EXCEPT !.pc = "jobs"]]
       \/ /\ record.status \notin {"new", "queued"}
          /\ IF task[t].prev = "new" THEN Goto(t, "enqueue") ELSE Return(t)
          /\ UNCHANGED record
    /\ UNCHANGED <<row, agent, artifacts, sent, used, restarted>>

\* enqueueScan, for a scan that could not be claimed.
Enqueue(t) ==
    /\ At(t, "enqueue")
    /\ record' = IF record.status = "new" THEN [record EXCEPT !.status = "queued"] ELSE record
    /\ Return(t)
    /\ UNCHANGED <<row, agent, artifacts, sent, used, restarted>>

\* The second transaction: the rows of DAST and Report, and the ids.
PersistJobs(t) ==
    /\ At(t, "jobs")
    /\ row' = [row EXCEPT !["dast"] = "new", !["report"] = "new"]
    /\ record' = [status |-> "progress", sastid |-> TRUE, jobids |-> TRUE,
                  dast_triggered |-> FALSE, report_triggered |-> FALSE]
    /\ Goto(t, "send_sast")
    /\ UNCHANGED <<agent, artifacts, sent, used, restarted>>

\* startAgentJob("sast"): AgentSAST makes a row of its own and answers "new".
\* A request that is refused, or whose answer is lost, finds no row under the
\* id the Manager chose and changes none.
SendSast(t) ==
    /\ At(t, "send_sast")
    /\ \/ /\ row' = [row EXCEPT !["sast"] = "new"]
          /\ agent' = [agent EXCEPT !["sast"] = "accepted"]
          /\ \/ /\ task' = [task EXCEPT ![t].pc = "adopt", ![t].remote = "new"]
                /\ UNCHANGED used
             \/ /\ task' = [task EXCEPT ![t] = Sync("check")]
                /\ Event
       \/ /\ task' = [task EXCEPT ![t] = Sync("check")]
          /\ Event
          /\ UNCHANGED <<row, agent>>
    /\ UNCHANGED <<record, artifacts, sent, restarted>>

\* The agent's id replaces the one the Manager chose.
AdoptSastId(t) ==
    /\ At(t, "adopt")
    /\ record' = [record EXCEPT !.sastid = TRUE]
    /\ Goto(t, "answer")
    /\ UNCHANGED <<row, agent, artifacts, sent, used, restarted>>

\* The end of startAgentJob: the status of the answer is written to the row.
\* SAST's caller goes on to a refresh; DAST's goes on to the report.
Answer(t) ==
    /\ At(t, "answer")
    /\ UpdateJobRow(task[t].stage, task[t].remote)
    /\ task' = [task EXCEPT ![t] = CASE task[t].stage = "sast" -> Sync("check")
                                     [] task[t].stage = "dast" -> Sync("report_gate")
                                     [] task[t].stage = "report" -> Idle]
    /\ UNCHANGED <<record, agent, artifacts, sent, used, restarted>>

-----------------------------------------------------------------------------
(* syncScanJobIds *)

\* getScanRecord: what the task knows of the record until it loads it again (the
\* status only where it is used).  When the ids are set the lookups of syncScanJobIds only confirm them.
Load(t, p) ==
    task' = [task EXCEPT ![t] =
                [Idle EXCEPT !.pc = IF record.sastid /\ record.jobids THEN p ELSE "ids",
                             !.then = IF record.sastid /\ record.jobids THEN "idle" ELSE p,
                             !.prev = IF p \in {"check", "cancel"} THEN record.status ELSE "new",
                             !.sastid = record.sastid, !.jobids = record.jobids]]

\* GET /:id/status, or a background tick that has found the scan among the
\* open ones: refreshScanRecordStatus.  (A tick first calls syncJobFromAgent
\* for each open row, which is what the refresh does again.)
Refresh(t) ==
    /\ At(t, "idle")
    /\ Load(t, "check")
    /\ UNCHANGED <<record, row, agent, artifacts, sent, used, restarted>>

LoadRecord(t) ==
    /\ At(t, "load")
    /\ Load(t, task[t].then)
    /\ UNCHANGED <<record, row, agent, artifacts, sent, used, restarted>>

\* The three lookups and the UPDATE of the ids, when they differ from what was
\* loaded: an id stays, or the row found provides it.
SyncIds(t) ==
    /\ At(t, "ids")
    /\ LET sastid == task[t].sastid \/ row["sast"] # "absent"
           jobids == task[t].jobids \/ row["dast"] # "absent"
       IN  /\ record' = IF sastid # task[t].sastid \/ jobids # task[t].jobids
                        THEN [record EXCEPT !.sastid = sastid, !.jobids = jobids]
                        ELSE record
           /\ task' = [task EXCEPT ![t].pc = task[t].then, ![t].then = "idle",
                                   ![t].sastid = sastid, ![t].jobids = jobids]
    /\ UNCHANGED <<row, agent, artifacts, sent, used, restarted>>

-----------------------------------------------------------------------------
(* refreshScanRecordStatus and syncJobFromAgent, stage by stage *)

HasId(t, s) == IF s = "sast" THEN task[t].sastid ELSE task[t].jobids

\* The row is read into the task and the next stage is taken up.
See(t) ==
    LET s == task[t].stage
    IN  task' = [task EXCEPT ![t].seen[s] = row[s],
                             ![t].remote = "absent",
                             ![t].pc = IF s = "report" THEN "artifacts" ELSE "check",
                             ![t].stage = IF s = "sast" THEN "dast" ELSE "report"]

\* The row is read; only one that is not over is asked about.  (Where nothing
\* is written, reading the row once stands for reading it twice.)
CheckRow(t) ==
    /\ At(t, "check")
    /\ LET s == task[t].stage
       IN  IF HasId(t, s) /\ row[s] \in {"new", "progress"} THEN Goto(t, "ask") ELSE See(t)
    /\ UNCHANGED <<record, row, agent, artifacts, sent, used, restarted>>

\* GET /status: the agent answers with the row it reads, or the call fails.
AskAgent(t) ==
    /\ At(t, "ask")
    /\ \/ task' = [task EXCEPT ![t].pc = "write", ![t].remote = row[task[t].stage]]
       \/ See(t)
    /\ UNCHANGED <<record, row, agent, artifacts, sent, used, restarted>>

\* The answer is written to the row.
WriteBack(t) ==
    /\ At(t, "write")
    /\ UpdateJobRow(task[t].stage, task[t].remote)
    /\ task' = [task EXCEPT ![t].pc = "read", ![t].remote = "absent"]
    /\ UNCHANGED <<record, agent, artifacts, sent, used, restarted>>

ReadRow(t) ==
    /\ At(t, "read")
    /\ See(t)
    /\ UNCHANGED <<record, row, agent, artifacts, sent, used, restarted>>

\* loadScanReports: one page of the two is enough for it.
ReportReady == Pages \cap artifacts # {}

\* reconcileReportFromArtifacts: a report that is in the bucket is done, whatever
\* became of the agent that made it, or still makes it.  (What is in the bucket
\* stays there: that the UPDATE comes after the lookup makes no difference.)
Mut_ReconcileReport(t) ==
    /\ At(t, "artifacts")
    /\ Goto(t, "settle")
    /\ UNCHANGED <<record, row, agent, artifacts, sent, used, restarted>>
ReconcileReport(t) ==
    /\ At(t, "artifacts")
    /\ \/ /\ task[t].seen["report"] \in {"new", "progress"}
          /\ ReportReady
          /\ UpdateJobRow("report", "done")
          /\ Goto(t, "reconciled")
       \/ /\ task[t].seen["report"] \notin {"new", "progress"} \/ ~ReportReady
          /\ Goto(t, "settle")
          /\ UNCHANGED row
    /\ UNCHANGED <<record, agent, artifacts, sent, used, restarted>>

\* The row is read again after that.
ReadReconciled(t) ==
    /\ At(t, "reconciled")
    /\ task' = [task EXCEPT ![t].pc = "settle", ![t].seen["report"] = row["report"]]
    /\ UNCHANGED <<record, row, agent, artifacts, sent, used, restarted>>

\* The status of the scan is recomputed, and written when it differs from the
\* one loaded.  The start of the next stages begins with syncScanJobIds anew.
Settle(t) ==
    /\ At(t, "settle")
    /\ LET seen == WithWaiting(task[t].seen)
           next == Aggregate(seen)
       IN  record' = IF seen # NothingSeen /\ next # task[t].prev
                     THEN [record EXCEPT !.status = next] ELSE record
    /\ task' = [task EXCEPT ![t] = Sync("dast_gate")]
    /\ UNCHANGED <<row, agent, artifacts, sent, used, restarted>>

-----------------------------------------------------------------------------
(* tryStartDastJob *)

Mut_DastGate(t) ==
    /\ At(t, "dast_gate")
    /\ task' = [task EXCEPT ![t] = IF task[t].sastid /\ row["sast"] \notin {"absent", "new"}
                                   THEN [@ EXCEPT !.pc = "dast_check"]
                                   ELSE Sync("report_gate")]
    /\ UNCHANGED <<record, row, agent, artifacts, sent, used, restarted>>
DastGate(t) ==
    /\ At(t, "dast_gate")
    /\ task' = [task EXCEPT ![t] = IF task[t].sastid /\ row["sast"] = "done"
                                   THEN [@ EXCEPT !.pc = "dast_check"]
                                   ELSE Sync("report_gate")]
    /\ UNCHANGED <<record, row, agent, artifacts, sent, used, restarted>>

\* alreadyRunning: a row that has left "new" ends the attempt.
DastCheck(t) ==
    /\ At(t, "dast_check")
    /\ task' = [task EXCEPT ![t] = IF row["dast"] \in {"absent", "new"}
                                   THEN [@ EXCEPT !.pc = "dast_claim"]
                                   ELSE Sync("report_gate")]
    /\ UNCHANGED <<record, row, agent, artifacts, sent, used, restarted>>

\* UPDATE ... SET dast_triggered = 1 WHERE dast_triggered = 0: one task wins.
Mut_DastClaim(t) ==
    /\ At(t, "dast_claim")
    /\ record' = [record EXCEPT !.dast_triggered = TRUE]
    /\ Goto(t, "dast_mark")
    /\ UNCHANGED <<row, agent, artifacts, sent, used, restarted>>
DastClaim(t) ==
    /\ At(t, "dast_claim")
    /\ \/ /\ record.dast_triggered
          /\ task' = [task EXCEPT ![t] = Sync("report_gate")]
          /\ UNCHANGED record
       \/ /\ ~record.dast_triggered
          /\ record' = [record EXCEPT !.dast_triggered = TRUE]
          /\ task' = [task EXCEPT ![t] = IF task[t].jobids \/ row["dast"] # "absent"
                                         THEN [@ EXCEPT !.pc = "dast_mark"]
                                         ELSE Sync("report_gate")]
    /\ UNCHANGED <<row, agent, artifacts, sent, used, restarted>>

Mut_DastMark(t) ==
    /\ At(t, "dast_mark")
    /\ row' = IF row["dast"] = "new" THEN [row EXCEPT !["dast"] = "progress"] ELSE row
    /\ IF row["dast"] = "new" THEN Goto(t, "send_dast") ELSE Return(t)
    /\ UNCHANGED <<record, agent, artifacts, sent, used, restarted>>
DastMark(t) ==
    /\ At(t, "dast_mark")
    /\ row' = IF row["dast"] = "new" THEN [row EXCEPT !["dast"] = "progress"] ELSE row
    /\ Goto(t, "send_dast")
    /\ UNCHANGED <<record, agent, artifacts, sent, used, restarted>>

\* The answer of an agent that took the job: it arrives, or it is lost; and the
\* end of a request that the agent refuses or that does not reach it.
Unanswered(t, s) ==
    /\ task' = [task EXCEPT ![t].pc = "answer", ![t].stage = s, ![t].remote = "fail"]
    /\ Event

Answered(t, s, status) ==
    \/ /\ task' = [task EXCEPT ![t].pc = "answer", ![t].stage = s, ![t].remote = status]
       /\ UNCHANGED used
    \/ Unanswered(t, s)

\* startAgentJob("dast").  AgentDAST takes a row that is not over and answers
\* without a status, which is read as "new"; a refusal, an agent that cannot be
\* reached or a lost answer is written as "fail".
SendDast(t) ==
    /\ At(t, "send_dast")
    /\ sent' = sent + 1
    /\ \/ /\ row["dast"] \in {"new", "progress"}
          /\ agent' = [agent EXCEPT !["dast"] = "accepted"]
          /\ Answered(t, "dast", "new")
       \/ /\ row["dast"] \notin {"new", "progress"}
          /\ task' = [task EXCEPT ![t].pc = "answer", ![t].stage = "dast", ![t].remote = "fail"]
          /\ UNCHANGED <<agent, used>>
       \/ /\ UNCHANGED agent
          /\ Unanswered(t, "dast")
    /\ UNCHANGED <<record, row, artifacts, restarted>>

-----------------------------------------------------------------------------
(* tryStartReportJob *)

ReportGate(t) ==
    /\ At(t, "report_gate")
    /\ \/ /\ task[t].jobids
          /\ row["dast"] = "done"
          /\ Goto(t, "report_check")
       \/ /\ ~(task[t].jobids /\ row["dast"] = "done")
          /\ Return(t)
    /\ UNCHANGED <<record, row, agent, artifacts, sent, used, restarted>>

\* alreadyRunning: only a row that is new or has failed goes on.
ReportCheck(t) ==
    /\ At(t, "report_check")
    /\ \/ /\ row["report"] \notin {"absent", "new", "fail"}
          /\ Return(t)
       \/ /\ row["report"] \in {"absent", "new", "fail"}
          /\ Goto(t, "report_failed")
    /\ UNCHANGED <<record, row, agent, artifacts, sent, used, restarted>>

\* A report that was seen to have failed ...
ReportFailed(t) ==
    /\ At(t, "report_failed")
    /\ Goto(t, IF row["report"] = "fail" THEN "report_reset" ELSE "report_claim")
    /\ UNCHANGED <<record, row, agent, artifacts, sent, used, restarted>>

\* ... is put back to "new", whatever its row says by then, ...
ReportReset(t) ==
    /\ At(t, "report_reset")
    /\ UpdateJobRow("report", "new")
    /\ Goto(t, "report_untrigger")
    /\ UNCHANGED <<record, agent, artifacts, sent, used, restarted>>

\* ... and its claim is given back.
ReportUntrigger(t) ==
    /\ At(t, "report_untrigger")
    /\ record' = [record EXCEPT !.report_triggered = FALSE]
    /\ Goto(t, "report_claim")
    /\ UNCHANGED <<row, agent, artifacts, sent, used, restarted>>

ReportClaim(t) ==
    /\ At(t, "report_claim")
    /\ record' = [record EXCEPT !.report_triggered = TRUE]
    /\ \/ /\ ~record.report_triggered
          /\ Goto(t, "report_mark")
       \/ /\ record.report_triggered
          /\ Return(t)
    /\ UNCHANGED <<row, agent, artifacts, sent, used, restarted>>

ReportMark(t) ==
    /\ At(t, "report_mark")
    /\ row' = IF row["report"] = "new" THEN [row EXCEPT !["report"] = "progress"] ELSE row
    /\ Goto(t, "send_report")
    /\ UNCHANGED <<record, agent, artifacts, sent, used, restarted>>

\* startAgentJob("report").  AgentReport writes the row first and starts a
\* generation only when it knows of none.
SendReport(t) ==
    /\ At(t, "send_report")
    /\ \/ /\ row' = [row EXCEPT !["report"] = "progress"]
          /\ agent' = IF agent["report"] \in Busy THEN agent
                      ELSE [agent EXCEPT !["report"] = "accepted"]
          /\ Answered(t, "report", "progress")
       \/ /\ UNCHANGED <<row, agent>>
          /\ Unanswered(t, "report")
    /\ UNCHANGED <<record, artifacts, sent, restarted>>

-----------------------------------------------------------------------------
(* POST /cancel: no agent is told.  DAST and Report are cancelled in their   *)
(* rows only, and AgentSAST has no route for the path that is called.        *)

CancelScan(t) ==
    /\ At(t, "idle")
    /\ Event
    /\ Load(t, "cancel")
    /\ UNCHANGED <<record, row, agent, artifacts, sent, restarted>>

\* cancelAgentJob for one stage; a queued scan has none to cancel.
CancelStage(t) ==
    /\ At(t, "cancel")
    /\ LET s == task[t].stage
       IN  /\ IF task[t].prev # "queued" /\ HasId(t, s)
              THEN UpdateJobRow(s, "cancel") ELSE UNCHANGED row
           /\ task' = [task EXCEPT
                          ![t].pc = IF s = "report" \/ task[t].prev = "queued"
                                    THEN "cancel_record" ELSE "cancel",
                          ![t].stage = IF s = "sast" THEN "dast" ELSE "report"]
    /\ UNCHANGED <<record, agent, artifacts, sent, used, restarted>>

Mut_CancelRecord(t) ==
    /\ At(t, "cancel_record")
    /\ record' = [record EXCEPT !.status = "cancelled"]
    /\ Return(t)
    /\ UNCHANGED <<row, agent, artifacts, sent, used, restarted>>
CancelRecord(t) ==
    /\ At(t, "cancel_record")
    /\ record' = [record EXCEPT !.status = "cancel"]
    /\ Return(t)
    /\ UNCHANGED <<row, agent, artifacts, sent, used, restarted>>

-----------------------------------------------------------------------------
(* POST /report/rerun: rerunReportJob *)

RerunReport(t) ==
    /\ At(t, "idle")
    /\ Event
    /\ Load(t, "rerun_gate")
    /\ UNCHANGED <<record, row, agent, artifacts, sent, restarted>>

RerunGate(t) ==
    /\ At(t, "rerun_gate")
    /\ \/ /\ row["dast"] = "done"
          /\ task[t].jobids \/ row["report"] # "absent"
          /\ Goto(t, "rerun_row")
       \/ /\ ~(row["dast"] = "done" /\ (task[t].jobids \/ row["report"] # "absent"))
          /\ Return(t)
    /\ UNCHANGED <<record, row, agent, artifacts, sent, used, restarted>>

RerunRow(t) ==
    /\ At(t, "rerun_row")
    /\ UpdateJobRow("report", "new")
    /\ Goto(t, "rerun_record")
    /\ UNCHANGED <<record, agent, artifacts, sent, used, restarted>>

RerunRecord(t) ==
    /\ At(t, "rerun_record")
    /\ record' = [record EXCEPT !.status = "progress", !.report_triggered = FALSE]
    /\ task' = [task EXCEPT ![t] = Sync("report_gate")]
    /\ UNCHANGED <<row, agent, artifacts, sent, used, restarted>>

-----------------------------------------------------------------------------
(* The agents *)

\* The first write of the goroutine or job: the row is in progress.
BeginWork(s) ==
    /\ agent[s] = "accepted"
    /\ agent' = [agent EXCEPT ![s] = "working"]
    /\ row' = [row EXCEPT ![s] = "progress"]
    /\ UNCHANGED <<record, artifacts, task, sent, used, restarted>>

\* Progress notes: AgentSAST's leave the status alone, AgentDAST's write
\* "progress" over whatever is there.
NoteProgress(s) ==
    /\ s = "dast" /\ agent[s] = "working"
    /\ row[s] # "progress"
    /\ row' = [row EXCEPT ![s] = "progress"]
    /\ UNCHANGED <<record, agent, artifacts, task, sent, used, restarted>>

\* AgentSAST and AgentDAST: the stage counts as delivered once all of it is there.
SaveArtifacts(s) ==
    /\ s # "report"
    /\ agent[s] = "working"
    /\ agent' = [agent EXCEPT ![s] = "saved"]
    /\ artifacts' = artifacts \cup {s}
    /\ UNCHANGED <<record, row, task, sent, used, restarted>>

\* AgentReport puts one page after the other.
NextPut == [working |-> "highlevel", highlevel |-> "detail"]

PutReport(s) ==
    /\ s = "report"
    /\ agent[s] \in DOMAIN NextPut
    /\ agent' = [agent EXCEPT ![s] = NextPut[@]]
    /\ artifacts' = artifacts \cup {NextPut[agent[s]]}
    /\ UNCHANGED <<record, row, task, sent, used, restarted>>

\* Before it renders the PDFs the row is in progress again, whatever it was.
NoteRendering(s) ==
    /\ s = "report"
    /\ agent[s] = "detail"
    /\ agent' = [agent EXCEPT ![s] = "rendering"]
    /\ row' = [row EXCEPT ![s] = "progress"]
    /\ UNCHANGED <<record, artifacts, task, sent, used, restarted>>

FinishWork(s) ==
    /\ agent[s] = IF s = "report" THEN "rendering" ELSE "saved"
    /\ agent' = [agent EXCEPT ![s] = "over"]
    /\ row' = [row EXCEPT ![s] = "done"]
    /\ UNCHANGED <<record, artifacts, task, sent, used, restarted>>

\* AgentSAST and AgentReport can fail before their first write, AgentReport also
\* between any two of its uploads.
FailWork(s) ==
    /\ \/ agent[s] = "working"
       \/ s # "dast" /\ agent[s] = "accepted"
       \/ s = "report" /\ agent[s] \in Busy
    /\ Event
    /\ agent' = [agent EXCEPT ![s] = "broken"]
    /\ row' = [row EXCEPT ![s] = "fail"]
    /\ UNCHANGED <<record, artifacts, task, sent, restarted>>

\* An agent restarts: its work is gone, the row stays as it is.
AgentRestart(s) ==
    /\ agent[s] \in Busy
    /\ Event
    /\ restarted' = TRUE
    /\ agent' = [agent EXCEPT ![s] = "broken"]
    /\ UNCHANGED <<record, row, artifacts, task, sent>>

\* The Manager restarts: its handlers are gone.
ManagerRestart ==
    /\ \E t \in Tasks : ~At(t, "idle")
    /\ Event
    /\ restarted' = TRUE
    /\ task' = [t \in Tasks |-> Idle]
    /\ UNCHANGED <<record, row, agent, artifacts, sent>>

-----------------------------------------------------------------------------
TaskStep(t) ==
    \/ Claim(t) \/ Enqueue(t) \/ PersistJobs(t) \/ SendSast(t) \/ AdoptSastId(t) \/ Answer(t)
    \/ LoadRecord(t) \/ SyncIds(t)
    \/ CheckRow(t) \/ AskAgent(t) \/ WriteBack(t) \/ ReadRow(t)
    \/ ReconcileReport(t) \/ ReadReconciled(t) \/ Settle(t)
    \/ DastGate(t) \/ DastCheck(t) \/ DastClaim(t) \/ DastMark(t) \/ SendDast(t)
    \/ ReportGate(t) \/ ReportCheck(t) \/ ReportFailed(t) \/ ReportReset(t)
    \/ ReportUntrigger(t) \/ ReportClaim(t) \/ ReportMark(t) \/ SendReport(t)
    \/ CancelStage(t) \/ CancelRecord(t)
    \/ RerunGate(t) \/ RerunRow(t) \/ RerunRecord(t)

AgentStep(s) ==
    \/ BeginWork(s) \/ NoteProgress(s) \/ SaveArtifacts(s)
    \/ PutReport(s) \/ NoteRendering(s) \/ FinishWork(s) \/ FailWork(s)

Next ==
    \/ \E t \in Tasks : \/ RunScan(t) \/ Refresh(t) \/ CancelScan(t) \/ RerunReport(t)
                        \/ TaskStep(t)
    \/ \E s \in Stages : AgentStep(s) \/ AgentRestart(s)
    \/ ManagerRestart

Spec == Init /\ [][Next]_vars

\* The timer of startBackgroundSync never stops, every call of an agent ends
\* after AGENT_REQUEST_TIMEOUT_MS at the latest, and the database answers.
FairSpec == Spec /\ \A t \in Tasks : WF_vars(Refresh(t)) /\ WF_vars(TaskStep(t))

-----------------------------------------------------------------------------
(* Properties *)

\* Every variable has its type.
TypeOK ==
    /\ record \in Record
    /\ row \in [Stages -> RowStatuses]
    /\ agent \in [Stages -> AgentStates]
    /\ artifacts \subseteq Objects
    /\ task \in [Tasks -> Task]
    /\ sent \in Nat
    /\ used \in [runs : 0..MaxRuns, events : 0..MaxEvents]
    /\ restarted \in BOOLEAN

\* SAST -> DAST -> Report: an agent is set to work only when the artifacts of
\* the stage before it are in the bucket, however stale the row, the answer or
\* the copy was that a task decided on.
PipelineOrder ==
    /\ agent["dast"] # "idle" => "sast" \in artifacts
    /\ agent["report"] # "idle" => "dast" \in artifacts

\* However many refreshes see SAST done at once, and whatever other requests for the
\* scan are under way, its start asks AgentDAST for one audit: a second POST /run for
\* a row still open would start a second audit of the target beside the first.  (A
\* second start, behind the bound Unstarted, opens the claim again and may do that.)
DastRequestedOnce == sent <= 1

\* A scan that says done has delivered the artifacts of SAST and DAST and the page
\* its result_path names.  The second page is there too unless AgentReport is still
\* at work on it or has broken down: the row is reconciled as soon as there is one
\* page.  (It says nothing of the PDFs, which may be missing for good.)
DoneIsDelivered ==
    record.status = "done" =>
        /\ {"sast", "dast", "highlevel"} \subseteq artifacts
        /\ Pages \subseteq artifacts \/ agent["report"] \in Busy \cup {"broken"}

\* The claim of the DAST start is never lost: until the request is sent some
\* task is on its way to send it, unless a process restarted.
ClaimIsServed ==
    record.dast_triggered /\ sent = 0 =>
        \/ \E t \in Tasks : task[t].pc \in {"dast_mark", "send_dast"}
        \/ restarted

\* A report of which a page is in the bucket does not stay open for good: the job
\* ends, or a refresh finds the page, even when AgentReport restarted.
ReportSettles == ReportReady ~> row["report"] \in Terminal
=============================================================================
