----------------------------- MODULE ScanQueue -----------------------------
(***************************************************************************)
(* The Manager's queue of scans (Manager/lib/agents/orchestrator.js and    *)
(* routes/scans.js): how scans are claimed, put in the queue, taken from   *)
(* it, cancelled, and how the status of a record follows the jobs.  What   *)
(* the jobs of one scan do to each other is in ScanPipeline; here a scan   *)
(* has one variable for what its three rows amount to.                     *)
(*                                                                         *)
(* Requests and background ticks are tasks; each of their statements       *)
(* between two awaits is an action.                                        *)
(***************************************************************************)
EXTENDS Naturals, FiniteSets

CONSTANTS
    NumScans,    \* scans 1..NumScans, in the order of created_at
    Handlers,    \* request handlers that can be in progress at once
    Ticks,       \* background ticks that can be in progress at once
    MaxBusy,     \* bound: handlers and ticks in progress at once
    MaxRequests  \* bound: requests, and reports that are started again

ASSUME ScansAssumption == NumScans \in Nat \ {0}
ASSUME BoundsAssumption == MaxBusy \in Nat /\ MaxRequests \in Nat
ASSUME TasksAssumption == Handlers \cap Ticks = {}

Scans == 1..NumScans
Tasks == Handlers \cup Ticks
Terminal == {"done", "fail", "cancel"}
Statuses == {"new", "queued", "progress"} \cup Terminal

\* What the rows of a scan amount to under aggregateScanStatus: there are none;
\* those of DAST and Report wait but SAST has none; a job is open; or an end.
Works == {"none", "waiting", "open"} \cup Terminal

VARIABLES
    status,    \* ScanRecord.status
    started,   \* ScanRecord.sastid is set
    work,      \* what the rows of the scan amount to
    task,      \* the handlers and ticks
    crossed,   \* history: scans started behind the back of another start
    requests   \* the requests and restarts so far

vars == <<status, started, work, task, crossed, requests>>

Places == {"idle", "claim", "enqueue", "jobs", "send", "load", "see", "settle",
           "dequeue", "pick", "check", "cancel", "cancel_rows", "cancel_record",
           "rerun_record", "next"}

\* next is the status computed from the rows; todo and last belong to ticks: the
\* scans still to be refreshed, and whether the last dequeue is under way.
Task == [pc : Places, scan : Scans, prev : Statuses, next : Statuses,
         todo : SUBSET Scans, last : BOOLEAN]

Idle == [pc |-> "idle", scan |-> 1, prev |-> "new", next |-> "new",
         todo |-> {}, last |-> FALSE]

Init ==
    /\ status = [s \in Scans |-> "new"]
    /\ started = [s \in Scans |-> FALSE]
    /\ work = [s \in Scans |-> "none"]
    /\ task = [t \in Tasks |-> Idle]
    /\ crossed = {}
    /\ requests = 0

-----------------------------------------------------------------------------
At(t, p) == task[t].pc = p

\* A handler or tick that can begin.
Free(t) ==
    /\ At(t, "idle")
    /\ Cardinality({u \in Tasks : ~At(u, "idle")}) < MaxBusy

Goto(t, p) == task' = [task EXCEPT ![t].pc = p]

\* Goes on at p with its locals reset: they are not read again.
Leave(t, p) ==
    task' = [task EXCEPT ![t] = [Idle EXCEPT !.pc = p, !.todo = task[t].todo,
                                              !.last = task[t].last]]

\* The end of a handler; a tick goes on with the next scan.
Return(t) ==
    task' = [task EXCEPT ![t] = IF t \in Ticks /\ ~@.last
                                THEN [Idle EXCEPT !.pc = "next", !.todo = task[t].todo]
                                ELSE Idle]

\* getActiveScanId, and the SELECT of the claim: LIMIT 1 finds any of them.
Active == {s \in Scans : status[s] = "progress"}

Queued == {s \in Scans : status[s] = "queued"}

\* A scan that startScanPipeline lets pass its checks.
Mut_CanStart(s) == status[s] \in {"new", "queued"}
CanStart(s) == status[s] \in {"new", "queued"} /\ ~started[s]

-----------------------------------------------------------------------------
(* startScanPipeline *)

\* POST /run and the checks of startScanPipeline.
RunScan(t, s) ==
    /\ Free(t)
    /\ requests < MaxRequests
    /\ CanStart(s)
    /\ requests' = requests + 1
    /\ task' = [task EXCEPT ![t].pc = "claim", ![t].scan = s, ![t].prev = status[s]]
    /\ UNCHANGED <<status, started, work, crossed>>

\* A scan that cannot be claimed: a new one is put in the queue.
NotClaimed(t) ==
    /\ IF task[t].prev = "new" THEN Goto(t, "enqueue") ELSE Return(t)
    /\ UNCHANGED status

\* The first transaction.  Its locking read and its UPDATE are one step: the
\* read locks the rows it passes, so that claims follow one another.
Claim(t) ==
    /\ At(t, "claim")
    /\ LET s == task[t].scan
       IN  \/ /\ Active \ {s} # {}
              /\ NotClaimed(t)
           \/ /\ Active \subseteq {s} \/ s \in Active
              /\ status[s] \notin {"new", "queued"}
              /\ NotClaimed(t)
           \/ /\ Active \subseteq {s}
              /\ status[s] \in {"new", "queued"}
              /\ status' = [status EXCEPT ![s] = "progress"]
              /\ task' = [task EXCEPT ![t].pc = "jobs", ![t].prev = "new"]
    /\ UNCHANGED <<started, work, requests, crossed>>

Enqueue(t) ==
    /\ At(t, "enqueue")
    /\ LET s == task[t].scan
       IN  status' = IF status[s] = "new" THEN [status EXCEPT ![s] = "queued"] ELSE status
    /\ Return(t)
    /\ UNCHANGED <<started, work, requests, crossed>>

\* Tasks that saw the scan new and have not claimed or queued it yet.
Unclaimed(s) ==
    {t \in Tasks : task[t].scan = s /\ task[t].prev = "new"
                     /\ task[t].pc \in {"claim", "enqueue"}}

\* The second transaction: the rows of DAST and Report, the ids, the status.  A
\* second start adds rows to those of the first, which change nothing as yet: of
\* each kind the row that has come furthest counts (JOB_STATUS_ORDER_SQL).
PersistJobs(t) ==
    /\ At(t, "jobs")
    /\ LET s == task[t].scan
       IN  /\ status' = [status EXCEPT ![s] = "progress"]
           /\ started' = [started EXCEPT ![s] = TRUE]
           /\ work' = [work EXCEPT ![s] = IF @ = "none" THEN "waiting" ELSE @]
           /\ crossed' = IF Unclaimed(s) # {} THEN crossed \cup {s} ELSE crossed
    /\ Goto(t, "send")
    /\ UNCHANGED requests

\* The start of SAST: the agent makes its row, or there is none.  A refresh of
\* the scan follows in both cases.
SendSast(t) ==
    /\ At(t, "send")
    /\ LET s == task[t].scan
       IN  \/ work' = [work EXCEPT ![s] = IF @ = "waiting" THEN "open" ELSE @]
           \/ UNCHANGED work
    /\ Goto(t, "load")
    /\ UNCHANGED <<status, started, requests, crossed>>

-----------------------------------------------------------------------------
(* refreshScanRecordStatus *)

\* GET /:id/status.
Refresh(t, s) ==
    /\ Free(t)
    /\ requests < MaxRequests
    /\ requests' = requests + 1
    /\ task' = [task EXCEPT ![t].pc = "load", ![t].scan = s]
    /\ UNCHANGED <<status, started, work, crossed>>

Load(t) ==
    /\ At(t, "load")
    /\ task' = [task EXCEPT ![t].pc = "see", ![t].prev = status[task[t].scan]]
    /\ UNCHANGED <<status, started, work, requests, crossed>>

\* aggregateScanStatus; without rows the status is left alone.
See(t) ==
    /\ At(t, "see")
    /\ LET w == work[task[t].scan]
           next == CASE w = "waiting" -> "new" [] w = "open" -> "progress" [] OTHER -> w
       IN  IF w = "none" THEN Return(t)
           ELSE task' = [task EXCEPT ![t].pc = "settle", ![t].next = next]
    /\ UNCHANGED <<status, started, work, requests, crossed>>

\* The status is written when it differs from the one loaded; the end of a scan
\* that was in progress makes room for the next one.
Settle(t) ==
    /\ At(t, "settle")
    /\ LET s == task[t].scan
           next == task[t].next
       IN  /\ status' = IF next # task[t].prev THEN [status EXCEPT ![s] = next] ELSE status
           /\ IF next \in Terminal /\ task[t].prev = "progress"
              THEN Leave(t, "dequeue") ELSE Return(t)
    /\ UNCHANGED <<started, work, requests, crossed>>

-----------------------------------------------------------------------------
(* tryDequeueNextScan *)

Dequeue(t) ==
    /\ At(t, "dequeue")
    /\ IF Active # {} THEN Return(t) ELSE Goto(t, "pick")
    /\ UNCHANGED <<status, started, work, requests, crossed>>

\* The oldest queued scan.
Pick(t) ==
    /\ At(t, "pick")
    /\ \/ /\ Queued = {}
          /\ Return(t)
       \/ \E s \in Queued :
             /\ \A u \in Queued : s <= u
             /\ task' = [task EXCEPT ![t].pc = "check", ![t].scan = s]
    /\ UNCHANGED <<status, started, work, requests, crossed>>

CheckStart(t) ==
    /\ At(t, "check")
    /\ IF CanStart(task[t].scan)
       THEN task' = [task EXCEPT ![t].pc = "claim", ![t].prev = status[task[t].scan]]
       ELSE Return(t)
    /\ UNCHANGED <<status, started, work, requests, crossed>>

-----------------------------------------------------------------------------
(* POST /cancel *)

CancelScan(t, s) ==
    /\ Free(t)
    /\ requests < MaxRequests
    /\ requests' = requests + 1
    /\ task' = [task EXCEPT ![t].scan = s,
                   ![t].pc = IF status[s] # "queued" /\ started[s]
                             THEN "cancel_rows" ELSE "cancel_record"]
    /\ UNCHANGED <<status, started, work, crossed>>

CancelRows(t) ==
    /\ At(t, "cancel_rows")
    /\ LET s == task[t].scan
       IN  work' = [work EXCEPT ![s] = IF @ = "none" THEN "none" ELSE "cancel"]
    /\ Goto(t, "cancel_record")
    /\ UNCHANGED <<status, started, requests, crossed>>

Mut_CancelRecord(t) ==
    /\ At(t, "cancel_record")
    /\ status' = [status EXCEPT ![task[t].scan] = "cancelled"]
    /\ Leave(t, "dequeue")
    /\ UNCHANGED <<started, work, requests, crossed>>
CancelRecord(t) ==
    /\ At(t, "cancel_record")
    /\ status' = [status EXCEPT ![task[t].scan] = "cancel"]
    /\ Leave(t, "dequeue")
    /\ UNCHANGED <<started, work, requests, crossed>>

-----------------------------------------------------------------------------
(* A report that is made again *)

\* POST /report/rerun of a scan whose DAST is done: the row, then the record.
RerunReport(t, s) ==
    /\ Free(t)
    /\ requests < MaxRequests
    /\ work[s] \in {"done", "fail"}
    /\ requests' = requests + 1
    /\ work' = [work EXCEPT ![s] = "open"]
    /\ task' = [task EXCEPT ![t].pc = "rerun_record", ![t].scan = s]
    /\ UNCHANGED <<status, started, crossed>>

RerunRecord(t) ==
    /\ At(t, "rerun_record")
    /\ status' = [status EXCEPT ![task[t].scan] = "progress"]
    /\ Return(t)
    /\ UNCHANGED <<started, work, requests, crossed>>

\* tryStartReportJob, which every refresh ends with, starts a failed report
\* again, whatever scan is active.  It stands too for the scan that was started
\* twice: a row that is done takes the place of one that failed.
RetryReport(s) ==
    /\ requests < MaxRequests
    /\ work[s] = "fail"
    /\ requests' = requests + 1
    /\ work' = [work EXCEPT ![s] = "open"]
    /\ UNCHANGED <<status, started, task, crossed>>

-----------------------------------------------------------------------------
(* startBackgroundSync, syncAllRunningJobs and the agents *)

\* The scans a tick refreshes: those with an open row, and those in progress.
Mut_Open == {s \in Scans : work[s] \in {"waiting", "open"}}
Open == {s \in Scans : work[s] \in {"waiting", "open"} \/ status[s] = "progress"}

Tick(t) ==
    /\ Free(t)
    /\ task' = [task EXCEPT ![t].pc = "next", ![t].todo = Open]
    /\ UNCHANGED <<status, started, work, requests, crossed>>

\* The next scan of the tick, or the dequeue at its end.
Mut_NextScan(t) ==
    /\ At(t, "next")
    /\ \/ \E s \in task[t].todo :
             task' = [task EXCEPT ![t].pc = "load", ![t].scan = s, ![t].todo = @ \ {s}]
       \/ /\ task[t].todo = {}
          /\ task' = [task EXCEPT ![t] = Idle]
    /\ UNCHANGED <<status, started, work, requests, crossed>>
NextScan(t) ==
    /\ At(t, "next")
    /\ \/ \E s \in task[t].todo :
             task' = [task EXCEPT ![t].pc = "load", ![t].scan = s, ![t].todo = @ \ {s}]
       \/ /\ task[t].todo = {}
          /\ task' = [task EXCEPT ![t].pc = "dequeue", ![t].last = TRUE]
    /\ UNCHANGED <<status, started, work, requests, crossed>>

\* The last job of the scan ends, or one fails.
FinishWork(s) ==
    /\ work[s] = "open"
    /\ \E w \in {"done", "fail"} : work' = [work EXCEPT ![s] = w]
    /\ UNCHANGED <<status, started, task, requests, crossed>>

-----------------------------------------------------------------------------
TaskStep(t) ==
    \/ Claim(t) \/ Enqueue(t) \/ PersistJobs(t) \/ SendSast(t)
    \/ Load(t) \/ See(t) \/ Settle(t)
    \/ Dequeue(t) \/ Pick(t) \/ CheckStart(t)
    \/ CancelRows(t) \/ CancelRecord(t) \/ RerunRecord(t) \/ NextScan(t)

Next ==
    \/ \E t \in Handlers, s \in Scans :
          RunScan(t, s) \/ Refresh(t, s) \/ CancelScan(t, s) \/ RerunReport(t, s)
    \/ \E t \in Ticks : Tick(t)
    \/ \E t \in Tasks : TaskStep(t)
    \/ \E s \in Scans : FinishWork(s) \/ RetryReport(s)

Spec == Init /\ [][Next]_vars

\* The timer never stops, the calls of a task return, and the agents come to an
\* end with their jobs.
FairSpec ==
    /\ Spec
    /\ \A t \in Tasks : WF_vars(TaskStep(t))
    /\ \A t \in Ticks : WF_vars(Tick(t))
    /\ \A s \in Scans : WF_vars(FinishWork(s))

-----------------------------------------------------------------------------
(* Properties *)

\* Every variable has its type.
TypeOK ==
    /\ status \in [Scans -> Statuses]
    /\ started \in [Scans -> BOOLEAN]
    /\ work \in [Scans -> Works]
    /\ task \in [Tasks -> Task]
    /\ crossed \subseteq Scans
    /\ requests \in 0..MaxRequests

\* A scan in the queue has no jobs: one that had would be refused by
\* startScanPipeline each time it is at the head, and block all behind it.  The
\* code keeps to it unless two requests for the scan cross: one saw the scan new,
\* the other started it, and a refresh that found no row of SAST then wrote new
\* over the progress of the claim, which is what the first one's UPDATE waits for.
QueuedNotStarted ==
    \A s \in Scans : status[s] = "queued" /\ started[s] => s \in crossed

\* "queued - runs after the current scan finishes" (Manager/public/js/app.js):
\* every scan in the queue leaves it, started when the scans before it have
\* ended, or cancelled, whatever is asked for again and again, unless requests
\* for some scan crossed as above.
QueueDrains ==
    \A s \in Scans : status[s] = "queued" ~> (status[s] # "queued" \/ crossed # {})

\* A scan whose jobs have ended does not show progress for good: its record
\* would keep the queue waiting.
EndsAreNoticed ==
    \A s \in Scans : work[s] \in Terminal ~> (status[s] # "progress" \/ work[s] = "open")

\* "queued - runs after the current scan finishes" (Manager/public/js/app.js):
\* at most one scan is in progress at a time.
OneActive == Cardinality(Active) <= 1
=============================================================================
