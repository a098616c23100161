------------------------ MODULE ScanPipeline_proofs ------------------------
(***************************************************************************)
(* Proofs about ScanPipeline, for any number of handlers at once, of       *)
(* starts, and of failures, cancels and restarts.                          *)
(*                                                                         *)
(* A handler decides on copies: the ids it loaded, the rows it saw, an     *)
(* answer it holds.  The invariant says of every copy what stays true of   *)
(* it however much later it is used: a row that was there is still there,  *)
(* and what was once said to be done is in the bucket.                     *)
(***************************************************************************)
EXTENDS ScanPipeline, FiniteSetTheorems, TLAPS

-----------------------------------------------------------------------------
(* The inductive invariant *)

\* Where syncScanJobIds may return to.
Returns == {"check", "dast_gate", "report_gate", "cancel", "rerun_gate"}

\* Past the gate of tryStartDastJob, and of tryStartReportJob.
PastDastGate == {"dast_check", "dast_claim", "dast_mark", "send_dast"}
PastReportGate == {"report_check", "report_failed", "report_reset", "report_untrigger",
                   "report_claim", "report_mark", "send_report"}

\* What a row may say done of, when a is in the bucket.
Delivered(s, a) == IF s = "report" THEN Pages \cap a # {} ELSE s \in a

\* What a task k may rely on, with rows r and artifacts a.
Sound(k, r, a) ==
    /\ k.pc \in {"load", "ids"} => k.then \in Returns
    /\ k.pc = "adopt" => k.remote = "new"
    /\ k.pc = "answer" => k.remote \in {"new", "progress", "fail"}
    /\ k.pc = "ask" => r[k.stage] # "absent"
    /\ k.pc = "write" => /\ k.remote # "absent"
                         /\ k.remote = "done" => Delivered(k.stage, a)
    /\ \A s \in Stages : k.seen[s] = "done" => Delivered(s, a)
    /\ k.pc = "send_sast" => r["dast"] # "absent"
    /\ k.pc \in PastDastGate => r["dast"] # "absent" /\ "sast" \in a
    /\ k.pc \in PastReportGate => "dast" \in a

TasksSound == \A t \in Tasks : Sound(task[t], row, artifacts)

\* What AgentReport has uploaded where it is, and never before it started; the first
\* page comes before the second.
PagesSound(g, a) ==
    /\ g["report"] = "idle" => Pages \cap a = {}
    /\ g["report"] \in {"highlevel", "detail", "rendering", "over"} => "highlevel" \in a
    /\ g["report"] \in {"detail", "rendering", "over"} => "detail" \in a
    /\ "detail" \in a => "highlevel" \in a

\* An agent works on a row that is there, and has uploaded what it says it has;
\* a row that says done has its artifacts; the row of SAST comes after the others.
RowsSound(r, g, a) ==
    /\ \A s \in Stages :
          /\ g[s] # "idle" => r[s] # "absent"
          /\ s # "report" => (g[s] = "saved" => s \in a)
          /\ r[s] = "done" => Delivered(s, a)
    /\ r["sast"] # "absent" => r["dast"] # "absent"
    /\ PagesSound(g, a)

\* The starts of DAST that are still to come: the tasks that will write the rows
\* or send the request, the claim while it is open, and the start of the scan while
\* it is still to be claimed.  With the requests already sent they are one at most.
Begun == {"jobs", "dast_mark", "send_dast"}
Starting == {t \in Tasks : task[t].pc \in Begun}
Open == IF row["dast"] # "absent" /\ ~record.dast_triggered THEN 1 ELSE 0
Fresh == IF Unstarted THEN 1 ELSE 0
StartsAreFew == sent + Cardinality(Starting) + Open + Fresh <= 1

\* What the rest is proved from: it speaks of one task, row or agent at a time.
Base == TypeOK /\ TasksSound /\ RowsSound(row, agent, artifacts)

Grows(r1, r2) == \A s \in Stages : r1[s] # "absent" => r2[s] # "absent"

-----------------------------------------------------------------------------
(* A task that goes on *)

\* A task at rest relies on nothing.
LEMMA IdleSound == Idle \in Task /\ \A r, a : Sound(Idle, r, a)
  BY DEF Idle, NothingSeen, Task, Places, Stages, RowStatuses, ScanStatuses, Terminal,
         Sound, PastDastGate, PastReportGate

\* A task at rest, by its fields.
LEMMA IdleFields ==
    /\ Idle.pc = "idle" /\ Idle.stage = "sast" /\ Idle.remote = "absent"
    /\ Idle.seen = NothingSeen
  BY DEF Idle

\* A task that starts a synchronisation relies on nothing yet.
LEMMA SyncSound ==
    ASSUME NEW p \in Returns
    PROVE  Sync(p) \in Task /\ \A r, a : Sound(Sync(p), r, a)
  <1>1. Sync(p) \in Task
    BY IdleSound DEF Sync, Task, Returns, Places
  <1>2. /\ Sync(p).pc = "load" /\ Sync(p).then = p /\ Sync(p).remote = "absent"
        /\ Sync(p).seen = NothingSeen
    BY IdleSound, IdleFields DEF Sync, Task
  <1>3. \A r, a : Sound(Sync(p), r, a)
    BY <1>2 DEF Sound, PastDastGate, PastReportGate, NothingSeen
  <1> QED BY <1>1, <1>3

\* A new place: what it asks for has to be true of the task as it is.
LEMMA GotoSound ==
    ASSUME NEW k \in Task, NEW r, NEW a, Sound(k, r, a),
           NEW p \in Places \ {"load", "ids", "ask", "write", "adopt"},
           p = "answer" => k.remote \in {"new", "progress", "fail"},
           p = "send_sast" => r["dast"] # "absent",
           p \in PastDastGate => r["dast"] # "absent" /\ "sast" \in a,
           p \in PastReportGate => "dast" \in a
    PROVE  [k EXCEPT !.pc = p] \in Task /\ Sound([k EXCEPT !.pc = p], r, a)
  <1>1. [k EXCEPT !.pc = p] \in Task
    BY DEF Task
  <1>2. Sound([k EXCEPT !.pc = p], r, a)
    BY DEF Task, Sound
  <1> QED BY <1>1, <1>2

\* What a task relies on stays true whatever the others do.
LEMMA SoundStays ==
    ASSUME NEW k \in Task, NEW r1, NEW r2, NEW a1, NEW a2,
           Sound(k, r1, a1), Grows(r1, r2), a1 \subseteq a2
    PROVE  Sound(k, r2, a2)
  <1>1. \A s \in Stages : Delivered(s, a1) => Delivered(s, a2)
    BY DEF Delivered
  <1>2. k.stage \in Stages
    BY DEF Task
  <1> QED BY <1>1, <1>2 DEF Sound, Grows, Stages

\* Base after a step of one task: the types, the task itself, and the rows.
LEMMA TaskFrame ==
    ASSUME Base, NEW t \in Tasks, NEW k \in Task,
           task' = [task EXCEPT ![t] = k],
           record' \in Record, row' \in [Stages -> RowStatuses],
           agent' \in [Stages -> AgentStates], artifacts' = artifacts,
           sent' \in Nat, used' \in [runs : 0..MaxRuns, events : 0..MaxEvents],
           restarted' = restarted,
           Sound(k, row', artifacts'), Grows(row, row'),
           RowsSound(row', agent', artifacts')
    PROVE  Base'
  <1>1. task' \in [Tasks -> Task]
    BY DEF Base, TypeOK
  <1>2. TypeOK'
    BY <1>1 DEF Base, TypeOK
  <1>3. ASSUME NEW u \in Tasks PROVE Sound(task'[u], row', artifacts')
    <2>1. task[u] \in Task /\ Sound(task[u], row, artifacts)
      BY DEF Base, TypeOK, TasksSound
    <2>2. Sound(task[u], row', artifacts')
      BY <2>1, SoundStays
    <2>3. CASE u = t
      BY <2>3 DEF Base, TypeOK
    <2>4. CASE u # t
      BY <2>2, <2>4 DEF Base, TypeOK
    <2> QED BY <2>3, <2>4
  <1> QED BY <1>2, <1>3 DEF Base, TasksSound

\* The same when rows, agents and the bucket are as they were.
LEMMA QuietFrame ==
    ASSUME Base, NEW t \in Tasks, NEW k \in Task,
           task' = [task EXCEPT ![t] = k],
           record' \in Record, UNCHANGED <<row, agent, artifacts, restarted>>,
           sent' \in Nat, used' \in [runs : 0..MaxRuns, events : 0..MaxEvents],
           Sound(k, row, artifacts)
    PROVE  Base'
  <1>1. Grows(row, row')
    BY DEF Grows
  <1>2. /\ row' \in [Stages -> RowStatuses]
        /\ agent' \in [Stages -> AgentStates]
        /\ RowsSound(row', agent', artifacts')
        /\ Sound(k, row', artifacts')
    BY DEF Base, TypeOK
  <1> QED BY <1>1, <1>2, TaskFrame

\* An event is counted within its bound.
LEMMA EventType == Base /\ Event => used' \in [runs : 0..MaxRuns, events : 0..MaxEvents]
  BY BoundsAssumption DEF Base, TypeOK, Event

-----------------------------------------------------------------------------
(* A row that is written *)

\* A row that is updated stays sound when done is said of what is delivered.
LEMMA UpdateRow ==
    ASSUME Base, NEW s \in Stages, NEW status \in RowStatuses \ {"absent"},
           status = "done" => Delivered(s, artifacts),
           UpdateJobRow(s, status)
    PROVE  /\ row' \in [Stages -> RowStatuses]
           /\ Grows(row, row')
           /\ RowsSound(row', agent, artifacts)
           /\ \A u \in Stages : row'[u] = "absent" <=> row[u] = "absent"
  BY DEF Base, TypeOK, UpdateJobRow, Grows, RowsSound, Stages

-----------------------------------------------------------------------------
(* Base, action by action: POST /run *)

\* Base is kept by every action of a task, one lemma for each.
LEMMA RunScanBase == ASSUME Base, NEW t \in Tasks, RunScan(t) PROVE Base'
  <1> DEFINE k == [task[t] EXCEPT !.pc = "claim", !.prev = record.status]
  <1>1. task[t] \in Task /\ Sound(task[t], row, artifacts) /\ record.status \in ScanStatuses
    BY DEF Base, TypeOK, TasksSound, Record
  <1>2. k \in Task /\ k.pc = "claim" /\ k.remote = task[t].remote
        /\ k.stage = task[t].stage /\ k.seen = task[t].seen
    BY <1>1 DEF Task, Places
  <1>3. Sound(k, row, artifacts)
    BY <1>1, <1>2 DEF Sound, PastDastGate, PastReportGate
  <1>4. task' = [task EXCEPT ![t] = k]
    BY DEF RunScan
  <1>5. used' \in [runs : 0..MaxRuns, events : 0..MaxEvents]
    BY BoundsAssumption DEF RunScan, Base, TypeOK
  <1>6. /\ record' \in Record /\ sent' \in Nat
        /\ UNCHANGED <<row, agent, artifacts, restarted>>
    BY DEF RunScan, Base, TypeOK
  <1> HIDE DEF k
  <1> QED BY <1>2, <1>3, <1>4, <1>5, <1>6, QuietFrame

\* A task that goes to a place that asks for nothing new, or returns.
LEMMA GotoBase ==
    ASSUME Base, NEW t \in Tasks,
           NEW p \in Places \ {"load", "ids", "ask", "write", "adopt"},
           Goto(t, p),
           p = "answer" => task[t].remote \in {"new", "progress", "fail"},
           p = "send_sast" => row["dast"] # "absent",
           p \in PastDastGate => row["dast"] # "absent" /\ "sast" \in artifacts,
           p \in PastReportGate => "dast" \in artifacts,
           record' \in Record,
           UNCHANGED <<row, agent, artifacts, sent, used, restarted>>
    PROVE  Base'
  <1> DEFINE k == [task[t] EXCEPT !.pc = p]
  <1>1. task[t] \in Task /\ Sound(task[t], row, artifacts)
    BY DEF Base, TypeOK, TasksSound
  <1>2. k \in Task /\ Sound(k, row, artifacts)
    BY <1>1, GotoSound
  <1>3. task' = [task EXCEPT ![t] = k]
    BY DEF Goto
  <1>4. sent' \in Nat /\ used' \in [runs : 0..MaxRuns, events : 0..MaxEvents]
    BY DEF Base, TypeOK
  <1> HIDE DEF k
  <1> QED BY <1>2, <1>3, <1>4, QuietFrame

LEMMA ReturnBase ==
    ASSUME Base, NEW t \in Tasks, Return(t), record' \in Record,
           UNCHANGED <<row, agent, artifacts, sent, used, restarted>>
    PROVE  Base'
  <1>1. sent' \in Nat /\ used' \in [runs : 0..MaxRuns, events : 0..MaxEvents]
    BY DEF Base, TypeOK
  <1> QED BY <1>1, IdleSound, QuietFrame DEF Return

LEMMA SyncBase ==
    ASSUME Base, NEW t \in Tasks, NEW p \in Returns, task' = [task EXCEPT ![t] = Sync(p)],
           record' \in Record,
           UNCHANGED <<row, agent, artifacts, sent, restarted>>,
           used' \in [runs : 0..MaxRuns, events : 0..MaxEvents]
    PROVE  Base'
  <1>1. sent' \in Nat
    BY DEF Base, TypeOK
  <1> QED BY <1>1, SyncSound, QuietFrame

LEMMA ClaimBase == ASSUME Base, NEW t \in Tasks, Claim(t) PROVE Base'
  <1> USE DEF Claim
  <1>1. record \in Record
    BY DEF Base, TypeOK
  <1>2. CASE record.status \in {"new", "queued"}
    <2> DEFINE k == [Idle EXCEPT !.pc = "jobs"]
    <2>1. k \in Task /\ Sound(k, row, artifacts)
      BY IdleSound, GotoSound DEF Places, PastDastGate, PastReportGate
    <2>2. task' = [task EXCEPT ![t] = k] /\ record' = [record EXCEPT !.status = "progress"]
      BY <1>2
    <2>3. record' \in Record
      BY <1>1, <2>2 DEF Record, ScanStatuses
    <2>4. sent' \in Nat /\ used' \in [runs : 0..MaxRuns, events : 0..MaxEvents]
      BY DEF Base, TypeOK
    <2> HIDE DEF k
    <2> QED BY <2>1, <2>2, <2>3, <2>4, QuietFrame
  <1>3. CASE record.status \notin {"new", "queued"}
    <2>1. record' \in Record
      BY <1>1, <1>3
    <2>2. Goto(t, "enqueue") \/ Return(t)
      BY <1>3
    <2> QED BY <2>1, <2>2, GotoBase, ReturnBase DEF Places, PastDastGate, PastReportGate
  <1> QED BY <1>2, <1>3

LEMMA EnqueueBase == ASSUME Base, NEW t \in Tasks, Enqueue(t) PROVE Base'
  <1>1. record' \in Record
    BY DEF Enqueue, Base, TypeOK, Record, ScanStatuses
  <1> QED BY <1>1, ReturnBase DEF Enqueue

\* Rows that have been written anew hold for no job that is done.
LEMMA PersistJobsBase == ASSUME Base, NEW t \in Tasks, PersistJobs(t) PROVE Base'
  <1> DEFINE k == [task[t] EXCEPT !.pc = "send_sast"]
  <1>1. task[t] \in Task /\ Sound(task[t], row, artifacts)
    BY DEF Base, TypeOK, TasksSound
  <1>2. /\ row' \in [Stages -> RowStatuses] /\ Grows(row, row') /\ row'["dast"] = "new"
        /\ RowsSound(row', agent, artifacts)
    BY DEF PersistJobs, Base, TypeOK, RowsSound, Grows, Stages, RowStatuses
  <1>3. Sound(task[t], row', artifacts)
    BY <1>1, <1>2, SoundStays
  <1>4. k \in Task /\ Sound(k, row', artifacts)
    BY <1>1, <1>2, <1>3, GotoSound DEF Places, PastDastGate, PastReportGate
  <1>5. record' \in Record
    BY DEF PersistJobs, Record, ScanStatuses
  <1>6. /\ task' = [task EXCEPT ![t] = k]
        /\ UNCHANGED <<agent, artifacts, restarted>>
        /\ agent' \in [Stages -> AgentStates] /\ sent' \in Nat
        /\ used' \in [runs : 0..MaxRuns, events : 0..MaxEvents]
    BY DEF PersistJobs, Goto, Base, TypeOK
  <1> HIDE DEF k
  <1> QED BY <1>2, <1>4, <1>5, <1>6, TaskFrame

\* AgentSAST has made its row, and its answer is on the way or lost.
LEMMA SastAcceptedBase ==
    ASSUME Base, NEW t \in Tasks, At(t, "send_sast"),
           row' = [row EXCEPT !["sast"] = "new"],
           agent' = [agent EXCEPT !["sast"] = "accepted"],
           NEW k \in Task, task' = [task EXCEPT ![t] = k], Sound(k, row', artifacts),
           used' \in [runs : 0..MaxRuns, events : 0..MaxEvents],
           UNCHANGED <<record, artifacts, sent, restarted>>
    PROVE  Base'
  <1>1. row["dast"] # "absent"
    BY DEF Base, TasksSound, Sound, At
  <1>2. /\ row' \in [Stages -> RowStatuses] /\ Grows(row, row')
        /\ agent' \in [Stages -> AgentStates]
    BY DEF Base, TypeOK, Grows, Stages, RowStatuses, AgentStates, Busy
  <1>3. RowsSound(row', agent', artifacts)
    BY <1>1 DEF Base, TypeOK, RowsSound, PagesSound, Stages
  <1>4. record' \in Record /\ sent' \in Nat
    BY DEF Base, TypeOK
  <1> QED BY <1>2, <1>3, <1>4, TaskFrame

LEMMA SendSastBase == ASSUME Base, NEW t \in Tasks, SendSast(t) PROVE Base'
  <1> USE DEF SendSast
  <1>1. task[t] \in Task /\ Sound(task[t], row, artifacts) /\ task[t].pc = "send_sast"
    BY DEF Base, TypeOK, TasksSound, At
  <1>2. UNCHANGED used => used' \in [runs : 0..MaxRuns, events : 0..MaxEvents]
    BY DEF Base, TypeOK
  <1>3. ASSUME row' = [row EXCEPT !["sast"] = "new"],
               agent' = [agent EXCEPT !["sast"] = "accepted"],
               task' = [task EXCEPT ![t].pc = "adopt", ![t].remote = "new"],
               UNCHANGED used
        PROVE  Base'
    <2> DEFINE k == [task[t] EXCEPT !.pc = "adopt", !.remote = "new"]
    <2>1. k \in Task /\ k.pc = "adopt" /\ k.remote = "new" /\ k.seen = task[t].seen
      BY <1>1 DEF Task, Places, RowStatuses
    <2>2. Sound(k, row', artifacts)
      BY <1>1, <2>1 DEF Sound, PastDastGate, PastReportGate
    <2>3. task' = [task EXCEPT ![t] = k]
      BY <1>3
    <2> HIDE DEF k
    <2> QED BY <1>2, <1>3, <2>1, <2>2, <2>3, SastAcceptedBase
  <1>4. ASSUME task' = [task EXCEPT ![t] = Sync("check")], Event,
               row' = [row EXCEPT !["sast"] = "new"],
               agent' = [agent EXCEPT !["sast"] = "accepted"]
        PROVE  Base'
    <2>1. Sync("check") \in Task /\ Sound(Sync("check"), row', artifacts)
      BY SyncSound DEF Returns
    <2> QED BY <1>4, <2>1, EventType, SastAcceptedBase
  <1>5. ASSUME task' = [task EXCEPT ![t] = Sync("check")], Event, UNCHANGED <<row, agent>>
        PROVE  Base'
    <2>1. record' \in Record
      BY DEF Base, TypeOK
    <2> QED BY <1>5, <2>1, EventType, SyncBase DEF Returns
  <1> QED BY <1>3, <1>4, <1>5

LEMMA AdoptSastIdBase == ASSUME Base, NEW t \in Tasks, AdoptSastId(t) PROVE Base'
  <1>1. record' \in Record
    BY DEF AdoptSastId, Base, TypeOK, Record
  <1>2. task[t].remote \in {"new", "progress", "fail"}
    BY DEF AdoptSastId, At, Base, TasksSound, Sound
  <1> QED BY <1>1, <1>2, GotoBase DEF AdoptSastId, Places, PastDastGate, PastReportGate

LEMMA AnswerBase == ASSUME Base, NEW t \in Tasks, Answer(t) PROVE Base'
  <1>1. task[t] \in Task /\ task[t].remote \in {"new", "progress", "fail"}
    BY DEF Answer, At, Base, TypeOK, TasksSound, Sound
  <1>2. task[t].stage \in Stages /\ task[t].remote \in RowStatuses \ {"absent"}
    BY <1>1 DEF Task, RowStatuses, Terminal
  <1>3. UpdateJobRow(task[t].stage, task[t].remote)
    BY DEF Answer
  <1>4. /\ row' \in [Stages -> RowStatuses] /\ Grows(row, row')
        /\ RowsSound(row', agent, artifacts)
    BY <1>1, <1>2, <1>3, UpdateRow
  <1>5. PICK k : k \in {Sync("check"), Sync("report_gate"), Idle}
                 /\ task' = [task EXCEPT ![t] = k]
    BY <1>2 DEF Answer, Stages
  <1>6. k \in Task /\ Sound(k, row', artifacts)
    BY <1>5, SyncSound, IdleSound DEF Returns
  <1>7. /\ UNCHANGED <<agent, artifacts, restarted>> /\ record' \in Record
        /\ agent' \in [Stages -> AgentStates] /\ sent' \in Nat
        /\ used' \in [runs : 0..MaxRuns, events : 0..MaxEvents]
    BY DEF Answer, Base, TypeOK
  <1> QED BY <1>4, <1>5, <1>6, <1>7, TaskFrame

-----------------------------------------------------------------------------
(* syncScanJobIds *)

LEMMA LoadBase ==
    ASSUME Base, NEW t \in Tasks, NEW p \in Returns, Load(t, p),
           UNCHANGED <<record, row, agent, artifacts, sent, restarted>>,
           used' \in [runs : 0..MaxRuns, events : 0..MaxEvents]
    PROVE  Base'
  <1> DEFINE pc == IF record.sastid /\ record.jobids THEN p ELSE "ids"
             then == IF record.sastid /\ record.jobids THEN "idle" ELSE p
             prev == IF p \in {"check", "cancel"} THEN record.status ELSE "new"
             k == [Idle EXCEPT !.pc = pc, !.then = then, !.prev = prev,
                               !.sastid = record.sastid, !.jobids = record.jobids]
  <1>1. record \in Record /\ sent' \in Nat
    BY DEF Base, TypeOK
  <1>2. /\ pc \in Returns \cup {"ids"} /\ then \in Places /\ prev \in ScanStatuses
        /\ pc = "ids" => then \in Returns
        /\ record.sastid \in BOOLEAN /\ record.jobids \in BOOLEAN
    BY <1>1 DEF Record, Places, Returns, ScanStatuses
  <1>5. task' = [task EXCEPT ![t] = k]
    BY DEF Load
  <1> HIDE DEF pc, then, prev
  <1>3. k \in Task
    BY <1>2, IdleSound DEF Task, Returns, Places
  <1>4. k.pc = pc /\ k.then = then /\ k.remote = "absent" /\ k.seen = NothingSeen
    BY IdleSound, IdleFields DEF Task
  <1> HIDE DEF k
  <1>6. Sound(k, row, artifacts)
    BY <1>2, <1>4 DEF Sound, Returns, PastDastGate, PastReportGate, NothingSeen
  <1> QED BY <1>1, <1>3, <1>5, <1>6, QuietFrame

LEMMA RefreshBase == ASSUME Base, NEW t \in Tasks, Refresh(t) PROVE Base'
  <1>1. used' \in [runs : 0..MaxRuns, events : 0..MaxEvents]
    BY DEF Refresh, Base, TypeOK
  <1> QED BY <1>1, LoadBase DEF Refresh, Returns

LEMMA LoadRecordBase == ASSUME Base, NEW t \in Tasks, LoadRecord(t) PROVE Base'
  <1>1. used' \in [runs : 0..MaxRuns, events : 0..MaxEvents]
    BY DEF LoadRecord, Base, TypeOK
  <1>2. task[t].then \in Returns
    BY DEF LoadRecord, At, Base, TasksSound, Sound
  <1> QED BY <1>1, <1>2, LoadBase DEF LoadRecord

LEMMA CancelScanBase == ASSUME Base, NEW t \in Tasks, CancelScan(t) PROVE Base'
  BY EventType, LoadBase DEF CancelScan, Returns

LEMMA RerunReportBase == ASSUME Base, NEW t \in Tasks, RerunReport(t) PROVE Base'
  BY EventType, LoadBase DEF RerunReport, Returns

LEMMA SyncIdsBase == ASSUME Base, NEW t \in Tasks, SyncIds(t) PROVE Base'
  <1> DEFINE sastid == task[t].sastid \/ row["sast"] # "absent"
             jobids == task[t].jobids \/ row["dast"] # "absent"
             k == [task[t] EXCEPT !.pc = task[t].then, !.then = "idle",
                                  !.sastid = sastid, !.jobids = jobids]
  <1>1. task[t] \in Task /\ Sound(task[t], row, artifacts) /\ task[t].then \in Returns
    BY DEF SyncIds, At, Base, TypeOK, TasksSound, Sound
  <1>2. sastid \in BOOLEAN /\ jobids \in BOOLEAN
    OBVIOUS
  <1>3. record' \in Record
    BY <1>2 DEF SyncIds, Base, TypeOK, Record
  <1>4. task' = [task EXCEPT ![t] = k]
    BY DEF SyncIds
  <1> HIDE DEF sastid, jobids
  <1>5. k \in Task
    BY <1>1, <1>2 DEF Task, Returns, Places
  <1>6. /\ k.pc = task[t].then /\ k.remote = task[t].remote
        /\ k.stage = task[t].stage /\ k.seen = task[t].seen
    BY <1>1 DEF Task
  <1> HIDE DEF k
  <1>7. Sound(k, row, artifacts)
    BY <1>1, <1>6 DEF Sound, Returns, PastDastGate, PastReportGate
  <1>8. /\ UNCHANGED <<row, agent, artifacts, restarted>> /\ sent' \in Nat
        /\ used' \in [runs : 0..MaxRuns, events : 0..MaxEvents]
    BY DEF SyncIds, Base, TypeOK
  <1> QED BY <1>3, <1>4, <1>5, <1>7, <1>8, QuietFrame

-----------------------------------------------------------------------------
(* refreshScanRecordStatus *)

\* What a task sees of a row is true of the bucket.
LEMMA SeeBase ==
    ASSUME Base, NEW t \in Tasks, See(t),
           UNCHANGED <<record, row, agent, artifacts, sent, used, restarted>>
    PROVE  Base'
  <1> DEFINE s == task[t].stage
             seen == [task[t].seen EXCEPT ![s] = row[s]]
             pc == IF s = "report" THEN "artifacts" ELSE "check"
             next == IF s = "sast" THEN "dast" ELSE "report"
             k == [task[t] EXCEPT !.seen = seen, !.remote = "absent", !.pc = pc, !.stage = next]
  <1>1. /\ task[t] \in Task /\ Sound(task[t], row, artifacts)
        /\ row \in [Stages -> RowStatuses] /\ RowsSound(row, agent, artifacts)
    BY DEF Base, TypeOK, TasksSound
  <1>2. task' = [task EXCEPT ![t] = k]
    BY <1>1 DEF See, Base, TypeOK, Task
  <1>3. s \in Stages /\ task[t].seen \in [Stages -> RowStatuses]
    BY <1>1 DEF Task
  <1>4. seen \in [Stages -> RowStatuses]
    BY <1>1, <1>3
  <1>5. \A u \in Stages : seen[u] = "done" => Delivered(u, artifacts)
    BY <1>1, <1>3 DEF Sound, RowsSound
  <1>6. pc \in {"artifacts", "check"} /\ next \in Stages
    BY DEF Stages
  <1> HIDE DEF seen, pc, next
  <1>7. k \in Task
    BY <1>1, <1>4, <1>6 DEF Task, Places, RowStatuses
  <1>8. k.pc = pc /\ k.remote = "absent" /\ k.seen = seen
    BY <1>1 DEF Task
  <1> HIDE DEF k
  <1>9. Sound(k, row, artifacts)
    BY <1>5, <1>6, <1>8 DEF Sound, PastDastGate, PastReportGate
  <1>10. /\ record' \in Record /\ sent' \in Nat
         /\ used' \in [runs : 0..MaxRuns, events : 0..MaxEvents]
    BY DEF Base, TypeOK
  <1> QED BY <1>2, <1>7, <1>9, <1>10, QuietFrame

LEMMA CheckRowBase == ASSUME Base, NEW t \in Tasks, CheckRow(t) PROVE Base'
  <1>1. \/ row[task[t].stage] \in {"new", "progress"} /\ Goto(t, "ask")
        \/ See(t)
    BY DEF CheckRow
  <1>2. UNCHANGED <<record, row, agent, artifacts, sent, used, restarted>>
    BY DEF CheckRow
  <1>3. ASSUME row[task[t].stage] \in {"new", "progress"}, Goto(t, "ask") PROVE Base'
    <2> DEFINE k == [task[t] EXCEPT !.pc = "ask"]
    <2>1. task[t] \in Task /\ Sound(task[t], row, artifacts)
      BY DEF Base, TypeOK, TasksSound
    <2>2. /\ k \in Task /\ k.pc = "ask" /\ k.remote = task[t].remote
          /\ k.stage = task[t].stage /\ k.seen = task[t].seen
      BY <2>1 DEF Task, Places
    <2>3. task' = [task EXCEPT ![t] = k]
      BY <1>3 DEF Goto
    <2> HIDE DEF k
    <2>4. Sound(k, row, artifacts)
      BY <1>3, <2>1, <2>2 DEF Sound, PastDastGate, PastReportGate
    <2>5. /\ record' \in Record /\ sent' \in Nat
          /\ used' \in [runs : 0..MaxRuns, events : 0..MaxEvents]
      BY <1>2 DEF Base, TypeOK
    <2> QED BY <1>2, <2>2, <2>3, <2>4, <2>5, QuietFrame
  <1> QED BY <1>1, <1>2, <1>3, SeeBase

LEMMA AskAgentBase == ASSUME Base, NEW t \in Tasks, AskAgent(t) PROVE Base'
  <1>1. UNCHANGED <<record, row, agent, artifacts, sent, used, restarted>>
    BY DEF AskAgent
  <1>2. ASSUME task' = [task EXCEPT ![t].pc = "write", ![t].remote = row[task[t].stage]]
        PROVE  Base'
    <2> DEFINE k == [task[t] EXCEPT !.pc = "write", !.remote = row[task[t].stage]]
    <2>1. /\ task[t] \in Task /\ Sound(task[t], row, artifacts) /\ task[t].pc = "ask"
          /\ row \in [Stages -> RowStatuses] /\ RowsSound(row, agent, artifacts)
      BY DEF AskAgent, At, Base, TypeOK, TasksSound
    <2>2. /\ task[t].stage \in Stages /\ row[task[t].stage] \in RowStatuses
          /\ row[task[t].stage] # "absent"
          /\ row[task[t].stage] = "done" => Delivered(task[t].stage, artifacts)
      BY <2>1 DEF Task, Sound, RowsSound
    <2>3. /\ k \in Task /\ k.pc = "write" /\ k.remote = row[task[t].stage]
          /\ k.stage = task[t].stage /\ k.seen = task[t].seen
      BY <2>1, <2>2 DEF Task, Places
    <2>4. task' = [task EXCEPT ![t] = k]
      BY <1>2
    <2> HIDE DEF k
    <2>5. Sound(k, row, artifacts)
      BY <2>1, <2>2, <2>3 DEF Sound, PastDastGate, PastReportGate
    <2>6. /\ record' \in Record /\ sent' \in Nat
          /\ used' \in [runs : 0..MaxRuns, events : 0..MaxEvents]
      BY <1>1 DEF Base, TypeOK
    <2> QED BY <1>1, <2>3, <2>4, <2>5, <2>6, QuietFrame
  <1> QED BY <1>1, <1>2, SeeBase DEF AskAgent

\* The answer is written, however long ago it was given.
LEMMA WriteBackBase == ASSUME Base, NEW t \in Tasks, WriteBack(t) PROVE Base'
  <1> DEFINE k == [task[t] EXCEPT !.pc = "read", !.remote = "absent"]
  <1>1. /\ task[t] \in Task /\ Sound(task[t], row, artifacts) /\ task[t].pc = "write"
    BY DEF WriteBack, At, Base, TypeOK, TasksSound
  <1>2. /\ task[t].stage \in Stages /\ task[t].remote \in RowStatuses \ {"absent"}
        /\ task[t].remote = "done" => Delivered(task[t].stage, artifacts)
    BY <1>1 DEF Task, Sound
  <1>3. UpdateJobRow(task[t].stage, task[t].remote)
    BY DEF WriteBack
  <1>4. /\ row' \in [Stages -> RowStatuses] /\ Grows(row, row')
        /\ RowsSound(row', agent, artifacts)
    BY <1>2, <1>3, UpdateRow
  <1>5. k \in Task /\ k.pc = "read" /\ k.remote = "absent" /\ k.seen = task[t].seen
    BY <1>1 DEF Task, Places, RowStatuses
  <1>6. task' = [task EXCEPT ![t] = k]
    BY DEF WriteBack
  <1> HIDE DEF k
  <1>7. Sound(k, row', artifacts)
    BY <1>1, <1>5 DEF Sound, PastDastGate, PastReportGate
  <1>8. /\ UNCHANGED <<agent, artifacts, restarted>> /\ record' \in Record
        /\ agent' \in [Stages -> AgentStates] /\ sent' \in Nat
        /\ used' \in [runs : 0..MaxRuns, events : 0..MaxEvents]
    BY DEF WriteBack, Base, TypeOK
  <1> QED BY <1>4, <1>5, <1>6, <1>7, <1>8, TaskFrame

LEMMA ReadRowBase == ASSUME Base, NEW t \in Tasks, ReadRow(t) PROVE Base'
  BY SeeBase DEF ReadRow

LEMMA ReconcileReportBase == ASSUME Base, NEW t \in Tasks, ReconcileReport(t) PROVE Base'
  <1>1. ASSUME task[t].seen["report"] \in {"new", "progress"}, ReportReady,
               UpdateJobRow("report", "done"), Goto(t, "reconciled")
        PROVE  Base'
    <2> DEFINE k == [task[t] EXCEPT !.pc = "reconciled"]
    <2>1. task[t] \in Task /\ Sound(task[t], row, artifacts)
      BY DEF Base, TypeOK, TasksSound
    <2>2. /\ row' \in [Stages -> RowStatuses] /\ Grows(row, row')
          /\ RowsSound(row', agent, artifacts)
      BY <1>1, UpdateRow DEF Stages, RowStatuses, Terminal, ReportReady, Delivered
    <2>3. task' = [task EXCEPT ![t] = k]
      BY <1>1 DEF Goto
    <2>4. /\ k \in Task /\ k.pc = "reconciled" /\ k.seen = task[t].seen
          /\ k.stage = task[t].stage /\ k.remote = task[t].remote
      BY <2>1 DEF Task, Places
    <2> HIDE DEF k
    <2>5. Sound(k, row', artifacts)
      BY <2>1, <2>2, <2>4 DEF Sound, PastDastGate, PastReportGate
    <2>6. /\ UNCHANGED <<agent, artifacts, restarted>> /\ record' \in Record
          /\ agent' \in [Stages -> AgentStates] /\ sent' \in Nat
          /\ used' \in [runs : 0..MaxRuns, events : 0..MaxEvents]
      BY DEF ReconcileReport, Base, TypeOK
    <2> QED BY <2>2, <2>3, <2>4, <2>5, <2>6, TaskFrame
  <1>2. ASSUME Goto(t, "settle"), UNCHANGED row PROVE Base'
    <2>1. record' \in Record
      BY DEF ReconcileReport, Base, TypeOK
    <2> QED BY <1>2, <2>1, GotoBase DEF ReconcileReport, Places, PastDastGate, PastReportGate
  <1> QED BY <1>1, <1>2 DEF ReconcileReport

LEMMA ReadReconciledBase == ASSUME Base, NEW t \in Tasks, ReadReconciled(t) PROVE Base'
  <1> DEFINE seen == [task[t].seen EXCEPT !["report"] = row["report"]]
             k == [task[t] EXCEPT !.pc = "settle", !.seen = seen]
  <1>1. /\ task[t] \in Task /\ Sound(task[t], row, artifacts)
        /\ row \in [Stages -> RowStatuses] /\ RowsSound(row, agent, artifacts)
    BY DEF Base, TypeOK, TasksSound
  <1>2. /\ seen \in [Stages -> RowStatuses]
        /\ \A s \in Stages : seen[s] = "done" => Delivered(s, artifacts)
    BY <1>1 DEF Task, Sound, RowsSound, Stages
  <1>3. task' = [task EXCEPT ![t] = k]
    BY <1>1 DEF ReadReconciled, Base, TypeOK, Task
  <1> HIDE DEF seen
  <1>4. k \in Task /\ k.pc = "settle" /\ k.seen = seen /\ k.remote = task[t].remote
        /\ k.stage = task[t].stage
    BY <1>1, <1>2 DEF Task, Places
  <1> HIDE DEF k
  <1>5. Sound(k, row, artifacts)
    BY <1>1, <1>2, <1>4 DEF Sound, PastDastGate, PastReportGate
  <1>6. /\ UNCHANGED <<row, agent, artifacts, restarted>> /\ record' \in Record
        /\ sent' \in Nat /\ used' \in [runs : 0..MaxRuns, events : 0..MaxEvents]
    BY DEF ReadReconciled, Base, TypeOK
  <1> QED BY <1>3, <1>4, <1>5, <1>6, QuietFrame

\* A stage that is made up waits: it is never done.
LEMMA WaitingSound ==
    ASSUME NEW seen \in [Stages -> RowStatuses]
    PROVE  /\ WithWaiting(seen) \in [Stages -> RowStatuses]
           /\ \A s \in Stages : WithWaiting(seen)[s] = "done" => seen[s] = "done"
  <1> DEFINE d == IF seen["dast"] = "absent" /\ seen["sast"] = "done" THEN "new" ELSE seen["dast"]
             r == IF seen["report"] = "absent" /\ d = "done" THEN "new" ELSE seen["report"]
  <1>1. /\ d \in RowStatuses /\ r \in RowStatuses
        /\ d = "done" => seen["dast"] = "done"
        /\ r = "done" => seen["report"] = "done"
    BY DEF Stages, RowStatuses
  <1>2. WithWaiting(seen) = [seen EXCEPT !["dast"] = d, !["report"] = r]
    BY DEF WithWaiting
  <1> HIDE DEF d, r
  <1> QED BY <1>1, <1>2 DEF Stages

\* aggregateScanStatus says done only of a scan all of whose stages are.
LEMMA AggregateSound ==
    ASSUME NEW seen
    PROVE  /\ Aggregate(seen) \in ScanStatuses
           /\ Aggregate(seen) = "done" => \A s \in Stages : seen[s] = "done"
  <1> DEFINE has(v) == \E s \in Stages : seen[s] = v
  <1>1. CASE has("fail")
    BY <1>1 DEF Aggregate, ScanStatuses, Terminal
  <1>2. CASE ~has("fail") /\ has("cancel")
    BY <1>2 DEF Aggregate, ScanStatuses, Terminal
  <1>3. CASE \A s \in Stages : seen[s] = "done"
    <2>1. ~has("fail") /\ ~has("cancel") /\ ~has("progress") /\ seen["sast"] = "done"
          /\ seen["dast"] = "done" /\ seen["report"] = "done"
      BY <1>3 DEF Stages
    <2>2. Aggregate(seen) = "done"
      BY <1>3, <2>1 DEF Aggregate
    <2> QED BY <1>3, <2>2 DEF ScanStatuses, Terminal
  <1>4. CASE /\ ~has("fail") /\ ~has("cancel")
             /\ ~ \A s \in Stages : seen[s] = "done"
    <2>1. Aggregate(seen) \in {"progress", "new"}
      BY <1>4 DEF Aggregate
    <2> QED BY <2>1 DEF ScanStatuses, Terminal
  <1> QED BY <1>1, <1>2, <1>3, <1>4

LEMMA SettleBase == ASSUME Base, NEW t \in Tasks, Settle(t) PROVE Base'
  <1>1. \/ record' = [record EXCEPT !.status = Aggregate(WithWaiting(task[t].seen))]
        \/ record' = record
    BY DEF Settle
  <1>2. record' \in Record
    BY <1>1, AggregateSound DEF Base, TypeOK, Record
  <1>3. used' \in [runs : 0..MaxRuns, events : 0..MaxEvents]
    BY DEF Settle, Base, TypeOK
  <1> QED BY <1>2, <1>3, SyncBase DEF Settle, Returns

-----------------------------------------------------------------------------
(* tryStartDastJob *)

\* A row that says SAST is done, and then only the places after the gate.
LEMMA DastGateBase == ASSUME Base, NEW t \in Tasks, DastGate(t) PROVE Base'
  <1>1. /\ record' \in Record /\ used' \in [runs : 0..MaxRuns, events : 0..MaxEvents]
        /\ UNCHANGED <<row, agent, artifacts, sent, used, restarted>>
    BY DEF DastGate, Base, TypeOK
  <1>2. \/ row["sast"] = "done" /\ Goto(t, "dast_check")
        \/ task' = [task EXCEPT ![t] = Sync("report_gate")]
    BY DEF DastGate, Goto
  <1>3. row["sast"] = "done" => row["dast"] # "absent" /\ "sast" \in artifacts
    BY DEF Base, RowsSound, Stages, Delivered
  <1>4. CASE row["sast"] = "done" /\ Goto(t, "dast_check")
    BY <1>1, <1>3, <1>4, GotoBase DEF Places, PastReportGate
  <1>5. CASE task' = [task EXCEPT ![t] = Sync("report_gate")]
    BY <1>1, <1>5, SyncBase DEF Returns
  <1> QED BY <1>2, <1>4, <1>5

\* A task past the gate of DAST has what the gate looked for.
LEMMA PastDast ==
    ASSUME Base, NEW t \in Tasks, task[t].pc \in PastDastGate
    PROVE  row["dast"] # "absent" /\ "sast" \in artifacts
  BY DEF Base, TasksSound, Sound

LEMMA DastCheckBase == ASSUME Base, NEW t \in Tasks, DastCheck(t) PROVE Base'
  <1>1. /\ record' \in Record /\ used' \in [runs : 0..MaxRuns, events : 0..MaxEvents]
        /\ UNCHANGED <<row, agent, artifacts, sent, used, restarted>>
    BY DEF DastCheck, Base, TypeOK
  <1>2. \/ Goto(t, "dast_claim")
        \/ task' = [task EXCEPT ![t] = Sync("report_gate")]
    BY DEF DastCheck, Goto
  <1>3. row["dast"] # "absent" /\ "sast" \in artifacts
    BY PastDast DEF DastCheck, At, PastDastGate
  <1>4. CASE Goto(t, "dast_claim")
    BY <1>1, <1>3, <1>4, GotoBase DEF Places, PastReportGate
  <1>5. CASE task' = [task EXCEPT ![t] = Sync("report_gate")]
    BY <1>1, <1>5, SyncBase DEF Returns
  <1> QED BY <1>2, <1>4, <1>5

LEMMA DastClaimBase == ASSUME Base, NEW t \in Tasks, DastClaim(t) PROVE Base'
  <1>1. /\ record' \in Record /\ used' \in [runs : 0..MaxRuns, events : 0..MaxEvents]
        /\ UNCHANGED <<row, agent, artifacts, sent, used, restarted>>
    BY DEF DastClaim, Base, TypeOK, Record
  <1>2. \/ Goto(t, "dast_mark")
        \/ task' = [task EXCEPT ![t] = Sync("report_gate")]
    BY DEF DastClaim, Goto
  <1>3. row["dast"] # "absent" /\ "sast" \in artifacts
    BY PastDast DEF DastClaim, At, PastDastGate
  <1>4. CASE Goto(t, "dast_mark")
    BY <1>1, <1>3, <1>4, GotoBase DEF Places, PastReportGate
  <1>5. CASE task' = [task EXCEPT ![t] = Sync("report_gate")]
    BY <1>1, <1>5, SyncBase DEF Returns
  <1> QED BY <1>2, <1>4, <1>5

\* A row that is open, and is marked as being worked on.
LEMMA MarkRow ==
    ASSUME Base, NEW s \in Stages, NEW status \in {"new", "progress"},
           row' = [row EXCEPT ![s] = status], row[s] # "absent"
    PROVE  /\ row' \in [Stages -> RowStatuses] /\ Grows(row, row')
           /\ RowsSound(row', agent, artifacts)
  BY DEF Base, TypeOK, Grows, RowsSound, Stages, RowStatuses

LEMMA DastMarkBase == ASSUME Base, NEW t \in Tasks, DastMark(t) PROVE Base'
  <1> DEFINE k == [task[t] EXCEPT !.pc = "send_dast"]
  <1>1. /\ task[t] \in Task /\ Sound(task[t], row, artifacts)
        /\ row["dast"] # "absent" /\ "sast" \in artifacts
    BY PastDast DEF Base, TypeOK, TasksSound, DastMark, At, PastDastGate
  <1>2. /\ row' \in [Stages -> RowStatuses] /\ Grows(row, row')
        /\ RowsSound(row', agent, artifacts)
    <2>1. CASE row' = [row EXCEPT !["dast"] = "progress"]
      BY <1>1, <2>1, MarkRow DEF Stages
    <2>2. CASE row' = row
      BY <2>2 DEF Base, TypeOK, Grows
    <2> QED BY <2>1, <2>2 DEF DastMark
  <1>3. Sound(task[t], row', artifacts) /\ row'["dast"] # "absent"
    BY <1>1, <1>2, SoundStays DEF Grows, Stages
  <1>4. k \in Task /\ Sound(k, row', artifacts)
    BY <1>1, <1>3, GotoSound DEF Places, PastReportGate
  <1>5. task' = [task EXCEPT ![t] = k]
    BY DEF DastMark, Goto
  <1> HIDE DEF k
  <1>6. /\ UNCHANGED <<agent, artifacts, restarted>> /\ record' \in Record
        /\ agent' \in [Stages -> AgentStates] /\ sent' \in Nat
        /\ used' \in [runs : 0..MaxRuns, events : 0..MaxEvents]
    BY DEF DastMark, Base, TypeOK
  <1> QED BY <1>2, <1>4, <1>5, <1>6, TaskFrame

\* The task that holds an answer of an agent, or knows that there is none.
LEMMA AnsweredTask ==
    ASSUME Base, NEW t \in Tasks, NEW s \in Stages,
           NEW status \in {"new", "progress", "fail"},
           task' = [task EXCEPT ![t].pc = "answer", ![t].stage = s, ![t].remote = status],
           NEW r
    PROVE  \E k \in Task : task' = [task EXCEPT ![t] = k] /\ Sound(k, r, artifacts)
  <1> DEFINE k == [task[t] EXCEPT !.pc = "answer", !.stage = s, !.remote = status]
  <1>1. task[t] \in Task /\ Sound(task[t], row, artifacts)
    BY DEF Base, TypeOK, TasksSound
  <1>0. status \in RowStatuses /\ "answer" \in Places
    BY DEF Places, RowStatuses, Terminal
  <1>2. k \in Task /\ k.pc = "answer" /\ k.remote = status /\ k.stage = s
        /\ k.seen = task[t].seen
    BY <1>0, <1>1 DEF Task
  <1>3. task' = [task EXCEPT ![t] = k]
    OBVIOUS
  <1> HIDE DEF k
  <1>4. Sound(k, r, artifacts)
    BY <1>1, <1>2 DEF Sound, PastDastGate, PastReportGate
  <1> QED BY <1>2, <1>3, <1>4

LEMMA SendDastBase == ASSUME Base, NEW t \in Tasks, SendDast(t) PROVE Base'
  <1> USE DEF SendDast, Answered, Unanswered
  <1>1. /\ sent' \in Nat /\ record' \in Record
        /\ UNCHANGED <<row, artifacts, restarted>>
        /\ row' \in [Stages -> RowStatuses]
    BY DEF Base, TypeOK
  <1>2. UNCHANGED used \/ Event
    OBVIOUS
  <1>3. used' \in [runs : 0..MaxRuns, events : 0..MaxEvents]
    BY <1>2, EventType DEF Base, TypeOK
  <1>4. \/ row["dast"] # "absent" /\ agent' = [agent EXCEPT !["dast"] = "accepted"]
        \/ UNCHANGED agent
    OBVIOUS
  <1>5. agent' \in [Stages -> AgentStates] /\ RowsSound(row', agent', artifacts) /\ Grows(row, row')
    <2>1. CASE row["dast"] # "absent" /\ agent' = [agent EXCEPT !["dast"] = "accepted"]
      BY <1>1, <2>1 DEF Base, TypeOK, RowsSound, PagesSound, Grows, Stages, AgentStates, Busy
    <2>2. CASE UNCHANGED agent
      BY <1>1, <2>2 DEF Base, TypeOK, Grows
    <2> QED BY <1>4, <2>1, <2>2
  <1>6. PICK status \in {"new", "progress", "fail"} :
           task' = [task EXCEPT ![t].pc = "answer", ![t].stage = "dast", ![t].remote = status]
    OBVIOUS
  <1>7. \E k \in Task : task' = [task EXCEPT ![t] = k] /\ Sound(k, row', artifacts)
    BY <1>6, AnsweredTask DEF Stages
  <1>8. PICK k \in Task : task' = [task EXCEPT ![t] = k] /\ Sound(k, row', artifacts)
    BY <1>7
  <1>9. Sound(k, row', artifacts') /\ RowsSound(row', agent', artifacts')
    BY <1>1, <1>5, <1>8
  <1> HIDE DEF SendDast, Answered, Unanswered
  <1> QED BY <1>1, <1>3, <1>5, <1>8, <1>9, TaskFrame

-----------------------------------------------------------------------------
(* tryStartReportJob *)

\* A task past the gate of the report has what the gate looked for.
LEMMA PastReport ==
    ASSUME Base, NEW t \in Tasks, task[t].pc \in PastReportGate
    PROVE  "dast" \in artifacts
  BY DEF Base, TasksSound, Sound

LEMMA ReportGateBase == ASSUME Base, NEW t \in Tasks, ReportGate(t) PROVE Base'
  <1>1. /\ record' \in Record
        /\ UNCHANGED <<row, agent, artifacts, sent, used, restarted>>
    BY DEF ReportGate, Base, TypeOK
  <1>2. \/ row["dast"] = "done" /\ Goto(t, "report_check")
        \/ Return(t)
    BY DEF ReportGate
  <1>3. row["dast"] = "done" => "dast" \in artifacts
    BY DEF Base, RowsSound, Stages, Delivered
  <1>4. CASE row["dast"] = "done" /\ Goto(t, "report_check")
    BY <1>1, <1>3, <1>4, GotoBase DEF Places, PastDastGate
  <1>5. CASE Return(t)
    BY <1>1, <1>5, ReturnBase
  <1> QED BY <1>2, <1>4, <1>5

LEMMA ReportCheckBase == ASSUME Base, NEW t \in Tasks, ReportCheck(t) PROVE Base'
  <1>1. /\ record' \in Record
        /\ UNCHANGED <<row, agent, artifacts, sent, used, restarted>>
    BY DEF ReportCheck, Base, TypeOK
  <1>2. "dast" \in artifacts
    BY PastReport DEF ReportCheck, At, PastReportGate
  <1>3. CASE Goto(t, "report_failed")
    BY <1>1, <1>2, <1>3, GotoBase DEF Places, PastDastGate
  <1>4. CASE Return(t)
    BY <1>1, <1>4, ReturnBase
  <1> QED BY <1>3, <1>4 DEF ReportCheck

\* A task that stays past the gate and may write a row that is there.
LEMMA ReportWriteBase ==
    ASSUME Base, NEW t \in Tasks, task[t].pc \in PastReportGate,
           NEW p \in PastReportGate, Goto(t, p),
           row' \in [Stages -> RowStatuses], Grows(row, row'),
           RowsSound(row', agent, artifacts),
           UNCHANGED <<record, agent, artifacts, sent, used, restarted>>
    PROVE  Base'
  <1> DEFINE k == [task[t] EXCEPT !.pc = p]
  <1>1. task[t] \in Task /\ Sound(task[t], row, artifacts) /\ "dast" \in artifacts
    BY PastReport DEF Base, TypeOK, TasksSound
  <1>2. Sound(task[t], row', artifacts)
    BY <1>1, SoundStays
  <1>3. k \in Task /\ Sound(k, row', artifacts)
    BY <1>1, <1>2, GotoSound DEF Places, PastReportGate, PastDastGate
  <1>4. task' = [task EXCEPT ![t] = k]
    BY DEF Goto
  <1> HIDE DEF k
  <1>5. /\ record' \in Record /\ agent' \in [Stages -> AgentStates] /\ sent' \in Nat
        /\ used' \in [runs : 0..MaxRuns, events : 0..MaxEvents]
    BY DEF Base, TypeOK
  <1> QED BY <1>3, <1>4, <1>5, TaskFrame

LEMMA ReportFailedBase == ASSUME Base, NEW t \in Tasks, ReportFailed(t) PROVE Base'
  <1>1. /\ record' \in Record
        /\ UNCHANGED <<row, agent, artifacts, sent, used, restarted>>
    BY DEF ReportFailed, Base, TypeOK
  <1>2. "dast" \in artifacts
    BY PastReport DEF ReportFailed, At, PastReportGate
  <1>3. PICK p \in {"report_reset", "report_claim"} : Goto(t, p)
    BY DEF ReportFailed
  <1> QED BY <1>1, <1>2, <1>3, GotoBase DEF Places, PastDastGate

LEMMA ReportResetBase == ASSUME Base, NEW t \in Tasks, ReportReset(t) PROVE Base'
  <1>1. /\ task[t].pc \in PastReportGate /\ Goto(t, "report_untrigger")
        /\ UNCHANGED <<record, agent, artifacts, sent, used, restarted>>
    BY DEF ReportReset, At, PastReportGate
  <1>2. /\ row' \in [Stages -> RowStatuses] /\ Grows(row, row')
        /\ RowsSound(row', agent, artifacts)
    BY UpdateRow DEF ReportReset, Stages, RowStatuses
  <1> QED BY <1>1, <1>2, ReportWriteBase DEF PastReportGate

LEMMA ReportUntriggerBase == ASSUME Base, NEW t \in Tasks, ReportUntrigger(t) PROVE Base'
  <1>1. record' \in Record
    BY DEF ReportUntrigger, Base, TypeOK, Record
  <1>2. "dast" \in artifacts
    BY PastReport DEF ReportUntrigger, At, PastReportGate
  <1> QED BY <1>1, <1>2, GotoBase DEF ReportUntrigger, Places, PastDastGate

LEMMA ReportClaimBase == ASSUME Base, NEW t \in Tasks, ReportClaim(t) PROVE Base'
  <1>1. /\ record' \in Record
        /\ UNCHANGED <<row, agent, artifacts, sent, used, restarted>>
    BY DEF ReportClaim, Base, TypeOK, Record
  <1>2. "dast" \in artifacts
    BY PastReport DEF ReportClaim, At, PastReportGate
  <1>3. CASE Goto(t, "report_mark")
    BY <1>1, <1>2, <1>3, GotoBase DEF Places, PastDastGate
  <1>4. CASE Return(t)
    BY <1>1, <1>4, ReturnBase
  <1> QED BY <1>3, <1>4 DEF ReportClaim

LEMMA ReportMarkBase == ASSUME Base, NEW t \in Tasks, ReportMark(t) PROVE Base'
  <1>1. /\ task[t].pc \in PastReportGate /\ Goto(t, "send_report")
        /\ UNCHANGED <<record, agent, artifacts, sent, used, restarted>>
    BY DEF ReportMark, At, PastReportGate
  <1>2. /\ row' \in [Stages -> RowStatuses] /\ Grows(row, row')
        /\ RowsSound(row', agent, artifacts)
    <2>1. CASE row["report"] = "new" /\ row' = [row EXCEPT !["report"] = "progress"]
      BY <2>1, MarkRow DEF Stages
    <2>2. CASE row' = row
      BY <2>2 DEF Base, TypeOK, Grows
    <2> QED BY <2>1, <2>2 DEF ReportMark
  <1> QED BY <1>1, <1>2, ReportWriteBase DEF PastReportGate

LEMMA SendReportBase == ASSUME Base, NEW t \in Tasks, SendReport(t) PROVE Base'
  <1> USE DEF SendReport, Answered, Unanswered
  <1>1. /\ sent' \in Nat /\ record' \in Record
        /\ UNCHANGED <<artifacts, restarted>>
    BY DEF Base, TypeOK
  <1>2. UNCHANGED used \/ Event
    OBVIOUS
  <1>3. used' \in [runs : 0..MaxRuns, events : 0..MaxEvents]
    BY <1>2, EventType DEF Base, TypeOK
  <1>4. \/ /\ row' = [row EXCEPT !["report"] = "progress"]
           /\ agent' \in {agent, [agent EXCEPT !["report"] = "accepted"]}
        \/ UNCHANGED <<row, agent>>
    OBVIOUS
  <1>5. /\ row' \in [Stages -> RowStatuses] /\ agent' \in [Stages -> AgentStates]
        /\ RowsSound(row', agent', artifacts) /\ Grows(row, row')
    <2>1. CASE /\ row' = [row EXCEPT !["report"] = "progress"]
               /\ agent' \in {agent, [agent EXCEPT !["report"] = "accepted"]}
      BY <2>1 DEF Base, TypeOK, RowsSound, PagesSound, Grows, Stages, AgentStates, Busy,
                  RowStatuses
    <2>2. CASE UNCHANGED <<row, agent>>
      BY <2>2 DEF Base, TypeOK, Grows
    <2> QED BY <1>4, <2>1, <2>2
  <1>6. PICK status \in {"new", "progress", "fail"} :
           task' = [task EXCEPT ![t].pc = "answer", ![t].stage = "report", ![t].remote = status]
    OBVIOUS
  <1>7. \E k \in Task : task' = [task EXCEPT ![t] = k] /\ Sound(k, row', artifacts)
    BY <1>6, AnsweredTask DEF Stages
  <1>8. PICK k \in Task : task' = [task EXCEPT ![t] = k] /\ Sound(k, row', artifacts)
    BY <1>7
  <1>9. Sound(k, row', artifacts') /\ RowsSound(row', agent', artifacts')
    BY <1>1, <1>5, <1>8
  <1> HIDE DEF SendReport, Answered, Unanswered
  <1> QED BY <1>1, <1>3, <1>5, <1>8, <1>9, TaskFrame

-----------------------------------------------------------------------------
(* Cancel and rerun *)

LEMMA CancelStageBase == ASSUME Base, NEW t \in Tasks, CancelStage(t) PROVE Base'
  <1> DEFINE s == task[t].stage
             pc == IF s = "report" \/ task[t].prev = "queued" THEN "cancel_record" ELSE "cancel"
             next == IF s = "sast" THEN "dast" ELSE "report"
             k == [task[t] EXCEPT !.pc = pc, !.stage = next]
  <1>1. task[t] \in Task /\ Sound(task[t], row, artifacts)
    BY DEF Base, TypeOK, TasksSound
  <1>2. s \in Stages /\ pc \in {"cancel", "cancel_record"} /\ next \in Stages
    BY <1>1 DEF Task, Stages
  <1>3. UpdateJobRow(s, "cancel") \/ UNCHANGED row
    BY DEF CancelStage
  <1>4. /\ row' \in [Stages -> RowStatuses] /\ Grows(row, row')
        /\ RowsSound(row', agent, artifacts)
    <2>1. CASE UpdateJobRow(s, "cancel")
      BY <1>2, <2>1, UpdateRow DEF RowStatuses, Terminal
    <2>2. CASE UNCHANGED row
      BY <2>2 DEF Base, TypeOK, Grows
    <2> QED BY <1>3, <2>1, <2>2
  <1>5. task' = [task EXCEPT ![t] = k]
    BY DEF CancelStage
  <1> HIDE DEF pc, next
  <1>6. k \in Task
    BY <1>1, <1>2 DEF Task, Places
  <1>7. k.pc = pc /\ k.seen = task[t].seen
    BY <1>1 DEF Task
  <1> HIDE DEF k
  <1>8. Sound(k, row', artifacts)
    BY <1>1, <1>2, <1>7 DEF Sound, PastDastGate, PastReportGate
  <1>9. /\ UNCHANGED <<agent, artifacts, restarted>> /\ record' \in Record
        /\ agent' \in [Stages -> AgentStates] /\ sent' \in Nat
        /\ used' \in [runs : 0..MaxRuns, events : 0..MaxEvents]
    BY DEF CancelStage, Base, TypeOK
  <1> QED BY <1>4, <1>5, <1>6, <1>8, <1>9, TaskFrame

LEMMA CancelRecordBase == ASSUME Base, NEW t \in Tasks, CancelRecord(t) PROVE Base'
  <1>1. record' \in Record
    BY DEF CancelRecord, Base, TypeOK, Record, ScanStatuses, Terminal
  <1> QED BY <1>1, ReturnBase DEF CancelRecord

LEMMA RerunGateBase == ASSUME Base, NEW t \in Tasks, RerunGate(t) PROVE Base'
  <1>1. /\ record' \in Record
        /\ UNCHANGED <<row, agent, artifacts, sent, used, restarted>>
    BY DEF RerunGate, Base, TypeOK
  <1>2. CASE Goto(t, "rerun_row")
    BY <1>1, <1>2, GotoBase DEF Places, PastDastGate, PastReportGate
  <1>3. CASE Return(t)
    BY <1>1, <1>3, ReturnBase
  <1> QED BY <1>2, <1>3 DEF RerunGate

LEMMA RerunRowBase == ASSUME Base, NEW t \in Tasks, RerunRow(t) PROVE Base'
  <1> DEFINE k == [task[t] EXCEPT !.pc = "rerun_record"]
  <1>1. task[t] \in Task /\ Sound(task[t], row, artifacts)
    BY DEF Base, TypeOK, TasksSound
  <1>2. /\ row' \in [Stages -> RowStatuses] /\ Grows(row, row')
        /\ RowsSound(row', agent, artifacts)
    BY UpdateRow DEF RerunRow, Stages, RowStatuses
  <1>3. Sound(task[t], row', artifacts)
    BY <1>1, <1>2, SoundStays
  <1>4. k \in Task /\ Sound(k, row', artifacts)
    BY <1>1, <1>3, GotoSound DEF Places, PastReportGate, PastDastGate
  <1>5. task' = [task EXCEPT ![t] = k]
    BY DEF RerunRow, Goto
  <1> HIDE DEF k
  <1>6. /\ UNCHANGED <<agent, artifacts, restarted>> /\ record' \in Record
        /\ agent' \in [Stages -> AgentStates] /\ sent' \in Nat
        /\ used' \in [runs : 0..MaxRuns, events : 0..MaxEvents]
    BY DEF RerunRow, Base, TypeOK
  <1> QED BY <1>2, <1>4, <1>5, <1>6, TaskFrame

LEMMA RerunRecordBase == ASSUME Base, NEW t \in Tasks, RerunRecord(t) PROVE Base'
  <1>1. record' \in Record /\ used' \in [runs : 0..MaxRuns, events : 0..MaxEvents]
    BY DEF RerunRecord, Base, TypeOK, Record, ScanStatuses
  <1> QED BY <1>1, SyncBase DEF RerunRecord, Returns

-----------------------------------------------------------------------------
(* The agents, and restarts *)

\* A step of an agent leaves the tasks alone; its artifacts come before the
\* word that it is done.
LEMMA AgentFrame ==
    ASSUME Base, UNCHANGED <<record, task, sent>>,
           row' \in [Stages -> RowStatuses], agent' \in [Stages -> AgentStates],
           artifacts' \subseteq Objects, artifacts \subseteq artifacts',
           used' \in [runs : 0..MaxRuns, events : 0..MaxEvents],
           restarted' \in BOOLEAN,
           Grows(row, row'), RowsSound(row', agent', artifacts')
    PROVE  Base'
  <1>1. TypeOK'
    BY DEF Base, TypeOK
  <1>2. ASSUME NEW t \in Tasks PROVE Sound(task'[t], row', artifacts')
    <2>1. task[t] \in Task /\ Sound(task[t], row, artifacts) /\ task'[t] = task[t]
      BY DEF Base, TypeOK, TasksSound
    <2> QED BY <2>1, SoundStays
  <1> QED BY <1>1, <1>2 DEF Base, TasksSound

\* The two pages, in their order.
LEMMA NextPage ==
    /\ DOMAIN NextPut = {"working", "highlevel"}
    /\ NextPut["working"] = "highlevel" /\ NextPut["highlevel"] = "detail"
  BY DEF NextPut

LEMMA AgentStepBase == ASSUME Base, NEW s \in Stages, AgentStep(s) PROVE Base'
  <1>0. /\ row \in [Stages -> RowStatuses] /\ agent \in [Stages -> AgentStates]
        /\ artifacts \subseteq Objects
        /\ used \in [runs : 0..MaxRuns, events : 0..MaxEvents] /\ restarted \in BOOLEAN
        /\ RowsSound(row, agent, artifacts)
    BY DEF Base, TypeOK
  <1> USE DEF RowsSound, PagesSound, Delivered, Grows, Stages, RowStatuses, AgentStates, Busy,
              Pages, Objects, Terminal
  <1>1. CASE BeginWork(s)
    <2>1. /\ row' \in [Stages -> RowStatuses] /\ agent' \in [Stages -> AgentStates]
          /\ Grows(row, row') /\ RowsSound(row', agent', artifacts')
      BY <1>0, <1>1 DEF BeginWork
    <2> QED BY <1>0, <1>1, <2>1, AgentFrame DEF BeginWork
  <1>2. CASE NoteProgress(s)
    <2>1. /\ row' \in [Stages -> RowStatuses] /\ agent' \in [Stages -> AgentStates]
          /\ Grows(row, row') /\ RowsSound(row', agent', artifacts')
      BY <1>0, <1>2 DEF NoteProgress
    <2> QED BY <1>0, <1>2, <2>1, AgentFrame DEF NoteProgress
  <1>3. CASE SaveArtifacts(s)
    <2>1. /\ row' \in [Stages -> RowStatuses] /\ agent' \in [Stages -> AgentStates]
          /\ Grows(row, row') /\ RowsSound(row', agent', artifacts')
      BY <1>0, <1>3 DEF SaveArtifacts
    <2> QED BY <1>0, <1>3, <2>1, AgentFrame DEF SaveArtifacts
  <1>6. CASE PutReport(s)
    <2>1. \/ /\ agent["report"] = "working" /\ agent' = [agent EXCEPT !["report"] = "highlevel"]
             /\ artifacts' = artifacts \cup {"highlevel"}
          \/ /\ agent["report"] = "highlevel" /\ agent' = [agent EXCEPT !["report"] = "detail"]
             /\ artifacts' = artifacts \cup {"detail"}
      BY <1>0, <1>6, NextPage DEF PutReport
    <2>2. /\ row' \in [Stages -> RowStatuses] /\ agent' \in [Stages -> AgentStates]
          /\ Grows(row, row') /\ RowsSound(row', agent', artifacts')
          /\ artifacts' \subseteq Objects /\ artifacts \subseteq artifacts'
      BY <1>0, <1>6, <2>1 DEF PutReport
    <2> QED BY <1>0, <1>6, <2>2, AgentFrame DEF PutReport
  <1>7. CASE NoteRendering(s)
    <2>1. /\ row' \in [Stages -> RowStatuses] /\ agent' \in [Stages -> AgentStates]
          /\ Grows(row, row') /\ RowsSound(row', agent', artifacts')
      BY <1>0, <1>7 DEF NoteRendering
    <2> QED BY <1>0, <1>7, <2>1, AgentFrame DEF NoteRendering
  <1>4. CASE FinishWork(s)
    <2>1. /\ row' \in [Stages -> RowStatuses] /\ agent' \in [Stages -> AgentStates]
          /\ Grows(row, row') /\ RowsSound(row', agent', artifacts')
      BY <1>0, <1>4 DEF FinishWork
    <2> QED BY <1>0, <1>4, <2>1, AgentFrame DEF FinishWork
  <1>5. CASE FailWork(s)
    <2>1. /\ row' \in [Stages -> RowStatuses] /\ agent' \in [Stages -> AgentStates]
          /\ Grows(row, row') /\ RowsSound(row', agent', artifacts')
      BY <1>0, <1>5 DEF FailWork
    <2> QED BY <1>0, <1>5, <2>1, EventType, AgentFrame DEF FailWork
  <1> QED BY <1>1, <1>2, <1>3, <1>4, <1>5, <1>6, <1>7 DEF AgentStep

LEMMA AgentRestartBase == ASSUME Base, NEW s \in Stages, AgentRestart(s) PROVE Base'
  <1>1. /\ row' \in [Stages -> RowStatuses] /\ agent' \in [Stages -> AgentStates]
        /\ artifacts' \subseteq Objects /\ restarted' \in BOOLEAN
        /\ Grows(row, row') /\ RowsSound(row', agent', artifacts')
    BY DEF AgentRestart, Base, TypeOK, RowsSound, PagesSound, Grows, Stages, AgentStates,
           Busy, Pages
  <1> QED BY <1>1, EventType, AgentFrame DEF AgentRestart

LEMMA ManagerRestartBase == ASSUME Base, ManagerRestart PROVE Base'
  <1>1. task' \in [Tasks -> Task] /\ restarted' \in BOOLEAN
    BY IdleSound DEF ManagerRestart
  <1>2. used' \in [runs : 0..MaxRuns, events : 0..MaxEvents]
    BY EventType DEF ManagerRestart
  <1>3. TypeOK'
    BY <1>1, <1>2 DEF ManagerRestart, Base, TypeOK
  <1>4. TasksSound'
    BY IdleSound DEF ManagerRestart, TasksSound
  <1> QED BY <1>3, <1>4 DEF ManagerRestart, Base

-----------------------------------------------------------------------------
LEMMA TaskStepBase == ASSUME Base, NEW t \in Tasks, TaskStep(t) PROVE Base'
  BY ClaimBase, EnqueueBase, PersistJobsBase, SendSastBase, AdoptSastIdBase, AnswerBase,
     LoadRecordBase, SyncIdsBase, CheckRowBase, AskAgentBase, WriteBackBase, ReadRowBase,
     ReconcileReportBase, ReadReconciledBase, SettleBase, DastGateBase, DastCheckBase, DastClaimBase,
     DastMarkBase, SendDastBase, ReportGateBase, ReportCheckBase, ReportFailedBase,
     ReportResetBase, ReportUntriggerBase, ReportClaimBase, ReportMarkBase, SendReportBase,
     CancelStageBase, CancelRecordBase, RerunGateBase, RerunRowBase, RerunRecordBase
  DEF TaskStep

\* Base holds at first.
LEMMA BaseInit == Init => Base
  <1> SUFFICES ASSUME Init PROVE Base
    OBVIOUS
  <1>1. TypeOK
    <2>1. record \in Record
      BY DEF Init, Record, ScanStatuses
    <2>2. /\ row \in [Stages -> RowStatuses] /\ agent \in [Stages -> AgentStates]
          /\ artifacts \subseteq Objects
      BY DEF Init, RowStatuses, AgentStates
    <2>3. task \in [Tasks -> Task]
      BY IdleSound DEF Init
    <2>4. used \in [runs : 0..MaxRuns, events : 0..MaxEvents]
      BY BoundsAssumption DEF Init
    <2>5. sent \in Nat /\ restarted \in BOOLEAN
      BY DEF Init
    <2> QED BY <2>1, <2>2, <2>3, <2>4, <2>5 DEF TypeOK
  <1>2. TasksSound
    BY IdleSound DEF Init, TasksSound
  <1>3. RowsSound(row, agent, artifacts)
    BY DEF Init, RowsSound, PagesSound, Stages
  <1> QED BY <1>1, <1>2, <1>3 DEF Base

\* Base is kept by every step.
LEMMA BaseStep == Base /\ [Next]_vars => Base'
  <1> SUFFICES ASSUME Base, [Next]_vars PROVE Base'
    OBVIOUS
  <1>1. ASSUME NEW t \in Tasks, TaskStep(t) PROVE Base'
    BY <1>1, TaskStepBase
  <1>2. ASSUME NEW t \in Tasks,
               RunScan(t) \/ Refresh(t) \/ CancelScan(t) \/ RerunReport(t)
        PROVE  Base'
    BY <1>2, RunScanBase, RefreshBase, CancelScanBase, RerunReportBase
  <1>3. ASSUME NEW s \in Stages, AgentStep(s) \/ AgentRestart(s) PROVE Base'
    BY <1>3, AgentStepBase, AgentRestartBase
  <1>4. CASE UNCHANGED vars
    BY <1>4 DEF vars, Base, TypeOK, TasksSound
  <1> QED BY <1>1, <1>2, <1>3, <1>4, ManagerRestartBase DEF Next

\* Every variable has its type.
THEOREM TypeCorrect == Spec => []TypeOK
  <1>1. Base => TypeOK
    BY DEF Base
  <1> QED BY <1>1, BaseInit, BaseStep, PTL DEF Spec

-----------------------------------------------------------------------------
(* SAST -> DAST -> Report *)

\* Handlers put nothing into the bucket, and three statements wake an agent.
LEMMA TaskStepAgents ==
    ASSUME NEW t \in Tasks, TaskStep(t)
    PROVE  /\ artifacts' = artifacts
           /\ SendSast(t) \/ SendDast(t) \/ SendReport(t) \/ agent' = agent
  <1>1. CASE Claim(t) \/ Enqueue(t) \/ PersistJobs(t) \/ AdoptSastId(t) \/ Answer(t)
             \/ LoadRecord(t) \/ SyncIds(t)
    BY <1>1 DEF Claim, Enqueue, PersistJobs, AdoptSastId, Answer, LoadRecord, SyncIds
  <1>2. CASE CheckRow(t) \/ AskAgent(t) \/ WriteBack(t) \/ ReadRow(t) \/ ReconcileReport(t)
             \/ ReadReconciled(t) \/ Settle(t)
    BY <1>2 DEF CheckRow, AskAgent, WriteBack, ReadRow, ReconcileReport, ReadReconciled,
                Settle
  <1>3. CASE DastGate(t) \/ DastCheck(t) \/ DastClaim(t) \/ DastMark(t)
    BY <1>3 DEF DastGate, DastCheck, DastClaim, DastMark
  <1>4. CASE ReportGate(t) \/ ReportCheck(t) \/ ReportFailed(t) \/ ReportReset(t)
             \/ ReportUntrigger(t) \/ ReportClaim(t) \/ ReportMark(t)
    BY <1>4 DEF ReportGate, ReportCheck, ReportFailed, ReportReset, ReportUntrigger,
                ReportClaim, ReportMark
  <1>5. CASE CancelStage(t) \/ CancelRecord(t) \/ RerunGate(t) \/ RerunRow(t) \/ RerunRecord(t)
    BY <1>5 DEF CancelStage, CancelRecord, RerunGate, RerunRow, RerunRecord
  <1>6. CASE SendSast(t) \/ SendDast(t) \/ SendReport(t)
    BY <1>6 DEF SendSast, SendDast, SendReport
  <1> QED BY <1>1, <1>2, <1>3, <1>4, <1>5, <1>6 DEF TaskStep

\* A stage starts only after what it needs, at every step.
LEMMA OrderStep == Base /\ PipelineOrder /\ [Next]_vars => PipelineOrder'
  <1> SUFFICES ASSUME Base, PipelineOrder, [Next]_vars PROVE PipelineOrder'
    OBVIOUS
  <1>0. agent \in [Stages -> AgentStates] /\ task \in [Tasks -> Task]
    BY DEF Base, TypeOK
  <1>1. ASSUME NEW t \in Tasks, TaskStep(t) PROVE PipelineOrder'
    <2>1. CASE agent' = agent
      BY <1>1, <2>1, TaskStepAgents DEF PipelineOrder
    <2>2. CASE SendSast(t)
      BY <1>0, <2>2 DEF SendSast, PipelineOrder, Stages
    <2>3. CASE SendDast(t)
      <3>1. "sast" \in artifacts
        BY <2>3, PastDast DEF SendDast, At, PastDastGate
      <3> QED BY <1>0, <2>3, <3>1 DEF SendDast, PipelineOrder, Stages
    <2>4. CASE SendReport(t)
      <3>1. "dast" \in artifacts
        BY <2>4, PastReport DEF SendReport, At, PastReportGate
      <3> QED BY <1>0, <2>4, <3>1 DEF SendReport, PipelineOrder, Stages
    <2> QED BY <1>1, <2>1, <2>2, <2>3, <2>4, TaskStepAgents
  <1>2. ASSUME NEW t \in Tasks,
               RunScan(t) \/ Refresh(t) \/ CancelScan(t) \/ RerunReport(t)
        PROVE  PipelineOrder'
    BY <1>2 DEF RunScan, Refresh, CancelScan, RerunReport, PipelineOrder
  <1>3. ASSUME NEW s \in Stages, AgentStep(s) \/ AgentRestart(s) PROVE PipelineOrder'
    <2>1. artifacts \subseteq artifacts'
      BY <1>3 DEF AgentStep, BeginWork, NoteProgress, SaveArtifacts, PutReport, NoteRendering,
                  FinishWork, FailWork, AgentRestart
    <2>2. agent[s] # "idle" /\ \A u \in Stages \ {s} : agent'[u] = agent[u]
      BY <1>0, <1>3, NextPage
      DEF AgentStep, BeginWork, NoteProgress, SaveArtifacts, PutReport, NoteRendering,
          FinishWork, FailWork, AgentRestart, Busy, Pages
    <2>3. \A u \in Stages : agent'[u] # "idle" => agent[u] # "idle"
      BY <2>2
    <2> QED BY <2>1, <2>3 DEF PipelineOrder, Stages
  <1>4. CASE ManagerRestart
    BY <1>4 DEF ManagerRestart, PipelineOrder
  <1>5. CASE UNCHANGED vars
    BY <1>5 DEF vars, PipelineOrder
  <1> QED BY <1>1, <1>2, <1>3, <1>4, <1>5 DEF Next

\* An agent is set to work only when the artifacts of the stage before it are in
\* the bucket, for any number of handlers deciding on copies of any age.
THEOREM OrderCorrect == Spec => []PipelineOrder
  <1>1. Init => PipelineOrder
    BY DEF Init, PipelineOrder, Stages
  <1> QED BY <1>1, BaseInit, BaseStep, OrderStep, PTL DEF Spec

-----------------------------------------------------------------------------
(* A scan that is done *)

\* What a scan that is done has delivered.
AllDelivered ==
    /\ {"sast", "dast", "highlevel"} \subseteq artifacts
    /\ Pages \subseteq artifacts \/ agent["report"] \in Busy \cup {"broken"}

\* The status is computed as done only when that is there.
LEMMA SettleDone ==
    ASSUME Base, NEW t \in Tasks, Aggregate(WithWaiting(task[t].seen)) = "done"
    PROVE  AllDelivered
  <1>1. /\ task[t].seen \in [Stages -> RowStatuses] /\ agent["report"] \in AgentStates
        /\ PagesSound(agent, artifacts)
    BY DEF Base, TypeOK, Task, RowsSound, Stages
  <1>2. \A s \in Stages : WithWaiting(task[t].seen)[s] = "done"
    BY AggregateSound
  <1>3. \A s \in Stages : task[t].seen[s] = "done"
    BY <1>1, <1>2, WaitingSound
  <1>4. \A s \in Stages : Delivered(s, artifacts)
    BY <1>3 DEF Base, TasksSound, Sound
  <1>5. {"sast", "dast"} \subseteq artifacts /\ Pages \cap artifacts # {}
    BY <1>4 DEF Stages, Delivered
  <1>6. "highlevel" \in artifacts /\ agent["report"] # "idle"
    BY <1>1, <1>5 DEF PagesSound, Pages
  <1>7. agent["report"] = "over" => Pages \subseteq artifacts
    BY <1>1 DEF PagesSound, Pages
  <1> QED BY <1>1, <1>5, <1>6, <1>7 DEF AllDelivered, AgentStates

\* The statements that write the record, and what they write there.
LEMMA TaskStepDone ==
    ASSUME Base, NEW t \in Tasks, TaskStep(t), record'.status = "done"
    PROVE  record.status = "done" \/ AllDelivered
  <1>0. record \in Record
    BY DEF Base, TypeOK
  <1>1. CASE Settle(t)
    <2>1. \/ record' = [record EXCEPT !.status = Aggregate(WithWaiting(task[t].seen))]
          \/ record' = record
      BY <1>1 DEF Settle
    <2> QED BY <1>0, <2>1, SettleDone DEF Record
  <1>2. CASE Claim(t) \/ Enqueue(t) \/ PersistJobs(t) \/ AdoptSastId(t)
    BY <1>0, <1>2 DEF Claim, Enqueue, PersistJobs, AdoptSastId, Record
  <1>7. CASE SyncIds(t)
    <2>1. PICK i, j : record' \in {record, [record EXCEPT !.sastid = i, !.jobids = j]}
      BY <1>7 DEF SyncIds
    <2>2. record'.status = record.status
      BY <1>0, <2>1 DEF Record
    <2> QED BY <2>2
  <1>3. CASE DastClaim(t) \/ ReportUntrigger(t) \/ ReportClaim(t) \/ CancelRecord(t)
             \/ RerunRecord(t)
    BY <1>0, <1>3 DEF DastClaim, ReportUntrigger, ReportClaim, CancelRecord, RerunRecord, Record
  <1>4. CASE SendSast(t) \/ Answer(t) \/ LoadRecord(t) \/ CheckRow(t) \/ AskAgent(t)
             \/ WriteBack(t) \/ ReadRow(t) \/ ReconcileReport(t) \/ ReadReconciled(t)
    BY <1>4 DEF SendSast, Answer, LoadRecord, CheckRow, AskAgent, WriteBack, ReadRow,
                ReconcileReport, ReadReconciled
  <1>5. CASE DastGate(t) \/ DastCheck(t) \/ DastMark(t) \/ SendDast(t) \/ ReportGate(t)
             \/ ReportCheck(t) \/ ReportFailed(t) \/ ReportReset(t) \/ ReportMark(t)
             \/ SendReport(t)
    BY <1>5 DEF DastGate, DastCheck, DastMark, SendDast, ReportGate, ReportCheck,
                ReportFailed, ReportReset, ReportMark, SendReport
  <1>6. CASE CancelStage(t) \/ RerunGate(t) \/ RerunRow(t)
    BY <1>6 DEF CancelStage, RerunGate, RerunRow
  <1> QED BY <1>1, <1>2, <1>3, <1>4, <1>5, <1>6, <1>7 DEF TaskStep

\* A scan that becomes done has delivered, and what it has delivered stays so.
LEMMA DoneStep == Base /\ DoneIsDelivered /\ [Next]_vars => DoneIsDelivered'
  <1> SUFFICES ASSUME Base, DoneIsDelivered, [Next]_vars, record'.status = "done"
               PROVE  AllDelivered'
    BY DEF DoneIsDelivered, AllDelivered
  <1>0. /\ agent \in [Stages -> AgentStates] /\ PagesSound(agent, artifacts)
        /\ record.status = "done" => AllDelivered
    BY DEF Base, TypeOK, RowsSound, DoneIsDelivered, AllDelivered
  <1>1. ASSUME NEW t \in Tasks, TaskStep(t) PROVE AllDelivered'
    <2>1. AllDelivered /\ artifacts' = artifacts
      BY <1>0, <1>1, TaskStepDone, TaskStepAgents
    <2>2. agent'["report"] \in {agent["report"], "accepted"}
      <3>1. CASE SendSast(t) \/ SendDast(t) \/ SendReport(t)
        BY <1>0, <3>1 DEF SendSast, SendDast, SendReport, Stages
      <3> QED BY <1>1, <3>1, TaskStepAgents
    <2> QED BY <2>1, <2>2 DEF AllDelivered, Busy
  <1>2. ASSUME NEW t \in Tasks,
               RunScan(t) \/ Refresh(t) \/ CancelScan(t) \/ RerunReport(t)
        PROVE  AllDelivered'
    BY <1>0, <1>2 DEF RunScan, Refresh, CancelScan, RerunReport, AllDelivered
  <1>3. ASSUME NEW s \in Stages, AgentStep(s) \/ AgentRestart(s) PROVE AllDelivered'
    <2>1. record' = record /\ artifacts \subseteq artifacts'
      BY <1>3 DEF AgentStep, BeginWork, NoteProgress, SaveArtifacts, PutReport, NoteRendering,
                  FinishWork, FailWork, AgentRestart
    <2>2. \/ agent'["report"] \in {agent["report"], "broken"} \cup Busy
          \/ agent["report"] = "rendering"
      BY <1>0, <1>3 DEF AgentStep, BeginWork, NoteProgress, SaveArtifacts, PutReport,
                        NextPut, NoteRendering, FinishWork, FailWork, AgentRestart,
                        Stages, Busy, Pages
    <2>3. agent["report"] = "rendering" => Pages \subseteq artifacts
      BY <1>0 DEF PagesSound, Pages
    <2> QED BY <1>0, <2>1, <2>2, <2>3 DEF AllDelivered
  <1>4. CASE ManagerRestart
    BY <1>0, <1>4 DEF ManagerRestart, AllDelivered
  <1>5. CASE UNCHANGED vars
    BY <1>0, <1>5 DEF vars, AllDelivered
  <1> QED BY <1>1, <1>2, <1>3, <1>4, <1>5 DEF Next

\* A scan that says done has the artifacts of SAST and DAST and the first page of the
\* report in the bucket, and the second unless AgentReport is at work or broken down.
THEOREM DoneCorrect == Spec => []DoneIsDelivered
  <1>1. Init => DoneIsDelivered
    BY DEF Init, DoneIsDelivered
  <1> QED BY <1>1, BaseInit, BaseStep, DoneStep, PTL DEF Spec

-----------------------------------------------------------------------------
(* The start of DAST *)

\* Nothing that a start of DAST depends on changes, but for the places of tasks.
Calm ==
    /\ record'.dast_triggered = record.dast_triggered
    /\ row'["dast"] = "absent" <=> row["dast"] = "absent"
    /\ sent' = sent
    /\ restarted => restarted'

Others(t) == \A u \in Tasks \ {t} : task'[u] = task[u]

\* A step of a task that neither is on its way to a start nor sets out for one.
Aside(t) ==
    /\ Calm
    /\ Others(t)
    /\ task[t].pc \notin Begun
    /\ task'[t].pc \notin Begun

\* A step of one task leaves the others alone.
LEMMA Moves ==
    ASSUME task \in [Tasks -> Task], NEW t \in Tasks, NEW k, task' = [task EXCEPT ![t] = k]
    PROVE  Others(t) /\ task'[t] = k
  BY DEF Others

\* So does going to another place,
LEMMA GotoMoves ==
    ASSUME task \in [Tasks -> Task], NEW t \in Tasks, NEW p, Goto(t, p)
    PROVE  Others(t) /\ task'[t].pc = p
  <1>1. Others(t) /\ task'[t] = [task[t] EXCEPT !.pc = p]
    BY DEF Goto, Others
  <1>2. task[t] \in Task
    OBVIOUS
  <1> QED BY <1>1, <1>2 DEF Task

\* going back to rest,
LEMMA ReturnMoves ==
    ASSUME task \in [Tasks -> Task], NEW t \in Tasks, Return(t)
    PROVE  Others(t) /\ task'[t].pc = "idle"
  BY Moves, IdleFields DEF Return

\* starting a synchronisation,
LEMMA SyncMoves ==
    ASSUME task \in [Tasks -> Task], NEW t \in Tasks, NEW p,
           task' = [task EXCEPT ![t] = Sync(p)]
    PROVE  Others(t) /\ task'[t].pc = "load"
  <1>1. Sync(p).pc = "load"
    BY IdleSound DEF Sync, Task
  <1> QED BY <1>1, Moves

\* loading the record
LEMMA LoadMoves ==
    ASSUME task \in [Tasks -> Task], NEW t \in Tasks, NEW p, Load(t, p)
    PROVE  Others(t) /\ task'[t].pc \in {p, "ids"}
  <1> DEFINE pc == IF record.sastid /\ record.jobids THEN p ELSE "ids"
             then == IF record.sastid /\ record.jobids THEN "idle" ELSE p
             prev == IF p \in {"check", "cancel"} THEN record.status ELSE "new"
             k == [Idle EXCEPT !.pc = pc, !.then = then, !.prev = prev,
                               !.sastid = record.sastid, !.jobids = record.jobids]
  <1>1. Others(t) /\ task'[t] = k
    BY Moves DEF Load
  <1>2. pc \in {p, "ids"}
    OBVIOUS
  <1> HIDE DEF pc, then, prev
  <1>3. k.pc = pc
    BY IdleSound DEF Task
  <1> QED BY <1>1, <1>2, <1>3

\* and looking at a row.
LEMMA SeeMoves ==
    ASSUME task \in [Tasks -> Task], NEW t \in Tasks, See(t)
    PROVE  Others(t) /\ task'[t].pc \in {"artifacts", "check"}
  BY DEF See, Others, Task

\* Steps that do not lead to a start of DAST change nothing that counts for it,
LEMMA AsideStep ==
    ASSUME Base, NEW t \in Tasks, TaskStep(t),
           ~(Claim(t) \/ PersistJobs(t) \/ DastClaim(t) \/ DastMark(t) \/ SendDast(t))
    PROVE  Aside(t)
  <1>0. /\ task \in [Tasks -> Task] /\ task[t] \in Task /\ record \in Record
        /\ row \in [Stages -> RowStatuses] /\ Sound(task[t], row, artifacts)
        /\ used \in [runs : 0..MaxRuns, events : 0..MaxEvents]
    BY DEF Base, TypeOK, TasksSound
  <1> USE DEF Begun, Aside, Calm, At
  <1>1. CASE Enqueue(t)
    BY <1>0, <1>1, ReturnMoves DEF Enqueue, Record
  <1>2. CASE SendSast(t)
    <2>1. row'["dast"] = row["dast"]
      BY <1>0, <1>2 DEF SendSast, Stages
    <2>2. Others(t) /\ task'[t].pc \in {"adopt", "load"}
      <3>1. CASE task' = [task EXCEPT ![t].pc = "adopt", ![t].remote = "new"]
        BY <1>0, <3>1 DEF Others, Task
      <3>2. CASE task' = [task EXCEPT ![t] = Sync("check")]
        BY <1>0, <3>2, SyncMoves
      <3> QED BY <1>2, <3>1, <3>2 DEF SendSast
    <2>3. UNCHANGED <<record, sent, restarted>> /\ task[t].pc = "send_sast"
      BY <1>2 DEF SendSast
    <2> QED BY <2>1, <2>2, <2>3
  <1>3. CASE AdoptSastId(t)
    BY <1>0, <1>3, GotoMoves DEF AdoptSastId, Record
  <1>4. CASE Answer(t)
    <2>1. /\ task[t].pc = "answer" /\ task[t].stage \in Stages
          /\ task[t].remote \in {"new", "progress", "fail"}
          /\ task[t].remote \in RowStatuses \ {"absent"}
      BY <1>0, <1>4 DEF Answer, Sound, Task, RowStatuses, Terminal
    <2>2. row'["dast"] = "absent" <=> row["dast"] = "absent"
      BY <1>4, <2>1, UpdateRow DEF Answer, Stages
    <2>3. PICK k : k \in {Sync("check"), Sync("report_gate"), Idle}
                   /\ task' = [task EXCEPT ![t] = k]
      BY <1>4, <2>1 DEF Answer, Stages
    <2>4. Others(t) /\ task'[t].pc \in {"load", "idle"}
      BY <1>0, <2>3, SyncMoves, Moves, IdleFields
    <2> QED BY <1>4, <2>1, <2>2, <2>4 DEF Answer
  <1>5. CASE LoadRecord(t)
    <2>1. task[t].pc = "load" /\ task[t].then \in Returns
      BY <1>0, <1>5 DEF LoadRecord, Sound
    <2>2. Others(t) /\ task'[t].pc \in {task[t].then, "ids"}
      BY <1>0, <1>5, LoadMoves DEF LoadRecord
    <2> QED BY <1>5, <2>1, <2>2 DEF LoadRecord, Returns
  <1>6. CASE SyncIds(t)
    <2>1. task[t].pc = "ids" /\ task[t].then \in Returns
      BY <1>0, <1>6 DEF SyncIds, Sound
    <2> DEFINE i == task[t].sastid \/ row["sast"] # "absent"
               j == task[t].jobids \/ row["dast"] # "absent"
    <2>2. /\ record' \in {record, [record EXCEPT !.sastid = i, !.jobids = j]}
          /\ task' = [task EXCEPT ![t].pc = task[t].then, ![t].then = "idle",
                                  ![t].sastid = i, ![t].jobids = j]
      BY <1>6 DEF SyncIds
    <2> HIDE DEF i, j
    <2>3. record'.dast_triggered = record.dast_triggered
      BY <1>0, <2>2 DEF Record
    <2>4. Others(t) /\ task'[t].pc = task[t].then
      BY <1>0, <2>2 DEF Others, Task
    <2> QED BY <1>6, <2>1, <2>3, <2>4 DEF SyncIds, Returns
  <1>7. CASE CheckRow(t)
    <2>1. Goto(t, "ask") \/ See(t)
      BY <1>7 DEF CheckRow
    <2>2. Others(t) /\ task'[t].pc \in {"ask", "artifacts", "check"}
      BY <1>0, <2>1, GotoMoves, SeeMoves
    <2> QED BY <1>7, <2>2 DEF CheckRow
  <1>8. CASE AskAgent(t)
    <2>1. Others(t) /\ task'[t].pc \in {"write", "artifacts", "check"}
      <3>1. CASE task' = [task EXCEPT ![t].pc = "write", ![t].remote = row[task[t].stage]]
        BY <1>0, <3>1 DEF Others, Task
      <3>2. CASE See(t)
        BY <1>0, <3>2, SeeMoves
      <3> QED BY <1>8, <3>1, <3>2 DEF AskAgent
    <2> QED BY <1>8, <2>1 DEF AskAgent
  <1>9. CASE WriteBack(t)
    <2>1. /\ task[t].pc = "write" /\ task[t].stage \in Stages
          /\ task[t].remote \in RowStatuses \ {"absent"}
          /\ task[t].remote = "done" => Delivered(task[t].stage, artifacts)
      BY <1>0, <1>9 DEF WriteBack, Sound, Task
    <2>2. row'["dast"] = "absent" <=> row["dast"] = "absent"
      BY <1>9, <2>1, UpdateRow DEF WriteBack, Stages
    <2>3. Others(t) /\ task'[t].pc = "read"
      BY <1>0, <1>9 DEF WriteBack, Others, Task
    <2> QED BY <1>9, <2>1, <2>2, <2>3 DEF WriteBack
  <1>10. CASE ReadRow(t)
    BY <1>0, <1>10, SeeMoves DEF ReadRow
  <1>11. CASE ReconcileReport(t)
    <2>1. row'["dast"] = row["dast"]
      BY <1>0, <1>11 DEF ReconcileReport, UpdateJobRow, Stages
    <2>2. Others(t) /\ task'[t].pc \in {"reconciled", "settle"}
      BY <1>0, <1>11, GotoMoves DEF ReconcileReport
    <2> QED BY <1>11, <2>1, <2>2 DEF ReconcileReport
  <1>27. CASE ReadReconciled(t)
    BY <1>0, <1>27 DEF ReadReconciled, Others, Task
  <1>12. CASE Settle(t)
    <2>1. \/ record' = [record EXCEPT !.status = Aggregate(WithWaiting(task[t].seen))]
          \/ record' = record
      BY <1>12 DEF Settle
    <2>2. record'.dast_triggered = record.dast_triggered
      BY <1>0, <2>1 DEF Record
    <2>3. Others(t) /\ task'[t].pc = "load"
      BY <1>0, <1>12, SyncMoves DEF Settle
    <2> QED BY <1>12, <2>2, <2>3 DEF Settle
  <1>13. CASE DastGate(t)
    <2>1. Goto(t, "dast_check") \/ task' = [task EXCEPT ![t] = Sync("report_gate")]
      BY <1>13 DEF DastGate, Goto
    <2>2. Others(t) /\ task'[t].pc \in {"dast_check", "load"}
      BY <1>0, <2>1, GotoMoves, SyncMoves
    <2> QED BY <1>13, <2>2 DEF DastGate
  <1>14. CASE DastCheck(t)
    <2>1. Goto(t, "dast_claim") \/ task' = [task EXCEPT ![t] = Sync("report_gate")]
      BY <1>14 DEF DastCheck, Goto
    <2>2. Others(t) /\ task'[t].pc \in {"dast_claim", "load"}
      BY <1>0, <2>1, GotoMoves, SyncMoves
    <2> QED BY <1>14, <2>2 DEF DastCheck
  <1>15. CASE ReportGate(t)
    BY <1>0, <1>15, GotoMoves, ReturnMoves DEF ReportGate
  <1>16. CASE ReportCheck(t)
    BY <1>0, <1>16, GotoMoves, ReturnMoves DEF ReportCheck
  <1>17. CASE ReportFailed(t)
    <2>1. PICK p \in {"report_reset", "report_claim"} : Goto(t, p)
      BY <1>17 DEF ReportFailed
    <2> QED BY <1>0, <1>17, <2>1, GotoMoves DEF ReportFailed
  <1>28. CASE ReportReset(t)
    BY <1>0, <1>28, GotoMoves DEF ReportReset, UpdateJobRow, Stages
  <1>18. CASE ReportUntrigger(t)
    BY <1>0, <1>18, GotoMoves DEF ReportUntrigger, Record
  <1>19. CASE ReportClaim(t)
    BY <1>0, <1>19, GotoMoves, ReturnMoves DEF ReportClaim, Record
  <1>20. CASE ReportMark(t)
    BY <1>0, <1>20, GotoMoves DEF ReportMark, Stages
  <1>21. CASE SendReport(t)
    <2>1. row'["dast"] = row["dast"]
      BY <1>0, <1>21 DEF SendReport, Stages
    <2>2. PICK status : task' = [task EXCEPT ![t].pc = "answer", ![t].stage = "report",
                                             ![t].remote = status]
      BY <1>21 DEF SendReport, Answered, Unanswered
    <2>3. Others(t) /\ task'[t].pc = "answer"
      BY <1>0, <2>2 DEF Others, Task
    <2> QED BY <1>21, <2>1, <2>3 DEF SendReport
  <1>22. CASE CancelStage(t)
    <2>1. row'["dast"] = "absent" <=> row["dast"] = "absent"
      BY <1>0, <1>22 DEF CancelStage, UpdateJobRow, Task, Stages
    <2>2. Others(t) /\ task'[t].pc \in {"cancel", "cancel_record"}
      BY <1>0, <1>22 DEF CancelStage, Others, Task
    <2> QED BY <1>22, <2>1, <2>2 DEF CancelStage
  <1>23. CASE CancelRecord(t)
    BY <1>0, <1>23, ReturnMoves DEF CancelRecord, Record
  <1>24. CASE RerunGate(t)
    BY <1>0, <1>24, GotoMoves, ReturnMoves DEF RerunGate
  <1>25. CASE RerunRow(t)
    BY <1>0, <1>25, GotoMoves DEF RerunRow, UpdateJobRow, Stages
  <1>26. CASE RerunRecord(t)
    <2>1. record'.dast_triggered = record.dast_triggered
      BY <1>0, <1>26 DEF RerunRecord, Record
    <2> QED BY <1>0, <1>26, <2>1, SyncMoves DEF RerunRecord
  <1> HIDE DEF Begun, Aside, Calm, At
  <1> QED BY <1>1, <1>2, <1>3, <1>4, <1>5, <1>6, <1>7, <1>8, <1>9, <1>10, <1>11, <1>12,
             <1>13, <1>14, <1>15, <1>16, <1>17, <1>18, <1>19, <1>20, <1>21, <1>22, <1>23,
             <1>24, <1>25, <1>26, <1>27, <1>28 DEF TaskStep

\* and neither do the handlers that begin.
LEMMA HandlerAside ==
    ASSUME Base, NEW t \in Tasks, RunScan(t) \/ Refresh(t) \/ CancelScan(t) \/ RerunReport(t)
    PROVE  Aside(t)
  <1>0. task \in [Tasks -> Task] /\ task[t].pc = "idle"
    BY DEF Base, TypeOK, RunScan, Refresh, CancelScan, RerunReport, At
  <1>1. CASE RunScan(t)
    <2>1. Others(t) /\ task'[t].pc = "claim"
      BY <1>0, <1>1 DEF RunScan, Others, Task
    <2> QED BY <1>0, <1>1, <2>1 DEF RunScan, Calm, Aside, Begun
  <1>2. CASE Refresh(t) \/ CancelScan(t) \/ RerunReport(t)
    <2>1. PICK p \in {"check", "cancel", "rerun_gate"} : Load(t, p)
      BY <1>2 DEF Refresh, CancelScan, RerunReport
    <2>2. Others(t) /\ task'[t].pc \in {p, "ids"}
      BY <1>0, <2>1, LoadMoves
    <2>3. Calm
      BY <1>2 DEF Refresh, CancelScan, RerunReport, Calm
    <2> QED BY <1>0, <2>2, <2>3 DEF Aside, Begun
  <1> QED BY <1>1, <1>2

\* An agent changes nothing that counts for it.
LEMMA AgentCalm ==
    ASSUME Base, NEW s \in Stages, AgentStep(s) \/ AgentRestart(s)
    PROVE  Calm /\ task' = task
  <1>0. /\ row \in [Stages -> RowStatuses]
        /\ \A u \in Stages : agent[u] # "idle" => row[u] # "absent"
    BY DEF Base, TypeOK, RowsSound
  <1>1. row'["dast"] = "absent" <=> row["dast"] = "absent"
    BY <1>0 DEF AgentStep, BeginWork, NoteProgress, SaveArtifacts, PutReport, NoteRendering,
                FinishWork, FailWork, AgentRestart, Stages
  <1>2. UNCHANGED <<record, sent, task>> /\ (restarted => restarted')
    BY DEF AgentStep, BeginWork, NoteProgress, SaveArtifacts, PutReport, NoteRendering,
           FinishWork, FailWork, AgentRestart
  <1> QED BY <1>1, <1>2 DEF Calm

\* The five steps of a start, but for what they do to the counts.
LEMMA ClaimMoves ==
    ASSUME Base, NEW t \in Tasks, Claim(t)
    PROVE  /\ Calm /\ Others(t) /\ task[t].pc = "claim"
           /\ task'[t].pc \in {"jobs", "enqueue", "idle"}
           /\ task'[t].pc = "jobs" => Unstarted
  <1>0. task \in [Tasks -> Task] /\ record \in Record
    BY DEF Base, TypeOK
  <1>1. Calm /\ task[t].pc = "claim"
    BY <1>0 DEF Claim, Calm, Record, At
  <1>2. CASE Unstarted /\ task' = [task EXCEPT ![t] = [Idle EXCEPT !.pc = "jobs"]]
    <2>1. [Idle EXCEPT !.pc = "jobs"].pc = "jobs"
      BY IdleSound DEF Task
    <2>2. Others(t) /\ task'[t] = [Idle EXCEPT !.pc = "jobs"]
      BY <1>0, <1>2, Moves
    <2> QED BY <1>1, <1>2, <2>1, <2>2
  <1>3. CASE Goto(t, "enqueue") \/ Return(t)
    BY <1>0, <1>1, <1>3, GotoMoves, ReturnMoves
  <1> QED BY <1>2, <1>3 DEF Claim

\* The steps that lead to a start: writing the rows of the jobs,
LEMMA PersistJobsMoves ==
    ASSUME Base, NEW t \in Tasks, PersistJobs(t)
    PROVE  /\ Others(t) /\ task[t].pc = "jobs" /\ task'[t].pc = "send_sast"
           /\ ~record'.dast_triggered /\ row'["dast"] # "absent"
           /\ sent' = sent
  <1>0. task \in [Tasks -> Task] /\ row \in [Stages -> RowStatuses]
    BY DEF Base, TypeOK
  <1> QED BY <1>0, GotoMoves DEF PersistJobs, At, Stages

\* the claim,
LEMMA DastClaimMoves ==
    ASSUME Base, NEW t \in Tasks, DastClaim(t)
    PROVE  /\ Others(t) /\ task[t].pc = "dast_claim"
           /\ row' = row /\ row["dast"] # "absent" /\ sent' = sent
           /\ restarted' = restarted
           /\ \/ record.dast_triggered /\ record' = record /\ task'[t].pc = "load"
              \/ /\ ~record.dast_triggered /\ record'.dast_triggered
                 /\ task'[t].pc = "dast_mark"
  <1>0. task \in [Tasks -> Task] /\ record \in Record
    BY DEF Base, TypeOK
  <1>1. /\ task[t].pc = "dast_claim" /\ row' = row /\ sent' = sent
        /\ restarted' = restarted
    BY DEF DastClaim, At
  <1>2. row["dast"] # "absent"
    BY <1>1, PastDast DEF PastDastGate
  <1>3. \/ /\ record.dast_triggered /\ record' = record
           /\ task' = [task EXCEPT ![t] = Sync("report_gate")]
        \/ /\ ~record.dast_triggered /\ record' = [record EXCEPT !.dast_triggered = TRUE]
           /\ Goto(t, "dast_mark")
    BY <1>2 DEF DastClaim, Goto
  <1>4. CASE record.dast_triggered
    BY <1>0, <1>1, <1>2, <1>3, <1>4, SyncMoves
  <1>5. CASE ~record.dast_triggered
    BY <1>0, <1>1, <1>2, <1>3, <1>5, GotoMoves DEF Record
  <1> QED BY <1>4, <1>5

\* the mark on the row
LEMMA DastMarkMoves ==
    ASSUME Base, NEW t \in Tasks, DastMark(t)
    PROVE  Calm /\ Others(t) /\ task[t].pc = "dast_mark" /\ task'[t].pc = "send_dast"
  <1>0. task \in [Tasks -> Task] /\ row \in [Stages -> RowStatuses]
    BY DEF Base, TypeOK
  <1>1. row'["dast"] = "absent" <=> row["dast"] = "absent"
    BY <1>0 DEF DastMark, Stages
  <1> QED BY <1>0, <1>1, GotoMoves DEF DastMark, Calm, At

\* and the request.
LEMMA SendDastMoves ==
    ASSUME Base, NEW t \in Tasks, SendDast(t)
    PROVE  /\ Others(t) /\ task[t].pc = "send_dast" /\ task'[t].pc = "answer"
           /\ sent' = sent + 1 /\ record' = record /\ row' = row
  <1>0. task \in [Tasks -> Task]
    BY DEF Base, TypeOK
  <1>1. PICK status : task' = [task EXCEPT ![t].pc = "answer", ![t].stage = "dast",
                                           ![t].remote = status]
    BY DEF SendDast, Answered, Unanswered
  <1>2. Others(t) /\ task'[t].pc = "answer"
    BY <1>0, <1>1 DEF Others, Task
  <1> QED BY <1>2 DEF SendDast, At

-----------------------------------------------------------------------------
(* The claim of the DAST start is served *)

\* A claim is served by the task that made it until the request is sent.
LEMMA ClaimStep == Base /\ ClaimIsServed /\ [Next]_vars => ClaimIsServed'
  <1> DEFINE Serves(u) == task[u].pc \in {"dast_mark", "send_dast"}
  <1> SUFFICES ASSUME Base, ClaimIsServed, [Next]_vars,
                      record'.dast_triggered, sent' = 0, ~restarted'
               PROVE  \E u \in Tasks : Serves(u)'
    BY DEF ClaimIsServed
  <1>0. sent \in Nat
    BY DEF Base, TypeOK
  <1>1. ASSUME NEW t \in Tasks, Others(t), ~Serves(t), record.dast_triggered, sent = 0,
               ~restarted
        PROVE  \E u \in Tasks : Serves(u)'
    <2>1. PICK u \in Tasks : Serves(u)
      BY <1>1 DEF ClaimIsServed
    <2>2. u # t /\ task'[u] = task[u]
      BY <1>1, <2>1 DEF Others
    <2> QED BY <2>1, <2>2
  <1>2. ASSUME NEW t \in Tasks, Aside(t) PROVE \E u \in Tasks : Serves(u)'
    BY <1>1, <1>2 DEF Aside, Calm, Begun
  <1>3. ASSUME NEW t \in Tasks, Claim(t) PROVE \E u \in Tasks : Serves(u)'
    BY <1>1, <1>3, ClaimMoves DEF Calm
  <1>4. ASSUME NEW t \in Tasks, PersistJobs(t) PROVE \E u \in Tasks : Serves(u)'
    BY <1>4, PersistJobsMoves
  <1>5. ASSUME NEW t \in Tasks, DastClaim(t) PROVE \E u \in Tasks : Serves(u)'
    BY <1>1, <1>5, DastClaimMoves
  <1>6. ASSUME NEW t \in Tasks, DastMark(t) PROVE \E u \in Tasks : Serves(u)'
    BY <1>6, DastMarkMoves
  <1>7. ASSUME NEW t \in Tasks, SendDast(t) PROVE \E u \in Tasks : Serves(u)'
    BY <1>0, <1>7, SendDastMoves
  <1>8. ASSUME NEW t \in Tasks, TaskStep(t) PROVE \E u \in Tasks : Serves(u)'
    BY <1>2, <1>3, <1>4, <1>5, <1>6, <1>7, <1>8, AsideStep
  <1>10. ASSUME NEW t \in Tasks,
                RunScan(t) \/ Refresh(t) \/ CancelScan(t) \/ RerunReport(t)
         PROVE  \E u \in Tasks : Serves(u)'
    BY <1>2, <1>10, HandlerAside
  <1>11. ASSUME Calm, task' = task PROVE \E u \in Tasks : Serves(u)'
    BY <1>11 DEF Calm, ClaimIsServed
  <1>12. ASSUME NEW s \in Stages, AgentStep(s) \/ AgentRestart(s)
         PROVE  \E u \in Tasks : Serves(u)'
    BY <1>11, <1>12, AgentCalm
  <1>13. ~ManagerRestart
    BY DEF ManagerRestart
  <1>14. CASE UNCHANGED vars
    BY <1>11, <1>14 DEF vars, Calm
  <1> HIDE DEF Serves
  <1> QED BY <1>8, <1>10, <1>12, <1>13, <1>14 DEF Next

\* The claim of the DAST start is never held by nobody, unless a process restarted.
THEOREM ClaimCorrect == Spec => []ClaimIsServed
  <1>1. Init => ClaimIsServed
    BY DEF Init, ClaimIsServed
  <1> QED BY <1>1, BaseInit, BaseStep, ClaimStep, PTL DEF Spec

-----------------------------------------------------------------------------
(* DAST is asked for once a start *)

\* There are finitely many tasks on their way to a start,
LEMMA StartingFinite == IsFiniteSet(Starting) /\ Cardinality(Starting) \in Nat
  <1>1. Starting \subseteq Tasks
    BY DEF Starting
  <1>2. IsFiniteSet(Starting)
    BY <1>1, BoundsAssumption, FS_Subset
  <1> QED BY <1>2, FS_CardinalityType

\* also after a step.
LEMMA StartingNextFinite == IsFiniteSet(Starting') /\ Cardinality(Starting') \in Nat
  <1>1. Starting' \subseteq Tasks
    BY DEF Starting
  <1>2. IsFiniteSet(Starting')
    BY <1>1, BoundsAssumption, FS_Subset
  <1> QED BY <1>2, FS_CardinalityType

\* The claims are open or not.
LEMMA OpenType == /\ Open \in 0..1 /\ Open' \in 0..1
                  /\ Fresh \in 0..1 /\ Fresh' \in 0..1
  BY DEF Open, Fresh

\* One task moves: it stays in the count or out of it, joins it or leaves it.
LEMMA StartingMoves ==
    ASSUME NEW t \in Tasks, Others(t)
    PROVE  Starting' = IF task'[t].pc \in Begun THEN Starting \cup {t} ELSE Starting \ {t}
  BY DEF Others, Starting

\* A step of one task changes their number by that task.
LEMMA CountMoves ==
    ASSUME NEW t \in Tasks, Others(t)
    PROVE  Cardinality(Starting') =
              Cardinality(Starting)
              + (IF task'[t].pc \in Begun THEN 1 ELSE 0)
              - (IF task[t].pc \in Begun THEN 1 ELSE 0)
  <1>1. t \in Starting <=> task[t].pc \in Begun
    BY DEF Starting
  <1>2. CASE task'[t].pc \in Begun
    <2>1. Starting' = Starting \cup {t}
      BY <1>2, StartingMoves
    <2>2. Cardinality(Starting \cup {t}) =
             IF t \in Starting THEN Cardinality(Starting) ELSE Cardinality(Starting) + 1
      BY StartingFinite, FS_AddElement
    <2> HIDE DEF Starting
    <2> QED BY <1>1, <1>2, <2>1, <2>2, StartingFinite
  <1>3. CASE task'[t].pc \notin Begun
    <2>1. Starting' = Starting \ {t}
      BY <1>3, StartingMoves
    <2>2. Cardinality(Starting \ {t}) =
             IF t \in Starting THEN Cardinality(Starting) - 1 ELSE Cardinality(Starting)
      BY StartingFinite, FS_RemoveElement
    <2> QED BY <1>1, <1>3, <2>1, <2>2, StartingFinite
  <1> QED BY <1>2, <1>3

\* A step that changes nothing that counts leaves the claim as it is, and the start
\* of the scan if no task goes to write the rows or leaves there.
LEMMA CalmOpen == ASSUME Calm PROVE Open' = Open
  BY DEF Calm, Open

LEMMA CalmFresh ==
    ASSUME NEW t \in Tasks, Calm, Others(t), task[t].pc # "jobs", task'[t].pc # "jobs"
    PROVE  Fresh' = Fresh
  BY DEF Calm, Others, Fresh, Unstarted, At

\* Once the rows are there, or a task goes to write them, the scan has been started.
LEMMA NotFresh ==
    /\ row["dast"] # "absent" => Fresh = 0
    /\ row'["dast"] # "absent" => Fresh' = 0
    /\ \A t \in Tasks : task[t].pc = "jobs" => Fresh = 0
    /\ \A t \in Tasks : task'[t].pc = "jobs" => Fresh' = 0
  BY DEF Fresh, Unstarted, At

\* The sums of the steps.
LEMMA AtMostOne ==
    \A sent1, m, n \in Nat : \A open, fresh, fresh1 \in 0..1 :
        sent1 + n + open + fresh <= 1 /\ m + fresh1 <= n + fresh
            => sent1 + m + open + fresh1 <= 1
  OBVIOUS

LEMMA AtLeastFresh ==
    \A n \in Nat : \A fresh, fresh1 \in 0..1 :
        n > 0 \/ fresh = 1 \/ fresh1 = 0 => fresh1 <= n + fresh
  OBVIOUS

LEMMA NoneLeft ==
    \A m, n \in Nat : \A fresh, fresh1 \in 0..1 :
        m = 0 /\ fresh1 <= n + fresh => m + fresh1 <= n + fresh
  OBVIOUS

LEMMA RowsWritten ==
    \A sent1, n \in Nat : \A open, fresh, open1 \in 0..1 :
        sent1 + n + open + fresh <= 1 => sent1 + (n - 1) + open1 + 0 <= 1
  OBVIOUS

\* The starts that are sent, on their way or open are one at most.
LEMMA StartsStep == Base /\ StartsAreFew /\ [Next]_vars => StartsAreFew'
  <1> SUFFICES ASSUME Base, StartsAreFew, [Next]_vars PROVE StartsAreFew'
    OBVIOUS
  <1> DEFINE n == Cardinality(Starting)
             m == Cardinality(Starting')
  <1>0. /\ sent \in Nat /\ n \in Nat /\ m \in Nat
        /\ sent + n + Open + Fresh <= 1
        /\ Open \in 0..1 /\ Open' \in 0..1 /\ Fresh \in 0..1 /\ Fresh' \in 0..1
    BY StartingFinite, StartingNextFinite, OpenType DEF Base, TypeOK, StartsAreFew
  <1>1. ASSUME sent' + m + Open' + Fresh' <= 1 PROVE StartsAreFew'
    BY <1>1 DEF StartsAreFew
  <1> HIDE DEF n, m
  <1>2. ASSUME Calm, m + Fresh' <= n + Fresh PROVE StartsAreFew'
    <2>1. Open' = Open /\ sent' = sent
      BY <1>2, CalmOpen DEF Calm
    <2>2. sent' + m + Open' + Fresh' <= 1
      BY <1>0, <1>2, <2>1, AtMostOne
    <2> QED BY <1>1, <2>2
  <1>3. ASSUME NEW t \in Tasks, Others(t)
        PROVE  m = n + (IF task'[t].pc \in Begun THEN 1 ELSE 0)
                     - (IF task[t].pc \in Begun THEN 1 ELSE 0)
    BY <1>3, CountMoves DEF n, m
  <1>4. ASSUME NEW t \in Tasks, Aside(t) PROVE StartsAreFew'
    <2>1. m = n
      BY <1>0, <1>3, <1>4 DEF Aside
    <2>2. Fresh' = Fresh
      BY <1>4, CalmFresh DEF Aside, Begun
    <2> QED BY <1>0, <1>2, <1>4, <2>1, <2>2 DEF Aside
  <1>5. ASSUME NEW t \in Tasks, Claim(t) PROVE StartsAreFew'
    <2>1. Calm /\ Others(t) /\ task[t].pc = "claim"
      BY <1>5, ClaimMoves
    <2>2. CASE task'[t].pc = "jobs"
      <3>1. m = n + 1
        BY <1>0, <1>3, <2>1, <2>2 DEF Begun
      <3>2. Fresh = 1 /\ Fresh' = 0
        BY <1>5, <2>2, ClaimMoves, NotFresh DEF Fresh
      <3> QED BY <1>0, <1>2, <2>1, <3>1, <3>2
    <2>3. CASE task'[t].pc \in {"enqueue", "idle"}
      BY <1>4, <2>1, <2>3 DEF Aside, Begun
    <2> QED BY <1>5, <2>2, <2>3, ClaimMoves
  <1>6. ASSUME NEW t \in Tasks, PersistJobs(t) PROVE StartsAreFew'
    <2>1. m = n - 1
      BY <1>0, <1>3, <1>6, PersistJobsMoves DEF Begun
    <2>2. Fresh' = 0 /\ sent' = sent
      BY <1>6, PersistJobsMoves, NotFresh
    <2>3. sent' + m + Open' + Fresh' <= 1
      BY <1>0, <2>1, <2>2, RowsWritten
    <2> QED BY <1>1, <2>3
  <1>7. ASSUME NEW t \in Tasks, DastClaim(t) PROVE StartsAreFew'
    <2>0. Fresh' = 0 /\ sent' = sent
      BY <1>7, DastClaimMoves, NotFresh
    <2>1. CASE record.dast_triggered
      <3>1. m = n
        BY <1>0, <1>3, <1>7, <2>1, DastClaimMoves DEF Begun
      <3>2. Open' = Open
        BY <1>7, <2>1, DastClaimMoves DEF Open
      <3> QED BY <1>0, <1>1, <2>0, <3>1, <3>2
    <2>2. CASE ~record.dast_triggered
      <3>1. m = n + 1
        BY <1>0, <1>3, <1>7, <2>2, DastClaimMoves DEF Begun
      <3>2. Open = 1 /\ Open' = 0
        BY <1>7, <2>2, DastClaimMoves DEF Open
      <3> QED BY <1>0, <1>1, <2>0, <3>1, <3>2
    <2> QED BY <2>1, <2>2
  <1>8. ASSUME NEW t \in Tasks, DastMark(t) PROVE StartsAreFew'
    <2>1. Calm /\ Others(t) /\ task[t].pc = "dast_mark" /\ task'[t].pc = "send_dast"
      BY <1>8, DastMarkMoves
    <2>2. m = n
      BY <1>0, <1>3, <2>1 DEF Begun
    <2>3. Fresh' = Fresh
      BY <2>1, CalmFresh
    <2> QED BY <1>0, <1>2, <2>1, <2>2, <2>3
  <1>9. ASSUME NEW t \in Tasks, SendDast(t) PROVE StartsAreFew'
    <2>1. m = n - 1 /\ sent' = sent + 1
      BY <1>0, <1>3, <1>9, SendDastMoves DEF Begun
    <2>2. Open' = Open /\ Fresh' = 0
      <3>1. row["dast"] # "absent"
        BY <1>9, SendDastMoves, PastDast DEF PastDastGate
      <3> QED BY <1>9, <3>1, SendDastMoves, NotFresh DEF Open
    <2> QED BY <1>0, <1>1, <2>1, <2>2
  <1>10. ASSUME NEW t \in Tasks, TaskStep(t) PROVE StartsAreFew'
    BY <1>4, <1>5, <1>6, <1>7, <1>8, <1>9, <1>10, AsideStep
  <1>11. ASSUME NEW t \in Tasks,
                RunScan(t) \/ Refresh(t) \/ CancelScan(t) \/ RerunReport(t)
         PROVE  StartsAreFew'
    BY <1>4, <1>11, HandlerAside
  <1>12. ASSUME Calm, task' = task PROVE StartsAreFew'
    <2>1. m = n
      BY <1>12 DEF n, m, Starting
    <2>2. Fresh' = Fresh
      BY <1>12 DEF Calm, Fresh, Unstarted, At
    <2> QED BY <1>0, <1>2, <1>12, <2>1, <2>2
  <1>13. ASSUME NEW s \in Stages, AgentStep(s) \/ AgentRestart(s) PROVE StartsAreFew'
    BY <1>12, <1>13, AgentCalm
  <1>14. CASE ManagerRestart
    <2>1. Starting' = {}
      BY <1>14, IdleFields DEF ManagerRestart, Starting, Begun
    <2>2. m = 0
      BY <2>1, FS_EmptySet DEF m
    <2>3. Calm
      BY <1>14 DEF ManagerRestart, Calm
    <2>4. Fresh' <= n + Fresh
      <3>1. CASE n = 0
        <4>1. Starting = {}
          BY <3>1, StartingFinite, FS_EmptySet DEF n
        <4>2. \A t \in Tasks : ~At(t, "jobs")
          BY <4>1 DEF Starting, Begun, At
        <4>3. row["dast"] = "absent" => Fresh = 1
          BY <4>2 DEF Fresh, Unstarted
        <4>4. row["dast"] # "absent" => Fresh' = 0
          BY <2>3, NotFresh DEF Calm
        <4>5. CASE Fresh = 1
          BY <1>0, <3>1, <4>5, AtLeastFresh
        <4>6. CASE Fresh' = 0
          BY <1>0, <4>6, AtLeastFresh
        <4> QED BY <4>3, <4>4, <4>5, <4>6
      <3>2. CASE n > 0
        BY <1>0, <3>2, AtLeastFresh
      <3> QED BY <1>0, <3>1, <3>2
    <2>5. m + Fresh' <= n + Fresh
      BY <1>0, <2>2, <2>4, NoneLeft
    <2> QED BY <1>2, <2>3, <2>5
  <1>15. CASE UNCHANGED vars
    BY <1>12, <1>15 DEF vars, Calm
  <1> QED BY <1>10, <1>11, <1>13, <1>14, <1>15 DEF Next

\* However many requests for the scan are under way and however many refreshes, at
\* any age of their copies, see SAST done, one start of the scan asks AgentDAST for
\* one audit at most.
THEOREM RequestCorrect == Spec => []DastRequestedOnce
  <1>1. Init => StartsAreFew
    <2>1. ASSUME Init PROVE Starting = {}
      BY <2>1, IdleFields DEF Init, Starting, Begun
    <2>2. ASSUME Init PROVE Open = 0 /\ sent = 0
      BY <2>2 DEF Init, Open, Stages
    <2>3. Cardinality({}) = 0
      BY FS_EmptySet
    <2> HIDE DEF Starting, Open
    <2> QED BY <2>1, <2>2, <2>3, OpenType DEF StartsAreFew
  <1>2. Base /\ StartsAreFew => DastRequestedOnce
    <2> SUFFICES ASSUME Base, StartsAreFew PROVE DastRequestedOnce
      OBVIOUS
    <2>1. sent \in Nat
      BY DEF Base, TypeOK
    <2> QED BY <2>1, StartingFinite, OpenType DEF StartsAreFew, DastRequestedOnce
  <1> QED BY <1>1, <1>2, BaseInit, BaseStep, StartsStep, PTL DEF Spec
=============================================================================
