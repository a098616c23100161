----------------------------- MODULE SastServer -----------------------------
(***************************************************************************)
(* AgentSAST: the jobs of internal/service/job, the model turns of         *)
(* internal/ai that each of them runs, and the cancel handler.  Jobs run   *)
(* in goroutines of their own; what they share is the map of cancel        *)
(* functions, the sast table, and, because the jobs here are those of one  *)
(* project, the two objects of the project in the bucket.                  *)
(***************************************************************************)
EXTENDS Naturals

CONSTANTS
    Jobs,          \* job ids
    Cancels,       \* cancel requests that can be in progress at once
    None,          \* no object
    MaxTurns,      \* AI_MAX_TURNS
    MaxLostWrites, \* bound: UPDATEs whose error is ignored
    MaxBadDisks,   \* bound: backstops some of whose files cannot be written
    MaxRestarts    \* bound: restarts of the service

ASSUME TurnsAssumption == MaxTurns \in Nat \ {0}
ASSUME BoundsAssumption ==
    MaxLostWrites \in Nat /\ MaxBadDisks \in Nat /\ MaxRestarts \in Nat
ASSUME NoneAssumption == None \notin Jobs

Terminal == {"done", "failed", "canceled"}
Statuses == {"none", "new", "process"} \cup Terminal

Places == {"idle", "created", "begin", "download", "model", "turn", "verify",
           "upload_openapi", "upload_report", "record", "fail", "remove",
           "ended", "gone"}

VARIABLES
    row,         \* sast.status, "none" before the INSERT
    tracked,     \* the keys of manager.cancels
    interrupted, \* the jobs whose context is cancelled
    pc,          \* where the goroutine of a job is; "gone" after a restart
    loop,        \* the local variables of Orchestrator.Run, and the end to record
    files,       \* the artifacts in the work directory of a job
    bucket,      \* whose artifacts the project has in the bucket, and whether valid
    canceler,    \* the cancel requests
    used         \* lost UPDATEs, failed backstops and restarts

vars == <<row, tracked, interrupted, pc, loop, files, bucket, canceler, used>>

Artifacts == {"openapi", "report", "base_url"}

\* hinted: the base_url of the request is not blank; unwritten: the artifacts the
\* backstop could not write.
Loop == [turn : 0..MaxTurns, nudged : BOOLEAN, validateNudged : BOOLEAN,
         hinted : BOOLEAN, unwritten : SUBSET Artifacts, end : Terminal]

\* What is at the path of an artifact: nothing, an empty file, something that
\* cannot be written to (a directory; or sast/ itself is a file), or contents.
Empty == {"none", "empty", "blocked"}
Files == [openapi : Empty \cup {"invalid", "valid"},
          report : Empty \cup {"written"}, base_url : Empty \cup {"written"}]

Canceler == [pc : {"idle", "signal", "mark"}, job : Jobs \cup {None}]

NoFiles == [openapi |-> "none", report |-> "none", base_url |-> "none"]

NewLoop == [turn |-> 0, nudged |-> FALSE, validateNudged |-> FALSE,
            hinted |-> TRUE, unwritten |-> {}, end |-> "failed"]

Init ==
    /\ row = [j \in Jobs |-> "none"]
    /\ tracked = {}
    /\ interrupted = {}
    /\ pc = [j \in Jobs |-> "idle"]
    /\ loop = [j \in Jobs |-> NewLoop]
    /\ files = [j \in Jobs |-> NoFiles]
    /\ bucket = [openapi |-> None, valid |-> TRUE, report |-> None]
    /\ canceler = [c \in Cancels |-> [pc |-> "idle", job |-> None]]
    /\ used = [lost |-> 0, disks |-> 0, restarts |-> 0]

-----------------------------------------------------------------------------
At(j, p) == pc[j] = p

Goto(j, p) == pc' = [pc EXCEPT ![j] = p]

\* An UPDATE of the status, whose error is ignored by every caller.
Update(j, status) ==
    \/ /\ row' = [row EXCEPT ![j] = status]
       /\ UNCHANGED used
    \/ /\ used.lost < MaxLostWrites
       /\ used' = [used EXCEPT !.lost = @ + 1]
       /\ UNCHANGED row

-----------------------------------------------------------------------------
(* Service.Start *)

Create(j) ==
    /\ At(j, "idle")
    /\ row' = [row EXCEPT ![j] = "new"]
    /\ \E hinted \in BOOLEAN : loop' = [loop EXCEPT ![j].hinted = hinted]
    /\ Goto(j, "created")
    /\ UNCHANGED <<tracked, interrupted, files, bucket, canceler, used>>

Track(j) ==
    /\ At(j, "created")
    /\ tracked' = tracked \cup {j}
    /\ Goto(j, "begin")
    /\ UNCHANGED <<row, interrupted, loop, files, bucket, canceler, used>>

-----------------------------------------------------------------------------
(* Service.run, up to the model *)

\* The work directory can be made and the status is written, or it cannot.
Begin(j) ==
    /\ At(j, "begin")
    /\ \/ /\ Update(j, "process")
          /\ Goto(j, "download")
       \/ /\ Goto(j, "fail")
          /\ UNCHANGED <<row, used>>
    /\ UNCHANGED <<tracked, interrupted, loop, files, bucket, canceler>>

\* DownloadPrefix fails, or finds nothing; with a cancelled context it fails.
Mut_Download(j) ==
    /\ At(j, "download")
    /\ \/ /\ j \notin interrupted
          /\ Goto(j, "model")
       \/ Goto(j, "remove")
    /\ UNCHANGED <<row, tracked, interrupted, loop, files, bucket, canceler, used>>
Download(j) ==
    /\ At(j, "download")
    /\ \/ /\ j \notin interrupted
          /\ Goto(j, "model")
       \/ Goto(j, "fail")
    /\ UNCHANGED <<row, tracked, interrupted, loop, files, bucket, canceler, used>>

\* There may be no model to use.
ResolveModel(j) ==
    /\ At(j, "model")
    /\ \E p \in {"turn", "fail"} : Goto(j, p)
    /\ UNCHANGED <<row, tracked, interrupted, loop, files, bucket, canceler, used>>

-----------------------------------------------------------------------------
(* Orchestrator.Run *)

\* nonEmptyFile
Missing(f) == {a \in Artifacts : f[a] \in Empty}
artifactsComplete(f) == Missing(f) = {}

\* What os.WriteFile makes of an artifact that is missing; a write that fails
\* leaves what was there, or an empty file.
Write(x, contents, fails) ==
    IF x = "blocked" THEN {x} ELSE IF fails THEN {x, "empty"} ELSE {contents}

\* finalizeBackstop: what is missing is written, what is there is kept.  The
\* errors are ignored, and a blank base_url is written as an empty file.
Mut_finalizeBackstop(f, hinted, bad) ==
    LET Fill(a, contents) == IF a \in Missing(f) THEN Write(f[a], contents, a \in bad)
                                                ELSE {f[a]}
    IN  [openapi : Fill("openapi", "valid"), report : {f.report},
         base_url : Fill("base_url", IF hinted THEN "written" ELSE "empty")]
finalizeBackstop(f, hinted, bad) ==
    LET Fill(a, contents) == IF a \in Missing(f) THEN Write(f[a], contents, a \in bad)
                                                ELSE {f[a]}
    IN  [openapi : Fill("openapi", "valid"), report : Fill("report", "written"),
         base_url : Fill("base_url", IF hinted THEN "written" ELSE "empty")]

\* The backstop of a job, with the writes that fail.
Backstop(j) ==
    \E bad \in SUBSET {a \in Missing(files[j]) : files[j][a] # "blocked"} :
       /\ \E g \in finalizeBackstop(files[j], loop[j].hinted, bad) :
             files' = [files EXCEPT ![j] = g]
       /\ loop' = [loop EXCEPT ![j].unwritten = bad]
       /\ \/ bad = {} /\ UNCHANGED used
          \/ /\ bad # {} /\ used.disks < MaxBadDisks
             /\ used' = [used EXCEPT !.disks = @ + 1]

\* What the tool calls of one turn can make of the artifacts.  write_artifact
\* writes no empty one, but extract_archive unpacks anything into sast/: it may
\* overwrite a file with an empty one, and where there is none put a directory.
\* No tool removes anything.
Overwritten(f) ==
    {g \in Files : \A a \in Artifacts :
                      /\ f[a] = "blocked" => g[a] = "blocked"
                      /\ f[a] \notin {"none", "blocked"} => g[a] \notin {"none", "blocked"}}

InTurn(j) == At(j, "turn") /\ loop[j].turn < MaxTurns

\* The context is looked at before each turn.
Interrupted(j) ==
    /\ InTurn(j)
    /\ j \in interrupted
    /\ Goto(j, "fail")
    /\ UNCHANGED <<row, tracked, interrupted, loop, files, bucket, canceler, used>>

\* An error of the first call, or an answer without choices, ends the job; later
\* ones end the loop, which completes the artifacts.
NoAnswer(j) ==
    /\ InTurn(j)
    /\ IF loop[j].turn = 0
       THEN Goto(j, "fail") /\ UNCHANGED <<loop, files, used>>
       ELSE Goto(j, "verify") /\ Backstop(j)
    /\ UNCHANGED <<row, tracked, interrupted, bucket, canceler>>

\* A turn with tool calls.
Mut_ToolCalls(j) ==
    /\ InTurn(j)
    /\ j \notin interrupted
    /\ \E g \in Overwritten(files[j]) : files' = [files EXCEPT ![j] = g]
    /\ UNCHANGED <<row, tracked, interrupted, pc, loop, bucket, canceler, used>>
ToolCalls(j) ==
    /\ InTurn(j)
    /\ j \notin interrupted
    /\ \E g \in Overwritten(files[j]) : files' = [files EXCEPT ![j] = g]
    /\ loop' = [loop EXCEPT ![j].turn = @ + 1]
    /\ UNCHANGED <<row, tracked, interrupted, pc, bucket, canceler, used>>

\* The model concludes.  It is told once that artifacts are missing and once
\* that the document is invalid; after that its word is taken, and what is
\* missing is made up.
Conclude(j) ==
    /\ InTurn(j)
    /\ j \notin interrupted
    /\ LET f == files[j]
           missing == ~artifactsComplete(f)
           nudge == missing /\ ~loop[j].nudged
           validateNudge == ~missing /\ f.openapi = "invalid" /\ ~loop[j].validateNudged
       IN  \/ /\ nudge
              /\ loop' = [loop EXCEPT ![j].nudged = TRUE, ![j].turn = @ + 1]
              /\ UNCHANGED <<pc, files, used>>
           \/ /\ validateNudge
              /\ loop' = [loop EXCEPT ![j].validateNudged = TRUE, ![j].turn = @ + 1]
              /\ UNCHANGED <<pc, files, used>>
           \/ /\ ~nudge /\ ~validateNudge
              /\ IF missing THEN Backstop(j) ELSE UNCHANGED <<loop, files, used>>
              /\ Goto(j, "verify")
    /\ UNCHANGED <<row, tracked, interrupted, bucket, canceler>>

\* The turns are used up.
TurnCap(j) ==
    /\ At(j, "turn")
    /\ loop[j].turn = MaxTurns
    /\ IF artifactsComplete(files[j]) THEN UNCHANGED <<loop, files, used>> ELSE Backstop(j)
    /\ Goto(j, "verify")
    /\ UNCHANGED <<row, tracked, interrupted, bucket, canceler>>

-----------------------------------------------------------------------------
(* Service.run, after the model *)

\* The two deliverables are there, be it as empty files, and the document is
\* valid.
Mut_Verify(j) ==
    /\ At(j, "verify")
    /\ Goto(j, IF {files[j].openapi, files[j].report} \cap {"none", "blocked"} = {}
               THEN "upload_openapi" ELSE "fail")
    /\ UNCHANGED <<row, tracked, interrupted, loop, files, bucket, canceler, used>>
Verify(j) ==
    /\ At(j, "verify")
    /\ Goto(j, IF files[j].openapi = "valid" /\ files[j].report \notin {"none", "blocked"}
               THEN "upload_openapi" ELSE "fail")
    /\ UNCHANGED <<row, tracked, interrupted, loop, files, bucket, canceler, used>>

\* UploadFile, which fails when the context is cancelled.
UploadOpenapi(j) ==
    /\ At(j, "upload_openapi")
    /\ \/ /\ j \notin interrupted
          /\ bucket' = [bucket EXCEPT !.openapi = j, !.valid = files[j].openapi = "valid"]
          /\ Goto(j, "upload_report")
       \/ /\ Goto(j, "fail")
          /\ UNCHANGED bucket
    /\ UNCHANGED <<row, tracked, interrupted, loop, files, canceler, used>>

Mut_UploadReport(j) ==
    /\ At(j, "upload_report")
    /\ IF j \notin interrupted
       THEN bucket' = [bucket EXCEPT !.report = j]
       ELSE UNCHANGED bucket
    /\ loop' = [loop EXCEPT ![j].end = "done"]
    /\ Goto(j, "record")
    /\ UNCHANGED <<row, tracked, interrupted, files, canceler, used>>
UploadReport(j) ==
    /\ At(j, "upload_report")
    /\ \/ /\ j \notin interrupted
          /\ bucket' = [bucket EXCEPT !.report = j]
          /\ loop' = [loop EXCEPT ![j].end = "done"]
          /\ Goto(j, "record")
       \/ /\ Goto(j, "fail")
          /\ UNCHANGED <<bucket, loop>>
    /\ UNCHANGED <<row, tracked, interrupted, files, canceler, used>>

\* Service.finish looks at the context first.
Fail(j) ==
    /\ At(j, "fail")
    /\ loop' = [loop EXCEPT ![j].end = IF j \in interrupted THEN "canceled" ELSE "failed"]
    /\ Goto(j, "record")
    /\ UNCHANGED <<row, tracked, interrupted, files, bucket, canceler, used>>

\* The last UPDATE of the job, whatever the row says by now.
Mut_RecordEnd(j) ==
    /\ At(j, "record")
    /\ Update(j, IF loop[j].end = "canceled" THEN "cancelled" ELSE loop[j].end)
    /\ Goto(j, "remove")
    /\ UNCHANGED <<tracked, interrupted, loop, files, bucket, canceler>>
RecordEnd(j) ==
    /\ At(j, "record")
    /\ Update(j, loop[j].end)
    /\ Goto(j, "remove")
    /\ UNCHANGED <<tracked, interrupted, loop, files, bucket, canceler>>

\* The deferred calls: the work directory is removed, the context released, and
\* the entry removed.
Remove(j) ==
    /\ At(j, "remove")
    /\ files' = [files EXCEPT ![j] = NoFiles]
    /\ loop' = [loop EXCEPT ![j] = NewLoop]
    /\ tracked' = tracked \ {j}
    /\ interrupted' = interrupted \cup {j}
    /\ Goto(j, "ended")
    /\ UNCHANGED <<row, bucket, canceler, used>>

-----------------------------------------------------------------------------
(* POST /api/sast/cancel *)

\* A row that shows an end is answered 409.
CancelRequest(c, j) ==
    /\ canceler[c].pc = "idle"
    /\ row[j] \in {"new", "process"}
    /\ canceler' = [canceler EXCEPT ![c] = [pc |-> "signal", job |-> j]]
    /\ UNCHANGED <<row, tracked, interrupted, pc, loop, files, bucket, used>>

CancelSignal(c) ==
    /\ canceler[c].pc = "signal"
    /\ interrupted' = interrupted \cup (tracked \cap {canceler[c].job})
    /\ canceler' = [canceler EXCEPT ![c].pc = "mark"]
    /\ UNCHANGED <<row, tracked, pc, loop, files, bucket, used>>

CancelMark(c) ==
    /\ canceler[c].pc = "mark"
    /\ Update(canceler[c].job, "canceled")
    /\ canceler' = [canceler EXCEPT ![c] = [pc |-> "idle", job |-> None]]
    /\ UNCHANGED <<tracked, interrupted, pc, loop, files, bucket>>

-----------------------------------------------------------------------------
\* The service is started again: goroutines, contexts and requests are gone, the
\* table and the bucket stay.  The work directories are not read again.
Restart ==
    /\ used.restarts < MaxRestarts
    /\ used' = [used EXCEPT !.restarts = @ + 1]
    /\ pc' = [j \in Jobs |-> IF pc[j] \in {"idle", "ended"} THEN pc[j] ELSE "gone"]
    /\ tracked' = {}
    /\ interrupted' = {}
    /\ canceler' = [c \in Cancels |-> [pc |-> "idle", job |-> None]]
    /\ loop' = [j \in Jobs |-> NewLoop]
    /\ files' = [j \in Jobs |-> NoFiles]
    /\ UNCHANGED <<row, bucket>>

JobStep(j) ==
    \/ Track(j) \/ Begin(j) \/ Download(j) \/ ResolveModel(j)
    \/ Interrupted(j) \/ NoAnswer(j) \/ ToolCalls(j) \/ Conclude(j) \/ TurnCap(j)
    \/ Verify(j) \/ UploadOpenapi(j) \/ UploadReport(j)
    \/ Fail(j) \/ RecordEnd(j) \/ Remove(j)

CancelStep(c) == CancelSignal(c) \/ CancelMark(c)

Next ==
    \/ \E j \in Jobs : Create(j) \/ JobStep(j)
    \/ \E c \in Cancels : CancelStep(c) \/ \E j \in Jobs : CancelRequest(c, j)
    \/ Restart

Spec == Init /\ [][Next]_vars

\* The calls of goroutines and handlers return.
FairSpec ==
    /\ Spec
    /\ \A j \in Jobs : WF_vars(JobStep(j))
    /\ \A c \in Cancels : WF_vars(CancelStep(c))

-----------------------------------------------------------------------------
(* Properties *)

\* Every variable has its type.
TypeOK ==
    /\ row \in [Jobs -> Statuses]
    /\ tracked \in SUBSET Jobs
    /\ interrupted \in SUBSET Jobs
    /\ pc \in [Jobs -> Places]
    /\ loop \in [Jobs -> Loop]
    /\ files \in [Jobs -> Files]
    /\ bucket \in [openapi : Jobs \cup {None}, valid : BOOLEAN, report : Jobs \cup {None}]
    /\ canceler \in [Cancels -> Canceler]
    /\ used \in [lost : 0..MaxLostWrites, disks : 0..MaxBadDisks, restarts : 0..MaxRestarts]

\* "Server-side gate: never upload an invalid OpenAPI document" (job.go): the
\* object in the bucket is valid, whichever job it is from and however its loop
\* came to an end.
UploadedIsValid == bucket.openapi # None => bucket.valid

\* finalizeBackstop "guarantees the three artifacts exist so the job never fails
\* for lack of output".  However the loop comes to its end without an error, and
\* whatever the tools did to the artifacts before, one is missing only when
\* something else is in its place, when it could not be written, or when it is
\* base_url.txt and the request had a blank one.
OutputGuaranteed ==
    \A j \in Jobs : At(j, "verify") =>
       \A a \in Missing(files[j]) :
          \/ files[j][a] = "blocked" \/ a \in loop[j].unwritten
          \/ a = "base_url" /\ ~loop[j].hinted

\* A row that says done has both its objects in the bucket, also when the job
\* was cancelled or interrupted on the way.
DoneIsDelivered ==
    \A j \in Jobs : row[j] = "done" => bucket.openapi # None /\ bucket.report # None

\* A job that has ended says so in its row, on every path out of run and with
\* any cancel requests in between, unless an UPDATE was lost.
EndIsRecorded == \A j \in Jobs : At(j, "ended") /\ used.lost = 0 => row[j] \in Terminal

\* Every job that was accepted comes to an end and shows it, unless the service
\* was restarted or an UPDATE lost.
JobSettles ==
    \A j \in Jobs : row[j] \in {"new", "process"} ~>
                       row[j] \in Terminal \/ used.lost > 0 \/ used.restarts > 0
=============================================================================
