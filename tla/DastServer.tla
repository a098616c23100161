----------------------------- MODULE DastServer -----------------------------
(***************************************************************************)
(* The AgentDAST HTTP service (AgentDAST/internal/server): requests that   *)
(* start scans, one goroutine per accepted scan, requests that cancel      *)
(* scans, and the two stores they share - the `dast` table and the object  *)
(* bucket. Each call on a store, on the mutex-guarded map of cancel        *)
(* functions or on the semaphore is one action, so handlers and goroutines *)
(* interleave between any two of them.                                     *)
(*                                                                         *)
(* Progress numbers, phases and error texts are abstracted away. A refusal *)
(* of a request before its first store write (bad input, no model, no API  *)
(* key, no swagger) changes nothing and is left out.                       *)
(***************************************************************************)
EXTENDS Integers, FiniteSets, Sequences

CONSTANTS
    Workers,             \* scan requests, each with the goroutine it starts
    Cancellers,          \* cancel requests
    Scans,               \* ids of scans, the keys of the dast table
    Projects,            \* projects, the prefixes of the bucket's keys
    None,                \* absent row, map entry, object or argument
    MaxConcurrentScans,  \* MAX_CONCURRENT_SCANS as configured
    MaxCrashes,          \* bound on restarts of the process
    MaxLostWrites        \* bound on UPDATEs that fail (their error is ignored)

ASSUME FiniteAssumption == IsFiniteSet(Workers)
ASSUME BoundsAssumption ==
    MaxConcurrentScans \in Int /\ MaxCrashes \in Nat /\ MaxLostWrites \in Nat

VARIABLES
    rows,        \* the dast table, by scan id
    reports,     \* <project>/dast/report.md: the scan that wrote it last
    logs,        \* scans whose <project>/dast/logs/<id>.json is stored
    pc,          \* where each request and its goroutine stand
    job,         \* what each request asked for
    slots,       \* elements in the semaphore channel `sem`
    parked,      \* goroutines blocked on sending to `sem`, in arrival order
    cancels,     \* Server.cancels: the goroutine whose context an id cancels
    cancelled,   \* goroutines whose context is cancelled
    cancelPc,    \* where each cancel request stands
    target,      \* the scan each cancel request names
    grabbed,     \* the cancel function a cancel request read from `cancels`
    overlapped,  \* history: scans requested while a request for them was live
    crashes, lostWrites

server == <<slots, parked, cancels, cancelled>>
store == <<rows, reports, logs, lostWrites>>
cancelling == <<cancelPc, target, grabbed>>
vars == <<store, server, cancelling, pc, job, overlapped, crashes>>

-----------------------------------------------------------------------------
(* The states of a row: the service's own, and the two the Manager writes  *)
(* into rows it creates or mirrors.                                        *)
ActiveStatuses == {"new", "process", "progress", "processing"}
Mut_CancellableStatuses == {"new", "process", "done"}  \* a looser WHERE clause
CancellableStatuses == {"new", "process"}
FinishedStatuses == {"done", "fail"}
Statuses == ActiveStatuses \cup FinishedStatuses \cup {"cancel"}

Row == [project : Projects, status : Statuses, result : BOOLEAN]
Job == [scan : Scans, project : Projects]

ASSUME NoneAssumption == None \notin Workers \cup Scans \cup Projects \cup Row \cup Job

(* server.New replaces a limit below one by one.                           *)
Capacity == IF MaxConcurrentScans < 1 THEN 1 ELSE MaxConcurrentScans

(* Where a goroutine of runScan stands, between acquiring its slot and     *)
(* releasing it. It is in `cancels` while at a Registered place.           *)
Registered == {"mark", "loading", "fetch", "sast", "auditing", "audit", "logs",
               "writing", "upload", "finish", "failing", "record", "unregister"}
Holding == Registered \cup {"register", "release"}
Places == Holding \cup {"idle", "ensure", "create", "arrive", "parked", "gone"}

ScanOf(w) == job[w].scan
ProjectOf(w) == job[w].project
Live(w) == pc[w] \notin {"idle", "gone"}
RowIn(s, statuses) == rows[s] # None /\ rows[s].status \in statuses
Goto(w, place) == pc' = [pc EXCEPT ![w] = place]

(* An UPDATE of one row: it applies, or it fails and the row stays. An     *)
(* UPDATE of a row that does not exist changes nothing.                    *)
Update(s, row) ==
    \/ /\ rows' = [rows EXCEPT ![s] = IF rows[s] = None THEN None ELSE row]
       /\ UNCHANGED lostWrites
    \/ /\ lostWrites < MaxLostWrites
       /\ lostWrites' = lostWrites + 1
       /\ UNCHANGED rows

(* SetStatus overwrites status, result_path and error_msg whatever they    *)
(* were; SetProgress overwrites the status and keeps the result.           *)
Mut_SetStatus(s, status, result) ==
    Update(s, [rows[s] EXCEPT !.status = IF status = "fail" THEN "failed" ELSE status,
                              !.result = result])
SetStatus(s, status, result) ==
    Update(s, [rows[s] EXCEPT !.status = status, !.result = result])
SetProgress(s) == Update(s, [rows[s] EXCEPT !.status = "process"])

-----------------------------------------------------------------------------
(* Rows the Manager created beforehand are "new", or "progress" when it    *)
(* announced the start of the job before calling the agent.                *)
Init ==
    /\ rows \in [Scans -> {None} \cup
                   [project : Projects, status : {"new", "progress"}, result : {FALSE}]]
    /\ reports = [p \in Projects |-> None]
    /\ logs = {}
    /\ pc = [w \in Workers |-> "idle"]
    /\ job = [w \in Workers |-> None]
    /\ slots = 0
    /\ parked = <<>>
    /\ cancels = [s \in Scans |-> None]
    /\ cancelled = {}
    /\ cancelPc = [c \in Cancellers |-> "idle"]
    /\ target = [c \in Cancellers |-> None]
    /\ grabbed = [c \in Cancellers |-> None]
    /\ overlapped = {}
    /\ crashes = 0
    /\ lostWrites = 0

-----------------------------------------------------------------------------
(* POST /api/dast/scan. A request that passed its checks runs EnsureScan:  *)
(* GetScan, then CreateScan when there is no row.                          *)
HandleScan(w, s, p) ==
    /\ pc[w] = "idle"
    /\ Goto(w, "ensure")
    /\ job' = [job EXCEPT ![w] = [scan |-> s, project |-> p]]
    /\ overlapped' = IF \E v \in Workers : Live(v) /\ ScanOf(v) = s
                     THEN overlapped \cup {s} ELSE overlapped
    /\ UNCHANGED <<store, server, cancelling, crashes>>

Mut_EnsureScan(w) ==  \* without the check of the project
    /\ pc[w] = "ensure"
    /\ Goto(w, IF rows[ScanOf(w)] = None THEN "create"
               ELSE IF RowIn(ScanOf(w), ActiveStatuses) THEN "arrive" ELSE "gone")
    /\ UNCHANGED <<store, server, cancelling, job, overlapped, crashes>>

EnsureScan(w) ==
    /\ pc[w] = "ensure"
    /\ \/ rows[ScanOf(w)] = None /\ Goto(w, "create")
       \/ /\ RowIn(ScanOf(w), ActiveStatuses)
          /\ rows[ScanOf(w)].project = ProjectOf(w)
          /\ Goto(w, "arrive")
       \/ /\ rows[ScanOf(w)] # None
          /\ \/ rows[ScanOf(w)].project # ProjectOf(w)
             \/ ~RowIn(ScanOf(w), ActiveStatuses)
          /\ Goto(w, "gone")
    /\ UNCHANGED <<store, server, cancelling, job, overlapped, crashes>>

(* The INSERT fails on the primary key when another request created the    *)
(* row since GetScan: the request is refused.                              *)
CreateScan(w) ==
    /\ pc[w] = "create"
    /\ \/ /\ rows[ScanOf(w)] = None
          /\ rows' = [rows EXCEPT ![ScanOf(w)] =
                        [project |-> ProjectOf(w), status |-> "new", result |-> FALSE]]
          /\ Goto(w, "arrive")
       \/ rows[ScanOf(w)] # None /\ Goto(w, "gone") /\ UNCHANGED rows
    /\ UNCHANGED <<reports, logs, lostWrites, server, cancelling, job, overlapped, crashes>>

-----------------------------------------------------------------------------
(* The goroutine sends on `sem`: at once while the channel has room,       *)
(* otherwise it is parked, and served in the order of arrival.             *)
Mut_Acquire(w) ==  \* the newest waiter goes first
    /\ pc[w] = "arrive"
    /\ \/ slots < Capacity /\ slots' = slots + 1 /\ Goto(w, "register") /\ UNCHANGED parked
       \/ slots >= Capacity /\ parked' = <<w>> \o parked /\ Goto(w, "parked") /\ UNCHANGED slots
    /\ UNCHANGED <<store, cancelling, cancels, cancelled, job, overlapped, crashes>>

Acquire(w) ==
    /\ pc[w] = "arrive"
    /\ \/ slots < Capacity /\ slots' = slots + 1 /\ Goto(w, "register") /\ UNCHANGED parked
       \/ slots >= Capacity /\ parked' = Append(parked, w) /\ Goto(w, "parked") /\ UNCHANGED slots
    /\ UNCHANGED <<store, cancelling, cancels, cancelled, job, overlapped, crashes>>

RegisterCancel(w) ==
    /\ pc[w] = "register"
    /\ cancels' = [cancels EXCEPT ![ScanOf(w)] = w]
    /\ Goto(w, "mark")
    /\ UNCHANGED <<store, cancelling, slots, parked, cancelled, job, overlapped, crashes>>

MarkProcess(w) ==
    /\ pc[w] = "mark"
    /\ SetStatus(ScanOf(w), "process", FALSE)
    /\ Goto(w, "loading")
    /\ UNCHANGED <<reports, logs, server, cancelling, job, overlapped, crashes>>

(* The three SetProgress calls, each before the work it announces.         *)
AfterNote == [loading |-> "fetch", auditing |-> "audit", writing |-> "upload"]

NoteProgress(w) ==
    /\ pc[w] \in DOMAIN AfterNote
    /\ SetProgress(ScanOf(w))
    /\ Goto(w, AfterNote[pc[w]])
    /\ UNCHANGED <<reports, logs, server, cancelling, job, overlapped, crashes>>

(* The three stages that only read and compute: the swagger, the SAST      *)
(* report, the audit. Each can fail (a missing SAST report is no failure,  *)
(* not being able to stage it is); under a cancelled context each does.    *)
AfterWork == [fetch |-> "sast", sast |-> "auditing", audit |-> "logs"]

Work(w) ==
    /\ pc[w] \in DOMAIN AfterWork
    /\ \/ w \notin cancelled /\ Goto(w, AfterWork[pc[w]])
       \/ Goto(w, "failing")
    /\ UNCHANGED <<store, server, cancelling, job, overlapped, crashes>>

(* Best effort: there may be no logs, and the upload may fail.             *)
PersistLogs(w) ==
    /\ pc[w] = "logs"
    /\ \/ UNCHANGED logs
       \/ w \notin cancelled /\ logs' = logs \cup {ScanOf(w)}
    /\ Goto(w, "writing")
    /\ UNCHANGED <<rows, reports, lostWrites, server, cancelling, job, overlapped, crashes>>

(* A PutObject that fails may still have stored the object, unless the     *)
(* context was cancelled before.                                           *)
UploadReport(w) ==
    /\ pc[w] = "upload"
    /\ \/ /\ w \notin cancelled
          /\ reports' = [reports EXCEPT ![ProjectOf(w)] = ScanOf(w)]
          /\ Goto(w, "finish") \/ Goto(w, "failing")
       \/ UNCHANGED reports /\ Goto(w, "failing")
    /\ UNCHANGED <<rows, logs, lostWrites, server, cancelling, job, overlapped, crashes>>

MarkDone(w) ==
    /\ pc[w] = "finish"
    /\ SetStatus(ScanOf(w), "done", TRUE)
    /\ Goto(w, "unregister")
    /\ UNCHANGED <<reports, logs, server, cancelling, job, overlapped, crashes>>

(* The closure `fail`: it reads ctx.Err() first and writes afterwards, and *)
(* leaves the row alone when the context is cancelled.                     *)
Mut_Fail(w) ==  \* never records a failure
    /\ pc[w] = "failing"
    /\ Goto(w, "unregister")
    /\ UNCHANGED <<store, server, cancelling, job, overlapped, crashes>>

Fail(w) ==
    /\ pc[w] = "failing"
    /\ Goto(w, IF w \in cancelled THEN "unregister" ELSE "record")
    /\ UNCHANGED <<store, server, cancelling, job, overlapped, crashes>>

MarkFail(w) ==
    /\ pc[w] = "record"
    /\ SetStatus(ScanOf(w), "fail", FALSE)
    /\ Goto(w, "unregister")
    /\ UNCHANGED <<reports, logs, server, cancelling, job, overlapped, crashes>>

(* The deferred calls: unregister, cancel the context, leave the channel.  *)
(* A receive hands the room it makes to the first parked sender.           *)
Mut_UnregisterCancel(w) ==  \* leaves the entry behind
    /\ pc[w] = "unregister"
    /\ Goto(w, "release")
    /\ UNCHANGED <<store, server, cancelling, job, overlapped, crashes>>

UnregisterCancel(w) ==
    /\ pc[w] = "unregister"
    /\ cancels' = [cancels EXCEPT ![ScanOf(w)] = None]
    /\ Goto(w, "release")
    /\ UNCHANGED <<store, cancelling, slots, parked, cancelled, job, overlapped, crashes>>

Mut_Release(w) ==  \* gives the room back and wakes the next one as well
    /\ pc[w] = "release"
    /\ cancelled' = cancelled \cup {w}
    /\ slots' = slots - 1
    /\ \/ parked = <<>> /\ Goto(w, "gone") /\ UNCHANGED parked
       \/ /\ parked # <<>>
          /\ parked' = Tail(parked)
          /\ pc' = [pc EXCEPT ![w] = "gone", ![Head(parked)] = "register"]
    /\ UNCHANGED <<store, cancelling, cancels, job, overlapped, crashes>>

Release(w) ==
    /\ pc[w] = "release"
    /\ cancelled' = cancelled \cup {w}
    /\ \/ /\ parked = <<>>
          /\ slots' = slots - 1
          /\ Goto(w, "gone")
          /\ UNCHANGED parked
       \/ /\ parked # <<>>
          /\ parked' = Tail(parked)
          /\ pc' = [pc EXCEPT ![w] = "gone", ![Head(parked)] = "register"]
          /\ UNCHANGED slots
    /\ UNCHANGED <<store, cancelling, cancels, job, overlapped, crashes>>

-----------------------------------------------------------------------------
(* POST /api/dast/cancel: the guarded UPDATE; then, when it changed a row, *)
(* the lookup in `cancels` under the mutex and the call after it. When it  *)
(* changed none, or failed, the request is refused.                        *)
CancelScan(c, s) ==
    /\ cancelPc[c] = "idle"
    /\ target' = [target EXCEPT ![c] = s]
    /\ \/ /\ RowIn(s, CancellableStatuses)
          /\ rows' = [rows EXCEPT ![s].status = "cancel"]
          /\ cancelPc' = [cancelPc EXCEPT ![c] = "lookup"]
          /\ UNCHANGED lostWrites
       \/ /\ ~RowIn(s, CancellableStatuses)
          /\ cancelPc' = [cancelPc EXCEPT ![c] = "refused"]
          /\ UNCHANGED <<rows, lostWrites>>
       \/ /\ lostWrites < MaxLostWrites
          /\ lostWrites' = lostWrites + 1
          /\ cancelPc' = [cancelPc EXCEPT ![c] = "error"]
          /\ UNCHANGED rows
    /\ UNCHANGED <<reports, logs, server, grabbed, pc, job, overlapped, crashes>>

LookupCancel(c) ==
    /\ cancelPc[c] = "lookup"
    /\ grabbed' = [grabbed EXCEPT ![c] = cancels[target[c]]]
    /\ cancelPc' = [cancelPc EXCEPT ![c] = "interrupt"]
    /\ UNCHANGED <<store, server, target, pc, job, overlapped, crashes>>

Interrupt(c) ==
    /\ cancelPc[c] = "interrupt"
    /\ cancelled' = cancelled \cup ({grabbed[c]} \ {None})
    /\ cancelPc' = [cancelPc EXCEPT ![c] = "answered"]
    /\ UNCHANGED <<store, slots, parked, cancels, target, grabbed, pc, job, overlapped, crashes>>

-----------------------------------------------------------------------------
(* The process dies and is restarted: goroutines, requests, semaphore and  *)
(* map are lost; the table and the bucket stay. Nothing repairs the rows.  *)
Crash ==
    /\ crashes < MaxCrashes
    /\ crashes' = crashes + 1
    /\ pc' = [w \in Workers |-> IF Live(w) THEN "gone" ELSE pc[w]]
    /\ cancelPc' = [c \in Cancellers |->
                      IF cancelPc[c] \in {"lookup", "interrupt"} THEN "error" ELSE cancelPc[c]]
    /\ slots' = 0
    /\ parked' = <<>>
    /\ cancels' = [s \in Scans |-> None]
    /\ UNCHANGED <<store, cancelled, target, grabbed, job, overlapped>>

WorkerStep(w) ==
    \/ EnsureScan(w) \/ CreateScan(w) \/ Acquire(w) \/ RegisterCancel(w)
    \/ MarkProcess(w) \/ NoteProgress(w) \/ Work(w) \/ PersistLogs(w)
    \/ UploadReport(w) \/ MarkDone(w) \/ Fail(w) \/ MarkFail(w)
    \/ UnregisterCancel(w) \/ Release(w)

CancellerStep(c) == LookupCancel(c) \/ Interrupt(c)

Next ==
    \/ \E w \in Workers : WorkerStep(w) \/ \E s \in Scans, p \in Projects : HandleScan(w, s, p)
    \/ \E c \in Cancellers : CancellerStep(c) \/ \E s \in Scans : CancelScan(c, s)
    \/ Crash

Spec == Init /\ [][Next]_vars

(* The Go scheduler runs every runnable goroutine, and the calls a         *)
(* goroutine makes return. Nobody has to send a request, nothing has to    *)
(* crash.                                                                  *)
Fairness ==
    /\ \A w \in Workers : WF_vars(WorkerStep(w))
    /\ \A c \in Cancellers : WF_vars(CancellerStep(c))

FairSpec == Spec /\ Fairness
-----------------------------------------------------------------------------
(* Every variable keeps the shape the code gives it; in particular a row   *)
(* only ever holds a status the schema's users know (store.go:25-29).      *)
TypeOK ==
    /\ rows \in [Scans -> Row \cup {None}]
    /\ reports \in [Projects -> Scans \cup {None}]
    /\ logs \subseteq Scans
    /\ pc \in [Workers -> Places]
    /\ job \in [Workers -> Job \cup {None}]
    /\ \A w \in Workers : pc[w] # "idle" => job[w] \in Job
    /\ slots \in Int
    /\ parked \in Seq(Workers)
    /\ cancels \in [Scans -> Workers \cup {None}]
    /\ cancelled \subseteq Workers
    /\ cancelPc \in [Cancellers -> {"idle", "lookup", "interrupt", "answered", "refused", "error"}]
    /\ target \in [Cancellers -> Scans \cup {None}]
    /\ \A c \in Cancellers : cancelPc[c] # "idle" => target[c] \in Scans
    /\ grabbed \in [Cancellers -> Workers \cup {None}]
    /\ overlapped \subseteq Scans
    /\ crashes \in 0 .. MaxCrashes
    /\ lostWrites \in 0 .. MaxLostWrites

(* The semaphore counts exactly the goroutines between its acquire and its *)
(* deferred release, so no more than MAX_CONCURRENT_SCANS scans run at     *)
(* once (ARCHITECTURE.md), on every path out of runScan and across         *)
(* restarts; a goroutine waits only while the channel is full.             *)
Holders == {w \in Workers : pc[w] \in Holding}

SlotsMatchWorkers ==
    /\ slots = Cardinality(Holders)
    /\ slots <= Capacity
    /\ parked # <<>> => slots = Capacity

(* The parked goroutines are those of the queue, each once: a slot that is *)
(* freed is never handed to a goroutine that does not wait for it, and no  *)
(* goroutine waits forgotten. The proofs rest on it.                       *)
ParkedMatchWorkers ==
    /\ \A i \in 1 .. Len(parked) : pc[parked[i]] = "parked"
    /\ \A i, j \in 1 .. Len(parked) : parked[i] = parked[j] => i = j
    /\ \A w \in Workers : pc[w] = "parked" => \E i \in 1 .. Len(parked) : parked[i] = w

(* An id in Server.cancels belongs to a goroutine that still runs that     *)
(* scan; and a running scan is in the map, so that it can be interrupted,  *)
(* unless two requests for its id were live at once.                       *)
MapMatchesRunning ==
    /\ \A s \in Scans : cancels[s] # None =>
          pc[cancels[s]] \in Registered /\ ScanOf(cancels[s]) = s
    /\ \A w \in Workers : pc[w] \in Registered /\ ScanOf(w) \notin overlapped =>
          cancels[ScanOf(w)] = w

(* The function that a cancel request took out of the map is called after  *)
(* the mutex is released: whatever registered or ended in between, it is   *)
(* one of the scan that the request names.                                 *)
GrabbedIsOfTarget ==
    \A c \in Cancellers :
        /\ cancelPc[c] = "idle" => grabbed[c] = None
        /\ grabbed[c] # None => pc[grabbed[c]] # "idle" /\ ScanOf(grabbed[c]) = target[c]

(* cancelRunning interrupts no other scan than the one asked for, and      *)
(* finds it while it runs, but for overlapping requests (server.go:324-325).   *)
CancelsReachTheirScan == MapMatchesRunning /\ GrabbedIsOfTarget

(* The goroutines of scans form a bounded pool: the semaphore admits them  *)
(* as BoundedPool says, one abstract step for each acquire and release.    *)
Pool == INSTANCE BoundedPool WITH
    Tasks <- Workers, running <- Holders, waiting <- parked

ImplementsBoundedPool == Pool!Spec

(* A row that says "done" points at a report which is in the bucket under  *)
(* the row's own project, whatever was cancelled, lost, restarted or       *)
(* requested twice: the Manager starts the report job on that word.        *)
DoneHasReport ==
    \A s \in Scans : RowIn(s, {"done"}) =>
        rows[s].result /\ reports[rows[s].project] # None

(* A finished row (done or fail) never changes again, neither by a late    *)
(* cancel nor by a second request for its id, unless two requests for the  *)
(* id were live at once.                                                   *)
FinishedStays ==
    [][\A s \in Scans : RowIn(s, FinishedStatuses) /\ s \notin overlapped' =>
          rows'[s] = rows[s]]_vars

(* Every accepted scan gets a slot and its goroutine ends, however many    *)
(* queue for it; and it comes to an end that the table shows, at least for *)
(* a moment: done, fail or cancel. A restart or a failed UPDATE may leave  *)
(* the row behind for good, which the exception names.                     *)
EveryScanSettles ==
    /\ \A w \in Workers : pc[w] = "arrive" ~> pc[w] = "gone"
    /\ \A w \in Workers, s \in Scans : pc[w] = "arrive" /\ ScanOf(w) = s ~>
          \/ RowIn(s, FinishedStatuses \cup {"cancel"})
          \/ crashes > 0 \/ lostWrites > 0

(* server.go:352-353 says of `fail` that it "routes cancellation to the    *)
(* cancel state": a goroutine that stops because it was cancelled leaves   *)
(* its row in "cancel".                                                    *)
FailRoutesToCancel ==
    [][\A w \in Workers : pc[w] = "failing" /\ pc'[w] = "unregister" =>
          RowIn(ScanOf(w), {"cancel"})]_vars
=============================================================================
