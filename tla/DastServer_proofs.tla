-------------------------- MODULE DastServer_proofs --------------------------
(***************************************************************************)
(* Proofs about DastServer, for every set of requests, scans and projects  *)
(* and every limit. Type correctness comes first; each further invariant   *)
(* is inductive relative to it.                                            *)
(***************************************************************************)
EXTENDS DastServer, FiniteSetTheorems, SequenceTheorems, TLAPS

(* An UPDATE keeps the table well-typed when the row it writes is.         *)
LEMMA UpdateType ==
    ASSUME TypeOK, NEW s \in Scans, NEW row,
           rows[s] # None => row \in Row,
           Update(s, row)
    PROVE  /\ rows' \in [Scans -> Row \cup {None}]
           /\ lostWrites' \in 0 .. MaxLostWrites
  BY BoundsAssumption DEF TypeOK, Update

(* A changed status or result leaves a row a row.                          *)
LEMMA SetStatusType ==
    ASSUME TypeOK, NEW s \in Scans, NEW status \in Statuses, NEW result \in BOOLEAN,
           SetStatus(s, status, result)
    PROVE  /\ rows' \in [Scans -> Row \cup {None}]
           /\ lostWrites' \in 0 .. MaxLostWrites
  <1>1. rows[s] # None => [rows[s] EXCEPT !.status = status, !.result = result] \in Row
    BY DEF TypeOK, Row
  <1> QED BY <1>1, UpdateType DEF SetStatus

LEMMA SetProgressType ==
    ASSUME TypeOK, NEW s \in Scans, SetProgress(s)
    PROVE  /\ rows' \in [Scans -> Row \cup {None}]
           /\ lostWrites' \in 0 .. MaxLostWrites
  <1>1. rows[s] # None => [rows[s] EXCEPT !.status = "process"] \in Row
    BY DEF TypeOK, Row, Statuses, ActiveStatuses
  <1> QED BY <1>1, UpdateType DEF SetProgress

(* A request that has begun knows its scan and its project.                *)
LEMMA JobKnown ==
    ASSUME TypeOK, NEW w \in Workers, pc[w] # "idle"
    PROVE  ScanOf(w) \in Scans /\ ProjectOf(w) \in Projects
  BY DEF TypeOK, Job, ScanOf, ProjectOf

(* Moving one goroutine to another place keeps pc and job well-typed.      *)
LEMMA GotoType ==
    ASSUME TypeOK, NEW w \in Workers, NEW place \in Places, pc[w] # "idle",
           Goto(w, place), UNCHANGED job
    PROVE  /\ pc' \in [Workers -> Places]
           /\ \A v \in Workers : pc'[v] # "idle" => job'[v] \in Job
  BY DEF TypeOK, Goto

(* The head of a queue that is not empty is a goroutine waiting for it.    *)
LEMMA HeadParked ==
    ASSUME TypeOK, ParkedMatchWorkers, parked # <<>>
    PROVE  Head(parked) \in Workers /\ pc[Head(parked)] = "parked"
  BY DEF TypeOK, ParkedMatchWorkers

(* Every step of the service keeps every variable well-typed.              *)
LEMMA TypeStep == TypeOK /\ ParkedMatchWorkers /\ [Next]_vars => TypeOK'
  <1> SUFFICES ASSUME TypeOK, ParkedMatchWorkers, [Next]_vars PROVE TypeOK'
    OBVIOUS
  <1> USE DEF Places, Holding, Registered, store, server, cancelling
  <1>1. ASSUME NEW w \in Workers, NEW s \in Scans, NEW p \in Projects, HandleScan(w, s, p)
        PROVE  TypeOK'
    BY <1>1 DEF HandleScan, TypeOK, Goto, Job
  <1>2. ASSUME NEW w \in Workers, EnsureScan(w) PROVE TypeOK'
    BY <1>2, GotoType DEF EnsureScan, TypeOK
  <1>3. ASSUME NEW w \in Workers, CreateScan(w) PROVE TypeOK'
    <2>1. [project |-> ProjectOf(w), status |-> "new", result |-> FALSE] \in Row
      BY <1>3, JobKnown DEF CreateScan, Row, Statuses, ActiveStatuses
    <2>2. rows' \in [Scans -> Row \cup {None}]
      BY <1>3, <2>1, JobKnown DEF CreateScan, TypeOK
    <2> QED BY <1>3, <2>2, GotoType DEF CreateScan, TypeOK
  <1>4. ASSUME NEW w \in Workers, Acquire(w) PROVE TypeOK'
    <2> slots \in Int /\ parked \in Seq(Workers)
      BY DEF TypeOK
    <2>1. parked' \in Seq(Workers)
      BY <1>4, AppendProperties DEF Acquire
    <2>4. slots' \in Int
      BY <1>4 DEF Acquire
    <2>2. pc' \in [Workers -> Places]
          /\ \A v \in Workers : pc'[v] # "idle" => job'[v] \in Job
      BY <1>4, GotoType DEF Acquire
    <2>3. UNCHANGED <<store, cancelling, cancels, cancelled, job, overlapped, crashes>>
      BY <1>4 DEF Acquire
    <2> QED BY <2>1, <2>2, <2>3, <2>4 DEF TypeOK
  <1>5. ASSUME NEW w \in Workers, RegisterCancel(w) PROVE TypeOK'
    BY <1>5, GotoType, JobKnown DEF RegisterCancel, TypeOK
  <1>6. ASSUME NEW w \in Workers, MarkProcess(w) PROVE TypeOK'
    <2>1. rows' \in [Scans -> Row \cup {None}] /\ lostWrites' \in 0 .. MaxLostWrites
      BY <1>6, JobKnown, SetStatusType DEF MarkProcess, Statuses, ActiveStatuses
    <2> QED BY <1>6, <2>1, GotoType DEF MarkProcess, TypeOK
  <1>7. ASSUME NEW w \in Workers, NoteProgress(w) PROVE TypeOK'
    <2>1. rows' \in [Scans -> Row \cup {None}] /\ lostWrites' \in 0 .. MaxLostWrites
      BY <1>7, JobKnown, SetProgressType DEF NoteProgress, AfterNote
    <2>2. pc[w] # "idle" /\ AfterNote[pc[w]] \in Places
      BY <1>7 DEF NoteProgress, AfterNote
    <2> QED BY <1>7, <2>1, <2>2, GotoType DEF NoteProgress, TypeOK
  <1>8. ASSUME NEW w \in Workers, Work(w) PROVE TypeOK'
    <2>1. pc[w] # "idle" /\ AfterWork[pc[w]] \in Places
      BY <1>8 DEF Work, AfterWork
    <2> QED BY <1>8, <2>1, GotoType DEF Work, TypeOK
  <1>9. ASSUME NEW w \in Workers, PersistLogs(w) PROVE TypeOK'
    BY <1>9, GotoType, JobKnown DEF PersistLogs, TypeOK
  <1>10. ASSUME NEW w \in Workers, UploadReport(w) PROVE TypeOK'
    BY <1>10, GotoType, JobKnown DEF UploadReport, TypeOK
  <1>11. ASSUME NEW w \in Workers, MarkDone(w) PROVE TypeOK'
    <2>1. rows' \in [Scans -> Row \cup {None}] /\ lostWrites' \in 0 .. MaxLostWrites
      BY <1>11, JobKnown, SetStatusType DEF MarkDone, Statuses, FinishedStatuses
    <2> QED BY <1>11, <2>1, GotoType DEF MarkDone, TypeOK
  <1>12. ASSUME NEW w \in Workers, Fail(w) PROVE TypeOK'
    BY <1>12, GotoType DEF Fail, TypeOK
  <1>13. ASSUME NEW w \in Workers, MarkFail(w) PROVE TypeOK'
    <2>1. rows' \in [Scans -> Row \cup {None}] /\ lostWrites' \in 0 .. MaxLostWrites
      BY <1>13, JobKnown, SetStatusType DEF MarkFail, Statuses, FinishedStatuses
    <2> QED BY <1>13, <2>1, GotoType DEF MarkFail, TypeOK
  <1>14. ASSUME NEW w \in Workers, UnregisterCancel(w) PROVE TypeOK'
    BY <1>14, GotoType, JobKnown DEF UnregisterCancel, TypeOK
  <1>15. ASSUME NEW w \in Workers, Release(w) PROVE TypeOK'
    <2>1. CASE parked = <<>>
      BY <1>15, <2>1, GotoType DEF Release, TypeOK
    <2>2. CASE parked # <<>>
      <3>1. Head(parked) \in Workers /\ pc[Head(parked)] = "parked"
        BY <2>2, HeadParked
      <3>2. pc' \in [Workers -> Places]
            /\ \A v \in Workers : pc'[v] # "idle" => job'[v] \in Job
        BY <1>15, <2>2, <3>1 DEF Release, TypeOK
      <3> parked \in Seq(Workers)
        BY DEF TypeOK
      <3>3. parked' \in Seq(Workers)
        BY <1>15, <2>2, HeadTailProperties DEF Release
      <3>4. cancelled' \subseteq Workers
        BY <1>15 DEF Release, TypeOK
      <3>5. slots' \in Int
        BY <1>15, <2>2 DEF Release, TypeOK
      <3>6. UNCHANGED <<store, cancelling, cancels, job, overlapped, crashes>>
        BY <1>15 DEF Release
      <3> QED BY <3>2, <3>3, <3>4, <3>5, <3>6 DEF TypeOK
    <2> QED BY <2>1, <2>2
  <1>16. ASSUME NEW c \in Cancellers, NEW s \in Scans, CancelScan(c, s) PROVE TypeOK'
    <2>1. rows' \in [Scans -> Row \cup {None}]
      BY <1>16 DEF CancelScan, TypeOK, Row, Statuses, RowIn
    <2> QED BY <1>16, <2>1, BoundsAssumption DEF CancelScan, TypeOK
  <1>17. ASSUME NEW c \in Cancellers, LookupCancel(c) PROVE TypeOK'
    BY <1>17 DEF LookupCancel, TypeOK
  <1>18. ASSUME NEW c \in Cancellers, Interrupt(c) PROVE TypeOK'
    BY <1>18 DEF Interrupt, TypeOK
  <1>19. CASE Crash
    BY <1>19, BoundsAssumption DEF Crash, TypeOK, Live
  <1>20. CASE UNCHANGED vars
    BY <1>20 DEF vars, TypeOK
  <1> QED
    BY <1>1, <1>2, <1>3, <1>4, <1>5, <1>6, <1>7, <1>8, <1>9, <1>10, <1>11, <1>12, <1>13,
       <1>14, <1>15, <1>16, <1>17, <1>18, <1>19, <1>20
    DEF Next, WorkerStep, CancellerStep

-----------------------------------------------------------------------------
(* A goroutine that moves between places that are not in the queue, while  *)
(* the queue stays, leaves the queue and its goroutines in agreement.      *)
LEMMA ParkedUndisturbed ==
    ASSUME TypeOK, ParkedMatchWorkers, NEW w \in Workers, NEW place,
           pc[w] # "parked", place # "parked", Goto(w, place), UNCHANGED parked
    PROVE  ParkedMatchWorkers'
  <1>1. \A v \in Workers : pc'[v] = "parked" <=> pc[v] = "parked"
    BY DEF TypeOK, Goto
  <1>2. \A i \in 1 .. Len(parked) : parked[i] \in Workers
    BY DEF TypeOK
  <1> QED BY <1>1, <1>2 DEF ParkedMatchWorkers

(* Every step of a goroutine but the acquire and the release moves it      *)
(* alone, without crossing the border of the slots, the queue or the       *)
(* requests that are not live, except for a refused request, which leaves. *)
Inside(w, place) ==
    /\ Goto(w, place)
    /\ place \in Places /\ Live(w)
    /\ pc[w] # "parked" /\ place \notin {"parked", "idle"}
    /\ pc[w] \in Holding <=> place \in Holding
    /\ UNCHANGED <<slots, parked, job, overlapped>>

LEMMA InsideStep ==
    ASSUME NEW w \in Workers, WorkerStep(w), ~Acquire(w), ~Release(w)
    PROVE  \E place : Inside(w, place)
  <1> USE DEF Inside, Live, Places, Holding, Registered, server
  <1>1. CASE EnsureScan(w)
    BY <1>1 DEF EnsureScan
  <1>2. CASE CreateScan(w)
    BY <1>2 DEF CreateScan
  <1>3. CASE RegisterCancel(w)
    BY <1>3 DEF RegisterCancel
  <1>4. CASE MarkProcess(w)
    BY <1>4 DEF MarkProcess
  <1>5. CASE NoteProgress(w)
    BY <1>5 DEF NoteProgress, AfterNote
  <1>6. CASE Work(w)
    BY <1>6 DEF Work, AfterWork
  <1>7. CASE PersistLogs(w)
    BY <1>7 DEF PersistLogs
  <1>8. CASE UploadReport(w)
    BY <1>8 DEF UploadReport
  <1>9. CASE MarkDone(w)
    BY <1>9 DEF MarkDone
  <1>10. CASE Fail(w)
    BY <1>10 DEF Fail
  <1>11. CASE MarkFail(w)
    BY <1>11 DEF MarkFail
  <1>12. CASE UnregisterCancel(w)
    BY <1>12 DEF UnregisterCancel
  <1> QED
    BY <1>1, <1>2, <1>3, <1>4, <1>5, <1>6, <1>7, <1>8, <1>9, <1>10, <1>11, <1>12 DEF WorkerStep

(* No step makes the queue and the parked goroutines disagree.             *)
LEMMA ParkedStep == TypeOK /\ ParkedMatchWorkers /\ [Next]_vars => ParkedMatchWorkers'
  <1> SUFFICES ASSUME TypeOK, ParkedMatchWorkers, [Next]_vars PROVE ParkedMatchWorkers'
    OBVIOUS
  <1> parked \in Seq(Workers) /\ pc \in [Workers -> Places]
    BY DEF TypeOK
  <1>1. ASSUME NEW w \in Workers, WorkerStep(w), ~Acquire(w), ~Release(w)
        PROVE  ParkedMatchWorkers'
    <2>1. PICK place : Inside(w, place)
      BY <1>1, InsideStep
    <2> QED BY <2>1, ParkedUndisturbed DEF Inside
  <1>2. ASSUME NEW w \in Workers, NEW s \in Scans, NEW p \in Projects, HandleScan(w, s, p)
        PROVE  ParkedMatchWorkers'
    BY <1>2, ParkedUndisturbed DEF HandleScan, server
  <1>3. ASSUME NEW w \in Workers, Acquire(w) PROVE ParkedMatchWorkers'
    <2>1. CASE UNCHANGED parked /\ Goto(w, "register")
      <3>1. pc[w] # "parked" /\ UNCHANGED parked /\ Goto(w, "register")
        BY <1>3, <2>1 DEF Acquire
      <3> QED BY <3>1, ParkedUndisturbed
    <2>2. CASE parked' = Append(parked, w) /\ Goto(w, "parked")
      <3>1. \A i \in 1 .. Len(parked) : parked[i] # w
        BY <1>3 DEF Acquire, ParkedMatchWorkers
      <3>2. /\ Len(parked') = Len(parked) + 1
            /\ \A i \in 1 .. Len(parked) : parked'[i] = parked[i]
            /\ parked'[Len(parked) + 1] = w
        BY <2>2, AppendProperties
      <3>3. Len(parked) \in Nat /\ \A i \in 1 .. Len(parked) : parked[i] \in Workers
        OBVIOUS
      <3>4. pc' = [pc EXCEPT ![w] = "parked"]
        BY <2>2 DEF Goto
      <3> QED BY <3>1, <3>2, <3>3, <3>4 DEF ParkedMatchWorkers
    <2> QED BY <1>3, <2>1, <2>2 DEF Acquire
  <1>4. ASSUME NEW w \in Workers, Release(w) PROVE ParkedMatchWorkers'
    <2>1. CASE parked = <<>>
      <3>1. pc[w] # "parked" /\ UNCHANGED parked /\ Goto(w, "gone")
        BY <1>4, <2>1 DEF Release
      <3> QED BY <3>1, ParkedUndisturbed
    <2>2. CASE parked # <<>>
      <3>1. /\ Len(parked') = Len(parked) - 1
            /\ \A i \in 1 .. Len(parked') : parked'[i] = parked[i + 1]
        BY <1>4, <2>2, HeadTailProperties DEF Release
      <3>2. Head(parked) = parked[1] /\ Len(parked) \in Nat /\ Len(parked) > 0
        BY <2>2
      <3>3. \A i \in 1 .. Len(parked) : parked[i] \in Workers
        OBVIOUS
      <3>4. pc' = [pc EXCEPT ![w] = "gone", ![parked[1]] = "register"] /\ pc[w] = "release"
        BY <1>4, <2>2, <3>2 DEF Release
      <3>5. \A i \in 1 .. Len(parked') : pc'[parked'[i]] = "parked"
        BY <3>1, <3>2, <3>3, <3>4 DEF ParkedMatchWorkers
      <3>6. \A i, j \in 1 .. Len(parked') : parked'[i] = parked'[j] => i = j
        BY <3>1, <3>2, <3>3 DEF ParkedMatchWorkers
      <3>7. ASSUME NEW v \in Workers, pc'[v] = "parked"
            PROVE  \E i \in 1 .. Len(parked') : parked'[i] = v
        <4>1. pc[v] = "parked" /\ v # parked[1]
          BY <3>2, <3>3, <3>4, <3>7
        <4>2. PICK i \in 1 .. Len(parked) : parked[i] = v
          BY <4>1 DEF ParkedMatchWorkers
        <4>3. i - 1 \in 1 .. Len(parked') /\ parked'[i - 1] = v
          BY <3>1, <3>2, <4>1, <4>2
        <4> QED BY <4>3
      <3> QED BY <3>5, <3>6, <3>7 DEF ParkedMatchWorkers
    <2> QED BY <2>1, <2>2
  <1>5. ASSUME NEW c \in Cancellers, CancellerStep(c) \/ \E s \in Scans : CancelScan(c, s)
        PROVE  ParkedMatchWorkers'
    BY <1>5 DEF CancellerStep, CancelScan, LookupCancel, Interrupt, server, ParkedMatchWorkers
  <1>6. CASE Crash
    BY <1>6 DEF Crash, Live, ParkedMatchWorkers
  <1>7. CASE UNCHANGED vars
    BY <1>7 DEF vars, server, ParkedMatchWorkers
  <1> QED BY <1>1, <1>2, <1>3, <1>4, <1>5, <1>6, <1>7 DEF Next

-----------------------------------------------------------------------------
(* Type correctness: every reachable state is well-typed.                  *)
THEOREM TypeCorrect == Spec => [](TypeOK /\ ParkedMatchWorkers)
  <1>1. ASSUME Init PROVE TypeOK /\ ParkedMatchWorkers
    <2>1. rows \in [Scans -> Row \cup {None}]
      BY <1>1 DEF Init, Row, Statuses, ActiveStatuses
    <2>2. parked \in Seq(Workers) /\ Len(parked) = 0
      BY <1>1 DEF Init
    <2>3. pc \in [Workers -> Places] /\ \A w \in Workers : pc[w] = "idle"
      BY <1>1 DEF Init, Places
    <2>4. ParkedMatchWorkers
      BY <2>2, <2>3 DEF ParkedMatchWorkers
    <2> QED BY <1>1, <2>1, <2>2, <2>3, <2>4, BoundsAssumption DEF Init, TypeOK
  <1> QED BY <1>1, TypeStep, ParkedStep, PTL DEF Spec

(* The set of slot holders changes only at the border it is defined by.    *)
LEMMA HoldersKept ==
    ASSUME TypeOK, NEW w \in Workers, NEW place, Inside(w, place)
    PROVE  Holders' = Holders
  BY DEF TypeOK, Inside, Goto, Holders

LEMMA HoldersFinite == IsFiniteSet(Holders) /\ Cardinality(Holders) \in Nat
  BY FiniteAssumption, FS_Subset, FS_CardinalityType DEF Holders

LEMMA HoldersJoin ==
    ASSUME TypeOK, NEW w \in Workers, pc[w] = "arrive", Goto(w, "register")
    PROVE  /\ w \notin Holders
           /\ Holders' = Holders \cup {w}
           /\ Cardinality(Holders') = Cardinality(Holders) + 1
  <1>1. w \notin Holders /\ Holders' = Holders \cup {w}
    BY DEF TypeOK, Goto, Holders, Holding, Registered
  <1> QED BY <1>1, HoldersFinite, FS_AddElement

LEMMA HoldersLeave ==
    ASSUME TypeOK, NEW w \in Workers, pc[w] = "release", Goto(w, "gone")
    PROVE  /\ w \in Holders
           /\ Holders' = Holders \ {w}
           /\ Cardinality(Holders') = Cardinality(Holders) - 1
  <1>1. w \in Holders /\ Holders' = Holders \ {w}
    BY DEF TypeOK, Goto, Holders, Holding, Registered
  <1> QED BY <1>1, HoldersFinite, FS_RemoveElement

LEMMA HoldersHandOver ==
    ASSUME TypeOK, NEW w \in Workers, NEW h \in Workers, pc[w] = "release", pc[h] = "parked",
           pc' = [pc EXCEPT ![w] = "gone", ![h] = "register"]
    PROVE  /\ w \in Holders
           /\ Holders' = (Holders \ {w}) \cup {h}
           /\ Cardinality(Holders') = Cardinality(Holders)
  <1>1. w \in Holders /\ h \notin Holders \ {w} /\ Holders' = (Holders \ {w}) \cup {h}
    BY DEF TypeOK, Goto, Holders, Holding, Registered
  <1>2. IsFiniteSet(Holders \ {w}) /\ Cardinality(Holders \ {w}) = Cardinality(Holders) - 1
    BY <1>1, HoldersFinite, FS_RemoveElement
  <1>3. Cardinality((Holders \ {w}) \cup {h}) = Cardinality(Holders \ {w}) + 1
    BY <1>1, <1>2, FS_AddElement
  <1> QED BY <1>1, <1>2, <1>3, HoldersFinite

LEMMA CapacityPositive == Capacity \in Int /\ Capacity >= 1
  BY BoundsAssumption DEF Capacity

(* Each step keeps the count of the semaphore equal to the holders.        *)
LEMMA SlotsStep ==
    TypeOK /\ ParkedMatchWorkers /\ SlotsMatchWorkers /\ [Next]_vars => SlotsMatchWorkers'
  <1> SUFFICES ASSUME TypeOK, ParkedMatchWorkers, SlotsMatchWorkers, [Next]_vars
               PROVE  SlotsMatchWorkers'
    OBVIOUS
  <1> USE CapacityPositive, HoldersFinite
  <1>1. ASSUME NEW w \in Workers, WorkerStep(w), ~Acquire(w), ~Release(w)
        PROVE  SlotsMatchWorkers'
    BY <1>1, InsideStep, HoldersKept DEF Inside, SlotsMatchWorkers
  <1>2. ASSUME NEW w \in Workers, NEW s \in Scans, NEW p \in Projects, HandleScan(w, s, p)
        PROVE  SlotsMatchWorkers'
    <2>1. Holders' = Holders
      BY <1>2 DEF HandleScan, TypeOK, Goto, Holders, Holding, Registered
    <2> QED BY <1>2, <2>1 DEF HandleScan, server, SlotsMatchWorkers
  <1>3. ASSUME NEW w \in Workers, Acquire(w) PROVE SlotsMatchWorkers'
    <2>1. CASE slots < Capacity /\ slots' = slots + 1 /\ Goto(w, "register") /\ UNCHANGED parked
      BY <1>3, <2>1, HoldersJoin DEF Acquire, SlotsMatchWorkers
    <2>2. CASE slots >= Capacity /\ Goto(w, "parked") /\ UNCHANGED slots
      <3>1. Holders' = Holders
        BY <1>3, <2>2 DEF Acquire, TypeOK, Goto, Holders, Holding, Registered
      <3> QED BY <2>2, <3>1 DEF SlotsMatchWorkers
    <2> QED BY <1>3, <2>1, <2>2 DEF Acquire
  <1>4. ASSUME NEW w \in Workers, Release(w) PROVE SlotsMatchWorkers'
    <2>1. CASE parked = <<>> /\ slots' = slots - 1 /\ Goto(w, "gone") /\ UNCHANGED parked
      BY <1>4, <2>1, HoldersLeave DEF Release, SlotsMatchWorkers
    <2>2. CASE parked # <<>> /\ UNCHANGED slots
      <3>1. Cardinality(Holders') = Cardinality(Holders)
        BY <1>4, <2>2, HeadParked, HoldersHandOver DEF Release
      <3> QED BY <2>2, <3>1 DEF SlotsMatchWorkers
    <2> QED BY <1>4, <2>1, <2>2 DEF Release
  <1>5. ASSUME NEW c \in Cancellers, CancellerStep(c) \/ \E s \in Scans : CancelScan(c, s)
        PROVE  SlotsMatchWorkers'
    BY <1>5 DEF CancellerStep, CancelScan, LookupCancel, Interrupt, server, SlotsMatchWorkers, Holders
  <1>6. CASE Crash
    <2>1. Holders' = {}
      BY <1>6 DEF Crash, Live, Holders, TypeOK, Holding, Registered
    <2>2. Cardinality({}) = 0
      BY FS_EmptySet
    <2> QED BY <1>6, <2>1, <2>2 DEF Crash, SlotsMatchWorkers
  <1>7. CASE UNCHANGED vars
    BY <1>7 DEF vars, server, SlotsMatchWorkers, Holders
  <1> QED BY <1>1, <1>2, <1>3, <1>4, <1>5, <1>6, <1>7 DEF Next

(* The semaphore counts the running scans, and they never exceed the       *)
(* limit, for every limit and any number of requests.                      *)
THEOREM SlotsCorrect == Spec => []SlotsMatchWorkers
  <1>1. ASSUME Init PROVE SlotsMatchWorkers
    <2>1. Holders = {} /\ slots = 0 /\ parked = <<>>
      BY <1>1 DEF Init, Holders, Holding, Registered
    <2>2. Cardinality({}) = 0
      BY FS_EmptySet
    <2> QED BY <2>1, <2>2, CapacityPositive DEF SlotsMatchWorkers
  <1> QED BY <1>1, TypeCorrect, SlotsStep, PTL DEF Spec

LEMMA PoolCardinality == Pool!Cardinality(Holders) = Cardinality(Holders)
  BY DEF Pool!Cardinality, Cardinality

(* The service implements BoundedPool: an acquire is an arrival, a release *)
(* a departure, a crash a restart, and every other step changes neither    *)
(* the holders of slots nor the queue.                                     *)
LEMMA PoolStep ==
    TypeOK /\ ParkedMatchWorkers /\ SlotsMatchWorkers /\ [Next]_vars
        => [Pool!Next]_(Pool!pool)
  <1> SUFFICES ASSUME TypeOK, ParkedMatchWorkers, SlotsMatchWorkers, [Next]_vars
               PROVE  Pool!Next \/ UNCHANGED <<Holders, parked>>
    BY DEF Pool!pool
  <1>1. ASSUME NEW w \in Workers, WorkerStep(w), ~Acquire(w), ~Release(w)
        PROVE  UNCHANGED <<Holders, parked>>
    BY <1>1, InsideStep, HoldersKept DEF Inside
  <1>2. ASSUME NEW w \in Workers, NEW s \in Scans, NEW p \in Projects, HandleScan(w, s, p)
        PROVE  UNCHANGED <<Holders, parked>>
    BY <1>2 DEF HandleScan, TypeOK, Goto, Holders, Holding, Registered, server
  <1>3. ASSUME NEW w \in Workers, Acquire(w) PROVE Pool!Arrive(w)
    <2>1. w \notin Holders /\ \A i \in 1 .. Len(parked) : parked[i] # w
      BY <1>3 DEF Acquire, Holders, Holding, Registered, ParkedMatchWorkers
    <2>2. CASE slots < Capacity /\ Goto(w, "register") /\ UNCHANGED parked
      BY <1>3, <2>1, <2>2, HoldersJoin, PoolCardinality DEF Acquire, SlotsMatchWorkers, Pool!Arrive
    <2>3. CASE slots >= Capacity /\ parked' = Append(parked, w) /\ Goto(w, "parked")
      <3>1. Holders' = Holders
        BY <1>3, <2>3 DEF Acquire, TypeOK, Goto, Holders, Holding, Registered
      <3> QED BY <2>1, <2>3, <3>1, PoolCardinality DEF SlotsMatchWorkers, Pool!Arrive
    <2> QED BY <1>3, <2>2, <2>3 DEF Acquire
  <1>4. ASSUME NEW w \in Workers, Release(w) PROVE Pool!Leave(w)
    <2>1. CASE parked = <<>> /\ Goto(w, "gone") /\ UNCHANGED parked
      BY <1>4, <2>1, HoldersLeave DEF Release, Pool!Leave
    <2>2. CASE parked # <<>>
      BY <1>4, <2>2, HeadParked, HoldersHandOver DEF Release, Pool!Leave
    <2> QED BY <1>4, <2>1, <2>2 DEF Release
  <1>5. ASSUME NEW c \in Cancellers, CancellerStep(c) \/ \E s \in Scans : CancelScan(c, s)
        PROVE  UNCHANGED <<Holders, parked>>
    BY <1>5 DEF CancellerStep, CancelScan, LookupCancel, Interrupt, server, Holders
  <1>6. CASE Crash
    BY <1>6 DEF Crash, Live, Holders, TypeOK, Holding, Registered, Pool!Next, Pool!Restart
  <1>7. CASE UNCHANGED vars
    BY <1>7 DEF vars, server, Holders
  <1> QED BY <1>1, <1>2, <1>3, <1>4, <1>5, <1>6, <1>7 DEF Next, Pool!Next

THEOREM PoolImplemented == Spec => ImplementsBoundedPool
  <1>1. Init => Pool!Init
    BY DEF Init, Pool!Init, Holders, Holding, Registered
  <1> QED
    BY <1>1, PoolStep, TypeCorrect, SlotsCorrect, PTL
    DEF Spec, ImplementsBoundedPool, Pool!Spec

-----------------------------------------------------------------------------
(* Places at which a request has passed EnsureScan, and those among them   *)
(* from which its goroutine may still write the row.                       *)
Accepted == Holding \cup {"arrive", "parked"}
Writing == Accepted \ {"unregister", "release"}

(* Who can change a row, and to what: each change is an insertion, one of  *)
(* the four kinds of UPDATE a goroutine makes, or a cancel.                *)
RowChanged(s) ==
    \/ /\ rows[s] = None
       /\ \E w \in Workers :
             /\ pc[w] = "create" /\ ScanOf(w) = s
             /\ rows'[s] = [project |-> ProjectOf(w), status |-> "new", result |-> FALSE]
    \/ /\ rows[s] # None
       /\ \E w \in Workers :
             /\ ScanOf(w) = s
             /\ \/ /\ pc[w] \in Writing
                   /\ rows'[s] = [rows[s] EXCEPT !.status = "process"]
                \/ /\ pc[w] \in Writing
                   /\ rows'[s] = [rows[s] EXCEPT !.status = "process", !.result = FALSE]
                \/ /\ pc[w] = "finish" /\ pc'[w] = "unregister"
                   /\ rows'[s] = [rows[s] EXCEPT !.status = "done", !.result = TRUE]
                \/ /\ pc[w] = "record" /\ pc'[w] = "unregister"
                   /\ rows'[s] = [rows[s] EXCEPT !.status = "fail", !.result = FALSE]
    \/ /\ RowIn(s, CancellableStatuses)
       /\ rows'[s] = [rows[s] EXCEPT !.status = "cancel"]

(* An UPDATE changes at most the row it names, and no row that is absent.  *)
LEMMA UpdateChanges ==
    ASSUME TypeOK, NEW s \in Scans, NEW r \in Scans, NEW row, Update(r, row),
           rows'[s] # rows[s]
    PROVE  s = r /\ rows[s] # None /\ rows'[s] = row
  BY DEF TypeOK, Update

LEMMA RowStep ==
    ASSUME TypeOK, [Next]_vars, NEW s \in Scans, rows'[s] # rows[s]
    PROVE  RowChanged(s)
  <1> USE DEF Accepted, Writing, Holding, Registered, store
  <1>1. ASSUME NEW w \in Workers, CreateScan(w) PROVE RowChanged(s)
    <2>1. ScanOf(w) \in Scans /\ pc[w] = "create"
      BY <1>1, JobKnown DEF CreateScan
    <2>2. /\ rows[ScanOf(w)] = None
          /\ rows' = [rows EXCEPT ![ScanOf(w)] =
                        [project |-> ProjectOf(w), status |-> "new", result |-> FALSE]]
      BY <1>1 DEF CreateScan
    <2>3. s = ScanOf(w)
      BY <2>1, <2>2 DEF TypeOK
    <2> QED BY <2>1, <2>2, <2>3 DEF RowChanged, TypeOK
  <1>2. ASSUME NEW w \in Workers, MarkProcess(w) PROVE RowChanged(s)
    <2>1. ScanOf(w) \in Scans /\ pc[w] \in Writing
      BY <1>2, JobKnown DEF MarkProcess, AfterNote
    <2> DEFINE row == [rows[ScanOf(w)] EXCEPT !.status = "process", !.result = FALSE]
    <2>2. Update(ScanOf(w), row)
      BY <1>2 DEF MarkProcess, SetStatus
    <2>3. s = ScanOf(w) /\ rows[s] # None /\ rows'[s] = row
      <3> HIDE DEF row
      <3> QED BY <2>1, <2>2, UpdateChanges
    <2> QED BY <2>1, <2>3 DEF RowChanged
  <1>3. ASSUME NEW w \in Workers, NoteProgress(w) PROVE RowChanged(s)
    <2>1. ScanOf(w) \in Scans /\ pc[w] \in Writing
      BY <1>3, JobKnown DEF NoteProgress, AfterNote
    <2>2. s = ScanOf(w) /\ rows[s] # None /\ rows'[s] = [rows[s] EXCEPT !.status = "process"]
      BY <1>3, <2>1, UpdateChanges DEF NoteProgress, SetProgress
    <2> QED BY <2>1, <2>2 DEF RowChanged
  <1>4. ASSUME NEW w \in Workers, MarkDone(w) PROVE RowChanged(s)
    <2>1. ScanOf(w) \in Scans /\ pc[w] = "finish" /\ pc'[w] = "unregister"
      BY <1>4, JobKnown DEF MarkDone, Goto, TypeOK
    <2>2. /\ s = ScanOf(w) /\ rows[s] # None
          /\ rows'[s] = [rows[s] EXCEPT !.status = "done", !.result = TRUE]
      BY <1>4, <2>1, UpdateChanges DEF MarkDone, SetStatus
    <2> QED BY <2>1, <2>2 DEF RowChanged
  <1>5. ASSUME NEW w \in Workers, MarkFail(w) PROVE RowChanged(s)
    <2>1. ScanOf(w) \in Scans /\ pc[w] = "record" /\ pc'[w] = "unregister"
      BY <1>5, JobKnown DEF MarkFail, Goto, TypeOK
    <2>2. /\ s = ScanOf(w) /\ rows[s] # None
          /\ rows'[s] = [rows[s] EXCEPT !.status = "fail", !.result = FALSE]
      BY <1>5, <2>1, UpdateChanges DEF MarkFail, SetStatus
    <2> QED BY <2>1, <2>2 DEF RowChanged
  <1>6. ASSUME NEW c \in Cancellers, NEW r \in Scans, CancelScan(c, r) PROVE RowChanged(s)
    BY <1>6 DEF CancelScan, RowChanged, TypeOK
  <1>7. CASE UNCHANGED rows
    BY <1>7
  <1>8. ASSUME NEW w \in Workers,
               \/ EnsureScan(w) \/ Acquire(w) \/ RegisterCancel(w) \/ Work(w) \/ PersistLogs(w)
               \/ UploadReport(w) \/ Fail(w) \/ UnregisterCancel(w) \/ Release(w)
               \/ \E r \in Scans, p \in Projects : HandleScan(w, r, p)
        PROVE  UNCHANGED rows
    BY <1>8 DEF EnsureScan, Acquire, RegisterCancel, Work, PersistLogs, UploadReport, Fail,
       UnregisterCancel, Release, HandleScan
  <1>9. ASSUME NEW c \in Cancellers, CancellerStep(c) PROVE UNCHANGED rows
    BY <1>9 DEF CancellerStep, LookupCancel, Interrupt
  <1>10. Crash \/ UNCHANGED vars => UNCHANGED rows
    BY DEF Crash, vars
  <1> QED
    BY <1>1, <1>2, <1>3, <1>4, <1>5, <1>6, <1>7, <1>8, <1>9, <1>10 DEF Next, WorkerStep

(* A row that exists stays, with its project, which no UPDATE names.       *)
LEMMA RowKept ==
    ASSUME TypeOK, [Next]_vars, NEW s \in Scans, rows[s] # None
    PROVE  rows'[s] # None /\ rows'[s].project = rows[s].project
  <1>1. rows[s] \in Row
    BY DEF TypeOK
  <1>2. CASE rows'[s] = rows[s]
    BY <1>2
  <1>3. CASE RowChanged(s)
    <2> USE DEF Row, Statuses, ActiveStatuses, FinishedStatuses
    <2>1. CASE rows'[s] = [rows[s] EXCEPT !.status = "cancel"]
      BY <1>1, <2>1, NoneAssumption
    <2>2. CASE rows'[s] = [rows[s] EXCEPT !.status = "process"]
      BY <1>1, <2>2, NoneAssumption
    <2>3. CASE rows'[s] = [rows[s] EXCEPT !.status = "process", !.result = FALSE]
      BY <1>1, <2>3, NoneAssumption
    <2>4. CASE rows'[s] = [rows[s] EXCEPT !.status = "done", !.result = TRUE]
      BY <1>1, <2>4, NoneAssumption
    <2>5. CASE rows'[s] = [rows[s] EXCEPT !.status = "fail", !.result = FALSE]
      BY <1>1, <2>5, NoneAssumption
    <2> QED BY <1>3, <2>1, <2>2, <2>3, <2>4, <2>5 DEF RowChanged
  <1> QED BY <1>2, <1>3, RowStep

-----------------------------------------------------------------------------
(* How a goroutine gets to the places at which it holds on to its row: by  *)
(* passing EnsureScan with an active row of its own project, by inserting  *)
(* the row, or by having been there before.                                *)
LEMMA AcceptedStep ==
    ASSUME TypeOK, ParkedMatchWorkers, [Next]_vars, NEW w \in Workers, pc'[w] \in Accepted
    PROVE  /\ pc[w] # "idle" /\ job'[w] = job[w]
           /\ \/ pc[w] \in Accepted
              \/ /\ pc[w] = "ensure" /\ UNCHANGED rows
                 /\ RowIn(ScanOf(w), ActiveStatuses)
                 /\ rows[ScanOf(w)].project = ProjectOf(w)
              \/ /\ pc[w] = "create"
                 /\ rows'[ScanOf(w)] =
                      [project |-> ProjectOf(w), status |-> "new", result |-> FALSE]
           /\ pc'[w] \in Writing => pc[w] \notin {"unregister", "release"}
  <1> USE DEF Accepted, Writing, Holding, Registered
  <1> pc \in [Workers -> Places]
    BY DEF TypeOK
  <1>1. ASSUME NEW v \in Workers, Release(v)
        PROVE  pc[w] \in Accepted /\ job' = job /\ (pc'[w] \in Writing => pc[w] \notin {"unregister", "release"})
    <2>1. CASE parked = <<>>
      BY <1>1, <2>1 DEF Release, Goto
    <2>2. CASE parked # <<>>
      BY <1>1, <2>2, HeadParked DEF Release
    <2> QED BY <2>1, <2>2
  <1>2. ASSUME NEW v \in Workers, NEW s \in Scans, NEW p \in Projects, HandleScan(v, s, p)
        PROVE  pc[w] = pc'[w] /\ job'[w] = job[w]
    BY <1>2 DEF HandleScan, Goto, TypeOK
  <1>3. ASSUME NEW v \in Workers, v # w, WorkerStep(v), ~Acquire(v), ~Release(v)
        PROVE  pc[w] = pc'[w] /\ job' = job
    BY <1>3, InsideStep DEF Inside, Goto
  <1>4. ASSUME NEW v \in Workers, Acquire(v)
        PROVE  pc[w] \in Accepted /\ job' = job /\ pc[w] \notin ({"unregister", "release"} \ {pc'[w]})
    BY <1>4 DEF Acquire, Goto
  <1>5. CASE EnsureScan(w)
    BY <1>5 DEF EnsureScan, Goto, store
  <1>6. CASE CreateScan(w)
    BY <1>6, JobKnown DEF CreateScan, Goto, TypeOK
  <1>7. ASSUME WorkerStep(w), ~EnsureScan(w), ~CreateScan(w), ~Acquire(w), ~Release(w)
        PROVE  pc[w] \in Accepted /\ job' = job /\ (pc'[w] \in Writing => pc[w] \notin {"unregister", "release"})
    <2>1. job' = job
      BY <1>7, InsideStep DEF Inside
    <2>2. CASE UnregisterCancel(w)
      BY <2>1, <2>2 DEF UnregisterCancel, Goto
    <2>3. CASE \/ RegisterCancel(w) \/ MarkProcess(w) \/ NoteProgress(w) \/ Work(w)
               \/ PersistLogs(w) \/ UploadReport(w) \/ MarkDone(w) \/ Fail(w) \/ MarkFail(w)
      BY <2>1, <2>3 DEF RegisterCancel, MarkProcess, NoteProgress, Work, PersistLogs,
         UploadReport, MarkDone, Fail, MarkFail, AfterNote, AfterWork
    <2> QED BY <1>7, <2>2, <2>3 DEF WorkerStep
  <1>8. ASSUME NEW c \in Cancellers, CancellerStep(c) \/ \E s \in Scans : CancelScan(c, s)
        PROVE  UNCHANGED <<pc, job>>
    BY <1>8 DEF CancellerStep, CancelScan, LookupCancel, Interrupt
  <1>9. CASE Crash
    BY <1>9 DEF Crash, Live
  <1>10. CASE UNCHANGED vars
    BY <1>10 DEF vars
  <1> QED BY <1>1, <1>2, <1>3, <1>4, <1>5, <1>6, <1>7, <1>8, <1>9, <1>10 DEF Next

-----------------------------------------------------------------------------
(* What makes DoneHasReport inductive: an accepted request names the       *)
(* project of its row, and the report is stored before the row says so.    *)
RowsAgree ==
    \A w \in Workers : pc[w] \in Accepted =>
        rows[ScanOf(w)] # None /\ rows[ScanOf(w)].project = ProjectOf(w)
ReportBeforeDone ==
    \A w \in Workers : pc[w] = "finish" => reports[ProjectOf(w)] # None
ReportInv == RowsAgree /\ ReportBeforeDone /\ DoneHasReport

LEMMA RowsAgreeStep ==
    TypeOK /\ ParkedMatchWorkers /\ RowsAgree /\ [Next]_vars => RowsAgree'
  <1> SUFFICES ASSUME TypeOK, ParkedMatchWorkers, RowsAgree, [Next]_vars,
                      NEW w \in Workers, pc'[w] \in Accepted
               PROVE  rows'[ScanOf(w)'] # None /\ rows'[ScanOf(w)'].project = ProjectOf(w)'
    BY DEF RowsAgree, Accepted
  <1>1. pc[w] # "idle" /\ ScanOf(w)' = ScanOf(w) /\ ProjectOf(w)' = ProjectOf(w)
    BY AcceptedStep DEF ScanOf, ProjectOf
  <1>2. ScanOf(w) \in Scans /\ ProjectOf(w) \in Projects
    BY <1>1, JobKnown
  <1>3. CASE rows[ScanOf(w)] # None /\ rows[ScanOf(w)].project = ProjectOf(w)
    BY <1>1, <1>2, <1>3, RowKept
  <1>4. CASE rows'[ScanOf(w)] = [project |-> ProjectOf(w), status |-> "new", result |-> FALSE]
    <2>1. [project |-> ProjectOf(w), status |-> "new", result |-> FALSE] \in Row
      BY <1>2 DEF Row, Statuses, ActiveStatuses
    <2>2. rows'[ScanOf(w)] # None
      BY <1>4, <2>1, NoneAssumption
    <2>3. rows'[ScanOf(w)].project = ProjectOf(w)
      BY <1>4
    <2> QED BY <1>1, <2>2, <2>3
  <1> QED BY <1>3, <1>4, AcceptedStep DEF RowsAgree, RowIn

(* The report of a project, once stored, is only ever replaced.            *)
LEMMA ReportKept ==
    ASSUME TypeOK, [Next]_vars, NEW p \in Projects, reports[p] # None
    PROVE  reports'[p] # None
  <1>1. ASSUME NEW w \in Workers, UploadReport(w) PROVE reports'[p] # None
    <2>1. ScanOf(w) \in Scans /\ ProjectOf(w) \in Projects
      BY <1>1, JobKnown DEF UploadReport
    <2>2. UNCHANGED reports \/ reports' = [reports EXCEPT ![ProjectOf(w)] = ScanOf(w)]
      BY <1>1 DEF UploadReport
    <2>3. reports \in [Projects -> Scans \cup {None}]
      BY DEF TypeOK
    <2> QED BY <2>1, <2>2, <2>3, NoneAssumption
  <1>2. ASSUME NEW w \in Workers,
               (\/ WorkerStep(w) /\ ~UploadReport(w)
                \/ \E s \in Scans, q \in Projects : HandleScan(w, s, q))
        PROVE  UNCHANGED reports
    BY <1>2 DEF WorkerStep, HandleScan, EnsureScan, CreateScan, Acquire, RegisterCancel,
       MarkProcess, NoteProgress, Work, PersistLogs, MarkDone, Fail, MarkFail,
       UnregisterCancel, Release, store
  <1>3. ASSUME NEW c \in Cancellers, CancellerStep(c) \/ \E s \in Scans : CancelScan(c, s)
        PROVE  UNCHANGED reports
    BY <1>3 DEF CancellerStep, CancelScan, LookupCancel, Interrupt, store
  <1>4. Crash \/ UNCHANGED vars => UNCHANGED reports
    BY DEF Crash, vars, store
  <1> QED BY <1>1, <1>2, <1>3, <1>4 DEF Next

(* A goroutine comes to "finish" only by storing its report.               *)
LEMMA FinishStep ==
    ASSUME TypeOK, ParkedMatchWorkers, [Next]_vars, NEW w \in Workers, pc'[w] = "finish"
    PROVE  pc[w] = "finish" \/ UploadReport(w)
  <1> pc \in [Workers -> Places]
    BY DEF TypeOK
  <1>1. ASSUME NEW v \in Workers, WorkerStep(v), ~Acquire(v), ~Release(v), v # w
        PROVE  pc[w] = pc'[w]
    BY <1>1, InsideStep DEF Inside, Goto
  <1>2. ASSUME NEW v \in Workers, NEW s \in Scans, NEW p \in Projects, HandleScan(v, s, p)
        PROVE  pc[w] = "finish"
    BY <1>2 DEF HandleScan, Goto
  <1>3. ASSUME NEW v \in Workers, Acquire(v) PROVE pc[w] = "finish"
    BY <1>3 DEF Acquire, Goto
  <1>4. ASSUME NEW v \in Workers, Release(v) PROVE pc[w] = "finish"
    <2>1. CASE parked = <<>>
      BY <1>4, <2>1 DEF Release, Goto
    <2>2. CASE parked # <<>>
      BY <1>4, <2>2, HeadParked DEF Release
    <2> QED BY <2>1, <2>2
  <1>5. ASSUME WorkerStep(w), ~Acquire(w), ~Release(w), ~UploadReport(w) PROVE pc[w] = "finish"
    <2> pc'[w] = "finish"
      OBVIOUS
    <2>1. ~MarkProcess(w) /\ ~PersistLogs(w)
      BY DEF MarkProcess, PersistLogs, Goto
    <2>4. ~NoteProgress(w)
      BY DEF NoteProgress, AfterNote, Goto
    <2>5. ~Work(w)
      BY DEF Work, AfterWork, Goto
    <2>2. ~EnsureScan(w) /\ ~CreateScan(w) /\ ~RegisterCancel(w) /\ ~UnregisterCancel(w)
      BY DEF EnsureScan, CreateScan, RegisterCancel, UnregisterCancel, Goto
    <2>3. ~MarkDone(w) /\ ~Fail(w) /\ ~MarkFail(w)
      BY DEF MarkDone, Fail, MarkFail, Goto
    <2> QED BY <1>5, <2>1, <2>2, <2>3, <2>4, <2>5 DEF WorkerStep
  <1>6. ASSUME NEW c \in Cancellers, CancellerStep(c) \/ \E s \in Scans : CancelScan(c, s)
        PROVE  UNCHANGED pc
    BY <1>6 DEF CancellerStep, CancelScan, LookupCancel, Interrupt
  <1>7. CASE Crash
    BY <1>7 DEF Crash, Live
  <1>8. CASE UNCHANGED vars
    BY <1>8 DEF vars
  <1> QED BY <1>1, <1>2, <1>3, <1>4, <1>5, <1>6, <1>7, <1>8 DEF Next

LEMMA ReportStep ==
    TypeOK /\ ParkedMatchWorkers /\ ReportInv /\ [Next]_vars => ReportInv'
  <1> SUFFICES ASSUME TypeOK, ParkedMatchWorkers, ReportInv, [Next]_vars PROVE ReportInv'
    OBVIOUS
  <1>1. RowsAgree'
    BY RowsAgreeStep DEF ReportInv
  <1>2. ReportBeforeDone'
    <2> SUFFICES ASSUME NEW w \in Workers, pc'[w] = "finish"
                 PROVE  reports'[ProjectOf(w)'] # None
      BY DEF ReportBeforeDone
    <2>1. pc[w] # "idle" /\ ProjectOf(w)' = ProjectOf(w)
      BY AcceptedStep DEF ProjectOf, Accepted, Holding, Registered
    <2>2. CASE pc[w] = "finish"
      BY <2>1, <2>2, JobKnown, ReportKept DEF ReportInv, ReportBeforeDone
    <2>3. CASE UploadReport(w)
      BY <2>1, <2>3, JobKnown, NoneAssumption DEF UploadReport, TypeOK, Goto
    <2> QED BY <2>2, <2>3, FinishStep
  <1>3. DoneHasReport'
    <2> SUFFICES ASSUME NEW s \in Scans, rows'[s] # None, rows'[s].status = "done"
                 PROVE  rows'[s].result /\ reports'[rows'[s].project] # None
      BY DEF DoneHasReport, RowIn
    <2>1. CASE rows'[s] = rows[s]
      <3>1. rows[s].result /\ reports[rows[s].project] # None /\ rows[s].project \in Projects
        BY <2>1 DEF ReportInv, DoneHasReport, RowIn, TypeOK, Row
      <3> QED BY <2>1, <3>1, ReportKept
    <2>2. CASE rows[s] # None /\ RowChanged(s)
      <3>1. rows[s] \in Row
        BY <2>2 DEF TypeOK
      <3>2. PICK w \in Workers :
              /\ ScanOf(w) = s /\ pc[w] = "finish"
              /\ rows'[s] = [rows[s] EXCEPT !.status = "done", !.result = TRUE]
        BY <2>2, <3>1 DEF RowChanged, Row
      <3>3. rows[s].project = ProjectOf(w) /\ reports[ProjectOf(w)] # None
        BY <3>2 DEF ReportInv, RowsAgree, ReportBeforeDone, Accepted, Holding, Registered
      <3>4. rows'[s].result /\ rows'[s].project = rows[s].project
        BY <3>1, <3>2 DEF Row
      <3>5. rows[s].project \in Projects
        BY <3>1 DEF Row
      <3> QED BY <3>3, <3>4, <3>5, ReportKept
    <2>3. CASE rows[s] = None /\ RowChanged(s)
      <3>1. ~RowIn(s, CancellableStatuses)
        BY <2>3 DEF RowIn
      <3>2. PICK w \in Workers :
              rows'[s] = [project |-> ProjectOf(w), status |-> "new", result |-> FALSE]
        BY <2>3, <3>1 DEF RowChanged
      <3> QED BY <3>2
    <2> QED BY <2>1, <2>2, <2>3, RowStep
  <1> QED BY <1>1, <1>2, <1>3 DEF ReportInv

(* Whatever is requested, cancelled, lost or restarted, a row that says    *)
(* done has its report in the bucket.                                      *)
THEOREM ReportCorrect == Spec => []DoneHasReport
  <1>1. Init => ReportInv
    BY DEF Init, ReportInv, RowsAgree, ReportBeforeDone, DoneHasReport, RowIn, Accepted, Holding,
       Registered
  <1>2. ReportInv => DoneHasReport
    BY DEF ReportInv
  <1> QED BY <1>1, <1>2, TypeCorrect, ReportStep, PTL DEF Spec

-----------------------------------------------------------------------------
(* Two live requests for one id are what the history variable records.     *)
LiveOverlap ==
    \A v, w \in Workers :
        v # w /\ Live(v) /\ Live(w) /\ ScanOf(v) = ScanOf(w) => ScanOf(w) \in overlapped

(* A live request was live before, or begins with this step.               *)
LEMMA LiveStep ==
    ASSUME TypeOK, ParkedMatchWorkers, [Next]_vars, NEW w \in Workers, Live(w)'
    PROVE  /\ overlapped \subseteq overlapped'
           /\ \/ Live(w) /\ job'[w] = job[w]
              \/ \E s \in Scans, p \in Projects : HandleScan(w, s, p)
  <1> pc \in [Workers -> Places] /\ job \in [Workers -> Job \cup {None}]
    BY DEF TypeOK
  <1>1. ASSUME NEW v \in Workers, WorkerStep(v), ~Acquire(v), ~Release(v)
        PROVE  Live(w) /\ UNCHANGED <<job, overlapped>>
    BY <1>1, InsideStep DEF Inside, Goto, Live
  <1>2. ASSUME NEW v \in Workers, NEW s \in Scans, NEW p \in Projects, HandleScan(v, s, p), v # w
        PROVE  Live(w) /\ job'[w] = job[w] /\ overlapped \subseteq overlapped'
    BY <1>2 DEF HandleScan, Goto, Live
  <1>3. ASSUME NEW s \in Scans, NEW p \in Projects, HandleScan(w, s, p)
        PROVE  overlapped \subseteq overlapped'
    BY <1>3 DEF HandleScan
  <1>4. ASSUME NEW v \in Workers, Acquire(v) PROVE Live(w) /\ UNCHANGED <<job, overlapped>>
    BY <1>4 DEF Acquire, Goto, Live
  <1>5. ASSUME NEW v \in Workers, Release(v) PROVE Live(w) /\ UNCHANGED <<job, overlapped>>
    <2>1. CASE parked = <<>>
      BY <1>5, <2>1 DEF Release, Goto, Live
    <2>2. CASE parked # <<>>
      BY <1>5, <2>2, HeadParked DEF Release, Live
    <2> QED BY <2>1, <2>2
  <1>6. ASSUME NEW c \in Cancellers, CancellerStep(c) \/ \E s \in Scans : CancelScan(c, s)
        PROVE  Live(w) /\ UNCHANGED <<job, overlapped>>
    BY <1>6 DEF CancellerStep, CancelScan, LookupCancel, Interrupt, Live
  <1>7. CASE Crash
    BY <1>7 DEF Crash, Live
  <1>8. CASE UNCHANGED vars
    BY <1>8 DEF vars, Live
  <1> QED BY <1>1, <1>2, <1>3, <1>4, <1>5, <1>6, <1>7, <1>8 DEF Next

LEMMA OverlapStep ==
    TypeOK /\ ParkedMatchWorkers /\ LiveOverlap /\ [Next]_vars => LiveOverlap'
  <1> SUFFICES ASSUME TypeOK, ParkedMatchWorkers, LiveOverlap, [Next]_vars,
                      NEW v \in Workers, NEW w \in Workers,
                      v # w, Live(v)', Live(w)', ScanOf(v)' = ScanOf(w)'
               PROVE  ScanOf(w)' \in overlapped'
    BY DEF LiveOverlap
  <1>1. CASE Live(v) /\ job'[v] = job[v] /\ Live(w) /\ job'[w] = job[w]
    BY <1>1, LiveStep DEF LiveOverlap, ScanOf
  <1>2. ASSUME NEW a \in Workers, NEW b \in Workers, a # b, Live(b)', ScanOf(a)' = ScanOf(b)',
               NEW s \in Scans, NEW p \in Projects, HandleScan(a, s, p)
        PROVE  ScanOf(a)' \in overlapped'
    <2>1. ScanOf(a)' = s /\ ScanOf(b)' = ScanOf(b) /\ Live(b)
      BY <1>2 DEF HandleScan, ScanOf, TypeOK, Goto, Live
    <2> QED BY <1>2, <2>1 DEF HandleScan
  <1> QED BY <1>1, <1>2, LiveStep

THEOREM OverlapCorrect == Spec => []LiveOverlap
  <1>1. Init => LiveOverlap
    BY DEF Init, LiveOverlap, Live
  <1> QED BY <1>1, TypeCorrect, OverlapStep, PTL DEF Spec

(* While a goroutine may still write its row, the row is not finished,     *)
(* unless another goroutine works on it too.                               *)
Unfinished ==
    \A w \in Workers : pc[w] \in Writing /\ ScanOf(w) \notin overlapped =>
        ~RowIn(ScanOf(w), FinishedStatuses)

(* Only a goroutine at its last write makes a row a finished one.          *)
LEMMA FinishingRow ==
    ASSUME TypeOK, NEW s \in Scans, RowChanged(s), rows'[s].status \in FinishedStatuses
    PROVE  \E v \in Workers :
             ScanOf(v) = s /\ pc[v] \in {"finish", "record"} /\ pc'[v] = "unregister"
  <1>1. rows[s] # None => rows[s] \in Row
    BY DEF TypeOK
  <1>2. CASE rows[s] = None
    <2>1. PICK w \in Workers :
            rows'[s] = [project |-> ProjectOf(w), status |-> "new", result |-> FALSE]
      BY <1>2 DEF RowChanged, RowIn
    <2> QED BY <2>1 DEF FinishedStatuses
  <1>3. CASE rows[s] # None /\ rows'[s] = [rows[s] EXCEPT !.status = "cancel"]
    BY <1>1, <1>3 DEF Row, FinishedStatuses
  <1>4. CASE rows[s] # None /\ rows'[s] = [rows[s] EXCEPT !.status = "process"]
    BY <1>1, <1>4 DEF Row, FinishedStatuses
  <1>5. CASE rows[s] # None /\ rows'[s] = [rows[s] EXCEPT !.status = "process", !.result = FALSE]
    BY <1>1, <1>5 DEF Row, FinishedStatuses
  <1> QED BY <1>2, <1>3, <1>4, <1>5 DEF RowChanged

LEMMA UnfinishedStep ==
    TypeOK /\ ParkedMatchWorkers /\ LiveOverlap /\ Unfinished /\ [Next]_vars => Unfinished'
  <1> SUFFICES ASSUME TypeOK, ParkedMatchWorkers, LiveOverlap, Unfinished, [Next]_vars,
                      NEW w \in Workers, pc'[w] \in Writing, ScanOf(w)' \notin overlapped',
                      rows'[ScanOf(w)'] # None, rows'[ScanOf(w)'].status \in FinishedStatuses
               PROVE  FALSE
    BY DEF Unfinished, RowIn, Writing, Accepted
  <1> USE DEF Writing, Accepted, Holding, Registered
  <1> DEFINE s == ScanOf(w)
  <1>1. /\ pc[w] # "idle" /\ ScanOf(w)' = s /\ s \in Scans
        /\ s \notin overlapped
        /\ rows'[s] # None /\ rows'[s].status \in FinishedStatuses
    <2>1. pc[w] # "idle" /\ ScanOf(w)' = s
      BY AcceptedStep DEF ScanOf
    <2>2. Live(w)'
      BY DEF Live
    <2> QED BY <2>1, <2>2, LiveStep, JobKnown
  <1>2. \/ pc[w] \in Writing
        \/ pc[w] = "ensure" /\ UNCHANGED rows /\ RowIn(s, ActiveStatuses)
        \/ rows'[s] = [project |-> ProjectOf(w), status |-> "new", result |-> FALSE]
    <2>1. pc'[w] \in Accepted /\ pc'[w] \in Writing
      OBVIOUS
    <2> HIDE DEF Accepted, Writing, Holding, Registered
    <2>2. pc[w] \notin {"unregister", "release"}
      BY <2>1, AcceptedStep
    <2>3. pc[w] \in Accepted => pc[w] \in Writing
      BY <2>2 DEF Writing
    <2>4. \/ pc[w] \in Accepted
          \/ pc[w] = "ensure" /\ UNCHANGED rows /\ RowIn(ScanOf(w), ActiveStatuses)
          \/ rows'[ScanOf(w)] = [project |-> ProjectOf(w), status |-> "new", result |-> FALSE]
      BY <2>1, AcceptedStep
    <2> QED BY <2>3, <2>4
  <1>3. CASE pc[w] = "ensure" /\ UNCHANGED rows /\ RowIn(s, ActiveStatuses)
    BY <1>1, <1>3 DEF RowIn, ActiveStatuses, FinishedStatuses
  <1>4. CASE rows'[s] = [project |-> ProjectOf(w), status |-> "new", result |-> FALSE]
    BY <1>1, <1>4 DEF FinishedStatuses
  <1>5. CASE pc[w] \in Writing
    <2>1. ~RowIn(s, FinishedStatuses)
      BY <1>1, <1>5 DEF Unfinished
    <2>2. rows'[s] # rows[s]
      BY <1>1, <2>1 DEF RowIn
    <2>3. PICK v \in Workers : ScanOf(v) = s /\ pc[v] \in {"finish", "record"} /\ pc'[v] = "unregister"
      BY <1>1, <2>2, RowStep, FinishingRow
    <2>4. v # w
      BY <2>3
    <2>5. Live(v) /\ Live(w)
      BY <1>5, <2>3 DEF Live
    <2> QED BY <1>1, <2>3, <2>4, <2>5 DEF LiveOverlap
  <1> QED BY <1>2, <1>3, <1>4, <1>5

(* The history only grows.                                                 *)
LEMMA OverlappedGrows ==
    ASSUME TypeOK, [Next]_vars
    PROVE  overlapped \subseteq overlapped'
  <1>1. ASSUME NEW w \in Workers, WorkerStep(w), ~Acquire(w), ~Release(w)
        PROVE  UNCHANGED overlapped
    BY <1>1, InsideStep DEF Inside
  <1>2. ASSUME NEW w \in Workers, NEW s \in Scans, NEW p \in Projects, HandleScan(w, s, p)
        PROVE  overlapped \subseteq overlapped'
    BY <1>2 DEF HandleScan
  <1>3. ASSUME NEW w \in Workers, Acquire(w) \/ Release(w) PROVE UNCHANGED overlapped
    BY <1>3 DEF Acquire, Release
  <1>4. ASSUME NEW c \in Cancellers, CancellerStep(c) \/ \E s \in Scans : CancelScan(c, s)
        PROVE  UNCHANGED overlapped
    BY <1>4 DEF CancellerStep, CancelScan, LookupCancel, Interrupt
  <1>5. Crash \/ UNCHANGED vars => UNCHANGED overlapped
    BY DEF Crash, vars
  <1> QED BY <1>1, <1>2, <1>3, <1>4, <1>5 DEF Next

(* A finished scan stays as it is, in every step of the service, unless    *)
(* two requests for it were live at once.                                  *)
LEMMA FinishedStep ==
    ASSUME TypeOK, ParkedMatchWorkers, LiveOverlap, Unfinished, [Next]_vars,
           NEW s \in Scans, RowIn(s, FinishedStatuses), s \notin overlapped'
    PROVE  rows'[s] = rows[s]
  <1> SUFFICES ASSUME rows'[s] # rows[s] PROVE FALSE
    OBVIOUS
  <1>1. rows[s] # None /\ ~RowIn(s, CancellableStatuses)
    BY DEF RowIn, FinishedStatuses, CancellableStatuses
  <1>2. PICK w \in Workers : ScanOf(w) = s /\ pc[w] \in Writing
    BY <1>1, RowStep DEF RowChanged, Writing, Accepted, Holding, Registered
  <1>3. s \in overlapped
    BY <1>2 DEF Unfinished
  <1>4. overlapped \subseteq overlapped'
    BY OverlappedGrows
  <1> QED BY <1>3, <1>4

THEOREM FinishedCorrect == Spec => FinishedStays
  <1>1. Init => Unfinished
    BY DEF Init, Unfinished, Writing, Accepted, Holding, Registered
  <1>2. TypeOK /\ ParkedMatchWorkers /\ LiveOverlap /\ Unfinished /\ [Next]_vars
          => [\A s \in Scans : RowIn(s, FinishedStatuses) /\ s \notin overlapped' =>
                rows'[s] = rows[s]]_vars
    BY FinishedStep
  <1> QED
    BY <1>1, <1>2, TypeCorrect, OverlapCorrect, UnfinishedStep, PTL DEF Spec, FinishedStays

-----------------------------------------------------------------------------
(* Between register and unregister a goroutine stays registered.           *)
LEMMA RegisteredKept ==
    ASSUME TypeOK, NEW w \in Workers, WorkerStep(w), ~Acquire(w), ~Release(w),
           ~RegisterCancel(w), ~UnregisterCancel(w)
    PROVE  pc[w] \in Registered <=> pc'[w] \in Registered
  <1> USE DEF TypeOK, Registered, Goto
  <1>1. CASE EnsureScan(w) \/ CreateScan(w)
    BY <1>1 DEF EnsureScan, CreateScan
  <1>2. CASE MarkProcess(w) \/ PersistLogs(w) \/ UploadReport(w) \/ MarkDone(w) \/ MarkFail(w)
    BY <1>2 DEF MarkProcess, PersistLogs, UploadReport, MarkDone, MarkFail
  <1>3. CASE NoteProgress(w)
    BY <1>3 DEF NoteProgress, AfterNote
  <1>4. CASE Work(w)
    BY <1>4 DEF Work, AfterWork
  <1>5. CASE Fail(w)
    BY <1>5 DEF Fail
  <1> QED BY <1>1, <1>2, <1>3, <1>4, <1>5 DEF WorkerStep

(* How an entry of `cancels` changes: registered by the goroutine that     *)
(* starts, deleted by the one that ends.                                   *)
LEMMA MapStep ==
    TypeOK /\ ParkedMatchWorkers /\ LiveOverlap /\ LiveOverlap' /\ MapMatchesRunning
      /\ [Next]_vars => MapMatchesRunning'
  <1> SUFFICES ASSUME TypeOK, ParkedMatchWorkers, LiveOverlap, LiveOverlap',
                      MapMatchesRunning, [Next]_vars
               PROVE  MapMatchesRunning'
    OBVIOUS
  <1> pc \in [Workers -> Places] /\ job \in [Workers -> Job \cup {None}]
      /\ cancels \in [Scans -> Workers \cup {None}] /\ None \notin Workers
    BY NoneAssumption DEF TypeOK
  <1>1. ASSUME NEW w \in Workers, RegisterCancel(w) PROVE MapMatchesRunning'
    <2>1. /\ pc[w] = "register" /\ pc' = [pc EXCEPT ![w] = "mark"] /\ job' = job
          /\ overlapped' = overlapped /\ ScanOf(w) \in Scans
          /\ cancels' = [cancels EXCEPT ![ScanOf(w)] = w]
      BY <1>1, JobKnown DEF RegisterCancel, Goto
    <2>2. \A v \in Workers : v # w /\ pc[v] \in Registered /\ ScanOf(v) = ScanOf(w) =>
            ScanOf(v) \in overlapped
      BY <2>1 DEF LiveOverlap, Live, Registered
    <2> QED BY <2>1, <2>2 DEF MapMatchesRunning, ScanOf, Registered
  <1>2. ASSUME NEW w \in Workers, UnregisterCancel(w) PROVE MapMatchesRunning'
    <2>1. /\ pc[w] = "unregister" /\ pc' = [pc EXCEPT ![w] = "release"] /\ job' = job
          /\ overlapped' = overlapped /\ ScanOf(w) \in Scans
          /\ cancels' = [cancels EXCEPT ![ScanOf(w)] = None]
      BY <1>2, JobKnown DEF UnregisterCancel, Goto
    <2>2. \A v \in Workers : v # w /\ pc[v] \in Registered /\ ScanOf(v) = ScanOf(w) =>
            ScanOf(v) \in overlapped
      BY <2>1 DEF LiveOverlap, Live, Registered
    <2> QED BY <2>1, <2>2 DEF MapMatchesRunning, ScanOf, Registered
  <1>3. ASSUME \A w \in Workers : pc'[w] \in Registered <=> pc[w] \in Registered,
               \A w \in Workers : pc[w] \in Registered => job'[w] = job[w],
               overlapped \subseteq overlapped', UNCHANGED cancels
        PROVE  MapMatchesRunning'
    BY <1>3 DEF MapMatchesRunning, ScanOf
  <1>4. ASSUME NEW w \in Workers, WorkerStep(w), ~Acquire(w), ~Release(w), ~RegisterCancel(w),
               ~UnregisterCancel(w)
        PROVE  MapMatchesRunning'
    <2>1. pc[w] \in Registered <=> pc'[w] \in Registered
      BY <1>4, RegisteredKept
    <2>2. UNCHANGED cancels
      BY <1>4 DEF WorkerStep, EnsureScan, CreateScan, MarkProcess, NoteProgress, Work,
         PersistLogs, UploadReport, MarkDone, Fail, MarkFail, server
    <2> QED BY <1>3, <1>4, <2>1, <2>2, InsideStep DEF Inside, Goto
  <1>5. ASSUME NEW w \in Workers, NEW s \in Scans, NEW p \in Projects, HandleScan(w, s, p)
        PROVE  MapMatchesRunning'
    BY <1>3, <1>5 DEF HandleScan, Goto, Registered, server
  <1>6. ASSUME NEW w \in Workers, Acquire(w) PROVE MapMatchesRunning'
    BY <1>3, <1>6 DEF Acquire, Goto, Registered
  <1>7. ASSUME NEW w \in Workers, Release(w) PROVE MapMatchesRunning'
    <2>1. CASE parked = <<>>
      BY <1>3, <1>7, <2>1 DEF Release, Goto, Registered
    <2>2. CASE parked # <<>>
      BY <1>3, <1>7, <2>2, HeadParked DEF Release, Registered
    <2> QED BY <2>1, <2>2
  <1>8. ASSUME NEW c \in Cancellers, CancellerStep(c) \/ \E s \in Scans : CancelScan(c, s)
        PROVE  MapMatchesRunning'
    BY <1>3, <1>8 DEF CancellerStep, CancelScan, LookupCancel, Interrupt, server
  <1>9. CASE Crash
    BY <1>9 DEF Crash, Live, Registered, MapMatchesRunning
  <1>10. CASE UNCHANGED vars
    BY <1>3, <1>10 DEF vars, server
  <1> QED BY <1>1, <1>2, <1>4, <1>5, <1>6, <1>7, <1>8, <1>9, <1>10 DEF Next

(* What a cancel request has taken out of the map stays of its scan: no    *)
(* goroutine changes its scan.                                             *)
LEMMA GrabbedKept ==
    ASSUME GrabbedIsOfTarget, TypeOK, UNCHANGED <<target, grabbed, cancelPc>>,
           \A w \in Workers : pc[w] # "idle" => pc'[w] # "idle" /\ job'[w] = job[w]
    PROVE  GrabbedIsOfTarget'
  BY DEF GrabbedIsOfTarget, TypeOK, ScanOf

LEMMA GrabbedStep ==
    TypeOK /\ ParkedMatchWorkers /\ MapMatchesRunning /\ GrabbedIsOfTarget /\ [Next]_vars
      => GrabbedIsOfTarget'
  <1> SUFFICES ASSUME TypeOK, ParkedMatchWorkers, MapMatchesRunning, GrabbedIsOfTarget, [Next]_vars
               PROVE  GrabbedIsOfTarget'
    OBVIOUS
  <1> pc \in [Workers -> Places] /\ job \in [Workers -> Job \cup {None}]
    BY DEF TypeOK
  <1>1. ASSUME NEW w \in Workers, WorkerStep(w), ~Acquire(w), ~Release(w) PROVE GrabbedIsOfTarget'
    <2>1. PICK place : Inside(w, place)
      BY <1>1, InsideStep
    <2>2. pc' = [pc EXCEPT ![w] = place] /\ job' = job
      BY <2>1 DEF Inside, Goto
    <2>3. pc[w] # "idle" /\ place # "idle"
      BY <2>1 DEF Inside, Live
    <2>4. UNCHANGED <<target, grabbed, cancelPc>>
      BY <1>1 DEF WorkerStep, EnsureScan, CreateScan, RegisterCancel, MarkProcess, NoteProgress, Work,
         PersistLogs, UploadReport, MarkDone, Fail, MarkFail, UnregisterCancel, cancelling
    <2> QED BY <2>2, <2>3, <2>4, GrabbedKept
  <1>2. ASSUME NEW w \in Workers, NEW s \in Scans, NEW p \in Projects, HandleScan(w, s, p)
        PROVE  GrabbedIsOfTarget'
    BY <1>2, GrabbedKept DEF HandleScan, Goto, cancelling
  <1>3. ASSUME NEW w \in Workers, Acquire(w) PROVE GrabbedIsOfTarget'
    BY <1>3, GrabbedKept DEF Acquire, Goto, cancelling
  <1>4. ASSUME NEW w \in Workers, Release(w) PROVE GrabbedIsOfTarget'
    <2>1. CASE parked = <<>>
      BY <1>4, <2>1, GrabbedKept DEF Release, Goto, cancelling
    <2>2. CASE parked # <<>>
      BY <1>4, <2>2, HeadParked, GrabbedKept DEF Release, cancelling
    <2> QED BY <2>1, <2>2
  <1>5. ASSUME NEW c \in Cancellers, NEW s \in Scans, CancelScan(c, s) PROVE GrabbedIsOfTarget'
    <2>1. /\ cancelPc[c] = "idle" /\ cancelPc'[c] # "idle" /\ UNCHANGED <<grabbed, pc, job>>
          /\ \A d \in Cancellers \ {c} : target'[d] = target[d] /\ cancelPc'[d] = cancelPc[d]
      BY <1>5 DEF CancelScan, TypeOK
    <2> QED BY <2>1 DEF GrabbedIsOfTarget, ScanOf
  <1>6. ASSUME NEW c \in Cancellers, LookupCancel(c) PROVE GrabbedIsOfTarget'
    <2>1. /\ cancelPc[c] = "lookup" /\ UNCHANGED <<target, pc, job>>
          /\ grabbed' = [grabbed EXCEPT ![c] = cancels[target[c]]]
          /\ cancelPc' = [cancelPc EXCEPT ![c] = "interrupt"]
      BY <1>6 DEF LookupCancel
    <2>2. target[c] \in Scans
      BY <2>1 DEF TypeOK
    <2>3. cancels[target[c]] # None =>
             pc[cancels[target[c]]] # "idle" /\ ScanOf(cancels[target[c]]) = target[c]
      BY <2>2 DEF MapMatchesRunning, Registered
    <2> QED BY <2>1, <2>3 DEF GrabbedIsOfTarget, TypeOK, ScanOf
  <1>7. ASSUME NEW c \in Cancellers, Interrupt(c) PROVE GrabbedIsOfTarget'
    <2>1. /\ UNCHANGED <<target, grabbed, pc, job>>
          /\ \A d \in Cancellers : cancelPc'[d] = "idle" => cancelPc[d] = "idle"
      BY <1>7 DEF Interrupt, TypeOK
    <2> QED BY <2>1 DEF GrabbedIsOfTarget, ScanOf
  <1>8. CASE Crash
    <2>1. /\ UNCHANGED <<target, grabbed, job>>
          /\ \A d \in Cancellers : cancelPc'[d] = "idle" => cancelPc[d] = "idle"
          /\ \A w \in Workers : pc[w] # "idle" => pc'[w] # "idle"
      BY <1>8 DEF Crash
    <2> QED BY <2>1 DEF GrabbedIsOfTarget, TypeOK, ScanOf
  <1>9. CASE UNCHANGED vars
    BY <1>9, GrabbedKept DEF vars, cancelling
  <1> QED BY <1>1, <1>2, <1>3, <1>4, <1>5, <1>6, <1>7, <1>8, <1>9 DEF Next, CancellerStep

THEOREM CancelsCorrect == Spec => []CancelsReachTheirScan
  <1>1. Init => MapMatchesRunning /\ GrabbedIsOfTarget
    BY DEF Init, MapMatchesRunning, GrabbedIsOfTarget, Registered
  <1> QED
    BY <1>1, TypeCorrect, OverlapCorrect, MapStep, GrabbedStep, PTL DEF Spec, CancelsReachTheirScan
=============================================================================
