-------------------------- MODULE ScanQueue_proofs --------------------------
(***************************************************************************)
(* Proofs about ScanQueue: its variables keep their types, and a scan in   *)
(* the queue has no jobs unless two requests for it crossed.               *)
(***************************************************************************)
EXTENDS ScanQueue, TLAPS

-----------------------------------------------------------------------------
(* Types *)

LEMMA IdleType == Idle \in Task
  BY ScansAssumption DEF Idle, Task, Scans, Places, Statuses

(* A task that goes to another place, or returns, is still a task.         *)
LEMMA MoveType ==
    ASSUME TypeOK, NEW t \in Tasks
    PROVE  /\ \A p \in Places : Goto(t, p) => task' \in [Tasks -> Task]
           /\ \A p \in Places : Leave(t, p) => task' \in [Tasks -> Task]
           /\ Return(t) => task' \in [Tasks -> Task]
  <1>1. task[t] \in Task /\ task[t].todo \in SUBSET Scans
    BY DEF TypeOK, Task
  <1>2. \A p \in Places : [task[t] EXCEPT !.pc = p] \in Task
    BY <1>1 DEF Task
  <1>3. [Idle EXCEPT !.pc = "next", !.todo = task[t].todo] \in Task
    BY <1>1, IdleType DEF Task, Places
  <1>4. ASSUME NEW p \in Places, Goto(t, p) PROVE task' \in [Tasks -> Task]
    BY <1>2, <1>4 DEF Goto, TypeOK
  <1>5. ASSUME Return(t) PROVE task' \in [Tasks -> Task]
    BY <1>3, <1>5, IdleType DEF Return, TypeOK
  <1>6. ASSUME NEW p \in Places, Leave(t, p) PROVE task' \in [Tasks -> Task]
    <2>1. [Idle EXCEPT !.pc = p, !.todo = task[t].todo, !.last = task[t].last] \in Task
      BY <1>1, IdleType DEF Task
    <2> QED BY <1>6, <2>1 DEF Leave, TypeOK
  <1> QED BY <1>4, <1>5, <1>6

(* Every step keeps every variable well-typed.                             *)
LEMMA TypeStep == TypeOK /\ [Next]_vars => TypeOK'
  <1> SUFFICES ASSUME TypeOK, [Next]_vars PROVE TypeOK'
    OBVIOUS
  <1> USE BoundsAssumption DEF Places, Statuses, Works, Terminal
  <1>0. \A t \in Tasks : task[t] \in Task /\ task[t].scan \in Scans
                           /\ task[t].next \in Statuses /\ task[t].prev \in Statuses
    BY DEF TypeOK, Task
  <1>s. \A s \in Scans : status[s] \in Statuses
    BY DEF TypeOK
  <1>1. ASSUME NEW t \in Tasks, NEW s \in Scans, RunScan(t, s) PROVE TypeOK'
    <2>1. [task[t] EXCEPT !.pc = "claim", !.scan = s, !.prev = status[s]] \in Task
      BY <1>0, <1>s DEF Task
    <2>2. requests' \in 0..MaxRequests
      BY <1>1 DEF RunScan, TypeOK
    <2> QED BY <1>1, <2>1, <2>2 DEF RunScan, TypeOK
  <1>2. ASSUME NEW t \in Tasks, NEW s \in Scans, Refresh(t, s) PROVE TypeOK'
    <2>1. [task[t] EXCEPT !.pc = "load", !.scan = s] \in Task
      BY <1>0, <1>s DEF Task
    <2>2. requests' \in 0..MaxRequests
      BY <1>2 DEF Refresh, TypeOK
    <2> QED BY <1>2, <2>1, <2>2 DEF Refresh, TypeOK
  <1>3. ASSUME NEW t \in Tasks, NEW s \in Scans, CancelScan(t, s) PROVE TypeOK'
    <2>1. [task[t] EXCEPT !.scan = s,
               !.pc = IF status[s] # "queued" /\ started[s]
                      THEN "cancel_rows" ELSE "cancel_record"] \in Task
      BY <1>0, <1>s DEF Task
    <2>2. requests' \in 0..MaxRequests
      BY <1>3 DEF CancelScan, TypeOK
    <2> QED BY <1>3, <2>1, <2>2 DEF CancelScan, TypeOK
  <1>4. ASSUME NEW t \in Tasks, NEW s \in Scans, RerunReport(t, s) PROVE TypeOK'
    <2>1. [task[t] EXCEPT !.pc = "rerun_record", !.scan = s] \in Task
      BY <1>0, <1>s DEF Task
    <2>2. requests' \in 0..MaxRequests
      BY <1>4 DEF RerunReport, TypeOK
    <2> QED BY <1>4, <2>1, <2>2 DEF RerunReport, TypeOK
  <1>5. ASSUME NEW t \in Tasks, Claim(t) PROVE TypeOK'
    <2>1. [task[t] EXCEPT !.pc = "jobs", !.prev = "new"] \in Task
      BY <1>0 DEF Task
    <2>2. task' \in [Tasks -> Task]
      BY <1>5, <2>1, MoveType DEF Claim, NotClaimed, TypeOK
    <2>3. status' \in [Scans -> Statuses]
      BY <1>5, <1>0 DEF Claim, NotClaimed, TypeOK
    <2> QED BY <1>5, <2>2, <2>3 DEF Claim, TypeOK
  <1>6. ASSUME NEW t \in Tasks, Enqueue(t) PROVE TypeOK'
    BY <1>6, <1>0, MoveType DEF Enqueue, TypeOK
  <1>7. ASSUME NEW t \in Tasks, PersistJobs(t) PROVE TypeOK'
    BY <1>7, <1>0, MoveType DEF PersistJobs, TypeOK
  <1>8. ASSUME NEW t \in Tasks, SendSast(t) PROVE TypeOK'
    BY <1>8, <1>0, MoveType DEF SendSast, TypeOK
  <1>9. ASSUME NEW t \in Tasks, Load(t) PROVE TypeOK'
    <2>1. [task[t] EXCEPT !.pc = "see", !.prev = status[task[t].scan]] \in Task
      BY <1>0, <1>s DEF Task
    <2> QED BY <1>9, <2>1 DEF Load, TypeOK
  <1>10. ASSUME NEW t \in Tasks, See(t) PROVE TypeOK'
    BY <1>10, <1>0, MoveType DEF See, TypeOK, Task
  <1>11. ASSUME NEW t \in Tasks, Settle(t) PROVE TypeOK'
    BY <1>11, <1>0, MoveType DEF Settle, TypeOK
  <1>12. ASSUME NEW t \in Tasks, Dequeue(t) PROVE TypeOK'
    BY <1>12, <1>0, MoveType DEF Dequeue, TypeOK
  <1>13. ASSUME NEW t \in Tasks, Pick(t) PROVE TypeOK'
    BY <1>13, <1>0, MoveType DEF Pick, Queued, TypeOK, Task
  <1>14. ASSUME NEW t \in Tasks, CheckStart(t) PROVE TypeOK'
    <2>1. [task[t] EXCEPT !.pc = "claim", !.prev = status[task[t].scan]] \in Task
      BY <1>0, <1>s DEF Task
    <2>2. task' \in [Tasks -> Task]
      BY <1>14, <2>1, MoveType DEF CheckStart, TypeOK
    <2> QED BY <1>14, <2>2 DEF CheckStart, TypeOK
  <1>15. ASSUME NEW t \in Tasks, CancelRows(t) PROVE TypeOK'
    BY <1>15, <1>0, MoveType DEF CancelRows, TypeOK
  <1>16. ASSUME NEW t \in Tasks, CancelRecord(t) PROVE TypeOK'
    BY <1>16, <1>0, MoveType DEF CancelRecord, TypeOK
  <1>17. ASSUME NEW t \in Tasks, RerunRecord(t) PROVE TypeOK'
    BY <1>17, <1>0, MoveType DEF RerunRecord, TypeOK
  <1>18. ASSUME NEW t \in Tasks, NextScan(t) PROVE TypeOK'
    <2>1. \A s \in task[t].todo :
             [task[t] EXCEPT !.pc = "load", !.scan = s, !.todo = @ \ {s}] \in Task
      BY <1>0 DEF Task
    <2>2. [task[t] EXCEPT !.pc = "dequeue", !.last = TRUE] \in Task
      BY <1>0 DEF Task
    <2> QED BY <1>18, <2>1, <2>2 DEF NextScan, TypeOK
  <1>19. ASSUME NEW t \in Ticks, Tick(t) PROVE TypeOK'
    <2>1. [task[t] EXCEPT !.pc = "next", !.todo = Open] \in Task
      BY <1>0 DEF Task, Open, Tasks
    <2> QED BY <1>19, <2>1 DEF Tick, Tasks, TypeOK
  <1>20. ASSUME NEW s \in Scans, FinishWork(s) PROVE TypeOK'
    BY <1>20 DEF FinishWork, TypeOK
  <1>21. ASSUME NEW s \in Scans, RetryReport(s) PROVE TypeOK'
    <2>1. requests' \in 0..MaxRequests
      BY <1>21 DEF RetryReport, TypeOK
    <2> QED BY <1>21, <2>1 DEF RetryReport, TypeOK
  <1>22. CASE UNCHANGED vars
    BY <1>22 DEF vars, TypeOK
  <1> QED
    BY <1>1, <1>2, <1>3, <1>4, <1>5, <1>6, <1>7, <1>8, <1>9, <1>10, <1>11, <1>12, <1>13, <1>14, <1>15, <1>16, <1>17, <1>18, <1>19, <1>20, <1>21, <1>22 DEF Next, TaskStep, Tasks

(* TypeOK of ScanQueue: no handler or tick ever leaves a value outside its *)
(* type, whatever the number of scans, requests and ticks.                 *)
THEOREM TypeCorrect == Spec => []TypeOK
  <1>1. Init => TypeOK
    BY IdleType, BoundsAssumption
    DEF Init, TypeOK, Statuses, Works, Terminal
  <1>2. QED BY <1>1, TypeStep, PTL DEF Spec

-----------------------------------------------------------------------------
(* The inductive invariant *)

\* No rows amount to "queued", and only a scan that was seen new is queued.
QueuedFromNew ==
    \A t \in Tasks :
       /\ task[t].pc = "settle" => task[t].next # "queued"
       /\ task[t].pc = "enqueue" => task[t].prev = "new"

\* A task that saw its scan new is told by crossed when it was started since.
SeenNew ==
    \A t \in Tasks, s \in Scans :
       t \in Unclaimed(s) /\ started[s] => s \in crossed

IInv == QueuedFromNew /\ SeenNew /\ QueuedNotStarted

\* The places at which the invariant says something about a task.
Watched == {"claim", "enqueue", "settle"}

(* What a step does to the tasks that do not take it, and where it leaves  *)
(* the one that does.                                                      *)
LEMMA MoveFrame ==
    ASSUME TypeOK, NEW t \in Tasks
    PROVE  /\ \A p \in Places : Goto(t, p) =>
                  /\ \A u \in Tasks \ {t} : task'[u] = task[u]
                  /\ task'[t].pc = p /\ task'[t].scan = task[t].scan
                  /\ task'[t].prev = task[t].prev
           /\ \A p \in Places : Leave(t, p) =>
                  /\ \A u \in Tasks \ {t} : task'[u] = task[u]
                  /\ task'[t].pc = p
           /\ Return(t) =>
                  /\ \A u \in Tasks \ {t} : task'[u] = task[u]
                  /\ task'[t].pc \in {"idle", "next"}
  <1>1. task[t] \in Task
    BY DEF TypeOK
  <1>2. ASSUME NEW p \in Places, Goto(t, p)
        PROVE  /\ \A u \in Tasks \ {t} : task'[u] = task[u]
               /\ task'[t].pc = p /\ task'[t].scan = task[t].scan
               /\ task'[t].prev = task[t].prev
    BY <1>1, <1>2 DEF TypeOK, Goto, Task
  <1>3. ASSUME NEW p \in Places, Leave(t, p)
        PROVE  /\ \A u \in Tasks \ {t} : task'[u] = task[u]
               /\ task'[t].pc = p
    BY <1>1, <1>3 DEF TypeOK, Leave, Idle
  <1>4. ASSUME Return(t)
        PROVE  /\ \A u \in Tasks \ {t} : task'[u] = task[u]
               /\ task'[t].pc \in {"idle", "next"}
    BY <1>1, <1>4 DEF TypeOK, Return, Idle
  <1> QED BY <1>2, <1>3, <1>4

(* A step that takes no task to a watched place, starts no scan and writes *)
(* no "queued".                                                            *)
LEMMA Quiet ==
    ASSUME IInv, UNCHANGED <<started, crossed>>,
           \A s \in Scans : status'[s] = status[s] \/ status'[s] # "queued",
           \A u \in Tasks : task'[u] = task[u] \/ task'[u].pc \notin Watched
    PROVE  IInv'
  <1>1. \A u \in Tasks : task'[u].pc \in Watched => task'[u] = task[u]
    OBVIOUS
  <1>2. QueuedFromNew'
    BY <1>1 DEF IInv, QueuedFromNew, Watched
  <1>3. SeenNew'
    BY <1>1 DEF IInv, SeenNew, Unclaimed, Watched
  <1>4. QueuedNotStarted'
    BY DEF IInv, QueuedNotStarted
  <1> QED BY <1>2, <1>3, <1>4 DEF IInv

(* Every step preserves the invariant.                                     *)
LEMMA InvStep ==
    ASSUME TypeOK, IInv, [Next]_vars
    PROVE  IInv'
  <1> USE DEF Places, Watched
  <1>0. \A t \in Tasks : task[t] \in Task /\ task[t].scan \in Scans
    BY DEF TypeOK, Task
  <1>1. ASSUME NEW t \in Tasks, NEW s \in Scans, RunScan(t, s) PROVE IInv'
    <2>1. /\ \A u \in Tasks \ {t} : task'[u] = task[u]
          /\ task'[t].pc = "claim" /\ task'[t].scan = s
      BY <1>0, <1>1 DEF RunScan, TypeOK, Task
    <2>2. ~started[s] /\ UNCHANGED <<status, started, crossed>>
      BY <1>1 DEF RunScan, CanStart
    <2>3. QueuedFromNew' /\ QueuedNotStarted'
      BY <2>1, <2>2 DEF IInv, QueuedFromNew, QueuedNotStarted
    <2>4. SeenNew'
      BY <2>1, <2>2 DEF IInv, SeenNew, Unclaimed
    <2> QED BY <2>3, <2>4 DEF IInv
  <1>2. ASSUME NEW t \in Tasks, CheckStart(t) PROVE IInv'
    <2> DEFINE s == task[t].scan
    <2>1. s \in Scans /\ UNCHANGED <<status, started, crossed>>
      BY <1>0, <1>2 DEF CheckStart
    <2>2. CASE Return(t)
      BY <2>1, <2>2, MoveFrame, Quiet
    <2>3. CASE CanStart(s) /\ task' = [task EXCEPT ![t].pc = "claim", ![t].prev = status[s]]
      <3>1. /\ \A u \in Tasks \ {t} : task'[u] = task[u]
            /\ task'[t].pc = "claim" /\ task'[t].scan = s /\ ~started[s]
        BY <1>0, <2>3 DEF TypeOK, Task, CanStart
      <3>2. QueuedFromNew' /\ QueuedNotStarted'
        BY <2>1, <3>1 DEF IInv, QueuedFromNew, QueuedNotStarted
      <3>3. SeenNew'
        BY <2>1, <3>1 DEF IInv, SeenNew, Unclaimed
      <3> QED BY <3>2, <3>3 DEF IInv
    <2> QED BY <1>2, <2>2, <2>3 DEF CheckStart
  <1>3. ASSUME NEW t \in Tasks, Claim(t) PROVE IInv'
    <2> DEFINE s == task[t].scan
    <2>1. At(t, "claim") /\ s \in Scans /\ UNCHANGED <<started, crossed>>
      BY <1>0, <1>3 DEF Claim
    <2>2. CASE NotClaimed(t) /\ task[t].prev = "new"
      <3>1. /\ \A u \in Tasks \ {t} : task'[u] = task[u]
            /\ task'[t].pc = "enqueue" /\ task'[t].scan = s /\ task'[t].prev = "new"
            /\ UNCHANGED status
        <4>1. Goto(t, "enqueue") /\ UNCHANGED status
          BY <2>2 DEF NotClaimed
        <4> QED BY <2>2, <4>1, MoveFrame
      <3>2. QueuedFromNew' /\ QueuedNotStarted'
        BY <2>1, <3>1 DEF IInv, QueuedFromNew, QueuedNotStarted
      <3>3. SeenNew'
        BY <2>1, <2>2, <3>1 DEF IInv, SeenNew, Unclaimed, At
      <3> QED BY <3>2, <3>3 DEF IInv
    <2>3. CASE NotClaimed(t) /\ task[t].prev # "new"
      BY <2>1, <2>3, MoveFrame, Quiet DEF NotClaimed
    <2>4. CASE /\ status' = [status EXCEPT ![s] = "progress"]
               /\ task' = [task EXCEPT ![t].pc = "jobs", ![t].prev = "new"]
      <3>1. (\A u \in Tasks \ {t} : task'[u] = task[u]) /\ task'[t].pc = "jobs"
        BY <1>0, <2>4 DEF TypeOK, Task
      <3> QED BY <2>1, <2>4, <3>1, Quiet DEF TypeOK
    <2> QED BY <1>3, <2>2, <2>3, <2>4 DEF Claim
  <1>4. ASSUME NEW t \in Tasks, Enqueue(t) PROVE IInv'
    <2> DEFINE s == task[t].scan
    <2>1. /\ s \in Scans /\ UNCHANGED <<started, crossed>>
          /\ t \in Unclaimed(s)
          /\ status' = [status EXCEPT ![s] = "queued"] \/ status' = status
      BY <1>0, <1>4 DEF Enqueue, At, IInv, QueuedFromNew, Unclaimed
    <2>2. /\ \A u \in Tasks \ {t} : task'[u] = task[u]
          /\ task'[t].pc \in {"idle", "next"}
      BY <1>4, MoveFrame DEF Enqueue
    <2>3. started[s] => s \in crossed
      BY <2>1 DEF IInv, SeenNew
    <2>4. QueuedNotStarted'
      BY <2>1, <2>3 DEF IInv, QueuedNotStarted, TypeOK
    <2>5. QueuedFromNew'
      BY <2>2 DEF IInv, QueuedFromNew
    <2>6. SeenNew'
      BY <2>1, <2>2 DEF IInv, SeenNew, Unclaimed
    <2> QED BY <2>4, <2>5, <2>6 DEF IInv
  <1>5. ASSUME NEW t \in Tasks, PersistJobs(t) PROVE IInv'
    <2> DEFINE s == task[t].scan
    <2>1. /\ s \in Scans
          /\ status' = [status EXCEPT ![s] = "progress"]
          /\ started' = [started EXCEPT ![s] = TRUE]
          /\ crossed \subseteq crossed'
          /\ Unclaimed(s) # {} => s \in crossed'
      BY <1>0, <1>5 DEF PersistJobs
    <2>2. (\A u \in Tasks \ {t} : task'[u] = task[u]) /\ task'[t].pc = "send"
      BY <1>0, <1>5, MoveFrame DEF PersistJobs, Task
    <2>3. \A v \in Scans : Unclaimed(v)' \subseteq Unclaimed(v)
      BY <2>2 DEF Unclaimed
    <2>4. QueuedNotStarted'
      BY <2>1 DEF IInv, QueuedNotStarted, TypeOK
    <2>5. QueuedFromNew'
      BY <2>2 DEF IInv, QueuedFromNew
    <2>6. SeenNew'
      <3> SUFFICES ASSUME NEW u \in Tasks, NEW v \in Scans,
                          u \in Unclaimed(v)', started'[v]
                   PROVE  v \in crossed'
        BY DEF SeenNew
      <3>1. u \in Unclaimed(v)
        BY <2>3
      <3>2. CASE v = s
        BY <2>1, <3>1, <3>2
      <3>3. CASE v # s
        BY <2>1, <3>1, <3>3 DEF IInv, SeenNew, TypeOK
      <3> QED BY <3>2, <3>3
    <2> QED BY <2>4, <2>5, <2>6 DEF IInv
  <1>6. ASSUME NEW t \in Tasks, See(t) PROVE IInv'
    <2>1. UNCHANGED <<status, started, crossed>>
      BY <1>6 DEF See
    <2>2. CASE Return(t)
      BY <2>1, <2>2, MoveFrame, Quiet
    <2>3. CASE ~Return(t)
      <3>1. /\ \A u \in Tasks \ {t} : task'[u] = task[u]
            /\ task'[t].pc = "settle" /\ task'[t].next # "queued"
        BY <1>0, <1>6, <2>3 DEF See, TypeOK, Task, Works, Terminal
      <3>2. QueuedFromNew' /\ QueuedNotStarted'
        BY <2>1, <3>1 DEF IInv, QueuedFromNew, QueuedNotStarted
      <3>3. SeenNew'
        BY <2>1, <3>1 DEF IInv, SeenNew, Unclaimed
      <3> QED BY <3>2, <3>3 DEF IInv
    <2> QED BY <2>2, <2>3
  <1>7. ASSUME NEW t \in Tasks, Settle(t) PROVE IInv'
    <2>1. UNCHANGED <<started, crossed>> /\ task[t].next # "queued"
      BY <1>7 DEF Settle, At, IInv, QueuedFromNew
    <2>2. \A s \in Scans : status'[s] = status[s] \/ status'[s] # "queued"
      BY <1>0, <1>7, <2>1 DEF Settle, TypeOK
    <2>3. /\ \A u \in Tasks \ {t} : task'[u] = task[u]
          /\ task'[t].pc \in {"dequeue", "idle", "next"}
      BY <1>7, MoveFrame DEF Settle
    <2> QED BY <2>1, <2>2, <2>3, Quiet
  <1>8. ASSUME NEW t \in Tasks,
               CancelRecord(t) \/ RerunRecord(t) \/ CancelRows(t) \/ SendSast(t)
        PROVE  IInv'
    <2>1. UNCHANGED <<started, crossed>>
      BY <1>8 DEF CancelRecord, RerunRecord, CancelRows, SendSast
    <2>2. \A s \in Scans : status'[s] = status[s] \/ status'[s] # "queued"
      BY <1>0, <1>8 DEF CancelRecord, RerunRecord, CancelRows, SendSast, TypeOK
    <2>3. /\ \A u \in Tasks \ {t} : task'[u] = task[u]
          /\ task'[t].pc \notin Watched
      BY <1>0, <1>8, MoveFrame DEF CancelRecord, RerunRecord, CancelRows, SendSast, Task
    <2> QED BY <2>1, <2>2, <2>3, Quiet
  <1>9. ASSUME NEW t \in Tasks, Load(t) \/ Dequeue(t) \/ Pick(t) \/ NextScan(t) \/ Tick(t)
        PROVE  IInv'
    <2>1. UNCHANGED <<status, started, crossed>>
      BY <1>9 DEF Load, Dequeue, Pick, NextScan, Tick
    <2>2. CASE Return(t)
      BY <2>1, <2>2, MoveFrame, Quiet
    <2>3. CASE Goto(t, "pick")
      BY <2>1, <2>3, MoveFrame, Quiet
    <2>4. \A u \in Tasks, r \in Task : task' = [task EXCEPT ![t] = r] /\ r.pc \notin Watched
              => task'[u] = task[u] \/ task'[u].pc \notin Watched
      BY DEF TypeOK
    <2>5. \A r \in Task : task' = [task EXCEPT ![t] = r] /\ r.pc \notin Watched => IInv'
      BY <2>1, <2>4, Quiet
    <2>6. CASE Load(t)
      <3>1. [task[t] EXCEPT !.pc = "see", !.prev = status[task[t].scan]] \in Task
        BY <1>0 DEF Task, TypeOK
      <3> QED BY <2>5, <2>6, <3>1 DEF Load, Task, TypeOK
    <2>7. CASE Pick(t) /\ ~Return(t)
      <3>1. \A s \in Scans : [task[t] EXCEPT !.pc = "check", !.scan = s] \in Task
        BY <1>0 DEF Task
      <3>2. PICK s \in Scans : task' = [task EXCEPT ![t].pc = "check", ![t].scan = s]
        BY <2>7 DEF Pick, Queued
      <3>3. task' = [task EXCEPT ![t] = [task[t] EXCEPT !.pc = "check", !.scan = s]]
        BY <3>2 DEF TypeOK
      <3> QED BY <1>0, <2>5, <3>1, <3>3 DEF Task
    <2>8. CASE NextScan(t)
      <3>1. [task[t] EXCEPT !.pc = "dequeue", !.last = TRUE] \in Task
        BY <1>0 DEF Task
      <3>2. CASE task' = [task EXCEPT ![t].pc = "dequeue", ![t].last = TRUE]
        <4>1. task' = [task EXCEPT ![t] = [task[t] EXCEPT !.pc = "dequeue", !.last = TRUE]]
          BY <3>2 DEF TypeOK
        <4> QED BY <1>0, <2>5, <3>1, <4>1 DEF Task
      <3>3. ASSUME NEW s \in task[t].todo,
                   task' = [task EXCEPT ![t].pc = "load", ![t].scan = s, ![t].todo = @ \ {s}]
            PROVE  IInv'
        <4>1. (\A u \in Tasks \ {t} : task'[u] = task[u]) /\ task'[t].pc = "load"
          BY <1>0, <3>3 DEF TypeOK, Task
        <4> QED BY <2>1, <4>1, Quiet
      <3> QED BY <2>8, <3>2, <3>3 DEF NextScan
    <2>9. CASE Tick(t)
      <3>1. [task[t] EXCEPT !.pc = "next", !.todo = Open] \in Task
        BY <1>0 DEF Task, Open
      <3> QED BY <2>5, <2>9, <3>1 DEF Tick, Task, TypeOK
    <2> QED BY <1>9, <2>2, <2>3, <2>6, <2>7, <2>8, <2>9 DEF Dequeue
  <1>10. ASSUME NEW t \in Tasks, NEW s \in Scans,
                Refresh(t, s) \/ CancelScan(t, s) \/ RerunReport(t, s)
         PROVE  IInv'
    <2>1. UNCHANGED <<status, started, crossed>>
      BY <1>10 DEF Refresh, CancelScan, RerunReport
    <2>2. /\ \A u \in Tasks \ {t} : task'[u] = task[u]
          /\ task'[t].pc \in {"load", "cancel_rows", "cancel_record", "rerun_record"}
      BY <1>0, <1>10 DEF Refresh, CancelScan, RerunReport, TypeOK, Task
    <2> QED BY <2>1, <2>2, Quiet
  <1>11. ASSUME NEW s \in Scans, FinishWork(s) \/ RetryReport(s) PROVE IInv'
    BY <1>11, Quiet DEF FinishWork, RetryReport
  <1>12. CASE UNCHANGED vars
    BY <1>12, Quiet DEF vars
  <1> QED
    BY <1>1, <1>2, <1>3, <1>4, <1>5, <1>6, <1>7, <1>8, <1>9, <1>10, <1>11, <1>12
    DEF Next, TaskStep, Tasks

(* QueuedNotStarted of ScanQueue: for any number of scans, requests and    *)
(* ticks in any interleaving, however often a scan is asked to run, a scan *)
(* that has jobs is in the queue only if it was started while another      *)
(* request that had seen it new was under way.  Outside this race the      *)
(* oldest queued scan is never refused because it was started before.      *)
THEOREM QueueCorrect == Spec => []QueuedNotStarted
  <1>1. Init => IInv
    BY DEF Init, IInv, QueuedFromNew, SeenNew, Unclaimed, QueuedNotStarted, Idle
  <1>2. TypeOK /\ IInv /\ [Next]_vars => IInv'
    BY InvStep
  <1>3. IInv => QueuedNotStarted
    BY DEF IInv
  <1>4. QED BY <1>1, <1>2, <1>3, TypeCorrect, PTL DEF Spec
=============================================================================
