-------------------------- MODULE DastAudit_proofs --------------------------
(***************************************************************************)
(* Proofs about DastAudit and the scans it runs, for any number of tests,  *)
(* any limit, any number of turns and tool calls.  What the audit does to  *)
(* the scanner is put into one formula first (ScanNext); the invariants of *)
(* the scanner are then inductive under it.                                *)
(***************************************************************************)
EXTENDS DastAudit, Induction

(* What a step of the audit can be for the scanner.                        *)
ScanNext ==
    \/ ScanStep
    \/ LoopAt("idle") /\ (\E n \in 0..NumTests : StartScan(n)) /\ UNCHANGED interrupted
    \/ LoopAt("returned") /\ TakeResult /\ UNCHANGED interrupted
    \/ UNCHANGED scan /\ interrupted' \in BOOLEAN

(* A scan is under way exactly while the audit waits for one, and a call   *)
(* is worked off in a turn that is not past the cap.                       *)
Coupled ==
    /\ audit \in Audit
    /\ At("baseline") \/ At("scanning") <=> ~LoopAt("idle")
    /\ At("tools") \/ At("scanning") => audit.calls > 0 /\ audit.turn < MaxTurns

(* The loop starts the tests in order, and one that it has let in or       *)
(* started is not started again.                                           *)
Ordered ==
    /\ \A t \in Tests : LoopAt("idle") \/ LoopAt("returned") => test[t] \in {"none", "over"}
    /\ loop.pc \in {"send", "blocked", "spawn"} => loop.next <= loop.last
    /\ loop.next <= loop.last + 1
    /\ ~LoopAt("idle") =>
          \A t \in Tests :
             /\ t > loop.next => test[t] = "none"
             /\ t = loop.next => test[t] = IF LoopAt("spawn") THEN "admitted" ELSE "none"
             /\ t < loop.next => test[t] \notin {"none", "admitted"}

(* The elements in the channel are the tests that hold one.                *)
SlotsCounted ==
    /\ slots = Cardinality(Running)
    /\ slots <= Capacity
    /\ LoopAt("blocked") => slots = Capacity

(* The wait group counts the tests that have not left, the one that is     *)
(* about to start among them.                                              *)
Counted ==
    {t \in Tests : \/ test[t] \notin {"none", "over"}
                   \/ loop.pc \in {"send", "blocked"} /\ t = loop.next}

PendingCounted == pending = Cardinality(Counted)

(* A test returns what is its own, and nothing before it returns; the list *)
(* has the findings of the tests that are past adding, each in one block,  *)
(* and of no other.                                                        *)
Gathered ==
    /\ \A t \in Tests :
          /\ \A i \in DOMAIN found[t] : found[t][i].test = t
          /\ test[t] \in {"admitted", "testing"} => found[t] = <<>>
          /\ ~LoopAt("idle") /\ test[t] = "none" => found[t] = <<>>
          /\ test[t] \in {"releasing", "leaving", "over"} => Whole(t, findings)
    /\ \A i \in DOMAIN findings : test[findings[i].test] \in {"releasing", "leaving", "over"}

Returned == LoopAt("returned") => result = [findings |-> findings, requests |-> count]

ScanInv == ScanTypeOK /\ Ordered /\ SlotsCounted /\ PendingCounted /\ Gathered /\ Returned

-----------------------------------------------------------------------------
LEMMA NumTestsNat == NumTests \in Nat /\ IsFiniteSet(Tests)
  BY ScannerAssumption, FS_Interval DEF Tests

LEMMA CapacityPositive == Capacity \in Nat /\ Capacity >= 1
  BY ScannerAssumption DEF Capacity

LEMMA RunningFinite == IsFiniteSet(Running) /\ Cardinality(Running) \in Nat
  BY NumTestsNat, FS_Subset, FS_CardinalityType DEF Running

LEMMA CountedFinite == IsFiniteSet(Counted) /\ Cardinality(Counted) \in Nat
  BY NumTestsNat, FS_Subset, FS_CardinalityType DEF Counted

(* A step of the scanner starts and ends within a scan.                    *)
LEMMA ScanStepInside ==
    ASSUME ScanTypeOK, Ordered, ScanStep
    PROVE  ~LoopAt("idle") /\ ~LoopAt("idle")'
  <1>1. loop \in Loop
    BY DEF ScanTypeOK
  <1>2. CASE LoopStep
    BY <1>1, <1>2 DEF LoopStep, CheckNext, Send, Spawn, Wait, LoopAt, Move, Loop
  <1>3. ASSUME NEW t \in Tests, Request(t) \/ Work(t)
        PROVE  ~LoopAt("idle") /\ ~LoopAt("idle")'
    <2>1. ~LoopAt("idle")
      BY <1>3 DEF Ordered, Request, Work, Return, AddFindings, Release, Leave
    <2> QED
      BY <1>1, <1>3, <2>1 DEF Request, Work, Return, AddFindings, Release, Leave, LoopAt, Move, Loop
  <1> QED BY <1>2, <1>3 DEF ScanStep

(* An answer keeps the record of the turns well-typed.                     *)
LEMMA AnsweredType ==
    ASSUME NEW a \in Audit, a.calls > 0, a.turn < MaxTurns
    PROVE  Answered(a) \in Audit /\ Answered(a).pc \in {"turn", "tools"}
  <1>1. CASE a.calls = 1
    <2>1. a.turn + 1 \in 0..MaxTurns /\ 0 \in 0..MaxCalls
      BY AuditAssumption DEF Audit
    <2> QED BY <1>1, <2>1 DEF Answered, Audit, Places
  <1>2. CASE a.calls # 1
    <2>1. a.calls - 1 \in 0..MaxCalls
      BY <1>2, AuditAssumption DEF Audit
    <2> QED BY <1>2, <2>1 DEF Answered, Audit, Places
  <1> QED BY <1>1, <1>2

(* Every step of the audit is one of ScanNext, and keeps the two in step.  *)
LEMMA AuditSteps ==
    ASSUME ScanTypeOK, Ordered, Coupled, [Next]_vars
    PROVE  ScanNext /\ Coupled'
  <1>1. audit \in Audit /\ loop \in Loop /\ interrupted \in BOOLEAN
    BY DEF ScanTypeOK, Coupled
  <1>2. CASE Begin
    <2>1. NumTests \in 0..NumTests
      BY NumTestsNat
    <2>2. LoopAt("idle")
      BY <1>2 DEF Begin, Coupled, At
    <2> QED
      BY <1>1, <1>2, <2>1, <2>2
      DEF Begin, ScanNext, Coupled, At, AuditTo, StartScan, LoopAt, Audit, Places, scan
  <1>3. CASE BaselineDone
    BY <1>1, <1>3 DEF BaselineDone, ScanNext, Coupled, At, AuditTo, TakeResult, LoopAt, Idle, Audit, Places
  <1>4. CASE ModelError \/ NoChoices \/ TurnCap
    BY <1>1, <1>4
    DEF ModelError, NoChoices, TurnCap, InTurn, ScanNext, Coupled, At, AuditTo, LoopAt,
        Audit, Places, scan
  <1>5. CASE Conclude
    <2>1. audit.turn + 1 \in 0..MaxTurns
      BY <1>1, <1>5, AuditAssumption DEF Conclude, InTurn, Audit
    <2> QED
      BY <1>1, <1>5, <2>1
      DEF Conclude, InTurn, ScanNext, Coupled, At, AuditTo, LoopAt, Audit, Places, scan
  <1>6. CASE ToolCalls
    <2>1. PICK n \in 1..MaxCalls : audit' = [audit EXCEPT !.pc = "tools", !.calls = n]
      BY <1>6 DEF ToolCalls
    <2>2. n \in 0..MaxCalls /\ n > 0
      BY AuditAssumption
    <2> QED
      BY <1>1, <1>6, <2>1, <2>2
      DEF ToolCalls, InTurn, ScanNext, Coupled, At, LoopAt, Audit, Places, scan
  <1>7. CASE ScanCall
    <2>1. PICK n \in Tests : StartScan(n)
      BY <1>7 DEF ScanCall
    <2>2. n \in 0..NumTests
      BY NumTestsNat DEF Tests
    <2>3. LoopAt("idle") /\ ~LoopAt("idle")'
      BY <1>7, <2>1 DEF ScanCall, Coupled, At, StartScan, LoopAt
    <2>4. audit' = [audit EXCEPT !.pc = "scanning", !.verified = TRUE]
      BY <1>7 DEF ScanCall
    <2>5. Coupled'
      BY <1>1, <1>7, <2>3, <2>4 DEF ScanCall, Coupled, At, Audit, Places
    <2> QED BY <1>7, <2>1, <2>2, <2>3, <2>5 DEF ScanCall, ScanNext
  <1>8. CASE ScanCallDone
    <2>1. audit' \in Audit /\ audit'.pc \in {"turn", "tools"}
      BY <1>1, <1>8, AnsweredType DEF ScanCallDone, Coupled
    <2>2. audit'.pc = "tools" => audit'.calls > 0 /\ audit'.turn < MaxTurns
      BY <1>1, <1>8 DEF ScanCallDone, Coupled, Answered, Audit
    <2> QED
      BY <1>8, <2>1, <2>2 DEF ScanCallDone, ScanNext, Coupled, At, TakeResult, LoopAt, Idle
  <1>9. CASE OtherCall
    <2>1. PICK v \in BOOLEAN : audit' = Answered([audit EXCEPT !.verified = @ \/ v])
      BY <1>9 DEF OtherCall
    <2> DEFINE a == [audit EXCEPT !.verified = @ \/ v]
    <2>2. a \in Audit /\ a.calls > 0 /\ a.turn < MaxTurns
      BY <1>1, <1>9 DEF OtherCall, Coupled, Audit
    <2>3. Answered(a) \in Audit /\ Answered(a).pc \in {"turn", "tools"}
      BY <2>2, AnsweredType
    <2>4. Answered(a).pc = "tools" => Answered(a).calls > 0 /\ Answered(a).turn < MaxTurns
      BY <2>2 DEF Answered, Audit
    <2> HIDE DEF a
    <2> QED
      BY <1>1, <1>9, <2>1, <2>3, <2>4 DEF a, OtherCall, ScanNext, Coupled, At, LoopAt, scan
  <1>10. CASE ScanStep /\ UNCHANGED <<config, audit, scans>>
    BY <1>10, ScanStepInside DEF ScanNext, Coupled, At
  <1>11. CASE Interrupt \/ UNCHANGED vars
    BY <1>1, <1>11 DEF Interrupt, vars, ScanNext, Coupled, At, LoopAt, scan
  <1> QED
    BY <1>2, <1>3, <1>4, <1>5, <1>6, <1>7, <1>8, <1>9, <1>10, <1>11 DEF Next, AuditStep

-----------------------------------------------------------------------------
(* Except where a slot changes hands, the channel, the tests that hold an  *)
(* element of it and the loop blocked on it stay as they are.              *)
LEMMA RunningKept ==
    ASSUME ScanTypeOK, Ordered, SlotsCounted, ScanNext,
           ~Send, \A t \in Tests : ~Release(t)
    PROVE  /\ Running' = Running
           /\ slots' = slots
           /\ LoopAt("blocked")' <=> LoopAt("blocked")
           /\ LoopAt("blocked") => loop' = loop
  <1>0. loop \in Loop /\ test \in [Tests -> TestPlaces]
    BY DEF ScanTypeOK
  <1>1. CASE CheckNext \/ Wait
    BY <1>0, <1>1 DEF CheckNext, Wait, LoopAt, Move, Running, Loop
  <1>2. CASE Spawn
    <2>1. loop.next \in Tests /\ test[loop.next] = "admitted"
      BY <1>0, <1>2, NumTestsNat DEF Spawn, Ordered, LoopAt, Loop, Tests
    <2> QED BY <1>0, <1>2, <2>1 DEF Spawn, LoopAt, Goto, Running, Loop
  <1>3. ASSUME NEW t \in Tests, Request(t) \/ Return(t) \/ AddFindings(t) \/ Leave(t)
        PROVE  UNCHANGED <<Running, slots, loop>>
    BY <1>0, <1>3 DEF Request, Return, AddFindings, Leave, Goto, Running
  <1>4. CASE LoopAt("idle") /\ \E n \in 0..NumTests : StartScan(n)
    <2>1. Running = {} /\ Running' = {}
      BY <1>0, <1>4 DEF Ordered, StartScan, Running
    <2>2. slots = 0 /\ slots' = 0
      BY <1>4, <2>1, FS_EmptySet DEF SlotsCounted, StartScan
    <2> QED BY <1>4, <2>1, <2>2 DEF StartScan, LoopAt
  <1>5. CASE LoopAt("returned") /\ TakeResult
    BY <1>5 DEF TakeResult, Running, LoopAt, Idle
  <1>6. CASE UNCHANGED scan
    BY <1>6 DEF scan, Running, LoopAt
  <1> QED
    BY <1>1, <1>2, <1>3, <1>4, <1>5, <1>6 DEF ScanNext, ScanStep, LoopStep, Work, LoopAt

(* A send takes an element for the next test or blocks the loop.           *)
LEMMA SendJoins ==
    ASSUME ScanTypeOK, Ordered, SlotsCounted, Send
    PROVE  /\ loop.next \in Tests \ Running
           /\ ~LoopAt("blocked")
           /\ \/ /\ Cardinality(Running) < Capacity
                 /\ Running' = Running \cup {loop.next}
                 /\ slots' = slots + 1
                 /\ ~LoopAt("blocked")'
              \/ /\ Cardinality(Running) >= Capacity
                 /\ UNCHANGED <<Running, slots>>
                 /\ LoopAt("blocked")' /\ loop'.next = loop.next
  <1>0. loop \in Loop /\ test \in [Tests -> TestPlaces]
    BY DEF ScanTypeOK
  <1>1. loop.next \in Tests \ Running
    BY <1>0, NumTestsNat DEF Send, Ordered, LoopAt, Loop, Tests, Running
  <1> QED
    BY <1>0, <1>1 DEF Send, Goto, Move, LoopAt, Loop, Running, SlotsCounted

(* A receive takes the element of its test away, or hands it to the test   *)
(* the loop is blocked for.                                                *)
LEMMA ReleaseLeaves ==
    ASSUME ScanTypeOK, Ordered, SlotsCounted, NEW t \in Tests, Release(t)
    PROVE  /\ t \in Running
           /\ ~LoopAt("blocked")'
           /\ \/ /\ ~LoopAt("blocked")
                 /\ Running' = Running \ {t}
                 /\ slots' = slots - 1
              \/ /\ LoopAt("blocked")
                 /\ loop.next \in Tests \ Running
                 /\ Running' = (Running \ {t}) \cup {loop.next}
                 /\ slots' = slots
  <1>0. loop \in Loop /\ test \in [Tests -> TestPlaces]
    BY DEF ScanTypeOK
  <1>1. t \in Running
    BY DEF Release, Running
  <1>2. CASE LoopAt("blocked")
    <2>1. loop.next \in Tests \ Running
      BY <1>0, <1>2, NumTestsNat DEF Ordered, LoopAt, Loop, Tests, Running
    <2> QED BY <1>0, <1>1, <1>2, <2>1 DEF Release, Move, LoopAt, Loop, Running
  <1>3. CASE ~LoopAt("blocked")
    BY <1>0, <1>1, <1>3 DEF Release, Goto, LoopAt, Running
  <1> QED BY <1>2, <1>3

LEMMA SlotsStep ==
    ASSUME ScanTypeOK, Ordered, SlotsCounted, ScanNext
    PROVE  SlotsCounted'
  <1> USE CapacityPositive, RunningFinite
  <1>1. CASE Send
    <2>1. CASE Running' = Running \cup {loop.next} /\ slots' = slots + 1 /\ ~LoopAt("blocked")'
               /\ Cardinality(Running) < Capacity
      <3>1. Cardinality(Running') = Cardinality(Running) + 1
        BY <1>1, <2>1, SendJoins, FS_AddElement
      <3> QED BY <2>1, <3>1 DEF SlotsCounted
    <2>2. CASE UNCHANGED <<Running, slots>> /\ Cardinality(Running) >= Capacity
      BY <2>2 DEF SlotsCounted
    <2> QED BY <1>1, <2>1, <2>2, SendJoins
  <1>2. ASSUME NEW t \in Tests, Release(t) PROVE SlotsCounted'
    <2>0. t \in Running /\ ~LoopAt("blocked")'
      BY <1>2, ReleaseLeaves
    <2>1. IsFiniteSet(Running \ {t}) /\ Cardinality(Running \ {t}) = Cardinality(Running) - 1
      BY <2>0, FS_RemoveElement
    <2>2. CASE Running' = Running \ {t} /\ slots' = slots - 1
      BY <2>0, <2>1, <2>2 DEF SlotsCounted
    <2>3. CASE /\ loop.next \in Tests \ Running
               /\ Running' = (Running \ {t}) \cup {loop.next}
               /\ slots' = slots
      <3>1. Cardinality(Running') = Cardinality(Running \ {t}) + 1
        BY <2>1, <2>3, FS_AddElement
      <3> QED BY <2>0, <2>1, <2>3, <3>1 DEF SlotsCounted
    <2> QED BY <1>2, <2>2, <2>3, ReleaseLeaves
  <1>3. CASE ~Send /\ \A t \in Tests : ~Release(t)
    BY <1>3, RunningKept DEF SlotsCounted
  <1> QED BY <1>1, <1>2, <1>3

-----------------------------------------------------------------------------
(* The wait group: it grows when the loop is about to start a test, and    *)
(* shrinks when a test leaves.                                             *)
LEMMA CountedKept ==
    ASSUME ScanTypeOK, Ordered, PendingCounted, ScanNext,
           ~CheckNext, \A t \in Tests : ~Leave(t)
    PROVE  Counted' = Counted /\ pending' = pending
  <1>0. loop \in Loop /\ test \in [Tests -> TestPlaces]
    BY DEF ScanTypeOK
  <1>1. CASE Send \/ Spawn
    <2>1. loop.next \in Tests /\ test[loop.next] = IF LoopAt("spawn") THEN "admitted" ELSE "none"
      BY <1>0, <1>1, NumTestsNat DEF Send, Spawn, Ordered, LoopAt, Loop, Tests
    <2> QED BY <1>0, <1>1, <2>1 DEF Send, Spawn, Goto, Move, LoopAt, Loop, Counted
  <1>2. CASE Wait
    BY <1>0, <1>2 DEF Wait, Move, LoopAt, Loop, Counted
  <1>3. ASSUME NEW t \in Tests, Request(t) \/ Return(t) \/ AddFindings(t)
        PROVE  Counted' = Counted /\ pending' = pending
    BY <1>0, <1>3 DEF Request, Return, AddFindings, Goto, Counted
  <1>4. ASSUME NEW t \in Tests, Release(t)
        PROVE  Counted' = Counted /\ pending' = pending
    <2>1. CASE LoopAt("blocked")
      <3>1. loop.next \in Tests /\ test[loop.next] = "none"
        BY <1>0, <2>1, NumTestsNat DEF Ordered, LoopAt, Loop, Tests
      <3>2. loop' = [loop EXCEPT !.pc = "spawn"] /\ test[t] = "releasing" /\ pending' = pending
            /\ test' = [test EXCEPT ![t] = "leaving", ![loop.next] = "admitted"]
        BY <1>4, <2>1 DEF Release, Move
      <3> QED BY <1>0, <2>1, <3>1, <3>2 DEF LoopAt, Loop, Counted
    <2>2. CASE ~LoopAt("blocked")
      BY <1>0, <1>4, <2>2 DEF Release, Goto, LoopAt, Counted
    <2> QED BY <2>1, <2>2
  <1>5. CASE LoopAt("idle") /\ \E n \in 0..NumTests : StartScan(n)
    <2>1. Counted = {} /\ Counted' = {}
      BY <1>0, <1>5 DEF Ordered, StartScan, Counted, LoopAt
    <2> QED BY <1>5, <2>1, FS_EmptySet DEF PendingCounted, StartScan
  <1>6. CASE LoopAt("returned") /\ TakeResult
    BY <1>6 DEF TakeResult, Counted, LoopAt, Idle
  <1>7. CASE UNCHANGED scan
    BY <1>7 DEF scan, Counted, LoopAt
  <1> QED
    BY <1>1, <1>2, <1>3, <1>4, <1>5, <1>6, <1>7 DEF ScanNext, ScanStep, LoopStep, Work

LEMMA PendingStep ==
    ASSUME ScanTypeOK, Ordered, PendingCounted, ScanNext
    PROVE  PendingCounted'
  <1> USE CountedFinite
  <1>0. loop \in Loop /\ test \in [Tests -> TestPlaces]
    BY DEF ScanTypeOK
  <1>1. CASE CheckNext
    <2>1. CASE Move("wait") /\ UNCHANGED pending
      BY <1>0, <1>1, <2>1 DEF CheckNext, Move, LoopAt, Loop, Counted, PendingCounted
    <2>2. CASE loop.next <= loop.last /\ pending' = pending + 1 /\ Move("send")
      <3>1. loop.next \in Tests /\ test[loop.next] = "none"
        BY <1>0, <1>1, <2>2, NumTestsNat DEF CheckNext, Ordered, LoopAt, Loop, Tests
      <3>2. loop.next \notin Counted /\ Counted' = Counted \cup {loop.next}
        BY <1>0, <1>1, <2>2, <3>1 DEF CheckNext, Move, LoopAt, Loop, Counted
      <3>3. Cardinality(Counted') = Cardinality(Counted) + 1
        BY <3>2, FS_AddElement
      <3> QED BY <2>2, <3>3 DEF PendingCounted
    <2> QED BY <1>1, <2>1, <2>2 DEF CheckNext
  <1>2. ASSUME NEW t \in Tests, Leave(t) PROVE PendingCounted'
    <2>1. ~(loop.pc \in {"send", "blocked"} /\ t = loop.next)
      BY <1>0, <1>2 DEF Leave, Ordered, LoopAt
    <2>2. t \in Counted /\ Counted' = Counted \ {t}
      BY <1>0, <1>2, <2>1 DEF Leave, Goto, Counted
    <2>3. Cardinality(Counted') = Cardinality(Counted) - 1
      BY <2>2, FS_RemoveElement
    <2> QED BY <1>2, <2>3 DEF Leave, PendingCounted
  <1>3. CASE ~CheckNext /\ \A t \in Tests : ~Leave(t)
    BY <1>3, CountedKept DEF PendingCounted
  <1> QED BY <1>1, <1>2, <1>3

-----------------------------------------------------------------------------
(* The loop lets the tests in one after the other, and returns when the    *)
(* wait group is empty, which is when no test is under way.                *)
LEMMA OrderedStep ==
    ASSUME ScanTypeOK, Ordered, PendingCounted, ScanNext
    PROVE  Ordered'
  <1>0. loop \in Loop /\ test \in [Tests -> TestPlaces] /\ loop.next \in Nat /\ loop.last \in Nat
    BY NumTestsNat DEF ScanTypeOK, Loop
  <1>1. CASE CheckNext
    BY <1>0, <1>1 DEF CheckNext, Move, LoopAt, Loop, Ordered
  <1>2. CASE Send
    <2>1. loop.next \in Tests /\ test[loop.next] = "none" /\ loop.next <= loop.last
      BY <1>0, <1>2, NumTestsNat DEF Send, Ordered, LoopAt, Loop, Tests
    <2>2. CASE Goto(loop.next, "admitted") /\ Move("spawn")
      BY <1>0, <1>2, <2>1, <2>2 DEF Send, Goto, Move, LoopAt, Loop, Ordered, Tests
    <2>3. CASE Move("blocked") /\ UNCHANGED test
      BY <1>0, <1>2, <2>1, <2>3 DEF Send, Move, LoopAt, Loop, Ordered
    <2> QED BY <1>2, <2>2, <2>3 DEF Send
  <1>3. CASE Spawn
    <2>1. loop.next \in Tests /\ test[loop.next] = "admitted" /\ loop.next <= loop.last
      BY <1>0, <1>3, NumTestsNat DEF Spawn, Ordered, LoopAt, Loop, Tests
    <2>2. loop' = [loop EXCEPT !.pc = "check", !.next = @ + 1]
          /\ test' = [test EXCEPT ![loop.next] = "testing"] /\ LoopAt("spawn")
      BY <1>3 DEF Spawn, Goto
    <2>3. loop'.next = loop.next + 1 /\ loop'.last = loop.last /\ loop'.pc = "check"
      BY <1>0, <2>2 DEF Loop
    <2>4. ASSUME NEW t \in Tests
          PROVE  /\ t > loop'.next => test'[t] = "none"
                 /\ t = loop'.next => test'[t] = "none"
                 /\ t < loop'.next => test'[t] \notin {"none", "admitted"}
      BY <1>0, <2>1, <2>2, <2>3 DEF Ordered, LoopAt, Tests
    <2> QED BY <1>0, <2>1, <2>3, <2>4 DEF Ordered, LoopAt
  <1>4. CASE Wait
    <2>1. Counted = {}
      BY <1>4, CountedFinite, FS_EmptySet DEF Wait, PendingCounted
    <2>2. \A t \in Tests : test[t] \in {"none", "over"}
      BY <1>0, <2>1 DEF Counted
    <2> QED BY <1>0, <1>4, <2>2 DEF Wait, Move, LoopAt, Loop, Ordered
  <1>5. ASSUME NEW t \in Tests, Request(t) \/ Return(t) \/ AddFindings(t) \/ Leave(t)
        PROVE  Ordered'
    <2>1. loop' = loop /\ ~LoopAt("idle") /\ ~LoopAt("returned") /\ test[t] \notin {"none", "admitted"}
      BY <1>5 DEF Request, Return, AddFindings, Leave, Ordered
    <2>2. \E p \in {"testing", "adding", "releasing", "leaving", "over"} :
             test' = test \/ test' = [test EXCEPT ![t] = p]
      BY <1>5 DEF Request, Return, AddFindings, Leave, Goto
    <2>3. t < loop.next
      BY <1>0, <2>1 DEF Ordered, Tests
    <2> QED BY <1>0, <2>1, <2>2, <2>3 DEF Ordered, LoopAt, Tests
  <1>6. ASSUME NEW t \in Tests, Release(t) PROVE Ordered'
    <2>1. ~LoopAt("idle") /\ ~LoopAt("returned") /\ t < loop.next
      BY <1>0, <1>6 DEF Release, Ordered, Tests
    <2>2. CASE LoopAt("blocked")
      <3>1. loop.next \in Tests /\ loop.next <= loop.last
        BY <1>0, <2>2, NumTestsNat DEF Ordered, LoopAt, Loop, Tests
      <3>2. loop' = [loop EXCEPT !.pc = "spawn"]
            /\ test' = [test EXCEPT ![t] = "leaving", ![loop.next] = "admitted"]
        BY <1>6, <2>2 DEF Release, Move
      <3> QED BY <1>0, <2>1, <2>2, <3>1, <3>2 DEF Ordered, LoopAt, Loop, Tests
    <2>3. CASE ~LoopAt("blocked")
      BY <1>0, <1>6, <2>1, <2>3 DEF Release, Goto, Ordered, LoopAt, Tests
    <2> QED BY <2>2, <2>3
  <1>7. ASSUME NEW n \in 0..NumTests, StartScan(n) PROVE Ordered'
    BY <1>7, NumTestsNat DEF StartScan, Ordered, LoopAt, Tests
  <1>8. CASE LoopAt("returned") /\ TakeResult
    BY <1>8 DEF TakeResult, Ordered, LoopAt, Idle
  <1>9. CASE UNCHANGED scan
    BY <1>9 DEF scan, Ordered, LoopAt
  <1> QED
    BY <1>1, <1>2, <1>3, <1>4, <1>5, <1>6, <1>7, <1>8, <1>9 DEF ScanNext, ScanStep, LoopStep, Work

-----------------------------------------------------------------------------
LEMMA FindingsTyped ==
    ASSUME ScanTypeOK
    PROVE  \A i \in DOMAIN findings : findings[i] \in Finding /\ findings[i].test \in Tests
  <1>1. findings \in Seq(Finding)
    BY DEF ScanTypeOK
  <1>2. \A i \in DOMAIN findings : findings[i] \in Finding
    BY <1>1
  <1>3. \A f \in Finding : f.test \in Tests
    BY FindingAssumption DEF Tests
  <1> QED BY <1>2, <1>3

(* What a test may return is a list of findings of its own.                *)
LEMMA ListsTyped ==
    ASSUME NEW t \in Tests, NEW fs \in Lists(t)
    PROVE  fs \in Seq(Finding) /\ \A i \in DOMAIN fs : fs[i] \in Finding /\ fs[i].test = t
  <1>1. PICK n \in Nat : fs \in [1..n -> {f \in Finding : f.test = t}]
    BY ScannerAssumption DEF Lists
  <1>2. fs \in [1..n -> Finding]
    BY <1>1
  <1> QED BY <1>1, <1>2, SeqDef

LEMMA Appended ==
    ASSUME NEW list \in Seq(Finding), NEW fs \in Seq(Finding)
    PROVE  /\ list \o fs \in Seq(Finding) /\ Len(list) \in Nat /\ Len(fs) \in Nat
           /\ DOMAIN list = 1..Len(list) /\ DOMAIN fs = 1..Len(fs)
           /\ Len(list \o fs) = Len(list) + Len(fs)
           /\ DOMAIN (list \o fs) = 1..(Len(list) + Len(fs))
           /\ \A i \in 1..Len(list) : (list \o fs)[i] = list[i]
           /\ \A i \in 1..Len(fs) : (list \o fs)[Len(list) + i] = fs[i]
  OBVIOUS

(* The block of a test stays where it is when findings of another test are *)
(* added, and its own findings are one block when they are added.          *)
LEMMA WholeKept ==
    ASSUME NEW list \in Seq(Finding), NEW fs \in Seq(Finding), NEW t, Whole(t, list),
           found[t] \in Seq(Finding), \A i \in DOMAIN fs : fs[i].test # t
    PROVE  Whole(t, list \o fs)
  <1> DEFINE more == list \o fs
             Of(s) == {i \in DOMAIN s : s[i].test = t}
  <1>1. PICK k \in 0..Len(list) :
           /\ Of(list) = (k + 1)..(k + Len(found[t]))
           /\ \A i \in DOMAIN found[t] : list[k + i] = found[t][i]
    BY DEF Whole
  <1>2. /\ Len(list) \in Nat /\ Len(fs) \in Nat /\ Len(more) = Len(list) + Len(fs)
        /\ DOMAIN list = 1..Len(list) /\ DOMAIN fs = 1..Len(fs)
        /\ DOMAIN more = 1..(Len(list) + Len(fs))
        /\ \A i \in 1..Len(list) : more[i] = list[i]
        /\ \A i \in 1..Len(fs) : more[Len(list) + i] = fs[i]
    BY Appended
  <1>3. DOMAIN found[t] = 1..Len(found[t]) /\ Len(found[t]) \in Nat
    BY LenProperties
  <1> HIDE DEF more
  <1>4. k \in 0..Len(more)
    BY <1>2
  <1>5. ASSUME NEW i \in DOMAIN more PROVE i \in Of(more) <=> i \in Of(list)
    <2>1. CASE i \in 1..Len(list)
      BY <1>2, <2>1
    <2>2. CASE i \notin 1..Len(list)
      <3>1. i - Len(list) \in 1..Len(fs) /\ i = Len(list) + (i - Len(list))
        BY <1>2, <2>2
      <3>2. more[i] = fs[i - Len(list)]
        BY <1>2, <3>1
      <3> QED BY <1>2, <2>2, <3>1, <3>2
    <2> QED BY <2>1, <2>2
  <1>6. Of(more) = Of(list)
    <2>1. DOMAIN list \subseteq DOMAIN more
      BY <1>2
    <2> QED BY <1>5, <2>1
  <1>7. \A i \in DOMAIN found[t] : more[k + i] = found[t][i]
    <2>1. SUFFICES ASSUME NEW i \in DOMAIN found[t] PROVE more[k + i] = list[k + i]
      BY <1>1
    <2>2. k + i \in (k + 1)..(k + Len(found[t]))
      BY <1>3
    <2>3. k + i \in Of(list)
      BY <1>1, <2>2
    <2> QED BY <1>2, <2>3
  <1> QED BY <1>1, <1>4, <1>6, <1>7 DEF Whole, more

LEMMA WholeAdded ==
    ASSUME NEW list \in Seq(Finding), NEW t, found[t] \in Seq(Finding),
           \A i \in DOMAIN list : list[i].test # t, \A i \in DOMAIN found[t] : found[t][i].test = t
    PROVE  Whole(t, list \o found[t])
  <1> DEFINE fs == found[t]
             more == list \o fs
             Of(s) == {i \in DOMAIN s : s[i].test = t}
  <1>1. /\ Len(list) \in Nat /\ Len(fs) \in Nat /\ Len(more) = Len(list) + Len(fs)
        /\ DOMAIN list = 1..Len(list) /\ DOMAIN fs = 1..Len(fs)
        /\ DOMAIN more = 1..(Len(list) + Len(fs))
        /\ \A i \in 1..Len(list) : more[i] = list[i]
        /\ \A i \in 1..Len(fs) : more[Len(list) + i] = fs[i]
    BY Appended
  <1>2. Len(list) \in 0..Len(more)
    BY <1>1
  <1> HIDE DEF more, fs
  <1>3. ASSUME NEW i \in DOMAIN more PROVE more[i].test = t <=> i > Len(list)
    <2>1. CASE i \in 1..Len(list)
      BY <1>1, <2>1
    <2>2. CASE i \notin 1..Len(list)
      <3>1. i - Len(list) \in 1..Len(fs) /\ i = Len(list) + (i - Len(list)) /\ i > Len(list)
        BY <1>1, <2>2
      <3>2. more[i] = fs[i - Len(list)]
        BY <1>1, <3>1
      <3> QED BY <1>1, <3>1, <3>2 DEF fs
    <2> QED BY <2>1, <2>2
  <1>4. Of(more) = (Len(list) + 1)..(Len(list) + Len(fs))
    BY <1>1, <1>3
  <1>5. \A i \in DOMAIN fs : more[Len(list) + i] = fs[i]
    BY <1>1
  <1>6. \E k \in 0..Len(more) :
           /\ Of(more) = (k + 1)..(k + Len(fs))
           /\ \A i \in DOMAIN fs : more[k + i] = fs[i]
    BY <1>2, <1>4, <1>5
  <1> QED BY <1>6 DEF Whole, more, fs

(* Where nothing was found there is nothing to be in the list.             *)
LEMMA WholeEmpty ==
    ASSUME NEW list \in Seq(Finding), NEW t, found[t] = <<>>, \A i \in DOMAIN list : list[i].test # t
    PROVE  Whole(t, list)
  <1>1. 0 \in 0..Len(list) /\ Len(<<>>) = 0 /\ DOMAIN <<>> = {}
    BY LenProperties
  <1>2. {i \in DOMAIN list : list[i].test = t} = (0 + 1)..(0 + 0)
    OBVIOUS
  <1> QED BY <1>1, <1>2 DEF Whole

(* Being let in and being started adds nothing and takes nothing away.     *)
LEMMA GatheredKept ==
    ASSUME ScanTypeOK, Gathered, ~LoopAt("idle"), UNCHANGED <<found, findings>>,
           \A t \in Tests : \/ test'[t] = test[t]
                            \/ test[t] = "none" /\ test'[t] = "admitted"
                            \/ test[t] = "admitted" /\ test'[t] = "testing"
    PROVE  Gathered'
  <1>1. \A t \in Tests : Whole(t, findings) => Whole(t, findings)'
    BY DEF Whole
  <1>2. ASSUME NEW t \in Tests
        PROVE  /\ \A i \in DOMAIN found[t] : found[t][i].test = t
               /\ test'[t] \in {"admitted", "testing", "none"} => found[t] = <<>>
               /\ test'[t] \in {"releasing", "leaving", "over"} => Whole(t, findings)
    BY DEF Gathered
  <1>3. \A i \in DOMAIN findings : test'[findings[i].test] \in {"releasing", "leaving", "over"}
    BY FindingsTyped DEF Gathered
  <1> QED BY <1>1, <1>2, <1>3 DEF Gathered

(* A test that is past adding has its findings in the list, once.          *)
LEMMA GatheredStep ==
    ASSUME ScanTypeOK, Ordered, Gathered, ScanNext
    PROVE  Gathered'
  <1>0. /\ loop \in Loop /\ test \in [Tests -> TestPlaces] /\ found \in [Tests -> Seq(Finding)]
        /\ findings \in Seq(Finding) /\ loop.next \in Nat
    BY NumTestsNat DEF ScanTypeOK, Loop
  <1>a. \A i \in DOMAIN findings : findings[i] \in Finding /\ findings[i].test \in Tests
    BY FindingsTyped
  <1>b. \A u \in Tests : found'[u] = found[u] /\ findings' = findings /\ Whole(u, findings)
                            => Whole(u, findings)'
    BY DEF Whole
  <1>1. CASE CheckNext \/ Wait
    <2>1. ~LoopAt("idle") /\ UNCHANGED <<test, found, findings>>
      BY <1>1 DEF CheckNext, Wait, LoopAt
    <2> QED BY <2>1, GatheredKept
  <1>2. CASE Send \/ Spawn
    <2>1. /\ loop.next \in Tests
          /\ test[loop.next] = IF LoopAt("spawn") THEN "admitted" ELSE "none"
          /\ ~LoopAt("idle") /\ UNCHANGED <<found, findings>>
      BY <1>0, <1>2, NumTestsNat DEF Send, Spawn, Ordered, LoopAt, Loop, Tests
    <2>2. \A t \in Tests : \/ test'[t] = test[t]
                           \/ test[t] = "none" /\ test'[t] = "admitted"
                           \/ test[t] = "admitted" /\ test'[t] = "testing"
      BY <1>0, <1>2, <2>1 DEF Send, Spawn, Goto, LoopAt
    <2> QED BY <2>1, <2>2, GatheredKept
  <1>3. ASSUME NEW t \in Tests, Request(t) \/ Leave(t) PROVE Gathered'
    <2>1. /\ UNCHANGED <<loop, found, findings>>
          /\ \/ test' = test
             \/ test[t] = "leaving" /\ test' = [test EXCEPT ![t] = "over"]
      BY <1>3 DEF Request, Leave, Goto
    <2>2. \A u \in Tests : Whole(u, findings) => Whole(u, findings)'
      BY <1>b, <2>1
    <2>3. \A u \in Tests : \/ test'[u] = test[u]
                           \/ test[u] = "leaving" /\ test'[u] = "over"
      BY <1>0, <2>1
    <2> QED BY <1>a, <2>1, <2>2, <2>3 DEF LoopAt, Gathered
  <1>4. ASSUME NEW t \in Tests, Return(t) PROVE Gathered'
    <2>1. PICK fs \in Lists(t) :
            /\ found' = [found EXCEPT ![t] = fs]
            /\ test' = [test EXCEPT ![t] = IF fs = <<>> THEN "releasing" ELSE "adding"]
      BY <1>4 DEF Return, Goto
    <2>2. test[t] = "testing" /\ UNCHANGED <<loop, findings>>
      BY <1>4 DEF Return
    <2>3. \A i \in DOMAIN fs : fs[i].test = t
      BY ListsTyped
    <2>4. \A i \in DOMAIN findings : findings[i].test # t
      BY <2>2 DEF Gathered
    <2>5. test'[t] = "releasing" => Whole(t, findings)'
      <3>1. SUFFICES ASSUME fs = <<>> PROVE Whole(t, findings)'
        BY <1>0, <2>1
      <3>2. found' = found
        BY <1>0, <2>1, <2>2, <3>1 DEF Gathered
      <3>3. Whole(t, findings)
        BY <1>0, <2>2, <2>4, WholeEmpty DEF Gathered
      <3> QED BY <1>b, <2>2, <3>2, <3>3
    <2>6. ASSUME NEW u \in Tests, u # t
          PROVE  /\ \A i \in DOMAIN found'[u] : found'[u][i].test = u
                 /\ test'[u] \in {"admitted", "testing"} => found'[u] = <<>>
                 /\ ~LoopAt("idle")' /\ test'[u] = "none" => found'[u] = <<>>
                 /\ test'[u] \in {"releasing", "leaving", "over"} => Whole(u, findings)'
      <3>1. test'[u] = test[u] /\ found'[u] = found[u] /\ (LoopAt("idle")' <=> LoopAt("idle"))
        BY <1>0, <2>1, <2>2, <2>6 DEF LoopAt
      <3> QED BY <1>b, <2>2, <3>1 DEF Gathered
    <2>7. /\ \A i \in DOMAIN found'[t] : found'[t][i].test = t
          /\ test'[t] \in {"releasing", "adding"}
      BY <1>0, <2>1, <2>3
    <2>8. \A i \in DOMAIN findings' : test'[findings'[i].test] \in {"releasing", "leaving", "over"}
      BY <1>0, <1>a, <2>1, <2>2, <2>4 DEF Gathered
    <2> QED BY <2>5, <2>6, <2>7, <2>8 DEF Gathered
  <1>5. ASSUME NEW t \in Tests, AddFindings(t) PROVE Gathered'
    <2> DEFINE fs == found[t]
    <2>1. /\ test[t] = "adding" /\ UNCHANGED <<loop, found>>
          /\ findings' = findings \o fs
          /\ test' = [test EXCEPT ![t] = "releasing"]
      BY <1>5 DEF AddFindings, Goto
    <2>2. fs \in Seq(Finding) /\ \A i \in DOMAIN fs : fs[i].test = t
      BY <1>0 DEF Gathered
    <2>3. \A i \in DOMAIN findings : findings[i].test # t
      BY <2>1 DEF Gathered
    <2>4. Whole(t, findings \o fs)
      BY <1>0, <2>2, <2>3, WholeAdded
    <2>5. ASSUME NEW u \in Tests, u # t, Whole(u, findings) PROVE Whole(u, findings \o fs)
      <3>1. found[u] \in Seq(Finding) /\ \A i \in DOMAIN fs : fs[i].test # u
        BY <1>0, <2>2, <2>5
      <3> QED BY <1>0, <2>2, <2>5, <3>1, WholeKept
    <2>6. ASSUME NEW u \in Tests, Whole(u, findings \o fs) PROVE Whole(u, findings)'
      BY <2>1, <2>6 DEF Whole
    <2>7. \A i \in DOMAIN findings' : \/ findings'[i].test = t
                                      \/ i \in DOMAIN findings /\ findings'[i] = findings[i]
      <3>1. SUFFICES ASSUME NEW i \in DOMAIN (findings \o fs), i \notin DOMAIN findings
                     PROVE  (findings \o fs)[i].test = t
        BY <1>0, <2>1, <2>2, Appended
      <3> HIDE DEF fs
      <3>2. i - Len(findings) \in DOMAIN fs /\ i = Len(findings) + (i - Len(findings))
        BY <1>0, <2>2, <3>1, Appended
      <3>3. (findings \o fs)[i] = fs[i - Len(findings)]
        BY <1>0, <2>2, <3>2, Appended
      <3> QED BY <2>2, <3>2, <3>3
    <2>8. ASSUME NEW u \in Tests
          PROVE  /\ \A i \in DOMAIN found'[u] : found'[u][i].test = u
                 /\ test'[u] \in {"admitted", "testing"} => found'[u] = <<>>
                 /\ ~LoopAt("idle")' /\ test'[u] = "none" => found'[u] = <<>>
                 /\ test'[u] \in {"releasing", "leaving", "over"} => Whole(u, findings)'
      <3> HIDE DEF fs
      <3>1. CASE u = t
        BY <1>0, <2>1, <2>4, <2>6, <3>1 DEF Gathered
      <3>2. CASE u # t
        BY <1>0, <2>1, <2>5, <2>6, <3>2 DEF Gathered, LoopAt
      <3> QED BY <3>1, <3>2
    <2>9. \A i \in DOMAIN findings' : test'[findings'[i].test] \in {"releasing", "leaving", "over"}
      BY <1>0, <1>a, <2>1, <2>7 DEF Gathered
    <2> QED BY <2>8, <2>9 DEF Gathered
  <1>6. ASSUME NEW t \in Tests, Release(t) PROVE Gathered'
    <2>1. CASE LoopAt("blocked")
      <3>1. loop.next \in Tests /\ test[loop.next] = "none"
        BY <1>0, <2>1, NumTestsNat DEF Ordered, LoopAt, Loop, Tests
      <3>2. /\ loop' = [loop EXCEPT !.pc = "spawn"] /\ UNCHANGED <<found, findings>>
            /\ test[t] = "releasing"
            /\ test' = [test EXCEPT ![t] = "leaving", ![loop.next] = "admitted"]
        BY <1>6, <2>1 DEF Release, Move
      <3>3. ~LoopAt("idle") /\ ~LoopAt("idle")'
        BY <1>0, <2>1, <3>2 DEF LoopAt, Loop
      <3> QED BY <1>0, <1>a, <1>b, <3>1, <3>2, <3>3 DEF Gathered
    <2>2. CASE ~LoopAt("blocked")
      BY <1>0, <1>a, <1>b, <1>6, <2>2 DEF Release, Goto, LoopAt, Gathered
    <2> QED BY <2>1, <2>2
  <1>7. ASSUME NEW n \in 0..NumTests, StartScan(n) PROVE Gathered'
    BY <1>7 DEF StartScan, Gathered
  <1>8. CASE LoopAt("returned") /\ TakeResult
    <2>1. /\ \A t \in Tests : test'[t] \in {"none", "over"} /\ found'[t] = <<>>
          /\ findings' = <<>> /\ LoopAt("idle")'
      BY <1>8 DEF Ordered, TakeResult, LoopAt, Idle
    <2>2. \A t \in Tests : Whole(t, findings)'
      <3>1. <<>> \in Seq(Finding) /\ DOMAIN <<>> = {} /\ Len(<<>>) = 0
        OBVIOUS
      <3>2. 0 \in 0..Len(findings') /\ (0 + 1)..(0 + 0) = {}
        BY <2>1, <3>1
      <3> QED BY <2>1, <3>1, <3>2 DEF Whole
    <2>3. \A t \in Tests : DOMAIN found'[t] = {}
      BY <2>1
    <2> QED BY <2>1, <2>2, <2>3 DEF Gathered
  <1>9. CASE UNCHANGED scan
    <2>1. UNCHANGED <<loop, test, found, findings>>
      BY <1>9 DEF scan
    <2> QED BY <1>b, <2>1 DEF Gathered, LoopAt
  <1> QED
    BY <1>1, <1>2, <1>3, <1>4, <1>5, <1>6, <1>7, <1>8, <1>9 DEF ScanNext, ScanStep, LoopStep, Work

(* What Run returns is the list and the count as they are at the end.      *)
LEMMA ReturnedStep ==
    ASSUME ScanTypeOK, Ordered, Returned, ScanNext
    PROVE  Returned'
  <1>0. loop \in Loop /\ test \in [Tests -> TestPlaces]
    BY DEF ScanTypeOK
  <1>1. CASE CheckNext \/ Send \/ Spawn \/ Wait
    BY <1>0, <1>1 DEF CheckNext, Send, Spawn, Wait, Move, LoopAt, Loop, Returned
  <1>2. ASSUME NEW t \in Tests, Request(t) \/ Work(t) PROVE Returned'
    <2>1. ~LoopAt("returned")
      BY <1>2 DEF Ordered, Request, Work, Return, AddFindings, Release, Leave
    <2>2. loop' = loop \/ loop' = [loop EXCEPT !.pc = "spawn"]
      BY <1>2 DEF Request, Work, Return, AddFindings, Release, Leave, Move
    <2> QED BY <1>0, <2>1, <2>2 DEF LoopAt, Loop, Returned
  <1>3. CASE \E n \in 0..NumTests : StartScan(n)
    BY <1>3 DEF StartScan, LoopAt, Returned
  <1>4. CASE LoopAt("returned") /\ TakeResult
    BY <1>4 DEF TakeResult, Idle, LoopAt, Returned
  <1>5. CASE UNCHANGED scan
    BY <1>5 DEF scan, LoopAt, Returned
  <1> QED BY <1>1, <1>2, <1>3, <1>4, <1>5 DEF ScanNext, ScanStep, LoopStep

-----------------------------------------------------------------------------
(* Every step keeps the variables of the scanner well-typed; that the two  *)
(* counters do not fall below zero is what SlotsCounted and PendingCounted *)
(* are needed for.                                                         *)
LEMMA TypeStep ==
    ASSUME ScanTypeOK, Ordered, SlotsCounted', PendingCounted', Gathered, ScanNext
    PROVE  ScanTypeOK'
  <1>0. /\ loop \in Loop /\ test \in [Tests -> TestPlaces] /\ found \in [Tests -> Seq(Finding)]
        /\ findings \in Seq(Finding) /\ count \in 0..MaxRequests
        /\ result \in [findings : Seq(Finding), requests : 0..MaxRequests]
        /\ interrupted \in BOOLEAN /\ proved \subseteq Finding
        /\ loop.next \in 1..(NumTests + 1) /\ loop.last \in 0..NumTests
    BY DEF ScanTypeOK, Loop
  <1>1. slots' \in Nat /\ pending' \in Nat
    <2>1. IsFiniteSet(Running') /\ IsFiniteSet(Counted')
      BY NumTestsNat, FS_Subset DEF Running, Counted
    <2> QED BY <2>1, FS_CardinalityType DEF SlotsCounted, PendingCounted
  <1>2. interrupted' \in BOOLEAN
    BY <1>0
    DEF ScanNext, ScanStep, LoopStep, CheckNext, Send, Spawn, Wait, Request, Work, Return,
        AddFindings, Release, Leave
  <1>3. loop' \in Loop
    <2>1. CASE Spawn
      <3>1. loop.next + 1 \in 1..(NumTests + 1)
        BY <1>0, <2>1, NumTestsNat DEF Spawn, Ordered, LoopAt
      <3> QED BY <1>0, <2>1, <3>1 DEF Spawn, Loop, LoopPlaces
    <2>2. CASE \E n \in 0..NumTests : StartScan(n)
      BY <2>2, NumTestsNat DEF StartScan, Loop, LoopPlaces
    <2>3. CASE TakeResult
      BY <2>3, NumTestsNat DEF TakeResult, Idle, Loop, LoopPlaces
    <2>4. CASE loop' = loop \/ \E p \in LoopPlaces : loop' = [loop EXCEPT !.pc = p]
      BY <1>0, <2>4 DEF Loop
    <2> QED
      BY <2>1, <2>2, <2>3, <2>4
      DEF ScanNext, ScanStep, LoopStep, CheckNext, Send, Wait, Move, Request, Work, Return,
          AddFindings, Release, Leave, LoopPlaces, scan
  <1>4. test' \in [Tests -> TestPlaces]
    BY <1>0
    DEF ScanNext, ScanStep, LoopStep, CheckNext, Send, Spawn, Wait, Goto, StartScan, TakeResult,
        Request, Work, Return, AddFindings, Release, Leave, TestPlaces, scan
  <1>5. /\ found' \in [Tests -> Seq(Finding)]
        /\ proved' \subseteq Finding
    <2>1. ASSUME NEW t \in Tests, Return(t)
          PROVE  found' \in [Tests -> Seq(Finding)] /\ proved' \subseteq Finding
      <3>1. PICK fs \in Lists(t) :
              /\ found' = [found EXCEPT ![t] = fs]
              /\ proved' = proved \cup {fs[i] : i \in DOMAIN fs}
        BY <2>1 DEF Return
      <3>2. fs \in Seq(Finding) /\ \A i \in DOMAIN fs : fs[i] \in Finding
        BY ListsTyped
      <3>3. found' \in [Tests -> Seq(Finding)]
        BY <1>0, <3>1, <3>2
      <3>4. {fs[i] : i \in DOMAIN fs} \subseteq Finding
        BY <3>2
      <3> QED BY <1>0, <3>1, <3>3, <3>4
    <2>2. CASE (UNCHANGED found \/ found' = [t \in Tests |-> <<>>]) /\ UNCHANGED proved
      <3>1. <<>> \in Seq(Finding)
        OBVIOUS
      <3> QED BY <1>0, <2>2, <3>1
    <2> QED
      BY <2>1, <2>2
      DEF ScanNext, ScanStep, LoopStep, CheckNext, Send, Spawn, Wait, StartScan, TakeResult,
          Request, Work, AddFindings, Release, Leave, scan
  <1>6. findings' \in Seq(Finding)
    <2>1. ASSUME NEW t \in Tests, AddFindings(t) PROVE findings' \in Seq(Finding)
      BY <1>0, <2>1, Appended DEF AddFindings
    <2>2. <<>> \in Seq(Finding)
      OBVIOUS
    <2>3. CASE UNCHANGED findings \/ findings' = <<>>
      BY <1>0, <2>2, <2>3
    <2> QED
      BY <2>1, <2>3
      DEF ScanNext, ScanStep, LoopStep, CheckNext, Send, Spawn, Wait, StartScan, TakeResult,
          Request, Work, Return, Release, Leave, scan
  <1>7. count' \in 0..MaxRequests
    <2>1. 0 \in 0..MaxRequests /\ (count < MaxRequests => count + 1 \in 0..MaxRequests)
      BY <1>0, ScannerAssumption
    <2> QED
      BY <1>0, <2>1
      DEF ScanNext, ScanStep, LoopStep, CheckNext, Send, Spawn, Wait, StartScan, TakeResult,
          Request, Work, Return, AddFindings, Release, Leave, scan
  <1>8. result' \in [findings : Seq(Finding), requests : 0..MaxRequests]
    <2>1. NoResult \in [findings : Seq(Finding), requests : 0..MaxRequests]
      BY ScannerAssumption DEF NoResult
    <2>2. [findings |-> findings, requests |-> count]
             \in [findings : Seq(Finding), requests : 0..MaxRequests]
      BY <1>0
    <2> QED
      BY <1>0, <2>1, <2>2
      DEF ScanNext, ScanStep, LoopStep, CheckNext, Send, Spawn, Wait, StartScan, TakeResult,
          Request, Work, Return, AddFindings, Release, Leave, scan
  <1> QED BY <1>1, <1>2, <1>3, <1>4, <1>5, <1>6, <1>7, <1>8 DEF ScanTypeOK

LEMMA InitInv == Init => ScanInv /\ Coupled
  <1> SUFFICES ASSUME Init PROVE ScanInv /\ Coupled
    OBVIOUS
  <1>1. /\ loop = Idle /\ test = [t \in Tests |-> "none"] /\ found = [t \in Tests |-> <<>>]
        /\ slots = 0 /\ pending = 0 /\ findings = <<>> /\ count = 0 /\ result = NoResult
        /\ interrupted = FALSE /\ proved = {}
    BY DEF Init, ScanInit
  <1>2. ScanTypeOK
    <2>1. loop \in Loop
      BY <1>1, NumTestsNat DEF Idle, Loop, LoopPlaces
    <2>2. result \in [findings : Seq(Finding), requests : 0..MaxRequests]
      BY <1>1, ScannerAssumption DEF NoResult
    <2>3. findings \in Seq(Finding)
      BY <1>1
    <2>4. test \in [Tests -> TestPlaces] /\ found \in [Tests -> Seq(Finding)] /\ count \in 0..MaxRequests
      BY <1>1, <2>3, ScannerAssumption DEF TestPlaces
    <2> QED BY <1>1, <2>1, <2>2, <2>3, <2>4 DEF ScanTypeOK
  <1>3. Ordered
    BY <1>1 DEF Idle, Ordered, LoopAt
  <1>4. Running = {} /\ Counted = {}
    BY <1>1 DEF Idle, Running, Counted
  <1>5. SlotsCounted /\ PendingCounted
    BY <1>1, <1>4, FS_EmptySet, CapacityPositive DEF Idle, SlotsCounted, PendingCounted, LoopAt
  <1>6. Gathered /\ Returned
    <2>1. DOMAIN findings = {} /\ \A t \in Tests : test[t] = "none" /\ found[t] = <<>> /\ DOMAIN found[t] = {}
      BY <1>1
    <2> QED BY <1>1, <2>1 DEF Idle, Gathered, Returned, LoopAt
  <1>7. Coupled
    BY <1>1, AuditAssumption DEF Init, Idle, Coupled, At, LoopAt, Audit, Places
  <1> QED BY <1>2, <1>3, <1>5, <1>6, <1>7 DEF ScanInv

LEMMA InvStep == ScanInv /\ Coupled /\ [Next]_vars => ScanInv' /\ Coupled'
  <1> SUFFICES ASSUME ScanInv, Coupled, [Next]_vars PROVE ScanInv' /\ Coupled'
    OBVIOUS
  <1>1. ScanNext /\ Coupled'
    BY AuditSteps DEF ScanInv
  <1>2. SlotsCounted' /\ PendingCounted' /\ Ordered' /\ Gathered' /\ Returned'
    BY <1>1, SlotsStep, PendingStep, OrderedStep, GatheredStep, ReturnedStep DEF ScanInv
  <1>3. ScanTypeOK'
    BY <1>1, <1>2, TypeStep DEF ScanInv
  <1> QED BY <1>1, <1>2, <1>3 DEF ScanInv

(* The invariant the theorems below rest on: the variables of the scanner  *)
(* have their types, the semaphore and the wait group count what they are  *)
(* there to count, and findings are neither lost nor doubled on their way. *)
THEOREM ScanCorrect == Spec => [](ScanInv /\ Coupled)
  BY InitInv, InvStep, PTL DEF Spec

(* When Run returns, after a cancel too, no test is under way and the      *)
(* result has all that each test has found, once, whatever the order in    *)
(* which tests end.                                                        *)
THEOREM ResultCorrect == Spec => []ResultIsComplete
  <1>1. ScanInv => ResultIsComplete
    <2> SUFFICES ASSUME ScanInv, LoopAt("returned")
                 PROVE  /\ \A t \in Tests : test[t] \in {"none", "over"}
                        /\ result.requests = count
                        /\ \A t \in Tests : Whole(t, result.findings)
      BY DEF ResultIsComplete
    <2>1. \A t \in Tests : test[t] \in {"none", "over"}
      BY DEF ScanInv, Ordered
    <2>2. result.findings = findings /\ result.requests = count /\ findings \in Seq(Finding)
      BY DEF ScanInv, Returned, ScanTypeOK
    <2>3. ~LoopAt("idle")
      BY DEF LoopAt
    <2>4. ASSUME NEW t \in Tests PROVE Whole(t, findings)
      <3>1. CASE test[t] = "none"
        <4>1. found[t] = <<>> /\ \A i \in DOMAIN findings : findings[i].test # t
          BY <2>3, <3>1 DEF ScanInv, Gathered
        <4> QED BY <2>2, <4>1, WholeEmpty
      <3>2. CASE test[t] = "over"
        BY <3>2 DEF ScanInv, Gathered
      <3> QED BY <2>1, <3>1, <3>2
    <2> QED BY <2>1, <2>2, <2>4
  <1> QED BY <1>1, ScanCorrect, PTL

(* An audit that is over has left no test behind, for any number of tests  *)
(* and turns, with a cancel at any point.                                  *)
THEOREM QuietCorrect == Spec => []QuietWhenOver
  <1>1. ScanInv /\ Coupled => QuietWhenOver
    BY DEF ScanInv, Ordered, Coupled, At, QuietWhenOver
  <1> QED BY <1>1, ScanCorrect, PTL

-----------------------------------------------------------------------------
(* A report tells a set of findings when it has an entry for each key among  *)
(* them, with the highest severity, and no other.                            *)
Tells(entries, F) ==
    /\ \A f \in F : \E i \in DOMAIN entries : SameKey(entries[i], f) /\ entries[i].severity >= f.severity
    /\ \A i \in DOMAIN entries : entries[i] \in F
    /\ \A i, j \in DOMAIN entries : SameKey(entries[i], entries[j]) => i = j

(* Merging keeps the report true to what it has seen.                      *)
LEMMA MergeTells ==
    ASSUME NEW m \in Seq(Finding), NEW F \in SUBSET Finding, NEW f \in Finding, Tells(m, F)
    PROVE  Merge(m, f) \in Seq(Finding) /\ Tells(Merge(m, f), F \cup {f})
  <1> USE FindingAssumption
  <1> DEFINE seen == {i \in DOMAIN m : SameKey(m[i], f)}
             idx == CHOOSE i \in seen : TRUE
  <1>0. /\ DOMAIN m = 1..Len(m) /\ Len(m) \in Nat /\ \A i \in DOMAIN m : m[i] \in Finding /\ m[i] \in F
    BY LenProperties, ElementOfSeq DEF Tells
  <1>1. CASE seen # {}
    <2> DEFINE r == IF f.severity > m[idx].severity THEN [m EXCEPT ![idx] = f] ELSE m
    <2>1. Merge(m, f) = r
      BY <1>1 DEF Merge
    <2>2. idx \in DOMAIN m /\ SameKey(m[idx], f)
      BY <1>1
    <2> HIDE DEF idx
    <2>3. DOMAIN r = DOMAIN m /\ \A i \in DOMAIN m : r[i] = IF i = idx /\ f.severity > m[i].severity THEN f ELSE m[i]
      <3>1. CASE f.severity > m[idx].severity
        <4>1. r = [m EXCEPT ![idx] = f]
          BY <3>1
        <4> QED BY <2>2, <3>1, <4>1
      <3>2. CASE ~(f.severity > m[idx].severity)
        <4>1. r = m
          BY <3>2
        <4> QED BY <2>2, <3>2, <4>1
      <3> QED BY <3>1, <3>2
    <2>5. r \in Seq(Finding)
      <3>1. m \in [1..Len(m) -> Finding]
        BY <1>0, LenProperties
      <3>2. [m EXCEPT ![idx] = f] \in [1..Len(m) -> Finding]
        BY <3>1
      <3>3. r \in [1..Len(m) -> Finding]
        BY <3>1, <3>2
      <3> QED BY <1>0, <3>3, SeqDef
    <2> HIDE DEF r
    <2>4. \A i \in DOMAIN m : SameKey(r[i], m[i]) /\ r[i].severity >= m[i].severity
      <3>1. SUFFICES ASSUME NEW i \in DOMAIN m PROVE SameKey(r[i], m[i]) /\ r[i].severity >= m[i].severity
        OBVIOUS
      <3>2. m[i].severity \in Nat /\ f.severity \in Nat
        BY <1>0
      <3>3. CASE i = idx /\ f.severity > m[i].severity
        BY <2>2, <2>3, <3>2, <3>3 DEF SameKey
      <3>4. CASE ~(i = idx /\ f.severity > m[i].severity)
        BY <2>3, <3>2, <3>4 DEF SameKey
      <3> QED BY <3>3, <3>4
    <2>6. \A g \in F : \E i \in DOMAIN r : SameKey(r[i], g) /\ r[i].severity >= g.severity
      <3>1. SUFFICES ASSUME NEW g \in F PROVE \E i \in DOMAIN r : SameKey(r[i], g) /\ r[i].severity >= g.severity
        OBVIOUS
      <3>2. PICK i \in DOMAIN m : SameKey(m[i], g) /\ m[i].severity >= g.severity
        BY DEF Tells
      <3>3. r[i].severity \in Nat /\ m[i].severity \in Nat /\ g.severity \in Nat
        BY <1>0, <2>3
      <3>4. r[i].severity >= g.severity
        BY <2>4, <3>2, <3>3
      <3>5. SameKey(r[i], g)
        BY <2>4, <3>2 DEF SameKey
      <3> QED BY <2>3, <3>2, <3>4, <3>5
    <2>7. \A i \in DOMAIN r : r[i] \in F \cup {f}
      BY <1>0, <2>3
    <2>8. \A i, j \in DOMAIN r : SameKey(r[i], r[j]) => i = j
      <3>1. SUFFICES ASSUME NEW i \in DOMAIN m, NEW j \in DOMAIN m, SameKey(r[i], r[j]) PROVE i = j
        BY <2>3
      <3>2. SameKey(m[i], m[j])
        BY <2>4, <3>1 DEF SameKey
      <3> QED BY <3>2 DEF Tells
    <2>9. SameKey(r[idx], f) /\ r[idx].severity >= f.severity
      <3>1. m[idx].severity \in Nat /\ f.severity \in Nat
        BY <1>0, <2>2
      <3>2. SameKey(r[idx], f)
        BY <2>2, <2>4 DEF SameKey
      <3> QED BY <2>2, <2>3, <3>1, <3>2
    <2>10. \A g \in F \cup {f} : \E i \in DOMAIN r : SameKey(r[i], g) /\ r[i].severity >= g.severity
      BY <2>2, <2>3, <2>6, <2>9
    <2> QED BY <2>1, <2>5, <2>7, <2>8, <2>10 DEF Tells
  <1>2. CASE seen = {}
    <2>1. Merge(m, f) = Append(m, f)
      BY <1>2 DEF Merge
    <2>2. /\ Append(m, f) \in Seq(Finding) /\ DOMAIN Append(m, f) = 1..(Len(m) + 1)
          /\ \A i \in DOMAIN m : Append(m, f)[i] = m[i]
          /\ Append(m, f)[Len(m) + 1] = f
      BY <1>0
    <2>3. DOMAIN Append(m, f) = DOMAIN m \cup {Len(m) + 1}
      BY <1>0, <2>2
    <2>4. SameKey(f, f) /\ f.severity >= f.severity
      BY DEF SameKey
    <2>5. \A i \in DOMAIN m : ~SameKey(m[i], f) /\ ~SameKey(f, m[i])
      BY <1>2 DEF SameKey
    <2> QED BY <2>1, <2>2, <2>3, <2>4, <2>5 DEF Tells
  <1> QED BY <1>1, <1>2

(* consolidate tells what its scans hold.                                  *)
LEMMA ConsolidateTells ==
    ASSUME NEW results \in Seq(Seq(Finding))
    PROVE  consolidate(results) \in Seq(Finding) /\ Tells(consolidate(results), Range(FlattenSeq(results)))
  <1> DEFINE all == FlattenSeq(results)
             n == Len(all)
             Eq(g) == g = [k \in 0..n |-> IF k = 0 THEN <<>> ELSE Merge(g[k - 1], all[k])]
             merged == CHOOSE g : Eq(g)
             Seen(k) == {all[i] : i \in 1..k}
             T == {k \in Nat : k <= n => merged[k] \in Seq(Finding) /\ Tells(merged[k], Seen(k))}
  <1>1. all \in Seq(Finding)
    BY Flattened
  <1>2. n \in Nat /\ \A k \in 1..n : all[k] \in Finding
    BY <1>1, LenProperties, ElementOfSeq
  <1>3. \A m \in Seq(Finding), f \in Finding : Merge(m, f) \in Seq(Finding)
    <2>1. SUFFICES ASSUME NEW m \in Seq(Finding), NEW f \in Finding PROVE Merge(m, f) \in Seq(Finding)
      OBVIOUS
    <2>2. m \in [1..Len(m) -> Finding] /\ Len(m) \in Nat /\ DOMAIN m = 1..Len(m)
      BY LenProperties
    <2>3. [i \in DOMAIN m |-> IF m[i].test = f.test /\ f.severity > m[i].severity THEN f ELSE m[i]] \in [1..Len(m) -> Finding]
      BY <2>2
    <2>4. Append(m, f) \in Seq(Finding)
      OBVIOUS
    <2> QED BY <2>2, <2>3, <2>4 DEF Merge
  <1>4. \E g : Eq(g)
    <2> DEFINE V == Seq(Finding)
               base == <<>>
               step == [p \in V \X (1..n) |-> Merge(p[1], all[p[2]])]
    <2>1. base \in V
      OBVIOUS
    <2>2. step \in [V \X (1..n) -> V]
      BY <1>2, <1>3
    <2>3. \A v \in V, k \in 1..n : step[<<v, k>>] = Merge(v, all[k])
      OBVIOUS
    <2> HIDE DEF base, step, V, n
    <2>4. PICK h : Solution(h, V, n, base, step)
      BY <1>2, <2>1, <2>2, Recursion
    <2>5. \A k \in 1..n : k - 1 \in 0..n /\ k # 0
      BY <1>2
    <2>6. h = [k \in 0..n |-> IF k = 0 THEN base ELSE Merge(h[k - 1], all[k])]
      <3>1. DOMAIN h = 0..n /\ h[0] = base
        BY <2>4 DEF Solution
      <3>2. \A k \in 1..n : h[k] = Merge(h[k - 1], all[k])
        BY <2>3, <2>4, <2>5 DEF Solution
      <3>3. \A k \in 0..n : k # 0 => k \in 1..n
        BY <1>2
      <3>4. h = [k \in 0..n |-> h[k]]
        BY <2>4 DEF Solution
      <3>5. \A k \in 0..n : h[k] = IF k = 0 THEN base ELSE Merge(h[k - 1], all[k])
        BY <3>1, <3>2, <3>3
      <3>6. [k \in 0..n |-> h[k]] = [k \in 0..n |-> IF k = 0 THEN base ELSE Merge(h[k - 1], all[k])]
        BY <3>5, Zenon
      <3> QED BY <3>4, <3>6, Zenon
    <2> QED BY <2>6 DEF base
  <1>5. Eq(merged)
    BY <1>4
  <1>6. consolidate(results) = merged[n]
    BY DEF consolidate
  <1> HIDE DEF merged, all
  <1>7. 0 \in T
    <2>1. merged[0] = <<>> /\ <<>> \in Seq(Finding) /\ Seen(0) = {}
      BY <1>2, <1>5
    <2>2. Tells(merged[0], Seen(0))
      BY <2>1 DEF Tells
    <2> HIDE DEF Seen
    <2> QED BY <2>1, <2>2
  <1>8. ASSUME NEW k \in Nat, k \in T PROVE k + 1 \in T
    <2>1. SUFFICES ASSUME k + 1 <= n PROVE merged[k + 1] \in Seq(Finding) /\ Tells(merged[k + 1], Seen(k + 1))
      OBVIOUS
    <2>2. k + 1 \in 0..n /\ k + 1 \in 1..n /\ k + 1 # 0 /\ (k + 1) - 1 = k
      BY <1>2, <2>1
    <2>3. merged[k + 1] = Merge(merged[k], all[k + 1])
      BY <1>5, <2>2
    <2>4. merged[k] \in Seq(Finding) /\ Tells(merged[k], Seen(k))
      BY <1>2, <1>8, <2>1
    <2>5. Seen(k) \in SUBSET Finding /\ all[k + 1] \in Finding
      BY <1>2, <2>1, <2>2
    <2>6. Seen(k + 1) = Seen(k) \cup {all[k + 1]}
      <3>1. 1..(k + 1) = (1..k) \cup {k + 1}
        OBVIOUS
      <3> QED BY <3>1
    <2> HIDE DEF Seen
    <2> QED BY <2>3, <2>4, <2>5, <2>6, MergeTells
  <1>9. n \in T
    <2>1. Nat \subseteq T
      <3> HIDE DEF T
      <3> QED BY <1>7, <1>8, Numbers
    <2> HIDE DEF T
    <2> QED BY <1>2, <2>1
  <1>10. n <= n
    BY <1>2
  <1>11. Seen(n) = Range(all)
    BY <1>1, RangeEquality
  <1> QED BY <1>6, <1>9, <1>10, <1>11 DEF all

(* Every finding is in a scan that the audit has taken, or the scan under  *)
(* way still has it; and the audit knows no other.                         *)
Listed == UNION {Range(scans[i]) : i \in 1..Len(scans)}
UnderWay == UNION {Range(found[t]) : t \in Tests}

Kept ==
    /\ scans \in Seq(Seq(Finding))
    /\ proved \subseteq Listed \cup (IF LoopAt("idle") THEN {} ELSE UnderWay)
    /\ Listed \subseteq proved
    /\ UnderWay \subseteq proved
    /\ \A i \in DOMAIN findings : findings[i] \in proved

LEMMA InitKept == Init => Kept
  <1> SUFFICES ASSUME Init PROVE Kept
    OBVIOUS
  <1>1. /\ scans = <<>> /\ proved = {} /\ findings = <<>>
        /\ found = [t \in Tests |-> <<>>]
    BY DEF Init, ScanInit
  <1>2. scans \in Seq(Seq(Finding)) /\ Listed = {} /\ DOMAIN findings = {}
    BY <1>1 DEF Listed
  <1>3. UnderWay = {}
    BY <1>1 DEF UnderWay, Range
  <1> QED BY <1>1, <1>2, <1>3 DEF Kept

(* A step of a test or of the loop.                                        *)
LEMMA ScanStepKept ==
    ASSUME ScanInv, Coupled, Kept, ScanStep, UNCHANGED <<config, audit, scans>>
    PROVE  Kept'
  <1>0. /\ ~LoopAt("idle") /\ ~LoopAt("idle")' /\ ScanTypeOK /\ Gathered
        /\ findings \in Seq(Finding) /\ found \in [Tests -> Seq(Finding)] /\ loop \in Loop
    BY ScanStepInside DEF ScanInv, ScanTypeOK
  <1>1. Listed' = Listed
    BY DEF Listed
  <1>2. SUFFICES /\ proved' \subseteq Listed \cup UnderWay' /\ Listed \subseteq proved'
                 /\ UnderWay' \subseteq proved' /\ \A i \in DOMAIN findings' : findings'[i] \in proved'
    BY <1>0, <1>1 DEF Kept
  <1>3. ASSUME NEW t \in Tests, Return(t)
        PROVE  /\ proved' \subseteq Listed \cup UnderWay' /\ Listed \subseteq proved'
               /\ UnderWay' \subseteq proved' /\ \A i \in DOMAIN findings' : findings'[i] \in proved'
    <2>1. PICK fs \in Lists(t) : found' = [found EXCEPT ![t] = fs] /\ proved' = proved \cup Range(fs)
      BY <1>3 DEF Return, Range
    <2>2. found[t] = <<>> /\ findings' = findings
      BY <1>0, <1>3 DEF Return, Gathered
    <2>3. UnderWay' = UnderWay \cup Range(fs)
      <3>1. found'[t] = fs /\ (\A u \in Tests : u # t => found'[u] = found[u]) /\ Range(found[t]) = {}
        BY <1>0, <2>1, <2>2 DEF Range
      <3> QED BY <3>1 DEF UnderWay
    <2> QED BY <1>0, <2>1, <2>2, <2>3 DEF Kept
  <1>4. ASSUME NEW t \in Tests, AddFindings(t)
        PROVE  /\ proved' \subseteq Listed \cup UnderWay' /\ Listed \subseteq proved'
               /\ UnderWay' \subseteq proved' /\ \A i \in DOMAIN findings' : findings'[i] \in proved'
    <2>1. found' = found /\ proved' = proved /\ findings' = findings \o found[t] /\ found[t] \in Seq(Finding)
      BY <1>0, <1>4 DEF AddFindings
    <2>2. UnderWay' = UnderWay /\ \A i \in DOMAIN found[t] : found[t][i] \in proved
      BY <2>1 DEF UnderWay, Kept, Range
    <2>3. ASSUME NEW i \in DOMAIN (findings \o found[t]) PROVE (findings \o found[t])[i] \in proved
      <3>1. CASE i \in DOMAIN findings
        BY <1>0, <2>1, <3>1, Appended DEF Kept
      <3>2. CASE i \notin DOMAIN findings
        <4>1. i - Len(findings) \in DOMAIN found[t] /\ i = Len(findings) + (i - Len(findings))
          BY <1>0, <2>1, <3>2, Appended
        <4>2. (findings \o found[t])[i] = found[t][i - Len(findings)]
          BY <1>0, <2>1, <4>1, Appended
        <4> QED BY <2>2, <4>1, <4>2
      <3> QED BY <3>1, <3>2
    <2> QED BY <1>0, <2>1, <2>2, <2>3 DEF Kept
  <1>5. CASE UNCHANGED <<found, findings, proved>>
    <2>1. UnderWay' = UnderWay
      BY <1>5 DEF UnderWay
    <2> QED BY <1>0, <1>5, <2>1 DEF Kept
  <1> QED
    BY <1>3, <1>4, <1>5
    DEF ScanStep, LoopStep, CheckNext, Send, Spawn, Wait, Request, Work, Release, Leave

(* The audit takes the result of a scan: all the tests of it are over, so  *)
(* what they found is in the list.                                         *)
LEMMA TakeKept ==
    ASSUME ScanInv, Kept, LoopAt("returned"), TakeResult, scans' = Append(scans, result.findings)
    PROVE  Kept'
  <1>1. /\ ScanTypeOK /\ Gathered /\ result.findings = findings /\ findings \in Seq(Finding)
        /\ found \in [Tests -> Seq(Finding)] /\ scans \in Seq(Seq(Finding))
    BY DEF ScanInv, Returned, ScanTypeOK, Kept
  <1>2. /\ found' = [t \in Tests |-> <<>>] /\ findings' = <<>> /\ proved' = proved /\ LoopAt("idle")'
        /\ scans' = Append(scans, findings)
    BY <1>1 DEF TakeResult, Idle, LoopAt
  <1>3. scans' \in Seq(Seq(Finding))
    BY <1>1, <1>2
  <1>4. Listed' = Listed \cup Range(findings)
    <2>1. /\ Len(scans') = Len(scans) + 1 /\ Len(scans) \in Nat /\ scans'[Len(scans) + 1] = findings
          /\ \A i \in 1..Len(scans) : scans'[i] = scans[i]
      BY <1>1, <1>2
    <2>2. 1..Len(scans') = (1..Len(scans)) \cup {Len(scans) + 1}
      BY <2>1
    <2> QED BY <2>1, <2>2 DEF Listed
  <1>5. UnderWay \subseteq Range(findings)
    <2>1. SUFFICES ASSUME NEW t \in Tests, NEW i \in DOMAIN found[t]
                   PROVE  found[t][i] \in Range(findings)
      BY DEF UnderWay, Range
    <2>2. ~LoopAt("idle") /\ test[t] \in {"none", "over"} /\ found[t] # <<>>
      BY DEF ScanInv, Ordered, LoopAt
    <2>3. Whole(t, findings)
      BY <1>1, <2>2 DEF Gathered
    <2>4. PICK k \in 0..Len(findings) :
             /\ {n \in DOMAIN findings : findings[n].test = t} = (k + 1)..(k + Len(found[t]))
             /\ \A n \in DOMAIN found[t] : findings[k + n] = found[t][n]
      BY <2>3 DEF Whole
    <2>5. k + i \in (k + 1)..(k + Len(found[t]))
      <3>1. found[t] \in Seq(Finding) /\ Len(findings) \in Nat
        BY <1>1
      <3>2. i \in 1..Len(found[t]) /\ Len(found[t]) \in Nat /\ k \in Nat
        BY <3>1
      <3> QED BY <3>2
    <2>6. k + i \in DOMAIN findings
      BY <2>4, <2>5
    <2> QED BY <2>4, <2>6 DEF Range
  <1>6. Range(findings) \subseteq proved
    BY DEF Kept, Range
  <1>7. UnderWay' = {} /\ DOMAIN findings' = {}
    BY <1>2 DEF UnderWay, Range
  <1>8. ~LoopAt("idle")
    BY DEF LoopAt
  <1> QED BY <1>2, <1>3, <1>4, <1>5, <1>6, <1>7, <1>8 DEF Kept

LEMMA KeptStep == ScanInv /\ Coupled /\ Kept /\ [Next]_vars => Kept'
  <1> SUFFICES ASSUME ScanInv, Coupled, Kept, [Next]_vars PROVE Kept'
    OBVIOUS
  <1>1. CASE ScanStep /\ UNCHANGED <<config, audit, scans>>
    BY <1>1, ScanStepKept
  <1>2. CASE BaselineDone \/ ScanCallDone
    BY <1>2, TakeKept DEF BaselineDone, ScanCallDone
  <1>3. ASSUME NEW m \in Nat, StartScan(m), LoopAt("idle"), UNCHANGED scans PROVE Kept'
    <2>1. found' = [t \in Tests |-> <<>>] /\ findings' = <<>> /\ proved' = proved /\ Listed' = Listed
      BY <1>3 DEF StartScan, Listed
    <2>2. UnderWay' = {} /\ DOMAIN findings' = {}
      BY <2>1 DEF UnderWay, Range
    <2> QED BY <1>3, <2>1, <2>2 DEF Kept
  <1>4. CASE UNCHANGED <<loop, found, findings, proved, scans>>
    <2>1. Listed' = Listed /\ UnderWay' = UnderWay /\ LoopAt("idle")' = LoopAt("idle")
      BY <1>4 DEF Listed, UnderWay, LoopAt
    <2> QED BY <1>4, <2>1 DEF Kept
  <1>5. CASE Begin
    <2>1. LoopAt("idle") /\ NumTests \in Nat
      BY <1>5, NumTestsNat DEF Begin, Coupled, At
    <2> QED BY <1>3, <1>4, <1>5, <2>1 DEF Begin, scan
  <1>6. CASE ScanCall
    <2>1. LoopAt("idle") /\ Tests \subseteq Nat
      BY <1>6, NumTestsNat DEF ScanCall, Coupled, At, Tests
    <2> QED BY <1>3, <1>6, <2>1 DEF ScanCall
  <1>7. CASE \/ ModelError \/ Conclude \/ NoChoices \/ ToolCalls \/ TurnCap \/ OtherCall
             \/ Interrupt \/ UNCHANGED vars
    BY <1>4, <1>7
    DEF ModelError, Conclude, NoChoices, ToolCalls, TurnCap, OtherCall, Interrupt, vars, scan
  <1> QED
    BY <1>1, <1>2, <1>5, <1>6, <1>7 DEF Next, AuditStep

THEOREM AuditInductive == Spec => [](ScanInv /\ Coupled /\ Kept)
  <1>1. Init => ScanInv /\ Coupled /\ Kept
    BY InitInv, InitKept
  <1>2. ScanInv /\ Coupled /\ Kept /\ [Next]_vars => (ScanInv /\ Coupled /\ Kept)'
    BY InvStep, KeptStep
  <1> QED BY <1>1, <1>2, PTL DEF Spec

(* Of all that was ever found the report of an audit has each key once,    *)
(* with the highest severity found, and nothing else.                      *)
THEOREM ReportCorrect == Spec => []ConfirmedAreReported
  <1>1. Coupled /\ Kept => ConfirmedAreReported
    <2> SUFFICES ASSUME Coupled, Kept, At("done") PROVE ConfirmedAreReported
      BY DEF ConfirmedAreReported
    <2>1. LoopAt("idle")
      BY DEF Coupled, At
    <2>2. proved = Listed /\ scans \in Seq(Seq(Finding))
      BY <2>1 DEF Kept
    <2>3. Range(FlattenSeq(scans)) = Listed
      BY <2>2, Flattened DEF Listed
    <2>4. Tells(FinalReport, proved)
      BY <2>2, <2>3, ConsolidateTells DEF FinalReport
    <2> QED BY <2>4 DEF Tells, ConfirmedAreReported
  <1> QED BY <1>1, AuditInductive, PTL

ConfigOK == config \in [sast : BOOLEAN, tools : BOOLEAN, auto : BOOLEAN]

LEMMA ConfigType == Spec => []ConfigOK
  <1>1. Init => ConfigOK
    BY DEF Init, ConfigOK
  <1>2. [Next]_vars => config' = config
    BY DEF Next, AuditStep, Begin, BaselineDone, ModelError, NoChoices, Conclude, ToolCalls, ScanCall,
           ScanCallDone, OtherCall, TurnCap, Interrupt, vars
  <1>3. ConfigOK /\ [Next]_vars => ConfigOK'
    BY <1>2 DEF ConfigOK
  <1> QED BY <1>1, <1>3, PTL DEF Spec

(* Every variable of the audit and of its scans has its type.              *)
THEOREM TypeCorrect == Spec => []TypeOK
  <1>1. ScanInv /\ Coupled /\ Kept /\ ConfigOK => TypeOK
    BY DEF ScanInv, Coupled, Kept, ConfigOK, TypeOK
  <1> QED BY <1>1, AuditInductive, ConfigType, PTL

-----------------------------------------------------------------------------
LEMMA PoolCardinality == Pool!Cardinality(Running) = Cardinality(Running)
  BY DEF Pool!Cardinality, Cardinality

Waiting == IF LoopAt("blocked") THEN <<loop.next>> ELSE <<>>

(* The scanner implements BoundedPool: a send is an arrival, a receive a   *)
(* departure, and nothing else changes who runs and who waits.             *)
LEMMA PoolStep == ScanInv /\ Coupled /\ [Next]_vars => [Pool!Next]_(Pool!pool)
  <1> SUFFICES ASSUME ScanInv, ScanNext
               PROVE  Pool!Next \/ (Running' = Running /\ Waiting' = Waiting)
    BY AuditSteps DEF ScanInv, Pool!pool, Waiting
  <1>0. ScanTypeOK /\ Ordered /\ SlotsCounted
    BY DEF ScanInv
  <1>1. CASE Send
    <2>1. loop.next \in Tests \ Running /\ ~LoopAt("blocked")
      BY <1>0, <1>1, SendJoins
    <2>2. Append(<<>>, loop.next) = <<loop.next>> /\ \A i \in 1..Len(<<>>) : <<>>[i] # loop.next
      OBVIOUS
    <2>3. Pool!Arrive(loop.next)
      <3>1. CASE /\ Cardinality(Running) < Capacity
                 /\ Running' = Running \cup {loop.next}
                 /\ ~LoopAt("blocked")'
        BY <2>1, <2>2, <3>1, PoolCardinality DEF Pool!Arrive
      <3>2. CASE /\ Cardinality(Running) >= Capacity
                 /\ Running' = Running
                 /\ LoopAt("blocked")' /\ loop'.next = loop.next
        BY <2>1, <2>2, <3>2, PoolCardinality DEF Pool!Arrive
      <3> QED BY <1>0, <1>1, <3>1, <3>2, SendJoins
    <2> QED BY <2>1, <2>3 DEF Pool!Next
  <1>2. ASSUME NEW t \in Tests, Release(t) PROVE Pool!Next
    <2>1. t \in Running /\ Waiting' = <<>>
      BY <1>0, <1>2, ReleaseLeaves DEF Waiting
    <2>2. \/ Waiting = <<>> /\ Running' = Running \ {t}
          \/ Waiting = <<loop.next>> /\ Running' = (Running \ {t}) \cup {loop.next}
      BY <1>0, <1>2, ReleaseLeaves DEF Waiting
    <2>3. <<loop.next>> # <<>> /\ Head(<<loop.next>>) = loop.next /\ Tail(<<loop.next>>) = <<>>
      OBVIOUS
    <2>4. Pool!Leave(t)
      BY <2>1, <2>2, <2>3 DEF Pool!Leave, Waiting
    <2> QED BY <2>4 DEF Pool!Next
  <1>3. CASE ~Send /\ \A t \in Tests : ~Release(t)
    BY <1>0, <1>3, RunningKept DEF Waiting
  <1> QED BY <1>1, <1>2, <1>3

THEOREM PoolImplemented == Spec => ImplementsBoundedPool
  <1>1. Init => Pool!Init
    BY DEF Init, ScanInit, Idle, LoopAt, Running, Pool!Init
  <1> QED
    BY <1>1, PoolStep, ScanCorrect, PTL DEF Spec, ImplementsBoundedPool, Pool!Spec
=============================================================================
