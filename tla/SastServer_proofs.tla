-------------------------- MODULE SastServer_proofs --------------------------
(***************************************************************************)
(* Proofs about SastServer, for any number of jobs, cancel requests, turns,*)
(* lost UPDATEs and restarts.                                              *)
(***************************************************************************)
EXTENDS SastServer, TLAPS

-----------------------------------------------------------------------------
(* Types *)

UsedType == [lost : 0..MaxLostWrites, disks : 0..MaxBadDisks, restarts : 0..MaxRestarts]

(* What the backstop leaves are artifacts, and one that is missing then is *)
(* blocked, could not be written, or is a base URL that nobody gave.       *)
LEMMA BackstopFills ==
    ASSUME NEW f \in Files, NEW hinted \in BOOLEAN, NEW bad \in SUBSET Artifacts,
           NEW g \in finalizeBackstop(f, hinted, bad)
    PROVE  /\ g \in Files
           /\ \A a \in Missing(g) :
                 g[a] = "blocked" \/ a \in bad \/ (a = "base_url" /\ ~hinted)
  <1>1. /\ g \in [openapi : {g.openapi}, report : {g.report}, base_url : {g.base_url}]
        /\ g.openapi \in IF f.openapi \in Empty
                         THEN Write(f.openapi, "valid", "openapi" \in bad) ELSE {f.openapi}
        /\ g.report \in IF f.report \in Empty
                        THEN Write(f.report, "written", "report" \in bad) ELSE {f.report}
        /\ g.base_url \in IF f.base_url \in Empty
                          THEN Write(f.base_url, IF hinted THEN "written" ELSE "empty",
                                     "base_url" \in bad)
                          ELSE {f.base_url}
    BY DEF finalizeBackstop, Missing, Artifacts
  <1>2. g \in Files
    BY <1>1 DEF Files, Write, Empty
  <1>3. "openapi" \in Missing(g) => g.openapi = "blocked" \/ "openapi" \in bad
    BY <1>1 DEF Missing, Write, Empty
  <1>4. "report" \in Missing(g) => g.report = "blocked" \/ "report" \in bad
    BY <1>1 DEF Missing, Write, Empty
  <1>5. "base_url" \in Missing(g) =>
          g.base_url = "blocked" \/ "base_url" \in bad \/ ~hinted
    BY <1>1 DEF Missing, Write, Empty
  <1> QED BY <1>2, <1>3, <1>4, <1>5 DEF Missing, Artifacts

(* What the backstop of a job does to the state.                           *)
LEMMA BackstopFrame ==
    ASSUME TypeOK, NEW j \in Jobs, Backstop(j)
    PROVE  /\ files' \in [Jobs -> Files] /\ loop' \in [Jobs -> Loop]
           /\ used' \in UsedType /\ used'.lost = used.lost
           /\ \A i \in Jobs \ {j} : files'[i] = files[i] /\ loop'[i] = loop[i]
           /\ \A a \in Missing(files'[j]) :
                 \/ files'[j][a] = "blocked" \/ a \in loop'[j].unwritten
                 \/ a = "base_url" /\ ~loop'[j].hinted
  <1>0. files[j] \in Files /\ loop[j] \in Loop
    BY DEF TypeOK
  <1>1. PICK bad \in SUBSET {a \in Missing(files[j]) : files[j][a] # "blocked"} :
           /\ \E g \in finalizeBackstop(files[j], loop[j].hinted, bad) :
                 files' = [files EXCEPT ![j] = g]
           /\ loop' = [loop EXCEPT ![j].unwritten = bad]
           /\ \/ bad = {} /\ UNCHANGED used
              \/ /\ bad # {} /\ used.disks < MaxBadDisks
                 /\ used' = [used EXCEPT !.disks = @ + 1]
    BY DEF Backstop
  <1>2. bad \in SUBSET Artifacts
    BY DEF Missing
  <1>3. PICK g \in finalizeBackstop(files[j], loop[j].hinted, bad) :
           files' = [files EXCEPT ![j] = g]
    BY <1>1
  <1>4. loop[j].hinted \in BOOLEAN
    BY <1>0 DEF Loop
  <1>5. /\ g \in Files
        /\ \A a \in Missing(g) :
              g[a] = "blocked" \/ a \in bad \/ (a = "base_url" /\ ~loop[j].hinted)
    BY <1>0, <1>2, <1>3, <1>4, BackstopFills
  <1>6. files' \in [Jobs -> Files] /\ files'[j] = g
        /\ \A i \in Jobs \ {j} : files'[i] = files[i]
    BY <1>3, <1>5 DEF TypeOK
  <1>7. [loop[j] EXCEPT !.unwritten = bad] \in Loop
    BY <1>0, <1>2 DEF Loop
  <1>8. /\ loop' \in [Jobs -> Loop]
        /\ \A i \in Jobs \ {j} : loop'[i] = loop[i]
        /\ loop'[j].unwritten = bad /\ loop'[j].hinted = loop[j].hinted
    BY <1>0, <1>1, <1>7 DEF TypeOK, Loop
  <1>9. used' \in UsedType /\ used'.lost = used.lost
    BY <1>1, BoundsAssumption DEF TypeOK, UsedType
  <1> QED BY <1>5, <1>6, <1>8, <1>9

LEMMA NewLoopType == NewLoop \in Loop
  BY TurnsAssumption DEF NewLoop, Loop, Terminal, Artifacts

LEMMA UpdateType ==
    ASSUME TypeOK, NEW j, NEW status \in Statuses, Update(j, status)
    PROVE  /\ row' \in [Jobs -> Statuses]
           /\ used' \in UsedType
  BY BoundsAssumption DEF TypeOK, Update, UsedType

LEMMA TypeStep == TypeOK /\ [Next]_vars => TypeOK'
  <1> SUFFICES ASSUME TypeOK, [Next]_vars PROVE TypeOK'
    OBVIOUS
  <1> USE DEF Places, UsedType
  <1>0. \A j \in Jobs : loop[j] \in Loop /\ files[j] \in Files
    BY DEF TypeOK
  <1>1. ASSUME NEW j \in Jobs, Create(j) PROVE TypeOK'
    <2>1. \A h \in BOOLEAN : [loop[j] EXCEPT !.hinted = h] \in Loop
      BY <1>0 DEF Loop
    <2> QED BY <1>1, <2>1 DEF Create, Goto, TypeOK, Statuses, Terminal
  <1>2. ASSUME NEW j \in Jobs, Track(j) PROVE TypeOK'
    BY <1>2 DEF Track, Goto, TypeOK
  <1>3. ASSUME NEW j \in Jobs, Begin(j) PROVE TypeOK'
    <2>1. /\ row' \in [Jobs -> Statuses]
          /\ used' \in UsedType
      BY <1>3, UpdateType DEF Begin, TypeOK, Statuses
    <2> QED BY <1>3, <2>1 DEF Begin, Goto, TypeOK
  <1>4. ASSUME NEW j \in Jobs, Download(j) PROVE TypeOK'
    BY <1>4 DEF Download, Goto, TypeOK
  <1>5. ASSUME NEW j \in Jobs, ResolveModel(j) PROVE TypeOK'
    BY <1>5 DEF ResolveModel, Goto, TypeOK
  <1>6. ASSUME NEW j \in Jobs, Interrupted(j) PROVE TypeOK'
    BY <1>6 DEF Interrupted, Goto, TypeOK
  <1>7. ASSUME NEW j \in Jobs, NoAnswer(j) PROVE TypeOK'
    <2>1. loop' \in [Jobs -> Loop] /\ files' \in [Jobs -> Files] /\ used' \in UsedType
      BY <1>7, BackstopFrame DEF NoAnswer, TypeOK
    <2> QED BY <1>7, <2>1 DEF NoAnswer, Goto, TypeOK
  <1>8. ASSUME NEW j \in Jobs, ToolCalls(j) PROVE TypeOK'
    <2>1. [loop[j] EXCEPT !.turn = @ + 1] \in Loop
      BY <1>0, <1>8, TurnsAssumption DEF ToolCalls, InTurn, Loop
    <2> QED BY <1>0, <1>8, <2>1 DEF ToolCalls, Overwritten, TypeOK
  <1>9. ASSUME NEW j \in Jobs, Conclude(j) PROVE TypeOK'
    <2>0. loop[j] \in Loop /\ loop[j].turn < MaxTurns
      BY <1>0, <1>9 DEF Conclude, InTurn
    <2>1. loop[j].turn + 1 \in 0..MaxTurns
      BY <2>0, TurnsAssumption DEF Loop
    <2>5. [loop[j] EXCEPT !.nudged = TRUE, !.turn = @ + 1] \in Loop
      BY <2>0, <2>1 DEF Loop
    <2>6. [loop[j] EXCEPT !.validateNudged = TRUE, !.turn = @ + 1] \in Loop
      BY <2>0, <2>1 DEF Loop
    <2>2. CASE Backstop(j)
      <3>1. loop' \in [Jobs -> Loop] /\ files' \in [Jobs -> Files] /\ used' \in UsedType
        BY <2>2, BackstopFrame
      <3> QED BY <1>9, <3>1 DEF Conclude, Goto, TypeOK
    <2>3. CASE UNCHANGED <<loop, files, used>>
      BY <1>9, <2>3 DEF Conclude, Goto, TypeOK
    <2>4. CASE /\ UNCHANGED <<files, used>>
               /\ \/ loop' = [loop EXCEPT ![j].nudged = TRUE, ![j].turn = @ + 1]
                  \/ loop' = [loop EXCEPT ![j].validateNudged = TRUE, ![j].turn = @ + 1]
      <3>1. loop' \in [Jobs -> Loop]
        BY <2>4, <2>5, <2>6 DEF TypeOK
      <3> QED BY <1>9, <2>4, <3>1 DEF Conclude, Goto, TypeOK
    <2> QED BY <1>9, <2>2, <2>3, <2>4 DEF Conclude
  <1>10. ASSUME NEW j \in Jobs, TurnCap(j) PROVE TypeOK'
    <2>1. loop' \in [Jobs -> Loop] /\ files' \in [Jobs -> Files] /\ used' \in UsedType
      BY <1>10, BackstopFrame DEF TurnCap, TypeOK
    <2> QED BY <1>10, <2>1 DEF TurnCap, Goto, TypeOK
  <1>11. ASSUME NEW j \in Jobs, Verify(j) PROVE TypeOK'
    BY <1>11 DEF Verify, Goto, TypeOK
  <1>12. ASSUME NEW j \in Jobs, UploadOpenapi(j) PROVE TypeOK'
    BY <1>12 DEF UploadOpenapi, Goto, TypeOK
  <1>13. ASSUME NEW j \in Jobs, UploadReport(j) PROVE TypeOK'
    <2>1. [loop[j] EXCEPT !.end = "done"] \in Loop
      BY <1>0 DEF Loop, Terminal
    <2> QED BY <1>13, <2>1 DEF UploadReport, Goto, TypeOK
  <1>14. ASSUME NEW j \in Jobs, Fail(j) PROVE TypeOK'
    <2>1. [loop[j] EXCEPT !.end = IF j \in interrupted THEN "canceled" ELSE "failed"] \in Loop
      BY <1>0 DEF Loop, Terminal
    <2> QED BY <1>14, <2>1 DEF Fail, Goto, TypeOK
  <1>15. ASSUME NEW j \in Jobs, RecordEnd(j) PROVE TypeOK'
    <2>1. loop[j].end \in Statuses
      BY <1>0 DEF Loop, Statuses
    <2>2. /\ row' \in [Jobs -> Statuses]
          /\ used' \in UsedType
      BY <1>15, <2>1, UpdateType DEF RecordEnd
    <2> QED BY <1>15, <2>2 DEF RecordEnd, Goto, TypeOK
  <1>16. ASSUME NEW j \in Jobs, Remove(j) PROVE TypeOK'
    BY <1>16, NewLoopType DEF Remove, Goto, TypeOK, NoFiles, Files, Empty
  <1>17. ASSUME NEW c \in Cancels, NEW j \in Jobs, CancelRequest(c, j) PROVE TypeOK'
    BY <1>17 DEF CancelRequest, TypeOK, Canceler
  <1>18. ASSUME NEW c \in Cancels, CancelSignal(c) PROVE TypeOK'
    <2>1. [canceler[c] EXCEPT !.pc = "mark"] \in Canceler
      BY DEF TypeOK, Canceler
    <2> QED BY <1>18, <2>1 DEF CancelSignal, TypeOK
  <1>19. ASSUME NEW c \in Cancels, CancelMark(c) PROVE TypeOK'
    <2>1. /\ row' \in [Jobs -> Statuses]
          /\ used' \in UsedType
      BY <1>19, UpdateType DEF CancelMark, Statuses, Terminal
    <2> QED BY <1>19, <2>1 DEF CancelMark, TypeOK, Canceler
  <1>20. CASE Restart
    BY <1>20, NewLoopType, BoundsAssumption DEF Restart, TypeOK, Canceler, NoFiles, Files, Empty
  <1>21. CASE UNCHANGED vars
    BY <1>21 DEF vars, TypeOK
  <1> QED
    BY <1>1, <1>2, <1>3, <1>4, <1>5, <1>6, <1>7, <1>8, <1>9, <1>10, <1>11,
       <1>12, <1>13, <1>14, <1>15, <1>16, <1>17, <1>18, <1>19, <1>20, <1>21
    DEF Next, JobStep, CancelStep

(* TypeOK of SastServer: no step of a job, a cancel request or a restart   *)
(* leaves a value outside its type.                                        *)
THEOREM TypeCorrect == Spec => []TypeOK
  <1>1. Init => TypeOK
    BY NewLoopType, BoundsAssumption
    DEF Init, TypeOK, Statuses, Places, Files, NoFiles, Empty, Canceler
  <1>2. QED BY <1>1, TypeStep, PTL DEF Spec

-----------------------------------------------------------------------------
(* The artifacts *)

\* What the gate saw is what is uploaded.
GateHolds == \A j \in Jobs : At(j, "upload_openapi") => files[j].openapi = "valid"

\* The report is uploaded after the document, and done is recorded after both.
UploadOrder ==
    \A j \in Jobs :
       /\ At(j, "upload_report") => bucket.openapi # None
       /\ At(j, "record") /\ loop[j].end = "done" =>
             bucket.openapi # None /\ bucket.report # None

ArtifactInv ==
    /\ OutputGuaranteed /\ GateHolds /\ UploadedIsValid /\ UploadOrder /\ DoneIsDelivered

\* What OutputGuaranteed says of the job j.
Accounted(j) ==
    \A a \in Missing(files[j]) :
       \/ files[j][a] = "blocked" \/ a \in loop[j].unwritten
       \/ a = "base_url" /\ ~loop[j].hinted

(* A step that takes one job to "verify" with its artifacts accounted for. *)
LEMMA ToVerify ==
    ASSUME ArtifactInv, NEW j \in Jobs, Accounted(j)', UNCHANGED <<row, bucket>>,
           pc'[j] = "verify",
           \A i \in Jobs \ {j} : pc'[i] = pc[i] /\ files'[i] = files[i] /\ loop'[i] = loop[i]
    PROVE  ArtifactInv'
  BY DEF ArtifactInv, Accounted, OutputGuaranteed, GateHolds, UploadedIsValid,
         UploadOrder, DoneIsDelivered, At, Missing

(* A step that uploads nothing and brings no job to one of the places the  *)
(* invariant is about, except with what it says there.                     *)
LEMMA ArtifactQuiet ==
    ASSUME ArtifactInv, UNCHANGED bucket,
           \A j \in Jobs : \/ pc'[j] = pc[j] /\ files'[j] = files[j] /\ loop'[j] = loop[j]
                          \/ pc'[j] \notin {"verify", "upload_openapi", "upload_report", "record"},
           \A j \in Jobs : row'[j] = row[j] \/ row'[j] # "done"
    PROVE  ArtifactInv'
  BY DEF ArtifactInv, OutputGuaranteed, GateHolds, UploadedIsValid, UploadOrder,
         DoneIsDelivered, At

LEMMA ArtifactStep == ASSUME TypeOK, ArtifactInv, [Next]_vars PROVE ArtifactInv'
  <1> USE DEF At
  <1>0. \A j \in Jobs : files[j] \in Files /\ loop[j] \in Loop
    BY DEF TypeOK
  <1>1. ASSUME NEW j \in Jobs, Create(j) PROVE ArtifactInv'
    BY <1>1, ArtifactQuiet DEF Create, Goto, TypeOK
  <1>2. ASSUME NEW j \in Jobs, Track(j) PROVE ArtifactInv'
    BY <1>2, ArtifactQuiet DEF Track, Goto, TypeOK
  <1>3. ASSUME NEW j \in Jobs, Download(j) PROVE ArtifactInv'
    BY <1>3, ArtifactQuiet DEF Download, Goto, TypeOK
  <1>4. ASSUME NEW j \in Jobs, ResolveModel(j) PROVE ArtifactInv'
    BY <1>4, ArtifactQuiet DEF ResolveModel, Goto, TypeOK
  <1>5. ASSUME NEW j \in Jobs, Interrupted(j) PROVE ArtifactInv'
    BY <1>5, ArtifactQuiet DEF Interrupted, Goto, InTurn, TypeOK
  <1>6. ASSUME NEW j \in Jobs, ToolCalls(j) PROVE ArtifactInv'
    BY <1>6, ArtifactQuiet DEF ToolCalls, InTurn, TypeOK
  <1>7. ASSUME NEW j \in Jobs, Remove(j) PROVE ArtifactInv'
    BY <1>7, ArtifactQuiet DEF Remove, Goto, TypeOK
  <1>8. ASSUME NEW j \in Jobs, Begin(j) PROVE ArtifactInv'
    BY <1>8, ArtifactQuiet DEF Begin, Update, Goto, TypeOK
  <1>9. ASSUME NEW j \in Jobs, NoAnswer(j) PROVE ArtifactInv'
    <2>1. CASE loop[j].turn # 0
      <3>1. /\ Accounted(j)'
            /\ \A i \in Jobs \ {j} : files'[i] = files[i] /\ loop'[i] = loop[i]
        BY <1>9, <2>1, BackstopFrame DEF NoAnswer, Accounted
      <3>2. /\ \A i \in Jobs \ {j} : pc'[i] = pc[i]
            /\ pc'[j] = "verify" /\ UNCHANGED <<row, bucket>>
        BY <1>9, <2>1 DEF NoAnswer, Goto, TypeOK
      <3> QED BY <3>1, <3>2, ToVerify
    <2>2. CASE loop[j].turn = 0
      BY <1>9, <2>2, ArtifactQuiet DEF NoAnswer, Goto, TypeOK
    <2> QED BY <2>1, <2>2
  <1>10. ASSUME NEW j \in Jobs, TurnCap(j) PROVE ArtifactInv'
    <2>1. /\ Accounted(j)'
          /\ \A i \in Jobs \ {j} : files'[i] = files[i] /\ loop'[i] = loop[i]
      <3>1. CASE Backstop(j)
        BY <3>1, BackstopFrame DEF Accounted
      <3>2. CASE artifactsComplete(files[j]) /\ UNCHANGED <<loop, files, used>>
        BY <3>2 DEF artifactsComplete, Accounted
      <3> QED BY <1>10, <3>1, <3>2 DEF TurnCap
    <2>2. /\ \A i \in Jobs \ {j} : pc'[i] = pc[i]
          /\ pc'[j] = "verify" /\ UNCHANGED <<row, bucket>>
      BY <1>10 DEF TurnCap, Goto, TypeOK
    <2> QED BY <2>1, <2>2, ToVerify
  <1>11. ASSUME NEW j \in Jobs, Conclude(j) PROVE ArtifactInv'
    <2>0. UNCHANGED <<row, bucket>> /\ pc[j] = "turn"
      BY <1>11 DEF Conclude, InTurn
    <2>1. CASE Goto(j, "verify") /\ Backstop(j)
      <3>1. /\ Accounted(j)'
            /\ \A i \in Jobs \ {j} : files'[i] = files[i] /\ loop'[i] = loop[i]
        BY <2>1, BackstopFrame DEF Accounted
      <3>2. (\A i \in Jobs \ {j} : pc'[i] = pc[i]) /\ pc'[j] = "verify"
        BY <2>1 DEF Goto, TypeOK
      <3> QED BY <2>0, <3>1, <3>2, ToVerify
    <2>2. CASE /\ Goto(j, "verify") /\ artifactsComplete(files[j])
               /\ UNCHANGED <<loop, files, used>>
      <3>1. /\ Accounted(j)'
            /\ \A i \in Jobs \ {j} : files'[i] = files[i] /\ loop'[i] = loop[i]
        BY <2>2 DEF artifactsComplete, Accounted
      <3>2. (\A i \in Jobs \ {j} : pc'[i] = pc[i]) /\ pc'[j] = "verify"
        BY <2>2 DEF Goto, TypeOK
      <3> QED BY <2>0, <3>1, <3>2, ToVerify
    <2>3. CASE /\ UNCHANGED <<pc, files, used>>
               /\ \/ loop' = [loop EXCEPT ![j].nudged = TRUE, ![j].turn = @ + 1]
                  \/ loop' = [loop EXCEPT ![j].validateNudged = TRUE, ![j].turn = @ + 1]
      <3>1. \A i \in Jobs \ {j} : loop'[i] = loop[i]
        BY <2>3 DEF TypeOK
      <3> QED BY <2>0, <2>3, <3>1, ArtifactQuiet
    <2> QED BY <1>11, <2>1, <2>2, <2>3 DEF Conclude
  <1>12. ASSUME NEW j \in Jobs, Verify(j) PROVE ArtifactInv'
    <2>1. /\ UNCHANGED <<row, loop, files, bucket>>
          /\ \A i \in Jobs \ {j} : pc'[i] = pc[i]
          /\ pc'[j] = "fail" \/ (pc'[j] = "upload_openapi" /\ files[j].openapi = "valid")
      BY <1>12 DEF Verify, Goto, TypeOK
    <2> QED
      BY <2>1 DEF ArtifactInv, OutputGuaranteed, GateHolds, UploadedIsValid, UploadOrder,
                  DoneIsDelivered
  <1>13. ASSUME NEW j \in Jobs, UploadOpenapi(j) PROVE ArtifactInv'
    <2>1. CASE Goto(j, "fail") /\ UNCHANGED bucket
      BY <1>13, <2>1, ArtifactQuiet DEF UploadOpenapi, Goto, TypeOK
    <2>2. CASE /\ Goto(j, "upload_report")
               /\ bucket' = [bucket EXCEPT !.openapi = j, !.valid = files[j].openapi = "valid"]
      <3>1. /\ bucket'.openapi = j /\ bucket'.report = bucket.report
            /\ bucket'.valid = (files[j].openapi = "valid")
            /\ UNCHANGED <<row, loop, files>>
            /\ \A i \in Jobs \ {j} : pc'[i] = pc[i]
            /\ pc'[j] = "upload_report"
        BY <1>13, <2>2 DEF UploadOpenapi, Goto, TypeOK
      <3>2. files[j].openapi = "valid" /\ bucket'.openapi # None
        BY <1>13, <3>1, NoneAssumption DEF UploadOpenapi, ArtifactInv, GateHolds
      <3> QED
        BY <3>1, <3>2 DEF ArtifactInv, OutputGuaranteed, GateHolds, UploadedIsValid,
                          UploadOrder, DoneIsDelivered
    <2> QED BY <1>13, <2>1, <2>2 DEF UploadOpenapi
  <1>14. ASSUME NEW j \in Jobs, UploadReport(j) PROVE ArtifactInv'
    <2>1. /\ UNCHANGED <<row, files>> /\ pc[j] = "upload_report"
          /\ \A i \in Jobs \ {j} : pc'[i] = pc[i] /\ loop'[i] = loop[i]
          /\ bucket'.openapi = bucket.openapi /\ bucket'.valid = bucket.valid
          /\ \/ bucket'.report = bucket.report /\ pc'[j] = "fail"
             \/ bucket'.report = j /\ pc'[j] = "record"
      BY <1>14 DEF UploadReport, Goto, TypeOK
    <2>2. bucket.openapi # None /\ j # None
      BY <2>1, NoneAssumption DEF ArtifactInv, UploadOrder
    <2> QED
      BY <2>1, <2>2 DEF ArtifactInv, OutputGuaranteed, GateHolds, UploadedIsValid,
                        UploadOrder, DoneIsDelivered
  <1>15. ASSUME NEW j \in Jobs, Fail(j) PROVE ArtifactInv'
    <2>1. /\ UNCHANGED <<row, files, bucket>>
          /\ \A i \in Jobs \ {j} : pc'[i] = pc[i] /\ loop'[i] = loop[i]
          /\ pc'[j] = "record" /\ loop'[j].end # "done"
      BY <1>0, <1>15 DEF Fail, Goto, TypeOK, Loop
    <2> QED
      BY <2>1 DEF ArtifactInv, OutputGuaranteed, GateHolds, UploadedIsValid, UploadOrder,
                  DoneIsDelivered
  <1>16. ASSUME NEW j \in Jobs, RecordEnd(j) PROVE ArtifactInv'
    <2>1. /\ UNCHANGED <<files, loop, bucket>>
          /\ \A i \in Jobs \ {j} : pc'[i] = pc[i] /\ row'[i] = row[i]
          /\ pc[j] = "record" /\ pc'[j] = "remove"
          /\ row'[j] = row[j] \/ row'[j] = loop[j].end
      BY <1>16 DEF RecordEnd, Update, Goto, TypeOK
    <2> QED
      BY <2>1 DEF ArtifactInv, OutputGuaranteed, GateHolds, UploadedIsValid, UploadOrder,
                  DoneIsDelivered
  <1>17. ASSUME NEW c \in Cancels, NEW j \in Jobs, CancelRequest(c, j) PROVE ArtifactInv'
    BY <1>17, ArtifactQuiet DEF CancelRequest
  <1>18. ASSUME NEW c \in Cancels, CancelSignal(c) PROVE ArtifactInv'
    BY <1>18, ArtifactQuiet DEF CancelSignal
  <1>19. ASSUME NEW c \in Cancels, CancelMark(c) PROVE ArtifactInv'
    BY <1>19, ArtifactQuiet DEF CancelMark, Update, TypeOK
  <1>20. CASE Restart
    <2>1. UNCHANGED <<row, bucket>> /\ \A j \in Jobs : pc'[j] \in {"idle", "ended", "gone"}
      BY <1>20 DEF Restart
    <2> QED BY <2>1, ArtifactQuiet
  <1>21. CASE UNCHANGED vars
    BY <1>21, ArtifactQuiet DEF vars
  <1> QED
    BY <1>1, <1>2, <1>3, <1>4, <1>5, <1>6, <1>7, <1>8, <1>9, <1>10, <1>11,
       <1>12, <1>13, <1>14, <1>15, <1>16, <1>17, <1>18, <1>19, <1>20, <1>21
    DEF Next, JobStep, CancelStep

LEMMA ArtifactCorrect == Spec => []ArtifactInv
  <1>1. Init => ArtifactInv
    BY DEF Init, ArtifactInv, OutputGuaranteed, GateHolds, UploadedIsValid, UploadOrder,
           DoneIsDelivered, At
  <1>2. QED BY <1>1, ArtifactStep, TypeCorrect, PTL DEF Spec

(* UploadedIsValid of SastServer: no job ever uploads a document that the  *)
(* gate would refuse, for any number of jobs that share the bucket.        *)
THEOREM GateCorrect == Spec => []UploadedIsValid
  <1>1. ArtifactInv => UploadedIsValid
    BY DEF ArtifactInv
  <1>2. QED BY <1>1, ArtifactCorrect, PTL

(* OutputGuaranteed of SastServer: whatever the model answers in any turn, *)
(* and whatever its tools make of the artifacts, a loop that ends without  *)
(* an error misses one only when something is in its place, when it could  *)
(* not be written, or when it is the base URL and the request's was blank. *)
THEOREM OutputCorrect == Spec => []OutputGuaranteed
  <1>1. ArtifactInv => OutputGuaranteed
    BY DEF ArtifactInv
  <1>2. QED BY <1>1, ArtifactCorrect, PTL

(* DoneIsDelivered of SastServer: a row is done only with both objects in  *)
(* the bucket, with cancels, failures and restarts anywhere.               *)
THEOREM DeliveryCorrect == Spec => []DoneIsDelivered
  <1>1. ArtifactInv => DoneIsDelivered
    BY DEF ArtifactInv
  <1>2. QED BY <1>1, ArtifactCorrect, PTL

-----------------------------------------------------------------------------
(* The end of a job *)

\* A job that is past its last UPDATE shows an end, if no UPDATE was lost.
RecordInv ==
    used.lost = 0 =>
       \A j \in Jobs : pc[j] \in {"remove", "ended"} => row[j] \in Terminal

LEMMA RecordStep == ASSUME TypeOK, RecordInv, [Next]_vars PROVE RecordInv'
  <1> USE DEF At
  <1>0. used.lost \in Nat /\ \A j \in Jobs : loop[j].end \in Terminal
    BY BoundsAssumption DEF TypeOK, Loop
  <1>1. ASSUME NEW j \in Jobs, Create(j) PROVE RecordInv'
    BY <1>1 DEF Create, Goto, TypeOK, RecordInv
  <1>2. ASSUME NEW j \in Jobs, Track(j) PROVE RecordInv'
    BY <1>2 DEF Track, Goto, TypeOK, RecordInv
  <1>3. ASSUME NEW j \in Jobs, Download(j) PROVE RecordInv'
    BY <1>3 DEF Download, Goto, TypeOK, RecordInv
  <1>4. ASSUME NEW j \in Jobs, ResolveModel(j) PROVE RecordInv'
    BY <1>4 DEF ResolveModel, Goto, TypeOK, RecordInv
  <1>5. ASSUME NEW j \in Jobs, Interrupted(j) PROVE RecordInv'
    BY <1>5 DEF Interrupted, Goto, TypeOK, RecordInv
  <1>6. ASSUME NEW j \in Jobs, NoAnswer(j) PROVE RecordInv'
    <2>1. used'.lost = used.lost
      BY <1>6, BackstopFrame DEF NoAnswer
    <2> QED BY <1>6, <2>1 DEF NoAnswer, Goto, TypeOK, RecordInv
  <1>7. ASSUME NEW j \in Jobs, ToolCalls(j) PROVE RecordInv'
    BY <1>7 DEF ToolCalls, TypeOK, RecordInv
  <1>8. ASSUME NEW j \in Jobs, Conclude(j) PROVE RecordInv'
    <2>1. used'.lost = used.lost
      BY <1>8, BackstopFrame DEF Conclude
    <2> QED BY <1>8, <2>1 DEF Conclude, Goto, TypeOK, RecordInv
  <1>9. ASSUME NEW j \in Jobs, TurnCap(j) PROVE RecordInv'
    <2>1. used'.lost = used.lost
      BY <1>9, BackstopFrame DEF TurnCap
    <2> QED BY <1>9, <2>1 DEF TurnCap, Goto, TypeOK, RecordInv
  <1>10. ASSUME NEW j \in Jobs, Verify(j) PROVE RecordInv'
    BY <1>10 DEF Verify, Goto, TypeOK, RecordInv
  <1>11. ASSUME NEW j \in Jobs, UploadOpenapi(j) PROVE RecordInv'
    BY <1>11 DEF UploadOpenapi, Goto, TypeOK, RecordInv
  <1>12. ASSUME NEW j \in Jobs, UploadReport(j) PROVE RecordInv'
    BY <1>12 DEF UploadReport, Goto, TypeOK, RecordInv
  <1>13. ASSUME NEW j \in Jobs, Fail(j) PROVE RecordInv'
    BY <1>13 DEF Fail, Goto, TypeOK, RecordInv
  <1>14. ASSUME NEW j \in Jobs, Remove(j) PROVE RecordInv'
    BY <1>14 DEF Remove, Goto, TypeOK, RecordInv
  <1>15. ASSUME NEW j \in Jobs, Begin(j) PROVE RecordInv'
    BY <1>0, <1>15 DEF Begin, Update, Goto, TypeOK, RecordInv
  <1>16. ASSUME NEW j \in Jobs, RecordEnd(j) PROVE RecordInv'
    BY <1>0, <1>16 DEF RecordEnd, Update, Goto, TypeOK, RecordInv
  <1>17. ASSUME NEW c \in Cancels, NEW j \in Jobs, CancelRequest(c, j) PROVE RecordInv'
    BY <1>17 DEF CancelRequest, RecordInv
  <1>18. ASSUME NEW c \in Cancels, CancelSignal(c) PROVE RecordInv'
    BY <1>18 DEF CancelSignal, RecordInv
  <1>19. ASSUME NEW c \in Cancels, CancelMark(c) PROVE RecordInv'
    BY <1>0, <1>19 DEF CancelMark, Update, TypeOK, RecordInv, Terminal
  <1>20. CASE Restart
    BY <1>20 DEF Restart, TypeOK, RecordInv
  <1>21. CASE UNCHANGED vars
    BY <1>21 DEF vars, RecordInv
  <1> QED
    BY <1>1, <1>2, <1>3, <1>4, <1>5, <1>6, <1>7, <1>8, <1>9, <1>10, <1>11,
       <1>12, <1>13, <1>14, <1>15, <1>16, <1>17, <1>18, <1>19, <1>20, <1>21
    DEF Next, JobStep, CancelStep

(* EndIsRecorded of SastServer: on every path out of run, and with cancels *)
(* that mark the row in between, a job that has ended shows it, as long as *)
(* no UPDATE was lost.                                                     *)
THEOREM EndCorrect == Spec => []EndIsRecorded
  <1>1. Init => RecordInv
    BY DEF Init, RecordInv
  <1>2. TypeOK /\ RecordInv /\ [Next]_vars => RecordInv'
    BY RecordStep
  <1>3. RecordInv => EndIsRecorded
    BY DEF RecordInv, EndIsRecorded, At
  <1>4. QED BY <1>1, <1>2, <1>3, TypeCorrect, PTL DEF Spec
=============================================================================
