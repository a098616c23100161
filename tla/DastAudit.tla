----------------------------- MODULE DastAudit -----------------------------
(***************************************************************************)
(* An audit of AgentDAST (internal/ai/orchestrator.go): a baseline scan of *)
(* the whole API, then turns of a model that may call tools, scans among   *)
(* them, and a report that lists what the scans confirmed.  Each scan is a *)
(* run of Scanner; the audit waits for it.                                 *)
(*                                                                         *)
(* The model may answer anything.  Texts, and tools that only read, have   *)
(* no state of their own.                                                  *)
(***************************************************************************)
EXTENDS Scanner, SequencesExt

CONSTANTS
    MaxTurns,  \* AIConfig.MaxTurns
    MaxCalls   \* bound: tool calls in one answer of the model

ASSUME AuditAssumption == MaxTurns \in Nat \ {0} /\ MaxCalls \in Nat

VARIABLES
    config,  \* a SAST report is given, the tools are offered, the baseline is on
    audit,   \* the local variables of Orchestrator.Run
    scans    \* AuditResult.Scans

vars == <<scan, interrupted, config, audit, scans>>

Places == {"begin", "baseline", "turn", "tools", "scanning", "done", "failed"}
Audit == [pc : Places, turn : 0..MaxTurns, calls : 0..MaxCalls,
          verified : BOOLEAN, nudged : BOOLEAN]

Init ==
    /\ ScanInit
    /\ config \in [sast : BOOLEAN, tools : BOOLEAN, auto : BOOLEAN]
    /\ audit = [pc |-> "begin", turn |-> 0, calls |-> 0, verified |-> FALSE, nudged |-> FALSE]
    /\ scans = <<>>

-----------------------------------------------------------------------------
At(p) == audit.pc = p
AuditTo(p) == audit' = [audit EXCEPT !.pc = p]

\* The key leaves out where the parameter is, and what was found there.
SameKey(f, g) == f.test = g.test /\ f.name = g.name

\* One finding per key: the first of the highest severity, at the place where the
\* key was first seen.
Mut_Merge(merged, f) ==  \* keeps the first of any severity
    IF \E i \in DOMAIN merged : SameKey(merged[i], f) THEN merged ELSE Append(merged, f)
Merge(merged, f) ==
    LET seen == {i \in DOMAIN merged : SameKey(merged[i], f)}
        idx == CHOOSE i \in seen : TRUE
    IN  IF seen = {} THEN Append(merged, f)
        ELSE IF f.severity > merged[idx].severity THEN [merged EXCEPT ![idx] = f] ELSE merged

consolidate(results) ==
    LET all == FlattenSeq(results)
        merged[n \in 0..Len(all)] == IF n = 0 THEN <<>> ELSE Merge(merged[n - 1], all[n])
    IN  merged[Len(all)]

\* The findings in AuditResult.Report, which is written last.
FinalReport == consolidate(scans)

\* The specification and the SAST report are read, and the baseline scan is
\* started if there is to be one; a baseline that cannot start is skipped.
Begin ==
    /\ At("begin")
    /\ \/ AuditTo("failed") /\ UNCHANGED scan
       \/ AuditTo("turn") /\ UNCHANGED scan
       \/ config.auto /\ AuditTo("baseline") /\ StartScan(NumTests)
    /\ UNCHANGED <<interrupted, config, scans>>

\* A scan that an interrupt has cut short is a result like any other.
BaselineDone ==
    /\ At("baseline") /\ LoopAt("returned")
    /\ scans' = Append(scans, result.findings)
    /\ TakeResult
    /\ AuditTo("turn")
    /\ UNCHANGED <<interrupted, config>>

-----------------------------------------------------------------------------
Mut_InTurn == At("turn") /\ audit.turn <= MaxTurns  \* one turn too many
InTurn == At("turn") /\ audit.turn < MaxTurns

\* The model cannot be reached, or the context is cancelled: an error in the first
\* turn, in a later one the end of the audit.
ModelError ==
    /\ InTurn
    /\ AuditTo(IF audit.turn = 0 THEN "failed" ELSE "done")
    /\ UNCHANGED <<scan, interrupted, config, scans>>

NoChoices ==
    /\ InTurn /\ ~interrupted
    /\ AuditTo("failed")
    /\ UNCHANGED <<scan, interrupted, config, scans>>

\* The model calls no tool: it is told once to verify what the SAST report says,
\* else its answer is the narrative of the report.
MustVerify == config.sast /\ config.tools /\ ~audit.nudged /\ ~audit.verified

Conclude ==
    /\ InTurn /\ ~interrupted
    /\ \/ /\ MustVerify
          /\ audit' = [audit EXCEPT !.nudged = TRUE, !.turn = @ + 1]
       \/ ~MustVerify /\ AuditTo("done")
    /\ UNCHANGED <<scan, interrupted, config, scans>>

ToolCalls ==
    /\ InTurn /\ ~interrupted /\ config.tools
    /\ \E n \in 1..MaxCalls : audit' = [audit EXCEPT !.pc = "tools", !.calls = n]
    /\ UNCHANGED <<scan, interrupted, config, scans>>

\* The next call of the message, or the next turn.
Answered(a) ==
    IF a.calls = 1 THEN [a EXCEPT !.pc = "turn", !.calls = 0, !.turn = @ + 1]
                   ELSE [a EXCEPT !.pc = "tools", !.calls = @ - 1]

\* scan_api with valid arguments: one endpoint, the named plugins.
ScanCall ==
    /\ At("tools")
    /\ \E n \in Tests : StartScan(n)
    /\ audit' = [audit EXCEPT !.pc = "scanning", !.verified = TRUE]
    /\ UNCHANGED <<interrupted, config, scans>>

ScanCallDone ==
    /\ At("scanning") /\ LoopAt("returned")
    /\ scans' = Append(scans, result.findings)
    /\ TakeResult
    /\ audit' = Answered(audit)
    /\ UNCHANGED <<interrupted, config>>

\* A scan_api with arguments that are refused, an http_request, another tool.
OtherCall ==
    /\ At("tools")
    /\ \E verifies \in BOOLEAN :
          audit' = Answered([audit EXCEPT !.verified = @ \/ verifies])
    /\ UNCHANGED <<scan, interrupted, config, scans>>

\* The cap: the model is asked for a last narrative, whatever it answers.
TurnCap ==
    /\ At("turn") /\ audit.turn = MaxTurns
    /\ AuditTo("done")
    /\ UNCHANGED <<scan, interrupted, config, scans>>

\* POST /api/dast/cancel cancels the context.
Interrupt ==
    /\ ~interrupted
    /\ interrupted' = TRUE
    /\ UNCHANGED <<scan, config, audit, scans>>

-----------------------------------------------------------------------------
AuditStep ==
    \/ Begin \/ BaselineDone \/ ModelError \/ NoChoices \/ Conclude \/ ToolCalls
    \/ ScanCall \/ ScanCallDone \/ OtherCall \/ TurnCap

Next ==
    \/ AuditStep
    \/ ScanStep /\ UNCHANGED <<config, audit, scans>>
    \/ Interrupt

Spec == Init /\ [][Next]_vars

\* Goroutines run, plugins come to an end with their requests (which have a
\* timeout), and the model answers.
FairSpec ==
    /\ Spec
    /\ WF_vars(AuditStep)
    /\ WF_vars(LoopStep /\ UNCHANGED <<config, audit, scans>>)
    /\ \A t \in Tests : WF_vars(Work(t) /\ UNCHANGED <<config, audit, scans>>)

-----------------------------------------------------------------------------
(* Properties *)

\* Every variable has its type.
TypeOK ==
    /\ ScanTypeOK
    /\ config \in [sast : BOOLEAN, tools : BOOLEAN, auto : BOOLEAN]
    /\ audit \in Audit
    /\ scans \in Seq(Seq(Finding))

\* "Scanner-Confirmed Findings - only what the scanner dynamically proved,
\* consolidated and deduplicated" (AgentDAST/README.md), "deduplicating by (plugin,
\* method, endpoint, param) and keeping the highest-severity instance" (ai): of all
\* that a test has ever found under a name, in the baseline or in a scan of the
\* model, the report has one entry, of the highest severity, and no other entry.
\* What a plugin finds at two places of one name, or two kinds of sensitive data in
\* one answer, is one entry.
ConfirmedAreReported ==
    At("done") =>
       LET report == FinalReport
       IN  /\ \A f \in proved : \E i \in DOMAIN report :
                 SameKey(report[i], f) /\ report[i].severity >= f.severity
           /\ \A i \in DOMAIN report : report[i] \in proved
           /\ \A i, j \in DOMAIN report : SameKey(report[i], report[j]) => i = j

\* An audit that is over, by a report, an error or a cancel, leaves no test
\* behind that goes on sending requests to the target.
QuietWhenOver ==
    At("done") \/ At("failed") => \A t \in Tests : test[t] \in {"none", "over"}

\* Every audit comes to an end, whatever the model does with its turns.
AuditEnds == At("begin") ~> (At("done") \/ At("failed"))
=============================================================================
