------------------------------ MODULE Scanner ------------------------------
(***************************************************************************)
(* One run of the DAST scanner (AgentDAST/internal/core): the loop of      *)
(* scanEndpoints that starts a goroutine per test, a pair of an endpoint   *)
(* and a plugin, with a channel as semaphore and a wait group; the         *)
(* goroutines; the request counter and the findings they share.            *)
(*                                                                         *)
(* A test returns any list of what its plugin can find at its endpoint.    *)
(* Locks enclose single statements and are part of the action.             *)
(***************************************************************************)
EXTENDS Naturals, FiniteSets, Sequences

CONSTANTS
    NumTests,     \* pairs of endpoint and plugin of the whole API
    Concurrency,  \* ScanConfig.Concurrency as given
    Finding,      \* what there is to find, each with its test (endpoint and plugin),
                  \* the name of the parameter, where it is, and the rank of the severity
    MaxFindings,  \* bound: findings that one test returns
    MaxRequests   \* bound: requests counted in one run

ASSUME ScannerAssumption ==
    NumTests \in Nat /\ Concurrency \in Nat /\ MaxFindings \in Nat /\ MaxRequests \in Nat

ASSUME FindingAssumption == \A f \in Finding : f.test \in 1..NumTests /\ f.severity \in Nat

VARIABLES
    loop,        \* the goroutine of Run: place, next test, last test
    test,        \* the goroutines of the tests
    found,       \* what a test has returned, once it has
    slots,       \* elements in the channel sem
    pending,     \* the counter of the wait group
    findings,    \* the findings so far, in the order in which tests add them
    count,       \* RequestExecutor.count
    result,      \* what Run has returned
    interrupted, \* the context is cancelled
    proved       \* history: every finding a test has ended with, in any run

scan == <<loop, test, found, slots, pending, findings, count, result, proved>>

Tests == 1..NumTests
LoopPlaces == {"idle", "check", "send", "blocked", "spawn", "wait", "returned"}
TestPlaces == {"none", "admitted", "testing", "adding", "releasing", "leaving", "over"}

\* ScanConfig.WithDefaults.
Capacity == IF Concurrency = 0 THEN 10 ELSE Concurrency

Loop == [pc : LoopPlaces, next : 1..(NumTests + 1), last : 0..NumTests]
Idle == [pc |-> "idle", next |-> 1, last |-> 0]
NoResult == [findings |-> <<>>, requests |-> 0]

ScanInit ==
    /\ loop = Idle
    /\ test = [t \in Tests |-> "none"]
    /\ found = [t \in Tests |-> <<>>]
    /\ slots = 0
    /\ pending = 0
    /\ findings = <<>>
    /\ count = 0
    /\ result = NoResult
    /\ interrupted = FALSE
    /\ proved = {}

-----------------------------------------------------------------------------
LoopAt(p) == loop.pc = p
Move(p) == loop' = [loop EXCEPT !.pc = p]
Goto(t, p) == test' = [test EXCEPT ![t] = p]

\* Run, when its plugins and targets are resolved: n tests.
StartScan(n) ==
    /\ loop' = [pc |-> "check", next |-> 1, last |-> n]
    /\ test' = [t \in Tests |-> "none"]
    /\ found' = [t \in Tests |-> <<>>]
    /\ slots' = 0
    /\ pending' = 0
    /\ findings' = <<>>
    /\ count' = 0
    /\ UNCHANGED <<result, proved>>

\* The caller has taken the result; what Run and the executor kept is gone.
TakeResult ==
    /\ loop' = Idle
    /\ found' = [t \in Tests |-> <<>>]
    /\ findings' = <<>>
    /\ count' = 0
    /\ result' = NoResult
    /\ UNCHANGED <<test, slots, pending, proved>>

\* The loop head: no test left, or the context is done, or wg.Add(1).
Mut_CheckNext ==  \* leaves without waiting for the tests that run
    /\ LoopAt("check")
    /\ \/ loop.next > loop.last /\ Move("wait") /\ UNCHANGED <<pending, result>>
       \/ /\ loop.next <= loop.last /\ interrupted
          /\ Move("returned")
          /\ result' = [findings |-> findings, requests |-> count]
          /\ UNCHANGED pending
       \/ /\ loop.next <= loop.last /\ ~interrupted
          /\ pending' = pending + 1
          /\ Move("send")
          /\ UNCHANGED result
    /\ UNCHANGED <<test, found, slots, findings, count, proved, interrupted>>

CheckNext ==
    /\ LoopAt("check")
    /\ \/ /\ loop.next > loop.last \/ interrupted
          /\ Move("wait")
          /\ UNCHANGED pending
       \/ /\ loop.next <= loop.last /\ ~interrupted
          /\ pending' = pending + 1
          /\ Move("send")
    /\ UNCHANGED <<test, found, slots, findings, count, result, proved, interrupted>>

\* sem <- struct{}{}: at once while the channel has room.
Mut_Send ==  \* one element too many
    /\ LoopAt("send")
    /\ \/ slots <= Capacity /\ slots' = slots + 1 /\ Goto(loop.next, "admitted") /\ Move("spawn")
       \/ slots > Capacity /\ Move("blocked") /\ UNCHANGED <<slots, test>>
    /\ UNCHANGED <<found, pending, findings, count, result, proved, interrupted>>

Send ==
    /\ LoopAt("send")
    /\ \/ slots < Capacity /\ slots' = slots + 1 /\ Goto(loop.next, "admitted") /\ Move("spawn")
       \/ slots >= Capacity /\ Move("blocked") /\ UNCHANGED <<slots, test>>
    /\ UNCHANGED <<found, pending, findings, count, result, proved, interrupted>>

\* The go statement, and on to the next pair.
Spawn ==
    /\ LoopAt("spawn")
    /\ Goto(loop.next, "testing")
    /\ loop' = [loop EXCEPT !.pc = "check", !.next = @ + 1]
    /\ UNCHANGED <<found, slots, pending, findings, count, result, proved, interrupted>>

\* wg.Wait, after which Run reads the counter and returns.
Mut_Wait ==  \* no wg.Wait
    /\ LoopAt("wait")
    /\ result' = [findings |-> findings, requests |-> count]
    /\ Move("returned")
    /\ UNCHANGED <<test, found, slots, pending, findings, count, proved, interrupted>>

Wait ==
    /\ LoopAt("wait")
    /\ pending = 0
    /\ result' = [findings |-> findings, requests |-> count]
    /\ Move("returned")
    /\ UNCHANGED <<test, found, slots, pending, findings, count, proved, interrupted>>

-----------------------------------------------------------------------------
\* A request of a plugin; it is counted whether it succeeds or not.
Request(t) ==
    /\ test[t] = "testing"
    /\ count < MaxRequests
    /\ count' = count + 1
    /\ UNCHANGED <<loop, test, found, slots, pending, findings, result, proved, interrupted>>

\* The lists that a test may return.
Lists(t) == UNION {[1..n -> {f \in Finding : f.test = t}] : n \in 0..MaxFindings}

\* Test returns findings or none, or panics, which is recovered; a plugin that
\* sees the context done returns what it has found until then.
Return(t) ==
    /\ test[t] = "testing"
    /\ \E fs \in Lists(t) :
          /\ found' = [found EXCEPT ![t] = fs]
          /\ proved' = proved \cup {fs[i] : i \in DOMAIN fs}
          /\ Goto(t, IF fs = <<>> THEN "releasing" ELSE "adding")
    /\ UNCHANGED <<loop, slots, pending, findings, count, result, interrupted>>

AddFindings(t) ==
    /\ test[t] = "adding"
    /\ findings' = findings \o found[t]
    /\ Goto(t, "releasing")
    /\ UNCHANGED <<loop, found, slots, pending, count, result, proved, interrupted>>

\* <-sem: the room goes to the loop when it is blocked on it.
Release(t) ==
    /\ test[t] = "releasing"
    /\ \/ /\ LoopAt("blocked")
          /\ test' = [test EXCEPT ![t] = "leaving", ![loop.next] = "admitted"]
          /\ Move("spawn")
          /\ UNCHANGED slots
       \/ /\ ~LoopAt("blocked")
          /\ slots' = slots - 1
          /\ Goto(t, "leaving")
          /\ UNCHANGED loop
    /\ UNCHANGED <<found, pending, findings, count, result, proved, interrupted>>

\* wg.Done.
Mut_Leave(t) ==  \* returns without wg.Done
    /\ test[t] = "leaving"
    /\ Goto(t, "over")
    /\ UNCHANGED <<loop, found, slots, pending, findings, count, result, proved, interrupted>>

Leave(t) ==
    /\ test[t] = "leaving"
    /\ pending' = pending - 1
    /\ Goto(t, "over")
    /\ UNCHANGED <<loop, found, slots, findings, count, result, proved, interrupted>>

-----------------------------------------------------------------------------
LoopStep == CheckNext \/ Send \/ Spawn \/ Wait
Work(t) == Return(t) \/ AddFindings(t) \/ Release(t) \/ Leave(t)
ScanStep == LoopStep \/ \E t \in Tests : Request(t) \/ Work(t)

-----------------------------------------------------------------------------
(* Properties *)

ScanTypeOK ==
    /\ loop \in Loop
    /\ test \in [Tests -> TestPlaces]
    /\ found \in [Tests -> Seq(Finding)]
    /\ slots \in Nat
    /\ pending \in Nat
    /\ findings \in Seq(Finding)
    /\ count \in 0..MaxRequests
    /\ result \in [findings : Seq(Finding), requests : 0..MaxRequests]
    /\ interrupted \in BOOLEAN
    /\ proved \subseteq Finding

Running == {t \in Tests : test[t] \in {"admitted", "testing", "adding", "releasing"}}

\* The tests form a bounded pool: never more than Concurrency at once, and a test
\* that ends, with a finding, without one or in a panic, makes room for the next.
Pool == INSTANCE BoundedPool WITH
    Tasks <- Tests, running <- Running,
    waiting <- IF LoopAt("blocked") THEN <<loop.next>> ELSE <<>>

ImplementsBoundedPool == Pool!Spec

\* The findings of a test are one block of the list, in their order, and the list
\* has no other of that test.
Whole(t, list) ==
    \E k \in 0..Len(list) :
       /\ {i \in DOMAIN list : list[i].test = t} = (k + 1)..(k + Len(found[t]))
       /\ \A i \in DOMAIN found[t] : list[k + i] = found[t][i]

\* When Run returns, also after a cancel, no test is under way, the result has all
\* that every test has found, once and nothing else, and every request is counted.
ResultIsComplete ==
    LoopAt("returned") =>
        /\ \A t \in Tests : test[t] \in {"none", "over"}
        /\ result.requests = count
        /\ \A t \in Tests : Whole(t, result.findings)
=============================================================================
