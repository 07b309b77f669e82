----------------------------- MODULE JavaSandbox -----------------------------
(***************************************************************************)
(* KillableTaskManager, which runs the tests of Java methods, Python       *)
(* functions and Ruby methods in threads of the Builder: one WorkerThread  *)
(* for each test case, and the thread of the Builder, which pauses, stops  *)
(* the threads that are still alive with Thread.stop() and puts a timeout  *)
(* in place of their result.  The stop is an exception in the worker that  *)
(* comes later, that the tested code may catch, and that reflection and    *)
(* Jython turn into a failure of the test.                                 *)
(***************************************************************************)
EXTENDS Naturals

CONSTANTS
    Problems,       \* the problems looked at; "tests" is the number of test cases
    MaxTests,       \* the most test cases one of them has
    NumPauses       \* pauses before the threads are stopped (5 in the code)

Tests == 1..MaxTests

VARIABLES
    problem,
    at,             \* where run() is
    next,           \* the thread it looks at
    pauses,
    worker, returned, stopping,
    threw,          \* the task ended by an exception of its own
    result,         \* the field of the Outcome
    outcomes        \* what getOutcomes has read

managerVars == <<at, next, pauses, outcomes>>
workerVars == <<worker, returned, stopping, threw>>
vars == <<problem, managerVars, workerVars, result>>

TestResults == {"passed", "failed", "exception"}
Outcomes == TestResults \cup {"timeout", "null"}

TypeOK ==
    /\ problem \in Problems
    /\ at \in {"none", "pause", "poll", "check", "flush", "outcomes", "done"}
    /\ next \in 1..problem.tests
    /\ pauses \in 0..NumPauses
    /\ worker \in [Tests -> {"none", "runs", "stores", "finishes", "dying", "dead"}]
    /\ returned \in [Tests -> TestResults \cup {"null"}]
    /\ stopping \in [Tests -> BOOLEAN]
    /\ threw \in [Tests -> BOOLEAN]
    /\ result \in [Tests -> Outcomes]
    /\ outcomes \in [Tests -> Outcomes]

All(v) == [i \in Tests |-> v]

Init ==
    /\ problem \in Problems
    /\ at = "none"
    /\ next = 1
    /\ pauses = 0
    /\ worker = All("none")
    /\ returned = All("null")
    /\ stopping = All(FALSE)
    /\ threw = All(FALSE)
    /\ result = All("null")
    /\ outcomes = All("null")

-----------------------------------------------------------------------------
(* KillableTaskManager.run.                                                *)

StartPool ==
    /\ at = "none"
    /\ at' = "pause"
    /\ worker' = [i \in Tests |-> IF i <= problem.tests THEN "runs" ELSE "none"]
    /\ UNCHANGED <<problem, next, pauses, outcomes, returned, stopping, threw, result>>

IsAlive(i) == worker[i] \notin {"none", "dead"}

Pause ==
    /\ at = "pause"
    /\ at' = "poll"
    /\ pauses' = pauses + 1
    /\ UNCHANGED <<problem, next, outcomes, workerVars, result>>

Poll ==
    /\ at = "poll"
    /\ at' = IF pauses < NumPauses /\ \E i \in Tests : IsAlive(i)
             THEN "pause" ELSE "check"
    /\ UNCHANGED <<problem, next, pauses, outcomes, workerVars, result>>

\* The loop over the threads goes to the next, and after the last to st.
NextThread(st) ==
    IF next < problem.tests THEN next' = next + 1 /\ UNCHANGED at
                       ELSE next' = 1 /\ at' = st

ThreadEnded ==
    /\ at = "check"
    /\ ~IsAlive(next)
    /\ NextThread("outcomes")
    /\ UNCHANGED <<problem, pauses, outcomes, workerVars, result>>

StopThread ==
    /\ at = "check"
    /\ IsAlive(next)
    /\ at' = "flush"
    /\ stopping' = [stopping EXCEPT ![next] = TRUE]
    /\ UNCHANGED <<problem, next, pauses, outcomes, worker, returned, threw, result>>

\* Mutant: A stopped thread is given no result.
NoTimeout ==
    /\ at = "flush"
    /\ IF next < problem.tests THEN next' = next + 1 /\ at' = "check"
                          ELSE next' = 1 /\ at' = "outcomes"
    /\ UNCHANGED <<problem, pauses, outcomes, workerVars, result>>

\* After the monitors of its output are closed; meanwhile the worker runs on.
HandleTimeout ==
    /\ at = "flush"
    /\ result' = [result EXCEPT ![next] = "timeout"]
    /\ IF next < problem.tests THEN next' = next + 1 /\ at' = "check"
                          ELSE next' = 1 /\ at' = "outcomes"
    /\ UNCHANGED <<problem, pauses, outcomes, workerVars>>

\* getOutcomes reads one result after the other.
GetOutcome ==
    /\ at = "outcomes"
    /\ outcomes' = [outcomes EXCEPT ![next] = result[next]]
    /\ NextThread("done")
    /\ UNCHANGED <<problem, pauses, workerVars, result>>

Manager ==
    \/ StartPool \/ Pause \/ Poll \/ ThreadEnded \/ StopThread
    \/ HandleTimeout \/ GetOutcome

-----------------------------------------------------------------------------
(* WorkerThread.run and the task it executes.                              *)

WorkerMove(i, st, st2) ==
    /\ worker[i] = st
    /\ worker' = [worker EXCEPT ![i] = st2]
    /\ UNCHANGED <<problem, managerVars>>

TaskReturns(i) ==
    /\ WorkerMove(i, "runs", "stores")
    /\ \E r \in TestResults : returned' = [returned EXCEPT ![i] = r]
    /\ UNCHANGED <<stopping, threw, result>>

\* An error in a static initialiser, or a method that returns null.
TaskThrows(i) ==
    /\ WorkerMove(i, "runs", "dying")
    /\ threw' = [threw EXCEPT ![i] = TRUE]
    /\ UNCHANGED <<returned, stopping, result>>

StoreResult(i) ==
    /\ WorkerMove(i, "stores", "finishes")
    /\ result' = [result EXCEPT ![i] = returned[i]]
    /\ UNCHANGED <<returned, stopping, threw>>

SetFinished(i) ==
    /\ WorkerMove(i, "finishes", "dying")
    /\ UNCHANGED <<returned, stopping, threw, result>>

ThreadDies(i) ==
    /\ WorkerMove(i, "dying", "dead")
    /\ UNCHANGED <<returned, stopping, threw, result>>

\* ThreadDeath comes at last.  Thrown in the tested code, it may be caught
\* there, or be wrapped by what calls that code and counted as a failed test.
StopArrives(i) ==
    /\ stopping[i]
    /\ stopping' = [stopping EXCEPT ![i] = FALSE]
    /\ \/ WorkerMove(i, "runs", "runs") /\ UNCHANGED returned
       \/ /\ WorkerMove(i, "runs", "stores")
          /\ returned' = [returned EXCEPT ![i] = "exception"]
       \/ /\ \E st \in {"runs", "stores", "finishes"} : WorkerMove(i, st, "dying")
          /\ UNCHANGED returned
    /\ UNCHANGED <<threw, result>>

Worker(i) == StoreResult(i) \/ SetFinished(i) \/ ThreadDies(i)
Task(i) == TaskReturns(i) \/ TaskThrows(i) \/ StopArrives(i)

-----------------------------------------------------------------------------

Next == Manager \/ \E i \in Tests : Worker(i) \/ Task(i)

=============================================================================
