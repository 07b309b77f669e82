---------------------------- MODULE SubmissionTest ----------------------------
(***************************************************************************)
(* The test of one submission by a thread of the Builder                   *)
(* (Builder2.testSubmission): the build steps of the tester for the type   *)
(* of the problem, one after the other until the submission is complete,   *)
(* and at last the removal of what they left.  The step that executes the  *)
(* tests is one of two components:                                         *)
(*   - CommandExecution for C_PROGRAM, C_FUNCTION and JAVA_PROGRAM,        *)
(*   - JavaSandbox for JAVA_METHOD, PYTHON_FUNCTION and RUBY_METHOD;       *)
(* the variables of the other one stay as they are.                        *)
(***************************************************************************)
EXTENDS Naturals, Sequences

CONSTANTS
    Problems,       \* the problems looked at: type, test cases, programs tested
    MaxTests, MaxPolls, NumPauses,
    ExpectsBlank    \* an empty line is what the test cases expect

CommandTypes == {"C_PROGRAM", "C_FUNCTION", "JAVA_PROGRAM"}
SandboxTypes == {"JAVA_METHOD", "PYTHON_FUNCTION", "RUBY_METHOD"}

ASSUME TestAssumption ==
    /\ {MaxTests, MaxPolls} \subseteq Nat /\ NumPauses \in Nat \ {0}
    /\ \A p \in Problems : /\ p.type \in CommandTypes \cup SandboxTypes
                           /\ p.tests \in 1..MaxTests
                           /\ p.lines \in Nat
                           /\ p.endings \subseteq {"success", "otherCode", "crash",
                                                  "limit", "notFound"}
    /\ ExpectsBlank \in BOOLEAN

Tests == 1..MaxTests

VARIABLES
    problem,
    step,               \* the build step the thread is at
    testResults,        \* the artifact of the TestResults
    submissionResult,   \* the artifact that completes the submission
    \* CommandExecution
    directory, started, joined, executor, polls, runner, status, helpers,
    collected, script, statusFile, program, ending, written, commandResult,
    \* JavaSandbox
    at, next, pauses, worker, returned, stopping, threw, result, outcomes

Command == INSTANCE CommandExecution
Sandbox == INSTANCE JavaSandbox

testerVars == <<problem, step, testResults, submissionResult>>
commandVarsButDirectory ==
    <<started, joined, executor, polls, runner, status, helpers, collected,
      script, statusFile, program, ending, written, commandResult>>
commandVars == <<directory, commandVarsButDirectory>>
sandboxVars ==
    <<at, next, pauses, worker, returned, stopping, threw, result, outcomes>>
vars == <<testerVars, commandVars, sandboxVars>>

TestOutcome == {"passed", "failed", "exception", "timeout", "internalError", "null"}

TypeOK ==
    /\ Command!TypeOK
    /\ Sandbox!TypeOK
    /\ step \in {"compile", "execute", "check", "cleanUp", "done", "stuck"}
    /\ testResults \in [Tests -> TestOutcome]
    /\ submissionResult \in {"null", "compileFailed", "tested", "builderError"}

Init ==
    /\ Command!Init
    /\ Sandbox!Init
    /\ step = "compile"
    /\ testResults = [i \in Tests |-> "null"]
    /\ submissionResult = "null"

-----------------------------------------------------------------------------
(* The thread of the Builder.                                              *)

UsesCommands == problem.type \in CommandTypes

\* The tests are over; what the thread does next is clean up.
Complete(res) ==
    /\ submissionResult' = res
    /\ step' = "cleanUp"

\* The steps before the tests.  A failed compilation completes the submission,
\* and what a step throws is a result as well.  Ruby is not compiled; where
\* commands are run, their directory is made.
Compile ==
    /\ step = "compile"
    /\ directory' \in IF UsesCommands THEN BOOLEAN ELSE {FALSE}
    /\ \/ /\ UsesCommands => directory'
          /\ step' = "execute"
          /\ UNCHANGED submissionResult
       \/ problem.type # "RUBY_METHOD" /\ Complete("compileFailed")
       \/ Complete("builderError")
    /\ UNCHANGED <<problem, testResults, commandVarsButDirectory, sandboxVars>>

\* A Python submission is compiled by executing its text in this thread, with
\* nothing to stop what does not end.
CompileForEver ==
    /\ step = "compile"
    /\ problem.type = "PYTHON_FUNCTION"
    /\ step' = "stuck"
    /\ UNCHANGED <<problem, testResults, submissionResult, commandVars,
                   sandboxVars>>

Execute ==
    /\ step = "execute"
    /\ \/ UsesCommands /\ Command!BuildStep /\ UNCHANGED sandboxVars
       \/ ~UsesCommands /\ Sandbox!Manager /\ UNCHANGED commandVars
    /\ UNCHANGED testerVars

ExecuteReturns ==
    /\ step = "execute"
    /\ IF UsesCommands THEN joined = problem.tests ELSE at = "done"
    /\ step' = "check"
    /\ UNCHANGED <<problem, testResults, submissionResult, commandVars,
                   sandboxVars>>

\* Do these lines match the expected output?  No output is an empty line.
Matches(lines) ==
    \/ \E k \in 1..Len(lines) : lines[k]
    \/ lines = <<>> /\ ExpectsBlank

\* What the check steps make of a command that exited: the exit code decides
\* for a function, the output for a program.
ExitedWell(i) ==
    IF problem.type = "C_FUNCTION" THEN statusFile[i] = "success"
    ELSE Matches(SubSeq(written[i], 1, collected[i]))

TestResultOf(i) ==
    CASE commandResult[i] = "EXITED" -> IF ExitedWell(i) THEN "passed" ELSE "failed"
      [] commandResult[i] \in {"COULD_NOT_START", "UNKNOWN"} -> "internalError"
      [] commandResult[i] = "KILLED_BY_SIGNAL" -> "exception"
      [] commandResult[i] = "TIMED_OUT" -> "timeout"
      [] OTHER -> "null"

CheckCommands ==
    /\ step = "check" /\ UsesCommands
    /\ \A i \in 1..problem.tests : commandResult[i] # "null"
    /\ testResults' = [i \in Tests |-> TestResultOf(i)]
    /\ Complete("tested")
    /\ UNCHANGED <<problem, commandVars, sandboxVars>>

\* A missing result is a NullPointerException, and an output that grows while
\* it is copied a ConcurrentModificationException.
CheckThrows ==
    /\ step = "check" /\ UsesCommands
    /\ \E i \in 1..problem.tests :
        \/ commandResult[i] = "null"
        \/ commandResult[i] = "UNKNOWN" /\ helpers[i] = "at work"
    /\ Complete("builderError")
    /\ UNCHANGED <<problem, testResults, commandVars, sandboxVars>>

\* What the sandbox returns is taken as it is, results that are missing too.
TakeOutcomes ==
    /\ step = "check" /\ ~UsesCommands
    /\ testResults' = outcomes
    /\ Complete("tested")
    /\ UNCHANGED <<problem, commandVars, sandboxVars>>

CleanUp ==
    /\ step = "cleanUp"
    /\ step' = "done"
    /\ directory' = FALSE
    /\ UNCHANGED <<problem, testResults, submissionResult,
                   commandVarsButDirectory, sandboxVars>>

Builder ==
    \/ Compile \/ CompileForEver \/ Execute \/ ExecuteReturns \/ CheckCommands
    \/ CheckThrows \/ TakeOutcomes \/ CleanUp

-----------------------------------------------------------------------------

CommandStep(i) ==
    /\ \/ Command!Executor(i) \/ Command!Runner(i) \/ Command!Helpers(i)
       \/ Command!CutShort(i) \/ Command!ScriptEnds(i) \/ Command!Program(i)
    /\ UNCHANGED <<testerVars, sandboxVars>>

SandboxStep(i) ==
    /\ Sandbox!Worker(i) \/ Sandbox!Task(i)
    /\ UNCHANGED <<testerVars, commandVars>>

Next == Builder \/ \E i \in Tests : CommandStep(i) \/ SandboxStep(i)

Spec == Init /\ [][Next]_vars

\* The threads of the Builder and the script of a command go on; programs and
\* tasks need not.
FairSpec == Spec /\ WF_vars(Builder) /\ Command!ThreadFairness

-----------------------------------------------------------------------------
(* Properties.                                                             *)

\* A test is called passed or failed only when the program or the task ended
\* of itself, and then on the whole of what it did: all that was written to
\* the output, also by a child, and its exit code.  The executor reads the
\* status while the threads of the ProcessRunner and of the collectors are at
\* work, and takes the lists they fill.
JudgedOnWholeRun ==
    \A i \in Tests : testResults[i] \in {"passed", "failed"} =>
        IF UsesCommands
        THEN /\ ending[i] \in {"success", "otherCode"}
             /\ program[i] = "gone"
             /\ (testResults[i] = "passed") =
                    IF problem.type = "C_FUNCTION" THEN ending[i] = "success"
                    ELSE Matches(written[i])
        ELSE testResults[i] = returned[i]

\* A submission that counts as tested has a result for each test case, unless
\* a task of the sandbox ended by an error of its own: a thread that was found
\* alive and stopped, or that ended just then, has one.
EveryTestHasAResult ==
    submissionResult = "tested" =>
        \A i \in 1..problem.tests : testResults[i] = "null" => threw[i]

\* testSubmission comes to its end whatever the programs and tasks do, be it
\* that they never end, and whichever thread is slow; only the text of a Python
\* submission can keep it for ever.
TestCompletes == <>(step \in {"done", "stuck"})

\* When a program has ended, with the children that hold its output, the
\* threads that served it end as well: they do not wait for each other, for
\* the executor or for a process that was destroyed.
ThreadsEnd == \A i \in Tests : program[i] = "gone" ~> runner[i] = "done"

=============================================================================
