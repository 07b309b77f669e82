--------------------------- MODULE CommandExecution ---------------------------
(***************************************************************************)
(* The commands that test a submission: one for each test case, all at     *)
(* once (ExecuteCommandForEachCommandInputBuildStep).  Each command has    *)
(*   - the thread of its CommandExecutor, which polls and decides,         *)
(*   - the thread of its ProcessRunner, which starts the process, waits    *)
(*     for it, joins the helpers and reads the file of the exit status,    *)
(*   - helper threads, taken as one: two collectors of output and the      *)
(*     sender of input are started, interrupted and joined together,       *)
(*   - the process: the script runProcess.sh around the program.           *)
(* The threads share the fields of the ProcessRunner without a lock.       *)
(***************************************************************************)
EXTENDS Naturals, Sequences

CONSTANTS
    Problems,       \* the problems looked at: of each the number of test cases,
                    \* and bounds on what the programs tested with it do
    MaxTests,       \* the most test cases one of them has
    MaxPolls        \* polls before a command has timed out (16 in the code)

\* How a program may end; "limit" is signal 9 or 24, which a program gets when
\* its CPU time is over.
ProgramEndings == {"success", "otherCode", "crash", "limit", "notFound"}

VARIABLES
    problem,
    directory,      \* the temporary directory the compiler made is there
    started,        \* executors the build step has started
    joined,         \* executors it has joined
    executor, polls,
    runner,
    status,         \* the field of the ProcessRunner
    helpers,        \* its collectors of output and sender of input
    collected,      \* lines in the list of the collector
    script,         \* the process the JVM knows
    statusFile,     \* what the script has left in the file; "none": nothing
    program, ending,
    written,        \* the lines written: do they match what is expected?
    commandResult   \* "null" until it is set

buildStepVars == <<started, joined>>
runnerVars == <<runner, status>>
helperVars == <<helpers, collected>>
processVars == <<script, statusFile, program, ending, written>>
executorVars == <<executor, polls, commandResult>>
vars == <<problem, directory, buildStepVars, executorVars, runnerVars, helperVars,
          processVars>>

Tests == 1..MaxTests

ProcessStatus == {"UNKNOWN", "COULD_NOT_START", "EXITED", "KILLED_BY_SIGNAL",
                  "TIMED_OUT"}
ExecutorStates == {"none", "start", "poll", "destroy", "interrupt", "status",
                   "reread", "output", "done", "dead"}
RunnerStates == {"none", "create", "exec", "collect", "wait", "join", "read",
                 "done", "failed"}

TypeOK ==
    /\ problem \in Problems
    /\ directory \in BOOLEAN
    /\ started \in 0..problem.tests
    /\ joined \in 0..started
    /\ executor \in [Tests -> ExecutorStates]
    /\ polls \in [Tests -> 0..MaxPolls]
    /\ runner \in [Tests -> RunnerStates]
    /\ status \in [Tests -> ProcessStatus \ {"TIMED_OUT"}]
    /\ helpers \in [Tests -> {"none", "at work", "ended"}]
    /\ collected \in [Tests -> Nat]
    /\ script \in [Tests -> {"none", "waits", "gone", "destroyed"}]
    /\ statusFile \in [Tests -> ProgramEndings \cup {"none"}]
    /\ program \in [Tests -> {"none", "runs", "lingers", "gone"}]
    /\ ending \in [Tests -> ProgramEndings \cup {"none"}]
    /\ written \in [Tests -> Seq(BOOLEAN)]
    /\ \A i \in Tests : collected[i] <= Len(written[i])
    /\ commandResult \in [Tests -> ProcessStatus \cup {"null"}]

All(v) == [i \in Tests |-> v]

Init ==
    /\ problem \in Problems
    /\ directory = FALSE
    /\ started = 0 /\ joined = 0
    /\ executor = All("none")
    /\ polls = All(0)
    /\ runner = All("none")
    /\ status = All("UNKNOWN")
    /\ helpers = All("none")
    /\ collected = All(0)
    /\ script = All("none")
    /\ statusFile = All("none")
    /\ program = All("none")
    /\ ending = All("none")
    /\ written = All(<<>>)
    /\ commandResult = All("null")

-----------------------------------------------------------------------------
(* The build step, a part of the thread of the Builder.                    *)

StartExecutor ==
    /\ started < problem.tests
    /\ started' = started + 1
    /\ executor' = [executor EXCEPT ![started + 1] = "start"]
    /\ UNCHANGED <<problem, directory, joined, polls, commandResult, runnerVars,
                   helperVars, processVars>>

\* The executors are joined in their order, once all have been started.
JoinExecutor ==
    /\ started = problem.tests
    /\ joined < problem.tests
    /\ executor[joined + 1] \in {"done", "dead"}
    /\ joined' = joined + 1
    /\ UNCHANGED <<problem, directory, started, executorVars, runnerVars, helperVars,
                   processVars>>

-----------------------------------------------------------------------------
(* CommandExecutor.run.                                                    *)

\* The thread of executor i moves from st to st2.
ExecutorMove(i, st, st2) ==
    /\ executor[i] = st
    /\ executor' = [executor EXCEPT ![i] = st2]
    /\ UNCHANGED <<problem, directory, buildStepVars>>

Exited(i) == script[i] \in {"gone", "destroyed"}

\* A process that was not made yet counts as running.
IsRunning(i) == ~Exited(i)

RunAsynchronous(i) ==
    /\ ExecutorMove(i, "start", "poll")
    /\ runner' = [runner EXCEPT ![i] = "create"]
    /\ UNCHANGED <<polls, commandResult, status, helperVars, processVars>>

\* Mutant: There is no limit to the time.
PollForEver(i) ==
    /\ ExecutorMove(i, "poll", IF IsRunning(i) THEN "poll" ELSE "status")
    /\ UNCHANGED <<polls, commandResult, runnerVars, helperVars, processVars>>

\* Mutant: The last look counts like the others.
PollOnceMore(i) ==
    /\ ExecutorMove(i, "poll", IF IsRunning(i) /\ polls[i] < MaxPolls THEN "poll"
                               ELSE IF IsRunning(i) THEN "destroy" ELSE "status")
    /\ polls' = [polls EXCEPT ![i] = @ + 1]
    /\ UNCHANGED <<commandResult, runnerVars, helperVars, processVars>>

\* The process runs and there is time left: sleep, and look again.  When the
\* time is over it looks a last time.
Poll(i) ==
    LET again == IsRunning(i) /\ polls[i] < MaxPolls
    IN  /\ ExecutorMove(i, "poll", IF again THEN "poll"
                                   ELSE IF IsRunning(i) THEN "destroy" ELSE "status")
        /\ polls' = [polls EXCEPT ![i] = IF again THEN @ + 1 ELSE @]
        /\ UNCHANGED <<commandResult, runnerVars, helperVars, processVars>>

\* killProcess.  Without a process it throws, and so does interrupting helpers
\* that are not there: the thread dies and leaves no result.  Only the script
\* is ended; the program lives on.
Destroy(i) ==
    /\ ExecutorMove(i, "destroy", IF script[i] = "none" THEN "dead" ELSE "interrupt")
    /\ script' = [script EXCEPT ![i] = IF @ = "none" THEN @ ELSE "destroyed"]
    /\ UNCHANGED <<polls, commandResult, runnerVars, helperVars, statusFile,
                   program, ending, written>>

SetResult(i, st) == commandResult' = [commandResult EXCEPT ![i] = st]

InterruptHelpers(i) ==
    /\ IF helpers[i] = "none"
       THEN ExecutorMove(i, "interrupt", "dead") /\ UNCHANGED commandResult
       ELSE ExecutorMove(i, "interrupt", "done") /\ SetResult(i, "TIMED_OUT")
    /\ UNCHANGED <<polls, runnerVars, helperVars, processVars>>

\* getStatus reads the field twice: whether a signal means a timeout, and for
\* its value.
IsTimeout(i) == status[i] = "KILLED_BY_SIGNAL" /\ statusFile[i] = "limit"

GetStatus(i) ==
    /\ IF IsTimeout(i)
       THEN ExecutorMove(i, "status", "output") /\ SetResult(i, "TIMED_OUT")
       ELSE ExecutorMove(i, "status", "reread") /\ UNCHANGED commandResult
    /\ UNCHANGED <<polls, runnerVars, helperVars, processVars>>

ReadStatusAgain(i) ==
    /\ ExecutorMove(i, "reread", "output")
    /\ SetResult(i, status[i])
    /\ UNCHANGED <<polls, runnerVars, helperVars, processVars>>

\* The lists of output are views that keep growing; without a collector the
\* thread dies before the result is made.
TakeOutput(i) ==
    /\ IF helpers[i] = "none"
       THEN ExecutorMove(i, "output", "dead") /\ SetResult(i, "null")
       ELSE ExecutorMove(i, "output", "done") /\ UNCHANGED commandResult
    /\ UNCHANGED <<polls, runnerVars, helperVars, processVars>>

Executor(i) ==
    \/ RunAsynchronous(i) \/ Poll(i) \/ Destroy(i) \/ InterruptHelpers(i)
    \/ GetStatus(i) \/ ReadStatusAgain(i) \/ TakeOutput(i)

-----------------------------------------------------------------------------
(* ProcessRunner.runSynchronous.                                           *)

RunnerMove(i, st, st2) ==
    /\ runner[i] = st
    /\ runner' = [runner EXCEPT ![i] = st2]
    /\ UNCHANGED <<problem, directory, buildStepVars, executorVars>>

\* An IOException leaves only a status message.
CannotRun(i) ==
    /\ \E st \in {"create", "exec"} : RunnerMove(i, st, "failed")
    /\ UNCHANGED <<status, helperVars, processVars>>

CreateStatusFile(i) ==
    /\ directory
    /\ RunnerMove(i, "create", "exec")
    /\ UNCHANGED <<status, helperVars, processVars>>

Exec(i) ==
    /\ directory
    /\ RunnerMove(i, "exec", "collect")
    /\ script' = [script EXCEPT ![i] = "waits"]
    /\ program' = [program EXCEPT ![i] = "runs"]
    /\ UNCHANGED <<status, helperVars, statusFile, ending, written>>

StartHelpers(i) ==
    /\ RunnerMove(i, "collect", "wait")
    /\ helpers' = [helpers EXCEPT ![i] = "at work"]
    /\ UNCHANGED <<status, collected, processVars>>

\* Mutant: The status is read without joining the collectors.
WaitForProcessOnly(i) ==
    /\ Exited(i)
    /\ RunnerMove(i, "wait", "read")
    /\ UNCHANGED <<status, helperVars, processVars>>

WaitForProcess(i) ==
    /\ Exited(i)
    /\ RunnerMove(i, "wait", "join")
    /\ UNCHANGED <<status, helperVars, processVars>>

JoinHelpers(i) ==
    /\ helpers[i] = "ended"
    /\ RunnerMove(i, "join", "read")
    /\ UNCHANGED <<status, helperVars, processVars>>

\* What the lines of the status file mean.
StatusOf(e) ==
    CASE e \in {"success", "otherCode"} -> "EXITED"
      [] e \in {"crash", "limit"} -> "KILLED_BY_SIGNAL"
      [] e = "notFound" -> "COULD_NOT_START"

\* The status of a script that was killed stays unknown, or the file is
\* missing or cannot be parsed.
ReadExitStatus(i) ==
    /\ RunnerMove(i, "read", "done")
    /\ \E st \in IF statusFile[i] # "none" THEN {StatusOf(statusFile[i])}
                 ELSE {"UNKNOWN", "COULD_NOT_START"} :
        status' = [status EXCEPT ![i] = st]
    /\ UNCHANGED <<helperVars, processVars>>

Runner(i) ==
    \/ CannotRun(i) \/ CreateStatusFile(i) \/ Exec(i) \/ StartHelpers(i)
    \/ WaitForProcess(i) \/ JoinHelpers(i) \/ ReadExitStatus(i)

-----------------------------------------------------------------------------
(* The helpers and the process.                                            *)

HelperStep(i) ==
    /\ helpers[i] = "at work"
    /\ UNCHANGED <<problem, directory, buildStepVars, executorVars, runnerVars,
                   processVars>>

CollectLine(i) ==
    /\ HelperStep(i)
    /\ collected[i] < Len(written[i])
    /\ collected' = [collected EXCEPT ![i] = @ + 1]
    /\ UNCHANGED helpers

\* Nobody holds the other end of the pipe any more.
OutputOver(i) == Exited(i) /\ program[i] = "gone"

\* Mutant: The collector reads on until the status of the process is known.
ReachEndKnown(i) ==
    /\ HelperStep(i)
    /\ OutputOver(i) /\ status[i] # "UNKNOWN"
    /\ helpers' = [helpers EXCEPT ![i] = "ended"]
    /\ UNCHANGED collected

ReachEnd(i) ==
    /\ HelperStep(i)
    /\ OutputOver(i) /\ collected[i] = Len(written[i])
    /\ helpers' = [helpers EXCEPT ![i] = "ended"]
    /\ UNCHANGED collected

Helpers(i) == CollectLine(i) \/ ReachEnd(i)

\* destroy() closes the streams: reading may fail at once, or go on.
CutShort(i) ==
    /\ HelperStep(i)
    /\ script[i] = "destroyed"
    /\ helpers' = [helpers EXCEPT ![i] = "ended"]
    /\ UNCHANGED collected

ProcessStep == UNCHANGED <<problem, directory, buildStepVars, executorVars, runnerVars,
                           helperVars>>

WriteLine(i) ==
    /\ ProcessStep
    /\ program[i] \in {"runs", "lingers"}
    /\ Len(written[i]) < problem.lines
    /\ \E match \in BOOLEAN : written' = [written EXCEPT ![i] = Append(@, match)]
    /\ UNCHANGED <<script, statusFile, program, ending>>

\* A child the program leaves behind may hold its output open.
ProgramEnds(i) ==
    /\ ProcessStep
    /\ program[i] = "runs"
    /\ \E e \in problem.endings :
        /\ e = "notFound" => written[i] = <<>>
        /\ ending' = [ending EXCEPT ![i] = e]
        /\ \E after \in {"gone"} \cup IF e = "notFound" THEN {} ELSE {"lingers"} :
            program' = [program EXCEPT ![i] = after]
    /\ UNCHANGED <<script, statusFile, written>>

ChildEnds(i) ==
    /\ ProcessStep
    /\ program[i] = "lingers"
    /\ program' = [program EXCEPT ![i] = "gone"]
    /\ UNCHANGED <<script, statusFile, ending, written>>

\* The script waits for the program, writes the file and ends.
ScriptEnds(i) ==
    /\ ProcessStep
    /\ script[i] = "waits"
    /\ ending[i] # "none"
    /\ script' = [script EXCEPT ![i] = "gone"]
    /\ statusFile' = [statusFile EXCEPT ![i] = ending[i]]
    /\ UNCHANGED <<program, ending, written>>

Program(i) == WriteLine(i) \/ ProgramEnds(i) \/ ChildEnds(i)

-----------------------------------------------------------------------------

BuildStep == StartExecutor \/ JoinExecutor

Next ==
    \/ BuildStep
    \/ \E i \in Tests : \/ Executor(i) \/ Runner(i) \/ Helpers(i) \/ CutShort(i)
                        \/ ScriptEnds(i) \/ Program(i)

\* The threads of the commands and the script go on; a program need not.
ThreadFairness ==
    \A i \in Tests :
        /\ WF_vars(Executor(i)) /\ WF_vars(Runner(i))
        /\ WF_vars(Helpers(i)) /\ WF_vars(ScriptEnds(i))

=============================================================================
