------------------------- MODULE SubmissionTestProofs -------------------------
(***************************************************************************)
(* For all problems, numbers of test cases, and limits of time: a test is  *)
(* judged on the whole of a run that ended of itself, and a submission     *)
(* that was tested has a result for each test case.                        *)
(***************************************************************************)
EXTENDS SubmissionTest, SequenceTheorems, TLAPS

-----------------------------------------------------------------------------
(* The commands.                                                           *)

\* An executor begins with nothing done; there is no process before exec.
BeginInv(i) ==
    /\ i > started => executor[i] = "none"
    /\ executor[i] \in {"none", "start"} => runner[i] = "none"
    /\ runner[i] \in {"none", "create", "exec"} =>
           script[i] = "none" /\ program[i] = "none"

\* A program that ended writes no more, except by a child; the script of a
\* program reports how it ended.
ProcessInv(i) ==
    /\ ending[i] = "none" <=> program[i] \in {"none", "runs"}
    /\ statusFile[i] # "none" => statusFile[i] = ending[i]
    /\ script[i] = "gone" => statusFile[i] # "none"

\* Helpers that were not cut short have read everything.
HelperInv(i) ==
    script[i] # "destroyed" =>
        /\ helpers[i] = "ended" =>
               /\ script[i] = "gone"
               /\ program[i] = "gone"
               /\ collected[i] = Len(written[i])
        /\ runner[i] \in {"read", "done"} => helpers[i] = "ended"

\* The status is set once, and says what the file said.
StatusInv(i) ==
    /\ status[i] # "UNKNOWN" => runner[i] = "done"
    /\ status[i] = "EXITED" => statusFile[i] \in {"success", "otherCode"}

\* An executor that has destroyed its process does not look at its status.
ExecutorInv(i) ==
    /\ executor[i] \notin {"output", "done", "dead"} => commandResult[i] = "null"
    /\ script[i] = "destroyed" =>
           /\ executor[i] \in {"interrupt", "done", "dead"}
           /\ commandResult[i] \in {"null", "TIMED_OUT"}
    /\ commandResult[i] = "EXITED" => status[i] = "EXITED"

CommandOk(i) ==
    /\ BeginInv(i) /\ ProcessInv(i) /\ HelperInv(i)
    /\ StatusInv(i) /\ ExecutorInv(i)

CommandInv ==
    /\ Command!TypeOK
    /\ \A i \in Tests : CommandOk(i)

-----------------------------------------------------------------------------
(* The sandbox.                                                            *)

\* What a task returned does not change once a result was made of it.
TaskInv ==
    \A i \in Tests :
        /\ worker[i] = "stores" => returned[i] # "null"
        /\ result[i] \in {"passed", "failed"} \/ outcomes[i] \in {"passed", "failed"} =>
               worker[i] \in {"finishes", "dying", "dead"}
        /\ result[i] \in {"passed", "failed"} => returned[i] = result[i]
        /\ outcomes[i] \in {"passed", "failed"} => returned[i] = outcomes[i]

\* Test i has a result, or has none by its own fault.
Settled(i) == result[i] # "null" \/ threw[i]

\* A thread that is over, or told to stop, is settled, or the manager is about
\* to give it a timeout; behind the manager all are settled.
ManagerInv ==
    /\ at \in {"none", "pause", "poll"} => next = 1
    /\ at \in {"none", "pause"} => pauses < NumPauses
    /\ at = "none" => \A i \in Tests : worker[i] = "none" /\ ~stopping[i]
    /\ \A i \in 1..problem.tests :
        /\ at # "none" => worker[i] # "none"
        /\ worker[i] \in {"finishes", "dying", "dead"} \/ stopping[i] =>
               Settled(i) \/ (at = "flush" /\ next = i)
        /\ \/ at \in {"outcomes", "done"}
           \/ at \in {"check", "flush"} /\ i < next
           => Settled(i)
        /\ at = "done" \/ (at = "outcomes" /\ i < next) =>
               (outcomes[i] = "null" => threw[i])

SandboxInv == Sandbox!TypeOK /\ TaskInv /\ ManagerInv

-----------------------------------------------------------------------------
(* The tester.                                                             *)

\* The verdict is made once, of outcomes that are complete.
VerdictInv ==
    /\ submissionResult # "null" => step \in {"cleanUp", "done"}
    /\ submissionResult # "tested" => \A i \in Tests : testResults[i] = "null"
    /\ ~UsesCommands /\ (step = "check" \/ submissionResult = "tested") =>
           at = "done"
    /\ ~UsesCommands /\ submissionResult = "tested" => testResults = outcomes
    /\ UsesCommands /\ submissionResult = "tested" =>
           \A i \in 1..problem.tests : testResults[i] # "null"

\* JudgedOnWholeRun for command i.
CommandJudged(i) ==
    testResults[i] \in {"passed", "failed"} =>
        /\ ending[i] \in {"success", "otherCode"}
        /\ program[i] = "gone"
        /\ (testResults[i] = "passed") =
               IF problem.type = "C_FUNCTION" THEN ending[i] = "success"
               ELSE Matches(written[i])

TesterType ==
    /\ step \in {"compile", "execute", "check", "cleanUp", "done", "stuck"}
    /\ testResults \in [Tests -> TestOutcome]
    /\ submissionResult \in {"null", "compileFailed", "tested", "builderError"}

TesterInv ==
    /\ TesterType
    /\ VerdictInv
    /\ UsesCommands => \A i \in Tests : CommandJudged(i)

TestInv == CommandInv /\ SandboxInv /\ TesterInv

-----------------------------------------------------------------------------
(* The steps of a command.                                                 *)

\* The states the executor moves to.
LEMMA ExecutorStatesAre ==
    /\ "start" \in Command!ExecutorStates /\ "poll" \in Command!ExecutorStates
    /\ "destroy" \in Command!ExecutorStates /\ "interrupt" \in Command!ExecutorStates
    /\ "status" \in Command!ExecutorStates /\ "reread" \in Command!ExecutorStates
    /\ "output" \in Command!ExecutorStates /\ "done" \in Command!ExecutorStates
    /\ "dead" \in Command!ExecutorStates
  BY DEF Command!ExecutorStates

\* The states the thread of the ProcessRunner moves to.
LEMMA RunnerStatesAre ==
    /\ "create" \in Command!RunnerStates /\ "exec" \in Command!RunnerStates
    /\ "collect" \in Command!RunnerStates /\ "wait" \in Command!RunnerStates
    /\ "join" \in Command!RunnerStates /\ "read" \in Command!RunnerStates
    /\ "done" \in Command!RunnerStates /\ "failed" \in Command!RunnerStates
  BY DEF Command!RunnerStates

\* The statuses a process may get; none of them is a missing result.
LEMMA StatusesAre ==
    /\ "null" \notin Command!ProcessStatus
    /\ "UNKNOWN" \in Command!ProcessStatus /\ "TIMED_OUT" \in Command!ProcessStatus
    /\ "COULD_NOT_START" \in Command!ProcessStatus
    /\ "EXITED" \in Command!ProcessStatus /\ "KILLED_BY_SIGNAL" \in Command!ProcessStatus
  BY DEF Command!ProcessStatus

\* A program that has not ended has none of the endings.
LEMMA EndingsAre == "none" \notin Command!ProgramEndings
  BY DEF Command!ProgramEndings

\* What readProcessExitStatus makes of the file.
LEMMA StatusOfEnding ==
    ASSUME NEW e \in Command!ProgramEndings
    PROVE  /\ Command!StatusOf(e) \in
                  Command!ProcessStatus \ {"TIMED_OUT", "UNKNOWN"}
           /\ Command!StatusOf(e) = "EXITED" => e \in {"success", "otherCode"}
  BY DEF Command!StatusOf, Command!ProgramEndings, Command!ProcessStatus

\* The three modules number the test cases alike.
LEMMA SameTests == Command!Tests = Tests /\ Sandbox!Tests = Tests /\ Tests \subseteq Int
  BY DEF Command!Tests, Sandbox!Tests, Tests

\* What the lemmas below need of the types.
Fields ==
    /\ DOMAIN executor = Tests /\ DOMAIN runner = Tests
    /\ DOMAIN status = Tests /\ DOMAIN helpers = Tests
    /\ DOMAIN script = Tests /\ DOMAIN statusFile = Tests
    /\ DOMAIN program = Tests /\ DOMAIN ending = Tests
    /\ DOMAIN commandResult = Tests /\ DOMAIN collected = Tests
    /\ DOMAIN written = Tests

\* Every field has a value for each test case.
LEMMA TypedFields == ASSUME Command!TypeOK PROVE Fields
  BY SameTests DEF Command!TypeOK, Fields

\* A step of command i leaves the others alone.
Others(i) ==
    /\ started' = started
    /\ \A j \in Tests \ {i} :
        /\ executor'[j] = executor[j] /\ runner'[j] = runner[j]
        /\ status'[j] = status[j] /\ helpers'[j] = helpers[j]
        /\ script'[j] = script[j] /\ statusFile'[j] = statusFile[j]
        /\ program'[j] = program[j] /\ ending'[j] = ending[j]
        /\ commandResult'[j] = commandResult[j]
        /\ collected'[j] = collected[j] /\ written'[j] = written[j]

\* It is enough to look at the command that takes the step.
LEMMA OthersKeep ==
    ASSUME CommandInv, NEW i \in Tests, Others(i), CommandOk(i)'
    PROVE  \A j \in Tests : CommandOk(j)'
  BY DEF CommandInv, CommandOk, Others, BeginInv, ProcessInv, HelperInv,
         StatusInv, ExecutorInv

\* The thread of the executor.
LEMMA ExecutorKeeps ==
    ASSUME CommandInv, MaxPolls \in Nat, NEW i \in Tests, Command!Executor(i)
    PROVE  CommandInv'
PROOF
  <1> USE SameTests, ExecutorStatesAre, RunnerStatesAre, StatusesAre
     DEF Command!executorVars, Command!runnerVars, Command!helperVars,
     Command!processVars, Command!buildStepVars
  <1>1. Command!TypeOK /\ Fields /\ CommandOk(i)
    BY TypedFields DEF CommandInv
  <1>2. SUFFICES Command!TypeOK' /\ Others(i) /\ CommandOk(i)'
    BY OthersKeep DEF CommandInv
  <1>3. CASE Command!RunAsynchronous(i)
    <2> USE <1>3 DEF Command!RunAsynchronous, Command!ExecutorMove,
       Command!SetResult, Command!Exited, Command!IsRunning, Command!IsTimeout
    <2>1. Command!TypeOK'
      BY <1>1 DEF Command!TypeOK
    <2>2. Others(i)
      BY <1>1 DEF Others, Fields
    <2>3. CommandOk(i)'
      BY <1>1 DEF Fields, CommandOk, BeginInv, ProcessInv, HelperInv, StatusInv,
         ExecutorInv
    <2> QED BY <2>1, <2>2, <2>3
  <1>4. CASE Command!Poll(i)
    <2> USE <1>4 DEF Command!Poll, Command!ExecutorMove, Command!SetResult,
       Command!Exited, Command!IsRunning, Command!IsTimeout
    <2>1. Command!TypeOK'
      <3>1. /\ executor \in [Command!Tests -> Command!ExecutorStates]
            /\ polls \in [Command!Tests -> 0..MaxPolls]
        BY <1>1 DEF Command!TypeOK
      <3>2. executor' \in [Command!Tests -> Command!ExecutorStates]
        BY <3>1
      <3>3. polls' \in [Command!Tests -> 0..MaxPolls]
        BY <3>1
      <3> QED BY <1>1, <3>2, <3>3 DEF Command!TypeOK
    <2>2. Others(i)
      BY <1>1 DEF Others, Fields
    <2>3. CommandOk(i)'
      BY <1>1 DEF Fields, CommandOk, BeginInv, ProcessInv, HelperInv, StatusInv,
         ExecutorInv
    <2> QED BY <2>1, <2>2, <2>3
  <1>5. CASE Command!Destroy(i)
    <2> USE <1>5 DEF Command!Destroy, Command!ExecutorMove, Command!SetResult,
       Command!Exited, Command!IsRunning, Command!IsTimeout
    <2>1. Command!TypeOK'
      BY <1>1 DEF Command!TypeOK
    <2>2. Others(i)
      BY <1>1 DEF Others, Fields
    <2>3. CommandOk(i)'
      BY <1>1 DEF Fields, CommandOk, BeginInv, ProcessInv, HelperInv, StatusInv,
         ExecutorInv
    <2> QED BY <2>1, <2>2, <2>3
  <1>6. CASE Command!InterruptHelpers(i)
    <2> USE <1>6 DEF Command!InterruptHelpers, Command!ExecutorMove,
       Command!SetResult, Command!Exited, Command!IsRunning, Command!IsTimeout
    <2>1. Command!TypeOK'
      <3>1. executor \in [Command!Tests -> Command!ExecutorStates]
           
            /\ commandResult \in [Command!Tests -> Command!ProcessStatus \cup {"null"}]
        BY <1>1 DEF Command!TypeOK
      <3>2. executor' \in [Command!Tests -> Command!ExecutorStates]
        BY <3>1
      <3>3. commandResult' \in [Command!Tests -> Command!ProcessStatus \cup {"null"}]
        BY <3>1
      <3> QED BY <1>1, <3>2, <3>3 DEF Command!TypeOK
    <2>2. Others(i)
      BY <1>1 DEF Others, Fields
    <2>3. CommandOk(i)'
      BY <1>1 DEF Fields, CommandOk, BeginInv, ProcessInv, HelperInv, StatusInv,
         ExecutorInv
    <2> QED BY <2>1, <2>2, <2>3
  <1>7. CASE Command!GetStatus(i)
    <2> USE <1>7 DEF Command!GetStatus, Command!ExecutorMove, Command!SetResult,
       Command!Exited, Command!IsRunning, Command!IsTimeout
    <2>1. Command!TypeOK'
      <3>1. /\ executor \in [Command!Tests -> Command!ExecutorStates]
           
            /\ commandResult \in [Command!Tests -> Command!ProcessStatus \cup {"null"}]
        BY <1>1 DEF Command!TypeOK
      <3>2. executor' \in [Command!Tests -> Command!ExecutorStates]
        BY <3>1
      <3>3. commandResult' \in [Command!Tests -> Command!ProcessStatus \cup {"null"}]
        BY <3>1
      <3> QED BY <1>1, <3>2, <3>3 DEF Command!TypeOK
    <2>2. Others(i)
      BY <1>1 DEF Others, Fields
    <2>3. CommandOk(i)'
      BY <1>1 DEF Fields, CommandOk, BeginInv, ProcessInv, HelperInv, StatusInv,
         ExecutorInv
    <2> QED BY <2>1, <2>2, <2>3
  <1>8. CASE Command!ReadStatusAgain(i)
    <2> USE <1>8 DEF Command!ReadStatusAgain, Command!ExecutorMove,
       Command!SetResult, Command!Exited, Command!IsRunning, Command!IsTimeout
    <2>1. Command!TypeOK'
      <3>1. executor \in [Command!Tests -> Command!ExecutorStates]
            /\ status \in [Command!Tests -> Command!ProcessStatus \ {"TIMED_OUT"}]
            /\ commandResult \in [Command!Tests -> Command!ProcessStatus \cup {"null"}]
        BY <1>1 DEF Command!TypeOK
      <3>2. executor' \in [Command!Tests -> Command!ExecutorStates]
        BY <3>1
      <3>3. status' \in [Command!Tests -> Command!ProcessStatus \ {"TIMED_OUT"}]
        BY <3>1
      <3>4. commandResult' \in [Command!Tests -> Command!ProcessStatus \cup {"null"}]
        BY <3>1
      <3> QED BY <1>1, <3>2, <3>3, <3>4 DEF Command!TypeOK
    <2>2. Others(i)
      BY <1>1 DEF Others, Fields
    <2>3. CommandOk(i)'
      BY <1>1 DEF Fields, CommandOk, BeginInv, ProcessInv, HelperInv, StatusInv,
         ExecutorInv
    <2> QED BY <2>1, <2>2, <2>3
  <1>9. CASE Command!TakeOutput(i)
    <2> USE <1>9 DEF Command!TakeOutput, Command!ExecutorMove,
       Command!SetResult, Command!Exited, Command!IsRunning, Command!IsTimeout
    <2>1. Command!TypeOK'
      <3>1. /\ executor \in [Command!Tests -> Command!ExecutorStates]
           
            /\ commandResult \in [Command!Tests -> Command!ProcessStatus \cup {"null"}]
        BY <1>1 DEF Command!TypeOK
      <3>2. executor' \in [Command!Tests -> Command!ExecutorStates]
        BY <3>1
      <3>3. commandResult' \in [Command!Tests -> Command!ProcessStatus \cup {"null"}]
        BY <3>1
      <3> QED BY <1>1, <3>2, <3>3 DEF Command!TypeOK
    <2>2. Others(i)
      BY <1>1 DEF Others, Fields
    <2>3. CommandOk(i)'
      BY <1>1 DEF Fields, CommandOk, BeginInv, ProcessInv, HelperInv, StatusInv,
         ExecutorInv
    <2> QED BY <2>1, <2>2, <2>3
  <1> QED BY <1>3, <1>4, <1>5, <1>6, <1>7, <1>8, <1>9 DEF Command!Executor

\* The thread of the ProcessRunner.
LEMMA RunnerKeeps ==
    ASSUME CommandInv, NEW i \in Tests, Command!Runner(i)
    PROVE  CommandInv'
PROOF
  <1> USE SameTests, ExecutorStatesAre, RunnerStatesAre, StatusesAre
     DEF Command!executorVars, Command!runnerVars, Command!helperVars,
     Command!processVars, Command!buildStepVars
  <1>1. Command!TypeOK /\ Fields /\ CommandOk(i)
    BY TypedFields DEF CommandInv
  <1>2. SUFFICES Command!TypeOK' /\ Others(i) /\ CommandOk(i)'
    BY OthersKeep DEF CommandInv
  <1>3. CASE Command!CannotRun(i)
    <2> USE <1>3 DEF Command!CannotRun, Command!RunnerMove, Command!Exited
    <2>1. Command!TypeOK'
      <3>1. runner \in [Command!Tests -> Command!RunnerStates]
        BY <1>1 DEF Command!TypeOK
      <3>2. runner' \in [Command!Tests -> Command!RunnerStates]
        BY <3>1
      <3> QED BY <1>1, <3>2 DEF Command!TypeOK
    <2>2. Others(i)
      BY <1>1 DEF Others, Fields
    <2>3. CommandOk(i)'
      BY <1>1 DEF Fields, CommandOk, BeginInv, ProcessInv, HelperInv, StatusInv,
         ExecutorInv
    <2> QED BY <2>1, <2>2, <2>3
  <1>4. CASE Command!CreateStatusFile(i)
    <2> USE <1>4 DEF Command!CreateStatusFile, Command!RunnerMove, Command!Exited
    <2>1. Command!TypeOK'
      BY <1>1 DEF Command!TypeOK
    <2>2. Others(i)
      BY <1>1 DEF Others, Fields
    <2>3. CommandOk(i)'
      BY <1>1 DEF Fields, CommandOk, BeginInv, ProcessInv, HelperInv, StatusInv,
         ExecutorInv
    <2> QED BY <2>1, <2>2, <2>3
  <1>5. CASE Command!Exec(i)
    <2> USE <1>5 DEF Command!Exec, Command!RunnerMove, Command!Exited
    <2>1. Command!TypeOK'
      BY <1>1 DEF Command!TypeOK
    <2>2. Others(i)
      BY <1>1 DEF Others, Fields
    <2>3. CommandOk(i)'
      BY <1>1 DEF Fields, CommandOk, BeginInv, ProcessInv, HelperInv, StatusInv,
         ExecutorInv
    <2> QED BY <2>1, <2>2, <2>3
  <1>6. CASE Command!StartHelpers(i)
    <2> USE <1>6 DEF Command!StartHelpers, Command!RunnerMove, Command!Exited
    <2>1. Command!TypeOK'
      BY <1>1 DEF Command!TypeOK
    <2>2. Others(i)
      BY <1>1 DEF Others, Fields
    <2>3. CommandOk(i)'
      BY <1>1 DEF Fields, CommandOk, BeginInv, ProcessInv, HelperInv, StatusInv,
         ExecutorInv
    <2> QED BY <2>1, <2>2, <2>3
  <1>7. CASE Command!WaitForProcess(i)
    <2> USE <1>7 DEF Command!WaitForProcess, Command!RunnerMove, Command!Exited
    <2>1. Command!TypeOK'
      BY <1>1 DEF Command!TypeOK
    <2>2. Others(i)
      BY <1>1 DEF Others, Fields
    <2>3. CommandOk(i)'
      BY <1>1 DEF Fields, CommandOk, BeginInv, ProcessInv, HelperInv, StatusInv,
         ExecutorInv
    <2> QED BY <2>1, <2>2, <2>3
  <1>8. CASE Command!JoinHelpers(i)
    <2> USE <1>8 DEF Command!JoinHelpers, Command!RunnerMove, Command!Exited
    <2>1. Command!TypeOK'
      BY <1>1 DEF Command!TypeOK
    <2>2. Others(i)
      BY <1>1 DEF Others, Fields
    <2>3. CommandOk(i)'
      BY <1>1 DEF Fields, CommandOk, BeginInv, ProcessInv, HelperInv, StatusInv,
         ExecutorInv
    <2> QED BY <2>1, <2>2, <2>3
  <1>9. CASE Command!ReadExitStatus(i)
    <2> USE <1>9 DEF Command!ReadExitStatus, Command!RunnerMove, Command!Exited
    <2>0. PICK st \in Command!ProcessStatus \ {"TIMED_OUT"} :
                   /\ status' = [status EXCEPT ![i] = st]
                   /\ st = "EXITED" => statusFile[i] \in {"success", "otherCode"}
      <3>1. statusFile[i] \in Command!ProgramEndings \cup {"none"}
        BY <1>1 DEF Command!TypeOK
      <3>2. CASE statusFile[i] = "none"
        BY <3>2
      <3>3. CASE statusFile[i] # "none"
        BY <3>1, <3>3, StatusOfEnding
      <3> QED BY <3>2, <3>3
    <2>1. Command!TypeOK'
      <3>1. /\ runner \in [Command!Tests -> Command!RunnerStates]
            /\ status \in [Command!Tests -> Command!ProcessStatus \ {"TIMED_OUT"}]
        BY <1>1 DEF Command!TypeOK
      <3>2. runner' \in [Command!Tests -> Command!RunnerStates]
        BY <3>1, <2>0
      <3>3. status' \in [Command!Tests -> Command!ProcessStatus \ {"TIMED_OUT"}]
        BY <3>1, <2>0
      <3> QED BY <1>1, <3>2, <3>3 DEF Command!TypeOK
    <2>2. Others(i)
      BY <1>1, <2>0 DEF Others, Fields
    <2>3. CommandOk(i)'
      BY <1>1, <2>0 DEF Fields, CommandOk, BeginInv, ProcessInv, HelperInv,
         StatusInv, ExecutorInv
    <2> QED BY <2>1, <2>2, <2>3
  <1> QED BY <1>3, <1>4, <1>5, <1>6, <1>7, <1>8, <1>9 DEF Command!Runner

\* The helpers.
LEMMA HelpersKeep ==
    ASSUME CommandInv, NEW i \in Tests, Command!Helpers(i) \/ Command!CutShort(i)
    PROVE  CommandInv'
PROOF
  <1> USE SameTests, ExecutorStatesAre, RunnerStatesAre, StatusesAre
     DEF Command!executorVars, Command!runnerVars, Command!helperVars,
     Command!processVars, Command!buildStepVars
  <1>1. Command!TypeOK /\ Fields /\ CommandOk(i)
    BY TypedFields DEF CommandInv
  <1>2. SUFFICES Command!TypeOK' /\ Others(i) /\ CommandOk(i)'
    BY OthersKeep DEF CommandInv
  <1>3. CASE Command!CollectLine(i)
    <2> USE <1>3 DEF Command!CollectLine, Command!HelperStep, Command!Exited,
       Command!OutputOver
    <2>1. Command!TypeOK'
      <3>1. /\ collected' = [collected EXCEPT ![i] = collected[i] + 1]
            /\ collected[i] < Len(written[i]) /\ written' = written
        OBVIOUS
      <3>2. /\ collected \in [Command!Tests -> Nat]
            /\ \A j \in Command!Tests : collected[j] <= Len(written[j])
            /\ written[i] \in Seq(BOOLEAN)
        BY <1>1 DEF Command!TypeOK
      <3>3. Len(written[i]) \in Nat
        BY <3>2, LenProperties
      <3>4. /\ collected' \in [Command!Tests -> Nat]
            /\ \A j \in Command!Tests : collected'[j] <= Len(written'[j])
        <4> HIDE <1>3
        <4>1. i \in Command!Tests
          OBVIOUS
        <4>2. collected[i] \in Nat
          BY <3>2, <4>1
        <4>3. collected[i] + 1 \in Nat /\ collected[i] + 1 <= Len(written[i])
          BY <3>1, <3>3, <4>2
        <4> QED BY <3>1, <3>2, <4>3
      <3> QED BY <1>1, <3>4 DEF Command!TypeOK
    <2>2. Others(i)
      BY <1>1 DEF Others, Fields
    <2>3. CommandOk(i)'
      BY <1>1 DEF Fields, CommandOk, BeginInv, ProcessInv, HelperInv, StatusInv,
         ExecutorInv
    <2> QED BY <2>1, <2>2, <2>3
  <1>4. CASE Command!ReachEnd(i)
    <2> USE <1>4 DEF Command!ReachEnd, Command!HelperStep, Command!Exited,
       Command!OutputOver
    <2>1. Command!TypeOK'
      BY <1>1 DEF Command!TypeOK
    <2>2. Others(i)
      BY <1>1 DEF Others, Fields
    <2>3. CommandOk(i)'
      BY <1>1 DEF Fields, CommandOk, BeginInv, ProcessInv, HelperInv, StatusInv,
         ExecutorInv
    <2> QED BY <2>1, <2>2, <2>3
  <1>5. CASE Command!CutShort(i)
    <2> USE <1>5 DEF Command!CutShort, Command!HelperStep, Command!Exited,
       Command!OutputOver
    <2>1. Command!TypeOK'
      BY <1>1 DEF Command!TypeOK
    <2>2. Others(i)
      BY <1>1 DEF Others, Fields
    <2>3. CommandOk(i)'
      BY <1>1 DEF Fields, CommandOk, BeginInv, ProcessInv, HelperInv, StatusInv,
         ExecutorInv
    <2> QED BY <2>1, <2>2, <2>3
  <1> QED BY <1>3, <1>4, <1>5 DEF Command!Helpers, Command!CutShort

\* The program and its script.
LEMMA ProgramKeeps ==
    ASSUME CommandInv, problem.endings \subseteq Command!ProgramEndings,
           NEW i \in Tests, Command!Program(i) \/ Command!ScriptEnds(i)
    PROVE  CommandInv'
PROOF
  <1> USE SameTests, ExecutorStatesAre, RunnerStatesAre, StatusesAre
     DEF Command!executorVars, Command!runnerVars, Command!helperVars,
     Command!processVars, Command!buildStepVars
  <1>1. Command!TypeOK /\ Fields /\ CommandOk(i)
    BY TypedFields DEF CommandInv
  <1>2. SUFFICES Command!TypeOK' /\ Others(i) /\ CommandOk(i)'
    BY OthersKeep DEF CommandInv
  <1>3. CASE Command!WriteLine(i)
    <2> USE <1>3 DEF Command!WriteLine, Command!ProcessStep
    <2>1. Command!TypeOK'
      <3>1. /\ written \in [Command!Tests -> Seq(BOOLEAN)]
            /\ collected \in [Command!Tests -> Nat]
            /\ \A j \in Command!Tests : collected[j] <= Len(written[j])
        BY <1>1 DEF Command!TypeOK
      <3>2. PICK match \in BOOLEAN : written' = [written EXCEPT ![i] = Append(@, match)]
        OBVIOUS
      <3>3. /\ Append(written[i], match) \in Seq(BOOLEAN)
            /\ Len(Append(written[i], match)) = Len(written[i]) + 1
            /\ Len(written[i]) \in Nat
        BY <3>1, AppendProperties
      <3>4. written' \in [Command!Tests -> Seq(BOOLEAN)]
        BY <3>1, <3>2, <3>3
      <3>5. ASSUME NEW j \in Command!Tests
            PROVE  collected[j] <= Len(written'[j])
        <4>1. CASE j = i
          <5>1. written'[i] = Append(written[i], match)
            BY <3>1, <3>2
          <5>2. collected[i] <= Len(written[i]) /\ collected[i] \in Nat
            BY <3>1
          <5> QED BY <3>3, <4>1, <5>1, <5>2
        <4>2. CASE j # i
          <5>1. written'[j] = written[j]
            BY <3>1, <3>2, <4>2
          <5> QED BY <3>1, <5>1
        <4> QED BY <4>1, <4>2
      <3> QED BY <1>1, <3>4, <3>5 DEF Command!TypeOK
    <2>2. Others(i)
      BY <1>1 DEF Others, Fields
    <2>3. CommandOk(i)'
      BY <1>1 DEF Fields, CommandOk, BeginInv, ProcessInv, HelperInv, StatusInv,
         ExecutorInv
    <2> QED BY <2>1, <2>2, <2>3
  <1>4. CASE Command!ProgramEnds(i)
    <2> USE <1>4 DEF Command!ProgramEnds, Command!ProcessStep
    <2>0. PICK e \in Command!ProgramEndings, after \in {"gone", "lingers"} :
                   /\ ending' = [ending EXCEPT ![i] = e]
                   /\ program' = [program EXCEPT ![i] = after]
      OBVIOUS
    <2>1. Command!TypeOK'
      <3>1. /\ ending \in [Command!Tests -> Command!ProgramEndings \cup {"none"}]
            /\ program \in [Command!Tests -> {"none", "runs", "lingers", "gone"}]
        BY <1>1 DEF Command!TypeOK
      <3>2. ending' \in [Command!Tests -> Command!ProgramEndings \cup {"none"}]
        BY <2>0, <3>1
      <3>3. program' \in [Command!Tests -> {"none", "runs", "lingers", "gone"}]
        BY <2>0, <3>1
      <3> QED BY <1>1, <3>2, <3>3 DEF Command!TypeOK
    <2>2. Others(i)
      BY <1>1, <2>0, EndingsAre DEF Others, Fields
    <2>3. CommandOk(i)'
      BY <1>1, <2>0, EndingsAre DEF Fields, CommandOk, BeginInv, ProcessInv,
         HelperInv, StatusInv, ExecutorInv
    <2> QED BY <2>1, <2>2, <2>3
  <1>5. CASE Command!ChildEnds(i)
    <2> USE <1>5 DEF Command!ChildEnds, Command!ProcessStep
    <2>1. Command!TypeOK'
      BY <1>1 DEF Command!TypeOK
    <2>2. Others(i)
      BY <1>1 DEF Others, Fields
    <2>3. CommandOk(i)'
      BY <1>1 DEF Fields, CommandOk, BeginInv, ProcessInv, HelperInv, StatusInv,
         ExecutorInv
    <2> QED BY <2>1, <2>2, <2>3
  <1>6. CASE Command!ScriptEnds(i)
    <2> USE <1>6 DEF Command!ScriptEnds, Command!ProcessStep
    <2>1. Command!TypeOK'
      BY <1>1 DEF Command!TypeOK
    <2>2. Others(i)
      BY <1>1 DEF Others, Fields
    <2>3. CommandOk(i)'
      BY <1>1 DEF Fields, CommandOk, BeginInv, ProcessInv, HelperInv, StatusInv,
         ExecutorInv
    <2> QED BY <2>1, <2>2, <2>3
  <1> QED BY <1>3, <1>4, <1>5, <1>6 DEF Command!Program, Command!ScriptEnds

-----------------------------------------------------------------------------
(* The steps of the sandbox.                                               *)

\* The results of a task, and what the manager adds to them.
LEMMA OutcomesAre ==
    /\ Sandbox!TestResults \cup {"null", "timeout"} \subseteq Sandbox!Outcomes
    /\ "exception" \in Sandbox!TestResults
    /\ "null" \notin Sandbox!TestResults /\ "timeout" \notin Sandbox!TestResults
  BY DEF Sandbox!Outcomes, Sandbox!TestResults

\* KillableTaskManager.
LEMMA ManagerKeeps ==
    ASSUME SandboxInv, MaxTests \in Nat, NumPauses \in Nat,
           problem.tests \in 1..MaxTests, 1..problem.tests \subseteq Tests,
           Sandbox!Manager
    PROVE  SandboxInv'
PROOF
  <1> USE SameTests DEF Sandbox!workerVars, Sandbox!managerVars
  <1>1. Sandbox!TypeOK /\ TaskInv /\ ManagerInv
    BY DEF SandboxInv
  <1>2. SUFFICES Sandbox!TypeOK' /\ TaskInv' /\ ManagerInv'
    BY DEF SandboxInv
  <1>3. CASE Sandbox!StartPool
    <2> USE <1>3 DEF Sandbox!StartPool
    <2>1. Sandbox!TypeOK'
      BY <1>1, OutcomesAre DEF Sandbox!TypeOK, ManagerInv
    <2>2. TaskInv'
      BY <1>1, OutcomesAre DEF Sandbox!TypeOK, TaskInv, ManagerInv
    <2>3. ManagerInv'
      BY <1>1, OutcomesAre DEF Sandbox!TypeOK, TaskInv, ManagerInv, Settled
    <2> QED BY <2>1, <2>2, <2>3
  <1>4. CASE Sandbox!Pause
    <2> USE <1>4 DEF Sandbox!Pause
    <2>1. Sandbox!TypeOK'
      BY <1>1, OutcomesAre DEF Sandbox!TypeOK, ManagerInv
    <2>2. TaskInv'
      BY <1>1, OutcomesAre DEF Sandbox!TypeOK, TaskInv, ManagerInv
    <2>3. ManagerInv'
      BY <1>1, OutcomesAre DEF Sandbox!TypeOK, TaskInv, ManagerInv, Settled
    <2> QED BY <2>1, <2>2, <2>3
  <1>5. CASE Sandbox!Poll
    <2> USE <1>5 DEF Sandbox!Poll, Sandbox!IsAlive
    <2>1. Sandbox!TypeOK'
      BY <1>1, OutcomesAre DEF Sandbox!TypeOK
    <2>2. TaskInv'
      BY <1>1, OutcomesAre DEF Sandbox!TypeOK, TaskInv, ManagerInv
    <2>3. ManagerInv'
      BY <1>1, OutcomesAre DEF Sandbox!TypeOK, TaskInv, ManagerInv, Settled
    <2> QED BY <2>1, <2>2, <2>3
  <1>6. CASE Sandbox!ThreadEnded
    <2> USE <1>6 DEF Sandbox!ThreadEnded, Sandbox!NextThread, Sandbox!IsAlive
    <2>1. Sandbox!TypeOK'
      BY <1>1, OutcomesAre DEF Sandbox!TypeOK
    <2>2. TaskInv'
      BY <1>1, OutcomesAre DEF Sandbox!TypeOK, TaskInv, ManagerInv
    <2>3. ManagerInv'
      BY <1>1, OutcomesAre DEF Sandbox!TypeOK, TaskInv, ManagerInv, Settled
    <2> QED BY <2>1, <2>2, <2>3
  <1>7. CASE Sandbox!StopThread
    <2> USE <1>7 DEF Sandbox!StopThread, Sandbox!IsAlive
    <2>1. Sandbox!TypeOK'
      BY <1>1, OutcomesAre DEF Sandbox!TypeOK
    <2>2. TaskInv'
      BY <1>1, OutcomesAre DEF Sandbox!TypeOK, TaskInv, ManagerInv
    <2>3. ManagerInv'
      BY <1>1, OutcomesAre DEF Sandbox!TypeOK, TaskInv, ManagerInv, Settled
    <2> QED BY <2>1, <2>2, <2>3
  <1>8. CASE Sandbox!HandleTimeout
    <2> USE <1>8 DEF Sandbox!HandleTimeout
    <2>1. Sandbox!TypeOK'
      BY <1>1, OutcomesAre DEF Sandbox!TypeOK
    <2>2. TaskInv'
      BY <1>1, OutcomesAre DEF Sandbox!TypeOK, TaskInv, ManagerInv
    <2>3. ManagerInv'
      BY <1>1, OutcomesAre DEF Sandbox!TypeOK, TaskInv, ManagerInv, Settled
    <2> QED BY <2>1, <2>2, <2>3
  <1>9. CASE Sandbox!GetOutcome
    <2> USE <1>9 DEF Sandbox!GetOutcome, Sandbox!NextThread
    <2>1. Sandbox!TypeOK'
      BY <1>1, OutcomesAre DEF Sandbox!TypeOK
    <2>2. TaskInv'
      BY <1>1, OutcomesAre DEF Sandbox!TypeOK, TaskInv, ManagerInv
    <2>3. ManagerInv'
      BY <1>1, OutcomesAre DEF Sandbox!TypeOK, TaskInv, ManagerInv, Settled
    <2> QED BY <2>1, <2>2, <2>3
  <1> QED BY <1>3, <1>4, <1>5, <1>6, <1>7, <1>8, <1>9 DEF Sandbox!Manager

\* The threads and their tasks.
LEMMA TaskKeeps ==
    ASSUME SandboxInv, MaxTests \in Nat, NumPauses \in Nat,
           problem.tests \in 1..MaxTests, 1..problem.tests \subseteq Tests,
           NEW i \in Tests, Sandbox!Worker(i) \/ Sandbox!Task(i)
    PROVE  SandboxInv'
PROOF
  <1> USE SameTests DEF Sandbox!workerVars, Sandbox!managerVars
  <1>1. Sandbox!TypeOK /\ TaskInv /\ ManagerInv
    BY DEF SandboxInv
  <1>2. SUFFICES Sandbox!TypeOK' /\ TaskInv' /\ ManagerInv'
    BY DEF SandboxInv
  <1>3. CASE Sandbox!TaskReturns(i)
    <2> USE <1>3 DEF Sandbox!TaskReturns, Sandbox!WorkerMove
    <2>1. Sandbox!TypeOK'
      BY <1>1, OutcomesAre DEF Sandbox!TypeOK
    <2>2. TaskInv'
      BY <1>1, OutcomesAre DEF Sandbox!TypeOK, TaskInv, ManagerInv
    <2>3. ManagerInv'
      BY <1>1, OutcomesAre DEF Sandbox!TypeOK, TaskInv, ManagerInv, Settled
    <2> QED BY <2>1, <2>2, <2>3
  <1>4. CASE Sandbox!TaskThrows(i)
    <2> USE <1>4 DEF Sandbox!TaskThrows, Sandbox!WorkerMove
    <2>1. Sandbox!TypeOK'
      BY <1>1, OutcomesAre DEF Sandbox!TypeOK
    <2>2. TaskInv'
      BY <1>1, OutcomesAre DEF Sandbox!TypeOK, TaskInv, ManagerInv
    <2>3. ManagerInv'
      BY <1>1, OutcomesAre DEF Sandbox!TypeOK, TaskInv, ManagerInv, Settled
    <2> QED BY <2>1, <2>2, <2>3
  <1>5. CASE Sandbox!StoreResult(i)
    <2> USE <1>5 DEF Sandbox!StoreResult, Sandbox!WorkerMove
    <2>1. Sandbox!TypeOK'
      BY <1>1, OutcomesAre DEF Sandbox!TypeOK
    <2>2. TaskInv'
      BY <1>1, OutcomesAre DEF Sandbox!TypeOK, TaskInv, ManagerInv
    <2>3. ManagerInv'
      BY <1>1, OutcomesAre DEF Sandbox!TypeOK, TaskInv, ManagerInv, Settled
    <2> QED BY <2>1, <2>2, <2>3
  <1>6. CASE Sandbox!SetFinished(i)
    <2> USE <1>6 DEF Sandbox!SetFinished, Sandbox!WorkerMove
    <2>1. Sandbox!TypeOK'
      BY <1>1, OutcomesAre DEF Sandbox!TypeOK
    <2>2. TaskInv'
      BY <1>1, OutcomesAre DEF Sandbox!TypeOK, TaskInv, ManagerInv
    <2>3. ManagerInv'
      BY <1>1, OutcomesAre DEF Sandbox!TypeOK, TaskInv, ManagerInv, Settled
    <2> QED BY <2>1, <2>2, <2>3
  <1>7. CASE Sandbox!ThreadDies(i)
    <2> USE <1>7 DEF Sandbox!ThreadDies, Sandbox!WorkerMove
    <2>1. Sandbox!TypeOK'
      BY <1>1, OutcomesAre DEF Sandbox!TypeOK
    <2>2. TaskInv'
      BY <1>1, OutcomesAre DEF Sandbox!TypeOK, TaskInv, ManagerInv
    <2>3. ManagerInv'
      BY <1>1, OutcomesAre DEF Sandbox!TypeOK, TaskInv, ManagerInv, Settled
    <2> QED BY <2>1, <2>2, <2>3
  <1>8. CASE Sandbox!StopArrives(i)
    <2> USE <1>8 DEF Sandbox!StopArrives, Sandbox!WorkerMove
    <2>1. Sandbox!TypeOK'
      BY <1>1, OutcomesAre DEF Sandbox!TypeOK
    <2>2. TaskInv'
      BY <1>1, OutcomesAre DEF Sandbox!TypeOK, TaskInv, ManagerInv
    <2>3. ManagerInv'
      BY <1>1, OutcomesAre DEF Sandbox!TypeOK, TaskInv, ManagerInv, Settled
    <2> QED BY <2>1, <2>2, <2>3
  <1> QED BY <1>3, <1>4, <1>5, <1>6, <1>7, <1>8 DEF Sandbox!Worker, Sandbox!Task

-----------------------------------------------------------------------------
(* The steps of the tester, and all together.                              *)

\* What the assumption says of the problem that is tested.
LEMMA ProblemFacts ==
    ASSUME TestAssumption, problem \in Problems
    PROVE  /\ MaxTests \in Nat /\ MaxPolls \in Nat /\ NumPauses \in Nat
           /\ problem.tests \in 1..MaxTests
           /\ 1..problem.tests \subseteq Tests
           /\ problem.endings \subseteq Command!ProgramEndings
  BY DEF TestAssumption, Tests, Command!ProgramEndings

\* The invariant holds at the start of testSubmission.
LEMMA TestInvInit == ASSUME TestAssumption, Init PROVE TestInv
PROOF
  <1> USE SameTests DEF Init
  <1>1. problem \in Problems
    BY DEF Command!Init
  <1>2. Command!TypeOK
    <2>1. /\ started \in 0..problem.tests /\ joined \in 0..started /\ directory \in BOOLEAN
          /\ polls \in [Command!Tests -> 0..MaxPolls]
      <3>1. /\ 0 \in 0..MaxPolls /\ 0 \in 0..problem.tests
            /\ 0 \in 0..0
        BY <1>1, ProblemFacts
      <3> QED BY <3>1 DEF Command!Init, Command!All
    <2>2.
            /\ executor \in [Command!Tests -> Command!ExecutorStates]
          /\ runner \in [Command!Tests -> Command!RunnerStates]
      BY DEF Command!Init, Command!All, Command!ExecutorStates, Command!RunnerStates
    <2>3. /\ status \in [Command!Tests -> Command!ProcessStatus \ {"TIMED_OUT"}]
          /\ commandResult \in [Command!Tests -> Command!ProcessStatus \cup {"null"}]
      BY StatusesAre DEF Command!Init, Command!All, Command!ProcessStatus
    <2>4. /\ helpers \in [Command!Tests -> {"none", "at work", "ended"}]
          /\ script \in [Command!Tests -> {"none", "waits", "gone", "destroyed"}]
          /\ statusFile \in [Command!Tests -> Command!ProgramEndings \cup {"none"}]
          /\ program \in [Command!Tests -> {"none", "runs", "lingers", "gone"}]
          /\ ending \in [Command!Tests -> Command!ProgramEndings \cup {"none"}]
      BY DEF Command!Init, Command!All
    <2>5. /\ written \in [Command!Tests -> Seq(BOOLEAN)]
          /\ collected \in [Command!Tests -> Nat]
          /\ \A i \in Command!Tests : collected[i] <= Len(written[i])
      BY EmptySeq DEF Command!Init, Command!All
    <2> QED BY <1>1, <2>1, <2>2, <2>3, <2>4, <2>5 DEF Command!TypeOK
  <1>3. \A i \in Tests : CommandOk(i)
    BY DEF Command!Init, Command!All, CommandOk, BeginInv, ProcessInv, HelperInv,
           StatusInv, ExecutorInv
  <1>4. Sandbox!TypeOK
    BY <1>1, ProblemFacts, OutcomesAre DEF Sandbox!Init, Sandbox!All,
       Sandbox!TypeOK, TestAssumption
  <1>5. TaskInv /\ ManagerInv
    BY <1>1, ProblemFacts DEF Sandbox!Init, Sandbox!All, TaskInv, ManagerInv,
       TestAssumption
  <1>6. TesterInv
    BY DEF TesterInv, TesterType, VerdictInv, CommandJudged, TestOutcome,
       UsesCommands
  <1> QED BY <1>2, <1>3, <1>4, <1>5, <1>6 DEF TestInv, CommandInv, SandboxInv

\* What the directory is does not matter to the commands.
LEMMA DirectoryOnly ==
    ASSUME CommandInv, directory' \in BOOLEAN,
           UNCHANGED <<problem, commandVarsButDirectory>>
    PROVE  CommandInv'
  BY DEF CommandInv, commandVarsButDirectory, Command!TypeOK, CommandOk, BeginInv,
         ProcessInv, HelperInv, StatusInv, ExecutorInv

\* Nothing happens to the sandbox while its variables stay.
LEMMA SandboxRests ==
    ASSUME SandboxInv, UNCHANGED <<problem, sandboxVars>>
    PROVE  SandboxInv'
  BY DEF SandboxInv, sandboxVars, Sandbox!TypeOK, TaskInv, ManagerInv, Settled

\* The build step of the commands.
LEMMA BuildStepKeeps ==
    ASSUME CommandInv, problem.tests \in 1..MaxTests, 1..problem.tests \subseteq Tests,
           Command!BuildStep
    PROVE  CommandInv'
PROOF
  <1> USE SameTests, ExecutorStatesAre DEF Command!executorVars,
     Command!runnerVars, Command!helperVars, Command!processVars,
     Command!buildStepVars
  <1>1. started \in 0..problem.tests /\ joined \in 0..started
    BY DEF CommandInv, Command!TypeOK
  <1>2. CASE Command!StartExecutor
    <2> USE <1>2 DEF Command!StartExecutor
    <2>1. started < problem.tests /\ started' = started + 1 /\ problem' = problem
      OBVIOUS
    <2>2. /\ started + 1 \in Tests /\ started \in Nat /\ started' \in 0..problem.tests
          /\ joined \in 0..started'
      BY <1>1, <2>1
    <2>3. executor \in [Command!Tests -> Command!ExecutorStates]
      BY DEF CommandInv, Command!TypeOK
    <2>4. executor' \in [Command!Tests -> Command!ExecutorStates]
      BY <2>2, <2>3
    <2>5. Command!TypeOK'
      BY <2>2, <2>4 DEF CommandInv, Command!TypeOK
    <2>6. Fields /\ \A i \in Tests : CommandOk(i)
      BY TypedFields DEF CommandInv
    <2>7. ASSUME NEW i \in Tests PROVE CommandOk(i)'
      BY <2>2, <2>6 DEF Fields, CommandOk, BeginInv, ProcessInv, HelperInv,
         StatusInv, ExecutorInv
    <2> QED BY <2>5, <2>7 DEF CommandInv
  <1>3. CASE Command!JoinExecutor
    <2> USE <1>3 DEF Command!JoinExecutor
    <2>1. joined' \in 0..started
      BY <1>1
    <2>2. Command!TypeOK'
      BY <2>1 DEF CommandInv, Command!TypeOK
    <2>3. \A i \in Tests : CommandOk(i)'
      BY DEF CommandInv, CommandOk, BeginInv, ProcessInv, HelperInv, StatusInv,
         ExecutorInv
    <2> QED BY <2>2, <2>3 DEF CommandInv
  <1> QED BY <1>2, <1>3 DEF Command!BuildStep

\* A program that is gone stays as it is.
LEMMA RunIsOver ==
    ASSUME CommandInv, NEW i \in Tests,
           \/ Command!Executor(i) \/ Command!Runner(i) \/ Command!Helpers(i)
           \/ Command!CutShort(i) \/ Command!ScriptEnds(i) \/ Command!Program(i)
    PROVE  /\ problem' = problem
           /\ \A j \in Tests : program[j] = "gone" =>
                  /\ program'[j] = "gone" /\ ending'[j] = ending[j]
                  /\ written'[j] = written[j]
PROOF
  <1> USE DEF Command!executorVars, Command!runnerVars, Command!helperVars,
     Command!processVars, Command!buildStepVars
  <1>1. Fields /\ CommandOk(i)
    BY TypedFields DEF CommandInv
  <1>2. CASE Command!Executor(i)
    BY <1>2 DEF Command!Executor, Command!RunAsynchronous, Command!Poll,
       Command!Destroy,
       Command!InterruptHelpers, Command!GetStatus, Command!ReadStatusAgain, Command!TakeOutput,
       Command!ExecutorMove
  <1>3. CASE Command!Runner(i)
    BY <1>1, <1>3 DEF Command!Runner, Command!CannotRun,
       Command!CreateStatusFile, Command!Exec,
       Command!StartHelpers, Command!WaitForProcess, Command!JoinHelpers, Command!ReadExitStatus,
       Command!RunnerMove, Fields, CommandOk, BeginInv
  <1>4. CASE Command!Helpers(i) \/ Command!CutShort(i)
    BY <1>4 DEF Command!Helpers, Command!CollectLine, Command!ReachEnd,
       Command!CutShort, Command!HelperStep
  <1>5. CASE Command!ScriptEnds(i)
    BY <1>5 DEF Command!ScriptEnds, Command!ProcessStep
  <1>6. CASE Command!Program(i)
    BY <1>1, <1>6 DEF Command!Program, Command!WriteLine, Command!ProgramEnds,
       Command!ChildEnds,
       Command!ProcessStep, Fields
  <1> QED BY <1>2, <1>3, <1>4, <1>5, <1>6

\* The threads of a command, and its process.
LEMMA CommandStepKeeps ==
    ASSUME TestAssumption, TestInv, NEW i \in Tests, CommandStep(i)
    PROVE  TestInv'
PROOF
  <1>1. /\ \/ Command!Executor(i) \/ Command!Runner(i) \/ Command!Helpers(i)
           \/ Command!CutShort(i) \/ Command!ScriptEnds(i) \/ Command!Program(i)
        /\ UNCHANGED <<testerVars, sandboxVars>>
    BY DEF CommandStep
  <1>2. problem \in Problems
    BY DEF TestInv, CommandInv, Command!TypeOK
  <1>3. CommandInv'
    BY <1>1, <1>2, ProblemFacts, ExecutorKeeps, RunnerKeeps, HelpersKeep,
       ProgramKeeps DEF TestInv
  <1>4. SandboxInv'
    BY <1>1, SandboxRests DEF TestInv, testerVars
  <1>5. /\ problem' = problem
        /\ \A j \in Tests : program[j] = "gone" =>
               /\ program'[j] = "gone" /\ ending'[j] = ending[j]
               /\ written'[j] = written[j]
    BY <1>1, RunIsOver DEF TestInv
  <1>6. TesterType' /\ VerdictInv'
    BY <1>1 DEF TestInv, TesterInv, TesterType, VerdictInv, UsesCommands,
       testerVars, sandboxVars
  <1>7. UsesCommands' => \A j \in Tests : CommandJudged(j)'
    BY <1>1, <1>5 DEF TestInv, TesterInv, CommandJudged, UsesCommands,
       testerVars, Matches
  <1> QED BY <1>3, <1>4, <1>6, <1>7 DEF TestInv, TesterInv

\* The threads of the sandbox.
LEMMA SandboxStepKeeps ==
    ASSUME TestAssumption, TestInv, NEW i \in Tests, SandboxStep(i)
    PROVE  TestInv'
PROOF
  <1>1. (Sandbox!Worker(i) \/ Sandbox!Task(i)) /\ UNCHANGED <<testerVars, commandVars>>
    BY DEF SandboxStep
  <1>2. problem \in Problems
    BY DEF TestInv, CommandInv, Command!TypeOK
  <1>3. SandboxInv'
    BY <1>1, <1>2, ProblemFacts, TaskKeeps DEF TestInv
  <1>4. CommandInv'
    <2>1. directory \in BOOLEAN
      BY DEF TestInv, CommandInv, Command!TypeOK
    <2> QED BY <1>1, <2>1, DirectoryOnly DEF TestInv, testerVars, commandVars
  <1>5. at' = at /\ outcomes' = outcomes
    BY <1>1 DEF Sandbox!Worker, Sandbox!Task, Sandbox!StoreResult,
       Sandbox!SetFinished, Sandbox!ThreadDies,
       Sandbox!TaskReturns, Sandbox!TaskThrows, Sandbox!StopArrives, Sandbox!WorkerMove, Sandbox!managerVars
  <1>6. TesterInv'
    BY <1>1, <1>5 DEF TestInv, TesterInv, TesterType, VerdictInv, CommandJudged,
       Matches, UsesCommands,
       testerVars, commandVars, commandVarsButDirectory
  <1> QED BY <1>3, <1>4, <1>6 DEF TestInv


\* A command that exited, and was not killed, ran to its end.
LEMMA ExitedRan ==
    ASSUME CommandInv, NEW i \in Tests, commandResult[i] = "EXITED"
    PROVE  /\ program[i] = "gone" /\ statusFile[i] = ending[i]
           /\ ending[i] \in {"success", "otherCode"}
           /\ SubSeq(written[i], 1, collected[i]) = written[i]
PROOF
  <1>1. /\ program[i] = "gone" /\ statusFile[i] = ending[i]
        /\ ending[i] \in {"success", "otherCode"}
        /\ collected[i] = Len(written[i])
    BY DEF CommandInv, CommandOk, BeginInv, ProcessInv, HelperInv, StatusInv,
       ExecutorInv
  <1>2. written[i] \in Seq(BOOLEAN)
    BY SameTests DEF CommandInv, Command!TypeOK
  <1>3. SubSeq(written[i], 1, Len(written[i])) = written[i]
    BY <1>2
  <1> QED BY <1>1, <1>3

\* The thread of the Builder.
LEMMA BuilderKeeps ==
    ASSUME TestAssumption, TestInv, Builder
    PROVE  TestInv'
PROOF
  <1> USE DEF testerVars, commandVars
  <1>1. problem \in Problems /\ directory \in BOOLEAN
    BY DEF TestInv, CommandInv, Command!TypeOK
  <1>2. CommandInv /\ SandboxInv /\ TesterInv
    BY DEF TestInv
  <1>3. SUFFICES CommandInv' /\ SandboxInv' /\ TesterInv'
    BY DEF TestInv
  <1>4. CASE Compile
    <2>1. CommandInv' /\ SandboxInv'
      BY <1>1, <1>2, <1>4, DirectoryOnly, SandboxRests DEF Compile
    <2>2. TesterInv'
      BY <1>2, <1>4 DEF Compile, Complete, TesterInv, TesterType, VerdictInv,
         CommandJudged, UsesCommands
    <2> QED BY <2>1, <2>2
  <1>5. CASE CompileForEver
    <2>1. CommandInv' /\ SandboxInv'
      BY <1>1, <1>2, <1>5, DirectoryOnly, SandboxRests DEF CompileForEver
    <2>2. TesterInv'
      BY <1>2, <1>5 DEF CompileForEver, TesterInv, TesterType, VerdictInv,
         CommandJudged, UsesCommands
    <2> QED BY <2>1, <2>2
  <1>6. CASE Execute
    <2>1. TesterInv'
      BY <1>2, <1>6 DEF Execute, TesterInv, TesterType, VerdictInv,
         CommandJudged, UsesCommands
    <2>2. UNCHANGED problem
      BY <1>6 DEF Execute
    <2>3. CASE Command!BuildStep /\ UNCHANGED sandboxVars
      <3>1. CommandInv'
        BY <1>1, <1>2, <2>3, ProblemFacts, BuildStepKeeps
      <3>2. SandboxInv'
        BY <1>2, <2>2, <2>3, SandboxRests
      <3> QED BY <2>1, <3>1, <3>2
    <2>4. CASE Sandbox!Manager /\ UNCHANGED commandVars
      <3>1. SandboxInv'
        BY <1>1, <1>2, <2>4, ProblemFacts, ManagerKeeps
      <3>2. CommandInv'
        BY <1>1, <1>2, <2>2, <2>4, DirectoryOnly
      <3> QED BY <2>1, <3>1, <3>2
    <2> QED BY <1>6, <2>3, <2>4 DEF Execute
  <1>7. CASE ExecuteReturns
    <2>1. CommandInv' /\ SandboxInv'
      BY <1>1, <1>2, <1>7, DirectoryOnly, SandboxRests DEF ExecuteReturns
    <2>2. TesterInv'
      BY <1>2, <1>7 DEF ExecuteReturns, TesterInv, TesterType, VerdictInv,
         CommandJudged, UsesCommands,
         sandboxVars
    <2> QED BY <2>1, <2>2
  <1>8. CASE CheckCommands
    <2>1. CommandInv' /\ SandboxInv'
      BY <1>1, <1>2, <1>8, DirectoryOnly, SandboxRests DEF CheckCommands
    <2>2. TesterType'
      BY <1>8, <1>2 DEF CheckCommands, Complete, TesterInv, TesterType,
         TestResultOf, TestOutcome
    <2>3. VerdictInv'
      BY <1>2, <1>8, <1>1, ProblemFacts, SameTests
         DEF CheckCommands, Complete, VerdictInv, TestResultOf, UsesCommands,
            CommandInv, Command!TypeOK,
             Command!ProcessStatus
    <2>4. ASSUME NEW i \in Tests PROVE CommandJudged(i)'
      BY <1>2, <1>8, ExitedRan
         DEF CheckCommands, CommandJudged, TestResultOf, ExitedWell, Matches,
            commandVarsButDirectory
    <2> QED BY <2>1, <2>2, <2>3, <2>4 DEF TesterInv
  <1>9. CASE CheckThrows
    <2>1. CommandInv' /\ SandboxInv'
      BY <1>1, <1>2, <1>9, DirectoryOnly, SandboxRests DEF CheckThrows
    <2>2. TesterInv'
      BY <1>2, <1>9 DEF CheckThrows, Complete, TesterInv, TesterType,
         VerdictInv, CommandJudged,
         UsesCommands
    <2> QED BY <2>1, <2>2
  <1>10. CASE TakeOutcomes
    <2>1. CommandInv' /\ SandboxInv'
      BY <1>1, <1>2, <1>10, DirectoryOnly, SandboxRests DEF TakeOutcomes
    <2>2. TesterType'
      BY <1>2, <1>10, SameTests DEF TakeOutcomes, Complete, TesterInv,
         TesterType, TestOutcome,
         SandboxInv, Sandbox!TypeOK, Sandbox!Outcomes, Sandbox!TestResults
    <2>3. VerdictInv'
      BY <1>2, <1>10 DEF TakeOutcomes, Complete, TesterInv, VerdictInv,
         UsesCommands, sandboxVars
    <2> QED BY <1>10, <2>1, <2>2, <2>3 DEF TakeOutcomes, TesterInv, UsesCommands
  <1>11. CASE CleanUp
    <2>1. CommandInv' /\ SandboxInv'
      BY <1>1, <1>2, <1>11, DirectoryOnly, SandboxRests DEF CleanUp
    <2>2. TesterInv'
      BY <1>2, <1>11 DEF CleanUp, TesterInv, TesterType, VerdictInv, CommandJudged,
         UsesCommands, sandboxVars, commandVarsButDirectory, Matches
    <2> QED BY <2>1, <2>2
  <1> QED BY <1>4, <1>5, <1>6, <1>7, <1>8, <1>9, <1>10, <1>11 DEF Builder

-----------------------------------------------------------------------------
(* The theorems.                                                           *)

\* The invariant that carries the others, of Builder2.testSubmission with the
\* threads it starts.
THEOREM TestInvariant == Spec => []TestInv
PROOF
  <1>1. Init => TestInv
    BY TestAssumption, TestInvInit
  <1>2. TestInv /\ [Next]_vars => TestInv'
    <2> SUFFICES ASSUME TestInv, [Next]_vars PROVE TestInv'
      OBVIOUS
    <2>1. CASE Builder
      BY <2>1, TestAssumption, BuilderKeeps
    <2>2. CASE \E i \in Tests : CommandStep(i) \/ SandboxStep(i)
      BY <2>2, TestAssumption, CommandStepKeeps, SandboxStepKeeps
    <2>3. CASE UNCHANGED vars
      <3>1. CommandInv' /\ SandboxInv'
        BY <2>3, DirectoryOnly, SandboxRests
           DEF TestInv, CommandInv, Command!TypeOK, vars, testerVars, commandVars
      <3>2. TesterInv'
        BY <2>3 DEF TestInv, TesterInv, TesterType, VerdictInv, CommandJudged,
           Matches,
           UsesCommands, vars, testerVars, commandVars, commandVarsButDirectory, sandboxVars
      <3> QED BY <3>1, <3>2 DEF TestInv
    <2> QED BY <2>1, <2>2, <2>3 DEF Next
  <1> QED BY <1>1, <1>2, PTL DEF Spec

\* All variables of the test of a submission have their types.
THEOREM TestTypes == Spec => []TypeOK
PROOF
  <1>1. TestInv => TypeOK
    BY DEF TestInv, CommandInv, SandboxInv, TesterInv, TesterType, TypeOK
  <1> QED BY <1>1, TestInvariant, PTL

\* What CommandExecutor and the check steps, or KillableTaskManager, call passed
\* or failed was judged on the whole of a run that ended of itself.
THEOREM AlwaysJudgedOnWholeRun == Spec => []JudgedOnWholeRun
PROOF
  <1>1. ASSUME TestInv PROVE JudgedOnWholeRun
    <2>1. CASE UsesCommands
      BY <2>1, <1>1 DEF TestInv, TesterInv, CommandJudged, JudgedOnWholeRun
    <2>2. CASE ~UsesCommands
      BY <2>2, <1>1 DEF TestInv, TesterInv, VerdictInv, SandboxInv, TaskInv,
         JudgedOnWholeRun
    <2> QED BY <2>1, <2>2
  <1> QED BY <1>1, TestInvariant, PTL

\* A submission that Builder2 calls tested has a result for each test case.
THEOREM EveryTestAlwaysHasAResult == Spec => []EveryTestHasAResult
PROOF
  <1>1. ASSUME TestInv PROVE EveryTestHasAResult
    BY <1>1 DEF TestInv, TesterInv, VerdictInv, SandboxInv, ManagerInv,
       EveryTestHasAResult
  <1> QED BY <1>1, TestInvariant, PTL

=============================================================================
