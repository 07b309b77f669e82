--------------------------- MODULE SubmitService ---------------------------
(***************************************************************************)
(* The out-of-process submit service of the CloudCoder web application:    *)
(* OutOfProcessSubmitService, ServerTask, WorkerTaskSet, WorkerTask and    *)
(* OOPBuildServiceSubmission (CloudCoder/src/.../server/submitsvc).        *)
(*                                                                         *)
(* Four kinds of threads run at once.  Servlet threads call submitAsync    *)
(* and poll; the accept thread turns each Builder that connects into a     *)
(* worker thread; every worker takes submissions from one shared queue and *)
(* has its Builder test them; one more thread runs the shutdown when the   *)
(* servlet context is destroyed.  An action is the stretch of code between *)
(* two points at which another thread can tell what has happened.  A       *)
(* worker, its task object, its thread and its connection are one value of *)
(* Workers; a connection never comes back, a Builder that reconnects is    *)
(* another worker.                                                         *)
(***************************************************************************)
EXTENDS Naturals, Sequences, Functions

CONSTANTS
    Submissions,    \* the OOPBuildServiceSubmission objects ever created
    Workers,        \* the Builder connections ever made
    MaxAttempts,    \* attempts before a submission is given up: 10 in the code
    MaxIdle,        \* empty polls before a keepalive: 5 in the code
    None            \* null

ASSUME ServiceAssumption ==
    /\ MaxAttempts \in Nat \ {0}
    /\ MaxIdle \in Nat \ {0}
    /\ None \notin Submissions
    /\ None \notin Workers

VARIABLES
    \* servlet threads, and the fields of each OOPBuildServiceSubmission
    request,        \* how far submitAsync has got with a submission
    attempts,       \* numAttempts
    result,         \* submissionResult is set
    error,          \* error is set
    ready,          \* ready
    \* the accept thread and the fields of ServerTask
    acceptPc,
    accepted,       \* the worker createWorker is creating, or None
    closing,        \* ServerTask.shutdownRequested
    listening,      \* serverSocket is open
    queue,          \* submissionQueue
    listed,         \* WorkerTaskSet.workerThreadAndTaskPairList
    \* the worker threads
    pc,
    stop,           \* WorkerTask.shutdownRequested
    interrupted,    \* the thread's pending interrupt
    holding,        \* the local variable submission
    idle,           \* idleTimeMillis, in poll intervals
    \* the thread that runs ServerTask.shutdown
    stopPc,
    toStop,         \* the pairs shutdownAll has not shut down yet
    stopping        \* the pair whose stop is set and thread not yet interrupted

futureVars == <<attempts, result, error, ready>>
acceptVars == <<acceptPc, accepted, listening>>
workerVars == <<pc, holding, idle>>
stopVars   == <<stopPc, toStop, stopping, stop>>

vars == <<request, futureVars, acceptVars, closing, queue, listed,
          workerVars, interrupted, stopVars>>

-----------------------------------------------------------------------------
(* The running threads of a worker, by where run() stands.                 *)
Running == {"check", "poll", "keepalive", "claimed", "testing", "exit", "leaving"}

TypeOK ==
    /\ request \in [Submissions -> {"new", "admitted", "accepted", "refused"}]
    /\ attempts \in [Submissions -> 0..MaxAttempts]
    /\ result \in [Submissions -> BOOLEAN]
    /\ error \in [Submissions -> BOOLEAN]
    /\ ready \in [Submissions -> BOOLEAN]
    /\ acceptPc \in {"check", "accept", "handshake", "start", "add", "done"}
    /\ accepted \in Workers \cup {None}
    /\ closing \in BOOLEAN
    /\ listening \in BOOLEAN
    /\ queue \in Seq(Submissions)
    /\ listed \in SUBSET Workers
    /\ pc \in [Workers -> {"none", "failed", "created", "done"} \cup Running]
    /\ stop \in [Workers -> BOOLEAN]
    /\ interrupted \in [Workers -> BOOLEAN]
    /\ holding \in [Workers -> Submissions \cup {None}]
    /\ idle \in [Workers -> 0..MaxIdle]
    /\ stopPc \in {"up", "close", "lock", "telling", "wait", "join", "stopped"}
    /\ toStop \in SUBSET Workers
    /\ stopping \in Workers \cup {None}

Init ==
    /\ request = [s \in Submissions |-> "new"]
    /\ attempts = [s \in Submissions |-> 0]
    /\ result = [s \in Submissions |-> FALSE]
    /\ error = [s \in Submissions |-> FALSE]
    /\ ready = [s \in Submissions |-> FALSE]
    /\ acceptPc = "check"
    /\ accepted = None
    /\ closing = FALSE
    /\ listening = TRUE
    /\ queue = <<>>
    /\ listed = {}
    /\ pc = [w \in Workers |-> "none"]
    /\ stop = [w \in Workers |-> FALSE]
    /\ interrupted = [w \in Workers |-> FALSE]
    /\ holding = [w \in Workers |-> None]
    /\ idle = [w \in Workers |-> 0]
    /\ stopPc = "up"
    /\ toStop = {}
    /\ stopping = None

(* WorkerTaskSet.lock is held across several steps by shutdownAll only.    *)
LockFree == stopPc # "telling"

Goto(w, p) == pc' = [pc EXCEPT ![w] = p]

-----------------------------------------------------------------------------
(* Servlet threads.                                                        *)

\* submitAsync finds no worker and throws: nothing is queued.
Refuse(s) ==
    /\ request[s] = "new"
    /\ LockFree
    /\ listed = {}
    /\ request' = [request EXCEPT ![s] = "refused"]
    /\ UNCHANGED <<futureVars, acceptVars, closing, queue, listed, workerVars,
                   interrupted, stopVars>>

\* submitAsync sees a worker; it adds to the queue in a later step.
Admit(s) ==
    /\ request[s] = "new"
    /\ LockFree
    /\ listed # {}
    /\ request' = [request EXCEPT ![s] = "admitted"]
    /\ UNCHANGED <<futureVars, acceptVars, closing, queue, listed, workerVars,
                   interrupted, stopVars>>

Enqueue(s) ==
    /\ request[s] = "admitted"
    /\ request' = [request EXCEPT ![s] = "accepted"]
    /\ queue' = Append(queue, s)
    /\ UNCHANGED <<futureVars, acceptVars, closing, listed, workerVars,
                   interrupted, stopVars>>

\* What OOPBuildServiceSubmission.poll tells the caller of submission s.
Poll(s) ==
    CASE ~ready[s]             -> "pending"
      [] ready[s] /\ error[s]  -> "error"
      [] ready[s] /\ ~error[s] -> "result"

-----------------------------------------------------------------------------
(* The accept thread.                                                      *)

CheckClosing ==
    /\ acceptPc = "check"
    /\ acceptPc' = IF closing THEN "done" ELSE "accept"
    /\ UNCHANGED <<request, futureVars, accepted, listening, closing, queue,
                   listed, workerVars, interrupted, stopVars>>

AcceptConnection(w) ==
    /\ acceptPc = "accept"
    /\ listening
    /\ pc[w] = "none"
    /\ acceptPc' = "handshake"
    /\ accepted' = w
    /\ UNCHANGED <<request, futureVars, listening, closing, queue, listed,
                   workerVars, interrupted, stopVars>>

\* accept() throws once the socket is closed, and the loop is over.
AcceptClosed ==
    /\ acceptPc = "accept"
    /\ ~listening
    /\ acceptPc' = "done"
    /\ UNCHANGED <<request, futureVars, accepted, listening, closing, queue,
                   listed, workerVars, interrupted, stopVars>>

\* The WorkerTask constructor exchanges the stream headers with the Builder.
Handshake(w) ==
    /\ acceptPc = "handshake"
    /\ accepted = w
    /\ acceptPc' = "start"
    /\ Goto(w, "created")
    /\ UNCHANGED <<request, futureVars, accepted, listening, closing, queue,
                   listed, holding, idle, interrupted, stopVars>>

\* ... and its IOException is caught outside the accept loop.
HandshakeFails(w) ==
    /\ acceptPc = "handshake"
    /\ accepted = w
    /\ acceptPc' = "done"
    /\ accepted' = None
    /\ Goto(w, "failed")
    /\ UNCHANGED <<request, futureVars, listening, closing, queue, listed,
                   holding, idle, interrupted, stopVars>>

StartWorker(w) ==
    /\ acceptPc = "start"
    /\ accepted = w
    /\ acceptPc' = "add"
    /\ Goto(w, "check")
    /\ UNCHANGED <<request, futureVars, accepted, listening, closing, queue,
                   listed, holding, idle, interrupted, stopVars>>

\* The pair goes into the list after the thread was started.
ListWorker(w) ==
    /\ acceptPc = "add"
    /\ accepted = w
    /\ LockFree
    /\ listed' = listed \cup {w}
    /\ acceptPc' = "check"
    /\ accepted' = None
    /\ UNCHANGED <<request, futureVars, listening, closing, queue, workerVars,
                   interrupted, stopVars>>

-----------------------------------------------------------------------------
(* A worker thread.                                                        *)

CheckStop(w) ==
    /\ pc[w] = "check"
    /\ Goto(w, IF stop[w] THEN "exit" ELSE "poll")
    /\ UNCHANGED <<request, futureVars, acceptVars, closing, queue, listed,
                   holding, idle, interrupted, stopVars>>

\* Mutant: the keepalive is sent one interval late.
IdleOnceLate(w) ==
    /\ idle' = [idle EXCEPT ![w] = @ + 1]
    /\ Goto(w, IF idle[w] >= MaxIdle THEN "keepalive" ELSE "check")

\* What follows the poll when submission is null: count the idle interval.
IdleOnce(w) ==
    /\ idle' = [idle EXCEPT ![w] = @ + 1]
    /\ Goto(w, IF idle[w] + 1 >= MaxIdle THEN "keepalive" ELSE "check")

\* What follows the poll when it is not.
Claim(w) ==
    /\ idle' = [idle EXCEPT ![w] = 0]
    /\ Goto(w, "claimed")

PollTakes(w) ==
    /\ pc[w] = "poll"
    /\ ~interrupted[w]
    /\ queue # <<>>
    /\ holding' = [holding EXCEPT ![w] = Head(queue)]
    /\ queue' = Tail(queue)
    /\ Claim(w)
    /\ UNCHANGED <<request, futureVars, acceptVars, closing, listed,
                   interrupted, stopVars>>

PollTimesOut(w) ==
    /\ pc[w] = "poll"
    /\ ~interrupted[w]
    /\ queue = <<>>
    /\ holding' = [holding EXCEPT ![w] = None]
    /\ IdleOnce(w)
    /\ UNCHANGED <<request, futureVars, acceptVars, closing, queue, listed,
                   interrupted, stopVars>>

\* poll() throws: the variable submission keeps what it had, and the loop
\* body goes on with it.  Only shutdownAll interrupts, after setting stop, so
\* the branch for an interrupt without a stop is not reachable.
PollInterrupted(w) ==
    /\ pc[w] = "poll"
    /\ interrupted[w]
    /\ interrupted' = [interrupted EXCEPT ![w] = FALSE]
    /\ \/ ~stop[w] /\ Goto(w, "exit") /\ UNCHANGED idle
       \/ stop[w] /\ holding[w] = None /\ IdleOnce(w)
       \/ stop[w] /\ holding[w] # None /\ Claim(w)
    /\ UNCHANGED <<request, futureVars, acceptVars, closing, queue, listed,
                   holding, stopVars>>

\* The keepalive is written to the Builder, or the connection is lost.
SendKeepalive(w) ==
    /\ pc[w] = "keepalive"
    /\ \/ Goto(w, "check") /\ idle' = [idle EXCEPT ![w] = 0]
       \/ Goto(w, "exit") /\ UNCHANGED idle
    /\ UNCHANGED <<request, futureVars, acceptVars, closing, queue, listed,
                   holding, interrupted, stopVars>>

\* Mutant: a submission that is given up is dropped, and not set ready.
GiveUpSilently(w) ==
    /\ pc[w] = "claimed"
    /\ attempts[holding[w]] >= MaxAttempts
    /\ Goto(w, "check")
    /\ UNCHANGED <<request, futureVars, acceptVars, closing, queue, listed,
                   holding, idle, interrupted, stopVars>>

GiveUp(w) ==
    LET s == holding[w] IN
    /\ pc[w] = "claimed"
    /\ attempts[s] >= MaxAttempts
    /\ ready' = [ready EXCEPT ![s] = TRUE]
    /\ Goto(w, "check")
    /\ UNCHANGED <<request, attempts, result, error, acceptVars, closing, queue,
                   listed, holding, idle, interrupted, stopVars>>

Attempt(w) ==
    LET s == holding[w] IN
    /\ pc[w] = "claimed"
    /\ attempts[s] < MaxAttempts
    /\ attempts' = [attempts EXCEPT ![s] = @ + 1]
    /\ Goto(w, "testing")
    /\ UNCHANGED <<request, result, error, ready, acceptVars, closing, queue,
                   listed, holding, idle, interrupted, stopVars>>

\* Mutant: the worker does not forget the submission that was answered.
TestAnsweredKept(w) ==
    LET s == holding[w] IN
    /\ pc[w] = "testing"
    /\ result' = [result EXCEPT ![s] = TRUE]
    /\ ready' = [ready EXCEPT ![s] = TRUE]
    /\ Goto(w, "check")
    /\ UNCHANGED <<request, attempts, error, acceptVars, closing, queue, listed,
                   holding, idle, interrupted, stopVars>>

\* The Builder's answer arrives: setSubmissionResult, setReady.
TestAnswered(w) ==
    LET s == holding[w] IN
    /\ pc[w] = "testing"
    /\ result' = [result EXCEPT ![s] = TRUE]
    /\ ready' = [ready EXCEPT ![s] = TRUE]
    /\ holding' = [holding EXCEPT ![w] = None]
    /\ Goto(w, "check")
    /\ UNCHANGED <<request, attempts, error, acceptVars, closing, queue, listed,
                   idle, interrupted, stopVars>>

\* Mutant: a failed attempt leaves no error behind.
TestFailsSilently(w) ==
    /\ pc[w] = "testing"
    /\ Goto(w, "exit")
    /\ UNCHANGED <<request, futureVars, acceptVars, closing, queue, listed,
                   holding, idle, interrupted, stopVars>>

\* Mutant: the catch clause puts the submission back, as the end of run() does.
TestFailsRequeued(w) ==
    LET s == holding[w] IN
    /\ pc[w] = "testing"
    /\ error' = [error EXCEPT ![s] = TRUE]
    /\ queue' = Append(queue, s)
    /\ Goto(w, "exit")
    /\ UNCHANGED <<request, attempts, result, ready, acceptVars, closing, listed,
                   holding, idle, interrupted, stopVars>>

\* The connection breaks, or what arrives cannot be read: setError.
TestFails(w) ==
    LET s == holding[w] IN
    /\ pc[w] = "testing"
    /\ error' = [error EXCEPT ![s] = TRUE]
    /\ Goto(w, "exit")
    /\ UNCHANGED <<request, attempts, result, ready, acceptVars, closing, queue,
                   listed, holding, idle, interrupted, stopVars>>

\* After the loop an unfinished submission goes back to the queue; then the
\* connection is closed.
PutBack(w) ==
    /\ pc[w] = "exit"
    /\ holding[w] # None
    /\ ~interrupted[w]
    /\ queue' = Append(queue, holding[w])
    /\ holding' = [holding EXCEPT ![w] = None]
    /\ Goto(w, "leaving")
    /\ UNCHANGED <<request, futureVars, acceptVars, closing, listed, idle,
                   interrupted, stopVars>>

\* Mutant: a put() that throws is only logged.
PutBackDropped(w) ==
    /\ pc[w] = "exit"
    /\ holding[w] # None
    /\ interrupted[w]
    /\ interrupted' = [interrupted EXCEPT ![w] = FALSE]
    /\ holding' = [holding EXCEPT ![w] = None]
    /\ Goto(w, "leaving")
    /\ UNCHANGED <<request, futureVars, acceptVars, closing, queue, listed,
                   idle, stopVars>>

\* put() throws if an interrupt is pending: the submission ends in an error.
PutBackInterrupted(w) ==
    LET s == holding[w] IN
    /\ pc[w] = "exit"
    /\ s # None
    /\ interrupted[w]
    /\ interrupted' = [interrupted EXCEPT ![w] = FALSE]
    /\ error' = [error EXCEPT ![s] = TRUE]
    /\ ready' = [ready EXCEPT ![s] = TRUE]
    /\ holding' = [holding EXCEPT ![w] = None]
    /\ Goto(w, "leaving")
    /\ UNCHANGED <<request, attempts, result, acceptVars, closing, queue, listed,
                   idle, stopVars>>

NothingToPutBack(w) ==
    /\ pc[w] = "exit"
    /\ holding[w] = None
    /\ Goto(w, "leaving")
    /\ UNCHANGED <<request, futureVars, acceptVars, closing, queue, listed,
                   holding, idle, interrupted, stopVars>>

\* Mutant: the pair stays in the list.
LeaveListed(w) ==
    /\ pc[w] = "leaving"
    /\ LockFree
    /\ Goto(w, "done")
    /\ UNCHANGED <<request, futureVars, acceptVars, closing, queue, listed,
                   holding, idle, interrupted, stopVars>>

\* onWorkerExit: a worker that is not in the list yet finds nothing there.
Leave(w) ==
    /\ pc[w] = "leaving"
    /\ LockFree
    /\ listed' = listed \ {w}
    /\ Goto(w, "done")
    /\ UNCHANGED <<request, futureVars, acceptVars, closing, queue, holding,
                   idle, interrupted, stopVars>>

-----------------------------------------------------------------------------
(* The thread that destroys the servlet context.                           *)

StopAt(p) == stopPc' = p

RequestShutdown ==
    /\ stopPc = "up"
    /\ closing' = TRUE
    /\ StopAt("close")
    /\ UNCHANGED <<request, futureVars, acceptVars, queue, listed, workerVars,
                   interrupted, toStop, stopping, stop>>

CloseSocket ==
    /\ stopPc = "close"
    /\ listening' = FALSE
    /\ StopAt("lock")
    /\ UNCHANGED <<request, futureVars, acceptPc, accepted, closing, queue,
                   listed, workerVars, interrupted, toStop, stopping, stop>>

\* shutdownAll takes the lock, so that the list does not change under it.
LockList ==
    /\ stopPc = "lock"
    /\ toStop' = listed
    /\ StopAt("telling")
    /\ UNCHANGED <<request, futureVars, acceptVars, closing, queue, listed,
                   workerVars, interrupted, stopping, stop>>

\* WorkerThreadAndTaskPair.shutdown: first the task's flag ...
SetStop(w) ==
    /\ stopPc = "telling"
    /\ stopping = None
    /\ w \in toStop
    /\ stop' = [stop EXCEPT ![w] = TRUE]
    /\ stopping' = w
    /\ UNCHANGED <<request, futureVars, acceptVars, closing, queue, listed,
                   workerVars, interrupted, stopPc, toStop>>

\* ... then the thread's interrupt.
Interrupt(w) ==
    /\ stopPc = "telling"
    /\ stopping = w
    /\ interrupted' = [interrupted EXCEPT ![w] = TRUE]
    /\ toStop' = toStop \ {w}
    /\ stopping' = None
    /\ UNCHANGED <<request, futureVars, acceptVars, closing, queue, listed,
                   workerVars, stopPc, stop>>

UnlockList ==
    /\ stopPc = "telling"
    /\ toStop = {}
    /\ StopAt("wait")
    /\ UNCHANGED <<request, futureVars, acceptVars, closing, queue, listed,
                   workerVars, interrupted, toStop, stopping, stop>>

\* Mutant: waitForAll waits once, and does not look at the list again.
AnyGone ==
    /\ stopPc = "wait"
    /\ StopAt("join")
    /\ UNCHANGED <<request, futureVars, acceptVars, closing, queue, listed,
                   workerVars, interrupted, toStop, stopping, stop>>

\* waitForAll returns.
AllGone ==
    /\ stopPc = "wait"
    /\ listed = {}
    /\ StopAt("join")
    /\ UNCHANGED <<request, futureVars, acceptVars, closing, queue, listed,
                   workerVars, interrupted, toStop, stopping, stop>>

\* serverThread.join() returns.
Stopped ==
    /\ stopPc = "join"
    /\ acceptPc = "done"
    /\ StopAt("stopped")
    /\ UNCHANGED <<request, futureVars, acceptVars, closing, queue, listed,
                   workerVars, interrupted, toStop, stopping, stop>>

-----------------------------------------------------------------------------
SubmitStep(s) == Refuse(s) \/ Admit(s) \/ Enqueue(s)

CreateWorker(w) ==
    Handshake(w) \/ HandshakeFails(w) \/ StartWorker(w) \/ ListWorker(w)

AcceptStep ==
    \/ CheckClosing \/ AcceptClosed
    \/ \E w \in Workers : AcceptConnection(w) \/ CreateWorker(w)

WorkerStep(w) ==
    \/ CheckStop(w)
    \/ PollTakes(w) \/ PollTimesOut(w) \/ PollInterrupted(w)
    \/ SendKeepalive(w)
    \/ GiveUp(w) \/ Attempt(w) \/ TestAnswered(w) \/ TestFails(w)
    \/ PutBack(w) \/ PutBackInterrupted(w) \/ NothingToPutBack(w)
    \/ Leave(w)

StopStep ==
    \/ CloseSocket \/ LockList \/ UnlockList \/ AllGone \/ Stopped
    \/ \E w \in Workers : SetStop(w) \/ Interrupt(w)

Next ==
    \/ \E s \in Submissions : SubmitStep(s)
    \/ AcceptStep
    \/ \E w \in Workers : WorkerStep(w)
    \/ RequestShutdown
    \/ StopStep

Spec == Init /\ [][Next]_vars

(***************************************************************************)
(* Every thread that can run does run, a Builder that was handed a         *)
(* submission answers it or its connection breaks (its tests are killed    *)
(* after a time limit), and one that connects finishes or breaks the       *)
(* handshake.  Nothing says that a Builder ever connects, that anybody     *)
(* submits, or that the application is ever shut down.                     *)
(***************************************************************************)
Fairness ==
    /\ \A s \in Submissions : WF_vars(Enqueue(s))
    /\ WF_vars(CheckClosing \/ AcceptClosed \/ \E w \in Workers : CreateWorker(w))
    /\ \A w \in Workers : WF_vars(WorkerStep(w))
    /\ WF_vars(StopStep)

FairSpec == Spec /\ Fairness

-----------------------------------------------------------------------------
(* Safety.                                                                 *)

Queued(s) == s \in Range(queue)
Held(s) == \E w \in Workers : holding[w] = s

\* A submission is in one place at most: one position of the queue, or the
\* hands of one worker.  WorkerTask puts a submission back only after it is
\* done with it, so no two Builders ever test it at the same time.
OnePlace ==
    /\ IsInjective(queue)
    /\ \A v, w \in Workers : holding[v] = holding[w] => v = w \/ holding[v] = None
    /\ \A s \in Submissions : ~(Queued(s) /\ Held(s))

\* However its workers fail or are stopped, an accepted submission that has no
\* answer yet is in the queue or in the hands of a worker that is running.
NotLost ==
    \A s \in Submissions :
        request[s] = "accepted" /\ ~ready[s] =>
            \/ Queued(s)
            \/ \E w \in Workers : holding[w] = s /\ pc[w] \in Running \ {"leaving"}

\* The contract of setReady (OOPBuildServiceSubmission.java:93): a result or an
\* error has been set before, also where WorkerTask gives up without setting one.
ReadyHasVerdict ==
    \A s \in Submissions : ready[s] => result[s] \/ error[s]

\* A worker that shutdownAll told to stop has exited before the shutdown of
\* the service returns.
StopWaitsForTold ==
    stopPc = "stopped" => \A w \in Workers : stop[w] => pc[w] = "done"

\* The service implements what its callers are promised: see SubmissionFuture.
FutureOf(s) ==
    CASE request[s] \in {"new", "admitted"} -> "new"
      [] request[s] = "refused"             -> "refused"
      [] request[s] = "accepted"            -> Poll(s)

Future == INSTANCE SubmissionFuture WITH future <- [s \in Submissions |-> FutureOf(s)]

\* Futures are answered once, and the answer does not change, although a
\* submission may be set ready more than once.
ImplementsFuture == Future!Spec

-----------------------------------------------------------------------------
(* Liveness, under FairSpec.                                               *)

Served == \E w \in Workers : pc[w] \in Running

\* If from some time on a worker is always there, every submission that was
\* accepted is answered, whatever happens to the other workers.
AnsweredIfServed ==
    <>[]Served => \A s \in Submissions : request[s] = "accepted" ~> ready[s]

\* A shutdown that meets no worker in creation, and no dead one in the list,
\* comes to its end: every worker hears of it, blocked or not.
ShutdownEnds ==
    /\ stopPc = "lock"
    /\ accepted = None
    /\ \A w \in listed : pc[w] # "done"
    ~> stopPc = "stopped"

-----------------------------------------------------------------------------
(* What the code's comments claim and the code does not do.                *)

\* IFutureSubmissionResult.java:37: poll returns the result of a submission
\* whose testing was completed.  An error of an earlier attempt stays set and
\* hides the result of the retry.
CompletedGivesResult ==
    \A s \in Submissions : ready[s] /\ result[s] => Poll(s) = "result"

\* IFutureSubmissionResult.java:26: poll is required to return an answer after
\* a reasonable time; a shutdown is excepted here.  A submission stays in the queue for good if the worker
\* submitAsync saw loses its connection and no other Builder connects.
AcceptedIsAnswered ==
    \A s \in Submissions : request[s] = "accepted" ~> ready[s] \/ closing
=============================================================================
