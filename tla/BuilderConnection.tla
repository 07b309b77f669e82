-------------------------- MODULE BuilderConnection --------------------------
(***************************************************************************)
(* The conversation between a Builder (Builder2.run, one thread of the     *)
(* Builder process) and the worker threads of the web application          *)
(* (WorkerTask), message by message, over the sockets the Builder opens    *)
(* one after another.  The accept thread of the server takes the           *)
(* connections in order and makes the worker of each, handshake included;  *)
(* a handshake that fails is the end of it, and the connections that       *)
(* follow are never accepted.  The workers share the queue of submissions. *)
(*                                                                         *)
(* A socket carries a sequence of messages each way.  When one side closes *)
(* it or the network breaks it, what is under way may still be read, after *)
(* which reading fails; writing fails or is in vain.                       *)
(* SubmitService has the worker's attempts and the shutdown of all         *)
(* workers; here a worker may be told to stop whenever it looks, and the   *)
(* server does not close the connections it has not accepted.              *)
(***************************************************************************)
EXTENDS Naturals, Sequences, FiniteSets

CONSTANTS
    Submissions,
    NoSubmission,
    MaxIdle,            \* polls that find nothing before a keepalive is sent
    MaxConnections,     \* bound: connections the Builder makes
    MaxBreaks,          \* bound: breaks of the network
    MaxInFlight         \* messages a socket buffers before a write blocks

ASSUME ConnectionAssumption ==
    /\ MaxIdle \in Nat \ {0}
    /\ MaxConnections \in Nat
    /\ MaxBreaks \in Nat
    /\ MaxInFlight \in Nat \ {0}
    /\ NoSubmission \notin Submissions

Connections == 1..MaxConnections
NoConnection == 0

VARIABLES
    \* the sockets
    made,               \* connections made so far
    down,               \* what the worker has sent and the Builder not read
    up,                 \* what the Builder has sent and the worker not read
    shut,               \* who has closed or broken the socket
    breaks,
    \* the server
    queue,
    verdict,            \* the submissions a verdict was made from; {}: none yet
    worker, held, idle,
    \* the thread of the Builder
    at, socket, streams, working,
    problemId,                  \* the id it has read; {}: none, or a keepalive
    problem, cases, text,       \* where its local variables come from
    \* the shutdown of the Builder
    stopper, shutdownRequested

socketVars == <<made, down, up, shut, breaks>>
serverVars == <<queue, verdict, worker, held, idle>>
builderVars == <<at, socket, streams, working, problemId, problem, cases, text>>
stopVars == <<stopper, shutdownRequested>>
vars == <<socketVars, serverVars, builderVars, stopVars>>

MaybeSubmission == Submissions \cup {NoSubmission}
Kinds == {"header", "id", "keepalive", "known", "unknown",
          "problem", "cases", "text", "result"}
Message == [kind : Kinds, of : SUBSET Submissions]
Msg(k, S) == [kind |-> k, of |-> S]

WorkerStates ==
    {"none", "backlog", "writeHeader", "readHeader", "failed", "loop", "poll", "writeId", "readKnown",
     "writeProblem", "writeCases", "writeText", "readResult", "putBack",
     "close", "exited"}
BuilderStates ==
    {"top", "connect", "readHeader", "writeHeader", "waiting", "readId",
     "gotId", "writeKnown", "readProblem", "readCases", "readText", "test",
     "writeResult", "ended", "dead"}

TypeOK ==
    /\ made \in 0..MaxConnections
    /\ down \in [Connections -> Seq(Message)]
    /\ up \in [Connections -> Seq(Message)]
    /\ shut \in [Connections -> SUBSET {"worker", "builder", "network"}]
    /\ breaks \in 0..MaxBreaks
    /\ queue \in Seq(Submissions)
    /\ verdict \in [Submissions -> SUBSET Submissions]
    /\ worker \in [Connections -> WorkerStates]
    /\ held \in [Connections -> MaybeSubmission]
    /\ idle \in [Connections -> 0..MaxIdle]
    /\ at \in BuilderStates
    /\ socket \in 0..made
    /\ streams \subseteq {"in", "out"}
    /\ working \in BOOLEAN
    /\ problemId \in SUBSET Submissions
    /\ {problem, cases, text} \subseteq MaybeSubmission
    /\ stopper \in {"none", "asked", "closing", "done"}
    /\ shutdownRequested \in BOOLEAN

Init ==
    /\ made = 0
    /\ down = [c \in Connections |-> <<>>]
    /\ up = [c \in Connections |-> <<>>]
    /\ shut = [c \in Connections |-> {}]
    /\ breaks = 0
    /\ queue = <<>>
    /\ verdict = [s \in Submissions |-> {}]
    /\ worker = [c \in Connections |-> "none"]
    /\ held = [c \in Connections |-> NoSubmission]
    /\ idle = [c \in Connections |-> 0]
    /\ at = "top"
    /\ socket = NoConnection
    /\ streams = {}
    /\ working = FALSE
    /\ problemId = {}
    /\ problem = NoSubmission
    /\ cases = NoSubmission
    /\ text = NoSubmission
    /\ stopper = "none"
    /\ shutdownRequested = FALSE

-----------------------------------------------------------------------------
(* Sockets.  "side" is the end that reads or writes.                       *)

Incoming(c, side) == IF side = "worker" THEN up[c] ELSE down[c]

CanRead(c, side) == side \notin shut[c] /\ Incoming(c, side) # <<>>

ReadFails(c, side) ==
    \/ side \in shut[c]
    \/ shut[c] # {} /\ Incoming(c, side) = <<>>

Received(c, side) == Head(Incoming(c, side))

\* The message at the head is taken off.
Take(c, side) ==
    /\ CanRead(c, side)
    /\ IF side = "worker"
       THEN up' = [up EXCEPT ![c] = Tail(@)] /\ UNCHANGED down
       ELSE down' = [down EXCEPT ![c] = Tail(@)] /\ UNCHANGED up
    /\ UNCHANGED <<made, shut, breaks>>

\* A write succeeds; on a socket that is shut at the other end it is lost.
Put(c, side, m) ==
    /\ side \notin shut[c]
    /\ IF shut[c] # {} THEN UNCHANGED <<down, up>>
       ELSE IF side = "worker"
            THEN /\ Len(down[c]) < MaxInFlight
                 /\ down' = [down EXCEPT ![c] = Append(@, m)]
                 /\ UNCHANGED up
            ELSE /\ Len(up[c]) < MaxInFlight
                 /\ up' = [up EXCEPT ![c] = Append(@, m)]
                 /\ UNCHANGED down
    /\ UNCHANGED <<made, shut, breaks>>

WriteFails(c) == shut[c] # {}

\* The network breaks a connection, and the end of what is under way is lost.
Break(c) ==
    /\ c <= made
    /\ breaks < MaxBreaks
    /\ "network" \notin shut[c]
    /\ breaks' = breaks + 1
    /\ shut' = [shut EXCEPT ![c] = @ \cup {"network"}]
    /\ \E m \in 0..Len(down[c]), n \in 0..Len(up[c]) :
        /\ down' = [down EXCEPT ![c] = SubSeq(@, 1, m)]
        /\ up' = [up EXCEPT ![c] = SubSeq(@, 1, n)]
    /\ UNCHANGED <<made, serverVars, builderVars, stopVars>>

-----------------------------------------------------------------------------
(* The server: submissions and workers.                                    *)

Submit(s) ==
    /\ verdict[s] = {}
    /\ \A i \in 1..Len(queue) : queue[i] # s
    /\ \A c \in Connections : held[c] # s
    /\ queue' = Append(queue, s)
    /\ UNCHANGED <<socketVars, verdict, worker, held, idle,
                   builderVars, stopVars>>

Goto(c, st) == worker' = [worker EXCEPT ![c] = st]

\* The worker of c moves from state st to state st2.
WorkerMove(c, st, st2) ==
    /\ worker[c] = st
    /\ Goto(c, st2)
    /\ UNCHANGED <<builderVars, stopVars>>

\* A handshake was cut off, and with it the loop that accepts connections.
AcceptEnded == \E c \in Connections : worker[c] = "failed"

\* The next connection is accepted once the worker of the last one is made.
Accept(c) ==
    /\ ~AcceptEnded
    /\ \A d \in Connections :
        /\ worker[d] \notin {"writeHeader", "readHeader"}
        /\ worker[d] = "backlog" => c <= d
    /\ WorkerMove(c, "backlog", "writeHeader")
    /\ UNCHANGED <<socketVars, queue, verdict, held, idle>>

\* Mutant: The worker makes its input stream first, as the Builder does.
WriteHeaderLate(c) ==
    /\ up[c] # <<>>
    /\ WorkerMove(c, "writeHeader", "readHeader")
    /\ Put(c, "worker", Msg("header", {}))
    /\ UNCHANGED <<queue, verdict, held, idle>>

\* The constructor: the header of the own stream, then that of the Builder's.
WriteHeader(c) ==
    /\ WorkerMove(c, "writeHeader", "readHeader")
    /\ Put(c, "worker", Msg("header", {}))
    /\ UNCHANGED <<queue, verdict, held, idle>>

ReadHeader(c) ==
    /\ WorkerMove(c, "readHeader", "loop")
    /\ Take(c, "worker")
    /\ UNCHANGED <<queue, verdict, held, idle>>

\* The constructor throws: no worker is made, the socket stays open, and the
\* accept thread ends.
NoHandshake(c) ==
    /\ \/ WriteFails(c) /\ WorkerMove(c, "writeHeader", "failed")
       \/ ReadFails(c, "worker") /\ WorkerMove(c, "readHeader", "failed")
    /\ UNCHANGED <<socketVars, queue, verdict, held, idle>>

\* The head of the loop, where the worker may find that it was told to stop.
CheckShutdown(c) ==
    /\ \E st \in {"poll", "close"} : WorkerMove(c, "loop", st)
    /\ UNCHANGED <<socketVars, queue, verdict, held, idle>>

PollSubmission(c) ==
    /\ queue # <<>>
    /\ WorkerMove(c, "poll", "writeId")
    /\ held' = [held EXCEPT ![c] = Head(queue)]
    /\ queue' = Tail(queue)
    /\ idle' = [idle EXCEPT ![c] = 0]
    /\ UNCHANGED <<socketVars, verdict>>

PollNothing(c) ==
    /\ queue = <<>>
    /\ idle[c] + 1 < MaxIdle
    /\ WorkerMove(c, "poll", "loop")
    /\ idle' = [idle EXCEPT ![c] = @ + 1]
    /\ UNCHANGED <<socketVars, queue, verdict, held>>

\* Mutant: The worker sends no keepalive.
KeepAliveNever(c) ==
    /\ queue = <<>>
    /\ WorkerMove(c, "poll", "loop")
    /\ idle' = [idle EXCEPT ![c] = 0]
    /\ UNCHANGED <<socketVars, queue, verdict, held>>

\* Mutant: A worker counts on after a keepalive.
KeepAliveCounts(c) ==
    /\ queue = <<>>
    /\ idle[c] + 1 >= MaxIdle
    /\ WorkerMove(c, "poll", "loop")
    /\ Put(c, "worker", Msg("keepalive", {}))
    /\ idle' = [idle EXCEPT ![c] = @ + 1]
    /\ UNCHANGED <<queue, verdict, held>>

\* Idle for too long: a keepalive keeps the connection from timing out.
KeepAlive(c) ==
    /\ queue = <<>>
    /\ idle[c] + 1 >= MaxIdle
    /\ \/ /\ WorkerMove(c, "poll", "loop")
          /\ Put(c, "worker", Msg("keepalive", {}))
          /\ idle' = [idle EXCEPT ![c] = 0]
       \/ /\ WriteFails(c)
          /\ WorkerMove(c, "poll", "close")
          /\ UNCHANGED <<socketVars, idle>>
    /\ UNCHANGED <<queue, verdict, held>>

\* sendSubmissionForTesting: what is written in each of its states, and the
\* state after it.
Sends(c) ==
    [writeId      |-> Msg("id", {held[c]}),
     writeProblem |-> Msg("problem", {held[c]}),
     writeCases   |-> Msg("cases", {held[c]}),
     writeText    |-> Msg("text", {held[c]})]

AfterSend ==
    [writeId |-> "readKnown", writeProblem |-> "writeCases",
     writeCases |-> "writeText", writeText |-> "readResult"]

Send(c) ==
    /\ worker[c] \in DOMAIN AfterSend
    /\ WorkerMove(c, worker[c], AfterSend[worker[c]])
    /\ Put(c, "worker", Sends(c)[worker[c]])
    /\ UNCHANGED <<queue, verdict, held, idle>>

ReadKnown(c) ==
    /\ worker[c] = "readKnown"
    /\ Take(c, "worker")
    /\ WorkerMove(c, "readKnown",
                  IF Received(c, "worker").kind = "known" THEN "writeText"
                                                          ELSE "writeProblem")
    /\ UNCHANGED <<queue, verdict, held, idle>>

ReadResult(c) ==
    /\ WorkerMove(c, "readResult", "loop")
    /\ Take(c, "worker")
    /\ verdict' = [verdict EXCEPT ![held[c]] = Received(c, "worker").of]
    /\ held' = [held EXCEPT ![c] = NoSubmission]
    /\ UNCHANGED <<queue, idle>>

\* An IOException: the submission goes back to the queue.
SendFails(c) ==
    /\ \/ worker[c] \in DOMAIN AfterSend /\ WriteFails(c)
       \/ worker[c] \in {"readKnown", "readResult"} /\ ReadFails(c, "worker")
    /\ WorkerMove(c, worker[c], "putBack")
    /\ UNCHANGED <<socketVars, queue, verdict, held, idle>>

PutBack(c) ==
    /\ WorkerMove(c, "putBack", "close")
    /\ queue' = Append(queue, held[c])
    /\ held' = [held EXCEPT ![c] = NoSubmission]
    /\ UNCHANGED <<socketVars, verdict, idle>>

CloseSocket(c) ==
    /\ WorkerMove(c, "close", "exited")
    /\ shut' = [shut EXCEPT ![c] = @ \cup {"worker"}]
    /\ UNCHANGED <<made, down, up, breaks, queue, verdict, held, idle>>

Worker(c) ==
    \/ Accept(c) \/ WriteHeader(c) \/ ReadHeader(c) \/ NoHandshake(c)
    \/ CheckShutdown(c) \/ PollSubmission(c) \/ PollNothing(c) \/ KeepAlive(c)
    \/ Send(c) \/ ReadKnown(c) \/ ReadResult(c) \/ SendFails(c)
    \/ PutBack(c) \/ CloseSocket(c)

-----------------------------------------------------------------------------
(* The Builder.                                                            *)

\* The thread moves from state st to state st2.
BuilderMove(st, st2) ==
    /\ at = st
    /\ at' = st2
    /\ UNCHANGED <<serverVars, stopVars>>

localVars == <<problem, cases, text>>

\* The head of the request loop.
Loop ==
    /\ BuilderMove("top", IF shutdownRequested THEN "ended"
                          ELSE IF socket = NoConnection THEN "connect"
                          ELSE "waiting")
    /\ UNCHANGED <<socketVars, socket, streams, working, problemId, localVars>>

\* attemptToConnectToServer: a listening socket takes the connection, whether
\* or not anyone accepts it.
Connect ==
    /\ made < MaxConnections
    /\ at = "connect"
    /\ at' = "readHeader"
    /\ made' = made + 1
    /\ socket' = made + 1
    /\ worker' = [worker EXCEPT ![made + 1] = "backlog"]
    /\ UNCHANGED <<down, up, shut, breaks, queue, verdict, held, idle,
                   streams, working, problemId, localVars, stopVars>>

CannotConnect ==
    /\ BuilderMove("connect", "top")
    /\ UNCHANGED <<socketVars, socket, streams, working, problemId, localVars>>

MakeIn ==
    /\ BuilderMove("readHeader", "writeHeader")
    /\ Take(socket, "builder")
    /\ streams' = {"in"}
    /\ UNCHANGED <<socket, working, problemId, localVars>>

MakeOut ==
    /\ BuilderMove("writeHeader", "top")
    /\ Put(socket, "builder", Msg("header", {}))
    /\ streams' = {"in", "out"}
    /\ UNCHANGED <<socket, working, problemId, localVars>>

\* The IOException of a stream is taken for one of the connection: the socket
\* stays, and the next use of the missing stream ends the thread.
StreamFails ==
    /\ \/ at = "readHeader" /\ ReadFails(socket, "builder")
       \/ at = "writeHeader" /\ WriteFails(socket)
    /\ BuilderMove(at, "top")
    /\ UNCHANGED <<socketVars, socket, streams, working, problemId, localVars>>

NoStream ==
    /\ \/ at = "readId" /\ "in" \notin streams
       \/ at = "writeKnown" /\ "out" \notin streams
    /\ BuilderMove(at, "dead")
    /\ UNCHANGED <<socketVars, socket, streams, working, problemId, localVars>>

NotWorking ==
    /\ BuilderMove("waiting", "readId")
    /\ working' = FALSE
    /\ UNCHANGED <<socketVars, socket, streams, problemId, localVars>>

ReadId ==
    /\ "in" \in streams
    /\ BuilderMove("readId", "gotId")
    /\ Take(socket, "builder")
    /\ problemId' = Received(socket, "builder").of
    /\ UNCHANGED <<socket, streams, working, localVars>>

\* Mutant: A keepalive is treated like a submission.
GotIdAlways ==
    /\ BuilderMove("gotId", "writeKnown")
    /\ working' = TRUE
    /\ UNCHANGED <<socketVars, socket, streams, problemId, localVars>>

\* A keepalive is ignored.
GotId ==
    /\ BuilderMove("gotId", IF problemId = {} THEN "top" ELSE "writeKnown")
    /\ working' = TRUE
    /\ UNCHANGED <<socketVars, socket, streams, problemId, localVars>>

\* Nothing is ever put into the maps of problems and test cases.
cached == {}

\* Mutant: The Builder answers that it knows the problem as soon as it has had one.
WriteKnownLast ==
    /\ "out" \in streams
    /\ LET hit == problem # NoSubmission
       IN  /\ BuilderMove("writeKnown", IF hit THEN "readText" ELSE "readProblem")
           /\ Put(socket, "builder", Msg(IF hit THEN "known" ELSE "unknown", {}))
    /\ problemId' = {}
    /\ UNCHANGED <<socket, streams, working, localVars>>

WriteKnown ==
    /\ "out" \in streams
    /\ LET hit == problemId \subseteq cached
       IN  /\ BuilderMove("writeKnown", IF hit THEN "readText" ELSE "readProblem")
           /\ Put(socket, "builder", Msg(IF hit THEN "known" ELSE "unknown", {}))
    /\ problemId' = {}
    /\ UNCHANGED <<socket, streams, working, localVars>>

TheOne(S) == CHOOSE s \in S : TRUE

ReadProblem ==
    /\ BuilderMove("readProblem", "readCases")
    /\ Take(socket, "builder")
    /\ problem' = TheOne(Received(socket, "builder").of)
    /\ UNCHANGED <<socket, streams, working, problemId, cases, text>>

ReadCases ==
    /\ BuilderMove("readCases", "readText")
    /\ Take(socket, "builder")
    /\ cases' = TheOne(Received(socket, "builder").of)
    /\ UNCHANGED <<socket, streams, working, problemId, problem, text>>

ReadText ==
    /\ BuilderMove("readText", "test")
    /\ Take(socket, "builder")
    /\ text' = TheOne(Received(socket, "builder").of)
    /\ UNCHANGED <<socket, streams, working, problemId, problem, cases>>

\* testSubmission has a result whatever goes wrong.
Test ==
    /\ BuilderMove("test", "writeResult")
    /\ UNCHANGED <<socketVars, socket, streams, working, problemId, localVars>>

WriteResult ==
    /\ BuilderMove("writeResult", "top")
    /\ Put(socket, "builder", Msg("result", {problem, cases, text}))
    /\ UNCHANGED <<socket, streams, working, problemId, localVars>>

\* The catch of IOException: the Builder forgets the socket.
Forget ==
    /\ \/ /\ at \in {"readId", "readProblem", "readCases", "readText"}
          /\ "in" \in streams
          /\ ReadFails(socket, "builder")
       \/ /\ at \in {"writeKnown", "writeResult"}
          /\ "out" \in streams
          /\ WriteFails(socket)
    /\ BuilderMove(at, "top")
    /\ socket' = NoConnection
    /\ streams' = {}
    /\ problemId' = {}
    /\ UNCHANGED <<socketVars, working, localVars>>

Builder ==
    \/ Loop \/ Connect \/ CannotConnect \/ MakeIn \/ MakeOut \/ StreamFails
    \/ NoStream \/ NotWorking \/ ReadId \/ GotId \/ WriteKnown
    \/ ReadProblem \/ ReadCases \/ ReadText \/ Test \/ WriteResult \/ Forget

-----------------------------------------------------------------------------
(* Builder2.shutdown, called by the daemon, which then waits for the thread *)
(* and ends the process.                                                   *)

RequestShutdown ==
    /\ stopper = "none"
    /\ stopper' = "asked"
    /\ shutdownRequested' = TRUE
    /\ UNCHANGED <<socketVars, serverVars, builderVars>>

\* A Builder at work is left alone.
ReadWorking ==
    /\ stopper = "asked"
    /\ stopper' = IF working THEN "done" ELSE "closing"
    /\ UNCHANGED <<socketVars, serverVars, builderVars, shutdownRequested>>

ShutSocket(c) ==
    shut' = [d \in Connections |->
                IF d = c THEN shut[d] \cup {"builder"} ELSE shut[d]]

CloseIdle ==
    /\ stopper = "closing"
    /\ stopper' = "done"
    /\ ShutSocket(socket)
    /\ UNCHANGED <<made, down, up, breaks, serverVars, builderVars,
                   shutdownRequested>>

\* The process ends, and with it the socket the thread has left open.
ProcessEnds ==
    /\ stopper = "done"
    /\ at \in {"ended", "dead"}
    /\ socket # NoConnection
    /\ "builder" \notin shut[socket]
    /\ ShutSocket(socket)
    /\ UNCHANGED <<made, down, up, breaks, serverVars, builderVars, stopVars>>

Stopper == ReadWorking \/ CloseIdle \/ ProcessEnds

-----------------------------------------------------------------------------

Next ==
    \/ Builder \/ Stopper \/ RequestShutdown
    \/ \E c \in Connections : Worker(c) \/ Break(c)
    \/ \E s \in Submissions : Submit(s)

Spec == Init /\ [][Next]_vars

\* Every thread runs; connections are made, stopped and broken, submissions
\* come and shutdown is asked for at will.
FairSpec ==
    /\ Spec
    /\ WF_vars(Builder)
    /\ WF_vars(Stopper)
    /\ \A c \in Connections : WF_vars(Worker(c))

-----------------------------------------------------------------------------
(* Properties.                                                             *)

\* The kinds of message each side is ready for.
WorkerReads ==
    [readHeader |-> {"header"}, readKnown |-> {"known", "unknown"},
     readResult |-> {"result"}]
BuilderReads ==
    [readHeader |-> {"header"}, readId |-> {"id", "keepalive"},
     readProblem |-> {"problem"}, readCases |-> {"cases"}, readText |-> {"text"}]

\* Neither side is ever sent an object of a class it does not expect, which
\* would end its thread by a ClassCastException: keepalives, the answer
\* whether the problem is known and results never get between each other,
\* whenever a connection breaks, ends or is made anew.
MessagesExpected ==
    /\ \A c \in Connections :
        worker[c] \in DOMAIN WorkerReads /\ CanRead(c, "worker") =>
            Received(c, "worker").kind \in WorkerReads[worker[c]]
    /\ at \in DOMAIN BuilderReads /\ CanRead(socket, "builder") =>
            Received(socket, "builder").kind \in BuilderReads[at]

\* The result a worker sets on a submission was made from the problem, the
\* test cases and the text of that submission and of no other, although the
\* result on the wire names no submission.
VerdictIsItsOwn == \A s \in Submissions : verdict[s] \subseteq {s}

\* The server, once it has accepted a connection, comes to the end of the
\* handshake and of every submission, or learns that the connection is over:
\* neither side waits for the other for ever, also when the Builder has ended
\* between two submissions or a socket buffers no more.
AnsweredOrBroken ==
    \A c \in Connections :
        worker[c] \notin {"none", "backlog", "failed", "loop", "poll", "exited"} ~>
        worker[c] \in {"loop", "exited", "failed"}

\* The Builder waits for the header of a server that accepts no more.
NeverAccepted ==
    /\ at = "readHeader"
    /\ worker[socket] = "backlog"
    /\ AcceptEnded

\* A Builder that is asked to shut down ends, also when shutdown() found
\* working set, or no socket, and left open the one the thread then waits on:
\* the header, the next keepalive or submission, or the end of the worker, gets
\* it out.  Only a Builder whose connection is never accepted may wait for ever.
BuilderEnds == shutdownRequested ~> (at \in {"ended", "dead"} \/ []NeverAccepted)

=============================================================================
