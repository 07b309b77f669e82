------------------------ MODULE BuilderConnectionProofs ------------------------
(***************************************************************************)
(* Each side of a connection gets the messages it expects, and a verdict   *)
(* is of the submission it is set on, for any number of connections,       *)
(* breaks, keepalives and messages that a socket buffers.                  *)
(***************************************************************************)
EXTENDS BuilderConnection, SequenceTheorems, TLAPS

\* A worker with a submission.
Holding == {"writeId", "readKnown", "writeProblem", "writeCases", "writeText",
            "readResult", "putBack"}

\* A connection is in the backlog first; a worker closes its socket as its last act.
WorkerInv ==
    \A c \in Connections :
        /\ worker[c] = "none" <=> c > made
        /\ worker[c] \in {"none", "backlog"} => down[c] = <<>> /\ up[c] = <<>>
        /\ worker[c] = "none" => shut[c] = {}
        /\ "worker" \in shut[c] => worker[c] = "exited"
        /\ worker[c] \in {"putBack", "exited", "failed"} => shut[c] # {}
        /\ worker[c] \in Holding => held[c] \in Submissions

\* Where the Builder uses a socket, it has one.
BuilderInv ==
    /\ at \in {"top", "connect", "ended", "dead"} \/ socket # NoConnection
    /\ at = "connect" => socket = NoConnection
    /\ at = "writeKnown" => problemId # {}

\* What belongs to a submission belongs to one.
Carriers == {"id", "problem", "cases", "text"}
CarrierInv ==
    \A c \in Connections : \A i \in 1..Len(down[c]) :
        down[c][i].kind \in Carriers => \E s \in Submissions : down[c][i].of = {s}

\* The Builder's answers come one at a time, to the read that waits for it.
AnswerTo == [readHeader |-> "header", readKnown |-> "unknown", readResult |-> "result"]
UpInv ==
    \A c \in Connections : up[c] # <<>> =>
        /\ Len(up[c]) = 1
        /\ worker[c] \in DOMAIN AnswerTo
        /\ up[c][1].kind = AnswerTo[worker[c]]
        /\ worker[c] = "readResult" => up[c][1].of = {held[c]}

\* The Builder is between two submissions.
Between == at \in {"top", "waiting", "readId"} \/ (at = "gotId" /\ problemId = {})

\* What the Builder is still to read before it answers.
ToCome ==
    [readHeader |-> <<"header">>, writeHeader |-> <<>>, writeKnown |-> <<>>,
     readProblem |-> <<"problem", "cases", "text">>, readCases |-> <<"cases", "text">>,
     readText |-> <<"text">>, test |-> <<>>, writeResult |-> <<>>]

\* What is on its way to the Builder is the start of what it is still to read.
DownInv ==
    socket # NoConnection /\ "builder" \notin shut[socket] =>
        /\ at \in DOMAIN ToCome =>
            /\ Len(down[socket]) <= Len(ToCome[at])
            /\ \A i \in 1..Len(down[socket]) : down[socket][i].kind = ToCome[at][i]
        /\ Between =>
            \A i \in 1..Len(down[socket]) :
                \/ down[socket][i] = Msg("keepalive", {})
                \/ down[socket][i].kind = "id" /\ i = Len(down[socket])
        /\ at = "gotId" /\ ~Between => down[socket] = <<>>

\* The parts of a submission: how many the worker has sent, and the Builder read.
Sent == [writeProblem |-> 0, writeCases |-> 1, writeText |-> 2, readResult |-> 3]
Read == [readProblem |-> 0, readCases |-> 1, readText |-> 2, test |-> 3, writeResult |-> 3]

\* Both are in the same part of the conversation, and talk about one submission.
Handshake(c) ==
    /\ worker[c] \in {"backlog", "writeHeader"} =>
        at = "readHeader" /\ down[c] = <<>> /\ up[c] = <<>>
    /\ worker[c] = "readHeader" =>
        \/ at = "readHeader" /\ down[c] # <<>> /\ up[c] = <<>>
        \/ at = "writeHeader" /\ up[c] = <<>>
        \/ Between /\ down[c] = <<>> /\ up[c] # <<>>
Request(c) ==
    /\ worker[c] \in {"loop", "poll", "writeId", "close"} =>
        /\ Between /\ up[c] = <<>>
        /\ \A i \in 1..Len(down[c]) : down[c][i].kind # "id"
    /\ worker[c] = "readKnown" =>
        \/ /\ Between /\ up[c] = <<>> /\ down[c] # <<>>
           /\ down[c][Len(down[c])] = Msg("id", {held[c]})
        \/ at \in {"gotId", "writeKnown"} /\ problemId = {held[c]} /\ up[c] = <<>>
        \/ at = "readProblem" /\ up[c] # <<>> /\ down[c] = <<>>
Answer(c) ==
    worker[c] \in DOMAIN Sent =>
        \/ Between /\ down[c] = <<>> /\ up[c] # <<>>
        \/ /\ at \in DOMAIN Read /\ up[c] = <<>>
           /\ Read[at] + Len(down[c]) = Sent[worker[c]]
           /\ \A i \in 1..Len(down[c]) : down[c][i].of = {held[c]}
           /\ Read[at] > 0 => problem = held[c]
           /\ Read[at] > 1 => cases = held[c]
           /\ Read[at] > 2 => text = held[c]

SyncInv ==
    socket # NoConnection /\ shut[socket] = {} /\ at \notin {"ended", "dead"} =>
        /\ Handshake(socket)
        /\ Request(socket)
        /\ Answer(socket)

ConnectionInv ==
    /\ TypeOK /\ WorkerInv /\ BuilderInv /\ CarrierInv
    /\ UpInv /\ DownInv /\ SyncInv

-----------------------------------------------------------------------------
(* What the operations on a socket do.                                     *)

\* The message at the head is taken off, and the others move up.
LEMMA TailElements ==
    ASSUME NEW S, NEW q \in Seq(S), q # <<>>
    PROVE  /\ q[1] \in S /\ Head(q) = q[1]
           /\ Tail(q) \in Seq(S)
           /\ Len(q) \in Nat \ {0}
           /\ Len(Tail(q)) = Len(q) - 1
           /\ \A i \in 1..Len(Tail(q)) : i + 1 \in 1..Len(q) /\ Tail(q)[i] = q[i + 1]
PROOF
  BY HeadTailProperties, EmptySeq, LenProperties

LEMMA AppendElements ==
    ASSUME NEW S, NEW q \in Seq(S), NEW m \in S
    PROVE  /\ Append(q, m) \in Seq(S)
           /\ Len(q) \in Nat
           /\ Len(Append(q, m)) = Len(q) + 1
           /\ \A i \in 1..Len(q) : Append(q, m)[i] = q[i]
           /\ Append(q, m)[Len(q) + 1] = m
           /\ Append(q, m) # <<>>
PROOF
  BY AppendProperties, LenProperties

\* A sequence is empty when it has no elements.
LEMMA EmptyLength ==
    ASSUME NEW S, NEW q \in Seq(S)
    PROVE  q = <<>> <=> Len(q) = 0
PROOF
  BY EmptySeq

\* A length that is not zero.
LEMMA PositiveLength ==
    ASSUME NEW n \in Nat \ {0}
    PROVE  /\ n <= 1 => n = 1
           /\ n # 1 => n - 1 \in 1..(n - 1) /\ n - 1 # 0 /\ (n - 1) + 1 = n
PROOF
  BY SMT

\* What is left of a sequence whose end is lost.
LEMMA StartElements ==
    ASSUME NEW S, NEW q \in Seq(S), NEW n \in 0..Len(q)
    PROVE  /\ SubSeq(q, 1, n) \in Seq(S)
           /\ Len(SubSeq(q, 1, n)) = n
           /\ \A i \in 1..n : i \in 1..Len(q) /\ SubSeq(q, 1, n)[i] = q[i]
PROOF
  BY SubSeqProperties, LenProperties

LEMMA WorkerTakes ==
    ASSUME TypeOK, NEW c \in Connections, Take(c, "worker")
    PROVE  /\ up' \in [Connections -> Seq(Message)]
           /\ up[c] # <<>> /\ up[c][1] \in Message /\ Received(c, "worker") = up[c][1]
           /\ Len(up'[c]) = Len(up[c]) - 1
           /\ \A d \in Connections \ {c} : up'[d] = up[d]
           /\ "worker" \notin shut[c]
           /\ UNCHANGED <<down, made, shut, breaks>>
PROOF
  <1>1. up[c] # <<>> /\ up' = [up EXCEPT ![c] = Tail(@)] /\ up[c] \in Seq(Message)
    BY DEF Take, CanRead, Incoming, TypeOK
  <1>2. Tail(up[c]) \in Seq(Message) /\ Len(Tail(up[c])) = Len(up[c]) - 1
        /\ up[c][1] \in Message /\ Head(up[c]) = up[c][1]
    BY <1>1, TailElements
  <1>3. up' \in [Connections -> Seq(Message)] /\ up'[c] = Tail(up[c])
        /\ \A d \in Connections \ {c} : up'[d] = up[d]
    BY <1>1, <1>2 DEF TypeOK
  <1> QED BY <1>1, <1>2, <1>3 DEF Take, CanRead, Incoming, Received

LEMMA BuilderTakes ==
    ASSUME TypeOK, NEW c \in Connections, Take(c, "builder")
    PROVE  /\ down' \in [Connections -> Seq(Message)]
           /\ down[c] # <<>> /\ down[c][1] \in Message
           /\ Received(c, "builder") = down[c][1]
           /\ Len(down[c]) \in Nat \ {0} /\ Len(down'[c]) = Len(down[c]) - 1
           /\ \A i \in 1..Len(down'[c]) :
                  i + 1 \in 1..Len(down[c]) /\ down'[c][i] = down[c][i + 1]
           /\ \A d \in Connections \ {c} : down'[d] = down[d]
           /\ "builder" \notin shut[c]
           /\ UNCHANGED <<up, made, shut, breaks>>
PROOF
  <1>1. down[c] # <<>> /\ down' = [down EXCEPT ![c] = Tail(@)] /\ down[c] \in Seq(Message)
    BY DEF Take, CanRead, Incoming, TypeOK
  <1>2. /\ Tail(down[c]) \in Seq(Message) /\ Len(Tail(down[c])) = Len(down[c]) - 1
        /\ down[c][1] \in Message /\ Head(down[c]) = down[c][1]
        /\ Len(down[c]) \in Nat \ {0}
        /\ \A i \in 1..Len(Tail(down[c])) :
              i + 1 \in 1..Len(down[c]) /\ Tail(down[c])[i] = down[c][i + 1]
    BY <1>1, TailElements
  <1>3. down' \in [Connections -> Seq(Message)] /\ down'[c] = Tail(down[c])
        /\ \A d \in Connections \ {c} : down'[d] = down[d]
    BY <1>1, <1>2 DEF TypeOK
  <1> QED BY <1>1, <1>2, <1>3 DEF Take, CanRead, Incoming, Received

\* What is written arrives unless the socket is shut.
LEMMA WorkerPuts ==
    ASSUME TypeOK, NEW c \in Connections, NEW m \in Message, Put(c, "worker", m)
    PROVE  /\ down' \in [Connections -> Seq(Message)]
           /\ Len(down[c]) \in Nat
           /\ shut[c] # {} => down' = down
           /\ shut[c] = {} =>
                /\ Len(down'[c]) = Len(down[c]) + 1
                /\ down'[c][Len(down[c]) + 1] = m
                /\ \A i \in 1..Len(down[c]) : down'[c][i] = down[c][i]
           /\ \A d \in Connections \ {c} : down'[d] = down[d]
           /\ UNCHANGED <<up, made, shut, breaks>>
PROOF
  <1>1. down \in [Connections -> Seq(Message)] /\ Len(down[c]) \in Nat
    BY LenProperties DEF TypeOK
  <1>2. CASE shut[c] # {}
    BY <1>1, <1>2 DEF Put
  <1>3. CASE shut[c] = {}
    <2>1. down' = [down EXCEPT ![c] = Append(@, m)]
      BY <1>3 DEF Put
    <2> QED BY <1>1, <1>3, <2>1, AppendElements DEF Put
  <1> QED BY <1>2, <1>3

LEMMA BuilderPuts ==
    ASSUME TypeOK, NEW c \in Connections, NEW m, shut[c] = {} => m \in Message,
           Put(c, "builder", m)
    PROVE  /\ up' \in [Connections -> Seq(Message)]
           /\ shut[c] # {} => up' = up
           /\ shut[c] = {} => up'[c] = Append(up[c], m)
           /\ \A d \in Connections \ {c} : up'[d] = up[d]
           /\ UNCHANGED <<down, made, shut, breaks>>
PROOF
  <1>1. up \in [Connections -> Seq(Message)]
    BY DEF TypeOK
  <1>2. CASE shut[c] # {}
    BY <1>1, <1>2 DEF Put
  <1>3. CASE shut[c] = {}
    <2>1. up' = [up EXCEPT ![c] = Append(@, m)]
      BY <1>3 DEF Put
    <2> QED BY <1>1, <1>3, <2>1, AppendElements DEF Put
  <1> QED BY <1>2, <1>3

-----------------------------------------------------------------------------
(* The worker of a connection.                                             *)

\* The socket of the Builder is of a connection that was made.
LEMMA SocketOfConnection ==
    ASSUME TypeOK, socket # NoConnection
    PROVE  socket \in Connections /\ socket <= made
PROOF
  BY ConnectionAssumption DEF TypeOK, Connections, NoConnection

\* A step of another connection does not disturb the Builder's conversation.
LEMMA ElsewhereStep ==
    ASSUME DownInv, SyncInv, UNCHANGED builderVars,
           socket # NoConnection =>
                /\ down'[socket] = down[socket] /\ up'[socket] = up[socket]
                /\ shut'[socket] = shut[socket]
                /\ worker'[socket] = worker[socket] /\ held'[socket] = held[socket]
    PROVE  DownInv' /\ SyncInv'
PROOF
  <1>1. DownInv'
    BY DEF DownInv, Between, builderVars
  <1>2. SyncInv'
    BY DEF SyncInv, Handshake, Request, Answer, Between, builderVars
  <1> QED BY <1>1, <1>2

\* A step that touches no socket, and leads a worker from the head of its loop to a
\* state of the same kind, or out of a conversation that is over.
LEMMA QuietStep ==
    ASSUME ConnectionInv, NEW c \in Connections, NEW st, NEW st2,
           WorkerMove(c, st, st2), UNCHANGED socketVars,
           st # "none", st2 \notin {"none", "backlog"}, st2 \notin DOMAIN AnswerTo,
           "worker" \in shut[c] => st2 = "exited",
           up[c] = <<>>,
           \/ {st, st2} \subseteq {"loop", "poll", "writeId", "close"}
           \/ st = "backlog" /\ st2 = "writeHeader"
           \/ shut[c] # {},
           \A d \in Connections \ {c} : held'[d] = held[d],
           st2 \in Holding => held'[c] \in Submissions,
           TypeOK'
    PROVE  ConnectionInv'
PROOF
  <1>1. worker' = [worker EXCEPT ![c] = st2] /\ worker[c] = st
        /\ worker \in [Connections -> WorkerStates]
        /\ UNCHANGED <<builderVars, stopVars, made, down, up, shut>>
    BY DEF WorkerMove, Goto, ConnectionInv, TypeOK, socketVars
  <1>2. WorkerInv'
    BY <1>1 DEF WorkerInv, ConnectionInv
  <1>3. BuilderInv' /\ CarrierInv'
    BY <1>1 DEF BuilderInv, CarrierInv, ConnectionInv, builderVars
  <1>4. UpInv'
    BY <1>1 DEF UpInv, ConnectionInv
  <1>5. DownInv' /\ SyncInv'
    <2>1. CASE c # socket
      <3>1. socket # NoConnection => socket \in Connections \ {c}
        BY <2>1, SocketOfConnection DEF ConnectionInv
      <3> QED BY <1>1, <3>1, ElsewhereStep DEF ConnectionInv
    <2>2. CASE c = socket
      <3>1. DownInv'
        BY <1>1 DEF DownInv, Between, builderVars, ConnectionInv
      <3>2. SyncInv'
        BY <1>1, <2>2 DEF SyncInv, Handshake, Request, Answer, Between, builderVars,
                          ConnectionInv, Sent
      <3> QED BY <3>1, <3>2
    <2> QED BY <2>1, <2>2
  <1> QED BY <1>2, <1>3, <1>4, <1>5 DEF ConnectionInv

\* A connection is accepted.
LEMMA AcceptStep ==
    ASSUME ConnectionInv, NEW c \in Connections, Accept(c)
    PROVE  ConnectionInv'
PROOF
  <1> USE DEF ConnectionInv
  <1>1. /\ WorkerMove(c, "backlog", "writeHeader") /\ worker[c] = "backlog"
        /\ UNCHANGED socketVars /\ UNCHANGED <<queue, verdict, held, idle>>
    BY DEF Accept, WorkerMove
  <1>2. up[c] = <<>> /\ "worker" \notin shut[c]
    BY <1>1 DEF WorkerInv
  <1>3. TypeOK'
    BY <1>1 DEF TypeOK, WorkerMove, Goto, WorkerStates, socketVars, builderVars, stopVars
  <1> QED BY <1>1, <1>2, <1>3, QuietStep DEF AnswerTo, Holding

\* At the head of the loop and in the queue.
LEMMA LoopStep ==
    ASSUME ConnectionInv, NEW c \in Connections,
           CheckShutdown(c) \/ PollSubmission(c) \/ PollNothing(c)
    PROVE  ConnectionInv'
PROOF
  <1> USE DEF ConnectionInv
  <1>1. worker[c] \in {"loop", "poll"}
    BY DEF CheckShutdown, PollSubmission, PollNothing, WorkerMove
  <1>2. up[c] = <<>> /\ "worker" \notin shut[c]
    BY <1>1 DEF UpInv, WorkerInv, AnswerTo
  <1>3. CASE CheckShutdown(c)
    <2>1. TypeOK'
      BY <1>3 DEF TypeOK, CheckShutdown, WorkerMove, Goto, WorkerStates, socketVars,
                  builderVars, stopVars
    <2> QED BY <1>2, <1>3, <2>1, QuietStep DEF CheckShutdown, AnswerTo, Holding
  <1>4. CASE PollSubmission(c)
    <2>1. queue # <<>> /\ queue \in Seq(Submissions)
      BY <1>4 DEF PollSubmission, TypeOK
    <2>2. Head(queue) \in Submissions /\ Tail(queue) \in Seq(Submissions)
      BY <2>1
    <2>3. held' = [held EXCEPT ![c] = Head(queue)] /\ queue' = Tail(queue)
      BY <1>4 DEF PollSubmission
    <2>4. TypeOK'
      BY <1>4, <2>2, <2>3, ConnectionAssumption
         DEF TypeOK, PollSubmission, WorkerMove, Goto, WorkerStates, socketVars,
             builderVars, stopVars, MaybeSubmission
    <2>5. held'[c] \in Submissions /\ \A d \in Connections \ {c} : held'[d] = held[d]
      BY <2>2, <2>3 DEF TypeOK
    <2> QED BY <1>2, <1>4, <2>4, <2>5, QuietStep DEF PollSubmission, AnswerTo
  <1>5. CASE PollNothing(c)
    <2>1. TypeOK'
      BY <1>5, ConnectionAssumption
         DEF TypeOK, PollNothing, WorkerMove, Goto, WorkerStates, socketVars,
             builderVars, stopVars
    <2> QED BY <1>2, <1>5, <2>1, QuietStep DEF PollNothing, AnswerTo, Holding
  <1> QED BY <1>3, <1>4, <1>5

\* A stream that fails, in the handshake or about a submission, which goes back.
LEMMA FailureStep ==
    ASSUME ConnectionInv, NEW c \in Connections,
           NoHandshake(c) \/ SendFails(c) \/ PutBack(c)
    PROVE  ConnectionInv'
PROOF
  <1> USE DEF ConnectionInv
  <1>1. worker[c] \notin {"none", "exited"} /\ "worker" \notin shut[c]
    BY DEF NoHandshake, SendFails, PutBack, WorkerMove, WorkerInv, AfterSend
  <1>2. up[c] = <<>>
    BY <1>1 DEF NoHandshake, SendFails, PutBack, WorkerMove, UpInv, AnswerTo, ReadFails,
                Incoming, AfterSend
  <1>3. CASE NoHandshake(c)
    <2>1. shut[c] # {}
      BY <1>3 DEF NoHandshake, WriteFails, ReadFails
    <2>2. TypeOK'
      BY <1>3 DEF TypeOK, NoHandshake, WorkerMove, Goto, WorkerStates, socketVars,
                  builderVars, stopVars
    <2> QED BY <1>1, <1>2, <1>3, <2>1, <2>2, QuietStep
            DEF NoHandshake, AnswerTo, Holding
  <1>4. CASE SendFails(c)
    <2>1. shut[c] # {} /\ worker[c] \in Holding
      BY <1>4 DEF SendFails, WriteFails, ReadFails, Holding, AfterSend
    <2>2. TypeOK'
      BY <1>4 DEF TypeOK, SendFails, WorkerMove, Goto, WorkerStates, socketVars,
                  builderVars, stopVars
    <2>3. held[c] \in Submissions /\ held' = held
      BY <1>4, <2>1 DEF WorkerInv, SendFails
    <2> QED BY <1>1, <1>2, <1>4, <2>1, <2>2, <2>3, QuietStep DEF SendFails, AnswerTo
  <1>5. CASE PutBack(c)
    <2>1. held[c] \in Submissions
      BY <1>5 DEF PutBack, WorkerMove, WorkerInv, Holding
    <2>2. shut[c] # {}
      BY <1>5 DEF PutBack, WorkerMove, WorkerInv
    <2>3. TypeOK'
      <3>1. Append(queue, held[c]) \in Seq(Submissions)
        BY <2>1 DEF TypeOK
      <3> QED BY <1>5, <3>1
              DEF TypeOK, PutBack, WorkerMove, Goto, WorkerStates, socketVars,
                  builderVars, stopVars, MaybeSubmission
    <2>4. \A d \in Connections \ {c} : held'[d] = held[d]
      BY <1>5 DEF PutBack, TypeOK
    <2> QED BY <1>1, <1>2, <1>5, <2>2, <2>3, <2>4, QuietStep
            DEF PutBack, AnswerTo, Holding
  <1> QED BY <1>3, <1>4, <1>5

\* The worker has closed its socket.
LEMMA CloseStep ==
    ASSUME ConnectionInv, NEW c \in Connections, CloseSocket(c)
    PROVE  ConnectionInv'
PROOF
  <1> USE DEF ConnectionInv
  <1>1. /\ worker[c] = "close" /\ worker' = [worker EXCEPT ![c] = "exited"]
        /\ shut' = [shut EXCEPT ![c] = @ \cup {"worker"}]
        /\ UNCHANGED <<made, down, up, breaks, queue, verdict, held, idle,
                       builderVars, stopVars>>
    BY DEF CloseSocket, WorkerMove, Goto
  <1>2. TypeOK'
    BY <1>1 DEF TypeOK, WorkerStates, builderVars, stopVars
  <1>3. WorkerInv'
    BY <1>1, <1>2 DEF TypeOK, WorkerInv, Holding
  <1>4. BuilderInv' /\ CarrierInv'
    BY <1>1 DEF BuilderInv, CarrierInv, builderVars
  <1>5. UpInv'
    <2>1. up[c] = <<>>
      BY <1>1 DEF UpInv, AnswerTo
    <2>2. \A d \in Connections \ {c} : worker'[d] = worker[d]
      BY <1>1 DEF TypeOK
    <2> QED BY <1>1, <2>1, <2>2 DEF UpInv
  <1>6. CASE c # socket
    <2>1. socket # NoConnection => socket \in Connections \ {c}
      BY <1>6, SocketOfConnection
    <2> QED BY <1>1, <1>2, <1>3, <1>4, <1>5, <2>1, ElsewhereStep DEF TypeOK
  <1>7. CASE c = socket
    <2>1. shut'[c] = shut[c] \cup {"worker"}
      BY <1>1 DEF TypeOK
    <2>2. DownInv' /\ SyncInv'
      BY <1>1, <1>7, <2>1 DEF DownInv, SyncInv, Between, builderVars
    <2> QED BY <1>2, <1>3, <1>4, <1>5, <2>2
  <1> QED BY <1>6, <1>7

\* The worker reads the answer it waits for, and there is no other.
LEMMA ReadStep ==
    ASSUME ConnectionInv, NEW c \in Connections, NEW st2,
           Take(c, "worker"), WorkerMove(c, worker[c], st2),
           \/ worker[c] = "readHeader" /\ st2 = "loop"
           \/ worker[c] = "readKnown" /\ st2 = "writeProblem" /\ UNCHANGED held
           \/ worker[c] = "readResult" /\ st2 = "loop",
           queue' \in Seq(Submissions), verdict' \in [Submissions -> SUBSET Submissions],
           held' \in [Connections -> MaybeSubmission], UNCHANGED idle,
           \A d \in Connections \ {c} : held'[d] = held[d]
    PROVE  ConnectionInv'
PROOF
  <1> USE DEF ConnectionInv
  <1>1. /\ worker \in [Connections -> WorkerStates]
        /\ worker' = [worker EXCEPT ![c] = st2] /\ UNCHANGED <<builderVars, stopVars>>
    BY DEF TypeOK, WorkerMove, Goto
  <1>2. /\ up' \in [Connections -> Seq(Message)]
        /\ up[c] # <<>> /\ Len(up'[c]) = Len(up[c]) - 1
        /\ \A d \in Connections \ {c} : up'[d] = up[d]
        /\ "worker" \notin shut[c]
        /\ UNCHANGED <<down, made, shut, breaks>>
    BY WorkerTakes
  <1>3. up'[c] = <<>>
    <2>1. Len(up'[c]) = 0 /\ up'[c] \in Seq(Message)
      BY <1>2 DEF UpInv
    <2> QED BY <2>1, EmptyLength
  <1>4. TypeOK'
    BY <1>1, <1>2 DEF TypeOK, WorkerStates, builderVars, stopVars
  <1>5. WorkerInv'
    BY <1>1, <1>2, <1>3 DEF WorkerInv, Holding
  <1>6. BuilderInv' /\ CarrierInv'
    BY <1>1, <1>2 DEF BuilderInv, CarrierInv, builderVars
  <1>7. UpInv'
    BY <1>1, <1>2, <1>3 DEF UpInv
  <1>8. DownInv' /\ SyncInv'
    <2>1. CASE c # socket
      <3>1. socket # NoConnection => socket \in Connections \ {c}
        BY <2>1, SocketOfConnection
      <3> QED BY <1>1, <1>2, <3>1, ElsewhereStep
    <2>2. CASE c = socket
      <3>1. DownInv'
        BY <1>1, <1>2 DEF DownInv, Between, builderVars
      <3>2. Len(down[c]) \in Nat /\ (down[c] = <<>> => Len(down[c]) = 0)
        BY LenProperties, EmptyLength DEF TypeOK
      <3>3. SyncInv'
        BY <1>1, <1>2, <1>3, <2>2, <3>2
           DEF SyncInv, Handshake, Request, Answer, Between, builderVars, Sent, Read
      <3> QED BY <3>1, <3>3
    <2> QED BY <2>1, <2>2
  <1> QED BY <1>4, <1>5, <1>6, <1>7, <1>8

\* The three reads of a worker.
LEMMA AnswerStep ==
    ASSUME ConnectionInv, NEW c \in Connections,
           ReadHeader(c) \/ ReadKnown(c) \/ ReadResult(c)
    PROVE  ConnectionInv'
PROOF
  <1> USE DEF ConnectionInv
  <1>1. /\ queue \in Seq(Submissions) /\ verdict \in [Submissions -> SUBSET Submissions]
        /\ held \in [Connections -> MaybeSubmission]
    BY DEF TypeOK
  <1>2. CASE ReadHeader(c)
    BY <1>1, <1>2, ReadStep DEF ReadHeader, WorkerMove
  <1>3. CASE ReadKnown(c)
    <2>1. Received(c, "worker").kind = "unknown"
      BY <1>3, WorkerTakes DEF ReadKnown, UpInv, AnswerTo
    <2> QED BY <1>1, <1>3, <2>1, ReadStep DEF ReadKnown
  <1>4. CASE ReadResult(c)
    <2>1. /\ up[c][1] \in Message /\ Received(c, "worker") = up[c][1]
          /\ worker[c] = "readResult" /\ held[c] \in Submissions
      BY <1>4, WorkerTakes DEF ReadResult, WorkerMove, WorkerInv, Holding
    <2>2. verdict' = [verdict EXCEPT ![held[c]] = up[c][1].of]
      BY <1>4, <2>1 DEF ReadResult
    <2>3. verdict' \in [Submissions -> SUBSET Submissions]
      BY <1>1, <2>1, <2>2 DEF Message
    <2>4. /\ held' \in [Connections -> MaybeSubmission] /\ UNCHANGED <<queue, idle>>
          /\ \A d \in Connections \ {c} : held'[d] = held[d]
      BY <1>1, <1>4 DEF ReadResult, MaybeSubmission
    <2> QED BY <1>1, <1>4, <2>1, <2>3, <2>4, ReadStep DEF ReadResult
  <1> QED BY <1>2, <1>3, <1>4

\* The worker writes the next message of the conversation.
LEMMA WriteStep ==
    ASSUME ConnectionInv, NEW c \in Connections, NEW m \in Message, NEW st2,
           Put(c, "worker", m), WorkerMove(c, worker[c], st2),
           \/ worker[c] = "writeHeader" /\ st2 = "readHeader" /\ m = Msg("header", {})
           \/ worker[c] = "poll" /\ st2 = "loop" /\ m = Msg("keepalive", {})
           \/ worker[c] = "writeId" /\ st2 = "readKnown" /\ m = Msg("id", {held[c]})
           \/ worker[c] = "writeProblem" /\ st2 = "writeCases" /\ m = Msg("problem", {held[c]})
           \/ worker[c] = "writeCases" /\ st2 = "writeText" /\ m = Msg("cases", {held[c]})
           \/ worker[c] = "writeText" /\ st2 = "readResult" /\ m = Msg("text", {held[c]}),
           idle' \in [Connections -> 0..MaxIdle], UNCHANGED <<queue, verdict, held>>
    PROVE  ConnectionInv'
PROOF
  <1> USE DEF ConnectionInv
  <1>1. /\ worker \in [Connections -> WorkerStates]
        /\ worker' = [worker EXCEPT ![c] = st2] /\ UNCHANGED <<builderVars, stopVars>>
    BY DEF TypeOK, WorkerMove, Goto
  <1>2. /\ down' \in [Connections -> Seq(Message)]
        /\ Len(down[c]) \in Nat
        /\ shut[c] # {} => down' = down
        /\ shut[c] = {} =>
             /\ Len(down'[c]) = Len(down[c]) + 1
             /\ down'[c][Len(down[c]) + 1] = m
             /\ \A i \in 1..Len(down[c]) : down'[c][i] = down[c][i]
        /\ \A d \in Connections \ {c} : down'[d] = down[d]
        /\ UNCHANGED <<up, made, shut, breaks>>
    BY WorkerPuts
  <1>3. up[c] = <<>> /\ "worker" \notin shut[c]
    BY DEF UpInv, WorkerInv, AnswerTo
  <1>4. TypeOK'
    BY <1>1, <1>2 DEF TypeOK, WorkerStates, builderVars, stopVars
  <1>5. WorkerInv'
    BY <1>1, <1>2 DEF WorkerInv, Holding
  <1>6. BuilderInv'
    BY <1>1 DEF BuilderInv, builderVars
  <1>7. CarrierInv'
    <2>1. m.kind \in Carriers => m.of = {held[c]} /\ held[c] \in Submissions
      BY DEF WorkerInv, Holding, Carriers, Msg
    <2>2. ASSUME NEW i \in 1..Len(down'[c]), down'[c][i].kind \in Carriers
          PROVE  \E s \in Submissions : down'[c][i].of = {s}
      <3>1. CASE i \in 1..Len(down[c]) /\ down'[c][i] = down[c][i]
        BY <2>2, <3>1 DEF CarrierInv
      <3>2. CASE down'[c][i] = m
        BY <2>1, <2>2, <3>2
      <3>3. CASE shut[c] # {}
        <4>1. down' = down
          BY <1>2, <3>3
        <4> QED BY <3>1, <4>1
      <3>4. CASE shut[c] = {}
        <4>1. i \in 1..Len(down[c]) \/ i = Len(down[c]) + 1
          BY <1>2, <3>4
        <4> QED BY <1>2, <3>1, <3>2, <3>4, <4>1
      <3> QED BY <3>3, <3>4
    <2>3. ASSUME NEW d \in Connections \ {c}, NEW i \in 1..Len(down'[d]),
                 down'[d][i].kind \in Carriers
          PROVE  \E s \in Submissions : down'[d][i].of = {s}
      <3>1. down'[d] = down[d]
        BY <1>2
      <3> QED BY <2>3, <3>1 DEF CarrierInv
    <2> QED BY <2>2, <2>3 DEF CarrierInv
  <1>8. UpInv'
    BY <1>1, <1>2, <1>3 DEF UpInv
  <1>9. DownInv' /\ SyncInv'
    <2>1. CASE c # socket
      <3>1. socket # NoConnection => socket \in Connections \ {c}
        BY <2>1, SocketOfConnection
      <3> QED BY <1>1, <1>2, <3>1, ElsewhereStep
    <2>2. CASE c = socket /\ shut[c] # {}
      BY <1>1, <1>2, <2>2 DEF DownInv, SyncInv, Between, builderVars
    <2>3. CASE c = socket /\ shut[c] = {} /\ at \in {"ended", "dead"}
      BY <1>1, <1>2, <2>3 DEF DownInv, SyncInv, Between, ToCome, builderVars
    <2>4. CASE c = socket /\ shut[c] = {} /\ at \notin {"ended", "dead"}
      <3>1. /\ Handshake(c) /\ Request(c) /\ Answer(c)
            /\ socket # NoConnection /\ "builder" \notin shut[c]
        BY <2>4 DEF SyncInv, Connections, NoConnection
      <3>2. down[c] = <<>> <=> Len(down[c]) = 0
        BY EmptyLength DEF TypeOK
      <3>3. down'[c] # <<>>
        <4>1. down'[c] \in Seq(Message) /\ Len(down'[c]) # 0
          BY <1>2, <2>4
        <4> QED BY <4>1, EmptyLength
      <3>4. DownInv'
        <4>1. CASE worker[c] = "writeHeader"
          <5>1. at = "readHeader" /\ Len(down[c]) = 0 /\ m.kind = "header"
            BY <3>1, <3>2, <4>1 DEF Handshake, Msg
          <5>2. Len(ToCome[at]) = 1 /\ ToCome[at][1] = "header" /\ ~Between
            BY <5>1 DEF ToCome, Between
          <5>3. Len(down'[c]) = 1 /\ down'[c][1].kind = "header"
            BY <1>2, <2>4, <5>1
          <5> QED BY <1>1, <2>4, <5>1, <5>2, <5>3 DEF DownInv, Between, builderVars
        <4>2. CASE worker[c] \in {"poll", "writeId"}
          <5>1. Between /\ at \notin DOMAIN ToCome
                /\ \A i \in 1..Len(down[c]) : down[c][i] = Msg("keepalive", {})
            <6>1. Between /\ at \notin DOMAIN ToCome
              BY <3>1, <4>2 DEF Request, Between, ToCome
            <6>2. \A i \in 1..Len(down[c]) : down[c][i].kind # "id"
              BY <3>1, <4>2 DEF Request
            <6> QED BY <2>4, <3>1, <6>1, <6>2 DEF DownInv
          <5>2. m = Msg("keepalive", {}) \/ m.kind = "id"
            BY <4>2 DEF Msg
          <5>3. \A i \in 1..Len(down'[c]) :
                    \/ down'[c][i] = Msg("keepalive", {})
                    \/ down'[c][i].kind = "id" /\ i = Len(down'[c])
            BY <1>2, <2>4, <5>1, <5>2
          <5> QED BY <1>1, <2>4, <5>1, <5>3 DEF DownInv, Between, builderVars
        <4>3. CASE worker[c] \in {"writeProblem", "writeCases", "writeText"}
          <5>1. /\ at \in DOMAIN Read /\ Read[at] + Len(down[c]) = Sent[worker[c]]
            BY <1>3, <3>1, <4>3 DEF Answer, Sent
          <5>2. /\ at \in DOMAIN ToCome /\ ~Between /\ at # "gotId"
                /\ Len(down[c]) < Len(ToCome[at])
                /\ m.kind = ToCome[at][Len(down[c]) + 1]
            <6>1. at \in {"readProblem", "readCases", "readText"}
              BY <1>2, <4>3, <5>1 DEF Sent, Read
            <6>2. CASE at = "readProblem"
              BY <1>2, <4>3, <5>1, <6>2 DEF Sent, Read, ToCome, Between, Msg
            <6>3. CASE at = "readCases"
              BY <1>2, <4>3, <5>1, <6>3 DEF Sent, Read, ToCome, Between, Msg
            <6>4. CASE at = "readText"
              BY <1>2, <4>3, <5>1, <6>4 DEF Sent, Read, ToCome, Between, Msg
            <6> QED BY <6>1, <6>2, <6>3, <6>4
          <5>3. /\ Len(ToCome[at]) \in Nat
                /\ Len(down'[c]) <= Len(ToCome[at])
                /\ \A i \in 1..Len(down'[c]) : down'[c][i].kind = ToCome[at][i]
            <6>1. Len(ToCome[at]) \in Nat
              BY <5>2 DEF ToCome
            <6>2. \A i \in 1..Len(down[c]) : down[c][i].kind = ToCome[at][i]
              BY <2>4, <3>1, <5>2 DEF DownInv
            <6>3. Len(down'[c]) = Len(down[c]) + 1 /\ down'[c][Len(down[c]) + 1] = m
                  /\ \A i \in 1..Len(down[c]) : down'[c][i] = down[c][i]
              BY <1>2, <2>4
            <6>4. ASSUME NEW i \in 1..Len(down'[c])
                  PROVE  down'[c][i].kind = ToCome[at][i]
              <7>1. i \in 1..Len(down[c]) \/ i = Len(down[c]) + 1
                BY <1>2, <6>3
              <7> QED BY <5>2, <6>2, <6>3, <7>1
            <6> QED BY <1>2, <5>2, <6>1, <6>3, <6>4
          <5> QED BY <1>1, <2>4, <5>2, <5>3 DEF DownInv, Between, builderVars
        <4> QED BY <4>1, <4>2, <4>3
      <3>5. worker'[c] = st2 /\ up'[c] = <<>> /\ held'[c] = held[c] /\ (Between' <=> Between)
        BY <1>1, <1>2, <1>3 DEF Between, builderVars
      <3>6. Handshake(c)'
        <4>1. CASE worker[c] = "writeHeader"
          <5>1. at' = "readHeader" /\ st2 = "readHeader"
            BY <1>1, <3>1, <4>1 DEF Handshake, builderVars
          <5> QED BY <3>3, <3>5, <5>1 DEF Handshake
        <4> QED BY <3>5, <4>1 DEF Handshake
      <3>7. Request(c)'
        <4>1. CASE worker[c] = "poll"
          <5>1. st2 = "loop" /\ m.kind = "keepalive" /\ Between
                /\ \A i \in 1..Len(down[c]) : down[c][i].kind # "id"
            BY <3>1, <4>1 DEF Request, Msg
          <5>2. \A i \in 1..Len(down'[c]) : down'[c][i].kind # "id"
            BY <1>2, <2>4, <5>1
          <5> QED BY <3>5, <5>1, <5>2 DEF Request
        <4>2. CASE worker[c] = "writeId"
          BY <1>1, <1>2, <2>4, <3>1, <3>3, <3>5, <4>2 DEF Request
        <4> QED BY <3>5, <4>1, <4>2 DEF Request
      <3>8. Answer(c)'
        <4>1. CASE worker[c] \in {"writeProblem", "writeCases", "writeText"}
          <5>1. /\ at \in DOMAIN Read /\ Read[at] + Len(down[c]) = Sent[worker[c]]
                /\ \A i \in 1..Len(down[c]) : down[c][i].of = {held[c]}
                /\ Read[at] > 0 => problem = held[c]
                /\ Read[at] > 1 => cases = held[c]
                /\ Read[at] > 2 => text = held[c]
            BY <1>3, <3>1, <4>1 DEF Answer, Sent
          <5>2. Read[at] \in Nat
            BY <5>1 DEF Read
          <5>3. Read[at] + Len(down'[c]) = Sent[st2] /\ st2 \in DOMAIN Sent
            BY <1>2, <2>4, <4>1, <5>1, <5>2 DEF Sent
          <5>4. \A i \in 1..Len(down'[c]) : down'[c][i].of = {held[c]}
            BY <1>2, <2>4, <4>1, <5>1 DEF Msg
          <5> QED BY <1>1, <3>5, <5>1, <5>3, <5>4 DEF Answer, builderVars
        <4> QED BY <3>5, <4>1 DEF Answer, Sent
      <3>9. SyncInv'
        BY <1>1, <2>4, <3>6, <3>7, <3>8 DEF SyncInv, builderVars
      <3> QED BY <3>4, <3>9
    <2> QED BY <2>1, <2>2, <2>3, <2>4
  <1> QED BY <1>4, <1>5, <1>6, <1>7, <1>8, <1>9

\* The writes of a worker.
LEMMA RequestStep ==
    ASSUME ConnectionInv, NEW c \in Connections,
           WriteHeader(c) \/ KeepAlive(c) \/ Send(c)
    PROVE  ConnectionInv'
PROOF
  <1> USE DEF ConnectionInv
  <1>1. idle \in [Connections -> 0..MaxIdle]
    BY DEF TypeOK
  <1>2. CASE WriteHeader(c)
    <2>1. Msg("header", {}) \in Message
      BY DEF Msg, Message, Kinds
    <2> QED BY <1>1, <1>2, <2>1, WriteStep DEF WriteHeader, WorkerMove
  <1>3. CASE KeepAlive(c) /\ WorkerMove(c, "poll", "loop")
    <2>1. Msg("keepalive", {}) \in Message
      BY DEF Msg, Message, Kinds
    <2>2. Put(c, "worker", Msg("keepalive", {})) /\ idle' = [idle EXCEPT ![c] = 0]
          /\ UNCHANGED <<queue, verdict, held>>
      <3>1. worker'[c] = "loop"
        BY <1>3 DEF WorkerMove, Goto, TypeOK
      <3>2. ~WorkerMove(c, "poll", "close")
        BY <3>1 DEF WorkerMove, Goto, TypeOK
      <3> QED BY <1>3, <3>2 DEF KeepAlive
    <2>3. idle' \in [Connections -> 0..MaxIdle]
      BY <1>1, <2>2, ConnectionAssumption
    <2> QED BY <1>3, <2>1, <2>2, <2>3, WriteStep DEF WorkerMove
  <1>4. CASE KeepAlive(c) /\ ~WorkerMove(c, "poll", "loop")
    <2>1. /\ WriteFails(c) /\ WorkerMove(c, "poll", "close")
          /\ UNCHANGED <<socketVars, queue, verdict, held, idle>>
      BY <1>4 DEF KeepAlive
    <2>2. up[c] = <<>> /\ "worker" \notin shut[c]
      BY <2>1 DEF UpInv, WorkerInv, AnswerTo, WorkerMove
    <2>3. TypeOK'
      BY <2>1 DEF TypeOK, WorkerMove, Goto, WorkerStates, socketVars, builderVars, stopVars
    <2> QED BY <2>1, <2>2, <2>3, QuietStep DEF AnswerTo, Holding
  <1>5. CASE Send(c)
    <2>1. worker[c] \in {"writeId", "writeProblem", "writeCases", "writeText"}
      BY <1>5 DEF Send, AfterSend
    <2>2. held[c] \in Submissions
      BY <2>1 DEF WorkerInv, Holding
    <2>3. \A k \in {"id", "problem", "cases", "text"} : Msg(k, {held[c]}) \in Message
      BY <2>2 DEF Msg, Message, Kinds
    <2>4. /\ WorkerMove(c, worker[c], AfterSend[worker[c]])
          /\ Put(c, "worker", Sends(c)[worker[c]])
          /\ UNCHANGED <<queue, verdict, held, idle>>
      BY <1>5 DEF Send
    <2>5. CASE worker[c] = "writeId"
      <3>1. AfterSend[worker[c]] = "readKnown" /\ Sends(c)[worker[c]] = Msg("id", {held[c]})
        BY <2>5 DEF AfterSend, Sends
      <3> QED BY <1>1, <2>3, <2>4, <2>5, <3>1, WriteStep
    <2>6. CASE worker[c] = "writeProblem"
      <3>1. AfterSend[worker[c]] = "writeCases" /\ Sends(c)[worker[c]] = Msg("problem", {held[c]})
        BY <2>6 DEF AfterSend, Sends
      <3> QED BY <1>1, <2>3, <2>4, <2>6, <3>1, WriteStep
    <2>7. CASE worker[c] = "writeCases"
      <3>1. AfterSend[worker[c]] = "writeText" /\ Sends(c)[worker[c]] = Msg("cases", {held[c]})
        BY <2>7 DEF AfterSend, Sends
      <3> QED BY <1>1, <2>3, <2>4, <2>7, <3>1, WriteStep
    <2>8. CASE worker[c] = "writeText"
      <3>1. AfterSend[worker[c]] = "readResult" /\ Sends(c)[worker[c]] = Msg("text", {held[c]})
        BY <2>8 DEF AfterSend, Sends
      <3> QED BY <1>1, <2>3, <2>4, <2>8, <3>1, WriteStep
    <2> QED BY <2>1, <2>5, <2>6, <2>7, <2>8
  <1> QED BY <1>2, <1>3, <1>4, <1>5

LEMMA WorkerStep ==
    ASSUME ConnectionInv, NEW c \in Connections, Worker(c)
    PROVE  ConnectionInv'
PROOF
  BY AcceptStep, LoopStep, FailureStep, CloseStep, AnswerStep, RequestStep DEF Worker

-----------------------------------------------------------------------------
(* The Builder.                                                            *)

\* A step of the Builder that touches no socket: the conversation goes on as before,
\* or is over.
LEMMA ThinkStep ==
    ASSUME ConnectionInv, TypeOK', BuilderInv',
           UNCHANGED <<made, down, up, shut, worker, held>>,
           UNCHANGED <<problem, cases, text>>,
           \/ socket' = NoConnection \/ at' \in {"ended", "dead"}
           \/ socket' = socket /\ Between /\ Between'
           \/ socket' = socket /\ UNCHANGED problemId /\ problemId # {}
              /\ at = "gotId" /\ at' = "writeKnown"
           \/ socket' = socket /\ at = "test" /\ at' = "writeResult"
           \/ socket' = socket /\ Between' /\ shut[socket] # {}
              /\ ("builder" \in shut[socket] \/ down[socket] = <<>>)
    PROVE  ConnectionInv'
PROOF
  <1> USE DEF ConnectionInv
  <1>1. WorkerInv' /\ CarrierInv' /\ UpInv'
    BY DEF WorkerInv, CarrierInv, UpInv
  <1>2. CASE socket' = NoConnection \/ at' \in {"ended", "dead"}
    BY <1>1, <1>2 DEF DownInv, SyncInv, Between, ToCome
  <1>3. CASE socket' = socket /\ Between /\ Between'
    <2>1. /\ at \notin DOMAIN ToCome /\ at' \notin DOMAIN ToCome
          /\ at' \notin {"readHeader", "writeHeader", "writeKnown", "readProblem"}
          /\ at \notin {"readHeader", "writeHeader", "writeKnown", "readProblem"}
          /\ at \notin {"ended", "dead"}
          /\ at \notin DOMAIN Read
          /\ at = "gotId" => problemId = {}
      BY <1>3 DEF Between, ToCome, Read
    <2>2. DownInv'
      BY <1>3, <2>1 DEF DownInv
    <2>3. socket # NoConnection /\ shut[socket] = {} =>
            Handshake(socket) /\ Request(socket) /\ Answer(socket)
      BY <2>1 DEF SyncInv
    <2>4. ASSUME socket # NoConnection, shut[socket] = {}
          PROVE  Handshake(socket)' /\ Request(socket)' /\ Answer(socket)'
      <3>1. at = "gotId" => problemId # {held[socket]}
        BY <2>1
      <3>2. Handshake(socket)'
        BY <1>3, <2>1, <2>3, <2>4 DEF Handshake
      <3>3. Request(socket)'
        BY <1>3, <2>1, <2>3, <2>4, <3>1 DEF Request
      <3>4. Answer(socket)'
        BY <1>3, <2>1, <2>3, <2>4 DEF Answer
      <3> QED BY <3>2, <3>3, <3>4
    <2>5. SyncInv'
      BY <1>3, <2>4 DEF SyncInv
    <2> QED BY <1>1, <2>2, <2>5
  <1>4. CASE /\ socket' = socket /\ UNCHANGED problemId /\ problemId # {}
             /\ at = "gotId" /\ at' = "writeKnown"
    <2>1. DownInv'
      BY <1>4 DEF DownInv, Between, ToCome
    <2>2. SyncInv'
      BY <1>4 DEF SyncInv, Handshake, Request, Answer, Between, Read
    <2> QED BY <1>1, <2>1, <2>2
  <1>5. CASE socket' = socket /\ at = "test" /\ at' = "writeResult"
    <2>1. DownInv'
      BY <1>5 DEF DownInv, Between, ToCome
    <2>2. SyncInv'
      BY <1>5 DEF SyncInv, Handshake, Request, Answer, Between, Read
    <2> QED BY <1>1, <2>1, <2>2
  <1>6. CASE /\ socket' = socket /\ Between' /\ shut[socket] # {}
             /\ ("builder" \in shut[socket] \/ down[socket] = <<>>)
    <2>1. DownInv'
      <3>1. at' \notin DOMAIN ToCome /\ (at' = "gotId" => Between')
        BY <1>6 DEF Between, ToCome
      <3>2. down[socket] = <<>> => 1..Len(down[socket]) = {}
        OBVIOUS
      <3> QED BY <1>6, <3>1, <3>2 DEF DownInv
    <2>2. SyncInv'
      BY <1>6 DEF SyncInv
    <2> QED BY <1>1, <2>1, <2>2
  <1> QED BY <1>2, <1>3, <1>4, <1>5, <1>6

\* The steps that only move the thread, and those that end a conversation.
LEMMA MoveStep ==
    ASSUME ConnectionInv,
           \/ Loop \/ CannotConnect \/ StreamFails \/ NoStream \/ NotWorking
           \/ GotId \/ Test \/ Forget
    PROVE  ConnectionInv'
PROOF
  <1> USE DEF ConnectionInv
  <1>1. /\ UNCHANGED <<made, down, up, shut, worker, held, problem, cases, text>>
        /\ UNCHANGED <<socketVars, serverVars, stopVars>>
    BY DEF Loop, CannotConnect, StreamFails, NoStream, NotWorking, GotId, Test, Forget,
           BuilderMove, socketVars, serverVars, localVars
  <1>2. CASE Loop
    <2>1. /\ at = "top" /\ UNCHANGED <<socket, streams, working, problemId>>
          /\ at' = IF shutdownRequested THEN "ended"
                   ELSE IF socket = NoConnection THEN "connect" ELSE "waiting"
      BY <1>2 DEF Loop, BuilderMove
    <2>2. TypeOK'
      BY <1>1, <2>1 DEF TypeOK, BuilderStates, socketVars, serverVars, stopVars
    <2> QED BY <1>1, <2>1, <2>2, ThinkStep DEF BuilderInv, Between
  <1>3. CASE CannotConnect
    <2>1. at = "connect" /\ at' = "top" /\ UNCHANGED <<socket, streams, working, problemId>>
      BY <1>3 DEF CannotConnect, BuilderMove
    <2>2. TypeOK'
      BY <1>1, <2>1 DEF TypeOK, BuilderStates, socketVars, serverVars, stopVars
    <2> QED BY <1>1, <2>1, <2>2, ThinkStep DEF BuilderInv
  <1>4. CASE StreamFails
    <2>1. /\ at \in {"readHeader", "writeHeader"} /\ at' = "top"
          /\ UNCHANGED <<socket, streams, working, problemId>>
          /\ at = "readHeader" => ReadFails(socket, "builder")
          /\ at = "writeHeader" => WriteFails(socket)
      BY <1>4 DEF StreamFails, BuilderMove
    <2>2. TypeOK'
      BY <1>1, <2>1 DEF TypeOK, BuilderStates, socketVars, serverVars, stopVars
    <2>3. socket # NoConnection
      BY <2>1 DEF BuilderInv
    <2>4. shut[socket] # {}
      BY <2>1 DEF ReadFails, WriteFails
    <2>5. "builder" \in shut[socket] \/ down[socket] = <<>>
      <3>1. CASE at = "readHeader"
        BY <2>1, <3>1 DEF ReadFails, Incoming
      <3>2. CASE at = "writeHeader" /\ "builder" \notin shut[socket]
        <4>1. down[socket] \in Seq(Message)
          BY <2>3, SocketOfConnection DEF TypeOK
        <4>2. Len(down[socket]) <= 0
          BY <2>3, <3>2 DEF DownInv, ToCome
        <4> QED BY <4>1, <4>2, LenProperties, EmptyLength
      <3> QED BY <2>1, <3>1, <3>2
    <2> QED BY <1>1, <2>1, <2>2, <2>4, <2>5, ThinkStep DEF BuilderInv, Between
  <1>5. CASE NoStream
    <2>1. at' = "dead" /\ UNCHANGED <<socket, streams, working, problemId>>
      BY <1>5 DEF NoStream, BuilderMove
    <2>2. TypeOK'
      BY <1>1, <2>1 DEF TypeOK, BuilderStates, socketVars, serverVars, stopVars
    <2> QED BY <1>1, <2>1, <2>2, ThinkStep DEF BuilderInv
  <1>6. CASE NotWorking
    <2>1. /\ at = "waiting" /\ at' = "readId" /\ working' = FALSE
          /\ UNCHANGED <<socket, streams, problemId>>
      BY <1>6 DEF NotWorking, BuilderMove
    <2>2. TypeOK'
      BY <1>1, <2>1 DEF TypeOK, BuilderStates, socketVars, serverVars, stopVars
    <2> QED BY <1>1, <2>1, <2>2, ThinkStep DEF BuilderInv, Between
  <1>7. CASE GotId
    <2>1. /\ at = "gotId" /\ at' = IF problemId = {} THEN "top" ELSE "writeKnown"
          /\ working' = TRUE /\ UNCHANGED <<socket, streams, problemId>>
      BY <1>7 DEF GotId, BuilderMove
    <2>2. TypeOK'
      BY <1>1, <2>1 DEF TypeOK, BuilderStates, socketVars, serverVars, stopVars
    <2> QED BY <1>1, <2>1, <2>2, ThinkStep DEF BuilderInv, Between
  <1>8. CASE Test
    <2>1. /\ at = "test" /\ at' = "writeResult"
          /\ UNCHANGED <<socket, streams, working, problemId>>
      BY <1>8 DEF Test, BuilderMove
    <2>2. TypeOK'
      BY <1>1, <2>1 DEF TypeOK, BuilderStates, socketVars, serverVars, stopVars
    <2> QED BY <1>1, <2>1, <2>2, ThinkStep DEF BuilderInv
  <1>9. CASE Forget
    <2>1. /\ at' = "top" /\ socket' = NoConnection /\ streams' = {} /\ problemId' = {}
          /\ working' = working
      BY <1>9 DEF Forget, BuilderMove
    <2>2. TypeOK'
      BY <1>1, <2>1, ConnectionAssumption
         DEF TypeOK, BuilderStates, socketVars, serverVars, stopVars, NoConnection
    <2> QED BY <1>1, <2>1, <2>2, ThinkStep DEF BuilderInv
  <1> QED BY <1>2, <1>3, <1>4, <1>5, <1>6, <1>7, <1>8, <1>9

\* A new connection, with the worker that the server makes for it.
LEMMA ConnectStep ==
    ASSUME ConnectionInv, Connect
    PROVE  ConnectionInv'
PROOF
  <1> USE DEF ConnectionInv
  <1> DEFINE c == made + 1
  <1>1. /\ made < MaxConnections /\ at = "connect" /\ at' = "readHeader"
        /\ made' = c /\ socket' = c
        /\ worker' = [worker EXCEPT ![c] = "backlog"]
        /\ UNCHANGED <<down, up, shut, breaks, queue, verdict, held, idle,
                       streams, working, problemId, problem, cases, text, stopVars>>
    BY DEF Connect, localVars
  <1>2. /\ c \in Connections /\ c > made /\ c # NoConnection /\ made \in Nat
        /\ \A d \in Connections : d \in Nat
    BY <1>1, ConnectionAssumption DEF TypeOK, Connections, NoConnection
  <1>3. worker[c] = "none" /\ down[c] = <<>> /\ up[c] = <<>> /\ shut[c] = {}
    BY <1>2 DEF WorkerInv
  <1>4. TypeOK'
    BY <1>1, <1>2, ConnectionAssumption DEF TypeOK, WorkerStates, BuilderStates, stopVars
  <1>5. WorkerInv'
    <2>1. \A d \in Connections \ {c} : worker'[d] = worker[d] /\ (d > c <=> d > made)
      BY <1>1, <1>2 DEF TypeOK
    <2>2. worker'[c] = "backlog"
      BY <1>1, <1>2 DEF TypeOK
    <2>3. ~(c > c)
      BY <1>2
    <2>4. \A d \in Connections \ {c} :
            /\ worker'[d] = "none" <=> d > made'
            /\ worker'[d] \in {"none", "backlog"} => down'[d] = <<>> /\ up'[d] = <<>>
            /\ worker'[d] = "none" => shut'[d] = {}
            /\ "worker" \in shut'[d] => worker'[d] = "exited"
            /\ worker'[d] \in {"putBack", "exited", "failed"} => shut'[d] # {}
            /\ worker'[d] \in Holding => held'[d] \in Submissions
      BY <1>1, <2>1 DEF WorkerInv
    <2> QED BY <1>1, <1>3, <2>2, <2>3, <2>4 DEF WorkerInv, Holding
  <1>6. BuilderInv' /\ CarrierInv'
    BY <1>1, <1>2 DEF BuilderInv, CarrierInv
  <1>7. UpInv'
    <2>1. \A d \in Connections \ {c} : worker'[d] = worker[d]
      BY <1>1 DEF TypeOK
    <2> QED BY <1>1, <1>3, <2>1 DEF UpInv
  <1>8. Len(down[c]) = 0 /\ 1..Len(down[c]) = {}
    BY <1>3
  <1>9. DownInv'
    BY <1>1, <1>8 DEF DownInv, Between, ToCome
  <1>10. SyncInv'
    <2>1. worker'[c] = "backlog"
      BY <1>1, <1>2 DEF TypeOK
    <2> QED BY <1>1, <1>3, <2>1 DEF SyncInv, Handshake, Request, Answer, Sent
  <1> QED BY <1>4, <1>5, <1>6, <1>7, <1>9, <1>10

\* What a read of the Builder leaves alone.
LEMMA TakeKeeps ==
    ASSUME ConnectionInv, socket # NoConnection, Take(socket, "builder"),
           UNCHANGED <<serverVars, stopVars, socket>>
    PROVE  WorkerInv' /\ CarrierInv' /\ UpInv'
PROOF
  <1> USE DEF ConnectionInv
  <1>1. /\ down[socket] # <<>> /\ Len(down[socket]) \in Nat \ {0}
        /\ Len(down'[socket]) = Len(down[socket]) - 1
        /\ \A i \in 1..Len(down'[socket]) :
               i + 1 \in 1..Len(down[socket]) /\ down'[socket][i] = down[socket][i + 1]
        /\ \A d \in Connections \ {socket} : down'[d] = down[d]
        /\ UNCHANGED <<up, made, shut, breaks>>
    BY SocketOfConnection, BuilderTakes
  <1>2. WorkerInv'
    BY <1>1 DEF WorkerInv, serverVars
  <1>3. UpInv'
    BY <1>1 DEF UpInv, serverVars
  <1>4. CarrierInv'
    <2>1. ASSUME NEW i \in 1..Len(down'[socket]), down'[socket][i].kind \in Carriers
          PROVE  \E s \in Submissions : down'[socket][i].of = {s}
      <3>1. i + 1 \in 1..Len(down[socket]) /\ down'[socket][i] = down[socket][i + 1]
        BY <1>1
      <3> QED BY <2>1, <3>1, SocketOfConnection DEF CarrierInv
    <2>2. ASSUME NEW d \in Connections \ {socket}, NEW i \in 1..Len(down'[d]),
                 down'[d][i].kind \in Carriers
          PROVE  \E s \in Submissions : down'[d][i].of = {s}
      <3>1. down'[d] = down[d]
        BY <1>1
      <3> QED BY <2>2, <3>1 DEF CarrierInv
    <2> QED BY <2>1, <2>2 DEF CarrierInv
  <1> QED BY <1>2, <1>3, <1>4

\* The header of the worker's stream is the first it sends.
LEMMA MakeInStep ==
    ASSUME ConnectionInv, MakeIn
    PROVE  ConnectionInv'
PROOF
  <1> USE DEF ConnectionInv
  <1>1. /\ at = "readHeader" /\ at' = "writeHeader" /\ Take(socket, "builder")
        /\ streams' = {"in"}
        /\ UNCHANGED <<serverVars, stopVars, socket, working, problemId, problem, cases, text>>
    BY DEF MakeIn, BuilderMove, localVars
  <1>2. socket # NoConnection /\ socket \in Connections
    BY <1>1, SocketOfConnection DEF BuilderInv
  <1>3. /\ down' \in [Connections -> Seq(Message)]
        /\ down[socket] # <<>> /\ Len(down[socket]) \in Nat \ {0}
        /\ Len(down'[socket]) = Len(down[socket]) - 1
        /\ "builder" \notin shut[socket]
        /\ UNCHANGED <<up, made, shut, breaks>>
    BY <1>1, <1>2, BuilderTakes
  <1>4. TypeOK'
    BY <1>1, <1>3 DEF TypeOK, BuilderStates, serverVars, stopVars
  <1>5. WorkerInv' /\ CarrierInv' /\ UpInv'
    BY <1>1, <1>2, TakeKeeps
  <1>6. BuilderInv'
    BY <1>1, <1>2 DEF BuilderInv
  <1>7. Len(down'[socket]) = 0
    <2>1. Len(down[socket]) <= Len(ToCome[at]) /\ Len(ToCome[at]) = 1
      BY <1>1, <1>2, <1>3 DEF DownInv, ToCome
    <2>2. Len(down[socket]) <= 1
      BY <2>1
    <2>3. Len(down[socket]) = 1
      BY <1>3, <2>2, PositiveLength
    <2> QED BY <1>3, <2>3
  <1>8. DownInv'
    BY <1>1, <1>7 DEF DownInv, Between, ToCome
  <1>9. SyncInv'
    <2> SUFFICES ASSUME shut[socket] = {}
                 PROVE  Handshake(socket)' /\ Request(socket)' /\ Answer(socket)'
      BY <1>1, <1>3 DEF SyncInv
    <2>1. Handshake(socket) /\ Request(socket) /\ Answer(socket)
      BY <1>1, <1>2 DEF SyncInv
    <2>2. worker[socket] \notin
            {"backlog", "writeHeader", "loop", "poll", "writeId", "close", "readKnown"}
          /\ worker[socket] \notin DOMAIN Sent
      BY <1>1, <1>3, <2>1 DEF Handshake, Request, Answer, Between, Read
    <2>3. worker[socket] = "readHeader" => up[socket] = <<>>
      BY <1>1, <2>1 DEF Handshake, Between
    <2> QED BY <1>1, <1>3, <2>2, <2>3 DEF Handshake, Request, Answer, serverVars
  <1> QED BY <1>4, <1>5, <1>6, <1>8, <1>9

\* Between two submissions a keepalive comes or the id of the worker's submission.
LEMMA ReadIdStep ==
    ASSUME ConnectionInv, ReadId
    PROVE  ConnectionInv'
PROOF
  <1> USE DEF ConnectionInv
  <1>1. /\ at = "readId" /\ at' = "gotId" /\ Take(socket, "builder")
        /\ problemId' = Received(socket, "builder").of
        /\ UNCHANGED <<serverVars, stopVars, socket, streams, working, problem, cases, text>>
    BY DEF ReadId, BuilderMove, localVars
  <1>2. socket # NoConnection /\ socket \in Connections
    BY <1>1, SocketOfConnection DEF BuilderInv
  <1>3. /\ down' \in [Connections -> Seq(Message)]
        /\ down[socket] # <<>> /\ down[socket][1] \in Message
        /\ Received(socket, "builder") = down[socket][1]
        /\ Len(down[socket]) \in Nat \ {0}
        /\ Len(down'[socket]) = Len(down[socket]) - 1
        /\ \A i \in 1..Len(down'[socket]) :
               i + 1 \in 1..Len(down[socket]) /\ down'[socket][i] = down[socket][i + 1]
        /\ "builder" \notin shut[socket]
        /\ UNCHANGED <<up, made, shut, breaks>>
    BY <1>1, <1>2, BuilderTakes
  <1>4. TypeOK'
    BY <1>1, <1>3 DEF TypeOK, BuilderStates, Message, serverVars, stopVars
  <1>5. WorkerInv' /\ CarrierInv' /\ UpInv'
    BY <1>1, <1>2, TakeKeeps
  <1>6. BuilderInv'
    BY <1>1, <1>2 DEF BuilderInv
  <1>7. \A i \in 1..Len(down[socket]) :
            \/ down[socket][i] = Msg("keepalive", {})
            \/ down[socket][i].kind = "id" /\ i = Len(down[socket])
    BY <1>1, <1>2, <1>3 DEF DownInv, Between
  <1>8. CASE down[socket][1] = Msg("keepalive", {})
    <2>1. problemId' = {} /\ Between /\ Between'
      BY <1>1, <1>3, <1>8 DEF Msg, Between
    <2>2. DownInv'
      <3>1. ASSUME NEW i \in 1..Len(down'[socket])
            PROVE  \/ down'[socket][i] = Msg("keepalive", {})
                   \/ down'[socket][i].kind = "id" /\ i = Len(down'[socket])
        <4>1. i + 1 \in 1..Len(down[socket]) /\ down'[socket][i] = down[socket][i + 1]
              /\ (i + 1 = Len(down[socket]) => i = Len(down'[socket]))
          BY <1>3
        <4> QED BY <1>7, <4>1
      <3> QED BY <1>1, <2>1, <3>1 DEF DownInv, ToCome
    <2>3. SyncInv'
      <3> SUFFICES ASSUME shut[socket] = {}
                   PROVE  Handshake(socket)' /\ Request(socket)' /\ Answer(socket)'
        BY <1>1, <1>3 DEF SyncInv
      <3>1. Handshake(socket) /\ Request(socket) /\ Answer(socket)
        BY <1>1, <1>2 DEF SyncInv
      <3>2. worker[socket] \notin {"backlog", "writeHeader", "readHeader"} \cup DOMAIN Sent
        BY <1>1, <1>3, <3>1 DEF Handshake, Answer, Read
      <3>3. Request(socket)'
        <4>1. CASE worker[socket] \in {"loop", "poll", "writeId", "close"}
          <5>1. up[socket] = <<>> /\ \A i \in 1..Len(down[socket]) : down[socket][i].kind # "id"
            BY <3>1, <4>1 DEF Request
          <5>2. \A i \in 1..Len(down'[socket]) : down'[socket][i].kind # "id"
            BY <1>3, <5>1
          <5> QED BY <1>1, <1>3, <2>1, <4>1, <5>1, <5>2 DEF Request, serverVars
        <4>2. CASE worker[socket] = "readKnown"
          <5>1. /\ up[socket] = <<>>
                /\ down[socket][Len(down[socket])] = Msg("id", {held[socket]})
            BY <1>1, <1>3, <3>1, <4>2 DEF Request
          <5>2. Len(down[socket]) # 1
            BY <1>8, <5>1 DEF Msg
          <5>3. down'[socket][Len(down'[socket])] = Msg("id", {held[socket]})
            <6>1. Len(down'[socket]) \in 1..Len(down'[socket])
                  /\ Len(down'[socket]) + 1 = Len(down[socket])
              BY <1>3, <5>2, PositiveLength
            <6> QED BY <1>3, <5>1, <6>1
          <5>4. down'[socket] # <<>>
            <6>1. down'[socket] \in Seq(Message) /\ Len(down'[socket]) # 0
              BY <1>2, <1>3, <5>2
            <6> QED BY <6>1, EmptyLength
          <5> QED BY <1>1, <1>3, <2>1, <4>2, <5>1, <5>3, <5>4 DEF Request, serverVars
        <4> QED BY <1>1, <4>1, <4>2 DEF Request, serverVars
      <3> QED BY <1>1, <3>2, <3>3 DEF Handshake, Answer, serverVars
    <2> QED BY <1>4, <1>5, <1>6, <2>2, <2>3
  <1>9. CASE down[socket][1] # Msg("keepalive", {})
    <2>1. down[socket][1].kind = "id" /\ Len(down[socket]) = 1
      <3>1. 1 \in 1..Len(down[socket])
        BY <1>3
      <3> QED BY <1>7, <1>9, <3>1
    <2>2. \E s \in Submissions : problemId' = {s}
      BY <1>1, <1>2, <1>3, <2>1 DEF CarrierInv, Carriers
    <2>3. ~Between' /\ at' \notin DOMAIN ToCome
      BY <1>1, <2>2 DEF Between, ToCome
    <2>4. down'[socket] = <<>>
      BY <1>2, <1>3, <2>1, EmptyLength
    <2>5. DownInv'
      BY <1>1, <2>3, <2>4 DEF DownInv
    <2>6. SyncInv'
      <3> SUFFICES ASSUME shut[socket] = {}
                   PROVE  Handshake(socket)' /\ Request(socket)' /\ Answer(socket)'
        BY <1>1, <1>3 DEF SyncInv
      <3>1. Handshake(socket) /\ Request(socket) /\ Answer(socket)
        BY <1>1, <1>2 DEF SyncInv
      <3>2. worker[socket] \notin {"backlog", "writeHeader", "readHeader"} \cup DOMAIN Sent
        BY <1>1, <1>3, <3>1 DEF Handshake, Answer, Read
      <3>3. worker[socket] \notin {"loop", "poll", "writeId", "close"}
        BY <1>3, <2>1, <3>1 DEF Request
      <3>4. worker[socket] = "readKnown" =>
                up[socket] = <<>> /\ down[socket][1] = Msg("id", {held[socket]})
        BY <1>1, <1>3, <2>1, <3>1 DEF Request
      <3> QED BY <1>1, <1>3, <3>2, <3>3, <3>4 DEF Handshake, Request, Answer, Msg, serverVars
    <2> QED BY <1>4, <1>5, <1>6, <2>5, <2>6
  <1> QED BY <1>8, <1>9

\* The parts of a submission come in their order.
LEMMA ReadPartStep ==
    ASSUME ConnectionInv, ReadProblem \/ ReadCases \/ ReadText
    PROVE  ConnectionInv'
PROOF
  <1> USE DEF ConnectionInv
  <1>1. /\ at \in {"readProblem", "readCases", "readText"}
        /\ at' = [readProblem |-> "readCases", readCases |-> "readText",
                  readText |-> "test"][at]
        /\ Take(socket, "builder")
        /\ UNCHANGED <<serverVars, stopVars, socket, streams, working, problemId>>
    BY DEF ReadProblem, ReadCases, ReadText, BuilderMove
  <1>2. socket # NoConnection /\ socket \in Connections
    BY <1>1, SocketOfConnection DEF BuilderInv
  <1>3. /\ down' \in [Connections -> Seq(Message)]
        /\ down[socket] # <<>>
        /\ Received(socket, "builder") = down[socket][1]
        /\ Len(down[socket]) \in Nat \ {0}
        /\ Len(down'[socket]) = Len(down[socket]) - 1
        /\ \A i \in 1..Len(down'[socket]) :
               i + 1 \in 1..Len(down[socket]) /\ down'[socket][i] = down[socket][i + 1]
        /\ "builder" \notin shut[socket]
        /\ UNCHANGED <<up, made, shut, breaks>>
    BY <1>1, <1>2, BuilderTakes
  <1>4. 1 \in 1..Len(down[socket])
    BY <1>3
  <1>5. /\ Len(down[socket]) <= Len(ToCome[at])
        /\ \A i \in 1..Len(down[socket]) : down[socket][i].kind = ToCome[at][i]
    BY <1>1, <1>2, <1>3 DEF DownInv, ToCome
  <1>6. PICK s \in Submissions : down[socket][1].of = {s}
    <2>1. ToCome[at][1] \in Carriers
      BY <1>1 DEF ToCome, Carriers
    <2> QED BY <1>2, <1>4, <1>5, <2>1 DEF CarrierInv
  <1>7. TheOne(Received(socket, "builder").of) = s
    BY <1>3, <1>6 DEF TheOne
  <1>8. /\ at = "readProblem" => problem' = s /\ UNCHANGED <<cases, text>>
        /\ at = "readCases" => cases' = s /\ UNCHANGED <<problem, text>>
        /\ at = "readText" => text' = s /\ UNCHANGED <<problem, cases>>
    BY <1>7 DEF ReadProblem, ReadCases, ReadText, BuilderMove
  <1>9. TypeOK'
    BY <1>1, <1>3, <1>8 DEF TypeOK, BuilderStates, MaybeSubmission, serverVars, stopVars
  <1>10. WorkerInv' /\ CarrierInv' /\ UpInv'
    BY <1>1, <1>2, TakeKeeps
  <1>11. BuilderInv'
    BY <1>1, <1>2 DEF BuilderInv
  <1>12. DownInv'
    <2>1. /\ Len(ToCome[at']) = Len(ToCome[at]) - 1
          /\ Len(ToCome[at]) \in {1, 2, 3}
          /\ \A i \in 1..Len(ToCome[at']) : ToCome[at][i + 1] = ToCome[at'][i]
      <3>1. CASE at = "readProblem"
        <4>1. ToCome[at] = <<"problem", "cases", "text">> /\ ToCome[at'] = <<"cases", "text">>
          BY <1>1, <3>1 DEF ToCome
        <4>2. \A i \in 1..2 : i = 1 \/ i = 2
          OBVIOUS
        <4> QED BY <4>1, <4>2
      <3>2. CASE at = "readCases"
        BY <1>1, <3>2 DEF ToCome
      <3>3. CASE at = "readText"
        BY <1>1, <3>3 DEF ToCome
      <3> QED BY <1>1, <3>1, <3>2, <3>3
    <2>2. Len(down'[socket]) <= Len(ToCome[at'])
      BY <1>3, <1>5, <2>1
    <2>3. \A i \in 1..Len(down'[socket]) :
              i \in 1..Len(ToCome[at']) /\ down'[socket][i].kind = ToCome[at'][i]
      <3>1. ASSUME NEW i \in 1..Len(down'[socket])
            PROVE  i \in 1..Len(ToCome[at']) /\ down'[socket][i].kind = ToCome[at'][i]
        <4>1. i + 1 \in 1..Len(down[socket]) /\ down'[socket][i] = down[socket][i + 1]
          BY <1>3
        <4>2. down[socket][i + 1].kind = ToCome[at][i + 1]
          BY <1>5, <4>1
        <4>3. i \in 1..Len(ToCome[at'])
          BY <1>5, <2>1, <4>1
        <4> QED BY <2>1, <4>1, <4>2, <4>3
      <3> QED BY <3>1
    <2>4. ~Between' /\ at' # "gotId"
      BY <1>1 DEF Between
    <2> QED BY <1>1, <2>2, <2>3, <2>4 DEF DownInv
  <1>13. SyncInv'
    <2> SUFFICES ASSUME shut[socket] = {}
                 PROVE  Handshake(socket)' /\ Request(socket)' /\ Answer(socket)'
      BY <1>1, <1>3 DEF SyncInv
    <2>1. Handshake(socket) /\ Request(socket) /\ Answer(socket)
      BY <1>1, <1>2 DEF SyncInv
    <2>2. worker[socket] \notin
            {"backlog", "writeHeader", "readHeader", "loop", "poll", "writeId", "close",
             "readKnown"}
      BY <1>1, <1>3, <2>1 DEF Handshake, Request, Between
    <2>3. ASSUME worker[socket] \in DOMAIN Sent
          PROVE  /\ at' \in DOMAIN Read /\ up'[socket] = <<>>
                 /\ Read[at'] + Len(down'[socket]) = Sent[worker[socket]]
                 /\ \A i \in 1..Len(down'[socket]) : down'[socket][i].of = {held[socket]}
                 /\ Read[at'] > 0 => problem' = held[socket]
                 /\ Read[at'] > 1 => cases' = held[socket]
                 /\ Read[at'] > 2 => text' = held[socket]
      <3>1. /\ at \in DOMAIN Read /\ up[socket] = <<>>
            /\ Read[at] + Len(down[socket]) = Sent[worker[socket]]
            /\ \A i \in 1..Len(down[socket]) : down[socket][i].of = {held[socket]}
            /\ Read[at] > 0 => problem = held[socket]
            /\ Read[at] > 1 => cases = held[socket]
        BY <1>1, <2>1, <2>3 DEF Answer, Between
      <3>2. s = held[socket]
        BY <1>4, <1>6, <3>1
      <3>3. at' \in DOMAIN Read /\ Read[at'] = Read[at] + 1 /\ Read[at] \in Nat
        BY <1>1 DEF Read
      <3>4. Read[at'] + Len(down'[socket]) = Sent[worker[socket]]
        <4>1. \A r, n, m \in Nat : n # 0 => (r + 1) + (n - 1) = r + n
          BY SMT
        <4> QED BY <1>3, <3>1, <3>3, <4>1
      <3>5. \A i \in 1..Len(down'[socket]) : down'[socket][i].of = {held[socket]}
        BY <1>3, <3>1
      <3>6. /\ Read[at'] > 0 => problem' = held[socket]
            /\ Read[at'] > 1 => cases' = held[socket]
            /\ Read[at'] > 2 => text' = held[socket]
        BY <1>1, <1>8, <3>1, <3>2 DEF Read
      <3> QED BY <1>3, <3>1, <3>3, <3>4, <3>5, <3>6
    <2> QED BY <1>1, <1>3, <2>2, <2>3 DEF Handshake, Request, Answer, serverVars
  <1> QED BY <1>9, <1>10, <1>11, <1>12, <1>13

\* The worker whose read a write of the Builder answers.
Waits == [writeHeader |-> "readHeader", writeKnown |-> "readKnown",
          writeResult |-> "readResult"]
LEMMA AnsweredWaits ==
    ASSUME ConnectionInv, at \in DOMAIN Waits, socket # NoConnection
    PROVE  /\ "builder" \notin shut[socket] => down[socket] = <<>>
           /\ shut[socket] = {} => up[socket] = <<>> /\ worker[socket] = Waits[at]
PROOF
  <1> USE DEF ConnectionInv
  <1>1. at \in {"writeHeader", "writeKnown", "writeResult"} /\ ~Between
    BY DEF Waits, Between
  <1>2. socket \in Connections /\ socket <= made
    BY SocketOfConnection
  <1>3. down[socket] \in Seq(Message)
    BY <1>2 DEF TypeOK
  <1>4. "builder" \notin shut[socket] => down[socket] = <<>>
    <2> SUFFICES ASSUME "builder" \notin shut[socket]
                 PROVE  down[socket] = <<>>
      OBVIOUS
    <2>1. Len(down[socket]) <= 0
      BY <1>1 DEF DownInv, ToCome
    <2> QED BY <1>3, <2>1, LenProperties, EmptyLength
  <1>5. ASSUME shut[socket] = {}
        PROVE  up[socket] = <<>> /\ worker[socket] = Waits[at]
    <2>1. Handshake(socket) /\ Request(socket) /\ Answer(socket)
      BY <1>1, <1>5 DEF SyncInv
    <2>2. made \in Nat /\ socket \in Nat /\ ~(socket > made)
      BY <1>2, ConnectionAssumption DEF TypeOK, Connections
    <2>3. worker[socket] \in WorkerStates \ {"none", "putBack", "exited", "failed"}
      BY <1>2, <1>5, <2>2 DEF WorkerInv, TypeOK
    <2>4. worker[socket] \notin {"backlog", "writeHeader", "loop", "poll", "writeId", "close"}
      BY <1>1, <2>1 DEF Handshake, Request
    <2>5. CASE at = "writeHeader"
      <3>1. worker[socket] # "readKnown" /\ worker[socket] \notin DOMAIN Sent
        BY <2>1, <2>5 DEF Request, Answer, Between, Read
      <3>2. worker[socket] = "readHeader"
        BY <2>3, <2>4, <3>1 DEF WorkerStates, Sent
      <3> QED BY <1>1, <2>1, <2>5, <3>2 DEF Handshake, Waits
    <2>6. CASE at = "writeKnown"
      <3>1. worker[socket] # "readHeader" /\ worker[socket] \notin DOMAIN Sent
        BY <2>1, <2>6 DEF Handshake, Answer, Between, Read
      <3>2. worker[socket] = "readKnown"
        BY <2>3, <2>4, <3>1 DEF WorkerStates, Sent
      <3> QED BY <1>1, <2>1, <2>6, <3>2 DEF Request, Waits
    <2>7. CASE at = "writeResult"
      <3>1. worker[socket] \notin {"readHeader", "readKnown"}
        BY <2>1, <2>7 DEF Handshake, Request, Between
      <3>2. worker[socket] \in DOMAIN Sent
        BY <2>3, <2>4, <3>1 DEF WorkerStates, Sent
      <3>3. up[socket] = <<>> /\ Read[at] + Len(down[socket]) = Sent[worker[socket]]
        BY <1>1, <2>1, <3>2 DEF Answer
      <3>4. Sent[worker[socket]] = 3
        BY <1>4, <1>5, <2>7, <3>3 DEF Read
      <3>5. worker[socket] = "readResult"
        BY <3>2, <3>4 DEF Sent
      <3> QED BY <2>7, <3>3, <3>5 DEF Waits
    <2> QED BY <1>1, <2>5, <2>6, <2>7
  <1> QED BY <1>4, <1>5

\* A write of the Builder is the answer its worker waits for, or is lost.
LEMMA AnsweredStep ==
    ASSUME ConnectionInv, socket # NoConnection, at \in DOMAIN Waits,
           NEW m, Put(socket, "builder", m),
           UNCHANGED <<serverVars, stopVars, socket, working, problem, cases, text>>,
           at' = [writeHeader |-> "top", writeKnown |-> "readProblem",
                  writeResult |-> "top"][at],
           streams' \subseteq {"in", "out"},
           problemId' \in SUBSET Submissions,
           shut[socket] = {} =>
                /\ m \in Message /\ m.kind = AnswerTo[Waits[at]]
                /\ at = "writeResult" => m.of = {held[socket]}
    PROVE  ConnectionInv'
PROOF
  <1> USE DEF ConnectionInv
  <1>1. at \in {"writeHeader", "writeKnown", "writeResult"} /\ at' \in {"top", "readProblem"}
    BY DEF Waits
  <1>2. socket \in Connections /\ socket <= made
    BY SocketOfConnection
  <1>3. /\ up' \in [Connections -> Seq(Message)]
        /\ shut[socket] # {} => up' = up
        /\ shut[socket] = {} => up'[socket] = Append(up[socket], m)
        /\ \A d \in Connections \ {socket} : up'[d] = up[d]
        /\ UNCHANGED <<down, made, shut, breaks>>
    BY <1>2, BuilderPuts
  <1>4. /\ "builder" \notin shut[socket] => down[socket] = <<>>
        /\ shut[socket] = {} => up[socket] = <<>> /\ worker[socket] = Waits[at]
    BY AnsweredWaits
  <1>5. shut[socket] = {} => up'[socket] = <<m>>
    <2>1. Append(<<>>, m) = <<m>>
      OBVIOUS
    <2> QED BY <1>3, <1>4, <2>1
  <1>6. Len(<<m>>) = 1 /\ <<m>>[1] = m /\ <<m>> # <<>>
    OBVIOUS
  <1>7. TypeOK'
    BY <1>1, <1>3 DEF TypeOK, BuilderStates, serverVars, stopVars
  <1>8. WorkerInv'
    <2>1. worker[socket] # "none"
      <3>1. made \in Nat /\ socket \in Nat
        BY <1>2, ConnectionAssumption DEF TypeOK, Connections
      <3> QED BY <1>2, <3>1 DEF WorkerInv
    <2>2. worker[socket] = "backlog" => up'[socket] = up[socket]
      BY <1>1, <1>3, <1>4 DEF Waits
    <2> QED BY <1>3, <2>1, <2>2 DEF WorkerInv, serverVars
  <1>9. BuilderInv' /\ CarrierInv'
    BY <1>1, <1>3 DEF BuilderInv, CarrierInv
  <1>10. UpInv'
    <2>1. ASSUME shut[socket] = {}
          PROVE  /\ Len(up'[socket]) = 1
                 /\ worker[socket] \in DOMAIN AnswerTo
                 /\ up'[socket][1].kind = AnswerTo[worker[socket]]
                 /\ worker[socket] = "readResult" => up'[socket][1].of = {held[socket]}
      <3>1. Waits[at] \in DOMAIN AnswerTo /\ (Waits[at] = "readResult" => at = "writeResult")
        BY <1>1 DEF Waits, AnswerTo
      <3> QED BY <1>4, <1>5, <1>6, <2>1, <3>1
    <2> QED BY <1>3, <2>1 DEF UpInv, serverVars
  <1>11. 1..Len(<<>>) = {} /\ Len(<<>>) = 0
    OBVIOUS
  <1>12. DownInv'
    <2> SUFFICES ASSUME "builder" \notin shut[socket]
                 PROVE  /\ at' \in DOMAIN ToCome => 0 <= Len(ToCome[at'])
                        /\ at' # "gotId"
      BY <1>3, <1>4, <1>11 DEF DownInv
    <2> QED BY <1>1 DEF ToCome
  <1>13. SyncInv'
    <2> SUFFICES ASSUME shut[socket] = {}
                 PROVE  Handshake(socket)' /\ Request(socket)' /\ Answer(socket)'
      BY <1>3 DEF SyncInv
    <2>1. down'[socket] = <<>> /\ up'[socket] # <<>> /\ worker'[socket] = Waits[at]
      BY <1>3, <1>4, <1>5, <1>6 DEF serverVars
    <2>2. CASE at = "writeKnown"
      <3>1. at' = "readProblem" /\ worker'[socket] = "readKnown"
        BY <2>1, <2>2 DEF Waits
      <3> QED BY <2>1, <3>1 DEF Handshake, Request, Answer, Sent
    <2>3. CASE at # "writeKnown"
      <3>1. Between' /\ worker'[socket] \in {"readHeader", "readResult"}
        BY <1>1, <2>1, <2>3 DEF Between, Waits
      <3> QED BY <2>1, <3>1 DEF Handshake, Request, Answer, Sent
    <2> QED BY <2>2, <2>3
  <1> QED BY <1>7, <1>8, <1>9, <1>10, <1>12, <1>13

\* The Builder's header, its answer whether it knows the problem, and its result.
LEMMA WritesStep ==
    ASSUME ConnectionInv, MakeOut \/ WriteKnown \/ WriteResult
    PROVE  ConnectionInv'
PROOF
  <1> USE DEF ConnectionInv
  <1>1. at \in {"writeHeader", "writeKnown", "writeResult"}
    BY DEF MakeOut, WriteKnown, WriteResult, BuilderMove
  <1>2. at \in DOMAIN Waits /\ socket # NoConnection
    BY <1>1 DEF Waits, BuilderInv
  <1>3. CASE MakeOut
    <2>1. /\ at = "writeHeader" /\ at' = "top"
          /\ Put(socket, "builder", Msg("header", {})) /\ streams' = {"in", "out"}
          /\ UNCHANGED <<serverVars, stopVars, socket, working, problemId,
                         problem, cases, text>>
      BY <1>3 DEF MakeOut, BuilderMove, localVars
    <2>2. /\ Msg("header", {}) \in Message
          /\ Msg("header", {}).kind = AnswerTo[Waits["writeHeader"]]
      BY DEF Msg, Message, Kinds, AnswerTo, Waits
    <2>3. problemId' \in SUBSET Submissions
      BY <2>1 DEF TypeOK
    <2> QED BY <1>2, <2>1, <2>2, <2>3, AnsweredStep
  <1>4. CASE WriteKnown
    <2>1. at = "writeKnown" /\ ~(problemId \subseteq cached)
      BY <1>4 DEF WriteKnown, BuilderMove, BuilderInv, cached
    <2>2. /\ at' = "readProblem" /\ Put(socket, "builder", Msg("unknown", {}))
          /\ problemId' = {}
          /\ UNCHANGED <<serverVars, stopVars, socket, streams, working,
                         problem, cases, text>>
      BY <1>4, <2>1 DEF WriteKnown, BuilderMove, localVars
    <2>3. /\ Msg("unknown", {}) \in Message
          /\ Msg("unknown", {}).kind = AnswerTo[Waits["writeKnown"]]
      BY DEF Msg, Message, Kinds, AnswerTo, Waits
    <2>4. streams' \subseteq {"in", "out"}
      BY <2>2 DEF TypeOK
    <2> QED BY <1>2, <2>1, <2>2, <2>3, <2>4, AnsweredStep
  <1>5. CASE WriteResult
    <2>1. /\ at = "writeResult" /\ at' = "top"
          /\ Put(socket, "builder", Msg("result", {problem, cases, text}))
          /\ UNCHANGED <<serverVars, stopVars, socket, streams, working, problemId,
                         problem, cases, text>>
      BY <1>5 DEF WriteResult, BuilderMove, localVars
    <2>2. ASSUME shut[socket] = {}
          PROVE  /\ held[socket] \in Submissions
                 /\ problem = held[socket] /\ cases = held[socket] /\ text = held[socket]
      <3>1. worker[socket] = "readResult" /\ socket \in Connections
        BY <1>2, <2>1, <2>2, AnsweredWaits, SocketOfConnection DEF Waits
      <3>2. Answer(socket)
        BY <1>2, <2>1, <2>2 DEF SyncInv
      <3> QED BY <2>1, <3>1, <3>2 DEF Answer, Sent, Read, Between, WorkerInv, Holding
    <2>3. shut[socket] = {} =>
            /\ Msg("result", {problem, cases, text}) \in Message
            /\ Msg("result", {problem, cases, text}).kind = AnswerTo[Waits["writeResult"]]
            /\ Msg("result", {problem, cases, text}).of = {held[socket]}
      BY <2>2 DEF Msg, Message, Kinds, AnswerTo, Waits
    <2>4. streams' \subseteq {"in", "out"} /\ problemId' \in SUBSET Submissions
      BY <2>1 DEF TypeOK
    <2> QED BY <1>2, <2>1, <2>3, <2>4, AnsweredStep
  <1> QED BY <1>3, <1>4, <1>5

-----------------------------------------------------------------------------
(* The network, the users and the shutdown of the Builder.                 *)

\* A break loses the end of what is under way, and what is left keeps its order.
LEMMA BreakStep ==
    ASSUME ConnectionInv, NEW c \in Connections, Break(c)
    PROVE  ConnectionInv'
PROOF
  <1> USE DEF ConnectionInv
  <1>1. PICK m \in 0..Len(down[c]), n \in 0..Len(up[c]) :
            /\ down' = [down EXCEPT ![c] = SubSeq(@, 1, m)]
            /\ up' = [up EXCEPT ![c] = SubSeq(@, 1, n)]
    BY DEF Break
  <1>2. /\ c <= made /\ breaks < MaxBreaks /\ breaks' = breaks + 1
        /\ shut' = [shut EXCEPT ![c] = @ \cup {"network"}]
        /\ UNCHANGED <<made, serverVars, builderVars, stopVars>>
    BY DEF Break
  <1>3. down[c] \in Seq(Message) /\ up[c] \in Seq(Message)
    BY DEF TypeOK
  <1>4. /\ down'[c] \in Seq(Message) /\ Len(down'[c]) = m
        /\ \A i \in 1..m : i \in 1..Len(down[c]) /\ down'[c][i] = down[c][i]
        /\ up'[c] \in Seq(Message) /\ Len(up'[c]) = n
        /\ \A i \in 1..n : i \in 1..Len(up[c]) /\ up'[c][i] = up[c][i]
    BY <1>1, <1>3, StartElements DEF TypeOK
  <1>5. /\ \A d \in Connections \ {c} :
              down'[d] = down[d] /\ up'[d] = up[d] /\ shut'[d] = shut[d]
        /\ shut'[c] = shut[c] \cup {"network"}
    BY <1>1, <1>2 DEF TypeOK
  <1>6. m \in Nat /\ n \in Nat /\ m <= Len(down[c]) /\ n <= Len(up[c])
        /\ Len(down[c]) \in Nat /\ Len(up[c]) \in Nat
    BY <1>3, LenProperties
  <1>7. TypeOK'
    <2>1. down' \in [Connections -> Seq(Message)] /\ up' \in [Connections -> Seq(Message)]
      BY <1>1, <1>4, <1>5 DEF TypeOK
    <2>2. shut' \in [Connections -> SUBSET {"worker", "builder", "network"}]
      BY <1>2 DEF TypeOK
    <2>3. breaks' \in 0..MaxBreaks
      BY <1>2, ConnectionAssumption DEF TypeOK
    <2> QED BY <1>2, <2>1, <2>2, <2>3 DEF TypeOK, serverVars, builderVars, stopVars
  <1>8. WorkerInv'
    <2>1. worker[c] # "none"
      <3>1. made \in Nat /\ c \in Nat
        BY ConnectionAssumption DEF TypeOK, Connections
      <3> QED BY <1>2, <3>1 DEF WorkerInv
    <2>2. worker[c] = "backlog" => down'[c] = <<>> /\ up'[c] = <<>>
      <3> SUFFICES ASSUME worker[c] = "backlog" PROVE down'[c] = <<>> /\ up'[c] = <<>>
        OBVIOUS
      <3>1. down[c] = <<>> /\ up[c] = <<>>
        BY DEF WorkerInv
      <3>2. Len(down[c]) = 0 /\ Len(up[c]) = 0
        BY <1>3, <3>1, EmptyLength
      <3>3. m = 0 /\ n = 0
        BY <1>6, <3>2
      <3> QED BY <1>4, <3>3, EmptyLength
    <2> QED BY <1>2, <1>5, <2>1, <2>2 DEF WorkerInv, serverVars
  <1>9. BuilderInv'
    BY <1>2 DEF BuilderInv, builderVars
  <1>10. CarrierInv'
    <2> SUFFICES ASSUME NEW d \in Connections, NEW i \in 1..Len(down'[d]),
                        down'[d][i].kind \in Carriers
                 PROVE  \E s \in Submissions : down'[d][i].of = {s}
      BY DEF CarrierInv
    <2>1. i \in 1..Len(down[d]) /\ down'[d][i] = down[d][i]
      BY <1>4, <1>5
    <2> QED BY <2>1 DEF CarrierInv
  <1>11. UpInv'
    <2>1. ASSUME up'[c] # <<>>
          PROVE  up[c] # <<>> /\ Len(up'[c]) = 1 /\ up'[c][1] = up[c][1]
      <3>1. n # 0
        BY <1>4, <2>1, EmptyLength
      <3>2. up[c] # <<>>
        BY <1>3, <1>6, <3>1, EmptyLength
      <3>3. Len(up[c]) = 1
        BY <3>2 DEF UpInv
      <3>4. n = 1
        BY <1>6, <3>1, <3>3
      <3> QED BY <1>4, <3>2, <3>4
    <2> QED BY <1>2, <1>5, <2>1 DEF UpInv, serverVars
  <1>12. DownInv' /\ SyncInv'
    <2>1. CASE c # socket
      <3>1. socket # NoConnection => socket \in Connections \ {c}
        BY <2>1, SocketOfConnection
      <3> QED BY <1>2, <1>5, <3>1, ElsewhereStep DEF serverVars
    <2>2. CASE c = socket
      <3>1. SyncInv'
        BY <1>2, <1>5, <2>2 DEF SyncInv, builderVars
      <3>2. UNCHANGED <<at, socket, problemId>>
        BY <1>2 DEF builderVars
      <3>3. ASSUME socket # NoConnection, "builder" \notin shut'[socket]
            PROVE  /\ at \in DOMAIN ToCome =>
                        /\ m <= Len(ToCome[at])
                        /\ \A i \in 1..m : down'[c][i].kind = ToCome[at][i]
                   /\ Between =>
                        \A i \in 1..m :
                            \/ down'[c][i] = Msg("keepalive", {})
                            \/ down'[c][i].kind = "id" /\ i = m
                   /\ at = "gotId" /\ ~Between => down'[c] = <<>>
        <4>1. "builder" \notin shut[c]
          BY <1>5, <2>2, <3>3
        <4>2. ASSUME at \in DOMAIN ToCome
              PROVE  /\ m <= Len(ToCome[at])
                     /\ \A i \in 1..m : down'[c][i].kind = ToCome[at][i]
          <5>1. /\ Len(down[c]) <= Len(ToCome[at])
                /\ \A i \in 1..Len(down[c]) : down[c][i].kind = ToCome[at][i]
            BY <2>2, <3>3, <4>1, <4>2 DEF DownInv
          <5>2. Len(ToCome[at]) \in Nat
            BY <4>2 DEF ToCome
          <5>3. \A j, k, l \in Nat : j <= k /\ k <= l => j <= l
            BY SMT
          <5> QED BY <1>4, <1>6, <5>1, <5>2, <5>3
        <4>3. ASSUME Between, NEW i \in 1..m
              PROVE  \/ down'[c][i] = Msg("keepalive", {})
                     \/ down'[c][i].kind = "id" /\ i = m
          <5>1. \/ down[c][i] = Msg("keepalive", {})
                \/ down[c][i].kind = "id" /\ i = Len(down[c])
            BY <1>4, <2>2, <3>3, <4>1, <4>3 DEF DownInv
          <5>2. i = Len(down[c]) => i = m
            BY <1>6
          <5> QED BY <1>4, <5>1, <5>2
        <4>4. ASSUME at = "gotId", ~Between
              PROVE  down'[c] = <<>>
          <5>1. Len(down[c]) = 0
            BY <1>3, <2>2, <3>3, <4>1, <4>4, EmptyLength DEF DownInv
          <5>2. m = 0
            BY <1>6, <5>1
          <5> QED BY <1>4, <5>2, EmptyLength
        <4> QED BY <4>2, <4>3, <4>4
      <3>4. DownInv'
        BY <1>4, <2>2, <3>2, <3>3 DEF DownInv, Between
      <3> QED BY <3>1, <3>4
    <2> QED BY <2>1, <2>2
  <1> QED BY <1>7, <1>8, <1>9, <1>10, <1>11, <1>12

\* The end of the Builder closes its side of the socket; the sockets stay otherwise.
LEMMA ShutStep ==
    ASSUME ConnectionInv, shut' = shut \/ ShutSocket(socket),
           UNCHANGED <<made, down, up, breaks, verdict, worker, held, idle, builderVars>>,
           queue' \in Seq(Submissions),
           stopper' \in {"none", "asked", "closing", "done"},
           shutdownRequested' \in BOOLEAN
    PROVE  ConnectionInv'
PROOF
  <1> USE DEF ConnectionInv
  <1>1. \A d \in Connections :
            shut'[d] = shut[d] \/ (d = socket /\ shut'[d] = shut[d] \cup {"builder"})
    BY DEF ShutSocket
  <1>2. shut' \in [Connections -> SUBSET {"worker", "builder", "network"}]
    <2>1. shut \in [Connections -> SUBSET {"worker", "builder", "network"}]
      BY DEF TypeOK
    <2>2. CASE ShutSocket(socket)
      <3>1. ASSUME NEW d \in Connections
            PROVE  (IF d = socket THEN shut[d] \cup {"builder"} ELSE shut[d])
                        \in SUBSET {"worker", "builder", "network"}
        BY <2>1
      <3> QED BY <2>2, <3>1, Zenon DEF ShutSocket
    <2> QED BY <2>1, <2>2
  <1>3. TypeOK'
    BY <1>2 DEF TypeOK, builderVars
  <1>4. WorkerInv'
    <2>1. ASSUME NEW d \in Connections, worker[d] = "none"
          PROVE  d # socket
      <3>1. made \in Nat /\ d \in Nat /\ d > made
        BY <2>1, ConnectionAssumption DEF TypeOK, Connections, WorkerInv
      <3>2. socket <= made /\ socket \in Nat
        BY ConnectionAssumption DEF TypeOK
      <3> QED BY <3>1, <3>2
    <2> QED BY <1>1, <2>1 DEF WorkerInv
  <1>5. BuilderInv' /\ CarrierInv' /\ UpInv'
    BY DEF BuilderInv, CarrierInv, UpInv, builderVars
  <1>6. socket # NoConnection =>
            /\ "builder" \notin shut'[socket] => "builder" \notin shut[socket]
            /\ shut'[socket] = {} => shut[socket] = {}
    BY <1>1, SocketOfConnection
  <1>7. DownInv'
    BY <1>6 DEF DownInv, Between, builderVars
  <1>8. SyncInv'
    BY <1>6 DEF SyncInv, Handshake, Request, Answer, Between, builderVars
  <1> QED BY <1>3, <1>4, <1>5, <1>7, <1>8

LEMMA OutsideStep ==
    ASSUME ConnectionInv,
           Stopper \/ RequestShutdown \/ \E s \in Submissions : Submit(s)
    PROVE  ConnectionInv'
PROOF
  <1> USE DEF ConnectionInv
  <1>1. queue \in Seq(Submissions) /\ stopper \in {"none", "asked", "closing", "done"}
        /\ shutdownRequested \in BOOLEAN
    BY DEF TypeOK
  <1>2. CASE ReadWorking \/ RequestShutdown
    <2>1. /\ UNCHANGED <<socketVars, serverVars, builderVars>>
          /\ stopper' \in {"none", "asked", "closing", "done"}
          /\ shutdownRequested' \in BOOLEAN
      BY <1>1, <1>2 DEF ReadWorking, RequestShutdown
    <2> QED BY <1>1, <2>1, ShutStep DEF socketVars, serverVars
  <1>3. CASE CloseIdle
    BY <1>1, <1>3, ShutStep DEF CloseIdle, serverVars
  <1>4. CASE ProcessEnds
    BY <1>1, <1>4, ShutStep DEF ProcessEnds, serverVars, stopVars
  <1>5. CASE \E s \in Submissions : Submit(s)
    <2>1. PICK s \in Submissions : Submit(s)
      BY <1>5
    <2>2. queue' \in Seq(Submissions)
      BY <1>1, <2>1, AppendElements DEF Submit
    <2> QED BY <1>1, <2>1, <2>2, ShutStep DEF Submit, socketVars, stopVars
  <1> QED BY <1>2, <1>3, <1>4, <1>5 DEF Stopper

-----------------------------------------------------------------------------
(* The theorems.                                                           *)

LEMMA ConnectionInit ==
    ASSUME Init
    PROVE  ConnectionInv
PROOF
  <1> USE DEF Init
  <1>1. Len(<<>>) = 0 /\ 1..Len(<<>>) = {}
    OBVIOUS
  <1>2. TypeOK
    <2>1. /\ down \in [Connections -> Seq(Message)] /\ up \in [Connections -> Seq(Message)]
          /\ queue \in Seq(Submissions)
      OBVIOUS
    <2>2. /\ made \in 0..MaxConnections /\ breaks \in 0..MaxBreaks
          /\ idle \in [Connections -> 0..MaxIdle] /\ socket \in 0..made
      BY ConnectionAssumption DEF NoConnection
    <2> QED BY <2>1, <2>2 DEF TypeOK, WorkerStates, BuilderStates, MaybeSubmission
  <1>3. WorkerInv
    <2>1. \A c \in Connections : c > 0
      BY ConnectionAssumption DEF Connections
    <2> QED BY <2>1 DEF WorkerInv, Holding
  <1>4. BuilderInv /\ CarrierInv /\ UpInv /\ DownInv /\ SyncInv
    BY <1>1 DEF BuilderInv, CarrierInv, UpInv, DownInv, SyncInv
  <1> QED BY <1>2, <1>3, <1>4 DEF ConnectionInv

LEMMA ConnectionNext ==
    ASSUME ConnectionInv, [Next]_vars
    PROVE  ConnectionInv'
PROOF
  <1>1. CASE Builder
    BY <1>1, MoveStep, ConnectStep, MakeInStep, ReadIdStep, ReadPartStep, WritesStep
       DEF Builder
  <1>2. CASE Stopper \/ RequestShutdown \/ \E s \in Submissions : Submit(s)
    BY <1>2, OutsideStep
  <1>3. CASE \E c \in Connections : Worker(c) \/ Break(c)
    BY <1>3, WorkerStep, BreakStep
  <1>4. CASE UNCHANGED vars
    <2>1. /\ shut' = shut
          /\ UNCHANGED <<made, down, up, breaks, verdict, worker, held, idle, builderVars>>
          /\ UNCHANGED <<queue, stopper, shutdownRequested>>
      BY <1>4 DEF vars, socketVars, serverVars, stopVars
    <2>2. /\ queue' \in Seq(Submissions)
          /\ stopper' \in {"none", "asked", "closing", "done"}
          /\ shutdownRequested' \in BOOLEAN
      BY <2>1 DEF ConnectionInv, TypeOK
    <2> QED BY <2>1, <2>2, ShutStep
  <1> QED BY <1>1, <1>2, <1>3, <1>4 DEF Next

\* The invariant of the conversation holds in every state.
THEOREM Conversation == Spec => []ConnectionInv
PROOF
  BY ConnectionInit, ConnectionNext, PTL DEF Spec

\* The variables have their types: a socket the Builder holds was made, and
\* what it keeps of a submission is always of one.
THEOREM ConnectionTypes == Spec => []TypeOK
PROOF
  <1>1. ConnectionInv => TypeOK
    BY DEF ConnectionInv
  <1> QED BY <1>1, Conversation, PTL

\* Neither side is ever sent an object it does not expect, however often the
\* connection breaks, ends or is made anew.
THEOREM AlwaysExpected == Spec => []MessagesExpected
PROOF
  <1>1. ASSUME ConnectionInv
        PROVE  MessagesExpected
    <2> USE <1>1 DEF ConnectionInv
    <2>1. ASSUME NEW c \in Connections, worker[c] \in DOMAIN WorkerReads, CanRead(c, "worker")
          PROVE  Received(c, "worker").kind \in WorkerReads[worker[c]]
      <3>1. up[c] # <<>> /\ up[c] \in Seq(Message) /\ Received(c, "worker") = up[c][1]
        BY <2>1, TailElements DEF CanRead, Received, Incoming, TypeOK
      <3>2. up[c][1].kind = AnswerTo[worker[c]]
        BY <3>1 DEF UpInv
      <3> QED BY <2>1, <3>1, <3>2 DEF WorkerReads, AnswerTo
    <2>2. ASSUME at \in DOMAIN BuilderReads, CanRead(socket, "builder")
          PROVE  Received(socket, "builder").kind \in BuilderReads[at]
      <3>1. at \in {"readHeader", "readId", "readProblem", "readCases", "readText"}
        BY <2>2 DEF BuilderReads
      <3>2. socket # NoConnection /\ socket \in Connections
        BY <3>1, SocketOfConnection DEF BuilderInv
      <3>3. /\ "builder" \notin shut[socket]
            /\ down[socket] # <<>> /\ down[socket] \in Seq(Message)
            /\ Received(socket, "builder") = down[socket][1]
        BY <2>2, <3>2, TailElements DEF CanRead, Received, Incoming, TypeOK
      <3>4. 1 \in 1..Len(down[socket])
        BY <3>3, TailElements
      <3>5. CASE at = "readId"
        BY <3>2, <3>3, <3>4, <3>5 DEF DownInv, Between, Msg, BuilderReads
      <3>6. CASE at # "readId"
        <4>1. down[socket][1].kind = ToCome[at][1]
          BY <3>1, <3>2, <3>3, <3>4, <3>6 DEF DownInv, ToCome
        <4> QED BY <3>1, <3>3, <3>6, <4>1 DEF ToCome, BuilderReads
      <3> QED BY <3>5, <3>6
    <2> QED BY <2>1, <2>2 DEF MessagesExpected
  <1> QED BY <1>1, Conversation, PTL

\* A verdict is made from the problem, the test cases and the text of the
\* submission it is set on.
THEOREM VerdictsAreTheirOwn == Spec => []VerdictIsItsOwn
PROOF
  <1>1. Init => VerdictIsItsOwn
    BY DEF Init, VerdictIsItsOwn
  <1>2. ASSUME ConnectionInv, VerdictIsItsOwn, [Next]_vars
        PROVE  VerdictIsItsOwn'
    <2> USE <1>2 DEF ConnectionInv
    <2>1. ASSUME NEW c \in Connections, ReadResult(c)
          PROVE  VerdictIsItsOwn'
      <3>1. /\ worker[c] = "readResult" /\ Take(c, "worker")
            /\ verdict' = [verdict EXCEPT ![held[c]] = Received(c, "worker").of]
        BY <2>1 DEF ReadResult, WorkerMove
      <3>2. up[c] # <<>> /\ Received(c, "worker") = up[c][1]
        BY <3>1, WorkerTakes
      <3>3. up[c][1].of = {held[c]}
        BY <3>1, <3>2 DEF UpInv
      <3> QED BY <3>1, <3>2, <3>3 DEF VerdictIsItsOwn, TypeOK
    <2>2. ASSUME NEW c \in Connections, Worker(c), ~ReadResult(c)
          PROVE  UNCHANGED verdict
      BY <2>2 DEF Worker, Accept, WriteHeader, ReadHeader, NoHandshake, CheckShutdown,
                  PollSubmission, PollNothing, KeepAlive, Send, ReadKnown, SendFails,
                  PutBack, CloseSocket
    <2>3. ASSUME Builder
          PROVE  UNCHANGED verdict
      BY <2>3 DEF Builder, Loop, Connect, CannotConnect, MakeIn, MakeOut, StreamFails,
                  NoStream, NotWorking, ReadId, GotId, WriteKnown, ReadProblem, ReadCases,
                  ReadText, Test, WriteResult, Forget, BuilderMove, serverVars
    <2>4. ASSUME \/ Stopper \/ RequestShutdown \/ UNCHANGED vars
                 \/ \E c \in Connections : Break(c)
                 \/ \E s \in Submissions : Submit(s)
          PROVE  UNCHANGED verdict
      BY <2>4 DEF Stopper, ReadWorking, CloseIdle, ProcessEnds, RequestShutdown, Break,
                  Submit, serverVars, vars
    <2> QED BY <2>1, <2>2, <2>3, <2>4 DEF Next, VerdictIsItsOwn
  <1> QED BY <1>1, <1>2, Conversation, PTL DEF Spec

=============================================================================
