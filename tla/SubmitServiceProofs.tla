------------------------ MODULE SubmitServiceProofs ------------------------
(***************************************************************************)
(* Proofs about SubmitService, for any sets of submissions and workers.    *)
(***************************************************************************)
EXTENDS SubmitService, SequenceTheorems, TLAPS

USE DEF futureVars, acceptVars, workerVars, stopVars

-----------------------------------------------------------------------------
(* The queue: what is in it, and that nothing is in it twice.              *)

\* Putting a new element at the end adds it to the queue, once.
LEMMA AppendToQueue ==
    ASSUME NEW S, NEW q \in Seq(S), NEW e \in S
    PROVE  /\ Append(q, e) \in Seq(S)
           /\ Range(Append(q, e)) = Range(q) \cup {e}
           /\ IsInjective(q) /\ e \notin Range(q) => IsInjective(Append(q, e))
<1>1. /\ Append(q, e) \in Seq(S)
      /\ DOMAIN q = 1..Len(q)
      /\ DOMAIN Append(q, e) = 1..(Len(q) + 1)
      /\ \A i \in 1..Len(q) : Append(q, e)[i] = q[i]
      /\ Append(q, e)[Len(q) + 1] = e
      /\ Len(q) \in Nat
  BY AppendProperties, LenProperties
<1>2. Range(Append(q, e)) = Range(q) \cup {e}
  BY <1>1 DEF Range
<1>3. ASSUME IsInjective(q), e \notin Range(q)
      PROVE  IsInjective(Append(q, e))
  BY <1>1, <1>3 DEF Range, IsInjective
<1>. QED BY <1>1, <1>2, <1>3

\* Taking the head removes it from a queue that holds nothing twice.
LEMMA TakeFromQueue ==
    ASSUME NEW S, NEW q \in Seq(S), q # <<>>
    PROVE  /\ Head(q) \in S
           /\ Head(q) \in Range(q)
           /\ Tail(q) \in Seq(S)
           /\ Range(Tail(q)) \subseteq Range(q)
           /\ Range(q) \subseteq Range(Tail(q)) \cup {Head(q)}
           /\ IsInjective(q) => IsInjective(Tail(q)) /\ Head(q) \notin Range(Tail(q))
<1>1. /\ Head(q) \in S
      /\ Tail(q) \in Seq(S)
      /\ DOMAIN q = 1..Len(q)
      /\ Len(q) \in Nat \ {0}
      /\ DOMAIN Tail(q) = 1..(Len(q) - 1)
      /\ \A i \in 1..(Len(q) - 1) : Tail(q)[i] = q[i + 1]
      /\ Head(q) = q[1]
  BY HeadTailProperties, LenProperties, EmptySeq
<1>2. Head(q) \in Range(q) /\ Range(Tail(q)) \subseteq Range(q)
  BY <1>1 DEF Range
<1>3. ASSUME NEW x \in Range(q) PROVE x \in Range(Tail(q)) \cup {Head(q)}
  <2>1. PICK i \in 1..Len(q) : q[i] = x
    BY <1>1, <1>3 DEF Range
  <2>2. CASE i = 1
    BY <1>1, <2>1, <2>2
  <2>3. CASE i # 1
    <3>1. i - 1 \in DOMAIN Tail(q) /\ Tail(q)[i - 1] = x
      BY <1>1, <2>1, <2>3
    <3>. QED BY <3>1 DEF Range
  <2>. QED BY <2>2, <2>3
<1>4. ASSUME IsInjective(q)
      PROVE  IsInjective(Tail(q)) /\ Head(q) \notin Range(Tail(q))
  BY <1>1, <1>4 DEF Range, IsInjective
<1>. QED BY <1>1, <1>2, <1>3, <1>4

-----------------------------------------------------------------------------
(* Type correctness, with what it needs: where a worker stands while the   *)
(* accept thread creates it and while it works on a submission, and that a *)
(* worker which has counted MaxIdle intervals sends a keepalive before it  *)
(* polls again.                                                            *)

Creation ==
    /\ acceptPc \in {"handshake", "start", "add"} => accepted \in Workers
    /\ acceptPc = "handshake" => pc[accepted] = "none"
    /\ acceptPc = "start" => pc[accepted] = "created"
    /\ acceptPc = "add" => pc[accepted] \in Running \cup {"done"}

Claimed ==
    \A w \in Workers :
        pc[w] \in {"claimed", "testing"} => holding[w] \in Submissions

IdleBound ==
    \A w \in Workers :
        pc[w] \notin {"keepalive", "exit", "leaving", "done"} => idle[w] < MaxIdle

TypeInv == TypeOK /\ Creation /\ Claimed /\ IdleBound

LEMMA InitType == Init => TypeInv
<1>. SUFFICES ASSUME Init PROVE TypeInv
  OBVIOUS
<1>. USE ServiceAssumption DEF Init
<1>1. queue \in Seq(Submissions)
  BY EmptySeq
<1>2. TypeOK
  <2>1. 0 \in 0..MaxAttempts /\ 0 \in 0..MaxIdle
    OBVIOUS
  <2>. QED BY <1>1, <2>1, Zenon DEF TypeOK
<1>3. Creation /\ Claimed /\ IdleBound
  BY DEF Creation, Claimed, IdleBound
<1>. QED BY <1>2, <1>3 DEF TypeInv

\* The threads that are not workers: a worker they move is new.
LEMMA OthersType ==
    ASSUME TypeInv,
           \/ \E s \in Submissions : SubmitStep(s)
           \/ AcceptStep
           \/ RequestShutdown
           \/ StopStep
    PROVE  TypeInv'
<1>. USE ServiceAssumption
     DEF TypeInv, TypeOK, Creation, Claimed, IdleBound, Running, Goto, StopAt
<1>1. ASSUME NEW s \in Submissions, SubmitStep(s) PROVE TypeInv'
  <2>1. CASE Enqueue(s)
    BY <2>1, AppendToQueue DEF Enqueue
  <2>. QED BY <1>1, <2>1 DEF SubmitStep, Refuse, Admit
<1>2. CASE AcceptStep
  <2>1. CASE CheckClosing \/ AcceptClosed
    BY <2>1 DEF CheckClosing, AcceptClosed
  <2>2. ASSUME NEW w \in Workers, AcceptConnection(w) PROVE TypeInv'
    BY <2>2 DEF AcceptConnection
  <2>3. ASSUME NEW w \in Workers, Handshake(w) PROVE TypeInv'
    BY <2>3 DEF Handshake
  <2>4. ASSUME NEW w \in Workers, HandshakeFails(w) PROVE TypeInv'
    BY <2>4 DEF HandshakeFails
  <2>5. ASSUME NEW w \in Workers, StartWorker(w) PROVE TypeInv'
    BY <2>5 DEF StartWorker
  <2>6. ASSUME NEW w \in Workers, ListWorker(w) PROVE TypeInv'
    BY <2>6 DEF ListWorker
  <2>. QED BY <1>2, <2>1, <2>2, <2>3, <2>4, <2>5, <2>6 DEF AcceptStep, CreateWorker
<1>3. CASE RequestShutdown \/ StopStep
  BY <1>3 DEF RequestShutdown, StopStep, CloseSocket, LockList, UnlockList,
              AllGone, Stopped, SetStop, Interrupt
<1>. QED BY <1>1, <1>2, <1>3

LEMMA WorkerType ==
    ASSUME TypeInv, NEW w \in Workers, WorkerStep(w)
    PROVE  TypeInv'
<1>. USE ServiceAssumption
     DEF TypeInv, TypeOK, Creation, Claimed, IdleBound, Running, Goto
<1>1. CASE CheckStop(w)
  BY <1>1 DEF CheckStop
<1>2. CASE PollTakes(w)
  BY <1>2, TakeFromQueue DEF PollTakes, Claim
<1>3. CASE PollTimesOut(w)
  BY <1>3 DEF PollTimesOut, IdleOnce
<1>4. CASE PollInterrupted(w)
  <2>1. CASE ~stop[w] /\ Goto(w, "exit") /\ UNCHANGED idle
    BY <1>4, <2>1 DEF PollInterrupted
  <2>2. CASE holding[w] = None /\ IdleOnce(w)
    <3>1. /\ pc[w] = "poll"
          /\ UNCHANGED <<request, futureVars, acceptVars, closing, queue, listed,
                         holding, stopVars>>
          /\ interrupted' \in [Workers -> BOOLEAN]
      BY <1>4 DEF PollInterrupted
    <3>2. idle[w] \in 0..MaxIdle /\ idle[w] < MaxIdle /\ MaxIdle \in Nat
      BY <3>1
    <3>3. idle' \in [Workers -> 0..MaxIdle]
      BY <2>2, <3>2 DEF IdleOnce
    <3>4. /\ pc' \in {[pc EXCEPT ![w] = "check"], [pc EXCEPT ![w] = "keepalive"]}
          /\ pc'[w] = "check" => idle'[w] < MaxIdle
      <4>1. CASE idle[w] + 1 >= MaxIdle
        BY <2>2, <3>2, <4>1 DEF IdleOnce
      <4>2. CASE ~(idle[w] + 1 >= MaxIdle)
        BY <2>2, <3>2, <4>2 DEF IdleOnce
      <4>. QED BY <4>1, <4>2
    <3>. QED BY <2>2, <3>1, <3>3, <3>4 DEF IdleOnce
  <2>3. CASE holding[w] # None /\ Claim(w)
    BY <1>4, <2>3 DEF PollInterrupted, Claim
  <2>. QED BY <1>4, <2>1, <2>2, <2>3 DEF PollInterrupted
<1>5. CASE SendKeepalive(w)
  <2>1. CASE Goto(w, "check") /\ idle' = [idle EXCEPT ![w] = 0]
    BY <1>5, <2>1 DEF SendKeepalive
  <2>2. CASE Goto(w, "exit") /\ UNCHANGED idle
    BY <1>5, <2>2 DEF SendKeepalive
  <2>. QED BY <1>5, <2>1, <2>2 DEF SendKeepalive
<1>6. CASE GiveUp(w)
  BY <1>6 DEF GiveUp
<1>7. CASE Attempt(w)
  BY <1>7 DEF Attempt
<1>8. CASE TestAnswered(w)
  BY <1>8 DEF TestAnswered
<1>9. CASE TestFails(w)
  BY <1>9 DEF TestFails
<1>10. CASE PutBack(w)
  <2>1. holding[w] \in Submissions
    BY <1>10 DEF PutBack
  <2>. QED BY <1>10, <2>1, AppendToQueue DEF PutBack
<1>11. CASE PutBackInterrupted(w)
  BY <1>11 DEF PutBackInterrupted
<1>12. CASE NothingToPutBack(w)
  BY <1>12 DEF NothingToPutBack
<1>13. CASE Leave(w)
  BY <1>13 DEF Leave
<1>. QED BY <1>1, <1>2, <1>3, <1>4, <1>5, <1>6, <1>7, <1>8, <1>9,
            <1>10, <1>11, <1>12, <1>13 DEF WorkerStep

-----------------------------------------------------------------------------
(* Where a submission is.                                                  *)

\* A submission is handled only once submitAsync has queued it.
Unaccepted ==
    \A s \in Submissions :
        request[s] # "accepted" => ~Queued(s) /\ ~Held(s) /\ ~ready[s]

HolderRuns ==
    \A w \in Workers : holding[w] # None => pc[w] \in Running \ {"leaving"}

\* What a worker still holds when it polls again is answered: it was given up.
KeepsAnswered ==
    \A w \in Workers :
        pc[w] \in {"check", "poll", "keepalive"} /\ holding[w] # None =>
            ready[holding[w]]

PlaceInv == OnePlace /\ Unaccepted /\ HolderRuns /\ KeepsAnswered /\ NotLost

LEMMA InitPlace == Init => PlaceInv
  BY ServiceAssumption
  DEF Init, PlaceInv, OnePlace, Unaccepted, HolderRuns, KeepsAnswered, NotLost,
      Queued, Held, Range, IsInjective

LEMMA OthersPlace ==
    ASSUME TypeInv, PlaceInv,
           \/ \E s \in Submissions : SubmitStep(s)
           \/ AcceptStep
           \/ RequestShutdown
           \/ StopStep
    PROVE  PlaceInv'
<1>. USE ServiceAssumption
     DEF PlaceInv, OnePlace, Unaccepted, HolderRuns, KeepsAnswered, NotLost,
         Queued, Held
<1>t. TypeOK /\ Creation
  BY DEF TypeInv
<1>1. ASSUME NEW s \in Submissions, Enqueue(s) PROVE PlaceInv'
  <2>1. /\ Range(queue') = Range(queue) \cup {s}
        /\ IsInjective(queue')
    BY <1>1, <1>t, AppendToQueue DEF Enqueue, TypeOK
  <2>. QED BY <1>1, <1>t, <2>1 DEF Enqueue, TypeOK
<1>2. ASSUME NEW s \in Submissions, Refuse(s) \/ Admit(s) PROVE PlaceInv'
  <2>1. \A r \in Submissions : request'[r] = "accepted" <=> request[r] = "accepted"
    BY <1>2, <1>t DEF Refuse, Admit, TypeOK
  <2>2. UNCHANGED <<ready, queue, holding, pc>>
    BY <1>2 DEF Refuse, Admit
  <2>. QED BY <2>1, <2>2
<1>3. CASE AcceptStep
  <2>1. UNCHANGED <<request, ready, queue, holding>>
    BY <1>3 DEF AcceptStep, CheckClosing, AcceptClosed, AcceptConnection,
                CreateWorker, Handshake, HandshakeFails, StartWorker, ListWorker
  <2>2. \A w \in Workers : pc'[w] # pc[w] => pc[w] \in {"none", "created"}
    BY <1>3, <1>t
    DEF AcceptStep, CheckClosing, AcceptClosed, AcceptConnection, CreateWorker,
        Handshake, HandshakeFails, StartWorker, ListWorker, Creation, TypeOK, Goto
  <2>3. \A w \in Workers : holding[w] # None => pc'[w] = pc[w]
    BY <2>2 DEF Running
  <2>. QED BY <2>1, <2>3
<1>4. CASE RequestShutdown \/ StopStep
  <2>1. UNCHANGED <<request, ready, queue, holding, pc>>
    BY <1>4 DEF RequestShutdown, StopStep, CloseSocket, LockList, UnlockList,
                AllGone, Stopped, SetStop, Interrupt
  <2>. QED BY <2>1
<1>. QED BY <1>1, <1>2, <1>3, <1>4 DEF SubmitStep

\* A running worker goes on, and nothing but that happens.
LEMMA WorkerGoesOn ==
    ASSUME TypeInv, PlaceInv, NEW w \in Workers,
           UNCHANGED <<request, ready, queue, holding>>,
           \A v \in Workers : v # w => pc'[v] = pc[v],
           pc'[w] \in Running \ {"leaving"},
           pc'[w] \in {"check", "poll", "keepalive"} /\ holding[w] # None =>
               ready[holding[w]]
    PROVE  PlaceInv'
<1>1. OnePlace' /\ Unaccepted'
  BY DEF PlaceInv, OnePlace, Unaccepted, Queued, Held
<1>2. HolderRuns'
  BY DEF PlaceInv, HolderRuns
<1>3. KeepsAnswered'
  BY DEF PlaceInv, KeepsAnswered
<1>4. NotLost'
  <2>. SUFFICES ASSUME NEW s \in Submissions, request[s] = "accepted", ~ready[s],
                       NEW v \in Workers, holding[v] = s,
                       pc[v] \in Running \ {"leaving"}
                PROVE  pc'[v] \in Running \ {"leaving"}
    BY DEF PlaceInv, NotLost, Queued
  <2>. QED OBVIOUS
<1>. QED BY <1>1, <1>2, <1>3, <1>4 DEF PlaceInv

LEMMA WorkerPlace ==
    ASSUME TypeInv, PlaceInv, NEW w \in Workers, WorkerStep(w)
    PROVE  PlaceInv'
<1>. USE ServiceAssumption
     DEF PlaceInv, OnePlace, Unaccepted, HolderRuns, KeepsAnswered, NotLost,
         Queued, Held, Running, Goto
<1>t. TypeOK /\ Claimed
  BY DEF TypeInv
<1>1. CASE CheckStop(w)
  BY <1>1, <1>t DEF CheckStop, TypeOK
<1>2. CASE PollTakes(w)
  <2>1. /\ Head(queue) \in Submissions
        /\ Range(queue') = Range(queue) \ {Head(queue)}
        /\ Head(queue) \in Range(queue)
        /\ IsInjective(queue')
    BY <1>2, <1>t, TakeFromQueue DEF PollTakes, TypeOK
  <2>. QED BY <1>2, <1>t, <2>1 DEF PollTakes, Claim, TypeOK
<1>3. CASE PollTimesOut(w)
  BY <1>3, <1>t DEF PollTimesOut, IdleOnce, TypeOK
<1>4. CASE PollInterrupted(w)
  <2>1. /\ UNCHANGED <<request, ready, queue, holding>>
        /\ pc[w] = "poll"
    BY <1>4 DEF PollInterrupted
  <2>2. /\ \A v \in Workers : v # w => pc'[v] = pc[v]
        /\ \/ pc'[w] \in {"exit", "claimed"}
           \/ pc'[w] \in {"check", "keepalive"} /\ holding[w] = None
    BY <1>4, <1>t DEF PollInterrupted, IdleOnce, Claim, TypeOK
  <2>. QED BY <2>1, <2>2, WorkerGoesOn
<1>5. CASE SendKeepalive(w)
  <2>1. /\ UNCHANGED <<request, ready, queue, holding>>
        /\ \A v \in Workers : v # w => pc'[v] = pc[v]
        /\ pc[w] = "keepalive"
        /\ pc'[w] \in {"check", "exit"}
    BY <1>5, <1>t DEF SendKeepalive, TypeOK
  <2>. QED BY <2>1, WorkerGoesOn
<1>6. CASE GiveUp(w)
  BY <1>6, <1>t DEF GiveUp, TypeOK
<1>7. CASE Attempt(w)
  BY <1>7, <1>t DEF Attempt, TypeOK
<1>8. CASE TestAnswered(w)
  BY <1>8, <1>t DEF TestAnswered, TypeOK
<1>9. CASE TestFails(w)
  BY <1>9, <1>t DEF TestFails, TypeOK
<1>10. CASE PutBack(w)
  <2>1. /\ holding[w] \in Submissions
        /\ Range(queue') = Range(queue) \cup {holding[w]}
        /\ IsInjective(queue')
    BY <1>10, <1>t, AppendToQueue DEF PutBack, TypeOK
  <2>. QED BY <1>10, <1>t, <2>1 DEF PutBack, TypeOK
<1>11. CASE PutBackInterrupted(w)
  BY <1>11, <1>t DEF PutBackInterrupted, TypeOK
<1>12. CASE NothingToPutBack(w)
  BY <1>12, <1>t DEF NothingToPutBack, TypeOK
<1>13. CASE Leave(w)
  BY <1>13, <1>t DEF Leave, TypeOK
<1>. QED BY <1>1, <1>2, <1>3, <1>4, <1>5, <1>6, <1>7, <1>8, <1>9,
            <1>10, <1>11, <1>12, <1>13 DEF WorkerStep

-----------------------------------------------------------------------------
(* What a submission that is ready has to show.                            *)

\* An attempt that is over has left a result or an error.
Attempted ==
    \A s \in Submissions :
        attempts[s] > 0 =>
            \/ result[s] \/ error[s]
            \/ \E w \in Workers : holding[w] = s /\ pc[w] = "testing"

ResultReady == \A s \in Submissions : result[s] => ready[s]

\* An answered submission that is still around was given up.
ReadyPlaced ==
    \A s \in Submissions :
        ready[s] /\ (Queued(s) \/ Held(s)) => attempts[s] >= MaxAttempts /\ error[s]

TestingOpen ==
    \A w \in Workers : pc[w] = "testing" => ~ready[holding[w]]

VerdictInv ==
    ReadyHasVerdict /\ Attempted /\ ResultReady /\ ReadyPlaced /\ TestingOpen

LEMMA InitVerdict == Init => VerdictInv
  BY ServiceAssumption
  DEF Init, VerdictInv, ReadyHasVerdict, Attempted, ResultReady, ReadyPlaced,
      TestingOpen

\* Nobody but a worker touches a submission it has seen, nor a busy worker.
LEMMA OthersVerdict ==
    ASSUME TypeInv, PlaceInv, VerdictInv,
           \/ \E s \in Submissions : SubmitStep(s)
           \/ AcceptStep
           \/ RequestShutdown
           \/ StopStep
    PROVE  VerdictInv'
<1>1. UNCHANGED <<futureVars, holding>>
  BY DEF SubmitStep, Refuse, Admit, Enqueue, AcceptStep, CheckClosing,
         AcceptClosed, AcceptConnection, CreateWorker, Handshake, HandshakeFails,
         StartWorker, ListWorker, RequestShutdown, StopStep, CloseSocket,
         LockList, UnlockList, AllGone, Stopped, SetStop, Interrupt
<1>2. \A w \in Workers : pc'[w] = "testing" <=> pc[w] = "testing"
  <2>1. CASE AcceptStep
    BY <2>1 DEF TypeInv, TypeOK, Creation, AcceptStep, CheckClosing, AcceptClosed,
                AcceptConnection, CreateWorker, Handshake, HandshakeFails,
                StartWorker, ListWorker, Goto
  <2>2. CASE ~AcceptStep
    BY <2>2 DEF SubmitStep, Refuse, Admit, Enqueue, RequestShutdown, StopStep,
                CloseSocket, LockList, UnlockList, AllGone, Stopped, SetStop,
                Interrupt
  <2>. QED BY <2>1, <2>2
<1>3. \A s \in Submissions : Queued(s)' => Queued(s) \/ ~ready[s]
  <2>1. ASSUME NEW r \in Submissions, Enqueue(r)
        PROVE  \A s \in Submissions : Queued(s)' => Queued(s) \/ ~ready[s]
    BY <2>1, AppendToQueue
    DEF Enqueue, Queued, TypeInv, TypeOK, PlaceInv, Unaccepted
  <2>2. CASE UNCHANGED queue
    BY <2>2 DEF Queued
  <2>. QED
    BY <2>1, <2>2
    DEF SubmitStep, Refuse, Admit, AcceptStep, CheckClosing,
        AcceptClosed, AcceptConnection, CreateWorker, Handshake, HandshakeFails,
        StartWorker, ListWorker, RequestShutdown, StopStep, CloseSocket,
        LockList, UnlockList, AllGone, Stopped, SetStop, Interrupt
<1>. QED
  BY <1>1, <1>2, <1>3
  DEF VerdictInv, ReadyHasVerdict, Attempted, ResultReady, ReadyPlaced,
      TestingOpen, Held

LEMMA WorkerVerdict ==
    ASSUME TypeInv, PlaceInv, VerdictInv, NEW w \in Workers, WorkerStep(w)
    PROVE  VerdictInv'
<1>. USE ServiceAssumption
     DEF VerdictInv, ReadyHasVerdict, Attempted, ResultReady, ReadyPlaced,
         TestingOpen, Queued, Held, Goto
<1>t. TypeOK /\ Claimed /\ OnePlace
  BY DEF TypeInv, PlaceInv
<1>1. CASE CheckStop(w)
  BY <1>1, <1>t DEF CheckStop, TypeOK
<1>2. CASE PollTakes(w)
  <2>1. /\ Head(queue) \in Range(queue)
        /\ Range(queue') \subseteq Range(queue)
    BY <1>2, <1>t, TakeFromQueue DEF PollTakes, TypeOK
  <2>. QED BY <1>2, <1>t, <2>1 DEF PollTakes, Claim, TypeOK
<1>3. CASE PollTimesOut(w)
  BY <1>3, <1>t DEF PollTimesOut, IdleOnce, TypeOK
<1>4. CASE PollInterrupted(w)
  BY <1>4, <1>t DEF PollInterrupted, IdleOnce, Claim, TypeOK
<1>5. CASE SendKeepalive(w)
  BY <1>5, <1>t DEF SendKeepalive, TypeOK
<1>6. CASE GiveUp(w)
  <2>. DEFINE s == holding[w]
  <2>1. s \in Submissions /\ pc[w] = "claimed" /\ attempts[s] >= MaxAttempts
    BY <1>6, <1>t DEF GiveUp, Claimed
  <2>2. attempts[s] > 0
    BY <2>1, <1>t DEF TypeOK
  <2>3. ~ \E v \in Workers : holding[v] = s /\ pc[v] = "testing"
    BY <2>1, <1>t DEF OnePlace
  <2>4. error[s]
    BY <2>1, <2>2, <2>3
  <2>. QED BY <1>6, <1>t, <2>1, <2>4 DEF GiveUp, TypeOK, OnePlace
<1>7. CASE Attempt(w)
  <2>1. holding[w] \in Submissions /\ ~ready[holding[w]]
    BY <1>7, <1>t DEF Attempt, Claimed, TypeOK
  <2>. QED BY <1>7, <1>t, <2>1 DEF Attempt, TypeOK
<1>8. CASE TestAnswered(w)
  <2>1. holding[w] \in Submissions
    BY <1>8, <1>t DEF TestAnswered, Claimed
  <2>. QED BY <1>8, <1>t, <2>1 DEF TestAnswered, TypeOK, OnePlace
<1>9. CASE TestFails(w)
  <2>1. holding[w] \in Submissions
    BY <1>9, <1>t DEF TestFails, Claimed
  <2>. QED BY <1>9, <1>t, <2>1 DEF TestFails, TypeOK, OnePlace
<1>10. CASE PutBack(w)
  <2>1. /\ holding[w] \in Submissions
        /\ Range(queue') = Range(queue) \cup {holding[w]}
    BY <1>10, <1>t, AppendToQueue DEF PutBack, TypeOK
  <2>. QED BY <1>10, <1>t, <2>1 DEF PutBack, TypeOK
<1>11. CASE PutBackInterrupted(w)
  <2>1. holding[w] \in Submissions
    BY <1>11, <1>t DEF PutBackInterrupted, TypeOK
  <2>. QED BY <1>11, <1>t, <2>1 DEF PutBackInterrupted, TypeOK, OnePlace
<1>12. CASE NothingToPutBack(w)
  BY <1>12, <1>t DEF NothingToPutBack, TypeOK
<1>13. CASE Leave(w)
  BY <1>13, <1>t DEF Leave, TypeOK
<1>. QED BY <1>1, <1>2, <1>3, <1>4, <1>5, <1>6, <1>7, <1>8, <1>9,
            <1>10, <1>11, <1>12, <1>13 DEF WorkerStep

-----------------------------------------------------------------------------
(* What the shutdown has told and awaited.                                 *)

\* A worker that was told to stop is listed until it exits.
ToldIsListed ==
    /\ \A w \in Workers : stop[w] => w \in listed \/ pc[w] = "done"
    /\ stopPc = "telling" => toStop \subseteq listed
    /\ \A w \in listed : pc[w] \in Running \cup {"done"}

ToldIsGone ==
    stopPc \in {"join", "stopped"} => \A w \in Workers : stop[w] => pc[w] = "done"

StopInv == ToldIsListed /\ ToldIsGone

LEMMA StopStepInv ==
    ASSUME TypeInv, StopInv, [Next]_vars
    PROVE  StopInv'
<1>. USE DEF StopInv, ToldIsListed, ToldIsGone, Goto, StopAt, LockFree
<1>t. TypeOK /\ Creation
  BY DEF TypeInv
<1>1. ASSUME NEW s \in Submissions, SubmitStep(s) PROVE StopInv'
  BY <1>1 DEF SubmitStep, Refuse, Admit, Enqueue
<1>2. CASE AcceptStep
  <2>1. CASE CheckClosing \/ AcceptClosed
    BY <2>1 DEF CheckClosing, AcceptClosed
  <2>2. ASSUME NEW w \in Workers, AcceptConnection(w) PROVE StopInv'
    BY <2>2 DEF AcceptConnection
  <2>3. ASSUME NEW w \in Workers, Handshake(w) \/ HandshakeFails(w) \/ StartWorker(w)
        PROVE  StopInv'
    <3>1. pc[w] \in {"none", "created"} /\ w \notin listed /\ ~stop[w]
      BY <2>3, <1>t DEF Handshake, HandshakeFails, StartWorker, Creation, Running
    <3>2. \A v \in Workers : v # w => pc'[v] = pc[v]
      BY <2>3, <1>t DEF Handshake, HandshakeFails, StartWorker, TypeOK
    <3>3. UNCHANGED <<listed, stopVars>>
      BY <2>3 DEF Handshake, HandshakeFails, StartWorker
    <3>. QED BY <3>1, <3>2, <3>3, <1>t DEF TypeOK
  <2>4. ASSUME NEW w \in Workers, ListWorker(w) PROVE StopInv'
    BY <2>4, <1>t DEF ListWorker, Creation
  <2>. QED BY <1>2, <2>1, <2>2, <2>3, <2>4 DEF AcceptStep, CreateWorker
<1>3. ASSUME NEW w \in Workers, WorkerStep(w) PROVE StopInv'
  <2>1. CASE Leave(w)
    BY <2>1, <1>t DEF Leave, TypeOK
  <2>2. CASE ~Leave(w)
    <3>1. /\ UNCHANGED <<listed, stopVars>>
          /\ pc[w] \in Running /\ pc'[w] \in Running
          /\ \A v \in Workers : v # w => pc'[v] = pc[v]
      BY <1>3, <2>2, <1>t
      DEF WorkerStep, CheckStop, PollTakes, Claim, PollTimesOut, IdleOnce,
          PollInterrupted, SendKeepalive, GiveUp, Attempt, TestAnswered, TestFails,
          PutBack, PutBackInterrupted, NothingToPutBack, TypeOK, Running
    <3>. QED BY <3>1, <1>t DEF Running, TypeOK
  <2>. QED BY <2>1, <2>2
<1>4. CASE RequestShutdown \/ StopStep
  <2>1. CASE RequestShutdown \/ CloseSocket \/ LockList \/ UnlockList \/ Stopped
    BY <2>1 DEF RequestShutdown, CloseSocket, LockList, UnlockList, Stopped
  <2>2. CASE AllGone
    BY <2>2 DEF AllGone
  <2>3. ASSUME NEW w \in Workers, SetStop(w) \/ Interrupt(w) PROVE StopInv'
    BY <2>3, <1>t DEF SetStop, Interrupt, TypeOK
  <2>. QED BY <1>4, <2>1, <2>2, <2>3 DEF StopStep
<1>5. CASE UNCHANGED vars
  BY <1>5 DEF vars
<1>. QED BY <1>1, <1>2, <1>3, <1>4, <1>5 DEF Next

-----------------------------------------------------------------------------
(* The inductive invariant and the safety theorems.                        *)

IInv == TypeInv /\ PlaceInv /\ VerdictInv /\ StopInv

LEMMA InitIInv == Init => IInv
<1>1. Init => StopInv
  BY DEF Init, StopInv, ToldIsListed, ToldIsGone
<1>. QED BY <1>1, InitType, InitPlace, InitVerdict DEF IInv

LEMMA NextIInv == IInv /\ [Next]_vars => IInv'
<1>. SUFFICES ASSUME IInv, [Next]_vars PROVE IInv'
  OBVIOUS
<1>. USE DEF IInv
<1>1. CASE UNCHANGED vars
  <2>1. TypeInv'
    BY <1>1 DEF vars, TypeInv, TypeOK, Creation, Claimed, IdleBound
  <2>2. PlaceInv'
    BY <1>1 DEF vars, PlaceInv, OnePlace, Unaccepted, HolderRuns, KeepsAnswered,
                NotLost, Queued, Held
  <2>3. VerdictInv'
    BY <1>1 DEF vars, VerdictInv, ReadyHasVerdict, Attempted, ResultReady,
                ReadyPlaced, TestingOpen, Queued, Held
  <2>. QED BY <2>1, <2>2, <2>3, StopStepInv
<1>2. CASE Next
  BY <1>2, OthersType, WorkerType, OthersPlace, WorkerPlace, OthersVerdict,
     WorkerVerdict, StopStepInv DEF Next
<1>. QED BY <1>1, <1>2

LEMMA InvariantHolds == Spec => []IInv
  BY InitIInv, NextIInv, PTL DEF Spec

\* Every variable of the service keeps its type, for any number of
\* submissions, workers and attempts.
THEOREM TypeCorrect == Spec => []TypeOK
<1>1. IInv => TypeOK
  BY DEF IInv, TypeInv
<1>. QED BY <1>1, InvariantHolds, PTL

\* No submission is ever in two places, however workers come, fail and go.
THEOREM SubmissionInOnePlace == Spec => []OnePlace
<1>1. IInv => OnePlace
  BY DEF IInv, PlaceInv
<1>. QED BY <1>1, InvariantHolds, PTL

\* A submission the service has accepted is not lost before it is answered.
THEOREM SubmissionNotLost == Spec => []NotLost
<1>1. IInv => NotLost
  BY DEF IInv, PlaceInv
<1>. QED BY <1>1, InvariantHolds, PTL

\* The contract of setReady holds, although WorkerTask calls it on giving up
\* without setting a result or an error itself.
THEOREM ReadyHasResultOrError == Spec => []ReadyHasVerdict
<1>1. IInv => ReadyHasVerdict
  BY DEF IInv, VerdictInv
<1>. QED BY <1>1, InvariantHolds, PTL

\* The shutdown returns only after all the workers it told have exited.
THEOREM ShutdownWaits == Spec => []StopWaitsForTold
<1>1. IInv => StopWaitsForTold
  BY DEF IInv, StopInv, ToldIsGone, StopWaitsForTold
<1>. QED BY <1>1, InvariantHolds, PTL

-----------------------------------------------------------------------------
(* The service implements SubmissionFuture.                                *)

\* An answer stays what it is: a submission that is ready is given up again at
\* most, and it already has the error that is then set once more.
LEMMA WorkerKeepsAnswers ==
    ASSUME IInv, NEW w \in Workers, WorkerStep(w), NEW s \in Submissions, ready[s]
    PROVE  ready'[s] /\ error'[s] = error[s]
<1>t. TypeOK
  BY DEF IInv, TypeInv
<1>1. CASE TestFails(w)
  BY <1>1, <1>t DEF TestFails, IInv, VerdictInv, TestingOpen, TypeOK
<1>2. CASE PutBackInterrupted(w)
  BY <1>2, <1>t
  DEF PutBackInterrupted, IInv, VerdictInv, ReadyPlaced, Held, TypeOK
<1>3. CASE GiveUp(w) \/ TestAnswered(w)
  BY <1>3, <1>t DEF GiveUp, TestAnswered, TypeOK
<1>4. CASE ~(TestFails(w) \/ PutBackInterrupted(w) \/ GiveUp(w) \/ TestAnswered(w))
  BY <1>4, <1>t
  DEF WorkerStep, CheckStop, PollTakes, PollTimesOut, PollInterrupted,
      SendKeepalive, Attempt, PutBack, NothingToPutBack, Leave, TypeOK
<1>. QED BY <1>1, <1>2, <1>3, <1>4

\* A worker makes no more than one submission ready in a step, the one it holds.
LEMMA WorkerAnswersOne ==
    ASSUME IInv, NEW w \in Workers, WorkerStep(w),
           NEW s \in Submissions, ready'[s] # ready[s]
    PROVE  /\ holding[w] = s
           /\ request[s] = "accepted"
           /\ ~ready[s] /\ ready'[s]
           /\ \A r \in Submissions : r # s => ready'[r] = ready[r] /\ error'[r] = error[r]
<1>t. TypeOK
  BY DEF IInv, TypeInv
<1>1. GiveUp(w) \/ TestAnswered(w) \/ PutBackInterrupted(w)
  BY DEF WorkerStep, CheckStop, PollTakes, PollTimesOut, PollInterrupted,
         SendKeepalive, Attempt, TestFails, PutBack, NothingToPutBack, Leave
<1>2. holding[w] = s
  BY <1>1, <1>t DEF GiveUp, TestAnswered, PutBackInterrupted, TypeOK
<1>3. request[s] = "accepted"
  BY <1>2 DEF IInv, PlaceInv, Unaccepted, Held
<1>4. ready'[s] /\ ~ready[s]
  BY <1>1, <1>2, <1>t DEF GiveUp, TestAnswered, PutBackInterrupted, TypeOK
<1>5. \A r \in Submissions : r # s => ready'[r] = ready[r] /\ error'[r] = error[r]
  BY <1>1, <1>2, <1>t DEF GiveUp, TestAnswered, PutBackInterrupted, TypeOK
<1>. QED BY <1>2, <1>3, <1>4, <1>5

\* What a caller sees of s after a step is what it saw before, unless the step
\* is one of submitAsync or an answer.
LEMMA StepIsFutureStep ==
    ASSUME IInv, Next
    PROVE  Future!Next \/ UNCHANGED Future!vars
<1>. DEFINE f == [s \in Submissions |-> FutureOf(s)]
<1>t. TypeOK /\ Unaccepted
  BY DEF IInv, TypeInv, PlaceInv
<1>1. ASSUME NEW s \in Submissions, SubmitStep(s)
      PROVE  Future!Next \/ UNCHANGED Future!vars
  <2>. UNCHANGED futureVars
    BY <1>1 DEF SubmitStep, Refuse, Admit, Enqueue
  <2>1. CASE Refuse(s)
    <3>1. FutureOf(s) = "new" /\ FutureOf(s)' = "refused"
      BY <2>1, <1>t DEF Refuse, FutureOf, TypeOK
    <3>2. \A r \in Submissions : r # s => FutureOf(r)' = FutureOf(r)
      BY <2>1, <1>t DEF Refuse, FutureOf, Poll, TypeOK
    <3>. QED BY <3>1, <3>2 DEF Future!Next, Future!Refuse
  <2>2. CASE Admit(s)
    <3>1. \A r \in Submissions : FutureOf(r)' = FutureOf(r)
      BY <2>2, <1>t DEF Admit, FutureOf, Poll, TypeOK
    <3>. QED BY <3>1 DEF Future!vars
  <2>3. CASE Enqueue(s)
    <3>1. FutureOf(s) = "new" /\ FutureOf(s)' = "pending"
      BY <2>3, <1>t DEF Enqueue, FutureOf, Poll, Unaccepted, TypeOK
    <3>2. \A r \in Submissions : r # s => FutureOf(r)' = FutureOf(r)
      BY <2>3, <1>t DEF Enqueue, FutureOf, Poll, TypeOK
    <3>. QED BY <3>1, <3>2 DEF Future!Next, Future!Accept
  <2>. QED BY <1>1, <2>1, <2>2, <2>3 DEF SubmitStep
<1>2. ASSUME NEW w \in Workers, WorkerStep(w)
      PROVE  Future!Next \/ UNCHANGED Future!vars
  <2>1. UNCHANGED request
    BY <1>2 DEF WorkerStep, CheckStop, PollTakes, PollTimesOut, PollInterrupted,
                SendKeepalive, GiveUp, Attempt, TestAnswered, TestFails, PutBack,
                PutBackInterrupted, NothingToPutBack, Leave
  <2>2. CASE \E s \in Submissions : ready'[s] # ready[s]
    <3>1. PICK s \in Submissions : ready'[s] # ready[s]
      BY <2>2
    <3>2. /\ request[s] = "accepted" /\ ~ready[s] /\ ready'[s]
          /\ \A r \in Submissions : r # s => ready'[r] = ready[r] /\ error'[r] = error[r]
      BY <1>2, <3>1, WorkerAnswersOne
    <3>3. FutureOf(s) = "pending" /\ FutureOf(s)' \in {"result", "error"}
      BY <3>2, <2>1 DEF FutureOf, Poll
    <3>4. \A r \in Submissions : r # s => FutureOf(r)' = FutureOf(r)
      BY <3>2, <2>1 DEF FutureOf, Poll
    <3>5. PICK a \in {"result", "error"} : FutureOf(s)' = a
      BY <3>3
    <3>6. Future!Answer(s, a)
      BY <3>3, <3>4, <3>5 DEF Future!Answer
    <3>. QED BY <3>6 DEF Future!Next, Future!Answers
  <2>3. CASE \A s \in Submissions : ready'[s] = ready[s]
    <3>1. \A s \in Submissions : FutureOf(s)' = FutureOf(s)
      BY <1>2, <2>1, <2>3, WorkerKeepsAnswers DEF FutureOf, Poll
    <3>. QED BY <3>1 DEF Future!vars
  <2>. QED BY <2>2, <2>3
<1>3. CASE AcceptStep \/ RequestShutdown \/ StopStep
  <2>1. UNCHANGED <<request, futureVars>>
    BY <1>3 DEF AcceptStep, CheckClosing, AcceptClosed, AcceptConnection,
                CreateWorker, Handshake, HandshakeFails, StartWorker, ListWorker,
                RequestShutdown, StopStep, CloseSocket, LockList, UnlockList,
                AllGone, Stopped, SetStop, Interrupt
  <2>. QED BY <2>1 DEF Future!vars, FutureOf, Poll
<1>. QED BY <1>1, <1>2, <1>3 DEF Next

\* For its callers the service, with all its threads, is a SubmissionFuture:
\* every request is refused or answered at most once, and for good.
THEOREM ServiceImplementsFuture == Spec => ImplementsFuture
<1>1. Init => Future!Init
  BY DEF Init, Future!Init, FutureOf
<1>2. IInv /\ [Next]_vars => [Future!Next]_(Future!vars)
  <2>. SUFFICES ASSUME IInv, [Next]_vars PROVE Future!Next \/ UNCHANGED Future!vars
    OBVIOUS
  <2>1. CASE UNCHANGED vars
    BY <2>1 DEF vars, Future!vars, FutureOf, Poll
  <2>. QED BY <2>1, StepIsFutureStep
<1>. QED BY <1>1, <1>2, InvariantHolds, PTL DEF Spec, ImplementsFuture, Future!Spec
=============================================================================
