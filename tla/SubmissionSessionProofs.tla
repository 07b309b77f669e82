------------------------ MODULE SubmissionSessionProofs ------------------------
(***************************************************************************)
(* For any number of pages, problems, submissions and logouts, and any     *)
(* order in which a logout removes the attributes: a submission is tested  *)
(* as the problem of its page, and what a page shows has a receipt.        *)
(***************************************************************************)
EXTENDS SubmissionSession, SequenceTheorems, TLAPS

\* What the local variables of a thread hold at each point.
LocalInv ==
    \A v \in Pages :
        /\ thread[v] = "submitAsync" => problem[v] = problemOf[v]
        /\ thread[v] \in {"readFuture", "readText", "poll", "clearFuture", "clearText"} =>
               problem[v] \in Problems
        /\ thread[v] \in {"setFuture", "setText", "poll", "clearFuture", "clearText"} =>
               pending[v] \in Submissions
        /\ thread[v] \in {"poll", "clearFuture", "clearText"} =>
               fullText[v] \in Submissions

\* Page v has a receipt for the result of s.
Recorded(v, s) == \E r \in receipts : r.page = v /\ r.result = s

\* A thread that clears the session has seen an answer, and recorded a result.
RecordInv ==
    \A v \in Pages : thread[v] \in {"clearFuture", "clearText"} =>
        /\ tested[pending[v]] # "none"
        /\ tested[pending[v]] = "result" => Recorded(v, pending[v])

SessionInv ==
    /\ TypeOK
    /\ LocalInv
    /\ TestedAsIntended
    /\ RecordInv
    /\ ResultsRecorded

-----------------------------------------------------------------------------
LEMMA SessionInvInit == Init => SessionInv
PROOF
  <1> SUFFICES ASSUME Init PROVE SessionInv
    OBVIOUS
  <1>1. TypeOK
    BY SessionAssumption DEF Init, TypeOK, PageStates, ThreadStates, None
  <1>2. LocalInv /\ RecordInv
    BY DEF Init, LocalInv, RecordInv
  <1>3. TestedAsIntended
    BY DEF Init, TestedAsIntended
  <1>4. ResultsRecorded
    BY DEF Init, ResultsRecorded
  <1> QED BY <1>1, <1>2, <1>3, <1>4 DEF SessionInv


\* The returned call of page v leaves nothing behind.
LEMMA ReturnStep ==
    ASSUME TypeOK, LocalInv, RecordInv, NEW v \in Pages, NEW st \in PageStates,
           Return(v, st), UNCHANGED problemOf,
           tested' = tested, receipts \subseteq receipts'
    PROVE  /\ page' \in [Pages -> PageStates]
           /\ thread' \in [Pages -> ThreadStates]
           /\ problem' \in [Pages -> Problems \cup {NoProblem}]
           /\ pending' \in [Pages -> 0..MaxSubmissions]
           /\ fullText' \in [Pages -> 0..MaxSubmissions]
           /\ LocalInv'
           /\ RecordInv'
PROOF
  <1>1. /\ page' \in [Pages -> PageStates]
        /\ thread' \in [Pages -> ThreadStates]
        /\ problem' \in [Pages -> Problems \cup {NoProblem}]
        /\ pending' \in [Pages -> 0..MaxSubmissions]
        /\ fullText' \in [Pages -> 0..MaxSubmissions]
    BY SessionAssumption DEF TypeOK, Return, Start, ThreadStates, None
  <1>2. /\ thread'[v] = "idle"
        /\ \A w \in Pages \ {v} : /\ thread'[w] = thread[w] /\ problem'[w] = problem[w]
                                  /\ pending'[w] = pending[w]
                                  /\ fullText'[w] = fullText[w]
    BY DEF TypeOK, Return, Start
  <1>3. LocalInv'
    BY <1>2 DEF LocalInv
  <1>4. RecordInv'
    BY <1>2 DEF RecordInv, Recorded
  <1> QED BY <1>1, <1>3, <1>4

\* What was accepted, shown and recorded stays so while others go on.
LEMMA StoresKept ==
    ASSUME TestedAsIntended, ResultsRecorded,
           UNCHANGED <<futures, problemOf, shown>>, receipts \subseteq receipts'
    PROVE  TestedAsIntended' /\ ResultsRecorded'
PROOF
  BY DEF TestedAsIntended, ResultsRecorded

\* The client starts a call.
LEMMA ClientStep ==
    ASSUME SessionInv, NEW v \in Pages, Open(v) \/ PressSubmit(v) \/ PollTimer(v)
    PROVE  SessionInv'
PROOF
  <1> USE DEF Open, PressSubmit, PollTimer, Start, pageVars, localVars, sessionVars,
              loginVars, storeVars
  <1>1. TypeOK'
    BY DEF SessionInv, TypeOK, PageStates, ThreadStates
  <1>2. /\ thread'[v] \in {"setProblem", "submit", "check"}
        /\ \A w \in Pages \ {v} : thread'[w] = thread[w]
        /\ UNCHANGED <<localVars, storeVars, problemOf, shown>>
    BY DEF SessionInv, TypeOK
  <1>3. LocalInv' /\ RecordInv'
    BY <1>2 DEF SessionInv, LocalInv, RecordInv, Recorded
  <1>4. TestedAsIntended' /\ ResultsRecorded'
    BY <1>2, StoresKept DEF SessionInv
  <1> QED BY <1>1, <1>3, <1>4 DEF SessionInv

\* setProblem.
LEMMA SetProblemStep ==
    ASSUME SessionInv, NEW v \in Pages,
           Authenticate(v) \/ SetProblem(v) \/ GetOrAddReceipt(v)
    PROVE  SessionInv'
PROOF
  <1> USE DEF SessionInv
  <1>1. CASE Authenticate(v) /\ Proceed(v, "putProblem") /\ UNCHANGED localVars
    <2> USE <1>1 DEF Authenticate, Proceed, Start, localVars, sessionVars, loginVars,
                     storeVars
    <2>1. TypeOK'
      BY DEF TypeOK, ThreadStates
    <2>2. LocalInv' /\ RecordInv'
      BY DEF TypeOK, LocalInv, RecordInv, Recorded
    <2> QED BY <2>1, <2>2, StoresKept
  <1>2. CASE Authenticate(v) /\ Return(v, "expired")
    <2>1. UNCHANGED <<problemOf, shown, sessionVars, loginVars, storeVars>>
      BY <1>2 DEF Authenticate
    <2>2. TypeOK' /\ LocalInv' /\ RecordInv'
      BY <1>2, <2>1, ReturnStep
         DEF TypeOK, PageStates, sessionVars, loginVars, storeVars
    <2> QED BY <2>1, <2>2, StoresKept DEF storeVars
  <1>3. CASE SetProblem(v)
    <2> USE <1>3 DEF SetProblem, Start, pageVars, localVars, loginVars, storeVars
    <2>1. TypeOK'
      BY DEF TypeOK, ThreadStates
    <2>2. LocalInv' /\ RecordInv'
      BY DEF TypeOK, LocalInv, RecordInv, Recorded
    <2> QED BY <2>1, <2>2, StoresKept
  <1>4. CASE GetOrAddReceipt(v)
    <2>1. /\ UNCHANGED <<problemOf, shown, sessionVars, loginVars, futures, tested>>
          /\ Return(v, "editing")
          /\ receipts \subseteq receipts'
          /\ receipts' \subseteq Receipt \cup Started
      BY <1>4 DEF GetOrAddReceipt, TypeOK, Started
    <2>2. TypeOK' /\ LocalInv' /\ RecordInv'
      BY <2>1, ReturnStep DEF TypeOK, PageStates, sessionVars, loginVars
    <2> QED BY <2>1, <2>2, StoresKept
  <1> QED BY <1>1, <1>2, <1>3, <1>4 DEF Authenticate

\* submit.
LEMMA SubmitStep ==
    ASSUME SessionInv, NEW v \in Pages,
           CheckProblem(v) \/ SubmitAsync(v) \/ SetFuture(v) \/ SetText(v)
    PROVE  SessionInv'
PROOF
  <1> USE DEF SessionInv
  <1>1. CASE CheckProblem(v) /\ ~Return(v, "expired")
    <2>1. /\ sessionProblem = problemOf[v]
          /\ problem' = [problem EXCEPT ![v] = sessionProblem]
          /\ thread' = [thread EXCEPT ![v] = "submitAsync"]
          /\ UNCHANGED <<page, pending, fullText, problemOf, shown, sessionVars,
                         loginVars, storeVars>>
      BY <1>1 DEF CheckProblem, Proceed, Start
    <2> USE <2>1 DEF sessionVars, loginVars, storeVars
    <2>2. TypeOK'
      BY DEF TypeOK, ThreadStates
    <2>3. LocalInv' /\ RecordInv'
      BY DEF TypeOK, LocalInv, RecordInv, Recorded
    <2> QED BY <2>2, <2>3, StoresKept
  <1>2. CASE CheckProblem(v) /\ Return(v, "expired")
    <2>1. UNCHANGED <<problemOf, shown, sessionVars, loginVars, storeVars>>
      BY <1>2 DEF CheckProblem
    <2>2. TypeOK' /\ LocalInv' /\ RecordInv'
      BY <1>2, <2>1, ReturnStep
         DEF TypeOK, PageStates, sessionVars, loginVars, storeVars
    <2> QED BY <2>1, <2>2, StoresKept DEF storeVars
  <1>3. CASE SubmitAsync(v) /\ ~Return(v, "stuck")
    <2> DEFINE new == [owner |-> v, problem |-> problem[v]]
    <2>1. /\ thread[v] = "submitAsync"
          /\ Len(futures) < MaxSubmissions
          /\ futures' = Append(futures, new)
          /\ pending' = [pending EXCEPT ![v] = Len(futures) + 1]
          /\ thread' = [thread EXCEPT ![v] = "setFuture"]
          /\ UNCHANGED <<page, problem, fullText, problemOf, shown, sessionVars,
                         loginVars, tested, receipts>>
      BY <1>3 DEF SubmitAsync, Proceed, Start
    <2>2. problem[v] = problemOf[v] /\ new \in Submission
      BY <2>1 DEF LocalInv, TypeOK, Submission
    <2>3. /\ futures' \in Seq(Submission)
          /\ Len(futures') = Len(futures) + 1
          /\ \A i \in 1..Len(futures) : futures'[i] = futures[i]
          /\ futures'[Len(futures) + 1] = new
          /\ Len(futures) \in Nat
          /\ Len(futures) + 1 \in Submissions
      BY <2>1, <2>2, AppendProperties, LenProperties, SessionAssumption
         DEF TypeOK, Submissions
    <2>4. TypeOK'
      BY <2>1, <2>3, SessionAssumption
         DEF TypeOK, ThreadStates, Submissions, sessionVars, loginVars
    <2>5. LocalInv' /\ RecordInv'
      BY <2>1, <2>3 DEF TypeOK, LocalInv, RecordInv, Recorded
    <2>6. \A i \in 1..Len(futures') : i \in 1..Len(futures) \/ i = Len(futures) + 1
      BY <2>3
    <2>7. TestedAsIntended'
      BY <2>1, <2>2, <2>3, <2>6 DEF TestedAsIntended
    <2>8. ResultsRecorded'
      BY <2>1 DEF ResultsRecorded
    <2> QED BY <2>4, <2>5, <2>7, <2>8
  <1>4. CASE SubmitAsync(v) /\ Return(v, "stuck")
    <2>1. UNCHANGED <<problemOf, shown, sessionVars, loginVars, tested, receipts>>
      BY <1>4 DEF SubmitAsync
    <2>2. UNCHANGED futures
      <3>1. CASE Proceed(v, "setFuture")
        BY <1>4, <3>1 DEF Proceed, Return, Start, TypeOK, ThreadStates
      <3> QED BY <1>4, <3>1 DEF SubmitAsync
    <2>3. TypeOK' /\ LocalInv' /\ RecordInv'
      BY <1>4, <2>1, <2>2, ReturnStep DEF TypeOK, PageStates, sessionVars, loginVars
    <2> QED BY <2>1, <2>2, <2>3, StoresKept
  <1>5. CASE SetFuture(v)
    <2> USE <1>5 DEF SetFuture, Start, pageVars, localVars, loginVars, storeVars
    <2>1. TypeOK'
      BY DEF TypeOK, ThreadStates
    <2>2. LocalInv' /\ RecordInv'
      BY DEF TypeOK, LocalInv, RecordInv, Recorded
    <2> QED BY <2>1, <2>2, StoresKept
  <1>6. CASE SetText(v)
    <2>1. /\ Return(v, "polling")
          /\ sessionText' = pending[v]
          /\ UNCHANGED <<problemOf, shown, sessionProblem, sessionFuture, loginVars,
                         storeVars>>
      BY <1>6 DEF SetText
    <2>2. TypeOK' /\ LocalInv' /\ RecordInv'
      BY <2>1, ReturnStep DEF TypeOK, PageStates, loginVars, storeVars
    <2> QED BY <2>1, <2>2, StoresKept DEF storeVars
  <1> QED BY <1>1, <1>2, <1>3, <1>4, <1>5, <1>6

\* checkSubmission, up to the reply that there is nothing yet.
LEMMA ReadStep ==
    ASSUME SessionInv, NEW v \in Pages, ReadProblem(v) \/ ReadFuture(v) \/ ReadText(v)
    PROVE  SessionInv'
PROOF
  <1> USE DEF SessionInv
  <1>1. CASE ReadProblem(v) /\ ~Return(v, "expired")
    <2>1. /\ sessionProblem # NoProblem
          /\ problem' = [problem EXCEPT ![v] = sessionProblem]
          /\ thread' = [thread EXCEPT ![v] = "readFuture"]
          /\ UNCHANGED <<page, pending, fullText, problemOf, shown, sessionVars,
                         loginVars, storeVars>>
      BY <1>1 DEF ReadProblem, Proceed, Start
    <2> USE <2>1 DEF sessionVars, loginVars, storeVars
    <2>2. TypeOK'
      BY DEF TypeOK, ThreadStates
    <2>3. LocalInv' /\ RecordInv'
      BY DEF TypeOK, LocalInv, RecordInv, Recorded
    <2> QED BY <2>2, <2>3, StoresKept
  <1>2. CASE ReadProblem(v) /\ Return(v, "expired")
    <2>1. UNCHANGED <<problemOf, shown, sessionVars, loginVars, storeVars>>
      BY <1>2 DEF ReadProblem
    <2>2. TypeOK' /\ LocalInv' /\ RecordInv'
      BY <1>2, <2>1, ReturnStep
         DEF TypeOK, PageStates, sessionVars, loginVars, storeVars
    <2> QED BY <2>1, <2>2, StoresKept DEF storeVars
  <1>3. CASE ReadFuture(v)
    <2> USE <1>3 DEF ReadFuture, Start, pageVars, sessionVars, loginVars, storeVars
    <2>1. TypeOK'
      BY DEF TypeOK, ThreadStates
    <2>2. LocalInv' /\ RecordInv'
      BY DEF TypeOK, LocalInv, RecordInv, Recorded
    <2> QED BY <2>1, <2>2, StoresKept
  <1>4. CASE ReadText(v) /\ ~Return(v, "stuck")
    <2>1. /\ thread[v] = "readText"
          /\ None \notin {pending[v], sessionText}
          /\ fullText' = [fullText EXCEPT ![v] = sessionText]
          /\ thread' = [thread EXCEPT ![v] = "poll"]
          /\ UNCHANGED <<page, problem, pending, problemOf, shown, sessionVars,
                         loginVars, storeVars>>
      BY <1>4 DEF ReadText, Proceed, Start
    <2>2. pending[v] \in Submissions /\ sessionText \in Submissions
      BY <2>1, SessionAssumption DEF TypeOK, Submissions, None
    <2> USE <2>1, <2>2 DEF sessionVars, loginVars, storeVars
    <2>3. TypeOK'
      BY DEF TypeOK, ThreadStates
    <2>4. LocalInv' /\ RecordInv'
      BY DEF TypeOK, LocalInv, RecordInv, Recorded
    <2> QED BY <2>3, <2>4, StoresKept
  <1>5. CASE ReadText(v) /\ Return(v, "stuck")
    <2>1. UNCHANGED <<problemOf, shown, sessionVars, loginVars, storeVars>>
      BY <1>5 DEF ReadText
    <2>2. TypeOK' /\ LocalInv' /\ RecordInv'
      BY <1>5, <2>1, ReturnStep
         DEF TypeOK, PageStates, sessionVars, loginVars, storeVars
    <2> QED BY <2>1, <2>2, StoresKept DEF storeVars
  <1> QED BY <1>1, <1>2, <1>3, <1>4, <1>5

\* The submission is polled: its result gets a receipt.
LEMMA PollStep ==
    ASSUME SessionInv, NEW v \in Pages, Poll(v)
    PROVE  SessionInv'
PROOF
  <1> USE DEF SessionInv
  <1> DEFINE new == [page |-> v, problem |-> problem[v],
                     text |-> fullText[v], result |-> pending[v]]
  <1>1. /\ problem[v] \in Problems /\ pending[v] \in Submissions
        /\ new \in Receipt
    BY DEF Poll, LocalInv, Receipt
  <1>2. /\ receipts' = IF tested[pending[v]] # "result" THEN receipts
                       ELSE receipts \cup {new}
        /\ UNCHANGED <<problemOf, shown, sessionVars, loginVars, futures, tested>>
    BY DEF Poll
  <1>3. receipts \subseteq receipts' /\ receipts' \subseteq Receipt \cup Started
    BY <1>1, <1>2 DEF TypeOK
  <1>4. tested[pending[v]] = "result" =>
            \E r \in receipts' : r.page = v /\ r.result = pending[v]
    <2>1. new.page = v /\ new.result = pending[v]
      OBVIOUS
    <2> QED BY <1>2, <2>1
  <1>5. CASE Return(v, page[v])
    <2>1. page[v] \in PageStates
      BY DEF TypeOK
    <2>2. TypeOK' /\ LocalInv' /\ RecordInv'
      BY <1>2, <1>3, <1>5, <2>1, ReturnStep DEF TypeOK, sessionVars, loginVars
    <2> QED BY <1>2, <1>3, <2>2, StoresKept
  <1>6. CASE ~Return(v, page[v])
    <2>1. /\ tested[pending[v]] # "none"
          /\ thread[v] = "poll"
          /\ thread' = [thread EXCEPT ![v] = "clearFuture"]
          /\ UNCHANGED <<page, problem, pending, fullText>>
      BY <1>6 DEF Poll, Proceed, Start, localVars
    <2>2. TypeOK'
      BY <1>2, <1>3, <2>1 DEF TypeOK, ThreadStates, sessionVars, loginVars
    <2>3. LocalInv'
      BY <1>2, <2>1 DEF TypeOK, LocalInv
    <2>4. RecordInv'
      BY <1>2, <1>3, <1>4, <2>1 DEF TypeOK, RecordInv, Recorded
    <2> QED BY <1>2, <1>3, <2>2, <2>3, <2>4, StoresKept
  <1> QED BY <1>5, <1>6

\* The session is cleared, and the page shows the result.
LEMMA ClearStep ==
    ASSUME SessionInv, NEW v \in Pages, ClearFuture(v) \/ ClearText(v)
    PROVE  SessionInv'
PROOF
  <1> USE DEF SessionInv
  <1>1. CASE ClearFuture(v)
    <2> USE <1>1 DEF ClearFuture, Start, pageVars, localVars, loginVars, storeVars
    <2>1. TypeOK'
      BY SessionAssumption DEF TypeOK, ThreadStates, None
    <2>2. LocalInv' /\ RecordInv'
      BY DEF TypeOK, LocalInv, RecordInv, Recorded
    <2> QED BY <2>1, <2>2, StoresKept
  <1>2. CASE ClearText(v)
    <2>1. /\ thread[v] = "clearText" /\ sessionText' = None
          /\ UNCHANGED <<problemOf, sessionProblem, sessionFuture, loginVars, storeVars>>
      BY <1>2 DEF ClearText
    <2>2. PICK st \in {"editing", "stuck"} :
              /\ Return(v, st)
              /\ \/ /\ tested[pending[v]] = "result"
                    /\ shown' = [shown EXCEPT ![v] = pending[v]]
                 \/ UNCHANGED shown
      BY <1>2 DEF ClearText
    <2>3. st \in PageStates
      BY DEF PageStates
    <2>4. TypeOK' /\ LocalInv' /\ RecordInv'
      BY <2>1, <2>2, <2>3, ReturnStep, SessionAssumption
         DEF TypeOK, None, loginVars, storeVars
    <2>5. TestedAsIntended'
      BY <2>1 DEF TestedAsIntended, storeVars
    <2>6. tested[pending[v]] = "result" => Recorded(v, pending[v])
      BY <2>1 DEF RecordInv
    <2>7. ASSUME NEW w \in Pages, shown'[w] # None
          PROVE  \E r \in receipts' : r.page = w /\ r.result = shown'[w]
      <3>1. CASE shown'[w] = shown[w]
        BY <2>1, <2>7, <3>1 DEF ResultsRecorded, storeVars
      <3>2. CASE shown'[w] # shown[w]
        <4>1. w = v /\ shown'[w] = pending[v] /\ tested[pending[v]] = "result"
          BY <2>2, <3>2 DEF TypeOK
        <4> QED BY <2>1, <2>6, <4>1 DEF Recorded, storeVars
      <3> QED BY <3>1, <3>2
    <2>8. ResultsRecorded'
      BY <2>7 DEF ResultsRecorded
    <2> QED BY <2>4, <2>5, <2>8
  <1> QED BY <1>1, <1>2

\* The submit service: an answer stays.
LEMMA TestStep ==
    ASSUME SessionInv, NEW s \in Submissions, NEW r \in {"result", "error"}, Test(s, r)
    PROVE  SessionInv'
PROOF
  <1> USE DEF SessionInv, Test, pageVars, localVars, sessionVars, loginVars
  <1>1. TypeOK'
    BY DEF TypeOK
  <1>2. LocalInv'
    BY DEF LocalInv
  <1>3. \A u \in Submissions : tested[u] # "none" => tested'[u] = tested[u]
    BY DEF TypeOK
  <1>4. RecordInv'
    BY <1>3 DEF RecordInv, LocalInv, Recorded
  <1> QED BY <1>1, <1>2, <1>4, StoresKept

\* Logout and login touch the session only.
LEMMA LoginStep ==
    ASSUME SessionInv, Logout \/ RemoveAttribute \/ Login
    PROVE  SessionInv'
PROOF
  <1> USE DEF SessionInv
  <1>1. UNCHANGED <<pageVars, thread, localVars, storeVars>>
    BY DEF Logout, RemoveAttribute, Login
  <1>2. LocalInv' /\ RecordInv'
    BY <1>1 DEF LocalInv, RecordInv, Recorded, pageVars, localVars, storeVars
  <1>3. TestedAsIntended' /\ ResultsRecorded'
    BY <1>1, StoresKept DEF pageVars, storeVars
  <1>4. CASE Logout
    <2>1. /\ removing' = Present
          /\ logouts \in Nat /\ MaxLogouts \in Nat
          /\ logouts < MaxLogouts /\ logouts' = logouts + 1
          /\ UNCHANGED <<sessionUser, sessionVars>>
      BY <1>4, SessionAssumption DEF Logout, TypeOK
    <2>2. Present \subseteq Attributes
      BY DEF Present, Attributes
    <2>3. logouts' \in 0..MaxLogouts
      BY <2>1
    <2>4. TypeOK'
      BY <1>1, <2>1, <2>2, <2>3
         DEF TypeOK, pageVars, localVars, sessionVars, storeVars
    <2> QED BY <1>2, <1>3, <2>4
  <1>5. CASE Login
    <2>1. TypeOK'
      BY <1>1, <1>5 DEF Login, TypeOK, pageVars, localVars, sessionVars, storeVars
    <2> QED BY <1>2, <1>3, <2>1
  <1>6. CASE RemoveAttribute
    <2>1. /\ removing' \subseteq removing /\ sessionUser' \in BOOLEAN
          /\ sessionProblem' \in {sessionProblem, NoProblem}
          /\ sessionFuture' \in {sessionFuture, None}
          /\ sessionText' \in {sessionText, None}
          /\ UNCHANGED logouts
      BY <1>6 DEF RemoveAttribute
    <2>2. TypeOK'
      BY <1>1, <2>1, SessionAssumption
         DEF TypeOK, None, pageVars, localVars, storeVars
    <2> QED BY <1>2, <1>3, <2>2
  <1> QED BY <1>4, <1>5, <1>6

-----------------------------------------------------------------------------
\* The invariant that carries the others, of all threads on one session.
THEOREM SessionInvariant == Spec => []SessionInv
PROOF
  <1>1. SessionInv /\ [Next]_vars => SessionInv'
    <2> SUFFICES ASSUME SessionInv, [Next]_vars PROVE SessionInv'
      OBVIOUS
    <2>1. ASSUME NEW v \in Pages,
                 Open(v) \/ PressSubmit(v) \/ PollTimer(v) \/ Serve(v)
          PROVE  SessionInv'
      BY <2>1, ClientStep, SetProblemStep, SubmitStep, ReadStep, PollStep, ClearStep
         DEF Serve
    <2>2. ASSUME NEW s \in Submissions, NEW r \in {"result", "error"}, Test(s, r)
          PROVE  SessionInv'
      BY <2>2, TestStep
    <2>3. CASE Logout \/ RemoveAttribute \/ Login
      BY <2>3, LoginStep
    <2>4. CASE UNCHANGED vars
      BY <2>4 DEF vars, pageVars, localVars, sessionVars, loginVars, storeVars,
                  SessionInv, TypeOK, LocalInv, RecordInv, Recorded,
                  TestedAsIntended, ResultsRecorded
    <2> QED BY <2>1, <2>2, <2>3, <2>4 DEF Next
  <1> QED BY <1>1, SessionInvInit, PTL DEF Spec

\* The variables of pages, threads, session and database keep their types.
THEOREM SessionTypes == Spec => []TypeOK
PROOF
  <1>1. SessionInv => TypeOK
    BY DEF SessionInv
  <1> QED BY <1>1, SessionInvariant, PTL

\* For any number of pages and logouts, a submission is tested as the problem of
\* the page it comes from.
THEOREM AlwaysTestedAsIntended == Spec => []TestedAsIntended
PROOF
  <1>1. SessionInv => TestedAsIntended
    BY DEF SessionInv
  <1> QED BY <1>1, SessionInvariant, PTL

\* For any number of pages and logouts, what a page shows has a receipt of its own.
THEOREM AlwaysRecorded == Spec => []ResultsRecorded
PROOF
  <1>1. SessionInv => ResultsRecorded
    BY DEF SessionInv
  <1> QED BY <1>1, SessionInvariant, PTL

================================================================================
