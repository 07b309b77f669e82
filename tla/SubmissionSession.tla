-------------------------- MODULE SubmissionSession --------------------------
(***************************************************************************)
(* The pages of one user and the HttpSession they share.  A page that was  *)
(* left keeps its timers, and a browser may show pages in several tabs, so *)
(* that several pages submit and poll at the same time.  The server runs   *)
(* each call in a thread of its own, and a thread reads and writes the     *)
(* attributes of the session one by one: USER_KEY, PROBLEM_KEY, the future *)
(* and the full-text change of the pending submission.  logout() does not  *)
(* invalidate the session but removes its attributes, so that calls that   *)
(* are under way may put some back.                                        *)
(*                                                                         *)
(* A page has at most one call under way: setProblem, then submit, then    *)
(* checkSubmission over and over.  Submissions are numbered.  What a page  *)
(* does when it has to log in again is in DevelopmentPage.                 *)
(***************************************************************************)
EXTENDS Naturals, Sequences, SequencesExt

CONSTANTS
    Pages,
    Problems,
    NoProblem,          \* the session has no problem yet
    MaxSubmissions,     \* bound: submissions the submit service accepts
    MaxLogouts,         \* bound: times the user logs out
    Openings,           \* bound: what the pages may be about
    AttributeOrder      \* the order in which the container lists the attributes

Attributes == {"user", "problem", "future", "fullText"}

ASSUME SessionAssumption ==
    /\ {MaxSubmissions, MaxLogouts} \subseteq Nat
    /\ NoProblem \notin Problems
    /\ Openings \subseteq [Pages -> Problems]
    /\ AttributeOrder \in SetToSeqs(Attributes)

None == 0               \* no submission
Submissions == 1..MaxSubmissions

VARIABLES
    \* the client
    page,               \* what each page is doing
    problemOf,          \* the problem each page is about
    shown,              \* the submission whose result a page shows
    \* the threads of the server, one for the call of each page
    thread,             \* where it is
    problem, pending, fullText,     \* its local variables
    \* the session and what is behind it
    sessionUser,        \* the user is logged in
    sessionProblem, sessionFuture, sessionText,
    removing, logouts,  \* the attributes that logout has yet to remove
    futures,            \* the submissions accepted so far
    tested,             \* those with a result or an error: "none", "result", "error"
    receipts

pageVars == <<page, problemOf, shown>>
localVars == <<problem, pending, fullText>>
sessionVars == <<sessionProblem, sessionFuture, sessionText>>
loginVars == <<sessionUser, removing, logouts>>
storeVars == <<futures, tested, receipts>>
vars == <<pageVars, thread, localVars, sessionVars, loginVars, storeVars>>

PageStates == {"closed", "opening", "editing", "submitting", "polling", "stuck", "expired"}
ThreadStates ==
    {"idle", "setProblem", "putProblem", "getOrAddReceipt",
     "submit", "submitAsync", "setFuture", "setText",
     "check", "readFuture", "readText", "poll", "clearFuture", "clearText"}

Submission == [owner : Pages, problem : Problems]
Receipt == [page : Pages, problem : Problems, text : Submissions, result : Submissions]
Started == [page : Pages, problem : Problems, text : {None}, result : {None}]

TypeOK ==
    /\ page \in [Pages -> PageStates]
    /\ problemOf \in [Pages -> Problems]
    /\ thread \in [Pages -> ThreadStates]
    /\ problem \in [Pages -> Problems \cup {NoProblem}]
    /\ pending \in [Pages -> 0..MaxSubmissions]
    /\ fullText \in [Pages -> 0..MaxSubmissions]
    /\ shown \in [Pages -> 0..MaxSubmissions]
    /\ sessionProblem \in Problems \cup {NoProblem}
    /\ sessionFuture \in 0..MaxSubmissions
    /\ sessionText \in 0..MaxSubmissions
    /\ sessionUser \in BOOLEAN
    /\ removing \subseteq Attributes
    /\ logouts \in 0..MaxLogouts
    /\ futures \in Seq(Submission)
    /\ tested \in [Submissions -> {"none", "result", "error"}]
    /\ receipts \subseteq Receipt \cup Started

Init ==
    /\ page = [v \in Pages |-> "closed"]
    /\ problemOf \in Openings
    /\ thread = [v \in Pages |-> "idle"]
    /\ problem = [v \in Pages |-> NoProblem]
    /\ pending = [v \in Pages |-> None]
    /\ fullText = [v \in Pages |-> None]
    /\ shown = [v \in Pages |-> None]
    /\ sessionProblem = NoProblem
    /\ sessionFuture = None
    /\ sessionText = None
    /\ sessionUser = TRUE /\ removing = {} /\ logouts = 0
    /\ futures = <<>>
    /\ tested = [s \in Submissions |-> "none"]
    /\ receipts = {}

-----------------------------------------------------------------------------
(* The pages.                                                              *)

Start(v, t) == thread' = [thread EXCEPT ![v] = t]

\* The user opens a page, which calls setProblem.
Open(v) ==
    /\ page[v] = "closed"
    /\ sessionUser /\ removing = {}
    /\ page' = [page EXCEPT ![v] = "opening"]
    /\ Start(v, "setProblem")
    /\ UNCHANGED <<problemOf, shown, localVars, sessionVars, loginVars, storeVars>>

\* The user presses Submit.
PressSubmit(v) ==
    /\ page[v] = "editing"
    /\ page' = [page EXCEPT ![v] = "submitting"]
    /\ Start(v, "submit")
    /\ UNCHANGED <<problemOf, shown, localVars, sessionVars, loginVars, storeVars>>

\* The poll timer of a page, shown or left.
PollTimer(v) ==
    /\ page[v] = "polling"
    /\ thread[v] = "idle"
    /\ Start(v, "check")
    /\ UNCHANGED <<pageVars, localVars, sessionVars, loginVars, storeVars>>

-----------------------------------------------------------------------------
(* The server.                                                             *)

\* The call is over, with its local variables, and the page goes on in state st.
Return(v, st) ==
    /\ Start(v, "idle")
    /\ page' = [page EXCEPT ![v] = st]
    /\ problem' = [problem EXCEPT ![v] = NoProblem]
    /\ pending' = [pending EXCEPT ![v] = None]
    /\ fullText' = [fullText EXCEPT ![v] = None]

\* The call goes on.
Proceed(v, t) == Start(v, t) /\ UNCHANGED page

\* Every call begins with checkClientIsAuthenticated.  submit and checkSubmission
\* read the problem at once after it; both fail in the same way.
Authenticate(v) ==
    /\ thread[v] = "setProblem"
    /\ \/ sessionUser /\ Proceed(v, "putProblem") /\ UNCHANGED localVars
       \/ ~sessionUser /\ Return(v, "expired")
    /\ UNCHANGED <<problemOf, shown, sessionVars, loginVars, storeVars>>

SetProblem(v) ==
    /\ thread[v] = "putProblem"
    /\ sessionProblem' = problemOf[v]
    /\ Start(v, "getOrAddReceipt")
    /\ UNCHANGED <<pageVars, localVars, sessionFuture, sessionText, loginVars, storeVars>>

\* getOrAddLatestSubmissionReceipt makes a receipt unless there is one.
GetOrAddReceipt(v) ==
    /\ thread[v] = "getOrAddReceipt"
    /\ receipts' =
         IF \E r \in receipts : r.problem = problemOf[v] THEN receipts
         ELSE receipts \cup
                {[page |-> v, problem |-> problemOf[v], text |-> None, result |-> None]}
    /\ Return(v, "editing")
    /\ UNCHANGED <<problemOf, shown, sessionVars, loginVars, futures, tested>>

\* Mutant: any problem in the session will do.
CheckProblemAny(v) ==
    /\ thread[v] = "submit"
    /\ LET allowed == sessionUser /\ sessionProblem # NoProblem
       IN  \/ /\ allowed
              /\ problem' = [problem EXCEPT ![v] = sessionProblem]
              /\ Proceed(v, "submitAsync") /\ UNCHANGED <<pending, fullText>>
           \/ ~allowed /\ Return(v, "expired")
    /\ UNCHANGED <<problemOf, shown, sessionVars, loginVars, storeVars>>

\* submit compares the problem of the session with the one it is asked for.
CheckProblem(v) ==
    /\ thread[v] = "submit"
    /\ LET allowed == sessionUser /\ sessionProblem = problemOf[v]
       IN  \/ /\ allowed
              /\ problem' = [problem EXCEPT ![v] = sessionProblem]
              /\ Proceed(v, "submitAsync") /\ UNCHANGED <<pending, fullText>>
           \/ ~allowed /\ Return(v, "expired")
    /\ UNCHANGED <<problemOf, shown, sessionVars, loginVars, storeVars>>

\* The submit service accepts the submission, or throws.
SubmitAsync(v) ==
    /\ thread[v] = "submitAsync"
    /\ \/ /\ Len(futures) < MaxSubmissions
          /\ futures' = Append(futures, [owner |-> v, problem |-> problem[v]])
          /\ pending' = [pending EXCEPT ![v] = Len(futures) + 1]
          /\ Proceed(v, "setFuture")
          /\ UNCHANGED <<problem, fullText>>
       \/ Return(v, "stuck") /\ UNCHANGED futures
    /\ UNCHANGED <<problemOf, shown, sessionVars, loginVars, tested, receipts>>

SetFuture(v) ==
    /\ thread[v] = "setFuture"
    /\ sessionFuture' = pending[v]
    /\ Start(v, "setText")
    /\ UNCHANGED <<pageVars, localVars, sessionProblem, sessionText, loginVars, storeVars>>

SetText(v) ==
    /\ thread[v] = "setText"
    /\ sessionText' = pending[v]
    /\ Return(v, "polling")
    /\ UNCHANGED <<problemOf, shown, sessionProblem, sessionFuture, loginVars, storeVars>>

\* checkSubmission takes the problem, the future and the text from the session.
ReadProblem(v) ==
    /\ thread[v] = "check"
    /\ LET allowed == sessionUser /\ sessionProblem # NoProblem
       IN  \/ /\ allowed
              /\ problem' = [problem EXCEPT ![v] = sessionProblem]
              /\ Proceed(v, "readFuture") /\ UNCHANGED <<pending, fullText>>
           \/ ~allowed /\ Return(v, "expired")
    /\ UNCHANGED <<problemOf, shown, sessionVars, loginVars, storeVars>>

ReadFuture(v) ==
    /\ thread[v] = "readFuture"
    /\ pending' = [pending EXCEPT ![v] = sessionFuture]
    /\ Start(v, "readText")
    /\ UNCHANGED <<pageVars, problem, fullText, sessionVars, loginVars, storeVars>>

\* Mutants: the text is not checked; a missing submission is one not yet tested.
ReadTextUnchecked(v) ==
    /\ thread[v] = "readText"
    /\ \/ pending[v] = None /\ Return(v, "stuck")
       \/ /\ pending[v] # None
          /\ fullText' = [fullText EXCEPT ![v] = sessionText]
          /\ Proceed(v, "poll") /\ UNCHANGED <<problem, pending>>
    /\ UNCHANGED <<problemOf, shown, sessionVars, loginVars, storeVars>>

ReadTextPatient(v) ==
    /\ thread[v] = "readText"
    /\ \/ None \in {pending[v], sessionText} /\ Return(v, page[v])
       \/ /\ None \notin {pending[v], sessionText}
          /\ fullText' = [fullText EXCEPT ![v] = sessionText]
          /\ Proceed(v, "poll") /\ UNCHANGED <<problem, pending>>
    /\ UNCHANGED <<problemOf, shown, sessionVars, loginVars, storeVars>>

\* Without a future or a text it throws, and the page stops polling.
ReadText(v) ==
    /\ thread[v] = "readText"
    /\ \/ None \in {pending[v], sessionText} /\ Return(v, "stuck")
       \/ /\ None \notin {pending[v], sessionText}
          /\ fullText' = [fullText EXCEPT ![v] = sessionText]
          /\ Proceed(v, "poll") /\ UNCHANGED <<problem, pending>>
    /\ UNCHANGED <<problemOf, shown, sessionVars, loginVars, storeVars>>

\* Mutant: no receipt is made.
PollOnly(v) ==
    /\ thread[v] = "poll"
    /\ \/ tested[pending[v]] = "none" /\ Return(v, page[v])
       \/ tested[pending[v]] # "none" /\ Proceed(v, "clearFuture") /\ UNCHANGED localVars
    /\ UNCHANGED <<problemOf, shown, sessionVars, loginVars, storeVars>>

\* future.poll(), and the receipt for a result.
Poll(v) ==
    /\ thread[v] = "poll"
    /\ \/ tested[pending[v]] = "none" /\ Return(v, page[v])
       \/ tested[pending[v]] # "none" /\ Proceed(v, "clearFuture") /\ UNCHANGED localVars
    /\ receipts' =
         IF tested[pending[v]] # "result" THEN receipts
         ELSE receipts \cup {[page |-> v, problem |-> problem[v],
                              text |-> fullText[v], result |-> pending[v]]}
    /\ UNCHANGED <<problemOf, shown, sessionVars, loginVars, futures, tested>>

ClearFuture(v) ==
    /\ thread[v] = "clearFuture"
    /\ sessionFuture' = None
    /\ Start(v, "clearText")
    /\ UNCHANGED <<pageVars, localVars, sessionProblem, sessionText, loginVars, storeVars>>

\* The result is returned, or the error thrown: then the page stays locked.
ClearText(v) ==
    /\ thread[v] = "clearText"
    /\ sessionText' = None
    /\ \/ /\ tested[pending[v]] = "result"
          /\ Return(v, "editing")
          /\ shown' = [shown EXCEPT ![v] = pending[v]]
       \/ /\ tested[pending[v]] = "error"
          /\ Return(v, "stuck")
          /\ UNCHANGED shown
    /\ UNCHANGED <<problemOf, sessionProblem, sessionFuture, loginVars, storeVars>>

\* The submit service finishes a submission (see SubmitService).
Test(s, r) ==
    /\ s <= Len(futures)
    /\ tested[s] = "none"
    /\ tested' = [tested EXCEPT ![s] = r]
    /\ UNCHANGED <<pageVars, thread, localVars, sessionVars, loginVars, futures,
                   receipts>>

-----------------------------------------------------------------------------
(* LoginServiceImpl.                                                       *)

Present == {"user"}
    \cup (IF sessionProblem # NoProblem THEN {"problem"} ELSE {})
    \cup (IF sessionFuture # None THEN {"future"} ELSE {})
    \cup (IF sessionText # None THEN {"fullText"} ELSE {})

\* logout takes the names of the attributes there are, ...
Logout ==
    /\ sessionUser /\ removing = {}
    /\ logouts < MaxLogouts
    /\ logouts' = logouts + 1
    /\ removing' = Present
    /\ UNCHANGED <<pageVars, thread, localVars, sessionUser, sessionVars, storeVars>>

\* ... and removes them one by one.
RemoveAttribute ==
    /\ \E i \in DOMAIN AttributeOrder :
        LET a == AttributeOrder[i]
        IN  /\ a \in removing
            /\ \A j \in 1..(i - 1) : AttributeOrder[j] \notin removing
            /\ removing' = removing \ {a}
            /\ sessionUser' = (sessionUser /\ a # "user")
            /\ sessionProblem' = IF a = "problem" THEN NoProblem ELSE sessionProblem
            /\ sessionFuture' = IF a = "future" THEN None ELSE sessionFuture
            /\ sessionText' = IF a = "fullText" THEN None ELSE sessionText
    /\ UNCHANGED <<pageVars, thread, localVars, logouts, storeVars>>

\* The user logs in again, to the same session.
Login ==
    /\ ~sessionUser /\ removing = {}
    /\ sessionUser' = TRUE
    /\ UNCHANGED <<pageVars, thread, localVars, sessionVars, removing, logouts, storeVars>>

Serve(v) ==
    \/ Authenticate(v)
    \/ SetProblem(v) \/ GetOrAddReceipt(v)
    \/ CheckProblem(v) \/ SubmitAsync(v) \/ SetFuture(v) \/ SetText(v)
    \/ ReadProblem(v) \/ ReadFuture(v) \/ ReadText(v) \/ Poll(v)
    \/ ClearFuture(v) \/ ClearText(v)

Next ==
    \/ \E v \in Pages : Open(v) \/ PressSubmit(v) \/ PollTimer(v) \/ Serve(v)
    \/ \E s \in Submissions, r \in {"result", "error"} : Test(s, r)
    \/ Logout \/ RemoveAttribute \/ Login

Spec == Init /\ [][Next]_vars

\* The timers fire, the threads run, and every submission is tested in the end.
FairSpec ==
    /\ Spec
    /\ \A v \in Pages : WF_vars(PollTimer(v) \/ Serve(v))
    /\ WF_vars(\E s \in Submissions, r \in {"result", "error"} : Test(s, r))

-----------------------------------------------------------------------------
\* A submission is tested as the problem of the page it comes from, whatever
\* other pages have put into the session meanwhile.
TestedAsIntended ==
    \A s \in 1..Len(futures) : futures[s].problem = problemOf[futures[s].owner]

\* A result that a page shows has a receipt, made by the call that returned it,
\* although other calls clear the session at any time.
ResultsRecorded ==
    \A v \in Pages : shown[v] # None => \E r \in receipts : r.page = v /\ r.result = shown[v]

\* A page that polls stops: with its result, with another page's, or with an
\* error.  Nobody polls for ever because others have taken what it waits for.
PollingEnds == \A v \in Pages : page[v] = "polling" ~> page[v] # "polling"

\* SubmitServiceImpl.java:134: the result is for the problem of the receipt.
ReceiptForItsProblem ==
    \A r \in receipts : r.result # None => r.problem = futures[r.result].problem
=============================================================================
