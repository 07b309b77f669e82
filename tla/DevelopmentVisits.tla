-------------------------- MODULE DevelopmentVisits --------------------------
(***************************************************************************)
(* Leaving a DevelopmentPage and coming back to the same problem.          *)
(* deactivate() cancels the subscriptions of the page and removes its      *)
(* change list from the session of the client.  It stops no timer and      *)
(* withdraws no call, and their handlers still look for the change list,   *)
(* and on the server for the submission, where those of the next visit     *)
(* are by then.                                                            *)
(*                                                                         *)
(* The variables of DevelopmentPage are those of the page that is open.    *)
(* The left* variables are what goes on of the page that was left.         *)
(***************************************************************************)
EXTENDS DevelopmentPage

VARIABLES
    visit,          \* "first", "away" or "second"
    leftMode, leftReadOnly, leftOnClean, leftText, leftList,
    leftFlushing, leftPollTimer, leftChecking,
    leftCall, leftSubmitted, leftLoaded, leftDialog,
    overtaken,      \* history: a call of the page that was left changed what is
                    \* or will be stored after the next visit had begun
    taken           \* history: the page that was left received the result that
                    \* the page that is open is waiting for

leftPageVars == <<leftMode, leftReadOnly, leftOnClean, leftText, leftList>>
leftTimerVars == <<leftFlushing, leftPollTimer, leftChecking>>
leftCallVars == <<leftCall, leftSubmitted, leftLoaded>>
leftVars == <<leftPageVars, leftTimerVars, leftCallVars, leftDialog>>
historyVars == <<overtaken, taken>>
visitVars == <<visit, leftVars, historyVars>>
allVars == <<vars, visitVars>>

Left == INSTANCE DevelopmentPage WITH
    mode <- leftMode, readOnly <- leftReadOnly, onClean <- leftOnClean,
    text <- leftText, list <- leftList,
    flushing <- leftFlushing, pollTimer <- leftPollTimer, checking <- leftChecking,
    call <- leftCall, submitted <- leftSubmitted, loaded <- leftLoaded,
    dialog <- leftDialog

VisitsTypeOK ==
    /\ TypeOK
    /\ Left!TypeOK
    /\ visit \in {"first", "away", "second"}
    /\ {overtaken, taken} \subseteq BOOLEAN

-----------------------------------------------------------------------------
CleanList == [state |-> "CLEAN", unsent |-> <<>>, inTransmission |-> <<>>]
NoCalls == [c \in Calls |-> "idle"]
NothingLoaded == [doc |-> Empty, isNew |-> FALSE]

VisitsInit ==
    /\ Init
    /\ visit = "first"
    /\ leftMode = "LOADING" /\ leftReadOnly = TRUE /\ leftOnClean = "none"
    /\ leftText = Empty /\ leftList = CleanList
    /\ leftFlushing = FALSE /\ leftPollTimer = "absent" /\ leftChecking = FALSE
    /\ leftCall = NoCalls /\ leftSubmitted = Empty /\ leftLoaded = NothingLoaded
    /\ leftDialog = "none"
    /\ overtaken = FALSE /\ taken = FALSE

\* The page that is open.  To bound the model, a page is left only while nothing
\* has failed, and nothing fails afterwards.
Page ==
    /\ \/ User \/ Timers \/ Handlers \/ Tested \/ Replies
       \/ visit = "first" /\ (Login \/ Resume \/ Faults)
    /\ UNCHANGED visitVars

\* Mutant: the next visit finds the change list of this one.
LeaveList ==
    /\ visit = "first" /\ failures = 0 /\ expiries = 0
    /\ visit' = "away"
    /\ leftMode' = mode /\ leftReadOnly' = readOnly /\ leftOnClean' = onClean
    /\ leftText' = text /\ leftList' = list
    /\ leftFlushing' = flushing /\ leftPollTimer' = pollTimer
    /\ leftChecking' = checking
    /\ leftCall' = call /\ leftSubmitted' = submitted /\ leftLoaded' = loaded
    /\ leftDialog' = dialog
    /\ mode' = "LOADING" /\ readOnly' = TRUE /\ onClean' = "none" /\ text' = Empty
    /\ flushing' = FALSE /\ pollTimer' = "absent" /\ checking' = FALSE
    /\ call' = NoCalls /\ submitted' = Empty /\ loaded' = NothingLoaded
    /\ UNCHANGED <<list, historyVars, dialog, serverVars, countVars>>

\* changePage: deactivate() of the page, which is as it was but for the session.
Leave ==
    /\ visit = "first" /\ failures = 0 /\ expiries = 0
    /\ visit' = "away"
    /\ leftMode' = mode /\ leftReadOnly' = readOnly /\ leftOnClean' = onClean
    /\ leftText' = text /\ leftList' = list
    /\ leftFlushing' = flushing /\ leftPollTimer' = pollTimer
    /\ leftChecking' = checking
    /\ leftCall' = call /\ leftSubmitted' = submitted /\ leftLoaded' = loaded
    /\ leftDialog' = dialog
    /\ mode' = "LOADING" /\ readOnly' = TRUE /\ onClean' = "none" /\ text' = Empty
    /\ list' = CleanList
    /\ flushing' = FALSE /\ pollTimer' = "absent" /\ checking' = FALSE
    /\ call' = NoCalls /\ submitted' = Empty /\ loaded' = NothingLoaded
    /\ UNCHANGED <<historyVars, dialog, serverVars, countVars>>

\* The user chooses the problem again: activate() of a new page.
Return ==
    /\ visit = "away"
    /\ visit' = "second"
    /\ call' = [call EXCEPT !["setProblem"] = "sent"]
    /\ UNCHANGED <<leftVars, historyVars, pageVars, timerVars, submitted, loaded,
                   dialog, serverVars, countVars>>

-----------------------------------------------------------------------------
(* The page that was left.                                                 *)

\* Its flush timer finds the change list of the next visit.
LeftFlushTimer ==
    /\ leftFlushing /\ visit = "second"
    /\ list.state = "UNSENT"
    /\ list' = BeginTransmit(list)
    /\ call' = [call EXCEPT !["log"] = "sent"]
    /\ UNCHANGED <<mode, readOnly, onClean, text, timerVars, submitted, loaded,
                   dialog, serverVars, countVars, visitVars>>

\* The text it was loading: a new problem's text becomes a change of the next
\* visit.  Between the visits there is no list, and the handler throws.
LeftTextLoaded ==
    /\ leftCall["load"] = "ok"
    /\ leftCall' = [leftCall EXCEPT !["load"] = "idle"]
    /\ LET initial == leftLoaded.isNew /\ leftLoaded.doc # Empty /\ visit = "second"
       IN  /\ list' = IF initial THEN AddChange(list, FullText(leftLoaded.doc)) ELSE list
           /\ overtaken' = (overtaken \/ initial)
    /\ leftMode' = "EDITING" /\ leftReadOnly' = FALSE /\ leftText' = leftLoaded.doc
    /\ UNCHANGED <<visit, taken, leftOnClean, leftList, leftTimerVars, leftSubmitted,
                   leftLoaded, leftDialog, mode, readOnly, onClean, text, timerVars,
                   callVars, dialog, serverVars, countVars>>

\* The server carries out a call that stores something.
LeftStores ==
    /\ \/ Left!LogChange
       \/ Left!Submit /\ failures' = failures
    /\ overtaken' = (overtaken \/ visit = "second")
    /\ UNCHANGED <<visit, taken, pageVars, timerVars, callVars, dialog>>

\* It asks for the result of the submission in the session, whosever that is.
LeftChecks ==
    /\ Left!CheckSubmission /\ failures' = failures
    /\ taken' = \/ taken
                \/ /\ future = "ready"
                   /\ mode = "IN_PROGRESS" /\ call["submit"] # "sent"
    /\ UNCHANGED <<visit, overtaken, pageVars, timerVars, callVars, dialog>>

\* Its other calls, their replies, and its poll timer.
LeftGoesOn ==
    /\ \/ Left!PollTimer
       \/ Left!SetProblem \/ Left!LoadCurrentText
       \/ Left!ProblemApproved \/ Left!ChangesLoggedUnheard
       \/ Left!SubmissionAccepted
       \/ Left!ResultReceived \/ Left!NoResultYet \/ Left!CheckFailed
    /\ UNCHANGED <<visit, historyVars, pageVars, timerVars, callVars, dialog>>

VisitsNext ==
    \/ Page \/ Leave \/ Return
    \/ LeftFlushTimer \/ LeftTextLoaded \/ LeftStores \/ LeftChecks \/ LeftGoesOn

VisitsSpec == VisitsInit /\ [][VisitsNext]_allVars

(* The fairness of DevelopmentPage, for the page that is open.             *)

OnPage(A) == A /\ UNCHANGED visitVars

VisitsFairSpec ==
    /\ VisitsSpec
    /\ WF_allVars(OnPage(FlushTimer)) /\ WF_allVars(OnPage(PollTimer))
    /\ \A c \in Calls : /\ WF_allVars(OnPage(Handlers) /\ call'[c] # call[c])
                        /\ WF_allVars(OnPage(Replies) /\ call'[c] # call[c])
    /\ WF_allVars(OnPage(Tested)) /\ WF_allVars(OnPage(Login))
    /\ WF_allVars(OnPage(Resume))

-----------------------------------------------------------------------------
\* A page shows what is stored, on the next visit as on the first, unless a call
\* of the page that was left is carried out after the next visit has begun.
RevisitShowsSaved == overtaken \/ SavedIsShown

\* A change leads from the text that is stored to one the editor has shown: leaving
\* the page loses the last changes, and never some from among the others.
StoredWasShown == failures = 0 /\ ~overtaken => doc # Garbled

\* What is tested is stored already, on the next visit as on the first.
InSyncUnlessOvertaken ==
    [][call["submit"] = "sent" /\ call'["submit"] = "ok" /\ failures = 0
           => overtaken \/ doc = submitted]_allVars

\* Every submission and every reset of a page comes to its end, unless a call fails,
\* the session ends, or the poll timer of the page that was left takes the result:
\* the session has one submission, and the first timer to ask for it gets it.
CallbackCompletesUnlessTaken ==
    onClean # "none" ~> onClean = "none" \/ failures > 0 \/ expiries > 0 \/ taken
=============================================================================
