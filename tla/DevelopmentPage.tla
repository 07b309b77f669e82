--------------------------- MODULE DevelopmentPage ---------------------------
(***************************************************************************)
(* One visit to a DevelopmentPage of the client, with the part of the      *)
(* server that answers it: EditCodeServiceImpl, SubmitServiceImpl, and the *)
(* HttpSession of the user.  The page loads a text, lets the user edit it, *)
(* flushes the changes, and runs a callback (a submission or a reset) when *)
(* the change list is clean.                                               *)
(*                                                                         *)
(* JavaScript runs one handler at a time, so each handler is one step.     *)
(* The calls of the page are independent of each other: any of them can be *)
(* carried out, answered or fail before any other.                         *)
(*                                                                         *)
(* A text is a number that stands for its contents.  A change is the text  *)
(* it was made in and the text it led to, or a full text.                  *)
(***************************************************************************)
EXTENDS Naturals, Sequences, SequencesExt

CONSTANTS
    MaxEdits,       \* bound: edits of the user
    MaxPresses,     \* bound: times the user presses Submit or confirms Reset
    MaxFailures,    \* bound: calls and builds that fail
    MaxExpiries,    \* bound: times the server forgets the session
    UserWaits       \* the user presses no button before the text is loaded

ASSUME PageAssumption ==
    /\ {MaxEdits, MaxPresses, MaxFailures, MaxExpiries} \subseteq Nat
    /\ UserWaits \in BOOLEAN

VARIABLES
    \* the page
    mode, readOnly, onClean,
    text,           \* what the editor shows
    list,           \* the ChangeList
    flushing,       \* the flush timer has been started
    pollTimer, checking,
    \* the calls of the page
    call,           \* the state of each call
    submitted,      \* the text submit carries
    loaded,         \* the reply of loadCurrentText
    dialog,         \* the dialog of an expired session
    \* the server
    loggedIn, problemSet, future,
    doc, changed,   \* the text the stored changes lead to, and if there are any
    skeleton,       \* the initial text of the problem
    \* how often bounded things have happened
    edits, presses, failures, expiries

pageVars == <<mode, readOnly, onClean, text, list>>
timerVars == <<flushing, pollTimer, checking>>
callVars == <<call, submitted, loaded>>
sessionVars == <<loggedIn, problemSet, future>>
docVars == <<doc, changed, skeleton>>
serverVars == <<sessionVars, docVars>>
countVars == <<edits, presses, failures, expiries>>
vars == <<pageVars, timerVars, callVars, dialog, serverVars, countVars>>

Empty == 0
Skeleton == 1
Earlier == 2        \* a text of an earlier visit
Garbled == 3        \* what a change leads to in a text it was not made in
Texts == 0..(3 + MaxEdits)

Changes == [full : BOOLEAN, from : Texts, to : Texts]
Calls == {"setProblem", "load", "log", "submit", "check"}
Lists == [state : {"CLEAN", "UNSENT", "TRANSMISSION"},
          unsent : Seq(Changes), inTransmission : Seq(Changes)]
CallStates == {"idle", "sent", "ok", "pending", "auth", "failed", "expired"}

TypeOK ==
    /\ mode \in {"LOADING", "EDITING", "PENDING", "IN_PROGRESS"}
    /\ onClean \in {"none", "submit", "reset"}
    /\ text \in Texts
    /\ list \in Lists
    /\ {readOnly, flushing, checking} \subseteq BOOLEAN
    /\ pollTimer \in {"absent", "stopped", "running"}
    /\ call \in [Calls -> CallStates]
    /\ submitted \in Texts
    /\ loaded \in [doc : Texts, isNew : BOOLEAN]
    /\ dialog \in {"none", "login", "resume"}
    /\ {loggedIn, problemSet, changed} \subseteq BOOLEAN
    /\ future \in {"none", "pending", "ready"}
    /\ doc \in Texts
    /\ skeleton \in {Empty, Skeleton}
    /\ edits \in 0..MaxEdits /\ presses \in 0..MaxPresses
    /\ failures \in 0..MaxFailures /\ expiries \in 0..MaxExpiries

-----------------------------------------------------------------------------
(* The change list, and what its changes do to a text.                     *)

FullText(t) == [full |-> TRUE, from |-> Empty, to |-> t]
Edited(s, t) == [full |-> FALSE, from |-> s, to |-> t]

AddChange(l, c) ==
    [l EXCEPT !.unsent = Append(@, c),
              !.state = IF @ = "CLEAN" THEN "UNSENT" ELSE @]

BeginTransmit(l) ==
    [state |-> "TRANSMISSION", unsent |-> <<>>,
     inTransmission |-> l.inTransmission \o l.unsent]

\* Mutant: what was sent is kept.
EndTransmitSuccessKept(l) ==
    [l EXCEPT !.state = IF l.unsent = <<>> THEN "CLEAN" ELSE "UNSENT"]

EndTransmitSuccess(l) ==
    [l EXCEPT !.inTransmission = <<>>,
              !.state = IF l.unsent = <<>> THEN "CLEAN" ELSE "UNSENT"]

EndTransmitFailure(l) ==
    [state |-> "UNSENT", inTransmission |-> l.unsent,
     unsent |-> l.inTransmission \o l.unsent]

Apply(t, c) ==
    CASE c.full -> c.to
      [] ~c.full /\ c.from = t -> c.to
      [] OTHER -> Garbled

\* The editor reports what the user or setText has changed.
Reported(l, s, t) ==
    IF mode = "LOADING" \/ s = t THEN l ELSE AddChange(l, Edited(s, t))

-----------------------------------------------------------------------------
\* activate() ends with the call of setProblem.
Init ==
    /\ mode = "LOADING" /\ readOnly = TRUE /\ onClean = "none"
    /\ text = Empty
    /\ list = [state |-> "CLEAN", unsent |-> <<>>, inTransmission |-> <<>>]
    /\ flushing = FALSE /\ pollTimer = "absent" /\ checking = FALSE
    /\ call = [c \in Calls |-> IF c = "setProblem" THEN "sent" ELSE "idle"]
    /\ submitted = Empty
    /\ loaded = [doc |-> Empty, isNew |-> FALSE]
    /\ dialog = "none"
    /\ loggedIn = TRUE /\ problemSet = FALSE /\ future = "none"
    /\ skeleton \in {Empty, Skeleton}
    /\ \/ changed = FALSE /\ doc = Empty
       \/ changed = TRUE /\ doc = Earlier
    /\ edits = 0 /\ presses = 0 /\ failures = 0 /\ expiries = 0

-----------------------------------------------------------------------------
(* The user.                                                               *)

\* Mutant: the edit is taken for the one after it.
EditAhead ==
    /\ ~readOnly
    /\ edits < MaxEdits
    /\ edits' = edits + 1
    /\ text' = 4 + edits'
    /\ list' = Reported(list, text, text')
    /\ UNCHANGED <<mode, readOnly, onClean, timerVars, callVars, dialog,
                   serverVars, presses, failures, expiries>>

Edit ==
    /\ ~readOnly
    /\ edits < MaxEdits
    /\ edits' = edits + 1
    /\ text' = 3 + edits'
    /\ list' = Reported(list, text, text')
    /\ UNCHANGED <<mode, readOnly, onClean, timerVars, callVars, dialog,
                   serverVars, presses, failures, expiries>>

\* doSubmit: the call of submit with the text of the editor.  c is the state of
\* the calls so far.
DoSubmit(c) ==
    /\ mode' = "IN_PROGRESS"
    /\ readOnly' = TRUE
    /\ onClean' = "submit"
    /\ submitted' = text
    /\ call' = [c EXCEPT !["submit"] = "sent"]
    /\ UNCHANGED text

\* doResetProblem: the skeleton, as a full text change, and done.
DoReset(c, l) ==
    /\ text' = skeleton
    /\ list' = AddChange(l, FullText(skeleton))
    /\ mode' = "EDITING"
    /\ readOnly' = FALSE
    /\ onClean' = "none"
    /\ call' = c
    /\ UNCHANGED submitted

RunCallback(b, c, l) ==
    \/ b = "submit" /\ DoSubmit(c) /\ list' = l
    \/ b = "reset" /\ DoReset(c, l)

\* Mutant: the editor is not locked while the callback waits.
PressUnlocked(b) ==
    /\ presses < MaxPresses
    /\ presses' = presses + 1
    /\ UserWaits => mode # "LOADING"
    /\ onClean = "none"
    /\ \/ /\ list.state = "CLEAN"
          /\ RunCallback(b, call, list)
       \/ /\ list.state # "CLEAN"
          /\ onClean' = b
          /\ mode' = "PENDING"
          /\ UNCHANGED <<readOnly, text, list, call, submitted>>
    /\ UNCHANGED <<timerVars, loaded, dialog, serverVars, edits, failures, expiries>>

\* Mutant: the state of the change list is not looked at.
PressAtOnce(b) ==
    /\ presses < MaxPresses
    /\ presses' = presses + 1
    /\ UserWaits => mode # "LOADING"
    /\ onClean = "none"
    /\ RunCallback(b, call, list)
    /\ UNCHANGED <<timerVars, loaded, dialog, serverVars, edits, failures, expiries>>

\* runWhenClean; a press while a callback is installed does nothing.
Press(b) ==
    /\ presses < MaxPresses
    /\ presses' = presses + 1
    /\ UserWaits => mode # "LOADING"
    /\ onClean = "none"
    /\ \/ /\ list.state = "CLEAN"
          /\ RunCallback(b, call, list)
       \/ /\ list.state # "CLEAN"
          /\ onClean' = b
          /\ readOnly' = TRUE
          /\ mode' = "PENDING"
          /\ UNCHANGED <<text, list, call, submitted>>
    /\ UNCHANGED <<timerVars, loaded, dialog, serverVars, edits, failures, expiries>>

-----------------------------------------------------------------------------
(* The timers of the page.                                                 *)

FlushTimer ==
    /\ flushing
    /\ list.state = "UNSENT"
    /\ list' = BeginTransmit(list)
    /\ call' = [call EXCEPT !["log"] = "sent"]
    /\ UNCHANGED <<mode, readOnly, onClean, text, timerVars, submitted, loaded,
                   dialog, serverVars, countVars>>

PollTimer ==
    /\ pollTimer = "running"
    /\ ~checking
    /\ checking' = TRUE
    /\ call' = [call EXCEPT !["check"] = "sent"]
    /\ UNCHANGED <<pageVars, flushing, pollTimer, submitted, loaded, dialog,
                   serverVars, countVars>>

-----------------------------------------------------------------------------
(* The server carries out a call.                                          *)

Answer(c, r) == call' = [call EXCEPT ![c] = r]

Unauthenticated(c) ==
    /\ call[c] = "sent"
    /\ \/ ~loggedIn
       \/ ~problemSet /\ c \in {"load", "submit", "check"}
    /\ Answer(c, "auth")
    /\ UNCHANGED <<pageVars, timerVars, submitted, loaded, dialog, serverVars, countVars>>

SetProblem ==
    /\ call["setProblem"] = "sent" /\ loggedIn
    /\ problemSet' = TRUE
    /\ Answer("setProblem", "ok")
    /\ UNCHANGED <<pageVars, timerVars, submitted, loaded, dialog, loggedIn,
                   future, docVars, countVars>>

LoadCurrentText ==
    /\ call["load"] = "sent" /\ loggedIn /\ problemSet
    /\ loaded' = [doc |-> IF changed THEN doc ELSE skeleton, isNew |-> ~changed]
    /\ Answer("load", "ok")
    /\ UNCHANGED <<pageVars, timerVars, submitted, dialog, serverVars, countVars>>

LogChange ==
    /\ call["log"] = "sent" /\ loggedIn
    /\ doc' = FoldLeft(Apply, doc, list.inTransmission)
    /\ changed' = TRUE
    /\ Answer("log", "ok")
    /\ UNCHANGED <<pageVars, timerVars, submitted, loaded, dialog, sessionVars,
                   skeleton, countVars>>

\* submit stores the text; the submit service may then refuse it.
Submit ==
    /\ call["submit"] = "sent" /\ loggedIn /\ problemSet
    /\ doc' = submitted
    /\ changed' = TRUE
    /\ \/ /\ future' = "pending"
          /\ Answer("submit", "ok")
          /\ UNCHANGED failures
       \/ /\ failures < MaxFailures
          /\ failures' = failures + 1
          /\ Answer("submit", "failed")
          /\ UNCHANGED future
    /\ UNCHANGED <<pageVars, timerVars, submitted, loaded, dialog, loggedIn,
                   problemSet, skeleton, edits, presses, expiries>>

\* checkSubmission: a result; an exception, because the submission ended with an
\* error or because there is none in the session; or nothing yet.
CheckSubmission ==
    /\ call["check"] = "sent" /\ loggedIn /\ problemSet
    /\ \/ /\ future = "ready"
          /\ future' = "none"
          /\ Answer("check", "ok")
          /\ UNCHANGED failures
       \/ /\ future = "ready" /\ failures < MaxFailures
          /\ failures' = failures + 1
          /\ future' = "none"
          /\ Answer("check", "failed")
       \/ /\ future = "none"
          /\ Answer("check", "failed")
          /\ UNCHANGED <<future, failures>>
       \/ /\ future = "pending"
          /\ Answer("check", "pending")
          /\ UNCHANGED <<future, failures>>
    /\ UNCHANGED <<pageVars, timerVars, submitted, loaded, dialog, loggedIn,
                   problemSet, docVars, edits, presses, expiries>>

\* The submit service has a result or an error.
Tested ==
    /\ future = "pending"
    /\ future' = "ready"
    /\ UNCHANGED <<pageVars, timerVars, callVars, dialog, loggedIn, problemSet,
                   docVars, countVars>>

\* A request or a reply is lost.
Lost(c) ==
    /\ call[c] \in {"sent", "ok", "pending"}
    /\ failures < MaxFailures
    /\ failures' = failures + 1
    /\ Answer(c, "failed")
    /\ UNCHANGED <<pageVars, timerVars, submitted, loaded, dialog, serverVars,
                   edits, presses, expiries>>

SessionExpires ==
    /\ loggedIn
    /\ expiries < MaxExpiries
    /\ expiries' = expiries + 1
    /\ loggedIn' = FALSE /\ problemSet' = FALSE /\ future' = "none"
    /\ UNCHANGED <<pageVars, timerVars, callVars, dialog, docVars, edits, presses,
                   failures>>

-----------------------------------------------------------------------------
(* The page receives the reply of a call.                                  *)

\* onSuccess of setProblem.
ProblemApproved ==
    /\ call["setProblem"] = "ok"
    /\ call' = [call EXCEPT !["setProblem"] = "idle", !["load"] = "sent"]
    /\ flushing' = TRUE
    /\ pollTimer' = "stopped"
    /\ UNCHANGED <<pageVars, checking, submitted, loaded, dialog, serverVars, countVars>>

\* onSuccess of loadCurrentText.  setText makes the editor report a change unless
\* the page is loading.
TextLoaded ==
    /\ call["load"] = "ok"
    /\ Answer("load", "idle")
    /\ text' = loaded.doc
    /\ LET initial == IF loaded.isNew /\ loaded.doc # Empty
                      THEN AddChange(list, FullText(loaded.doc)) ELSE list
       IN  list' = Reported(initial, text, loaded.doc)
    /\ readOnly' = FALSE
    /\ mode' = "EDITING"
    /\ UNCHANGED <<onClean, timerVars, submitted, loaded, dialog, serverVars, countVars>>

\* onSuccess of logChange when nobody listens to the change list.
ChangesLoggedUnheard ==
    /\ call["log"] = "ok"
    /\ list' = EndTransmitSuccess(list)
    /\ Answer("log", "idle")
    /\ UNCHANGED <<mode, readOnly, onClean, text, submitted, timerVars, loaded,
                   dialog, serverVars, countVars>>

\* onSuccess of logChange: endTransmit, whose event runs a pending callback.
ChangesLogged ==
    /\ call["log"] = "ok"
    /\ LET l == EndTransmitSuccess(list)
           c == [call EXCEPT !["log"] = "idle"]
       IN  \/ /\ l.state = "CLEAN" /\ mode = "PENDING"
              /\ RunCallback(onClean, c, l)
           \/ /\ ~(l.state = "CLEAN" /\ mode = "PENDING")
              /\ list' = l /\ call' = c
              /\ UNCHANGED <<mode, readOnly, onClean, text, submitted>>
    /\ UNCHANGED <<timerVars, loaded, dialog, serverVars, countVars>>

\* Mutant: the transmission is not ended.
ChangesNotLoggedOpen ==
    /\ call["log"] = "failed"
    /\ Answer("log", "idle")
    /\ UNCHANGED <<pageVars, timerVars, submitted, loaded, dialog, serverVars, countVars>>

\* onFailure of logChange.
ChangesNotLogged ==
    /\ call["log"] = "failed"
    /\ Answer("log", "idle")
    /\ list' = EndTransmitFailure(list)
    /\ UNCHANGED <<mode, readOnly, onClean, text, timerVars, submitted, loaded,
                   dialog, serverVars, countVars>>

\* onSuccess of submit.  Without the timer this handler throws.
SubmissionAccepted ==
    /\ call["submit"] = "ok"
    /\ Answer("submit", "idle")
    /\ pollTimer' = IF pollTimer = "absent" THEN "absent" ELSE "running"
    /\ UNCHANGED <<pageVars, flushing, checking, submitted, loaded, dialog,
                   serverVars, countVars>>

\* Mutant: the timer is not cancelled.
ResultReceivedPolling ==
    /\ call["check"] = "ok"
    /\ Answer("check", "idle")
    /\ checking' = FALSE
    /\ mode' = "EDITING" /\ readOnly' = FALSE /\ onClean' = "none"
    /\ UNCHANGED <<text, list, flushing, pollTimer, submitted, loaded, dialog,
                   serverVars, countVars>>

\* onSuccess of checkSubmission with a result: doneWithOnCleanCallback.
ResultReceived ==
    /\ call["check"] = "ok"
    /\ Answer("check", "idle")
    /\ checking' = FALSE
    /\ pollTimer' = "stopped"
    /\ mode' = "EDITING" /\ readOnly' = FALSE /\ onClean' = "none"
    /\ UNCHANGED <<text, list, flushing, submitted, loaded, dialog, serverVars, countVars>>

\* Mutant: the flag that a check is under way is not reset.
NoResultYetChecking ==
    /\ call["check"] = "pending"
    /\ Answer("check", "idle")
    /\ UNCHANGED <<pageVars, timerVars, submitted, loaded, dialog, serverVars, countVars>>

\* onSuccess of checkSubmission without a result: the timer keeps running.
NoResultYet ==
    /\ call["check"] = "pending"
    /\ Answer("check", "idle")
    /\ checking' = FALSE
    /\ UNCHANGED <<pageVars, flushing, pollTimer, submitted, loaded, dialog,
                   serverVars, countVars>>

\* onFailure of checkSubmission: the timer stops, and nothing else happens.
CheckFailed ==
    /\ call["check"] = "failed"
    /\ Answer("check", "idle")
    /\ checking' = FALSE
    /\ pollTimer' = "stopped"
    /\ UNCHANGED <<pageVars, flushing, submitted, loaded, dialog, serverVars, countVars>>

\* onFailure of the other calls shows a message only.
OnlyReported(c) ==
    /\ c \in {"setProblem", "load", "submit"}
    /\ call[c] = "failed"
    /\ Answer(c, "idle")
    /\ UNCHANGED <<pageVars, timerVars, submitted, loaded, dialog, serverVars, countVars>>

-----------------------------------------------------------------------------
(* The recovery from an expired session (CloudCoderPage).                  *)

\* A call fails with an authentication exception: it is put in the list of
\* calls to retry, and the dialog is shown if it is the first.
Recover(c) ==
    /\ call[c] = "auth"
    /\ Answer(c, "expired")
    /\ dialog' = IF dialog = "none" THEN "login" ELSE dialog
    /\ UNCHANGED <<pageVars, timerVars, submitted, loaded, serverVars, countVars>>

\* The user logs in.  The problem of the session is not restored.
Login ==
    /\ dialog = "login"
    /\ loggedIn' = TRUE
    /\ dialog' = "resume"
    /\ UNCHANGED <<pageVars, timerVars, callVars, problemSet, future, docVars, countVars>>

\* executeRecoveryCallbacks, after the reply of setActivity.
Resume ==
    /\ dialog = "resume"
    /\ dialog' = "none"
    /\ call' = [c \in Calls |-> IF call[c] = "expired" THEN "sent" ELSE call[c]]
    /\ UNCHANGED <<pageVars, timerVars, submitted, loaded, serverVars, countVars>>

-----------------------------------------------------------------------------
User == Edit \/ \E b \in {"submit", "reset"} : Press(b)
Timers == FlushTimer \/ PollTimer
Handlers ==
    \/ SetProblem \/ LoadCurrentText \/ LogChange \/ Submit \/ CheckSubmission
    \/ \E c \in Calls : Unauthenticated(c)
Replies ==
    \/ ProblemApproved \/ TextLoaded \/ ChangesLogged \/ ChangesNotLogged
    \/ SubmissionAccepted \/ ResultReceived \/ NoResultYet \/ CheckFailed
    \/ \E c \in Calls : OnlyReported(c) \/ Recover(c)
Faults == SessionExpires \/ \E c \in Calls : Lost(c)

Next == User \/ Timers \/ Handlers \/ Tested \/ Replies \/ Login \/ Resume \/ Faults

Spec == Init /\ [][Next]_vars

(***************************************************************************)
(* The timers fire, every call is carried out and answered, the submit     *)
(* service answers, and the user logs in when the dialog asks for it.      *)
(***************************************************************************)
FairSpec ==
    /\ Spec
    /\ WF_vars(FlushTimer) /\ WF_vars(PollTimer)
    /\ \A c \in Calls : /\ WF_vars(Handlers /\ call'[c] # call[c])
                        /\ WF_vars(Replies /\ call'[c] # call[c])
    /\ WF_vars(Tested) /\ WF_vars(Login) /\ WF_vars(Resume)

-----------------------------------------------------------------------------
\* A page with a clean list shows what the stored changes lead to, unless a call
\* has failed: the text is loaded before it is edited, edits are reported when
\* and only when they should be, and a reset replaces both.
SavedIsShown ==
    mode # "LOADING" /\ list.state = "CLEAN" /\ failures = 0 => doc = text

\* From the press of a button until its callback is done the editor is locked,
\* and what is tested is what the editor shows.
LockedWhileBusy ==
    /\ onClean # "none" => readOnly
    /\ mode = "IN_PROGRESS" => text = submitted

\* A callback that waits will be run: the list it waits for is not clean yet, so
\* that the event it needs is still to come.
PendingWillRun ==
    mode = "PENDING" => onClean # "none" /\ list.state # "CLEAN"

\* The page polls for its submission only: the timer exists when the submission
\* has been accepted, and runs only until the callback is done.
PollsForSubmission ==
    /\ call["submit"] = "ok" => pollTimer = "stopped"
    /\ pollTimer = "running" => onClean = "submit" /\ mode = "IN_PROGRESS"
    /\ checking <=> call["check"] # "idle"

\* The changes that a callback waits for get stored, and the callback runs.
PendingRuns == mode = "PENDING" ~> mode = "IN_PROGRESS" \/ onClean = "none"

\* Every submission and every reset comes to its end, which unlocks the editor
\* and admits the next one, as long as no call fails and the session lives.
CallbackCompletes ==
    onClean # "none" ~> onClean = "none" \/ failures > 0 \/ expiries > 0

\* DevelopmentPage.java:346: when the server carries out a submission it already
\* has the text, so that storing the text again changes nothing.
SubmissionInSync ==
    [][call["submit"] = "sent" /\ call'["submit"] = "ok" /\ failures = 0
           => doc = submitted]_vars
=============================================================================
